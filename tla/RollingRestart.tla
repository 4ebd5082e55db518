---------------------------- MODULE RollingRestart ----------------------------
(***************************************************************************)
(* How the instances of a cluster stop and come back: the restart that an  *)
(* administrator asks for, which every instance hears and starts in its    *)
(* turn, the SIGTERM it sends itself or gets from the operator, the drain, *)
(* and the leader lease, which is given up on the way out.                 *)
(*                                                                         *)
(* Hosts are numbered in the order of their instance ids.  A tick is the   *)
(* unit of the stagger, the drain and the boot; the event loop, the bridge *)
(* and a free lease are served within it, and a process that has handed    *)
(* over is gone within it.  What a LeaseKeeper does in detail is in the    *)
(* module of that name.                                                    *)
(***************************************************************************)
EXTENDS Integers, Sequences, FiniteSets

CONSTANTS
    Host,       \* instances of the cluster
    Stagger,    \* _RESTART_STAGGER_S
    DrainTime,  \* LYNDRIX_DRAIN_SECONDS; 0 installs no handler
    BootTime,   \* from the end of a process to its successor's readiness
    Requests,   \* bound on the requests to restart
    Stops       \* bound on the SIGTERMs of the operator

ASSUME RestartAssumption ==
    /\ IsFiniteSet(Host) /\ Host \subseteq Nat \ {0}
    /\ {Stagger, DrainTime, BootTime, Requests, Stops} \subseteq Nat

Nobody == 0

VARIABLES
    stage,    \* of the process of a host
    timer,    \* what is left of its drain or of its boot
    ends,     \* ClusterService.draining: readiness() gives 503
    keeps,    \* stop() of its LeaseKeeper has not been tried
    naps,     \* what its handlers of system:restart_requested still sleep
    unheard,  \* the requests the bridge has not given it yet
    orders,   \* the "order" of the requests
    stops,    \* SIGTERMs of the operator
    lead,     \* holder of the leader lease
    moves,    \* how often it was taken
    regular   \* nothing but one request that knew the cluster has happened

restartVars ==
    <<stage, timer, ends, keeps, naps, unheard, orders, stops, lead, moves, regular>>

Asked == 1..Requests
Alive   == {h \in Host : stage[h] \in {"up", "drains"}}

\* readiness(), as far as this module goes: the database and Vault are there.
IsReady(h) == stage[h] \in {"up", "drains", "hands over", "leaves"} /\ ~ends[h]

RestartInit ==
    /\ stage = [h \in Host |-> "up"]
    /\ timer = [h \in Host |-> 0]
    /\ ends = [h \in Host |-> FALSE]
    /\ keeps = [h \in Host |-> TRUE]
    /\ naps = [h \in Host |-> {}]
    /\ unheard = [h \in Host |-> {}]
    /\ orders = <<>>
    /\ stops = 0
    /\ lead \in Host
    /\ moves = 0
    /\ regular = TRUE

-----------------------------------------------------------------------------
(* The request.                                                            *)

\* The places in the list of a requester that believes the instances of view to
\* be alive and leader to be the leader, who goes last.  And a wrong variant.
Sorted(view, leader) == [h \in view |-> Cardinality({g \in view : g < h})]
Order(view, leader) == [h \in view |->
    IF h = leader THEN Cardinality(view) - 1 ELSE Cardinality({g \in view \ {leader} : g < h})]

\* The requester's list is as old as its heartbeat: it may lack instances and
\* the leader, and hold some that are gone.
RequestRestart(h, view, leader) ==
    /\ h \in Alive /\ Len(orders) < Requests
    /\ orders' = Append(orders, Order(view, leader))
    /\ unheard' = [g \in Host |->
           IF g \in Alive THEN unheard[g] \cup {Len(orders) + 1} ELSE unheard[g]]
    /\ regular' = (regular /\ orders = <<>> /\ view = Host /\ leader = lead /\ Alive = Host)
    /\ UNCHANGED <<stage, timer, ends, keeps, naps, stops, lead, moves>>

\* An instance the order does not name goes after all it names.
Turn(order, h) == IF h \in DOMAIN order THEN order[h] ELSE Cardinality(DOMAIN order)

OnRestartRequested(h, r) ==
    /\ r \in unheard[h] /\ h \in Alive
    /\ unheard' = [unheard EXCEPT ![h] = @ \ {r}]
    /\ naps' = [naps EXCEPT ![h] =
           @ \cup {[of |-> r, left |-> Turn(orders[r], h) * Stagger]}]
    /\ UNCHANGED <<stage, timer, ends, keeps, orders, stops, lead, moves, regular>>

-----------------------------------------------------------------------------
(* SIGTERM.                                                                *)

\* The lease of a process that is gone stays with it until its time is over.
ProcessEnds(h) ==
    /\ stage' = [stage EXCEPT ![h] = "boots"]
    /\ timer' = [timer EXCEPT ![h] = BootTime]
    /\ unheard' = [unheard EXCEPT ![h] = {}]
    /\ naps' = [naps EXCEPT ![h] = {}]

\* The first one starts the drain; the next one is forwarded, with which
\* asyncio gives the signal its default action, so that a third one kills.
Sigterm(h, napsLeft) ==
    \/ /\ stage[h] = "up" /\ DrainTime > 0
       /\ stage' = [stage EXCEPT ![h] = "drains"]
       /\ timer' = [timer EXCEPT ![h] = DrainTime]
       /\ naps' = napsLeft
       /\ UNCHANGED unheard
    \/ /\ stage[h] \in {"drains", "hands over"} \/ (stage[h] = "up" /\ DrainTime = 0)
       /\ stage' = [stage EXCEPT ![h] = "leaves"]
       /\ timer' = [timer EXCEPT ![h] = 0]
       /\ naps' = napsLeft
       /\ UNCHANGED unheard
    \/ stage[h] = "leaves" /\ ProcessEnds(h)

WakesUp(h) ==
    \E nap \in naps[h] :
        /\ nap.left = 0
        /\ Sigterm(h, [naps EXCEPT ![h] = @ \ {nap}])
        /\ UNCHANGED <<ends, keeps, orders, stops, lead, moves, regular>>

OperatorStops(h) ==
    /\ stops < Stops /\ stage[h] # "boots"
    /\ stops' = stops + 1
    /\ regular' = FALSE
    /\ Sigterm(h, naps)
    /\ UNCHANGED <<ends, keeps, orders, lead, moves>>

-----------------------------------------------------------------------------
(* The drain, and the way out.                                             *)

\* _drain() after its sleep: the streams are closed, then _on_drain().
DrainEnds(h) ==
    /\ stage[h] = "drains" /\ timer[h] = 0
    /\ stage' = [stage EXCEPT ![h] = "hands over"]
    /\ ends' = [ends EXCEPT ![h] = TRUE]
    /\ UNCHANGED <<timer, keeps, naps, unheard, orders, stops, lead, moves, regular>>

\* stop() releases what is held, which may fail or take longer than the ten
\* seconds it is given; the signal is forwarded all the same.
LeaseReleased(h, released) ==
    /\ lead' = IF released /\ lead = h THEN Nobody ELSE lead
    /\ regular' = (regular /\ (released \/ lead # h))

HandsOver(h, released) ==
    /\ stage[h] = "hands over"
    /\ stage' = [stage EXCEPT ![h] = "leaves"]
    /\ keeps' = [keeps EXCEPT ![h] = FALSE]
    /\ LeaseReleased(h, released)
    /\ UNCHANGED <<timer, ends, naps, unheard, orders, stops, moves>>

\* uvicorn ends, and with it, in shutdown_event(), stop(), for the first time if
\* the drain was cut short; what it has tried to release it does not try again.
ShutsDown(h, released) ==
    /\ stage[h] = "leaves"
    /\ ProcessEnds(h)
    /\ ends' = [ends EXCEPT ![h] = TRUE]
    /\ IF keeps[h] THEN LeaseReleased(h, released) ELSE UNCHANGED <<lead, regular>>
    /\ UNCHANGED <<keeps, orders, stops, moves>>

Boots(h) ==
    /\ stage[h] = "boots" /\ timer[h] = 0
    /\ stage' = [stage EXCEPT ![h] = "up"]
    /\ ends' = [ends EXCEPT ![h] = FALSE]
    /\ keeps' = [keeps EXCEPT ![h] = TRUE]
    /\ UNCHANGED <<timer, naps, unheard, orders, stops, lead, moves, regular>>

\* The keeper of a host that drains goes on, until _on_drain() stops it.
TakesLead(h) ==
    /\ lead = Nobody /\ h \in Alive
    /\ lead' = h
    /\ moves' = moves + 1
    /\ UNCHANGED <<stage, timer, ends, keeps, naps, unheard, orders, stops, regular>>

LeaseRunsOut ==
    /\ lead # Nobody /\ lead \notin Alive
    /\ lead' = Nobody
    /\ UNCHANGED <<stage, timer, ends, keeps, naps, unheard, orders, stops, moves, regular>>

-----------------------------------------------------------------------------
(* Time passes when nothing is due.                                        *)

Due ==
    \/ lead = Nobody /\ Alive # {}
    \/ \E h \in Host :
          \/ unheard[h] # {} \/ \E nap \in naps[h] : nap.left = 0
          \/ stage[h] \in {"hands over", "leaves"}
          \/ stage[h] \in {"drains", "boots"} /\ timer[h] = 0

RestartTicks ==
    /\ ~Due
    /\ \E h \in Host : timer[h] > 0 \/ naps[h] # {}
    /\ timer' = [h \in Host |-> IF timer[h] > 0 THEN timer[h] - 1 ELSE 0]
    /\ naps' = [h \in Host |-> {[nap EXCEPT !.left = @ - 1] : nap \in naps[h]}]
    /\ UNCHANGED <<stage, ends, keeps, unheard, orders, stops, lead, moves, regular>>

RestartNext ==
    \/ \E h \in Host, view \in SUBSET Host \ {{}}, leader \in Host \cup {Nobody} :
          RequestRestart(h, view, leader)
    \/ \E h \in Host, r \in Asked : OnRestartRequested(h, r)
    \/ \E h \in Host :
          \/ WakesUp(h) \/ OperatorStops(h)
          \/ DrainEnds(h) \/ Boots(h) \/ TakesLead(h)
          \/ \E released \in BOOLEAN : HandsOver(h, released) \/ ShutsDown(h, released)
    \/ LeaseRunsOut \/ RestartTicks

RestartSpec == RestartInit /\ [][RestartNext]_restartVars
-----------------------------------------------------------------------------
Nap == [of : Asked, left : Nat]
List == UNION {[view -> 0..Cardinality(Host)] : view \in SUBSET Host}

RestartTypeOK ==
    /\ stage \in [Host -> {"up", "drains", "hands over", "leaves", "boots"}]
    /\ timer \in [Host -> 0..(DrainTime + BootTime)]
    /\ ends \in [Host -> BOOLEAN] /\ keeps \in [Host -> BOOLEAN]
    /\ naps \in [Host -> SUBSET Nap]
    /\ unheard \in [Host -> SUBSET DOMAIN orders]
    /\ orders \in Seq(List) /\ Len(orders) <= Requests
    /\ stops \in 0..Stops /\ moves \in Nat
    /\ lead \in Host \cup {Nobody}
    /\ regular \in BOOLEAN

\* A restart of the cluster, asked for by an instance that knew all of it, on
\* hosts that boot within the stagger, leaves an instance ready at every moment,
\* if there are several, and moves the leadership at most once, although the
\* drains of several hosts overlap: the leader goes last, and nobody takes the
\* lead who has still to go.
RestartRolls ==
    regular /\ BootTime < Stagger =>
        /\ Cardinality(Host) > 1 => \E h \in Host : IsReady(h)
        /\ moves <= 1

\* What the documents say: from the SIGTERM on, for as long as the drain lasts,
\* /api/ready answers 503, so that the load balancer takes the instance out.
DrainAnswers503 == \A h \in Host : stage[h] = "drains" => ~IsReady(h)
=============================================================================

----------------------------- MODULE LeaseKeeper -----------------------------
(***************************************************************************)
(* Named leases of the lyndrix-core cluster: the LeaseKeeper of every      *)
(* instance (cluster/logic/leases.py) working on the shared table          *)
(* cluster_leases through the db driver (cluster/logic/drivers/db.py), as  *)
(* used by ClusterService and by ctx.on_lease / ctx.release_lease.         *)
(*                                                                         *)
(* Every call to the database runs in a worker thread, so a call is three  *)
(* steps: the keeper sends it, the statement commits (or fails), and the   *)
(* event loop takes the answer.  Everything that does not hold the         *)
(* keeper's lock may happen in between.                                    *)
(*                                                                         *)
(* Time is counted in whole ticks and kept relative: how long a row still  *)
(* lives, how long ago a lease was renewed.  No clock grows, so no bound   *)
(* on time is needed.  Clock rates are taken to be equal.                  *)
(***************************************************************************)
EXTENDS Integers, FiniteSets

CONSTANTS
    Keeper,     \* instance ids, stable over restarts
    Lease,        \* lease names
    Nobody,       \* the holder of an absent row
    TTL,          \* lease time to live
    Heartbeat,    \* longest sleep between two passes
    AnswerDelay,  \* longest time from a commit to the keeper reading its answer
    Disturbs       \* what callers, operators and the infrastructure may do

LeaseEvents == {"forget", "release_now", "force_release", "stop", "crash", "unreachable"}

ASSUME LeaseAssumption ==
    /\ Nobody \notin Keeper
    /\ Nobody \notin Lease
    /\ TTL \in Nat \ {0}
    /\ Heartbeat \in Nat \ {0}
    /\ AnswerDelay \in Nat
    /\ Disturbs \subseteq LeaseEvents

VARIABLES
    holder,   \* cluster_leases.holder
    ttlLeft,     \* ticks until cluster_leases.expires_at < now; 0: expired or absent
    proc,     \* the instance's process
    wanted,   \* LeaseKeeper._wanted (names)
    held,     \* LeaseKeeper._held (names)
    renewedAgo,      \* ticks since the time stored in _held, counted up to TTL + 1
    working,  \* leases whose owner was told "acquired" and not yet "lost"
    phase,    \* where the keeper's loop is
    todo,     \* leases the running pass has still to try
    target,   \* lease of the try_acquire in flight
    flight,   \* ticks since that try_acquire committed
    releases, \* releases in flight
    orphans,  \* try_acquire threads whose awaiting task was cancelled
    slept     \* ticks the loop has slept

table   == <<holder, ttlLeft>>
local   == <<wanted, held, renewedAgo, working>>
loop    == <<phase, todo, target, flight, slept>>
leaseVars    == <<table, proc, local, loop, releases, orphans>>

KeeperPhase   == {"asleep", "pass", "sent", "yes", "no", "error"}
Release == [lease: Lease, kind: {"forget", "release_now", "force"}, sent: BOOLEAN]
MaxAge  == TTL + 1

-----------------------------------------------------------------------------
(* The rows of cluster_leases.                                             *)

\* _try_acquire_sync matches the row of this instance, a row whose
\* expires_at < now, or inserts an absent one.
TakesNeverExpired(i, l) == holder[l] \in {i, Nobody}

TakesEarly(i, l) == holder[l] \in {i, Nobody} \/ ttlLeft[l] <= 1

Takes(i, l) == holder[l] \in {i, Nobody} \/ ttlLeft[l] = 0

\* A wrong variant, for the checks of the properties.
TakeRowRoundedUp(i, l) ==
    /\ holder' = [holder EXCEPT ![l] = i]
    /\ \E rest \in {TTL + 1, TTL + 2} : ttlLeft' = [ttlLeft EXCEPT ![l] = rest]

\* expires_at is a DATETIME of whole seconds: the fraction of now + ttl is lost.
TakeRow(i, l) ==
    /\ holder' = [holder EXCEPT ![l] = i]
    /\ \E rest \in {TTL, TTL + 1} : ttlLeft' = [ttlLeft EXCEPT ![l] = rest]

NotHeld(i, l) ==
    /\ held' = [held EXCEPT ![i] = @ \ {l}]
    /\ renewedAgo' = [renewedAgo EXCEPT ![i][l] = 0]

DropRows(S) ==
    /\ holder' = [l \in Lease |-> IF l \in S THEN Nobody ELSE holder[l]]
    /\ ttlLeft' = [l \in Lease |-> IF l \in S THEN 0 ELSE ttlLeft[l]]

-----------------------------------------------------------------------------
(* The keeper's public operations.                                         *)

\* want(): a late callback on a held lease gets its "acquired" at once.
Want(i, l) ==
    /\ proc[i] = "up" /\ l \notin wanted[i]
    /\ wanted' = [wanted EXCEPT ![i] = @ \cup {l}]
    /\ working' = [working EXCEPT ![i] = IF l \in held[i] THEN @ \cup {l} ELSE @]
    /\ UNCHANGED <<table, proc, held, renewedAgo, loop, releases, orphans>>

\* forget(): ctx.release_lease asks for the lost callback, a module that is
\* disposed has stopped its own work.
Forget(i, l, fireLost) ==
    /\ "forget" \in Disturbs /\ proc[i] = "up" /\ l \in wanted[i]
    /\ wanted' = [wanted EXCEPT ![i] = @ \ {l}]
    /\ NotHeld(i, l)
    /\ releases' = [releases EXCEPT ![i] =
           IF l \in held[i] THEN @ \cup {[lease |-> l, kind |-> "forget", sent |-> TRUE]} ELSE @]
    /\ working' = [working EXCEPT ![i] =
           IF ~fireLost \/ l \in held[i] THEN @ \ {l} ELSE @]
    /\ UNCHANGED <<table, proc, loop, orphans>>

StartRelease(i, l) ==
    /\ l \in held[i]
    /\ NotHeld(i, l)
    /\ releases' = [releases EXCEPT ![i] =
           @ \cup {[lease |-> l, kind |-> "release_now", sent |-> TRUE]}]
    /\ UNCHANGED <<table, proc, wanted, working, loop, orphans>>

\* release_now() from the admin API, at the instance that holds the lease.
ReleaseNow(i, l) ==
    /\ "release_now" \in Disturbs /\ proc[i] = "up"
    /\ StartRelease(i, l)

\* force_release() from the admin API: an instance that does not hold the lease
\* sends a DELETE for whoever does, and may be the one by the time it commits.
ForceRelease(i, l) ==
    /\ "force_release" \in Disturbs /\ proc[i] = "up" /\ l \notin held[i]
    /\ releases' = [releases EXCEPT ![i] = @ \cup {[lease |-> l, kind |-> "force", sent |-> TRUE]}]
    /\ UNCHANGED <<table, proc, local, loop, orphans>>

Ended(r) == [lease |-> r.lease, kind |-> r.kind, sent |-> FALSE]

\* The DELETE ... WHERE name commits, with AND holder = me unless it is forced;
\* or it fails.
ReleaseCommitAnyHolder(i, r) ==
    /\ r \in releases[i] /\ r.sent
    /\ releases' = [releases EXCEPT ![i] = (@ \ {r}) \cup {Ended(r)}]
    /\ DropRows({r.lease})
    /\ UNCHANGED <<proc, local, loop, orphans>>

ReleaseCommit(i, r) ==
    /\ r \in releases[i] /\ r.sent
    /\ releases' = [releases EXCEPT ![i] = (@ \ {r}) \cup {Ended(r)}]
    /\ DropRows({r.lease} \cap {l \in Lease : r.kind = "force" \/ holder[l] = i})
    /\ UNCHANGED <<proc, local, loop, orphans>>

ReleaseFail(i, r) ==
    /\ "unreachable" \in Disturbs
    /\ r \in releases[i] /\ r.sent
    /\ releases' = [releases EXCEPT ![i] = (@ \ {r}) \cup {Ended(r)}]
    /\ UNCHANGED <<table, proc, local, loop, orphans>>

\* release_now fires "lost" to the callbacks registered by then; the
\* background release of forget() only tells the peers.
ReleaseDone(i, r) ==
    /\ r \in releases[i] /\ ~r.sent
    /\ releases' = [releases EXCEPT ![i] = @ \ {r}]
    /\ working' = [working EXCEPT ![i] =
           IF r.kind = "release_now" /\ r.lease \in wanted[i] THEN @ \ {r.lease} ELSE @]
    /\ UNCHANGED <<table, proc, wanted, held, renewedAgo, loop, orphans>>

-----------------------------------------------------------------------------
(* The loop: one pass (tick) over a snapshot of _wanted, then a sleep that *)
(* ends after a jittered heartbeat or as soon as a peer's release kicks it.*)

StartPass(i) ==
    /\ proc[i] = "up" /\ phase[i] = "asleep"
    /\ phase' = [phase EXCEPT ![i] = "pass"]
    /\ todo' = [todo EXCEPT ![i] = wanted[i]]
    /\ UNCHANGED <<table, proc, local, target, flight, slept, releases, orphans>>

Try(i, l) ==
    /\ proc[i] = "up" /\ phase[i] = "pass" /\ l \in todo[i]
    /\ phase' = [phase EXCEPT ![i] = "sent"]
    /\ todo' = [todo EXCEPT ![i] = @ \ {l}]
    /\ target' = [target EXCEPT ![i] = l]
    /\ UNCHANGED <<table, proc, local, flight, slept, releases, orphans>>

TryCommit(i) ==
    /\ proc[i] = "up" /\ phase[i] = "sent"
    /\ flight' = [flight EXCEPT ![i] = 0]
    /\ \/ /\ Takes(i, target[i])
          /\ TakeRow(i, target[i])
          /\ phase' = [phase EXCEPT ![i] = "yes"]
       \/ /\ ~Takes(i, target[i])
          /\ phase' = [phase EXCEPT ![i] = "no"]
          /\ UNCHANGED table
    /\ UNCHANGED <<proc, local, todo, target, slept, releases, orphans>>

\* The database is out of reach: the statement never ran, or its commit was
\* not acknowledged.
Unreachable(i) ==
    /\ "unreachable" \in Disturbs
    /\ proc[i] = "up" /\ phase[i] \in {"sent", "yes", "no"}
    /\ phase' = [phase EXCEPT ![i] = "error"]
    /\ UNCHANGED <<table, proc, local, todo, target, flight, slept, releases, orphans>>

Acquire(i, l) ==
    /\ held' = [held EXCEPT ![i] = @ \cup {l}]
    /\ renewedAgo' = [renewedAgo EXCEPT ![i][l] = 0]
    /\ working' = [working EXCEPT ![i] =
           IF l \notin held[i] /\ l \in wanted[i] THEN @ \cup {l} ELSE @]

\* Two wrong variants of Lose, for the checks of the properties.
LoseSilently(i, l) == NotHeld(i, l) /\ UNCHANGED working

LoseNothing(i, l) == UNCHANGED <<held, renewedAgo, working>>

Lose(i, l) ==
    /\ NotHeld(i, l)
    /\ working' = [working EXCEPT ![i] = IF l \in wanted[i] THEN @ \ {l} ELSE @]

\* tick() after the await: the renewal time is read when the answer arrives,
\* not when the row was written.
Answer(i) ==
    LET l == target[i]
        lost == l \in held[i] /\ \/ phase[i] = "no"
                                 \/ phase[i] = "error" /\ renewedAgo[i][l] > TTL
    IN
    /\ proc[i] = "up" /\ phase[i] \in {"yes", "no", "error"}
    /\ \/ phase[i] = "yes" /\ Acquire(i, l)
       \/ lost /\ Lose(i, l)
       \/ phase[i] # "yes" /\ ~lost /\ UNCHANGED <<held, renewedAgo, working>>
    /\ phase' = [phase EXCEPT ![i] = "pass"]
    /\ target' = [target EXCEPT ![i] = Nobody]
    /\ flight' = [flight EXCEPT ![i] = 0]
    /\ UNCHANGED <<table, proc, wanted, todo, slept, releases, orphans>>

EndPass(i) ==
    /\ proc[i] = "up" /\ phase[i] = "pass" /\ todo[i] = {}
    /\ phase' = [phase EXCEPT ![i] = "asleep"]
    /\ slept' = [slept EXCEPT ![i] = 0]
    /\ UNCHANGED <<table, proc, local, todo, target, flight, releases, orphans>>

-----------------------------------------------------------------------------
(* Processes.                                                              *)

ClearLoop(i) ==
    /\ phase' = [phase EXCEPT ![i] = "asleep"]
    /\ todo' = [todo EXCEPT ![i] = {}]
    /\ target' = [target EXCEPT ![i] = Nobody]
    /\ flight' = [flight EXCEPT ![i] = 0]
    /\ slept' = [slept EXCEPT ![i] = 0]

\* stop(): the loop task is cancelled; the thread of a try_acquire that was
\* already sent is not.
StopKeeper(i) ==
    /\ "stop" \in Disturbs /\ proc[i] = "up"
    /\ proc' = [proc EXCEPT ![i] = "stopping"]
    /\ orphans' = [orphans EXCEPT ![i] = IF phase[i] = "sent" THEN @ \cup {target[i]} ELSE @]
    /\ ClearLoop(i)
    /\ UNCHANGED <<table, local, releases>>

\* ... then every held lease is released, one after the other.
StopReleases(i, l) ==
    /\ proc[i] = "stopping"
    /\ \A r \in releases[i] : r.kind # "release_now"
    /\ StartRelease(i, l)

ForgetProcess(i) ==
    /\ proc' = [proc EXCEPT ![i] = "down"]
    /\ wanted' = [wanted EXCEPT ![i] = {}]
    /\ held' = [held EXCEPT ![i] = {}]
    /\ renewedAgo' = [renewedAgo EXCEPT ![i] = [l \in Lease |-> 0]]
    /\ working' = [working EXCEPT ![i] = {}]
    /\ ClearLoop(i)

\* coordinator.stop(): _deregister_sync deletes every row of this holder; a
\* failure is only logged.
Deregister(i) ==
    /\ proc[i] = "stopping" /\ held[i] = {} /\ releases[i] = {}
    /\ ForgetProcess(i)
    /\ \/ DropRows({l \in Lease : holder[l] = i})
       \/ "unreachable" \in Disturbs /\ UNCHANGED table
    /\ UNCHANGED <<releases, orphans>>

OrphanEnds(i, l) ==
    /\ l \in orphans[i]
    /\ orphans' = [orphans EXCEPT ![i] = @ \ {l}]
    /\ \/ Takes(i, l) /\ TakeRow(i, l)
       \/ (~Takes(i, l) \/ "unreachable" \in Disturbs) /\ UNCHANGED table
    /\ UNCHANGED <<proc, local, loop, releases>>

\* kill -9, out of memory, power: nothing is released.
Crash(i) ==
    /\ "crash" \in Disturbs
    /\ proc[i] # "down"
    /\ ForgetProcess(i)
    /\ releases' = [releases EXCEPT ![i] = {}]
    /\ orphans' = [orphans EXCEPT ![i] = {}]
    /\ UNCHANGED table

\* The process exits only after its worker threads.
Restart(i) ==
    /\ proc[i] = "down" /\ orphans[i] = {}
    /\ proc' = [proc EXCEPT ![i] = "up"]
    /\ UNCHANGED <<table, local, loop, releases, orphans>>

\* One tick.  The loop's timer is on time, and a success is read within
\* AnswerDelay ticks; how long a call takes before it commits is not bounded.
LeaseTick ==
    /\ \A i \in Keeper : phase[i] = "yes" => flight[i] < AnswerDelay
    /\ \A i \in Keeper : proc[i] = "up" /\ phase[i] = "asleep" => slept[i] < Heartbeat
    /\ ttlLeft' = [l \in Lease |-> IF ttlLeft[l] > 0 THEN ttlLeft[l] - 1 ELSE 0]
    /\ renewedAgo' = [i \in Keeper |-> [l \in Lease |->
          IF l \in held[i] /\ renewedAgo[i][l] < MaxAge THEN renewedAgo[i][l] + 1 ELSE renewedAgo[i][l]]]
    /\ flight' = [i \in Keeper |-> IF phase[i] = "yes" THEN flight[i] + 1 ELSE flight[i]]
    /\ slept' = [i \in Keeper |->
          IF proc[i] = "up" /\ phase[i] = "asleep" THEN slept[i] + 1 ELSE slept[i]]
    /\ UNCHANGED <<holder, proc, wanted, held, working, phase, todo, target, releases, orphans>>

-----------------------------------------------------------------------------
LeaseInit ==
    /\ holder = [l \in Lease |-> Nobody]
    /\ ttlLeft = [l \in Lease |-> 0]
    /\ proc = [i \in Keeper |-> "up"]
    /\ wanted = [i \in Keeper |-> {}]
    /\ held = [i \in Keeper |-> {}]
    /\ renewedAgo = [i \in Keeper |-> [l \in Lease |-> 0]]
    /\ working = [i \in Keeper |-> {}]
    /\ phase = [i \in Keeper |-> "asleep"]
    /\ todo = [i \in Keeper |-> {}]
    /\ target = [i \in Keeper |-> Nobody]
    /\ flight = [i \in Keeper |-> 0]
    /\ releases = [i \in Keeper |-> {}]
    /\ orphans = [i \in Keeper |-> {}]
    /\ slept = [i \in Keeper |-> 0]

LoopStep(i) ==
    \/ StartPass(i) \/ TryCommit(i) \/ Unreachable(i) \/ Answer(i) \/ EndPass(i)
    \/ \E l \in Lease : Try(i, l)

CallerStep(i) ==
    \E l \in Lease :
        \/ Want(i, l)
        \/ \E fireLost \in BOOLEAN : Forget(i, l, fireLost)
        \/ ReleaseNow(i, l)
        \/ ForceRelease(i, l)

ReleaseStep(i) ==
    \E r \in releases[i] : ReleaseCommit(i, r) \/ ReleaseFail(i, r) \/ ReleaseDone(i, r)

ProcessStep(i) ==
    \/ StopKeeper(i) \/ Deregister(i) \/ Crash(i) \/ Restart(i)
    \/ \E l \in Lease : StopReleases(i, l) \/ OrphanEnds(i, l)

LeaseNext ==
    \/ \E i \in Keeper : LoopStep(i) \/ CallerStep(i) \/ ReleaseStep(i) \/ ProcessStep(i)
    \/ LeaseTick

LeaseSpec == LeaseInit /\ [][LeaseNext]_leaseVars

(* The keeper's task keeps running, a release task ends, time passes.  A   *)
(* database that is reached again and again answers some call: without    *)
(* this no lease could ever be taken.                                      *)
LeaseFairness ==
    /\ WF_leaseVars(LeaseTick)
    /\ \A i \in Keeper :
          /\ WF_leaseVars(StartPass(i) \/ Answer(i) \/ EndPass(i))
          /\ WF_leaseVars(Restart(i) \/ Deregister(i))
          /\ SF_leaseVars(Answer(i) /\ phase[i] = "yes") /\ SF_leaseVars(Answer(i) /\ phase[i] = "no")
          /\ \A l \in Lease :
                /\ SF_leaseVars(TryCommit(i) /\ target[i] = l)
                /\ SF_leaseVars(Try(i, l))
                /\ WF_leaseVars(StopReleases(i, l)) /\ WF_leaseVars(OrphanEnds(i, l))
          /\ WF_leaseVars(\E r \in releases[i] : r.sent /\ (ReleaseCommit(i, r) \/ ReleaseFail(i, r)))
          /\ WF_leaseVars(\E r \in releases[i] : ReleaseDone(i, r))

LeaseFairSpec == LeaseSpec /\ LeaseFairness

-----------------------------------------------------------------------------
(* Properties.                                                             *)

LeaseTypeOK ==
    /\ holder \in [Lease -> Keeper \cup {Nobody}]
    /\ ttlLeft \in [Lease -> 0..(TTL + 1)]
    /\ proc \in [Keeper -> {"up", "stopping", "down"}]
    /\ wanted \in [Keeper -> SUBSET Lease]
    /\ held \in [Keeper -> SUBSET Lease]
    /\ renewedAgo \in [Keeper -> [Lease -> 0..MaxAge]]
    /\ working \in [Keeper -> SUBSET Lease]
    /\ phase \in [Keeper -> KeeperPhase]
    /\ todo \in [Keeper -> SUBSET Lease]
    /\ target \in [Keeper -> Lease \cup {Nobody}]
    /\ \A i \in Keeper : phase[i] \notin {"asleep", "pass"} => target[i] \in Lease
    /\ flight \in [Keeper -> 0..AnswerDelay]
    /\ releases \in [Keeper -> SUBSET Release]
    /\ orphans \in [Keeper -> SUBSET Lease]
    /\ slept \in [Keeper -> 0..Heartbeat]

\* A holder whose renewal is so recent that even the slowest answer and the
\* truncated expiry cannot have cost it the row.
Fresh(i, l) == l \in held[i] /\ renewedAgo[i][l] + AnswerDelay < TTL

\* While nobody takes leases back by hand, an instance that renewed recently
\* really owns a live row: crashes, restarts, lost answers, a slow commit and
\* the threads ttlLeft behind by stop() never give the row to a peer earlier.
FreshIsBacked ==
    \A i \in Keeper, l \in Lease : Fresh(i, l) => holder[l] = i /\ ttlLeft[l] > 0

\* The acquired/lost callbacks and the set of held leases tell the same story:
\* the work runs exactly while the lease is held or its release is under way.
WorkerFollowsLease ==
    \A i \in Keeper :
        working[i] = held[i] \cup
            {l \in Lease : \E r \in releases[i] : r.lease = l /\ r.kind = "release_now"}

Forced(i, l) == \E r \in releases[i] : r.lease = l /\ r.sent /\ r.kind = "force"

\* A live row never passes from one instance to another in one step, and only
\* a release (or the deregistration) of its own holder removes it, however
\* late that release arrives; or an administrator forces it.
LiveRowOnlyGivenUp ==
    [][\A l \in Lease :
          ttlLeft[l] > 0 /\ holder[l] # holder'[l] =>
              /\ holder'[l] = Nobody
              /\ \/ proc[holder[l]] = "stopping"
                 \/ \E r \in releases[holder[l]] : r.lease = l /\ r.sent
                 \/ \E i \in Keeper : Forced(i, l)]_leaseVars

\* No instance goes on working for a lease whose row is not its own (any more):
\* the next answers stop it, or it gets the row back.
StaleWorkEnds ==
    \A i \in Keeper, l \in Lease :
        (l \in working[i] /\ holder[l] # i) ~> (l \notin working[i] \/ holder[l] = i)

\* Fail-over: once processes stop coming and going, a lease that a running
\* instance wants is held by a running instance again and again, whatever
\* rows the dead ttlLeft behind.
Takeover ==
    \A l \in Lease :
        \/ []<>(\E i \in Keeper : l \in held[i])
        \/ []<>(\A i \in Keeper : proc[i] # "up" \/ l \notin wanted[i])
        \/ []<><<proc' # proc>>_leaseVars

-----------------------------------------------------------------------------
(* The inductive invariant behind FreshIsBacked and WorkerFollowsLease.    *)
(* The row of a holder outlives its renewal by TTL minus the time the      *)
(* answer travelled; a committed answer not yet read carries the same      *)
(* promise; and a release in flight belongs to a keeper that has stopped,  *)
(* so no answer can bring the lease back behind it.                        *)

Backed(i, l) ==
    l \in held[i] /\ renewedAgo[i][l] + AnswerDelay < TTL =>
        holder[l] = i /\ ttlLeft[l] + renewedAgo[i][l] + AnswerDelay >= TTL

Answered(i) ==
    phase[i] = "yes" /\ AnswerDelay < TTL =>
        holder[target[i]] = i /\ ttlLeft[target[i]] + flight[i] >= TTL

Quiet(i) ==
    /\ proc[i] # "up" => phase[i] = "asleep"
    /\ proc[i] # "stopping" => releases[i] = {}
    /\ proc[i] = "down" => held[i] = {}
    /\ \A r \in releases[i] : r.kind = "release_now" /\ r.lease \notin held[i]

Works(i) ==
    /\ held[i] \subseteq wanted[i]
    /\ todo[i] \subseteq wanted[i]
    /\ phase[i] \in {"sent", "yes", "no", "error"} => target[i] \in wanted[i]
    /\ \A r \in releases[i] : r.lease \in wanted[i]
    /\ \A q, r \in releases[i] : q = r
    /\ working[i] = held[i] \cup
           {l \in Lease : \E r \in releases[i] : r.lease = l /\ r.kind = "release_now"}

\* Nobody gives a lease back by hand while its keeper runs.
NoTakeBack == Disturbs \cap {"forget", "release_now", "force_release"} = {}

QuietInv == \A i \in Keeper : Quiet(i)

LeaseInv == \A i \in Keeper : Answered(i) /\ \A l \in Lease : Backed(i, l)

WorkInv == \A i \in Keeper : Works(i)

-----------------------------------------------------------------------------
(* The lease as its users see it: a row that lives has an owner, and a     *)
(* holder is sure of it as long as its last renewal is recent.             *)

Lock == INSTANCE LeaseLock WITH
    Instance <- Keeper,
    Name <- Lease,
    owner <- [l \in Lease |-> IF ttlLeft[l] > 0 THEN holder[l] ELSE Nobody],
    sure <- [l \in Lease |-> {i \in Keeper : Fresh(i, l)}]

\* While nobody takes leases back by hand, the rows, answers and clocks of the
\* keepers are such a lock: a lease that somebody is sure of never goes to
\* another one without having been free, and nobody is sure from the moment it
\* is taken, only from an answer on.
ImplementsLock == Lock!LockSpec

-----------------------------------------------------------------------------
(* What the documentation promises and the code does not keep.             *)

\* "fires acquired / lost callbacks on transitions": a lease that stays held
\* has its work running.
HolderWorks ==
    \A i \in Keeper, l \in Lease :
        (l \in held[i]) ~> (l \in working[i] \/ l \notin held[i])
=============================================================================

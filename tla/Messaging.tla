------------------------------ MODULE Messaging ------------------------------
(***************************************************************************)
(* The messaging gateway: dispatch() of an outbound message to the         *)
(* registered adapters, the retry worker of an adapter, and the store of   *)
(* pending actions through which a click on a button of the message comes  *)
(* back, on whichever instance, to the plugin that sent it.                *)
(*                                                                         *)
(* The gateways of the instances share only the table                      *)
(* messaging_pending_actions: messages are dispatched on Home, clicks      *)
(* arrive anywhere.  Adapters are registered, and registered again when    *)
(* their plugin is reloaded; the repository never unregisters one.         *)
(***************************************************************************)
EXTENDS Integers, Sequences, FiniteSets

CONSTANTS
    Instance,     \* instance ids
    Home,         \* the instance whose dispatches are followed
    Message,      \* messages, each dispatched once
    Interactive,  \* messages with buttons and a source plugin
    Provider,     \* provider ids of the adapters
    MaxRetries,   \* LYNDRIX_GATEWAY_MAX_RETRY_ATTEMPTS
    QueueSize,    \* of a retry worker
    Registrations,\* bound on how often a provider is registered
    Click,        \* the calls of handle_incoming(): the bound on the clicks
    Happens       \* what may go wrong

Events == {"crash", "register", "write fails", "answer lost", "blip"}

ASSUME ConstantsAssumption ==
    /\ Home \in Instance
    /\ Interactive \subseteq Message
    /\ "none" \notin Message
    /\ MaxRetries \in Nat \ {0}
    /\ QueueSize \in Nat \ {0}
    /\ Registrations \in Nat \ {0}
    /\ Happens \subseteq Events

VARIABLES
    row,      \* messaging_pending_actions, by the message's correlation_id
    cache,    \* CorrelationStore._cache
    expired,  \* messages whose pending action is past expires_at
    out,      \* where dispatch() of a message is, and the targets it has left
    shown,    \* messages a provider has posted
    worker,   \* the worker of a provider (_retry_workers), the n-th made
    queue,    \* its queue and those of the workers replaced by it
    job,      \* what a worker took from its queue
    fate,     \* what became of a message at a provider
    click     \* the calls of handle_incoming()

pending   == <<row, cache, expired>>
delivery  == <<out, shown, worker, queue, job, fate>>
vars      == <<pending, delivery, click>>

Worker == 1..Registrations
Item   == [msg: Message, attempt: 1..MaxRetries]
Ended  == {"delivered", "dead", "dropped", "lost"}
Fate   == Ended \cup {"none", "queued"}

NoMessage == "none"
Idle      == [msg |-> NoMessage, attempt |-> 0]
NoClick   == [at |-> Home, msg |-> NoMessage, cached |-> FALSE, result |-> "none", stage |-> "none"]

-----------------------------------------------------------------------------
(* CorrelationStore.                                                       *)

Live(m) == row[m] = "open" /\ m \notin expired

\* The WHERE of the conditional UPDATE; and a wrong variant.
ClaimAgain(m) == row[m] # "none" /\ m \notin expired
Claimable(m)  == Live(m)

\* create() has filled the cache; its thread writes the row, or only logs that
\* it could not, and dispatch() goes on to the targets.
Write(m) ==
    /\ out[m].step = "create"
    /\ out' = [out EXCEPT ![m] = [step |-> "send", left |-> Provider]]
    /\ \/ row' = [row EXCEPT ![m] = "open"]
       \/ "write fails" \in Happens /\ UNCHANGED row
    /\ UNCHANGED <<cache, expired, shown, worker, queue, job, fate, click>>

\* init_db(), on every db:connected.
Reload(i) ==
    /\ cache' = [cache EXCEPT ![i] = @ \cup {m \in Interactive : Live(m)}]
    /\ UNCHANGED <<row, expired, delivery, click>>

Expire(m) ==
    /\ m \in Interactive \ expired /\ out[m].step # "new"
    /\ expired' = expired \cup {m}
    /\ UNCHANGED <<row, cache, delivery, click>>

\* expire_stale(): rows that were resolved stay.  And a wrong variant.
ExpireOpen(i) ==
    /\ cache' = [cache EXCEPT ![i] = @ \ expired]
    /\ row' = [m \in Message |-> IF row[m] = "open" THEN "none" ELSE row[m]]
    /\ UNCHANGED <<expired, delivery, click>>
ExpireStale(i) ==
    /\ cache' = [cache EXCEPT ![i] = @ \ expired]
    /\ row' = [m \in Message |-> IF row[m] = "open" /\ m \in expired THEN "none" ELSE row[m]]
    /\ UNCHANGED <<expired, delivery, click>>

-----------------------------------------------------------------------------
(* handle_incoming() of a click, and resolve().                            *)

\* The cache gives the entry up whatever becomes of the claim.
Incoming(k, i, m) ==
    /\ click[k].stage = "none" /\ m \in shown \cap Interactive
    /\ \A l \in Click : l < k => click[l].stage # "none"
    /\ click' = [click EXCEPT ![k] = [at |-> i, msg |-> m, cached |-> m \in cache[i],
                                      result |-> "none", stage |-> "claiming"]]
    /\ cache' = [cache EXCEPT ![i] = @ \ {m}]
    /\ UNCHANGED <<row, expired, delivery>>

\* What _claim() returns; "unheard" and "nodb" are what the code calls "error"
\* when the UPDATE has been committed and when it has not.
Result == {"won", "lost", "unheard", "nodb"}

Claim(k, result) ==
    /\ click[k].stage = "claiming"
    /\ CASE result = "won"     -> Claimable(click[k].msg)
         [] result = "lost"    -> ~Claimable(click[k].msg)
         [] result = "unheard" -> "answer lost" \in Happens /\ Claimable(click[k].msg)
         [] result = "nodb"    -> "blip" \in Happens
    /\ click' = [click EXCEPT ![k].result = result, ![k].stage = "claimed"]
    /\ row' = IF result \in {"won", "unheard"} THEN [row EXCEPT ![click[k].msg] = "resolved"]
              ELSE row
    /\ UNCHANGED <<cache, expired, delivery>>

\* Back on the event loop: the resume topic is emitted by who won the row, or
\* who could not ask the database and had the entry cached.
Handles(c) == c.result = "won" \/ (c.result \in {"unheard", "nodb"} /\ c.cached)
Answer(k) ==
    /\ click[k].stage = "claimed"
    /\ click' = [click EXCEPT ![k] = [NoClick EXCEPT !.msg = click[k].msg,
           !.result = click[k].result,
           !.stage = IF Handles(click[k]) THEN "handled" ELSE "dropped"]]
    /\ UNCHANGED <<pending, delivery>>

-----------------------------------------------------------------------------
(* dispatch().                                                             *)

Dispatch(m) ==
    /\ out[m].step = "new"
    /\ IF m \in Interactive
       THEN /\ out' = [out EXCEPT ![m].step = "create"]
            /\ cache' = [cache EXCEPT ![Home] = @ \cup {m}]
       ELSE /\ out' = [out EXCEPT ![m] = [step |-> "send", left |-> Provider]]
            /\ UNCHANGED cache
    /\ UNCHANGED <<row, expired, shown, worker, queue, job, fate, click>>

\* A send is accepted; or it fails; or it times out after the provider has it.
Outcome == {"accepted", "failed", "late"}
Shown(m, r) == shown' = IF r = "failed" THEN shown ELSE shown \cup {m}

Becomes(m, p, f) == fate' = [fate EXCEPT ![m][p] = f]

\* enqueue(): a full queue drops the message.  And a wrong variant.
EnqueueOneMore(p, n, item) ==
    IF Len(queue[p][n]) <= QueueSize
    THEN /\ queue' = [queue EXCEPT ![p][n] = Append(@, item)]
         /\ Becomes(item.msg, p, "queued")
    ELSE /\ Becomes(item.msg, p, "dropped")
         /\ UNCHANGED queue
Enqueue(p, n, item) ==
    IF Len(queue[p][n]) < QueueSize
    THEN /\ queue' = [queue EXCEPT ![p][n] = Append(@, item)]
         /\ Becomes(item.msg, p, "queued")
    ELSE /\ Becomes(item.msg, p, "dropped")
         /\ UNCHANGED queue

\* The targets follow one another.
Send(m, p, r) ==
    /\ out[m].step = "send" /\ p \in out[m].left
    /\ out' = [out EXCEPT ![m].left = @ \ {p}]
    /\ Shown(m, r)
    /\ IF r = "accepted"
       THEN Becomes(m, p, "delivered") /\ UNCHANGED queue
       ELSE Enqueue(p, worker[p], [msg |-> m, attempt |-> 1])
    /\ UNCHANGED <<pending, worker, job, click>>

-----------------------------------------------------------------------------
(* _AdapterRetryWorker._run(), of the current worker or a replaced one.    *)

Take(p, n) ==
    /\ job[p][n] = Idle /\ queue[p][n] # <<>>
    /\ job' = [job EXCEPT ![p][n] = Head(queue[p][n])]
    /\ queue' = [queue EXCEPT ![p][n] = Tail(@)]
    /\ UNCHANGED <<pending, out, shown, worker, fate, click>>

\* Wrong variants: an attempt is not counted; an accepted one is queued again.
RetryForever(p, n, r) ==
    /\ job[p][n] # Idle
    /\ job' = [job EXCEPT ![p][n] = Idle]
    /\ Shown(job[p][n].msg, r)
    /\ IF r = "accepted" THEN Becomes(job[p][n].msg, p, "delivered") /\ UNCHANGED queue
       ELSE Enqueue(p, n, job[p][n])
    /\ UNCHANGED <<pending, out, worker, click>>
RetryAccepted(p, n, r) ==
    /\ job[p][n] # Idle
    /\ job' = [job EXCEPT ![p][n] = Idle]
    /\ queue' = [queue EXCEPT ![p][n] = IF @ = <<>> THEN <<job[p][n]>> ELSE @]
    /\ Shown(job[p][n].msg, r)
    /\ Becomes(job[p][n].msg, p, IF r = "accepted" THEN "delivered" ELSE "queued")
    /\ UNCHANGED <<pending, out, worker, click>>

Retry(p, n, r) ==
    LET m == job[p][n].msg
        a == job[p][n].attempt
    IN  /\ job[p][n] # Idle
        /\ job' = [job EXCEPT ![p][n] = Idle]
        /\ Shown(m, r)
        /\ IF r = "accepted" THEN Becomes(m, p, "delivered") /\ UNCHANGED queue
           ELSE IF a < MaxRetries THEN Enqueue(p, n, [msg |-> m, attempt |-> a + 1])
           ELSE Becomes(m, p, "dead") /\ UNCHANGED queue
        /\ UNCHANGED <<pending, out, worker, click>>

\* register() of a provider that is registered: a new worker takes its place,
\* the old one is not stopped.
Register(p) ==
    /\ "register" \in Happens /\ worker[p] < Registrations
    /\ worker' = [worker EXCEPT ![p] = @ + 1]
    /\ UNCHANGED <<pending, out, shown, queue, job, fate, click>>

-----------------------------------------------------------------------------
(* A process dies with its cache, its calls, its dispatches and its queues *)
(* and is started again; Reload follows when its database connects.        *)

Crash(i) ==
    /\ "crash" \in Happens
    /\ cache' = [cache EXCEPT ![i] = {}]
    /\ click' = [k \in Click |->
           IF click[k].at = i /\ click[k].stage \in {"claiming", "claimed"}
           THEN [NoClick EXCEPT !.msg = click[k].msg, !.result = click[k].result,
                         !.stage = "crashed"]
           ELSE click[k]]
    /\ IF i = Home
       THEN /\ out' = [m \in Message |-> IF out[m].step = "new" THEN out[m]
                                          ELSE [step |-> "send", left |-> {}]]
            /\ worker' = [p \in Provider |-> 1]
            /\ queue' = [p \in Provider |-> [n \in Worker |-> <<>>]]
            /\ job' = [p \in Provider |-> [n \in Worker |-> Idle]]
            /\ fate' = [m \in Message |-> [p \in Provider |->
                   IF out[m].step # "new" /\ fate[m][p] \notin Ended THEN "lost" ELSE fate[m][p]]]
       ELSE UNCHANGED <<out, worker, queue, job, fate>>
    /\ UNCHANGED <<row, expired, shown>>

-----------------------------------------------------------------------------
Init ==
    /\ row = [m \in Message |-> "none"]
    /\ cache = [i \in Instance |-> {}]
    /\ expired = {}
    /\ out = [m \in Message |-> [step |-> "new", left |-> {}]]
    /\ shown = {}
    /\ worker = [p \in Provider |-> 1]
    /\ queue = [p \in Provider |-> [n \in Worker |-> <<>>]]
    /\ job = [p \in Provider |-> [n \in Worker |-> Idle]]
    /\ fate = [m \in Message |-> [p \in Provider |-> "none"]]
    /\ click = [k \in Click |-> NoClick]

Resolve(k) == \E result \in Result : Claim(k, result)

StoreStep ==
    \/ \E i \in Instance : Reload(i) \/ ExpireStale(i)
    \/ \E m \in Message : Expire(m) \/ Write(m)
ClickStep ==
    \E k \in Click :
        \/ Resolve(k) \/ Answer(k)
        \/ \E i \in Instance, m \in Message : Incoming(k, i, m)
DeliveryStep ==
    \/ \E m \in Message : Dispatch(m)
    \/ \E m \in Message, p \in Provider, r \in Outcome : Send(m, p, r)
    \/ \E p \in Provider, n \in Worker : Take(p, n)
    \/ \E p \in Provider, n \in Worker, r \in Outcome : Retry(p, n, r)
    \/ \E p \in Provider : Register(p)

Next == StoreStep \/ ClickStep \/ DeliveryStep \/ \E i \in Instance : Crash(i)

Spec == Init /\ [][Next]_vars

\* The event loop and its threads go on; every send ends within send_timeout.
Fairness ==
    /\ \A m \in Message : WF_vars(Write(m))
    /\ \A m \in Message : WF_vars(\E p \in Provider, r \in Outcome : Send(m, p, r))
    /\ \A p \in Provider, n \in Worker :
           WF_vars(Take(p, n)) /\ WF_vars(\E r \in Outcome : Retry(p, n, r))
    /\ \A k \in Click : WF_vars(Resolve(k)) /\ WF_vars(Answer(k))

FairSpec == Spec /\ Fairness
-----------------------------------------------------------------------------
Stage == {"none", "claiming", "claimed", "handled", "dropped", "crashed"}

TypeOK ==
    /\ row \in [Message -> {"none", "open", "resolved"}]
    /\ cache \in [Instance -> SUBSET Interactive]
    /\ expired \subseteq Interactive
    /\ out \in [Message -> [step: {"new", "create", "send"}, left: SUBSET Provider]]
    /\ shown \subseteq Message
    /\ worker \in [Provider -> Worker]
    /\ queue \in [Provider -> [Worker -> Seq(Item)]]
    /\ job \in [Provider -> [Worker -> Item \cup {Idle}]]
    /\ fate \in [Message -> [Provider -> Fate]]
    /\ click \in [Click -> [at: Instance, msg: Message \cup {NoMessage}, cached: BOOLEAN,
                            result: Result \cup {"none"}, stage: Stage]]
    /\ \A p \in Provider, n \in Worker : Len(queue[p][n]) <= QueueSize

\* Two clicks on the buttons of one message, on whichever instances, with
\* caches filled anew and processes killed between them, are both handled only
\* if one of them could not reach the database.
HandledOnce ==
    \A k, l \in Click :
        /\ k # l /\ click[k].msg = click[l].msg
        /\ click[k].stage = "handled" /\ click[l].stage = "handled"
        => "nodb" \in {click[k].result, click[l].result}

\* A click is dropped for a reason: the action is past its time, its row could
\* not be written, another click has the row, or the database did not answer.
DroppedForAReason ==
    \A k \in Click : click[k].stage = "dropped" =>
        \/ click[k].msg \in expired \/ row[click[k].msg] = "none"
        \/ click[k].result \in {"unheard", "nodb"}
        \/ \E l \in Click \ {k} :
              click[l].msg = click[k].msg /\ click[l].result \in {"won", "unheard"}

\* Of the clicks on a message one resumes the plugin, and one does unless there
\* is a reason that none can.
OneIsHandled == HandledOnce /\ DroppedForAReason

\* The message is what the n-th worker works on, or the j-th in its queue.
At(m, p, n, j) ==
    IF j = 0 THEN job[p][n].msg = m
    ELSE j <= Len(queue[p][n]) /\ queue[p][n][j].msg = m

\* A message that waits for a retry is in one place, once; one that does not is
\* nowhere, not even in the queue of a worker that was replaced.
InOnePlace ==
    \A m \in Message, p \in Provider :
        /\ fate[m][p] = "queued" <=> \E n \in Worker, j \in 0..QueueSize : At(m, p, n, j)
        /\ \A n, k \in Worker, j, l \in 0..QueueSize :
              At(m, p, n, j) /\ At(m, p, k, l) => n = k /\ j = l

\* Every message that is dispatched ends at every provider: delivered, given up
\* after its retries, dropped at a full queue or lost with the process.
EveryMessageEnds ==
    \A m \in Message, p \in Provider :
        out[m].step # "new" ~> fate[m][p] \in Ended

\* A click on a live action gets the action handled, by this click or another,
\* on the instance that sent the message or not, unless it expires first, the
\* process dies or the database does not answer.
ClickIsAnswered ==
    \A k \in Click :
        click[k].stage = "claiming" /\ Live(click[k].msg) ~>
            \/ click[k].msg \in expired
            \/ \E l \in Click : /\ click[l].msg = click[k].msg
                                /\ \/ click[l].stage \in {"handled", "crashed"}
                                   \/ click[l].result \in {"unheard", "nodb"}
=============================================================================

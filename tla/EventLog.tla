------------------------------ MODULE EventLog ------------------------------
(***************************************************************************)
(* The bus bridge (cluster/logic/bridge.py) over the table cluster_events  *)
(* of the db driver (cluster/logic/drivers/db.py): what is emitted on the  *)
(* bus of one instance is inserted by a thread of its own, polled by every *)
(* peer with id > last seen, and emitted again on the peer's bus.          *)
(*                                                                         *)
(* An INSERT draws its id before it commits, so rows may become visible    *)
(* out of the order of their ids.  An operator's action emits one event    *)
(* (the cause); a handler reacts to it, on whichever instance it is        *)
(* emitted, by emitting a second one (the reaction).                       *)
(***************************************************************************)
EXTENDS Integers, FiniteSets

CONSTANTS
    Instance,   \* instance ids
    Action,     \* what operators do, each once
    Bridged,    \* actions whose topic is on the allowlist or forced
    Batch,      \* rows a poll fetches at most
    Retention,  \* ticks a row is kept at least
    MaxId,      \* bound on the ids drawn
    Happens     \* what may go wrong or overlap

Events == {"overlap", "deadlock", "failure", "leave", "prune"}

ASSUME ConstantsAssumption ==
    /\ Bridged \subseteq Action
    /\ Batch \in Nat \ {0}
    /\ Retention \in Nat
    /\ MaxId \in Nat
    /\ Happens \subseteq Events

Topic == {"cause", "reaction"}
Event == [act: Action, topic: Topic]

VARIABLES
    up,         \* instances whose driver is started and whose bridge is attached
    done,       \* actions that took place
    sending,    \* publications in flight; id 0: nothing inserted yet
    rows,       \* cluster_events: id, event, origin and age in ticks
    nextId,     \* AUTO_INCREMENT
    cursor,     \* DbCoordinator._last_event_id
    batch,      \* rows a poll has read and not dispatched yet
    busy,       \* instances whose poll loop holds a batch
    heard,      \* rows dispatched to the subscribers since the last start
    published,  \* history: the rows ever committed
    past,       \* history: published when the instance started
    late        \* history: the rows committed after one with a larger id

vars == <<up, done, sending, rows, nextId, cursor, batch, busy, heard, published, past, late>>

Row(id, e, i) == [id |-> id, event |-> e, origin |-> i]
Plain(S) == {Row(r.id, r.event, r.origin) : r \in S}

-----------------------------------------------------------------------------
(* The bridge.                                                             *)

\* A wrong variant, for the checks of the properties.
PublishesRelayed(i, e, relayed) == i \in up /\ e.act \in Bridged

\* _publish_hook: attached, not (derived from) a relayed event, and a bridged topic.
Publishes(i, e, relayed) == i \in up /\ ~relayed /\ e.act \in Bridged

Reaction(e) == [act |-> e.act, topic |-> "reaction"]

Sent(i, E, relayed) ==
    {Row(0, e, i) : e \in {x \in E : Publishes(i, x, relayed)}}

\* Both publications run as tasks of their own, each in a thread.
Emit(i, a) ==
    /\ a \notin done
    /\ done' = done \cup {a}
    /\ sending' = sending \cup Sent(i, [act : {a}, topic : Topic], FALSE)
    /\ UNCHANGED <<up, rows, nextId, cursor, batch, busy, heard, published, past, late>>

-----------------------------------------------------------------------------
(* Publishing: _publish_sync inside _retrying.                             *)

Insert(s) ==
    /\ s \in sending /\ s.id = 0
    /\ "overlap" \in Happens \/ \A t \in sending : t.id = 0
    /\ nextId <= MaxId
    /\ sending' = (sending \ {s}) \cup {Row(nextId, s.event, s.origin)}
    /\ nextId' = nextId + 1
    /\ UNCHANGED <<up, done, rows, cursor, batch, busy, heard, published, past, late>>

Commit(s) ==
    /\ s \in sending /\ s.id > 0
    /\ sending' = sending \ {s}
    /\ rows' = rows \cup {[id |-> s.id, event |-> s.event, origin |-> s.origin, age |-> 0]}
    /\ published' = published \cup {s}
    /\ late' = IF \E r \in published : r.id > s.id THEN late \cup {s} ELSE late
    /\ UNCHANGED <<up, done, nextId, cursor, batch, busy, heard, past>>

\* 1020, 1205, 1213: rolled back and tried again; the drawn id is gone.
Retry(s) ==
    /\ "deadlock" \in Happens
    /\ s \in sending /\ s.id > 0
    /\ sending' = (sending \ {s}) \cup {Row(0, s.event, s.origin)}
    /\ UNCHANGED <<up, done, rows, nextId, cursor, batch, busy, heard, published, past, late>>

\* Any other error: the bridge logs it and drops the event.
Drop(s) ==
    /\ "failure" \in Happens
    /\ s \in sending
    /\ sending' = sending \ {s}
    /\ UNCHANGED <<up, done, rows, nextId, cursor, batch, busy, heard, published, past, late>>

-----------------------------------------------------------------------------
(* The poll loop.                                                          *)

\* Wrong variants of Fetched.
FetchedAgain(i) == {r \in Plain(rows) : r.id >= cursor[i]}

FetchedLast(i) ==
    LET new == {r \in Plain(rows) : r.id > cursor[i]}
    IN  {r \in new : Cardinality({q \in new : q.id > r.id}) < Batch}

Fetched(i) ==
    LET new == {r \in Plain(rows) : r.id > cursor[i]}
    IN  {r \in new : Cardinality({q \in new : q.id < r.id}) < Batch}

Poll(i) ==
    /\ i \in up /\ i \notin busy
    /\ batch' = [batch EXCEPT ![i] = Fetched(i)]
    /\ busy' = busy \cup {i}
    /\ UNCHANGED <<up, done, sending, rows, nextId, cursor, heard, published, past, late>>

Latest(n, S) == n \in S /\ \A m \in S : m <= n

Ids(S) == {r.id : r \in S}

\* The cursor moves to the last row read, whoever wrote it.
Advance(i) ==
    \E n \in 0..MaxId :
        /\ Latest(n, {cursor[i]} \cup Ids(batch[i]))
        /\ cursor' = [cursor EXCEPT ![i] = n]

\* A wrong variant of Dispatch.
DispatchOwnToo(i) ==
    /\ i \in busy
    /\ Advance(i)
    /\ heard' = [heard EXCEPT ![i] = @ \cup batch[i]]
    /\ batch' = [batch EXCEPT ![i] = {}]
    /\ busy' = busy \ {i}
    /\ UNCHANGED <<up, done, sending, rows, nextId, published, past, late>>

\* Own rows are skipped; the handlers of a relayed cause react to it.
Dispatch(i) ==
    LET foreign == {r \in batch[i] : r.origin # i}
        causes == {e \in {r.event : r \in foreign} : e.topic = "cause"}
    IN
    /\ i \in busy
    /\ Advance(i)
    /\ heard' = [heard EXCEPT ![i] = @ \cup foreign]
    /\ sending' = sending \cup Sent(i, {Reaction(e) : e \in causes}, TRUE)
    /\ batch' = [batch EXCEPT ![i] = {}]
    /\ busy' = busy \ {i}
    /\ UNCHANGED <<up, done, rows, nextId, published, past, late>>

\* The leader deletes what is older than the retention.
Prune(i) ==
    /\ "prune" \in Happens /\ i \in up
    /\ rows' = {r \in rows : r.age <= Retention}
    /\ UNCHANGED <<up, done, sending, nextId, cursor, batch, busy, heard, published, past, late>>

Older(r) ==
    [id |-> r.id, event |-> r.event, origin |-> r.origin,
     age |-> IF r.age <= Retention THEN r.age + 1 ELSE r.age]

TimePasses ==
    /\ "prune" \in Happens
    /\ rows' = {Older(r) : r \in rows}
    /\ UNCHANGED <<up, done, sending, nextId, cursor, batch, busy, heard, published, past, late>>

-----------------------------------------------------------------------------
(* Instances come and go.                                                  *)

\* start(): the cursor begins at MAX(id), 0 for an empty table.
Start(i) ==
    /\ i \notin up
    /\ up' = up \cup {i}
    /\ \E n \in 0..MaxId :
          /\ Latest(n, {0} \cup Ids(rows))
          /\ cursor' = [cursor EXCEPT ![i] = n]
    /\ heard' = [heard EXCEPT ![i] = {}]
    /\ past' = [past EXCEPT ![i] = published]
    /\ UNCHANGED <<done, sending, rows, nextId, batch, busy, published, late>>

\* A wrong variant of Stop.
StopKeepsBatch(i) ==
    /\ "leave" \in Happens /\ i \in up
    /\ up' = up \ {i}
    /\ UNCHANGED <<done, sending, rows, nextId, cursor, batch, busy, heard, published, past, late>>

\* stop(): the poll task is cancelled, so what its thread read is dropped;
\* publications in flight end in their threads.
Stop(i) ==
    /\ "leave" \in Happens /\ i \in up
    /\ up' = up \ {i}
    /\ batch' = [batch EXCEPT ![i] = {}]
    /\ busy' = busy \ {i}
    /\ UNCHANGED <<done, sending, rows, nextId, cursor, heard, published, past, late>>

\* The process dies: its open transactions are rolled back.
Crash(i) ==
    /\ "leave" \in Happens /\ i \in up
    /\ up' = up \ {i}
    /\ sending' = {s \in sending : s.origin # i}
    /\ batch' = [batch EXCEPT ![i] = {}]
    /\ busy' = busy \ {i}
    /\ UNCHANGED <<done, rows, nextId, cursor, heard, published, past, late>>

-----------------------------------------------------------------------------
Init ==
    /\ up = {}
    /\ done = {}
    /\ sending = {}
    /\ rows = {}
    /\ nextId = 1
    /\ cursor = [i \in Instance |-> 0]
    /\ batch = [i \in Instance |-> {}]
    /\ busy = {}
    /\ heard = [i \in Instance |-> {}]
    /\ published = {}
    /\ past = [i \in Instance |-> {}]
    /\ late = {}

Next ==
    \/ \E i \in Instance :
          \/ \E a \in Action : Emit(i, a)
          \/ Poll(i) \/ Dispatch(i) \/ Prune(i)
          \/ Start(i) \/ Stop(i) \/ Crash(i)
    \/ \E s \in sending : Insert(s) \/ Commit(s) \/ Retry(s) \/ Drop(s)
    \/ TimePasses

Spec == Init /\ [][Next]_vars

\* The poll task keeps running; its sleep and its statement end.
Fairness == \A i \in Instance : WF_vars(Poll(i)) /\ WF_vars(Dispatch(i))

FairSpec == Spec /\ Fairness

-----------------------------------------------------------------------------
(* Properties.                                                             *)

RowType == [id: 0..MaxId, event: Event, origin: Instance]

TypeOK ==
    /\ up \subseteq Instance
    /\ done \subseteq Action
    /\ sending \subseteq RowType
    /\ Plain(rows) \subseteq RowType
    /\ \A r \in rows : r.age \in 0..(Retention + 1)
    /\ nextId \in 1..(MaxId + 1)
    /\ cursor \in [Instance -> 0..MaxId]
    /\ batch \in [Instance -> SUBSET RowType]
    /\ busy \subseteq up
    /\ heard \in [Instance -> SUBSET RowType]
    /\ published \subseteq RowType
    /\ past \in [Instance -> SUBSET published]
    /\ late \subseteq published

\* The rows a poll is about to dispatch are newer than everything its
\* subscribers got: nothing is emitted twice or out of the order of the log.
BatchIsNew ==
    \A i \in Instance : \A r \in batch[i], h \in heard[i] : h.id < r.id

\* One action is bridged once: the handlers that react to it on every peer do
\* not publish their reaction again.
ReactionBridgedOnce ==
    \A r, q \in published : r.event = q.event => r = q

\* What happened once is heard once: polls do not repeat a row, and reactions to
\* a relayed event do not come back as rows of their own.
HeardOnce == BatchIsNew /\ ReactionBridgedOnce

\* The rows an instance is owed: in the log still, by a peer, committed since
\* it started and in the order of their ids.
Owed(i) == {r \in Plain(rows) \ (past[i] \cup late) : r.origin # i}

\* No row is lost between two polls: what an instance is owed and lies behind
\* its cursor was dispatched.
NothingSkipped ==
    \A i \in up : \A r \in Owed(i) : r.id <= cursor[i] => r \in heard[i]

\* Every member that stays gets every row it is owed, unless the row is pruned.
Delivery ==
    \A i \in Instance, n \in 1..MaxId :
        (i \in up /\ n \in Ids(Owed(i))) ~> (i \notin up \/ n \in Ids(heard[i]) \/ n \notin Ids(rows))

\* Why BatchIsNew holds: the cursor lies between what was dispatched and what
\* is about to be.
CursorInv ==
    \A i \in Instance :
        /\ \A h \in heard[i] : h.id <= cursor[i]
        /\ \A r \in batch[i] : r.id > cursor[i]
        /\ i \notin busy => batch[i] = {}

\* An event is somewhere on its way once: nowhere, being sent, or published.
OnceInv ==
    /\ \A s \in sending \cup published : s.event.act \in done
    /\ \A s, t \in sending : s.event = t.event => s = t
    /\ \A s, t \in published : s.event = t.event => s = t
    /\ \A s \in sending, t \in published : s.event # t.event

\* What was published before an instance started stays behind its cursor.
PastInv ==
    /\ Plain(rows) \subseteq published
    /\ \A i \in Instance :
          /\ heard[i] \subseteq published
          /\ batch[i] \subseteq published \ past[i]
          /\ \A r \in Plain(rows) : r \in past[i] => r.id <= cursor[i]

Origins(S) == {[event |-> r.event, origin |-> r.origin] : r \in S}

Fanout == INSTANCE EventFanout WITH
    published <- Origins(published),
    member <- up,
    past <- [i \in Instance |-> Origins(past[i])],
    delivered <- [i \in Instance |-> Origins(heard[i])]

\* The log implements the fan-out the documentation promises.
ImplementsFanout == Fanout!Spec
=============================================================================

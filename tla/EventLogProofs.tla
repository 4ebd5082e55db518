--------------------------- MODULE EventLogProofs ---------------------------
(* Proofs about EventLog, for every set of instances and actions, every    *)
(* batch size and retention, and any of the failures.                      *)
EXTENDS EventLog, FiniteSetTheorems, TLAPS

LEMMA SentRows ==
    ASSUME NEW i \in Instance, NEW a \in Action,
           NEW s \in Sent(i, [act : {a}, topic : Topic], FALSE)
    PROVE  /\ s.event \in [act : {a}, topic : Topic]
           /\ s = Row(0, s.event, i)
  <1>1. PICK e \in [act : {a}, topic : Topic] : s = Row(0, e, i)
    BY DEF Sent
  <1>2. s.event = e
    BY <1>1 DEF Row
  <1>3. QED
    BY <1>1, <1>2

LEMMA OlderPlain == Plain({Older(r) : r \in rows}) = Plain(rows)
  <1>1. \A r : Row(Older(r).id, Older(r).event, Older(r).origin) = Row(r.id, r.event, r.origin)
    BY DEF Older
  <1>2. \A x : x \in Plain({Older(r) : r \in rows})
                   <=> \E r \in rows : x = Row(r.id, r.event, r.origin)
    BY <1>1 DEF Plain
  <1>3. \A x : x \in Plain(rows) <=> \E r \in rows : x = Row(r.id, r.event, r.origin)
    BY DEF Plain
  <1>4. QED
    BY <1>2, <1>3

LEMMA TypeStep ==
    ASSUME TypeOK, [Next]_vars
    PROVE  TypeOK'
  <1> USE ConstantsAssumption DEF TypeOK, RowType, Event, Topic
  <1>1. ASSUME NEW i \in Instance, NEW a \in Action, Emit(i, a)
        PROVE  TypeOK'
    <2>1. Sent(i, [act : {a}, topic : Topic], FALSE) \subseteq RowType
      <3> SUFFICES ASSUME NEW s \in Sent(i, [act : {a}, topic : Topic], FALSE)
                   PROVE  s \in RowType
        OBVIOUS
      <3>1. s.event \in Event
        <4>1. s.event \in [act : {a}, topic : Topic]
          BY SentRows
        <4>2. QED
          BY <4>1
      <3>2. s = [id |-> 0, event |-> s.event, origin |-> i]
        BY SentRows DEF Row
      <3>3. QED
        BY <3>1, <3>2
    <2>2. QED
      BY <1>1, <2>1 DEF Emit
  <1>2. ASSUME NEW i \in Instance, Poll(i)
        PROVE  TypeOK'
    <2>1. Fetched(i) \subseteq RowType
      BY DEF Fetched
    <2>2. QED
      BY <1>2, <2>1 DEF Poll
  <1>3. ASSUME NEW i \in Instance, Dispatch(i)
        PROVE  TypeOK'
    <2>1. cursor' \in [Instance -> 0..MaxId]
      BY <1>3 DEF Dispatch, Advance
    <2>2. sending' = sending
      BY <1>3 DEF Dispatch, Sent, Publishes
    <2>3. QED
      BY <1>3, <2>1, <2>2 DEF Dispatch
  <1>4. ASSUME NEW i \in Instance, Prune(i)
        PROVE  TypeOK'
    BY <1>4 DEF Prune, Plain, Row
  <1>5. ASSUME NEW i \in Instance, Start(i)
        PROVE  TypeOK'
    <2>1. cursor' \in [Instance -> 0..MaxId]
      BY <1>5 DEF Start
    <2>2. past' \in [Instance -> SUBSET published']
      BY <1>5 DEF Start
    <2>3. QED
      BY <1>5, <2>1, <2>2 DEF Start
  <1>6. ASSUME NEW i \in Instance, Stop(i) \/ Crash(i)
        PROVE  TypeOK'
    BY <1>6 DEF Stop, Crash
  <1>7. ASSUME NEW s \in sending, Insert(s) \/ Retry(s) \/ Drop(s)
        PROVE  TypeOK'
    BY <1>7 DEF Insert, Retry, Drop, Row
  <1>8. ASSUME NEW s \in sending, Commit(s)
        PROVE  TypeOK'
    <2>1. Plain(rows') \subseteq RowType /\ \A r \in rows' : r.age \in 0..(Retention + 1)
      BY <1>8 DEF Commit, Plain, Row
    <2>2. past' \in [Instance -> SUBSET published']
      BY <1>8 DEF Commit
    <2>3. QED
      BY <1>8, <2>1, <2>2 DEF Commit, Plain
  <1>9. CASE TimePasses
    <2>1. Plain(rows') = Plain(rows)
      BY <1>9, OlderPlain DEF TimePasses
    <2>2. \A r \in rows' : r.age \in 0..(Retention + 1)
      BY <1>9 DEF TimePasses, Older
    <2>3. QED
      BY <1>9, <2>1, <2>2 DEF TimePasses, Plain
  <1>10. CASE UNCHANGED vars
    BY <1>10 DEF vars, Plain
  <1>11. QED
    BY <1>1, <1>2, <1>3, <1>4, <1>5, <1>6, <1>7, <1>8, <1>9, <1>10 DEF Next

\* The typed state of the event log, for any of the failures.
THEOREM TypeCorrect == Spec => []TypeOK
  <1>1. Init => TypeOK
    BY ConstantsAssumption DEF Init, TypeOK, RowType, Plain
  <1>2. QED
    BY <1>1, TypeStep, PTL DEF Spec

\* A poll reads above the cursor and a dispatch raises it to what it read.
LEMMA CursorStep ==
    ASSUME TypeOK, CursorInv, [Next]_vars
    PROVE  CursorInv'
  <1> USE DEF CursorInv
  <1>1. ASSUME NEW i \in Instance, Dispatch(i)
        PROVE  CursorInv'
    <2>1. PICK n \in 0..MaxId : /\ cursor' = [cursor EXCEPT ![i] = n]
                                /\ cursor[i] <= n /\ \A r \in batch[i] : r.id <= n
      BY <1>1 DEF Dispatch, Advance, Latest, Ids
    <2>2. /\ heard'[i] \subseteq heard[i] \cup batch[i] /\ batch'[i] = {}
          /\ busy' = busy \ {i}
          /\ \A j \in Instance : j # i => heard'[j] = heard[j] /\ batch'[j] = batch[j]
      BY <1>1 DEF Dispatch, TypeOK
    <2>3. \A h \in heard'[i] : h.id <= n
      <3> SUFFICES ASSUME NEW h \in heard[i] PROVE h.id <= n
        BY <2>1, <2>2
      <3>1. h.id \in Nat /\ cursor[i] \in Nat /\ n \in Nat
        BY DEF TypeOK, RowType
      <3>2. QED
        BY <2>1, <3>1
    <2>4. QED
      BY <2>1, <2>2, <2>3 DEF TypeOK
  <1>2. ASSUME NEW i \in Instance, Poll(i)
        PROVE  CursorInv'
    BY <1>2 DEF Poll, Fetched, TypeOK
  <1>3. ASSUME NEW i \in Instance, Start(i)
        PROVE  CursorInv'
    <2>1. /\ heard'[i] = {} /\ batch' = batch /\ batch[i] = {} /\ busy' = busy
          /\ \A j \in Instance : j # i => heard'[j] = heard[j]
      BY <1>3 DEF Start, TypeOK
    <2>2. PICK n \in 0..MaxId : cursor' = [cursor EXCEPT ![i] = n]
      BY <1>3 DEF Start
    <2>3. \A j \in Instance : j # i => cursor'[j] = cursor[j]
      BY <2>2 DEF TypeOK
    <2>4. QED
      BY <2>1, <2>3
  <1>4. ASSUME NEW i \in Instance, Stop(i) \/ Crash(i)
        PROVE  CursorInv'
    BY <1>4 DEF Stop, Crash, TypeOK
  <1>5. QED
    BY <1>1, <1>2, <1>3, <1>4 DEF Next, Emit, Prune, Insert, Commit, Retry, Drop, TimePasses, vars

\* The poll of every instance goes through the log once and in its order,
\* whatever commits late, fails, restarts or is pruned.
THEOREM NewRowsOnly == Spec => []BatchIsNew
  <1>1. Init => CursorInv
    BY DEF Init, CursorInv
  <1>2. TypeOK /\ CursorInv /\ [Next]_vars => CursorInv'
    BY CursorStep
  <1>3. TypeOK /\ CursorInv => BatchIsNew
    <2> SUFFICES ASSUME TypeOK, CursorInv, NEW i \in Instance,
                        NEW r \in batch[i], NEW h \in heard[i]
                 PROVE  h.id < r.id
      BY DEF BatchIsNew
    <2>1. h.id \in Nat /\ r.id \in Nat /\ cursor[i] \in Nat
      BY ConstantsAssumption DEF TypeOK, RowType
    <2>2. QED
      BY <2>1 DEF CursorInv
  <1>4. QED
    BY <1>1, <1>2, <1>3, TypeCorrect, PTL DEF Spec

-----------------------------------------------------------------------------
(* An event is published once, and the log implements the fan-out.         *)

LEMMA OnceStep ==
    ASSUME TypeOK, OnceInv, [Next]_vars
    PROVE  OnceInv'
  <1>1. ASSUME NEW i \in Instance, NEW a \in Action, Emit(i, a)
        PROVE  OnceInv'
    <2> DEFINE new == Sent(i, [act : {a}, topic : Topic], FALSE)
    <2>1. /\ sending' = sending \cup new
          /\ \A s \in new : s.event.act = a
          /\ \A s, t \in new : s.event = t.event => s = t
      <3>1. sending' = sending \cup new
        BY <1>1 DEF Emit
      <3>2. \A s \in new : s = Row(0, s.event, i) /\ s.event \in [act : {a}, topic : Topic]
        BY SentRows
      <3>3. QED
        BY <3>1, <3>2
    <2> HIDE DEF new
    <2>2. a \notin done /\ done' = done \cup {a} /\ published' = published
      BY <1>1 DEF Emit
    <2>3. QED
      BY <2>1, <2>2 DEF OnceInv
  <1>2. ASSUME NEW i \in Instance, Dispatch(i)
        PROVE  OnceInv'
    <2>1. UNCHANGED <<sending, done, published>>
      BY <1>2 DEF Dispatch, Sent, Publishes
    <2>2. QED
      BY <2>1 DEF OnceInv
  <1>3. ASSUME NEW s \in sending, Insert(s) \/ Retry(s)
        PROVE  OnceInv'
    <2>1. PICK n : sending' = (sending \ {s}) \cup {Row(n, s.event, s.origin)}
      BY <1>3 DEF Insert, Retry
    <2> DEFINE t == Row(n, s.event, s.origin)
    <2>a. sending' = (sending \ {s}) \cup {t} /\ t.event = s.event
      BY <2>1 DEF Row
    <2> HIDE DEF t
    <2>2. UNCHANGED <<done, published>>
      BY <1>3 DEF Insert, Retry
    <2>3. QED
      BY <2>a, <2>2 DEF OnceInv
  <1>4. ASSUME NEW s \in sending, Commit(s)
        PROVE  OnceInv'
    BY <1>4 DEF OnceInv, Commit
  <1>5. ASSUME NEW s \in sending, Drop(s)
        PROVE  OnceInv'
    BY <1>5 DEF OnceInv, Drop
  <1>6. ASSUME NEW i \in Instance, Crash(i)
        PROVE  OnceInv'
    BY <1>6 DEF OnceInv, Crash
  <1>7. QED
    BY <1>1, <1>2, <1>3, <1>4, <1>5, <1>6
       DEF Next, OnceInv, Poll, Prune, Start, Stop, TimePasses, vars

\* One action gives one row per event, however many instances react to it.
THEOREM BridgedOnce == Spec => []ReactionBridgedOnce
  <1>1. Init => OnceInv
    BY DEF Init, OnceInv
  <1>2. TypeOK /\ OnceInv /\ [Next]_vars => OnceInv'
    BY OnceStep
  <1>3. OnceInv => ReactionBridgedOnce
    BY DEF OnceInv, ReactionBridgedOnce
  <1>4. QED
    BY <1>1, <1>2, <1>3, TypeCorrect, PTL DEF Spec

LEMMA PlainCommit ==
    ASSUME NEW s \in sending, TypeOK, Commit(s)
    PROVE  Plain(rows') = Plain(rows) \cup {s}
  <1>1. s = Row(s.id, s.event, s.origin)
    BY DEF TypeOK, RowType, Row
  <1> DEFINE r == [id |-> s.id, event |-> s.event, origin |-> s.origin, age |-> 0]
  <1>2. /\ rows' = rows \cup {r}
        /\ r.id = s.id /\ r.event = s.event /\ r.origin = s.origin
    BY DEF Commit
  <1> HIDE DEF r
  <1>3. \A x : x \in Plain(rows') <=> x \in Plain(rows) \/ x = Row(r.id, r.event, r.origin)
    BY <1>2 DEF Plain
  <1>4. QED
    BY <1>1, <1>2, <1>3

LEMMA PastStep ==
    ASSUME TypeOK, CursorInv, OnceInv, PastInv, [Next]_vars
    PROVE  PastInv'
  <1> USE DEF PastInv
  <1>1. ASSUME NEW i \in Instance, Poll(i)
        PROVE  PastInv'
    <2>1. \A r \in Fetched(i) : r \in Plain(rows) /\ r.id > cursor[i]
      BY DEF Fetched
    <2>2. Fetched(i) \subseteq published \ past[i]
      <3> SUFFICES ASSUME NEW r \in Fetched(i), r \in past[i] PROVE FALSE
        BY <2>1
      <3>1. r.id <= cursor[i] /\ r.id > cursor[i]
        BY <2>1
      <3>2. r.id \in Nat /\ cursor[i] \in Nat
        BY <2>1, ConstantsAssumption DEF TypeOK, RowType
      <3>3. QED
        BY <3>1, <3>2
    <2>3. QED
      BY <1>1, <2>2 DEF Poll, TypeOK
  <1>2. ASSUME NEW i \in Instance, Dispatch(i)
        PROVE  PastInv'
    <2>1. PICK n \in 0..MaxId : cursor' = [cursor EXCEPT ![i] = n] /\ cursor[i] <= n
      BY <1>2 DEF Dispatch, Advance, Latest
    <2>2. /\ heard'[i] \subseteq heard[i] \cup batch[i] /\ batch'[i] = {}
          /\ \A j \in Instance : j # i => heard'[j] = heard[j] /\ batch'[j] = batch[j]
      BY <1>2 DEF Dispatch, TypeOK
    <2>3. UNCHANGED <<rows, published, past>>
      BY <1>2 DEF Dispatch
    <2>4. \A r \in Plain(rows) : r \in past[i] => r.id <= n
      <3> SUFFICES ASSUME NEW r \in Plain(rows), r \in past[i] PROVE r.id <= n
        OBVIOUS
      <3>1. r.id <= cursor[i] /\ r.id \in Nat /\ cursor[i] \in Nat /\ n \in Nat
        BY ConstantsAssumption DEF TypeOK, RowType
      <3>2. QED
        BY <2>1, <3>1
    <2>5. QED
      BY <2>1, <2>2, <2>3, <2>4 DEF TypeOK, Plain
  <1>3. ASSUME NEW i \in Instance, Prune(i)
        PROVE  PastInv'
    <2>1. Plain(rows') \subseteq Plain(rows)
      BY <1>3 DEF Prune, Plain
    <2>2. QED
      BY <1>3, <2>1 DEF Prune
  <1>4. ASSUME NEW i \in Instance, Start(i)
        PROVE  PastInv'
    <2>1. PICK n \in 0..MaxId : /\ cursor' = [cursor EXCEPT ![i] = n]
                                /\ \A r \in rows : r.id <= n
      BY <1>4 DEF Start, Latest, Ids
    <2>2. \A r \in Plain(rows) : r.id <= n
      BY <2>1 DEF Plain, Row
    <2>3. batch[i] = {}
      BY <1>4 DEF Start, CursorInv, TypeOK
    <2>4. QED
      BY <1>4, <2>1, <2>2, <2>3 DEF Start, TypeOK, Plain
  <1>5. ASSUME NEW i \in Instance, Stop(i) \/ Crash(i)
        PROVE  PastInv'
    BY <1>5 DEF Stop, Crash, TypeOK, Plain
  <1>6. ASSUME NEW s \in sending, Commit(s)
        PROVE  PastInv'
    <2>1. Plain(rows') = Plain(rows) \cup {s}
      BY <1>6, PlainCommit
    <2>2. s \notin published
      BY DEF OnceInv
    <2>3. \A i \in Instance : s \notin past[i]
      BY <2>2 DEF TypeOK
    <2>4. published' = published \cup {s} /\ UNCHANGED <<cursor, batch, heard, past>>
      BY <1>6 DEF Commit
    <2>5. QED
      BY <2>1, <2>3, <2>4
  <1>7. CASE TimePasses
    <2>1. Plain(rows') = Plain(rows)
      BY <1>7, OlderPlain DEF TimePasses
    <2>2. QED
      BY <1>7, <2>1 DEF TimePasses
  <1>8. QED
    BY <1>1, <1>2, <1>3, <1>4, <1>5, <1>6, <1>7
       DEF Next, Emit, Insert, Retry, Drop, vars, Plain

LEMMA FanoutStep ==
    ASSUME TypeOK, CursorInv, OnceInv, PastInv, [Next]_vars
    PROVE  [Fanout!Next]_(Fanout!vars)
  <1>1. ASSUME NEW i \in Instance, Dispatch(i)
        PROVE  \E S \in SUBSET Origins(published) : Fanout!Deliver(i, S)
    <2> DEFINE foreign == {r \in batch[i] : r.origin # i}
    <2>1. /\ heard' = [heard EXCEPT ![i] = @ \cup foreign]
          /\ UNCHANGED <<up, published, past>> /\ i \in up
      BY <1>1 DEF Dispatch, TypeOK
    <2>2. foreign \subseteq published \ past[i] /\ \A r \in foreign : r.origin # i
      BY DEF PastInv
    <2>3. \A r \in foreign, q \in heard[i] : r.event # q.event
      <3> SUFFICES ASSUME NEW r \in foreign, NEW q \in heard[i], r.event = q.event PROVE FALSE
        OBVIOUS
      <3>1. r = q
        BY DEF PastInv, OnceInv
      <3>2. r.id > cursor[i] /\ r.id <= cursor[i]
        BY <3>1 DEF CursorInv
      <3>3. r.id \in Nat /\ cursor[i] \in Nat
        BY ConstantsAssumption DEF TypeOK, RowType
      <3>4. QED
        BY <3>2, <3>3
    <2>4. \A r \in foreign, q \in past[i] : r.event # q.event
      BY <2>2 DEF OnceInv, TypeOK
    <2> HIDE DEF foreign
    <2>5. Origins(foreign) \subseteq Origins(published) \ (Origins(past[i]) \cup Origins(heard[i]))
      BY <2>2, <2>3, <2>4 DEF Origins
    <2>6. \A p \in Origins(foreign) : p.origin # i
      BY <2>2 DEF Origins
    <2>7. Origins(heard[i] \cup foreign) = Origins(heard[i]) \cup Origins(foreign)
      BY DEF Origins
    <2>8. [j \in Instance |-> Origins(heard'[j])] =
              [[j \in Instance |-> Origins(heard[j])] EXCEPT ![i] = @ \cup Origins(foreign)]
      BY <2>1, <2>7 DEF TypeOK
    <2>9. Fanout!Deliver(i, Origins(foreign))
      BY <2>1, <2>5, <2>6, <2>8 DEF Fanout!Deliver
    <2>10. QED
      BY <2>5, <2>9
  <1>2. ASSUME NEW i \in Instance, Start(i)
        PROVE  Fanout!Join(i)
    BY ZenonT(60), <1>2 DEF Start, Fanout!Join, TypeOK, Origins
  <1>3. ASSUME NEW i \in Instance, Stop(i) \/ Crash(i)
        PROVE  Fanout!Leave(i)
    BY <1>3 DEF Stop, Crash, Fanout!Leave
  <1>4. ASSUME NEW s \in sending, Commit(s)
        PROVE  Fanout!Publish(s.origin, s.event)
    <2>1. Origins(published \cup {s}) = Origins(published) \cup {[event |-> s.event, origin |-> s.origin]}
      BY DEF Origins
    <2>2. QED
      BY <1>4, <2>1 DEF Commit, Fanout!Publish
  <1>5. ASSUME NEW s \in sending
        PROVE  s.origin \in Instance /\ s.event \in Event
    BY DEF TypeOK, RowType
  <1>6. CASE UNCHANGED <<up, published, past, heard>>
    BY <1>6 DEF Fanout!vars
  <1>7. QED
    BY <1>1, <1>2, <1>3, <1>4, <1>5, <1>6
       DEF Next, Emit, Poll, Prune, Insert, Retry, Drop, TimePasses, vars, Fanout!Next

\* The event log implements the fan-out: what reaches the subscribers of an
\* instance was published by a peer after the instance started, and only once.
THEOREM LogImplementsFanout == Spec => ImplementsFanout
  <1>1. Init => CursorInv /\ OnceInv /\ PastInv /\ Fanout!Init
    BY DEF Init, CursorInv, OnceInv, PastInv, Plain, Fanout!Init, Origins
  <1>2. TypeOK /\ CursorInv /\ OnceInv /\ PastInv /\ [Next]_vars
            => (CursorInv /\ OnceInv /\ PastInv)'
    BY CursorStep, OnceStep, PastStep
  <1>3. TypeOK /\ CursorInv /\ OnceInv /\ PastInv /\ [Next]_vars => [Fanout!Next]_(Fanout!vars)
    BY FanoutStep
  <1>4. QED
    BY <1>1, <1>2, <1>3, TypeCorrect, PTL DEF Spec, ImplementsFanout, Fanout!Spec

-----------------------------------------------------------------------------
(* Nothing is skipped.  A batch holds all that an instance is owed up to   *)
(* its last row, and a row committed below a cursor is late: the cursor is *)
(* the id of a published row.                                              *)

\* An id belongs to one row, and is drawn before it is used.
IdInv ==
    /\ \A s \in sending \cup published : s.id < nextId
    /\ \A s, t \in sending \cup published : s.id > 0 /\ s.id = t.id => s = t
    /\ \A s \in published : s.id > 0

\* The cursor of a running instance is 0 or the id of a published row.
CursorKnown == \A i \in up : cursor[i] = 0 \/ \E p \in published : p.id = cursor[i]

BatchClosed ==
    \A i \in Instance : \A r \in Owed(i), b \in batch[i] :
        r.id > cursor[i] /\ r.id <= b.id => r \in batch[i]

SkipInv == IsFiniteSet(Plain(rows)) /\ CursorKnown /\ BatchClosed /\ NothingSkipped

LogInv == TypeOK /\ CursorInv /\ OnceInv /\ PastInv /\ IdInv

LEMMA IdStep ==
    ASSUME TypeOK, OnceInv, IdInv, [Next]_vars
    PROVE  IdInv'
  <1>0. \A s \in sending \cup published : s.id \in Nat /\ nextId \in Nat
    BY ConstantsAssumption DEF TypeOK, RowType
  <1>1. ASSUME NEW i \in Instance, NEW a \in Action, Emit(i, a)
        PROVE  IdInv'
    <2> DEFINE new == Sent(i, [act : {a}, topic : Topic], FALSE)
    <2>1. \A s \in new : s.id = 0
      <3>1. \A s \in new : s = Row(0, s.event, i)
        BY SentRows
      <3>2. \A e : Row(0, e, i).id = 0
        BY DEF Row
      <3> QED BY <3>1, <3>2
    <2>2. sending' = sending \cup new /\ UNCHANGED <<nextId, published>>
      BY <1>1 DEF Emit
    <2>3. nextId > 0 /\ nextId \in Nat
      BY ConstantsAssumption DEF TypeOK
    <2> HIDE DEF new
    <2> QED BY <1>0, <2>1, <2>2, <2>3 DEF IdInv
  <1>2. ASSUME NEW i \in Instance, Dispatch(i)
        PROVE  IdInv'
    <2>1. UNCHANGED <<sending, published, nextId>>
      BY <1>2 DEF Dispatch, Sent, Publishes
    <2> QED BY <2>1 DEF IdInv
  <1>3. ASSUME NEW s \in sending, Insert(s)
        PROVE  IdInv'
    <2> DEFINE t == Row(nextId, s.event, s.origin)
    <2>1. sending' = (sending \ {s}) \cup {t} /\ nextId' = nextId + 1 /\ published' = published
      BY <1>3 DEF Insert
    <2>2. t.id = nextId
      BY DEF Row
    <2> HIDE DEF t
    <2>3. \A r \in sending' \cup published' : r = t \/ (r \in sending \cup published /\ r.id < nextId)
      BY <2>1 DEF IdInv
    <2>4. nextId \in Nat /\ \A r \in sending' \cup published' : r.id \in Nat /\ (r.id = nextId => r = t)
      BY <1>0, <2>2, <2>3
    <2> QED BY <1>0, <2>1, <2>2, <2>3, <2>4 DEF IdInv
  <1>4. ASSUME NEW s \in sending, Retry(s)
        PROVE  IdInv'
    <2> DEFINE t == Row(0, s.event, s.origin)
    <2>1. sending' = (sending \ {s}) \cup {t} /\ nextId' = nextId /\ published' = published
      BY <1>4 DEF Retry
    <2>2. t.id = 0 /\ 0 < nextId
      BY ConstantsAssumption DEF Row, TypeOK
    <2> HIDE DEF t
    <2> QED BY <1>0, <2>1, <2>2 DEF IdInv
  <1>5. ASSUME NEW s \in sending, Commit(s)
        PROVE  IdInv'
    BY <1>5 DEF IdInv, Commit
  <1>6. ASSUME NEW s \in sending, Drop(s)
        PROVE  IdInv'
    BY <1>6 DEF IdInv, Drop
  <1>7. ASSUME NEW i \in Instance, Crash(i)
        PROVE  IdInv'
    BY <1>7 DEF IdInv, Crash
  <1> QED
    BY <1>1, <1>2, <1>3, <1>4, <1>5, <1>6, <1>7
       DEF Next, IdInv, Poll, Prune, Start, Stop, TimePasses, vars

\* With the oldest rows first, a batch leaves nothing out below its last row.
LEMMA FetchedClosed ==
    ASSUME TypeOK, IsFiniteSet(Plain(rows)), NEW i \in Instance,
           NEW r \in Plain(rows), NEW b \in Fetched(i), r.id > cursor[i], r.id <= b.id
    PROVE  r \in Fetched(i)
  <1> DEFINE new == {q \in Plain(rows) : q.id > cursor[i]}
             below(x) == {q \in new : q.id < x.id}
  <1>1. b \in new /\ r \in new
    BY DEF Fetched
  <1>2. \A q \in new : q.id \in Nat
    BY ConstantsAssumption DEF TypeOK, RowType
  <1>3. below(r) \subseteq below(b)
    BY <1>1, <1>2
  <1>4. IsFiniteSet(below(b))
    BY FS_Subset
  <1>5. Cardinality(below(r)) <= Cardinality(below(b)) /\ IsFiniteSet(below(r))
    BY <1>3, <1>4, FS_Subset
  <1>6. Cardinality(below(b)) \in Nat /\ Cardinality(below(r)) \in Nat
    BY <1>4, <1>5, FS_CardinalityType
  <1>7. Cardinality(below(b)) < Batch
    BY DEF Fetched
  <1>8. Cardinality(below(r)) < Batch
    BY <1>5, <1>6, <1>7, ConstantsAssumption
  <1> QED BY <1>1, <1>8 DEF Fetched

\* An instance is owed rows that were published, with ids of their own.
LEMMA OwedRows ==
    ASSUME LogInv, NEW i \in Instance, NEW r \in Owed(i)
    PROVE  r \in Plain(rows) /\ r \in published /\ r \notin past[i] /\ r.id \in Nat
  BY ConstantsAssumption DEF LogInv, Owed, PastInv, TypeOK, RowType

\* Less is owed, nothing else changes.
LEMMA OwedLess ==
    ASSUME LogInv, SkipInv, UNCHANGED <<up, cursor, batch, heard, published>>, IsFiniteSet(Plain(rows)'),
           \A i \in Instance : Owed(i)' \subseteq Owed(i)
    PROVE  SkipInv'
  BY DEF SkipInv, CursorKnown, BatchClosed, NothingSkipped, LogInv, TypeOK

LEMMA SkipStep ==
    ASSUME LogInv, SkipInv, [Next]_vars
    PROVE  SkipInv'
  <1> USE DEF SkipInv
  <1>0. TypeOK /\ CursorInv /\ OnceInv /\ PastInv /\ IdInv
    BY DEF LogInv
  <1>1. ASSUME NEW i \in Instance, Poll(i)
        PROVE  SkipInv'
    <2>1. /\ UNCHANGED <<up, rows, cursor, heard, published, past, late>>
          /\ batch' = [batch EXCEPT ![i] = Fetched(i)]
      BY <1>1 DEF Poll
    <2>2. \A j \in Instance : Owed(j)' = Owed(j)
      BY <2>1 DEF Owed, Plain
    <2>3. BatchClosed'
      <3> SUFFICES ASSUME NEW j \in Instance, NEW r \in Owed(j), NEW b \in batch'[j],
                          r.id > cursor[j], r.id <= b.id
                   PROVE  r \in batch'[j]
        BY <2>1, <2>2 DEF BatchClosed
      <3>1. CASE j = i
        <4>1. batch'[j] = Fetched(i)
          BY <1>0, <2>1, <3>1 DEF TypeOK
        <4> QED BY <1>0, <3>1, <4>1, FetchedClosed, OwedRows
      <3>2. CASE j # i
        <4>1. batch'[j] = batch[j]
          BY <1>0, <2>1, <3>2 DEF TypeOK
        <4> QED BY <4>1 DEF BatchClosed
      <3> QED BY <3>1, <3>2
    <2>4. CursorKnown' /\ NothingSkipped'
      BY <1>0, <2>1, <2>2 DEF CursorKnown, NothingSkipped, TypeOK
    <2>5. Plain(rows)' = Plain(rows)
      BY <2>1 DEF Plain
    <2> QED BY <2>3, <2>4, <2>5
  <1>2. ASSUME NEW i \in Instance, Dispatch(i)
        PROVE  SkipInv'
    <2>1. PICK n \in 0..MaxId : /\ cursor' = [cursor EXCEPT ![i] = n]
                                /\ Latest(n, {cursor[i]} \cup Ids(batch[i]))
      BY <1>2 DEF Dispatch, Advance
    <2>2. /\ UNCHANGED <<up, rows, published, past, late>>
          /\ heard' = [heard EXCEPT ![i] = @ \cup {r \in batch[i] : r.origin # i}]
          /\ batch' = [batch EXCEPT ![i] = {}]
      BY <1>2 DEF Dispatch
    <2>3. \A j \in Instance : Owed(j)' = Owed(j)
      BY <2>2 DEF Owed, Plain
    <2>4. n = cursor[i] \/ \E b \in batch[i] : b.id = n
      BY <2>1 DEF Latest, Ids
    <2>5. CursorKnown'
      <3>1. \A b \in batch[i] : b \in published
        BY <1>0, <1>2 DEF PastInv
      <3>2. i \notin up \/ n = 0 \/ \E p \in published : p.id = n
        BY <2>4, <3>1 DEF CursorKnown
      <3>3. \A j \in Instance : cursor'[j] = IF j = i THEN n ELSE cursor[j]
        BY <1>0, <2>1 DEF TypeOK
      <3>4. up \subseteq Instance /\ up' = up /\ published' = published
        BY <1>0, <2>2 DEF TypeOK
      <3> QED BY <3>2, <3>3, <3>4 DEF CursorKnown
    <2>6. BatchClosed'
      BY <1>0, <2>1, <2>2, <2>3 DEF BatchClosed, TypeOK
    <2>7. NothingSkipped'
      <3> SUFFICES ASSUME NEW j \in up, NEW r \in Owed(j), r.id <= cursor'[j]
                   PROVE  r \in heard'[j]
        BY <1>0, <2>2, <2>3 DEF NothingSkipped, TypeOK
      <3>0. j \in Instance BY <1>0 DEF TypeOK
      <3>1. CASE j = i
        <4>1. cursor'[i] = n /\ heard'[i] = heard[i] \cup {q \in batch[i] : q.origin # i}
          BY <1>0, <2>1, <2>2 DEF TypeOK
        <4>2. CASE r.id <= cursor[i]
          BY <3>1, <4>1, <4>2 DEF NothingSkipped
        <4>3. CASE ~(r.id <= cursor[i])
          <5>1. r.id \in Nat /\ cursor[i] \in Nat
            BY <1>0, <3>0, OwedRows, ConstantsAssumption DEF TypeOK
          <5>2. r.id > cursor[i] /\ r.id <= n /\ n # cursor[i]
            BY <3>1, <4>1, <4>3, <5>1
          <5>3. r \in batch[i]
            BY <2>4, <3>0, <3>1, <5>2 DEF BatchClosed
          <5>4. r.origin # i
            BY <3>1 DEF Owed
          <5> QED BY <3>1, <4>1, <5>3, <5>4
        <4> QED BY <4>2, <4>3
      <3>2. CASE j # i
        BY <1>0, <2>1, <2>2, <3>0, <3>2 DEF NothingSkipped, TypeOK
      <3> QED BY <3>1, <3>2
    <2>8. Plain(rows)' = Plain(rows)
      BY <2>2 DEF Plain
    <2> QED BY <2>5, <2>6, <2>7, <2>8
  <1>3. ASSUME NEW i \in Instance, Start(i)
        PROVE  SkipInv'
    <2>1. PICK n \in 0..MaxId : /\ cursor' = [cursor EXCEPT ![i] = n]
                                /\ n \in {0} \cup Ids(rows)
      BY <1>3 DEF Start, Latest
    <2>2. /\ UNCHANGED <<rows, batch, published, late>> /\ up' = up \cup {i}
          /\ past' = [past EXCEPT ![i] = published]
          /\ heard' = [heard EXCEPT ![i] = {}]
      BY <1>3 DEF Start
    <2>3. Owed(i)' = {} /\ \A j \in Instance : j # i => Owed(j)' = Owed(j)
      BY <1>0, <2>2 DEF Owed, PastInv, TypeOK, Plain
    <2>4. CursorKnown'
      <3>1. \A m \in Ids(rows) : \E p \in published : p.id = m
        <4> SUFFICES ASSUME NEW r \in rows PROVE \E p \in published : p.id = r.id
          BY DEF Ids
        <4>1. Row(r.id, r.event, r.origin) \in published
          BY <1>0 DEF PastInv, Plain
        <4> QED BY <4>1 DEF Row
      <3> QED BY <1>0, <2>1, <2>2, <3>1 DEF CursorKnown, TypeOK
    <2>5. BatchClosed' /\ NothingSkipped'
      BY <1>0, <2>1, <2>2, <2>3 DEF BatchClosed, NothingSkipped, TypeOK
    <2>6. Plain(rows)' = Plain(rows)
      BY <2>2 DEF Plain
    <2> QED BY <2>4, <2>5, <2>6
  <1>4. ASSUME NEW i \in Instance, Stop(i) \/ Crash(i)
        PROVE  SkipInv'
    <2>1. /\ UNCHANGED <<rows, cursor, heard, published, past, late>> /\ up' = up \ {i}
          /\ batch' = [batch EXCEPT ![i] = {}]
      BY <1>4 DEF Stop, Crash
    <2>2. \A j \in Instance : Owed(j)' = Owed(j)
      BY <2>1 DEF Owed, Plain
    <2>3. Plain(rows)' = Plain(rows)
      BY <2>1 DEF Plain
    <2> QED BY <1>0, <2>1, <2>2, <2>3 DEF CursorKnown, BatchClosed, NothingSkipped, TypeOK
  <1>5. ASSUME NEW s \in sending, Commit(s)
        PROVE  SkipInv'
    <2>1. Plain(rows') = Plain(rows) \cup {s}
      BY <1>0, <1>5, PlainCommit
    <2>2. /\ s \notin published /\ s.id > 0 /\ s.id \in Nat
          /\ \A p \in published : p.id \in Nat /\ p.id # s.id
      BY <1>0, <1>5, ConstantsAssumption DEF OnceInv, IdInv, Commit, TypeOK, RowType
    <2>3. /\ UNCHANGED <<up, cursor, batch, heard, past>> /\ published' = published \cup {s}
          /\ late' = IF \E r \in published : r.id > s.id THEN late \cup {s} ELSE late
      BY <1>5 DEF Commit
    <2>4. \A i \in Instance : \A r \in Owed(i)' : r \in Owed(i) \/ (r = s /\ \A p \in published : p.id < s.id)
      BY <2>1, <2>2, <2>3 DEF Owed
    <2>5. IsFiniteSet(Plain(rows'))
      BY <2>1, FS_AddElement
    <2>6. CursorKnown'
      BY <1>0, <2>3 DEF CursorKnown, TypeOK
    <2>7. BatchClosed'
      <3> SUFFICES ASSUME NEW i \in Instance, NEW r \in Owed(i)', NEW b \in batch[i],
                          r.id > cursor[i], r.id <= b.id
                   PROVE  r \in batch[i]
        BY <2>3 DEF BatchClosed
      <3>1. b \in published
        BY <1>0 DEF PastInv
      <3>2. CASE r \in Owed(i)
        BY <3>2 DEF BatchClosed
      <3>3. CASE r = s /\ \A p \in published : p.id < s.id
        BY <2>2, <3>1, <3>3
      <3> QED BY <2>4, <3>2, <3>3
    <2>8. NothingSkipped'
      <3> SUFFICES ASSUME NEW i \in up, NEW r \in Owed(i)', r.id <= cursor[i]
                   PROVE  r \in heard[i]
        BY <2>3 DEF NothingSkipped
      <3>1. CASE r \in Owed(i)
        BY <3>1 DEF NothingSkipped
      <3>2. CASE r = s /\ \A p \in published : p.id < s.id
        <4>1. cursor[i] = 0 \/ \E p \in published : p.id = cursor[i]
          BY DEF CursorKnown
        <4> QED BY <2>2, <3>2, <4>1
      <3> QED BY <1>0, <2>4, <3>1, <3>2 DEF TypeOK
    <2> QED BY <2>5, <2>6, <2>7, <2>8
  <1>6. ASSUME NEW i \in Instance, Prune(i)
        PROVE  SkipInv'
    <2>1. rows' \subseteq rows /\ UNCHANGED <<up, cursor, batch, heard, published, past, late>>
      BY <1>6 DEF Prune
    <2>2. Plain(rows') \subseteq Plain(rows)
      BY <2>1 DEF Plain
    <2>3. \A j \in Instance : Owed(j)' \subseteq Owed(j)
      BY <2>1, <2>2 DEF Owed
    <2>4. IsFiniteSet(Plain(rows'))
      BY <2>2, FS_Subset
    <2> QED BY <2>1, <2>3, <2>4, OwedLess
  <1>7. CASE TimePasses
    <2>1. Plain(rows') = Plain(rows)
      BY <1>7, OlderPlain DEF TimePasses
    <2>2. UNCHANGED <<up, cursor, batch, heard, published, past, late>>
      BY <1>7 DEF TimePasses
    <2>3. \A j \in Instance : Owed(j)' \subseteq Owed(j)
      BY <2>1, <2>2 DEF Owed
    <2> QED BY <2>1, <2>2, <2>3, OwedLess
  <1>8. ASSUME UNCHANGED <<up, rows, cursor, batch, heard, published, past, late>>
        PROVE  SkipInv'
    <2>1. Plain(rows') = Plain(rows) BY <1>8 DEF Plain
    <2>2. \A j \in Instance : Owed(j)' \subseteq Owed(j)
      BY <1>8, <2>1 DEF Owed
    <2> QED BY <1>8, <2>1, <2>2, OwedLess
  <1> QED
    BY <1>1, <1>2, <1>3, <1>4, <1>5, <1>6, <1>7, <1>8
       DEF Next, Emit, Insert, Retry, Drop, vars

\* Whatever inserts overlap, fail and are tried again, whatever is pruned and
\* whoever restarts: an instance never polls past a row it is owed.
THEOREM PollsSkipNothing == Spec => []NothingSkipped
  <1>1. Init => TypeOK
    BY ConstantsAssumption DEF Init, TypeOK, RowType, Plain
  <1>2. Init => CursorInv /\ OnceInv /\ PastInv /\ IdInv
    BY DEF Init, CursorInv, OnceInv, PastInv, IdInv, Plain
  <1>3. Init => SkipInv
    <2>1. Init => Plain(rows) = {}
      BY DEF Init, Plain
    <2> QED BY <2>1, FS_EmptySet DEF Init, SkipInv, CursorKnown, BatchClosed, NothingSkipped, Owed
  <1>4. LogInv /\ [Next]_vars => LogInv'
    BY TypeStep, CursorStep, OnceStep, PastStep, IdStep DEF LogInv
  <1>5. LogInv /\ SkipInv /\ [Next]_vars => SkipInv'
    BY SkipStep
  <1>6. Init => LogInv
    BY <1>1, <1>2 DEF LogInv
  <1>7. SkipInv => NothingSkipped
    BY DEF SkipInv
  <1> QED
    BY <1>3, <1>4, <1>5, <1>6, <1>7, PTL DEF Spec

\* What happened once is heard once on every instance, whatever commits late,
\* fails, restarts or reacts.
THEOREM AllHeardOnce == Spec => []HeardOnce
  <1>1. BatchIsNew /\ ReactionBridgedOnce => HeardOnce
    BY DEF HeardOnce
  <1> QED BY <1>1, NewRowsOnly, BridgedOnce, PTL
=============================================================================

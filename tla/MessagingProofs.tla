--------------------------- MODULE MessagingProofs ---------------------------
(* Proofs about Messaging, for all values of its constants.                *)
EXTENDS Messaging, TLAPS

-----------------------------------------------------------------------------
(* Types.                                                                  *)

LEMMA ItemTyped ==
    ASSUME NEW m \in Message, NEW a \in 1..MaxRetries
    PROVE  [msg |-> m, attempt |-> a] \in Item
  BY DEF Item

LEMMA FirstAttempt == 1 \in 1..MaxRetries
  BY ConstantsAssumption

LEMMA BecomesTyped ==
    ASSUME TypeOK, NEW m \in Message, NEW p \in Provider, NEW f \in Fate, Becomes(m, p, f)
    PROVE  fate' \in [Message -> [Provider -> Fate]]
  BY DEF TypeOK, Becomes

\* enqueue() keeps the queues typed and within their bound.
LEMMA EnqueueTyped ==
    ASSUME TypeOK, NEW p \in Provider, NEW n \in Worker, NEW item \in Item,
           Enqueue(p, n, item)
    PROVE  /\ queue' \in [Provider -> [Worker -> Seq(Item)]]
           /\ fate' \in [Message -> [Provider -> Fate]]
           /\ \A q \in Provider, k \in Worker : Len(queue'[q][k]) <= QueueSize
<1>0. /\ item.msg \in Message
      /\ QueueSize \in Nat
      /\ queue[p][n] \in Seq(Item)
  <2>1. item.msg \in Message
    BY DEF Item
  <2>2. queue[p][n] \in Seq(Item)
    BY DEF TypeOK
  <2> QED BY <2>1, <2>2, ConstantsAssumption
<1>1. CASE Len(queue[p][n]) < QueueSize
  <2>1. queue' = [queue EXCEPT ![p][n] = Append(@, item)] /\ Becomes(item.msg, p, "queued")
    BY <1>1 DEF Enqueue
  <2>2. Append(queue[p][n], item) \in Seq(Item) /\ Len(Append(queue[p][n], item)) = Len(queue[p][n]) + 1
    BY <1>0
  <2>3. queue' \in [Provider -> [Worker -> Seq(Item)]]
    BY <2>1, <2>2 DEF TypeOK
  <2>4. fate' \in [Message -> [Provider -> Fate]]
    BY <1>0, <2>1, BecomesTyped DEF Fate
  <2>5. ASSUME NEW q \in Provider, NEW k \in Worker PROVE Len(queue'[q][k]) <= QueueSize
    <3>1. CASE q = p /\ k = n
      <4>1. queue'[p][n] = Append(queue[p][n], item)
        BY <2>1 DEF TypeOK
      <4>2. Len(queue[p][n]) \in Nat
        BY <1>0
      <4> QED BY <1>0, <1>1, <2>2, <3>1, <4>1, <4>2
    <3>2. CASE ~(q = p /\ k = n)
      <4>1. queue'[q][k] = queue[q][k]
        BY <2>1, <3>2 DEF TypeOK
      <4> QED BY <4>1 DEF TypeOK
    <3> QED BY <3>1, <3>2
  <2> QED BY <2>3, <2>4, <2>5
<1>2. CASE ~(Len(queue[p][n]) < QueueSize)
  <2>1. UNCHANGED queue /\ Becomes(item.msg, p, "dropped")
    BY <1>2 DEF Enqueue
  <2>2. fate' \in [Message -> [Provider -> Fate]]
    BY <1>0, <2>1, BecomesTyped DEF Fate, Ended
  <2> QED BY <2>1, <2>2 DEF TypeOK
<1> QED BY <1>1, <1>2

LEMMA ShownTyped ==
    ASSUME TypeOK, NEW m \in Message, NEW r, Shown(m, r)
    PROVE  shown' \subseteq Message
  BY DEF TypeOK, Shown

LEMMA InitTyped == Init => TypeOK
<1> SUFFICES ASSUME Init PROVE TypeOK
  OBVIOUS
<1>1. 1 \in Worker /\ QueueSize \in Nat /\ Home \in Instance
  BY ConstantsAssumption DEF Worker
<1>2. << >> \in Seq(Item) /\ Len(<< >>) = 0
  OBVIOUS
<1>3. queue \in [Provider -> [Worker -> Seq(Item)]] /\ \A p \in Provider, n \in Worker : Len(queue[p][n]) <= QueueSize
  BY <1>1, <1>2 DEF Init
<1>4. click \in [Click -> [at: Instance, msg: Message \cup {NoMessage}, cached: BOOLEAN,
                           result: Result \cup {"none"}, stage: Stage]]
  BY <1>1 DEF Init, NoClick, Stage
<1> QED BY <1>1, <1>3, <1>4 DEF Init, TypeOK, Fate

LEMMA StoreTyped == TypeOK /\ StoreStep => TypeOK'
<1> SUFFICES ASSUME TypeOK, StoreStep PROVE TypeOK'
  OBVIOUS
<1>1. ASSUME NEW i \in Instance, Reload(i) PROVE TypeOK'
  <2>1. cache' \in [Instance -> SUBSET Interactive]
    BY <1>1 DEF TypeOK, Reload
  <2> QED BY <1>1, <2>1 DEF TypeOK, Reload, delivery
<1>2. ASSUME NEW i \in Instance, ExpireStale(i) PROVE TypeOK'
  <2>1. cache' \in [Instance -> SUBSET Interactive]
    BY <1>2 DEF TypeOK, ExpireStale
  <2>2. row' \in [Message -> {"none", "open", "resolved"}]
    BY <1>2 DEF TypeOK, ExpireStale
  <2> QED BY <1>2, <2>1, <2>2 DEF TypeOK, ExpireStale, delivery
<1>3. ASSUME NEW m \in Message, Expire(m) PROVE TypeOK'
  BY <1>3 DEF TypeOK, Expire, delivery
<1>4. ASSUME NEW m \in Message, Write(m) PROVE TypeOK'
  <2>1. out' \in [Message -> [step: {"new", "create", "send"}, left: SUBSET Provider]]
    BY <1>4 DEF TypeOK, Write
  <2>2. row' \in [Message -> {"none", "open", "resolved"}]
    BY <1>4 DEF TypeOK, Write
  <2> QED BY <1>4, <2>1, <2>2 DEF TypeOK, Write
<1> QED BY <1>1, <1>2, <1>3, <1>4 DEF StoreStep

LEMMA ClickTyped == TypeOK /\ ClickStep => TypeOK'
<1> SUFFICES ASSUME TypeOK, NEW k \in Click,
                    \/ Resolve(k) \/ Answer(k)
                    \/ \E i \in Instance, m \in Message : Incoming(k, i, m)
             PROVE  TypeOK'
  BY DEF ClickStep
<1> DEFINE Clicks == [at: Instance, msg: Message \cup {NoMessage}, cached: BOOLEAN,
                      result: Result \cup {"none"}, stage: Stage]
<1>0. click \in [Click -> Clicks]
  BY DEF TypeOK
<1>1. ASSUME NEW result \in Result, Claim(k, result) PROVE TypeOK'
  <2>1. click' \in [Click -> Clicks]
    BY ZenonT(60), <1>0, <1>1 DEF Claim, Stage
  <2>2. row' \in [Message -> {"none", "open", "resolved"}]
    BY <1>1 DEF Claim, TypeOK
  <2> HIDE DEF Clicks
  <2> QED BY <1>1, <2>1, <2>2 DEF Claim, TypeOK, delivery, Clicks
<1>2. CASE Answer(k)
  <2>1. Home \in Instance
    BY ConstantsAssumption
  <2>2. click' \in [Click -> Clicks]
    BY <1>0, <1>2, <2>1 DEF Answer, NoClick, Stage
  <2> QED BY <1>2, <2>2 DEF Answer, TypeOK, delivery, pending
<1>3. ASSUME NEW i \in Instance, NEW m \in Message, Incoming(k, i, m) PROVE TypeOK'
  <2>1. click' \in [Click -> Clicks]
    BY <1>0, <1>3 DEF Incoming, Stage
  <2>2. cache' \in [Instance -> SUBSET Interactive]
    BY <1>3 DEF Incoming, TypeOK
  <2> QED BY <1>3, <2>1, <2>2 DEF Incoming, TypeOK, delivery
<1> QED BY <1>1, <1>2, <1>3 DEF Resolve

LEMMA DeliveryTyped == TypeOK /\ DeliveryStep => TypeOK'
<1> SUFFICES ASSUME TypeOK, DeliveryStep PROVE TypeOK'
  OBVIOUS
<1>1. ASSUME NEW m \in Message, Dispatch(m) PROVE TypeOK'
  <2>1. out' \in [Message -> [step: {"new", "create", "send"}, left: SUBSET Provider]]
    <3>1. out \in [Message -> [step: {"new", "create", "send"}, left: SUBSET Provider]]
      BY DEF TypeOK
    <3>2. CASE m \in Interactive
      BY <1>1, <3>1, <3>2 DEF Dispatch
    <3>3. CASE m \notin Interactive
      BY <1>1, <3>1, <3>3 DEF Dispatch
    <3> QED BY <3>2, <3>3
  <2>2. cache' \in [Instance -> SUBSET Interactive]
    <3>1. cache \in [Instance -> SUBSET Interactive]
      BY DEF TypeOK
    <3>2. CASE m \in Interactive
      BY <1>1, <3>1, <3>2 DEF Dispatch
    <3>3. CASE m \notin Interactive
      BY <1>1, <3>1, <3>3 DEF Dispatch
    <3> QED BY <3>2, <3>3
  <2> QED BY <1>1, <2>1, <2>2 DEF TypeOK, Dispatch
<1>2. ASSUME NEW m \in Message, NEW p \in Provider, NEW r \in Outcome, Send(m, p, r) PROVE TypeOK'
  <2>1. out' \in [Message -> [step: {"new", "create", "send"}, left: SUBSET Provider]]
    BY <1>2 DEF TypeOK, Send
  <2>2. shown' \subseteq Message
    BY <1>2, ShownTyped DEF Send
  <2>3. [msg |-> m, attempt |-> 1] \in Item
    BY ItemTyped, FirstAttempt
  <2>4. worker[p] \in Worker
    BY DEF TypeOK
  <2>5. /\ queue' \in [Provider -> [Worker -> Seq(Item)]]
        /\ fate' \in [Message -> [Provider -> Fate]]
        /\ \A q \in Provider, k \in Worker : Len(queue'[q][k]) <= QueueSize
    <3>1. CASE r = "accepted"
      <4>1. UNCHANGED queue /\ Becomes(m, p, "delivered")
        BY <1>2, <3>1 DEF Send
      <4>2. fate' \in [Message -> [Provider -> Fate]]
        BY <4>1, BecomesTyped DEF Fate, Ended
      <4> QED BY <4>1, <4>2 DEF TypeOK
    <3>2. CASE r # "accepted"
      BY <1>2, <2>3, <2>4, <3>2, EnqueueTyped DEF Send
    <3> QED BY <3>1, <3>2
  <2> QED BY <1>2, <2>1, <2>2, <2>5 DEF TypeOK, Send, pending
<1>3. ASSUME NEW p \in Provider, NEW n \in Worker, Take(p, n) PROVE TypeOK'
  <2>1. queue[p][n] \in Seq(Item) /\ queue[p][n] # << >> /\ Len(queue[p][n]) <= QueueSize
    BY <1>3 DEF TypeOK, Take
  <2>2. Head(queue[p][n]) \in Item /\ Tail(queue[p][n]) \in Seq(Item)
        /\ Len(Tail(queue[p][n])) = Len(queue[p][n]) - 1 /\ Len(queue[p][n]) \in Nat
    BY <2>1
  <2>3. job' \in [Provider -> [Worker -> Item \cup {Idle}]]
    BY <1>3, <2>2 DEF TypeOK, Take
  <2>4. queue' \in [Provider -> [Worker -> Seq(Item)]]
    BY <1>3, <2>2 DEF TypeOK, Take
  <2>5. ASSUME NEW q \in Provider, NEW k \in Worker PROVE Len(queue'[q][k]) <= QueueSize
    <3>1. CASE q = p /\ k = n
      <4>1. queue'[p][n] = Tail(queue[p][n])
        BY <1>3 DEF Take, TypeOK
      <4> QED BY <2>1, <2>2, <3>1, <4>1, ConstantsAssumption
    <3>2. CASE ~(q = p /\ k = n)
      <4>1. queue'[q][k] = queue[q][k]
        BY <1>3, <3>2 DEF Take, TypeOK
      <4> QED BY <4>1 DEF TypeOK
    <3> QED BY <3>1, <3>2
  <2> QED BY <1>3, <2>3, <2>4, <2>5 DEF TypeOK, Take, pending
<1>4. ASSUME NEW p \in Provider, NEW n \in Worker, NEW r \in Outcome, Retry(p, n, r) PROVE TypeOK'
  <2>1. job[p][n] \in Item
    BY <1>4 DEF TypeOK, Retry
  <2>2. job[p][n].msg \in Message /\ job[p][n].attempt \in 1..MaxRetries
    BY <2>1 DEF Item
  <2>3. job' \in [Provider -> [Worker -> Item \cup {Idle}]]
    BY <1>4 DEF TypeOK, Retry
  <2>4. shown' \subseteq Message
    BY <1>4, <2>2, ShownTyped DEF Retry
  <2>5. /\ queue' \in [Provider -> [Worker -> Seq(Item)]]
        /\ fate' \in [Message -> [Provider -> Fate]]
        /\ \A q \in Provider, k \in Worker : Len(queue'[q][k]) <= QueueSize
    <3>1. CASE r = "accepted"
      <4>1. UNCHANGED queue /\ Becomes(job[p][n].msg, p, "delivered")
        BY <1>4, <2>2, <3>1 DEF Retry
      <4>2. fate' \in [Message -> [Provider -> Fate]]
        BY <1>4, <2>2, <4>1, BecomesTyped DEF Fate, Ended
      <4> QED BY <4>1, <4>2 DEF TypeOK
    <3>2. CASE r # "accepted" /\ job[p][n].attempt < MaxRetries
      <4>1. job[p][n].attempt + 1 \in 1..MaxRetries
        BY <2>2, <3>2, ConstantsAssumption
      <4>2. [msg |-> job[p][n].msg, attempt |-> job[p][n].attempt + 1] \in Item
        BY <2>2, <4>1, ItemTyped
      <4> QED BY <1>4, <3>2, <4>2, EnqueueTyped DEF Retry
    <3>3. CASE r # "accepted" /\ ~(job[p][n].attempt < MaxRetries)
      <4>1. UNCHANGED queue /\ Becomes(job[p][n].msg, p, "dead")
        BY <1>4, <2>2, <3>3 DEF Retry
      <4>2. fate' \in [Message -> [Provider -> Fate]]
        BY <1>4, <2>2, <4>1, BecomesTyped DEF Fate, Ended
      <4> QED BY <4>1, <4>2 DEF TypeOK
    <3> QED BY <3>1, <3>2, <3>3
  <2> QED BY <1>4, <2>3, <2>4, <2>5 DEF TypeOK, Retry, pending
<1>5. ASSUME NEW p \in Provider, Register(p) PROVE TypeOK'
  <2>1. worker[p] + 1 \in Worker
    BY <1>5, ConstantsAssumption DEF Register, Worker, TypeOK
  <2> QED BY <1>5, <2>1 DEF Register, TypeOK, pending
<1> QED BY <1>1, <1>2, <1>3, <1>4, <1>5 DEF DeliveryStep

LEMMA CrashTyped == ASSUME TypeOK, NEW i \in Instance, Crash(i) PROVE TypeOK'
<1>1. 1 \in Worker /\ QueueSize \in Nat /\ Home \in Instance
  BY ConstantsAssumption DEF Worker
<1>2. cache' \in [Instance -> SUBSET Interactive]
  BY DEF Crash, TypeOK
<1>3. click' \in [Click -> [at: Instance, msg: Message \cup {NoMessage}, cached: BOOLEAN,
                            result: Result \cup {"none"}, stage: Stage]]
  BY <1>1 DEF Crash, TypeOK, NoClick, Stage
<1>4. CASE i = Home
  <2>1. /\ out' = [m \in Message |-> IF out[m].step = "new" THEN out[m]
                                      ELSE [step |-> "send", left |-> {}]]
        /\ worker' = [p \in Provider |-> 1]
        /\ queue' = [p \in Provider |-> [n \in Worker |-> <<>>]]
        /\ job' = [p \in Provider |-> [n \in Worker |-> Idle]]
        /\ fate' = [m \in Message |-> [p \in Provider |->
               IF out[m].step # "new" /\ fate[m][p] \notin Ended THEN "lost" ELSE fate[m][p]]]
    BY <1>4 DEF Crash
  <2>2. out' \in [Message -> [step: {"new", "create", "send"}, left: SUBSET Provider]]
    BY <2>1 DEF TypeOK
  <2>3. fate' \in [Message -> [Provider -> Fate]]
    <3>1. ASSUME NEW m \in Message, NEW p \in Provider PROVE fate[m][p] \in Fate
      BY DEF TypeOK
    <3>2. "lost" \in Fate
      BY DEF Fate, Ended
    <3> QED BY <2>1, <3>1, <3>2
  <2>4. << >> \in Seq(Item) /\ Len(<< >>) = 0
    OBVIOUS
  <2>5. queue' \in [Provider -> [Worker -> Seq(Item)]]
    BY <2>1, <2>4
  <2>6. \A p \in Provider, n \in Worker : queue'[p][n] = << >>
    BY <2>1
  <2>7. \A p \in Provider, n \in Worker : Len(queue'[p][n]) <= QueueSize
    BY <1>1, <2>4, <2>6
  <2>8. worker' \in [Provider -> Worker] /\ job' \in [Provider -> [Worker -> Item \cup {Idle}]]
    BY <1>1, <2>1
  <2> QED BY <1>2, <1>3, <2>2, <2>3, <2>5, <2>7, <2>8 DEF Crash, TypeOK
<1>5. CASE i # Home
  BY <1>2, <1>3, <1>5 DEF Crash, TypeOK
<1> QED BY <1>4, <1>5

LEMMA NextTyped == TypeOK /\ [Next]_vars => TypeOK'
<1>1. TypeOK /\ UNCHANGED vars => TypeOK'
  BY DEF TypeOK, vars, pending, delivery
<1> QED BY <1>1, StoreTyped, ClickTyped, DeliveryTyped, CrashTyped DEF Next

\* Every variable keeps its type and every retry queue its bound.
THEOREM TypeCorrect == Spec => []TypeOK
  BY InitTyped, NextTyped, PTL DEF Spec

-----------------------------------------------------------------------------
(* Who handles an action.  A row exists only once its message is on its    *)
(* way, so nothing opens it again after a claim: at most one claim is      *)
(* committed, and an answer follows what the claim returned.               *)

Took(k) == click[k].result \in {"won", "unheard"}

RowIsSent == \A m \in Message : row[m] # "none" => out[m].step = "send"
TookRow   == \A k \in Click : Took(k) => click[k].msg \in Message /\ row[click[k].msg] = "resolved"
OneTook   == \A k, l \in Click : Took(k) /\ Took(l) /\ click[k].msg = click[l].msg => k = l
AnswerFits ==
    \A k \in Click :
        /\ click[k].stage \in {"none", "claiming"} => click[k].result = "none"
        /\ click[k].stage \in {"claiming", "claimed"} => click[k].msg \in Message
        /\ click[k].stage = "claimed" => click[k].result # "none"
        /\ click[k].stage = "handled" => click[k].result \in {"won", "unheard", "nodb"}
        /\ click[k].stage = "dropped" => click[k].result \in {"lost", "unheard", "nodb"}

ClaimInv == RowIsSent /\ TookRow /\ OneTook /\ AnswerFits

LEMMA InitClaim == Init => ClaimInv
  BY DEF Init, NoClick, ClaimInv, RowIsSent, TookRow, OneTook, AnswerFits, Took

LEMMA StoreClaim == TypeOK /\ ClaimInv /\ StoreStep => ClaimInv'
<1> SUFFICES ASSUME TypeOK, ClaimInv, StoreStep PROVE ClaimInv'
  OBVIOUS
<1> USE DEF ClaimInv, RowIsSent, TookRow, OneTook, AnswerFits, Took
<1>1. ASSUME NEW i \in Instance, Reload(i) PROVE ClaimInv'
  BY <1>1 DEF Reload, delivery
<1>2. ASSUME NEW i \in Instance, ExpireStale(i) PROVE ClaimInv'
  BY <1>2 DEF ExpireStale, delivery, TypeOK
<1>3. ASSUME NEW m \in Message, Expire(m) PROVE ClaimInv'
  BY <1>3 DEF Expire, delivery
<1>4. ASSUME NEW m \in Message, Write(m) PROVE ClaimInv'
  <2>1. row[m] = "none"
    BY <1>4 DEF Write
  <2>2. UNCHANGED click /\ \A o \in Message \ {m} : row'[o] = row[o] /\ out'[o] = out[o]
    BY <1>4 DEF Write, TypeOK
  <2>3. out'[m].step = "send"
    BY <1>4 DEF Write, TypeOK
  <2> QED BY <2>1, <2>2, <2>3
<1> QED BY <1>1, <1>2, <1>3, <1>4 DEF StoreStep

LEMMA ClickClaim == TypeOK /\ ClaimInv /\ ClickStep => ClaimInv'
<1> SUFFICES ASSUME TypeOK, ClaimInv, NEW k \in Click,
                    \/ Resolve(k) \/ Answer(k)
                    \/ \E i \in Instance, m \in Message : Incoming(k, i, m)
             PROVE  ClaimInv'
  BY DEF ClickStep
<1> USE DEF ClaimInv, RowIsSent, TookRow, OneTook, AnswerFits, Took
<1>1. ASSUME NEW result \in Result, Claim(k, result) PROVE ClaimInv'
  <2>1. /\ click[k].msg \in Message /\ click[k].result = "none"
        /\ UNCHANGED out
        /\ \A l \in Click \ {k} : click'[l] = click[l]
        /\ click'[k].msg = click[k].msg /\ click'[k].result = result /\ click'[k].stage = "claimed"
    <3>1. click[k].stage = "claiming" /\ UNCHANGED out
      BY <1>1 DEF Claim, delivery
    <3>2. click' = [click EXCEPT ![k].result = result, ![k].stage = "claimed"]
      BY <1>1 DEF Claim
    <3>3. click \in [Click -> [at: Instance, msg: Message \cup {NoMessage}, cached: BOOLEAN,
                              result: Result \cup {"none"}, stage: Stage]]
      BY DEF TypeOK
    <3> QED BY <3>1, <3>2, <3>3
  <2>2. result # "none"
    BY DEF Result
  <2>3. CASE result \in {"won", "unheard"}
    <3>1. row[click[k].msg] = "open"
      BY <1>1, <2>3 DEF Claim, Claimable, Live
    <3>2. row' = [row EXCEPT ![click[k].msg] = "resolved"]
      BY <1>1, <2>3 DEF Claim
    <3>3. \A l \in Click \ {k} : Took(l) => click[l].msg # click[k].msg
      BY <3>1
    <3>4. \A m \in Message : row'[m] = IF m = click[k].msg THEN "resolved" ELSE row[m]
      BY <3>2 DEF TypeOK
    <3> QED BY <2>1, <2>2, <3>1, <3>3, <3>4
  <2>4. CASE result \notin {"won", "unheard"}
    <3>1. UNCHANGED row
      BY <1>1, <2>4 DEF Claim
    <3> QED BY <2>1, <2>2, <2>4, <3>1
  <2> QED BY <2>3, <2>4
<1>2. CASE Answer(k)
  <2>1. /\ click[k].stage = "claimed" /\ click[k].result \in Result /\ click[k].msg \in Message
        /\ UNCHANGED <<row, out>>
        /\ \A l \in Click \ {k} : click'[l] = click[l]
        /\ click'[k].msg = click[k].msg /\ click'[k].result = click[k].result
        /\ click'[k].stage = IF Handles(click[k]) THEN "handled" ELSE "dropped"
    BY <1>2 DEF Answer, NoClick, TypeOK, delivery, pending
  <2>2. /\ Handles(click[k]) => click[k].result \in {"won", "unheard", "nodb"}
        /\ ~Handles(click[k]) => click[k].result \in {"lost", "unheard", "nodb"}
    BY <2>1 DEF Handles, Result
  <2> QED BY <2>1, <2>2
<1>3. ASSUME NEW i \in Instance, NEW m \in Message, Incoming(k, i, m) PROVE ClaimInv'
  <2>1. /\ UNCHANGED <<row, out>>
        /\ \A l \in Click \ {k} : click'[l] = click[l]
        /\ click'[k].msg = m /\ click'[k].result = "none" /\ click'[k].stage = "claiming"
    BY <1>3 DEF Incoming, TypeOK, delivery
  <2> QED BY <2>1
<1> QED BY <1>1, <1>2, <1>3 DEF Resolve

(* A message that is being sent stays so: no step of a dispatch or of a    *)
(* retry worker takes it back to its creation.                             *)
LEMMA SendingStays ==
    TypeOK /\ DeliveryStep => \A m \in Message : out[m].step = "send" => out'[m].step = "send"
<1> SUFFICES ASSUME TypeOK, DeliveryStep, NEW m \in Message, out[m].step = "send"
             PROVE  out'[m].step = "send"
  OBVIOUS
<1>1. out \in [Message -> [step : {"new", "create", "send"}, left : SUBSET Provider]]
  BY DEF TypeOK
<1>2. ASSUME NEW o \in Message, Dispatch(o) PROVE out'[m].step = "send"
  BY <1>1, <1>2 DEF Dispatch
<1>3. ASSUME NEW o \in Message, NEW p \in Provider, NEW r \in Outcome, Send(o, p, r)
      PROVE  out'[m].step = "send"
  BY <1>1, <1>3 DEF Send
<1>4. ASSUME UNCHANGED out PROVE out'[m].step = "send"
  BY <1>4
<1> QED BY <1>2, <1>3, <1>4 DEF DeliveryStep, Take, Retry, Register, pending

LEMMA DeliveryClaim == TypeOK /\ ClaimInv /\ DeliveryStep => ClaimInv'
<1> SUFFICES ASSUME TypeOK, ClaimInv, DeliveryStep PROVE ClaimInv'
  OBVIOUS
<1>1. UNCHANGED <<row, click>>
  BY DEF DeliveryStep, Dispatch, Send, Take, Retry, Register, pending
<1>2. \A m \in Message : out[m].step = "send" => out'[m].step = "send"
  BY SendingStays
<1> QED BY <1>1, <1>2 DEF ClaimInv, RowIsSent, TookRow, OneTook, AnswerFits, Took

LEMMA CrashClaim == ASSUME TypeOK, ClaimInv, NEW i \in Instance, Crash(i) PROVE ClaimInv'
<1>1. UNCHANGED row
  BY DEF Crash
<1>2. \A m \in Message : out[m].step = "send" => out'[m].step = "send"
  <2>1. out' = out \/ out' = [m \in Message |-> IF out[m].step = "new" THEN out[m]
                                               ELSE [step |-> "send", left |-> {}]]
    BY DEF Crash
  <2> QED BY <2>1
<1>3. \A k \in Click : /\ click'[k].msg = click[k].msg /\ click'[k].result = click[k].result
                       /\ click'[k].stage \in {click[k].stage, "crashed"}
  BY DEF Crash, TypeOK, NoClick
<1> QED BY <1>1, <1>2, <1>3 DEF ClaimInv, RowIsSent, TookRow, OneTook, AnswerFits, Took

LEMMA NextClaim == TypeOK /\ ClaimInv /\ [Next]_vars => ClaimInv'
<1>1. ClaimInv /\ UNCHANGED vars => ClaimInv'
  BY DEF ClaimInv, RowIsSent, TookRow, OneTook, AnswerFits, Took, vars, pending, delivery
<1> QED BY <1>1, StoreClaim, ClickClaim, DeliveryClaim, CrashClaim DEF Next

LEMMA ClaimedOnce == Spec => []ClaimInv
<1>1. Spec => []TypeOK
  BY TypeCorrect
<1> QED BY <1>1, InitClaim, NextClaim, PTL DEF Spec

\* Two clicks on one message are both handled only if one had no database.
THEOREM HandledByOne == Spec => []HandledOnce
<1>1. ClaimInv => HandledOnce
  BY DEF ClaimInv, OneTook, AnswerFits, Took, HandledOnce
<1> QED BY <1>1, ClaimedOnce, PTL

-----------------------------------------------------------------------------
(* Why a click is dropped.  What a provider shows, and what waits for it,  *)
(* has been through create(): the row of a message that is clicked is not  *)
(* written any more, so one that is missing stays missing.                 *)

Sent(m) == out[m].step = "send"

WaitingIsSent ==
    \A p \in Provider, n \in Worker :
        /\ job[p][n] # Idle => Sent(job[p][n].msg)
        /\ \A j \in 1..Len(queue[p][n]) : Sent(queue[p][n][j].msg)
ShownIsSent == \A m \in shown : Sent(m)
SentInv     == WaitingIsSent /\ ShownIsSent

USE DEF Sent

LEMMA ItemFields ==
    ASSUME NEW item \in Item
    PROVE  item.msg \in Message /\ item.attempt \in 1..MaxRetries
  BY DEF Item

\* What waits in a queue is an item with a message of its own.
LEMMA QueuedItem ==
    ASSUME TypeOK, NEW p \in Provider, NEW n \in Worker, NEW j \in 1..Len(queue[p][n])
    PROVE  queue[p][n][j] \in Item /\ queue[p][n][j].msg \in Message
<1>1. queue[p][n] \in Seq(Item)
  BY DEF TypeOK
<1>2. queue[p][n][j] \in Item
  BY <1>1
<1> QED BY <1>2, ItemFields

LEMMA InitSent == TypeOK /\ Init => SentInv
  BY DEF Init, SentInv, WaitingIsSent, ShownIsSent

\* Steps that leave the workers alone and take no message back.
LEMMA SentKept ==
    ASSUME TypeOK, SentInv, UNCHANGED <<queue, job, shown>>,
           \A m \in Message : out[m].step = "send" => out'[m].step = "send"
    PROVE  SentInv'
<1>1. \A p \in Provider, n \in Worker : job[p][n] # Idle => job[p][n].msg \in Message
  BY DEF TypeOK, Item
<1>2. \A p \in Provider, n \in Worker : \A j \in 1..Len(queue[p][n]) : queue[p][n][j].msg \in Message
  BY QueuedItem
<1>3. shown \subseteq Message
  BY DEF TypeOK
<1>4. WaitingIsSent'
  BY <1>1, <1>2 DEF SentInv, WaitingIsSent
<1>5. ShownIsSent'
  BY <1>3 DEF SentInv, ShownIsSent
<1> QED BY <1>4, <1>5 DEF SentInv

\* enqueue() of a message on its way.
LEMMA EnqueueSent ==
    ASSUME TypeOK, SentInv, NEW p \in Provider, NEW n \in Worker, NEW item \in Item,
           Enqueue(p, n, item), Sent(item.msg),
           \A m \in Message : out[m].step = "send" => out'[m].step = "send"
    PROVE  \A q \in Provider, k \in Worker : \A j \in 1..Len(queue'[q][k]) : out'[queue'[q][k][j].msg].step = "send"
<1> SUFFICES ASSUME NEW q \in Provider, NEW k \in Worker, NEW j \in 1..Len(queue'[q][k])
             PROVE  out'[queue'[q][k][j].msg].step = "send"
  OBVIOUS
<1>0. queue[q][k] \in Seq(Item) /\ item.msg \in Message
  <2>1. queue[q][k] \in Seq(Item)
    BY DEF TypeOK
  <2> QED BY <2>1, ItemFields
<1>1. CASE queue'[q][k] = queue[q][k]
  <2>1. queue[q][k][j].msg \in Message /\ Sent(queue[q][k][j].msg)
    BY <1>0, <1>1, QueuedItem DEF SentInv, WaitingIsSent
  <2> QED BY <1>1, <2>1
<1>2. CASE queue'[q][k] # queue[q][k]
  <2>1. queue' = [queue EXCEPT ![p][n] = Append(@, item)] /\ q = p /\ k = n
    BY <1>2 DEF Enqueue, TypeOK
  <2>2. queue'[q][k] = Append(queue[q][k], item)
    BY <2>1 DEF TypeOK
  <2>3. CASE j \in 1..Len(queue[q][k])
    <3>1. queue'[q][k][j] = queue[q][k][j]
      BY <1>0, <2>2, <2>3
    <3>2. queue[q][k][j].msg \in Message /\ Sent(queue[q][k][j].msg)
      BY <1>0, <2>3, QueuedItem DEF SentInv, WaitingIsSent
    <3> QED BY <3>1, <3>2
  <2>4. CASE j \notin 1..Len(queue[q][k])
    <3>1. queue'[q][k][j] = item
      BY <1>0, <2>2, <2>4
    <3> QED BY <1>0, <3>1
  <2> QED BY <2>3, <2>4
<1> QED BY <1>1, <1>2

LEMMA StoreSent == TypeOK /\ SentInv /\ StoreStep => SentInv'
<1> SUFFICES ASSUME TypeOK, SentInv, StoreStep PROVE SentInv'
  OBVIOUS
<1>1. UNCHANGED <<queue, job, shown>>
  BY DEF StoreStep, Reload, ExpireStale, Expire, Write, delivery
<1>2. \A m \in Message : out[m].step = "send" => out'[m].step = "send"
  BY DEF StoreStep, Reload, ExpireStale, Expire, Write, delivery, Sent, TypeOK
<1> QED BY <1>1, <1>2, SentKept

LEMMA ClickSent == TypeOK /\ SentInv /\ ClickStep => SentInv'
<1> SUFFICES ASSUME TypeOK, SentInv, ClickStep PROVE SentInv'
  OBVIOUS
<1>1. UNCHANGED delivery
  BY DEF ClickStep, Resolve, Claim, Answer, Incoming
<1> QED BY <1>1, SentKept DEF delivery, Sent

LEMMA DeliverySent == TypeOK /\ SentInv /\ DeliveryStep => SentInv'
<1> SUFFICES ASSUME TypeOK, SentInv, DeliveryStep PROVE SentInv'
  OBVIOUS
<1>0. \A m \in Message : out[m].step = "send" => out'[m].step = "send"
  BY ZenonT(60) DEF DeliveryStep, Dispatch, Send, Take, Retry, Register, Sent, TypeOK
<1>1. ASSUME NEW m \in Message, Dispatch(m) PROVE SentInv'
  BY <1>0, <1>1, SentKept DEF Dispatch
<1>2. ASSUME NEW m \in Message, NEW p \in Provider, NEW r \in Outcome, Send(m, p, r) PROVE SentInv'
  <2>1. Sent(m)
    BY <1>2 DEF Send, Sent
  <2>2. worker[p] \in Worker /\ [msg |-> m, attempt |-> 1] \in Item
    BY ItemTyped, FirstAttempt DEF TypeOK
  <2>3. \A q \in Provider, k \in Worker : \A j \in 1..Len(queue'[q][k]) : out'[queue'[q][k][j].msg].step = "send"
    <3>1. CASE r = "accepted"
      <4>1. UNCHANGED queue
        BY <1>2, <3>1 DEF Send
      <4>2. \A q \in Provider, k \in Worker : \A j \in 1..Len(queue[q][k]) :
                queue[q][k][j].msg \in Message /\ Sent(queue[q][k][j].msg)
        BY QueuedItem DEF SentInv, WaitingIsSent
      <4> QED BY <1>0, <4>1, <4>2
    <3>2. CASE r # "accepted"
      <4>1. Enqueue(p, worker[p], [msg |-> m, attempt |-> 1])
        BY <1>2, <3>2 DEF Send
      <4> QED BY <1>0, <2>1, <2>2, <4>1, EnqueueSent
    <3> QED BY <3>1, <3>2
  <2>4. UNCHANGED job /\ \A q \in Provider, k \in Worker : job[q][k] # Idle => job[q][k].msg \in Message
    BY <1>2 DEF Send, TypeOK, Item
  <2>5. WaitingIsSent'
    BY <1>0, <2>3, <2>4 DEF WaitingIsSent, SentInv
  <2>6. shown' \subseteq shown \cup {m} /\ shown \subseteq Message
    BY <1>2 DEF Send, Shown, TypeOK
  <2> QED BY <1>0, <2>1, <2>5, <2>6 DEF SentInv, ShownIsSent
<1>3. ASSUME NEW p \in Provider, NEW n \in Worker, Take(p, n) PROVE SentInv'
  <2>1. queue[p][n] \in Seq(Item) /\ queue[p][n] # << >>
    BY <1>3 DEF Take, TypeOK
  <2>2. UNCHANGED <<out, shown>>
    BY <1>3 DEF Take
  <2>3. ASSUME NEW q \in Provider, NEW k \in Worker, NEW j \in 1..Len(queue'[q][k])
        PROVE  Sent(queue'[q][k][j].msg)
    <3>1. CASE q = p /\ k = n
      <4>1. queue'[q][k] = Tail(queue[p][n])
        BY <1>3, <3>1 DEF Take, TypeOK
      <4>2. j + 1 \in 1..Len(queue[p][n]) /\ queue'[q][k][j] = queue[p][n][j + 1]
        BY <2>1, <4>1
      <4> QED BY <4>2 DEF SentInv, WaitingIsSent
    <3>2. CASE ~(q = p /\ k = n)
      <4>1. queue'[q][k] = queue[q][k]
        BY <1>3, <3>2 DEF Take, TypeOK
      <4> QED BY <4>1 DEF SentInv, WaitingIsSent
    <3> QED BY <3>1, <3>2
  <2>4. ASSUME NEW q \in Provider, NEW k \in Worker, job'[q][k] # Idle
        PROVE  Sent(job'[q][k].msg)
    <3>1. CASE q = p /\ k = n
      <4>1. job'[q][k] = Head(queue[p][n])
        BY <1>3, <3>1 DEF Take, TypeOK
      <4>2. 1 \in 1..Len(queue[p][n]) /\ Head(queue[p][n]) = queue[p][n][1]
        BY <2>1
      <4> QED BY <4>1, <4>2 DEF SentInv, WaitingIsSent
    <3>2. CASE ~(q = p /\ k = n)
      <4>1. job'[q][k] = job[q][k]
        BY <1>3, <3>2 DEF Take, TypeOK
      <4> QED BY <2>4, <4>1 DEF SentInv, WaitingIsSent
    <3> QED BY <3>1, <3>2
  <2> QED BY <2>2, <2>3, <2>4 DEF SentInv, WaitingIsSent, ShownIsSent, Sent
<1>4. ASSUME NEW p \in Provider, NEW n \in Worker, NEW r \in Outcome, Retry(p, n, r) PROVE SentInv'
  <2>1. job[p][n] \in Item /\ job[p][n] # Idle /\ job[p][n].msg \in Message
    BY <1>4 DEF Retry, TypeOK, Item
  <2>2. Sent(job[p][n].msg)
    BY <2>1 DEF SentInv, WaitingIsSent
  <2>3. \A q \in Provider, k \in Worker : \A j \in 1..Len(queue'[q][k]) : out'[queue'[q][k][j].msg].step = "send"
    <3>1. CASE r # "accepted" /\ job[p][n].attempt < MaxRetries
      <4>1. Enqueue(p, n, [msg |-> job[p][n].msg, attempt |-> job[p][n].attempt + 1])
        BY <1>4, <3>1 DEF Retry
      <4>2. job[p][n].attempt + 1 \in 1..MaxRetries
        BY <2>1, <3>1, ConstantsAssumption DEF Item
      <4>3. [msg |-> job[p][n].msg, attempt |-> job[p][n].attempt + 1] \in Item
        BY <2>1, <4>2, ItemTyped
      <4> QED BY <1>0, <2>2, <4>1, <4>3, EnqueueSent
    <3>2. CASE ~(r # "accepted" /\ job[p][n].attempt < MaxRetries)
      <4>1. UNCHANGED queue
        BY <1>4, <3>2 DEF Retry
      <4>2. \A q \in Provider, k \in Worker : \A j \in 1..Len(queue[q][k]) :
                queue[q][k][j].msg \in Message /\ Sent(queue[q][k][j].msg)
        BY QueuedItem DEF SentInv, WaitingIsSent
      <4> QED BY <1>0, <4>1, <4>2
    <3> QED BY <3>1, <3>2
  <2>4. \A q \in Provider, k \in Worker : job'[q][k] # Idle =>
            job'[q][k] = job[q][k] /\ job[q][k].msg \in Message
    BY <1>4 DEF Retry, TypeOK, Item
  <2>5. WaitingIsSent'
    BY <1>0, <2>3, <2>4 DEF WaitingIsSent, SentInv
  <2>6. shown' \subseteq shown \cup {job[p][n].msg} /\ shown \subseteq Message
    BY <1>4 DEF Retry, Shown, TypeOK
  <2> QED BY <1>0, <2>1, <2>2, <2>5, <2>6 DEF SentInv, ShownIsSent
<1>5. ASSUME NEW p \in Provider, Register(p) PROVE SentInv'
  BY <1>0, <1>5, SentKept DEF Register
<1> QED BY <1>1, <1>2, <1>3, <1>4, <1>5 DEF DeliveryStep

LEMMA CrashSent == ASSUME TypeOK, SentInv, NEW i \in Instance, Crash(i) PROVE SentInv'
<1>1. \A m \in Message : out[m].step = "send" => out'[m].step = "send"
  <2>1. out' = out \/ out' = [m \in Message |-> IF out[m].step = "new" THEN out[m]
                                               ELSE [step |-> "send", left |-> {}]]
    BY DEF Crash
  <2> QED BY <2>1 DEF Sent
<1>2. UNCHANGED shown
  BY DEF Crash
<1>3. CASE i = Home
  <2>1. \A p \in Provider, n \in Worker : queue'[p][n] = << >> /\ job'[p][n] = Idle
    <3>1. /\ queue' = [p \in Provider |-> [n \in Worker |-> <<>>]]
          /\ job' = [p \in Provider |-> [n \in Worker |-> Idle]]
      BY <1>3 DEF Crash
    <3>2. \A p \in Provider, n \in Worker : queue'[p][n] = << >>
      BY <3>1
    <3>3. \A p \in Provider, n \in Worker : job'[p][n] = Idle
      BY <3>1
    <3> QED BY <3>2, <3>3
  <2>0. Len(<< >>) = 0
    OBVIOUS
  <2>2. WaitingIsSent'
    BY <2>0, <2>1 DEF WaitingIsSent
  <2>3. ShownIsSent'
    BY <1>1, <1>2 DEF ShownIsSent, SentInv, TypeOK
  <2> QED BY <2>2, <2>3 DEF SentInv
<1>4. CASE i # Home
  BY <1>1, <1>2, <1>4, SentKept DEF Crash
<1> QED BY <1>3, <1>4

LEMMA NextSent == TypeOK /\ SentInv /\ [Next]_vars => SentInv'
<1>1. SentInv /\ UNCHANGED vars => SentInv'
  BY DEF SentInv, WaitingIsSent, ShownIsSent, Sent, vars, pending, delivery
<1> QED BY <1>1, StoreSent, ClickSent, DeliverySent, CrashSent DEF Next

LEMMA AlwaysSent == Spec => []SentInv
<1>1. Spec => []TypeOK
  BY TypeCorrect
<1>2. Init => SentInv
  BY InitTyped, InitSent
<1> QED BY <1>1, <1>2, NextSent, PTL DEF Spec

\* A claim that found nothing to take had a reason that lasts.
Reason(k) ==
    \/ click[k].msg \in expired \/ row[click[k].msg] = "none"
    \/ \E l \in Click \ {k} : click[l].msg = click[k].msg /\ Took(l)

ClickedIsSent == \A k \in Click : click[k].stage # "none" => click[k].msg \in Message /\ Sent(click[k].msg)
ResolvedTook  == \A m \in Message : row[m] = "resolved" => \E k \in Click : click[k].msg = m /\ Took(k)
LostReason    == \A k \in Click : click[k].result = "lost" => click[k].stage # "none" /\ Reason(k)

DropInv == ClickedIsSent /\ ResolvedTook /\ LostReason

LEMMA InitDrop == Init => DropInv
  BY DEF Init, NoClick, DropInv, ClickedIsSent, ResolvedTook, LostReason

\* Steps that leave the clicks as they are, but for a crash.
LEMMA DropKept ==
    ASSUME TypeOK, DropInv,
           \A m \in Message : /\ out[m].step = "send" => out'[m].step = "send"
                              /\ out[m].step = "send" /\ row[m] = "none" => row'[m] = "none"
                              /\ row'[m] = "resolved" => row[m] = "resolved",
           expired \subseteq expired',
           \A k \in Click : /\ click'[k].msg = click[k].msg /\ click'[k].result = click[k].result
                            /\ \/ click'[k].stage = click[k].stage
                               \/ (click[k].stage # "none" /\ click'[k].stage = "crashed")
    PROVE  DropInv'
<1>1. ClickedIsSent'
  BY DEF DropInv, ClickedIsSent
<1>2. ResolvedTook'
  BY DEF DropInv, ResolvedTook, Took
<1>3. ASSUME NEW k \in Click, click'[k].result = "lost" PROVE click'[k].stage # "none" /\ Reason(k)'
  <2>1. click[k].result = "lost" /\ click[k].stage # "none" /\ Reason(k)
    BY <1>3 DEF DropInv, LostReason
  <2>2. click[k].msg \in Message /\ Sent(click[k].msg)
    BY <2>1 DEF DropInv, ClickedIsSent
  <2>3. Reason(k)'
    BY <2>1, <2>2 DEF Reason, Took
  <2> QED BY <2>1, <2>3
<1> QED BY <1>1, <1>2, <1>3 DEF DropInv, LostReason

LEMMA StoreDrop == TypeOK /\ DropInv /\ StoreStep => DropInv'
<1> SUFFICES ASSUME TypeOK, DropInv, StoreStep PROVE DropInv'
  OBVIOUS
<1>1. UNCHANGED click /\ expired \subseteq expired'
  BY DEF StoreStep, Reload, ExpireStale, Expire, Write, delivery
<1> DEFINE Keeps(m) == /\ out[m].step = "send" => out'[m].step = "send"
                       /\ out[m].step = "send" /\ row[m] = "none" => row'[m] = "none"
                       /\ row'[m] = "resolved" => row[m] = "resolved"
<1>2. ASSUME NEW m \in Message PROVE Keeps(m)
  <2>1. ASSUME NEW i \in Instance, Reload(i) \/ ExpireStale(i) PROVE Keeps(m)
    BY <2>1 DEF Reload, ExpireStale, delivery, TypeOK
  <2>2. ASSUME NEW o \in Message, Expire(o) PROVE Keeps(m)
    BY <2>2 DEF Expire, delivery
  <2>3. ASSUME NEW o \in Message, Write(o) PROVE Keeps(m)
    BY <2>3 DEF Write, TypeOK
  <2> QED BY <2>1, <2>2, <2>3 DEF StoreStep
<1>3. \A k \in Click : /\ click'[k].msg = click[k].msg /\ click'[k].result = click[k].result
                       /\ click'[k].stage = click[k].stage
  BY <1>1
<1> QED BY <1>1, <1>2, <1>3, DropKept

LEMMA DeliveryDrop == TypeOK /\ DropInv /\ DeliveryStep => DropInv'
<1> SUFFICES ASSUME TypeOK, DropInv, DeliveryStep PROVE DropInv'
  OBVIOUS
<1>1. UNCHANGED <<row, expired, click>>
  BY DEF DeliveryStep, Dispatch, Send, Take, Retry, Register, pending
<1>2. \A m \in Message : out[m].step = "send" => out'[m].step = "send"
  BY SendingStays
<1>3. \A k \in Click : /\ click'[k].msg = click[k].msg /\ click'[k].result = click[k].result
                       /\ click'[k].stage = click[k].stage
  BY <1>1
<1> QED BY <1>1, <1>2, <1>3, DropKept

LEMMA CrashDrop == ASSUME TypeOK, DropInv, NEW i \in Instance, Crash(i) PROVE DropInv'
<1>1. UNCHANGED <<row, expired>>
  BY DEF Crash
<1>2. \A m \in Message : out[m].step = "send" => out'[m].step = "send"
  <2>1. out' = out \/ out' = [m \in Message |-> IF out[m].step = "new" THEN out[m]
                                               ELSE [step |-> "send", left |-> {}]]
    BY DEF Crash
  <2> QED BY <2>1
<1>3. \A k \in Click : /\ click'[k].msg = click[k].msg /\ click'[k].result = click[k].result
                       /\ \/ click'[k].stage = click[k].stage
                          \/ (click[k].stage # "none" /\ click'[k].stage = "crashed")
  <2>1. click' = [k \in Click |->
            IF click[k].at = i /\ click[k].stage \in {"claiming", "claimed"}
            THEN [NoClick EXCEPT !.msg = click[k].msg, !.result = click[k].result,
                                 !.stage = "crashed"]
            ELSE click[k]]
    BY DEF Crash
  <2> QED BY <2>1 DEF NoClick
<1> QED BY <1>1, <1>2, <1>3, DropKept

LEMMA ClickDrop == TypeOK /\ ClaimInv /\ SentInv /\ DropInv /\ ClickStep => DropInv'
<1> SUFFICES ASSUME TypeOK, ClaimInv, SentInv, DropInv, NEW k \in Click,
                    \/ Resolve(k) \/ Answer(k)
                    \/ \E i \in Instance, m \in Message : Incoming(k, i, m)
             PROVE  DropInv'
  BY DEF ClickStep
<1>1. ASSUME NEW result \in Result, Claim(k, result) PROVE DropInv'
  <2>1. /\ click[k].msg \in Message /\ click[k].result = "none" /\ click[k].stage = "claiming"
        /\ UNCHANGED <<out, expired>>
        /\ \A l \in Click \ {k} : click'[l] = click[l]
        /\ click'[k].msg = click[k].msg /\ click'[k].result = result /\ click'[k].stage = "claimed"
    <3>1. click[k].stage = "claiming" /\ UNCHANGED <<out, expired>>
      BY <1>1 DEF Claim, delivery
    <3>2. click' = [click EXCEPT ![k].result = result, ![k].stage = "claimed"]
      BY <1>1 DEF Claim
    <3>3. click \in [Click -> [at: Instance, msg: Message \cup {NoMessage}, cached: BOOLEAN,
                              result: Result \cup {"none"}, stage: Stage]]
      BY DEF TypeOK
    <3> QED BY <3>1, <3>2, <3>3 DEF ClaimInv, AnswerFits
  <2>2. ClickedIsSent'
    BY <2>1 DEF DropInv, ClickedIsSent
  <2>3. /\ result \in {"won", "unheard"} => row[click[k].msg] = "open"
        /\ \A m \in Message : row'[m] = IF m = click[k].msg /\ result \in {"won", "unheard"}
                                        THEN "resolved" ELSE row[m]
    BY <1>1, <2>1 DEF Claim, Claimable, Live, TypeOK
  <2>4. \A l \in Click : Took(l) => Took(l)' /\ click'[l].msg = click[l].msg
    BY <2>1 DEF Took
  <2>5. ResolvedTook'
    BY <2>1, <2>3, <2>4 DEF DropInv, ResolvedTook, Took
  <2>6. ASSUME NEW l \in Click \ {k}, click'[l].result = "lost" PROVE click'[l].stage # "none" /\ Reason(l)'
    <3>1. click[l].stage # "none" /\ Reason(l) /\ click[l].msg \in Message
      BY <2>1, <2>6 DEF DropInv, LostReason, ClickedIsSent
    <3>2. row[click[l].msg] = "none" => row'[click[l].msg] = "none"
      BY <2>3, <3>1
    <3> QED BY <2>1, <2>4, <3>1, <3>2 DEF Reason
  <2>7. ASSUME result = "lost" PROVE Reason(k)'
    <3>1. ~Live(click[k].msg) /\ UNCHANGED row
      BY <1>1, <2>7 DEF Claim, Claimable
    <3>2. CASE click[k].msg \in expired
      BY <2>1, <3>2 DEF Reason
    <3>3. CASE row[click[k].msg] = "none"
      BY <2>1, <3>1, <3>3 DEF Reason
    <3>4. CASE row[click[k].msg] = "resolved"
      <4>1. PICK l \in Click : click[l].msg = click[k].msg /\ Took(l)
        BY <2>1, <3>4 DEF DropInv, ResolvedTook
      <4>2. l # k
        BY <2>1, <4>1 DEF Took
      <4> QED BY <2>1, <2>4, <4>1, <4>2 DEF Reason
    <3> QED BY <2>1, <3>1, <3>2, <3>3, <3>4 DEF Live, TypeOK
  <2> QED BY <2>1, <2>2, <2>5, <2>6, <2>7 DEF DropInv, LostReason
<1>2. CASE Answer(k)
  <2>1. /\ click[k].stage = "claimed"
        /\ UNCHANGED <<row, out, expired>>
        /\ \A l \in Click \ {k} : click'[l] = click[l]
        /\ click'[k].msg = click[k].msg /\ click'[k].result = click[k].result
        /\ click'[k].stage # "none"
    BY <1>2 DEF Answer, NoClick, TypeOK, delivery, pending
  <2>2. \A l \in Click : /\ Took(l)' <=> Took(l)
                         /\ click'[l].msg = click[l].msg /\ click'[l].result = click[l].result
                         /\ click'[l].stage = "none" <=> click[l].stage = "none"
    BY <2>1 DEF Took
  <2> QED BY <2>1, <2>2 DEF DropInv, ClickedIsSent, ResolvedTook, LostReason, Reason
<1>3. ASSUME NEW i \in Instance, NEW m \in Message, Incoming(k, i, m) PROVE DropInv'
  <2>1. /\ UNCHANGED <<row, out, expired>>
        /\ \A l \in Click \ {k} : click'[l] = click[l]
        /\ click[k].result = "none" /\ click[k].stage = "none"
        /\ click'[k].msg = m /\ click'[k].result = "none"
    BY <1>3 DEF Incoming, TypeOK, delivery, ClaimInv, AnswerFits
  <2>2. Sent(m)
    BY <1>3 DEF Incoming, SentInv, ShownIsSent
  <2>3. \A l \in Click : /\ Took(l) => l # k /\ Took(l)' /\ click'[l].msg = click[l].msg
                         /\ click'[l].result = "lost" => l # k
    BY <2>1 DEF Took
  <2>4. ClickedIsSent'
    BY <2>1, <2>2 DEF DropInv, ClickedIsSent
  <2>5. ResolvedTook'
    BY <2>1, <2>3 DEF DropInv, ResolvedTook
  <2>6. LostReason'
    BY <2>1, <2>3 DEF DropInv, LostReason, Reason
  <2> QED BY <2>4, <2>5, <2>6 DEF DropInv
<1> QED BY <1>1, <1>2, <1>3 DEF Resolve

LEMMA NextDrop == TypeOK /\ ClaimInv /\ SentInv /\ DropInv /\ [Next]_vars => DropInv'
<1>1. DropInv /\ UNCHANGED vars => DropInv'
  BY DEF DropInv, ClickedIsSent, ResolvedTook, LostReason, Reason, Took, vars, pending, delivery
<1> QED BY <1>1, StoreDrop, ClickDrop, DeliveryDrop, CrashDrop DEF Next

\* No click is dropped while its action could be handled and the database answers.
THEOREM DropsHaveReasons == Spec => []DroppedForAReason
<1>1. ClaimInv /\ DropInv => DroppedForAReason
  BY DEF ClaimInv, AnswerFits, DropInv, LostReason, Reason, Took, DroppedForAReason
<1>2. Spec => []TypeOK /\ []ClaimInv /\ []SentInv
  BY TypeCorrect, ClaimedOnce, AlwaysSent, PTL
<1> QED BY <1>1, <1>2, InitDrop, NextDrop, PTL DEF Spec

\* Of all the clicks on a message one is handled, unless there is a reason that
\* none can be.
THEOREM ClicksHandledByOne == Spec => []OneIsHandled
<1>1. HandledOnce /\ DroppedForAReason => OneIsHandled
  BY DEF OneIsHandled
<1> QED BY <1>1, HandledByOne, DropsHaveReasons, PTL

-----------------------------------------------------------------------------
(* Where a message is.  Of the workers of a provider and the places of      *)
(* their queues it has one while its fate is "queued" and none otherwise.   *)

\* A message is queued at a provider only after it was sent there.
TargetsAreNew ==
    \A m \in Message, p \in Provider :
        out[m].step # "send" \/ p \in out[m].left => fate[m][p] = "none"

OneAt(m, p) ==
    /\ fate[m][p] = "queued" <=> \E n \in Worker, j \in 0..QueueSize : At(m, p, n, j)
    /\ \A n, k \in Worker, j, l \in 0..QueueSize :
          At(m, p, n, j) /\ At(m, p, k, l) => n = k /\ j = l

PlaceInv == TargetsAreNew /\ \A m \in Message, p \in Provider : OneAt(m, p)

\* What a step may do to the places of a message: nothing, take it from all,
\* or leave it at one.
LEMMA PlacesKept ==
    ASSUME NEW m \in Message, NEW p \in Provider, OneAt(m, p), fate'[m][p] = fate[m][p],
           \A n \in Worker, j \in 0..QueueSize : At(m, p, n, j)' <=> At(m, p, n, j)
    PROVE  OneAt(m, p)'
  BY DEF OneAt

LEMMA PlacesLeft ==
    ASSUME NEW m \in Message, NEW p \in Provider, fate'[m][p] # "queued",
           \A n \in Worker, j \in 0..QueueSize : ~At(m, p, n, j)'
    PROVE  OneAt(m, p)'
  BY DEF OneAt

LEMMA PlaceFound ==
    ASSUME NEW m \in Message, NEW p \in Provider, fate'[m][p] = "queued",
           NEW n \in Worker, NEW j \in 0..QueueSize,
           \A k \in Worker, l \in 0..QueueSize : At(m, p, k, l)' <=> k = n /\ l = j
    PROVE  OneAt(m, p)'
  BY DEF OneAt

LEMMA SameAt ==
    ASSUME NEW m \in Message, NEW p \in Provider, NEW n \in Worker, NEW j \in 0..QueueSize,
           job'[p][n] = job[p][n], queue'[p][n] = queue[p][n]
    PROVE  At(m, p, n, j)' <=> At(m, p, n, j)
  BY DEF At

LEMMA NotIdle == ASSUME NEW m \in Message PROVE Idle.msg # m
  BY ConstantsAssumption DEF Idle, NoMessage

LEMMA QueueEnds ==
    ASSUME TypeOK, NEW p \in Provider, NEW n \in Worker
    PROVE  /\ queue[p][n] \in Seq(Item) /\ Len(queue[p][n]) \in 0..QueueSize
           /\ QueueSize \in Nat \ {0}
<1>1. queue[p][n] \in Seq(Item) /\ Len(queue[p][n]) <= QueueSize
  BY DEF TypeOK
<1>2. Len(queue[p][n]) \in Nat
  BY <1>1
<1> QED BY <1>1, <1>2, ConstantsAssumption

\* Of a message that was in no queue of the provider, enqueue() makes one place.
LEMMA EnqueuePlaces ==
    ASSUME TypeOK, NEW p \in Provider, NEW n \in Worker, NEW item \in Item, Enqueue(p, n, item),
           \A k \in Worker : k # n => job'[p][k] = job[p][k],
           \A q \in Provider : q # p => job'[q] = job[q],
           job'[p][n] = job[p][n] \/ (job'[p][n] = Idle /\ job[p][n].msg = item.msg),
           \A k \in Worker : job'[p][k].msg # item.msg,
           \A k \in Worker, j \in 1..QueueSize : ~At(item.msg, p, k, j),
           \A m \in Message, q \in Provider : OneAt(m, q)
    PROVE  \A m \in Message, q \in Provider : OneAt(m, q)'
<1>0. item.msg \in Message /\ fate \in [Message -> [Provider -> Fate]]
      /\ queue \in [Provider -> [Worker -> Seq(Item)]]
  BY DEF Item, TypeOK
<1>e. Len(queue[p][n]) \in 0..QueueSize /\ queue[p][n] \in Seq(Item) /\ QueueSize \in Nat \ {0}
  BY QueueEnds
<1>f. \E f \in Fate : fate' = [fate EXCEPT ![item.msg][p] = f]
  BY DEF Enqueue, Becomes, Fate, Ended
<1>q. queue' = queue \/ queue' = [queue EXCEPT ![p][n] = Append(queue[p][n], item)]
  BY DEF Enqueue
<1>1. ASSUME NEW m \in Message, NEW q \in Provider, q # p PROVE OneAt(m, q)'
  <2>0. fate'[m][q] = fate[m][q]
    BY <1>0, <1>f, <1>1
  <2>1. queue'[q] = queue[q] /\ fate'[m][q] = fate[m][q]
    BY <1>0, <1>q, <1>1, <2>0
  <2>2. \A k \in Worker, j \in 0..QueueSize : At(m, q, k, j)' <=> At(m, q, k, j)
    BY <1>1, <2>1, SameAt
  <2> QED BY <2>1, <2>2, PlacesKept
<1>2. ASSUME NEW m \in Message, m # item.msg PROVE OneAt(m, p)'
  <2>1. fate'[m][p] = fate[m][p]
    BY <1>0, <1>2 DEF Enqueue, Becomes
  <2>2. ASSUME NEW k \in Worker, NEW j \in 0..QueueSize, k # n PROVE At(m, p, k, j)' <=> At(m, p, k, j)
    <3>1. queue'[p][k] = queue[p][k]
      BY <1>0, <2>2 DEF Enqueue
    <3> QED BY <2>2, <3>1, SameAt
  <2>3. At(m, p, n, 0)' <=> At(m, p, n, 0)
    BY <1>2, NotIdle DEF At
  <2>4. ASSUME NEW j \in 1..QueueSize PROVE At(m, p, n, j)' <=> At(m, p, n, j)
    <3>1. CASE queue'[p][n] = queue[p][n]
      BY <2>4, <3>1 DEF At
    <3>2. CASE queue'[p][n] = Append(queue[p][n], item)
      <4>1. /\ Len(queue'[p][n]) = Len(queue[p][n]) + 1
            /\ queue'[p][n][Len(queue[p][n]) + 1] = item
            /\ \A l \in 1..Len(queue[p][n]) : queue'[p][n][l] = queue[p][n][l]
        BY <1>e, <3>2
      <4>2. j \in Nat /\ j # 0 /\ Len(queue[p][n]) \in Nat
        BY <1>e, <2>4
      <4>3. CASE j \in 1..Len(queue[p][n])
        <5> HIDE DEF At
        <5>1. queue'[p][n][j] = queue[p][n][j] /\ j <= Len(queue[p][n]) /\ j <= Len(queue'[p][n])
          BY <4>1, <4>2, <4>3
        <5> QED BY <4>2, <5>1 DEF At
      <4>4. CASE j = Len(queue[p][n]) + 1
        BY <1>2, <4>1, <4>2, <4>4 DEF At
      <4>5. CASE j > Len(queue[p][n]) + 1
        BY <4>1, <4>2, <4>5 DEF At
      <4> QED BY <4>2, <4>3, <4>4, <4>5
    <3>3. queue'[p][n] = queue[p][n] \/ queue'[p][n] = Append(queue[p][n], item)
      BY <1>0 DEF Enqueue
    <3> QED BY <3>1, <3>2, <3>3
  <2>5. \A j \in 0..QueueSize : j = 0 \/ j \in 1..QueueSize
    BY <1>e
  <2>6. \A k \in Worker, j \in 0..QueueSize : At(m, p, k, j)' <=> At(m, p, k, j)
    BY <2>2, <2>3, <2>4, <2>5
  <2> QED BY <2>1, <2>6, PlacesKept
<1>3. OneAt(item.msg, p)'
  <2> DEFINE m == item.msg
  <2>1. ASSUME NEW k \in Worker, NEW j \in 0..QueueSize, k # n PROVE ~At(m, p, k, j)'
    <3>1. queue'[p][k] = queue[p][k]
      BY <1>0, <2>1 DEF Enqueue
    <3>2. j = 0 \/ j \in 1..QueueSize
      BY <1>e
    <3> QED BY <3>1, <3>2, <2>1 DEF At
  <2>2. ~At(m, p, n, 0)'
    BY DEF At
  <2>3. CASE Len(queue[p][n]) < QueueSize
    <3>1. queue'[p][n] = Append(queue[p][n], item) /\ fate'[m][p] = "queued"
      BY <1>0, <2>3 DEF Enqueue, Becomes
    <3>2. /\ Len(queue'[p][n]) = Len(queue[p][n]) + 1
          /\ queue'[p][n][Len(queue[p][n]) + 1] = item
          /\ \A l \in 1..Len(queue[p][n]) : queue'[p][n][l] = queue[p][n][l]
      BY <1>e, <3>1
    <3>3. ASSUME NEW j \in 1..QueueSize PROVE At(m, p, n, j)' <=> j = Len(queue[p][n]) + 1
      <4>1. ~At(m, p, n, j)
        OBVIOUS
      <4>2. j \in Nat /\ j # 0 /\ Len(queue[p][n]) \in Nat
        BY <1>e, <3>3
      <4>3. CASE j \in 1..Len(queue[p][n])
        <5>1. queue'[p][n][j] = queue[p][n][j] /\ j <= Len(queue[p][n]) /\ j # Len(queue[p][n]) + 1
          BY <3>2, <4>2, <4>3
        <5> QED BY <4>1, <4>2, <5>1 DEF At
      <4>4. CASE j = Len(queue[p][n]) + 1
        BY <3>2, <4>2, <4>4 DEF At
      <4>5. CASE j > Len(queue[p][n]) + 1
        BY <3>2, <4>2, <4>5 DEF At
      <4> QED BY <4>2, <4>3, <4>4, <4>5
    <3>4. Len(queue[p][n]) + 1 \in 0..QueueSize /\ Len(queue[p][n]) + 1 # 0
      BY <1>e, <2>3
    <3>5. ASSUME NEW k \in Worker, NEW l \in 0..QueueSize
          PROVE  At(m, p, k, l)' <=> k = n /\ l = Len(queue[p][n]) + 1
      <4>1. l = 0 \/ l \in 1..QueueSize
        BY <1>e
      <4> QED BY <2>1, <2>2, <3>3, <3>4, <4>1
    <3> HIDE DEF m
    <3> QED BY <1>0, <3>1, <3>4, <3>5, PlaceFound DEF m
  <2>4. CASE ~(Len(queue[p][n]) < QueueSize)
    <3>1. queue'[p][n] = queue[p][n] /\ fate'[m][p] = "dropped"
      BY <1>0, <2>4 DEF Enqueue, Becomes
    <3>2. ASSUME NEW j \in 1..QueueSize PROVE ~At(m, p, n, j)'
      <4>1. ~At(m, p, n, j)
        OBVIOUS
      <4> QED BY <3>1, <3>2, <4>1 DEF At
    <3>3. ASSUME NEW k \in Worker, NEW l \in 0..QueueSize PROVE ~At(m, p, k, l)'
      <4>1. l = 0 \/ l \in 1..QueueSize
        BY <1>e
      <4> QED BY <2>1, <2>2, <3>2, <4>1
    <3> HIDE DEF m
    <3> QED BY <1>0, <3>1, <3>3, PlacesLeft DEF m
  <2> QED BY <2>3, <2>4
<1> QED BY <1>1, <1>2, <1>3

LEMMA InitPlaces == Init => PlaceInv
<1> SUFFICES ASSUME Init PROVE PlaceInv
  OBVIOUS
<1>1. TargetsAreNew
  BY DEF Init, TargetsAreNew
<1>2. ASSUME NEW m \in Message, NEW p \in Provider PROVE OneAt(m, p)
  <2>1. fate[m][p] = "none"
    BY DEF Init
  <2>2. ASSUME NEW n \in Worker, NEW j \in 0..QueueSize PROVE ~At(m, p, n, j)
    <3>1. job[p][n].msg # m /\ queue[p][n] = <<>>
      BY NotIdle DEF Init
    <3>2. j = 0 \/ ~(j <= Len(queue[p][n]))
      BY <3>1, ConstantsAssumption
    <3> QED BY <3>1, <3>2 DEF At
  <2> QED BY <2>1, <2>2 DEF OneAt
<1> QED BY <1>1, <1>2 DEF PlaceInv

\* Steps that move no message and give no target back.
LEMMA Unmoved ==
    ASSUME PlaceInv, UNCHANGED <<queue, job, fate>>,
           \A m \in Message, p \in Provider :
              out'[m].step # "send" \/ p \in out'[m].left
              => out[m].step # "send" \/ p \in out[m].left
    PROVE  PlaceInv'
<1>1. TargetsAreNew'
  BY DEF PlaceInv, TargetsAreNew
<1>2. ASSUME NEW m \in Message, NEW p \in Provider PROVE OneAt(m, p)'
  <2>1. \A n \in Worker, j \in 0..QueueSize : At(m, p, n, j)' <=> At(m, p, n, j)
    BY DEF At
  <2> QED BY <2>1, PlacesKept DEF PlaceInv
<1> QED BY <1>1, <1>2 DEF PlaceInv

\* A worker takes the head: what was at place j + 1 is at place j.
LEMMA TakePlaces ==
    ASSUME TypeOK, PlaceInv, NEW p \in Provider, NEW n \in Worker, Take(p, n)
    PROVE  PlaceInv'
<1>0. /\ job[p][n] = Idle /\ queue[p][n] # <<>> /\ fate' = fate /\ out' = out
      /\ job' = [job EXCEPT ![p][n] = Head(queue[p][n])]
      /\ queue' = [queue EXCEPT ![p][n] = Tail(queue[p][n])]
      /\ job \in [Provider -> [Worker -> Item \cup {Idle}]]
      /\ queue \in [Provider -> [Worker -> Seq(Item)]]
  BY DEF Take, TypeOK
<1>e. Len(queue[p][n]) \in 0..QueueSize /\ queue[p][n] \in Seq(Item) /\ QueueSize \in Nat \ {0}
  BY QueueEnds
<1>1. TargetsAreNew'
  BY <1>0 DEF PlaceInv, TargetsAreNew
<1>2. ASSUME NEW m \in Message, NEW q \in Provider, q # p PROVE OneAt(m, q)'
  <2>1. queue'[q] = queue[q] /\ job'[q] = job[q]
    BY <1>0, <1>2
  <2>2. \A k \in Worker, j \in 0..QueueSize : At(m, q, k, j)' <=> At(m, q, k, j)
    BY <2>1, SameAt
  <2> QED BY <1>0, <2>2, PlacesKept DEF PlaceInv
<1>3. ASSUME NEW m \in Message PROVE OneAt(m, p)'
  <2>1. /\ queue'[p][n] = Tail(queue[p][n]) /\ job'[p][n] = Head(queue[p][n])
        /\ \A k \in Worker : k # n => queue'[p][k] = queue[p][k] /\ job'[p][k] = job[p][k]
    BY <1>0
  <2>2. /\ Len(queue'[p][n]) = Len(queue[p][n]) - 1
        /\ Head(queue[p][n]) = queue[p][n][1] /\ Len(queue[p][n]) >= 1
        /\ \A j \in 1..(Len(queue[p][n]) - 1) : queue'[p][n][j] = queue[p][n][j + 1]
    BY <1>0, <1>e, <2>1
  <2>3. ASSUME NEW j \in 0..QueueSize, j < QueueSize PROVE At(m, p, n, j)' <=> At(m, p, n, j + 1)
    <3>1. j + 1 # 0 /\ j \in Nat /\ Len(queue[p][n]) \in Nat
      BY <1>e, <2>3
    <3>2. CASE j = 0
      BY <2>1, <2>2, <3>1, <3>2 DEF At
    <3>3. CASE j \in 1..(Len(queue[p][n]) - 1)
      <4>1. /\ queue'[p][n][j] = queue[p][n][j + 1] /\ j # 0
            /\ j <= Len(queue'[p][n]) /\ j + 1 <= Len(queue[p][n])
        BY <2>2, <3>1, <3>3
      <4> QED BY <3>1, <4>1 DEF At
    <3>4. CASE j # 0 /\ j > Len(queue[p][n]) - 1
      BY <2>2, <3>1, <3>4 DEF At
    <3> QED BY <3>1, <3>2, <3>3, <3>4
  <2>4. ~At(m, p, n, QueueSize)' /\ ~At(m, p, n, 0)
    <3>1. ~(QueueSize <= Len(queue'[p][n])) /\ QueueSize # 0
      BY <1>e, <2>2
    <3>2. job[p][n].msg # m
      BY <1>0, NotIdle
    <3> QED BY <3>1, <3>2 DEF At
  <2>5. \A k \in Worker, j \in 0..QueueSize : k # n => (At(m, p, k, j)' <=> At(m, p, k, j))
    BY <2>1, SameAt
  <2>6. \A j \in 0..QueueSize : (j < QueueSize => j + 1 \in 0..QueueSize)
                               /\ (j # 0 => j - 1 \in 0..QueueSize /\ j - 1 < QueueSize /\ (j - 1) + 1 = j)
                               /\ (j < QueueSize \/ j = QueueSize)
    BY <1>e
  <2>7. OneAt(m, p)
    BY DEF PlaceInv
  <2>8. fate'[m][p] = "queued" <=> \E k \in Worker, j \in 0..QueueSize : At(m, p, k, j)'
    <3>1. ASSUME NEW k \in Worker, NEW j \in 0..QueueSize, At(m, p, k, j)
          PROVE  \E l \in 0..QueueSize : At(m, p, k, l)'
      <4>1. CASE k # n
        BY <2>5, <3>1, <4>1
      <4>2. CASE k = n
        <5>1. j # 0
          BY <2>4, <3>1, <4>2
        <5>2. At(m, p, n, j - 1)' <=> At(m, p, n, (j - 1) + 1)
          BY <2>3, <2>6, <5>1
        <5> QED BY <2>6, <3>1, <4>2, <5>1, <5>2
      <4> QED BY <4>1, <4>2
    <3>2. ASSUME NEW k \in Worker, NEW j \in 0..QueueSize, At(m, p, k, j)'
          PROVE  \E l \in 0..QueueSize : At(m, p, k, l)
      <4>1. CASE k # n
        BY <2>5, <3>2, <4>1
      <4>2. CASE k = n
        BY <2>3, <2>4, <2>6, <3>2, <4>2
      <4> QED BY <4>1, <4>2
    <3> QED BY <1>0, <2>7, <3>1, <3>2 DEF OneAt
  <2>9. ASSUME NEW k \in Worker, NEW l \in Worker, NEW i \in 0..QueueSize, NEW j \in 0..QueueSize,
               At(m, p, k, i)', At(m, p, l, j)'
        PROVE  k = l /\ i = j
    <3>1. \A a \in Worker, b \in 0..QueueSize : At(m, p, a, b)' =>
             \/ a # n /\ At(m, p, a, b)
             \/ a = n /\ b + 1 \in 0..QueueSize /\ At(m, p, n, b + 1)
      BY <2>3, <2>4, <2>5, <2>6
    <3>2. \A a, c \in Worker, b, d \in 0..QueueSize :
             At(m, p, a, b) /\ At(m, p, c, d) => a = c /\ b = d
      BY <2>7 DEF OneAt
    <3>3. i \in Nat /\ j \in Nat
      BY <1>e
    <3>4. \/ k # n /\ At(m, p, k, i)
          \/ k = n /\ i + 1 \in 0..QueueSize /\ At(m, p, n, i + 1)
      BY <2>9, <3>1
    <3>5. \/ l # n /\ At(m, p, l, j)
          \/ l = n /\ j + 1 \in 0..QueueSize /\ At(m, p, n, j + 1)
      BY <2>9, <3>1
    <3>6. k = l
      BY <3>2, <3>4, <3>5
    <3>7. CASE k # n
      BY <3>2, <3>4, <3>5, <3>6, <3>7
    <3>8. CASE k = n
      <4>1. i + 1 = j + 1
        BY <3>2, <3>4, <3>5, <3>6, <3>8
      <4> QED BY <3>3, <3>6, <4>1
    <3> QED BY <3>7, <3>8
  <2> QED BY <2>8, <2>9 DEF OneAt
<1> QED BY <1>1, <1>2, <1>3 DEF PlaceInv

\* A place of a message gives its fate, and is its only one.
LEMMA NowhereUnlessQueued ==
    ASSUME PlaceInv, NEW m \in Message, NEW p \in Provider, fate[m][p] # "queued",
           NEW n \in Worker, NEW j \in 0..QueueSize
    PROVE  ~At(m, p, n, j)
  BY DEF PlaceInv, OneAt

LEMMA SendPlaces ==
    ASSUME TypeOK, PlaceInv, NEW m \in Message, NEW p \in Provider, NEW r \in Outcome, Send(m, p, r)
    PROVE  PlaceInv'
<1>0. /\ out[m].step = "send" /\ p \in out[m].left /\ job' = job
      /\ out' = [out EXCEPT ![m].left = out[m].left \ {p}]
      /\ fate \in [Message -> [Provider -> Fate]]
      /\ out \in [Message -> [step: {"new", "create", "send"}, left: SUBSET Provider]]
      /\ worker[p] \in Worker
  BY DEF Send, TypeOK
<1>1. fate[m][p] = "none"
  BY <1>0 DEF PlaceInv, TargetsAreNew
<1>2. \A k \in Worker, j \in 0..QueueSize : ~At(m, p, k, j)
  BY <1>1, NowhereUnlessQueued
<1>3. \E f \in Fate : fate' = [fate EXCEPT ![m][p] = f]
  BY DEF Send, Enqueue, Becomes, Fate, Ended
<1>4. TargetsAreNew'
  <2> SUFFICES ASSUME NEW l \in Message, NEW q \in Provider,
                      out'[l].step # "send" \/ q \in out'[l].left
               PROVE  fate'[l][q] = "none"
    BY DEF TargetsAreNew
  <2>1. ~(l = m /\ q = p) /\ (out[l].step # "send" \/ q \in out[l].left)
    BY <1>0
  <2>2. fate[l][q] = "none"
    BY <2>1 DEF PlaceInv, TargetsAreNew
  <2> QED BY <1>0, <1>3, <2>1, <2>2
<1>5. CASE r = "accepted"
  <2>1. queue' = queue /\ fate' = [fate EXCEPT ![m][p] = "delivered"]
    BY <1>5 DEF Send, Becomes
  <2>2. ASSUME NEW l \in Message, NEW q \in Provider PROVE OneAt(l, q)'
    <3>1. \A k \in Worker, j \in 0..QueueSize : At(l, q, k, j)' <=> At(l, q, k, j)
      BY <1>0, <2>1, SameAt
    <3>2. CASE l = m /\ q = p
      BY <1>0, <1>2, <2>1, <3>1, <3>2, PlacesLeft
    <3>3. CASE ~(l = m /\ q = p)
      <4>1. fate'[l][q] = fate[l][q]
        BY <1>0, <2>1, <3>3
      <4> QED BY <3>1, <4>1, PlacesKept DEF PlaceInv
    <3> QED BY <3>2, <3>3
  <2> QED BY <1>4, <2>2 DEF PlaceInv
<1>6. CASE r # "accepted"
  <2> DEFINE item == [msg |-> m, attempt |-> 1]
  <2>1. item \in Item /\ item.msg = m
    BY ItemTyped, FirstAttempt
  <2>2. Enqueue(p, worker[p], item)
    BY <1>6 DEF Send
  <2>3. \A k \in Worker, j \in 1..QueueSize : ~At(m, p, k, j)
    BY <1>2, ConstantsAssumption
  <2>4. \A k \in Worker : job'[p][k].msg # m
    <3>1. 0 \in 0..QueueSize
      BY ConstantsAssumption
    <3> QED BY <1>0, <1>2, <3>1 DEF At
  <2>5. \A l \in Message, q \in Provider : OneAt(l, q)
    BY DEF PlaceInv
  <2> HIDE DEF item
  <2>6. \A l \in Message, q \in Provider : OneAt(l, q)'
    BY <1>0, <2>1, <2>2, <2>3, <2>4, <2>5, EnqueuePlaces
  <2> QED BY <1>4, <2>6 DEF PlaceInv
<1> QED BY <1>5, <1>6

LEMMA RetryPlaces ==
    ASSUME TypeOK, PlaceInv, NEW p \in Provider, NEW n \in Worker, NEW r \in Outcome, Retry(p, n, r)
    PROVE  PlaceInv'
<1>0. /\ job[p][n] # Idle /\ job' = [job EXCEPT ![p][n] = Idle] /\ out' = out
      /\ fate \in [Message -> [Provider -> Fate]]
      /\ job \in [Provider -> [Worker -> Item \cup {Idle}]]
  BY DEF Retry, TypeOK
<1>1. /\ job[p][n] \in Item /\ job[p][n].msg \in Message
      /\ job[p][n].attempt \in 1..MaxRetries /\ 0 \in 0..QueueSize
      /\ MaxRetries \in Nat /\ QueueSize \in Nat
  BY <1>0, ItemFields, ConstantsAssumption
<1>m. PICK m \in Message : job[p][n].msg = m
  BY <1>1
<1>2. At(m, p, n, 0)
  BY <1>m DEF At
<1>3. OneAt(m, p)
  BY DEF PlaceInv
<1>4. fate[m][p] = "queued"
  BY <1>1, <1>2, <1>3 DEF OneAt
<1>5. \A k \in Worker, j \in 0..QueueSize : At(m, p, k, j) => k = n /\ j = 0
  BY <1>1, <1>2, <1>3 DEF OneAt
<1>6. \A k \in Worker : job'[p][k].msg # m
  <2>1. ASSUME NEW k \in Worker, k # n PROVE job'[p][k].msg # m
    <3>1. job'[p][k] = job[p][k]
      BY <1>0, <2>1
    <3> QED BY <1>1, <1>5, <2>1, <3>1 DEF At
  <2>2. job'[p][n].msg # m
    BY <1>0, NotIdle
  <2> QED BY <2>1, <2>2
<1>7. \A k \in Worker, j \in 1..QueueSize : ~At(m, p, k, j)
  <2>1. \A j \in 1..QueueSize : j \in 0..QueueSize /\ j # 0
    BY <1>1
  <2> QED BY <1>5, <2>1
<1>8. \E f \in Fate : fate' = [fate EXCEPT ![m][p] = f]
  BY <1>m DEF Retry, Enqueue, Becomes, Fate, Ended
<1>9. TargetsAreNew'
  <2> SUFFICES ASSUME NEW l \in Message, NEW q \in Provider,
                      out'[l].step # "send" \/ q \in out'[l].left
               PROVE  fate'[l][q] = "none"
    BY DEF TargetsAreNew
  <2>1. fate[l][q] = "none"
    BY <1>0 DEF PlaceInv, TargetsAreNew
  <2>2. ~(l = m /\ q = p)
    BY <1>4, <2>1
  <2> QED BY <1>0, <1>1, <1>8, <2>1, <2>2
<1>a. /\ \A k \in Worker : k # n => job'[p][k] = job[p][k]
      /\ \A q \in Provider : q # p => job'[q] = job[q]
      /\ job'[p][n] = Idle
      /\ \A l \in Message, q \in Provider : OneAt(l, q)
  BY <1>0 DEF PlaceInv
<1>b. CASE r # "accepted" /\ job[p][n].attempt < MaxRetries
  <2> DEFINE item == [msg |-> m, attempt |-> job[p][n].attempt + 1]
  <2>1. item \in Item /\ item.msg = m
    <3>1. job[p][n].attempt + 1 \in 1..MaxRetries
      BY <1>1, <1>b
    <3> QED BY <3>1, ItemTyped
  <2>2. Enqueue(p, n, item)
    BY <1>b, <1>m DEF Retry
  <2> HIDE DEF item
  <2>3. \A l \in Message, q \in Provider : OneAt(l, q)'
    BY <1>6, <1>7, <1>a, <1>m, <2>1, <2>2, EnqueuePlaces
  <2> QED BY <1>9, <2>3 DEF PlaceInv
<1>c. CASE ~(r # "accepted" /\ job[p][n].attempt < MaxRetries)
  <2>1. queue' = queue /\ \E f \in Ended : fate' = [fate EXCEPT ![m][p] = f]
    BY <1>c, <1>m DEF Retry, Becomes, Ended
  <2>2. fate'[m][p] # "queued"
    BY <1>0, <1>1, <2>1 DEF Ended
  <2>3. ASSUME NEW l \in Message, NEW q \in Provider PROVE OneAt(l, q)'
    <3>1. CASE l = m /\ q = p
      <4>1. ASSUME NEW k \in Worker, NEW j \in 0..QueueSize PROVE ~At(m, p, k, j)'
        <5>1. j = 0 \/ j \in 1..QueueSize
          BY <1>1
        <5> QED BY <1>6, <1>7, <2>1, <5>1 DEF At
      <4> QED BY <2>2, <3>1, <4>1, PlacesLeft
    <3>2. CASE ~(l = m /\ q = p)
      <4>1. fate'[l][q] = fate[l][q]
        BY <1>0, <1>1, <2>1, <3>2
      <4>2. ASSUME NEW k \in Worker, NEW j \in 0..QueueSize PROVE At(l, q, k, j)' <=> At(l, q, k, j)
        <5>1. CASE q = p /\ k = n
          <6>1. l # m /\ job'[p][n] = Idle /\ job[p][n].msg # l
            BY <1>a, <1>m, <3>2, <5>1
          <6> QED BY <2>1, <5>1, <6>1, NotIdle DEF At
        <5>2. CASE ~(q = p /\ k = n)
          <6>1. job'[q][k] = job[q][k]
            BY <1>a, <5>2
          <6> QED BY <2>1, <6>1, SameAt
        <5> QED BY <5>1, <5>2
      <4> QED BY <1>a, <4>1, <4>2, PlacesKept
    <3> QED BY <3>1, <3>2
  <2> QED BY <1>9, <2>3 DEF PlaceInv
<1> QED BY <1>b, <1>c

LEMMA DeliveryPlaces == TypeOK /\ PlaceInv /\ DeliveryStep => PlaceInv'
<1> SUFFICES ASSUME TypeOK, PlaceInv, DeliveryStep PROVE PlaceInv'
  OBVIOUS
<1>1. ASSUME NEW m \in Message, Dispatch(m) PROVE PlaceInv'
  <2>1. UNCHANGED <<queue, job, fate>> /\ out[m].step = "new"
        /\ \A l \in Message : l # m => out'[l] = out[l]
    BY <1>1 DEF Dispatch, TypeOK
  <2> QED BY <2>1, Unmoved
<1>2. ASSUME NEW p \in Provider, Register(p) PROVE PlaceInv'
  BY <1>2, Unmoved DEF Register
<1> QED BY <1>1, <1>2, SendPlaces, TakePlaces, RetryPlaces DEF DeliveryStep

LEMMA StorePlaces == TypeOK /\ PlaceInv /\ StoreStep => PlaceInv'
<1> SUFFICES ASSUME TypeOK, PlaceInv, StoreStep PROVE PlaceInv'
  OBVIOUS
<1>1. ASSUME NEW m \in Message, Write(m) PROVE PlaceInv'
  <2>1. UNCHANGED <<queue, job, fate>> /\ out[m].step = "create"
        /\ \A l \in Message : l # m => out'[l] = out[l]
    BY <1>1 DEF Write, TypeOK
  <2> QED BY <2>1, Unmoved
<1>2. CASE \E m \in Message : Expire(m)
  BY <1>2, Unmoved DEF Expire, delivery
<1>3. CASE \E i \in Instance : Reload(i) \/ ExpireStale(i)
  BY <1>3, Unmoved DEF Reload, ExpireStale, delivery
<1> QED BY <1>1, <1>2, <1>3 DEF StoreStep

\* The queues and workers of a process that dies are gone, and so is what waited.
LEMMA CrashPlaces == ASSUME TypeOK, PlaceInv, NEW i \in Instance, Crash(i) PROVE PlaceInv'
<1>1. CASE i # Home
  BY <1>1, Unmoved DEF Crash
<1>2. CASE i = Home
  <2>1. /\ out' = [m \in Message |-> IF out[m].step = "new" THEN out[m]
                                     ELSE [step |-> "send", left |-> {}]]
        /\ queue' = [p \in Provider |-> [n \in Worker |-> <<>>]]
        /\ job' = [p \in Provider |-> [n \in Worker |-> Idle]]
        /\ fate' = [m \in Message |-> [p \in Provider |->
               IF out[m].step # "new" /\ fate[m][p] \notin Ended THEN "lost" ELSE fate[m][p]]]
    BY <1>2 DEF Crash
  <2>2. TargetsAreNew'
    BY <2>1 DEF PlaceInv, TargetsAreNew
  <2>3. ASSUME NEW m \in Message, NEW p \in Provider PROVE OneAt(m, p)'
    <3>1. fate'[m][p] # "queued"
      <4>1. out[m].step = "new" => fate[m][p] = "none"
        BY DEF PlaceInv, TargetsAreNew
      <4> QED BY <2>1, <4>1 DEF Ended
    <3>2. ASSUME NEW n \in Worker, NEW j \in 0..QueueSize PROVE ~At(m, p, n, j)'
      <4>1. job'[p][n].msg # m /\ queue'[p][n] = <<>>
        BY <2>1, NotIdle
      <4>2. j = 0 \/ ~(j <= Len(queue'[p][n]))
        BY <4>1, ConstantsAssumption
      <4> QED BY <4>1, <4>2 DEF At
    <3> QED BY <3>1, <3>2, PlacesLeft
  <2> QED BY <2>2, <2>3 DEF PlaceInv
<1> QED BY <1>1, <1>2

LEMMA NextPlaces == TypeOK /\ PlaceInv /\ [Next]_vars => PlaceInv'
<1>1. PlaceInv /\ UNCHANGED vars => PlaceInv'
  BY Unmoved DEF vars, delivery
<1>2. PlaceInv /\ ClickStep => PlaceInv'
  BY Unmoved DEF ClickStep, Resolve, Claim, Answer, Incoming, delivery
<1> QED BY <1>1, <1>2, StorePlaces, DeliveryPlaces, CrashPlaces DEF Next

\* A message that waits for a retry is in one place, once, and one that does
\* not is nowhere: no worker, queue or replaced worker keeps or doubles it.
THEOREM AlwaysInOnePlace == Spec => []InOnePlace
<1>1. PlaceInv => InOnePlace
  BY DEF PlaceInv, OneAt, InOnePlace
<1> QED BY <1>1, TypeCorrect, InitPlaces, NextPlaces, PTL DEF Spec
=============================================================================

-------------------------- MODULE OperationsProofs --------------------------
(***************************************************************************)
(* Proofs about Operations, whatever happens to the reports: types, one    *)
(* announcement per operation and an outcome that agrees with the rows     *)
(* unless the closing was disturbed; and that nothing disturbs it when     *)
(* only departures happen.                                                 *)
(***************************************************************************)
EXTENDS Operations, TLAPS

-----------------------------------------------------------------------------
(* The functions a transaction is made of.                                 *)

\* Marking rows keeps them rows.
LEMMA MarkType ==
    ASSUME NEW rows \in [Instance -> RowStatus], NEW S, NEW s \in RowStatus
    PROVE  Mark(rows, S, s) \in [Instance -> RowStatus]
  BY DEF Mark

\* _maybe_close always finds one of the three outcomes.
LEMMA VerdictType ==
    ASSUME NEW rows
    PROVE  Verdict(rows) \in Closed
  BY DEF Verdict, Closed

\* What is written to close an operation is an outcome.
LEMMA CloseType ==
    ASSUME NEW rows
    PROVE  CloseIfSettled(rows) \in Closed \cup {"running"}
  BY VerdictType DEF CloseIfSettled

\* Closing because the rows are settled is right for these rows.
LEMMA CloseSettles ==
    ASSUME NEW rows
    PROVE  Settles(rows, CloseIfSettled(rows))
  BY DEF CloseIfSettled, Settles

\* Marking what is pending and dead touches nothing else.
LEMMA GoneIsDead ==
    ASSUME NEW rows, NEW live
    PROVE  /\ Gone(rows, live) \subseteq Instance
           /\ Gone(rows, live) \cap live = {}
  BY DEF Gone

\* A plan of the sweep is well formed.
LEMMA PlanTyped ==
    ASSUME TypeOK, NEW o \in Op, NEW live
    PROVE  Plan(o, live) \in PlanType
  <1> DEFINE gone == Gone(row[o], live)
             early == CloseIfSettled(Mark(row[o], gone, "gone"))
             ends == gone # {} /\ early # "running"
             skipped == IF ends \/ ~TimedOut(o, gone) THEN {}
                        ELSE {i \in Instance : row[o][i] \in Open} \ gone
             close == IF ends \/ TimedOut(o, gone)
                      THEN Verdict(Mark(Mark(row[o], gone, "gone"), skipped, "skipped"))
                      ELSE "running"
  <1>1. gone \subseteq Instance BY GoneIsDead
  <1>2. skipped \subseteq Instance OBVIOUS
  <1>3. close \in Closed \cup {"running"} BY VerdictType
  <1>4. Plan(o, live) = [gone |-> gone, skipped |-> skipped, close |-> close] BY DEF Plan
  <1> QED BY <1>1, <1>2, <1>3, <1>4 DEF PlanType

\* What the sweep plans to close is settled by what it plans to write.
LEMMA PlanSettles ==
    ASSUME TypeOK, NEW o \in Op, NEW live
    PROVE  Settles(Mark(Mark(row[o], Plan(o, live).gone, "gone"), Plan(o, live).skipped, "skipped"),
                   Plan(o, live).close)
  <1> DEFINE gone == Gone(row[o], live)
             marked == Mark(row[o], gone, "gone")
             ends == gone # {} /\ CloseIfSettled(marked) # "running"
             skipped == IF ends \/ ~TimedOut(o, gone) THEN {}
                        ELSE {i \in Instance : row[o][i] \in Open} \ gone
             rows == Mark(marked, skipped, "skipped")
             close == IF ends \/ TimedOut(o, gone) THEN Verdict(rows) ELSE "running"
  <1>1. Plan(o, live) = [gone |-> gone, skipped |-> skipped, close |-> close] BY DEF Plan
  <1>2. CASE ends
    <2>1. \A i \in Instance : marked[i] \notin Open
      BY <1>2 DEF CloseIfSettled
    <2>2. \A i \in Instance : rows[i] = marked[i]
      BY <1>2 DEF Mark
    <2> QED BY <2>1, <2>2, <1>1, <1>2 DEF Settles
  <1>3. CASE ~ends /\ TimedOut(o, gone)
    <2>1. skipped = {i \in Instance : row[o][i] \in Open} \ gone
      BY <1>3
    <2>2. \A i \in Instance : rows[i] \notin Open
      BY <2>1 DEF Mark, Open
    <2> QED BY <2>2, <1>1, <1>3 DEF Settles
  <1>4. CASE ~ends /\ ~TimedOut(o, gone)
    <2>1. close = "running" BY <1>4
    <2> QED BY <2>1, <1>1 DEF Settles
  <1> QED BY <1>2, <1>3, <1>4

-----------------------------------------------------------------------------
(* Types.                                                                  *)

\* The call record in the stages it is built in.
LEMMA AttachedType ==
    ASSUME TypeOK, NEW i \in Instance, NEW report \in Report, NEW o \in Op
    PROVE  /\ Attached(i, report, o) \in
                CallType
           /\ Attached(i, report, o).op = o
  BY DEF Attached, NoCall, TypeOK, Report, CallType

LEMMA SweepingType ==
    ASSUME TypeOK, NEW live \in SUBSET Instance, NEW payloads \in [Op -> 0..Many]
    PROVE  Sweeping(live, payloads) \in
               SweepType
  <1> DEFINE plan == [o \in Op |-> IF o \in Running THEN Plan(o, live) ELSE NoPlan[o]]
             paid == [o \in Op |-> IF plan[o].close = "running" THEN payloads[o]
                                   ELSE Count(payloads[o], 1)]
  <1>1. plan \in [Op -> PlanType]
    <2>1. \A o \in Op : NoPlan[o] \in PlanType
      BY DEF NoPlan, PlanType
    <2> QED BY <2>1, PlanTyped
  <1>2. paid \in [Op -> 0..Many]
    BY DEF Count, Many
  <1>3. Sweeping(live, payloads) =
            [stage |-> "read", live |-> live, plan |-> plan, payloads |-> paid]
    BY DEF Sweeping
  <1> HIDE DEF plan, paid
  <1> QED BY <1>1, <1>2, <1>3 DEF SweepType

LEMMA FlushedType ==
    ASSUME NEW c \in CallType, NEW gone \in SUBSET Instance, NEW close \in Closed \cup {"running"}
    PROVE  /\ [c EXCEPT !.stage = "flushed", !.gone = gone, !.close = close] \in CallType
           /\ [c EXCEPT !.stage = "flushed", !.gone = gone, !.close = close].op = c.op
  BY DEF CallType

LEMMA LiveType ==
    ASSUME NEW c \in CallType, NEW live \in SUBSET Instance
    PROVE  [c EXCEPT !.live = live] \in CallType /\ [c EXCEPT !.live = live].op = c.op
  BY DEF CallType

LEMMA CountType ==
    ASSUME NEW m \in 0..Many, NEW n \in 0..Many
    PROVE  Count(m, n) \in 0..Many
  BY DEF Count, Many

LEMMA NoCallType == NoCall \in CallType /\ NoCall.stage = "none"
  BY DEF NoCall, CallType, Report

LEMMA NoSweepType ==
    NoSweep \in SweepType
  BY DEF NoSweep, NoPlan, Many, SweepType, PlanType

LEMMA TypeInit == Init => TypeOK
  <1> SUFFICES ASSUME Init PROVE TypeOK OBVIOUS
  <1>1. sweep \in SweepType
    BY NoSweepType DEF Init
  <1>2. call \in [Instance -> CallType]
    BY DEF Init, NoCall, Report, CallType
  <1>3. \A i \in Instance : call[i].stage = "none"
    BY DEF Init, NoCall
  <1> QED
    BY <1>1, <1>2, <1>3, ConstantsAssumption DEF Init, TypeOK, Status, RowStatus, Many

LEMMA TypeStep == TypeOK /\ [Next]_vars => TypeOK'
  <1> SUFFICES ASSUME TypeOK, [Next]_vars PROVE TypeOK' OBVIOUS
  <1> USE DEF TypeOK, ending
  <1>1. ASSUME NEW i \in Instance, NEW o \in Op, Start(i, o)
        PROVE  TypeOK'
    BY <1>1 DEF Start, Status, RowStatus, Open, Terminal, members
  <1>2. ASSUME NEW i \in Instance, NEW report \in Report, NEW o \in Op, Call(i, report, o)
        PROVE  TypeOK'
    BY <1>2, AttachedType DEF Call, records, members
  <1>3. ASSUME NEW i \in Instance, Flush(i)
        PROVE  TypeOK'
    <2> DEFINE gone == Gone(Visible(i), call[i].live)
               close == CloseIfSettled(Mark(Visible(i), gone, "gone"))
    <2>1. gone \subseteq Instance BY GoneIsDead
    <2>2. close \in Closed \cup {"running"} BY CloseType
    <2> DEFINE r == [call[i] EXCEPT !.stage = "flushed", !.gone = gone, !.close = close]
    <2>3. call' = [call EXCEPT ![i] = r]
      BY <1>3 DEF Flush
    <2>4. UNCHANGED <<status, row, quiet, age, alive, seen, sweep, finished, disturbed>> /\ call[i].stage = "found"
      BY <1>3 DEF Flush, records, members
    <2> HIDE DEF gone, close
    <2>5. r \in CallType /\ r.op = call[i].op
      BY <2>1, <2>2, FlushedType
    <2>6. call[i].op \in Op
      BY <2>4
    <2> HIDE DEF r
    <2>7. call' \in [Instance -> CallType] /\ \A j \in Instance : call'[j].stage # "none" => call'[j].op \in Op
      BY <2>3, <2>5, <2>6
    <2> QED BY <2>4, <2>7
  <1>4. ASSUME NEW i \in Instance, Commit(i)
        PROVE  TypeOK'
    <2>1. call[i].op \in Op /\ call[i].report \in RowStatus /\ call[i].close \in Closed \cup {"running"}
      BY <1>4 DEF Commit, CallType, Report, RowStatus, Terminal, Open
    <2>2. row' \in [Op -> [Instance -> RowStatus]]
      BY <1>4, <2>1, MarkType DEF Commit, RowStatus, Terminal
    <2>3. status' \in [Op -> Status]
      BY <1>4, <2>1 DEF Commit, Status
    <2>4. call' \in [Instance -> CallType] /\ \A j \in Instance : call'[j].stage # "none" => call'[j].op \in Op
      <3> DEFINE r == [NoCall EXCEPT !.stage = "closed", !.op = call[i].op]
      <3>1. call' = [call EXCEPT ![i] = NoCall] \/ call' = [call EXCEPT ![i] = r]
        BY <1>4 DEF Commit
      <3>2. r \in CallType /\ r.op \in Op
        BY <2>1 DEF CallType, NoCall, Report
      <3>3. NoCall \in CallType /\ NoCall.stage = "none"
        BY NoCallType
      <3> HIDE DEF r
      <3> QED BY <3>1, <3>2, <3>3
    <2>5. UNCHANGED <<age, alive, seen, sweep, finished>> /\ quiet' \in [Op -> 0..Idle]
      BY <1>4, <2>1, ConstantsAssumption DEF Commit, members
    <2>6. disturbed' \in SUBSET Op
      BY <1>4, <2>1 DEF Commit
    <2> QED BY <2>2, <2>3, <2>4, <2>5, <2>6
  <1>5. ASSUME NEW i \in Instance, Retry(i)
        PROVE  TypeOK'
    <2>1. call[i].report \in Report /\ call[i].live \in SUBSET Instance
      BY DEF CallType
    <2>2. call' \in [Instance -> CallType] /\ \A j \in Instance : call'[j].stage # "none" => call'[j].op \in Op
      <3>1. ASSUME NEW o \in Op, call' = [call EXCEPT ![i] =
                       [Attached(i, call[i].report, o) EXCEPT !.live = call[i].live]]
            PROVE  call' \in [Instance -> CallType] /\ \A j \in Instance : call'[j].stage # "none" => call'[j].op \in Op
        <4> DEFINE a == Attached(i, call[i].report, o)
                   r == [a EXCEPT !.live = call[i].live]
        <4>1. a \in CallType /\ a.op = o
          BY <2>1, AttachedType
        <4>2. call' = [call EXCEPT ![i] = r]
          BY <3>1
        <4> HIDE DEF a
        <4>3. r \in CallType /\ r.op = o
          BY <2>1, <4>1, LiveType
        <4> HIDE DEF r
        <4> QED BY <4>2, <4>3
      <3>2. ASSUME call' = [call EXCEPT ![i] = NoCall]
            PROVE  call' \in [Instance -> CallType] /\ \A j \in Instance : call'[j].stage # "none" => call'[j].op \in Op
        BY <3>2, NoCallType
      <3> QED BY <1>5, <3>1, <3>2 DEF Retry
    <2> QED BY <1>5, <2>2 DEF Retry, records, members
  <1>6. ASSUME NEW i \in Instance, Announce(i)
        PROVE  TypeOK'
    <2>1. call' \in [Instance -> CallType] /\ \A j \in Instance : call'[j].stage # "none" => call'[j].op \in Op
      BY <1>6 DEF Announce, CallType, NoCall, Report
    <2>2. finished' \in [Op -> 0..Many]
      BY <1>6 DEF Announce, Count, Many
    <2> QED BY <1>6, <2>1, <2>2 DEF Announce, records, members
  <1>7. ASSUME NEW i \in Instance, SweepRead(i)
        PROVE  TypeOK'
    <2>1. seen[i] \cup {i} \in SUBSET Instance /\ NoSweep.payloads \in [Op -> 0..Many]
      BY NoSweepType DEF SweepType
    <2>2. sweep' \in SweepType
      BY <1>7, <2>1, SweepingType DEF SweepRead
    <2> QED BY <1>7, <2>2 DEF SweepRead, records, members
  <1>8. CASE SweepCommit
    <2> DEFINE gone(o) == sweep.plan[o].gone
               skipped(o) == sweep.plan[o].skipped
    <2>1. \A o \in Op : Mark(Mark(row[o], gone(o), "gone"), skipped(o), "skipped") \in [Instance -> RowStatus]
      BY MarkType DEF RowStatus, Terminal
    <2>2. row' \in [Op -> [Instance -> RowStatus]]
      BY <1>8, <2>1 DEF SweepCommit
    <2>3. status' \in [Op -> Status]
      <3>1. \A o \in Op : sweep.plan[o].close \in Closed \cup {"running"}
        BY DEF SweepType, PlanType
      <3> QED BY <1>8, <3>1 DEF SweepCommit, Status
    <2>4. quiet' \in [Op -> 0..Idle]
      BY <1>8, ConstantsAssumption DEF SweepCommit
    <2>5. sweep' \in SweepType
      BY <1>8, NoSweepType DEF SweepCommit, SweepType
    <2> QED BY <1>8, <2>2, <2>3, <2>4, <2>5 DEF SweepCommit, members
  <1>9. CASE SweepRetry
    <2>1. sweep' \in SweepType
      BY <1>9, SweepingType DEF SweepRetry, SweepType
    <2> QED BY <1>9, <2>1 DEF SweepRetry, records, members
  <1>10. CASE SweepAnnounce
    <2>1. finished' \in [Op -> 0..Many]
      <3>1. sweep.payloads \in [Op -> 0..Many]
        BY DEF SweepType
      <3> QED BY <1>10, <3>1, CountType DEF SweepAnnounce
    <2> QED BY <1>10, <2>1, NoSweepType DEF SweepAnnounce, records, members
  <1>11. ASSUME NEW i \in Instance, Leave(i)
         PROVE  TypeOK'
    <2>1. call' \in [Instance -> CallType] /\ \A j \in Instance : call'[j].stage # "none" => call'[j].op \in Op
      BY <1>11 DEF Leave, CallType, NoCall, Report
    <2> QED BY <1>11, <2>1, NoSweepType DEF Leave, records
  <1>12. ASSUME NEW i \in Instance, Join(i) \/ Refresh(i)
         PROVE  TypeOK'
    BY <1>12 DEF Join, Refresh, records
  <1>13. CASE TimePasses
    <2>1. quiet' \in [Op -> 0..Idle] /\ age' \in [Op -> 0..(Hard + 1)]
      BY <1>13, ConstantsAssumption DEF TimePasses
    <2> QED BY <1>13, <2>1 DEF TimePasses, members
  <1>14. CASE UNCHANGED vars
    BY <1>14 DEF vars, records, members
  <1> QED
    BY <1>1, <1>2, <1>3, <1>4, <1>5, <1>6, <1>7, <1>8, <1>9, <1>10, <1>11, <1>12, <1>13, <1>14
    DEF Next, ReportStep, SweepStep, MemberStep

\* Every variable keeps its type, whatever disturbs the reports.
THEOREM TypeCorrect == Spec => []TypeOK
  BY TypeInit, TypeStep, PTL DEF Spec

-----------------------------------------------------------------------------
(* Commits.                                                                *)

\* A commit turns the rows of its operation into what it worked out.
LEMMA CommitWrites ==
    ASSUME TypeOK, NEW i \in Instance, Commit(i)
    PROVE  row' = [row EXCEPT ![call[i].op] = Written(i)]
  BY DEF Commit, Written, Visible

\* What a commit leaves alone.
LEMMA CommitElsewhere ==
    ASSUME TypeOK, NEW i \in Instance, Commit(i)
    PROVE  /\ call'[i].stage \in {"none", "closed"}
           /\ call'[i].stage = "closed" =>
                 call'[i].op = call[i].op /\ call[i].close # "running"
           /\ \A j \in Instance : j # i => call'[j] = call[j]
           /\ \A o \in Op : o # call[i].op => status'[o] = status[o] /\ row'[o] = row[o]
  <1> DEFINE r == [NoCall EXCEPT !.stage = "closed", !.op = call[i].op]
  <1>1. /\ call \in [Instance -> CallType] /\ status \in [Op -> Status]
        /\ row \in [Op -> [Instance -> RowStatus]]
    BY DEF TypeOK
  <1>2. r.stage = "closed" /\ r.op = call[i].op
    BY DEF NoCall
  <1>3. \/ call' = [call EXCEPT ![i] = NoCall]
        \/ call' = [call EXCEPT ![i] = r] /\ call[i].close # "running"
    BY DEF Commit
  <1> HIDE DEF r
  <1>4. \A o \in Op : o # call[i].op => status'[o] = status[o]
    BY <1>1 DEF Commit
  <1>5. \A o \in Op : o # call[i].op => row'[o] = row[o]
    BY <1>1, CommitWrites
  <1> QED BY <1>1, <1>2, <1>3, <1>4, <1>5, NoCallType

\* What disturbed an operation stays known.
LEMMA CalmBefore ==
    ASSUME TypeOK, [Next]_vars, NEW o, o \notin disturbed'
    PROVE  Calm(o)
  BY DEF Next, ReportStep, SweepStep, MemberStep, Start, Call, Flush, Commit, Retry, Announce,
         SweepRead, SweepCommit, SweepRetry, SweepAnnounce, Leave, Join, Refresh, TimePasses,
         vars, ending, Calm

\* Of two reports on an operation that nothing disturbs neither closes it: the
\* row of the other one would still be open.
LEMMA NeitherCloses ==
    ASSUME TypeOK, CallInv, NEW i \in Instance, NEW j \in Instance, i # j,
           Commit(i), InFlight(j), call[j].op = call[i].op, call[i].op \notin disturbed'
    PROVE  ~Closes(i) /\ ~Closes(j)
  <1> DEFINE o == call[i].op
  <1>1. o \in Op /\ row[o] \in [Instance -> RowStatus] /\ InFlight(i)
    BY DEF TypeOK, Commit, InFlight
  <1>2. Calm(o) /\ ~CommitDisturbs(i)
    BY <1>1 DEF Commit, Calm
  <1>3. CASE Plain(o, i, j)
    <2>1. Settles(Written(i), call[i].close) /\ Settles(Written(j), call[j].close)
      BY <1>1, <1>2 DEF CallInv
    <2>2. Written(i)[j] = row[o][j] /\ Written(j)[i] = row[o][i]
      BY <1>1, <1>3 DEF Plain, Written, Visible, Mark
    <2> QED BY <1>3, <2>1, <2>2 DEF Plain, Settles, Closes
  <1>4. CASE ~Plain(o, i, j)
    BY <1>2, <1>4 DEF CommitDisturbs
  <1> QED BY <1>3, <1>4

-----------------------------------------------------------------------------
(* Operations whose closing nothing disturbs.                              *)

LEMMA CallStep ==
    ASSUME TypeOK, CallInv, [Next]_vars
    PROVE  CallInv'
  <1> SUFFICES ASSUME NEW j \in Instance, InFlight(j)', call'[j].op \notin disturbed'
               PROVE  status'[call'[j].op] = "running" /\ Settles(Written(j)', call'[j].close)
    BY DEF CallInv, Settles, Calm
  <1> DEFINE Goal == status'[call'[j].op] = "running" /\ Settles(Written(j)', call'[j].close)
  <1>C. Calm(call'[j].op)
    BY CalmBefore
  \* Whoever else acts: the call of j is what it was.
  <1>0. ASSUME call'[j] = call[j],
               status'[call[j].op] = status[call[j].op], row'[call[j].op] = row[call[j].op]
        PROVE  Goal
    BY <1>0, <1>C DEF CallInv, InFlight, Settles, Written, Visible
  \* A call that writes no status settles nothing.
  <1>A. ASSUME call'[j].close = "running", status'[call'[j].op] = "running"
        PROVE  Goal
    BY <1>A DEF Settles
  <1>1. ASSUME NEW i \in Instance, NEW o \in Op, Start(i, o)
        PROVE  Goal
    <2>1. call' = call
      BY <1>1 DEF Start
    <2>2. status[call[j].op] = "running"
      BY <2>1, <1>C DEF CallInv, InFlight
    <2>3. call[j].op # o
      BY <1>1, <2>2 DEF Start
    <2>4. status'[call[j].op] = status[call[j].op] /\ row'[call[j].op] = row[call[j].op]
      BY <1>1, <2>3 DEF Start, TypeOK
    <2> QED BY <1>0, <2>1, <2>4
  <1>2. ASSUME NEW i \in Instance, NEW report \in Report, NEW o \in Op, Call(i, report, o)
        PROVE  Goal
    <2>1. UNCHANGED <<status, row>>
      BY <1>2 DEF Call, records
    <2>2. CASE j = i
      <3>1. call'[i] = Attached(i, report, o)
        BY <1>2 DEF Call, TypeOK
      <3>2. call'[i].op = o /\ call'[i].close = "running"
        BY <3>1 DEF Attached, NoCall
      <3>3. status[o] = "running"
        BY <1>2 DEF Call, Match, Running
      <3> QED BY <1>A, <2>1, <2>2, <3>2, <3>3
    <2>3. CASE j # i
      BY <1>0, <1>2, <2>1, <2>3 DEF Call, TypeOK
    <2> QED BY <2>2, <2>3
  <1>3. ASSUME NEW i \in Instance, Flush(i)
        PROVE  Goal
    <2>1. UNCHANGED <<status, row>>
      BY <1>3 DEF Flush, records
    <2>2. CASE j = i
      <3> DEFINE gone == Gone(Visible(i), call[i].live)
      <3>1. /\ call'[i].op = call[i].op /\ call'[i].report = call[i].report
            /\ call'[i].gone = gone
            /\ call'[i].close = CloseIfSettled(Mark(Visible(i), gone, "gone"))
        BY <1>3 DEF Flush, TypeOK, CallType
      <3>2. Written(i)' = Mark(Visible(i), gone, "gone")
        BY <2>1, <3>1 DEF Written, Visible
      <3>3. Settles(Written(i)', call'[i].close)
        BY <3>1, <3>2, CloseSettles
      <3>4. status[call[i].op] = "running"
        BY <1>3, <1>C, <2>2, <3>1 DEF Flush, CallInv, InFlight
      <3> QED BY <2>1, <2>2, <3>1, <3>3, <3>4
    <2>3. CASE j # i
      BY <1>0, <1>3, <2>1, <2>3 DEF Flush, TypeOK
    <2> QED BY <2>2, <2>3
  <1>4. ASSUME NEW i \in Instance, Commit(i)
        PROVE  Goal
    <2>1. j # i /\ call'[j] = call[j] /\ InFlight(j)
      BY <1>4, CommitElsewhere DEF InFlight
    <2>2. CASE call[j].op # call[i].op
      <3>1. call[j].op \in Op
        BY <2>1 DEF TypeOK, InFlight
      <3> QED BY <1>0, <1>4, <2>1, <2>2, <3>1, CommitElsewhere
    <2>3. CASE call[j].op = call[i].op
      <3>1. ~Closes(i) /\ ~Closes(j)
        BY <1>4, <2>1, <2>3, NeitherCloses
      <3>2. status' = status
        BY <1>4, <3>1 DEF Commit, Closes
      <3>3. status[call[j].op] = "running"
        BY <1>C, <2>1 DEF CallInv
      <3> QED BY <1>A, <2>1, <3>1, <3>2, <3>3 DEF Closes
    <2> QED BY <2>2, <2>3
  <1>5. ASSUME NEW i \in Instance, Retry(i)
        PROVE  Goal
    <2>1. UNCHANGED <<status, row>>
      BY <1>5 DEF Retry, records
    <2>2. CASE j # i
      BY <1>0, <1>5, <2>1, <2>2 DEF Retry, TypeOK
    <2>3. CASE j = i
      <3>1. ASSUME NEW o \in Op, Match(o),
                   call' = [call EXCEPT ![i] =
                       [Attached(i, call[i].report, o) EXCEPT !.live = call[i].live]]
            PROVE  Goal
        <4> DEFINE a == Attached(i, call[i].report, o)
        <4>1. call'[i] = [a EXCEPT !.live = call[i].live]
          BY <3>1 DEF TypeOK
        <4>2. a.op = o /\ a.close = "running"
          BY DEF Attached, NoCall
        <4>3. a \in CallType
          BY AttachedType DEF TypeOK, CallType
        <4> HIDE DEF a
        <4>4. call'[i].op = o /\ call'[i].close = "running"
          BY <4>1, <4>2, <4>3 DEF CallType
        <4>5. status[o] = "running"
          BY <3>1 DEF Match, Running
        <4> QED BY <1>A, <2>1, <2>3, <4>4, <4>5
      <3>2. call' # [call EXCEPT ![i] = NoCall]
        BY <2>3 DEF InFlight, NoCall, TypeOK
      <3> QED BY <1>5, <3>1, <3>2 DEF Retry
    <2> QED BY <2>2, <2>3
  <1>6. ASSUME NEW i \in Instance, Announce(i) \/ Leave(i)
        PROVE  Goal
    <2>1. j # i /\ call'[j] = call[j]
      BY <1>6 DEF Announce, Leave, TypeOK, InFlight, NoCall
    <2>2. UNCHANGED <<status, row>>
      BY <1>6 DEF Announce, Leave, records
    <2> QED BY <1>0, <2>1, <2>2
  <1>7. CASE SweepCommit
    <2> DEFINE o == call[j].op
    <2>1. call' = call /\ InFlight(j) /\ o \in Op /\ ~SweepDisturbs(o) /\ sweep.stage = "read"
      BY <1>7 DEF SweepCommit, InFlight, TypeOK
    <2>2. CASE sweep.plan[o] = NoPlan[o]
      <3>1. sweep.plan[o].gone = {} /\ sweep.plan[o].skipped = {} /\ sweep.plan[o].close = "running"
        BY <2>1, <2>2 DEF NoPlan
      <3>2. row'[o] = row[o] /\ status'[o] = status[o]
        BY <1>7, <2>1, <3>1 DEF SweepCommit, Mark, TypeOK
      <3> QED BY <1>0, <2>1, <3>2
    <2>3. CASE sweep.plan[o] # NoPlan[o]
      <3>1. sweep.plan[o].close = "running" /\ call[j].close = "running"
        BY <2>1, <2>3 DEF SweepDisturbs, SweepWrites, SweepCloses, Closes
      <3>2. status'[o] = status[o]
        BY <1>7, <2>1, <3>1 DEF SweepCommit
      <3>3. status[o] = "running"
        BY <1>C, <2>1 DEF CallInv
      <3> QED BY <1>A, <2>1, <3>1, <3>2, <3>3
    <2> QED BY <2>2, <2>3
  <1>8. ASSUME UNCHANGED <<call, status, row>>
        PROVE  Goal
    BY <1>0, <1>8
  <1>9. (\E i \in Instance : SweepRead(i) \/ Join(i) \/ Refresh(i))
        \/ SweepRetry \/ SweepAnnounce \/ TimePasses \/ UNCHANGED vars
        => UNCHANGED <<call, status, row>>
    BY DEF SweepRead, Join, Refresh, SweepRetry, SweepAnnounce, TimePasses, vars, records
  <1> QED
    BY <1>1, <1>2, <1>3, <1>4, <1>5, <1>6, <1>7, <1>8, <1>9
    DEF Next, ReportStep, SweepStep, MemberStep

\* A run of the sweep plans what is right for the rows it read.
LEMMA SweepingRight ==
    ASSUME TypeOK, NEW live \in SUBSET Instance, NEW payloads \in [Op -> 0..Many],
           NEW o \in Op, payloads[o] = 0, sweep' = Sweeping(live, payloads), UNCHANGED <<status, row>>
    PROVE  /\ status'[o] # "running" => sweep'.plan[o] = NoPlan[o]
           /\ Settles(Swept(o)', sweep'.plan[o].close)
           /\ sweep'.payloads[o] = IF sweep'.plan[o].close = "running" THEN 0 ELSE 1
  <1> DEFINE plan == [p \in Op |-> IF p \in Running THEN Plan(p, live) ELSE NoPlan[p]]
  <1>1. /\ sweep'.plan = plan
        /\ sweep'.payloads = [p \in Op |-> IF plan[p].close = "running" THEN payloads[p]
                                           ELSE Count(payloads[p], 1)]
    BY DEF Sweeping
  <1>2. Count(0, 1) = 1
    BY DEF Count, Many
  <1>3. CASE o \in Running
    <2>1. plan[o] = Plan(o, live)
      BY <1>3
    <2>2. Settles(Swept(o)', plan[o].close)
      BY <1>1, <2>1, PlanSettles DEF Swept
    <2> HIDE DEF plan
    <2> QED BY <1>1, <1>2, <1>3, <2>2 DEF Running
  <1>4. CASE o \notin Running
    <2>1. plan[o] = NoPlan[o] /\ NoPlan[o].close = "running"
      BY <1>4 DEF NoPlan
    <2> HIDE DEF plan
    <2> QED BY <1>1, <1>2, <2>1 DEF Settles
  <1> QED BY <1>3, <1>4

LEMMA SweepsStep ==
    ASSUME TypeOK, SweepInv, [Next]_vars
    PROVE  SweepInv'
  <1> SUFFICES ASSUME sweep'.stage = "read", NEW o \in Op, o \notin disturbed'
               PROVE  /\ status'[o] # "running" => sweep'.plan[o] = NoPlan[o]
                      /\ Settles(Swept(o)', sweep'.plan[o].close)
                      /\ sweep'.payloads[o] = IF sweep'.plan[o].close = "running" THEN 0 ELSE 1
    BY DEF SweepInv, Settles, Swept, Calm
  <1> DEFINE Goal == /\ status'[o] # "running" => sweep'.plan[o] = NoPlan[o]
                     /\ Settles(Swept(o)', sweep'.plan[o].close)
                     /\ sweep'.payloads[o] = IF sweep'.plan[o].close = "running" THEN 0 ELSE 1
  <1>C. Calm(o)
    BY CalmBefore
  <1>N. NoPlan[o].close = "running"
    BY DEF NoPlan
  <1>0. ASSUME sweep' = sweep, status'[o] = status[o], row'[o] = row[o]
        PROVE  Goal
    BY <1>0, <1>C DEF SweepInv, Settles, Swept
  <1>A. ASSUME sweep' = sweep, sweep.plan[o].close = "running",
               status'[o] # "running" => sweep.plan[o] = NoPlan[o]
        PROVE  Goal
    BY <1>A, <1>C DEF SweepInv, Settles
  <1>1. ASSUME NEW i \in Instance, NEW p \in Op, Start(i, p)
        PROVE  Goal
    <2>1. sweep' = sweep
      BY <1>1 DEF Start
    <2>2. CASE p # o
      BY <1>0, <1>1, <2>1, <2>2 DEF Start, TypeOK
    <2>3. CASE p = o
      <3>1. sweep.plan[o] = NoPlan[o]
        BY <1>1, <1>C, <2>1, <2>3 DEF Start, SweepInv
      <3> QED BY <1>A, <1>N, <2>1, <3>1
    <2> QED BY <2>2, <2>3
  <1>2. ASSUME NEW i \in Instance, Commit(i)
        PROVE  Goal
    <2>1. sweep' = sweep
      BY <1>2 DEF Commit
    <2>2. CASE call[i].op # o
      BY <1>0, <1>2, <2>1, <2>2, CommitElsewhere
    <2>3. CASE call[i].op = o
      <3>1. ~CommitDisturbs(i)
        BY <1>2, <2>3 DEF Commit
      <3>2. CASE sweep.plan[o] = NoPlan[o]
        BY <1>A, <1>N, <2>1, <3>2
      <3>3. CASE sweep.plan[o] # NoPlan[o]
        <4>1. ~Closes(i) /\ ~SweepCloses(o)
          BY <2>1, <2>3, <3>1, <3>3 DEF CommitDisturbs, SweepWrites
        <4>2. status' = status
          BY <1>2, <4>1 DEF Commit, Closes
        <4>3. status[o] # "running" => sweep.plan[o] = NoPlan[o]
          BY <1>C, <2>1 DEF SweepInv
        <4> QED BY <1>A, <2>1, <4>1, <4>2, <4>3 DEF SweepCloses
      <3> QED BY <3>2, <3>3
    <2> QED BY <2>2, <2>3
  <1>3. ASSUME NEW i \in Instance, SweepRead(i)
        PROVE  Goal
    <2>1. seen[i] \cup {i} \in SUBSET Instance /\ NoSweep.payloads \in [Op -> 0..Many]
      BY NoSweepType DEF SweepType, TypeOK
    <2>2. NoSweep.payloads[o] = 0
      BY DEF NoSweep
    <2>3. sweep' = Sweeping(seen[i] \cup {i}, NoSweep.payloads) /\ UNCHANGED <<status, row>>
      BY <1>3 DEF SweepRead, records
    <2> QED BY <2>1, <2>2, <2>3, SweepingRight
  <1>4. CASE SweepRetry
    <2>1. sweep.live \in SUBSET Instance /\ sweep.payloads \in [Op -> 0..Many]
      BY DEF SweepType, TypeOK
    <2>2. sweep.payloads[o] = 0
      BY <1>4, <2>1 DEF SweepRetry, Many
    <2>3. sweep' = Sweeping(sweep.live, sweep.payloads) /\ UNCHANGED <<status, row>>
      BY <1>4 DEF SweepRetry, records
    <2> QED BY <2>1, <2>2, <2>3, SweepingRight
  <1>5. ASSUME SweepCommit \/ SweepAnnounce
        PROVE  Goal
    <2>1. SweepCommit => sweep'.stage = "closed"
      BY DEF SweepCommit, NoSweep
    <2>2. SweepAnnounce => sweep'.stage = "none"
      BY DEF SweepAnnounce, NoSweep
    <2> QED BY <1>5, <2>1, <2>2
  <1>6. ASSUME NEW i \in Instance, Leave(i)
        PROVE  Goal
    <2>1. sweep' = sweep /\ status' = status /\ row' = row
      BY <1>6 DEF Leave, records, NoSweep
    <2> QED BY <1>0, <2>1
  <1>7. ASSUME UNCHANGED <<status, row, sweep>>
        PROVE  Goal
    BY <1>0, <1>7
  <1>8. ASSUME NEW i \in Instance, NEW report \in Report, NEW p \in Op, Call(i, report, p)
        PROVE  Goal
    BY <1>7, <1>8 DEF Call, records
  <1>9. CASE UNCHANGED vars \/ TimePasses
    BY <1>7, <1>9 DEF vars, records, TimePasses
  <1>10. ASSUME NEW i \in Instance, Flush(i) \/ Retry(i) \/ Announce(i) \/ Join(i) \/ Refresh(i)
         PROVE  Goal
    BY <1>7, <1>10 DEF Flush, Retry, Announce, Join, Refresh, records
  <1> QED
    BY <1>1, <1>2, <1>3, <1>4, <1>5, <1>6, <1>7, <1>8, <1>9, <1>10
    DEF Next, ReportStep, SweepStep, MemberStep

\* The commit of the sweep, operation by operation.
LEMMA SweepCommits ==
    ASSUME TypeOK, SweepInv, SweepCommit, NEW o \in Op, Calm(o)
    PROVE  \/ /\ sweep.payloads[o] = 0
              /\ status'[o] = status[o]
              /\ status[o] = "running" \/ row'[o] = row[o]
           \/ /\ sweep.payloads[o] = 1
              /\ status[o] = "running" /\ status'[o] \in Closed
              /\ \A i \in Instance : row'[o][i] \notin Open
              /\ status'[o] = Verdict(row'[o])
  <1>1. row'[o] = Swept(o)
    BY DEF SweepCommit, Swept
  <1>2. status'[o] = IF sweep.plan[o].close = "running" THEN status[o] ELSE sweep.plan[o].close
    BY DEF SweepCommit
  <1>3. /\ status[o] # "running" => sweep.plan[o] = NoPlan[o]
        /\ Settles(Swept(o), sweep.plan[o].close)
        /\ sweep.payloads[o] = IF sweep.plan[o].close = "running" THEN 0 ELSE 1
    BY DEF SweepCommit, SweepInv
  <1>4. NoPlan[o] = [gone |-> {}, skipped |-> {}, close |-> "running"]
    BY DEF NoPlan
  <1>5. CASE status[o] # "running"
    <2>1. sweep.plan[o].gone = {} /\ sweep.plan[o].skipped = {} /\ sweep.plan[o].close = "running"
      BY <1>3, <1>4, <1>5
    <2>2. row[o] = [i \in Instance |-> row[o][i]]
      BY DEF TypeOK
    <2>3. Swept(o) = row[o]
      BY <2>1, <2>2 DEF Swept, Mark
    <2> QED BY <1>1, <1>2, <1>3, <2>1, <2>3
  <1>6. CASE status[o] = "running" /\ sweep.plan[o].close = "running"
    BY <1>2, <1>3, <1>6
  <1>7. CASE status[o] = "running" /\ sweep.plan[o].close # "running"
    BY <1>1, <1>2, <1>3, <1>7, VerdictType DEF Settles
  <1> QED BY <1>5, <1>6, <1>7

LEMMA OutcomeStep ==
    ASSUME TypeOK, CallInv, SweepInv, OutcomeIsTrue, [Next]_vars
    PROVE  OutcomeIsTrue'
  <1> SUFFICES ASSUME NEW o \in Op, status'[o] \in Closed, o \notin disturbed'
               PROVE  (\A i \in Instance : row'[o][i] \notin Open) /\ status'[o] = Verdict(row'[o])
    BY DEF OutcomeIsTrue, Verdict
  <1> DEFINE Goal == (\A i \in Instance : row'[o][i] \notin Open) /\ status'[o] = Verdict(row'[o])
  <1>C. Calm(o)
    BY CalmBefore
  <1>0. ASSUME status'[o] = status[o], row'[o] = row[o]
        PROVE  Goal
    BY <1>0, <1>C DEF OutcomeIsTrue, Calm
  <1>1. ASSUME NEW i \in Instance, NEW p \in Op, Start(i, p)
        PROVE  Goal
    <2>1. p # o
      BY <1>1 DEF Start, TypeOK, Closed
    <2> QED BY <1>0, <1>1, <2>1 DEF Start, TypeOK
  <1>2. ASSUME NEW i \in Instance, Commit(i)
        PROVE  Goal
    <2>1. call[i].op \in Op
      BY <1>2 DEF Commit, TypeOK
    <2>2. CASE o # call[i].op
      BY <1>0, <1>2, <2>2, CommitElsewhere
    <2>3. CASE o = call[i].op
      <3>0. status[o] = "running" /\ Settles(Written(i), call[i].close)
        BY <1>2, <1>C, <2>3 DEF Commit, CallInv, InFlight
      <3>1. call[i].close # "running" /\ status'[o] = call[i].close
        BY <1>2, <2>1, <2>3, <3>0 DEF Commit, Closed, TypeOK
      <3>2. row'[o] = Written(i)
        BY <1>2, <2>1, <2>3, CommitWrites DEF TypeOK
      <3> QED BY <3>0, <3>1, <3>2 DEF Settles
    <2> QED BY <2>2, <2>3
  <1>3. CASE SweepCommit
    <2>1. CASE status[o] = "running"
      BY <1>3, <1>C, <2>1, SweepCommits DEF Closed
    <2>2. CASE status[o] # "running"
      BY <1>0, <1>3, <1>C, <2>2, SweepCommits
    <2> QED BY <2>1, <2>2
  <1>4. ASSUME UNCHANGED <<status, row>>
        PROVE  Goal
    BY <1>0, <1>4
  <1>5. ASSUME NEW i \in Instance, NEW report \in Report, NEW p \in Op, Call(i, report, p)
        PROVE  Goal
    BY <1>4, <1>5 DEF Call, records
  <1>6. ASSUME NEW i \in Instance,
               Flush(i) \/ Retry(i) \/ Announce(i) \/ Leave(i) \/ Join(i) \/ Refresh(i) \/ SweepRead(i)
        PROVE  Goal
    BY <1>4, <1>6 DEF Flush, Retry, Announce, Leave, Join, Refresh, SweepRead, records
  <1>7. CASE SweepRetry \/ SweepAnnounce \/ TimePasses \/ UNCHANGED vars
    BY <1>4, <1>7 DEF SweepRetry, SweepAnnounce, TimePasses, vars, records
  <1> QED
    BY <1>1, <1>2, <1>3, <1>5, <1>6, <1>7
    DEF Next, ReportStep, SweepStep, MemberStep

LEMMA AnnounceStep ==
    ASSUME TypeOK, CallInv, SweepInv, AnnounceInv, [Next]_vars
    PROVE  AnnounceInv'
  <1> SUFFICES ASSUME NEW o \in Op, o \notin disturbed'
               PROVE  /\ finished'[o] + Owed(o)' <= 1
                      /\ status'[o] \notin Closed => finished'[o] = 0 /\ Owed(o)' = 0
                      /\ \A i \in Instance : Announces(i, o)' =>
                            /\ status'[o] \in Closed /\ finished'[o] = 0 /\ Owed(o)' = 0
                            /\ \A j \in Instance : Announces(j, o)' => j = i
    BY DEF AnnounceInv, Owed, Announces, Calm
  <1> DEFINE Goal == /\ finished'[o] + Owed(o)' <= 1
                     /\ status'[o] \notin Closed => finished'[o] = 0 /\ Owed(o)' = 0
                     /\ \A i \in Instance : Announces(i, o)' =>
                           /\ status'[o] \in Closed /\ finished'[o] = 0 /\ Owed(o)' = 0
                           /\ \A j \in Instance : Announces(j, o)' => j = i
  <1>C. Calm(o)
    BY CalmBefore
  <1>A. /\ finished[o] \in 0..Many /\ sweep.payloads[o] \in 0..Many /\ Owed(o) \in 0..Many
        /\ finished[o] + Owed(o) <= 1
        /\ status[o] \notin Closed => finished[o] = 0 /\ Owed(o) = 0
        /\ \A i \in Instance : Announces(i, o) =>
              /\ status[o] \in Closed /\ finished[o] = 0 /\ Owed(o) = 0
              /\ \A j \in Instance : Announces(j, o) => j = i
    BY <1>C DEF AnnounceInv, TypeOK, SweepType, Owed, Many
  <1> HIDE DEF Goal
  \* Nothing is announced and nothing new is owed.
  <1>0. ASSUME finished'[o] = finished[o], Owed(o)' = Owed(o) \/ Owed(o)' = 0,
               status'[o] = status[o] \/ (status[o] = "none" /\ status'[o] = "running"),
               \A i \in Instance : Announces(i, o)' => Announces(i, o)
        PROVE  Goal
    BY <1>0, <1>A DEF Goal, Closed
  <1>1. ASSUME NEW i \in Instance, NEW p \in Op, Start(i, p)
        PROVE  Goal
    <2>1. status'[o] = status[o] \/ (status[o] = "none" /\ status'[o] = "running")
      BY <1>1 DEF Start, TypeOK
    <2>2. UNCHANGED <<call, sweep, finished>>
      BY <1>1 DEF Start, ending
    <2> QED BY <1>0, <2>1, <2>2 DEF Owed, Announces
  <1>2. ASSUME NEW i \in Instance, NEW report \in Report, NEW p \in Op, Call(i, report, p)
        PROVE  Goal
    <2>1. \A j \in Instance : Announces(j, o)' => Announces(j, o)
      BY <1>2 DEF Call, Announces, Attached, NoCall, TypeOK
    <2> QED BY <1>0, <1>2, <2>1 DEF Call, records, ending, Owed
  <1>3. ASSUME NEW i \in Instance, Flush(i)
        PROVE  Goal
    <2>1. call'[i].stage = "flushed" /\ \A j \in Instance : j # i => call'[j] = call[j]
      BY <1>3 DEF Flush, TypeOK, CallType
    <2> QED BY <1>0, <1>3, <2>1 DEF Flush, records, ending, Owed, Announces
  <1>4. ASSUME NEW i \in Instance, Commit(i)
        PROVE  Goal
    <2>1. UNCHANGED <<sweep, finished>> /\ Owed(o)' = Owed(o)
      BY <1>4 DEF Commit, Owed
    <2>2. call[i].op \in Op /\ (call[i].op = o => status[o] = "running")
      BY <1>4, <1>C DEF Commit, TypeOK, CallInv, InFlight
    <2>3. CASE o = call[i].op /\ call[i].close # "running"
      <3>1. status[o] \notin Closed
        BY <2>2, <2>3 DEF Closed
      <3>2. status'[o] \in Closed
        BY <1>4, <2>2, <2>3 DEF Commit, TypeOK, CallType
      <3>3. \A j \in Instance : Announces(j, o)' => j = i
        BY <1>4, <1>A, <3>1, CommitElsewhere DEF Announces
      <3> QED BY <1>A, <2>1, <3>1, <3>2, <3>3 DEF Goal
    <2>4. CASE o # call[i].op \/ call[i].close = "running"
      <3>1. \A j \in Instance : Announces(j, o)' => Announces(j, o)
        BY <1>4, <2>4, CommitElsewhere DEF Announces
      <3>2. status'[o] = status[o]
        BY <1>4, <2>4, CommitElsewhere DEF Commit
      <3> QED BY <1>0, <2>1, <3>1, <3>2
    <2> QED BY <2>3, <2>4
  <1>5. ASSUME NEW i \in Instance, Announce(i)
        PROVE  Goal
    <2>1. /\ UNCHANGED <<status, sweep>> /\ Owed(o)' = Owed(o)
          /\ \A j \in Instance : Announces(j, o)' => Announces(j, o) /\ j # i
      BY <1>5 DEF Announce, records, Owed, Announces, NoCall, TypeOK
    <2>2. CASE call[i].op # o
      <3>1. finished'[o] = finished[o]
        BY <1>5, <2>2 DEF Announce, TypeOK
      <3> QED BY <1>0, <2>1, <3>1
    <2>3. CASE call[i].op = o
      <3>1. Announces(i, o)
        BY <1>5, <2>3 DEF Announce, Announces
      <3>2. finished'[o] = 1
        BY <1>5, <1>A, <2>3, <3>1 DEF Announce, Count, Many, TypeOK
      <3> QED BY <1>A, <2>1, <3>1, <3>2 DEF Goal
    <2> QED BY <2>2, <2>3
  <1>6. ASSUME NEW i \in Instance, SweepRead(i)
        PROVE  Goal
    BY <1>0, <1>6 DEF SweepRead, Sweeping, Owed, records, ending, Announces
  <1>7. ASSUME SweepCommit
        PROVE  Goal
    <2>1. UNCHANGED <<call, finished>> /\ sweep.stage = "read" /\ sweep'.stage = "closed"
          /\ sweep'.payloads = sweep.payloads
      BY <1>7 DEF SweepCommit, NoSweep
    <2>2. Owed(o)' = sweep.payloads[o] /\ Owed(o) = 0
      BY <2>1 DEF Owed
    <2>3. CASE sweep.payloads[o] = 0 /\ status'[o] = status[o]
      <3>1. \A i \in Instance : Announces(i, o)' => Announces(i, o)
        BY <2>1 DEF Announces
      <3>2. finished'[o] = finished[o] /\ Owed(o)' = Owed(o)
        BY <2>1, <2>2, <2>3
      <3> QED BY <1>0, <2>3, <3>1, <3>2
    <2>4. CASE sweep.payloads[o] = 1 /\ status[o] = "running" /\ status'[o] \in Closed
      <3>1. status[o] \notin Closed
        BY <2>4 DEF Closed
      <3> QED BY <1>A, <2>1, <2>2, <2>4, <3>1 DEF Goal, Announces
    <2> QED BY <1>7, <1>C, <2>3, <2>4, SweepCommits
  <1>8. ASSUME SweepAnnounce
        PROVE  Goal
    <2>1. UNCHANGED <<call, status>> /\ sweep.stage = "closed" /\ Owed(o)' = 0
      BY <1>8 DEF SweepAnnounce, records, NoSweep, Owed
    <2>2. Owed(o) = sweep.payloads[o]
      BY <2>1 DEF Owed
    <2>3. finished'[o] = finished[o] + Owed(o)
      BY <1>8, <1>A, <2>2 DEF SweepAnnounce, Count, Many
    <2> QED BY <1>A, <2>1, <2>3 DEF Goal, Announces, Many
  <1>9. ASSUME NEW i \in Instance, Leave(i)
        PROVE  Goal
    <2>1. \A j \in Instance : Announces(j, o)' => Announces(j, o)
      BY <1>9 DEF Leave, Announces, NoCall, TypeOK
    <2>2. Owed(o)' = Owed(o) \/ Owed(o)' = 0
      BY <1>9 DEF Leave, Owed, NoSweep
    <2> QED BY <1>0, <1>9, <2>1, <2>2 DEF Leave, records, ending
  <1>10. ASSUME UNCHANGED <<status, call, sweep, finished>>
         PROVE  Goal
    <2>1. \A i \in Instance : Announces(i, o)' => Announces(i, o)
      BY <1>10 DEF Announces
    <2>2. Owed(o)' = Owed(o)
      BY <1>10 DEF Owed
    <2> QED BY <1>0, <1>10, <2>1, <2>2
  <1>11. (\E i \in Instance : Refresh(i) \/ Join(i)) \/ TimePasses \/ UNCHANGED vars
         => UNCHANGED <<status, call, sweep, finished>>
    BY DEF Refresh, Join, TimePasses, vars, records, ending
  <1>12. ASSUME SweepRetry \/ \E i \in Instance : Retry(i)
         PROVE  Goal
    <2>1. \A i \in Instance : Announces(i, o)' => Announces(i, o)
      <3>1. CASE SweepRetry
        BY <3>1 DEF SweepRetry, Announces
      <3>2. ASSUME NEW i \in Instance, Retry(i)
            PROVE  call'[i].stage # "closed" /\ \A j \in Instance : j # i => call'[j] = call[j]
        <4> DEFINE again(p) == [Attached(i, call[i].report, p) EXCEPT !.live = call[i].live]
        <4>1. ASSUME NEW p \in Op PROVE again(p).stage = "found"
          <5>1. Attached(i, call[i].report, p) \in CallType
            BY AttachedType DEF TypeOK, CallType
          <5>2. Attached(i, call[i].report, p).stage = "found"
            BY DEF Attached, NoCall
          <5> QED BY <5>1, <5>2 DEF CallType
        <4>2. (\E p \in Op : call' = [call EXCEPT ![i] = again(p)]) \/ call' = [call EXCEPT ![i] = NoCall]
          BY <3>2 DEF Retry
        <4> HIDE DEF again
        <4> QED BY <4>1, <4>2, NoCallType DEF TypeOK
      <3> QED BY <1>12, <3>1, <3>2 DEF Announces
    <2>2. Owed(o)' = Owed(o) /\ UNCHANGED <<status, finished>>
      BY <1>12 DEF SweepRetry, Retry, Sweeping, Owed, records, ending
    <2> QED BY <1>0, <2>1, <2>2
  <1>13. Goal
    BY <1>1, <1>2, <1>3, <1>4, <1>5, <1>6, <1>7, <1>8, <1>9, <1>10, <1>11, <1>12
    DEF Next, ReportStep, SweepStep, MemberStep
  <1> QED BY <1>13 DEF Goal

LEMMA InvInit == Init => IInv
  <1> SUFFICES ASSUME Init PROVE IInv OBVIOUS
  <1>1. TypeOK BY TypeInit
  <1>2. CallInv BY DEF Init, CallInv, InFlight, NoCall
  <1>3. SweepInv BY DEF Init, SweepInv, NoSweep
  <1>4. AnnounceInv BY DEF Init, AnnounceInv, Announces, Owed, NoCall, NoSweep, Closed
  <1>5. OutcomeIsTrue BY DEF Init, OutcomeIsTrue, Closed
  <1> QED BY <1>1, <1>2, <1>3, <1>4, <1>5 DEF IInv

LEMMA InvStep == IInv /\ [Next]_vars => IInv'
  BY TypeStep, CallStep, SweepsStep, OutcomeStep, AnnounceStep DEF IInv

LEMMA InvAlways == Spec => []IInv
  BY InvInit, InvStep, PTL DEF Spec

\* Whatever happens to the reports of an operation, it is announced as finished
\* once at most, unless its closing was disturbed.
THEOREM AnnouncedOnce == Spec => []FinishedOnce
  <1>1. IInv => FinishedOnce
    <2> SUFFICES ASSUME IInv, NEW o \in Op, Calm(o) PROVE finished[o] <= 1
      BY DEF FinishedOnce, Calm
    <2>1. finished[o] \in 0..Many /\ Owed(o) \in 0..Many
      BY DEF IInv, TypeOK, SweepType, Owed, Many
    <2>2. finished[o] + Owed(o) <= 1
      BY DEF IInv, AnnounceInv
    <2> QED BY <2>1, <2>2 DEF Many
  <1> QED BY <1>1, InvAlways, PTL

\* Whatever happens to the reports of an operation, the outcome stored when it
\* was closed agrees with its rows for good, unless its closing was disturbed.
THEOREM OutcomeAgrees == Spec => []OutcomeIsTrue
  <1>1. IInv => OutcomeIsTrue BY DEF IInv
  <1> QED BY <1>1, InvAlways, PTL

-----------------------------------------------------------------------------
(* Reports to which nothing happens but departures.                        *)

\* A commit leaves the row of any other call in flight as it is.
LEMMA OtherRow ==
    ASSUME TypeOK, MemberInv, NEW i \in Instance, Commit(i),
           NEW j \in Instance, j # i, InFlight(j)
    PROVE  row'[call[j].op][j] = row[call[j].op][j]
  <1>1. call[j].op \in Op /\ call[i].op \in Op
    BY DEF TypeOK, InFlight, Commit
  <1>2. j \notin call[i].gone
    BY DEF MemberInv, InFlight, Commit
  <1> QED BY <1>1, <1>2 DEF Commit, Mark, TypeOK

LEMMA MembersStep ==
    ASSUME TypeOK, Undisturbed, MemberInv, [Next]_vars
    PROVE  MemberInv'
  <1>1. ASSUME NEW i \in Instance, NEW o \in Op, Start(i, o)
        PROVE  MemberInv'
    BY <1>1 DEF MemberInv, Start, members, InFlight
  <1>2. ASSUME NEW i \in Instance, NEW report \in Report, NEW o \in Op, Call(i, report, o)
        PROVE  MemberInv'
    BY <1>2 DEF MemberInv, Call, members, InFlight, Attached, NoCall, TypeOK
  <1>3. ASSUME NEW i \in Instance, Flush(i)
        PROVE  MemberInv'
    <2>1. Gone(Visible(i), call[i].live) \cap call[i].live = {}
      BY GoneIsDead
    <2>2. call'[i].gone = Gone(Visible(i), call[i].live) /\ call'[i].live = call[i].live
      BY <1>3 DEF Flush, TypeOK, CallType
    <2>3. alive \subseteq call[i].live /\ call[i].stage # "none"
      BY <1>3 DEF Flush, MemberInv, InFlight
    <2>4. \A j \in Instance : j # i => call'[j] = call[j]
      BY <1>3 DEF Flush, TypeOK
    <2>5. UNCHANGED <<alive, seen>>
      BY <1>3 DEF Flush, members
    <2> QED BY <2>1, <2>2, <2>3, <2>4, <2>5 DEF MemberInv, InFlight
  <1>4. ASSUME NEW i \in Instance, Commit(i) \/ Announce(i)
        PROVE  MemberInv'
    <2>1. \A j \in Instance : j # i => call'[j] = call[j]
      BY <1>4, CommitElsewhere DEF Announce, TypeOK
    <2>2. call'[i].stage \in {"none", "closed"} /\ call[i].stage # "none"
      <3>1. Announce(i) => call'[i] = NoCall /\ call[i].stage # "none"
        BY DEF Announce, TypeOK
      <3>2. Commit(i) => call[i].stage # "none"
        BY DEF Commit
      <3> QED BY <1>4, <3>1, <3>2, CommitElsewhere, NoCallType
    <2>3. UNCHANGED <<alive, seen>>
      BY <1>4 DEF Commit, Announce, members
    <2> QED BY <2>1, <2>2, <2>3 DEF MemberInv, InFlight
  <1>5. ASSUME NEW i \in Instance, Leave(i)
        PROVE  MemberInv'
    BY <1>5 DEF MemberInv, Leave, InFlight, NoCall, TypeOK
  <1>6. ASSUME NEW i \in Instance, Refresh(i)
        PROVE  MemberInv'
    BY <1>6 DEF MemberInv, Refresh, InFlight, TypeOK
  <1>7. ASSUME UNCHANGED <<members, call>>
        PROVE  MemberInv'
    BY <1>7 DEF MemberInv, InFlight, members
  <1>8. ASSUME NEW i \in Instance, Retry(i) \/ Join(i)
        PROVE  FALSE
    BY <1>8 DEF Retry, Join, Undisturbed
  <1>9. (\E i \in Instance : SweepRead(i)) \/ SweepCommit \/ SweepRetry \/ SweepAnnounce
        \/ TimePasses \/ UNCHANGED vars => UNCHANGED <<members, call>>
    BY DEF SweepRead, SweepCommit, SweepRetry, SweepAnnounce, TimePasses, vars
  <1> QED
    BY <1>1, <1>2, <1>3, <1>4, <1>5, <1>6, <1>7, <1>8, <1>9
    DEF Next, ReportStep, SweepStep, MemberStep

LEMMA PlainStep ==
    ASSUME TypeOK, Undisturbed, MemberInv, PlainInv, [Next]_vars
    PROVE  PlainInv'
  <1> SUFFICES ASSUME NEW j \in Instance, InFlight(j)'
               PROVE  /\ sweep'.stage # "read"
                      /\ status'[call'[j].op] # "none" /\ row'[call'[j].op][j] \in Open
    BY DEF PlainInv
  <1> DEFINE Goal == /\ sweep'.stage # "read"
                     /\ status'[call'[j].op] # "none" /\ row'[call'[j].op][j] \in Open
  \* Whoever else acts: the call of j is what it was.
  <1>0. ASSUME InFlight(j), call'[j].op = call[j].op, sweep' = sweep \/ sweep'.stage # "read",
               status[call[j].op] # "none" => status'[call[j].op] # "none",
               row'[call[j].op][j] = row[call[j].op][j]
        PROVE  Goal
    BY <1>0 DEF PlainInv
  <1>1. ASSUME NEW i \in Instance, NEW o \in Op, Start(i, o)
        PROVE  Goal
    <2>1. call' = call /\ sweep' = sweep /\ InFlight(j)
      BY <1>1 DEF Start, InFlight
    <2>2. call[j].op # o
      BY <1>1, <2>1 DEF Start, PlainInv
    <2>3. row'[call[j].op] = row[call[j].op] /\ status'[call[j].op] = status[call[j].op]
      BY <1>1, <2>2 DEF Start, TypeOK
    <2> QED BY <1>0, <2>1, <2>3
  <1>2. ASSUME NEW i \in Instance, NEW report \in Report, NEW o \in Op, Call(i, report, o)
        PROVE  Goal
    <2>1. UNCHANGED <<status, row, sweep>> /\ sweep.stage = "none"
      BY <1>2 DEF Call, records, Undisturbed
    <2>2. CASE j = i
      <3>1. call'[i] = Attached(i, report, o)
        BY <1>2 DEF Call, TypeOK
      <3>2. call'[i].op = o
        BY <3>1 DEF Attached, NoCall
      <3>3. status[o] = "running" /\ row[o][i] \in Open
        BY <1>2 DEF Call, Match, Running, Open, Undisturbed
      <3> QED BY <2>1, <2>2, <3>2, <3>3
    <2>3. CASE j # i
      <3>1. call'[j] = call[j]
        BY <1>2, <2>3 DEF Call, TypeOK
      <3> QED BY <1>0, <2>1, <3>1 DEF InFlight
    <2> QED BY <2>2, <2>3
  <1>3. ASSUME NEW i \in Instance, Flush(i)
        PROVE  Goal
    <2>1. UNCHANGED <<status, row, sweep>>
      BY <1>3 DEF Flush, records
    <2>2. InFlight(j) /\ call'[j].op = call[j].op
      BY <1>3 DEF Flush, TypeOK, CallType, InFlight
    <2> QED BY <1>0, <2>1, <2>2
  <1>4. ASSUME NEW i \in Instance, Commit(i)
        PROVE  Goal
    <2>1. j # i /\ call'[j] = call[j] /\ sweep' = sweep /\ InFlight(j)
      BY <1>4, CommitElsewhere DEF Commit, InFlight
    <2>2. row'[call[j].op][j] = row[call[j].op][j]
      BY <1>4, <2>1, OtherRow
    <2>3. call[i].op \in Op /\ call[j].op \in Op /\ call[i].close \in Closed \cup {"running"}
      BY <1>4, <2>1 DEF Commit, TypeOK, CallType, InFlight
    <2>4. status[call[j].op] # "none" => status'[call[j].op] # "none"
      BY <1>4, <2>3 DEF Commit, TypeOK, Closed
    <2> QED BY <1>0, <2>1, <2>2, <2>4
  <1>5. ASSUME NEW i \in Instance, Announce(i) \/ Leave(i)
        PROVE  Goal
    <2>1. j # i /\ call'[j] = call[j] /\ InFlight(j)
      BY <1>5 DEF Announce, Leave, TypeOK, InFlight, NoCall
    <2>2. UNCHANGED <<status, row>> /\ (sweep' = sweep \/ sweep'.stage # "read")
      BY <1>5 DEF Announce, Leave, records, NoSweep
    <2> QED BY <1>0, <2>1, <2>2
  <1>6. ASSUME NEW i \in Instance, SweepRead(i)
        PROVE  Goal
    BY <1>6 DEF SweepRead, InFlight, Undisturbed
  <1>7. CASE SweepCommit
    BY <1>7 DEF SweepCommit, PlainInv, InFlight
  <1>8. CASE SweepAnnounce
    <2>1. UNCHANGED <<call, status, row>> /\ sweep'.stage = "none"
      BY <1>8 DEF SweepAnnounce, records, NoSweep
    <2> QED BY <1>0, <2>1 DEF InFlight
  <1>9. ASSUME UNCHANGED <<call, status, row, sweep>>
        PROVE  Goal
    BY <1>0, <1>9 DEF InFlight
  <1>10. ASSUME NEW i \in Instance, Retry(i) \/ Join(i) \/ SweepRetry
         PROVE  FALSE
    BY <1>10 DEF Retry, Join, SweepRetry, Undisturbed
  <1>11. (\E i \in Instance : Refresh(i)) \/ TimePasses \/ UNCHANGED vars
         => UNCHANGED <<call, status, row, sweep>>
    BY DEF Refresh, TimePasses, vars, records
  <1> QED
    BY <1>1, <1>2, <1>3, <1>4, <1>5, <1>6, <1>7, <1>8, <1>9, <1>10, <1>11
    DEF Next, ReportStep, SweepStep, MemberStep

LEMMA NothingStep ==
    ASSUME TypeOK, Undisturbed, MemberInv, PlainInv, CallInv, NothingDisturbs, [Next]_vars
    PROVE  NothingDisturbs'
  <1>1. ASSUME NEW i \in Instance, Commit(i)
        PROVE  NothingDisturbs'
    <2>1. InFlight(i) /\ ~SweepWrites(call[i].op)
      BY <1>1 DEF Commit, InFlight, PlainInv, SweepWrites
    <2>2. ASSUME NEW j \in Instance \ {i}, InFlight(j), call[j].op = call[i].op
          PROVE  Plain(call[i].op, i, j)
      <3>1. row[call[i].op][i] \in Open /\ row[call[i].op][j] \in Open
        BY <2>1, <2>2 DEF PlainInv
      <3>2. i \notin call[j].gone /\ j \notin call[i].gone
        BY <2>1, <2>2 DEF MemberInv, InFlight
      <3> QED BY <3>1, <3>2 DEF Plain
    <2>3. ~CommitDisturbs(i)
      BY <2>1, <2>2 DEF CommitDisturbs
    <2> QED BY <1>1, <2>3 DEF Commit, NothingDisturbs
  <1>2. CASE SweepCommit
    <2>1. \A o \in Op : ~SweepDisturbs(o)
      BY <1>2 DEF SweepCommit, SweepDisturbs, PlainInv
    <2> QED BY <1>2, <2>1 DEF SweepCommit, NothingDisturbs
  <1>3. ~SweepRetry
    BY DEF SweepRetry, Undisturbed
  <1>4. ASSUME UNCHANGED disturbed
        PROVE  NothingDisturbs'
    BY <1>4 DEF NothingDisturbs
  <1>5. ASSUME NEW i \in Instance,
               \/ \E o \in Op : Start(i, o)
               \/ \E report \in Report, o \in Op : Call(i, report, o)
               \/ Flush(i) \/ Retry(i) \/ Announce(i) \/ SweepRead(i)
               \/ Leave(i) \/ Join(i) \/ Refresh(i)
        PROVE  NothingDisturbs'
    BY <1>4, <1>5 DEF Start, Call, Flush, Retry, Announce, SweepRead, Leave, Join, Refresh, ending
  <1>6. CASE SweepAnnounce \/ TimePasses \/ UNCHANGED vars
    BY <1>4, <1>6 DEF SweepAnnounce, TimePasses, vars, ending
  <1> QED
    BY <1>1, <1>2, <1>3, <1>5, <1>6 DEF Next, ReportStep, SweepStep, MemberStep

\* However the reports of the participants overlap, whatever operations run
\* beside one another and whoever leaves: when nothing else happens, no closing
\* is ever disturbed, so the two theorems above hold without exception.
THEOREM OverlapIsHarmless == ASSUME Undisturbed PROVE Spec => []NothingDisturbs
  <1> DEFINE Inv == TypeOK /\ MemberInv /\ PlainInv /\ NothingDisturbs
  <1>1. Init => Inv
    <2> SUFFICES ASSUME Init PROVE MemberInv /\ PlainInv /\ NothingDisturbs
      BY TypeInit
    <2>1. \A i \in Instance : call[i].stage = "none" /\ alive \subseteq seen[i]
      BY DEF Init, NoCall
    <2> QED BY <2>1 DEF MemberInv, PlainInv, NothingDisturbs, InFlight, Init
  <1>2. Inv /\ IInv /\ [Next]_vars => Inv'
    BY TypeStep, MembersStep, PlainStep, NothingStep DEF IInv
  <1> QED BY <1>1, <1>2, InvAlways, PTL DEF Spec
=============================================================================

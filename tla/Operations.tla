----------------------------- MODULE Operations -----------------------------
(***************************************************************************)
(* Cluster-wide plugin operations (plugins/logic/operations.py): the       *)
(* instance that takes an install request opens an operation with a row    *)
(* per live instance, every instance reports into its own row, the last    *)
(* report closes the operation, and the leader's sweep closes one that     *)
(* went quiet.  One plugin; "reverted" counts as "failed".                 *)
(*                                                                         *)
(* report() and sweep_timeouts() are READ COMMITTED transactions: they     *)
(* read what is committed, hold the row they wrote until they commit, and  *)
(* write what they decided from what they had read.                        *)
(***************************************************************************)
EXTENDS Integers, FiniteSets

CONSTANTS
    Instance,   \* instance ids
    Op,         \* ids of operations: the bound on how many are opened
    Idle,       \* DEFAULT_TIMEOUT_S, in ticks
    Hard,       \* HARD_TIMEOUT_S and MATCH_WINDOW_S, in ticks
    Happens     \* what may disturb the reports of an operation

Events == {"leave", "join", "again", "overlap", "deadlock"}

ASSUME ConstantsAssumption ==
    /\ Op \subseteq Nat \ {0}
    /\ Idle \in Nat \ {0}
    /\ Hard \in Nat /\ Hard >= Idle
    /\ Happens \subseteq Events

VARIABLES
    status,   \* plugin_operations.status
    row,      \* plugin_operation_instances.status
    quiet,    \* ticks since the last requested_at or updated_at, up to Idle
    age,      \* ticks since requested_at, up to Hard + 1
    alive,    \* running instances
    seen,     \* instances each instance takes for alive (ClusterService._instances)
    call,     \* the report() under way on each instance
    sweep,    \* the sweep_timeouts() under way on the leader
    finished, \* how many plugin:operation_finished an operation had
    disturbed \* operations whose closing was disturbed (a history: CommitDisturbs)

records == <<status, row, quiet, age>>
members == <<alive, seen>>
ending  == <<finished, disturbed>>
vars    == <<records, members, call, sweep, ending>>

Terminal  == {"done", "failed", "skipped", "gone"}
Open      == {"pending", "installing"}
RowStatus == Terminal \cup Open \cup {"absent"}
Closed    == {"done", "partial", "failed"}
Status    == Closed \cup {"none", "running"}
Report    == {"installing", "done", "failed"}

\* close and result: the status the transaction is going to write, "running"
\* when it writes none.
NoOp    == 0
NoCall  == [stage |-> "none", op |-> NoOp, report |-> "installing", live |-> {},
            gone |-> {}, close |-> "running"]
NoPlan  == [o \in Op |-> [gone |-> {}, skipped |-> {}, close |-> "running"]]
NoSweep == [stage |-> "none", live |-> {}, plan |-> NoPlan, payloads |-> [o \in Op |-> 0]]

\* Announcements are counted up to Many: twice is as wrong as more often.
Many        == 2
Count(n, k) == IF n + k < Many THEN n + k ELSE Many

Running == {o \in Op : status[o] = "running"}

-----------------------------------------------------------------------------
(* What a transaction works out from the rows it read (a function from     *)
(* instances to row statuses).                                             *)

\* _mark_gone: pending participants that are not alive.
Gone(rows, live) == {i \in Instance : rows[i] = "pending" /\ i \notin live}

Mark(rows, S, s) == [i \in Instance |-> IF i \in S THEN s ELSE rows[i]]

\* A wrong variant: the status of a row for that of the operation.
VerdictNamesSkipped(rows) ==
    IF \E i \in Instance : rows[i] = "skipped" THEN "skipped"
    ELSE IF \E i \in Instance : rows[i] = "failed" THEN "failed" ELSE "done"

\* _maybe_close: the status of an operation all of whose rows are settled.
Verdict(rows) ==
    LET some(S) == \E i \in Instance : rows[i] \in S
    IN  IF ~some({"failed", "skipped"}) THEN "done"
        ELSE IF some({"done"}) THEN "partial" ELSE "failed"

CloseIfSettled(rows) ==
    IF \E i \in Instance : rows[i] \in Open THEN "running" ELSE Verdict(rows)

-----------------------------------------------------------------------------
(* What disturbs the closing of an operation, for the history kept of it.  *)
(* A transaction commits while another one on the same operation has not,  *)
(* and one of them closes it.  Two reports do not disturb each other when  *)
(* each is of a participant that had not reported its outcome yet and that *)
(* the other one does not take for dead.                                   *)

InFlight(i) == call[i].stage \in {"found", "flushed"}

Plain(o, i, j) ==
    /\ row[o][i] \in Open /\ row[o][j] \in Open
    /\ i \notin call[j].gone /\ j \notin call[i].gone

Closes(i) == call[i].close # "running"

SweepWrites(o) == sweep.stage = "read" /\ sweep.plan[o] # NoPlan[o]
SweepCloses(o) == sweep.plan[o].close # "running"

CommitDisturbs(i) ==
    LET o == call[i].op IN
    \/ \E j \in Instance \ {i} :
          InFlight(j) /\ call[j].op = o /\ ~Plain(o, i, j) /\ (Closes(i) \/ Closes(j))
    \/ SweepWrites(o) /\ (Closes(i) \/ SweepCloses(o))

SweepDisturbs(o) ==
    /\ SweepWrites(o)
    /\ \E i \in Instance : InFlight(i) /\ call[i].op = o /\ (SweepCloses(o) \/ Closes(i))

-----------------------------------------------------------------------------
(* start(): one transaction; nothing keeps a second one from being opened. *)

Start(i, o) ==
    /\ i \in alive /\ status[o] = "none"
    /\ \A p \in Op : p < o => status[p] # "none"
    /\ status' = [status EXCEPT ![o] = "running"]
    /\ row' = [row EXCEPT ![o] =
           [j \in Instance |-> IF j \in seen[i] \cup {i} THEN "pending" ELSE "absent"]]
    /\ UNCHANGED <<quiet, age, members, call, sweep, ending>>

-----------------------------------------------------------------------------
(* report().                                                               *)

\* The operation a report attaches to: the newest that runs and is not stale.
Match(o) ==
    /\ o \in Running /\ age[o] <= Hard
    /\ \A p \in Running : age[p] <= Hard => p <= o

Attached(i, report, o) ==
    [NoCall EXCEPT !.stage = "found", !.op = o, !.report = report, !.live = seen[i] \cup {i}]

\* The manager reports progress before the work and its outcome after it, or
\* finds that there is nothing to do; the query for the running operations
\* decides which one the report goes to.  Unless "again", an instance reports
\* one outcome per operation; unless "join", only participants report.  A
\* report that fails, or that finds no operation, is a call that is not taken.
Call(i, report, o) ==
    /\ i \in alive /\ call[i].stage = "none"
    /\ "overlap" \in Happens \/ sweep.stage = "none"
    /\ Match(o)
    /\ \/ row[o][i] = "pending"
       \/ row[o][i] = "installing" /\ report # "installing"
       \/ row[o][i] = "absent" /\ "join" \in Happens
       \/ row[o][i] \in Terminal /\ "again" \in Happens
    /\ call' = [call EXCEPT ![i] = Attached(i, report, o)]
    /\ UNCHANGED <<records, members, sweep, ending>>

\* The rows as the transaction of i sees them: what is committed, and its own.
Visible(i) == Mark(row[call[i].op], {i}, call[i].report)

\* A wrong variant: a report closes the operation without the other rows.
FlushAlone(i) ==
    /\ call[i].stage = "found"
    /\ call' = [call EXCEPT ![i] = [@ EXCEPT !.stage = "flushed",
                    !.close = CloseIfSettled([j \in Instance |-> call[i].report])]]
    /\ UNCHANGED <<records, members, sweep, ending>>

\* The flush locks the row of i; then the rows of the operation are read.
Flush(i) ==
    LET gone == Gone(Visible(i), call[i].live) IN
    /\ call[i].stage = "found"
    /\ call' = [call EXCEPT ![i] = [@ EXCEPT !.stage = "flushed", !.gone = gone,
                    !.close = CloseIfSettled(Mark(Visible(i), gone, "gone"))]]
    /\ UNCHANGED <<records, members, sweep, ending>>

\* No other call holds the row of an instance of S between flush and commit.
Unlocked(o, S) == \A j \in S : call[j].stage = "flushed" => call[j].op # o

\* The commit writes the rows that changed, and the status only to close.
Commit(i) ==
    LET o == call[i].op IN
    /\ call[i].stage = "flushed" /\ Unlocked(o, call[i].gone)
    /\ row' = [row EXCEPT ![o] = Mark(Mark(@, {i}, call[i].report), call[i].gone, "gone")]
    /\ quiet' = [quiet EXCEPT ![o] = 0]
    /\ \/ /\ call[i].close = "running"
          /\ call' = [call EXCEPT ![i] = NoCall]
          /\ UNCHANGED status
       \/ /\ call[i].close # "running"
          /\ status' = [status EXCEPT ![o] = call[i].close]
          /\ call' = [call EXCEPT ![i] = [NoCall EXCEPT !.stage = "closed", !.op = o]]
    /\ disturbed' = disturbed \cup {p \in {o} : CommitDisturbs(i)}
    /\ UNCHANGED <<age, members, sweep, finished>>

\* 1020, 1205, 1213: the transaction is rolled back and begins with its query.
Retry(i) ==
    /\ "deadlock" \in Happens
    /\ call[i].stage = "flushed"
    /\ \/ \E o \in Op :
             /\ Match(o)
             /\ call' = [call EXCEPT ![i] =
                   [Attached(i, call[i].report, o) EXCEPT !.live = call[i].live]]
       \/ /\ \A o \in Op : ~Match(o)
          /\ call' = [call EXCEPT ![i] = NoCall]
    /\ UNCHANGED <<records, members, sweep, ending>>

\* _emit_finished, after the commit.
Announce(i) ==
    /\ call[i].stage = "closed"
    /\ finished' = [finished EXCEPT ![call[i].op] = Count(@, 1)]
    /\ call' = [call EXCEPT ![i] = NoCall]
    /\ UNCHANGED <<records, members, sweep, disturbed>>

-----------------------------------------------------------------------------
(* sweep_timeouts(), on the instance that leads.                           *)

\* Marking a row as gone is activity: it puts the idle timeout off.
TimedOut(o, gone) == (quiet[o] >= Idle /\ gone = {}) \/ age[o] >= Hard

\* A wrong variant: what is installing never times out.
PlanSparesProgress(o, live) ==
    LET gone    == Gone(row[o], live)
        skipped == IF TimedOut(o, gone) THEN {i \in Instance : row[o][i] = "pending"} \ gone ELSE {}
    IN  [gone |-> gone, skipped |-> skipped,
         close |-> CloseIfSettled(Mark(Mark(row[o], gone, "gone"), skipped, "skipped"))]

Plan(o, live) ==
    LET gone    == Gone(row[o], live)
        early   == CloseIfSettled(Mark(row[o], gone, "gone"))
        ends    == gone # {} /\ early # "running"
        skipped == IF ends \/ ~TimedOut(o, gone) THEN {}
                   ELSE {i \in Instance : row[o][i] \in Open} \ gone
    IN  [gone |-> gone, skipped |-> skipped,
         close |-> IF ends \/ TimedOut(o, gone)
                   THEN Verdict(Mark(Mark(row[o], gone, "gone"), skipped, "skipped"))
                   ELSE "running"]

\* A wrong variant: closed operations are swept like running ones.
SweepingClosedToo(live, payloads) ==
    LET plan == [o \in Op |-> IF status[o] = "none" THEN NoPlan[o] ELSE Plan(o, live)] IN
    [stage |-> "read", live |-> live, plan |-> plan,
     payloads |-> [o \in Op |->
         IF plan[o].close = "running" THEN payloads[o] ELSE Count(payloads[o], 1)]]

\* One run of the transaction up to its commit.  The payloads of what it is
\* going to close are kept outside of it, on top of those of earlier runs.
Sweeping(live, payloads) ==
    LET plan == [o \in Op |-> IF o \in Running THEN Plan(o, live) ELSE NoPlan[o]] IN
    [stage |-> "read", live |-> live, plan |-> plan,
     payloads |-> [o \in Op |->
         IF plan[o].close = "running" THEN payloads[o] ELSE Count(payloads[o], 1)]]

SweepRead(i) ==
    /\ i \in alive /\ sweep.stage = "none"
    /\ "overlap" \in Happens \/ \A j \in Instance : call[j].stage \notin {"found", "flushed"}
    /\ sweep' = Sweeping(seen[i] \cup {i}, NoSweep.payloads)
    /\ UNCHANGED <<records, members, call, ending>>

\* The retry does not forget the payloads of the attempt that was rolled back.
SweepRetry ==
    /\ "deadlock" \in Happens
    /\ sweep.stage = "read"
    /\ sweep' = Sweeping(sweep.live, sweep.payloads)
    /\ disturbed' = disturbed \cup {o \in Op : sweep.payloads[o] > 0}
    /\ UNCHANGED <<records, members, call, finished>>

SweepCommit ==
    LET gone(o)    == sweep.plan[o].gone
        skipped(o) == sweep.plan[o].skipped
    IN
    /\ sweep.stage = "read"
    /\ \A o \in Op : Unlocked(o, gone(o) \cup skipped(o))
    /\ row' = [o \in Op |-> Mark(Mark(row[o], gone(o), "gone"), skipped(o), "skipped")]
    /\ quiet' = [o \in Op |-> IF gone(o) \cup skipped(o) = {} THEN quiet[o] ELSE 0]
    /\ status' = [o \in Op |->
          IF sweep.plan[o].close = "running" THEN status[o] ELSE sweep.plan[o].close]
    /\ sweep' = [NoSweep EXCEPT !.stage = "closed", !.payloads = sweep.payloads]
    /\ disturbed' = disturbed \cup {o \in Op : SweepDisturbs(o)}
    /\ UNCHANGED <<age, members, call, finished>>

SweepAnnounce ==
    /\ sweep.stage = "closed"
    /\ finished' = [o \in Op |-> Count(finished[o], sweep.payloads[o])]
    /\ sweep' = NoSweep
    /\ UNCHANGED <<records, members, call, disturbed>>

-----------------------------------------------------------------------------
(* Instances and time.                                                     *)

\* An instance goes, with whatever it was doing; the sweep may be its own.
Leave(i) ==
    /\ "leave" \in Happens /\ i \in alive
    /\ alive' = alive \ {i}
    /\ call' = [call EXCEPT ![i] = NoCall]
    /\ sweep' \in {sweep, NoSweep}
    /\ UNCHANGED <<records, seen, ending>>

Join(i) ==
    /\ "join" \in Happens /\ i \notin alive
    /\ alive' = alive \cup {i}
    /\ seen' = [seen EXCEPT ![i] = alive']
    /\ UNCHANGED <<records, call, sweep, ending>>

\* The members an instance knows of are as old as its last heartbeat.
Refresh(i) ==
    /\ i \in alive /\ seen[i] # alive
    /\ seen' = [seen EXCEPT ![i] = alive]
    /\ UNCHANGED <<records, alive, call, sweep, ending>>

TimePasses ==
    /\ quiet' = [o \in Op |-> IF o \in Running /\ quiet[o] < Idle THEN quiet[o] + 1 ELSE quiet[o]]
    /\ age' = [o \in Op |-> IF o \in Running /\ age[o] <= Hard THEN age[o] + 1 ELSE age[o]]
    /\ UNCHANGED <<status, row, members, call, sweep, ending>>

-----------------------------------------------------------------------------
Init ==
    /\ status = [o \in Op |-> "none"]
    /\ row = [o \in Op |-> [i \in Instance |-> "absent"]]
    /\ quiet = [o \in Op |-> 0]
    /\ age = [o \in Op |-> 0]
    /\ alive = Instance
    /\ seen = [i \in Instance |-> Instance]
    /\ call = [i \in Instance |-> NoCall]
    /\ sweep = NoSweep
    /\ finished = [o \in Op |-> 0]
    /\ disturbed = {}

ReportStep(i) ==
    \/ \E report \in Report, o \in Op : Call(i, report, o)
    \/ Flush(i) \/ Commit(i) \/ Retry(i) \/ Announce(i)

SweepStep ==
    \/ \E i \in Instance : SweepRead(i)
    \/ SweepCommit \/ SweepRetry \/ SweepAnnounce

MemberStep(i) == Leave(i) \/ Join(i) \/ Refresh(i)

Next ==
    \/ \E i \in Instance, o \in Op : Start(i, o)
    \/ \E i \in Instance : ReportStep(i) \/ MemberStep(i)
    \/ SweepStep
    \/ TimePasses

Spec == Init /\ [][Next]_vars

(* A call under way ends.  The leader sweeps every minute, and instances    *)
(* that come and go or transactions that are rolled back do not undo every *)
(* sweep there is.  Crashed instances are restarted.                       *)
Fairness ==
    /\ WF_vars(TimePasses)
    /\ SF_vars(\E i \in Instance : SweepRead(i)) /\ SF_vars(SweepCommit) /\ WF_vars(SweepAnnounce)
    /\ \A i \in Instance :
          /\ WF_vars(Flush(i)) /\ WF_vars(Commit(i)) /\ WF_vars(Announce(i))
          /\ WF_vars(Refresh(i)) /\ WF_vars(Join(i))

FairSpec == Spec /\ Fairness

-----------------------------------------------------------------------------
(* Properties.                                                             *)

PlanType == [gone : SUBSET Instance, skipped : SUBSET Instance, close : Closed \cup {"running"}]

CallType ==
    [stage : {"none", "found", "flushed", "closed"}, op : Op \cup {NoOp}, report : Report,
     live : SUBSET Instance, gone : SUBSET Instance, close : Closed \cup {"running"}]

SweepType ==
    [stage : {"none", "read", "closed"}, live : SUBSET Instance,
     plan : [Op -> PlanType], payloads : [Op -> 0..Many]]

TypeOK ==
    /\ status \in [Op -> Status]
    /\ row \in [Op -> [Instance -> RowStatus]]
    /\ quiet \in [Op -> 0..Idle]
    /\ age \in [Op -> 0..(Hard + 1)]
    /\ alive \in SUBSET Instance
    /\ seen \in [Instance -> SUBSET Instance]
    /\ call \in [Instance -> CallType]
    /\ \A i \in Instance : call[i].stage # "none" => call[i].op \in Op
    /\ sweep \in SweepType
    /\ finished \in [Op -> 0..Many]
    /\ disturbed \in SUBSET Op

\* However many reports overlap, are repeated, rolled back or come from instances
\* that joined, and whoever sweeps beside them: an operation is announced as
\* finished once at most.  Not so, in the code, where its closing was disturbed:
\* by the report of an instance that had reported its outcome, was no participant
\* or was taken for dead, by the sweep and a report that overlap, or by a sweep
\* that was rolled back with the announcement in its list.
FinishedOnce == \A o \in Op : finished[o] <= 1 \/ o \in disturbed

\* The outcome the operator is shown agrees with the rows of the operation,
\* from the commit that closes it on: none is left open, and nothing that was
\* in flight changes a row behind it, unless its closing was disturbed.
OutcomeIsTrue ==
    \A o \in Op : status[o] \in Closed /\ o \notin disturbed =>
        /\ \A i \in Instance : row[o][i] \notin Open
        /\ status[o] = Verdict(row[o])

\* An operation does not run for ever, whatever its participants do: crash,
\* come back, report again and again, or never.
EveryOperationEnds == \A o \in Op : (status[o] = "running") ~> (status[o] \in Closed)

-----------------------------------------------------------------------------
(* The inductive invariant behind FinishedOnce and OutcomeIsTrue.  What a  *)
(* transaction is going to write stays right for the rows of an operation  *)
(* whose closing nothing disturbs: a report in flight keeps the row of its *)
(* instance open, so of two plain ones neither sees the other's row as     *)
(* settled, and none is about to close while another one is in flight.     *)

Calm(o) == o \notin disturbed

Announces(i, o) == call[i].stage = "closed" /\ call[i].op = o
Owed(o) == IF sweep.stage = "closed" THEN sweep.payloads[o] ELSE 0

\* Closing with this verdict is right for these rows.
Settles(rows, close) ==
    close # "running" => (\A i \in Instance : rows[i] \notin Open) /\ close = Verdict(rows)

Written(i) == Mark(Visible(i), call[i].gone, "gone")

Swept(o) == Mark(Mark(row[o], sweep.plan[o].gone, "gone"), sweep.plan[o].skipped, "skipped")

CallInv ==
    \A i \in Instance : InFlight(i) /\ Calm(call[i].op) =>
        status[call[i].op] = "running" /\ Settles(Written(i), call[i].close)

SweepInv ==
    sweep.stage = "read" => \A o \in Op : Calm(o) =>
        /\ status[o] # "running" => sweep.plan[o] = NoPlan[o]
        /\ Settles(Swept(o), sweep.plan[o].close)
        /\ sweep.payloads[o] = IF sweep.plan[o].close = "running" THEN 0 ELSE 1

AnnounceInv ==
    \A o \in Op : Calm(o) =>
        /\ finished[o] + Owed(o) <= 1
        /\ status[o] \notin Closed => finished[o] = 0 /\ Owed(o) = 0
        /\ \A i \in Instance : Announces(i, o) =>
              /\ status[o] \in Closed /\ finished[o] = 0 /\ Owed(o) = 0
              /\ \A j \in Instance : Announces(j, o) => j = i

IInv == TypeOK /\ CallInv /\ SweepInv /\ AnnounceInv /\ OutcomeIsTrue

(* When nothing but departures happens to the participants, nothing        *)
(* disturbs a closing, however their reports overlap: who is thought dead  *)
(* is dead, and a call in flight is of a participant whose row is open.    *)
Undisturbed == Happens \subseteq {"leave"}

MemberInv ==
    \A i \in Instance :
        /\ alive \subseteq seen[i]
        /\ call[i].stage # "none" => i \in alive
        /\ InFlight(i) => alive \subseteq call[i].live /\ call[i].gone \cap alive = {}

PlainInv ==
    \A i \in Instance : InFlight(i) =>
        /\ sweep.stage # "read"
        /\ status[call[i].op] # "none" /\ row[call[i].op][i] \in Open

NothingDisturbs == disturbed = {}

-----------------------------------------------------------------------------
(* What the documentation promises and the code does not keep.             *)

\* "the last report closes the operation": when every participant has
\* reported and no report is under way, the operation is closed.
LastReportCloses ==
    \A o \in Op :
        /\ status[o] = "running"
        /\ \A i \in Instance : call[i].stage = "none" /\ row[o][i] \notin Open
        => FALSE
=============================================================================

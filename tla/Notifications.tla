---------------------------- MODULE Notifications ----------------------------
(***************************************************************************)
(* The notification store: every instance has the bell's entries and what  *)
(* a user has read and dismissed in memory, in front of the tables that    *)
(* the instances share.                                                    *)
(*                                                                         *)
(* A change is made in memory and queued as an operation on the tables.    *)
(* On the event loop it asks for a task that sleeps, takes the queue and   *)
(* has a thread write it; a request of the API runs in a thread of its own *)
(* and takes and writes the queue itself.  Reading the bell replaces the   *)
(* memory by what the tables hold.                                         *)
(***************************************************************************)
EXTENDS Integers, Sequences, FiniteSets, Functions

CONSTANTS
    Bell,       \* instances, with the bell of one user
    Note,       \* ids of notifications
    Restricted, \* those with a required_permission
    Limit,      \* _HISTORY_LIMIT
    Changes     \* bound on the changes made

ASSUME BellAssumption ==
    /\ IsFiniteSet(Note) /\ Restricted \subseteq Note
    /\ Limit \in Nat \ {0} /\ Changes \in Nat

VARIABLES
    tables,  \* notifications and notification_user_states
    bell,    \* history, _read_by_user and _dismissed_by_user of an instance
    shared,  \* NotificationService._db_enabled
    queued,  \* _db_pending
    flush,   \* what a flush took: the save task's, and that of a request
    dirty,   \* _dirty
    saver,   \* _save_task: "none", it "sleeps", or its thread "writes"
    asked,   \* the request under way: "none", "changed", "writes", "wrote"
    changes, \* changes made so far; each has its number and its time
    done     \* history: the operations that were queued, written, lost

memory   == <<bell, shared, queued>>
saving   == <<flush, dirty, saver, asked>>
bellVars == <<tables, memory, saving, changes, done>>

Flusher == {"task", "request"}

Empty == [rows |-> [n \in Note |-> 0], read |-> {}, dismissed |-> {}]

BellInit ==
    /\ tables = Empty /\ bell = [i \in Bell |-> Empty] /\ shared = [i \in Bell |-> FALSE]
    /\ queued = [i \in Bell |-> <<>>] /\ flush = [i \in Bell |-> [by \in Flusher |-> <<>>]]
    /\ dirty = [i \in Bell |-> FALSE] /\ saver = [i \in Bell |-> "none"]
    /\ asked = [i \in Bell |-> "none"]
    /\ changes = 0 /\ done = [queued |-> {}, written |-> {}, lost |-> {}]

-----------------------------------------------------------------------------
(* What a change does.                                                     *)

\* The newest entries, by their time.
Newest(rows) ==
    [n \in Note |-> IF Cardinality({m \in Note : rows[m] > rows[n]}) < Limit THEN rows[n] ELSE 0]

Unread(b, n) == [b EXCEPT !.read = @ \ {n}]

\* _db_upsert(): rows beyond the limit go with what users did to them.
Upserted(b, n, time) ==
    LET rows == Newest([b.rows EXCEPT ![n] = time])
        gone == {m \in Note : rows[m] = 0 /\ (b.rows[m] # 0 \/ m = n)}
        c    == Unread(b, n)
    IN  [rows |-> rows, read |-> c.read \ gone, dismissed |-> c.dismissed \ gone]

Deleted(b, n) ==
    [rows |-> [b.rows EXCEPT ![n] = 0], read |-> b.read \ {n}, dismissed |-> b.dismissed \ {n}]

\* An operation on the tables; a user's state needs no notification.
Applied(b, op) ==
    CASE op.kind = "upsert"  -> Upserted(b, op.note, op.change)
      [] op.kind = "delete"  -> Deleted(b, op.note)
      [] op.kind = "read"    -> [b EXCEPT !.read = @ \cup {op.note}]
      [] op.kind = "dismiss" -> [b EXCEPT !.dismissed = @ \cup {op.note}]
      [] op.kind = "clear"   -> [b EXCEPT !.dismissed = @ \cup op.notes]

\* persist() in memory: only an entry it finds becomes unread.
Persisted(b, n, time) ==
    LET rows == Newest([b.rows EXCEPT ![n] = time])
    IN  [IF b.rows[n] # 0 THEN Unread(b, n) ELSE b EXCEPT !.rows = rows]

\* clear_for_user() asks for no permission and finds no restricted entry.
Clearable(b) == {n \in Note : b.rows[n] # 0} \ (b.dismissed \cup Restricted)

\* What a change leaves in memory and queues for the tables.
Change(i, b, op) ==
    /\ changes < Changes
    /\ changes' = changes + 1
    /\ bell' = [bell EXCEPT ![i] = b]
    /\ queued' = IF shared[i] THEN [queued EXCEPT ![i] = Append(@, op)] ELSE queued
    /\ done' = IF shared[i] THEN [done EXCEPT !.queued = @ \cup {op.change}] ELSE done
    /\ UNCHANGED <<tables, shared, flush>>

\* _request_save() on the loop: one task at a time, also while its thread writes.
SavesLater(i) ==
    /\ dirty' = [dirty EXCEPT ![i] = shared[i]]
    /\ saver' = [saver EXCEPT ![i] = IF @ = "none" /\ shared[i] THEN "sleeps" ELSE @]
    /\ UNCHANGED asked

\* In a thread there is no loop: the request flushes itself.
SavesItself(i) ==
    /\ asked[i] = "none"
    /\ dirty' = [dirty EXCEPT ![i] = shared[i]]
    /\ asked' = [asked EXCEPT ![i] = IF shared[i] THEN "changed" ELSE @]
    /\ UNCHANGED saver

Notify(i, n) ==
    /\ Change(i, Persisted(bell[i], n, changes + 1), [kind |-> "upsert", note |-> n, change |-> changes + 1])
    /\ SavesLater(i)

RemoveNote(i, n) ==
    /\ Change(i, Deleted(bell[i], n), [kind |-> "delete", note |-> n, change |-> changes + 1])
    /\ SavesLater(i)

\* A click on the page runs on the loop, a request of the API in a thread.
UserDoes(i, n, kind) ==
    LET op == [kind |-> kind, note |-> n, change |-> changes + 1]
    IN  /\ bell[i].rows[n] # 0
        /\ Change(i, Applied(bell[i], op), op)
        /\ SavesLater(i) \/ SavesItself(i)

UserClears(i) ==
    LET op == [kind |-> "clear", notes |-> Clearable(bell[i]), change |-> changes + 1]
    IN  /\ op.notes # {}
        /\ Change(i, Applied(bell[i], op), op)
        /\ SavesLater(i) \/ SavesItself(i)
-----------------------------------------------------------------------------
(* Flushing.                                                               *)

\* Wrong: the queue is emptied when it was written.
TakenLater(i) == queued[i]

\* _db_flush() swaps the queue for an empty one under the lock.
LeftQueued(i) == <<>>

\* _debounced_flush() after its sleep.
SaverWakes(i) ==
    /\ saver[i] = "sleeps"
    /\ IF dirty[i] /\ queued[i] # <<>>
       THEN /\ flush' = [flush EXCEPT ![i]["task"] = queued[i]]
            /\ queued' = [queued EXCEPT ![i] = LeftQueued(i)]
            /\ saver' = [saver EXCEPT ![i] = "writes"]
       ELSE /\ saver' = [saver EXCEPT ![i] = "none"]
            /\ UNCHANGED <<flush, queued>>
    /\ dirty' = [dirty EXCEPT ![i] = FALSE]
    /\ UNCHANGED <<tables, bell, shared, asked, changes, done>>

RequestTakes(i) ==
    /\ asked[i] = "changed"
    /\ IF queued[i] # <<>>
       THEN /\ flush' = [flush EXCEPT ![i]["request"] = queued[i]]
            /\ queued' = [queued EXCEPT ![i] = LeftQueued(i)]
            /\ asked' = [asked EXCEPT ![i] = "writes"]
       ELSE /\ asked' = [asked EXCEPT ![i] = "wrote"]
            /\ UNCHANGED <<flush, queued>>
    /\ UNCHANGED <<tables, bell, shared, dirty, saver, changes, done>>

\* The tables after each operation of a transaction.
Stages(t, ops) ==
    LET after[k \in 0..Len(ops)] == IF k = 0 THEN t ELSE Applied(after[k - 1], ops[k])
    IN  after

Ids(ops) == {op.change : op \in Range(ops)}

\* A flush is one transaction; one that fails loses what it took.
Writes(i, by, ok) ==
    LET ops == flush[i][by]
    IN  /\ ops # <<>>
        /\ tables' = IF ok THEN Stages(tables, ops)[Len(ops)] ELSE tables
        /\ done' = IF ok THEN [done EXCEPT !.written = @ \cup Ids(ops)]
                   ELSE [done EXCEPT !.lost = @ \cup Ids(ops)]
        /\ flush' = [flush EXCEPT ![i][by] = <<>>]
        /\ saver' = IF by = "task" THEN [saver EXCEPT ![i] = "none"] ELSE saver
        /\ asked' = IF by = "request" THEN [asked EXCEPT ![i] = "wrote"] ELSE asked
        /\ UNCHANGED <<memory, dirty, changes>>

RequestEnds(i) ==
    /\ asked[i] = "wrote"
    /\ dirty' = [dirty EXCEPT ![i] = FALSE]
    /\ asked' = [asked EXCEPT ![i] = "none"]
    /\ UNCHANGED <<tables, memory, flush, saver, changes, done>>
-----------------------------------------------------------------------------
(* Reading.                                                                *)

\* refresh_from_db(): what the memory has is replaced, also what was not
\* written yet; the throttle only makes it rarer.
RefreshBell(i) ==
    /\ shared[i] /\ bell[i] # [tables EXCEPT !.rows = Newest(tables.rows)]
    /\ bell' = [bell EXCEPT ![i] = [tables EXCEPT !.rows = Newest(tables.rows)]]
    /\ UNCHANGED <<tables, shared, queued, saving, changes, done>>

\* enable_db(): under the bootstrap lock the first instance with a history
\* imports it, the others drop theirs.  What a user did to an entry there replaces
\* what the tables say of the user and the entry.
Imported(b) ==
    [rows      |-> b.rows,
     read      |-> (tables.read \ b.dismissed) \cup b.read,
     dismissed |-> (tables.dismissed \ b.read) \cup b.dismissed]

Imports(b) == (\A n \in Note : tables.rows[n] = 0) /\ \E n \in Note : b.rows[n] # 0

\* The refresh that ends it may fail; the store is the shared one all the same.
EnableDb(i, refreshed) ==
    /\ ~shared[i]
    /\ shared' = [shared EXCEPT ![i] = TRUE]
    /\ tables' = IF Imports(bell[i]) THEN Imported(bell[i]) ELSE tables
    /\ bell' = IF refreshed THEN [bell EXCEPT ![i] = [tables' EXCEPT !.rows = Newest(tables'.rows)]] ELSE bell
    /\ UNCHANGED <<queued, saving, changes, done>>

BellNext ==
    \E i \in Bell :
        \/ SaverWakes(i) \/ RequestTakes(i) \/ RequestEnds(i)
        \/ UserClears(i) \/ RefreshBell(i)
        \/ \E refreshed \in BOOLEAN : EnableDb(i, refreshed)
        \/ \E n \in Note : Notify(i, n) \/ RemoveNote(i, n)
        \/ \E n \in Note, kind \in {"read", "dismiss"} : UserDoes(i, n, kind)
        \/ \E by \in Flusher, ok \in BOOLEAN : Writes(i, by, ok)

BellSpec == BellInit /\ [][BellNext]_bellVars
-----------------------------------------------------------------------------
Table == [rows : [Note -> Nat], read : SUBSET Note, dismissed : SUBSET Note]
Operation ==
    [kind : {"upsert", "delete", "read", "dismiss"}, note : Note, change : Nat]
        \cup [kind : {"clear"}, notes : SUBSET Note, change : Nat]

BellTypeOK ==
    /\ tables \in Table /\ bell \in [Bell -> Table] /\ shared \in [Bell -> BOOLEAN]
    /\ queued \in [Bell -> Seq(Operation)]
    /\ flush \in [Bell -> [Flusher -> Seq(Operation)]]
    /\ dirty \in [Bell -> BOOLEAN] /\ saver \in [Bell -> {"none", "sleeps", "writes"}]
    /\ asked \in [Bell -> {"none", "changed", "writes", "wrote"}]
    /\ changes \in Nat
    /\ done \in [queued : SUBSET Nat, written : SUBSET Nat, lost : SUBSET Nat]

\* Every change queued for the tables is waiting, being written, written or
\* counted with a flush that failed, and is in one of these places only,
\* whichever of the task and a request flushes while the other appends.
ChangesAccountedFor ==
    LET waiting == UNION {Ids(queued[i]) : i \in Bell}
        writing == UNION {Ids(flush[i][by]) : i \in Bell, by \in Flusher}
    IN  /\ done.queued = waiting \cup writing \cup done.written \cup done.lost
        /\ waiting \cap (writing \cup done.written \cup done.lost) = {}
        /\ writing \cap (done.written \cup done.lost) = {}
        /\ done.written \cap done.lost = {}

\* What a user dismissed in the tables comes back, for any instance, only with a
\* transaction that removed the notification, wrote another that pushes it out,
\* or wrote a version of it that is older than all the tables keep, which removes
\* it just as well; a new version of it does not bring it back.  An instance that
\* gets the database while the tables have no entry left forgets the dismissal of
\* an entry that the user read, and did not dismiss, there.
DismissalStands ==
    \A n \in tables.dismissed \ tables'.dismissed :
        \/ \E i \in Bell, by \in Flusher : \E op \in Range(flush[i][by]) :
            /\ flush'[i][by] = <<>>
            /\ \/ op.kind = "delete" /\ op.note = n
               \/ op.kind = "upsert" /\ op.note # n
               \/ /\ op.kind = "upsert"
                  /\ Cardinality({m \in Note \ {n} : tables.rows[m] > op.change}) >= Limit
        \/ \E i \in Bell :
            /\ ~shared[i] /\ shared'[i] /\ Imports(bell[i])
            /\ n \in bell[i].read \ bell[i].dismissed

\* What the bell was told stays told, by whichever flush it is written.
BellRemembers == [][ChangesAccountedFor' /\ DismissalStands]_bellVars
=============================================================================

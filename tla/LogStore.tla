------------------------------ MODULE LogStore ------------------------------
(***************************************************************************)
(* Log lines on their way to the table cluster_logs: the bounded buffer of *)
(* the handler, the shipper that drains it every two seconds, its stop,    *)
(* and the prune of the leader, by age and by number.                      *)
(*                                                                         *)
(* Lines of one instance are followed by number; those of a peer are only  *)
(* rows between them.  A batch is inserted by a thread: when stop()        *)
(* cancels the shipper the thread goes on and nobody waits for it.         *)
(***************************************************************************)
EXTENDS Integers, Sequences, FiniteSets

CONSTANTS
    Lines,     \* bound on the lines of this instance
    PeerLines, \* bound on the rows of the peer
    Buffer,    \* maxlen of the handler's deque
    Batch,     \* lines that one flush drains at most
    Keep       \* max_per_instance

ASSUME LogAssumption == {Lines, PeerLines, Batch, Keep} \subseteq Nat /\ Buffer \in Nat \ {0}

VARIABLES
    emitted,  \* lines emitted so far
    buffer,   \* ClusterLogHandler._buf
    batch,    \* being inserted: by the shipper, by stop(), by the thread of a
              \* shipper that was cancelled
    logs,     \* cluster_logs in the order of ids; 0 is a row of the peer
    pruned,   \* rows deleted, by index in logs
    count,    \* LogStore.shipped, LogStore.dropped, the handler's dropped
    shipper,  \* the task: "runs", or after stop() "stopping" and "stopped"
    prune,    \* what prune() is about to delete: aged rows, and for every
              \* instance those up to an index
    logAge    \* how far the retention has passed: lines of this instance by
              \* number, rows of the peer by index

logVars == <<emitted, buffer, batch, logs, pruned, count, shipper, prune, logAge>>

By == {"shipper", "stop", "orphan"}

NoPrune == [aged |-> {}, mine |-> 0, peer |-> 0]

LogInit ==
    /\ emitted = 0 /\ buffer = <<>>
    /\ batch = [b \in By |-> <<>>]
    /\ logs = <<>> /\ pruned = {}
    /\ count = [shipped |-> 0, dropped |-> 0, overflow |-> 0]
    /\ shipper = "runs"
    /\ prune = NoPrune /\ logAge = [mine |-> 0, peer |-> 0]

\* A full deque loses its oldest line.
Emit ==
    /\ emitted < Lines
    /\ emitted' = emitted + 1
    /\ buffer' = Append(IF Len(buffer) = Buffer THEN Tail(buffer) ELSE buffer, emitted + 1)
    /\ count' = IF Len(buffer) = Buffer THEN [count EXCEPT !.overflow = @ + 1] ELSE count
    /\ UNCHANGED <<batch, logs, pruned, shipper, prune, logAge>>

\* Wrong: the lines stay in the buffer until they are stored.
NotTaken(n) == [items |-> SubSeq(buffer, 1, n), rest |-> buffer]

\* drain()
Drained(n) == [items |-> SubSeq(buffer, 1, n), rest |-> SubSeq(buffer, n + 1, Len(buffer))]

\* flush() until its thread runs; without a database the lines are dropped.
Flushes(by, connected) ==
    /\ shipper = IF by = "stop" THEN "stopping" ELSE "runs"
    /\ batch[by] = <<>> /\ buffer # <<>>
    /\ LET n == IF Len(buffer) < Batch THEN Len(buffer) ELSE Batch
       IN  /\ buffer' = Drained(n).rest
           /\ IF connected THEN batch' = [batch EXCEPT ![by] = Drained(n).items] /\ UNCHANGED count
              ELSE count' = [count EXCEPT !.dropped = @ + n] /\ UNCHANGED batch
    /\ shipper' = IF by = "stop" /\ ~connected THEN "stopped" ELSE shipper
    /\ UNCHANGED <<emitted, logs, pruned, prune, logAge>>

\* The transaction of a thread ends: it commits, or not, or commits and its
\* answer is lost.  What a cancelled shipper's does is counted by nobody.
InsertEnds(by, commits, answers) ==
    /\ batch[by] # <<>> /\ (answers => commits)
    /\ logs' = IF commits THEN logs \o batch[by] ELSE logs
    /\ count' = IF by = "orphan" THEN count
                ELSE IF answers THEN [count EXCEPT !.shipped = @ + Len(batch[by])]
                ELSE [count EXCEPT !.dropped = @ + Len(batch[by])]
    /\ batch' = [batch EXCEPT ![by] = <<>>]
    /\ shipper' = IF by = "stop" THEN "stopped" ELSE shipper
    /\ UNCHANGED <<emitted, buffer, pruned, prune, logAge>>

\* stop() cancels the shipper and flushes once more.
Stop ==
    /\ shipper = "runs"
    /\ shipper' = IF buffer = <<>> THEN "stopped" ELSE "stopping"
    /\ batch' = [batch EXCEPT !["shipper"] = <<>>, !["orphan"] = batch["shipper"]]
    /\ UNCHANGED <<emitted, buffer, logs, pruned, count, prune, logAge>>

\* What was ever inserted of this instance or of the peer.
Written(mine) == {k \in DOMAIN logs : (logs[k] # 0) = mine}

PeerInserts ==
    /\ Cardinality(Written(FALSE)) < PeerLines
    /\ logs' = Append(logs, 0)
    /\ UNCHANGED <<emitted, buffer, batch, pruned, count, shipper, prune, logAge>>

\* Rows of an instance in the table.
Rows(mine) == Written(mine) \ pruned

\* Lines are stamped when they are emitted, and pass the retention in order.
LinesAge ==
    /\ \/ logAge.mine < emitted /\ logAge' = [logAge EXCEPT !.mine = @ + 1]
       \/ logAge.peer < Len(logs) /\ logAge' = [logAge EXCEPT !.peer = @ + 1]
    /\ UNCHANGED <<emitted, buffer, batch, logs, pruned, count, shipper, prune>>

\* Older than the retention.
IsAged(k) == IF logs[k] # 0 THEN logs[k] <= logAge.mine ELSE k <= logAge.peer

Aged == {k \in DOMAIN logs \ pruned : IsAged(k)}

\* Of what the deletion by age leaves, prune() reads the newest id that goes,
\* for every instance.
Threshold(mine) ==
    LET left == Rows(mine) \ Aged
        over == {k \in left : Cardinality({l \in left : l > k}) >= Keep}
    IN  IF over = {} THEN 0 ELSE CHOOSE k \in over : \A l \in over : l <= k

PruneReads ==
    /\ prune = NoPrune
    /\ prune' = [aged |-> Aged, mine |-> Threshold(TRUE), peer |-> Threshold(FALSE)]
    /\ prune' # NoPrune
    /\ UNCHANGED <<emitted, buffer, batch, logs, pruned, count, shipper, logAge>>

\* What its transaction deletes; one that fails deletes nothing.
PruneDeletes(commits) ==
    /\ prune # NoPrune
    /\ pruned' = IF ~commits THEN pruned
                 ELSE pruned \cup prune.aged \cup {k \in Rows(TRUE) : k <= prune.mine}
                                             \cup {k \in Rows(FALSE) : k <= prune.peer}
    /\ prune' = NoPrune
    /\ UNCHANGED <<emitted, buffer, batch, logs, count, shipper, logAge>>

LogNext ==
    \/ Emit \/ Stop \/ PeerInserts \/ LinesAge \/ PruneReads
    \/ \E commits \in BOOLEAN : PruneDeletes(commits)
    \/ \E by \in {"shipper", "stop"}, connected \in BOOLEAN : Flushes(by, connected)
    \/ \E by \in By, commits, answers \in BOOLEAN : InsertEnds(by, commits, answers)

LogSpec == LogInit /\ [][LogNext]_logVars

-----------------------------------------------------------------------------
(* Properties.                                                             *)

\* Types.  Buffer and batches never hold more than they may.
LogTypeOK ==
    /\ emitted \in 0..Lines
    /\ buffer \in Seq(1..Lines) /\ Len(buffer) <= Buffer
    /\ batch \in [By -> Seq(1..Lines)] /\ \A by \in By : Len(batch[by]) <= Batch
    /\ logs \in Seq(0..Lines) /\ pruned \subseteq DOMAIN logs
    /\ count \in [shipped : Nat, dropped : Nat, overflow : Nat]
    /\ shipper \in {"runs", "stopping", "stopped"}
    /\ prune \in [aged : SUBSET DOMAIN logs, mine : Nat, peer : Nat]
    /\ logAge \in [mine : Nat, peer : Nat]

Counted  == count.shipped + count.dropped + count.overflow
OnTheWay == Len(buffer) + Len(batch["shipper"]) + Len(batch["stop"]) + Len(batch["orphan"])

\* Every line is waiting, on its way, stored or counted as dropped, and no line
\* is stored twice; only a batch whose shipper was cancelled counts nowhere.
LinesAccountedFor ==
    /\ Counted + OnTheWay <= emitted
    /\ shipper = "runs" => Counted + OnTheWay = emitted
    /\ emitted - Counted - OnTheWay <= Batch
    /\ \A k, l \in Written(TRUE) : logs[k] = logs[l] => k = l

\* The lines of an instance are stored in their order; only a flush of stop()
\* may overtake the batch of the shipper it cancelled.
StoredInOrder ==
    shipper = "runs" => \A k, l \in Written(TRUE) : k < l => logs[k] < logs[l]

\* prune() takes nothing but what is older than the retention and what Keep
\* newer lines of the same instance follow, however many others write and
\* although lines come in between its reading and its deletion.
NewestKept ==
    \A mine \in BOOLEAN : \A k \in Written(mine) \cap pruned :
        IsAged(k) \/ Cardinality({l \in Written(mine) : l > k}) >= Keep

\* What the instances logged last can be read, each line once and in order,
\* whatever drops, cancels or prunes in between.
LogsAreKept == LinesAccountedFor /\ StoredInOrder /\ NewestKept
=============================================================================

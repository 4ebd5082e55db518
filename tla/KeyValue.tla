------------------------------ MODULE KeyValue ------------------------------
(***************************************************************************)
(* The key-value store the instances share through the table cluster_kv,   *)
(* statement by statement, and what the core keeps in it: one-time codes   *)
(* that finish a single sign-on, and counters of failed logins.            *)
(*                                                                         *)
(* Every call is one transaction at READ COMMITTED.  Its one write is its  *)
(* last statement; only kv_incr() holds a lock before that.  A row past    *)
(* its time is deleted by whoever finds it, and by the prune.              *)
(***************************************************************************)
EXTENDS Integers, FiniteSets

CONSTANTS
    KvCall,     \* the calls that are made: the bound on them
    MaxFailures \* _LOGIN_MAX_FAILURES

ASSUME KvAssumption == 0 \notin KvCall /\ MaxFailures \in Nat

\* A code, the counters of two windows, a key of some plugin.
KvKey == {"code", "window 1", "window 2", "own"}

VARIABLES
    kv,      \* cluster_kv: the value, 0 without a row, and whether it expired
    rowLock,   \* the call whose SELECT ... FOR UPDATE locks a row, or 0
    kvCall,  \* what a call does, on which key, its next statement, its result
    window,  \* the window of _login_bucket() that is open
    counted  \* failures recorded in a window

kvVars == <<kv, rowLock, kvCall, window, counted>>

NoRow  == [v |-> 0, past |-> FALSE]
NoKvCall == [use |-> "none", key |-> "own", at |-> "idle", saw |-> NoRow, result |-> "none", undone |-> FALSE]

Bucket == IF window = 1 THEN "window 1" ELSE "window 2"

KvInit ==
    /\ kv = [k \in KvKey |-> NoRow]
    /\ rowLock = [k \in KvKey |-> 0]
    /\ kvCall = [c \in KvCall |-> NoKvCall]
    /\ window = 1
    /\ counted = [k \in KvKey |-> 0]

\* First statement of each use: kv_set(), kv_get(), kv_delete(), kv_incr(), or
\* a kv_get() that something follows.
First == [create |-> "update", set |-> "update", get |-> "select", redeem |-> "select",
          login |-> "select", delete |-> "delete", incr |-> "lock"]

Begins(c, use) ==
    /\ kvCall[c] = NoKvCall
    /\ use = "create" => \A d \in KvCall : kvCall[d].use # "create"
    /\ use = "redeem" => \E d \in KvCall : kvCall[d].use = "create" /\ kvCall[d].at = "done"
    /\ kvCall' = [kvCall EXCEPT ![c].use = use, ![c].at = First[use],
                     ![c].key = CASE use \in {"create", "redeem"} -> "code"
                                  [] use = "login" -> Bucket [] OTHER -> "own",
                     ![c].result = IF use = "login" /\ counted[Bucket] >= MaxFailures THEN "late" ELSE "none"]
    /\ UNCHANGED <<kv, rowLock, window, counted>>

At(c, statement) == kvCall[c].at = statement /\ rowLock[kvCall[c].key] \in {0, c}
Row(c)           == kv[kvCall[c].key]
Goes(c, at)      == kvCall' = [kvCall EXCEPT ![c].at = at]

\* A row is deleted: the calls that set it did so in vain.
Deletes(c, at, result) ==
    /\ kv' = [kv EXCEPT ![kvCall[c].key] = NoRow]
    /\ kvCall' = [d \in KvCall |->
          LET undone == kvCall[d].undone \/ (kvCall[d].key = kvCall[c].key /\ kvCall[d].use = "set")
          IN  IF d = c THEN [kvCall[d] EXCEPT !.at = at, !.result = result, !.undone = undone]
              ELSE [kvCall[d] EXCEPT !.undone = undone]]

-----------------------------------------------------------------------------
(* kv_set(): UPDATE, or INSERT, or UPDATE again when a peer came first.    *)

SetUpdates(c) ==
    /\ At(c, "update") \/ At(c, "again")
    /\ IF Row(c) # NoRow
       THEN kv' = [kv EXCEPT ![kvCall[c].key] = [v |-> 1, past |-> FALSE]] /\ Goes(c, "done")
       ELSE Goes(c, IF kvCall[c].at = "update" THEN "insert" ELSE "done") /\ UNCHANGED kv
    /\ UNCHANGED <<rowLock, window, counted>>

SetInserts(c) ==
    /\ At(c, "insert")
    /\ IF Row(c) = NoRow
       THEN kv' = [kv EXCEPT ![kvCall[c].key] = [v |-> 1, past |-> FALSE]] /\ Goes(c, "done")
       ELSE Goes(c, "again") /\ UNCHANGED kv
    /\ UNCHANGED <<rowLock, window, counted>>

-----------------------------------------------------------------------------
(* kv_get(): a plain read, then the deletion of what was expired: whatever *)
(* is there by then.                                                       *)

\* _login_retry_after()
TooMany(v) == v >= MaxFailures

\* What follows a kv_get() that found v.
Follows(use, v) ==
    CASE use = "redeem" -> IF v = 0 THEN "done" ELSE "delete"
      [] use = "login"  -> IF TooMany(v) THEN "done" ELSE "attempt"
      [] OTHER          -> "done"

Selects(c) ==
    /\ kvCall[c].at = "select"
    /\ Goes(c, IF Row(c).past THEN "purge" ELSE Follows(kvCall[c].use, Row(c).v))
    /\ UNCHANGED <<kv, rowLock, window, counted>>

Purges(c) ==
    /\ At(c, "purge")
    /\ Deletes(c, Follows(kvCall[c].use, 0), kvCall[c].result)
    /\ UNCHANGED <<rowLock, window, counted>>

\* _redeem_sso_exchange_code(): whoever deleted the row may use the code.
Paid(c) == Row(c) # NoRow

\* kv_delete()
DeletesIt(c) ==
    /\ At(c, "delete")
    /\ Deletes(c, "done", IF kvCall[c].use = "redeem" /\ Paid(c) THEN "paid" ELSE "none")
    /\ UNCHANGED <<rowLock, window, counted>>

-----------------------------------------------------------------------------
(* kv_incr(): SELECT ... FOR UPDATE, then UPDATE; or INSERT, and SELECT    *)
(* again when a peer came first.                                           *)

\* The database is out of reach: the transaction is rolled back and the caller
\* gets an error.  A login that cannot read its counter goes by the window of its
\* own process (_login_limiter), which may let it in; a failure that cannot be
\* recorded stays there.
StatementFails(c) ==
    /\ kvCall[c].at \notin {"idle", "attempt", "done", "failed"}
    /\ \E at \in {"failed"} \cup {s \in {"attempt"} : kvCall[c].use = "login" /\ kvCall[c].at \in {"select", "purge"}} :
           kvCall' = [kvCall EXCEPT ![c].at = at, ![c].result = "none"]
    /\ rowLock' = [k \in KvKey |-> IF rowLock[k] = c THEN 0 ELSE rowLock[k]]
    /\ UNCHANGED <<kv, window, counted>>

\* The provider refuses a login that was let in: the failure is recorded in
\* the window that is open then.
LoginFails(c) ==
    /\ kvCall[c].at = "attempt"
    /\ kvCall' = [kvCall EXCEPT ![c].at = "lock", ![c].key = Bucket,
                                ![c].result = IF @ = "late" /\ kvCall[c].key = Bucket THEN "let in late" ELSE @]
    /\ UNCHANGED <<kv, rowLock, window, counted>>

Records(k, v) ==
    /\ kv' = [kv EXCEPT ![k] = [v |-> v, past |-> FALSE]]
    /\ counted' = [counted EXCEPT ![k] = @ + 1]

\* Wrong: the row is read and not locked.
ReadsOnly(c) == rowLock

Locks(c) == [rowLock EXCEPT ![kvCall[c].key] = c]

IncrLocks(c) ==
    /\ At(c, "lock") \/ At(c, "relock")
    /\ IF Row(c) # NoRow
       THEN rowLock' = Locks(c) /\ kvCall' = [kvCall EXCEPT ![c].at = "bump", ![c].saw = Row(c)]
       ELSE Goes(c, IF kvCall[c].at = "lock" THEN "first" ELSE "done") /\ UNCHANGED rowLock
    /\ UNCHANGED <<kv, window, counted>>

IncrInserts(c) ==
    /\ At(c, "first")
    /\ IF Row(c) = NoRow THEN Records(kvCall[c].key, 1) /\ Goes(c, "done")
       ELSE Goes(c, "relock") /\ UNCHANGED <<kv, counted>>
    /\ UNCHANGED <<rowLock, window>>

IncrUpdates(c) ==
    /\ At(c, "bump")
    /\ Records(kvCall[c].key, IF kvCall[c].saw.past THEN 1 ELSE kvCall[c].saw.v + 1)
    /\ rowLock' = [rowLock EXCEPT ![kvCall[c].key] = 0]
    /\ Goes(c, "done")
    /\ UNCHANGED window

-----------------------------------------------------------------------------

\* Time passes a row's expires_at; a counter's with the end of its window.
Expires(k) ==
    /\ kv[k] # NoRow /\ ~kv[k].past
    /\ k = "window 1" => window = 2
    /\ k # "window 2"
    /\ kv' = [kv EXCEPT ![k].past = TRUE]
    /\ kvCall' = [d \in KvCall |-> IF kvCall[d].key = k /\ kvCall[d].use = "set"
                                    THEN [kvCall[d] EXCEPT !.undone = TRUE] ELSE kvCall[d]]
    /\ UNCHANGED <<rowLock, window, counted>>

WindowEnds ==
    /\ window = 1 /\ window' = 2
    /\ UNCHANGED <<kv, rowLock, kvCall, counted>>

\* Wrong: every row that can expire is deleted.
PrunesAny(k) == TRUE

PrunesIf(k) == kv[k].past

Prune(k) ==
    /\ kv[k] # NoRow /\ rowLock[k] = 0 /\ PrunesIf(k)
    /\ kv' = [kv EXCEPT ![k] = NoRow]
    /\ UNCHANGED <<rowLock, kvCall, window, counted>>

KvNext ==
    \/ \E c \in KvCall :
          \/ \E use \in DOMAIN First : Begins(c, use)
          \/ SetUpdates(c) \/ SetInserts(c) \/ Selects(c) \/ Purges(c) \/ DeletesIt(c)
          \/ StatementFails(c) \/ LoginFails(c) \/ IncrLocks(c) \/ IncrInserts(c) \/ IncrUpdates(c)
    \/ \E k \in KvKey : Expires(k) \/ Prune(k)
    \/ WindowEnds

KvSpec == KvInit /\ [][KvNext]_kvVars
-----------------------------------------------------------------------------
KvRow     == {NoRow} \cup [v : Nat \ {0}, past : BOOLEAN]
KvCallRec == [use : DOMAIN First \cup {"none"}, key : KvKey, saw : KvRow, undone : BOOLEAN,
              at : {"idle", "update", "insert", "again", "select", "purge", "delete", "attempt", "lock", "relock",
                    "first", "bump", "done", "failed"},
              result : {"none", "late", "let in late", "paid"}]

KvTypeOK ==
    /\ kv \in [KvKey -> KvRow] /\ rowLock \in [KvKey -> KvCall \cup {0}]
    /\ kvCall \in [KvCall -> KvCallRec]
    /\ window \in {1, 2} /\ counted \in [KvKey -> Nat]

\* However many redeem a code at a time, and although a reader may delete it
\* by its key alone, one gets the session.
RedeemedOnce == Cardinality({c \in KvCall : kvCall[c].result = "paid"}) <= 1

\* No failure of a window that was recorded gets lost between instances that
\* count at a time: until the window ends the counter says how many there were,
\* and a login that begins when they are too many, and can read the counter, is
\* not let in before.
EveryFailureCounts ==
    /\ \A k \in {"window 1", "window 2"} :
           kv[k] # NoRow /\ (k = Bucket) => kv[k].v = counted[k]
    /\ \A c \in KvCall : kvCall[c].result # "let in late"

\* What was set is there until it expires, is deleted, or is found by a reader
\* that saw an expired value before: that one deletes the new value as well.
WhatIsSetStays ==
    \A c \in KvCall :
        kvCall[c].use = "set" /\ kvCall[c].at = "done" /\ ~kvCall[c].undone => kv["own"] # NoRow

\* Statements of several instances on one row add up: no failure gets lost, no
\* code is paid twice, and what was set stays.
ValuesStand == RedeemedOnce /\ EveryFailureCounts /\ WhatIsSetStays
=============================================================================

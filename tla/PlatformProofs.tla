--------------------------- MODULE PlatformProofs ---------------------------
(***************************************************************************)
(* What the instances of a cluster share, its accounts, rights, keys and   *)
(* secrets, and its rolling restart: for every number of users, logins,    *)
(* instances, calls, writers and hosts, each module's types and its        *)
(* property, from an invariant of its own.  Of each section the last lemma *)
(* before the theorems says that every step keeps the invariant; the       *)
(* lemmas above it take the actions one by one.                            *)
(***************************************************************************)
EXTENDS KeyValue, Sessions, SignOn, Rights, Grants, Accounts, VaultDocument, RollingRestart, FiniteSetTheorems, TLAPS

-----------------------------------------------------------------------------
(* KeyValue: between two statements of a call its row may be written by    *)
(* others; the invariant says what each call may still believe of it.      *)

\* What a call does fits its key and the statement it is at.
CallFits(call) ==
    /\ call.key = "code" <=> call.use \in {"create", "redeem"}
    /\ call.key \in {"window 1", "window 2"} <=> call.use = "login"
    /\ call.use = "none" => call.at = "idle"
    /\ call.at \in {"update", "insert", "again"} => call.use \in {"create", "set"}
    /\ call.use \in {"create", "set"} => call.at \in {"update", "insert", "again", "done", "failed"}
    /\ call.at \in {"lock", "relock", "first", "bump"} => call.use \in {"incr", "login"}
    /\ call.at = "attempt" => call.use = "login"
    /\ call.at = "delete" => call.use \in {"redeem", "delete"}
    /\ call.result = "paid" => call.use = "redeem" /\ call.at = "done"
    /\ call.result = "late" => call.use = "login"

CallsInv == \A c \in KvCall : CallFits(kvCall[c])

\* A code is set once, before it is redeemed, and is gone when it was.
CodeCreated == \E d \in KvCall : kvCall[d].use = "create" /\ kvCall[d].at = "done"

CodeInv ==
    /\ \A c, d \in KvCall : kvCall[c].use = "create" /\ kvCall[d].use = "create" => c = d
    /\ \A c \in KvCall : kvCall[c].use = "redeem" => CodeCreated
    /\ kv["code"] # NoRow => CodeCreated
    /\ \A c \in KvCall : kvCall[c].result = "paid" => kv["code"] = NoRow
    /\ \A c, d \in KvCall : kvCall[c].result = "paid" /\ kvCall[d].result = "paid" => c = d

\* The counter of the open window says what was recorded and does not expire;
\* whoever is about to raise it has it locked as it is.
CountInv ==
    /\ ~kv[Bucket].past /\ kv[Bucket].v = counted[Bucket]
    /\ window = 1 => kv["window 2"] = NoRow /\ counted["window 2"] = 0 /\ \A c \in KvCall : kvCall[c].key # "window 2"
    /\ \A c \in KvCall : kvCall[c].at = "bump" =>
           rowLock[kvCall[c].key] = c /\ (kvCall[c].key = Bucket => kvCall[c].saw = kv[Bucket])
    /\ \A c \in KvCall : kvCall[c].at = "purge" => kvCall[c].key # Bucket
    /\ \A c \in KvCall : kvCall[c].result # "let in late"
    /\ \A c \in KvCall : kvCall[c].result = "late" /\ kvCall[c].key = Bucket =>
           kvCall[c].at # "attempt" /\ (kvCall[c].at = "select" => counted[Bucket] >= MaxFailures)

\* What a call set, and nobody undid, is there and has not expired; the same for
\* what it found to be there.
SetInv ==
    \A c \in KvCall : kvCall[c].use = "set" /\ ~kvCall[c].undone =>
        /\ kvCall[c].at \in {"insert", "again", "done"} => ~kv["own"].past
        /\ kvCall[c].at \in {"again", "done"} => kv["own"] # NoRow

KvInv == KvTypeOK /\ CallsInv /\ CodeInv /\ CountInv /\ SetInv

\* The keys are different.
LEMMA Keys ==
    /\ Bucket \in {"window 1", "window 2"} /\ Bucket \in KvKey
    /\ \A k \in KvKey : k \notin {"code", "window 1", "window 2"} => k = "own"
    /\ "own" \in KvKey /\ "code" \in KvKey /\ "window 1" \in KvKey /\ "window 2" \in KvKey
  BY DEF Bucket, KvKey

\* A row, and none.
LEMMA KvRows ==
    /\ NoRow.v = 0 /\ ~NoRow.past /\ NoRow \in KvRow /\ [v |-> 1, past |-> FALSE] \in KvRow
    /\ \A r \in KvRow : r.v \in Nat /\ r.past \in BOOLEAN /\ (r.v = 0 <=> r = NoRow)
<1>1. NoRow.v = 0 /\ NoRow.past = FALSE /\ NoRow \in KvRow
  BY DEF NoRow, KvRow
<1>2. [v |-> 1, past |-> FALSE] \in [v : Nat \ {0}, past : BOOLEAN]
  OBVIOUS
<1>3. \A r \in [v : Nat \ {0}, past : BOOLEAN] : r.v \in Nat /\ r.past \in BOOLEAN /\ r.v # 0
  OBVIOUS
<1>4. [v |-> 1, past |-> FALSE] \in KvRow
  BY <1>2 DEF KvRow
<1>5. ASSUME NEW r \in KvRow PROVE r.v \in Nat /\ r.past \in BOOLEAN /\ (r.v = 0 <=> r = NoRow)
  <2>1. CASE r = NoRow
    <3>1. r.v = 0 /\ r.past = FALSE
      BY <1>1, <2>1
    <3>2. r.v \in Nat
      BY <3>1
    <3>3. r.past \in BOOLEAN
      BY <3>1
    <3>4. r.v = 0 <=> r = NoRow
      BY <2>1, <3>1
    <3> QED BY <3>2, <3>3, <3>4
  <2>2. CASE r \in [v : Nat \ {0}, past : BOOLEAN]
    <3>1. r.v \in Nat /\ r.past \in BOOLEAN /\ r.v # 0
      BY <2>2
    <3>2. r # NoRow
      BY <1>1, <3>1
    <3> QED BY <3>1, <3>2
  <2> QED BY <2>1, <2>2 DEF KvRow
<1> QED BY <1>1, <1>4, <1>5

\* At first there are no rows.
LEMMA KvStart == KvInit => KvInv
<1> SUFFICES ASSUME KvInit PROVE KvInv
  OBVIOUS
<1>1. NoKvCall \in KvCallRec
  <2>1. "none" \in DOMAIN First \cup {"none"}
    OBVIOUS
  <2> QED BY <2>1, Keys, KvRows DEF NoKvCall, KvCallRec
<1>2. NoKvCall.use = "none" /\ NoKvCall.key = "own" /\ NoKvCall.at = "idle" /\ NoKvCall.result = "none"
  BY DEF NoKvCall
<1>3. /\ \A k \in KvKey : kv[k] = NoRow /\ counted[k] = 0
      /\ \A c \in KvCall : kvCall[c] = NoKvCall
      /\ window = 1
  BY DEF KvInit
<1>4. KvTypeOK
  BY <1>1, KvRows DEF KvInit, KvTypeOK
<1>5. CallFits(NoKvCall)
  BY <1>2 DEF CallFits
<1>6. CallsInv /\ CodeInv /\ SetInv
  BY <1>2, <1>3, <1>5, Keys DEF CallsInv, CodeInv, SetInv
<1>7. CountInv
  BY <1>2, <1>3, Keys, KvRows DEF CountInv
<1> QED BY <1>4, <1>6, <1>7 DEF KvInv

-----------------------------------------------------------------------------
\* A call that goes on, and changes nothing in the table.
LEMMA Moves ==
    ASSUME KvInv, NEW c \in KvCall, NEW new \in KvCallRec, kvCall' = [kvCall EXCEPT ![c] = new],
           UNCHANGED <<kv, window, counted>>,
           CallFits(new), new.use = kvCall[c].use, new.result # "paid", kvCall[c].at # "done",
           rowLock' \in [KvKey -> KvCall \cup {0}],
           \A d \in KvCall : d # c /\ kvCall[d].at = "bump" => rowLock'[kvCall[d].key] = rowLock[kvCall[d].key],
           new.at = "bump" => rowLock'[new.key] = c /\ new.saw = kv[new.key],
           window = 1 => new.key # "window 2",
           new.at = "purge" => new.key # Bucket,
           new.result # "let in late",
           new.result = "late" /\ new.key = Bucket => new.at \notin {"attempt", "select"},
           new.use = "set" /\ ~new.undone /\ new.at \in {"insert", "again", "done"} => ~kv["own"].past,
           new.use = "set" /\ ~new.undone /\ new.at \in {"again", "done"} => kv["own"] # NoRow
    PROVE  KvInv'
<1>1. kvCall' \in [KvCall -> KvCallRec] /\ \A d \in KvCall : kvCall'[d] = IF d = c THEN new ELSE kvCall[d]
  BY DEF KvInv, KvTypeOK
<1>2. Bucket' = Bucket
  BY DEF Bucket
<1>3. KvTypeOK'
  BY <1>1 DEF KvInv, KvTypeOK
<1>4. CallsInv'
  BY <1>1 DEF KvInv, CallsInv
<1>5. CodeInv'
  <2>1. /\ \A d \in KvCall : kvCall'[d].use = kvCall[d].use
        /\ \A d \in KvCall : kvCall[d].at = "done" => kvCall'[d] = kvCall[d]
        /\ \A d \in KvCall : kvCall'[d].result = "paid" => kvCall[d].result = "paid"
    BY <1>1
  <2>2. CodeCreated => CodeCreated'
    <3>1. ASSUME NEW d \in KvCall, kvCall[d].use = "create", kvCall[d].at = "done" PROVE CodeCreated'
      BY <2>1, <3>1 DEF CodeCreated
    <3> QED BY <3>1 DEF CodeCreated
  <2>3. ASSUME NEW d \in KvCall, NEW e \in KvCall, kvCall'[d].use = "create", kvCall'[e].use = "create" PROVE d = e
    <3>1. kvCall[d].use = "create" /\ kvCall[e].use = "create"
      BY <2>1, <2>3
    <3> QED BY <3>1 DEF KvInv, CodeInv
  <2>4. ASSUME NEW d \in KvCall, kvCall'[d].use = "redeem" PROVE CodeCreated
    BY <2>1, <2>4 DEF KvInv, CodeInv
  <2>5. kv'["code"] # NoRow => CodeCreated
    BY DEF KvInv, CodeInv
  <2>6. ASSUME NEW d \in KvCall, kvCall'[d].result = "paid" PROVE kv'["code"] = NoRow /\ \A e \in KvCall : kvCall'[e].result = "paid" => d = e
    BY <2>1, <2>6 DEF KvInv, CodeInv
  <2> QED BY <2>2, <2>3, <2>4, <2>5, <2>6 DEF CodeInv
<1>6. CountInv'
  <2>1. ~kv'[Bucket'].past /\ kv'[Bucket'].v = counted'[Bucket']
    BY <1>2 DEF KvInv, CountInv
  <2>2. window' = 1 => kv'["window 2"] = NoRow /\ counted'["window 2"] = 0 /\ \A d \in KvCall : kvCall'[d].key # "window 2"
    BY <1>1 DEF KvInv, CountInv
  <2>3. \A d \in KvCall : kvCall'[d].at = "bump" =>
           rowLock'[kvCall'[d].key] = d /\ (kvCall'[d].key = Bucket' => kvCall'[d].saw = kv'[Bucket'])
    BY <1>1, <1>2 DEF KvInv, CountInv
  <2>4. \A d \in KvCall : /\ kvCall'[d].at = "purge" => kvCall'[d].key # Bucket'
                          /\ kvCall'[d].result # "let in late"
                          /\ kvCall'[d].result = "late" /\ kvCall'[d].key = Bucket' =>
                                 kvCall'[d].at # "attempt" /\ (kvCall'[d].at = "select" => counted'[Bucket'] >= MaxFailures)
    BY <1>1, <1>2 DEF KvInv, CountInv
  <2> QED BY <2>1, <2>2, <2>3, <2>4 DEF CountInv
<1>7. SetInv'
  BY <1>1 DEF KvInv, SetInv
<1> QED BY <1>3, <1>4, <1>5, <1>6, <1>7 DEF KvInv

\* A call that writes a row nobody else has locked, and ends.
LEMMA RowWritten ==
    ASSUME KvInv, NEW c \in KvCall, NEW row \in KvRow, row # NoRow, ~row.past,
           kv' = [kv EXCEPT ![kvCall[c].key] = row], kvCall' = [kvCall EXCEPT ![c].at = "done"],
           kvCall[c].at # "done", kvCall[c].use \notin {"redeem", "none"}, kvCall[c].key # "code" \/ kvCall[c].use = "create",
           rowLock[kvCall[c].key] \in {0, c}, window' = window,
           rowLock' \in [KvKey -> KvCall \cup {0}], \A k \in KvKey : k # kvCall[c].key => rowLock'[k] = rowLock[k],
           counted' \in [KvKey -> Nat], \A k \in KvKey : counted'[k] >= counted[k],
           \A k \in KvKey : k # kvCall[c].key => counted'[k] = counted[k],
           kvCall[c].key = Bucket => row.v = counted'[Bucket]
    PROVE  KvInv'
<1> DEFINE new == [kvCall[c] EXCEPT !.at = "done"]
           k   == kvCall[c].key
<1>0. kvCall[c] \in KvCallRec /\ k \in KvKey /\ 0 \notin KvCall
  BY KvAssumption DEF KvInv, KvTypeOK, KvCallRec
<1>1. /\ new \in KvCallRec /\ new.at = "done" /\ new.use = kvCall[c].use /\ new.key = k
      /\ new.result = kvCall[c].result /\ new.undone = kvCall[c].undone
  BY <1>0 DEF KvCallRec
<1>2. kvCall' \in [KvCall -> KvCallRec] /\ \A d \in KvCall : kvCall'[d] = IF d = c THEN new ELSE kvCall[d]
  BY <1>1 DEF KvInv, KvTypeOK
<1>3. kv' \in [KvKey -> KvRow] /\ \A j \in KvKey : kv'[j] = IF j = k THEN row ELSE kv[j]
  BY <1>0 DEF KvInv, KvTypeOK
<1>4. Bucket' = Bucket
  BY DEF Bucket
<1> HIDE DEF new, k
<1>5. KvTypeOK'
  BY <1>2, <1>3 DEF KvInv, KvTypeOK
<1>6. kvCall[c].result # "paid" /\ CallFits(kvCall[c])
  BY DEF KvInv, CallsInv, CallFits
<1>7. CallsInv'
  <2>1. CallFits(new)
    BY <1>0, <1>1, <1>6 DEF CallFits, k
  <2> QED BY <1>2, <2>1 DEF KvInv, CallsInv
<1>8. CodeInv'
  <2>1. CASE k = "code"
    <3>1. kvCall[c].use = "create" /\ ~CodeCreated
      BY <2>1 DEF k, KvInv, CodeInv, CodeCreated
    <3>2. \A d \in KvCall : kvCall[d].use # "redeem" /\ kvCall[d].result # "paid"
      BY <3>1 DEF KvInv, CodeInv, CallsInv, CallFits
    <3>3. \A d \in KvCall : kvCall'[d].use = kvCall[d].use /\ kvCall'[d].result = kvCall[d].result
      BY <1>1, <1>2
    <3>4. CodeCreated'
      BY <1>1, <1>2, <3>1 DEF CodeCreated
    <3>5. \A d, e \in KvCall : kvCall[d].use = "create" /\ kvCall[e].use = "create" => d = e
      BY DEF KvInv, CodeInv
    <3> QED BY <3>2, <3>3, <3>4, <3>5 DEF CodeInv
  <2>2. CASE k # "code"
    <3>1. kv'["code"] = kv["code"] /\ kvCall[c].use \notin {"create", "redeem"}
      BY <1>3, <1>6, <2>2, Keys DEF CallFits, k
    <3>2. \A d \in KvCall : kvCall'[d].use = kvCall[d].use /\ kvCall'[d].result = kvCall[d].result
      BY <1>1, <1>2
    <3>3. CodeCreated => CodeCreated'
      BY <1>1, <1>2 DEF CodeCreated
    <3> QED BY <3>1, <3>2, <3>3 DEF KvInv, CodeInv
  <2> QED BY <2>1, <2>2
<1>9. CountInv'
  <2>1. ~kv'[Bucket'].past /\ kv'[Bucket'].v = counted'[Bucket']
    BY <1>3, <1>4, Keys DEF KvInv, CountInv, k
  <2>2. window' = 1 => kv'["window 2"] = NoRow /\ counted'["window 2"] = 0 /\ \A d \in KvCall : kvCall'[d].key # "window 2"
    <3>1. window = 1 => kv["window 2"] = NoRow /\ counted["window 2"] = 0 /\ \A d \in KvCall : kvCall[d].key # "window 2"
      BY DEF KvInv, CountInv
    <3>2. \A d \in KvCall : kvCall'[d].key = kvCall[d].key
      BY <1>1, <1>2 DEF k
    <3>3. k # "window 2" => kv'["window 2"] = kv["window 2"] /\ counted'["window 2"] = counted["window 2"]
      BY <1>3, Keys DEF k
    <3>4. window = 1 => k # "window 2"
      BY <3>1 DEF k
    <3> QED BY <3>1, <3>2, <3>3, <3>4
  <2>3. ASSUME NEW d \in KvCall, kvCall'[d].at = "bump"
        PROVE  rowLock'[kvCall'[d].key] = d /\ (kvCall'[d].key = Bucket' => kvCall'[d].saw = kv'[Bucket'])
    <3>1. d # c /\ kvCall'[d] = kvCall[d] /\ rowLock[kvCall[d].key] = d
      BY <1>1, <1>2, <2>3 DEF KvInv, CountInv
    <3>2. kvCall[d].key # k /\ kvCall[d].key \in KvKey
      <4>1. kvCall[d] \in KvCallRec /\ d # 0
        BY <1>0 DEF KvInv, KvTypeOK
      <4>2. kvCall[d].key \in KvKey
        BY <4>1 DEF KvCallRec
      <4> QED BY <3>1, <4>1, <4>2 DEF k
    <3> QED BY ZenonT(60), <1>2, <1>3, <1>4, <2>3, <3>1, <3>2 DEF KvInv, CountInv, k
  <2>4. ASSUME NEW d \in KvCall
        PROVE  /\ kvCall'[d].at = "purge" => kvCall'[d].key # Bucket'
               /\ kvCall'[d].result # "let in late"
               /\ kvCall'[d].result = "late" /\ kvCall'[d].key = Bucket' =>
                      kvCall'[d].at # "attempt" /\ (kvCall'[d].at = "select" => counted'[Bucket'] >= MaxFailures)
    <3>1. counted'[Bucket] >= counted[Bucket] /\ counted[Bucket] \in Nat /\ counted'[Bucket] \in Nat /\ MaxFailures \in Nat
      BY KvAssumption, Keys DEF KvInv, KvTypeOK
    <3>2. /\ kvCall'[d].key = kvCall[d].key /\ kvCall'[d].result = kvCall[d].result
          /\ kvCall'[d].at = "done" \/ kvCall'[d] = kvCall[d]
      BY <1>1, <1>2 DEF k
    <3>3. counted[Bucket] >= MaxFailures => counted'[Bucket] >= MaxFailures
      BY <3>1
    <3> QED BY <1>4, <3>2, <3>3 DEF KvInv, CountInv
  <2> QED BY <2>1, <2>2, <2>3, <2>4 DEF CountInv
<1>10. SetInv'
  <2>1. CASE k = "own"
    <3>1. kv'["own"] # NoRow /\ ~kv'["own"].past
      BY <1>3, <2>1, Keys
    <3> QED BY <3>1 DEF SetInv
  <2>2. CASE k # "own"
    <3>1. kvCall[c].use # "set" /\ kv'["own"] = kv["own"]
      BY <1>0, <1>3, <1>6, <2>2, Keys DEF CallFits, k
    <3> QED BY <1>1, <1>2, <3>1 DEF KvInv, SetInv
  <2> QED BY <2>1, <2>2
<1> QED BY <1>5, <1>7, <1>8, <1>9, <1>10 DEF KvInv

\* A call that deletes a row, not the counter of the open window.
LEMMA RowDeleted ==
    ASSUME KvInv, NEW c \in KvCall, NEW at \in {"done", "delete", "attempt"}, NEW result \in {"none", "late", "let in late", "paid"},
           Deletes(c, at, result), UNCHANGED <<rowLock, window, counted>>,
           kvCall[c].at \notin {"done", "failed", "idle", "update", "insert", "again"}, kvCall[c].key # Bucket,
           at = "delete" => kvCall[c].use \in {"redeem", "delete"}, at = "attempt" => kvCall[c].use = "login",
           result \in {"none", kvCall[c].result} \/ (result = "paid" /\ at = "done" /\ kvCall[c].use = "redeem" /\ Row(c) # NoRow)
    PROVE  KvInv'
<1> DEFINE k == kvCall[c].key
<1>0. /\ kvCall \in [KvCall -> KvCallRec] /\ k \in KvKey /\ kvCall[c].result \notin {"paid", "let in late"}
      /\ CallFits(kvCall[c]) /\ kvCall[c].use \notin {"none", "create"}
  BY DEF KvInv, KvTypeOK, KvCallRec, CallsInv, CallFits, CountInv
<1>1. kv' \in [KvKey -> KvRow] /\ \A j \in KvKey : kv'[j] = IF j = k THEN NoRow ELSE kv[j]
  BY <1>0, KvRows DEF Deletes, KvInv, KvTypeOK
<1>2. ASSUME NEW d \in KvCall
      PROVE  /\ kvCall'[d] \in KvCallRec
             /\ kvCall'[d].use = kvCall[d].use /\ kvCall'[d].key = kvCall[d].key /\ kvCall'[d].saw = kvCall[d].saw
             /\ kvCall'[d].at = IF d = c THEN at ELSE kvCall[d].at
             /\ kvCall'[d].result = IF d = c THEN result ELSE kvCall[d].result
             /\ ~kvCall'[d].undone => ~kvCall[d].undone /\ ~(kvCall[d].key = k /\ kvCall[d].use = "set")
  <2> DEFINE undone == kvCall[d].undone \/ (kvCall[d].key = k /\ kvCall[d].use = "set")
  <2>1. kvCall'[d] = IF d = c THEN [kvCall[d] EXCEPT !.at = at, !.result = result, !.undone = undone]
                     ELSE [kvCall[d] EXCEPT !.undone = undone]
    BY DEF Deletes
  <2>2. kvCall[d] \in KvCallRec
    BY <1>0
  <2>3. undone \in BOOLEAN
    BY <2>2 DEF KvCallRec
  <2>4. ~undone => ~kvCall[d].undone /\ ~(kvCall[d].key = k /\ kvCall[d].use = "set")
    OBVIOUS
  <2> HIDE DEF undone
  <2>5. /\ [kvCall[d] EXCEPT !.at = at, !.result = result, !.undone = undone] \in KvCallRec
        /\ [kvCall[d] EXCEPT !.undone = undone] \in KvCallRec
    BY <2>2, <2>3 DEF KvCallRec
  <2>6. CASE d = c
    <3>1. kvCall'[d] = [kvCall[d] EXCEPT !.at = at, !.result = result, !.undone = undone]
      BY <2>1, <2>6
    <3>2. /\ kvCall'[d].use = kvCall[d].use /\ kvCall'[d].key = kvCall[d].key /\ kvCall'[d].saw = kvCall[d].saw
          /\ kvCall'[d].at = at /\ kvCall'[d].result = result /\ kvCall'[d].undone = undone
      BY <2>2, <3>1 DEF KvCallRec
    <3> QED BY <2>4, <2>5, <2>6, <3>1, <3>2
  <2>7. CASE d # c
    <3>1. kvCall'[d] = [kvCall[d] EXCEPT !.undone = undone]
      BY <2>1, <2>7
    <3>2. /\ kvCall'[d].use = kvCall[d].use /\ kvCall'[d].key = kvCall[d].key /\ kvCall'[d].saw = kvCall[d].saw
          /\ kvCall'[d].at = kvCall[d].at /\ kvCall'[d].result = kvCall[d].result /\ kvCall'[d].undone = undone
      BY <2>2, <3>1 DEF KvCallRec
    <3> QED BY <2>4, <2>5, <2>7, <3>1, <3>2
  <2> QED BY <2>6, <2>7
<1>3. kvCall' \in [KvCall -> KvCallRec]
  <2>1. kvCall' = [d \in KvCall |-> kvCall'[d]]
    BY DEF Deletes
  <2> QED BY <1>2, <2>1
<1>4. Bucket' = Bucket
  BY DEF Bucket
<1>5. KvTypeOK'
  BY <1>1, <1>3 DEF KvInv, KvTypeOK
<1>6. CallsInv'
  <2>1. ASSUME NEW d \in KvCall, d # c PROVE CallFits(kvCall'[d])
    <3>1. CallFits(kvCall[d])
      BY DEF KvInv, CallsInv
    <3> QED BY <1>2, <2>1, <3>1 DEF CallFits
  <2>2. CallFits(kvCall'[c])
    BY <1>0, <1>2 DEF CallFits
  <2> QED BY <2>1, <2>2 DEF CallsInv
<1>7. CodeInv'
  <2>1. \A d \in KvCall : kvCall[d].use = "create" => d # c
    BY <1>0
  <2>2. /\ \A d \in KvCall : kvCall'[d].use = kvCall[d].use
        /\ CodeCreated => CodeCreated'
    <3>1. \A d \in KvCall : kvCall'[d].use = kvCall[d].use
      BY <1>2
    <3>2. \A d \in KvCall : kvCall[d].use = "create" => kvCall'[d].at = kvCall[d].at
      BY <1>2, <2>1
    <3> QED BY <3>1, <3>2 DEF CodeCreated
  <2>3. /\ \A d, e \in KvCall : kvCall'[d].use = "create" /\ kvCall'[e].use = "create" => d = e
        /\ \A d \in KvCall : kvCall'[d].use = "redeem" => CodeCreated'
        /\ kv'["code"] # NoRow => CodeCreated'
    <3>1. kv'["code"] # NoRow => kv["code"] # NoRow
      BY <1>1, Keys
    <3>2. /\ \A d, e \in KvCall : kvCall[d].use = "create" /\ kvCall[e].use = "create" => d = e
          /\ \A d \in KvCall : kvCall[d].use = "redeem" => CodeCreated
          /\ kv["code"] # NoRow => CodeCreated
      BY DEF KvInv, CodeInv
    <3>3. ASSUME NEW d \in KvCall, NEW e \in KvCall, kvCall'[d].use = "create", kvCall'[e].use = "create" PROVE d = e
      <4>1. kvCall[d].use = "create" /\ kvCall[e].use = "create"
        BY <2>2, <3>3
      <4> QED BY <3>2, <4>1
    <3>4. \A d \in KvCall : kvCall'[d].use = "redeem" => CodeCreated'
      BY <2>2, <3>2
    <3> QED BY <2>2, <3>1, <3>2, <3>3, <3>4
  <2>4. ASSUME NEW d \in KvCall, kvCall'[d].result = "paid" PROVE kv'["code"] = NoRow /\ \A e \in KvCall : kvCall'[e].result = "paid" => d = e
    <3>1. CASE result = "paid"
      <4>1. k = "code" /\ kv["code"] # NoRow
        BY <1>0, <3>1 DEF CallFits, Row
      <4>2. \A e \in KvCall : kvCall[e].result # "paid"
        BY <4>1 DEF KvInv, CodeInv
      <4> QED BY <1>1, <1>2, <2>4, <4>1, <4>2, Keys
    <3>2. CASE result # "paid"
      <4>1. \A e \in KvCall : kvCall'[e].result = "paid" => kvCall[e].result = "paid"
        BY <1>2, <3>2
      <4> QED BY <1>1, <2>4, <4>1, Keys DEF KvInv, CodeInv
    <3> QED BY <3>1, <3>2
  <2> QED BY <2>3, <2>4 DEF CodeInv
<1>8. CountInv'
  <2>1. kv'[Bucket] = kv[Bucket] /\ (window = 1 => kv'["window 2"] = NoRow)
    BY <1>1, Keys DEF KvInv, CountInv
  <2>2. ~kv'[Bucket'].past /\ kv'[Bucket'].v = counted'[Bucket']
    BY <1>4, <2>1 DEF KvInv, CountInv
  <2>3. window' = 1 => kv'["window 2"] = NoRow /\ counted'["window 2"] = 0 /\ \A d \in KvCall : kvCall'[d].key # "window 2"
    BY <1>2, <2>1 DEF KvInv, CountInv
  <2>4. ASSUME NEW d \in KvCall
        PROVE  /\ kvCall'[d].at = "bump" =>
                      rowLock'[kvCall'[d].key] = d /\ (kvCall'[d].key = Bucket' => kvCall'[d].saw = kv'[Bucket'])
               /\ kvCall'[d].at = "purge" => kvCall'[d].key # Bucket'
               /\ kvCall'[d].result # "let in late"
               /\ kvCall'[d].result = "late" /\ kvCall'[d].key = Bucket' =>
                      kvCall'[d].at # "attempt" /\ (kvCall'[d].at = "select" => counted'[Bucket'] >= MaxFailures)
    <3>1. CASE d = c
      BY <1>0, <1>2, <1>4, <3>1
    <3>2. CASE d # c
      <4>1. /\ kvCall'[d].at = kvCall[d].at /\ kvCall'[d].key = kvCall[d].key /\ kvCall'[d].saw = kvCall[d].saw
            /\ kvCall'[d].result = kvCall[d].result
        BY <1>2, <3>2
      <4> QED BY ZenonT(60), <1>4, <2>1, <4>1 DEF KvInv, CountInv
    <3> QED BY <3>1, <3>2
  <2> QED BY <2>2, <2>3, <2>4 DEF CountInv
<1>9. SetInv'
  <2> SUFFICES ASSUME NEW d \in KvCall, kvCall'[d].use = "set", ~kvCall'[d].undone
               PROVE  /\ kvCall'[d].at \in {"insert", "again", "done"} => ~kv'["own"].past
                      /\ kvCall'[d].at \in {"again", "done"} => kv'["own"] # NoRow
    BY DEF SetInv
  <2>1. kvCall[d].use = "set" /\ ~kvCall[d].undone /\ kvCall[d].key # k
    BY <1>2
  <2>2. kvCall[d].key = "own"
    BY <1>0, <2>1, Keys DEF KvInv, CallsInv, CallFits, KvCallRec
  <2>3. kv'["own"] = kv["own"]
    BY <1>1, <2>1, <2>2, Keys
  <2>4. kvCall'[d].at = kvCall[d].at \/ (d = c /\ at = "done")
    <3>1. d # c \/ at = "done"
      BY <1>2, <2>1
    <3> QED BY <1>2, <3>1
  <2>5. d # c \/ kvCall[c].key # "own"
    BY <2>1
  <2> QED BY <1>2, <2>1, <2>2, <2>3, <2>4, <2>5 DEF KvInv, SetInv
<1> QED BY <1>5, <1>6, <1>7, <1>8, <1>9 DEF KvInv

-----------------------------------------------------------------------------
\* What the types say of one call.
LEMMA KvTyped ==
    ASSUME KvInv, NEW c \in KvCall
    PROVE  /\ kvCall[c] \in KvCallRec /\ kvCall[c].key \in KvKey /\ Row(c) \in KvRow /\ CallFits(kvCall[c])
           /\ kvCall[c].result # "let in late" /\ (kvCall[c].at # "done" => kvCall[c].result # "paid")
           /\ kv \in [KvKey -> KvRow] /\ rowLock \in [KvKey -> KvCall \cup {0}] /\ counted \in [KvKey -> Nat]
           /\ window = 1 => kvCall[c].key # "window 2"
<1>1. kvCall[c] \in KvCallRec /\ CallFits(kvCall[c])
  BY DEF KvInv, KvTypeOK, CallsInv
<1>2. kvCall[c].key \in KvKey
  BY <1>1 DEF KvCallRec
<1>3. Row(c) \in KvRow
  BY <1>2 DEF KvInv, KvTypeOK, Row
<1> QED BY <1>1, <1>2, <1>3 DEF KvInv, KvTypeOK, CountInv, CallFits

\* A statement that only moves its call on.
LEMMA Going ==
    ASSUME KvInv, NEW c \in KvCall,
           NEW at \in {"update", "insert", "again", "select", "purge", "delete", "attempt", "lock", "relock", "first", "done"},
           Goes(c, at), UNCHANGED <<kv, rowLock, window, counted>>,
           kvCall[c].at \notin {"done", "idle"},
           CallFits([kvCall[c] EXCEPT !.at = at]),
           at = "purge" => kvCall[c].key # Bucket,
           kvCall[c].result = "late" /\ kvCall[c].key = Bucket => at \notin {"attempt", "select"},
           kvCall[c].use = "set" /\ ~kvCall[c].undone /\ at \in {"insert", "again", "done"} => ~kv["own"].past,
           kvCall[c].use = "set" /\ ~kvCall[c].undone /\ at \in {"again", "done"} => kv["own"] # NoRow
    PROVE  KvInv'
<1> DEFINE new == [kvCall[c] EXCEPT !.at = at]
<1>1. kvCall' = [kvCall EXCEPT ![c] = new]
  BY DEF Goes
<1>2. /\ new \in KvCallRec /\ new.at = at /\ new.use = kvCall[c].use /\ new.key = kvCall[c].key
      /\ new.result = kvCall[c].result /\ new.undone = kvCall[c].undone
  BY KvTyped DEF KvCallRec
<1>3. CallFits(new)
  OBVIOUS
<1> HIDE DEF new
<1> QED BY <1>1, <1>2, <1>3, KvTyped, Moves

\* A call begins with its first statement.
LEMMA BeginsKeeps == ASSUME KvInv, NEW c \in KvCall, NEW use \in DOMAIN First, Begins(c, use) PROVE KvInv'
<1> DEFINE key == CASE use \in {"create", "redeem"} -> "code" [] use = "login" -> Bucket [] OTHER -> "own"
           result == IF use = "login" /\ counted[Bucket] >= MaxFailures THEN "late" ELSE "none"
           new == [kvCall[c] EXCEPT !.use = use, !.at = First[use], !.key = key, !.result = result]
<1>1. /\ use \in {"create", "set", "get", "redeem", "login", "delete", "incr"}
      /\ First[use] = CASE use \in {"create", "set"} -> "update" [] use \in {"get", "redeem", "login"} -> "select"
                         [] use = "delete" -> "delete" [] OTHER -> "lock"
  BY DEF First
<1>2. kvCall[c] = NoKvCall /\ kvCall' = [kvCall EXCEPT ![c] = new] /\ UNCHANGED <<kv, rowLock, window, counted>>
  BY DEF Begins
<1>3. /\ key \in KvKey /\ (key = "code" <=> use \in {"create", "redeem"}) /\ (key \in {"window 1", "window 2"} <=> use = "login")
      /\ (use = "login" => key = Bucket) /\ (use # "login" => key # Bucket)
  BY <1>1, Keys
<1>4. result \in {"none", "late"} /\ (result = "late" => use = "login" /\ counted[Bucket] >= MaxFailures)
  OBVIOUS
<1>5. new \in KvCallRec /\ new.use = use /\ new.at = First[use] /\ new.key = key /\ new.result = result /\ new.undone = kvCall[c].undone
  <2>1. kvCall[c] \in KvCallRec /\ First[use] \in {"update", "select", "delete", "lock"}
    BY <1>1, KvTyped
  <2> HIDE DEF key, result
  <2> QED BY <1>3, <1>4, <2>1 DEF KvCallRec
<1> HIDE DEF new, key, result
<1>6. kvCall' \in [KvCall -> KvCallRec] /\ \A d \in KvCall : kvCall'[d] = IF d = c THEN new ELSE kvCall[d]
  BY <1>2, <1>5 DEF KvInv, KvTypeOK
<1>7. KvTypeOK' /\ Bucket' = Bucket
  BY <1>2, <1>6 DEF KvInv, KvTypeOK, Bucket
<1>8. CallsInv'
  <2>1. CallFits(new)
    BY <1>1, <1>3, <1>4, <1>5 DEF CallFits
  <2> QED BY <1>6, <2>1 DEF KvInv, CallsInv
<1>9. CodeInv'
  <2>1. kvCall[c].use = "none" /\ kvCall[c].result = "none"
    BY <1>2 DEF NoKvCall
  <2>2. ASSUME NEW d \in KvCall, NEW e \in KvCall, kvCall'[d].use = "create", kvCall'[e].use = "create" PROVE d = e
    <3>1. use = "create" => \A f \in KvCall : kvCall[f].use # "create"
      BY DEF Begins
    <3>2. \A f \in KvCall : kvCall'[f].use = "create" => (f = c /\ use = "create") \/ (f # c /\ kvCall[f].use = "create")
      BY <1>5, <1>6
    <3> QED BY <2>2, <3>1, <3>2 DEF KvInv, CodeInv
  <2>3. CodeCreated => CodeCreated'
    BY <1>6, <2>1 DEF CodeCreated
  <2>4. /\ \A d \in KvCall : kvCall'[d].use = "redeem" => CodeCreated'
        /\ kv'["code"] # NoRow => CodeCreated'
    <3>1. use = "redeem" => CodeCreated
      BY DEF Begins, CodeCreated
    <3>2. \A d \in KvCall : kvCall'[d].use = "redeem" => use = "redeem" \/ kvCall[d].use = "redeem"
      BY <1>5, <1>6
    <3>3. \A d \in KvCall : kvCall[d].use = "redeem" => CodeCreated
      BY DEF KvInv, CodeInv
    <3>4. kv["code"] # NoRow => CodeCreated
      BY DEF KvInv, CodeInv
    <3> QED BY <1>2, <2>3, <3>1, <3>2, <3>3, <3>4
  <2>5. \A d \in KvCall : kvCall'[d].result = "paid" => kvCall[d].result = "paid"
    BY <1>4, <1>5, <1>6
  <2>6. \A d, e \in KvCall : kvCall'[d].result = "paid" /\ kvCall'[e].result = "paid" => d = e /\ kv'["code"] = NoRow
    BY <1>2, <2>5 DEF KvInv, CodeInv
  <2> QED BY <2>2, <2>4, <2>6 DEF CodeInv
<1>10. CountInv'
  <2>1. ~kv'[Bucket'].past /\ kv'[Bucket'].v = counted'[Bucket']
    BY <1>2, <1>7 DEF KvInv, CountInv
  <2>2. window' = 1 => kv'["window 2"] = NoRow /\ counted'["window 2"] = 0 /\ \A d \in KvCall : kvCall'[d].key # "window 2"
    BY <1>2, <1>3, <1>5, <1>6, Keys DEF KvInv, CountInv, Bucket
  <2>3. ASSUME NEW d \in KvCall
        PROVE  /\ kvCall'[d].at = "bump" =>
                      rowLock'[kvCall'[d].key] = d /\ (kvCall'[d].key = Bucket' => kvCall'[d].saw = kv'[Bucket'])
               /\ kvCall'[d].at = "purge" => kvCall'[d].key # Bucket'
               /\ kvCall'[d].result # "let in late"
               /\ kvCall'[d].result = "late" /\ kvCall'[d].key = Bucket' =>
                      kvCall'[d].at # "attempt" /\ (kvCall'[d].at = "select" => counted'[Bucket'] >= MaxFailures)
    <3>1. CASE d = c
      BY <1>1, <1>2, <1>4, <1>5, <1>6, <1>7, <3>1
    <3>2. CASE d # c
      BY <1>2, <1>6, <1>7, <3>2 DEF KvInv, CountInv
    <3> QED BY <3>1, <3>2
  <2> QED BY <2>1, <2>2, <2>3 DEF CountInv
<1>11. SetInv'
  BY <1>1, <1>2, <1>5, <1>6 DEF KvInv, SetInv
<1> QED BY <1>7, <1>8, <1>9, <1>10, <1>11 DEF KvInv

\* An UPDATE that finds a row, or an INSERT that finds none, leaves the value there.
LEMMA SetKeeps == ASSUME KvInv, NEW c \in KvCall, SetUpdates(c) \/ SetInserts(c) PROVE KvInv'
<1> DEFINE row == [v |-> 1, past |-> FALSE]
<1>0. /\ kvCall[c].at \in {"update", "insert", "again"} /\ kvCall[c].use \in {"create", "set"}
      /\ kvCall[c].key \in {"code", "own"} /\ kvCall[c].key # Bucket /\ (kvCall[c].key = "code" => kvCall[c].use = "create")
      /\ rowLock[kvCall[c].key] \in {0, c} /\ UNCHANGED <<rowLock, window, counted>>
  <2>1. kvCall[c].at \in {"update", "insert", "again"} /\ rowLock[kvCall[c].key] \in {0, c} /\ UNCHANGED <<rowLock, window, counted>>
    BY DEF SetUpdates, SetInserts, At
  <2> QED BY <2>1, KvTyped, Keys DEF CallFits
<1>1. CASE kv' = [kv EXCEPT ![kvCall[c].key] = row] /\ Goes(c, "done")
  <2>1. row \in KvRow /\ row # NoRow /\ ~row.past
    BY KvRows DEF NoRow
  <2>2. ASSUME NEW k \in KvKey PROVE counted'[k] >= counted[k]
    <3>1. counted[k] \in Nat /\ counted' = counted
      BY <1>0, KvTyped
    <3> QED BY <3>1
  <2> HIDE DEF row
  <2> QED BY <1>0, <1>1, <2>1, <2>2, KvTyped, RowWritten DEF Goes
<1>2. CASE UNCHANGED kv /\ kvCall[c].at = "update" /\ Row(c) = NoRow /\ Goes(c, "insert")
  <2>1. CallFits([kvCall[c] EXCEPT !.at = "insert"])
    BY ZenonT(60), <1>0, KvTyped DEF CallFits, KvCallRec
  <2>2. kvCall[c].use = "set" => ~kv["own"].past
    <3>1. kvCall[c].use = "set" => kvCall[c].key = "own"
      BY <1>0, KvTyped DEF CallFits
    <3> QED BY <1>2, <3>1, KvRows DEF Row
  <2> QED BY <1>0, <1>2, <2>1, <2>2, KvTyped, Going
<1>3. CASE UNCHANGED kv /\ kvCall[c].at = "insert" /\ Row(c) # NoRow /\ Goes(c, "again")
  <2>1. CallFits([kvCall[c] EXCEPT !.at = "again"])
    BY <1>0, KvTyped DEF CallFits, KvCallRec
  <2>2. kvCall[c].use = "set" /\ ~kvCall[c].undone => ~kv["own"].past /\ kv["own"] # NoRow
    <3>1. kvCall[c].use = "set" => kvCall[c].key = "own"
      BY <1>0, KvTyped DEF CallFits
    <3> QED BY <1>3, <3>1 DEF KvInv, SetInv, Row
  <2> QED BY <1>0, <1>3, <2>1, <2>2, KvTyped, Going
<1>4. CASE UNCHANGED kv /\ kvCall[c].at = "again" /\ Row(c) = NoRow /\ Goes(c, "done")
  <2>1. CallFits([kvCall[c] EXCEPT !.at = "done"])
    BY <1>0, KvTyped DEF CallFits, KvCallRec
  <2>2. kvCall[c].use = "set" /\ ~kvCall[c].undone => kv["own"] # NoRow /\ ~kv["own"].past
    BY <1>4 DEF KvInv, SetInv
  <2> QED BY <1>0, <1>4, <2>1, <2>2, KvTyped, Going
<1> QED BY <1>1, <1>2, <1>3, <1>4 DEF SetUpdates, SetInserts, At

\* What follows a kv_get() is a statement the call may be at.
LEMMA FollowsFits ==
    ASSUME KvInv, NEW c \in KvCall, NEW v, kvCall[c].at \in {"select", "purge"}
    PROVE  /\ Follows(kvCall[c].use, v) \in {"done", "delete", "attempt"}
           /\ Follows(kvCall[c].use, v) = "delete" => kvCall[c].use = "redeem"
           /\ Follows(kvCall[c].use, v) = "attempt" => kvCall[c].use = "login" /\ ~TooMany(v)
           /\ kvCall[c].use \notin {"none", "create"}
<1>1. kvCall[c].use \notin {"none", "create"}
  BY KvTyped DEF CallFits
<1> QED BY <1>1 DEF Follows

\* A SELECT changes no row.
LEMMA SelectsKeeps == ASSUME KvInv, NEW c \in KvCall, Selects(c) PROVE KvInv'
<1>1. kvCall[c].at = "select" /\ UNCHANGED <<kv, rowLock, window, counted>> /\ kvCall[c].key \in KvKey /\ Row(c) = kv[kvCall[c].key]
  BY KvTyped DEF Selects, Row
<1>s. ASSUME kvCall[c].use = "set" PROVE FALSE
  \* kv_set() reads nothing.
  BY <1>1, <1>s, KvTyped DEF CallFits
<1>2. CASE Row(c).past
  <2>1. Goes(c, "purge") /\ kvCall[c].key # Bucket
    BY ZenonT(60), <1>1, <1>2 DEF Selects, KvInv, CountInv
  <2>2. CallFits([kvCall[c] EXCEPT !.at = "purge"])
    BY ZenonT(60), <1>1, KvTyped, FollowsFits DEF CallFits, KvCallRec
  <2> QED BY <1>1, <2>1, <2>2, KvTyped, Going
<1>3. CASE ~Row(c).past
  <2> DEFINE at == Follows(kvCall[c].use, Row(c).v)
  <2>1. Goes(c, at)
    BY <1>3 DEF Selects
  <2>2. /\ at \in {"done", "delete", "attempt"} /\ (at = "delete" => kvCall[c].use = "redeem")
        /\ (at = "attempt" => kvCall[c].use = "login" /\ ~TooMany(Row(c).v)) /\ kvCall[c].use \notin {"none", "create"}
    BY <1>1, FollowsFits
  <2> HIDE DEF at
  <2>3. CallFits([kvCall[c] EXCEPT !.at = at])
    BY <1>1, <2>2, KvTyped DEF CallFits, KvCallRec
  <2>4. kvCall[c].result = "late" /\ kvCall[c].key = Bucket => at # "attempt"
    <3>1. kvCall[c].result = "late" /\ kvCall[c].key = Bucket => Row(c).v >= MaxFailures
      BY <1>1 DEF KvInv, CountInv
    <3> QED BY <2>2, <3>1 DEF TooMany
  <2> QED BY <1>1, <1>s, <2>1, <2>2, <2>3, <2>4, KvTyped, Going
<1> QED BY <1>2, <1>3

\* What a call deletes has expired, or was to be deleted.
LEMMA DeletionsKeep == ASSUME KvInv, NEW c \in KvCall, Purges(c) \/ DeletesIt(c) PROVE KvInv'
<1>1. CASE Purges(c)
  <2>1. kvCall[c].at = "purge" /\ Deletes(c, Follows(kvCall[c].use, 0), kvCall[c].result) /\ UNCHANGED <<rowLock, window, counted>>
    BY <1>1 DEF Purges, At
  <2>2. kvCall[c].key # Bucket
    BY <2>1 DEF KvInv, CountInv
  <2>3. kvCall[c].result \in {"none", "late", "let in late", "paid"}
    BY KvTyped DEF KvCallRec
  <2> DEFINE at == Follows(kvCall[c].use, 0)
  <2>4. /\ at \in {"done", "delete", "attempt"} /\ (at = "delete" => kvCall[c].use \in {"redeem", "delete"})
        /\ (at = "attempt" => kvCall[c].use = "login")
    BY <2>1, FollowsFits
  <2>5. Deletes(c, at, kvCall[c].result)
    BY <2>1
  <2>6. kvCall[c].at \notin {"done", "failed", "idle", "update", "insert", "again"} /\ kvCall[c].result \in {"none", kvCall[c].result}
    BY <2>1
  <2> HIDE DEF at
  <2> QED BY <2>1, <2>2, <2>3, <2>4, <2>5, <2>6, RowDeleted
<1>2. CASE DeletesIt(c)
  <2> DEFINE result == IF kvCall[c].use = "redeem" /\ Paid(c) THEN "paid" ELSE "none"
  <2>1. kvCall[c].at = "delete" /\ Deletes(c, "done", result) /\ UNCHANGED <<rowLock, window, counted>>
    BY <1>2 DEF DeletesIt, At
  <2>2. kvCall[c].use \in {"redeem", "delete"}
    BY <2>1, KvTyped DEF CallFits
  <2>3. kvCall[c].key # Bucket
    BY <2>2, KvTyped, Keys DEF CallFits
  <2>4. result \in {"none", "paid"} /\ (result = "paid" => kvCall[c].use = "redeem" /\ Row(c) # NoRow)
    BY DEF Paid
  <2> HIDE DEF result
  <2> QED BY <2>1, <2>2, <2>3, <2>4, RowDeleted
<1> QED BY <1>1, <1>2

\* A failed attempt is recorded in the open window.
LEMMA LoginFailsKeeps == ASSUME KvInv, NEW c \in KvCall, LoginFails(c) PROVE KvInv'
<1> DEFINE result == IF kvCall[c].result = "late" /\ kvCall[c].key = Bucket THEN "let in late" ELSE kvCall[c].result
           new    == [kvCall[c] EXCEPT !.at = "lock", !.key = Bucket, !.result = result]
<1>1. kvCall[c].at = "attempt" /\ kvCall' = [kvCall EXCEPT ![c] = new] /\ UNCHANGED <<kv, rowLock, window, counted>>
  BY DEF LoginFails
<1>2. result = kvCall[c].result
  BY <1>1 DEF KvInv, CountInv
<1>3. /\ new \in KvCallRec /\ new.at = "lock" /\ new.key = Bucket /\ new.result = kvCall[c].result
      /\ new.use = kvCall[c].use /\ new.undone = kvCall[c].undone
  <2> HIDE DEF result
  <2> QED BY <1>2, KvTyped, Keys DEF KvCallRec
<1> HIDE DEF new
<1>4. kvCall[c].use = "login" /\ new.result # "paid" /\ new.result # "let in late"
  BY <1>1, <1>3, KvTyped DEF CallFits
<1>5. CallFits(new)
  BY <1>3, <1>4, Keys DEF CallFits
<1>6. window = 1 => new.key # "window 2"
  BY <1>3 DEF Bucket
<1> QED BY <1>1, <1>3, <1>4, <1>5, <1>6, KvTyped, Moves

\* A statement that failed has changed nothing, and frees what it had locked.
LEMMA FailuresKeep == ASSUME KvInv, NEW c \in KvCall, StatementFails(c) PROVE KvInv'
<1>1. PICK at \in {"failed", "attempt"} :
         /\ kvCall[c].at \notin {"idle", "attempt", "done", "failed"}
         /\ at = "attempt" => kvCall[c].use = "login"
         /\ kvCall' = [kvCall EXCEPT ![c].at = at, ![c].result = "none"]
         /\ rowLock' = [k \in KvKey |-> IF rowLock[k] = c THEN 0 ELSE rowLock[k]]
         /\ UNCHANGED <<kv, window, counted>>
  BY DEF StatementFails
<1> DEFINE new == [kvCall[c] EXCEPT !.at = at, !.result = "none"]
<1>2. /\ kvCall' = [kvCall EXCEPT ![c] = new] /\ new \in KvCallRec /\ new.at = at /\ new.result = "none"
      /\ new.use = kvCall[c].use /\ new.key = kvCall[c].key /\ new.undone = kvCall[c].undone
  BY <1>1, KvTyped DEF KvCallRec
<1> HIDE DEF new
<1>3. CallFits(new)
  BY <1>1, <1>2, KvTyped DEF CallFits
<1>4. rowLock' \in [KvKey -> KvCall \cup {0}]
  BY <1>1, KvTyped
<1>5. ASSUME NEW d \in KvCall, d # c, kvCall[d].at = "bump" PROVE rowLock'[kvCall[d].key] = rowLock[kvCall[d].key]
  <2>1. rowLock[kvCall[d].key] = d /\ kvCall[d].key \in KvKey
    BY <1>5, KvTyped DEF KvInv, CountInv
  <2> QED BY <1>1, <1>5, <2>1
<1> QED BY <1>1, <1>2, <1>3, <1>4, <1>5, KvTyped, Moves

\* Who raises a counter has its row locked.
LEMMA IncrKeeps == ASSUME KvInv, NEW c \in KvCall, IncrLocks(c) \/ IncrInserts(c) \/ IncrUpdates(c) PROVE KvInv'
<1>0. /\ kvCall[c].at \in {"lock", "relock", "first", "bump"} /\ kvCall[c].use \in {"incr", "login"}
      /\ kvCall[c].key # "code" /\ rowLock[kvCall[c].key] \in {0, c} /\ window' = window /\ kvCall[c].key \in KvKey
  <2>1. kvCall[c].at \in {"lock", "relock", "first", "bump"} /\ rowLock[kvCall[c].key] \in {0, c} /\ window' = window
    BY DEF IncrLocks, IncrInserts, IncrUpdates, At
  <2> QED BY <2>1, KvTyped DEF CallFits
<1>1. CASE IncrLocks(c) /\ Row(c) # NoRow
  <2> DEFINE new == [kvCall[c] EXCEPT !.at = "bump", !.saw = Row(c)]
  <2>1. /\ rowLock' = [rowLock EXCEPT ![kvCall[c].key] = c] /\ kvCall' = [kvCall EXCEPT ![c] = new]
        /\ kvCall[c].at # "bump" /\ UNCHANGED <<kv, window, counted>>
    BY <1>1 DEF IncrLocks, Locks, At
  <2>2. /\ new \in KvCallRec /\ new.at = "bump" /\ new.key = kvCall[c].key /\ new.result = kvCall[c].result
        /\ new.use = kvCall[c].use /\ new.undone = kvCall[c].undone /\ new.saw = kv[kvCall[c].key]
    BY KvTyped DEF KvCallRec, Row
  <2> HIDE DEF new
  <2>3. CallFits(new) /\ new.result # "paid" /\ kvCall[c].at # "done"
    BY <1>0, <2>2, KvTyped DEF CallFits
  <2>4. rowLock' \in [KvKey -> KvCall \cup {0}] /\ \A k \in KvKey : rowLock'[k] = IF k = kvCall[c].key THEN c ELSE rowLock[k]
    BY <2>1, KvTyped
  <2>5. ASSUME NEW d \in KvCall, d # c, kvCall[d].at = "bump" PROVE rowLock'[kvCall[d].key] = rowLock[kvCall[d].key]
    <3>1. rowLock[kvCall[d].key] = d /\ d # 0
      BY <2>5, KvAssumption DEF KvInv, CountInv
    <3>2. kvCall[d].key # kvCall[c].key /\ kvCall[d].key \in KvKey
      BY <1>0, <2>5, <3>1, KvTyped
    <3> QED BY <2>4, <3>2
  <2> QED BY <1>0, <2>1, <2>2, <2>3, <2>4, <2>5, KvTyped, Moves
<1>2. CASE IncrLocks(c) /\ Row(c) = NoRow
  <2> DEFINE at == IF kvCall[c].at = "lock" THEN "first" ELSE "done"
  <2>1. Goes(c, at) /\ UNCHANGED <<kv, rowLock, window, counted>> /\ at \in {"first", "done"}
    BY <1>2 DEF IncrLocks
  <2> HIDE DEF at
  <2>2. CallFits([kvCall[c] EXCEPT !.at = at])
    BY <1>0, <2>1, KvTyped DEF CallFits, KvCallRec
  <2> QED BY <1>0, <2>1, <2>2, KvTyped, Going
<1>3. CASE IncrInserts(c) /\ Row(c) # NoRow
  <2>1. Goes(c, "relock") /\ UNCHANGED <<kv, rowLock, window, counted>>
    BY <1>3 DEF IncrInserts
  <2>2. CallFits([kvCall[c] EXCEPT !.at = "relock"])
    BY <1>0, <2>1, KvTyped DEF CallFits, KvCallRec
  <2> QED BY <1>0, <2>1, <2>2, KvTyped, Going
<1>4. ASSUME NEW v \in Nat \ {0}, Records(kvCall[c].key, v), Goes(c, "done"),
             rowLock' \in [KvKey -> KvCall \cup {0}], \A k \in KvKey : k # kvCall[c].key => rowLock'[k] = rowLock[k],
             kvCall[c].key = Bucket => v = counted[Bucket] + 1
      PROVE  KvInv'
  <2> DEFINE row == [v |-> v, past |-> FALSE]
  <2>1. row \in KvRow /\ row # NoRow /\ ~row.past /\ row.v = v
    <3>1. row \in [v : Nat \ {0}, past : BOOLEAN] /\ row.v = v /\ row.past = FALSE
      OBVIOUS
    <3>2. row # NoRow
      BY <3>1, KvRows
    <3> QED BY <3>1, <3>2 DEF KvRow
  <2>2. kv' = [kv EXCEPT ![kvCall[c].key] = row] /\ counted' = [counted EXCEPT ![kvCall[c].key] = @ + 1]
    BY <1>4 DEF Records
  <2>3. kvCall' = [kvCall EXCEPT ![c].at = "done"]
    BY <1>4 DEF Goes
  <2> HIDE DEF row
  <2>4. counted' \in [KvKey -> Nat] /\ \A k \in KvKey : counted'[k] = IF k = kvCall[c].key THEN counted[k] + 1 ELSE counted[k]
    <3> DEFINE n == counted[kvCall[c].key] + 1
    <3>1. n \in Nat
      <4>1. counted[kvCall[c].key] \in Nat
        BY <1>0 DEF KvInv, KvTypeOK
      <4> QED BY <4>1
    <3>2. counted' = [counted EXCEPT ![kvCall[c].key] = n] /\ counted \in [KvKey -> Nat]
      BY <2>2 DEF KvInv, KvTypeOK
    <3>3. counted' \in [KvKey -> Nat] /\ \A k \in KvKey : counted'[k] = IF k = kvCall[c].key THEN n ELSE counted[k]
      <4> HIDE DEF n
      <4> QED BY <1>0, <3>1, <3>2
    <3> QED BY <3>3
  <2>5. ASSUME NEW k \in KvKey PROVE counted'[k] >= counted[k]
    <3>1. counted[k] \in Nat
      BY KvTyped
    <3> QED BY <2>4, <3>1
  <2>6. kvCall[c].key = Bucket => row.v = counted'[Bucket]
    BY <1>0, <1>4, <2>1, <2>4
  <2> QED BY <1>0, <1>4, <2>1, <2>2, <2>3, <2>4, <2>5, <2>6, RowWritten
<1>5. CASE IncrInserts(c) /\ Row(c) = NoRow
  <2>1. Records(kvCall[c].key, 1) /\ Goes(c, "done") /\ rowLock' = rowLock
    BY <1>5 DEF IncrInserts
  <2>2. kvCall[c].key = Bucket => counted[Bucket] = 0
    BY <1>5, KvRows DEF KvInv, CountInv, Row
  <2>3. kvCall[c].key = Bucket => 1 = counted[Bucket] + 1
    BY <2>2
  <2>4. rowLock' \in [KvKey -> KvCall \cup {0}] /\ \A k \in KvKey : k # kvCall[c].key => rowLock'[k] = rowLock[k]
    BY <2>1 DEF KvInv, KvTypeOK
  <2>5. 1 \in Nat \ {0}
    OBVIOUS
  <2> QED BY <1>4, <2>1, <2>3, <2>4, <2>5
<1>6. CASE IncrUpdates(c)
  <2> DEFINE v == IF kvCall[c].saw.past THEN 1 ELSE kvCall[c].saw.v + 1
  <2>1. kvCall[c].at = "bump" /\ Records(kvCall[c].key, v) /\ Goes(c, "done") /\ rowLock' = [rowLock EXCEPT ![kvCall[c].key] = 0]
    BY <1>6 DEF IncrUpdates, At
  <2>2. kvCall[c].saw \in KvRow
    BY KvTyped DEF KvCallRec
  <2>3. kvCall[c].saw.v \in Nat
    BY <2>2, KvRows
  <2>4. v \in Nat \ {0}
    BY <2>3
  <2>5. kvCall[c].key = Bucket => v = counted[Bucket] + 1
    BY <2>1 DEF KvInv, CountInv
  <2> HIDE DEF v
  <2>6. rowLock' \in [KvKey -> KvCall \cup {0}] /\ \A k \in KvKey : k # kvCall[c].key => rowLock'[k] = rowLock[k]
    BY <2>1, KvTyped
  <2> QED BY <1>4, <2>1, <2>4, <2>5, <2>6
<1> QED BY <1>1, <1>2, <1>3, <1>5, <1>6

\* A row runs out: what was set there is undone; not the counter of the window.
LEMMA ExpiresKeeps == ASSUME KvInv, NEW k \in KvKey, Expires(k) PROVE KvInv'
<1>0. /\ kv[k] # NoRow /\ ~kv[k].past /\ k # Bucket /\ k # "window 2" /\ UNCHANGED <<rowLock, window, counted>>
      /\ kvCall \in [KvCall -> KvCallRec] /\ kv \in [KvKey -> KvRow]
  <2>1. /\ kv[k] # NoRow /\ ~kv[k].past /\ (k = "window 1" => window = 2) /\ k # "window 2"
        /\ UNCHANGED <<rowLock, window, counted>>
    BY DEF Expires
  <2>2. kvCall \in [KvCall -> KvCallRec] /\ kv \in [KvKey -> KvRow] /\ window \in {1, 2}
    BY DEF KvInv, KvTypeOK
  <2>3. k = "window 1" => k # Bucket
    <3>1. window = 2 => Bucket = "window 2"
      BY DEF Bucket
    <3> QED BY <2>1, <3>1
  <2>4. k # "window 1" => k # Bucket
    BY <2>1, Keys
  <2> QED BY <2>1, <2>2, <2>3, <2>4
<1>1. kv' \in [KvKey -> KvRow] /\ kv'[k] # NoRow /\ \A j \in KvKey : j # k => kv'[j] = kv[j]
  <2>1. kv[k] \in [v : Nat \ {0}, past : BOOLEAN]
    BY <1>0 DEF KvRow
  <2>2. [kv[k] EXCEPT !.past = TRUE] \in [v : Nat \ {0}, past : BOOLEAN] /\ [kv[k] EXCEPT !.past = TRUE].past = TRUE
    BY <2>1
  <2>3. [kv[k] EXCEPT !.past = TRUE] # NoRow /\ [kv[k] EXCEPT !.past = TRUE] \in KvRow
    BY <2>2, KvRows DEF KvRow
  <2>4. kv' = [kv EXCEPT ![k] = [kv[k] EXCEPT !.past = TRUE]]
    BY DEF Expires
  <2> HIDE DEF KvRow
  <2> QED BY <1>0, <2>3, <2>4
<1>2. ASSUME NEW d \in KvCall
      PROVE  /\ kvCall'[d] \in KvCallRec
             /\ kvCall'[d].use = kvCall[d].use /\ kvCall'[d].key = kvCall[d].key /\ kvCall'[d].saw = kvCall[d].saw
             /\ kvCall'[d].at = kvCall[d].at /\ kvCall'[d].result = kvCall[d].result
             /\ ~kvCall'[d].undone => ~kvCall[d].undone /\ ~(kvCall[d].key = k /\ kvCall[d].use = "set")
  <2>1. kvCall'[d] = IF kvCall[d].key = k /\ kvCall[d].use = "set" THEN [kvCall[d] EXCEPT !.undone = TRUE] ELSE kvCall[d]
    BY DEF Expires
  <2>2. kvCall[d] \in KvCallRec
    BY <1>0
  <2>3. CASE kvCall[d].key = k /\ kvCall[d].use = "set"
    <3>1. kvCall'[d] = [kvCall[d] EXCEPT !.undone = TRUE]
      BY <2>1, <2>3
    <3> QED BY <2>2, <3>1 DEF KvCallRec
  <2>4. CASE ~(kvCall[d].key = k /\ kvCall[d].use = "set")
    BY <2>1, <2>2, <2>4
  <2> QED BY <2>3, <2>4
<1>3. kvCall' \in [KvCall -> KvCallRec]
  <2>1. kvCall' = [d \in KvCall |-> kvCall'[d]]
    BY DEF Expires
  <2> QED BY <1>2, <2>1
<1>4. Bucket' = Bucket
  BY <1>0 DEF Bucket
<1>5. KvTypeOK'
  BY <1>0, <1>1, <1>3 DEF KvInv, KvTypeOK
<1>6. CallsInv'
  <2>1. ASSUME NEW d \in KvCall PROVE CallFits(kvCall'[d])
    <3>1. CallFits(kvCall[d])
      BY DEF KvInv, CallsInv
    <3> QED BY <1>2, <3>1 DEF CallFits
  <2> QED BY <2>1 DEF CallsInv
<1>7. CodeInv'
  <2>1. kv'["code"] = NoRow <=> kv["code"] = NoRow
    BY <1>0, <1>1, Keys
  <2>2. CodeCreated' <=> CodeCreated
    BY <1>2 DEF CodeCreated
  <2>3. \A d \in KvCall : kvCall'[d].use = kvCall[d].use /\ kvCall'[d].result = kvCall[d].result
    BY <1>2
  <2> QED BY <2>1, <2>2, <2>3 DEF KvInv, CodeInv
<1>8. CountInv'
  <2>1. kv'[Bucket] = kv[Bucket] /\ kv'["window 2"] = kv["window 2"]
    BY <1>0, <1>1, Keys
  <2>2. \A d \in KvCall : /\ kvCall'[d].at = kvCall[d].at /\ kvCall'[d].key = kvCall[d].key /\ kvCall'[d].saw = kvCall[d].saw
                          /\ kvCall'[d].result = kvCall[d].result
    BY <1>2
  <2> QED BY ZenonT(60), <1>0, <1>4, <2>1, <2>2 DEF KvInv, CountInv
<1>9. SetInv'
  <2> SUFFICES ASSUME NEW d \in KvCall, kvCall'[d].use = "set", ~kvCall'[d].undone
               PROVE  /\ kvCall'[d].at \in {"insert", "again", "done"} => ~kv'["own"].past
                      /\ kvCall'[d].at \in {"again", "done"} => kv'["own"] # NoRow
    BY DEF SetInv
  <2>1. kvCall[d].use = "set" /\ ~kvCall[d].undone /\ kvCall[d].key # k /\ kvCall'[d].at = kvCall[d].at
    BY <1>2
  <2>2. kvCall[d].key = "own"
    BY <2>1, KvTyped, Keys DEF CallFits
  <2>3. kv'["own"] = kv["own"]
    BY <1>1, <2>1, <2>2, Keys
  <2> QED BY <2>1, <2>3 DEF KvInv, SetInv
<1> QED BY <1>5, <1>6, <1>7, <1>8, <1>9 DEF KvInv

\* The prune takes rows that have run out, which nobody's set has to answer for.
LEMMA PruneKeeps == ASSUME KvInv, NEW k \in KvKey, Prune(k) PROVE KvInv'
<1>0. kv[k] # NoRow /\ kv[k].past /\ UNCHANGED <<rowLock, kvCall, window, counted>> /\ kv \in [KvKey -> KvRow]
  BY DEF Prune, PrunesIf, KvInv, KvTypeOK
<1>1. k # Bucket
  BY <1>0 DEF KvInv, CountInv
<1>2. kv' \in [KvKey -> KvRow] /\ kv'[k] = NoRow /\ \A j \in KvKey : j # k => kv'[j] = kv[j]
  BY <1>0, KvRows DEF Prune
<1>3. KvTypeOK' /\ CallsInv' /\ Bucket' = Bucket
  BY <1>0, <1>2 DEF KvInv, KvTypeOK, CallsInv, Bucket
<1>4. CodeInv'
  <2>1. (kv'["code"] # NoRow => kv["code"] # NoRow) /\ (CodeCreated' <=> CodeCreated)
    BY <1>0, <1>2, Keys DEF CodeCreated
  <2> QED BY <1>0, <2>1 DEF KvInv, CodeInv
<1>5. CountInv'
  <2>1. kv'[Bucket] = kv[Bucket] /\ (kv["window 2"] = NoRow => kv'["window 2"] = NoRow)
    BY <1>1, <1>2, Keys
  <2> QED BY <1>0, <1>3, <2>1 DEF KvInv, CountInv
<1>6. SetInv'
  <2>1. CASE k = "own"
    BY <1>0, <1>2, <2>1, KvRows DEF KvInv, SetInv
  <2>2. CASE k # "own"
    <3>1. kv'["own"] = kv["own"]
      BY <1>2, <2>2, Keys
    <3> QED BY <1>0, <3>1 DEF KvInv, SetInv
  <2> QED BY <2>1, <2>2
<1> QED BY <1>3, <1>4, <1>5, <1>6 DEF KvInv

\* The key of the next window is unused until the first one ends.
LEMMA WindowKeeps == ASSUME KvInv, WindowEnds PROVE KvInv'
<1>0. window = 1 /\ window' = 2 /\ UNCHANGED <<kv, rowLock, kvCall, counted>> /\ Bucket' = "window 2"
  BY DEF WindowEnds, Bucket
<1>1. KvTypeOK' /\ CallsInv'
  BY <1>0 DEF KvInv, KvTypeOK, CallsInv
<1>2. CodeInv' /\ SetInv'
  BY <1>0 DEF KvInv, CodeInv, CodeCreated, SetInv
<1>3. CountInv'
  <2>1. kv["window 2"] = NoRow /\ counted["window 2"] = 0 /\ \A c \in KvCall : kvCall[c].key # "window 2"
    BY <1>0 DEF KvInv, CountInv
  <2> QED BY <1>0, <2>1, KvRows DEF KvInv, CountInv
<1> QED BY <1>1, <1>2, <1>3 DEF KvInv

\* Every step keeps the invariant.
LEMMA KvKept == KvInv /\ [KvNext]_kvVars => KvInv'
<1> SUFFICES ASSUME KvInv, [KvNext]_kvVars PROVE KvInv'
  OBVIOUS
<1>1. CASE UNCHANGED kvVars
  BY <1>1 DEF kvVars, KvInv, KvTypeOK, CallsInv, CodeInv, CodeCreated, CountInv, SetInv, Bucket
<1> QED BY <1>1, BeginsKeeps, SetKeeps, SelectsKeeps, DeletionsKeep, FailuresKeep, LoginFailsKeeps, IncrKeeps, ExpiresKeeps, PruneKeeps,
           WindowKeeps DEF KvNext

\* The table of the key-value store keeps its types.
THEOREM KvTypeCorrect == KvSpec => []KvTypeOK
<1>1. KvInv => KvTypeOK
  BY DEF KvInv
<1> QED BY <1>1, KvStart, KvKept, PTL DEF KvSpec

\* However the statements of however many calls on however many instances come
\* to lie, a code is paid once, every failure counts, and what was set stays.
THEOREM ValuesCorrect == KvSpec => []ValuesStand
<1>1. KvInv => ValuesStand
  <2> SUFFICES ASSUME KvInv PROVE ValuesStand
    OBVIOUS
  <2>1. RedeemedOnce
    <3> DEFINE paid == {c \in KvCall : kvCall[c].result = "paid"}
    <3>1. \A c, d \in paid : c = d
      BY DEF KvInv, CodeInv
    <3>2. CASE paid = {}
      BY <3>2, FS_EmptySet DEF RedeemedOnce
    <3>3. CASE paid # {}
      <4>1. PICK c \in paid : TRUE
        BY <3>3
      <4>2. paid = {c}
        BY <3>1, <4>1
      <4>3. Cardinality(paid) = 1
        BY <4>2, FS_Singleton
      <4> QED BY <4>3 DEF RedeemedOnce
    <3> QED BY <3>2, <3>3
  <2>2. EveryFailureCounts
    BY DEF KvInv, CountInv, EveryFailureCounts
  <2>3. WhatIsSetStays
    BY DEF KvInv, SetInv, WhatIsSetStays
  <2> QED BY <2>1, <2>2, <2>3 DEF ValuesStand
<1> QED BY <1>1, KvStart, KvKept, PTL DEF KvSpec

-----------------------------------------------------------------------------
(* Sessions: a login that walks the chain of providers, and what a key's   *)
(* rows are between its creation and its deletion.                         *)

\* While nobody changes the chain and the database answers, a login of the administrator still has the
\* local provider to ask if there is one; so has a login that has just begun.
StillToAsk ==
    \A l \in Attempt :
        attempt[l].who = "admin" /\ attempt[l].at = "asks" /\ attempt[l].undisturbed /\ ~attempt[l].failed
            /\ Contains(provided, "local") => Contains(attempt[l].left, "local")

\* A key is made once, by the login it is of; a request was late only with a
\* key that is still deleted, and is not let go on.
KeysInv ==
    /\ \A l \in Attempt : apiKey[l] # "none" => attempt[l].at = "done"
    /\ \A v \in Visit : visit[v].at # "none" =>
          /\ visit[v].key \in Attempt /\ apiKey[visit[v].key] # "none"
          /\ visit[v].late => apiKey[visit[v].key] = "deleted" /\ visit[v].at \in {"came", "refused"}
    /\ KeyOpens

LoginsInv == StillToAsk /\ AdminGetsIn

SessionsInv == SessionsTypeOK /\ LoginsInv /\ KeysInv

\* At boot nobody has logged in.
LEMMA SessionsStart == SessionsInit => SessionsInv
<1> SUFFICES ASSUME SessionsInit PROVE SessionsInv
  OBVIOUS
<1>1. <<>> \in Seq(Provider) /\ Chains \subseteq Seq(Provider)
  BY DEF Chains, Provider
<1>2. NoReload \in ReloadRec /\ NoAttempt \in AttemptRec /\ NoVisit \in VisitRec
  BY <1>1 DEF NoReload, NoAttempt, NoVisit, ReloadRec, AttemptRec, VisitRec
<1>3. SessionsTypeOK
  BY <1>1, <1>2 DEF SessionsInit, SessionsTypeOK
<1> QED BY <1>3 DEF SessionsInit, SessionsInv, StillToAsk, KeysInv, LoginsInv, AdminGetsIn, KeyOpens, NoAttempt, NoVisit

\* What a change of the chain does to the logins that run.
LEMMA ChainDisturbs ==
    ASSUME SessionsTypeOK, NEW new \in Seq(Provider), Chain(new)
    PROVE  /\ provided' = new
           /\ attempt' \in [Attempt -> AttemptRec]
           /\ \A l \in Attempt :
                 /\ attempt'[l].who = attempt[l].who /\ attempt'[l].at = attempt[l].at
                 /\ attempt'[l].left = attempt[l].left /\ attempt'[l].failed = attempt[l].failed
                 /\ attempt'[l].undisturbed => attempt[l].undisturbed /\ new = provided
<1>1. ASSUME NEW l \in Attempt
      PROVE  /\ attempt'[l] = [attempt[l] EXCEPT !.undisturbed = attempt[l].undisturbed /\ new = provided]
             /\ attempt[l] \in AttemptRec
  BY <1>1 DEF Chain, SessionsTypeOK
<1>2. ASSUME NEW l \in Attempt
      PROVE  /\ attempt'[l] \in AttemptRec
             /\ attempt'[l].who = attempt[l].who /\ attempt'[l].at = attempt[l].at
             /\ attempt'[l].left = attempt[l].left /\ attempt'[l].failed = attempt[l].failed
             /\ attempt'[l].undisturbed => attempt[l].undisturbed /\ new = provided
  BY <1>1 DEF AttemptRec
<1>3. attempt' = [l \in Attempt |-> attempt'[l]]
  BY DEF Chain
<1> QED BY <1>2, <1>3 DEF Chain

\* What is left of a chain after its first provider.
LEMMA TailTyped ==
    ASSUME NEW s \in Seq(Provider), s # <<>>
    PROVE  Head(s) \in Provider /\ Tail(s) \in Seq(Provider)
  OBVIOUS

\* Another provider than the local one was asked: the local one is still to be.
LEMMA LocalIsLeft ==
    ASSUME NEW s \in Seq(Provider), s # <<>>, Contains(s, "local"), Head(s) # "local"
    PROVE  Contains(Tail(s), "local")
<1>1. PICK i \in 1..Len(s) : s[i] = "local"
  BY DEF Contains
<1>2. i # 1 /\ i - 1 \in 1..Len(Tail(s)) /\ Tail(s)[i - 1] = s[i]
  BY <1>1
<1> QED BY <1>1, <1>2 DEF Contains

\* What asking a provider does to a login, and what the fallback does.
LEMMA ProvidersAsked ==
    ASSUME SessionsTypeOK, NEW l \in Attempt, NEW answers \in BOOLEAN, AsksProvider(l, answers)
    PROVE  \E failed \in BOOLEAN :
             \/ attempt' = [attempt EXCEPT ![l] = [attempt[l] EXCEPT !.at = "accepted"]]
             \/ /\ attempt' = [attempt EXCEPT ![l] = [attempt[l] EXCEPT !.left = Tail(attempt[l].left), !.failed = failed]]
                /\ attempt[l].failed => failed
                /\ attempt[l].who = "admin" /\ Head(attempt[l].left) = "local" => failed
<1> DEFINE p == Head(attempt[l].left)
           now == attempt[l].failed \/ (p = "local" /\ ~answers)
<1>1. now \in BOOLEAN
  OBVIOUS
<1>2. CASE answers /\ Knows(p, attempt[l].who)
  BY <1>1, <1>2 DEF AsksProvider, Attempts
<1>3. CASE ~(answers /\ Knows(p, attempt[l].who))
  <2>1. attempt' = [attempt EXCEPT ![l].left = Tail(@), ![l].failed = @ \/ (p = "local" /\ ~answers)]
    BY <1>3 DEF AsksProvider
  <2>2. attempt' = [attempt EXCEPT ![l] = [attempt[l] EXCEPT !.left = Tail(attempt[l].left), !.failed = now]]
    BY <2>1 DEF SessionsTypeOK, AttemptRec
  <2>3. attempt[l].who = "admin" /\ p = "local" => now
    BY <1>3 DEF Knows
  <2> HIDE DEF now
  <2>4. attempt[l].failed => now
    BY DEF now
  <2> QED BY <1>1, <2>2, <2>3, <2>4
<1> QED BY <1>2, <1>3

LEMMA FellBack ==
    ASSUME SessionsTypeOK, NEW l \in Attempt, NEW answers \in BOOLEAN, FallsBack(l, answers)
    PROVE  \E at \in {"accepted", "refused"}, failed \in BOOLEAN :
             /\ attempt' = [attempt EXCEPT ![l] = [attempt[l] EXCEPT !.at = at, !.failed = failed]]
             /\ attempt[l].failed => failed
             /\ at = "refused" /\ attempt[l].who = "admin" => ~LocalIsMissing \/ failed
<1> DEFINE now == attempt[l].failed \/ (LocalIsMissing /\ ~answers)
           at  == IF LocalIsMissing /\ answers /\ attempt[l].who = "admin" THEN "accepted" ELSE "refused"
<1>1. now \in BOOLEAN /\ at \in {"accepted", "refused"}
  OBVIOUS
<1>2. attempt' = [attempt EXCEPT ![l] = [attempt[l] EXCEPT !.at = at, !.failed = now]]
  BY DEF FallsBack, SessionsTypeOK, AttemptRec
<1>3. attempt[l].failed => now
  OBVIOUS
<1>4. at = "refused" /\ attempt[l].who = "admin" => ~LocalIsMissing \/ now
  OBVIOUS
<1> HIDE DEF now, at
<1> QED BY <1>1, <1>2, <1>3, <1>4

\* Every step keeps the types,
LEMMA SessionsTyped == SessionsTypeOK /\ KeysInv /\ [SessionsNext]_sessionVars => SessionsTypeOK'
<1> SUFFICES ASSUME SessionsTypeOK, KeysInv, [SessionsNext]_sessionVars PROVE SessionsTypeOK'
  OBVIOUS
<1>0. <<>> \in Seq(Provider) /\ Chains \subseteq Seq(Provider)
  BY DEF Chains, Provider
<1>1. ASSUME NEW r \in Reload, ClearProviders(r) PROVE SessionsTypeOK'
  BY <1>0, <1>1, ChainDisturbs DEF ClearProviders, SessionsTypeOK, ReloadRec
<1>2. ASSUME NEW r \in Reload, LoadVaultData(r) PROVE SessionsTypeOK'
  BY <1>0, <1>2 DEF LoadVaultData, SessionsTypeOK, ReloadRec
<1>3. ASSUME NEW r \in Reload, RegisterProvider(r) PROVE SessionsTypeOK'
  <2> DEFINE p   == Head(reload[r].left)
             new == IF Contains(provided, p) THEN provided ELSE Append(provided, p)
  <2>1. reload[r] \in ReloadRec /\ reload[r].left # <<>> /\ provided \in Seq(Provider)
    BY <1>3 DEF RegisterProvider, SessionsTypeOK
  <2>2. p \in Provider /\ Tail(reload[r].left) \in Seq(Provider)
    BY <2>1, TailTyped DEF ReloadRec
  <2>3. new \in Seq(Provider)
    BY <2>1, <2>2
  <2>4. Chain(new) /\ reload' = [reload EXCEPT ![r].left = Tail(@)]
    BY <1>3 DEF RegisterProvider
  <2>5. provided' \in Seq(Provider) /\ attempt' \in [Attempt -> AttemptRec]
    BY <2>3, <2>4, ChainDisturbs
  <2>6. reload' \in [Reload -> ReloadRec]
    BY <2>2, <2>4 DEF SessionsTypeOK, ReloadRec
  <2> QED BY <1>3, <2>5, <2>6 DEF RegisterProvider, SessionsTypeOK
<1>4. ASSUME NEW r \in Reload, NEW c \in Chains, SaveVaultData(r, c) PROVE SessionsTypeOK'
  BY <1>4 DEF SaveVaultData, SessionsTypeOK, ReloadRec
<1>5. ASSUME NEW l \in Attempt, NEW answers \in BOOLEAN, FallsBack(l, answers) PROVE SessionsTypeOK'
  <2>1. PICK at \in {"accepted", "refused"}, failed \in BOOLEAN :
           attempt' = [attempt EXCEPT ![l] = [attempt[l] EXCEPT !.at = at, !.failed = failed]]
    BY <1>5, FellBack
  <2>2. [attempt[l] EXCEPT !.at = at, !.failed = failed] \in AttemptRec
    BY DEF SessionsTypeOK, AttemptRec
  <2> QED BY <1>5, <2>1, <2>2 DEF FallsBack, SessionsTypeOK
<1>6. ASSUME NEW l \in Attempt, NEW stored \in BOOLEAN, CreateKey(l, stored) PROVE SessionsTypeOK'
  BY <1>6 DEF CreateKey, Attempts, SessionsTypeOK, AttemptRec
<1>7. ASSUME NEW l \in Attempt, NEW who \in {"admin", "other"}, LoginStarts(l, who) PROVE SessionsTypeOK'
  BY <1>7 DEF LoginStarts, SessionsTypeOK, AttemptRec
<1>8. ASSUME NEW l \in Attempt, NEW answers \in BOOLEAN, AsksProvider(l, answers) PROVE SessionsTypeOK'
  <2>1. attempt[l] \in AttemptRec /\ attempt[l].left # <<>>
    BY <1>8 DEF AsksProvider, SessionsTypeOK
  <2>2. Tail(attempt[l].left) \in Seq(Provider)
    BY <2>1, TailTyped DEF AttemptRec
  <2>3. PICK failed \in BOOLEAN :
           \/ attempt' = [attempt EXCEPT ![l] = [attempt[l] EXCEPT !.at = "accepted"]]
           \/ attempt' = [attempt EXCEPT ![l] = [attempt[l] EXCEPT !.left = Tail(attempt[l].left), !.failed = failed]]
    BY <1>8, ProvidersAsked
  <2>4. /\ [attempt[l] EXCEPT !.at = "accepted"] \in AttemptRec
        /\ [attempt[l] EXCEPT !.left = Tail(attempt[l].left), !.failed = failed] \in AttemptRec
    BY <2>1, <2>2 DEF AttemptRec
  <2>5. attempt' \in [Attempt -> AttemptRec]
    BY <2>3, <2>4 DEF SessionsTypeOK
  <2> QED BY <1>8, <2>5 DEF AsksProvider, SessionsTypeOK
<1>9. ASSUME NEW v \in Visit, NEW l \in Attempt, Presents(v, l) PROVE SessionsTypeOK'
  BY <1>9 DEF Presents, SessionsTypeOK, VisitRec
<1>10. ASSUME NEW v \in Visit, NEW answers \in BOOLEAN, VerifyReads(v, answers) PROVE SessionsTypeOK'
  <2> DEFINE seen == IF answers THEN apiKey[visit[v].key] ELSE "nothing"
  <2>1. apiKey[visit[v].key] \in {"live", "deleted"}
    BY <1>10 DEF SessionsTypeOK, KeysInv, VerifyReads
  <2>2. [visit[v] EXCEPT !.saw = seen, !.at = IF seen = "live" THEN "read" ELSE "refused"] \in VisitRec
    BY <2>1 DEF SessionsTypeOK, VisitRec
  <2>3. visit' \in [Visit -> VisitRec]
    BY <1>10, <2>2 DEF VerifyReads, SessionsTypeOK
  <2> QED BY <1>10, <2>3 DEF VerifyReads, SessionsTypeOK
<1>11. ASSUME NEW v \in Visit, NEW answers \in BOOLEAN, Logout(v, answers) PROVE SessionsTypeOK'
  BY <1>11 DEF Logout, SessionsTypeOK, VisitRec
<1>12. ASSUME NEW v \in Visit, NEW noted \in BOOLEAN, VerifyCommits(v, noted) PROVE SessionsTypeOK'
  BY <1>12 DEF VerifyCommits, LetIn, SessionsTypeOK, VisitRec
<1>13. ASSUME UNCHANGED sessionVars PROVE SessionsTypeOK'
  BY <1>13 DEF sessionVars, SessionsTypeOK
<1> QED BY <1>1, <1>2, <1>3, <1>4, <1>5, <1>6, <1>7, <1>8, <1>9, <1>10, <1>11, <1>12, <1>13 DEF SessionsNext

\* the hope of the administrator,
LEMMA LoginsKept == SessionsTypeOK /\ LoginsInv /\ [SessionsNext]_sessionVars => LoginsInv'
<1> SUFFICES ASSUME SessionsTypeOK, LoginsInv, [SessionsNext]_sessionVars PROVE LoginsInv'
  OBVIOUS
<1>0. StillToAsk /\ AdminGetsIn /\ <<>> \in Seq(Provider)
  BY DEF LoginsInv
<1>c. ASSUME NEW new \in Seq(Provider), Chain(new) PROVE LoginsInv'
  BY <1>0, <1>c, ChainDisturbs DEF LoginsInv, StillToAsk, AdminGetsIn
<1>1. ASSUME NEW r \in Reload, ClearProviders(r) PROVE LoginsInv'
  BY <1>0, <1>1, <1>c DEF ClearProviders
<1>2. ASSUME NEW r \in Reload, RegisterProvider(r) PROVE LoginsInv'
  <2> DEFINE p   == Head(reload[r].left)
             new == IF Contains(provided, p) THEN provided ELSE Append(provided, p)
  <2>1. reload[r] \in ReloadRec /\ reload[r].left # <<>> /\ provided \in Seq(Provider)
    BY <1>2 DEF RegisterProvider, SessionsTypeOK
  <2>2. p \in Provider
    BY <2>1, TailTyped DEF ReloadRec
  <2>3. new \in Seq(Provider)
    BY <2>1, <2>2
  <2>4. Chain(new)
    BY <1>2 DEF RegisterProvider
  <2> QED BY <1>c, <2>3, <2>4
<1>3. ASSUME NEW l \in Attempt, NEW answers \in BOOLEAN, FallsBack(l, answers) PROVE LoginsInv'
  <2>1. ~Contains(<<>>, "local")
    BY DEF Contains
  <2>2. attempt[l].who = "admin" /\ attempt[l].undisturbed /\ ~attempt[l].failed => LocalIsMissing
    BY <1>0, <1>3, <2>1 DEF FallsBack, StillToAsk, LocalIsMissing
  <2>3. PICK at \in {"accepted", "refused"}, failed \in BOOLEAN :
           /\ attempt' = [attempt EXCEPT ![l] = [attempt[l] EXCEPT !.at = at, !.failed = failed]]
           /\ attempt[l].failed => failed
           /\ at = "refused" /\ attempt[l].who = "admin" => ~LocalIsMissing \/ failed
    BY <1>3, FellBack DEF SessionsInv
  <2>4. UNCHANGED provided
    BY <1>3 DEF FallsBack
  <2>5. /\ attempt'[l].who = attempt[l].who /\ attempt'[l].undisturbed = attempt[l].undisturbed
        /\ attempt'[l].at = at /\ attempt'[l].failed = failed
        /\ \A k \in Attempt : k # l => attempt'[k] = attempt[k]
    BY <2>3 DEF SessionsTypeOK, AttemptRec
  <2> QED BY <1>0, <2>2, <2>3, <2>4, <2>5 DEF LoginsInv, StillToAsk, AdminGetsIn
<1>4. ASSUME NEW l \in Attempt, NEW stored \in BOOLEAN, CreateKey(l, stored) PROVE LoginsInv'
  BY <1>0, <1>4 DEF CreateKey, Attempts, SessionsTypeOK, LoginsInv, AdminGetsIn, StillToAsk
<1>5. ASSUME NEW l \in Attempt, NEW who \in {"admin", "other"}, LoginStarts(l, who) PROVE LoginsInv'
  BY <1>0, <1>5 DEF LoginStarts, SessionsTypeOK, LoginsInv, AdminGetsIn, StillToAsk
<1>6. ASSUME NEW l \in Attempt, NEW answers \in BOOLEAN, AsksProvider(l, answers) PROVE LoginsInv'
  <2> DEFINE p == Head(attempt[l].left)
  <2>0. UNCHANGED provided /\ attempt[l].at = "asks" /\ attempt[l].left # <<>> /\ attempt[l] \in AttemptRec
    BY <1>6 DEF AsksProvider, SessionsTypeOK
  <2>a. PICK failed \in BOOLEAN :
             \/ attempt' = [attempt EXCEPT ![l] = [attempt[l] EXCEPT !.at = "accepted"]]
             \/ /\ attempt' = [attempt EXCEPT ![l] = [attempt[l] EXCEPT !.left = Tail(attempt[l].left), !.failed = failed]]
                /\ attempt[l].failed => failed
                /\ attempt[l].who = "admin" /\ p = "local" => failed
    BY <1>6, ProvidersAsked DEF SessionsInv
  <2>1. CASE attempt' = [attempt EXCEPT ![l] = [attempt[l] EXCEPT !.at = "accepted"]]
    BY <1>0, <2>0, <2>1 DEF SessionsTypeOK, LoginsInv, AdminGetsIn, StillToAsk
  <2>2. CASE /\ attempt' = [attempt EXCEPT ![l] = [attempt[l] EXCEPT !.left = Tail(attempt[l].left), !.failed = failed]]
             /\ attempt[l].failed => failed
             /\ attempt[l].who = "admin" /\ p = "local" => failed
    <3>1. /\ attempt'[l].who = attempt[l].who /\ attempt'[l].undisturbed = attempt[l].undisturbed
          /\ attempt'[l].at = "asks" /\ attempt'[l].failed = failed /\ attempt'[l].left = Tail(attempt[l].left)
          /\ \A k \in Attempt : k # l => attempt'[k] = attempt[k]
      BY <2>0, <2>2 DEF SessionsTypeOK, AttemptRec
    <3>2. attempt[l].who = "admin" /\ ~failed /\ Contains(attempt[l].left, "local") => Contains(Tail(attempt[l].left), "local")
      BY <2>0, <2>2, LocalIsLeft DEF AttemptRec
    <3> QED BY <1>0, <2>0, <2>2, <3>1, <3>2 DEF LoginsInv, AdminGetsIn, StillToAsk
  <2> QED BY <2>a, <2>1, <2>2
<1>7. ASSUME UNCHANGED <<provided, attempt>> PROVE LoginsInv'
  BY <1>0, <1>7 DEF LoginsInv, AdminGetsIn, StillToAsk
<1> QED BY <1>1, <1>2, <1>3, <1>4, <1>5, <1>6, <1>7
        DEF SessionsNext, sessionVars, LoadVaultData, SaveVaultData, Presents, VerifyReads, Logout, VerifyCommits

\* and what a key opens.
LEMMA KeysKept == SessionsTypeOK /\ KeysInv /\ [SessionsNext]_sessionVars => KeysInv'
<1> SUFFICES ASSUME SessionsTypeOK, KeysInv, [SessionsNext]_sessionVars PROVE KeysInv'
  OBVIOUS
<1>1. ASSUME UNCHANGED <<apiKey, visit>>, \A l \in Attempt : attempt[l].at = "done" => attempt'[l].at = "done"
      PROVE  KeysInv'
  BY <1>1 DEF KeysInv, KeyOpens
<1>2. ASSUME NEW r \in Reload, ClearProviders(r) \/ RegisterProvider(r) PROVE KeysInv'
  <2>1. \A l \in Attempt : attempt'[l].at = attempt[l].at
    BY <1>2 DEF ClearProviders, RegisterProvider, Chain, SessionsTypeOK, AttemptRec
  <2> QED BY <1>1, <1>2, <2>1 DEF ClearProviders, RegisterProvider
<1>3. ASSUME NEW l \in Attempt, NEW answers \in BOOLEAN, FallsBack(l, answers) PROVE KeysInv'
  BY <1>1, <1>3 DEF FallsBack, SessionsTypeOK
<1>4. ASSUME NEW l \in Attempt, NEW who \in {"admin", "other"}, LoginStarts(l, who) PROVE KeysInv'
  BY <1>1, <1>4 DEF LoginStarts, NoAttempt, SessionsTypeOK
<1>5. ASSUME NEW l \in Attempt, NEW answers \in BOOLEAN, AsksProvider(l, answers) PROVE KeysInv'
  BY <1>1, <1>5 DEF AsksProvider, Attempts, SessionsTypeOK
<1>6. ASSUME NEW l \in Attempt, NEW stored \in BOOLEAN, CreateKey(l, stored) PROVE KeysInv'
  <2>1. /\ \A k \in Attempt : attempt'[k].at = IF k = l THEN (IF stored THEN "done" ELSE "failed") ELSE attempt[k].at
        /\ \A k \in Attempt : apiKey'[k] = IF k = l /\ stored THEN "live" ELSE apiKey[k]
        /\ apiKey[l] = "none" /\ UNCHANGED visit
    BY <1>6 DEF CreateKey, Attempts, SessionsTypeOK, KeysInv
  <2>2. ASSUME NEW w \in Visit, visit[w].at # "none" PROVE visit[w].key # l /\ visit[w].key \in Attempt
    BY <2>1, <2>2 DEF KeysInv
  <2> QED BY ZenonT(60), <2>1, <2>2 DEF KeysInv, KeyOpens
<1>7. ASSUME NEW v \in Visit, NEW l \in Attempt, Presents(v, l) PROVE KeysInv'
  BY <1>7 DEF Presents, SessionsTypeOK, KeysInv, KeyOpens
<1>8. ASSUME NEW v \in Visit, NEW answers \in BOOLEAN, VerifyReads(v, answers) PROVE KeysInv'
  <2>1. /\ UNCHANGED <<attempt, apiKey>> /\ visit[v].at = "came"
        /\ \A w \in Visit : visit'[w].key = visit[w].key /\ visit'[w].late = visit[w].late
        /\ \A w \in Visit : w # v => visit'[w].at = visit[w].at /\ visit'[w].saw = visit[w].saw
        /\ \/ visit'[v].at = "read" /\ apiKey[visit[v].key] = "live"
           \/ visit'[v].at = "refused" /\ (visit'[v].saw = "nothing" \/ apiKey[visit[v].key] # "live")
    BY <1>8 DEF VerifyReads, SessionsTypeOK, VisitRec
  <2>2. /\ visit[v].key \in Attempt /\ apiKey[visit[v].key] \in {"live", "deleted"}
        /\ visit[v].late => apiKey[visit[v].key] = "deleted"
    BY <2>1 DEF KeysInv, SessionsTypeOK
  <2>3. ASSUME NEW w \in Visit, visit'[w].at # "none"
        PROVE  /\ visit'[w].key \in Attempt /\ apiKey'[visit'[w].key] # "none"
               /\ visit'[w].late => apiKey'[visit'[w].key] = "deleted" /\ visit'[w].at \in {"came", "refused"}
    BY <2>1, <2>2, <2>3 DEF KeysInv
  <2>4. ASSUME NEW w \in Visit
        PROVE  /\ visit'[w].at = "refused" => apiKey'[visit'[w].key] = "deleted" \/ visit'[w].saw = "nothing"
               /\ visit'[w].at \in {"let in", "logged out", "stays"} => ~visit'[w].late
    <3>1. CASE w = v
      BY <2>1, <2>2, <3>1
    <3>2. CASE w # v
      BY <2>1, <3>2 DEF KeysInv, KeyOpens
    <3> QED BY <3>1, <3>2
  <2> QED BY <2>1, <2>3, <2>4 DEF KeysInv, KeyOpens
<1>9. ASSUME NEW v \in Visit, NEW answers \in BOOLEAN, Logout(v, answers) PROVE KeysInv'
  <2>1. /\ UNCHANGED attempt /\ visit[v].at = "let in" /\ visit'[v].at \in {"logged out", "stays"}
        /\ \A w \in Visit : /\ visit'[w].key = visit[w].key /\ visit'[w].late = visit[w].late
                           /\ visit'[w].saw = visit[w].saw
        /\ \A w \in Visit : w # v => visit'[w].at = visit[w].at
        /\ \A l \in Attempt : apiKey'[l] = IF answers /\ l = visit[v].key THEN "deleted" ELSE apiKey[l]
    BY <1>9 DEF Logout, SessionsTypeOK, VisitRec
  <2>2. visit[v].key \in Attempt /\ apiKey[visit[v].key] # "none" /\ ~visit[v].late
    BY <2>1 DEF KeysInv
  <2>3. ASSUME NEW w \in Visit, visit'[w].at # "none"
        PROVE  /\ visit'[w].key \in Attempt /\ apiKey'[visit'[w].key] # "none"
               /\ visit'[w].late => apiKey'[visit'[w].key] = "deleted" /\ visit'[w].at \in {"came", "refused"}
    <3>1. visit[w].at # "none"
      BY <2>1, <2>3
    <3>2. visit[w].key \in Attempt /\ apiKey[visit[w].key] # "none"
      BY <3>1 DEF KeysInv
    <3>3. visit[w].late => w # v /\ apiKey[visit[w].key] = "deleted" /\ visit[w].at \in {"came", "refused"}
      BY <2>2, <3>1 DEF KeysInv
    <3> QED BY <2>1, <3>2, <3>3
  <2>4. ASSUME NEW w \in Visit
        PROVE  /\ visit'[w].at = "refused" => apiKey'[visit'[w].key] = "deleted" \/ visit'[w].saw = "nothing"
               /\ visit'[w].at \in {"let in", "logged out", "stays"} => ~visit'[w].late
    <3>1. visit[w].at = "refused" =>
             visit[w].key \in Attempt /\ (apiKey[visit[w].key] = "deleted" \/ visit[w].saw = "nothing")
      BY DEF KeysInv, KeyOpens
    <3>2. visit[w].at \in {"let in", "logged out", "stays"} => ~visit[w].late
      BY DEF KeysInv, KeyOpens
    <3> QED BY <2>1, <2>2, <3>1, <3>2
  <2>5. \A l \in Attempt : apiKey'[l] # "none" => attempt'[l].at = "done"
    BY <2>1, <2>2 DEF KeysInv
  <2>6. KeyOpens'
    BY <2>4 DEF KeyOpens
  <2> QED BY <2>3, <2>5, <2>6 DEF KeysInv
<1>10. ASSUME NEW v \in Visit, NEW noted \in BOOLEAN, VerifyCommits(v, noted) PROVE KeysInv'
  <2>1. /\ UNCHANGED <<attempt, apiKey>> /\ visit[v].at = "read" /\ visit'[v].at = "let in"
        /\ \A w \in Visit : /\ visit'[w].key = visit[w].key /\ visit'[w].late = visit[w].late
                           /\ visit'[w].saw = visit[w].saw
        /\ \A w \in Visit : w # v => visit'[w].at = visit[w].at
    BY <1>10 DEF VerifyCommits, LetIn, SessionsTypeOK, VisitRec
  <2>2. /\ visit[v].key \in Attempt /\ apiKey[visit[v].key] # "none"
        /\ ~visit[v].late
    BY <2>1 DEF KeysInv
  <2>3. ASSUME NEW w \in Visit, visit'[w].at # "none"
        PROVE  /\ visit'[w].key \in Attempt /\ apiKey'[visit'[w].key] # "none"
               /\ visit'[w].late => apiKey'[visit'[w].key] = "deleted" /\ visit'[w].at \in {"came", "refused"}
    <3>1. CASE w = v
      BY <2>1, <2>2, <3>1
    <3>2. CASE w # v
      BY ZenonT(60), <2>1, <2>3, <3>2 DEF KeysInv
    <3> QED BY <3>1, <3>2
  <2>4. KeyOpens'
    <3>1. KeyOpens
      BY DEF KeysInv
    <3> QED BY <2>1, <2>2, <3>1 DEF KeyOpens
  <2>5. \A l \in Attempt : apiKey'[l] # "none" => attempt'[l].at = "done"
    BY <2>1 DEF KeysInv
  <2> QED BY <2>3, <2>4, <2>5 DEF KeysInv
<1> QED BY <1>1, <1>2, <1>3, <1>4, <1>5, <1>6, <1>7, <1>8, <1>9, <1>10
        DEF SessionsNext, sessionVars, LoadVaultData, SaveVaultData

\* The three together.
LEMMA SessionsKept == SessionsInv /\ [SessionsNext]_sessionVars => SessionsInv'
  BY SessionsTyped, LoginsKept, KeysKept DEF SessionsInv

\* The chain, the logins and the keys keep their types.
THEOREM SessionsTypeCorrect == SessionsSpec => []SessionsTypeOK
<1>1. SessionsInv => SessionsTypeOK
  BY DEF SessionsInv
<1> QED BY <1>1, SessionsStart, SessionsKept, PTL DEF SessionsSpec

\* A login of the administrator is refused only by a chain that changed
\* meanwhile, or because the local provider was asked while the database failed;
\* a key is refused only once it is deleted, or by a database that does not
\* answer, and never let in after its deletion.
THEOREM SessionsCorrect == SessionsSpec => []SessionsHold
<1>1. SessionsInv => SessionsHold
  BY DEF SessionsInv, LoginsInv, KeysInv, SessionsHold
<1> QED BY <1>1, SessionsStart, SessionsKept, PTL DEF SessionsSpec

-----------------------------------------------------------------------------
(* SignOn: of a code that was used there is one bearer: the callback, the  *)
(* handoff, the code for the page, or the session.                         *)

Handed  == UNION {handoffs[n] : n \in Node}
Proven  == {c \in Callback : callback[c].at \in {"user", "linked"}}

\* A callback knows who asked for the link, or did not find out.
FlowInv ==
    /\ flow = "none" => atStore = "none" /\ (\A n \in Node : pending[n] = "none") /\ (\A c \in Callback : callback[c].at = "none")
    /\ atStore \in {"none", flow} /\ \A n \in Node : pending[n] \in {"none", flow}
    /\ \A c \in Callback : callback[c].flow \in {"none", flow} /\ (callback[c].at # "none" => callback[c].blind = (callback[c].flow = "none"))
    /\ \A c \in Callback : callback[c].at = "none" => callback[c] = NoCallback

\* Where a callback that was accepted has left what makes a session.
PlaceInv ==
    /\ \A c \in Callback, n \in Node : c \in handoffs[n] \cup results[n] => callback[c].on = n
    /\ \A c \in Callback, n \in Node : c \in results[n] => callback[c].at \in {"linked", "handed", "failed"} /\ c \notin codes
    /\ \A c \in Callback, n \in Node : c \in handoffs[n] => callback[c].at = "handed" /\ callback[c].flow # "react"
    /\ \A n \in Node : \A c, d \in results[n] : c = d
    /\ \A c \in codes : callback[c].at = "handed"
    /\ codes \subseteq used /\ Handed \subseteq used /\ Proven \subseteq used

\* The codes the provider took pay for all that is or may become a session.
SumInv ==
    /\ IsFiniteSet(used)
    /\ sessions + Cardinality(codes) + Cardinality(Handed) + Cardinality(Proven) <= Cardinality(used)

SignOnInv == SignOnTypeOK /\ FlowInv /\ PlaceInv /\ SumInv

\* A set has at most one member more.
LEMMA OneMore ==
    ASSUME NEW S, NEW x, IsFiniteSet(S)
    PROVE  /\ IsFiniteSet(S \cup {x}) /\ Cardinality(S \cup {x}) <= Cardinality(S) + 1
           /\ Cardinality(S \cup {x}) \in Nat /\ Cardinality(S) \in Nat
<1>1. /\ IsFiniteSet(S \cup {x})
      /\ Cardinality(S \cup {x}) = IF x \in S THEN Cardinality(S) ELSE Cardinality(S) + 1
  BY FS_AddElement
<1>2. Cardinality(S \cup {x}) \in Nat /\ Cardinality(S) \in Nat
  BY <1>1, FS_CardinalityType
<1>3. Cardinality(S \cup {x}) <= Cardinality(S) + 1
  BY <1>1, <1>2
<1> QED BY <1>1, <1>2, <1>3

\* All that came of codes is finite, as the codes are.
LEMMA Finite ==
    ASSUME SumInv, PlaceInv
    PROVE  /\ IsFiniteSet(codes) /\ IsFiniteSet(Handed) /\ IsFiniteSet(Proven) /\ IsFiniteSet(used)
           /\ Cardinality(codes) \in Nat /\ Cardinality(Handed) \in Nat /\ Cardinality(Proven) \in Nat /\ Cardinality(used) \in Nat
  BY FS_Subset, FS_CardinalityType DEF SumInv, PlaceInv

\* What the types say of one callback.
LEMMA SignOnTyped ==
    ASSUME SignOnInv
    PROVE  /\ sessions \in Nat /\ codes \subseteq Callback /\ used \subseteq Callback
           /\ callback \in [Callback -> Returned]
           /\ \A c \in Callback : callback[c] \in Returned /\ callback[c].on \in Node /\ callback[c].flow \in Asker
           /\ results \in [Node -> SUBSET Callback] /\ handoffs \in [Node -> SUBSET Callback]
           /\ pending \in [Node -> Asker] /\ verifier \subseteq Node /\ flow \in Asker /\ atStore \in Asker
  BY DEF SignOnInv, SignOnTypeOK, Returned

\* At first no link was made.
LEMMA SignOnStarts == SignOnInit => SignOnInv
<1> SUFFICES ASSUME SignOnInit PROVE SignOnInv
  OBVIOUS
<1>1. NoCallback \in Returned /\ NoCallback.at = "none" /\ NoCallback.flow = "none"
  <2>1. (CHOOSE n \in Node : TRUE) \in Node
    BY NodeAssumption
  <2> QED BY <2>1 DEF NoCallback, Returned, Asker
<1>2. SignOnTypeOK
  BY <1>1 DEF SignOnInit, SignOnTypeOK, Asker
<1>3. FlowInv
  BY <1>1 DEF SignOnInit, FlowInv
<1>4. Handed = {} /\ Proven = {}
  BY <1>1 DEF SignOnInit, Handed, Proven
<1>5. PlaceInv
  BY <1>4 DEF SignOnInit, PlaceInv
<1>6. SumInv
  <2>1. Cardinality(codes) = 0 /\ Cardinality(Handed) = 0 /\ Cardinality(Proven) = 0 /\ Cardinality(used) = 0 /\ IsFiniteSet(used)
    BY <1>4, FS_EmptySet DEF SignOnInit
  <2> QED BY <2>1 DEF SumInv, SignOnInit
<1> QED BY <1>2, <1>3, <1>5, <1>6 DEF SignOnInv

-----------------------------------------------------------------------------
\* One callback goes to another stage.
LEMMA Gone ==
    ASSUME SignOnInv, NEW c \in Callback, NEW at, CallbackGoes(c, at),
           at \in {"token", "posted", "unproven", "user", "linked", "handed", "failed"}
    PROVE  /\ callback' \in [Callback -> Returned]
           /\ \A d \in Callback : /\ callback'[d].at = IF d = c THEN at ELSE callback[d].at
                                  /\ callback'[d].on = callback[d].on /\ callback'[d].flow = callback[d].flow
                                  /\ callback'[d].blind = callback[d].blind
                                  /\ d # c => callback'[d] = callback[d]
<1>1. callback[c] \in Returned /\ callback \in [Callback -> Returned]
  BY SignOnTyped
<1>2. [callback[c] EXCEPT !.at = at] \in Returned
  BY <1>1 DEF Returned
<1>3. callback' = [callback EXCEPT ![c] = [callback[c] EXCEPT !.at = at]]
  BY <1>1 DEF CallbackGoes
<1>4. /\ [callback[c] EXCEPT !.at = at].at = at /\ [callback[c] EXCEPT !.at = at].on = callback[c].on
      /\ [callback[c] EXCEPT !.at = at].flow = callback[c].flow /\ [callback[c] EXCEPT !.at = at].blind = callback[c].blind
  BY <1>1 DEF Returned
<1> QED BY <1>1, <1>2, <1>3, <1>4

\* A callback that goes on keeps what it knows of the link.
LEMMA FlowStays ==
    ASSUME SignOnInv, NEW c \in Callback, NEW at, CallbackGoes(c, at),
           at \in {"token", "posted", "unproven", "user", "linked", "handed", "failed"},
           callback[c].at # "none", flow' = flow, atStore' \in {"none", atStore},
           pending' \in [Node -> Asker], \A n \in Node : pending'[n] \in {"none", flow}
    PROVE  FlowInv'
<1>1. flow # "none"
  BY DEF SignOnInv, FlowInv
<1>2. atStore' \in {"none", flow'} /\ \A n \in Node : pending'[n] \in {"none", flow'}
  BY DEF SignOnInv, FlowInv
<1>3. ASSUME NEW d \in Callback
      PROVE  /\ callback'[d].flow \in {"none", flow'} /\ (callback'[d].at # "none" => callback'[d].blind = (callback'[d].flow = "none"))
             /\ callback'[d].at = "none" => callback'[d] = NoCallback
  BY <1>3, Gone DEF SignOnInv, FlowInv
<1> QED BY <1>1, <1>2, <1>3 DEF FlowInv

\* Nothing that was accepted is touched.
LEMMA Untouched ==
    ASSUME SignOnInv, UNCHANGED <<codes, used, handoffs, sessions>>, results' \in [Node -> SUBSET Callback],
           callback' \in [Callback -> Returned],
           \A n \in Node : results'[n] \subseteq results[n],
           \A c \in Callback : \/ callback'[c] = callback[c]
                               \/ /\ callback[c].at \in {"none", "load", "token", "posted", "unproven"}
                                  /\ callback'[c].at \notin {"user", "linked", "handed"}
    PROVE  PlaceInv' /\ SumInv'
<1>1. \A c \in Callback : callback[c].at \in {"user", "linked", "handed", "failed"} => callback'[c] = callback[c]
  OBVIOUS
<1>2. Proven' = Proven
  <2>1. \A c \in Callback : callback'[c].at \in {"user", "linked"} <=> callback[c].at \in {"user", "linked"}
    OBVIOUS
  <2> QED BY <2>1 DEF Proven
<1>3. Handed' = Handed
  BY DEF Handed
<1>4. PlaceInv'
  <2>1. ASSUME NEW c \in Callback, NEW n \in Node, c \in results'[n]
        PROVE  callback'[c].on = n /\ callback'[c].at \in {"linked", "handed", "failed"} /\ c \notin codes'
    <3>1. callback[c].on = n /\ callback[c].at \in {"linked", "handed", "failed"} /\ c \notin codes
      BY <2>1 DEF SignOnInv, PlaceInv
    <3> QED BY <1>1, <3>1
  <2>2. ASSUME NEW c \in Callback, NEW n \in Node, c \in handoffs'[n]
        PROVE  callback'[c].on = n /\ callback'[c].at = "handed" /\ callback'[c].flow # "react"
    <3>1. callback[c].on = n /\ callback[c].at = "handed" /\ callback[c].flow # "react"
      BY <2>2 DEF SignOnInv, PlaceInv
    <3> QED BY <1>1, <3>1
  <2>3. \A n \in Node : \A c, d \in results'[n] : c = d
    BY DEF SignOnInv, PlaceInv
  <2>4. \A c \in codes' : callback'[c].at = "handed"
    BY <1>1, SignOnTyped DEF SignOnInv, PlaceInv
  <2>5. codes' \subseteq used' /\ Handed' \subseteq used' /\ Proven' \subseteq used'
    BY <1>2, <1>3 DEF SignOnInv, PlaceInv
  <2> QED BY <2>1, <2>2, <2>3, <2>4, <2>5 DEF PlaceInv
<1>5. SumInv'
  BY <1>2, <1>3 DEF SignOnInv, SumInv
<1> QED BY <1>4, <1>5

\* A state that expires takes nothing but itself.
LEMMA StateKeeps ==
    ASSUME SignOnInv,
           StateExpires \/ (\E n \in Node : CleanExpiredStates(n))
           \/ (\E n \in Node, f \in {"react", "page"}, stored \in BOOLEAN : BuildLoginUrl(n, f, stored))
    PROVE  SignOnInv'
<1>1. callback' = callback /\ UNCHANGED <<codes, used, handoffs, sessions>>
  BY DEF StateExpires, CleanExpiredStates, BuildLoginUrl
<1>2. results' \in [Node -> SUBSET Callback] /\ \A n \in Node : results'[n] \subseteq results[n]
  BY SignOnTyped DEF StateExpires, CleanExpiredStates, BuildLoginUrl
<1>3. PlaceInv' /\ SumInv'
  BY <1>1, <1>2, Untouched, SignOnTyped
<1>4. flow' \in Asker /\ atStore' \in Asker /\ pending' \in [Node -> Asker] /\ verifier' \subseteq Node
  BY SignOnTyped DEF StateExpires, CleanExpiredStates, BuildLoginUrl, Asker
<1>5. SignOnTypeOK'
  BY <1>1, <1>2, <1>4, SignOnTyped DEF SignOnTypeOK
<1>6. FlowInv'
  <2>1. CASE StateExpires
    BY <2>1 DEF StateExpires, SignOnInv, FlowInv
  <2>2. ASSUME NEW n \in Node, CleanExpiredStates(n) PROVE FlowInv'
    <3>1. UNCHANGED <<flow, atStore, callback>> /\ \A m \in Node : pending'[m] \in {"none", pending[m]}
      BY <2>2, SignOnTyped DEF CleanExpiredStates
    <3> QED BY <3>1 DEF SignOnInv, FlowInv
  <2>3. ASSUME NEW n \in Node, NEW f \in {"react", "page"}, NEW stored \in BOOLEAN, BuildLoginUrl(n, f, stored) PROVE FlowInv'
    <3>1. flow = "none" /\ flow' = f /\ atStore' \in {"none", f} /\ \A m \in Node : pending'[m] \in {f, pending[m]}
      BY <2>3, SignOnTyped DEF BuildLoginUrl
    <3>2. \A c \in Callback : callback[c] = NoCallback
      BY <3>1 DEF SignOnInv, FlowInv
    <3>3. \A m \in Node : pending[m] = "none"
      BY <3>1 DEF SignOnInv, FlowInv
    <3>4. NoCallback.flow = "none" /\ NoCallback.at = "none"
      BY DEF NoCallback
    <3> QED BY <1>1, <3>1, <3>2, <3>3, <3>4 DEF FlowInv
  <2> QED BY <2>1, <2>2, <2>3
<1> QED BY <1>3, <1>5, <1>6 DEF SignOnInv

\* A callback reads who asked for the link, or does not find out.
LEMMA ReadsFlowKeeps ==
    ASSUME SignOnInv, NEW c \in Callback, NEW n \in Node, NEW answers \in BOOLEAN, ReadsFlow(c, n, answers)
    PROVE  SignOnInv'
<1> DEFINE f   == Loaded(n, answers)
           new == [at |-> "load", on |-> n, flow |-> f, blind |-> (f = "none")]
<1>1. /\ flow # "none" /\ callback[c] = NoCallback /\ callback' = [callback EXCEPT ![c] = new]
      /\ UNCHANGED <<flow, atStore, pending, verifier, results, handoffs, codes, used, sessions>>
  BY DEF ReadsFlow
<1>2. f \in {"none", flow}
  BY DEF Loaded, SignOnInv, FlowInv
<1> HIDE DEF f
<1>3. new \in Returned /\ new.at = "load" /\ new.flow = f /\ new.blind = (f = "none")
  <2>1. f \in Asker
    BY <1>2, SignOnTyped DEF Asker
  <2> QED BY <2>1 DEF Returned
<1> HIDE DEF new
<1>4. callback' \in [Callback -> Returned] /\ \A d \in Callback : callback'[d] = IF d = c THEN new ELSE callback[d]
  BY <1>1, <1>3, SignOnTyped
<1>5. NoCallback.at = "none"
  BY DEF NoCallback
<1>6. PlaceInv' /\ SumInv'
  BY <1>1, <1>3, <1>4, <1>5, Untouched, SignOnTyped
<1>7. SignOnTypeOK'
  BY <1>1, <1>4 DEF SignOnInv, SignOnTypeOK
<1>8. FlowInv'
  BY <1>1, <1>2, <1>3, <1>4 DEF SignOnInv, FlowInv
<1> QED BY <1>6, <1>7, <1>8 DEF SignOnInv

\* Before the provider has answered, and when it refuses.
LEMMA EarlyKeeps ==
    ASSUME SignOnInv, NEW c \in Callback, NEW b \in BOOLEAN,
           \/ LoadsState(c, b) \/ DiscoveryFails(c) \/ PostsCode(c)
           \/ ProviderAnswers(c, b) /\ ~(callback[c].at = "posted" /\ c \notin used)
    PROVE  SignOnInv'
<1>1. PICK at \in {"token", "posted", "unproven", "failed"} : CallbackGoes(c, at)
  BY DEF LoadsState, DiscoveryFails, PostsCode, ProviderAnswers
<1>2. callback[c].at \in {"load", "token", "posted", "unproven"}
  BY DEF LoadsState, DiscoveryFails, PostsCode, ProviderAnswers
<1>3. UNCHANGED <<flow, atStore, codes, used, handoffs, results, sessions>>
  BY DEF LoadsState, DiscoveryFails, PostsCode, ProviderAnswers
<1>4. pending' \in [Node -> Asker] /\ \A n \in Node : pending'[n] \in {"none", flow}
  <2>1. CASE pending' = pending
    BY <2>1, SignOnTyped DEF SignOnInv, FlowInv
  <2>2. CASE LoadsState(c, b)
    <3> DEFINE f == Loaded(callback[c].on, b)
    <3>1. f \in {"none", flow}
      BY SignOnTyped DEF Loaded, SignOnInv, FlowInv
    <3>2. pending' = [pending EXCEPT ![callback[c].on] = f]
      BY <2>2 DEF LoadsState
    <3> HIDE DEF f
    <3>3. f \in Asker
      BY <3>1, SignOnTyped DEF Asker
    <3> QED BY <3>1, <3>2, <3>3, SignOnTyped DEF SignOnInv, FlowInv
  <2> QED BY <2>1, <2>2 DEF DiscoveryFails, PostsCode, ProviderAnswers
<1>5. verifier' \subseteq Node
  BY SignOnTyped DEF LoadsState, DiscoveryFails, PostsCode, ProviderAnswers
<1>6. FlowInv'
  BY <1>1, <1>2, <1>3, <1>4, FlowStays
<1>7. PlaceInv' /\ SumInv'
  <2>1. callback' \in [Callback -> Returned] /\ \A d \in Callback : callback'[d].at = (IF d = c THEN at ELSE callback[d].at) /\ (d # c => callback'[d] = callback[d])
    BY <1>1, Gone
  <2> QED BY <1>2, <1>3, <2>1, SignOnTyped, Untouched
<1>8. SignOnTypeOK'
  BY <1>1, <1>3, <1>4, <1>5, Gone, SignOnTyped DEF SignOnTypeOK
<1> QED BY <1>6, <1>7, <1>8 DEF SignOnInv

\* The provider takes the code: it pays for what comes of it.
LEMMA AcceptsKeeps ==
    ASSUME SignOnInv, NEW c \in Callback, NEW b \in BOOLEAN, ProviderAnswers(c, b), callback[c].at = "posted", c \notin used
    PROVE  SignOnInv'
<1> DEFINE at == IF b THEN "user" ELSE "failed"
<1>1. CallbackGoes(c, at) /\ used' = used \cup {c} /\ UNCHANGED <<flow, atStore, pending, verifier, results, handoffs, codes, sessions>>
  BY DEF ProviderAnswers
<1>2. at \in {"user", "failed"}
  OBVIOUS
<1> HIDE DEF at
<1>3. /\ callback' \in [Callback -> Returned]
      /\ \A d \in Callback : /\ callback'[d].at = IF d = c THEN at ELSE callback[d].at
                             /\ d # c => callback'[d] = callback[d]
  BY <1>1, <1>2, Gone
<1>4. FlowInv'
  <2>1. pending' \in [Node -> Asker] /\ \A n \in Node : pending'[n] \in {"none", flow}
    BY <1>1, SignOnTyped DEF SignOnInv, FlowInv
  <2> QED BY <1>1, <1>2, <2>1, FlowStays
<1>5. SignOnTypeOK'
  BY <1>1, <1>3, SignOnTyped DEF SignOnTypeOK
<1>6. Handed' = Handed /\ Proven' \subseteq Proven \cup {c}
  BY <1>1, <1>3 DEF Handed, Proven
<1>7. PlaceInv'
  <2>1. ASSUME NEW d \in Callback, NEW n \in Node, d \in handoffs'[n] \cup results'[n] \/ d \in codes'
        PROVE  d # c
    BY <1>1, <2>1 DEF SignOnInv, PlaceInv
  <2>2. \A d \in Callback, n \in Node : d \in handoffs'[n] \cup results'[n] => callback'[d].on = n
    BY <1>1, <1>3, <2>1 DEF SignOnInv, PlaceInv
  <2>3. \A d \in Callback, n \in Node : d \in results'[n] => callback'[d].at \in {"linked", "handed", "failed"} /\ d \notin codes'
    BY <1>1, <1>3, <2>1 DEF SignOnInv, PlaceInv
  <2>4. \A d \in Callback, n \in Node : d \in handoffs'[n] => callback'[d].at = "handed" /\ callback'[d].flow # "react"
    BY <1>1, <1>3, <2>1 DEF SignOnInv, PlaceInv
  <2>5. \A n \in Node : \A d, e \in results'[n] : d = e
    BY <1>1 DEF SignOnInv, PlaceInv
  <2>6. \A d \in codes' : callback'[d].at = "handed"
    BY <1>1, <1>3, SignOnTyped DEF SignOnInv, PlaceInv
  <2>7. codes' \subseteq used' /\ Handed' \subseteq used' /\ Proven' \subseteq used'
    BY <1>1, <1>6 DEF SignOnInv, PlaceInv
  <2> QED BY <2>2, <2>3, <2>4, <2>5, <2>6, <2>7 DEF PlaceInv
<1>8. SumInv'
  <2>0. SumInv /\ PlaceInv
    BY DEF SignOnInv
  <2>1. IsFiniteSet(used') /\ Cardinality(used') = Cardinality(used) + 1
    BY <1>1, <2>0, Finite, FS_AddElement
  <2>2. Cardinality(Proven') <= Cardinality(Proven) + 1 /\ Cardinality(Proven') \in Nat
    <3>1. IsFiniteSet(Proven \cup {c}) /\ Cardinality(Proven \cup {c}) <= Cardinality(Proven) + 1
      BY <2>0, Finite, OneMore
    <3>2. IsFiniteSet(Proven') /\ Cardinality(Proven') <= Cardinality(Proven \cup {c}) /\ Cardinality(Proven') \in Nat /\ Cardinality(Proven \cup {c}) \in Nat
      BY <1>6, <3>1, FS_Subset, FS_CardinalityType
    <3> QED BY <2>0, <3>1, <3>2, Finite
  <2>3. sessions + Cardinality(codes) + Cardinality(Handed) + Cardinality(Proven) <= Cardinality(used) /\ sessions \in Nat
    BY <2>0, SignOnTyped DEF SumInv
  <2>4. sessions + Cardinality(codes) + Cardinality(Handed) + Cardinality(Proven') <= Cardinality(used')
    BY <2>0, <2>1, <2>2, <2>3, Finite
  <2> QED BY <1>1, <1>6, <2>1, <2>4 DEF SumInv
<1> QED BY <1>4, <1>5, <1>7, <1>8 DEF SignOnInv

\* An accepted code makes a link of its own or a handoff.
LEMMA DropsStateKeeps ==
    ASSUME SignOnInv, NEW c \in Callback, NEW b \in BOOLEAN, DropsState(c, b)
    PROVE  SignOnInv'
<1> DEFINE n  == callback[c].on
           at == IF callback[c].flow = "react" THEN "linked" ELSE "handed"
<1>1. /\ callback[c].at = "user" /\ CallbackGoes(c, at) /\ results' = [results EXCEPT ![n] = {c}]
      /\ pending' = [pending EXCEPT ![n] = "none"] /\ verifier' = verifier \ {n} /\ atStore' \in {"none", atStore}
      /\ UNCHANGED <<flow, codes, used, sessions>> /\ n \in Node
  BY SignOnTyped DEF DropsState
<1>2. handoffs' = IF callback[c].flow = "react" THEN handoffs ELSE [handoffs EXCEPT ![n] = @ \cup {c}]
  BY DEF DropsState
<1>3. /\ callback' \in [Callback -> Returned]
      /\ \A d \in Callback : /\ callback'[d].at = IF d = c THEN at ELSE callback[d].at
                             /\ callback'[d].on = callback[d].on /\ callback'[d].flow = callback[d].flow
                             /\ d # c => callback'[d] = callback[d]
  BY <1>1, Gone
<1>4. /\ results' \in [Node -> SUBSET Callback]
      /\ \A m \in Node : results'[m] = IF m = n THEN {c} ELSE results[m]
  BY <1>1, SignOnTyped
<1>5. /\ handoffs' \in [Node -> SUBSET Callback]
      /\ \A m \in Node : handoffs'[m] = IF m = n /\ callback[c].flow # "react" THEN handoffs[m] \cup {c} ELSE handoffs[m]
  BY <1>1, <1>2, SignOnTyped
<1>6. FlowInv'
  <2>1. pending' \in [Node -> Asker] /\ \A m \in Node : pending'[m] \in {"none", flow}
    BY <1>1, SignOnTyped DEF SignOnInv, FlowInv, Asker
  <2> QED BY <1>1, <2>1, FlowStays
<1>7. SignOnTypeOK'
  BY <1>1, <1>3, <1>4, <1>5, SignOnTyped DEF SignOnTypeOK, Asker
<1>8. c \in Proven /\ c \notin codes /\ c \in used
  BY <1>1 DEF Proven, SignOnInv, PlaceInv
<1>9. /\ Proven' = IF callback[c].flow = "react" THEN Proven ELSE Proven \ {c}
      /\ Handed' \subseteq IF callback[c].flow = "react" THEN Handed ELSE Handed \cup {c}
  <2>1. \A d \in Callback : callback'[d].at \in {"user", "linked"} <=>
            callback[d].at \in {"user", "linked"} /\ (d # c \/ callback[c].flow = "react")
    BY <1>1, <1>3
  <2>2. Proven' = IF callback[c].flow = "react" THEN Proven ELSE Proven \ {c}
    BY <2>1 DEF Proven
  <2> QED BY <1>1, <1>5, <2>2 DEF Handed
<1>10. PlaceInv'
  <2>1. ASSUME NEW d \in Callback, NEW m \in Node, d \in handoffs'[m] \cup results'[m] PROVE callback'[d].on = m
    BY <1>3, <1>4, <1>5, <2>1 DEF SignOnInv, PlaceInv
  <2>2. ASSUME NEW d \in Callback, NEW m \in Node, d \in results'[m] PROVE callback'[d].at \in {"linked", "handed", "failed"} /\ d \notin codes'
    <3>1. CASE d = c
      BY <1>1, <1>3, <1>8, <3>1
    <3>2. CASE d # c
      BY <1>1, <1>3, <1>4, <2>2, <3>2 DEF SignOnInv, PlaceInv
    <3> QED BY <3>1, <3>2
  <2>3. ASSUME NEW d \in Callback, NEW m \in Node, d \in handoffs'[m] PROVE callback'[d].at = "handed" /\ callback'[d].flow # "react"
    <3>1. CASE d = c
      <4>1. d \notin handoffs[m]
        BY <1>1, <3>1 DEF SignOnInv, PlaceInv
      <4> QED BY <1>3, <1>5, <2>3, <3>1, <4>1
    <3>2. CASE d # c
      BY <1>3, <1>5, <2>3, <3>2 DEF SignOnInv, PlaceInv
    <3> QED BY <3>1, <3>2
  <2>4. \A m \in Node : \A d, e \in results'[m] : d = e
    BY <1>4 DEF SignOnInv, PlaceInv
  <2>5. \A d \in codes' : callback'[d].at = "handed"
    BY <1>1, <1>3, <1>8, SignOnTyped DEF SignOnInv, PlaceInv
  <2>6. codes' \subseteq used' /\ Handed' \subseteq used' /\ Proven' \subseteq used'
    BY <1>1, <1>8, <1>9 DEF SignOnInv, PlaceInv
  <2> HIDE DEF n, at
  <2> QED BY <2>1, <2>2, <2>3, <2>4, <2>5, <2>6 DEF PlaceInv
<1>11. SumInv'
  <2>0. SumInv /\ PlaceInv
    BY DEF SignOnInv
  <2>1. sessions + Cardinality(codes) + Cardinality(Handed) + Cardinality(Proven) <= Cardinality(used) /\ sessions \in Nat
    BY <2>0, SignOnTyped DEF SumInv
  <2>2. Cardinality(Handed') + Cardinality(Proven') <= Cardinality(Handed) + Cardinality(Proven)
        /\ Cardinality(Handed') \in Nat /\ Cardinality(Proven') \in Nat
    <3>1. CASE callback[c].flow = "react"
      BY <1>9, <2>0, <3>1, Finite, FS_Subset, FS_CardinalityType
    <3>2. CASE callback[c].flow # "react"
      <4>1. IsFiniteSet(Handed \cup {c}) /\ Cardinality(Handed \cup {c}) <= Cardinality(Handed) + 1
        BY <2>0, Finite, OneMore
      <4>2. IsFiniteSet(Handed') /\ Cardinality(Handed') <= Cardinality(Handed \cup {c}) /\ Cardinality(Handed') \in Nat /\ Cardinality(Handed \cup {c}) \in Nat
        BY <1>9, <3>2, <4>1, FS_Subset, FS_CardinalityType
      <4>3. Cardinality(Proven') = Cardinality(Proven) - 1 /\ Cardinality(Proven') \in Nat
        BY <1>8, <1>9, <2>0, <3>2, Finite, FS_RemoveElement, FS_CardinalityType
      <4> QED BY <2>0, <4>1, <4>2, <4>3, Finite
    <3> QED BY <3>1, <3>2
  <2>3. sessions + Cardinality(codes) + Cardinality(Handed') + Cardinality(Proven') <= Cardinality(used)
    BY <2>0, <2>1, <2>2, Finite
  <2> QED BY <1>1, <2>0, <2>3 DEF SumInv
<1> QED BY <1>6, <1>7, <1>10, <1>11 DEF SignOnInv

\* The link's code is stored, or the sign-on lost; the result is taken out.
LEMMA CreatesCodeKeeps ==
    ASSUME SignOnInv, NEW c \in Callback, NEW b \in BOOLEAN, CreatesCode(c, b)
    PROVE  SignOnInv'
<1> DEFINE n  == callback[c].on
           at == IF b THEN "handed" ELSE "failed"
<1>1. /\ callback[c].at = "linked" /\ CallbackGoes(c, at) /\ results' = [results EXCEPT ![n] = {}] /\ n \in Node
      /\ codes' = IF b THEN codes \cup {c} ELSE codes
      /\ UNCHANGED <<flow, atStore, pending, verifier, handoffs, used, sessions>>
  BY SignOnTyped DEF CreatesCode, Consumed
<1>2. at \in {"handed", "failed"} /\ (at = "handed" <=> b)
  OBVIOUS
<1> HIDE DEF at
<1>3. /\ callback' \in [Callback -> Returned]
      /\ \A d \in Callback : /\ callback'[d].at = IF d = c THEN at ELSE callback[d].at
                             /\ callback'[d].on = callback[d].on /\ callback'[d].flow = callback[d].flow
                             /\ d # c => callback'[d] = callback[d]
  BY <1>1, <1>2, Gone
<1>4. results' \in [Node -> SUBSET Callback] /\ \A m \in Node : results'[m] = IF m = n THEN {} ELSE results[m]
  BY <1>1, SignOnTyped
<1>5. FlowInv'
  <2>1. pending' \in [Node -> Asker] /\ \A m \in Node : pending'[m] \in {"none", flow}
    BY <1>1, SignOnTyped DEF SignOnInv, FlowInv
  <2> QED BY <1>1, <1>2, <2>1, FlowStays
<1>6. SignOnTypeOK'
  BY <1>1, <1>3, <1>4, SignOnTyped DEF SignOnTypeOK
<1>7. Handed' = Handed /\ Proven' = Proven \ {c} /\ c \in Proven /\ c \in used
  BY <1>1, <1>2, <1>3 DEF Handed, Proven, SignOnInv, PlaceInv
<1>8. PlaceInv'
  <2>1. ASSUME NEW d \in Callback, NEW m \in Node, d \in handoffs'[m] \cup results'[m] PROVE callback'[d].on = m
    BY <1>1, <1>3, <1>4, <2>1 DEF SignOnInv, PlaceInv
  <2>2. ASSUME NEW d \in Callback, NEW m \in Node, d \in results'[m] PROVE callback'[d].at \in {"linked", "handed", "failed"} /\ d \notin codes'
    <3>1. d \in results[m] /\ m # n
      BY <1>4, <2>2
    <3>2. d # c
      BY <3>1 DEF SignOnInv, PlaceInv
    <3> QED BY <1>1, <1>3, <3>1, <3>2 DEF SignOnInv, PlaceInv
  <2>3. ASSUME NEW d \in Callback, NEW m \in Node, d \in handoffs'[m] PROVE callback'[d].at = "handed" /\ callback'[d].flow # "react"
    BY <1>1, <1>3, <2>3 DEF SignOnInv, PlaceInv
  <2>4. \A m \in Node : \A d, e \in results'[m] : d = e
    BY <1>4 DEF SignOnInv, PlaceInv
  <2>5. ASSUME NEW d \in codes' PROVE callback'[d].at = "handed"
    <3>1. CASE d = c
      <4>1. c \notin codes
        BY <1>1 DEF SignOnInv, PlaceInv
      <4> QED BY <1>1, <1>2, <1>3, <3>1, <4>1
    <3>2. CASE d # c
      BY <1>1, <1>3, <3>2, SignOnTyped DEF SignOnInv, PlaceInv
    <3> QED BY <3>1, <3>2
  <2>6. codes' \subseteq used' /\ Handed' \subseteq used' /\ Proven' \subseteq used'
    BY <1>1, <1>7 DEF SignOnInv, PlaceInv
  <2> HIDE DEF n
  <2> QED BY <2>1, <2>2, <2>3, <2>4, <2>5, <2>6 DEF PlaceInv
<1>9. SumInv'
  <2>0. SumInv /\ PlaceInv
    BY DEF SignOnInv
  <2>1. sessions + Cardinality(codes) + Cardinality(Handed) + Cardinality(Proven) <= Cardinality(used) /\ sessions \in Nat
    BY <2>0, SignOnTyped DEF SumInv
  <2>2. Cardinality(codes') <= Cardinality(codes) + 1 /\ Cardinality(codes') \in Nat
    <3>1. /\ Cardinality(codes \cup {c}) <= Cardinality(codes) + 1
          /\ Cardinality(codes \cup {c}) \in Nat /\ Cardinality(codes) \in Nat
      BY <2>0, Finite, OneMore
    <3>2. codes' = codes \cup {c} \/ codes' = codes
      BY <1>1
    <3> QED BY <3>1, <3>2
  <2>3. Cardinality(Proven') = Cardinality(Proven) - 1 /\ Cardinality(Proven') \in Nat
    BY <1>7, <2>0, Finite, FS_RemoveElement, FS_CardinalityType
  <2>4. sessions + Cardinality(codes') + Cardinality(Handed) + Cardinality(Proven') <= Cardinality(used)
    BY <2>0, <2>1, <2>2, <2>3, Finite
  <2> QED BY <1>1, <1>7, <2>0, <2>4 DEF SumInv
<1> QED BY <1>5, <1>6, <1>8, <1>9 DEF SignOnInv

\* The provider takes a code once: there is one more, and one callback more to show for it.
LEMMA TokenExchangeKeeps ==
    ASSUME SignOnInv, NEW c \in Callback, TokenExchange(c)
    PROVE  SignOnInv'
<1>1. /\ c \in codes /\ codes' = codes \ {c} /\ sessions' = sessions + 1
      /\ UNCHANGED <<flow, atStore, pending, verifier, results, callback, handoffs, used>>
  BY DEF TokenExchange
<1>2. SignOnTypeOK' /\ FlowInv'
  BY <1>1 DEF SignOnInv, SignOnTypeOK, FlowInv
<1>3. Handed' = Handed /\ Proven' = Proven
  BY <1>1 DEF Handed, Proven
<1>4. PlaceInv'
  BY <1>1, <1>3 DEF SignOnInv, PlaceInv
<1>5. SumInv'
  <2>0. SumInv /\ PlaceInv
    BY DEF SignOnInv
  <2>1. sessions + Cardinality(codes) + Cardinality(Handed) + Cardinality(Proven) <= Cardinality(used) /\ sessions \in Nat
    BY <2>0, SignOnTyped DEF SumInv
  <2>2. Cardinality(codes') = Cardinality(codes) - 1
    BY <1>1, <2>0, Finite, FS_RemoveElement
  <2>3. sessions' + Cardinality(codes') + Cardinality(Handed) + Cardinality(Proven) <= Cardinality(used)
    BY <1>1, <2>0, <2>1, <2>2, Finite
  <2> QED BY <1>1, <1>3, <2>0, <2>3 DEF SumInv
<1> QED BY <1>2, <1>4, <1>5 DEF SignOnInv

\* A page takes what waits, which is one callback's result at most.
LEMMA AuthCompleteKeeps ==
    ASSUME SignOnInv, NEW c \in Callback, NEW n \in Node, AuthComplete(n, c)
    PROVE  SignOnInv'
<1>1. /\ c \in handoffs[n] /\ handoffs' = [handoffs EXCEPT ![n] = handoffs[n] \ {c}] /\ results' = [results EXCEPT ![n] = {}]
      /\ sessions' = sessions + Cardinality(results[n])
      /\ UNCHANGED <<flow, atStore, pending, verifier, callback, codes, used>>
  BY DEF AuthComplete
<1>2. Cardinality(results[n]) \in {0, 1}
  <2>1. CASE results[n] = {}
    BY <2>1, FS_EmptySet
  <2>2. CASE results[n] # {}
    <3>1. PICK d \in results[n] : TRUE
      BY <2>2
    <3>2. results[n] = {d}
      BY <3>1 DEF SignOnInv, PlaceInv
    <3> QED BY <3>2, FS_Singleton
  <2> QED BY <2>1, <2>2
<1>3. /\ handoffs' \in [Node -> SUBSET Callback] /\ \A m \in Node : handoffs'[m] = IF m = n THEN handoffs[n] \ {c} ELSE handoffs[m]
      /\ results' \in [Node -> SUBSET Callback] /\ \A m \in Node : results'[m] = IF m = n THEN {} ELSE results[m]
  BY <1>1, SignOnTyped
<1>4. SignOnTypeOK' /\ FlowInv'
  <2>1. sessions' \in Nat
    BY <1>1, <1>2, SignOnTyped
  <2> QED BY <1>1, <1>3, <2>1 DEF SignOnInv, SignOnTypeOK, FlowInv
<1>5. Handed' = Handed \ {c} /\ c \in Handed /\ Proven' = Proven
  <2>1. \A m \in Node : m # n => c \notin handoffs[m]
    BY <1>1 DEF SignOnInv, PlaceInv
  <2> QED BY <1>1, <1>3, <2>1 DEF Handed, Proven
<1>6. PlaceInv'
  <2>1. \A d \in Callback, m \in Node : d \in handoffs'[m] \cup results'[m] => d \in handoffs[m] \cup results[m]
    BY <1>3
  <2>2. \A d \in Callback, m \in Node : (d \in handoffs'[m] => d \in handoffs[m]) /\ (d \in results'[m] => d \in results[m])
    BY <1>3
  <2>3. \A m \in Node : \A d, e \in results'[m] : d = e
    BY <1>3 DEF SignOnInv, PlaceInv
  <2>4. codes' \subseteq used' /\ Handed' \subseteq used' /\ Proven' \subseteq used'
    BY <1>1, <1>5 DEF SignOnInv, PlaceInv
  <2> QED BY <1>1, <2>1, <2>2, <2>3, <2>4 DEF SignOnInv, PlaceInv
<1>7. SumInv'
  <2>0. SumInv /\ PlaceInv
    BY DEF SignOnInv
  <2>1. sessions + Cardinality(codes) + Cardinality(Handed) + Cardinality(Proven) <= Cardinality(used) /\ sessions \in Nat
    BY <2>0, SignOnTyped DEF SumInv
  <2>2. Cardinality(Handed') = Cardinality(Handed) - 1
    BY <1>5, <2>0, Finite, FS_RemoveElement
  <2>3. sessions' + Cardinality(codes) + Cardinality(Handed') + Cardinality(Proven) <= Cardinality(used)
    BY <1>1, <1>2, <2>0, <2>1, <2>2, Finite
  <2> QED BY <1>1, <1>5, <2>0, <2>3 DEF SumInv
<1> QED BY <1>4, <1>6, <1>7 DEF SignOnInv

\* Every step keeps the invariant.
LEMMA SignOnKept == SignOnInv /\ [SignOnNext]_signOnVars => SignOnInv'
<1> SUFFICES ASSUME SignOnInv, [SignOnNext]_signOnVars PROVE SignOnInv'
  OBVIOUS
<1>1. CASE UNCHANGED signOnVars
  BY <1>1 DEF signOnVars, SignOnInv, SignOnTypeOK, FlowInv, PlaceInv, SumInv, Handed, Proven
<1>2. ASSUME NEW c \in Callback, NEW b \in BOOLEAN, ProviderAnswers(c, b) PROVE SignOnInv'
  BY <1>2, EarlyKeeps, AcceptsKeeps
<1>3. ASSUME NEW c \in Callback, DiscoveryFails(c) \/ PostsCode(c) PROVE SignOnInv'
  BY <1>3, EarlyKeeps
<1>4. ASSUME NEW c \in Callback, NEW b \in BOOLEAN, LoadsState(c, b) PROVE SignOnInv'
  BY <1>4, EarlyKeeps
<1> QED BY <1>1, <1>2, <1>3, <1>4, StateKeeps, ReadsFlowKeeps, DropsStateKeeps, CreatesCodeKeeps, TokenExchangeKeeps,
           AuthCompleteKeeps DEF SignOnNext

\* The state of sign-ons keeps its types.
THEOREM SignOnTypeCorrect == SignOnSpec => []SignOnTypeOK
<1>1. SignOnInv => SignOnTypeOK
  BY DEF SignOnInv
<1> QED BY <1>1, SignOnStarts, SignOnKept, PTL DEF SignOnSpec

\* Whatever number of callbacks come back to whatever number of instances, an
\* authorization code the provider accepted opens one session at most.
THEOREM SignOnCorrect == SignOnSpec => []OneSessionPerCode
<1>1. SignOnInv => OneSessionPerCode
  <2> SUFFICES ASSUME SignOnInv PROVE OneSessionPerCode
    OBVIOUS
  <2>0. SumInv /\ PlaceInv /\ sessions \in Nat /\ Handed = UNION {handoffs[n] : n \in Node}
    BY SignOnTyped DEF SignOnInv, Handed
  <2>1. sessions + Cardinality(codes) + Cardinality(Handed) <= Cardinality(used)
    <3>1. sessions + Cardinality(codes) + Cardinality(Handed) + Cardinality(Proven) <= Cardinality(used)
      BY <2>0 DEF SumInv
    <3> QED BY <2>0, <3>1, Finite
  <2>2. ASSUME NEW c \in Handed PROVE flow = "page" \/ callback[c].blind
    <3>1. PICK n \in Node : c \in handoffs[n]
      BY DEF Handed
    <3>2. c \in Callback /\ callback[c].at = "handed" /\ callback[c].flow # "react"
      BY <3>1, SignOnTyped DEF SignOnInv, PlaceInv
    <3>3. flow # "none" /\ flow \in Asker /\ callback[c].flow \in {"none", flow} /\ callback[c].blind = (callback[c].flow = "none")
      BY <3>2, SignOnTyped DEF SignOnInv, FlowInv
    <3> QED BY <3>2, <3>3 DEF Asker
  <2>3. \A c \in codes, n \in Node : c \notin results[n]
    BY <2>0, SignOnTyped DEF PlaceInv
  <2> QED BY <2>0, <2>1, <2>2, <2>3 DEF OneSessionPerCode
<1> QED BY <1>1, SignOnStarts, SignOnKept, PTL DEF SignOnSpec

-----------------------------------------------------------------------------
(* Rights: what a request is about when it writes, and what its writes add *)
(* up to.                                                                  *)

\* What a request is about is of the kind it writes.
ErrandsInv ==
    \A t \in GrantCall : /\ errand[t].does \in {"grant", "revoke", "replace"} => errand[t].of \subseteq OwnPerms
                         /\ errand[t].does \in {"assign", "unassign"} => errand[t].of \subseteq OwnRoles

\* A name is one group's at a time, and was taken by whoever is listed under it;
\* an id that was not given out yet stands for nothing.
NamesInv ==
    /\ \A g, h \in Existing : named[g] = named[h] => g = h
    /\ \A g \in Existing : named[g] \in taken
    /\ user.groups \subseteq taken
    /\ \A g \in GroupId : g > groupIds => named[g] = NoName /\ g \notin want.groups
    /\ \A t \in GrantCall : errand[t].does \in {"join", "leave"} =>
           errand[t].name \in taken /\ errand[t].group \in GroupId /\ errand[t].group <= groupIds

\* The name of a group that was never renamed, and that nobody had before it,
\* stands for that group, also where it was looked up.
MembersInv ==
    \A g \in Existing \ renamed :
        /\ named[g] \in user.groups <=> g \in want.groups
        /\ \A t \in GrantCall : errand[t].does \in {"join", "leave"} =>
               (errand[t].name = named[g] <=> errand[t].group = g)

RightsInv ==
    RightsTypeOK /\ ErrandsInv /\ NamesInv /\ MembersInv
    /\ user.extra = want.extra /\ user.roles \ raced = want.roles \ raced

\* The records of a request that has not begun and of one that is over.
LEMMA GrantTyped == NoGrant \in Errands /\ GrantDone \in Errands /\ GrantDone.does = "done"
<1>1. NoRights \in RightsOf(GroupNames)
  BY DEF NoRights, RightsOf
<1>2. NoGrant \in Errands
  BY <1>1 DEF NoGrant, Errands
<1>3. GrantDone \in Errands /\ GrantDone.does = "done"
  BY <1>2 DEF GrantDone, Errands
<1> QED BY <1>2, <1>3

\* At first there are no groups.
LEMMA RightsStart == RightsInit => RightsInv
<1> SUFFICES ASSUME RightsInit PROVE RightsInv
  OBVIOUS
<1>0. NoRights.groups = {} /\ NoRights.roles = {} /\ NoRights.extra = {} /\ NoGrant.does = "none"
  BY DEF NoRights, NoGrant
<1>1. NoRights \in RightsOf(GroupNames) /\ NoRights \in RightsOf(GroupId)
  BY DEF NoRights, RightsOf
<1>2. RightsTypeOK
  BY <1>1, GrantTyped DEF RightsInit, RightsTypeOK
<1>3. Existing = {} /\ (\A t \in GrantCall : errand[t].does = "none") /\ user.groups = {} /\ want.groups = {}
  BY <1>0 DEF RightsInit, Existing
<1>4. ErrandsInv /\ NamesInv /\ MembersInv
  BY <1>3 DEF RightsInit, ErrandsInv, NamesInv, MembersInv
<1> QED BY <1>0, <1>2, <1>4 DEF RightsInit, RightsInv

\* A new group has an id and, unless somebody had it before, a name that stand
\* for nothing yet.
LEMMA GroupSteps ==
    ASSUME RightsInv,
           \/ \E name \in GroupNames : CreateGroup(name) \/ \E g \in GroupId : RenameGroup(g, name)
           \/ \E g \in GroupId : DeleteGroup(g)
    PROVE  RightsInv'
<1>t. /\ named \in [GroupId -> GroupNames \cup {NoName}] /\ groupIds \in Nat /\ NoName \notin GroupNames
      /\ GroupId \subseteq Nat
  BY GroupIdAssumption DEF RightsInv, RightsTypeOK, GroupNames, NoName
<1>u. UNCHANGED <<user, errand, want, raced>>
  BY DEF CreateGroup, RenameGroup, DeleteGroup
<1>1. ASSUME NEW name \in GroupNames, CreateGroup(name) PROVE RightsInv'
  <2> DEFINE new == groupIds + 1
  <2>1. /\ new \in GroupId /\ groupIds' = new /\ named' = [named EXCEPT ![new] = name]
        /\ taken' = taken \cup {name} /\ NameFree(name) /\ new > groupIds
        /\ renamed' = IF name \in taken THEN renamed \cup {new} ELSE renamed
    BY <1>1, <1>t DEF CreateGroup
  <2>2. named' \in [GroupId -> GroupNames \cup {NoName}] /\ named'[new] = name
        /\ \A g \in GroupId : g # new => named'[g] = named[g]
    BY <1>t, <2>1
  <2>3. Existing' = Existing \cup {new} /\ new \notin Existing /\ new \notin want.groups
    BY <1>t, <2>1, <2>2 DEF Existing, RightsInv, NamesInv
  <2>4. RightsTypeOK'
    BY <1>t, <1>u, <2>1, <2>2 DEF RightsInv, RightsTypeOK
  <2>5. \A g, h \in Existing' : named'[g] = named'[h] => g = h
    BY <2>1, <2>2, <2>3 DEF NameFree, RightsInv, NamesInv, Existing
  <2>6. NamesInv'
    <3>1. \A g \in Existing' : named'[g] \in taken'
      BY <2>1, <2>2, <2>3 DEF RightsInv, NamesInv, Existing
    <3>2. user'.groups \subseteq taken'
      BY <1>u, <2>1 DEF RightsInv, NamesInv
    <3>3. \A g \in GroupId : g > groupIds' => named'[g] = NoName /\ g \notin want'.groups
      BY <1>t, <1>u, <2>1, <2>2 DEF RightsInv, NamesInv
    <3>4. ASSUME NEW t \in GrantCall, errand'[t].does \in {"join", "leave"}
          PROVE  errand'[t].name \in taken' /\ errand'[t].group \in GroupId /\ errand'[t].group <= groupIds'
      <4>1. errand[t].name \in taken /\ errand[t].group \in GroupId /\ errand[t].group <= groupIds
        BY <1>u, <3>4 DEF RightsInv, NamesInv
      <4>2. \A x, y \in Nat : x <= y => x <= y + 1
        OBVIOUS
      <4>3. errand[t].group \in Nat /\ groupIds \in Nat
        BY <1>t, <4>1
      <4>4. errand[t].group <= groupIds + 1
        BY <4>1, <4>2, <4>3
      <4> QED BY <1>u, <2>1, <4>1, <4>4
    <3> QED BY <2>5, <3>1, <3>2, <3>3, <3>4 DEF NamesInv
  <2>7. MembersInv'
    <3> SUFFICES ASSUME NEW g \in Existing' \ renamed'
                 PROVE  /\ named'[g] \in user'.groups <=> g \in want'.groups
                        /\ \A t \in GrantCall : errand'[t].does \in {"join", "leave"} =>
                               (errand'[t].name = named'[g] <=> errand'[t].group = g)
      BY DEF MembersInv
    <3>1. CASE g = new
      <4>1. name \notin taken /\ named'[g] = name
        BY <2>1, <2>2, <3>1
      <4>2. name \notin user.groups /\ g \notin want.groups
        BY <2>3, <3>1, <4>1 DEF RightsInv, NamesInv
      <4>3. \A t \in GrantCall : errand[t].does \in {"join", "leave"} => errand[t].name # name /\ errand[t].group # new
        BY <1>t, <2>1, <4>1 DEF RightsInv, NamesInv
      <4> QED BY <1>u, <3>1, <4>1, <4>2, <4>3
    <3>2. CASE g # new
      <4>1. g \in Existing \ renamed /\ g \in GroupId /\ named'[g] = named[g]
        BY <2>1, <2>2, <2>3, <3>2 DEF Existing
      <4> QED BY <1>u, <4>1 DEF RightsInv, MembersInv
    <3> QED BY <3>1, <3>2
  <2> QED BY <1>u, <2>4, <2>6, <2>7 DEF RightsInv, ErrandsInv
<1>2. ASSUME NEW name \in GroupNames, NEW g \in GroupId, RenameGroup(g, name) PROVE RightsInv'
  <2>1. /\ g \in Existing /\ NameFree(name) /\ named' = [named EXCEPT ![g] = name] /\ groupIds' = groupIds
        /\ taken' = taken \cup {name} /\ renamed' = renamed \cup {g}
    BY <1>2 DEF RenameGroup
  <2>2. named' \in [GroupId -> GroupNames \cup {NoName}] /\ named'[g] = name
        /\ \A h \in GroupId : h # g => named'[h] = named[h]
    BY <1>t, <2>1
  <2>3. Existing' = Existing
    BY <1>t, <2>1, <2>2 DEF Existing
  <2>4. RightsTypeOK'
    BY <1>u, <2>1, <2>2 DEF RightsInv, RightsTypeOK
  <2>5. NamesInv'
    <3>1. \A h, k \in Existing' : named'[h] = named'[k] => h = k
      BY <2>1, <2>2, <2>3 DEF NameFree, RightsInv, NamesInv, Existing
    <3>2. \A h \in Existing' : named'[h] \in taken'
      BY <2>1, <2>2, <2>3 DEF RightsInv, NamesInv, Existing
    <3>3. \A h \in GroupId : h > groupIds' => named'[h] = NoName /\ h \notin want'.groups
      BY <1>u, <2>1, <2>2 DEF RightsInv, NamesInv, Existing
    <3>4. user'.groups \subseteq taken'
      BY <1>u, <2>1 DEF RightsInv, NamesInv
    <3>5. \A t \in GrantCall : errand'[t].does \in {"join", "leave"} =>
             errand'[t].name \in taken' /\ errand'[t].group \in GroupId /\ errand'[t].group <= groupIds'
      BY <1>u, <2>1 DEF RightsInv, NamesInv
    <3> QED BY <3>1, <3>2, <3>3, <3>4, <3>5 DEF NamesInv
  <2>6. \A h \in Existing' \ renamed' : h \in Existing \ renamed /\ named'[h] = named[h]
    BY <2>1, <2>2, <2>3 DEF Existing
  <2>7. MembersInv'
    BY <1>u, <2>6 DEF RightsInv, MembersInv
  <2> QED BY <1>u, <2>4, <2>5, <2>7 DEF RightsInv, ErrandsInv
<1>3. ASSUME NEW g \in GroupId, DeleteGroup(g) PROVE RightsInv'
  <2>1. named' = [named EXCEPT ![g] = NoName] /\ UNCHANGED <<groupIds, taken, renamed>>
    BY <1>3 DEF DeleteGroup
  <2>2. named' \in [GroupId -> GroupNames \cup {NoName}] /\ \A h \in GroupId : named'[h] = IF h = g THEN NoName ELSE named[h]
    BY <1>t, <2>1
  <2>3. Existing' \subseteq Existing /\ \A h \in Existing' : named'[h] = named[h]
    BY <2>2 DEF Existing
  <2>4. RightsTypeOK'
    BY <1>u, <2>1, <2>2 DEF RightsInv, RightsTypeOK
  <2>5. NamesInv'
    BY <1>u, <2>1, <2>2, <2>3 DEF RightsInv, NamesInv
  <2>6. MembersInv'
    BY <1>u, <2>1, <2>3 DEF RightsInv, MembersInv
  <2> QED BY <1>u, <2>4, <2>5, <2>6 DEF RightsInv, ErrandsInv
<1> QED BY <1>1, <1>2, <1>3

\* What a request looks up, it takes along.
LEMMA LooksKeep ==
    ASSUME RightsInv, NEW t \in GrantCall, NEW does \in {"join", "leave", "assign", "unassign", "grant", "revoke", "replace"},
           NEW g \in GroupId \cup {0}, NEW name \in GroupNames \cup {NoName}, NEW of \in SUBSET (OwnRoles \cup OwnPerms),
           Looks(t, does, g, name, of),
           does \in {"join", "leave"} => g \in Existing /\ name = named[g],
           does \in {"grant", "revoke", "replace"} => of \subseteq OwnPerms,
           does \in {"assign", "unassign"} => of \subseteq OwnRoles
    PROVE  RightsInv'
<1> DEFINE new == [does |-> does, group |-> g, name |-> name, of |-> of, saw |-> user]
<1>1. UNCHANGED <<user, named, groupIds, taken, want, renamed, raced>> /\ errand' = [errand EXCEPT ![t] = new]
  BY DEF Looks
<1>2. new \in Errands
  BY DEF Errands, RightsInv, RightsTypeOK
<1>3. errand' \in [GrantCall -> Errands] /\ \A u \in GrantCall : errand'[u] = IF u = t THEN new ELSE errand[u]
  BY <1>1, <1>2 DEF RightsInv, RightsTypeOK
<1>4. RightsTypeOK' /\ Existing' = Existing
  BY <1>1, <1>3 DEF RightsInv, RightsTypeOK, Existing
<1>5. ErrandsInv'
  BY <1>3 DEF RightsInv, ErrandsInv
<1>6. does \in {"join", "leave"} => name \in taken /\ g \in GroupId /\ g <= groupIds
  <2>1. groupIds \in Nat /\ GroupId \subseteq Nat
    BY GroupIdAssumption DEF RightsInv, RightsTypeOK
  <2>2. g \in Existing => g \in GroupId /\ named[g] \in taken /\ ~(g > groupIds)
    BY DEF RightsInv, NamesInv, Existing
  <2> QED BY <2>1, <2>2
<1>7. NamesInv'
  BY <1>1, <1>3, <1>4, <1>6 DEF RightsInv, NamesInv
<1>8. \A h \in Existing : does \in {"join", "leave"} => (name = named[h] <=> g = h)
  BY DEF RightsInv, NamesInv
<1>9. MembersInv'
  BY <1>1, <1>3, <1>4, <1>8 DEF RightsInv, MembersInv
<1> QED BY <1>1, <1>4, <1>5, <1>7, <1>9 DEF RightsInv

\* A request that ends is no request about a group any more.
LEMMA EndKeeps ==
    ASSUME RightsInv, NEW t \in GrantCall, errand' = [errand EXCEPT ![t] = GrantDone],
           UNCHANGED <<named, groupIds, taken, renamed>>
    PROVE  /\ errand' \in [GrantCall -> Errands] /\ Existing' = Existing /\ ErrandsInv'
           /\ \A u \in GrantCall : errand'[u].does \in {"join", "leave"} => errand'[u] = errand[u]
<1>1. errand' \in [GrantCall -> Errands] /\ \A u \in GrantCall : errand'[u] = IF u = t THEN GrantDone ELSE errand[u]
  BY GrantTyped DEF RightsInv, RightsTypeOK
<1>2. Existing' = Existing
  BY DEF Existing
<1>3. ErrandsInv'
  BY <1>1, GrantTyped DEF RightsInv, ErrandsInv
<1> QED BY <1>1, <1>2, <1>3, GrantTyped

\* A request carried out that leaves the groups alone.
LEMMA GroupsLeft ==
    ASSUME RightsInv, NEW t \in GrantCall, NEW row \in RightsOf(GroupNames), NEW wanted \in RightsOf(GroupId),
           Carried(t, row, wanted), row.groups = user.groups, wanted.groups = want.groups,
           raced' \subseteq OwnRoles, row.extra = wanted.extra, row.roles \ raced' = wanted.roles \ raced'
    PROVE  RightsInv'
<1>1. /\ user' = row /\ want' = wanted /\ errand' = [errand EXCEPT ![t] = GrantDone]
      /\ UNCHANGED <<named, groupIds, taken, renamed>>
  BY DEF Carried
<1>2. RightsTypeOK'
  BY <1>1, EndKeeps DEF RightsInv, RightsTypeOK
<1>3. NamesInv'
  BY <1>1, EndKeeps DEF RightsInv, NamesInv
<1>4. MembersInv'
  <2> SUFFICES ASSUME NEW g \in Existing' \ renamed'
               PROVE  /\ named'[g] \in user'.groups <=> g \in want'.groups
                      /\ \A u \in GrantCall : errand'[u].does \in {"join", "leave"} =>
                             (errand'[u].name = named'[g] <=> errand'[u].group = g)
    BY DEF MembersInv
  <2>1. g \in Existing \ renamed /\ named'[g] = named[g]
    BY <1>1, EndKeeps
  <2>2. named'[g] \in user'.groups <=> g \in want'.groups
    BY <1>1, <2>1 DEF RightsInv, MembersInv
  <2>3. \A u \in GrantCall : errand'[u].does \in {"join", "leave"} => errand'[u] = errand[u]
    BY <1>1, EndKeeps
  <2> QED BY <2>1, <2>2, <2>3 DEF RightsInv, MembersInv
<1> QED BY <1>1, <1>2, <1>3, <1>4, EndKeeps DEF RightsInv

\* What a request writes is what it was about.
LEMMA WritesKeep ==
    ASSUME RightsInv, NEW t \in GrantCall,
           MembershipSet(t) \/ ExtraSet(t) \/ ExtraReplaced(t) \/ RoleSet(t) \/ GrantFails(t)
    PROVE  RightsInv'
<1> DEFINE e == errand[t]
<1>t. /\ user \in RightsOf(GroupNames) /\ want \in RightsOf(GroupId) /\ e \in Errands /\ raced \subseteq OwnRoles
      /\ user.extra = want.extra /\ user.roles \ raced = want.roles \ raced
  BY DEF RightsInv, RightsTypeOK
<1>1. CASE MembershipSet(t)
  <2> DEFINE groups  == With(t, "join", {e.name}, user.groups)
             members == With(t, "join", {e.group}, want.groups)
  <2>1. e.does \in {"join", "leave"} /\ e.name \in GroupNames /\ e.group \in GroupId /\ e.name \in taken /\ e.group <= groupIds
    BY <1>1, <1>t DEF MembershipSet, RightsInv, NamesInv, Errands, RightsTypeOK
  <2>2. groups \subseteq GroupNames /\ members \subseteq GroupId
    BY <1>t, <2>1 DEF With, RightsOf
  <2>3. /\ user' = [user EXCEPT !.groups = groups] /\ want' = [want EXCEPT !.groups = members]
        /\ errand' = [errand EXCEPT ![t] = GrantDone]
        /\ UNCHANGED <<named, groupIds, taken, renamed, raced>>
    BY <1>1 DEF MembershipSet, Carried, ReadAgain
  <2>4. /\ user' \in RightsOf(GroupNames) /\ user'.groups = groups /\ user'.extra = user.extra /\ user'.roles = user.roles
    BY <1>t, <2>2, <2>3 DEF RightsOf
  <2>5. /\ want' \in RightsOf(GroupId) /\ want'.groups = members /\ want'.extra = want.extra /\ want'.roles = want.roles
    BY <1>t, <2>2, <2>3 DEF RightsOf
  <2>6. RightsTypeOK'
    BY <2>3, <2>4, <2>5, EndKeeps DEF RightsInv, RightsTypeOK
  <2>7. groups \subseteq taken /\ \A g \in members : g \in want.groups \/ g <= groupIds
    BY <2>1 DEF With, RightsInv, NamesInv
  <2>8. NamesInv'
    <3>1. \A g \in GroupId : g > groupIds => named[g] = NoName /\ g \notin members
      <4> SUFFICES ASSUME NEW g \in GroupId, g > groupIds PROVE named[g] = NoName /\ g \notin members
        OBVIOUS
      <4>1. named[g] = NoName /\ g \notin want.groups
        BY DEF RightsInv, NamesInv
      <4>2. g \in Nat /\ groupIds \in Nat
        BY GroupIdAssumption DEF RightsInv, RightsTypeOK
      <4> HIDE DEF members
      <4> QED BY <2>7, <4>1, <4>2
    <3> HIDE DEF groups, members
    <3> QED BY <2>3, <2>4, <2>5, <2>7, <3>1, EndKeeps DEF RightsInv, NamesInv
  <2>9. ASSUME NEW g \in Existing \ renamed PROVE named[g] \in groups <=> g \in members
    <3>1. e.name = named[g] <=> e.group = g
      BY <2>1 DEF RightsInv, MembersInv
    <3>2. named[g] \in user.groups <=> g \in want.groups
      BY DEF RightsInv, MembersInv
    <3> QED BY <2>1, <3>1, <3>2 DEF With
  <2>10. MembersInv'
    <3> HIDE DEF groups, members
    <3> SUFFICES ASSUME NEW g \in Existing' \ renamed'
                 PROVE  /\ named'[g] \in user'.groups <=> g \in want'.groups
                        /\ \A u \in GrantCall : errand'[u].does \in {"join", "leave"} =>
                               (errand'[u].name = named'[g] <=> errand'[u].group = g)
      BY DEF MembersInv
    <3>1. g \in Existing \ renamed /\ named'[g] = named[g]
      BY <2>3, EndKeeps
    <3>2. named'[g] \in user'.groups <=> g \in want'.groups
      BY <2>4, <2>5, <2>9, <3>1
    <3>3. \A u \in GrantCall : errand'[u].does \in {"join", "leave"} => errand'[u] = errand[u]
      BY <2>3, EndKeeps
    <3> QED BY <3>1, <3>2, <3>3 DEF RightsInv, MembersInv
  <2> QED BY <1>t, <2>3, <2>4, <2>5, <2>6, <2>8, <2>10, EndKeeps DEF RightsInv
<1>2. CASE ExtraSet(t)
  <2> DEFINE extra == With(t, "grant", e.of, user.extra)
  <2>1. /\ e.of \subseteq OwnPerms /\ UNCHANGED raced
        /\ Carried(t, [user EXCEPT !.extra = extra], [want EXCEPT !.extra = With(t, "grant", e.of, want.extra)])
    BY <1>2 DEF ExtraSet, ReadAgain, RightsInv, ErrandsInv
  <2>2. extra \subseteq OwnPerms /\ With(t, "grant", e.of, want.extra) = extra
    BY <1>t, <2>1 DEF With, RightsOf
  <2> HIDE DEF extra
  <2>3. /\ [user EXCEPT !.extra = extra] \in RightsOf(GroupNames) /\ [user EXCEPT !.extra = extra].groups = user.groups
        /\ [user EXCEPT !.extra = extra].extra = extra /\ [user EXCEPT !.extra = extra].roles = user.roles
    BY <1>t, <2>2 DEF RightsOf
  <2>4. /\ [want EXCEPT !.extra = extra] \in RightsOf(GroupId) /\ [want EXCEPT !.extra = extra].groups = want.groups
        /\ [want EXCEPT !.extra = extra].extra = extra /\ [want EXCEPT !.extra = extra].roles = want.roles
    BY <1>t, <2>2 DEF RightsOf
  <2> QED BY <1>t, <2>1, <2>2, <2>3, <2>4, GroupsLeft
<1>3. CASE ExtraReplaced(t)
  <2> DEFINE extra == e.of
  <2>1. /\ extra \subseteq OwnPerms /\ UNCHANGED raced
        /\ Carried(t, [user EXCEPT !.extra = extra], [want EXCEPT !.extra = extra])
    BY <1>3 DEF ExtraReplaced, ReadAgain, RightsInv, ErrandsInv
  <2> HIDE DEF extra
  <2>3. /\ [user EXCEPT !.extra = extra] \in RightsOf(GroupNames) /\ [user EXCEPT !.extra = extra].groups = user.groups
        /\ [user EXCEPT !.extra = extra].extra = extra /\ [user EXCEPT !.extra = extra].roles = user.roles
    BY <1>t, <2>1 DEF RightsOf
  <2>4. /\ [want EXCEPT !.extra = extra] \in RightsOf(GroupId) /\ [want EXCEPT !.extra = extra].groups = want.groups
        /\ [want EXCEPT !.extra = extra].extra = extra /\ [want EXCEPT !.extra = extra].roles = want.roles
    BY <1>t, <2>1 DEF RightsOf
  <2> QED BY <1>t, <2>1, <2>3, <2>4, GroupsLeft
<1>4. CASE RoleSet(t)
  <2> DEFINE saw   == e.saw.roles
             other == (saw \ user.roles) \cup (user.roles \ saw)
             roles == With(t, "assign", e.of, saw)
             meant == With(t, "assign", e.of, want.roles)
  <2>1. /\ e.of \subseteq OwnRoles /\ raced' = (raced \cup other) \ e.of
        /\ Carried(t, [user EXCEPT !.roles = roles], [want EXCEPT !.roles = meant])
    BY <1>4 DEF RoleSet, ReadAgain, RightsInv, ErrandsInv
  <2>2. saw \subseteq OwnRoles /\ user.roles \subseteq OwnRoles /\ want.roles \subseteq OwnRoles
    BY <1>t DEF Errands, RightsOf
  <2>3. roles \subseteq OwnRoles /\ meant \subseteq OwnRoles /\ raced' \subseteq OwnRoles
    BY <1>t, <2>1, <2>2 DEF With
  <2>4. roles \ raced' = meant \ raced'
    BY <1>t, <2>1 DEF With
  <2> HIDE DEF roles, meant
  <2>5. /\ [user EXCEPT !.roles = roles] \in RightsOf(GroupNames) /\ [user EXCEPT !.roles = roles].groups = user.groups
        /\ [user EXCEPT !.roles = roles].extra = user.extra /\ [user EXCEPT !.roles = roles].roles = roles
    BY <1>t, <2>3 DEF RightsOf
  <2>6. /\ [want EXCEPT !.roles = meant] \in RightsOf(GroupId) /\ [want EXCEPT !.roles = meant].groups = want.groups
        /\ [want EXCEPT !.roles = meant].extra = want.extra /\ [want EXCEPT !.roles = meant].roles = meant
    BY <1>t, <2>3 DEF RightsOf
  <2> QED BY <1>t, <2>1, <2>3, <2>4, <2>5, <2>6, GroupsLeft
<1>5. CASE GrantFails(t)
  <2>1. errand' = [errand EXCEPT ![t] = GrantDone] /\ UNCHANGED <<user, named, groupIds, taken, want, renamed, raced>>
    BY <1>5 DEF GrantFails
  <2>2. Carried(t, user, want)
    BY <2>1 DEF Carried
  <2> QED BY <1>t, <2>1, <2>2, GroupsLeft
<1> QED BY <1>1, <1>2, <1>3, <1>4, <1>5

\* Every step keeps the invariant.
LEMMA RightsKept == RightsInv /\ [RightsNext]_rightsVars => RightsInv'
<1> SUFFICES ASSUME RightsInv, [RightsNext]_rightsVars PROVE RightsInv'
  OBVIOUS
<1>1. ASSUME NEW t \in GrantCall, NEW does \in {"join", "leave"}, NEW g \in GroupId, LooksForGroup(t, does, g) PROVE RightsInv'
  <2>1. named[g] \in GroupNames \cup {NoName} /\ {} \in SUBSET (OwnRoles \cup OwnPerms)
    BY DEF RightsInv, RightsTypeOK
  <2> QED BY <1>1, <2>1, LooksKeep DEF LooksForGroup
<1>2. ASSUME NEW t \in GrantCall, NEW does \in {"assign", "unassign"}, NEW r \in OwnRoles, LooksForRole(t, does, r) PROVE RightsInv'
  <2>1. {r} \in SUBSET (OwnRoles \cup OwnPerms) /\ {r} \subseteq OwnRoles
    OBVIOUS
  <2> QED BY <1>2, <2>1, LooksKeep DEF LooksForRole
<1>3. ASSUME NEW t \in GrantCall, NEW does \in {"grant", "revoke", "replace"}, NEW ps \in SUBSET OwnPerms, LooksForUser(t, does, ps)
      PROVE  RightsInv'
  BY <1>3, LooksKeep DEF LooksForUser
<1>5. ASSUME NEW t \in GrantCall, NEW does \in {"grant", "revoke"}, NEW p \in OwnPerms, LooksForUser(t, does, {p}) PROVE RightsInv'
  <2>1. {p} \in SUBSET OwnPerms
    OBVIOUS
  <2> QED BY <1>3, <1>5, <2>1
<1>4. CASE UNCHANGED rightsVars
  BY <1>4 DEF rightsVars, RightsInv, RightsTypeOK, ErrandsInv, NamesInv, MembersInv, Existing
<1> QED BY <1>1, <1>2, <1>3, <1>4, <1>5, GroupSteps, WritesKeep DEF RightsNext

\* The rows of users and groups keep their types.
THEOREM RightsTypeCorrect == RightsSpec => []RightsTypeOK
<1>1. RightsInv => RightsTypeOK
  BY DEF RightsInv
<1> QED BY <1>1, RightsStart, RightsKept, PTL DEF RightsSpec

\* However requests overlap, a user has what they add up to.
THEOREM RightsCorrect == RightsSpec => []UserHasWhatWasAsked
<1>1. RightsInv => UserHasWhatWasAsked
  BY DEF RightsInv, MembersInv, UserHasWhatWasAsked
<1> QED BY <1>1, RightsStart, RightsKept, PTL DEF RightsSpec

-----------------------------------------------------------------------------
(* Grants: what a transaction read, and what an instance may go by.        *)

Granted == "mapped" \in groupRoles

\* What a transaction read is what there is, unless the database knows that it
\* is not.
ReadInv ==
    \A t \in Txn : txn[t].stage = "read" =>
        /\ ~txn[t].stale => txn[t].seen = groupRoles
        /\ txn[t].done => ledger
        /\ txn[t].does # "none" /\ (txn[t].does = "sync" => txn[t].role = "mapped")
        /\ txn[t].at \in Server

\* What an instance believes, or is about to, is true, or was when it began to
\* ask, and was changed since.
AskedInv ==
    /\ \A i \in Server : allowed[i].left > 0 /\ allowed[i].value # Granted => unchanged <= Ttl - allowed[i].left
    /\ \A i \in Server : lookup[i].stage = "read" /\ lookup[i].value # Granted => unchanged <= lookup[i].took

GrantsInv == GrantsTypeOK /\ ReadInv /\ AskedInv

\* What the types say of one transaction and one instance.
LEMMA GrantsTyped ==
    ASSUME GrantsInv
    PROVE  /\ groupRoles \subseteq Role /\ ledger \in BOOLEAN /\ unchanged \in 0..Ttl /\ Ttl \in Nat
           /\ txn \in [Txn -> TxnRec] /\ \A t \in Txn : txn[t] \in TxnRec
           /\ allowed \in [Server -> [value : BOOLEAN, left : 0..Ttl]]
           /\ \A i \in Server : allowed[i] \in [value : BOOLEAN, left : 0..Ttl] /\ allowed[i].left \in 0..Ttl
           /\ lookup \in [Server -> LookupRec] /\ \A i \in Server : lookup[i] \in LookupRec /\ lookup[i].took \in 0..Ttl
           /\ Granted \in BOOLEAN
  BY GrantsAssumption DEF GrantsInv, GrantsTypeOK, LookupRec, Granted

\* The records of a transaction.
LEMMA TxnFacts ==
    /\ NoTxn \in TxnRec /\ NoTxn.stage = "none"
    /\ TxnEnded \in TxnRec /\ TxnEnded.stage = "ended"
<1>1. NoTxn \in TxnRec /\ NoTxn.stage = "none"
  BY DEF NoTxn, TxnRec, Role
<1>2. TxnEnded = [NoTxn EXCEPT !.stage = "ended"]
  BY DEF TxnEnded
<1>3. [NoTxn EXCEPT !.stage = "ended"] \in TxnRec /\ [NoTxn EXCEPT !.stage = "ended"].stage = "ended"
  BY <1>1 DEF TxnRec
<1> QED BY <1>1, <1>2, <1>3

\* The records of a question.
LEMMA LookupFacts ==
    /\ NoLookup \in LookupRec /\ NoLookup.stage = "none"
    /\ [NoLookup EXCEPT !.stage = "starts"] \in LookupRec /\ [NoLookup EXCEPT !.stage = "starts"].stage = "starts"
<1>1. NoLookup \in LookupRec /\ NoLookup.stage = "none"
  BY GrantsAssumption DEF NoLookup, LookupRec
<1>2. [NoLookup EXCEPT !.stage = "starts"] \in LookupRec /\ [NoLookup EXCEPT !.stage = "starts"].stage = "starts"
  BY <1>1 DEF LookupRec
<1> QED BY <1>1, <1>2

\* At first nothing was read or asked.
LEMMA GrantsStart == GrantsInit => GrantsInv
<1> SUFFICES ASSUME GrantsInit PROVE GrantsInv
  OBVIOUS
<1>1. /\ \A t \in Txn : txn[t] = NoTxn
      /\ \A i \in Server : allowed[i] = [value |-> FALSE, left |-> 0] /\ lookup[i] = NoLookup
  BY DEF GrantsInit
<1>2. [value |-> FALSE, left |-> 0] \in [value : BOOLEAN, left : 0..Ttl] /\ Ttl \in 0..Ttl
  BY GrantsAssumption
<1>3. GrantsTypeOK
  BY <1>2, TxnFacts, LookupFacts DEF GrantsInit, GrantsTypeOK
<1>4. ReadInv
  BY <1>1, TxnFacts DEF ReadInv
<1>5. AskedInv
  BY <1>1, LookupFacts DEF AskedInv
<1> QED BY <1>3, <1>4, <1>5 DEF GrantsInv

-----------------------------------------------------------------------------
\* A transaction that reads has the roles as they are.
LEMMA TxnReadsKeeps ==
    ASSUME GrantsInv, NEW t \in Txn, NEW i \in Server, NEW does \in {"sync", "assign", "unassign"}, NEW role \in Role,
           TxnReads(t, i, does, role)
    PROVE  GrantsInv'
<1> DEFINE new == [does |-> does, role |-> role, at |-> i, stage |-> "read", seen |-> groupRoles, done |-> ledger, stale |-> FALSE]
<1>1. txn' = [txn EXCEPT ![t] = new] /\ UNCHANGED <<groupRoles, ledger, allowed, lookup, unchanged>> /\ (does = "sync" => role = "mapped")
  BY DEF TxnReads
<1>2. /\ new \in TxnRec /\ new.seen = groupRoles /\ new.done = ledger /\ new.does = does /\ new.role = role /\ new.at = i
  BY GrantsTyped DEF TxnRec
<1> HIDE DEF new
<1>3. txn' \in [Txn -> TxnRec] /\ \A u \in Txn : txn'[u] = IF u = t THEN new ELSE txn[u]
  BY <1>1, <1>2, GrantsTyped
<1>4. GrantsTypeOK'
  BY <1>1, <1>3 DEF GrantsInv, GrantsTypeOK
<1>5. ReadInv'
  BY <1>1, <1>2, <1>3 DEF GrantsInv, ReadInv
<1>6. AskedInv'
  BY <1>1 DEF GrantsInv, AskedInv, Granted
<1> QED BY <1>4, <1>5, <1>6 DEF GrantsInv

\* What a transaction makes of the roles it read.
LEMMA RewrittenTyped ==
    ASSUME GrantsInv, NEW t \in Txn PROVE Rewritten(t) \subseteq Role
<1>1. txn[t].seen \subseteq Role /\ txn[t].role \in Role
  BY GrantsTyped DEF TxnRec
<1> QED BY <1>1 DEF Rewritten, Role

\* The group is rewritten by one who has read it as it is.
LEMMA WritesWhatItRead ==
    ASSUME GrantsInv, NEW t \in Txn, txn[t].stage = "read", ~Conflicts(t), Rewritten(t) # txn[t].seen
    PROVE  /\ txn[t].seen = groupRoles
           /\ \A r \in groupRoles \ Rewritten(t) : txn[t].does = "unassign" /\ txn[t].role = r
           /\ "mapped" \in Rewritten(t) \ groupRoles /\ ledger => txn[t].does = "assign" /\ txn[t].role = "mapped"
<1>1. txn[t].seen = groupRoles
  BY DEF Conflicts, GrantsInv, ReadInv
<1>2. Applies(t) => ~ledger
  BY DEF Conflicts, Applies
<1> QED BY <1>1, <1>2 DEF Rewritten

\* A transaction that commits makes those that read before it stale; one that is stale does not commit.
LEMMA TxnEndsKeeps == ASSUME GrantsInv, NEW t \in Txn, TxnEnds(t) PROVE GrantsInv'
<1>1. txn[t].stage = "read" /\ lookup' = lookup
  BY DEF TxnEnds
<1>2. CASE Conflicts(t)
  <2>1. UNCHANGED <<groupRoles, ledger, allowed, unchanged>> /\ txn' = [txn EXCEPT ![t] = TxnEnded]
    BY <1>2 DEF TxnEnds
  <2>2. txn' \in [Txn -> TxnRec] /\ \A u \in Txn : txn'[u] = IF u = t THEN TxnEnded ELSE txn[u]
    BY <2>1, GrantsTyped, TxnFacts
  <2>3. GrantsTypeOK'
    BY <1>1, <2>1, <2>2 DEF GrantsInv, GrantsTypeOK
  <2>4. ReadInv'
    BY <2>1, <2>2, TxnFacts DEF GrantsInv, ReadInv
  <2>5. AskedInv'
    BY <1>1, <2>1 DEF GrantsInv, AskedInv, Granted
  <2> QED BY <2>3, <2>4, <2>5 DEF GrantsInv
<1>3. CASE ~Conflicts(t)
  <2> DEFINE new    == Rewritten(t)
             writes == new # txn[t].seen
  <2>1. /\ groupRoles' = IF writes THEN new ELSE groupRoles
        /\ ledger' = (ledger \/ Applies(t))
        /\ allowed' = IF txn[t].does = "sync" /\ ~Applies(t) THEN allowed ELSE Invalidated(txn[t].at)
        /\ unchanged' = IF Granted' = Granted THEN unchanged ELSE 0
        /\ txn' = [u \in Txn |-> IF u = t THEN TxnEnded
                                 ELSE IF writes /\ txn[u].stage = "read" THEN [txn[u] EXCEPT !.stale = TRUE]
                                 ELSE txn[u]]
    BY <1>3 DEF TxnEnds, Granted
  <2>2. groupRoles' \subseteq Role
    BY <2>1, GrantsTyped, RewrittenTyped
  <2>3. ~writes => groupRoles' = groupRoles
    BY <2>1
  <2> HIDE DEF writes
  <2>4. ledger' \in BOOLEAN /\ (ledger => ledger')
    BY <2>1, GrantsTyped
  <2>5. unchanged' \in 0..Ttl /\ (Granted' # Granted => unchanged' = 0) /\ unchanged' <= unchanged /\ unchanged' \in Nat /\ unchanged \in Nat
    BY <2>1, GrantsTyped
  <2>6. ASSUME NEW u \in Txn
        PROVE  /\ txn'[u] \in TxnRec
               /\ txn'[u].stage = "read" =>
                    /\ u # t /\ txn[u].stage = "read" /\ (~txn'[u].stale => ~txn[u].stale /\ ~writes) /\ txn'[u].seen = txn[u].seen
                    /\ txn'[u].done = txn[u].done /\ txn'[u].does = txn[u].does /\ txn'[u].role = txn[u].role /\ txn'[u].at = txn[u].at
    <3>1. CASE u = t
      BY <2>1, <3>1, TxnFacts
    <3>2. CASE u # t /\ writes /\ txn[u].stage = "read"
      <4>1. txn'[u] = [txn[u] EXCEPT !.stale = TRUE]
        BY <2>1, <3>2
      <4>2. txn[u] \in TxnRec
        BY GrantsTyped
      <4> QED BY <3>2, <4>1, <4>2 DEF TxnRec
    <3>3. CASE u # t /\ ~(writes /\ txn[u].stage = "read")
      <4>1. txn'[u] = txn[u]
        BY <2>1, <3>3
      <4> QED BY <3>3, <4>1, GrantsTyped
    <3> QED BY <3>1, <3>2, <3>3
  <2>7. txn' \in [Txn -> TxnRec]
    <3>1. txn' = [u \in Txn |-> txn'[u]]
      BY <2>1
    <3> QED BY <2>6, <3>1
  <2>8. /\ allowed' \in [Server -> [value : BOOLEAN, left : 0..Ttl]]
        /\ \A i \in Server : allowed'[i] = allowed[i] \/ allowed'[i].left = 0
    <3>1. [value |-> FALSE, left |-> 0] \in [value : BOOLEAN, left : 0..Ttl] /\ [value |-> FALSE, left |-> 0].left = 0
      BY GrantsAssumption
    <3>2. allowed' = allowed \/ allowed' = [allowed EXCEPT ![txn[t].at] = [value |-> FALSE, left |-> 0]]
      BY <2>1 DEF Invalidated
    <3> QED BY <3>1, <3>2, GrantsTyped
  <2>9. GrantsTypeOK'
    BY <1>1, <2>2, <2>4, <2>5, <2>7, <2>8 DEF GrantsInv, GrantsTypeOK
  <2>10. ReadInv'
    <3>1. ASSUME NEW u \in Txn, txn'[u].stage = "read"
          PROVE  /\ ~txn'[u].stale => txn'[u].seen = groupRoles'
                 /\ txn'[u].done => ledger'
                 /\ txn'[u].does # "none" /\ (txn'[u].does = "sync" => txn'[u].role = "mapped")
                 /\ txn'[u].at \in Server
      BY <2>3, <2>4, <2>6, <3>1 DEF GrantsInv, ReadInv
    <3> QED BY <3>1 DEF ReadInv
  <2>11. AskedInv'
    <3>1. ASSUME NEW i \in Server, allowed'[i].left > 0, allowed'[i].value # Granted' PROVE unchanged' <= Ttl - allowed'[i].left
      <4>1. allowed'[i] = allowed[i] /\ allowed[i].left \in 0..Ttl /\ Ttl \in Nat
        BY <2>8, <3>1, GrantsTyped
      <4>2. CASE Granted' = Granted
        <5>1. unchanged <= Ttl - allowed[i].left
          BY <3>1, <4>1, <4>2 DEF GrantsInv, AskedInv
        <5> QED BY <2>5, <4>1, <5>1
      <4>3. CASE Granted' # Granted
        BY <2>5, <4>1, <4>3
      <4> QED BY <4>2, <4>3
    <3>2. ASSUME NEW i \in Server, lookup'[i].stage = "read", lookup'[i].value # Granted' PROVE unchanged' <= lookup'[i].took
      <4>1. lookup'[i] = lookup[i] /\ lookup[i].took \in 0..Ttl
        BY <1>1, GrantsTyped
      <4>2. CASE Granted' = Granted
        <5>1. unchanged <= lookup[i].took
          BY <3>2, <4>1, <4>2 DEF GrantsInv, AskedInv
        <5> QED BY <2>5, <4>1, <5>1
      <4>3. CASE Granted' # Granted
        BY <2>5, <4>1, <4>3
      <4> QED BY <4>2, <4>3
    <3> QED BY <3>1, <3>2 DEF AskedInv
  <2> QED BY <2>9, <2>10, <2>11 DEF GrantsInv
<1> QED BY <1>2, <1>3

\* An instance asks the database, and remembers the answer for the time that is
\* left.
LEMMA LookupKeeps ==
    ASSUME GrantsInv, NEW i \in Server, LookupStarts(i) \/ LookupReads(i) \/ LookupStores(i)
    PROVE  GrantsInv'
<1>1. UNCHANGED <<groupRoles, ledger, txn, unchanged>> /\ Granted' = Granted
  BY DEF LookupStarts, LookupReads, LookupStores, Granted
<1>2. ReadInv'
  BY <1>1 DEF GrantsInv, ReadInv
<1>3. CASE LookupStarts(i)
  <2>1. allowed' = allowed /\ lookup' = [lookup EXCEPT ![i] = [NoLookup EXCEPT !.stage = "starts"]]
    BY <1>3 DEF LookupStarts
  <2>2. /\ lookup' \in [Server -> LookupRec]
        /\ \A j \in Server : lookup'[j] = lookup[j] \/ lookup'[j].stage = "starts"
    BY <2>1, GrantsTyped, LookupFacts
  <2>3. GrantsTypeOK'
    BY <1>1, <2>1, <2>2 DEF GrantsInv, GrantsTypeOK
  <2>4. AskedInv'
    BY <1>1, <2>1, <2>2 DEF GrantsInv, AskedInv
  <2> QED BY <1>2, <2>3, <2>4 DEF GrantsInv
<1>4. CASE LookupReads(i)
  <2> DEFINE new == [lookup[i] EXCEPT !.stage = "read", !.value = Granted]
  <2>1. allowed' = allowed /\ lookup' = [lookup EXCEPT ![i] = new]
    BY <1>4 DEF LookupReads, Granted
  <2>2. new \in LookupRec /\ new.value = Granted
    BY GrantsTyped DEF LookupRec
  <2> HIDE DEF new
  <2>3. /\ lookup' \in [Server -> LookupRec]
        /\ \A j \in Server : lookup'[j] = lookup[j] \/ lookup'[j].value = Granted
    BY <2>1, <2>2, GrantsTyped
  <2>4. GrantsTypeOK'
    BY <1>1, <2>1, <2>3 DEF GrantsInv, GrantsTypeOK
  <2>5. AskedInv'
    BY <1>1, <2>1, <2>3 DEF GrantsInv, AskedInv
  <2> QED BY <1>2, <2>4, <2>5 DEF GrantsInv
<1>5. CASE LookupStores(i)
  <2> DEFINE new == [value |-> lookup[i].value, left |-> Ttl - lookup[i].took]
  <2>1. lookup[i].stage = "read" /\ allowed' = [allowed EXCEPT ![i] = new] /\ lookup' = [lookup EXCEPT ![i] = NoLookup]
    BY <1>5 DEF LookupStores, Left
  <2>2. lookup[i].took \in Nat /\ lookup[i].took <= Ttl /\ Ttl \in Nat /\ lookup[i].value \in BOOLEAN
    BY GrantsTyped DEF LookupRec
  <2>3. Ttl - lookup[i].took \in 0..Ttl /\ Ttl - (Ttl - lookup[i].took) = lookup[i].took
    BY <2>2
  <2>4. new \in [value : BOOLEAN, left : 0..Ttl] /\ new.value = lookup[i].value /\ Ttl - new.left = lookup[i].took
    BY <2>2, <2>3
  <2> HIDE DEF new
  <2>5. /\ lookup' \in [Server -> LookupRec]
        /\ \A j \in Server : lookup'[j] = lookup[j] \/ lookup'[j].stage = "none"
    BY <2>1, GrantsTyped, LookupFacts
  <2>6. /\ allowed' \in [Server -> [value : BOOLEAN, left : 0..Ttl]]
        /\ \A j \in Server : allowed'[j] = IF j = i THEN new ELSE allowed[j]
    BY <2>1, <2>4, GrantsTyped
  <2>7. GrantsTypeOK'
    BY <1>1, <2>5, <2>6 DEF GrantsInv, GrantsTypeOK
  <2>8. AskedInv'
    BY <1>1, <2>1, <2>4, <2>5, <2>6 DEF GrantsInv, AskedInv
  <2> QED BY <1>2, <2>7, <2>8 DEF GrantsInv
<1> QED BY <1>3, <1>4, <1>5

\* Time passes for answers and for the roles alike.
LEMMA ClockKeeps == ASSUME GrantsInv, ClockTicks PROVE GrantsInv'
<1>1. UNCHANGED <<groupRoles, ledger, txn>> /\ Granted' = Granted
  BY DEF ClockTicks, Granted
<1>2. ReadInv'
  BY <1>1 DEF GrantsInv, ReadInv
<1>3. unchanged' \in 0..Ttl /\ unchanged' <= unchanged + 1 /\ unchanged \in Nat /\ unchanged' \in Nat /\ Ttl \in Nat /\ unchanged' <= Ttl
  <2>1. unchanged \in Nat /\ unchanged <= Ttl /\ Ttl \in Nat
    BY GrantsTyped
  <2>2. unchanged' = IF unchanged = Ttl THEN Ttl ELSE unchanged + 1
    BY DEF ClockTicks
  <2> QED BY <2>1, <2>2
<1>4. ASSUME NEW i \in Server
      PROVE  /\ allowed'[i] \in [value : BOOLEAN, left : 0..Ttl]
             /\ allowed'[i].left > 0 => allowed'[i].left = allowed[i].left - 1 /\ allowed'[i].value = allowed[i].value /\ allowed[i].left > 0
  <2>1. allowed'[i] = [value |-> allowed[i].value /\ allowed[i].left > 1, left |-> Passes(allowed[i].left)]
    BY DEF ClockTicks
  <2>2. allowed[i].left \in Nat /\ allowed[i].left <= Ttl /\ allowed[i].value \in BOOLEAN
    BY GrantsTyped
  <2>3. Passes(allowed[i].left) \in 0..Ttl /\ (Passes(allowed[i].left) > 0 => allowed[i].left > 1 /\ Passes(allowed[i].left) = allowed[i].left - 1)
    BY <1>3, <2>2 DEF Passes
  <2>4. (allowed[i].value /\ allowed[i].left > 1) \in BOOLEAN
    BY <2>2
  <2> QED BY <2>1, <2>2, <2>3, <2>4
<1>5. ASSUME NEW i \in Server
      PROVE  /\ lookup'[i] \in LookupRec
             /\ lookup'[i].stage = lookup[i].stage /\ lookup'[i].value = lookup[i].value
             /\ lookup[i].stage = "read" => lookup'[i].took = lookup[i].took + 1 \/ lookup'[i].took = Ttl
  <2>1. lookup[i] \in LookupRec /\ lookup[i].took \in Nat /\ lookup[i].took <= Ttl
    BY GrantsTyped
  <2>2. CASE lookup[i].stage = "none" \/ lookup[i].took = Ttl
    <3>1. lookup'[i] = lookup[i]
      BY <2>2 DEF ClockTicks
    <3>2. lookup[i].stage = "read" => lookup[i].took = Ttl
      BY <2>2
    <3> QED BY <2>1, <3>1, <3>2
  <2>3. CASE ~(lookup[i].stage = "none" \/ lookup[i].took = Ttl)
    <3>1. lookup'[i] = [lookup[i] EXCEPT !.took = lookup[i].took + 1]
      BY <2>3 DEF ClockTicks
    <3>2. lookup[i].took + 1 \in 0..Ttl
      BY <1>3, <2>1, <2>3
    <3> QED BY <2>1, <3>1, <3>2 DEF LookupRec
  <2> QED BY <2>2, <2>3
<1>6. GrantsTypeOK'
  <2>1. allowed' = [i \in Server |-> allowed'[i]] /\ lookup' = [i \in Server |-> lookup'[i]]
    BY DEF ClockTicks
  <2> QED BY <1>1, <1>3, <1>4, <1>5, <2>1 DEF GrantsInv, GrantsTypeOK
<1>7. AskedInv'
  <2>1. ASSUME NEW i \in Server, allowed'[i].left > 0, allowed'[i].value # Granted' PROVE unchanged' <= Ttl - allowed'[i].left
    <3>1. /\ allowed'[i].left = allowed[i].left - 1 /\ allowed[i].left > 0 /\ allowed[i].value # Granted
      BY <1>1, <1>4, <2>1
    <3>2. unchanged <= Ttl - allowed[i].left
      BY <3>1 DEF GrantsInv, AskedInv
    <3>3. allowed[i].left \in Nat
      BY GrantsTyped
    <3> QED BY <1>3, <3>1, <3>2, <3>3
  <2>2. ASSUME NEW i \in Server, lookup'[i].stage = "read", lookup'[i].value # Granted' PROVE unchanged' <= lookup'[i].took
    <3>1. lookup[i].stage = "read" /\ lookup[i].value # Granted
      BY <1>1, <1>5, <2>2
    <3>2. unchanged <= lookup[i].took /\ lookup[i].took \in Nat
      BY <3>1, GrantsTyped DEF GrantsInv, AskedInv
    <3>3. lookup'[i].took = lookup[i].took + 1 \/ lookup'[i].took = Ttl
      BY <1>5, <3>1
    <3> QED BY <1>3, <3>2, <3>3
  <2> QED BY <2>1, <2>2 DEF AskedInv
<1> QED BY <1>2, <1>6, <1>7 DEF GrantsInv

\* Every step keeps the invariant.
LEMMA GrantsKept == GrantsInv /\ [GrantsNext]_grantVars => GrantsInv'
<1> SUFFICES ASSUME GrantsInv, [GrantsNext]_grantVars PROVE GrantsInv'
  OBVIOUS
<1>1. CASE UNCHANGED grantVars
  BY <1>1 DEF grantVars, GrantsInv, GrantsTypeOK, ReadInv, AskedInv, Granted
<1> QED BY <1>1, TxnReadsKeeps, TxnEndsKeeps, LookupKeeps, ClockKeeps DEF GrantsNext

\* Only the end of a transaction changes the group.
LEMMA StepsGrant == GrantsInv /\ [GrantsNext]_grantVars => GrantsStay
<1> SUFFICES ASSUME GrantsInv, [GrantsNext]_grantVars PROVE GrantsStay
  OBVIOUS
<1>1. CASE groupRoles' = groupRoles
  BY <1>1 DEF GrantsStay
<1>2. ASSUME NEW t \in Txn, TxnEnds(t) PROVE GrantsStay
  <2>1. CASE groupRoles' # groupRoles
    <3>1. ~Conflicts(t)
      BY <1>2, <2>1 DEF TxnEnds
    <3>2. Rewritten(t) # txn[t].seen /\ groupRoles' = Rewritten(t) /\ txn[t].stage = "read"
      BY <1>2, <2>1, <3>1 DEF TxnEnds
    <3>3. txn'[t].stage = "ended"
      BY <1>2, <3>1, TxnFacts DEF TxnEnds
    <3>4. ASSUME "mapped" \notin groupRoles, "mapped" \in groupRoles', ledger PROVE Commits(t, "assign", "mapped")
      BY <3>1, <3>2, <3>3, <3>4, WritesWhatItRead DEF Commits
    <3>5. ASSUME NEW r \in groupRoles \ groupRoles' PROVE Commits(t, "unassign", r)
      BY <3>1, <3>2, <3>3, WritesWhatItRead DEF Commits
    <3> QED BY <3>4, <3>5 DEF GrantsStay
  <2> QED BY <1>1, <2>1
<1>3. groupRoles' = groupRoles \/ \E t \in Txn : TxnEnds(t)
  BY DEF GrantsNext, grantVars, ClockTicks, TxnReads, LookupStarts, LookupReads, LookupStores
<1> QED BY <1>1, <1>2, <1>3

\* The roles of a group and what instances know of them keep their types.
THEOREM GrantsTypeCorrect == GrantsSpec => []GrantsTypeOK
<1>1. GrantsInv => GrantsTypeOK
  BY DEF GrantsInv
<1> QED BY <1>1, GrantsStart, GrantsKept, PTL DEF GrantsSpec

\* Roles stay given until somebody takes them, and taken until somebody gives
\* them, however many instances map and administrators write at a time; and no
\* instance goes by an answer older than Ttl.
THEOREM GrantsCorrect == GrantsSpec => GrantsHold
<1>1. GrantsInv => StaleForTtl
  <2> SUFFICES ASSUME GrantsInv, NEW i \in Server, allowed[i].left > 0, unchanged = Ttl PROVE allowed[i].value = Granted
    BY DEF StaleForTtl, Granted
  <2>1. allowed[i].left \in Nat /\ Ttl \in Nat
    BY GrantsTyped
  <2>2. ~(unchanged <= Ttl - allowed[i].left)
    BY <2>1
  <2> QED BY <2>2 DEF GrantsInv, AskedInv
<1> QED BY <1>1, GrantsStart, GrantsKept, StepsGrant, PTL DEF GrantsSpec, GrantsHold

-----------------------------------------------------------------------------
(* Accounts: what a login saw of the tables before it writes to them.      *)

Here(a) == a \in Account /\ account[a].name # <<>>

\* Ids are given out in their order, and once.
DealtInv ==
    /\ \A a \in Account : a > dealt => account[a] = NoAccount
    /\ \A x \in Subject : identity[x] <= dealt

\* What a transaction saw to be nobody's will never be anybody's, and the
\* account of a request is one it saw.
SeenInv ==
    \A t \in Login :
        /\ step[t].at # "read" => step[t].does = "none"
        /\ step[t].at = "read" /\ step[t].does # "login" => step[t].account[step[t].of].name # <<>>
        /\ step[t].at = "read" => \A a \in Account : step[t].account[a].name # <<>> => a <= dealt
        /\ step[t].at = "read" => \A x \in Subject :
            /\ step[t].identity[x] <= dealt
            /\ step[t].identity[x] \notin Present(step[t].account) => ~Here(step[t].identity[x])

AccountsInv == AccountsTypeOK /\ DealtInv /\ SeenInv /\ NoStrandedAccount

\* What the types say of one transaction.
LEMMA AccountsTyped ==
    ASSUME AccountsInv
    PROVE  /\ account \in [Account -> AccountRec] /\ \A a \in Account : account[a] \in AccountRec
           /\ identity \in [Subject -> Account \cup {0}] /\ \A x \in Subject : identity[x] \in Account \cup {0}
           /\ dealt \in Account /\ dealt \in Nat /\ dealt > 0 /\ 0 \notin Account /\ Account \subseteq Nat
           /\ step = [t \in Login |-> step[t]]
           /\ \A t \in Login : step[t].does \in Asks => step[t].at = "read"
           /\ \A t \in Login : step[t].at = "read" =>
                 /\ step[t].account \in [Account -> AccountRec] /\ step[t].identity \in [Subject -> Account \cup {0}]
                 /\ \A a \in Account : step[t].account[a] \in AccountRec
                 /\ step[t].does = "login" => step[t].of \in Subject
                 /\ step[t].does # "login" => step[t].of \in Account
  BY AccountAssumption DEF AccountsInv, AccountsTypeOK, SeenInv, Asks

\* The records of an account.
LEMMA AccountFacts ==
    /\ NoAccount \in AccountRec /\ NoAccount.name = <<>> /\ Administrator \in AccountRec
    /\ Administrator.name = <<"admin">> /\ Administrator.login = FALSE
    /\ NoStep.at = "none" /\ NoStep.does = "none" /\ EndedStep.at = "ended" /\ EndedStep.does = "none"
<1>1. NoAccount \in AccountRec /\ NoAccount.name = <<>>
  BY DEF NoAccount, AccountRec, UserMail
<1>2. "g" \in UserGroups /\ "m" \in UserMail /\ <<"admin">> \in UserName
  BY DEF UserGroups, Groups, UserMail, UserName
<1>3. Administrator \in AccountRec /\ Administrator.name = <<"admin">> /\ Administrator.login = FALSE
  BY <1>2 DEF Administrator, AccountRec
<1>4. NoStep.at = "none" /\ NoStep.does = "none" /\ EndedStep.at = "ended" /\ EndedStep.does = "none"
  BY DEF NoStep, EndedStep
<1> QED BY <1>1, <1>3, <1>4

\* At first there is the administrator.
LEMMA AccountsStart == AccountsInit => AccountsInv
<1> SUFFICES ASSUME AccountsInit PROVE AccountsInv
  OBVIOUS
<1>1. /\ \A a \in Account : account[a] = IF a = 1 THEN Administrator ELSE NoAccount
      /\ identity \in [Subject -> {0, 1}] /\ \A x \in Subject : identity[x] \in {0, 1}
      /\ \A t \in Login : step[t] = NoStep
      /\ dealt = 1
  BY DEF AccountsInit
<1>2. AccountsTypeOK
  BY <1>1, AccountFacts, AccountAssumption DEF AccountsInit, AccountsTypeOK
<1>3. DealtInv
  BY <1>1 DEF DealtInv
<1>4. SeenInv
  BY <1>1, AccountFacts DEF SeenInv
<1>5. NoStrandedAccount
  BY <1>1, AccountFacts DEF NoStrandedAccount, Present
<1> QED BY <1>2, <1>3, <1>4, <1>5 DEF AccountsInv

-----------------------------------------------------------------------------
\* What a step may do to an account or an identity for the invariant and the
\* property to hold.
Loses(a, g) ==
    \E t \in Login : /\ step[t].at = "read" /\ step'[t].at = "ended" /\ step[t].of = a
                     /\ \/ step[t].does = "leave" /\ g = "g"
                        \/ step[t].does = "patch" /\ g # "h"

Kept ==
    /\ \A x \in Subject : identity[x] \in Present(account') => identity'[x] = identity[x]
    /\ \A a \in Present(account') : account[a].name # <<>> => \A g \in account[a].groups \ account'[a].groups : Loses(a, g)

\* A transaction has ended, or one began.
StepsGo ==
    /\ step' = [t \in Login |-> step'[t]]
    /\ \A t \in Login : \/ step'[t] = step[t] \/ step'[t] = EndedStep
                        \/ /\ step'[t].at = "read" /\ step'[t].account = account /\ step'[t].identity = identity /\ step'[t].does \in Asks
                           /\ IF step'[t].does = "login" THEN step'[t].of \in Subject ELSE step'[t].of \in Present(account)

\* Nobody is anybody's account by a step but by the next id.
LEMMA StepsKeep ==
    ASSUME AccountsInv, StepsGo,
           account' \in [Account -> AccountRec], identity' \in [Subject -> Account \cup {0}], dealt' \in Account, dealt' >= dealt,
           \A a \in Account : account'[a].name # <<>> => account[a].name # <<>> \/ (a = dealt + 1 /\ dealt' = a),
           \A a \in Account : a > dealt' => account'[a] = NoAccount,
           \A x \in Subject : identity'[x] <= dealt',
           NoStrandedAccount'
    PROVE  AccountsInv'
<1>1. DealtInv'
  BY DEF DealtInv
<1>2. ASSUME NEW t \in Login
      PROVE  /\ step'[t].at # "read" => step'[t].does = "none"
             /\ step'[t].at = "read" =>
                  /\ step'[t].does # "login" => step'[t].account[step'[t].of].name # <<>>
                  /\ step'[t].does \in Asks
                  /\ IF step'[t].does = "login" THEN step'[t].of \in Subject ELSE step'[t].of \in Account
                  /\ step'[t].account \in [Account -> AccountRec] /\ step'[t].identity \in [Subject -> Account \cup {0}]
                  /\ \A a \in Account : step'[t].account[a].name # <<>> => a <= dealt
                  /\ \A x \in Subject : step'[t].identity[x] <= dealt
                                        /\ (step'[t].identity[x] \notin Present(step'[t].account) => ~Here(step'[t].identity[x]))
  <2>1. CASE step'[t] = step[t]
    BY <2>1 DEF AccountsInv, AccountsTypeOK, SeenInv
  <2>2. CASE step'[t] = EndedStep
    BY <2>2, AccountFacts
  <2>3. CASE /\ step'[t].at = "read" /\ step'[t].account = account /\ step'[t].identity = identity /\ step'[t].does \in Asks
             /\ IF step'[t].does = "login" THEN step'[t].of \in Subject ELSE step'[t].of \in Present(account)
    <3>1. \A x \in Subject : identity[x] <= dealt /\ (identity[x] \notin Present(account) => ~Here(identity[x]))
      BY DEF AccountsInv, DealtInv, Present, Here
    <3>2. ASSUME NEW a \in Account, account[a].name # <<>> PROVE a <= dealt
      <4>1. ~(a > dealt)
        BY <3>2, AccountFacts DEF AccountsInv, DealtInv
      <4> QED BY <4>1, AccountsTyped
    <3> QED BY <2>3, <3>1, <3>2, AccountsTyped DEF Present
  <2> QED BY <2>1, <2>2, <2>3 DEF StepsGo
<1>3. AccountsTypeOK'
  BY <1>2 DEF AccountsTypeOK, StepsGo
<1>4. SeenInv'
  <2>1. ASSUME NEW t \in Login, step'[t].at = "read", NEW x \in Subject
        PROVE  /\ step'[t].identity[x] <= dealt'
               /\ step'[t].identity[x] \notin Present(step'[t].account) =>
                      ~(step'[t].identity[x] \in Account /\ account'[step'[t].identity[x]].name # <<>>)
    <3> DEFINE b == step'[t].identity[x]
    <3>1. b \in Account \cup {0} /\ b <= dealt /\ (b \notin Present(step'[t].account) => ~Here(b))
      BY <1>2, <2>1
    <3>2. b \in Nat /\ dealt \in Nat /\ dealt' \in Nat
      BY <3>1, AccountsTyped
    <3> HIDE DEF b
    <3>3. b # dealt + 1 /\ b <= dealt'
      BY <3>1, <3>2
    <3>4. ASSUME b \notin Present(step'[t].account) PROVE ~(b \in Account /\ account'[b].name # <<>>)
      BY <3>1, <3>3, <3>4 DEF Here
    <3> QED BY <3>3, <3>4 DEF b
  <2>2. ASSUME NEW t \in Login, step'[t].at = "read", NEW a \in Account, step'[t].account[a].name # <<>> PROVE a <= dealt'
    <3>1. a <= dealt /\ a \in Nat /\ dealt \in Nat /\ dealt' \in Nat
      BY <1>2, <2>2, AccountsTyped
    <3> QED BY <3>1
  <2> QED BY <1>2, <2>1, <2>2 DEF SeenInv, Here
<1> QED BY <1>1, <1>3, <1>4 DEF AccountsInv

\* A transaction begins: the tables stay.
LEMMA ReadsKeeps ==
    ASSUME AccountsInv, NEW t \in Login, NEW does \in Asks, NEW of, Reads(t, does, of),
           IF does = "login" THEN of \in Subject ELSE of \in Present(account)
    PROVE  AccountsInv' /\ Kept
<1> DEFINE new == [does |-> does, of |-> of, at |-> "read", account |-> account, identity |-> identity]
<1>1. step' = [step EXCEPT ![t] = new] /\ UNCHANGED <<account, identity, dealt>>
  BY DEF Reads
<1>2. new.does = does /\ new.of = of /\ new.at = "read" /\ new.account = account /\ new.identity = identity
  OBVIOUS
<1> HIDE DEF new
<1>3. /\ step' = [u \in Login |-> step'[u]]
      /\ \A u \in Login : step'[u] = IF u = t THEN new ELSE step[u]
  BY <1>1, AccountsTyped
<1>4. StepsGo
  BY <1>2, <1>3 DEF StepsGo
<1>5. NoStrandedAccount'
  BY <1>1 DEF AccountsInv, NoStrandedAccount, Present
<1>6. Kept
  BY <1>1 DEF Kept
<1>7. /\ \A a \in Account : a > dealt' => account'[a] = NoAccount
      /\ \A x \in Subject : identity'[x] <= dealt'
  BY <1>1 DEF AccountsInv, DealtInv
<1> QED BY <1>1, <1>4, <1>5, <1>6, <1>7, StepsKeep, AccountsTyped

\* A transaction is over.
LEMMA Ended ==
    ASSUME AccountsInv, NEW t \in Login, step' = [step EXCEPT ![t] = EndedStep]
    PROVE  StepsGo /\ step'[t].at = "ended"
<1>1. step' = [u \in Login |-> step'[u]] /\ \A u \in Login : step'[u] = IF u = t THEN EndedStep ELSE step[u]
  BY AccountsTyped
<1> QED BY <1>1, AccountFacts DEF StepsGo

\* An account gets other groups or another mail, and is who a login is from now
\* on that was nobody.
LEMMA AccountsRewritten ==
    ASSUME AccountsInv, StepsGo, NEW a \in Account, NEW new \in AccountRec, dealt' = dealt, a <= dealt,
           \/ account' = account
           \/ /\ account[a].name # <<>> /\ new.name = account[a].name /\ new.login = account[a].login
              /\ account' = [account EXCEPT ![a] = new],
           account' # account => \A g \in account[a].groups \ new.groups : Loses(a, g),
           \/ identity' = identity
           \/ \E x \in Subject : identity' = [identity EXCEPT ![x] = a] /\ ~Here(identity[x])
    PROVE  AccountsInv' /\ Kept
<1>3. /\ account' \in [Account -> AccountRec]
      /\ \A b \in Account : \/ account'[b] = account[b]
                            \/ /\ b = a /\ account'[b] = new /\ account' # account /\ account[a].name # <<>>
                               /\ new.name = account[a].name /\ new.login = account[a].login
  <2>1. CASE account' = account
    BY <2>1, AccountsTyped
  <2>2. CASE account' # account
    BY <2>2, AccountsTyped
  <2> QED BY <2>1, <2>2
<1>4. \A b \in Account : account'[b].name = account[b].name /\ account'[b].login = account[b].login
  BY <1>3
<1>5. /\ identity' \in [Subject -> Account \cup {0}]
      /\ \A x \in Subject : identity'[x] = identity[x] \/ (~Here(identity[x]) /\ identity'[x] = a)
  <2>1. CASE identity' = identity
    BY <2>1, AccountsTyped
  <2>2. ASSUME NEW x \in Subject, identity' = [identity EXCEPT ![x] = a], ~Here(identity[x]) PROVE <1>5!:
    BY <2>2, AccountsTyped
  <2> QED BY <2>1, <2>2
<1>6. NoStrandedAccount'
  <2> SUFFICES ASSUME NEW b \in Account, account[b].name # <<>>, account[b].login PROVE \E x \in Subject : identity'[x] = b
    BY <1>4 DEF NoStrandedAccount, Present
  <2>1. PICK x \in Subject : identity[x] = b
    BY DEF AccountsInv, NoStrandedAccount, Present
  <2>2. Here(identity[x])
    BY <2>1 DEF Here
  <2> QED BY <1>5, <2>1, <2>2
<1>7. ASSUME NEW b \in Account, b > dealt' PROVE account'[b] = NoAccount
  <2>1. account[b] = NoAccount
    BY <1>7 DEF AccountsInv, DealtInv
  <2>2. NoAccount.name = <<>>
    BY AccountFacts
  <2> QED BY <1>3, <2>1, <2>2
<1>8. Kept
  <2>1. ASSUME NEW x \in Subject, identity[x] \in Present(account') PROVE identity'[x] = identity[x]
    <3>1. Here(identity[x])
      BY <1>4, <2>1 DEF Here, Present
    <3> QED BY <1>5, <3>1
  <2>2. ASSUME NEW b \in Account, NEW g \in account[b].groups \ account'[b].groups PROVE Loses(b, g)
    BY <1>3, <2>2
  <2> QED BY <2>1, <2>2 DEF Kept, Present
<1>9. \A x \in Subject : identity'[x] <= dealt'
  BY <1>5 DEF AccountsInv, DealtInv
<1> QED BY <1>3, <1>4, <1>5, <1>6, <1>7, <1>8, <1>9, StepsKeep, AccountsTyped

\* A request takes the memberships it names and no others.
LEMMA RequestsKeep ==
    ASSUME AccountsInv, NEW t \in Login, MemberJoins(t) \/ MemberLeaves(t) \/ GroupsPatched(t) \/ MailPatched(t)
    PROVE  AccountsInv' /\ Kept
<1>1. step[t].at = "read" /\ step[t].of \in Account /\ step[t].does \in {"join", "leave", "patch"}
  BY AccountsTyped DEF MemberJoins, MemberLeaves, GroupsPatched, MailPatched, Asks
<1> DEFINE a == step[t].of
<1>2. Had(t) \in AccountRec /\ Had(t).name # <<>> /\ a <= dealt
  BY <1>1, AccountsTyped DEF Had, AccountsInv, SeenInv
<1>3. PICK new \in AccountRec :
         /\ Writes(t, new) /\ new.name = Had(t).name /\ new.login = Had(t).login
         /\ \/ step[t].does = "leave" /\ new.groups = Had(t).groups \ {"g"}
            \/ step[t].does = "patch" /\ new.groups = {"h"}
            \/ Had(t).groups \subseteq new.groups
  <2>1. Had(t).groups \subseteq UserGroups /\ {"g", "h"} \subseteq UserGroups /\ "" \in UserMail
    BY <1>2 DEF AccountRec, UserGroups, Groups, UserMail
  <2>2. CASE MemberJoins(t)
    <3>1. [Had(t) EXCEPT !.groups = @ \cup {"g"}] \in AccountRec
      BY <1>2, <2>1 DEF AccountRec
    <3> QED BY <1>2, <2>2, <3>1 DEF MemberJoins, AccountRec
  <2>3. CASE MemberLeaves(t)
    <3>1. [Had(t) EXCEPT !.groups = @ \ {"g"}] \in AccountRec
      BY <1>2, <2>1 DEF AccountRec
    <3> QED BY <1>2, <2>3, <3>1 DEF MemberLeaves, AccountRec
  <2>4. CASE GroupsPatched(t)
    <3>1. [Had(t) EXCEPT !.groups = {"h"}] \in AccountRec
      BY <1>2, <2>1 DEF AccountRec
    <3> QED BY <1>2, <2>4, <3>1 DEF GroupsPatched, AccountRec
  <2>5. CASE MailPatched(t)
    <3>1. [Had(t) EXCEPT !.mail = ""] \in AccountRec
      BY <1>2, <2>1 DEF AccountRec
    <3> QED BY <1>2, <2>5, <3>1 DEF MailPatched, AccountRec
  <2> QED BY <2>2, <2>3, <2>4, <2>5
<1>4. step' = [step EXCEPT ![t] = EndedStep] /\ UNCHANGED <<identity, dealt>>
  BY <1>3 DEF Writes
<1>5. StepsGo /\ step'[t].at = "ended"
  BY <1>4, Ended
<1>6. account' = account \/ (account[a] = Had(t) /\ account' = [account EXCEPT ![a] = new])
  BY <1>3 DEF Writes
<1>7. ASSUME account[a] = Had(t), NEW g \in account[a].groups \ new.groups PROVE Loses(a, g)
  BY <1>1, <1>3, <1>5, <1>7 DEF Loses
<1> HIDE DEF a
<1>8. a \in Account
  BY <1>1 DEF a
<1> QED BY <1>2, <1>3, <1>4, <1>5, <1>6, <1>7, <1>8, AccountsRewritten

\* A login links its subject to an account that is there, or was.
LEMMA LinksKeep ==
    ASSUME AccountsInv, NEW t \in Login, step[t].does = "login", NEW a \in Matched(step[t], step[t].of), ResolvesTo(t, a),
           step' = [step EXCEPT ![t] = EndedStep]
    PROVE  AccountsInv' /\ Kept
<1> DEFINE x == step[t].of
<1>1. step[t].at = "read" /\ x \in Subject
  BY AccountsTyped DEF Asks
<1>2. a \in Account /\ a \in Present(step[t].account)
  BY DEF Matched, Linked, FreeByMail, ByMail, ByName, Present
<1>3. StepsGo
  BY Ended
<1> DEFINE saw    == step[t].account[a]
           groups == saw.groups \cup x.groups
           mail   == IF saw.mail = "" THEN x.mail ELSE saw.mail
           new    == [saw EXCEPT !.groups = groups, !.mail = mail]
<1>4. saw \in AccountRec /\ groups \in SUBSET UserGroups /\ mail \in UserMail /\ saw.name # <<>>
  <2>1. saw \in AccountRec
    BY <1>1, <1>2, AccountsTyped
  <2>2. x.groups \subseteq UserGroups
    BY <1>1 DEF UserGroups
  <2>3. saw.groups \subseteq UserGroups /\ saw.mail \in UserMail
    BY <2>1 DEF AccountRec
  <2>4. x.mail \in UserMail
    BY <1>1 DEF UserMail
  <2> QED BY <1>2, <2>1, <2>2, <2>3, <2>4 DEF Present
<1>5. Joined(t, a) = new /\ new \in AccountRec /\ new.name = saw.name /\ new.login = saw.login /\ saw.groups \subseteq new.groups
  BY <1>4 DEF Joined, AccountRec
<1>6. a <= dealt
  BY <1>1, <1>2, <1>4 DEF AccountsInv, SeenInv
<1>7. CASE UNCHANGED <<account, identity, dealt>>
  BY <1>2, <1>3, <1>5, <1>6, <1>7, AccountsRewritten
<1>8. CASE ~UNCHANGED <<account, identity, dealt>>
  <2> DEFINE links == Linked(step[t], x) = {}
  <2>1. /\ account' = account \/ (account[a] = saw /\ account' = [account EXCEPT ![a] = new])
        /\ identity' = IF links THEN [identity EXCEPT ![x] = a] ELSE identity
        /\ links => identity[x] = step[t].identity[x]
        /\ dealt' = dealt
    BY <1>5, <1>8 DEF ResolvesTo
  <2>2. links => ~Here(identity[x])
    <3>1. links => step[t].identity[x] \notin Present(step[t].account)
      BY DEF Linked
    <3> QED BY <1>1, <2>1, <3>1 DEF AccountsInv, SeenInv
  <2>3. account[a] = saw => account[a].groups \ new.groups = {} /\ account[a].name # <<>>
    BY <1>4, <1>5
  <2> HIDE DEF links, new, saw
  <2> QED BY <1>1, <1>2, <1>3, <1>5, <1>6, <2>1, <2>2, <2>3, AccountsRewritten
<1> QED BY <1>7, <1>8

\* The next id is given out, perhaps to nobody: the account is new, and so is
\* what leads there.
LEMMA NewKeeps ==
    ASSUME AccountsInv, StepsGo, dealt + 1 \in Account, dealt' = dealt + 1, NEW new \in AccountRec,
           \/ UNCHANGED <<account, identity>>
           \/ account' = [account EXCEPT ![dealt + 1] = new] /\ identity' = identity /\ ~new.login
           \/ /\ account' = [account EXCEPT ![dealt + 1] = new]
              /\ \E x \in Subject : identity' = [identity EXCEPT ![x] = dealt + 1] /\ ~Here(identity[x])
    PROVE  AccountsInv' /\ Kept
<1> DEFINE a == dealt + 1
<1>1. a \in Account /\ a \in Nat /\ a > dealt /\ dealt \in Nat /\ dealt' = a /\ 0 \notin Account
  BY AccountsTyped
<1> HIDE DEF a
<1>2. account[a] = NoAccount /\ account[a].name = <<>>
  BY <1>1, AccountFacts DEF AccountsInv, DealtInv
<1>3. /\ account' \in [Account -> AccountRec]
      /\ \A b \in Account : b # a => account'[b] = account[b]
  BY <1>1, AccountsTyped DEF a
<1>4. /\ identity' \in [Subject -> Account \cup {0}]
      /\ \A x \in Subject : identity'[x] = identity[x] \/ (~Here(identity[x]) /\ identity'[x] = a)
  <2>1. CASE identity' = identity
    BY <2>1, AccountsTyped
  <2>2. ASSUME NEW x \in Subject, identity' = [identity EXCEPT ![x] = a], ~Here(identity[x]) PROVE <1>4!:
    BY <1>1, <2>2, AccountsTyped
  <2> QED BY <2>1, <2>2 DEF a
<1>5. account'[a].name # <<>> /\ account'[a].login => \E x \in Subject : identity'[x] = a
  <2>1. CASE UNCHANGED <<account, identity>>
    BY <1>2, <2>1
  <2>2. CASE account' = [account EXCEPT ![a] = new] /\ ~new.login
    BY <1>1, <2>2, AccountsTyped
  <2>3. CASE \E x \in Subject : identity' = [identity EXCEPT ![x] = a]
    BY <2>3, AccountsTyped
  <2> QED BY <2>1, <2>2, <2>3 DEF a
<1>6. NoStrandedAccount'
  <2> SUFFICES ASSUME NEW b \in Account, account'[b].name # <<>>, account'[b].login PROVE \E x \in Subject : identity'[x] = b
    BY DEF NoStrandedAccount, Present
  <2>1. CASE b = a
    BY <1>5, <2>1
  <2>2. CASE b # a
    <3>1. account[b].name # <<>> /\ account[b].login
      BY <1>3, <2>2
    <3>2. PICK x \in Subject : identity[x] = b
      BY <3>1 DEF AccountsInv, NoStrandedAccount, Present
    <3>3. Here(identity[x])
      BY <3>1, <3>2 DEF Here
    <3> QED BY <1>4, <3>2, <3>3
  <2> QED BY <2>1, <2>2
<1>7. ASSUME NEW b \in Account, b > dealt' PROVE account'[b] = NoAccount
  <2>1. b \in Nat
    BY AccountsTyped
  <2>2. b # a /\ b > dealt
    BY <1>1, <1>7, <2>1
  <2> QED BY <1>3, <2>2 DEF AccountsInv, DealtInv
<1>8. ASSUME NEW x \in Subject PROVE identity'[x] <= dealt'
  <2>1. identity[x] <= dealt /\ identity[x] \in Nat
    BY AccountsTyped DEF AccountsInv, DealtInv
  <2> QED BY <1>1, <1>4, <2>1
<1>9. Kept
  <2>1. ASSUME NEW x \in Subject, identity[x] \in Present(account') PROVE identity'[x] = identity[x]
    <3>1. identity[x] <= dealt /\ identity[x] \in Nat
      BY AccountsTyped DEF AccountsInv, DealtInv
    <3>2. identity[x] # a
      BY <1>1, <3>1
    <3>3. Here(identity[x])
      BY <1>3, <2>1, <3>2 DEF Here, Present
    <3> QED BY <1>4, <3>3
  <2>2. ASSUME NEW b \in Account, account[b].name # <<>> PROVE account'[b].groups = account[b].groups
    BY <1>2, <1>3, <2>2
  <2> QED BY <2>1, <2>2 DEF Kept, Present
<1>10. ASSUME NEW b \in Account, account'[b].name # <<>> PROVE account[b].name # <<>> \/ (b = a /\ dealt' = b)
  BY <1>1, <1>3, <1>10
<1> QED BY <1>1, <1>3, <1>4, <1>6, <1>7, <1>8, <1>9, <1>10, StepsKeep DEF a

\* A login commits what it saw and added.
LEMMA LoginKeeps == ASSUME AccountsInv, NEW t \in Login, LoginEnds(t) PROVE AccountsInv' /\ Kept
<1> DEFINE x == step[t].of
<1>1. step[t].does = "login" /\ step' = [step EXCEPT ![t] = EndedStep] /\ StepsGo /\ step[t].at = "read" /\ x \in Subject
  BY Ended, AccountsTyped DEF LoginEnds, Asks
<1>2. CASE \E a \in Matched(step[t], step[t].of) : ResolvesTo(t, a)
  BY <1>1, <1>2, LinksKeep
<1>3. ASSUME Matched(step[t], step[t].of) = {}, NEW name \in UniqueName(step[t], x), ResolvesToNew(t, name) PROVE AccountsInv' /\ Kept
  <2> DEFINE new == [name |-> name, mail |-> x.mail, groups |-> {"h"} \cup x.groups, login |-> TRUE]
  <2>1. new \in AccountRec
    <3>1. name \in UserName
      BY <1>1 DEF UniqueName, UserName
    <3>2. x.mail \in UserMail /\ {"h"} \cup x.groups \subseteq UserGroups
      BY <1>1 DEF UserMail, UserGroups, Groups
    <3> QED BY <3>1, <3>2 DEF AccountRec
  <2>2. /\ dealt + 1 \in Account /\ dealt' = dealt + 1
        /\ \/ UNCHANGED <<account, identity>>
           \/ /\ identity[x] = step[t].identity[x]
              /\ account' = [account EXCEPT ![dealt + 1] = new] /\ identity' = [identity EXCEPT ![x] = dealt + 1]
    BY <1>3 DEF ResolvesToNew, Neither
  <2>3. step[t].identity[x] \notin Present(step[t].account)
    <3>1. Linked(step[t], x) = {}
      BY <1>3 DEF Matched
    <3> QED BY <3>1 DEF Linked
  <2>4. identity[x] = step[t].identity[x] => ~Here(identity[x])
    BY <1>1, <2>3 DEF AccountsInv, SeenInv
  <2> HIDE DEF new
  <2> QED BY <1>1, <2>1, <2>2, <2>4, NewKeeps
<1> QED BY <1>1, <1>2, <1>3 DEF LoginEnds

\* A login that is rolled back leaves nothing.
LEMMA RollsBackKeeps == ASSUME AccountsInv, NEW t \in Login, LoginRollsBack(t) PROVE AccountsInv' /\ Kept
<1>1. StepsGo /\ UNCHANGED <<account, identity, dealt>>
  BY Ended DEF LoginRollsBack
<1>2. 1 \in Account /\ 1 <= dealt
  BY AccountsTyped, AccountAssumption
<1> QED BY <1>1, <1>2, AccountFacts, AccountsRewritten

\* The boot and the administrators.
LEMMA BootKeeps == ASSUME AccountsInv, NEW t \in Login, BootReads(t) PROVE AccountsInv' /\ Kept
<1>1. CASE \E a \in Account : account[a].name = <<"admin">>
  <2>1. PICK a \in Account : account[a].name = <<"admin">> /\ Reads(t, "join", a)
    BY <1>1 DEF BootReads
  <2>2. a \in Present(account)
    BY <2>1 DEF Present
  <2> QED BY <2>1, <2>2, ReadsKeeps DEF Asks
<1>2. CASE ~\E a \in Account : account[a].name = <<"admin">>
  <2>1. /\ dealt + 1 \in Account /\ dealt' = dealt + 1 /\ account' = [account EXCEPT ![dealt + 1] = Administrator]
        /\ UNCHANGED <<identity, step>>
    BY <1>2 DEF BootReads
  <2>2. StepsGo
    BY <2>1, AccountsTyped DEF StepsGo
  <2> QED BY <2>1, <2>2, AccountFacts, NewKeeps
<1> QED BY <1>1, <1>2

\* An account gets an id that nobody had.
LEMMA CreateUserKeeps ==
    ASSUME AccountsInv, NEW name \in UserName, NEW mail \in {"", "m"}, CreateUser(name, mail)
    PROVE  AccountsInv' /\ Kept
<1> DEFINE new == [name |-> name, mail |-> mail, groups |-> {}, login |-> FALSE]
<1>1. new \in AccountRec /\ new.login = FALSE
  BY DEF AccountRec, UserMail
<1>2. /\ dealt + 1 \in Account /\ dealt' = dealt + 1 /\ UNCHANGED <<identity, step>>
      /\ account' = account \/ account' = [account EXCEPT ![dealt + 1] = new]
  BY DEF CreateUser
<1> HIDE DEF new
<1>3. StepsGo
  BY <1>2, AccountsTyped DEF StepsGo
<1> QED BY <1>1, <1>2, <1>3, NewKeeps

\* The identities of an account that is deleted stay with its id, which nobody gets again.
LEMMA DeleteUserKeeps == ASSUME AccountsInv, NEW a \in Account, DeleteUser(a) PROVE AccountsInv' /\ Kept
<1>1. account' = [account EXCEPT ![a] = NoAccount] /\ UNCHANGED <<identity, dealt, step>>
  BY DEF DeleteUser
<1>2. account' \in [Account -> AccountRec] /\ \A b \in Account : account'[b] = IF b = a THEN NoAccount ELSE account[b]
  BY <1>1, AccountsTyped, AccountFacts
<1>3. StepsGo
  BY <1>1, AccountsTyped DEF StepsGo
<1>4. \A b \in Account : account'[b].name # <<>> => account'[b] = account[b]
  BY <1>2, AccountFacts
<1>5. NoStrandedAccount'
  BY <1>1, <1>4 DEF AccountsInv, NoStrandedAccount, Present
<1>6. \A b \in Account : b > dealt' => account'[b] = NoAccount
  BY <1>1, <1>2 DEF AccountsInv, DealtInv
<1>7. \A x \in Subject : identity'[x] <= dealt'
  BY <1>1 DEF AccountsInv, DealtInv
<1>8. Kept
  BY <1>1, <1>4 DEF Kept, Present
<1> QED BY <1>1, <1>2, <1>3, <1>4, <1>5, <1>6, <1>7, <1>8, StepsKeep, AccountsTyped

\* Every step keeps the invariant, and takes from nobody but by a step that means to.
LEMMA AccountsStep == AccountsInv /\ [AccountsNext]_accountVars => AccountsInv' /\ Kept
<1> SUFFICES ASSUME AccountsInv, [AccountsNext]_accountVars PROVE AccountsInv' /\ Kept
  OBVIOUS
<1>1. CASE UNCHANGED accountVars
  BY <1>1 DEF accountVars, AccountsInv, AccountsTypeOK, DealtInv, SeenInv, NoStrandedAccount, Present, Here, Kept
<1>2. ASSUME NEW t \in Login, NEW x \in Subject, LoginReads(t, x) PROVE AccountsInv' /\ Kept
  BY <1>2, ReadsKeeps DEF LoginReads, Asks
<1>3. ASSUME NEW t \in Login, NEW a \in Account, AsksToJoin(t, a) \/ AsksToLeave(t, a) \/ AsksToPatch(t, a)
      PROVE  AccountsInv' /\ Kept
  BY <1>3, ReadsKeeps DEF AsksToJoin, AsksToLeave, AsksToPatch, Asks
<1>4. CASE CreateUser(<<"ann">>, "m") \/ CreateUser(<<"ann", "ldap">>, "")
  <2>1. <<"ann">> \in UserName /\ <<"ann", "ldap">> \in UserName
    BY DEF UserName
  <2>2. CASE CreateUser(<<"ann">>, "m")
    BY <2>1, <2>2, CreateUserKeeps
  <2>3. CASE CreateUser(<<"ann", "ldap">>, "")
    BY <2>1, <2>3, CreateUserKeeps
  <2> QED BY <1>4, <2>2, <2>3
<1> QED BY <1>1, <1>2, <1>3, <1>4, LoginKeeps, RollsBackKeeps, RequestsKeep, BootKeeps, DeleteUserKeeps DEF AccountsNext

\* The tables of the accounts and what transactions saw of them keep their types.
THEOREM AccountsTypeCorrect == AccountsSpec => []AccountsTypeOK
<1>1. AccountsInv => AccountsTypeOK
  BY DEF AccountsInv
<1> QED BY <1>1, AccountsStart, AccountsStep, PTL DEF AccountsSpec

\* However many logins, requests and boots overlap: nobody is led elsewhere as
\* long as his account exists, no account of a login is left without one, and a
\* membership goes only with the transaction that takes it.
THEOREM AccountsCorrect == AccountsSpec => AccountsStand
<1>1. AccountsInv => NoStrandedAccount
  BY DEF AccountsInv
<1> QED BY <1>1, AccountsStart, AccountsStep, PTL DEF AccountsSpec, AccountsStand, Kept, Loses

-----------------------------------------------------------------------------
(* VaultDocument: whoever is about to set a field in the memory of an      *)
(* instance sets what is in the secret, was outrun, or is followed by      *)
(* somebody who does.                                                      *)

-----------------------------------------------------------------------------
\* What makes an instance read the secret: a save it is told of, or its Vault
\* that was opened.
Cause == Writer \cup {Opened}

\* Somebody saves one after the other on an instance, and whoever read the
\* secret and was not outrun knows what is in it.
SavesInv ==
    /\ \A v, w \in Writer : HomeOf[v] = HomeOf[w] /\ save[v].stage \in {"read", "wrote"}
           /\ save[w].stage \in {"read", "wrote"} => v = w
    /\ \A w \in Writer : save[w].stage = "read" /\ ~save[w].blind /\ ~save[w].late => save[w].saw = doc
    /\ \A f \in DocField \ blurred : doc[f] = given[f]

\* What will set a field in the memory of an instance: a hydration that is to
\* read the secret, or has read what is in it now, or a save it will be told of...
Elsewhere(i, f) ==
    \/ \E c \in Cause : hydrate[i][c].stage = "told"
    \/ \E c \in Cause : hydrate[i][c].stage = "read" /\ hydrate[i][c].saw[f] = doc[f]
    \/ docKind = "plugin" /\ \E c \in Cause : hydrate[i][c].stage = "read" /\ hydrate[i][c].late
    \/ \E w \in Writer : save[w].stage = "wrote" /\ i \in Told(w)

\* ... or a save of its own.
Coming(i, f) ==
    \/ Elsewhere(i, f)
    \/ \E w \in Writer : docKind = "settings" /\ save[w].stage = "wrote" /\ HomeOf[w] = i /\ f \in save[w].gives

Right(i, f) ==
    \/ inMemory[i][f] = doc[f]
    \/ <<i, f>> \in excused
    \/ docKind = "settings" /\ Skips(i, f, doc[f])

\* Whatever is about to set the field and was not outrun sets what is in the
\* secret, or is followed by another that does.
ReadWell(i, f) ==
    \A c \in Cause : hydrate[i][c].stage = "read" /\ ~hydrate[i][c].late =>
        hydrate[i][c].saw[f] = doc[f] \/ (docKind = "settings" /\ Skips(i, f, doc[f])) \/ Coming(i, f)

SavedWell(i, f) ==
    \A w \in Writer : save[w].stage = "wrote" /\ HomeOf[w] = i /\ ~save[w].late /\ f \in save[w].gives =>
        doc[f] = w \/ Elsewhere(i, f)

Settling(i, f) == (Right(i, f) \/ Coming(i, f)) /\ ReadWell(i, f) /\ SavedWell(i, f)

MemoryInv == docKind \in {"settings", "plugin"} => \A i \in Nodes, f \in DocField : Settling(i, f)

\* Nobody is about to save a setting of its environment that it may not.
EnvironmentInv ==
    /\ docKind = "settings" => \A w \in Writer :
           save[w].stage \in {"read", "wrote"} => Unlocked(HomeOf[w], save[w].gives)
    /\ EnvironmentWins

VaultInv == SavesInv /\ EnvironmentInv /\ MemoryInv

\* A hydration that is to come, is outrun or has read is one.
LEMMA HydrationMade ==
    ASSUME NEW h \in Hydration, NEW doc0 \in Contents, NEW b \in BOOLEAN
    PROVE  /\ [h EXCEPT !.stage = "told"] \in Hydration
           /\ [h EXCEPT !.late = TRUE] \in Hydration
           /\ [stage |-> "read", saw |-> doc0, late |-> b] \in Hydration
           /\ Hydrated \in Hydration /\ NoHydration \in Hydration /\ Nothing \in Contents
  BY DEF Hydration, Hydrated, NoHydration, Nothing, Contents

\* An empty secret and the end of a hydration.
LEMMA NothingMade == Nothing \in Contents /\ Hydrated \in Hydration /\ Hydrated.stage = "done"
  BY DEF Hydration, Hydrated, NoHydration, Nothing, Contents

\* What it means that instance i was outrun, hydration by hydration.
LEMMA OutrunByIs ==
    ASSUME NEW i \in Nodes, NEW told \in [Nodes -> [Writer \cup {Opened} -> Hydration]]
    PROVE  /\ OutrunBy(i, told) \in [Nodes -> [Writer \cup {Opened} -> Hydration]]
           /\ \A j \in Nodes : j # i => OutrunBy(i, told)[j] = told[j]
           /\ \A j \in Nodes, c \in Cause :
                 /\ OutrunBy(i, told)[j][c].stage = told[j][c].stage
                 /\ OutrunBy(i, told)[j][c].saw = told[j][c].saw
                 /\ told[j][c].late => OutrunBy(i, told)[j][c].late
           /\ \A c \in Cause : told[i][c].stage = "read" => OutrunBy(i, told)[i][c].late
  <1> DEFINE row == [c \in DOMAIN told[i] |->
                 IF told[i][c].stage = "read" THEN [told[i][c] EXCEPT !.late = TRUE] ELSE told[i][c]]
  <1>1. DOMAIN told[i] = Cause /\ told[i] \in [Cause -> Hydration]
    BY DEF Cause
  <1>2. ASSUME NEW c \in Cause
        PROVE  /\ row[c] \in Hydration /\ row[c].stage = told[i][c].stage /\ row[c].saw = told[i][c].saw
               /\ told[i][c].late => row[c].late
               /\ told[i][c].stage = "read" => row[c].late
    <2>1. told[i][c] \in Hydration
      BY <1>1
    <2>2. row[c] = IF told[i][c].stage = "read" THEN [told[i][c] EXCEPT !.late = TRUE] ELSE told[i][c]
      BY <1>1
    <2> HIDE DEF row
    <2>3. [told[i][c] EXCEPT !.late = TRUE] \in Hydration
          /\ [told[i][c] EXCEPT !.late = TRUE].stage = told[i][c].stage
          /\ [told[i][c] EXCEPT !.late = TRUE].saw = told[i][c].saw
          /\ [told[i][c] EXCEPT !.late = TRUE].late = TRUE
      BY <2>1 DEF Hydration
    <2>4. QED
      BY <2>1, <2>2, <2>3
  <1>3. row \in [Cause -> Hydration]
    BY <1>1, <1>2
  <1>4. OutrunBy(i, told) = [told EXCEPT ![i] = row]
    BY DEF OutrunBy
  <1> HIDE DEF row
  <1>5. OutrunBy(i, told)[i] = row /\ \A j \in Nodes : j # i => OutrunBy(i, told)[j] = told[j]
    BY <1>4
  <1>6. OutrunBy(i, told) \in [Nodes -> [Cause -> Hydration]]
    BY <1>3, <1>4 DEF Cause
  <1>7. QED
    BY <1>2, <1>5, <1>6 DEF Cause

\* The same for one hydration.
LEMMA OutrunByAt ==
    ASSUME NEW i \in Nodes, NEW told \in [Nodes -> [Writer \cup {Opened} -> Hydration]], NEW c \in Cause
    PROVE  /\ OutrunBy(i, told)[i][c].stage = told[i][c].stage
           /\ OutrunBy(i, told)[i][c].saw = told[i][c].saw
           /\ told[i][c].stage = "read" => OutrunBy(i, told)[i][c].late
  BY OutrunByIs

\* The saves of an instance that is outrun are late, and else as they were.
LEMMA OutrunIs ==
    ASSUME VaultTypeOK, NEW i \in Nodes
    PROVE  /\ Outrun(i) \in [Writer -> Save]
           /\ \A w \in Writer :
                 /\ Outrun(i)[w].stage = save[w].stage /\ Outrun(i)[w].gives = save[w].gives
                 /\ Outrun(i)[w].saw = save[w].saw /\ Outrun(i)[w].blind = save[w].blind
                 /\ save[w].stage = "read" => Outrun(i)[w].late = save[w].late
                 /\ save[w].late => Outrun(i)[w].late
                 /\ HomeOf[w] # i => Outrun(i)[w] = save[w]
                 /\ save[w].stage = "wrote" /\ HomeOf[w] = i => Outrun(i)[w].late
  <1>1. ASSUME NEW w \in Writer
        PROVE  /\ Outrun(i)[w] \in Save
               /\ Outrun(i)[w].stage = save[w].stage /\ Outrun(i)[w].gives = save[w].gives
               /\ Outrun(i)[w].saw = save[w].saw /\ Outrun(i)[w].blind = save[w].blind
               /\ save[w].stage = "read" => Outrun(i)[w].late = save[w].late
               /\ save[w].late => Outrun(i)[w].late
               /\ HomeOf[w] # i => Outrun(i)[w] = save[w]
               /\ save[w].stage = "wrote" /\ HomeOf[w] = i => Outrun(i)[w].late
    <2>1. save[w] \in Save
      BY DEF VaultTypeOK
    <2>2. Outrun(i)[w] = IF HomeOf[w] = i /\ save[w].stage = "wrote" THEN [save[w] EXCEPT !.late = TRUE] ELSE save[w]
      BY DEF Outrun
    <2>3. QED
      BY <2>1, <2>2 DEF Save
  <1>2. QED
    BY <1>1 DEF Outrun

\* Who is told of a save has a hydration to come; the others keep theirs.
LEMMA TellsIs ==
    ASSUME VaultTypeOK, NEW w \in Writer
    PROVE  /\ Tells(w) \in [Nodes -> [Writer \cup {Opened} -> Hydration]]
           /\ \A j \in Nodes : j \in Told(w) => Tells(w)[j][w].stage = "told"
           /\ \A j \in Nodes : j \notin Told(w) => Tells(w)[j] = hydrate[j]
  <1>1. ASSUME NEW j \in Nodes
        PROVE  /\ Tells(w)[j] \in [Cause -> Hydration]
               /\ j \in Told(w) => Tells(w)[j][w].stage = "told"
               /\ j \notin Told(w) => Tells(w)[j] = hydrate[j]
    <2>1. hydrate[j] \in [Cause -> Hydration] /\ w \in Cause
      BY DEF VaultTypeOK, Cause
    <2>2. hydrate[j][w] \in Hydration
      BY <2>1
    <2>3. [hydrate[j][w] EXCEPT !.stage = "told"] \in Hydration /\ [hydrate[j][w] EXCEPT !.stage = "told"].stage = "told"
      BY <2>2 DEF Hydration
    <2>4. Tells(w)[j] = IF j \in Told(w) THEN [hydrate[j] EXCEPT ![w].stage = "told"] ELSE hydrate[j]
      BY DEF Tells
    <2>5. [hydrate[j] EXCEPT ![w].stage = "told"] = [hydrate[j] EXCEPT ![w] = [hydrate[j][w] EXCEPT !.stage = "told"]]
      BY <2>1
    <2>6. QED
      BY <2>1, <2>3, <2>4, <2>5
  <1>2. QED
    BY <1>1 DEF Tells, Cause

-----------------------------------------------------------------------------
(* Types.                                                                  *)

\* A save that begins read what is in the secret, or nothing.
LEMMA SaveReadsIs ==
    ASSUME VaultTypeOK, NEW w \in Writer, NEW update \in Updates, NEW blind \in BOOLEAN,
           SaveReads(w, update, blind)
    PROVE  /\ save' \in [Writer -> Save] /\ faults' \in 0..Faults
           /\ \A v \in Writer : v # w => save'[v] = save[v]
           /\ save[w].stage = "none" /\ save'[w].stage = "read" /\ save'[w].blind = blind
           /\ blind \/ save'[w].saw = doc
           /\ UNCHANGED <<docKind, doc, inMemory, hydrate, given, blurred, excused>>
  <1>1. update.gives \in SUBSET DocField /\ update.drops \in SUBSET DocField
    BY UpdatesAssumption
  <1> DEFINE new == [stage |-> "read", saw |-> IF blind THEN Nothing ELSE doc,
           gives |-> update.gives, drops |-> update.drops, blind |-> blind, late |-> FALSE]
  <1>2. (IF blind THEN Nothing ELSE doc) \in Contents
    BY DEF VaultTypeOK, Nothing, Contents
  <1>3. new \in Save /\ new.stage = "read" /\ new.blind = blind /\ (blind \/ new.saw = doc)
    BY <1>1, <1>2 DEF Save
  <1>4. save' = [save EXCEPT ![w] = new]
    BY DEF SaveReads
  <1> HIDE DEF new
  <1>5. save' \in [Writer -> Save] /\ save'[w] = new /\ \A v \in Writer : v # w => save'[v] = save[v]
    BY <1>3, <1>4 DEF VaultTypeOK
  <1>6. faults' \in 0..Faults
    BY UpdatesAssumption DEF SaveReads, VaultTypeOK
  <1>7. QED
    BY <1>3, <1>5, <1>6 DEF SaveReads

\* What a write of the secret does to it and to what is known of it, field by field.
LEMMA SaveWritesIs ==
    ASSUME VaultTypeOK, NEW w \in Writer, SaveWrites(w)
    PROVE  /\ save[w].stage = "read"
           /\ doc' \in Contents /\ given' \in Contents
           /\ \A f \in DocField :
                 /\ f \in save[w].gives => doc'[f] = w /\ given'[f] = w
                 /\ f \notin save[w].gives /\ f \in save[w].drops => doc'[f] = 0 /\ given'[f] = 0
                 /\ f \notin save[w].gives /\ f \notin save[w].drops =>
                       doc'[f] = save[w].saw[f] /\ given'[f] = given[f]
           /\ save[w].blind \/ save[w].late =>
                 /\ blurred' = DocField \ (save[w].gives \cup save[w].drops)
                 /\ docKind = "settings" =>
                       /\ excused' = excused \cup ({HomeOf[w]} \X blurred')
                       /\ hydrate' = OutrunBy(HomeOf[w], hydrate)
                 /\ docKind # "settings" => excused' = excused /\ hydrate' = hydrate
           /\ ~(save[w].blind \/ save[w].late) =>
                 /\ blurred' = blurred \ (save[w].gives \cup save[w].drops)
                 /\ excused' = excused /\ hydrate' = hydrate
           /\ UNCHANGED <<docKind, faults, inMemory>>
  <1>1. save[w].gives \in SUBSET DocField /\ save[w].drops \in SUBSET DocField /\ save[w].saw \in Contents
    BY DEF VaultTypeOK, Save
  <1>2. \A f \in DocField :
            /\ f \in save[w].gives => doc'[f] = w /\ given'[f] = w
            /\ f \notin save[w].gives /\ f \in save[w].drops => doc'[f] = 0 /\ given'[f] = 0
            /\ f \notin save[w].gives /\ f \notin save[w].drops =>
                  doc'[f] = save[w].saw[f] /\ given'[f] = given[f]
    BY DEF SaveWrites
  <1>3. doc' \in Contents /\ given' \in Contents
    BY <1>1 DEF SaveWrites, VaultTypeOK, Contents
  <1>4. QED
    BY <1>2, <1>3 DEF SaveWrites

\* ... and to the saves.
LEMMA SaveWritesSaves ==
    ASSUME VaultTypeOK, NEW w \in Writer, SaveWrites(w)
    PROVE  /\ save' \in [Writer -> Save]
           /\ save'[w].stage = "wrote" /\ save'[w].gives = save[w].gives
           /\ \A v \in Writer : v # w =>
                 /\ \/ save'[v] = save[v]
                    \/ save[v].stage = "read" /\ save'[v].stage = "read" /\ save'[v].late
                 /\ save[v].stage = "read" /\ HomeOf[v] # HomeOf[w] => save'[v].late
  <1> DEFINE mine == [save[w] EXCEPT !.stage = "wrote", !.saw = Nothing, !.late = FALSE, !.blind = FALSE]
             outrun(v) == [save[v] EXCEPT !.late = TRUE]
  <1>1. \A v \in Writer : save[v] \in Save
    BY DEF VaultTypeOK
  <1>2. mine \in Save /\ mine.stage = "wrote" /\ mine.gives = save[w].gives
    BY <1>1, HydrationMade DEF Save, Nothing, Contents
  <1>3. ASSUME NEW v \in Writer
        PROVE  outrun(v) \in Save /\ outrun(v).late = TRUE /\ outrun(v).stage = save[v].stage
    BY <1>1 DEF Save
  <1>4. save' = [v \in Writer |->
           IF v = w THEN mine
           ELSE IF save[v].stage = "read" /\ HomeOf[v] # HomeOf[w] THEN outrun(v) ELSE save[v]]
    BY DEF SaveWrites
  <1> HIDE DEF mine, outrun
  <1>5. ASSUME NEW v \in Writer
        PROVE  save'[v] = IF v = w THEN mine
                          ELSE IF save[v].stage = "read" /\ HomeOf[v] # HomeOf[w] THEN outrun(v) ELSE save[v]
    BY <1>4
  <1>6. \A v \in Writer : save'[v] \in Save
    BY <1>1, <1>2, <1>3, <1>5
  <1>7. save' \in [Writer -> Save]
    BY <1>4, <1>6
  <1>8. save'[w].stage = "wrote" /\ save'[w].gives = save[w].gives
    BY <1>2, <1>5
  <1>9. ASSUME NEW v \in Writer, v # w
        PROVE  /\ \/ save'[v] = save[v]
                  \/ save[v].stage = "read" /\ save'[v].stage = "read" /\ save'[v].late
               /\ save[v].stage = "read" /\ HomeOf[v] # HomeOf[w] => save'[v].late
    BY <1>3, <1>5, <1>9
  <1>10. QED
    BY <1>7, <1>8, <1>9

\* The end of a save.
LEMMA SavedIs ==
    ASSUME VaultTypeOK, NEW w \in Writer, save' = [save EXCEPT ![w] = Saved]
    PROVE  /\ save' \in [Writer -> Save] /\ save'[w].stage = "done"
           /\ \A v \in Writer : v # w => save'[v] = save[v]
  <1>1. Saved \in Save /\ Saved.stage = "done"
    BY HydrationMade DEF Saved, NoSave, Save, Nothing, Contents
  <1>2. QED
    BY <1>1 DEF VaultTypeOK

\* One hydration becomes another.
LEMMA HydrationIs ==
    ASSUME VaultTypeOK, NEW i \in Nodes, NEW c \in Cause, NEW h \in Hydration,
           hydrate' = [hydrate EXCEPT ![i][c] = h]
    PROVE  /\ hydrate' \in [Nodes -> [Writer \cup {Opened} -> Hydration]]
           /\ hydrate'[i][c] = h
           /\ \A j \in Nodes, d \in Cause : j # i \/ d # c => hydrate'[j][d] = hydrate[j][d]
  BY DEF VaultTypeOK, Cause

\* The instance of a writer is one of the nodes.
LEMMA HomeIsANode == \A w \in Writer : HomeOf[w] \in Nodes
  BY DEF Nodes

\* The steps of a save keep the types.
LEMMA WriterTypes ==
    ASSUME VaultTypeOK, NEW w \in Writer, SaveWrites(w) \/ SaveFails(w) \/ SaveApplies(w) \/ SaveAnswers(w)
    PROVE  VaultTypeOK'
  <1>0. HomeOf[w] \in Nodes
    BY HomeIsANode
  <1>1. CASE SaveWrites(w)
    <2>0. hydrate \in [Nodes -> [Writer \cup {Opened} -> Hydration]] /\ excused \subseteq Nodes \X DocField
          /\ blurred \subseteq DocField
      BY DEF VaultTypeOK
    <2>1. blurred' \subseteq DocField
      BY <2>0, <1>1, SaveWritesIs
    <2>4. excused' = excused \/ excused' = excused \cup ({HomeOf[w]} \X blurred')
      BY <1>1, SaveWritesIs
    <2>5. excused' \subseteq Nodes \X DocField
      BY <1>0, <2>0, <2>1, <2>4
    <2>6. hydrate' = hydrate \/ hydrate' = OutrunBy(HomeOf[w], hydrate)
      BY <1>1, SaveWritesIs
    <2>2. hydrate' \in [Nodes -> [Writer \cup {Opened} -> Hydration]]
      BY <1>0, <2>0, <2>6, OutrunByIs
    <2>3. QED
      BY <1>1, <2>1, <2>2, <2>5, SaveWritesIs, SaveWritesSaves DEF VaultTypeOK
  <1>2. CASE SaveFails(w)
    <2>1. save' \in [Writer -> Save]
      BY <1>2, SavedIs DEF SaveFails
    <2>2. QED
      BY <1>2, <2>1 DEF SaveFails, VaultTypeOK
  <1>3. CASE SaveApplies(w)
    <2>1. save' \in [Writer -> Save]
      BY <1>3, SavedIs DEF SaveApplies
    <2>2. hydrate' \in [Nodes -> [Writer \cup {Opened} -> Hydration]]
      BY <1>0, <1>3, TellsIs, OutrunByIs DEF SaveApplies
    <2>3. inMemory' \in [Nodes -> Contents]
      <3>1. inMemory' = [inMemory EXCEPT ![HomeOf[w]] =
                [f \in DocField |-> IF f \in save[w].gives THEN w ELSE inMemory[HomeOf[w]][f]]]
        BY <1>3 DEF SaveApplies
      <3>2. [f \in DocField |-> IF f \in save[w].gives THEN w ELSE inMemory[HomeOf[w]][f]] \in Contents
        BY <1>0 DEF VaultTypeOK, Contents
      <3>3. QED
        BY <3>1, <3>2 DEF VaultTypeOK
    <2>4. excused' \subseteq Nodes \X DocField
      <3>1. save[w].gives \subseteq DocField
        BY DEF VaultTypeOK, Save
      <3>2. QED
        BY <1>0, <1>3, <3>1 DEF SaveApplies, VaultTypeOK
    <2>5. QED
      BY <1>3, <2>1, <2>2, <2>3, <2>4 DEF SaveApplies, VaultTypeOK
  <1>4. CASE SaveAnswers(w)
    <2>1. save' \in [Writer -> Save]
      BY <1>4, SavedIs DEF SaveAnswers
    <2>2. hydrate' \in [Nodes -> [Writer \cup {Opened} -> Hydration]]
      BY <1>4, TellsIs DEF SaveAnswers
    <2>3. QED
      BY <1>4, <2>1, <2>2 DEF SaveAnswers, VaultTypeOK
  <1>5. QED
    BY <1>1, <1>2, <1>3, <1>4

\* What a hydration does that sets the fields of a set.
LEMMA SetsIs ==
    ASSUME VaultTypeOK, NEW i \in Nodes, NEW c \in Cause, NEW set \in SUBSET DocField, Sets(i, c, set)
    PROVE  /\ VaultTypeOK'
           /\ hydrate[i][c].stage = "read"
           /\ hydrate' = OutrunBy(i, [hydrate EXCEPT ![i][c] = Hydrated])
           /\ save' = Outrun(i)
           /\ \A j \in Nodes : j # i => inMemory'[j] = inMemory[j]
           /\ \A f \in DocField :
                 /\ f \in set => inMemory'[i][f] = hydrate[i][c].saw[f]
                 /\ f \notin set => inMemory'[i][f] = inMemory[i][f]
           /\ hydrate[i][c].late => excused' = excused \cup ({i} \X set)
           /\ ~hydrate[i][c].late => excused' = excused \ ({i} \X set)
           /\ UNCHANGED <<docKind, doc, given, blurred>>
  <1> DEFINE new == [f \in DocField |-> IF f \in set THEN hydrate[i][c].saw[f] ELSE inMemory[i][f]]
  <1>1. hydrate[i][c] \in Hydration
    BY DEF VaultTypeOK, Cause
  <1>2. new \in Contents
    BY <1>1 DEF VaultTypeOK, Hydration, Contents
  <1>3. inMemory' = [inMemory EXCEPT ![i] = new]
    BY DEF Sets
  <1>4. \A f \in DocField : new[f] = IF f \in set THEN hydrate[i][c].saw[f] ELSE inMemory[i][f]
    OBVIOUS
  <1> HIDE DEF new
  <1>5. inMemory' \in [Nodes -> Contents] /\ inMemory'[i] = new /\ \A j \in Nodes : j # i => inMemory'[j] = inMemory[j]
    BY <1>2, <1>3 DEF VaultTypeOK
  <1>6. [hydrate EXCEPT ![i][c] = Hydrated] \in [Nodes -> [Writer \cup {Opened} -> Hydration]]
    BY NothingMade DEF VaultTypeOK, Cause
  <1>7. hydrate' \in [Nodes -> [Writer \cup {Opened} -> Hydration]] /\ save' \in [Writer -> Save]
    BY <1>6, OutrunByIs, OutrunIs DEF Sets
  <1>8. excused' \subseteq Nodes \X DocField
    BY DEF Sets, VaultTypeOK
  <1>9. VaultTypeOK'
    BY <1>5, <1>7, <1>8 DEF Sets, VaultTypeOK
  <1>10. QED
    BY <1>4, <1>5, <1>9 DEF Sets

\* ... and those of a hydration.
LEMMA HydrationTypes ==
    ASSUME VaultTypeOK, NEW i \in Nodes, NEW c \in Cause,
           \/ VaultOpens(i) \/ HydrateReads(i, c) \/ HydrateFails(i, c) \/ HydrateSets(i, c)
           \/ PluginSets(i, c) \/ \E blind \in BOOLEAN : PluginReads(i, c, blind)
    PROVE  VaultTypeOK'
  <1>0. hydrate[i][c] \in Hydration /\ hydrate[i][Opened] \in Hydration /\ Opened \in Cause /\ doc \in Contents
    BY DEF VaultTypeOK, Cause
  <1>1. CASE VaultOpens(i)
    <2> DEFINE new == [hydrate[i][Opened] EXCEPT !.stage = "told"]
    <2>1. new \in Hydration
      BY <1>0 DEF Hydration
    <2>2. hydrate' = [hydrate EXCEPT ![i][Opened] = new]
      BY <1>1, <1>0 DEF VaultOpens, VaultTypeOK
    <2> HIDE DEF new
    <2>3. hydrate' \in [Nodes -> [Writer \cup {Opened} -> Hydration]]
      BY <1>0, <2>1, <2>2, HydrationIs
    <2>4. QED
      BY <1>1, <2>3 DEF VaultOpens, VaultTypeOK
  <1>2. CASE HydrateReads(i, c)
    <2>1. hydrate' \in [Nodes -> [Writer \cup {Opened} -> Hydration]]
      BY <1>2, <1>0, HydrationMade, HydrationIs DEF HydrateReads
    <2>2. QED
      BY <1>2, <2>1 DEF HydrateReads, VaultTypeOK
  <1>3. CASE HydrateFails(i, c)
    <2>1. [hydrate EXCEPT ![i][c] = Hydrated] \in [Nodes -> [Writer \cup {Opened} -> Hydration]]
      BY <1>0, HydrationMade DEF VaultTypeOK, Cause
    <2>2. hydrate' \in [Nodes -> [Writer \cup {Opened} -> Hydration]] /\ save' \in [Writer -> Save]
      BY <1>3, <2>1, OutrunByIs, OutrunIs DEF HydrateFails
    <2>3. faults' \in 0..Faults
      BY <1>3, UpdatesAssumption DEF HydrateFails, VaultTypeOK
    <2>4. excused' \subseteq Nodes \X DocField
      BY <1>3 DEF HydrateFails, VaultTypeOK
    <2>5. QED
      BY <1>3, <2>2, <2>3, <2>4 DEF HydrateFails, VaultTypeOK
  <1>4. CASE HydrateSets(i, c)
    BY <1>4, SetsIs DEF HydrateSets
  <1>5. CASE PluginSets(i, c)
    BY <1>5, SetsIs DEF PluginSets
  <1>6. ASSUME NEW blind \in BOOLEAN, PluginReads(i, c, blind)
        PROVE  VaultTypeOK'
    <2>1. (IF blind THEN Nothing ELSE doc) \in Contents
      BY <1>0, HydrationMade
    <2>2. hydrate' \in [Nodes -> [Writer \cup {Opened} -> Hydration]]
      BY <1>6, <1>0, <2>1, HydrationMade, HydrationIs DEF PluginReads
    <2>3. faults' \in 0..Faults
      BY <1>6, UpdatesAssumption DEF PluginReads, VaultTypeOK
    <2>4. QED
      BY <1>6, <2>2, <2>3 DEF PluginReads, VaultTypeOK
  <1>7. QED
    BY <1>1, <1>2, <1>3, <1>4, <1>5, <1>6

\* Every step keeps the types.
LEMMA VaultTypeStep == VaultTypeOK /\ [VaultNext]_vaultVars => VaultTypeOK'
  <1> SUFFICES ASSUME VaultTypeOK, [VaultNext]_vaultVars
               PROVE  VaultTypeOK'
    OBVIOUS
  <1>1. ASSUME NEW w \in Writer, NEW update \in Updates, NEW blind \in BOOLEAN, SaveReads(w, update, blind)
        PROVE  VaultTypeOK'
    BY <1>1, SaveReadsIs DEF VaultTypeOK
  <1>2. CASE UNCHANGED vaultVars
    BY <1>2 DEF vaultVars, VaultTypeOK
  <1>3. Opened \in Cause
    BY DEF Cause
  <1>4. QED
    BY <1>1, <1>2, <1>3, WriterTypes, HydrationTypes
       DEF VaultNext, Cause, ChangeConfig, UpdatePluginSettings, SetSecret, SetToken

-----------------------------------------------------------------------------
(* The saves, and the fields of the secret.                                *)

\* The instance of a writer is outrun: nothing changes of what it read.
LEMMA OutrunKeepsSaves ==
    ASSUME VaultTypeOK, SavesInv, NEW i \in Nodes, save' = Outrun(i),
           UNCHANGED <<doc, given, blurred>>
    PROVE  SavesInv'
  <1>1. \A w \in Writer : save'[w].stage = save[w].stage /\ save'[w].saw = save[w].saw
            /\ save'[w].blind = save[w].blind /\ (save[w].stage = "read" => save'[w].late = save[w].late)
    BY OutrunIs
  <1>2. QED
    BY <1>1 DEF SavesInv

\* Every step keeps the invariant of the saves: whoever writes makes the other
\* instances late, and nobody else on its own is between reading and writing.
LEMMA SavesStep ==
    ASSUME VaultTypeOK, SavesInv, [VaultNext]_vaultVars
    PROVE  SavesInv'
  <1>1. ASSUME NEW w \in Writer, NEW update \in Updates, NEW blind \in BOOLEAN, SaveReads(w, update, blind)
        PROVE  SavesInv'
    <2>1. \A v \in Writer : HomeOf[v] = HomeOf[w] => save[v].stage \notin {"read", "wrote"}
      BY <1>1 DEF SaveReads, TakesLock, Busy
    <2>2. /\ \A v \in Writer : v # w => save'[v] = save[v]
          /\ save'[w].stage = "read" /\ (save'[w].blind \/ save'[w].saw = doc)
          /\ UNCHANGED <<doc, given, blurred>>
      BY <1>1, SaveReadsIs
    <2>3. QED
      BY <2>1, <2>2 DEF SavesInv
  <1>2. ASSUME NEW w \in Writer, SaveWrites(w)
        PROVE  SavesInv'
    <2>1. save[w].stage = "read" /\ save'[w].stage = "wrote"
      BY <1>2, SaveWritesIs, SaveWritesSaves
    <2>2. \A v \in Writer : v # w => \/ save'[v] = save[v]
                                     \/ save[v].stage = "read" /\ save'[v].stage = "read" /\ save'[v].late
      BY <1>2, SaveWritesSaves
    <2>3. \A v \in Writer : v # w /\ save[v].stage = "read" => save'[v].late
      <3>1. \A v \in Writer : v # w /\ save[v].stage = "read" /\ HomeOf[v] # HomeOf[w] => save'[v].late
        BY <1>2, SaveWritesSaves
      <3>2. QED
        BY <2>1, <3>1 DEF SavesInv
    <2>4. \A v, u \in Writer : HomeOf[v] = HomeOf[u] /\ save'[v].stage \in {"read", "wrote"}
              /\ save'[u].stage \in {"read", "wrote"} => v = u
      <3>1. \A v \in Writer : save'[v].stage \in {"read", "wrote"} => save[v].stage \in {"read", "wrote"}
        BY <2>1, <2>2
      <3>2. QED
        BY <3>1 DEF SavesInv
    <2>5. \A v \in Writer : save'[v].stage = "read" => save'[v].late
      BY <2>1, <2>2, <2>3
    <2>6. ASSUME NEW f \in DocField, f \notin blurred'
          PROVE  doc'[f] = given'[f]
      <3>1. CASE f \in save[w].gives \/ f \in save[w].drops
        BY <3>1, <1>2, SaveWritesIs
      <3>2. CASE f \notin save[w].gives /\ f \notin save[w].drops
        <4>1. ~save[w].blind /\ ~save[w].late /\ f \notin blurred
          BY <3>2, <2>6, <1>2, SaveWritesIs
        <4>2. save[w].saw = doc /\ doc[f] = given[f]
          BY <2>1, <4>1 DEF SavesInv
        <4>3. QED
          BY <3>2, <4>2, <1>2, SaveWritesIs
      <3>3. QED
        BY <3>1, <3>2
    <2>7. QED
      BY <2>4, <2>5, <2>6 DEF SavesInv
  <1>3. ASSUME NEW w \in Writer, SaveFails(w) \/ SaveApplies(w) \/ SaveAnswers(w)
        PROVE  SavesInv'
    <2>1. save' = [save EXCEPT ![w] = Saved] /\ UNCHANGED <<doc, given, blurred>>
      BY <1>3 DEF SaveFails, SaveApplies, SaveAnswers
    <2>2. save'[w].stage = "done" /\ \A v \in Writer : v # w => save'[v] = save[v]
      BY <2>1, SavedIs
    <2>3. QED
      BY <2>1, <2>2 DEF SavesInv
  <1>4. ASSUME NEW i \in Nodes, NEW c \in Cause,
               HydrateFails(i, c) \/ HydrateSets(i, c) \/ PluginSets(i, c)
        PROVE  SavesInv'
    BY <1>4, OutrunKeepsSaves DEF HydrateFails, HydrateSets, PluginSets, Sets
  <1>5. CASE UNCHANGED <<save, doc, given, blurred>>
    BY <1>5 DEF SavesInv
  <1>6. QED
    BY <1>1, <1>2, <1>3, <1>4, <1>5
       DEF VaultNext, vaultVars, Cause, ChangeConfig, UpdatePluginSettings, SetSecret, SetToken,
           VaultOpens, HydrateReads, PluginReads

-----------------------------------------------------------------------------
(* The memory of an instance.                                              *)

\* A hydration that is to come, wherever from, settles everything.
LEMMA ElsewhereSettles ==
    ASSUME NEW i, NEW f, Elsewhere(i, f)'
    PROVE  Settling(i, f)'
  BY DEF Settling, ReadWell, SavedWell, Coming

\* Nothing changes for an instance but that saves come to their first stage or
\* end that were not on the way to it, and that it may be outrun.
LEMMA NothingNewHere ==
    ASSUME NEW i \in Nodes, NEW f \in DocField, Settling(i, f),
           UNCHANGED <<docKind, doc, inMemory>>,
           <<i, f>> \in excused => <<i, f>> \in excused',
           \A c \in Cause :
               /\ hydrate'[i][c].stage = hydrate[i][c].stage
               /\ hydrate'[i][c].saw = hydrate[i][c].saw
               /\ hydrate[i][c].late => hydrate'[i][c].late,
           \A w \in Writer :
               \/ save'[w] = save[w]
               \/ save'[w].stage # "wrote" /\ save[w].stage # "wrote"
               \/ /\ save'[w].stage = save[w].stage /\ save'[w].gives = save[w].gives
                  /\ save[w].late => save'[w].late
    PROVE  Settling(i, f)'
  <1>0. \A w \in Writer : Told(w)' = Told(w)
    BY DEF Told
  <1>1. \A w \in Writer : save[w].stage = "wrote" => save'[w].stage = "wrote" /\ save'[w].gives = save[w].gives
    OBVIOUS
  <1>2. \A w \in Writer : save'[w].stage = "wrote" /\ ~save'[w].late =>
            save[w].stage = "wrote" /\ save'[w].gives = save[w].gives /\ ~save[w].late
    OBVIOUS
  <1>3. Elsewhere(i, f) => Elsewhere(i, f)'
    BY <1>0, <1>1 DEF Elsewhere
  <1>4. Coming(i, f) => Coming(i, f)'
    BY <1>1, <1>3 DEF Coming
  <1>5. Right(i, f) => Right(i, f)'
    BY DEF Right
  <1>6. ReadWell(i, f)'
    BY <1>4 DEF ReadWell, Settling
  <1>7. SavedWell(i, f)'
    BY <1>2, <1>3 DEF SavedWell, Settling
  <1>8. QED
    BY <1>4, <1>5, <1>6, <1>7 DEF Settling

\* A field is settled on the instances that are told of a save when it writes
\* the secret; and on its own it was set by it, was as it is, or is excused.
LEMMA MemoryAfterWrite ==
    ASSUME VaultTypeOK, SavesInv, docKind \in {"settings", "plugin"},
           NEW w \in Writer, SaveWrites(w), NEW i \in Nodes, NEW f \in DocField, Settling(i, f)
    PROVE  Settling(i, f)'
  <1>1. save[w].stage = "read" /\ save'[w].stage = "wrote" /\ save'[w].gives = save[w].gives
        /\ docKind' = docKind /\ inMemory' = inMemory
    BY SaveWritesIs, SaveWritesSaves
  <1>2. CASE i \in Told(w)
    <2>1. Elsewhere(i, f)'
      BY <1>1, <1>2 DEF Elsewhere, Told
    <2>2. QED
      BY <2>1, ElsewhereSettles
  <1>3. CASE i \notin Told(w)
    <2>1. docKind = "settings" /\ HomeOf[w] = i
      BY <1>3 DEF Told
    <2>2. hydrate \in [Nodes -> [Writer \cup {Opened} -> Hydration]]
      BY DEF VaultTypeOK
    <2>3. hydrate' = hydrate \/ hydrate' = OutrunBy(i, hydrate)
      BY <2>1, SaveWritesIs
    <2>4. \A c \in Cause :
              /\ hydrate'[i][c].stage = hydrate[i][c].stage
              /\ hydrate'[i][c].saw = hydrate[i][c].saw
              /\ hydrate[i][c].late => hydrate'[i][c].late
      <3>1. CASE hydrate' = hydrate
        BY <3>1
      <3>2. CASE hydrate' = OutrunBy(i, hydrate)
        BY ZenonT(60), <3>2, <2>2, OutrunByIs
      <3>3. QED
        BY <2>3, <3>1, <3>2
    <2>5. \A v \in Writer : v # w /\ HomeOf[v] = i => save'[v].stage # "wrote"
      <3>1. ASSUME NEW v \in Writer, v # w, HomeOf[v] = i
            PROVE  save[v].stage \notin {"read", "wrote"}
        BY <3>1, <1>1, <2>1 DEF SavesInv
      <3>2. QED
        BY <3>1, SaveWritesSaves
    <2>6. \A v \in Writer : save[v].stage = "wrote" => save'[v].stage = "wrote"
      BY <1>1, SaveWritesSaves
    <2>7. CASE f \in save[w].gives
      <3>1. doc'[f] = w
        BY <2>7, SaveWritesIs
      <3>2. Coming(i, f)'
        BY <1>1, <2>1, <2>7 DEF Coming
      <3>3. SavedWell(i, f)'
        BY <2>5, <3>1 DEF SavedWell
      <3>4. QED
        BY <3>2, <3>3 DEF Settling, ReadWell
    <2>8. CASE f \notin save[w].gives
      <3>0. SavedWell(i, f)'
        BY <1>1, <2>5, <2>8 DEF SavedWell
      <3>1. CASE f \in save[w].drops
        <4>1. doc'[f] = 0
          BY <2>8, <3>1, SaveWritesIs
        <4>2. QED
          BY <1>1, <2>1, <3>0, <4>1 DEF Settling, Right, ReadWell, Skips, NotInSecret
      <3>2. CASE f \notin save[w].drops /\ (save[w].blind \/ save[w].late)
        <4>1. f \in blurred' /\ excused' = excused \cup ({HomeOf[w]} \X blurred')
              /\ hydrate' = OutrunBy(i, hydrate)
          BY <2>1, <2>8, <3>2, SaveWritesIs
        <4>2. Right(i, f)'
          BY <2>1, <4>1 DEF Right
        <4>5. \A c \in Cause : hydrate[i][c].stage = "read" => OutrunBy(i, hydrate)[i][c].late
          BY <2>2, OutrunByIs
        <4>3. ReadWell(i, f)'
          BY <2>4, <4>1, <4>5 DEF ReadWell
        <4>4. QED
          BY <3>0, <4>2, <4>3 DEF Settling
      <3>3. CASE f \notin save[w].drops /\ ~(save[w].blind \/ save[w].late)
        <4>1. save[w].saw = doc
          BY <1>1, <3>3 DEF SavesInv
        <4>2. doc'[f] = doc[f] /\ excused' = excused
          BY <2>8, <3>3, <4>1, SaveWritesIs
        <4>3. \A v \in Writer : Told(v)' = Told(v)
          BY <1>1 DEF Told
        <4>4. Elsewhere(i, f) => Elsewhere(i, f)'
          BY <1>1, <2>4, <2>6, <4>2, <4>3 DEF Elsewhere
        <4>5. Coming(i, f) => Coming(i, f)'
          <5>1. ASSUME NEW v \in Writer, save[v].stage = "wrote", HomeOf[v] = i
                PROVE  FALSE
            BY <5>1, <1>1, <2>1 DEF SavesInv
          <5>2. QED
            BY <4>4, <5>1 DEF Coming
        <4>6. Right(i, f) => Right(i, f)'
          BY <1>1, <4>2 DEF Right
        <4>7. ReadWell(i, f)'
          BY <1>1, <2>4, <4>2, <4>5 DEF ReadWell, Settling
        <4>8. QED
          BY <3>0, <4>5, <4>6, <4>7 DEF Settling
      <3>4. QED
        BY <3>1, <3>2, <3>3
    <2>9. QED
      BY <2>7, <2>8
  <1>4. QED
    BY <1>2, <1>3

\* A save that is applied sets its fields here, unless it was outrun, and is
\* to be heard of everywhere else.
LEMMA MemoryAfterApply ==
    ASSUME VaultTypeOK, SavesInv, NEW w \in Writer, SaveApplies(w),
           NEW i \in Nodes, NEW f \in DocField, Settling(i, f)
    PROVE  Settling(i, f)'
  <1> DEFINE home == HomeOf[w]
  <1>1. /\ docKind = "settings" /\ save[w].stage = "wrote"
        /\ save' = [save EXCEPT ![w] = Saved]
        /\ hydrate' = OutrunBy(home, Tells(w))
        /\ UNCHANGED <<docKind, faults, doc, given, blurred>>
    BY DEF SaveApplies
  <1>2. save'[w].stage = "done" /\ \A v \in Writer : v # w => save'[v] = save[v]
    BY <1>1, SavedIs
  <1>3. home \in Nodes /\ Tells(w) \in [Nodes -> [Writer \cup {Opened} -> Hydration]]
    BY HomeIsANode, TellsIs
  <1>4. CASE i # home
    <2>1. i \in Told(w) /\ w \in Cause
      BY <1>1, <1>4 DEF Told, Cause
    <2>2. Tells(w)[i][w].stage = "told" /\ OutrunBy(home, Tells(w))[i] = Tells(w)[i]
      BY <1>3, <1>4, <2>1, TellsIs, OutrunByIs
    <2>3. Elsewhere(i, f)'
      BY <1>1, <2>1, <2>2 DEF Elsewhere
    <2>4. QED
      BY <2>3, ElsewhereSettles
  <1>5. CASE i = home
    <2>1. Tells(w)[i] = hydrate[i] /\ i \notin Told(w)
      BY <1>1, <1>5, TellsIs DEF Told
    <2>2. \A c \in Cause :
              /\ hydrate'[i][c].stage = hydrate[i][c].stage
              /\ hydrate'[i][c].saw = hydrate[i][c].saw
              /\ hydrate[i][c].stage = "read" => hydrate'[i][c].late
      <3>1. ASSUME NEW c \in Cause
            PROVE  /\ OutrunBy(home, Tells(w))[home][c].stage = Tells(w)[home][c].stage
                   /\ OutrunBy(home, Tells(w))[home][c].saw = Tells(w)[home][c].saw
                   /\ Tells(w)[home][c].stage = "read" => OutrunBy(home, Tells(w))[home][c].late
        BY <1>3, OutrunByAt
      <3>2. QED
        BY <1>1, <1>5, <2>1, <3>1
    <2>3. \A v \in Writer : HomeOf[v] = i => save'[v].stage # "wrote"
      BY <1>1, <1>2, <1>5 DEF SavesInv
    <2>4. ReadWell(i, f)' /\ SavedWell(i, f)'
      BY <2>2, <2>3 DEF ReadWell, SavedWell
    <2>5. Elsewhere(i, f) => Elsewhere(i, f)'
      <3>1. \A v \in Writer : Told(v)' = Told(v)
        BY <1>1 DEF Told
      <3>2. QED
        BY <1>1, <1>2, <2>1, <2>2, <3>1 DEF Elsewhere
    <2>6. CASE f \in save[w].gives
      <3>1. inMemory'[i][f] = w
        BY <1>5, <2>6 DEF SaveApplies, VaultTypeOK
      <3>2. CASE save[w].late
        <4>1. <<i, f>> \in excused'
          BY <1>5, <2>6, <3>2 DEF SaveApplies
        <4>2. QED
          BY <2>4, <4>1 DEF Settling, Right
      <3>3. CASE ~save[w].late
        <4>1. doc[f] = w \/ Elsewhere(i, f)
          BY <1>1, <1>5, <2>6, <3>3 DEF Settling, SavedWell
        <4>2. QED
          BY <1>1, <2>4, <2>5, <3>1, <4>1 DEF Settling, Right, Coming
      <3>4. QED
        BY <3>2, <3>3
    <2>7. CASE f \notin save[w].gives
      <3>1. inMemory'[i][f] = inMemory[i][f]
        BY <1>5, <2>7 DEF SaveApplies, VaultTypeOK
      <3>2. <<i, f>> \in excused => <<i, f>> \in excused'
        BY <2>7 DEF SaveApplies
      <3>3. Right(i, f) => Right(i, f)'
        BY <1>1, <3>1, <3>2 DEF Right
      <3>4. Coming(i, f) => Elsewhere(i, f)
        <4>1. ASSUME NEW v \in Writer, save[v].stage = "wrote", HomeOf[v] = i
              PROVE  v = w
          BY <1>1, <1>5, <4>1 DEF SavesInv
        <4>2. QED
          BY <2>7, <4>1 DEF Coming
      <3>5. QED
        BY <2>4, <2>5, <3>3, <3>4 DEF Settling, Coming
    <2>8. QED
      BY <2>6, <2>7
  <1>6. QED
    BY <1>4, <1>5

\* A hydration that sets fields on its own instance: what was read and not
\* outrun is in the secret, or is followed by another.
LEMMA MemoryAfterSet ==
    ASSUME VaultTypeOK, docKind \in {"settings", "plugin"},
           NEW i \in Nodes, NEW c \in Cause, NEW set \in SUBSET DocField, Sets(i, c, set),
           NEW f \in DocField, Settling(i, f),
           docKind = "plugin" => set = DocField,
           f \notin set => docKind = "settings" /\ Skips(i, f, hydrate[i][c].saw[f])
    PROVE  Settling(i, f)'
  <1> DEFINE over == [hydrate EXCEPT ![i][c] = Hydrated]
  <1>1. over \in [Nodes -> [Writer \cup {Opened} -> Hydration]]
        /\ over[i][c] = Hydrated /\ \A d \in Cause : d # c => over[i][d] = hydrate[i][d]
    BY NothingMade DEF VaultTypeOK, Cause
  <1>2. hydrate' = OutrunBy(i, over)
    BY SetsIs
  <1> HIDE DEF over
  <1>3. ASSUME NEW d \in Cause
        PROVE  /\ hydrate'[i][d].stage = over[i][d].stage
               /\ hydrate'[i][d].saw = over[i][d].saw
               /\ hydrate'[i][d].stage = "read" => hydrate'[i][d].late
    <2>1. /\ OutrunBy(i, over)[i][d].stage = over[i][d].stage
          /\ OutrunBy(i, over)[i][d].saw = over[i][d].saw
          /\ over[i][d].stage = "read" => OutrunBy(i, over)[i][d].late
      BY <1>1, OutrunByAt
    <2>2. QED
      BY <1>2, <2>1
  <1> DEFINE was == hydrate[i][c]
  <1>12. /\ save' = Outrun(i)
         /\ \A g \in DocField :
               /\ g \in set => inMemory'[i][g] = was.saw[g]
               /\ g \notin set => inMemory'[i][g] = inMemory[i][g]
         /\ was.late => excused' = excused \cup ({i} \X set)
         /\ ~was.late => excused' = excused \ ({i} \X set)
    <2>1. /\ save' = Outrun(i)
          /\ was.late => excused' = excused \cup ({i} \X set)
          /\ ~was.late => excused' = excused \ ({i} \X set)
      BY DEF Sets
    <2>2. ASSUME NEW g \in DocField
          PROVE  /\ g \in set => inMemory'[i][g] = was.saw[g]
                 /\ g \notin set => inMemory'[i][g] = inMemory[i][g]
      BY DEF Sets, VaultTypeOK
    <2>3. QED
      BY <2>1, <2>2
  <1>4. \A w \in Writer : save'[w].stage = save[w].stage /\ save'[w].gives = save[w].gives
            /\ (save[w].stage = "wrote" /\ HomeOf[w] = i => save'[w].late)
    BY <1>12, OutrunIs
  <1>5. ReadWell(i, f)' /\ SavedWell(i, f)'
    BY <1>3, <1>4 DEF ReadWell, SavedWell
  <1>6. hydrate[i][c].stage = "read" /\ Hydrated.stage = "done" /\ UNCHANGED <<docKind, doc>>
    BY SetsIs, NothingMade
  <1> DEFINE Others ==
          \/ \E d \in Cause : d # c /\ hydrate[i][d].stage = "told"
          \/ \E d \in Cause : d # c /\ hydrate[i][d].stage = "read" /\ hydrate[i][d].saw[f] = doc[f]
          \/ docKind = "plugin" /\ \E d \in Cause : d # c /\ hydrate[i][d].stage = "read" /\ hydrate[i][d].late
          \/ \E w \in Writer : save[w].stage = "wrote" /\ i \in Told(w)
          \/ \E w \in Writer : docKind = "settings" /\ save[w].stage = "wrote" /\ HomeOf[w] = i /\ f \in save[w].gives
  <1>7. Others => Coming(i, f)'
    <2>1. \A w \in Writer : Told(w)' = Told(w)
      BY <1>6 DEF Told
    <2>2. \A d \in Cause : d # c => hydrate'[i][d].stage = hydrate[i][d].stage
              /\ hydrate'[i][d].saw = hydrate[i][d].saw
              /\ (hydrate[i][d].stage = "read" => hydrate'[i][d].late)
      BY <1>1, <1>3
    <2>3. QED
      BY <1>4, <1>6, <2>1, <2>2 DEF Coming, Elsewhere
  <1>8. Coming(i, f) => \/ Others
                        \/ hydrate[i][c].saw[f] = doc[f]
                        \/ docKind = "plugin" /\ hydrate[i][c].late
    <2>2. Elsewhere(i, f) => \/ Others
                             \/ hydrate[i][c].saw[f] = doc[f]
                             \/ docKind = "plugin" /\ hydrate[i][c].late
      <3>1. ASSUME NEW d \in Cause, hydrate[i][d].stage = "told"
            PROVE  Others
        BY <1>6, <3>1
      <3>2. ASSUME NEW d \in Cause, hydrate[i][d].stage = "read", hydrate[i][d].saw[f] = doc[f]
            PROVE  Others \/ hydrate[i][c].saw[f] = doc[f]
        BY <3>2
      <3>8. ASSUME NEW d \in Cause, hydrate[i][d].stage = "read", docKind = "plugin", hydrate[i][d].late
            PROVE  Others \/ hydrate[i][c].late
        BY <3>8
      <3>3. ASSUME NEW w \in Writer, save[w].stage = "wrote", i \in Told(w)
            PROVE  Others
        BY <3>3
      <3> HIDE DEF Others
      <3> SUFFICES ASSUME Elsewhere(i, f)
                   PROVE  \/ Others
                          \/ hydrate[i][c].saw[f] = doc[f]
                          \/ docKind = "plugin" /\ hydrate[i][c].late
        OBVIOUS
      <3>4. CASE \E d \in Cause : hydrate[i][d].stage = "told"
        BY <3>1, <3>4
      <3>5. CASE \E d \in Cause : hydrate[i][d].stage = "read" /\ hydrate[i][d].saw[f] = doc[f]
        BY <3>2, <3>5
      <3>9. CASE docKind = "plugin" /\ \E d \in Cause : hydrate[i][d].stage = "read" /\ hydrate[i][d].late
        BY <3>8, <3>9
      <3>6. CASE \E w \in Writer : save[w].stage = "wrote" /\ i \in Told(w)
        BY <3>3, <3>6
      <3>7. QED
        BY <3>4, <3>5, <3>6, <3>9 DEF Elsewhere
    <2>3. QED
      BY <2>2 DEF Coming
  <1> HIDE DEF Others
  <1>9. CASE f \in set
    <2>1. inMemory'[i][f] = hydrate[i][c].saw[f]
      BY <1>9, <1>12
    <2>2. CASE hydrate[i][c].late
      <3>1. <<i, f>> \in excused'
        BY <1>9, <2>2, <1>12
      <3>2. QED
        BY <1>5, <3>1 DEF Settling, Right
    <2>3. CASE ~hydrate[i][c].late
      <3>1. hydrate[i][c].saw[f] = doc[f] \/ (docKind = "settings" /\ Skips(i, f, doc[f])) \/ Coming(i, f)
        BY <1>6, <2>3 DEF Settling, ReadWell
      <3>2. QED
        BY <1>5, <1>6, <1>7, <1>8, <2>1, <2>3, <3>1 DEF Settling, Right
    <2>4. QED
      BY <2>2, <2>3
  <1>10. CASE f \notin set
    <2>1. inMemory'[i][f] = inMemory[i][f] /\ docKind = "settings" /\ Skips(i, f, hydrate[i][c].saw[f])
      BY <1>10, <1>12
    <2>2. <<i, f>> \in excused => <<i, f>> \in excused'
      BY <1>10, <1>12
    <2>3. Right(i, f) => Right(i, f)'
      BY <1>6, <2>1, <2>2 DEF Right
    <2>4. hydrate[i][c].saw[f] = doc[f] => Right(i, f)'
      BY <1>6, <2>1 DEF Right
    <2>5. QED
      BY <1>5, <1>7, <1>8, <2>1, <2>3, <2>4 DEF Settling
  <1>11. QED
    BY <1>9, <1>10

\* On the other instances nothing changes.
LEMMA MemoryElsewhere ==
    ASSUME VaultTypeOK, NEW i \in Nodes, NEW c \in Cause,
           HydrateFails(i, c) \/ HydrateSets(i, c) \/ PluginSets(i, c),
           NEW j \in Nodes, j # i, NEW f \in DocField, Settling(j, f)
    PROVE  Settling(j, f)'
  <1> DEFINE over == [hydrate EXCEPT ![i][c] = Hydrated]
  <1>1. over \in [Nodes -> [Writer \cup {Opened} -> Hydration]] /\ over[j] = hydrate[j]
    BY NothingMade DEF VaultTypeOK, Cause
  <1>2. hydrate' = OutrunBy(i, over) /\ save' = Outrun(i) /\ UNCHANGED <<docKind, doc>>
    BY DEF HydrateFails, HydrateSets, PluginSets, Sets
  <1> HIDE DEF over
  <1>3. hydrate'[j] = hydrate[j]
    BY <1>1, <1>2, OutrunByIs
  <1>4. \A w \in Writer :
            /\ save'[w].stage = save[w].stage /\ save'[w].gives = save[w].gives
            /\ save[w].late => save'[w].late
    BY <1>2, OutrunIs
  <1>5. inMemory'[j] = inMemory[j] /\ (<<j, f>> \in excused => <<j, f>> \in excused')
    BY DEF HydrateFails, HydrateSets, PluginSets, Sets, VaultTypeOK
  <1>6. \A w \in Writer : Told(w)' = Told(w)
    BY <1>2 DEF Told
  <1>7. Elsewhere(j, f) => Elsewhere(j, f)'
    BY <1>2, <1>3, <1>4, <1>6 DEF Elsewhere
  <1>8. Coming(j, f) => Coming(j, f)'
    BY <1>2, <1>4, <1>7 DEF Coming
  <1>9. Right(j, f) => Right(j, f)'
    BY <1>2, <1>5 DEF Right
  <1>10. ReadWell(j, f)'
    BY <1>2, <1>3, <1>8 DEF ReadWell, Settling
  <1>11. SavedWell(j, f)'
    BY <1>2, <1>4, <1>7 DEF SavedWell, Settling
  <1>12. QED
    BY <1>8, <1>9, <1>10, <1>11 DEF Settling

\* Where a hydration failed all fields are excused, until something sets them.
LEMMA MemoryAfterFailure ==
    ASSUME VaultTypeOK, NEW i \in Nodes, NEW c \in Cause, HydrateFails(i, c), NEW f \in DocField
    PROVE  Settling(i, f)'
  <1> DEFINE over == [hydrate EXCEPT ![i][c] = Hydrated]
  <1>1. over \in [Nodes -> [Writer \cup {Opened} -> Hydration]]
    BY NothingMade DEF VaultTypeOK, Cause
  <1>2. hydrate' = OutrunBy(i, over) /\ save' = Outrun(i)
    BY DEF HydrateFails
  <1> HIDE DEF over
  <1>3. ASSUME NEW d \in Cause, hydrate'[i][d].stage = "read"
        PROVE  hydrate'[i][d].late
    <2>1. /\ OutrunBy(i, over)[i][d].stage = over[i][d].stage
          /\ over[i][d].stage = "read" => OutrunBy(i, over)[i][d].late
      BY <1>1, OutrunByAt
    <2>2. QED
      BY <1>2, <1>3, <2>1
  <1>4. \A w \in Writer : save'[w].stage = "wrote" /\ HomeOf[w] = i => save'[w].late
    BY <1>2, OutrunIs
  <1>5. <<i, f>> \in excused'
    BY DEF HydrateFails
  <1>6. QED
    BY <1>3, <1>4, <1>5 DEF Settling, Right, ReadWell, SavedWell

\* The other steps bring a hydration, or change nothing for the memory.
LEMMA MemoryAfterOthers ==
    ASSUME VaultTypeOK, docKind \in {"settings", "plugin"},
           \/ \E w \in Writer, update \in Updates, blind \in BOOLEAN : SaveReads(w, update, blind)
           \/ \E w \in Writer : SaveFails(w) \/ SaveAnswers(w)
           \/ \E k \in Nodes : VaultOpens(k) \/ \E c \in Cause :
                 HydrateReads(k, c) \/ \E blind \in BOOLEAN : PluginReads(k, c, blind),
           NEW i \in Nodes, NEW f \in DocField, Settling(i, f)
    PROVE  Settling(i, f)'
  <1>1. ASSUME UNCHANGED <<docKind, doc, inMemory, excused>>, hydrate'[i] = hydrate[i],
               \A w \in Writer : \/ save'[w] = save[w]
                                 \/ save'[w].stage # "wrote" /\ save[w].stage # "wrote"
        PROVE  Settling(i, f)'
    BY <1>1, NothingNewHere
  <1>2. ASSUME NEW w \in Writer, NEW update \in Updates, NEW blind \in BOOLEAN, SaveReads(w, update, blind)
        PROVE  Settling(i, f)'
    <2>1. /\ \A v \in Writer : v # w => save'[v] = save[v]
          /\ save[w].stage = "none" /\ save'[w].stage = "read"
          /\ UNCHANGED <<docKind, doc, inMemory, hydrate, excused>>
      BY <1>2, SaveReadsIs
    <2>2. QED
      BY <1>1, <2>1
  <1>3. ASSUME NEW w \in Writer, SaveFails(w)
        PROVE  Settling(i, f)'
    <2>1. save' = [save EXCEPT ![w] = Saved] /\ save[w].stage = "read"
          /\ UNCHANGED <<docKind, doc, inMemory, hydrate, excused>>
      BY <1>3 DEF SaveFails
    <2>2. save'[w].stage = "done" /\ \A v \in Writer : v # w => save'[v] = save[v]
      BY <2>1, SavedIs
    <2>3. QED
      BY <1>1, <2>1, <2>2
  <1>4. ASSUME NEW w \in Writer, SaveAnswers(w)
        PROVE  Settling(i, f)'
    <2>1. i \in Told(w) /\ w \in Cause /\ hydrate' = Tells(w)
      BY <1>4 DEF SaveAnswers, Told, Cause
    <2>2. hydrate'[i][w].stage = "told"
      BY <2>1, TellsIs
    <2>3. QED
      BY <2>1, <2>2, ElsewhereSettles DEF Elsewhere
  <1>5. ASSUME NEW k \in Nodes, NEW c \in Cause, \A j \in Nodes : j # k => hydrate'[j] = hydrate[j],
               Elsewhere(k, f)',
               UNCHANGED <<docKind, doc, inMemory, excused, save>>
        PROVE  Settling(i, f)'
    <2>1. CASE i = k
      BY <1>5, <2>1, ElsewhereSettles
    <2>2. CASE i # k
      BY <1>1, <1>5, <2>2
    <2>3. QED
      BY <2>1, <2>2
  <1>0. \A k \in Nodes, c \in Cause : hydrate[k][c] \in Hydration
    BY DEF VaultTypeOK, Cause
  <1>6. ASSUME NEW k \in Nodes, VaultOpens(k)
        PROVE  Settling(i, f)'
    <2> DEFINE h == [hydrate[k][Opened] EXCEPT !.stage = "told"]
    <2>1. Opened \in Cause /\ hydrate[k][Opened] \in Hydration
      BY <1>0 DEF Cause
    <2>2. h \in Hydration /\ h.stage = "told"
      BY <2>1 DEF Hydration
    <2>3. hydrate' = [hydrate EXCEPT ![k][Opened] = h]
      BY <1>6, <2>1 DEF VaultOpens, VaultTypeOK
    <2>4. UNCHANGED <<docKind, doc, inMemory, excused, save>>
      BY <1>6 DEF VaultOpens
    <2> HIDE DEF h
    <2>5. hydrate'[k][Opened] = h /\ \A j \in Nodes : j # k => hydrate'[j] = hydrate[j]
      BY <2>1, <2>2, <2>3 DEF VaultTypeOK, Cause
    <2>6. Elsewhere(k, f)'
      BY <2>1, <2>2, <2>5 DEF Elsewhere
    <2>7. QED
      BY <1>5, <2>1, <2>4, <2>5, <2>6
  <1>7. ASSUME NEW k \in Nodes, NEW c \in Cause, HydrateReads(k, c)
        PROVE  Settling(i, f)'
    <2> DEFINE h == [stage |-> "read", saw |-> doc, late |-> FALSE]
    <2>1. h \in Hydration /\ h.stage = "read" /\ h.saw = doc
      BY DEF Hydration, VaultTypeOK
    <2>2. hydrate' = [hydrate EXCEPT ![k][c] = h] /\ UNCHANGED <<docKind, doc, inMemory, excused, save>>
      BY <1>7 DEF HydrateReads
    <2> HIDE DEF h
    <2>3. hydrate'[k][c] = h /\ \A j \in Nodes : j # k => hydrate'[j] = hydrate[j]
      BY <2>1, <2>2 DEF VaultTypeOK, Cause
    <2>4. Elsewhere(k, f)'
      BY <2>1, <2>2, <2>3 DEF Elsewhere
    <2>5. QED
      BY <1>5, <2>2, <2>3, <2>4
  <1>8. ASSUME NEW k \in Nodes, NEW c \in Cause, NEW blind \in BOOLEAN, PluginReads(k, c, blind)
        PROVE  Settling(i, f)'
    <2> DEFINE h == [stage |-> "read", saw |-> IF blind THEN Nothing ELSE doc, late |-> blind]
    <2>1. (IF blind THEN Nothing ELSE doc) \in Contents
      BY NothingMade DEF VaultTypeOK
    <2>2. h \in Hydration /\ h.stage = "read" /\ (h.saw = doc \/ h.late)
      BY <2>1 DEF Hydration
    <2>3. docKind = "plugin" /\ hydrate' = [hydrate EXCEPT ![k][c] = h]
          /\ UNCHANGED <<docKind, doc, inMemory, excused, save>>
      BY <1>8 DEF PluginReads
    <2> HIDE DEF h
    <2>4. hydrate'[k][c] = h /\ \A j \in Nodes : j # k => hydrate'[j] = hydrate[j]
      BY <2>2, <2>3 DEF VaultTypeOK, Cause
    <2>5. Elsewhere(k, f)'
      BY <2>2, <2>3, <2>4 DEF Elsewhere
    <2>6. QED
      BY <1>5, <2>3, <2>4, <2>5
  <1>9. QED
    BY <1>2, <1>3, <1>4, <1>6, <1>7, <1>8

\* No step changes what the secret is.
LEMMA KindStays ==
    ASSUME VaultTypeOK, [VaultNext]_vaultVars
    PROVE  docKind' = docKind
  <1>1. ASSUME NEW w \in Writer, NEW update \in Updates, NEW blind \in BOOLEAN, SaveReads(w, update, blind)
        PROVE  docKind' = docKind
    BY <1>1, SaveReadsIs
  <1>2. ASSUME NEW w \in Writer, SaveWrites(w) \/ SaveFails(w) \/ SaveApplies(w) \/ SaveAnswers(w)
        PROVE  docKind' = docKind
    BY <1>2 DEF SaveWrites, SaveFails, SaveApplies, SaveAnswers
  <1>3. ASSUME NEW i \in Nodes, NEW c \in Cause,
               \/ VaultOpens(i) \/ HydrateReads(i, c) \/ HydrateFails(i, c) \/ HydrateSets(i, c)
               \/ PluginSets(i, c) \/ \E blind \in BOOLEAN : PluginReads(i, c, blind)
        PROVE  docKind' = docKind
    BY <1>3 DEF VaultOpens, HydrateReads, PluginReads, HydrateFails, HydrateSets, PluginSets, Sets
  <1>4. Opened \in Cause
    BY DEF Cause
  <1>5. QED
    BY <1>1, <1>2, <1>3, <1>4
       DEF VaultNext, vaultVars, Cause, ChangeConfig, UpdatePluginSettings, SetSecret, SetToken

\* A setting of the environment keeps its value: a save that may not change it is
\* refused when it begins, and a hydration skips it.
LEMMA EnvironmentStep ==
    ASSUME VaultTypeOK, EnvironmentInv, [VaultNext]_vaultVars
    PROVE  EnvironmentInv'
  <1>0. CASE docKind # "settings" /\ docKind' = docKind
    BY <1>0 DEF EnvironmentInv, EnvironmentWins
  <1>a. ASSUME docKind = "settings", docKind' = docKind, inMemory' = inMemory,
               \A w \in Writer : save'[w].stage \in {"read", "wrote"} =>
                   save[w].stage \in {"read", "wrote"} /\ save'[w].gives = save[w].gives
        PROVE  EnvironmentInv'
    BY <1>a DEF EnvironmentInv, EnvironmentWins, Unlocked
  <1>b. UNCHANGED docKind
    BY KindStays
  <1>1. ASSUME docKind = "settings", NEW w \in Writer, NEW update \in Updates, NEW blind \in BOOLEAN,
               Unlocked(HomeOf[w], update.gives), SaveReads(w, update, blind)
        PROVE  EnvironmentInv'
    <2>1. /\ save'[w].gives = update.gives /\ \A v \in Writer : v # w => save'[v] = save[v]
          /\ UNCHANGED <<docKind, inMemory>>
      BY <1>1 DEF SaveReads, VaultTypeOK
    <2>2. QED
      BY <1>1, <2>1 DEF EnvironmentInv, EnvironmentWins, Unlocked
  <1>2. ASSUME docKind = "settings", NEW w \in Writer, SaveWrites(w)
        PROVE  EnvironmentInv'
    <2>1. save[w].stage = "read" /\ UNCHANGED inMemory
      BY <1>2, SaveWritesIs
    <2>2. ASSUME NEW v \in Writer, save'[v].stage \in {"read", "wrote"}
          PROVE  save[v].stage \in {"read", "wrote"} /\ save'[v].gives = save[v].gives
      <3>1. CASE v = w
        BY <1>2, <2>1, <3>1, SaveWritesSaves
      <3>2. CASE v # w
        <4>1. save[v] \in Save
          BY DEF VaultTypeOK
        <4>2. save'[v] = IF save[v].stage = "read" /\ HomeOf[v] # HomeOf[w] THEN [save[v] EXCEPT !.late = TRUE]
                         ELSE save[v]
          BY <1>2, <3>2 DEF SaveWrites
        <4>3. QED
          BY <2>2, <4>1, <4>2 DEF Save
      <3>3. QED
        BY <3>1, <3>2
    <2>3. QED
      BY <1>2, <1>a, <1>b, <2>1, <2>2
  <1>3. ASSUME docKind = "settings", NEW w \in Writer, SaveFails(w) \/ SaveAnswers(w)
        PROVE  EnvironmentInv'
    <2>1. save' = [save EXCEPT ![w] = Saved] /\ UNCHANGED inMemory
      BY <1>3 DEF SaveFails, SaveAnswers
    <2>2. save'[w].stage = "done" /\ \A v \in Writer : v # w => save'[v] = save[v]
      BY <2>1, SavedIs
    <2>3. QED
      BY <1>3, <1>a, <1>b, <2>1, <2>2
  <1>4. ASSUME docKind = "settings", NEW w \in Writer, SaveApplies(w)
        PROVE  EnvironmentInv'
    <2>1. save' = [save EXCEPT ![w] = Saved] /\ save[w].stage = "wrote"
      BY <1>4 DEF SaveApplies
    <2>2. save'[w].stage = "done" /\ \A v \in Writer : v # w => save'[v] = save[v]
      BY <2>1, SavedIs
    <2>3. Unlocked(HomeOf[w], save[w].gives) /\ HomeOf[w] \in Nodes
      BY <1>4, <2>1, HomeIsANode DEF EnvironmentInv
    <2>4. ASSUME NEW i \in Nodes, NEW f \in DocField \ Unasked, <<i, f>> \in Locked
          PROVE  inMemory'[i][f] = inMemory[i][f]
      <3>1. ~(i = HomeOf[w] /\ f \in save[w].gives)
        BY <2>3, <2>4 DEF Unlocked
      <3>2. QED
        BY <1>4, <2>3, <2>4, <3>1 DEF SaveApplies, VaultTypeOK
    <2>5. QED
      BY <1>4, <1>b, <2>2, <2>4 DEF EnvironmentInv, EnvironmentWins, Unlocked
  <1>5. ASSUME docKind = "settings", NEW i \in Nodes, NEW c \in Cause, HydrateFails(i, c)
        PROVE  EnvironmentInv'
    <2>1. save' = Outrun(i) /\ UNCHANGED inMemory
      BY <1>5 DEF HydrateFails
    <2>2. QED
      BY <1>5, <1>a, <1>b, <2>1, OutrunIs
  <1>6. ASSUME docKind = "settings", NEW i \in Nodes, NEW c \in Cause, HydrateSets(i, c)
        PROVE  EnvironmentInv'
    <2>1. save' = Outrun(i)
      BY <1>6 DEF HydrateSets, Sets
    <2>2. \A w \in Writer : save'[w].stage = save[w].stage /\ save'[w].gives = save[w].gives
      BY <2>1, OutrunIs
    <2>3. ASSUME NEW j \in Nodes, NEW f \in DocField \ Unasked, <<j, f>> \in Locked
          PROVE  inMemory'[j][f] = inMemory[j][f]
      <3>1. CASE j # i
        BY <1>6, <3>1 DEF HydrateSets, Sets, VaultTypeOK
      <3>2. CASE j = i
        BY <1>6, <2>3, <3>2 DEF HydrateSets, Sets, Skips, VaultTypeOK
      <3>3. QED
        BY <3>1, <3>2
    <2>4. QED
      BY <1>6, <1>b, <2>2, <2>3 DEF EnvironmentInv, EnvironmentWins, Unlocked
  <1>7. CASE docKind = "settings" /\ UNCHANGED <<docKind, inMemory, save>>
    BY <1>7, <1>a
  <1>8. QED
    BY <1>0, <1>b, <1>1, <1>2, <1>3, <1>4, <1>5, <1>6, <1>7
       DEF VaultNext, vaultVars, Cause, ChangeConfig, UpdatePluginSettings, SetSecret, SetToken,
           VaultOpens, HydrateReads, PluginReads, PluginSets

\* Every step keeps the invariant.
LEMMA VaultStep ==
    ASSUME VaultTypeOK, VaultInv, [VaultNext]_vaultVars
    PROVE  VaultInv'
  <1>1. SavesInv'
    BY SavesStep DEF VaultInv
  <1>2. docKind' = docKind
    BY KindStays
  <1>3. ASSUME docKind \in {"settings", "plugin"}, NEW i \in Nodes, NEW f \in DocField
        PROVE  Settling(i, f)'
    <2>1. Settling(i, f) /\ SavesInv
      BY <1>3 DEF VaultInv, MemoryInv
    <2>2. ASSUME NEW w \in Writer, SaveWrites(w)
          PROVE  Settling(i, f)'
      BY <1>3, <2>1, <2>2, MemoryAfterWrite
    <2>3. ASSUME NEW w \in Writer, SaveApplies(w)
          PROVE  Settling(i, f)'
      BY <2>1, <2>3, MemoryAfterApply
    <2>4. ASSUME NEW k \in Nodes, NEW c \in Cause, HydrateFails(k, c) \/ HydrateSets(k, c) \/ PluginSets(k, c)
          PROVE  Settling(i, f)'
      <3>1. CASE k # i
        BY <2>1, <2>4, <3>1, MemoryElsewhere
      <3>2. CASE k = i /\ HydrateFails(k, c)
        BY <3>2, MemoryAfterFailure
      <3>3. CASE k = i /\ HydrateSets(k, c)
        <4> DEFINE set == {g \in DocField : ~Skips(i, g, hydrate[i][c].saw[g])}
        <4>1. docKind = "settings" /\ Sets(i, c, set) /\ set \in SUBSET DocField
          BY <3>3 DEF HydrateSets
        <4>2. f \notin set => Skips(i, f, hydrate[i][c].saw[f])
          OBVIOUS
        <4> HIDE DEF set
        <4>3. QED
          BY <1>3, <2>1, <4>1, <4>2, MemoryAfterSet
      <3>4. CASE k = i /\ PluginSets(k, c)
        BY <1>3, <2>1, <3>4, MemoryAfterSet DEF PluginSets
      <3>5. QED
        BY <2>4, <3>1, <3>2, <3>3, <3>4
    <2>5. CASE UNCHANGED vaultVars
      BY <2>1, <2>5 DEF vaultVars, Settling, Right, Coming, Elsewhere, ReadWell, SavedWell, Told
    <2>6. QED
      BY <1>3, <2>1, <2>2, <2>3, <2>4, <2>5, MemoryAfterOthers
         DEF VaultNext, Cause, ChangeConfig, UpdatePluginSettings, SetSecret, SetToken
  <1>5. EnvironmentInv'
    BY EnvironmentStep DEF VaultInv
  <1>4. QED
    BY <1>1, <1>2, <1>3, <1>5 DEF VaultInv, MemoryInv

\* The secret, what is read of it and what instances keep of it have their
\* types for any writers, fields and instances.
THEOREM VaultTypeCorrect == VaultSpec => []VaultTypeOK
  <1>1. VaultInit => VaultTypeOK
    <2> SUFFICES ASSUME VaultInit PROVE VaultTypeOK
      OBVIOUS
    <2>1. Nothing \in Contents /\ NoHydration \in Hydration /\ Hydrated \in Hydration
      BY NothingMade DEF NoHydration, Hydration
    <2>2. NoSave \in Save /\ Saved \in Save
      BY NothingMade DEF NoSave, Saved, Save
    <2>3. QED
      BY <2>1, <2>2, UpdatesAssumption DEF VaultInit, VaultTypeOK
  <1>2. QED
    BY <1>1, VaultTypeStep, PTL DEF VaultSpec

\* However saves and hydrations of any number of instances overlap, a save
\* leaves the other fields alone unless it read nothing or was outrun, and at
\* rest an instance has in its memory what is in the secret, but for the
\* fields that the property leaves out; a setting of its environment never
\* changes there.
THEOREM SettingsCorrect == VaultSpec => []SettingsSettle
  <1>1. VaultInit => VaultInv
    <2> SUFFICES ASSUME VaultInit PROVE VaultInv
      OBVIOUS
    <2>6. NoSave.stage = "none" /\ Saved.stage = "done"
      BY DEF NoSave, Saved
    <2>1. \A w \in Writer : save[w].stage \in {"none", "done"}
      BY <2>6 DEF VaultInit
    <2>2. \A i \in Nodes, c \in Cause : hydrate[i][c].stage \in {"none", "done"}
      BY DEF VaultInit, NoHydration, Hydrated, Cause
    <2>3. SavesInv
      BY <2>1 DEF VaultInit, SavesInv
    <2>4. \A i \in Nodes, f \in DocField : Settling(i, f)
      BY <2>1, <2>2 DEF VaultInit, Settling, Right, ReadWell, SavedWell
    <2>7. EnvironmentInv
      BY <2>1 DEF EnvironmentInv, EnvironmentWins, VaultInit, Nothing
    <2>5. QED
      BY <2>3, <2>4, <2>7 DEF VaultInv, MemoryInv
  <1>2. VaultInv => SettingsSettle
    <2>1. ASSUME VaultInv, AllQuiet, docKind \in {"settings", "plugin"}, NEW i \in Nodes, NEW f \in DocField
          PROVE  Right(i, f)
      BY <2>1 DEF VaultInv, MemoryInv, Settling, Coming, Elsewhere, AllQuiet, Cause
    <2>2. QED
      BY <2>1 DEF VaultInv, SavesInv, EnvironmentInv, SettingsSettle, Right
  <1>3. QED
    BY <1>1, <1>2, VaultTypeCorrect, VaultStep, PTL DEF VaultSpec

-----------------------------------------------------------------------------
(* RollingRestart: every host has so many ticks until it goes; whoever has *)
(* not restarted yet is a stagger away from the others, and when the       *)
(* leader goes they are all back.                                          *)

\* A host that has its restart behind it, or no request to restart.
Rested(h) ==
    /\ stage[h] = "up" /\ ~ends[h] /\ keeps[h] /\ timer[h] = 0
    /\ unheard[h] = {} /\ naps[h] = {}

\* A host that will be up for another x ticks, as far as its time is known.
Waits(h, x) ==
    /\ stage[h] = "up" /\ ~ends[h] /\ keeps[h] /\ timer[h] = 0
    /\ \/ unheard[h] = {1} /\ naps[h] = {} /\ x = Turn(orders[1], h) * Stagger + DrainTime
       \/ /\ unheard[h] = {}
          /\ \E l \in Nat : naps[h] = {[of |-> 1, left |-> l]} /\ x = l + DrainTime

\* A host that drains, or has gone -x ticks ago.
Leaving(h, x) ==
    /\ unheard[h] = {} /\ naps[h] = {}
    /\ \/ stage[h] = "drains" /\ ~ends[h] /\ keeps[h] /\ timer[h] = x
       \/ stage[h] \in {"hands over", "leaves"} /\ timer[h] = 0 /\ x = 0
       \/ stage[h] = "boots" /\ timer[h] = x + BootTime /\ x <= 0

Past(h) == stage[h] \notin {"up", "drains"}

\* Where the hosts are, and that no two are a stagger close.
AtInv(d) == \A h \in Host : Rested(h) \/ Waits(h, d[h]) \/ Leaving(h, d[h])

SpreadInv(d) == \A g, h \in Host :
    orders[1][g] < orders[1][h] /\ ~Rested(g) /\ ~Rested(h) => d[h] - d[g] >= Stagger

\* When the leader at the time of the request goes the others are back.
LastInv(first) == Past(first) \/ Rested(first) => \A g \in Host \ {first} : Rested(g)

\* It leads until then; nobody, or one who stays, does afterwards.
LeadInv(first) ==
    \/ /\ moves = 0 /\ lead = first /\ ~Rested(first)
       /\ stage[first] # "boots" /\ (stage[first] = "leaves" => keeps[first])
    \/ moves = 0 /\ lead = Nobody /\ (Past(first) \/ Rested(first))
    \/ moves = 1 /\ lead \in Host /\ Rested(lead)

Quiet == orders = <<>> /\ lead \in Host /\ moves = 0 /\ \A h \in Host : Rested(h)

Rolling(first, d) ==
    /\ orders = <<Order(Host, first)>>
    /\ AtInv(d) /\ SpreadInv(d) /\ LastInv(first) /\ LeadInv(first)

RollInv ==
    regular /\ BootTime < Stagger => Quiet \/ \E first \in Host, d \in [Host -> Int] : Rolling(first, d)

RestartInv == RestartTypeOK /\ RollInv

-----------------------------------------------------------------------------
(* The list.                                                               *)

LEMMA TimesAre ==
    ASSUME RestartAssumption
    PROVE  /\ Stagger \in Nat /\ DrainTime \in Nat /\ BootTime \in Nat /\ Requests \in Nat /\ Stops \in Nat
           /\ DrainTime \in 0..(DrainTime + BootTime) /\ BootTime \in 0..(DrainTime + BootTime)
           /\ 0 \in 0..(DrainTime + BootTime)
           /\ IsFiniteSet(Host) /\ Nobody \notin Host /\ \A h \in Host : h \in Nat
  BY DEF RestartAssumption, Nobody

\* What a list looks like, whoever draws it up.
LEMMA OrderMade ==
    ASSUME RestartAssumption, NEW view \in SUBSET Host, NEW leader
    PROVE  Order(view, leader) \in List
  <1>1. IsFiniteSet(Host) /\ IsFiniteSet(view)
    BY FS_Subset DEF RestartAssumption
  <1>2. Cardinality(Host) \in Nat /\ Cardinality(view) \in Nat /\ Cardinality(view) <= Cardinality(Host)
    BY <1>1, FS_Subset, FS_CardinalityType
  <1>3. ASSUME NEW h \in view PROVE Order(view, leader)[h] \in 0..Cardinality(Host)
    <2> DEFINE before == {g \in view \ {leader} : g < h}
    <2>1. Cardinality(before) \in Nat /\ Cardinality(before) <= Cardinality(view)
      <3>1. before \in SUBSET view
        OBVIOUS
      <3> HIDE DEF before
      <3>2. QED
        BY <1>1, <3>1, FS_Subset, FS_CardinalityType
    <2>2. Cardinality(view) > 0
      BY <1>1, <1>2, FS_EmptySet
    <2>3. Order(view, leader)[h] = IF h = leader THEN Cardinality(view) - 1 ELSE Cardinality(before)
      BY DEF Order
    <2> HIDE DEF before
    <2>4. QED
      BY <1>2, <2>1, <2>2, <2>3
  <1>4. Order(view, leader) \in [view -> 0..Cardinality(Host)]
    BY <1>3 DEF Order
  <1>5. QED
    BY <1>4 DEF List

\* The list of one who knows all: every host has a place of its own, and the
\* leader the last.
LEMMA OrderOf ==
    ASSUME RestartAssumption, NEW first \in Host
    PROVE  /\ DOMAIN Order(Host, first) = Host
           /\ \A h \in Host : Order(Host, first)[h] \in Nat
           /\ \A h \in Host : Turn(Order(Host, first), h) = Order(Host, first)[h]
           /\ \A h \in Host : h # first => Order(Host, first)[h] < Order(Host, first)[first]
           /\ \A g, h \in Host : g # h =>
                 Order(Host, first)[g] < Order(Host, first)[h] \/ Order(Host, first)[h] < Order(Host, first)[g]
  <1> DEFINE o == Order(Host, first)
             others == Host \ {first}
             before(h) == {g \in others : g < h}
             n == Cardinality(Host)
  <1>1. DOMAIN o = Host /\ o[first] = n - 1 /\ \A h \in Host : h # first => o[h] = Cardinality(before(h))
    BY DEF Order
  <1>2. IsFiniteSet(others) /\ Cardinality(others) = n - 1 /\ n \in Nat /\ n - 1 \in Nat
    <2>1. IsFiniteSet(Host)
      BY TimesAre
    <2>2. IsFiniteSet(others) /\ Cardinality(others) = n - 1
      BY <2>1, FS_RemoveElement
    <2>3. n \in Nat /\ Cardinality(others) \in Nat
      <3> HIDE DEF others
      <3> QED BY <2>1, <2>2, FS_CardinalityType
    <2>4. QED
      <3> HIDE DEF others, n
      <3> QED BY <2>2, <2>3
  <1>3. ASSUME NEW S, NEW T, T \subseteq S, S # T, IsFiniteSet(S)
        PROVE  Cardinality(T) < Cardinality(S) /\ Cardinality(T) \in Nat /\ IsFiniteSet(T)
    BY <1>3, FS_Subset, FS_CardinalityType
  <1>4. ASSUME NEW h \in Host, h # first PROVE o[h] < n - 1 /\ o[h] \in Nat /\ IsFiniteSet(before(h))
    <2>1. before(h) \subseteq others /\ h \in others /\ h \notin before(h)
      BY <1>4, TimesAre
    <2> HIDE DEF before, others, o
    <2>2. QED
      BY <1>1, <1>2, <1>3, <1>4, <2>1
  <1>5. ASSUME NEW g \in Host, NEW h \in Host, g # first, h # first, g < h PROVE o[g] < o[h]
    <2>1. before(g) \subseteq before(h) /\ g \in before(h) /\ g \notin before(g)
      <3>1. g \in Nat /\ h \in Nat /\ ~(g < g)
        BY TimesAre
      <3>2. \A x \in others : x \in Nat
        BY TimesAre
      <3>3. \A x \in others : x < g => x < h
        BY <1>5, <3>1, <3>2
      <3>4. g \in others
        BY <1>5
      <3> HIDE DEF others
      <3>5. QED
        BY <1>5, <3>1, <3>3, <3>4
    <2> HIDE DEF before, o
    <2>2. QED
      BY <1>1, <1>3, <1>4, <1>5, <2>1
  <1>6. \A g, h \in Host : g # h => g < h \/ h < g
    BY TimesAre
  <1> HIDE DEF o
  <1>7. ASSUME NEW g \in Host, NEW h \in Host, g # h PROVE o[g] < o[h] \/ o[h] < o[g]
    BY <1>1, <1>4, <1>5, <1>6, <1>7
  <1>8. \A h \in Host : Turn(o, h) = o[h]
    BY <1>1 DEF Turn
  <1>9. QED
    BY <1>1, <1>2, <1>4, <1>7, <1>8 DEF o

\* Places apart are staggers apart.
LEMMA StaggersApart ==
    ASSUME NEW a \in Nat, NEW b \in Nat, NEW s \in Nat, a < b
    PROVE  b * s - a * s >= s
  <1>1. PICK k \in Nat : b = a + 1 + k
    <2>1. b - a - 1 \in Nat /\ b = a + 1 + (b - a - 1)
      OBVIOUS
    <2>2. QED
      BY <2>1
  <1>2. b * s = a * s + s + k * s
    BY <1>1
  <1>3. k * s \in Nat /\ a * s \in Nat
    OBVIOUS
  <1>4. QED
    BY <1>2, <1>3
-----------------------------------------------------------------------------
(* Types.                                                                  *)

Stages5 == {"up", "drains", "hands over", "leaves", "boots"}
Time == 0..(DrainTime + BootTime)

LEMMA RestartTypes ==
    ASSUME RestartAssumption, RestartTypeOK, NEW h \in Host
    PROVE  /\ stage[h] \in Stages5 /\ timer[h] \in Nat /\ ends[h] \in BOOLEAN /\ keeps[h] \in BOOLEAN
           /\ naps[h] \in SUBSET Nap /\ unheard[h] \in SUBSET DOMAIN orders
           /\ Len(orders) \in Nat /\ moves \in Nat /\ stops \in Nat
  <1>1. Len(orders) \in Nat
    <2>1. orders \in Seq(List)
      BY DEF RestartTypeOK
    <2>2. QED
      BY <2>1
  <1>2. timer[h] \in Nat /\ stops \in Nat
    <2>1. timer[h] \in 0..(DrainTime + BootTime) /\ stops \in 0..Stops
      BY DEF RestartTypeOK
    <2>2. QED
      BY <2>1, TimesAre
  <1>3. QED
    BY <1>1, <1>2 DEF RestartTypeOK, Stages5

\* A signal, and the end of a process.
LEMMA SigtermTypes ==
    ASSUME RestartAssumption, RestartTypeOK, NEW h \in Host, NEW napsLeft \in [Host -> SUBSET Nap],
           Sigterm(h, napsLeft) \/ ProcessEnds(h)
    PROVE  /\ stage' \in [Host -> Stages5] /\ timer' \in [Host -> Time]
           /\ naps' \in [Host -> SUBSET Nap] /\ unheard' \in [Host -> SUBSET DOMAIN orders]
  <1>1. /\ stage \in [Host -> Stages5] /\ timer \in [Host -> Time]
        /\ naps \in [Host -> SUBSET Nap] /\ unheard \in [Host -> SUBSET DOMAIN orders]
        /\ DrainTime \in Time /\ BootTime \in Time /\ 0 \in Time
    BY TimesAre DEF RestartTypeOK, Stages5, Time
  <1>2. CASE ProcessEnds(h)
    BY <1>1, <1>2 DEF ProcessEnds, Stages5
  <1>3. CASE ~ProcessEnds(h)
    <2>1. Sigterm(h, napsLeft)
      BY <1>3
    <2>2. naps' = napsLeft /\ unheard' = unheard
      BY <1>3, <2>1 DEF Sigterm
    <2>3. \/ stage' = [stage EXCEPT ![h] = "drains"] /\ timer' = [timer EXCEPT ![h] = DrainTime]
          \/ stage' = [stage EXCEPT ![h] = "leaves"] /\ timer' = [timer EXCEPT ![h] = 0]
      BY <1>3, <2>1 DEF Sigterm
    <2>4. stage' \in [Host -> Stages5] /\ timer' \in [Host -> Time]
      BY <1>1, <2>3 DEF Stages5
    <2>5. QED
      BY <1>1, <2>2, <2>4
  <1>4. QED
    BY <1>2, <1>3

LEMMA ReleaseTypes ==
    ASSUME RestartTypeOK, NEW h \in Host, NEW released \in BOOLEAN, LeaseReleased(h, released)
    PROVE  lead' \in Host \cup {Nobody} /\ regular' \in BOOLEAN
  BY DEF RestartTypeOK, LeaseReleased

LEMMA TurnType ==
    ASSUME RestartAssumption, NEW order \in List, NEW h
    PROVE  Turn(order, h) \in Nat /\ Turn(order, h) * Stagger \in Nat
  <1>1. PICK view \in SUBSET Host : order \in [view -> 0..Cardinality(Host)]
    BY DEF List
  <1>2. Cardinality(view) \in Nat /\ Cardinality(Host) \in Nat
    BY FS_Subset, FS_CardinalityType DEF RestartAssumption
  <1>3. Turn(order, h) \in Nat
    <2>1. DOMAIN order = view /\ \A g \in view : order[g] \in Nat
      BY <1>1, <1>2
    <2>2. QED
      BY <1>2, <2>1 DEF Turn
  <1>4. Stagger \in Nat
    BY TimesAre
  <1> HIDE DEF Turn
  <1>5. QED
    BY <1>3, <1>4

\* Every step keeps the types.
LEMMA RestartTypesKept ==
    ASSUME RestartAssumption, RestartTypeOK, [RestartNext]_restartVars
    PROVE  RestartTypeOK'
  <1>0. /\ stage \in [Host -> Stages5] /\ timer \in [Host -> Time]
        /\ ends \in [Host -> BOOLEAN] /\ keeps \in [Host -> BOOLEAN]
        /\ naps \in [Host -> SUBSET Nap] /\ unheard \in [Host -> SUBSET DOMAIN orders]
        /\ orders \in Seq(List) /\ Len(orders) \in Nat /\ Len(orders) <= Requests
        /\ stops \in 0..Stops /\ moves \in Nat /\ lead \in Host \cup {Nobody} /\ regular \in BOOLEAN
        /\ DrainTime \in Nat /\ BootTime \in Nat /\ Requests \in Nat /\ Stops \in Nat
    <2>1. orders \in Seq(List) /\ Len(orders) <= Requests
      BY DEF RestartTypeOK
    <2>2. Len(orders) \in Nat
      BY <2>1
    <2>3. QED
      BY <2>1, <2>2, TimesAre DEF RestartTypeOK, Stages5, Time
  <1>1. ASSUME NEW h \in Host, NEW view \in SUBSET Host \ {{}}, NEW leader \in Host \cup {Nobody},
               RequestRestart(h, view, leader)
        PROVE  RestartTypeOK'
    <2>1. /\ orders' \in Seq(List) /\ Len(orders') = Len(orders) + 1
          /\ DOMAIN orders \subseteq DOMAIN orders' /\ Len(orders) + 1 \in DOMAIN orders'
      <3>1. Order(view, leader) \in List
        BY OrderMade
      <3>2. orders' = Append(orders, Order(view, leader))
        BY <1>1 DEF RequestRestart
      <3> HIDE DEF List, Order
      <3>3. QED
        BY <1>0, <3>1, <3>2
    <2>2. Len(orders') <= Requests
      BY <1>0, <1>1, <2>1 DEF RequestRestart
    <2>3. unheard' \in [Host -> SUBSET DOMAIN orders']
      BY <1>0, <1>1, <2>1 DEF RequestRestart
    <2>4. regular' \in BOOLEAN
      BY <1>0, <1>1 DEF RequestRestart
    <2>5. QED
      BY <1>0, <1>1, <2>1, <2>2, <2>3, <2>4 DEF RequestRestart, RestartTypeOK, Stages5, Time
  <1>2. ASSUME NEW h \in Host, NEW r \in Asked, OnRestartRequested(h, r) PROVE RestartTypeOK'
    <2>1. orders[r] \in List
      BY <1>0, <1>2 DEF OnRestartRequested
    <2>2. [of |-> r, left |-> Turn(orders[r], h) * Stagger] \in Nap
      <3>1. Turn(orders[r], h) * Stagger \in Nat
        BY <2>1, TurnType
      <3> HIDE DEF Turn
      <3>2. QED
        BY <3>1 DEF Nap
    <2>3. naps' \in [Host -> SUBSET Nap]
      <3> DEFINE nap == [of |-> r, left |-> Turn(orders[r], h) * Stagger]
      <3>1. naps' = [naps EXCEPT ![h] = naps[h] \cup {nap}]
        BY <1>2 DEF OnRestartRequested
      <3> HIDE DEF nap
      <3>2. QED
        BY <1>0, <2>2, <3>1 DEF nap
    <2>4. unheard' \in [Host -> SUBSET DOMAIN orders]
      BY <1>0, <1>2 DEF OnRestartRequested
    <2>5. QED
      BY <1>0, <1>2, <2>3, <2>4 DEF OnRestartRequested, RestartTypeOK, Stages5, Time
  <1>3. ASSUME NEW h \in Host, WakesUp(h) PROVE RestartTypeOK'
    <2>1. PICK nap \in naps[h] : Sigterm(h, [naps EXCEPT ![h] = @ \ {nap}])
      BY <1>3 DEF WakesUp
    <2>2. [naps EXCEPT ![h] = @ \ {nap}] \in [Host -> SUBSET Nap]
      BY <1>0
    <2>3. QED
      BY <1>0, <1>3, <2>1, <2>2, SigtermTypes DEF WakesUp, RestartTypeOK, Stages5, Time
  <1>4. ASSUME NEW h \in Host, OperatorStops(h) PROVE RestartTypeOK'
    <2>0. stops < Stops /\ stops' = stops + 1 /\ regular' = FALSE
      BY <1>4 DEF OperatorStops
    <2>1. stops' \in 0..Stops /\ regular' \in BOOLEAN
      <3>1. stops \in 0..Stops /\ Stops \in Nat
        BY <1>0
      <3>2. stops + 1 \in 0..Stops
        BY <2>0, <3>1
      <3>3. QED
        BY <2>0, <3>2
    <2>2. QED
      BY <1>0, <1>4, <2>1, SigtermTypes DEF OperatorStops, RestartTypeOK, Stages5, Time
  <1>5. ASSUME NEW h \in Host, DrainEnds(h) PROVE RestartTypeOK'
    BY <1>0, <1>5 DEF DrainEnds, RestartTypeOK, Stages5, Time
  <1>6. ASSUME NEW h \in Host, Boots(h) PROVE RestartTypeOK'
    BY <1>0, <1>6 DEF Boots, RestartTypeOK, Stages5, Time
  <1>7. ASSUME NEW h \in Host, TakesLead(h) PROVE RestartTypeOK'
    <2>1. moves' \in Nat /\ lead' \in Host \cup {Nobody}
      BY <1>0, <1>7 DEF TakesLead
    <2>2. QED
      BY <1>0, <1>7, <2>1 DEF TakesLead, RestartTypeOK, Stages5, Time
  <1>8. ASSUME NEW h \in Host, NEW released \in BOOLEAN, HandsOver(h, released) PROVE RestartTypeOK'
    BY <1>0, <1>8, ReleaseTypes DEF HandsOver, RestartTypeOK, Stages5, Time
  <1>9. ASSUME NEW h \in Host, NEW released \in BOOLEAN, ShutsDown(h, released) PROVE RestartTypeOK'
    <2>1. lead' \in Host \cup {Nobody} /\ regular' \in BOOLEAN
      BY <1>0, <1>9, ReleaseTypes DEF ShutsDown
    <2>2. ends' \in [Host -> BOOLEAN]
      BY <1>0, <1>9 DEF ShutsDown
    <2>3. ProcessEnds(h)
      BY <1>9 DEF ShutsDown
    <2>4. QED
      BY <1>0, <1>9, <2>1, <2>2, <2>3, SigtermTypes DEF ShutsDown, RestartTypeOK, Stages5, Time
  <1>10. ASSUME LeaseRunsOut PROVE RestartTypeOK'
    BY <1>0, <1>10 DEF LeaseRunsOut, RestartTypeOK, Stages5, Time
  <1>11. ASSUME RestartTicks PROVE RestartTypeOK'
    <2>1. timer' \in [Host -> Time]
      <3>1. \A x \in Time : x > 0 => x - 1 \in Time
        BY <1>0 DEF Time
      <3>2. 0 \in Time
        BY <1>0 DEF Time
      <3>3. \A h \in Host : timer[h] \in Time
        BY <1>0
      <3>4. timer' = [h \in Host |-> IF timer[h] > 0 THEN timer[h] - 1 ELSE 0]
        BY <1>11 DEF RestartTicks
      <3> HIDE DEF Time
      <3>5. QED
        BY <3>1, <3>2, <3>3, <3>4
    <2>2. naps' \in [Host -> SUBSET Nap]
      <3>1. ASSUME NEW h \in Host, NEW nap \in naps[h] PROVE [nap EXCEPT !.left = @ - 1] \in Nap
        <4>1. nap \in Nap /\ nap.left # 0
          BY <1>0, <1>11, <3>1 DEF RestartTicks, Due
        <4>2. QED
          BY <4>1 DEF Nap
      <3> HIDE DEF Nap
      <3>2. QED
        BY <1>11, <3>1 DEF RestartTicks
    <2>3. QED
      BY <1>0, <1>11, <2>1, <2>2 DEF RestartTicks, RestartTypeOK, Stages5, Time
  <1>12. CASE UNCHANGED restartVars
    BY <1>0, <1>12 DEF restartVars, RestartTypeOK, Stages5, Time
  <1>13. QED
    BY <1>1, <1>2, <1>3, <1>4, <1>5, <1>6, <1>7, <1>8, <1>9, <1>10, <1>11, <1>12 DEF RestartNext
-----------------------------------------------------------------------------
(* Steps of one host.                                                      *)

\* What is read of a host is the same.
Same(g) ==
    /\ stage'[g] = stage[g] /\ timer'[g] = timer[g] /\ ends'[g] = ends[g] /\ keeps'[g] = keeps[g]
    /\ naps'[g] = naps[g] /\ unheard'[g] = unheard[g]

LEMMA SameHost ==
    ASSUME NEW g, Same(g), orders' = orders, NEW x
    PROVE  /\ Rested(g)' <=> Rested(g)
           /\ Waits(g, x) => Waits(g, x)'
           /\ Leaving(g, x) => Leaving(g, x)'
           /\ Past(g)' <=> Past(g)
  BY DEF Same, Rested, Waits, Leaving, Past, Turn

LEMMA SameHosts ==
    ASSUME NEW first \in Host, NEW d \in [Host -> Int],
           UNCHANGED <<stage, timer, ends, keeps, naps, unheard, orders>>
    PROVE  /\ \A h \in Host : (Rested(h)' <=> Rested(h)) /\ (Past(h)' <=> Past(h))
           /\ AtInv(d) => AtInv(d)'
           /\ SpreadInv(d) => SpreadInv(d)'
           /\ LastInv(first) => LastInv(first)'
  <1>1. \A h \in Host : Same(h)
    BY DEF Same
  <1>2. \A h \in Host : (Rested(h)' <=> Rested(h)) /\ (Past(h)' <=> Past(h))
    BY <1>1, SameHost
  <1>3. \A x : \A h \in Host : (Waits(h, x) => Waits(h, x)') /\ (Leaving(h, x) => Leaving(h, x)')
    BY <1>1, SameHost
  <1>4. AtInv(d) => AtInv(d)'
    BY <1>2, <1>3 DEF AtInv
  <1>5. (SpreadInv(d) => SpreadInv(d)') /\ (LastInv(first) => LastInv(first)')
    BY <1>2 DEF SpreadInv, LastInv
  <1>6. QED
    BY <1>2, <1>4, <1>5

\* When a host has gone, the others that have not are more than a stagger away:
\* whoever should go before it is back, and boots within the stagger.
LEMMA OthersRest ==
    ASSUME RestartAssumption, RestartTypeOK, BootTime < Stagger,
           NEW first \in Host, NEW d \in [Host -> Int], orders = <<Order(Host, first)>>,
           AtInv(d), SpreadInv(d), ~Rested(first), d[first] <= 0
    PROVE  \A g \in Host \ {first} : Rested(g)
  <1> SUFFICES ASSUME NEW g \in Host, g # first, ~Rested(g) PROVE FALSE
    OBVIOUS
  <1>1. orders[1] = Order(Host, first)
    OBVIOUS
  <1>2. orders[1][g] < orders[1][first]
    BY <1>1, OrderOf
  <1>3. d[first] - d[g] >= Stagger
    BY <1>2 DEF SpreadInv
  <1>4. d[g] \in Int /\ d[first] \in Int /\ Stagger \in Nat /\ BootTime \in Nat /\ DrainTime \in Nat /\ timer[g] \in Nat
    BY TimesAre, RestartTypes
  <1>5. d[g] >= 0 - BootTime
    <2>1. CASE Waits(g, d[g])
      <3>1. CASE unheard[g] = {1}
        <4>1. d[g] = Turn(orders[1], g) * Stagger + DrainTime
          BY <2>1, <3>1 DEF Waits
        <4>2. Turn(orders[1], g) * Stagger \in Nat
          BY <1>1, OrderMade, TurnType
        <4> DEFINE y == Turn(orders[1], g) * Stagger
        <4> HIDE DEF y
        <4>3. QED
          BY <1>4, <4>1, <4>2 DEF y
      <3>2. CASE unheard[g] # {1}
        BY <1>4, <2>1, <3>2 DEF Waits
      <3>3. QED
        BY <3>1, <3>2
    <2>2. CASE Leaving(g, d[g])
      <3>1. timer[g] = d[g] \/ d[g] = 0 \/ timer[g] = d[g] + BootTime
        BY <2>2 DEF Leaving
      <3> DEFINE x == d[g]
                 y == timer[g]
                 z == BootTime
      <3>2. x \in Int /\ y \in Nat /\ z \in Nat /\ (y = x \/ x = 0 \/ y = x + z)
        BY <1>4, <3>1
      <3> HIDE DEF x, y, z
      <3>3. x >= 0 - z
        BY <3>2
      <3>4. QED
        BY <3>3 DEF x, z
    <2>3. QED
      BY <2>1, <2>2 DEF AtInv
  <1>6. QED
    BY <1>3, <1>4, <1>5

\* One host takes a step within its time.
LEMMA OneSteps ==
    ASSUME RestartAssumption, RestartTypeOK, BootTime < Stagger,
           NEW first \in Host, NEW d \in [Host -> Int], Rolling(first, d),
           NEW h \in Host, ~Rested(h), orders' = orders, \A g \in Host \ {h} : Same(g),
           Rested(h)' \/ Waits(h, d[h])' \/ Leaving(h, d[h])',
           Rested(h)' => Past(h)
    PROVE  AtInv(d)' /\ SpreadInv(d)' /\ LastInv(first)'
  <1>0. orders = <<Order(Host, first)>> /\ AtInv(d) /\ SpreadInv(d) /\ LastInv(first)
    BY DEF Rolling
  <1>1. \A g \in Host \ {h} : (Rested(g)' <=> Rested(g)) /\ (Past(g)' <=> Past(g))
    BY SameHost
  <1>2. AtInv(d)'
    <2> SUFFICES ASSUME NEW g \in Host PROVE (Rested(g) \/ Waits(g, d[g]) \/ Leaving(g, d[g]))'
      BY DEF AtInv
    <2>1. CASE g = h
      BY <2>1
    <2>2. CASE g # h
      BY <1>0, <2>2, SameHost DEF AtInv
    <2>3. QED
      BY <2>1, <2>2
  <1>3. SpreadInv(d)'
    BY <1>0, <1>1 DEF SpreadInv
  <1>4. LastInv(first)'
    <2>1. CASE h # first
      <3>1. ~Past(first) /\ ~Rested(first)
        BY <1>0, <2>1 DEF LastInv
      <3>2. QED
        BY <1>1, <2>1, <3>1 DEF LastInv
    <2>2. CASE h = first
      <3>1. CASE Past(first)
        BY <1>0, <1>1, <2>2, <3>1 DEF LastInv
      <3>2. CASE ~Past(first) /\ Past(first)'
        <4>1. Leaving(first, d[first])'
          BY <2>2, <3>2 DEF Past, Rested, Waits
        <4>2. d[first] <= 0
          <5>1. d[first] = 0 \/ d[first] <= 0
            BY <3>2, <4>1 DEF Past, Leaving
          <5>2. QED
            BY <5>1
        <4>3. \A g \in Host \ {first} : Rested(g)
          BY <1>0, <2>2, <4>2, OthersRest
        <4>4. QED
          BY <1>1, <2>2, <4>3 DEF LastInv
      <3>3. CASE ~Past(first) /\ ~Past(first)'
        BY <2>2, <3>3 DEF LastInv
      <3>4. QED
        BY <3>1, <3>2, <3>3
    <2>3. QED
      BY <2>1, <2>2
  <1>5. QED
    BY <1>2, <1>3, <1>4

\* The leadership stays where it is with a host that does not shut down.
LEMMA LeadStays ==
    ASSUME NEW first \in Host, LeadInv(first), UNCHANGED <<lead, moves>>,
           NEW h \in Host, ~Rested(h), \A g \in Host \ {h} : Same(g), orders' = orders,
           h = first =>
              /\ Past(h) => Past(h)' \/ Rested(h)'
              /\ lead = first => ~Rested(h)' /\ stage'[h] # "boots" /\ (stage'[h] = "leaves" => keeps'[h])
    PROVE  LeadInv(first)'
  <1>1. \A g \in Host \ {h} : (Rested(g)' <=> Rested(g)) /\ (Past(g)' <=> Past(g)) /\ Same(g)
    BY SameHost
  <1>2. CASE moves = 0 /\ lead = first
    BY <1>1, <1>2 DEF LeadInv, Same
  <1>3. CASE moves = 0 /\ lead = Nobody /\ (Past(first) \/ Rested(first))
    BY <1>1, <1>3 DEF LeadInv
  <1>4. CASE moves = 1 /\ lead \in Host /\ Rested(lead)
    BY <1>1, <1>4 DEF LeadInv
  <1>5. QED
    BY <1>2, <1>3, <1>4 DEF LeadInv
-----------------------------------------------------------------------------
(* The steps of a restart.                                                 *)

\* A request that knows all starts it.
LEMMA RequestRolls ==
    ASSUME RestartAssumption, RestartTypeOK, NEW h \in Host, NEW view, NEW leader, RequestRestart(h, view, leader),
           RollInv
    PROVE  RollInv'
  <1> SUFFICES ASSUME regular', BootTime < Stagger
               PROVE  \E first \in Host, d \in [Host -> Int] : Rolling(first, d)'
    BY DEF RollInv, Rolling, AtInv, SpreadInv, LastInv, LeadInv, Rested, Waits, Leaving, Past, Turn
  <1>1. regular /\ orders = <<>> /\ view = Host /\ leader = lead /\ Alive = Host
    BY DEF RequestRestart
  <1>2. Quiet
    BY <1>1 DEF RollInv, Rolling
  <1> PICK first \in Host : first = lead
    BY <1>2 DEF Quiet
  <1> DEFINE o == Order(Host, first)
  <1>3. orders' = <<o>> /\ orders'[1] = o
    BY <1>1 DEF RequestRestart
  <1>4. moves = 0 /\ \A g \in Host : Rested(g)
    BY <1>2 DEF Quiet
  <1>5. /\ \A g \in Host : o[g] \in Nat /\ Turn(o, g) = o[g]
        /\ \A g \in Host : o[g] * Stagger \in Nat /\ DrainTime \in Nat /\ Stagger \in Nat
    <2>1. \A g \in Host : o[g] \in Nat /\ Turn(o, g) = o[g]
      BY <1>4, OrderOf
    <2>2. o \in List
      BY OrderMade
    <2>3. \A g \in Host : Turn(o, g) * Stagger \in Nat
      BY <2>2, TurnType
    <2>4. QED
      BY <2>1, <2>3, TimesAre
  <1>6. PICK d \in [Host -> Int] : \A g \in Host : d[g] = o[g] * Stagger + DrainTime
    <2> DEFINE f == [g \in Host |-> o[g] * Stagger + DrainTime]
    <2>1. f \in [Host -> Int] /\ \A g \in Host : f[g] = o[g] * Stagger + DrainTime
      <3> HIDE DEF o
      <3> QED BY <1>5
    <2> HIDE DEF f, o
    <2>2. QED
      BY <2>1
  <1>7. unheard' = [g \in Host |-> {1}]
    <2>1. Len(orders) + 1 = 1
      BY <1>1
    <2>2. \A g \in Host : unheard[g] = {} /\ g \in Alive
      BY <1>1, <1>4 DEF Rested
    <2>3. QED
      BY <2>1, <2>2 DEF RequestRestart
  <1>8. UNCHANGED <<stage, timer, ends, keeps, naps, lead, moves>>
    BY DEF RequestRestart
  <1>9. AtInv(d)'
    <2> SUFFICES ASSUME NEW g \in Host PROVE Waits(g, d[g])'
      BY DEF AtInv
    <2>1. Rested(g)
      BY <1>4
    <2>2. d[g] = Turn(orders'[1], g) * Stagger + DrainTime
      BY <1>3, <1>5, <1>6
    <2> HIDE DEF o
    <2>3. QED
      BY <1>7, <1>8, <2>1, <2>2 DEF Rested, Waits
  <1>10. SpreadInv(d)'
    <2> SUFFICES ASSUME NEW g \in Host, NEW k \in Host, o[g] < o[k] PROVE d[k] - d[g] >= Stagger
      BY <1>3 DEF SpreadInv
    <2>1. o[k] * Stagger - o[g] * Stagger >= Stagger
      BY <1>5, StaggersApart
    <2> DEFINE x == o[k] * Stagger
               y == o[g] * Stagger
    <2>2. x \in Nat /\ y \in Nat /\ DrainTime \in Nat /\ Stagger \in Nat /\ x - y >= Stagger
      BY <1>5, <2>1
    <2>3. d[k] = x + DrainTime /\ d[g] = y + DrainTime
      BY <1>6
    <2> HIDE DEF x, y
    <2>4. QED
      BY <2>2, <2>3
  <1>11. \A g \in Host : ~Rested(g)' /\ ~Past(g)'
    BY <1>4, <1>7, <1>8 DEF Rested, Past
  <1>12. LastInv(first)' /\ LeadInv(first)'
    BY <1>4, <1>8, <1>11 DEF LastInv, LeadInv, Rested
  <1>13. Rolling(first, d)'
    BY <1>3, <1>8, <1>9, <1>10, <1>12 DEF Rolling
  <1>14. QED
    BY <1>13

\* Without a request nothing happens but that the leader keeps leading.
LEMMA QuietStays ==
    ASSUME RestartAssumption, RestartTypeOK, Quiet, [RestartNext]_restartVars, regular',
           \A h, view, leader : ~RequestRestart(h, view, leader)
    PROVE  Quiet'
  <1>1. \A h \in Host : Rested(h)
    BY DEF Quiet
  <1>2. lead \in Alive /\ lead # Nobody
    BY <1>1, TimesAre DEF Quiet, Alive, Rested
  <1>3. \A h \in Host : unheard[h] = {} /\ naps[h] = {} /\ stage[h] = "up" /\ timer[h] = 0
    BY <1>1 DEF Rested
  <1>4. ~RestartTicks /\ ~LeaseRunsOut
    <2>1. ~(0 > 0)
      OBVIOUS
    <2>2. QED
      BY <1>2, <1>3, <2>1 DEF RestartTicks, LeaseRunsOut
  <1>5. \A h \in Host : ~TakesLead(h) /\ ~WakesUp(h) /\ ~OperatorStops(h) /\ ~DrainEnds(h) /\ ~Boots(h)
    BY <1>2, <1>3 DEF TakesLead, WakesUp, OperatorStops, DrainEnds, Boots
  <1>6. \A h \in Host, released \in BOOLEAN : ~HandsOver(h, released) /\ ~ShutsDown(h, released)
    BY <1>3 DEF HandsOver, ShutsDown
  <1>7. \A h \in Host, r \in Asked : ~OnRestartRequested(h, r)
    BY <1>3 DEF OnRestartRequested
  <1>8. UNCHANGED restartVars
    BY <1>4, <1>5, <1>6, <1>7 DEF RestartNext
  <1>9. QED
    BY <1>8 DEF Quiet, Rested, restartVars

\* A step of a host that does not concern the leadership.
LEMMA HostRolls ==
    ASSUME RestartAssumption, RestartTypeOK, BootTime < Stagger,
           NEW first \in Host, NEW d \in [Host -> Int], Rolling(first, d),
           NEW h \in Host, ~Rested(h), UNCHANGED <<orders, lead, moves>>, \A g \in Host \ {h} : Same(g),
           Rested(h)' \/ Waits(h, d[h])' \/ Leaving(h, d[h])',
           Rested(h)' => Past(h), Past(h) => Past(h)' \/ Rested(h)',
           h = lead /\ h = first => ~Rested(h)' /\ stage'[h] # "boots" /\ (stage'[h] = "leaves" => keeps'[h])
    PROVE  Rolling(first, d)'
  <1>1. AtInv(d)' /\ SpreadInv(d)' /\ LastInv(first)'
    BY OneSteps
  <1>2. LeadInv(first)'
    BY LeadStays DEF Rolling
  <1>3. QED
    BY <1>1, <1>2 DEF Rolling

\* The leader that lets go has gone, and nobody leads.
LEMMA LeadGoes ==
    ASSUME RestartAssumption, RestartTypeOK, BootTime < Stagger,
           NEW first \in Host, NEW d \in [Host -> Int], Rolling(first, d),
           ~Rested(first), lead = first, lead' = Nobody, UNCHANGED <<orders, moves>>,
           \A g \in Host \ {first} : Same(g), Leaving(first, d[first])', Past(first)'
    PROVE  Rolling(first, d)'
  <1>1. AtInv(d)' /\ SpreadInv(d)' /\ LastInv(first)'
    BY OneSteps DEF Past, Rested
  <1>2. moves = 0
    BY DEF Rolling, LeadInv
  <1>3. QED
    BY <1>1, <1>2 DEF Rolling, LeadInv

\* The signal, to a host that it has been waiting for.
LEMMA SignalRolls ==
    ASSUME RestartAssumption, RestartTypeOK, BootTime < Stagger,
           NEW first \in Host, NEW d \in [Host -> Int], Rolling(first, d),
           NEW h \in Host, WakesUp(h)
    PROVE  Rolling(first, d)'
  <1>1. PICK nap \in naps[h] : nap.left = 0 /\ Sigterm(h, [naps EXCEPT ![h] = @ \ {nap}])
    BY DEF WakesUp
  <1>2. Waits(h, d[h]) /\ ~Rested(h)
    BY <1>1 DEF Rolling, AtInv, Rested, Leaving
  <1>3. /\ stage[h] = "up" /\ ~ends[h] /\ keeps[h] /\ timer[h] = 0
        /\ unheard[h] = {} /\ naps[h] = {nap} /\ d[h] = DrainTime
    <2>1. PICK l \in Nat : naps[h] = {[of |-> 1, left |-> l]} /\ d[h] = l + DrainTime /\ unheard[h] = {}
      BY <1>1, <1>2 DEF Waits
    <2>2. l = 0 /\ naps[h] = {nap}
      BY <1>1, <2>1
    <2>3. QED
      BY <1>2, <2>1, <2>2, TimesAre DEF Waits
  <1>4. /\ naps' = [naps EXCEPT ![h] = {}] /\ unheard' = unheard
        /\ \/ DrainTime > 0 /\ stage' = [stage EXCEPT ![h] = "drains"] /\ timer' = [timer EXCEPT ![h] = DrainTime]
           \/ DrainTime = 0 /\ stage' = [stage EXCEPT ![h] = "leaves"] /\ timer' = [timer EXCEPT ![h] = 0]
    <2> DEFINE left == [naps EXCEPT ![h] = @ \ {nap}]
    <2>1. left = [naps EXCEPT ![h] = {}]
      BY <1>3 DEF RestartTypeOK
    <2> HIDE DEF left
    <2>2. Sigterm(h, left) /\ stage[h] = "up"
      BY <1>1, <1>3 DEF left
    <2>3. QED
      BY <2>1, <2>2 DEF Sigterm
  <1>5. UNCHANGED <<ends, keeps, orders, lead, moves>>
    BY DEF WakesUp
  <1>6. Leaving(h, d[h])'
    <2>1. naps'[h] = {} /\ unheard'[h] = {} /\ ends'[h] = ends[h] /\ keeps'[h] = keeps[h]
      BY <1>3, <1>4, <1>5 DEF RestartTypeOK
    <2>2. \/ stage'[h] = "drains" /\ timer'[h] = DrainTime
          \/ DrainTime = 0 /\ stage'[h] = "leaves" /\ timer'[h] = 0
      <3>1. stage \in [Host -> Stages5] /\ timer \in [Host -> Time]
        BY DEF RestartTypeOK, Stages5, Time
      <3>2. QED
        BY <1>4, <3>1
    <2>3. QED
      BY <1>3, <2>1, <2>2 DEF Leaving
  <1>7. \A g \in Host \ {h} : Same(g)
    BY <1>4, <1>5 DEF Same, RestartTypeOK
  <1>8. ~Rested(h)' /\ ~Past(h) /\ stage'[h] # "boots" /\ keeps'[h]
    BY <1>3, <1>4, <1>5 DEF Rested, Past, RestartTypeOK
  <1>9. QED
    BY <1>2, <1>5, <1>6, <1>7, <1>8, HostRolls

\* A host hears of the request, ends its drain, and comes back.
LEMMA HearsRolls ==
    ASSUME RestartAssumption, RestartTypeOK, BootTime < Stagger,
           NEW first \in Host, NEW d \in [Host -> Int], Rolling(first, d),
           NEW h \in Host, NEW r \in Asked, OnRestartRequested(h, r)
    PROVE  Rolling(first, d)'
  <1>1. r \in unheard[h] /\ Waits(h, d[h]) /\ ~Rested(h)
    BY DEF OnRestartRequested, Rolling, AtInv, Rested, Leaving
  <1>2. /\ unheard[h] = {1} /\ r = 1 /\ naps[h] = {}
        /\ d[h] = Turn(orders[1], h) * Stagger + DrainTime
        /\ stage[h] = "up" /\ ~ends[h] /\ keeps[h] /\ timer[h] = 0
    BY <1>1 DEF Waits
  <1>3. PICK l \in Nat : l = Turn(orders[1], h) * Stagger
    <2>1. orders[1] \in List
      BY OrderMade DEF Rolling
    <2>2. QED
      BY <2>1, TurnType
  <1>4. /\ unheard'[h] = {} /\ naps'[h] = {[of |-> 1, left |-> l]}
        /\ \A g \in Host \ {h} : unheard'[g] = unheard[g] /\ naps'[g] = naps[g]
    BY <1>2, <1>3 DEF OnRestartRequested, RestartTypeOK
  <1>5. UNCHANGED <<stage, timer, ends, keeps, orders, lead, moves>>
    BY DEF OnRestartRequested
  <1>6. Waits(h, d[h])'
    BY <1>2, <1>3, <1>4, <1>5 DEF Waits
  <1>7. ~Rested(h)' /\ ~Past(h) /\ stage'[h] = "up" /\ \A g \in Host \ {h} : Same(g)
    BY <1>2, <1>4, <1>5 DEF Rested, Past, Same
  <1>8. QED
    BY <1>1, <1>5, <1>6, <1>7, HostRolls

LEMMA DrainEndRolls ==
    ASSUME RestartAssumption, RestartTypeOK, BootTime < Stagger,
           NEW first \in Host, NEW d \in [Host -> Int], Rolling(first, d),
           NEW h \in Host, DrainEnds(h)
    PROVE  Rolling(first, d)'
  <1>1. stage[h] = "drains" /\ timer[h] = 0 /\ ~Rested(h)
    BY DEF DrainEnds, Rested
  <1>2. Leaving(h, d[h]) /\ d[h] = 0
    BY <1>1 DEF Rolling, AtInv, Waits, Leaving
  <1>3. stage' = [stage EXCEPT ![h] = "hands over"] /\ ends' = [ends EXCEPT ![h] = TRUE]
        /\ UNCHANGED <<timer, keeps, naps, unheard, orders, lead, moves>>
    BY DEF DrainEnds
  <1>4. stage'[h] = "hands over" /\ \A g \in Host \ {h} : Same(g)
    BY <1>3 DEF Same, RestartTypeOK
  <1>5. Leaving(h, d[h])' /\ ~Rested(h)' /\ Past(h)'
    BY <1>1, <1>2, <1>3, <1>4 DEF Leaving, Rested, Past
  <1>6. QED
    BY <1>1, <1>3, <1>4, <1>5, HostRolls

LEMMA BootRolls ==
    ASSUME RestartAssumption, RestartTypeOK, BootTime < Stagger,
           NEW first \in Host, NEW d \in [Host -> Int], Rolling(first, d),
           NEW h \in Host, Boots(h)
    PROVE  Rolling(first, d)'
  <1>1. stage[h] = "boots" /\ timer[h] = 0 /\ ~Rested(h) /\ Past(h)
    BY DEF Boots, Rested, Past
  <1>2. unheard[h] = {} /\ naps[h] = {}
    BY <1>1 DEF Rolling, AtInv, Waits, Leaving
  <1>3. /\ stage' = [stage EXCEPT ![h] = "up"] /\ ends' = [ends EXCEPT ![h] = FALSE]
        /\ keeps' = [keeps EXCEPT ![h] = TRUE]
        /\ UNCHANGED <<timer, naps, unheard, orders, lead, moves>>
    BY DEF Boots
  <1>4. Rested(h)' /\ \A g \in Host \ {h} : Same(g)
    BY <1>1, <1>2, <1>3 DEF Same, RestartTypeOK, Rested
  <1>5. ~(h = lead /\ h = first)
    BY <1>1, TimesAre DEF Rolling, LeadInv
  <1>6. QED
    BY <1>1, <1>3, <1>4, <1>5, HostRolls

\* The ways out, if what is held is released.
LEMMA HandOverRolls ==
    ASSUME RestartAssumption, RestartTypeOK, BootTime < Stagger,
           NEW first \in Host, NEW d \in [Host -> Int], Rolling(first, d),
           NEW h \in Host, NEW released \in BOOLEAN, HandsOver(h, released), regular'
    PROVE  Rolling(first, d)'
  <1>1. stage[h] = "hands over" /\ ~Rested(h) /\ Past(h)
    BY DEF HandsOver, Rested, Past
  <1>2. Leaving(h, d[h])
    BY <1>1 DEF Rolling, AtInv, Waits
  <1>3. /\ stage' = [stage EXCEPT ![h] = "leaves"] /\ keeps' = [keeps EXCEPT ![h] = FALSE]
        /\ UNCHANGED <<timer, ends, naps, unheard, orders, moves>>
    BY DEF HandsOver
  <1>4. stage'[h] = "leaves" /\ \A g \in Host \ {h} : Same(g)
    BY <1>3 DEF Same, RestartTypeOK
  <1>5. Leaving(h, d[h])' /\ ~Rested(h)' /\ Past(h)'
    BY <1>1, <1>2, <1>3, <1>4 DEF Leaving, Rested, Past
  <1>6. CASE lead = h
    <2>1. lead' = Nobody
      BY <1>6 DEF HandsOver, LeaseReleased
    <2>2. h = first
      BY <1>1, <1>6, TimesAre DEF Rolling, LeadInv
    <2>3. QED
      BY <1>1, <1>3, <1>4, <1>5, <1>6, <2>1, <2>2, LeadGoes
  <1>7. CASE lead # h
    <2>1. lead' = lead
      BY <1>7 DEF HandsOver, LeaseReleased
    <2>2. QED
      BY <1>1, <1>3, <1>4, <1>5, <1>7, <2>1, HostRolls
  <1>8. QED
    BY <1>6, <1>7

LEMMA ShutdownRolls ==
    ASSUME RestartAssumption, RestartTypeOK, BootTime < Stagger,
           NEW first \in Host, NEW d \in [Host -> Int], Rolling(first, d),
           NEW h \in Host, NEW released \in BOOLEAN, ShutsDown(h, released), regular'
    PROVE  Rolling(first, d)'
  <1>1. stage[h] = "leaves" /\ ~Rested(h) /\ Past(h)
    BY DEF ShutsDown, Rested, Past
  <1>2. Leaving(h, d[h]) /\ d[h] = 0
    BY <1>1 DEF Rolling, AtInv, Waits, Leaving
  <1>3. /\ stage' = [stage EXCEPT ![h] = "boots"] /\ timer' = [timer EXCEPT ![h] = BootTime]
        /\ unheard' = [unheard EXCEPT ![h] = {}] /\ naps' = [naps EXCEPT ![h] = {}]
        /\ ends' = [ends EXCEPT ![h] = TRUE]
        /\ UNCHANGED <<keeps, orders, moves>>
    BY DEF ShutsDown, ProcessEnds
  <1>4. /\ stage'[h] = "boots" /\ timer'[h] = BootTime /\ unheard'[h] = {} /\ naps'[h] = {}
        /\ \A g \in Host \ {h} : Same(g)
    BY <1>3 DEF Same, RestartTypeOK
  <1>5. Leaving(h, d[h])' /\ ~Rested(h)' /\ Past(h)'
    <2>1. BootTime = d[h] + BootTime /\ d[h] <= 0
      BY <1>2, TimesAre
    <2>2. QED
      BY <1>4, <2>1 DEF Leaving, Rested, Past
  <1>6. CASE lead = h
    <2>1. h = first /\ keeps[h]
      BY <1>1, <1>6, TimesAre DEF Rolling, LeadInv, Rested
    <2>2. lead' = Nobody
      BY <1>6, <2>1 DEF ShutsDown, LeaseReleased
    <2>3. QED
      BY <1>1, <1>3, <1>4, <1>5, <1>6, <2>1, <2>2, LeadGoes
  <1>7. CASE lead # h
    <2>1. lead' = lead
      BY <1>7 DEF ShutsDown, LeaseReleased
    <2>2. QED
      BY <1>1, <1>3, <1>4, <1>5, <1>7, <2>1, HostRolls
  <1>8. QED
    BY <1>6, <1>7

\* The leadership is lost by one who has gone, and taken by one who is back.
LEMMA LeadRolls ==
    ASSUME RestartAssumption, RestartTypeOK,
           NEW first \in Host, NEW d \in [Host -> Int], Rolling(first, d),
           LeaseRunsOut \/ \E h \in Host : TakesLead(h)
    PROVE  Rolling(first, d)'
  <1>1. UNCHANGED <<stage, timer, ends, keeps, naps, unheard, orders>>
    BY DEF LeaseRunsOut, TakesLead
  <1>2. AtInv(d)' /\ SpreadInv(d)' /\ LastInv(first)'
    BY <1>1, SameHosts DEF Rolling
  <1>3. CASE LeaseRunsOut
    <2>1. lead # Nobody /\ lead \notin Alive /\ lead' = Nobody /\ moves' = moves
      BY <1>3 DEF LeaseRunsOut
    <2>2. moves = 0 /\ lead = first /\ Past(first)
      BY <2>1 DEF Rolling, LeadInv, Alive, Rested, Past
    <2>3. QED
      BY <1>1, <1>2, <2>1, <2>2 DEF Rolling, LeadInv, Past
  <1>4. CASE \E h \in Host : TakesLead(h)
    <2>1. PICK h \in Host : lead = Nobody /\ h \in Alive /\ lead' = h /\ moves' = moves + 1
      BY <1>4 DEF TakesLead
    <2>2. moves = 0 /\ (Past(first) \/ Rested(first))
      BY <2>1, TimesAre DEF Rolling, LeadInv
    <2>3. Rested(h)
      BY <2>1, <2>2 DEF Rolling, LastInv, Alive, Past
    <2>4. QED
      BY <1>1, <1>2, <2>1, <2>2, <2>3 DEF Rolling, LeadInv, Rested
  <1>5. QED
    BY <1>3, <1>4

\* A tick is a tick for everyone.
LEMMA TickRolls ==
    ASSUME RestartAssumption, RestartTypeOK,
           NEW first \in Host, NEW d \in [Host -> Int], Rolling(first, d), RestartTicks
    PROVE  \E e \in [Host -> Int] : Rolling(first, e)'
  <1>1. PICK e \in [Host -> Int] : \A h \in Host : e[h] = d[h] - 1
    <2> DEFINE f == [h \in Host |-> d[h] - 1]
    <2>1. f \in [Host -> Int] /\ \A h \in Host : f[h] = d[h] - 1
      OBVIOUS
    <2> HIDE DEF f
    <2>2. QED
      BY <2>1
  <1>2. UNCHANGED <<stage, ends, keeps, unheard, orders, lead, moves>>
    BY DEF RestartTicks
  <1>3. ASSUME NEW h \in Host
        PROVE  /\ unheard[h] = {} /\ \A nap \in naps[h] : nap.left # 0
               /\ stage[h] \notin {"hands over", "leaves"}
               /\ stage[h] \in {"drains", "boots"} => timer[h] # 0
    BY DEF RestartTicks, Due
  <1>3a. \A h \in Host : timer'[h] = IF timer[h] > 0 THEN timer[h] - 1 ELSE 0
    BY DEF RestartTicks
  <1>3b. \A h \in Host : naps'[h] = {[nap EXCEPT !.left = @ - 1] : nap \in naps[h]}
    BY DEF RestartTicks
  <1>4a. ASSUME NEW h \in Host PROVE naps'[h] = {} <=> naps[h] = {}
    <2> DEFINE down(nap) == [nap EXCEPT !.left = @ - 1]
    <2>1. naps'[h] = {down(nap) : nap \in naps[h]}
      BY <1>3b
    <2> HIDE DEF down
    <2>2. QED
      BY <2>1
  <1>4. ASSUME NEW h \in Host PROVE Rested(h)' <=> Rested(h)
    <2>1. stage[h] = "up" => timer[h] = 0 /\ timer'[h] = 0
      <3>1. stage[h] = "up" => timer[h] = 0
        BY DEF Rolling, AtInv, Rested, Waits, Leaving
      <3>2. ~(0 > 0)
        OBVIOUS
      <3>3. QED
        BY <1>3a, <3>1, <3>2
    <2>2. naps'[h] = {} <=> naps[h] = {}
      BY <1>4a
    <2>3. QED
      BY <1>2, <2>1, <2>2 DEF Rested
  <1>5. AtInv(e)'
    <2> SUFFICES ASSUME NEW h \in Host, ~Rested(h)' PROVE Waits(h, e[h])' \/ Leaving(h, e[h])'
      BY DEF AtInv
    <2>0. ~Rested(h) /\ e[h] = d[h] - 1 /\ d[h] \in Int /\ DrainTime \in Nat /\ BootTime \in Nat /\ timer[h] \in Nat
      BY <1>1, <1>4, TimesAre, RestartTypes
    <2>1. CASE Waits(h, d[h])
      <3>1. PICK l \in Nat : naps[h] = {[of |-> 1, left |-> l]} /\ d[h] = l + DrainTime
        BY <1>3, <2>1 DEF Waits
      <3>2. l # 0 /\ l - 1 \in Nat /\ e[h] = (l - 1) + DrainTime
        <4>1. [of |-> 1, left |-> l] \in naps[h]
          BY <3>1
        <4>2. [of |-> 1, left |-> l].left # 0
          BY <1>3, <4>1
        <4>3. QED
          BY <2>0, <3>1, <4>2
      <3>3. naps'[h] = {[of |-> 1, left |-> l - 1]}
        <4>1. [[of |-> 1, left |-> l] EXCEPT !.left = @ - 1] = [of |-> 1, left |-> l - 1]
          OBVIOUS
        <4>2. QED
          BY <1>3b, <3>1, <4>1
      <3>4. timer'[h] = 0
        <4>1. timer[h] = 0 /\ ~(0 > 0)
          BY <2>1 DEF Waits
        <4>2. QED
          BY <1>3a, <4>1
      <3>5. QED
        BY <1>2, <1>3, <2>1, <3>2, <3>3, <3>4 DEF Waits
    <2>2. CASE Leaving(h, d[h])
      <3>1. naps'[h] = {} /\ unheard'[h] = {}
        BY <1>2, <1>4a, <2>2 DEF Leaving
      <3>2. timer[h] # 0 /\ timer'[h] = timer[h] - 1
        <4>1. timer[h] # 0
          BY <1>3, <2>2 DEF Leaving
        <4>2. timer[h] > 0
          BY <2>0, <4>1
        <4>3. QED
          BY <1>3a, <4>1, <4>2
      <3>3. CASE stage[h] = "drains"
        <4>1. timer'[h] = e[h]
          BY <2>0, <2>2, <3>2, <3>3 DEF Leaving
        <4>2. QED
          BY <1>2, <2>2, <3>1, <3>3, <4>1 DEF Leaving
      <3>4. CASE stage[h] = "boots"
        <4>1. timer[h] = d[h] + BootTime /\ d[h] <= 0
          BY <2>2, <3>4 DEF Leaving
        <4>2. timer'[h] = e[h] + BootTime /\ e[h] <= 0
          BY <2>0, <3>2, <4>1
        <4>3. QED
          BY <1>2, <3>1, <3>4, <4>2 DEF Leaving
      <3>5. QED
        BY <1>3, <2>2, <3>3, <3>4 DEF Leaving
    <2>3. QED
      BY <2>0, <2>1, <2>2 DEF Rolling, AtInv
  <1>6. SpreadInv(e)'
    <2> SUFFICES ASSUME NEW g \in Host, NEW h \in Host, orders[1][g] < orders[1][h], ~Rested(g), ~Rested(h)
                 PROVE  e[h] - e[g] >= Stagger
      BY <1>2, <1>4 DEF SpreadInv
    <2>1. d[h] - d[g] >= Stagger
      BY DEF Rolling, SpreadInv
    <2>2. e[h] = d[h] - 1 /\ e[g] = d[g] - 1 /\ d[h] \in Int /\ d[g] \in Int /\ Stagger \in Nat
      BY <1>1, TimesAre
    <2>3. QED
      BY <2>1, <2>2
  <1>7. LastInv(first)' /\ LeadInv(first)'
    BY <1>2, <1>4 DEF Rolling, LastInv, LeadInv, Past
  <1>8. Rolling(first, e)'
    BY <1>2, <1>5, <1>6, <1>7 DEF Rolling
  <1>9. QED
    BY <1>8
-----------------------------------------------------------------------------
(* What follows.                                                           *)

LEMMA RestartStays ==
    ASSUME RestartAssumption, RestartInv, [RestartNext]_restartVars
    PROVE  RestartInv'
  <1>0. RestartTypeOK /\ RollInv /\ RestartTypeOK'
    BY RestartTypesKept DEF RestartInv
  <1>1. CASE \E h, view, leader : RequestRestart(h, view, leader)
    <2>1. PICK h, view, leader : RequestRestart(h, view, leader)
      BY <1>1
    <2>2. h \in Host
      BY <2>1 DEF RequestRestart, Alive
    <2>3. QED
      BY <1>0, <2>1, <2>2, RequestRolls DEF RestartInv
  <1>2. CASE \A h, view, leader : ~RequestRestart(h, view, leader)
    <2>1. SUFFICES ASSUME regular', BootTime < Stagger
                   PROVE  Quiet' \/ \E first \in Host, d \in [Host -> Int] : Rolling(first, d)'
      BY <1>0 DEF RollInv, RestartInv
    <2>2. regular
      BY <1>2, <2>1 DEF RestartNext, restartVars, OnRestartRequested, WakesUp, OperatorStops, DrainEnds, Boots,
           TakesLead, HandsOver, ShutsDown, LeaseReleased, LeaseRunsOut, RestartTicks
    <2>3. CASE Quiet
      BY <1>0, <1>2, <2>1, <2>3, QuietStays
    <2>4. CASE ~Quiet
      <3>1. PICK first \in Host, d \in [Host -> Int] : Rolling(first, d)
        BY <1>0, <2>1, <2>2, <2>4 DEF RollInv
      <3>2. ASSUME NEW h \in Host, NEW r \in Asked, OnRestartRequested(h, r) PROVE Rolling(first, d)'
        BY <1>0, <2>1, <3>1, <3>2, HearsRolls
      <3>3. ASSUME NEW h \in Host, WakesUp(h) \/ OperatorStops(h) \/ DrainEnds(h) \/ Boots(h)
            PROVE  Rolling(first, d)'
        <4>1. ~OperatorStops(h)
          BY <2>1 DEF OperatorStops
        <4>2. QED
          BY <1>0, <2>1, <3>1, <3>3, <4>1, SignalRolls, DrainEndRolls, BootRolls
      <3>4. ASSUME NEW h \in Host, NEW released \in BOOLEAN, HandsOver(h, released) \/ ShutsDown(h, released)
            PROVE  Rolling(first, d)'
        BY <1>0, <2>1, <3>1, <3>4, HandOverRolls, ShutdownRolls
      <3>5. ASSUME LeaseRunsOut \/ \E h \in Host : TakesLead(h) PROVE Rolling(first, d)'
        BY <1>0, <3>1, <3>5, LeadRolls
      <3>6. ASSUME RestartTicks PROVE \E e \in [Host -> Int] : Rolling(first, e)'
        BY <1>0, <3>1, <3>6, TickRolls
      <3>7. ASSUME UNCHANGED restartVars PROVE Rolling(first, d)'
        <4>1. UNCHANGED <<stage, timer, ends, keeps, naps, unheard, orders, lead, moves>>
          BY <3>7 DEF restartVars
        <4>2. AtInv(d)' /\ SpreadInv(d)' /\ LastInv(first)'
          BY <3>1, <4>1, SameHosts DEF Rolling
        <4>3. LeadInv(first) => LeadInv(first)'
          BY <4>1, SameHosts DEF LeadInv
        <4>4. QED
          BY <3>1, <4>1, <4>2, <4>3 DEF Rolling
      <3>8. QED
        BY <1>2, <3>2, <3>3, <3>4, <3>5, <3>6, <3>7 DEF RestartNext
    <2>5. QED
      BY <2>3, <2>4
  <1>3. QED
    BY <1>1, <1>2

LEMMA RestartStarts ==
    ASSUME RestartAssumption, RestartInit
    PROVE  RestartInv
  <1>1. RestartTypeOK
    <2>1. orders \in Seq(List) /\ Len(orders) = 0
      BY DEF RestartInit
    <2>2. moves \in Nat /\ stops \in 0..Stops /\ 0 <= Requests
      BY TimesAre DEF RestartInit
    <2>3. timer \in [Host -> 0..(DrainTime + BootTime)]
      BY TimesAre DEF RestartInit
    <2>4. QED
      BY <2>1, <2>2, <2>3 DEF RestartInit, RestartTypeOK
  <1>2. Quiet
    BY DEF RestartInit, Quiet, Rested
  <1>3. QED
    BY <1>1, <1>2 DEF RestartInv, RollInv

\* A host that is away has gone for less than a stagger: only one is.
LEMMA SomeoneIsReady ==
    ASSUME RestartAssumption, RestartInv
    PROVE  RestartRolls
  <1> SUFFICES ASSUME regular, BootTime < Stagger
               PROVE  (Cardinality(Host) > 1 => \E h \in Host : IsReady(h)) /\ moves <= 1
    BY DEF RestartRolls
  <1>0. RestartTypeOK
    BY DEF RestartInv
  <1>1. ASSUME NEW h \in Host, Rested(h) PROVE IsReady(h)
    BY <1>1 DEF Rested, IsReady
  <1>2. CASE Quiet
    BY <1>1, <1>2 DEF Quiet
  <1>3. CASE ~Quiet
    <2>1. PICK first \in Host, d \in [Host -> Int] : Rolling(first, d)
      BY <1>3 DEF RestartInv, RollInv
    <2>2. ASSUME NEW h \in Host, ~IsReady(h)
          PROVE  ~Rested(h) /\ d[h] <= 0 /\ d[h] >= 0 - BootTime
      <3>1. Leaving(h, d[h]) /\ ~Rested(h)
        BY <1>1, <2>1, <2>2 DEF Rolling, AtInv, Waits, IsReady
      <3>2. d[h] = 0 \/ (timer[h] = d[h] + BootTime /\ d[h] <= 0)
        BY <2>2, <3>1 DEF Leaving, IsReady
      <3>3. d[h] \in Int /\ timer[h] \in Nat /\ BootTime \in Nat
        BY <1>0, RestartTypes, TimesAre
      <3> DEFINE x == d[h]
                 y == timer[h]
      <3>4. x \in Int /\ y \in Nat /\ (x = 0 \/ (y = x + BootTime /\ x <= 0))
        BY <3>2, <3>3
      <3> HIDE DEF x, y
      <3>5. x <= 0 /\ x >= 0 - BootTime
        BY <3>3, <3>4
      <3>6. QED
        BY <3>1, <3>5 DEF x
    <2>3. ASSUME NEW g \in Host, NEW h \in Host, orders[1][g] < orders[1][h] PROVE IsReady(g) \/ IsReady(h)
      <3> SUFFICES ASSUME ~IsReady(g), ~IsReady(h) PROVE FALSE
        OBVIOUS
      <3>1. d[h] - d[g] >= Stagger
        BY <2>1, <2>2, <2>3 DEF Rolling, SpreadInv
      <3>2. d[h] <= 0 /\ d[g] >= 0 - BootTime /\ d[h] \in Int /\ d[g] \in Int
        BY <2>2
      <3>3. QED
        BY <3>1, <3>2, TimesAre
    <2>4. ASSUME Cardinality(Host) > 1 PROVE \E g \in Host : g # first
      <3> SUFFICES ASSUME Host = {first} PROVE FALSE
        OBVIOUS
      <3>1. Cardinality({first}) = 1
        BY FS_Singleton
      <3>2. QED
        BY <2>4, <3>1
    <2>5. Cardinality(Host) > 1 => \E h \in Host : IsReady(h)
      <3>1. orders[1] = Order(Host, first)
        BY <2>1 DEF Rolling
      <3>2. QED
        BY <2>3, <2>4, <3>1, OrderOf
    <2>6. moves <= 1
      BY <2>1 DEF Rolling, LeadInv
    <2>7. QED
      BY <2>5, <2>6
  <1>4. QED
    BY <1>2, <1>3

\* The stages of a host, its timers, and the places in the list of a request
\* stay within their types, through requests that name hosts that are gone or
\* lack some, signals that kill and hosts that boot with nothing in their ears.
THEOREM RestartTypeCorrect == RestartSpec => []RestartTypeOK
  <1> USE RestartAssumption
  <1>1. RestartInit => RestartTypeOK
    BY RestartStarts DEF RestartInv
  <1>2. RestartTypeOK /\ [RestartNext]_restartVars => RestartTypeOK'
    BY RestartTypesKept
  <1>3. QED
    BY <1>1, <1>2, PTL DEF RestartSpec

\* A restart that was asked for by an instance that knew the cluster, on hosts
\* that boot within the stagger, leaves an instance ready at every moment and
\* moves the leadership at most once, however long the drains overlap.
THEOREM RestartCorrect == RestartSpec => []RestartRolls
  <1> USE RestartAssumption
  <1>1. RestartInit => RestartInv
    BY RestartStarts
  <1>2. RestartInv /\ [RestartNext]_restartVars => RestartInv'
    BY RestartStays
  <1>3. RestartInv => RestartRolls
    BY SomeoneIsReady
  <1>4. QED
    BY <1>1, <1>2, <1>3, PTL DEF RestartSpec

=============================================================================

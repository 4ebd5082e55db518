------------------------------- MODULE Grants -------------------------------
(***************************************************************************)
(* The roles of a group: those a plugin's manifest maps to it by itself,   *)
(* once, and those administrators give and take; and the permissions that  *)
(* every instance resolves from them and keeps for a while.                *)
(*                                                                         *)
(* role_registry.sync() runs on every instance at boot and whenever a      *)
(* plugin changes its state.  It reads the ledger of what was applied and  *)
(* the group, and writes both in one transaction; the ledger has a primary *)
(* key, and the database refuses to overwrite a row that was changed since *)
(* it was read.                                                            *)
(***************************************************************************)
EXTENDS Integers

CONSTANTS
    Server,  \* instances
    Txn,     \* the transactions on the group: the bound on them
    Ttl      \* _CACHE_TTL_SECONDS, in ticks

ASSUME GrantsAssumption == Ttl \in Nat

Role == {"mapped", "other"}

VARIABLES
    groupRoles, \* Group.roles
    ledger,     \* whether the role "mapped" has its row in role_grant_ledger
    txn,        \* what a transaction does, what it read, whether that changed since
    allowed,    \* access_service._cache: whether the mapped role's permission is
                \* among a member's, and the ticks this is kept
    lookup,     \* the lookup under way on an instance and the ticks it takes
    unchanged   \* ticks since the permission was last given or taken, up to Ttl

grantVars == <<groupRoles, ledger, txn, allowed, lookup, unchanged>>

NoTxn    == [does |-> "none", role |-> "mapped", at |-> 0, stage |-> "none",
             seen |-> {}, done |-> FALSE, stale |-> FALSE]
TxnEnded    == [NoTxn EXCEPT !.stage = "ended"]
NoLookup == [stage |-> "none", took |-> 0, value |-> FALSE]

\* The group as earlier boots and administrators left it.
GrantsInit ==
    /\ groupRoles \in SUBSET Role /\ ledger \in BOOLEAN
    /\ txn = [t \in Txn |-> NoTxn]
    /\ allowed = [i \in Server |-> [value |-> FALSE, left |-> 0]]
    /\ lookup = [i \in Server |-> NoLookup]
    /\ unchanged = Ttl
-----------------------------------------------------------------------------
(* Transactions.                                                           *)

\* sync(), or a request that assigns or unassigns a role.
TxnReads(t, i, does, role) ==
    /\ txn[t].stage = "none"
    /\ does = "sync" => role = "mapped"
    /\ txn' = [txn EXCEPT ![t] = [does |-> does, role |-> role, at |-> i, stage |-> "read",
                                  seen |-> groupRoles, done |-> ledger, stale |-> FALSE]]
    /\ UNCHANGED <<groupRoles, ledger, allowed, lookup, unchanged>>

\* apply_auto_mappings() skips what the ledger has.
Applies(t) == txn[t].does = "sync" /\ ~txn[t].done

\* What a transaction makes of the roles it read.
Rewritten(t) ==
    CASE Applies(t)                -> txn[t].seen \cup {"mapped"}
      [] txn[t].does = "assign"    -> txn[t].seen \cup {txn[t].role}
      [] txn[t].does = "unassign"  -> txn[t].seen \ {txn[t].role}
      [] OTHER                     -> txn[t].seen

\* Wrong: what is written was read in a transaction before.
ReadBefore(t) == FALSE

\* The group is written only if its roles change, and then a change since the
\* read is an error; so is a row of the ledger that a peer inserted.
Conflicts(t) ==
    \/ txn[t].stale /\ Rewritten(t) # txn[t].seen
    \/ Applies(t) /\ ~txn[t].done /\ ledger

\* The answer of a request that changed nothing invalidates too.
Invalidated(i) == [allowed EXCEPT ![i] = [value |-> FALSE, left |-> 0]]

TxnEnds(t) ==
    LET new    == Rewritten(t)
        writes == new # txn[t].seen
    IN  /\ txn[t].stage = "read"
        /\ IF Conflicts(t)
           THEN UNCHANGED <<groupRoles, ledger, allowed, unchanged>> /\ txn' = [txn EXCEPT ![t] = TxnEnded]
           ELSE /\ groupRoles' = IF writes THEN new ELSE groupRoles
                /\ ledger' = (ledger \/ Applies(t))
                /\ allowed' = IF txn[t].does = "sync" /\ ~Applies(t) THEN allowed ELSE Invalidated(txn[t].at)
                /\ unchanged' = IF ("mapped" \in groupRoles') = ("mapped" \in groupRoles) THEN unchanged ELSE 0
                /\ txn' = [u \in Txn |-> IF u = t THEN TxnEnded
                                         ELSE IF writes /\ txn[u].stage = "read" THEN [txn[u] EXCEPT !.stale = TRUE]
                                         ELSE txn[u]]
        /\ UNCHANGED lookup
-----------------------------------------------------------------------------
(* get_effective_permissions().                                            *)

LookupStarts(i) ==
    /\ lookup[i].stage = "none" /\ allowed[i].left = 0
    /\ lookup' = [lookup EXCEPT ![i] = [NoLookup EXCEPT !.stage = "starts"]]
    /\ UNCHANGED <<groupRoles, ledger, txn, allowed, unchanged>>

LookupReads(i) ==
    /\ lookup[i].stage = "starts"
    /\ lookup' = [lookup EXCEPT ![i].stage = "read", ![i].value = "mapped" \in groupRoles]
    /\ UNCHANGED <<groupRoles, ledger, txn, allowed, unchanged>>

\* The clock was read before the database.
Left(took) == Ttl - took

LookupStores(i) ==
    /\ lookup[i].stage = "read"
    /\ allowed' = [allowed EXCEPT ![i] = [value |-> lookup[i].value, left |-> Left(lookup[i].took)]]
    /\ lookup' = [lookup EXCEPT ![i] = NoLookup]
    /\ UNCHANGED <<groupRoles, ledger, txn, unchanged>>

Passes(n) == IF n = 0 THEN 0 ELSE n - 1

ClockTicks ==
    /\ allowed' = [i \in Server |-> [value |-> allowed[i].value /\ allowed[i].left > 1, left |-> Passes(allowed[i].left)]]
    /\ lookup' = [i \in Server |-> IF lookup[i].stage = "none" \/ lookup[i].took = Ttl THEN lookup[i]
                                   ELSE [lookup[i] EXCEPT !.took = @ + 1]]
    /\ unchanged' = IF unchanged = Ttl THEN Ttl ELSE unchanged + 1
    /\ UNCHANGED <<groupRoles, ledger, txn>>

GrantsNext ==
    \/ ClockTicks
    \/ \E t \in Txn : TxnEnds(t)
    \/ \E t \in Txn, i \in Server, does \in {"sync", "assign", "unassign"}, role \in Role : TxnReads(t, i, does, role)
    \/ \E i \in Server : LookupStarts(i) \/ LookupReads(i) \/ LookupStores(i)

GrantsSpec == GrantsInit /\ [][GrantsNext]_grantVars
-----------------------------------------------------------------------------
TxnRec    == [does : {"none", "sync", "assign", "unassign"}, role : Role, at : Server \cup {0},
              stage : {"none", "read", "ended"}, seen : SUBSET Role, done : BOOLEAN, stale : BOOLEAN]
LookupRec == [stage : {"none", "starts", "read"}, took : 0..Ttl, value : BOOLEAN]

GrantsTypeOK ==
    /\ groupRoles \subseteq Role /\ ledger \in BOOLEAN /\ unchanged \in 0..Ttl
    /\ txn \in [Txn -> TxnRec]
    /\ allowed \in [Server -> [value : BOOLEAN, left : 0..Ttl]]
    /\ lookup \in [Server -> LookupRec]

Commits(t, does, role) ==
    /\ txn[t].does = does /\ txn[t].role = role
    /\ txn[t].stage = "read" /\ txn'[t].stage = "ended"

\* What an instance lets a member do is what was true within the last Ttl.
StaleForTtl ==
    \A i \in Server : allowed[i].left > 0 /\ unchanged = Ttl =>
        allowed[i].value = ("mapped" \in groupRoles)

\* models.py:59: a mapped role that an administrator took from the group does
\* not come back by itself, whichever instances boot and however their passes
\* overlap with his request; and a role stays given until somebody takes that
\* one: two administrators do not undo each other's change.
GrantsStay ==
    /\ "mapped" \notin groupRoles /\ "mapped" \in groupRoles' /\ ledger =>
           \E t \in Txn : Commits(t, "assign", "mapped")
    /\ \A r \in groupRoles \ groupRoles' : \E t \in Txn : Commits(t, "unassign", r)

\* What was given or taken stays so, and every instance knows it in time.
GrantsHold == [][StaleForTtl' /\ GrantsStay]_grantVars
=============================================================================

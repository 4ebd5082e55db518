------------------------- MODULE NotificationRouting -------------------------
(***************************************************************************)
(* The row of a plugin's notification endpoint, with what an administrator *)
(* overrode (whether it is active), the copies the instances resolve it    *)
(* from, and the notifications that are routed by it.                      *)
(*                                                                         *)
(* hydrate_from_db() and then sync_declared_endpoints() run on every       *)
(* instance after db:connected, the second also after ui:needs_refresh: it *)
(* collects what the plugins installed there declare, and a thread inserts *)
(* the rows that are missing and deletes the others, in a transaction      *)
(* under a lock that it goes without after a while.  The database refuses  *)
(* a transaction that writes a row another changed since it was read       *)
(* (innodb_snapshot_isolation).                                            *)
(***************************************************************************)
EXTENDS Integers, FiniteSets

CONSTANTS
    Router,   \* instances
    EnvSet,   \* those whose environment sets the endpoint inactive
    Sync,     \* the calls of sync_declared_endpoints(): at most so many
    Patches,  \* bound on the calls of update_binding()
    Installs, \* bound on how often the plugin is installed
    Adapter,  \* the gateway adapters that may be registered
    Targets   \* the providers that the endpoint is bound to

VARIABLES
    installed, \* times it was, and the instances with its manifest in their registry
    endpoint,  \* instances with the endpoint in their EndpointRegistry
    binding,   \* plugin_notification_endpoints: is_active, or "no row"
    cached,    \* precedence._db_cache: the same, or "absent"
    sync,      \* the calls of sync_declared_endpoints()
    syncLock,  \* who has the lock lyndrix_notification_sync, 0 for nobody
    patch,     \* the update_binding() under way
    patches,   \* how many there were
    holds,     \* history: what was last set by an instance and by nobody since
    adapters,  \* those registered in the gateway of the instance that notified
    envelope   \* an envelope on notification:routed, and what became of it

letterVars  == <<adapters, envelope>>
routingVars == <<installed, endpoint, binding, cached, sync, syncLock, patch, patches, holds, letterVars>>

Override == {"on", "off"}
NoSync   == [at |-> "none", of |-> 0, hydrates |-> FALSE, declared |-> FALSE, row |-> "no row", stale |-> FALSE, attempt |-> 0]
SyncEnded    == [NoSync EXCEPT !.at = "ended"]
NoEnvelope == [at |-> "none", of |-> 0, meant |-> "nothing", kept |-> FALSE, found |-> {}, left |-> {}, sent |-> {}]
EnvelopeGone == [NoEnvelope EXCEPT !.at = "handled"]
NoPatch  == [at |-> "none", of |-> 0, value |-> "unset", stale |-> FALSE]

RoutingInit ==
    /\ installed = [times |-> 0, on |-> {}] /\ endpoint = {}
    /\ binding = "no row" /\ cached = [i \in Router |-> "absent"]
    /\ sync \in [Sync -> {NoSync, SyncEnded}] /\ syncLock = 0
    /\ patch = NoPatch /\ patches = 0
    /\ holds = [i \in Router |-> "nothing"]
    /\ adapters = {} /\ envelope \in {NoEnvelope, EnvelopeGone}

\* resolve_endpoint_state(): the environment, then the row, then the default.
Resolved(i) ==
    CASE i \notin endpoint -> "off"
      [] i \in endpoint /\ i \in EnvSet -> "off"
      [] i \in endpoint /\ i \notin EnvSet /\ cached[i] \in Override -> cached[i]
      [] OTHER -> "default"

\* A transaction that is open has read what is now changed.
Outdated(t) == [t EXCEPT !.stale = @ \/ t.at \in {"read", "cached"}]
-----------------------------------------------------------------------------

InstallPlugin(i) ==
    /\ i \notin installed.on /\ installed.times < Installs
    /\ installed' = [times |-> installed.times + 1, on |-> installed.on \cup {i}]
    /\ UNCHANGED <<endpoint, binding, cached, sync, syncLock, patch, patches, holds, letterVars>>

\* forget_plugin(); the row is left to the next sync.
UninstallPlugin(i) ==
    /\ i \in installed.on
    /\ installed' = [installed EXCEPT !.on = @ \ {i}]
    /\ endpoint' = endpoint \ {i}
    /\ cached' = [cached EXCEPT ![i] = "absent"]
    /\ holds' = [holds EXCEPT ![i] = "nothing"]
    /\ UNCHANGED <<binding, sync, syncLock, patch, patches, letterVars>>

\* hydrate_from_db(): a thread reads the rows, and takes them into the copies.
HydrateReads(i, s) ==
    /\ sync[s].at = "none"
    /\ sync' = [sync EXCEPT ![s] = [NoSync EXCEPT !.at = "hydrating", !.of = i, !.hydrates = TRUE, !.row = binding]]
    /\ UNCHANGED <<installed, endpoint, binding, cached, syncLock, patch, patches, holds, letterVars>>

HydrateSets(s) ==
    /\ sync[s].at = "hydrating"
    /\ cached' = IF sync[s].row = "no row" THEN cached ELSE [cached EXCEPT ![sync[s].of] = sync[s].row]
    /\ sync' = [sync EXCEPT ![s].at = "hydrated", ![s].row = "no row"]
    /\ UNCHANGED <<installed, endpoint, binding, syncLock, patch, patches, holds, letterVars>>

\* On the loop: what is declared here, and the registry of endpoints.
SyncCollects(i, s) ==
    /\ sync[s].at = "none" \/ (sync[s].at = "hydrated" /\ sync[s].of = i)
    /\ sync' = [sync EXCEPT ![s] = [@ EXCEPT !.at = "collected", !.of = i, !.declared = i \in installed.on]]
    /\ endpoint' = IF i \in installed.on THEN endpoint \cup {i} ELSE endpoint \ {i}
    /\ UNCHANGED <<installed, binding, cached, syncLock, patch, patches, holds, letterVars>>

\* GET_LOCK, or its time is over and the sync goes on without.
SyncLocks(s, inTime) ==
    /\ sync[s].at = "collected"
    /\ inTime => syncLock = 0
    /\ ~inTime => syncLock # 0
    /\ syncLock' = IF inTime THEN s ELSE syncLock
    /\ sync' = [sync EXCEPT ![s].at = "locked"]
    /\ UNCHANGED <<installed, endpoint, binding, cached, patch, patches, holds, letterVars>>

\* Wrong: another attempt goes on with the rows of the first.
KeepsItsRows(t) == IF t.attempt = 0 THEN binding ELSE t.row

RowRead(t) == binding

SyncReads(s) ==
    /\ sync[s].at = "locked"
    /\ sync' = [sync EXCEPT ![s].at = "read", ![s].row = RowRead(sync[s]), ![s].stale = FALSE]
    /\ UNCHANGED <<installed, endpoint, binding, cached, syncLock, patch, patches, holds, letterVars>>

\* The copies are updated before the transaction commits.
SyncCaches(s) ==
    LET t == sync[s]
    IN  /\ t.at = "read"
        /\ cached' = [cached EXCEPT ![t.of] =
                         IF t.declared THEN (IF t.row = "no row" THEN "none" ELSE t.row)
                         ELSE IF t.row # "no row" THEN "absent" ELSE @]
        /\ sync' = [sync EXCEPT ![s].at = "cached"]
        /\ UNCHANGED <<installed, endpoint, binding, syncLock, patch, patches, holds, letterVars>>

Released(s) == IF syncLock = s THEN 0 ELSE syncLock

\* declared_defaults and updated_at are written, is_active is not.
SyncCommits(s) ==
    LET t      == sync[s]
        writes == t.declared \/ t.row # "no row"
    IN  /\ t.at = "cached" /\ ~(t.stale /\ writes)
        /\ binding' = CASE t.declared /\ t.row = "no row" -> "none"
                        [] ~t.declared -> (IF t.row = "no row" THEN binding ELSE "no row")
                        [] OTHER -> binding
        /\ sync' = [r \in Sync |-> IF r = s THEN SyncEnded ELSE IF writes THEN Outdated(sync[r]) ELSE sync[r]]
        /\ patch' = IF writes THEN Outdated(patch) ELSE patch
        /\ holds' = IF binding' = "no row" THEN [i \in Router |-> "nothing"] ELSE holds
        /\ syncLock' = Released(s)
        /\ UNCHANGED <<installed, endpoint, cached, patches, letterVars>>

\* Errors 1020, 1205, 1213: three attempts; an insert that finds the row has none.
SyncFails(s) ==
    LET t     == sync[s]
        again == t.row # "no row" /\ t.attempt < 2
    IN  /\ t.at = "cached" /\ t.stale /\ (t.declared \/ t.row # "no row")
        /\ sync' = [sync EXCEPT ![s] = IF again THEN [t EXCEPT !.at = "locked", !.attempt = @ + 1] ELSE SyncEnded]
        /\ syncLock' = IF again THEN syncLock ELSE Released(s)
        /\ holds' = IF again THEN holds ELSE [holds EXCEPT ![t.of] = "nothing"]
        /\ UNCHANGED <<installed, endpoint, binding, cached, patch, patches, letterVars>>
-----------------------------------------------------------------------------
(* PATCH /api/notifications/endpoints: refused where the environment sets  *)
(* the value.                                                              *)

PatchReads(i, v) ==
    /\ patch.at = "none" /\ patches < Patches
    /\ i \in endpoint \ EnvSet
    /\ patch' = [at |-> "read", of |-> i, value |-> v, stale |-> FALSE]
    /\ patches' = patches + 1
    /\ UNCHANGED <<installed, endpoint, binding, cached, sync, syncLock, holds, letterVars>>

PatchCommits ==
    /\ patch.at = "read" /\ ~patch.stale
    /\ binding' = patch.value
    /\ patch' = [patch EXCEPT !.at = "written"]
    /\ sync' = [s \in Sync |-> Outdated(sync[s])]
    /\ holds' = [i \in Router |-> IF i = patch.of THEN patch.value ELSE "nothing"]
    /\ UNCHANGED <<installed, endpoint, cached, syncLock, patches, letterVars>>

PatchCaches ==
    /\ patch.at = "written"
    /\ cached' = [cached EXCEPT ![patch.of] = patch.value]
    /\ patch' = NoPatch
    /\ UNCHANGED <<installed, endpoint, binding, sync, syncLock, patches, holds, letterVars>>

PatchFails ==
    /\ patch.at = "read" /\ patch.stale
    /\ patch' = NoPatch
    /\ UNCHANGED <<installed, endpoint, binding, cached, sync, syncLock, patches, holds, letterVars>>

-----------------------------------------------------------------------------
(* Notifications.                                                          *)

\* Nobody is about to change what an instance goes by.
GoesByIt(i) == patch.of # i /\ \A s \in Sync : sync[s].of = i => sync[s].at = "collected" /\ ~sync[s].hydrates

\* A plugin may only notify endpoints that its manifest declares.
EmitsEnvelope(i) ==
    /\ envelope.at = "none" /\ i \in installed.on
    /\ envelope' = [envelope EXCEPT !.at = "emitted", !.of = i]
    /\ UNCHANGED <<installed, endpoint, binding, cached, sync, syncLock, patch, patches, holds, adapters>>

\* The bell of the instance keeps it unless the endpoint is off, and it is about
\* to be sent to each provider that has an adapter by then, to none that comes
\* later.
RoutesIt(i) == Resolved(i) # "off"
HandleEnvelope(i, registered) ==
    /\ envelope.at = "emitted" /\ envelope.of = i
    /\ envelope' = [at    |-> "handled",
                    of    |-> i,
                    meant |-> IF i \in endpoint /\ GoesByIt(i) THEN holds[i] ELSE "nothing",
                    kept  |-> RoutesIt(i),
                    found |-> Targets \cap registered,
                    left  |-> IF RoutesIt(i) THEN Targets \cap registered ELSE {},
                    sent  |-> {}]
    /\ adapters' = registered
    /\ UNCHANGED <<installed, endpoint, binding, cached, sync, syncLock, patch, patches, holds>>

\* Wrong: without a provider, a message goes to everyone there is.
ToEveryone(p) == adapters

\* The adapters that dispatch() hands a message for a provider to.
HandedTo(p) == {p} \cap adapters

DispatchTo(p) ==
    /\ p \in envelope.left
    /\ envelope' = [envelope EXCEPT !.left = @ \ {p}, !.sent = @ \cup HandedTo(p)]
    /\ UNCHANGED <<installed, endpoint, binding, cached, sync, syncLock, patch, patches, holds, adapters>>

\* A plugin registers its adapter, or goes with it; one that went may miss what
\* was found for it.
AdaptersChange(p) ==
    /\ envelope.left # {}
    /\ adapters' = IF p \in adapters THEN adapters \ {p} ELSE adapters \cup {p}
    /\ envelope' = [envelope EXCEPT !.found = @ \ {p}]
    /\ UNCHANGED <<installed, endpoint, binding, cached, sync, syncLock, patch, patches, holds>>

RoutingNext ==
    \/ PatchCommits \/ PatchCaches \/ PatchFails
    \/ \E i \in Router : InstallPlugin(i) \/ UninstallPlugin(i) \/ (\E v \in Override : PatchReads(i, v))
    \/ \E i \in Router, s \in Sync : HydrateReads(i, s) \/ SyncCollects(i, s)
    \/ \E s \in Sync : HydrateSets(s)
    \/ \E s \in Sync, inTime \in BOOLEAN : SyncLocks(s, inTime)
    \/ \E i \in Router : EmitsEnvelope(i) \/ (\E registered \in SUBSET Adapter : HandleEnvelope(i, registered))
    \/ \E p \in Adapter : DispatchTo(p) \/ AdaptersChange(p)
    \/ \E s \in Sync : SyncReads(s) \/ SyncCaches(s) \/ SyncCommits(s) \/ SyncFails(s)

RoutingSpec == RoutingInit /\ [][RoutingNext]_routingVars
-----------------------------------------------------------------------------
Binding  == Override \cup {"no row", "none"}
SyncRec  == [at : {"none", "hydrating", "hydrated", "collected", "locked", "read", "cached", "ended"},
             of : Router \cup {0}, hydrates : BOOLEAN, declared : BOOLEAN, row : Binding, stale : BOOLEAN,
             attempt : 0..2]
PatchRec == [at : {"none", "read", "written"}, of : Router \cup {0}, value : Override \cup {"unset"}, stale : BOOLEAN]
EnvelopeRec == [at : {"none", "emitted", "handled"}, of : Router \cup {0}, meant : Override \cup {"nothing"},
                kept : BOOLEAN, found : SUBSET Adapter, left : SUBSET Adapter, sent : SUBSET Adapter]

RoutingTypeOK ==
    /\ installed \in [times : Nat, on : SUBSET Router] /\ endpoint \subseteq Router
    /\ binding \in Binding
    /\ cached \in [Router -> Override \cup {"none", "absent"}]
    /\ sync \in [Sync -> SyncRec] /\ syncLock \in Sync \cup {0}
    /\ patch \in PatchRec /\ patches \in Nat
    /\ holds \in [Router -> Override \cup {"nothing"}]
    /\ adapters \subseteq Adapter /\ envelope \in EnvelopeRec


\* What an administrator set on an instance is what that instance goes by,
\* until somebody sets it anew, the row or the plugin goes, or a sync gives
\* up: a sync that read the row before does not bring the old value back.  What
\* it notifies then reaches the bell and each provider that is there, or nobody,
\* and never a provider that the endpoint is not bound to.
OwnOverrideHolds ==
    /\ \A i \in endpoint : holds[i] = "nothing" \/ Resolved(i) = holds[i] \/ ~GoesByIt(i)
    /\ envelope.meant = "off" => ~envelope.kept /\ envelope.sent = {}
    /\ envelope.meant = "on" => envelope.kept /\ envelope.found \subseteq envelope.sent \cup envelope.left
    /\ envelope.sent \subseteq Targets
=============================================================================

-------------------------- MODULE PluginConvergence --------------------------
(***************************************************************************)
(* One plugin in a cluster: the row of plugin_states, which every instance *)
(* follows, the files in the plugin directories, and on each instance the  *)
(* loaded module with the tasks that change it.  Operators install,        *)
(* upgrade, roll back, enable, disable and uninstall on any instance; the  *)
(* other instances converge through reconcile_cluster_state(), whether a   *)
(* peer's event, the periodic pass or an activation called it.             *)
(*                                                                         *)
(* An action runs from one await to the next.  An instance has one task of *)
(* a kind at a time, as the locks say: installations of the folder         *)
(* (_install_lock), the handler of an install event (install:<folder>),    *)
(* reload_module (the module's lock) and the reconcile.                    *)
(***************************************************************************)
EXTENDS Integers, Sequences

CONSTANTS
    Instance,   \* instances in cluster mode
    Disk,       \* plugin directories
    Mount,      \* the plugin directory of an instance
    Version,    \* released versions
    Latest,     \* the one that "latest" stands for
    Nothing,    \* no version: no files, or a row that names none
    NoRow,      \* plugin_states has no row of the plugin
    NotLoaded,  \* the registry of an instance has no entry of the plugin
    Async,      \* versions whose setup() is a coroutine
    AutoEnable, \* auto_enable_on_install
    MaxEvents,  \* bound on the install events waiting on an instance
    Installed,  \* versions that may be installed at first, Nothing for none
    Scripts     \* bound on what operators do and what goes wrong: sequences of kinds

Kinds == {"install", "upgrade", "rollback", "reload", "uninstall", "enable", "disable",
          "crash", "download fails", "setup fails", "delete fails", "setup is slow", "pass is held up"}

ASSUME ConstantsAssumption ==
    /\ Mount \in [Instance -> Disk]
    /\ Latest \in Version /\ Nothing \notin Version
    /\ Async \subseteq Version
    /\ AutoEnable \in BOOLEAN /\ MaxEvents \in Nat
    /\ Installed \subseteq Version \cup {Nothing}
    /\ Scripts \subseteq Seq(Kinds)

VARIABLES
    row,      \* plugin_states: is_active, installed_version, whether repo_url is set
    files,    \* version of the files in a plugin directory
    previous, \* version retained in .previous_<repo>
    up,       \* instances, the state of their process
    module,   \* the registry's entry of the plugin
    setup,    \* setup() tasks running: of this entry, of one unloaded since
    events,   \* plugin:files_changed install events, by their "lead"
    handler,  \* _handle_plugin_install()
    reload,   \* reload_module(): where it is, and whether the handler called it
    fetch,    \* install_plugin()
    pass,     \* reconcile_cluster_state() that waits for an installation
    read,     \* the row a pass read that has not come to this plugin yet
    gone,     \* handling of an uninstall event
    asked,    \* what operators did so far and what went wrong
    overtaken \* whether a pass removed the plugin that read before the row was there

shared == <<row, files, previous>>
tasks  == <<events, handler, reload, fetch, pass, read, gone>>
vars   == <<shared, up, module, setup, tasks, asked, overtaken>>

Row    == [active: BOOLEAN, version: Version \cup {Nothing}, repo: BOOLEAN]
Entry  == [version: Version, status: {"initializing", "active", "failed", "disabled"},
           persisted: BOOLEAN, reverted: BOOLEAN]
Stage  == {"idle", "record", "load", "reload", "persist", "activate", "restore",
           "verify", "failed", "reverted"}
Task   == [version: Version, upgrade: BOOLEAN, lead: BOOLEAN]
NoTask == [version |-> Nothing, upgrade |-> FALSE, lead |-> FALSE]

\* What stands for no row and for no entry is neither.
ASSUME ValuesAssumption == NoRow \notin Row /\ NotLoaded \notin Entry

Loaded(i)   == module[i] # NotLoaded
OnDisk(i)   == files[Mount[i]]
HasFiles(i) == OnDisk(i) # Nothing
InFlight(i) == handler[i].stage # "idle"
NoHandler   == [stage |-> "idle", lead |-> FALSE, existing |-> FALSE]

Ask(kind) == asked' = Append(asked, kind) /\ asked' \in Scripts

-----------------------------------------------------------------------------
(* Loading, unloading, setup().                                            *)

Fresh(i) == [version |-> OnDisk(i), status |-> "initializing", persisted |-> FALSE, reverted |-> FALSE]

\* The tasks of setup() that unload_module() leaves running.
Orphans(i) == IF setup[i] = {} THEN {} ELSE {"orphan"}

\* _execute_setup() of an entry, and the tasks of setup() then: a coroutine
\* runs on as a task.  One that fails at once stands for a failing function.
SetUp(e) == [e EXCEPT !.status = IF e.version \in Async THEN "initializing" ELSE "active"]
Started(e, ts) == IF e.version \in Async THEN ts \cup {"own"} ELSE ts

Disable(e) == [e EXCEPT !.status = "disabled"]

\* Wrong: the row takes the version that is loaded, as in single mode.
FilledSingle(r, e) ==
    IF r = NoRow THEN [active |-> AutoEnable, version |-> e.version, repo |-> TRUE]
    ELSE [r EXCEPT !.version = IF e.reverted /\ @ # Nothing THEN @ ELSE e.version, !.repo = TRUE]

\* _activate_saved_plugins(): a missing row is inserted, an empty one filled;
\* the row's state is applied.
Filled(r, e) ==
    IF r = NoRow THEN [active |-> AutoEnable, version |-> e.version, repo |-> TRUE]
    ELSE [r EXCEPT !.version = IF @ = Nothing THEN e.version ELSE @, !.repo = TRUE]

Applied(r, e) ==
    IF ~r.active THEN Disable(e) ELSE IF e.status = "active" THEN e ELSE SetUp(e)

\* It finds the entry e (or none) and the tasks ts of setup().
Activate(i, e, ts) ==
    IF e = NotLoaded
    THEN UNCHANGED row /\ module' = [module EXCEPT ![i] = e] /\ setup' = [setup EXCEPT ![i] = ts]
    ELSE LET r == Filled(row, e) IN
         /\ row' = r
         /\ module' = [module EXCEPT ![i] = [Applied(r, e) EXCEPT !.persisted = TRUE]]
         /\ setup' = [setup EXCEPT ![i] = IF r.active /\ e.status # "active" THEN Started(e, ts) ELSE ts]

\* A coroutine ends.  One that belongs to an unloaded entry sets the status of
\* the present one all the same.
SetupEnds(i, t) ==
    /\ t \in setup[i]
    /\ setup' = [setup EXCEPT ![i] = @ \ {t}]
    /\ \E s \in {"active", "failed"} :
          /\ IF s = "failed" THEN Ask("setup fails") ELSE UNCHANGED asked
          /\ module' = [module EXCEPT ![i] = IF Loaded(i) THEN [@ EXCEPT !.status = s] ELSE @]
    /\ UNCHANGED <<shared, up, tasks, overtaken>>

-----------------------------------------------------------------------------
(* The end of a reconcile pass, and of the activation that waited for it.  *)

NoPass == [stage |-> "idle", by |-> "task", version |-> Nothing, upgrade |-> FALSE]
NoRead == [by |-> "nobody", row |-> NoRow]

NoReload == [stage |-> "free", by |-> "operator"]

After(stage) ==
    CASE stage = "reload" -> "persist" [] stage = "restore" -> "verify" [] OTHER -> "idle"

Finish(i, by) ==
    /\ pass' = [pass EXCEPT ![i] = NoPass]
    /\ reload' = [reload EXCEPT ![i] = IF by = "reload" THEN NoReload ELSE @]
    /\ handler' = [handler EXCEPT ![i].stage =
           IF by = "handler" \/ (by = "reload" /\ reload[i].by = "handler") THEN After(@) ELSE @]

-----------------------------------------------------------------------------
(* install_plugin(): download, then the swap of the files.                 *)

Swap(d, v) ==
    /\ files' = [files EXCEPT ![d] = v]
    /\ previous' = [previous EXCEPT ![d] = IF files[d] # Nothing THEN files[d] ELSE @]

Remove(d) ==
    /\ files' = [files EXCEPT ![d] = Nothing]
    /\ previous' = [previous EXCEPT ![d] = Nothing]

FetchEnds(i) ==
    /\ fetch[i] # NoTask /\ Len(events[i]) < MaxEvents
    /\ Swap(Mount[i], fetch[i].version)
    /\ events' = [events EXCEPT ![i] = Append(@, fetch[i].lead)]
    /\ fetch' = [fetch EXCEPT ![i] = NoTask]
    /\ IF fetch[i].lead THEN UNCHANGED <<pass, reload, handler>> ELSE Finish(i, pass[i].by)
    /\ UNCHANGED <<row, up, module, setup, read, gone, asked, overtaken>>

\* A failed plain installation removes what is in the way.
FetchFails(i) ==
    /\ Ask("download fails") /\ fetch[i] # NoTask
    /\ files' = [files EXCEPT ![Mount[i]] = IF fetch[i].upgrade THEN @ ELSE Nothing]
    /\ fetch' = [fetch EXCEPT ![i] = NoTask]
    /\ IF fetch[i].lead THEN UNCHANGED <<pass, reload, handler>> ELSE Finish(i, pass[i].by)
    /\ UNCHANGED <<row, previous, up, module, setup, events, read, gone, overtaken>>

-----------------------------------------------------------------------------
(* reload_module(): unload, a pause, load, activate.                       *)

Unload(i) ==
    /\ module' = [module EXCEPT ![i] = NotLoaded]
    /\ setup' = [setup EXCEPT ![i] = Orphans(i)]

StartReload(i, caller) ==
    /\ reload[i] = NoReload
    /\ reload' = [reload EXCEPT ![i] = [stage |-> "pause", by |-> caller]]
    /\ Unload(i)

\* load_module() refuses when the entry is there again or the files are not.
Reload(i) ==
    /\ reload[i].stage = "pause"
    /\ IF Loaded(i) \/ ~HasFiles(i)
       THEN /\ reload' = [reload EXCEPT ![i] = NoReload]
            /\ handler' = [handler EXCEPT ![i].stage = IF reload[i].by = "handler" THEN "failed" ELSE @]
            /\ UNCHANGED <<row, module, setup>>
       ELSE /\ reload' = [reload EXCEPT ![i].stage = "restore"]
            /\ Activate(i, Fresh(i), setup[i])
            /\ UNCHANGED handler
    /\ UNCHANGED <<files, previous, up, events, fetch, pass, read, gone, asked, overtaken>>

-----------------------------------------------------------------------------
(* _handle_plugin_install(), under the lock of the folder.                 *)

\* The entry is looked up before the first await, the version to record after.
Handle(i) ==
    /\ up[i] = "up" /\ handler[i].stage = "idle" /\ events[i] # <<>>
    /\ events' = [events EXCEPT ![i] = Tail(@)]
    /\ handler' = [handler EXCEPT ![i] =
           [stage |-> IF Head(events[i]) THEN "record" ELSE "load",
            lead |-> Head(events[i]), existing |-> Loaded(i)]]
    /\ UNCHANGED <<shared, up, module, setup, reload, fetch, pass, read, gone, asked, overtaken>>

\* _write_row_version(): before the reload, and only if there is a row.
Record(i) ==
    /\ handler[i].stage = "record"
    /\ row' = IF row = NoRow \/ ~HasFiles(i) THEN row ELSE [row EXCEPT !.version = OnDisk(i)]
    /\ handler' = [handler EXCEPT ![i].stage = "load"]
    /\ UNCHANGED <<files, previous, up, module, setup, events, reload, fetch, pass, read, gone, asked, overtaken>>

\* An entry that is there is reloaded in place; one that was there and is gone
\* makes reload_module() refuse.
Load(i) ==
    /\ handler[i].stage = "load"
    /\ IF Loaded(i)
       THEN /\ StartReload(i, "handler")
            /\ handler' = [handler EXCEPT ![i].stage = "reload"]
       ELSE LET loads == ~handler[i].existing /\ HasFiles(i) IN
            /\ handler[i].existing => reload[i] = NoReload
            /\ handler' = [handler EXCEPT ![i].stage = IF loads THEN "persist" ELSE "failed"]
            /\ module' = [module EXCEPT ![i] = IF loads THEN Fresh(i) ELSE @]
            /\ UNCHANGED <<setup, reload>>
    /\ UNCHANGED <<shared, up, events, fetch, pass, read, gone, asked, overtaken>>

\* _persist_plugin_state(): the row is made, or set active; the version moves
\* only on the instance that leads.
Persisted(i, e) ==
    IF row = NoRow THEN [active |-> TRUE, version |-> e.version, repo |-> TRUE]
    ELSE [active |-> TRUE, repo |-> TRUE,
          version |-> IF handler[i].lead /\ ~e.reverted THEN e.version ELSE row.version]

Persist(i) ==
    /\ handler[i].stage = "persist"
    /\ IF Loaded(i)
       THEN /\ row' = Persisted(i, module[i])
            /\ module' = [module EXCEPT ![i].persisted = TRUE]
       ELSE UNCHANGED <<row, module>>
    /\ handler' = [handler EXCEPT ![i].stage = "activate"]
    /\ UNCHANGED <<files, previous, up, setup, events, reload, fetch, pass, read, gone, asked, overtaken>>

Restore(i) ==
    /\ handler[i].stage = "activate"
    /\ Activate(i, module[i], setup[i])
    /\ handler' = [handler EXCEPT ![i].stage = "restore"]
    /\ UNCHANGED <<files, previous, up, events, reload, fetch, pass, read, gone, asked, overtaken>>

\* _verify_after_install() waits for setup(), for some time, and passes when it
\* is through; a disabled plugin passes.
Verify(i) ==
    /\ handler[i].stage = "verify"
    /\ \/ /\ Loaded(i) /\ module[i].status \in {"active", "disabled"}
          /\ handler' = [handler EXCEPT ![i].stage = "idle"]
          /\ UNCHANGED asked
       \/ /\ Loaded(i) => module[i].status \in {"failed", "initializing"}
          /\ IF Loaded(i) /\ module[i].status = "initializing" /\ setup[i] # {}
             THEN Ask("setup is slow") ELSE UNCHANGED asked
          /\ handler' = [handler EXCEPT ![i].stage = "failed"]
    /\ UNCHANGED <<shared, up, module, setup, events, reload, fetch, pass, read, gone, overtaken>>

\* Wrong: a fresh installation has nothing to go back to.
RevertAlways(i) ==
    /\ handler[i].stage = "failed"
    /\ files' = [files EXCEPT ![Mount[i]] = previous[Mount[i]]]
    /\ previous' = [previous EXCEPT ![Mount[i]] = Nothing]
    /\ handler' = [handler EXCEPT ![i].stage = "reverted"]
    /\ Activate(i, [version |-> previous[Mount[i]], status |-> "initializing",
                        persisted |-> FALSE, reverted |-> Loaded(i)], Orphans(i))
    /\ UNCHANGED <<up, events, reload, fetch, pass, read, gone, asked, overtaken>>

\* _auto_revert(): the retained version comes back, here only.
Revert(i) ==
    /\ handler[i].stage = "failed"
    /\ IF previous[Mount[i]] = Nothing
       THEN /\ handler' = [handler EXCEPT ![i].stage = "idle"]
            /\ UNCHANGED <<row, files, previous, module, setup>>
       ELSE /\ files' = [files EXCEPT ![Mount[i]] = previous[Mount[i]]]
            /\ previous' = [previous EXCEPT ![Mount[i]] = Nothing]
            /\ handler' = [handler EXCEPT ![i].stage = "reverted"]
            /\ Activate(i, [version |-> previous[Mount[i]], status |-> "initializing",
                            persisted |-> FALSE, reverted |-> Loaded(i)], Orphans(i))
    /\ UNCHANGED <<up, events, reload, fetch, pass, read, gone, asked, overtaken>>

-----------------------------------------------------------------------------
(* reconcile_cluster_state(): called by a task (an event of a peer, every  *)
(* five minutes), or awaited by an activation.                             *)

Calls(i, by) ==
    /\ pass[i] = NoPass /\ read[i] = NoRead
    /\ CASE by = "reload"  -> reload[i].stage = "restore"
         [] by = "handler" -> handler[i].stage \in {"restore", "reverted"}
         [] by = "task"    -> up[i] = "up"

\* An entry that is not loaded is loaded from disk, except during an install.
Found(i) ==
    IF Loaded(i) THEN module[i]
    ELSE IF HasFiles(i) /\ ~InFlight(i) THEN Fresh(i) ELSE NotLoaded

\* Wrong: an entry that was never activated counts as seen.
KnownWhenLoaded(i) == Loaded(i)

\* Activated before, thus with a row.
Known(i) == Loaded(i) /\ module[i].persisted

\* Wrong: a version once verified bad is not tried again.
BehindUnlessReverted(i, r, e) ==
    r.repo /\ r.version \notin {Nothing, e.version, OnDisk(i)} /\ ~InFlight(i) /\ ~e.reverted

\* The loaded version is not the row's, and no installation is under way.
Behind(i, r, e) ==
    r.repo /\ r.version \notin {Nothing, e.version, OnDisk(i)} /\ ~InFlight(i)

\* The version of a row that names none is the latest.
Want(i, by, r, upgrade) ==
    /\ pass' = [pass EXCEPT ![i] = [stage |-> "want", by |-> by, upgrade |-> upgrade,
                                   version |-> IF r.version = Nothing THEN Latest ELSE r.version]]
    /\ UNCHANGED <<files, previous, setup, handler, reload, gone>>

\* The row is gone, and this instance has seen it: files and module go too.
PassRemoves(i, by) ==
    /\ IF HasFiles(i)
       THEN /\ Remove(Mount[i])
            /\ gone' = [gone EXCEPT ![i] = "unload"]
            /\ UNCHANGED <<module, setup>>
       ELSE /\ Unload(i)
            /\ UNCHANGED <<files, previous, gone>>
    /\ Finish(i, by)

\* toggle_module(persist=False): only from a state that is neither active nor
\* on its way there.
PassToggles(i, by, r, e) ==
    LET here == e.status \in {"initializing", "active"}
    IN  /\ module' = [module EXCEPT ![i] =
              IF r.active /\ ~here THEN SetUp(e) ELSE IF ~r.active /\ here THEN Disable(e) ELSE e]
        /\ setup' = [setup EXCEPT ![i] = IF r.active /\ ~here THEN Started(e, @) ELSE @]
        /\ Finish(i, by)
        /\ UNCHANGED <<files, previous, gone>>

\* A row of a plugin that is not on disk is installed, if it is active.
Missing(i, r) == ~Loaded(i) /\ ~HasFiles(i) /\ r.repo /\ r.active

PassOnRow(i, by, r) ==
    LET e == Found(i) IN
    IF e = NotLoaded
    THEN IF Missing(i, r)
         THEN Want(i, by, r, FALSE) /\ UNCHANGED module
         ELSE Finish(i, by) /\ UNCHANGED <<files, previous, module, setup, gone>>
    ELSE IF Behind(i, r, e)
         THEN Want(i, by, r, TRUE) /\ module' = [module EXCEPT ![i] = e]
         ELSE PassToggles(i, by, r, e)

PassOn(i, by, r) ==
    /\ IF r # NoRow THEN PassOnRow(i, by, r)
       ELSE IF Known(i) THEN PassRemoves(i, by)
       ELSE Finish(i, by) /\ UNCHANGED <<files, previous, module, setup, gone>>
    /\ UNCHANGED <<row, up, events, fetch>>

\* A pass that comes to this plugin at once.
Pass(i, by) ==
    /\ Calls(i, by)
    /\ PassOn(i, by, row)
    /\ UNCHANGED <<read, asked, overtaken>>

\* All rows are read before the first plugin is dealt with: one that awaits the
\* installations of others acts on a row it read before.
PassReads(i, by) ==
    /\ Ask("pass is held up") /\ Calls(i, by)
    /\ read' = [read EXCEPT ![i] = [by |-> by, row |-> row]]
    /\ UNCHANGED <<shared, up, module, setup, events, handler, reload, fetch, pass, gone, overtaken>>

PassActs(i) ==
    /\ read[i] # NoRead
    /\ PassOn(i, read[i].by, read[i].row)
    /\ read' = [read EXCEPT ![i] = NoRead]
    /\ overtaken' = (overtaken \/ (read[i].row = NoRow /\ row # NoRow /\ Known(i)))
    /\ UNCHANGED asked

\* Under the lock of installations: a plain one of a plugin that has files by
\* now is skipped.
PassFetches(i) ==
    /\ pass[i].stage = "want" /\ fetch[i] = NoTask
    /\ IF HasFiles(i) /\ ~pass[i].upgrade
       THEN Finish(i, pass[i].by) /\ UNCHANGED fetch
       ELSE /\ fetch' = [fetch EXCEPT ![i] =
                   [version |-> pass[i].version, upgrade |-> pass[i].upgrade, lead |-> FALSE]]
            /\ pass' = [pass EXCEPT ![i].stage = "fetch"]
            /\ UNCHANGED <<handler, reload>>
    /\ UNCHANGED <<shared, up, module, setup, events, read, gone, asked, overtaken>>

-----------------------------------------------------------------------------
(* The handling of an uninstall event.                                     *)

GoneUnloads(i) ==
    /\ gone[i] = "unload"
    /\ Unload(i)
    /\ gone' = [gone EXCEPT ![i] = "delete"]
    /\ UNCHANGED <<shared, up, events, handler, reload, fetch, pass, read, asked, overtaken>>

\* _delete_plugin_state(), which is repeated and may fail for good.
GoneDeletes(i) ==
    /\ gone[i] = "delete"
    /\ gone' = [gone EXCEPT ![i] = "no"]
    /\ \/ row' = NoRow /\ UNCHANGED asked
       \/ Ask("delete fails") /\ UNCHANGED row
    /\ UNCHANGED <<files, previous, up, module, setup, events, handler, reload, fetch, pass, read, overtaken>>

-----------------------------------------------------------------------------
(* Operators, crashes, restarts.                                           *)

Install(i, v) ==
    /\ Ask("install") /\ up[i] = "up" /\ fetch[i] = NoTask /\ ~HasFiles(i)
    /\ fetch' = [fetch EXCEPT ![i] = [version |-> v, upgrade |-> FALSE, lead |-> TRUE]]
    /\ UNCHANGED <<shared, up, module, setup, events, handler, reload, pass, read, gone, overtaken>>

Upgrade(i, v) ==
    /\ Ask("upgrade") /\ up[i] = "up" /\ fetch[i] = NoTask /\ Loaded(i)
    /\ fetch' = [fetch EXCEPT ![i] = [version |-> v, upgrade |-> TRUE, lead |-> TRUE]]
    /\ UNCHANGED <<shared, up, module, setup, events, handler, reload, pass, read, gone, overtaken>>

\* rollback_plugin(): an install event like that of an operator's upgrade.
Rollback(i) ==
    LET d == Mount[i] IN
    /\ Ask("rollback") /\ up[i] = "up" /\ Loaded(i) /\ previous[d] # Nothing
    /\ Len(events[i]) < MaxEvents
    /\ files' = [files EXCEPT ![d] = previous[d]]
    /\ previous' = [previous EXCEPT ![d] = Nothing]
    /\ events' = [events EXCEPT ![i] = Append(@, TRUE)]
    /\ UNCHANGED <<row, up, module, setup, handler, reload, fetch, pass, read, gone, overtaken>>

OperatorReloads(i) ==
    /\ Ask("reload") /\ up[i] = "up" /\ Loaded(i)
    /\ StartReload(i, "operator")
    /\ UNCHANGED <<shared, up, events, handler, fetch, pass, read, gone, overtaken>>

Uninstall(i) ==
    /\ Ask("uninstall") /\ up[i] = "up" /\ Loaded(i) /\ HasFiles(i)
    /\ Remove(Mount[i])
    /\ gone' = [gone EXCEPT ![i] = "unload"]
    /\ UNCHANGED <<row, up, module, setup, events, handler, reload, fetch, pass, read, overtaken>>

\* toggle_module(): a row it makes names neither version nor repository.
Toggle(i, active) ==
    /\ Ask(IF active THEN "enable" ELSE "disable") /\ up[i] = "up" /\ Loaded(i)
    /\ row' = IF row = NoRow THEN [active |-> active, version |-> Nothing, repo |-> FALSE]
              ELSE [row EXCEPT !.active = active]
    /\ module' = [module EXCEPT ![i] = IF active THEN SetUp(@) ELSE Disable(@)]
    /\ setup' = [setup EXCEPT ![i] = IF active THEN Started(module[i], @) ELSE @]
    /\ UNCHANGED <<files, previous, up, tasks, overtaken>>

\* A process dies, in the middle of a swap for instance.
Crash(i) ==
    /\ Ask("crash") /\ up[i] # "down"
    /\ up' = [up EXCEPT ![i] = "down"]
    /\ module' = [module EXCEPT ![i] = NotLoaded]
    /\ setup' = [setup EXCEPT ![i] = {}]
    /\ events' = [events EXCEPT ![i] = <<>>]
    /\ handler' = [handler EXCEPT ![i] = NoHandler]
    /\ reload' = [reload EXCEPT ![i] = NoReload]
    /\ fetch' = [fetch EXCEPT ![i] = NoTask]
    /\ pass' = [pass EXCEPT ![i] = NoPass]
    /\ read' = [read EXCEPT ![i] = NoRead]
    /\ gone' = [gone EXCEPT ![i] = "no"]
    /\ \/ UNCHANGED files
       \/ fetch[i] # NoTask /\ \E v \in {Nothing, fetch[i].version} : files' = [files EXCEPT ![Mount[i]] = v]
    /\ UNCHANGED <<row, previous, overtaken>>

\* load_all(), and the activation it starts as a task.
Boot(i) ==
    /\ up[i] = "down"
    /\ up' = [up EXCEPT ![i] = "booting"]
    /\ module' = [module EXCEPT ![i] = IF HasFiles(i) THEN Fresh(i) ELSE NotLoaded]
    /\ UNCHANGED <<shared, setup, tasks, asked, overtaken>>

BootActivates(i) ==
    /\ up[i] = "booting"
    /\ up' = [up EXCEPT ![i] = "up"]
    /\ Activate(i, module[i], setup[i])
    /\ UNCHANGED <<files, previous, events, handler, reload, fetch, pass, read, gone, asked, overtaken>>

-----------------------------------------------------------------------------
\* The plugin is installed nowhere, or everywhere and active.
Init ==
    /\ \E v \in Installed :
          /\ row = IF v = Nothing THEN NoRow ELSE [active |-> TRUE, version |-> v, repo |-> TRUE]
          /\ files = [d \in Disk |-> v]
          /\ module = [i \in Instance |-> IF v = Nothing THEN NotLoaded ELSE
                [version |-> v, status |-> "active", persisted |-> TRUE, reverted |-> FALSE]]
    /\ previous = [d \in Disk |-> Nothing]
    /\ up = [i \in Instance |-> "up"]
    /\ setup = [i \in Instance |-> {}]
    /\ events = [i \in Instance |-> <<>>]
    /\ handler = [i \in Instance |-> NoHandler]
    /\ reload = [i \in Instance |-> NoReload]
    /\ fetch = [i \in Instance |-> NoTask]
    /\ pass = [i \in Instance |-> NoPass]
    /\ read = [i \in Instance |-> NoRead]
    /\ gone = [i \in Instance |-> "no"]
    /\ asked = <<>>
    /\ overtaken = FALSE

HandlerStep(i) ==
    Handle(i) \/ Record(i) \/ Load(i) \/ Persist(i) \/ Restore(i) \/ Verify(i) \/ Revert(i)
Awaited(i)   == Pass(i, "reload") \/ Pass(i, "handler")
PassStep(i)  == Pass(i, "task") \/ Awaited(i) \/ PassActs(i) \/ PassFetches(i)
HeldUp(i)    == \E by \in {"task", "reload", "handler"} : PassReads(i, by)
SetupStep(i) == SetupEnds(i, "own") \/ SetupEnds(i, "orphan")
FetchStep(i) == FetchEnds(i) \/ FetchFails(i)
GoneStep(i)  == GoneUnloads(i) \/ GoneDeletes(i)
BootStep(i)  == Boot(i) \/ BootActivates(i)
OperatorStep(i) ==
    \/ \E v \in Version : Install(i, v) \/ Upgrade(i, v)
    \/ Rollback(i) \/ OperatorReloads(i) \/ Uninstall(i)
    \/ \E active \in BOOLEAN : Toggle(i, active)

Next ==
    \E i \in Instance :
        \/ HandlerStep(i) \/ Reload(i) \/ PassStep(i) \/ HeldUp(i) \/ FetchStep(i) \/ GoneStep(i) \/ BootStep(i)
        \/ SetupStep(i) \/ OperatorStep(i) \/ Crash(i)

Spec == Init /\ [][Next]_vars

\* Tasks go on, the periodic pass comes again and again, and who waits for the
\* lock of the reconcile gets it in turn.
Fairness ==
    \A i \in Instance :
        /\ WF_vars(HandlerStep(i)) /\ WF_vars(PassStep(i)) /\ SF_vars(Awaited(i))
        /\ WF_vars(FetchStep(i)) /\ WF_vars(GoneStep(i)) /\ WF_vars(SetupStep(i))
        /\ WF_vars(Reload(i) \/ BootStep(i))

FairSpec == Spec /\ Fairness

-----------------------------------------------------------------------------
(* Properties.                                                             *)

TypeOK ==
    /\ row \in Row \cup {NoRow}
    /\ files \in [Disk -> Version \cup {Nothing}]
    /\ previous \in [Disk -> Version \cup {Nothing}]
    /\ up \in [Instance -> {"up", "down", "booting"}]
    /\ module \in [Instance -> Entry \cup {NotLoaded}]
    /\ setup \in [Instance -> SUBSET {"own", "orphan"}]
    /\ events \in [Instance -> Seq(BOOLEAN)]
    /\ \A i \in Instance : Len(events[i]) <= MaxEvents
    /\ handler \in [Instance -> [stage: Stage, lead: BOOLEAN, existing: BOOLEAN]]
    /\ reload \in [Instance -> [stage: {"free", "pause", "restore"}, by: {"operator", "handler"}]]
    /\ fetch \in [Instance -> Task \cup {NoTask}]
    /\ pass \in [Instance -> {NoPass} \cup
                     [stage: {"want", "fetch"}, by: {"task", "reload", "handler"},
                      version: Version, upgrade: BOOLEAN]]
    /\ read \in [Instance -> {NoRead} \cup [by: {"task", "reload", "handler"}, row: Row \cup {NoRow}]]
    /\ gone \in [Instance -> {"no", "unload", "delete"}]
    /\ asked \in Seq(Kinds) /\ overtaken \in BOOLEAN

\* What an instance has when it follows the row.
Follows(i) ==
    IF row = NoRow THEN ~Loaded(i)
    ELSE IF Loaded(i)
    THEN /\ module[i].version = row.version
         /\ module[i].status = IF row.active THEN "active" ELSE "disabled"
    ELSE ~row.active

Asked(kind) == \E n \in 1..Len(asked) : asked[n] = kind

\* Once the operators leave it alone, every instance comes to what
\* plugin_states says and stays there, and its installations end: the locks of
\* a folder, of a module and of the reconcile never wait in a circle.  Unless a
\* pass removed what was just installed, see NothingLost: from then on instances
\* may install and remove it in turns.
Converges == <>overtaken \/ <>[](\A i \in Instance : Follows(i) /\ ~InFlight(i))

\* The row of an installed plugin stays, and with it the plugin on every
\* instance, unless an operator uninstalls it: a pass takes no plugin whose row
\* is being made for one whose row is gone.  The exception is a pass that read
\* the rows before this one was there and came to the plugin after.
NothingLost ==
    [][~Asked("uninstall")' /\ ~overtaken' => (row # NoRow => row' # NoRow)]_vars

\* installed_version moves only in the handler of an install event that leads,
\* to the version this instance has on disk or has loaded, never to one that
\* was put back because the new one failed.
LeadMovesVersion ==
    [][row # NoRow /\ row' # NoRow /\ row.version # Nothing /\ row'.version # row.version =>
          \E i \in Instance :
              /\ handler[i].lead
              /\ \/ handler[i].stage = "record" /\ row'.version = OnDisk(i)
                 \/ /\ handler[i].stage = "persist" /\ Loaded(i) /\ ~module[i].reverted
                    /\ row'.version = module[i].version]_vars
=============================================================================

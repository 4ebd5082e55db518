----------------------------- MODULE PluginStatus -----------------------------
(***************************************************************************)
(* The runtime status of a plugin: set_status(), maintenance windows, the  *)
(* gate that answers its routes with 503 while it is blocking, and what    *)
(* the bus is told.                                                        *)
(*                                                                         *)
(* A warm-up runs in setup() or in a task of the plugin and ends with      *)
(* set_status("ready"), unless it dies; maintenance windows may overlap    *)
(* with it and with each other.  The gate looks at the status    *)
(* only while the plugin is active.                                        *)
(***************************************************************************)
EXTENDS Integers

CONSTANT Windows  \* bound on the maintenance windows open at a time

ASSUME WindowsAssumption == Windows \in Nat

Phase == {"starting", "ready", "degraded", "maintenance"}
Ready == [phase |-> "ready", blocking |-> FALSE, progress |-> 0]

VARIABLES
    life,    \* status of the registry's entry
    runtime, \* ModuleContext._runtime
    told,    \* the last plugin:runtime_status on the bus
    warmup,  \* what warms up: "setup", "task", a "dead" task, or "none"
    windows  \* maintenance windows open

statusVars == <<life, runtime, told, warmup, windows>>

StatusInit ==
    /\ life = "initializing"
    /\ runtime = Ready /\ told = Ready
    /\ warmup = "none" /\ windows = 0

Changed(new) == runtime.phase # new.phase \/ runtime.blocking # new.blocking

\* Wrong: whatever comes within a second of the last message is held back.
HeldBackAlways(new, recent) == recent

\* Progress within a second of the last message is held back.
HeldBack(new, recent) == ~Changed(new) /\ recent

\* set_status(): only "starting" and "maintenance" block.
Reports(phase, blocking, progress) ==
    LET new == [phase |-> phase, progress |-> progress,
                   blocking |-> blocking /\ phase \in {"starting", "maintenance"}]
    IN  /\ runtime' = new
        /\ \E recent \in BOOLEAN : told' = IF HeldBack(new, recent) THEN told ELSE new

\* reset_runtime()
Reset ==
    IF runtime.phase = "ready" THEN UNCHANGED <<runtime, told>>
    ELSE runtime' = Ready /\ told' = Ready

WarmUp(by, blocking) ==
    /\ warmup = "none" /\ life \in {"initializing", "active"} /\ (by = "setup" => life = "initializing")
    /\ warmup' = by
    /\ Reports("starting", blocking, 0)
    /\ UNCHANGED <<life, windows>>

Progress ==
    /\ warmup \in {"setup", "task"}
    /\ Reports("starting", runtime.blocking, 1)
    /\ UNCHANGED <<life, warmup, windows>>

WarmUpEnds ==
    /\ warmup \in {"setup", "task"}
    /\ warmup' = "none"
    /\ Reports("ready", FALSE, 0)
    /\ UNCHANGED <<life, windows>>

\* A task that raises is logged by the bus, and by nobody else.
WarmUpDies ==
    /\ warmup = "task"
    /\ warmup' = "dead"
    /\ UNCHANGED <<life, runtime, told, windows>>

Degrades ==
    /\ life = "active" /\ warmup = "none" /\ windows = 0
    /\ Reports("degraded", TRUE, 0)
    /\ UNCHANGED <<life, warmup, windows>>

OpenWindow(blocking) ==
    /\ life = "active" /\ windows < Windows
    /\ windows' = windows + 1
    /\ Reports("maintenance", blocking, 0)
    /\ UNCHANGED <<life, warmup>>

\* Also one that raises or is cancelled.
CloseWindow ==
    /\ windows > 0
    /\ windows' = windows - 1
    /\ Reports("ready", FALSE, 0)
    /\ UNCHANGED <<life, warmup>>

\* _execute_setup(), _safe_async_setup(): a failure resets the status.
FailureResets == Reset

SetupReturns(ok) ==
    /\ life = "initializing"
    /\ life' = IF ok THEN "active" ELSE "failed"
    /\ IF ok THEN UNCHANGED <<runtime, told, warmup>>
       ELSE FailureResets /\ warmup' = IF warmup = "setup" THEN "none" ELSE warmup
    /\ UNCHANGED windows

\* dispose() cancels the tasks and resets the status; a warm-up in a setup()
\* goes on, as do windows until they are left.
DisablesIt ==
    /\ life \in {"initializing", "active", "failed"}
    /\ life' = "disabled"
    /\ Reset
    /\ warmup' = IF warmup = "setup" THEN "setup" ELSE "none"
    /\ UNCHANGED windows

EnablesIt ==
    /\ life \in {"disabled", "failed"}
    /\ life' = "initializing"
    /\ UNCHANGED <<runtime, told, warmup, windows>>

StatusNext ==
    \/ \E by \in {"setup", "task"}, blocking \in BOOLEAN : WarmUp(by, blocking)
    \/ Progress \/ WarmUpEnds \/ WarmUpDies \/ Degrades
    \/ \E blocking \in BOOLEAN : OpenWindow(blocking)
    \/ CloseWindow
    \/ \E ok \in BOOLEAN : SetupReturns(ok)
    \/ DisablesIt \/ EnablesIt

StatusSpec == StatusInit /\ [][StatusNext]_statusVars
-----------------------------------------------------------------------------
Runtime == [phase : Phase, blocking : BOOLEAN, progress : {0, 1}]

StatusTypeOK ==
    /\ life \in {"initializing", "active", "failed", "disabled"}
    /\ runtime \in Runtime /\ told \in Runtime
    /\ warmup \in {"setup", "task", "dead", "none"}
    /\ windows \in 0..Windows

\* The phase and whether it blocks are what the bus was told last; only the
\* progress may be behind.
PhaseIsTold == ~Changed(told)

\* The gate of an active plugin is closed only by a window or a warm-up that
\* has not ended: a setup() that failed leaves none behind for the next one.
ClosedForAReason ==
    life = "active" /\ runtime.blocking => warmup # "none" \/ windows > 0

\* Users wait at the gate of a plugin for a reason that exists, and the reason
\* they are given is the last one.
GateHasAReason == PhaseIsTold /\ ClosedForAReason
=============================================================================

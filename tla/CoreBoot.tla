------------------------------ MODULE CoreBoot ------------------------------
(***************************************************************************)
(* How an instance in cluster mode comes up: Vault is checked, initialised *)
(* or unsealed (vault_service.py, auto_unseal.py), then the database is    *)
(* sought, watched and sought again (db_service.py), every connection      *)
(* bootstraps IAM (auth_service.py) and starts the coordinator             *)
(* (cluster_service.py), and IAM releases the modules (boot_service.py).   *)
(*                                                                         *)
(* The services talk over the bus: an asynchronous subscriber is a task of *)
(* its own.  An action is a stretch between two awaits; the subscribers of *)
(* db:connected and iam:ready run up to their first await in the step that *)
(* emits, those of vault:opened in a step of their own (opened).           *)
(***************************************************************************)
EXTENDS Integers

CONSTANTS
    MasterKey,    \* LYNDRIX_MASTER_KEY is set
    MaxRetries,   \* DatabaseService._max_retries
    Happens,      \* what may fail around the instance
    MaxTroubles   \* bound on what fails

Failures == {"vault", "mount", "database", "refusal", "reconnect", "bootstrap", "modules", "start"}

ASSUME ConstantsAssumption ==
    /\ MasterKey \in BOOLEAN
    /\ MaxRetries \in Nat \ {0}
    /\ Happens \subseteq Failures
    /\ MaxTroubles \in Nat

MaxPending == 2                \* bound on vault:opened events on their way
Chain      == {1, 2}           \* slots for the tasks that attend to the database
Starter    == {"first", "second", "retry"}   \* calls of _start_once
Checker    == {"boot", "later"}              \* calls of run_preflight

VARIABLES
    vault,        \* Vault itself: "uninit", "sealed" or "open"
    vaultUp,      \* Vault can be reached
    database,     \* the database: "up", "down", or it "refuses" the credentials
    troubles,     \* what failed so far
    uiState,      \* VaultService.ui_state
    unlocked,     \* VaultService.is_connected
    health,       \* where check_vault_health is
    halted,       \* history: it ended in vault:auth_failed
    unlock,       \* the request to initialise or unseal, and where it is
    opened,       \* vault:opened on their way to init_db_connection
    engine,       \* DatabaseService.engine is set
    connected,    \* DatabaseService.is_connected
    wasConnected, \* DatabaseService.was_connected
    gaveUp,       \* DatabaseService.failure_reason is set
    chain,        \* the connection loops and watchdogs
    current,      \* the slot of _connection_task, 0 for None
    iam,          \* bootstraps under way
    iamReady, iamError, phase,    \* BootService
    loads,        \* history: load_all calls that succeeded
    starting,     \* where the calls of _start_once are
    overlap,      \* history: two inline calls overlapped
    polling,      \* poll loops of the coordinator that run
    coordinator,  \* Coordinator.started
    started, startError,          \* ClusterService
    beating,      \* the heartbeat loop runs
    checks,       \* where the calls of run_preflight are
    checked,      \* preflight_at is set
    unfit         \* the check "coordinator" failed

envVars     == <<vault, vaultUp, database, troubles>>
vaultVars   == <<uiState, unlocked, health, halted, unlock>>
dbVars      == <<engine, connected, wasConnected, gaveUp, chain, current>>
bootVars    == <<iam, iamReady, iamError, phase, loads>>
clusterVars == <<starting, overlap, polling, coordinator, started, startError, beating>>
checkVars   == <<checks, checked, unfit>>

vars == <<envVars, vaultVars, opened, dbVars, bootVars, clusterVars, checkVars>>

-----------------------------------------------------------------------------
(* The surroundings.                                                       *)

Trouble(what) ==
    /\ what \in Happens /\ troubles < MaxTroubles
    /\ troubles' = troubles + 1

\* A call fails by itself, or because what it needs is away.
Fails(what, available) ==
    IF available THEN Trouble(what) ELSE UNCHANGED troubles

VaultGoes ==
    /\ vaultUp /\ Trouble("vault")
    /\ vaultUp' = FALSE
    /\ UNCHANGED <<vault, database, vaultVars, opened, dbVars, bootVars, clusterVars, checkVars>>

VaultReturns ==
    /\ ~vaultUp
    /\ vaultUp' = TRUE
    /\ UNCHANGED <<vault, database, troubles, vaultVars, opened, dbVars, bootVars, clusterVars, checkVars>>

\* Vault restarts sealed, or an instance elsewhere initialises or unseals it.
VaultTurns(v) ==
    /\ v # vault /\ v # "uninit" /\ Trouble("vault")
    /\ vault' = v
    /\ UNCHANGED <<vaultUp, database, vaultVars, opened, dbVars, bootVars, clusterVars, checkVars>>

DatabaseTurns(s) ==
    /\ s # database
    /\ \/ s = "up" /\ UNCHANGED troubles
       \/ s = "down" /\ Trouble("database")
       \/ s = "refuses" /\ Trouble("refusal")
    /\ database' = s
    /\ UNCHANGED <<vault, vaultUp, vaultVars, opened, dbVars, bootVars, clusterVars, checkVars>>

-----------------------------------------------------------------------------
(* VaultService.                                                           *)

NoRequest     == [kind |-> "unseal", stage |-> "none"]
Request(kind) == [kind |-> kind, stage |-> IF kind = "init" THEN "setup" ELSE "submit"]

\* Auto-unseal asks by itself when it holds the key.  One request is on its
\* way at a time.
AutoAsks(kind) == IF MasterKey /\ unlock = NoRequest THEN Request(kind) ELSE unlock

HealthError ==
    /\ health \in {"initialized", "sealed"} /\ ~vaultUp
    /\ uiState' = "error"
    /\ health' = "retry"
    /\ UNCHANGED <<envVars, unlocked, halted, unlock, opened, dbVars, bootVars, clusterVars, checkVars>>

HealthRetry ==
    /\ health = "retry"
    /\ health' = IF unlocked THEN "none" ELSE "initialized"
    /\ UNCHANGED <<envVars, uiState, unlocked, halted, unlock, opened, dbVars, bootVars, clusterVars, checkVars>>

IsInitialized ==
    /\ health = "initialized" /\ vaultUp
    /\ IF vault = "uninit"
         THEN /\ uiState' = "needs_init"
              /\ health' = "none"
              /\ unlock' = AutoAsks("init")
         ELSE /\ health' = "sealed"
              /\ UNCHANGED <<uiState, unlock>>
    /\ UNCHANGED <<envVars, unlocked, halted, opened, dbVars, bootVars, clusterVars, checkVars>>

IsSealed ==
    /\ health = "sealed" /\ vaultUp
    /\ IF vault = "open"
         THEN /\ uiState' = "ready"
              /\ unlocked' = TRUE
              /\ health' = "mount"
              /\ UNCHANGED unlock
         ELSE /\ uiState' = "needs_unseal"
              /\ health' = "none"
              /\ unlock' = AutoAsks("unseal")
              /\ UNCHANGED unlocked
    /\ UNCHANGED <<envVars, halted, opened, dbVars, bootVars, clusterVars, checkVars>>

\* A failure, be it of the token or of the connection, halts the boot with
\* vault:auth_failed, and nobody retries.
MountCheck ==
    /\ health = "mount" /\ opened < MaxPending
    /\ health' = "none"
    /\ \/ /\ vaultUp
          /\ opened' = opened + 1
          /\ UNCHANGED <<halted, troubles>>
       \/ /\ Fails("mount", vaultUp)
          /\ halted' = TRUE
          /\ UNCHANGED opened
    /\ UNCHANGED <<vault, vaultUp, database, uiState, unlocked, unlock, dbVars, bootVars, clusterVars, checkVars>>

\* The API lets through what Vault's state allows.
OperatorAsks(kind) ==
    /\ vaultUp /\ unlock = NoRequest
    /\ vault = IF kind = "init" THEN "uninit" ELSE "sealed"
    /\ unlock' = Request(kind)
    /\ UNCHANGED <<envVars, uiState, unlocked, health, halted, opened, dbVars, bootVars, clusterVars, checkVars>>

\* setup_fresh_vault stores the keys.
SetUpVault ==
    /\ unlock.stage = "setup" /\ vaultUp /\ vault = "uninit"
    /\ vault' = "sealed"
    /\ unlock' = [unlock EXCEPT !.stage = "submit"]
    /\ UNCHANGED <<vaultUp, database, troubles, uiState, unlocked, health, halted, opened, dbVars, bootVars, clusterVars, checkVars>>

SubmitKeys ==
    /\ unlock.stage = "submit" /\ vaultUp /\ vault # "uninit"
    /\ vault' = "open"
    /\ unlock' = [unlock EXCEPT !.stage = "mount"]
    /\ UNCHANGED <<vaultUp, database, troubles, uiState, unlocked, health, halted, opened, dbVars, bootVars, clusterVars, checkVars>>

\* handle_init ignores the outcome of its mount check.
Unlocks ==
    /\ unlock.stage = "mount" /\ opened < MaxPending
    /\ unlock.kind = "init" \/ vaultUp
    /\ unlock' = NoRequest
    /\ uiState' = "ready"
    /\ unlocked' = TRUE
    /\ opened' = opened + 1
    /\ UNCHANGED <<envVars, health, halted, dbVars, bootVars, clusterVars, checkVars>>

\* A wrong or weak key, or Vault's refusal: init_failed or unseal_failed.
UnlockFails ==
    /\ unlock.stage \in {"setup", "submit"} \cup (IF unlock.kind = "unseal" THEN {"mount"} ELSE {})
    /\ unlock' = NoRequest
    /\ UNCHANGED <<envVars, uiState, unlocked, health, halted, opened, dbVars, bootVars, clusterVars, checkVars>>

-----------------------------------------------------------------------------
(* DatabaseService.                                                        *)

NoTask   == [kind |-> "none", tries |-> 0, reconnecting |-> FALSE]
Watchdog == [kind |-> "watchdog", tries |-> 0, reconnecting |-> FALSE]
Loop     == [kind |-> "loop", tries |-> 0, reconnecting |-> wasConnected]

\* A wrong variant of LoopActive.
LoopForgotten == FALSE

LoopActive == current # 0 /\ chain[current].kind = "loop"

InitDbConnection ==
    /\ opened > 0
    /\ opened' = opened - 1
    /\ IF engine /\ (connected \/ LoopActive)
         THEN UNCHANGED dbVars
         ELSE \E c \in Chain :
                /\ chain[c] = NoTask
                /\ engine' = TRUE
                /\ chain' = [chain EXCEPT ![c] = Loop]
                /\ current' = c
                /\ gaveUp' = FALSE
                /\ UNCHANGED <<connected, wasConnected>>
    /\ UNCHANGED <<envVars, vaultVars, bootVars, clusterVars, checkVars>>

\* on_db_connected: _start_task is the retry task; the first attempt runs
\* inline, in no field.  And a wrong variant.
AwaitedNever == FALSE
Awaited == starting["retry"] # "none"

ClusterWakes ==
    IF started \/ Awaited
      THEN UNCHANGED <<starting, overlap>>
      ELSE \E s \in {"first", "second"} :
             /\ starting[s] = "none"
             /\ starting' = [starting EXCEPT ![s] = IF coordinator THEN "beat" ELSE "schema"]
             /\ overlap' = (overlap \/ \E t \in {"first", "second"} : starting[t] # "none")

\* db:connected reaches IAM and the cluster.
Connects(c) ==
    /\ chain[c].kind = "loop" /\ ~connected /\ database = "up"
    /\ connected' = TRUE
    /\ wasConnected' = TRUE
    /\ chain' = [chain EXCEPT ![c] = Watchdog]
    /\ iam < MaxPending
    /\ iam' = iam + 1
    /\ ClusterWakes
    /\ UNCHANGED <<envVars, vaultVars, opened, engine, gaveUp, current, iamReady, iamError, phase, loads,
                   polling, coordinator, started, startError, beating, checkVars>>

\* A wrong variant of Exhausted.
ExhaustedLate(c) == chain[c].tries >= MaxRetries /\ ~chain[c].reconnecting

Exhausted(c) == chain[c].tries + 1 >= MaxRetries /\ ~chain[c].reconnecting

\* Access denied, an unknown database or host: never retried.
Permanent == database = "refuses"

\* The loop tries again, or gives up and says why.
ConnectFails(c) ==
    /\ chain[c].kind = "loop" /\ ~connected /\ database # "up"
    /\ IF Permanent \/ Exhausted(c)
         THEN /\ chain' = [chain EXCEPT ![c] = NoTask]
              /\ gaveUp' = TRUE
         ELSE /\ chain' = [chain EXCEPT ![c].tries = IF @ < MaxRetries THEN @ + 1 ELSE @]
              /\ UNCHANGED gaveUp
    /\ UNCHANGED <<envVars, vaultVars, opened, engine, connected, wasConnected, current, bootVars, clusterVars, checkVars>>

\* A check of the watchdog fails, and a loop takes its place.
Loses(c) ==
    /\ chain[c].kind = "watchdog" /\ connected
    /\ Fails("reconnect", database = "up")
    /\ connected' = FALSE
    /\ chain' = [chain EXCEPT ![c] = Loop]
    /\ current' = c
    /\ gaveUp' = FALSE
    /\ UNCHANGED <<vault, vaultUp, database, vaultVars, opened, engine, wasConnected, bootVars, clusterVars, checkVars>>

-----------------------------------------------------------------------------
(* IAM and BootService.                                                    *)

IamFails ==
    /\ iam > 0
    /\ Fails("bootstrap", database = "up")
    /\ iam' = iam - 1
    /\ iamError' = TRUE
    /\ UNCHANGED <<vault, vaultUp, database, vaultVars, opened, dbVars, iamReady, phase, loads, clusterVars, checkVars>>

\* A wrong variant of Loaded.
LoadedNever == FALSE

Loaded == phase = "ready"

\* on_core_ready has no await; on_boot_complete begins with the preflight.
IamReady ==
    /\ iam > 0 /\ database = "up"
    /\ iam' = iam - 1
    /\ iamReady' = TRUE
    /\ iamError' = FALSE
    /\ \/ /\ Loaded
          /\ UNCHANGED <<phase, loads, checks, troubles>>
       \/ /\ ~Loaded
          /\ phase' = "ready"
          /\ loads' = IF loads < 2 THEN loads + 1 ELSE loads
          /\ checks' = [checks EXCEPT !["boot"] = "asks"]
          /\ UNCHANGED troubles
       \/ /\ ~Loaded
          /\ Trouble("modules")
          /\ phase' = "failed"
          /\ UNCHANGED <<loads, checks>>
    /\ UNCHANGED <<vault, vaultUp, database, vaultVars, opened, dbVars, clusterVars, checked, unfit>>

-----------------------------------------------------------------------------
(* ClusterService.                                                         *)

\* DbCoordinator.start leaves at once when started, but it is not started
\* until its three statements are through.
CoordinatorStarts(s) ==
    /\ starting[s] = "schema" /\ database = "up"
    /\ starting' = [starting EXCEPT ![s] = "beat"]
    /\ coordinator' = TRUE
    /\ polling' = IF polling < 2 THEN polling + 1 ELSE polling
    /\ UNCHANGED <<envVars, vaultVars, opened, dbVars, bootVars, overlap, started, startError, beating, checkVars>>

\* A wrong variant of StartFails.
StartFailsForGood(s) ==
    /\ starting[s] = "schema"
    /\ Fails("start", database = "up")
    /\ startError' = TRUE
    /\ starting' = [starting EXCEPT ![s] = "none"]
    /\ UNCHANGED <<vault, vaultUp, database, vaultVars, opened, dbVars, bootVars, overlap, polling, coordinator, started, beating, checkVars>>

\* The inline attempt hands over to the retry task, which sleeps.
StartFails(s) ==
    /\ starting[s] = "schema"
    /\ Fails("start", database = "up")
    /\ startError' = TRUE
    /\ starting' = IF s = "retry" THEN [starting EXCEPT ![s] = "sleep"]
                                  ELSE [starting EXCEPT ![s] = "none", !["retry"] = "sleep"]
    /\ UNCHANGED <<vault, vaultUp, database, vaultVars, opened, dbVars, bootVars, overlap, polling, coordinator, started, beating, checkVars>>

RetryStart ==
    /\ starting["retry"] = "sleep"
    /\ starting' = [starting EXCEPT !["retry"] = IF coordinator THEN "beat" ELSE "schema"]
    /\ UNCHANGED <<envVars, vaultVars, opened, dbVars, bootVars, overlap, polling, coordinator, started, startError, beating, checkVars>>

\* tick() and the heartbeat swallow their errors.  A preflight follows if one
\* was made before.
StartEnds(s) ==
    /\ starting[s] = "beat"
    /\ checked => checks["later"] = "none"
    /\ starting' = [starting EXCEPT ![s] = "none"]
    /\ started' = TRUE
    /\ startError' = FALSE
    /\ beating' = TRUE
    /\ checks' = IF checked THEN [checks EXCEPT !["later"] = "asks"] ELSE checks
    /\ UNCHANGED <<envVars, vaultVars, opened, dbVars, bootVars, overlap, polling, coordinator, checked, unfit>>

\* The heartbeat loop checks anew every five minutes.
BeatChecks ==
    /\ beating /\ checked /\ checks["later"] = "none"
    /\ checks' = [checks EXCEPT !["later"] = "asks"]
    /\ UNCHANGED <<envVars, vaultVars, opened, dbVars, bootVars, clusterVars, checked, unfit>>

\* run_checks reads the instances, then `started`; more statements follow.
Asks(c) ==
    /\ checks[c] = "asks"
    /\ checks' = [checks EXCEPT ![c] = IF started /\ database = "up" THEN "fit" ELSE "unfit"]
    /\ UNCHANGED <<envVars, vaultVars, opened, dbVars, bootVars, clusterVars, checked, unfit>>

Checks(c) ==
    /\ checks[c] \in {"fit", "unfit"}
    /\ checks' = [checks EXCEPT ![c] = "none"]
    /\ checked' = TRUE
    /\ unfit' = (checks[c] = "unfit")
    /\ UNCHANGED <<envVars, vaultVars, opened, dbVars, bootVars, clusterVars>>
-----------------------------------------------------------------------------
Init ==
    /\ vault \in {"uninit", "sealed", "open"}
    /\ vaultUp \in BOOLEAN
    /\ database \in {"up", "down"}
    /\ troubles = 0
    /\ uiState = "loading"
    /\ unlocked = FALSE
    /\ health = "initialized"
    /\ halted = FALSE
    /\ unlock = NoRequest
    /\ opened = 0
    /\ engine = FALSE /\ connected = FALSE /\ wasConnected = FALSE /\ gaveUp = FALSE
    /\ chain = [c \in Chain |-> NoTask]
    /\ current = 0
    /\ iam = 0
    /\ iamReady = FALSE /\ iamError = FALSE
    /\ phase = "waiting_core"
    /\ loads = 0
    /\ starting = [s \in Starter |-> "none"]
    /\ overlap = FALSE
    /\ polling = 0
    /\ coordinator = FALSE /\ started = FALSE /\ startError = FALSE /\ beating = FALSE
    /\ checks = [c \in Checker |-> "none"]
    /\ checked = FALSE /\ unfit = FALSE

Surroundings ==
    \/ VaultGoes \/ VaultReturns
    \/ \E v \in {"sealed", "open"} : VaultTurns(v)
    \/ \E d \in {"up", "down", "refuses"} : DatabaseTurns(d)
    \/ \E k \in {"init", "unseal"} : OperatorAsks(k)

HealthStep == HealthError \/ HealthRetry \/ IsInitialized \/ IsSealed \/ MountCheck

UnlockStep == SetUpVault \/ SubmitKeys \/ Unlocks \/ UnlockFails

ChainStep(c) == Connects(c) \/ ConnectFails(c) \/ Loses(c)

IamStep == IamReady \/ IamFails

StartStep(s) == CoordinatorStarts(s) \/ StartFails(s) \/ StartEnds(s)

CheckStep(c) == Asks(c) \/ Checks(c)

Next ==
    \/ Surroundings
    \/ HealthStep
    \/ UnlockStep
    \/ InitDbConnection
    \/ \E c \in Chain : ChainStep(c)
    \/ IamStep
    \/ \E s \in Starter : StartStep(s)
    \/ RetryStart
    \/ BeatChecks
    \/ \E c \in Checker : CheckStep(c)

Spec == Init /\ [][Next]_vars

\* Threads end, tasks and events are served, and loops with a sleep go on.
Fairness ==
    /\ WF_vars(HealthStep)
    /\ WF_vars(UnlockStep)
    /\ WF_vars(InitDbConnection)
    /\ \A c \in Chain : WF_vars(ChainStep(c))
    /\ WF_vars(IamStep)
    /\ \A s \in Starter : WF_vars(StartStep(s))
    /\ WF_vars(RetryStart)
    /\ WF_vars(BeatChecks)
    /\ \A c \in Checker : WF_vars(CheckStep(c))

FairSpec == Spec /\ Fairness

-----------------------------------------------------------------------------
(* What the instance says of itself: GET /api/boot and /api/ready.         *)

VaultRow ==
    CASE uiState = "ready" -> "online"
      [] uiState = "error" -> "failed"
      [] uiState = "loading" -> "pending"
      [] OTHER -> "action"

DbRow ==
    CASE connected -> "online"
      [] ~connected /\ gaveUp -> "failed"
      [] ~connected /\ ~gaveUp /\ uiState # "ready" -> "waiting"
      [] OTHER -> "pending"

IamRow ==
    CASE iamReady -> "online"
      [] ~iamReady /\ iamError -> "failed"
      [] ~iamReady /\ ~iamError /\ connected -> "pending"
      [] OTHER -> "waiting"

ModulesRow ==
    CASE phase = "ready" -> "online"
      [] phase = "failed" -> "failed"
      [] OTHER -> "waiting"

readiness == phase = "ready" /\ connected /\ unlocked /\ started /\ ~unfit

-----------------------------------------------------------------------------
(* Properties.                                                             *)

TaskType ==
    {t \in [kind: {"none", "loop", "watchdog"}, tries: 0..MaxRetries, reconnecting: BOOLEAN] :
        t.tries = MaxRetries => t.reconnecting}

EnvType ==
    /\ vault \in {"uninit", "sealed", "open"}
    /\ vaultUp \in BOOLEAN
    /\ database \in {"up", "down", "refuses"}
    /\ troubles \in 0..MaxTroubles

VaultType ==
    /\ uiState \in {"loading", "needs_init", "needs_unseal", "ready", "error"}
    /\ unlocked \in BOOLEAN
    /\ health \in {"none", "initialized", "sealed", "mount", "retry"}
    /\ halted \in BOOLEAN
    /\ unlock \in [kind: {"init", "unseal"}, stage: {"none", "setup", "submit", "mount"}]

\* A loop that never had a connection gives up after MaxRetries attempts.
DbType ==
    /\ engine \in BOOLEAN /\ connected \in BOOLEAN /\ wasConnected \in BOOLEAN /\ gaveUp \in BOOLEAN
    /\ chain \in [Chain -> TaskType]
    /\ current \in {0} \cup Chain

BootType ==
    /\ iam \in 0..MaxPending
    /\ iamReady \in BOOLEAN /\ iamError \in BOOLEAN
    /\ phase \in {"waiting_core", "ready", "failed"}
    /\ loads \in 0..2

ClusterType ==
    /\ starting \in [Starter -> {"none", "sleep", "schema", "beat"}]
    /\ overlap \in BOOLEAN
    /\ polling \in 0..2
    /\ coordinator \in BOOLEAN /\ started \in BOOLEAN /\ startError \in BOOLEAN /\ beating \in BOOLEAN

CheckType ==
    /\ checks \in [Checker -> {"none", "asks", "fit", "unfit"}]
    /\ checked \in BOOLEAN /\ unfit \in BOOLEAN

TypeOK ==
    /\ EnvType /\ VaultType /\ opened \in 0..MaxPending /\ DbType
    /\ BootType /\ ClusterType /\ CheckType

\* The database has one attendant: a watchdog while it is connected, else a
\* loop that seeks it, else a reason on record why nobody does.  Events that
\* come again while a loop runs or a watchdog turns into one add no second.
Attended ==
    /\ \A c, d \in Chain : chain[c] # NoTask /\ chain[d] # NoTask => c = d
    /\ connected <=> \E c \in Chain : chain[c].kind = "watchdog"
    /\ engine => gaveUp # \E c \in Chain : chain[c] # NoTask

\* However often the database and IAM come back, the modules are loaded once.
LoadedOnce == loads <= 1

\* The coordinator has one poll loop: a database that comes back does not start
\* it again, unless it comes back within the first attempt, which is in no field.
OnePoll == polling <= 1 \/ overlap

\* A database that is lost and comes back, however often and whenever in the
\* boot, has one attendant and starts neither the modules nor the coordinator's
\* loop again.
StartedOnce == Attended /\ LoadedOnce /\ OnePoll

\* Why Attended holds: a loop is the one in _connection_task, and there is an
\* engine before there is a task.
AttendInv ==
    /\ Attended
    /\ \A c \in Chain :
          /\ chain[c] # NoTask => engine /\ chain[c].kind \in {"loop", "watchdog"}
          /\ chain[c].kind = "loop" => current = c

LoadInv == loads <= 1 /\ (loads = 1 => phase = "ready")

\* Why OnePoll holds: one call of _start_once at a time, until the coordinator
\* is started.
PollInv ==
    overlap \/
    /\ \A s, t \in Starter : starting[s] # "none" /\ starting[t] # "none" => s = t
    /\ coordinator => \A s \in Starter : starting[s] # "schema"
    /\ polling \in {0, 1} /\ (polling = 1 => coordinator)

Reported ==
    \/ VaultRow \in {"action", "failed"}
    \/ "failed" \in {DbRow, IamRow, ModulesRow}

\* When Vault and the database stay reachable, the instance serves for good, or
\* a row of the boot screen says for good what it waits for or what has failed,
\* or the boot was halted because Vault refused the mount check.
ComesUp == <>[](vaultUp /\ database = "up") => <>[](readiness \/ Reported \/ halted)
=============================================================================

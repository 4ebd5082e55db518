--------------------------- MODULE CoreBootProofs ---------------------------
(***************************************************************************)
(* Theorems about CoreBoot, for any number of attempts and of failures of  *)
(* any kind: its types, that the database has one attendant, that the      *)
(* modules are loaded once, and when the coordinator has one poll loop.    *)
(***************************************************************************)
EXTENDS CoreBoot, TLAPS

-----------------------------------------------------------------------------
(* What a step leaves alone keeps its type.                                *)

LEMMA SameType ==
    /\ EnvType /\ UNCHANGED envVars => EnvType'
    /\ VaultType /\ UNCHANGED vaultVars => VaultType'
    /\ DbType /\ UNCHANGED dbVars => DbType'
    /\ BootType /\ UNCHANGED bootVars => BootType'
    /\ ClusterType /\ UNCHANGED clusterVars => ClusterType'
    /\ CheckType /\ UNCHANGED checkVars => CheckType'
  <1>1. EnvType /\ UNCHANGED envVars => EnvType'
    BY DEF EnvType, envVars
  <1>2. VaultType /\ UNCHANGED vaultVars => VaultType'
    BY DEF VaultType, vaultVars
  <1>3. DbType /\ UNCHANGED dbVars => DbType'
    BY DEF DbType, dbVars
  <1>4. BootType /\ UNCHANGED bootVars => BootType'
    BY DEF BootType, bootVars
  <1>5. ClusterType /\ UNCHANGED clusterVars => ClusterType'
    BY DEF ClusterType, clusterVars
  <1>6. CheckType /\ UNCHANGED checkVars => CheckType'
    BY DEF CheckType, checkVars
  <1> QED BY <1>1, <1>2, <1>3, <1>4, <1>5, <1>6

\* A failure is counted, or follows from one that was.
LEMMA TroubleType ==
    ASSUME EnvType, NEW what, NEW available \in BOOLEAN,
           Fails(what, available) \/ Trouble(what),
           UNCHANGED <<vault, vaultUp, database>>
    PROVE  EnvType'
  BY ConstantsAssumption DEF Fails, Trouble, EnvType

LEMMA TaskTypes ==
    ASSUME wasConnected \in BOOLEAN
    PROVE  NoTask \in TaskType /\ Watchdog \in TaskType /\ Loop \in TaskType
  BY ConstantsAssumption DEF NoTask, Watchdog, Loop, TaskType

LEMMA RequestType ==
    ASSUME VaultType, NEW kind \in {"init", "unseal"}
    PROVE  \A r \in {Request(kind), AutoAsks(kind), NoRequest} :
               r \in [kind: {"init", "unseal"}, stage: {"none", "setup", "submit", "mount"}]
  BY DEF Request, AutoAsks, NoRequest, VaultType

LEMMA TypeInit == Init => TypeOK
  <1> SUFFICES ASSUME Init PROVE TypeOK
    OBVIOUS
  <1>1. EnvType
    BY ConstantsAssumption DEF Init, EnvType
  <1>2. VaultType
    BY DEF Init, VaultType, NoRequest
  <1>3. DbType
    BY TaskTypes DEF Init, DbType
  <1>4. BootType
    <2>1. iam \in 0..MaxPending /\ loads \in 0..2
      BY DEF Init, MaxPending
    <2> QED BY <2>1 DEF Init, BootType
  <1>5. ClusterType
    <2>1. polling \in 0..2
      BY DEF Init
    <2> QED BY <2>1 DEF Init, ClusterType
  <1>6. CheckType
    BY DEF Init, CheckType
  <1>7. opened \in 0..MaxPending
    BY DEF Init, MaxPending
  <1> QED BY <1>1, <1>2, <1>3, <1>4, <1>5, <1>6, <1>7 DEF TypeOK

LEMMA SurroundingsType == TypeOK /\ Surroundings => TypeOK'
  <1> SUFFICES ASSUME TypeOK, Surroundings PROVE TypeOK'
    OBVIOUS
  <1>1. CASE VaultGoes \/ VaultReturns
    <2>1. troubles' \in 0..MaxTroubles
      BY <1>1, ConstantsAssumption DEF VaultGoes, VaultReturns, Trouble, TypeOK, EnvType
    <2>2. EnvType'
      BY <1>1, <2>1 DEF VaultGoes, VaultReturns, TypeOK, EnvType
    <2> QED BY <1>1, <2>2, SameType DEF VaultGoes, VaultReturns, TypeOK
  <1>2. ASSUME NEW v \in {"sealed", "open"}, VaultTurns(v) PROVE TypeOK'
    <2>1. EnvType'
      BY <1>2, ConstantsAssumption DEF VaultTurns, Trouble, TypeOK, EnvType
    <2> QED BY <1>2, <2>1, SameType DEF VaultTurns, TypeOK
  <1>3. ASSUME NEW d \in {"up", "down", "refuses"}, DatabaseTurns(d) PROVE TypeOK'
    <2>1. EnvType'
      BY <1>3, ConstantsAssumption DEF DatabaseTurns, Trouble, TypeOK, EnvType
    <2> QED BY <1>3, <2>1, SameType DEF DatabaseTurns, TypeOK
  <1>4. ASSUME NEW k \in {"init", "unseal"}, OperatorAsks(k) PROVE TypeOK'
    <2>1. VaultType'
      BY <1>4, RequestType DEF OperatorAsks, TypeOK, VaultType
    <2> QED BY <1>4, <2>1, SameType DEF OperatorAsks, TypeOK
  <1> QED BY <1>1, <1>2, <1>3, <1>4 DEF Surroundings

LEMMA VaultStepType == TypeOK /\ (HealthStep \/ UnlockStep) => TypeOK'
  <1> SUFFICES ASSUME TypeOK, HealthStep \/ UnlockStep PROVE TypeOK'
    OBVIOUS
  <1>1. CASE HealthError \/ HealthRetry
    <2>1. VaultType'
      BY <1>1 DEF HealthError, HealthRetry, TypeOK, VaultType
    <2> QED BY <1>1, <2>1, SameType DEF HealthError, HealthRetry, TypeOK
  <1>2. CASE IsInitialized
    <2>1. VaultType'
      BY <1>2, RequestType DEF IsInitialized, TypeOK, VaultType
    <2> QED BY <1>2, <2>1, SameType DEF IsInitialized, TypeOK
  <1>3. CASE IsSealed
    <2>1. VaultType'
      BY <1>3, RequestType DEF IsSealed, TypeOK, VaultType
    <2> QED BY <1>3, <2>1, SameType DEF IsSealed, TypeOK
  <1>4. CASE MountCheck
    <2>1. VaultType'
      BY <1>4 DEF MountCheck, TypeOK, VaultType
    <2>2. opened' \in 0..MaxPending
      BY <1>4 DEF MountCheck, TypeOK, MaxPending
    <2>3. EnvType'
      BY <1>4, TroubleType DEF MountCheck, TypeOK, EnvType
    <2> QED BY <1>4, <2>1, <2>2, <2>3, SameType DEF MountCheck, TypeOK
  <1>5. CASE SetUpVault \/ SubmitKeys
    <2>1. VaultType' /\ EnvType'
      BY <1>5 DEF SetUpVault, SubmitKeys, TypeOK, VaultType, EnvType
    <2> QED BY <1>5, <2>1, SameType DEF SetUpVault, SubmitKeys, TypeOK
  <1>6. CASE Unlocks \/ UnlockFails
    <2>1. VaultType'
      BY <1>6, RequestType DEF Unlocks, UnlockFails, TypeOK, VaultType
    <2>2. opened' \in 0..MaxPending
      BY <1>6 DEF Unlocks, UnlockFails, TypeOK, MaxPending
    <2> QED BY <1>6, <2>1, <2>2, SameType DEF Unlocks, UnlockFails, TypeOK
  <1> QED BY <1>1, <1>2, <1>3, <1>4, <1>5, <1>6 DEF HealthStep, UnlockStep

\* One failed attempt more, up to the last one that counts.
LEMMA TriesType ==
    ASSUME DbType, NEW c \in Chain, ConnectFails(c)
    PROVE  chain' \in [Chain -> TaskType]
  <1>1. chain \in [Chain -> TaskType] /\ NoTask \in TaskType
    BY TaskTypes DEF DbType
  <1>2. chain[c].tries \in 0..MaxRetries /\ chain[c].reconnecting \in BOOLEAN
    BY <1>1 DEF TaskType
  <1>3. CASE Permanent \/ Exhausted(c)
    BY <1>1, <1>3 DEF ConnectFails
  <1>4. CASE ~(Permanent \/ Exhausted(c))
    <2>1. PICK n \in 0..MaxRetries : /\ chain' = [chain EXCEPT ![c].tries = n]
                                     /\ n = MaxRetries => chain[c].reconnecting
      <3>1. CASE chain[c].tries < MaxRetries
        <4>1. chain' = [chain EXCEPT ![c].tries = chain[c].tries + 1]
          BY <1>4, <3>1 DEF ConnectFails
        <4>2. chain[c].tries + 1 = MaxRetries => chain[c].reconnecting
          BY <1>2, <1>4, ConstantsAssumption DEF Exhausted
        <4>3. chain[c].tries + 1 \in 0..MaxRetries
          BY <1>2, <3>1, ConstantsAssumption
        <4> QED BY <4>1, <4>2, <4>3
      <3>2. CASE ~(chain[c].tries < MaxRetries)
        <4>1. chain' = [chain EXCEPT ![c].tries = chain[c].tries]
          BY <1>4, <3>2 DEF ConnectFails
        <4>2. chain[c].reconnecting
          BY <1>2, <1>4, <3>2, ConstantsAssumption DEF Exhausted
        <4> QED BY <4>1, <4>2, <1>2
      <3> QED BY <3>1, <3>2
    <2> QED BY <1>1, <2>1 DEF TaskType
  <1> QED BY <1>3, <1>4

LEMMA ChainStepType == TypeOK /\ (InitDbConnection \/ \E c \in Chain : ChainStep(c)) => TypeOK'
  <1> SUFFICES ASSUME TypeOK, InitDbConnection \/ \E c \in Chain : ChainStep(c) PROVE TypeOK'
    OBVIOUS
  <1>a. NoTask \in TaskType /\ Watchdog \in TaskType /\ Loop \in TaskType
    BY TaskTypes DEF TypeOK, DbType
  <1>1. CASE InitDbConnection
    <2>1. opened' \in 0..MaxPending
      BY <1>1 DEF InitDbConnection, TypeOK, MaxPending
    <2>2. DbType'
      BY <1>1, <1>a DEF InitDbConnection, TypeOK, DbType, dbVars
    <2> QED BY <1>1, <2>1, <2>2, SameType DEF InitDbConnection, TypeOK
  <1>2. ASSUME NEW c \in Chain, Connects(c) PROVE TypeOK'
    <2>1. DbType'
      BY <1>2, <1>a DEF Connects, TypeOK, DbType
    <2>2. ClusterType'
      BY <1>2 DEF Connects, ClusterWakes, TypeOK, ClusterType, Starter
    <2>3. BootType'
      BY <1>2 DEF Connects, TypeOK, BootType, MaxPending
    <2> QED BY <1>2, <2>1, <2>2, <2>3, SameType DEF Connects, TypeOK
  <1>3. ASSUME NEW c \in Chain, ConnectFails(c) PROVE TypeOK'
    <2>1. DbType'
      BY <1>3, TriesType DEF ConnectFails, TypeOK, DbType
    <2> QED BY <1>3, <2>1, SameType DEF ConnectFails, TypeOK
  <1>4. ASSUME NEW c \in Chain, Loses(c) PROVE TypeOK'
    <2>1. DbType'
      BY <1>4, <1>a DEF Loses, TypeOK, DbType
    <2>2. EnvType'
      BY <1>4, TroubleType DEF Loses, TypeOK
    <2> QED BY <1>4, <2>1, <2>2, SameType DEF Loses, TypeOK
  <1> QED BY <1>1, <1>2, <1>3, <1>4 DEF ChainStep

LEMMA IamStepType == TypeOK /\ IamStep => TypeOK'
  <1> SUFFICES ASSUME TypeOK, IamStep PROVE TypeOK'
    OBVIOUS
  <1>1. CASE IamFails
    <2>1. BootType'
      BY <1>1 DEF IamFails, TypeOK, BootType, MaxPending
    <2>2. EnvType'
      BY <1>1, TroubleType DEF IamFails, TypeOK
    <2> QED BY <1>1, <2>1, <2>2, SameType DEF IamFails, TypeOK
  <1>2. CASE IamReady
    <2>1. iam' \in 0..MaxPending
      BY <1>2 DEF IamReady, TypeOK, BootType, MaxPending
    <2>2. loads' \in 0..2
      BY <1>2 DEF IamReady, TypeOK, BootType
    <2>3. BootType'
      BY <1>2, <2>1, <2>2 DEF IamReady, TypeOK, BootType
    <2>4. EnvType'
      BY <1>2, ConstantsAssumption DEF IamReady, Trouble, TypeOK, EnvType
    <2>5. CheckType'
      BY <1>2 DEF IamReady, TypeOK, CheckType, Checker
    <2> QED BY <1>2, <2>3, <2>4, <2>5, SameType DEF IamReady, TypeOK
  <1> QED BY <1>1, <1>2 DEF IamStep

LEMMA ClusterStepType ==
    TypeOK /\ (RetryStart \/ BeatChecks \/ (\E s \in Starter : StartStep(s))
                          \/ \E c \in Checker : CheckStep(c)) => TypeOK'
  <1> SUFFICES ASSUME TypeOK,
                      RetryStart \/ BeatChecks \/ (\E s \in Starter : StartStep(s))
                          \/ \E c \in Checker : CheckStep(c)
               PROVE  TypeOK'
    OBVIOUS
  <1>1. ASSUME NEW s \in Starter, CoordinatorStarts(s) PROVE TypeOK'
    <2>1. ClusterType'
      BY <1>1 DEF CoordinatorStarts, TypeOK, ClusterType
    <2> QED BY <1>1, <2>1, SameType DEF CoordinatorStarts, TypeOK
  <1>2. ASSUME NEW s \in Starter, StartFails(s) PROVE TypeOK'
    <2>1. ClusterType'
      BY <1>2 DEF StartFails, TypeOK, ClusterType, Starter
    <2>2. EnvType'
      BY <1>2, TroubleType DEF StartFails, TypeOK
    <2> QED BY <1>2, <2>1, <2>2, SameType DEF StartFails, TypeOK
  <1>3. ASSUME NEW s \in Starter, StartEnds(s) PROVE TypeOK'
    <2>1. ClusterType' /\ CheckType'
      BY <1>3 DEF StartEnds, TypeOK, ClusterType, CheckType, Checker
    <2> QED BY <1>3, <2>1, SameType DEF StartEnds, TypeOK
  <1>4. CASE RetryStart
    <2>1. ClusterType'
      BY <1>4 DEF RetryStart, TypeOK, ClusterType, Starter
    <2> QED BY <1>4, <2>1, SameType DEF RetryStart, TypeOK
  <1>5. CASE BeatChecks
    <2>1. CheckType'
      BY <1>5 DEF BeatChecks, TypeOK, CheckType, Checker
    <2> QED BY <1>5, <2>1, SameType DEF BeatChecks, TypeOK
  <1>6. ASSUME NEW c \in Checker, CheckStep(c) PROVE TypeOK'
    <2>1. CheckType'
      BY <1>6 DEF CheckStep, Asks, Checks, TypeOK, CheckType
    <2> QED BY <1>6, <2>1, SameType DEF CheckStep, Asks, Checks, TypeOK
  <1> QED BY <1>1, <1>2, <1>3, <1>4, <1>5, <1>6 DEF StartStep

LEMMA TypeStep == TypeOK /\ [Next]_vars => TypeOK'
  <1>1. TypeOK /\ UNCHANGED vars => TypeOK'
    BY SameType DEF vars, TypeOK
  <1> QED BY <1>1, SurroundingsType, VaultStepType, ChainStepType, IamStepType, ClusterStepType DEF Next

\* Types, for every value of the constants.
THEOREM TypeCorrect == Spec => []TypeOK
  <1> QED BY TypeInit, TypeStep, PTL DEF Spec

-----------------------------------------------------------------------------
(* One attendant.                                                          *)

\* What the invariant reads, and so the steps it does not notice.
LEMMA AttendKept ==
    ASSUME AttendInv, UNCHANGED dbVars
    PROVE  AttendInv'
  BY DEF AttendInv, Attended, dbVars

LEMMA AttendStep == TypeOK /\ AttendInv /\ [Next]_vars => AttendInv'
  <1> SUFFICES ASSUME TypeOK, AttendInv, [Next]_vars PROVE AttendInv'
    OBVIOUS
  <1>a. chain \in [Chain -> TaskType]
    BY DEF TypeOK, DbType
  <1>b. Loop # NoTask /\ Watchdog # NoTask /\ NoTask.kind = "none"
        /\ Loop.kind = "loop" /\ Watchdog.kind = "watchdog"
    BY DEF Loop, NoTask, Watchdog
  <1>1. CASE InitDbConnection
    <2>1. CASE engine /\ (connected \/ LoopActive)
      BY <1>1, <2>1, AttendKept DEF InitDbConnection
    <2>2. CASE ~(engine /\ (connected \/ LoopActive))
      <3>1. \A c \in Chain : chain[c] = NoTask
        BY <2>2 DEF AttendInv, Attended, LoopActive, Chain
      <3>2. ~connected
        BY <3>1, <1>b DEF AttendInv, Attended
      <3>3. PICK c \in Chain : /\ chain' = [chain EXCEPT ![c] = Loop]
                               /\ engine' /\ current' = c /\ ~gaveUp' /\ UNCHANGED connected
        BY <1>1, <2>2 DEF InitDbConnection
      <3>4. \A d \in Chain : chain'[d] = IF d = c THEN Loop ELSE NoTask
        BY <3>1, <3>3, <1>a
      <3>5. Attended'
        <4>1. \A d \in Chain : chain'[d].kind # "watchdog"
          BY <3>4, <1>b
        <4>2. chain'[c] # NoTask
          BY <3>4, <1>b
        <4> QED BY <3>2, <3>3, <3>4, <4>1, <4>2 DEF Attended
      <3>6. \A d \in Chain : /\ chain'[d] # NoTask => engine' /\ chain'[d].kind \in {"loop", "watchdog"}
                             /\ chain'[d].kind = "loop" => current' = d
        BY <3>3, <3>4, <1>b
      <3> QED BY <3>5, <3>6 DEF AttendInv
    <2> QED BY <2>1, <2>2
  <1>2. ASSUME NEW c \in Chain, Connects(c) PROVE AttendInv'
    <2>1. chain[c] # NoTask /\ \A d \in Chain : chain'[d] = IF d = c THEN Watchdog ELSE chain[d]
      BY <1>2, <1>a, <1>b DEF Connects
    <2>2. \A d \in Chain : d # c => chain[d] = NoTask
      BY <2>1 DEF AttendInv, Attended
    <2>3. engine' /\ connected' /\ ~gaveUp'
      BY <1>2, <2>1 DEF Connects, AttendInv, Attended
    <2> QED BY <2>1, <2>2, <2>3, <1>b DEF AttendInv, Attended
  <1>3. ASSUME NEW c \in Chain, ConnectFails(c) PROVE AttendInv'
    <2>1. chain[c] # NoTask /\ chain[c].kind = "loop" /\ ~connected
      BY <1>3, <1>b DEF ConnectFails
    <2>2. \A d \in Chain : d # c => chain[d] = NoTask
      BY <2>1 DEF AttendInv, Attended
    <2>3. CASE Permanent \/ Exhausted(c)
      <3>1. \A d \in Chain : chain'[d] = NoTask
        BY <1>3, <1>a, <2>2, <2>3 DEF ConnectFails
      <3>2. gaveUp' /\ ~connected' /\ engine'
        BY <1>3, <2>1, <2>3 DEF ConnectFails, AttendInv, Attended
      <3> QED BY <3>1, <3>2, <1>b DEF AttendInv, Attended
    <2>4. CASE ~(Permanent \/ Exhausted(c))
      <3>1. /\ chain'[c].kind = "loop"
            /\ \A d \in Chain : d # c => chain'[d] = NoTask
        BY <1>3, <1>a, <2>1, <2>2, <2>4 DEF ConnectFails, TaskType
      <3>2. UNCHANGED <<gaveUp, connected, engine, current>>
        BY <1>3, <2>4 DEF ConnectFails
      <3> QED BY <2>1, <3>1, <3>2, <1>b DEF AttendInv, Attended
    <2> QED BY <2>3, <2>4
  <1>4. ASSUME NEW c \in Chain, Loses(c) PROVE AttendInv'
    <2>1. chain[c] # NoTask /\ \A d \in Chain : chain'[d] = IF d = c THEN Loop ELSE chain[d]
      BY <1>4, <1>a, <1>b DEF Loses
    <2>2. \A d \in Chain : d # c => chain[d] = NoTask
      BY <2>1 DEF AttendInv, Attended
    <2>3. engine' /\ ~connected' /\ ~gaveUp' /\ current' = c
      BY <1>4, <2>1 DEF Loses, AttendInv
    <2> QED BY <2>1, <2>2, <2>3, <1>b DEF AttendInv, Attended
  <1>5. CASE UNCHANGED dbVars
    BY <1>5, AttendKept
  <1>6. UNCHANGED dbVars \/ InitDbConnection \/ \E c \in Chain : ChainStep(c)
    BY DEF Next, vars, Surroundings, VaultGoes, VaultReturns, VaultTurns, DatabaseTurns, OperatorAsks,
           HealthStep, HealthError, HealthRetry, IsInitialized, IsSealed, MountCheck,
           UnlockStep, SetUpVault, SubmitKeys, Unlocks, UnlockFails, IamStep, IamReady, IamFails,
           StartStep, CoordinatorStarts, StartFails, StartEnds, RetryStart, BeatChecks,
           CheckStep, Asks, Checks
  <1> QED BY <1>1, <1>2, <1>3, <1>4, <1>5, <1>6 DEF ChainStep

\* Whatever fails and however often Vault opens again, the database has one
\* attendant, or a reason why it has none.
THEOREM OneAttendant == Spec => []Attended
  <1>1. Init => AttendInv
    <2> SUFFICES ASSUME Init PROVE AttendInv
      OBVIOUS
    <2>1. /\ ~engine /\ ~connected
          /\ \A c \in Chain : chain[c] = NoTask /\ chain[c].kind = "none"
      BY DEF Init, NoTask
    <2> QED BY <2>1 DEF AttendInv, Attended
  <1>2. AttendInv => Attended
    BY DEF AttendInv
  <1> QED BY <1>1, <1>2, TypeInit, TypeStep, AttendStep, PTL DEF Spec

-----------------------------------------------------------------------------
(* Modules and poll loops.                                                 *)

LEMMA LoadStep == TypeOK /\ LoadInv /\ [Next]_vars => LoadInv'
  <1> SUFFICES ASSUME TypeOK, LoadInv, [Next]_vars PROVE LoadInv'
    OBVIOUS
  <1>1. CASE IamReady
    BY <1>1 DEF IamReady, Loaded, LoadInv, TypeOK, BootType
  <1>2. CASE UNCHANGED <<phase, loads>>
    BY <1>2 DEF LoadInv
  <1>3. IamReady \/ UNCHANGED <<phase, loads>>
    BY DEF Next, vars, bootVars, Surroundings, VaultGoes, VaultReturns, VaultTurns, DatabaseTurns, OperatorAsks,
           HealthStep, HealthError, HealthRetry, IsInitialized, IsSealed, MountCheck,
           UnlockStep, SetUpVault, SubmitKeys, Unlocks, UnlockFails, InitDbConnection,
           ChainStep, Connects, ConnectFails, Loses, IamStep, IamFails,
           StartStep, CoordinatorStarts, StartFails, StartEnds, RetryStart, BeatChecks,
           CheckStep, Asks, Checks
  <1> QED BY <1>1, <1>2, <1>3

\* A database that comes back does not load the modules again.
THEOREM ModulesLoadedOnce == Spec => []LoadedOnce
  <1>1. Init => LoadInv
    BY DEF Init, LoadInv
  <1>2. LoadInv => LoadedOnce
    BY DEF LoadInv, LoadedOnce
  <1> QED BY <1>1, <1>2, TypeInit, TypeStep, LoadStep, PTL DEF Spec

LEMMA PollKept == PollInv /\ UNCHANGED clusterVars => PollInv'
  BY DEF PollInv, clusterVars

LEMMA PollStep == TypeOK /\ PollInv /\ [Next]_vars => PollInv'
  <1> SUFFICES ASSUME TypeOK, PollInv, [Next]_vars PROVE PollInv'
    OBVIOUS
  <1>a. starting \in [Starter -> {"none", "sleep", "schema", "beat"}] /\ polling \in 0..2
    BY DEF TypeOK, ClusterType
  <1>1. ASSUME NEW c \in Chain, Connects(c) PROVE PollInv'
    <2>1. CASE started \/ Awaited
      BY <1>1, <2>1, PollKept DEF Connects, ClusterWakes, clusterVars
    <2>2. CASE ~(started \/ Awaited)
      <3>1. PICK s \in {"first", "second"} :
               /\ starting[s] = "none"
               /\ starting' = [starting EXCEPT ![s] = IF coordinator THEN "beat" ELSE "schema"]
               /\ overlap' = (overlap \/ \E t \in {"first", "second"} : starting[t] # "none")
        BY <1>1, <2>2 DEF Connects, ClusterWakes
      <3>2. CASE overlap'
        BY <3>2 DEF PollInv
      <3>3. CASE ~overlap'
        <4>1. \A t \in Starter : starting[t] = "none"
          BY <2>2, <3>1, <3>3 DEF Awaited, Starter
        <4>2. \A t \in Starter : t # s => starting'[t] = "none"
          BY <1>a, <3>1, <4>1
        <4>3. coordinator => \A t \in Starter : starting'[t] # "schema"
          BY <1>a, <3>1, <4>1 DEF Starter
        <4>4. UNCHANGED <<coordinator, polling>>
          BY <1>1 DEF Connects
        <4>5. ~overlap
          BY <3>1, <3>3
        <4> QED BY <4>2, <4>3, <4>4, <4>5 DEF PollInv
      <3> QED BY <3>2, <3>3
    <2> QED BY <2>1, <2>2
  <1>2. ASSUME NEW s \in Starter, CoordinatorStarts(s) PROVE PollInv'
    BY <1>2, <1>a DEF CoordinatorStarts, PollInv
  <1>3. ASSUME NEW s \in Starter, StartFails(s) PROVE PollInv'
    BY <1>3, <1>a DEF StartFails, PollInv, Starter
  <1>4. ASSUME NEW s \in Starter, StartEnds(s) PROVE PollInv'
    BY <1>4, <1>a DEF StartEnds, PollInv
  <1>5. CASE RetryStart
    BY <1>5, <1>a DEF RetryStart, PollInv, Starter
  <1>6. CASE UNCHANGED clusterVars
    BY <1>6, PollKept
  <1>7. \/ UNCHANGED clusterVars \/ RetryStart \/ \E c \in Chain : Connects(c)
        \/ \E s \in Starter : StartStep(s)
    BY DEF Next, vars, Surroundings, VaultGoes, VaultReturns, VaultTurns, DatabaseTurns, OperatorAsks,
           HealthStep, HealthError, HealthRetry, IsInitialized, IsSealed, MountCheck,
           UnlockStep, SetUpVault, SubmitKeys, Unlocks, UnlockFails, InitDbConnection,
           ChainStep, ConnectFails, Loses, IamStep, IamReady, IamFails,
           BeatChecks, CheckStep, Asks, Checks
  <1> QED BY <1>1, <1>2, <1>3, <1>4, <1>5, <1>6, <1>7 DEF StartStep

\* Only a reconnection within the inline attempt gives the coordinator a second
\* poll loop.
THEOREM OnePollLoop == Spec => []OnePoll
  <1>1. Init => PollInv
    <2> SUFFICES ASSUME Init PROVE PollInv
      OBVIOUS
    <2>1. polling \in {0, 1} /\ ~(polling = 1)
      BY DEF Init
    <2> QED BY <2>1 DEF Init, PollInv
  <1>2. PollInv => OnePoll
    <2>1. polling \in {0, 1} => polling <= 1
      OBVIOUS
    <2> QED BY <2>1 DEF PollInv, OnePoll
  <1> QED BY <1>1, <1>2, TypeInit, TypeStep, PollStep, PTL DEF Spec

\* Whatever is lost and comes back, the database has one attendant, and modules
\* and poll loop are started once.
THEOREM AllStartedOnce == Spec => []StartedOnce
  <1>1. Attended /\ LoadedOnce /\ OnePoll => StartedOnce
    BY DEF StartedOnce
  <1> QED BY <1>1, OneAttendant, ModulesLoadedOnce, OnePollLoop, PTL
=============================================================================

------------------------- MODULE LeaseKeeperProofs -------------------------
(* Proofs about LeaseKeeper, for every set of instances and leases and     *)
(* every TTL, heartbeat and answer delay.                                  *)
EXTENDS LeaseKeeper, TLAPS

\* What every step but LeaseTick does to the typed variables, shared by the
\* steps of the type proof.
LEMMA TakeRowType ==
    ASSUME LeaseTypeOK, NEW i \in Keeper, NEW l \in Lease, TakeRow(i, l)
    PROVE  /\ holder' \in [Lease -> Keeper \cup {Nobody}]
           /\ ttlLeft' \in [Lease -> 0..(TTL + 1)]
  BY LeaseAssumption DEF LeaseTypeOK, TakeRow

LEMMA DropRowsType ==
    ASSUME LeaseTypeOK, NEW S, DropRows(S)
    PROVE  /\ holder' \in [Lease -> Keeper \cup {Nobody}]
           /\ ttlLeft' \in [Lease -> 0..(TTL + 1)]
  BY LeaseAssumption DEF LeaseTypeOK, DropRows

LEMMA ClearLoopType ==
    ASSUME LeaseTypeOK, NEW i \in Keeper, ClearLoop(i)
    PROVE  /\ phase' \in [Keeper -> KeeperPhase]
           /\ todo' \in [Keeper -> SUBSET Lease]
           /\ target' \in [Keeper -> Lease \cup {Nobody}]
           /\ \A k \in Keeper : phase'[k] \notin {"asleep", "pass"} => target'[k] \in Lease
           /\ flight' \in [Keeper -> 0..AnswerDelay]
           /\ slept' \in [Keeper -> 0..Heartbeat]
  BY LeaseAssumption DEF LeaseTypeOK, ClearLoop, KeeperPhase

LEMMA NotHeldType ==
    ASSUME LeaseTypeOK, NEW i \in Keeper, NEW l \in Lease, NotHeld(i, l)
    PROVE  /\ held' \in [Keeper -> SUBSET Lease]
           /\ renewedAgo' \in [Keeper -> [Lease -> 0..MaxAge]]
  BY LeaseAssumption DEF LeaseTypeOK, NotHeld, MaxAge

LEMMA ForgetProcessType ==
    ASSUME LeaseTypeOK, NEW i \in Keeper, ForgetProcess(i)
    PROVE  /\ proc' \in [Keeper -> {"up", "stopping", "down"}]
           /\ wanted' \in [Keeper -> SUBSET Lease]
           /\ held' \in [Keeper -> SUBSET Lease]
           /\ renewedAgo' \in [Keeper -> [Lease -> 0..MaxAge]]
           /\ working' \in [Keeper -> SUBSET Lease]
  BY LeaseAssumption DEF LeaseTypeOK, ForgetProcess, MaxAge

LEMMA LoopType ==
    ASSUME LeaseTypeOK, NEW i \in Keeper, LoopStep(i)
    PROVE  LeaseTypeOK'
  <1>1. CASE StartPass(i)
    BY <1>1 DEF StartPass, LeaseTypeOK, KeeperPhase, MaxAge, table, local
  <1>2. CASE TryCommit(i)
    <2>1. /\ target[i] \in Lease
          /\ flight' \in [Keeper -> 0..AnswerDelay]
          /\ phase' \in [Keeper -> KeeperPhase]
          /\ \A k \in Keeper : phase'[k] \notin {"asleep", "pass"} => target'[k] \in Lease
          /\ UNCHANGED <<proc, wanted, held, renewedAgo, working, todo, target, slept, releases, orphans>>
      <3>1. target[i] \in Lease
        BY <1>2 DEF TryCommit, LeaseTypeOK
      <3>2. flight' \in [Keeper -> 0..AnswerDelay]
        BY <1>2, LeaseAssumption DEF TryCommit, LeaseTypeOK
      <3>3. phase' \in [Keeper -> KeeperPhase]
        BY <1>2 DEF TryCommit, LeaseTypeOK, KeeperPhase
      <3>4. \A k \in Keeper : k # i => phase'[k] = phase[k]
        BY <1>2 DEF TryCommit, LeaseTypeOK
      <3>5. UNCHANGED <<proc, wanted, held, renewedAgo, working, todo, target, slept, releases, orphans>>
        BY <1>2 DEF TryCommit, local
      <3>6. QED
        BY <3>1, <3>2, <3>3, <3>4, <3>5 DEF LeaseTypeOK
    <2>2. /\ holder' \in [Lease -> Keeper \cup {Nobody}]
          /\ ttlLeft' \in [Lease -> 0..(TTL + 1)]
      BY <1>2, <2>1, TakeRowType DEF TryCommit, LeaseTypeOK, table
    <2>3. QED
      BY <2>1, <2>2 DEF LeaseTypeOK
  <1>3. CASE Unreachable(i)
    BY <1>3 DEF Unreachable, LeaseTypeOK, KeeperPhase, MaxAge, table, local
  <1>4. CASE Answer(i)
    <2>1. /\ target[i] \in Lease
          /\ flight' \in [Keeper -> 0..AnswerDelay]
          /\ phase' \in [Keeper -> KeeperPhase]
          /\ target' \in [Keeper -> Lease \cup {Nobody}]
          /\ \A k \in Keeper : phase'[k] \notin {"asleep", "pass"} => target'[k] \in Lease
          /\ UNCHANGED <<holder, ttlLeft, proc, wanted, todo, slept, releases, orphans>>
      <3>1. target[i] \in Lease
        BY <1>4 DEF Answer, LeaseTypeOK
      <3>2. flight' \in [Keeper -> 0..AnswerDelay]
        BY <1>4, LeaseAssumption DEF Answer, LeaseTypeOK
      <3>3. phase' \in [Keeper -> KeeperPhase] /\ phase'[i] = "pass"
        BY <1>4 DEF Answer, LeaseTypeOK, KeeperPhase
      <3>4. target' \in [Keeper -> Lease \cup {Nobody}]
        BY <1>4 DEF Answer, LeaseTypeOK
      <3>5. \A k \in Keeper : k # i => phase'[k] = phase[k] /\ target'[k] = target[k]
        BY <1>4 DEF Answer, LeaseTypeOK
      <3>6. UNCHANGED <<holder, ttlLeft, proc, wanted, todo, slept, releases, orphans>>
        BY <1>4 DEF Answer, table
      <3>7. QED
        BY <3>1, <3>2, <3>3, <3>4, <3>5, <3>6 DEF LeaseTypeOK
    <2>2. /\ held' \in [Keeper -> SUBSET Lease]
          /\ renewedAgo' \in [Keeper -> [Lease -> 0..MaxAge]]
          /\ working' \in [Keeper -> SUBSET Lease]
      <3>1. CASE Acquire(i, target[i])
        BY <3>1, <2>1, LeaseAssumption DEF Acquire, LeaseTypeOK, MaxAge
      <3>2. CASE Lose(i, target[i])
        BY <3>2, <2>1, NotHeldType DEF Lose, LeaseTypeOK
      <3>3. CASE UNCHANGED <<held, renewedAgo, working>>
        BY <3>3 DEF LeaseTypeOK
      <3>4. QED
        BY <1>4, <3>1, <3>2, <3>3 DEF Answer
    <2>3. QED
      BY <2>1, <2>2 DEF LeaseTypeOK
  <1>5. CASE EndPass(i)
    BY <1>5, LeaseAssumption DEF EndPass, LeaseTypeOK, KeeperPhase, MaxAge, table, local
  <1>6. ASSUME NEW l \in Lease, Try(i, l)
        PROVE  LeaseTypeOK'
    BY <1>6 DEF Try, LeaseTypeOK, KeeperPhase, MaxAge, table, local
  <1>7. QED
    BY <1>1, <1>2, <1>3, <1>4, <1>5, <1>6 DEF LoopStep

LEMMA StartReleaseType ==
    ASSUME LeaseTypeOK, NEW i \in Keeper, NEW l \in Lease, StartRelease(i, l)
    PROVE  LeaseTypeOK'
  <1>1. [lease |-> l, kind |-> "release_now", sent |-> TRUE] \in Release
    BY DEF Release
  <1>2. releases' \in [Keeper -> SUBSET Release]
    BY <1>1 DEF StartRelease, LeaseTypeOK
  <1>3. /\ held' \in [Keeper -> SUBSET Lease]
        /\ renewedAgo' \in [Keeper -> [Lease -> 0..MaxAge]]
    BY NotHeldType DEF StartRelease
  <1>4. QED
    BY <1>2, <1>3 DEF StartRelease, LeaseTypeOK, table, loop

LEMMA CallerType ==
    ASSUME LeaseTypeOK, NEW i \in Keeper, CallerStep(i)
    PROVE  LeaseTypeOK'
  <1>1. ASSUME NEW l \in Lease, Want(i, l)
        PROVE  LeaseTypeOK'
    BY <1>1 DEF Want, LeaseTypeOK, table, loop
  <1>2. ASSUME NEW l \in Lease, NEW fireLost \in BOOLEAN, Forget(i, l, fireLost)
        PROVE  LeaseTypeOK'
    <2>1. [lease |-> l, kind |-> "forget", sent |-> TRUE] \in Release
      BY DEF Release
    <2>2. releases' \in [Keeper -> SUBSET Release]
      BY <1>2, <2>1 DEF Forget, LeaseTypeOK
    <2>3. /\ held' \in [Keeper -> SUBSET Lease]
          /\ renewedAgo' \in [Keeper -> [Lease -> 0..MaxAge]]
      BY <1>2, NotHeldType DEF Forget
    <2>4. /\ wanted' \in [Keeper -> SUBSET Lease]
          /\ working' \in [Keeper -> SUBSET Lease]
      BY <1>2 DEF Forget, LeaseTypeOK
    <2>5. QED
      BY <1>2, <2>2, <2>3, <2>4 DEF Forget, LeaseTypeOK, table, loop
  <1>3. ASSUME NEW l \in Lease, ReleaseNow(i, l)
        PROVE  LeaseTypeOK'
    BY <1>3, StartReleaseType DEF ReleaseNow
  <1>4. ASSUME NEW l \in Lease, ForceRelease(i, l)
        PROVE  LeaseTypeOK'
    <2>1. [lease |-> l, kind |-> "force", sent |-> TRUE] \in Release
      BY DEF Release
    <2>2. releases' \in [Keeper -> SUBSET Release]
      BY <1>4, <2>1 DEF ForceRelease, LeaseTypeOK
    <2>3. QED
      BY <1>4, <2>2 DEF ForceRelease, LeaseTypeOK, table, local, loop
  <1>5. QED
    BY <1>1, <1>2, <1>3, <1>4 DEF CallerStep

LEMMA ReleaseType ==
    ASSUME LeaseTypeOK, NEW i \in Keeper, ReleaseStep(i)
    PROVE  LeaseTypeOK'
  <1> PICK r \in releases[i] :
         ReleaseCommit(i, r) \/ ReleaseFail(i, r) \/ ReleaseDone(i, r)
    BY DEF ReleaseStep
  <1>1. r \in Release /\ Ended(r) \in Release
    BY DEF LeaseTypeOK, Release, Ended
  <1>2. CASE ReleaseCommit(i, r)
    <2>1. releases' \in [Keeper -> SUBSET Release]
      BY <1>1, <1>2 DEF ReleaseCommit, LeaseTypeOK
    <2>2. QED
      BY <1>2, <2>1, DropRowsType DEF ReleaseCommit, LeaseTypeOK, local, loop
  <1>3. CASE ReleaseFail(i, r)
    <2>1. releases' \in [Keeper -> SUBSET Release]
      BY <1>1, <1>3 DEF ReleaseFail, LeaseTypeOK
    <2>2. QED
      BY <1>3, <2>1 DEF ReleaseFail, LeaseTypeOK, table, local, loop
  <1>4. CASE ReleaseDone(i, r)
    BY <1>4 DEF ReleaseDone, LeaseTypeOK, table, loop
  <1>5. QED
    BY <1>2, <1>3, <1>4

LEMMA ProcessType ==
    ASSUME LeaseTypeOK, NEW i \in Keeper, ProcessStep(i)
    PROVE  LeaseTypeOK'
  <1>1. CASE StopKeeper(i)
    <2>1. orphans' \in [Keeper -> SUBSET Lease] /\ proc' \in [Keeper -> {"up", "stopping", "down"}]
      BY <1>1 DEF StopKeeper, LeaseTypeOK
    <2>2. QED
      BY <1>1, <2>1, ClearLoopType DEF StopKeeper, LeaseTypeOK, table, local
  <1>2. CASE Deregister(i)
    <2>1. /\ holder' \in [Lease -> Keeper \cup {Nobody}]
          /\ ttlLeft' \in [Lease -> 0..(TTL + 1)]
      BY <1>2, DropRowsType DEF Deregister, LeaseTypeOK, table
    <2>2. QED
      BY <1>2, <2>1, ForgetProcessType, ClearLoopType DEF Deregister, ForgetProcess, LeaseTypeOK
  <1>3. CASE Crash(i)
    <2>1. /\ releases' \in [Keeper -> SUBSET Release]
          /\ orphans' \in [Keeper -> SUBSET Lease]
      BY <1>3 DEF Crash, LeaseTypeOK
    <2>2. QED
      BY <1>3, <2>1, ForgetProcessType, ClearLoopType DEF Crash, ForgetProcess, LeaseTypeOK, table
  <1>4. CASE Restart(i)
    BY <1>4 DEF Restart, LeaseTypeOK, table, local, loop
  <1>5. ASSUME NEW l \in Lease, StopReleases(i, l)
        PROVE  LeaseTypeOK'
    BY <1>5, StartReleaseType DEF StopReleases
  <1>6. ASSUME NEW l \in Lease, OrphanEnds(i, l)
        PROVE  LeaseTypeOK'
    <2>1. /\ holder' \in [Lease -> Keeper \cup {Nobody}]
          /\ ttlLeft' \in [Lease -> 0..(TTL + 1)]
      BY <1>6, TakeRowType DEF OrphanEnds, LeaseTypeOK, table
    <2>2. orphans' \in [Keeper -> SUBSET Lease]
      BY <1>6 DEF OrphanEnds, LeaseTypeOK
    <2>3. QED
      BY <1>6, <2>1, <2>2 DEF OrphanEnds, LeaseTypeOK, local, loop
  <1>7. QED
    BY <1>1, <1>2, <1>3, <1>4, <1>5, <1>6 DEF ProcessStep

LEMMA TimeType ==
    ASSUME LeaseTypeOK, LeaseTick
    PROVE  LeaseTypeOK'
  <1>1. ttlLeft' \in [Lease -> 0..(TTL + 1)]
    BY LeaseAssumption DEF LeaseTick, LeaseTypeOK
  <1>2. renewedAgo' \in [Keeper -> [Lease -> 0..MaxAge]]
    BY LeaseAssumption DEF LeaseTick, LeaseTypeOK, MaxAge
  <1>3. /\ flight' \in [Keeper -> 0..AnswerDelay]
        /\ slept' \in [Keeper -> 0..Heartbeat]
    BY LeaseAssumption DEF LeaseTick, LeaseTypeOK
  <1>4. QED
    BY <1>1, <1>2, <1>3 DEF LeaseTick, LeaseTypeOK

LEMMA TypeStep == LeaseTypeOK /\ [LeaseNext]_leaseVars => LeaseTypeOK'
  <1>1. ASSUME LeaseTypeOK, UNCHANGED leaseVars
        PROVE  LeaseTypeOK'
    BY <1>1 DEF LeaseTypeOK, leaseVars, table, local, loop
  <1>2. QED
    BY <1>1, LoopType, CallerType, ReleaseType, ProcessType, TimeType DEF LeaseNext

\* Every variable keeps its type: in particular a call in flight always names
\* the lease it is for, so the answer is never applied to another one.
THEOREM TypeCorrect == LeaseSpec => []LeaseTypeOK
  <1>1. LeaseInit => LeaseTypeOK
    BY LeaseAssumption DEF LeaseInit, LeaseTypeOK, KeeperPhase, MaxAge
  <1>2. QED
    BY <1>1, TypeStep, PTL DEF LeaseSpec

-----------------------------------------------------------------------------
LEMMA QuietStep ==
    ASSUME NoTakeBack, LeaseTypeOK, QuietInv, [LeaseNext]_leaseVars
    PROVE  QuietInv'
  <1> USE DEF QuietInv, Quiet
  <1>1. ASSUME NEW i \in Keeper, LoopStep(i)
        PROVE  QuietInv'
    <2>1. proc[i] = "up" /\ UNCHANGED <<proc, releases>>
      BY <1>1 DEF LoopStep, StartPass, TryCommit, Unreachable, Answer, EndPass, Try
    <2>2. \A k \in Keeper : k # i => phase'[k] = phase[k] /\ held'[k] = held[k]
      BY <1>1 DEF LoopStep, StartPass, TryCommit, Unreachable, Answer, EndPass, Try,
                  Acquire, Lose, NotHeld, LeaseTypeOK, local
    <2>3. QED
      BY <2>1, <2>2
  <1>2. ASSUME NEW i \in Keeper, CallerStep(i)
        PROVE  QuietInv'
    BY <1>2 DEF CallerStep, Want, Forget, ReleaseNow, ForceRelease, NoTakeBack, table, loop
  <1>3. ASSUME NEW i \in Keeper, NEW r \in releases[i],
               ReleaseCommit(i, r) \/ ReleaseFail(i, r) \/ ReleaseDone(i, r)
        PROVE  QuietInv'
    <2>1. UNCHANGED <<proc, phase, held>>
      BY <1>3 DEF ReleaseCommit, ReleaseFail, ReleaseDone, local, loop
    <2>2. \A k \in Keeper : \A q \in releases'[k] :
             \E p \in releases[k] : q.lease = p.lease /\ q.kind = p.kind
      <3>1. \A k \in Keeper : k # i => releases'[k] = releases[k]
        BY <1>3 DEF ReleaseCommit, ReleaseFail, ReleaseDone, LeaseTypeOK
      <3>2. releases'[i] \subseteq releases[i] \cup {Ended(r)}
        BY <1>3 DEF ReleaseCommit, ReleaseFail, ReleaseDone, LeaseTypeOK
      <3>3. Ended(r).lease = r.lease /\ Ended(r).kind = r.kind
        BY DEF Ended
      <3>4. QED
        BY <3>1, <3>2, <3>3
    <2>3. \A k \in Keeper : releases[k] = {} => releases'[k] = {}
      BY <2>2
    <2>4. QED
      BY <2>1, <2>2, <2>3
  <1>4. ASSUME NEW i \in Keeper, ProcessStep(i)
        PROVE  QuietInv'
    <2>1. CASE StopKeeper(i)
      BY <1>4, <2>1 DEF StopKeeper, ClearLoop, LeaseTypeOK, table, local
    <2>2. CASE Deregister(i)
      BY <1>4, <2>2 DEF Deregister, ForgetProcess, ClearLoop, LeaseTypeOK
    <2>3. CASE Crash(i)
      BY <1>4, <2>3 DEF Crash, ForgetProcess, ClearLoop, LeaseTypeOK
    <2>4. CASE Restart(i)
      BY <1>4, <2>4 DEF Restart, LeaseTypeOK, table, local, loop
    <2>5. ASSUME NEW l \in Lease, StopReleases(i, l)
          PROVE  QuietInv'
      <3>1. UNCHANGED <<proc, phase>> /\ proc[i] = "stopping"
        BY <2>5 DEF StopReleases, StartRelease, loop
      <3>2. \A k \in Keeper : k # i => held'[k] = held[k] /\ releases'[k] = releases[k]
        BY <2>5 DEF StopReleases, StartRelease, NotHeld, LeaseTypeOK
      <3>3. held'[i] = held[i] \ {l}
        BY <2>5 DEF StopReleases, StartRelease, NotHeld, LeaseTypeOK
      <3>4. releases'[i] = releases[i] \cup
                {[lease |-> l, kind |-> "release_now", sent |-> TRUE]}
        BY <2>5 DEF StopReleases, StartRelease, LeaseTypeOK
      <3>5. QED
        BY <3>1, <3>2, <3>3, <3>4
    <2>6. ASSUME NEW l \in Lease, OrphanEnds(i, l)
          PROVE  QuietInv'
      BY <2>6 DEF OrphanEnds, local, loop
    <2>7. QED
      BY <1>4, <2>1, <2>2, <2>3, <2>4, <2>5, <2>6 DEF ProcessStep
  <1>5. CASE LeaseTick
    BY <1>5 DEF LeaseTick
  <1>6. CASE UNCHANGED leaseVars
    BY <1>6 DEF leaseVars, local, loop
  <1>7. QED
    BY <1>1, <1>2, <1>3, <1>4, <1>5, <1>6 DEF LeaseNext, ReleaseStep

\* A row that belongs to i and lives is not taken by anybody else.
LEMMA OthersKeepOff ==
    ASSUME LeaseTypeOK, NEW i \in Keeper, NEW j \in Keeper, NEW l \in Lease,
           holder[l] = i, ttlLeft[l] > 0, Takes(j, l)
    PROVE  j = i
  BY LeaseAssumption DEF LeaseTypeOK, Takes

\* Taking a row keeps the promises made to every other instance, and makes
\* the one to the taker no weaker.
LEMMA TakeKeepsPromises ==
    ASSUME LeaseTypeOK, LeaseInv, NEW j \in Keeper, NEW m \in Lease,
           Takes(j, m), TakeRow(j, m), UNCHANGED <<held, renewedAgo>>
    PROVE  /\ \A i \in Keeper, l \in Lease : Backed(i, l)'
           /\ \A i \in Keeper :
                 phase'[i] = phase[i] /\ target'[i] = target[i] /\ flight'[i] = flight[i]
                     => Answered(i)'
  <1>1. \A l \in Lease : l # m => holder'[l] = holder[l] /\ ttlLeft'[l] = ttlLeft[l]
    BY DEF TakeRow, LeaseTypeOK
  <1>2. holder'[m] = j /\ ttlLeft'[m] \in {TTL, TTL + 1}
    BY DEF TakeRow, LeaseTypeOK
  <1>3. ASSUME NEW i \in Keeper, NEW l \in Lease
        PROVE  Backed(i, l)'
    <2> SUFFICES ASSUME l \in held[i], renewedAgo[i][l] + AnswerDelay < TTL
                 PROVE  holder'[l] = i /\ ttlLeft'[l] + renewedAgo[i][l] + AnswerDelay >= TTL
      BY DEF Backed
    <2>1. /\ renewedAgo[i][l] \in Nat /\ AnswerDelay \in Nat /\ TTL \in Nat /\ ttlLeft[l] \in Nat
      BY LeaseAssumption DEF LeaseTypeOK, MaxAge
    <2>2. holder[l] = i /\ ttlLeft[l] + renewedAgo[i][l] + AnswerDelay >= TTL
      BY DEF LeaseInv, Backed
    <2>3. CASE l # m
      BY <2>2, <2>3, <1>1
    <2>4. CASE l = m
      <3>1. ttlLeft[l] > 0
        BY <2>1, <2>2
      <3>2. i = j
        BY <2>2, <2>4, <3>1, OthersKeepOff
      <3>3. QED
        BY <1>2, <2>1, <2>4, <3>2
    <2>5. QED
      BY <2>3, <2>4
  <1>4. ASSUME NEW i \in Keeper,
               phase'[i] = phase[i], target'[i] = target[i], flight'[i] = flight[i]
        PROVE  Answered(i)'
    <2> SUFFICES ASSUME phase[i] = "yes", AnswerDelay < TTL
                 PROVE  holder'[target[i]] = i /\ ttlLeft'[target[i]] + flight[i] >= TTL
      BY <1>4 DEF Answered
    <2>1. /\ target[i] \in Lease
          /\ flight[i] \in Nat /\ flight[i] < TTL /\ TTL \in Nat /\ ttlLeft[target[i]] \in Nat
      BY SMTT(40), LeaseAssumption DEF LeaseTypeOK
    <2>2. holder[target[i]] = i /\ ttlLeft[target[i]] + flight[i] >= TTL
      BY DEF LeaseInv, Answered
    <2>3. CASE target[i] # m
      BY <2>1, <2>2, <2>3, <1>1
    <2>4. CASE target[i] = m
      <3>1. ttlLeft[m] > 0
        BY <2>1, <2>2, <2>4
      <3>2. i = j
        BY <2>2, <2>4, <3>1, OthersKeepOff
      <3>3. QED
        BY <1>2, <2>1, <2>4, <3>2
    <2>5. QED
      BY <2>3, <2>4
  <1>5. QED
    BY <1>3, <1>4

\* Dropping rows that no running keeper counts on keeps every promise.
LEMMA DropKeepsPromises ==
    ASSUME LeaseTypeOK, LeaseInv, NEW S \in SUBSET Lease, NEW j \in Keeper, DropRows(S),
           \A l \in S : holder[l] = j,
           \A l \in S : l \notin held[j],
           phase[j] = "asleep",
           \A i \in Keeper : i # j => held'[i] = held[i] /\ renewedAgo'[i] = renewedAgo[i],
           held'[j] \subseteq held[j], renewedAgo'[j] = renewedAgo[j] \/ held'[j] = {},
           \A i \in Keeper : i # j => /\ phase'[i] = phase[i]
                                        /\ target'[i] = target[i]
                                        /\ flight'[i] = flight[i],
           phase'[j] = "asleep"
    PROVE  LeaseInv'
  <1>1. \A l \in Lease : l \notin S => holder'[l] = holder[l] /\ ttlLeft'[l] = ttlLeft[l]
    BY DEF DropRows
  <1>2. ASSUME NEW i \in Keeper, NEW l \in Lease
        PROVE  Backed(i, l)'
    BY <1>1 DEF LeaseInv, Backed
  <1>3. ASSUME NEW i \in Keeper
        PROVE  Answered(i)'
    <2>1. CASE i = j
      BY <2>1 DEF Answered
    <2>2. CASE i # j
      <3>1. phase[i] = "yes" => target[i] \in Lease
        BY DEF LeaseTypeOK
      <3>2. QED
        BY <1>1, <2>2, <3>1 DEF LeaseInv, Answered
    <2>3. QED
      BY <2>1, <2>2
  <1>4. QED
    BY <1>2, <1>3 DEF LeaseInv

LEMMA LoopPromises ==
    ASSUME LeaseTypeOK, LeaseInv, NEW i \in Keeper, LoopStep(i)
    PROVE  LeaseInv'
  <1>1. \A k \in Keeper : k # i =>
           phase'[k] = phase[k] /\ target'[k] = target[k] /\ flight'[k] = flight[k]
    BY DEF LoopStep, StartPass, TryCommit, Unreachable, Answer, EndPass, Try, LeaseTypeOK
  <1>2. CASE TryCommit(i)
    <2>1. target[i] \in Lease /\ UNCHANGED <<held, renewedAgo, target>>
      BY <1>2 DEF TryCommit, LeaseTypeOK, local
    <2>2. CASE Takes(i, target[i]) /\ TakeRow(i, target[i]) /\ phase' = [phase EXCEPT ![i] = "yes"]
      <3>1. \A k \in Keeper, l \in Lease : Backed(k, l)'
        BY <2>1, <2>2, TakeKeepsPromises
      <3>2. \A k \in Keeper : k # i => Answered(k)'
        BY <1>1, <2>1, <2>2, TakeKeepsPromises
      <3>3. Answered(i)'
        <4>1. holder'[target[i]] = i /\ ttlLeft'[target[i]] \in {TTL, TTL + 1}
          BY <2>1, <2>2 DEF TakeRow, LeaseTypeOK
        <4>2. target'[i] = target[i] /\ flight'[i] = 0
          BY <1>2, <2>1 DEF TryCommit, LeaseTypeOK
        <4>3. QED
          BY <4>1, <4>2, LeaseAssumption DEF Answered
      <3>4. QED
        BY <3>1, <3>2, <3>3 DEF LeaseInv
    <2>3. CASE phase' = [phase EXCEPT ![i] = "no"] /\ UNCHANGED table
      <3>1. Answered(i)'
        BY <2>3 DEF Answered, LeaseTypeOK
      <3>2. QED
        BY <1>1, <2>1, <2>3, <3>1 DEF LeaseInv, Backed, Answered, table
    <2>4. QED
      BY <1>2, <2>2, <2>3 DEF TryCommit
  <1>3. CASE Answer(i)
    <2>1. /\ target[i] \in Lease /\ UNCHANGED <<holder, ttlLeft>>
          /\ phase'[i] = "pass"
      BY <1>3 DEF Answer, LeaseTypeOK, table
    <2>2. \A k \in Keeper : Answered(k)'
      BY <1>1, <2>1 DEF LeaseInv, Answered
    <2> PICK t \in Lease : t = target[i]
      BY <2>1
    <2>3. \A k \in Keeper, l \in Lease : <<k, l>> # <<i, t>> =>
             (l \in held'[k] => l \in held[k]) /\ renewedAgo'[k][l] = renewedAgo[k][l]
      BY <1>3 DEF Answer, Acquire, Lose, NotHeld, LeaseTypeOK
    <2>4. Backed(i, t)'
      <3>1. CASE phase[i] = "yes" /\ Acquire(i, t)
        <4>1. renewedAgo'[i][t] = 0
          BY <3>1 DEF Acquire, LeaseTypeOK
        <4>2. /\ flight[i] \in 0..AnswerDelay /\ ttlLeft[t] \in Nat
              /\ TTL \in Nat /\ AnswerDelay \in Nat
          BY LeaseAssumption DEF LeaseTypeOK
        <4>3. AnswerDelay < TTL => holder[t] = i /\ ttlLeft[t] + flight[i] >= TTL
          BY <3>1 DEF LeaseInv, Answered
        <4>4. QED
          BY <2>1, <4>1, <4>2, <4>3 DEF Backed
      <3>2. CASE Lose(i, t)
        <4>1. t \notin held'[i]
          BY <3>2 DEF Lose, NotHeld, LeaseTypeOK
        <4>2. QED
          BY <4>1 DEF Backed
      <3>3. CASE UNCHANGED <<held, renewedAgo, working>>
        BY <2>1, <3>3 DEF LeaseInv, Backed
      <3>4. QED
        BY <1>3, <3>1, <3>2, <3>3 DEF Answer
    <2>5. ASSUME NEW k \in Keeper, NEW l \in Lease
          PROVE  Backed(k, l)'
      <3>1. CASE k = i /\ l = t
        BY <2>4, <3>1
      <3>2. CASE <<k, l>> # <<i, t>>
        BY <2>1, <2>3, <3>2 DEF LeaseInv, Backed
      <3>3. QED
        BY <3>1, <3>2
    <2>6. QED
      BY <2>2, <2>5 DEF LeaseInv
  <1>4. CASE StartPass(i) \/ Unreachable(i) \/ EndPass(i) \/ \E l \in Lease : Try(i, l)
    <2>1. phase'[i] # "yes" /\ UNCHANGED <<holder, ttlLeft, held, renewedAgo>>
      BY <1>4 DEF StartPass, Unreachable, EndPass, Try, LeaseTypeOK, table, local
    <2>2. QED
      BY <1>1, <2>1 DEF LeaseInv, Backed, Answered
  <1>5. QED
    BY <1>2, <1>3, <1>4 DEF LoopStep

LEMMA ProcessPromises ==
    ASSUME LeaseTypeOK, QuietInv, LeaseInv, NEW i \in Keeper, ProcessStep(i)
    PROVE  LeaseInv'
  <1>1. ASSUME StopKeeper(i) \/ Crash(i) \/ Restart(i)
        PROVE  LeaseInv'
    <2>1. /\ UNCHANGED <<holder, ttlLeft>>
          /\ phase'[i] # "yes" \/ phase'[i] = phase[i]
          /\ \A k \in Keeper : (held'[k] = held[k] /\ renewedAgo'[k] = renewedAgo[k]) \/ held'[k] = {}
          /\ \A k \in Keeper : phase'[k] = phase[k] \/ phase'[k] = "asleep"
          /\ \A k \in Keeper : phase'[k] = "asleep" \/ /\ target'[k] = target[k]
                                                         /\ flight'[k] = flight[k]
      BY <1>1 DEF StopKeeper, Crash, Restart, ForgetProcess, ClearLoop, LeaseTypeOK, table, local, loop
    <2>2. QED
      BY <2>1 DEF LeaseInv, Backed, Answered
  <1>2. CASE Deregister(i)
    <2>1. /\ proc[i] = "stopping" /\ held[i] = {} /\ phase[i] = "asleep"
          /\ held'[i] = {} /\ phase'[i] = "asleep"
          /\ \A k \in Keeper : k # i =>
                /\ held'[k] = held[k] /\ renewedAgo'[k] = renewedAgo[k]
                /\ phase'[k] = phase[k] /\ target'[k] = target[k] /\ flight'[k] = flight[k]
      BY <1>2 DEF Deregister, ForgetProcess, ClearLoop, LeaseTypeOK, QuietInv, Quiet
    <2>2. CASE DropRows({l \in Lease : holder[l] = i})
      BY <2>1, <2>2, DropKeepsPromises
    <2>3. CASE UNCHANGED table
      BY <2>1, <2>3 DEF LeaseInv, Backed, Answered, table
    <2>4. QED
      BY <1>2, <2>2, <2>3 DEF Deregister
  <1>3. ASSUME NEW l \in Lease, StopReleases(i, l)
        PROVE  LeaseInv'
    <2>1. /\ UNCHANGED <<holder, ttlLeft, phase, target, flight>>
          /\ \A k \in Keeper, m \in Lease : m \in held'[k] => m \in held[k] /\ renewedAgo'[k][m] = renewedAgo[k][m]
      BY <1>3 DEF StopReleases, StartRelease, NotHeld, LeaseTypeOK, table, loop
    <2>2. QED
      BY <2>1 DEF LeaseInv, Backed, Answered
  <1>4. ASSUME NEW l \in Lease, OrphanEnds(i, l)
        PROVE  LeaseInv'
    <2>1. UNCHANGED <<held, renewedAgo, phase, target, flight>>
      BY <1>4 DEF OrphanEnds, local, loop
    <2>2. CASE Takes(i, l) /\ TakeRow(i, l)
      BY <2>1, <2>2, TakeKeepsPromises DEF LeaseInv
    <2>3. CASE UNCHANGED table
      BY <2>1, <2>3 DEF LeaseInv, Backed, Answered, table
    <2>4. QED
      BY <1>4, <2>2, <2>3 DEF OrphanEnds
  <1>5. QED
    BY <1>1, <1>2, <1>3, <1>4 DEF ProcessStep

LEMMA ReleasePromises ==
    ASSUME LeaseTypeOK, QuietInv, LeaseInv, NEW i \in Keeper, ReleaseStep(i)
    PROVE  LeaseInv'
  <1> PICK r \in releases[i] :
         ReleaseCommit(i, r) \/ ReleaseFail(i, r) \/ ReleaseDone(i, r)
    BY DEF ReleaseStep
  <1>1. UNCHANGED <<held, renewedAgo, phase, target, flight>>
    BY DEF ReleaseCommit, ReleaseFail, ReleaseDone, local, loop
  <1>2. CASE ReleaseCommit(i, r)
    <2>1. phase[i] = "asleep" /\ r.lease \notin held[i] /\ r.kind = "release_now"
      BY DEF QuietInv, Quiet
    <2>2. DropRows({r.lease} \cap {l \in Lease : holder[l] = i})
      <3>1. {l \in Lease : r.kind = "force" \/ holder[l] = i} = {l \in Lease : holder[l] = i}
        BY <2>1
      <3>2. QED
        BY <1>2, <3>1 DEF ReleaseCommit
    <2>3. QED
      BY <1>1, <2>1, <2>2, DropKeepsPromises
  <1>3. CASE ReleaseFail(i, r) \/ ReleaseDone(i, r)
    BY <1>1, <1>3 DEF ReleaseFail, ReleaseDone, LeaseInv, Backed, Answered, table
  <1>4. QED
    BY <1>2, <1>3

LEMMA TimePromises ==
    ASSUME LeaseTypeOK, LeaseInv, LeaseTick
    PROVE  LeaseInv'
  <1>1. UNCHANGED <<holder, held, phase, target>>
    BY DEF LeaseTick
  <1>2. ASSUME NEW i \in Keeper, NEW l \in Lease
        PROVE  Backed(i, l)'
    <2>1. /\ ttlLeft[l] \in Nat /\ renewedAgo[i][l] \in 0..MaxAge
          /\ TTL \in Nat /\ AnswerDelay \in Nat
      BY LeaseAssumption DEF LeaseTypeOK
    <2>2. ttlLeft'[l] = IF ttlLeft[l] > 0 THEN ttlLeft[l] - 1 ELSE 0
      BY DEF LeaseTick
    <2>3. l \in held[i] => renewedAgo'[i][l] = IF renewedAgo[i][l] < MaxAge THEN renewedAgo[i][l] + 1 ELSE renewedAgo[i][l]
      BY DEF LeaseTick
    <2>4. l \in held[i] /\ renewedAgo[i][l] + AnswerDelay < TTL =>
             holder[l] = i /\ ttlLeft[l] + renewedAgo[i][l] + AnswerDelay >= TTL
      BY DEF LeaseInv, Backed
    <2>5. QED
      BY <1>1, <2>1, <2>2, <2>3, <2>4 DEF Backed, MaxAge
  <1>3. ASSUME NEW i \in Keeper
        PROVE  Answered(i)'
    <2> SUFFICES ASSUME phase[i] = "yes", AnswerDelay < TTL
                 PROVE  holder[target[i]] = i /\ ttlLeft'[target[i]] + flight'[i] >= TTL
      BY <1>1 DEF Answered
    <2>a. target[i] \in Lease
      BY DEF LeaseTypeOK
    <2>b. ttlLeft \in [Lease -> 0..(TTL + 1)] /\ TTL \in Nat /\ AnswerDelay \in Nat
      BY LeaseAssumption DEF LeaseTypeOK
    <2>c. flight[i] \in 0..AnswerDelay
      BY DEF LeaseTypeOK
    <2>1. ttlLeft[target[i]] \in Nat /\ flight[i] \in Nat
      BY <2>a, <2>b, <2>c
    <2>2. flight[i] < AnswerDelay /\ flight'[i] = flight[i] + 1
      BY DEF LeaseTick
    <2>3. holder[target[i]] = i /\ ttlLeft[target[i]] + flight[i] >= TTL
      BY DEF LeaseInv, Answered
    <2>4. ttlLeft'[target[i]] = IF ttlLeft[target[i]] > 0 THEN ttlLeft[target[i]] - 1 ELSE 0
      BY <2>a DEF LeaseTick
    <2>5. QED
      BY <2>1, <2>b, <2>2, <2>3, <2>4
  <1>4. QED
    BY <1>2, <1>3 DEF LeaseInv

LEMMA LeaseStep ==
    ASSUME NoTakeBack, LeaseTypeOK, QuietInv, LeaseInv, [LeaseNext]_leaseVars
    PROVE  LeaseInv'
  <1>1. ASSUME NEW i \in Keeper, CallerStep(i)
        PROVE  LeaseInv'
    BY <1>1 DEF CallerStep, Want, Forget, ReleaseNow, ForceRelease, NoTakeBack,
                LeaseInv, Backed, Answered, table, loop
  <1>2. CASE UNCHANGED leaseVars
    BY <1>2 DEF leaseVars, table, local, loop, LeaseInv, Backed, Answered
  <1>3. QED
    BY <1>1, <1>2, LoopPromises, ReleasePromises, ProcessPromises, TimePromises DEF LeaseNext

\* The promises are kept by rows that live: nobody is sure of a row that is
\* not alive and its own.
LEMMA PromisesBackHolders ==
    ASSUME LeaseTypeOK, LeaseInv
    PROVE  FreshIsBacked
  <1> SUFFICES ASSUME NEW i \in Keeper, NEW l \in Lease, Fresh(i, l)
               PROVE  holder[l] = i /\ ttlLeft[l] > 0
    BY DEF FreshIsBacked
  <1>1. /\ ttlLeft[l] \in Nat /\ renewedAgo[i][l] \in Nat /\ TTL \in Nat /\ AnswerDelay \in Nat
    BY LeaseAssumption DEF LeaseTypeOK, MaxAge
  <1>2. QED
    BY <1>1 DEF LeaseInv, Backed, Fresh

\* While nobody takes leases back by hand, an instance whose last renewal is
\* recent (by its own clock, counted from the answer) owns a live row, for
\* every TTL and every bound on the delay of answers.
THEOREM FreshHolderOwnsRow == ASSUME NoTakeBack PROVE LeaseSpec => []FreshIsBacked
  <1>1. LeaseInit => LeaseTypeOK /\ QuietInv /\ LeaseInv
    BY LeaseAssumption
       DEF LeaseInit, LeaseTypeOK, KeeperPhase, MaxAge, QuietInv, Quiet, LeaseInv, Backed, Answered
  <1>2. LeaseTypeOK /\ QuietInv /\ LeaseInv /\ [LeaseNext]_leaseVars => (LeaseTypeOK /\ QuietInv /\ LeaseInv)'
    BY TypeStep, QuietStep, LeaseStep
  <1>3. LeaseTypeOK /\ LeaseInv => FreshIsBacked
    BY PromisesBackHolders
  <1>4. QED
    BY <1>1, <1>2, <1>3, PTL DEF LeaseSpec

\* No step of one instance touches the callers' view of another one.
LEMMA LoopWork ==
    ASSUME LeaseTypeOK, QuietInv, WorkInv, NEW i \in Keeper, LoopStep(i)
    PROVE  WorkInv'
  <1>1. proc[i] = "up" /\ releases[i] = {} /\ UNCHANGED <<proc, releases, wanted>>
    BY DEF LoopStep, StartPass, TryCommit, Unreachable, Answer, EndPass, Try, QuietInv, Quiet,
           Acquire, Lose, NotHeld, local
  <1>2. \A k \in Keeper : k # i =>
           /\ held'[k] = held[k] /\ working'[k] = working[k]
           /\ todo'[k] = todo[k] /\ phase'[k] = phase[k] /\ target'[k] = target[k]
    BY DEF LoopStep, StartPass, TryCommit, Unreachable, Answer, EndPass, Try,
           Acquire, Lose, NotHeld, LeaseTypeOK, local
  <1>3. Works(i)'
    <2>1. working[i] = held[i]
      BY <1>1 DEF WorkInv, Works
    <2>2. CASE StartPass(i)
      BY <1>1, <2>1, <2>2 DEF StartPass, LeaseTypeOK, local, WorkInv, Works
    <2>3. CASE TryCommit(i)
      BY <1>1, <2>1, <2>3 DEF TryCommit, LeaseTypeOK, local, WorkInv, Works
    <2>4. CASE Unreachable(i)
      BY <1>1, <2>1, <2>4 DEF Unreachable, LeaseTypeOK, local, WorkInv, Works
    <2>5. CASE Answer(i)
      <3>1. PICK t : t = target[i]
        OBVIOUS
      <3>2. t \in wanted[i] /\ t \in Lease
        BY <2>5, <3>1 DEF Answer, LeaseTypeOK, WorkInv, Works
      <3>3. /\ phase'[i] = "pass" /\ todo' = todo
        BY <2>5 DEF Answer, LeaseTypeOK
      <3>4. \/ held'[i] = held[i] \cup {t} /\ working'[i] =
                 IF t \notin held[i] /\ t \in wanted[i] THEN working[i] \cup {t} ELSE working[i]
            \/ held'[i] = held[i] \ {t} /\ working'[i] =
                 IF t \in wanted[i] THEN working[i] \ {t} ELSE working[i]
            \/ held'[i] = held[i] /\ working'[i] = working[i]
        BY <2>5, <3>1 DEF Answer, Acquire, Lose, NotHeld, LeaseTypeOK
      <3>5. working'[i] = held'[i] /\ held'[i] \subseteq wanted[i]
        BY <2>1, <3>2, <3>4 DEF WorkInv, Works
      <3>6. QED
        BY <1>1, <3>3, <3>5 DEF WorkInv, Works
    <2>6. CASE EndPass(i)
      BY <1>1, <2>1, <2>6 DEF EndPass, LeaseTypeOK, local, WorkInv, Works
    <2>7. ASSUME NEW l \in Lease, Try(i, l)
          PROVE  Works(i)'
      BY <1>1, <2>1, <2>7 DEF Try, LeaseTypeOK, local, WorkInv, Works
    <2>8. QED
      BY <2>2, <2>3, <2>4, <2>5, <2>6, <2>7 DEF LoopStep
  <1>4. QED
    BY <1>1, <1>2, <1>3 DEF WorkInv, Works

LEMMA ProcessWork ==
    ASSUME LeaseTypeOK, QuietInv, WorkInv, NEW i \in Keeper, ProcessStep(i)
    PROVE  WorkInv'
  <1>1. CASE StopKeeper(i)
    BY <1>1 DEF StopKeeper, ClearLoop, LeaseTypeOK, local, WorkInv, Works
  <1>2. CASE Deregister(i)
    BY <1>2 DEF Deregister, ForgetProcess, ClearLoop, LeaseTypeOK, WorkInv, Works
  <1>3. CASE Crash(i)
    BY <1>3 DEF Crash, ForgetProcess, ClearLoop, LeaseTypeOK, WorkInv, Works
  <1>4. CASE Restart(i)
    BY <1>4 DEF Restart, local, loop, WorkInv, Works
  <1>5. ASSUME NEW l \in Lease, StopReleases(i, l)
        PROVE  WorkInv'
    <2>1. /\ l \in held[i] /\ UNCHANGED <<wanted, working, todo, phase, target>>
      BY <1>5 DEF StopReleases, StartRelease, loop
    <2>2. \A k \in Keeper : k # i => held'[k] = held[k] /\ releases'[k] = releases[k]
      BY <1>5 DEF StopReleases, StartRelease, NotHeld, LeaseTypeOK
    <2>3. held'[i] = held[i] \ {l}
      BY <1>5 DEF StopReleases, StartRelease, NotHeld, LeaseTypeOK
    <2>4. releases'[i] = releases[i] \cup
              {[lease |-> l, kind |-> "release_now", sent |-> TRUE]}
      BY <1>5 DEF StopReleases, StartRelease, LeaseTypeOK
    <2>5. releases[i] = {}
      BY <1>5 DEF StopReleases, QuietInv, Quiet
    <2>6. Works(i)'
      <3>1. l \in working[i] /\ l \in wanted[i]
        BY <2>1 DEF WorkInv, Works
      <3>2. \A r \in releases'[i] : r.lease \in wanted[i]
        BY <2>4, <2>5, <3>1
      <3>3. working[i] = held'[i] \cup
               {m \in Lease : \E r \in releases'[i] : r.lease = m /\ r.kind = "release_now"}
        BY <2>1, <2>3, <2>4, <2>5, <3>1 DEF WorkInv, Works, LeaseTypeOK
      <3>4. \A q, r \in releases'[i] : q = r
        BY <2>4, <2>5
      <3>5. QED
        BY <2>1, <2>3, <3>2, <3>3, <3>4 DEF WorkInv, Works
    <2>7. QED
      BY <2>1, <2>2, <2>6 DEF WorkInv, Works
  <1>6. ASSUME NEW l \in Lease, OrphanEnds(i, l)
        PROVE  WorkInv'
    BY <1>6 DEF OrphanEnds, local, loop, WorkInv, Works
  <1>7. QED
    BY <1>1, <1>2, <1>3, <1>4, <1>5, <1>6 DEF ProcessStep

\* A release that ended stands for the same lease until it is reported; the
\* report ends the work of exactly that lease.
LEMMA ReleaseWork ==
    ASSUME LeaseTypeOK, QuietInv, WorkInv, NEW i \in Keeper, NEW r \in releases[i],
           ReleaseCommit(i, r) \/ ReleaseFail(i, r) \/ ReleaseDone(i, r)
    PROVE  WorkInv'
  <1>1. UNCHANGED <<wanted, held, todo, phase, target>>
    BY DEF ReleaseCommit, ReleaseFail, ReleaseDone, local, loop
  <1>2. \A k \in Keeper : k # i => working'[k] = working[k] /\ releases'[k] = releases[k]
    BY DEF ReleaseCommit, ReleaseFail, ReleaseDone, LeaseTypeOK, local
  <1>3. /\ r.kind = "release_now" /\ r.lease \notin held[i] /\ r.lease \in wanted[i]
        /\ r \in Release
    BY DEF QuietInv, Quiet, WorkInv, Works, LeaseTypeOK
  <1>4. CASE ReleaseCommit(i, r) \/ ReleaseFail(i, r)
    <2>1. working'[i] = working[i] /\ releases'[i] = (releases[i] \ {r}) \cup {Ended(r)}
      BY <1>4 DEF ReleaseCommit, ReleaseFail, LeaseTypeOK, local
    <2>2. Ended(r).lease = r.lease /\ Ended(r).kind = r.kind
      BY DEF Ended
    <2>3. \A m \in Lease :
             (\E q \in releases'[i] : q.lease = m /\ q.kind = "release_now")
             <=> \E q \in releases[i] : q.lease = m /\ q.kind = "release_now"
      BY <2>1, <2>2
    <2>4. /\ \A q \in releases'[i] : q.lease \in wanted[i]
          /\ \A p, q \in releases'[i] : p = q
      BY <2>1, <2>2 DEF WorkInv, Works
    <2>5. Works(i)'
      BY <1>1, <2>1, <2>3, <2>4 DEF WorkInv, Works
    <2>6. QED
      BY <1>1, <1>2, <2>5 DEF WorkInv, Works
  <1>5. CASE ReleaseDone(i, r)
    <2>1. working'[i] = working[i] \ {r.lease} /\ releases'[i] = releases[i] \ {r} /\ ~r.sent
      BY <1>3, <1>5 DEF ReleaseDone, LeaseTypeOK
    <2>2. releases[i] = {r}
      BY DEF WorkInv, Works
    <2>3. working[i] = held[i] \cup {r.lease}
      BY <1>3, <2>2 DEF WorkInv, Works, Release
    <2>4. working'[i] = held'[i] /\ releases'[i] = {}
      BY <1>1, <1>3, <2>1, <2>2, <2>3
    <2>5. Works(i)'
      BY <1>1, <2>4 DEF WorkInv, Works
    <2>6. QED
      BY <1>1, <1>2, <2>5 DEF WorkInv, Works
  <1>6. QED
    BY <1>4, <1>5

LEMMA WorkStep ==
    ASSUME NoTakeBack, LeaseTypeOK, QuietInv, WorkInv, [LeaseNext]_leaseVars
    PROVE  WorkInv'
  <1>1. ASSUME NEW i \in Keeper, CallerStep(i)
        PROVE  WorkInv'
    <2>1. ASSUME NEW l \in Lease, Want(i, l)
          PROVE  WorkInv'
      <3>1. releases[i] = {}
        BY <2>1 DEF Want, QuietInv, Quiet
      <3>2. QED
        BY <2>1, <3>1 DEF Want, loop, LeaseTypeOK, WorkInv, Works
    <2>2. ASSUME NEW l \in Lease, ForceRelease(i, l)
          PROVE  WorkInv'
      BY <2>2 DEF ForceRelease, NoTakeBack
    <2>3. QED
      BY <1>1, <2>1, <2>2 DEF CallerStep, Forget, ReleaseNow, NoTakeBack
  <1>2. CASE LeaseTick
    BY <1>2 DEF LeaseTick, WorkInv, Works
  <1>3. CASE UNCHANGED leaseVars
    BY <1>3 DEF leaseVars, local, loop, WorkInv, Works
  <1>4. QED
    BY <1>1, <1>2, <1>3, LoopWork, ProcessWork, ReleaseWork DEF LeaseNext, ReleaseStep

\* While nobody takes leases back by hand, the callbacks keep the work of an
\* instance and its set of held leases in step: work runs exactly for the
\* leases that are held or being released by stop().
THEOREM WorkFollowsLease == ASSUME NoTakeBack PROVE LeaseSpec => []WorkerFollowsLease
  <1>1. LeaseInit => LeaseTypeOK /\ QuietInv /\ WorkInv
    BY LeaseAssumption
       DEF LeaseInit, LeaseTypeOK, KeeperPhase, MaxAge, QuietInv, Quiet, WorkInv, Works
  <1>2. LeaseTypeOK /\ QuietInv /\ WorkInv /\ [LeaseNext]_leaseVars => (LeaseTypeOK /\ QuietInv /\ WorkInv)'
    BY TypeStep, QuietStep, WorkStep
  <1>3. WorkInv => WorkerFollowsLease
    BY DEF WorkInv, Works, WorkerFollowsLease
  <1>4. QED
    BY <1>1, <1>2, <1>3, PTL DEF LeaseSpec
-----------------------------------------------------------------------------
\* An absent row has no time left to live: without this, taking a row that
\* is not there would look like taking a live one.
AbsentIsOver == \A l \in Lease : holder[l] = Nobody => ttlLeft[l] = 0

\* A keeper that takes a row leaves every other live row alone, and takes
\* none that is alive and another's.
LEMMA TakingSparesTheLiving ==
    ASSUME LeaseTypeOK, AbsentIsOver, NEW i \in Keeper, NEW l \in Lease,
           Takes(i, l), TakeRow(i, l)
    PROVE  /\ AbsentIsOver'
           /\ \A k \in Lease : ttlLeft[k] > 0 => holder'[k] = holder[k]
  <1>1. holder'[l] = i /\ \A k \in Lease : k # l => holder'[k] = holder[k]
    BY DEF TakeRow, LeaseTypeOK
  <1>2. \A k \in Lease : k # l => ttlLeft'[k] = ttlLeft[k]
    BY DEF TakeRow, LeaseTypeOK
  <1>3. AbsentIsOver'
    BY <1>1, <1>2, LeaseAssumption DEF AbsentIsOver
  <1>4. ttlLeft[l] > 0 => holder[l] = i
    BY DEF Takes, AbsentIsOver, LeaseTypeOK
  <1>5. QED
    BY <1>1, <1>3, <1>4

\* Rows that are dropped are absent and over, the others stay.
LEMMA DroppingLeavesAbsentRows ==
    ASSUME AbsentIsOver, NEW S, DropRows(S)
    PROVE  /\ AbsentIsOver'
           /\ \A k \in Lease : holder'[k] = IF k \in S THEN Nobody ELSE holder[k]
  BY DEF DropRows, AbsentIsOver

\* What LiveRowOnlyGivenUp says of one step, apart from the rows it leaves
\* alone.
GivenUp(l) ==
    /\ holder'[l] = Nobody
    /\ \/ proc[holder[l]] = "stopping"
       \/ \E r \in releases[holder[l]] : r.lease = l /\ r.sent
       \/ \E i \in Keeper : Forced(i, l)

\* The steps that leave the table alone.
LEMMA UntouchedTable ==
    ASSUME AbsentIsOver, UNCHANGED table
    PROVE  /\ AbsentIsOver'
           /\ \A l \in Lease : ttlLeft[l] > 0 /\ holder[l] # holder'[l] => GivenUp(l)
  BY DEF AbsentIsOver, table

\* Every step keeps absent rows over, and a live row that changes its holder
\* was given up: the commit of a try_acquire, of the releases, of a
\* deregistration and of an orphaned thread are the steps that could do worse.
LEMMA LiveRowStep ==
    ASSUME LeaseTypeOK, AbsentIsOver, [LeaseNext]_leaseVars
    PROVE  /\ AbsentIsOver'
           /\ \A l \in Lease : ttlLeft[l] > 0 /\ holder[l] # holder'[l] => GivenUp(l)
  <1> DEFINE Goal == /\ AbsentIsOver'
                     /\ \A l \in Lease : ttlLeft[l] > 0 /\ holder[l] # holder'[l] => GivenUp(l)
  <1>1. ASSUME NEW i \in Keeper, LoopStep(i)
        PROVE  Goal
    <2>1. CASE TryCommit(i)
      <3>1. target[i] \in Lease
        BY <2>1 DEF TryCommit, LeaseTypeOK
      <3>2. CASE Takes(i, target[i]) /\ TakeRow(i, target[i])
        BY <3>1, <3>2, TakingSparesTheLiving
      <3>3. CASE UNCHANGED table
        BY <3>3, UntouchedTable
      <3>4. QED
        BY <2>1, <3>2, <3>3 DEF TryCommit
    <2>2. CASE UNCHANGED table
      BY <2>2, UntouchedTable
    <2>3. QED
      BY <1>1, <2>1, <2>2 DEF LoopStep, StartPass, Unreachable, Answer, EndPass, Try
  <1>2. ASSUME NEW i \in Keeper, CallerStep(i)
        PROVE  Goal
    <2>1. UNCHANGED table
      BY <1>2 DEF CallerStep, Want, Forget, ReleaseNow, StartRelease, ForceRelease
    <2>2. QED
      BY <2>1, UntouchedTable
  <1>3. ASSUME NEW i \in Keeper, ReleaseStep(i)
        PROVE  Goal
    <2>1. ASSUME NEW r \in releases[i], ReleaseCommit(i, r)
          PROVE  Goal
      <3> DEFINE S == {r.lease} \cap {l \in Lease : r.kind = "force" \/ holder[l] = i}
      <3>1. r.sent /\ DropRows(S)
        BY <2>1 DEF ReleaseCommit
      <3>2. AbsentIsOver' /\ \A k \in Lease : holder'[k] = IF k \in S THEN Nobody ELSE holder[k]
        BY <3>1, DroppingLeavesAbsentRows
      <3>3. ASSUME NEW l \in Lease, ttlLeft[l] > 0, holder[l] # holder'[l]
            PROVE  GivenUp(l)
        BY <3>1, <3>2, <3>3 DEF GivenUp, Forced
      <3>4. QED
        BY <3>2, <3>3
    <2>2. CASE UNCHANGED table
      BY <2>2, UntouchedTable
    <2>3. QED
      BY <1>3, <2>1, <2>2 DEF ReleaseStep, ReleaseFail, ReleaseDone
  <1>4. ASSUME NEW i \in Keeper, ProcessStep(i)
        PROVE  Goal
    <2>1. CASE Deregister(i) /\ ~UNCHANGED table
      <3> DEFINE S == {l \in Lease : holder[l] = i}
      <3>1. proc[i] = "stopping" /\ DropRows(S)
        BY <2>1 DEF Deregister
      <3>2. AbsentIsOver' /\ \A k \in Lease : holder'[k] = IF k \in S THEN Nobody ELSE holder[k]
        BY <3>1, DroppingLeavesAbsentRows
      <3>3. ASSUME NEW l \in Lease, ttlLeft[l] > 0, holder[l] # holder'[l]
            PROVE  GivenUp(l)
        BY <3>1, <3>2, <3>3 DEF GivenUp
      <3>4. QED
        BY <3>2, <3>3
    <2>2. ASSUME NEW l \in Lease, OrphanEnds(i, l), ~UNCHANGED table
          PROVE  Goal
      BY <2>2, TakingSparesTheLiving DEF OrphanEnds
    <2>3. CASE UNCHANGED table
      BY <2>3, UntouchedTable
    <2>4. QED
      BY <1>4, <2>1, <2>2, <2>3
         DEF ProcessStep, StopKeeper, Crash, Restart, StopReleases, StartRelease
  <1>5. CASE LeaseTick
    <2>1. \A l \in Lease : ttlLeft[l] = 0 => ttlLeft'[l] = 0
      BY <1>5 DEF LeaseTick
    <2>2. holder' = holder
      BY <1>5 DEF LeaseTick
    <2>3. QED
      BY <2>1, <2>2 DEF AbsentIsOver
  <1>6. CASE UNCHANGED leaseVars
    BY <1>6, UntouchedTable DEF leaseVars
  <1>7. QED
    BY <1>1, <1>2, <1>3, <1>4, <1>5, <1>6 DEF LeaseNext

\* A live row never changes hands in one step: it is given up by a release or
\* the deregistration of its own holder, or by force, whatever crashes, lost
\* answers and orphaned threads do.
THEOREM LiveRowIsGivenUp == LeaseSpec => LiveRowOnlyGivenUp
  <1>1. LeaseInit => AbsentIsOver
    BY DEF LeaseInit, AbsentIsOver
  <1>2. LeaseTypeOK /\ AbsentIsOver /\ [LeaseNext]_leaseVars => AbsentIsOver'
    BY LiveRowStep
  <1>3. LeaseTypeOK /\ AbsentIsOver /\ [LeaseNext]_leaseVars =>
            [\A l \in Lease :
                ttlLeft[l] > 0 /\ holder[l] # holder'[l] =>
                    /\ holder'[l] = Nobody
                    /\ \/ proc[holder[l]] = "stopping"
                       \/ \E r \in releases[holder[l]] : r.lease = l /\ r.sent
                       \/ \E i \in Keeper : Forced(i, l)]_leaseVars
    BY LiveRowStep DEF GivenUp
  <1>4. QED
    BY <1>1, <1>2, <1>3, TypeCorrect, PTL DEF LeaseSpec, LiveRowOnlyGivenUp
-----------------------------------------------------------------------------
(* The refinement.  That no two are sure is FreshIsBacked before and after *)
(* a step, that a live row has one owner is LiveRowStep.  What is missing  *)
(* is that nobody becomes sure in a step that touches the table.           *)

\* Only an answer makes a holder sure, long after its row was written.
LEMMA AnAnswerMakesSure ==
    ASSUME LeaseTypeOK, [LeaseNext]_leaseVars, NEW i \in Keeper, NEW l \in Lease,
           ~Fresh(i, l), Fresh(i, l)'
    PROVE  UNCHANGED table
  <1> USE DEF Fresh
  <1>1. l \in held'[i] /\ renewedAgo'[i][l] + AnswerDelay < TTL
    OBVIOUS
  <1>2. ASSUME held'[i] \subseteq held[i], l \in held'[i] => renewedAgo'[i][l] = renewedAgo[i][l]
        PROVE  FALSE
    BY <1>1, <1>2
  <1>3. ASSUME NEW k \in Keeper, LoopStep(k)
        PROVE  UNCHANGED table
    <2>1. CASE TryCommit(k)
      BY <2>1, <1>2 DEF TryCommit, local
    <2>2. QED
      BY <1>3, <2>1 DEF LoopStep, StartPass, Unreachable, Answer, EndPass, Try
  <1>4. ASSUME NEW k \in Keeper, CallerStep(k)
        PROVE  UNCHANGED table
    <2>1. ASSUME NEW m \in Lease, ForceRelease(k, m)
          PROVE  FALSE
      BY <2>1, <1>2 DEF ForceRelease, local
    <2>2. QED
      BY <1>4, <2>1 DEF CallerStep, Want, Forget, ReleaseNow, StartRelease
  <1>5. ASSUME NEW k \in Keeper, ReleaseStep(k)
        PROVE  FALSE
    BY <1>5, <1>2 DEF ReleaseStep, ReleaseCommit, ReleaseFail, ReleaseDone, local
  <1>6. ASSUME NEW k \in Keeper, ProcessStep(k)
        PROVE  UNCHANGED table
    <2>1. CASE Deregister(k)
      <3>1. held'[k] = {}
        BY <2>1 DEF Deregister, ForgetProcess, LeaseTypeOK
      <3>2. i # k => held'[i] = held[i] /\ renewedAgo'[i] = renewedAgo[i]
        BY <2>1 DEF Deregister, ForgetProcess, LeaseTypeOK
      <3>3. QED
        BY <3>1, <3>2, <1>1, <1>2
    <2>2. ASSUME NEW m \in Lease, OrphanEnds(k, m)
          PROVE  FALSE
      BY <2>2, <1>2 DEF OrphanEnds, local
    <2>3. QED
      BY <1>6, <2>1, <2>2 DEF ProcessStep, StopKeeper, Crash, Restart, StopReleases, StartRelease
  <1>7. CASE LeaseTick
    <2>1. renewedAgo[i][l] \in 0..MaxAge /\ TTL \in Nat /\ AnswerDelay \in Nat
      BY LeaseAssumption DEF LeaseTypeOK
    <2>2. held' = held
      BY <1>7 DEF LeaseTick
    <2>3. renewedAgo'[i][l] =
              IF l \in held[i] /\ renewedAgo[i][l] < MaxAge THEN renewedAgo[i][l] + 1 ELSE renewedAgo[i][l]
      BY <1>7 DEF LeaseTick
    <2>4. l \in held[i] /\ ~(renewedAgo[i][l] + AnswerDelay < TTL)
      BY <1>1, <2>2
    <2>5. QED
      BY <1>1, <2>1, <2>3, <2>4 DEF MaxAge
  <1>8. QED
    BY <1>3, <1>4, <1>5, <1>6, <1>7 DEF LeaseNext, leaseVars

LEMMA PromisesBackHoldersThen ==
    ASSUME LeaseTypeOK', LeaseInv'
    PROVE  FreshIsBacked'
  BY PromisesBackHolders, PTL

Owner(l) == IF ttlLeft[l] > 0 THEN holder[l] ELSE Nobody
Sure(l) == {i \in Keeper : Fresh(i, l)}

\* Where somebody is sure after a step, it has heard of a row it already owned.
LEMMA SureIsConfirmed ==
    ASSUME LeaseTypeOK, FreshIsBacked, FreshIsBacked', [LeaseNext]_leaseVars,
           NEW l \in Lease, Sure(l)' # {}
    PROVE  /\ Owner(l) \in Keeper
           /\ Owner(l)' = Owner(l)
           /\ Sure(l)' = {Owner(l)}
  <1> PICK i \in Keeper : Fresh(i, l)'
    BY DEF Sure
  <1>1. holder'[l] = i /\ ttlLeft'[l] > 0
    BY DEF FreshIsBacked
  <1>2. \A k \in Keeper : Fresh(k, l)' => k = i
    BY <1>1 DEF FreshIsBacked
  <1>3. Sure(l)' = {i}
    BY <1>2 DEF Sure
  <1>4. holder[l] = i /\ ttlLeft[l] > 0
    <2>1. CASE Fresh(i, l)
      BY <2>1 DEF FreshIsBacked
    <2>2. CASE ~Fresh(i, l)
      <3>1. UNCHANGED table
        BY <2>2, AnAnswerMakesSure
      <3>2. QED
        BY <1>1, <3>1 DEF table
    <2>3. QED
      BY <2>1, <2>2
  <1>5. QED
    BY <1>1, <1>3, <1>4 DEF Owner

\* Where the owner changes, the lease was free before or is free now.
LEMMA OwnerChangesWhenFree ==
    ASSUME LeaseTypeOK, LeaseTypeOK', AbsentIsOver, [LeaseNext]_leaseVars, FreshIsBacked,
           NEW l \in Lease, Owner(l)' # Owner(l), Owner(l)' # Nobody
    PROVE  Owner(l) = Nobody /\ Owner(l)' \in Keeper /\ Sure(l) = {}
  <1>1. ttlLeft'[l] > 0 /\ holder'[l] # Nobody /\ Owner(l)' = holder'[l]
    BY DEF Owner
  <1>2. ~(ttlLeft[l] > 0)
    <2> SUFFICES ASSUME ttlLeft[l] > 0
                 PROVE  FALSE
      OBVIOUS
    <2>1. holder[l] # holder'[l]
      BY <1>1 DEF Owner
    <2>2. GivenUp(l)
      BY <2>1, LiveRowStep
    <2>3. QED
      BY <1>1, <2>2 DEF GivenUp
  <1>3. Owner(l)' \in Keeper
    BY <1>1 DEF LeaseTypeOK
  <1>4. QED
    BY <1>2, <1>3 DEF Owner, Sure, FreshIsBacked

LEMMA LockStep ==
    ASSUME LeaseTypeOK, LeaseTypeOK', AbsentIsOver, FreshIsBacked, FreshIsBacked', [LeaseNext]_leaseVars
    PROVE  Lock!LockNext
  <1>1. \A l \in Lease : Owner(l)' \in Keeper \cup {Nobody}
    BY DEF Owner, LeaseTypeOK
  <1>2. \A l \in Lease : Sure(l)' \in SUBSET Keeper
    BY DEF Sure
  <1>3. ASSUME NEW l \in Lease
        PROVE  \/ Owner(l) # Nobody /\ Owner(l)' = Owner(l) /\ Sure(l)' = {Owner(l)}
               \/ Owner(l)' = Owner(l) /\ Sure(l)' = {}
               \/ Owner(l)' = Nobody /\ Sure(l)' = {}
               \/ \E i \in Keeper : Owner(l) = Nobody /\ Sure(l) = {} /\ Owner(l)' = i /\ Sure(l)' = {}
    <2>1. CASE Sure(l)' # {}
      BY <2>1, SureIsConfirmed, LeaseAssumption
    <2>2. CASE Sure(l)' = {}
      BY <2>2, OwnerChangesWhenFree
    <2>3. QED
      BY <2>1, <2>2
  <1> DEFINE o == [l \in Lease |-> IF ttlLeft[l] > 0 THEN holder[l] ELSE Nobody]
             s == [l \in Lease |-> {i \in Keeper : Fresh(i, l)}]
  <1>4. \A l \in Lease : o[l] = Owner(l) /\ o'[l] = Owner(l)' /\ s[l] = Sure(l) /\ s'[l] = Sure(l)'
    BY DEF Owner, Sure
  <1>5. o' \in [Lease -> Keeper \cup {Nobody}] /\ s' \in [Lease -> SUBSET Keeper]
    BY <1>1, <1>2 DEF Owner, Sure
  <1>6. \A l \in Lease :
           \/ o[l] # Nobody /\ o'[l] = o[l] /\ s'[l] = {o[l]}
           \/ o'[l] = o[l] /\ s'[l] = {}
           \/ o'[l] = Nobody /\ s'[l] = {}
           \/ \E i \in Keeper : o[l] = Nobody /\ s[l] = {} /\ o'[l] = i /\ s'[l] = {}
    BY <1>3, <1>4
  <1> HIDE DEF o, s
  <1>7. QED
    BY <1>5, <1>6 DEF Lock!LockNext, Lock!Given, Lock!Confirmed, Lock!Doubted, Lock!Freed, o, s

\* The keepers, the rows and the answers on their way implement the lock, for
\* every TTL and every bound on the delay of answers: crashes, restarts, stops
\* with their left-over threads and a database out of reach included.
THEOREM KeepersImplementLock == ASSUME NoTakeBack PROVE LeaseSpec => ImplementsLock
  <1>1. LeaseInit => LeaseTypeOK /\ QuietInv /\ LeaseInv /\ AbsentIsOver
    BY LeaseAssumption
       DEF LeaseInit, LeaseTypeOK, KeeperPhase, MaxAge, QuietInv, Quiet, LeaseInv, Backed, Answered, AbsentIsOver
  <1>2. LeaseTypeOK /\ QuietInv /\ LeaseInv /\ AbsentIsOver /\ [LeaseNext]_leaseVars
            => (LeaseTypeOK /\ QuietInv /\ LeaseInv /\ AbsentIsOver)'
    BY TypeStep, QuietStep, LeaseStep, LiveRowStep
  <1>3. LeaseInit => Lock!LockInit
    BY DEF LeaseInit, Lock!LockInit, Fresh
  <1>4. LeaseTypeOK /\ LeaseInv /\ AbsentIsOver /\ LeaseTypeOK' /\ LeaseInv' /\ [LeaseNext]_leaseVars
            => [Lock!LockNext]_(Lock!lockVars)
    <2> SUFFICES ASSUME LeaseTypeOK, LeaseInv, AbsentIsOver, LeaseTypeOK', LeaseInv', [LeaseNext]_leaseVars
                 PROVE  Lock!LockNext
      OBVIOUS
    <2>1. FreshIsBacked
      BY PromisesBackHolders
    <2>2. FreshIsBacked'
      BY PromisesBackHoldersThen
    <2>3. QED
      BY <2>1, <2>2, LockStep
  <1>5. QED
    BY <1>1, <1>2, <1>3, <1>4, PTL DEF LeaseSpec, ImplementsLock, Lock!LockSpec

\* Whatever implements the lock has FreshIsBacked: the refinement is the
\* stronger of the two.
THEOREM LockBacksHolders == ImplementsLock => []FreshIsBacked
  <1> DEFINE o == [l \in Lease |-> IF ttlLeft[l] > 0 THEN holder[l] ELSE Nobody]
             s == [l \in Lease |-> {i \in Keeper : Fresh(i, l)}]
  <1>1. Lock!LockInit => FreshIsBacked
    <2> SUFFICES ASSUME s = [l \in Lease |-> {}], NEW i \in Keeper, NEW l \in Lease, Fresh(i, l)
                 PROVE  FALSE
      BY DEF Lock!LockInit, FreshIsBacked
    <2>1. i \in s[l]
      OBVIOUS
    <2>2. QED
      BY <2>1
  <1>2. FreshIsBacked /\ [Lock!LockNext]_(Lock!lockVars) => FreshIsBacked'
    <2> SUFFICES ASSUME FreshIsBacked, [Lock!LockNext]_(Lock!lockVars),
                        NEW i \in Keeper, NEW l \in Lease, Fresh(i, l)'
                 PROVE  holder'[l] = i /\ ttlLeft'[l] > 0
      BY DEF FreshIsBacked
    <2>1. i \in s'[l] /\ i # Nobody
      BY LeaseAssumption
    <2>2. o'[l] = IF ttlLeft'[l] > 0 THEN holder'[l] ELSE Nobody
      OBVIOUS
    <2>3. i \in s[l] => o[l] = i
      BY DEF FreshIsBacked
    <2>4. CASE Lock!LockNext
      <3>1. s'[l] = {} \/ (s'[l] = {o[l]} /\ o'[l] = o[l])
        BY <2>4 DEF Lock!LockNext, Lock!Given, Lock!Confirmed, Lock!Doubted, Lock!Freed
      <3> HIDE DEF o, s
      <3>2. QED
        BY <2>1, <2>2, <3>1
    <2>5. CASE UNCHANGED Lock!lockVars
      <3>1. s' = s /\ o' = o
        BY <2>5 DEF Lock!lockVars
      <3> HIDE DEF o, s
      <3>2. QED
        BY <2>1, <2>2, <2>3, <3>1
    <2>6. QED
      BY <2>4, <2>5
  <1>3. QED
    BY <1>1, <1>2, PTL DEF ImplementsLock, Lock!LockSpec
=============================================================================

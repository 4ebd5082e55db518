--------------------------- MODULE ServicesProofs ---------------------------
(***************************************************************************)
(* The services an instance offers its plugins, with maintenance windows,  *)
(* the central log and notifications: for every number of plugins,         *)
(* targets, requests, schedules, lines and steps, each module's types and  *)
(* its safety property, from an invariant of its own.  Of each section     *)
(* (but Maintenance's) the last lemma before the theorems says that every  *)
(* step keeps the invariant; the lemmas above it take the actions one by   *)
(* one.                                                                    *)
(***************************************************************************)
EXTENDS PluginStatus, PluginRoutes, NotificationRouting, Marketplace, GitRepo, PluginContext, Streams, Membership, Maintenance, LogStore, Notifications, FiniteSetTheorems, WellFoundedInduction, TLAPS

-----------------------------------------------------------------------------
(* PluginStatus: while the gate is closed, a plugin that is loaded         *)
(* reported a phase that closes it, and that report is the last of its     *)
(* plugin.                                                                 *)

\* Only "starting" and "maintenance" block, and only as long as what reported
\* them goes on, whether the plugin is active by then or not.
BlockedByOne ==
    /\ runtime.blocking => runtime.phase \in {"starting", "maintenance"}
    /\ runtime.blocking => warmup # "none" \/ windows > 0

StatusInv == StatusTypeOK /\ PhaseIsTold /\ BlockedByOne

\* At boot nothing is blocking.
LEMMA StatusStarts == StatusInit => StatusInv
  BY WindowsAssumption DEF StatusInit, StatusInv, StatusTypeOK, PhaseIsTold, BlockedByOne, Changed, Ready, Runtime, Phase

\* What set_status() leaves behind.
LEMMA Reported ==
    ASSUME StatusInv, NEW ph \in Phase, NEW blocking \in BOOLEAN, NEW progress \in {0, 1},
           Reports(ph, blocking, progress)
    PROVE  /\ runtime' \in Runtime /\ told' \in Runtime
           /\ runtime'.phase = ph
           /\ runtime'.blocking = (blocking /\ ph \in {"starting", "maintenance"})
           /\ PhaseIsTold'
<1> DEFINE new == [phase |-> ph, progress |-> progress,
                   blocking |-> blocking /\ ph \in {"starting", "maintenance"}]
<1>1. new \in Runtime
  BY DEF Runtime
<1>2. runtime' = new /\ \E recent \in BOOLEAN : told' = IF HeldBack(new, recent) THEN told ELSE new
  BY DEF Reports
<1>3. told' = new \/ (told' = told /\ ~Changed(new))
  BY <1>2 DEF HeldBack
<1>4. PhaseIsTold'
  <2>1. CASE told' = new
    BY <1>2, <2>1 DEF PhaseIsTold, Changed
  <2>2. CASE told' = told /\ ~Changed(new)
    BY <1>2, <2>2 DEF PhaseIsTold, Changed, StatusInv
  <2> QED BY <1>3, <2>1, <2>2
<1> QED BY <1>1, <1>2, <1>3, <1>4 DEF StatusInv, StatusTypeOK

\* Every report of a phase, every warm-up and every window keeps the invariant.
LEMMA StatusKept == StatusInv /\ [StatusNext]_statusVars => StatusInv'
<1> SUFFICES ASSUME StatusInv, [StatusNext]_statusVars PROVE StatusInv'
  OBVIOUS
<1> USE WindowsAssumption DEF StatusInv, StatusTypeOK, BlockedByOne, Phase
<1>0. Ready \in Runtime
  BY DEF Ready, Runtime
<1>r. ASSUME Reset PROVE /\ runtime' \in Runtime /\ told' \in Runtime /\ PhaseIsTold'
                         /\ ~runtime'.blocking
  <2>1. CASE runtime.phase = "ready"
    <3>1. ~runtime.blocking
      BY <2>1
    <3> QED BY <1>r, <2>1, <3>1 DEF Reset, PhaseIsTold, Changed
  <2>2. CASE runtime.phase # "ready"
    <3>1. runtime' = Ready /\ told' = Ready
      BY <1>r, <2>2 DEF Reset
    <3>2. ~Ready.blocking
      BY DEF Ready
    <3> QED BY <1>0, <3>1, <3>2 DEF PhaseIsTold, Changed
  <2> QED BY <2>1, <2>2
<1>1. ASSUME NEW by \in {"setup", "task"}, NEW blocking \in BOOLEAN, WarmUp(by, blocking) PROVE StatusInv'
  BY <1>1, Reported DEF WarmUp
<1>2. ASSUME Progress PROVE StatusInv'
  BY <1>2, Reported DEF Progress, Runtime
<1>3. ASSUME WarmUpEnds PROVE StatusInv'
  BY <1>3, Reported DEF WarmUpEnds
<1>4. ASSUME WarmUpDies PROVE StatusInv'
  BY <1>4 DEF WarmUpDies, PhaseIsTold, Changed
<1>5. ASSUME Degrades PROVE StatusInv'
  BY <1>5, Reported DEF Degrades
<1>6. ASSUME NEW blocking \in BOOLEAN, OpenWindow(blocking) PROVE StatusInv'
  BY <1>6, Reported DEF OpenWindow
<1>7. ASSUME CloseWindow PROVE StatusInv'
  <2>1. windows' \in 0..Windows /\ UNCHANGED <<life, warmup>>
    BY <1>7 DEF CloseWindow
  <2>2. runtime' \in Runtime /\ told' \in Runtime /\ ~runtime'.blocking /\ PhaseIsTold'
    BY <1>7, Reported DEF CloseWindow
  <2> QED BY <2>1, <2>2
<1>8. ASSUME NEW ok \in BOOLEAN, SetupReturns(ok) PROVE StatusInv'
  <2>1. CASE ok
    BY <1>8, <2>1 DEF SetupReturns, PhaseIsTold, Changed
  <2>2. CASE ~ok
    BY <1>8, <1>r, <2>2 DEF SetupReturns, FailureResets
  <2> QED BY <2>1, <2>2
<1>9. ASSUME DisablesIt PROVE StatusInv'
  BY <1>9, <1>r DEF DisablesIt
<1>10. ASSUME EnablesIt PROVE StatusInv'
  BY <1>10 DEF EnablesIt, PhaseIsTold, Changed
<1>11. ASSUME UNCHANGED statusVars PROVE StatusInv'
  BY <1>11 DEF statusVars, PhaseIsTold, Changed
<1> QED BY <1>1, <1>2, <1>3, <1>4, <1>5, <1>6, <1>7, <1>8, <1>9, <1>10, <1>11 DEF StatusNext

\* What is known of a plugin keeps its types.
THEOREM StatusTypeCorrect == StatusSpec => []StatusTypeOK
<1>1. StatusInv => StatusTypeOK
  BY DEF StatusInv
<1> QED BY <1>1, StatusStarts, StatusKept, PTL DEF StatusSpec

\* The gate of a plugin's routes is closed for a reason that exists, and the
\* bus was told it.
THEOREM GateCorrect == StatusSpec => []GateHasAReason
<1>1. StatusInv => GateHasAReason
  BY DEF StatusInv, GateHasAReason, ClosedForAReason, BlockedByOne
<1> QED BY <1>1, StatusStarts, StatusKept, PTL DEF StatusSpec

-----------------------------------------------------------------------------
(* PluginRoutes: a router is mounted for what was last loaded; a stub as   *)
(* long as the plugin runs elsewhere.                                      *)

\* Only a plugin of another role runs elsewhere, and while it does not it has
\* no router here.
PinnedElsewhere ==
    \A p \in Plugin : placed[p] = "remote" => p \in Pinned
PinnedHasStub ==
    \A p \in Pinned \cap Plugin : placed[p] # "remote" => routers[p] = 0

RoutesInv == RoutesTypeOK /\ OneRouter /\ StubWhileRemote /\ PinnedElsewhere /\ PinnedHasStub

\* At boot nothing is mounted.
LEMMA RoutesStart == RoutesInit => RoutesInv
<1> SUFFICES ASSUME RoutesInit PROVE RoutesInv
  OBVIOUS
<1>1. RoutesTypeOK
  <2>1. <<>> \in Seq(1..Routers)
    OBVIOUS
  <2>2. 0 \in 0..Routers
    BY RoutersAssumption
  <2>3. mounted \in [Plugin -> Seq(1..Routers)]
    BY <2>1 DEF RoutesInit
  <2>4. routers \in [Plugin -> 0..Routers] /\ made \in 0..Routers
    BY <2>2 DEF RoutesInit
  <2> QED BY <2>3, <2>4 DEF RoutesInit, RoutesTypeOK
<1> QED BY <1>1 DEF RoutesInit, RoutesInv, OneRouter, StubWhileRemote, PinnedElsewhere, PinnedHasStub

\* unmount() leaves nothing below the prefix of p, and takes nothing but what
\* is below it.
LEMMA UnmountedAll ==
    ASSUME RoutesInv, NEW p \in Plugin
    PROVE  /\ Unmounted(p, mounted) \in [Plugin -> Seq(1..Routers)]
           /\ Unmounted(p, mounted)[p] = <<>>
           /\ \A q \in Plugin : Unmounted(p, mounted)[q] = mounted[q]
                  \/ (Unmounted(p, mounted)[q] = <<>> /\ (q # p => <<p, q>> \in Longer))
<1>1. CASE routers[p] = 0 \/ ~bound
  <2>1. mounted[p] = <<>>
    BY <1>1 DEF RoutesInv, OneRouter
  <2> QED BY <1>1, <2>1 DEF Unmounted, RoutesInv, RoutesTypeOK
<1>2. CASE ~(routers[p] = 0 \/ ~bound)
  <2>1. Unmounted(p, mounted) = [q \in Plugin |-> IF q \in Below(p) THEN <<>> ELSE mounted[q]]
    BY <1>2 DEF Unmounted
  <2>2. p \in Below(p) /\ \A q \in Below(p) : q # p => <<p, q>> \in Longer
    BY DEF Below
  <2>3. <<>> \in Seq(1..Routers)
    OBVIOUS
  <2> QED BY <2>1, <2>2, <2>3 DEF RoutesInv, RoutesTypeOK
<1> QED BY <1>1, <1>2

\* A router that is mounted anew is alone below the prefix of its plugin.
LEMMA Mounts ==
    ASSUME RoutesInv, NEW p \in Plugin, made < Routers, made' = made + 1, UNCHANGED bound,
           routers' = [routers EXCEPT ![p] = made + 1],
           mounted' = IF bound THEN [Unmounted(p, mounted) EXCEPT ![p] = Append(@, made + 1)] ELSE mounted
    PROVE  /\ made' \in 0..Routers /\ routers' \in [Plugin -> 0..Routers]
           /\ mounted' \in [Plugin -> Seq(1..Routers)]
           /\ OneRouter'
<1>1. made + 1 \in 1..Routers /\ made + 1 # 0
  BY RoutersAssumption DEF RoutesInv, RoutesTypeOK
<1>2. routers' \in [Plugin -> 0..Routers] /\ \A q \in Plugin : routers'[q] = IF q = p THEN made + 1 ELSE routers[q]
  BY <1>1 DEF RoutesInv, RoutesTypeOK
<1>3. CASE bound
  <2>1. Append(<<>>, made + 1) = <<made + 1>> /\ <<made + 1>> \in Seq(1..Routers)
    BY <1>1
  <2>2. \A q \in Plugin : mounted'[q] = IF q = p THEN <<made + 1>> ELSE Unmounted(p, mounted)[q]
    BY <1>3, <2>1, UnmountedAll
  <2>3. mounted' \in [Plugin -> Seq(1..Routers)]
    BY <1>3, <2>1, UnmountedAll
  <2>4. ASSUME NEW q \in Plugin
        PROVE  \/ mounted'[q] = IF bound' /\ routers'[q] # 0 THEN <<routers'[q]>> ELSE <<>>
               \/ mounted'[q] = <<>> /\ \E r \in Plugin : <<r, q>> \in Longer /\ r # q
    <3>1. CASE q = p
      BY <1>1, <1>2, <1>3, <2>2, <3>1
    <3>2. CASE q # p /\ Unmounted(p, mounted)[q] = mounted[q]
      BY <1>2, <2>2, <3>2 DEF RoutesInv, OneRouter
    <3>3. CASE q # p /\ Unmounted(p, mounted)[q] = <<>> /\ <<p, q>> \in Longer
      BY <2>2, <3>3
    <3> QED BY <3>1, <3>2, <3>3, UnmountedAll
  <2> QED BY <1>1, <1>2, <2>3, <2>4 DEF OneRouter
<1>4. CASE ~bound
  <2>1. mounted' = mounted
    BY <1>4
  <2>2. OneRouter'
    BY <1>4, <2>1 DEF RoutesInv, OneRouter
  <2> QED BY <1>1, <1>2, <2>1, <2>2 DEF RoutesInv, RoutesTypeOK
<1> QED BY <1>3, <1>4 DEF RoutesInv, RoutesTypeOK

\* unmount() of a plugin.
LEMMA UnmountsAll ==
    ASSUME RoutesInv, NEW p \in Plugin, Unmounts(p), UNCHANGED bound
    PROVE  /\ routers' \in [Plugin -> 0..Routers] /\ mounted' \in [Plugin -> Seq(1..Routers)]
           /\ stubbed' = stubbed \ {p}
           /\ \A q \in Plugin : routers'[q] = IF q = p THEN 0 ELSE routers[q]
           /\ OneRouter'
<1>1. /\ mounted' = Unmounted(p, mounted) /\ stubbed' = stubbed \ {p}
      /\ routers' = [routers EXCEPT ![p] = 0]
  BY DEF Unmounts
<1>2. routers' \in [Plugin -> 0..Routers] /\ \A q \in Plugin : routers'[q] = IF q = p THEN 0 ELSE routers[q]
  BY <1>1, RoutersAssumption DEF RoutesInv, RoutesTypeOK
<1>3. ASSUME NEW q \in Plugin
      PROVE  \/ mounted'[q] = IF bound' /\ routers'[q] # 0 THEN <<routers'[q]>> ELSE <<>>
             \/ mounted'[q] = <<>> /\ \E r \in Plugin : <<r, q>> \in Longer /\ r # q
  <2>1. CASE q = p
    BY <1>1, <1>2, <2>1, UnmountedAll
  <2>2. CASE q # p /\ Unmounted(p, mounted)[q] = mounted[q]
    BY <1>1, <1>2, <2>2 DEF RoutesInv, OneRouter
  <2>3. CASE q # p /\ Unmounted(p, mounted)[q] = <<>> /\ <<p, q>> \in Longer
    BY <1>1, <2>3
  <2> QED BY <2>1, <2>2, <2>3, UnmountedAll
<1> QED BY <1>1, <1>2, <1>3, UnmountedAll DEF OneRouter

\* Every load, pin, move and removal keeps the invariant.
LEMMA RoutesKept == RoutesInv /\ [RoutesNext]_routeVars => RoutesInv'
<1> SUFFICES ASSUME RoutesInv, [RoutesNext]_routeVars PROVE RoutesInv'
  OBVIOUS
<1>0. RoutesTypeOK /\ OneRouter /\ StubWhileRemote /\ PinnedElsewhere /\ PinnedHasStub
  BY DEF RoutesInv
<1>s. ASSUME UNCHANGED <<routers, stubbed>>, NEW p \in Plugin, NEW s \in {"initializing", "active", "disabled"},
             placed' = [placed EXCEPT ![p] = s], placed[p] # "remote"
      PROVE  placed' \in [Plugin -> {"none", "initializing", "active", "remote", "disabled"}]
             /\ StubWhileRemote' /\ PinnedElsewhere' /\ PinnedHasStub'
  BY <1>0, <1>s DEF RoutesTypeOK, StubWhileRemote, PinnedElsewhere, PinnedHasStub
<1>1. ASSUME Bind PROVE RoutesInv'
  <2>1. \A p \in Plugin : mounted'[p] = IF routers[p] = 0 THEN <<>> ELSE <<routers[p]>>
    BY <1>1 DEF Bind
  <2>2. ASSUME NEW p \in Plugin PROVE (IF routers[p] = 0 THEN <<>> ELSE <<routers[p]>>) \in Seq(1..Routers)
    <3>1. routers[p] \in 0..Routers
      BY <1>0 DEF RoutesTypeOK
    <3>2. routers[p] # 0 => routers[p] \in 1..Routers
      BY <3>1, RoutersAssumption
    <3>3. routers[p] # 0 => <<routers[p]>> \in Seq(1..Routers)
      BY <3>2
    <3>4. <<>> \in Seq(1..Routers)
      OBVIOUS
    <3> QED BY <3>3, <3>4
  <2>3. mounted' \in [Plugin -> Seq(1..Routers)]
    BY <1>1, <2>2 DEF Bind
  <2>4. OneRouter'
    BY <1>1, <2>1 DEF Bind, OneRouter
  <2> QED BY <1>0, <1>1, <2>3, <2>4 DEF Bind, RoutesInv, RoutesTypeOK, StubWhileRemote, PinnedElsewhere, PinnedHasStub
<1>2. ASSUME NEW p \in Plugin, LoadPlugin(p) PROVE RoutesInv'
  BY <1>0, <1>2, <1>s DEF LoadPlugin, RoutesInv, RoutesTypeOK, OneRouter
<1>3. ASSUME NEW p \in Plugin, RunSetup(p) PROVE RoutesInv'
  <2>1. p \notin stubbed /\ placed[p] # "remote"
    BY <1>0, <1>3 DEF RunSetup, StubWhileRemote, PinnedElsewhere
  <2>2. /\ made' \in 0..Routers /\ routers' \in [Plugin -> 0..Routers]
        /\ mounted' \in [Plugin -> Seq(1..Routers)] /\ OneRouter'
    BY <1>3, Mounts DEF RunSetup, Registers, Replaced
  <2>3. stubbed' = stubbed /\ UNCHANGED bound /\ p \notin Pinned
    BY <1>3, <2>1 DEF RunSetup
  <2>4. \A q \in Plugin : q # p => routers'[q] = routers[q]
    BY <1>0, <1>3 DEF RunSetup, Registers, RoutesTypeOK
  <2>5. placed' \in [Plugin -> {"none", "initializing", "active", "remote", "disabled"}]
        /\ \A q \in Plugin : placed'[q] = IF q = p THEN "active" ELSE placed[q]
    BY <1>0, <1>3 DEF RunSetup, RoutesTypeOK
  <2>6. StubWhileRemote' /\ PinnedElsewhere' /\ PinnedHasStub'
    BY <1>0, <2>1, <2>3, <2>4, <2>5 DEF StubWhileRemote, PinnedElsewhere, PinnedHasStub
  <2> QED BY <1>0, <2>2, <2>3, <2>5, <2>6 DEF RoutesInv, RoutesTypeOK
<1>4. ASSUME NEW p \in Plugin, RunSetupWithout(p) PROVE RoutesInv'
  <2>1. placed[p] # "remote"
    BY <1>0, <1>4 DEF RunSetupWithout, PinnedElsewhere
  <2> QED BY <1>0, <1>4, <1>s, <2>1 DEF RunSetupWithout, RoutesInv, RoutesTypeOK, OneRouter
<1>5. ASSUME NEW p \in Plugin, RunRemote(p) PROVE RoutesInv'
  <2>2. /\ made' \in 0..Routers /\ routers' \in [Plugin -> 0..Routers]
        /\ mounted' \in [Plugin -> Seq(1..Routers)] /\ OneRouter'
    BY <1>5, Mounts DEF RunRemote
  <2>3. stubbed' = stubbed \cup {p} /\ UNCHANGED bound /\ p \in Pinned
    BY <1>5 DEF RunRemote
  <2>4. \A q \in Plugin : q # p => routers'[q] = routers[q]
    BY <1>0, <1>5 DEF RunRemote, RoutesTypeOK
  <2>5. placed' \in [Plugin -> {"none", "initializing", "active", "remote", "disabled"}]
        /\ \A q \in Plugin : placed'[q] = IF q = p THEN "remote" ELSE placed[q]
    BY <1>0, <1>5 DEF RunRemote, RoutesTypeOK
  <2>6. StubWhileRemote' /\ PinnedElsewhere' /\ PinnedHasStub'
    BY <1>0, <2>3, <2>4, <2>5 DEF StubWhileRemote, PinnedElsewhere, PinnedHasStub
  <2> QED BY <1>0, <2>2, <2>3, <2>5, <2>6 DEF RoutesInv, RoutesTypeOK
<1>6. ASSUME NEW p \in Plugin, DisablePlugin(p) PROVE RoutesInv'
  <2>1. CASE placed[p] = "remote"
    <3>1. Unmounts(p) /\ UNCHANGED <<made, bound>>
      BY <1>6, <2>1 DEF DisablePlugin, Retires
    <3>2. placed' \in [Plugin -> {"none", "initializing", "active", "remote", "disabled"}]
          /\ \A q \in Plugin : placed'[q] = IF q = p THEN "disabled" ELSE placed[q]
      BY <1>0, <1>6 DEF DisablePlugin, RoutesTypeOK
    <3>3. StubWhileRemote' /\ PinnedElsewhere' /\ PinnedHasStub'
      BY <1>0, <3>1, <3>2, UnmountsAll DEF StubWhileRemote, PinnedElsewhere, PinnedHasStub
    <3> QED BY <1>0, <3>1, <3>2, <3>3, UnmountsAll DEF RoutesInv, RoutesTypeOK
  <2>2. CASE placed[p] # "remote"
    BY <1>0, <1>6, <1>s, <2>2 DEF DisablePlugin, Retires, RoutesInv, RoutesTypeOK, OneRouter
  <2> QED BY <2>1, <2>2
<1>7. ASSUME NEW p \in Plugin, UnloadPlugin(p) PROVE RoutesInv'
  <2>1. Unmounts(p) /\ UNCHANGED <<made, bound>>
    BY <1>7 DEF UnloadPlugin
  <2>2. placed' \in [Plugin -> {"none", "initializing", "active", "remote", "disabled"}]
        /\ \A q \in Plugin : placed'[q] = IF q = p THEN "none" ELSE placed[q]
    BY <1>0, <1>7 DEF UnloadPlugin, RoutesTypeOK
  <2>3. StubWhileRemote' /\ PinnedElsewhere' /\ PinnedHasStub'
    BY <1>0, <2>1, <2>2, UnmountsAll DEF StubWhileRemote, PinnedElsewhere, PinnedHasStub
  <2> QED BY <1>0, <2>1, <2>2, <2>3, UnmountsAll DEF RoutesInv, RoutesTypeOK
<1>8. ASSUME UNCHANGED routeVars PROVE RoutesInv'
  BY <1>0, <1>8 DEF routeVars, RoutesInv, RoutesTypeOK, OneRouter, StubWhileRemote, PinnedElsewhere, PinnedHasStub
<1> QED BY <1>1, <1>2, <1>3, <1>4, <1>5, <1>6, <1>7, <1>8 DEF RoutesNext

\* The routes of the plugins keep their types.
THEOREM RoutesTypeCorrect == RoutesSpec => []RoutesTypeOK
<1>1. RoutesInv => RoutesTypeOK
  BY DEF RoutesInv
<1> QED BY <1>1, RoutesStart, RoutesKept, PTL DEF RoutesSpec

\* The routes below a plugin's prefix are those of its last load or, after the
\* removal of one whose id its own begins with, none.
THEOREM RoutesCorrect == RoutesSpec => []RoutesFollowPlugin
<1>1. RoutesInv => RoutesFollowPlugin
  BY DEF RoutesInv, RoutesFollowPlugin
<1> QED BY <1>1, RoutesStart, RoutesKept, PTL DEF RoutesSpec

-----------------------------------------------------------------------------
(* NotificationRouting: what a copy holds, a row holds, or a step is under *)
(* way that will correct the one or the other.                             *)

\* A PATCH sets a value, and not one that the environment sets.
PatchSets == patch.at # "none" => patch.value \in Override /\ patch.of \in Router \ EnvSet

ToWrite(t) == t.declared \/ t.row # "no row"

\* A transaction that nobody outdated has read the row as it is; what an
\* administrator set and nobody since is in the row.
RowsInv ==
    /\ PatchSets
    /\ \A s \in Sync : sync[s].at \in {"read", "cached"} /\ ~sync[s].stale => sync[s].row = binding
    /\ \A s \in Sync : sync[s].at \in {"hydrating", "hydrated"} => sync[s].hydrates
    /\ \A i \in Router : holds[i] # "nothing" => i \notin EnvSet /\ holds[i] = binding
    /\ patch.at = "written" /\ holds[patch.of] # "nothing" => holds[patch.of] = patch.value

\* A sync of an instance that has taken an old row into the copies, or may, and
\* is going to take the row anew, to delete it, or to fail.
Corrects(s, i) ==
    /\ sync[s].of = i
    /\ \/ sync[s].at \in {"hydrated", "locked"}
       \/ sync[s].at = "collected" /\ sync[s].hydrates
       \/ sync[s].at = "read" /\ ToWrite(sync[s])
       \/ sync[s].at = "cached" /\ ToWrite(sync[s]) /\ (sync[s].stale \/ ~sync[s].declared)

\* What was set is in the copies, or somebody is about to see to it.
CopiesInv ==
    \A i \in Router : holds[i] # "nothing" =>
        \/ cached[i] = holds[i]
        \/ patch.at = "written" /\ patch.of = i
        \/ \E s \in Sync : Corrects(s, i)

\* An envelope that is kept from the bell is not sent either; a provider that was
\* found is one that has its adapter.
LettersInv ==
    /\ envelope.sent \subseteq Targets /\ envelope.left \subseteq Targets
    /\ envelope.meant = "off" => ~envelope.kept /\ envelope.sent = {} /\ envelope.left = {}
    /\ envelope.meant = "on" => envelope.kept /\ envelope.found \subseteq envelope.sent \cup envelope.left
    /\ envelope.found \subseteq adapters

RoutingInv == RoutingTypeOK /\ RowsInv /\ CopiesInv /\ LettersInv

\* The records of a sync that has not begun and of one that is over.
LEMMA NoSyncTyped == NoSync \in SyncRec /\ SyncEnded \in SyncRec
<1>1. "no row" \in Binding /\ 0 \in 0..2
  BY DEF Binding
<1>2. NoSync \in SyncRec
  BY <1>1 DEF NoSync, SyncRec
<1>3. [NoSync EXCEPT !.at = "ended"] \in SyncRec
  BY <1>2 DEF SyncRec
<1> QED BY <1>2, <1>3 DEF SyncEnded

\* The notification router has its types at boot,
LEMMA RoutingStarts == RoutingInit => RoutingTypeOK
<1> SUFFICES ASSUME RoutingInit PROVE RoutingTypeOK
  OBVIOUS
<1>1. NoSync \in SyncRec /\ SyncEnded \in SyncRec
  BY NoSyncTyped
<1>2. NoPatch \in PatchRec /\ NoEnvelope \in EnvelopeRec /\ EnvelopeGone \in EnvelopeRec
  BY DEF NoPatch, PatchRec, NoEnvelope, EnvelopeGone, EnvelopeRec
<1> QED BY <1>1, <1>2 DEF RoutingInit, RoutingTypeOK, Binding

\* A row that changes makes the transactions that are open outdated, and
\* nothing else of them.
LEMMA SyncsOutdated ==
    ASSUME NEW t \in SyncRec
    PROVE  /\ Outdated(t) \in SyncRec
           /\ Outdated(t).at = t.at /\ Outdated(t).of = t.of /\ Outdated(t).hydrates = t.hydrates
           /\ Outdated(t).declared = t.declared /\ Outdated(t).row = t.row
           /\ t.at \in {"read", "cached"} => Outdated(t).stale
           /\ t.stale => Outdated(t).stale
  BY DEF Outdated, SyncRec

\* A PATCH whose row somebody else has written.
LEMMA PatchOutdated ==
    ASSUME NEW t \in PatchRec
    PROVE  /\ Outdated(t) \in PatchRec
           /\ Outdated(t).at = t.at /\ Outdated(t).of = t.of /\ Outdated(t).value = t.value
  BY DEF Outdated, PatchRec

-----------------------------------------------------------------------------
\* and keep them in every step.
LEMMA RoutingTyped == RoutingTypeOK /\ PatchSets /\ [RoutingNext]_routingVars => RoutingTypeOK'
<1> SUFFICES ASSUME RoutingTypeOK, PatchSets, [RoutingNext]_routingVars PROVE RoutingTypeOK'
  OBVIOUS
<1>0. NoSync \in SyncRec /\ SyncEnded \in SyncRec /\ NoPatch \in PatchRec
  BY NoSyncTyped DEF NoPatch, PatchRec
<1>1. ASSUME NEW i \in Router, InstallPlugin(i) PROVE RoutingTypeOK'
  BY <1>1 DEF InstallPlugin, RoutingTypeOK, letterVars
<1>2. ASSUME NEW i \in Router, UninstallPlugin(i) PROVE RoutingTypeOK'
  <2>1. [installed EXCEPT !.on = @ \ {i}] \in [times : Nat, on : SUBSET Router]
    BY DEF RoutingTypeOK
  <2> QED BY <1>2, <2>1 DEF UninstallPlugin, RoutingTypeOK, letterVars
<1>3. ASSUME NEW i \in Router, NEW s \in Sync, HydrateReads(i, s) PROVE RoutingTypeOK'
  <2>1. [NoSync EXCEPT !.at = "hydrating", !.of = i, !.hydrates = TRUE, !.row = binding] \in SyncRec
    <3>1. NoSync \in SyncRec /\ binding \in Binding
      BY <1>0 DEF RoutingTypeOK
    <3> QED BY <3>1 DEF SyncRec
  <2> QED BY <1>3, <2>1 DEF HydrateReads, RoutingTypeOK, letterVars
<1>4. ASSUME NEW s \in Sync, HydrateSets(s) PROVE RoutingTypeOK'
  <2>1. sync[s] \in SyncRec
    BY DEF RoutingTypeOK
  <2>2. [sync[s] EXCEPT !.at = "hydrated", !.row = "no row"] \in SyncRec
    BY <2>1 DEF SyncRec, Binding
  <2>3. sync[s].row # "no row" => sync[s].row \in Override \cup {"none", "absent"}
    BY <2>1 DEF SyncRec, Binding
  <2>4. cached' \in [Router -> Override \cup {"none", "absent"}]
    BY <1>4, <2>3 DEF HydrateSets, RoutingTypeOK
  <2>5. sync' \in [Sync -> SyncRec]
    BY <1>4, <2>2 DEF HydrateSets, RoutingTypeOK
  <2> QED BY <1>4, <2>4, <2>5 DEF HydrateSets, RoutingTypeOK, letterVars
<1>5. ASSUME NEW i \in Router, NEW s \in Sync, SyncCollects(i, s) PROVE RoutingTypeOK'
  <2>1. [sync[s] EXCEPT !.at = "collected", !.of = i, !.declared = i \in installed.on] \in SyncRec
    <3>1. sync[s] \in SyncRec /\ (i \in installed.on) \in BOOLEAN
      BY DEF RoutingTypeOK
    <3> QED BY <3>1 DEF SyncRec
  <2>2. sync' \in [Sync -> SyncRec]
    BY <1>5, <2>1 DEF SyncCollects, RoutingTypeOK
  <2>3. endpoint' \subseteq Router
    BY <1>5 DEF SyncCollects, RoutingTypeOK
  <2> QED BY <1>5, <2>2, <2>3 DEF SyncCollects, RoutingTypeOK, letterVars
<1>6. ASSUME NEW s \in Sync, NEW inTime \in BOOLEAN, SyncLocks(s, inTime) PROVE RoutingTypeOK'
  <2>1. [sync[s] EXCEPT !.at = "locked"] \in SyncRec
    BY DEF SyncRec, RoutingTypeOK
  <2>2. sync' \in [Sync -> SyncRec]
    BY <1>6, <2>1 DEF SyncLocks, RoutingTypeOK
  <2> QED BY <1>6, <2>2 DEF SyncLocks, RoutingTypeOK, letterVars
<1>7. ASSUME NEW s \in Sync, SyncReads(s) PROVE RoutingTypeOK'
  <2>1. [sync[s] EXCEPT !.at = "read", !.row = binding, !.stale = FALSE] \in SyncRec
    BY ZenonT(60) DEF SyncRec, RoutingTypeOK
  <2>2. sync' \in [Sync -> SyncRec]
    BY <1>7, <2>1 DEF SyncReads, RowRead, RoutingTypeOK
  <2> QED BY <1>7, <2>2 DEF SyncReads, RoutingTypeOK, letterVars
<1>8. ASSUME NEW s \in Sync, SyncCaches(s) PROVE RoutingTypeOK'
  <2>1. [sync[s] EXCEPT !.at = "cached"] \in SyncRec
    BY DEF SyncRec, RoutingTypeOK
  <2>2. sync' \in [Sync -> SyncRec]
    BY <1>8, <2>1 DEF SyncCaches, RoutingTypeOK
  <2>3. sync[s].row # "no row" => sync[s].row \in Override \cup {"none", "absent"}
    BY DEF SyncRec, Binding, RoutingTypeOK
  <2>4. cached' \in [Router -> Override \cup {"none", "absent"}]
    BY <1>8, <2>3 DEF SyncCaches, RoutingTypeOK
  <2> QED BY <1>8, <2>2, <2>4 DEF SyncCaches, RoutingTypeOK, letterVars
<1>9. ASSUME NEW s \in Sync, SyncCommits(s) PROVE RoutingTypeOK'
  <2>1. \A r \in Sync : Outdated(sync[r]) \in SyncRec /\ sync[r] \in SyncRec
    BY SyncsOutdated DEF RoutingTypeOK
  <2>2. sync' \in [Sync -> SyncRec]
    BY <1>0, <1>9, <2>1 DEF SyncCommits
  <2>3. patch' \in PatchRec
    BY <1>9, PatchOutdated DEF SyncCommits, RoutingTypeOK
  <2>4. binding' \in Binding
    BY <1>9 DEF SyncCommits, RoutingTypeOK, Binding
  <2>5. syncLock' \in Sync \cup {0}
    BY <1>9 DEF SyncCommits, Released, RoutingTypeOK
  <2>6. holds' \in [Router -> Override \cup {"nothing"}]
    BY <1>9 DEF SyncCommits, RoutingTypeOK
  <2> QED BY <1>9, <2>2, <2>3, <2>4, <2>5, <2>6 DEF SyncCommits, RoutingTypeOK, letterVars
<1>10. ASSUME NEW s \in Sync, SyncFails(s) PROVE RoutingTypeOK'
  <2>1. sync[s] \in SyncRec
    BY DEF RoutingTypeOK
  <2>2. sync[s].attempt < 2 => [sync[s] EXCEPT !.at = "locked", !.attempt = sync[s].attempt + 1] \in SyncRec
    <3>1. sync[s].attempt \in 0..2
      BY <2>1 DEF SyncRec
    <3>2. sync[s].attempt < 2 => sync[s].attempt + 1 \in 0..2
      BY <3>1
    <3> QED BY <2>1, <3>2 DEF SyncRec
  <2>3. sync' \in [Sync -> SyncRec]
    BY <1>0, <1>10, <2>2 DEF SyncFails, RoutingTypeOK
  <2>4. syncLock' \in Sync \cup {0} /\ holds' \in [Router -> Override \cup {"nothing"}]
    BY <1>10 DEF SyncFails, Released, RoutingTypeOK
  <2> QED BY <1>10, <2>3, <2>4 DEF SyncFails, RoutingTypeOK, letterVars
<1>11. ASSUME NEW i \in Router, NEW v \in Override, PatchReads(i, v) PROVE RoutingTypeOK'
  BY <1>11 DEF PatchReads, RoutingTypeOK, PatchRec, letterVars
<1>12. ASSUME PatchCommits PROVE RoutingTypeOK'
  <2>1. \A r \in Sync : Outdated(sync[r]) \in SyncRec
    BY SyncsOutdated DEF RoutingTypeOK
  <2>2. sync' \in [Sync -> SyncRec]
    BY <1>12, <2>1 DEF PatchCommits
  <2>3. patch.value \in Override
    BY <1>12 DEF PatchCommits, PatchSets
  <2>4. [patch EXCEPT !.at = "written"] \in PatchRec
    BY DEF RoutingTypeOK, PatchRec
  <2>5. holds' \in [Router -> Override \cup {"nothing"}]
    BY <1>12, <2>3 DEF PatchCommits
  <2> QED BY <1>12, <2>2, <2>3, <2>4, <2>5 DEF PatchCommits, RoutingTypeOK, Binding, letterVars
<1>13. ASSUME PatchCaches PROVE RoutingTypeOK'
  <2>1. patch.value \in Override
    BY <1>13 DEF PatchCaches, PatchSets
  <2> QED BY <1>0, <1>13, <2>1 DEF PatchCaches, RoutingTypeOK, letterVars
<1>14. ASSUME PatchFails PROVE RoutingTypeOK'
  BY <1>0, <1>14 DEF PatchFails, RoutingTypeOK, letterVars
<1>15. ASSUME NEW i \in Router, EmitsEnvelope(i) PROVE RoutingTypeOK'
  <2>1. [envelope EXCEPT !.at = "emitted", !.of = i] \in EnvelopeRec
    BY DEF RoutingTypeOK, EnvelopeRec
  <2> QED BY <1>15, <2>1 DEF EmitsEnvelope, RoutingTypeOK
<1>16. ASSUME NEW i \in Router, NEW registered \in SUBSET Adapter, HandleEnvelope(i, registered) PROVE RoutingTypeOK'
  <2>1. RoutesIt(i) \in BOOLEAN /\ (IF i \in endpoint /\ GoesByIt(i) THEN holds[i] ELSE "nothing") \in Override \cup {"nothing"}
    BY DEF RoutesIt, RoutingTypeOK
  <2>2. Targets \cap registered \in SUBSET Adapter /\ {} \in SUBSET Adapter
    OBVIOUS
  <2>3. envelope' \in EnvelopeRec
    BY <1>16, <2>1, <2>2 DEF HandleEnvelope, EnvelopeRec
  <2> QED BY <1>16, <2>3 DEF HandleEnvelope, RoutingTypeOK
<1>17. ASSUME NEW p \in Adapter, DispatchTo(p) PROVE RoutingTypeOK'
  <2>1. envelope.left \ {p} \in SUBSET Adapter /\ envelope.sent \cup HandedTo(p) \in SUBSET Adapter
    BY DEF HandedTo, RoutingTypeOK, EnvelopeRec
  <2>2. envelope' \in EnvelopeRec
    BY <1>17, <2>1 DEF DispatchTo, RoutingTypeOK, EnvelopeRec
  <2> QED BY <1>17, <2>2 DEF DispatchTo, RoutingTypeOK
<1>18. ASSUME NEW p \in Adapter, AdaptersChange(p) PROVE RoutingTypeOK'
  <2>1. [envelope EXCEPT !.found = @ \ {p}] \in EnvelopeRec
    BY DEF RoutingTypeOK, EnvelopeRec
  <2> QED BY <1>18, <2>1 DEF AdaptersChange, RoutingTypeOK
<1>19. ASSUME UNCHANGED routingVars PROVE RoutingTypeOK'
  BY <1>19 DEF routingVars, letterVars, RoutingTypeOK
<1> QED BY <1>1, <1>2, <1>3, <1>4, <1>5, <1>6, <1>7, <1>8, <1>9, <1>10, <1>11, <1>12, <1>13, <1>14,
           <1>15, <1>16, <1>17, <1>18, <1>19 DEF RoutingNext
-----------------------------------------------------------------------------
\* At boot nobody has set anything.
LEMMA RowsStart == RoutingInit => RowsInv /\ CopiesInv /\ LettersInv
<1> SUFFICES ASSUME RoutingInit PROVE RowsInv /\ CopiesInv /\ LettersInv
  OBVIOUS
<1>1. /\ \A i \in Router : holds[i] = "nothing"
      /\ patch.at = "none"
      /\ \A s \in Sync : sync[s] \in {NoSync, SyncEnded}
      /\ envelope.meant = "nothing" /\ envelope.found = {} /\ envelope.sent = {} /\ envelope.left = {}
  <2>1. \A i \in Router : holds[i] = "nothing"
    BY DEF RoutingInit
  <2>2. patch.at = "none"
    BY DEF RoutingInit, NoPatch
  <2>3. \A s \in Sync : sync[s] \in {NoSync, SyncEnded}
    BY DEF RoutingInit
  <2>4. envelope \in {NoEnvelope, EnvelopeGone}
    BY DEF RoutingInit
  <2>5. NoEnvelope.meant = "nothing" /\ NoEnvelope.found = {} /\ NoEnvelope.sent = {} /\ NoEnvelope.left = {}
    BY DEF NoEnvelope
  <2>6. EnvelopeGone.meant = "nothing" /\ EnvelopeGone.found = {} /\ EnvelopeGone.sent = {} /\ EnvelopeGone.left = {}
    BY DEF EnvelopeGone, NoEnvelope
  <2> QED BY <2>1, <2>2, <2>3, <2>4, <2>5, <2>6
<1>2. \A s \in Sync : sync[s].at \in {"none", "ended"}
  <2>1. NoSync.at = "none" /\ SyncEnded.at = "ended"
    BY DEF NoSync, SyncEnded
  <2> QED BY <1>1, <2>1
<1>3. RowsInv
  <2>1. PatchSets
    BY <1>1 DEF PatchSets
  <2> QED BY <1>1, <1>2, <2>1 DEF RowsInv
<1>4. CopiesInv
  BY <1>1 DEF CopiesInv
<1>5. LettersInv
  BY <1>1 DEF LettersInv
<1> QED BY <1>3, <1>4, <1>5

\* A step keeps CopiesInv if what it takes from a copy, or a sync that was to
\* correct one, is made up for.
LEMMA CopiesStay ==
    ASSUME CopiesInv,
           \A i \in Router : holds'[i] # "nothing" => holds'[i] = holds[i],
           \A i \in Router : holds'[i] # "nothing" =>
               cached'[i] = cached[i] \/ cached'[i] = holds'[i] \/ \E s \in Sync : Corrects(s, i)',
           \A i \in Router : holds'[i] # "nothing" /\ patch.at = "written" /\ patch.of = i =>
               (patch'.at = "written" /\ patch'.of = i) \/ cached'[i] = holds'[i],
           \A i \in Router, s \in Sync : holds'[i] # "nothing" /\ Corrects(s, i) =>
               Corrects(s, i)' \/ cached'[i] = holds'[i]
    PROVE  CopiesInv'
<1> SUFFICES ASSUME NEW i \in Router, holds'[i] # "nothing"
             PROVE  \/ cached'[i] = holds'[i]
                    \/ patch'.at = "written" /\ patch'.of = i
                    \/ \E s \in Sync : Corrects(s, i)'
  BY DEF CopiesInv
<1>1. CASE cached[i] = holds[i]
  BY <1>1
<1>2. CASE patch.at = "written" /\ patch.of = i
  BY <1>2
<1>3. ASSUME NEW s \in Sync, Corrects(s, i) PROVE Corrects(s, i)' \/ cached'[i] = holds'[i]
  BY <1>3
<1> QED BY <1>1, <1>2, <1>3 DEF CopiesInv

\* A step of one sync leaves the others as they are.
LEMMA OthersAlike ==
    ASSUME NEW s \in Sync, \A r \in Sync : r # s => sync'[r] = sync[r],
           NEW i \in Router, NEW r \in Sync, r # s
    PROVE  Corrects(r, i)' <=> Corrects(r, i)
  BY DEF Corrects, ToWrite

\* A hydration may bring an old row into the copies; the sync it belongs to goes on
\* to take the row anew.
LEMMA HydrationKeeps ==
    ASSUME RoutingTypeOK, RowsInv, CopiesInv, NEW s \in Sync,
           \/ \E i \in Router : HydrateReads(i, s)
           \/ HydrateSets(s)
           \/ \E i \in Router : SyncCollects(i, s)
           \/ \E inTime \in BOOLEAN : SyncLocks(s, inTime)
    PROVE  RowsInv' /\ CopiesInv'
<1>0. sync[s] \in SyncRec /\ \A r \in Sync : r # s => sync'[r] = sync[r]
  BY DEF HydrateReads, HydrateSets, SyncCollects, SyncLocks, RoutingTypeOK
<1>1. UNCHANGED <<binding, patch, holds>>
  BY DEF HydrateReads, HydrateSets, SyncCollects, SyncLocks
<1>2. ASSUME NEW i \in Router, HydrateReads(i, s) PROVE RowsInv' /\ CopiesInv'
  <2>1. sync[s].at = "none" /\ sync'[s].at = "hydrating" /\ sync'[s].hydrates /\ UNCHANGED cached
    BY <1>2 DEF HydrateReads, RoutingTypeOK, NoSync
  <2>2. RowsInv'
    BY <1>0, <1>1, <2>1 DEF RowsInv, PatchSets
  <2>3. \A j \in Router : ~Corrects(s, j)
    BY <2>1 DEF Corrects
  <2> QED BY <1>0, <1>1, <2>1, <2>2, <2>3, OthersAlike, CopiesStay
<1>3. ASSUME HydrateSets(s) PROVE RowsInv' /\ CopiesInv'
  <2>1. /\ sync[s].at = "hydrating" /\ sync'[s].at = "hydrated" /\ sync'[s].of = sync[s].of
        /\ sync'[s].hydrates = sync[s].hydrates
    BY <1>0, <1>3 DEF HydrateSets, RoutingTypeOK, SyncRec
  <2>2. RowsInv'
    BY <1>0, <1>1, <2>1 DEF RowsInv, PatchSets
  <2>3. \A j \in Router : ~Corrects(s, j) /\ (sync[s].of = j => Corrects(s, j)')
    BY <2>1 DEF Corrects
  <2>4. \A j \in Router : sync[s].of # j => cached'[j] = cached[j]
    BY <1>3 DEF HydrateSets, RoutingTypeOK
  <2> QED BY <1>0, <1>1, <2>1, <2>2, <2>3, <2>4, OthersAlike, CopiesStay
<1>4. ASSUME NEW i \in Router, SyncCollects(i, s) PROVE RowsInv' /\ CopiesInv'
  <2>1. /\ sync'[s].at = "collected" /\ sync'[s].hydrates = sync[s].hydrates /\ sync'[s].of = i
        /\ sync[s].at = "none" \/ (sync[s].at = "hydrated" /\ sync[s].of = i)
        /\ UNCHANGED cached
    BY <1>0, <1>4 DEF SyncCollects, RoutingTypeOK, SyncRec
  <2>2. RowsInv'
    BY <1>0, <1>1, <2>1 DEF RowsInv, PatchSets
  <2>3. \A j \in Router : Corrects(s, j) => Corrects(s, j)'
    BY <2>1 DEF Corrects, RowsInv
  <2> QED BY <1>0, <1>1, <2>1, <2>2, <2>3, OthersAlike, CopiesStay
<1>5. ASSUME NEW inTime \in BOOLEAN, SyncLocks(s, inTime) PROVE RowsInv' /\ CopiesInv'
  <2>1. /\ sync[s].at = "collected" /\ sync'[s].at = "locked" /\ sync'[s].of = sync[s].of
        /\ UNCHANGED cached
    BY <1>0, <1>5 DEF SyncLocks, RoutingTypeOK, SyncRec
  <2>2. RowsInv'
    BY <1>0, <1>1, <2>1 DEF RowsInv, PatchSets
  <2>3. \A j \in Router : Corrects(s, j) => Corrects(s, j)'
    BY <2>1 DEF Corrects
  <2> QED BY <1>0, <1>1, <2>1, <2>2, <2>3, OthersAlike, CopiesStay
<1> QED BY <1>2, <1>3, <1>4, <1>5

\* A transaction that reads has the row as it is.
LEMMA ReadKeeps ==
    ASSUME RoutingTypeOK, RowsInv, CopiesInv, NEW s \in Sync, SyncReads(s)
    PROVE  RowsInv' /\ CopiesInv'
<1>1. /\ UNCHANGED <<binding, cached, patch, holds>>
      /\ \A r \in Sync : r # s => sync'[r] = sync[r]
      /\ sync[s].at = "locked" /\ sync'[s].at = "read" /\ sync'[s].of = sync[s].of
      /\ sync'[s].row = binding
  BY DEF SyncReads, RowRead, RoutingTypeOK, SyncRec
<1>2. RowsInv'
  BY <1>1 DEF RowsInv, PatchSets
<1>3. ASSUME NEW i \in Router, holds[i] # "nothing", Corrects(s, i) PROVE Corrects(s, i)'
  <2>1. binding # "no row"
    BY <1>3 DEF RowsInv, RoutingTypeOK, Override
  <2> QED BY <1>1, <1>3, <2>1 DEF Corrects, ToWrite
<1> QED BY <1>1, <1>2, <1>3, OthersAlike, CopiesStay

\* The row a sync takes is the one that is there, or it is going to fail; one
\* that is about to delete the row takes what was set with it.
LEMMA CacheKeeps ==
    ASSUME RoutingTypeOK, RowsInv, CopiesInv, NEW s \in Sync, SyncCaches(s)
    PROVE  RowsInv' /\ CopiesInv'
<1>1. /\ UNCHANGED <<binding, patch, holds>>
      /\ \A r \in Sync : r # s => sync'[r] = sync[r]
      /\ sync[s].at = "read" /\ sync'[s].at = "cached" /\ sync'[s].of = sync[s].of
      /\ sync'[s].row = sync[s].row /\ sync'[s].declared = sync[s].declared /\ sync'[s].stale = sync[s].stale
  BY DEF SyncCaches, RoutingTypeOK, SyncRec
<1>2. RowsInv'
  BY <1>1 DEF RowsInv, PatchSets
<1>3. /\ \A i \in Router : i # sync[s].of => cached'[i] = cached[i]
      /\ \A i \in Router : i = sync[s].of =>
             cached'[i] = IF sync[s].declared THEN (IF sync[s].row = "no row" THEN "none" ELSE sync[s].row)
                          ELSE IF sync[s].row # "no row" THEN "absent" ELSE cached[i]
  BY DEF SyncCaches, RoutingTypeOK
<1>4. ASSUME NEW i \in Router, holds[i] # "nothing", i = sync[s].of
      PROVE  \/ cached'[i] = holds[i]
             \/ Corrects(s, i)'
             \/ cached'[i] = cached[i] /\ ~Corrects(s, i)
  <2>1. CASE ~ToWrite(sync[s])
    BY <1>1, <1>3, <1>4, <2>1 DEF ToWrite, Corrects
  <2>2. CASE ToWrite(sync[s]) /\ (sync[s].stale \/ ~sync[s].declared)
    BY <1>1, <1>4, <2>2 DEF ToWrite, Corrects
  <2>3. CASE ~sync[s].stale /\ sync[s].declared
    <3>1. sync[s].row = holds[i] /\ holds[i] # "no row"
      BY <1>1, <1>4, <2>3 DEF RowsInv, RoutingTypeOK, Override
    <3> QED BY <1>3, <1>4, <2>3, <3>1
  <2> QED BY <2>1, <2>2, <2>3
<1>5. \A i \in Router : i # sync[s].of => ~Corrects(s, i)
  BY DEF Corrects
<1> QED BY <1>1, <1>2, <1>3, <1>4, <1>5, OthersAlike, CopiesStay

\* A commit writes the row that was read; the database refuses one that is outdated.
LEMMA CommitKeeps ==
    ASSUME RoutingTypeOK, RowsInv, CopiesInv, NEW s \in Sync, SyncCommits(s)
    PROVE  RowsInv' /\ CopiesInv'
<1> DEFINE writes == ToWrite(sync[s])
<1>0. /\ sync[s] \in SyncRec /\ sync[s].at = "cached" /\ ~(sync[s].stale /\ writes)
      /\ UNCHANGED cached /\ patch \in PatchRec
  BY DEF SyncCommits, ToWrite, RoutingTypeOK
<1>1. /\ sync'[s].at = "ended"
      /\ \A r \in Sync : r # s => sync'[r] = IF writes THEN Outdated(sync[r]) ELSE sync[r]
      /\ patch' = IF writes THEN Outdated(patch) ELSE patch
      /\ holds' = IF binding' = "no row" THEN [i \in Router |-> "nothing"] ELSE holds
      /\ ~writes => binding' = binding
      /\ binding' = "no row" \/ binding' = binding \/ sync[s].row = "no row"
  BY DEF SyncCommits, ToWrite, SyncEnded, NoSync
<1>2. /\ patch'.at = patch.at /\ patch'.of = patch.of /\ patch'.value = patch.value
      /\ \A r \in Sync : r # s => /\ sync'[r].at = sync[r].at /\ sync'[r].of = sync[r].of
                                  /\ sync'[r].hydrates = sync[r].hydrates /\ sync'[r].declared = sync[r].declared
                                  /\ sync'[r].row = sync[r].row
                                  /\ sync[r].stale => sync'[r].stale
                                  /\ writes /\ sync[r].at \in {"read", "cached"} => sync'[r].stale
                                  /\ ~writes => sync'[r].stale = sync[r].stale
  <2> HIDE DEF writes
  <2>1. patch'.at = patch.at /\ patch'.of = patch.of /\ patch'.value = patch.value
    BY <1>0, <1>1, PatchOutdated
  <2>2. ASSUME NEW r \in Sync, r # s
        PROVE  /\ sync'[r].at = sync[r].at /\ sync'[r].of = sync[r].of
               /\ sync'[r].hydrates = sync[r].hydrates /\ sync'[r].declared = sync[r].declared
               /\ sync'[r].row = sync[r].row
               /\ sync[r].stale => sync'[r].stale
               /\ writes /\ sync[r].at \in {"read", "cached"} => sync'[r].stale
               /\ ~writes => sync'[r].stale = sync[r].stale
    <3>1. sync[r] \in SyncRec
      BY DEF RoutingTypeOK
    <3>2. CASE writes
      <4>1. sync'[r] = Outdated(sync[r])
        BY <1>1, <2>2, <3>2
      <4> QED BY <3>1, <3>2, <4>1, SyncsOutdated
    <3>3. CASE ~writes
      BY <1>1, <2>2, <3>3
    <3> QED BY <3>2, <3>3
  <2> QED BY <2>1, <2>2
<1>3. ASSUME NEW i \in Router, holds'[i] # "nothing" PROVE holds'[i] = holds[i] /\ binding' = binding
  <2>1. binding' # "no row" /\ holds'[i] = holds[i]
    BY <1>1, <1>3
  <2>2. writes /\ sync[s].row = "no row" => binding = "no row"
    BY <1>0 DEF RowsInv
  <2>3. holds[i] = binding /\ binding # "no row"
    BY <1>3, <2>1 DEF RowsInv, RoutingTypeOK, Override
  <2> QED BY <1>1, <2>1, <2>2, <2>3
<1>4. RowsInv'
  <2>1. PatchSets'
    BY <1>2 DEF RowsInv, PatchSets
  <2>2. \A r \in Sync : sync'[r].at \in {"read", "cached"} /\ ~sync'[r].stale => sync'[r].row = binding'
    BY <1>1, <1>2 DEF RowsInv
  <2>3. \A r \in Sync : sync'[r].at \in {"hydrating", "hydrated"} => sync'[r].hydrates
    BY <1>1, <1>2 DEF RowsInv
  <2>4. \A i \in Router : holds'[i] # "nothing" => i \notin EnvSet /\ holds'[i] = binding'
    BY <1>3 DEF RowsInv
  <2>5. patch'.at = "written" /\ holds'[patch'.of] # "nothing" => holds'[patch'.of] = patch'.value
    BY <1>2, <1>3 DEF RowsInv, PatchSets
  <2> QED BY <2>1, <2>2, <2>3, <2>4, <2>5 DEF RowsInv
<1>5. \A i \in Router : ~Corrects(s, i) \/ (writes /\ ~sync[s].declared)
  BY <1>0 DEF Corrects, ToWrite
<1>6. writes /\ ~sync[s].declared => binding' = "no row"
  BY <1>0 DEF SyncCommits, ToWrite
<1>7. ASSUME NEW i \in Router, NEW r \in Sync, holds'[i] # "nothing", Corrects(r, i) PROVE Corrects(r, i)'
  <2>1. r # s
    BY <1>1, <1>5, <1>6, <1>7
  <2> QED BY <1>2, <1>7, <2>1 DEF Corrects, ToWrite
<1>8. CopiesInv'
  BY <1>0, <1>2, <1>3, <1>7, CopiesStay
<1> QED BY <1>4, <1>8

\* A sync that fails has corrected nothing, and outdated nobody.
LEMMA FailureKeeps ==
    ASSUME RoutingTypeOK, RowsInv, CopiesInv, NEW s \in Sync, SyncFails(s)
    PROVE  RowsInv' /\ CopiesInv'
<1>1. /\ sync[s] \in SyncRec /\ UNCHANGED <<binding, cached, patch>>
      /\ \A r \in Sync : r # s => sync'[r] = sync[r]
      /\ \/ sync'[s].at = "locked" /\ sync'[s].of = sync[s].of /\ holds' = holds
         \/ sync'[s].at = "ended" /\ holds' = [holds EXCEPT ![sync[s].of] = "nothing"]
  BY DEF SyncFails, RoutingTypeOK, SyncRec, SyncEnded, NoSync
<1>2. \A i \in Router : holds'[i] # "nothing" => holds'[i] = holds[i] /\ (sync[s].of = i => sync'[s].at = "locked" /\ sync'[s].of = i)
  BY <1>1 DEF RoutingTypeOK
<1>3. RowsInv'
  BY <1>1, <1>2 DEF RowsInv, PatchSets
<1>4. ASSUME NEW i \in Router, holds'[i] # "nothing", Corrects(s, i) PROVE Corrects(s, i)'
  BY <1>2, <1>4 DEF Corrects
<1> QED BY <1>1, <1>2, <1>3, <1>4, OthersAlike, CopiesStay

\* A PATCH is about to write the copy of its instance.
LEMMA PatchKeeps ==
    ASSUME RoutingTypeOK, RowsInv, CopiesInv,
           \/ \E i \in Router, v \in Override : PatchReads(i, v)
           \/ PatchCommits \/ PatchCaches \/ PatchFails
    PROVE  RowsInv' /\ CopiesInv'
<1>1. ASSUME NEW i \in Router, NEW v \in Override, PatchReads(i, v) PROVE RowsInv' /\ CopiesInv'
  <2>1. RowsInv'
    BY <1>1 DEF PatchReads, RowsInv, PatchSets, RoutingTypeOK
  <2>2. \A r \in Sync, j \in Router : Corrects(r, j) => Corrects(r, j)'
    BY <1>1 DEF PatchReads, Corrects, ToWrite
  <2> QED BY <1>1, <2>1, <2>2, CopiesStay DEF PatchReads
<1>2. ASSUME PatchCommits PROVE RowsInv' /\ CopiesInv'
  <2>1. /\ patch.of \in Router \ EnvSet /\ patch.value \in Override /\ patch.at = "read"
        /\ patch'.at = "written" /\ patch'.of = patch.of /\ patch'.value = patch.value
        /\ binding' = patch.value
        /\ holds' = [i \in Router |-> IF i = patch.of THEN patch.value ELSE "nothing"]
        /\ UNCHANGED cached
    BY <1>2 DEF PatchCommits, RowsInv, PatchSets, RoutingTypeOK, PatchRec
  <2>2. \A r \in Sync : /\ sync'[r].at = sync[r].at /\ sync'[r].hydrates = sync[r].hydrates
                        /\ sync[r].at \in {"read", "cached"} => sync'[r].stale
    BY <1>2, SyncsOutdated DEF PatchCommits, RoutingTypeOK
  <2>3. RowsInv'
    <3>1. PatchSets'
      BY <2>1 DEF PatchSets
    <3>2. ASSUME NEW r \in Sync, sync'[r].at \in {"read", "cached"} PROVE sync'[r].stale
      <4>1. sync[r].at \in {"read", "cached"}
        BY <2>2, <3>2
      <4> QED BY <2>2, <4>1
    <3>3. ASSUME NEW r \in Sync, sync'[r].at \in {"hydrating", "hydrated"} PROVE sync'[r].hydrates
      <4>1. sync[r].at \in {"hydrating", "hydrated"}
        BY <2>2, <3>3
      <4>2. sync[r].hydrates
        BY <4>1 DEF RowsInv
      <4> QED BY <2>2, <4>2
    <3>4. \A i \in Router : holds'[i] # "nothing" => i \notin EnvSet /\ holds'[i] = binding'
      BY <2>1
    <3>5. patch'.at = "written" /\ holds'[patch'.of] # "nothing" => holds'[patch'.of] = patch'.value
      BY <2>1
    <3> QED BY <3>1, <3>2, <3>3, <3>4, <3>5 DEF RowsInv
  <2>4. CopiesInv'
    BY <2>1 DEF CopiesInv
  <2> QED BY <2>3, <2>4
<1>3. ASSUME PatchCaches PROVE RowsInv' /\ CopiesInv'
  <2>1. RowsInv'
    BY <1>3 DEF PatchCaches, NoPatch, RowsInv, PatchSets
  <2>2. \A r \in Sync, j \in Router : Corrects(r, j) => Corrects(r, j)'
    BY <1>3 DEF PatchCaches, Corrects, ToWrite
  <2>3. /\ UNCHANGED holds /\ patch.at = "written" /\ patch.of \in Router
        /\ \A j \in Router : cached'[j] = IF j = patch.of THEN patch.value ELSE cached[j]
    BY <1>3 DEF PatchCaches, RowsInv, PatchSets, RoutingTypeOK
  <2>4. \A j \in Router : j = patch.of /\ holds[j] # "nothing" => cached'[j] = holds[j]
    BY <2>3 DEF RowsInv
  <2> QED BY <2>1, <2>2, <2>3, <2>4, CopiesStay
<1>4. ASSUME PatchFails PROVE RowsInv' /\ CopiesInv'
  <2>1. RowsInv'
    BY <1>4 DEF PatchFails, NoPatch, RowsInv, PatchSets
  <2>2. \A r \in Sync, j \in Router : Corrects(r, j) => Corrects(r, j)'
    BY <1>4 DEF PatchFails, Corrects, ToWrite
  <2> QED BY <1>4, <2>1, <2>2, CopiesStay DEF PatchFails
<1> QED BY <1>1, <1>2, <1>3, <1>4

\* An instance that loses the plugin no longer goes by what was set on it.
LEMMA InstallationKeeps ==
    ASSUME RoutingTypeOK, RowsInv, CopiesInv, NEW i \in Router, InstallPlugin(i) \/ UninstallPlugin(i)
    PROVE  RowsInv' /\ CopiesInv'
<1>1. /\ UNCHANGED <<binding, sync, patch>>
      /\ \A j \in Router : holds'[j] # "nothing" => holds'[j] = holds[j] /\ cached'[j] = cached[j]
  BY DEF InstallPlugin, UninstallPlugin, RoutingTypeOK
<1>2. RowsInv'
  BY <1>1 DEF RowsInv, PatchSets
<1>3. \A r \in Sync, j \in Router : Corrects(r, j) => Corrects(r, j)'
  BY <1>1 DEF Corrects, ToWrite
<1> QED BY <1>1, <1>2, <1>3, CopiesStay

-----------------------------------------------------------------------------
\* Who goes by his copy goes by what was set.
LEMMA GoesByWhatIsSet ==
    ASSUME RoutingTypeOK, RowsInv, CopiesInv, NEW i \in endpoint, holds[i] # "nothing", GoesByIt(i)
    PROVE  Resolved(i) = holds[i]
<1>1. i \in Router /\ i \notin EnvSet /\ holds[i] \in Override
  BY DEF RoutingTypeOK, RowsInv
<1>2. \A s \in Sync : ~Corrects(s, i)
  BY DEF GoesByIt, Corrects
<1>3. cached[i] = holds[i]
  BY <1>1, <1>2 DEF CopiesInv, GoesByIt
<1> QED BY <1>1, <1>3 DEF Resolved

\* An envelope is sent to those whom the binding it met names.
LEMMA LettersKept ==
    ASSUME RoutingTypeOK, RowsInv, CopiesInv, LettersInv, [RoutingNext]_routingVars
    PROVE  LettersInv'
<1>1. ASSUME NEW i \in Router, EmitsEnvelope(i) PROVE LettersInv'
  BY <1>1 DEF EmitsEnvelope, LettersInv, RoutingTypeOK, EnvelopeRec
<1>2. ASSUME NEW i \in Router, NEW registered \in SUBSET Adapter, HandleEnvelope(i, registered) PROVE LettersInv'
  <2>1. /\ envelope'.meant = IF i \in endpoint /\ GoesByIt(i) THEN holds[i] ELSE "nothing"
        /\ envelope'.kept = RoutesIt(i)
        /\ envelope'.found = Targets \cap registered
        /\ envelope'.left = IF RoutesIt(i) THEN Targets \cap registered ELSE {}
        /\ envelope'.sent = {} /\ adapters' = registered
    BY <1>2 DEF HandleEnvelope
  <2>2. envelope'.meant \in Override => Resolved(i) = envelope'.meant
    BY <2>1, GoesByWhatIsSet DEF Override
  <2>3. "off" \in Override /\ "on" \in Override
    BY DEF Override
  <2>4. envelope'.meant = "off" => ~RoutesIt(i)
    BY <2>2, <2>3 DEF RoutesIt
  <2>5. envelope'.meant = "on" => RoutesIt(i)
    BY <2>2, <2>3 DEF RoutesIt
  <2> QED BY <2>1, <2>4, <2>5 DEF LettersInv
<1>3. ASSUME NEW p \in Adapter, DispatchTo(p) PROVE LettersInv'
  <2>1. /\ envelope'.left = envelope.left \ {p} /\ envelope'.sent = envelope.sent \cup ({p} \cap adapters)
        /\ envelope'.meant = envelope.meant /\ envelope'.kept = envelope.kept /\ envelope'.found = envelope.found
        /\ p \in envelope.left /\ UNCHANGED adapters
    BY <1>3 DEF DispatchTo, HandedTo, RoutingTypeOK, EnvelopeRec
  <2> QED BY <2>1 DEF LettersInv
<1>4. ASSUME NEW p \in Adapter, AdaptersChange(p) PROVE LettersInv'
  <2>1. /\ envelope'.found = envelope.found \ {p}
        /\ envelope'.left = envelope.left /\ envelope'.sent = envelope.sent
        /\ envelope'.meant = envelope.meant /\ envelope'.kept = envelope.kept
        /\ adapters \ {p} \subseteq adapters'
    BY <1>4 DEF AdaptersChange, RoutingTypeOK, EnvelopeRec
  <2> QED BY <2>1 DEF LettersInv
<1>5. ASSUME UNCHANGED <<adapters, envelope>> PROVE LettersInv'
  BY <1>5 DEF LettersInv
<1> QED BY <1>1, <1>2, <1>3, <1>4, <1>5
        DEF RoutingNext, routingVars, letterVars, PatchReads, PatchCommits, PatchCaches, PatchFails, InstallPlugin,
            UninstallPlugin, HydrateReads, HydrateSets, SyncCollects, SyncLocks, SyncReads, SyncCaches, SyncCommits, SyncFails

\* Every step keeps the whole invariant.
LEMMA RoutingKept == RoutingInv /\ [RoutingNext]_routingVars => RoutingInv'
<1> SUFFICES ASSUME RoutingInv, [RoutingNext]_routingVars PROVE RoutingInv'
  OBVIOUS
<1>1. RoutingTypeOK /\ RowsInv /\ CopiesInv /\ LettersInv
  BY DEF RoutingInv
<1>2. RoutingTypeOK' /\ LettersInv'
  BY <1>1, RoutingTyped, LettersKept DEF RowsInv
<1>3. ASSUME UNCHANGED <<binding, cached, sync, patch, holds>> PROVE RowsInv' /\ CopiesInv'
  BY ZenonT(60), <1>1, <1>3 DEF RowsInv, PatchSets, CopiesInv, Corrects, ToWrite
<1>4. RowsInv' /\ CopiesInv'
  BY <1>1, <1>3, HydrationKeeps, ReadKeeps, CacheKeeps, CommitKeeps, FailureKeeps, PatchKeeps, InstallationKeeps
     DEF RoutingNext, routingVars, EmitsEnvelope, HandleEnvelope, DispatchTo, AdaptersChange
<1> QED BY <1>2, <1>4 DEF RoutingInv

\* The rows, their copies and the envelopes keep their types.
THEOREM RoutingTypeCorrect == RoutingSpec => []RoutingTypeOK
<1>1. RoutingInv => RoutingTypeOK
  BY DEF RoutingInv
<1>2. RoutingInit => RoutingInv
  BY RoutingStarts, RowsStart DEF RoutingInv
<1> QED BY <1>1, <1>2, RoutingKept, PTL DEF RoutingSpec

\* What an administrator set on an instance is what it goes by, and what it
\* notifies goes to whom the endpoint is bound to.
THEOREM OwnOverrideCorrect == RoutingSpec => []OwnOverrideHolds
<1>1. RoutingInv => OwnOverrideHolds
  BY GoesByWhatIsSet DEF RoutingInv, LettersInv, OwnOverrideHolds
<1>2. RoutingInit => RoutingInv
  BY RoutingStarts, RowsStart DEF RoutingInv
<1> QED BY <1>1, <1>2, RoutingKept, PTL DEF RoutingSpec

-----------------------------------------------------------------------------
(* Marketplace: the commit of the clone never goes back, and what is       *)
(* cached was read from it after the last announcement, or answered late.  *)

\* The clone never goes back: what a sync fetched is not older, and a commit that
\* was announced is in it.
CloneInv ==
    /\ announced <= clone /\ clone <= upstream /\ head <= upstream
    /\ gitSync.stage # "none" => syncs > 0 /\ clone <= gitSync.commit /\ gitSync.commit <= upstream
    /\ gitSync.stage = "reset" => clone = gitSync.commit

\* What the watcher saw is there, or a sync is going to fetch it.
HeadInv ==
    ~failed => \/ head <= clone
               \/ gitSync.stage = "none" /\ syncs > 0
               \/ gitSync.stage # "none" /\ head <= gitSync.commit
               \/ syncs > 1

\* A listing that is cached, or that GitHub answered, is not older than what was
\* announced, unless that came while GitHub was asked.
CacheInv ==
    /\ own <= customs
    /\ \A l \in cache : (announced <= l.commit \/ l.late) /\ (own <= l.custom \/ l.custom = NotRead)
    /\ \A c \in Listing : listing[c].stage = "answered" => announced <= listing[c].commit \/ listing[c].late

ShopInv == ShopTypeOK /\ CloneInv /\ HeadInv /\ CacheInv

\* At boot nothing is cached and nothing was announced.
LEMMA ShopStart == ShopInit => ShopInv
<1> SUFFICES ASSUME ShopInit PROVE ShopInv
  OBVIOUS
<1> USE ShopAssumption
<1>1. NotSyncing \in GitSyncRec /\ NotAsked \in CallRec
  BY DEF NotSyncing, GitSyncRec, NotAsked, CallRec
<1>2. NotSyncing.stage = "none" /\ NotAsked.stage = "idle"
  BY DEF NotSyncing, NotAsked
<1>3. ShopTypeOK
  <2>1. 1 \in 1..Releases /\ 0 \in 0..Releases /\ 1 \in 0..Releases /\ 0 \in 0..Syncs /\ 1 \in 1..RepoChanges
    OBVIOUS
  <2>2. gitSync \in GitSyncRec /\ listing \in [Listing -> CallRec] /\ cache \subseteq ListingRec
    BY <1>1 DEF ShopInit
  <2> HIDE ShopAssumption
  <2> QED BY <2>1, <2>2 DEF ShopInit, ShopTypeOK
<1>4. CloneInv /\ HeadInv
  BY <1>2 DEF ShopInit, CloneInv, HeadInv
<1>5. CacheInv
  BY <1>2 DEF ShopInit, CacheInv
<1> QED BY <1>3, <1>4, <1>5 DEF ShopInv

\* A step of the clone leaves the cache as it is.
LEMMA CloneSteps ==
    ASSUME ShopInv, Publishes \/ ShopBoots \/ WatcherPolls \/ SyncFetches \/ SyncResets \/ GitSyncFails
    PROVE  ShopInv'
<1> USE ShopAssumption
<1>t. /\ upstream \in 1..Releases /\ clone \in 0..Releases /\ head \in 0..Releases /\ announced \in 0..Releases
      /\ gitSync \in GitSyncRec /\ syncs \in 0..Syncs
      /\ gitSync.commit \in 0..Releases /\ gitSync.stage \in {"none", "fetched", "reset"}
  BY DEF ShopInv, ShopTypeOK, GitSyncRec
<1>c. UNCHANGED <<announced, own, cache, listing, customs, negative>>
  BY DEF Publishes, ShopBoots, WatcherPolls, SyncFetches, SyncResets, GitSyncFails
<1>1. CacheInv'
  BY <1>c DEF ShopInv, CacheInv
<1>2. ShopTypeOK' /\ CloneInv' /\ HeadInv'
  <2>1. CASE Publishes
    BY <1>t, <1>c, <2>1 DEF Publishes, ShopInv, ShopTypeOK, CloneInv, HeadInv
  <2>2. CASE ShopBoots
    BY <1>t, <1>c, <2>2 DEF ShopBoots, RequestSync, ShopInv, ShopTypeOK, CloneInv, HeadInv
  <2>3. CASE WatcherPolls
    BY <1>t, <1>c, <2>3 DEF WatcherPolls, RequestSync, ShopInv, ShopTypeOK, CloneInv, HeadInv
  <2>4. CASE SyncFetches
    <3>1. gitSync'.stage = "fetched" /\ gitSync'.commit = upstream /\ gitSync' \in GitSyncRec
      BY <1>t, <2>4 DEF SyncFetches, GitSyncRec
    <3> QED BY <1>t, <1>c, <2>4, <3>1 DEF SyncFetches, ShopInv, ShopTypeOK, CloneInv, HeadInv
  <2>5. CASE SyncResets
    <3>1. gitSync'.stage = "reset" /\ gitSync'.commit = gitSync.commit /\ gitSync' \in GitSyncRec
      BY <1>t, <2>5 DEF SyncResets, GitSyncRec
    <3> QED BY <1>t, <1>c, <2>5, <3>1 DEF SyncResets, ShopInv, ShopTypeOK, CloneInv, HeadInv
  <2>6. CASE GitSyncFails
    <3>1. gitSync'.stage = "none" /\ gitSync' \in GitSyncRec
      BY <2>6 DEF GitSyncFails, NotSyncing, GitSyncRec
    <3> QED BY <1>t, <1>c, <2>6, <3>1 DEF GitSyncFails, ShopInv, ShopTypeOK, CloneInv, HeadInv
  <2> QED BY <2>1, <2>2, <2>3, <2>4, <2>5, <2>6
<1> QED BY <1>1, <1>2 DEF ShopInv

\* What is announced empties the cache and marks the calls that are out.
LEMMA AnnouncementKeeps == ASSUME ShopInv, SyncAnnounced PROVE ShopInv'
<1> USE ShopAssumption
<1>t. /\ upstream \in 1..Releases /\ clone \in 0..Releases /\ head \in 0..Releases /\ announced \in 0..Releases
      /\ syncs \in 0..Syncs /\ gitSync.commit \in 0..Releases /\ gitSync.stage = "reset"
  BY DEF ShopInv, ShopTypeOK, GitSyncRec, SyncAnnounced
<1>1. /\ gitSync'.stage = "none" /\ gitSync' \in GitSyncRec
      /\ syncs' = syncs - 1 /\ announced' = clone /\ cache' = {} /\ negative' = FALSE
      /\ UNCHANGED <<upstream, clone, head, failed, customs, own>>
  BY DEF SyncAnnounced, NotSyncing, GitSyncRec, CacheCleared
<1>2. ASSUME NEW c \in Listing
      PROVE  /\ (IF listing[c].stage = "idle" THEN NotAsked ELSE [listing[c] EXCEPT !.late = TRUE]) \in CallRec
             /\ listing'[c].stage = "answered" => listing'[c].late
  <2>1. listing[c] \in CallRec
    BY DEF ShopInv, ShopTypeOK
  <2>2. NotAsked \in CallRec /\ NotAsked.stage = "idle"
    BY DEF NotAsked, CallRec
  <2>3. [listing[c] EXCEPT !.late = TRUE] \in CallRec /\ [listing[c] EXCEPT !.late = TRUE].late
    BY <2>1 DEF CallRec
  <2>4. listing'[c] = IF listing[c].stage = "idle" THEN NotAsked ELSE [listing[c] EXCEPT !.late = TRUE]
    BY DEF SyncAnnounced
  <2> QED BY <2>2, <2>3, <2>4
<1>3. listing' \in [Listing -> CallRec]
  BY <1>2 DEF SyncAnnounced
<1>4. ShopTypeOK'
  <2>1. syncs' \in 0..Syncs
    BY <1>t, <1>1 DEF ShopInv, CloneInv
  <2>2. customs \in 1..RepoChanges /\ own \in 1..RepoChanges /\ failed \in BOOLEAN
    BY DEF ShopInv, ShopTypeOK
  <2>3. cache' \subseteq ListingRec /\ negative' \in BOOLEAN
    BY <1>1
  <2> HIDE ShopAssumption
  <2> QED BY <1>t, <1>1, <1>3, <2>1, <2>2, <2>3 DEF ShopTypeOK
<1>5. CloneInv' /\ HeadInv'
  BY <1>t, <1>1 DEF ShopInv, CloneInv, HeadInv
<1>6. CacheInv'
  BY <1>1, <1>2 DEF ShopInv, CacheInv
<1> QED BY <1>4, <1>5, <1>6 DEF ShopInv

\* A listing that is stored is as new as the commit it is of.
LEMMA Stored ==
    ASSUME ShopInv, NEW commit \in 0..Releases, NEW late \in BOOLEAN, ListingStored(commit, late),
           announced <= commit \/ late
    PROVE  /\ cache' \subseteq ListingRec
           /\ \A l \in cache' : (announced <= l.commit \/ l.late) /\ (own <= l.custom \/ l.custom = NotRead)
<1> USE ShopAssumption
<1>1. PICK custom \in {customs, NotRead} :
         cache' = {[commit |-> commit, custom |-> custom, fresh |-> TRUE, late |-> late]}
  BY DEF ListingStored
<1>2. custom \in 0..RepoChanges /\ (own <= custom \/ custom = NotRead)
  BY DEF ShopInv, ShopTypeOK, CacheInv, NotRead
<1> QED BY <1>1, <1>2 DEF ListingRec

\* A listing is read from the clone as it is, or answered by GitHub, late or not.
LEMMA ListingSteps ==
    ASSUME ShopInv,
           \/ \E force \in BOOLEAN : ReadsClone(force) \/ \E c \in Listing : AsksGitHub(c, force)
           \/ \E c \in Listing : GitHubAnswers(c) \/ ListingEnds(c) \/ ListingFails(c)
           \/ ListingAges
    PROVE  ShopInv'
<1> USE ShopAssumption
<1>t. /\ upstream \in 1..Releases /\ clone \in 0..Releases /\ announced \in 0..Releases
      /\ NotAsked \in CallRec /\ NotAsked.stage = "idle" /\ listing \in [Listing -> CallRec] /\ cache \subseteq ListingRec
      /\ announced <= clone /\ clone <= upstream
  BY DEF ShopInv, ShopTypeOK, CloneInv, NotAsked, CallRec
<1>u. UNCHANGED <<upstream, clone, head, syncs, gitSync, failed, announced, customs, own>>
  BY DEF ReadsClone, AsksGitHub, GitHubAnswers, ListingEnds, ListingFails, ListingAges
<1>1. CloneInv' /\ HeadInv'
  BY <1>u DEF ShopInv, CloneInv, HeadInv
<1>2. /\ negative' \in BOOLEAN /\ cache' \subseteq ListingRec /\ listing' \in [Listing -> CallRec]
      /\ CacheInv'
  <2>1. ASSUME NEW force \in BOOLEAN, ReadsClone(force) PROVE <1>2!:
    <3>1. UNCHANGED <<listing, negative>> /\ ListingStored(clone, FALSE)
      BY <2>1 DEF ReadsClone
    <3> QED BY <1>t, <1>u, <3>1, Stored DEF CacheInv, ShopInv, ShopTypeOK
  <2>2. ASSUME NEW force \in BOOLEAN, NEW c \in Listing, AsksGitHub(c, force) PROVE <1>2!:
    <3>1. UNCHANGED <<cache, negative>> /\ listing' = [listing EXCEPT ![c].stage = "asked"]
      BY <2>2 DEF AsksGitHub
    <3>2. [listing[c] EXCEPT !.stage = "asked"] \in CallRec
      BY <1>t DEF CallRec
    <3>3. \A d \in Listing : listing'[d].stage = "answered" => listing'[d] = listing[d]
      BY <1>t, <3>1 DEF CallRec
    <3> QED BY <1>t, <1>u, <3>1, <3>2, <3>3 DEF CacheInv, ShopInv, ShopTypeOK
  <2>3. ASSUME NEW c \in Listing, GitHubAnswers(c) PROVE <1>2!:
    <3>1. UNCHANGED <<cache, negative>> /\ listing' = [listing EXCEPT ![c].stage = "answered", ![c].commit = upstream]
      BY <2>3 DEF GitHubAnswers
    <3>2. [listing[c] EXCEPT !.stage = "answered", !.commit = upstream] \in CallRec
      <4>1. upstream \in 0..Releases /\ listing[c] \in CallRec
        BY <1>t
      <4> QED BY <4>1 DEF CallRec
    <3>3. \A d \in Listing : listing'[d].commit = upstream \/ listing'[d] = listing[d]
      BY <1>t, <3>1 DEF CallRec
    <3> QED BY <1>t, <1>u, <3>1, <3>2, <3>3 DEF CacheInv, ShopInv, ShopTypeOK
  <2>4. ASSUME NEW c \in Listing, ListingEnds(c) PROVE <1>2!:
    <3>1. /\ negative' = negative /\ listing' = [listing EXCEPT ![c] = NotAsked]
          /\ ListingStored(listing[c].commit, listing[c].late) /\ listing[c].stage = "answered"
      BY <2>4 DEF ListingEnds
    <3>2. listing[c].commit \in 0..Releases /\ listing[c].late \in BOOLEAN
      BY <1>t DEF CallRec
    <3>3. announced <= listing[c].commit \/ listing[c].late
      BY <3>1 DEF ShopInv, CacheInv
    <3>4. \A d \in Listing : listing'[d].stage = "answered" => listing'[d] = listing[d]
      BY <1>t, <3>1
    <3> QED BY <1>t, <1>u, <3>1, <3>2, <3>3, <3>4, Stored DEF CacheInv, ShopInv, ShopTypeOK
  <2>5. ASSUME NEW c \in Listing, ListingFails(c) PROVE <1>2!:
    <3>1. negative' = TRUE /\ cache' = cache /\ listing' = [listing EXCEPT ![c] = NotAsked]
      BY <2>5 DEF ListingFails
    <3>2. \A d \in Listing : listing'[d].stage = "answered" => listing'[d] = listing[d]
      BY <1>t, <3>1
    <3> QED BY <1>t, <1>u, <3>1, <3>2 DEF CacheInv, ShopInv, ShopTypeOK
  <2>6. ASSUME ListingAges PROVE <1>2!:
    <3>1. /\ listing' = listing /\ negative' \in {negative, FALSE}
          /\ cache' = cache \/ cache' = {[l EXCEPT !.fresh = FALSE] : l \in cache}
      BY <2>6 DEF ListingAges
    <3>2. \A l \in cache : [l EXCEPT !.fresh = FALSE] \in ListingRec
      BY <1>t DEF ListingRec
    <3>3. \A l \in cache' : \E k \in cache : l.commit = k.commit /\ l.late = k.late /\ l.custom = k.custom
      BY <1>t, <3>1 DEF ListingRec
    <3>4. cache' \subseteq ListingRec
      BY <1>t, <3>1, <3>2
    <3>5. negative' \in BOOLEAN
      BY <3>1 DEF ShopInv, ShopTypeOK
    <3>6. CacheInv'
      BY <1>t, <1>u, <3>1, <3>3 DEF CacheInv, ShopInv
    <3> QED BY <1>t, <3>1, <3>4, <3>5, <3>6
  <2> QED BY <2>1, <2>2, <2>3, <2>4, <2>5, <2>6
<1> QED BY <1>u, <1>1, <1>2 DEF ShopInv, ShopTypeOK

\* A change of the custom repositories empties the cache of the instance that made it.
LEMMA RepoSteps == ASSUME ShopInv, AddsOrRemovesRepo \/ PeerChangesRepos PROVE ShopInv'
<1> USE ShopAssumption
<1>1. /\ customs \in 1..RepoChanges /\ own \in 1..RepoChanges /\ customs < RepoChanges
      /\ customs' = customs + 1 /\ UNCHANGED <<upstream, clone, head, syncs, gitSync, failed, announced, negative, listing>>
      /\ (cache' = {} /\ own' = customs + 1) \/ UNCHANGED <<cache, own>>
  BY DEF AddsOrRemovesRepo, PeerChangesRepos, ShopInv, ShopTypeOK
<1>2. customs' \in 1..RepoChanges /\ own' \in 1..RepoChanges /\ own' <= customs'
  BY <1>1 DEF ShopInv, CacheInv
<1>3. ShopTypeOK'
  BY <1>1, <1>2 DEF ShopInv, ShopTypeOK
<1>4. CloneInv' /\ HeadInv'
  BY <1>1 DEF ShopInv, CloneInv, HeadInv
<1>5. CacheInv'
  BY <1>1, <1>2 DEF ShopInv, CacheInv
<1> QED BY <1>3, <1>4, <1>5 DEF ShopInv

\* Every step keeps the invariant.
LEMMA ShopKept == ShopInv /\ [ShopNext]_shopVars => ShopInv'
<1> SUFFICES ASSUME ShopInv, [ShopNext]_shopVars PROVE ShopInv'
  OBVIOUS
<1>1. CASE UNCHANGED shopVars
  BY <1>1 DEF shopVars, ShopInv, ShopTypeOK, CloneInv, HeadInv, CacheInv
<1> QED BY <1>1, CloneSteps, AnnouncementKeeps, ListingSteps, RepoSteps DEF ShopNext

\* The marketplace keeps its types.
THEOREM ShopTypeCorrect == ShopSpec => []ShopTypeOK
<1>1. ShopInv => ShopTypeOK
  BY DEF ShopInv
<1> QED BY <1>1, ShopStart, ShopKept, PTL DEF ShopSpec

\* Whatever happens, a cached listing holds what was announced, and what the
\* watcher has noted is in the clone.
THEOREM ListingCorrect == ShopSpec => []ListingIsCurrent
<1>1. ShopInv => ListingIsCurrent
  <2> SUFFICES ASSUME ShopInv PROVE ListingIsCurrent
    OBVIOUS
  <2>1. /\ clone \in Nat /\ head \in Nat /\ announced \in Nat /\ own \in Nat /\ syncs \in Nat
        /\ \A l \in cache : l.commit \in Nat /\ l.custom \in Nat
    BY ShopAssumption DEF ShopInv, ShopTypeOK, ListingRec
  <2>2. syncs = 0 /\ ~failed => clone >= head
    BY <2>1 DEF ShopInv, CloneInv, HeadInv
  <2>3. \A l \in cache : (l.commit >= announced \/ l.late) /\ (l.custom >= own \/ l.custom = NotRead)
    BY <2>1 DEF ShopInv, CacheInv
  <2> QED BY <2>2, <2>3 DEF ListingIsCurrent
<1> QED BY <1>1, ShopStart, ShopKept, PTL DEF ShopSpec

-----------------------------------------------------------------------------
(* GitRepo: one request works at a time, and what it staged is in the      *)
(* tree, on the branch, or at the remote, by the step it is at.            *)

\* One request works in the repository at a time.
TurnInv == \A r, s \in GitCall : Working(r) /\ Working(s) => r = s

\* Where the changes are that a request has staged: among those of the tree, of
\* the branch, of the remote, or thrown away.
StagedIn(call, inTree, onBranch, onRemote, gone, inDir) ==
    /\ call.stage \in {"none", "waits", "begun", "fetched"} => call.took = {} /\ call.answer = "none"
    /\ call.stage = "fetched" => via = "https"
    /\ call.stage \in {"fetched", "added", "committed"} => inDir = "clone"
    /\ call.stage = "added" => call.took \subseteq inTree /\ call.answer = "none"
    /\ call.stage = "committed" => call.took \subseteq onBranch /\ call.answer = "none"
    /\ call.stage # "done" => ~call.refused
    /\ call.answer \in {"synced", "no_changes"} => call.took = {}
    /\ call.answer = "pushed" /\ ~call.refused => call.took \subseteq onRemote
    /\ call.stage = "done" /\ call.answer # "lost" => call.took \subseteq onBranch \cup onRemote \cup gone
    /\ call.stage = "done" => call.answer # "none"

StagedInv == \A r \in GitCall : StagedIn(gitCall[r], tree, branch, remote, discarded, dir)

\* Only a sync over https throws commits away, and there are none without a clone.
WorkDirInv ==
    /\ discarded # {} => via = "https"
    /\ dir # "clone" => branch = {}

GitInv == GitTypeOK /\ TurnInv /\ StagedInv /\ WorkDirInv

AtWork == {"begun", "fetched", "added", "committed"}

\* What the types say of one request.
LEMMA GitTyped ==
    ASSUME GitInv
    PROVE  /\ gitCall \in [GitCall -> GitCallRec] /\ \A r \in GitCall : gitCall[r] \in GitCallRec /\ gitCall[r].took \subseteq 1..Edits
           /\ via \in {"https", "ssh", "local"} /\ remote \subseteq 0..Edits /\ tracking \subseteq 0..Edits /\ branch \subseteq 0..Edits
           /\ discarded \subseteq 0..Edits
           /\ tree \subseteq 1..Edits /\ 1..Edits \subseteq 0..Edits /\ Theirs \in 0..Edits
           /\ dir \in {"empty", "files", "clone", "broken"} /\ indexLock \in BOOLEAN /\ deaths \in 0..Deaths
  BY GitAssumption DEF GitInv, GitTypeOK, GitCallRec, Theirs

\* At boot nobody has asked for anything.
LEMMA GitStarts == GitInit => GitInv
<1> SUFFICES ASSUME GitInit PROVE GitInv
  OBVIOUS
<1>1. /\ NoGitCall \in GitCallRec /\ NoGitCall.stage = "none" /\ NoGitCall.took = {} /\ NoGitCall.answer = "none"
      /\ NoGitCall.refused = FALSE
  BY DEF NoGitCall, GitCallRec
<1>2. \A r \in GitCall : gitCall[r] = NoGitCall
  BY DEF GitInit
<1>3. GitTypeOK
  <2>1. gitCall \in [GitCall -> GitCallRec]
    BY <1>1 DEF GitInit
  <2>2. deaths \in 0..Deaths
    BY GitAssumption DEF GitInit
  <2> QED BY <2>1, <2>2 DEF GitInit, GitTypeOK
<1>4. TurnInv
  BY <1>1, <1>2 DEF TurnInv, Working
<1>5. StagedInv
  BY <1>1, <1>2 DEF StagedInv, StagedIn
<1>6. WorkDirInv
  BY DEF WorkDirInv, GitInit
<1> QED BY <1>3, <1>4, <1>5, <1>6 DEF GitInv

-----------------------------------------------------------------------------
\* One request goes on: it has its turn, or takes nothing from the others.
LEMMA OneGoes ==
    ASSUME GitInv, NEW r \in GitCall, NEW new \in GitCallRec, gitCall' = [gitCall EXCEPT ![r] = new],
           via' = via, remote \subseteq remote', branch \subseteq branch' \cup discarded', discarded \subseteq discarded',
           \/ Working(r)
           \/ /\ tree \subseteq tree' /\ branch \subseteq branch' /\ (new.stage \in AtWork => TakesTurns)
              /\ dir = "clone" => dir' = "clone",
           remote' \cup tracking' \cup branch' \cup discarded' \subseteq 0..Edits, WorkDirInv', tree' \subseteq 1..Edits,
           dir' \in {"empty", "files", "clone", "broken"}, indexLock' \in BOOLEAN, deaths' = deaths,
           StagedIn(new, tree', branch', remote', discarded', dir')
    PROVE  GitInv'
<1>1. gitCall' \in [GitCall -> GitCallRec] /\ \A s \in GitCall : gitCall'[s] = IF s = r THEN new ELSE gitCall[s]
  BY GitTyped
<1>2. GitTypeOK'
  BY <1>1, GitTyped DEF GitTypeOK
<1>3. \A s \in GitCall : s # r /\ Working(r) => ~Working(s)
  BY DEF GitInv, TurnInv
<1>4. TurnInv'
  <2>1. ASSUME NEW s \in GitCall, NEW u \in GitCall, gitCall'[s].stage \in AtWork, gitCall'[u].stage \in AtWork PROVE s = u
    <3>1. CASE Working(r) \/ TakesTurns
      <4>1. \A v \in GitCall : v # r => gitCall[v].stage \notin AtWork
        BY <1>3, <3>1 DEF TakesTurns, Working, AtWork
      <4> QED BY <1>1, <2>1, <4>1
    <3>2. CASE ~Working(r) /\ ~TakesTurns
      <4>1. new.stage \notin AtWork
        BY <3>2
      <4>2. s # r /\ u # r /\ gitCall[s].stage \in AtWork /\ gitCall[u].stage \in AtWork
        BY <1>1, <2>1, <4>1
      <4> QED BY <4>2 DEF GitInv, TurnInv, Working, AtWork
    <3> QED BY <3>1, <3>2
  <2> QED BY <2>1 DEF TurnInv, Working, AtWork
<1>5. StagedInv'
  <2>1. ASSUME NEW s \in GitCall PROVE StagedIn(gitCall'[s], tree', branch', remote', discarded', dir')
    <3>1. CASE s = r
      BY <1>1, <3>1
    <3>2. CASE s # r
      <4>1. gitCall'[s] = gitCall[s] /\ StagedIn(gitCall[s], tree, branch, remote, discarded, dir)
        BY <1>1, <3>2 DEF GitInv, StagedInv
      <4>2. CASE Working(r)
        <5>1. gitCall[s].stage \notin {"fetched", "added", "committed"}
          BY <1>3, <3>2, <4>2 DEF Working
        <5> QED BY <4>1, <5>1 DEF StagedIn
      <4>3. CASE ~Working(r)
        BY <4>1, <4>3 DEF StagedIn
      <4> QED BY <4>2, <4>3
    <3> QED BY <3>1, <3>2
  <2> QED BY <2>1 DEF StagedInv, StagedIn
<1> QED BY <1>2, <1>4, <1>5 DEF GitInv

\* What plugins write and others push takes nothing away.
LEMMA SurroundingsKeep ==
    ASSUME GitInv, OthersPush \/ \E c \in 1..Edits : WritesFile(c)
    PROVE  GitInv'
<1>1. UNCHANGED <<via, tracking, branch, indexLock, gitCall, discarded, deaths>>
  BY DEF OthersPush, WritesFile
<1>2. tree \subseteq tree' /\ remote \subseteq remote' /\ tree' \subseteq 1..Edits /\ remote' \subseteq 0..Edits
      /\ dir' \in {"empty", "files", "clone", "broken"} /\ (dir = "clone" <=> dir' = "clone")
  BY GitTyped DEF OthersPush, WritesFile
<1>3. GitTypeOK' /\ TurnInv'
  BY <1>1, <1>2, GitTyped DEF GitInv, GitTypeOK, TurnInv, Working
<1>4. StagedInv'
  BY <1>1, <1>2 DEF GitInv, StagedInv, StagedIn
<1>5. WorkDirInv'
  BY <1>1, <1>2 DEF GitInv, WorkDirInv
<1> QED BY <1>3, <1>4, <1>5 DEF GitInv

\* A request takes its turn when nobody works.
LEMMA BeginsTurn ==
    ASSUME GitInv, NEW r \in GitCall, TurnComes(r) \/ AskGit(r, "sync") \/ AskGit(r, "push") \/ AskGit(r, "commit")
    PROVE  GitInv'
<1>0. UNCHANGED <<via, remote, tracking, branch, tree, dir, indexLock, discarded, deaths>>
  BY DEF TurnComes, AskGit
<1>a. WorkDirInv'
  BY <1>0 DEF GitInv, WorkDirInv
<1>1. CASE TurnComes(r)
  <2> DEFINE new == [gitCall[r] EXCEPT !.stage = "begun"]
  <2>1. gitCall' = [gitCall EXCEPT ![r] = new] /\ TakesTurns /\ gitCall[r].stage = "waits"
    BY <1>1 DEF TurnComes, GoesTo
  <2>2. new \in GitCallRec /\ new.stage = "begun" /\ new.took = gitCall[r].took /\ new.answer = gitCall[r].answer /\ new.refused = gitCall[r].refused
    BY GitTyped DEF GitCallRec
  <2> HIDE DEF new
  <2>3. StagedIn(new, tree', branch', remote', discarded', dir')
    BY <2>1, <2>2 DEF GitInv, StagedInv, StagedIn
  <2> QED BY <1>0, <1>a, <2>1, <2>2, <2>3, OneGoes, GitTyped
<1>2. ASSUME NEW does \in {"sync", "push", "commit"}, AskGit(r, does) PROVE GitInv'
  <2> DEFINE new == [NoGitCall EXCEPT !.does = does, !.stage = "waits"]
  <2>1. gitCall' = [gitCall EXCEPT ![r] = new]
    BY <1>2 DEF AskGit
  <2>2. new \in GitCallRec /\ new.stage = "waits" /\ new.took = {} /\ new.answer = "none" /\ new.refused = FALSE
    BY DEF NoGitCall, GitCallRec
  <2> HIDE DEF new
  <2>3. StagedIn(new, tree', branch', remote', discarded', dir') /\ new.stage \notin AtWork
    BY <2>2 DEF StagedIn, AtWork
  <2> QED BY <1>0, <1>a, <2>1, <2>2, <2>3, OneGoes, GitTyped
<1> QED BY <1>1, <1>2

\* A sync, which has staged nothing.
LEMMA SyncKeeps ==
    ASSUME GitInv, NEW r \in GitCall, InitsLocal(r) \/ ClonesRepo(r) \/ Fetches(r) \/ ResetsHard(r) \/ Pulls(r)
    PROVE  GitInv'
<1>1. /\ Working(r) /\ gitCall[r].took = {} /\ gitCall[r].answer = "none" /\ gitCall[r].refused = FALSE
      /\ via' = via /\ remote' = remote /\ deaths' = deaths /\ indexLock' = indexLock
  <2>1. gitCall[r].stage \in {"begun", "fetched"}
    BY DEF InitsLocal, ClonesRepo, Clones, Fetches, ResetsHard, Pulls, AtStep
  <2>2. gitCall[r].took = {} /\ gitCall[r].answer = "none" /\ ~gitCall[r].refused
    BY <2>1 DEF GitInv, StagedInv, StagedIn
  <2>3. gitCall[r].refused \in BOOLEAN
    BY GitTyped DEF GitCallRec
  <2> QED BY <2>1, <2>2, <2>3 DEF InitsLocal, ClonesRepo, Fetches, ResetsHard, Pulls, Working
<1>2. PICK stage \in {"fetched", "done"}, answer \in {"none", "synced"} :
        /\ gitCall' = [gitCall EXCEPT ![r] = [gitCall[r] EXCEPT !.stage = stage, !.answer = answer, !.refused = FALSE]]
        /\ stage = "fetched" => answer = "none" /\ via = "https"
        /\ stage = "done" => answer = "synced"
  <2>1. gitCall[r] \in GitCallRec
    BY GitTyped
  <2>2. CASE Fetches(r)
    <3>1. gitCall' = [gitCall EXCEPT ![r] = [gitCall[r] EXCEPT !.stage = "fetched"]] /\ via = "https"
      BY <2>2 DEF Fetches, GoesTo
    <3>2. [gitCall[r] EXCEPT !.stage = "fetched"] = [gitCall[r] EXCEPT !.stage = "fetched", !.answer = "none", !.refused = FALSE]
      BY <1>1, <2>1 DEF GitCallRec
    <3> QED BY <3>1, <3>2
  <2>3. CASE ~Fetches(r)
    <3>1. gitCall' = [gitCall EXCEPT ![r] = [gitCall[r] EXCEPT !.stage = "done", !.answer = "synced"]]
      BY <2>3 DEF InitsLocal, ClonesRepo, ResetsHard, Pulls, Answers
    <3>2. [gitCall[r] EXCEPT !.stage = "done", !.answer = "synced"] = [gitCall[r] EXCEPT !.stage = "done", !.answer = "synced", !.refused = FALSE]
      BY <1>1, <2>1 DEF GitCallRec
    <3> QED BY <3>1, <3>2
  <2> QED BY <2>2, <2>3
<1> DEFINE new == [gitCall[r] EXCEPT !.stage = stage, !.answer = answer, !.refused = FALSE]
<1>3. new \in GitCallRec /\ new.stage = stage /\ new.answer = answer /\ new.took = {} /\ new.refused = FALSE
  <2>1. gitCall[r] \in GitCallRec
    BY GitTyped
  <2> QED BY <1>1, <2>1 DEF GitCallRec
<1>4. gitCall' = [gitCall EXCEPT ![r] = new]
  BY <1>2
<1> HIDE DEF new
<1>5. StagedIn(new, tree', branch', remote', discarded', dir')
  <2>1. stage = "fetched" => dir' = "clone"
    <3>1. CASE Fetches(r)
      BY <3>1 DEF Fetches
    <3>2. CASE ~Fetches(r)
      <4>1. gitCall'[r] = [gitCall[r] EXCEPT !.stage = "done", !.answer = "synced"]
        BY <3>2, GitTyped DEF InitsLocal, ClonesRepo, ResetsHard, Pulls, Answers
      <4>2. gitCall'[r].stage = "done"
        BY <4>1, GitTyped DEF GitCallRec
      <4> QED BY <1>3, <1>4, <4>2, GitTyped
    <3> QED BY <3>1, <3>2
  <2> QED BY <1>2, <1>3, <2>1 DEF StagedIn
<1>6. /\ tracking' \subseteq 0..Edits /\ branch' \subseteq 0..Edits /\ tree' \subseteq 1..Edits /\ dir' \in {"empty", "files", "clone", "broken"}
  BY GitTyped DEF InitsLocal, ClonesRepo, Fetches, ResetsHard, Pulls
<1>7. /\ branch \subseteq branch' \cup discarded' /\ discarded \subseteq discarded' /\ discarded' \subseteq 0..Edits
      /\ dir' = "clone" /\ (discarded' # {} => via = "https")
  <2>1. CASE ResetsHard(r)
    <3>1. via = "https" /\ dir = "clone"
      BY <2>1 DEF ResetsHard, AtStep, GitInv, StagedInv, StagedIn
    <3> QED BY <2>1, <3>1, GitTyped DEF ResetsHard
  <2>2. CASE ClonesRepo(r)
    <3>1. branch = {}
      BY <2>2 DEF ClonesRepo, Clones, GitInv, WorkDirInv
    <3> QED BY <2>2, <3>1, GitTyped DEF ClonesRepo, GitInv, WorkDirInv
  <2>3. CASE InitsLocal(r) \/ Fetches(r) \/ Pulls(r)
    BY <2>3, GitTyped DEF InitsLocal, Fetches, Pulls, GitInv, WorkDirInv
  <2> QED BY <2>1, <2>2, <2>3
<1>8. WorkDirInv'
  BY <1>1, <1>7 DEF WorkDirInv
<1> QED BY <1>1, <1>3, <1>4, <1>5, <1>6, <1>7, <1>8, OneGoes, GitTyped

\* A commit moves what was staged from the tree to the branch, a push from there
\* to the remote.
LEMMA PushKeeps ==
    ASSUME GitInv, NEW r \in GitCall, AddsAll(r) \/ CommitsIndex(r) \/ PushesBranch(r)
    PROVE  GitInv'
<1>0. gitCall[r] \in GitCallRec /\ gitCall[r].took \subseteq 1..Edits /\ StagedIn(gitCall[r], tree, branch, remote, discarded, dir)
  BY GitTyped DEF GitInv, StagedInv
<1>a. dir = "clone" /\ dir' = dir /\ discarded' = discarded /\ WorkDirInv' /\ branch \subseteq branch'
  <2>1. dir = "clone"
    BY <1>0 DEF AddsAll, CommitsIndex, PushesBranch, Commits, AtStep, StagedIn
  <2>2. dir' = dir /\ discarded' = discarded /\ via' = via /\ branch \subseteq branch'
    BY DEF AddsAll, CommitsIndex, PushesBranch
  <2> QED BY <2>1, <2>2 DEF GitInv, WorkDirInv
<1>1. CASE AddsAll(r)
  <2>0. /\ Working(r) /\ gitCall[r].took = {} /\ gitCall[r].answer = "none" /\ ~gitCall[r].refused
        /\ UNCHANGED <<via, remote, tracking, branch, tree, dir, discarded, deaths>> /\ indexLock' = FALSE
    BY <1>0, <1>1 DEF AddsAll, Commits, StagedIn, Working
  <2>1. CASE tree = {}
    <3> DEFINE new == [gitCall[r] EXCEPT !.stage = "done", !.answer = "no_changes"]
    <3>1. gitCall' = [gitCall EXCEPT ![r] = new]
      BY <1>1, <2>1 DEF AddsAll, Answers
    <3>2. /\ new \in GitCallRec /\ new.stage = "done" /\ new.answer = "no_changes" /\ new.took = gitCall[r].took
          /\ new.refused = gitCall[r].refused
      BY <1>0 DEF GitCallRec
    <3> HIDE DEF new
    <3>3. StagedIn(new, tree', branch', remote', discarded', dir')
      BY <1>a, <2>0, <3>2 DEF StagedIn
    <3> QED BY <2>0, <3>1, <3>2, <3>3, <1>a, OneGoes, GitTyped
  <2>2. CASE tree # {}
    <3> DEFINE new == [gitCall[r] EXCEPT !.stage = "added", !.took = tree]
    <3>1. gitCall' = [gitCall EXCEPT ![r] = new]
      BY <1>1, <2>2 DEF AddsAll
    <3>2. /\ new \in GitCallRec /\ new.stage = "added" /\ new.answer = gitCall[r].answer /\ new.took = tree
          /\ new.refused = gitCall[r].refused
      BY <1>0, GitTyped DEF GitCallRec
    <3> HIDE DEF new
    <3>3. StagedIn(new, tree', branch', remote', discarded', dir')
      BY <1>a, <2>0, <3>2 DEF StagedIn
    <3> QED BY <2>0, <3>1, <3>2, <3>3, <1>a, OneGoes, GitTyped
  <2> QED BY <2>1, <2>2
<1>2. CASE CommitsIndex(r)
  <2>0. /\ Working(r) /\ gitCall[r].took \subseteq tree /\ gitCall[r].answer = "none" /\ ~gitCall[r].refused
        /\ UNCHANGED <<via, remote, tracking, dir, indexLock, discarded, deaths>>
        /\ branch' = branch \cup (gitCall[r].took \cap tree) /\ tree' = tree \ gitCall[r].took
    BY <1>0, <1>2 DEF CommitsIndex, Commits, StagedIn, Working
  <2>1. branch \subseteq branch' /\ gitCall[r].took \subseteq branch' /\ branch' \subseteq 0..Edits /\ tree' \subseteq 1..Edits
    BY <2>0, GitTyped
  <2>2. CASE gitCall[r].does = "commit" \/ via = "local"
    <3> DEFINE new == [gitCall[r] EXCEPT !.stage = "done", !.answer = "committed_locally"]
    <3>1. gitCall' = [gitCall EXCEPT ![r] = new]
      BY <1>2, <2>2 DEF CommitsIndex, Answers
    <3>2. /\ new \in GitCallRec /\ new.stage = "done" /\ new.answer = "committed_locally" /\ new.took = gitCall[r].took
          /\ new.refused = gitCall[r].refused
      BY <1>0 DEF GitCallRec
    <3> HIDE DEF new
    <3>3. StagedIn(new, tree', branch', remote', discarded', dir')
      BY <1>a, <2>0, <2>1, <2>2, <3>2 DEF StagedIn
    <3> QED BY <2>0, <2>1, <3>1, <3>2, <3>3, <1>a, OneGoes, GitTyped
  <2>3. CASE ~(gitCall[r].does = "commit" \/ via = "local")
    <3> DEFINE new == [gitCall[r] EXCEPT !.stage = "committed"]
    <3>1. gitCall' = [gitCall EXCEPT ![r] = new]
      BY <1>2, <2>3 DEF CommitsIndex, GoesTo
    <3>2. /\ new \in GitCallRec /\ new.stage = "committed" /\ new.answer = gitCall[r].answer /\ new.took = gitCall[r].took
          /\ new.refused = gitCall[r].refused
      BY <1>0 DEF GitCallRec
    <3> HIDE DEF new
    <3>3. StagedIn(new, tree', branch', remote', discarded', dir')
      BY <1>a, <2>0, <2>1, <2>3, <3>2 DEF StagedIn
    <3> QED BY <2>0, <2>1, <3>1, <3>2, <3>3, <1>a, OneGoes, GitTyped
  <2> QED BY <2>2, <2>3
<1>3. CASE PushesBranch(r)
  <2>0. /\ Working(r) /\ gitCall[r].took \subseteq branch /\ gitCall[r].answer = "none"
        /\ UNCHANGED <<via, branch, tree, dir, indexLock, discarded, deaths>>
    BY <1>0, <1>3 DEF PushesBranch, AtStep, StagedIn, Working
  <2>1. PICK refused \in BOOLEAN :
          /\ gitCall' = [gitCall EXCEPT ![r] = [gitCall[r] EXCEPT !.stage = "done", !.answer = "pushed", !.refused = refused]]
          /\ remote \subseteq remote' /\ remote' \cup tracking' \subseteq 0..Edits
          /\ ~refused => remote' = branch
    <3>1. CASE remote \subseteq branch /\ remote' = branch /\ tracking' = branch /\ Answers(r, "pushed")
      <4>1. gitCall' = [gitCall EXCEPT ![r] = [gitCall[r] EXCEPT !.stage = "done", !.answer = "pushed"]]
        BY <3>1 DEF Answers
      <4>2. gitCall[r].refused = FALSE
        BY <1>0, <1>3 DEF PushesBranch, AtStep, StagedIn, GitCallRec
      <4>3. [gitCall[r] EXCEPT !.stage = "done", !.answer = "pushed"] = [gitCall[r] EXCEPT !.stage = "done", !.answer = "pushed", !.refused = FALSE]
        BY <1>0, <4>2 DEF GitCallRec
      <4>4. remote' \cup tracking' \subseteq 0..Edits
        BY <3>1, GitTyped
      <4> QED BY <3>1, <4>1, <4>3, <4>4
    <3>2. CASE /\ UNCHANGED <<remote, tracking>>
               /\ gitCall' = [gitCall EXCEPT ![r].stage = "done", ![r].answer = "pushed", ![r].refused = TRUE]
      <4>1. gitCall' = [gitCall EXCEPT ![r] = [gitCall[r] EXCEPT !.stage = "done", !.answer = "pushed", !.refused = TRUE]]
        BY <3>2
      <4>2. remote \subseteq remote' /\ remote' \cup tracking' \subseteq 0..Edits
        BY <3>2, GitTyped
      <4> QED BY <4>1, <4>2
    <3> QED BY <1>3, <3>1, <3>2 DEF PushesBranch
  <2> DEFINE new == [gitCall[r] EXCEPT !.stage = "done", !.answer = "pushed", !.refused = refused]
  <2>2. new \in GitCallRec /\ new.stage = "done" /\ new.answer = "pushed" /\ new.took = gitCall[r].took /\ new.refused = refused
    BY <1>0, <2>1 DEF GitCallRec
  <2>3. gitCall' = [gitCall EXCEPT ![r] = new]
    BY <2>1
  <2> HIDE DEF new
  <2>4. StagedIn(new, tree', branch', remote', discarded', dir')
    BY <2>0, <2>1, <2>2 DEF StagedIn
  <2> QED BY <2>0, <2>1, <2>2, <2>3, <2>4, <1>a, OneGoes, GitTyped
<1> QED BY <1>1, <1>2, <1>3

\* A request that fails claims nothing.
LEMMA FailsKeeps == ASSUME GitInv, NEW r \in GitCall, GitFails(r) PROVE GitInv'
<1> DEFINE new == [gitCall[r] EXCEPT !.stage = "done", !.answer = "error"]
<1>1. /\ Working(r) /\ UNCHANGED <<via, remote, tracking, branch, indexLock, discarded, deaths>>
      /\ gitCall' = [gitCall EXCEPT ![r] = new]
      /\ gitCall[r].stage \in {"begun", "fetched", "committed"}
  BY DEF GitFails, AtStep, Commits, Working, Answers
<1>2. new \in GitCallRec /\ new.stage = "done" /\ new.answer = "error" /\ new.took = gitCall[r].took
  BY GitTyped DEF GitCallRec
<1> HIDE DEF new
<1>3. StagedIn(new, tree', branch', remote', discarded', dir')
  <2>1. gitCall[r].took \subseteq branch
    BY <1>1 DEF GitInv, StagedInv, StagedIn
  <2> QED BY <1>1, <1>2, <2>1 DEF StagedIn
<1>4. tree' \subseteq 1..Edits /\ dir' \in {"empty", "files", "clone", "broken"}
  BY GitTyped DEF GitFails
<1>5. WorkDirInv'
  BY <1>1 DEF GitFails, Clones, GitInv, WorkDirInv
<1> QED BY <1>1, <1>2, <1>3, <1>4, <1>5, OneGoes, GitTyped

\* With the process die the requests, and the turn of the one at work.
LEMMA DiesKeeps == ASSUME GitInv, ProcessDies PROVE GitInv'
<1>1. ASSUME NEW r \in GitCall
      PROVE  /\ gitCall'[r] \in GitCallRec /\ gitCall'[r].stage \notin AtWork
             /\ gitCall'[r] = gitCall[r] \/ (gitCall'[r].stage = "done" /\ gitCall'[r].answer = "lost")
  <2>1. gitCall'[r] = IF gitCall[r].stage = "waits" \/ Working(r)
                      THEN [gitCall[r] EXCEPT !.stage = "done", !.answer = "lost"] ELSE gitCall[r]
    BY DEF ProcessDies
  <2>2. gitCall[r] \in GitCallRec
    BY GitTyped
  <2>3. CASE gitCall[r].stage = "waits" \/ Working(r)
    <3>1. gitCall'[r] = [gitCall[r] EXCEPT !.stage = "done", !.answer = "lost"]
      BY <2>1, <2>3
    <3>2. gitCall'[r] \in GitCallRec /\ gitCall'[r].stage = "done" /\ gitCall'[r].answer = "lost"
      BY <2>2, <3>1 DEF GitCallRec
    <3> QED BY <3>2 DEF AtWork
  <2>4. CASE ~(gitCall[r].stage = "waits" \/ Working(r))
    BY <2>1, <2>2, <2>4 DEF Working, AtWork
  <2> QED BY <2>3, <2>4
<1>2. gitCall' \in [GitCall -> GitCallRec]
  <2>1. gitCall' = [r \in GitCall |-> gitCall'[r]]
    BY DEF ProcessDies
  <2> QED BY <1>1, <2>1
<1>3. /\ UNCHANGED <<via, remote, tracking, branch, discarded>> /\ indexLock' \in BOOLEAN /\ deaths' \in 0..Deaths
      /\ tree' \subseteq 1..Edits /\ dir' \in {"empty", "files", "clone", "broken"}
  <2>1. deaths' \in 0..Deaths
    <3>1. deaths < Deaths /\ deaths' = deaths + 1 /\ deaths \in 0..Deaths /\ Deaths \in Nat
      BY GitTyped, GitAssumption DEF ProcessDies
    <3> QED BY <3>1
  <2>2. indexLock' \in BOOLEAN
    BY GitTyped DEF ProcessDies
  <2>3. tree' \subseteq 1..Edits /\ dir' \in {"empty", "files", "clone", "broken"}
    BY GitTyped DEF ProcessDies
  <2>4. UNCHANGED <<via, remote, tracking, branch, discarded>>
    BY DEF ProcessDies
  <2> QED BY <2>1, <2>2, <2>3, <2>4
<1>4. GitTypeOK'
  BY <1>2, <1>3, GitTyped DEF GitTypeOK
<1>5. TurnInv'
  BY <1>1 DEF TurnInv, Working, AtWork
<1>7. WorkDirInv'
  BY <1>3 DEF ProcessDies, Clones, GitInv, WorkDirInv
<1>6. StagedInv'
  <2>1. ASSUME NEW r \in GitCall PROVE StagedIn(gitCall'[r], tree', branch', remote', discarded', dir')
    <3>1. CASE gitCall'[r] = gitCall[r]
      <4>1. StagedIn(gitCall[r], tree, branch, remote, discarded, dir) /\ gitCall[r].stage \notin {"fetched", "added", "committed"}
        BY <1>1, <3>1 DEF GitInv, StagedInv, AtWork
      <4> QED BY <1>3, <3>1, <4>1 DEF StagedIn
    <3>2. CASE gitCall'[r].stage = "done" /\ gitCall'[r].answer = "lost"
      BY <3>2 DEF StagedIn
    <3> QED BY <1>1, <3>1, <3>2
  <2> QED BY <1>3, <2>1 DEF StagedInv, StagedIn
<1> QED BY <1>4, <1>5, <1>6, <1>7 DEF GitInv

\* Every step keeps the invariant.
LEMMA GitKept == GitInv /\ [GitNext]_gitVars => GitInv'
<1> SUFFICES ASSUME GitInv, [GitNext]_gitVars PROVE GitInv'
  OBVIOUS
<1>1. CASE UNCHANGED gitVars
  BY <1>1 DEF gitVars, GitInv, GitTypeOK, TurnInv, Working, StagedInv, StagedIn, WorkDirInv
<1> QED BY <1>1, SurroundingsKeep, BeginsTurn, SyncKeeps, PushKeeps, FailsKeeps, DiesKeeps DEF GitNext

\* The repository and the requests on it keep their types.
THEOREM GitTypeCorrect == GitSpec => []GitTypeOK
<1>1. GitInv => GitTypeOK
  BY DEF GitInv
<1> QED BY <1>1, GitStarts, GitKept, PTL DEF GitSpec

\* However requests, writes, others' pushes and deaths of the process interleave,
\* what was staged is not lost while its request is at work, is on the remote when
\* it was pushed, and otherwise on the branch, unless a sync over https that came
\* later took the commit off it.
THEOREM PushedCorrect == GitSpec => []PushedIsThere
<1>1. GitInv => PushedIsThere
  <2> SUFFICES ASSUME GitInv PROVE PushedIsThere
    OBVIOUS
  <2>1. ASSUME NEW r \in GitCall
        PROVE  /\ Working(r) => gitCall[r].took \subseteq tree \cup branch
               /\ gitCall[r].answer = "pushed" /\ ~gitCall[r].refused => gitCall[r].took \subseteq remote
               /\ gitCall[r].answer # "lost" /\ ~Working(r) => gitCall[r].took \subseteq branch \cup remote \cup discarded
    <3>1. StagedIn(gitCall[r], tree, branch, remote, discarded, dir)
      BY DEF GitInv, StagedInv
    <3>2. /\ gitCall[r].stage \in {"none", "waits", "begun", "fetched", "added", "committed", "done"}
          /\ gitCall[r].answer \in {"none", "synced", "error", "no_changes", "committed_locally", "pushed", "lost"}
      BY GitTyped DEF GitCallRec
    <3> QED BY <3>1, <3>2 DEF StagedIn, Working
  <2> QED BY <2>1 DEF PushedIsThere, GitInv, WorkDirInv
<1> QED BY <1>1, GitStarts, GitKept, PTL DEF GitSpec

-----------------------------------------------------------------------------
(* PluginContext: only contexts that are registered, or were disposed of   *)
(* while a setup() or a handler ran, are on the bus; a name that is taken  *)
(* is there.                                                               *)

\* A context that is not made yet has nothing; one that is not registered has a
\* setup() or a handler only if it was disposed of meanwhile, and nothing but what that did.
MadeInOrder ==
    /\ entry # "none" => loaded > 0
    /\ left \subseteq 1..loaded
    /\ \A r \in Request : request[r].by <= loaded

OnlyWhatIsLeft ==
    \A c \in Context \ left : (~Registered(c) \/ entry = "disabled") =>
        /\ Setting(c) = 0 /\ handlings[c] = 0 /\ tasks[c] = 0
        /\ subscribed[c] = {}
        /\ \A r \in awaited : request[r].by # c

\* What the bus has of a context the context lists; a name is taken by somebody
\* on the bus, and a registered context's callbacks keep theirs taken.
BusInv ==
    /\ \A k \in Key, c \in Context : c \in OnTheBus(k) => k \in subscribed[c]
    /\ \A k \in subKeys : OnTheBus(k) # {}
    /\ \A k \in Key : entry # "none" /\ loaded \in OnTheBus(k) => k \in subKeys
    /\ \A k \in Key : entry # "none" => subscribers[k][loaded] <= 1

\* Who awaits a reply has subscribed to it.
ListensInv ==
    /\ \A c \in Context : c \in listening <=> "reply" \in subscribed[c]
    /\ \A r \in awaited : request[r].by \in listening

\* A setup() that waits for a reply is one that has subscribed, a handler one that
\* runs; and a future that is done is left alone.
WaitingInv ==
    /\ \A c \in Context, caller \in Caller : Cardinality(Waiting(c, caller)) <= Active(c, caller)
    /\ \A r \in Request : request[r].future # "raised"
    /\ \A r \in Request : request[r].by = 0 <=> request[r] = NoRequest

ContextInv == ContextTypeOK /\ MadeInOrder /\ OnlyWhatIsLeft /\ BusInv /\ Hears /\ ListensInv /\ WaitingInv

-----------------------------------------------------------------------------
(* Types.                                                                  *)

Future == {"none", "pending", "set", "cancelled", "raised"}

RequestRec == [by : 0..Loads, caller : {"none", "setup", "handler"},
               future : Future,
               result : {"none", "reply", "timeout", "cancelled"}]

SetupRec == [new : Nat, old : Nat]

\* Records with a field changed.
LEMMA RecordsMade ==
    /\ \A q \in RequestRec, f \in Future :
          [q EXCEPT !.future = f] \in RequestRec
    /\ \A q \in RequestRec, f \in Future, a \in {"none", "reply", "timeout", "cancelled"} :
          [q EXCEPT !.result = a, !.future = f] \in RequestRec
    /\ \A q \in SetupRec, n \in Nat : [q EXCEPT !.new = n] \in SetupRec /\ [q EXCEPT !.old = n] \in SetupRec
  BY DEF RequestRec, SetupRec, Future

\* The bus after subscribe().
LEMMA SubscribeTypes ==
    ASSUME ContextTypeOK, NEW c \in Context, NEW k \in Key, Subscribes(c, k)
    PROVE  /\ subscribers' \in [Key -> [Context -> Nat]] /\ subKeys' \subseteq Key
           /\ subscribed' \in [Context -> SUBSET Key]
  <1>1. subscribers' \in [Key -> [Context -> Nat]]
    BY DEF Subscribes, Added, ContextTypeOK
  <1>2. QED
    BY <1>1 DEF Subscribes, ContextTypeOK

\* What is left after dispose().
LEMMA DisposeTypes ==
    ASSUME ContextTypeOK, NEW c \in Context, Dispose(c)
    PROVE  /\ subscribers' \in [Key -> [Context -> Nat]] /\ subKeys' \subseteq Key
           /\ subscribed' \in [Context -> SUBSET Key] /\ listening' \subseteq Context
           /\ tasks' \in [Context -> {0, 1}] /\ left' \subseteq Context
           /\ request' \in [Request -> RequestRec] /\ awaited' \subseteq Request
  <1>1. subscribers' \in [Key -> [Context -> Nat]]
    BY DEF Dispose, Removed, ContextTypeOK
  <1>2. request' \in [Request -> RequestRec]
    <2>1. \A r \in Request : request[r] \in RequestRec
      BY DEF ContextTypeOK, RequestRec, Future
    <2>2. \A r \in Request : [request[r] EXCEPT !.future = "cancelled"] \in RequestRec
      BY <2>1, RecordsMade DEF Future
    <2>3. QED
      BY <2>1, <2>2 DEF Dispose, Cancelled
  <1>3. QED
    BY <1>1, <1>2 DEF Dispose, ContextTypeOK, KeysAfter, NotListening

\* Every step keeps the types; that a setup() which ends is counted down from a
\* positive number is WaitingInv.
LEMMA ContextTypes == ContextInv /\ [ContextNext]_contextVars => ContextTypeOK'
  <1> SUFFICES ASSUME ContextInv, [ContextNext]_contextVars PROVE ContextTypeOK'
    OBVIOUS
  <1>0. ContextTypeOK
    BY DEF ContextInv
  <1>a. /\ setups \in [Context -> SetupRec] /\ request \in [Request -> RequestRec]
        /\ \A c \in Context : setups[c].new \in Nat /\ setups[c].old \in Nat /\ handlings[c] \in Nat
        /\ \A r \in Request : replies[r].sent \in Nat /\ replies[r].due \in Nat
    BY <1>0 DEF ContextTypeOK, SetupRec, RequestRec, Future
  <1>b. \A c \in Context, caller \in Caller : Cardinality(Waiting(c, caller)) \in Nat
    <2>1. \A c \in Context, caller \in Caller : Waiting(c, caller) \subseteq Request
      BY DEF Waiting
    <2>2. QED
      BY <2>1, ContextAssumption, FS_Subset, FS_CardinalityType
  <1>c. entry # "none" => loaded \in Context
    BY <1>0 DEF ContextInv, MadeInOrder, ContextTypeOK, Context
  <1> USE ContextAssumption
  <1>1. CASE Load
    BY <1>0, <1>1 DEF Load, ContextTypeOK, onBus, waiting
  <1>2. ASSUME Unload \/ Disable PROVE ContextTypeOK'
    <2>1. loaded \in Context /\ Dispose(loaded)
      BY <1>c, <1>2 DEF Unload, Disable
    <2>2. QED
      BY <1>0, <1>2, <2>1, DisposeTypes DEF Unload, Disable, ContextTypeOK, Dispose, RequestRec, Future
  <1>3. ASSUME NEW n \in {1, 2}, Activate(n) PROVE ContextTypeOK'
    <2>1. loaded \in Context
      BY <1>c, <1>3 DEF Activate
    <2>2. setups' \in [Context -> SetupRec]
      <3>1. [setups[loaded] EXCEPT !.new = setups[loaded].new + n] \in SetupRec
        <4>1. setups[loaded].new + n \in Nat
          BY <1>a, <2>1
        <4>2. QED
          BY <1>a, <2>1, <4>1, RecordsMade
      <3>2. QED
        BY <1>3, <1>a, <2>1, <3>1 DEF Activate
    <2>3. QED
      BY <1>0, <1>3, <2>2 DEF Activate, ContextTypeOK, onBus, waiting, SetupRec
  <1>4. ASSUME NEW c \in Context, NEW ok \in BOOLEAN, SetupEnds(c, ok) PROVE ContextTypeOK'
    <2>1. CASE setups[c].new > 0 /\ setups' = [setups EXCEPT ![c].new = @ - 1]
      <3>1. [setups[c] EXCEPT !.new = setups[c].new - 1] \in SetupRec
        <4>1. setups[c].new - 1 \in Nat
          BY <1>a, <2>1
        <4>2. QED
          BY <1>a, <4>1, RecordsMade
      <3>2. setups' \in [Context -> SetupRec]
        BY <1>a, <2>1, <3>1
      <3>3. QED
        BY <1>0, <1>4, <3>2 DEF SetupEnds, ContextTypeOK, onBus, waiting, SetupRec
    <2>2. CASE Free(c, "setup") /\ setups' = [setups EXCEPT ![c].old = @ - 1]
      <3>1. setups[c].old > Cardinality(Waiting(c, "setup"))
        BY <2>2 DEF Free, Active
      <3>2. setups[c].old - 1 \in Nat
        BY <1>a, <1>b, <3>1 DEF Caller
      <3>3. [setups[c] EXCEPT !.old = setups[c].old - 1] \in SetupRec
        BY <1>a, <3>2, RecordsMade
      <3>4. setups' \in [Context -> SetupRec]
        BY <1>a, <2>2, <3>3
      <3>5. QED
        BY <1>0, <1>4, <3>4 DEF SetupEnds, ContextTypeOK, onBus, waiting, SetupRec
    <2>3. QED
      BY <1>4, <2>1, <2>2 DEF SetupEnds
  <1>5. ASSUME NEW c \in Context, SetupSubscribes(c) PROVE ContextTypeOK'
    <2>1. setups' \in [Context -> SetupRec]
      <3>1. setups[c].new - 1 \in Nat /\ setups[c].old + 1 \in Nat
        BY <1>a, <1>5 DEF SetupSubscribes
      <3>2. [new |-> setups[c].new - 1, old |-> setups[c].old + 1] \in SetupRec
        BY <3>1 DEF SetupRec
      <3>3. QED
        BY <1>a, <1>5, <3>2 DEF SetupSubscribes
    <2>2. Subscribes(c, "handler") /\ "handler" \in Key
      BY <1>5 DEF SetupSubscribes, Key
    <2>3. QED
      BY <1>0, <1>5, <2>1, <2>2, SubscribeTypes DEF SetupSubscribes, ContextTypeOK, waiting, SetupRec
  <1>6. ASSUME NEW c \in Context, TaskEnds(c) \/ \E caller \in Caller : StartsTask(c, caller) PROVE ContextTypeOK'
    <2>1. tasks' \in [Context -> {0, 1}]
      <3>1. CASE tasks[c] = 0 /\ tasks' = [tasks EXCEPT ![c] = @ + 1]
        BY <1>0, <3>1 DEF ContextTypeOK
      <3>2. CASE tasks[c] > 0 /\ tasks' = [tasks EXCEPT ![c] = @ - 1]
        BY <1>0, <3>2 DEF ContextTypeOK
      <3>3. QED
        BY <1>6, <3>1, <3>2 DEF StartsTask, TaskEnds, HandlerStarts, HandlerEnds
    <2>2. QED
      BY <1>0, <1>6, <2>1 DEF StartsTask, TaskEnds, HandlerStarts, HandlerEnds, ContextTypeOK, onBus, waiting
  <1>h. ASSUME NEW c \in Context, HandlerStarts(c) PROVE ContextTypeOK'
    BY <1>0, <1>a, <1>h DEF HandlerStarts, ContextTypeOK, onBus, waiting
  <1>i. ASSUME NEW c \in Context, HandlerSubscribes(c) PROVE ContextTypeOK'
    <2>1. Subscribes(c, "handler") /\ "handler" \in Key /\ UNCHANGED <<running, listening, waiting>>
      BY <1>i DEF HandlerSubscribes, Key
    <2>2. QED
      BY <1>0, <2>1, SubscribeTypes DEF running, waiting, ContextTypeOK
  <1>j. ASSUME NEW c \in Context, HandlerEnds(c) PROVE ContextTypeOK'
    <2>1. handlings[c] - 1 \in Nat
      BY <1>a, <1>b, <1>j DEF HandlerEnds, Free, Active, Caller
    <2>2. QED
      BY <1>0, <1>j, <2>1 DEF HandlerEnds, ContextTypeOK, onBus, waiting
  <1>7. ASSUME NEW c \in Context, NEW r \in Request, NEW caller \in Caller, Ask(c, r, caller)
        PROVE  ContextTypeOK'
    <2>1. request' \in [Request -> RequestRec]
      <3>1. [by |-> c, caller |-> caller, future |-> "pending", result |-> "none"] \in RequestRec
        BY DEF RequestRec, Context, Future, Caller
      <3>2. QED
        BY <1>7, <1>a, <3>1 DEF Ask
    <2>2. /\ subscribers' \in [Key -> [Context -> Nat]] /\ subKeys' \subseteq Key
          /\ subscribed' \in [Context -> SUBSET Key] /\ listening' \subseteq Context
      <3>1. CASE c \in listening
        BY <1>0, <1>7, <3>1 DEF Ask, onBus, ContextTypeOK
      <3>2. CASE c \notin listening
        <4>1. Subscribes(c, "reply") /\ "reply" \in Key /\ listening' = listening \cup {c}
          BY <1>7, <3>2 DEF Ask, Key
        <4>2. QED
          BY <1>0, <4>1, SubscribeTypes DEF ContextTypeOK
      <3>3. QED
        BY <3>1, <3>2
    <2>3. QED
      BY <1>0, <1>7, <2>1, <2>2 DEF Ask, ContextTypeOK, RequestRec, running
  <1>8. ASSUME NEW r \in Request, Reply(r) PROVE ContextTypeOK'
    <2>1. replies' \in [Request -> [sent : Nat, due : Nat]]
      <3>1. replies[r].sent + 1 \in Nat /\ replies[r].due + 1 \in Nat
        BY <1>a
      <3>2. PICK n \in {replies[r].due, replies[r].due + 1} :
                replies' = [replies EXCEPT ![r].sent = replies[r].sent + 1, ![r].due = n]
        BY <1>8 DEF Reply
      <3>3. n \in Nat
        BY <1>a
      <3>4. QED
        BY <1>0, <3>1, <3>2, <3>3 DEF ContextTypeOK
    <2>2. QED
      BY <1>0, <1>8, <2>1 DEF Reply, ContextTypeOK, running, onBus
  <1>9. ASSUME NEW r \in Request, Deliver(r) PROVE ContextTypeOK'
    <2>1. replies' \in [Request -> [sent : Nat, due : Nat]]
      <3>1. replies[r].due - 1 \in Nat
        BY <1>a, <1>9 DEF Deliver
      <3>2. QED
        BY <1>0, <1>9, <3>1 DEF Deliver, ContextTypeOK
    <2>2. request' \in [Request -> RequestRec]
      <3>1. Settled(request[r].future) \in Future
        BY <1>a DEF Settled, SetResult, RequestRec, Future
      <3>2. [request[r] EXCEPT !.future = Settled(request[r].future)] \in RequestRec
        BY <1>a, <3>1, RecordsMade
      <3>3. QED
        BY <1>9, <1>a, <3>2 DEF Deliver
    <2>3. QED
      BY <1>0, <1>9, <2>1, <2>2 DEF Deliver, ContextTypeOK, running, onBus, RequestRec, Future
  <1>10. ASSUME NEW r \in Request, NEW result \in {"reply", "timeout", "cancelled"}, Returns(r, result)
         PROVE  ContextTypeOK'
    <2>1. request' \in [Request -> RequestRec]
      <3>1. PICK f \in {request[r].future, "cancelled"} : request' = [request EXCEPT ![r].result = result, ![r].future = f]
        BY <1>10 DEF Returns
      <3>2. f \in Future
        BY <1>a DEF RequestRec, Future
      <3>3. [request[r] EXCEPT !.result = result, !.future = f] \in RequestRec
        BY <1>a, <3>2, RecordsMade
      <3>4. QED
        BY <1>a, <3>1, <3>3
    <2>2. setups' \in [Context -> SetupRec]
      <3>1. CASE request[r].caller = "setup"
        <4>1. request[r].by \in Context
          BY <1>0, <1>10, <1>a DEF Returns, ContextInv, WaitingInv, NoRequest, RequestRec, Future, Context
        <4>2. r \in Waiting(request[r].by, "setup")
          BY <1>10, <3>1 DEF Returns, Waiting
        <4>3. Cardinality(Waiting(request[r].by, "setup")) \in Nat /\ Cardinality(Waiting(request[r].by, "setup")) # 0
          <5>1. IsFiniteSet(Waiting(request[r].by, "setup"))
            BY FS_Subset DEF Waiting
          <5>2. QED
            BY <4>2, <5>1, FS_CardinalityType, FS_EmptySet
        <4>4. setups[request[r].by].old > 0
          BY <1>a, <4>1, <4>3 DEF ContextInv, WaitingInv, Active, Caller
        <4>5. QED
          <5>1. setups[request[r].by].old - 1 \in Nat
            BY <1>a, <4>1, <4>4
          <5>2. [setups[request[r].by] EXCEPT !.old = setups[request[r].by].old - 1] \in SetupRec
            BY <1>a, <4>1, <5>1, RecordsMade
          <5>3. QED
            BY <1>10, <1>a, <4>1, <5>2 DEF Returns
      <3>2. QED
        BY <1>10, <1>a, <3>1 DEF Returns
    <2>3. handlings' \in [Context -> Nat]
      <3>1. CASE request[r].caller = "handler" /\ result = "cancelled"
        <4>1. request[r].by \in Context
          BY <1>0, <1>10, <1>a DEF Returns, ContextInv, WaitingInv, NoRequest, RequestRec, Future, Context
        <4>2. r \in Waiting(request[r].by, "handler")
          BY <1>10, <3>1 DEF Returns, Waiting
        <4>3. Cardinality(Waiting(request[r].by, "handler")) \in Nat /\ Cardinality(Waiting(request[r].by, "handler")) # 0
          <5>1. IsFiniteSet(Waiting(request[r].by, "handler"))
            BY FS_Subset DEF Waiting
          <5>2. QED
            BY <4>2, <5>1, FS_CardinalityType, FS_EmptySet
        <4>4. handlings[request[r].by] - 1 \in Nat
          BY <1>a, <4>1, <4>3 DEF ContextInv, WaitingInv, Active, Caller
        <4>5. QED
          BY <1>0, <1>10, <3>1, <4>1, <4>4 DEF Returns, ContextTypeOK
      <3>2. CASE ~(request[r].caller = "handler" /\ result = "cancelled")
        BY <1>0, <1>10, <3>2 DEF Returns, ContextTypeOK
      <3>3. QED
        BY <3>1, <3>2
    <2>4. QED
      BY <1>0, <1>10, <2>1, <2>2, <2>3 DEF Returns, ContextTypeOK, RequestRec, SetupRec, onBus, Future
  <1>11. CASE UNCHANGED contextVars
    BY <1>0, <1>11 DEF contextVars, running, onBus, waiting, ContextTypeOK
  <1>12. QED
    BY <1>1, <1>2, <1>3, <1>4, <1>5, <1>6, <1>h, <1>i, <1>j, <1>7, <1>8, <1>9, <1>10, <1>11 DEF ContextNext

-----------------------------------------------------------------------------
(* The bus.                                                                *)

\* subscribe() keeps who is on the bus and adds the context, unless the name is
\* taken.
LEMMA SubscribeAdds ==
    ASSUME ContextTypeOK, NEW c \in Context, NEW k \in Key, Subscribes(c, k)
    PROVE  /\ subKeys' = subKeys \cup {k}
           /\ \A j \in Key, d \in Context :
                 /\ ~(j = k /\ d = c /\ k \notin subKeys) => subscribers'[j][d] = subscribers[j][d]
                 /\ j = k /\ d = c /\ k \notin subKeys => subscribers'[j][d] = subscribers[j][d] + 1
           /\ \A d \in Context : subscribed'[d] = IF d = c THEN subscribed[d] \cup {k} ELSE subscribed[d]
  <1>1. CASE k \in subKeys
    BY <1>1 DEF Subscribes, Added, ContextTypeOK
  <1>2. CASE k \notin subKeys
    BY <1>2 DEF Subscribes, Added, ContextTypeOK
  <1>3. QED
    BY <1>1, <1>2

\* dispose() takes a context off the bus and frees its names.
LEMMA DisposeRemoves ==
    ASSUME ContextInv, NEW c \in Context, Dispose(c)
    PROVE  /\ subKeys' = subKeys \ subscribed[c]
           /\ \A j \in Key, d \in Context :
                 subscribers'[j][d] = IF d = c THEN 0 ELSE subscribers[j][d]
           /\ \A d \in Context : subscribed'[d] = IF d = c THEN {} ELSE subscribed[d]
  <1>1. \A j \in Key, d \in Context :
            subscribers'[j][d] = IF d = c /\ j \in subscribed[c] THEN 0 ELSE subscribers[j][d]
    BY DEF Dispose, Removed, ContextInv, ContextTypeOK
  <1>2. \A j \in Key : j \notin subscribed[c] => subscribers[j][c] = 0
    BY DEF ContextInv, BusInv, OnTheBus, ContextTypeOK
  <1>3. QED
    BY <1>1, <1>2 DEF Dispose, KeysAfter, ContextInv, ContextTypeOK

\* BusInv, and Hears after it, context by context.
BusAt(k) ==
    /\ \A c \in Context : subscribers[k][c] > 0 => k \in subscribed[c]
    /\ k \in subKeys => \E c \in Context : subscribers[k][c] > 0
    /\ entry # "none" /\ subscribers[k][loaded] > 0 => k \in subKeys
    /\ entry # "none" => subscribers[k][loaded] <= 1
    /\ entry # "none" /\ k \in subscribed[loaded] =>
           \E d \in Context : subscribers[k][d] > 0 /\ (d \in left \/ d = loaded)

BusByNameInv == \A k \in Key : BusAt(k)

LEMMA BusByName == ContextTypeOK /\ MadeInOrder => (BusInv /\ Hears <=> BusByNameInv)
  <1> SUFFICES ASSUME ContextTypeOK, MadeInOrder PROVE BusInv /\ Hears <=> BusByNameInv
    OBVIOUS
  <1>1. entry # "none" => loaded \in Context
    BY ContextAssumption DEF ContextTypeOK, MadeInOrder, Context
  <1>2. ASSUME BusInv, Hears, NEW k \in Key PROVE BusAt(k)
    <2>1. entry # "none" /\ k \in subscribed[loaded] =>
              \E d \in Context : subscribers[k][d] > 0 /\ (d \in left \/ d = loaded)
      BY <1>1, <1>2 DEF Hears, Registered, OnTheBus
    <2>2. QED
      BY <1>1, <1>2, <2>1 DEF BusInv, BusAt, OnTheBus
  <1>3. ASSUME \A k \in Key : BusAt(k) PROVE BusInv /\ Hears
    <2>1. BusInv
      BY <1>1, <1>3 DEF BusInv, BusAt, OnTheBus, ContextTypeOK
    <2>2. Hears
      BY <1>1, <1>3 DEF Hears, BusAt, OnTheBus, Registered
    <2>3. QED
      BY <2>1, <2>2
  <1>4. QED
    BY <1>2, <1>3 DEF BusByNameInv

\* Whoever has a setup() or a handler that runs, or is on the bus, was disposed of
\* meanwhile or is registered.
LEMMA BusyOnes ==
    ASSUME ContextInv, NEW c \in Context,
           \/ setups[c].new > 0 \/ \E k \in Key : subscribers[k][c] > 0
           \/ \E caller \in Caller : Free(c, caller)
    PROVE  /\ c \in left \/ (Registered(c) /\ entry # "disabled")
           /\ c \in 1..loaded
  <1>1. CASE \E k \in Key : subscribers[k][c] > 0
    <2>1. subscribed[c] # {}
      BY <1>1 DEF ContextInv, BusInv, OnTheBus
    <2>2. c \in left \/ (Registered(c) /\ entry # "disabled")
      BY <2>1 DEF ContextInv, OnlyWhatIsLeft
    <2>3. QED
      BY <2>2, ContextAssumption DEF ContextInv, MadeInOrder, Registered, ContextTypeOK, Context
  <1>2. CASE setups[c].new > 0 \/ \E caller \in Caller : Free(c, caller)
    <2>1. setups[c].new \in Nat /\ setups[c].old \in Nat /\ handlings[c] \in Nat
      BY DEF ContextInv, ContextTypeOK
    <2>2. setups[c].new > 0 \/ setups[c].old > 0 \/ handlings[c] > 0
      <3>1. \A caller \in Caller : Cardinality(Waiting(c, caller)) \in Nat
        <4>1. \A caller \in Caller : Waiting(c, caller) \subseteq Request
          BY DEF Waiting
        <4>2. QED
          BY <4>1, ContextAssumption, FS_Subset, FS_CardinalityType
      <3>2. QED
        BY <1>2, <2>1, <3>1 DEF Free, Active
    <2>3. Setting(c) # 0 \/ handlings[c] # 0
      BY <2>1, <2>2 DEF Setting
    <2>4. c \in left \/ (Registered(c) /\ entry # "disabled")
      BY <2>3 DEF ContextInv, OnlyWhatIsLeft
    <2>5. QED
      BY <2>4, ContextAssumption DEF ContextInv, MadeInOrder, Registered, ContextTypeOK, Context
  <1>3. QED
    BY <1>1, <1>2

\* A subscription of one that may make it.
LEMMA BusAfterSubscribe ==
    ASSUME ContextInv, NEW c \in Context, NEW n \in Key, Subscribes(c, n),
           c \in left \/ (Registered(c) /\ entry # "disabled"),
           UNCHANGED <<entry, loaded, left>>, NEW k \in Key
    PROVE  BusAt(k)'
  <1>0. ContextTypeOK /\ BusAt(k) /\ (entry # "none" => loaded \in Context)
    BY SMTT(40), BusByName, ContextAssumption DEF ContextInv, MadeInOrder, ContextTypeOK, Context, BusByNameInv
  <1>a. /\ subKeys' = subKeys \cup {n}
        /\ \A d \in Context : subscribers[k][d] \in Nat
        /\ \A d \in Context : subscribers'[k][d] = IF k = n /\ d = c /\ n \notin subKeys
                                                   THEN subscribers[k][d] + 1 ELSE subscribers[k][d]
        /\ \A d \in Context : subscribed'[d] = IF d = c THEN subscribed[d] \cup {n} ELSE subscribed[d]
    <2>1. \A d \in Context : subscribers[k][d] \in Nat
      BY <1>0 DEF ContextTypeOK
    <2>2. \A d \in Context : subscribers'[k][d] = IF k = n /\ d = c /\ n \notin subKeys
                                                    THEN subscribers[k][d] + 1 ELSE subscribers[k][d]
      BY <1>0, SubscribeAdds
    <2>3. QED
      BY <1>0, <2>1, <2>2, SubscribeAdds
  <1>1. \A d \in Context : subscribers'[k][d] > 0 => k \in subscribed'[d]
    BY <1>0, <1>a DEF BusAt
  <1>2. k \in subKeys' => \E d \in Context : subscribers'[k][d] > 0
    <2>1. CASE k \in subKeys
      BY <1>0, <1>a, <2>1 DEF BusAt
    <2>2. CASE k = n /\ n \notin subKeys
      BY <1>a, <2>2
    <2>3. QED
      BY <1>a, <2>1, <2>2
  <1>3. entry # "none" /\ subscribers'[k][loaded] > 0 => k \in subKeys'
    BY <1>0, <1>a DEF BusAt
  <1>4. entry # "none" => subscribers'[k][loaded] <= 1
    BY <1>0, <1>a DEF BusAt
  <1>5. entry # "none" /\ k \in subscribed'[loaded] =>
            \E d \in Context : subscribers'[k][d] > 0 /\ (d \in left \/ d = loaded)
    <2>1. CASE k \in subscribed[loaded]
      BY <1>0, <1>a, <2>1 DEF BusAt
    <2>2. CASE k = n /\ loaded = c /\ n \notin subKeys
      BY <1>a, <2>2
    <2>3. CASE k = n /\ loaded = c /\ n \in subKeys
      <3>1. PICK d \in Context : subscribers[k][d] > 0
        BY <1>0, <2>3 DEF BusAt
      <3>2. d \in left \/ d = loaded
        BY <3>1, BusyOnes DEF Registered
      <3>3. QED
        BY <1>a, <3>1, <3>2
    <2>4. QED
      BY <1>0, <1>a, <2>1, <2>2, <2>3
  <1>6. QED
    BY <1>1, <1>2, <1>3, <1>4, <1>5 DEF BusAt

\* The end of a registered context.
LEMMA BusAfterDispose ==
    ASSUME ContextInv, entry # "none", Dispose(loaded), loaded' = loaded, NEW k \in Key
    PROVE  BusAt(k)'
  <1>b. BusAt(k)
    BY BusByName DEF ContextInv, BusByNameInv
  <1>0. ContextTypeOK /\ BusAt(k) /\ loaded \in Context
    BY <1>b, ContextAssumption DEF ContextInv, MadeInOrder, ContextTypeOK, Context
  <1>a. /\ subKeys' = subKeys \ subscribed[loaded]
        /\ \A d \in Context : subscribers'[k][d] = IF d = loaded THEN 0 ELSE subscribers[k][d]
        /\ \A d \in Context : subscribed'[d] = IF d = loaded THEN {} ELSE subscribed[d]
    BY <1>0, DisposeRemoves
  <1>1. k \in subKeys' => \E d \in Context : subscribers'[k][d] > 0
    BY <1>0, <1>a DEF BusAt
  <1>2. QED
    BY <1>0, <1>a, <1>1 DEF BusAt

\* Steps that leave the bus alone.
LEMMA BusUntouched ==
    ASSUME NEW k \in Key, BusAt(k), UNCHANGED <<subscribers, subKeys, subscribed, loaded, left>>,
           entry' # "none" => entry # "none"
    PROVE  BusAt(k)'
  BY DEF BusAt

LEMMA BusKept ==
    ASSUME ContextInv, [ContextNext]_contextVars, NEW k \in Key
    PROVE  BusAt(k)'
  <1>0. ContextTypeOK /\ BusAt(k)
    BY BusByName DEF ContextInv, BusByNameInv
  <1>1. CASE Load
    <2>1. loaded' \in Context /\ ~Registered(loaded') /\ loaded' \notin left
      BY <1>0, <1>1, ContextAssumption DEF Load, ContextInv, MadeInOrder, Registered, ContextTypeOK, Context
    <2>2. subscribed[loaded'] = {}
      BY <2>1 DEF ContextInv, OnlyWhatIsLeft
    <2>3. \A d \in Context : subscribers[k][d] \in Nat
      BY <1>0 DEF ContextTypeOK
    <2>4. QED
      BY <1>0, <1>1, <2>1, <2>2, <2>3 DEF Load, onBus, BusAt
  <1>2. ASSUME Unload \/ Disable PROVE BusAt(k)'
    BY <1>2, BusAfterDispose DEF Unload, Disable
  <1>3. ASSUME \/ Activate(1) \/ Activate(2)
               \/ \E c \in Context : \/ TaskEnds(c) \/ HandlerStarts(c) \/ HandlerEnds(c)
                                     \/ \E caller \in Caller : StartsTask(c, caller)
                                     \/ \E ok \in BOOLEAN : SetupEnds(c, ok)
               \/ \E r \in Request : Reply(r) \/ Deliver(r)
                                     \/ \E result \in {"reply", "timeout", "cancelled"} : Returns(r, result)
        PROVE  BusAt(k)'
    <2>1. UNCHANGED <<subscribers, subKeys, subscribed, loaded, left>> /\ (entry' # "none" => entry # "none")
      BY <1>3 DEF Activate, StartsTask, TaskEnds, HandlerStarts, HandlerEnds, SetupEnds, Reply, Deliver, Returns, onBus, running
    <2>2. QED
      BY <1>0, <2>1, BusUntouched
  <1>4. ASSUME NEW c \in Context, SetupSubscribes(c) PROVE BusAt(k)'
    <2>1. c \in left \/ (Registered(c) /\ entry # "disabled")
      BY <1>4, BusyOnes DEF SetupSubscribes
    <2>2. "handler" \in Key /\ Subscribes(c, "handler") /\ UNCHANGED <<entry, loaded, left>>
      BY <1>4 DEF SetupSubscribes, Key
    <2>3. QED
      BY <2>1, <2>2, BusAfterSubscribe
  <1>h. ASSUME NEW c \in Context, HandlerSubscribes(c) PROVE BusAt(k)'
    <2>1. c \in left \/ (Registered(c) /\ entry # "disabled")
      BY <1>h, BusyOnes DEF HandlerSubscribes, Caller
    <2>2. "handler" \in Key /\ Subscribes(c, "handler") /\ UNCHANGED <<entry, loaded, left>>
      BY <1>h DEF HandlerSubscribes, running, Key
    <2>3. QED
      BY <2>1, <2>2, BusAfterSubscribe
  <1>5. ASSUME NEW c \in Context, NEW r \in Request, NEW caller \in Caller, Ask(c, r, caller)
        PROVE  BusAt(k)'
    <2>1. CASE c \in listening
      BY <1>0, <1>5, <2>1, BusUntouched DEF Ask, onBus, running
    <2>2. CASE c \notin listening
      <3>1. c \in left \/ (Registered(c) /\ entry # "disabled")
        BY <1>5, BusyOnes DEF Ask
      <3>2. "reply" \in Key /\ Subscribes(c, "reply") /\ UNCHANGED <<entry, loaded, left>>
        BY <1>5, <2>2 DEF Ask, Key, running
      <3>3. QED
        BY <3>1, <3>2, BusAfterSubscribe
    <2>3. QED
      BY <2>1, <2>2
  <1>6. CASE UNCHANGED contextVars
    BY <1>0, <1>6, BusUntouched DEF contextVars, running, onBus
  <1>7. QED
    BY <1>1, <1>2, <1>3, <1>4, <1>h, <1>5, <1>6 DEF ContextNext

-----------------------------------------------------------------------------
(* What is left of a context.                                              *)

OnlyAt(c) ==
    c \notin left /\ (~Registered(c) \/ entry = "disabled") =>
        /\ Setting(c) = 0 /\ handlings[c] = 0 /\ tasks[c] = 0
        /\ subscribed[c] = {}
        /\ \A r \in awaited : request[r].by # c

\* A context that no step touches, and that does not become registered.
LEMMA OnlyUntouched ==
    ASSUME NEW c, OnlyAt(c), left' = left,
           Registered(c) /\ entry # "disabled" => Registered(c)' /\ entry' # "disabled",
           setups'[c] = setups[c], handlings'[c] = handlings[c],
           tasks'[c] = tasks[c], subscribed'[c] = subscribed[c],
           \A r \in awaited' : (r \in awaited /\ request'[r].by = request[r].by) \/ request'[r].by # c
    PROVE  OnlyAt(c)'
  BY DEF OnlyAt, Setting

\* Requests keep who they are by.
LEMMA OfTheSame ==
    ASSUME ContextTypeOK, NEW r \in Request, Deliver(r) \/ \E result \in {"reply", "timeout", "cancelled"} : Returns(r, result),
           NEW q \in Request
    PROVE  request'[q].by = request[q].by
  <1>1. request[q] \in RequestRec /\ request \in [Request -> RequestRec]
    BY DEF ContextTypeOK, RequestRec, Future
  <1>2. CASE Deliver(r)
    BY <1>1, <1>2 DEF Deliver, RequestRec, Future
  <1>3. ASSUME NEW result \in {"reply", "timeout", "cancelled"}, Returns(r, result) PROVE request'[q].by = request[q].by
    BY <1>1, <1>3 DEF Returns, RequestRec, Future
  <1>4. QED
    BY <1>2, <1>3

LEMMA OnlyKept ==
    ASSUME ContextInv, [ContextNext]_contextVars, NEW c \in Context
    PROVE  OnlyAt(c)'
  <1>0. ContextTypeOK /\ OnlyAt(c) /\ (entry # "none" => loaded \in Context)
    BY ContextAssumption DEF ContextInv, OnlyWhatIsLeft, OnlyAt, MadeInOrder, ContextTypeOK, Context
  <1>1. CASE Load
    <2>1. ~Registered(c)
      BY <1>1 DEF Load, Registered
    <2>2. QED
      BY <1>0, <1>1, <2>1, OnlyUntouched DEF Load, onBus, waiting
  <1>2. ASSUME Unload \/ Disable PROVE OnlyAt(c)'
    <2>1. loaded \in Context /\ Dispose(loaded) /\ entry # "none" /\ UNCHANGED <<loaded, setups, handlings>>
      BY <1>0, <1>2 DEF Unload, Disable
    <2>2. /\ awaited' = {r \in awaited : request[r].by # loaded}
          /\ \A r \in Request : request'[r].by = request[r].by
          /\ \A d \in Context : subscribed'[d] = IF d = loaded THEN {} ELSE subscribed[d]
          /\ \A d \in Context : tasks'[d] = IF d = loaded THEN 0 ELSE tasks[d]
          /\ left' = IF Setting(loaded) + handlings[loaded] > 0 THEN left \cup {loaded} ELSE left
      <3>1. \A r \in Request : request[r] \in RequestRec
        BY <1>0 DEF ContextTypeOK, RequestRec, Future
      <3>2. \A r \in Request : request'[r].by = request[r].by
        BY <2>1, <3>1 DEF Dispose, Cancelled, RequestRec, Future
      <3>3. QED
        BY <1>0, <2>1, <3>2, DisposeRemoves DEF Dispose, ContextTypeOK
    <2>3. CASE c = loaded
      <3>1. Setting(c) \in Nat /\ handlings[c] \in Nat
        BY <1>0 DEF ContextTypeOK, Setting
      <3>2. c \notin left' => Setting(c) = 0 /\ handlings[c] = 0
        BY <2>2, <2>3, <3>1
      <3>3. \A r \in awaited' : request'[r].by # c
        BY <1>0, <2>2, <2>3 DEF ContextTypeOK
      <3>4. QED
        BY <2>1, <2>2, <2>3, <3>2, <3>3 DEF OnlyAt, Setting
    <2>4. CASE c # loaded
      <3>1. c \notin left' => c \notin left /\ ~Registered(c)
        BY <2>2, <2>4 DEF Registered
      <3>2. \A r \in awaited' : r \in awaited /\ request'[r].by = request[r].by
        BY <1>0, <2>2 DEF ContextTypeOK
      <3>3. QED
        BY <1>0, <2>1, <2>2, <2>4, <3>1, <3>2 DEF OnlyAt, Setting
    <2>5. QED
      BY <2>3, <2>4
  <1>3. ASSUME NEW n \in {1, 2}, Activate(n) PROVE OnlyAt(c)'
    <2>1. c # loaded => setups'[c] = setups[c]
      BY <1>0, <1>3 DEF Activate, ContextTypeOK
    <2>2. CASE c = loaded
      BY <1>3, <2>2 DEF Activate, OnlyAt, Registered
    <2>3. CASE c # loaded
      BY <1>0, <1>3, <2>1, <2>3, OnlyUntouched DEF Activate, Registered, onBus, waiting
    <2>4. QED
      BY <2>2, <2>3
  <1>4. ASSUME NEW d \in Context, d \in left \/ (Registered(d) /\ entry # "disabled"), UNCHANGED <<left, loaded>>,
               Registered(d) /\ entry # "disabled" => entry' \notin {"none", "disabled"},
               c # d => /\ entry # "disabled" => entry' # "disabled"
                        /\ entry # "none" => entry' # "none"
                        /\ setups'[c] = setups[c] /\ handlings'[c] = handlings[c]
                        /\ tasks'[c] = tasks[c] /\ subscribed'[c] = subscribed[c]
                        /\ \A r \in awaited' : (r \in awaited /\ request'[r].by = request[r].by) \/ request'[r].by # c
        PROVE  OnlyAt(c)'
    <2>1. CASE c = d
      BY <1>4, <2>1 DEF OnlyAt, Registered
    <2>2. CASE c # d
      BY <1>0, <1>4, <2>2, OnlyUntouched DEF Registered
    <2>3. QED
      BY <2>1, <2>2
  <1>5. ASSUME NEW d \in Context, NEW ok \in BOOLEAN, SetupEnds(d, ok) PROVE OnlyAt(c)'
    <2>1. d \in left \/ (Registered(d) /\ entry # "disabled")
      BY <1>5, BusyOnes DEF SetupEnds, Caller
    <2>2. c # d => setups'[c] = setups[c]
      BY <1>0, <1>5 DEF SetupEnds, ContextTypeOK
    <2>3. /\ entry # "disabled" => entry' # "disabled"
          /\ entry # "none" => entry' \notin {"none", "disabled"}
      BY <1>5 DEF SetupEnds
    <2>4. QED
      BY <1>4, <1>5, <2>1, <2>2, <2>3 DEF SetupEnds, onBus, waiting, Registered
  <1>6. ASSUME NEW d \in Context, SetupSubscribes(d) PROVE OnlyAt(c)'
    <2>1. d \in left \/ (Registered(d) /\ entry # "disabled")
      BY <1>6, BusyOnes DEF SetupSubscribes
    <2>2. c # d => setups'[c] = setups[c] /\ subscribed'[c] = subscribed[c]
      BY <1>0, <1>6 DEF SetupSubscribes, Subscribes, ContextTypeOK
    <2>3. QED
      BY <1>4, <1>6, <2>1, <2>2 DEF SetupSubscribes, waiting, Registered
  <1>h. ASSUME NEW d \in Context, HandlerStarts(d) \/ HandlerEnds(d) PROVE OnlyAt(c)'
    <2>1. d \in left \/ (Registered(d) /\ entry # "disabled")
      BY <1>h, BusyOnes DEF HandlerStarts, HandlerEnds, OnTheBus, Key, Caller
    <2>2. c # d => handlings'[c] = handlings[c]
      BY <1>0, <1>h DEF HandlerStarts, HandlerEnds, ContextTypeOK
    <2>3. QED
      BY <1>4, <1>h, <2>1, <2>2 DEF HandlerStarts, HandlerEnds, onBus, waiting, Registered
  <1>i. ASSUME NEW d \in Context, HandlerSubscribes(d) PROVE OnlyAt(c)'
    <2>1. d \in left \/ (Registered(d) /\ entry # "disabled")
      BY <1>i, BusyOnes DEF HandlerSubscribes, Caller
    <2>2. c # d => subscribed'[c] = subscribed[c]
      BY <1>0, <1>i DEF HandlerSubscribes, Subscribes, ContextTypeOK
    <2>3. QED
      BY <1>4, <1>i, <2>1, <2>2 DEF HandlerSubscribes, running, waiting, Registered
  <1>7. ASSUME NEW d \in Context, TaskEnds(d) \/ \E caller \in Caller : StartsTask(d, caller) PROVE OnlyAt(c)'
    <2>1. d \in left \/ (Registered(d) /\ entry # "disabled")
      <3>1. CASE \E caller \in Caller : StartsTask(d, caller)
        BY <3>1, BusyOnes DEF StartsTask
      <3>2. CASE TaskEnds(d)
        BY <3>2 DEF TaskEnds, ContextInv, OnlyWhatIsLeft
      <3>3. QED
        BY <1>7, <3>1, <3>2
    <2>2. c # d => tasks'[c] = tasks[c]
      BY <1>0, <1>7 DEF StartsTask, TaskEnds, HandlerStarts, HandlerEnds, ContextTypeOK
    <2>3. QED
      BY <1>4, <1>7, <2>1, <2>2 DEF StartsTask, TaskEnds, HandlerStarts, HandlerEnds, onBus, waiting, Registered
  <1>8. ASSUME NEW d \in Context, NEW r \in Request, NEW caller \in Caller, Ask(d, r, caller)
        PROVE  OnlyAt(c)'
    <2>1. d \in left \/ (Registered(d) /\ entry # "disabled")
      BY <1>8, BusyOnes DEF Ask
    <2>2. c # d => subscribed'[c] = subscribed[c]
      BY <1>0, <1>8 DEF Ask, Subscribes, onBus, ContextTypeOK
    <2>3. c # d => \A q \in awaited' : (q \in awaited /\ request'[q].by = request[q].by) \/ request'[q].by # c
      BY <1>0, <1>8 DEF Ask, ContextTypeOK
    <2>4. QED
      BY <1>4, <1>8, <2>1, <2>2, <2>3 DEF Ask, running, Registered
  <1>9. ASSUME NEW r \in Request, Reply(r) \/ Deliver(r) PROVE OnlyAt(c)'
    <2>1. \A q \in awaited' : q \in awaited /\ request'[q].by = request[q].by
      BY <1>0, <1>9, OfTheSame DEF Reply, Deliver, ContextTypeOK
    <2>2. QED
      BY <1>0, <1>9, <2>1, OnlyUntouched DEF Reply, Deliver, running, onBus, Registered
  <1>10. ASSUME NEW r \in Request, NEW result \in {"reply", "timeout", "cancelled"}, Returns(r, result)
         PROVE  OnlyAt(c)'
    <2>1. \A q \in awaited' : q \in awaited /\ request'[q].by = request[q].by
      BY <1>0, <1>10, OfTheSame DEF Returns, ContextTypeOK
    <2>2. CASE setups'[c] = setups[c] /\ handlings'[c] = handlings[c]
      BY <1>0, <1>10, <2>1, <2>2, OnlyUntouched DEF Returns, onBus, Registered
    <2>3. CASE ~(setups'[c] = setups[c] /\ handlings'[c] = handlings[c])
      <3>1. PICK caller \in Caller : r \in Waiting(c, caller)
        BY <1>0, <1>10, <2>3 DEF Returns, ContextTypeOK, Waiting, Caller
      <3>2. Cardinality(Waiting(c, caller)) \in Nat /\ Cardinality(Waiting(c, caller)) # 0
        <4>1. IsFiniteSet(Waiting(c, caller))
          BY ContextAssumption, FS_Subset DEF Waiting
        <4>2. QED
          BY <3>1, <4>1, FS_CardinalityType, FS_EmptySet
      <3>3. setups[c].old \in Nat /\ setups[c].new \in Nat /\ handlings[c] \in Nat
        BY <1>0 DEF ContextTypeOK
      <3>4. Cardinality(Waiting(c, caller)) <= Active(c, caller)
        BY DEF ContextInv, WaitingInv
      <3>5. Setting(c) # 0 \/ handlings[c] # 0
        BY <3>2, <3>3, <3>4 DEF Setting, Active
      <3>6. c \in left \/ (Registered(c) /\ entry # "disabled")
        BY <1>0, <3>5 DEF OnlyAt
      <3>7. QED
        BY <1>10, <3>6 DEF Returns, OnlyAt, Registered
    <2>4. QED
      BY <2>2, <2>3
  <1>11. CASE UNCHANGED contextVars
    BY <1>0, <1>11 DEF contextVars, running, onBus, waiting, OnlyAt, Registered, Setting
  <1>12. QED
    BY <1>1, <1>2, <1>3, <1>5, <1>6, <1>h, <1>i, <1>7, <1>8, <1>9, <1>10, <1>11 DEF ContextNext

\* The contexts are made one after the other.
LEMMA OrderKept ==
    ASSUME ContextInv, [ContextNext]_contextVars
    PROVE  MadeInOrder'
  <1>0. /\ ContextTypeOK /\ MadeInOrder /\ loaded \in Nat /\ loaded' \in {loaded, loaded + 1}
        /\ request \in [Request -> RequestRec]
    <2>1. loaded' \in {loaded, loaded + 1}
      BY DEF ContextNext, contextVars, running, Load, Unload, Disable, Activate, SetupEnds, SetupSubscribes,
             StartsTask, TaskEnds, HandlerStarts, HandlerEnds, HandlerSubscribes, Ask, Reply, Deliver, Returns
    <2>2. QED
      BY <2>1, ContextAssumption DEF ContextInv, ContextTypeOK, RequestRec, Future
  <1>1. entry' # "none" => loaded' > 0
    <2>1. (loaded' = loaded + 1) \/ (loaded' = loaded /\ (entry' # "none" => entry # "none"))
      BY DEF ContextNext, contextVars, running, Load, Unload, Disable, Activate, SetupEnds, SetupSubscribes,
               StartsTask, TaskEnds, HandlerStarts, HandlerEnds, HandlerSubscribes, Ask, Reply, Deliver, Returns
    <2>2. QED
      BY <1>0, <2>1 DEF MadeInOrder
  <1>2. left' \subseteq 1..loaded'
    <2>1. left' = left \/ (entry # "none" /\ left' = left \cup {loaded})
      BY DEF ContextNext, contextVars, running, Load, Unload, Disable, Dispose, Activate, SetupEnds, SetupSubscribes,
             StartsTask, TaskEnds, HandlerStarts, HandlerEnds, HandlerSubscribes, Ask, Reply, Deliver, Returns
    <2>2. \A c \in left : c \in 1..loaded'
      BY <1>0 DEF MadeInOrder
    <2>3. entry # "none" => loaded \in 1..loaded'
      BY <1>0 DEF MadeInOrder
    <2>4. CASE left' = left
      BY <2>2, <2>4
    <2>5. CASE entry # "none" /\ left' = left \cup {loaded}
      BY <2>2, <2>3, <2>5
    <2>6. QED
      BY <2>1, <2>4, <2>5
  <1>3. \A r \in Request : request'[r].by <= loaded'
    <2>1. \A r \in Request : request[r].by \in 0..Loads /\ request[r].by <= loaded'
      BY <1>0, ContextAssumption DEF MadeInOrder, RequestRec, Future
    <2>2. CASE UNCHANGED request
      BY <2>1, <2>2
    <2>3. ASSUME Unload \/ Disable PROVE \A r \in Request : request'[r].by = request[r].by
      BY <1>0, <2>3 DEF Unload, Disable, Dispose, Cancelled, RequestRec, Future
    <2>4. ASSUME NEW c \in Context, NEW r \in Request, NEW caller \in Caller, Ask(c, r, caller)
          PROVE  \A q \in Request : request'[q].by <= loaded'
      <3>2. c <= loaded /\ loaded' = loaded
        BY <2>4, BusyOnes, <1>0 DEF Ask, running
      <3>3. QED
        BY <1>0, <2>1, <2>4, <3>2 DEF Ask
    <2>5. ASSUME NEW r \in Request, Deliver(r) \/ \E result \in {"reply", "timeout", "cancelled"} : Returns(r, result)
          PROVE  \A q \in Request : request'[q].by = request[q].by
      BY <1>0, <2>5, OfTheSame
    <2>6. QED
      BY <2>1, <2>2, <2>3, <2>4, <2>5
         DEF ContextNext, contextVars, waiting, Load, Activate, SetupEnds, SetupSubscribes, StartsTask, TaskEnds, HandlerStarts, HandlerEnds, HandlerSubscribes, Reply
  <1>4. QED
    BY <1>1, <1>2, <1>3 DEF MadeInOrder

-----------------------------------------------------------------------------
(* Requests.                                                               *)

\* Who awaits a reply stays subscribed to it.
LEMMA ListensKept ==
    ASSUME ContextInv, [ContextNext]_contextVars
    PROVE  ListensInv'
  <1>0. /\ ContextTypeOK /\ ListensInv /\ (entry # "none" => loaded \in Context)
        /\ request \in [Request -> RequestRec]
    BY ContextAssumption DEF ContextInv, MadeInOrder, ContextTypeOK, Context, RequestRec, Future
  <1>1. ASSUME Unload \/ Disable PROVE ListensInv'
    <2>1. loaded \in Context /\ Dispose(loaded)
      BY <1>0, <1>1 DEF Unload, Disable
    <2>2. \A d \in Context : subscribed'[d] = IF d = loaded THEN {} ELSE subscribed[d]
      BY <2>1, DisposeRemoves
    <2>3. listening' = listening \ {loaded} /\ awaited' = {r \in awaited : request[r].by # loaded}
      BY <2>1 DEF Dispose, NotListening
    <2>4. \A r \in Request : request'[r].by = request[r].by
      BY <1>0, <2>1 DEF Dispose, Cancelled, RequestRec, Future
    <2>5. QED
      BY <1>0, <2>2, <2>3, <2>4 DEF ListensInv, ContextTypeOK
  <1>2. ASSUME NEW c \in Context, SetupSubscribes(c) \/ HandlerSubscribes(c) PROVE ListensInv'
    <2>a. subscribed' = [subscribed EXCEPT ![c] = @ \cup {"handler"}]
      BY <1>2 DEF SetupSubscribes, HandlerSubscribes, Subscribes
    <2>1. \A d \in Context : "reply" \in subscribed'[d] <=> "reply" \in subscribed[d]
      BY <1>0, <2>a DEF ContextTypeOK
    <2>2. QED
      BY <1>0, <1>2, <2>1 DEF SetupSubscribes, HandlerSubscribes, waiting, ListensInv
  <1>3. ASSUME NEW c \in Context, NEW r \in Request, NEW caller \in Caller, Ask(c, r, caller)
        PROVE  ListensInv'
    <2>1. \A q \in awaited' : (q \in awaited /\ q # r /\ request'[q].by = request[q].by) \/ request'[q].by = c
      BY <1>0, <1>3 DEF Ask, ContextTypeOK
    <2>2. CASE c \in listening
      BY <1>0, <1>3, <2>1, <2>2 DEF Ask, onBus, ListensInv
    <2>3. CASE c \notin listening
      <3>1. \A d \in Context : "reply" \in subscribed'[d] <=> "reply" \in subscribed[d] \/ d = c
        BY <1>0, <1>3, <2>3 DEF Ask, Subscribes, ContextTypeOK
      <3>2. listening' = listening \cup {c}
        BY <1>3, <2>3 DEF Ask
      <3>3. QED
        BY <1>0, <2>1, <3>1, <3>2 DEF ListensInv
    <2>4. QED
      BY <2>2, <2>3
  <1>4. ASSUME NEW r \in Request, Deliver(r) \/ \E result \in {"reply", "timeout", "cancelled"} : Returns(r, result)
        PROVE  ListensInv'
    <2>1. \A q \in awaited' : q \in awaited /\ request'[q].by = request[q].by
      BY <1>0, <1>4, OfTheSame DEF Deliver, Returns, ContextTypeOK
    <2>2. UNCHANGED <<listening, subscribed>>
      BY <1>4 DEF Deliver, Returns, onBus
    <2>3. QED
      BY <1>0, <2>1, <2>2 DEF ListensInv
  <1>5. CASE UNCHANGED <<listening, subscribed, awaited, request>>
    BY <1>0, <1>5 DEF ListensInv
  <1>6. QED
    BY <1>1, <1>2, <1>3, <1>4, <1>5
       DEF ContextNext, contextVars, onBus, waiting, Load, Activate, SetupEnds, StartsTask, TaskEnds, HandlerStarts, HandlerEnds, HandlerSubscribes, Reply

\* A step that leaves a context's requests and coroutines alone, or adds to these.
WaitsAt(c, who) == Cardinality(Waiting(c, who)) <= Active(c, who)

LEMMA WaitsUntouched ==
    ASSUME NEW c, NEW who, WaitsAt(c, who), Waiting(c, who)' = Waiting(c, who), Active(c, who)' >= Active(c, who),
           Cardinality(Waiting(c, who)) \in Nat, Active(c, who)' \in Nat, Active(c, who) \in Nat
    PROVE  WaitsAt(c, who)'
  BY DEF WaitsAt

\* Every setup() that waits is counted.
LEMMA WaitsKept ==
    ASSUME ContextInv, [ContextNext]_contextVars, NEW c \in Context, NEW who \in Caller
    PROVE  WaitsAt(c, who)'
  <1>0. /\ ContextTypeOK /\ WaitsAt(c, who) /\ (entry # "none" => loaded \in Context)
        /\ request \in [Request -> RequestRec] /\ setups \in [Context -> SetupRec]
        /\ setups[c].old \in Nat /\ handlings[c] \in Nat /\ Active(c, who) \in Nat
    <2>1. entry # "none" => loaded \in Context
      BY ContextAssumption DEF ContextInv, MadeInOrder, ContextTypeOK, Context
    <2>2. ContextTypeOK /\ WaitsAt(c, who)
      BY DEF ContextInv, WaitingInv, WaitsAt
    <2>3. QED
      BY <2>1, <2>2 DEF ContextTypeOK, RequestRec, SetupRec, Future, Active
  <1>a. IsFiniteSet(Waiting(c, who)) /\ Cardinality(Waiting(c, who)) \in Nat /\ Active(c, who)' \in Nat
    <2>1. Waiting(c, who) \subseteq Request
      BY DEF Waiting
    <2>2. QED
      BY <2>1, ContextAssumption, FS_Subset, FS_CardinalityType, ContextTypes DEF ContextTypeOK, Active
  <1>1. ASSUME UNCHANGED request, setups'[c].old = setups[c].old, handlings'[c] = handlings[c]
        PROVE  WaitsAt(c, who)'
    BY <1>0, <1>1 DEF WaitsAt, Waiting, Active
  <1>2. ASSUME Unload \/ Disable PROVE WaitsAt(c, who)'
    <2>1. UNCHANGED <<setups, handlings>> /\ \A r \in Request :
              /\ request'[r].by = request[r].by /\ request'[r].caller = request[r].caller
              /\ request'[r].result = request[r].result
      BY <1>0, <1>2 DEF Unload, Disable, Dispose, Cancelled, RequestRec, Future
    <2>2. QED
      BY <1>0, <2>1 DEF WaitsAt, Waiting, Active
  <1>3. ASSUME NEW n \in {1, 2}, Activate(n) PROVE WaitsAt(c, who)'
    <2>1. setups'[c].old = setups[c].old /\ UNCHANGED <<request, handlings>>
      BY <1>0, <1>3 DEF Activate, SetupRec, waiting
    <2>2. QED
      BY <1>1, <2>1
  <1>4. ASSUME NEW d \in Context, NEW ok \in BOOLEAN, SetupEnds(d, ok) PROVE WaitsAt(c, who)'
    <2>1. UNCHANGED <<request, handlings>>
      BY <1>4 DEF SetupEnds, waiting
    <2>2. CASE setups'[c].old = setups[c].old \/ who # "setup"
      BY <1>0, <2>1, <2>2 DEF WaitsAt, Waiting, Active
    <2>3. CASE setups'[c].old # setups[c].old /\ who = "setup"
      <3>1. c = d /\ Free(c, who) /\ setups'[c].old = setups[c].old - 1
        BY <1>0, <1>4, <2>3 DEF SetupEnds, SetupRec
      <3>2. Cardinality(Waiting(c, who)) < setups[c].old
        BY <3>1, <1>0, <1>a, <2>3 DEF Free, Active
      <3>3. QED
        BY <1>0, <1>a, <2>1, <2>3, <3>1, <3>2 DEF WaitsAt, Waiting, Active
    <2>4. QED
      BY <2>2, <2>3
  <1>5. ASSUME NEW d \in Context, SetupSubscribes(d) PROVE WaitsAt(c, who)'
    <2>1. UNCHANGED <<request, handlings>> /\ setups'[c].old >= setups[c].old
      BY <1>0, <1>5 DEF SetupSubscribes, waiting, SetupRec
    <2>2. Active(c, who)' >= Active(c, who) /\ Waiting(c, who)' = Waiting(c, who)
      BY <1>0, <2>1 DEF Active, Waiting
    <2>3. QED
      BY <1>0, <1>a, <2>2, WaitsUntouched
  <1>h. ASSUME NEW d \in Context, HandlerStarts(d) PROVE WaitsAt(c, who)'
    <2>1. UNCHANGED <<request, setups>> /\ handlings'[c] >= handlings[c]
      BY <1>0, <1>h DEF HandlerStarts, waiting, ContextTypeOK
    <2>2. Active(c, who)' >= Active(c, who) /\ Waiting(c, who)' = Waiting(c, who)
      BY <1>0, <2>1 DEF Active, Waiting
    <2>3. QED
      BY <1>0, <1>a, <2>2, WaitsUntouched
  <1>i. ASSUME NEW d \in Context, HandlerEnds(d) PROVE WaitsAt(c, who)'
    <2>1. UNCHANGED <<request, setups>> /\ Waiting(c, who)' = Waiting(c, who)
      BY <1>i DEF HandlerEnds, waiting, Waiting
    <2>2. CASE c = d /\ who = "handler"
      <3>1. Cardinality(Waiting(c, who)) < handlings[c] /\ handlings'[c] = handlings[c] - 1
        BY <1>0, <1>i, <2>2 DEF HandlerEnds, Free, Active, ContextTypeOK
      <3>2. QED
        BY <1>0, <1>a, <2>1, <2>2, <3>1 DEF WaitsAt, Active
    <2>3. CASE ~(c = d /\ who = "handler")
      <3>1. Active(c, who)' = Active(c, who)
        BY <1>0, <1>i, <2>1, <2>3 DEF HandlerEnds, Active, ContextTypeOK, Caller
      <3>2. QED
        BY <1>0, <2>1, <3>1 DEF WaitsAt
    <2>4. QED
      BY <2>2, <2>3
  <1>6. ASSUME NEW d \in Context, NEW r \in Request, NEW caller \in Caller, Ask(d, r, caller)
        PROVE  WaitsAt(c, who)'
    <2>1. /\ UNCHANGED <<setups, handlings>> /\ request[r] = NoRequest /\ r \notin Waiting(c, who)
          /\ request' = [request EXCEPT ![r] = [by |-> d, caller |-> caller, future |-> "pending", result |-> "none"]]
      BY <1>6 DEF Ask, running, Waiting, NoRequest, Caller
    <2>2. CASE d = c /\ caller = who
      <3>1. Waiting(c, who)' = Waiting(c, who) \cup {r}
        BY <1>0, <2>1, <2>2 DEF Waiting
      <3>2. Cardinality(Waiting(c, who)) < Active(c, who)
        BY <1>6, <2>2 DEF Ask, Free
      <3>3. Cardinality(Waiting(c, who)') = Cardinality(Waiting(c, who)) + 1
        BY <1>a, <2>1, <3>1, FS_AddElement
      <3>4. QED
        BY <1>0, <1>a, <2>1, <3>2, <3>3 DEF WaitsAt, Active
    <2>3. CASE ~(d = c /\ caller = who)
      <3>1. Waiting(c, who)' = Waiting(c, who)
        BY <1>0, <2>1, <2>3 DEF Waiting
      <3>2. QED
        BY <1>0, <2>1, <3>1 DEF WaitsAt, Active
    <2>4. QED
      BY <2>2, <2>3
  <1>7. ASSUME NEW r \in Request, Deliver(r) PROVE WaitsAt(c, who)'
    <2>1. UNCHANGED <<setups, handlings>> /\ \A q \in Request :
              /\ request'[q].by = request[q].by /\ request'[q].caller = request[q].caller
              /\ request'[q].result = request[q].result
      BY <1>0, <1>7 DEF Deliver, running, RequestRec, Future
    <2>2. QED
      BY <1>0, <2>1 DEF WaitsAt, Waiting, Active
  <1>8. ASSUME NEW r \in Request, NEW result \in {"reply", "timeout", "cancelled"}, Returns(r, result)
        PROVE  WaitsAt(c, who)'
    <2>1. \A q \in Request : /\ request'[q].by = request[q].by /\ request'[q].caller = request[q].caller
                             /\ request'[q].result = IF q = r THEN result ELSE request[q].result
      BY <1>0, <1>8 DEF Returns, RequestRec, Future
    <2>2. Waiting(c, who)' = Waiting(c, who) \ {r}
      BY <2>1 DEF Waiting
    <2>3. CASE r \in Waiting(c, who)
      <3>1. Cardinality(Waiting(c, who)') = Cardinality(Waiting(c, who)) - 1
        BY <1>a, <2>2, <2>3, FS_RemoveElement
      <3>2. Active(c, who)' >= Active(c, who) - 1
        BY <1>0, <1>8 DEF Returns, SetupRec, Active, ContextTypeOK
      <3>3. QED
        BY <1>0, <1>a, <3>1, <3>2 DEF WaitsAt
    <2>4. CASE r \notin Waiting(c, who)
      <3>1. Waiting(c, who)' = Waiting(c, who)
        BY <2>2, <2>4
      <3>2. Active(c, who)' = Active(c, who)
        BY <1>0, <1>8, <2>4 DEF Returns, Waiting, Active, SetupRec, ContextTypeOK, Caller
      <3>3. QED
        BY <1>0, <3>1, <3>2 DEF WaitsAt
    <2>5. QED
      BY <2>3, <2>4
  <1>9. QED
    BY <1>1, <1>2, <1>3, <1>4, <1>5, <1>h, <1>i, <1>6, <1>7, <1>8
       DEF ContextNext, contextVars, running, waiting, Load, StartsTask, TaskEnds, HandlerSubscribes, Reply

\* No future that is done is set.
LEMMA NoneRaised ==
    ASSUME ContextInv, [ContextNext]_contextVars, NEW q \in Request
    PROVE  request'[q].future # "raised"
  <1>0. request \in [Request -> RequestRec] /\ request[q].future # "raised" /\ request[q] \in RequestRec
    BY DEF ContextInv, WaitingInv, ContextTypeOK, RequestRec, Future
  <1>1. ASSUME Unload \/ Disable PROVE request'[q].future # "raised"
    BY <1>0, <1>1 DEF Unload, Disable, Dispose, Cancelled, RequestRec, Future
  <1>2. ASSUME NEW c \in Context, NEW r \in Request, NEW caller \in Caller, Ask(c, r, caller)
        PROVE  request'[q].future # "raised"
    BY <1>0, <1>2 DEF Ask
  <1>3. ASSUME NEW r \in Request, Deliver(r) PROVE request'[q].future # "raised"
    BY <1>0, <1>3 DEF Deliver, Settled, SetResult, RequestRec, Future
  <1>4. ASSUME NEW r \in Request, NEW result \in {"reply", "timeout", "cancelled"}, Returns(r, result)
        PROVE  request'[q].future # "raised"
    BY <1>0, <1>4 DEF Returns, RequestRec, Future
  <1>5. CASE UNCHANGED request
    BY <1>0, <1>5
  <1>6. QED
    BY <1>1, <1>2, <1>3, <1>4, <1>5
       DEF ContextNext, contextVars, waiting, Load, Activate, SetupEnds, SetupSubscribes, StartsTask, TaskEnds,
           HandlerStarts, HandlerEnds, HandlerSubscribes, Reply

\* A request is by a context from its beginning on.
LEMMA AskedKept ==
    ASSUME ContextInv, [ContextNext]_contextVars, NEW q \in Request
    PROVE  request'[q].by = 0 <=> request'[q] = NoRequest
  <1>0. /\ request \in [Request -> RequestRec] /\ (request[q].by = 0 <=> request[q] = NoRequest)
        /\ NoRequest.by = 0 /\ NoRequest.future = "none" /\ request[q] \in RequestRec
    BY DEF ContextInv, WaitingInv, ContextTypeOK, RequestRec, Future, NoRequest
  <1>1. ASSUME UNCHANGED request PROVE request'[q].by = 0 <=> request'[q] = NoRequest
    BY <1>0, <1>1
  <1>2. ASSUME request'[q].by = request[q].by, request[q] = NoRequest => request'[q] = NoRequest
        PROVE  request'[q].by = 0 <=> request'[q] = NoRequest
    BY <1>0, <1>2
  <1>3. ASSUME Unload \/ Disable PROVE request'[q].by = request[q].by /\ (request[q] = NoRequest => request'[q] = NoRequest)
    BY <1>0, <1>3 DEF Unload, Disable, Dispose, Cancelled, RequestRec, Future
  <1>4. ASSUME NEW c \in Context, NEW r \in Request, NEW caller \in Caller, Ask(c, r, caller)
        PROVE  request'[q].by = 0 <=> request'[q] = NoRequest
    <2>1. CASE q = r
      <3>1. request'[q].by = c /\ c # 0
        BY <1>0, <1>4, <2>1, ContextAssumption DEF Ask, Context
      <3>2. QED
        BY <1>0, <3>1
    <2>2. CASE q # r
      BY <1>0, <1>4, <2>2 DEF Ask
    <2>3. QED
      BY <2>1, <2>2
  <1>5. ASSUME NEW r \in Request, Deliver(r)
        PROVE  request'[q].by = request[q].by /\ (request[q] = NoRequest => request'[q] = NoRequest)
    BY <1>0, <1>5 DEF Deliver, Settled, RequestRec
  <1>6. ASSUME NEW r \in Request, NEW result \in {"reply", "timeout", "cancelled"}, Returns(r, result)
        PROVE  request'[q].by = request[q].by /\ (request[q] = NoRequest => request'[q] = NoRequest)
    <2>1. q = r => request[q] # NoRequest
      BY <1>0, <1>6 DEF Returns
    <2>2. QED
      BY <1>0, <1>6, <2>1 DEF Returns, RequestRec
  <1>7. QED
    BY <1>1, <1>2, <1>3, <1>4, <1>5, <1>6
       DEF ContextNext, contextVars, waiting, Load, Activate, SetupEnds, SetupSubscribes, StartsTask, TaskEnds, HandlerStarts, HandlerEnds, HandlerSubscribes, Reply

-----------------------------------------------------------------------------

LEMMA ContextStarts == ContextInit => ContextInv
  <1> SUFFICES ASSUME ContextInit PROVE ContextInv
    OBVIOUS
  <1>1. ContextTypeOK
    BY ContextAssumption DEF ContextInit, ContextTypeOK, NoRequest, Context
  <1>2. \A c \in Context, caller \in Caller : Waiting(c, caller) = {}
    BY DEF ContextInit, Waiting, NoRequest, Caller
  <1>3. WaitingInv
    <2>1. \A c \in Context, caller \in Caller : Cardinality(Waiting(c, caller)) = 0 /\ Active(c, caller) = 0
      BY <1>2, FS_EmptySet DEF ContextInit, Active
    <2>2. QED
      BY <2>1 DEF ContextInit, WaitingInv, NoRequest
  <1>4. MadeInOrder /\ OnlyWhatIsLeft /\ ListensInv
    BY DEF ContextInit, MadeInOrder, OnlyWhatIsLeft, ListensInv, Setting, NoRequest
  <1>5. BusInv /\ Hears
    BY DEF ContextInit, BusInv, Hears, Registered, OnTheBus
  <1>6. QED
    BY <1>1, <1>3, <1>4, <1>5 DEF ContextInv

LEMMA ContextKept == ContextInv /\ [ContextNext]_contextVars => ContextInv'
  <1> SUFFICES ASSUME ContextInv, [ContextNext]_contextVars PROVE ContextInv'
    OBVIOUS
  <1>1. ContextTypeOK' /\ MadeInOrder' /\ ListensInv'
    BY ContextTypes, OrderKept, ListensKept
  <1>2. OnlyWhatIsLeft'
    BY OnlyKept DEF OnlyWhatIsLeft, OnlyAt
  <1>3. WaitingInv'
    BY WaitsKept, AskedKept, NoneRaised DEF WaitingInv, WaitsAt
  <1>4. BusByNameInv'
    BY BusKept DEF BusByNameInv
  <1>5. BusInv' /\ Hears'
    BY <1>1, <1>4, BusByName, PTL
  <1>6. QED
    BY <1>1, <1>2, <1>3, <1>5 DEF ContextInv

\* Contexts, requests and the bus keep their types.
THEOREM ContextTypeCorrect == ContextSpec => []ContextTypeOK
  <1>1. ContextInv => ContextTypeOK
    BY DEF ContextInv
  <1>2. QED
    BY <1>1, ContextStarts, ContextKept, PTL DEF ContextSpec

\* Callbacks run once each for the context that is registered, a context that
\* was disposed of is quiet but for code that outlived that, no request of a
\* registered one waits without a listener, and no reply comes to a future that
\* is done.
THEOREM ContextCorrect == ContextSpec => []ContextSettles
  <1>1. ContextInv => ContextSettles
    <2> SUFFICES ASSUME ContextInv PROVE ContextSettles
      OBVIOUS
    <2>1. DisposedIsQuiet
      BY DEF ContextInv, OnlyWhatIsLeft, BusInv, DisposedIsQuiet
    <2>2. WaitsWithAListener
      <3> SUFFICES ASSUME NEW r \in awaited, Registered(request[r].by)
                   PROVE  OnTheBus("reply") \cap (left \cup {request[r].by}) # {}
        BY DEF WaitsWithAListener
      <3>1. request[r].by \in Context /\ "reply" \in subscribed[request[r].by]
        BY DEF ContextInv, ListensInv, ContextTypeOK
      <3>2. QED
        BY <3>1 DEF ContextInv, Hears, Key
    <2>3. \A r \in Request : request[r].future # "raised"
      BY DEF ContextInv, WaitingInv
    <2>4. QED
      BY <2>1, <2>2, <2>3 DEF ContextInv, ContextSettles
  <1>2. QED
    BY <1>1, ContextStarts, ContextKept, PTL DEF ContextSpec

-----------------------------------------------------------------------------
(* Streams: what was sent to a client or waits for it is in the order it   *)
(* was published, of what was published since it connected, and lacks      *)
(* nothing.                                                                *)

\* What a connection has been sent and what waits in its queue.
SentTo(s)    == Range(stream[s].sent)
QueuedFor(s) == Range(stream[s].queue) \ {Close}

\* Where a connection stands, in the set of queues and among the events.
PlacedInv(s) ==
    /\ stream[s].stage = "none" => s \notin listeners /\ stream[s].queue = <<>>
    /\ stream[s].stage \in {"none", "opened", "leaked"} => stream[s].sent = <<>>
    /\ s \in listeners => stream[s].stage \in {"opened", "streaming", "leaked"}
    /\ stream[s].since <= Len(published)
    /\ stream[s].stage # "none" => LastFor(s) <= Len(published)

\* Events wait and were sent in their order, of those since it connected.
OrderedInv(s) ==
    /\ InOrder(stream[s].sent) /\ InOrder(stream[s].queue)
    /\ \A i \in SentTo(s) : \A j \in QueuedFor(s) : i < j
    /\ SentTo(s) \cup QueuedFor(s) \subseteq stream[s].since + 1 .. LastFor(s)

\* What was sent is for the user; what is due was sent or waits, or the connection
\* has ended and what was due before the last event it was sent was sent.
WholeInv(s) ==
    /\ \A i \in SentTo(s) : published[i] = "restricted" \/ Entitled(stream[s].user, published[i])
    /\ stream[s].stage \in {"opened", "streaming"} => Due(s) \subseteq SentTo(s) \cup QueuedFor(s)
    /\ stream[s].stage \in {"reconnect", "gone"} =>
          \A i \in SentTo(s) : \A j \in Due(s) : j < i => j \in SentTo(s)

StreamInv(s) == PlacedInv(s) /\ OrderedInv(s) /\ WholeInv(s)

StreamsInv == StreamsTypeOK /\ \A s \in Stream : StreamInv(s)

-----------------------------------------------------------------------------
(* Queues.                                                                 *)

Stage == {"none", "opened", "streaming", "reconnect", "gone", "leaked"}

StreamRec == [user : Viewers, queue : Seq(0..Forwards), sent : Seq(1..Forwards),
              stage : Stage, since : 0..Forwards, until : 0..Forwards]

\* A message at the end of a queue.
LEMMA PutLast ==
    ASSUME NEW q \in Seq(Nat), NEW m \in Nat
    PROVE  /\ Range(Append(q, m)) = Range(q) \cup {m}
           /\ InOrder(q) /\ (m # Close => \A i \in Range(q) : i < m) => InOrder(Append(q, m))
  <1> DEFINE new == Append(q, m)
  <1>1. /\ new \in Seq(Nat) /\ Len(new) = Len(q) + 1 /\ Len(q) \in Nat
        /\ DOMAIN new = 1..Len(q) + 1 /\ DOMAIN q = 1..Len(q)
        /\ new[Len(q) + 1] = m /\ \A i \in 1..Len(q) : new[i] = q[i] /\ q[i] \in Nat
    OBVIOUS
  <1> HIDE DEF new
  <1>2. Range(new) = Range(q) \cup {m}
    BY SMTT(40), <1>1 DEF Range
  <1>3. ASSUME InOrder(q), m # Close => \A i \in Range(q) : i < m PROVE InOrder(new)
    <2>1. \A i \in 1..Len(q) : m # Close => new[i] < m
      BY <1>1, <1>3 DEF Range
    <2>2. \A i, j \in 1..Len(q) : i < j /\ new[j] # Close => new[i] < new[j]
      BY <1>1, <1>3 DEF InOrder
    <2>3. \A i, j \in DOMAIN new : i < j => i \in 1..Len(q) /\ (j \in 1..Len(q) \/ j = Len(q) + 1)
      BY <1>1
    <2>4. QED
      BY <1>1, <2>1, <2>2, <2>3 DEF InOrder
  <1>4. QED
    BY <1>2, <1>3 DEF new

\* The rest of a queue.
LEMMA TailType ==
    ASSUME NEW S, NEW q \in Seq(S), q # <<>>
    PROVE  Tail(q) \in Seq(S) /\ Len(Tail(q)) = Len(q) - 1
  OBVIOUS

\* A message taken from the front of a queue.
LEMMA TakeFirst ==
    ASSUME NEW q \in Seq(Nat), q # <<>>
    PROVE  /\ Head(q) \in Nat /\ Range(q) = {Head(q)} \cup Range(Tail(q))
           /\ InOrder(q) => InOrder(Tail(q)) /\ \A j \in Range(Tail(q)) : j # Close => Head(q) < j
  <1> DEFINE rest == Tail(q)
  <1>1. /\ Len(q) \in Nat /\ Len(q) >= 1 /\ DOMAIN q = 1..Len(q) /\ Head(q) = q[1]
        /\ \A i \in 1..Len(q) : q[i] \in Nat
        /\ DOMAIN rest = 1..Len(q) - 1 /\ \A i \in 1..Len(q) - 1 : rest[i] = q[i + 1]
    OBVIOUS
  <1> HIDE DEF rest
  <1>2. \A i \in 1..Len(q) - 1 : i + 1 \in 1..Len(q) /\ 1 < i + 1
    BY <1>1
  <1>3. \A i \in 1..Len(q) : i = 1 \/ (i - 1 \in 1..Len(q) - 1 /\ i = (i - 1) + 1)
    BY <1>1
  <1>4. Range(q) = {Head(q)} \cup Range(rest)
    <2>1. ASSUME NEW i \in 1..Len(q) PROVE q[i] = q[1] \/ q[i] \in Range(rest)
      <3>1. CASE i = 1
        BY <3>1
      <3>2. CASE i # 1
        <4>1. i - 1 \in DOMAIN rest /\ rest[i - 1] = q[(i - 1) + 1] /\ (i - 1) + 1 = i
          BY <1>1, <1>3, <3>2
        <4>2. QED
          BY <4>1 DEF Range
      <3>3. QED
        BY <3>1, <3>2
    <2>2. ASSUME NEW i \in DOMAIN rest PROVE rest[i] \in Range(q)
      <3>1. i + 1 \in DOMAIN q /\ rest[i] = q[i + 1]
        BY <1>1, <1>2
      <3>2. QED
        BY <3>1 DEF Range
    <2>3. q[1] \in Range(q)
      BY <1>1 DEF Range
    <2>4. QED
      BY <1>1, <2>1, <2>2, <2>3 DEF Range
  <1>5. ASSUME InOrder(q) PROVE InOrder(rest) /\ \A j \in Range(rest) : j # Close => Head(q) < j
    <2>1. \A i, j \in 1..Len(q) - 1 : i < j => i + 1 < j + 1
      BY <1>1
    <2>2. InOrder(rest)
      BY <1>1, <1>2, <1>5, <2>1 DEF InOrder
    <2>3. \A i \in 1..Len(q) - 1 : rest[i] # Close => q[1] < rest[i]
      <3>1. 1 \in DOMAIN q
        BY <1>1
      <3>2. QED
        BY <1>1, <1>2, <1>5, <3>1 DEF InOrder
    <2>4. QED
      BY <1>1, <2>2, <2>3 DEF Range
  <1>6. QED
    BY <1>1, <1>4, <1>5 DEF rest

-----------------------------------------------------------------------------
(* Types.                                                                  *)

\* Records with a field changed.
LEMMA StreamsMade ==
    ASSUME NEW x \in StreamRec
    PROVE  /\ \A q \in Seq(0..Forwards) : [x EXCEPT !.queue = q] \in StreamRec
           /\ \A q \in Seq(0..Forwards), t \in Seq(1..Forwards) : [x EXCEPT !.queue = q, !.sent = t] \in StreamRec
           /\ \A n \in 0..Forwards : [x EXCEPT !.until = n] \in StreamRec
           /\ \A g \in Stage : [x EXCEPT !.stage = g] \in StreamRec
           /\ \A g \in Stage, n \in 0..Forwards : [x EXCEPT !.stage = g, !.until = n] \in StreamRec
           /\ \A u \in Viewers, g \in Stage, n \in 0..Forwards :
                 [x EXCEPT !.user = u, !.stage = g, !.since = n] \in StreamRec
  BY DEF StreamRec

\* What the types say of one connection.
LEMMA StreamTypes ==
    ASSUME StreamsTypeOK, NEW s \in Stream
    PROVE  /\ stream[s] \in StreamRec
           /\ stream[s].queue \in Seq(Nat) /\ stream[s].sent \in Seq(Nat)
           /\ stream[s].queue \in Seq(0..Forwards) /\ stream[s].sent \in Seq(1..Forwards)
           /\ \A i \in Range(stream[s].queue) : i \in Nat
           /\ \A i \in Range(stream[s].sent) : i \in Nat /\ i >= 1
           /\ stream[s].since \in Nat /\ stream[s].until \in Nat
           /\ Len(published) \in Nat /\ Len(published) \in 0..Forwards
           /\ LastFor(s) \in Nat
  <1> USE StreamsAssumption
  <1>1. stream[s] \in StreamRec
    BY DEF StreamsTypeOK, StreamRec, Stage
  <1>2. stream[s].queue \in Seq(0..Forwards) /\ stream[s].sent \in Seq(1..Forwards)
    BY <1>1 DEF StreamRec
  <1>3. stream[s].queue \in Seq(Nat) /\ stream[s].sent \in Seq(Nat)
    BY <1>2
  <1>4. \A i \in Range(stream[s].queue) : i \in Nat
    BY <1>2 DEF Range
  <1>5. \A i \in Range(stream[s].sent) : i \in Nat /\ i >= 1
    BY <1>2 DEF Range
  <1>6. Len(published) \in 0..Forwards
    BY DEF StreamsTypeOK
  <1>7. stream[s].since \in Nat /\ stream[s].until \in 0..Forwards
    BY <1>1 DEF StreamRec
  <1>8. QED
    BY <1>1, <1>2, <1>3, <1>4, <1>5, <1>6, <1>7 DEF LastFor

\* A message put into every queue.
LEMMA ToAllTypes ==
    ASSUME StreamsTypeOK, NEW m \in 0..Forwards
    PROVE  /\ ToAll(m) \in [Stream -> StreamRec]
           /\ \A s \in Stream : Len(ToAll(m)[s].queue) <= QueueSize
  <1> USE StreamsAssumption
  <1> SUFFICES ASSUME NEW s \in Stream PROVE ToAll(m)[s] \in StreamRec /\ Len(ToAll(m)[s].queue) <= QueueSize
    BY DEF ToAll
  <1>1. stream[s] \in StreamRec /\ stream[s].queue \in Seq(0..Forwards) /\ Len(published) \in 0..Forwards
    BY StreamTypes
  <1>2. Append(stream[s].queue, m) \in Seq(0..Forwards) /\ Len(Append(stream[s].queue, m)) = Len(stream[s].queue) + 1
        /\ Len(stream[s].queue) \in Nat
    BY <1>1
  <1>3. CASE s \in listeners /\ ~Full(s)
    <2>1. ToAll(m)[s] = [stream[s] EXCEPT !.queue = Append(stream[s].queue, m)]
      BY <1>3 DEF ToAll
    <2>2. ToAll(m)[s].queue = Append(stream[s].queue, m)
      BY <1>1, <2>1 DEF StreamRec
    <2>3. Len(stream[s].queue) + 1 <= QueueSize
      BY <1>2, <1>3 DEF Full
    <2>4. QED
      BY <1>1, <1>2, <2>1, <2>2, <2>3, StreamsMade
  <1>4. CASE s \notin listeners \/ Full(s)
    <2>1. ToAll(m)[s] \in {stream[s], [stream[s] EXCEPT !.until = Len(published)]}
      BY <1>4 DEF ToAll
    <2>2. ToAll(m)[s].queue = stream[s].queue
      BY <1>1, <2>1 DEF StreamRec
    <2>3. Len(stream[s].queue) <= QueueSize
      BY DEF StreamsTypeOK
    <2>4. QED
      BY <1>1, <2>1, <2>2, <2>3, StreamsMade
  <1>5. QED
    BY <1>3, <1>4

\* Every step keeps the types; that what is sent is no hint to reconnect is the
\* guard of the generator.
LEMMA StreamsTypes == StreamsTypeOK /\ [StreamsNext]_streamVars => StreamsTypeOK'
  <1> SUFFICES ASSUME StreamsTypeOK, [StreamsNext]_streamVars PROVE StreamsTypeOK'
    OBVIOUS
  <1> USE StreamsAssumption
  <1> DEFINE Typed == stream' \in [Stream -> StreamRec] /\ \A s \in Stream : Len(stream'[s].queue) <= QueueSize
  <1>a. /\ stream \in [Stream -> StreamRec] /\ Len(published) \in 0..Forwards
        /\ \A s \in Stream : Len(stream[s].queue) <= QueueSize
    BY DEF StreamsTypeOK, StreamRec, Stage
  <1>b. ASSUME Typed, published' = published, permitted' \subseteq Viewers, listeners' \subseteq Stream
        PROVE StreamsTypeOK'
    BY <1>b DEF StreamsTypeOK, StreamRec, Stage
  <1>c. ASSUME NEW s \in Stream, NEW x \in StreamRec, stream' = [stream EXCEPT ![s] = x], Len(x.queue) <= QueueSize
        PROVE Typed
    BY <1>a, <1>c
  <1> HIDE DEF Typed
  <1>1. ASSUME NEW topic \in Topics, Publish(topic) PROVE StreamsTypeOK'
    <2>1. Len(published) + 1 \in 0..Forwards
      BY <1>1, <1>a DEF Publish
    <2>2. Typed
      BY <1>1, <2>1, ToAllTypes DEF Publish, Typed
    <2>3. published' \in Seq(Topics) /\ Len(published') = Len(published) + 1
      BY <1>1 DEF Publish, StreamsTypeOK
    <2>4. listeners' \subseteq Stream
      BY <1>1 DEF Publish, LetsGoOfFull, StreamsTypeOK
    <2>5. QED
      BY <1>1, <2>1, <2>2, <2>3, <2>4 DEF Publish, StreamsTypeOK, StreamRec, Stage, Typed
  <1>2. CASE CloseAllStreams
    <2>1. Close \in 0..Forwards
      BY DEF Close
    <2>2. Typed
      BY <1>2, <2>1, ToAllTypes DEF CloseAllStreams, Typed
    <2>3. QED
      BY <1>2, <1>b, <2>2 DEF CloseAllStreams, LetsGoOfFull, StreamsTypeOK
  <1>3. CASE PermissionChanges
    <2>1. Typed
      BY <1>3, <1>a DEF PermissionChanges, Typed
    <2>2. QED
      BY <1>3, <1>b, <2>1 DEF PermissionChanges, StreamsTypeOK, Viewers
  <1>4. ASSUME NEW s \in Stream, NEW user \in Viewers, Connect(s, user) PROVE StreamsTypeOK'
    <2> DEFINE x == [NoStream EXCEPT !.user = user, !.stage = "opened", !.since = Len(published)]
    <2>1. x \in StreamRec /\ x.queue = <<>>
      <3>1. <<>> \in Seq(0..Forwards) /\ <<>> \in Seq(1..Forwards) /\ Forwards \in 0..Forwards
        OBVIOUS
      <3>2. NoStream \in StreamRec /\ NoStream.queue = <<>>
        BY <3>1 DEF NoStream, StreamRec, Stage, Viewers
      <3>3. "opened" \in Stage /\ x.queue = NoStream.queue
        BY <3>2 DEF StreamRec, Stage
      <3>4. QED
        BY <1>a, <3>2, <3>3, StreamsMade
    <2>2. Len(x.queue) <= QueueSize
      BY <2>1
    <2>3. Typed
      BY <1>4, <1>c, <2>1, <2>2 DEF Connect
    <2>4. QED
      BY <1>4, <1>b, <2>3 DEF Connect, StreamsTypeOK
  <1>5. ASSUME NEW s \in Stream, Starts(s) \/ NeverStarts(s) PROVE StreamsTypeOK'
    <2>1. PICK g \in Stage : stream' = [stream EXCEPT ![s] = [stream[s] EXCEPT !.stage = g]]
      BY <1>5 DEF Starts, NeverStarts, Stage
    <2>2. [stream[s] EXCEPT !.stage = g] \in StreamRec /\ [stream[s] EXCEPT !.stage = g].queue = stream[s].queue
      <3>1. stream[s] \in StreamRec
        BY <1>a
      <3>2. [stream[s] EXCEPT !.stage = g].queue = stream[s].queue
        BY <3>1 DEF StreamRec
      <3>3. QED
        BY <3>1, <3>2, StreamsMade
    <2>3. Typed
      BY <1>a, <1>c, <2>1, <2>2
    <2>4. QED
      BY <1>5, <1>b, <2>3 DEF Starts, NeverStarts, StreamsTypeOK
  <1>6. ASSUME NEW s \in Stream, SendsNext(s) PROVE StreamsTypeOK'
    <2> DEFINE m == Head(stream[s].queue)
    <2>1. stream[s] \in StreamRec /\ stream[s].queue \in Seq(0..Forwards) /\ stream[s].sent \in Seq(1..Forwards)
      BY StreamTypes
    <2>2. m \in 1..Forwards /\ Tail(stream[s].queue) \in Seq(0..Forwards)
          /\ Len(Tail(stream[s].queue)) = Len(stream[s].queue) - 1
      <3>1. stream[s].queue # <<>> /\ m # 0
        BY <1>6 DEF SendsNext, Close
      <3>2. m \in 0..Forwards
        BY <2>1, <3>1
      <3>3. Tail(stream[s].queue) \in Seq(0..Forwards) /\ Len(Tail(stream[s].queue)) = Len(stream[s].queue) - 1
        BY <2>1, <3>1, TailType
      <3>4. QED
        BY <3>1, <3>2, <3>3
    <2>3. PICK t \in Seq(1..Forwards) :
             stream' = [stream EXCEPT ![s] = [stream[s] EXCEPT !.queue = Tail(stream[s].queue), !.sent = t]]
      <3>1. Append(stream[s].sent, m) \in Seq(1..Forwards)
        BY <2>1, <2>2
      <3>2. QED
        BY <1>6, <2>1, <3>1 DEF SendsNext
    <2> DEFINE x == [stream[s] EXCEPT !.queue = Tail(stream[s].queue), !.sent = t]
    <2>4. x \in StreamRec /\ x.queue = Tail(stream[s].queue)
      <3>1. x.queue = Tail(stream[s].queue)
        BY <2>1 DEF StreamRec
      <3>2. QED
        BY <2>1, <2>2, <3>1, StreamsMade
    <2>5. Len(x.queue) <= QueueSize
      <3>1. Len(stream[s].queue) <= QueueSize /\ Len(stream[s].queue) \in Nat
        BY <1>a, <2>1
      <3>2. QED
        BY <2>2, <2>4, <3>1
    <2>6. Typed
      BY <1>c, <2>3, <2>4, <2>5
    <2>7. QED
      BY <1>6, <1>b, <2>6 DEF SendsNext, StreamsTypeOK
  <1>7. ASSUME NEW s \in Stream, SendsClose(s) \/ Disconnects(s) PROVE StreamsTypeOK'
    <2>1. PICK g \in Stage : Leaves(s, g)
      BY <1>7 DEF SendsClose, Disconnects, Stage
    <2>2. stream[s] \in StreamRec /\ stream[s].until \in 0..Forwards
      BY <1>a DEF StreamRec
    <2>3. PICK n \in 0..Forwards : stream' = [stream EXCEPT ![s] = [stream[s] EXCEPT !.stage = g, !.until = n]]
      BY <1>a, <2>1, <2>2 DEF Leaves
    <2> DEFINE x == [stream[s] EXCEPT !.stage = g, !.until = n]
    <2>4. x \in StreamRec /\ x.queue = stream[s].queue
      <3>1. x.queue = stream[s].queue
        BY <2>2 DEF StreamRec
      <3>2. QED
        BY <2>2, <3>1, StreamsMade
    <2>5. Typed
      BY <1>a, <1>c, <2>3, <2>4
    <2>6. QED
      BY <1>7, <1>b, <2>1, <2>5 DEF SendsClose, Disconnects, Leaves, StreamsTypeOK
  <1>8. CASE UNCHANGED streamVars
    BY <1>8 DEF streamVars, StreamsTypeOK
  <1>9. QED
    BY <1>1, <1>2, <1>3, <1>4, <1>5, <1>6, <1>7, <1>8 DEF StreamsNext

-----------------------------------------------------------------------------
(* What a connection gets.                                                 *)

\* A connection that a step does not touch: events that are published meanwhile
\* are none of its own.
LEMMA Apart ==
    ASSUME StreamsTypeOK, NEW s \in Stream, StreamInv(s),
           stream'[s] = stream[s], (s \in listeners)' <=> s \in listeners,
           \/ published' = published
           \/ s \notin listeners /\ \E topic \in Topics : published' = Append(published, topic)
    PROVE  StreamInv(s)'
  <1>a. /\ Len(published) \in Nat /\ published \in Seq(Topics) /\ LastFor(s) \in Nat /\ stream[s].since \in Nat
        /\ \A i \in Range(stream[s].sent) : i \in Nat
    BY StreamTypes DEF StreamsTypeOK
  <1>b. Len(published') \in Nat /\ Len(published) <= Len(published')
        /\ \A i \in 1..Len(published) : published'[i] = published[i]
    BY <1>a
  <1>1. LastFor(s)' = LastFor(s) /\ (stream[s].stage # "none" => LastFor(s) <= Len(published))
    BY DEF LastFor, StreamInv, PlacedInv
  <1>2. SentTo(s)' = SentTo(s) /\ QueuedFor(s)' = QueuedFor(s)
    BY DEF SentTo, QueuedFor
  <1>3. PlacedInv(s)'
    BY <1>a, <1>b, <1>1 DEF PlacedInv, StreamInv
  <1>4. OrderedInv(s)'
    BY <1>1, <1>2 DEF OrderedInv, StreamInv
  <1>5. ASSUME stream[s].stage = "none" PROVE WholeInv(s)'
    <2>1. SentTo(s) = {}
      BY <1>5 DEF StreamInv, PlacedInv, SentTo, Range
    <2>2. QED
      BY <1>2, <1>5, <2>1 DEF WholeInv
  <1>6. ASSUME stream[s].stage # "none" PROVE WholeInv(s)'
    <2>1. \A i \in SentTo(s) : i \in 1..Len(published)
      BY <1>a, <1>1, <1>6 DEF StreamInv, OrderedInv
    <2>2. Due(s)' = Due(s)
      <3>1. \A i \in stream[s].since + 1 .. LastFor(s) : published'[i] = published[i]
        BY <1>a, <1>b, <1>1, <1>6
      <3>2. QED
        BY <1>1, <3>1 DEF Due
    <2>3. QED
      BY <1>b, <1>2, <2>1, <2>2 DEF WholeInv, StreamInv
  <1>7. QED
    BY <1>3, <1>4, <1>5, <1>6 DEF StreamInv

\* A connection whose queue had no room: it is let go of, with what it has.
LEMMA LetGo ==
    ASSUME StreamsTypeOK, NEW s \in Stream, StreamInv(s), s \in listeners, s \notin listeners',
           NEW g, g \in {stream[s].stage} \/ (stream[s].stage = "streaming" /\ g \in {"reconnect", "gone"}),
           stream'[s] = [stream[s] EXCEPT !.stage = g, !.until = Len(published)],
           published' = published \/ \E topic \in Topics : published' = Append(published, topic)
    PROVE  StreamInv(s)'
  <1>a. /\ Len(published) \in Nat /\ published \in Seq(Topics) /\ LastFor(s) \in Nat /\ stream[s].since \in Nat
        /\ \A i \in Range(stream[s].sent) : i \in Nat
        /\ \A j \in Range(stream[s].queue) : j \in Nat
    BY StreamTypes DEF StreamsTypeOK
  <1>b. Len(published') \in Nat /\ Len(published) <= Len(published')
        /\ \A i \in 1..Len(published) : published'[i] = published[i]
    BY <1>a
  <1>c. stream[s] \in StreamRec
    BY StreamTypes
  <1>d. /\ stream'[s].stage = g /\ stream'[s].until = Len(published) /\ stream'[s].since = stream[s].since
        /\ stream'[s].sent = stream[s].sent /\ stream'[s].queue = stream[s].queue /\ stream'[s].user = stream[s].user
    BY <1>c DEF StreamRec
  <1>1. LastFor(s)' = LastFor(s) /\ LastFor(s) = Len(published)
    BY <1>d DEF LastFor
  <1>2. SentTo(s)' = SentTo(s) /\ QueuedFor(s)' = QueuedFor(s)
    BY <1>d DEF SentTo, QueuedFor
  <1>3. PlacedInv(s)'
    <2>1. stream[s].stage \in {"opened", "streaming", "leaked"}
      BY DEF StreamInv, PlacedInv
    <2>2. g \in {"opened", "leaked"} => stream[s].sent = <<>>
      BY <2>1 DEF StreamInv, PlacedInv
    <2>3. stream[s].since <= Len(published')
      BY <1>a, <1>b DEF StreamInv, PlacedInv
    <2>4. QED
      BY <1>a, <1>b, <1>d, <1>1, <2>1, <2>2, <2>3 DEF PlacedInv
  <1>4. OrderedInv(s)'
    BY <1>d, <1>1, <1>2 DEF OrderedInv, StreamInv
  <1>5. \A i \in SentTo(s) : i \in 1..Len(published)
    BY <1>a, <1>1 DEF StreamInv, OrderedInv
  <1>6. Due(s)' = Due(s)
    <2>1. \A i \in stream[s].since + 1 .. LastFor(s) : published'[i] = published[i]
      BY <1>a, <1>b, <1>1
    <2>2. QED
      BY <1>d, <1>1, <2>1 DEF Due
  <1>7. WholeInv(s)'
    <2>1. \A i \in SentTo(s) : published'[i] = "restricted" \/ Entitled(stream[s].user, published'[i])
      BY <1>b, <1>5 DEF StreamInv, WholeInv
    <2>2. g \in {"opened", "streaming"} => Due(s) \subseteq SentTo(s) \cup QueuedFor(s)
      BY DEF StreamInv, WholeInv
    <2>3. ASSUME g \in {"reconnect", "gone"}, NEW i \in SentTo(s), NEW j \in Due(s), j < i PROVE j \in SentTo(s)
      <3>1. CASE stream[s].stage = g
        BY <2>3, <3>1 DEF StreamInv, WholeInv
      <3>2. CASE stream[s].stage = "streaming"
        <4>1. j \in SentTo(s) \cup QueuedFor(s)
          BY <3>2 DEF StreamInv, WholeInv
        <4>2. j \in QueuedFor(s) => i < j
          BY DEF StreamInv, OrderedInv
        <4>3. i \in Nat /\ j \in Nat
          BY <1>a, <4>1 DEF SentTo, QueuedFor
        <4>4. QED
          BY <2>3, <4>1, <4>2, <4>3
      <3>3. QED
        BY <3>1, <3>2
    <2>4. QED
      BY <1>d, <1>2, <1>6, <2>1, <2>2, <2>3 DEF WholeInv
  <1>8. QED
    BY <1>3, <1>4, <1>7 DEF StreamInv

\* A connection whose queue has room: an event that is published waits there.
LEMMA GetsIt ==
    ASSUME StreamsTypeOK, NEW s \in Stream, StreamInv(s), s \in listeners, s \in listeners', NEW m \in Nat,
           stream'[s] = [stream[s] EXCEPT !.queue = Append(stream[s].queue, m)],
           \/ m = Close /\ published' = published
           \/ m = Len(published) + 1 /\ \E topic \in Topics : published' = Append(published, topic)
    PROVE  StreamInv(s)'
  <1>a. /\ Len(published) \in Nat /\ published \in Seq(Topics) /\ stream[s].since \in Nat
        /\ stream[s] \in StreamRec /\ stream[s].queue \in Seq(Nat)
        /\ \A i \in Range(stream[s].sent) : i \in Nat
        /\ \A j \in Range(stream[s].queue) : j \in Nat
    BY StreamTypes DEF StreamsTypeOK
  <1>b. /\ Len(published') \in Nat /\ Len(published) <= Len(published')
        /\ \A i \in 1..Len(published) : published'[i] = published[i]
        /\ m # Close => m = Len(published') /\ Len(published') = Len(published) + 1
        /\ m = Close => published' = published
    BY <1>a DEF Close
  <1>d. /\ stream'[s].stage = stream[s].stage /\ stream'[s].since = stream[s].since
        /\ stream'[s].sent = stream[s].sent /\ stream'[s].user = stream[s].user
        /\ stream'[s].queue = Append(stream[s].queue, m)
    BY <1>a DEF StreamRec
  <1>1. LastFor(s) = Len(published) /\ LastFor(s)' = Len(published')
    BY DEF LastFor
  <1>2. SentTo(s)' = SentTo(s) /\ QueuedFor(s)' = QueuedFor(s) \cup ({m} \ {Close})
    <2>1. Range(stream'[s].queue) = Range(stream[s].queue) \cup {m}
      BY <1>a, <1>d, PutLast
    <2>2. QED
      BY <1>d, <2>1 DEF SentTo, QueuedFor
  <1>3. \A i \in SentTo(s) \cup QueuedFor(s) :
            i \in Nat /\ stream[s].since + 1 <= i /\ i <= Len(published)
    BY <1>a, <1>1 DEF StreamInv, OrderedInv
  <1>4. PlacedInv(s)'
    <2>1. stream[s].stage \in {"opened", "streaming", "leaked"} /\ stream[s].since <= Len(published')
      BY <1>a, <1>b DEF StreamInv, PlacedInv
    <2>2. QED
      BY <1>b, <1>d, <1>1, <2>1 DEF StreamInv, PlacedInv
  <1>5. OrderedInv(s)'
    <2>1. InOrder(stream'[s].queue)
      <3>1. m # Close => \A i \in Range(stream[s].queue) : i < m
        <4>1. ASSUME m # Close, NEW i \in Range(stream[s].queue) PROVE i < m
          <5>1. CASE i = Close
            BY <1>a, <1>b, <4>1, <5>1 DEF Close
          <5>2. CASE i # Close
            <6>1. i \in QueuedFor(s)
              BY <5>2 DEF QueuedFor
            <6>2. QED
              BY <1>a, <1>b, <1>3, <4>1, <6>1
          <5>3. QED
            BY <5>1, <5>2
        <4>2. QED
          BY <4>1
      <3>2. QED
        BY <1>a, <1>d, <3>1, PutLast DEF StreamInv, OrderedInv
    <2>2. \A i \in SentTo(s) : \A j \in QueuedFor(s)' : i < j
      <3>1. ASSUME NEW i \in SentTo(s), m # Close PROVE i < m
        BY <1>a, <1>b, <1>3, <3>1
      <3>2. QED
        BY <1>2, <3>1 DEF StreamInv, OrderedInv
    <2>3. \A i \in SentTo(s)' \cup QueuedFor(s)' : i \in stream[s].since + 1 .. Len(published')
      <3>1. \A i \in SentTo(s) \cup QueuedFor(s) : i \in stream[s].since + 1 .. Len(published')
        BY <1>a, <1>b, <1>3
      <3>2. m # Close => m \in stream[s].since + 1 .. Len(published')
        <4>1. stream[s].since <= Len(published)
          BY DEF StreamInv, PlacedInv
        <4>2. QED
          BY <1>a, <1>b, <4>1
      <3>3. QED
        BY <1>2, <3>1, <3>2
    <2>4. InOrder(stream'[s].sent)
      BY <1>d DEF StreamInv, OrderedInv
    <2>5. \A i \in SentTo(s)' : \A j \in QueuedFor(s)' : i < j
      BY <1>2, <2>2
    <2>6. SentTo(s)' \cup QueuedFor(s)' \subseteq stream'[s].since + 1 .. LastFor(s)'
      BY <1>d, <1>1, <2>3
    <2>7. QED
      BY <2>1, <2>4, <2>5, <2>6 DEF OrderedInv
  <1>6. WholeInv(s)'
    <2>1. \A i \in SentTo(s) : published'[i] = published[i]
      <3>1. \A i \in SentTo(s) : i \in 1..Len(published)
        BY <1>a, <1>3
      <3>2. QED
        BY <1>b, <3>1
    <2>2. \A i \in SentTo(s)' : published'[i] = "restricted" \/ Entitled(stream'[s].user, published'[i])
      BY <1>d, <1>2, <2>1 DEF StreamInv, WholeInv
    <2>3. ASSUME NEW i \in Due(s)', i \notin Due(s) PROVE m # Close /\ i = m
      <3>1. /\ i \in stream[s].since + 1 .. Len(published') /\ Entitled(stream[s].user, published'[i])
        BY <1>d, <1>1, <2>3 DEF Due
      <3>2. ~(i \in 1..Len(published))
        <4>1. i \in 1..Len(published) => i \in stream[s].since + 1 .. LastFor(s)
          BY <1>a, <1>b, <1>1, <3>1
        <4>2. QED
          BY <1>b, <2>3, <3>1, <4>1 DEF Due
      <3>3. QED
        BY <1>a, <1>b, <3>1, <3>2
    <2>4. stream[s].stage \in {"opened", "streaming"} => Due(s)' \subseteq SentTo(s)' \cup QueuedFor(s)'
      BY <1>2, <2>3 DEF StreamInv, WholeInv
    <2>5. stream[s].stage \notin {"reconnect", "gone"}
      BY DEF StreamInv, PlacedInv
    <2>6. QED
      BY <1>d, <2>2, <2>4, <2>5 DEF WholeInv
  <1>7. QED
    BY <1>4, <1>5, <1>6 DEF StreamInv

\* A message for all of them.
LEMMA ForAll ==
    ASSUME StreamsTypeOK, NEW s \in Stream, StreamInv(s), NEW m \in Nat,
           stream' = ToAll(m), listeners' = LetsGoOfFull,
           \/ m = Close /\ published' = published
           \/ m = Len(published) + 1 /\ \E topic \in Topics : published' = Append(published, topic)
    PROVE  StreamInv(s)'
  <1>1. CASE s \notin listeners
    <2>1. stream'[s] = stream[s] /\ s \notin listeners'
      BY <1>1 DEF ToAll, LetsGoOfFull
    <2>2. QED
      BY <1>1, <2>1, Apart
  <1>2. CASE s \in listeners /\ ~Full(s)
    <2>1. stream'[s] = [stream[s] EXCEPT !.queue = Append(stream[s].queue, m)] /\ s \in listeners'
      BY <1>2 DEF ToAll, LetsGoOfFull
    <2>2. QED
      BY <1>2, <2>1, GetsIt
  <1>3. CASE s \in listeners /\ Full(s)
    <2>1. stream'[s] = [stream[s] EXCEPT !.until = Len(published)] /\ s \notin listeners'
      BY <1>3 DEF ToAll, LetsGoOfFull
    <2>2. stream[s] \in StreamRec
      BY StreamTypes
    <2>3. stream'[s] = [stream[s] EXCEPT !.stage = stream[s].stage, !.until = Len(published)]
      BY <2>1, <2>2 DEF StreamRec
    <2>4. QED
      BY <1>3, <2>1, <2>3, LetGo
  <1>4. QED
    BY <1>1, <1>2, <1>3

\* The generator sends a message or leaves it away.
LEMMA SendsIt ==
    ASSUME StreamsTypeOK, NEW s \in Stream, StreamInv(s), SendsNext(s)
    PROVE  StreamInv(s)'
  <1> DEFINE m == Head(stream[s].queue)
  <1>a. /\ Len(published) \in Nat /\ stream[s].since \in Nat
        /\ stream[s] \in StreamRec /\ stream[s].queue \in Seq(Nat) /\ stream[s].sent \in Seq(Nat)
        /\ stream[s].queue # <<>> /\ m # Close /\ stream[s].stage = "streaming"
        /\ stream \in [Stream -> StreamRec]
    BY StreamTypes DEF StreamsTypeOK, SendsNext, StreamRec, Stage
  <1>b. m \in Nat /\ Range(stream[s].queue) = {m} \cup Range(Tail(stream[s].queue))
    BY <1>a, TakeFirst
  <1>c. /\ InOrder(Tail(stream[s].queue))
        /\ \A j \in Range(Tail(stream[s].queue)) : j # Close => m < j
    BY <1>a, TakeFirst DEF StreamInv, OrderedInv
  <1>d. /\ stream'[s].stage = stream[s].stage /\ stream'[s].since = stream[s].since
        /\ stream'[s].until = stream[s].until /\ stream'[s].user = stream[s].user
        /\ stream'[s].queue = Tail(stream[s].queue)
        /\ stream'[s].sent = IF Shown(stream[s].user, published[m]) THEN Append(stream[s].sent, m) ELSE stream[s].sent
    BY <1>a DEF SendsNext, StreamRec
  <1>e. published' = published /\ listeners' = listeners
    BY DEF SendsNext
  <1>1. LastFor(s)' = LastFor(s)
    BY <1>d, <1>e DEF LastFor
  <1>2. QueuedFor(s) = {m} \cup QueuedFor(s)'
    BY <1>a, <1>b, <1>c, <1>d DEF QueuedFor
  <1>3. /\ SentTo(s)' = IF Shown(stream[s].user, published[m]) THEN SentTo(s) \cup {m} ELSE SentTo(s)
    BY <1>a, <1>b, <1>d, PutLast DEF SentTo
  <1>4. \A i \in SentTo(s) : i < m
    BY <1>2 DEF StreamInv, OrderedInv
  <1>5. \A j \in QueuedFor(s)' : m < j
    BY <1>c, <1>d DEF QueuedFor
  <1>6. PlacedInv(s)'
    BY <1>a, <1>d, <1>e, <1>1 DEF StreamInv, PlacedInv
  <1>7. OrderedInv(s)'
    <2>1. InOrder(stream'[s].sent)
      <3>1. InOrder(Append(stream[s].sent, m))
        BY <1>a, <1>b, <1>4, PutLast DEF StreamInv, OrderedInv, SentTo
      <3>2. QED
        BY <1>d, <3>1 DEF StreamInv, OrderedInv
    <2>2. \A i \in SentTo(s)' : \A j \in QueuedFor(s)' : i < j
      BY <1>2, <1>3, <1>5 DEF StreamInv, OrderedInv
    <2>3. SentTo(s)' \cup QueuedFor(s)' \subseteq SentTo(s) \cup QueuedFor(s)
      BY <1>2, <1>3
    <2>4. QED
      BY <1>c, <1>d, <1>1, <2>1, <2>2, <2>3 DEF StreamInv, OrderedInv
  <1>8. WholeInv(s)'
    <2>1. Due(s)' = Due(s)
      BY <1>d, <1>e, <1>1 DEF Due
    <2>2. Due(s) \subseteq SentTo(s) \cup QueuedFor(s)
      BY <1>a DEF StreamInv, WholeInv
    <2>3. m \in Due(s) => Shown(stream[s].user, published[m])
      BY DEF Due, Shown
    <2>4. Due(s)' \subseteq SentTo(s)' \cup QueuedFor(s)'
      BY <1>2, <1>3, <2>1, <2>2, <2>3
    <2>5. \A i \in SentTo(s)' : published[i] = "restricted" \/ Entitled(stream[s].user, published[i])
      BY <1>3 DEF StreamInv, WholeInv, Shown
    <2>6. QED
      BY <1>a, <1>d, <1>e, <2>4, <2>5 DEF WholeInv
  <1>9. QED
    BY <1>6, <1>7, <1>8 DEF StreamInv

\* A connection is made; the events so far are not its own.
LEMMA Connects ==
    ASSUME StreamsTypeOK, NEW s \in Stream, NEW user \in Viewers, StreamInv(s), Connect(s, user)
    PROVE  StreamInv(s)'
  <1>a. Len(published) \in Nat /\ stream \in [Stream -> StreamRec]
    BY StreamTypes DEF StreamsTypeOK, StreamRec, Stage
  <1>b. NoStream.queue = <<>> /\ NoStream.sent = <<>>
    BY DEF NoStream
  <1>c. /\ stream'[s].stage = "opened" /\ stream'[s].since = Len(published)
        /\ stream'[s].queue = <<>> /\ stream'[s].sent = <<>>
    BY <1>a, <1>b DEF Connect, NoStream
  <1>d. s \in listeners' /\ published' = published
    BY DEF Connect
  <1>1. LastFor(s)' = Len(published)
    BY <1>d DEF LastFor
  <1>2. SentTo(s)' = {} /\ QueuedFor(s)' = {}
    BY <1>c DEF SentTo, QueuedFor, Range
  <1>3. Due(s)' = {}
    BY <1>a, <1>c, <1>1 DEF Due
  <1>4. PlacedInv(s)'
    BY <1>a, <1>c, <1>d, <1>1 DEF PlacedInv
  <1>5. OrderedInv(s)'
    BY <1>c, <1>2 DEF OrderedInv, InOrder
  <1>6. WholeInv(s)'
    BY <1>c, <1>2, <1>3 DEF WholeInv
  <1>7. QED
    BY <1>4, <1>5, <1>6 DEF StreamInv

\* The generator is run, or the client left before it was.
LEMMA OpenEnds ==
    ASSUME StreamsTypeOK, NEW s \in Stream, StreamInv(s), Starts(s) \/ NeverStarts(s)
    PROVE  StreamInv(s)'
  <1>1. PICK g \in {"streaming", "leaked"} : stream' = [stream EXCEPT ![s] = [stream[s] EXCEPT !.stage = g]]
    BY DEF Starts, NeverStarts
  <1>2. /\ stream \in [Stream -> StreamRec] /\ stream[s].stage = "opened"
        /\ published' = published /\ listeners' = listeners
    BY DEF StreamsTypeOK, StreamRec, Stage, Starts, NeverStarts
  <1>3. /\ stream'[s].stage = g /\ stream'[s].since = stream[s].since /\ stream'[s].until = stream[s].until
        /\ stream'[s].queue = stream[s].queue /\ stream'[s].sent = stream[s].sent /\ stream'[s].user = stream[s].user
    BY <1>1, <1>2 DEF StreamRec
  <1>4. LastFor(s)' = LastFor(s) /\ SentTo(s)' = SentTo(s) /\ QueuedFor(s)' = QueuedFor(s)
    BY <1>2, <1>3 DEF LastFor, SentTo, QueuedFor
  <1>5. Due(s)' = Due(s)
    BY <1>2, <1>3, <1>4 DEF Due
  <1>6. PlacedInv(s)'
    BY <1>2, <1>3, <1>4 DEF StreamInv, PlacedInv
  <1>7. OrderedInv(s)'
    BY <1>3, <1>4 DEF StreamInv, OrderedInv
  <1>8. WholeInv(s)'
    BY <1>2, <1>3, <1>4, <1>5 DEF StreamInv, WholeInv
  <1>9. QED
    BY <1>6, <1>7, <1>8 DEF StreamInv

\* A connection ends.
LEMMA StreamEnds ==
    ASSUME StreamsTypeOK, NEW s \in Stream, StreamInv(s), SendsClose(s) \/ Disconnects(s)
    PROVE  StreamInv(s)'
  <1>1. PICK g \in {"reconnect", "gone"} : Leaves(s, g)
    BY DEF SendsClose, Disconnects
  <1>2. /\ stream \in [Stream -> StreamRec] /\ stream[s].stage = "streaming"
        /\ published' = published /\ s \notin listeners'
    BY <1>1 DEF StreamsTypeOK, StreamRec, Stage, SendsClose, Disconnects, Leaves
  <1>3. CASE s \in listeners
    <2>1. stream'[s] = [stream[s] EXCEPT !.stage = g, !.until = Len(published)]
      BY <1>1, <1>2, <1>3 DEF Leaves, StreamRec
    <2>2. QED
      BY <1>2, <1>3, <2>1, LetGo
  <1>4. CASE s \notin listeners
    <2>1. /\ stream'[s].stage = g /\ stream'[s].since = stream[s].since /\ stream'[s].until = stream[s].until
          /\ stream'[s].queue = stream[s].queue /\ stream'[s].sent = stream[s].sent /\ stream'[s].user = stream[s].user
      BY <1>1, <1>2, <1>4 DEF Leaves, StreamRec
    <2>2. LastFor(s)' = LastFor(s) /\ SentTo(s)' = SentTo(s) /\ QueuedFor(s)' = QueuedFor(s)
      BY <1>2, <1>4, <2>1 DEF LastFor, SentTo, QueuedFor
    <2>3. Due(s)' = Due(s)
      BY <1>2, <2>1, <2>2 DEF Due
    <2>4. PlacedInv(s)'
      BY <1>2, <2>1, <2>2 DEF StreamInv, PlacedInv
    <2>5. OrderedInv(s)'
      BY <2>1, <2>2 DEF StreamInv, OrderedInv
    <2>6. WholeInv(s)'
      <3>1. \A i \in SentTo(s) : published[i] = "restricted" \/ Entitled(stream[s].user, published[i])
        BY DEF StreamInv, WholeInv
      <3>2. ASSUME NEW i \in SentTo(s), NEW j \in Due(s), j < i PROVE j \in SentTo(s)
        <4>1. j \in SentTo(s) \cup QueuedFor(s)
          BY <1>2 DEF StreamInv, WholeInv
        <4>2. j \in QueuedFor(s) => i < j
          BY DEF StreamInv, OrderedInv
        <4>3. i \in Nat /\ j \in Nat
          BY <4>1, StreamTypes DEF SentTo, QueuedFor
        <4>4. QED
          BY <3>2, <4>1, <4>2, <4>3
      <3>3. QED
        BY <1>2, <2>1, <2>2, <2>3, <3>1, <3>2 DEF WholeInv
    <2>7. QED
      BY <2>4, <2>5, <2>6 DEF StreamInv
  <1>5. QED
    BY <1>3, <1>4

\* Every step keeps what a connection gets.
LEMMA StreamsKept == StreamsInv /\ [StreamsNext]_streamVars => StreamsInv'
  <1> SUFFICES ASSUME StreamsInv, [StreamsNext]_streamVars PROVE StreamsInv'
    OBVIOUS
  <1>a. StreamsTypeOK /\ StreamsTypeOK'
    BY StreamsTypes DEF StreamsInv
  <1> SUFFICES ASSUME NEW s \in Stream PROVE StreamInv(s)'
    BY <1>a DEF StreamsInv
  <1>b. StreamInv(s) /\ stream \in [Stream -> StreamRec]
    BY <1>a DEF StreamsInv, StreamsTypeOK, StreamRec, Stage
  <1>1. ASSUME NEW topic \in Topics, Publish(topic) PROVE StreamInv(s)'
    <2>1. Len(published) + 1 \in Nat
      BY <1>a, StreamTypes
    <2>2. stream' = ToAll(Len(published) + 1) /\ listeners' = LetsGoOfFull /\ published' = Append(published, topic)
      BY <1>1 DEF Publish
    <2>3. QED
      BY <1>a, <1>b, <2>1, <2>2, ForAll
  <1>2. CASE CloseAllStreams
    <2>1. Close \in Nat /\ stream' = ToAll(Close) /\ listeners' = LetsGoOfFull /\ published' = published
      BY <1>2 DEF CloseAllStreams, Close
    <2>2. QED
      BY <1>a, <1>b, <2>1, ForAll
  <1>3. CASE PermissionChanges \/ UNCHANGED streamVars
    <2>1. stream' = stream /\ listeners' = listeners /\ published' = published
      BY <1>3 DEF PermissionChanges, streamVars
    <2>2. QED
      BY <1>a, <1>b, <2>1, Apart
  <1>4. ASSUME NEW t \in Stream, NEW user \in Viewers, Connect(t, user) PROVE StreamInv(s)'
    <2>1. CASE t = s
      BY <1>a, <1>b, <1>4, <2>1, Connects
    <2>2. CASE t # s
      <3>1. stream'[s] = stream[s] /\ published' = published /\ (s \in listeners' <=> s \in listeners)
        BY <1>b, <1>4, <2>2 DEF Connect
      <3>2. QED
        BY <1>a, <1>b, <3>1, Apart
    <2>3. QED
      BY <2>1, <2>2
  <1>5. ASSUME NEW t \in Stream, Starts(t) \/ SendsNext(t) \/ SendsClose(t) \/ Disconnects(t) \/ NeverStarts(t)
        PROVE StreamInv(s)'
    <2>1. CASE t = s
      BY <1>a, <1>b, <1>5, <2>1, SendsIt, OpenEnds, StreamEnds
    <2>2. CASE t # s
      <3>1. stream'[s] = stream[s] /\ published' = published /\ (s \in listeners' <=> s \in listeners)
        BY <1>b, <1>5, <2>2 DEF Starts, SendsNext, SendsClose, Disconnects, Leaves, NeverStarts
      <3>2. QED
        BY <1>a, <1>b, <3>1, Apart
    <2>3. QED
      BY <2>1, <2>2
  <1>6. QED
    BY <1>1, <1>2, <1>3, <1>4, <1>5 DEF StreamsNext

LEMMA StreamsStart == StreamsInit => StreamsInv
  <1> SUFFICES ASSUME StreamsInit PROVE StreamsInv
    OBVIOUS
  <1> USE StreamsAssumption
  <1>1. NoStream \in StreamRec
    <2>1. <<>> \in Seq(0..Forwards) /\ <<>> \in Seq(1..Forwards) /\ Forwards \in 0..Forwards
      OBVIOUS
    <2>2. QED
      BY <2>1 DEF NoStream, StreamRec, Stage, Viewers
  <1>2. /\ stream \in [Stream -> StreamRec] /\ published = <<>> /\ listeners = {} /\ permitted = {}
        /\ \A s \in Stream : stream[s] = NoStream
    BY <1>1 DEF StreamsInit
  <1>3. NoStream.stage = "none" /\ NoStream.queue = <<>> /\ NoStream.sent = <<>> /\ NoStream.since = 0
    BY DEF NoStream
  <1>4. StreamsTypeOK
    <2>1. published \in Seq(Topics) /\ Len(published) = 0
      BY <1>2
    <2>2. \A s \in Stream : Len(stream[s].queue) <= QueueSize
      BY <1>2, <1>3
    <2>3. QED
      BY <1>2, <2>1, <2>2 DEF StreamsTypeOK, StreamRec, Stage
  <1>5. ASSUME NEW s \in Stream PROVE StreamInv(s)
    <2>1. SentTo(s) = {} /\ QueuedFor(s) = {}
      BY <1>2, <1>3 DEF SentTo, QueuedFor, Range
    <2>2. PlacedInv(s)
      BY <1>2, <1>3 DEF PlacedInv
    <2>3. OrderedInv(s)
      BY <1>2, <1>3, <2>1 DEF OrderedInv, InOrder
    <2>4. WholeInv(s)
      BY <1>2, <1>3, <2>1 DEF WholeInv
    <2>5. QED
      BY <2>2, <2>3, <2>4 DEF StreamInv
  <1>6. QED
    BY <1>4, <1>5 DEF StreamsInv

LEMMA StreamsHold == StreamsInv => NoHoles
  <1> SUFFICES ASSUME StreamsInv, NEW s \in Stream PROVE
          /\ InOrder(stream[s].sent) /\ InOrder(stream[s].queue)
          /\ \A i \in SentTo(s) : \A j \in QueuedFor(s) : i < j
          /\ SentTo(s) \subseteq stream[s].since + 1 .. LastFor(s)
          /\ \A i \in SentTo(s) : published[i] = "restricted" \/ i \in Due(s)
          /\ CASE stream[s].stage \in {"opened", "streaming"} ->
                       Due(s) \subseteq SentTo(s) \cup QueuedFor(s) /\ QueuedFor(s) \subseteq stream[s].since + 1 .. LastFor(s)
               [] stream[s].stage \in {"reconnect", "gone"} ->
                       \A i \in SentTo(s) : \A j \in Due(s) : j < i => j \in SentTo(s)
               [] OTHER -> SentTo(s) = {}
    BY Zenon DEF NoHoles, SentTo, QueuedFor
  <1>1. StreamInv(s) /\ stream[s].stage \in Stage
    BY DEF StreamsInv, StreamsTypeOK, Stage
  <1>2. \A i \in SentTo(s) : published[i] = "restricted" \/ i \in Due(s)
    BY <1>1 DEF StreamInv, OrderedInv, WholeInv, Due
  <1>3. stream[s].stage \in {"none", "leaked"} => SentTo(s) = {}
    BY <1>1 DEF StreamInv, PlacedInv, SentTo, Range
  <1>4. QED
    BY <1>1, <1>2, <1>3 DEF StreamInv, OrderedInv, WholeInv, Stage

\* Types; a queue never holds more than its maxsize.
THEOREM StreamsTypeCorrect == StreamsSpec => []StreamsTypeOK
  <1>1. StreamsInv => StreamsTypeOK
    BY DEF StreamsInv
  <1>2. QED
    BY <1>1, StreamsStart, StreamsKept, PTL DEF StreamsSpec

\* Every connection is sent the events its user is entitled to, in order, once
\* and without a hole, up to where its queue was let go of.
THEOREM StreamsCorrect == StreamsSpec => []NoHoles
  BY StreamsHold, StreamsStart, StreamsKept, PTL DEF StreamsSpec

-----------------------------------------------------------------------------
(* Membership: what an instance knows grows with the ticks in which        *)
(* nothing starts, stops or fails; and of those that share the work one    *)
(* has the highest score.                                                  *)

\* While nothing changes, by the ticks that passed: whoever is up has written
\* its row in this tick or the one before, the rows of the others grow older,
\* and what an instance read of rows and lead is what they are.
LeadStands == leadRow \in Serving \cup {NoLead}

BeatInv(m) ==
    /\ calm >= 1 /\ beat[m] \in {"wrote", "seen", "led", "done"} => rowAge[m] = 0
    /\ calm >= 2 => rowAge[m] \in {0, 1}
    /\ calm >= 1 /\ beat[m] = "led" /\ LeadStands => leaderRead[m] = leadRow
    /\ calm >= 1 /\ beat[m] = "done" /\ LeadStands => leaderId[m] = leadRow
    /\ calm >= 2 /\ LeadStands => leaderId[m] = leadRow
    /\ calm >= Ttl + 1 /\ beat[m] \in {"seen", "led", "done"} => view[m] = Serving
    /\ calm >= Ttl + 2 => view[m] = Serving

MembersInv ==
    /\ calm >= 1 => calls = {}
    /\ \A m \in Serving : BeatInv(m)
    /\ \A m \in Member \ Serving :
          rowAge[m] = NoMemberRow \/ rowAge[m] >= calm \/ rowAge[m] = Ttl + 1

-----------------------------------------------------------------------------
(* Types.                                                                  *)

\* The steps of a heartbeat keep the types.
LEMMA BeatTypes ==
    ASSUME MembershipTypeOK, NEW m \in Member,
           BeatBegins(m) \/ BeatWrites(m) \/ BeatSees(m) \/ LeaderIsRead(m) \/ LeaderIsSet(m) \/ BeatFails(m)
    PROVE  MembershipTypeOK'
  <1>1. CASE BeatBegins(m)
    BY <1>1 DEF BeatBegins, MembershipTypeOK
  <1>2. CASE BeatWrites(m)
    BY <1>2, MembershipAssumption DEF BeatWrites, MembershipTypeOK, NoMemberRow
  <1>3. CASE BeatSees(m)
    <2>1. view' \in [Member -> SUBSET Member]
      BY <1>3 DEF BeatSees, MembershipTypeOK
    <2>2. QED
      BY <1>3, <2>1 DEF BeatSees, MembershipTypeOK
  <1>4. CASE LeaderIsRead(m)
    BY <1>4 DEF LeaderIsRead, MembershipTypeOK
  <1>5. CASE LeaderIsSet(m)
    BY <1>5 DEF LeaderIsSet, MembershipTypeOK
  <1>6. CASE BeatFails(m)
    BY <1>6, MembershipAssumption DEF BeatFails, MembersChange, MembershipTypeOK
  <1>7. QED
    BY <1>1, <1>2, <1>3, <1>4, <1>5, <1>6

\* So do instances that start, stop or fail.
LEMMA ComingTypes ==
    ASSUME MembershipTypeOK, NEW m \in Member,
           Joins(m) \/ StopsBeating(m) \/ Deregisters(m) \/ WritesLate(m) \/ Ends(m)
    PROVE  MembershipTypeOK' /\ calm' = 0
  <1>1. CASE Joins(m)
    BY <1>1, MembershipAssumption DEF Joins, MembersChange, MembershipTypeOK
  <1>2. CASE StopsBeating(m)
    BY <1>2, MembershipAssumption DEF StopsBeating, MembersChange, MembershipTypeOK
  <1>3. CASE Deregisters(m)
    BY <1>3, MembershipAssumption DEF Deregisters, MembershipTypeOK, NoMemberRow
  <1>4. CASE WritesLate(m)
    BY <1>4, MembershipAssumption DEF WritesLate, MembershipTypeOK, NoMemberRow
  <1>5. CASE Ends(m)
    BY <1>5, MembershipAssumption DEF Ends, MembershipTypeOK
  <1>6. QED
    BY <1>1, <1>2, <1>3, <1>4, <1>5

\* ... and the changes of the lead.
LEMMA LeadTypes ==
    ASSUME MembershipTypeOK, NEW m \in Member,
           LeadIsTaken(m) \/ LeadIsLost(m) \/ LeaderAcquired(m) \/ LeaderLost(m)
    PROVE  MembershipTypeOK' /\ calm' = 0
  <1>1. CASE LeadIsTaken(m)
    BY <1>1, MembershipAssumption DEF LeadIsTaken, MembersChange, MembershipTypeOK
  <1>2. CASE LeadIsLost(m)
    BY <1>2, MembershipAssumption DEF LeadIsLost, MembersChange, MembershipTypeOK
  <1>3. CASE LeaderAcquired(m)
    BY <1>3, MembershipAssumption DEF LeaderAcquired, MembershipTypeOK
  <1>4. CASE LeaderLost(m)
    BY <1>4, MembershipAssumption DEF LeaderLost, MembershipTypeOK
  <1>5. QED
    BY <1>1, <1>2, <1>3, <1>4

\* ... and a tick.
LEMMA MembersTickTypes ==
    ASSUME MembershipTypeOK, MembersTick
    PROVE  MembershipTypeOK'
  <1>1. rowAge' \in [Member -> NoMemberRow..(Ttl + 1)]
    <2>1. ASSUME NEW m \in Member
          PROVE  (IF rowAge[m] \in 0..Ttl THEN rowAge[m] + 1 ELSE rowAge[m]) \in NoMemberRow..(Ttl + 1)
      BY MembershipAssumption DEF MembershipTypeOK, NoMemberRow
    <2>2. QED
      BY <2>1 DEF MembersTick
  <1>2. beat' \in [Member -> {"due", "writing", "wrote", "seen", "led", "done"}]
    BY DEF MembersTick, MembershipTypeOK
  <1>3. calm' \in 0..(Ttl + 2)
    BY MembershipAssumption DEF MembersTick, MembershipTypeOK
  <1>4. QED
    BY <1>1, <1>2, <1>3 DEF MembersTick, MembershipTypeOK

\* Every step keeps the types.
LEMMA MembershipTypeStep == MembershipTypeOK /\ [MembershipNext]_memberVars => MembershipTypeOK'
  <1>1. MembershipTypeOK /\ UNCHANGED memberVars => MembershipTypeOK'
    BY DEF MembershipTypeOK, memberVars
  <1>2. QED
    BY <1>1, BeatTypes, ComingTypes, LeadTypes, MembersTickTypes DEF MembershipNext

-----------------------------------------------------------------------------
(* What is known while nothing changes.                                    *)

\* When something has just changed nothing is known.
LEMMA ChangesClearAll ==
    ASSUME MembershipTypeOK', calm' = 0
    PROVE  MembersInv'
  <1>1. \A m \in Member : rowAge'[m] = NoMemberRow \/ rowAge'[m] >= calm'
    BY MembershipAssumption DEF MembershipTypeOK, NoMemberRow
  <1>2. QED
    BY <1>1, MembershipAssumption DEF MembersInv, BeatInv

\* A step of the heartbeat of m leaves the others as they are.
LEMMA OthersBeat ==
    ASSUME MembershipTypeOK, MembersInv, NEW m \in Member, m \in Serving, BeatInv(m)',
           UNCHANGED <<phase, leadRow, calls, calm>>,
           \A n \in Member : n # m => /\ rowAge'[n] = rowAge[n] /\ beat'[n] = beat[n] /\ view'[n] = view[n]
                                      /\ leaderRead'[n] = leaderRead[n] /\ leaderId'[n] = leaderId[n]
    PROVE  MembersInv'
  <1>1. Serving' = Serving /\ (LeadStands)' = LeadStands
    BY DEF Serving, LeadStands
  <1>2. ASSUME NEW n \in Serving, n # m
        PROVE  BeatInv(n)'
    BY <1>1, <1>2 DEF MembersInv, BeatInv, Serving
  <1>3. QED
    BY <1>1, <1>2 DEF MembersInv, Serving

\* A row is fresh exactly if its instance is up, once those of the others are
\* older than their lifetime.
LEMMA FreshAreServing ==
    ASSUME MembershipTypeOK, MembersInv, calm >= Ttl + 1
    PROVE  {n \in Member : Fresh(n)} = Serving
  <1>1. ASSUME NEW n \in Serving
        PROVE  Fresh(n)
    <2>1. rowAge[n] \in {0, 1}
      BY MembershipAssumption DEF MembersInv, BeatInv, MembershipTypeOK
    <2>2. QED
      BY <2>1, MembershipAssumption DEF Fresh
  <1>2. ASSUME NEW n \in Member \ Serving
        PROVE  ~Fresh(n)
    <2>1. rowAge[n] = NoMemberRow \/ rowAge[n] >= calm \/ rowAge[n] = Ttl + 1
      BY DEF MembersInv
    <2>2. calm \in Nat /\ rowAge[n] \in Int
      BY MembershipAssumption DEF MembershipTypeOK, NoMemberRow
    <2>3. QED
      BY <2>1, <2>2, MembershipAssumption DEF Fresh, NoMemberRow
  <1>3. QED
    BY <1>1, <1>2 DEF Serving

\* The steps of a heartbeat keep what is known, or fail and clear it.
LEMMA BeatKnows ==
    ASSUME MembershipTypeOK, MembersInv, NEW m \in Member,
           BeatBegins(m) \/ BeatWrites(m) \/ BeatSees(m) \/ LeaderIsRead(m) \/ LeaderIsSet(m)
    PROVE  MembersInv'
  <1>0. m \in Serving /\ BeatInv(m) /\ calm \in Nat
    BY MembershipAssumption
       DEF MembersInv, Serving, BeatBegins, BeatWrites, BeatSees, LeaderIsRead, LeaderIsSet, MembershipTypeOK
  <1>1. CASE BeatBegins(m)
    <2>1. beat'[m] = "writing" /\ UNCHANGED <<phase, rowAge, view, leadRow, leaderRead, leaderId, calls, calm>>
          /\ \A n \in Member : n # m => beat'[n] = beat[n]
      BY <1>1 DEF BeatBegins, MembershipTypeOK
    <2>2. Serving' = Serving /\ (LeadStands)' = LeadStands
      BY <2>1 DEF Serving, LeadStands
    <2>3. BeatInv(m)'
      BY <1>0, <2>1, <2>2 DEF BeatInv
    <2>4. QED
      BY <1>0, <2>1, <2>3, OthersBeat
  <1>2. CASE BeatWrites(m)
    <2>1. beat'[m] = "wrote" /\ rowAge'[m] = 0
          /\ UNCHANGED <<phase, view, leadRow, leaderRead, leaderId, calls, calm>>
          /\ \A n \in Member : n # m => beat'[n] = beat[n] /\ rowAge'[n] = rowAge[n]
      BY <1>2 DEF BeatWrites, MembershipTypeOK
    <2>2. Serving' = Serving /\ (LeadStands)' = LeadStands
      BY <2>1 DEF Serving, LeadStands
    <2>3. BeatInv(m)'
      BY <1>0, <2>1, <2>2 DEF BeatInv
    <2>4. QED
      BY <1>0, <2>1, <2>3, OthersBeat
  <1>3. CASE BeatSees(m)
    <2>1. beat[m] = "wrote" /\ beat'[m] = "seen" /\ view'[m] = {n \in Member : Fresh(n)}
          /\ UNCHANGED <<phase, rowAge, leadRow, leaderRead, leaderId, calls, calm>>
          /\ \A n \in Member : n # m => beat'[n] = beat[n] /\ view'[n] = view[n]
      BY <1>3 DEF BeatSees, MembershipTypeOK
    <2>2. Serving' = Serving /\ (LeadStands)' = LeadStands
      BY <2>1 DEF Serving, LeadStands
    <2>3. calm >= Ttl + 1 => view'[m] = Serving
      BY <2>1, FreshAreServing
    <2>4. calm >= Ttl + 2 => calm >= Ttl + 1
      BY <1>0, MembershipAssumption
    <2>5. BeatInv(m)'
      BY <1>0, <2>1, <2>2, <2>3, <2>4 DEF BeatInv
    <2>6. QED
      BY <1>0, <2>1, <2>5, OthersBeat
  <1>4. CASE LeaderIsRead(m)
    <2>1. beat[m] = "seen" /\ beat'[m] = "led"
          /\ UNCHANGED <<phase, rowAge, view, leadRow, leaderId, calls, calm>>
          /\ \A n \in Member : n # m => beat'[n] = beat[n] /\ leaderRead'[n] = leaderRead[n]
      BY <1>4 DEF LeaderIsRead, MembershipTypeOK
    <2>2. Serving' = Serving /\ (LeadStands)' = LeadStands
      BY <2>1 DEF Serving, LeadStands
    <2>3. LeadStands => leaderRead'[m] = leadRow
      BY <1>4 DEF LeaderIsRead, LeadStands, MembershipTypeOK
    <2>4. BeatInv(m)'
      BY <1>0, <2>1, <2>2, <2>3 DEF BeatInv
    <2>5. QED
      BY <1>0, <2>1, <2>4, OthersBeat
  <1>5. CASE LeaderIsSet(m)
    <2>1. beat[m] = "led" /\ beat'[m] = "done" /\ leaderId'[m] = leaderRead[m]
          /\ UNCHANGED <<phase, rowAge, view, leadRow, calls, calm>>
          /\ \A n \in Member : n # m => beat'[n] = beat[n] /\ leaderRead'[n] = leaderRead[n]
                                        /\ leaderId'[n] = leaderId[n]
      BY <1>5 DEF LeaderIsSet, MembershipTypeOK
    <2>2. Serving' = Serving /\ (LeadStands)' = LeadStands
      BY <2>1 DEF Serving, LeadStands
    <2>3. calm >= 1 /\ LeadStands => leaderId'[m] = leadRow
      BY <1>0, <2>1 DEF BeatInv
    <2>4. calm >= 2 => calm >= 1
      BY <1>0
    <2>5. BeatInv(m)'
      BY <1>0, <2>1, <2>2, <2>3, <2>4 DEF BeatInv
    <2>6. QED
      BY <1>0, <2>1, <2>5, OthersBeat
  <1>6. QED
    BY <1>1, <1>2, <1>3, <1>4, <1>5

\* A tick comes only after every heartbeat: what is then known was read since
\* the last one.
LEMMA TickKnows ==
    ASSUME MembershipTypeOK, MembersInv, MembersTick
    PROVE  MembersInv'
  <1>1. Serving' = Serving /\ (LeadStands)' = LeadStands /\ calls' = calls /\ calls = {}
    BY DEF MembersTick, Serving, LeadStands
  <1>2. calm \in 0..(Ttl + 2) /\ calm' = IF calm < Ttl + 2 THEN calm + 1 ELSE calm
    BY DEF MembersTick, MembershipTypeOK
  <1>3. \A m \in Member : rowAge[m] \in NoMemberRow..(Ttl + 1)
            /\ rowAge'[m] = IF rowAge[m] \in 0..Ttl THEN rowAge[m] + 1 ELSE rowAge[m]
    BY DEF MembersTick, MembershipTypeOK
  <1>4. ASSUME NEW m \in Serving
        PROVE  BeatInv(m)'
    <2>1. beat[m] = "done" /\ beat'[m] = "due" /\ BeatInv(m) /\ m \in Member
      BY DEF MembersTick, MembersInv, Serving
    <2>2. view'[m] = view[m] /\ leaderId'[m] = leaderId[m] /\ leadRow' = leadRow
      BY DEF MembersTick
    <2>3. calm' >= 2 => calm >= 1
      BY <1>2, MembershipAssumption
    <2>4. calm >= 1 => rowAge[m] = 0
      BY <2>1 DEF BeatInv
    <2>5. calm' >= 2 => rowAge'[m] \in {0, 1}
      BY <1>3, <2>1, <2>3, <2>4, MembershipAssumption
    <2>6. calm' >= 2 /\ LeadStands => leaderId'[m] = leadRow
      BY <2>1, <2>2, <2>3 DEF BeatInv
    <2>7. calm' >= Ttl + 2 => calm >= Ttl + 1
      BY <1>2, MembershipAssumption
    <2>8. calm' >= Ttl + 2 => view'[m] = Serving
      BY <2>1, <2>2, <2>7 DEF BeatInv
    <2>9. QED
      BY <1>1, <2>1, <2>2, <2>5, <2>6, <2>8 DEF BeatInv
  <1>5. ASSUME NEW m \in Member \ Serving
        PROVE  rowAge'[m] = NoMemberRow \/ rowAge'[m] >= calm' \/ rowAge'[m] = Ttl + 1
    <2>1. rowAge[m] = NoMemberRow \/ rowAge[m] >= calm \/ rowAge[m] = Ttl + 1
      BY DEF MembersInv
    <2>2. QED
      BY <1>2, <1>3, <2>1, MembershipAssumption DEF NoMemberRow
  <1>6. QED
    BY <1>1, <1>4, <1>5 DEF MembersInv

\* Every step keeps what is known.
LEMMA MembersStep ==
    ASSUME MembershipTypeOK, MembersInv, [MembershipNext]_memberVars
    PROVE  MembersInv'
  <1>1. MembershipTypeOK'
    BY MembershipTypeStep
  <1>2. ASSUME NEW m \in Member, BeatFails(m)
        PROVE  MembersInv'
    BY <1>1, <1>2, ChangesClearAll DEF BeatFails, MembersChange
  <1>3. ASSUME NEW m \in Member, \/ Joins(m) \/ StopsBeating(m) \/ Deregisters(m) \/ WritesLate(m) \/ Ends(m)
                                 \/ LeadIsTaken(m) \/ LeadIsLost(m) \/ LeaderAcquired(m) \/ LeaderLost(m)
        PROVE  MembersInv'
    BY <1>3, ComingTypes, LeadTypes, ChangesClearAll
  <1>4. CASE UNCHANGED memberVars
    BY <1>4 DEF memberVars, MembersInv, BeatInv, LeadStands, Serving
  <1>5. QED
    BY <1>2, <1>3, <1>4, BeatKnows, TickKnows DEF MembershipNext

-----------------------------------------------------------------------------
(* The work.                                                               *)

\* Of finitely many that have a score one has the highest: the sets of those
\* above one another are ordered by inclusion.
LEMMA HighestExists ==
    ASSUME NEW C, IsFiniteSet(C), C # {}, NEW s, \A c \in C : s[c] \in Nat
    PROVE  \E c \in C : \A d \in C : s[c] >= s[d]
  <1> DEFINE Above(c) == {d \in C : s[d] > s[c]}
             T == {Above(c) : c \in C}
             R == StrictSubsetOrdering(C)
  <1>1. IsWellFoundedOn(R, FiniteSubsetsOf(C)) /\ FiniteSubsetsOf(C) = SUBSET C
    BY FS_StrictSubsetOrderingWellFounded, FS_FiniteSubsetsOfFinite
  <1>2. T \subseteq FiniteSubsetsOf(C) /\ T # {}
    <2>1. ASSUME NEW A \in T
          PROVE  A \subseteq C
      <3>1. PICK c \in C : A = Above(c)
        OBVIOUS
      <3>2. QED
        BY <3>1
    <2>2. T # {}
      OBVIOUS
    <2> HIDE DEF R, T
    <2>3. QED
      BY <1>1, <2>1, <2>2
  <1> HIDE DEF R, T
  <1>3. PICK A \in T : \A B \in T : <<B, A>> \notin R
    BY <1>1, <1>2, WFMin
  <1> USE DEF T
  <1>4. PICK c \in C : A = Above(c)
    BY <1>3
  <1>5. ASSUME NEW d \in C, s[d] > s[c]
        PROVE  FALSE
    <2>1. Above(d) \subseteq Above(c) /\ d \in Above(c) /\ d \notin Above(d)
      BY <1>5
    <2>2. Above(d) \in T
      OBVIOUS
    <2>3. <<Above(d), Above(c)>> \in R
      BY <2>1 DEF R, StrictSubsetOrdering
    <2>4. QED
      BY <1>3, <1>4, <2>2, <2>3
  <1>6. QED
    BY <1>5

\* Instances that see the same divide the work the same way, and of those that
\* run it one has the highest score for an item.
LEMMA OneDoesIt ==
    ASSUME \A m \in Serving : view[m] = Serving, Serving \cap Able # {}, NEW k \in WorkItem
    PROVE  Cardinality({m \in Serving : k \in Mine(m)}) = 1
  <1> DEFINE C == Serving \cap Able
             H == {c \in C : Cardinality({d \in C : Score["all"][d] > Score["all"][c]}) < Spread}
  <1>1. IsFiniteSet(C) /\ C \subseteq Member /\ Serving \subseteq Member
    <2>1. C \in SUBSET Member
      BY DEF Serving
    <2>2. QED
      BY <2>1, FS_Subset, MembershipAssumption DEF Serving
  <1>2. \A m \in Serving : Candidates(m) = C
    BY DEF Candidates
  <1> HIDE DEF C
  <1>3. \A m \in Serving : Chosen(m) = H
    BY <1>2 DEF Chosen
  <1>4. H # {}
    <2>1. PICK c \in C : \A d \in C : Score["all"][c] >= Score["all"][d]
      <3>1. \A c \in C : Score["all"][c] \in Nat
        BY <1>1, MembershipAssumption
      <3>2. QED
        BY <1>1, <3>1, HighestExists DEF C
    <2>2. {d \in C : Score["all"][d] > Score["all"][c]} = {}
      <3>1. \A d \in C : Score["all"][d] \in Nat
        BY <1>1, MembershipAssumption
      <3>2. QED
        BY <2>1, <3>1
    <2>3. Cardinality({}) < Spread
      BY FS_EmptySet, MembershipAssumption
    <2>4. QED
      BY <2>2, <2>3
  <1>5. IsFiniteSet(H) /\ H \subseteq C
    <2>1. H \in SUBSET C
      OBVIOUS
    <2> HIDE DEF H
    <2>2. QED
      BY <1>1, <2>1, FS_Subset
  <1> HIDE DEF H
  <1>6. \A c \in H : c \in Member /\ c \in Serving /\ Score[k][c] \in Nat
    BY <1>1, <1>5, MembershipAssumption DEF C
  <1>7. PICK h \in H : \A d \in H : Score[k][h] >= Score[k][d]
    BY <1>4, <1>5, <1>6, HighestExists
  <1>8. ASSUME NEW m \in Serving
        PROVE  k \in Mine(m) <=> m = h
    <2>1. k \in Mine(m) <=> m \in H /\ \A c \in H : Score[k][m] >= Score[k][c]
      BY <1>3 DEF Mine
    <2>2. ASSUME m \in H, \A c \in H : Score[k][m] >= Score[k][c]
          PROVE  m = h
      <3>1. Score[k][m] = Score[k][h]
        BY <1>6, <1>7, <2>2
      <3>2. QED
        BY <1>6, <2>2, <3>1, MembershipAssumption
    <2>3. QED
      BY <1>7, <2>1, <2>2
  <1>9. {m \in Serving : k \in Mine(m)} = {h}
    BY <1>6, <1>8
  <1>10. QED
    BY <1>9, FS_Singleton

\* Rows, views, the lead and the heartbeats keep their types for any instances.
THEOREM MembershipTypeCorrect == MembershipSpec => []MembershipTypeOK
  <1>1. MembershipInit => MembershipTypeOK
    <2> SUFFICES ASSUME MembershipInit PROVE MembershipTypeOK
      OBVIOUS
    <2>1. PICK on \in SUBSET Member :
              /\ phase = [m \in Member |-> IF m \in on THEN "up" ELSE "down"]
              /\ rowAge = [m \in Member |-> IF m \in on THEN 0 ELSE NoMemberRow]
              /\ view = [m \in Member |-> IF m \in on THEN on ELSE {}]
              /\ leadRow \in (IF on = {} THEN {NoLead} ELSE on)
              /\ leaderId = [m \in Member |-> IF m \in on THEN leadRow ELSE NoLead]
      BY DEF MembershipInit
    <2>2. beat = [m \in Member |-> "done"] /\ leaderRead = [m \in Member |-> NoLead]
          /\ calls = {} /\ memberChanges = 0 /\ calm = 0
      BY DEF MembershipInit
    <2>3. rowAge \in [Member -> NoMemberRow..(Ttl + 1)] /\ calm \in 0..(Ttl + 2)
          /\ memberChanges \in 0..MemberChanges
      BY <2>1, <2>2, MembershipAssumption DEF NoMemberRow
    <2>4. leadRow \in Member \cup {NoLead}
      BY <2>1
    <2>5. leaderId \in [Member -> Member \cup {NoLead}] /\ leaderRead \in [Member -> Member \cup {NoLead}]
      BY <2>1, <2>2, <2>4
    <2>6. QED
      BY <2>1, <2>2, <2>3, <2>4, <2>5 DEF MembershipTypeOK
  <1>2. QED
    BY <1>1, MembershipTypeStep, PTL DEF MembershipSpec

\* For any number of instances: a lifetime of a row and a heartbeat after the
\* last change every instance knows who is up and who leads, and every item of
\* a workload is done by exactly one.
THEOREM WorkIsSettled == MembershipSpec => []WorkSettles
  <1>1. MembershipInit => MembersInv
    BY MembershipAssumption DEF MembershipInit, MembersInv, BeatInv, Serving
  <1>2. MembershipTypeOK /\ MembersInv => WorkSettles
    <2> SUFFICES ASSUME MembershipTypeOK, MembersInv, calm > Ttl + 1
                 PROVE  /\ \A m \in Serving : view[m] = Serving
                               /\ (leadRow \in Serving \cup {NoLead} => leaderId[m] = leadRow)
                        /\ Serving \cap Able # {} =>
                               \A k \in WorkItem : Cardinality({m \in Serving : k \in Mine(m)}) = 1
      BY DEF WorkSettles
    <2>1. calm >= 2 /\ calm >= Ttl + 2
      BY MembershipAssumption DEF MembershipTypeOK
    <2>2. \A m \in Serving : view[m] = Serving /\ (leadRow \in Serving \cup {NoLead} => leaderId[m] = leadRow)
      BY <2>1 DEF MembersInv, BeatInv, LeadStands
    <2>3. QED
      BY <2>2, OneDoesIt
  <1>3. QED
    BY <1>1, <1>2, MembershipTypeCorrect, MembersStep, PTL DEF MembershipSpec

-----------------------------------------------------------------------------
(* Maintenance: what the schedules mean is compared tick by tick with what *)
(* is computed from them; nothing of that depends on how the state was     *)
(* reached.                                                                *)

-----------------------------------------------------------------------------
(* Days.                                                                   *)

\* The day of a tick: it begins by then and has not ended.
LEMMA DayOf ==
    ASSUME MaintenanceAssumption, NEW x \in Int
    PROVE  /\ x \div TicksPerDay \in Int
           /\ (x \div TicksPerDay) * TicksPerDay <= x
           /\ x < (x \div TicksPerDay) * TicksPerDay + TicksPerDay
  BY DEF MaintenanceAssumption

\* A day that has begun is the day of the tick or an earlier one.
LEMMA DayFrom ==
    ASSUME MaintenanceAssumption, NEW d \in Int, NEW x \in Int, d * TicksPerDay <= x
    PROVE  d <= x \div TicksPerDay
  BY DEF MaintenanceAssumption

\* A day that has not begun is later than the day of the tick.
LEMMA DayUpTo ==
    ASSUME MaintenanceAssumption, NEW d \in Int, NEW x \in Int, x < d * TicksPerDay
    PROVE  x \div TicksPerDay < d
  BY DEF MaintenanceAssumption

-----------------------------------------------------------------------------
(* Smallest and largest.                                                   *)

\* A finite set of numbers has a largest one: else the sets of what is larger
\* than a member would have no smallest.
LEMMA FiniteLargest ==
    ASSUME NEW S \in SUBSET Int, IsFiniteSet(S), S # {}
    PROVE  \E k \in S : \A l \in S : l <= k
  <1> DEFINE above(k) == {l \in S : l > k}
             T == {above(k) : k \in S}
  <1>1. T \subseteq FiniteSubsetsOf(S) /\ T # {}
    <2>1. T \subseteq SUBSET S
      OBVIOUS
    <2>2. FiniteSubsetsOf(S) = SUBSET S
      BY FS_FiniteSubsetsOfFinite
    <2>3. PICK k \in S : TRUE
      OBVIOUS
    <2>4. above(k) \in T
      OBVIOUS
    <2> HIDE DEF T
    <2>5. QED
      BY <2>1, <2>2, <2>4
  <1>2. PICK x \in T : \A y \in T : ~(<<y, x>> \in StrictSubsetOrdering(S))
    <2>1. IsWellFoundedOn(StrictSubsetOrdering(S), FiniteSubsetsOf(S))
      BY FS_StrictSubsetOrderingWellFounded
    <2> HIDE DEF T
    <2>2. QED
      BY <1>1, <2>1, WFMin
  <1>3. PICK k \in S : x = above(k)
    BY <1>2
  <1>4. ASSUME NEW l \in S, ~(l <= k) PROVE FALSE
    <2>1. l \in Int /\ k \in Int /\ l > k
      BY <1>4
    <2>2. above(l) \in SUBSET S /\ above(k) \in SUBSET S
      OBVIOUS
    <2>3. above(l) \subseteq above(k)
      <3>1. \A m \in S : m \in Int /\ (m > l => m > k)
        BY <2>1
      <3>2. QED
        BY <3>1
    <2>4. l \in above(k) /\ l \notin above(l)
      BY <2>1
    <2>5. above(l) \in T
      OBVIOUS
    <2> HIDE DEF above, T
    <2>6. <<above(l), x>> \in StrictSubsetOrdering(S)
      BY <1>3, <2>2, <2>3, <2>4 DEF StrictSubsetOrdering
    <2>7. QED
      BY <1>2, <2>5, <2>6
  <1>5. QED
    BY <1>4

\* And a smallest one.
LEMMA FiniteSmallest ==
    ASSUME NEW S \in SUBSET Int, IsFiniteSet(S), S # {}
    PROVE  \E k \in S : \A l \in S : k <= l
  <1> DEFINE f == [x \in S |-> -x]
             M == {f[x] : x \in S}
  <1>1. f \in Surjection(S, M)
    BY DEF Surjection
  <1>2. IsFiniteSet(M)
    <2> HIDE DEF f, M
    <2>1. QED
      BY <1>1, FS_Surjection
  <1>3. M \subseteq Int /\ M # {}
    <2>1. \A x \in S : f[x] \in Int /\ f[x] \in M
      OBVIOUS
    <2>2. QED
      BY <2>1
  <1>4. PICK m \in M : \A l \in M : l <= m
    <2> HIDE DEF M
    <2>1. QED
      BY <1>2, <1>3, FiniteLargest
  <1>5. PICK k \in S : m = -k
    OBVIOUS
  <1>6. ASSUME NEW l \in S PROVE k <= l
    <2>1. f[l] \in M /\ f[l] = -l
      OBVIOUS
    <2>2. -l <= -k /\ l \in Int /\ k \in Int
      BY <1>4, <1>5, <2>1
    <2>3. QED
      BY <2>2
  <1>7. QED
    BY <1>6

\* What Min and Max choose.
LEMMA MinIs ==
    ASSUME NEW S \in SUBSET Int, IsFiniteSet(S), S # {}
    PROVE  Min(S) \in S /\ \A l \in S : Min(S) <= l
  BY FiniteSmallest DEF Min

LEMMA MaxIs ==
    ASSUME NEW S \in SUBSET Int, IsFiniteSet(S), S # {}
    PROVE  Max(S) \in S /\ \A l \in S : l <= Max(S)
  <1>1. \E k \in S : \A l \in S : k >= l
    BY FiniteLargest
  <1>2. QED
    BY <1>1 DEF Max

-----------------------------------------------------------------------------
(* The first interval of a set of occurrences.                             *)

Intervals == Int \X Int

\* Finite, none empty.
Proper(found) == IsFiniteSet(found) /\ \A o \in found : o \in Intervals /\ o[1] < o[2]

\* No occurrence that starts by then goes beyond it.
Over(found, end) == \A o \in found : o[1] <= end => o[2] <= end

Holds(found, t) == \E o \in found : o[1] <= t /\ t < o[2]

\* The starts and the ends of finitely many occurrences.
LEMMA EndsAre ==
    ASSUME NEW found, Proper(found)
    PROVE  /\ {o[1] : o \in found} \in SUBSET Int /\ IsFiniteSet({o[1] : o \in found})
           /\ {o[2] : o \in found} \in SUBSET Int /\ IsFiniteSet({o[2] : o \in found})
  <1>1. \A o \in found : o[1] \in Int /\ o[2] \in Int
    BY DEF Proper, Intervals
  <1>2. ASSUME NEW k \in {1, 2} PROVE IsFiniteSet({o[k] : o \in found})
    <2> DEFINE f == [o \in found |-> o[k]]
               M == {o[k] : o \in found}
    <2>1. f \in Surjection(found, M)
      BY DEF Surjection
    <2>2. IsFiniteSet(found)
      BY DEF Proper
    <2> HIDE DEF f
    <2>3. IsFiniteSet(M)
      <3> HIDE DEF M
      <3>1. QED
        BY <2>1, <2>2, FS_Surjection
    <2>4. QED
      BY <2>3
  <1>3. IsFiniteSet({o[1] : o \in found}) /\ IsFiniteSet({o[2] : o \in found})
    BY <1>2
  <1>4. QED
    BY <1>1, <1>3

LEMMA ProperPart ==
    ASSUME NEW found, Proper(found), NEW part \in SUBSET found
    PROVE  Proper(part)
  BY FS_Subset DEF Proper

\* The last end of the occurrences that start by a time, all of which end by it.
LEMMA LastEnd ==
    ASSUME NEW found, Proper(found), NEW t \in Int,
           \E o \in found : o[1] <= t,
           \A o \in found : o[1] <= t => o[2] <= t
    PROVE  \E o \in found : Over(found, o[2]) /\ o[2] <= t
  <1> DEFINE part == {o \in found : o[1] <= t}
             E == {o[2] : o \in part}
  <1>1. Proper(part) /\ part # {}
    BY ProperPart
  <1>2. E \in SUBSET Int /\ IsFiniteSet(E) /\ E # {}
    <2> HIDE DEF part
    <2>1. QED
      BY <1>1, EndsAre
  <1>3. PICK k \in E : \A l \in E : l <= k
    <2> HIDE DEF E
    <2>1. QED
      BY <1>2, FiniteLargest
  <1>4. PICK o \in part : k = o[2]
    BY <1>3
  <1>5. o \in found /\ o[2] <= t /\ k \in Int
    BY <1>2, <1>3, <1>4
  <1>6. ASSUME NEW q \in found, q[1] <= o[2] PROVE q[2] <= o[2]
    <2>1. q[1] \in Int /\ q[1] <= t
      BY <1>4, <1>5, <1>6 DEF Proper, Intervals
    <2>2. q[2] \in E
      BY <2>1
    <2>3. QED
      BY <1>3, <1>4, <2>2
  <1>7. QED
    BY <1>5, <1>6 DEF Over

\* The first interval begins with the first occurrence, ends with an occurrence,
\* is covered by occurrences, and none that has begun by its end goes beyond it.
LEMMA FirstOfIs ==
    ASSUME NEW found, Proper(found), found # {}
    PROVE  LET w == FirstOf(found)
           IN  /\ w = <<w[1], w[2]>> /\ w \in Intervals /\ w[1] < w[2]
               /\ \E o \in found : o[1] = w[1]
               /\ \A o \in found : w[1] <= o[1]
               /\ \E o \in found : o[2] = w[2]
               /\ Over(found, w[2])
               /\ \A o \in found : Over(found, o[2]) => w[2] <= o[2]
               /\ \A t \in w[1]..(w[2] - 1) : Holds(found, t)
  <1> DEFINE starts == {o[1] : o \in found}
             finals == {o[2] : o \in found}
             last == {p \in found : Over(found, p[2])}
             b == Min(starts)
             e == Min({o[2] : o \in last})
  <1>1. FirstOf(found) = <<b, e>>
    BY DEF FirstOf, Over
  <1>2. starts \in SUBSET Int /\ IsFiniteSet(starts) /\ starts # {}
    BY EndsAre
  <1>3. b \in starts /\ \A s \in starts : b <= s
    <2> HIDE DEF starts
    <2>1. QED
      BY <1>2, MinIs
  <1>4. last # {}
    <2>1. finals \in SUBSET Int /\ IsFiniteSet(finals) /\ finals # {}
      BY EndsAre
    <2>2. PICK k \in finals : \A l \in finals : l <= k
      <3> HIDE DEF finals
      <3>1. QED
        BY <2>1, FiniteLargest
    <2>3. PICK o \in found : k = o[2]
      BY <2>2
    <2>4. \A q \in found : q[2] <= o[2]
      BY <2>2, <2>3
    <2>5. QED
      BY <2>4 DEF Over
  <1>5. Proper(last)
    BY ProperPart
  <1> DEFINE E == {o[2] : o \in last}
  <1>6. E \in SUBSET Int /\ IsFiniteSet(E) /\ E # {}
    <2> HIDE DEF last
    <2>1. QED
      BY <1>4, <1>5, EndsAre
  <1>7. e \in E /\ \A l \in E : e <= l
    <2> HIDE DEF last, E
    <2>1. Min(E) \in E /\ \A l \in E : Min(E) <= l
      BY <1>6, MinIs
    <2>2. QED
      BY <2>1 DEF E
  <1>8. PICK first \in found : first[1] = b
    BY <1>3
  <1>9. PICK p \in found : p[2] = e /\ Over(found, p[2])
    BY <1>7
  <1>10. b \in Int /\ e \in Int
    BY <1>2, <1>3, <1>6, <1>7
  <1>11. \A o \in found : b <= o[1] /\ o[1] \in Int /\ o[2] \in Int /\ o[1] < o[2]
    BY <1>3 DEF Proper, Intervals
  <1>12. b < e
    BY <1>9, <1>10, <1>11
  <1>13. \A o \in found : Over(found, o[2]) => e <= o[2]
    BY <1>7
  <1> HIDE DEF starts, finals, last, b, e, E
  <1>14. ASSUME NEW t \in b..(e - 1), ~Holds(found, t) PROVE FALSE
    <2>1. t \in Int /\ b <= t /\ t < e
      BY <1>10
    <2>2. \A o \in found : o[1] <= t => o[2] <= t
      BY <1>11, <1>14, <2>1 DEF Holds
    <2>3. PICK o \in found : Over(found, o[2]) /\ o[2] <= t
      BY <1>8, <2>1, <2>2, LastEnd
    <2>4. QED
      BY <1>10, <1>11, <1>13, <2>1, <2>3
  <1>15. QED
    BY <1>1, <1>8, <1>9, <1>10, <1>11, <1>12, <1>13, <1>14 DEF Intervals

-----------------------------------------------------------------------------
(* The occurrences of a schedule.                                          *)

\* The ticks that a schedule means.
Ticks(s) == {t \in Int : During(s, t)}

\* Occurrences between two times: each is made of ticks that are meant, and
\* every tick between the times that is meant is in one of them.
Covers(found, ticks, after, until) ==
    /\ Proper(found)
    /\ \A o \in found : after < o[2] /\ o[1] <= until /\ \A t \in o[1]..(o[2] - 1) : t \in ticks
    /\ \A t \in after..until : t \in ticks => Holds(found, t)

\* Asked for from later on, the occurrences that start early are found as before.
Continues(s, after, until) ==
    \A later \in Int, end \in Int : after <= later /\ later <= end =>
        \A o \in Occurrences(s, later, end) : o[1] <= until => o \in Occurrences(s, after, until)

DayStart(s, d) == d * TicksPerDay + s.start
DayEnd(s, d) == (IF s.end <= s.start THEN d + 1 ELSE d) * TicksPerDay + s.end

\* A weekly window lasts less than two days from the start of its day.
LEMMA WeeklyFields ==
    ASSUME MaintenanceAssumption, NEW s \in WeeklySchedule, NEW d \in Int
    PROVE  /\ s.type = "weekly" /\ TicksPerDay \in Int /\ TicksPerDay > 0
           /\ s.start \in Int /\ s.end \in Int
           /\ DayStart(s, d) \in Int /\ DayEnd(s, d) \in Int
           /\ DayStart(s, d) < DayEnd(s, d)
           /\ d * TicksPerDay <= DayStart(s, d)
           /\ DayEnd(s, d) < (d + 2) * TicksPerDay
           /\ DayEnd(s, d) < DayStart(s, d) + 2 * TicksPerDay
  <1>1. /\ s.type = "weekly" /\ TicksPerDay \in Int /\ TicksPerDay > 0
        /\ s.start \in 0..(TicksPerDay - 1) /\ s.end \in 0..(TicksPerDay - 1)
    BY DEF MaintenanceAssumption, WeeklySchedule, Instant
  <1>2. d * TicksPerDay \in Int /\ (d + 1) * TicksPerDay = d * TicksPerDay + TicksPerDay
        /\ (d + 2) * TicksPerDay = d * TicksPerDay + 2 * TicksPerDay
    BY <1>1
  <1>3. CASE s.end <= s.start
    BY <1>1, <1>2, <1>3 DEF DayStart, DayEnd
  <1>4. CASE ~(s.end <= s.start)
    BY <1>1, <1>2, <1>4 DEF DayStart, DayEnd
  <1>5. QED
    BY <1>3, <1>4

\* The days that are looked at are all that count.
LEMMA WeeklyIs ==
    ASSUME MaintenanceAssumption, NEW s \in WeeklySchedule, NEW a \in Int, NEW u \in Int
    PROVE  Weekly(s, a, u) =
               {<<DayStart(s, d), DayEnd(s, d)>> : d \in {e \in Int : e % 7 \in s.days /\ DayEnd(s, e) > a /\ DayStart(s, e) <= u}}
  <1> DEFINE near == {d \in FirstDay(a \div TicksPerDay)..(u \div TicksPerDay + 1) : d % 7 \in s.days}
             shown == {e \in near : DayEnd(s, e) > a /\ DayStart(s, e) <= u}
             all == {e \in Int : e % 7 \in s.days /\ DayEnd(s, e) > a /\ DayStart(s, e) <= u}
  <1>1. Weekly(s, a, u) = {<<DayStart(s, d), DayEnd(s, d)>> : d \in shown}
    BY DEF Weekly, DayStart, DayEnd
  <1>2. a \div TicksPerDay \in Int /\ u \div TicksPerDay \in Int
    BY DayOf
  <1>3. shown \subseteq all
    BY <1>2 DEF FirstDay
  <1>4. ASSUME NEW d \in Int, DayEnd(s, d) > a, DayStart(s, d) <= u
        PROVE  d \in FirstDay(a \div TicksPerDay)..(u \div TicksPerDay + 1)
    <2>1. d * TicksPerDay <= u /\ a < (d + 2) * TicksPerDay
      <3> DEFINE x == d * TicksPerDay
                 y == (d + 2) * TicksPerDay
      <3>1. x \in Int /\ y \in Int
        BY DEF MaintenanceAssumption
      <3>2. x <= DayStart(s, d) /\ DayEnd(s, d) < y /\ DayStart(s, d) \in Int /\ DayEnd(s, d) \in Int
        BY WeeklyFields
      <3> HIDE DEF x, y
      <3>3. x <= u /\ a < y
        BY <1>4, <3>1, <3>2
      <3>4. QED
        BY <3>3 DEF x, y
    <2>2. d <= u \div TicksPerDay /\ a \div TicksPerDay < d + 2
      BY <2>1, DayFrom, DayUpTo
    <2>3. QED
      BY <1>2, <2>2 DEF FirstDay
  <1>5. all \subseteq shown
    BY <1>4
  <1>6. QED
    BY <1>1, <1>3, <1>5

\* The same for the meaning of the schedule.
LEMMA DuringWeekly ==
    ASSUME MaintenanceAssumption, NEW s \in WeeklySchedule, NEW t \in Int
    PROVE  During(s, t) <=> \E d \in Int : d % 7 \in s.days /\ DayStart(s, d) <= t /\ t < DayEnd(s, d)
  <1>1. t \div TicksPerDay \in Int
    BY DayOf
  <1>2. During(s, t) <=> \E d \in (t \div TicksPerDay - 1)..(t \div TicksPerDay) :
                             d % 7 \in s.days /\ DayStart(s, d) <= t /\ t < DayEnd(s, d)
    BY WeeklyFields DEF During, DayStart, DayEnd
  <1>3. ASSUME NEW d \in Int, DayStart(s, d) <= t, t < DayEnd(s, d)
        PROVE  d \in (t \div TicksPerDay - 1)..(t \div TicksPerDay)
    <2>1. d * TicksPerDay <= t /\ t < (d + 2) * TicksPerDay
      <3> DEFINE x == d * TicksPerDay
                 y == (d + 2) * TicksPerDay
      <3>1. x \in Int /\ y \in Int
        BY DEF MaintenanceAssumption
      <3>2. x <= DayStart(s, d) /\ DayEnd(s, d) < y /\ DayStart(s, d) \in Int /\ DayEnd(s, d) \in Int
        BY WeeklyFields
      <3> HIDE DEF x, y
      <3>3. x <= t /\ t < y
        BY <1>3, <3>1, <3>2
      <3>4. QED
        BY <3>3 DEF x, y
    <2>2. d <= t \div TicksPerDay /\ t \div TicksPerDay < d + 2
      BY <2>1, DayFrom, DayUpTo
    <2>3. QED
      BY <1>1, <2>2
  <1>4. QED
    BY <1>1, <1>2, <1>3

\* The occurrences of a weekly schedule are what it means.
LEMMA WeeklyCovers ==
    ASSUME MaintenanceAssumption, NEW s \in WeeklySchedule, NEW a \in Int, NEW u \in Int
    PROVE  Covers(Weekly(s, a, u), Ticks(s), a, u) /\ Continues(s, a, u)
  <1> DEFINE W == Weekly(s, a, u)
  <1>1. ASSUME NEW o \in W
        PROVE  \E d \in Int : /\ o = <<DayStart(s, d), DayEnd(s, d)>> /\ d % 7 \in s.days
                               /\ DayEnd(s, d) > a /\ DayStart(s, d) <= u
    BY WeeklyIs
  <1>2. ASSUME NEW d \in Int, d % 7 \in s.days, DayEnd(s, d) > a, DayStart(s, d) <= u
        PROVE  <<DayStart(s, d), DayEnd(s, d)>> \in W
    BY <1>2, WeeklyIs
  <1> HIDE DEF W
  <1>3. ASSUME NEW o \in W
        PROVE  /\ o \in Intervals /\ o[1] < o[2] /\ a < o[2] /\ o[1] <= u
               /\ o \in ((a - 2 * TicksPerDay)..u) \X (a..(u + 2 * TicksPerDay))
               /\ \A t \in o[1]..(o[2] - 1) : t \in Ticks(s)
    <2>1. PICK d \in Int : /\ o = <<DayStart(s, d), DayEnd(s, d)>> /\ d % 7 \in s.days
                           /\ DayEnd(s, d) > a /\ DayStart(s, d) <= u
      BY <1>1
    <2>2. /\ DayStart(s, d) \in Int /\ DayEnd(s, d) \in Int /\ TicksPerDay \in Int /\ TicksPerDay > 0
          /\ DayStart(s, d) < DayEnd(s, d) /\ DayEnd(s, d) < DayStart(s, d) + 2 * TicksPerDay
      BY WeeklyFields
    <2>3. ASSUME NEW t \in o[1]..(o[2] - 1) PROVE t \in Ticks(s)
      <3>1. t \in Int /\ DayStart(s, d) <= t /\ t < DayEnd(s, d)
        BY <2>1, <2>2
      <3>2. QED
        BY <2>1, <3>1, DuringWeekly DEF Ticks
    <2>4. QED
      BY <2>1, <2>2, <2>3 DEF Intervals
  <1>4. IsFiniteSet(W)
    <2> DEFINE box == ((a - 2 * TicksPerDay)..u) \X (a..(u + 2 * TicksPerDay))
    <2>1. IsFiniteSet((a - 2 * TicksPerDay)..u) /\ IsFiniteSet(a..(u + 2 * TicksPerDay))
      BY FS_Interval DEF MaintenanceAssumption
    <2>2. IsFiniteSet(box)
      BY <2>1, FS_Product
    <2>3. W \in SUBSET box
      BY <1>3
    <2> HIDE DEF box
    <2>4. QED
      BY <2>2, <2>3, FS_Subset
  <1>5. ASSUME NEW t \in a..u, t \in Ticks(s) PROVE Holds(W, t)
    <2>1. PICK d \in Int : d % 7 \in s.days /\ DayStart(s, d) <= t /\ t < DayEnd(s, d)
      BY <1>5, DuringWeekly DEF Ticks
    <2>2. DayEnd(s, d) > a /\ DayStart(s, d) <= u
      <3>1. DayStart(s, d) \in Int /\ DayEnd(s, d) \in Int
        BY WeeklyFields
      <3>2. t \in Int /\ a <= t /\ t <= u
        BY <1>5
      <3>3. QED
        BY <2>1, <3>1, <3>2
    <2>3. QED
      BY <1>2, <2>1, <2>2 DEF Holds
  <1>6. Continues(s, a, u)
    <2> SUFFICES ASSUME NEW later \in Int, NEW end \in Int, a <= later, later <= end,
                        NEW o \in Weekly(s, later, end), o[1] <= u
                 PROVE  o \in W
      BY WeeklyFields DEF Continues, Occurrences, W
    <2>1. PICK d \in Int : /\ o = <<DayStart(s, d), DayEnd(s, d)>> /\ d % 7 \in s.days
                           /\ DayEnd(s, d) > later /\ DayStart(s, d) <= end
      BY WeeklyIs
    <2>2. DayEnd(s, d) \in Int /\ DayStart(s, d) = o[1]
      BY <2>1, WeeklyFields
    <2>3. DayEnd(s, d) > a /\ DayStart(s, d) <= u
      BY <2>1, <2>2
    <2>4. QED
      BY <1>2, <2>1, <2>3
  <1>7. QED
    BY <1>3, <1>4, <1>5, <1>6 DEF Covers, Proper, W

\* Of a schedule for once.
LEMMA OnceCovers ==
    ASSUME NEW s \in OnceSchedule, NEW a \in Int, NEW u \in Int
    PROVE  Covers(Once(s, a, u), Ticks(s), a, u) /\ Continues(s, a, u)
  <1>1. s.type = "once" /\ s.start \in Int /\ s.end \in Int /\ s.start < s.end
    BY DEF OnceSchedule
  <1>2. \A o \in Once(s, a, u) : o = <<s.start, s.end>> /\ s.end > a /\ s.start <= u
    BY DEF Once
  <1>3. IsFiniteSet(Once(s, a, u))
    BY FS_EmptySet, FS_Singleton DEF Once
  <1>4. Proper(Once(s, a, u))
    BY <1>1, <1>2, <1>3 DEF Proper, Intervals
  <1>5. \A t \in Int : During(s, t) <=> s.start <= t /\ t < s.end
    BY <1>1 DEF During
  <1>6. ASSUME NEW t \in a..u, t \in Ticks(s) PROVE Holds(Once(s, a, u), t)
    <2>1. t \in Int /\ s.start <= t /\ t < s.end
      BY <1>5, <1>6 DEF Ticks
    <2>2. <<s.start, s.end>> \in Once(s, a, u)
      BY <1>1, <2>1 DEF Once
    <2>3. QED
      BY <2>1, <2>2 DEF Holds
  <1>7. Covers(Once(s, a, u), Ticks(s), a, u)
    BY <1>1, <1>2, <1>4, <1>5, <1>6 DEF Covers, Ticks
  <1>8. Continues(s, a, u)
    BY <1>1 DEF Continues, Occurrences, Once
  <1>9. QED
    BY <1>7, <1>8

\* A weekday field is read as it is meant.
LEMMA FieldRead ==
    ASSUME NEW f \in WeekdayField, Regular(f), NEW k \in 0..6
    PROVE  (f = AnyDay \/ k \in Weekdays(f)) <=> k \in Meant(f)
  <1>1. f.kind \in {"star", "one", "range"} /\ f.a \in 0..7 /\ f.b \in 0..7 /\ f.step \in Nat
    BY DEF WeekdayField
  <1>2. CASE f = AnyDay
    <2>1. AnyDay.kind = "star" /\ AnyDay.a = 0 /\ AnyDay.step = 0
      BY DEF AnyDay
    <2>2. k \in 0..6 /\ (k - 0) % 1 = 0 /\ k % 7 = k
      OBVIOUS
    <2>3. k \in Meant(f)
      BY <1>2, <2>1, <2>2 DEF Meant
    <2>4. QED
      BY <1>2, <2>3
  <1>3. CASE f.kind = "one" /\ f.step = 0
    <2>1. Weekdays(f) = {d \in (f.a % 7)..(f.a % 7) : (d - (f.a % 7)) % 1 = 0}
      BY <1>3 DEF Weekdays
    <2>2. Meant(f) = {d % 7 : d \in {e \in f.a..f.a : (e - f.a) % 1 = 0}}
      BY <1>3 DEF Meant
    <2>3. k \in Weekdays(f) <=> k = f.a % 7
      BY <1>1, <2>1
    <2>4. k \in Meant(f) <=> k = f.a % 7
      BY <1>1, <2>2
    <2>5. f # AnyDay
      BY <1>3 DEF AnyDay
    <2>6. QED
      BY <2>3, <2>4, <2>5
  <1>4. CASE f.kind = "range"
    <2> DEFINE stride == IF f.step = 0 THEN 1 ELSE f.step
    <2>1. f # AnyDay /\ f.kind # "one" /\ f.kind # "star"
      BY <1>4 DEF AnyDay
    <2>2. /\ Weekdays(f) = IF f.b % 7 < f.a % 7 THEN ((f.a % 7)..6) \cup (0..(f.b % 7))
                            ELSE {d \in (f.a % 7)..(f.b % 7) : (d - (f.a % 7)) % stride = 0}
          /\ Meant(f) = {d % 7 : d \in {e \in f.a..f.b : (e - f.a) % stride = 0}}
                            \cup IF f.b < f.a THEN (f.a..6) \cup (0..f.b) ELSE {}
      BY <1>4, <2>1 DEF Weekdays, Meant
    <2>3. stride \in Nat /\ stride > 0
      BY <1>1
    <2> HIDE DEF stride
    <2>4. CASE f.a <= f.b /\ f.b < 7
      <3>1. f.a % 7 = f.a /\ f.b % 7 = f.b /\ ~(f.b < f.a)
        BY <1>1, <2>4
      <3>2. \A e \in f.a..f.b : e % 7 = e
        BY <1>1, <2>4
      <3>3. Meant(f) = {e \in f.a..f.b : (e - f.a) % stride = 0}
        BY <2>2, <3>1, <3>2
      <3>4. QED
        BY <2>1, <2>2, <3>1, <3>3
    <2>5. CASE f.step = 0 /\ <<f.a, f.b>> # <<0, 7>> /\ ~(f.a <= f.b /\ f.b < 7)
      <3>1. \A e \in Int : (e - f.a) % stride = 0 /\ (e - (f.a % 7)) % stride = 0
        <4>1. stride = 1
          BY <2>5 DEF stride
        <4>2. \A e \in Int : e % 1 = 0
          OBVIOUS
        <4>3. QED
          BY <1>1, <4>1, <4>2
      <3>2. /\ Weekdays(f) = IF f.b % 7 < f.a % 7 THEN ((f.a % 7)..6) \cup (0..(f.b % 7)) ELSE (f.a % 7)..(f.b % 7)
            /\ Meant(f) = {d % 7 : d \in f.a..f.b} \cup IF f.b < f.a THEN (f.a..6) \cup (0..f.b) ELSE {}
        <4>1. f.a % 7 \in Int /\ f.b % 7 \in Int
          BY <1>1
        <4>2. {d \in (f.a % 7)..(f.b % 7) : (d - (f.a % 7)) % stride = 0} = (f.a % 7)..(f.b % 7)
          <5>1. \A d \in (f.a % 7)..(f.b % 7) : d \in Int
            BY <4>1
          <5>2. QED
            BY <3>1, <5>1
        <4>3. {e \in f.a..f.b : (e - f.a) % stride = 0} = f.a..f.b
          <5>1. \A e \in f.a..f.b : e \in Int
            BY <1>1
          <5>2. QED
            BY <3>1, <5>1
        <4>4. QED
          BY <2>2, <4>2, <4>3
      <3>3. CASE f.b = 7
        <4>1. f.b % 7 = 0 /\ f.a \in 1..7
          BY <1>1, <2>5, <3>3
        <4>2. k \in Weekdays(f) <=> k = 0 \/ f.a <= k
          BY <3>2, <4>1
        <4>3. k \in Meant(f) <=> k = 0 \/ f.a <= k
          <5>1. k \in Meant(f) <=> \E d \in f.a..7 : k = d % 7
            BY <3>2, <3>3, <4>1
          <5>2. QED
            BY <4>1, <5>1
        <4>4. QED
          BY <2>1, <4>2, <4>3
      <3>4. CASE f.b # 7
        <4>1. f.b \in 0..6 /\ f.b < f.a /\ f.b % 7 = f.b /\ f.a \in 1..7
          BY <1>1, <2>5, <3>4
        <4>2. k \in Meant(f) <=> f.a <= k \/ k <= f.b
          <5>1. f.a..f.b = {}
            BY <1>1, <4>1
          <5>2. k \in Meant(f) <=> k \in f.a..6 \/ k \in 0..f.b
            BY <3>2, <4>1, <5>1
          <5>3. QED
            BY <4>1, <5>2
        <4>3. k \in Weekdays(f) <=> f.a <= k \/ k <= f.b
          BY <3>2, <4>1
        <4>4. QED
          BY <2>1, <4>2, <4>3
      <3>5. QED
        BY <3>3, <3>4
    <2>6. QED
      BY <1>1, <2>1, <2>4, <2>5, <1>4 DEF Regular
  <1>5. QED
    BY <1>1, <1>2, <1>3, <1>4 DEF Regular

\* Whatever field the parser takes, it is read as it is understood to be.
LEMMA FieldUnderstood ==
    ASSUME NEW f \in WeekdayField, Accepted(f), NEW k \in 0..6
    PROVE  (f = AnyDay \/ k \in Weekdays(f)) <=> k \in Understood(f)
  <1>1. f.kind \in {"star", "one", "range"} /\ f.a \in 0..7 /\ f.b \in 0..7 /\ f.step \in Nat
    BY DEF WeekdayField
  <1>2. CASE Regular(f)
    BY <1>2, FieldRead DEF Understood
  <1>3. CASE ~Regular(f) /\ f.kind # "range"
    <2>1. f # AnyDay /\ f.step # 0 /\ (f.kind = "one" => f.a % 7 = 0)
      BY <1>1, <1>3 DEF Regular, Accepted
    <2>2. Weekdays(f) = {d \in 0..0 : (d - 0) % f.step = 0}
      BY <1>1, <1>3, <2>1 DEF Weekdays
    <2>3. (0 - 0) % f.step = 0
      BY <1>1, <2>1
    <2>4. Understood(f) = {0}
      BY <1>3 DEF Understood
    <2>5. QED
      BY <2>1, <2>2, <2>3, <2>4
  <1>4. CASE ~Regular(f) /\ f.kind = "range"
    <2> DEFINE stride == IF f.step = 0 THEN 1 ELSE f.step
    <2>1. f # AnyDay
      BY <1>4 DEF AnyDay
    <2>2. Weekdays(f) = IF f.b % 7 < f.a % 7 THEN ((f.a % 7)..6) \cup (0..(f.b % 7))
                        ELSE {d \in (f.a % 7)..(f.b % 7) : (d - (f.a % 7)) % stride = 0}
      BY <1>4 DEF Weekdays
    <2>3. stride \in Nat /\ stride > 0 /\ 0 % stride = 0
      BY <1>1
    <2> HIDE DEF stride
    <2>4. CASE <<f.a, f.b>> = <<0, 7>>
      <3>1. f.a % 7 = 0 /\ f.b % 7 = 0
        BY <2>4
      <3>2. Weekdays(f) = {d \in 0..0 : (d - 0) % stride = 0}
        BY <2>2, <3>1
      <3>3. Weekdays(f) = {0}
        BY <2>3, <3>2
      <3>4. Understood(f) = {0}
        BY <1>4, <2>4 DEF Understood
      <3>5. QED
        BY <2>1, <3>3, <3>4
    <2>5. CASE <<f.a, f.b>> # <<0, 7>> /\ f.a = 7
      <3>1. f.step # 0 /\ stride = f.step
        BY <1>4, <2>5 DEF Regular, stride
      <3>2. f.a % 7 = 0 /\ f.b % 7 \in 0..6
        BY <1>1, <2>5
      <3>3. Weekdays(f) = {d \in 0..(f.b % 7) : (d - 0) % f.step = 0}
        BY <2>2, <3>1, <3>2
      <3>4. \A d \in 0..(f.b % 7) : d - 0 = d
        BY <3>2
      <3>5. Understood(f) = {d \in 0..(f.b % 7) : d % f.step = 0}
        BY <1>4, <2>5 DEF Understood
      <3>6. QED
        BY <2>1, <3>3, <3>4, <3>5
    <2>6. CASE f.a # 7 /\ <<f.a, f.b>> # <<0, 7>>
      <3>1. f.step # 0 /\ (f.b < f.a \/ f.b = 7)
        BY <1>1, <1>4, <2>6 DEF Regular
      <3>2. f.a % 7 = f.a /\ f.b % 7 < f.a
        BY <1>1, <2>6, <3>1
      <3>3. Weekdays(f) = (f.a..6) \cup (0..(f.b % 7))
        BY <2>2, <3>2
      <3>4. Understood(f) = (f.a..6) \cup (0..(f.b % 7))
        BY <1>4, <2>6 DEF Understood
      <3>5. QED
        BY <2>1, <3>3, <3>4
    <2>7. QED
      BY <2>4, <2>5, <2>6
  <1>5. QED
    BY <1>2, <1>3, <1>4

\* A schedule fires when it is meant to.
LEMMA FiresAsMeant ==
    ASSUME MaintenanceAssumption, NEW s \in CronSchedule, NEW t \in Int
    PROVE  /\ s.type = "cron" /\ s.duration \in Int /\ s.duration > 0
           /\ Fires(s, t) <=> t % TicksPerDay \in s.ticks /\ FallsOn(s, t \div TicksPerDay)
  <1>1. s.type = "cron" /\ s.duration \in Int /\ s.duration > 0 /\ s.weekdays \in WeekdayField /\ Accepted(s.weekdays)
    BY DEF CronSchedule
  <1>2. (t \div TicksPerDay) % 7 \in 0..6
    <2>1. \A d \in Int : d % 7 \in 0..6
      OBVIOUS
    <2>2. QED
      BY <2>1, DayOf
  <1> DEFINE day == t \div TicksPerDay
             f == s.weekdays
  <1>3. FiresOn(s, t \div TicksPerDay) <=> FallsOn(s, t \div TicksPerDay)
    <2>1. (f = AnyDay \/ day % 7 \in Weekdays(f)) <=> day % 7 \in Understood(f)
      BY <1>1, <1>2, FieldUnderstood
    <2>2. FiresOn(s, day) <=> \/ f = AnyDay /\ s.dates = {}
                              \/ f # AnyDay /\ day % 7 \in Weekdays(f)
                              \/ day \in s.dates
      BY DEF FiresOn
    <2>3. FallsOn(s, day) <=> IF s.dates = {} THEN day % 7 \in Understood(f)
                              ELSE day \in s.dates \/ (f # AnyDay /\ day % 7 \in Understood(f))
      BY DEF FallsOn
    <2> HIDE DEF day, f
    <2>4. QED
      BY <2>1, <2>2, <2>3 DEF day
  <1>4. QED
    BY <1>1, <1>3 DEF Fires

LEMMA DuringCron ==
    ASSUME MaintenanceAssumption, NEW s \in CronSchedule, NEW t \in Int
    PROVE  During(s, t) <=> \E u \in Int : u <= t /\ t < u + s.duration /\ Fires(s, u)
  <1>1. s.type = "cron" /\ s.duration \in Int
    BY FiresAsMeant
  <1>2. During(s, t) <=> \E u \in (t - s.duration + 1)..t : Fires(s, u)
    <2>1. \A u \in (t - s.duration + 1)..t : u \in Int
      BY <1>1
    <2>2. During(s, t) <=> \E u \in (t - s.duration + 1)..t :
             u % TicksPerDay \in s.ticks /\ FallsOn(s, u \div TicksPerDay)
      BY <1>1 DEF During
    <2>3. QED
      BY <2>1, <2>2, FiresAsMeant
  <1>3. \A u \in Int : u \in (t - s.duration + 1)..t <=> u <= t /\ t < u + s.duration
    BY <1>1
  <1>4. \A u \in (t - s.duration + 1)..t : u \in Int
    BY <1>1
  <1>5. QED
    BY <1>2, <1>3, <1>4

\* Where the search begins.
LastFires(s, a) == {t \in (a - s.duration)..a : Fires(s, t)}
Cursor(s, a) == IF LastFires(s, a) = {} THEN a ELSE Max(LastFires(s, a))

\* The last fire before the time, or the time.
LEMMA CursorIs ==
    ASSUME MaintenanceAssumption, NEW s \in CronSchedule, NEW a \in Int
    PROVE  /\ Cursor(s, a) \in Int /\ a - s.duration <= Cursor(s, a) /\ Cursor(s, a) <= a
           /\ Cursor(s, a) < a => Fires(s, Cursor(s, a))
           /\ \A t \in Int : a - s.duration <= t /\ t <= a /\ Fires(s, t) =>
                  t <= Cursor(s, a) /\ Fires(s, Cursor(s, a))
  <1> DEFINE L == LastFires(s, a)
  <1>1. s.duration \in Int /\ s.duration > 0
    BY FiresAsMeant
  <1>2. \A t \in L : t \in Int /\ a - s.duration <= t /\ t <= a /\ Fires(s, t)
    BY <1>1 DEF LastFires
  <1>3. \A t \in Int : a - s.duration <= t /\ t <= a /\ Fires(s, t) => t \in L
    BY <1>1 DEF LastFires
  <1>4. IsFiniteSet(L)
    <2>1. IsFiniteSet((a - s.duration)..a)
      BY <1>1, FS_Interval
    <2>2. L \in SUBSET ((a - s.duration)..a)
      BY DEF LastFires
    <2>3. QED
      BY <2>1, <2>2, FS_Subset
  <1>5. Cursor(s, a) = IF L = {} THEN a ELSE Max(L)
    BY DEF Cursor
  <1> HIDE DEF L
  <1>6. CASE L = {}
    BY <1>1, <1>3, <1>5, <1>6
  <1>7. CASE L # {}
    <2>1. Max(L) \in L /\ \A t \in L : t <= Max(L)
      BY <1>2, <1>4, <1>7, MaxIs
    <2>2. QED
      BY <1>2, <1>3, <1>5, <1>7, <2>1
  <1>8. QED
    BY <1>6, <1>7

\* The fires that are looked at.
LEMMA CronIs ==
    ASSUME MaintenanceAssumption, NEW s \in CronSchedule, NEW a \in Int, NEW u \in Int
    PROVE  /\ \A o \in Cron(s, a, u) : \E t \in Int :
                  /\ o = <<t, t + s.duration>> /\ Fires(s, t)
                  /\ Cursor(s, a) <= t /\ t <= u /\ t + s.duration > a
           /\ \A t \in Int : Fires(s, t) /\ Cursor(s, a) <= t /\ t <= u /\ t + s.duration > a =>
                  <<t, t + s.duration>> \in Cron(s, a, u)
  <1>1. Cron(s, a, u) = {<<t, t + s.duration>> : t \in {x \in Cursor(s, a)..u : Fires(s, x) /\ x + s.duration > a}}
    BY DEF Cron, Cursor, LastFires
  <1>2. Cursor(s, a) \in Int
    BY CursorIs
  <1>3. QED
    BY <1>1, <1>2

\* Of a cron schedule: every fire that still runs is found, or the last one is.
LEMMA CronCovers ==
    ASSUME MaintenanceAssumption, NEW s \in CronSchedule, NEW a \in Int, NEW u \in Int
    PROVE  Covers(Cron(s, a, u), Ticks(s), a, u) /\ Continues(s, a, u)
  <1> DEFINE C == Cron(s, a, u)
  <1>1. s.type = "cron" /\ s.duration \in Int /\ s.duration > 0
    BY FiresAsMeant
  <1>2. ASSUME NEW o \in C
        PROVE  /\ o \in Intervals /\ o[1] < o[2] /\ a < o[2] /\ o[1] <= u
               /\ o \in ((a - s.duration)..u) \X (a..(u + s.duration))
               /\ \A t \in o[1]..(o[2] - 1) : t \in Ticks(s)
    <2>1. PICK f \in Int : /\ o = <<f, f + s.duration>> /\ Fires(s, f)
                           /\ Cursor(s, a) <= f /\ f <= u /\ f + s.duration > a
      BY CronIs
    <2>2. ASSUME NEW t \in o[1]..(o[2] - 1) PROVE t \in Ticks(s)
      <3>1. t \in Int /\ f <= t /\ t < f + s.duration
        BY <1>1, <2>1
      <3>2. QED
        BY <2>1, <3>1, DuringCron DEF Ticks
    <2>3. QED
      BY <1>1, <2>1, <2>2 DEF Intervals
  <1>3. IsFiniteSet(C)
    <2> DEFINE box == ((a - s.duration)..u) \X (a..(u + s.duration))
    <2>1. IsFiniteSet((a - s.duration)..u) /\ IsFiniteSet(a..(u + s.duration))
      <3>1. a - s.duration \in Int /\ u + s.duration \in Int
        BY <1>1
      <3>2. QED
        BY <3>1, FS_Interval
    <2>2. IsFiniteSet(box)
      BY <2>1, FS_Product
    <2>3. C \in SUBSET box
      BY <1>2
    <2> HIDE DEF box
    <2>4. QED
      BY <2>2, <2>3, FS_Subset
  <1>4. ASSUME NEW t \in a..u, t \in Ticks(s) PROVE Holds(C, t)
    <2>1. PICK f \in Int : f <= t /\ t < f + s.duration /\ Fires(s, f)
      BY <1>4, DuringCron DEF Ticks
    <2>2. t \in Int /\ a <= t /\ t <= u
      OBVIOUS
    <2>3. PICK g \in Int : g <= t /\ t < g + s.duration /\ Fires(s, g) /\ Cursor(s, a) <= g
      <3>1. CASE Cursor(s, a) <= f
        BY <2>1, <3>1
      <3>2. CASE ~(Cursor(s, a) <= f)
        <4>1. Cursor(s, a) \in Int /\ Cursor(s, a) <= a
          BY CursorIs
        <4>2. a - s.duration <= f /\ f <= a
          BY <1>1, <2>1, <2>2, <3>2, <4>1
        <4>3. Fires(s, Cursor(s, a))
          BY <2>1, <4>2, CursorIs
        <4>4. QED
          BY <1>1, <2>1, <2>2, <3>2, <4>1, <4>3
      <3>3. QED
        BY <3>1, <3>2
    <2>4. <<g, g + s.duration>> \in C
      BY <1>1, <2>2, <2>3, CronIs
    <2>5. QED
      BY <2>3, <2>4 DEF Holds
  <1>5. Continues(s, a, u)
    <2> SUFFICES ASSUME NEW later \in Int, NEW end \in Int, a <= later, later <= end,
                        NEW o \in Cron(s, later, end), o[1] <= u
                 PROVE  o \in C
      BY <1>1 DEF Continues, Occurrences
    <2>1. PICK f \in Int : /\ o = <<f, f + s.duration>> /\ Fires(s, f)
                           /\ Cursor(s, later) <= f /\ f <= end /\ f + s.duration > later
      BY CronIs
    <2>2. f <= u /\ f + s.duration > a
      BY <1>1, <2>1
    <2>3. Cursor(s, a) <= f
      <3> SUFFICES ASSUME ~(Cursor(s, a) <= f) PROVE FALSE
        OBVIOUS
      <3>1. Cursor(s, a) \in Int /\ Cursor(s, a) <= a
        BY CursorIs
      <3>2. a - s.duration <= f /\ f <= a
        BY <1>1, <2>2, <3>1
      <3>3. Fires(s, Cursor(s, a))
        BY <2>1, <3>2, CursorIs
      <3>4. later - s.duration <= Cursor(s, a) /\ Cursor(s, a) <= later
        BY <1>1, <2>1, <3>1
      <3>5. Cursor(s, a) <= Cursor(s, later) /\ Cursor(s, later) \in Int
        BY <3>1, <3>3, <3>4, CursorIs
      <3>6. QED
        BY <2>1, <3>1, <3>5
    <2>4. QED
      BY <2>1, <2>2, <2>3, CronIs
  <1>6. QED
    BY <1>2, <1>3, <1>4, <1>5 DEF Covers, Proper

-----------------------------------------------------------------------------
(* The occurrences of a plan.                                              *)

PlanTicks(plan) == UNION {Ticks(s) : s \in plan}

\* Of any schedule.
LEMMA ScheduleCovers ==
    ASSUME MaintenanceAssumption, NEW s \in Schedule, NEW a \in Int, NEW u \in Int
    PROVE  Covers(Occurrences(s, a, u), Ticks(s), a, u) /\ Continues(s, a, u)
  <1>1. CASE s \in WeeklySchedule
    BY <1>1, WeeklyFields, WeeklyCovers DEF Occurrences, WeeklySchedule
  <1>2. CASE s \in OnceSchedule
    <2>1. s.type = "once"
      BY <1>2 DEF OnceSchedule
    <2>2. QED
      BY <1>2, <2>1, OnceCovers DEF Occurrences
  <1>3. CASE s \in CronSchedule
    <2>1. s.type = "cron"
      BY <1>3 DEF CronSchedule
    <2>2. QED
      BY <1>3, <2>1, CronCovers DEF Occurrences
  <1>4. QED
    BY <1>1, <1>2, <1>3 DEF Schedule

\* Of all schedules of a plan together.
LEMMA PlanCovers ==
    ASSUME MaintenanceAssumption, NEW plan, IsFiniteSet(plan), plan \subseteq Schedule,
           NEW a \in Int, NEW u \in Int
    PROVE  Covers(MergedOccurrences(plan, a, u), PlanTicks(plan), a, u)
  <1> DEFINE F == MergedOccurrences(plan, a, u)
             G == {Occurrences(s, a, u) : s \in plan}
             f == [s \in plan |-> Occurrences(s, a, u)]
  <1>1. \A s \in plan : Covers(Occurrences(s, a, u), Ticks(s), a, u)
    BY ScheduleCovers
  <1>2. IsFiniteSet(G)
    <2>1. f \in Surjection(plan, G)
      BY DEF Surjection
    <2> HIDE DEF f, G
    <2>2. QED
      BY <2>1, FS_Surjection
  <1>3. \A g \in G : IsFiniteSet(g)
    BY <1>1 DEF Covers, Proper
  <1>4. IsFiniteSet(F)
    <2> HIDE DEF G
    <2>1. IsFiniteSet(UNION G)
      BY <1>2, <1>3, FS_UNION
    <2>2. QED
      BY <2>1 DEF MergedOccurrences, G
  <1>5. \A o \in F : \E s \in plan : o \in Occurrences(s, a, u)
    BY DEF MergedOccurrences
  <1>6. \A s \in plan : Occurrences(s, a, u) \subseteq F /\ Ticks(s) \subseteq PlanTicks(plan)
    BY DEF MergedOccurrences, PlanTicks
  <1>7. \A t \in PlanTicks(plan) : \E s \in plan : t \in Ticks(s)
    BY DEF PlanTicks
  <1> HIDE DEF F
  <1>8. Proper(F)
    BY <1>1, <1>4, <1>5 DEF Covers, Proper
  <1>9. ASSUME NEW o \in F PROVE a < o[2] /\ o[1] <= u /\ \A t \in o[1]..(o[2] - 1) : t \in PlanTicks(plan)
    <2>1. PICK s \in plan : o \in Occurrences(s, a, u)
      BY <1>5
    <2>2. QED
      BY <1>1, <1>6, <2>1 DEF Covers
  <1>10. ASSUME NEW t \in a..u, t \in PlanTicks(plan) PROVE Holds(F, t)
    <2>1. PICK s \in plan : t \in Ticks(s)
      BY <1>7, <1>10
    <2>2. Holds(Occurrences(s, a, u), t)
      BY <1>1, <2>1 DEF Covers
    <2>3. QED
      BY <1>6, <2>2 DEF Holds
  <1>11. QED
    BY <1>8, <1>9, <1>10 DEF Covers, F

LEMMA PlanContinues ==
    ASSUME MaintenanceAssumption, NEW plan, plan \subseteq Schedule,
           NEW a \in Int, NEW u \in Int, NEW later \in Int, NEW end \in Int, a <= later, later <= end,
           NEW o \in MergedOccurrences(plan, later, end), o[1] <= u
    PROVE  o \in MergedOccurrences(plan, a, u)
  <1>1. PICK s \in plan : o \in Occurrences(s, later, end)
    BY DEF MergedOccurrences
  <1>2. o \in Occurrences(s, a, u)
    BY <1>1, ScheduleCovers DEF Continues
  <1>3. QED
    BY <1>2 DEF MergedOccurrences

-----------------------------------------------------------------------------
(* The window that is next.                                                *)

GoodPlan(plan) == IsFiniteSet(plan) /\ plan \subseteq Schedule

\* The first ticks from a time on, and no tick right after them.
Leads(w, plan, a) ==
    /\ w = <<w[1], w[2]>> /\ w \in Intervals /\ w[1] < w[2] /\ a < w[2] /\ w[1] <= a + Horizon
    /\ \A t \in w[1]..(w[2] - 1) : t \in PlanTicks(plan)
    /\ \A t \in Int : a <= t /\ t < w[1] => t \notin PlanTicks(plan)
    /\ w[2] <= a + Horizon => w[2] \notin PlanTicks(plan)
    /\ \E o \in MergedOccurrences(plan, a, a + Horizon) : o[1] = w[1]
    /\ Over(MergedOccurrences(plan, a, a + Horizon), w[2])

\* There is no tick within the horizon, or the next window leads.
LEMMA NextIs ==
    ASSUME MaintenanceAssumption, NEW plan, GoodPlan(plan), NEW a \in Int
    PROVE  \/ NextWindow(plan, a) = NoWindow /\ \A t \in a..(a + Horizon) : t \notin PlanTicks(plan)
           \/ Leads(NextWindow(plan, a), plan, a)
  <1> DEFINE F == MergedOccurrences(plan, a, a + Horizon)
             w == NextWindow(plan, a)
  <1>1. Horizon \in Nat /\ a + Horizon \in Int
    BY DEF MaintenanceAssumption
  <1>2. Covers(F, PlanTicks(plan), a, a + Horizon)
    BY <1>1, PlanCovers DEF GoodPlan
  <1>3. w = FirstOf(F)
    BY DEF NextWindow
  <1> HIDE DEF w, F
  <1>4. CASE F = {}
    <2>1. w = NoWindow
      BY <1>3, <1>4 DEF FirstOf
    <2>2. \A t \in a..(a + Horizon) : t \notin PlanTicks(plan)
      BY <1>2, <1>4 DEF Covers, Holds
    <2>3. QED
      BY <2>1, <2>2 DEF w
  <1>5. CASE F # {}
    <2>1. Proper(F)
      BY <1>2 DEF Covers
    <2>2. /\ w = <<w[1], w[2]>> /\ w \in Intervals /\ w[1] < w[2]
          /\ \E o \in F : o[1] = w[1]
          /\ \A o \in F : w[1] <= o[1]
          /\ \E o \in F : o[2] = w[2]
          /\ Over(F, w[2])
          /\ \A t \in w[1]..(w[2] - 1) : Holds(F, t)
      BY <1>3, <1>5, <2>1, FirstOfIs
    <2>3. w[1] \in Int /\ w[2] \in Int
      BY <2>2 DEF Intervals
    <2>4. \A o \in F : o[1] \in Int /\ o[2] \in Int
      BY <2>1 DEF Proper, Intervals
    <2>5. a < w[2] /\ w[1] <= a + Horizon
      BY <1>2, <2>2 DEF Covers
    <2>6. ASSUME NEW t \in w[1]..(w[2] - 1) PROVE t \in PlanTicks(plan)
      <3>1. PICK o \in F : o[1] <= t /\ t < o[2]
        BY <2>2 DEF Holds
      <3>2. t \in o[1]..(o[2] - 1)
        BY <2>3, <2>4, <3>1
      <3>3. QED
        BY <1>2, <3>2 DEF Covers
    <2>7. ASSUME NEW t \in Int, a <= t, t <= a + Horizon, t \in PlanTicks(plan)
          PROVE  w[1] <= t /\ t # w[2]
      <3>1. PICK o \in F : o[1] <= t /\ t < o[2]
        BY <1>1, <1>2, <2>7 DEF Covers, Holds
      <3>2. w[1] <= t
        BY <2>2, <2>3, <2>4, <3>1
      <3>3. t # w[2]
        BY <2>2, <2>3, <2>4, <3>1 DEF Over
      <3>4. QED
        BY <3>2, <3>3
    <2>8. ASSUME NEW t \in Int, a <= t, t < w[1] PROVE t \notin PlanTicks(plan)
      <3>1. t <= a + Horizon
        BY <1>1, <2>3, <2>5, <2>8
      <3>2. QED
        BY <2>3, <2>7, <2>8, <3>1
    <2>9. w[2] <= a + Horizon => w[2] \notin PlanTicks(plan)
      BY <2>3, <2>5, <2>7
    <2>10. Leads(w, plan, a)
      BY <2>2, <2>5, <2>6, <2>8, <2>9 DEF Leads, F
    <2>11. QED
      BY <2>10 DEF w
  <1>6. QED
    BY <1>4, <1>5

\* The window that runs now, if the time is in one.
LEMMA RunningIs ==
    ASSUME MaintenanceAssumption, NEW plan, GoodPlan(plan), NEW now \in Nat
    PROVE  LET r == CurrentInterval(plan, now)
           IN  \/ r = NoWindow /\ now \notin PlanTicks(plan)
               \/ /\ r = NextWindow(plan, now) /\ Leads(r, plan, now)
                  /\ r # NoWindow /\ r[1] <= now
  <1> DEFINE w == NextWindow(plan, now)
             r == CurrentInterval(plan, now)
  <1>1. r = IF w[1] <= now THEN w ELSE NoWindow
    BY DEF CurrentInterval, Begun
  <1>2. now \in Int /\ Horizon \in Nat /\ now \in now..(now + Horizon)
    BY DEF MaintenanceAssumption
  <1>3. \/ w = NoWindow /\ \A t \in now..(now + Horizon) : t \notin PlanTicks(plan)
        \/ Leads(w, plan, now)
    BY <1>2, NextIs
  <1> HIDE DEF w
  <1>4. CASE w = NoWindow /\ \A t \in now..(now + Horizon) : t \notin PlanTicks(plan)
    <2>1. r = NoWindow /\ now \notin PlanTicks(plan)
      BY <1>1, <1>2, <1>4
    <2>2. QED
      BY <2>1
  <1>5. CASE Leads(w, plan, now) /\ w[1] <= now
    <2>1. w[2] \in Int /\ now < w[2]
      BY <1>5 DEF Leads, Intervals
    <2>2. w # NoWindow
      BY <2>1 DEF NoWindow, Never
    <2>3. r = w
      BY <1>1, <1>5
    <2>4. QED
      BY <1>5, <2>2, <2>3 DEF w
  <1>6. CASE Leads(w, plan, now) /\ ~(w[1] <= now)
    <2>1. w[1] \in Int /\ now < w[1]
      BY <1>6 DEF Leads, Intervals
    <2>2. now \notin PlanTicks(plan)
      BY <1>2, <1>6, <2>1 DEF Leads
    <2>3. r = NoWindow
      BY <1>1, <1>6
    <2>4. QED
      BY <2>2, <2>3
  <1>7. QED
    BY <1>3, <1>4, <1>5, <1>6

\* A window begins.
WindowBegins(plan, t) == t \in PlanTicks(plan) /\ t - 1 \notin PlanTicks(plan)

StartsNext(n, plan, now) ==
    \/ n = Never /\ \A t \in (now + 1)..(now + Horizon) : ~WindowBegins(plan, t)
    \/ /\ n \in Int /\ now < n
       /\ WindowBegins(plan, n) \/ (n \in PlanTicks(plan) /\ now + Horizon < n)
       /\ \A t \in (now + 1)..(n - 1) : ~WindowBegins(plan, t)

\* The next start when no window runs, and when one does.
LEMMA NextStartIdle ==
    ASSUME MaintenanceAssumption, NEW plan, GoodPlan(plan), NEW now \in Nat,
           CurrentInterval(plan, now) = NoWindow, now \notin PlanTicks(plan)
    PROVE  StartsNext(NextStart(plan, now), plan, now)
  <1> DEFINE w == NextWindow(plan, now)
             n == NextStart(plan, now)
  <1>1. n = IF w = NoWindow \/ w[1] <= now THEN Never ELSE w[1]
    BY DEF NextStart, NextAfter, ToCome
  <1>2. now \in Int /\ Horizon \in Nat
    BY DEF MaintenanceAssumption
  <1>3. \/ w = NoWindow /\ \A t \in now..(now + Horizon) : t \notin PlanTicks(plan)
        \/ Leads(w, plan, now)
    BY <1>2, NextIs
  <1>4. Begun(w, now) = NoWindow
    BY DEF CurrentInterval
  <1> HIDE DEF w, n
  <1>5. CASE w = NoWindow /\ \A t \in now..(now + Horizon) : t \notin PlanTicks(plan)
    <2>1. n = Never
      BY <1>1, <1>5
    <2>2. \A t \in (now + 1)..(now + Horizon) : t \in now..(now + Horizon)
      BY <1>2
    <2>3. QED
      BY <1>5, <2>1, <2>2 DEF StartsNext, WindowBegins, n
  <1>6. CASE Leads(w, plan, now)
    <2>1. w[1] \in Int /\ w[2] \in Int /\ w[1] < w[2] /\ now < w[2]
      BY <1>6 DEF Leads, Intervals
    <2>2. w # NoWindow
      BY <1>2, <2>1 DEF NoWindow, Never
    <2>3. ~(w[1] <= now)
      BY <1>4, <2>2 DEF Begun
    <2>4. n = w[1] /\ n \in Int /\ now < n
      BY <1>1, <1>2, <2>1, <2>2, <2>3
    <2>5. \A t \in Int : now <= t /\ t < n => t \notin PlanTicks(plan)
      BY <1>6, <2>4 DEF Leads
    <2>6. n \in w[1]..(w[2] - 1)
      BY <2>1, <2>4
    <2>7. n \in PlanTicks(plan)
      BY <1>6, <2>6 DEF Leads
    <2>8. now <= n - 1 /\ n - 1 < n /\ n - 1 \in Int
      BY <1>2, <2>4
    <2>9. WindowBegins(plan, n)
      BY <2>5, <2>7, <2>8 DEF WindowBegins
    <2>10. \A t \in (now + 1)..(n - 1) : t \notin PlanTicks(plan)
      BY <1>2, <2>4, <2>5
    <2>11. QED
      BY <2>4, <2>9, <2>10 DEF StartsNext, WindowBegins, n
  <1>7. QED
    BY <1>3, <1>5, <1>6

LEMMA NextStartRunning ==
    ASSUME MaintenanceAssumption, NEW plan, GoodPlan(plan), NEW now \in Nat,
           NEW r, r = CurrentInterval(plan, now), Leads(r, plan, now), r # NoWindow, r[1] <= now
    PROVE  StartsNext(NextStart(plan, now), plan, now)
  <1> DEFINE e == r[2]
             w == NextWindow(plan, e)
             n == NextStart(plan, now)
  <1>1. n = IF w = NoWindow \/ w[1] <= now THEN Never ELSE w[1]
    BY DEF NextStart, NextAfter, ToCome
  <1>2. now \in Int /\ Horizon \in Nat
    BY DEF MaintenanceAssumption
  <1>3. e \in Int /\ now < e /\ r[1] \in Int
    BY DEF Leads, Intervals
  <1> HIDE DEF e
  <1>4. \/ w = NoWindow /\ \A t \in e..(e + Horizon) : t \notin PlanTicks(plan)
        \/ Leads(w, plan, e)
    BY <1>3, NextIs
  <1>5. ASSUME NEW t \in Int, now < t, t <= e PROVE t - 1 \in PlanTicks(plan)
    <2>1. t - 1 \in r[1]..(e - 1)
      BY <1>2, <1>3, <1>5
    <2>2. QED
      BY <2>1 DEF Leads, e
  <1> HIDE DEF w, n
  <1>6. CASE w = NoWindow /\ \A t \in e..(e + Horizon) : t \notin PlanTicks(plan)
    <2>1. n = Never
      BY <1>1, <1>6
    <2>2. ASSUME NEW t \in (now + 1)..(now + Horizon) PROVE ~WindowBegins(plan, t)
      <3>1. t \in Int /\ now < t /\ t <= e + Horizon
        BY <1>2, <1>3
      <3>2. CASE t <= e
        BY <1>5, <3>1, <3>2 DEF WindowBegins
      <3>3. CASE ~(t <= e)
        <4>1. t \in e..(e + Horizon)
          BY <1>2, <1>3, <3>1, <3>3
        <4>2. QED
          BY <1>6, <4>1 DEF WindowBegins
      <3>4. QED
        BY <3>2, <3>3
    <2>3. QED
      BY <2>1, <2>2 DEF StartsNext, n
  <1>7. CASE Leads(w, plan, e)
    <2>1. w[1] \in Int /\ w[2] \in Int /\ w[1] < w[2] /\ e < w[2]
      BY <1>7 DEF Leads, Intervals
    <2>2. w[1] <= now + Horizon => e < w[1]
      <3> SUFFICES ASSUME w[1] <= now + Horizon, ~(e < w[1]) PROVE FALSE
        OBVIOUS
      <3>1. PICK o \in MergedOccurrences(plan, e, e + Horizon) : o[1] = w[1]
        BY <1>7 DEF Leads
      <3>2. now + Horizon \in Int /\ e + Horizon \in Int /\ now <= e /\ e <= e + Horizon
        BY <1>2, <1>3
      <3>3. plan \subseteq Schedule
        BY DEF GoodPlan
      <3>4. o \in MergedOccurrences(plan, now, now + Horizon)
        BY <1>2, <1>3, <3>1, <3>2, <3>3, PlanContinues
      <3>5. e < o[2] /\ o[2] \in Int
        <4>1. Covers(MergedOccurrences(plan, e, e + Horizon), PlanTicks(plan), e, e + Horizon)
          BY <1>3, <3>2, PlanCovers DEF GoodPlan
        <4>2. QED
          BY <3>1, <4>1 DEF Covers, Proper, Intervals
      <3>6. o[1] <= e
        BY <1>3, <2>1, <3>1
      <3>7. o[2] <= e
        BY <3>4, <3>6 DEF Leads, Over, e
      <3>8. QED
        BY <1>3, <3>5, <3>7
    <2>3. ~(w[1] <= now)
      BY <1>2, <1>3, <2>1, <2>2
    <2>4. w # NoWindow
      BY <1>2, <1>3, <2>1 DEF NoWindow, Never
    <2>5. n = w[1] /\ n \in Int /\ now < n
      BY <1>1, <1>2, <2>1, <2>3, <2>4
    <2>6. n \in PlanTicks(plan)
      <3>1. n \in w[1]..(w[2] - 1)
        BY <2>1, <2>5
      <3>2. QED
        BY <1>7, <3>1 DEF Leads
    <2>7. \A t \in Int : e <= t /\ t < n => t \notin PlanTicks(plan)
      BY <1>7, <2>5 DEF Leads
    <2>8. ASSUME n <= now + Horizon PROVE WindowBegins(plan, n)
      <3>1. e <= n - 1 /\ n - 1 < n /\ n - 1 \in Int
        BY <1>3, <2>2, <2>5, <2>8
      <3>2. QED
        BY <2>6, <2>7, <3>1 DEF WindowBegins
    <2>9. WindowBegins(plan, n) \/ (n \in PlanTicks(plan) /\ now + Horizon < n)
      BY <1>2, <2>5, <2>6, <2>8
    <2>10. ASSUME NEW t \in (now + 1)..(n - 1) PROVE ~WindowBegins(plan, t)
      <3>1. t \in Int /\ now < t /\ t < n
        BY <1>2, <2>5
      <3>2. CASE t <= e
        BY <1>5, <3>1, <3>2 DEF WindowBegins
      <3>3. CASE ~(t <= e)
        <4>1. e <= t
          BY <1>3, <3>1, <3>3
        <4>2. QED
          BY <2>7, <3>1, <4>1 DEF WindowBegins
      <3>4. QED
        BY <3>2, <3>3
    <2>11. QED
      BY <2>5, <2>9, <2>10 DEF StartsNext, n
  <1>8. QED
    BY <1>4, <1>6, <1>7

LEMMA NextStartIs ==
    ASSUME MaintenanceAssumption, NEW plan, GoodPlan(plan), NEW now \in Nat
    PROVE  StartsNext(NextStart(plan, now), plan, now)
  <1>1. CASE CurrentInterval(plan, now) = NoWindow /\ now \notin PlanTicks(plan)
    BY <1>1, NextStartIdle
  <1>2. CASE /\ Leads(CurrentInterval(plan, now), plan, now)
             /\ CurrentInterval(plan, now) # NoWindow /\ CurrentInterval(plan, now)[1] <= now
    BY <1>2, NextStartRunning
  <1>3. QED
    BY <1>1, <1>2, RunningIs

-----------------------------------------------------------------------------
(* The state.                                                              *)

\* What the types say of the schedules and the clock.
LEMMA PlanIsGood ==
    ASSUME MaintenanceAssumption, MaintenanceTypeOK
    PROVE  /\ GoodPlan(schedules) /\ clock \in Nat /\ Horizon \in Nat /\ Linger \in Nat
           /\ \A t \in Int : InWindow(t) <=> t \in PlanTicks(schedules)
  <1>1. GoodPlan(schedules)
    BY FS_EmptySet DEF MaintenanceTypeOK, MaintenanceAssumption, GoodPlan
  <1>2. clock \in Nat /\ Horizon \in Nat /\ Linger \in Nat
    BY DEF MaintenanceTypeOK, MaintenanceAssumption
  <1>3. \A t \in Int : InWindow(t) <=> t \in PlanTicks(schedules)
    BY DEF InWindow, PlanTicks, Ticks
  <1>4. QED
    BY <1>1, <1>2, <1>3

\* An override that is on stays on to its end.
LEMMA OverrideStays ==
    ASSUME MaintenanceAssumption, MaintenanceTypeOK, OverrideActive(override, clock)
    PROVE  /\ OverrideUntil(override) \in Int /\ clock < OverrideUntil(override)
           /\ \A t \in Int : clock <= t /\ t < OverrideUntil(override) => OverrideActive(override, t)
  <1>1. clock \in Nat /\ Linger \in Nat
    BY PlanIsGood
  <1>2. override # NoOverride /\ override.from <= clock /\ clock < OverrideUntil(override)
    BY DEF OverrideActive
  <1>3. override.from \in Nat /\ override.until \in Nat /\ override.ended \in Nat \cup {Never}
    BY <1>2 DEF MaintenanceTypeOK
  <1>4. OverrideUntil(override) \in Int
    BY <1>1, <1>3 DEF OverrideUntil, Never
  <1>5. \A t \in Int : clock <= t => override.from <= t
    BY <1>1, <1>2, <1>3
  <1>6. QED
    BY <1>2, <1>4, <1>5 DEF OverrideActive

\* What is said about maintenance now.
OnNow(state) ==
    LET on(t) == InWindow(t) \/ OverrideActive(override, t)
    IN  /\ state.active <=> on(clock)
        /\ state.active => \A t \in clock..(state.until - 1) : on(t)
        /\ state.source = "window" => ~InWindow(state.until) \/ state.until > clock + Horizon

\* What is said about what comes.
OnNext(next) ==
    LET begins(t) == InWindow(t) /\ ~InWindow(t - 1)
    IN  /\ next = Never => \A t \in (clock + 1)..(clock + Horizon) : ~begins(t)
        /\ next # Never =>
            /\ begins(next) \/ (InWindow(next) /\ next > clock + Horizon)
            /\ \A t \in (clock + 1)..(next - 1) : ~begins(t)

\* Whether maintenance is on, and until when.
LEMMA NowIsMeant ==
    ASSUME MaintenanceAssumption, MaintenanceTypeOK
    PROVE  OnNow(EffectiveState)
  <1> DEFINE r == CurrentInterval(schedules, clock)
             e == r[2]
             o == OverrideUntil(override)
             state == EffectiveState
  <1>1. /\ GoodPlan(schedules) /\ clock \in Nat /\ Horizon \in Nat
        /\ \A t \in Int : InWindow(t) <=> t \in PlanTicks(schedules)
    BY PlanIsGood
  <1>2. \/ r = NoWindow /\ clock \notin PlanTicks(schedules)
        \/ Leads(r, schedules, clock) /\ r # NoWindow /\ r[1] <= clock
    BY <1>1, RunningIs
  <1>3. state = Combined(r, NextStart(schedules, clock), o)
    BY DEF EffectiveState
  <1> HIDE DEF r, o, state
  <1>4. ASSUME r # NoWindow
        PROVE  /\ e \in Int /\ clock < e /\ InWindow(clock)
               /\ \A t \in Int : clock <= t /\ t < e => InWindow(t)
               /\ ~InWindow(e) \/ e > clock + Horizon
    <2>1. Leads(r, schedules, clock) /\ r[1] <= clock
      BY <1>2, <1>4
    <2>2. e \in Int /\ clock < e /\ r[1] \in Int
      BY <2>1 DEF Leads, Intervals
    <2>3. ASSUME NEW t \in Int, clock <= t, t < e PROVE InWindow(t)
      <3>1. t \in r[1]..(e - 1)
        BY <1>1, <2>1, <2>2, <2>3
      <3>2. QED
        BY <1>1, <2>1, <3>1 DEF Leads
    <2>4. ~InWindow(e) \/ e > clock + Horizon
      BY <1>1, <2>1, <2>2 DEF Leads
    <2>5. QED
      BY <1>1, <2>2, <2>3, <2>4
  <1>5. r = NoWindow => ~InWindow(clock) /\ e = Never
    <2>1. ~Leads(NoWindow, schedules, clock)
      BY DEF Leads, NoWindow, Never
    <2>2. QED
      BY <1>1, <1>2 DEF NoWindow
  <1> HIDE DEF e
  <1>6. CASE OverrideActive(override, clock)
    <2>1. /\ o \in Int /\ clock < o
          /\ \A t \in Int : clock <= t /\ t < o => OverrideActive(override, t)
      BY <1>6, OverrideStays DEF o
    <2>2. state.active /\ state.source = "override" /\ state.until = IF e > o THEN e ELSE o
      BY <1>3, <1>6 DEF Combined, e
    <2>3. ASSUME NEW t \in clock..(state.until - 1) PROVE InWindow(t) \/ OverrideActive(override, t)
      <3>1. CASE e > o /\ r # NoWindow
        BY <1>1, <1>4, <2>2, <2>3, <3>1
      <3>2. CASE e > o /\ r = NoWindow
        BY <1>1, <1>5, <2>1, <3>2 DEF Never
      <3>3. CASE ~(e > o)
        BY <1>1, <2>1, <2>2, <2>3, <3>3
      <3>4. QED
        BY <3>1, <3>2, <3>3
    <2>4. QED
      BY <1>6, <2>2, <2>3 DEF OnNow, state
  <1>7. CASE ~OverrideActive(override, clock) /\ r # NoWindow
    <2>1. state.active /\ state.source = "window" /\ state.until = e
      BY <1>3, <1>7 DEF Combined, e
    <2>2. \A t \in clock..(e - 1) : InWindow(t)
      BY <1>1, <1>4, <1>7
    <2>3. QED
      BY <1>4, <1>7, <2>1, <2>2 DEF OnNow, state
  <1>8. CASE ~OverrideActive(override, clock) /\ r = NoWindow
    <2>1. ~state.active /\ state.source = "none"
      BY <1>3, <1>8 DEF Combined
    <2>2. QED
      BY <1>5, <1>8, <2>1 DEF OnNow, state
  <1>9. QED
    BY <1>6, <1>7, <1>8

\* When the next window starts.
LEMMA NextIsMeant ==
    ASSUME MaintenanceAssumption, MaintenanceTypeOK
    PROVE  OnNext(NextStart(schedules, clock))
  <1> DEFINE n == NextStart(schedules, clock)
  <1>1. /\ GoodPlan(schedules) /\ clock \in Nat /\ Horizon \in Nat
        /\ \A t \in Int : InWindow(t) <=> t \in PlanTicks(schedules)
    BY PlanIsGood
  <1>2. StartsNext(n, schedules, clock)
    BY <1>1, NextStartIs
  <1> HIDE DEF n
  <1>3. \A t \in Int : (InWindow(t) /\ ~InWindow(t - 1)) <=> WindowBegins(schedules, t)
    BY <1>1 DEF WindowBegins
  <1>4. CASE n = Never /\ \A t \in (clock + 1)..(clock + Horizon) : ~WindowBegins(schedules, t)
    <2>1. \A t \in (clock + 1)..(clock + Horizon) : t \in Int
      BY <1>1
    <2>2. QED
      BY <1>3, <1>4, <2>1 DEF OnNext, n
  <1>5. CASE /\ n \in Int /\ clock < n
             /\ WindowBegins(schedules, n) \/ (n \in PlanTicks(schedules) /\ clock + Horizon < n)
             /\ \A t \in (clock + 1)..(n - 1) : ~WindowBegins(schedules, t)
    <2>1. n # Never
      BY <1>1, <1>5 DEF Never
    <2>2. \A t \in (clock + 1)..(n - 1) : t \in Int
      BY <1>1, <1>5
    <2>3. (InWindow(n) /\ ~InWindow(n - 1)) \/ (InWindow(n) /\ n > clock + Horizon)
      BY <1>1, <1>3, <1>5
    <2>4. \A t \in (clock + 1)..(n - 1) : ~(InWindow(t) /\ ~InWindow(t - 1))
      BY <1>3, <1>5, <2>2
    <2>5. QED
      BY <2>1, <2>3, <2>4 DEF OnNext, n
  <1>6. QED
    BY <1>2, <1>4, <1>5 DEF StartsNext

LEMMA StateIsMeant ==
    ASSUME MaintenanceAssumption, MaintenanceTypeOK
    PROVE  IsMeant(EffectiveState)
  <1>1. EffectiveState.next = NextStart(schedules, clock)
    BY DEF EffectiveState, Combined
  <1>2. QED
    BY <1>1, NowIsMeant, NextIsMeant DEF IsMeant, OnNow, OnNext

-----------------------------------------------------------------------------
(* The list of windows.                                                    *)

\* Where an interval begins: no earlier occurrence reaches it.
Begin(found) == {o[1] : o \in {p \in found : \A q \in found : q[1] < p[1] => q[2] < p[1]}}
From(found, begin) == {o \in found : o[1] >= begin}

\* The interval from a start on.
LEMMA IntervalIs ==
    ASSUME NEW found, Proper(found), NEW x \in Begin(found)
    PROVE  LET w == FirstOf(From(found, x))
           IN  /\ x \in Int /\ w \in Intervals /\ w[1] = x /\ w[1] < w[2]
               /\ \A q \in found : q[1] < x => q[2] < x
               /\ \A q \in found : q[1] <= w[2] => q[2] <= w[2]
               /\ \A o \in From(found, x) : Over(From(found, x), o[2]) => w[2] <= o[2]
               /\ \A t \in x..(w[2] - 1) : Holds(found, t)
  <1> DEFINE F == From(found, x)
             w == FirstOf(F)
  <1>1. PICK p \in found : x = p[1] /\ \A q \in found : q[1] < p[1] => q[2] < p[1]
    BY DEF Begin
  <1>2. \A o \in found : o[1] \in Int /\ o[2] \in Int
    BY DEF Proper, Intervals
  <1>3. F \in SUBSET found /\ p \in F /\ \A o \in F : x <= o[1]
    BY <1>1, <1>2 DEF From
  <1>4. Proper(F)
    BY <1>3, ProperPart
  <1> HIDE DEF F, w
  <1>5. /\ w \in Intervals /\ w[1] < w[2]
        /\ \E o \in F : o[1] = w[1]
        /\ \A o \in F : w[1] <= o[1]
        /\ Over(F, w[2])
        /\ \A o \in F : Over(F, o[2]) => w[2] <= o[2]
        /\ \A t \in w[1]..(w[2] - 1) : Holds(F, t)
    BY <1>3, <1>4, FirstOfIs DEF w
  <1>6. w[1] \in Int /\ w[2] \in Int /\ x \in Int
    BY <1>1, <1>2, <1>5 DEF Intervals
  <1>7. w[1] = x
    BY <1>1, <1>3, <1>5, <1>6
  <1>8. ASSUME NEW q \in found, q[1] <= w[2] PROVE q[2] <= w[2]
    <2>1. CASE q[1] < x
      BY <1>1, <1>2, <1>5, <1>6, <1>7, <2>1
    <2>2. CASE ~(q[1] < x)
      <3>1. q \in F
        BY <1>2, <1>6, <2>2 DEF F, From
      <3>2. QED
        BY <1>5, <1>8, <3>1 DEF Over
    <2>3. QED
      BY <2>1, <2>2
  <1>9. \A t \in x..(w[2] - 1) : Holds(found, t)
    BY <1>3, <1>5, <1>7 DEF Holds
  <1>10. QED
    BY <1>1, <1>5, <1>6, <1>7, <1>8, <1>9 DEF w, F

\* An interval ends before the next one begins.
LEMMA EndsBefore ==
    ASSUME NEW found, Proper(found), NEW x \in Begin(found), NEW y \in Begin(found), x < y
    PROVE  FirstOf(From(found, x))[2] < y
  <1> DEFINE F == From(found, x)
             w == FirstOf(F)
  <1>1. /\ x \in Int /\ w \in Intervals /\ w[1] = x /\ w[1] < w[2]
        /\ \A o \in F : Over(F, o[2]) => w[2] <= o[2]
    BY IntervalIs
  <1>2. y \in Int /\ \A q \in found : q[1] < y => q[2] < y
    BY IntervalIs
  <1>3. PICK p \in found : x = p[1]
    BY DEF Begin
  <1>4. \A o \in found : o[1] \in Int /\ o[2] \in Int
    BY DEF Proper, Intervals
  <1>5. F \in SUBSET found /\ p \in F
    BY <1>3, <1>4 DEF From
  <1>6. Proper(F)
    BY <1>5, ProperPart
  <1> HIDE DEF F, w
  <1>7. y - 1 \in Int /\ p[1] <= y - 1 /\ \A o \in F : o[1] <= y - 1 => o[2] <= y - 1
    BY <1>1, <1>2, <1>3, <1>4, <1>5
  <1>8. PICK o \in F : Over(F, o[2]) /\ o[2] <= y - 1
    BY <1>5, <1>6, <1>7, LastEnd
  <1>9. w[2] <= o[2] /\ w[2] \in Int /\ o[2] \in Int
    BY <1>1, <1>4, <1>5, <1>8 DEF Intervals
  <1>10. w[2] < y
    BY <1>2, <1>8, <1>9
  <1>11. QED
    BY <1>10 DEF w, F

\* Every occurrence is in the interval that begins last before it.
LEMMA Reached ==
    ASSUME NEW found, Proper(found), NEW o \in found
    PROVE  \E x \in Begin(found) : x <= o[1] /\ o[2] <= FirstOf(From(found, x))[2]
  <1> DEFINE B == {x \in Begin(found) : x <= o[1]}
  <1>1. \A q \in found : q[1] \in Int /\ q[2] \in Int /\ q[1] < q[2]
    BY DEF Proper, Intervals
  <1>2. Begin(found) \subseteq {q[1] : q \in found}
    BY DEF Begin
  <1>3. {q[1] : q \in found} \in SUBSET Int /\ IsFiniteSet({q[1] : q \in found})
    BY EndsAre
  <1>4. B \in SUBSET {q[1] : q \in found}
    BY <1>2
  <1>5. B \in SUBSET Int /\ IsFiniteSet(B)
    BY <1>3, <1>4, FS_Subset
  <1>6. B # {}
    <2>1. PICK k \in {q[1] : q \in found} : \A l \in {q[1] : q \in found} : k <= l
      BY <1>3, FiniteSmallest
    <2>2. PICK p \in found : k = p[1]
      BY <2>1
    <2>3. \A q \in found : p[1] <= q[1]
      BY <2>1, <2>2
    <2>4. p[1] \in Begin(found)
      BY <1>1, <2>3 DEF Begin
    <2>5. QED
      BY <2>3, <2>4
  <1>7. PICK x \in B : \A y \in B : y <= x
    <2> HIDE DEF B
    <2>1. QED
      BY <1>5, <1>6, FiniteLargest
  <1>8. x \in Begin(found) /\ x <= o[1] /\ x \in Int
    BY <1>5, <1>7
  <1>9. \A y \in Begin(found) : y <= o[1] => y <= x
    BY <1>7
  <1> DEFINE w == FirstOf(From(found, x))
  <1>10. /\ w \in Intervals /\ w[1] = x /\ w[1] < w[2]
         /\ \A q \in found : q[1] < x => q[2] < x
         /\ \A q \in found : q[1] <= w[2] => q[2] <= w[2]
    BY <1>8, IntervalIs
  <1>11. w[2] \in Int
    BY <1>10 DEF Intervals
  <1> HIDE DEF B, w
  <1>12. ASSUME ~(o[1] <= w[2]) PROVE FALSE
    <2> DEFINE late == {q \in found : w[2] < q[1]}
               S == {q[1] : q \in late}
    <2>1. Proper(late) /\ late # {}
      BY <1>1, <1>11, <1>12, ProperPart
    <2>2. S \in SUBSET Int /\ IsFiniteSet(S) /\ S # {}
      <3> HIDE DEF late
      <3>1. QED
        BY <2>1, EndsAre
    <2>3. PICK m \in S : \A l \in S : m <= l
      <3> HIDE DEF S
      <3>1. QED
        BY <2>2, FiniteSmallest
    <2>4. PICK p \in late : m = p[1]
      BY <2>3
    <2>5. p \in found /\ w[2] < p[1] /\ p[1] \in Int
      BY <1>1, <2>4
    <2>6. \A q \in found : w[2] < q[1] => p[1] <= q[1]
      BY <2>3, <2>4
    <2>7. \A q \in found : q[1] < p[1] => q[2] < p[1]
      BY <1>1, <1>10, <1>11, <2>5, <2>6
    <2>8. p[1] \in Begin(found)
      BY <2>5, <2>7 DEF Begin
    <2>9. p[1] <= o[1]
      BY <1>1, <1>11, <1>12, <2>6
    <2>10. QED
      BY <1>8, <1>9, <1>10, <1>11, <2>5, <2>8, <2>9
  <1>13. o[2] <= w[2]
    BY <1>10, <1>12
  <1>14. QED
    BY <1>8, <1>13 DEF w

\* The list holds the ticks of the schedules, in intervals apart from one another.
LEMMA ListIsMeant ==
    ASSUME MaintenanceAssumption, MaintenanceTypeOK
    PROVE  AreMeant(IntervalsBetween(schedules, clock, clock + Horizon), clock, clock + Horizon)
  <1> DEFINE end == clock + Horizon
             M == MergedOccurrences(schedules, clock, end)
             F == {o \in M : o[1] < end}
             L == IntervalsBetween(schedules, clock, end)
  <1>1. /\ GoodPlan(schedules) /\ clock \in Nat /\ Horizon \in Nat /\ end \in Int
        /\ \A t \in Int : InWindow(t) <=> t \in PlanTicks(schedules)
    BY PlanIsGood
  <1>2. Covers(M, PlanTicks(schedules), clock, end)
    BY <1>1, PlanCovers DEF GoodPlan
  <1>3. L = {FirstOf(From(F, x)) : x \in Begin(F)}
    BY DEF IntervalsBetween, Coalesced, Begin, From
  <1>4. Proper(F) /\ F \subseteq M
    <2> HIDE DEF M
    <2>1. Proper(M)
      BY <1>2 DEF Covers
    <2>2. QED
      BY <2>1, ProperPart
  <1>5. \A o \in F : o[1] \in Int /\ o[2] \in Int
    BY <1>4 DEF Proper, Intervals
  <1> HIDE DEF end, M, L
  <1>6. ASSUME NEW t \in clock..(end - 1), InWindow(t)
        PROVE  \E w \in L : w[1] <= t /\ t < w[2]
    <2>1. t \in Int /\ t \in clock..end /\ t < end
      BY <1>1
    <2>2. PICK o \in M : o[1] <= t /\ t < o[2]
      BY <1>1, <1>2, <1>6, <2>1 DEF Covers, Holds
    <2>3. o \in F
      <3>1. o[1] \in Int
        BY <1>2 DEF Covers, Proper, Intervals
      <3>2. QED
        BY <1>1, <2>1, <2>2, <3>1
    <2> HIDE DEF F
    <2>4. PICK x \in Begin(F) : x <= o[1] /\ o[2] <= FirstOf(From(F, x))[2]
      BY <1>4, <2>3, Reached
    <2> DEFINE w == FirstOf(From(F, x))
    <2>5. x \in Int /\ w[1] = x /\ w \in Intervals
      BY <1>4, IntervalIs
    <2>6. w[2] \in Int
      BY <2>5 DEF Intervals
    <2>7. w \in L
      BY <1>3
    <2> HIDE DEF w
    <2>8. w[1] <= t /\ t < w[2]
      BY <1>5, <2>1, <2>2, <2>3, <2>4, <2>5, <2>6 DEF w
    <2>9. QED
      BY <2>7, <2>8
  <1>7. ASSUME NEW t \in clock..(end - 1), NEW w \in L, w[1] <= t, t < w[2]
        PROVE  InWindow(t)
    <2> HIDE DEF F
    <2>1. PICK x \in Begin(F) : w = FirstOf(From(F, x))
      BY <1>3
    <2>2. /\ x \in Int /\ w \in Intervals /\ w[1] = x
          /\ \A s \in x..(w[2] - 1) : Holds(F, s)
      BY <1>4, <2>1, IntervalIs
    <2>3. t \in Int /\ t \in x..(w[2] - 1)
      BY <1>1, <1>7, <2>2 DEF Intervals
    <2>4. PICK o \in F : o[1] <= t /\ t < o[2]
      BY <2>2, <2>3 DEF Holds
    <2>5. t \in o[1]..(o[2] - 1) /\ o \in M
      BY <1>4, <1>5, <2>3, <2>4
    <2>6. QED
      BY <1>1, <1>2, <2>3, <2>5 DEF Covers
  <1>8. ASSUME NEW v \in L, NEW w \in L PROVE v = w \/ v[2] < w[1] \/ w[2] < v[1]
    <2> HIDE DEF F
    <2>1. PICK x \in Begin(F) : v = FirstOf(From(F, x))
      BY <1>3
    <2>2. PICK y \in Begin(F) : w = FirstOf(From(F, y))
      BY <1>3
    <2>3. x \in Int /\ y \in Int /\ v[1] = x /\ w[1] = y
      BY <1>4, <2>1, <2>2, IntervalIs
    <2>4. CASE x = y
      BY <2>1, <2>2, <2>4
    <2>5. CASE x < y
      BY <1>4, <2>1, <2>3, <2>5, EndsBefore
    <2>6. CASE y < x
      BY <1>4, <2>2, <2>3, <2>6, EndsBefore
    <2>7. QED
      BY <2>3, <2>4, <2>5, <2>6
  <1>9. QED
    BY <1>6, <1>7, <1>8 DEF AreMeant, L, end

-----------------------------------------------------------------------------

\* Schedules are of a plan, and an override starts before it finals, for any
\* plans, any length of a day and any horizon.
THEOREM MaintenanceTypeCorrect == MaintenanceSpec => []MaintenanceTypeOK
  <1>1. MaintenanceInit => MaintenanceTypeOK
    BY MaintenanceAssumption DEF MaintenanceAssumption, MaintenanceInit, MaintenanceTypeOK
  <1>2. MaintenanceTypeOK /\ [MaintenanceNext]_maintenanceVars => MaintenanceTypeOK'
    <2> SUFFICES ASSUME MaintenanceTypeOK, [MaintenanceNext]_maintenanceVars PROVE MaintenanceTypeOK'
      OBVIOUS
    <2>1. clock \in Nat /\ LastTick \in Nat /\ clock \in 0..LastTick /\ TicksPerDay \in Nat /\ TicksPerDay > 0
      BY MaintenanceAssumption DEF MaintenanceAssumption, MaintenanceTypeOK
    <2>2. CASE MaintenanceTicks
      <3>1. clock' \in 0..LastTick /\ override' = override /\ schedules' = schedules /\ clock' = clock + 1
        BY <2>1, <2>2 DEF MaintenanceTicks
      <3>2. override # NoOverride => override.from \in Nat /\ override.from <= clock + 1
        BY <2>1 DEF MaintenanceTypeOK
      <3>3. QED
        BY <3>1, <3>2 DEF MaintenanceTypeOK
    <2>3. ASSUME NEW plan \in Plans, WindowsPublished(plan) PROVE MaintenanceTypeOK'
      BY <2>3 DEF WindowsPublished, MaintenanceTypeOK
    <2>4. ASSUME NEW until \in {clock + 1, clock + 2 * TicksPerDay}, OverrideStarted(until) PROVE MaintenanceTypeOK'
      <3>1. until \in Nat /\ clock < until
        BY <2>1
      <3>2. override' = [from |-> clock, until |-> until, ended |-> Never] /\ UNCHANGED <<schedules, clock>>
        BY <2>4 DEF OverrideStarted
      <3>3. QED
        BY <2>1, <3>1, <3>2 DEF MaintenanceTypeOK
    <2>5. CASE OverrideEnded
      <3>1. /\ override # NoOverride /\ override' = [override EXCEPT !.ended = clock]
            /\ UNCHANGED <<schedules, clock>>
        BY <2>5 DEF OverrideEnded
      <3>2. /\ override \in [from : Nat, until : Nat, ended : Nat \cup {Never}]
            /\ override.from <= clock /\ override.from < override.until
        BY <3>1 DEF MaintenanceTypeOK
      <3>3. /\ override' \in [from : Nat, until : Nat, ended : Nat \cup {Never}]
            /\ override'.from = override.from /\ override'.until = override.until
        BY <2>1, <3>1, <3>2
      <3>4. QED
        BY <3>1, <3>2, <3>3 DEF MaintenanceTypeOK
    <2>6. CASE UNCHANGED maintenanceVars
      BY <2>6 DEF MaintenanceTypeOK, maintenanceVars
    <2>7. QED
      BY <2>2, <2>3, <2>4, <2>5, <2>6 DEF MaintenanceNext
  <1>3. QED
    BY <1>1, <1>2, PTL DEF MaintenanceSpec

\* The state that is computed from the schedules and an override, and the list of
\* windows, are what the schedules mean, tick by tick, at every time, for any
\* plans, any length of a day and any horizon.
THEOREM MaintenanceCorrect == MaintenanceSpec => []StateIsWhatIsMeant
  <1>1. MaintenanceTypeOK => StateIsWhatIsMeant
    BY MaintenanceAssumption, StateIsMeant, ListIsMeant DEF StateIsWhatIsMeant
  <1>2. QED
    BY <1>1, MaintenanceTypeCorrect, PTL

-----------------------------------------------------------------------------
(* LogStore: what a shipper still has is later than what it stored, what   *)
(* its counters do not know of was in the batch of one that was cancelled, *)
(* and whoever prunes leaves the newest rows.                              *)

\* Lines in the order they were emitted, none of them in the future.
Ascends(q) == \A i, j \in DOMAIN q : i < j => q[i] < q[j]

Before(q, t) == \A i \in DOMAIN q, j \in DOMAIN t : q[i] < t[j]

\* The lines that are on their way are in order and not stored yet.  While the
\* shipper runs its batch is the only one; stop() has it handed on.
WayInv ==
    /\ Ascends(buffer) /\ \A i \in DOMAIN buffer : buffer[i] <= emitted
    /\ \A by \in By : Ascends(batch[by]) /\ Before(batch[by], buffer) /\ \A i \in DOMAIN batch[by] : batch[by][i] <= emitted
    /\ Before(batch["orphan"], batch["stop"])
    /\ IF shipper = "runs" THEN batch["stop"] = <<>> /\ batch["orphan"] = <<>> ELSE batch["shipper"] = <<>>

\* What is stored is on its way no more.
StoredInv ==
    /\ \A k \in Written(TRUE) :
          /\ logs[k] <= emitted /\ \A j \in DOMAIN buffer : logs[k] < buffer[j]
          /\ \A by \in By : \A j \in DOMAIN batch[by] :
                logs[k] # batch[by][j] /\ (shipper = "runs" => logs[k] < batch[by][j])
    /\ \A k, l \in Written(TRUE) : logs[k] = logs[l] => k = l
    /\ StoredInOrder

\* What the counters do not know of is the batch of a cancelled shipper, in its
\* thread or done.
BatchInv ==
    /\ Counted + OnTheWay <= emitted
    /\ shipper = "runs" => Counted + OnTheWay = emitted
    /\ emitted - Counted - OnTheWay + (IF shipper = "runs" THEN 0 ELSE Len(batch["orphan"])) <= Batch

-----------------------------------------------------------------------------
(* Sequences and sets.                                                     *)

\* A set of numbers up to a bound has a largest one.
LEMMA HasLargest ==
    ASSUME NEW n \in Nat, NEW S \in SUBSET (1..n), S # {}
    PROVE  \E k \in S : \A l \in S : l <= k
  <1>1. IsFiniteSet(S)
    <2>1. IsFiniteSet(1..n)
      BY FS_Interval
    <2>2. QED
      BY <2>1, FS_Subset
  <1>2. S \in SUBSET Int
    OBVIOUS
  <1>3. QED
    BY <1>1, <1>2, FiniteLargest

\* A sequence after another.
LEMMA Chained ==
    ASSUME NEW S, NEW q \in Seq(S), NEW t \in Seq(S)
    PROVE  /\ q \o t \in Seq(S) /\ Len(q \o t) = Len(q) + Len(t)
           /\ Len(q) \in Nat /\ Len(t) \in Nat /\ DOMAIN q = 1..Len(q) /\ DOMAIN t = 1..Len(t)
           /\ DOMAIN (q \o t) = 1..Len(q) + Len(t)
           /\ \A k \in 1..Len(q) : (q \o t)[k] = q[k]
           /\ \A k \in 1..Len(q) + Len(t) : k > Len(q) => k - Len(q) \in 1..Len(t) /\ (q \o t)[k] = t[k - Len(q)]
  OBVIOUS

\* An element more, an element less in front.
LEMMA OneLonger ==
    ASSUME NEW S, NEW q \in Seq(S), NEW x \in S
    PROVE  /\ Append(q, x) \in Seq(S) /\ Len(Append(q, x)) = Len(q) + 1 /\ Len(q) \in Nat
           /\ DOMAIN q = 1..Len(q) /\ DOMAIN Append(q, x) = 1..Len(q) + 1
           /\ Append(q, x)[Len(q) + 1] = x /\ \A k \in 1..Len(q) : Append(q, x)[k] = q[k]
  OBVIOUS

LEMMA Shorter ==
    ASSUME NEW S, NEW q \in Seq(S), q # <<>>
    PROVE  /\ Tail(q) \in Seq(S) /\ Len(Tail(q)) = Len(q) - 1 /\ Len(q) \in Nat \ {0}
           /\ DOMAIN q = 1..Len(q) /\ DOMAIN Tail(q) = 1..Len(q) - 1
           /\ \A k \in 1..Len(q) - 1 : Tail(q)[k] = q[k + 1]
  OBVIOUS

\* What drain() takes and leaves.
LEMMA Split ==
    ASSUME NEW S, NEW q \in Seq(S), NEW n \in 0..Len(q)
    PROVE  /\ SubSeq(q, 1, n) \in Seq(S) /\ SubSeq(q, n + 1, Len(q)) \in Seq(S)
           /\ Len(SubSeq(q, 1, n)) = n /\ Len(SubSeq(q, n + 1, Len(q))) = Len(q) - n
           /\ DOMAIN q = 1..Len(q) /\ Len(q) \in Nat
           /\ DOMAIN SubSeq(q, 1, n) = 1..n /\ DOMAIN SubSeq(q, n + 1, Len(q)) = 1..Len(q) - n
           /\ \A k \in 1..n : SubSeq(q, 1, n)[k] = q[k]
           /\ \A k \in 1..Len(q) - n : SubSeq(q, n + 1, Len(q))[k] = q[k + n]
  OBVIOUS
-----------------------------------------------------------------------------
(* Types.                                                                  *)

CountRec == [shipped : Nat, dropped : Nat, overflow : Nat]

LEMMA CountsMade ==
    ASSUME NEW q \in CountRec, NEW n \in Nat
    PROVE  /\ [q EXCEPT !.shipped = n] \in CountRec /\ [q EXCEPT !.dropped = n] \in CountRec
           /\ [q EXCEPT !.overflow = n] \in CountRec
  BY DEF CountRec

\* What the types say of single values.
LEMMA LogTypes ==
    ASSUME LogTypeOK
    PROVE  /\ emitted \in Nat /\ Len(buffer) \in Nat /\ Len(logs) \in Nat
           /\ DOMAIN buffer = 1..Len(buffer) /\ DOMAIN logs = 1..Len(logs)
           /\ \A k \in DOMAIN logs : logs[k] \in Nat
           /\ \A k \in DOMAIN buffer : buffer[k] \in Nat /\ buffer[k] # 0
           /\ \A by \in By : /\ Len(batch[by]) \in Nat /\ Len(batch[by]) <= Batch
                             /\ batch[by] \in Seq(1..Lines) /\ DOMAIN batch[by] = 1..Len(batch[by])
                             /\ \A k \in DOMAIN batch[by] : batch[by][k] \in Nat /\ batch[by][k] # 0
           /\ count \in CountRec /\ count.shipped \in Nat /\ count.dropped \in Nat /\ count.overflow \in Nat
  <1> USE LogAssumption
  <1>1. emitted \in Nat /\ Len(buffer) \in Nat /\ Len(logs) \in Nat
        /\ DOMAIN buffer = 1..Len(buffer) /\ DOMAIN logs = 1..Len(logs)
    BY DEF LogTypeOK
  <1>2. \A k \in DOMAIN logs : logs[k] \in Nat
    BY SMTT(30) DEF LogTypeOK
  <1>3. \A k \in DOMAIN buffer : buffer[k] \in Nat /\ buffer[k] # 0
    BY SMTT(30) DEF LogTypeOK
  <1>4. ASSUME NEW by \in By
        PROVE /\ Len(batch[by]) \in Nat /\ Len(batch[by]) <= Batch
              /\ batch[by] \in Seq(1..Lines) /\ DOMAIN batch[by] = 1..Len(batch[by])
              /\ \A k \in DOMAIN batch[by] : batch[by][k] \in Nat /\ batch[by][k] # 0
    <2>1. batch[by] \in Seq(1..Lines) /\ Len(batch[by]) <= Batch
      BY DEF LogTypeOK
    <2>2. QED
      BY <2>1
  <1>5. count \in CountRec /\ count.shipped \in Nat /\ count.dropped \in Nat /\ count.overflow \in Nat
    BY DEF LogTypeOK, CountRec
  <1>6. QED
    BY <1>1, <1>2, <1>3, <1>4, <1>5

\* Lines only grow older.
LEMMA TimeOnly ==
    ASSUME LogTypeOK, LinesAge
    PROVE  /\ logAge' \in [mine : Nat, peer : Nat]
           /\ logAge.mine <= logAge'.mine /\ logAge.peer <= logAge'.peer
  <1>1. logAge \in [mine : Nat, peer : Nat]
    BY DEF LogTypeOK
  <1>2. CASE logAge' = [logAge EXCEPT !.mine = @ + 1]
    BY <1>1, <1>2
  <1>3. CASE logAge' = [logAge EXCEPT !.peer = @ + 1]
    BY <1>1, <1>3
  <1>4. QED
    BY <1>2, <1>3 DEF LinesAge

\* The lines a full buffer loses.
Lost == IF Len(buffer) = Buffer THEN 1 ELSE 0

\* The buffer after a line is added, which may cost the oldest one.
LEMMA EmitBuffer ==
    ASSUME LogTypeOK, Emit
    PROVE  /\ buffer' \in Seq(1..Lines) /\ Len(buffer') <= Buffer
           /\ buffer'[Len(buffer')] = emitted + 1 /\ Len(buffer') \in Nat /\ Len(buffer') > 0
           /\ DOMAIN buffer' = 1..Len(buffer')
           /\ Len(buffer') = Len(buffer) + 1 - Lost
           /\ \A k \in 1..Len(buffer') - 1 : buffer'[k] = buffer[k + Lost] /\ k + Lost \in DOMAIN buffer
  <1> USE LogAssumption
  <1>0. emitted \in 0..Lines /\ emitted < Lines /\ buffer \in Seq(1..Lines) /\ Len(buffer) <= Buffer
    BY DEF LogTypeOK, Emit
  <1>1. emitted + 1 \in 1..Lines /\ buffer \in Seq(1..Lines) /\ Len(buffer) <= Buffer
    BY <1>0
  <1>2. CASE Len(buffer) = Buffer
    <2>1. buffer # <<>>
      BY <1>1, <1>2
    <2>2. buffer' = Append(Tail(buffer), emitted + 1)
      BY <1>2 DEF Emit
    <2>3. /\ Tail(buffer) \in Seq(1..Lines) /\ Len(Tail(buffer)) = Len(buffer) - 1 /\ Len(buffer) \in Nat \ {0}
          /\ DOMAIN buffer = 1..Len(buffer)
          /\ \A k \in 1..Len(buffer) - 1 : Tail(buffer)[k] = buffer[k + 1]
      BY <1>1, <2>1, Shorter
    <2>4. /\ buffer' \in Seq(1..Lines) /\ Len(buffer') = Len(Tail(buffer)) + 1
          /\ DOMAIN buffer' = 1..Len(Tail(buffer)) + 1 /\ buffer'[Len(Tail(buffer)) + 1] = emitted + 1
          /\ \A k \in 1..Len(Tail(buffer)) : buffer'[k] = Tail(buffer)[k]
      BY <1>1, <2>2, <2>3, OneLonger
    <2>5. Len(buffer') = Len(buffer)
      BY <2>3, <2>4
    <2>6. \A k \in 1..Len(buffer') - 1 : buffer'[k] = buffer[k + 1] /\ k + 1 \in DOMAIN buffer
      BY <2>3, <2>4
    <2>7. Lost = 1
      BY <1>2 DEF Lost
    <2>8. QED
      BY SMTT(30), <1>1, <1>2, <2>3, <2>4, <2>5, <2>6, <2>7
  <1>3. CASE Len(buffer) # Buffer
    <2>1. buffer' = Append(buffer, emitted + 1)
      BY <1>3 DEF Emit
    <2>2. /\ buffer' \in Seq(1..Lines) /\ Len(buffer') = Len(buffer) + 1 /\ Len(buffer) \in Nat
          /\ DOMAIN buffer = 1..Len(buffer) /\ DOMAIN buffer' = 1..Len(buffer) + 1
          /\ buffer'[Len(buffer) + 1] = emitted + 1 /\ \A k \in 1..Len(buffer) : buffer'[k] = buffer[k]
      BY <1>1, <2>1, OneLonger
    <2>3. Len(buffer) + 1 <= Buffer
      BY <1>1, <1>3, <2>2
    <2>4. \A k \in 1..Len(buffer') - 1 : buffer'[k] = buffer[k + 0] /\ k + 0 \in DOMAIN buffer
      BY <2>2
    <2>5. Lost = 0
      BY <1>3 DEF Lost
    <2>6. DOMAIN buffer' = 1..Len(buffer') /\ Len(buffer') > 0 /\ Len(buffer') \in Nat /\ Len(buffer') <= Buffer
      BY <2>2, <2>3
    <2>7. QED
      BY <2>2, <2>4, <2>5, <2>6
  <1>4. QED
    BY <1>2, <1>3
\* What flush() takes.
LEMMA FlushTakes ==
    ASSUME LogTypeOK, NEW by \in {"shipper", "stop"}, NEW connected \in BOOLEAN, Flushes(by, connected)
    PROVE  \E n \in 0..Len(buffer) :
              /\ n <= Batch /\ Drained(n).items \in Seq(1..Lines) /\ Len(Drained(n).items) = n
              /\ DOMAIN Drained(n).items = 1..n /\ \A k \in 1..n : Drained(n).items[k] = buffer[k]
              /\ buffer' \in Seq(1..Lines) /\ Len(buffer') = Len(buffer) - n /\ Len(buffer') <= Buffer
              /\ DOMAIN buffer' = 1..Len(buffer) - n /\ \A k \in 1..Len(buffer) - n : buffer'[k] = buffer[k + n]
              /\ IF connected THEN batch' = [batch EXCEPT ![by] = Drained(n).items] /\ count' = count
                 ELSE count' = [count EXCEPT !.dropped = @ + n] /\ batch' = batch
  <1> USE LogAssumption
  <1> DEFINE n == IF Len(buffer) < Batch THEN Len(buffer) ELSE Batch
  <1>1. buffer \in Seq(1..Lines) /\ Len(buffer) <= Buffer /\ Len(buffer) \in Nat
    BY DEF LogTypeOK
  <1>2. n \in 0..Len(buffer) /\ n <= Batch
    BY <1>1
  <1>3. /\ buffer' = Drained(n).rest
        /\ IF connected THEN batch' = [batch EXCEPT ![by] = Drained(n).items] /\ count' = count
           ELSE count' = [count EXCEPT !.dropped = @ + n] /\ batch' = batch
    BY DEF Flushes
  <1>4. Drained(n).items = SubSeq(buffer, 1, n) /\ Drained(n).rest = SubSeq(buffer, n + 1, Len(buffer))
    BY DEF Drained
  <1> HIDE DEF n
  <1>5. /\ Drained(n).items \in Seq(1..Lines) /\ Drained(n).rest \in Seq(1..Lines)
        /\ Len(Drained(n).items) = n /\ Len(Drained(n).rest) = Len(buffer) - n
        /\ DOMAIN Drained(n).items = 1..n /\ DOMAIN Drained(n).rest = 1..Len(buffer) - n
        /\ \A k \in 1..n : Drained(n).items[k] = buffer[k]
        /\ \A k \in 1..Len(buffer) - n : Drained(n).rest[k] = buffer[k + n]
    <2> DEFINE Line == 1..Lines
    <2>1. buffer \in Seq(Line)
      BY <1>1
    <2> HIDE DEF Line
    <2>2. /\ SubSeq(buffer, 1, n) \in Seq(Line) /\ SubSeq(buffer, n + 1, Len(buffer)) \in Seq(Line)
          /\ Len(SubSeq(buffer, 1, n)) = n /\ Len(SubSeq(buffer, n + 1, Len(buffer))) = Len(buffer) - n
      BY ZenonT(60), <1>2, <2>1, Split
    <2>3. /\ DOMAIN SubSeq(buffer, 1, n) = 1..n /\ DOMAIN SubSeq(buffer, n + 1, Len(buffer)) = 1..Len(buffer) - n
      BY <1>2, <2>1, Split
    <2>4. \A k \in 1..n : SubSeq(buffer, 1, n)[k] = buffer[k]
      BY <1>2, <2>1, Split
    <2>5. \A k \in 1..Len(buffer) - n : SubSeq(buffer, n + 1, Len(buffer))[k] = buffer[k + n]
      BY <1>2, <2>1, Split
    <2>6. SubSeq(buffer, 1, n) \in Seq(1..Lines) /\ SubSeq(buffer, n + 1, Len(buffer)) \in Seq(1..Lines)
      BY <2>2 DEF Line
    <2>7. QED
      BY <1>4, <2>2, <2>3, <2>4, <2>5, <2>6
  <1>6. Len(buffer) - n <= Buffer
    BY <1>1, <1>2
  <1>7. QED
    BY <1>2, <1>3, <1>5, <1>6

\* Every step keeps the types.
LEMMA LogTypesKept == LogTypeOK /\ [LogNext]_logVars => LogTypeOK'
  <1> SUFFICES ASSUME LogTypeOK, [LogNext]_logVars PROVE LogTypeOK'
    OBVIOUS
  <1> USE LogAssumption
  <1>a. /\ count \in CountRec /\ count.shipped \in Nat /\ count.dropped \in Nat /\ count.overflow \in Nat
        /\ \A by \in By : batch[by] \in Seq(1..Lines) /\ Len(batch[by]) <= Batch /\ Len(batch[by]) \in Nat
        /\ batch \in [By -> Seq(1..Lines)] /\ logs \in Seq(0..Lines) /\ Len(logs) \in Nat /\ DOMAIN logs = 1..Len(logs)
    BY LogTypes DEF LogTypeOK
  <1>e. <<>> \in Seq(1..Lines) /\ Len(<<>>) = 0
    OBVIOUS
  <1>1. CASE Emit
    <2>1. buffer' \in Seq(1..Lines) /\ Len(buffer') <= Buffer
      BY <1>1, EmitBuffer
    <2>2. count' \in CountRec
      <3>1. count.overflow + 1 \in Nat
        BY <1>a
      <3>2. QED
        BY <1>1, <1>a, <3>1, CountsMade DEF Emit
    <2>3. emitted' \in 0..Lines
      <3>1. emitted \in 0..Lines /\ emitted < Lines /\ emitted' = emitted + 1
        BY <1>1 DEF Emit, LogTypeOK
      <3>2. QED
        BY <3>1
    <2>4. QED
      BY <1>1, <2>1, <2>2, <2>3 DEF Emit, LogTypeOK, CountRec
  <1>2. ASSUME NEW by \in {"shipper", "stop"}, NEW connected \in BOOLEAN, Flushes(by, connected) PROVE LogTypeOK'
    <2>1. PICK n \in 0..Len(buffer) :
              /\ n <= Batch /\ Drained(n).items \in Seq(1..Lines) /\ Len(Drained(n).items) = n
              /\ buffer' \in Seq(1..Lines) /\ Len(buffer') <= Buffer
              /\ IF connected THEN batch' = [batch EXCEPT ![by] = Drained(n).items] /\ count' = count
                 ELSE count' = [count EXCEPT !.dropped = @ + n] /\ batch' = batch
      BY <1>2, FlushTakes
    <2>2. count' \in CountRec
      <3>1. count.dropped + n \in Nat
        BY <1>a
      <3>2. QED
        BY <1>a, <2>1, <3>1, CountsMade
    <2>3. batch' \in [By -> Seq(1..Lines)] /\ \A b \in By : Len(batch'[b]) <= Batch
      BY <1>a, <2>1 DEF By
    <2>4. QED
      BY <1>2, <2>1, <2>2, <2>3 DEF Flushes, LogTypeOK, CountRec
  <1>3. ASSUME NEW by \in By, NEW commits \in BOOLEAN, NEW answers \in BOOLEAN, InsertEnds(by, commits, answers)
        PROVE LogTypeOK'
    <2>1. logs' \in Seq(0..Lines) /\ DOMAIN logs \subseteq DOMAIN logs'
      <3>1. batch[by] \in Seq(0..Lines)
        BY <1>a
      <3>2. /\ logs \o batch[by] \in Seq(0..Lines) /\ DOMAIN (logs \o batch[by]) = 1..Len(logs) + Len(batch[by])
        BY <1>a, <3>1, Chained
      <3>3. 1..Len(logs) \subseteq 1..Len(logs) + Len(batch[by])
        BY <1>a
      <3>4. QED
        BY <1>3, <1>a, <3>2, <3>3 DEF InsertEnds
    <2>2. count' \in CountRec
      <3>1. count.shipped + Len(batch[by]) \in Nat /\ count.dropped + Len(batch[by]) \in Nat
        BY <1>a
      <3>2. QED
        BY <1>3, <1>a, <3>1, CountsMade DEF InsertEnds
    <2>3. batch' \in [By -> Seq(1..Lines)] /\ \A b \in By : Len(batch'[b]) <= Batch
      BY <1>3, <1>a, <1>e DEF InsertEnds
    <2>4. QED
      BY <1>3, <2>1, <2>2, <2>3 DEF InsertEnds, LogTypeOK, CountRec
  <1>4. CASE Stop
    <2>1. batch' \in [By -> Seq(1..Lines)] /\ \A b \in By : Len(batch'[b]) <= Batch
      <3>1. batch' = [batch EXCEPT !["shipper"] = <<>>, !["orphan"] = batch["shipper"]]
        BY <1>4 DEF Stop
      <3>2. /\ "shipper" \in By /\ "orphan" \in By
            /\ \A b \in By : batch'[b] = <<>> \/ batch'[b] = batch["shipper"] \/ batch'[b] = batch[b]
        BY <1>a, <3>1 DEF By
      <3>3. ASSUME NEW b \in By PROVE batch'[b] \in Seq(1..Lines) /\ Len(batch'[b]) <= Batch
        <4>1. CASE batch'[b] = <<>>
          BY <1>e, <4>1
        <4>2. CASE batch'[b] # <<>>
          BY <1>a, <3>2, <4>2
        <4>3. QED
          BY <4>1, <4>2
      <3>4. QED
        BY <1>a, <3>1, <3>3
    <2>2. QED
      BY <1>4, <2>1 DEF Stop, LogTypeOK
  <1>5. CASE PeerInserts
    <2>1. logs' \in Seq(0..Lines) /\ DOMAIN logs' = 1..Len(logs) + 1
      <3>1. 0 \in 0..Lines
        OBVIOUS
      <3>2. logs \in Seq(0..Lines)
        BY <1>a
      <3>3. Append(logs, 0) \in Seq(0..Lines)
        BY <3>1, <3>2
      <3>4. DOMAIN Append(logs, 0) = 1..Len(logs) + 1
        BY <3>1, <3>2
      <3>5. QED
        BY <1>5, <3>3, <3>4 DEF PeerInserts
    <2>2. DOMAIN logs \subseteq DOMAIN logs'
      <3>1. 1..Len(logs) \subseteq 1..Len(logs) + 1
        BY <1>a
      <3>2. QED
        BY <1>a, <2>1, <3>1
    <2>3. QED
      BY <1>5, <2>1, <2>2 DEF PeerInserts, LogTypeOK
  <1>6. CASE PruneReads
    <2>1. \A mine \in BOOLEAN : Threshold(mine) \in Nat
      <3>1. ASSUME NEW mine \in BOOLEAN, NEW n \in Nat, n = Len(logs) PROVE Threshold(mine) \in Nat
        <4> DEFINE kept == Rows(mine) \ Aged
                   old == {k \in kept : Cardinality({l \in kept : l > k}) >= Keep}
        <4>1. old \in SUBSET (1..n)
          BY <1>a, <3>1 DEF Rows, Written
        <4>a. Threshold(mine) = IF old = {} THEN 0 ELSE CHOOSE k \in old : \A l \in old : l <= k
          BY DEF Threshold
        <4> HIDE DEF old, kept
        <4>2. ASSUME old # {} PROVE (CHOOSE k \in old : \A l \in old : l <= k) \in Nat
          <5>1. \E k \in old : \A l \in old : l <= k
            BY <4>1, <4>2, HasLargest
          <5>2. (CHOOSE k \in old : \A l \in old : l <= k) \in old
            BY <5>1
          <5>3. \A k \in old : k \in Nat
            BY <3>1, <4>1
          <5>4. QED
            BY <5>2, <5>3
        <4>3. QED
          BY <4>2, <4>a
      <3>2. QED
        BY <1>a, <3>1
    <2>2. prune' = [aged |-> Aged, mine |-> Threshold(TRUE), peer |-> Threshold(FALSE)] /\ logs' = logs
      BY <1>6 DEF PruneReads
    <2>3. prune' \in [aged : SUBSET DOMAIN logs', mine : Nat, peer : Nat]
      BY <2>1, <2>2 DEF Aged
    <2>4. QED
      BY <1>6, <2>3 DEF PruneReads, LogTypeOK
  <1>7. ASSUME NEW commits \in BOOLEAN, PruneDeletes(commits) PROVE LogTypeOK'
    <2>1. prune' \in [aged : SUBSET DOMAIN logs', mine : Nat, peer : Nat]
      BY <1>7 DEF PruneDeletes, NoPrune
    <2>2. pruned' \subseteq DOMAIN logs'
      BY <1>7 DEF PruneDeletes, LogTypeOK, Rows, Written
    <2>3. QED
      BY <1>7, <2>1, <2>2 DEF PruneDeletes, LogTypeOK
  <1>8. CASE UNCHANGED logVars
    BY <1>8 DEF logVars, LogTypeOK
  <1>9. CASE LinesAge
    <2>1. logAge' \in [mine : Nat, peer : Nat]
      BY <1>9, TimeOnly
    <2>2. QED
      BY <1>9, <2>1 DEF LinesAge, LogTypeOK
  <1>10. QED
    BY <1>1, <1>2, <1>3, <1>4, <1>5, <1>6, <1>7, <1>8, <1>9 DEF LogNext
-----------------------------------------------------------------------------
(* What every step keeps.                                                  *)

LineInv == WayInv /\ StoredInv /\ BatchInv

LEMMA CountTypes ==
    ASSUME LogTypeOK
    PROVE  /\ Counted \in Nat /\ OnTheWay \in Nat /\ Len(buffer) \in Nat
           /\ Len(batch["shipper"]) \in Nat /\ Len(batch["stop"]) \in Nat /\ Len(batch["orphan"]) \in Nat
           /\ count.shipped \in Nat /\ count.dropped \in Nat /\ count.overflow \in Nat
  <1>1. count.shipped \in Nat /\ count.dropped \in Nat /\ count.overflow \in Nat /\ Len(buffer) \in Nat
    BY LogTypes
  <1>2. Len(batch["shipper"]) \in Nat /\ Len(batch["stop"]) \in Nat /\ Len(batch["orphan"]) \in Nat
    BY LogTypes DEF By
  <1>3. \A a, b, c, d \in Nat : a + b + c \in Nat /\ a + b + c + d \in Nat
    OBVIOUS
  <1>4. Counted \in Nat
    BY <1>1, <1>3 DEF Counted
  <1>5. OnTheWay \in Nat
    BY <1>1, <1>2, <1>3 DEF OnTheWay
  <1>6. QED
    BY <1>1, <1>2, <1>4, <1>5

\* A line is emitted: it is later than any other.
LEMMA EmitKeeps ==
    ASSUME LogTypeOK, LineInv, Emit
    PROVE  LineInv'
  <1>a. /\ emitted \in Nat /\ emitted' = emitted + 1 /\ Len(buffer) \in Nat
        /\ batch' = batch /\ logs' = logs /\ shipper' = shipper
        /\ \A k \in DOMAIN logs : logs[k] \in Nat
        /\ \A k \in DOMAIN buffer : buffer[k] \in Nat
        /\ \A by \in By : \A k \in DOMAIN batch[by] : batch[by][k] \in Nat
    BY LogTypes DEF Emit
  <1>b. /\ DOMAIN buffer' = 1..Len(buffer') /\ Len(buffer') \in Nat
        /\ buffer'[Len(buffer')] = emitted + 1 /\ Len(buffer') = Len(buffer) + 1 - Lost
        /\ \A k \in 1..Len(buffer') - 1 : buffer'[k] = buffer[k + Lost] /\ k + Lost \in DOMAIN buffer
    BY EmitBuffer
  <1>c. Lost \in {0, 1}
    BY DEF Lost
  <1>1. ASSUME NEW k \in DOMAIN buffer', k # Len(buffer')
        PROVE k \in 1..Len(buffer') - 1 /\ buffer'[k] = buffer[k + Lost] /\ k + Lost \in DOMAIN buffer
    <2>1. k \in 1..Len(buffer') - 1
      BY <1>1, <1>b
    <2>2. QED
      BY <1>b, <2>1
  <1>2. \A k \in DOMAIN buffer : buffer[k] <= emitted
    BY DEF LineInv, WayInv
  <1>3. Ascends(buffer')
    <2>1. ASSUME NEW i \in DOMAIN buffer', NEW j \in DOMAIN buffer', i < j PROVE buffer'[i] < buffer'[j]
      <3>1. i \in Nat /\ j \in Nat /\ i # Len(buffer') /\ i + Lost < j + Lost
        BY <1>b, <1>c, <2>1
      <3>2. buffer'[i] = buffer[i + Lost] /\ i + Lost \in DOMAIN buffer
        BY <1>1, <3>1
      <3>3. CASE j = Len(buffer')
        <4>1. buffer'[j] = emitted + 1 /\ buffer[i + Lost] <= emitted /\ buffer[i + Lost] \in Nat
          BY <1>a, <1>b, <1>2, <3>2, <3>3
        <4>2. QED
          BY <1>a, <3>2, <4>1
      <3>4. CASE j # Len(buffer')
        BY <1>1, <3>1, <3>2, <3>4 DEF LineInv, WayInv, Ascends
      <3>5. QED
        BY <3>3, <3>4
    <2>2. QED
      BY <2>1 DEF Ascends
  <1>4. ASSUME NEW x \in Nat, x <= emitted, \A j \in DOMAIN buffer : x < buffer[j]
        PROVE \A j \in DOMAIN buffer' : x < buffer'[j]
    <2>1. ASSUME NEW j \in DOMAIN buffer' PROVE x < buffer'[j]
      <3>1. CASE j = Len(buffer')
        BY <1>4, <1>a, <1>b, <3>1
      <3>2. CASE j # Len(buffer')
        BY <1>1, <1>4, <3>2
      <3>3. QED
        BY <3>1, <3>2
    <2>2. QED
      BY <2>1
  <1>5. \A j \in DOMAIN buffer' : buffer'[j] <= emitted'
    <2>1. ASSUME NEW j \in DOMAIN buffer' PROVE buffer'[j] <= emitted + 1
      <3>1. CASE j = Len(buffer')
        BY <1>a, <1>b, <3>1
      <3>2. CASE j # Len(buffer')
        <4>1. buffer'[j] \in Nat /\ buffer'[j] <= emitted
          BY <1>1, <1>2, <1>a, <3>2
        <4>2. QED
          BY <1>a, <4>1
      <3>3. QED
        BY <3>1, <3>2
    <2>2. QED
      BY <1>a, <2>1
  <1>6. \A x \in Nat : x <= emitted => x <= emitted'
    BY <1>a
  <1>7. WayInv'
    <2>1. ASSUME NEW by \in By
          PROVE /\ Ascends(batch[by]) /\ Before(batch[by], buffer')
                /\ \A i \in DOMAIN batch[by] : batch[by][i] <= emitted'
      <3>1. /\ Ascends(batch[by]) /\ Before(batch[by], buffer)
            /\ \A i \in DOMAIN batch[by] : batch[by][i] <= emitted
        BY DEF LineInv, WayInv
      <3>2. Before(batch[by], buffer')
        BY <1>a, <1>4, <3>1 DEF Before
      <3>3. QED
        BY <1>a, <1>6, <3>1, <3>2
    <2>2. QED
      BY <1>a, <1>3, <1>5, <2>1 DEF LineInv, WayInv
  <1>8. Written(TRUE)' = Written(TRUE)
    BY <1>a DEF Written
  <1>9. StoredInv'
    <2>1. ASSUME NEW k \in Written(TRUE)
          PROVE /\ logs[k] <= emitted' /\ \A j \in DOMAIN buffer' : logs[k] < buffer'[j]
      <3>1. logs[k] \in Nat /\ logs[k] <= emitted /\ \A j \in DOMAIN buffer : logs[k] < buffer[j]
        BY <1>a DEF LineInv, StoredInv, Written
      <3>2. QED
        BY <1>4, <1>6, <3>1
    <2>2. QED
      BY <1>a, <1>8, <2>1 DEF LineInv, StoredInv, StoredInOrder
  <1>10. BatchInv'
    <2>1. Counted' = Counted + Lost
      <3>1. count \in CountRec /\ count.shipped \in Nat /\ count.dropped \in Nat /\ count.overflow \in Nat
        BY LogTypes
      <3>2. count'.shipped = count.shipped /\ count'.dropped = count.dropped /\ count'.overflow = count.overflow + Lost
        BY <3>1 DEF Emit, CountRec, Lost
      <3>3. QED
        BY <1>c, <3>1, <3>2 DEF Counted
    <2>2. Counted \in Nat /\ OnTheWay \in Nat
      BY CountTypes
    <2>3. OnTheWay' = OnTheWay + 1 - Lost
      <3> DEFINE w == Len(buffer)
                 x == Len(batch["shipper"])
                 y == Len(batch["stop"])
                 z == Len(batch["orphan"])
                 w1 == Len(buffer')
      <3>1. w \in Nat /\ x \in Nat /\ y \in Nat /\ z \in Nat
        BY CountTypes
      <3>2. OnTheWay = w + x + y + z /\ OnTheWay' = w1 + x + y + z
        BY <1>a DEF OnTheWay
      <3>3. w1 = w + 1 - Lost
        BY <1>b
      <3> HIDE DEF w, x, y, z, w1
      <3>4. QED
        BY <1>c, <3>1, <3>2, <3>3
    <2>4. Counted' + OnTheWay' = Counted + OnTheWay + 1
      BY <1>c, <2>1, <2>2, <2>3
    <2>5. emitted' - Counted' - OnTheWay' = emitted - Counted - OnTheWay
      BY <1>a, <1>c, <2>1, <2>2, <2>3
    <2>6. Counted + OnTheWay <= emitted => Counted' + OnTheWay' <= emitted'
      BY <1>a, <2>2, <2>3, <2>4
    <2>7. QED
      BY <1>a, <2>4, <2>5, <2>6 DEF LineInv, BatchInv
  <1>11. QED
    BY <1>7, <1>9, <1>10 DEF LineInv
\* A flush takes the oldest lines.
LEMMA FlushKeeps ==
    ASSUME LogTypeOK, LineInv, NEW by \in {"shipper", "stop"}, NEW connected \in BOOLEAN, Flushes(by, connected)
    PROVE  LineInv'
  <1>0. PICK n \in 0..Len(buffer) :
              /\ Len(Drained(n).items) = n
              /\ DOMAIN Drained(n).items = 1..n /\ \A k \in 1..n : Drained(n).items[k] = buffer[k]
              /\ Len(buffer') = Len(buffer) - n
              /\ DOMAIN buffer' = 1..Len(buffer) - n /\ \A k \in 1..Len(buffer) - n : buffer'[k] = buffer[k + n]
              /\ IF connected THEN batch' = [batch EXCEPT ![by] = Drained(n).items] /\ count' = count
                 ELSE count' = [count EXCEPT !.dropped = @ + n] /\ batch' = batch
    BY FlushTakes
  <1> DEFINE drawn == Drained(n).items
  <1>a. /\ emitted \in Nat /\ emitted' = emitted /\ Len(buffer) \in Nat /\ DOMAIN buffer = 1..Len(buffer)
        /\ logs' = logs /\ batch[by] = <<>> /\ batch \in [By -> Seq(1..Lines)] /\ by \in By
        /\ \A k \in DOMAIN logs : logs[k] \in Nat
        /\ \A k \in DOMAIN buffer : buffer[k] \in Nat
        /\ shipper' = "runs" <=> shipper = "runs"
        /\ shipper = "runs" <=> by = "shipper"
    BY LogTypes DEF Flushes, LogTypeOK, By
  <1>b. n \in Nat /\ n <= Len(buffer)
    BY <1>a
  <1> HIDE DEF drawn
  <1>c. /\ Len(drawn) = n /\ DOMAIN drawn = 1..n /\ \A k \in 1..n : drawn[k] = buffer[k] /\ k \in DOMAIN buffer
        /\ IF connected THEN batch' = [batch EXCEPT ![by] = drawn] ELSE batch' = batch
    BY <1>0, <1>a, <1>b DEF drawn
  <1>d. \A k \in DOMAIN buffer' : k + n \in DOMAIN buffer /\ buffer'[k] = buffer[k + n]
    BY <1>0, <1>a, <1>b
  <1>e. \A b \in By : batch'[b] = batch[b] \/ (b = by /\ batch'[b] = drawn)
    BY <1>a, <1>c
  <1>1. /\ Ascends(buffer) /\ \A i \in DOMAIN buffer : buffer[i] <= emitted
        /\ \A b \in By : Ascends(batch[b]) /\ Before(batch[b], buffer) /\ \A i \in DOMAIN batch[b] : batch[b][i] <= emitted
        /\ Before(batch["orphan"], batch["stop"])
        /\ IF shipper = "runs" THEN batch["stop"] = <<>> /\ batch["orphan"] = <<>> ELSE batch["shipper"] = <<>>
    BY DEF LineInv, WayInv
  <1>2. Ascends(drawn) /\ Ascends(buffer')
    <2>1. Ascends(drawn)
      BY <1>1, <1>c DEF Ascends
    <2>2. ASSUME NEW i \in DOMAIN buffer', NEW j \in DOMAIN buffer', i < j PROVE buffer'[i] < buffer'[j]
      <3>1. i + n < j + n
        BY <1>0, <1>a, <1>b, <2>2
      <3>2. QED
        BY <1>1, <1>d, <3>1 DEF Ascends
    <2>3. QED
      BY <2>1, <2>2 DEF Ascends
  <1>3. Before(drawn, buffer')
    <2>1. ASSUME NEW i \in DOMAIN drawn, NEW j \in DOMAIN buffer' PROVE drawn[i] < buffer'[j]
      <3>1. i < j + n
        BY <1>0, <1>a, <1>b, <1>c
      <3>2. QED
        BY <1>1, <1>c, <1>d, <3>1 DEF Ascends
    <2>2. QED
      BY <2>1 DEF Before
  <1>4. \A b \in By : Before(batch[b], buffer') /\ Before(batch[b], drawn)
    BY <1>1, <1>c, <1>d DEF Before
  <1>5. WayInv'
    <2>1. ASSUME NEW b \in By
          PROVE Ascends(batch'[b]) /\ Before(batch'[b], buffer') /\ \A i \in DOMAIN batch'[b] : batch'[b][i] <= emitted
      BY <1>1, <1>2, <1>3, <1>4, <1>c, <1>e
    <2>2. \A i \in DOMAIN buffer' : buffer'[i] <= emitted
      BY <1>1, <1>d
    <2>3. Before(batch'["orphan"], batch'["stop"])
      <3>1. batch'["orphan"] = batch["orphan"]
        BY <1>e DEF By
      <3>2. batch'["stop"] = batch["stop"] \/ batch'["stop"] = drawn
        BY <1>e DEF By
      <3>3. QED
        BY <1>1, <1>4, <3>1, <3>2 DEF By
    <2>4. IF shipper = "runs" THEN batch'["stop"] = <<>> /\ batch'["orphan"] = <<>> ELSE batch'["shipper"] = <<>>
      BY <1>1, <1>a, <1>e DEF By
    <2>5. QED
      BY <1>2, <1>a, <2>1, <2>2, <2>3, <2>4 DEF WayInv
  <1>6. Written(TRUE)' = Written(TRUE)
    BY <1>a DEF Written
  <1>7. StoredInv'
    <2>1. ASSUME NEW k \in Written(TRUE)
          PROVE /\ logs[k] <= emitted /\ \A j \in DOMAIN buffer : logs[k] < buffer[j]
                /\ logs[k] \in Nat
      BY <1>a DEF LineInv, StoredInv, Written
    <2>2. ASSUME NEW k \in Written(TRUE) PROVE \A j \in DOMAIN buffer' : logs[k] < buffer'[j]
      BY <1>d, <2>1
    <2>3. ASSUME NEW k \in Written(TRUE), NEW b \in By, NEW j \in DOMAIN batch'[b]
          PROVE logs[k] # batch'[b][j] /\ (shipper = "runs" => logs[k] < batch'[b][j])
      <3>1. CASE batch'[b] = batch[b]
        BY <2>3, <3>1 DEF LineInv, StoredInv
      <3>2. CASE batch'[b] = drawn
        <4>1. logs[k] < drawn[j] /\ drawn[j] \in Nat
          BY <1>a, <1>c, <2>1, <2>3, <3>2
        <4>2. QED
          BY <2>1, <3>2, <4>1
      <3>3. QED
        BY <1>e, <3>1, <3>2
    <2>4. QED
      BY <1>6, <1>a, <2>1, <2>2, <2>3 DEF LineInv, StoredInv, StoredInOrder
  <1>8. BatchInv'
    <2> DEFINE a == IF connected THEN n ELSE 0
               d == IF connected THEN 0 ELSE n
    <2>1. a \in Nat /\ d \in Nat /\ a + d = n
      BY <1>b
    <2>2. Counted' = Counted + d
      <3>1. count \in CountRec /\ count.shipped \in Nat /\ count.dropped \in Nat /\ count.overflow \in Nat
        BY LogTypes
      <3>2. count'.shipped = count.shipped /\ count'.dropped = count.dropped + d /\ count'.overflow = count.overflow
        BY <1>0, <3>1 DEF CountRec
      <3>3. QED
        BY <2>1, <3>1, <3>2 DEF Counted
    <2>3. /\ Len(batch["shipper"]) \in Nat /\ Len(batch["stop"]) \in Nat /\ Len(batch["orphan"]) \in Nat
          /\ Counted \in Nat /\ OnTheWay \in Nat
      BY CountTypes
    <2>4. /\ Len(batch'["orphan"]) = Len(batch["orphan"])
          /\ \/ Len(batch'["shipper"]) = Len(batch["shipper"]) + a /\ Len(batch'["stop"]) = Len(batch["stop"])
             \/ Len(batch'["stop"]) = Len(batch["stop"]) + a /\ Len(batch'["shipper"]) = Len(batch["shipper"])
      <3>1. CASE ~connected
        BY <1>c, <2>3, <3>1
      <3>2. CASE connected
        <4>1. batch' = [batch EXCEPT ![by] = drawn] /\ Len(batch[by]) = 0 /\ Len(drawn) = 0 + a
          BY <1>a, <1>b, <1>c, <3>2
        <4>2. QED
          BY <1>a, <4>1 DEF By
      <3>3. QED
        BY <3>1, <3>2
    <2> HIDE DEF a, d
    <2>5. OnTheWay' = OnTheWay - d
      <3> DEFINE w == Len(buffer)
                 x == Len(batch["shipper"])
                 y == Len(batch["stop"])
                 z == Len(batch["orphan"])
                 x1 == Len(batch'["shipper"])
                 y1 == Len(batch'["stop"])
                 w1 == Len(buffer')
      <3>1. w \in Nat /\ x \in Nat /\ y \in Nat /\ z \in Nat
        BY CountTypes
      <3>2. OnTheWay = w + x + y + z /\ OnTheWay' = w1 + x1 + y1 + z
        BY <2>4 DEF OnTheWay
      <3>3. w1 = w - n /\ ((x1 = x + a /\ y1 = y) \/ (y1 = y + a /\ x1 = x))
        BY <1>0, <2>4
      <3> HIDE DEF w, x, y, z, x1, y1, w1
      <3>4. QED
        BY <1>b, <2>1, <3>1, <3>2, <3>3
    <2>6. Counted' + OnTheWay' = Counted + OnTheWay
      BY <2>1, <2>2, <2>3, <2>5
    <2>7. emitted - Counted' - OnTheWay' = emitted - Counted - OnTheWay
      BY <1>a, <2>1, <2>2, <2>3, <2>5
    <2>8. QED
      BY <1>a, <2>4, <2>6, <2>7 DEF LineInv, BatchInv
  <1>9. QED
    BY <1>5, <1>7, <1>8 DEF LineInv
\* A thread ends: its lines are stored behind the others, or nowhere.
LEMMA InsertKeeps ==
    ASSUME LogTypeOK, LineInv, NEW by \in By, NEW commits \in BOOLEAN, NEW answers \in BOOLEAN,
           InsertEnds(by, commits, answers)
    PROVE  LineInv'
  <1> DEFINE mine == batch[by]
             last == Len(logs)
  <1>a. /\ emitted \in Nat /\ emitted' = emitted /\ buffer' = buffer /\ mine # <<>>
        /\ batch' = [batch EXCEPT ![by] = <<>>] /\ batch \in [By -> Seq(1..Lines)]
        /\ logs \in Seq(0..Lines) /\ last \in Nat /\ DOMAIN logs = 1..last /\ Len(mine) \in Nat
        /\ \A k \in DOMAIN logs : logs[k] \in Nat
        /\ \A k \in DOMAIN buffer : buffer[k] \in Nat
        /\ \A b \in By : \A k \in DOMAIN batch[b] : batch[b][k] \in Nat /\ batch[b][k] # 0
    BY LogTypes DEF InsertEnds, LogTypeOK
  <1>1. /\ Ascends(buffer) /\ \A i \in DOMAIN buffer : buffer[i] <= emitted
        /\ \A b \in By : Ascends(batch[b]) /\ Before(batch[b], buffer) /\ \A i \in DOMAIN batch[b] : batch[b][i] <= emitted
        /\ Before(batch["orphan"], batch["stop"])
        /\ IF shipper = "runs" THEN batch["stop"] = <<>> /\ batch["orphan"] = <<>> ELSE batch["shipper"] = <<>>
    BY DEF LineInv, WayInv
  <1>b. /\ shipper' = "runs" <=> shipper = "runs"
        /\ shipper = "runs" => by = "shipper"
        /\ shipper # "runs" => by \in {"stop", "orphan"}
    BY <1>1, <1>a DEF InsertEnds, By
  <1>c. \A b \in By : batch'[b] = IF b = by THEN <<>> ELSE batch[b]
    BY <1>a
  <1>d. \A q : Ascends(<<>>) /\ Before(<<>>, q) /\ Before(q, <<>>) /\ DOMAIN <<>> = {}
    BY DEF Ascends, Before
  <1>2. WayInv'
    <2>1. ASSUME NEW b \in By
          PROVE Ascends(batch'[b]) /\ Before(batch'[b], buffer) /\ \A i \in DOMAIN batch'[b] : batch'[b][i] <= emitted
      BY <1>1, <1>c, <1>d
    <2>2. Before(batch'["orphan"], batch'["stop"])
      BY <1>1, <1>c, <1>d DEF By
    <2>3. IF shipper = "runs" THEN batch'["stop"] = <<>> /\ batch'["orphan"] = <<>> ELSE batch'["shipper"] = <<>>
      BY <1>1, <1>c DEF By
    <2>4. QED
      BY <1>1, <1>a, <1>b, <2>1, <2>2, <2>3 DEF WayInv
  \* What the rows are afterwards.
  <1>e. /\ DOMAIN logs \subseteq DOMAIN logs' /\ \A k \in DOMAIN logs : logs'[k] = logs[k]
        /\ \A k \in DOMAIN logs' \ DOMAIN logs :
              k \in Int /\ k > last /\ k - last \in DOMAIN mine /\ logs'[k] = mine[k - last]
    <2>1. CASE ~commits
      BY <2>1 DEF InsertEnds
    <2>2. CASE commits
      <3>1. mine \in Seq(0..Lines)
        <4>1. mine \in Seq(1..Lines)
          BY <1>a
        <4>2. \A q \in Seq(1..Lines) : q \in Seq(0..Lines)
          BY LogAssumption
        <4>3. QED
          BY <4>1, <4>2
      <3>2. /\ DOMAIN (logs \o mine) = 1..last + Len(mine) /\ DOMAIN mine = 1..Len(mine)
            /\ \A k \in 1..last : (logs \o mine)[k] = logs[k]
            /\ \A k \in 1..last + Len(mine) : k > last => k - last \in 1..Len(mine) /\ (logs \o mine)[k] = mine[k - last]
        BY <1>a, <3>1, Chained
      <3>3. logs' = logs \o mine
        BY <2>2 DEF InsertEnds
      <3> HIDE DEF mine, last
      <3>4. \A k \in 1..last + Len(mine) : k \in 1..last \/ k > last
        BY <1>a
      <3>5. 1..last \subseteq 1..last + Len(mine)
        BY <1>a
      <3>6. QED
        BY <1>a, <3>2, <3>3, <3>4, <3>5
    <2>3. QED
      BY <2>1, <2>2
  <1> HIDE DEF last
  <1>3. Written(TRUE) = {k \in DOMAIN logs : logs[k] # 0} /\ Written(TRUE)' = {k \in DOMAIN logs' : logs'[k] # 0}
    BY DEF Written
  <1>4. ASSUME NEW k \in Written(TRUE)'
        PROVE \/ k \in Written(TRUE) /\ logs'[k] = logs[k] /\ logs[k] \in Nat /\ k \in 1..last
              \/ /\ k \in Int /\ k > last /\ k - last \in DOMAIN mine /\ logs'[k] = mine[k - last]
                 /\ logs'[k] \in Nat
    BY <1>3, <1>a, <1>e
  <1>5. /\ \A k \in Written(TRUE) :
              /\ logs[k] <= emitted /\ \A j \in DOMAIN buffer : logs[k] < buffer[j]
              /\ \A b \in By : \A j \in DOMAIN batch[b] :
                    logs[k] # batch[b][j] /\ (shipper = "runs" => logs[k] < batch[b][j])
        /\ \A k, l \in Written(TRUE) : logs[k] = logs[l] => k = l
        /\ shipper = "runs" => \A k, l \in Written(TRUE) : k < l => logs[k] < logs[l]
    BY DEF LineInv, StoredInv, StoredInOrder
  <1>6. \A k \in Written(TRUE)' : logs'[k] <= emitted /\ \A j \in DOMAIN buffer : logs'[k] < buffer[j]
    <2>1. \A i \in DOMAIN mine : mine[i] <= emitted /\ \A j \in DOMAIN buffer : mine[i] < buffer[j]
      BY <1>1 DEF Before
    <2>2. QED
      BY <1>4, <1>5, <2>1
  <1>7. ASSUME NEW k \in Written(TRUE)', NEW b \in By, NEW j \in DOMAIN batch'[b]
        PROVE logs'[k] # batch'[b][j] /\ (shipper = "runs" => logs'[k] < batch'[b][j])
    <2>1. b # by /\ batch'[b] = batch[b] /\ batch[b] # <<>> /\ j \in DOMAIN batch[b]
      BY <1>7, <1>c, <1>d
    <2>2. shipper # "runs" /\ by \in {"stop", "orphan"} /\ b \in {"stop", "orphan"}
      BY <1>1, <1>b, <2>1 DEF By
    <2>3. CASE k \in Written(TRUE) /\ logs'[k] = logs[k]
      BY ZenonT(60), <1>5, <2>1, <2>2, <2>3
    <2>4. CASE k - last \in DOMAIN mine /\ logs'[k] = mine[k - last]
      <3>1. mine[k - last] < batch[b][j] \/ batch[b][j] < mine[k - last]
        BY <1>1, <2>1, <2>2, <2>4 DEF Before
      <3>2. mine[k - last] \in Nat /\ batch[b][j] \in Nat
        BY <1>a, <2>1, <2>4
      <3>3. QED
        BY <2>1, <2>2, <2>4, <3>1, <3>2
    <2>5. QED
      BY <1>4, <2>3, <2>4
  <1>8. ASSUME NEW k \in Written(TRUE)', NEW l \in Written(TRUE)', k < l
        PROVE logs'[k] # logs'[l] /\ (shipper = "runs" => logs'[k] < logs'[l])
    <2>1. CASE l \in Written(TRUE) /\ l \in 1..last /\ logs'[l] = logs[l] /\ logs[l] \in Nat
      <3>1. ASSUME k \in Int, k > last PROVE FALSE
        BY <1>8, <1>a, <2>1, <3>1
      <3>2. k \in Written(TRUE) /\ logs'[k] = logs[k] /\ k \in 1..last
        BY <1>4, <3>1
      <3>3. k # l
        BY <1>8, <2>1, <3>2
      <3>4. QED
        BY <1>5, <1>8, <2>1, <3>2, <3>3
    <2>2. CASE l - last \in DOMAIN mine /\ logs'[l] = mine[l - last] /\ l \in Int /\ logs'[l] \in Nat
      <3>1. CASE k \in Written(TRUE) /\ logs'[k] = logs[k]
        BY <1>5, <2>2, <3>1
      <3>2. CASE k - last \in DOMAIN mine /\ logs'[k] = mine[k - last] /\ k \in Int /\ logs'[k] \in Nat
        <4>1. k - last < l - last
          BY <1>a, <1>8, <2>2, <3>2
        <4>2. mine[k - last] < mine[l - last]
          BY <1>1, <2>2, <3>2, <4>1 DEF Ascends
        <4>3. QED
          BY <2>2, <3>2, <4>2
      <3>3. QED
        BY <1>4, <3>1, <3>2
    <2>3. QED
      BY <1>4, <2>1, <2>2
  <1>9. \A k, l \in Written(TRUE)' : logs'[k] = logs'[l] => k = l
    <2>1. \A k \in Written(TRUE)' : k \in Int
      <3>1. \A k \in 1..last : k \in Int
        OBVIOUS
      <3>2. QED
        BY <1>4, <3>1
    <2>2. ASSUME NEW k \in Written(TRUE)', NEW l \in Written(TRUE)' PROVE k < l \/ l < k \/ k = l
      <3>1. k \in Int /\ l \in Int
        BY <2>1
      <3>2. QED
        BY <3>1
    <2>3. QED
      BY <1>8, <2>2
  <1>10. StoredInv'
    BY <1>6, <1>7, <1>8, <1>9, <1>a, <1>b DEF StoredInv, StoredInOrder
  <1>11. BatchInv'
    <2> DEFINE n == Len(mine)
               w == Len(buffer)
               x == Len(batch["shipper"])
               y == Len(batch["stop"])
               z == Len(batch["orphan"])
               x1 == Len(batch'["shipper"])
               y1 == Len(batch'["stop"])
               z1 == Len(batch'["orphan"])
    <2>1. w \in Nat /\ x \in Nat /\ y \in Nat /\ z \in Nat /\ n \in Nat /\ Counted \in Nat /\ OnTheWay \in Nat
      BY <1>a, CountTypes
    <2>2. OnTheWay = w + x + y + z /\ OnTheWay' = w + x1 + y1 + z1
      BY <1>a DEF OnTheWay
    <2>3. /\ by = "shipper" => x = n /\ x1 = 0 /\ y1 = y /\ z1 = z
          /\ by = "stop" => y = n /\ y1 = 0 /\ x1 = x /\ z1 = z
          /\ by = "orphan" => z = n /\ z1 = 0 /\ x1 = x /\ y1 = y
      <3>1. Len(<<>>) = 0
        OBVIOUS
      <3>2. QED
        BY <1>c, <3>1 DEF By
    <2>4. Counted' = IF by = "orphan" THEN Counted ELSE Counted + n
      <3>1. count \in CountRec /\ count.shipped \in Nat /\ count.dropped \in Nat /\ count.overflow \in Nat
        BY LogTypes
      <3>2. CASE by = "orphan"
        BY <3>2 DEF InsertEnds, Counted
      <3>3. CASE by # "orphan" /\ answers
        <4>1. count'.shipped = count.shipped + n /\ count'.dropped = count.dropped /\ count'.overflow = count.overflow
          BY <3>1, <3>3 DEF InsertEnds, CountRec
        <4> HIDE DEF n
        <4>2. QED
          BY <2>1, <3>1, <3>3, <4>1 DEF Counted
      <3>4. CASE by # "orphan" /\ ~answers
        <4>1. count'.shipped = count.shipped /\ count'.dropped = count.dropped + n /\ count'.overflow = count.overflow
          BY <3>1, <3>4 DEF InsertEnds, CountRec
        <4> HIDE DEF n
        <4>2. QED
          BY <2>1, <3>1, <3>4, <4>1 DEF Counted
      <3>5. QED
        BY <3>2, <3>3, <3>4
    <2>5. /\ Counted + OnTheWay <= emitted
          /\ shipper = "runs" => Counted + OnTheWay = emitted
          /\ emitted - Counted - OnTheWay + (IF shipper = "runs" THEN 0 ELSE z) <= Batch
      BY DEF LineInv, BatchInv
    <2>6. Batch \in Nat
      BY LogAssumption
    <2> HIDE DEF n, w, x, y, z, x1, y1, z1
    <2>7. CASE by = "orphan"
      <3>1. /\ Counted' + OnTheWay' <= emitted
            /\ emitted - Counted' - OnTheWay' + z1 <= Batch
        BY <1>a, <1>b, <2>1, <2>2, <2>3, <2>4, <2>5, <2>6, <2>7
      <3>2. QED
        BY <1>a, <1>b, <2>7, <3>1 DEF BatchInv, z1
    <2>8. CASE by # "orphan"
      <3>1. Counted' + OnTheWay' = Counted + OnTheWay /\ z1 = z
        BY SMTT(30), <1>a, <1>b, <2>1, <2>2, <2>3, <2>4, <2>8 DEF By
      <3>2. emitted - Counted' - OnTheWay' = emitted - Counted - OnTheWay
        BY SMTT(30), <1>a, <1>b, <2>1, <2>2, <2>3, <2>4, <2>8 DEF By
      <3>3. QED
        BY <1>a, <1>b, <2>5, <3>1, <3>2 DEF BatchInv, z1
    <2>9. QED
      BY <2>7, <2>8
  <1>12. QED
    BY <1>2, <1>10, <1>11 DEF LineInv
\* stop() hands the batch of the shipper to nobody.
LEMMA StopKeeps ==
    ASSUME LogTypeOK, LineInv, Stop
    PROVE  LineInv'
  <1>a. /\ emitted' = emitted /\ buffer' = buffer /\ logs' = logs /\ count' = count
        /\ shipper = "runs" /\ shipper' # "runs"
        /\ batch["stop"] = <<>> /\ batch["orphan"] = <<>> /\ batch \in [By -> Seq(1..Lines)]
    BY DEF Stop, LineInv, WayInv, LogTypeOK
  <1>b. batch'["shipper"] = <<>> /\ batch'["stop"] = <<>> /\ batch'["orphan"] = batch["shipper"]
    BY <1>a DEF Stop, By
  <1>c. \A q : Ascends(<<>>) /\ Before(<<>>, q) /\ Before(q, <<>>) /\ DOMAIN <<>> = {}
    BY DEF Ascends, Before
  <1>d. "shipper" \in By /\ \A b \in By : b \in {"shipper", "stop", "orphan"}
    BY DEF By
  <1>e. \A b \in By : batch'[b] = <<>> \/ batch'[b] = batch["shipper"]
    BY <1>b, <1>d
  <1>1. WayInv'
    <2>1. ASSUME NEW b \in By
          PROVE Ascends(batch'[b]) /\ Before(batch'[b], buffer) /\ \A i \in DOMAIN batch'[b] : batch'[b][i] <= emitted
      BY <1>c, <1>d, <1>e DEF LineInv, WayInv
    <2>2. QED
      BY <1>a, <1>b, <1>c, <2>1 DEF LineInv, WayInv
  <1>2. Written(TRUE)' = Written(TRUE)
    BY <1>a DEF Written
  <1>3. StoredInv'
    <2>1. ASSUME NEW k \in Written(TRUE), NEW b \in By, NEW j \in DOMAIN batch'[b] PROVE logs[k] # batch'[b][j]
      <3>1. batch'[b] = batch["shipper"]
        BY <1>c, <1>e, <2>1
      <3>2. QED
        BY <1>d, <2>1, <3>1 DEF LineInv, StoredInv
    <2>2. QED
      BY <1>a, <1>2, <2>1 DEF LineInv, StoredInv, StoredInOrder
  <1>4. BatchInv'
    <2> DEFINE w == Len(buffer)
               x == Len(batch["shipper"])
    <2>1. w \in Nat /\ x \in Nat /\ Counted \in Nat /\ OnTheWay \in Nat /\ x <= Batch /\ emitted \in Nat
      BY <1>d, CountTypes, LogTypes
    <2>2. Len(<<>>) = 0
      OBVIOUS
    <2>3. OnTheWay = w + x + 0 + 0 /\ OnTheWay' = w + 0 + 0 + x /\ Counted' = Counted
      BY <1>a, <1>b, <2>2 DEF OnTheWay, Counted
    <2>4. Counted + OnTheWay = emitted
      BY <1>a DEF LineInv, BatchInv
    <2>5. Len(batch'["orphan"]) = x
      BY <1>b
    <2>6. Batch \in Nat
      BY LogAssumption
    <2> HIDE DEF w, x
    <2>7. Counted + OnTheWay' = emitted
      BY <2>1, <2>3, <2>4
    <2>8. emitted - Counted - OnTheWay' + x <= Batch
      BY <2>1, <2>3, <2>4, <2>6
    <2>9. QED
      BY <1>a, <2>1, <2>3, <2>5, <2>7, <2>8 DEF BatchInv
  <1>5. QED
    BY <1>1, <1>3, <1>4 DEF LineInv

\* A row of the peer is none of ours.
LEMMA PeerKeeps ==
    ASSUME LogTypeOK, LineInv, PeerInserts
    PROVE  LineInv'
  <1>a. /\ emitted' = emitted /\ buffer' = buffer /\ batch' = batch /\ count' = count /\ shipper' = shipper
        /\ logs' = Append(logs, 0) /\ logs \in Seq(0..Lines)
    BY DEF PeerInserts, LogTypeOK
  <1>b. /\ Len(logs) \in Nat /\ DOMAIN logs = 1..Len(logs) /\ DOMAIN logs' = 1..Len(logs) + 1
        /\ logs'[Len(logs) + 1] = 0 /\ \A k \in 1..Len(logs) : logs'[k] = logs[k]
    BY <1>a
  <1>1. \A k \in DOMAIN logs' : k \in DOMAIN logs \/ logs'[k] = 0
    BY <1>b
  <1>2. \A k \in DOMAIN logs : k \in DOMAIN logs' /\ logs'[k] = logs[k]
    BY <1>b
  <1>3. Written(TRUE)' = Written(TRUE) /\ \A k \in Written(TRUE) : logs'[k] = logs[k]
    BY <1>1, <1>2 DEF Written
  <1>4. WayInv'
    BY <1>a DEF LineInv, WayInv
  <1>5. StoredInv'
    <2>1. ASSUME NEW k \in Written(TRUE)
          PROVE /\ logs'[k] <= emitted /\ \A j \in DOMAIN buffer : logs'[k] < buffer[j]
                /\ \A by \in By : \A j \in DOMAIN batch[by] :
                      logs'[k] # batch[by][j] /\ (shipper = "runs" => logs'[k] < batch[by][j])
      BY ZenonT(60), <1>3 DEF LineInv, StoredInv
    <2>2. \A k, l \in Written(TRUE) : logs'[k] = logs'[l] => k = l
      BY <1>3 DEF LineInv, StoredInv
    <2>3. shipper = "runs" => \A k, l \in Written(TRUE) : k < l => logs'[k] < logs'[l]
      BY <1>3 DEF LineInv, StoredInv, StoredInOrder
    <2>4. QED
      BY <1>a, <1>3, <2>1, <2>2, <2>3 DEF StoredInv, StoredInOrder
  <1>6. BatchInv'
    BY <1>a DEF LineInv, BatchInv, Counted, OnTheWay
  <1>7. QED
    BY <1>4, <1>5, <1>6 DEF LineInv

LEMMA LinesKept == LogTypeOK /\ LineInv /\ [LogNext]_logVars => LineInv'
  <1> SUFFICES ASSUME LogTypeOK, LineInv, [LogNext]_logVars PROVE LineInv'
    OBVIOUS
  <1>1. ASSUME PruneReads \/ (\E commits \in BOOLEAN : PruneDeletes(commits)) \/ LinesAge \/ UNCHANGED logVars PROVE LineInv'
    BY ZenonT(60), <1>1 DEF PruneReads, PruneDeletes, LinesAge, logVars, LineInv, WayInv, StoredInv, BatchInv, StoredInOrder, Counted, OnTheWay, Written
  <1>2. QED
    BY <1>1, EmitKeeps, FlushKeeps, InsertKeeps, StopKeeps, PeerKeeps DEF LogNext

-----------------------------------------------------------------------------
(* prune()                                                                 *)

Newer(mine, k) == {l \in Written(mine) : l > k}

\* There are only ever more rows.
LEMMA OnlyMore ==
    ASSUME LogTypeOK, [LogNext]_logVars
    PROVE  /\ \A mine \in BOOLEAN : /\ Written(mine) \subseteq Written(mine)'
                                    /\ Written(mine)' \cap DOMAIN logs \subseteq Written(mine)
           /\ \A k \in DOMAIN logs : k \in DOMAIN logs' /\ logs'[k] = logs[k]
  <1>1. \A k \in DOMAIN logs : k \in DOMAIN logs' /\ logs'[k] = logs[k]
    <2>1. logs' = logs \/ \E q \in Seq(0..Lines) : logs' = logs \o q
      <3>1. CASE PeerInserts
        <4>1. logs' = Append(logs, 0) /\ logs \in Seq(0..Lines) /\ <<0>> \in Seq(0..Lines)
          BY <3>1, LogAssumption DEF PeerInserts, LogTypeOK
        <4>2. logs' = logs \o <<0>>
          BY <4>1
        <4>3. QED
          BY <4>1, <4>2
      <3>2. ASSUME NEW by \in By, NEW commits \in BOOLEAN, NEW answers \in BOOLEAN, InsertEnds(by, commits, answers)
            PROVE logs' = logs \/ \E q \in Seq(0..Lines) : logs' = logs \o q
        <4>1. batch[by] \in Seq(1..Lines)
          BY LogTypes
        <4>2. \A q \in Seq(1..Lines) : q \in Seq(0..Lines)
          BY LogAssumption
        <4>3. QED
          BY <3>2, <4>1, <4>2 DEF InsertEnds
      <3>3. QED
        BY <3>1, <3>2 DEF LogNext, Emit, Stop, PruneReads, PruneDeletes, LinesAge, Flushes, logVars
    <2>2. ASSUME NEW q \in Seq(0..Lines), logs' = logs \o q
          PROVE \A k \in DOMAIN logs : k \in DOMAIN logs' /\ logs'[k] = logs[k]
      <3>1. logs \in Seq(0..Lines)
        BY DEF LogTypeOK
      <3>2. /\ DOMAIN (logs \o q) = 1..Len(logs) + Len(q) /\ Len(logs) \in Nat /\ Len(q) \in Nat /\ DOMAIN logs = 1..Len(logs)
            /\ \A k \in 1..Len(logs) : (logs \o q)[k] = logs[k]
        BY <3>1, Chained
      <3>3. 1..Len(logs) \subseteq 1..Len(logs) + Len(q)
        BY <3>2
      <3>4. QED
        BY <2>2, <3>2, <3>3
    <2>3. QED
      BY <2>1, <2>2
  <1>2. QED
    BY <1>1 DEF Written

\* What is older than the retention stays so.
LEMMA AgedStays ==
    ASSUME LogTypeOK, [LogNext]_logVars
    PROVE  \A k \in DOMAIN logs : IsAged(k) => k \in DOMAIN logs' /\ IsAged(k)'
  <1>1. \A k \in DOMAIN logs : k \in DOMAIN logs' /\ logs'[k] = logs[k]
    BY OnlyMore
  <1>2. logAge.mine \in Nat /\ logAge.peer \in Nat
    BY DEF LogTypeOK
  <1>3. \A k \in DOMAIN logs : k \in Nat /\ logs[k] \in Nat
    BY LogTypes
  <1>4. /\ logAge'.mine \in Nat /\ logAge'.peer \in Nat
        /\ logAge.mine <= logAge'.mine /\ logAge.peer <= logAge'.peer
    <2>1. CASE LinesAge
      BY <1>2, <2>1, TimeOnly
    <2>2. CASE ~LinesAge
      <3>1. logAge' = logAge
        BY <2>2 DEF LogNext, Emit, Stop, PeerInserts, PruneReads, PruneDeletes, Flushes, InsertEnds, logVars
      <3>2. QED
        BY <1>2, <3>1
    <2>3. QED
      BY <2>1, <2>2
  <1>5. QED
    BY <1>1, <1>2, <1>3, <1>4 DEF IsAged

\* Rows between the newest and one of them are finitely many.
LEMMA NewerFinite ==
    ASSUME LogTypeOK
    PROVE  \A mine \in BOOLEAN : IsFiniteSet(Written(mine)) /\ Written(mine) \subseteq 1..Len(logs)
  <1>1. \A mine \in BOOLEAN : Written(mine) \subseteq 1..Len(logs)
    BY LogTypes DEF Written
  <1>2. IsFiniteSet(1..Len(logs))
    <2>1. Len(logs) \in Int /\ 1 \in Int
      BY LogTypes
    <2>2. QED
      BY <2>1, FS_Interval
  <1>3. QED
    BY <1>1, <1>2, FS_Subset

\* Of a larger set there are as many at least.
LEMMA StillEnough ==
    ASSUME NEW S, NEW T, IsFiniteSet(T), S \subseteq T, Cardinality(S) >= Keep
    PROVE  Cardinality(T) >= Keep
  <1>1. IsFiniteSet(S) /\ Cardinality(S) <= Cardinality(T) /\ Cardinality(S) \in Nat /\ Cardinality(T) \in Nat
    BY FS_Subset, FS_CardinalityType
  <1>2. Keep \in Nat
    BY LogAssumption
  <1>3. QED
    BY <1>1, <1>2
\* The threshold that prune() reads has enough rows above it.
LEMMA ThresholdLeaves ==
    ASSUME LogTypeOK, NEW mine \in BOOLEAN, Threshold(mine) # 0
    PROVE  Cardinality(Newer(mine, Threshold(mine))) >= Keep
  <1> DEFINE kept == Rows(mine) \ Aged
             old == {k \in kept : Cardinality({l \in kept : l > k}) >= Keep}
             t == Threshold(mine)
             n == Len(logs)
  <1>1. old \in SUBSET (1..n) /\ n \in Nat
    BY NewerFinite, LogTypes DEF Rows
  <1>2. old # {} /\ t = CHOOSE k \in old : \A l \in old : l <= k
    BY DEF Threshold
  <1>3. t \in old
    <2> HIDE DEF kept, old, t, n
    <2>1. \E k \in old : \A l \in old : l <= k
      BY <1>1, <1>2, HasLargest
    <2>2. QED
      BY <1>2, <2>1
  <1>4. Cardinality({l \in kept : l > t}) >= Keep
    BY <1>3
  <1> HIDE DEF t
  <1>5. {l \in kept : l > t} \subseteq Newer(mine, t)
    BY DEF Newer, Rows
  <1>6. IsFiniteSet(Newer(mine, t))
    <2>1. Newer(mine, t) \subseteq Written(mine) /\ IsFiniteSet(Written(mine))
      BY NewerFinite DEF Newer
    <2>2. QED
      BY <2>1, FS_Subset
  <1>7. Cardinality(Newer(mine, t)) >= Keep
    BY <1>4, <1>5, <1>6, StillEnough
  <1>8. QED
    BY <1>7 DEF t

\* What was pruned, and is about to be, is older than the retention or has
\* enough rows above it.
PrunedInv ==
    /\ prune.mine # 0 => Cardinality(Newer(TRUE, prune.mine)) >= Keep
    /\ prune.peer # 0 => Cardinality(Newer(FALSE, prune.peer)) >= Keep
    /\ \A k \in prune.aged : IsAged(k)
    /\ \A mine \in BOOLEAN : \A k \in Written(mine) \cap pruned : IsAged(k) \/ Cardinality(Newer(mine, k)) >= Keep

LEMMA PruneKept == LogTypeOK /\ PrunedInv /\ [LogNext]_logVars => PrunedInv'
  <1> SUFFICES ASSUME LogTypeOK, PrunedInv, [LogNext]_logVars PROVE PrunedInv'
    OBVIOUS
  <1>a. DOMAIN logs' = 1..Len(logs') /\ Len(logs') \in Nat
    BY LogTypesKept DEF LogTypeOK
  <1>1. ASSUME NEW mine \in BOOLEAN, NEW k, Cardinality(Newer(mine, k)) >= Keep
        PROVE Cardinality({l \in Written(mine)' : l > k}) >= Keep
    <2> DEFINE later == {l \in Written(mine)' : l > k}
    <2>1. Newer(mine, k) \subseteq later
      BY OnlyMore DEF Newer
    <2>2. IsFiniteSet(Written(mine)')
      <3>1. Written(mine)' \subseteq 1..Len(logs')
        BY <1>a DEF Written
      <3>2. Len(logs') \in Int /\ 1 \in Int
        BY <1>a
      <3>3. QED
        BY <3>1, <3>2, FS_Interval, FS_Subset
    <2>3. later \subseteq Written(mine)'
      OBVIOUS
    <2> HIDE DEF later
    <2>4. IsFiniteSet(later)
      BY <2>2, <2>3, FS_Subset
    <2>5. Cardinality(later) >= Keep
      BY <1>1, <2>1, <2>4, StillEnough
    <2>6. QED
      BY <2>5 DEF later
  <1>2. ASSUME pruned' = pruned, NEW mine \in BOOLEAN, NEW k \in Written(mine)' \cap pruned'
        PROVE IsAged(k)' \/ Cardinality({l \in Written(mine)' : l > k}) >= Keep
    <2>1. k \in Written(mine) \cap pruned /\ k \in DOMAIN logs
      BY <1>2, OnlyMore DEF LogTypeOK
    <2>2. IsAged(k) \/ Cardinality(Newer(mine, k)) >= Keep
      BY <2>1 DEF PrunedInv
    <2>3. QED
      BY <1>1, <2>1, <2>2, AgedStays
  <1>3. CASE PruneReads
    <2>1. pruned' = pruned /\ prune' = [aged |-> Aged, mine |-> Threshold(TRUE), peer |-> Threshold(FALSE)]
      BY <1>3 DEF PruneReads
    <2>2. prune'.mine # 0 => Cardinality(Newer(TRUE, prune'.mine)) >= Keep
      BY <2>1, ThresholdLeaves
    <2>3. prune'.peer # 0 => Cardinality(Newer(FALSE, prune'.peer)) >= Keep
      BY <2>1, ThresholdLeaves
    <2>4. logs' = logs
      BY <1>3 DEF PruneReads
    <2>5. \A mine \in BOOLEAN : Written(mine)' = Written(mine)
      BY <2>4 DEF Written
    <2>6. \A k \in prune'.aged : IsAged(k)'
      BY <2>1, AgedStays DEF Aged
    <2>7. QED
      BY <1>2, <2>1, <2>2, <2>3, <2>5, <2>6 DEF PrunedInv, Newer
  <1>4. ASSUME NEW commits \in BOOLEAN, PruneDeletes(commits) PROVE PrunedInv'
    <2>1. logs' = logs /\ prune' = NoPrune
      BY <1>4 DEF PruneDeletes
    <2>2. \A mine \in BOOLEAN : Written(mine)' = Written(mine)
      BY <2>1 DEF Written
    <2>3. prune'.mine = 0 /\ prune'.peer = 0 /\ prune'.aged = {}
      BY <2>1 DEF NoPrune
    <2>4. ASSUME NEW mine \in BOOLEAN, NEW t \in Nat, t # 0, Cardinality(Newer(mine, t)) >= Keep,
                 NEW k \in Written(mine), k <= t
          PROVE Cardinality(Newer(mine, k)) >= Keep
      <3>1. \A l \in Written(mine) : l \in Int
        BY NewerFinite
      <3>2. Newer(mine, t) \subseteq Newer(mine, k)
        BY <2>4, <3>1 DEF Newer
      <3>3. IsFiniteSet(Newer(mine, k))
        <4>1. Newer(mine, k) \subseteq Written(mine) /\ IsFiniteSet(Written(mine))
          BY NewerFinite DEF Newer
        <4>2. QED
          BY <4>1, FS_Subset
      <3>4. QED
        BY <2>4, <3>2, <3>3, StillEnough
    <2>5. ASSUME NEW mine \in BOOLEAN, NEW k \in Written(mine) \cap pruned' PROVE IsAged(k)' \/ Cardinality(Newer(mine, k)) >= Keep
      <3>0. k \in DOMAIN logs
        BY <2>5 DEF Written
      <3>1. CASE k \in pruned
        BY <2>5, <3>0, <3>1, AgedStays DEF PrunedInv
      <3>2. CASE k \notin pruned
        <4>1. \/ k \in Written(TRUE) /\ k <= prune.mine
              \/ k \in Written(FALSE) /\ k <= prune.peer
              \/ k \in prune.aged
          BY <1>4, <2>5, <3>2 DEF PruneDeletes, Rows
        <4>2. k \in Nat /\ k >= 1 /\ prune.mine \in Nat /\ prune.peer \in Nat
          <5>1. k \in 1..Len(logs) /\ Len(logs) \in Nat
            BY <2>5, NewerFinite, LogTypes
          <5>2. QED
            BY <5>1 DEF LogTypeOK
        <4>3. \A m \in BOOLEAN : k \in Written(m) => m = mine
          BY <2>5 DEF Written
        <4>4. CASE k \in Written(TRUE) /\ k <= prune.mine
          <5>1. prune.mine # 0
            BY <4>2, <4>4
          <5>2. mine = TRUE
            BY <4>3, <4>4, Zenon
          <5>3. QED
            BY <2>4, <4>2, <4>4, <5>1, <5>2 DEF PrunedInv
        <4>5. CASE k \in Written(FALSE) /\ k <= prune.peer
          <5>1. prune.peer # 0
            BY <4>2, <4>5
          <5>2. mine = FALSE
            BY <4>3, <4>5, Zenon
          <5>3. QED
            BY <2>4, <4>2, <4>5, <5>1, <5>2 DEF PrunedInv
        <4>6. CASE k \in prune.aged
          BY <3>0, <4>6, AgedStays DEF PrunedInv
        <4>7. QED
          BY <4>1, <4>4, <4>5, <4>6
      <3>3. QED
        BY <3>1, <3>2
    <2>6. QED
      BY <2>2, <2>3, <2>5 DEF PrunedInv, Newer
  <1>5. CASE ~PruneReads /\ ~(\E commits \in BOOLEAN : PruneDeletes(commits))
    <2>1. pruned' = pruned /\ prune' = prune
      BY <1>5 DEF LogNext, LinesAge, Emit, Flushes, InsertEnds, Stop, PeerInserts, logVars
    <2>2. prune.mine # 0 => Cardinality({l \in Written(TRUE)' : l > prune.mine}) >= Keep
      BY <1>1 DEF PrunedInv
    <2>3. prune.peer # 0 => Cardinality({l \in Written(FALSE)' : l > prune.peer}) >= Keep
      BY <1>1 DEF PrunedInv
    <2>4. \A k \in prune'.aged : IsAged(k)'
      BY <2>1, AgedStays DEF PrunedInv, LogTypeOK
    <2>5. QED
      BY <1>2, <2>1, <2>2, <2>3, <2>4 DEF PrunedInv, Newer
  <1>6. QED
    BY <1>3, <1>4, <1>5
-----------------------------------------------------------------------------
(* Theorems.                                                               *)

LogInv == LogTypeOK /\ LineInv /\ PrunedInv

LEMMA LogStart == LogInit => LogInv
  <1> SUFFICES ASSUME LogInit PROVE LogInv
    OBVIOUS
  <1> USE LogAssumption
  <1>a. /\ emitted = 0 /\ buffer = <<>> /\ batch = [b \in By |-> <<>>] /\ logs = <<>> /\ pruned = {}
        /\ count = [shipped |-> 0, dropped |-> 0, overflow |-> 0] /\ shipper = "runs" /\ prune = [aged |-> {}, mine |-> 0, peer |-> 0]
        /\ logAge = [mine |-> 0, peer |-> 0]
    BY DEF LogInit, NoPrune
  <1>b. <<>> \in Seq(1..Lines) /\ <<>> \in Seq(0..Lines) /\ Len(<<>>) = 0 /\ DOMAIN <<>> = {}
    OBVIOUS
  <1>c. \A b \in By : batch[b] = <<>>
    BY <1>a
  <1>1. LogTypeOK
    <2>1. /\ batch \in [By -> Seq(1..Lines)] /\ \A b \in By : Len(batch[b]) <= Batch
      BY <1>a, <1>b
    <2>2. count \in [shipped : Nat, dropped : Nat, overflow : Nat] /\ prune \in [aged : SUBSET DOMAIN logs, mine : Nat, peer : Nat]
          /\ logAge \in [mine : Nat, peer : Nat]
      BY <1>a
    <2>3. QED
      BY <1>a, <1>b, <2>1, <2>2 DEF LogTypeOK
  <1>2. \A mine \in BOOLEAN : Written(mine) = {}
    BY <1>a, <1>b DEF Written
  <1>3. WayInv
    BY <1>a, <1>b, <1>c DEF WayInv, Ascends, Before, By
  <1>4. StoredInv
    BY <1>2 DEF StoredInv, StoredInOrder
  <1>5. BatchInv
    <2>1. Counted = 0 /\ OnTheWay = 0
      BY <1>a, <1>b, <1>c DEF Counted, OnTheWay, By
    <2>2. QED
      BY <1>a, <2>1 DEF BatchInv
  <1>6. PrunedInv
    BY <1>a, <1>2 DEF PrunedInv
  <1>7. QED
    BY <1>1, <1>3, <1>4, <1>5, <1>6 DEF LogInv, LineInv

\* Every step keeps it.
LEMMA LogKept == LogInv /\ [LogNext]_logVars => LogInv'
  BY LogTypesKept, LinesKept, PruneKept DEF LogInv

LEMMA LogHolds == LogInv => LogsAreKept
  <1> SUFFICES ASSUME LogInv PROVE LogsAreKept
    OBVIOUS
  <1>1. LinesAccountedFor
    <2>1. /\ Counted + OnTheWay <= emitted
          /\ shipper = "runs" => Counted + OnTheWay = emitted
          /\ emitted - Counted - OnTheWay + (IF shipper = "runs" THEN 0 ELSE Len(batch["orphan"])) <= Batch
          /\ \A k, l \in Written(TRUE) : logs[k] = logs[l] => k = l
      BY DEF LogInv, LineInv, BatchInv, StoredInv
    <2>2. /\ Counted \in Nat /\ OnTheWay \in Nat /\ Len(batch["orphan"]) \in Nat /\ emitted \in Nat
      BY CountTypes, LogTypes DEF LogInv
    <2>3. emitted - Counted - OnTheWay <= Batch
      BY <2>1, <2>2, LogAssumption
    <2>4. QED
      BY <2>1, <2>3 DEF LinesAccountedFor
  <1>2. NewestKept
    BY DEF LogInv, PrunedInv, NewestKept, Newer
  <1>3. QED
    BY <1>1, <1>2 DEF LogsAreKept, LogInv, LineInv, StoredInv

\* Types; neither the buffer nor a batch holds more lines than it may.
THEOREM LogTypeCorrect == LogSpec => []LogTypeOK
  <1>1. LogInv => LogTypeOK
    BY DEF LogInv
  <1>2. QED
    BY <1>1, LogStart, LogKept, PTL DEF LogSpec

\* Every line is waiting, on its way, stored once and in order, or counted as
\* dropped; prune() takes only what is older than the retention or what enough
\* newer lines of the same instance follow.
THEOREM LogCorrect == LogSpec => []LogsAreKept
  BY LogHolds, LogStart, LogKept, PTL DEF LogSpec

-----------------------------------------------------------------------------
(* Notifications: a change that is queued waits in one place, what is      *)
(* queued is in the order of the changes, and what was pushed out is       *)
(* older.                                                                  *)

\* Where an operation may be before it is written.
Place == {"queue", "task", "request"}
Held(i, p) == IF p = "queue" THEN queued[i] ELSE flush[i][p]

\* What is held is in the order of the changes.
Rises(q) == \A k, l \in DOMAIN q : k < l => q[k].change < q[l].change

HeldInv == \A i \in Bell, p \in Place : Rises(Held(i, p)) /\ Ids(Held(i, p)) \subseteq 1..changes

\* A change that was queued is in one place, and only those are in one.
OnePlaceInv ==
    /\ \A i, j \in Bell, p, r \in Place :
          i # j \/ p # r => Ids(Held(i, p)) \cap Ids(Held(j, r)) = {}
    /\ \A i \in Bell, p \in Place : Ids(Held(i, p)) \cap (done.written \cup done.lost) = {}
    /\ done.written \cap done.lost = {} /\ done.written \cup done.lost \subseteq 1..changes
    /\ \A c : c \in done.queued <=>
          c \in done.written \cup done.lost \/ \E i \in Bell, p \in Place : c \in Ids(Held(i, p))

\* The task and the request hold what their thread writes, and nothing else.
IdleInv == \A i \in Bell :
    /\ saver[i] # "writes" => flush[i]["task"] = <<>>
    /\ asked[i] # "writes" => flush[i]["request"] = <<>>

BellInv == BellTypeOK /\ HeldInv /\ OnePlaceInv /\ IdleInv

-----------------------------------------------------------------------------
(* Transactions.                                                           *)

\* Step by step to the end: else there would be a largest k up to which it goes.
LEMMA UpTo ==
    ASSUME NEW n \in Nat, NEW S, 0 \in S, \A k \in 0..(n - 1) : k \in S => k + 1 \in S
    PROVE  \A k \in 0..n : k \in S
  <1> SUFFICES ASSUME NEW b \in 0..n, b \notin S PROVE FALSE
    OBVIOUS
  <1> DEFINE T == {k \in 1..(b + 1) : k - 1 \in S}
  <1>1. T \in SUBSET (1..(b + 1)) /\ b + 1 \in Nat
    OBVIOUS
  <1>2. 1 \in T
    OBVIOUS
  <1>3. PICK k \in T : \A l \in T : l <= k
    <2> HIDE DEF T
    <2> QED BY <1>1, <1>2, HasLargest
  <1>4. k \in 1..(b + 1) /\ k - 1 \in S
    OBVIOUS
  <1>5. k - 1 # b
    BY <1>4
  <1>6. k - 1 \in 0..(n - 1) /\ (k - 1) + 1 = k /\ k + 1 \in 1..(b + 1) /\ (k + 1) - 1 = k /\ ~(k + 1 <= k)
    BY <1>4, <1>5
  <1>7. k \in S
    BY <1>4, <1>6
  <1>8. k + 1 \in T
    BY <1>6, <1>7
  <1>9. QED
    BY <1>3, <1>6, <1>8

\* The fields of an operation.
LEMMA OperationFields ==
    ASSUME NEW op \in Operation
    PROVE  /\ op.change \in Nat /\ op.kind \in {"upsert", "delete", "read", "dismiss", "clear"}
           /\ op.kind # "clear" => op.note \in Note
           /\ op.kind = "clear" => op.notes \in SUBSET Note
  BY DEF Operation

LEMMA TableFields ==
    ASSUME NEW b \in Table
    PROVE  b.rows \in [Note -> Nat] /\ b.read \in SUBSET Note /\ b.dismissed \in SUBSET Note
  BY DEF Table

LEMMA RowsMade ==
    ASSUME NEW b \in Table, NEW rows \in [Note -> Nat]
    PROVE  /\ [b EXCEPT !.rows = rows] \in Table
           /\ [b EXCEPT !.rows = rows].rows = rows /\ [b EXCEPT !.rows = rows].read = b.read
           /\ [b EXCEPT !.rows = rows].dismissed = b.dismissed
  BY DEF Table

LEMMA ReadMade ==
    ASSUME NEW b \in Table, NEW s, s \subseteq Note
    PROVE  /\ [b EXCEPT !.read = s] \in Table
           /\ [b EXCEPT !.read = s].rows = b.rows /\ [b EXCEPT !.read = s].read = s
           /\ [b EXCEPT !.read = s].dismissed = b.dismissed
  BY DEF Table

LEMMA DismissedMade ==
    ASSUME NEW b \in Table, NEW s, s \subseteq Note
    PROVE  /\ [b EXCEPT !.dismissed = s] \in Table
           /\ [b EXCEPT !.dismissed = s].rows = b.rows /\ [b EXCEPT !.dismissed = s].read = b.read
           /\ [b EXCEPT !.dismissed = s].dismissed = s
  BY DEF Table

LEMMA NewestOf ==
    ASSUME NEW rows \in [Note -> Nat]
    PROVE  /\ Newest(rows) \in [Note -> Nat]
           /\ \A n \in Note : Newest(rows)[n] \in {rows[n], 0}
           /\ \A n \in Note : Newest(rows)[n] = 0 /\ rows[n] # 0 =>
                 ~(Cardinality({m \in Note : rows[m] > rows[n]}) < Limit)
  BY DEF Newest

LEMMA UnreadOf ==
    ASSUME NEW b \in Table, NEW n \in Note
    PROVE  /\ Unread(b, n) \in Table /\ Unread(b, n).rows = b.rows
           /\ Unread(b, n).read = b.read \ {n} /\ Unread(b, n).dismissed = b.dismissed
  <1>1. b.read \ {n} \subseteq Note
    BY TableFields
  <1>2. QED
    BY <1>1, ReadMade DEF Unread

LEMMA DeletedOf ==
    ASSUME NEW b \in Table, NEW n \in Note
    PROVE  /\ Deleted(b, n) \in Table
           /\ Deleted(b, n).rows = [b.rows EXCEPT ![n] = 0]
           /\ Deleted(b, n).dismissed = b.dismissed \ {n}
  BY TableFields DEF Deleted, Table

\* What an upsert does to the rows and to what was dismissed.
LEMMA UpsertedOf ==
    ASSUME NEW b \in Table, NEW n \in Note, NEW time \in Nat \ {0}
    PROVE  /\ Upserted(b, n, time) \in Table
           /\ \A m \in Note : m # n => Upserted(b, n, time).rows[m] \in {b.rows[m], 0}
           /\ Upserted(b, n, time).rows[n] \in {time, 0}
           /\ n \in b.dismissed \ Upserted(b, n, time).dismissed =>
                 ~(Cardinality({m \in Note \ {n} : b.rows[m] > time}) < Limit)
  <1> DEFINE added == [b.rows EXCEPT ![n] = time]
             rows == Newest(added)
             gone == {m \in Note : rows[m] = 0 /\ (b.rows[m] # 0 \/ m = n)}
             c    == Unread(b, n)
             u    == [rows |-> rows, read |-> c.read \ gone, dismissed |-> c.dismissed \ gone]
  <1>1. Upserted(b, n, time) = u
    BY DEF Upserted
  <1>2. added \in [Note -> Nat] /\ added[n] = time /\ \A m \in Note : m # n => added[m] = b.rows[m]
    BY TableFields
  <1>3. /\ rows \in [Note -> Nat]
        /\ \A m \in Note : rows[m] \in {added[m], 0}
        /\ \A m \in Note : rows[m] = 0 /\ added[m] # 0 => ~(Cardinality({o \in Note : added[o] > added[m]}) < Limit)
    <2> HIDE DEF added
    <2> QED BY <1>2, NewestOf
  <1>4. c.read \in SUBSET Note /\ c.dismissed = b.dismissed /\ b.dismissed \in SUBSET Note
    <2> HIDE DEF c
    <2> QED BY TableFields, UnreadOf DEF c
  <1>5. u \in Table /\ u.rows = rows /\ u.dismissed = b.dismissed \ gone
    <2> HIDE DEF rows, c, gone
    <2> QED BY <1>3, <1>4 DEF Table
  <1>6. n \in b.dismissed \ u.dismissed => ~(Cardinality({m \in Note \ {n} : b.rows[m] > time}) < Limit)
    <2> SUFFICES ASSUME n \in b.dismissed \ u.dismissed
                 PROVE  ~(Cardinality({m \in Note \ {n} : b.rows[m] > time}) < Limit)
      OBVIOUS
    <2>1. n \in gone
      <3> HIDE DEF gone, rows, u
      <3> QED BY <1>5
    <2>2. rows[n] = 0 /\ added[n] # 0
      <3> HIDE DEF rows, added
      <3> QED BY <1>2, <2>1
    <2>3. {o \in Note : added[o] > added[n]} = {m \in Note \ {n} : b.rows[m] > time}
      <3>1. \A o \in Note : added[o] > added[n] <=> o # n /\ b.rows[o] > time
        <4> HIDE DEF added
        <4>1. ~(time > time)
          OBVIOUS
        <4>2. QED
          BY <1>2, <4>1
      <3> HIDE DEF added
      <3> QED BY <3>1
    <2>4. QED
      <3> HIDE DEF rows, added
      <3> QED BY <1>3, <2>2, <2>3
  <1>7. QED
    <2> HIDE DEF rows, added, u
    <2> QED BY <1>1, <1>2, <1>3, <1>5, <1>6

\* What an operation does to the tables.
LEMMA AppliedOf ==
    ASSUME NEW b \in Table, NEW op \in Operation, op.change # 0
    PROVE  /\ Applied(b, op) \in Table
           /\ \A n \in Note : Applied(b, op).rows[n] \in {b.rows[n], 0, op.change}
           /\ \A n \in b.dismissed \ Applied(b, op).dismissed :
                 \/ op.kind = "delete" /\ op.note = n
                 \/ op.kind = "upsert" /\ op.note # n
                 \/ op.kind = "upsert" /\ ~(Cardinality({m \in Note \ {n} : b.rows[m] > op.change}) < Limit)
  <1>0. op.change \in Nat \ {0} /\ b.rows \in [Note -> Nat] /\ b.read \in SUBSET Note /\ b.dismissed \in SUBSET Note
    BY OperationFields, TableFields
  <1> DEFINE a == Applied(b, op)
  <1>1. CASE op.kind = "upsert"
    <2>1. op.note \in Note /\ a = Upserted(b, op.note, op.change)
      BY <1>1, OperationFields DEF Applied
    <2>2. /\ a \in Table
          /\ \A m \in Note : m # op.note => a.rows[m] \in {b.rows[m], 0}
          /\ a.rows[op.note] \in {op.change, 0}
          /\ op.note \in b.dismissed \ a.dismissed =>
                ~(Cardinality({m \in Note \ {op.note} : b.rows[m] > op.change}) < Limit)
      <3> DEFINE v == Upserted(b, op.note, op.change)
      <3> HIDE DEF a
      <3>1. /\ v \in Table
            /\ \A m \in Note : m # op.note => v.rows[m] \in {b.rows[m], 0}
            /\ v.rows[op.note] \in {op.change, 0}
            /\ op.note \in b.dismissed \ v.dismissed =>
                  ~(Cardinality({m \in Note \ {op.note} : b.rows[m] > op.change}) < Limit)
        <4>1. op.note \in Note /\ op.change \in Nat \ {0}
          BY <1>0, <2>1
        <4> HIDE DEF v
        <4>2. QED
          BY <4>1, UpsertedOf DEF v
      <3> HIDE DEF v
      <3>2. a = v
        BY <2>1 DEF v
      <3>3. QED
        BY <3>1, <3>2
    <2> HIDE DEF a
    <2>3. \A n \in Note : a.rows[n] \in {b.rows[n], 0, op.change}
      BY <2>1, <2>2
    <2>4. \A n \in b.dismissed \ a.dismissed :
             op.note = n => ~(Cardinality({m \in Note \ {n} : b.rows[m] > op.change}) < Limit)
      BY <2>2
    <2>5. QED
      BY <1>1, <2>2, <2>3, <2>4 DEF a
  <1>2. CASE op.kind = "delete"
    <2>1. op.note \in Note /\ a = Deleted(b, op.note)
      BY <1>2, OperationFields DEF Applied
    <2>2. /\ a \in Table /\ a.rows = [b.rows EXCEPT ![op.note] = 0]
          /\ a.dismissed = b.dismissed \ {op.note}
      <3> HIDE DEF a
      <3> QED BY <2>1, DeletedOf
    <2> HIDE DEF a
    <2>3. \A n \in Note : a.rows[n] \in {b.rows[n], 0, op.change}
      BY <1>0, <2>2
    <2>4. \A n \in b.dismissed \ a.dismissed : op.note = n
      BY <2>2
    <2>5. QED
      BY <1>2, <2>2, <2>3, <2>4 DEF a
  <1>3. CASE op.kind = "read"
    <2>1. a = [b EXCEPT !.read = b.read \cup {op.note}]
      BY <1>3 DEF Applied
    <2>2. b.read \cup {op.note} \subseteq Note
      BY <1>0, <1>3, OperationFields
    <2>3. a \in Table /\ a.rows = b.rows /\ b.dismissed \subseteq a.dismissed
      <3> HIDE DEF a
      <3> QED BY <2>1, <2>2, ReadMade
    <2> HIDE DEF a
    <2>4. QED
      BY <2>3 DEF a
  <1>4. CASE op.kind = "dismiss"
    <2>1. a = [b EXCEPT !.dismissed = b.dismissed \cup {op.note}]
      BY <1>4 DEF Applied
    <2>2. b.dismissed \cup {op.note} \subseteq Note
      BY <1>0, <1>4, OperationFields
    <2>3. a \in Table /\ a.rows = b.rows /\ b.dismissed \subseteq a.dismissed
      <3> HIDE DEF a
      <3> QED BY <2>1, <2>2, DismissedMade
    <2> HIDE DEF a
    <2>4. QED
      BY <2>3 DEF a
  <1>5. CASE op.kind = "clear"
    <2>1. a = [b EXCEPT !.dismissed = b.dismissed \cup op.notes]
      BY <1>5 DEF Applied
    <2>2. b.dismissed \cup op.notes \subseteq Note
      BY <1>0, <1>5, OperationFields
    <2>3. a \in Table /\ a.rows = b.rows /\ b.dismissed \subseteq a.dismissed
      <3> HIDE DEF a
      <3> QED BY <2>1, <2>2, DismissedMade
    <2> HIDE DEF a
    <2>4. QED
      BY <2>3 DEF a
  <1>6. QED
    <2> HIDE DEF a
    <2>1. op.kind \in {"upsert", "delete", "read", "dismiss", "clear"}
      BY OperationFields
    <2>2. QED
      BY <1>1, <1>2, <1>3, <1>4, <1>5, <2>1

\* The stages of a transaction: they exist, for as many operations as it has.
LEMMA StagesRun ==
    ASSUME NEW t \in Table, NEW ops \in Seq(Operation), \A k \in DOMAIN ops : ops[k].change # 0
    PROVE  /\ Stages(t, ops) \in [0..Len(ops) -> Table]
           /\ Stages(t, ops)[0] = t
           /\ \A k \in 1..Len(ops) : Stages(t, ops)[k] = Applied(Stages(t, ops)[k - 1], ops[k])
  <1> DEFINE n == Len(ops)
             F(g) == [k \in 0..n |-> IF k = 0 THEN t ELSE Applied(g[k - 1], ops[k])]
             s == Stages(t, ops)
             upto(g, m) == g[0] = t /\ \A k \in 1..m : g[k] = Applied(g[k - 1], ops[k])
             A == {m \in 0..n : \E g \in [0..n -> Table] : upto(g, m)}
             B == {m \in 0..n : s[m] \in Table}
  <1>1. n \in Nat /\ \A k \in 1..n : ops[k] \in Operation /\ ops[k].change # 0
    OBVIOUS
  <1>2. \A m \in 0..n : m \in A
    <2>1. 0 \in A
      <3>1. [k \in 0..n |-> t] \in [0..n -> Table] /\ upto([k \in 0..n |-> t], 0)
        BY <1>1
      <3> HIDE DEF n, upto
      <3>2. QED
        BY <1>1, <3>1
    <2>2. ASSUME NEW m \in 0..(n - 1), m \in A PROVE m + 1 \in A
      <3> HIDE DEF n
      <3>1. PICK g \in [0..n -> Table] : upto(g, m)
        BY <2>2
      <3> DEFINE x == Applied(g[m], ops[m + 1])
                 h == [g EXCEPT ![m + 1] = x]
      <3>2. m + 1 \in 1..n /\ m \in 0..n /\ m + 1 \in 0..n /\ m + 1 # 0 /\ (m + 1) - 1 = m /\ m + 1 # m
        BY <1>1
      <3>3. x \in Table
        BY <1>1, <3>2, AppliedOf
      <3>4. h \in [0..n -> Table]
        <4> HIDE DEF x
        <4> QED BY <3>2, <3>3
      <3>5. h[m + 1] = x /\ \A k \in 0..n : k # m + 1 => h[k] = g[k]
        <4> HIDE DEF x
        <4> QED BY <3>2
      <3>6. ASSUME NEW k \in 1..(m + 1) PROVE h[k] = Applied(h[k - 1], ops[k])
        <4>1. CASE k = m + 1
          <5> HIDE DEF h
          <5> QED BY <3>2, <3>5, <4>1
        <4>2. CASE k # m + 1
          <5>1. k \in 1..m /\ k \in 0..n /\ k - 1 \in 0..n /\ k - 1 # m + 1
            BY <1>1, <4>2
          <5>2. h[k] = g[k] /\ h[k - 1] = g[k - 1]
            <6> HIDE DEF h
            <6> QED BY <3>5, <4>2, <5>1
          <5>3. g[k] = Applied(g[k - 1], ops[k])
            BY <3>1, <5>1
          <5>4. QED
            BY <5>2, <5>3
        <4>3. QED
          BY <4>1, <4>2
      <3>7. h[0] = t
        <4> HIDE DEF h
        <4> QED BY <1>1, <3>1, <3>2, <3>5
      <3>8. upto(h, m + 1)
        BY <3>6, <3>7
      <3>9. QED
        <4> HIDE DEF upto, h
        <4> QED BY <3>2, <3>4, <3>8
    <2>3. QED
      <3> HIDE DEF A, n
      <3> QED BY <1>1, <2>1, <2>2, UpTo
  <1>3. s = F(s)
    <2>1. PICK g \in [0..n -> Table] : upto(g, n)
      <3> HIDE DEF n, upto
      <3> QED BY <1>1, <1>2
    <2>2. g = F(g)
      <3>1. \A k \in 0..n : g[k] = F(g)[k]
        <4> HIDE DEF n
        <4> SUFFICES ASSUME NEW k \in 0..n PROVE g[k] = (IF k = 0 THEN t ELSE Applied(g[k - 1], ops[k]))
          OBVIOUS
        <4>1. CASE k = 0
          BY <2>1, <4>1
        <4>2. CASE k # 0
          <5>1. k \in 1..n
            BY <1>1, <4>2
          <5>2. QED
            BY <2>1, <4>2, <5>1
        <4>3. QED
          BY <4>1, <4>2
      <3>2. QED
        <4> HIDE DEF n
        <4> QED BY <3>1
    <2>3. s = CHOOSE g_ : g_ = F(g_)
      BY DEF Stages
    <2>4. QED
      <3> HIDE DEF F, s
      <3> QED BY <2>2, <2>3
  <1>4. DOMAIN s = 0..n /\ s[0] = t /\ \A k \in 1..n : s[k] = Applied(s[k - 1], ops[k])
    <2>1. \A k \in 0..n : F(s)[k] = IF k = 0 THEN t ELSE Applied(s[k - 1], ops[k])
      OBVIOUS
    <2>2. DOMAIN F(s) = 0..n
      OBVIOUS
    <2> HIDE DEF F, s, n
    <2>3. 0 \in 0..n /\ \A k \in 1..n : k \in 0..n /\ k # 0
      BY <1>1
    <2>4. QED
      BY <1>3, <2>1, <2>2, <2>3
  <1>5. \A m \in 0..n : m \in B
    <2> HIDE DEF s, n
    <2>1. 0 \in B
      BY <1>1, <1>4
    <2>2. ASSUME NEW m \in 0..(n - 1), m \in B PROVE m + 1 \in B
      <3>1. m + 1 \in 1..n /\ m + 1 \in 0..n /\ (m + 1) - 1 = m
        BY <1>1
      <3>2. s[m + 1] = Applied(s[m], ops[m + 1])
        BY <1>4, <3>1
      <3>3. s[m] \in Table
        BY <2>2
      <3>4. QED
        BY <1>1, <3>1, <3>2, <3>3, AppliedOf
    <2>3. QED
      <3> HIDE DEF B
      <3> QED BY <1>1, <2>1, <2>2, UpTo
  <1>6. s = [k \in 0..n |-> s[k]]
    <2> HIDE DEF s
    <2>1. F(s) = [k \in 0..n |-> F(s)[k]]
      BY DEF F
    <2> HIDE DEF F
    <2>2. QED
      BY <1>3, <2>1
  <1> HIDE DEF s
  <1>7. s \in [0..n -> Table]
    <2>1. \A k \in 0..n : s[k] \in Table
      BY <1>5
    <2> HIDE DEF n
    <2>2. QED
      BY <1>6, <2>1
  <1>8. QED
    BY <1>4, <1>7 DEF s

\* What a transaction leaves of a row is what it was, or was written by it.
LEMMA RowsAfter ==
    ASSUME NEW t \in Table, NEW ops \in Seq(Operation), \A k \in DOMAIN ops : ops[k].change # 0,
           NEW m \in 0..Len(ops), NEW n \in Note
    PROVE  \/ Stages(t, ops)[m].rows[n] \in {t.rows[n], 0}
           \/ \E k \in 1..m : Stages(t, ops)[m].rows[n] = ops[k].change
  <1> DEFINE s == Stages(t, ops)
             fine(l) == s[l].rows[n] \in {t.rows[n], 0} \/ \E k \in 1..l : s[l].rows[n] = ops[k].change
             A == {l \in 0..Len(ops) : fine(l)}
  <1>1. Len(ops) \in Nat /\ \A k \in 1..Len(ops) : ops[k] \in Operation /\ ops[k].change # 0
    OBVIOUS
  <1>2. /\ s \in [0..Len(ops) -> Table] /\ s[0] = t
        /\ \A k \in 1..Len(ops) : s[k] = Applied(s[k - 1], ops[k])
    BY StagesRun
  <1> HIDE DEF s
  <1>3. 0 \in A
    BY <1>1, <1>2
  <1>4. ASSUME NEW l \in 0..(Len(ops) - 1), l \in A PROVE l + 1 \in A
    <2>1. l + 1 \in 1..Len(ops) /\ l \in 0..Len(ops) /\ l + 1 \in 0..Len(ops) /\ (l + 1) - 1 = l /\ l + 1 \in 1..(l + 1)
      BY <1>1
    <2>2. s[l + 1].rows[n] \in {s[l].rows[n], 0, ops[l + 1].change}
      <3>1. s[l] \in Table /\ ops[l + 1] \in Operation /\ ops[l + 1].change # 0 /\ s[l + 1] = Applied(s[l], ops[l + 1])
        BY <1>1, <1>2, <2>1
      <3>2. \A x \in Note : Applied(s[l], ops[l + 1]).rows[x] \in {s[l].rows[x], 0, ops[l + 1].change}
        BY <3>1, AppliedOf
      <3>3. QED
        BY <3>1, <3>2
    <2>3. \A k \in 1..l : k \in 1..(l + 1)
      BY <2>1
    <2>4. fine(l)
      BY <1>4
    <2>5. fine(l + 1)
      BY <2>1, <2>2, <2>3, <2>4
    <2>6. QED
      <3> HIDE DEF fine
      <3> QED BY <2>1, <2>5
  <1>5. \A l \in 0..Len(ops) : l \in A
    <2> HIDE DEF A
    <2> QED BY <1>1, <1>3, <1>4, UpTo
  <1>6. QED
    <2>1. m \in A
      <3> HIDE DEF A
      <3> QED BY <1>5
    <2>2. QED
      BY <2>1 DEF s

\* What a transaction makes of a dismissal.
LEMMA Undismissed ==
    ASSUME BellAssumption,
           NEW t \in Table, NEW ops \in Seq(Operation), Rises(ops), \A k \in DOMAIN ops : ops[k].change # 0,
           NEW n \in t.dismissed \ Stages(t, ops)[Len(ops)].dismissed
    PROVE  \E k \in 1..Len(ops) :
              \/ ops[k].kind = "delete" /\ ops[k].note = n
              \/ ops[k].kind = "upsert" /\ ops[k].note # n
              \/ ops[k].kind = "upsert" /\ Cardinality({m \in Note \ {n} : t.rows[m] > ops[k].change}) >= Limit
  <1> DEFINE s == Stages(t, ops)
             A == {l \in 0..Len(ops) : n \in s[l].dismissed}
  <1>1. Len(ops) \in Nat /\ \A k \in 1..Len(ops) : ops[k] \in Operation /\ ops[k].change # 0
    OBVIOUS
  <1>2. /\ s \in [0..Len(ops) -> Table] /\ s[0] = t
        /\ \A k \in 1..Len(ops) : s[k] = Applied(s[k - 1], ops[k])
    BY StagesRun
  <1>3. n \in Note
    BY TableFields
  <1>4. PICK l \in 0..(Len(ops) - 1) : n \in s[l].dismissed /\ n \notin s[l + 1].dismissed
    <2> SUFFICES ASSUME \A l \in 0..(Len(ops) - 1) : n \in s[l].dismissed => n \in s[l + 1].dismissed
                 PROVE  FALSE
      OBVIOUS
    <2>1. 0 \in A
      BY <1>1, <1>2
    <2>2. \A l \in 0..(Len(ops) - 1) : l \in A => l + 1 \in A
      <3>1. \A l \in 0..(Len(ops) - 1) : l + 1 \in 0..Len(ops)
        BY <1>1
      <3> HIDE DEF s
      <3>2. QED
        BY <3>1
    <2>3. \A l \in 0..Len(ops) : l \in A
      <3> HIDE DEF A
      <3> QED BY <1>1, <2>1, <2>2, UpTo
    <2>4. Len(ops) \in A
      <3> HIDE DEF A
      <3> QED BY <1>1, <2>3
    <2>5. QED
      BY <2>4
  <1> HIDE DEF s
  <1>5. l + 1 \in 1..Len(ops) /\ l \in 0..Len(ops) /\ (l + 1) - 1 = l
    BY <1>1
  <1> DEFINE op == ops[l + 1]
             newer(b) == {m \in Note \ {n} : b.rows[m] > op.change}
  <1>6. op \in Operation /\ op.change # 0 /\ s[l] \in Table /\ s[l + 1] = Applied(s[l], op)
    BY <1>1, <1>2, <1>5
  <1> HIDE DEF op
  <1>7. \/ op.kind = "delete" /\ op.note = n
        \/ op.kind = "upsert" /\ op.note # n
        \/ op.kind = "upsert" /\ ~(Cardinality(newer(s[l])) < Limit)
    <2>1. \A x \in s[l].dismissed \ Applied(s[l], op).dismissed :
             \/ op.kind = "delete" /\ op.note = x
             \/ op.kind = "upsert" /\ op.note # x
             \/ op.kind = "upsert" /\ ~(Cardinality({m \in Note \ {x} : s[l].rows[m] > op.change}) < Limit)
      BY <1>6, AppliedOf
    <2>2. QED
      BY <1>4, <1>6, <2>1
  <1>8. newer(s[l]) \subseteq newer(t)
    <2> SUFFICES ASSUME NEW m \in Note, s[l].rows[m] > op.change PROVE t.rows[m] > op.change
      OBVIOUS
    <2>1. s[l].rows[m] \in {t.rows[m], 0} \/ \E k \in 1..l : s[l].rows[m] = ops[k].change
      <3>1. Stages(t, ops)[l].rows[m] \in {t.rows[m], 0} \/ \E k \in 1..l : Stages(t, ops)[l].rows[m] = ops[k].change
        BY <1>5, RowsAfter
      <3>2. QED
        BY <3>1 DEF s
    <2>2. op.change \in Nat
      BY <1>6, OperationFields
    <2>3. \A k \in 1..l : ops[k].change < op.change /\ ops[k].change \in Nat
      <3> SUFFICES ASSUME NEW k \in 1..l PROVE ops[k].change < op.change /\ ops[k].change \in Nat
        OBVIOUS
      <3>1. k \in 1..Len(ops) /\ k < l + 1 /\ DOMAIN ops = 1..Len(ops)
        BY <1>1, <1>5
      <3>2. ops[k] \in Operation
        BY <1>1, <3>1
      <3>3. QED
        BY <1>5, <3>1, <3>2, OperationFields DEF Rises, op
    <2> DEFINE x == s[l].rows[m]
               y == op.change
               z == t.rows[m]
    <2>0. x \in Nat
      BY <1>6, TableFields
    <2>4. x \in {z, 0} \/ x < y
      <3>1. CASE x \in {z, 0}
        BY <3>1
      <3>2. CASE \E k \in 1..l : x = ops[k].change
        BY <2>3, <3>2
      <3>3. QED
        BY <2>1, <3>1, <3>2
    <2>5. x > y /\ y \in Nat
      BY <2>2
    <2> HIDE DEF x, y, z
    <2>6. z > y
      BY <2>0, <2>4, <2>5
    <2>7. QED
      BY <2>6 DEF y, z
  <1>9. ~(Cardinality(newer(s[l])) < Limit) => Cardinality(newer(t)) >= Limit
    <2>1. IsFiniteSet(newer(t))
      <3>1. newer(t) \subseteq Note
        OBVIOUS
      <3> HIDE DEF newer
      <3>2. QED
        BY <3>1, FS_Subset DEF BellAssumption
    <2> HIDE DEF newer
    <2>2. /\ Cardinality(newer(s[l])) <= Cardinality(newer(t))
          /\ Cardinality(newer(s[l])) \in Nat /\ Cardinality(newer(t)) \in Nat
      BY <1>8, <2>1, FS_Subset, FS_CardinalityType
    <2>3. QED
      BY <2>2 DEF BellAssumption
  <1>10. QED
    BY <1>5, <1>7, <1>9 DEF op
-----------------------------------------------------------------------------
(* Types.                                                                  *)

LEMMA BellTypes ==
    ASSUME BellTypeOK, NEW i \in Bell
    PROVE  /\ tables \in Table /\ bell[i] \in Table /\ queued[i] \in Seq(Operation)
           /\ \A by \in Flusher : flush[i][by] \in Seq(Operation)
           /\ changes \in Nat /\ changes + 1 \in Nat
           /\ done.queued \in SUBSET Nat /\ done.written \in SUBSET Nat /\ done.lost \in SUBSET Nat
  BY DEF BellTypeOK

DoneRec == [queued : SUBSET Nat, written : SUBSET Nat, lost : SUBSET Nat]

LEMMA DoneMade ==
    ASSUME NEW d \in DoneRec, NEW s \in SUBSET Nat
    PROVE  /\ [d EXCEPT !.queued = s] \in DoneRec
           /\ [d EXCEPT !.queued = s].queued = s /\ [d EXCEPT !.queued = s].written = d.written
           /\ [d EXCEPT !.queued = s].lost = d.lost
           /\ [d EXCEPT !.written = s] \in DoneRec
           /\ [d EXCEPT !.written = s].queued = d.queued /\ [d EXCEPT !.written = s].written = s
           /\ [d EXCEPT !.written = s].lost = d.lost
           /\ [d EXCEPT !.lost = s] \in DoneRec
           /\ [d EXCEPT !.lost = s].queued = d.queued /\ [d EXCEPT !.lost = s].written = d.written
           /\ [d EXCEPT !.lost = s].lost = s
  BY DEF DoneRec

LEMMA OperationMade ==
    ASSUME NEW c \in Nat, NEW n \in Note, NEW s \in SUBSET Note, NEW kind \in {"upsert", "delete", "read", "dismiss"}
    PROVE  /\ [kind |-> kind, note |-> n, change |-> c] \in Operation
           /\ [kind |-> "clear", notes |-> s, change |-> c] \in Operation
  BY DEF Operation

LEMMA PersistedOf ==
    ASSUME NEW b \in Table, NEW n \in Note, NEW time \in Nat
    PROVE  Persisted(b, n, time) \in Table
  <1> DEFINE added == [b.rows EXCEPT ![n] = time]
  <1>1. added \in [Note -> Nat]
    BY TableFields
  <1>2. Newest(added) \in [Note -> Nat]
    <2> HIDE DEF added
    <2> QED BY <1>1, NewestOf
  <1>3. (IF b.rows[n] # 0 THEN Unread(b, n) ELSE b) \in Table
    BY UnreadOf
  <1>4. Persisted(b, n, time) = [IF b.rows[n] # 0 THEN Unread(b, n) ELSE b EXCEPT !.rows = Newest(added)]
    BY DEF Persisted
  <1> HIDE DEF added
  <1>5. QED
    BY <1>2, <1>3, <1>4, RowsMade

\* The ids of a sequence of operations.
LEMMA IdsOf ==
    ASSUME NEW q \in Seq(Operation)
    PROVE  /\ \A c : c \in Ids(q) <=> \E k \in DOMAIN q : c = q[k].change
           /\ Ids(q) \subseteq Nat /\ Ids(<<>>) = {} /\ Rises(<<>>)
  <1>1. \A c : c \in Ids(q) <=> \E k \in DOMAIN q : c = q[k].change
    BY DEF Ids, Range
  <1>2. \A k \in DOMAIN q : q[k] \in Operation
    OBVIOUS
  <1>3. Ids(q) \subseteq Nat
    BY <1>1, <1>2, OperationFields
  <1>4. DOMAIN <<>> = {}
    OBVIOUS
  <1>5. Ids(<<>>) = {} /\ Rises(<<>>)
    BY <1>4 DEF Ids, Range, Rises
  <1>6. QED
    BY <1>1, <1>3, <1>5

LEMMA IdsLonger ==
    ASSUME NEW q \in Seq(Operation), NEW op \in Operation
    PROVE  /\ Append(q, op) \in Seq(Operation) /\ Ids(Append(q, op)) = Ids(q) \cup {op.change}
           /\ Rises(q) /\ (\A c \in Ids(q) : c < op.change) => Rises(Append(q, op))
  <1> DEFINE r == Append(q, op)
  <1>1. /\ r \in Seq(Operation) /\ Len(q) \in Nat /\ DOMAIN q = 1..Len(q) /\ DOMAIN r = 1..Len(q) + 1
        /\ r[Len(q) + 1] = op /\ \A k \in 1..Len(q) : r[k] = q[k]
    BY OneLonger
  <1> HIDE DEF r
  <1>2. \A k \in 1..Len(q) + 1 : k \in 1..Len(q) \/ k = Len(q) + 1
    BY <1>1
  <1>3. \A k \in 1..Len(q) : k \in 1..Len(q) + 1
    BY <1>1
  <1>4. Len(q) + 1 \in 1..Len(q) + 1
    BY <1>1
  <1>5. \A c : c \in Ids(r) <=> c \in Ids(q) \/ c = op.change
    BY <1>1, <1>2, <1>3, <1>4, IdsOf
  <1>6. ASSUME Rises(q), \A c \in Ids(q) : c < op.change, NEW k \in DOMAIN r, NEW l \in DOMAIN r, k < l
        PROVE  r[k].change < r[l].change
    <2>1. k \in 1..Len(q)
      BY <1>1, <1>6
    <2>2. CASE l \in 1..Len(q)
      BY <1>1, <1>6, <2>1, <2>2 DEF Rises
    <2>3. CASE l = Len(q) + 1
      <3>1. q[k].change \in Ids(q)
        BY <1>1, <2>1, IdsOf
      <3>2. QED
        BY <1>1, <1>6, <2>1, <2>3, <3>1
    <2>4. QED
      BY <1>1, <1>2, <2>2, <2>3
  <1>7. QED
    BY <1>1, <1>5, <1>6 DEF r, Rises

LEMMA HeldTypes ==
    ASSUME BellTypeOK
    PROVE  \A i \in Bell, p \in Place : Held(i, p) \in Seq(Operation)
  BY DEF BellTypeOK, Held, Place, Flusher

\* A change in memory, with the operation it may queue.
LEMMA ChangeTypes ==
    ASSUME BellTypeOK, NEW i \in Bell, NEW b \in Table, NEW op \in Operation, Change(i, b, op)
    PROVE  /\ tables' \in Table /\ bell' \in [Bell -> Table] /\ shared' \in [Bell -> BOOLEAN]
           /\ queued' \in [Bell -> Seq(Operation)] /\ flush' \in [Bell -> [Flusher -> Seq(Operation)]]
           /\ changes' \in Nat /\ done' \in DoneRec
  <1>1. tables' \in Table /\ shared' \in [Bell -> BOOLEAN] /\ flush' \in [Bell -> [Flusher -> Seq(Operation)]]
    BY DEF Change, BellTypeOK
  <1>2. bell' \in [Bell -> Table] /\ changes' \in Nat
    BY DEF Change, BellTypeOK
  <1>3. queued' \in [Bell -> Seq(Operation)]
    <2>1. queued \in [Bell -> Seq(Operation)] /\ Append(queued[i], op) \in Seq(Operation)
      BY IdsLonger DEF BellTypeOK
    <2>2. queued' = queued \/ queued' = [queued EXCEPT ![i] = Append(queued[i], op)]
      BY DEF Change
    <2>3. QED
      BY <2>1, <2>2
  <1>4. done' \in DoneRec
    <2>1. done \in DoneRec /\ done.queued \cup {op.change} \in SUBSET Nat
      BY OperationFields DEF BellTypeOK, DoneRec
    <2>2. done' = done \/ done' = [done EXCEPT !.queued = done.queued \cup {op.change}]
      BY DEF Change
    <2>3. [done EXCEPT !.queued = done.queued \cup {op.change}] \in DoneRec
      BY <2>1, DoneMade
    <2>4. QED
      BY <2>1, <2>2, <2>3
  <1>5. QED
    BY <1>1, <1>2, <1>3, <1>4

LEMMA SavesTypes ==
    ASSUME BellTypeOK, NEW i \in Bell, SavesLater(i) \/ SavesItself(i)
    PROVE  /\ dirty' \in [Bell -> BOOLEAN] /\ saver' \in [Bell -> {"none", "sleeps", "writes"}]
           /\ asked' \in [Bell -> {"none", "changed", "writes", "wrote"}]
           /\ IdleInv /\ flush' = flush => IdleInv'
  <1>1. dirty' \in [Bell -> BOOLEAN]
    BY DEF BellTypeOK, SavesLater, SavesItself
  <1>2. /\ saver' \in [Bell -> {"none", "sleeps", "writes"}]
        /\ \A j \in Bell : saver'[j] # "writes" => saver[j] # "writes"
    BY DEF BellTypeOK, SavesLater, SavesItself
  <1>3. /\ asked' \in [Bell -> {"none", "changed", "writes", "wrote"}]
        /\ \A j \in Bell : asked'[j] # "writes" => asked[j] # "writes"
    BY DEF BellTypeOK, SavesLater, SavesItself
  <1>4. QED
    BY <1>1, <1>2, <1>3 DEF IdleInv

\* The four ways to change the bell.
Changing(i, b, op) == Change(i, b, op) /\ (SavesLater(i) \/ SavesItself(i)) /\ op.change = changes + 1

LEMMA ChangesBell ==
    ASSUME BellTypeOK, NEW i \in Bell,
           \/ \E n \in Note : Notify(i, n) \/ RemoveNote(i, n)
           \/ \E n \in Note, kind \in {"read", "dismiss"} : UserDoes(i, n, kind)
           \/ UserClears(i)
    PROVE  \E b \in Table, op \in Operation : Changing(i, b, op)
  <1>0. bell[i] \in Table /\ changes \in Nat /\ changes + 1 \in Nat /\ changes + 1 # 0
    BY BellTypes
  <1>1. ASSUME NEW n \in Note, Notify(i, n) PROVE \E b \in Table, op \in Operation : Changing(i, b, op)
    <2> DEFINE op == [kind |-> "upsert", note |-> n, change |-> changes + 1]
               b == Persisted(bell[i], n, changes + 1)
    <2>1. b \in Table /\ op \in Operation
      BY <1>0, PersistedOf, OperationMade
    <2>2. Change(i, b, op) /\ SavesLater(i)
      BY <1>1 DEF Notify
    <2>3. op.change = changes + 1
      OBVIOUS
    <2> HIDE DEF b, op
    <2> QED BY <2>1, <2>2, <2>3 DEF Changing
  <1>2. ASSUME NEW n \in Note, RemoveNote(i, n) PROVE \E b \in Table, op \in Operation : Changing(i, b, op)
    <2> DEFINE op == [kind |-> "delete", note |-> n, change |-> changes + 1]
               b == Deleted(bell[i], n)
    <2>1. b \in Table /\ op \in Operation
      BY <1>0, DeletedOf, OperationMade
    <2>2. Change(i, b, op) /\ SavesLater(i)
      BY <1>2 DEF RemoveNote
    <2>3. op.change = changes + 1
      OBVIOUS
    <2> HIDE DEF b, op
    <2> QED BY <2>1, <2>2, <2>3 DEF Changing
  <1>3. ASSUME NEW n \in Note, NEW kind \in {"read", "dismiss"}, UserDoes(i, n, kind)
        PROVE  \E b \in Table, op \in Operation : Changing(i, b, op)
    <2> DEFINE op == [kind |-> kind, note |-> n, change |-> changes + 1]
               b == Applied(bell[i], op)
    <2>1. op \in Operation /\ op.change = changes + 1
      BY <1>0, OperationMade
    <2>2. b \in Table
      <3> HIDE DEF op
      <3> QED BY <1>0, <2>1, AppliedOf
    <2>3. Change(i, b, op) /\ (SavesLater(i) \/ SavesItself(i))
      BY <1>3 DEF UserDoes
    <2> HIDE DEF b, op
    <2> QED BY <2>1, <2>2, <2>3 DEF Changing
  <1>4. ASSUME UserClears(i) PROVE \E b \in Table, op \in Operation : Changing(i, b, op)
    <2> DEFINE op == [kind |-> "clear", notes |-> Clearable(bell[i]), change |-> changes + 1]
               b == Applied(bell[i], op)
    <2>1. op \in Operation /\ op.change = changes + 1
      <3>1. Clearable(bell[i]) \in SUBSET Note
        BY DEF Clearable
      <3>2. op.change = changes + 1
        OBVIOUS
      <3>3. QED
        BY <1>0, <3>1, <3>2 DEF Operation
    <2>2. b \in Table
      <3> HIDE DEF op
      <3> QED BY <1>0, <2>1, AppliedOf
    <2>3. Change(i, b, op) /\ (SavesLater(i) \/ SavesItself(i))
      BY <1>4 DEF UserClears
    <2> HIDE DEF b, op
    <2> QED BY <2>1, <2>2, <2>3 DEF Changing
  <1>5. QED
    BY <1>1, <1>2, <1>3, <1>4

\* A flush takes the queue, and what it takes it has alone.
Takes(i, by) ==
    /\ queued' = [queued EXCEPT ![i] = <<>>]
    /\ flush' = [flush EXCEPT ![i][by] = queued[i]]
    /\ UNCHANGED <<changes, done>>

LEMMA TakesTypes ==
    ASSUME BellTypeOK, NEW i \in Bell, NEW by \in Flusher, Takes(i, by)
    PROVE  /\ queued' \in [Bell -> Seq(Operation)] /\ flush' \in [Bell -> [Flusher -> Seq(Operation)]]
           /\ \A j \in Bell, p \in Flusher : ~(j = i /\ p = by) => flush'[j][p] = flush[j][p]
           /\ \A j \in Bell : j # i => queued'[j] = queued[j]
           /\ queued'[i] = <<>> /\ flush'[i][by] = queued[i]
  <1>1. queued \in [Bell -> Seq(Operation)] /\ flush \in [Bell -> [Flusher -> Seq(Operation)]] /\ queued[i] \in Seq(Operation)
    BY DEF BellTypeOK
  <1>2. <<>> \in Seq(Operation)
    OBVIOUS
  <1>3. QED
    BY <1>1, <1>2 DEF Takes

LEMMA WritesTypes ==
    ASSUME BellTypeOK, HeldInv, NEW i \in Bell, NEW by \in Flusher, NEW ok \in BOOLEAN, Writes(i, by, ok)
    PROVE  /\ tables' \in Table /\ flush' \in [Bell -> [Flusher -> Seq(Operation)]] /\ done' \in DoneRec
           /\ flush'[i][by] = <<>>
           /\ \A j \in Bell, p \in Flusher : ~(j = i /\ p = by) => flush'[j][p] = flush[j][p]
           /\ done'.queued = done.queued
           /\ done'.written \cup done'.lost = done.written \cup done.lost \cup Ids(flush[i][by])
           /\ \A c : c \in done'.written /\ c \in done'.lost =>
                 (c \in done.written /\ c \in done.lost) \/ c \in (done.written \cup done.lost) \cap Ids(flush[i][by])
  <1> DEFINE ops == flush[i][by]
  <1>1. /\ flush \in [Bell -> [Flusher -> Seq(Operation)]] /\ tables \in Table /\ done \in DoneRec
        /\ ops \in Seq(Operation) /\ done.written \in SUBSET Nat /\ done.lost \in SUBSET Nat
    BY DEF BellTypeOK, DoneRec
  <1>2. /\ flush' \in [Bell -> [Flusher -> Seq(Operation)]] /\ flush'[i][by] = <<>>
        /\ \A j \in Bell, p \in Flusher : ~(j = i /\ p = by) => flush'[j][p] = flush[j][p]
    <2>1. <<>> \in Seq(Operation)
      OBVIOUS
    <2>2. flush' = [flush EXCEPT ![i][by] = <<>>]
      BY DEF Writes
    <2>3. QED
      BY <1>1, <2>1, <2>2
  <1>3. Ids(ops) \subseteq Nat /\ \A k \in DOMAIN ops : ops[k].change # 0
    <2>1. Ids(ops) \subseteq 1..changes /\ changes \in Nat
      <3>1. by \in Place /\ ops = Held(i, by)
        BY DEF Flusher, Place, Held
      <3>2. QED
        BY <3>1 DEF HeldInv, BellTypeOK
    <2>2. \A k \in DOMAIN ops : ops[k].change \in Ids(ops)
      BY <1>1, IdsOf
    <2>3. 0 \notin 1..changes
      BY <2>1
    <2>4. QED
      <3> HIDE DEF ops
      <3> QED BY <1>1, <2>1, <2>2, <2>3, IdsOf
  <1>4. tables' \in Table
    <2>1. Len(ops) \in 0..Len(ops)
      BY <1>1
    <2>2. Stages(tables, ops) \in [0..Len(ops) -> Table]
      <3> HIDE DEF ops
      <3> QED BY <1>1, <1>3, StagesRun
    <2>3. tables' = tables \/ tables' = Stages(tables, ops)[Len(ops)]
      BY DEF Writes
    <2>4. QED
      BY <1>1, <2>1, <2>2, <2>3
  <1>5. \/ done' = [done EXCEPT !.written = done.written \cup Ids(ops)]
        \/ done' = [done EXCEPT !.lost = done.lost \cup Ids(ops)]
    BY DEF Writes
  <1>6. done.written \cup Ids(ops) \in SUBSET Nat /\ done.lost \cup Ids(ops) \in SUBSET Nat
    BY <1>1, <1>3
  <1>7. QED
    <2>1. CASE done' = [done EXCEPT !.written = done.written \cup Ids(ops)]
      <3>1. /\ done' \in DoneRec /\ done'.written = done.written \cup Ids(ops)
            /\ done'.lost = done.lost /\ done'.queued = done.queued
        <4> HIDE DEF ops
        <4> QED BY <1>1, <1>6, <2>1, DoneMade
      <3>2. QED
        BY <1>2, <1>4, <3>1
    <2>2. CASE done' = [done EXCEPT !.lost = done.lost \cup Ids(ops)]
      <3>1. /\ done' \in DoneRec /\ done'.lost = done.lost \cup Ids(ops)
            /\ done'.written = done.written /\ done'.queued = done.queued
        <4> HIDE DEF ops
        <4> QED BY <1>1, <1>6, <2>2, DoneMade
      <3>2. QED
        BY <1>2, <1>4, <3>1
    <2>3. QED
      BY <1>5, <2>1, <2>2

\* What an instance reads of the tables.
LEMMA ReadsTable ==
    ASSUME NEW t \in Table
    PROVE  [t EXCEPT !.rows = Newest(t.rows)] \in Table
  BY TableFields, NewestOf, RowsMade

\* Every step keeps the types.
LEMMA BellTypesKept ==
    ASSUME BellTypeOK, HeldInv, BellNext
    PROVE  BellTypeOK'
  <1> PICK i \in Bell :
        \/ SaverWakes(i) \/ RequestTakes(i) \/ RequestEnds(i)
        \/ UserClears(i) \/ RefreshBell(i) \/ (\E refreshed \in BOOLEAN : EnableDb(i, refreshed))
        \/ \E n \in Note : Notify(i, n) \/ RemoveNote(i, n)
        \/ \E n \in Note, kind \in {"read", "dismiss"} : UserDoes(i, n, kind)
        \/ \E by \in Flusher, ok \in BOOLEAN : Writes(i, by, ok)
    BY DEF BellNext
  <1>1. CASE \/ \E n \in Note : Notify(i, n) \/ RemoveNote(i, n)
             \/ \E n \in Note, kind \in {"read", "dismiss"} : UserDoes(i, n, kind)
             \/ UserClears(i)
    <2>1. PICK b \in Table, op \in Operation : Changing(i, b, op)
      BY <1>1, ChangesBell
    <2>2. QED
      BY <2>1, ChangeTypes, SavesTypes DEF Changing, BellTypeOK, DoneRec
  <1>2. CASE SaverWakes(i)
    <2>1. dirty' \in [Bell -> BOOLEAN] /\ saver' \in [Bell -> {"none", "sleeps", "writes"}]
      BY <1>2 DEF SaverWakes, BellTypeOK
    <2>2. queued' \in [Bell -> Seq(Operation)] /\ flush' \in [Bell -> [Flusher -> Seq(Operation)]]
      <3>1. CASE dirty[i] /\ queued[i] # <<>>
        <4>1. Takes(i, "task") /\ "task" \in Flusher
          BY <1>2, <3>1 DEF SaverWakes, Takes, LeftQueued, Flusher
        <4>2. QED
          BY <4>1, TakesTypes
      <3>2. CASE ~(dirty[i] /\ queued[i] # <<>>)
        <4>1. flush' = flush /\ queued' = queued
          BY <1>2, <3>2 DEF SaverWakes
        <4>2. QED
          BY <4>1 DEF BellTypeOK
      <3>3. QED
        BY <3>1, <3>2
    <2>3. QED
      BY <1>2, <2>1, <2>2 DEF SaverWakes, BellTypeOK
  <1>3. CASE RequestTakes(i)
    <2>1. asked' \in [Bell -> {"none", "changed", "writes", "wrote"}]
      <3>1. \E to \in {"writes", "wrote"} : asked' = [asked EXCEPT ![i] = to]
        BY <1>3 DEF RequestTakes
      <3>2. QED
        BY <3>1 DEF BellTypeOK
    <2>2. queued' \in [Bell -> Seq(Operation)] /\ flush' \in [Bell -> [Flusher -> Seq(Operation)]]
      <3>1. CASE queued[i] # <<>>
        <4>1. Takes(i, "request") /\ "request" \in Flusher
          BY <1>3, <3>1 DEF RequestTakes, Takes, LeftQueued, Flusher
        <4>2. QED
          BY <4>1, TakesTypes
      <3>2. CASE queued[i] = <<>>
        BY <1>3, <3>2 DEF RequestTakes, BellTypeOK
      <3>3. QED
        BY <3>1, <3>2
    <2>3. QED
      BY <1>3, <2>1, <2>2 DEF RequestTakes, BellTypeOK
  <1>4. CASE RequestEnds(i)
    BY <1>4 DEF RequestEnds, BellTypeOK, memory
  <1>5. CASE RefreshBell(i)
    <2>1. bell' \in [Bell -> Table]
      <3>1. [tables EXCEPT !.rows = Newest(tables.rows)] \in Table
        BY ReadsTable DEF BellTypeOK
      <3>2. QED
        BY <1>5, <3>1 DEF RefreshBell, BellTypeOK
    <2>2. QED
      BY <1>5, <2>1 DEF RefreshBell, BellTypeOK, saving
  <1>6. ASSUME NEW refreshed \in BOOLEAN, EnableDb(i, refreshed) PROVE BellTypeOK'
    <2>1. tables' \in Table
      <3> DEFINE b == bell[i]
      <3>1. tables \in Table /\ b \in Table
        BY DEF BellTypeOK
      <3>2. Imported(b) \in Table
        <4>1. /\ b.rows \in [Note -> Nat] /\ (tables.read \ b.dismissed) \cup b.read \in SUBSET Note
              /\ (tables.dismissed \ b.read) \cup b.dismissed \in SUBSET Note
          BY <3>1, TableFields
        <4>2. QED
          BY <4>1 DEF Table, Imported
      <3>3. tables' = Imported(b) \/ tables' = tables
        BY <1>6 DEF EnableDb
      <3>4. QED
        BY <3>1, <3>2, <3>3
    <2>2. bell' = [bell EXCEPT ![i] = [tables' EXCEPT !.rows = Newest(tables'.rows)]] \/ bell' = bell
      BY <1>6 DEF EnableDb
    <2>3. bell' \in [Bell -> Table] /\ shared' \in [Bell -> BOOLEAN]
      <3>1. [tables' EXCEPT !.rows = Newest(tables'.rows)] \in Table
        BY <2>1, ReadsTable
      <3>2. bell' \in [Bell -> Table]
        BY <2>2, <3>1 DEF BellTypeOK
      <3>3. shared' \in [Bell -> BOOLEAN]
        BY <1>6 DEF EnableDb, BellTypeOK
      <3>4. QED
        BY <3>2, <3>3
    <2>4. QED
      BY <1>6, <2>1, <2>3 DEF EnableDb, BellTypeOK, saving
  <1>7. CASE \E by \in Flusher, ok \in BOOLEAN : Writes(i, by, ok)
    <2>1. PICK by \in Flusher, ok \in BOOLEAN : Writes(i, by, ok)
      BY <1>7
    <2>2. tables' \in Table /\ flush' \in [Bell -> [Flusher -> Seq(Operation)]] /\ done' \in DoneRec
      BY <2>1, WritesTypes
    <2>3. saver' \in [Bell -> {"none", "sleeps", "writes"}]
      BY <2>1 DEF Writes, BellTypeOK
    <2>4. asked' \in [Bell -> {"none", "changed", "writes", "wrote"}]
      BY <2>1 DEF Writes, BellTypeOK
    <2>5. QED
      BY <2>1, <2>2, <2>3, <2>4 DEF Writes, BellTypeOK, memory, DoneRec
  <1>8. QED
    BY <1>1, <1>2, <1>3, <1>4, <1>5, <1>6, <1>7
-----------------------------------------------------------------------------
(* Steps.                                                                  *)

\* Nothing is queued and nothing is taken.
LEMMA HeldStays ==
    ASSUME HeldInv, OnePlaceInv, BellTypeOK, UNCHANGED <<queued, flush, done>>, changes' \in Nat, changes <= changes'
    PROVE  HeldInv' /\ OnePlaceInv'
  <1>1. \A i \in Bell, p \in Place : Held(i, p)' = Held(i, p)
    BY DEF Held
  <1>2. 1..changes \subseteq 1..changes'
    BY DEF BellTypeOK
  <1>3. HeldInv'
    BY <1>1, <1>2 DEF HeldInv
  <1>4. done' = done
    OBVIOUS
  <1>5. OnePlaceInv'
    BY <1>1, <1>2, <1>4 DEF OnePlaceInv
  <1>6. QED
    BY <1>3, <1>5

\* An operation is queued under the number of the change.
LEMMA ChangeHeld ==
    ASSUME BellInv, NEW i \in Bell, NEW b \in Table, NEW op \in Operation, Changing(i, b, op)
    PROVE  HeldInv' /\ OnePlaceInv'
  <1> USE DEF BellInv
  <1>0. changes \in Nat /\ changes' = changes + 1 /\ op.change = changes + 1 /\ flush' = flush
    BY DEF Changing, Change, BellTypeOK
  <1>1. CASE ~shared[i]
    <2>1. queued' = queued /\ done' = done
      BY <1>1 DEF Changing, Change
    <2>2. QED
      BY <1>0, <2>1, HeldStays
  <1>2. CASE shared[i]
    <2>1. queued \in [Bell -> Seq(Operation)] /\ queued' = [queued EXCEPT ![i] = Append(queued[i], op)]
      BY <1>2 DEF Changing, Change, BellTypeOK
    <2>2. done'.queued = done.queued \cup {changes + 1} /\ done'.written = done.written /\ done'.lost = done.lost
      <3>1. done' = [done EXCEPT !.queued = done.queued \cup {op.change}]
        BY <1>2 DEF Changing, Change
      <3>2. done \in DoneRec /\ done.queued \cup {op.change} \in SUBSET Nat
        BY <1>0 DEF BellTypeOK, DoneRec
      <3>3. QED
        BY <1>0, <3>1, <3>2, DoneMade
    <2>3. Held(i, "queue")' = Append(Held(i, "queue"), op)
      BY <2>1 DEF Held
    <2>4. ASSUME NEW j \in Bell, NEW p \in Place, ~(j = i /\ p = "queue") PROVE Held(j, p)' = Held(j, p)
      BY <1>0, <2>1, <2>4 DEF Held, Place
    <2>5. Held(i, "queue") \in Seq(Operation) /\ "queue" \in Place
      BY HeldTypes DEF Place
    <2>6. /\ Ids(Held(i, "queue")') = Ids(Held(i, "queue")) \cup {changes + 1}
          /\ Rises(Held(i, "queue")')
      <3>1. Rises(Held(i, "queue")) /\ Ids(Held(i, "queue")) \subseteq 1..changes
        BY <2>5 DEF HeldInv
      <3>2. \A c \in Ids(Held(i, "queue")) : c < op.change
        BY <1>0, <3>1
      <3>3. QED
        BY <1>0, <2>3, <2>5, <3>1, <3>2, IdsLonger
    <2>7. 1..changes' = (1..changes) \cup {changes + 1} /\ changes + 1 \notin 1..changes
      BY <1>0
    <2>8. HeldInv'
      <3> SUFFICES ASSUME NEW j \in Bell, NEW p \in Place
                   PROVE  Rises(Held(j, p)') /\ Ids(Held(j, p)') \subseteq 1..changes'
        BY DEF HeldInv, Rises, Ids
      <3>1. CASE j = i /\ p = "queue"
        BY <2>5, <2>6, <2>7, <3>1 DEF HeldInv
      <3>2. CASE ~(j = i /\ p = "queue")
        BY <2>4, <2>7, <3>2 DEF HeldInv
      <3>3. QED
        BY <3>1, <3>2
    <2>9. OnePlaceInv'
      <3> DEFINE ids(j, p) == Ids(Held(j, p))
      <3>1. /\ \A j \in Bell, p \in Place : ~(j = i /\ p = "queue") => ids(j, p)' = ids(j, p)
            /\ ids(i, "queue")' = ids(i, "queue") \cup {changes + 1}
            /\ \A j \in Bell, p \in Place : changes + 1 \notin ids(j, p)
            /\ changes + 1 \notin done.written \cup done.lost
        BY <2>4, <2>6, <2>7 DEF HeldInv, OnePlaceInv
      <3>2. /\ \A j, k \in Bell, p, r \in Place : j # k \/ p # r => ids(j, p) \cap ids(k, r) = {}
            /\ \A j \in Bell, p \in Place : ids(j, p) \cap (done.written \cup done.lost) = {}
            /\ done.written \cap done.lost = {} /\ done.written \cup done.lost \subseteq 1..changes
            /\ \A c : c \in done.queued <=>
                  c \in done.written \cup done.lost \/ \E j \in Bell, p \in Place : c \in ids(j, p)
        BY DEF OnePlaceInv
      <3>3. (/\ \A j, k \in Bell, p, r \in Place : j # k \/ p # r => ids(j, p) \cap ids(k, r) = {}
             /\ \A j \in Bell, p \in Place : ids(j, p) \cap (done.written \cup done.lost) = {}
             /\ done.written \cap done.lost = {} /\ done.written \cup done.lost \subseteq 1..changes
             /\ \A c : c \in done.queued <=>
                   c \in done.written \cup done.lost \/ \E j \in Bell, p \in Place : c \in ids(j, p))'
        <4> HIDE DEF ids
        <4>1. (\A j, k \in Bell, p, r \in Place : j # k \/ p # r => ids(j, p) \cap ids(k, r) = {})'
          BY <3>1, <3>2
        <4>2. (\A j \in Bell, p \in Place : ids(j, p) \cap (done.written \cup done.lost) = {})'
          BY <2>2, <3>1, <3>2
        <4>3. (done.written \cap done.lost = {} /\ done.written \cup done.lost \subseteq 1..changes)'
          BY <2>2, <2>7, <3>2
        <4>4. (\A c : c \in done.queued <=>
                   c \in done.written \cup done.lost \/ \E j \in Bell, p \in Place : c \in ids(j, p))'
          BY <2>2, <2>5, <3>1, <3>2
        <4>5. QED
          BY <4>1, <4>2, <4>3, <4>4
      <3>4. QED
        BY <3>3 DEF OnePlaceInv
    <2>10. QED
      BY <2>8, <2>9
  <1>3. QED
    BY <1>1, <1>2

\* What was waiting is where it was taken to.
LEMMA TakesHeld ==
    ASSUME BellInv, NEW i \in Bell, NEW by \in Flusher, Takes(i, by), flush[i][by] = <<>>
    PROVE  HeldInv' /\ OnePlaceInv'
  <1> USE DEF BellInv
  <1>0. done' = done /\ changes' = changes /\ by \in Place /\ by # "queue" /\ "queue" \in Place
    BY DEF Takes, Place, Flusher
  <1>1. Held(i, "queue")' = <<>> /\ Held(i, by)' = Held(i, "queue") /\ Held(i, by) = <<>>
    BY <1>0, TakesTypes DEF Held
  <1>2. \A j \in Bell, p \in Place : ~(j = i /\ p \in {"queue", by}) => Held(j, p)' = Held(j, p)
    <2> SUFFICES ASSUME NEW j \in Bell, NEW p \in Place, ~(j = i /\ p \in {"queue", by})
                 PROVE  Held(j, p)' = Held(j, p)
      OBVIOUS
    <2>1. CASE p = "queue"
      BY <2>1, TakesTypes DEF Held
    <2>2. CASE p # "queue"
      <3>1. p \in Flusher
        BY <2>2 DEF Place, Flusher
      <3>2. QED
        BY <2>2, <3>1, TakesTypes DEF Held
    <2>3. QED
      BY <2>1, <2>2
  <1>3. Ids(<<>>) = {} /\ Rises(<<>>)
    BY IdsOf, HeldTypes, <1>0
  <1>4. HeldInv'
    <2> SUFFICES ASSUME NEW j \in Bell, NEW p \in Place
                 PROVE  Rises(Held(j, p)') /\ Ids(Held(j, p)') \subseteq 1..changes'
      BY DEF HeldInv, Rises, Ids
    <2>1. CASE j = i /\ p = "queue"
      BY <1>1, <1>3, <2>1
    <2>2. CASE j = i /\ p = by
      BY <1>0, <1>1, <2>2 DEF HeldInv
    <2>3. CASE ~(j = i /\ p \in {"queue", by})
      BY <1>0, <1>2, <2>3 DEF HeldInv
    <2>4. QED
      BY <2>1, <2>2, <2>3
  <1>5. OnePlaceInv'
    <2> DEFINE ids(j, p) == Ids(Held(j, p))
    <2>1. /\ \A j \in Bell, p \in Place : ~(j = i /\ p \in {"queue", by}) => ids(j, p)' = ids(j, p)
          /\ ids(i, "queue")' = {} /\ ids(i, by)' = ids(i, "queue") /\ ids(i, by) = {}
      BY <1>1, <1>2, <1>3
    <2>2. /\ \A j, k \in Bell, p, r \in Place : j # k \/ p # r => ids(j, p) \cap ids(k, r) = {}
          /\ \A j \in Bell, p \in Place : ids(j, p) \cap (done.written \cup done.lost) = {}
          /\ done.written \cap done.lost = {} /\ done.written \cup done.lost \subseteq 1..changes
          /\ \A c : c \in done.queued <=>
                c \in done.written \cup done.lost \/ \E j \in Bell, p \in Place : c \in ids(j, p)
      BY DEF OnePlaceInv
    <2>3. (/\ \A j, k \in Bell, p, r \in Place : j # k \/ p # r => ids(j, p) \cap ids(k, r) = {}
           /\ \A j \in Bell, p \in Place : ids(j, p) \cap (done.written \cup done.lost) = {}
           /\ done.written \cap done.lost = {} /\ done.written \cup done.lost \subseteq 1..changes
           /\ \A c : c \in done.queued <=>
                 c \in done.written \cup done.lost \/ \E j \in Bell, p \in Place : c \in ids(j, p))'
      <3> HIDE DEF ids
      <3>1. (\A j, k \in Bell, p, r \in Place : j # k \/ p # r => ids(j, p) \cap ids(k, r) = {})'
        <4> SUFFICES ASSUME NEW j \in Bell, NEW k \in Bell, NEW p \in Place, NEW r \in Place, j # k \/ p # r
                     PROVE  ids(j, p)' \cap ids(k, r)' = {}
          OBVIOUS
        <4>1. CASE (j = i /\ p = "queue") \/ (k = i /\ r = "queue")
          BY <2>1, <4>1
        <4>2. CASE j = i /\ p = by /\ r # "queue"
          BY <1>0, <2>1, <2>2, <4>2
        <4>3. CASE k = i /\ r = by /\ p # "queue"
          BY <1>0, <2>1, <2>2, <4>3
        <4>4. CASE j = i /\ p = by /\ k # i /\ r = "queue"
          BY <1>0, <2>1, <2>2, <4>4
        <4>5. CASE k = i /\ r = by /\ j # i /\ p = "queue"
          BY <1>0, <2>1, <2>2, <4>5
        <4>6. CASE ~(j = i /\ p \in {"queue", by}) /\ ~(k = i /\ r \in {"queue", by})
          BY <2>1, <2>2, <4>6
        <4>7. QED
          BY <4>1, <4>2, <4>3, <4>4, <4>5, <4>6
      <3>2. (\A j \in Bell, p \in Place : ids(j, p) \cap (done.written \cup done.lost) = {})'
        BY <1>0, <2>1, <2>2
      <3>3. (done.written \cap done.lost = {} /\ done.written \cup done.lost \subseteq 1..changes)'
        BY <1>0, <2>2
      <3>4. (\A c : c \in done.queued <=>
                 c \in done.written \cup done.lost \/ \E j \in Bell, p \in Place : c \in ids(j, p))'
        <4>1. \A c : (\E j \in Bell, p \in Place : c \in ids(j, p)') <=> \E j \in Bell, p \in Place : c \in ids(j, p)
          BY <1>0, <2>1
        <4>2. QED
          BY <1>0, <2>2, <4>1
      <3>5. QED
        BY <3>1, <3>2, <3>3, <3>4
    <2>4. QED
      BY <2>3 DEF OnePlaceInv
  <1>6. QED
    BY <1>4, <1>5

\* What is written, or lost, was in one place and is in none.
LEMMA WritesHeld ==
    ASSUME BellInv, NEW i \in Bell, NEW by \in Flusher, NEW ok \in BOOLEAN, Writes(i, by, ok)
    PROVE  HeldInv' /\ OnePlaceInv'
  <1> USE DEF BellInv
  <1>0. queued' = queued /\ changes' = changes /\ by \in Place /\ by # "queue" /\ "queue" \in Place
    BY DEF Writes, memory, Place, Flusher
  <1>1. Held(i, by)' = <<>> /\ Held(i, by) = flush[i][by]
    BY <1>0, WritesTypes DEF Held
  <1>2. \A j \in Bell, p \in Place : ~(j = i /\ p = by) => Held(j, p)' = Held(j, p)
    <2> SUFFICES ASSUME NEW j \in Bell, NEW p \in Place, ~(j = i /\ p = by)
                 PROVE  Held(j, p)' = Held(j, p)
      OBVIOUS
    <2>1. CASE p = "queue"
      BY <1>0, <2>1 DEF Held
    <2>2. CASE p # "queue"
      <3>1. p \in Flusher
        BY <2>2 DEF Place, Flusher
      <3>2. QED
        BY <2>2, <3>1, WritesTypes DEF Held
    <2>3. QED
      BY <2>1, <2>2
  <1>3. Ids(<<>>) = {} /\ Rises(<<>>)
    BY IdsOf, HeldTypes, <1>0
  <1>4. HeldInv'
    <2> SUFFICES ASSUME NEW j \in Bell, NEW p \in Place
                 PROVE  Rises(Held(j, p)') /\ Ids(Held(j, p)') \subseteq 1..changes'
      BY DEF HeldInv, Rises, Ids
    <2>1. CASE j = i /\ p = by
      BY <1>1, <1>3, <2>1
    <2>2. CASE ~(j = i /\ p = by)
      BY <1>0, <1>2, <2>2 DEF HeldInv
    <2>3. QED
      BY <2>1, <2>2
  <1>5. OnePlaceInv'
    <2> DEFINE ids(j, p) == Ids(Held(j, p))
    <2>1. /\ \A j \in Bell, p \in Place : ~(j = i /\ p = by) => ids(j, p)' = ids(j, p)
          /\ ids(i, by)' = {} /\ Ids(flush[i][by]) = ids(i, by)
          /\ ids(i, by) \subseteq 1..changes
      BY <1>0, <1>1, <1>2, <1>3 DEF HeldInv
    <2>2. /\ \A j, k \in Bell, p, r \in Place : j # k \/ p # r => ids(j, p) \cap ids(k, r) = {}
          /\ \A j \in Bell, p \in Place : ids(j, p) \cap (done.written \cup done.lost) = {}
          /\ done.written \cap done.lost = {} /\ done.written \cup done.lost \subseteq 1..changes
          /\ \A c : c \in done.queued <=>
                c \in done.written \cup done.lost \/ \E j \in Bell, p \in Place : c \in ids(j, p)
      BY DEF OnePlaceInv
    <2>3. /\ done'.queued = done.queued
          /\ done'.written \cup done'.lost = done.written \cup done.lost \cup ids(i, by)
          /\ \A c : c \in done'.written /\ c \in done'.lost =>
                (c \in done.written /\ c \in done.lost) \/ c \in (done.written \cup done.lost) \cap ids(i, by)
      BY <2>1, WritesTypes
    <2>4. (/\ \A j, k \in Bell, p, r \in Place : j # k \/ p # r => ids(j, p) \cap ids(k, r) = {}
           /\ \A j \in Bell, p \in Place : ids(j, p) \cap (done.written \cup done.lost) = {}
           /\ done.written \cap done.lost = {} /\ done.written \cup done.lost \subseteq 1..changes
           /\ \A c : c \in done.queued <=>
                 c \in done.written \cup done.lost \/ \E j \in Bell, p \in Place : c \in ids(j, p))'
      <3> HIDE DEF ids
      <3>1. (\A j, k \in Bell, p, r \in Place : j # k \/ p # r => ids(j, p) \cap ids(k, r) = {})'
        BY <2>1, <2>2
      <3>2. (\A j \in Bell, p \in Place : ids(j, p) \cap (done.written \cup done.lost) = {})'
        <4> SUFFICES ASSUME NEW j \in Bell, NEW p \in Place
                     PROVE  ids(j, p)' \cap (done'.written \cup done'.lost) = {}
          OBVIOUS
        <4>1. CASE j = i /\ p = by
          BY <2>1, <4>1
        <4>2. CASE j # i \/ p # by
          <5>1. ids(j, p)' = ids(j, p) /\ ids(j, p) \cap ids(i, by) = {}
            BY <1>0, <2>1, <2>2, <4>2
          <5>2. QED
            BY <2>2, <2>3, <5>1
        <4>3. QED
          BY <4>1, <4>2
      <3>3. (done.written \cap done.lost = {} /\ done.written \cup done.lost \subseteq 1..changes)'
        <4>1. ids(i, by) \cap (done.written \cup done.lost) = {}
          BY <1>0, <2>2
        <4>2. \A c : ~(c \in done'.written /\ c \in done'.lost)
          BY <2>2, <2>3, <4>1
        <4>3. QED
          BY <1>0, <2>1, <2>2, <2>3, <4>2
      <3>4. (\A c : c \in done.queued <=>
                 c \in done.written \cup done.lost \/ \E j \in Bell, p \in Place : c \in ids(j, p))'
        <4>1. \A c : (\E j \in Bell, p \in Place : c \in ids(j, p)) <=>
                     c \in ids(i, by) \/ \E j \in Bell, p \in Place : c \in ids(j, p)'
          BY <1>0, <2>1
        <4>2. QED
          BY <2>2, <2>3, <4>1
      <3>5. QED
        BY <3>1, <3>2, <3>3, <3>4
    <2>5. QED
      BY <2>4 DEF OnePlaceInv
  <1>6. QED
    BY <1>4, <1>5

\* At first there is nothing.
LEMMA BellStart ==
    ASSUME BellAssumption, BellInit
    PROVE  BellInv
  <1>1. Empty \in Table
    BY DEF Empty, Table
  <1>2. <<>> \in Seq(Operation)
    OBVIOUS
  <1>3. BellTypeOK
    BY <1>1, <1>2 DEF BellInit, BellTypeOK
  <1>4. \A i \in Bell, p \in Place : Held(i, p) = <<>>
    BY DEF BellInit, Held, Place, Flusher
  <1>5. Ids(<<>>) = {} /\ Rises(<<>>)
    BY <1>2, IdsOf
  <1>6. done.queued = {} /\ done.written = {} /\ done.lost = {}
    BY DEF BellInit
  <1>7. HeldInv /\ OnePlaceInv
    BY <1>4, <1>5, <1>6 DEF HeldInv, OnePlaceInv
  <1>8. IdleInv
    BY DEF BellInit, IdleInv, Flusher
  <1>9. QED
    BY <1>3, <1>7, <1>8 DEF BellInv

\* Every step keeps the invariant.
LEMMA BellKept ==
    ASSUME BellInv, [BellNext]_bellVars
    PROVE  BellInv'
  <1>1. CASE UNCHANGED bellVars
    <2> USE <1>1 DEF bellVars, memory, saving
    <2>1. BellTypeOK'
      BY DEF BellInv, BellTypeOK
    <2>2. changes \in Nat
      BY DEF BellInv, BellTypeOK
    <2>3. HeldInv' /\ OnePlaceInv'
      BY <2>2, HeldStays DEF BellInv
    <2>4. IdleInv'
      BY DEF BellInv, IdleInv
    <2>5. QED
      BY <2>1, <2>3, <2>4 DEF BellInv
  <1>2. CASE BellNext
    <2>1. BellTypeOK'
      BY <1>2, BellTypesKept DEF BellInv
    <2>2. HeldInv' /\ OnePlaceInv' /\ IdleInv'
      <3> PICK i \in Bell :
            \/ SaverWakes(i) \/ RequestTakes(i) \/ RequestEnds(i)
            \/ UserClears(i) \/ RefreshBell(i) \/ (\E refreshed \in BOOLEAN : EnableDb(i, refreshed))
            \/ \E n \in Note : Notify(i, n) \/ RemoveNote(i, n)
            \/ \E n \in Note, kind \in {"read", "dismiss"} : UserDoes(i, n, kind)
            \/ \E by \in Flusher, ok \in BOOLEAN : Writes(i, by, ok)
        BY <1>2 DEF BellNext
      <3>0. changes \in Nat /\ changes <= changes /\ BellTypeOK /\ HeldInv /\ OnePlaceInv /\ IdleInv
        BY DEF BellInv, BellTypeOK
      <3>1. CASE \/ \E n \in Note : Notify(i, n) \/ RemoveNote(i, n)
                 \/ \E n \in Note, kind \in {"read", "dismiss"} : UserDoes(i, n, kind)
                 \/ UserClears(i)
        <4>1. PICK b \in Table, op \in Operation : Changing(i, b, op)
          BY <3>0, <3>1, ChangesBell
        <4>2. flush' = flush
          BY <4>1 DEF Changing, Change
        <4>3. QED
          BY <3>0, <4>1, <4>2, ChangeHeld, SavesTypes DEF Changing
      <3>2. CASE SaverWakes(i)
        <4>1. CASE dirty[i] /\ queued[i] # <<>>
          <5>1. Takes(i, "task") /\ "task" \in Flusher /\ saver[i] # "writes"
            BY <3>2, <4>1 DEF SaverWakes, Takes, LeftQueued, Flusher
          <5>2. flush[i]["task"] = <<>>
            BY <3>0, <5>1 DEF IdleInv
          <5>3. IdleInv'
            <6>1. /\ asked' = asked /\ saver'[i] = "writes"
                  /\ \A j \in Bell : j # i => saver'[j] = saver[j]
              BY <3>0, <3>2, <4>1 DEF SaverWakes, BellTypeOK
            <6>2. /\ \A j \in Bell : j # i => flush'[j]["task"] = flush[j]["task"]
                  /\ \A j \in Bell : flush'[j]["request"] = flush[j]["request"]
              BY <3>0, <5>1, TakesTypes DEF Flusher
            <6>3. QED
              BY <3>0, <6>1, <6>2 DEF IdleInv
          <5>4. QED
            BY <5>1, <5>2, <5>3, TakesHeld
        <4>2. CASE ~(dirty[i] /\ queued[i] # <<>>)
          <5>1. UNCHANGED <<queued, flush, done, changes, asked>>
            BY <3>2, <4>2 DEF SaverWakes
          <5>2. \A j \in Bell : saver'[j] # "writes" => saver[j] # "writes"
            BY <3>0, <3>2, <4>2 DEF SaverWakes, BellTypeOK
          <5>3. IdleInv'
            BY <3>0, <5>1, <5>2 DEF IdleInv
          <5>4. QED
            BY <3>0, <5>1, <5>3, HeldStays
        <4>3. QED
          BY <4>1, <4>2
      <3>3. CASE RequestTakes(i)
        <4>1. CASE queued[i] # <<>>
          <5>1. Takes(i, "request") /\ "request" \in Flusher /\ asked[i] # "writes"
            BY <3>3, <4>1 DEF RequestTakes, Takes, LeftQueued, Flusher
          <5>2. flush[i]["request"] = <<>>
            BY <3>0, <5>1 DEF IdleInv
          <5>3. IdleInv'
            <6>1. /\ saver' = saver /\ asked'[i] = "writes"
                  /\ \A j \in Bell : j # i => asked'[j] = asked[j]
              BY <3>0, <3>3, <4>1 DEF RequestTakes, BellTypeOK
            <6>2. /\ \A j \in Bell : j # i => flush'[j]["request"] = flush[j]["request"]
                  /\ \A j \in Bell : flush'[j]["task"] = flush[j]["task"]
              BY <3>0, <5>1, TakesTypes DEF Flusher
            <6>3. QED
              BY <3>0, <6>1, <6>2 DEF IdleInv
          <5>4. QED
            BY <5>1, <5>2, <5>3, TakesHeld
        <4>2. CASE queued[i] = <<>>
          <5>1. UNCHANGED <<queued, flush, done, changes, saver>>
            BY <3>3, <4>2 DEF RequestTakes
          <5>2. \A j \in Bell : asked'[j] # "writes" => asked[j] # "writes"
            BY <3>0, <3>3, <4>2 DEF RequestTakes, BellTypeOK
          <5>3. IdleInv'
            BY <3>0, <5>1, <5>2 DEF IdleInv
          <5>4. QED
            BY <3>0, <5>1, <5>3, HeldStays
        <4>3. QED
          BY <4>1, <4>2
      <3>4. CASE RequestEnds(i)
        <4>1. UNCHANGED <<queued, flush, done, changes, saver>>
          BY <3>4 DEF RequestEnds, memory
        <4>2. \A j \in Bell : asked'[j] # "writes" => asked[j] # "writes"
          BY <3>0, <3>4 DEF RequestEnds, BellTypeOK
        <4>3. IdleInv'
          BY <3>0, <4>1, <4>2 DEF IdleInv
        <4>4. QED
          BY <3>0, <4>1, <4>3, HeldStays
      <3>5. CASE RefreshBell(i) \/ \E refreshed \in BOOLEAN : EnableDb(i, refreshed)
        <4>1. UNCHANGED <<queued, flush, done, changes, saver, asked>>
          BY <3>5 DEF RefreshBell, EnableDb, saving
        <4>2. IdleInv'
          BY <3>0, <4>1 DEF IdleInv
        <4>3. QED
          BY <3>0, <4>1, <4>2, HeldStays
      <3>6. CASE \E by \in Flusher, ok \in BOOLEAN : Writes(i, by, ok)
        <4>1. PICK by \in Flusher, ok \in BOOLEAN : Writes(i, by, ok)
          BY <3>6
        <4>2. /\ flush'[i][by] = <<>>
              /\ \A j \in Bell, p \in Flusher : ~(j = i /\ p = by) => flush'[j][p] = flush[j][p]
          BY <3>0, <4>1, WritesTypes
        <4>3. /\ \A j \in Bell : saver'[j] = saver[j] \/ (j = i /\ by = "task")
              /\ \A j \in Bell : asked'[j] = asked[j] \/ (j = i /\ by = "request")
          BY <3>0, <4>1 DEF Writes, BellTypeOK
        <4>4. IdleInv'
          BY <3>0, <4>2, <4>3 DEF IdleInv, Flusher
        <4>5. QED
          BY <4>1, <4>4, WritesHeld
      <3>7. QED
        BY <3>1, <3>2, <3>3, <3>4, <3>5, <3>6
    <2>3. QED
      BY <2>1, <2>2 DEF BellInv
  <1>3. QED
    BY <1>1, <1>2

\* The places by name.
LEMMA AllAccountedFor ==
    ASSUME BellInv
    PROVE  ChangesAccountedFor
  <1> DEFINE inQueue == UNION {Ids(queued[i]) : i \in Bell}
             writing == UNION {Ids(flush[i][by]) : i \in Bell, by \in Flusher}
             ids(j, p) == Ids(Held(j, p))
  <1>1. \A c : c \in inQueue <=> \E i \in Bell : c \in ids(i, "queue")
    BY DEF Held
  <1>2. \A c : c \in writing <=> \E i \in Bell, by \in Flusher : c \in ids(i, by)
    BY DEF Held, Flusher
  <1>3. Place = {"queue"} \cup Flusher /\ "queue" \notin Flusher
    BY DEF Place, Flusher
  <1>4. /\ \A j, k \in Bell, p, r \in Place : j # k \/ p # r => ids(j, p) \cap ids(k, r) = {}
        /\ \A j \in Bell, p \in Place : ids(j, p) \cap (done.written \cup done.lost) = {}
        /\ done.written \cap done.lost = {}
        /\ \A c : c \in done.queued <=>
              c \in done.written \cup done.lost \/ \E j \in Bell, p \in Place : c \in ids(j, p)
    BY DEF BellInv, OnePlaceInv
  <1> HIDE DEF inQueue, writing, ids
  <1>5. done.queued = inQueue \cup writing \cup done.written \cup done.lost
    <2>1. \A c : (\E j \in Bell, p \in Place : c \in ids(j, p)) <=> c \in inQueue \cup writing
      BY <1>1, <1>2, <1>3
    <2>2. QED
      BY <1>4, <2>1
  <1>6. inQueue \cap (writing \cup done.written \cup done.lost) = {}
    <2>1. ASSUME NEW c \in inQueue, c \in writing PROVE FALSE
      <3>1. PICK i \in Bell : c \in ids(i, "queue")
        BY <1>1, <2>1
      <3>2. PICK j \in Bell, by \in Flusher : c \in ids(j, by)
        BY <1>2, <2>1
      <3>3. ids(i, "queue") \cap ids(j, by) = {}
        BY <1>3, <1>4
      <3>4. QED
        BY <3>1, <3>2, <3>3
    <2>2. inQueue \cap (done.written \cup done.lost) = {}
      BY <1>1, <1>3, <1>4
    <2>3. QED
      BY <2>1, <2>2
  <1>7. writing \cap (done.written \cup done.lost) = {}
    BY <1>2, <1>3, <1>4
  <1>8. QED
    BY <1>4, <1>5, <1>6, <1>7 DEF ChangesAccountedFor, inQueue, writing

\* Only a transaction takes a dismissal from the tables.
LEMMA OnlyWritesUndismiss ==
    ASSUME BellAssumption, BellInv, [BellNext]_bellVars
    PROVE  DismissalStands
  <1>0. tables \in Table /\ BellTypeOK
    BY DEF BellInv, BellTypeOK
  <1>1. CASE tables.dismissed \subseteq tables'.dismissed
    BY <1>1 DEF DismissalStands
  <1>2. ASSUME NEW i \in Bell, NEW by \in Flusher, NEW ok \in BOOLEAN, Writes(i, by, ok)
        PROVE  DismissalStands
    <2> DEFINE ops == flush[i][by]
    <2>1. ops \in Seq(Operation) /\ flush'[i][by] = <<>>
      BY <1>0, <1>2, BellTypes, WritesTypes DEF BellInv
    <2>2. Rises(ops) /\ Ids(ops) \subseteq 1..changes /\ changes \in Nat
      <3>1. by \in Place /\ ops = Held(i, by)
        BY DEF Flusher, Place, Held
      <3>2. QED
        BY <1>0, <3>1 DEF BellInv, HeldInv, BellTypeOK
    <2> HIDE DEF ops
    <2>3. \A k \in DOMAIN ops : ops[k].change # 0
      <3>1. \A k \in DOMAIN ops : ops[k].change \in Ids(ops)
        BY <2>1, IdsOf
      <3>2. 0 \notin 1..changes
        BY <2>2
      <3>3. QED
        BY <2>2, <3>1, <3>2
    <2> SUFFICES ASSUME NEW n \in tables.dismissed \ tables'.dismissed
                 PROVE  \E op \in Range(ops) :
                           \/ op.kind = "delete" /\ op.note = n
                           \/ op.kind = "upsert" /\ op.note # n
                           \/ /\ op.kind = "upsert"
                              /\ Cardinality({m \in Note \ {n} : tables.rows[m] > op.change}) >= Limit
      BY <2>1 DEF DismissalStands, ops
    <2>4. tables' = Stages(tables, ops)[Len(ops)]
      BY <1>2 DEF Writes, ops
    <2>5. PICK k \in 1..Len(ops) :
             \/ ops[k].kind = "delete" /\ ops[k].note = n
             \/ ops[k].kind = "upsert" /\ ops[k].note # n
             \/ ops[k].kind = "upsert" /\ Cardinality({m \in Note \ {n} : tables.rows[m] > ops[k].change}) >= Limit
      BY <1>0, <2>1, <2>2, <2>3, <2>4, Undismissed
    <2>6. ops[k] \in Range(ops)
      BY <2>1 DEF Range
    <2>7. QED
      BY <2>5, <2>6
  <1>3. CASE BellNext
    <2> PICK i \in Bell :
          \/ SaverWakes(i) \/ RequestTakes(i) \/ RequestEnds(i)
          \/ UserClears(i) \/ RefreshBell(i) \/ (\E refreshed \in BOOLEAN : EnableDb(i, refreshed))
          \/ \E n \in Note : Notify(i, n) \/ RemoveNote(i, n)
          \/ \E n \in Note, kind \in {"read", "dismiss"} : UserDoes(i, n, kind)
          \/ \E by \in Flusher, ok \in BOOLEAN : Writes(i, by, ok)
      BY <1>3 DEF BellNext
    <2>1. CASE \/ \E n \in Note : Notify(i, n) \/ RemoveNote(i, n)
               \/ \E n \in Note, kind \in {"read", "dismiss"} : UserDoes(i, n, kind)
               \/ UserClears(i)
      <3>1. PICK b \in Table, op \in Operation : Changing(i, b, op)
        BY <1>0, <2>1, ChangesBell
      <3>2. tables' = tables
        BY <3>1 DEF Changing, Change
      <3>3. QED
        BY <1>1, <3>2
    <2>2. CASE SaverWakes(i) \/ RequestTakes(i) \/ RequestEnds(i) \/ RefreshBell(i)
      <3>1. tables' = tables
        BY <2>2 DEF SaverWakes, RequestTakes, RequestEnds, RefreshBell
      <3>2. QED
        BY <1>1, <3>1
    <2>3. ASSUME NEW refreshed \in BOOLEAN, EnableDb(i, refreshed) PROVE DismissalStands
      <3>1. CASE Imports(bell[i])
        <4>1. tables'.dismissed = (tables.dismissed \ bell[i].read) \cup bell[i].dismissed
          BY <2>3, <3>1 DEF EnableDb, Imported
        <4>2. ~shared[i] /\ shared'[i]
          BY <1>0, <2>3 DEF EnableDb, BellTypeOK
        <4>3. QED
          BY <3>1, <4>1, <4>2 DEF DismissalStands
      <3>2. CASE ~Imports(bell[i])
        <4>1. tables' = tables
          BY <2>3, <3>2 DEF EnableDb
        <4>2. QED
          BY <1>1, <4>1
      <3>3. QED
        BY <3>1, <3>2
    <2>4. CASE \E by \in Flusher, ok \in BOOLEAN : Writes(i, by, ok)
      BY <1>2, <2>4
    <2>5. QED
      BY <2>1, <2>2, <2>3, <2>4
  <1>4. CASE UNCHANGED bellVars
    BY <1>1, <1>4 DEF bellVars
  <1>5. QED
    BY <1>3, <1>4

\* Tables, memories, queues and flushes keep their types.
THEOREM BellTypeCorrect == BellSpec => []BellTypeOK
  <1>1. BellInv => BellTypeOK
    BY DEF BellInv
  <1>2. BellInit => BellInv
    BY BellStart, BellAssumption
  <1>3. BellInv /\ [BellNext]_bellVars => BellInv'
    BY BellKept
  <1>4. QED
    BY <1>1, <1>2, <1>3, PTL DEF BellSpec

\* A change that is queued is written once or counted with a flush that failed,
\* and what was dismissed comes back only with what removed the notification.
THEOREM BellCorrect == BellSpec => BellRemembers
  <1>1. BellInit => BellInv
    BY BellStart, BellAssumption
  <1>2. BellInv /\ [BellNext]_bellVars => BellInv'
    BY BellKept
  <1>3. BellInv => ChangesAccountedFor
    BY AllAccountedFor
  <1>4. BellInv /\ [BellNext]_bellVars => [DismissalStands]_bellVars
    BY OnlyWritesUndismiss, BellAssumption
  <1>5. QED
    BY <1>1, <1>2, <1>3, <1>4, PTL DEF BellSpec, BellRemembers

=============================================================================

----------------------- MODULE PluginConvergenceProofs -----------------------
(***************************************************************************)
(* Proofs about PluginConvergence: types, who moves the version of the     *)
(* row, and that no row is lost but to a pass that was overtaken.          *)
(***************************************************************************)
EXTENDS PluginConvergence, TLAPS

-----------------------------------------------------------------------------
(* The functions the steps are made of.                                    *)

\* What is loaded from files is an entry.
LEMMA FreshType ==
    ASSUME TypeOK, NEW i \in Instance, HasFiles(i)
    PROVE  Fresh(i) \in Entry
  BY ConstantsAssumption DEF TypeOK, HasFiles, OnDisk, Fresh, Entry

\* Unloading leaves no entry, and of setup() what outlives it.
LEMMA UnloadType ==
    ASSUME TypeOK, NEW i \in Instance, Unload(i)
    PROVE  /\ module' \in [Instance -> Entry \cup {NotLoaded}]
           /\ setup' \in [Instance -> SUBSET {"own", "orphan"}]
  <1>1. Orphans(i) \in SUBSET {"own", "orphan"}
    BY DEF Orphans
  <1>2. /\ module \in [Instance -> Entry \cup {NotLoaded}]
        /\ setup \in [Instance -> SUBSET {"own", "orphan"}]
    BY DEF TypeOK
  <1> QED BY <1>1, <1>2 DEF Unload

\* An activation leaves a row, entries and tasks.
LEMMA ActivateType ==
    ASSUME TypeOK, NEW i \in Instance, NEW e \in Entry \cup {NotLoaded},
           NEW ts \in SUBSET {"own", "orphan"}, Activate(i, e, ts)
    PROVE  /\ row' \in Row \cup {NoRow}
           /\ module' \in [Instance -> Entry \cup {NotLoaded}]
           /\ setup' \in [Instance -> SUBSET {"own", "orphan"}]
  <1>1. CASE e = NotLoaded
    <2>1. row' = row /\ module' = [module EXCEPT ![i] = e] /\ setup' = [setup EXCEPT ![i] = ts]
      BY <1>1 DEF Activate
    <2>2. /\ row \in Row \cup {NoRow}
          /\ module \in [Instance -> Entry \cup {NotLoaded}]
          /\ setup \in [Instance -> SUBSET {"own", "orphan"}]
      BY DEF TypeOK
    <2> QED BY <2>1, <2>2
  <1>2. CASE e # NotLoaded
    <2> DEFINE r == Filled(row, e)
               a == [Applied(r, e) EXCEPT !.persisted = TRUE]
    <2>1. e \in Entry BY <1>2
    <2>2. r \in Row
      BY <2>1, ConstantsAssumption DEF Filled, TypeOK, Row, Entry
    <2>3. a \in Entry
      BY <2>1 DEF Applied, Disable, SetUp, Entry
    <2>4. Started(e, ts) \in SUBSET {"own", "orphan"}
      BY DEF Started
    <2>5. /\ row' = r
          /\ module' = [module EXCEPT ![i] = a]
          /\ setup' = [setup EXCEPT ![i] = IF r.active /\ e.status # "active" THEN Started(e, ts) ELSE ts]
      BY <1>2 DEF Activate
    <2> HIDE DEF r, a
    <2> QED BY <2>2, <2>3, <2>4, <2>5 DEF TypeOK
  <1> QED BY <1>1, <1>2

\* A handler goes from stage to stage.
LEMMA HandlerType ==
    ASSUME TypeOK, NEW i \in Instance, NEW s \in Stage
    PROVE  [handler EXCEPT ![i].stage = s]
               \in [Instance -> [stage: Stage, lead: BOOLEAN, existing: BOOLEAN]]
  <1>1. handler \in [Instance -> [stage: Stage, lead: BOOLEAN, existing: BOOLEAN]]
    BY DEF TypeOK
  <1>2. [handler[i] EXCEPT !.stage = s] \in [stage: Stage, lead: BOOLEAN, existing: BOOLEAN]
    BY <1>1
  <1>3. [handler EXCEPT ![i].stage = s] = [handler EXCEPT ![i] = [handler[i] EXCEPT !.stage = s]]
    BY <1>1
  <1> QED BY <1>1, <1>2, <1>3

\* The end of a pass frees those who waited for it.
LEMMA FinishType ==
    ASSUME TypeOK, NEW i \in Instance, NEW by, Finish(i, by)
    PROVE  /\ pass' \in [Instance -> {NoPass} \cup
                           [stage: {"want", "fetch"}, by: {"task", "reload", "handler"},
                            version: Version, upgrade: BOOLEAN]]
           /\ reload' \in [Instance -> [stage: {"free", "pause", "restore"}, by: {"operator", "handler"}]]
           /\ handler' \in [Instance -> [stage: Stage, lead: BOOLEAN, existing: BOOLEAN]]
  <1>1. \A s : After(s) \in Stage BY DEF After, Stage
  <1>3. pass' = [pass EXCEPT ![i] = NoPass]
    BY DEF Finish
  <1>4. reload' = [reload EXCEPT ![i] = IF by = "reload" THEN NoReload ELSE @]
    BY DEF Finish
  <1>5. \E s \in Stage : handler' = [handler EXCEPT ![i].stage = s]
    <2> DEFINE s == handler[i].stage
    <2>1. s \in Stage BY DEF TypeOK
    <2>2. \/ handler' = [handler EXCEPT ![i].stage = After(s)]
          \/ handler' = [handler EXCEPT ![i].stage = s]
      BY DEF Finish
    <2> QED BY <1>1, <2>1, <2>2
  <1>6. pass' \in [Instance -> {NoPass} \cup
                     [stage: {"want", "fetch"}, by: {"task", "reload", "handler"},
                      version: Version, upgrade: BOOLEAN]]
    BY <1>3 DEF TypeOK
  <1>8. reload' \in [Instance -> [stage: {"free", "pause", "restore"}, by: {"operator", "handler"}]]
    BY <1>4 DEF TypeOK, NoReload
  <1>9. handler' \in [Instance -> [stage: Stage, lead: BOOLEAN, existing: BOOLEAN]]
    BY <1>5, HandlerType
  <1> QED BY <1>6, <1>8, <1>9

\* An event goes to the end of the queue.
LEMMA EventsType ==
    ASSUME NEW q \in [Instance -> Seq(BOOLEAN)], NEW i \in Instance, NEW lead \in BOOLEAN,
           \A j \in Instance : Len(q[j]) <= MaxEvents, Len(q[i]) < MaxEvents
    PROVE  /\ [q EXCEPT ![i] = Append(q[i], lead)] \in [Instance -> Seq(BOOLEAN)]
           /\ \A j \in Instance : Len([q EXCEPT ![i] = Append(q[i], lead)][j]) <= MaxEvents
  <1>1. Append(q[i], lead) \in Seq(BOOLEAN) /\ Len(Append(q[i], lead)) = Len(q[i]) + 1 /\ Len(q[i]) \in Nat
    OBVIOUS
  <1> QED BY <1>1, ConstantsAssumption

\* Asking keeps the list of what was asked.
LEMMA AskType ==
    ASSUME TypeOK, NEW kind, Ask(kind)
    PROVE  asked' \in Seq(Kinds)
  BY ConstantsAssumption DEF Ask

-----------------------------------------------------------------------------
(* Types.                                                                  *)

LEMMA TypeInit == Init => TypeOK
  <1> SUFFICES ASSUME Init PROVE TypeOK
    OBVIOUS
  <1>1. PICK v \in Installed :
            /\ row = IF v = Nothing THEN NoRow ELSE [active |-> TRUE, version |-> v, repo |-> TRUE]
            /\ files = [d \in Disk |-> v]
            /\ module = [i \in Instance |-> IF v = Nothing THEN NotLoaded ELSE
                  [version |-> v, status |-> "active", persisted |-> TRUE, reverted |-> FALSE]]
    BY DEF Init
  <1>2. v \in Version \cup {Nothing}
    BY ConstantsAssumption
  <1>3. row \in Row \cup {NoRow} /\ module \in [Instance -> Entry \cup {NotLoaded}]
    BY <1>1, <1>2 DEF Row, Entry
  <1>4. read \in [Instance -> {NoRead} \cup [by: {"task", "reload", "handler"}, row: Row \cup {NoRow}]]
    BY DEF Init
  <1>5. events \in [Instance -> Seq(BOOLEAN)] /\ \A i \in Instance : Len(events[i]) <= MaxEvents
    BY ConstantsAssumption DEF Init
  <1>6. handler \in [Instance -> [stage: Stage, lead: BOOLEAN, existing: BOOLEAN]]
    BY DEF Init, NoHandler, Stage
  <1>7. reload \in [Instance -> [stage: {"free", "pause", "restore"}, by: {"operator", "handler"}]]
    BY DEF Init, NoReload
  <1>8. asked \in Seq(Kinds)
    BY DEF Init
  <1> QED BY <1>1, <1>2, <1>3, <1>4, <1>5, <1>6, <1>7, <1>8 DEF Init, TypeOK

LEMMA HandlerStepType ==
    ASSUME TypeOK, NEW i \in Instance, HandlerStep(i)
    PROVE  TypeOK'
  <1>1. CASE Handle(i)
    <2>0. events \in [Instance -> Seq(BOOLEAN)] /\ events[i] # <<>>
      BY <1>1 DEF Handle, TypeOK
    <2>1. events' \in [Instance -> Seq(BOOLEAN)] /\ \A j \in Instance : Len(events'[j]) <= MaxEvents
      <3>1. events' = [events EXCEPT ![i] = Tail(events[i])]
        BY <1>1 DEF Handle
      <3>2. Tail(events[i]) \in Seq(BOOLEAN) /\ Len(Tail(events[i])) = Len(events[i]) - 1
        BY <2>0
      <3>3. Len(events[i]) \in Nat
        BY <2>0
      <3>4. \A j \in Instance : Len(events[j]) <= MaxEvents
        BY DEF TypeOK
      <3> QED BY <2>0, <3>1, <3>2, <3>3, <3>4, ConstantsAssumption
    <2>2. Head(events[i]) \in BOOLEAN /\ Loaded(i) \in BOOLEAN
      BY <2>0 DEF Loaded
    <2> DEFINE s == IF Head(events[i]) THEN "record" ELSE "load"
               h == [stage |-> s, lead |-> Head(events[i]), existing |-> Loaded(i)]
    <2>3. s \in Stage BY DEF Stage
    <2>4. handler' \in [Instance -> [stage: Stage, lead: BOOLEAN, existing: BOOLEAN]]
      <3>1. h \in [stage: Stage, lead: BOOLEAN, existing: BOOLEAN]
        BY <2>2, <2>3
      <3>2. handler' = [handler EXCEPT ![i] = h]
        BY <1>1 DEF Handle
      <3> HIDE DEF h
      <3> QED BY <3>1, <3>2 DEF TypeOK
    <2> QED BY <1>1, <2>1, <2>4 DEF Handle, TypeOK, shared
  <1>2. CASE Record(i)
    <2>1. row' \in Row \cup {NoRow}
      <3>1. CASE row = NoRow \/ ~HasFiles(i)
        BY <1>2, <3>1 DEF Record, TypeOK
      <3>2. CASE row # NoRow /\ HasFiles(i)
        <4>1. row \in Row /\ OnDisk(i) \in Version \cup {Nothing}
          BY <3>2, ConstantsAssumption DEF TypeOK, OnDisk
        <4>2. row' = [row EXCEPT !.version = OnDisk(i)]
          BY <1>2, <3>2 DEF Record
        <4> QED BY <4>1, <4>2 DEF Row
      <3> QED BY <3>1, <3>2
    <2>2. "load" \in Stage BY DEF Stage
    <2> QED BY <1>2, <2>1, <2>2, HandlerType DEF Record, TypeOK
  <1>3. CASE Load(i)
    <2>1. CASE Loaded(i)
      <3>1. Unload(i)
        BY <1>3, <2>1 DEF Load, StartReload
      <3>2. /\ setup' \in [Instance -> SUBSET {"own", "orphan"}]
            /\ module' \in [Instance -> Entry \cup {NotLoaded}]
        BY <3>1, UnloadType
      <3>3. reload' \in [Instance -> [stage: {"free", "pause", "restore"}, by: {"operator", "handler"}]]
        <4>1. reload' = [reload EXCEPT ![i] = [stage |-> "pause", by |-> "handler"]]
          BY <1>3, <2>1 DEF Load, StartReload
        <4> QED BY <4>1 DEF TypeOK
      <3>4. handler' = [handler EXCEPT ![i].stage = "reload"] /\ "reload" \in Stage
        BY <1>3, <2>1 DEF Load, Stage
      <3> QED BY <1>3, <3>2, <3>3, <3>4, HandlerType DEF Load, TypeOK, shared
    <2>2. CASE ~Loaded(i)
      <3>1. module' \in [Instance -> Entry \cup {NotLoaded}]
        <4>1. \/ HasFiles(i) /\ module' = [module EXCEPT ![i] = Fresh(i)]
              \/ module' = [module EXCEPT ![i] = module[i]]
          BY <1>3, <2>2 DEF Load
        <4> QED BY <4>1, FreshType DEF TypeOK
      <3>2. \E s \in Stage : handler' = [handler EXCEPT ![i].stage = s]
        BY <1>3, <2>2 DEF Load, Stage
      <3>3. UNCHANGED <<setup, reload>>
        BY <1>3, <2>2 DEF Load
      <3> QED BY <1>3, <3>1, <3>2, <3>3, HandlerType DEF Load, TypeOK, shared
    <2> QED BY <2>1, <2>2
  <1>4. CASE Persist(i)
    <2>1. row' \in Row \cup {NoRow}
      <3>1. CASE Loaded(i)
        <4>1. module[i] \in Entry
          BY <3>1 DEF Loaded, TypeOK
        <4>2. row' = Persisted(i, module[i])
          BY <1>4, <3>1 DEF Persist
        <4> QED BY <4>1, <4>2 DEF Persisted, TypeOK, Row, Entry
      <3>2. CASE ~Loaded(i)
        BY <1>4, <3>2 DEF Persist, TypeOK
      <3> QED BY <3>1, <3>2
    <2>2. module' \in [Instance -> Entry \cup {NotLoaded}]
      <3>1. CASE Loaded(i)
        <4>1. module \in [Instance -> Entry \cup {NotLoaded}]
          BY DEF TypeOK
        <4>2. [module[i] EXCEPT !.persisted = TRUE] \in Entry
          <5>1. module[i] \in Entry BY <3>1 DEF Loaded, TypeOK
          <5> QED BY <5>1 DEF Entry
        <4>3. module' = [module EXCEPT ![i] = [module[i] EXCEPT !.persisted = TRUE]]
          <5>1. module' = [module EXCEPT ![i].persisted = TRUE]
            BY <1>4, <3>1 DEF Persist
          <5> QED BY <5>1, <4>1
        <4> QED BY <4>1, <4>2, <4>3
      <3>2. CASE ~Loaded(i)
        BY <1>4, <3>2 DEF Persist, TypeOK
      <3> QED BY <3>1, <3>2
    <2>3. "activate" \in Stage BY DEF Stage
    <2> QED BY <1>4, <2>1, <2>2, <2>3, HandlerType DEF Persist, TypeOK
  <1>5. CASE Restore(i)
    <2>1. Activate(i, module[i], setup[i]) BY <1>5 DEF Restore
    <2>2. module[i] \in Entry \cup {NotLoaded} /\ setup[i] \in SUBSET {"own", "orphan"}
      BY DEF TypeOK
    <2>3. "restore" \in Stage BY DEF Stage
    <2> QED BY <1>5, <2>1, <2>2, <2>3, ActivateType, HandlerType DEF Restore, TypeOK
  <1>6. CASE Verify(i)
    <2>1. \E s \in Stage : handler' = [handler EXCEPT ![i].stage = s]
      BY <1>6 DEF Verify, Stage
    <2>2. asked' \in Seq(Kinds)
      <3>1. UNCHANGED asked \/ Ask("setup is slow")
        BY <1>6 DEF Verify
      <3> QED BY <3>1, AskType DEF TypeOK
    <2>3. UNCHANGED <<shared, up, module, setup, events, reload, fetch, pass, read, gone, overtaken>>
      BY <1>6 DEF Verify
    <2> QED BY <2>1, <2>2, <2>3, HandlerType DEF TypeOK, shared
  <1>7. CASE Revert(i)
    <2>1. \E s \in Stage : handler' = [handler EXCEPT ![i].stage = s]
      BY <1>7 DEF Revert, Stage
    <2>2. CASE previous[Mount[i]] = Nothing
      BY <1>7, <2>1, <2>2, HandlerType DEF Revert, TypeOK
    <2>3. CASE previous[Mount[i]] # Nothing
      <3> DEFINE e == [version |-> previous[Mount[i]], status |-> "initializing",
                       persisted |-> FALSE, reverted |-> Loaded(i)]
      <3>1. previous[Mount[i]] \in Version
        BY <2>3, ConstantsAssumption DEF TypeOK
      <3>2. e \in Entry /\ Orphans(i) \in SUBSET {"own", "orphan"}
        BY <3>1 DEF Entry, Orphans, Loaded
      <3>3. Activate(i, e, Orphans(i))
        BY <1>7, <2>3 DEF Revert
      <3>4. files' \in [Disk -> Version \cup {Nothing}] /\ previous' \in [Disk -> Version \cup {Nothing}]
        BY <1>7, <2>3, <3>1 DEF Revert, TypeOK
      <3> HIDE DEF e
      <3> QED BY <1>7, <2>1, <3>2, <3>3, <3>4, ActivateType, HandlerType DEF Revert, TypeOK
    <2> QED BY <2>2, <2>3
  <1> QED BY <1>1, <1>2, <1>3, <1>4, <1>5, <1>6, <1>7 DEF HandlerStep

LEMMA ReloadType ==
    ASSUME TypeOK, NEW i \in Instance, Reload(i)
    PROVE  TypeOK'
  <1>1. CASE Loaded(i) \/ ~HasFiles(i)
    <2>1. \E s \in Stage : handler' = [handler EXCEPT ![i].stage = s]
      <3>1. "failed" \in Stage /\ handler[i].stage \in Stage
        BY DEF Stage, TypeOK
      <3>2. \/ handler' = [handler EXCEPT ![i].stage = "failed"]
            \/ handler' = [handler EXCEPT ![i].stage = handler[i].stage]
        BY <1>1 DEF Reload
      <3> QED BY <3>1, <3>2
    <2>2. reload' \in [Instance -> [stage: {"free", "pause", "restore"}, by: {"operator", "handler"}]]
      <3>1. reload' = [reload EXCEPT ![i] = NoReload]
        BY <1>1 DEF Reload
      <3> QED BY <3>1 DEF TypeOK, NoReload
    <2>3. UNCHANGED <<row, module, setup>>
      BY <1>1 DEF Reload
    <2> QED BY <2>1, <2>2, <2>3, HandlerType DEF Reload, TypeOK
  <1>2. CASE ~Loaded(i) /\ HasFiles(i)
    <2>1. Activate(i, Fresh(i), setup[i]) /\ UNCHANGED handler
      BY <1>2 DEF Reload
    <2>2. Fresh(i) \in Entry /\ setup[i] \in SUBSET {"own", "orphan"}
      BY <1>2, FreshType DEF TypeOK
    <2>3. reload' \in [Instance -> [stage: {"free", "pause", "restore"}, by: {"operator", "handler"}]]
      <3>1. reload \in [Instance -> [stage: {"free", "pause", "restore"}, by: {"operator", "handler"}]]
        BY DEF TypeOK
      <3>2. reload' = [reload EXCEPT ![i].stage = "restore"]
        BY <1>2 DEF Reload
      <3> QED BY <3>1, <3>2
    <2> QED BY <2>1, <2>2, <2>3, ActivateType DEF Reload, TypeOK
  <1> QED BY <1>1, <1>2

\* What a pass does on a row keeps the types of all it touches.
LEMMA WantType ==
    ASSUME TypeOK, NEW i \in Instance, NEW by \in {"task", "reload", "handler"},
           NEW r \in Row, NEW upgrade \in BOOLEAN, Want(i, by, r, upgrade)
    PROVE  pass' \in [Instance -> {NoPass} \cup
                         [stage: {"want", "fetch"}, by: {"task", "reload", "handler"},
                          version: Version, upgrade: BOOLEAN]]
  <1> DEFINE v == IF r.version = Nothing THEN Latest ELSE r.version
  <1>1. v \in Version
    BY ConstantsAssumption DEF Row
  <1>2. pass' = [pass EXCEPT ![i] = [stage |-> "want", by |-> by, upgrade |-> upgrade, version |-> v]]
    BY DEF Want
  <1> HIDE DEF v
  <1> QED BY <1>1, <1>2 DEF TypeOK

LEMMA TogglesType ==
    ASSUME TypeOK, NEW i \in Instance, NEW by, NEW r \in Row, NEW e \in Entry,
           PassToggles(i, by, r, e)
    PROVE  /\ module' \in [Instance -> Entry \cup {NotLoaded}]
           /\ setup' \in [Instance -> SUBSET {"own", "orphan"}]
  <1>1. SetUp(e) \in Entry /\ Disable(e) \in Entry
    BY DEF SetUp, Disable, Entry
  <1>2. \E x \in Entry : module' = [module EXCEPT ![i] = x]
    BY <1>1 DEF PassToggles
  <1>3. Started(e, setup[i]) \in SUBSET {"own", "orphan"} /\ setup[i] \in SUBSET {"own", "orphan"}
    BY DEF Started, TypeOK
  <1>4. \E x \in SUBSET {"own", "orphan"} : setup' = [setup EXCEPT ![i] = x]
    <2>1. \/ setup' = [setup EXCEPT ![i] = Started(e, setup[i])]
          \/ setup' = [setup EXCEPT ![i] = setup[i]]
      BY DEF PassToggles
    <2> QED BY <2>1, <1>3
  <1>5. /\ module \in [Instance -> Entry \cup {NotLoaded}]
        /\ setup \in [Instance -> SUBSET {"own", "orphan"}]
    BY DEF TypeOK
  <1> QED BY <1>2, <1>4, <1>5

LEMMA FoundType ==
    ASSUME TypeOK, NEW i \in Instance
    PROVE  Found(i) \in Entry \cup {NotLoaded}
  BY FreshType DEF Found, TypeOK, Loaded

\* All that a pass touches, the rows it read apart.
PassTypes ==
    /\ row' \in Row \cup {NoRow}
    /\ files' \in [Disk -> Version \cup {Nothing}]
    /\ previous' \in [Disk -> Version \cup {Nothing}]
    /\ up' \in [Instance -> {"up", "down", "booting"}]
    /\ module' \in [Instance -> Entry \cup {NotLoaded}]
    /\ setup' \in [Instance -> SUBSET {"own", "orphan"}]
    /\ events' \in [Instance -> Seq(BOOLEAN)]
    /\ \A i \in Instance : Len(events'[i]) <= MaxEvents
    /\ handler' \in [Instance -> [stage: Stage, lead: BOOLEAN, existing: BOOLEAN]]
    /\ reload' \in [Instance -> [stage: {"free", "pause", "restore"}, by: {"operator", "handler"}]]
    /\ fetch' \in [Instance -> Task \cup {NoTask}]
    /\ pass' \in [Instance -> {NoPass} \cup
                     [stage: {"want", "fetch"}, by: {"task", "reload", "handler"},
                      version: Version, upgrade: BOOLEAN]]
    /\ gone' \in [Instance -> {"no", "unload", "delete"}]

LEMMA PassOnType ==
    ASSUME TypeOK, NEW i \in Instance, NEW by \in {"task", "reload", "handler"},
           NEW r \in Row \cup {NoRow}, PassOn(i, by, r)
    PROVE  PassTypes
  <1>1. IF r # NoRow THEN PassOnRow(i, by, r)
        ELSE IF Known(i) THEN PassRemoves(i, by)
        ELSE Finish(i, by) /\ UNCHANGED <<files, previous, module, setup, gone>>
    BY DEF PassOn
  <1>2. r \in Row \cup {NoRow}
    OBVIOUS
  <1>3. UNCHANGED <<row, up, events, fetch>>
    BY DEF PassOn
  <1>4. CASE r = NoRow /\ Known(i)
    <2>1. Finish(i, by) /\ PassRemoves(i, by)
      BY <1>1, <1>4 DEF PassRemoves
    <2>2. CASE HasFiles(i)
      <3>1. /\ files' \in [Disk -> Version \cup {Nothing}]
            /\ previous' \in [Disk -> Version \cup {Nothing}]
            /\ gone' \in [Instance -> {"no", "unload", "delete"}]
            /\ UNCHANGED <<module, setup>>
        BY <2>1, <2>2 DEF PassRemoves, Remove, TypeOK
      <3> QED BY <1>3, <2>1, <3>1, FinishType DEF TypeOK, PassTypes
    <2>3. CASE ~HasFiles(i)
      <3>1. Unload(i) /\ UNCHANGED <<files, previous, gone>>
        BY <2>1, <2>3 DEF PassRemoves
      <3> QED BY <1>3, <2>1, <3>1, FinishType, UnloadType DEF TypeOK, PassTypes
    <2> QED BY <2>2, <2>3
  <1>5. CASE r = NoRow /\ ~Known(i)
    BY <1>1, <1>3, <1>5, FinishType DEF TypeOK, PassTypes
  <1>6. CASE r # NoRow
    <2> DEFINE e == Found(i)
    <2>0. r \in Row /\ PassOnRow(i, by, r) /\ e \in Entry \cup {NotLoaded}
      BY <1>1, <1>2, <1>6, FoundType
    <2>1. CASE e = NotLoaded /\ Missing(i, r)
      <3>1. Want(i, by, r, FALSE) /\ UNCHANGED module
        BY <2>0, <2>1 DEF PassOnRow
      <3>2. UNCHANGED <<files, previous, setup, handler, reload, gone>>
        BY <3>1 DEF Want
      <3> QED BY <1>3, <2>0, <3>1, <3>2, WantType DEF TypeOK, PassTypes
    <2>2. CASE e = NotLoaded /\ ~Missing(i, r)
      <3>1. Finish(i, by) /\ UNCHANGED <<files, previous, module, setup, gone>>
        BY <2>0, <2>2 DEF PassOnRow
      <3> QED BY <1>3, <3>1, FinishType DEF TypeOK, PassTypes
    <2>3. CASE e # NotLoaded /\ Behind(i, r, e)
      <3>1. Want(i, by, r, TRUE) /\ module' = [module EXCEPT ![i] = e]
        BY <2>0, <2>3 DEF PassOnRow
      <3>2. UNCHANGED <<files, previous, setup, handler, reload, gone>>
        BY <3>1 DEF Want
      <3>3. module' \in [Instance -> Entry \cup {NotLoaded}]
        BY <2>0, <3>1 DEF TypeOK
      <3>4. pass' \in [Instance -> {NoPass} \cup
                          [stage: {"want", "fetch"}, by: {"task", "reload", "handler"},
                           version: Version, upgrade: BOOLEAN]]
        BY <2>0, <3>1, WantType
      <3> HIDE DEF e
      <3> QED BY <1>3, <3>2, <3>3, <3>4 DEF TypeOK, PassTypes
    <2>4. CASE e # NotLoaded /\ ~Behind(i, r, e)
      <3>1. PassToggles(i, by, r, e)
        BY <2>0, <2>4 DEF PassOnRow
      <3>2. Finish(i, by) /\ UNCHANGED <<files, previous, gone>>
        BY <3>1 DEF PassToggles
      <3>3. e \in Entry BY <2>0, <2>4
      <3> HIDE DEF e
      <3> QED BY <1>3, <2>0, <3>1, <3>2, <3>3, FinishType, TogglesType DEF TypeOK, PassTypes
    <2> QED BY <2>1, <2>2, <2>3, <2>4
  <1> QED BY <1>2, <1>4, <1>5, <1>6

LEMMA PassType ==
    ASSUME TypeOK, NEW i \in Instance, PassActs(i) \/ \E by \in {"task", "reload", "handler"} : Pass(i, by)
    PROVE  TypeOK'
  <1>1. CASE PassActs(i)
    <2>1. read[i] \in [by: {"task", "reload", "handler"}, row: Row \cup {NoRow}]
      BY <1>1 DEF PassActs, TypeOK
    <2>2. PassTypes
      BY <1>1, <2>1, PassOnType DEF PassActs
    <2>3. /\ read' \in [Instance -> {NoRead} \cup [by: {"task", "reload", "handler"}, row: Row \cup {NoRow}]]
          /\ overtaken' \in BOOLEAN /\ asked' = asked
      BY <1>1 DEF PassActs, TypeOK
    <2> QED BY <2>2, <2>3 DEF TypeOK, PassTypes
  <1>2. CASE \E by \in {"task", "reload", "handler"} : Pass(i, by)
    <2>1. row \in Row \cup {NoRow}
      BY DEF TypeOK
    <2>2. PassTypes /\ UNCHANGED <<read, asked, overtaken>>
      BY <1>2, <2>1, PassOnType DEF Pass
    <2> QED BY <2>2 DEF TypeOK, PassTypes
  <1> QED BY <1>1, <1>2

LEMMA HeldUpType ==
    ASSUME TypeOK, NEW i \in Instance, HeldUp(i)
    PROVE  TypeOK'
  <1>1. PICK by \in {"task", "reload", "handler"} : PassReads(i, by)
    BY DEF HeldUp
  <1>2. read' \in [Instance -> {NoRead} \cup [by: {"task", "reload", "handler"}, row: Row \cup {NoRow}]]
    BY <1>1 DEF PassReads, TypeOK
  <1>3. asked' \in Seq(Kinds)
    BY <1>1, AskType DEF PassReads
  <1> QED BY <1>1, <1>2, <1>3 DEF PassReads, TypeOK, shared

LEMMA PassFetchesType ==
    ASSUME TypeOK, NEW i \in Instance, PassFetches(i)
    PROVE  TypeOK'
  <1>0. /\ pass[i] \in [stage: {"want", "fetch"}, by: {"task", "reload", "handler"},
                        version: Version, upgrade: BOOLEAN]
        /\ UNCHANGED <<shared, up, module, setup, events, read, gone, asked, overtaken>>
    BY DEF PassFetches, TypeOK, NoPass
  <1>1. CASE HasFiles(i) /\ ~pass[i].upgrade
    <2>1. Finish(i, pass[i].by) /\ UNCHANGED fetch
      BY <1>1 DEF PassFetches
    <2> QED BY <1>0, <2>1, FinishType DEF TypeOK, shared
  <1>2. CASE ~(HasFiles(i) /\ ~pass[i].upgrade)
    <2> DEFINE t == [version |-> pass[i].version, upgrade |-> pass[i].upgrade, lead |-> FALSE]
               q == [pass[i] EXCEPT !.stage = "fetch"]
    <2>1. /\ fetch' = [fetch EXCEPT ![i] = t]
          /\ pass' = [pass EXCEPT ![i].stage = "fetch"]
          /\ UNCHANGED <<handler, reload>>
      BY <1>2 DEF PassFetches
    <2>2. t \in Task
      BY <1>0 DEF Task
    <2>3. q \in [stage: {"want", "fetch"}, by: {"task", "reload", "handler"},
                version: Version, upgrade: BOOLEAN]
      BY <1>0
    <2>4. pass' = [pass EXCEPT ![i] = q]
      BY <2>1 DEF TypeOK
    <2> HIDE DEF t, q
    <2>5. fetch' \in [Instance -> Task \cup {NoTask}]
      BY <2>1, <2>2 DEF TypeOK
    <2>6. pass' \in [Instance -> {NoPass} \cup
                          [stage: {"want", "fetch"}, by: {"task", "reload", "handler"},
                           version: Version, upgrade: BOOLEAN]]
      BY <2>3, <2>4 DEF TypeOK
    <2> QED BY <1>0, <2>1, <2>5, <2>6 DEF TypeOK, shared
  <1> QED BY <1>1, <1>2

LEMMA FetchStepType ==
    ASSUME TypeOK, NEW i \in Instance, FetchStep(i)
    PROVE  TypeOK'
  <1>0. fetch[i] \in Task /\ Mount[i] \in Disk
    BY ConstantsAssumption DEF FetchStep, FetchEnds, FetchFails, TypeOK
  <1>1. fetch' = [fetch EXCEPT ![i] = NoTask] /\ fetch' \in [Instance -> Task \cup {NoTask}]
    <2>1. fetch' = [fetch EXCEPT ![i] = NoTask]
      BY DEF FetchStep, FetchEnds, FetchFails
    <2>2. fetch \in [Instance -> Task \cup {NoTask}]
      BY DEF TypeOK
    <2> QED BY <2>1, <2>2
  <1>2. /\ pass' \in [Instance -> {NoPass} \cup
                          [stage: {"want", "fetch"}, by: {"task", "reload", "handler"},
                           version: Version, upgrade: BOOLEAN]]
        /\ reload' \in [Instance -> [stage: {"free", "pause", "restore"}, by: {"operator", "handler"}]]
        /\ handler' \in [Instance -> [stage: Stage, lead: BOOLEAN, existing: BOOLEAN]]
    <2>1. CASE fetch[i].lead
      BY <2>1 DEF FetchStep, FetchEnds, FetchFails, TypeOK
    <2>2. CASE ~fetch[i].lead
      <3>1. Finish(i, pass[i].by)
        BY <2>2 DEF FetchStep, FetchEnds, FetchFails
      <3> QED BY <3>1, FinishType
    <2> QED BY <2>1, <2>2
  <1>3. CASE FetchEnds(i)
    <2>1. fetch[i].version \in Version /\ fetch[i].lead \in BOOLEAN
      BY <1>0 DEF Task
    <2>2. files' \in [Disk -> Version \cup {Nothing}] /\ previous' \in [Disk -> Version \cup {Nothing}]
      <3>1. Swap(Mount[i], fetch[i].version)
        BY <1>3 DEF FetchEnds
      <3>2. files \in [Disk -> Version \cup {Nothing}] /\ previous \in [Disk -> Version \cup {Nothing}]
        BY DEF TypeOK
      <3> QED BY <1>0, <2>1, <3>1, <3>2 DEF Swap
    <2>3. events' \in [Instance -> Seq(BOOLEAN)] /\ \A j \in Instance : Len(events'[j]) <= MaxEvents
      <3>1. events' = [events EXCEPT ![i] = Append(events[i], fetch[i].lead)] /\ Len(events[i]) < MaxEvents
        BY <1>3 DEF FetchEnds
      <3>2. events \in [Instance -> Seq(BOOLEAN)] /\ \A j \in Instance : Len(events[j]) <= MaxEvents
        BY DEF TypeOK
      <3> QED BY <2>1, <3>1, <3>2, EventsType
    <2> QED BY <1>1, <1>2, <1>3, <2>2, <2>3 DEF FetchEnds, TypeOK
  <1>4. CASE FetchFails(i)
    <2>1. files' \in [Disk -> Version \cup {Nothing}]
      <3>1. \/ files' = [files EXCEPT ![Mount[i]] = files[Mount[i]]]
            \/ files' = [files EXCEPT ![Mount[i]] = Nothing]
        BY <1>4 DEF FetchFails
      <3>2. files \in [Disk -> Version \cup {Nothing}]
        BY DEF TypeOK
      <3> QED BY <1>0, <3>1, <3>2
    <2>2. asked' \in Seq(Kinds)
      BY <1>4, AskType DEF FetchFails
    <2> QED BY <1>1, <1>2, <1>4, <2>1, <2>2 DEF FetchFails, TypeOK
  <1> QED BY <1>3, <1>4 DEF FetchStep

LEMMA GoneStepType ==
    ASSUME TypeOK, NEW i \in Instance, GoneStep(i)
    PROVE  TypeOK'
  <1>1. CASE GoneUnloads(i)
    BY <1>1, UnloadType DEF GoneUnloads, TypeOK, shared
  <1>2. CASE GoneDeletes(i)
    <2>1. row' \in Row \cup {NoRow} /\ asked' \in Seq(Kinds)
      BY <1>2, AskType DEF GoneDeletes, TypeOK
    <2> QED BY <1>2, <2>1 DEF GoneDeletes, TypeOK
  <1> QED BY <1>1, <1>2 DEF GoneStep

LEMMA BootStepType ==
    ASSUME TypeOK, NEW i \in Instance, BootStep(i)
    PROVE  TypeOK'
  <1>1. CASE Boot(i)
    <2>1. module' \in [Instance -> Entry \cup {NotLoaded}]
      <3>1. \/ HasFiles(i) /\ module' = [module EXCEPT ![i] = Fresh(i)]
            \/ module' = [module EXCEPT ![i] = NotLoaded]
        BY <1>1 DEF Boot
      <3> QED BY <3>1, FreshType DEF TypeOK
    <2> QED BY <1>1, <2>1 DEF Boot, TypeOK, shared, tasks
  <1>2. CASE BootActivates(i)
    <2>1. Activate(i, module[i], setup[i])
      BY <1>2 DEF BootActivates
    <2>2. module[i] \in Entry \cup {NotLoaded} /\ setup[i] \in SUBSET {"own", "orphan"}
      BY DEF TypeOK
    <2>3. /\ row' \in Row \cup {NoRow}
          /\ module' \in [Instance -> Entry \cup {NotLoaded}]
          /\ setup' \in [Instance -> SUBSET {"own", "orphan"}]
      BY <2>1, <2>2, ActivateType
    <2> QED BY <1>2, <2>3 DEF BootActivates, TypeOK
  <1> QED BY <1>1, <1>2 DEF BootStep

LEMMA SetupStepType ==
    ASSUME TypeOK, NEW i \in Instance, SetupStep(i)
    PROVE  TypeOK'
  <1>1. PICK t \in {"own", "orphan"} : SetupEnds(i, t)
    BY DEF SetupStep
  <1>2. PICK s \in {"active", "failed"} :
            /\ IF s = "failed" THEN Ask("setup fails") ELSE UNCHANGED asked
            /\ module' = [module EXCEPT ![i] = IF Loaded(i) THEN [@ EXCEPT !.status = s] ELSE @]
    BY <1>1 DEF SetupEnds
  <1>3. asked' \in Seq(Kinds)
    BY <1>2, AskType DEF TypeOK
  <1>4. module \in [Instance -> Entry \cup {NotLoaded}]
    BY DEF TypeOK
  <1>5. module' \in [Instance -> Entry \cup {NotLoaded}]
    <2>1. CASE Loaded(i)
      <3>1. [module[i] EXCEPT !.status = s] \in Entry
        BY <1>4, <2>1 DEF Loaded, Entry
      <3>2. module' = [module EXCEPT ![i] = [module[i] EXCEPT !.status = s]]
        BY <1>2, <2>1
      <3> QED BY <1>4, <3>1, <3>2
    <2>2. CASE ~Loaded(i)
      BY <1>2, <1>4, <2>2
    <2> QED BY <2>1, <2>2
  <1>6. setup' \in [Instance -> SUBSET {"own", "orphan"}]
    BY <1>1 DEF SetupEnds, TypeOK
  <1> QED BY <1>1, <1>3, <1>5, <1>6 DEF SetupEnds, TypeOK, shared, tasks

LEMMA OperatorStepType ==
    ASSUME TypeOK, NEW i \in Instance, OperatorStep(i)
    PROVE  TypeOK'
  <1>0. asked' \in Seq(Kinds)
    BY AskType DEF OperatorStep, Install, Upgrade, Rollback, OperatorReloads, Uninstall, Toggle
  <1>1. CASE \E v \in Version : Install(i, v) \/ Upgrade(i, v)
    <2>1. PICK v \in Version : Install(i, v) \/ Upgrade(i, v)
      BY <1>1
    <2>2. \E upgrade \in BOOLEAN :
              fetch' = [fetch EXCEPT ![i] = [version |-> v, upgrade |-> upgrade, lead |-> TRUE]]
      BY <2>1 DEF Install, Upgrade
    <2>3. fetch' \in [Instance -> Task \cup {NoTask}]
      <3>1. \A upgrade \in BOOLEAN : [version |-> v, upgrade |-> upgrade, lead |-> TRUE] \in Task
        BY DEF Task
      <3> QED BY <2>2, <3>1 DEF TypeOK
    <2> QED BY <1>0, <2>1, <2>3 DEF Install, Upgrade, TypeOK, shared
  <1>2. CASE Rollback(i)
    <2>1. events' \in [Instance -> Seq(BOOLEAN)] /\ \A j \in Instance : Len(events'[j]) <= MaxEvents
      <3>1. events' = [events EXCEPT ![i] = Append(events[i], TRUE)] /\ Len(events[i]) < MaxEvents
        BY <1>2 DEF Rollback
      <3>2. events \in [Instance -> Seq(BOOLEAN)] /\ \A j \in Instance : Len(events[j]) <= MaxEvents
        BY DEF TypeOK
      <3> QED BY <3>1, <3>2, EventsType
    <2>2. files' \in [Disk -> Version \cup {Nothing}] /\ previous' \in [Disk -> Version \cup {Nothing}]
      BY <1>2, ConstantsAssumption DEF Rollback, TypeOK
    <2> QED BY <1>0, <1>2, <2>1, <2>2 DEF Rollback, TypeOK
  <1>3. CASE OperatorReloads(i)
    <2>1. Unload(i) /\ reload' = [reload EXCEPT ![i] = [stage |-> "pause", by |-> "operator"]]
      BY <1>3 DEF OperatorReloads, StartReload
    <2>2. reload' \in [Instance -> [stage: {"free", "pause", "restore"}, by: {"operator", "handler"}]]
      BY <2>1 DEF TypeOK
    <2> QED BY <1>0, <1>3, <2>1, <2>2, UnloadType DEF OperatorReloads, TypeOK, shared
  <1>4. CASE Uninstall(i)
    <2>1. /\ files' \in [Disk -> Version \cup {Nothing}]
          /\ previous' \in [Disk -> Version \cup {Nothing}]
          /\ gone' \in [Instance -> {"no", "unload", "delete"}]
      BY <1>4 DEF Uninstall, Remove, TypeOK
    <2> QED BY <1>0, <1>4, <2>1 DEF Uninstall, TypeOK
  <1>5. CASE \E active \in BOOLEAN : Toggle(i, active)
    <2>1. PICK active \in BOOLEAN : Toggle(i, active)
      BY <1>5
    <2>2. row' \in Row \cup {NoRow}
      BY <2>1 DEF Toggle, TypeOK, Row
    <2>3. module[i] \in Entry /\ module \in [Instance -> Entry \cup {NotLoaded}]
      BY <2>1 DEF Toggle, TypeOK, Loaded
    <2>4. module' \in [Instance -> Entry \cup {NotLoaded}]
      <3>1. SetUp(module[i]) \in Entry /\ Disable(module[i]) \in Entry
        BY <2>3 DEF SetUp, Disable, Entry
      <3>2. \/ module' = [module EXCEPT ![i] = SetUp(module[i])]
            \/ module' = [module EXCEPT ![i] = Disable(module[i])]
        BY <2>1 DEF Toggle
      <3> QED BY <2>3, <3>1, <3>2
    <2>5. setup' \in [Instance -> SUBSET {"own", "orphan"}]
      <3>1. \/ setup' = [setup EXCEPT ![i] = Started(module[i], setup[i])]
            \/ setup' = [setup EXCEPT ![i] = setup[i]]
        BY <2>1 DEF Toggle
      <3>2. setup \in [Instance -> SUBSET {"own", "orphan"}]
        BY DEF TypeOK
      <3>3. Started(module[i], setup[i]) \in SUBSET {"own", "orphan"}
        BY <3>2 DEF Started
      <3> QED BY <3>1, <3>2, <3>3
    <2> QED BY <1>0, <2>1, <2>2, <2>4, <2>5 DEF Toggle, TypeOK, tasks
  <1> QED BY <1>1, <1>2, <1>3, <1>4, <1>5 DEF OperatorStep

LEMMA CrashType ==
    ASSUME TypeOK, NEW i \in Instance, Crash(i)
    PROVE  TypeOK'
  <1>1. asked' \in Seq(Kinds)
    BY AskType DEF Crash
  <1>2. files' \in [Disk -> Version \cup {Nothing}]
    <2>1. CASE UNCHANGED files
      BY <2>1 DEF TypeOK
    <2>2. CASE ~UNCHANGED files
      <3>1. fetch[i] \in Task
        BY <2>2 DEF Crash, TypeOK
      <3>2. \E v \in {Nothing, fetch[i].version} : files' = [files EXCEPT ![Mount[i]] = v]
        BY <2>2 DEF Crash
      <3>3. fetch[i].version \in Version
        BY <3>1 DEF Task
      <3> QED BY <3>2, <3>3 DEF TypeOK
    <2> QED BY <2>1, <2>2
  <1>3. events' \in [Instance -> Seq(BOOLEAN)] /\ \A j \in Instance : Len(events'[j]) <= MaxEvents
    <2>1. events' = [events EXCEPT ![i] = <<>>]
      BY DEF Crash
    <2>2. events \in [Instance -> Seq(BOOLEAN)] /\ \A j \in Instance : Len(events[j]) <= MaxEvents
      BY DEF TypeOK
    <2>3. <<>> \in Seq(BOOLEAN) /\ Len(<<>>) = 0
      OBVIOUS
    <2> QED BY <2>1, <2>2, <2>3, ConstantsAssumption
  <1>4. handler' \in [Instance -> [stage: Stage, lead: BOOLEAN, existing: BOOLEAN]]
    <2>1. handler' = [handler EXCEPT ![i] = NoHandler]
      BY DEF Crash
    <2>2. NoHandler \in [stage: Stage, lead: BOOLEAN, existing: BOOLEAN]
      BY DEF NoHandler, Stage
    <2> QED BY <2>1, <2>2 DEF TypeOK
  <1>5. reload' \in [Instance -> [stage: {"free", "pause", "restore"}, by: {"operator", "handler"}]]
    <2>1. reload' = [reload EXCEPT ![i] = NoReload]
      BY DEF Crash
    <2> QED BY <2>1 DEF TypeOK, NoReload
  <1>6. /\ pass' \in [Instance -> {NoPass} \cup
                          [stage: {"want", "fetch"}, by: {"task", "reload", "handler"},
                           version: Version, upgrade: BOOLEAN]]
        /\ fetch' \in [Instance -> Task \cup {NoTask}]
    <2>1. pass' = [pass EXCEPT ![i] = NoPass] /\ fetch' = [fetch EXCEPT ![i] = NoTask]
      BY DEF Crash
    <2>2. pass' \in [Instance -> {NoPass} \cup
                        [stage: {"want", "fetch"}, by: {"task", "reload", "handler"},
                         version: Version, upgrade: BOOLEAN]]
      BY <2>1 DEF TypeOK
    <2>3. fetch' \in [Instance -> Task \cup {NoTask}]
      BY <2>1 DEF TypeOK
    <2> QED BY <2>2, <2>3
  <1>7. read' \in [Instance -> {NoRead} \cup [by: {"task", "reload", "handler"}, row: Row \cup {NoRow}]]
    BY DEF Crash, TypeOK
  <1>8. /\ up' \in [Instance -> {"up", "down", "booting"}]
        /\ setup' \in [Instance -> SUBSET {"own", "orphan"}]
        /\ gone' \in [Instance -> {"no", "unload", "delete"}]
    BY DEF Crash, TypeOK
  <1>9. module' \in [Instance -> Entry \cup {NotLoaded}] /\ UNCHANGED <<row, previous, overtaken>>
    BY DEF Crash, TypeOK
  <1> QED BY <1>1, <1>2, <1>3, <1>4, <1>5, <1>6, <1>7, <1>8, <1>9 DEF TypeOK

LEMMA TypeStep == TypeOK /\ [Next]_vars => TypeOK'
  <1> SUFFICES ASSUME TypeOK, [Next]_vars PROVE TypeOK'
    OBVIOUS
  <1>1. ASSUME NEW i \in Instance,
               \/ HandlerStep(i) \/ Reload(i) \/ PassStep(i) \/ HeldUp(i) \/ FetchStep(i) \/ GoneStep(i) \/ BootStep(i)
               \/ SetupStep(i) \/ OperatorStep(i) \/ Crash(i)
        PROVE TypeOK'
    <2>1. CASE PassStep(i)
      BY <2>1, PassType, PassFetchesType DEF PassStep, Awaited
    <2>2. CASE ~PassStep(i)
      BY <1>1, <2>2, HeldUpType, HandlerStepType, ReloadType, FetchStepType, GoneStepType, BootStepType,
         SetupStepType, OperatorStepType, CrashType
    <2> QED BY <2>1, <2>2
  <1>2. CASE UNCHANGED vars
    BY <1>2 DEF vars, shared, tasks, TypeOK
  <1> QED BY <1>1, <1>2 DEF Next

\* Whatever operators do, in whatever order tasks run and instances crash: the
\* row stays well formed, an installation in progress has a version to install,
\* and what is loaded has one.
THEOREM TypeCorrect == Spec => []TypeOK
  BY TypeInit, TypeStep, PTL DEF Spec

-----------------------------------------------------------------------------
(* Who moves installed_version.                                            *)

\* Only a handler that leads records a version before it loads.
LeadRecords == \A i \in Instance : handler[i].stage = "record" => handler[i].lead

VersionInv == TypeOK /\ LeadRecords

LEMMA LeadRecordsInit == Init => LeadRecords
  BY DEF Init, LeadRecords, NoHandler

\* A handler whose stage moves on, but to "record", moves it as it must.
LEMMA LeadRecordsKept ==
    ASSUME TypeOK, LeadRecords, NEW i \in Instance, NEW s, s # "record",
           handler' = [handler EXCEPT ![i].stage = s]
    PROVE  LeadRecords'
  <1>1. handler \in [Instance -> [stage: Stage, lead: BOOLEAN, existing: BOOLEAN]]
    BY DEF TypeOK
  <1>2. ASSUME NEW j \in Instance, handler'[j].stage = "record" PROVE handler'[j].lead
    <2>1. j # i BY <1>1, <1>2
    <2>2. handler'[j] = handler[j] BY <1>1, <2>1
    <2> QED BY <1>2, <2>2 DEF LeadRecords
  <1> QED BY <1>2 DEF LeadRecords

LEMMA LeadRecordsFinish ==
    ASSUME TypeOK, LeadRecords, NEW i \in Instance, NEW by, Finish(i, by)
    PROVE  LeadRecords'
  <1>1. \A s : After(s) # "record"
    BY DEF After
  <1>2. \/ handler' = [handler EXCEPT ![i].stage = After(handler[i].stage)]
        \/ handler' = [handler EXCEPT ![i].stage = handler[i].stage]
    BY DEF Finish
  <1>3. CASE handler' = [handler EXCEPT ![i].stage = After(handler[i].stage)]
    BY <1>1, <1>3, LeadRecordsKept
  <1>4. CASE handler' = [handler EXCEPT ![i].stage = handler[i].stage]
    <2>1. handler' = handler BY <1>4 DEF TypeOK
    <2> QED BY <2>1 DEF LeadRecords
  <1> QED BY <1>2, <1>3, <1>4

LEMMA LeadRecordsStep == VersionInv /\ [Next]_vars => LeadRecords'
  <1> SUFFICES ASSUME TypeOK, LeadRecords, [Next]_vars PROVE LeadRecords'
    BY DEF VersionInv
  <1>0. ASSUME UNCHANGED handler PROVE LeadRecords'
    BY <1>0 DEF LeadRecords
  <1>1. ASSUME NEW i \in Instance, HandlerStep(i) PROVE LeadRecords'
    <2>1. CASE Handle(i)
      <3>1. handler' = [handler EXCEPT ![i] =
                [stage |-> IF Head(events[i]) THEN "record" ELSE "load",
                 lead |-> Head(events[i]), existing |-> Loaded(i)]]
        BY <2>1 DEF Handle
      <3>2. handler \in [Instance -> [stage: Stage, lead: BOOLEAN, existing: BOOLEAN]]
        BY DEF TypeOK
      <3> QED BY <3>1, <3>2 DEF LeadRecords
    <2>2. CASE ~Handle(i)
      <3>1. \E s \in Stage \ {"record"} : handler' = [handler EXCEPT ![i].stage = s]
        BY <1>1, <2>2 DEF HandlerStep, Record, Load, Persist, Restore, Verify, Revert, Stage
      <3> QED BY <3>1, LeadRecordsKept
    <2> QED BY <2>1, <2>2
  <1>2. ASSUME NEW i \in Instance, Reload(i) PROVE LeadRecords'
    <2>1. CASE Loaded(i) \/ ~HasFiles(i)
      <3>1. \/ handler' = [handler EXCEPT ![i].stage = "failed"]
            \/ handler' = [handler EXCEPT ![i].stage = handler[i].stage]
        BY <1>2, <2>1 DEF Reload
      <3>2. CASE handler' = [handler EXCEPT ![i].stage = "failed"]
        BY <3>2, LeadRecordsKept
      <3>3. CASE handler' = [handler EXCEPT ![i].stage = handler[i].stage]
        <4>1. UNCHANGED handler BY <3>3 DEF TypeOK
        <4> QED BY <1>0, <4>1
      <3> QED BY <3>1, <3>2, <3>3
    <2>2. CASE ~Loaded(i) /\ HasFiles(i)
      <3>1. UNCHANGED handler BY <1>2, <2>2 DEF Reload
      <3> QED BY <1>0, <3>1
    <2> QED BY <2>1, <2>2
  <1>3. ASSUME NEW i \in Instance, PassStep(i) \/ HeldUp(i) \/ FetchStep(i) PROVE LeadRecords'
    <2>1. ASSUME NEW by, NEW seen, PassOn(i, by, seen) PROVE Finish(i, by) \/ UNCHANGED handler
      BY <2>1 DEF PassOn, PassOnRow, PassRemoves, PassToggles, Want
    <2>2. (\E by : Finish(i, by)) \/ UNCHANGED handler
      BY <1>3, <2>1 DEF PassStep, Awaited, Pass, PassActs, HeldUp, PassReads, PassFetches,
         FetchStep, FetchEnds, FetchFails
    <2> QED BY <1>0, <2>2, LeadRecordsFinish
  <1>4. ASSUME NEW i \in Instance, GoneStep(i) \/ BootStep(i) \/ SetupStep(i) \/ OperatorStep(i)
        PROVE LeadRecords'
    <2>1. UNCHANGED handler
      BY <1>4 DEF GoneStep, GoneUnloads, GoneDeletes, BootStep, Boot, BootActivates, SetupStep, SetupEnds,
         OperatorStep, Install, Upgrade, Rollback, OperatorReloads, Uninstall, Toggle, tasks
    <2> QED BY <1>0, <2>1
  <1>5. ASSUME NEW i \in Instance, Crash(i) PROVE LeadRecords'
    <2>1. handler' = [handler EXCEPT ![i] = NoHandler]
      BY <1>5 DEF Crash
    <2>2. handler \in [Instance -> [stage: Stage, lead: BOOLEAN, existing: BOOLEAN]]
      BY DEF TypeOK
    <2> QED BY <2>1, <2>2 DEF LeadRecords, NoHandler
  <1>6. CASE UNCHANGED vars
    BY <1>0, <1>6 DEF vars, tasks
  <1> QED BY <1>1, <1>2, <1>3, <1>4, <1>5, <1>6 DEF Next

\* What may move the version: a lead that records, or persists.
Leads(i) ==
    /\ handler[i].lead
    /\ \/ handler[i].stage = "record" /\ row'.version = OnDisk(i)
       \/ /\ handler[i].stage = "persist" /\ Loaded(i) /\ ~module[i].reverted
          /\ row'.version = module[i].version

\* Activations fill a version in, and move none.
LEMMA ActivateKeepsVersion ==
    ASSUME TypeOK, row \in Row, row.version # Nothing,
           NEW i \in Instance, NEW e \in Entry \cup {NotLoaded}, NEW ts, Activate(i, e, ts)
    PROVE  row'.version = row.version
  <1>1. CASE e = NotLoaded
    BY <1>1 DEF Activate
  <1>2. CASE e # NotLoaded
    <2>1. row' = Filled(row, e) /\ row # NoRow
      BY <1>2, ValuesAssumption DEF Activate
    <2>2. row' = [row EXCEPT !.version = row.version, !.repo = TRUE]
      BY <2>1 DEF Filled, Row
    <2> QED BY <2>2 DEF Row
  <1> QED BY <1>1, <1>2

LEMMA VersionStep ==
    ASSUME VersionInv, [Next]_vars, row # NoRow, row' # NoRow, row.version # Nothing,
           row'.version # row.version
    PROVE  \E i \in Instance : Leads(i)
  <1>0. TypeOK /\ LeadRecords /\ row \in Row
    BY DEF VersionInv, TypeOK
  <1>1. ASSUME UNCHANGED row PROVE FALSE
    BY <1>1
  <1>2. ASSUME NEW i \in Instance, NEW e \in Entry \cup {NotLoaded}, NEW ts, Activate(i, e, ts) PROVE FALSE
    BY <1>0, <1>2, ActivateKeepsVersion
  <1>3. ASSUME NEW i \in Instance, HandlerStep(i) PROVE Leads(i)
    <2>1. CASE Handle(i) \/ Load(i) \/ Verify(i)
      BY <1>1, <2>1 DEF Handle, Load, Verify, shared
    <2>2. CASE Record(i)
      <3>1. HasFiles(i) /\ row' = [row EXCEPT !.version = OnDisk(i)]
        BY <1>1, <2>2 DEF Record
      <3>2. row'.version = OnDisk(i)
        BY <1>0, <3>1 DEF Row
      <3> QED BY <1>0, <2>2, <3>2 DEF Leads, Record, LeadRecords
    <2>3. CASE Persist(i)
      <3>1. Loaded(i) /\ row' = Persisted(i, module[i])
        BY <1>1, <2>3 DEF Persist
      <3>2. row'.version = IF handler[i].lead /\ ~module[i].reverted THEN module[i].version ELSE row.version
        BY <3>1 DEF Persisted
      <3> QED BY <2>3, <3>1, <3>2 DEF Leads, Persist
    <2>4. CASE Restore(i)
      <3>1. module[i] \in Entry \cup {NotLoaded} BY <1>0 DEF TypeOK
      <3> QED BY <1>2, <2>4, <3>1 DEF Restore
    <2>5. CASE Revert(i)
      <3>1. previous[Mount[i]] # Nothing
        BY <1>1, <2>5 DEF Revert
      <3> DEFINE e == [version |-> previous[Mount[i]], status |-> "initializing",
                       persisted |-> FALSE, reverted |-> Loaded(i)]
      <3>2. e \in Entry
        BY <1>0, <3>1, ConstantsAssumption DEF TypeOK, Entry, Loaded
      <3>3. Activate(i, e, Orphans(i))
        BY <2>5, <3>1 DEF Revert
      <3> HIDE DEF e
      <3> QED BY <1>2, <3>2, <3>3
    <2> QED BY <1>3, <2>1, <2>2, <2>3, <2>4, <2>5 DEF HandlerStep
  <1>4. ASSUME NEW i \in Instance, Reload(i) PROVE FALSE
    <2>1. ~Loaded(i) /\ HasFiles(i)
      BY <1>1, <1>4 DEF Reload
    <2> QED BY <1>0, <1>2, <1>4, <2>1, FreshType DEF Reload
  <1>5. ASSUME NEW i \in Instance, PassStep(i) \/ HeldUp(i) \/ FetchStep(i) \/ SetupStep(i) \/ Crash(i) PROVE FALSE
    BY <1>1, <1>5 DEF PassStep, Awaited, Pass, PassActs, PassOn, HeldUp, PassReads, PassFetches, FetchStep, FetchEnds, FetchFails,
       SetupStep, SetupEnds, Crash, shared
  <1>6. ASSUME NEW i \in Instance, GoneStep(i) PROVE FALSE
    BY <1>1, <1>6 DEF GoneStep, GoneUnloads, GoneDeletes, shared
  <1>7. ASSUME NEW i \in Instance, BootStep(i) PROVE FALSE
    <2>1. module[i] \in Entry \cup {NotLoaded} BY <1>0 DEF TypeOK
    <2> QED BY <1>1, <1>2, <1>7, <2>1 DEF BootStep, Boot, BootActivates, shared
  <1>8. ASSUME NEW i \in Instance, OperatorStep(i) PROVE FALSE
    <2>1. PICK active \in BOOLEAN : Toggle(i, active)
      BY <1>1, <1>8 DEF OperatorStep, Install, Upgrade, Rollback, OperatorReloads, Uninstall, shared
    <2>2. row' = [row EXCEPT !.active = active]
      BY <2>1 DEF Toggle
    <2> QED BY <1>0, <2>2 DEF Row
  <1>9. ~UNCHANGED vars
    BY <1>1 DEF vars, shared
  <1> QED BY <1>3, <1>4, <1>5, <1>6, <1>7, <1>8, <1>9 DEF Next

\* Whatever the instances do at once, installed_version moves only in the
\* handler of the instance that leads, to what it has on disk or has loaded,
\* never to a version that was put back.
THEOREM VersionLed == Spec => LeadMovesVersion
  <1>1. Init => VersionInv
    BY TypeInit, LeadRecordsInit DEF VersionInv
  <1>2. VersionInv /\ [Next]_vars => VersionInv'
    BY TypeStep, LeadRecordsStep DEF VersionInv
  <1>3. VersionInv /\ [Next]_vars =>
        [row # NoRow /\ row' # NoRow /\ row.version # Nothing /\ row'.version # row.version =>
          \E i \in Instance :
              /\ handler[i].lead
              /\ \/ handler[i].stage = "record" /\ row'.version = OnDisk(i)
                 \/ /\ handler[i].stage = "persist" /\ Loaded(i) /\ ~module[i].reverted
                    /\ row'.version = module[i].version]_vars
    BY VersionStep DEF Leads
  <1> QED BY <1>1, <1>2, <1>3, PTL DEF Spec, LeadMovesVersion

-----------------------------------------------------------------------------
(* Why no row is lost.  A pass takes a plugin without a row for one that   *)
(* was uninstalled if this instance activated it before, and an activation *)
(* never leaves the plugin without a row.                                  *)

KnownHasRow == \A i \in Instance : Known(i) => row # NoRow
NoneGone    == \A i \in Instance : gone[i] = "no"

\* What may take a row away.
MayGo == Asked("uninstall") \/ overtaken

RowInv == TypeOK /\ (~MayGo => KnownHasRow /\ NoneGone)

\* A step that keeps the row, and makes nothing known that has none.
Keeps ==
    /\ row # NoRow => row' # NoRow
    /\ \A i \in Instance : Known(i)' => Known(i) \/ row' # NoRow

LEMMA RowInvInit == Init => RowInv
  <1> SUFFICES ASSUME Init PROVE RowInv
    OBVIOUS
  <1>1. PICK v \in Installed :
            /\ row = IF v = Nothing THEN NoRow ELSE [active |-> TRUE, version |-> v, repo |-> TRUE]
            /\ module = [i \in Instance |-> IF v = Nothing THEN NotLoaded ELSE
                  [version |-> v, status |-> "active", persisted |-> TRUE, reverted |-> FALSE]]
    BY DEF Init
  <1>2. KnownHasRow
    <2>1. CASE v = Nothing
      BY <1>1, <2>1 DEF KnownHasRow, Known, Loaded
    <2>2. CASE v # Nothing
      <3>1. row \in Row
        BY <1>1, <2>2, ConstantsAssumption DEF Row
      <3> QED BY <3>1, ValuesAssumption DEF KnownHasRow
    <2> QED BY <2>1, <2>2
  <1>3. NoneGone
    BY DEF Init, NoneGone
  <1> QED BY <1>2, <1>3, TypeInit DEF RowInv

\* What was asked stays asked.
LEMMA AskedStays ==
    ASSUME TypeOK, NEW kind, Ask(kind)
    PROVE  /\ Asked("uninstall") => Asked("uninstall")'
           /\ kind = "uninstall" => Asked("uninstall")'
  <1>1. asked \in Seq(Kinds) /\ asked' \in Seq(Kinds) /\ asked' = Append(asked, kind)
    BY AskType DEF Ask, TypeOK
  <1>2. /\ Len(asked') = Len(asked) + 1 /\ Len(asked) \in Nat
        /\ asked'[Len(asked) + 1] = kind
        /\ \A n \in 1..Len(asked) : asked'[n] = asked[n]
    BY <1>1
  <1> QED BY <1>2 DEF Asked

LEMMA AskedStep ==
    ASSUME TypeOK, [Next]_vars, Asked("uninstall")
    PROVE  Asked("uninstall")'
  <1>1. UNCHANGED asked \/ \E kind : Ask(kind)
    <2>1. ASSUME NEW i \in Instance,
                 \/ Handle(i) \/ Record(i) \/ Load(i) \/ Persist(i) \/ Restore(i) \/ Revert(i)
                 \/ Reload(i) \/ PassStep(i) \/ BootStep(i) \/ GoneUnloads(i) \/ FetchEnds(i)
          PROVE UNCHANGED asked
      BY <2>1 DEF Handle, Record, Load, Persist, Restore, Revert, Reload,
         PassStep, Awaited, Pass, PassActs, PassFetches, BootStep, Boot, BootActivates, GoneUnloads, FetchEnds
    <2>2. ASSUME NEW i \in Instance, OperatorStep(i) \/ HeldUp(i) \/ Crash(i) \/ FetchFails(i)
          PROVE \E kind : Ask(kind)
      BY <2>2 DEF HeldUp, PassReads, OperatorStep, Install, Upgrade, Rollback, OperatorReloads, Uninstall, Toggle,
         Crash, FetchFails
    <2>3. ASSUME NEW i \in Instance, GoneDeletes(i) \/ SetupStep(i) \/ Verify(i)
          PROVE UNCHANGED asked \/ \E kind : Ask(kind)
      BY <2>3 DEF Verify, GoneDeletes, SetupStep, SetupEnds
    <2>4. CASE UNCHANGED vars
      BY <2>4 DEF vars
    <2> QED BY <2>1, <2>2, <2>3, <2>4 DEF Next, HandlerStep, GoneStep, FetchStep
  <1>2. CASE UNCHANGED asked
    BY <1>2 DEF Asked
  <1> QED BY <1>1, <1>2, AskedStays

LEMMA OvertakenStep ==
    ASSUME TypeOK, [Next]_vars, overtaken
    PROVE  overtaken'
  <1>1. ASSUME NEW i \in Instance, HandlerStep(i) \/ Reload(i) \/ BootStep(i) \/ GoneStep(i) \/ FetchStep(i)
        PROVE overtaken' = overtaken
    BY <1>1 DEF HandlerStep, Handle, Record, Load, Persist, Restore, Verify, Revert, Reload,
       BootStep, Boot, BootActivates, GoneStep, GoneUnloads, GoneDeletes, FetchStep, FetchEnds, FetchFails
  <1>2. ASSUME NEW i \in Instance, PassStep(i) \/ HeldUp(i) \/ OperatorStep(i) \/ Crash(i) \/ SetupStep(i)
        PROVE overtaken' = overtaken \/ overtaken'
    BY <1>2 DEF PassStep, Awaited, Pass, PassActs, PassFetches, HeldUp, PassReads, OperatorStep, Install,
       Upgrade, Rollback, OperatorReloads, Uninstall, Toggle, Crash, SetupStep, SetupEnds
  <1> QED BY <1>1, <1>2 DEF Next, vars

\* An activation of what is loaded leaves a row.
LEMMA ActivateKeeps ==
    ASSUME TypeOK, NEW i \in Instance, NEW e \in Entry \cup {NotLoaded}, NEW ts, Activate(i, e, ts)
    PROVE  Keeps
  <1>1. CASE e = NotLoaded
    <2>1. row' = row /\ module' = [module EXCEPT ![i] = NotLoaded]
      BY <1>1 DEF Activate
    <2>2. module \in [Instance -> Entry \cup {NotLoaded}]
      BY DEF TypeOK
    <2> QED BY <2>1, <2>2 DEF Keeps, Known, Loaded
  <1>2. CASE e # NotLoaded
    <2>1. row' = Filled(row, e)
      BY <1>2 DEF Activate
    <2>2. e \in Entry /\ row \in Row \cup {NoRow}
      BY <1>2 DEF TypeOK
    <2>3. Filled(row, e) \in Row
      BY <2>2, ConstantsAssumption DEF Filled, Row, Entry
    <2>4. row' # NoRow BY <2>1, <2>3, ValuesAssumption
    <2> QED BY <2>4 DEF Keeps
  <1> QED BY <1>1, <1>2

\* A row that is kept, with an entry that was known or is not yet.
LEMMA EntryKeeps ==
    ASSUME TypeOK, NEW i \in Instance, row # NoRow => row' # NoRow,
           NEW e \in Entry \cup {NotLoaded}, module' = [module EXCEPT ![i] = e],
           e = NotLoaded \/ ~e.persisted \/ (Loaded(i) /\ e.persisted = module[i].persisted) \/ row' # NoRow
    PROVE  Keeps
  <1>1. module \in [Instance -> Entry \cup {NotLoaded}]
    BY DEF TypeOK
  <1>2. ASSUME NEW j \in Instance, Known(j)', row' = NoRow PROVE Known(j)
    <2>1. CASE j = i
      BY <1>1, <1>2, <2>1 DEF Known, Loaded
    <2>2. CASE j # i
      BY <1>1, <1>2, <2>2 DEF Known, Loaded
    <2> QED BY <2>1, <2>2
  <1> QED BY <1>2 DEF Keeps

LEMMA UnloadKeeps ==
    ASSUME TypeOK, NEW i \in Instance, row' = row, Unload(i)
    PROVE  Keeps
  BY EntryKeeps DEF Unload

LEMMA SameKeeps ==
    ASSUME row # NoRow => row' # NoRow, module' = module
    PROVE  Keeps
  BY DEF Keeps, Known, Loaded

LEMMA HandlerKeeps ==
    ASSUME TypeOK, NEW i \in Instance, HandlerStep(i)
    PROVE  Keeps
  <1>1. CASE Handle(i) \/ Verify(i)
    BY <1>1, SameKeeps DEF Handle, Verify, shared
  <1>2. CASE Record(i)
    <2>1. row \in Row => [row EXCEPT !.version = OnDisk(i)] # NoRow
      <3>1. CASE HasFiles(i)
        <4>1. OnDisk(i) \in Version \cup {Nothing}
          BY ConstantsAssumption DEF OnDisk, TypeOK
        <4> QED BY <4>1, ValuesAssumption DEF Row
      <3>2. CASE ~HasFiles(i)
        BY <3>2, ValuesAssumption DEF HasFiles, Row
      <3> QED BY <3>1, <3>2
    <2>2. row # NoRow => row' # NoRow
      BY <1>2, <2>1 DEF Record, TypeOK
    <2> QED BY <1>2, <2>2, SameKeeps DEF Record
  <1>3. CASE Load(i)
    <2>1. CASE Loaded(i)
      <3>1. Unload(i) /\ row' = row
        BY <1>3, <2>1 DEF Load, StartReload, shared
      <3> QED BY <3>1, UnloadKeeps
    <2>2. CASE ~Loaded(i)
      <3>1. row' = row
        BY <1>3 DEF Load, shared
      <3>2. \/ HasFiles(i) /\ module' = [module EXCEPT ![i] = Fresh(i)]
            \/ module' = [module EXCEPT ![i] = module[i]]
        BY <1>3, <2>2 DEF Load
      <3>3. CASE HasFiles(i) /\ module' = [module EXCEPT ![i] = Fresh(i)]
        <4>1. Fresh(i) \in Entry /\ ~Fresh(i).persisted
          BY <3>3, FreshType DEF Fresh
        <4> QED BY <3>1, <3>3, <4>1, EntryKeeps
      <3>4. CASE module' = [module EXCEPT ![i] = module[i]]
        <4>1. module' = module BY <3>4 DEF TypeOK
        <4> QED BY <3>1, <4>1, SameKeeps
      <3> QED BY <3>2, <3>3, <3>4
    <2> QED BY <2>1, <2>2
  <1>4. CASE Persist(i)
    <2>1. CASE Loaded(i)
      <3>1. module[i] \in Entry
        BY <2>1 DEF Loaded, TypeOK
      <3>2. Persisted(i, module[i]) \in Row
        BY <3>1 DEF Persisted, TypeOK, Row, Entry
      <3>3. row' # NoRow
        BY <1>4, <2>1, <3>2, ValuesAssumption DEF Persist
      <3> QED BY <3>3 DEF Keeps
    <2>2. CASE ~Loaded(i)
      BY <1>4, <2>2, SameKeeps DEF Persist
    <2> QED BY <2>1, <2>2
  <1>5. CASE Restore(i)
    <2>1. module[i] \in Entry \cup {NotLoaded} BY DEF TypeOK
    <2> QED BY <1>5, <2>1, ActivateKeeps DEF Restore
  <1>6. CASE Revert(i)
    <2>1. CASE previous[Mount[i]] = Nothing
      BY <1>6, <2>1, SameKeeps DEF Revert
    <2>2. CASE previous[Mount[i]] # Nothing
      <3> DEFINE e == [version |-> previous[Mount[i]], status |-> "initializing",
                       persisted |-> FALSE, reverted |-> Loaded(i)]
      <3>1. e \in Entry
        BY <2>2, ConstantsAssumption DEF TypeOK, Entry, Loaded
      <3>2. Activate(i, e, Orphans(i))
        BY <1>6, <2>2 DEF Revert
      <3> HIDE DEF e
      <3> QED BY <3>1, <3>2, ActivateKeeps
    <2> QED BY <2>1, <2>2
  <1> QED BY <1>1, <1>2, <1>3, <1>4, <1>5, <1>6 DEF HandlerStep

\* A pass that finds a row leaves the entry as known as it was.
LEMMA PassOnRowKeeps ==
    ASSUME TypeOK, NEW i \in Instance, NEW by, NEW r, PassOnRow(i, by, r), row' = row
    PROVE  Keeps /\ gone' = gone
  <1> DEFINE e == Found(i)
  <1>1. /\ e \in Entry \cup {NotLoaded}
        /\ e = NotLoaded \/ ~e.persisted \/ (Loaded(i) /\ e.persisted = module[i].persisted)
    BY FoundType DEF Found, Fresh
  <1>2. gone' = gone
    BY DEF PassOnRow, Want, PassToggles
  <1>3. CASE e = NotLoaded
    <2>1. module' = module
      BY <1>3 DEF PassOnRow
    <2> QED BY <1>2, <2>1, SameKeeps
  <1>4. CASE e # NotLoaded /\ Behind(i, r, e)
    <2>1. module' = [module EXCEPT ![i] = e]
      BY <1>4 DEF PassOnRow
    <2> HIDE DEF e
    <2> QED BY <1>1, <1>2, <2>1, EntryKeeps
  <1>5. CASE e # NotLoaded /\ ~Behind(i, r, e)
    <2>1. PassToggles(i, by, r, e) /\ e \in Entry
      BY <1>1, <1>5 DEF PassOnRow
    <2> HIDE DEF e
    <2>2. \E x \in Entry : module' = [module EXCEPT ![i] = x] /\ x.persisted = e.persisted
      <3>1. /\ SetUp(e) \in Entry /\ SetUp(e).persisted = e.persisted
            /\ Disable(e) \in Entry /\ Disable(e).persisted = e.persisted
        BY <2>1 DEF SetUp, Disable, Entry
      <3> QED BY <2>1, <3>1 DEF PassToggles
    <2> QED BY <1>1, <1>2, <1>5, <2>2, EntryKeeps
  <1> QED BY <1>3, <1>4, <1>5

\* A pass removes nothing that has a row, unless it was overtaken.
LEMMA PassKeeps ==
    ASSUME TypeOK, KnownHasRow, NEW i \in Instance,
           (PassActs(i) /\ ~overtaken') \/ \E by : Pass(i, by)
    PROVE  Keeps /\ gone' = gone
  <1>1. PICK by, r : PassOn(i, by, r) /\ (r = NoRow => ~Known(i))
    <2>1. CASE PassActs(i) /\ ~overtaken'
      BY <2>1 DEF PassActs, KnownHasRow
    <2>2. CASE \E by : Pass(i, by)
      BY <2>2 DEF Pass, KnownHasRow
    <2> QED BY <2>1, <2>2
  <1>2. row' = row
    BY <1>1 DEF PassOn
  <1>3. CASE r = NoRow
    BY <1>1, <1>2, <1>3, SameKeeps DEF PassOn
  <1>4. CASE r # NoRow
    BY <1>1, <1>2, <1>4, PassOnRowKeeps DEF PassOn
  <1> QED BY <1>3, <1>4

LEMMA OperatorKeeps ==
    ASSUME TypeOK, NEW i \in Instance, OperatorStep(i)
    PROVE  Keeps /\ (~Asked("uninstall")' => gone' = gone)
  <1>1. CASE (\E v \in Version : Install(i, v) \/ Upgrade(i, v)) \/ Rollback(i)
    BY <1>1, SameKeeps DEF Install, Upgrade, Rollback, shared
  <1>2. CASE OperatorReloads(i)
    BY <1>2, UnloadKeeps DEF OperatorReloads, StartReload, shared
  <1>3. CASE Uninstall(i)
    BY <1>3, SameKeeps, AskedStays DEF Uninstall
  <1>4. CASE \E active \in BOOLEAN : Toggle(i, active)
    <2>1. PICK active \in BOOLEAN : Toggle(i, active)
      BY <1>4
    <2>2. row' \in Row
      BY <2>1 DEF Toggle, TypeOK, Row
    <2> QED BY <2>1, <2>2, ValuesAssumption DEF Keeps, Toggle, tasks
  <1> QED BY <1>1, <1>2, <1>3, <1>4 DEF OperatorStep

LEMMA RestKeeps ==
    ASSUME TypeOK, NEW i \in Instance,
           \/ Reload(i) \/ PassFetches(i) \/ HeldUp(i) \/ FetchStep(i) \/ BootStep(i)
           \/ SetupStep(i) \/ Crash(i)
    PROVE  Keeps
  <1>1. CASE Reload(i)
    <2>1. CASE Loaded(i) \/ ~HasFiles(i)
      BY <1>1, <2>1, SameKeeps DEF Reload
    <2>2. CASE ~Loaded(i) /\ HasFiles(i)
      BY <1>1, <2>2, FreshType, ActivateKeeps DEF Reload
    <2> QED BY <2>1, <2>2
  <1>2. CASE PassFetches(i) \/ HeldUp(i) \/ FetchStep(i)
    BY <1>2, SameKeeps DEF PassFetches, HeldUp, PassReads, FetchStep, FetchEnds, FetchFails, shared
  <1>3. CASE Boot(i)
    <2>1. row' = row BY <1>3 DEF Boot, shared
    <2>2. \/ HasFiles(i) /\ module' = [module EXCEPT ![i] = Fresh(i)]
          \/ module' = [module EXCEPT ![i] = NotLoaded]
      BY <1>3 DEF Boot
    <2>3. HasFiles(i) => Fresh(i) \in Entry /\ ~Fresh(i).persisted
      BY FreshType DEF Fresh
    <2> QED BY <2>1, <2>2, <2>3, EntryKeeps
  <1>4. CASE BootActivates(i)
    <2>1. module[i] \in Entry \cup {NotLoaded} BY DEF TypeOK
    <2> QED BY <1>4, <2>1, ActivateKeeps DEF BootActivates
  <1>5. CASE SetupStep(i)
    <2>1. row' = row BY <1>5 DEF SetupStep, SetupEnds, shared
    <2>2. PICK s \in {"active", "failed"} :
              module' = [module EXCEPT ![i] = IF Loaded(i) THEN [@ EXCEPT !.status = s] ELSE @]
      BY <1>5 DEF SetupStep, SetupEnds
    <2>3. CASE Loaded(i)
      <3> DEFINE e == [module[i] EXCEPT !.status = s]
      <3>1. module[i] \in Entry
        BY <2>3 DEF Loaded, TypeOK
      <3>2. e \in Entry /\ e.persisted = module[i].persisted
        BY <3>1 DEF Entry
      <3>3. module' = [module EXCEPT ![i] = e]
        BY <2>2, <2>3
      <3> HIDE DEF e
      <3> QED BY <2>1, <2>3, <3>2, <3>3, EntryKeeps
    <2>4. CASE ~Loaded(i)
      <3>1. module' = module BY <2>2, <2>4 DEF TypeOK
      <3> QED BY <2>1, <3>1, SameKeeps
    <2> QED BY <2>3, <2>4
  <1>6. CASE Crash(i)
    BY <1>6, EntryKeeps DEF Crash
  <1> QED BY <1>1, <1>2, <1>3, <1>4, <1>5, <1>6 DEF BootStep

LEMMA KeepsStep ==
    ASSUME RowInv, [Next]_vars, ~MayGo'
    PROVE  Keeps /\ NoneGone'
  <1>1. TypeOK /\ KnownHasRow /\ NoneGone
    BY AskedStep, OvertakenStep DEF RowInv, MayGo
  <1>2. SUFFICES Keeps /\ (gone' = gone \/ \E i \in Instance : gone' = [gone EXCEPT ![i] = "no"])
    BY <1>1 DEF NoneGone, TypeOK
  <1>3. ASSUME NEW i \in Instance,
               \/ HandlerStep(i) \/ Reload(i) \/ PassStep(i) \/ HeldUp(i) \/ FetchStep(i) \/ GoneStep(i) \/ BootStep(i)
               \/ SetupStep(i) \/ OperatorStep(i) \/ Crash(i)
        PROVE Keeps /\ (gone' = gone \/ gone' = [gone EXCEPT ![i] = "no"])
    <2>1. CASE HandlerStep(i)
      <3>1. gone' = gone
        BY <2>1 DEF HandlerStep, Handle, Record, Load, Persist, Restore, Verify, Revert
      <3> QED BY <1>1, <2>1, <3>1, HandlerKeeps
    <2>2. CASE PassActs(i) \/ \E by : Pass(i, by)
      BY <1>1, <2>2, PassKeeps DEF MayGo
    <2>3. CASE GoneStep(i)
      BY <1>1, <2>3 DEF GoneStep, GoneUnloads, GoneDeletes, NoneGone
    <2>4. CASE OperatorStep(i)
      BY <1>1, <2>4, OperatorKeeps DEF MayGo
    <2>5. CASE \/ Reload(i) \/ PassFetches(i) \/ HeldUp(i) \/ FetchStep(i) \/ BootStep(i)
                \/ SetupStep(i) \/ Crash(i)
      <3>1. gone' = gone \/ gone' = [gone EXCEPT ![i] = "no"]
        BY <2>5 DEF Reload, HeldUp, PassReads, PassFetches, FetchStep, FetchEnds, FetchFails, BootStep, Boot, BootActivates,
           SetupStep, SetupEnds, Crash, tasks
      <3> QED BY <1>1, <2>5, <3>1, RestKeeps
    <2> QED BY <1>3, <2>1, <2>2, <2>3, <2>4, <2>5 DEF PassStep, Awaited
  <1>4. CASE UNCHANGED vars
    BY <1>4, SameKeeps DEF vars, shared, tasks
  <1> QED BY <1>3, <1>4 DEF Next

LEMMA RowInvStep == RowInv /\ [Next]_vars => RowInv'
  <1> SUFFICES ASSUME RowInv, [Next]_vars PROVE RowInv'
    OBVIOUS
  <1>1. TypeOK'
    BY TypeStep DEF RowInv
  <1>2. ASSUME ~MayGo' PROVE KnownHasRow' /\ NoneGone'
    <2>1. Keeps /\ NoneGone'
      BY <1>2, KeepsStep
    <2>2. KnownHasRow
      BY <1>2, AskedStep, OvertakenStep DEF RowInv, MayGo
    <2> QED BY <2>1, <2>2 DEF Keeps, KnownHasRow
  <1> QED BY <1>1, <1>2 DEF RowInv

\* However installations, upgrades, reverts, restarts, crashes and passes mix,
\* and however long a pass is held up: no row goes unless an operator asked for
\* an uninstallation, or a pass that read before the row was there came to the
\* plugin after it was.
THEOREM NoRowLost == Spec => NothingLost
  <1>1. RowInv /\ [Next]_vars => RowInv'
    BY RowInvStep
  <1>2. RowInv /\ [Next]_vars => [~Asked("uninstall")' /\ ~overtaken' => (row # NoRow => row' # NoRow)]_vars
    BY KeepsStep DEF Keeps, MayGo
  <1> QED BY <1>1, <1>2, RowInvInit, PTL DEF Spec, NothingLost
=============================================================================

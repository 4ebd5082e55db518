---------------------------- MODULE VaultDocument ----------------------------
(***************************************************************************)
(* One secret of the Vault that several instances read, change and write   *)
(* as a whole: the system settings (core/settings), the settings or the    *)
(* secrets of a plugin, or the tokens of repositories; and the values that *)
(* instances keep in memory.  A failed read looks like an empty secret.    *)
(*                                                                         *)
(* A writer saves once, and its number is the value it saves; 0 is the     *)
(* default, and in the secret a field that is not there.                   *)
(***************************************************************************)
EXTENDS Integers

CONSTANTS
    Writer,   \* the calls that save, a set of positive numbers
    HomeOf,   \* the instance a writer is on
    DocField, \* the fields of the secret
    Editable, \* EDITABLE_SETTINGS: the settings that are hydrated
    Locked,   \* the settings an instance has in its environment
    Unasked,  \* settings saved without asking for the environment: the theme
    Odd,      \* values of a field that pydantic accepts and coerce() refuses
    Sealed,   \* the instances whose Vault is still to be opened
    Updates,  \* what a save may be about: sets of fields it gives and removes
    Faults    \* bound on the reads that fail

ASSUME UpdatesAssumption ==
    /\ Updates \subseteq [gives : SUBSET DocField, drops : SUBSET DocField]
    /\ \A u \in Updates : u.gives \cup u.drops # {} /\ u.gives \cap u.drops = {}
    /\ Editable \subseteq DocField /\ Unasked \subseteq DocField
    /\ Faults \in Nat

Nodes == {HomeOf[w] : w \in Writer}
Opened == 0  \* vault:opened, the cause of a hydration besides the saves

VARIABLES
    docKind,  \* "settings", "plugin" settings, plugin "secrets" or "tokens"
    doc,      \* the secret
    inMemory, \* what an instance keeps of it
    save,     \* a writer: its stage, what it saw, sets and removes
    hydrate,  \* of an instance, for each cause: its stage and what it read
    faults,   \* reads that failed
    given,    \* what was last saved of a field
    blurred,  \* fields of the secret that a save put back without knowing better
    excused   \* fields an instance's memory was set by two at a time, or not set

vaultVars == <<docKind, doc, inMemory, save, hydrate, faults, given, blurred, excused>>

Nothing     == [f \in DocField |-> 0]
NoHydration == [stage |-> "none", saw |-> Nothing, late |-> FALSE]
Hydrated    == [NoHydration EXCEPT !.stage = "done"]
NoSave      == [stage |-> "none", saw |-> Nothing, gives |-> {}, drops |-> {}, blind |-> FALSE, late |-> FALSE]
Saved       == [NoSave EXCEPT !.stage = "done"]

VaultInit ==
    /\ docKind \in {"settings", "plugin", "secrets", "tokens"}
    /\ doc = Nothing
    /\ inMemory = [i \in Nodes |-> Nothing]
    /\ \E few \in SUBSET Writer : save = [w \in Writer |-> IF w \in few THEN NoSave ELSE Saved]
    /\ hydrate = [i \in Nodes |-> [c \in Writer \cup {Opened} |->
           IF c = Opened /\ i \notin Sealed THEN Hydrated ELSE NoHydration]]
    /\ faults = 0 /\ given = Nothing /\ blurred = {} /\ excused = {}

\* Saves of one instance exclude each other: by the lock of the secret, or as
\* they do not leave the event loop.
Busy(i)      == \E w \in Writer : HomeOf[w] = i /\ save[w].stage \in {"read", "wrote"}
TakesLock(w) == ~Busy(HomeOf[w])

\* Who is told of a save.  Before it, a wrong variant.
ToldOnlyHere(w) == IF docKind = "plugin" THEN {HomeOf[w]} ELSE {}
Told(w) ==
    CASE docKind = "settings" -> Nodes \ {HomeOf[w]}
      [] docKind = "plugin"   -> Nodes
      [] OTHER                -> {}

\* Who is about to set the memory of instance i, with what may be older now.
Outrun(i) ==
    [w \in Writer |-> IF HomeOf[w] = i /\ save[w].stage = "wrote" THEN [save[w] EXCEPT !.late = TRUE] ELSE save[w]]
OutrunBy(i, told) ==
    [told EXCEPT ![i] = [c \in DOMAIN told[i] |->
        IF told[i][c].stage = "read" THEN [told[i][c] EXCEPT !.late = TRUE] ELSE told[i][c]]]

-----------------------------------------------------------------------------
(* A save reads the secret and writes it with its changes.                 *)

SaveReads(w, update, blind) ==
    /\ save[w].stage = "none" /\ TakesLock(w)
    /\ blind => faults < Faults
    /\ faults' = IF blind THEN faults + 1 ELSE faults
    /\ save' = [save EXCEPT ![w] = [stage |-> "read", saw |-> IF blind THEN Nothing ELSE doc,
           gives |-> update.gives, drops |-> update.drops, blind |-> blind, late |-> FALSE]]
    /\ UNCHANGED <<docKind, doc, inMemory, hydrate, given, blurred, excused>>

\* Settings of the environment are refused, where the caller asks for it.
Unlocked(i, fields) == \A f \in fields \ Unasked : <<i, f>> \notin Locked

ChangeConfig(w, update, blind) ==
    docKind = "settings" /\ Unlocked(HomeOf[w], update.gives) /\ SaveReads(w, update, blind)

\* A form has every field of the schema; secrets left blank keep what was read.
UpdatePluginSettings(w, update, blind) == docKind = "plugin" /\ SaveReads(w, update, blind)

SetSecret(w, update, blind) == docKind = "secrets" /\ update.drops = {} /\ SaveReads(w, update, blind)

SetToken(w, update, blind) == docKind = "tokens" /\ SaveReads(w, update, blind)

SaveWrites(w) ==
    /\ save[w].stage = "read"
    /\ LET known  == save[w].gives \cup save[w].drops
           rest   == DocField \ known
           unsure == save[w].blind \/ save[w].late
           value(f, kept) == IF f \in save[w].gives THEN w ELSE IF f \in save[w].drops THEN 0 ELSE kept[f]
       IN  /\ doc' = [f \in DocField |-> value(f, save[w].saw)]
           /\ given' = [f \in DocField |-> value(f, given)]
           /\ blurred' = IF unsure THEN rest ELSE blurred \ known
           /\ excused' = IF unsure /\ docKind = "settings" THEN excused \cup ({HomeOf[w]} \X rest) ELSE excused
           /\ hydrate' = IF unsure /\ docKind = "settings" THEN OutrunBy(HomeOf[w], hydrate) ELSE hydrate
    /\ save' = [v \in Writer |->
           IF v = w THEN [save[w] EXCEPT !.stage = "wrote", !.saw = Nothing, !.late = FALSE, !.blind = FALSE]
           ELSE IF save[v].stage = "read" /\ HomeOf[v] # HomeOf[w] THEN [save[v] EXCEPT !.late = TRUE]
           ELSE save[v]]
    /\ UNCHANGED <<docKind, faults, inMemory>>

SaveFails(w) ==
    /\ save[w].stage = "read"
    /\ save' = [save EXCEPT ![w] = Saved]
    /\ UNCHANGED <<docKind, faults, doc, inMemory, hydrate, given, blurred, excused>>

Tells(w) == [j \in Nodes |-> IF j \in Told(w) THEN [hydrate[j] EXCEPT ![w].stage = "told"] ELSE hydrate[j]]

\* The values are applied here, then the others are told.
SaveApplies(w) ==
    /\ docKind = "settings" /\ save[w].stage = "wrote"
    /\ save' = [save EXCEPT ![w] = Saved]
    /\ LET i == HomeOf[w]
       IN  /\ inMemory' = [inMemory EXCEPT ![i] = [f \in DocField |-> IF f \in save[w].gives THEN w ELSE @[f]]]
           /\ hydrate' = OutrunBy(i, Tells(w))
           /\ excused' = IF save[w].late THEN excused \cup ({i} \X save[w].gives)
                         ELSE excused \ ({i} \X save[w].gives)
    /\ UNCHANGED <<docKind, faults, doc, given, blurred>>

SaveAnswers(w) ==
    /\ docKind # "settings" /\ save[w].stage = "wrote"
    /\ save' = [save EXCEPT ![w] = Saved]
    /\ hydrate' = Tells(w)
    /\ UNCHANGED <<docKind, faults, doc, inMemory, given, blurred, excused>>

-----------------------------------------------------------------------------
(* hydrate_from_vault(), and a plugin that reads its settings again.       *)

VaultOpens(i) ==
    /\ docKind = "settings" /\ hydrate[i][Opened].stage = "none"
    /\ hydrate' = [hydrate EXCEPT ![i][Opened].stage = "told"]
    /\ UNCHANGED <<docKind, faults, doc, inMemory, save, given, blurred, excused>>

HydrateReads(i, c) ==
    /\ docKind = "settings" /\ hydrate[i][c].stage = "told"
    /\ hydrate' = [hydrate EXCEPT ![i][c] = [stage |-> "read", saw |-> doc, late |-> FALSE]]
    /\ UNCHANGED <<docKind, faults, doc, inMemory, save, given, blurred, excused>>

\* To a plugin, too, a failed read looks like no settings.
PluginReads(i, c, blind) ==
    /\ docKind = "plugin" /\ hydrate[i][c].stage = "told"
    /\ blind => faults < Faults
    /\ faults' = IF blind THEN faults + 1 ELSE faults
    /\ hydrate' = [hydrate EXCEPT ![i][c] =
           [stage |-> "read", saw |-> IF blind THEN Nothing ELSE doc, late |-> blind]]
    /\ UNCHANGED <<docKind, doc, inMemory, save, given, blurred, excused>>

HydrateFails(i, c) ==
    /\ docKind = "settings" /\ hydrate[i][c].stage = "told"
    /\ faults < Faults /\ faults' = faults + 1
    /\ hydrate' = OutrunBy(i, [hydrate EXCEPT ![i][c] = Hydrated])
    /\ save' = Outrun(i)
    /\ excused' = excused \cup ({i} \X DocField)
    /\ UNCHANGED <<docKind, doc, inMemory, given, blurred>>

Sets(i, c, set) ==
    /\ hydrate[i][c].stage = "read"
    /\ inMemory' = [inMemory EXCEPT ![i] = [f \in DocField |-> IF f \in set THEN hydrate[i][c].saw[f] ELSE @[f]]]
    /\ excused' = IF hydrate[i][c].late THEN excused \cup ({i} \X set) ELSE excused \ ({i} \X set)
    /\ hydrate' = OutrunBy(i, [hydrate EXCEPT ![i][c] = Hydrated])
    /\ save' = Outrun(i)
    /\ UNCHANGED <<docKind, faults, doc, given, blurred>>

\* Settings that are left as they are.
NotInSecret(value) == value = 0

Skips(i, f, value) ==
    NotInSecret(value) \/ f \notin Editable \/ <<i, f>> \in Locked \/ <<value, f>> \in Odd

HydrateSets(i, c) ==
    docKind = "settings" /\ Sets(i, c, {f \in DocField : ~Skips(i, f, hydrate[i][c].saw[f])})

PluginSets(i, c) == docKind = "plugin" /\ Sets(i, c, DocField)

VaultNext ==
    \/ \E w \in Writer :
          \/ \E update \in Updates, blind \in BOOLEAN :
                \/ ChangeConfig(w, update, blind) \/ UpdatePluginSettings(w, update, blind)
                \/ SetSecret(w, update, blind) \/ SetToken(w, update, blind)
          \/ SaveWrites(w) \/ SaveFails(w) \/ SaveApplies(w) \/ SaveAnswers(w)
    \/ \E i \in Nodes : VaultOpens(i) \/ \E c \in Writer \cup {Opened} :
          \/ HydrateReads(i, c) \/ HydrateFails(i, c) \/ HydrateSets(i, c)
          \/ PluginSets(i, c) \/ \E blind \in BOOLEAN : PluginReads(i, c, blind)

VaultSpec == VaultInit /\ [][VaultNext]_vaultVars

-----------------------------------------------------------------------------
Contents  == [DocField -> Writer \cup {0}]
Hydration == [stage : {"none", "told", "read", "done"}, saw : Contents, late : BOOLEAN]
Save      == [stage : {"none", "read", "wrote", "done"}, saw : Contents,
              gives : SUBSET DocField, drops : SUBSET DocField, blind : BOOLEAN, late : BOOLEAN]

VaultTypeOK ==
    /\ doc \in Contents
    /\ docKind \in {"settings", "plugin", "secrets", "tokens"}
    /\ inMemory \in [Nodes -> Contents]
    /\ save \in [Writer -> Save]
    /\ hydrate \in [Nodes -> [Writer \cup {Opened} -> Hydration]]
    /\ given \in Contents /\ faults \in 0..Faults
    /\ blurred \subseteq DocField /\ excused \subseteq Nodes \X DocField

AllQuiet ==
    /\ \A w \in Writer : save[w].stage \in {"none", "done"}
    /\ \A i \in Nodes, c \in Writer \cup {Opened} : hydrate[i][c].stage \in {"none", "done"}

\* config.py:473, "env vars always win": a setting of the environment keeps its
\* value whatever is saved here or elsewhere, the theme excepted.
EnvironmentWins ==
    docKind = "settings" => \A i \in Nodes, f \in DocField \ Unasked :
        <<i, f>> \in Locked => inMemory[i][f] = 0

\* A save leaves the fields it is not about as they are, unless it read nothing
\* or another instance saved in between.  Once nobody saves, hydrates or is to be
\* told, an instance has in its memory what is in the secret; left out are fields
\* that two set at a time or that could not be read, and settings the instance
\* does not take from the secret.
SettingsSettle ==
    /\ \A f \in DocField \ blurred : doc[f] = given[f]
    /\ EnvironmentWins
    /\ AllQuiet /\ docKind \in {"settings", "plugin"} =>
           \A i \in Nodes, f \in DocField :
               \/ inMemory[i][f] = doc[f]
               \/ <<i, f>> \in excused
               \/ docKind = "settings" /\ Skips(i, f, doc[f])
=============================================================================

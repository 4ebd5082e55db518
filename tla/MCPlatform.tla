------------------------------ MODULE MCPlatform ------------------------------
(* What the instances share, table by table, with constants for TLC: a     *)
(* behaviour picks one part and takes the steps of that one only.          *)
EXTENDS KeyValue, LogStore, Accounts, Rights, Grants, Sessions, SignOn, VaultDocument,
        Maintenance, RollingRestart

CONSTANTS i1, i2
CONSTANTS c1, c2, c3

Instances == {i1, i2}
Calls == {c1, c2, c3}
One == {1}
Two == {1, 2}
Three == {1, 2, 3}

People == {[provider |-> "ldap", name |-> "ann", mail |-> "m", verified |-> TRUE, groups |-> {"g"}],
           [provider |-> "local", name |-> "admin", mail |-> "", verified |-> FALSE, groups |-> {}]}

\* A save sets a field or removes one; the first two writers are on one instance.
\* Field b is not editable, c and the theme d are in the environment of instance
\* 2, and the value of the third writer for a is one that coerce() refuses.
Homes  == <<1, 1, 2>>
Fields == {"a", "b", "c", "d"}
Edits  == {"a", "c", "d"}
Theme  == {"d"}
Env    == {<<2, "c">>, <<2, "d">>}
Refuse == {<<3, "a">>}
Saves  == {[gives |-> {f}, drops |-> {}] : f \in Fields} \cup {[gives |-> {}, drops |-> {"a"}]}

\* Schedules. The parser reads the weekday field of Sundays, 0-7, otherwise than
\* cron; Payday has a day of the month and a weekday.
Nightly  == [type |-> "weekly", days |-> {0, 3}, start |-> 2, end |-> 1]
Noon     == [type |-> "weekly", days |-> {1, 3}, start |-> 1, end |-> 2]
Rollout  == [type |-> "once", start |-> 4, end |-> 8]
Field(kind, a, b) == [kind |-> kind, a |-> a, b |-> b, step |-> 0]
Weekend  == [type |-> "cron", weekdays |-> Field("range", 5, 7), dates |-> {}, ticks |-> {1, 2}, duration |-> 2]
Always   == [type |-> "cron", weekdays |-> Field("star", 0, 0), dates |-> {}, ticks |-> {0}, duration |-> 4]
Everyday == [type |-> "cron", weekdays |-> Field("range", 1, 7), dates |-> {}, ticks |-> {1}, duration |-> 1]
Sundays  == [type |-> "cron", weekdays |-> Field("range", 0, 7), dates |-> {}, ticks |-> {0}, duration |-> 2]
Payday   == [type |-> "cron", weekdays |-> Field("one", 3, 0), dates |-> {1, 3}, ticks |-> {1}, duration |-> 2]
SmallPlans == {{}, {Always}} \cup {{s, t} : s \in {Nightly, Noon, Rollout, Weekend, Everyday, Sundays, Payday}, t \in {Nightly, Everyday}}

VARIABLE part

PlatformInit ==
    /\ part \in {"keys", "log", "accounts", "rights", "grants", "sessions", "signon",
              "vault", "windows", "drain"}
    /\ KvInit
    /\ LogInit
    /\ AccountsInit /\ (part # "accounts" => \A x \in Subject : identity[x] = 0)
    /\ RightsInit
    /\ GrantsInit /\ (part # "grants" => groupRoles = {} /\ ~ledger)
    /\ SessionsInit /\ (part # "sessions" => vault = <<"local">>)
    /\ SignOnInit
    /\ VaultInit /\ (part # "vault" => docKind = "secrets")
    /\ \A w \in Writer : save[w] = Saved <=> (w = 2 /\ docKind \in {"settings", "plugin"})
    /\ MaintenanceInit
    /\ RestartInit /\ (part # "drain" => lead = 1)

OthersStay ==
    /\ part # "keys" => UNCHANGED kvVars
    /\ part # "log" => UNCHANGED logVars
    /\ part # "accounts" => UNCHANGED accountVars
    /\ part # "rights" => UNCHANGED rightsVars
    /\ part # "grants" => UNCHANGED grantVars
    /\ part # "sessions" => UNCHANGED sessionVars
    /\ part # "signon" => UNCHANGED signOnVars
    /\ part # "vault" => UNCHANGED vaultVars
    /\ part # "windows" => UNCHANGED maintenanceVars
    /\ part # "drain" => UNCHANGED restartVars

Keys == part = "keys" /\ KvNext /\ OthersStay
Logs == part = "log" /\ LogNext /\ OthersStay
Accountings == part = "accounts" /\ AccountsNext /\ OthersStay
Righting == part = "rights" /\ RightsNext /\ OthersStay
Granting == part = "grants" /\ GrantsNext /\ OthersStay
Sittings == part = "sessions" /\ SessionsNext /\ OthersStay
Signing == part = "signon" /\ SignOnNext /\ OthersStay
Vaulting == part = "vault" /\ VaultNext /\ OthersStay
Windowing == part = "windows" /\ MaintenanceNext /\ OthersStay
Draining == part = "drain" /\ RestartNext /\ OthersStay

PlatformNext ==
    /\ UNCHANGED part
    /\ \/ Keys \/ Logs \/ Accountings \/ Righting \/ Granting
       \/ Sittings \/ Signing \/ Vaulting \/ Windowing \/ Draining

PlatformSpec ==
    PlatformInit /\ [][PlatformNext]_<<part, kvVars, logVars, accountVars, rightsVars, grantVars,
        sessionVars, signOnVars, vaultVars, maintenanceVars, restartVars>>

\* The variables of the other components never change.
PartView ==
    <<part, CASE part = "keys" -> kvVars
              [] part = "log" -> logVars
              [] part = "accounts" -> accountVars
              [] part = "rights" -> rightsVars
              [] part = "grants" -> grantVars
              [] part = "sessions" -> sessionVars
              [] part = "signon" -> signOnVars
              [] part = "vault" -> vaultVars
              [] part = "windows" -> maintenanceVars
              [] part = "drain" -> restartVars>>
=============================================================================

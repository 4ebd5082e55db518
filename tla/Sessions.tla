------------------------------ MODULE Sessions ------------------------------
(***************************************************************************)
(* Logins by password and the keys that carry a session, on one instance.  *)
(*                                                                         *)
(* A login asks the providers that are registered when it starts, one      *)
(* after the other, and the local one last in any case.  Meanwhile threads *)
(* of administrators save another chain of providers and register it anew. *)
(* A login that is accepted gets an API key; requests show it, until a     *)
(* logout deletes it.  The database may fail at any call; a connection it  *)
(* lost, or never had, looks like a wrong password and a wrong key.        *)
(***************************************************************************)
EXTENDS Integers, Sequences, SequencesExt

CONSTANTS
    Attempt, \* logins, each with the key it may get
    Reload,  \* threads that register the providers: the bound on them
    Visit    \* requests that show a key: the bound on them

Provider == {"local", "ldap"}

VARIABLES
    vault,    \* the chain in Vault, core/auth
    provided, \* provider_registry._providers
    reload,   \* what a thread has still to register
    attempt,  \* whose password, the providers still to ask, the outcome, whether
              \* the chain stayed and whether the database failed
    apiKey,   \* the row of a key: "none", "live" or "deleted"
    visit     \* the key a request shows, its stage, whether the key was gone when it came

sessionVars == <<vault, provided, reload, attempt, apiKey, visit>>

NoReload  == [at |-> "none", left |-> <<>>]
NoAttempt == [who |-> "none", at |-> "none", left |-> <<>>, undisturbed |-> TRUE, failed |-> FALSE]
NoVisit   == [key |-> 0, at |-> "none", late |-> FALSE, saw |-> "none"]

Chains == {<<"local">>, <<"ldap">>, <<"local", "ldap">>}

SessionsInit ==
    /\ vault \in Chains /\ provided = vault
    /\ reload = [r \in Reload |-> NoReload]
    /\ attempt = [l \in Attempt |-> NoAttempt]
    /\ apiKey = [l \in Attempt |-> "none"]
    /\ visit = [v \in Visit |-> NoVisit]
-----------------------------------------------------------------------------
(* reinitialize_providers(), after a PATCH of the configuration or not.    *)

SaveVaultData(r, c) ==
    /\ reload[r] = NoReload
    /\ vault' = c
    /\ reload' = [reload EXCEPT ![r].at = "saved"]
    /\ UNCHANGED <<provided, attempt, apiKey, visit>>

\* A login that runs is disturbed by it.
Chain(new) ==
    /\ provided' = new
    /\ attempt' = [l \in Attempt |-> [attempt[l] EXCEPT !.undisturbed = @ /\ new = provided]]

ClearProviders(r) ==
    /\ reload[r].at \in {"none", "saved"}
    /\ Chain(<<>>)
    /\ reload' = [reload EXCEPT ![r].at = "cleared"]
    /\ UNCHANGED <<vault, apiKey, visit>>

LoadVaultData(r) ==
    /\ reload[r].at = "cleared"
    /\ reload' = [reload EXCEPT ![r] = [at |-> "loaded", left |-> vault]]
    /\ UNCHANGED <<vault, provided, attempt, apiKey, visit>>

\* register(): a dictionary keeps the place of a name it has.
RegisterProvider(r) ==
    /\ reload[r].at = "loaded" /\ reload[r].left # <<>>
    /\ LET p == Head(reload[r].left)
       IN  Chain(IF Contains(provided, p) THEN provided ELSE Append(provided, p))
    /\ reload' = [reload EXCEPT ![r].left = Tail(@)]
    /\ UNCHANGED <<vault, apiKey, visit>>

-----------------------------------------------------------------------------
(* authenticate(), and login() after it.                                   *)

\* The administrator has a local password, the others one in the directory.
LoginStarts(l, who) ==
    /\ attempt[l] = NoAttempt
    /\ attempt' = [attempt EXCEPT ![l] = [who |-> who, at |-> "asks", left |-> provided, undisturbed |-> TRUE, failed |-> FALSE]]
    /\ UNCHANGED <<vault, provided, reload, apiKey, visit>>

Knows(p, who) == p = IF who = "admin" THEN "local" ELSE "ldap"

Attempts(l, at) == attempt' = [attempt EXCEPT ![l].at = at]

\* LocalProvider.authenticate(), LDAPProvider.authenticate(): the directory or the
\* database may be out of reach, which goes on to the next like a wrong password.
AsksProvider(l, answers) ==
    /\ attempt[l].at = "asks" /\ attempt[l].left # <<>>
    /\ LET p == Head(attempt[l].left)
       IN  IF answers /\ Knows(p, attempt[l].who) THEN Attempts(l, "accepted")
           ELSE attempt' = [attempt EXCEPT ![l].left = Tail(@),
                                           ![l].failed = @ \/ (p = "local" /\ ~answers)]
    /\ UNCHANGED <<vault, provided, reload, apiKey, visit>>

\* Wrong: the fallback is for an empty chain only.
NoneIsProvided == provided = <<>>

LocalIsMissing == ~Contains(provided, "local")

FallsBack(l, answers) ==
    /\ attempt[l].at = "asks" /\ attempt[l].left = <<>>
    /\ attempt' =
           [attempt EXCEPT ![l].at = IF LocalIsMissing /\ answers /\ attempt[l].who = "admin"
                                     THEN "accepted" ELSE "refused",
                           ![l].failed = @ \/ (LocalIsMissing /\ ~answers)]
    /\ UNCHANGED <<vault, provided, reload, apiKey, visit>>

\* A login whose key cannot be stored ends in an error.
CreateKey(l, stored) ==
    /\ attempt[l].at = "accepted"
    /\ Attempts(l, IF stored THEN "done" ELSE "failed")
    /\ apiKey' = IF stored THEN [apiKey EXCEPT ![l] = "live"] ELSE apiKey
    /\ UNCHANGED <<vault, provided, reload, visit>>

-----------------------------------------------------------------------------
(* verify(), which notes when a key was used last, and logout().           *)

Presents(v, l) ==
    /\ visit[v] = NoVisit /\ apiKey[l] # "none"
    /\ visit' = [visit EXCEPT ![v] = [key |-> l, at |-> "came", late |-> apiKey[l] = "deleted", saw |-> "none"]]
    /\ UNCHANGED <<vault, provided, reload, attempt, apiKey>>

\* Without an answer of the database the request is refused like any other.
VerifyReads(v, answers) ==
    /\ visit[v].at = "came"
    /\ LET saw == IF answers THEN apiKey[visit[v].key] ELSE "nothing" IN
       visit' = [visit EXCEPT ![v].saw = saw, ![v].at = IF saw = "live" THEN "read" ELSE "refused"]
    /\ UNCHANGED <<vault, provided, reload, attempt, apiKey>>

\* The commit fails if the row was deleted or another request noted its use
\* since; what was read before counts.
LetIn(noted) == "let in"

VerifyCommits(v, noted) ==
    /\ visit[v].at = "read"
    /\ apiKey[visit[v].key] = "deleted" => ~noted
    /\ visit' = [visit EXCEPT ![v].at = LetIn(noted)]
    /\ UNCHANGED <<vault, provided, reload, attempt, apiKey>>

\* logout() is a request like others, and deletes the key it came with; without
\* the database it answers an error, or the same, and the key stays.
Logout(v, answers) ==
    /\ visit[v].at = "let in"
    /\ apiKey' = IF answers THEN [apiKey EXCEPT ![visit[v].key] = "deleted"] ELSE apiKey
    /\ visit' = [visit EXCEPT ![v].at = IF answers THEN "logged out" ELSE "stays"]
    /\ UNCHANGED <<vault, provided, reload, attempt>>

SessionsNext ==
    \/ \E r \in Reload : ClearProviders(r) \/ LoadVaultData(r) \/ RegisterProvider(r)
    \/ \E r \in Reload, c \in Chains : SaveVaultData(r, c)
    \/ \E l \in Attempt, who \in {"admin", "other"} : LoginStarts(l, who)
    \/ \E l \in Attempt, answers \in BOOLEAN :
          AsksProvider(l, answers) \/ FallsBack(l, answers) \/ CreateKey(l, answers)
    \/ \E v \in Visit, l \in Attempt : Presents(v, l)
    \/ \E v \in Visit, answers \in BOOLEAN :
          VerifyReads(v, answers) \/ VerifyCommits(v, answers) \/ Logout(v, answers)

SessionsSpec == SessionsInit /\ [][SessionsNext]_sessionVars
-----------------------------------------------------------------------------
AttemptRec == [who : {"none", "admin", "other"}, left : Seq(Provider), undisturbed : BOOLEAN,
               failed : BOOLEAN, at : {"none", "asks", "accepted", "refused", "done", "failed"}]
ReloadRec  == [at : {"none", "saved", "cleared", "loaded"}, left : Seq(Provider)]
VisitRec   == [key : Attempt \cup {0}, late : BOOLEAN, saw : {"none", "live", "deleted", "nothing"},
               at : {"none", "came", "read", "refused", "let in", "logged out", "stays"}]

SessionsTypeOK ==
    /\ vault \in Chains /\ provided \in Seq(Provider)
    /\ reload \in [Reload -> ReloadRec]
    /\ attempt \in [Attempt -> AttemptRec]
    /\ apiKey \in [Attempt -> {"none", "live", "deleted"}]
    /\ visit \in [Visit -> VisitRec]

\* registry.py:80: the administrator gets in whatever the chain is and although
\* the directory fails; he is refused only by a chain that changed meanwhile, or
\* when the local provider was asked while the database failed.
AdminGetsIn ==
    \A l \in Attempt : attempt[l].who = "admin" /\ attempt[l].at = "refused" =>
        ~attempt[l].undisturbed \/ attempt[l].failed

\* A key opens until it is deleted and not after, also for requests that use it
\* at a time; a request is refused otherwise only when the database did not answer.
KeyOpens ==
    \A v \in Visit :
        /\ visit[v].at = "refused" => apiKey[visit[v].key] = "deleted" \/ visit[v].saw = "nothing"
        /\ visit[v].at \in {"let in", "logged out", "stays"} => ~visit[v].late

SessionsHold == AdminGetsIn /\ KeyOpens
=============================================================================

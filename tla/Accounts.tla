------------------------------ MODULE Accounts ------------------------------
(***************************************************************************)
(* Accounts, the identities that lead to them, and their memberships.      *)
(*                                                                         *)
(* A login is resolved to an account in one transaction: by its identity,  *)
(* else by a verified address that one account has, else in a new account. *)
(* Meanwhile administrators create, change and delete accounts, and other  *)
(* instances resolve other logins.  The database refuses a second row with *)
(* the same name or the same identity, and to overwrite a row that was     *)
(* changed since it was read.                                              *)
(***************************************************************************)
EXTENDS Integers, FiniteSets

CONSTANTS
    Account, \* 1 .. n, the rows users may ever have: the bound on them
    Login,   \* the transactions on them: the bound on these
    Subject  \* [provider, name, mail, verified, groups]: what providers say of who
             \* logs in; the mail is "" if they say none

ASSUME AccountAssumption == Account \subseteq Nat \ {0} /\ 1 \in Account

Groups == {"g", "h"}

VARIABLES
    account,  \* users: name, <<>> without a row, mail, groups, and whether a login made it
    identity, \* user_identities: the account of a subject, 0 without a row
    dealt,    \* how many ids of accounts were given out
    step      \* what a transaction does, the tables it saw, its stage

accountVars == <<account, identity, dealt, step>>

NoAccount == [name |-> <<>>, mail |-> "", groups |-> {}, login |-> FALSE]
NoStep    == [does |-> "none", of |-> 0, at |-> "none", account |-> <<>>, identity |-> <<>>]
EndedStep == [NoStep EXCEPT !.at = "ended"]

\* What _seed_users() makes at the first boot; who logged in since may be he.
Administrator == [name |-> <<"admin">>, mail |-> "m", groups |-> {"g"}, login |-> FALSE]

AccountsInit ==
    /\ account = [a \in Account |-> IF a = 1 THEN Administrator ELSE NoAccount]
    /\ identity \in [Subject -> {0, 1}]
    /\ dealt = 1
    /\ step = [t \in Login |-> NoStep]

Present(accounts) == {a \in Account : accounts[a].name # <<>>}
-----------------------------------------------------------------------------
(* resolve(): which account a login is, from what its transaction saw.     *)

Linked(s, x) == {a \in Present(s.account) : s.identity[x] = a}

\* _match_or_create(): the only account with the address, unless the provider
\* already leads there; else, for the local provider, the one of that name.
ByMail(s, x) == {a \in Present(s.account) : x.verified /\ x.mail # "" /\ s.account[a].mail = x.mail}
FreeByMail(s, x)   == {a \in ByMail(s, x) : \A y \in Subject : y.provider = x.provider => s.identity[y] # a}
ByName(s, x) == {a \in Present(s.account) : x.provider = "local" /\ s.account[a].name = <<x.name>>}

Matched(s, x) ==
    IF Linked(s, x) # {} THEN Linked(s, x)
    ELSE IF Cardinality(ByMail(s, x)) = 1 /\ FreeByMail(s, x) # {} THEN FreeByMail(s, x)
    ELSE ByName(s, x)

\* _unique_username(): the name, or the name and the provider, and a number.
Variants(x) == <<<<x.name>>, <<x.name, x.provider>>, <<x.name, x.provider, 2>>, <<x.name, x.provider, 3>>>>

UniqueName(s, x) ==
    LET taken == {s.account[a].name : a \in Account}
    IN  {Variants(x)[k] : k \in {k \in 1..4 : /\ Variants(x)[k] \notin taken
                                            /\ \A l \in 1..(k - 1) : Variants(x)[l] \in taken}}

-----------------------------------------------------------------------------
(* Transactions: a read of the tables, then the commit.                    *)

Reads(t, does, of) ==
    /\ step[t] = NoStep
    /\ step' = [step EXCEPT ![t] = [does |-> does, of |-> of, at |-> "read", account |-> account, identity |-> identity]]
    /\ UNCHANGED <<account, identity, dealt>>

\* A provider has taken the password, or the token.
LoginReads(t, x) == Reads(t, "login", x)

\* Requests look the user up before: if he goes in between they find nothing.
AsksToJoin(t, a)  == a \in Present(account) /\ Reads(t, "join", a)
AsksToLeave(t, a) == a \in Present(account) /\ Reads(t, "leave", a)
AsksToPatch(t, a) == a \in Present(account) /\ Reads(t, "patch", a)

\* Wrong: the account a login makes is committed before the identity.
AccountStays(a, new) == [account EXCEPT ![a] = new]

\* One transaction: neither is there.
Neither(a, new) == account

\* The account is written only if the login brings groups it lacks, or a mail
\* (verified or not) and it has none.
Joined(t, a) ==
    LET saw == step[t].account[a]
    IN  [saw EXCEPT !.groups = @ \cup step[t].of.groups, !.mail = IF @ = "" THEN step[t].of.mail ELSE @]

ResolvesTo(t, a) ==
    LET x      == step[t].of
        writes == Joined(t, a) # step[t].account[a]
        links  == Linked(step[t], x) = {}
    IN  IF \/ writes /\ account[a] # step[t].account[a]
           \/ links /\ identity[x] # step[t].identity[x]
        THEN UNCHANGED <<account, identity, dealt>>
        ELSE /\ account' = IF writes THEN [account EXCEPT ![a] = Joined(t, a)] ELSE account
             /\ identity' = IF links THEN [identity EXCEPT ![x] = a] ELSE identity
             /\ UNCHANGED dealt

ResolvesToNew(t, name) ==
    LET x   == step[t].of
        new == [name |-> name, mail |-> x.mail, groups |-> {"h"} \cup x.groups, login |-> TRUE]
        a   == dealt + 1
    IN  /\ a \in Account
        /\ dealt' = a
        /\ IF \E b \in Account : account[b].name = name THEN UNCHANGED <<account, identity>>
           ELSE IF identity[x] # step[t].identity[x] THEN account' = Neither(a, new) /\ UNCHANGED identity
           ELSE /\ account' = [account EXCEPT ![a] = new]
                /\ identity' = [identity EXCEPT ![x] = a]

LoginEnds(t) ==
    /\ step[t].does = "login"
    /\ \/ \E a \in Matched(step[t], step[t].of) : ResolvesTo(t, a)
       \/ /\ Matched(step[t], step[t].of) = {}
          /\ \E name \in UniqueName(step[t], step[t].of) : ResolvesToNew(t, name)
    /\ step' = [step EXCEPT ![t] = EndedStep]

\* resolve() catches any error: the login goes on with what the provider said.
LoginRollsBack(t) ==
    /\ step[t].does = "login"
    /\ step' = [step EXCEPT ![t] = EndedStep]
    /\ UNCHANGED <<account, identity, dealt>>

\* A transaction writes the account it read, unless that is what it had; if it
\* changed since, or is gone, the transaction fails.
Had(t) == step[t].account[step[t].of]

Writes(t, new) ==
    LET a == step[t].of IN
    /\ account' = IF new # Had(t) /\ account[a] = Had(t) THEN [account EXCEPT ![a] = new] ELSE account
    /\ step' = [step EXCEPT ![t] = EndedStep]
    /\ UNCHANGED <<identity, dealt>>

MemberJoins(t)   == step[t].does = "join" /\ Writes(t, [Had(t) EXCEPT !.groups = @ \cup {"g"}])
MemberLeaves(t)  == step[t].does = "leave" /\ Writes(t, [Had(t) EXCEPT !.groups = @ \ {"g"}])
GroupsPatched(t) == step[t].does = "patch" /\ Writes(t, [Had(t) EXCEPT !.groups = {"h"}])
MailPatched(t)   == step[t].does = "patch" /\ Writes(t, [Had(t) EXCEPT !.mail = ""])

\* _seed_or_update_user(), under the lock of the boot: the administrator is made
\* anew, or is a member of his group again.
BootReads(t) ==
    IF \E a \in Account : account[a].name = <<"admin">>
    THEN \E a \in Account : account[a].name = <<"admin">> /\ Reads(t, "join", a)
    ELSE /\ dealt + 1 \in Account /\ dealt' = dealt + 1
         /\ account' = [account EXCEPT ![dealt'] = Administrator]
         /\ UNCHANGED <<identity, step>>

\* create_user(): the unique name decides, whatever was read before.
CreateUser(name, mail) ==
    /\ dealt + 1 \in Account
    /\ dealt' = dealt + 1
    /\ account' = IF \E a \in Account : account[a].name = name THEN account
                  ELSE [account EXCEPT ![dealt'] = [name |-> name, mail |-> mail, groups |-> {}, login |-> FALSE]]
    /\ UNCHANGED <<identity, step>>

\* delete_user(): identities stay.
DeleteUser(a) ==
    /\ a \in Present(account)
    /\ account' = [account EXCEPT ![a] = NoAccount]
    /\ UNCHANGED <<identity, dealt, step>>

AccountsNext ==
    \/ \E t \in Login : LoginEnds(t) \/ LoginRollsBack(t) \/ MemberJoins(t) \/ MemberLeaves(t) \/ GroupsPatched(t) \/ MailPatched(t)
                         \/ BootReads(t)
    \/ \E t \in Login, x \in Subject : LoginReads(t, x)
    \/ \E t \in Login, a \in Account : AsksToJoin(t, a) \/ AsksToLeave(t, a) \/ AsksToPatch(t, a)
    \/ CreateUser(<<"ann">>, "m") \/ CreateUser(<<"ann", "ldap">>, "")
    \/ \E a \in Account : DeleteUser(a)

AccountsSpec == AccountsInit /\ [][AccountsNext]_accountVars
-----------------------------------------------------------------------------
\* The names and addresses there may be.
UserName   == {<<"admin">>, <<"ann">>, <<"ann", "ldap">>} \cup {Variants(x)[k] : x \in Subject, k \in 1..4}
UserMail   == {"", "m"} \cup {x.mail : x \in Subject}
UserGroups == Groups \cup UNION {x.groups : x \in Subject}
AccountRec == [name : UserName \cup {<<>>}, mail : UserMail, groups : SUBSET UserGroups, login : BOOLEAN]

Asks == {"login", "join", "leave", "patch"}

AccountsTypeOK ==
    /\ account \in [Account -> AccountRec] /\ identity \in [Subject -> Account \cup {0}]
    /\ dealt \in Account
    /\ step = [t \in Login |-> step[t]]
    /\ \A t \in Login : step[t].at = "read" =>
          /\ step[t].does \in Asks
          /\ IF step[t].does = "login" THEN step[t].of \in Subject ELSE step[t].of \in Account
          /\ step[t].account \in [Account -> AccountRec] /\ step[t].identity \in [Subject -> Account \cup {0}]


\* An account that a login made is one that a login comes back to.
NoStrandedAccount ==
    \A a \in Present(account) : account[a].login => \E x \in Subject : identity[x] = a

\* Who was led to an account is led there as long as it exists, and nobody
\* loses a membership but to a transaction that takes it: logins, requests and
\* boots of several instances do not undo each other.
AccountsStand ==
    [][/\ NoStrandedAccount'
       /\ \A x \in Subject : identity[x] \in Present(account') => identity'[x] = identity[x]
       /\ \A a \in Present(account') : account[a].name # <<>> =>
              \A g \in account[a].groups \ account'[a].groups :
                  \E t \in Login : /\ step[t].at = "read" /\ step'[t].at = "ended" /\ step[t].of = a
                                   /\ \/ step[t].does = "leave" /\ g = "g"
                                      \/ step[t].does = "patch" /\ g # "h"]_accountVars
=============================================================================

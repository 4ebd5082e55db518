------------------------------- MODULE Rights --------------------------------
(***************************************************************************)
(* What administrators give a user: memberships of groups, roles and       *)
(* permissions of his own.  The row of the user lists the groups by name,  *)
(* not by id, and groups are created, renamed and deleted meanwhile.       *)
(*                                                                         *)
(* A request looks up what it is about in transactions of their own.  Its  *)
(* last transaction reads the user again and writes him, and the database  *)
(* refuses to overwrite a row that changed in between; with roles it       *)
(* writes what it had read before.  Requests of other instances come       *)
(* between these transactions.                                             *)
(***************************************************************************)
EXTENDS Integers

CONSTANTS
    GroupId,  \* 1 .. n, the rows groups may ever have: the bound on them
    GrantCall \* requests about the user: the bound on them

ASSUME GroupIdAssumption == GroupId \subseteq Nat \ {0}

GroupNames == {"ops", "dev"}
OwnRoles   == {"viewer", "editor"}
OwnPerms   == {"api:read", "api:write"}
NoName     == ""

VARIABLES
    user,     \* the row of the user: its groups, roles and extra_permissions
    named,    \* the name of a group, NoName without a row
    groupIds, \* how many ids were given out
    taken,    \* the names groups have had
    errand,   \* a request: what it does, to what, and the user it looked up
    want,     \* what the requests that were carried out add up to, groups by id
    renamed,  \* groups with a name that was not, or is not, theirs alone
    raced     \* roles that changed after a request looked them up and before it wrote

rightsVars == <<user, named, groupIds, taken, errand, want, renamed, raced>>

NoRights    == [groups |-> {}, roles |-> {}, extra |-> {}]
NoGrant     == [does |-> "none", group |-> 0, name |-> NoName, of |-> {}, saw |-> NoRights]
GrantDone   == [NoGrant EXCEPT !.does = "done"]

RightsInit ==
    /\ user = NoRights /\ want = NoRights
    /\ named = [g \in GroupId |-> NoName]
    /\ groupIds = 0 /\ taken = {}
    /\ errand = [t \in GrantCall |-> NoGrant]
    /\ renamed = {} /\ raced = {}

Existing       == {g \in GroupId : named[g] # NoName}
NameFree(name) == \A g \in GroupId : named[g] # name

-----------------------------------------------------------------------------
(* Groups.                                                                 *)

\* A name that is taken is a conflict; that of a deleted group is free.
CreateGroup(name) ==
    /\ groupIds + 1 \in GroupId /\ NameFree(name)
    /\ groupIds' = groupIds + 1
    /\ named' = [named EXCEPT ![groupIds'] = name]
    /\ taken' = taken \cup {name}
    /\ renamed' = IF name \in taken THEN renamed \cup {groupIds'} ELSE renamed
    /\ UNCHANGED <<user, errand, want, raced>>

RenameGroup(g, name) ==
    /\ g \in Existing /\ NameFree(name)
    /\ named' = [named EXCEPT ![g] = name]
    /\ taken' = taken \cup {name}
    /\ renamed' = renamed \cup {g}
    /\ UNCHANGED <<user, groupIds, errand, want, raced>>

\* The name stays in the rows of its members.
DeleteGroup(g) ==
    /\ g \in Existing
    /\ named' = [named EXCEPT ![g] = NoName]
    /\ UNCHANGED <<user, groupIds, taken, errand, want, renamed, raced>>

-----------------------------------------------------------------------------
(* Requests about the user: what they look up, and what they write.        *)

Looks(t, does, g, name, of) ==
    /\ errand[t] = NoGrant
    /\ errand' = [errand EXCEPT ![t] = [does |-> does, group |-> g, name |-> name, of |-> of, saw |-> user]]
    /\ UNCHANGED <<user, named, groupIds, taken, want, renamed, raced>>

LooksForGroup(t, does, g) == g \in Existing /\ Looks(t, does, g, named[g], {})
LooksForRole(t, does, r)  == Looks(t, does, 0, NoName, {r})
LooksForUser(t, does, ps) == Looks(t, does, 0, NoName, ps)

\* The row that the last transaction starts from.  Before it, a wrong variant.
LookedUp(t)  == errand[t].saw
ReadAgain(t) == user

\* Adds to what there is, or takes from it.
With(t, add, what, is) == IF errand[t].does = add THEN is \cup what ELSE is \ what

Carried(t, row, wanted) ==
    /\ user' = row /\ want' = wanted
    /\ errand' = [errand EXCEPT ![t] = GrantDone]
    /\ UNCHANGED <<named, groupIds, taken, renamed>>

MembershipSet(t) ==
    /\ errand[t].does \in {"join", "leave"}
    /\ Carried(t, [ReadAgain(t) EXCEPT !.groups = With(t, "join", {errand[t].name}, @)],
                  [want EXCEPT !.groups = With(t, "join", {errand[t].group}, @)])
    /\ UNCHANGED raced

ExtraSet(t) ==
    /\ errand[t].does \in {"grant", "revoke"}
    /\ Carried(t, [ReadAgain(t) EXCEPT !.extra = With(t, "grant", errand[t].of, @)],
                  [want EXCEPT !.extra = With(t, "grant", errand[t].of, @)])
    /\ UNCHANGED raced

ExtraReplaced(t) ==
    /\ errand[t].does = "replace"
    /\ Carried(t, [ReadAgain(t) EXCEPT !.extra = errand[t].of], [want EXCEPT !.extra = errand[t].of])
    /\ UNCHANGED raced

RoleSet(t) ==
    LET roles == errand[t].of
        saw   == errand[t].saw.roles
        other == (saw \ user.roles) \cup (user.roles \ saw)
    IN  /\ errand[t].does \in {"assign", "unassign"}
        /\ Carried(t, [ReadAgain(t) EXCEPT !.roles = With(t, "assign", roles, saw)],
                      [want EXCEPT !.roles = With(t, "assign", roles, @)])
        /\ raced' = (raced \cup other) \ roles

\* Not found, or refused by the database.
GrantFails(t) ==
    /\ errand[t].does \notin {"none", "done"}
    /\ errand' = [errand EXCEPT ![t] = GrantDone]
    /\ UNCHANGED <<user, named, groupIds, taken, want, renamed, raced>>

RightsNext ==
    \/ \E name \in GroupNames : CreateGroup(name) \/ \E g \in GroupId : RenameGroup(g, name)
    \/ \E g \in GroupId : DeleteGroup(g)
    \/ \E t \in GrantCall :
          \/ \E does \in {"join", "leave"}, g \in GroupId : LooksForGroup(t, does, g)
          \/ \E does \in {"assign", "unassign"}, r \in OwnRoles : LooksForRole(t, does, r)
          \/ \E does \in {"grant", "revoke"}, p \in OwnPerms : LooksForUser(t, does, {p})
          \/ \E ps \in SUBSET OwnPerms : LooksForUser(t, "replace", ps)
          \/ MembershipSet(t) \/ ExtraSet(t) \/ ExtraReplaced(t) \/ RoleSet(t) \/ GrantFails(t)

RightsSpec == RightsInit /\ [][RightsNext]_rightsVars

-----------------------------------------------------------------------------
RightsOf(groups) == [groups : SUBSET groups, roles : SUBSET OwnRoles, extra : SUBSET OwnPerms]
Errands == [does : {"none", "done", "join", "leave", "assign", "unassign", "grant", "revoke", "replace"},
            group : GroupId \cup {0}, name : GroupNames \cup {NoName},
            of : SUBSET (OwnRoles \cup OwnPerms), saw : RightsOf(GroupNames)]

RightsTypeOK ==
    /\ user \in RightsOf(GroupNames) /\ want \in RightsOf(GroupId)
    /\ named \in [GroupId -> GroupNames \cup {NoName}]
    /\ groupIds \in Nat /\ errand \in [GrantCall -> Errands]
    /\ taken \subseteq GroupNames /\ renamed \subseteq GroupId /\ raced \subseteq OwnRoles

\* A user has what the requests about him add up to, whichever instances carry
\* them out and however they overlap: he is in a group when he was last put into
\* it, unless the group was renamed or another one had its name; he has the
\* permissions of his own; and the roles, but those a request wrote back.
UserHasWhatWasAsked ==
    /\ \A g \in Existing \ renamed : named[g] \in user.groups <=> g \in want.groups
    /\ user.extra = want.extra
    /\ user.roles \ raced = want.roles \ raced
=============================================================================

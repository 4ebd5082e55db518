----------------------------- MODULE PluginRoutes -----------------------------
(***************************************************************************)
(* The HTTP routes of plugins on one instance: what PluginRouterRegistry   *)
(* mounts below /api/plugins/<id> while plugins are loaded, set up,        *)
(* disabled and unloaded, before and after the application is bound.       *)
(*                                                                         *)
(* A plugin that is pinned to a role this instance lacks is answered by a  *)
(* stub.  Routes are found by the beginning of their path, which the paths *)
(* of a plugin with a longer id share.                                     *)
(***************************************************************************)
EXTENDS Integers, Sequences, SequencesExt

CONSTANTS
    Plugin,  \* ids
    Longer,  \* pairs <<p, q>> of ids where q is p and more
    Pinned,  \* plugins whose role this instance does not have
    Routers  \* bound on the routers that are made

ASSUME RoutersAssumption == Routers \in Nat

VARIABLES
    made,    \* routers made so far
    bound,   \* whether bind_app() was called
    routers, \* PluginRouterRegistry._routers, 0 for none
    stubbed, \* the keys of PluginRouterRegistry._remote
    mounted, \* app.router.routes, by the plugin whose path they are below
    placed   \* status of the plugin's entry in the registry, "none" without one

routeVars == <<made, bound, routers, stubbed, mounted, placed>>

RoutesInit ==
    /\ made = 0 /\ bound = FALSE
    /\ routers = [p \in Plugin |-> 0] /\ stubbed = {}
    /\ mounted = [p \in Plugin |-> <<>>]
    /\ placed = [p \in Plugin |-> "none"]

\* The plugins whose routes are below the prefix of p.
Below(p) == {q \in Plugin : q = p \/ <<p, q>> \in Longer}

\* unmount() of a plugin with a router, from the routes m.
Unmounted(p, m) ==
    IF routers[p] = 0 \/ ~bound THEN m
    ELSE [q \in Plugin |-> IF q \in Below(p) THEN <<>> ELSE m[q]]

\* Wrong: the router that is replaced stays.
NotReplaced(p) == mounted

\* register() unmounts the router it replaces.
Replaced(p) == Unmounted(p, mounted)

Registers(p) ==
    /\ made < Routers /\ made' = made + 1
    /\ routers' = [routers EXCEPT ![p] = made + 1]
    /\ mounted' = IF bound THEN [Replaced(p) EXCEPT ![p] = Append(@, made + 1)] ELSE mounted

Unmounts(p) ==
    /\ mounted' = Unmounted(p, mounted)
    /\ routers' = [routers EXCEPT ![p] = 0]
    /\ stubbed' = stubbed \ {p}

\* mount_all() of the routers that are registered already.
Bind ==
    /\ ~bound /\ bound' = TRUE
    /\ mounted' = [p \in Plugin |-> IF routers[p] = 0 THEN <<>> ELSE <<routers[p]>>]
    /\ UNCHANGED <<made, routers, stubbed, placed>>

LoadPlugin(p) ==
    /\ placed[p] = "none"
    /\ placed' = [placed EXCEPT ![p] = "initializing"]
    /\ UNCHANGED <<made, bound, routers, stubbed, mounted>>

\* setup() of a plugin that registers a router: a plugin may be enabled again
\* while it is active, and a coroutine is run twice when plugins are restored.
RunSetup(p) ==
    /\ p \notin Pinned /\ placed[p] # "none"
    /\ placed' = [placed EXCEPT ![p] = "active"]
    /\ Registers(p)
    /\ stubbed' = IF routers[p] = 0 THEN stubbed ELSE stubbed \ {p}
    /\ UNCHANGED bound

\* setup() of one that registers none.
RunSetupWithout(p) ==
    /\ p \notin Pinned /\ placed[p] # "none"
    /\ placed' = [placed EXCEPT ![p] = "active"]
    /\ UNCHANGED <<made, bound, routers, stubbed, mounted>>

\* _execute_setup() of a pinned one: register_remote(), after an unmount().
RunRemote(p) ==
    /\ p \in Pinned /\ placed[p] # "none"
    /\ placed' = [placed EXCEPT ![p] = "remote"]
    /\ made < Routers /\ made' = made + 1
    /\ routers' = [routers EXCEPT ![p] = made + 1]
    /\ stubbed' = stubbed \cup {p}
    /\ mounted' = IF bound THEN [Unmounted(p, mounted) EXCEPT ![p] = Append(@, made + 1)] ELSE mounted
    /\ UNCHANGED bound

\* Only the stub of a disabled plugin is unmounted, its own routes stay.
Retires(p) == IF placed[p] = "remote" THEN Unmounts(p) ELSE UNCHANGED <<routers, stubbed, mounted>>

DisablePlugin(p) ==
    /\ placed[p] \in {"initializing", "active", "remote"}
    /\ placed' = [placed EXCEPT ![p] = "disabled"]
    /\ Retires(p)
    /\ UNCHANGED <<made, bound>>

UnloadPlugin(p) ==
    /\ placed[p] # "none"
    /\ placed' = [placed EXCEPT ![p] = "none"]
    /\ Unmounts(p)
    /\ UNCHANGED <<made, bound>>

RoutesNext ==
    \/ Bind
    \/ \E p \in Plugin : LoadPlugin(p) \/ RunSetup(p) \/ RunSetupWithout(p) \/ RunRemote(p)
                         \/ DisablePlugin(p) \/ UnloadPlugin(p)

RoutesSpec == RoutesInit /\ [][RoutesNext]_routeVars
-----------------------------------------------------------------------------
RoutesTypeOK ==
    /\ made \in 0..Routers /\ bound \in BOOLEAN
    /\ routers \in [Plugin -> 0..Routers]
    /\ stubbed \subseteq Plugin
    /\ mounted \in [Plugin -> Seq(1..Routers)]
    /\ placed \in [Plugin -> {"none", "initializing", "active", "remote", "disabled"}]

\* Below the prefix of a plugin there is the router it registered last, once,
\* or nothing: before the application is bound, and for a plugin whose id
\* begins with that of one that was unmounted since.
OneRouter ==
    \A p \in Plugin :
        \/ mounted[p] = IF bound /\ routers[p] # 0 THEN <<routers[p]>> ELSE <<>>
        \/ mounted[p] = <<>> /\ \E q \in Plugin : <<q, p>> \in Longer /\ q # p

\* A plugin has a stub exactly while it runs elsewhere, and no routes here once
\* it is unloaded or, pinned elsewhere, disabled.
StubWhileRemote ==
    \A p \in Plugin :
        /\ placed[p] = "remote" <=> p \in stubbed
        /\ placed[p] = "none" => routers[p] = 0
        /\ placed[p] = "disabled" /\ p \in Pinned => routers[p] = 0

\* The routes of a plugin are those of its last load, at most once, and go with
\* it, also when it moves to another instance.
RoutesFollowPlugin == OneRouter /\ StubWhileRemote
=============================================================================

------------------------------ MODULE MCServices ------------------------------
(* Services of an instance that do not touch each other, with constants    *)
(* for TLC: a behaviour picks one and takes the steps of that one only.    *)
EXTENDS Operations, Notifications, NotificationRouting, PluginContext, PluginRoutes,
        PluginStatus, Membership, GitRepo, Marketplace, Streams, TLC

CONSTANTS i1, i2

Instances == {i1, i2}
Symmetry  == Permutations(Instances)
One == {1}
Two == {1, 2}
Three == {1, 2, 3}

Disturbances == {"leave", "again", "overlap", "deadlock"}

Notes   == {"a", "b"}
Secrets == {"b"}

Plugins == {"mon", "monpro", "far"}
Longers == {<<"mon", "monpro">>}
Pins    == {"far"}

\* The scores of the instances for the workload and for its items.
Items  == {"x", "y"}
Scores == [k \in Items \cup {"all"} |-> CASE k = "all" -> <<3, 1, 2>> [] k = "x" -> <<1, 2, 3>> [] OTHER -> <<2, 3, 1>>]

VARIABLE part

ServicesInit ==
    /\ part \in {"operations", "bell", "routing", "context", "routes", "status", "members",
              "git", "repos", "streams"}
    /\ Init
    /\ BellInit
    /\ RoutingInit /\ (IF part = "routing" THEN envelope = NoEnvelope <=> sync[2] = SyncEnded ELSE envelope = NoEnvelope /\ sync[2] = NoSync) /\ sync[1] = NoSync
    /\ ContextInit
    /\ RoutesInit
    /\ StatusInit
    /\ MembershipInit /\ leadRow = 1 /\ phase[2] = "up" /\ phase[3] = "down"
    /\ GitInit /\ (part # "git" => via = "https")
    /\ ShopInit /\ (part # "repos" => clone = 0)
    /\ StreamsInit

OthersStay ==
    /\ part # "operations" => UNCHANGED vars
    /\ part # "bell" => UNCHANGED bellVars
    /\ part # "routing" => UNCHANGED routingVars
    /\ part # "context" => UNCHANGED contextVars
    /\ part # "routes" => UNCHANGED routeVars
    /\ part # "status" => UNCHANGED statusVars
    /\ part # "members" => UNCHANGED memberVars
    /\ part # "git" => UNCHANGED gitVars
    /\ part # "repos" => UNCHANGED shopVars
    /\ part # "streams" => UNCHANGED streamVars

Operate == part = "operations" /\ Next /\ OthersStay
Bells == part = "bell" /\ BellNext /\ OthersStay
Endpoints == part = "routing" /\ RoutingNext /\ OthersStay
Contexts == part = "context" /\ ContextNext /\ OthersStay
Routing == part = "routes" /\ RoutesNext /\ OthersStay
Statuses == part = "status" /\ StatusNext /\ OthersStay
Members == part = "members" /\ MembershipNext /\ OthersStay
Cloning == part = "git" /\ GitNext /\ OthersStay
Shops == part = "repos" /\ ShopNext /\ OthersStay
Streaming == part = "streams" /\ StreamsNext /\ OthersStay

ServicesNext ==
    /\ UNCHANGED part
    /\ \/ Operate \/ Bells \/ Endpoints \/ Contexts \/ Routing
       \/ Statuses \/ Members \/ Cloning \/ Shops \/ Streaming

ServicesSpec ==
    ServicesInit /\ [][ServicesNext]_<<part, vars, bellVars, routingVars, contextVars, routeVars,
        statusVars, memberVars, gitVars, shopVars, streamVars>>

\* Bound: two tasks of a plugin at a time, one from the first answer to a request on.
FewRunning ==
    LET atATime == FoldFunction(+, 0, [c \in Context |-> Setting(c) + handlings[c] + tasks[c]])
    IN  atATime <= IF \A r \in Request : replies[r].sent = 0 THEN 2 ELSE 1

\* The variables of the other components never change.
PartView ==
    <<part, CASE part = "operations" -> vars
              [] part = "bell" -> bellVars
              [] part = "routing" -> routingVars
              [] part = "context" -> contextVars
              [] part = "routes" -> routeVars
              [] part = "status" -> statusVars
              [] part = "members" -> memberVars
              [] part = "git" -> gitVars
              [] part = "repos" -> shopVars
              [] part = "streams" -> streamVars>>
=============================================================================

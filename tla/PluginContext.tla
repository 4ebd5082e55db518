---------------------------- MODULE PluginContext ----------------------------
(***************************************************************************)
(* What a plugin holds through its ModuleContext: subscriptions on the     *)
(* event bus, requests that wait for a reply, background tasks; and how    *)
(* dispose() takes them back.                                              *)
(*                                                                         *)
(* One plugin is loaded, disabled, enabled and unloaded; every load makes  *)
(* a context.  setup() and the handlers of events are coroutines and run   *)
(* as tasks of the bus, which dispose() does not know: one that is still   *)
(* running goes on with a context that was disposed of, and may subscribe, *)
(* start tasks and make requests.  The bus takes callbacks of the same     *)
(* name for duplicates, and those of two contexts of a plugin have that.   *)
(***************************************************************************)
EXTENDS Integers, FiniteSets, Functions

CONSTANTS
    Loads,    \* bound on how often the plugin is loaded
    Setups,   \* bound on how many setup() tasks run at a time
    Handlings,\* bound on how many handlers of a context run at a time, and on how
              \* often one of them adds a callback
    Request,  \* the calls of request(): the bound on them
    Replies   \* bound on how often one of them is answered

ASSUME ContextAssumption == {Loads, Setups, Handlings, Replies} \subseteq Nat /\ IsFiniteSet(Request)

Context == 1..Loads
None    == 0

\* Names of callbacks: the handler a setup() subscribes, the listener that
\* request() subscribes for its reply topic.
Key == {"handler", "reply"}

VARIABLES
    loaded,     \* contexts made so far; the last one may be registered
    entry,      \* status of the registry's entry, "none" without one
    setups,     \* setup() tasks of a context before and after they subscribe
    handlings,  \* tasks of the bus that run a handler of a context
    tasks,      \* tasks of ModuleContext.create_task() that run
    subscribers,\* GlobalEventBus.subscribers, by name: how many callbacks of a context
    subKeys,    \* GlobalEventBus._subscriber_keys
    subscribed, \* ModuleContext._subscriptions
    listening,  \* contexts with the reply topic in _reply_listeners
    request,    \* the context, caller, future and result of a request()
    awaited,    \* ModuleContext._pending_requests
    replies,    \* emitted for a request; due: to be set by the loop
    left        \* contexts disposed of while a setup() or a handler of theirs ran

running   == <<loaded, entry, setups, handlings, tasks, left>>
onBus     == <<subscribers, subKeys, subscribed, listening>>
waiting   == <<request, awaited, replies>>
contextVars == <<running, onBus, waiting>>

NoRequest == [by |-> 0, caller |-> "none", future |-> "none", result |-> "none"]

ContextInit ==
    /\ loaded = 0 /\ entry = "none"
    /\ setups = [c \in Context |-> [new |-> 0, old |-> 0]] 
    /\ handlings = [c \in Context |-> 0] /\ tasks = [c \in Context |-> 0]
    /\ subscribers = [k \in Key |-> [c \in Context |-> 0]] /\ subKeys = {}
    /\ subscribed = [c \in Context |-> {}] /\ listening = {}
    /\ request = [r \in Request |-> NoRequest] /\ awaited = {}
    /\ replies = [r \in Request |-> [sent |-> 0, due |-> 0]]
    /\ left = {}

Registered(c) == c = loaded /\ entry # "none"
Setting(c)    == setups[c].new + setups[c].old
OnTheBus(k)   == {c \in Context : subscribers[k][c] > 0}

-----------------------------------------------------------------------------
(* The bus.                                                                *)

\* subscribe(): a callback with a name that is known is a duplicate.
Added(k, c) == IF k \in subKeys THEN subscribers ELSE [subscribers EXCEPT ![k][c] = @ + 1]

\* Wrong: the name of a callback that is removed stays taken.
KeysKept(ks) == subKeys

\* unsubscribe() removes by identity and frees the name, also that of a
\* callback that was never added.
KeysAfter(ks) == subKeys \ ks

\* ModuleContext.subscribe() lists the callback, taken by the bus or not.
Subscribes(c, k) ==
    /\ subscribers' = Added(k, c)
    /\ subKeys' = subKeys \cup {k}
    /\ subscribed' = [subscribed EXCEPT ![c] = @ \cup {k}]

-----------------------------------------------------------------------------
(* dispose(), which cancels the tasks of create_task() and no other.       *)

Removed(c) ==
    [k \in Key |-> IF k \in subscribed[c] THEN [subscribers[k] EXCEPT ![c] = 0] ELSE subscribers[k]]

NotListening(c) == listening \ {c}

\* The futures that are cancelled; their requests are forgotten.
Cancelled(c) ==
    [r \in Request |-> IF r \in awaited /\ request[r].by = c /\ request[r].future = "pending"
                       THEN [request[r] EXCEPT !.future = "cancelled"] ELSE request[r]]

Dispose(c) ==
    /\ subscribers' = Removed(c)
    /\ subKeys' = KeysAfter(subscribed[c])
    /\ subscribed' = [subscribed EXCEPT ![c] = {}]
    /\ listening' = NotListening(c)
    /\ request' = Cancelled(c)
    /\ awaited' = {r \in awaited : request[r].by # c}
    /\ tasks' = [tasks EXCEPT ![c] = 0]
    /\ left' = IF Setting(c) + handlings[c] > 0 THEN left \cup {c} ELSE left
    /\ UNCHANGED replies

-----------------------------------------------------------------------------
(* The manager.                                                            *)

Load ==
    /\ entry = "none" /\ loaded < Loads
    /\ loaded' = loaded + 1 /\ entry' = "initializing"
    /\ UNCHANGED <<setups, handlings, tasks, left, onBus, waiting>>

Unload ==
    /\ entry # "none"
    /\ Dispose(loaded)
    /\ entry' = "none"
    /\ UNCHANGED <<loaded, setups, handlings>>

Disable ==
    /\ entry \notin {"none", "disabled"}
    /\ Dispose(loaded)
    /\ entry' = "disabled"
    /\ UNCHANGED <<loaded, setups, handlings>>

\* _execute_setup(), once by toggle_module() and twice by
\* _activate_saved_plugins(): there the status a first task leaves is not yet
\* "active" when the loop over the enabled plugins comes to the entry.
Activate(n) ==
    /\ entry # "none" /\ (n = 2 => entry # "active")
    /\ n + FoldFunction(+, 0, [c \in Context |-> Setting(c)]) <= Setups
    /\ setups' = [setups EXCEPT ![loaded].new = @ + n]
    /\ entry' = "initializing"
    /\ UNCHANGED <<loaded, handlings, tasks, left, onBus, waiting>>

\* Setups of c that subscribed, or handlers; and those that do not wait for a reply.
Caller == {"setup", "handler"}
Active(c, caller) == IF caller = "setup" THEN setups[c].old ELSE handlings[c]
Waiting(c, caller) ==
    {r \in Request : request[r].by = c /\ request[r].caller = caller /\ request[r].result = "none"}
Free(c, caller) == Cardinality(Waiting(c, caller)) < Active(c, caller)

\* A setup() that ends sets the status of whichever entry there is.
SetupEnds(c, ok) ==
    /\ \/ setups[c].new > 0 /\ setups' = [setups EXCEPT ![c].new = @ - 1]
       \/ Free(c, "setup") /\ setups' = [setups EXCEPT ![c].old = @ - 1]
    /\ entry' = IF entry = "none" THEN "none" ELSE IF ok THEN "active" ELSE "failed"
    /\ UNCHANGED <<loaded, handlings, tasks, left, onBus, waiting>>

SetupSubscribes(c) ==
    /\ setups[c].new > 0
    /\ setups' = [setups EXCEPT ![c] = [new |-> @.new - 1, old |-> @.old + 1]]
    /\ Subscribes(c, "handler")
    /\ UNCHANGED <<loaded, entry, handlings, tasks, left, listening, waiting>>

\* emit() of an event the handler is subscribed to, and the end of it.
HandlerStarts(c) ==
    /\ c \in OnTheBus("handler") /\ handlings[c] < Handlings
    /\ handlings' = [handlings EXCEPT ![c] = @ + 1]
    /\ UNCHANGED <<loaded, entry, setups, tasks, left, onBus, waiting>>

HandlerEnds(c) ==
    /\ Free(c, "handler")
    /\ handlings' = [handlings EXCEPT ![c] = @ - 1]
    /\ UNCHANGED <<loaded, entry, setups, tasks, left, onBus, waiting>>

HandlerSubscribes(c) ==
    /\ Free(c, "handler") /\ subscribers["handler"][c] <= Handlings
    /\ Subscribes(c, "handler")
    /\ UNCHANGED <<running, listening, waiting>>

StartsTask(c, caller) ==
    /\ Free(c, caller) /\ tasks[c] = 0
    /\ tasks' = [tasks EXCEPT ![c] = @ + 1]
    /\ UNCHANGED <<loaded, entry, setups, handlings, left, onBus, waiting>>

TaskEnds(c) ==
    /\ tasks[c] > 0
    /\ tasks' = [tasks EXCEPT ![c] = @ - 1]
    /\ UNCHANGED <<loaded, entry, setups, handlings, left, onBus, waiting>>

-----------------------------------------------------------------------------
(* request()                                                               *)

\* By a setup() or by a handler, also of a context that was disposed of.
Ask(c, r, caller) ==
    /\ request[r] = NoRequest
    /\ Free(c, caller)
    /\ IF c \in listening THEN UNCHANGED onBus
       ELSE Subscribes(c, "reply") /\ listening' = listening \cup {c}
    /\ request' = [request EXCEPT ![r] = [by |-> c, caller |-> caller, future |-> "pending", result |-> "none"]]
    /\ awaited' = awaited \cup {r}
    /\ UNCHANGED <<running, replies>>

\* emit() of a reply: _on_reply of the contexts on the bus; the one that
\* awaits it has the loop set its future.
Reply(r) ==
    /\ request[r] # NoRequest /\ replies[r].sent < Replies
    /\ replies' = [replies EXCEPT ![r].sent = @ + 1,
                                  ![r].due = IF /\ r \in awaited /\ request[r].future = "pending"
                                                /\ request[r].by \in OnTheBus("reply")
                                             THEN @ + 1 ELSE @]
    /\ UNCHANGED <<running, onBus, request, awaited>>

\* set_result() raises if the future is done; it is left alone then.
SetResult(f) == IF f = "pending" THEN "set" ELSE "raised"

Settled(f) == IF f # "pending" THEN f ELSE SetResult(f)

Deliver(r) ==
    /\ replies[r].due > 0
    /\ request' = [request EXCEPT ![r].future = Settled(@)]
    /\ replies' = [replies EXCEPT ![r].due = @ - 1]
    /\ UNCHANGED <<running, onBus, awaited>>

\* request() returns: the reply, None after the timeout, or not at all when its
\* future was cancelled.  The timeout counts even if the future was just set.
Returns(r, result) ==
    /\ request[r].future # "none" /\ request[r].result = "none"
    /\ CASE result = "reply"     -> request[r].future = "set"
         [] result = "timeout"   -> request[r].future \in {"pending", "set"}
         [] result = "cancelled" -> request[r].future = "cancelled"
    /\ request' = [request EXCEPT ![r].result = result,
                                  ![r].future = IF @ = "pending" THEN "cancelled" ELSE @]
    /\ awaited' = awaited \ {r}
    /\ setups' = IF result = "cancelled" /\ request[r].caller = "setup"
                 THEN [setups EXCEPT ![request[r].by].old = @ - 1] ELSE setups
    /\ handlings' = IF result = "cancelled" /\ request[r].caller = "handler"
                    THEN [handlings EXCEPT ![request[r].by] = @ - 1] ELSE handlings
    /\ UNCHANGED <<loaded, entry, tasks, left, onBus, replies>>

ContextNext ==
    \/ Load \/ Unload \/ Disable \/ Activate(1) \/ Activate(2)
    \/ \E c \in Context :
          \/ \E ok \in BOOLEAN : SetupEnds(c, ok)
          \/ SetupSubscribes(c) \/ HandlerStarts(c) \/ HandlerSubscribes(c) \/ HandlerEnds(c) \/ TaskEnds(c)
          \/ \E caller \in Caller :
                StartsTask(c, caller) \/ \E r \in Request : Ask(c, r, caller)
    \/ \E r \in Request :
          \/ Reply(r) \/ Deliver(r)
          \/ \E result \in {"reply", "timeout", "cancelled"} : Returns(r, result)

ContextSpec == ContextInit /\ [][ContextNext]_contextVars

-----------------------------------------------------------------------------
(* Properties.                                                             *)

\* Types.  A context has one task at most.
ContextTypeOK ==
    /\ loaded \in 0..Loads /\ entry \in {"none", "initializing", "active", "failed", "disabled"}
    /\ setups \in [Context -> [new : Nat, old : Nat]] /\ handlings \in [Context -> Nat]
    /\ tasks \in [Context -> {0, 1}]
    /\ subscribers \in [Key -> [Context -> Nat]] /\ subKeys \subseteq Key
    /\ subscribed \in [Context -> SUBSET Key] /\ listening \subseteq Context
    /\ request \in [Request -> [by : 0..Loads, caller : {"none", "setup", "handler"},
                               future : {"none", "pending", "set", "cancelled", "raised"},
                               result : {"none", "reply", "timeout", "cancelled"}]]
    /\ awaited \subseteq Request /\ replies \in [Request -> [sent : Nat, due : Nat]]
    /\ left \subseteq Context

\* A registered plugin hears each of its callbacks, once, although its setup()
\* may run twice and an earlier context may have freed the names: unless code
\* of a disposed context took the name first.
Hears ==
    \A c \in Context, k \in Key : Registered(c) =>
        /\ subscribers[k][c] <= 1
        /\ k \in subscribed[c] => OnTheBus(k) \cap (left \cup {c}) # {}

\* A registered plugin that awaits a reply has its listener there, unless code
\* of a disposed context took the name of it first.
WaitsWithAListener ==
    \A r \in awaited : LET c == request[r].by IN
        Registered(c) => OnTheBus("reply") \cap (left \cup {c}) # {}

\* A context that was unloaded or disabled is called by nobody, runs nothing
\* and awaits nothing, but for what a setup() or a handler that outlived it did
\* since.
DisposedIsQuiet ==
    \A c \in Context : (~Registered(c) \/ entry = "disabled") /\ c \notin left =>
        /\ \A k \in Key : c \notin OnTheBus(k)
        /\ tasks[c] = 0
        /\ \A r \in awaited : request[r].by # c

\* A callback runs for the contexts that are registered, once each, and for no
\* other but those whose code outlived dispose().  A request of a registered one
\* has a listener to its reply while it waits, and a reply that comes again, or
\* after the timeout, does not fail when the loop comes to set it.
ContextSettles ==
    /\ Hears /\ DisposedIsQuiet
    /\ WaitsWithAListener /\ \A r \in Request : request[r].future # "raised"
=============================================================================

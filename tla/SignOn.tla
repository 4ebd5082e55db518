------------------------------- MODULE SignOn -------------------------------
(***************************************************************************)
(* A sign-on with an OpenID Connect provider, from the link to the         *)
(* session.  The instance that makes the link remembers its state, and so  *)
(* does the key-value store; the browser may come back to any instance,    *)
(* twice, or late.  A callback reads the state, exchanges the code for the *)
(* user, drops the state, and hands over: to the React client by a code    *)
(* that is redeemed anywhere, to a page by a result in memory.             *)
(***************************************************************************)
EXTENDS Integers, FiniteSets

CONSTANTS
    Node,    \* instances
    Callback \* what browsers send to the callback: the bound on it

ASSUME NodeAssumption == Node # {}

VARIABLES
    flow,     \* "none", "react" or "page": who asked for the link
    atStore,   \* the state's entry in the key-value store: its flow or "none"
    pending,  \* for a node, _pending_states: the state's flow or "none"
    verifier, \* the nodes that have the state's verifier
    results,  \* for a node, _pending_results: the callback whose result waits for the state
    callback, \* where a callback runs, its stage, the flow it read, and whether a read failed
    handoffs, \* for a node, _OIDC_HANDOFFS: of which callbacks
    codes,    \* callbacks whose exchange code can be redeemed
    used,     \* callbacks whose authorization code the provider has accepted
    sessions  \* how many were opened

signOnVars == <<flow, atStore, pending, verifier, results, callback, handoffs, codes, used, sessions>>

NoCallback == [at |-> "none", on |-> CHOOSE n \in Node : TRUE, flow |-> "none", blind |-> FALSE]

SignOnInit ==
    /\ flow = "none" /\ atStore = "none"
    /\ pending = [n \in Node |-> "none"]
    /\ verifier = {} /\ codes = {} /\ used = {}
    /\ results = [n \in Node |-> {}]
    /\ callback = [c \in Callback |-> NoCallback]
    /\ handoffs = [n \in Node |-> {}]
    /\ sessions = 0

\* build_login_url(): a failure of the store is logged, and the link given.
BuildLoginUrl(n, f, stored) ==
    /\ flow = "none"
    /\ flow' = f
    /\ pending' = [pending EXCEPT ![n] = f]
    /\ verifier' = verifier \cup {n}
    /\ atStore' = IF stored THEN f ELSE "none"
    /\ UNCHANGED <<results, callback, handoffs, codes, used, sessions>>

\* The entry runs out; a node that makes a link or exchanges a code forgets the
\* states that did, and with a state the result that waits.
StateExpires ==
    /\ atStore # "none"
    /\ atStore' = "none"
    /\ UNCHANGED <<flow, pending, verifier, results, callback, handoffs, codes, used, sessions>>

CleanExpiredStates(n) ==
    /\ pending[n] # "none"
    /\ pending' = [pending EXCEPT ![n] = "none"]
    /\ verifier' = verifier \ {n}
    /\ results' = [results EXCEPT ![n] = {}]
    /\ UNCHANGED <<flow, atStore, callback, handoffs, codes, used, sessions>>

-----------------------------------------------------------------------------
(* The callback.                                                           *)

CallbackGoes(c, at) == callback' = [callback EXCEPT ![c].at = at]

\* _load_state(): the node's memory, or the store if that answers.
Loaded(n, answers) == IF pending[n] # "none" THEN pending[n] ELSE IF answers THEN atStore ELSE "none"

\* state_meta_async()
ReadsFlow(c, n, answers) ==
    /\ flow # "none" /\ callback[c] = NoCallback
    /\ callback' = [callback EXCEPT ![c] = [at |-> "load", on |-> n, flow |-> Loaded(n, answers),
                                            blind |-> Loaded(n, answers) = "none"]]
    /\ UNCHANGED <<flow, atStore, pending, verifier, results, handoffs, codes, used, sessions>>

\* exchange_code(): the state is a node's own from then on.
LoadsState(c, answers) ==
    LET n == callback[c].on
        f == Loaded(n, answers)
    IN  /\ callback[c].at = "load"
        /\ CallbackGoes(c, IF f = "none" THEN "failed" ELSE "token")
        /\ pending' = [pending EXCEPT ![n] = f]
        /\ verifier' = IF f # "none" /\ pending[n] = "none" THEN verifier \cup {n} ELSE verifier
        /\ UNCHANGED <<flow, atStore, results, handoffs, codes, used, sessions>>

\* The endpoints of the provider cannot be read.
DiscoveryFails(c) ==
    /\ callback[c].at = "token"
    /\ CallbackGoes(c, "failed")
    /\ UNCHANGED <<flow, atStore, pending, verifier, results, handoffs, codes, used, sessions>>

\* The verifier is taken along, and is gone whatever the provider says.
PostsCode(c) ==
    LET n == callback[c].on IN
    /\ callback[c].at = "token"
    /\ CallbackGoes(c, IF n \in verifier THEN "posted" ELSE "unproven")
    /\ verifier' = verifier \ {n}
    /\ UNCHANGED <<flow, atStore, pending, results, handoffs, codes, used, sessions>>

\* The provider takes a code once, and with its verifier only; the answer, or
\* that of the request for the user, may be an error or lost.
ProviderAnswers(c, answers) ==
    LET accepts == callback[c].at = "posted" /\ c \notin used IN
    /\ callback[c].at \in {"posted", "unproven"}
    /\ used' = IF accepts THEN used \cup {c} ELSE used
    /\ CallbackGoes(c, IF accepts /\ answers THEN "user" ELSE "failed")
    /\ UNCHANGED <<flow, atStore, pending, verifier, results, handoffs, codes, sessions>>

\* _drop_state(): a failure of the store is not even logged.
DropsState(c, deleted) ==
    LET n == callback[c].on IN
    /\ callback[c].at = "user"
    /\ pending' = [pending EXCEPT ![n] = "none"]
    /\ verifier' = verifier \ {n}
    /\ atStore' = IF deleted THEN "none" ELSE atStore
    /\ results' = [results EXCEPT ![n] = {c}]
    /\ CallbackGoes(c, IF callback[c].flow = "react" THEN "linked" ELSE "handed")
    /\ handoffs' = IF callback[c].flow = "react" THEN handoffs ELSE [handoffs EXCEPT ![n] = @ \cup {c}]
    /\ UNCHANGED <<flow, codes, used, sessions>>

\* Wrong: the result that waits is left to a page.
LeavesResult(n) == results[n]

\* consume_result()
Consumed(n) == {}

\* create_sso_exchange_code(): if the store fails, the sign-on is lost.
CreatesCode(c, stored) ==
    LET n == callback[c].on IN
    /\ callback[c].at = "linked"
    /\ results' = [results EXCEPT ![n] = Consumed(n)]
    /\ codes' = IF stored THEN codes \cup {c} ELSE codes
    /\ CallbackGoes(c, IF stored THEN "handed" ELSE "failed")
    /\ UNCHANGED <<flow, atStore, pending, verifier, handoffs, used, sessions>>

-----------------------------------------------------------------------------
(* The sessions.                                                           *)

\* sso_token_exchange(), on any node.
TokenExchange(c) ==
    /\ c \in codes
    /\ codes' = codes \ {c}
    /\ sessions' = sessions + 1
    /\ UNCHANGED <<flow, atStore, pending, verifier, results, callback, handoffs, used>>

\* auth_complete(), on the node of the callback: elsewhere it finds no handoff.
AuthComplete(n, c) ==
    /\ c \in handoffs[n]
    /\ handoffs' = [handoffs EXCEPT ![n] = @ \ {c}]
    /\ results' = [results EXCEPT ![n] = {}]
    /\ sessions' = sessions + Cardinality(results[n])
    /\ UNCHANGED <<flow, atStore, pending, verifier, callback, codes, used>>

SignOnNext ==
    \/ StateExpires
    \/ \E n \in Node : CleanExpiredStates(n)
    \/ \E n \in Node, f \in {"react", "page"}, stored \in BOOLEAN : BuildLoginUrl(n, f, stored)
    \/ \E c \in Callback, n \in Node : AuthComplete(n, c)
    \/ \E c \in Callback, n \in Node, answers \in BOOLEAN : ReadsFlow(c, n, answers)
    \/ \E c \in Callback : DiscoveryFails(c) \/ PostsCode(c) \/ TokenExchange(c)
    \/ \E c \in Callback, b \in BOOLEAN :
          LoadsState(c, b) \/ ProviderAnswers(c, b) \/ DropsState(c, b) \/ CreatesCode(c, b)

SignOnSpec == SignOnInit /\ [][SignOnNext]_signOnVars
-----------------------------------------------------------------------------
Asker    == {"none", "react", "page"}
Returned == [at : {"none", "load", "token", "posted", "unproven", "user", "linked", "handed", "failed"},
             on : Node, flow : Asker, blind : BOOLEAN]

SignOnTypeOK ==
    /\ flow \in Asker /\ atStore \in Asker /\ pending \in [Node -> Asker]
    /\ verifier \subseteq Node /\ codes \subseteq Callback /\ used \subseteq Callback
    /\ results \in [Node -> SUBSET Callback] /\ handoffs \in [Node -> SUBSET Callback]
    /\ callback \in [Callback -> Returned] /\ sessions \in Nat


\* Every code the provider accepted makes one session at most, by one of the
\* two ways, however callbacks of the same link overlap on an instance or on
\* several; and one that was begun in the React client ends in a page only if
\* the callback could not read its state at first.
OneSessionPerCode ==
    LET handed == UNION {handoffs[n] : n \in Node} IN
    /\ sessions + Cardinality(codes) + Cardinality(handed) <= Cardinality(used)
    /\ \A c \in handed : flow = "page" \/ callback[c].blind
    /\ \A c \in codes, n \in Node : c \notin results[n]
=============================================================================

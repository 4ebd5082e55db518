------------------------------- MODULE Streams -------------------------------
(***************************************************************************)
(* The event streams of one instance: forwarders put every event of a      *)
(* whitelisted topic into the bounded queue of every open connection, and  *)
(* the generator of a connection takes them out, leaves away what its user *)
(* may not see and sends the rest, while users connect and go and the      *)
(* instance drains.                                                        *)
(*                                                                         *)
(* Of the topics one that everybody gets, one for who has signed in, and   *)
(* of notification:new one for a user and one that needs a permission,     *)
(* which is looked up when the message is taken.                           *)
(***************************************************************************)
EXTENDS Integers, Sequences, Functions

CONSTANTS
    Stream,    \* connections: the bound on them
    Forwards,  \* bound on the events that are forwarded
    QueueSize  \* maxsize of a queue

ASSUME StreamsAssumption == {Forwards, QueueSize} \subseteq Nat

VARIABLES
    published, \* what the forwarders were given, in order
    permitted, \* the users with the permission
    listeners, \* _SSE_QUEUES
    stream     \* a connection: its user, where it stands, and what its queue holds and
               \* what was sent: messages, by the place of their event in published

streamVars == <<published, permitted, listeners, stream>>

Viewers == {"nobody", "ann"}
Topics  == {"system:boot_complete", "nav:changed", "ann's", "restricted"}
Close   == 0 \* "__close__", of no event

NoStream == [user |-> "nobody", queue |-> <<>>, sent |-> <<>>, stage |-> "none",
             since |-> 0,        \* events published before it connected
             until |-> Forwards]   \* and when it left _SSE_QUEUES

StreamsInit ==
    /\ published = <<>> /\ permitted = {} /\ listeners = {}
    /\ stream = [s \in Stream |-> NoStream]

\* What the connection of a user gets, whatever its permissions.
Entitled(user, topic) ==
    \/ topic = "system:boot_complete"
    \/ topic = "nav:changed" /\ user # "nobody"
    \/ topic = "ann's" /\ user = "ann"

Shown(user, topic) == Entitled(user, topic) \/ (topic = "restricted" /\ user \in permitted)

Full(s) == Len(stream[s].queue) >= QueueSize

\* What happens to a full queue.  Before it, a wrong variant.
KeepsTheFull == listeners
LetsGoOfFull == {s \in listeners : ~Full(s)}

\* A message for every queue that has room for it.
ToAll(message) ==
    [s \in Stream |->
        IF s \in listeners /\ ~Full(s) THEN [stream[s] EXCEPT !.queue = Append(@, message)]
        ELSE IF s \in listeners \ LetsGoOfFull THEN [stream[s] EXCEPT !.until = Len(published)]
        ELSE stream[s]]

-----------------------------------------------------------------------------
(* _publish() and close_all_streams().                                     *)

Publish(topic) ==
    /\ Len(published) < Forwards
    /\ published' = Append(published, topic)
    /\ stream' = ToAll(Len(published) + 1)
    /\ listeners' = LetsGoOfFull
    /\ UNCHANGED permitted

CloseAllStreams ==
    /\ stream' = ToAll(Close)
    /\ listeners' = LetsGoOfFull
    /\ UNCHANGED <<published, permitted>>

-----------------------------------------------------------------------------
(* A connection.                                                           *)

\* The queue is registered before the generator is first run.
Connect(s, user) ==
    /\ stream[s].stage = "none"
    /\ stream' = [stream EXCEPT ![s] = [NoStream EXCEPT
           !.user = user, !.stage = "opened", !.since = Len(published)]]
    /\ listeners' = listeners \cup {s}
    /\ UNCHANGED <<published, permitted>>

Starts(s) ==
    /\ stream[s].stage = "opened"
    /\ stream' = [stream EXCEPT ![s].stage = "streaming"]
    /\ UNCHANGED <<published, permitted, listeners>>

SendsNext(s) ==
    /\ stream[s].stage = "streaming" /\ stream[s].queue # <<>>
    /\ LET message == Head(stream[s].queue) IN
          /\ message # Close
          /\ stream' = [stream EXCEPT ![s].queue = Tail(@),
                 ![s].sent = IF Shown(stream[s].user, published[message]) THEN Append(@, message) ELSE @]
    /\ UNCHANGED <<published, permitted, listeners>>

Leaves(s, stage) ==
    /\ stream' = [stream EXCEPT ![s].stage = stage,
           ![s].until = IF s \in listeners THEN Len(published) ELSE @]
    /\ listeners' = listeners \ {s}

\* The hint to reconnect.
SendsClose(s) ==
    /\ stream[s].stage = "streaming" /\ stream[s].queue # <<>>
    /\ Head(stream[s].queue) = Close
    /\ Leaves(s, "reconnect")
    /\ UNCHANGED <<published, permitted>>

\* Noticed between two messages, or where the generator is cancelled.
Disconnects(s) ==
    /\ stream[s].stage = "streaming"
    /\ Leaves(s, "gone")
    /\ UNCHANGED <<published, permitted>>

\* A client that leaves before the generator is run leaves its queue behind.
NeverStarts(s) ==
    /\ stream[s].stage = "opened"
    /\ stream' = [stream EXCEPT ![s].stage = "leaked"]
    /\ UNCHANGED <<published, permitted, listeners>>

PermissionChanges ==
    /\ permitted' = {"ann"} \ permitted
    /\ UNCHANGED <<published, listeners, stream>>

StreamsNext ==
    \/ \E topic \in Topics : Publish(topic)
    \/ CloseAllStreams \/ PermissionChanges
    \/ \E s \in Stream :
          \/ \E user \in Viewers : Connect(s, user)
          \/ Starts(s) \/ SendsNext(s) \/ SendsClose(s) \/ Disconnects(s) \/ NeverStarts(s)

StreamsSpec == StreamsInit /\ [][StreamsNext]_streamVars

-----------------------------------------------------------------------------
\* Types.  A queue never holds more than its maxsize.
StreamsTypeOK ==
    /\ published \in Seq(Topics) /\ Len(published) <= Forwards
    /\ permitted \subseteq Viewers
    /\ listeners \subseteq Stream
    /\ stream \in [Stream -> [user : Viewers, queue : Seq(0..Forwards), sent : Seq(1..Forwards),
                              stage : {"none", "opened", "streaming", "reconnect", "gone", "leaked"},
                              since : 0..Forwards, until : 0..Forwards]]
    /\ \A s \in Stream : Len(stream[s].queue) <= QueueSize

\* The last event that a connection's queue may have been given.
LastFor(s) == IF s \in listeners THEN Len(published) ELSE stream[s].until

\* The events since it connected that its user is entitled to.
Due(s) == {i \in stream[s].since + 1 .. LastFor(s) : Entitled(stream[s].user, published[i])}

\* Events one after the other, each once, whatever hints are between them.
InOrder(events) == \A i, j \in DOMAIN events : i < j /\ events[j] # Close => events[i] < events[j]

\* What a connection was sent, with what waits in its queue, is what its user is
\* entitled to of the events since it connected, each one once, in order and
\* without a hole up to the event its queue had no room for; after that it gets
\* nothing any more.  A connection that has ended was sent a first part of them.
\* Nobody is sent an event from before, or one that is meant for others.
NoHoles ==
    \A s \in Stream :
        LET sent   == Range(stream[s].sent)
            queued == Range(stream[s].queue) \ {Close}
        IN  /\ InOrder(stream[s].sent) /\ InOrder(stream[s].queue)
            /\ \A i \in sent : \A j \in queued : i < j
            /\ sent \subseteq stream[s].since + 1 .. LastFor(s)
            /\ \A i \in sent : published[i] = "restricted" \/ i \in Due(s)
            /\ CASE stream[s].stage \in {"opened", "streaming"} ->
                         Due(s) \subseteq sent \cup queued /\ queued \subseteq stream[s].since + 1 .. LastFor(s)
                 [] stream[s].stage \in {"reconnect", "gone"} ->
                         \A i \in sent : \A j \in Due(s) : j < i => j \in sent
                 [] OTHER -> sent = {}
=============================================================================

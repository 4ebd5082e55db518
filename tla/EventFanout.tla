----------------------------- MODULE EventFanout -----------------------------
(***************************************************************************)
(* What the event fan-out of the cluster promises to the subscribers of    *)
(* each instance (docs/ha/building-blocks/coordination.md: "event fan-out  *)
(* with skip my own events semantics and no replay for late joiners"):     *)
(* whatever reaches an instance was published by another one while the     *)
(* instance was a member, and it reaches it once.  Delivery itself is not  *)
(* promised here: EventLog states under which conditions it holds.         *)
(***************************************************************************)
CONSTANTS Instance, Event

VARIABLES
    published,  \* [event, origin] pairs made visible so far
    member,     \* instances that take part
    past,       \* what was published before an instance joined
    delivered   \* what its subscribers got since then

vars == <<published, member, past, delivered>>

Init ==
    /\ published = {}
    /\ member = {}
    /\ past = [i \in Instance |-> {}]
    /\ delivered = [i \in Instance |-> {}]

Join(i) ==
    /\ i \notin member
    /\ member' = member \cup {i}
    /\ past' = [past EXCEPT ![i] = published]
    /\ delivered' = [delivered EXCEPT ![i] = {}]
    /\ UNCHANGED published

Leave(i) ==
    /\ i \in member
    /\ member' = member \ {i}
    /\ UNCHANGED <<published, past, delivered>>

Publish(i, e) ==
    /\ published' = published \cup {[event |-> e, origin |-> i]}
    /\ UNCHANGED <<member, past, delivered>>

Deliver(i, S) ==
    /\ i \in member
    /\ S \subseteq published \ (past[i] \cup delivered[i])
    /\ \A p \in S : p.origin # i
    /\ delivered' = [delivered EXCEPT ![i] = @ \cup S]
    /\ UNCHANGED <<published, member, past>>

Next ==
    \E i \in Instance :
        \/ Join(i) \/ Leave(i)
        \/ \E e \in Event : Publish(i, e)
        \/ \E S \in SUBSET published : Deliver(i, S)

Spec == Init /\ [][Next]_vars
=============================================================================

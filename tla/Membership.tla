----------------------------- MODULE Membership -----------------------------
(***************************************************************************)
(* What the instances of a cluster know of each other, and the work they   *)
(* share by it: every instance writes its row and reads the rows of all    *)
(* with each heartbeat, reads who leads, and from the instances it sees    *)
(* computes for itself which of them does what.                            *)
(*                                                                         *)
(* An instance beats once in every tick.  stop() sets draining and cancels *)
(* the heartbeat in one go, so that no row ever says draining.             *)
(***************************************************************************)
EXTENDS Integers, FiniteSets

CONSTANTS
    Member,   \* the instances, positive numbers
    Ttl,      \* how old the row of a live instance may be, in ticks
    WorkItem, \* the items of a workload
    Spread,   \* how many instances are to run it
    Able,     \* those with a role it asks for
    Score,    \* Score[k][m], of the workload "all" or an item and an instance
    MemberChanges  \* bound on instances that start, stop or fail and changes of the lead

\* The scores are 64-bit digests, taken to be different for different instances.
ASSUME MembershipAssumption ==
    /\ IsFiniteSet(Member) /\ Able \subseteq Member
    /\ Ttl \in Nat \ {0} /\ Spread \in Nat \ {0} /\ MemberChanges \in Nat
    /\ \A k \in WorkItem \cup {"all"} :
          /\ \A m \in Member : Score[k][m] \in Nat
          /\ \A m, n \in Member : Score[k][m] = Score[k][n] => m = n

NoLead == 0

VARIABLES
    phase,      \* an instance is "down", "up", "stopping", or "stopped" and still running
    rowAge,     \* the age of its row in cluster_instances, Ttl + 1 when it is older
    beat,       \* its heartbeat: "due", "writing", "wrote", "seen", "led" or "done"
    view,       \* the live instances in its _instances
    leadRow,    \* holder of the lease core:leader
    leaderRead, \* the holder that its heartbeat read
    leaderId,   \* leader_id
    calls,      \* instances whose callback on the lease is still to come
    memberChanges, \* what started, stopped or failed so far
    calm        \* ticks since the last of it, up to Ttl + 2

memberVars ==
    <<phase, rowAge, beat, view, leadRow, leaderRead, leaderId, calls, memberChanges, calm>>

NoMemberRow == -1
Serving == {m \in Member : phase[m] = "up"}

\* A cluster that has been running for a while.
MembershipInit ==
    \E on \in SUBSET Member :
        /\ phase = [m \in Member |-> IF m \in on THEN "up" ELSE "down"]
        /\ rowAge = [m \in Member |-> IF m \in on THEN 0 ELSE NoMemberRow]
        /\ beat = [m \in Member |-> "done"]
        /\ view = [m \in Member |-> IF m \in on THEN on ELSE {}]
        /\ leadRow \in (IF on = {} THEN {NoLead} ELSE on)
        /\ leaderRead = [m \in Member |-> NoLead]
        /\ leaderId = [m \in Member |-> IF m \in on THEN leadRow ELSE NoLead]
        /\ calls = {} /\ memberChanges = 0 /\ calm = 0

MembersChange == memberChanges < MemberChanges /\ memberChanges' = memberChanges + 1 /\ calm' = 0

\* A row with that age is of an instance that lives.  Before it, a wrong variant.
EveryRow(m) == rowAge[m] # NoMemberRow
Fresh(m) == rowAge[m] \in 0..Ttl

-----------------------------------------------------------------------------
(* The heartbeat.                                                          *)

\* The meta data is collected, and a thread is to write it.
BeatBegins(m) ==
    /\ phase[m] = "up" /\ beat[m] = "due"
    /\ beat' = [beat EXCEPT ![m] = "writing"]
    /\ UNCHANGED <<phase, rowAge, view, leadRow, leaderRead, leaderId, calls, memberChanges, calm>>

BeatWrites(m) ==
    /\ phase[m] = "up" /\ beat[m] = "writing"
    /\ rowAge' = [rowAge EXCEPT ![m] = 0]
    /\ beat' = [beat EXCEPT ![m] = "wrote"]
    /\ UNCHANGED <<phase, view, leadRow, leaderRead, leaderId, calls, memberChanges, calm>>

\* refresh_instances()
BeatSees(m) ==
    /\ phase[m] = "up" /\ beat[m] = "wrote"
    /\ view' = [view EXCEPT ![m] = {n \in Member : Fresh(n)}]
    /\ beat' = [beat EXCEPT ![m] = "seen"]
    /\ UNCHANGED <<phase, rowAge, leadRow, leaderRead, leaderId, calls, memberChanges, calm>>

\* _refresh_leader(): a thread reads the row, and the loop sets leader_id, while
\* callbacks may have come between.  A lease that has expired has no holder.
LeaderIsRead(m) ==
    /\ phase[m] = "up" /\ beat[m] = "seen"
    /\ \E leader \in {leadRow} \cup (IF leadRow \in Serving THEN {} ELSE {NoLead}) :
           leaderRead' = [leaderRead EXCEPT ![m] = leader]
    /\ beat' = [beat EXCEPT ![m] = "led"]
    /\ UNCHANGED <<phase, rowAge, view, leadRow, leaderId, calls, memberChanges, calm>>

LeaderIsSet(m) ==
    /\ phase[m] = "up" /\ beat[m] = "led"
    /\ leaderId' = [leaderId EXCEPT ![m] = leaderRead[m]]
    /\ leaderRead' = [leaderRead EXCEPT ![m] = NoLead]
    /\ beat' = [beat EXCEPT ![m] = "done"]
    /\ UNCHANGED <<phase, rowAge, view, leadRow, calls, memberChanges, calm>>

\* The database fails; the next heartbeat comes as usual.
BeatFails(m) ==
    /\ phase[m] = "up" /\ beat[m] \in {"writing", "wrote", "seen"}
    /\ beat' = [beat EXCEPT ![m] = "done"]
    /\ MembersChange
    /\ UNCHANGED <<phase, rowAge, view, leadRow, leaderRead, leaderId, calls>>

MembersTick ==
    /\ \A m \in Serving : beat[m] = "done"
    /\ calls = {}
    /\ rowAge' = [m \in Member |-> IF rowAge[m] \in 0..Ttl THEN rowAge[m] + 1 ELSE rowAge[m]]
    /\ beat' = [m \in Member |-> IF m \in Serving THEN "due" ELSE beat[m]]
    /\ calm' = IF calm < Ttl + 2 THEN calm + 1 ELSE calm
    /\ UNCHANGED <<phase, view, leadRow, leaderRead, leaderId, calls, memberChanges>>

-----------------------------------------------------------------------------
(* Instances that start and stop, and the lead.                            *)

\* The first heartbeat is part of the start.
Joins(m) ==
    /\ phase[m] = "down" /\ MembersChange
    /\ phase' = [phase EXCEPT ![m] = "up"]
    /\ beat' = [beat EXCEPT ![m] = "due"]
    /\ UNCHANGED <<rowAge, view, leadRow, leaderRead, leaderId, calls>>

\* A thread that is about to write the row is not cancelled with the heartbeat.
StopsBeating(m) ==
    /\ phase[m] = "up" /\ MembersChange
    /\ phase' = [phase EXCEPT ![m] = "stopping"]
    /\ beat' = [beat EXCEPT ![m] = IF @ = "writing" THEN @ ELSE "done"]
    /\ calls' = calls \ {m}
    /\ UNCHANGED <<rowAge, view, leadRow, leaderRead, leaderId>>

\* Its leases go with its row.
Deregisters(m) ==
    /\ phase[m] = "stopping"
    /\ phase' = [phase EXCEPT ![m] = "stopped"]
    /\ rowAge' = [rowAge EXCEPT ![m] = NoMemberRow]
    /\ leadRow' = IF leadRow = m THEN NoLead ELSE leadRow
    /\ calm' = 0
    /\ UNCHANGED <<beat, view, leaderRead, leaderId, calls, memberChanges>>

WritesLate(m) ==
    /\ phase[m] \in {"stopping", "stopped"} /\ beat[m] = "writing"
    /\ rowAge' = [rowAge EXCEPT ![m] = 0]
    /\ beat' = [beat EXCEPT ![m] = "done"]
    /\ calm' = 0
    /\ UNCHANGED <<phase, view, leadRow, leaderRead, leaderId, calls, memberChanges>>

\* Exits, or is killed; its row and its lease stay.
Ends(m) ==
    /\ phase[m] # "down"
    /\ phase[m] = "stopped" \/ memberChanges < MemberChanges
    /\ memberChanges' = IF phase[m] = "stopped" THEN memberChanges ELSE memberChanges + 1
    /\ calm' = 0
    /\ phase' = [phase EXCEPT ![m] = "down"]
    /\ beat' = [beat EXCEPT ![m] = "done"]
    /\ calls' = calls \ {m}
    /\ view' = [view EXCEPT ![m] = {}]
    /\ leaderId' = [leaderId EXCEPT ![m] = NoLead]
    /\ leaderRead' = [leaderRead EXCEPT ![m] = NoLead]
    /\ UNCHANGED <<rowAge, leadRow>>

\* The lease is free, or its holder has not renewed it.
LeadIsTaken(m) ==
    /\ phase[m] = "up" /\ MembersChange
    /\ leadRow \notin Serving
    /\ leadRow' = m
    /\ calls' = calls \cup {m}
    /\ UNCHANGED <<phase, rowAge, beat, view, leaderRead, leaderId>>

\* The holder gives it up, or finds it lost.
LeadIsLost(m) ==
    /\ phase[m] = "up" /\ leadRow = m /\ MembersChange
    /\ leadRow' = NoLead
    /\ calls' = calls \cup {m}
    /\ UNCHANGED <<phase, rowAge, beat, view, leaderRead, leaderId>>

\* _leader_acquired()
LeaderAcquired(m) ==
    /\ m \in calls /\ leadRow = m
    /\ leaderId' = [leaderId EXCEPT ![m] = m]
    /\ calls' = calls \ {m} /\ calm' = 0
    /\ UNCHANGED <<phase, rowAge, beat, view, leadRow, leaderRead, memberChanges>>

\* _leader_lost()
LeaderLost(m) ==
    /\ m \in calls /\ leadRow # m
    /\ leaderId' = [leaderId EXCEPT ![m] = IF @ = m THEN NoLead ELSE @]
    /\ calls' = calls \ {m} /\ calm' = 0
    /\ UNCHANGED <<phase, rowAge, beat, view, leadRow, leaderRead, memberChanges>>

MembershipNext ==
    \/ MembersTick
    \/ \E m \in Member :
          \/ BeatBegins(m) \/ BeatWrites(m) \/ BeatSees(m) \/ LeaderIsRead(m) \/ LeaderIsSet(m)
          \/ BeatFails(m) \/ Joins(m) \/ StopsBeating(m) \/ Deregisters(m) \/ WritesLate(m) \/ Ends(m)
          \/ LeadIsTaken(m) \/ LeadIsLost(m) \/ LeaderAcquired(m) \/ LeaderLost(m)

MembershipSpec == MembershipInit /\ [][MembershipNext]_memberVars

-----------------------------------------------------------------------------
(* Who does the work, as an instance sees it.                              *)

\* Before the first heartbeat it sees nobody but itself.
Candidates(m) == (IF view[m] = {} THEN {m} ELSE view[m]) \cap Able

\* The instances with the highest scores for the workload.
Chosen(m) == {c \in Candidates(m) : Cardinality({d \in Candidates(m) : Score["all"][d] > Score["all"][c]}) < Spread}

\* my_shard(): the items for which no chosen instance has a higher score.
Mine(m) ==
    {k \in WorkItem : m \in Chosen(m) /\ \A c \in Chosen(m) : Score[k][m] >= Score[k][c]}

MembershipTypeOK ==
    /\ phase \in [Member -> {"down", "up", "stopping", "stopped"}]
    /\ rowAge \in [Member -> NoMemberRow..(Ttl + 1)]
    /\ beat \in [Member -> {"due", "writing", "wrote", "seen", "led", "done"}]
    /\ view \in [Member -> SUBSET Member]
    /\ leadRow \in Member \cup {NoLead} /\ calls \subseteq Member
    /\ memberChanges \in 0..MemberChanges /\ calm \in 0..(Ttl + 2)
    /\ leaderRead \in [Member -> Member \cup {NoLead}] /\ leaderId \in [Member -> Member \cup {NoLead}]

\* A lifetime of a row and a heartbeat after the last instance started, stopped
\* or failed the others see exactly those that are up, and who leads; every item
\* is then done by one of them, by whichever each thinks it is.
WorkSettles ==
    calm > Ttl + 1 =>
        /\ \A m \in Serving : view[m] = Serving /\ (leadRow \in Serving \cup {NoLead} => leaderId[m] = leadRow)
        /\ Serving \cap Able # {} => \A k \in WorkItem : Cardinality({m \in Serving : k \in Mine(m)}) = 1
=============================================================================

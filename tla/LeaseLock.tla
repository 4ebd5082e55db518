------------------------------ MODULE LeaseLock ------------------------------
(***************************************************************************)
(* What a lease promises to whoever does its work                          *)
(* (docs/ha/architecture.md: "A lease is exactly one instance does this",  *)
(* released on a graceful stop, else free after its time to live): an      *)
(* instance is sure of a lease only after it got it while it was free, and *)
(* the lease is nobody else's until it has stopped being sure.  Many       *)
(* leases may move at once, as time passes or an instance dies.            *)
(***************************************************************************)
CONSTANTS Instance, Name, Nobody

VARIABLES
    owner,  \* whose a lease is, or Nobody
    sure    \* the instances that may do its work

lockVars == <<owner, sure>>

LockInit ==
    /\ owner = [n \in Name |-> Nobody]
    /\ sure = [n \in Name |-> {}]

\* A free lease is given to i, who does not know it yet.
Given(n, i) ==
    /\ owner[n] = Nobody /\ sure[n] = {}
    /\ owner'[n] = i /\ sure'[n] = {}

\* The owner hears that it is.
Confirmed(n) ==
    /\ owner[n] # Nobody
    /\ owner'[n] = owner[n] /\ sure'[n] = {owner[n]}

\* The owner was not confirmed for long, or gives up the work.
Doubted(n) == owner'[n] = owner[n] /\ sure'[n] = {}

\* It is given back, or its time is over.
Freed(n) == owner'[n] = Nobody /\ sure'[n] = {}

LockNext ==
    /\ owner' \in [Name -> Instance \cup {Nobody}]
    /\ sure' \in [Name -> SUBSET Instance]
    /\ \A n \in Name :
          \/ Confirmed(n) \/ Doubted(n) \/ Freed(n)
          \/ \E i \in Instance : Given(n, i)

LockSpec == LockInit /\ [][LockNext]_lockVars
=============================================================================

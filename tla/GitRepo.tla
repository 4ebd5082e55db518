------------------------------- MODULE GitRepo -------------------------------
(***************************************************************************)
(* The git service and one of its repositories on one instance: git:sync   *)
(* and git:commit_push under the lock of the repository, each in a thread  *)
(* that runs git step by step, while plugins write into the work tree,     *)
(* others push to the remote, and the process may die.                     *)
(*                                                                         *)
(* The content is a set of changes: 1..Edits are what plugins write here,  *)
(* Theirs is what others push.  remote.push() of GitPython does not raise  *)
(* when the remote refuses the branch, only when it cannot be asked.       *)
(***************************************************************************)
EXTENDS Integers

CONSTANTS
    Edits,    \* bound on the changes written here
    GitCall,  \* the requests: the bound on them
    Deaths    \* bound on how often the process dies

ASSUME GitAssumption == {Edits, Deaths} \subseteq Nat

Theirs == 0

VARIABLES
    via,       \* how the remote is reached: "https", "ssh", "local" for none
    remote,    \* changes on the branch of the remote
    tracking,  \* origin/<branch>
    branch,    \* the local branch
    tree,      \* changes of the work tree that are not on the branch
    dir,       \* the directory: "empty", "files" without .git, "clone", "broken"
    indexLock, \* .git/index.lock was left behind
    gitCall,   \* a request: what it does, its stage, what it staged, its answer
    discarded, \* commits that a sync took off the branch
    deaths

gitVars == <<via, remote, tracking, branch, tree, dir, indexLock, gitCall, discarded, deaths>>

NoGitCall == [does |-> "none", stage |-> "none", took |-> {}, answer |-> "none", refused |-> FALSE]

GitInit ==
    /\ via \in {"https", "ssh", "local"}
    /\ remote = {} /\ tracking = {} /\ branch = {} /\ tree = {}
    /\ dir = "empty" /\ indexLock = FALSE
    /\ gitCall = [r \in GitCall |-> NoGitCall]
    /\ discarded = {} /\ deaths = 0

Working(r) == gitCall[r].stage \in {"begun", "fetched", "added", "committed"}

\* The lock of the repository.  Before it, a wrong variant.
Overlaps   == TRUE
TakesTurns == \A r \in GitCall : ~Working(r)

AtStep(r, does, stage) == gitCall[r].does = does /\ gitCall[r].stage = stage
GoesTo(r, stage)       == gitCall' = [gitCall EXCEPT ![r].stage = stage]
Answers(r, status)     == gitCall' = [gitCall EXCEPT ![r].stage = "done", ![r].answer = status]

-----------------------------------------------------------------------------
(* The surroundings.                                                       *)

WritesFile(c) ==
    /\ c \notin tree \cup branch
    /\ \A r \in GitCall : c \notin gitCall[r].took
    /\ tree' = tree \cup {c}
    /\ dir' = IF dir = "empty" THEN "files" ELSE dir
    /\ UNCHANGED <<via, remote, tracking, branch, indexLock, gitCall, discarded, deaths>>

OthersPush ==
    /\ via # "local" /\ Theirs \notin remote
    /\ remote' = remote \cup {Theirs}
    /\ UNCHANGED <<via, tracking, branch, tree, dir, indexLock, gitCall, discarded, deaths>>

AskGit(r, does) ==
    /\ gitCall[r] = NoGitCall
    /\ gitCall' = [gitCall EXCEPT ![r].does = does, ![r].stage = "waits"]
    /\ UNCHANGED <<via, remote, tracking, branch, tree, dir, indexLock, discarded, deaths>>

TurnComes(r) ==
    /\ gitCall[r].stage = "waits" /\ TakesTurns
    /\ GoesTo(r, "begun")
    /\ UNCHANGED <<via, remote, tracking, branch, tree, dir, indexLock, discarded, deaths>>

-----------------------------------------------------------------------------
(* git:sync                                                                *)

InitsLocal(r) ==
    /\ AtStep(r, "sync", "begun") /\ via = "local"
    /\ dir' = "clone"
    /\ Answers(r, "synced")
    /\ UNCHANGED <<via, remote, tracking, branch, tree, indexLock, discarded, deaths>>

\* Over https what lies in a directory without .git is deleted first.
Clones(r) ==
    /\ AtStep(r, "sync", "begun") /\ via # "local"
    /\ dir \in (IF via = "https" THEN {"empty", "files"} ELSE {"empty"})

ClonesRepo(r) ==
    /\ Clones(r)
    /\ tree' = {} /\ dir' = "clone"
    /\ tracking' = remote /\ branch' = remote
    /\ Answers(r, "synced")
    /\ UNCHANGED <<via, remote, indexLock, discarded, deaths>>

Fetches(r) ==
    /\ AtStep(r, "sync", "begun") /\ via = "https" /\ dir = "clone"
    /\ tracking' = remote
    /\ GoesTo(r, "fetched")
    /\ UNCHANGED <<via, remote, branch, tree, dir, indexLock, discarded, deaths>>

\* The branch is set to what was fetched, whatever was committed on it.  New
\* files that were never added survive, changes to tracked ones do not.
ResetsHard(r) ==
    /\ AtStep(r, "sync", "fetched") /\ ~indexLock
    /\ branch' = tracking
    /\ tree' \in {{}, tree}
    /\ discarded' = discarded \cup (branch \ tracking)
    /\ Answers(r, "synced")
    /\ UNCHANGED <<via, remote, tracking, dir, indexLock, deaths>>

\* With commits on both sides it depends on git's version whether it merges.
Pulls(r) ==
    /\ AtStep(r, "sync", "begun") /\ via = "ssh" /\ dir = "clone"
    /\ remote \subseteq branch \/ ~indexLock
    /\ tracking' = remote
    /\ branch' = branch \cup remote
    /\ Answers(r, "synced")
    /\ UNCHANGED <<via, remote, tree, dir, indexLock, discarded, deaths>>

-----------------------------------------------------------------------------
(* git:commit_push; with is_local, which is the caller's word, it only     *)
(* commits: "commit".                                                      *)

Commits(r, stage) == gitCall[r].does \in {"push", "commit"} /\ gitCall[r].stage = stage

\* A lock file is taken for a stale one; everything in the tree is staged.
AddsAll(r) ==
    /\ Commits(r, "begun") /\ dir = "clone"
    /\ indexLock' = FALSE
    /\ IF tree = {} THEN Answers(r, "no_changes")
       ELSE gitCall' = [gitCall EXCEPT ![r].stage = "added", ![r].took = tree]
    /\ UNCHANGED <<via, remote, tracking, branch, tree, dir, discarded, deaths>>

CommitsIndex(r) ==
    /\ Commits(r, "added")
    /\ branch' = branch \cup (gitCall[r].took \cap tree)
    /\ tree' = tree \ gitCall[r].took
    /\ IF gitCall[r].does = "commit" \/ via = "local"
       THEN Answers(r, "committed_locally") ELSE GoesTo(r, "committed")
    /\ UNCHANGED <<via, remote, tracking, dir, indexLock, discarded, deaths>>

\* A branch that lacks commits of the remote is refused; the remote may have
\* other reasons.
PushesBranch(r) ==
    /\ AtStep(r, "push", "committed")
    /\ \/ /\ remote \subseteq branch
          /\ remote' = branch /\ tracking' = branch
          /\ Answers(r, "pushed")
       \/ /\ UNCHANGED <<remote, tracking>>
          /\ gitCall' = [gitCall EXCEPT ![r].stage = "done", ![r].answer = "pushed", ![r].refused = TRUE]
    /\ UNCHANGED <<via, branch, tree, dir, indexLock, discarded, deaths>>

-----------------------------------------------------------------------------
(* Failures.                                                               *)

\* A step that reaches for the remote, or does not find what it needs; a clone
\* over https has deleted the files by then.
GitFails(r) ==
    /\ \/ AtStep(r, "sync", "begun") /\ via # "local"
       \/ AtStep(r, "sync", "fetched") /\ indexLock
       \/ Commits(r, "begun") /\ dir # "clone"
       \/ AtStep(r, "push", "committed")
    /\ IF Clones(r)
       THEN tree' = {} /\ dir' = "empty"
       ELSE UNCHANGED <<tree, dir>>
    /\ Answers(r, "error")
    /\ UNCHANGED <<via, remote, tracking, branch, indexLock, discarded, deaths>>

\* What dies in a clone leaves half of it, in a write to the index its lock.
ProcessDies ==
    /\ deaths < Deaths
    /\ deaths' = deaths + 1
    /\ gitCall' = [r \in GitCall |->
           IF gitCall[r].stage = "waits" \/ Working(r)
           THEN [gitCall[r] EXCEPT !.stage = "done", !.answer = "lost"] ELSE gitCall[r]]
    /\ \/ UNCHANGED <<dir, tree>>
       \/ /\ \E r \in GitCall : Clones(r)
          /\ tree' = {} /\ dir' \in {"empty", "broken"}
    /\ indexLock' \in
           IF \E r \in GitCall : gitCall[r].stage \in {"fetched", "added"} THEN {TRUE, indexLock} ELSE {indexLock}
    /\ UNCHANGED <<via, remote, tracking, branch, discarded>>

GitNext ==
    \/ \E c \in 1..Edits : WritesFile(c)
    \/ OthersPush \/ ProcessDies
    \/ \E r \in GitCall :
          \/ AskGit(r, "sync") \/ AskGit(r, "push") \/ AskGit(r, "commit") \/ TurnComes(r)
          \/ InitsLocal(r) \/ ClonesRepo(r) \/ Fetches(r) \/ ResetsHard(r) \/ Pulls(r)
          \/ AddsAll(r) \/ CommitsIndex(r) \/ PushesBranch(r) \/ GitFails(r)

GitSpec == GitInit /\ [][GitNext]_gitVars
-----------------------------------------------------------------------------
GitCallRec == [does : {"none", "sync", "push", "commit"},
               stage : {"none", "waits", "begun", "fetched", "added", "committed", "done"},
               took : SUBSET (1..Edits), refused : BOOLEAN,
               answer : {"none", "synced", "error", "no_changes", "committed_locally", "pushed", "lost"}]

GitTypeOK ==
    /\ via \in {"https", "ssh", "local"}
    /\ remote \cup tracking \cup branch \cup discarded \subseteq 0..Edits /\ tree \subseteq 1..Edits
    /\ dir \in {"empty", "files", "clone", "broken"}
    /\ indexLock \in BOOLEAN
    /\ gitCall \in [GitCall -> GitCallRec]
    /\ deaths \in 0..Deaths

\* What git:commit_push staged is not lost while the request is at work: a sync
\* waits for its turn.  With the answer "pushed" it is on the remote, unless the
\* remote refused it, which the answer does not tell; with any other answer it is
\* on the branch or got to the remote, until a sync over https takes commits that
\* are not on the remote off the branch.  A clone replaces no commits.
PushedIsThere ==
    /\ \A r \in GitCall : LET call == gitCall[r] IN
        /\ Working(r) => call.took \subseteq tree \cup branch
        /\ call.answer = "pushed" /\ ~call.refused => call.took \subseteq remote
        /\ call.answer # "lost" /\ ~Working(r) => call.took \subseteq branch \cup remote \cup discarded
    /\ discarded # {} => via = "https"
    /\ dir # "clone" => branch = {}
=============================================================================

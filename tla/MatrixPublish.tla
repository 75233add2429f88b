--------------------------- MODULE MatrixPublish ---------------------------
(***************************************************************************)
(* How results reach the state branch and the page: the publish jobs of    *)
(* matrix.yml and trunk.yml (matrix-state.sh around matrix.py merge and    *)
(* render) and the job of render-pages.yml, which share the concurrency    *)
(* group `matrix-publish'.                                                 *)
(*                                                                         *)
(* GitHub runs one job of a group at a time and keeps one waiting: a job   *)
(* that arrives replaces the one that waits, whose workflow is cancelled.  *)
(* A job that failed, was dropped or was cut off may be run again by hand; *)
(* it downloads the same results once more.                                *)
(***************************************************************************)
EXTENDS MatrixCells

CONSTANTS
    Runs,        \* workflow runs with results to publish
    Renders,     \* runs of render-pages.yml
    Results,     \* the cell results of each run
    MaxAttempts, \* attempts of a git command: 3 in git_retry
    MaxFaults,   \* bound: commands or replies lost and jobs cut off
    MaxReruns    \* bound: jobs run again by hand

ASSUME PublishAssumption ==
    /\ Runs \cap Renders = {}
    /\ Results \in [Runs -> SUBSET Cell]
    /\ MaxAttempts \in Nat \ {0} /\ MaxFaults \in Nat /\ MaxReruns \in Nat

VARIABLES
    job,        \* where each job is
    clone,      \* the scratch checkout of each job: a commit and its file
    file, rest, \* the file that the running merge works on, and what it lacks
    attempts,   \* attempts spent on the running push
    branch,     \* the tip of ci-state/matrix and the file it holds; tip 0: no branch
    page,       \* the state the deployed page was rendered from, and its tip
    merged,     \* runs whose results the branch has taken in
    faults, reruns

work == <<file, rest>>
vars == <<job, clone, work, attempts, branch, page, merged, faults, reruns>>

Jobs    == Runs \cup Renders
Active  == {"checkout", "merge", "push", "deploy"}
Over    == {"done", "failed", "dropped"}
NoFile  == [tip |-> 0, by |-> "nobody", file |-> EmptyState]

Fault  == faults < MaxFaults /\ faults' = faults + 1
Smooth == faults' = faults

NoWork == file' = EmptyState /\ rest' = {}

Goto(j, where) == job' = [job EXCEPT ![j] = where]

-----------------------------------------------------------------------------
(* The concurrency group *)

\* Mutant of Idle: workflows with groups of their own.
IdleAlways == TRUE

Idle == \A j \in Jobs : job[j] \notin Active \cup {"pending"}

Enqueue(j) ==
    IF Idle
    THEN Goto(j, "checkout")
    ELSE job' = [i \in Jobs |-> IF i = j THEN "pending"
                                ELSE IF job[i] = "pending" THEN "dropped" ELSE job[i]]

\* The builds of the workflow are over, or somebody dispatches render-pages.
Queue(j) ==
    /\ job[j] = "building"
    /\ Enqueue(j)
    /\ UNCHANGED <<clone, work, attempts, branch, page, merged, faults, reruns>>

Rerun(j) ==
    /\ job[j] \in {"failed", "dropped"}
    /\ reruns < MaxReruns
    /\ reruns' = reruns + 1
    /\ Enqueue(j)
    /\ UNCHANGED <<clone, work, attempts, branch, page, merged, faults>>

Admit(j) ==
    /\ job[j] = "pending"
    /\ \A i \in Jobs : job[i] \notin Active
    /\ Goto(j, "checkout")
    /\ UNCHANGED <<clone, work, attempts, branch, page, merged, faults, reruns>>

-----------------------------------------------------------------------------
(* The steps of a job *)

\* git_remote_head_exists_retry and fetch: only exit status 2 says that there
\* is no branch, and then the job starts an orphan.
Found(j) == clone' = [clone EXCEPT ![j] = branch] /\ Smooth

\* matrix-state.sh checkout; render-pages.yml cannot do without the branch.
Checkout(j) ==
    /\ job[j] = "checkout"
    /\ \/ /\ Found(j) /\ j \in Runs
          /\ Goto(j, "merge") /\ file' = branch.file /\ rest' = Results[j]
       \/ /\ Found(j) /\ j \in Renders
          /\ Goto(j, IF branch.tip = 0 THEN "failed" ELSE "deploy") /\ UNCHANGED work
       \/ clone' = clone /\ Fault /\ Goto(j, "failed") /\ UNCHANGED work
    /\ UNCHANGED <<attempts, branch, page, merged, reruns>>

\* matrix.py merge: one turn of its loop.  The file is written when all is in.
Merge(j) ==
    /\ job[j] = "merge"
    /\ \E c \in rest : file' = MergeCell(file, c) /\ rest' = rest \ {c}
    /\ UNCHANGED <<job, clone, attempts, branch, page, merged, faults, reruns>>

\* matrix-state.sh publish: the file is committed; after `git diff --cached' an
\* unchanged one is not.
CommitFile(j) ==
    /\ job[j] = "merge" /\ rest = {}
    /\ IF file = clone[j].file /\ clone[j].tip # 0
       THEN /\ Goto(j, "deploy")
            /\ merged' = merged \cup {j}
            /\ UNCHANGED <<clone, attempts>>
       ELSE /\ Goto(j, "push")
            /\ clone' = [clone EXCEPT ![j] = [tip |-> @.tip + 1, by |-> j, file |-> file]]
            /\ attempts' = 0
            /\ UNCHANGED merged
    /\ NoWork
    /\ UNCHANGED <<branch, page, faults, reruns>>

\* What the remote does: a fast-forward, or this very commit once more.
Accepts(j) == clone[j].tip = branch.tip + 1 \/ clone[j] = branch

\* Mutant of RetryPush: an off-by-one in the attempts of retry_command.
RetryPushOnceMore(j) ==
    /\ attempts' = attempts + 1
    /\ Goto(j, IF attempts > MaxAttempts THEN "failed" ELSE "push")

\* Mutant of RetryPush: a push that keeps failing does not fail the job.
RetryPushIgnored(j) ==
    /\ attempts' = attempts + 1
    /\ Goto(j, IF attempts + 1 >= MaxAttempts THEN "deploy" ELSE "push")

RetryPush(j) ==
    /\ attempts' = attempts + 1
    /\ Goto(j, IF attempts + 1 >= MaxAttempts THEN "failed" ELSE "push")

Push(j) ==
    /\ job[j] = "push"
    /\ \/ /\ Accepts(j)
          /\ branch' = clone[j] /\ merged' = merged \cup {j}
          /\ Goto(j, "deploy")
          /\ Smooth /\ UNCHANGED attempts
       \/ /\ Accepts(j)                        \* the reply is lost
          /\ branch' = clone[j] /\ merged' = merged \cup {j}
          /\ RetryPush(j)
          /\ Fault
       \/ /\ UNCHANGED <<branch, merged>>      \* lost, or not a fast-forward
          /\ RetryPush(j)
          /\ (IF Accepts(j) THEN Fault ELSE Smooth)
    /\ UNCHANGED <<clone, work, page, reruns>>

\* matrix.py render from the scratch checkout, and deploy-pages.
Deploy(j) ==
    /\ job[j] = "deploy"
    /\ page' = clone[j]
    /\ Goto(j, "done")
    /\ UNCHANGED <<clone, work, attempts, branch, merged, faults, reruns>>

\* The job times out, is cancelled or loses its runner, wherever it is; a
\* deployment may be through by then.
Interrupt(j) ==
    /\ job[j] \in Active
    /\ Goto(j, "failed")
    /\ page' \in {page} \cup (IF job[j] = "deploy" THEN {clone[j]} ELSE {})
    /\ Fault
    /\ NoWork
    /\ UNCHANGED <<clone, attempts, branch, merged, reruns>>

-----------------------------------------------------------------------------
Init ==
    /\ job = [j \in Jobs |-> "building"]
    /\ clone = [j \in Jobs |-> NoFile]
    /\ file = EmptyState /\ rest = {} /\ attempts = 0
    /\ branch = NoFile /\ page = NoFile
    /\ merged = {}
    /\ faults = 0 /\ reruns = 0

Proceed(j) == Checkout(j) \/ Merge(j) \/ CommitFile(j) \/ Push(j) \/ Deploy(j)

Next == \E j \in Jobs : Queue(j) \/ Rerun(j) \/ Admit(j) \/ Proceed(j) \/ Interrupt(j)

Spec == Init /\ [][Next]_vars
-----------------------------------------------------------------------------
Commit == [tip : Nat, by : Jobs \cup {"nobody"}, file : State]

TypeOK ==
    /\ job \in [Jobs -> {"building", "pending"} \cup Active \cup Over]
    /\ clone \in [Jobs -> Commit] /\ branch \in Commit /\ page \in Commit
    /\ file \in State /\ rest \subseteq Cell
    /\ attempts \in 0..MaxAttempts
    /\ merged \subseteq Runs
    /\ faults \in 0..MaxFaults /\ reruns \in 0..MaxReruns

Published == UNION {Results[r] : r \in merged}

\* The branch is what the runs pushed to it say, each taken in whole or not at
\* all: a lost reply, a repeated push, a job cut off and run again neither
\* lose nor double anything, nor does a failed lookup start the history anew.
BranchIsWhole ==
    /\ ShowsNewest(branch.file, Published)
    /\ KeepsInterruption(branch.file, Published)

\* "Their publishes must never race": the page never goes back to an older
\* state than the one it showed.
PageNeverOlder == [][page'.tip >= page.tip]_vars

\* A job that reports success leaves the page at the tip of the branch, with
\* the results of its run in it.
DoneIsShown ==
    [][\A j \in Jobs : job[j] # "done" /\ job'[j] = "done" =>
          page' = branch' /\ (j \in Runs => j \in merged')]_vars

\* Jobs proceed and GitHub admits the one that waits.
FairSpec == Spec /\ \A j \in Jobs : WF_vars(Admit(j)) /\ WF_vars(Proceed(j)) /\ WF_vars(Queue(j))

\* Every run's job ends, and unless it failed or was replaced while it waited,
\* its results are on the branch.
EveryRunEnds ==
    \A r \in Runs : <>[](\/ job[r] = "done" /\ r \in merged
                         \/ job[r] \in {"failed", "dropped"})
=============================================================================

------------------------ MODULE MatrixPublishProofs ------------------------
(* The state branch and the page, for any runs, renders and results, and   *)
(* any number of faults and reruns.                                        *)
EXTENDS MatrixPublish, MatrixCellsProofs

OneActive == \A i, j \in Jobs : job[i] \in Active /\ job[j] \in Active => i = j

\* What the one job at work has in hand.
InHand(j) ==
    /\ job[j] = "merge" =>
          /\ j \in Runs /\ clone[j] = branch /\ rest \subseteq Results[j]
          /\ Tells(file, Published \cup (Results[j] \ rest))
    /\ job[j] = "push" =>
          /\ j \in Runs /\ attempts < MaxAttempts
          /\ \/ /\ clone[j].tip = branch.tip + 1
                /\ Tells(clone[j].file, Published \cup Results[j])
             \/ clone[j] = branch /\ j \in merged
    /\ job[j] = "deploy" => clone[j] = branch /\ (j \in Runs => j \in merged)

PublishInv ==
    /\ TypeOK
    /\ OneActive
    /\ Tells(branch.file, Published)
    /\ page.tip <= branch.tip
    /\ \A j \in Jobs : InHand(j)

-----------------------------------------------------------------------------
LEMMA ResultsShape ==
    ASSUME TypeOK
    PROVE  Published \subseteq Cell /\ \A r \in Runs : Results[r] \subseteq Cell
BY PublishAssumption DEF TypeOK, Published

\* The job at work takes a step of its own.
LEMMA ActiveStep ==
    ASSUME PublishInv, TypeOK', NEW j \in Jobs, job[j] \in Active,
           NEW where, Goto(j, where), InHand(j)',
           Tells(branch.file, Published)', page'.tip <= branch'.tip
    PROVE  PublishInv'
<1>1. job'[j] = where /\ \A i \in Jobs : i # j => job'[i] = job[i] /\ job[i] \notin Active
  BY DEF PublishInv, TypeOK, OneActive, Goto
<1>2. OneActive'
  BY <1>1 DEF OneActive
<1>3. ASSUME NEW i \in Jobs PROVE InHand(i)'
  <2>1. CASE i # j
    BY <1>1, <2>1 DEF InHand, Active
  <2> QED BY <2>1
<1> QED BY <1>2, <1>3 DEF PublishInv

\* A job comes, waits, replaces one that waits, or starts.
LEMMA QueueStep ==
    ASSUME PublishInv, TypeOK', UNCHANGED <<clone, work, attempts, branch, page, merged>>,
           \A i \in Jobs : job'[i] = job[i] \/ job'[i] \in {"checkout", "pending", "dropped"},
           OneActive'
    PROVE  PublishInv'
<1>1. Published' = Published
  BY DEF Published
<1>2. ASSUME NEW i \in Jobs PROVE InHand(i)'
  BY <1>1 DEF PublishInv, InHand, work
<1> QED BY <1>1, <1>2 DEF PublishInv

LEMMA Enqueued ==
    ASSUME PublishInv, NEW j \in Jobs, Enqueue(j)
    PROVE  /\ job' \in [Jobs -> {"building", "pending"} \cup Active \cup Over]
           /\ \A i \in Jobs : job'[i] = job[i] \/ job'[i] \in {"checkout", "pending", "dropped"}
           /\ OneActive'
<1> USE DEF PublishInv, TypeOK, OneActive, Active, Over
<1>1. CASE Idle
  BY <1>1 DEF Enqueue, Goto, Idle
<1>2. CASE ~Idle
  BY <1>2 DEF Enqueue
<1> QED BY <1>1, <1>2

LEMMA AdmitStep ==
    ASSUME PublishInv, NEW j \in Jobs, Queue(j) \/ Rerun(j) \/ Admit(j)
    PROVE  PublishInv'
<1>1. UNCHANGED <<clone, work, attempts, branch, page, merged, faults>>
  BY DEF Queue, Rerun, Admit
<1>2. reruns' \in 0..MaxReruns
  BY PublishAssumption DEF Queue, Rerun, Admit, PublishInv, TypeOK
<1>3. /\ job' \in [Jobs -> {"building", "pending"} \cup Active \cup Over]
      /\ \A i \in Jobs : job'[i] = job[i] \/ job'[i] \in {"checkout", "pending", "dropped"}
      /\ OneActive'
  <2>1. CASE Queue(j) \/ Rerun(j)
    BY <2>1, Enqueued DEF Queue, Rerun
  <2>2. CASE Admit(j)
    BY <2>2 DEF Admit, Goto, PublishInv, TypeOK, OneActive, Active
  <2> QED BY <2>1, <2>2
<1>4. TypeOK'
  BY <1>1, <1>2, <1>3 DEF PublishInv, TypeOK, work
<1> QED BY <1>1, <1>3, <1>4, QueueStep

\* A failed or finished job has nothing in hand.
LEMMA OverStep ==
    ASSUME PublishInv, TypeOK', NEW j \in Jobs, job[j] \in Active,
           NEW where \in Over, Goto(j, where),
           Tells(branch.file, Published)', page'.tip <= branch'.tip
    PROVE  PublishInv'
<1>1. job'[j] = where
  BY DEF PublishInv, TypeOK, Goto
<1>2. InHand(j)'
  BY <1>1 DEF InHand, Over
<1> QED BY <1>2, ActiveStep

LEMMA FaultShape ==
    ASSUME TypeOK, Fault \/ Smooth
    PROVE  faults' \in 0..MaxFaults
BY PublishAssumption DEF TypeOK, Fault, Smooth

LEMMA CheckoutStep ==
    ASSUME PublishInv, NEW j \in Jobs, Checkout(j)
    PROVE  PublishInv'
<1> USE DEF PublishInv
<1>1. /\ UNCHANGED <<attempts, branch, page, merged, reruns>> /\ Published' = Published
      /\ faults' \in 0..MaxFaults /\ job[j] \in Active
  BY FaultShape DEF Checkout, Found, Published, Active
<1>2. CASE Found(j) /\ j \in Runs /\ Goto(j, "merge") /\ file' = branch.file /\ rest' = Results[j]
  <2>1. TypeOK'
    BY <1>1, <1>2, ResultsShape DEF TypeOK, Goto, Active, Found, Commit
  <2>2. job'[j] = "merge" /\ clone'[j] = branch
    BY <1>2 DEF TypeOK, Goto, Found
  <2>3. Published \cup (Results[j] \ rest') = Published
    BY <1>2
  <2>4. InHand(j)'
    BY <1>1, <1>2, <2>2, <2>3 DEF InHand
  <2> QED BY <1>1, <1>2, <2>1, <2>4, ActiveStep
<1>3. CASE Found(j) /\ j \in Renders /\ branch.tip # 0 /\ Goto(j, "deploy") /\ UNCHANGED work
  <2>1. TypeOK'
    BY <1>1, <1>3 DEF TypeOK, Goto, Active, Found, work
  <2>2. job'[j] = "deploy" /\ clone'[j] = branch
    BY <1>3 DEF TypeOK, Goto, Found
  <2>3. InHand(j)'
    BY <1>1, <1>3, <2>2, PublishAssumption DEF InHand
  <2> QED BY <1>1, <1>3, <2>1, <2>3, ActiveStep
<1>4. CASE Goto(j, "failed") /\ (Found(j) \/ clone' = clone) /\ UNCHANGED work
  <2>1. TypeOK'
    BY <1>1, <1>4 DEF TypeOK, Goto, Over, Found, work
  <2> QED BY <1>1, <1>4, <2>1, OverStep DEF Over
<1> QED BY <1>2, <1>3, <1>4 DEF Checkout

LEMMA MergeStep ==
    ASSUME PublishInv, NEW j \in Jobs, Merge(j)
    PROVE  PublishInv'
<1> USE DEF PublishInv
<1>1. PICK c \in rest : file' = MergeCell(file, c) /\ rest' = rest \ {c}
  BY DEF Merge
<1>2. /\ UNCHANGED <<job, clone, attempts, branch, page, merged, faults, reruns>>
      /\ job[j] = "merge" /\ Published' = Published
  BY DEF Merge, Published
<1>3. /\ j \in Runs /\ clone[j] = branch /\ rest \subseteq Results[j]
      /\ Tells(file, Published \cup (Results[j] \ rest))
  BY <1>2 DEF InHand
<1>4. c \in Cell /\ file \in State /\ Published \cup (Results[j] \ rest) \in SUBSET Cell
  BY <1>3, ResultsShape DEF TypeOK
<1>5. /\ file' \in State
      /\ Tells(file', (Published \cup (Results[j] \ rest)) \cup {c})
  BY <1>1, <1>3, <1>4, MergeTells
<1>6. (Published \cup (Results[j] \ rest)) \cup {c} = Published \cup (Results[j] \ rest')
  BY <1>1, <1>3
<1>7. TypeOK'
  BY <1>1, <1>2, <1>5 DEF TypeOK
<1>8. InHand(j)'
  BY <1>1, <1>2, <1>3, <1>5, <1>6 DEF InHand
<1>9. Goto(j, "merge") /\ job[j] \in Active
  BY <1>2 DEF Goto, TypeOK, Active
<1> QED BY <1>2, <1>7, <1>8, <1>9, ActiveStep

LEMMA CommitStep ==
    ASSUME PublishInv, NEW j \in Jobs, CommitFile(j)
    PROVE  PublishInv'
<1> USE DEF PublishInv
<1>1. /\ UNCHANGED <<branch, page, faults, reruns>> /\ job[j] = "merge" /\ job[j] \in Active
      /\ file' \in State /\ rest' \subseteq Cell
  BY EmptyTells DEF CommitFile, NoWork, Active
<1>2. /\ j \in Runs /\ clone[j] = branch /\ rest = {}
      /\ Tells(file, Published \cup (Results[j] \ rest))
  BY <1>1 DEF InHand, CommitFile
<1>3. Tells(file, Published \cup Results[j])
  <2>1. Results[j] \ rest = Results[j]
    BY <1>2
  <2> QED BY <1>2, <2>1
<1>4. CASE /\ file = clone[j].file /\ clone[j].tip # 0
           /\ Goto(j, "deploy") /\ merged' = merged \cup {j} /\ UNCHANGED <<clone, attempts>>
  <2>1. TypeOK'
    BY <1>1, <1>2, <1>4 DEF TypeOK, Goto, Active
  <2>2. Published' = Published \cup Results[j]
    BY <1>4 DEF Published
  <2>3. Tells(branch.file, Published)'
    BY <1>1, <1>2, <1>3, <1>4, <2>2
  <2>4. InHand(j)'
    BY <1>1, <1>2, <1>4 DEF InHand, Goto, TypeOK
  <2> QED BY <1>1, <1>4, <2>1, <2>3, <2>4, ActiveStep
<1>5. CASE /\ Goto(j, "push") /\ UNCHANGED merged /\ attempts' = 0
           /\ clone' = [clone EXCEPT ![j] = [tip |-> @.tip + 1, by |-> j, file |-> file]]
  <2>1. branch.tip \in Nat /\ file \in State
    BY DEF TypeOK, Commit
  <2>2. clone'[j] = [tip |-> branch.tip + 1, by |-> j, file |-> file]
    BY <1>2, <1>5 DEF TypeOK
  <2>3. clone' \in [Jobs -> Commit]
    BY <1>2, <1>5, <2>1 DEF TypeOK, Commit
  <2>4. TypeOK'
    BY <1>1, <1>5, <2>3, PublishAssumption DEF TypeOK, Goto, Active
  <2>5. Published' = Published
    BY <1>5 DEF Published
  <2>6. job'[j] = "push"
    BY <1>5 DEF Goto, TypeOK
  <2>7. InHand(j)'
    BY <1>1, <1>2, <1>3, <1>5, <2>2, <2>5, <2>6, PublishAssumption DEF InHand
  <2> QED BY <1>1, <1>5, <2>4, <2>5, <2>7, ActiveStep
<1> QED BY <1>4, <1>5 DEF CommitFile

\* After a push that arrives the branch is the commit of the job.
LEMMA Arrived ==
    ASSUME PublishInv, NEW j \in Jobs, job[j] = "push",
           Accepts(j), branch' = clone[j], merged' = merged \cup {j}
    PROVE  /\ Tells(branch.file, Published)'
           /\ branch.tip <= branch'.tip /\ j \in Runs
<1> USE DEF PublishInv
<1>1. branch.tip \in Nat /\ clone[j].tip \in Nat
  BY DEF TypeOK, Commit
<1>2. Published' = Published \cup Results[j]
  BY DEF Published
<1>3. j \in merged => Published' = Published
  BY DEF Published
<1>4. /\ j \in Runs
      /\ \/ clone[j].tip = branch.tip + 1 /\ Tells(clone[j].file, Published \cup Results[j])
         \/ clone[j] = branch /\ j \in merged
  <2>1. InHand(j)
    OBVIOUS
  <2> QED BY <2>1 DEF InHand
<1>5. branch.tip <= branch'.tip
  BY <1>1, <1>4
<1>6. CASE Tells(clone[j].file, Published \cup Results[j])
  BY <1>2, <1>4, <1>5, <1>6
<1>7. CASE clone[j] = branch /\ j \in merged
  BY <1>3, <1>4, <1>5, <1>7
<1> QED BY <1>4, <1>6, <1>7

LEMMA PushStep ==
    ASSUME PublishInv, NEW j \in Jobs, Push(j)
    PROVE  PublishInv'
<1> USE DEF PublishInv
<1>1. /\ UNCHANGED <<clone, work, page, reruns>> /\ job[j] = "push" /\ job[j] \in Active
      /\ faults' \in 0..MaxFaults
  BY FaultShape DEF Push, Active
<1>2. j \in Runs /\ attempts < MaxAttempts /\ attempts \in Nat /\ MaxAttempts \in Nat
  <2>1. InHand(j) /\ attempts \in 0..MaxAttempts
    BY DEF TypeOK
  <2> QED BY <1>1, <2>1, PublishAssumption DEF InHand
<1>3. page.tip \in Nat /\ branch.tip \in Nat /\ clone[j] \in Commit /\ clone[j].tip \in Nat
  BY DEF TypeOK, Commit
<1>4. CASE /\ Accepts(j) /\ branch' = clone[j] /\ merged' = merged \cup {j}
           /\ Goto(j, "deploy") /\ UNCHANGED attempts
  <2>1. TypeOK'
    BY <1>1, <1>2, <1>3, <1>4 DEF TypeOK, Goto, Active, work
  <2>2. InHand(j)'
    BY <1>1, <1>4 DEF InHand, Goto, TypeOK
  <2> QED BY <1>1, <1>3, <1>4, <2>1, <2>2, Arrived, ActiveStep
<1>5. CASE Accepts(j) /\ branch' = clone[j] /\ merged' = merged \cup {j} /\ RetryPush(j)
  <2>1. TypeOK'
    BY <1>1, <1>2, <1>3, <1>5 DEF TypeOK, RetryPush, Goto, Active, Over, work
  <2>2. Tells(branch.file, Published)' /\ page'.tip <= branch'.tip
    BY <1>1, <1>3, <1>5, Arrived
  <2>3. CASE Goto(j, "push") /\ attempts' < MaxAttempts
    <3>1. InHand(j)'
      BY <1>1, <1>2, <1>5, <2>3 DEF InHand, Goto, TypeOK
    <3> QED BY <1>1, <2>1, <2>2, <2>3, <3>1, ActiveStep
  <2>4. CASE Goto(j, "failed")
    BY <1>1, <2>1, <2>2, <2>4, OverStep DEF Over
  <2> QED BY <1>2, <1>5, <2>3, <2>4 DEF RetryPush
<1>6. CASE UNCHANGED <<branch, merged>> /\ RetryPush(j)
  <2>1. TypeOK'
    BY <1>1, <1>2, <1>6 DEF TypeOK, RetryPush, Goto, Active, Over, work
  <2>2. Published' = Published
    BY <1>6 DEF Published
  <2>3. CASE Goto(j, "push") /\ attempts' < MaxAttempts
    <3>1. InHand(j)'
      BY <1>1, <1>2, <1>6, <2>2, <2>3 DEF InHand, Goto, TypeOK
    <3> QED BY <1>1, <1>6, <2>1, <2>2, <2>3, <3>1, ActiveStep
  <2>4. CASE Goto(j, "failed")
    BY <1>1, <1>6, <2>1, <2>2, <2>4, OverStep DEF Over
  <2> QED BY <1>2, <1>6, <2>3, <2>4 DEF RetryPush
<1> QED BY <1>4, <1>5, <1>6 DEF Push

LEMMA DeployStep ==
    ASSUME PublishInv, NEW j \in Jobs, Deploy(j) \/ Interrupt(j)
    PROVE  PublishInv' /\ page'.tip >= page.tip
<1> USE DEF PublishInv
<1>1. /\ UNCHANGED <<clone, attempts, branch, merged, reruns>> /\ job[j] \in Active
      /\ file' \in State /\ rest' \subseteq Cell /\ Published' = Published
      /\ faults' \in 0..MaxFaults
  BY EmptyTells, FaultShape
  DEF Deploy, Interrupt, NoWork, Active, Published, TypeOK, work
<1>2. page' = page \/ page' = branch
  BY DEF Deploy, Interrupt, InHand
<1>3. page'.tip <= branch'.tip /\ page'.tip >= page.tip
  BY <1>1, <1>2 DEF TypeOK, Commit
<1>4. PICK where \in Over : Goto(j, where)
  BY DEF Deploy, Interrupt, Over
<1>5. TypeOK'
  BY <1>1, <1>2, <1>4 DEF TypeOK, Goto
<1> QED BY <1>1, <1>3, <1>4, <1>5, OverStep

-----------------------------------------------------------------------------
LEMMA PublishInit == Init => PublishInv
<1> SUFFICES ASSUME Init PROVE PublishInv
  OBVIOUS
<1>1. TypeOK
  BY EmptyTells, PublishAssumption DEF Init, TypeOK, NoFile, Commit
<1>2. Published = {}
  BY DEF Init, Published
<1>3. Tells(branch.file, Published) /\ page.tip <= branch.tip
  BY <1>2, EmptyTells DEF Init, NoFile
<1>4. \A j \in Jobs : job[j] = "building"
  BY DEF Init
<1> QED BY <1>1, <1>3, <1>4 DEF PublishInv, OneActive, InHand, Active

LEMMA PublishStep == PublishInv /\ [Next]_vars => PublishInv'
<1> SUFFICES ASSUME PublishInv, [Next]_vars PROVE PublishInv'
  OBVIOUS
<1>1. ASSUME NEW j \in Jobs, Queue(j) \/ Rerun(j) \/ Admit(j) PROVE PublishInv'
  BY <1>1, AdmitStep
<1>2. ASSUME NEW j \in Jobs, Proceed(j) PROVE PublishInv'
  BY <1>2, CheckoutStep, MergeStep, CommitStep, PushStep, DeployStep DEF Proceed
<1>3. ASSUME NEW j \in Jobs, Interrupt(j) PROVE PublishInv'
  BY <1>3, DeployStep
<1>4. CASE UNCHANGED vars
  BY <1>4 DEF vars, work, PublishInv, TypeOK, OneActive, InHand, Published
<1> QED BY <1>1, <1>2, <1>3, <1>4 DEF Next

LEMMA PublishInvariance == Spec => []PublishInv
  BY PublishInit, PublishStep, PTL DEF Spec

\* The jobs, their checkouts, the branch and the page keep their types; no
\* push is tried more than MaxAttempts times.
THEOREM PublishTypes == Spec => []TypeOK
  BY PublishInvariance, PTL DEF PublishInv

\* However replies are lost, pushes repeated and jobs cut off and run again,
\* the branch says what the runs pushed to it say, each taken in whole.
THEOREM BranchTells == Spec => []BranchIsWhole
<1>1. PublishInv => BranchIsWhole
  BY DEF PublishInv, Tells, BranchIsWhole
<1> QED BY PublishInvariance, <1>1, PTL

\* The page never goes back.
THEOREM PageAdvances == Spec => PageNeverOlder
<1>1. PublishInv /\ [Next]_vars => UNCHANGED vars \/ page'.tip >= page.tip
  <2> SUFFICES ASSUME PublishInv, Next PROVE page'.tip >= page.tip
    BY DEF vars
  <2>1. page.tip \in Nat
    BY DEF PublishInv, TypeOK, Commit
  <2>2. ASSUME NEW j \in Jobs, Deploy(j) \/ Interrupt(j) PROVE page'.tip >= page.tip
    BY <2>2, DeployStep
  <2>3. CASE page' = page
    BY <2>1, <2>3
  <2> QED
    BY <2>2, <2>3 DEF Next, Queue, Rerun, Admit, Proceed, Checkout, Merge, CommitFile, Push
<1> QED BY PublishInvariance, <1>1, PTL DEF Spec, PageNeverOlder

\* A job that succeeds leaves the page at the tip of the branch.
THEOREM SuccessShows == Spec => DoneIsShown
<1>1. PublishInv /\ [Next]_vars =>
        \/ UNCHANGED vars
        \/ \A j \in Jobs : job[j] # "done" /\ job'[j] = "done" =>
              page' = branch' /\ (j \in Runs => j \in merged')
  <2> SUFFICES ASSUME PublishInv, NEW j \in Jobs, job[j] # "done", job'[j] = "done", Next
               PROVE  page' = branch' /\ (j \in Runs => j \in merged')
    BY DEF vars
  <2>1. PICK i \in Jobs : Queue(i) \/ Rerun(i) \/ Admit(i) \/ Proceed(i) \/ Interrupt(i)
    BY DEF Next
  <2>2. Deploy(i) /\ i = j
    BY <2>1 DEF PublishInv, TypeOK, Queue, Rerun, Admit, Enqueue, Goto, Proceed, Checkout,
       Merge, CommitFile, Push, RetryPush, Deploy, Interrupt
  <2> QED BY <2>2 DEF Deploy, PublishInv, InHand
<1> QED BY PublishInvariance, <1>1, PTL DEF Spec, DoneIsShown
=============================================================================

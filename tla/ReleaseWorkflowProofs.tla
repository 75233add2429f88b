----------------------- MODULE ReleaseWorkflowProofs -----------------------
(* What a run of release.yml releases, for any engines and targets, any    *)
(* number of attempts, and any jobs lost.                                  *)
EXTENDS ReleaseWorkflow, FiniteSetTheorems, TLAPS

\* A rerun takes every job of the stages after the first one it takes.
DueClosed == \A j \in due, k \in AllJobs : j.stage < k.stage => k \in due

\* What runs is due and of the present stage; only the release job publishes.
Staged ==
    /\ \A j \in todo : j \in due /\ j.stage = stage
    /\ ReleaseJob \in due
    /\ stage = 5 => todo = {}
    /\ queue # {} => stage = 4 /\ todo = {}

\* Past the gate: a green pair still waits for publish(), or is released.
Gated ==
    stage = 4 /\ todo = {} =>
        \A i \in 1..Len(Order) :
            LET p == Order[i] IN
            /\ i \in queue => Green(p)
            /\ i \notin queue /\ Green(p) => published[p] = {Packages(p)}

WorkflowInv == TypeOK /\ DueClosed /\ Staged /\ Gated /\ GreenMeansAll

\* This attempt has yet to test the pair.
Awaits(p) == \/ stage <= 2 /\ Job(3, p) \in due
             \/ stage = 3 /\ Job(3, p) \in todo

CohortFits ==
    \A p \in Pairs : cohort[p] = "pass" => <<p, Packages(p)>> \in tested \/ Awaits(p)

TestedInv == WorkflowInv /\ CohortFits /\ ReleasedAsTested

-----------------------------------------------------------------------------
LEMMA PairShape == \A p \in Pairs : p[1] \in Engines /\ p[2] \in Targets
  BY DEF Pairs

LEMMA JobShape ==
    /\ \A j \in AllJobs : /\ j.stage \in 1..4
                          /\ j.stage = 1 => j.key \in Targets
                          /\ j.stage \in {2, 3} => j.key \in Pairs
                          /\ j.stage = 4 => j = ReleaseJob
                          /\ j = Job(j.stage, j.key)
    /\ \A p \in Pairs : Job(2, p) \in AllJobs /\ Job(3, p) \in AllJobs
    /\ ReleaseJob \in AllJobs
<1> USE DEF Job
<1>1. ASSUME NEW j \in AllJobs
      PROVE  \/ \E t \in Targets : j = Job(1, t)
             \/ \E p \in Pairs : j = Job(2, p) \/ j = Job(3, p)
             \/ j = ReleaseJob /\ j.stage = 4 /\ j = Job(4, j.key)
  BY DEF AllJobs, EngineJobs, VmodJobs, CohortJobs, ReleaseJob
<1>2. \A p \in Pairs : Job(2, p) \in AllJobs /\ Job(3, p) \in AllJobs
  BY DEF AllJobs, VmodJobs, CohortJobs
<1>3. ReleaseJob \in AllJobs
  BY DEF AllJobs
<1> QED BY <1>1, <1>2, <1>3

\* The job that ends is one of the present stage.
LEMMA NextJobShape ==
    ASSUME TypeOK, Staged, todo # {}
    PROVE  /\ NextJob \in todo /\ NextJob \in due /\ NextJob \in AllJobs
           /\ NextJob.stage = stage
           /\ stage = 1 => NextJob.key \in Targets
           /\ stage \in {2, 3} => NextJob.key \in Pairs
<1>1. NextJob \in todo
  BY DEF NextJob
<1> QED BY <1>1, JobShape DEF TypeOK, Staged

\* The run goes on within the stage or to the next one.
Onward ==
    /\ UNCHANGED <<attempt, due, queue, published>>
    /\ \/ stage' = stage + 1 /\ todo' = At(stage + 1, due)
       \/ stage' = stage /\ todo' \subseteq todo /\ todo' # {}

LEMMA OnwardKeeps ==
    ASSUME TypeOK, DueClosed, Staged, stage \in 1..3, Onward
    PROVE  /\ stage' \in 1..4 /\ todo' \subseteq AllJobs
           /\ DueClosed' /\ Staged' /\ Gated' /\ GreenMeansAll'
<1>1. todo' \subseteq due /\ \A j \in todo' : j.stage = stage'
  BY DEF Onward, At, Staged
<1>2. stage' \in 1..4 /\ todo' \subseteq AllJobs
  <2>1. due \subseteq AllJobs
    BY DEF TypeOK
  <2> QED BY <1>1, <2>1 DEF Onward
<1>3. queue = {} /\ ReleaseJob \in due /\ ReleaseJob.stage = 4
  BY DEF Staged, ReleaseJob, Job
<1>4. stage' = 4 => todo' # {}
  BY <1>3 DEF Onward, At
<1>5. DueClosed'
  BY DEF DueClosed, Onward
<1>6. Staged'
  BY <1>1, <1>2, <1>3 DEF Staged, Onward
<1>7. Gated' /\ GreenMeansAll'
  BY <1>2, <1>4 DEF Gated, GreenMeansAll
<1> QED BY <1>2, <1>5, <1>6, <1>7

\* Ends(NextJob, ok), for either value of ok.
NextEnds ==
    /\ Advance(NextJob)
    /\ failed' \in {failed, failed \cup {NextJob}}
    /\ UNCHANGED <<attempt, due, published>>

LEMMA EndsOnward ==
    ASSUME TypeOK, Staged, todo # {}, NextEnds, queue' = queue
    PROVE  Onward /\ failed' \subseteq AllJobs
<1>1. NextJob \in todo /\ NextJob \in AllJobs
  BY NextJobShape
<1>2. Onward
  BY <1>1 DEF NextEnds, Advance, Onward
<1>3. failed' \subseteq AllJobs
  BY <1>1 DEF NextEnds, TypeOK
<1> QED BY <1>2, <1>3

LEMMA EngineShelf ==
    ASSUME engineCache \in EngineCaches, NEW t \in Targets
    PROVE  /\ engineCache[t] \subseteq [Engines -> Artifact]
           /\ \A made \in [Engines -> Artifact] :
                 [engineCache EXCEPT ![t] = {made}] \in EngineCaches
           /\ [engineCache EXCEPT ![t] = {}] \in EngineCaches
BY DEF EngineCaches, Shelf

LEMMA VmodShelf ==
    ASSUME vmodCache \in VmodCaches, NEW p \in Pairs
    PROVE  /\ vmodCache[p] \subseteq Artifact
           /\ \A made \in Artifact : [vmodCache EXCEPT ![p] = {made}] \in VmodCaches
BY DEF VmodCaches, Shelf

\* Counted troubles stay within their bound.
LEMMA TroubleShape ==
    ASSUME TypeOK, NEW n \in Nat, Trouble(n)
    PROVE  troubles' \in 0..MaxTroubles
<1>1. troubles \in 0..MaxTroubles
  BY DEF TypeOK
<1> QED BY <1>1, WorkflowAssumption DEF Trouble

LEMMA BuiltShape ==
    ASSUME TypeOK, NEW old \in Artifact, NEW result \in Outcomes, NEW over \in BOOLEAN
    PROVE  Built(old, result, over) \in Artifact
<1>1. attempt \in 0..MaxAttempts /\ 0 \in 0..MaxAttempts /\ old.build \in 0..MaxAttempts
  <2>1. attempt \in 1..MaxAttempts /\ MaxAttempts \in Nat
    BY WorkflowAssumption DEF TypeOK
  <2>2. old.build \in 0..MaxAttempts
    BY DEF Artifact
  <2> QED BY <2>1, <2>2
<1> QED BY <1>1 DEF Artifact, Built

LEMMA ReleaseShelf ==
    ASSUME TypeOK, NEW p \in Pairs, Publishable(p)
    PROVE  [published EXCEPT ![p] = @ \cup {Packages(p)}] \in Releases
<1>1. Packages(p) \in [engine : 0..MaxAttempts, vmod : 0..MaxAttempts]
  BY DEF TypeOK, Artifact, Packages
<1>2. published[p] \cup {Packages(p)} = {Packages(p)}
  BY DEF Publishable
<1>3. published \in Releases
  BY DEF TypeOK
<1> QED BY <1>1, <1>2, <1>3 DEF Releases, Shelf

-----------------------------------------------------------------------------
(* The stages *)

\* A job of the first three stages ends, whatever it leaves behind.
LEMMA JobEnds ==
    ASSUME WorkflowInv, stage \in 1..3, todo # {}, NextEnds, queue' = queue,
           engine' \in [Pairs -> Artifact], vmod' \in [Pairs -> Artifact],
           cohort' \in [Pairs -> {"pass", "failed", "missing"}],
           engineCache' \in EngineCaches,
           vmodCache' \in VmodCaches,
           troubles' \in 0..MaxTroubles
    PROVE  WorkflowInv'
<1>1. Onward /\ failed' \subseteq AllJobs /\ attempt' = attempt /\ due' = due
      /\ published' = published
  BY EndsOnward DEF WorkflowInv, NextEnds
<1>2. stage' \in 1..4 /\ todo' \subseteq AllJobs /\ DueClosed' /\ Staged' /\ Gated' /\ GreenMeansAll'
  <2>1. TypeOK /\ DueClosed /\ Staged
    BY DEF WorkflowInv
  <2> QED BY <1>1, <2>1, OnwardKeeps
<1>3. TypeOK'
  <2>1. TypeOK
    BY DEF WorkflowInv
  <2>2. stage' \in 1..5
    BY <1>2
  <2> QED BY <1>1, <1>2, <2>1, <2>2 DEF TypeOK
<1> QED BY <1>2, <1>3 DEF WorkflowInv

LEMMA EngineStep ==
    ASSUME WorkflowInv, EngineHit \/ EngineBuild
    PROVE  WorkflowInv'
<1> DEFINE t == NextJob.key
<1>1. stage = 1 /\ todo # {} /\ queue' = queue /\ t \in Targets /\ TypeOK
      /\ UNCHANGED <<vmod, cohort, vmodCache>>
  BY NextJobShape DEF EngineHit, EngineBuild, WorkflowInv
<1>2. CASE EngineHit
  <2>1. PICK saved \in engineCache[t] :
          engine' = [p \in Pairs |-> IF p[2] = t THEN saved[p[1]] ELSE engine[p]]
    BY <1>2 DEF EngineHit
  <2>2. saved \in [Engines -> Artifact]
    BY <1>1, EngineShelf DEF TypeOK
  <2>3. engine' \in [Pairs -> Artifact]
    BY <1>1, <2>1, <2>2, PairShape DEF TypeOK
  <2>4. UNCHANGED <<engineCache, troubles>> /\ NextEnds
    BY <1>2 DEF EngineHit, Ends, NextEnds
  <2> QED BY <1>1, <2>3, <2>4, JobEnds DEF TypeOK
<1>3. CASE EngineBuild
  <2>1. PICK result \in [Engines -> Outcomes], keep \in BOOLEAN, over \in BOOLEAN :
          LET bad  == Cardinality({e \in Engines : result[e] # "pass"})
              hit  == engineCache[t] # {}
              made == [e \in Engines |-> Built(engine[<<e, t>>], result[e], over)] IN
          /\ Trouble(bad + (IF hit THEN 1 ELSE 0) + (IF keep \/ bad > 0 THEN 0 ELSE 1))
          /\ engine' = [p \in Pairs |-> IF p[2] = t THEN made[p[1]] ELSE engine[p]]
          /\ engineCache' = [engineCache EXCEPT ![t] = IF keep /\ bad = 0 THEN {made} ELSE {}]
          /\ Ends(NextJob, \A e \in Engines : result[e] # "infra_failed")
    BY <1>3, ZenonT(30) DEF EngineBuild
  <2> DEFINE bad  == Cardinality({e \in Engines : result[e] # "pass"})
             made == [e \in Engines |-> Built(engine[<<e, t>>], result[e], over)]
             cost == bad + (IF engineCache[t] # {} THEN 1 ELSE 0)
                         + (IF keep \/ bad > 0 THEN 0 ELSE 1)
  <2>2. cost \in Nat
    <3>1. bad \in Nat
      BY WorkflowAssumption, FS_Subset, FS_CardinalityType
    <3> HIDE DEF bad
    <3> QED BY <3>1
  <2>3. made \in [Engines -> Artifact]
    <3>1. ASSUME NEW e \in Engines PROVE Built(engine[<<e, t>>], result[e], over) \in Artifact
      <4>1. engine[<<e, t>>] \in Artifact
        BY <1>1 DEF TypeOK, Pairs
      <4> QED BY <1>1, <4>1, BuiltShape
    <3> QED BY <3>1
  <2> HIDE DEF made
  <2>4. engine' \in [Pairs -> Artifact]
    BY <1>1, <2>1, <2>3, PairShape DEF TypeOK, made
  <2>5. engineCache' \in EngineCaches
    <3>1. \/ engineCache' = [engineCache EXCEPT ![t] = {made}]
          \/ engineCache' = [engineCache EXCEPT ![t] = {}]
      BY <2>1 DEF made
    <3>2. engineCache \in EngineCaches
      BY <1>1 DEF TypeOK
    <3>3. t \in Targets
      BY <1>1
    <3>4. /\ [engineCache EXCEPT ![t] = {made}] \in EngineCaches
          /\ [engineCache EXCEPT ![t] = {}] \in EngineCaches
      <4> HIDE DEF t
      <4> QED BY <2>3, <3>2, <3>3, EngineShelf
    <3> QED BY <3>1, <3>4
  <2>6. troubles' \in 0..MaxTroubles
    <3>1. Trouble(cost)
      BY <2>1
    <3> HIDE DEF cost
    <3> QED BY <1>1, <2>2, <3>1, TroubleShape
  <2>7. NextEnds
    BY <2>1 DEF Ends, NextEnds
  <2> QED BY <1>1, <2>4, <2>5, <2>6, <2>7, JobEnds DEF TypeOK
<1> QED BY <1>2, <1>3

LEMMA VmodStep ==
    ASSUME WorkflowInv, VmodHit \/ VmodBuild
    PROVE  WorkflowInv'
<1> DEFINE p == NextJob.key
<1>1. stage = 2 /\ todo # {} /\ queue' = queue /\ p \in Pairs /\ TypeOK
      /\ UNCHANGED <<engine, cohort, engineCache>>
  BY NextJobShape DEF VmodHit, VmodBuild, WorkflowInv
<1>2. vmod[p] \in Artifact /\ vmodCache \in VmodCaches
  BY <1>1 DEF TypeOK
<1>3. CASE VmodHit
  <2>1. PICK saved \in vmodCache[p], over \in BOOLEAN :
          vmod' = [vmod EXCEPT ![p] = IF saved.build = 0 /\ ~over
                                      THEN [saved EXCEPT !.build = vmod[p].build] ELSE saved]
    BY <1>3 DEF VmodHit
  <2>2. saved \in Artifact
    BY <1>1, <1>2, VmodShelf
  <2>3. [saved EXCEPT !.build = vmod[p].build] \in Artifact
    BY <1>2, <2>2 DEF Artifact
  <2>4. vmod' \in [Pairs -> Artifact]
    BY <1>1, <2>1, <2>2, <2>3 DEF TypeOK
  <2>5. UNCHANGED <<vmodCache, troubles>> /\ NextEnds
    BY <1>3 DEF VmodHit, Ends, NextEnds
  <2> QED BY <1>1, <2>4, <2>5, JobEnds DEF TypeOK
<1>4. CASE VmodBuild
  <2>1. PICK result \in Outcomes, over \in BOOLEAN :
          LET made == Built(vmod[p], result, over) IN
          /\ Trouble((IF result # "pass" /\ engine[p].build > 0 THEN 1 ELSE 0)
                     + (IF vmodCache[p] # {} /\ engine[p].build > 0 THEN 1 ELSE 0))
          /\ vmod' = [vmod EXCEPT ![p] = made]
          /\ vmodCache' = [vmodCache EXCEPT ![p] = IF result = "pass" THEN {made}
                                                     ELSE IF result = "build_failed"
                                                     THEN {[made EXCEPT !.build = 0]} ELSE @]
          /\ Ends(NextJob, result # "infra_failed")
    BY <1>4 DEF VmodBuild
  <2> DEFINE made == Built(vmod[p], result, over)
             cost == (IF result # "pass" /\ engine[p].build > 0 THEN 1 ELSE 0)
                     + (IF vmodCache[p] # {} /\ engine[p].build > 0 THEN 1 ELSE 0)
  <2>2. made \in Artifact
    BY <1>1, <1>2, BuiltShape
  <2>3. [made EXCEPT !.build = 0] \in Artifact
    BY <2>2, WorkflowAssumption DEF Artifact
  <2>4. \/ vmodCache' = [vmodCache EXCEPT ![p] = {made}]
        \/ vmodCache' = [vmodCache EXCEPT ![p] = {[made EXCEPT !.build = 0]}]
        \/ vmodCache' = [vmodCache EXCEPT ![p] = vmodCache[p]]
    BY <2>1
  <2>5. cost \in Nat /\ Trouble(cost) /\ vmod' = [vmod EXCEPT ![p] = made]
    BY <2>1
  <2> HIDE DEF made, cost
  <2>6. vmodCache' \in VmodCaches
    <3>1. [vmodCache EXCEPT ![p] = vmodCache[p]] = vmodCache
      BY <1>1, <1>2 DEF VmodCaches, Shelf
    <3> QED BY <1>1, <1>2, <2>2, <2>3, <2>4, <3>1, VmodShelf
  <2>7. vmod' \in [Pairs -> Artifact] /\ troubles' \in 0..MaxTroubles
    BY <1>1, <2>2, <2>5, TroubleShape DEF TypeOK
  <2>8. NextEnds
    BY <2>1 DEF Ends, NextEnds
  <2> QED BY <1>1, <2>6, <2>7, <2>8, JobEnds DEF TypeOK
<1> QED BY <1>3, <1>4

LEMMA CohortStep ==
    ASSUME WorkflowInv, Cohort \/ Lost
    PROVE  WorkflowInv'
<1>1. stage \in 1..3 /\ todo # {} /\ TypeOK
      /\ UNCHANGED <<engine, vmod, engineCache, vmodCache, queue>>
  <2>1. CASE Cohort
    BY <2>1 DEF Cohort, WorkflowInv
  <2>2. CASE Lost
    BY <2>2 DEF Lost, WorkflowInv
  <2> QED BY <2>1, <2>2
<1>2. NextEnds
  BY DEF Cohort, Lost, Ends, NextEnds
<1>3. troubles' \in 0..MaxTroubles
  BY <1>1, TroubleShape DEF Cohort, Lost
<1>4. cohort' \in [Pairs -> {"pass", "failed", "missing"}]
  BY <1>1, NextJobShape DEF Cohort, Lost, TypeOK, WorkflowInv
<1> QED BY <1>1, <1>2, <1>3, <1>4, JobEnds DEF TypeOK

LEMMA SkipStep ==
    ASSUME WorkflowInv, Skip
    PROVE  WorkflowInv'
<1>1. Onward /\ stage \in 1..3 /\ TypeOK
  BY DEF Skip, Onward, WorkflowInv
<1>2. stage' \in 1..4 /\ todo' \subseteq AllJobs /\ DueClosed' /\ Staged' /\ Gated' /\ GreenMeansAll'
  BY <1>1, OnwardKeeps DEF WorkflowInv
<1>3. stage' \in 1..5
  BY <1>2
<1>4. TypeOK'
  BY <1>1, <1>2, <1>3 DEF Skip, TypeOK
<1> QED BY <1>2, <1>4 DEF WorkflowInv

-----------------------------------------------------------------------------
(* The release job *)

LEMMA GateStep ==
    ASSUME WorkflowInv, Gate
    PROVE  WorkflowInv'
<1> USE DEF WorkflowInv, Gate
<1>1. TypeOK'
  BY DEF TypeOK, Prepared
<1>2. DueClosed' /\ Staged'
  BY DEF DueClosed, Staged
<1>3. Gated'
  BY DEF Gated, Prepared, Green, Complete
<1>4. GreenMeansAll'
  BY DEF GreenMeansAll
<1> QED BY <1>1, <1>2, <1>3, <1>4

\* The release job is over.
LEMMA FinishStep ==
    ASSUME WorkflowInv, stage = 4, todo = {}, NEW ok \in BOOLEAN, Finish(ok),
           UNCHANGED <<attempt, todo, due, engine, vmod, cohort, engineCache, vmodCache,
                       published>>,
           troubles' \in 0..MaxTroubles,
           ok => \A p \in Pairs : published[p] = {Packages(p)}
    PROVE  WorkflowInv'
<1> USE DEF WorkflowInv, Finish
<1>1. TypeOK'
  BY JobShape DEF TypeOK
<1>2. DueClosed' /\ Staged' /\ Gated'
  BY DEF DueClosed, Staged, Gated
<1>3. GreenMeansAll'
  BY DEF GreenMeansAll, Packages
<1> QED BY <1>1, <1>2, <1>3

LEMMA PublishStep ==
    ASSUME WorkflowInv, Publish
    PROVE  WorkflowInv'
<1> USE DEF WorkflowInv
<1>1. PICK i \in queue :
        \/ /\ Publishable(Order[i])
           /\ published' = [published EXCEPT ![Order[i]] = @ \cup {Packages(Order[i])}]
           /\ queue' = queue \ {i}
           /\ UNCHANGED <<stage, failed, troubles>>
        \/ /\ published' = published
           /\ Finish(FALSE)
           /\ Trouble(IF Publishable(Order[i]) THEN 1 ELSE 0)
  BY DEF Publish
<1>2. /\ stage = 4 /\ todo = {}
      /\ UNCHANGED <<attempt, todo, due, engine, vmod, cohort, engineCache, vmodCache, tested>>
  BY DEF Publish
<1> DEFINE p == Order[i]
<1>3. p \in Pairs /\ \A k \in 1..Len(Order) : Order[k] \in Pairs
  BY WorkflowAssumption DEF TypeOK
<1>4. CASE /\ Publishable(p)
           /\ published' = [published EXCEPT ![p] = @ \cup {Packages(p)}]
           /\ queue' = queue \ {i}
           /\ UNCHANGED <<stage, failed, troubles>>
  <2>1. TypeOK'
    BY <1>2, <1>3, <1>4, ReleaseShelf DEF TypeOK
  <2>2. DueClosed' /\ Staged' /\ GreenMeansAll'
    BY <1>2, <1>4 DEF DueClosed, Staged, GreenMeansAll
  <2>3. published'[p] = {Packages(p)} /\ \A q \in Pairs : q # p => published'[q] = published[q]
    <3>1. published \in [Pairs -> SUBSET [engine : 0..MaxAttempts, vmod : 0..MaxAttempts]]
      BY DEF TypeOK, Releases, Shelf
    <3> QED BY <1>3, <1>4, <3>1 DEF Publishable
  <2>4. ASSUME NEW k \in 1..Len(Order)
        PROVE  /\ k \in queue' => Green(Order[k])'
               /\ k \notin queue' /\ Green(Order[k])' =>
                     published'[Order[k]] = {Packages(Order[k])}'
    <3>1. Green(Order[k])' = Green(Order[k]) /\ Packages(Order[k])' = Packages(Order[k])
      BY <1>2 DEF Green, Complete, Packages
    <3>2. /\ k \in queue => Green(Order[k])
          /\ k \notin queue /\ Green(Order[k]) => published[Order[k]] = {Packages(Order[k])}
      BY <1>2 DEF Gated
    <3> QED BY <1>3, <1>4, <2>3, <3>1, <3>2
  <2>5. Gated'
    BY <2>4 DEF Gated
  <2> QED BY <2>1, <2>2, <2>5
<1>5. CASE published' = published /\ Finish(FALSE) /\ Trouble(IF Publishable(p) THEN 1 ELSE 0)
  <2>1. troubles' \in 0..MaxTroubles
    BY <1>5, TroubleShape
  <2> QED BY <1>2, <1>5, <2>1, FinishStep
<1> QED BY <1>1, <1>4, <1>5

LEMMA ConcludeStep ==
    ASSUME WorkflowInv, Conclude
    PROVE  WorkflowInv'
<1>1. /\ stage = 4 /\ todo = {} /\ queue = {} /\ Finish(~Refused)
      /\ UNCHANGED <<attempt, todo, due, engine, vmod, cohort, engineCache, vmodCache,
                     published, troubles>>
  BY DEF Conclude
<1>2. ASSUME ~Refused, NEW p \in Pairs PROVE published[p] = {Packages(p)}
  <2>1. Green(p) /\ \E i \in 1..Len(Order) : Order[i] = p
    BY <1>2, WorkflowAssumption DEF Refused
  <2> QED BY <1>1, <2>1 DEF WorkflowInv, Gated
<1>3. troubles' \in 0..MaxTroubles
  BY <1>1 DEF WorkflowInv, TypeOK
<1>4. CASE Refused
  <2>1. Finish(FALSE)
    BY <1>1, <1>4 DEF Finish
  <2> QED BY <1>1, <1>3, <2>1, FinishStep
<1>5. CASE ~Refused
  <2>1. Finish(TRUE)
    BY <1>1, <1>5 DEF Finish
  <2> QED BY <1>1, <1>2, <1>3, <1>5, <2>1, FinishStep
<1> QED BY <1>4, <1>5

-----------------------------------------------------------------------------
(* Another attempt *)

LEMMA BeginShape ==
    ASSUME WorkflowInv, RerunAll \/ RerunFailed
    PROVE  \E jobs \in SUBSET AllJobs :
              /\ Begin(jobs) /\ ReleaseJob \in jobs
              /\ \A j \in jobs, k \in AllJobs : j.stage < k.stage => k \in jobs
<1>1. CASE RerunAll
  BY <1>1, JobShape DEF RerunAll
<1>2. CASE RerunFailed
  <2> DEFINE jobs == failed \cup {j \in AllJobs : \E f \in failed : f.stage < j.stage}
  <2>1. Begin(jobs) /\ failed # {} /\ failed \subseteq AllJobs
    BY <1>2 DEF RerunFailed, WorkflowInv, TypeOK
  <2>2. ReleaseJob \in jobs
    <3>1. PICK f \in failed : TRUE
      BY <2>1
    <3>2. f.stage \in 1..4 /\ (f.stage = 4 => f = ReleaseJob)
      BY <2>1, JobShape
    <3>3. ReleaseJob \in AllJobs /\ ReleaseJob.stage = 4
      BY JobShape DEF ReleaseJob, Job
    <3> QED BY <3>2, <3>3
  <2>3. ASSUME NEW j \in jobs, NEW k \in AllJobs, j.stage < k.stage PROVE k \in jobs
    <3>1. CASE j \in failed
      BY <2>3, <3>1
    <3>2. CASE j \notin failed
      <4>1. PICK f \in failed : f.stage < j.stage
        BY <3>2
      <4>2. f.stage \in 1..4 /\ j.stage \in 1..4 /\ k.stage \in 1..4
        BY <2>1, JobShape
      <4> QED BY <2>3, <4>1, <4>2
    <3> QED BY <3>1, <3>2
  <2> QED BY <2>1, <2>2, <2>3
<1> QED BY <1>1, <1>2

LEMMA BeginStep ==
    ASSUME WorkflowInv, RerunAll \/ RerunFailed
    PROVE  WorkflowInv'
<1>1. PICK jobs \in SUBSET AllJobs :
        /\ Begin(jobs) /\ ReleaseJob \in jobs
        /\ \A j \in jobs, k \in AllJobs : j.stage < k.stage => k \in jobs
  BY BeginShape
<1>2. attempt < MaxAttempts /\ stage = 5 /\ queue = {}
  BY DEF RerunAll, RerunFailed, WorkflowInv, Staged
<1>3. attempt' \in 1..MaxAttempts
  BY <1>1, <1>2, WorkflowAssumption DEF Begin, WorkflowInv, TypeOK
<1>4. TypeOK'
  BY <1>1, <1>3 DEF Begin, WorkflowInv, TypeOK, At
<1>5. DueClosed' /\ Staged'
  BY <1>1, <1>2 DEF Begin, DueClosed, Staged, At
<1>6. Gated' /\ GreenMeansAll'
  BY <1>1 DEF Begin, Gated, GreenMeansAll
<1> QED BY <1>4, <1>5, <1>6 DEF WorkflowInv

-----------------------------------------------------------------------------
(* What is released was tested *)

\* While a stage before the cohort tests has a job to run, every pair still
\* has its test ahead.
LEMMA TestsAhead ==
    ASSUME WorkflowInv, stage \in {1, 2}, todo # {}, Advance(NextJob), due' = due,
           NEW p \in Pairs
    PROVE  Awaits(p)'
<1>1. NextJob \in due /\ NextJob.stage = stage
  BY NextJobShape DEF WorkflowInv
<1>2. Job(3, p) \in AllJobs /\ Job(3, p).stage = 3
  BY JobShape DEF Job
<1>3. Job(3, p) \in due
  BY <1>1, <1>2 DEF WorkflowInv, DueClosed
<1>4. CASE stage' <= 2
  BY <1>3, <1>4 DEF Awaits
<1>5. CASE stage = 2 /\ stage' = 3 /\ todo' = At(3, due)
  BY <1>2, <1>3, <1>5 DEF Awaits, At
<1>6. stage' <= 2 \/ (stage = 2 /\ stage' = 3 /\ todo' = At(3, due))
  BY DEF Advance
<1> QED BY <1>4, <1>5, <1>6

\* Steps that leave the packages and the verdicts of the cohort tests alone,
\* and take no test away.
LEMMA SameCohort ==
    ASSUME CohortFits, UNCHANGED <<engine, vmod, cohort>>, tested \subseteq tested',
           \A p \in Pairs : Awaits(p) => Awaits(p)'
    PROVE  CohortFits'
BY DEF CohortFits, Packages

LEMMA CohortFitsStep ==
    ASSUME "cohort" \notin Losable, WorkflowInv, CohortFits, Next
    PROVE  CohortFits'
<1>1. CASE EngineHit \/ EngineBuild \/ VmodHit \/ VmodBuild \/ (Lost /\ stage \in {1, 2})
  <2>1. stage \in {1, 2} /\ todo # {} /\ Advance(NextJob) /\ due' = due
    BY <1>1 DEF EngineHit, EngineBuild, VmodHit, VmodBuild, Lost, Ends
  <2> QED BY <2>1, TestsAhead DEF CohortFits
<1>2. CASE Lost /\ stage = 3
  BY <1>2 DEF Lost, Stages
<1>3. CASE Cohort
  <2> DEFINE p == NextJob.key
  <2>1. p \in Pairs /\ stage = 3 /\ NextJob \in todo /\ NextJob = Job(3, p)
    BY <1>3, NextJobShape, JobShape DEF Cohort, WorkflowInv
  <2>2. PICK smoke \in {"pass", "failed"} :
          /\ cohort' = [cohort EXCEPT ![p] = smoke]
          /\ tested' = IF smoke = "pass" THEN tested \cup {<<p, Packages(p)>>} ELSE tested
    BY <1>3 DEF Cohort
  <2>3. \A q \in Pairs : Packages(q)' = Packages(q)
    BY <1>3 DEF Cohort, Packages
  <2>4. cohort'[p] = smoke /\ \A q \in Pairs : q # p => cohort'[q] = cohort[q]
    BY <2>1, <2>2 DEF WorkflowInv, TypeOK
  <2>5. ASSUME NEW q \in Pairs, q # p, Awaits(q) PROVE Awaits(q)'
    <3>1. Job(3, q) \in todo /\ Job(3, q) # NextJob
      BY <2>1, <2>5 DEF Awaits, Job
    <3>2. stage' = stage /\ todo' = todo \ {NextJob}
      BY <1>3, <3>1 DEF Cohort, Ends, Advance
    <3> QED BY <2>1, <3>1, <3>2 DEF Awaits
  <2>6. ASSUME NEW q \in Pairs, cohort'[q] = "pass"
        PROVE  <<q, Packages(q)'>> \in tested' \/ Awaits(q)'
    <3>1. CASE q = p
      BY <2>2, <2>3, <2>4, <2>6, <3>1
    <3>2. CASE q # p
      BY <2>2, <2>3, <2>4, <2>5, <2>6, <3>2 DEF CohortFits
    <3> QED BY <3>1, <3>2
  <2> QED BY <2>6 DEF CohortFits
<1>4. CASE Skip
  <2>1. ASSUME NEW p \in Pairs, Awaits(p) PROVE Awaits(p)'
    <3>1. stage \in {1, 2} /\ Job(3, p) \in due /\ stage' = stage + 1 /\ due' = due
      BY <1>4, <2>1 DEF Skip, Awaits
    <3>2. CASE stage = 1
      BY <3>1, <3>2 DEF Awaits
    <3>3. CASE stage = 2
      <4>1. todo' = At(3, due) /\ Job(3, p).stage = 3
        BY <1>4, <3>3 DEF Skip, Job
      <4> QED BY <3>1, <3>3, <4>1 DEF Awaits, At
    <3> QED BY <3>1, <3>2, <3>3
  <2> QED BY <1>4, <2>1, SameCohort DEF Skip
<1>5. CASE Gate \/ Publish \/ Conclude
  <2>1. stage = 4 /\ UNCHANGED <<engine, vmod, cohort, tested>>
    BY <1>5 DEF Gate, Publish, Conclude
  <2>2. \A p \in Pairs : ~Awaits(p)
    BY <2>1 DEF Awaits
  <2> QED BY <2>1, <2>2, SameCohort
<1>6. CASE RerunAll \/ RerunFailed
  <2>1. stage = 5 /\ UNCHANGED <<engine, vmod, cohort, tested>>
    BY <1>6 DEF RerunAll, RerunFailed, Begin
  <2>2. \A p \in Pairs : ~Awaits(p)
    BY <2>1 DEF Awaits
  <2> QED BY <2>1, <2>2, SameCohort
<1>7. Lost => stage \in 1..3
  BY DEF Lost
<1>8. Lost => stage \in {1, 2} \/ stage = 3
  BY <1>7
<1> QED BY <1>1, <1>2, <1>3, <1>4, <1>5, <1>6, <1>8 DEF Next

LEMMA ReleasedStep ==
    ASSUME WorkflowInv, CohortFits, ReleasedAsTested, Next
    PROVE  ReleasedAsTested'
<1>1. tested \subseteq tested'
  BY DEF Next, EngineHit, EngineBuild, VmodHit, VmodBuild, Cohort, Lost, Skip, Gate, Publish,
     Conclude, RerunAll, RerunFailed, Begin
<1>2. CASE published' = published
  BY <1>1, <1>2 DEF ReleasedAsTested
<1>3. CASE published' # published
  <2>1. PICK i \in queue :
          published' = [published EXCEPT ![Order[i]] = @ \cup {Packages(Order[i])}]
    BY <1>3 DEF Next, EngineHit, EngineBuild, VmodHit, VmodBuild, Cohort, Lost, Ends, Skip,
       Gate, Publish, Conclude, RerunAll, RerunFailed, Begin
  <2>2. stage = 4 /\ todo = {}
    BY <2>1 DEF WorkflowInv, Staged
  <2>3. Order[i] \in Pairs /\ Green(Order[i])
    BY <2>1, <2>2, WorkflowAssumption DEF WorkflowInv, TypeOK, Gated
  <2>4. <<Order[i], Packages(Order[i])>> \in tested
    BY <2>2, <2>3 DEF CohortFits, Awaits, Green
  <2>5. published \in [Pairs -> SUBSET [engine : 0..MaxAttempts, vmod : 0..MaxAttempts]]
    BY DEF WorkflowInv, TypeOK, Releases, Shelf
  <2> QED BY <1>1, <2>1, <2>3, <2>4, <2>5 DEF ReleasedAsTested
<1> QED BY <1>2, <1>3

-----------------------------------------------------------------------------
LEMMA WorkflowInit == Init => WorkflowInv /\ CohortFits /\ ReleasedAsTested
<1> SUFFICES ASSUME Init PROVE WorkflowInv /\ CohortFits /\ ReleasedAsTested
  OBVIOUS
<1> USE DEF Init
<1>1. engineCache \in EngineCaches /\ vmodCache \in VmodCaches /\ published \in Releases
  BY DEF EngineCaches, VmodCaches, Releases, Shelf
<1>2. Missing \in Artifact
  BY WorkflowAssumption DEF Missing, Artifact
<1>3. EngineJobs \subseteq AllJobs /\ \A j \in EngineJobs : j.stage = 1
  BY DEF AllJobs, EngineJobs, Job
<1>4. attempt \in 1..MaxAttempts /\ troubles \in 0..MaxTroubles
  BY WorkflowAssumption
<1>5. TypeOK
  BY <1>1, <1>2, <1>3, <1>4 DEF TypeOK
<1>6. DueClosed /\ Staged /\ Gated /\ GreenMeansAll
  BY <1>3, JobShape DEF DueClosed, Staged, Gated, GreenMeansAll
<1>7. CohortFits /\ ReleasedAsTested
  BY DEF CohortFits, ReleasedAsTested
<1> QED BY <1>5, <1>6, <1>7 DEF WorkflowInv

LEMMA WorkflowStep == WorkflowInv /\ [Next]_vars => WorkflowInv'
<1> SUFFICES ASSUME WorkflowInv, [Next]_vars PROVE WorkflowInv'
  OBVIOUS
<1>1. CASE Next
  BY <1>1, EngineStep, VmodStep, CohortStep, SkipStep, GateStep, PublishStep, ConcludeStep,
     BeginStep DEF Next
<1>2. CASE UNCHANGED vars
  BY <1>2 DEF vars, WorkflowInv, TypeOK, DueClosed, Staged, Gated, GreenMeansAll, Green,
     Complete, Packages
<1> QED BY <1>1, <1>2

LEMMA WorkflowInvariance == Spec => []WorkflowInv
<1>1. Init => WorkflowInv
  BY WorkflowInit
<1> QED BY <1>1, WorkflowStep, PTL DEF Spec

\* The stages, artifacts and caches keep their types, and a pair never has
\* two sets of released packages.
THEOREM WorkflowTypes == Spec => []TypeOK
<1>1. WorkflowInv => TypeOK
  BY DEF WorkflowInv
<1> QED BY WorkflowInvariance, <1>1, PTL

\* Whatever fails, is lost and is run again: a green workflow has released
\* every pair, with the packages of this run.
THEOREM GreenReleasesAll == Spec => []GreenMeansAll
<1>1. WorkflowInv => GreenMeansAll
  BY DEF WorkflowInv
<1> QED BY WorkflowInvariance, <1>1, PTL

\* Unless a cohort job is lost, everything released passed its tests in just
\* this combination, whatever mixture of attempts and caches it comes from.
THEOREM ReleasesTested ==
    ASSUME "cohort" \notin Losable
    PROVE  Spec => []ReleasedAsTested
<1> DEFINE Inv == WorkflowInv /\ CohortFits /\ ReleasedAsTested
<1>1. Init => Inv
  BY WorkflowInit
<1>2. Inv /\ [Next]_vars => Inv'
  <2> SUFFICES ASSUME Inv, [Next]_vars PROVE Inv'
    OBVIOUS
  <2>1. CASE Next
    BY <2>1, WorkflowStep, CohortFitsStep, ReleasedStep
  <2>2. CASE UNCHANGED vars
    <3>1. CohortFits' /\ ReleasedAsTested'
      BY <2>2 DEF vars, CohortFits, Awaits, Packages, ReleasedAsTested
    <3> QED BY <3>1, WorkflowStep
  <2> QED BY <2>1, <2>2
<1>3. Inv => ReleasedAsTested
  OBVIOUS
<1> QED BY <1>1, <1>2, <1>3, PTL DEF Spec
=============================================================================

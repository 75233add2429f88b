-------------------------- MODULE ReleaseWorkflow --------------------------
(***************************************************************************)
(* One run of release.yml and its attempts: engine batches (one job per    *)
(* target), VMOD batches and cohort tests (one job per pair of an engine   *)
(* and a target), and the release job, tools/release_assemble.py.          *)
(*                                                                         *)
(* A job that ends uploads its artifacts and results under names fixed for *)
(* the run, which a later attempt replaces; a job whose runner is lost     *)
(* uploads nothing and leaves what an earlier attempt uploaded.  Somebody  *)
(* may rerun all jobs, or the failed ones and those that need them.        *)
(* Builds are not reproducible (SCOPE.md; the changelog and the spec carry *)
(* the date): what an attempt builds is told apart by its number.          *)
(* publish() is one step here; ReleasePublish has its inside.              *)
(***************************************************************************)
EXTENDS Naturals, Sequences, FiniteSets

CONSTANTS
    Engines, Targets,
    Order,        \* the pairs as release_assemble sorts them
    Losable,      \* stages whose jobs may lose their runner
    MaxTroubles,  \* bound: cells that fail, runners and caches lost, publish errors
    MaxAttempts   \* bound: attempts of the workflow run

Pairs  == Engines \X Targets
Stages == <<"engine", "vmod", "cohort", "release">>

ASSUME WorkflowAssumption ==
    /\ Order \in Seq(Pairs)
    /\ \A p \in Pairs : \E i \in 1..Len(Order) : Order[i] = p
    /\ IsFiniteSet(Engines)
    /\ MaxTroubles \in Nat /\ MaxAttempts \in Nat \ {0}

VARIABLES
    attempt,
    stage,       \* index into Stages; 5 when the attempt is over
    todo,        \* jobs of this stage that have not ended
    due,         \* jobs of later stages that this attempt runs
    failed,      \* jobs whose conclusion is "failure"
    engine,      \* per pair: result and build (attempt) of the engine's packages
    vmod,        \* per pair: result and build of the VMOD packages
    cohort,      \* per pair: the smoke result
    engineCache, vmodCache,    \* per key, the snapshot: a set of at most one
    queue,       \* release job: places of pairs prepared and not yet published
    published,   \* per pair: the released packages, a set of at most one
    tested,      \* history: package sets that passed every check together
    troubles

vars == <<attempt, stage, todo, due, failed, engine, vmod, cohort, engineCache,
          vmodCache, queue, published, tested, troubles>>

Missing == [result |-> "missing", build |-> 0]
Job(s, key)  == [stage |-> s, key |-> key]
EngineJobs   == {Job(1, t) : t \in Targets}
VmodJobs     == {Job(2, p) : p \in Pairs}
CohortJobs   == {Job(3, p) : p \in Pairs}
ReleaseJob   == Job(4, "release")
AllJobs      == EngineJobs \cup VmodJobs \cup CohortJobs \cup {ReleaseJob}
At(s, jobs)  == {j \in jobs : j.stage = s}
PairsOf(t)   == Engines \X {t}
Packages(p)  == [engine |-> engine[p].build, vmod |-> vmod[p].build]

Trouble(n) == troubles + n <= MaxTroubles /\ troubles' = troubles + n

\* The job j ends; the stage is over with its last job.
Advance(j) == IF todo = {j}
              THEN stage' = stage + 1 /\ todo' = At(stage + 1, due)
              ELSE stage' = stage /\ todo' = todo \ {j}

\* The stage has no job to run.
Skip ==
    /\ stage \in 1..3 /\ todo = {}
    /\ stage' = stage + 1 /\ todo' = At(stage + 1, due)
    /\ UNCHANGED <<attempt, due, failed, engine, vmod, cohort, engineCache, vmodCache,
                   queue, published, tested, troubles>>

Ends(j, ok) ==
    /\ Advance(j)
    /\ failed' = IF ok THEN failed ELSE failed \cup {j}
    /\ UNCHANGED <<attempt, due, published>>

\* The jobs of one stage share nothing: some fixed order will do.
NextJob == CHOOSE j \in todo : TRUE

-----------------------------------------------------------------------------
(* Engine batches *)

\* The batch is restored from the cache as a whole.
EngineHit ==
    /\ stage = 1 /\ todo # {}
    /\ LET t == NextJob.key IN
       \E saved \in engineCache[t] :
          engine' = [p \in Pairs |-> IF p[2] = t THEN saved[p[1]] ELSE engine[p]]
    /\ Ends(NextJob, TRUE)
    /\ UNCHANGED <<vmod, cohort, engineCache, vmodCache, queue, tested, troubles>>

Outcomes == {"pass", "build_failed", "infra_failed"}

\* What a build leaves in the run's artifacts: new packages if it passed;
\* otherwise none, or those of an earlier attempt when the job had nothing to
\* upload over them (if-no-files-found: ignore).
Built(old, result, over) ==
    [result |-> result,
     build  |-> IF result = "pass" THEN attempt ELSE IF over THEN 0 ELSE old.build]

\* Every engine of the target is built anew, and they share one artifact.  The
\* snapshot is saved only if all of them passed; an eviction later is the same
\* as none being saved.
EngineBuild ==
    /\ stage = 1 /\ todo # {}
    /\ LET t == NextJob.key IN
       \E result \in [Engines -> Outcomes], keep, over \in BOOLEAN :
          LET bad  == Cardinality({e \in Engines : result[e] # "pass"})
              hit  == engineCache[t] # {}
              made == [e \in Engines |-> Built(engine[<<e, t>>], result[e], over)] IN
          /\ (\E e \in Engines : result[e] = "pass") => over
          /\ Trouble(bad + (IF hit THEN 1 ELSE 0) + (IF keep \/ bad > 0 THEN 0 ELSE 1))
          /\ engine' = [p \in Pairs |-> IF p[2] = t THEN made[p[1]] ELSE engine[p]]
          /\ engineCache' = [engineCache EXCEPT ![t] = IF keep /\ bad = 0 THEN {made} ELSE {}]
          /\ Ends(NextJob, \A e \in Engines : result[e] # "infra_failed")
    /\ UNCHANGED <<vmod, cohort, vmodCache, queue, tested>>

-----------------------------------------------------------------------------
(* VMOD batches: the packages of one pair *)

\* The fingerprint of a release engine is its catalog entry, not its build:
\* the snapshot fits whatever engine packages this run has.
VmodHit ==
    /\ stage = 2 /\ todo # {}
    /\ LET p == NextJob.key IN
       /\ engine[p].build > 0
       /\ \E saved \in vmodCache[p], over \in BOOLEAN :
             vmod' = [vmod EXCEPT ![p] = IF saved.build = 0 /\ ~over
                                         THEN [saved EXCEPT !.build = vmod[p].build] ELSE saved]
    /\ Ends(NextJob, TRUE)
    /\ UNCHANGED <<engine, cohort, engineCache, vmodCache, queue, tested, troubles>>

\* Without engine packages every cell is infra_failed; any conclusion, red
\* ones too, goes to the cache.
VmodBuild ==
    /\ stage = 2 /\ todo # {}
    /\ LET p == NextJob.key IN
       \E result \in Outcomes, over \in BOOLEAN :
          LET made == Built(vmod[p], result, over) IN
          /\ engine[p].build = 0 => result = "infra_failed"
          /\ Trouble((IF result # "pass" /\ engine[p].build > 0 THEN 1 ELSE 0)
                     + (IF vmodCache[p] # {} /\ engine[p].build > 0 THEN 1 ELSE 0))
          /\ vmod' = [vmod EXCEPT ![p] = made]
          /\ vmodCache' = [vmodCache EXCEPT ![p] = IF result = "pass" THEN {made}
                                                     ELSE IF result = "build_failed"
                                                     THEN {[made EXCEPT !.build = 0]} ELSE @]
          /\ Ends(NextJob, result # "infra_failed")
    /\ UNCHANGED <<engine, cohort, engineCache, queue, tested>>

-----------------------------------------------------------------------------
(* Cohort tests *)

Complete(p) == engine[p].build > 0 /\ vmod[p].build > 0

\* The job itself succeeds whatever the smoke test says.
Cohort ==
    /\ stage = 3 /\ todo # {}
    /\ LET p == NextJob.key IN
       \E smoke \in {"pass", "failed"} :
          /\ smoke = "pass" => Complete(p)
          /\ Trouble(IF smoke = "failed" /\ Complete(p) THEN 1 ELSE 0)
          /\ cohort' = [cohort EXCEPT ![p] = smoke]
          /\ tested' = IF smoke = "pass" THEN tested \cup {<<p, Packages(p)>>} ELSE tested
    /\ Ends(NextJob, TRUE)
    /\ UNCHANGED <<engine, vmod, engineCache, vmodCache, queue>>

\* A runner is lost before its job uploads anything.
Lost ==
    /\ stage \in 1..3 /\ todo # {} /\ Stages[stage] \in Losable
    /\ Trouble(1)
    /\ Ends(NextJob, FALSE)
    /\ UNCHANGED <<engine, vmod, cohort, engineCache, vmodCache, queue, tested>>

-----------------------------------------------------------------------------
(* The release job *)

\* Mutant of Green: the cohort result is not asked for.
GreenCells(p) == engine[p].result = "pass" /\ vmod[p].result = "pass" /\ Complete(p)

\* The gate: cohort, every cell, and the payload is all there.
Green(p) ==
    /\ cohort[p] = "pass"
    /\ engine[p].result = "pass" /\ vmod[p].result = "pass"
    /\ Complete(p)

Prepared == {i \in 1..Len(Order) : Green(Order[i])}

Gate ==
    /\ stage = 4 /\ todo # {}
    /\ todo' = {}
    /\ queue' = Prepared
    /\ UNCHANGED <<attempt, stage, due, failed, engine, vmod, cohort, engineCache,
                   vmodCache, published, tested, troubles>>

Finish(ok) ==
    /\ stage' = 5
    /\ queue' = {}
    /\ failed' = IF ok THEN failed ELSE failed \cup {ReleaseJob}

\* Mutant of Publishable: a release that is there already is not compared.
PublishableAnyway(p) == TRUE

\* publish() refuses a released tag whose bytes differ.
Publishable(p) == published[p] \subseteq {Packages(p)}

\* publish() of the next pair: it is released, it was with the same bytes,
\* or the call raises and nothing catches it.
Publish ==
    /\ stage = 4 /\ todo = {}
    /\ \E i \in queue :
          LET p == Order[i] IN
          /\ \A j \in queue : i <= j
          /\ \/ /\ Publishable(p)
                /\ published' = [published EXCEPT ![p] = @ \cup {Packages(p)}]
                /\ queue' = queue \ {i}
                /\ UNCHANGED <<stage, failed, troubles>>
             \/ /\ published' = published
                /\ Finish(FALSE)
                /\ Trouble(IF Publishable(p) THEN 1 ELSE 0)
    /\ UNCHANGED <<attempt, todo, due, engine, vmod, cohort, engineCache, vmodCache, tested>>

\* Mutant of Refused: a failed cohort test is printed and forgotten.
RefusedCells == \E p \in Pairs : ~GreenCells(p)

\* The local variable "failed" of main().
Refused == \E p \in Pairs : ~Green(p)

Conclude ==
    /\ stage = 4 /\ todo = {} /\ queue = {}
    /\ Finish(~Refused)
    /\ UNCHANGED <<attempt, todo, due, engine, vmod, cohort, engineCache, vmodCache,
                   published, tested, troubles>>

-----------------------------------------------------------------------------
(* Another attempt *)

Begin(jobs) ==
    /\ attempt' = attempt + 1
    /\ stage' = 1
    /\ todo' = At(1, jobs) /\ due' = jobs /\ failed' = {}
    /\ UNCHANGED <<engine, vmod, cohort, engineCache, vmodCache, queue, published,
                   tested, troubles>>

RerunAll ==
    /\ stage = 5 /\ attempt < MaxAttempts
    /\ Begin(AllJobs)

\* The failed jobs and every job of the stages that need theirs.
RerunFailed ==
    /\ stage = 5 /\ attempt < MaxAttempts /\ failed # {}
    /\ Begin(failed \cup {j \in AllJobs : \E f \in failed : f.stage < j.stage})

Init ==
    /\ attempt = 1
    /\ stage = 1 /\ todo = EngineJobs /\ due = AllJobs /\ failed = {}
    /\ engine = [p \in Pairs |-> Missing] /\ vmod = [p \in Pairs |-> Missing]
    /\ cohort = [p \in Pairs |-> "missing"]
    /\ engineCache = [t \in Targets |-> {}] /\ vmodCache = [p \in Pairs |-> {}]
    /\ queue = {}
    /\ published = [p \in Pairs |-> {}]
    /\ tested = {}
    /\ troubles = 0

Next ==
    \/ EngineHit \/ EngineBuild \/ VmodHit \/ VmodBuild \/ Cohort \/ Lost \/ Skip
    \/ Gate \/ Publish \/ Conclude
    \/ RerunAll \/ RerunFailed

Spec == Init /\ [][Next]_vars
-----------------------------------------------------------------------------
Artifact == [result : Outcomes \cup {"missing"}, build : 0..MaxAttempts]

\* At most one value per key.
Shelf(keys, values) == {f \in [keys -> SUBSET values] :
                           \A k \in keys : \A a, b \in f[k] : a = b}
EngineCaches == Shelf(Targets, [Engines -> Artifact])
VmodCaches   == Shelf(Pairs, Artifact)
Releases     == Shelf(Pairs, [engine : 0..MaxAttempts, vmod : 0..MaxAttempts])

TypeOK ==
    /\ attempt \in 1..MaxAttempts
    /\ stage \in 1..5
    /\ todo \subseteq AllJobs /\ due \subseteq AllJobs /\ failed \subseteq AllJobs
    /\ engine \in [Pairs -> Artifact] /\ vmod \in [Pairs -> Artifact]
    /\ cohort \in [Pairs -> {"pass", "failed", "missing"}]
    /\ engineCache \in EngineCaches
    /\ vmodCache \in VmodCaches
    /\ published \in Releases
    /\ queue \subseteq 1..Len(Order)
    /\ troubles \in 0..MaxTroubles

\* "Every package below passed its build-and-install-and-load check"
\* (release_assemble.py): whatever mixture of attempts and caches the
\* artifacts of a run come from, what is released was tested in just this
\* combination.
ReleasedAsTested == \A p \in Pairs : \A s \in published[p] : <<p, s>> \in tested

\* A workflow that ends green has released the whole matrix, and what is
\* released are the packages this run holds.
GreenMeansAll ==
    stage = 5 /\ failed = {} => \A p \in Pairs : published[p] = {Packages(p)}

\* "A failed Vinyl pair never blocks a Varnish pair, or the reverse"
\* (SCOPE.md), "targets publish independently" (DESIGN decision 13): when the
\* release job is over, a green pair is without a release only for a reason of
\* its own, and not because a pair before it can never be published.
NeverHostage ==
    stage = 5 => \A p, q \in Pairs :
        Green(p) /\ published[p] = {} /\ Green(q) => Publishable(q)
=============================================================================

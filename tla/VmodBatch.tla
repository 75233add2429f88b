----------------------------- MODULE VmodBatch -----------------------------
(***************************************************************************)
(* One VMOD batch (vmod-batch.yml, tools/vmod_batch.py,                    *)
(* tools/vmod_cache.py) through its runs: the cells of one engine, target  *)
(* and mode, in order, and the snapshots that GitHub's cache keeps for     *)
(* them between runs.                                                      *)
(*                                                                         *)
(* The inputs of a cell of its own (source tree, ref, manifest) are one    *)
(* version; what all cells share (harness, engine and target contracts) is *)
(* the contract, and a trunk engine has its commit.  A verdict and a       *)
(* package set remember in "of" the inputs they were really built from: no *)
(* file says that, only the cache claims it.  A batch is of the package    *)
(* mode, where a cell has packages and the engine is a release, or of the  *)
(* compat mode with a trunk engine.  Jobs of one batch run one after the   *)
(* other.                                                                  *)
(***************************************************************************)
EXTENDS Naturals, Sequences

CONSTANTS
    Cells, Order,      \* the batch: its cells, and the order of the items
    Versions,          \* versions of a cell's inputs
    Contracts,         \* versions of what the cells share
    Commits,           \* of the trunk engine
    Modes,             \* "package" or "compat"
    Downloads,         \* of the engine: "whole", "part" or "none"
    JobLimit,          \* cells that may use up their own timeout before the job's
    RaisesAt,          \* steps of a cell at which the driver may raise
    MaxRuns, MaxChanges, MaxTroubles   \* bounds

Missing == "missing"
Unnamed == "unnamed"
Torn    == <<"torn">>    \* packages of which some were not copied

ASSUME BatchAssumption ==
    /\ Order \in Seq(Cells)
    /\ \A c \in Cells : \E i \in 1..Len(Order) : Order[i] = c
    /\ Missing \notin Versions /\ Unnamed \notin Commits
    /\ Modes \subseteq {"package", "compat"} /\ Downloads \subseteq {"whole", "part", "none"}
    /\ {JobLimit, MaxRuns, MaxChanges, MaxTroubles} \subseteq Nat

VARIABLES
    mode,              \* of the batch
    contract, commit, inputs,   \* what main and the engine's upstream hold now
    store,             \* saved snapshots, the newest last
    runs, pc,          \* "idle", "driver", "saving" or "over"
    engine, seen,      \* downloads: the engine, and per cell its inputs or "missing"
    hit,               \* "exact", "prefix" or "none"
    dir,               \* work/vmod-cache: per cell a set of at most one entry
    next, step,        \* the driver's item, and its step in run_batch and save_cell
    results,           \* work/results and work/packages, the same way
    slow,              \* cells that timed out
    changes, troubles

world == <<mode, contract, commit, inputs, changes>>
job   == <<engine, seen, hit>>
vars  == <<world, store, runs, pc, job, dir, next, step, results, slow, troubles>>

Trouble == troubles < MaxTroubles /\ troubles' = troubles + 1

NoCells == [c \in Cells |-> {}]
Cell    == Order[next]
Conclusive == {"pass", "red"}

\* engine_source_commit: a release engine has none, and a trunk engine may have
\* come without it.
CommitIn(download) == IF mode = "package" \/ download = "whole" THEN commit ELSE Unnamed

\* fingerprint(): what the manifest of a cell says, all but
\* engine_artifacts_available.
Fingerprint(c) == <<contract, CommitIn(engine), seen[c]>>

\* What a build of this run is made of, whatever the files say of it.
Real(c) == <<contract, commit, seen[c]>>

KeyOf(download, cells) ==
    [contract |-> contract, commit |-> CommitIn(download), cells |-> cells]
Key == KeyOf(engine, seen)

\* cache_eligible() wants the prefix, in package mode the packages beside it,
\* and of a trunk engine the commit.
Eligible(c) == engine = "whole" /\ seen[c] # Missing

\* build-vmod.sh needs less: the prefix in compat mode, the packages in
\* package mode.
Buildable(c) == engine # "none" /\ seen[c] # Missing

\* package_payload_available(), where it is asked for.
HasPayload(r) == mode = "package" /\ r.status = "pass" => r.packages # <<>>

-----------------------------------------------------------------------------
(* Between runs *)

Change ==
    /\ pc = "idle" /\ changes < MaxChanges
    /\ changes' = changes + 1
    /\ \/ \E c \in Cells : \E v \in Versions \ {inputs[c]} :
             inputs' = [inputs EXCEPT ![c] = v] /\ UNCHANGED <<contract, commit>>
       \/ contract' \in Contracts \ {contract} /\ UNCHANGED <<inputs, commit>>
       \/ /\ mode = "compat"
          /\ commit' \in Commits \ {commit} /\ UNCHANGED <<inputs, contract>>
    /\ UNCHANGED <<mode, store, runs, pc, job, dir, next, step, results, slow, troubles>>

\* GitHub drops a snapshot.
Evict ==
    /\ pc = "idle" /\ Trouble
    /\ \E i \in 1..Len(store) :
          store' = SubSeq(store, 1, i - 1) \o SubSeq(store, i + 1, Len(store))
    /\ UNCHANGED <<world, runs, pc, job, dir, next, step, results, slow>>

Exact(key)  == {i \in 1..Len(store) : store[i].key = key}
Prefix(key) == {i \in 1..Len(store) : store[i].key.contract = key.contract}
Newest(is)  == CHOOSE i \in is : \A j \in is : j <= i

\* actions/cache/restore: the exact key, or else the newest with its prefix.
Restored(key) ==
    IF Exact(key) # {} THEN [hit |-> "exact", dir |-> store[Newest(Exact(key))].dir]
    ELSE IF Prefix(key) # {} THEN [hit |-> "prefix", dir |-> store[Newest(Prefix(key))].dir]
    ELSE [hit |-> "none", dir |-> NoCells]

\* Checkout, downloads (any of them may fail, which the job survives), key
\* and restore.
Start ==
    /\ pc = "idle" /\ runs < MaxRuns
    /\ engine' \in Downloads
    /\ \E lost \in SUBSET Cells, found \in BOOLEAN :
          /\ seen' = [c \in Cells |-> IF c \in lost THEN Missing ELSE inputs[c]]
          /\ LET got == IF found THEN Restored(KeyOf(engine', seen'))
                                 ELSE [hit |-> "none", dir |-> NoCells]
             IN  hit' = got.hit /\ dir' = got.dir
          /\ IF engine' = "whole" /\ lost = {} /\ found THEN UNCHANGED troubles ELSE Trouble
    /\ runs' = runs + 1 /\ pc' = "driver"
    /\ next' = 1 /\ step' = "build" /\ results' = NoCells /\ slow' = 0
    /\ UNCHANGED <<world, store>>

-----------------------------------------------------------------------------
(* run_batch *)

\* Mutant of Usable: a cell is taken from the snapshot for being in it.
UsableAny(c) == Eligible(c) /\ \E e \in dir[c] : e.status \in Conclusive

\* restore_cell(), load_result(): a conclusion under this fingerprint, and in
\* package mode a pass has packages.
Usable(c) ==
    /\ Eligible(c)
    /\ \E e \in dir[c] : /\ e.fingerprint = Fingerprint(c)
                         /\ e.status \in Conclusive
                         /\ HasPayload(e)

GoOn == next' = next + 1 /\ step' = "build"

Driving(s) == pc = "driver" /\ next <= Len(Order) /\ step = s

\* The result is copied, and then the packages.
Hit ==
    /\ Driving("build") /\ Usable(Cell)
    /\ results' = [results EXCEPT ![Cell] =
                     {[status |-> e.status, of |-> e.of, packages |-> <<>>] : e \in dir[Cell]}]
    /\ step' = "restore"
    /\ UNCHANGED <<world, store, runs, pc, job, dir, next, slow, troubles>>

Fresh(c)  == CHOOSE r \in results[c] : TRUE
NoVerdict == [status |-> "none", of |-> <<>>, packages |-> <<>>]
Kept(c)   == IF dir[c] = {} THEN NoVerdict ELSE CHOOSE e \in dir[c] : TRUE

\* The result with the packages that belong beside it: of the entry, or as the
\* cell has just left them.
Collected ==
    [Fresh(Cell) EXCEPT !.packages =
        IF step = "restore" THEN Kept(Cell).packages
        ELSE IF mode = "package" /\ Fresh(Cell).status = "pass" THEN Real(Cell)
        ELSE <<>>]

Restore ==
    /\ Driving("restore")
    /\ results' = [results EXCEPT ![Cell] = {Collected}]
    /\ GoOn
    /\ UNCHANGED <<world, store, runs, pc, job, dir, slow, troubles>>

Verdict(c, status) ==
    {[status |-> status, of |-> IF status \in Conclusive THEN Real(c) ELSE <<>>,
      packages |-> <<>>]}

\* build-vmod.sh runs to its end, and its result is collected.
Build ==
    /\ Driving("build") /\ ~Usable(Cell)
    /\ \E status \in Conclusive \cup {"infra_failed"} :
          /\ ~Buildable(Cell) => status = "infra_failed"
          /\ IF status = "infra_failed" /\ Buildable(Cell) THEN Trouble ELSE UNCHANGED troubles
          /\ results' = [results EXCEPT ![Cell] = Verdict(Cell, status)]
    /\ step' = "collect"
    /\ UNCHANGED <<world, store, runs, pc, job, dir, next, slow>>

\* The cell exceeds its 60 minutes, whatever it has written already.
TimeOut ==
    /\ Driving("build") /\ ~Usable(Cell) /\ Buildable(Cell) /\ slow < JobLimit
    /\ Trouble
    /\ slow' = slow + 1
    /\ results' = [results EXCEPT ![Cell] = Verdict(Cell, "infra_failed")]
    /\ step' = "collect"
    /\ UNCHANGED <<world, store, runs, pc, job, dir, next>>

\* Mutant of Savable: save_cell takes whatever result there is.
SavableAny(r) == TRUE

\* The first checks of save_cell().
Savable(r) == Eligible(Cell) /\ r.status \in Conclusive /\ HasPayload(r)

\* The packages are collected as well, and save_cell begins.
Collect ==
    /\ Driving("collect")
    /\ results' = [results EXCEPT ![Cell] = {Collected}]
    /\ IF Savable(Collected) THEN step' = "manifest" /\ next' = next ELSE GoOn
    /\ UNCHANGED <<world, store, runs, pc, job, dir, slow, troubles>>

\* save_cell(), one file after the other: the manifest, the result, and the
\* packages, an old set of which is removed first.
Entry(fingerprint, verdict, packages) ==
    {[fingerprint |-> fingerprint, status |-> verdict.status, of |-> verdict.of,
      packages |-> packages]}

SaveManifest ==
    /\ Driving("manifest")
    /\ dir' = [dir EXCEPT ![Cell] = Entry(Fingerprint(Cell), Kept(Cell), Kept(Cell).packages)]
    /\ step' = "result"
    /\ UNCHANGED <<world, store, runs, pc, job, next, results, slow, troubles>>

SaveResult ==
    /\ Driving("result")
    /\ dir' = [dir EXCEPT ![Cell] = Entry(Fingerprint(Cell), Fresh(Cell), Kept(Cell).packages)]
    /\ step' = "packages"
    /\ UNCHANGED <<world, store, runs, pc, job, next, results, slow, troubles>>

RemovePackages ==
    /\ Driving("packages")
    /\ dir' = [dir EXCEPT ![Cell] = Entry(Fingerprint(Cell), Fresh(Cell), <<>>)]
    /\ step' = "copy"
    /\ UNCHANGED <<world, store, runs, pc, job, next, results, slow, troubles>>

SavePackages ==
    /\ Driving("copy")
    /\ dir' = [dir EXCEPT ![Cell] = Entry(Fingerprint(Cell), Fresh(Cell), Fresh(Cell).packages)]
    /\ GoOn
    /\ UNCHANGED <<world, store, runs, pc, job, results, slow, troubles>>

\* The entry when save_cell ends in the middle of one of its steps: the file it
\* writes is not readable, and of the packages some are there.
HalfSaved ==
    CASE step = "manifest" -> Entry(<<>>, Kept(Cell), Kept(Cell).packages)
      [] step = "result"   -> Entry(Fingerprint(Cell), NoVerdict, Kept(Cell).packages)
      [] step = "packages" -> Entry(Fingerprint(Cell), Fresh(Cell),
                                    IF Kept(Cell).packages = <<>> THEN <<>> ELSE Torn)
      [] OTHER             -> Entry(Fingerprint(Cell), Fresh(Cell),
                                    IF Fresh(Cell).packages = <<>> THEN <<>> ELSE Torn)

\* An exception that main() does not catch (a full disk, an unreadable tree), before
\* a step or in the middle of it.
Raise ==
    /\ pc = "driver" /\ next <= Len(Order)
    /\ step \in RaisesAt
    /\ Trouble
    /\ pc' = "saving"
    /\ \E half \in BOOLEAN :
          /\ dir' = IF half /\ step \in {"manifest", "result", "packages", "copy"}
                    THEN [dir EXCEPT ![Cell] = HalfSaved] ELSE dir
          /\ results' = IF half /\ step \in {"restore", "collect"} /\ Collected.packages # <<>>
                        THEN [results EXCEPT ![Cell] = {[Collected EXCEPT !.packages = Torn]}]
                        ELSE results
    /\ UNCHANGED <<world, store, runs, job, next, step, slow>>

\* timeout-minutes of the job: the steps marked always() still run.
JobTimeout ==
    /\ Driving("build") /\ slow = JobLimit /\ ~Usable(Cell)
    /\ Trouble
    /\ pc' = "saving"
    /\ UNCHANGED <<world, store, runs, job, dir, next, step, results, slow>>

DriverEnds ==
    /\ pc = "driver" /\ next > Len(Order)
    /\ pc' = "saving"
    /\ UNCHANGED <<world, store, runs, job, dir, next, step, results, slow, troubles>>

-----------------------------------------------------------------------------
(* After the driver *)

\* Mutant of Cacheable: a cell without a result is not missed.
CacheablePartly == \A c \in Cells : \A r \in results[c] : r.status \in Conclusive

\* results_cacheable()
Cacheable == \A c \in Cells : \E r \in results[c] : r.status \in Conclusive /\ HasPayload(r)

\* No cell was left between its result and its entry, and all could be saved.  The
\* snapshot does not say so, but SnapshotsWhole is about those of such runs.
Clean == step \in {"build", "restore"} /\ engine = "whole"

\* A key is written once, and a directory that is not there is not saved.
Saves == Cacheable /\ hit # "exact" /\ Exact(Key) = {} /\ dir # NoCells

\* The save may fail, and the job does not mind.
SaveSnapshot ==
    /\ pc = "saving"
    /\ \/ /\ Saves
          /\ store' = Append(store, [key |-> Key, dir |-> dir, clean |-> Clean])
          /\ UNCHANGED troubles
       \/ Saves /\ store' = store /\ Trouble
       \/ ~Saves /\ UNCHANGED <<store, troubles>>
    /\ pc' = "over"
    /\ UNCHANGED <<world, runs, job, dir, next, step, results, slow>>

\* Results and packages are uploaded, and the runner is gone.
Upload ==
    /\ pc = "over"
    /\ pc' = "idle"
    /\ dir' = NoCells /\ results' = NoCells
    /\ engine' = "none" /\ seen' = inputs /\ hit' = "none"
    /\ next' = 1 /\ step' = "build" /\ slow' = 0
    /\ UNCHANGED <<world, store, runs, troubles>>

Init ==
    /\ mode \in Modes /\ contract \in Contracts /\ commit \in Commits
    /\ inputs \in [Cells -> Versions]
    /\ store = <<>>
    /\ runs = 0 /\ pc = "idle"
    /\ engine = "none" /\ seen = inputs /\ hit = "none"
    /\ dir = NoCells /\ results = NoCells
    /\ next = 1 /\ step = "build" /\ slow = 0
    /\ changes = 0 /\ troubles = 0

Next ==
    \/ Change \/ Evict \/ Start
    \/ Hit \/ Restore \/ Build \/ TimeOut \/ Collect
    \/ SaveManifest \/ SaveResult \/ RemovePackages \/ SavePackages
    \/ Raise \/ JobTimeout \/ DriverEnds
    \/ SaveSnapshot \/ Upload

Spec == Init /\ [][Next]_vars
-----------------------------------------------------------------------------
Inputs == (Contracts \X (Commits \cup {Unnamed}) \X (Versions \cup {Missing})) \cup {<<>>, Torn}
Saved  == [fingerprint : Inputs, status : Conclusive \cup {"none"}, of : Inputs, packages : Inputs]
Shown  == [status : Conclusive \cup {"infra_failed"}, of : Inputs, packages : Inputs]

AtMostOne(S) == \A a, b \in S : a = b

Dirs == {d \in [Cells -> SUBSET Saved] : \A c \in Cells : AtMostOne(d[c])}
Outcomes == {r \in [Cells -> SUBSET Shown] : \A c \in Cells : AtMostOne(r[c])}
Keys == [contract : Contracts, commit : Commits \cup {Unnamed},
         cells : [Cells -> Versions \cup {Missing}]]
Snapshot == [key : Keys, dir : Dirs, clean : BOOLEAN]

TypeOK ==
    /\ mode \in {"package", "compat"}
    /\ contract \in Contracts /\ commit \in Commits /\ inputs \in [Cells -> Versions]
    /\ store \in Seq(Snapshot)
    /\ runs \in 0..MaxRuns /\ pc \in {"idle", "driver", "saving", "over"}
    /\ engine \in {"whole", "part", "none"} /\ seen \in [Cells -> Versions \cup {Missing}]
    /\ hit \in {"exact", "prefix", "none"}
    /\ dir \in Dirs /\ results \in Outcomes
    /\ next \in 1..Len(Order) + 1
    /\ step \in {"build", "restore", "collect", "manifest", "result", "packages", "copy"}
    /\ slow \in 0..JobLimit

\* The driver is at this cell's packages, or was stopped there.
Collecting(c) == step \in {"restore", "collect"} /\ c = Cell

\* "Cells with matching fingerprints are materialised from the snapshot;
\* misses run" (DESIGN.md, vmod-batch.yml): a verdict that a run reports was
\* built from the inputs that the run has, whichever run built it, and so were
\* the packages it hands on, all of them unless the driver was stopped while it
\* collected them.
VerdictsFit ==
    \A c \in Cells : \A r \in results[c] :
        r.status \in Conclusive =>
            /\ r.of = Real(c)
            /\ mode = "package" /\ r.status = "pass" => r.packages = Real(c) \/ Collecting(c)

\* What a run with the same inputs needs to build nothing.
HoldsItsKey(s) ==
    \A c \in Cells : \E e \in s.dir[c] :
        /\ e.status \in Conclusive
        /\ e.fingerprint = <<s.key.contract, s.key.commit, s.key.cells[c]>>

\* "Missing, timed-out and infra_failed cells are never saved" (DESIGN
\* decision 22): whatever was restored, timed out, failed or was cut off, a
\* snapshot holds a verdict for every cell of its key, if the engine was there
\* as a whole and the driver was not stopped between a cell's result and its entry.
SnapshotsWhole == \A i \in 1..Len(store) : store[i].clean => HoldsItsKey(store[i])

\* "report whether a complete batch snapshot may be saved" (vmod_cache.py:306):
\* the check of the results lets no other snapshot be saved.
SnapshotsComplete == \A i \in 1..Len(store) : HoldsItsKey(store[i])
=============================================================================

---------------------------- MODULE EngineCache ----------------------------
(***************************************************************************)
(* The engine job of one target, over many workflow runs: the moving       *)
(* branches of its batch are bound to commits (tools/engine_cache.py       *)
(* resolve), a snapshot of that very input is restored, judged, built over *)
(* (tools/engine_batch.py) and saved; the steps are those of trunk.yml,    *)
(* matrix.yml and release.yml.  Meanwhile branches and the repository move.*)
(***************************************************************************)
EXTENDS Naturals, Sequences

CONSTANTS
    Batches,     \* the batches of this target: sequences of engines, trunk or release
    BranchOf,    \* the (git url, branch) of a trunk engine, NoBranch for a release
    NoBranch,
    Packaged,    \* the engines whose catalog entry says packages
    MaxTip, MaxContract, MaxJobs, MaxMishaps   \* bounds

Engines  == UNION {{b[i] : i \in DOMAIN b} : b \in Batches}
Branches == {BranchOf[e] : e \in Engines} \ {NoBranch}

\* A batch is never empty and has no engine twice.
ASSUME EngineAssumption ==
    /\ MaxTip \in Nat \ {0} /\ MaxContract \in Nat \ {0}
    /\ MaxJobs \in Nat /\ MaxMishaps \in Nat
    /\ Batches \subseteq Seq(Engines) \ {<<>>}
    /\ \A b \in Batches : \A i, j \in DOMAIN b : b[i] = b[j] => i = j

VARIABLES
    tip,        \* upstream: the head of each branch
    contract,   \* the files of the repository that go into a key
    store,      \* the Actions cache: key -> work/
    step,       \* of the job
    batch, tree,   \* its engines and its checkout
    items,      \* ENGINE_BATCH_ITEMS, as far as resolved
    work,       \* work/artifacts and work/results
    hit, cut,   \* the exact snapshot was restored; the job ran out of time
    turn,       \* the item at work
    uploaded,   \* the artifacts of the last job that got to upload some
    jobs, mishaps

world      == <<tip, contract>>
jobVars    == <<step, batch, tree, items, work, hit, cut, turn>>
engineVars == <<world, store, jobVars, uploaded, jobs, mishaps>>

NoSource == 0

\* A file of one engine: absent, or of some build, perhaps cut short.
Absent == [commit |-> NoSource, contract |-> 0, whole |-> FALSE, status |-> "absent"]
File(commit, status) == [commit |-> commit, contract |-> tree, whole |-> TRUE, status |-> status]
There(f) == f.status # "absent"

Kinds    == {"prefix", "packages", "commit", "result"}
NoFiles  == [kind \in Kinds |-> Absent]
NoWork   == [e \in Engines |-> NoFiles]
NoUpload == [items |-> <<>>, tree |-> 0, work |-> NoWork, cut |-> FALSE]

Mishap == mishaps < MaxMishaps /\ mishaps' = mishaps + 1

-----------------------------------------------------------------------------
(* The world *)

MoveTip(b) ==
    /\ tip[b] < MaxTip
    /\ tip' = [tip EXCEPT ![b] = @ + 1]
    /\ UNCHANGED <<contract, store, jobVars, uploaded, jobs, mishaps>>

EditContract ==
    /\ contract < MaxContract
    /\ contract' = contract + 1
    /\ UNCHANGED <<tip, store, jobVars, uploaded, jobs, mishaps>>

\* "Cache eviction is a safe miss and rebuild" (DESIGN, decision 22).
Evict(k) ==
    /\ Mishap
    /\ store' = [q \in DOMAIN store \ {k} |-> store[q]]
    /\ UNCHANGED <<world, jobVars, uploaded, jobs>>

-----------------------------------------------------------------------------
(* The job *)

Begin(b) ==
    /\ step = "idle" /\ jobs < MaxJobs
    /\ jobs' = jobs + 1
    /\ batch' = b /\ tree' = contract /\ items' = <<>>
    /\ work' = NoWork /\ hit' = FALSE /\ cut' = FALSE /\ turn' = 1
    /\ step' = "resolve"
    /\ UNCHANGED <<world, store, uploaded, mishaps>>

\* Mutant of SourceCommit: every item asks for itself.
SourceCommitAnew(e) == IF BranchOf[e] = NoBranch THEN NoSource ELSE tip[BranchOf[e]]

\* resolve_items(): a branch is asked once, for the first item that needs it.
SourceCommit(e) ==
    LET known == {i \in DOMAIN items : BranchOf[items[i].engine] = BranchOf[e]}
    IN  IF BranchOf[e] = NoBranch THEN NoSource
        ELSE IF known # {} THEN items[CHOOSE i \in known : TRUE].commit
        ELSE tip[BranchOf[e]]

\* The resolver may fail, and with it the job, which has nothing to upload.
ResolveItem ==
    /\ step = "resolve" /\ turn <= Len(batch)
    /\ \/ /\ items' = Append(items, [engine |-> batch[turn], commit |-> SourceCommit(batch[turn])])
          /\ turn' = turn + 1
          /\ UNCHANGED <<step, mishaps>>
       \/ Mishap /\ step' = "idle" /\ UNCHANGED <<items, turn>>
    /\ UNCHANGED <<world, store, batch, tree, work, hit, cut, uploaded, jobs>>

\* Mutant of Key: the engines by their names.
KeyByName == <<[i \in DOMAIN items |-> [items[i] EXCEPT !.commit = NoSource]], tree>>

Key == <<items, tree>>

\* The place of a file in a snapshot: the paths of the cache steps name
\* work/artifacts before work/results.
Place(i, kind) ==
    CASE kind = "prefix"   -> 3 * i - 2
      [] kind = "packages" -> 3 * i - 1
      [] kind = "commit"   -> 3 * i
      [] kind = "result"   -> 3 * Len(batch) + i

\* An extraction that ends within the file after the first n.
CutShort(files, n) ==
    [e \in Engines |-> [kind \in Kinds |->
        LET places == {Place(i, kind) : i \in {j \in DOMAIN batch : batch[j] = e}} IN
        IF \E p \in places : p <= n THEN files[e][kind]
        ELSE IF n + 1 \in places THEN [files[e][kind] EXCEPT !.whole = FALSE]
        ELSE Absent]]

RestoreSnapshot ==
    /\ step = "resolve" /\ turn > Len(batch)
    /\ \/ Key \notin DOMAIN store /\ UNCHANGED <<work, hit, mishaps>>
       \/ Key \in DOMAIN store /\ work' = store[Key] /\ hit' = TRUE /\ UNCHANGED mishaps
       \/ /\ Key \in DOMAIN store /\ Mishap
          /\ \E n \in 0..(4 * Len(batch) - 1) : work' = CutShort(store[Key], n)
          /\ UNCHANGED hit
    /\ turn' = 1
    /\ step' = "validate"
    /\ UNCHANGED <<world, store, batch, tree, items, cut, uploaded, jobs>>

\* Mutant of Cacheable: a result is a result.
CacheableIfConcluded(files) ==
    \A i \in DOMAIN items : LET f == files[items[i].engine] IN
        /\ There(f.prefix)
        /\ items[i].engine \in Packaged => There(f.packages)
        /\ f.result.whole
        /\ items[i].commit # NoSource => f.commit.whole /\ f.commit.commit = items[i].commit

\* cacheable(): the artifacts are there and not empty, every result reads and
\* passes, and a trunk artifact says that it is of the commit asked for.
Cacheable(files) ==
    \A i \in DOMAIN items : LET f == files[items[i].engine] IN
        /\ There(f.prefix)
        /\ items[i].engine \in Packaged => There(f.packages)
        /\ f.result.whole /\ f.result.status = "pass"
        /\ items[i].commit # NoSource => f.commit.whole /\ f.commit.commit = items[i].commit

Validate ==
    /\ step = "validate"
    /\ step' = IF Cacheable(work) THEN "conclude" ELSE "build"
    /\ UNCHANGED <<world, store, batch, tree, items, work, hit, cut, turn, uploaded, jobs, mishaps>>

\* build-engine.sh: artifacts appear one after the other, the commit and the
\* result at the end; the driver copies whatever is there over the job's files.
Made(commit, status, kinds) ==
    [k \in Kinds |-> IF k \in kinds THEN File(commit, status)
                              ELSE work[items[turn].engine][k]]

Torn(files, kinds) ==
    [k \in Kinds |-> [files[k] EXCEPT !.whole = @ /\ k \notin kinds]]

Early(e) == {"prefix"} \cup (IF e \in Packaged THEN {"packages"} ELSE {})

BuildItem ==
    /\ step = "build" /\ turn <= Len(items)
    /\ LET item  == items[turn]
           early == Early(item.engine)
       IN
       \/ /\ work' = [work EXCEPT ![item.engine] =
                        Made(item.commit, "pass", early \cup {"commit", "result"})]
          /\ turn' = turn + 1
          /\ UNCHANGED <<step, cut, mishaps>>
       \/ /\ \E status \in {"red", "infra"}, late \in SUBSET early :
                work' = [work EXCEPT ![item.engine] = Made(item.commit, status, late \cup {"result"})]
          /\ Mishap
          /\ turn' = turn + 1
          /\ UNCHANGED <<step, cut>>
       \/ /\ Mishap   \* the job is out of time, perhaps within a file
          /\ \E late \in SUBSET early : \E torn \in SUBSET late :
                work' = [work EXCEPT ![item.engine] = Torn(Made(item.commit, "pass", late), torn)]
          /\ cut' = TRUE /\ step' = "conclude"
          /\ UNCHANGED turn
    /\ UNCHANGED <<world, store, batch, tree, items, hit, uploaded, jobs>>

BatchDone ==
    /\ step = "build" /\ turn > Len(items)
    /\ step' = "conclude"
    /\ UNCHANGED <<world, store, batch, tree, items, work, hit, cut, turn, uploaded, jobs, mishaps>>

\* The save step, which may fail, and the two uploads, which always run.  A key
\* that is taken stays as it is.
Conclude ==
    /\ step = "conclude"
    /\ \/ /\ Cacheable(work) /\ ~hit /\ Key \notin DOMAIN store
          /\ store' = [k \in DOMAIN store \cup {Key} |-> IF k = Key THEN work ELSE store[k]]
          /\ UNCHANGED mishaps
       \/ /\ ~Cacheable(work) \/ hit \/ Key \in DOMAIN store
          /\ UNCHANGED <<store, mishaps>>
       \/ Mishap /\ UNCHANGED store
    /\ uploaded' = [items |-> items, tree |-> tree, work |-> work, cut |-> cut]
    /\ step' = "idle"
    /\ UNCHANGED <<world, batch, tree, items, work, hit, cut, turn, jobs>>

EngineInit ==
    /\ tip = [b \in Branches |-> 1] /\ contract = 1
    /\ store = [k \in {} |-> NoWork]
    /\ step = "idle" /\ batch = <<>> /\ tree = 1 /\ items = <<>> /\ work = NoWork
    /\ hit = FALSE /\ cut = FALSE /\ turn = 1
    /\ uploaded = NoUpload /\ jobs = 0 /\ mishaps = 0

EngineNext ==
    \/ \E b \in Branches : MoveTip(b)
    \/ EditContract
    \/ \E k \in DOMAIN store : Evict(k)
    \/ \E b \in Batches : Begin(b)
    \/ ResolveItem \/ RestoreSnapshot \/ Validate \/ BuildItem \/ BatchDone \/ Conclude

EngineSpec == EngineInit /\ [][EngineNext]_engineVars
-----------------------------------------------------------------------------
Item == [engine : Engines, commit : 0..MaxTip]
AnyFile == [commit : 0..MaxTip, contract : 0..MaxContract, whole : BOOLEAN,
            status : {"pass", "red", "infra", "absent"}]
Work == [Engines -> [Kinds -> AnyFile]]

EngineTypeOK ==
    /\ tip \in [Branches -> 1..MaxTip] /\ contract \in 1..MaxContract
    /\ store \in [DOMAIN store -> Work]
    /\ step \in {"idle", "resolve", "validate", "build", "conclude"}
    /\ batch \in Batches \cup {<<>>} /\ tree \in 1..MaxContract
    /\ items \in Seq(Item) /\ Len(items) <= Len(batch)
    /\ \A i \in DOMAIN items : items[i].engine = batch[i]
    /\ work \in Work /\ hit \in BOOLEAN /\ cut \in BOOLEAN
    /\ turn \in 1..(Len(batch) + 1)
    /\ uploaded.items \in Seq(Item) /\ uploaded.work \in Work
    /\ jobs \in 0..MaxJobs /\ mishaps \in 0..MaxMishaps

\* Decision 22: a snapshot holds, whole, what its key names: every engine of
\* the batch, passing, of the commit and by the recipes of the key.
EngineSnapshotsWhole ==
    \A k \in DOMAIN store : \A i \in DOMAIN k[1] :
        LET files == store[k][k[1][i].engine] IN
        \A kind \in Early(k[1][i].engine) \cup {"commit", "result"} :
            files[kind] = [commit |-> k[1][i].commit, contract |-> k[2],
                           whole |-> TRUE, status |-> "pass"]

\* A passing engine that a job hands on was built from the commit the job
\* resolved, by the recipes it checked out, whatever was restored before its
\* time was over; and unless it was cut, the prefix that the VMODs build on is
\* whole and of that same build.  "Bind every trunk item to one advertised source
\* commit" (engine_cache.py, line 56): engines of one branch never differ in
\* their source, however often the branch moves while the items are resolved.
PassIsOfThisJob ==
    /\ \A i \in DOMAIN uploaded.items :
          LET item == uploaded.items[i]
              f    == uploaded.work[item.engine]
              Fits(g) == g.commit = item.commit /\ g.contract = uploaded.tree
          IN  f.result.whole /\ f.result.status = "pass" =>
                  Fits(f.result) /\ (~uploaded.cut => f.prefix.whole /\ Fits(f.prefix))
    /\ \A i, j \in DOMAIN items :
          BranchOf[items[i].engine] = BranchOf[items[j].engine] => items[i].commit = items[j].commit
=============================================================================

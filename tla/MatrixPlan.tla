----------------------------- MODULE MatrixPlan -----------------------------
(***************************************************************************)
(* A run of matrix.yml, trunk.yml or release.yml from `expand' to the      *)
(* page: engine and source jobs, VMOD jobs, publish.                       *)
(*                                                                         *)
(* A run works with the catalog of the commit it was started from; main    *)
(* may change meanwhile, as may the refs upstream.  The jobs of a stage    *)
(* share nothing, and engine jobs nothing with source jobs, so they are    *)
(* taken in a fixed order.  What happens inside the jobs is in VmodBatch,  *)
(* CellBuild and MatrixPublish; caches are left out here.                  *)
(***************************************************************************)
EXTENDS MatrixExpand, MatrixGrid

CONSTANTS
    Catalogs,     \* what main may hold
    Selections,   \* target selectors a release may be dispatched with
    Upstreams,    \* repositories of VMODs
    MaxRuns,      \* bound: workflow runs
    MaxEdits,     \* bound: changes of main
    MaxMoves,     \* bound: moves of a ref upstream
    MaxTroubles   \* bound: cells that do not pass, fetches, jobs cut off, runners lost

ASSUME PlanAssumption ==
    /\ 0..MaxRuns \subseteq Times /\ NoPin \notin 0..MaxMoves
    /\ "pass" \in Verdicts
    /\ {MaxRuns, MaxEdits, MaxMoves, MaxTroubles} \subseteq Nat

VARIABLES
    catalog,      \* on main
    heads,        \* per repository, the commit an unpinned ref is at
    run,          \* the run under way: workflow, catalog, selector, pairs
    jobs,         \* its jobs that have not run, stage by stage
    built,        \* <<engine, target>> whose prefix is among its artifacts
    bundles,      \* sources among its artifacts
    results,      \* cell results among its artifacts
    used,         \* history: the commit each concluded VMOD cell was built from
    lost,         \* history: cells whose job ended before it reported them
    file, page,   \* the state branch and the deployed page
    history,      \* results merged so far
    runs, edits, troubles

outside == <<catalog, heads, edits>>
vars    == <<catalog, heads, run, jobs, built, bundles, results, used, lost, file, page,
             history, runs, edits, troubles>>

Workflows == {"matrix", "trunk", "release"}
Lane(w)   == IF w = "trunk" THEN "trunk" ELSE "release"
Mode(w)   == CASE w = "matrix" -> "all" [] w = "trunk" -> "compat" [] w = "release" -> "package"

NoRun   == [workflow |-> "none"]
NoJobs  == [engine |-> <<>>, source |-> <<>>, vmod |-> <<>>]
NoPage  == [grids |-> <<>>, seen |-> {}]
Running == run # NoRun

Key(row, e, t, mode) == [row |-> row, engine |-> e, target |-> t, mode |-> mode]
EngineKeys(b)        == {Key(r.engine, r.engine, r.target, "engine") : r \in Items(b.items)}
VmodKey(c)           == Key(c.row, c.engine, c.target, c.mode)
VmodKeys(b)          == {VmodKey(c) : c \in Items(Hydrate(b))}

\* What a file may hold, from its shape alone: sequences and fields, VMODs by
\* their ids, and the keys there may be in the state file.
IsCatalog(c) ==
    /\ c.engines \in Seq(Items(c.engines)) /\ c.vmods \in Seq(Items(c.vmods))
    /\ Once([i \in DOMAIN c.vmods |-> c.vmods[i].id])
    /\ \A e \in Items(c.engines) :
          /\ e.targets \in Seq(Items(e.targets)) /\ e.packages \in BOOLEAN
          /\ \A t \in Items(e.targets) :
                /\ Key(e.id, e.id, t, "engine") \in Keys
                /\ \A v \in Items(c.vmods), mode \in {"compat", "package"} :
                      Key(v.id, e.id, t, mode) \in Keys
    /\ \A v \in Items(c.vmods) : v.git \in Upstreams

ASSUME CatalogAssumption == \A c \in Catalogs : IsCatalog(c)

\* A job that gets to m of its n cells before its timeout; what it has done by
\* then is uploaded.
Cut(m, n) == IF m < n THEN 1 ELSE 0

Suffer(n) == troubles + n <= MaxTroubles /\ troubles' = troubles + n

\* The cells of a job that do not pass, and how they end.
Mishaps(keys) == UNION {[S -> (Verdicts \ {"pass"}) \cup {Infra}] : S \in SUBSET keys}

Report(key, status) == [key |-> key, time |-> runs, status |-> status]

-----------------------------------------------------------------------------
Dispatch(w, only) ==
    /\ ~Running /\ runs < MaxRuns
    /\ only # {} => w = "release"
    /\ Expands(catalog, Lane(w), Mode(w), only)
    /\ LET plan == Plan(catalog, Lane(w), Mode(w), only) IN
       /\ run' = [workflow |-> w, catalog |-> catalog, only |-> only, pairs |-> plan.pairs]
       /\ jobs' = [engine |-> plan.engine, source |-> plan.source, vmod |-> plan.vmod]
    /\ runs' = runs + 1
    /\ built' = {} /\ bundles' = {} /\ results' = {} /\ used' = {} /\ lost' = {}
    /\ UNCHANGED <<file, page, history, troubles, outside>>

\* engine_batch.py: every engine of the target is tried; one that fails late
\* has left its prefix all the same.
EngineJob ==
    /\ jobs.engine # <<>>
    /\ LET b    == Head(jobs.engine)
           size == Len(b.items) IN
       \E n \in 1..size :
          LET keys == EngineKeys([b EXCEPT !.items = SubSeq(@, 1, n)]) IN
          \E bad \in Mishaps(keys) : \E left \in SUBSET DOMAIN bad :
             /\ Suffer(Cardinality(DOMAIN bad) + Cut(n, size))
             /\ results' = results \cup
                   {Report(k, IF k \in DOMAIN bad THEN bad[k] ELSE "pass") : k \in keys}
             /\ built' = built \cup
                   {<<k.engine, k.target>> : k \in (keys \ DOMAIN bad) \cup left}
             /\ lost' = lost \cup (EngineKeys(b) \ keys)
    /\ jobs' = [jobs EXCEPT !.engine = Tail(@)]
    /\ UNCHANGED <<run, bundles, used, file, page, history, runs, outside>>

\* Mutant of Fetched: the metadata repeats the catalog.
FetchedDeclared(r, bundle) ==
    LET v   == FindVmod(run.catalog, r.row)
        src == ResolveSource(v, FindEngine(run.catalog, r.engine)) IN
    [bundle |-> bundle, name |-> r.source, vmod |-> v.id, git |-> v.git, ref |-> src.ref,
     commit |-> src.commit]

\* fetch-vmod-source.sh <row> <engine> <source_artifact>: what the directory of
\* that name holds and says of itself.
Fetched(r, bundle) ==
    LET v   == FindVmod(run.catalog, r.row)
        src == ResolveSource(v, FindEngine(run.catalog, r.engine)) IN
    [bundle |-> bundle, name |-> r.source, vmod |-> v.id, git |-> v.git, ref |-> src.ref,
     commit |-> IF src.commit = NoPin THEN heads[v.git] ELSE src.commit]

\* source_batch.py: a fetch that fails leaves the others.
SourceJob ==
    /\ jobs.engine = <<>> /\ jobs.source # <<>>
    /\ LET b == Head(jobs.source) IN
       \E gone \in SUBSET Items(b.items) :
          /\ Suffer(Cardinality(gone))
          /\ bundles' = bundles \cup {Fetched(r, b.artifact) : r \in Items(b.items) \ gone}
    /\ jobs' = [jobs EXCEPT !.source = Tail(@)]
    /\ UNCHANGED <<run, built, results, used, lost, file, page, history, runs, outside>>

\* The bundles that serve cell c of batch b: downloaded by its pattern, found
\* under its name, and accepted by restore_vmod_source.
Sources(b, c) ==
    LET v   == FindVmod(run.catalog, c.row)
        src == ResolveSource(v, FindEngine(run.catalog, c.engine)) IN
    {x \in bundles : /\ x.bundle \in b.sources /\ x.name = c.source
                     /\ x.vmod = v.id /\ x.git = v.git /\ x.ref = src.ref
                     /\ src.commit # NoPin => x.commit = src.commit}

\* Mutant of CommitUsed: the cell clones for itself.
CommitUsedOwn(b, c) ==
    LET v   == FindVmod(run.catalog, c.row)
        src == ResolveSource(v, FindEngine(run.catalog, c.engine)) IN
    IF src.commit = NoPin THEN heads[v.git] ELSE src.commit

CommitUsed(b, c) == (CHOOSE x \in Sources(b, c) : TRUE).commit

\* vmod_batch.py: a cell without its engine or its source is infra_failed.
VmodJob ==
    /\ jobs.engine = <<>> /\ jobs.source = <<>> /\ jobs.vmod # <<>>
    /\ LET b    == Head(jobs.vmod)
           all  == Hydrate(b) IN
       \E n \in 1..Len(all) :
          LET cells == Items(SubSeq(all, 1, n))
              fit   == {c \in cells : <<c.engine, c.target>> \in built /\ Sources(b, c) # {}} IN
          \E bad \in Mishaps({VmodKey(c) : c \in fit}) :
             LET status(c) == IF c \notin fit THEN Infra
                              ELSE IF VmodKey(c) \in DOMAIN bad THEN bad[VmodKey(c)] ELSE "pass" IN
             /\ Suffer(Cardinality(DOMAIN bad) + Cut(n, Len(all)))
             /\ results' = results \cup {Report(VmodKey(c), status(c)) : c \in cells}
             /\ used' = used \cup {[key |-> VmodKey(c), commit |-> CommitUsed(b, c)] :
                                     c \in {c \in fit : status(c) # Infra}}
             /\ lost' = lost \cup (VmodKeys(b) \ {VmodKey(c) : c \in cells})
    /\ jobs' = [jobs EXCEPT !.vmod = Tail(@)]
    /\ UNCHANGED <<run, built, bundles, file, page, history, runs, outside>>

\* The runner of the next job is lost and nothing of it is uploaded.
RunnerLost ==
    /\ Suffer(1)
    /\ \/ /\ jobs.engine # <<>>
          /\ lost' = lost \cup EngineKeys(Head(jobs.engine))
          /\ jobs' = [jobs EXCEPT !.engine = Tail(@)]
       \/ /\ jobs.engine = <<>> /\ jobs.source # <<>>
          /\ lost' = lost
          /\ jobs' = [jobs EXCEPT !.source = Tail(@)]
       \/ /\ jobs.engine = <<>> /\ jobs.source = <<>> /\ jobs.vmod # <<>>
          /\ lost' = lost \cup VmodKeys(Head(jobs.vmod))
          /\ jobs' = [jobs EXCEPT !.vmod = Tail(@)]
    /\ UNCHANGED <<run, built, bundles, results, used, file, page, history, runs, outside>>

\* matrix.py merge and render, with the catalog of the run.
Publish ==
    /\ Running /\ jobs = NoJobs
    /\ run.workflow # "release" /\ results # {}
    /\ file' = FoldSet(LAMBDA c, f : MergeCell(f, c), file, results)
    /\ history' = history \cup results
    /\ page' = [grids |-> Render(file', run.catalog), seen |-> history']
    /\ run' = NoRun
    /\ UNCHANGED <<jobs, built, bundles, results, used, lost, runs, troubles, outside>>

\* A release goes its own way; `merge' fails when there is no result at all.
Over ==
    /\ Running /\ jobs = NoJobs
    /\ run.workflow = "release" \/ results = {}
    /\ run' = NoRun
    /\ UNCHANGED <<jobs, built, bundles, results, used, lost, file, page, history, runs,
                   troubles, outside>>

\* render-pages.yml, with the catalog of main.
RenderPages ==
    /\ history # {} /\ Loads(catalog)
    /\ page' = [grids |-> Render(file, catalog), seen |-> history]
    /\ UNCHANGED <<run, jobs, built, bundles, results, used, lost, file, history, runs,
                   troubles, outside>>

-----------------------------------------------------------------------------
Edit ==
    /\ edits < MaxEdits /\ edits' = edits + 1
    /\ catalog' \in Catalogs \ {catalog}
    /\ UNCHANGED <<heads, run, jobs, built, bundles, results, used, lost, file, page, history,
                   runs, troubles>>

Move(git) ==
    /\ heads[git] < MaxMoves /\ heads' = [heads EXCEPT ![git] = @ + 1]
    /\ UNCHANGED <<catalog, run, jobs, built, bundles, results, used, lost, file, page, history,
                   runs, edits, troubles>>

Init ==
    /\ catalog \in Catalogs
    /\ heads = [g \in Upstreams |-> 0]
    /\ run = NoRun /\ jobs = NoJobs
    /\ built = {} /\ bundles = {} /\ results = {} /\ used = {} /\ lost = {}
    /\ file = EmptyState /\ page = NoPage /\ history = {}
    /\ runs = 0 /\ edits = 0 /\ troubles = 0

Next ==
    \/ \E w \in Workflows, only \in Selections \cup {{}} : Dispatch(w, only)
    \/ EngineJob \/ SourceJob \/ VmodJob \/ RunnerLost
    \/ Publish \/ Over \/ RenderPages
    \/ Edit
    \/ \E g \in Upstreams : Move(g)

Spec == Init /\ [][Next]_vars
-----------------------------------------------------------------------------
Sound(map) == \A k \in DOMAIN map : map[k] \in Cell /\ map[k].key = k

TypeOK ==
    /\ catalog \in Catalogs
    /\ heads \in [Upstreams -> 0..MaxMoves]
    /\ Running => run.workflow \in Workflows /\ run.catalog \in Catalogs
    /\ \A b \in bundles \cup used : b.commit # NoPin
    /\ results \subseteq Cell /\ history \subseteq Cell
    /\ Sound(file.cells) /\ Sound(file.infra)
    /\ runs \in 0..MaxRuns /\ edits \in 0..MaxEdits /\ troubles \in 0..MaxTroubles

\* What a run is asked for: each engine of the lane on each of its targets, each
\* VMOD of the catalog against it, and the packages of those that are due.
Promised ==
    LET w    == run.workflow
        es   == {e \in Items(run.catalog.engines) : e.kind = Lane(w)}
        ts(e) == {t \in Items(e.targets) : run.only = {} \/ t \in run.only}
        pack(e) == w \in {"matrix", "release"} /\ e.packages IN
    (UNION {{Key(e.id, e.id, t, "engine") : t \in ts(e)} : e \in {e \in es : w # "release" \/ pack(e)}})
    \cup (UNION {{Key(v, e.id, t, "compat") : v \in Ids(run.catalog.vmods), t \in ts(e)} :
                    e \in {e \in es : w # "release"}})
    \cup (UNION {{Key(v.id, e.id, t, "package") : t \in {t \in ts(e) : PackageEligible(v, e, t)}} :
                    v \in Items(run.catalog.vmods), e \in {e \in es : pack(e)}})

\* No two items of a job stand for the same cell.
EngineItemsDiffer(b) == Once([j \in DOMAIN b.items |-> b.items[j].engine])
VmodItemsDiffer(b)   == Once([j \in DOMAIN b.items |-> b.items[j].row])

Pending == (UNION {EngineKeys(b) : b \in Items(jobs.engine)})
           \cup (UNION {VmodKeys(b) : b \in Items(jobs.vmod)})

\* Nor do items of different jobs.
JobsDiffer ==
    /\ \A i, j \in DOMAIN jobs.engine :
          i # j => EngineKeys(jobs.engine[i]) \cap EngineKeys(jobs.engine[j]) = {}
    /\ \A i, j \in DOMAIN jobs.vmod :
          i # j => VmodKeys(jobs.vmod[i]) \cap VmodKeys(jobs.vmod[j]) = {}
    /\ \A b \in Items(jobs.engine), d \in Items(jobs.vmod) : EngineKeys(b) \cap VmodKeys(d) = {}

\* However the rows are grouped, cut into batches, stripped and restored, every
\* cell of the catalog is at any moment still due in just one job, reported
\* once, or lost with its job; and each package belongs to a pair whose
\* cohort is tested.
EveryCellOnce ==
    Running =>
        LET reported == {c.key : c \in results} IN
        /\ \A b \in Items(jobs.engine) : EngineItemsDiffer(b)
        /\ \A b \in Items(jobs.vmod) : VmodItemsDiffer(b)
        /\ JobsDiffer
        /\ \A c, d \in results : c.key = d.key => c = d
        /\ Pending \cap reported = {} /\ Pending \cap lost = {} /\ reported \cap lost = {}
        /\ Pending \cup reported \cup lost = Promised
        /\ {<<k.engine, k.target>> : k \in {k \in Promised : k.mode = "package"}} \subseteq run.pairs

\* A cell is infra_failed only because something went wrong: the engine and the
\* source that its batch names and downloads are the ones the cell asks for.
InputsAtHand == troubles = 0 => \A c \in results : c.status # Infra

\* Whatever moves upstream while a run is under way, the cells of a VMOD that
\* resolve to one source are built from one commit, the pinned one if it has a
\* pin; and every package has one.
OneSource ==
    LET v(u)   == FindVmod(run.catalog, u.key.row)
        src(u) == ResolveSource(v(u), FindEngine(run.catalog, u.key.engine)) IN
    Running =>
        /\ \A u \in used : src(u).commit # NoPin => u.commit = src(u).commit
        /\ \A u \in used : u.key.mode = "package" => src(u).commit # NoPin
        /\ \A u, x \in used : v(u) = v(x) /\ src(u) = src(x) => u.commit = x.commit

\* The page is green only where every mode has passed when last it concluded,
\* red where one has not, and it says so where a newer attempt was interrupted,
\* with any mixture of catalogs, lanes and runs behind it.
PageTells ==
    \A t \in DOMAIN page.grids : \A at \in DOMAIN page.grids[t] :
        LET cell  == page.grids[t][at]
            past  == {c \in page.seen : /\ c.key.target = t /\ c.key.engine = at[2]
                                        /\ DisplayRow(c.key) = at[1]}
            keys  == {c.key : c \in past}
            newest(k) == {c \in past : Newest(c, Concluded(past, k))} IN
        /\ (cell.bucket = "MISSING") <=> (past = {})
        /\ (cell.bucket = "PASS") <=>
               (past # {} /\ \A k \in keys : \E c \in newest(k) : c.status = "pass")
        /\ (cell.bucket = "FAIL") <=> (\E k \in keys : \E c \in newest(k) : c.status # "pass")
        /\ cell.told = {k.mode : k \in {k \in keys : \E c \in newest(k) :
                                           \E d \in Interrupted(past, k) : d.time > c.time}}
=============================================================================

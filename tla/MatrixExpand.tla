---------------------------- MODULE MatrixExpand ----------------------------
(***************************************************************************)
(* matrix.py expand: the cells of a lane, and the jobs that build them.    *)
(* `only' is the target selector of a release, {} when there is none.      *)
(***************************************************************************)
EXTENDS MatrixCatalog

CONSTANTS SourceBatchSize, VmodBatchSize,
          JobLimit        \* GITHUB_MATRIX_JOB_LIMIT

ASSUME BatchAssumption == {SourceBatchSize, VmodBatchSize} \subseteq Nat \ {0}

LaneEngines(catalog, lane) ==
    Picked(catalog.engines, {i \in DOMAIN catalog.engines : catalog.engines[i].kind = lane})

Packages(e, lane, mode) == lane = "release" /\ e.packages /\ mode \in {"package", "all"}
Compat(mode)            == mode \in {"compat", "all"}

\* Both kinds of cells run on every target of their engine.
EngineTargets(e, lane, mode) ==
    IF Compat(mode) \/ Packages(e, lane, mode) THEN e.targets ELSE <<>>

\* Results of f for the elements of a sequence, one after the other.
ForEach(seq, f(_)) == FlattenSeq([i \in DOMAIN seq |-> f(seq[i])])

Selected(ts, only) == Picked(ts, {i \in DOMAIN ts : only = {} \/ ts[i] \in only})

VmodRow(catalog, v, e, t, mode) ==
    [row |-> v.id, engine |-> e.id, target |-> t, mode |-> mode,
     runner |-> catalog.targets[t], source |-> SourceArtifact(v, e)]

EngineRows(catalog, lane, mode, only) ==
    ForEach(LaneEngines(catalog, lane), LAMBDA e :
        LET ts == Selected(EngineTargets(e, lane, mode), only) IN
        [i \in DOMAIN ts |-> [engine |-> e.id, target |-> ts[i], runner |-> catalog.targets[ts[i]]]])

VmodRowsOf(catalog, e, lane, mode, only) ==
    LET rows(vs, t, m) == [j \in DOMAIN vs |-> VmodRow(catalog, vs[j], e, t, m)]
        ts == Selected(e.targets, only) IN
    (IF Compat(mode) THEN ForEach(ts, LAMBDA t : rows(catalog.vmods, t, "compat")) ELSE <<>>)
    \o (IF Packages(e, lane, mode)
        THEN ForEach(ts, LAMBDA t : rows(PackageVmods(catalog, e, t), t, "package")) ELSE <<>>)

VmodRows(catalog, lane, mode, only) ==
    ForEach(LaneEngines(catalog, lane), LAMBDA e : VmodRowsOf(catalog, e, lane, mode, only))

\* The places where something stands for the first time.
FirstPlaces(seq) == {i \in DOMAIN seq : \A j \in 1..i-1 : seq[j] # seq[i]}

\* One fetch for each source, resolved for the first engine that uses it.
SourceRows(rows) ==
    LET first == Picked(rows, FirstPlaces([i \in DOMAIN rows |-> rows[i].source])) IN
    [i \in DOMAIN first |-> [row |-> first[i].row, engine |-> first[i].engine,
                             source |-> first[i].source]]

-----------------------------------------------------------------------------
(* Batches *)

\* The rows of each key, in the order in which the keys first appear.
GroupBy(rows, keys) ==
    LET first == Picked(keys, FirstPlaces(keys)) IN
    [n \in DOMAIN first |-> Picked(rows, {i \in DOMAIN rows : keys[i] = first[n]})]

\* Mutant of Slices: a batch begins with the last cell of the one before.
SlicesOverlapping(seq, size) ==
    [i \in 1..((Len(seq) + size - 1) \div size) |->
        SubSeq(seq, IF i = 1 THEN 1 ELSE (i - 1) * size,
               IF i * size < Len(seq) THEN i * size ELSE Len(seq))]

Slices(seq, size) ==
    [i \in 1..((Len(seq) + size - 1) \div size) |->
        SubSeq(seq, (i - 1) * size + 1, IF i * size < Len(seq) THEN i * size ELSE Len(seq))]

Batches(rows, keys, size) == ForEach(GroupBy(rows, keys), LAMBDA g : Slices(g, size))

\* The number names the artifact "vmod-sources-<number>".
SourceBatches(catalog, rows) ==
    LET builds == [i \in DOMAIN rows |-> FindVmod(catalog, rows[i].row).build]
        bs     == Batches(rows, builds, SourceBatchSize) IN
    [i \in DOMAIN bs |-> [artifact |-> i, items |-> bs[i]]]

\* The artifact "engines-<target>".
EngineBatches(rows) ==
    LET gs == GroupBy(rows, [i \in DOMAIN rows |-> <<rows[i].target, rows[i].runner>>]) IN
    [i \in DOMAIN gs |-> [target |-> gs[i][1].target, items |-> gs[i]]]

\* artifact_by_source.
BundleOf(sources, source) ==
    CHOOSE n \in DOMAIN sources : \E r \in Items(sources[n].items) : r.source = source

\* Mutant of Contract: cells of different targets share a batch.
ContractWide(r) == [engine |-> r.engine, mode |-> r.mode, runner |-> r.runner]

\* What the cells of a batch share; compact items leave it out.
Contract(r) == [engine |-> r.engine, target |-> r.target, mode |-> r.mode, runner |-> r.runner]

VmodBatches(rows, sources) ==
    LET bs == Batches(rows, [i \in DOMAIN rows |-> Contract(rows[i])], VmodBatchSize) IN
    [i \in DOMAIN bs |->
        [engine |-> bs[i][1].engine, target |-> bs[i][1].target, mode |-> bs[i][1].mode,
         sources |-> {BundleOf(sources, r.source) : r \in Items(bs[i])},
         items |-> [j \in DOMAIN bs[i] |-> [row |-> bs[i][j].row, source |-> bs[i][j].source]]]]

\* hydrate_vmod_batch_items: the cells of a batch as its job sees them.
Hydrate(b) ==
    [j \in DOMAIN b.items |-> [row |-> b.items[j].row, source |-> b.items[j].source,
                               engine |-> b.engine, target |-> b.target, mode |-> b.mode]]

-----------------------------------------------------------------------------
(* cmd_expand *)

\* release_package_target_filter.
Selectable(catalog) ==
    UNION {Items(e.targets) : e \in {e \in Items(LaneEngines(catalog, "release")) : e.packages}}

Plan(catalog, lane, mode, only) ==
    LET vmods   == VmodRows(catalog, lane, mode, only)
        engines == EngineRows(catalog, lane, mode, only)
        sources == SourceBatches(catalog, SourceRows(vmods)) IN
    [engine |-> EngineBatches(engines),
     source |-> sources,
     vmod   |-> VmodBatches(vmods, sources),
     pairs  |-> {<<r.engine, r.target>> : r \in {r \in Items(engines) :
                    Packages(FindEngine(catalog, r.engine), lane, mode)}}]

Expands(catalog, lane, mode, only) ==
    /\ Loads(catalog)
    /\ only \subseteq Selectable(catalog)
    /\ LET plan == Plan(catalog, lane, mode, only) IN
       /\ plan.engine # <<>> /\ plan.vmod # <<>>
       /\ \A jobs \in {plan.engine, plan.source, plan.vmod} : Len(jobs) <= JobLimit
       /\ Cardinality(plan.pairs) <= JobLimit
=============================================================================

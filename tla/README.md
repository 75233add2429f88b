# Verification of vcache-packaging

This directory models the parts of vcache-packaging whose correctness depends on
the order of things: publication to GitHub, attempts of the release workflow, the
result caches, the expansion of the catalog into jobs, the matrix state branch, the
steps of one build cell, the promotion of pins, the way of a package from its recipe
through the gate, and the translation of a VMOD's source for the other engine family. Each
module is translated from the code and checked with TLC on small instances. Publication, its
waits, the expansion of the catalog and the runs of its jobs, the merge of results and their way to
the page, the release workflow, the VMOD and engine caches, the cell scripts, the way of a package
through the gate and the promotion of pins have machine-checked proofs of their safety for every value
of their constants.

## 1. The system

vcache-packaging builds *engines* (Vinyl and Varnish, releases and trunk) and *VMODs*
on several *targets* (Debian, Ubuntu, Alma Linux; amd64 and arm64). A *cell* is one
build of one row (engine or VMOD) against one engine on one target in one mode
(`engine`, `compat` or `package`). Cells end with a status: `pass`, an honest red
(`build_failed`, `load_failed`, ...) or `infra_failed`. The matrix page shows every
cell; the release workflow publishes complete, tested package sets.

| component | state it keeps | operations | talks to |
|---|---|---|---|
| release publication, `tools/release_publish.py` | GitHub's tags, drafts, assets, immutable releases; local variables of one call | `publish()`: list, tag, draft, upload, verify, PATCH, verify | GitHub API, with retries and re-reads |
| rate limiting, `GhApi` of `release_publish.py` | a deadline and the next delay, shared by all requests | ask, classify the refusal, wait or give up | GitHub API |
| release workflow, `release.yml`, `release_assemble.py`, `release_gate.py` | artifacts and results of a run over its attempts, caches | engine batches, VMOD batches, cohort tests, gate, publication of each pair | all builders, publication |
| cell result merge, `matrix.py merge_cells` | state file: `cells` and `infra_failures` by key | merge | publish jobs |
| state branch and page, `matrix.yml`, `trunk.yml`, `render-pages.yml`, `matrix-state.sh` | branch `ci-state/matrix`, the page, a checkout per job | check out, merge, push, render, deploy | git remote, GitHub Pages, a concurrency group |
| VMOD batch, `vmod_batch.py`, `vmod_cache.py`, `vmod-batch.yml` | snapshots in GitHub's cache, restored directory, results and packages | restore, build, time out, save, snapshot, upload | cell scripts, cache |
| engine batch, `engine_batch.py`, `engine_cache.py` | snapshot per target and input, results, packages | resolve branches, restore, validate, build all, save | cell scripts, cache, git remotes |
| recipes and contract, `recipe.py`, `package_contract.py`, `cargo-artifacts.py`, `vmod-artifacts.py`, `release_gate.py` | a packaged tree; the downloaded payload of a pair | render, stage, prune, verify, gate | cell scripts, release workflow |
| source normalization, `source_api_normalize.py` | a source tree, a report | replace in every file, tell whether anything changed | cell scripts |
| cell scripts, `build-engine.sh`, `build-vmod.sh`, `lib.sh` | a work directory: step, commit and marker files, artifacts, packages, result | steps in containers, classification, result | docker, package managers, git |
| cohort smoke, `test-package-cohort.sh` | a result per pair | install everything together, start the daemon | release workflow |
| source prefetch, `source_batch.py`, `fetch-vmod-source.sh`, `source_digest.py` | source bundles | concurrent fetch, digest | git remotes |
| retry policy, `lib.sh` | attempt counter | run, back off, recover | every network command |
| catalog, expansion, batching, `matrix.py` | none (YAML in, JSON out) | validate, expand, batch, hydrate, env | workflows |
| page rendering, `matrix.py` | none | `build_grid`, `render_html` | publish jobs |
| reload helper, `packaging/engine/reload-vcl` | VCLs of a running daemon | load, label, use, discard | the daemon's CLI |
| pin promotion, `vmod_heads.py` | pins in `vmods/*.yml` | check heads, rewrite | git remotes |
| text tools: `yaml_subset.py`, `jsonschema_gen.py` | none | parse YAML, print schemas | `matrix.py` |

What makes each of them correct:

* **publication**: success means an immutable release with exactly the staged bytes
  at the requested commit; a release once published never changes; a wave (one
  engine and package revision over all targets) has one packaging commit; whatever a
  lost request or job leaves behind, calling again finishes it; the waits GitHub asks for
  back off and never cost a job more than their budget;
* **release workflow**: nothing is published that was not built, tested and
  smoke-tested in this very combination, whatever attempts and caches it comes from;
  a green run has released everything; a pair's failure stays its own;
* **merge**: the page shows the last *conclusion* of each cell, in whatever order
  results arrive, and keeps the newest interruption since beside it;
* **state branch**: the branch is the merge of exactly what was pushed; the page never
  goes back; a job that succeeds is shown;
* **VMOD batch**: no verdict is reported for inputs it was not built from; only
  complete snapshots are saved, which holds of undisturbed runs and not of all (section 4);
* **cell scripts**: a pass ships the package this build made and installed; failures are
  blamed on what failed; a result names the commit that was built;
* **expansion**: every cell of the catalog is due in exactly one job, with its engine and
  its source at hand; cells of one source build one commit, the pinned one if there is a pin;
* **rendering**: a page cell is green only where every mode last concluded with a pass;
* **engine batch**: a snapshot holds, whole, what its key names; engines of one branch are
  built from one commit, and a pass is of the commit and the recipes of its job;
* **package contract**: the gate stages exactly the cohort, each VMOD for the runtime beside
  it, and a matrix that is green can be staged; a package holds the declared modules as files;
* **source normalization**: the ordered replacements do what a translation of each word by
  itself does, and the report tells whether there was anything to do;
* **pin promotion**: a commit is written to a manifest only if it passed in every trunk cell
  of the VMOD; a call cut short leaves the pins before the refusal written and none behind;
* **reload helper**: the active VCL is never discarded.

Hard behaviours: requests and replies lost between GitHub and a call; calls and jobs
cut off anywhere and run again; artifacts of several attempts side by side; jobs of
several workflows in one concurrency group that keeps one waiting job only;
results out of order, repeated or restored from a cache; timeouts of cells inside a
timeout of the job; snapshots found by prefix whose inputs are others, or extracted in part;
branches and images that move between two steps of a job; waits of many requests inside one
job; work directories used again by hand. `PROJECT.json` lists them as hazards with their lines.

## 2. Modules

### ReleasePublish, ReleaseLedger, ReleaseMaintainer

`ReleasePublish` is `publish()` request by request. GitHub is `ref` (the commit of each
tag), `rel` (releases by id: tag, draft, locked, assets) and `immutable` (the setting).
The call's locals keep the code's names: `found`, `view`, `todo`, `tries`, `siblings`;
`pc` names the next request. One action per request: `ListReleases`, `CheckSibling`,
`ResolveTag`, `CreateTag`/`RereadTag`/`ConfirmTag` (`_create_tag` and its recovery),
`CreateRelease`/`Relist` (the creation whose reply may be lost), `NextAsset`, `Upload`,
`Refresh`, `ClearStarter` (the loop over staged files), `VerifyDraft`, `RecheckTag`,
`Patch`, `Observe`, `FinalTag`. A mutating request may be lost before or after its effect;
an upload may leave nothing, a starter, the asset, or another content (`Mangled`);
`Interrupt` is the loss of the job or a fatal read. A later call may ask for anything in
`Builds`. The `release-stable` concurrency group admits one publisher, hence one set
of locals.

`ReleaseLedger` is what a consumer is promised: a ledger per wave that gains whole
entries of one commit and never changes one. `ReleasePublish` implements it under
`LedgerOf` (the published releases with their tag's commit).

`ReleaseMaintainer` adds a person who moves tags, edits assets, deletes, publishes or
creates releases by hand while a call runs; GitHub refuses them a locked release. Its `Resumes`
is about the behaviours without such a person.

### RateLimit

`GhApi._run` in time: `Open` makes the object some time into the job, `Ask` is a request that
enters the loop, `Succeed`, `GiveUp` and `Sleep` the outcomes of one attempt, `Wake` the end of
the wait. `RetryDelay` and `NextDelay` are `_retry_delay` and what it makes of
`secondary_delay`; `MayWait` is the comparison with the deadline. An attempt takes at least a tick.
`busy` counts what is not waiting, so `InsideJob` can say what the waits may cost.

### MatrixCells, MatrixMerge, MatrixPublish

`MatrixCells` has `merge_cells` as operators: `MergeCell` is one turn of the loop,
`MergeInterruption` and `MergeConclusion` its two branches, and the reference they are
checked against (`ShowsNewest`, `KeepsInterruption`) is defined from the *set* of results.
`MatrixMerge` is one state file over its life, merging any result any number of times.

`MatrixPublish` composes it with the publish jobs: `Queue`, `Rerun`, `Admit` are the
concurrency group (external: one running, one waiting, a newcomer drops the waiting one);
`Checkout`, `Merge`, `CommitFile`, `Push`, `Deploy` are the steps of `matrix-state.sh` and the
workflows. `Merge` is one turn of the loop of `merge_cells`, in any order of the files: `file` is
what it works on, `rest` what is still to be merged, and nothing of it outlives the job.
A push is accepted when it is a fast-forward, its reply may be lost, and `RetryPush` is
`git_retry`.

### MatrixCatalog, MatrixExpand, MatrixGrid, MatrixPlan

The first three are the pure parts of `matrix.py` as operators. `MatrixCatalog` has what
`load_catalog` refuses, `ResolveSource` and the identity of a fetched source;
`MatrixExpand` the rows of a lane and their batches (`SourceBatches`, `EngineBatches`,
`VmodBatches`, and `Hydrate`, which restores what a batch carries for its cells), by `Plan`
and `Expands` as `cmd_expand` has them; `MatrixGrid` the grids of the page from the
maps of `MatrixCells`.

`MatrixPlan` runs the plan: `Dispatch` expands the catalog of main, `EngineJob`, `SourceJob` and
`VmodJob` are the jobs, which report cells and leave prefixes and bundles (all of them, or as far as a
timeout lets them: `Cut`), `RunnerLost` a job of which
nothing is uploaded, `Publish` and `RenderPages` the page. `Edit` changes main and `Move` a branch
upstream meanwhile. Jobs of a stage exchange nothing, so their order is fixed; the
race of publishers is in `MatrixPublish`, caches in `VmodBatch`, a release's way on in
`ReleaseWorkflow`. `EveryCellOnce` compares the jobs with `Promised`, the cells in set notation
straight from the catalog; `PageTells` compares the page with the set of all results.

### ReleaseWorkflow

One run of `release.yml` over its attempts. `engine`, `vmod`, `cohort` are the artifacts
and results of the run *by name*, so those of an earlier attempt stay until a later one
uploads over them. `EngineHit`/`EngineBuild`, `VmodHit`/`VmodBuild`, `Cohort`, `Lost` (a
runner gone before its upload), `Gate`, `Publish`, `Conclude`, `RerunAll`, `RerunFailed`. The gate
prepares the green pairs (`queue`, places in `Order`), the release loop takes the first one left.
Builds are not reproducible, so a package set is identified by the attempt that built
it. `publish()` is one step; `ReleasePublish` has its inside.

### VmodBatch

One batch through its runs, of the package mode or of the compat mode with a trunk engine, whose
`commit` moves. `Start` downloads (the engine comes whole, in part or not at all), computes the key
and restores (exact key, or the newest snapshot with the prefix); the driver goes through the cells,
each in the steps of `run_batch`: a `Hit` copies the result and `Restore` the packages; `Build` or
`TimeOut` end with the collected result, `Collect` adds the packages and asks `Savable`; then
`save_cell` goes file by file (`SaveManifest`, `SaveResult`, `RemovePackages`, `SavePackages`).
`Raise` is an exception that leaves the driver before or in the middle of any of these steps, in the
middle with a file that does not read (`HalfSaved`) or a package set of which a part is there
(`Torn`). `JobTimeout` is the job's own limit; `SaveSnapshot` and `Upload` run in any case. An engine
in part is what `build-vmod.sh` is content with (`Buildable`) and `cache_eligible` is not
(`Eligible`): a trunk prefix without its commit, or packages without the prefix. A verdict and a
package set carry the inputs they were *really* built from, which no file records, and a snapshot
whether its run left no cell between result and entry and had its whole engine (`clean`):
two histories for the properties, no guard reads them.

### EngineCache

The engine job of one target over several workflow runs. `Begin`, `ResolveItem` (one lookup
per branch and batch), `RestoreSnapshot` (a miss, an exact hit, or an extraction that ends in the
middle, after or within the file at any `Place` of the archive), `Validate` (`cacheable`), `BuildItem` (a pass, a red
or infra cell with some artifacts, or the end of the job's time, perhaps in the middle of a copy:
`Torn`), `Conclude` (save and upload).
`MoveTip`, `EditContract` and `Evict` are the world. A file carries the commit and recipes it was
really built from. Trunk and release batches differ in `BranchOf`.

### PackageNames, PackageChain

`PackageNames` has what a package is called, which version and dependencies it gets
(`matrix.py`, `recipe.py`: `Env`, `Recipe`) and what its staging makes of an installed tree
(`Install` of `cargo-artifacts.py`, `Retain` of `vmod-artifacts.py`), with names and versions as
sequences of the parts that the comparisons tell apart. `PackageChain` runs one pair of
engine and target through them: `EngineStep` and `VmodStep` build or restore, `Verified` and
`Loads` are the checks of a cell, `ValidatePairPayload` is the gate. `SetRevision`,
`MoveImage`, `EvictPackages` and `Misfile` are what changes meanwhile.

### PinHeads

`vmod_heads.py --green --apply`: `Load` reads the pins, `Resolve` asks one remote, `Judge`
reads the saved state, `Apply` is one turn of the loop that rewrites manifests, `Finish` the
exit. A pin is a record of VMOD, entry and commit; `Before` is the order in which `pins()` lists them,
and `Apply` takes the first of those left. `MoveHead` and `Report` run at any time.

### SourceNormalize

The replacements as data (`Replacements`, in the code's order) and `NormalizeBytes` as their
application to a text; a text is a sequence of fragments, where a name of a family is one fragment
in one of its forms, so that `Replaced` matches what the code's byte strings match. The reference,
`TranslatedWord`, looks at one word at a time. `VisitFile` is one turn of
`normalize_tree`, `Tell` the end of `main`.

### MCTools

These five and `MatrixMerge` share no state. `MCTools` chooses one of them at the
beginning of a behaviour and lets it take all the steps, so that one run checks them all: the
states of the machines add up and do not multiply.

### CellBuild

One work directory with the scripts that run in it. `Invoke` chooses what is built, from
which catalog, and whether in a directory of its own (`fresh`: what the drivers do) or
in the one at hand (what the repository's README shows). `InfraCell` and `Launch` are the host side;
`Step`, `Break`, `Reinstall`, `Pass` the containers; `Interrupt` may come anywhere. The step
sequences are the `step` lines of the scripts. `tmp` holds the files a container leaves for
`fail_cell`: step, commit, normalisation marker. `After`/`Partly` say what a step leaves on
the disk when it ends or breaks. `MCReleaseCells` checks these scripts and `ReleaseWorkflow` in one
run: they share no state, a behaviour is one of either, and the states add up.

## 3. Runs

| run | module, bounds | shows |
|---|---|---|
| `release_publish` | 2 tags, 2 files, 4 rival builds, 3 calls, 2 faults, 2 tries | success is exact; one release per tag; one commit per wave; implements the ledger |
| `release_maintainer` | 1 tag, 2 builds, 3 tries; unedited 4 calls, 3 faults; edited 2 calls, 1 fault, 2 edits | success is exact while somebody edits the repository; where nobody does, every partial state is resumed |
| `tools` | six machines, below | merge keeps newest conclusion and interruption and never regresses; waits stay inside the job and back off; engine snapshots are whole and passes of their job; pins move to proven heads, in order; the gate stages the cohort, and nothing fails without a cause; sources are translated |
| `pin_stuck` | 2 manifests, two pins of one at one commit, 2 calls | *violation*, finding 5 |
| `matrix_publish` | 3 runs, 1 render, 3 faults, 1 rerun, 2 tries | branch, page, success and termination |
| `release_cells` | workflow: 2 engines, 2 targets, 3 attempts, 3 troubles; scripts of a cell: 2 catalogs, 3 builds of any kind, both formats | released as tested; green means all; pass is what was built; honest failures; provenance |
| `release_hostage` | 1 target, 2 attempts | *violation*, finding 1 |
| `release_stale_cohort` | 1 target, lost cohort runners | *violation*, finding 2 |
| `vmod_batch` | 2 cells, 2 versions, 2 contracts, 2 commits, both modes, 3 runs, 2 changes, 2 troubles, the driver raises up to the manifest | verdicts fit; snapshots of undisturbed runs are whole |
| `vmod_torn` | 1 contract, package mode, `save_cell` raises between files or in one | *violation*, finding 3 |
| `vmod_partial` | 2 runs, 1 change, 1 trouble, the driver raises from the result to the manifest | *violation*, finding 4 |
| `matrix_plan` | 3 catalogs (one refused), 5 engines, 3 VMODs, 2 targets, batches of 2, 2 runs, 1 edit, 1 move, 1 trouble (cell, fetch, job or runner) | every cell in one job with its inputs; one source, one commit; the page tells |

Why the bounds are enough:

* `release_publish`: each recovery path needs one fault; two faults in one call or in two
  calls reach every pair of partial states; two tags are the least that can disagree; three
  calls let one be cut off, a rival come second and the first return. `MaxTries` is 3 in the code
  (`range(3)`); 2 tells a first attempt from a last, and
  `release_maintainer` has 3.
* `release_maintainer`: every edit multiplies the states of a call, so a repository that is
  edited has the smaller bounds `EditedFaults` and `EditedCalls`.
* `tools`, the merge: the rules compare two times of one key; three times give before, equal and
  after; the proofs remove the bound.
* `tools`, `RateLimit`: the code's minutes (first delay 1, cap 10, budget 80, job 90) in
  proportion: 1, 3, 8 and 10; an attempt takes up to 2, GitHub names up to 4, three requests.
  Delays that are capped, waits that just fit and just do not, and refusals after a budget is
  spent all occur; the proofs remove the bounds.
* `tools`, `EngineCache`: a trunk batch of two engines of one branch and a release batch of one
  packaged engine; three jobs build, hit or restore in part, and build again after the branch or the
  recipes moved once; two mishaps are a torn restore in a job that is cut off.
* `tools`, `PinHeads`: a VMOD with two series that moves both pins, and another at the same
  remote with other trunk cells; one call, since what a second one finds is a state the first
  can start from; `MaxPasses` bounds the passing trunk builds to what proves one manifest whole.
* `tools`, `PackageChain`: an Autotools and a Cargo VMOD, one with an underscore and a dash to be
  rewritten; both formats; revisions 1 and 10, image suffixes `.el10` and `.el10_1`, each the beginning
  of the other; two runs with two moves between or inside them, one artifact misfiled.
* `tools`, `SourceNormalize`: texts of two words out of those whose spellings contain or touch
  one another; two files, since a file's result depends on no other.
* `pin_stuck`: two calls show that the second is no better off.
* `matrix_publish`: three runs are what it takes to have one run, one wait and one replaced.
  The results of the nights overlap in keys and times.
* `release_cells`, the workflow: a rerun of a rerun is the longest chain in which an artifact skips an
  attempt. `Losable` excludes the cohort stage there; with it `release_stale_cohort` fails.
* `release_cells`, the scripts: three builds are an engine, a package of one version and one of another.
* `vmod_batch`: three runs are build, overwrite by prefix, return. `RaisesAt` has the steps up to and
  with the manifest: exceptions before and during a build, a restore, the collection of the packages and the
  writing of the manifest. Behind the manifest an entry is of two conclusions, and `VerdictsFit` does not
  hold there (`vmod_torn`). `SnapshotsWhole` holds wherever the driver raises, by its theorem, because it
  speaks of `clean` snapshots. What becomes of the others is asked by `SnapshotsComplete`, which is violated by
  a raise
  between result and manifest (`vmod_partial`).
* `matrix_plan`: batches of two make full, partial and single ones, and source batches that
  serve several VMOD batches (the code's sizes are 10 and 6); the largest plan has nine
  jobs of a kind, the `JobLimit`. The catalogs have a ref pinned at two commits, an unpinned
  VMOD, one restricted to a family and a target, and a promoted one without a pin, which is refused.
  Two runs with an edit between give results of one catalog rendered with another. One cell,
  fetch, job or runner fails, since jobs do not affect each other but through
  `built` and `bundles`.

Deadlock is not checked where the system really stops: when the calls, runs or builds of
the bound are used up.

**Fairness.** `release_maintainer` (`EditedFairSpec`, for `Resumes`): weak fairness of the publisher (a job that runs goes on) and of
`Start` (whoever wants the release calls again), with finitely many faults. `matrix_publish`: weak
fairness of `Queue`, `Admit` and `Proceed` of each job: builds end, GitHub admits the waiting job
when the group is free, a runner executes the next step; none of faults, reruns, interrupts.

**Assumptions on the constants.** TLC evaluates them on the runs' instances; the theorems hold for whatever
satisfies them. Those with content:

* `CatalogAssumption`: the shape of a catalog file; nothing that `load_catalog` has to find out.
* `NameAssumption`: no `%{?dist}` in a version and no tilde in an id, as no packaging system takes them there;
  modules and artifacts of a Cargo VMOD come in pairs (`matrix.py:494` compares their numbers); a file that
  is not named like a module is not one. And the package names of two VMODs differ. The code does
  not enforce the last: `engine_vmod_package_name` (`matrix.py:657`) writes `-` for `_`, so ids that differ only there
  would share a package name. Today's ids do not.
* `ChainAssumption`: a revision is digits (`PACKAGE_REVISION_RE`), so without a dot; what a distribution puts
  for `%{?dist}` is empty or begins with a dot; no VMOD is called `engine-pkgs`, like the artifact.
* `PlanAssumption`, `BatchAssumption`, `NormalizeAssumption`: times reach as far as runs do, batches have a
  size, bounds are numbers.

**External assumptions.** A GitHub tag has at most one published release; immutable
releases and their tags cannot change; a concurrency group keeps one running and one
pending job; artifacts are found by name over the attempts of a run, the newest first;
a cache key is written once, a prefix finds the newest entry, and a path that does not exist is not saved; git accepts
fast-forwards only; apt and dnf enforce exact-version dependencies.

## 4. Findings

1. **A pair held hostage** (`release_assemble.py:97`, run `release_hostage`). The first attempt
   releases one pair of a target and fails another. A rerun whose engine batch was not
   cached builds both engines again; the released pair now has other bytes, its `publish()`
   raises, and the loop ends before the pair that has become green. No later attempt gets further
   either. SCOPE.md:17 promises the opposite, DESIGN.md:284 recommends the rerun.
2. **A stale cohort result** (`release_assemble.py:64`, run `release_stale_cohort`). The gate takes the
   cohort result of an earlier attempt for new packages when the cohort job of the
   new attempt lost its runner.
3. **A torn cache entry** (`vmod_cache.py:259`, run `vmod_torn`). `save_cell` writes the manifest over
   a restored entry before the result and the packages; if a copy raises, the snapshot is
   still saved, with the new fingerprint on the old conclusion.
4. **A snapshot without its last cell** (`vmod_batch.py:147`, run `vmod_partial`). The result of a cell
   is collected before its packages, and its entry is written after both. If the last cell is stopped in
   between (a full disk while packages are copied), every result is there and `results_cacheable`,
   which looks at `work/results` and `work/packages` only, says true. The snapshot is saved under the full
   key; later runs hit it exactly, build the missing cell every time, and never save, as an
   exact hit is not saved again. `vmod_cache.py:306` promises "a complete batch snapshot".
5. **A pin that cannot move** (`vmod_heads.py:175`, run `pin_stuck`). `--apply` wants the pinned commit
   once in its manifest. Two series pinned at one commit are found green, refused, and refused again by
   every later call, together with the green pins behind them; `vmod_heads.py:212` promises to
   update the pins proven safe to move.

Seen while modelling, without a run of their own:

* `save_cell` passes over cells that are not eligible (`vmod_cache.py:248`), and `results_cacheable` counts their
  conclusions. A trunk prefix without `engine-source-commit`, or packages without the prefix, are built
  with; what was restored by prefix is then saved as it was, under the new key, in package mode the key of
  the whole download, against the comment at `vmod_cache.py:168`. `vmod_partial.cfg` with
  `Downloads = {"whole", "part"}` and `RaisesAt = {}` violates `SnapshotsComplete` this way; it is why
  `clean` asks for a whole engine;
* the sibling check (`release_publish.py:253`) walks releases, so a tag whose call died
  before the draft is not seen, and another target may be published at another commit;
* with equal `finished_at` the later merged result wins (`matrix.py:1206`), so input order
  can matter, contrary to DESIGN.md:189;
* two cells at their 60-minute limit use up the 120 minutes of the job
  (`vmod-batch.yml:41`), and the cells behind get no result, contrary to DESIGN.md:300;
* `status_for_step` has a step `checkout` for a bad ref ("real failures, not infra",
  `lib.sh:649`) that no script enters; a bad ref ends as `infra_failed` in `clone`;
* `$TAG.step` (`lib.sh:867`) survives in a directory used by hand, so a container that cannot be
  started there is blamed on the step where the previous build ended, even a passing one;
  `HonestWhenFresh` is therefore about directories of their own, as the drivers make them;
* the page prefers the later `finished_at`, as DESIGN.md:189 says, and a result restored from the
  cache keeps its own (`vmod_cache.py:238`): a pin that moves forth and back shows the conclusion of
  the commit between until something builds anew;
* a VMOD package requires the engine build it was compiled against with the image's suffix. If the
  image moves and only one of the two caches is evicted, cells fail or the gate refuses until
  `package_revision` or a cache key changes; `FailsForCause` has it as a cause, `StagedIsTheCohort`
  shows that such a set is never staged;
* the order of the paths in the engine cache steps puts artifacts before results, so an extraction
  that ends early leaves no result to be judged by, and `cacheable` rejects it; a job cut off while
  it builds over such files may still upload a torn prefix, with no passing result if that cell was
  the one at work, and the VMOD cells that unpack it fail;
* `--green` counts passing cells against expected ones (`vmod_heads.py:158`): a VMOD with no
  expected trunk cell would be green without evidence; today's catalog has none;
* `retry-after: 0` is obeyed (`release_publish.py`, `_retry_delay`): requests repeat without a pause
  until the deadline. A caller that catches a refusal may ask again, so `RateLimit` bounds waiting,
  not the number of requests;
* the last rule of the table, `/vinyl/` to `/varnish/`, finds nothing to do from Varnish to Vinyl, as
  `varnish/` is replaced before it, and leaves `/vinyl-cache/` there (`IsSlashed`);
* the result of a VMOD in a mode that is no longer asked for (demoted, or a package target dropped)
  stays in the state file and keeps colouring its page cell; only rows, engines and targets
  follow the catalog (`matrix.py:1288`);
* Debian packages accumulate in `tmp/` of a directory used by hand (`build-vmod.sh:383`): after
  a version change `collect` finds two and the cell is `infra_failed` from then on.

## 5. Proofs

Eight modules of theorems, for arbitrary constants under the named assumptions of the modules.
Each proof has the same shape: an inductive invariant made of named parts, one lemma per action that
preserves it, and theorems that read the properties off it. The invariants were model-checked on the
runs' instances before they were proved.

* `ReleasePublishProofs` (`ReleaseAssumption`): `TypeCorrect`, `SuccessIsExact`
  (`DoneIsExact`), `NoDuplicates` (`OneReleasePerTag`), `WaveAgrees` (`OneWave`),
  `LedgerRefined` (`Spec => Ledger!Spec`).
  The four invariants are not inductive: what a step may do depends on what the call has
  learned. `IInv` adds that knowledge per program point: `WaveChecked` (all other releases are
  at this commit, save siblings not yet resolved), `Looked` (the list still holds), `NoneYet` (no
  release until we create one), `Held` (then exactly one, a draft until the PATCH, exact from the
  last read on), `Looping`, `PublishedWhole`. The knowledge is stable because one publisher runs at
  a time; `ReleaseMaintainer` shows by TLC what remains when that is not so.
  The refinement maps every action but `Patch` to a stutter of the ledger.
* `MatrixCellsProofs`: lemmas on the operators of `merge_cells`, and `MergeTells`: if a file says of a
  set of results what the reference (`ShowsNewest`, `KeepsInterruption`) says, then after one turn
  of the loop it says it of that set and the new result. The two halves of the reference need each
  other: the kept interruption is defined by the conclusion shown.
* `MatrixPlanProofs` (`PlanAssumption`, `CatalogAssumption`, `BatchAssumption`): `Invariant`, `TypeCorrect`,
  `CellsOnce` (`EveryCellOnce`), `InputsCome` (`InputsAtHand`), `SourceStays` (`OneSource`), `PageTrue`
  (`PageTells`), for every catalog and any sizes of the batches.
  The first half is about lists: what is in `Slices` and `GroupBy`, that an element of the list is in
  one batch only, and that stripping a batch for its job and `Hydrate` restore the cells (`BatchParts`,
  `JoinOnce`, `StripsKeys`). From these, `PlanFits`: the jobs of `Plan` stand for the cells of `Promised`, each
  once, with the batch of its engine and the bundle of its source among them.
  The second half is the run. `Fits` adds to the properties why they stay: the jobs left are still of
  the shape the expansion made (`JobsFit`), a bundle is what its name says and there is one of a name
  (`BundlesFit`), a cell was built from the bundle of its own source (`UsedFits`), what a waiting cell needs
  is there or still to come (`NothingMissing`), a run reports at its own time, after all earlier ones
  (`TimesFit`), and the file tells the history (`FileFits`, by `MergeTells`, folded over a run's results in any
  order: `MergeAll`). `OneSource` follows from `UsedFits` and `BundlesFit`. `PageTells` is preserved beside
  `Fits`: a page is made of a file that tells what was seen, and `WorstIs` says what the worst of the modes of a
  cell is.
* `MatrixPublishProofs` (`PublishAssumption`): `PublishTypes`, `BranchTells` (`BranchIsWhole`),
  `PageAdvances` (`PageNeverOlder`), `SuccessShows` (`DoneIsShown`), over the loop turn by turn. The
  push is a fast-forward only because nothing moved since the checkout; `PublishInv` has why: at most
  one job is active (`OneActive`), and by where it is (`InHand`) its checkout is the branch and the file
  at work tells the pushed results and those of its own run taken so far, or the checkout is one commit
  ahead and tells all of them, or the push has arrived and only its reply was lost. The page is never
  ahead of the branch.
* `ReleaseWorkflowProofs` (`WorkflowAssumption`): `WorkflowTypes`, `GreenReleasesAll`
  (`GreenMeansAll`), and `ReleasesTested` (`ReleasedAsTested`) under `"cohort" \notin Losable`.
  `WorkflowInv` says that an attempt takes every job of the stages after its first (`DueClosed`), that
  what runs is due (`Staged`), and that past the gate a green pair waits in the queue or is released as it
  is (`Gated`). The last theorem adds `CohortFits`: a passing cohort result is of the packages at hand, or
  this attempt has yet to test the pair. The hypothesis is needed: `release_stale_cohort` violates the property without it (finding 2).
* `VmodBatchProofs` (`BatchAssumption`): `TypeCorrect`; `BatchCaches` (`SnapshotsWhole`), wherever the driver
  raises; `BatchReports` (`VerdictsFit`) if it does not raise between the manifest and the packages of `save_cell`
  (`RaisesAt \cap {"result", "packages", "copy"} = {}`), a hypothesis that `vmod_torn` shows to be needed.
  `TypeInv` adds to the types that a cell under way has its result and that `save_cell` was right to begin
  (`Underway`). For the snapshots, `WholeInv`: what this run has concluded the directory holds, but for the one
  cell between its result and its entry (`DirHolds`); a cell that `save_cell` refuses has no conclusion, or an
  engine in part, since nothing is concluded of a cell without its source (`SourceSeen`). For the verdicts,
  `ReportInv`: an entry that says what it is of is of it, in every snapshot (`StoreSound`) and in the directory
  but for the entry being written (`DirSound`), and a result being restored has its entry beside it (`Restoring`).
* `ToolsProofs`, the machines of `MCTools`:
  `MatrixMerge`: `MergeInvariance`, `MergeTypes`, `NewestWins` (`NewestConclusionShown`), `InterruptionsKept`
  (`InterruptionKept`), `MergeMonotone` (`NeverRegresses`), for any keys, verdicts and natural times.
  `PinHeads` (`PinAssumption`): `PinTypes`, `PinsInOrder` (`AppliedInOrder`), `PinsProven` (`OnlyProven`).
  `PinInv` keeps what the call knows while the world moves on: a saved pass was a pass (`Truthful`),
  nothing is judged while remotes are asked (`Reading`), a green pin's head has passed wherever it is
  expected to (`Judged`), and there is one pin per entry, so that a rewritten line is that pin's.
  `EngineCache` (`EngineAssumption`): `EngineTypes`, `EngineSnapshots` (`EngineSnapshotsWhole`), `PassesFit`
  (`PassIsOfThisJob`). `EngineInv` relates items to their batch (`Progress`), engines of one branch to
  one commit (`OneCommit`), and files to their origin (`WorkFits`): what is restored, even in part, is
  of the key, and since the place of a result is behind all artifacts, a result that reads stands
  for whole artifacts (`LastIsLast`).
  `RateLimit` (`RateAssumption`): `WaitsStayInsideTheJob` (`InsideJob`) and `BackoffGrows` (`BacksOff`).
  `InsideJob` speaks of the moment and must be told where its time went (`Shared`): the deadline is set
  by the work done before it, a wait ends before the deadline, so whatever `now` has beyond
  `busy + MaxWait` would be work itself. `BacksOff` needs that `secondary_delay` never falls below twice
  the last unnamed wait, up to the cap, which also holds over the waits GitHub names a time for.
  `PackageChain` (`NameAssumption`, `ChainAssumption`): `ChainTypes`, `CohortStaged` (`StagedIsTheCohort`),
  `FailuresHaveCause` (`FailsForCause`). Under both are lemmas about texts: what a macro expands to (`Rendered`),
  that the gate accepts a version only with the revision it expects (`SameRevision`) and accepts it with
  any image's mark (`Accepted`), that a name is of one package (`NamesDiffer`) and so is an asset's name (`AssetsDiffer`).
  The inductive part of `ChainInv` is that every package ever built is `Genuine`: its name and version say
  what it is, of which revision and in which image, its dependency is on the runtime of that very revision and
  image, and a VMOD has its modules. So whatever lies in whatever directory, what the gate lets through is
  what the directory promises (`DownloadedFits`), once (`DownloadedOnce`). `CauseInv` adds that a run nobody
  has meddled with has one engine pair and one package of each VMOD that has ended, each in its place (`InPlace`): then a
  cell that stages its modules passes unless the engine shows another image (`MadePasses`), and of the three
  conditions of the gate only the dependencies can fail, where two packages show two images (`DependenciesTidy`).
  `SourceNormalize` (`NormalizeAssumption`): `NormalizeTypes`.
  `ToolsTypes` (`ToolsTypeOK`): a behaviour of `ToolsSpec` is, for each tool, one of its own specification
  (`ToolsApart`), so that the six type theorems hold of it at once.
* `CellBuildProofs` (`BuildAssumption`): `BuildTypes` (`BuildTypeOK`), `PassesAreBuilt` (`PassIsBuilt`), `FailuresAreHonest`
  (`HonestWhenFresh`), `ResultsTell` (`Provenance`). The step sequences are facts about literal
  sequences, proved once per script: which step records the commit, where the package is built and
  collected. `BuildInv` says that in a directory of its own the step file names the step (`Blamed`) and
  commit and marker are those of this build (`Noticed`); and, in any directory, that the package of
  this invocation is among those in `tmp/` from its build on and is the one in `out` once the
  collection found exactly one (`Packed`).

Only model-checked:

* liveness (`Resumes`, `EveryRunEnds`), which needs ENABLED;
* `SourceTranslated`: that thirteen to seventeen rules, applied in their order to a whole text, do what a
  translation of each word by itself does is a calculation with every rule on every word and whatever
  earlier rules have made of it, not an argument; TLC does it;
* `ReleaseMaintainer`, where the knowledge the proofs rest on is not stable.

Induction over data (the length of a list, the turns of a fold) goes by the least counterexample: `Least` has
it from the well-foundedness of `<`, and a recursive function or a fold is first replaced by one with
known values at every index (`JoinExists`, `FlattenSteps`, `FoldExists`). No theorem of the library that takes an
operator as a parameter is used.

The bounds of the runs (`MaxAttempts`, `MaxFaults` and the like) are parameters of the theorems; the
numbers of section 3 are instances.

## 6. Not modelled

* `packaging/engine/reload-vcl`: the engine projects' own helper, shipped as it is. It works on the
  daemon's VCL interface, of which this repository has nothing to translate.
* `yaml_subset.py`, `jsonschema_gen.py`: a parser and a printer without state, correct or not
  character by character, which tests reach better.
* the overlay probe, a manual experiment without state; the tests.
* HTML, labels and links of the page, the spelling checks of the catalog, the 1 MB limit of outputs.
* the backoff and the hooks of `lib.sh`'s retries: one caller whose only state is its counter.
* the cohort smoke test is one step with two outcomes; a bundle's archive and digest are taken
  to be faithful. Contents of packages, logs and diagnostics are abstracted throughout.
* `RateLimit` does not claim that a publication ends: a caller may ask again after a refusal.

## 7. Plan

Modelled: everything of the table of section 1 but the reload helper and the text tools. Proved: every
invariant and action property that a run checks, and the refinement of the ledger, but for those of
`ReleaseMaintainer` and `SourceTranslated`. What would come next:

| step | module | theorem, and what it rests on |
|---|---|---|
| 1 | SourceNormalize | a replacement whose pattern has no blank works on each word by itself; then `SourceTranslated`, word by word |
| 2 | ReleaseMaintainer | its safety from an invariant about what a locked release cannot lose |
| 3 | ReleaseWorkflow, ReleasePublish | one specification in which a pair's publication is `publish()` request by request |

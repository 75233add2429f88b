---------------------------- MODULE PackageChain ----------------------------
(***************************************************************************)
(* From recipe to release for one pair of an engine and a target: runs     *)
(* build or restore the engine's packages and those of the promoted VMODs  *)
(* (the package half of build-vmod.sh), and the gate checks and stages     *)
(* what it downloads (release_gate.validate_pair_payload).  Meanwhile the  *)
(* catalog's revision is bumped and reverted, the image behind the target  *)
(* moves, caches are evicted and artifacts get into wrong directories.     *)
(***************************************************************************)
EXTENDS PackageNames, FiniteSets

CONSTANTS
    PackageTargets,   \* records of format and arch
    Revisions,        \* values of package_revision, digit by digit
    Images,           \* what %{?dist} is in the generations of an image
    TreesOf,          \* what upstream may install, per VMOD
    MaxRuns, MaxMoves, MaxMisfiled   \* bounds

\* PACKAGE_REVISION_RE; what a distribution puts for %{?dist} begins with a
\* dot; and a directory, like the history, is named for what is in it.
ASSUME ChainAssumption ==
    /\ Revisions # {} /\ Images # {}
    /\ \A r \in Revisions : IsText(r) /\ {".", Dist} \cap ToSet(r) = {}
    /\ \A d \in Images : IsText(d) /\ (d # <<>> => d[1] = ".")
    /\ \A t \in PackageTargets : t.format \in {"deb", "rpm"}
    /\ IsFiniteSet(Vmods) /\ {"runtime", "development", "engine-pkgs"} \cap Vmods = {}

VARIABLES
    target,      \* of the pair
    revision,    \* of the catalog on main
    image,       \* the present generation
    engineCache, cellCache,   \* per revision: the packages last built, or none
    phase,       \* of the run: "idle", "engine", "vmods" or "gate"
    checkout,    \* the revision the run was started at
    unbuilt,     \* VMODs whose cells have not ended
    artifacts,   \* pkgdl: a set of directories with their packages
    outcome,     \* of the last run
    staged,      \* what its gate staged, under the names of the assets
    shelf,       \* history: every package ever built
    failed,      \* history: the cell that failed last, and what it was built from
    runs, moves, misfiled

chainVars == <<target, revision, image, engineCache, cellCache, phase, checkout, unbuilt,
               artifacts, outcome, staged, shelf, failed, runs, moves, misfiled>>

\* A native package: its metadata, its payload, and (history) what it is.
Package(name, version, requires, files, what, rev) ==
    [name |-> name, arch |-> target.arch, version |-> version, requires |-> requires,
     files |-> files, what |-> what, revision |-> rev]

EngineDir == "engine-pkgs"
Directory(dir, packages) == [dir |-> dir, packages |-> packages]
NoTarget == [format |-> "none", arch |-> "none"]
NoFailure == [vmod |-> "none", tree |-> NoPayload, image |-> <<>>]
Move == moves < MaxMoves /\ moves' = moves + 1

-----------------------------------------------------------------------------
(* The world *)

ChooseTarget ==
    /\ target = NoTarget
    /\ target' \in PackageTargets
    /\ UNCHANGED <<revision, image, engineCache, cellCache, phase, checkout, unbuilt,
                   artifacts, outcome, staged, shelf, failed, runs, moves, misfiled>>

SetRevision ==
    /\ Move
    /\ revision' \in Revisions \ {revision}
    /\ UNCHANGED <<target, image, engineCache, cellCache, phase, checkout, unbuilt,
                   artifacts, outcome, staged, shelf, failed, runs, misfiled>>

\* "The cache deliberately follows declared image tags" (decision 22).
MoveImage ==
    /\ Move
    /\ image' \in Images \ {image}
    /\ UNCHANGED <<target, revision, engineCache, cellCache, phase, checkout, unbuilt,
                   artifacts, outcome, staged, shelf, failed, runs, misfiled>>

EvictPackages ==
    /\ Move
    /\ \/ \E r \in Revisions : /\ engineCache[r] # {}
                               /\ engineCache' = [engineCache EXCEPT ![r] = {}]
                               /\ UNCHANGED cellCache
       \/ \E v \in Vmods, r \in Revisions :
             /\ cellCache[v][r] # {}
             /\ cellCache' = [cellCache EXCEPT ![v][r] = {}]
             /\ UNCHANGED engineCache
    /\ UNCHANGED <<target, revision, image, phase, checkout, unbuilt, artifacts,
                   outcome, staged, shelf, failed, runs, misfiled>>

\* A directory holds packages of another build, too many or too few, or is lost.
Misfile ==
    /\ phase = "gate" /\ misfiled < MaxMisfiled
    /\ misfiled' = misfiled + 1
    /\ \E d \in artifacts :
          \/ artifacts' = artifacts \ {d}
          \/ \E p \in shelf, some \in SUBSET d.packages :
                artifacts' = (artifacts \ {d}) \cup {Directory(d.dir, some \cup {p})}
          \/ \E p \in shelf : artifacts' = artifacts \cup {Directory(d.dir, {p})}
    /\ UNCHANGED <<target, revision, image, engineCache, cellCache, phase, checkout, unbuilt,
                   outcome, staged, shelf, failed, runs, moves>>

-----------------------------------------------------------------------------
(* The build *)

StartRun ==
    /\ target # NoTarget /\ phase = "idle" /\ runs < MaxRuns
    /\ runs' = runs + 1
    /\ checkout' = revision /\ phase' = "engine"
    /\ unbuilt' = Vmods /\ artifacts' = {} /\ outcome' = "none" /\ staged' = {}
    /\ UNCHANGED <<target, revision, image, engineCache, cellCache, shelf, failed, moves, misfiled>>

\* build-engine.sh, the packages.
EnginePackages ==
    LET version == Expanded(EnginePackageVersion(checkout, target.format), image)
        Made(name, what) == Package(name, version, Exactly(name, NoIsa, version), NoPayload, what, checkout)
    IN  {Made(RuntimePackage, "runtime"), Made(DevelopmentPackage(target.format), "development")}

EngineStep ==
    /\ phase = "engine"
    /\ LET packages == IF engineCache[checkout] # {} THEN engineCache[checkout] ELSE EnginePackages IN
          /\ engineCache' = [engineCache EXCEPT ![checkout] = packages]
          /\ artifacts' = {Directory(EngineDir, packages)}
          /\ shelf' = shelf \cup packages
    /\ phase' = "vmods"
    /\ UNCHANGED <<target, revision, image, cellCache, checkout, unbuilt, outcome, staged,
                   failed, runs, moves, misfiled>>

\* The engine's packages as the container has them installed.
Installed == UNION {d.packages : d \in {e \in artifacts : e.dir = EngineDir}}
Satisfied(need, packages) == \E p \in packages : p.name = need.name /\ p.version = need.version

\* verify_vmod(): a dependency on exactly the engine that is installed, the
\* identity, the architecture and the payload.
Verified(p, v) ==
    LET env == Env(v, target.format) IN
    /\ \E e \in Installed : e.name = env.runtime /\ p.requires = Exactly(env.runtime, target.arch, e.version)
    /\ p.name = env.name /\ p.arch = target.arch
    /\ PayloadFits(p.files, env.modules)

\* What dpkg-buildpackage or rpmbuild makes of the recipe and an installed tree.
Built(v, tree) ==
    LET recipe == Recipe(v, checkout, target)
        cargo  == recipe.artifacts # <<>>
        files  == IF cargo THEN Install(tree, recipe.modules, recipe.artifacts)
                           ELSE Retain(tree, ToSet(recipe.modules))
        staging == IF cargo THEN Installable(tree, recipe.artifacts)
                            ELSE Retainable(tree, ToSet(recipe.modules))
    IN  IF staging /\ Satisfied(ExpandedNeed(recipe.buildRequires, image), Installed)
        THEN {Package(recipe.name, Expanded(recipe.version, image),
                      ExpandedNeed(recipe.requires, image), files, v, checkout)}
        ELSE {}

\* A fresh container installs the package with its engine and loads it.
Loads(p, v) ==
    /\ \E e \in Installed : p.requires = Exactly(e.name, target.arch, e.version)
    /\ \A m \in ToSet(ModulesOf[v]) : SizeAt(p.files, m) > 0

Passes(packages, v) == \E p \in packages : Verified(p, v) /\ Loads(p, v)

\* A cell is restored, or built from what upstream installs today.
VmodStep(v) ==
    /\ phase = "vmods" /\ v \in unbuilt
    /\ \E tree \in TreesOf[v] :
       LET built    == Built(v, tree)
           packages == IF cellCache[v][checkout] # {} THEN cellCache[v][checkout]
                       ELSE IF Passes(built, v) THEN built ELSE {}
       IN  /\ cellCache' = [cellCache EXCEPT ![v][checkout] = packages]
           /\ IF packages # {}
              THEN /\ artifacts' = artifacts \cup {Directory(v, packages)}
                   /\ unbuilt' = unbuilt \ {v}
                   /\ phase' = IF unbuilt' = {} THEN "gate" ELSE phase
                   /\ shelf' = shelf \cup packages
                   /\ UNCHANGED <<outcome, failed>>
              ELSE /\ phase' = "idle" /\ outcome' = "red"
                   /\ failed' = [vmod |-> v, tree |-> tree, image |-> image]
                   /\ UNCHANGED <<artifacts, unbuilt, shelf>>
    /\ UNCHANGED <<target, revision, image, engineCache, checkout, staged, runs, moves, misfiled>>

-----------------------------------------------------------------------------
(* The gate *)

\* Mutant of RpmVersionMatches: whatever begins like it.
RpmVersionMatchesLoosely(actual, rendered) == IsPrefix(RemoveSuffix(rendered, Dist), actual)

\* Mutant of RpmVersionMatches: no suffix.
RpmVersionMatchesExactly(actual, rendered) == actual = RemoveSuffix(rendered, Dist)

\* _rpm_version_matches(): the distribution may add a suffix, behind a dot.
RpmVersionMatches(actual, rendered) ==
    LET base == RemoveSuffix(rendered, Dist) IN actual = base \/ IsPrefix(base \o <<".">>, actual)

VersionMatches(actual, rendered) ==
    IF target.format = "deb" THEN actual = rendered ELSE RpmVersionMatches(actual, rendered)

\* _expected_packages(): per directory, the names it must hold and their version.
Expected ==
    [dir \in Vmods \cup {EngineDir} |->
        IF dir = EngineDir
        THEN [n \in {RuntimePackage, DevelopmentPackage(target.format)} |->
                 EnginePackageVersion(checkout, target.format)]
        ELSE [n \in {VmodPackageName(dir)} |-> VmodPackageVersion(dir, checkout, target.format)]]

\* Every directory is there once, and holds every package it promises once, at
\* the catalog's revision for the target's architecture, and nothing else.
DirectoriesFit ==
    \A dir \in DOMAIN Expected :
        /\ Cardinality({d \in artifacts : d.dir = dir}) = 1
        /\ \A d \in artifacts : d.dir = dir =>
              /\ \A p \in d.packages : /\ p.name \in DOMAIN Expected[dir]
                                       /\ p.arch = target.arch
                                       /\ VersionMatches(p.version, Expected[dir][p.name])
              /\ \A n \in DOMAIN Expected[dir] : Cardinality({p \in d.packages : p.name = n}) = 1

Downloaded == UNION {d.packages : d \in {e \in artifacts : e.dir \in DOMAIN Expected}}
StagedRuntime == CHOOSE p \in Downloaded : p.name = RuntimePackage

\* Mutant of DependenciesFit: any dependency on the runtime will do.
DependenciesFitByName ==
    \A p \in Downloaded : p.what \in Vmods => p.requires.name = RuntimePackage

\* Every VMOD requires exactly the runtime that is staged with it.
DependenciesFit ==
    \A p \in Downloaded : p.name \in {VmodPackageName(v) : v \in Vmods} =>
        p.requires = Exactly(RuntimePackage, target.arch, StagedRuntime.version)

\* github_release_asset_name() of the file a package is built into.
AssetName(p) ==
    Substituted(p.name \o <<"_">> \o p.version \o <<"_", p.arch>>, "~", ".")

\* Asset names as GitHub keeps them must differ.
NamesFit == \A p, q \in Downloaded : AssetName(p) = AssetName(q) => p = q

ValidatePairPayload ==
    /\ phase = "gate"
    /\ IF DirectoriesFit /\ DependenciesFit /\ NamesFit
       THEN outcome' = "accepted" /\ staged' = {<<AssetName(p), p>> : p \in Downloaded}
       ELSE outcome' = "refused" /\ staged' = {}
    /\ phase' = "idle"
    /\ UNCHANGED <<target, revision, image, engineCache, cellCache, checkout, unbuilt,
                   artifacts, shelf, failed, runs, moves, misfiled>>

FirstOf(S) == CHOOSE s \in S : TRUE

ChainInit ==
    /\ target = NoTarget /\ revision = FirstOf(Revisions) /\ image = FirstOf(Images)
    /\ engineCache = [r \in Revisions |-> {}]
    /\ cellCache = [v \in Vmods |-> [r \in Revisions |-> {}]]
    /\ phase = "idle" /\ checkout = FirstOf(Revisions) /\ unbuilt = {} /\ artifacts = {}
    /\ outcome = "none" /\ staged = {} /\ shelf = {} /\ failed = NoFailure
    /\ runs = 0 /\ moves = 0 /\ misfiled = 0

ChainNext ==
    \/ ChooseTarget \/ SetRevision \/ MoveImage \/ EvictPackages \/ Misfile
    \/ StartRun \/ EngineStep \/ ValidatePairPayload
    \/ \E v \in Vmods : VmodStep(v)

ChainSpec == ChainInit /\ [][ChainNext]_chainVars
-----------------------------------------------------------------------------
ChainTypeOK ==
    /\ target \in PackageTargets \cup {NoTarget}
    /\ revision \in Revisions /\ checkout \in Revisions /\ image \in Images
    /\ phase \in {"idle", "engine", "vmods", "gate"}
    /\ outcome \in {"none", "red", "accepted", "refused"}
    /\ unbuilt \subseteq Vmods
    /\ engineCache \in [Revisions -> SUBSET shelf]
    /\ cellCache \in [Vmods -> [Revisions -> SUBSET shelf]]
    /\ \A d \in artifacts : d.dir \in Vmods \cup {EngineDir} /\ d.packages \subseteq shelf

\* A VMOD package ships the declared modules and nothing else, each a file of
\* its own that can be loaded.
ShipsItsModules(p) ==
    /\ DOMAIN p.files = ToSet(ModulesOf[p.what])
    /\ \A m \in DOMAIN p.files : p.files[m].link = "" /\ p.files[m].size > 0

\* What the gate stages is what the release promises, and can be installed
\* together: the two packages of the engine and one of each promoted VMOD, of
\* the revision of the checkout, every VMOD for the very runtime beside it and
\* with its modules, under as many names, whatever the directories held.
StagedIsTheCohort ==
    outcome = "accepted" =>
        LET packages == {s[2] : s \in staged} IN
        /\ {<<p.what, p.revision>> : p \in packages}
              = {<<w, checkout>> : w \in Vmods \cup {"runtime", "development"}}
        /\ Cardinality({s[1] : s \in staged}) = Cardinality(Vmods) + 2
        /\ \A p, q \in packages : p.what \in Vmods /\ q.what = "runtime" =>
              p.requires.version = q.version
        /\ \A p \in packages : p.what \in Vmods => ShipsItsModules(p)

\* An artifact got astray, or the image moved between the builds of an engine
\* and a VMOD that caches put together.
RefusedForCause ==
    misfiled > 0 \/ \E p, q \in Downloaded : \E d, e \in Images :
        d # e /\ IsSuffix(d, p.version) /\ IsSuffix(e, q.version)

\* A module is missing or empty, a Cargo build left other artifacts, or the
\* engine is of another image.
RedForCause ==
    \/ IF ArtifactOf[failed.vmod] # <<>>
       THEN ~Installable(failed.tree, ArtifactOf[failed.vmod])
       ELSE ~Retainable(failed.tree, ToSet(ModulesOf[failed.vmod]))
    \/ \E e \in Installed, d \in Images : d # failed.image /\ IsSuffix(d, e.version)

\* What the recipe writes, the cell verifies and the gate expects agree: a cell
\* or a gate that fails has a cause outside of them, and a matrix that is green
\* and undisturbed can be released.  In particular a module that upstream
\* installs as a link to a versioned file is packaged (DESIGN, decision 37).
FailsForCause ==
    /\ outcome = "refused" => RefusedForCause
    /\ outcome = "red" => RedForCause
=============================================================================

------------------------------ MODULE CellBuild ------------------------------
(* One cell of the matrix: scripts/build-engine.sh and scripts/build-vmod.sh  *)
(* in one work directory.  A script checks its inputs on the host, runs the   *)
(* steps of a generated script in a container, a second script in a fresh     *)
(* container for packages, and writes one cell result.  All it knows of a     *)
(* failed container is what the container left in the work directory.         *)
(*                                                                            *)
(* The batch drivers give each cell a directory of its own; a person who      *)
(* follows the README builds again and again in `work/', may interrupt a      *)
(* build, and edits the catalog in between.                                   *)
EXTENDS Integers, Sequences, FiniteSets

CONSTANTS
    Pins,      \* what the catalog can say: versions of an engine and a VMOD
    None,      \* no file
    MaxBuilds  \* bound: invocations of the scripts

ASSUME BuildAssumption == IsFiniteSet(Pins) /\ None \notin Pins /\ MaxBuilds \in Nat

VARIABLES
    format,   \* package format of the target
    disk,     \* artifacts/, packages/ and the packages in tmp/
    tmp,      \* tag -> its .step, .commit and .source-api-normalization files
    result,   \* kind -> the cell result in results/
    phase,    \* idle, host, run, passed or failed
    run,      \* the arguments of the invocation, and its number
    tag, at,  \* the container script and the step it is in; 0: none yet
    did       \* what this invocation did: source checked out, source rewritten

buildVars == <<format, disk, tmp, result, phase, run, tag, at, did>>

-----------------------------------------------------------------------------
(* The scripts *)

Kinds    == {"engine", "compat", "package"}
Tags     == Kinds \cup {"install"}
Flavours(kind) == IF kind = "engine" THEN {"release", "trunk"} ELSE {"autotools", "cargo"}

EngineSteps(r) ==
    IF r.flavour = "release"
    THEN <<"deps", "fetch", "digest", "bootstrap", "configure", "make", "daemon",
           "prefix-tar", "pkg-build", "collect">>
    ELSE <<"deps", "clone", "bootstrap", "configure", "make", "daemon", "prefix-tar">>

\* Workflow cells must use the prefetched source, others may clone.
Source(r) == IF r.fresh THEN "source-artifact" ELSE "clone"

CompatSteps(r) ==
    IF r.flavour = "autotools"
    THEN <<"deps", "unpack-engine", "engine-source", Source(r), "source-api-normalize",
           "bootstrap", "configure", "make", "modules", "load", "check">>
    ELSE <<"deps", "unpack-engine", "engine-source", Source(r), "cargo-deps",
           "cargo-bootstrap", "source-api-normalize", "cargo-preflight", "cargo-fetch",
           "cargo-build", "cargo-artifacts", "load", "cargo-test">>

PackageSteps(r) ==
    IF r.flavour = "autotools"
    THEN <<"deps", "engine-install", "engine-source", Source(r), "source-api-normalize",
           "bootstrap", "pkg-build", "collect", "pkg-verify">>
    ELSE <<"deps", "engine-install", "engine-source", Source(r), "cargo-deps",
           "cargo-bootstrap", "source-api-normalize", "cargo-preflight", "cargo-fetch",
           "pkg-build", "collect", "pkg-verify">>

InstallSteps == <<"deps", "pkg-install", "pkg-load">>

Steps == CASE tag = "engine"  -> EngineSteps(run)
           [] tag = "compat"  -> CompatSteps(run)
           [] tag = "package" -> PackageSteps(run)
           [] tag = "install" -> InstallSteps

StepAt == IF at = 0 THEN "unknown" ELSE Steps[at]

StepNames == {"unknown", "deps", "fetch", "digest", "clone", "bootstrap", "configure", "make",
    "daemon", "prefix-tar", "pkg-build", "collect", "unpack-engine", "engine-install",
    "engine-source", "source-artifact", "source-api-normalize", "modules", "load", "check",
    "cargo-deps", "cargo-bootstrap", "cargo-preflight", "cargo-fetch", "cargo-build",
    "cargo-artifacts", "cargo-test", "pkg-verify", "pkg-install", "pkg-load"}

-----------------------------------------------------------------------------
(* What a result says of a failure *)

\* The steps of each honest red.  status_for_step also knows a step `checkout',
\* which no script enters: a bad ref fails in `clone'.
Red(mode) == [
    build_failed     |-> {"digest", "daemon", "modules", "source-api-normalize", "make",
                          "cargo-build", "cargo-artifacts"}
                         \cup (IF mode = "package" THEN {} ELSE {"cargo-preflight"}),
    configure_failed |-> {"bootstrap", "configure"},
    load_failed      |-> {"load"},
    test_failed      |-> {"check", "cargo-test"},
    package_failed   |-> {"pkg-build", "pkg-verify"}
                         \cup (IF mode = "package" THEN {"cargo-preflight"} ELSE {}),
    install_failed   |-> {"pkg-install", "pkg-load"}]

Statuses == DOMAIN Red("package") \cup {"infra_failed", "pass"}

\* Mutant of StatusForStep: no default for a step it does not know.
StatusForKnownStep(step, mode) ==
    IF step = "unknown" THEN step
    ELSE IF \E s \in DOMAIN Red(mode) : step \in Red(mode)[s]
    THEN CHOOSE s \in DOMAIN Red(mode) : step \in Red(mode)[s]
    ELSE "infra_failed"

StatusForStep(step, mode) ==
    IF \E s \in DOMAIN Red(mode) : step \in Red(mode)[s]
    THEN CHOOSE s \in DOMAIN Red(mode) : step \in Red(mode)[s]
    ELSE "infra_failed"

Result(status, step, commit, marker) ==
    [status |-> status, step |-> step, commit |-> commit, marker |-> marker]

NoFiles  == [step |-> "unknown", commit |-> None, marker |-> FALSE]
NoResult == Result("none", "", None, FALSE)

-----------------------------------------------------------------------------
(* The work directory *)

\* A package remembers the invocation that built it; its file name does not.
Package == [pin : Pins, no : 1..MaxBuilds]
Empty   == [prefix |-> None, torn |-> FALSE, pkgs |-> None, stamp |-> None,
            tmp |-> {}, out |-> {}]

\* dpkg-buildpackage writes next to the source tree, over a package of the
\* same name and version; rpmbuild writes into a directory of its own.
PackageBuilt(d) == LET mine == [pin |-> run.pin, no |-> run.no] IN
    [d EXCEPT !.tmp = {p \in @ : format = "deb" /\ p.pin # run.pin} \cup {mine}]

\* Mutant of Selected: any package of the name will do.
SelectedAny(packages) == packages

\* The package of the expected name, if there is exactly one.
Selected(packages) == IF Cardinality(packages) = 1 THEN packages ELSE {}

\* Mutant of Commit: the commit file is looked for under the container's tag.
CommitOfScript == tmp[tag].commit

\* The commit file is the one of the container that checked out the source.
Commit == tmp[run.kind].commit

\* Mutant of StepFile: failures of the second container under the first tag.
StepFileOfCell == tmp[run.kind].step

\* What fail_cell finds in $TAG.step.
StepFile == tmp[tag].step

-----------------------------------------------------------------------------
(* The host side *)

\* A workflow cell starts in an empty directory into which the driver has
\* copied the artifacts of the engine.
Invoke ==
    /\ phase \in {"idle", "passed", "failed"}
    /\ run.no < MaxBuilds
    /\ \E kind \in Kinds, pin \in Pins, fresh \in BOOLEAN : \E flavour \in Flavours(kind) :
          /\ run' = [kind |-> kind, flavour |-> flavour, pin |-> pin, fresh |-> fresh,
                     no |-> run.no + 1]
          /\ tag' = kind
          /\ IF fresh
             THEN /\ disk' = IF kind = "engine" THEN Empty
                             ELSE [disk EXCEPT !.tmp = {}, !.out = {}]
                  /\ tmp' = [t \in Tags |-> NoFiles]
                  /\ result' = [k \in Kinds |-> NoResult]
             ELSE UNCHANGED <<disk, tmp, result>>
    /\ phase' = "host" /\ at' = 0
    /\ did' = [source |-> FALSE, rewrite |-> FALSE]
    /\ UNCHANGED format

Report(r) == result' = [result EXCEPT ![run.kind] = r]

\* infra_cell: no environment, no prefetched source, no engine artifacts, no
\* recipe.
InfraCell ==
    /\ phase = "host"
    /\ Report(Result("infra_failed", "", None, FALSE))
    /\ phase' = "failed"
    /\ UNCHANGED <<format, disk, tmp, run, tag, at, did>>

\* The checks pass and the container script is written.
Launch ==
    /\ phase = "host"
    /\ run.kind = "compat" => disk.prefix # None
    /\ run.kind = "package" => disk.pkgs # None
    /\ phase' = "run"
    /\ UNCHANGED <<format, disk, tmp, result, run, tag, at, did>>

\* fail_cell: the step file of the script, the commit and the marker of the
\* cell.  The script may have failed before its first step, or the container
\* may not have started at all.
FailCell ==
    Report(Result(StatusForStep(StepFile, run.kind), StepFile, Commit, tmp[run.kind].marker))

-----------------------------------------------------------------------------
(* The container side *)

\* Entering a step writes the step file; the output directories of packages
\* are removed first.
Cleared(step, d) ==
    IF step # "pkg-build" THEN d
    ELSE IF tag = "engine" THEN [d EXCEPT !.pkgs = {}] ELSE [d EXCEPT !.out = {}]

\* What a step leaves on the disk when it is through.
After(step, d) ==
    CASE step = "prefix-tar" -> [d EXCEPT !.prefix = run.pin, !.torn = FALSE]
      [] step = "pkg-build" /\ tag = "package" -> PackageBuilt(d)
      [] step = "collect" /\ tag = "engine"  -> [d EXCEPT !.pkgs = {run.pin}]
      [] step = "collect" /\ tag = "package" -> [d EXCEPT !.out = Selected(d.tmp)]
      [] OTHER -> d

\* Files a step that fails, or is cut off, may leave: tar writes the archive
\* in place, and a package is checked after it was built or copied.
Partly(step, d) ==
    CASE step = "prefix-tar" -> {d, [d EXCEPT !.prefix = run.pin, !.torn = TRUE]}
      [] step = "pkg-build" \/ (step = "collect" /\ tag = "engine") -> {d, After(step, d)}
      [] OTHER -> {d}

\* Steps that cannot succeed on what is there.  A VMOD package depends on the
\* exact version of its engine.
CanPass(step) ==
    /\ step = "unpack-engine"  => ~disk.torn
    /\ step = "engine-install" => disk.pkgs # {}
    /\ step = "collect" /\ tag = "package" => Selected(disk.tmp) # {}
    /\ step = "pkg-verify"     => Selected(disk.out) # {}
    /\ step = "pkg-install"    => disk.pkgs = {run.pin} /\ disk.out # {}

\* The steps at whose end the commit of the source is recorded: a release
\* engine has none.
Records(step) == step \in {"clone", "source-artifact", "digest"}

SourceCommit == IF run.flavour = "release" THEN None ELSE run.pin

Noted(files, step, rewrite) ==
    [files EXCEPT !.commit = IF Records(step) THEN SourceCommit ELSE @,
                  !.marker = @ \/ rewrite]

\* The script enters its first step, or passes one and enters the next.
Step ==
    /\ phase = "run" /\ at < Len(Steps)
    /\ at > 0 => CanPass(StepAt)
    /\ \E rewrite \in IF StepAt = "source-api-normalize" THEN BOOLEAN ELSE {FALSE} :
          /\ tmp' = [tmp EXCEPT ![tag] =
                       [Noted(@, StepAt, rewrite) EXCEPT !.step = Steps[at + 1]]]
          /\ did' = [source  |-> did.source \/ Records(StepAt),
                     rewrite |-> did.rewrite \/ rewrite]
    /\ disk' = Cleared(Steps[at + 1], After(StepAt, disk))
    /\ at' = at + 1
    /\ UNCHANGED <<format, result, phase, run, tag>>

\* The container ends with an error: at a step, before the first one, or
\* because it could not be started.
Break ==
    /\ phase = "run"
    /\ disk' \in Partly(StepAt, disk)
    /\ FailCell
    /\ phase' = "failed"
    /\ UNCHANGED <<format, tmp, run, tag, at, did>>

\* The package is built and verified; a fresh container installs it.
Reinstall ==
    /\ phase = "run" /\ tag = "package" /\ at = Len(Steps) /\ CanPass(StepAt)
    /\ tag' = "install" /\ at' = 0
    /\ UNCHANGED <<format, disk, tmp, result, phase, run, did>>

\* artifacts/engine-source-commit is written when the engine has passed.
Stamped(d) ==
    IF run.kind = "engine" THEN [d EXCEPT !.stamp = tmp["engine"].commit] ELSE d

Pass ==
    /\ phase = "run" /\ tag # "package" /\ at = Len(Steps) /\ CanPass(StepAt)
    /\ disk' = Stamped(After(StepAt, disk))
    /\ Report(Result("pass", "", Commit, tmp[run.kind].marker))
    /\ phase' = "passed"
    /\ UNCHANGED <<format, tmp, run, tag, at, did>>

\* Somebody stops the script, or the machine is lost.
Interrupt ==
    /\ phase \in {"host", "run"}
    /\ disk' \in IF phase = "run" THEN Partly(StepAt, disk) ELSE {disk}
    /\ phase' = "idle"
    /\ UNCHANGED <<format, tmp, result, run, tag, at, did>>

-----------------------------------------------------------------------------
BuildInit ==
    /\ format \in {"deb", "rpm"}
    /\ disk = Empty
    /\ tmp = [t \in Tags |-> NoFiles]
    /\ result = [k \in Kinds |-> NoResult]
    /\ phase = "idle" /\ at = 0
    /\ tag = "engine"
    /\ \E pin \in Pins :
          run = [kind |-> "engine", flavour |-> "release", pin |-> pin, fresh |-> TRUE, no |-> 0]
    /\ did = [source |-> FALSE, rewrite |-> FALSE]

BuildNext == Invoke \/ InfraCell \/ Launch \/ Step \/ Break \/ Reinstall \/ Pass \/ Interrupt

BuildSpec == BuildInit /\ [][BuildNext]_buildVars

-----------------------------------------------------------------------------
(* Properties *)

CommitsOrNone == Pins \cup {None}

Files  == [step : StepNames, commit : CommitsOrNone, marker : BOOLEAN]
Disk   == [prefix : CommitsOrNone, torn : BOOLEAN, pkgs : {None} \cup SUBSET Pins,
           stamp : CommitsOrNone, tmp : SUBSET Package, out : SUBSET Package]
Run    == [kind : Kinds, flavour : {"release", "trunk", "autotools", "cargo"}, pin : Pins,
           fresh : BOOLEAN, no : 0..MaxBuilds]

BuildTypeOK ==
    /\ format \in {"deb", "rpm"}
    /\ disk \in Disk
    /\ tmp \in [Tags -> Files]
    /\ result \in [Kinds -> [status : Statuses \cup {"none"}, step : StepNames \cup {""},
                            commit : CommitsOrNone, marker : BOOLEAN]]
    /\ phase \in {"idle", "host", "run", "passed", "failed"}
    /\ run \in Run /\ run.flavour \in Flavours(run.kind)
    /\ tag = run.kind \/ (tag = "install" /\ run.kind = "package")
    /\ at \in 0..Len(Steps)
    /\ did \in [source : BOOLEAN, rewrite : BOOLEAN]

Mine == result[run.kind]

\* A package cell that passes has left exactly one package, the one this very
\* invocation built and installed, next to engine packages of the same catalog,
\* whatever earlier and interrupted builds left in the directory.
PassIsBuilt ==
    phase = "passed" /\ run.kind = "package" =>
        /\ disk.out = {[pin |-> run.pin, no |-> run.no]}
        /\ disk.pkgs = {run.pin}
        /\ Mine.commit = run.pin

\* "Steps whose failure means the harness/plumbing broke are infra_failed"
\* (scripts/lib.sh:645), and whatever happens before the first step.
HarnessSteps == {"unknown", "deps", "fetch", "clone", "source-artifact", "unpack-engine",
    "engine-install", "engine-source", "prefix-tar", "collect", "cargo-deps",
    "cargo-bootstrap", "cargo-fetch"}

\* The failure of a workflow cell is blamed on what it was: a broken harness
\* never becomes a verdict, which the page would keep, nor a verdict noise.
HonestWhenFresh ==
    phase = "failed" /\ run.fresh =>
        ((Mine.status = "infra_failed") <=> (StepAt \in HarnessSteps))

\* A workflow cell names the commit it checked out, if it came so far, and
\* claims a rewritten source only if it has rewritten it; also when the second
\* container fails, which knows neither.
Provenance ==
    phase \in {"passed", "failed"} /\ run.fresh =>
        /\ Mine.commit = IF did.source THEN SourceCommit ELSE None
        /\ Mine.marker = did.rewrite
=============================================================================

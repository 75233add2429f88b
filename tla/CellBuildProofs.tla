-------------------------- MODULE CellBuildProofs --------------------------
(***************************************************************************)
(* Proofs about CellBuild: what a cell result says of the build behind it, *)
(* for any catalog and any sequence of builds in one directory.            *)
(***************************************************************************)
EXTENDS CellBuild, FiniteSetTheorems, TLAPS

Working == phase \in {"host", "run"}

Begun ==
    /\ Working => run.no >= 1
    /\ phase = "host" => at = 0 /\ tag = run.kind /\ did = [source |-> FALSE, rewrite |-> FALSE]

\* In a directory of its own the step file names the step of the container.
Blamed ==
    Working /\ run.fresh =>
        /\ tmp[tag].step = StepAt
        /\ tag # "install" => tmp["install"].step = "unknown"

\* There the commit and the marker, too, are those of this build.
Noticed ==
    Working /\ run.fresh =>
        /\ tmp[run.kind].commit = IF did.source THEN SourceCommit ELSE None
        /\ tmp[run.kind].marker = did.rewrite

ThisPackage == [pin |-> run.pin, no |-> run.no]

\* From its build to its installation the package is this one, whatever lies
\* around it.
Packed ==
    phase = "run" /\ run.kind = "package" =>
        /\ tag = "package" /\ at > 4 => tmp["package"].commit = run.pin
        /\ tag = "package" /\ at = Len(Steps) - 1 => ThisPackage \in disk.tmp
        /\ tag = "package" /\ at = Len(Steps) => disk.out = {ThisPackage}
        /\ tag = "install" => disk.out = {ThisPackage} /\ tmp["package"].commit = run.pin
        /\ tag = "install" /\ at = Len(Steps) => disk.pkgs = {run.pin}

BuildInv ==
    /\ BuildTypeOK /\ Begun /\ Blamed /\ Noticed /\ Packed
    /\ PassIsBuilt /\ HonestWhenFresh /\ Provenance

-----------------------------------------------------------------------------
(* The steps of the scripts *)

Named == StepNames \ {"unknown"}

LEMMA SourceFacts ==
    ASSUME NEW r \in Run
    PROVE  Source(r) \in {"source-artifact", "clone"}
  BY DEF Source, Run

LEMMA PackageStepFacts ==
    ASSUME NEW r \in Run
    PROVE  LET s == PackageSteps(r) IN
           /\ s \in Seq(Named) /\ Len(s) \in Nat /\ Len(s) > 7
           /\ \A i \in 1..Len(s) :
                 /\ s[i] # "prefix-tar"
                 /\ s[i] = "pkg-build" <=> i = Len(s) - 2
                 /\ s[i] = "collect" <=> i = Len(s) - 1
                 /\ Records(s[i]) <=> i = 4
           /\ s[Len(s)] = "pkg-verify"
  <1>. USE SourceFacts DEF Named, StepNames, Records
  <1>1. CASE r.flavour = "autotools"
    <2>. DEFINE t == <<"deps", "engine-install", "engine-source", Source(r),
                       "source-api-normalize", "bootstrap", "pkg-build", "collect", "pkg-verify">>
    <2>1. PackageSteps(r) = t /\ Len(t) = 9
      BY <1>1 DEF PackageSteps
    <2>2. t \in Seq(Named)
      OBVIOUS
    <2>3. \A i \in 1..9 :
            /\ t[i] # "prefix-tar"
            /\ t[i] = "pkg-build" <=> i = 7
            /\ t[i] = "collect" <=> i = 8
            /\ Records(t[i]) <=> i = 4
      OBVIOUS
    <2>4. t[9] = "pkg-verify"
      OBVIOUS
    <2>. QED
      BY <2>1, <2>2, <2>3, <2>4
  <1>2. CASE r.flavour # "autotools"
    <2>. DEFINE t == <<"deps", "engine-install", "engine-source", Source(r), "cargo-deps",
                       "cargo-bootstrap", "source-api-normalize", "cargo-preflight",
                       "cargo-fetch", "pkg-build", "collect", "pkg-verify">>
    <2>1. PackageSteps(r) = t /\ Len(t) = 12
      BY <1>2 DEF PackageSteps
    <2>2. t \in Seq(Named)
      OBVIOUS
    <2>3. \A i \in 1..12 :
            /\ t[i] # "prefix-tar"
            /\ t[i] = "pkg-build" <=> i = 10
            /\ t[i] = "collect" <=> i = 11
            /\ Records(t[i]) <=> i = 4
      OBVIOUS
    <2>4. t[12] = "pkg-verify"
      OBVIOUS
    <2>. QED
      BY <2>1, <2>2, <2>3, <2>4
  <1>. QED
    BY <1>1, <1>2

LEMMA InstallStepFacts ==
    /\ InstallSteps \in Seq(Named) /\ Len(InstallSteps) = 3
    /\ \A i \in 1..3 :
          /\ InstallSteps[i] \notin {"prefix-tar", "pkg-build", "collect", "source-api-normalize"}
          /\ ~Records(InstallSteps[i])
    /\ InstallSteps[2] = "pkg-install" /\ InstallSteps[3] = "pkg-load"
  BY DEF InstallSteps, Named, StepNames, Records

LEMMA CompatStepFacts ==
    ASSUME NEW r \in Run
    PROVE  CompatSteps(r) \in Seq(Named) /\ Len(CompatSteps(r)) \in Nat /\ Len(CompatSteps(r)) > 0
  <1>. USE SourceFacts DEF Named, StepNames
  <1>1. CASE r.flavour = "autotools"
    <2>. DEFINE t == <<"deps", "unpack-engine", "engine-source", Source(r),
                       "source-api-normalize", "bootstrap", "configure", "make", "modules",
                       "load", "check">>
    <2>1. CompatSteps(r) = t /\ Len(t) = 11
      BY <1>1 DEF CompatSteps
    <2>2. t \in Seq(Named)
      OBVIOUS
    <2>. QED
      BY <2>1, <2>2
  <1>2. CASE r.flavour # "autotools"
    <2>. DEFINE t == <<"deps", "unpack-engine", "engine-source", Source(r), "cargo-deps",
                       "cargo-bootstrap", "source-api-normalize", "cargo-preflight",
                       "cargo-fetch", "cargo-build", "cargo-artifacts", "load", "cargo-test">>
    <2>1. CompatSteps(r) = t /\ Len(t) = 13
      BY <1>2 DEF CompatSteps
    <2>2. t \in Seq(Named)
      OBVIOUS
    <2>. QED
      BY <2>1, <2>2
  <1>. QED
    BY <1>1, <1>2

LEMMA EngineStepFacts ==
    ASSUME NEW r \in Run
    PROVE  EngineSteps(r) \in Seq(Named) /\ Len(EngineSteps(r)) \in Nat /\ Len(EngineSteps(r)) > 0
  <1>. USE DEF Named, StepNames
  <1>1. CASE r.flavour = "release"
    <2>. DEFINE t == <<"deps", "fetch", "digest", "bootstrap", "configure", "make",
                       "daemon", "prefix-tar", "pkg-build", "collect">>
    <2>1. EngineSteps(r) = t /\ Len(t) = 10
      BY <1>1 DEF EngineSteps
    <2>2. t \in Seq(Named)
      OBVIOUS
    <2>. QED
      BY <2>1, <2>2
  <1>2. CASE r.flavour # "release"
    <2>. DEFINE t == <<"deps", "clone", "bootstrap", "configure", "make", "daemon",
                       "prefix-tar">>
    <2>1. EngineSteps(r) = t /\ Len(t) = 7
      BY <1>2 DEF EngineSteps
    <2>2. t \in Seq(Named)
      OBVIOUS
    <2>. QED
      BY <2>1, <2>2
  <1>. QED
    BY <1>1, <1>2

LEMMA StepsFacts ==
    ASSUME BuildTypeOK
    PROVE  /\ Steps \in Seq(Named) /\ Len(Steps) \in Nat /\ Len(Steps) > 0
           /\ tag = "package" => Steps = PackageSteps(run)
           /\ tag = "install" => Steps = InstallSteps
           /\ tag \in Tags /\ run.kind \in Kinds /\ run.kind \in Tags
  <1>1. tag \in Tags /\ run.kind \in Kinds /\ run.kind \in Tags /\ run \in Run
    BY DEF BuildTypeOK, Run, Tags, Kinds
  <1>2. CASE tag = "engine"
    BY <1>1, <1>2, EngineStepFacts DEF Steps
  <1>3. CASE tag = "compat"
    BY <1>1, <1>3, CompatStepFacts DEF Steps
  <1>4. CASE tag = "package"
    BY <1>1, <1>4, PackageStepFacts DEF Steps
  <1>5. CASE tag = "install"
    <2>1. Steps = InstallSteps
      BY <1>5 DEF Steps
    <2>. QED
      BY <1>1, <1>5, <2>1, InstallStepFacts
  <1>. QED
    BY <1>1, <1>2, <1>3, <1>4, <1>5 DEF Tags, Kinds

LEMMA StepAtFacts ==
    ASSUME BuildTypeOK
    PROVE  /\ StepAt \in StepNames
           /\ at \in Nat /\ at <= Len(Steps)
           /\ at < Len(Steps) => Steps[at + 1] \in StepNames
  <1>1. at \in Nat /\ at <= Len(Steps)
    <2>1. at \in 0..Len(Steps)
      BY DEF BuildTypeOK
    <2>. QED
      BY <2>1, StepsFacts
  <1>2. \A i \in 1..Len(Steps) : Steps[i] \in StepNames
    BY StepsFacts DEF Named
  <1>3. "unknown" \in StepNames
    BY DEF StepNames
  <1>. QED
    BY <1>1, <1>2, <1>3, StepsFacts DEF StepAt

\* Each step is either of the harness or someone's honest failure.
LEMMA StatusFacts ==
    ASSUME NEW step \in StepNames, NEW mode \in Kinds
    PROVE  /\ StatusForStep(step, mode) \in Statuses
           /\ StatusForStep(step, mode) = "infra_failed" <=> step \in HarnessSteps
  <1>. DEFINE S == DOMAIN Red(mode)
              reds == {s \in S : step \in Red(mode)[s]}
  <1>1. S = {"build_failed", "configure_failed", "load_failed", "test_failed",
             "package_failed", "install_failed"}
        /\ DOMAIN Red("package") = S
    BY DEF Red
  <1>2. step \in HarnessSteps <=> ~\E s \in S : step \in Red(mode)[s]
    BY <1>1 DEF Red, HarnessSteps, StepNames, Kinds
  <1>3. CASE step \in HarnessSteps
    BY <1>1, <1>2, <1>3 DEF StatusForStep, Statuses
  <1>4. CASE step \notin HarnessSteps
    BY <1>1, <1>2, <1>4 DEF StatusForStep, Statuses
  <1>. QED
    BY <1>3, <1>4

-----------------------------------------------------------------------------
(* The work directory *)

LEMMA RunFacts ==
    ASSUME BuildTypeOK
    PROVE  /\ run \in Run /\ run.kind \in Kinds /\ run.pin \in Pins /\ run.no \in 0..MaxBuilds
           /\ run.no >= 1 => ThisPackage \in Package
           /\ SourceCommit \in CommitsOrNone
           /\ run.kind # "engine" => SourceCommit = run.pin
  <1>1. run \in Run /\ run.flavour \in Flavours(run.kind)
    BY DEF BuildTypeOK
  <1>2. run.kind \in Kinds /\ run.pin \in Pins /\ run.no \in 0..MaxBuilds
    BY <1>1 DEF Run
  <1>3. run.no >= 1 => ThisPackage \in Package
    BY <1>2, BuildAssumption DEF ThisPackage, Package
  <1>4. run.kind # "engine" => run.flavour # "release"
    BY <1>1 DEF Flavours
  <1>. QED
    BY <1>1, <1>2, <1>3, <1>4 DEF SourceCommit, CommitsOrNone

LEMMA DiskFacts ==
    ASSUME BuildTypeOK, run.no >= 1, NEW step, NEW d \in Disk
    PROVE  After(step, d) \in Disk /\ Cleared(step, d) \in Disk /\ Partly(step, d) \subseteq Disk
  <1>1. run.pin \in Pins /\ ThisPackage \in Package
    BY RunFacts
  <1>2. /\ d.prefix \in CommitsOrNone /\ d.torn \in BOOLEAN /\ d.pkgs \in {None} \cup SUBSET Pins
        /\ d.stamp \in CommitsOrNone /\ d.tmp \in SUBSET Package /\ d.out \in SUBSET Package
    BY DEF Disk
  <1>3. PackageBuilt(d) \in Disk
    BY <1>1, <1>2 DEF PackageBuilt, Disk, ThisPackage
  <1>4. Selected(d.tmp) \in SUBSET Package
    BY <1>2 DEF Selected
  <1>5. /\ [d EXCEPT !.prefix = run.pin, !.torn = FALSE] \in Disk
        /\ [d EXCEPT !.prefix = run.pin, !.torn = TRUE] \in Disk
        /\ [d EXCEPT !.pkgs = {run.pin}] \in Disk
        /\ [d EXCEPT !.out = Selected(d.tmp)] \in Disk
        /\ [d EXCEPT !.pkgs = {}] \in Disk /\ [d EXCEPT !.out = {}] \in Disk
    BY <1>1, <1>4 DEF Disk, CommitsOrNone
  <1>6. After(step, d) \in Disk
    BY <1>3, <1>5 DEF After
  <1>7. Cleared(step, d) \in Disk
    BY <1>5 DEF Cleared
  <1>. QED
    BY <1>5, <1>6, <1>7 DEF Partly

\* There are only so many packages: the selection is of one, or of none.
LEMMA SelectedIsOne ==
    ASSUME NEW packages \in SUBSET Package, Selected(packages) # {}, NEW p \in packages
    PROVE  Selected(packages) = {p}
  <1>1. IsFiniteSet(Package)
    <2>1. IsFiniteSet(Pins \X (1..MaxBuilds))
      <3>1. IsFiniteSet(1..MaxBuilds)
        BY BuildAssumption, FS_Interval
      <3>. QED
        BY <3>1, BuildAssumption, FS_Product
    <2>. DEFINE f == [x \in Pins \X (1..MaxBuilds) |-> [pin |-> x[1], no |-> x[2]]]
    <2>2. f \in Surjection(Pins \X (1..MaxBuilds), Package)
      <3>1. ASSUME NEW q \in Package
            PROVE  \E x \in Pins \X (1..MaxBuilds) : f[x] = q
        <4>1. <<q.pin, q.no>> \in Pins \X (1..MaxBuilds) /\ f[<<q.pin, q.no>>] = q
          BY DEF Package
        <4>. QED  BY <4>1
      <3>2. f \in [Pins \X (1..MaxBuilds) -> Package]
        BY DEF Package
      <3>. QED
        BY <3>1, <3>2, Zenon DEF Surjection
    <2>. QED
      BY <2>1, <2>2, FS_Surjection
  <1>2. IsFiniteSet(packages)
    BY <1>1, FS_Subset
  <1>3. Cardinality(packages) = 1 /\ Selected(packages) = packages
    BY DEF Selected
  <1>. QED
    BY <1>2, <1>3, FS_Singleton

LEMMA BuildInitial ==
    ASSUME BuildInit
    PROVE  BuildInv
  <1>1. PICK pin \in Pins :
          run = [kind |-> "engine", flavour |-> "release", pin |-> pin, fresh |-> TRUE, no |-> 0]
    BY DEF BuildInit
  <1>2. run \in Run /\ run.flavour \in Flavours(run.kind) /\ run.kind = "engine"
    BY <1>1, BuildAssumption DEF Run, Flavours, Kinds
  <1>3. Len(Steps) \in Nat
    BY <1>2, EngineStepFacts DEF BuildInit, Steps
  <1>4. disk \in Disk /\ tmp \in [Tags -> Files]
    BY DEF BuildInit, Disk, Empty, CommitsOrNone, Files, NoFiles, StepNames
  <1>5. BuildTypeOK
    <2>1. result \in [Kinds -> [status : Statuses \cup {"none"}, step : StepNames \cup {""},
                               commit : CommitsOrNone, marker : BOOLEAN]]
      BY DEF BuildInit, NoResult, Result, CommitsOrNone
    <2>2. at \in 0..Len(Steps) /\ did \in [source : BOOLEAN, rewrite : BOOLEAN]
      BY <1>3 DEF BuildInit
    <2>3. format \in {"deb", "rpm"} /\ phase = "idle" /\ tag = run.kind
      BY <1>2 DEF BuildInit
    <2>. QED
      BY <1>2, <1>4, <2>1, <2>2, <2>3 DEF BuildTypeOK
  <1>. QED
    BY <1>5
    DEF BuildInit, BuildInv, Working, Begun, Blamed, Noticed, Packed, PassIsBuilt, HonestWhenFresh,
        Provenance

-----------------------------------------------------------------------------
(* The host side *)

LEMMA InvokePreserves ==
    ASSUME BuildInv, Invoke
    PROVE  BuildInv'
  <1>1. PICK kind \in Kinds, pin \in Pins, fresh \in BOOLEAN :
          \E flavour \in Flavours(kind) :
             /\ run' = [kind |-> kind, flavour |-> flavour, pin |-> pin, fresh |-> fresh,
                        no |-> run.no + 1]
             /\ tag' = kind
             /\ IF fresh
                THEN /\ disk' = IF kind = "engine" THEN Empty
                                ELSE [disk EXCEPT !.tmp = {}, !.out = {}]
                     /\ tmp' = [t \in Tags |-> NoFiles]
                     /\ result' = [k \in Kinds |-> NoResult]
                ELSE UNCHANGED <<disk, tmp, result>>
    BY DEF Invoke
  <1>2. /\ run.no < MaxBuilds /\ phase' = "host" /\ at' = 0 /\ format' = format
        /\ did' = [source |-> FALSE, rewrite |-> FALSE] /\ BuildTypeOK
    BY DEF Invoke, BuildInv
  <1>3. /\ run' \in Run /\ run'.flavour \in Flavours(run'.kind) /\ run'.no = run.no + 1
        /\ tag' = run'.kind /\ run'.kind \in Kinds /\ run'.fresh = fresh
    BY <1>1, <1>2, RunFacts, BuildAssumption DEF Run, Flavours, Kinds
  <1>4. Len(Steps') \in Nat
    BY <1>3, EngineStepFacts, CompatStepFacts, PackageStepFacts DEF Steps, Kinds
  <1>5. disk' \in Disk
    <2>1. Empty \in Disk
      BY DEF Empty, Disk, CommitsOrNone
    <2>2. disk \in Disk /\ [disk EXCEPT !.tmp = {}, !.out = {}] \in Disk
      BY <1>2 DEF BuildTypeOK, Disk
    <2>. QED
      BY <1>1, <2>1, <2>2
  <1>6. tmp' \in [Tags -> Files] /\ (fresh => tmp' = [t \in Tags |-> NoFiles])
    <2>1. NoFiles \in Files
      BY DEF NoFiles, Files, StepNames, CommitsOrNone
    <2>. QED
      BY <1>1, <1>2, <2>1 DEF BuildTypeOK
  <1>7. result' \in [Kinds -> [status : Statuses \cup {"none"}, step : StepNames \cup {""},
                              commit : CommitsOrNone, marker : BOOLEAN]]
    <2>1. NoResult \in [status : Statuses \cup {"none"}, step : StepNames \cup {""},
                        commit : CommitsOrNone, marker : BOOLEAN]
      BY DEF NoResult, Result, CommitsOrNone
    <2>. QED
      BY <1>1, <1>2, <2>1 DEF BuildTypeOK
  <1>8. BuildTypeOK'
    <2>1. at' \in 0..Len(Steps')
      BY <1>2, <1>4
    <2>2. did' \in [source : BOOLEAN, rewrite : BOOLEAN]
      BY <1>2
    <2>3. format' \in {"deb", "rpm"}
      BY <1>2 DEF BuildTypeOK
    <2>. QED
      BY <1>2, <1>3, <1>5, <1>6, <1>7, <2>1, <2>2, <2>3 DEF BuildTypeOK
  <1>9. Begun'
    BY <1>2, <1>3, RunFacts DEF Begun
  <1>10. Blamed' /\ Noticed'
    <2>1. ASSUME fresh
          PROVE  /\ tmp'[tag'] = NoFiles /\ tmp'["install"] = NoFiles /\ tmp'[run'.kind] = NoFiles
      BY <1>3, <1>6, <2>1 DEF Tags
    <2>2. StepAt' = "unknown"
      BY <1>2 DEF StepAt
    <2>3. did'.source = FALSE /\ did'.rewrite = FALSE
      BY <1>2
    <2>4. NoFiles.step = "unknown" /\ NoFiles.commit = None /\ NoFiles.marker = FALSE
      BY DEF NoFiles
    <2>. QED
      BY <1>3, <2>1, <2>2, <2>3, <2>4 DEF Blamed, Noticed
  <1>. QED
    BY <1>2, <1>8, <1>9, <1>10
    DEF BuildInv, Packed, PassIsBuilt, HonestWhenFresh, Provenance

LEMMA InfraCellPreserves ==
    ASSUME BuildInv, InfraCell
    PROVE  BuildInv'
  <1>1. /\ phase = "host" /\ phase' = "failed" /\ BuildTypeOK /\ at = 0
        /\ did = [source |-> FALSE, rewrite |-> FALSE]
        /\ result' = [result EXCEPT ![run.kind] = Result("infra_failed", "", None, FALSE)]
        /\ UNCHANGED <<format, disk, tmp, run, tag, at, did>>
    BY DEF InfraCell, Report, BuildInv, Begun
  <1>2. run.kind \in Kinds
    BY <1>1, RunFacts
  <1>3. Result("infra_failed", "", None, FALSE)
          \in [status : Statuses \cup {"none"}, step : StepNames \cup {""},
              commit : CommitsOrNone, marker : BOOLEAN]
    BY DEF Result, Statuses, CommitsOrNone
  <1>4. BuildTypeOK'
    BY <1>1, <1>2, <1>3 DEF BuildTypeOK, Steps
  <1>5. PassIsBuilt' /\ HonestWhenFresh' /\ Provenance'
    <2>1. Mine'.status = "infra_failed" /\ Mine'.commit = None /\ Mine'.marker = FALSE
      BY <1>1, <1>2 DEF Mine, Result, BuildTypeOK
    <2>2. StepAt' = "unknown" /\ "unknown" \in HarnessSteps
      BY <1>1 DEF StepAt, HarnessSteps
    <2>3. did'.source = FALSE /\ did'.rewrite = FALSE
      BY <1>1
    <2>. QED
      BY <1>1, <2>1, <2>2, <2>3 DEF PassIsBuilt, HonestWhenFresh, Provenance
  <1>. QED
    BY <1>1, <1>4, <1>5 DEF BuildInv, Working, Begun, Blamed, Noticed, Packed

LEMMA LaunchPreserves ==
    ASSUME BuildInv, Launch
    PROVE  BuildInv'
  <1>1. /\ phase = "host" /\ phase' = "run" /\ BuildTypeOK /\ at = 0 /\ tag = run.kind
        /\ UNCHANGED <<format, disk, tmp, result, run, tag, at, did>>
    BY DEF Launch, BuildInv, Begun
  <1>2. BuildTypeOK'
    BY <1>1 DEF BuildTypeOK, Steps
  <1>3. Begun' /\ Blamed' /\ Noticed'
    BY <1>1 DEF BuildInv, Working, Begun, Blamed, Noticed, StepAt, Steps, SourceCommit
  <1>4. Packed'
    <2>1. tag = "package" => Len(Steps) > 7
      BY <1>1, StepsFacts, PackageStepFacts, RunFacts
    <2>2. Steps' = Steps
      BY <1>1 DEF Steps
    <2>3. tag # "install"
      BY <1>1, RunFacts DEF Kinds
    <2>4. tag = "package" => ~(at > 4) /\ at # Len(Steps) - 1 /\ at # Len(Steps)
      <3>1. at = 0 /\ Len(Steps) \in Nat
        BY <1>1, StepsFacts
      <3>2. \A n \in Nat : n > 7 => ~(0 > 4) /\ 0 # n - 1 /\ 0 # n
        OBVIOUS
      <3>. QED
        BY <2>1, <3>1, <3>2, Zenon
    <2>. QED
      BY <1>1, <2>2, <2>3, <2>4 DEF Packed
  <1>. QED
    BY <1>1, <1>2, <1>3, <1>4 DEF BuildInv, PassIsBuilt, HonestWhenFresh, Provenance

-----------------------------------------------------------------------------
(* The container side *)

\* The step of the second container, which neither checks out nor rewrites.
LEMMA InstallAt ==
    ASSUME BuildTypeOK, tag = "install"
    PROVE  /\ ~Records(StepAt)
           /\ StepAt \notin {"prefix-tar", "pkg-build", "collect", "source-api-normalize"}
           /\ at < Len(Steps) => Steps[at + 1] # "pkg-build"
           /\ at = 2 => StepAt = "pkg-install"
           /\ Len(Steps) = 3 /\ run.kind = "package"
  <1>1. Steps = InstallSteps /\ Len(Steps) = 3 /\ at \in 0..3 /\ run.kind = "package"
    <2>1. Steps = InstallSteps /\ at \in 0..Len(Steps)
      BY StepsFacts DEF BuildTypeOK
    <2>2. run.kind = "package"
      BY StepsFacts DEF BuildTypeOK, Kinds
    <2>. QED
      BY <2>1, <2>2, InstallStepFacts
  <1>2. \A i \in 1..3 :
          /\ Steps[i] \notin {"prefix-tar", "pkg-build", "collect", "source-api-normalize"}
          /\ ~Records(Steps[i])
    BY <1>1, InstallStepFacts
  <1>3. Steps[2] = "pkg-install"
    BY <1>1, InstallStepFacts
  <1>4. CASE at = 0
    <2>1. StepAt = "unknown"
      BY <1>4 DEF StepAt
    <2>. QED
      BY <1>1, <1>2, <1>4, <2>1 DEF Records
  <1>5. CASE at # 0
    <2>1. StepAt = Steps[at] /\ at \in 1..3
      BY <1>1, <1>5 DEF StepAt
    <2>. QED
      BY <1>1, <1>2, <1>3, <2>1
  <1>. QED
    BY <1>4, <1>5

\* The step of a package build that ends at, enters or passes a place.
LEMMA PackageAt ==
    ASSUME BuildTypeOK, tag = "package"
    PROVE  /\ Len(Steps) > 7 /\ Len(Steps) \in Nat
           /\ StepAt # "prefix-tar"
           /\ at = 4 => Records(StepAt)
           /\ StepAt = "pkg-build" <=> at = Len(Steps) - 2
           /\ StepAt = "collect" <=> at = Len(Steps) - 1
           /\ at < Len(Steps) => (Steps[at + 1] = "pkg-build" <=> at + 1 = Len(Steps) - 2)
           /\ at = Len(Steps) => StepAt = "pkg-verify"
  <1>1. Steps = PackageSteps(run) /\ run \in Run
    BY StepsFacts, RunFacts
  <1>2. at \in Nat /\ at <= Len(Steps)
    BY StepAtFacts
  <1>3. /\ Len(Steps) \in Nat /\ Len(Steps) > 7
        /\ \A i \in 1..Len(Steps) :
              /\ Steps[i] # "prefix-tar"
              /\ Steps[i] = "pkg-build" <=> i = Len(Steps) - 2
              /\ Steps[i] = "collect" <=> i = Len(Steps) - 1
              /\ Records(Steps[i]) <=> i = 4
        /\ Steps[Len(Steps)] = "pkg-verify"
    BY <1>1, PackageStepFacts
  <1>4. at < Len(Steps) => (Steps[at + 1] = "pkg-build" <=> at + 1 = Len(Steps) - 2)
    BY <1>2, <1>3
  <1>5. CASE at = 0
    <2>1. StepAt = "unknown"
      BY <1>5 DEF StepAt
    <2>. QED
      BY <1>3, <1>4, <1>5, <2>1
  <1>6. CASE at # 0
    <2>1. StepAt = Steps[at] /\ at \in 1..Len(Steps)
      BY <1>2, <1>3, <1>6 DEF StepAt
    <2>. QED
      BY <1>3, <1>4, <2>1
  <1>. QED
    BY <1>5, <1>6

LEMMA StepPreserves ==
    ASSUME BuildInv, Step
    PROVE  BuildInv'
  <1>1. /\ phase = "run" /\ at < Len(Steps) /\ BuildTypeOK /\ run.no >= 1
        /\ at > 0 => CanPass(StepAt)
        /\ disk' = Cleared(Steps[at + 1], After(StepAt, disk)) /\ at' = at + 1
        /\ UNCHANGED <<format, result, phase, run, tag>>
    BY DEF Step, BuildInv, Begun, Working
  <1>2. PICK rewrite \in IF StepAt = "source-api-normalize" THEN BOOLEAN ELSE {FALSE} :
          /\ tmp' = [tmp EXCEPT ![tag] =
                       [Noted(tmp[tag], StepAt, rewrite) EXCEPT !.step = Steps[at + 1]]]
          /\ did' = [source  |-> did.source \/ Records(StepAt),
                     rewrite |-> did.rewrite \/ rewrite]
    BY DEF Step
  <1>. DEFINE noted == [Noted(tmp[tag], StepAt, rewrite) EXCEPT !.step = Steps[at + 1]]
  <1>3. tag \in Tags /\ tmp[tag] \in Files /\ rewrite \in BOOLEAN
    BY <1>1, <1>2, StepsFacts DEF BuildTypeOK
  <1>4. /\ noted \in Files /\ noted.step = Steps[at + 1]
        /\ noted.commit = IF Records(StepAt) THEN SourceCommit ELSE tmp[tag].commit
        /\ noted.marker = (tmp[tag].marker \/ rewrite)
    <2>1. Steps[at + 1] \in StepNames /\ SourceCommit \in CommitsOrNone
      BY <1>1, StepAtFacts, RunFacts
    <2>2. CASE Records(StepAt)
      BY <1>3, <2>1, <2>2 DEF Noted, Files
    <2>3. CASE ~Records(StepAt)
      BY <1>3, <2>1, <2>3 DEF Noted, Files
    <2>. QED
      BY <2>2, <2>3
  <1>. HIDE DEF noted
  <1>5. /\ tmp' \in [Tags -> Files] /\ tmp'[tag] = noted
        /\ \A t \in Tags : t # tag => tmp'[t] = tmp[t]
    BY <1>1, <1>2, <1>3, <1>4 DEF noted, BuildTypeOK
  <1>6. Steps' = Steps /\ StepAt' = Steps[at + 1] /\ SourceCommit' = SourceCommit
    <2>1. Steps' = Steps /\ SourceCommit' = SourceCommit
      BY <1>1 DEF Steps, SourceCommit
    <2>2. at' # 0 /\ at' = at + 1
      BY <1>1, StepAtFacts
    <2>. QED
      BY <2>1, <2>2 DEF StepAt
  <1>7. BuildTypeOK'
    <2>1. disk' \in Disk
      <3>1. disk \in Disk
        BY <1>1 DEF BuildTypeOK
      <3>2. After(StepAt, disk) \in Disk
        BY <1>1, <3>1, DiskFacts
      <3>. QED
        BY <1>1, <3>2, DiskFacts
    <2>2. at' \in 0..Len(Steps')
      BY <1>1, <1>6, StepAtFacts, StepsFacts
    <2>3. did' \in [source : BOOLEAN, rewrite : BOOLEAN]
      BY <1>2
    <2>. QED
      BY <1>1, <1>5, <2>1, <2>2, <2>3 DEF BuildTypeOK
  <1>8. Begun'
    BY <1>1 DEF BuildInv, Begun, Working
  <1>9. Blamed'
    BY <1>1, <1>4, <1>5, <1>6 DEF BuildInv, Blamed, Working, Tags
  <1>10. Noticed'
    <2>1. CASE tag = "install"
      <3>1. ~Records(StepAt) /\ rewrite = FALSE /\ run.kind \in Tags /\ run.kind # tag
        BY <1>1, <1>2, <2>1, InstallAt, StepsFacts
      <3>2. did'.source = did.source /\ did'.rewrite = did.rewrite
        BY <1>1, <1>2, <3>1 DEF BuildTypeOK
      <3>. QED
        BY <1>1, <1>5, <1>6, <3>1, <3>2 DEF BuildInv, Noticed, Working
    <2>2. CASE tag # "install"
      <3>1. run.kind = tag
        BY <1>1, <2>2 DEF BuildTypeOK
      <3>2. /\ did'.source = (did.source \/ Records(StepAt))
            /\ did'.rewrite = (did.rewrite \/ rewrite)
        BY <1>2
      <3>. QED
        BY <1>1, <1>4, <1>5, <1>6, <3>1, <3>2 DEF BuildInv, Noticed, Working
    <2>. QED
      BY <2>1, <2>2
  <1>11. Packed'
    <2>. SUFFICES ASSUME run.kind = "package"
                  PROVE  Packed'
      BY <1>1 DEF Packed
    <2>1. CASE tag = "package"
      <3>1. ASSUME at' > 4
            PROVE  tmp'["package"].commit = run.pin
        <4>1. SourceCommit = run.pin
          BY <1>1, RunFacts
        <4>2. CASE at = 4
          BY <1>1, <1>4, <1>5, <2>1, <4>1, <4>2, PackageAt
        <4>3. CASE at > 4
          BY <1>1, <1>4, <1>5, <2>1, <4>1, <4>3 DEF BuildInv, Packed
        <4>. QED
          BY <1>1, <3>1, <4>2, <4>3, StepAtFacts
      <3>2. ASSUME at' = Len(Steps) - 1
            PROVE  ThisPackage' \in disk'.tmp
        <4>1. StepAt = "pkg-build" /\ Steps[at + 1] # "pkg-build"
          BY <1>1, <2>1, <3>2, PackageAt, StepAtFacts
        <4>2. disk' = PackageBuilt(disk)
          BY <1>1, <2>1, <4>1 DEF Cleared, After
        <4>. QED
          BY <1>1, <4>2 DEF PackageBuilt, ThisPackage, BuildTypeOK, Disk
      <3>3. ASSUME at' = Len(Steps)
            PROVE  disk'.out = {ThisPackage'}
        <4>1. StepAt = "collect" /\ Steps[at + 1] # "pkg-build" /\ at = Len(Steps) - 1 /\ at > 0
          BY <1>1, <2>1, <3>3, PackageAt, StepAtFacts
        <4>2. disk' = [disk EXCEPT !.out = Selected(disk.tmp)]
          BY <1>1, <2>1, <4>1 DEF Cleared, After
        <4>3. Selected(disk.tmp) # {} /\ ThisPackage \in disk.tmp /\ disk.tmp \in SUBSET Package
          BY <1>1, <2>1, <4>1 DEF CanPass, BuildInv, Packed, BuildTypeOK, Disk
        <4>4. Selected(disk.tmp) = {ThisPackage}
          BY <4>3, SelectedIsOne
        <4>. QED
          BY <1>1, <4>2, <4>4 DEF ThisPackage, BuildTypeOK, Disk
      <3>. QED
        BY <1>1, <1>6, <2>1, <3>1, <3>2, <3>3 DEF Packed
    <2>2. CASE tag = "install"
      <3>1. disk' = disk
        <4>1. StepAt \notin {"prefix-tar", "pkg-build", "collect"} /\ Steps[at + 1] # "pkg-build"
          BY <1>1, <2>2, InstallAt
        <4>2. After(StepAt, disk) = disk
          BY <4>1 DEF After
        <4>. QED
          BY <1>1, <4>1, <4>2 DEF Cleared
      <3>2. tmp'["package"] = tmp["package"]
        BY <1>5, <2>2 DEF Tags, Kinds
      <3>3. ASSUME at' = Len(Steps)
            PROVE  disk.pkgs = {run.pin}
        <4>1. at = 2 /\ StepAt = "pkg-install"
          <5>1. Len(Steps) = 3 /\ (at = 2 => StepAt = "pkg-install")
            BY <1>1, <2>2, InstallAt
          <5>2. at \in Nat
            BY <1>1, StepAtFacts
          <5>. QED
            BY <1>1, <3>3, <5>1, <5>2
        <4>. QED
          BY <1>1, <4>1 DEF CanPass
      <3>. QED
        BY <1>1, <1>6, <2>2, <3>1, <3>2, <3>3 DEF BuildInv, Packed, ThisPackage
    <2>. QED
      BY <1>1, <2>1, <2>2 DEF BuildTypeOK
  <1>. QED
    BY <1>1, <1>7, <1>8, <1>9, <1>10, <1>11
    DEF BuildInv, PassIsBuilt, HonestWhenFresh, Provenance

\* What is written of a failure, or of a pass.
LEMMA ResultFacts ==
    ASSUME BuildTypeOK, NEW status \in Statuses, NEW step \in StepNames \cup {""},
           Report(Result(status, step, Commit, tmp[run.kind].marker))
    PROVE  /\ result' \in [Kinds -> [status : Statuses \cup {"none"}, step : StepNames \cup {""},
                                    commit : CommitsOrNone, marker : BOOLEAN]]
           /\ result'[run.kind].status = status
           /\ result'[run.kind].commit = tmp[run.kind].commit
           /\ result'[run.kind].marker = tmp[run.kind].marker
  <1>1. run.kind \in Kinds /\ run.kind \in Tags /\ tmp[run.kind] \in Files
    BY StepsFacts DEF BuildTypeOK
  <1>. QED
    BY <1>1 DEF Report, Result, Commit, Files, BuildTypeOK

LEMMA BreakPreserves ==
    ASSUME BuildInv, Break
    PROVE  BuildInv'
  <1>1. /\ phase = "run" /\ phase' = "failed" /\ BuildTypeOK /\ run.no >= 1
        /\ disk' \in Partly(StepAt, disk) /\ disk \in Disk
        /\ UNCHANGED <<format, tmp, run, tag, at, did>>
        /\ Report(Result(StatusForStep(StepFile, run.kind), StepFile, Commit, tmp[run.kind].marker))
    BY DEF Break, FailCell, BuildInv, Begun, Working, BuildTypeOK
  <1>2. StepFile \in StepNames /\ run.kind \in Kinds
    BY <1>1, StepsFacts DEF StepFile, BuildTypeOK, Files
  <1>3. /\ StatusForStep(StepFile, run.kind) \in Statuses
        /\ StatusForStep(StepFile, run.kind) = "infra_failed" <=> StepFile \in HarnessSteps
    BY <1>2, StatusFacts
  <1>4. /\ result' \in [Kinds -> [status : Statuses \cup {"none"}, step : StepNames \cup {""},
                                 commit : CommitsOrNone, marker : BOOLEAN]]
        /\ Mine'.status = StatusForStep(StepFile, run.kind)
        /\ Mine'.commit = tmp[run.kind].commit
        /\ Mine'.marker = tmp[run.kind].marker
    BY <1>1, <1>2, <1>3, ResultFacts DEF Mine
  <1>5. Steps' = Steps /\ StepAt' = StepAt /\ SourceCommit' = SourceCommit
    BY <1>1 DEF Steps, StepAt, SourceCommit
  <1>6. disk' \in Disk
    BY <1>1, DiskFacts
  <1>7. BuildTypeOK'
    BY <1>1, <1>4, <1>5, <1>6 DEF BuildTypeOK
  <1>8. HonestWhenFresh'
    <2>1. run.fresh => StepFile = StepAt
      BY <1>1 DEF BuildInv, Blamed, Working, StepFile
    <2>. QED
      BY <1>1, <1>3, <1>4, <1>5, <2>1 DEF HonestWhenFresh
  <1>9. Provenance'
    BY <1>1, <1>4, <1>5 DEF BuildInv, Noticed, Working, Provenance
  <1>. QED
    BY <1>1, <1>7, <1>8, <1>9
    DEF BuildInv, Working, Begun, Blamed, Noticed, Packed, PassIsBuilt

LEMMA ReinstallPreserves ==
    ASSUME BuildInv, Reinstall
    PROVE  BuildInv'
  <1>1. /\ phase = "run" /\ tag = "package" /\ at = Len(Steps) /\ tag' = "install" /\ at' = 0
        /\ BuildTypeOK /\ run.kind = "package"
        /\ UNCHANGED <<format, disk, tmp, result, phase, run, did>>
    BY DEF Reinstall, BuildInv, BuildTypeOK
  <1>2. Steps' = InstallSteps /\ Len(Steps') = 3
    BY <1>1, InstallStepFacts DEF Steps
  <1>3. StepAt' = "unknown" /\ SourceCommit' = SourceCommit
    BY <1>1 DEF StepAt, SourceCommit
  <1>4. BuildTypeOK'
    <2>1. at' \in 0..Len(Steps')
      BY <1>1, <1>2
    <2>. QED
      BY <1>1, <2>1 DEF BuildTypeOK, Run
  <1>5. Begun' /\ Blamed' /\ Noticed'
    BY <1>1, <1>3 DEF BuildInv, Begun, Blamed, Noticed, Working
  <1>6. Packed'
    <2>1. at > 4
      BY <1>1, PackageAt
    <2>. QED
      BY <1>1, <1>2, <2>1 DEF BuildInv, Packed, ThisPackage
  <1>. QED
    BY <1>1, <1>4, <1>5, <1>6 DEF BuildInv, PassIsBuilt, HonestWhenFresh, Provenance

LEMMA PassPreserves ==
    ASSUME BuildInv, Pass
    PROVE  BuildInv'
  <1>1. /\ phase = "run" /\ phase' = "passed" /\ tag # "package" /\ at = Len(Steps) /\ BuildTypeOK
        /\ run.no >= 1
        /\ disk' = Stamped(After(StepAt, disk)) /\ disk \in Disk
        /\ Report(Result("pass", "", Commit, tmp[run.kind].marker))
        /\ UNCHANGED <<format, tmp, run, tag, at, did>>
    BY DEF Pass, BuildInv, Begun, Working, BuildTypeOK
  <1>2. /\ result' \in [Kinds -> [status : Statuses \cup {"none"}, step : StepNames \cup {""},
                                 commit : CommitsOrNone, marker : BOOLEAN]]
        /\ Mine'.commit = tmp[run.kind].commit
        /\ Mine'.marker = tmp[run.kind].marker
    BY <1>1, ResultFacts DEF Mine, Statuses
  <1>3. Steps' = Steps /\ SourceCommit' = SourceCommit
    BY <1>1 DEF Steps, SourceCommit
  <1>4. disk' \in Disk
    <2>1. After(StepAt, disk) \in Disk
      BY <1>1, DiskFacts
    <2>2. tmp["engine"].commit \in CommitsOrNone
      BY <1>1 DEF BuildTypeOK, Files, Tags, Kinds
    <2>. QED
      BY <1>1, <2>1, <2>2 DEF Stamped, Disk
  <1>5. BuildTypeOK'
    BY <1>1, <1>2, <1>3, <1>4 DEF BuildTypeOK
  <1>6. Provenance'
    BY <1>1, <1>2, <1>3 DEF BuildInv, Noticed, Working, Provenance
  <1>7. PassIsBuilt'
    <2>. SUFFICES ASSUME run.kind = "package"
                  PROVE  PassIsBuilt'
      BY <1>1 DEF PassIsBuilt
    <2>1. tag = "install"
      BY <1>1 DEF BuildTypeOK
    <2>2. disk' = disk
      BY <1>1, <2>1, InstallAt DEF After, Stamped
    <2>. QED
      BY <1>1, <1>2, <2>1, <2>2 DEF BuildInv, Packed, ThisPackage, PassIsBuilt
  <1>. QED
    BY <1>1, <1>5, <1>6, <1>7
    DEF BuildInv, Working, Begun, Blamed, Noticed, Packed, HonestWhenFresh

LEMMA InterruptPreserves ==
    ASSUME BuildInv, Interrupt
    PROVE  BuildInv'
  <1>1. /\ phase \in {"host", "run"} /\ phase' = "idle" /\ BuildTypeOK /\ run.no >= 1
        /\ disk' \in IF phase = "run" THEN Partly(StepAt, disk) ELSE {disk}
        /\ UNCHANGED <<format, tmp, result, run, tag, at, did>>
    BY DEF Interrupt, BuildInv, Begun, Working
  <1>2. disk' \in Disk
    BY <1>1, DiskFacts DEF BuildTypeOK
  <1>3. BuildTypeOK'
    BY <1>1, <1>2 DEF BuildTypeOK, Steps
  <1>. QED
    BY <1>1, <1>3
    DEF BuildInv, Working, Begun, Blamed, Noticed, Packed, PassIsBuilt, HonestWhenFresh,
        Provenance

-----------------------------------------------------------------------------
LEMMA BuildStep ==
    ASSUME BuildInv, [BuildNext]_buildVars
    PROVE  BuildInv'
  <1>1. CASE UNCHANGED buildVars
    <2>1. UNCHANGED <<format, disk, tmp, result, phase, run, tag, at, did>>
      BY <1>1 DEF buildVars
    <2>2. Steps' = Steps /\ SourceCommit' = SourceCommit /\ Mine' = Mine
      BY <2>1 DEF Steps, SourceCommit, Mine
    <2>3. StepAt' = StepAt
      BY <2>1, <2>2 DEF StepAt
    <2>4. BuildTypeOK'
      BY <2>1, <2>2 DEF BuildInv, BuildTypeOK
    <2>5. Begun' /\ Blamed' /\ Noticed'
      BY <2>1, <2>2, <2>3 DEF BuildInv, Begun, Blamed, Noticed, Working
    <2>6. Packed' /\ PassIsBuilt'
      BY <2>1, <2>2 DEF BuildInv, Packed, ThisPackage, PassIsBuilt
    <2>7. HonestWhenFresh' /\ Provenance'
      BY <2>1, <2>2, <2>3 DEF BuildInv, HonestWhenFresh, Provenance
    <2>. QED
      BY <2>4, <2>5, <2>6, <2>7 DEF BuildInv
  <1>. QED
    BY <1>1, InvokePreserves, InfraCellPreserves, LaunchPreserves, StepPreserves,
       BreakPreserves, ReinstallPreserves, PassPreserves, InterruptPreserves
    DEF BuildNext

LEMMA BuildAlways == BuildSpec => []BuildInv
  BY BuildInitial, BuildStep, PTL DEF BuildSpec

\* The state of the work directory is well formed, whatever is built in it.
THEOREM BuildTypes == BuildSpec => []BuildTypeOK
  <1>1. BuildInv => BuildTypeOK
    BY DEF BuildInv
  <1>. QED
    BY <1>1, BuildAlways, PTL

\* However many builds, of whatever catalog, went before in the directory, and
\* wherever they were interrupted: a package cell that passes has built and
\* installed the package it leaves.
THEOREM PassesAreBuilt == BuildSpec => []PassIsBuilt
  <1>1. BuildInv => PassIsBuilt
    BY DEF BuildInv
  <1>. QED
    BY <1>1, BuildAlways, PTL

\* In a directory of its own, a failure is the harness's exactly if it happened
\* in a step of the harness, in either container and before their first steps.
THEOREM FailuresAreHonest == BuildSpec => []HonestWhenFresh
  <1>1. BuildInv => HonestWhenFresh
    BY DEF BuildInv
  <1>. QED
    BY <1>1, BuildAlways, PTL

\* There the result names the commit that was checked out, and the rewriting of
\* the source, as they were.
THEOREM ResultsTell == BuildSpec => []Provenance
  <1>1. BuildInv => Provenance
    BY DEF BuildInv
  <1>. QED
    BY <1>1, BuildAlways, PTL
=============================================================================

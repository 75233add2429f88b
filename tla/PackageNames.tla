---------------------------- MODULE PackageNames ----------------------------
(***************************************************************************)
(* What the parts of the packaging tell one another about a package: its   *)
(* name, version and exact engine dependency, as the recipe writes them    *)
(* (tools/recipe.py), as the build reads them from its environment         *)
(* (matrix.py env) and as the gate expects them (tools/release_gate.py).   *)
(* A text is the sequence of its pieces; only the pieces that the code     *)
(* replaces, appends or matches are told apart.                            *)
(***************************************************************************)
EXTENDS Naturals, Sequences, SequencesExt

CONSTANTS
    Family, EngineVersion,   \* of the engine: its id without the family
    IdOf,                    \* the id of each VMOD
    UpstreamVersion,         \* sources...version of each VMOD
    ModulesOf,               \* package.modules
    ArtifactOf,              \* package.artifacts of a Cargo VMOD, <<>> otherwise
    Plain                    \* files that are not named like a module, libvmod_*.so

Vmods == DOMAIN IdOf

Dist == "%{?dist}"
RemoveSuffix(text, piece) == IF text # <<>> /\ Last(text) = piece THEN Front(text) ELSE text
Substituted(text, old, new) == [i \in DOMAIN text |-> IF text[i] = old THEN new ELSE text[i]]

\* FAMILY_CONTRACTS, the part that names packages.
FamilyContract ==
    [vinyl   |-> [runtime |-> <<"vinyl-cache">>, marker |-> "vinyl", prefix |-> <<"vinyl-vmod", "-">>,
                  development |-> [deb |-> <<"vinyl-cache-dev">>, rpm |-> <<"vinyl-cache-devel">>]],
     varnish |-> [runtime |-> <<"varnish">>, marker |-> "varnish", prefix |-> <<"varnish-vmod", "-">>,
                  development |-> [deb |-> <<"varnish-dev">>, rpm |-> <<"varnish-devel">>]]][Family]

RuntimePackage == FamilyContract.runtime
DevelopmentPackage(format) == FamilyContract.development[format]
VmodPackageName(v) == FamilyContract.prefix \o Substituted(IdOf[v], "_", "-")

IsText(t) == t \in Seq(ToSet(t))

\* FAMILIES; no macro is in a version (RELEASE_VERSION_RE) or in a version of
\* the manifests; no packaging system takes a tilde in a name; the ids of the
\* catalog differ in more than an underscore where another has a hyphen, so that
\* packages have names of their own; and modules and artifacts come in pairs.
ASSUME NameAssumption ==
    /\ Family \in {"vinyl", "varnish"}
    /\ IsText(EngineVersion) /\ Dist \notin ToSet(EngineVersion)
    /\ \A v \in Vmods : /\ IsText(IdOf[v]) /\ IsText(UpstreamVersion[v])
                        /\ Dist \notin ToSet(UpstreamVersion[v]) /\ "~" \notin ToSet(IdOf[v])
    /\ \A v, w \in Vmods : VmodPackageName(v) = VmodPackageName(w) => v = w
    /\ \A v \in Vmods : /\ ArtifactOf[v] # <<>> => DOMAIN ArtifactOf[v] = DOMAIN ModulesOf[v]
                        /\ ToSet(ModulesOf[v]) \cap Plain = {}

-----------------------------------------------------------------------------
\* engine_package_version()
EnginePackageVersion(revision, format) ==
    EngineVersion \o <<"-">> \o revision \o (IF format = "rpm" THEN <<Dist>> ELSE <<>>)

\* vmod_package_version(), the two halves of an RPM version joined as RPM does.
VmodPackageVersion(v, revision, format) ==
    IF format = "deb"
    THEN UpstreamVersion[v] \o <<"-", "1", "~", FamilyContract.marker>>
         \o EngineVersion \o <<".">> \o revision
    ELSE Substituted(UpstreamVersion[v], "-", ".") \o <<"-", "1", ".", FamilyContract.marker>>
         \o EngineVersion \o <<".">> \o revision \o <<Dist>>

\* rpm_exact_requirement() and the dependency fields: what a package needs.
NoIsa == "any"
IsaOf(arch) == IF arch = "amd64" THEN NoIsa ELSE arch   \* Debian has it in the package's own field
Exactly(name, arch, version) == [name |-> name, isa |-> IsaOf(arch), version |-> version]

-----------------------------------------------------------------------------
\* env_pairs(): what the build scripts go by.
Env(v, format) ==
    [runtime |-> RuntimePackage, development |-> DevelopmentPackage(format),
     name |-> VmodPackageName(v), modules |-> ModulesOf[v]]

\* build_tokens() and generate(): the control file or the spec.
Recipe(v, revision, target) ==
    [name          |-> VmodPackageName(v),
     version       |-> VmodPackageVersion(v, revision, target.format),
     buildRequires |-> Exactly(DevelopmentPackage(target.format), NoIsa,
                               EnginePackageVersion(revision, target.format)),
     requires      |-> Exactly(RuntimePackage, target.arch,
                               EnginePackageVersion(revision, target.format)),
     modules       |-> ModulesOf[v], artifacts |-> ArtifactOf[v]]

\* The macros of a spec, in an image whose packages carry this mark.
Expanded(text, dist) == FlattenSeq([i \in DOMAIN text |-> IF text[i] = Dist THEN dist ELSE <<text[i]>>])
ExpandedNeed(need, dist) == [need EXCEPT !.version = Expanded(@, dist)]
-----------------------------------------------------------------------------
(* The payload *)

\* A staged file: a regular one with its size, or a symlink.
Regular(size) == [link |-> "", size |-> size]
Link(to)      == [link |-> to, size |-> 0]
NoPayload     == [path \in {} |-> Regular(0)]

\* Where a path ends: its own or its target's size, 0 for none.
SizeAt(tree, path) ==
    IF path \notin DOMAIN tree THEN 0
    ELSE IF tree[path].link = "" THEN tree[path].size
    ELSE IF tree[path].link \in DOMAIN tree THEN tree[tree[path].link].size ELSE 0

\* Mutant of Materialized: links stay links.
MaterializedNever(tree, modules) == tree

\* The declared names that are links become files with the bytes behind them.
Materialized(tree, modules) ==
    [path \in DOMAIN tree |-> IF path \in modules THEN Regular(SizeAt(tree, path)) ELSE tree[path]]

\* Mutant of Retain: only the links are dealt with.
RetainAll(tree, modules) == Materialized(tree, modules)

\* vmod-artifacts.py retain(): every declared module is there, not empty, and
\* inside; links are resolved before everything else is removed.
Retainable(tree, modules) == \A m \in modules : SizeAt(tree, m) > 0
Retain(tree, modules) ==
    LET files == Materialized(tree, modules) IN [path \in modules |-> files[path]]

\* cargo-artifacts.py install(): the release directory holds the declared
\* artifacts and no other, and each goes under the name of its module.
Installable(tree, artifacts) ==
    /\ DOMAIN tree = ToSet(artifacts)
    /\ \A a \in ToSet(artifacts) : SizeAt(tree, a) > 0
Install(tree, modules, artifacts) ==
    [m \in ToSet(modules) |->
        Regular(SizeAt(tree, artifacts[CHOOSE i \in DOMAIN modules : modules[i] = m]))]

\* verify_vmod(), the payload: what is named like a module is a declared one.
PayloadFits(files, modules) == DOMAIN files \ Plain = ToSet(modules)
=============================================================================

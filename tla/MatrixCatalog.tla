--------------------------- MODULE MatrixCatalog ---------------------------
(***************************************************************************)
(* The catalog, engines.yml and vmods/*.yml, as tools/matrix.py loads it.  *)
(*                                                                         *)
(* A catalog is [engines: a sequence of engine records, in file order;     *)
(* vmods: a sequence of VMOD records, in order of their file names;        *)
(* targets: the runner of each target].  An absent `families' or `targets' *)
(* of a package stands for all of them, an absent `commit' for NoPin.      *)
(* Spelling checks and the fields only the recipes read are left out.      *)
(***************************************************************************)
EXTENDS Naturals, SequencesExt

CONSTANTS NoPin      \* the commit of a source entry that has none

Families      == {"vinyl", "varnish"}
Kinds         == {"release", "trunk"}
BuildFamilies == {"autotools", "cargo"}

Items(seq) == {seq[i] : i \in DOMAIN seq}
Ids(seq)   == {r.id : r \in Items(seq)}
Once(seq)  == \A i, j \in DOMAIN seq : seq[i] = seq[j] => i = j

\* The elements of a sequence at some of its places, in their order.
Place(places, i)    == Cardinality({j \in places : j <= i})
Picked(seq, places) ==
    [n \in 1..Cardinality(places) |-> seq[CHOOSE i \in places : Place(places, i) = n]]

-----------------------------------------------------------------------------
(* load_catalog *)

EnginesLoad(catalog) ==
    /\ catalog.engines # <<>>
    /\ Once([i \in DOMAIN catalog.engines |-> catalog.engines[i].id])
    /\ \A e \in Items(catalog.engines) :
          /\ e.family \in Families /\ e.kind \in Kinds
          /\ e.packages => e.kind = "release"
          /\ e.targets # <<>> /\ Once(e.targets)
          /\ Items(e.targets) \subseteq DOMAIN catalog.targets

\* The entries a release engine can resolve to.
ReleaseEntries(v) == {v.default} \cup {v.bySeries[s] : s \in DOMAIN v.bySeries}

\* A series no engine has is refused; an entry may still be without a commit.
SourcesLoad(catalog, v) == DOMAIN v.bySeries \subseteq {e.series : e \in Items(catalog.engines)}

\* Mutant of PackageLoads: the pin of a promoted VMOD is not asked for.
PackageLoadsUnpinned(catalog, v) ==
    /\ v.families # {} /\ v.families \subseteq Families
    /\ v.targets # {} /\ v.targets \subseteq DOMAIN catalog.targets

PackageLoads(catalog, v) ==
    /\ v.families # {} /\ v.families \subseteq Families
    /\ v.promoted => \A entry \in ReleaseEntries(v) : entry.commit # NoPin
    /\ v.targets # {} /\ v.targets \subseteq DOMAIN catalog.targets

VmodsLoad(catalog) ==
    \A v \in Items(catalog.vmods) :
        v.build \in BuildFamilies /\ SourcesLoad(catalog, v) /\ PackageLoads(catalog, v)

\* Any error at all stops every command.
Loads(catalog) == EnginesLoad(catalog) /\ VmodsLoad(catalog)

FindEngine(catalog, id) == CHOOSE e \in Items(catalog.engines) : e.id = id
FindVmod(catalog, id)   == CHOOSE v \in Items(catalog.vmods) : v.id = id

-----------------------------------------------------------------------------
(* Which source a VMOD is built from, and whether it is packaged *)

ResolveSource(v, e) ==
    IF e.kind = "trunk" THEN [ref |-> v.head, commit |-> NoPin]
    ELSE IF e.series \in DOMAIN v.bySeries THEN v.bySeries[e.series]
    ELSE v.default

\* Mutant of SourceArtifact: the commit is left out of the identity.
SourceArtifactByRef(v, e) == [vmod |-> v.id, git |-> v.git, ref |-> ResolveSource(v, e).ref,
                              commit |-> NoPin]

\* The name of a fetched source; its digest is taken to be injective.
SourceArtifact(v, e) == [vmod |-> v.id, git |-> v.git, ref |-> ResolveSource(v, e).ref,
                         commit |-> ResolveSource(v, e).commit]

PackageEligible(v, e, t) == e.family \in v.families /\ v.promoted /\ t \in v.targets

PackageVmods(catalog, e, t) ==
    Picked(catalog.vmods, {i \in DOMAIN catalog.vmods : PackageEligible(catalog.vmods[i], e, t)})
=============================================================================

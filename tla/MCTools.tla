------------------------------ MODULE MCTools ------------------------------
(***************************************************************************)
(* Instances, for TLC, of the tools that run beside one another and share  *)
(* nothing: one of them is chosen at the beginning and takes all the steps *)
(* of the behaviour, so that the states of the machines add up.            *)
(***************************************************************************)
EXTENDS MatrixMerge, RateLimit, EngineCache, PinHeads, PackageChain, SourceNormalize, TLC

VARIABLE tool

mergeVars == <<state, seen>>
toolVars  == <<tool, mergeVars, rateVars, engineVars, pinVars, chainVars, normalizeVars>>

Of(name) == tool = name /\ UNCHANGED tool
Rest(name) ==
    /\ IF name = "merge" THEN TRUE ELSE UNCHANGED mergeVars
    /\ IF name = "rate" THEN TRUE ELSE UNCHANGED rateVars
    /\ IF name = "engine" THEN TRUE ELSE UNCHANGED engineVars
    /\ IF name = "pins" THEN TRUE ELSE UNCHANGED pinVars
    /\ IF name = "chain" THEN TRUE ELSE UNCHANGED chainVars
    /\ IF name = "normalize" THEN TRUE ELSE UNCHANGED normalizeVars

ToolsInit ==
    /\ tool \in {"merge", "rate", "engine", "pins", "chain", "normalize"}
    /\ Init /\ RateInit /\ EngineInit /\ PinInit /\ ChainInit /\ NormalizeInit

ToolsNext ==
    \/ Of("merge")     /\ Next          /\ Rest("merge")
    \/ Of("rate")      /\ RateNext      /\ Rest("rate")
    \/ Of("engine")    /\ EngineNext    /\ Rest("engine")
    \/ Of("pins")      /\ PinNext       /\ Rest("pins")
    \/ Of("chain")     /\ ChainNext     /\ Rest("chain")
    \/ Of("normalize") /\ NormalizeNext /\ Rest("normalize")

ToolsSpec == ToolsInit /\ [][ToolsNext]_toolVars

\* The type invariants of the tools.
ToolsTypeOK ==
    TypeOK /\ RateTypeOK /\ EngineTypeOK /\ PinTypeOK /\ ChainTypeOK /\ NormalizeTypeOK
-----------------------------------------------------------------------------
(* EngineCache: a trunk batch of two engines of one branch, and a release *)
TwoBatches    == {<<"t1", "t2">>, <<"r">>}
EngineBranch  == [t1 |-> "b", t2 |-> "b", r |-> "none"]

(* PinHeads: one manifest with two series, and one that shares its remote *)
TwoManifests == <<"cfg", "dispatch">>
TwoSlots     == <<"default", "vinyl-9.0">>
OneRemote    == [cfg |-> "g", dispatch |-> "g"]
SomeCells    == {<<"cfg", "vinyl">>, <<"cfg", "varnish">>, <<"dispatch", "vinyl">>}
Pinned       == [cfg      |-> "default" :> 1 @@ "vinyl-9.0" :> 2,
                 dispatch |-> "default" :> 1 @@ "vinyl-9.0" :> 1]

(* PackageChain: an Autotools and a Cargo VMOD, and a revision that begins  *)
(* like another                                                             *)
Engine902    == <<"9", ".", "0", ".", "2">>
Ids          == [ab |-> <<"a", "_", "b">>, rs |-> <<"rs">>]
Upstream     == [ab |-> <<"1", "-", "2">>, rs |-> <<"0", "~", "main">>]
Modules      == [ab |-> <<"ab">>, rs |-> <<"x", "y">>]
Artifacts    == [ab |-> <<>>, rs |-> <<"libx", "liby">>]
DebAndRpm    == {[format |-> "deb", arch |-> "amd64"], [format |-> "rpm", arch |-> "x86_64"]}
OneAndTen    == {<<"1">>, <<"1", "0">>}
TwoImages    == {<<".", "el10">>, <<".", "el10_1">>}
File1        == Regular(1)
InstallTrees ==
    [ab |-> {"ab" :> File1 @@ "doc" :> File1, "ab" :> Link("ab.0") @@ "ab.0" :> File1,
             "ab" :> Link("ab.0") @@ "ab.0" :> Regular(0), "doc" :> File1},
     rs |-> {"libx" :> File1 @@ "liby" :> File1,
             "libx" :> File1 @@ "liby" :> File1 @@ "libz" :> File1}]

(* SourceNormalize: words whose spellings contain or touch one another *)
SourceWords ==
    [what : {"header", "guard"}, family : Families, form : {"historic"}] \cup
    [what : {"header", "guard"}, family : {"vinyl"}, form : {"int"}] \cup
    [what : {"spelling"}, family : Families, form : {1, 5, 8, 9, 12, 13}] \cup
    [what : {"call", "name", "vsc"}, family : Families, form : {0}] \cup
    [what : {"calls"}, family : {"vinyl"}, form : {0}]
=============================================================================

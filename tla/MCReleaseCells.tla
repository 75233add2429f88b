--------------------------- MODULE MCReleaseCells ---------------------------
(* The release workflow and the scripts of one cell, checked in one run.      *)
(* They share no state: a behaviour is one of either, so the states add up    *)
(* where a product would multiply them.                                       *)
EXTENDS MCReleaseWorkflow, CellBuild, TLC

VARIABLE part   \* which of the two this behaviour is about

PartInit ==
    /\ Init /\ BuildInit
    /\ part \in {"workflow", "scripts"}
    \* the scripts stand still in a behaviour of the workflow
    /\ part = "workflow" => format = "deb"

PartNext ==
    \/ part = "workflow" /\ Next /\ UNCHANGED <<part, buildVars>>
    \/ part = "scripts" /\ BuildNext /\ UNCHANGED <<part, vars>>

PartSpec == PartInit /\ [][PartNext]_<<part, vars, buildVars>>

\* Catalog versions are only ever compared with each other.
Symmetry == Permutations(Pins)
=============================================================================

---------------------------- MODULE MCVmodBatch ----------------------------
(* Instances of VmodBatch for TLC. *)
EXTENDS VmodBatch, TLC

TwoCells == <<"a", "b">>

\* Versions, contracts and commits are only ever compared with each other.
Symmetry == Permutations(Versions) \cup Permutations(Contracts) \cup Permutations(Commits)
=============================================================================

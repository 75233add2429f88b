-------------------------- MODULE MCReleaseMaintainer --------------------------
(* Instances of ReleaseMaintainer for TLC. *)
EXTENDS ReleaseMaintainer, TLC

CONSTANTS t1, t2, n1, n2, d1, d2, c1, c2

Cut(commit, files) == [commit |-> commit, files |-> files]

\* One dispatch of the workflow, and its reruns.
OneBuild == {Cut(c1, (n1 :> d1) @@ (n2 :> d2))}

\* The same names with other bytes at a later commit.
TwoBuilds == OneBuild \cup {Cut(c2, (n1 :> d1) @@ (n2 :> d1))}
=============================================================================

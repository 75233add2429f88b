-------------------------- MODULE MCReleasePublish --------------------------
(* Instances of ReleasePublish for TLC. *)
EXTENDS ReleasePublish, TLC

CONSTANTS t1, t2, n1, n2, d1, d2, c1, c2

Cut(commit, files) == [commit |-> commit, files |-> files]

\* One dispatch of the workflow, and its reruns.
OneBuild == {Cut(c1, (n1 :> d1) @@ (n2 :> d2))}

\* The same bytes at a later commit; other bytes at the same commit; fewer
\* files.
RivalBuilds == OneBuild \cup {Cut(c2, (n1 :> d1) @@ (n2 :> d2)),
                              Cut(c1, (n1 :> d1) @@ (n2 :> d1)),
                              Cut(c1, n1 :> d1)}
=============================================================================

------------------------- MODULE MCReleaseWorkflow -------------------------
(* Instances of ReleaseWorkflow for TLC. *)
EXTENDS ReleaseWorkflow

\* Two engines of different families on two targets, in the order of
\* sorted(pairs).
TwoByTwo == <<<<"varnish", "deb">>, <<"varnish", "el10">>,
              <<"vinyl", "deb">>, <<"vinyl", "el10">>>>

OneTarget == <<<<"varnish", "deb">>, <<"vinyl", "deb">>>>
=============================================================================

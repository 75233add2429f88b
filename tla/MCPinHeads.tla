----------------------------- MODULE MCPinHeads -----------------------------
(* Instances of PinHeads for TLC. *)
EXTENDS PinHeads, TLC

\* One manifest with two pins of which one is behind, and one whose two series
\* are pinned at the same commit, as in vmods/brotli.yml.
TwoVmods == <<"cfg", "dispatch">>
TwoSlots == <<"default", "vinyl-9.0">>
Remote   == [cfg |-> "g1", dispatch |-> "g2"]
OneCell  == {<<v, "trunk">> : v \in {"cfg", "dispatch"}}
Pinned   == [cfg      |-> "default" :> 1 @@ "vinyl-9.0" :> 2,
             dispatch |-> "default" :> 1 @@ "vinyl-9.0" :> 1]
=============================================================================

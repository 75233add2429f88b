-------------------------- MODULE MCMatrixPublish --------------------------
(* Instances of MatrixPublish for TLC. *)
EXTENDS MatrixPublish, TLC

CONSTANTS monday, tuesday, trunk, render

Dns(time, status) == [key |-> "dns", time |-> time, status |-> status]
Tus(time, status) == [key |-> "tus", time |-> time, status |-> status]

\* Two nights of the matrix, where the second is interrupted for one key and
\* changes the verdict of the other, and a trunk run with a key of its own.
Nights == (monday  :> {Dns(1, "pass"), Tus(1, "pass")})
       @@ (tuesday :> {Dns(3, "infra_failed"), Tus(3, "build_failed")})
       @@ (trunk   :> {[key |-> "dns-trunk", time |-> 2, status |-> "pass"]})
=============================================================================

------------------------------- MODULE MCAuth -------------------------------
(* Instances of Auth for TLC. *)
EXTENDS Auth, TLC

CONSTANTS p1, p2, j1, j2, k1, k2, k3, i1, i2, i3, e1, e2

(* A rollout: the image of p1 holds one migration, that of p2 two. *)
MCLatest == (p1 :> 1) @@ (p2 :> 2)
=============================================================================

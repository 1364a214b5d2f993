----------------------------- MODULE MCVerifier -----------------------------
(* Instances of Verifier for TLC. *)
EXTENDS Verifier

CONSTANTS q1, q2, key1, key2, key3, kid1, kid2

(* Two keys that go by one kid, and one that goes by another. *)
MCKid == [k \in Keys |-> IF k = key3 THEN kid2 ELSE kid1]
=============================================================================

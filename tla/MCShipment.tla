----------------------------- MODULE MCShipment -----------------------------
(* Instances of Shipment for TLC. *)
EXTENDS Shipment, TLC

CONSTANTS q1, q2, s1, s2, r1, r2, alice, bob, operator

Symmetry == Permutations(Requests) \cup Permutations(ShipmentIds)
=============================================================================

------------------------------- MODULE Stock -------------------------------
(***************************************************************************)
(* Package stock: the availability arithmetic, free of database and clock, *)
(* over a table rs of reservations (a function from ids to rows).          *)
(***************************************************************************)
EXTENDS Integers, FiniteSets

(* Lazy expiry: a reservation counts while it is PENDING and expires later
   than what the caller takes for now. *)
Active(r, now) == r.status = "PENDING" /\ r.expiresAt > now

(* The units of quantity the rows with the ids in R stand for.  A sum of
   quantities is the number of their units. *)
Units(rs, R) == UNION {{i} \X (1 .. rs[i].quantity) : i \in R}

Reserved(rs, now) ==
  Cardinality(Units(rs, {i \in DOMAIN rs : Active(rs[i], now)}))

Available(onHand, rs, now) == onHand - Reserved(rs, now)
=============================================================================

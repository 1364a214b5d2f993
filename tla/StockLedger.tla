---------------------------- MODULE StockLedger ----------------------------
(***************************************************************************)
(* What Inventory promises its callers about stock, whatever requests run  *)
(* at the same time: every operation takes effect at one instant and is    *)
(* decided on the stock and the reservations of that instant.              *)
(*                                                                         *)
(* Commit is the exception the service makes: it looks at the expiry when  *)
(* the request comes in, so at the instant it takes effect the reservation *)
(* need only still be PENDING.                                             *)
(***************************************************************************)
EXTENDS Stock, Naturals

CONSTANTS Pairs, ReservationIds, NoRow

VARIABLES clock, stock, reservation

vars == <<clock, stock, reservation>>

RowsOf(p) ==
  [r \in {r \in ReservationIds : reservation[r].pair = p} |-> reservation[r]]

(* Only the row of r changes, and it keeps the fields other than status. *)
Becomes(r, status) ==
  reservation' = [reservation EXCEPT ![r].status = status]

Init ==
  /\ clock = 0
  /\ \A p \in Pairs : stock[p] = NoRow
  /\ \A r \in ReservationIds : reservation[r].status = "free"

Tick ==
  /\ clock' = clock + 1
  /\ UNCHANGED <<stock, reservation>>

(* A new reservation takes no more than what is available to it. *)
Reserve(r) ==
  LET new == reservation'[r] IN
  /\ reservation[r].status = "free"
  /\ reservation' = [reservation EXCEPT ![r] = new]
  /\ new.status = "PENDING"
  /\ new.pair \in Pairs
  /\ stock[new.pair] # NoRow
  /\ new.quantity <= Available(stock[new.pair], RowsOf(new.pair), clock)
  /\ UNCHANGED <<clock, stock>>

Commit(r) ==
  LET p == reservation[r].pair IN
  /\ reservation[r].status = "PENDING"
  /\ stock[p] # NoRow
  /\ stock[p] >= reservation[r].quantity
  /\ stock' = [stock EXCEPT ![p] = @ - reservation[r].quantity]
  /\ Becomes(r, "COMMITTED")
  /\ UNCHANGED clock

Release(r) ==
  /\ reservation[r].status = "PENDING"
  /\ Becomes(r, "RELEASED")
  /\ UNCHANGED <<clock, stock>>

(* Retention and deletes remove rows that no longer hold stock. *)
Forget(R) ==
  /\ \A r \in R : /\ reservation[r].status \in {"PENDING", "COMMITTED", "RELEASED"}
                  /\ ~Active(reservation[r], clock)
  /\ reservation' = [r \in ReservationIds |->
       IF r \in R THEN [reservation[r] EXCEPT !.status = "deleted"]
                  ELSE reservation[r]]
  /\ UNCHANGED <<clock, stock>>

(* Stock is never set below what active reservations hold. *)
SetStock(p) ==
  /\ stock' = [stock EXCEPT ![p] = stock'[p]]
  /\ stock'[p] \in Nat
  /\ Available(stock'[p], RowsOf(p), clock) >= 0
  /\ UNCHANGED <<clock, reservation>>

(* Stock rows go when their items are deleted. *)
Discontinue(P) ==
  /\ stock' = [p \in Pairs |-> IF p \in P THEN NoRow ELSE stock[p]]
  /\ UNCHANGED <<clock, reservation>>

Next ==
  \/ Tick
  \/ \E r \in ReservationIds : Reserve(r) \/ Commit(r) \/ Release(r)
  \/ \E R \in SUBSET ReservationIds : Forget(R)
  \/ \E p \in Pairs : SetStock(p)
  \/ \E P \in SUBSET Pairs : Discontinue(P)

Spec == Init /\ [][Next]_vars
=============================================================================

-------------------------------- MODULE Saga --------------------------------
(***************************************************************************)
(* What a caller of Shipment may rely on: how the row of a shipment moves  *)
(* with its reservation, when each move is one instant on both sides, no   *)
(* call is ever under way and nothing is lost.                             *)
(***************************************************************************)
EXTENDS Reservations

CONSTANT ShipmentIds

VARIABLES
  row,      \* id -> the shipment's row, whose status is "free" before it is made
  charged   \* the reservations stock has been charged for

saga == <<contract, row, charged>>

SagaInit ==
  /\ ContractInit
  /\ \A s \in ShipmentIds : row[s].status = "free"
  /\ charged = {}

(* Inventory goes on, as its contract allows. *)
Inventory ==
  /\ ContractNext
  /\ charged' = charged \cup
       {r \in ReservationIds : status[r] = "PENDING" /\ status'[r] = "COMMITTED"}
  /\ UNCHANGED row

(* A shipment is recorded for a reservation made for it alone, which nobody
   has settled: it is lost only if it has expired. *)
Record(s) ==
  LET r == row'[s].reservation IN
  /\ row[s].status = "free"
  /\ row' = [row EXCEPT ![s] = row'[s]]
  /\ row'[s].status = "PENDING"
  /\ r \in Made \ charged
  /\ status[r] = "PENDING" \/ r \in expired
  /\ \A o \in ShipmentIds : row[o].status # "free" => row[o].reservation # r
  /\ UNCHANGED <<contract, charged>>

(* The shipment ends as outcome, and keeps its owner and its reservation. *)
End(s, outcome) ==
  /\ row[s].status # "free"
  /\ row' = [row EXCEPT ![s].status = outcome]
  /\ UNCHANGED <<contract, charged>>

Confirm(s) ==
  /\ row[s].reservation \in charged
  /\ End(s, "CONFIRMED")

(* The stock is free again before its shipment is cancelled, *)
Cancel(s) ==
  /\ status[row[s].reservation] \in {"RELEASED", "deleted"}
  /\ row[s].reservation \notin charged
  /\ End(s, "CANCELLED")

(* unless the service takes it for freed because the reservation expired. *)
CancelExpired(s) ==
  /\ row[s].reservation \in expired
  /\ End(s, "CANCELLED")

Delete(S) ==
  /\ \A s \in S : row[s].status \in {"CONFIRMED", "CANCELLED"}
  /\ row' = [s \in ShipmentIds |->
       IF s \in S THEN [row[s] EXCEPT !.status = "deleted"] ELSE row[s]]
  /\ UNCHANGED <<contract, charged>>

SagaNext ==
  \/ Inventory
  \/ \E s \in ShipmentIds : Record(s) \/ Confirm(s) \/ Cancel(s) \/ CancelExpired(s)
  \/ \E S \in SUBSET ShipmentIds : Delete(S)

SagaSpec == SagaInit /\ [][SagaNext]_saga
=============================================================================

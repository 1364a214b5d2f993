---------------------------- MODULE Reservations ----------------------------
(***************************************************************************)
(* The contract between Inventory and its callers about the life of a      *)
(* reservation: what Inventory keeps and what Shipment builds on.          *)
(*                                                                         *)
(* A commit is decided on the expiry at the time it comes in and takes     *)
(* effect later.  In between it vouches for the reservation: whatever has  *)
(* expired by then, only a reservation vouched for is committed.           *)
(***************************************************************************)

CONSTANT ReservationIds

VARIABLES
  status,   \* id -> status of the reservation
  expired,  \* the reservations whose expires_at has passed
  vouched   \* those that a commit under way has found in time

contract == <<status, expired, vouched>>

Made == {r \in ReservationIds : status[r] # "free"}

ContractInit ==
  /\ status = [r \in ReservationIds |-> "free"]
  /\ expired = {}
  /\ vouched = {}

(* A slow handler inserts a reservation that has already expired. *)
Reserve(r) ==
  /\ status[r] = "free"
  /\ status' = [status EXCEPT ![r] = "PENDING"]
  /\ expired' \in {expired, expired \cup {r}}
  /\ UNCHANGED vouched

Pass(R) ==
  /\ R \subseteq Made
  /\ expired' = expired \cup R
  /\ UNCHANGED <<status, vouched>>

(* A commit comes in, and ends without effect. *)
Vouch(r) ==
  /\ r \in Made \ expired
  /\ vouched' = vouched \cup {r}
  /\ UNCHANGED <<status, expired>>

Withdraw ==
  /\ vouched' \subseteq vouched
  /\ UNCHANGED <<status, expired>>

Commit(r) ==
  /\ status[r] = "PENDING"
  /\ r \in vouched
  /\ status' = [status EXCEPT ![r] = "COMMITTED"]
  /\ vouched' \subseteq vouched
  /\ UNCHANGED expired

Release(r) ==
  /\ status[r] = "PENDING"
  /\ status' = [status EXCEPT ![r] = "RELEASED"]
  /\ UNCHANGED <<expired, vouched>>

(* Deletes and the retention purge take no hold that still counts. *)
Forget(R) ==
  /\ \A r \in R : \/ status[r] \in {"COMMITTED", "RELEASED"}
                  \/ status[r] = "PENDING" /\ r \in expired
  /\ status' = [r \in ReservationIds |-> IF r \in R THEN "deleted" ELSE status[r]]
  /\ UNCHANGED <<expired, vouched>>

ContractNext ==
  \/ \E r \in ReservationIds : Reserve(r) \/ Vouch(r) \/ Commit(r) \/ Release(r)
  \/ \E R \in SUBSET ReservationIds : Pass(R) \/ Forget(R)
  \/ Withdraw

ContractSpec == ContractInit /\ [][ContractNext]_contract
=============================================================================

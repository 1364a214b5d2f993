------------------------------ MODULE Shipment ------------------------------
(***************************************************************************)
(* The Shipment service: the create, confirm and cancel sagas that span    *)
(* its own database and the Inventory service, and the deletes.            *)
(*                                                                         *)
(* A request is one handler goroutine.  Its calls to Inventory are         *)
(* messages: the client gives up on a call after INVENTORY_TIMEOUT_MS, but *)
(* Inventory may still execute it, and a response may be lost.  A replica  *)
(* may die at any point.  Inventory is seen through its API here (module   *)
(* Inventory has the inside): a call takes effect in one step, and commit  *)
(* looks at the expiry before that, when it is received.  Whether there is *)
(* stock is up to other clients, so Inventory may always say there is not. *)
(*                                                                         *)
(* Operators whose name ends in _bug are seeded faults: none is used here. *)
(***************************************************************************)
EXTENDS Naturals, Sequences, FiniteSets, SequencesExt

CONSTANTS
  Requests,        \* handler goroutines that may run at the same time
  ShipmentIds,     \* shipment ids (uuids) the service may hand out
  ReservationIds,  \* reservation ids Inventory may hand out
  Nobody, NoId,    \* a caller that is gone, and the absence of an id
  Users,           \* token subjects
  Operators,       \* those of them whose role is operator or admin
  Outside          \* what happens to reservations behind Shipment's back

ASSUME OutsideAssumption == Outside \subseteq {"purge", "direct"}
ASSUME MarkerAssumption ==
  Nobody \notin Requests /\ NoId \notin ReservationIds \cup ShipmentIds

VARIABLES
  shipment,     \* shipments table: id -> row
  history,      \* shipment_status_history: id -> rows, oldest first
  reservation,  \* Inventory: id -> status of the reservation
  expired,      \* Inventory: the reservations whose expires_at has passed
  charged,      \* history variable: the reservations stock was charged for
  net,          \* calls to Inventory not executed yet
  tx            \* request -> where its handler is and what it has read

vars == <<shipment, history, reservation, expired, charged, net, tx>>
own == <<shipment, history>>
inventory == <<reservation, expired, charged>>
-----------------------------------------------------------------------------
Terminal == {"CONFIRMED", "CANCELLED"}
Stored == {"PENDING"} \cup Terminal

(* An id without a row is not handed out yet or had its row deleted. *)
FreeRow == [status |-> "free"]
ShipmentRow ==
  [status: Stored \cup {"deleted"}, owner: Users, reservation: ReservationIds]
    \cup {FreeRow}

ShipmentExists(s) == shipment[s].status \in Stored

(* r is, or was, the reservation of a recorded shipment. *)
Recorded(r) ==
  \E s \in ShipmentIds :
    shipment[s].status # "free" /\ shipment[s].reservation = r

Reasons == {"none", "user_cancelled", "reservation_expired"}
HistoryRow == [from: Stored \cup {"none"}, to: Stored, reason: Reasons]

Codes ==
  {"ok", "NOT_FOUND", "INSUFFICIENT_STOCK", "STOCK_UNDERFLOW",
   "RESERVATION_EXPIRED", "RESERVATION_NOT_ACTIVE",
   "RESERVATION_ALREADY_COMMITTED", "DEPENDENCY_UNAVAILABLE"}

(* A call in flight.  inTime: once Inventory has received a commit, whether
   the reservation had not expired then. *)
Message ==
  [op: {"reserve", "commit", "release"}, id: ReservationIds \cup {NoId},
   from: Requests \cup {Nobody}, inTime: {"unread", "yes", "no"}]

(* A handler.  id, owner and reservation are the fields of the Shipment it
   has in memory, whose status is PENDING as long as it goes on with it. *)
Tx ==
  [pc: {"idle", "waiting", "answered", "delete"},
   op: {"none", "create", "compensate", "confirm", "cancel", "delete"},
   id: ShipmentIds \cup {NoId}, owner: Users \cup {NoId},
   reservation: ReservationIds \cup {NoId}, code: Codes]

Idle ==
  [pc |-> "idle", op |-> "none", id |-> NoId, owner |-> NoId,
   reservation |-> NoId, code |-> "ok"]

Return(q) == tx' = [tx EXCEPT ![q] = Idle]

(* q sends Inventory a call and waits for the answer.  The Authorization it
   forwards is the owner's or an operator's, which Inventory accepts. *)
Call(q, op, r, local) ==
  /\ net' = net \cup {[op |-> op, id |-> r, from |-> q, inTime |-> "unread"]}
  /\ tx' = [tx EXCEPT ![q] = [local EXCEPT !.pc = "waiting"]]

(* What q leaves in flight when it no longer waits. *)
Abandon(q) ==
  net' = {IF m.from = q THEN [m EXCEPT !.from = Nobody] ELSE m : m \in net}

Authorized(u, s) == u \in Operators \/ shipment[s].owner = u
-----------------------------------------------------------------------------
Init ==
  /\ shipment = [s \in ShipmentIds |-> FreeRow]
  /\ history = [s \in ShipmentIds |-> <<>>]
  /\ reservation = [r \in ReservationIds |-> "free"]
  /\ expired = {}
  /\ charged = {}
  /\ net = {}
  /\ tx = [q \in Requests |-> Idle]
-----------------------------------------------------------------------------
(* Inventory, through client/inventory.go *)

(* The call is over: the response reaches the handler that waits for it, or
   is lost, and do() reports any 5xx, timeout or broken response alike. *)
Respond(m, code) ==
  /\ net' = net \ {m}
  /\ IF m.from = Nobody THEN UNCHANGED tx
     ELSE \E seen \in {code, "DEPENDENCY_UNAVAILABLE"} :
            tx' = [tx EXCEPT ![m.from].pc = "answered", ![m.from].code = seen]

ReceiveCommit(m) ==
  /\ m.op = "commit"
  /\ m.inTime = "unread"
  /\ net' = (net \ {m}) \cup
       {[m EXCEPT !.inTime = IF m.id \in expired THEN "no" ELSE "yes"]}
  /\ UNCHANGED <<own, inventory, tx>>

ExecuteReserve(m) ==
  /\ m.op = "reserve"
  /\ \/ /\ \E code \in {"NOT_FOUND", "INSUFFICIENT_STOCK"} : Respond(m, code)
        /\ UNCHANGED reservation
     \/ \E r \in ReservationIds :
          /\ reservation[r] = "free"
          /\ reservation' = [reservation EXCEPT ![r] = "PENDING"]
          /\ net' = net \ {m}
          /\ IF m.from = Nobody THEN UNCHANGED tx
             ELSE \/ tx' = [tx EXCEPT ![m.from].pc = "answered",
                                      ![m.from].reservation = r]
                  \/ tx' = [tx EXCEPT ![m.from].pc = "answered",
                                      ![m.from].code = "DEPENDENCY_UNAVAILABLE"]
  /\ UNCHANGED <<own, expired, charged>>

(* A commit that Inventory has received takes effect or is refused. *)
ExecuteCommit(m) ==
  LET status == reservation[m.id] IN
  /\ m.op = "commit"
  /\ m.inTime # "unread"
  /\ \/ /\ status = "PENDING"
        /\ m.inTime = "yes"
        /\ reservation' = [reservation EXCEPT ![m.id] = "COMMITTED"]
        /\ charged' = charged \cup {m.id}
        /\ Respond(m, "ok")
     \/ /\ Respond(m, CASE status = "COMMITTED" -> "ok"
                        [] status = "RELEASED" -> "RESERVATION_NOT_ACTIVE"
                        [] status = "deleted" -> "NOT_FOUND"
                        [] status = "PENDING" /\ m.inTime = "no" -> "RESERVATION_EXPIRED"
                        [] OTHER -> "STOCK_UNDERFLOW")
        /\ UNCHANGED <<reservation, charged>>
  /\ UNCHANGED <<own, expired>>

ExecuteRelease(m) ==
  LET status == reservation[m.id] IN
  /\ m.op = "release"
  /\ reservation' =
       IF status = "PENDING" THEN [reservation EXCEPT ![m.id] = "RELEASED"]
                             ELSE reservation
  /\ Respond(m, CASE status = "deleted" -> "NOT_FOUND"
                  [] status = "COMMITTED" -> "RESERVATION_ALREADY_COMMITTED"
                  [] OTHER -> "ok")
  /\ UNCHANGED <<own, expired, charged>>

(* Inventory is down or fails: the call has no effect. *)
Refuse(m) ==
  /\ Respond(m, "DEPENDENCY_UNAVAILABLE")
  /\ UNCHANGED <<own, inventory>>

(* http.Client.Timeout passes: the handler goes on, the call stays. *)
Timeout(q) ==
  /\ tx[q].pc = "waiting"
  /\ Abandon(q)
  /\ tx' = [tx EXCEPT ![q].pc = "answered", ![q].code = "DEPENDENCY_UNAVAILABLE"]
  /\ UNCHANGED <<own, inventory>>

(* The TTL of a reservation runs out. *)
Expire(r) ==
  /\ reservation[r] = "PENDING"
  /\ r \notin expired
  /\ expired' = expired \cup {r}
  /\ UNCHANGED <<own, reservation, charged, net, tx>>

(* Inventory's retention sweep deletes a terminal or an expired row. *)
PurgeReservation(r) ==
  /\ "purge" \in Outside
  /\ \/ reservation[r] \in {"COMMITTED", "RELEASED"}
     \/ reservation[r] = "PENDING" /\ r \in expired
  /\ reservation' = [reservation EXCEPT ![r] = "deleted"]
  /\ UNCHANGED <<own, expired, charged, net, tx>>

(* The owner calls Inventory's own API, with the id the response for the
   shipment has told him. *)
SettleDirectly(r) ==
  /\ "direct" \in Outside
  /\ Recorded(r)
  /\ \E op \in {"commit", "release"} :
       net' = net \cup {[op |-> op, id |-> r, from |-> Nobody, inTime |-> "unread"]}
  /\ UNCHANGED <<own, inventory, tx>>
-----------------------------------------------------------------------------
(* Bound: a shipment id is left for the request, and Inventory has an id
   left for every reserve under way. *)
IdsLeft(s) ==
  /\ shipment[s].status = "free"
  /\ \A q \in Requests : tx[q].id # s
  /\ Cardinality({r \in ReservationIds : reservation[r] = "free"})
       > Cardinality({m \in net : m.op = "reserve"})

CreateShipment(q, u) ==
  /\ tx[q].pc = "idle"
  /\ \E s \in ShipmentIds :
       /\ IdsLeft(s)
       /\ Call(q, "reserve", NoId,
               [Idle EXCEPT !.op = "create", !.id = s, !.owner = u])
  /\ UNCHANGED <<own, inventory>>

Succeeded_bug(q) == TRUE
Succeeded(q) == tx[q].code = "ok"

(* mapReserveError: no shipment is created. *)
ReserveFailed(q) ==
  /\ tx[q].pc = "answered"
  /\ tx[q].op = "create"
  /\ ~Succeeded(q)
  /\ Return(q)
  /\ UNCHANGED <<own, inventory, net>>

Row(q, status) ==
  [status |-> status, owner |-> tx[q].owner, reservation |-> tx[q].reservation]

Entry(from, to, reason) == [from |-> from, to |-> to, reason |-> reason]

(* repository.Create: the row and its first history row, in a transaction. *)
Store(q) ==
  /\ shipment' = [shipment EXCEPT ![tx[q].id] = Row(q, "PENDING")]
  /\ history' = [history EXCEPT ![tx[q].id] = <<Entry("none", "PENDING", "none")>>]

Compensation_bug == "commit"
Compensation == "release"

(* Step 3 of CreateShipment.  An error may hide a COMMIT that happened; in
   either case the reservation is released, whatever that call returns. *)
PersistShipment(q) ==
  /\ tx[q].pc = "answered"
  /\ tx[q].op = "create"
  /\ Succeeded(q)
  /\ \/ Store(q) /\ Return(q) /\ UNCHANGED net
     \/ /\ Store(q) \/ UNCHANGED own
        /\ Call(q, Compensation, tx[q].reservation,
                [Idle EXCEPT !.op = "compensate"])
  /\ UNCHANGED inventory

Compensated(q) ==
  /\ tx[q].pc = "answered"
  /\ tx[q].op = "compensate"
  /\ Return(q)
  /\ UNCHANGED <<own, inventory, net>>
-----------------------------------------------------------------------------
(* ConfirmShipment and CancelShipment *)

(* loadAndAuthorize and the switch on status: a terminal shipment is
   answered at once, whether as a no-op or as a conflict. *)
Settle(q, u, s, op, call) ==
  /\ tx[q].pc = "idle"
  /\ ShipmentExists(s)
  /\ Authorized(u, s)
  /\ shipment[s].status = "PENDING"
  /\ Call(q, call, shipment[s].reservation,
          [Idle EXCEPT !.op = op, !.id = s, !.owner = shipment[s].owner,
                       !.reservation = shipment[s].reservation])
  /\ UNCHANGED <<own, inventory>>

ConfirmShipment(q, u, s) == Settle(q, u, s, "confirm", "commit")
CancelShipment(q, u, s) == Settle(q, u, s, "cancel", "release")

Transition_bug(q, to, reason) ==
  /\ shipment' = [shipment EXCEPT ![tx[q].id] = Row(q, to)]
  /\ history' = [history EXCEPT ![tx[q].id] =
                   IF ShipmentExists(tx[q].id) THEN @ ELSE <<>>]
(* repository.Transition: Save and the history row, in a transaction.  Save
   writes the whole row the handler has in memory, whatever the row is by
   now, and inserts it when there is none. *)
Transition(q, to, reason) ==
  /\ shipment' = [shipment EXCEPT ![tx[q].id] = Row(q, to)]
  /\ history' = [history EXCEPT ![tx[q].id] =
                   Append(@, Entry("PENDING", to, reason))]

ConfirmOutcome_bug(code) ==
  CASE code = "RESERVATION_EXPIRED" -> Entry("PENDING", "CANCELLED", "reservation_expired")
    [] OTHER -> Entry("PENDING", "CONFIRMED", "none")
ConfirmOutcome_hasty_bug(code) ==   \* no answer is taken for an expiry
  CASE code = "ok" -> Entry("PENDING", "CONFIRMED", "none")
    [] code \in {"RESERVATION_EXPIRED", "DEPENDENCY_UNAVAILABLE"} ->
         Entry("PENDING", "CANCELLED", "reservation_expired")
    [] OTHER -> Entry("PENDING", "PENDING", "none")
(* Where an answer to commit takes the shipment; any error but the expiry
   leaves it PENDING. *)
ConfirmOutcome(code) ==
  CASE code = "ok" -> Entry("PENDING", "CONFIRMED", "none")
    [] code = "RESERVATION_EXPIRED" -> Entry("PENDING", "CANCELLED", "reservation_expired")
    [] OTHER -> Entry("PENDING", "PENDING", "none")

CancelOutcome_bug(code) == Entry("PENDING", "CANCELLED", "user_cancelled")
(* Where an answer to release takes the shipment. *)
CancelOutcome(code) ==
  IF code = "ok" THEN Entry("PENDING", "CANCELLED", "user_cancelled")
                 ELSE Entry("PENDING", "PENDING", "none")

(* The answer is in: the transition is recorded, unless the database fails. *)
RecordOutcome(q) ==
  LET outcome == IF tx[q].op = "confirm" THEN ConfirmOutcome(tx[q].code)
                                         ELSE CancelOutcome(tx[q].code)
  IN  /\ tx[q].pc = "answered"
      /\ tx[q].op \in {"confirm", "cancel"}
      /\ \/ outcome.to # "PENDING" /\ Transition(q, outcome.to, outcome.reason)
         \/ UNCHANGED own
      /\ Return(q)
      /\ UNCHANGED <<inventory, net>>
-----------------------------------------------------------------------------
(* DeleteShipment and PurgeShipments *)

Deletable_bug(s) == ShipmentExists(s)
Deletable(s) == shipment[s].status \in Terminal

(* The status is checked on a row read before the delete. *)
DeleteShipment(q, u, s) ==
  /\ tx[q].pc = "idle"
  /\ ShipmentExists(s)
  /\ Authorized(u, s)
  /\ Deletable(s)
  /\ tx' = [tx EXCEPT ![q] = [Idle EXCEPT !.pc = "delete", !.op = "delete", !.id = s]]
  /\ UNCHANGED <<own, inventory, net>>

RemoveRows(S) ==
  /\ shipment' = [s \in ShipmentIds |->
                    IF s \in S THEN [shipment[s] EXCEPT !.status = "deleted"]
                               ELSE shipment[s]]
  /\ history' = [s \in ShipmentIds |-> IF s \in S THEN <<>> ELSE history[s]]

(* repository.Delete: the history, then the row, by id. *)
DeleteRow(q) ==
  /\ tx[q].pc = "delete"
  /\ RemoveRows({tx[q].id} \cap {s \in ShipmentIds : ShipmentExists(s)}) \/ UNCHANGED own
  /\ Return(q)
  /\ UNCHANGED <<inventory, net>>

(* repository.PurgeTerminalBefore: old are the shipments created before the
   cutoff; every other caller than an operator gets a 403. *)
PurgeShipments(old) ==
  /\ Operators # {}
  /\ RemoveRows({s \in old : shipment[s].status \in Terminal})
  /\ UNCHANGED <<inventory, net, tx>>
-----------------------------------------------------------------------------
(* The replica that runs q dies. *)
Crash(q) ==
  /\ tx[q].pc # "idle"
  /\ Abandon(q)
  /\ Return(q)
  /\ UNCHANGED <<own, inventory>>

Arrive(q) ==
  \E u \in Users :
    \/ CreateShipment(q, u)
    \/ \E s \in ShipmentIds : \/ ConfirmShipment(q, u, s)
                              \/ CancelShipment(q, u, s)
                              \/ DeleteShipment(q, u, s)

Proceed(q) ==
  \/ ReserveFailed(q)
  \/ PersistShipment(q)
  \/ Compensated(q)
  \/ RecordOutcome(q)
  \/ DeleteRow(q)

Execute(m) ==
  \/ ReceiveCommit(m)
  \/ ExecuteReserve(m)
  \/ ExecuteCommit(m)
  \/ ExecuteRelease(m)
  \/ Refuse(m)

Next ==
  \/ \E q \in Requests : Arrive(q) \/ Proceed(q) \/ Timeout(q) \/ Crash(q)
  \/ \E m \in net : Execute(m)
  \/ \E r \in ReservationIds :
       Expire(r) \/ PurgeReservation(r) \/ SettleDirectly(r)
  \/ \E old \in SUBSET ShipmentIds : PurgeShipments(old)

Spec == Init /\ [][Next]_vars
-----------------------------------------------------------------------------
(* Properties *)

(* Every variable has its type. *)
TypeOK ==
  /\ shipment \in [ShipmentIds -> ShipmentRow]
  /\ history \in [ShipmentIds -> Seq(HistoryRow)]
  /\ reservation \in [ReservationIds ->
       {"free", "PENDING", "COMMITTED", "RELEASED", "deleted"}]
  /\ expired \subseteq ReservationIds
  /\ charged \subseteq ReservationIds
  /\ net \subseteq Message
  /\ tx \in [Requests -> Tx]

(* A CONFIRMED shipment has its stock: Inventory has charged its reservation,
   however many confirms, retries, timeouts and crashes it took. *)
ConfirmedWasCharged ==
  \A s \in ShipmentIds :
    shipment[s].status = "CONFIRMED" => shipment[s].reservation \in charged

(* A shipment its user cancelled has never been charged for, and never will:
   CancelShipment has the release acknowledged before it records anything. *)
UserCancelledNeverCharged ==
  \A s \in ShipmentIds :
    /\ shipment[s].status = "CANCELLED"
    /\ Last(history[s]).reason = "user_cancelled"
    => reservation[shipment[s].reservation] \in {"RELEASED", "deleted"}
         /\ shipment[s].reservation \notin charged

(* A CANCELLED shipment is not charged for, whatever the reason: on expiry
   ConfirmShipment takes the stock for freed and just cancels. *)
CancelledNeverCharged ==
  \A s \in ShipmentIds :
    shipment[s].status = "CANCELLED" => shipment[s].reservation \notin charged

(* Stock is never charged for a reservation no shipment was recorded for:
   CreateShipment compensates, and only recorded shipments are confirmed. *)
ChargedIsRecorded ==
  \A r \in charged : Recorded(r)

(* A PENDING shipment is never deleted, though the delete acts on a status
   read earlier (DeleteShipment, PurgeTerminalBefore). *)
PendingNeverDeleted ==
  [][\A s \in ShipmentIds :
       shipment[s].status = "PENDING" => ShipmentExists(s)']_vars

(* The last history row tells the shipment's status, and there is history
   exactly for the shipments there are. *)
HistoryTellsStatus ==
  \A s \in ShipmentIds :
    IF ShipmentExists(s)
      THEN history[s] # <<>> /\ Last(history[s]).to = shipment[s].status
      ELSE history[s] = <<>>

(* Inventory has received a commit of r in time, and not executed it yet. *)
Vouched ==
  {r \in ReservationIds :
     \E m \in net : m.op = "commit" /\ m.id = r /\ m.inTime = "yes"}

(* Shipments move as their owners are told, with the reservation they were
   recorded for: whatever calls, timeouts, retries and crashes do, a shipment
   is recorded on stock held for it alone, confirmed only once that is charged,
   cancelled only once it is freed or has expired, and keeps its owner. *)
Saga ==
  INSTANCE Saga WITH ReservationIds <- ReservationIds, ShipmentIds <- ShipmentIds,
    status <- reservation, expired <- expired, vouched <- Vouched,
    row <- shipment, charged <- charged
FollowsSaga == Saga!SagaSpec

(* What DeleteShipment and the 502s of confirm and cancel rely on: a PENDING
   shipment has a reservation that can still be committed or released. *)
PendingHasReservation ==
  \A s \in ShipmentIds :
    shipment[s].status = "PENDING" =>
      reservation[shipment[s].reservation] # "deleted"
=============================================================================

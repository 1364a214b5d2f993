------------------------- MODULE ShipmentSagaProofs -------------------------
(***************************************************************************)
(* Shipment implements Saga: with its calls under way, given up, lost or   *)
(* answered late, each shipment and its reservation move as if every step  *)
(* were one instant on both sides.                                         *)
(***************************************************************************)
EXTENDS ShipmentProofs

(* q has the answer to its reserve and has recorded nothing yet. *)
Holds(q, r) ==
  /\ tx[q].op = "create"
  /\ tx[q].pc = "answered"
  /\ tx[q].code = "ok"
  /\ tx[q].reservation = r

(* Others know of r: a shipment was recorded with it, or a call names it. *)
Sent(r) == \E m \in net : m.op # "reserve" /\ m.id = r
Known(r) == Recorded(r) \/ Sent(r)

(* A new hold is known to its handler alone, and only expiry can undo it. *)
HoldInv ==
  \A q \in Requests, r \in ReservationIds : Holds(q, r) =>
    /\ ~Known(r)
    /\ reservation[r] = "PENDING" \/ r \in expired
    /\ \A o \in Requests : Holds(o, r) => o = q

(* Save will write the owner that is there already. *)
OwnerRead(q) ==
  tx[q].op \in {"confirm", "cancel"} => tx[q].owner = shipment[tx[q].id].owner

(* A commit is told that it is too late for expired reservations only. *)
ExpiryRead(q) ==
  tx[q].op = "confirm" /\ tx[q].pc = "answered" /\ tx[q].code = "RESERVATION_EXPIRED"
    => tx[q].reservation \in expired

LateInv ==
  \A m \in net : m.op = "commit" /\ m.inTime = "no" => m.id \in expired

SagaInv ==
  /\ Inv
  /\ HoldInv
  /\ LateInv
  /\ \A q \in Requests : OwnerRead(q) /\ ExpiryRead(q)

LEMMA SagaInvInit == Init => SagaInv
<1> SUFFICES ASSUME Init PROVE SagaInv
  OBVIOUS
<1>1. \A q \in Requests : tx[q] = Idle
  BY DEF Init
<1>2. HoldInv /\ \A q \in Requests : OwnerRead(q) /\ ExpiryRead(q)
  BY <1>1 DEF HoldInv, Holds, OwnerRead, ExpiryRead, Idle
<1> QED
  BY <1>2, InvInit DEF SagaInv, LateInv, Init

LEMMA SagaInitHolds == Init => Saga!SagaInit
BY DEF Init, Saga!SagaInit, Saga!ContractInit, Vouched, FreeRow
-----------------------------------------------------------------------------
(* What a step does to the rest *)

Follows ==
  /\ HoldInv' /\ LateInv'
  /\ \A q \in Requests : OwnerRead(q)' /\ ExpiryRead(q)'
  /\ Saga!SagaNext

(* What a handler is about now leaves the invariant alone. *)
Fine(q) ==
  /\ \A r \in ReservationIds : ~Holds(q, r)
  /\ OwnerRead(q)
  /\ ExpiryRead(q)

(* Each commit in flight that has been received was in flight before. *)
Echoed ==
  \A m \in net' : \/ m.inTime = "unread"
                  \/ \E n \in net : n.op = m.op /\ n.id = m.id /\ n.inTime = m.inTime

LEMMA EchoedVouched ==
  ASSUME Echoed
  PROVE  Vouched' \subseteq Vouched
BY DEF Echoed, Vouched

LEMMA EchoedLate ==
  ASSUME SagaInv, Echoed, expired \subseteq expired'
  PROVE  LateInv'
BY DEF SagaInv, LateInv, Echoed

LEMMA SagaKeeps ==
  ASSUME SagaInv, expired \subseteq expired',
         \A s \in ShipmentIds : shipment[s].status # "free" =>
           shipment'[s].owner = shipment[s].owner,
         \A o \in Requests : tx'[o] = tx[o] \/ Fine(o)',
         \A o \in Requests, r \in ReservationIds : Holds(o, r) /\ Holds(o, r)' =>
           /\ Known(r)' => Known(r)
           /\ reservation'[r] = reservation[r] \/ r \in expired'
  PROVE  HoldInv' /\ \A q \in Requests : OwnerRead(q)' /\ ExpiryRead(q)'
<1>1. \A o \in Requests, r \in ReservationIds : Holds(o, r)' => Holds(o, r)
  BY DEF Fine, Holds
<1>2. HoldInv'
  <2> SUFFICES ASSUME NEW q \in Requests, NEW r \in ReservationIds, Holds(q, r)'
               PROVE  /\ ~Known(r)'
                      /\ reservation'[r] = "PENDING" \/ r \in expired'
                      /\ \A o \in Requests : Holds(o, r)' => o = q
    BY DEF HoldInv
  <2> QED
    BY <1>1 DEF SagaInv, HoldInv
<1>3. ASSUME NEW q \in Requests PROVE OwnerRead(q)' /\ ExpiryRead(q)'
  <2>1. CASE Fine(q)'
    BY <2>1 DEF Fine
  <2>2. CASE tx'[q] = tx[q]
    <3>1. tx[q].op \in {"confirm", "cancel"} =>
            tx[q].id \in ShipmentIds /\ shipment[tx[q].id].status # "free"
      BY DEF SagaInv, Inv, HandlerInv
    <3> QED
      BY <2>2, <3>1 DEF SagaInv, OwnerRead, ExpiryRead
  <2> QED
    BY <2>1, <2>2
<1> QED
  BY <1>2, <1>3

(* Only one handler moves. *)
LEMMA OneMoves ==
  ASSUME Inv, NEW q \in Requests, NEW t, tx' = [tx EXCEPT ![q] = t]
  PROVE  tx'[q] = t /\ \A o \in Requests \ {q} : tx'[o] = tx[o]
BY DEF Inv, TypeOK

LEMMA ReturnFine ==
  ASSUME Inv, NEW q \in Requests, Return(q)
  PROVE  Fine(q)' /\ \A o \in Requests \ {q} : tx'[o] = tx[o]
<1>1. tx'[q] = Idle /\ \A o \in Requests \ {q} : tx'[o] = tx[o]
  BY OneMoves DEF Return
<1> QED
  BY <1>1 DEF Fine, Holds, OwnerRead, ExpiryRead, Idle

(* Inventory may end commits that have no effect, or do nothing. *)
LEMMA QuietSaga ==
  ASSUME UNCHANGED <<shipment, reservation, expired, charged>>, Vouched' \subseteq Vouched
  PROVE  Saga!SagaNext
<1>1. {r \in ReservationIds : reservation[r] = "PENDING" /\ reservation'[r] = "COMMITTED"} = {}
  OBVIOUS
<1>2. Saga!Withdraw
  BY DEF Saga!Withdraw
<1>3. Saga!Inventory
  BY <1>1, <1>2 DEF Saga!Inventory, Saga!ContractNext
<1> QED
  BY <1>3 DEF Saga!SagaNext

(* A step that is between the handlers and the net only. *)
LEMMA TalkFollows ==
  ASSUME SagaInv, UNCHANGED <<own, inventory>>,
         \A o \in Requests : tx'[o] = tx[o] \/ Fine(o)',
         Echoed, \A r \in ReservationIds : Sent(r)' => Known(r)
  PROVE  Follows
<1>1. UNCHANGED <<shipment, reservation, expired, charged>>
  BY DEF own, inventory
<1>2. \A r \in ReservationIds : Known(r)' => Known(r)
  BY <1>1 DEF Known, Recorded
<1>3. HoldInv' /\ \A q \in Requests : OwnerRead(q)' /\ ExpiryRead(q)'
  BY <1>1, <1>2, SagaKeeps
<1>4. LateInv'
  BY <1>1, EchoedLate
<1>5. Saga!SagaNext
  BY <1>1, EchoedVouched, QuietSaga
<1> QED
  BY <1>3, <1>4, <1>5 DEF Follows
-----------------------------------------------------------------------------
(* The handlers *)

(* A call sent is of its handler, which waits. *)
LEMMA CallFine ==
  ASSUME SagaInv, UNCHANGED shipment, NEW q \in Requests, NEW op, NEW r \in ReservationIds \cup {NoId},
         NEW local \in Tx, Call(q, op, r, local),
         local.op \in {"confirm", "cancel"} => local.owner = shipment[local.id].owner
  PROVE  /\ \A o \in Requests : tx'[o] = tx[o] \/ Fine(o)'
         /\ ~\E i \in ReservationIds : Holds(q, i)'
         /\ Echoed
         /\ \A i \in ReservationIds : Sent(i)' => Sent(i) \/ (op # "reserve" /\ i = r)
<1>1. /\ tx'[q] = [local EXCEPT !.pc = "waiting"]
      /\ \A o \in Requests \ {q} : tx'[o] = tx[o]
  BY OneMoves DEF Call, SagaInv
<1>2. /\ tx'[q].pc = "waiting" /\ tx'[q].op = local.op /\ tx'[q].id = local.id
      /\ tx'[q].owner = local.owner
  BY <1>1 DEF Tx
<1>3. Fine(q)'
  BY <1>2 DEF Fine, Holds, OwnerRead, ExpiryRead
<1>4. Echoed /\ \A i \in ReservationIds : Sent(i)' => Sent(i) \/ (op # "reserve" /\ i = r)
  BY DEF Call, Echoed, Sent
<1> QED
  BY <1>1, <1>3, <1>4 DEF Fine

LEMMA CreateShipmentFollows ==
  ASSUME SagaInv, NEW q \in Requests, NEW u \in Users, CreateShipment(q, u)
  PROVE  Follows
<1>1. PICK s \in ShipmentIds :
        Call(q, "reserve", NoId, [Idle EXCEPT !.op = "create", !.id = s, !.owner = u])
  BY DEF CreateShipment
<1> DEFINE local == [Idle EXCEPT !.op = "create", !.id = s, !.owner = u]
<1>2. Call(q, "reserve", NoId, local) /\ local \in Tx /\ local.op = "create"
  BY <1>1 DEF Idle, Tx, Codes
<1>3. UNCHANGED <<own, inventory, shipment>>
  BY DEF CreateShipment, own
<1> HIDE DEF local
<1>4. /\ \A o \in Requests : tx'[o] = tx[o] \/ Fine(o)'
      /\ Echoed /\ \A i \in ReservationIds : Sent(i)' => Sent(i)
  BY <1>2, <1>3, CallFine
<1> QED
  BY <1>3, <1>4, TalkFollows DEF Known

(* What confirm and cancel call Inventory for is recorded. *)
LEMMA SettleFollows ==
  ASSUME SagaInv, NEW q \in Requests, NEW u \in Users, NEW s \in ShipmentIds,
         NEW op \in {"confirm", "cancel"}, NEW call \in {"commit", "release"},
         Settle(q, u, s, op, call)
  PROVE  Follows
<1> DEFINE local == [Idle EXCEPT !.op = op, !.id = s, !.owner = shipment[s].owner,
                                 !.reservation = shipment[s].reservation]
<1>1. /\ Call(q, call, shipment[s].reservation, local)
      /\ UNCHANGED <<own, inventory, shipment>>
      /\ shipment[s].status = "PENDING"
  BY DEF Settle, own
<1>2. shipment[s].owner \in Users /\ shipment[s].reservation \in ReservationIds
  BY <1>1, RowFields DEF SagaInv, Inv, TypeOK
<1>3. /\ local \in Tx /\ local.op = op /\ local.id = s
      /\ local.owner = shipment[s].owner
  BY <1>2 DEF Idle, Tx, Codes
<1>4. Recorded(shipment[s].reservation)
  BY <1>1 DEF Recorded
<1> HIDE DEF local
<1>5. /\ \A o \in Requests : tx'[o] = tx[o] \/ Fine(o)'
      /\ Echoed
      /\ \A i \in ReservationIds : Sent(i)' => Sent(i) \/ i = shipment[s].reservation
  BY <1>1, <1>2, <1>3, CallFine
<1> QED
  BY <1>1, <1>4, <1>5, TalkFollows DEF Known

LEMMA DeleteShipmentFollows ==
  ASSUME SagaInv, NEW q \in Requests, NEW u \in Users, NEW s \in ShipmentIds,
         DeleteShipment(q, u, s)
  PROVE  Follows
<1>1. /\ tx'[q] = [Idle EXCEPT !.pc = "delete", !.op = "delete", !.id = s]
      /\ \A o \in Requests \ {q} : tx'[o] = tx[o]
  BY OneMoves DEF DeleteShipment, SagaInv
<1>2. Fine(q)'
  BY <1>1 DEF Fine, Holds, OwnerRead, ExpiryRead, Idle
<1>3. Echoed /\ \A i \in ReservationIds : Sent(i)' => Sent(i)
  BY DEF DeleteShipment, Echoed, Sent
<1> QED
  BY <1>1, <1>2, <1>3, TalkFollows DEF DeleteShipment, Known

(* A handler that is done with its shipment and has nothing to record. *)
LEMMA GiveUpFollows ==
  ASSUME SagaInv, NEW q \in Requests, Return(q), UNCHANGED <<own, inventory, net>>
  PROVE  Follows
<1>1. Echoed /\ \A i \in ReservationIds : Sent(i)' => Sent(i)
  BY DEF Echoed, Sent
<1> QED
  BY <1>1, ReturnFine, TalkFollows DEF Known, SagaInv

LEMMA AbandonEchoed ==
  ASSUME Inv, NEW q \in Requests, Abandon(q)
  PROVE  Echoed /\ \A i \in ReservationIds : Sent(i)' => Sent(i)
<1>1. ASSUME NEW m \in net'
      PROVE  \E n \in net : n.op = m.op /\ n.id = m.id /\ n.inTime = m.inTime
  <2>1. PICK n \in net : m = IF n.from = q THEN [n EXCEPT !.from = Nobody] ELSE n
    BY DEF Abandon
  <2>2. n \in Message
    BY DEF Inv, TypeOK
  <2> QED
    BY <2>1, <2>2 DEF Message
<1> QED
  BY <1>1 DEF Echoed, Sent

LEMMA TimeoutFollows ==
  ASSUME SagaInv, NEW q \in Requests, Timeout(q)
  PROVE  Follows
<1> DEFINE t == [tx[q] EXCEPT !.pc = "answered", !.code = "DEPENDENCY_UNAVAILABLE"]
<1>1. tx' = [tx EXCEPT ![q] = t]
  BY DEF Timeout
<1>2. /\ t.code = "DEPENDENCY_UNAVAILABLE" /\ t.op = tx[q].op /\ t.id = tx[q].id
      /\ t.owner = tx[q].owner
  BY DEF SagaInv, Inv, TypeOK, Tx
<1> HIDE DEF t
<1>3. tx'[q] = t /\ \A o \in Requests \ {q} : tx'[o] = tx[o]
  BY <1>1, OneMoves DEF SagaInv
<1>4. UNCHANGED <<own, inventory, shipment>>
  BY DEF Timeout, own
<1>5. Fine(q)'
  BY <1>2, <1>3, <1>4 DEF Fine, Holds, OwnerRead, ExpiryRead, SagaInv
<1> QED
  BY <1>3, <1>4, <1>5, AbandonEchoed, TalkFollows DEF Timeout, Known, SagaInv

LEMMA CrashFollows ==
  ASSUME SagaInv, NEW q \in Requests, Crash(q)
  PROVE  Follows
BY AbandonEchoed, ReturnFine, TalkFollows DEF Crash, Known, SagaInv
-----------------------------------------------------------------------------
(* The rows the handlers write *)

(* No row gets a reservation that others know, or loses its owner. *)
LEMMA WriteFollows ==
  ASSUME SagaInv, UNCHANGED <<inventory, net>>,
         \A s \in ShipmentIds : shipment[s].status # "free" =>
           shipment'[s].owner = shipment[s].owner,
         \A o \in Requests : tx'[o] = tx[o] \/ Fine(o)',
         \A o \in Requests, r \in ReservationIds : Holds(o, r) /\ Holds(o, r)' =>
           (Recorded(r)' => Recorded(r)),
         Saga!SagaNext
  PROVE  Follows
<1>1. UNCHANGED <<reservation, expired, charged>> /\ Echoed
  BY DEF inventory, Echoed
<1>2. \A r \in ReservationIds : Sent(r)' <=> Sent(r)
  BY DEF Sent
<1>3. HoldInv' /\ \A q \in Requests : OwnerRead(q)' /\ ExpiryRead(q)'
  BY <1>1, <1>2, SagaKeeps DEF Known
<1>4. LateInv'
  BY <1>1, EchoedLate
<1> QED
  BY <1>3, <1>4 DEF Follows

(* The hold of a create becomes the reservation of its shipment. *)
LEMMA StoreIsRecord ==
  ASSUME SagaInv, NEW q \in Requests, tx[q].op = "create", tx[q].pc = "answered",
         tx[q].code = "ok", Store(q), UNCHANGED inventory, Vouched' = Vouched
  PROVE  /\ Saga!SagaNext
         /\ tx[q].reservation \in ReservationIds /\ Holds(q, tx[q].reservation)
         /\ \A r \in ReservationIds : Recorded(r)' => Recorded(r) \/ r = tx[q].reservation
         /\ \A s \in ShipmentIds : shipment[s].status # "free" => shipment'[s] = shipment[s]
<1>1. PICK s \in ShipmentIds, r \in ReservationIds :
        s = tx[q].id /\ r = tx[q].reservation
  BY DEF SagaInv, Inv, HandlerInv
<1>2. /\ shipment[s].status = "free" /\ reservation[r] # "free" /\ Holds(q, r)
      /\ tx[q].owner \in Users
  BY <1>1 DEF SagaInv, Inv, HandlerInv, Holds
<1>3. /\ shipment' = [shipment EXCEPT ![s] = shipment'[s]]
      /\ shipment'[s].status = "PENDING" /\ shipment'[s].reservation = r
      /\ \A o \in ShipmentIds \ {s} : shipment'[o] = shipment[o]
  <2>1. shipment' = [shipment EXCEPT ![s] = Row(q, "PENDING")] /\ shipment'[s] = Row(q, "PENDING")
    BY <1>1 DEF Store, SagaInv, Inv, TypeOK
  <2>2. Row(q, "PENDING").status = "PENDING" /\ Row(q, "PENDING").reservation = r
    BY <1>1 DEF Row
  <2> QED
    BY <2>1, <2>2 DEF SagaInv, Inv, TypeOK
<1>4. /\ ~Recorded(r)
      /\ reservation[r] = "PENDING" \/ r \in expired
  BY <1>2 DEF SagaInv, HoldInv, Known
<1>5. r \notin charged
  BY <1>4 DEF SagaInv, Inv, ChargedIsRecorded
<1>6. UNCHANGED <<reservation, expired, charged>>
  BY DEF inventory
<1>7. Saga!Record(s)
  BY <1>2, <1>3, <1>4, <1>5, <1>6
     DEF Saga!Record, Saga!Made, Saga!contract, Recorded
<1>8. \A i \in ReservationIds : Recorded(i)' => Recorded(i) \/ i = r
  BY <1>3 DEF Recorded
<1> QED
  BY <1>1, <1>2, <1>3, <1>7, <1>8 DEF Saga!SagaNext

LEMMA PersistShipmentFollows ==
  ASSUME SagaInv, NEW q \in Requests, PersistShipment(q)
  PROVE  Follows
<1>1. /\ tx[q].pc = "answered" /\ tx[q].op = "create" /\ tx[q].code = "ok"
      /\ UNCHANGED inventory
  BY DEF PersistShipment, Succeeded
<1>2. tx[q].reservation \in ReservationIds /\ Holds(q, tx[q].reservation)
  BY <1>1 DEF SagaInv, Inv, HandlerInv, Holds
<1>3. CASE Store(q) /\ Return(q) /\ UNCHANGED net
  <2>1. Vouched' = Vouched
    BY <1>3 DEF Vouched
  <2>2. /\ \A o \in Requests : tx'[o] = tx[o] \/ Fine(o)'
        /\ \A r \in ReservationIds : ~Holds(q, r)'
    BY <1>3, ReturnFine DEF SagaInv, Fine
  <2>3. \A o \in Requests, r \in ReservationIds : Holds(o, r) /\ Holds(o, r)' =>
          (Recorded(r)' => Recorded(r))
    BY <1>1, <1>2, <1>3, <2>1, <2>2, StoreIsRecord DEF SagaInv, HoldInv
  <2> QED
    BY <1>1, <1>3, <2>1, <2>2, <2>3, StoreIsRecord, WriteFollows
<1>4. CASE /\ Store(q) \/ UNCHANGED own
           /\ Call(q, Compensation, tx[q].reservation, [Idle EXCEPT !.op = "compensate"])
  <2>1. /\ tx'[q] = [[Idle EXCEPT !.op = "compensate"] EXCEPT !.pc = "waiting"]
        /\ \A o \in Requests \ {q} : tx'[o] = tx[o]
    BY <1>4, OneMoves DEF Call, SagaInv
  <2>2. Fine(q)' /\ \A r \in ReservationIds : ~Holds(q, r)'
    BY <2>1 DEF Fine, Holds, OwnerRead, ExpiryRead, Idle
  <2>3. /\ Echoed /\ Vouched' = Vouched
        /\ \A i \in ReservationIds : Sent(i)' => Sent(i) \/ i = tx[q].reservation
    BY <1>4 DEF Call, Echoed, Sent, Vouched
  <2>4. UNCHANGED <<reservation, expired, charged>>
    BY <1>1 DEF inventory
  <2>5. /\ Saga!SagaNext
        /\ \A r \in ReservationIds : Recorded(r)' => Recorded(r) \/ r = tx[q].reservation
        /\ \A s \in ShipmentIds : shipment[s].status # "free" =>
             shipment'[s].owner = shipment[s].owner
    <3>1. CASE Store(q)
      BY <1>1, <2>3, <3>1, StoreIsRecord
    <3>2. CASE UNCHANGED own
      BY <2>3, <2>4, <3>2, QuietSaga DEF own, Recorded
    <3> QED
      BY <1>4, <3>1, <3>2
  <2>6. \A o \in Requests, r \in ReservationIds : Holds(o, r) /\ Holds(o, r)' =>
          r # tx[q].reservation
    BY <1>2, <2>2 DEF SagaInv, HoldInv
  <2>7. HoldInv' /\ \A o \in Requests : OwnerRead(o)' /\ ExpiryRead(o)'
    BY <2>1, <2>2, <2>3, <2>4, <2>5, <2>6, SagaKeeps DEF Known
  <2>8. LateInv'
    BY <2>3, <2>4, EchoedLate
  <2> QED
    BY <2>5, <2>7, <2>8 DEF Follows
<1> QED
  BY <1>3, <1>4 DEF PersistShipment

(* The row that Save writes is the one that is there, but for its status. *)
LEMMA TransitionIsEnd ==
  ASSUME SagaInv, NEW q \in Requests, tx[q].op \in {"confirm", "cancel"},
         NEW to \in Stored, NEW reason, Transition(q, to, reason)
  PROVE  /\ tx[q].id \in ShipmentIds /\ shipment[tx[q].id].status # "free"
         /\ tx[q].reservation = shipment[tx[q].id].reservation
         /\ shipment' = [shipment EXCEPT ![tx[q].id].status = to]
<1>1. PICK s \in ShipmentIds : s = tx[q].id
  BY DEF SagaInv, Inv, HandlerInv
<1>2. /\ shipment[s].status # "free"
      /\ tx[q].reservation = shipment[s].reservation
      /\ tx[q].owner = shipment[s].owner
  BY <1>1 DEF SagaInv, Inv, HandlerInv, OwnerRead
<1>3. shipment[s] \in [status: Stored \cup {"deleted"}, owner: Users,
                       reservation: ReservationIds]
  BY <1>2 DEF SagaInv, Inv, TypeOK, ShipmentRow, FreeRow
<1>4. Row(q, to) = [shipment[s] EXCEPT !.status = to]
  BY <1>2, <1>3 DEF Row
<1> QED
  BY <1>1, <1>2, <1>4 DEF Transition

LEMMA RecordOutcomeFollows ==
  ASSUME SagaInv, NEW q \in Requests, RecordOutcome(q)
  PROVE  Follows
<1>1. /\ tx[q].pc = "answered" /\ tx[q].op \in {"confirm", "cancel"}
      /\ Return(q) /\ UNCHANGED <<inventory, net>>
  BY DEF RecordOutcome
<1>2. CASE UNCHANGED own
  BY <1>1, <1>2, GiveUpFollows
<1>3. ASSUME NEW to \in Stored, NEW reason, Transition(q, to, reason),
             \/ tx[q].op = "confirm" /\ tx[q].code = "ok" /\ to = "CONFIRMED"
             \/ tx[q].op = "confirm" /\ tx[q].code = "RESERVATION_EXPIRED" /\ to = "CANCELLED"
             \/ tx[q].op = "cancel" /\ tx[q].code = "ok" /\ to = "CANCELLED"
      PROVE  Follows
  <2>1. PICK s \in ShipmentIds : s = tx[q].id
    BY <1>1, <1>3, TransitionIsEnd
  <2>2. /\ shipment[s].status # "free" /\ tx[q].reservation = shipment[s].reservation
        /\ shipment' = [shipment EXCEPT ![s].status = to]
    BY <1>1, <1>3, <2>1, TransitionIsEnd
  <2>3. UNCHANGED <<reservation, expired, charged>> /\ Vouched' = Vouched
    BY <1>1 DEF inventory, Vouched
  <2>4. Saga!End(s, to)
    BY <2>2, <2>3 DEF Saga!End, Saga!contract
  <2>5. ASSUME tx[q].op = "confirm", tx[q].code = "ok", to = "CONFIRMED"
        PROVE  Saga!SagaNext
    <3>1. shipment[s].reservation \in charged
      BY <1>1, <2>2, <2>5 DEF SagaInv, Inv, HandlerInv
    <3>2. Saga!Confirm(s)
      BY <2>4, <2>5, <3>1 DEF Saga!Confirm
    <3> QED
      BY <3>2 DEF Saga!SagaNext
  <2>6. ASSUME tx[q].op = "confirm", tx[q].code = "RESERVATION_EXPIRED", to = "CANCELLED"
        PROVE  Saga!SagaNext
    <3>1. shipment[s].reservation \in expired
      BY <1>1, <2>2, <2>6 DEF SagaInv, ExpiryRead
    <3>2. Saga!CancelExpired(s)
      BY <2>4, <2>6, <3>1 DEF Saga!CancelExpired
    <3> QED
      BY <3>2 DEF Saga!SagaNext
  <2>7. ASSUME tx[q].op = "cancel", tx[q].code = "ok", to = "CANCELLED"
        PROVE  Saga!SagaNext
    <3>1. NeverCharged(shipment[s].reservation)
      BY <1>1, <2>2, <2>7 DEF SagaInv, Inv, HandlerInv
    <3>2. Saga!Cancel(s)
      BY <2>4, <2>7, <3>1 DEF Saga!Cancel, NeverCharged
    <3> QED
      BY <3>2 DEF Saga!SagaNext
  <2>8. \A o \in ShipmentIds : /\ shipment'[o].reservation = shipment[o].reservation
                               /\ shipment'[o].owner = shipment[o].owner
                               /\ shipment[o].status = "free" => shipment'[o].status = "free"
    <3>1. shipment[s].status # "free" /\ shipment[s] \in ShipmentRow
      BY <2>2 DEF SagaInv, Inv, TypeOK
    <3> QED
      BY <2>2, <3>1 DEF SagaInv, Inv, TypeOK, ShipmentRow, FreeRow
  <2>9. \A r \in ReservationIds : Recorded(r)' => Recorded(r)
    BY <2>8 DEF Recorded
  <2>10. \A o \in Requests : tx'[o] = tx[o] \/ Fine(o)'
    BY <1>1, ReturnFine DEF SagaInv
  <2> QED
    BY <1>1, <1>3, <2>5, <2>6, <2>7, <2>8, <2>9, <2>10, WriteFollows
<1> QED
  BY <1>1, <1>2, <1>3 DEF RecordOutcome, ConfirmOutcome, CancelOutcome, Entry, Stored, Terminal

LEMMA RemoveIsDelete ==
  ASSUME SagaInv, NEW S \in SUBSET ShipmentIds, RemoveRows(S),
         \A s \in S : shipment[s].status \in Terminal,
         UNCHANGED <<inventory, net>>, \A o \in Requests : tx'[o] = tx[o] \/ Fine(o)'
  PROVE  Follows
<1>1. \A s \in ShipmentIds : shipment[s].status \in Terminal => shipment[s] # FreeRow
  BY DEF FreeRow, Terminal
<1>2. \A s \in ShipmentIds : shipment[s].status \in Terminal =>
        /\ shipment[s].owner = [shipment[s] EXCEPT !.status = "deleted"].owner
        /\ shipment[s].reservation = [shipment[s] EXCEPT !.status = "deleted"].reservation
  BY <1>1 DEF SagaInv, Inv, TypeOK, ShipmentRow
<1>3. \A s \in ShipmentIds :
        /\ shipment[s].status # "free" => /\ shipment'[s].owner = shipment[s].owner
                                          /\ shipment'[s].reservation = shipment[s].reservation
        /\ shipment[s].status = "free" => shipment'[s] = shipment[s]
  BY <1>2 DEF RemoveRows, Terminal
<1>4. \A r \in ReservationIds : Recorded(r)' => Recorded(r)
  BY <1>3 DEF Recorded
<1>5. UNCHANGED <<reservation, expired, charged>> /\ Vouched' = Vouched
  BY DEF inventory, Vouched
<1>6. Saga!Delete(S)
  BY <1>5 DEF Saga!Delete, Saga!contract, RemoveRows, Terminal
<1>7. Saga!SagaNext
  BY <1>6 DEF Saga!SagaNext
<1> QED
  BY <1>3, <1>4, <1>7, WriteFollows

LEMMA DeleteRowFollows ==
  ASSUME SagaInv, NEW q \in Requests, DeleteRow(q)
  PROVE  Follows
<1>1. Return(q) /\ UNCHANGED <<inventory, net>>
  BY DEF DeleteRow
<1>2. CASE UNCHANGED own
  BY <1>1, <1>2, GiveUpFollows
<1>3. CASE RemoveRows({tx[q].id} \cap {s \in ShipmentIds : ShipmentExists(s)})
  <2>1. PICK S \in SUBSET ShipmentIds :
          S = {tx[q].id} \cap {s \in ShipmentIds : ShipmentExists(s)}
    OBVIOUS
  <2>2. \A s \in S : shipment[s].status \in Terminal
    BY <2>1 DEF DeleteRow, SagaInv, Inv, HandlerInv, Done, ShipmentExists, Stored, Terminal
  <2>3. \A o \in Requests : tx'[o] = tx[o] \/ Fine(o)'
    BY <1>1, ReturnFine DEF SagaInv
  <2> QED
    BY <1>1, <1>3, <2>1, <2>2, <2>3, RemoveIsDelete
<1> QED
  BY <1>2, <1>3 DEF DeleteRow

LEMMA PurgeShipmentsFollows ==
  ASSUME SagaInv, NEW old \in SUBSET ShipmentIds, PurgeShipments(old)
  PROVE  Follows
<1>1. PICK S \in SUBSET ShipmentIds : S = {s \in old : shipment[s].status \in Terminal}
  OBVIOUS
<1> QED
  BY <1>1, RemoveIsDelete DEF PurgeShipments
-----------------------------------------------------------------------------
(* Inventory *)

(* What a handler is told: of its hold only by ExecuteReserve, and that its
   reservation has expired only when it has. *)
LEMMA RespondFine ==
  ASSUME SagaInv, UNCHANGED <<shipment, expired>>, NEW m \in net, NEW code \in Codes,
         Respond(m, code),
         m.op = "reserve" => code # "ok",
         m.op = "commit" /\ code = "RESERVATION_EXPIRED" => m.id \in expired
  PROVE  /\ \A o \in Requests : tx'[o] = tx[o] \/ Fine(o)'
         /\ Echoed
         /\ \A r \in ReservationIds : Sent(r)' => Sent(r)
<1>1. Echoed /\ \A r \in ReservationIds : Sent(r)' => Sent(r)
  BY DEF Respond, Echoed, Sent
<1>2. CASE m.from = Nobody
  BY <1>1, <1>2 DEF Respond
<1>3. CASE m.from # Nobody
  <2>1. PICK q \in Requests : q = m.from
    BY <1>3, MessageFields DEF SagaInv, Inv, TypeOK
  <2>2. PICK seen \in {code, "DEPENDENCY_UNAVAILABLE"} :
          tx' = [tx EXCEPT ![q].pc = "answered", ![q].code = seen]
    BY <1>3, <2>1 DEF Respond
  <2> DEFINE t == [tx[q] EXCEPT !.pc = "answered", !.code = seen]
  <2>3. tx' = [tx EXCEPT ![q] = t]
    BY <2>2
  <2>4. /\ t.code = seen /\ t.op = tx[q].op /\ t.id = tx[q].id
        /\ t.owner = tx[q].owner /\ t.reservation = tx[q].reservation
    BY DEF SagaInv, Inv, TypeOK, Tx
  <2> HIDE DEF t
  <2>5. tx'[q] = t /\ \A o \in Requests \ {q} : tx'[o] = tx[o]
    BY <2>3, OneMoves DEF SagaInv
  <2>6. /\ t.op = "create" => m.op = "reserve"
        /\ t.op = "confirm" => m.op = "commit" /\ t.reservation = m.id
    BY <1>3, <2>1, <2>4, MessageFields
       DEF SagaInv, Inv, TypeOK, MessageInv, Awaited
  <2>7. /\ \A r \in ReservationIds : ~Holds(q, r)'
        /\ ExpiryRead(q)'
    BY <2>2, <2>4, <2>5, <2>6 DEF Holds, ExpiryRead
  <2>8. OwnerRead(q)'
    BY <2>4, <2>5 DEF SagaInv, OwnerRead
  <2> QED
    BY <1>1, <2>5, <2>7, <2>8 DEF Fine
<1> QED
  BY <1>2, <1>3

LEMMA ReceiveCommitFollows ==
  ASSUME SagaInv, NEW m \in net, ReceiveCommit(m)
  PROVE  Follows
<1>1. PICK r \in ReservationIds : r = m.id
  BY DEF ReceiveCommit, SagaInv, Inv, MessageInv
<1>2. /\ m.op = "commit" /\ reservation[r] # "free"
      /\ UNCHANGED <<shipment, reservation, expired, charged, tx>>
  BY <1>1 DEF ReceiveCommit, SagaInv, Inv, MessageInv, own, inventory
<1>3. PICK n : /\ n.op = "commit" /\ n.id = r
               /\ n.inTime = IF r \in expired THEN "no" ELSE "yes"
               /\ net' = (net \ {m}) \cup {n}
  <2> DEFINE n == [m EXCEPT !.inTime = IF m.id \in expired THEN "no" ELSE "yes"]
  <2>1. n.op = m.op /\ n.id = m.id /\ n.inTime = IF m.id \in expired THEN "no" ELSE "yes"
    BY DEF SagaInv, Inv, TypeOK, Message
  <2>2. net' = (net \ {m}) \cup {n}
    BY DEF ReceiveCommit
  <2> HIDE DEF n
  <2> QED
    BY <1>1, <1>2, <2>1, <2>2
<1>4. LateInv'
  BY <1>2, <1>3 DEF SagaInv, LateInv
<1>5. \A i \in ReservationIds : Sent(i)' => Sent(i)
  BY <1>1, <1>2, <1>3 DEF Sent
<1>6. \A i \in ReservationIds : Known(i)' => Known(i)
  BY <1>2, <1>5 DEF Known, Recorded
<1>7. HoldInv' /\ \A q \in Requests : OwnerRead(q)' /\ ExpiryRead(q)'
  BY <1>2, <1>6, SagaKeeps
<1>8. CASE r \in expired
  <2>1. Vouched' \subseteq Vouched
    BY <1>3, <1>8 DEF Vouched
  <2> QED
    BY <1>2, <1>4, <1>7, <2>1, QuietSaga DEF Follows
<1>9. CASE r \notin expired
  <2>1. Vouched' = Vouched \cup {r}
    <3>1. m.inTime = "unread"
      BY DEF ReceiveCommit
    <3> QED
      BY <1>3, <1>9, <3>1 DEF Vouched
  <2>2. Saga!Vouch(r)
    BY <1>2, <1>9, <2>1 DEF Saga!Vouch, Saga!Made
  <2>3. {i \in ReservationIds : reservation[i] = "PENDING" /\ reservation'[i] = "COMMITTED"} = {}
    BY <1>2
  <2>4. Saga!Inventory
    BY <1>2, <2>2, <2>3 DEF Saga!Inventory, Saga!ContractNext
  <2> QED
    BY <1>4, <1>7, <2>4 DEF Follows, Saga!SagaNext
<1> QED
  BY <1>8, <1>9

LEMMA RefuseFollows ==
  ASSUME SagaInv, NEW m \in net, Refuse(m)
  PROVE  Follows
<1>1. UNCHANGED <<own, inventory, shipment, expired>>
  BY DEF Refuse, own, inventory
<1>2. PICK code \in Codes : code = "DEPENDENCY_UNAVAILABLE" /\ Respond(m, code)
  BY DEF Refuse, Codes
<1> QED
  BY <1>1, <1>2, RespondFine, TalkFollows DEF Known

(* A new hold is of a reservation that nobody has heard of. *)
LEMMA ExecuteReserveFollows ==
  ASSUME SagaInv, NEW m \in net, ExecuteReserve(m)
  PROVE  Follows
<1>1. m.op = "reserve" /\ UNCHANGED <<own, shipment, expired, charged>>
  BY DEF ExecuteReserve, own
<1>2. CASE /\ \E code \in {"NOT_FOUND", "INSUFFICIENT_STOCK"} : Respond(m, code)
           /\ UNCHANGED reservation
  <2>1. PICK code \in Codes : code # "ok" /\ Respond(m, code)
    BY <1>2 DEF Codes
  <2> QED
    BY <1>1, <1>2, <2>1, RespondFine, TalkFollows DEF Known, inventory
<1>3. ASSUME NEW r \in ReservationIds,
             reservation[r] = "free",
             reservation' = [reservation EXCEPT ![r] = "PENDING"],
             net' = net \ {m},
             IF m.from = Nobody THEN UNCHANGED tx
             ELSE \/ tx' = [tx EXCEPT ![m.from].pc = "answered",
                                      ![m.from].reservation = r]
                  \/ tx' = [tx EXCEPT ![m.from].pc = "answered",
                                      ![m.from].code = "DEPENDENCY_UNAVAILABLE"]
      PROVE  Follows
  <2>1. /\ reservation'[r] = "PENDING"
        /\ \A i \in ReservationIds \ {r} : reservation'[i] = reservation[i]
    BY <1>3 DEF SagaInv, Inv, TypeOK
  <2>2. ~Known(r) /\ \A i \in ReservationIds : Known(i)' => Known(i)
    <3>1. ~Recorded(r) /\ ~Sent(r)
      BY <1>3 DEF Recorded, Sent, SagaInv, Inv, StockInv, MessageInv
    <3> QED
      BY <1>1, <1>3, <3>1 DEF Known, Recorded, Sent
  <2>3. \A o \in Requests : ~Holds(o, r)
    BY <1>3 DEF Holds, SagaInv, Inv, HandlerInv
  <2>4. /\ \A o \in Requests : tx'[o] = tx[o] \/ o = m.from
        /\ m.from \in Requests =>
             /\ \A i \in ReservationIds : Holds(m.from, i)' => i = r
             /\ OwnerRead(m.from)' /\ ExpiryRead(m.from)'
    <3>1. CASE m.from = Nobody
      BY <1>3, <3>1, MarkerAssumption
    <3>2. CASE m.from # Nobody
      <4>1. PICK q \in Requests : q = m.from
        BY <3>2, MessageFields DEF SagaInv, Inv, TypeOK
      <4>2. tx[q].op = "create"
        BY <1>1, <4>1, MarkerAssumption DEF SagaInv, Inv, MessageInv, Awaited
      <4>3. PICK t : /\ tx' = [tx EXCEPT ![q] = t] /\ t.op = "create"
                     /\ t.reservation = r \/ t.code = "DEPENDENCY_UNAVAILABLE"
        <5>1. CASE tx' = [tx EXCEPT ![q].pc = "answered", ![q].reservation = r]
          <6> DEFINE t == [tx[q] EXCEPT !.pc = "answered", !.reservation = r]
          <6>1. tx' = [tx EXCEPT ![q] = t]
            BY <5>1
          <6>2. t.op = "create" /\ t.reservation = r
            BY <4>2 DEF SagaInv, Inv, TypeOK, Tx
          <6> HIDE DEF t
          <6> QED
            BY <6>1, <6>2
        <5>2. CASE tx' = [tx EXCEPT ![q].pc = "answered",
                                    ![q].code = "DEPENDENCY_UNAVAILABLE"]
          <6> DEFINE t == [tx[q] EXCEPT !.pc = "answered",
                                        !.code = "DEPENDENCY_UNAVAILABLE"]
          <6>1. tx' = [tx EXCEPT ![q] = t]
            BY <5>2
          <6>2. t.op = "create" /\ t.code = "DEPENDENCY_UNAVAILABLE"
            BY <4>2 DEF SagaInv, Inv, TypeOK, Tx
          <6> HIDE DEF t
          <6> QED
            BY <6>1, <6>2
        <5> QED
          BY <1>3, <3>2, <4>1, <5>1, <5>2
      <4>4. tx'[q] = t /\ \A o \in Requests \ {q} : tx'[o] = tx[o]
        BY <4>3, OneMoves DEF SagaInv
      <4> QED
        BY <4>1, <4>3, <4>4 DEF Holds, OwnerRead, ExpiryRead
    <3> QED
      BY <3>1, <3>2
  <2>5. HoldInv'
    <3> SUFFICES ASSUME NEW q \in Requests, NEW i \in ReservationIds, Holds(q, i)'
                 PROVE  /\ ~Known(i)'
                        /\ reservation'[i] = "PENDING" \/ i \in expired'
                        /\ \A o \in Requests : Holds(o, i)' => o = q
      BY DEF HoldInv
    <3>1. CASE i = r
      <4>1. \A o \in Requests : Holds(o, r)' => o = m.from
        BY <2>3, <2>4 DEF Holds
      <4> QED
        BY <2>1, <2>2, <3>1, <4>1
    <3>2. CASE i # r
      <4>1. \A o \in Requests : Holds(o, i)' => Holds(o, i)
        BY <2>4, <3>2 DEF Holds
      <4> QED
        BY <1>1, <2>1, <2>2, <3>2, <4>1 DEF SagaInv, HoldInv
    <3> QED
      BY <3>1, <3>2
  <2>6. \A q \in Requests : OwnerRead(q)' /\ ExpiryRead(q)'
    BY <1>1, <2>4 DEF SagaInv, OwnerRead, ExpiryRead
  <2>7. Vouched' = Vouched /\ Echoed
    BY <1>1, <1>3 DEF Vouched, Echoed
  <2>8. LateInv'
    BY <1>1, <2>7, EchoedLate
  <2>9. Saga!Reserve(r)
    BY <1>1, <1>3, <2>7 DEF Saga!Reserve
  <2>10. {i \in ReservationIds : reservation[i] = "PENDING" /\ reservation'[i] = "COMMITTED"} = {}
    BY <2>1
  <2>11. Saga!Inventory
    BY <1>1, <2>9, <2>10 DEF Saga!Inventory, Saga!ContractNext
  <2> QED
    BY <2>5, <2>6, <2>8, <2>11 DEF Follows, Saga!SagaNext
<1> QED
  BY <1>2, <1>3 DEF ExecuteReserve

(* Inventory moves one reservation on, which nobody holds that has not
   recorded it, unless it has expired. *)
LEMMA InventoryFollows ==
  ASSUME SagaInv, UNCHANGED own, expired \subseteq expired',
         \A o \in Requests : tx'[o] = tx[o] \/ Fine(o)',
         Echoed, \A r \in ReservationIds : Sent(r)' => Sent(r),
         \A r \in ReservationIds :
           Known(r) \/ reservation'[r] = reservation[r] \/ r \in expired',
         Saga!Inventory
  PROVE  Follows
<1>1. UNCHANGED shipment
  BY DEF own
<1>2. \A r \in ReservationIds : Known(r)' => Known(r)
  BY <1>1 DEF Known, Recorded
<1>3. \A o \in Requests, r \in ReservationIds : Holds(o, r) => ~Known(r)
  BY DEF SagaInv, HoldInv
<1>4. HoldInv' /\ \A q \in Requests : OwnerRead(q)' /\ ExpiryRead(q)'
  BY <1>1, <1>2, <1>3, SagaKeeps
<1>5. LateInv'
  BY EchoedLate
<1> QED
  BY <1>4, <1>5 DEF Follows, Saga!SagaNext

LEMMA ExecuteCommitFollows ==
  ASSUME SagaInv, NEW m \in net, ExecuteCommit(m)
  PROVE  Follows
<1>1. m.op = "commit" /\ UNCHANGED <<own, shipment, expired>>
  BY DEF ExecuteCommit, own
<1>2. PICK r \in ReservationIds : r = m.id /\ Known(r)
  BY <1>1 DEF SagaInv, Inv, MessageInv, Known, Sent
<1>3. CASE /\ reservation[r] = "PENDING" /\ m.inTime = "yes"
           /\ reservation' = [reservation EXCEPT ![r] = "COMMITTED"]
           /\ charged' = charged \cup {r} /\ Respond(m, "ok")
  <2>1. PICK code \in Codes : code = "ok" /\ Respond(m, code)
    BY <1>3 DEF Codes
  <2>2. /\ \A o \in Requests : tx'[o] = tx[o] \/ Fine(o)'
        /\ Echoed /\ \A i \in ReservationIds : Sent(i)' => Sent(i)
    BY <1>1, <2>1, RespondFine
  <2>3. /\ reservation'[r] = "COMMITTED"
        /\ \A i \in ReservationIds \ {r} : reservation'[i] = reservation[i]
    BY <1>3 DEF SagaInv, Inv, TypeOK
  <2>4. r \in Vouched /\ Vouched' \subseteq Vouched
    BY <1>1, <1>2, <1>3, <2>2, EchoedVouched DEF Vouched
  <2>5. Saga!Commit(r)
    BY <1>1, <1>3, <2>4 DEF Saga!Commit
  <2>6. {i \in ReservationIds : reservation[i] = "PENDING" /\ reservation'[i] = "COMMITTED"} = {r}
    BY <1>3, <2>3
  <2>7. Saga!Inventory
    BY <1>1, <1>3, <2>5, <2>6 DEF Saga!Inventory, Saga!ContractNext
  <2> QED
    BY <1>1, <1>2, <2>2, <2>3, <2>7, InventoryFollows
<1>4. CASE /\ \E code \in Codes :
                Respond(m, code) /\ (code = "RESERVATION_EXPIRED" => m.inTime = "no")
           /\ UNCHANGED <<reservation, charged>>
  <2>1. PICK code \in Codes :
          Respond(m, code) /\ (code = "RESERVATION_EXPIRED" => m.inTime = "no")
    BY <1>4
  <2>2. code = "RESERVATION_EXPIRED" => m.id \in expired
    BY <1>1, <2>1 DEF SagaInv, LateInv
  <2> QED
    BY <1>1, <1>4, <2>1, <2>2, RespondFine, TalkFollows DEF Known, inventory
<1> QED
  BY <1>1, <1>2, <1>3, <1>4 DEF ExecuteCommit, Codes

LEMMA ExecuteReleaseFollows ==
  ASSUME SagaInv, NEW m \in net, ExecuteRelease(m)
  PROVE  Follows
<1>1. m.op = "release" /\ UNCHANGED <<own, shipment, expired, charged>>
  BY DEF ExecuteRelease, own
<1>2. PICK r \in ReservationIds : r = m.id /\ Known(r)
  BY <1>1 DEF SagaInv, Inv, MessageInv, Known, Sent
<1>3. PICK code \in Codes : code # "RESERVATION_EXPIRED" /\ Respond(m, code)
  BY DEF ExecuteRelease, Codes
<1>4. /\ \A o \in Requests : tx'[o] = tx[o] \/ Fine(o)'
      /\ Echoed /\ \A i \in ReservationIds : Sent(i)' => Sent(i)
  BY <1>1, <1>3, RespondFine
<1>5. CASE reservation[r] = "PENDING"
  <2>1. reservation' = [reservation EXCEPT ![r] = "RELEASED"]
    BY <1>2, <1>5 DEF ExecuteRelease
  <2>2. /\ reservation'[r] = "RELEASED"
        /\ \A i \in ReservationIds \ {r} : reservation'[i] = reservation[i]
    BY <2>1 DEF SagaInv, Inv, TypeOK
  <2>3. Vouched' = Vouched
    BY <1>1, <1>3 DEF Vouched, Respond
  <2>4. Saga!Release(r)
    BY <1>1, <1>5, <2>1, <2>3 DEF Saga!Release
  <2>5. {i \in ReservationIds : reservation[i] = "PENDING" /\ reservation'[i] = "COMMITTED"} = {}
    BY <2>2
  <2>6. Saga!Inventory
    BY <1>1, <2>4, <2>5 DEF Saga!Inventory, Saga!ContractNext
  <2> QED
    BY <1>1, <1>2, <1>4, <2>2, <2>6, InventoryFollows
<1>6. CASE reservation[r] # "PENDING"
  <2>1. UNCHANGED inventory
    BY <1>1, <1>2, <1>6 DEF ExecuteRelease, inventory
  <2> QED
    BY <1>1, <1>4, <2>1, TalkFollows DEF Known
<1> QED
  BY <1>5, <1>6

LEMMA ExpireFollows ==
  ASSUME SagaInv, NEW r \in ReservationIds, Expire(r)
  PROVE  Follows
<1>1. UNCHANGED <<own, reservation, charged, net, tx>> /\ expired' = expired \cup {r}
  BY DEF Expire
<1>2. /\ Vouched' = Vouched /\ Echoed
      /\ \A i \in ReservationIds : Sent(i)' => Sent(i)
  BY <1>1 DEF Vouched, Echoed, Sent
<1>3. Saga!Pass({r})
  BY <1>1, <1>2 DEF Expire, Saga!Pass, Saga!Made
<1>4. {i \in ReservationIds : reservation[i] = "PENDING" /\ reservation'[i] = "COMMITTED"} = {}
  BY <1>1
<1>5. Saga!Inventory
  BY <1>1, <1>3, <1>4 DEF Saga!Inventory, Saga!ContractNext, own
<1> QED
  BY <1>1, <1>2, <1>5, InventoryFollows

LEMMA PurgeReservationFollows ==
  ASSUME SagaInv, NEW r \in ReservationIds, PurgeReservation(r)
  PROVE  Follows
<1>1. /\ UNCHANGED <<own, expired, charged, net, tx>>
      /\ reservation' = [reservation EXCEPT ![r] = "deleted"]
      /\ \/ reservation[r] \in {"COMMITTED", "RELEASED"}
         \/ reservation[r] = "PENDING" /\ r \in expired
  BY DEF PurgeReservation
<1>2. /\ Vouched' = Vouched /\ Echoed
      /\ \A i \in ReservationIds : Sent(i)' => Sent(i)
  BY <1>1 DEF Vouched, Echoed, Sent
<1>3. /\ reservation'[r] = "deleted"
      /\ \A i \in ReservationIds \ {r} : reservation'[i] = reservation[i]
  BY <1>1 DEF SagaInv, Inv, TypeOK
<1>4. reservation' =
        [i \in ReservationIds |-> IF i \in {r} THEN "deleted" ELSE reservation[i]]
  BY <1>1 DEF SagaInv, Inv, TypeOK
<1>5. Saga!Forget({r})
  BY <1>1, <1>2, <1>4 DEF Saga!Forget
<1>6. {i \in ReservationIds : reservation[i] = "PENDING" /\ reservation'[i] = "COMMITTED"} = {}
  BY <1>3
<1>7. Saga!Inventory
  BY <1>1, <1>5, <1>6 DEF Saga!Inventory, Saga!ContractNext, own
<1>8. HoldInv'
  <2> SUFFICES ASSUME NEW q \in Requests, NEW i \in ReservationIds, Holds(q, i)'
               PROVE  /\ ~Known(i)'
                      /\ reservation'[i] = "PENDING" \/ i \in expired'
                      /\ \A o \in Requests : Holds(o, i)' => o = q
    BY DEF HoldInv
  <2>1. /\ ~Known(i) /\ (reservation[i] = "PENDING" \/ i \in expired)
        /\ \A o \in Requests : Holds(o, i) => o = q
    BY <1>1 DEF SagaInv, HoldInv, Holds
  <2>2. Known(i)' => Known(i)
    BY <1>1, <1>2 DEF Known, Recorded, own
  <2>3. reservation'[i] = "PENDING" \/ i \in expired'
    BY <1>1, <1>3, <2>1
  <2> QED
    BY <1>1, <2>1, <2>2, <2>3 DEF Holds
<1>9. /\ LateInv'
      /\ \A q \in Requests : OwnerRead(q)' /\ ExpiryRead(q)'
  BY <1>1 DEF SagaInv, LateInv, OwnerRead, ExpiryRead, own
<1> QED
  BY <1>7, <1>8, <1>9 DEF Follows, Saga!SagaNext

LEMMA SettleDirectlyFollows ==
  ASSUME SagaInv, NEW r \in ReservationIds, SettleDirectly(r)
  PROVE  Follows
<1>1. UNCHANGED <<own, inventory, tx>> /\ Known(r)
  BY DEF SettleDirectly, Known
<1>2. Echoed /\ \A i \in ReservationIds : Sent(i)' => Sent(i) \/ i = r
  BY DEF SettleDirectly, Echoed, Sent
<1> QED
  BY <1>1, <1>2, TalkFollows DEF Known
-----------------------------------------------------------------------------
LEMMA SagaNextHolds == SagaInv /\ [Next]_vars => SagaInv' /\ [Saga!SagaNext]_(Saga!saga)
<1> SUFFICES ASSUME SagaInv, [Next]_vars
             PROVE  SagaInv' /\ [Saga!SagaNext]_(Saga!saga)
  OBVIOUS
<1>1. Inv'
  BY InvNext DEF SagaInv
<1>2. CASE UNCHANGED vars
  BY <1>1, <1>2
     DEF vars, Saga!saga, Saga!contract, Vouched, SagaInv, HoldInv, LateInv, OwnerRead,
     ExpiryRead, Holds, Known, Recorded, Sent
<1>3. ASSUME NEW q \in Requests, Arrive(q) PROVE Follows
  BY <1>3, CreateShipmentFollows, SettleFollows, DeleteShipmentFollows
     DEF Arrive, ConfirmShipment, CancelShipment
<1>4. ASSUME NEW q \in Requests, Proceed(q) PROVE Follows
  BY <1>4, GiveUpFollows, PersistShipmentFollows, RecordOutcomeFollows, DeleteRowFollows
     DEF Proceed, ReserveFailed, Compensated
<1>5. ASSUME NEW m \in net, Execute(m) PROVE Follows
  BY <1>5, ReceiveCommitFollows, ExecuteReserveFollows, ExecuteCommitFollows,
     ExecuteReleaseFollows, RefuseFollows DEF Execute
<1>6. CASE Next
  <2>1. Follows
    BY <1>3, <1>4, <1>5, <1>6, TimeoutFollows, CrashFollows, ExpireFollows,
       PurgeReservationFollows, SettleDirectlyFollows, PurgeShipmentsFollows DEF Next
  <2> QED
    BY <1>1, <2>1 DEF Follows, SagaInv
<1> QED
  BY <1>2, <1>6

(* Whatever calls to Inventory time out, are answered late or are lost, and
   whatever replicas die, a shipment and its reservation move as one: recorded
   while the stock is held for it alone, confirmed once it is charged, cancelled
   once it is freed or has expired, by Save on a row that keeps its owner
   (CreateShipment, ConfirmShipment, CancelShipment). *)
THEOREM ShipmentImplementsSaga == Spec => FollowsSaga
BY SagaInvInit, SagaInitHolds, SagaNextHolds, PTL DEF Spec, FollowsSaga, Saga!SagaSpec
=============================================================================

------------------------ MODULE InventoryLedgerProofs ------------------------
(***************************************************************************)
(* Inventory implements StockLedger: with its row locks, each interleaved  *)
(* transaction is an atomic operation on the stock at its COMMIT.  And it  *)
(* implements Reservations, its contract with Shipment.                    *)
(***************************************************************************)
EXTENDS InventoryStockProofs

(* What the ledger calls available is the on-hand less what Reserve and
   SetStock have summed. *)
LEMMA LedgerAvailable ==
  ASSUME NEW p \in Pairs, NEW n
  PROVE  Ledger!Available(n, Ledger!RowsOf(p), clock) = n - Held(p)
<1> DEFINE D == {r \in ReservationIds : reservation[r].pair = p}
           rs == [r \in D |-> reservation[r]]
           H == {i \in D : Active(rs[i], clock)}
<1>1. H = Holding(p, clock)
  BY DEF Holding, Active
<1>2. \A i \in H : rs[i] = reservation[i]
  OBVIOUS
<1>3. Units(rs, H) = Units(reservation, Holding(p, clock))
  BY <1>1, <1>2 DEF Units
<1>4. DOMAIN rs = D
  OBVIOUS
<1>5. Reserved(rs, clock) = Held(p)
  BY <1>3, <1>4 DEF Reserved, Held, sumActive, Quantity
<1>6. Available(n, rs, clock) = n - Held(p)
  BY <1>5 DEF Available
<1>7. Ledger!RowsOf(p) = rs
  BY DEF Ledger!RowsOf
<1>8. Ledger!Available(n, rs, clock) = Available(n, rs, clock)
  BY Zenon DEF Ledger!Available, Available, Ledger!Reserved, Reserved, Ledger!Units, Ledger!Cardinality, Cardinality,
         Units, Ledger!Active, Active
<1> QED
  BY <1>6, <1>7, <1>8

LEMMA LedgerInit == Init => Ledger!Init
BY DEF Init, Ledger!Init, FreeRow

(* The steps that only remove reservations that hold no stock. *)
LEMMA ForgetStep ==
  ASSUME NEW o \in Requests, NEW R \in SUBSET ReservationIds, Removed(o, R),
         UNCHANGED <<clock, stock>>
  PROVE  Ledger!Next
<1>1. Ledger!Forget(R)
  BY DEF Ledger!Forget, Removed, Deleted, RowExists, Live, Ledger!Active, Active
<1> QED
  BY <1>1 DEF Ledger!Next

LEMMA InsertIsReserve ==
  ASSUME TypeInv, LockInv, RoomInv, NEW o \in Requests, InsertReservation(o)
  PROVE  Ledger!Next \/ UNCHANGED Ledger!vars
<1> DEFINE c == tx[o].call
<1>1. tx[o].pc = "insert" /\ UNCHANGED <<clock, stock>>
  BY DEF InsertReservation
<1>2. c \in AllCalls /\ c.op = "reserve" /\ c.pair \in Pairs /\ c.quantity \in Quantities
  BY <1>1, CallFields DEF TypeInv, TypeOK, CallAtPC, CallMatches
<1>3. tx[o].onHand # NoRow /\ stock[c.pair] = tx[o].onHand
  <2>1. tx[o].onHand # NoRow
    BY <1>1 DEF RoomInv, InsertHasStock
  <2>2. PairOf(o) = c.pair
    BY <1>2 DEF PairOf
  <2> QED
    BY <1>1, <2>1, <2>2 DEF LockInv, StockHeld, HoldsStock
<1>4. stock[c.pair] \in Nat /\ c.quantity \in Nat /\ Held(c.pair) \in Nat
  BY <1>2, <1>3, HeldType, BoundsAssumption DEF TypeInv, TypeOK, Quantities, Held
<1>5. c.quantity <= Ledger!Available(stock[c.pair], Ledger!RowsOf(c.pair), clock)
  <2>1. Held(c.pair) + c.quantity <= stock[c.pair]
    BY <1>1, <1>3 DEF RoomInv, RoomToInsert
  <2>2. Ledger!Available(stock[c.pair], Ledger!RowsOf(c.pair), clock)
          = stock[c.pair] - Held(c.pair)
    BY <1>2, LedgerAvailable
  <2> HIDE DEF c
  <2> QED
    BY <1>4, <2>1, <2>2
<1>6. ASSUME NEW r \in ReservationIds, Inserted(o, r)
      PROVE  Ledger!Next
  <2>1. /\ reservation'[r].status = "PENDING" /\ reservation'[r].pair = c.pair
        /\ reservation'[r].quantity = c.quantity
        /\ reservation' = [reservation EXCEPT ![r] = reservation'[r]]
    BY <1>6 DEF Inserted, TypeInv, TypeOK
  <2>2. reservation[r].status = "free"
    BY <1>6 DEF Inserted
  <2>3. Ledger!Reserve(r)
    BY <1>1, <1>2, <1>3, <1>5, <2>1, <2>2 DEF Ledger!Reserve
  <2> QED
    BY <2>3 DEF Ledger!Next
<1>7. UNCHANGED reservation \/ \E r \in ReservationIds : Inserted(o, r)
  BY <1>1 DEF InsertReservation, Inserted
<1> QED
  BY <1>1, <1>6, <1>7 DEF Ledger!vars

LEMMA WriteStockIsSetStock ==
  ASSUME TypeInv, LockInv, RoomInv, NEW o \in Requests, WriteStock(o)
  PROVE  Ledger!Next \/ UNCHANGED Ledger!vars
<1> DEFINE c == tx[o].call
<1>1. tx[o].pc = "write_stock" /\ UNCHANGED <<clock, reservation>>
  BY DEF WriteStock
<1>2. c \in AllCalls /\ c.op = "set_stock" /\ c.pair \in Pairs /\ c.onHand \in Nat
  BY <1>1, CallFields DEF TypeInv, TypeOK, CallAtPC, CallMatches
<1>3. CASE UNCHANGED stock
  BY <1>1, <1>3 DEF Ledger!vars
<1>4. CASE /\ ~(tx[o].onHand = NoRow /\ InsertRefused(c.pair))
           /\ stock' = [stock EXCEPT ![c.pair] = c.onHand]
  <2>1. PICK p \in Pairs : p = c.pair
    BY <1>2
  <2>2. Settable(o)
    BY <1>1, <1>4 DEF Settable
  <2>3. Held(p) <= c.onHand /\ Held(p) \in Nat
    BY <2>1, <2>2, HeldType DEF RoomInv, RoomToSet, Held
  <2>4. /\ stock'[p] = c.onHand
        /\ stock' = [stock EXCEPT ![p] = stock'[p]]
    BY <1>4, <2>1 DEF TypeInv, TypeOK
  <2>5. Ledger!Available(stock'[p], Ledger!RowsOf(p), clock) = stock'[p] - Held(p)
    BY LedgerAvailable
  <2>6. stock'[p] \in Nat /\ stock'[p] - Held(p) >= 0
    BY <1>2, <2>3, <2>4
  <2>7. Ledger!SetStock(p)
    BY <1>1, <2>4, <2>5, <2>6 DEF Ledger!SetStock
  <2> QED
    BY <2>7 DEF Ledger!Next
<1> QED
  BY <1>3, <1>4 DEF WriteStock

LEMMA WriteCommitIsCommit ==
  ASSUME TypeInv, LockInv, NEW o \in Requests, WriteCommit(o)
  PROVE  Ledger!Next \/ UNCHANGED Ledger!vars
<1>1. UNCHANGED clock
  BY DEF WriteCommit
<1>2. CASE UNCHANGED <<stock, reservation>>
  BY <1>1, <1>2 DEF Ledger!vars
<1>3. CASE ~UNCHANGED <<stock, reservation>>
  <2>1. PICK r \in ReservationIds : r = tx[o].call.id
    BY CommitStep
  <2>2. Ledger!Commit(r)
    BY <1>1, <1>3, <2>1, CommitStep DEF Ledger!Commit, Ledger!Becomes
  <2> QED
    BY <2>2 DEF Ledger!Next
<1> QED
  BY <1>2, <1>3

LEMMA WriteReleaseIsRelease ==
  ASSUME TypeInv, LockInv, NEW o \in Requests, WriteRelease(o)
  PROVE  Ledger!Next
<1>1. tx[o].pc = "write_release"
  BY DEF WriteRelease
<1>2. PICK r \in ReservationIds : r = tx[o].call.id
  BY <1>1, CallFields DEF TypeInv, TypeOK, CallAtPC, CallMatches
<1>3. reservation[r].status = "PENDING"
  BY <1>1, <1>2 DEF LockInv, ReservationHeld, HoldsReservation
<1>4. Ledger!Release(r)
  BY <1>2, <1>3 DEF WriteRelease, Ledger!Release, Ledger!Becomes
<1> QED
  BY <1>4 DEF Ledger!Next

(* The deletes: what they match is terminal or expired. *)
LEMMA DeleteIsForget ==
  ASSUME TypeInv, LockInv, NEW o \in Requests,
         \/ PurgeTerminalReservationsBefore(o)
         \/ DeleteReservation(o)
         \/ PurgeExpiredPendingReservations(o)
  PROVE  Ledger!Next \/ UNCHANGED Ledger!vars
<1>1. UNCHANGED <<clock, stock>>
  BY DEF PurgeTerminalReservationsBefore, DeleteReservation,
         PurgeExpiredPendingReservations
<1>2. /\ ~\E r \in ReservationIds : Inserted(o, r)
      /\ ~\E r \in ReservationIds, status \in Terminal : Settled(o, r, status)
  BY DEF PurgeTerminalReservationsBefore, DeleteReservation,
         PurgeExpiredPendingReservations, Inserted, Settled, Terminal
<1>3. Step(o)
  BY DEF Step, Acquire
<1>4. UNCHANGED reservation \/ \E R \in SUBSET ReservationIds : Removed(o, R)
  BY <1>2, <1>3, ReservationStep
<1> QED
  BY <1>1, <1>4, ForgetStep DEF Ledger!vars

LEMMA DeleteItemsIsDiscontinue ==
  ASSUME NEW o \in Requests, DeleteItems(o)
  PROVE  Ledger!Next
<1> DEFINE P == {p \in Pairs : p[2] \in Doomed(o)}
<1>1. stock' = [p \in Pairs |-> IF p \in P THEN NoRow ELSE stock[p]]
  BY DEF DeleteItems
<1>2. UNCHANGED <<clock, reservation>>
  BY DEF DeleteItems
<1> HIDE DEF P
<1>3. Ledger!Discontinue(P)
  BY <1>1, <1>2 DEF Ledger!Discontinue
<1>4. P \in SUBSET Pairs
  BY DEF P
<1> QED
  BY <1>3, <1>4 DEF Ledger!Next

LEMMA LedgerNext ==
  TypeInv /\ LockInv /\ RoomInv /\ [Next]_vars => [Ledger!Next]_(Ledger!vars)
<1> SUFFICES ASSUME TypeInv, LockInv, RoomInv, [Next]_vars
             PROVE  Ledger!Next \/ UNCHANGED Ledger!vars
  OBVIOUS
<1>1. CASE Tick
  BY <1>1 DEF Tick, Ledger!Tick, Ledger!Next
<1>2. CASE UNCHANGED vars
  BY <1>2 DEF vars, Ledger!vars
<1>3. ASSUME NEW o \in Requests, Step(o)
      PROVE  Ledger!Next \/ UNCHANGED Ledger!vars
  <2>1. CASE Arrive(o)
    BY <2>1 DEF Arrive, requireWarehouseAndItem, loadAndAuthorize, BeginDelete,
       CreateItem, Ledger!vars
  <2>2. CASE LockStock(o) \/ LockReservation(o) \/ FindKey(o) \/ SumActive(o) \/ Fail(o)
    BY <2>2 DEF LockStock, LockReservation, FindKey, SumActive, Fail, Ledger!vars
  <2>3. CASE Acquire(o)
    BY <2>2, <2>3, DeleteIsForget, DeleteItemsIsDiscontinue DEF Acquire
  <2>4. CASE Proceed(o)
    BY <2>2, <2>4, InsertIsReserve, WriteStockIsSetStock, WriteCommitIsCommit,
       WriteReleaseIsRelease DEF Proceed
  <2> QED
    BY <1>3, <2>1, <2>2, <2>3, <2>4 DEF Step
<1> QED
  BY <1>1, <1>2, <1>3 DEF Next, Step

(* Every behaviour of the handlers and their transactions is one of the atomic
   ledger: each operation is decided on the stock and the reservations of the
   instant it takes effect (the locking of repository.go). *)
THEOREM InventoryImplementsLedger == Spec => LedgerSpec
BY LedgerInit, LedgerNext, RoomInvariant, PTL DEF Spec, LedgerSpec, Ledger!Spec
-----------------------------------------------------------------------------
(* The contract *)

(* A commit under way is of a reservation that was made, and once it holds the
   row, of one that had not expired when it came in. *)
CommitInTime ==
  \A q \in Requests : tx[q].pc # "idle" /\ tx[q].call.op = "commit" =>
    /\ reservation[tx[q].call.id].status # "free"
    /\ HoldsReservation(q) => tx[q].now < reservation[tx[q].call.id].expiresAt

ContractInv == TypeInv /\ LockInv /\ CommitInTime

(* A handler answers, goes on with its call at the time it took (a sweep takes
   it between its two statements), or begins. *)
LEMMA CallStep ==
  ASSUME TypeInv, NEW o \in Requests, Step(o)
  PROVE  \/ tx'[o].pc = "idle"
         \/ /\ tx[o].pc # "idle" /\ tx'[o].call = tx[o].call
            /\ tx[o].call.op = "commit" => tx'[o].now = tx[o].now
         \/ tx[o].pc = "idle" /\ tx'[o].call.op # "commit"
         \/ /\ tx[o].pc = "idle" /\ UNCHANGED reservation
            /\ tx'[o].pc = "lock_row" /\ tx'[o].now = clock
            /\ RowExists(tx'[o].call.id)
<1> USE DEF TypeInv, TypeOK
<1>1. ASSUME NEW code \in Codes, Answer(o, code) PROVE tx'[o].pc = "idle"
  BY <1>1 DEF Answer, Idle
<1>2. ASSUME NEW pc \in PCs, Goto(o, pc)
      PROVE  tx'[o].call = tx[o].call /\ tx'[o].now = tx[o].now
  BY <1>2 DEF Goto, Tx
<1>3. ASSUME NEW c, NEW pc, NEW now, Begin(o, c, pc, now)
      PROVE  tx'[o].call = c /\ tx'[o].pc = pc /\ tx'[o].now = now
  BY <1>3 DEF Begin
<1>4. CASE Arrive(o)
  <2>1. ASSUME NEW c \in Calls, requireWarehouseAndItem(o, c)
        PROVE  \/ tx'[o].pc = "idle"
               \/ tx[o].pc = "idle" /\ tx'[o].call.op # "commit"
    BY <1>1, <1>3, <2>1 DEF requireWarehouseAndItem, Codes
  <2>2. ASSUME NEW c \in Calls, loadAndAuthorize(o, c)
        PROVE  \/ tx'[o].pc = "idle"
               \/ tx[o].pc = "idle" /\ tx'[o].call.op # "commit"
               \/ /\ tx[o].pc = "idle" /\ UNCHANGED reservation
                  /\ tx'[o].pc = "lock_row" /\ tx'[o].now = clock
                  /\ RowExists(tx'[o].call.id)
    BY <1>1, <1>3, <2>2 DEF loadAndAuthorize, Codes
  <2>3. ASSUME NEW c \in Calls, BeginDelete(o, c)
        PROVE  tx[o].pc = "idle" /\ tx'[o].call.op # "commit"
    BY <1>3, <2>3 DEF BeginDelete
  <2>4. ASSUME NEW c \in Calls, CreateItem(o, c)
        PROVE  tx'[o].pc = "idle"
    BY <1>1, <2>4 DEF CreateItem, Codes
  <2> QED
    BY <1>4, <2>1, <2>2, <2>3, <2>4 DEF Arrive
<1>5. CASE Acquire(o)
  <2>1. CASE LockStock(o)
    BY <2>1 DEF LockStock, Answer, Goto, Idle, Tx
  <2>2. CASE LockReservation(o)
    BY <2>2 DEF LockReservation, Answer, Idle, Tx
  <2>3. CASE PurgeTerminalReservationsBefore(o)
    BY <2>3, SweepGoesOn
    DEF PurgeTerminalReservationsBefore, CallAtPC, CallMatches
  <2>4. CASE DeleteItems(o)
    BY <1>1, <2>4 DEF DeleteItems, Codes
  <2> QED
    BY <1>1, <1>5, <2>1, <2>2, <2>3, <2>4
    DEF Acquire, DeleteReservation, PurgeExpiredPendingReservations, Codes
<1>6. CASE Proceed(o)
  <2>1. tx[o].pc # "idle"
    BY <1>6 DEF Proceed, FindKey, SumActive, InsertReservation, WriteStock,
       WriteCommit, WriteRelease
  <2>2. \/ \E code \in Codes : Answer(o, code)
        \/ \E pc \in PCs : Goto(o, pc)
    BY <1>6 DEF Proceed, FindKey, SumActive, InsertReservation, WriteStock,
       WriteCommit, WriteRelease, Codes, PCs
  <2> QED
    BY <1>1, <1>2, <2>1, <2>2
<1>7. CASE Fail(o)
  BY <1>1, <1>7 DEF Fail, Codes
<1> QED
  BY <1>4, <1>5, <1>6, <1>7 DEF Step

(* A reservation that was made stays made, and its expiry what it is. *)
LEMMA MadeStays ==
  ASSUME TypeInv, LockInv, NEW o \in Requests, Step(o),
         NEW r \in ReservationIds, reservation[r].status # "free"
  PROVE  reservation'[r].status # "free"
         /\ reservation'[r].expiresAt = reservation[r].expiresAt
<1> USE DEF TypeInv, TypeOK
<1>1. ASSUME NEW s \in ReservationIds, Inserted(o, s)
      PROVE  reservation'[r] = reservation[r]
  BY <1>1 DEF Inserted
<1>2. ASSUME NEW s \in ReservationIds, NEW status \in Terminal,
             Settled(o, s, status)
      PROVE  reservation'[r].status # "free"
  BY <1>2 DEF Settled, Terminal, Reservation
<1>3. ASSUME NEW R \in SUBSET ReservationIds, Removed(o, R)
      PROVE  reservation'[r].status # "free"
  BY <1>3 DEF Removed, Deleted, Reservation
<1> QED
  BY <1>1, <1>2, <1>3, ReservationStep, RowStays

LEMMA CommitInTimeStep ==
  ASSUME ContractInv, NEW o \in Requests, Step(o)
  PROVE  CommitInTime'
<1> SUFFICES ASSUME NEW q \in Requests,
                    tx'[q].pc # "idle", tx'[q].call.op = "commit"
             PROVE  /\ reservation'[tx'[q].call.id].status # "free"
                    /\ HoldsReservation(q)' =>
                         tx'[q].now < reservation'[tx'[q].call.id].expiresAt
  BY DEF CommitInTime
<1> USE DEF ContractInv
<1>1. ASSUME tx[q].pc # "idle", tx'[q].call = tx[q].call, tx'[q].now = tx[q].now,
             HoldsReservation(q)' =>
               HoldsReservation(q)
                 \/ tx[q].now < reservation[tx[q].call.id].expiresAt
      PROVE  /\ reservation'[tx'[q].call.id].status # "free"
             /\ HoldsReservation(q)' =>
                  tx'[q].now < reservation'[tx'[q].call.id].expiresAt
  <2>1. PICK r \in ReservationIds : r = tx[q].call.id
    BY <1>1, CallFields DEF TypeInv, CallAtPC, CallMatches
  <2>2. /\ reservation[r].status # "free"
        /\ HoldsReservation(q)' => tx[q].now < reservation[r].expiresAt
    BY <1>1, <2>1 DEF CommitInTime
  <2>3. reservation'[r].status # "free"
        /\ reservation'[r].expiresAt = reservation[r].expiresAt
    BY <2>2, MadeStays
  <2> QED
    BY <1>1, <2>1, <2>2, <2>3
<1>2. CASE q # o
  <2>1. tx'[q] = tx[q]
    BY <1>2, LocksStep
  <2> QED
    BY <1>1, <2>1 DEF HoldsReservation
<1>3. CASE q = o /\ tx[o].pc # "idle"
  <2>1. tx'[o].call = tx[o].call /\ tx'[o].now = tx[o].now
    BY <1>3, CallStep
  <2>2. ASSUME HoldsReservation(o)', ~HoldsReservation(o)
        PROVE  tx[o].now < reservation[tx[o].call.id].expiresAt
    <3>1. tx'[o].call.op = "commit" /\ tx'[o].pc # "idle"
      BY <1>3
    <3>2. CASE LockReservation(o)
      <4>1. CommitCode(tx[o].call.id, tx[o].now) = "none"
        BY <2>1, <3>1, <3>2 DEF LockReservation, Answer, Idle, TypeInv, TypeOK
      <4>2. tx[o].call.id \in ReservationIds
        BY <1>3, <2>1, <3>1, CallFields DEF TypeInv, CallAtPC, CallMatches
      <4>3. RowExists(tx[o].call.id)
        BY <3>1, <3>2 DEF LockReservation, Answer, Idle, TypeInv, TypeOK
      <4>4. ~TooLate(tx[o].call.id, tx[o].now)
        BY <4>1, <4>3 DEF RowExists, Live, CommitCode
      <4>5. reservation[tx[o].call.id].expiresAt \in Nat /\ tx[o].now \in Nat
        BY <4>2 DEF TypeInv, TypeOK, Reservation, Tx
      <4> QED
        BY <4>4, <4>5 DEF TooLate
    <3>3. ~LockStock(o)
      BY <2>1, <2>2, <3>1 DEF LockStock, HoldsReservation
    <3>4. /\ ~DeleteReservation(o) /\ ~PurgeExpiredPendingReservations(o)
          /\ ~DeleteItems(o) /\ ~Fail(o)
      BY <3>1 DEF DeleteReservation, PurgeExpiredPendingReservations, DeleteItems,
         Fail, Answer, Idle, TypeInv, TypeOK
    <3>5. ~Arrive(o) /\ ~PurgeTerminalReservationsBefore(o)
      <4>1. ~Arrive(o)
        BY <1>3 DEF Arrive, requireWarehouseAndItem, loadAndAuthorize,
           BeginDelete, CreateItem
      <4>2. ~PurgeTerminalReservationsBefore(o)
        BY <2>2, SweepGoesOn DEF HoldsReservation, TypeInv
      <4> QED
        BY <4>1, <4>2
    <3>6. ~Proceed(o)
      <4>1. ~WriteCommit(o) /\ ~WriteRelease(o)
        BY <2>2 DEF WriteCommit, WriteRelease, HoldsReservation
      <4>2. ~FindKey(o) /\ ~SumActive(o) /\ ~InsertReservation(o) /\ ~WriteStock(o)
        BY <1>3, <2>1, <3>1
           DEF FindKey, SumActive, InsertReservation, WriteStock, TypeInv, CallAtPC,
           CallMatches
      <4> QED
        BY <4>1, <4>2 DEF Proceed
    <3> QED
      BY <3>2, <3>3, <3>4, <3>5, <3>6 DEF Step, Acquire
  <2> QED
    BY <1>1, <1>3, <2>1, <2>2
<1>4. CASE q = o /\ tx[o].pc = "idle"
  <2>1. /\ UNCHANGED reservation /\ tx'[o].pc = "lock_row"
        /\ RowExists(tx'[o].call.id)
    BY <1>4, CallStep
  <2> QED
    BY <1>4, <2>1 DEF HoldsReservation, RowExists, Live
<1> QED
  BY <1>2, <1>3, <1>4

LEMMA ContractInvariant == Spec => []ContractInv
<1>1. Init => CommitInTime
  BY DEF Init, CommitInTime, Idle
<1>2. ContractInv /\ (TypeInv /\ LockInv)' /\ [Next]_vars => ContractInv'
  <2> SUFFICES ASSUME ContractInv, (TypeInv /\ LockInv)', [Next]_vars
               PROVE  CommitInTime'
    BY DEF ContractInv
  <2>1. CASE UNCHANGED <<tx, reservation>>
    BY <2>1 DEF ContractInv, CommitInTime, HoldsReservation
  <2>2. ASSUME NEW o \in Requests, Step(o) PROVE CommitInTime'
    BY <2>2, CommitInTimeStep
  <2> QED
    BY <2>1, <2>2 DEF Next, Step, Tick, vars
<1> QED
  BY <1>1, <1>2, LockInvariant, PTL DEF Spec, ContractInv

(* No step but the arrival of a commit makes it vouch for anything. *)
LEMMA VouchedStep ==
  ASSUME ContractInv, NEW o \in Requests, Step(o),
         ~(tx[o].pc = "idle" /\ tx'[o].pc = "lock_row" /\ tx'[o].call.op = "commit")
  PROVE  /\ Vouched' \subseteq Vouched
         /\ ~(tx[o].pc # "idle" /\ tx[o].call.op = "commit") => Vouched' = Vouched
<1> USE DEF ContractInv
<1>1. ASSUME NEW r \in Vouched' PROVE r \in Vouched
  <2>1. PICK q \in Requests :
          Committing(q, r)' /\ tx'[q].now < reservation'[r].expiresAt
    BY DEF Vouched
  <2>2. /\ tx[q].pc # "idle"
        /\ tx'[q].call = tx[q].call /\ tx'[q].now = tx[q].now
    <3>1. CASE q = o
      BY <2>1, <3>1, CallStep DEF Committing
    <3>2. CASE q # o
      BY <2>1, <3>2, LocksStep DEF Committing
    <3> QED
      BY <3>1, <3>2
  <2>3. r \in ReservationIds /\ Committing(q, r) /\ reservation[r].status # "free"
    BY <2>1, <2>2 DEF Vouched, Committing, CommitInTime
  <2>4. reservation'[r].expiresAt = reservation[r].expiresAt
    BY <2>3, MadeStays
  <2> QED
    BY <2>1, <2>2, <2>3, <2>4 DEF Vouched
<1>2. ASSUME ~(tx[o].pc # "idle" /\ tx[o].call.op = "commit"), NEW r \in Vouched
      PROVE  r \in Vouched'
  <2>1. PICK q \in Requests : Committing(q, r) /\ tx[q].now < reservation[r].expiresAt
    BY DEF Vouched
  <2>2. q # o /\ tx'[q] = tx[q]
    BY <1>2, <2>1, LocksStep DEF Committing
  <2>3. r \in ReservationIds /\ reservation[r].status # "free"
    BY <2>1 DEF Vouched, Committing, CommitInTime
  <2>4. reservation'[r].expiresAt = reservation[r].expiresAt
    BY <2>3, MadeStays
  <2> QED
    BY <2>1, <2>2, <2>3, <2>4 DEF Vouched, Committing
<1> QED
  BY <1>1, <1>2

(* An expiry is in the past for good once it is. *)
LEMMA OverdueStep ==
  ASSUME ContractInv, NEW o \in Requests, Step(o)
  PROVE  /\ UNCHANGED clock
         /\ Overdue \subseteq Overdue'
         /\ \A r \in Overdue' : r \in Overdue \/ reservation[r].status = "free"
<1>1. UNCHANGED clock
  BY DEF Step, Arrive, requireWarehouseAndItem, loadAndAuthorize, BeginDelete,
     CreateItem, Acquire, Proceed, Fail, LockStock, LockReservation, DeleteItems,
     DeleteReservation, PurgeTerminalReservationsBefore, PurgeExpiredPendingReservations,
     FindKey, SumActive, InsertReservation, WriteStock, WriteCommit, WriteRelease
<1>2. \A r \in ReservationIds : reservation[r].status # "free" =>
        (r \in Overdue' <=> r \in Overdue)
  BY <1>1, MadeStays DEF ContractInv, Overdue
<1> QED
  BY <1>1, <1>2 DEF Overdue

LEMMA StatusOfOne ==
  ASSUME TypeInv, NEW r \in ReservationIds, NEW status,
         \/ reservation' = [reservation EXCEPT ![r].status = status]
         \/ \E row \in Reservation :
              row.status = status /\ reservation' = [reservation EXCEPT ![r] = row]
  PROVE  Status' = [Status EXCEPT ![r] = status]
<1>1. reservation'[r].status = status
  BY DEF TypeInv, TypeOK, Reservation
<1>2. \A s \in ReservationIds \ {r} : reservation'[s] = reservation[s]
  BY DEF TypeInv, TypeOK
<1> QED
  BY <1>1, <1>2 DEF Status

LEMMA InsertKeepsContract ==
  ASSUME ContractInv, NEW o \in Requests, Step(o),
         NEW r \in ReservationIds, Inserted(o, r)
  PROVE  Contract!ContractNext
<1> USE DEF ContractInv
<1>1. tx[o].pc = "insert" /\ tx[o].call.op = "reserve" /\ tx[o].call \in AllCalls
  BY DEF Inserted, TypeInv, CallAtPC, CallMatches
<1>2. Status[r] = "free" /\ Status' = [Status EXCEPT ![r] = "PENDING"]
  <2>1. /\ tx[o].call.pair \in Pairs /\ tx[o].call.quantity \in Quantities
        /\ tx[o].call.key \in Keys \cup {NoKey} /\ tx[o].call.by \in Users
        /\ tx[o].now + tx[o].call.ttl \in Nat /\ clock \in Nat
    BY <1>1, CallFields, BoundsAssumption DEF TypeInv, TypeOK, Tx
  <2>2. [status |-> "PENDING", pair |-> tx[o].call.pair,
         quantity |-> tx[o].call.quantity, key |-> tx[o].call.key,
         by |-> tx[o].call.by, expiresAt |-> tx[o].now + tx[o].call.ttl,
         createdAt |-> clock] \in Reservation
    BY <2>1 DEF Reservation, Live
  <2>3. Status' = [Status EXCEPT ![r] = "PENDING"]
    BY <2>2, StatusOfOne DEF Inserted
  <2> QED
    BY <2>3 DEF Inserted, Status
<1>3. Overdue' \in {Overdue, Overdue \cup {r}}
  <2>1. \A s \in ReservationIds \ {r} : reservation'[s] = reservation[s]
    BY DEF Inserted, TypeInv, TypeOK
  <2>2. \A s \in Overdue' : s \in Overdue \/ s = r
    BY <2>1, OverdueStep DEF Overdue
  <2> QED
    BY <2>2, OverdueStep
<1>4. Vouched' = Vouched
  BY <1>1, VouchedStep
<1>5. Contract!Reserve(r)
  BY <1>2, <1>3, <1>4 DEF Contract!Reserve
<1> QED
  BY <1>5 DEF Contract!ContractNext

LEMMA OverdueStays ==
  ASSUME ContractInv, NEW o \in Requests, Step(o), ~\E r \in ReservationIds : Inserted(o, r)
  PROVE  Overdue' = Overdue
<1>1. ASSUME NEW r \in ReservationIds, reservation[r].status = "free"
      PROVE  reservation'[r].status = "free"
  <2>1. ASSUME NEW s \in ReservationIds, NEW status \in Terminal, Settled(o, s, status)
        PROVE  reservation'[r] = reservation[r]
    BY <1>1, <2>1 DEF Settled, ContractInv, TypeInv, TypeOK
  <2>2. ASSUME NEW R \in SUBSET ReservationIds, Removed(o, R)
        PROVE  reservation'[r] = reservation[r]
    BY <1>1, <2>2 DEF Removed, Deleted, RowExists, Live
  <2> QED
    BY <1>1, <2>1, <2>2, ReservationStep DEF ContractInv
<1>2. \A r \in Overdue' : r \in ReservationIds /\ reservation'[r].status # "free"
  BY DEF Overdue
<1> QED
  BY <1>1, <1>2, OverdueStep

LEMMA SettleKeepsContract ==
  ASSUME ContractInv, NEW o \in Requests, Step(o),
         NEW r \in ReservationIds, NEW status \in Terminal, Settled(o, r, status)
  PROVE  Contract!ContractNext
<1> USE DEF ContractInv
<1>1. Status[r] = "PENDING" /\ Status' = [Status EXCEPT ![r] = status]
  BY StatusOfOne DEF Settled, Status
<1>2. Overdue' = Overdue
  BY OverdueStays DEF Settled, Inserted
<1>3. CASE status = "COMMITTED"
  <2>1. tx[o].pc = "write_commit" /\ r = tx[o].call.id
    BY <1>3 DEF Settled
  <2>2. tx[o].call.op = "commit"
    BY <2>1 DEF TypeInv, CallAtPC, CallMatches
  <2>3. r \in Vouched
    BY <2>1, <2>2 DEF CommitInTime, HoldsReservation, Vouched, Committing
  <2>4. Vouched' \subseteq Vouched
    BY <2>1, VouchedStep
  <2>5. Contract!Commit(r)
    BY <1>1, <1>2, <1>3, <2>3, <2>4 DEF Contract!Commit
  <2> QED
    BY <2>5 DEF Contract!ContractNext
<1>4. CASE status = "RELEASED"
  <2>1. tx[o].pc = "write_release" /\ tx[o].call.op = "release"
    BY <1>4 DEF Settled, TypeInv, CallAtPC, CallMatches
  <2>2. Vouched' = Vouched
    BY <2>1, VouchedStep
  <2>3. Contract!Release(r)
    BY <1>1, <1>2, <1>4, <2>2 DEF Contract!Release
  <2> QED
    BY <2>3 DEF Contract!ContractNext
<1> QED
  BY <1>3, <1>4 DEF Terminal

Deleting(o) ==
  \/ PurgeTerminalReservationsBefore(o)
  \/ DeleteReservation(o)
  \/ PurgeExpiredPendingReservations(o)

LEMMA DeleteKeepsContract ==
  ASSUME ContractInv, NEW o \in Requests, Deleting(o)
  PROVE  Contract!ContractNext
<1> USE DEF ContractInv
<1>1. Step(o)
  BY DEF Deleting, Step, Acquire
<1>2. /\ ~\E r \in ReservationIds : Inserted(o, r)
      /\ ~\E r \in ReservationIds, status \in Terminal : Settled(o, r, status)
  BY DEF Deleting, PurgeTerminalReservationsBefore, DeleteReservation,
         PurgeExpiredPendingReservations, Inserted, Settled, Terminal
<1>3. Overdue' = Overdue
  BY <1>1, <1>2, OverdueStays
<1>4. Vouched' = Vouched
  <2>1. /\ ~(tx[o].pc # "idle" /\ tx[o].call.op = "commit")
        /\ tx'[o].pc # "lock_row"
    <3>1. CASE PurgeTerminalReservationsBefore(o)
      BY <3>1, SweepGoesOn
      DEF PurgeTerminalReservationsBefore, TypeInv, CallAtPC, CallMatches
    <3>2. CASE DeleteReservation(o) \/ PurgeExpiredPendingReservations(o)
      <4>1. tx[o].pc = "delete_row" \/ tx[o].pc = "purge_expired"
        BY <3>2 DEF DeleteReservation, PurgeExpiredPendingReservations
      <4>2. tx'[o] = Idle("ok")
        BY <3>2 DEF DeleteReservation, PurgeExpiredPendingReservations, Answer,
           TypeInv, TypeOK
      <4> QED
        BY <4>1, <4>2 DEF Idle, TypeInv, CallAtPC, CallMatches
    <3> QED
      BY <3>1, <3>2 DEF Deleting
  <2> QED
    BY <1>1, <2>1, VouchedStep
<1>5. ASSUME NEW R \in SUBSET ReservationIds, Removed(o, R)
      PROVE  Contract!Forget(R)
  <2>1. ASSUME NEW r \in R
        PROVE  \/ Status[r] \in {"COMMITTED", "RELEASED"}
               \/ Status[r] = "PENDING" /\ r \in Overdue
    <3>1. reservation[r].expiresAt \in Nat /\ clock \in Nat
      BY BoundsAssumption DEF TypeInv, TypeOK, Reservation
    <3> QED
      BY <1>5, <3>1 DEF Removed, RowExists, Live, Active, Status, Overdue
  <2>2. Status' = [r \in ReservationIds |-> IF r \in R THEN "deleted" ELSE Status[r]]
    <3>1. \A r \in ReservationIds :
            reservation'[r].status = IF r \in R THEN "deleted" ELSE reservation[r].status
      BY <1>5 DEF Removed, Deleted, TypeInv, TypeOK, Reservation
    <3> QED
      BY <3>1 DEF Status
  <2> QED
    BY <1>3, <1>4, <2>1, <2>2 DEF Contract!Forget
<1>6. ASSUME UNCHANGED reservation
      PROVE  Contract!Withdraw
  BY <1>3, <1>4, <1>6 DEF Contract!Withdraw, Status
<1>7. UNCHANGED reservation \/ \E R \in SUBSET ReservationIds : Removed(o, R)
  BY <1>1, <1>2, ReservationStep
<1> QED
  BY <1>5, <1>6, <1>7 DEF Contract!ContractNext

(* A commit that comes in time vouches for its reservation, a late one for
   none; the handlers that read do nothing that shows. *)
LEMMA OtherKeepsContract ==
  ASSUME ContractInv, NEW o \in Requests, Step(o), UNCHANGED reservation
  PROVE  Contract!ContractNext
<1> USE DEF ContractInv
<1>1. Status' = Status
  BY DEF Status
<1>2. Overdue' = Overdue
  BY OverdueStep DEF Overdue
<1>3. CASE tx[o].pc = "idle" /\ tx'[o].pc = "lock_row" /\ tx'[o].call.op = "commit"
  <2>1. tx'[o].now = clock /\ RowExists(tx'[o].call.id)
    BY <1>3, CallStep
  <2>2. PICK r \in ReservationIds : r = tx'[o].call.id
    <3>1. CASE Arrive(o)
      BY <1>3, <3>1, CallFields, CallsAssumption
         DEF Arrive, requireWarehouseAndItem, loadAndAuthorize, BeginDelete,
         CreateItem, Begin, Answer, Idle, TypeInv, TypeOK
    <3>2. ~Acquire(o) /\ ~Proceed(o) /\ ~Fail(o)
      BY <1>3 DEF Acquire, Proceed, Fail, LockStock, LockReservation, DeleteReservation,
         PurgeTerminalReservationsBefore, PurgeExpiredPendingReservations, DeleteItems,
         FindKey, SumActive, InsertReservation, WriteStock, WriteCommit, WriteRelease
    <3> QED
      BY <3>1, <3>2 DEF Step
  <2>3. /\ \A q \in Requests \ {o} : tx'[q] = tx[q]
        /\ \A s : ~Committing(o, s)
    BY <1>3, LocksStep DEF Committing
  <2>4. \A s : Committing(o, s)' <=> s = r
    BY <1>3, <2>2 DEF Committing
  <2>5. Vouched' = IF clock < reservation[r].expiresAt THEN Vouched \cup {r} ELSE Vouched
    <3>1. \A q \in Requests \ {o}, s \in ReservationIds :
            /\ Committing(q, s)' <=> Committing(q, s)
            /\ tx'[q].now < reservation'[s].expiresAt
                 <=> tx[q].now < reservation[s].expiresAt
      BY <2>3 DEF Committing
    <3> QED
      BY <2>1, <2>3, <2>4, <3>1 DEF Vouched
  <2>6. CASE clock < reservation[r].expiresAt
    <3>1. r \notin Overdue /\ Status[r] # "free"
      <4>1. reservation[r].expiresAt \in Nat /\ clock \in Nat
        BY BoundsAssumption DEF TypeInv, TypeOK, Reservation
      <4> QED
        BY <2>1, <2>2, <2>6, <4>1 DEF Overdue, Status, RowExists, Live
    <3>2. Contract!Vouch(r)
      BY <1>1, <1>2, <2>5, <2>6, <3>1 DEF Contract!Vouch, Contract!Made
    <3> QED
      BY <3>2 DEF Contract!ContractNext
  <2>7. CASE ~(clock < reservation[r].expiresAt)
    BY <1>1, <1>2, <2>5, <2>7 DEF Contract!Withdraw, Contract!ContractNext
  <2> QED
    BY <2>6, <2>7
<1>4. CASE ~(tx[o].pc = "idle" /\ tx'[o].pc = "lock_row" /\ tx'[o].call.op = "commit")
  <2>1. Vouched' \subseteq Vouched
    BY <1>4, VouchedStep
  <2> QED
    BY <1>1, <1>2, <2>1 DEF Contract!Withdraw, Contract!ContractNext
<1> QED
  BY <1>3, <1>4

LEMMA ContractStep ==
  ASSUME ContractInv, [Next]_vars
  PROVE  [Contract!ContractNext]_(Contract!contract)
<1> USE DEF ContractInv
<1>1. CASE Tick
  <2>1. UNCHANGED <<reservation, tx>> /\ clock' = clock + 1
    BY <1>1 DEF Tick
  <2>2. Status' = Status /\ Vouched' = Vouched
    BY <2>1 DEF Status, Vouched, Committing
  <2>3. Overdue \subseteq Overdue'
    <3>1. \A r \in ReservationIds : reservation[r].expiresAt \in Nat
      BY DEF TypeInv, TypeOK, Reservation
    <3>2. clock \in Nat
      BY BoundsAssumption DEF TypeInv, TypeOK
    <3> QED
      BY <2>1, <3>1, <3>2 DEF Overdue
  <2>4. Overdue' \subseteq Contract!Made
    BY <2>1 DEF Overdue, Contract!Made, Status
  <2>5. Contract!Pass(Overdue')
    BY <2>2, <2>3, <2>4 DEF Contract!Pass
  <2>6. Overdue' \in SUBSET ReservationIds
    BY <2>4 DEF Contract!Made
  <2> QED
    BY <2>5, <2>6 DEF Contract!ContractNext
<1>2. CASE UNCHANGED vars
  BY <1>2 DEF vars, Contract!contract, Status, Overdue, Vouched, Committing
<1>3. ASSUME NEW o \in Requests, Step(o) PROVE Contract!ContractNext
  <2>1. CASE Deleting(o)
    BY <2>1, DeleteKeepsContract
  <2>2. CASE InsertReservation(o)
    BY <1>3, <2>2, InsertKeepsContract, OtherKeepsContract
       DEF InsertReservation, Inserted
  <2>3. CASE WriteCommit(o) \/ WriteRelease(o)
    <3>1. PICK r \in ReservationIds : r = tx[o].call.id
      BY <2>3, CallFields DEF WriteCommit, WriteRelease, TypeInv, CallAtPC, CallMatches
    <3>2. reservation[r].status = "PENDING"
      BY <2>3, <3>1 DEF WriteCommit, WriteRelease, LockInv, ReservationHeld,
         HoldsReservation
    <3>3. UNCHANGED reservation \/ \E status \in Terminal : Settled(o, r, status)
      BY <2>3, <3>1, <3>2 DEF WriteCommit, WriteRelease, Settled, Terminal
    <3> QED
      BY <1>3, <3>3, SettleKeepsContract, OtherKeepsContract
  <2>4. CASE ~(Deleting(o) \/ InsertReservation(o) \/ WriteCommit(o) \/ WriteRelease(o))
    <3>1. UNCHANGED reservation
      BY <1>3, <2>4 DEF Step, Arrive, requireWarehouseAndItem, loadAndAuthorize,
         BeginDelete, CreateItem, Acquire, DeleteItems, Proceed, Fail, LockStock,
         LockReservation, FindKey, SumActive, WriteStock, Deleting
    <3> QED
      BY <1>3, <3>1, OtherKeepsContract
  <2> QED
    BY <2>1, <2>2, <2>3, <2>4
<1> QED
  BY <1>1, <1>2, <1>3 DEF Next, Step

(* Whatever handlers run at the same time, a reservation is settled once,
   deleted only when it holds nothing, and committed only by a commit that came
   in before it expired: what Shipment builds on (Commit, Release, the deletes). *)
THEOREM InventoryKeepsContract == Spec => KeepsContract
<1>1. Init => Contract!ContractInit
  BY DEF Init, Contract!ContractInit, Status, Overdue, Vouched, Committing, FreeRow, Idle
<1>2. ContractInv /\ [Next]_vars => [Contract!ContractNext]_(Contract!contract)
  BY ContractStep
<1> QED
  BY <1>1, <1>2, ContractInvariant, PTL DEF Spec, KeepsContract, Contract!ContractSpec
=============================================================================

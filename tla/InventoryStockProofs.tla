------------------------ MODULE InventoryStockProofs ------------------------
(***************************************************************************)
(* Theorems about the stock Inventory keeps: it is charged once for each   *)
(* committed reservation, and active reservations hold no more than there  *)
(* is.  They rest on the row locks (LockInvariant of InventoryProofs).     *)
(***************************************************************************)
EXTENDS InventoryProofs

(* Sums of quantities over sets of reservations. *)
LEMMA QuantityEmpty == Quantity({}) = 0
<1>1. Units(reservation, {}) = {}
  BY DEF Units
<1> QED
  BY <1>1, FS_EmptySet DEF Quantity

LEMMA QuantityMonotone ==
  ASSUME TypeInv, NEW T \in SUBSET ReservationIds, NEW R \in SUBSET T
  PROVE  Quantity(R) <= Quantity(T)
<1>1. IsFiniteSet(Units(reservation, T))
  BY QuantityType
<1>2. Units(reservation, R) \subseteq Units(reservation, T)
  BY DEF Units
<1> QED
  BY <1>1, <1>2, FS_Subset DEF Quantity

LEMMA QuantityAdd ==
  ASSUME TypeInv, NEW R \in SUBSET ReservationIds,
         NEW r \in ReservationIds \ R
  PROVE  Quantity(R \cup {r}) = Quantity(R) + reservation[r].quantity
<1> DEFINE n == reservation[r].quantity
           U == {r} \X (1 .. n)
<1>1. n \in Nat /\ n > 0
  BY BoundsAssumption DEF TypeInv, TypeOK, Reservation, Quantities
<1>2. IsFiniteSet(U) /\ Cardinality(U) = n
  <2>1. IsFiniteSet(1 .. n) /\ Cardinality(1 .. n) = n
    <3>1. 1 \in Int /\ n \in Int
      BY <1>1
    <3>2. /\ IsFiniteSet(1 .. n)
          /\ Cardinality(1 .. n) = IF 1 > n THEN 0 ELSE n - 1 + 1
      BY <3>1, FS_Interval, Zenon
    <3> HIDE DEF n
    <3> QED
      BY <1>1, <3>2
  <2>2. IsFiniteSet({r}) /\ Cardinality({r}) = 1
    BY FS_Singleton
  <2> QED
    BY <1>1, <2>1, <2>2, FS_Product
<1>3. IsFiniteSet(Units(reservation, R)) /\ Quantity(R) \in Nat
  BY QuantityType
<1>4. Units(reservation, R) \cap U = {}
  BY DEF Units
<1>5. Units(reservation, R \cup {r}) = Units(reservation, R) \cup U
  BY DEF Units
<1>6. Cardinality(Units(reservation, R) \cap U) = 0
  BY <1>4, FS_EmptySet
<1>7. Cardinality(Units(reservation, R) \cup U)
        = Quantity(R) + n - Cardinality(Units(reservation, R) \cap U)
  BY <1>2, <1>3, FS_Union, Zenon DEF Quantity
<1>8. Quantity(R \cup {r}) = Cardinality(Units(reservation, R) \cup U)
  BY <1>5 DEF Quantity
<1> HIDE DEF U
<1> QED
  BY <1>1, <1>3, <1>6, <1>7, <1>8

LEMMA QuantityStays ==
  ASSUME NEW R,
         \A r \in R : reservation'[r].quantity = reservation[r].quantity
  PROVE  Quantity(R)' = Quantity(R)
<1>1. Units(reservation, R)' = Units(reservation, R)
  BY DEF Units
<1> QED
  BY <1>1 DEF Quantity

(* What a row says but for its status stays, once it is there. *)
LEMMA RowStays ==
  ASSUME TypeInv, LockInv, NEW o \in Requests, Step(o),
         NEW r \in ReservationIds, reservation[r].status # "free"
  PROVE  /\ reservation'[r].pair = reservation[r].pair
         /\ reservation'[r].quantity = reservation[r].quantity
         /\ reservation'[r].expiresAt = reservation[r].expiresAt
         /\ reservation'[r].status = "PENDING" => reservation[r].status = "PENDING"
<1> USE DEF TypeInv, TypeOK
<1>1. ASSUME NEW s \in ReservationIds, Inserted(o, s)
      PROVE  reservation'[r] = reservation[r]
  BY <1>1 DEF Inserted
<1>2. ASSUME NEW s \in ReservationIds, NEW status \in Terminal,
             Settled(o, s, status)
      PROVE  \/ reservation'[r] = reservation[r]
             \/ reservation'[r] = [reservation[r] EXCEPT !.status = status]
  BY <1>2 DEF Settled
<1>3. ASSUME NEW R \in SUBSET ReservationIds, Removed(o, R)
      PROVE  \/ reservation'[r] = reservation[r]
             \/ reservation'[r] = [reservation[r] EXCEPT !.status = "deleted"]
  BY <1>3 DEF Removed, Deleted
<1>4. \/ reservation'[r] = reservation[r]
      \/ \E status \in Terminal \cup {"deleted"} :
           reservation'[r] = [reservation[r] EXCEPT !.status = status]
  BY <1>1, <1>2, <1>3, ReservationStep
<1>5. reservation[r] \in Reservation
  OBVIOUS
<1> QED
  BY <1>4, <1>5 DEF Reservation, Terminal
-----------------------------------------------------------------------------
(* The ledger *)

(* What has been taken from a stock row was committed. *)
TakenCommitted ==
  \A p \in Pairs : \A r \in taken[p] :
    reservation[r].status \in {"COMMITTED", "deleted"}

LedgerInv == TakenCommitted /\ LedgerBalanced

(* Only SetStock and Commit write a stock row that stays. *)
LEMMA OtherStepsKeepStock ==
  ASSUME TypeInv, NEW o \in Requests, Step(o), ~WriteStock(o), ~WriteCommit(o)
  PROVE  /\ UNCHANGED history
         /\ \A p \in Pairs : stock'[p] \in {stock[p], NoRow}
<1> USE DEF TypeInv, TypeOK
<1>1. CASE Arrive(o)
  BY <1>1 DEF Arrive, requireWarehouseAndItem, loadAndAuthorize, BeginDelete,
     CreateItem
<1>2. CASE DeleteItems(o)
  BY <1>2 DEF DeleteItems
<1>3. CASE ~Arrive(o) /\ ~DeleteItems(o)
  BY <1>3 DEF Step, Acquire, Proceed, LockStock, LockReservation,
     DeleteReservation, PurgeTerminalReservationsBefore,
     PurgeExpiredPendingReservations, FindKey, SumActive, InsertReservation,
     WriteRelease, Fail
<1> QED
  BY <1>1, <1>2, <1>3

(* Writing the status of one row changes nothing else in the table. *)
LEMMA StatusUpdate ==
  ASSUME reservation \in [ReservationIds -> Reservation],
         NEW r \in ReservationIds, NEW status,
         reservation' = [reservation EXCEPT ![r].status = status]
  PROVE  /\ reservation'[r].status = status
         /\ \A i \in ReservationIds \ {r} : reservation'[i] = reservation[i]
         /\ \A i \in ReservationIds :
              /\ reservation'[i].quantity = reservation[i].quantity
              /\ reservation'[i].pair = reservation[i].pair
<1>1. DOMAIN reservation = ReservationIds /\ reservation[r] \in Reservation
  OBVIOUS
<1>2. reservation'[r] = [reservation[r] EXCEPT !.status = status]
  BY <1>1
<1>3. \A i \in ReservationIds \ {r} : reservation'[i] = reservation[i]
  BY <1>1
<1>4. /\ reservation'[r].status = status
      /\ reservation'[r].quantity = reservation[r].quantity
      /\ reservation'[r].pair = reservation[r].pair
  BY <1>1, <1>2 DEF Reservation
<1> QED
  BY <1>3, <1>4

(* What a Commit charges: the reservation it holds, to the stock row it holds. *)
LEMMA CommitStep ==
  ASSUME TypeInv, LockInv, NEW o \in Requests, WriteCommit(o)
  PROVE  LET r == tx[o].call.id
             p == reservation[r].pair
             n == reservation[r].quantity
         IN  /\ r \in ReservationIds /\ p \in Pairs /\ n \in Nat
             /\ reservation[r].status = "PENDING"
             /\ stock[p] # NoRow /\ stock[p] \in Nat
             /\ \/ UNCHANGED <<stock, reservation, history>>
                \/ /\ stock[p] >= n
                   /\ stock' = [stock EXCEPT ![p] = @ - n]
                   /\ reservation' = [reservation EXCEPT ![r].status = "COMMITTED"]
                   /\ taken' = [taken EXCEPT ![p] = @ \cup {r}]
                   /\ late' = IF reservation[r].expiresAt <= clock
                                THEN late \cup {r} ELSE late
                   /\ UNCHANGED level
<1> DEFINE r == tx[o].call.id
           p == reservation[r].pair
           n == reservation[r].quantity
<1> USE DEF TypeInv, TypeOK
<1>1. CallMatches(tx[o]) /\ tx[o].pc = "write_commit"
  BY DEF CallAtPC, WriteCommit
<1>2. r \in ReservationIds
  BY <1>1, CallFields DEF CallMatches
<1>3. p \in Pairs /\ n \in Nat
  BY <1>2, BoundsAssumption DEF Reservation, Quantities
<1>4. reservation[r].status = "PENDING"
  BY <1>1 DEF LockInv, ReservationHeld, HoldsReservation
<1>5. HoldsStock(o) /\ PairOf(o) = p
  BY <1>1 DEF HoldsStock, PairOf, CallMatches
<1>6. stock[p] = tx[o].onHand /\ stock[p] # NoRow /\ stock[p] \in Nat
  BY <1>3, <1>5 DEF LockInv, StockHeld, HoldsStock
<1>7. \/ UNCHANGED <<stock, reservation, history>>
      \/ /\ stock[p] >= n
         /\ stock' = [stock EXCEPT ![p] = @ - n]
         /\ reservation' = [reservation EXCEPT ![r].status = "COMMITTED"]
         /\ taken' = [taken EXCEPT ![p] = @ \cup {r}]
         /\ late' = IF reservation[r].expiresAt <= clock
                      THEN late \cup {r} ELSE late
         /\ UNCHANGED level
  <2>1. CASE Underflow(o, n)
    BY ONLY <2>1, WriteCommit(o) DEF WriteCommit
  <2>2. CASE ~Underflow(o, n)
    <3>1. stock[p] >= n
      BY <1>3, <1>6, <2>2 DEF Underflow
    <3> QED
      BY ONLY <1>6, <2>2, <3>1, WriteCommit(o) DEF WriteCommit
  <2> QED
    BY ONLY <2>1, <2>2
<1>8. /\ r \in ReservationIds /\ p \in Pairs /\ n \in Nat
      /\ reservation[r].status = "PENDING"
      /\ stock[p] # NoRow /\ stock[p] \in Nat
  BY ONLY <1>2, <1>3, <1>4, <1>6
<1> QED
  BY ONLY <1>7, <1>8

LEMMA LedgerStep ==
  ASSUME TypeInv, LockInv, LedgerInv, NEW o \in Requests, Step(o)
  PROVE  LedgerInv'
<1> USE DEF TypeInv, TypeOK
<1>0. ASSUME NEW p \in Pairs, NEW r \in taken[p]
      PROVE  /\ r \in ReservationIds
             /\ reservation[r].status \in {"COMMITTED", "deleted"}
             /\ reservation'[r].status \in {"COMMITTED", "deleted"}
             /\ reservation'[r].quantity = reservation[r].quantity
  BY OutcomeStays, RowStays DEF LedgerInv, TakenCommitted, Terminal
<1>1. CASE WriteCommit(o)
  <2> DEFINE r == tx[o].call.id
             q == reservation[r].pair
             n == reservation[r].quantity
  <2>1. /\ r \in ReservationIds /\ q \in Pairs /\ n \in Nat
        /\ reservation[r].status = "PENDING"
        /\ stock[q] # NoRow /\ stock[q] \in Nat
    BY <1>1, CommitStep
  <2>2. CASE UNCHANGED <<stock, reservation, history>>
    BY <2>2 DEF history, LedgerInv, TakenCommitted, LedgerBalanced, Quantity
  <2>3. CASE /\ stock[q] >= n
             /\ stock' = [stock EXCEPT ![q] = @ - n]
             /\ reservation' = [reservation EXCEPT ![r].status = "COMMITTED"]
             /\ taken' = [taken EXCEPT ![q] = @ \cup {r}]
             /\ UNCHANGED level
    <3>1. r \notin taken[q]
      BY <1>0, <2>1
    <3>2. TakenCommitted'
      <4>1. reservation'[r].status = "COMMITTED"
        BY <2>1, <2>3, StatusUpdate
      <4>2. \A p \in Pairs : \A i \in taken'[p] : i = r \/ i \in taken[p]
        BY <2>1, <2>3
      <4> QED
        BY ONLY <1>0, <2>1, <4>1, <4>2 DEF TakenCommitted
    <3>3. ASSUME NEW p \in Pairs, stock'[p] # NoRow
          PROVE  stock'[p] + Cardinality(Units(reservation', taken'[p])) = level'[p]
      <4>1. \A i \in ReservationIds :
              reservation'[i].quantity = reservation[i].quantity
        BY <2>1, <2>3 DEF Reservation
      <4>2. CASE p = q
        <5>1. stock[q] + Quantity(taken[q]) = level[q]
          BY <2>1 DEF LedgerInv, LedgerBalanced
        <5>2. Quantity(taken[q] \cup {r}) = Quantity(taken[q]) + n
          BY <2>1, <3>1, QuantityAdd
        <5>3. Cardinality(Units(reservation', taken[q] \cup {r}))
                = Quantity(taken[q] \cup {r})
          <6>1. \A i \in taken[q] \cup {r} :
                  reservation'[i].quantity = reservation[i].quantity
            BY <1>0, <2>1, <4>1
          <6>2. Units(reservation', taken[q] \cup {r})
                  = Units(reservation, taken[q] \cup {r})
            BY <6>1 DEF Units
          <6> QED
            BY <6>2 DEF Quantity
        <5>4. Quantity(taken[q]) \in Nat
          BY <2>1, QuantityType
        <5>5. stock'[p] = stock[q] - n /\ taken'[p] = taken[q] \cup {r}
              /\ level'[p] = level[q]
          BY <2>1, <2>3, <4>2
        <5> HIDE DEF q, n, r
        <5> QED
          BY <2>1, <5>1, <5>2, <5>3, <5>4, <5>5
      <4>3. CASE p # q
        <5>1. stock'[p] = stock[p] /\ taken'[p] = taken[p] /\ level'[p] = level[p]
          BY <2>3, <4>3
        <5>2. Units(reservation', taken[p]) = Units(reservation, taken[p])
          BY <4>1 DEF Units
        <5> QED
          BY <3>3, <5>1, <5>2 DEF LedgerInv, LedgerBalanced, Quantity
      <4> QED
        BY <4>2, <4>3
    <3> QED
      BY <3>2, <3>3 DEF LedgerInv, LedgerBalanced, Quantity
  <2> QED
    BY <1>1, <2>2, <2>3, CommitStep
<1>2. CASE ~WriteCommit(o)
  <2>1. ASSUME NEW p \in Pairs
        PROVE  \/ /\ stock'[p] \in {stock[p], NoRow}
                  /\ taken'[p] = taken[p] /\ level'[p] = level[p]
               \/ /\ stock'[p] \in Nat
                  /\ taken'[p] = {} /\ level'[p] = stock'[p]
    <3>1. CASE WriteStock(o)
      <4>1. tx[o].call.onHand \in Nat
        BY <3>1, CallFields DEF WriteStock, CallAtPC, CallMatches
      <4> QED
        BY <3>1, <4>1 DEF WriteStock, history
    <3>2. CASE ~WriteStock(o)
      BY <1>2, <3>2, OtherStepsKeepStock DEF history
    <3> QED
      BY <3>1, <3>2
  <2>2. TakenCommitted'
    BY <1>0, <2>1 DEF TakenCommitted
  <2>3. ASSUME NEW p \in Pairs, stock'[p] # NoRow
        PROVE  stock'[p] + Cardinality(Units(reservation', taken'[p])) = level'[p]
    <3>1. CASE /\ stock'[p] = stock[p]
               /\ taken'[p] = taken[p] /\ level'[p] = level[p]
      <4>1. Units(reservation', taken[p]) = Units(reservation, taken[p])
        BY <1>0 DEF Units
      <4> QED
        BY <2>3, <3>1, <4>1 DEF LedgerInv, LedgerBalanced, Quantity
    <3>2. CASE stock'[p] \in Nat /\ taken'[p] = {} /\ level'[p] = stock'[p]
      <4>1. Cardinality(Units(reservation', taken'[p])) = 0
        BY <3>2, FS_EmptySet DEF Units
      <4> QED
        BY <3>2, <4>1
    <3> QED
      BY <2>1, <2>3, <3>1, <3>2
  <2> QED
    BY <2>2, <2>3 DEF LedgerInv, LedgerBalanced, Quantity
<1> QED
  BY <1>1, <1>2

(* Stock is charged once for each committed reservation and for nothing else:
   what is on hand and what has been committed since SetStock make up what
   SetStock put there, whatever runs at the same time, fails or is retried. *)
THEOREM StockIsBalanced == Spec => []LedgerBalanced
<1>1. Init => LedgerInv
  BY DEF Init, LedgerInv, TakenCommitted, LedgerBalanced
<1>2. TypeInv /\ LockInv /\ LedgerInv /\ [Next]_vars => LedgerInv'
  <2> SUFFICES ASSUME TypeInv, LockInv, LedgerInv, [Next]_vars
               PROVE  LedgerInv'
    OBVIOUS
  <2>1. CASE Tick \/ UNCHANGED vars
    BY <2>1 DEF Tick, vars, history, LedgerInv, TakenCommitted,
       LedgerBalanced, Quantity
  <2>2. ASSUME NEW o \in Requests, Step(o) PROVE LedgerInv'
    BY <2>2, LedgerStep
  <2> QED
    BY <2>1, <2>2 DEF Next, Step
<1>3. LedgerInv => LedgerBalanced
  BY DEF LedgerInv
<1> QED
  BY <1>1, <1>2, <1>3, LockInvariant, PTL DEF Spec
-----------------------------------------------------------------------------
(* Holds *)

(* A reserve that is about to insert leaves room for what it inserts, since
   nobody else can reserve or take stock while it holds the stock row. *)
RoomToInsert ==
  \A q \in Requests : tx[q].pc = "insert" =>
    Held(tx[q].call.pair) + tx[q].call.quantity <= tx[q].onHand

(* SetStock either updates the row it holds, or inserts one where there has
   been none, and then nobody has reserved since it looked. *)
Settable(q) ==
  /\ tx[q].pc = "write_stock"
  /\ \/ tx[q].onHand # NoRow
     \/ ~InsertRefused(tx[q].call.pair)

RoomToSet ==
  \A q \in Requests : Settable(q) => Held(tx[q].call.pair) <= tx[q].call.onHand

(* An item that a SetStock has seen is there or was deleted. *)
ItemSeen ==
  \A q \in Requests :
    tx[q].pc # "idle" /\ tx[q].call.op = "set_stock"
      => items[tx[q].call.pair[2]] # "free"

RoomInv == InsertHasStock /\ ItemSeen /\ RoomToInsert /\ RoomToSet

LEMMA HeldType ==
  ASSUME TypeInv, NEW p, NEW now
  PROVE  sumActive(p, now) \in Nat
BY QuantityType DEF sumActive, Holding

(* Unless a reservation is inserted for the pair, what is held there does not
   grow. *)
LEMMA HeldShrinks ==
  ASSUME TypeInv, LockInv, NEW o \in Requests, Step(o), NEW p \in Pairs,
         tx[o].pc = "insert" => tx[o].call.pair # p \/ UNCHANGED reservation
  PROVE  Held(p)' <= Held(p) /\ Held(p)' \in Nat /\ Held(p) \in Nat
<1> DEFINE H == Holding(p, clock)
           K == {r \in ReservationIds :
                   /\ reservation'[r].pair = p
                   /\ reservation'[r].status = "PENDING"
                   /\ reservation'[r].expiresAt > clock}
<1>1. clock' = clock
  BY TimeIsPastStep
<1>2. ASSUME NEW r \in K
      PROVE  r \in H /\ reservation'[r].quantity = reservation[r].quantity
  <2>1. reservation[r].status # "free"
    <3>1. ASSUME reservation[r].status = "free", NEW s \in ReservationIds, Inserted(o, s)
          PROVE  FALSE
      <4>1. tx[o].call.pair = p \/ r # s
        BY <3>1 DEF Inserted, TypeInv, TypeOK
      <4>2. r # s
        <5>1. ~UNCHANGED reservation
          BY <3>1 DEF Inserted, TypeInv, TypeOK
        <5> QED
          BY <3>1, <4>1, <5>1 DEF Inserted
      <4> QED
        BY <1>2, <3>1, <4>2 DEF Inserted, TypeInv, TypeOK
    <3>2. ASSUME reservation[r].status = "free", NEW s \in ReservationIds,
                 NEW status \in Terminal, Settled(o, s, status)
          PROVE  FALSE
      BY <1>2, <3>2 DEF Settled, TypeInv, TypeOK
    <3>3. ASSUME reservation[r].status = "free",
                 NEW R \in SUBSET ReservationIds, Removed(o, R)
          PROVE  FALSE
      BY <1>2, <3>3 DEF Removed, Deleted, RowExists, Live, TypeInv, TypeOK
    <3>4. reservation[r].status = "free" => ~UNCHANGED reservation
      BY <1>2
    <3> QED
      BY <3>1, <3>2, <3>3, <3>4, ReservationStep
  <2> QED
    BY <1>2, <2>1, RowStays DEF Holding
<1>3. Units(reservation', K) = Units(reservation, K)
  BY <1>2 DEF Units
<1>4. Quantity(K) <= Quantity(H)
  <2>1. K \in SUBSET H /\ H \in SUBSET ReservationIds
    BY <1>2 DEF Holding
  <2> QED
    BY <2>1, QuantityMonotone
<1>5. Held(p)' = Cardinality(Units(reservation', K))
  BY <1>1 DEF Held, sumActive, Holding, Quantity
<1>6. Quantity(K) \in Nat /\ Held(p) \in Nat
  BY QuantityType, HeldType DEF Held
<1> QED
  BY <1>3, <1>4, <1>5, <1>6 DEF Held, sumActive, Quantity

(* Time only frees stock. *)
LEMMA HeldFades ==
  ASSUME TypeInv, NEW p \in Pairs, NEW now \in Nat, NEW later \in Nat,
         now <= later
  PROVE  sumActive(p, later) <= sumActive(p, now)
<1>1. Holding(p, later) \subseteq Holding(p, now)
  BY DEF Holding, TypeInv, TypeOK, Reservation
<1>2. Holding(p, now) \in SUBSET ReservationIds
  BY DEF Holding
<1> QED
  BY <1>1, <1>2, QuantityMonotone DEF sumActive

LEMMA ItemSeenStep ==
  ASSUME TypeInv, LockInv, ItemSeen, NEW o \in Requests, Step(o)
  PROVE  /\ ItemSeen'
         /\ \A i \in Items : items[i] # "free" /\ items'[i] = "present"
                               => items[i] = "present"
<1> USE DEF TypeInv, TypeOK
<1>1. \A i \in Items : items[i] # "free" =>
        /\ items'[i] # "free"
        /\ items'[i] = "present" => items[i] = "present"
  <2>1. CASE Arrive(o)
    <3>1. PICK c \in Calls : \/ requireWarehouseAndItem(o, c)
                             \/ loadAndAuthorize(o, c)
                             \/ BeginDelete(o, c)
                             \/ CreateItem(o, c)
      BY <2>1 DEF Arrive
    <3>2. CASE CreateItem(o, c)
      BY <3>2 DEF CreateItem
    <3> QED
      BY <3>1, <3>2 DEF requireWarehouseAndItem, loadAndAuthorize, BeginDelete
  <2>2. CASE DeleteItems(o)
    BY <2>2 DEF DeleteItems
  <2>3. CASE ~Arrive(o) /\ ~DeleteItems(o)
    BY <2>3 DEF Step, Acquire, Proceed, LockStock, LockReservation,
       DeleteReservation, PurgeTerminalReservationsBefore,
       PurgeExpiredPendingReservations, FindKey, SumActive,
       InsertReservation, WriteStock, WriteCommit, WriteRelease, Fail
  <2> QED
    BY <2>1, <2>2, <2>3
<1>2. ASSUME NEW q \in Requests, tx'[q].pc # "idle",
             tx'[q].call.op = "set_stock"
      PROVE  items'[tx'[q].call.pair[2]] # "free"
  <2>1. /\ tx'[q].call \in AllCalls
        /\ tx'[q].call.pair[2] \in Items
    <3>1. CallAtPC'
      BY TypeNext DEF Next, Step
    <3>2. tx'[q].call \in AllCalls
      BY <1>2, <3>1 DEF CallAtPC, CallMatches
    <3>3. tx'[q].call.pair \in Pairs
      BY <1>2, <3>2, CallFields
    <3> QED
      BY <3>2, <3>3 DEF Pairs
  <2>2. CASE tx'[q].call = tx[q].call /\ tx[q].pc # "idle"
    BY <1>1, <1>2, <2>1, <2>2 DEF ItemSeen
  <2>3. CASE Arrive(o) /\ q = o
    <3>1. PICK c \in Calls : \/ requireWarehouseAndItem(o, c)
                             \/ loadAndAuthorize(o, c)
                             \/ BeginDelete(o, c)
                             \/ CreateItem(o, c)
      BY <2>3 DEF Arrive
    <3>2. CASE requireWarehouseAndItem(o, c)
      BY <1>2, <2>3, <3>2 DEF requireWarehouseAndItem, Begin, Answer, Idle
    <3>3. CASE ~requireWarehouseAndItem(o, c)
      BY <1>2, <2>3, <3>1, <3>3 DEF loadAndAuthorize, BeginDelete, CreateItem,
         Begin, Answer, Idle
    <3> QED
      BY <3>2, <3>3
  <2>4. q # o => tx'[q].call = tx[q].call /\ tx[q].pc # "idle"
    BY <1>2, LocksStep
  <2>5. CASE ~Arrive(o) /\ q = o
    <3>1. tx[o].pc # "idle"
      BY <2>5 DEF Step, Acquire, Proceed, LockStock, LockReservation,
         DeleteReservation, PurgeTerminalReservationsBefore,
         PurgeExpiredPendingReservations, DeleteItems, FindKey, SumActive,
         InsertReservation, WriteStock, WriteCommit, WriteRelease, Fail
    <3>2. CASE LockStock(o) \/ LockReservation(o)
      <4>1. tx'[o].pc = "idle" \/ tx'[o].call = tx[o].call
        BY <3>2 DEF LockStock, LockReservation, Answer, Goto, Idle, Tx
      <4> QED
        BY <1>2, <2>2, <2>5, <3>1, <4>1
    <3>3. CASE PurgeTerminalReservationsBefore(o)
      BY <2>2, <2>5, <3>1, <3>3, SweepGoesOn
    <3>4. CASE ~LockStock(o) /\ ~LockReservation(o)
               /\ ~PurgeTerminalReservationsBefore(o)
      <4>1. \/ \E code \in Codes : Answer(o, code)
            \/ \E pc \in PCs : Goto(o, pc)
        BY <2>5, <3>4, FurtherStep DEF PCs
      <4>2. ~\E code \in Codes : Answer(o, code)
        BY <1>2, <2>5 DEF Answer, Idle
      <4>3. tx'[o].call = tx[o].call
        BY <4>1, <4>2 DEF Goto, Tx
      <4> QED
        BY <2>2, <2>5, <3>1, <4>3
    <3> QED
      BY <3>2, <3>3, <3>4
  <2> QED
    BY <2>2, <2>3, <2>4, <2>5
<1> QED
  BY <1>1, <1>2 DEF ItemSeen

LEMMA RoomToInsertStep ==
  ASSUME TypeInv, LockInv, RoomInv, NEW o \in Requests, Step(o)
  PROVE  RoomToInsert'
<1> SUFFICES ASSUME NEW q \in Requests, tx'[q].pc = "insert",
                    NEW p, p = tx'[q].call.pair
             PROVE  Held(p)' + tx'[q].call.quantity <= tx'[q].onHand
  BY DEF RoomToInsert, Held, sumActive, Holding, Quantity
<1> USE DEF TypeInv, TypeOK
<1>1. CASE q # o
  <2>1. tx'[q] = tx[q] /\ CallMatches(tx[q]) /\ tx[q] \in Tx
        /\ tx[q].call.pair = p
    BY <1>1, LocksStep DEF CallAtPC
  <2>2. /\ tx[q].onHand # NoRow /\ HoldsStock(q) /\ PairOf(q) = p
        /\ p \in Pairs /\ tx[q].call.quantity \in Nat
    BY <2>1, CallFields
    DEF RoomInv, InsertHasStock, HoldsStock, PairOf, CallMatches, Quantities
  <2>3. tx[o].pc = "insert" => tx[o].call.pair # p
    <3>1. SUFFICES ASSUME tx[o].pc = "insert" PROVE tx[o].call.pair # p
      OBVIOUS
    <3>2. HoldsStock(o) /\ PairOf(o) = tx[o].call.pair
      BY <3>1 DEF RoomInv, InsertHasStock, HoldsStock, PairOf, CallAtPC, CallMatches
    <3> QED
      BY <1>1, <2>2, <3>2 DEF LockInv, StockHeld, Exclusive
  <2>4. Held(p)' <= Held(p) /\ Held(p) \in Nat /\ Held(p)' \in Nat
    BY <2>2, <2>3, HeldShrinks
  <2>6. Held(p) + tx[q].call.quantity <= tx[q].onHand /\ tx[q].onHand \in Nat
    BY <2>1, <2>2 DEF RoomInv, RoomToInsert, Tx
  <2> QED
    BY <2>1, <2>2, <2>4, <2>6
<1>2. CASE q = o
  <2>1. SumActive(o) /\ Goto(o, "insert")
    <3>1. CASE Arrive(o)
      BY <1>2, <3>1 DEF Arrive, requireWarehouseAndItem, loadAndAuthorize,
         BeginDelete, CreateItem, Begin, Answer, Idle
    <3>2. CASE LockStock(o) \/ LockReservation(o) \/ FindKey(o)
      BY <1>2, <3>2
      DEF LockStock, LockReservation, FindKey, Answer, Goto, Idle, Tx
    <3>3. CASE SumActive(o)
      BY <1>2, <3>3 DEF SumActive, Answer, Goto, Idle, Tx
    <3>4. CASE PurgeTerminalReservationsBefore(o)
      BY <1>2, <3>4, SweepGoesOn
    <3>5. CASE ~Arrive(o) /\ ~LockStock(o) /\ ~LockReservation(o)
               /\ ~PurgeTerminalReservationsBefore(o)
               /\ ~FindKey(o) /\ ~SumActive(o)
      <4>1. \E code \in Codes : Answer(o, code)
        BY <3>5, LastStep
      <4> QED
        BY <1>2, <4>1 DEF Answer, Idle
    <3> QED
      BY <3>1, <3>2, <3>3, <3>4, <3>5
  <2> DEFINE c == tx[o].call
             s == sumActive(p, tx[o].now)
  <2>2. tx[o] \in Tx /\ c \in AllCalls
    BY <2>1 DEF SumActive, CallAtPC, CallMatches
  <2>p. c.pair = p
    BY <1>2, <2>1, <2>2 DEF Goto, Tx
  <2>3. c.op = "reserve" /\ ~(OnHandRead(o) < s + c.quantity)
    <3>1. ~Answer(o, "INSUFFICIENT_STOCK") /\ ~Answer(o, "STOCK_BELOW_RESERVED")
          /\ ~Goto(o, "write_stock")
      BY <1>2 DEF Answer, Goto, Idle, Tx
    <3> QED
      BY <2>1, <2>p, <3>1 DEF SumActive
  <2>4. p \in Pairs /\ c.quantity \in Nat
    BY <2>2, <2>p, <2>3, CallFields DEF Quantities
  <2>5. s \in Nat /\ Held(p) \in Nat
    BY HeldType DEF Held
  <2>6. Held(p) <= s
    BY <2>2, <2>4, HeldFades, BoundsAssumption DEF LockInv, TimeIsPast, Held, Tx
  <2>7. tx'[o].call = c /\ tx'[o].onHand = tx[o].onHand
    BY <2>1, <2>2 DEF Goto, Tx
  <2>8. tx[o].onHand \in Nat
    <3>1. InsertHasStock'
      BY InsertHasStockStep DEF RoomInv
    <3> QED
      BY <1>2, <2>2, <2>7, <3>1 DEF InsertHasStock, Tx
  <2>9. Held(p)' = Held(p)
    BY <2>1 DEF SumActive, Held, sumActive, Holding, Quantity
  <2>10. s + c.quantity <= tx[o].onHand
    BY <2>3, <2>4, <2>5, <2>8, MarkerAssumption DEF OnHandRead
  <2> QED
    BY <1>2, <2>4, <2>5, <2>6, <2>7, <2>8, <2>9, <2>10, <2>p
<1> QED
  BY <1>1, <1>2

LEMMA RoomToSetStep ==
  ASSUME TypeInv, LockInv, RoomInv, NEW o \in Requests, Step(o)
  PROVE  RoomToSet'
<1> SUFFICES ASSUME NEW q \in Requests, Settable(q)',
                    NEW p, p = tx'[q].call.pair
             PROVE  Held(p)' <= tx'[q].call.onHand
  BY DEF RoomToSet, Held, sumActive, Holding, Quantity
<1> USE DEF TypeInv, TypeOK
<1>1. CASE q # o
  <2>1. tx'[q] = tx[q] /\ CallMatches(tx[q]) /\ tx[q] \in Tx
        /\ tx[q].call.pair = p
        /\ tx[q].pc = "write_stock"
    BY <1>1, LocksStep DEF CallAtPC, Settable
  <2>2. /\ p \in Pairs /\ p[2] \in Items /\ tx[q].call.onHand \in Nat
        /\ tx[q].call.op = "set_stock" /\ PairOf(q) = p
    BY <2>1, CallFields DEF CallMatches, Pairs, PairOf
  <2>3. tx[q].onHand = NoRow => stock'[p] = NoRow /\ items'[p[2]] = "present"
    BY <2>1 DEF Settable, InsertRefused
  <2>4. tx[q].onHand = NoRow => items[p[2]] = "present"
    BY <2>1, <2>2, <2>3, ItemSeenStep DEF RoomInv, ItemSeen
  <2>5. tx[q].onHand = NoRow => stock[p] = NoRow
    <3>1. SUFFICES ASSUME tx[q].onHand = NoRow, stock[p] # NoRow PROVE FALSE
      OBVIOUS
    <3>2. stock'[p] = NoRow /\ items'[p[2]] = "present"
      BY <2>3, <3>1
    <3>3. CASE DeleteItems(o)
      BY <2>2, <3>1, <3>2, <3>3 DEF DeleteItems
    <3>4. CASE WriteStock(o)
      <4>1. tx[o].call.onHand \in Nat
        BY <3>4, CallFields DEF WriteStock, CallAtPC, CallMatches
      <4> QED
        BY <2>2, <3>1, <3>2, <3>4, <4>1, MarkerAssumption DEF WriteStock
    <3>5. CASE WriteCommit(o)
      <4> DEFINE r == tx[o].call.id
                 n == reservation[r].quantity
      <4>1. \/ stock'[p] = stock[p]
            \/ /\ stock'[p] = stock[p] - n /\ stock[p] >= n
               /\ stock[p] \in Nat /\ n \in Nat
        <5> DEFINE w == reservation[r].pair
        <5>1. /\ n \in Nat /\ w \in Pairs /\ stock[w] \in Nat
              /\ \/ stock' = stock
                 \/ stock[w] >= n /\ stock' = [stock EXCEPT ![w] = @ - n]
          BY <3>5, CommitStep
        <5> HIDE DEF n, w
        <5> QED
          BY <2>2, <5>1
      <4>2. stock[p] >= n /\ stock[p] \in Nat /\ n \in Nat => stock[p] - n \in Nat
        OBVIOUS
      <4> QED
        BY <3>1, <3>2, <4>1, <4>2, MarkerAssumption
    <3>6. CASE Arrive(o)
      BY <3>1, <3>2, <3>6 DEF Arrive, requireWarehouseAndItem,
         loadAndAuthorize, BeginDelete, CreateItem
    <3>7. CASE /\ ~Arrive(o) /\ ~DeleteItems(o)
               /\ ~WriteStock(o) /\ ~WriteCommit(o)
      BY <3>1, <3>2, <3>7 DEF Step, Acquire, Proceed, LockStock,
         LockReservation, DeleteReservation, PurgeTerminalReservationsBefore,
         PurgeExpiredPendingReservations, FindKey, SumActive,
         InsertReservation, WriteRelease, Fail
    <3> QED
      BY <3>3, <3>4, <3>5, <3>6, <3>7
  <2>6. Settable(q)
    BY <2>1, <2>4, <2>5 DEF Settable, InsertRefused
  <2>7. tx[o].pc = "insert" => tx[o].call.pair # p
    <3>1. SUFFICES ASSUME tx[o].pc = "insert", tx[o].call.pair = p PROVE FALSE
      OBVIOUS
    <3>2. HoldsStock(o) /\ PairOf(o) = p
      BY <3>1 DEF RoomInv, InsertHasStock, HoldsStock, PairOf, CallAtPC, CallMatches
    <3>3. stock[p] # NoRow
      BY <3>2 DEF LockInv, StockHeld, HoldsStock
    <3>4. HoldsStock(q)
      BY <2>1, <2>5, <3>3 DEF HoldsStock
    <3> QED
      BY <1>1, <2>2, <3>2, <3>4 DEF LockInv, StockHeld, Exclusive
  <2>8. Held(p)' <= Held(p) /\ Held(p) \in Nat /\ Held(p)' \in Nat
    BY <2>2, <2>7, HeldShrinks
  <2>10. Held(p) <= tx[q].call.onHand
    BY <2>1, <2>6 DEF RoomInv, RoomToSet
  <2> QED
    BY <2>1, <2>2, <2>8, <2>10
<1>2. CASE q = o
  <2>1. SumActive(o) /\ Goto(o, "write_stock")
    <3>1. CASE Arrive(o)
      BY <1>2, <3>1 DEF Arrive, requireWarehouseAndItem, loadAndAuthorize,
         BeginDelete, CreateItem, Begin, Answer, Idle, Settable
    <3>2. CASE LockStock(o) \/ LockReservation(o) \/ FindKey(o)
      BY <1>2, <3>2
      DEF LockStock, LockReservation, FindKey, Answer, Goto, Idle, Tx, Settable
    <3>3. CASE SumActive(o)
      BY <1>2, <3>3 DEF SumActive, Answer, Goto, Idle, Tx, Settable
    <3>4. CASE PurgeTerminalReservationsBefore(o)
      BY <1>2, <3>4, SweepGoesOn DEF Settable
    <3>5. CASE ~Arrive(o) /\ ~LockStock(o) /\ ~LockReservation(o)
               /\ ~PurgeTerminalReservationsBefore(o)
               /\ ~FindKey(o) /\ ~SumActive(o)
      <4>1. \E code \in Codes : Answer(o, code)
        BY <3>5, LastStep
      <4> QED
        BY <1>2, <4>1 DEF Answer, Idle, Settable
    <3> QED
      BY <3>1, <3>2, <3>3, <3>4, <3>5
  <2> DEFINE c == tx[o].call
             s == sumActive(p, tx[o].now)
  <2>2. tx[o] \in Tx /\ c \in AllCalls
    BY <2>1 DEF SumActive, CallAtPC, CallMatches
  <2>p. c.pair = p
    BY <1>2, <2>1, <2>2 DEF Goto, Tx
  <2>3. c.op = "set_stock" /\ ~(c.onHand < s)
    <3>1. ~Answer(o, "INSUFFICIENT_STOCK") /\ ~Answer(o, "STOCK_BELOW_RESERVED")
          /\ ~Goto(o, "insert")
      BY <1>2 DEF Answer, Goto, Idle, Tx, Settable
    <3> QED
      BY <2>1, <2>p, <3>1 DEF SumActive
  <2>4. p \in Pairs /\ c.onHand \in Nat
    BY <2>2, <2>p, <2>3, CallFields
  <2>5. s \in Nat /\ Held(p) \in Nat
    BY HeldType DEF Held
  <2>6. Held(p) <= s
    BY <2>2, <2>4, HeldFades, BoundsAssumption DEF LockInv, TimeIsPast, Held, Tx
  <2>7. tx'[o].call = c
    BY <2>1, <2>2 DEF Goto, Tx
  <2>8. Held(p)' = Held(p)
    BY <2>1 DEF SumActive, Held, sumActive, Holding, Quantity
  <2> QED
    BY <1>2, <2>3, <2>4, <2>5, <2>6, <2>7, <2>8
<1> QED
  BY <1>1, <1>2

LEMMA RoomNext == TypeInv /\ LockInv /\ RoomInv /\ [Next]_vars => RoomInv'
<1> SUFFICES ASSUME TypeInv, LockInv, RoomInv, [Next]_vars PROVE RoomInv'
  OBVIOUS
<1>1. CASE Tick
  <2>1. clock \in Nat /\ clock' \in Nat /\ clock <= clock'
    BY <1>1, BoundsAssumption DEF Tick, TypeInv, TypeOK
  <2>2. ASSUME NEW p \in Pairs
        PROVE  Held(p)' <= Held(p) /\ Held(p)' \in Nat /\ Held(p) \in Nat
    <3>1. Held(p)' = sumActive(p, clock')
      BY <1>1 DEF Tick, Held, sumActive, Holding, Quantity
    <3> QED
      BY <2>1, <3>1, HeldFades, HeldType DEF Held
  <2>3. InsertHasStock' /\ ItemSeen'
    BY <1>1 DEF Tick, RoomInv, InsertHasStock, ItemSeen
  <2>4. RoomToInsert'
    <3> SUFFICES ASSUME NEW q \in Requests, tx[q].pc = "insert",
                        NEW p, p = tx[q].call.pair
                 PROVE  Held(p)' + tx[q].call.quantity <= tx[q].onHand
      BY <1>1 DEF Tick, RoomToInsert, Held, sumActive, Holding, Quantity
    <3>1. p \in Pairs /\ tx[q].call.quantity \in Nat /\ tx[q].onHand \in Nat
      BY CallFields DEF TypeInv, TypeOK, CallAtPC, CallMatches, Quantities,
         RoomInv, InsertHasStock, Tx
    <3>2. Held(p) + tx[q].call.quantity <= tx[q].onHand
      BY DEF RoomInv, RoomToInsert
    <3> QED
      BY <2>2, <3>1, <3>2
  <2>5. RoomToSet'
    <3> SUFFICES ASSUME NEW q \in Requests, Settable(q),
                        NEW p, p = tx[q].call.pair
                 PROVE  Held(p)' <= tx[q].call.onHand
      BY <1>1 DEF Tick, RoomToSet, Settable, InsertRefused, Held, sumActive,
                  Holding, Quantity
    <3>1. p \in Pairs /\ tx[q].call.onHand \in Nat
      BY CallFields DEF TypeInv, CallAtPC, CallMatches, Settable
    <3>2. Held(p) <= tx[q].call.onHand
      BY DEF RoomInv, RoomToSet
    <3> QED
      BY <2>2, <3>1, <3>2
  <2> QED
    BY <2>3, <2>4, <2>5 DEF RoomInv
<1>2. ASSUME NEW o \in Requests, Step(o) PROVE RoomInv'
  BY <1>2, InsertHasStockStep, ItemSeenStep, RoomToInsertStep, RoomToSetStep
  DEF RoomInv
<1>3. CASE UNCHANGED vars
  BY <1>3 DEF vars, RoomInv, InsertHasStock, ItemSeen, RoomToInsert, RoomToSet,
     Settable, InsertRefused, Held, sumActive, Holding, Quantity
<1> QED
  BY <1>1, <1>2, <1>3 DEF Next, Step

LEMMA RoomInvariant == Spec => [](TypeInv /\ LockInv /\ RoomInv)
<1>1. Init => RoomInv
  BY DEF Init, Idle, RoomInv, InsertHasStock, ItemSeen, RoomToInsert,
     RoomToSet, Settable
<1> QED
  BY <1>1, RoomNext, LockInvariant, PTL DEF Spec
-----------------------------------------------------------------------------
(* No oversell *)

OversellInv == TakenCommitted /\ OversellOnlyByLateCommits

(* An INSERT adds at most its own quantity to what is held. *)
LEMMA HeldGrows ==
  ASSUME TypeInv, NEW o \in Requests, NEW r \in ReservationIds,
         Inserted(o, r), UNCHANGED clock, NEW p \in Pairs
  PROVE  Held(p)' <= Held(p) + tx[o].call.quantity /\ Held(p)' \in Nat
<1> DEFINE H == Holding(p, clock)
           n == tx[o].call.quantity
           K == {i \in ReservationIds :
                   /\ reservation'[i].pair = p
                   /\ reservation'[i].status = "PENDING"
                   /\ reservation'[i].expiresAt > clock}
           U == {r} \X (1 .. n)
<1>1. n \in Nat /\ n > 0
  BY CallFields, BoundsAssumption
  DEF Inserted, TypeInv, CallAtPC, CallMatches, Quantities
<1>2. IsFiniteSet(U) /\ Cardinality(U) = n
  <2>1. 1 \in Int /\ n \in Int
    BY <1>1
  <2>2. /\ IsFiniteSet(1 .. n)
        /\ Cardinality(1 .. n) = IF 1 > n THEN 0 ELSE n - 1 + 1
    BY <2>1, FS_Interval, Zenon
  <2>3. IsFiniteSet({r}) /\ Cardinality({r}) = 1
    BY FS_Singleton
  <2> HIDE DEF n
  <2>4. Cardinality(1 .. n) = n
    BY <1>1, <2>2
  <2> QED
    BY <1>1, <2>2, <2>3, <2>4, FS_Product
<1>3. IsFiniteSet(Units(reservation, H)) /\ Quantity(H) \in Nat
  BY QuantityType DEF Holding
<1>4. Units(reservation', K) \subseteq Units(reservation, H) \cup U
  <2>1. reservation'[r].quantity = n
    BY DEF Inserted, TypeInv, TypeOK
  <2>2. ASSUME NEW i \in K, i # r
        PROVE  i \in H /\ reservation'[i].quantity = reservation[i].quantity
    BY <2>2 DEF Inserted, Holding, TypeInv, TypeOK
  <2> QED
    BY <2>1, <2>2 DEF Units
<1>5. /\ IsFiniteSet(Units(reservation, H) \cup U)
      /\ Cardinality(Units(reservation, H) \cup U)
           = Quantity(H) + n - Cardinality(Units(reservation, H) \cap U)
  BY <1>2, <1>3, FS_Union, Zenon DEF Quantity
<1>6. Cardinality(Units(reservation, H) \cap U) \in Nat
  BY <1>2, <1>3, FS_Intersection, FS_CardinalityType
<1>7. /\ IsFiniteSet(Units(reservation', K))
      /\ Cardinality(Units(reservation', K))
           <= Cardinality(Units(reservation, H) \cup U)
  BY <1>4, <1>5, FS_Subset
<1>8. Cardinality(Units(reservation', K)) \in Nat
  BY <1>7, FS_CardinalityType
<1>9. Held(p)' = Cardinality(Units(reservation', K)) /\ Held(p) = Quantity(H)
  BY DEF Held, sumActive, Holding, Quantity
<1> HIDE DEF n, U, K, H
<1>10. Held(p)' <= Held(p) + n
  BY <1>1, <1>3, <1>5, <1>6, <1>7, <1>8, <1>9
<1> QED
  BY <1>8, <1>9, <1>10 DEF n

(* A Commit before the expiry frees what it charges. *)
LEMMA HeldCommitted ==
  ASSUME TypeInv, NEW r \in ReservationIds,
         reservation[r].status = "PENDING", reservation[r].expiresAt > clock,
         reservation' = [reservation EXCEPT ![r].status = "COMMITTED"],
         UNCHANGED clock
  PROVE  LET p == reservation[r].pair
         IN  /\ Cardinality(Units(reservation', Holding(p, clock) \ {r}))
                  + reservation[r].quantity <= Held(p)
             /\ Cardinality(Units(reservation', Holding(p, clock) \ {r})) \in Nat
<1> DEFINE p == reservation[r].pair
           H == Holding(p, clock)
           K == H \ {r}
<1>1. r \in H /\ H \in SUBSET ReservationIds /\ K \in SUBSET ReservationIds
  BY DEF Holding
<1>2. K \cup {r} = H
  BY <1>1
<1>3. Quantity(H) = Quantity(K) + reservation[r].quantity
  BY <1>1, <1>2, QuantityAdd
<1>4. Units(reservation', K) = Units(reservation, K)
  BY <1>1 DEF Units, TypeInv, TypeOK
<1>5. Quantity(K) \in Nat /\ Quantity(H) \in Nat
  BY <1>1, QuantityType
<1>6. reservation[r].quantity \in Nat
  BY BoundsAssumption DEF TypeInv, TypeOK, Reservation, Quantities
<1>7. Held(p) = Quantity(H)
  BY DEF Held, sumActive
<1>8. Cardinality(Units(reservation', K)) = Quantity(K)
  BY <1>4 DEF Quantity
<1> HIDE DEF K, H
<1>9. /\ Cardinality(Units(reservation', K)) + reservation[r].quantity <= Held(p)
      /\ Cardinality(Units(reservation', K)) \in Nat
  BY <1>3, <1>5, <1>6, <1>7, <1>8
<1> QED
  BY <1>9 DEF K, H

(* Of the reservations taken from p, those committed late. *)
LateOf(p) == taken[p] \cap late

LEMMA OversellCommit ==
  ASSUME TypeInv, LockInv, OversellInv, NEW o \in Requests, Step(o),
         WriteCommit(o), NEW p \in Pairs, stock'[p] # NoRow
  PROVE  Held(p)' <= stock'[p] + Quantity(LateOf(p))'
<1> DEFINE r == tx[o].call.id
           w == reservation[r].pair
           n == reservation[r].quantity
<1> USE DEF TypeInv, TypeOK
<1>1. /\ r \in ReservationIds /\ w \in Pairs /\ n \in Nat
      /\ reservation[r].status = "PENDING"
      /\ stock[w] # NoRow /\ stock[w] \in Nat
  BY CommitStep
<1>2. clock' = clock
  BY TimeIsPastStep
<1>3. /\ Held(p)' <= Held(p) /\ Held(p) \in Nat /\ Held(p)' \in Nat
  BY HeldShrinks DEF WriteCommit
<1>4. stock[p] # NoRow => /\ Held(p) <= stock[p] + Quantity(LateOf(p))
                          /\ stock[p] \in Nat
  BY DEF OversellInv, OversellOnlyByLateCommits, LateOf
<1>5. LateOf(p) \in SUBSET ReservationIds /\ Quantity(LateOf(p)) \in Nat
  BY QuantityType DEF LateOf
<1>6. r \notin LateOf(p)
  BY <1>1 DEF OversellInv, TakenCommitted, LateOf
<1>7. CASE UNCHANGED <<stock, reservation, history>>
  <2>1. Quantity(LateOf(p))' = Quantity(LateOf(p)) /\ stock'[p] = stock[p]
    BY <1>7 DEF history, LateOf, Quantity
  <2> QED
    BY <1>3, <1>4, <1>5, <2>1
<1>8. CASE /\ stock[w] >= n
           /\ stock' = [stock EXCEPT ![w] = @ - n]
           /\ reservation' = [reservation EXCEPT ![r].status = "COMMITTED"]
           /\ taken' = [taken EXCEPT ![w] = @ \cup {r}]
           /\ late' = IF reservation[r].expiresAt <= clock
                        THEN late \cup {r} ELSE late
  <2>1. \A i \in ReservationIds :
          reservation'[i].quantity = reservation[i].quantity
    BY <1>1, <1>8 DEF Reservation
  <2>2. Quantity(LateOf(p))' = Cardinality(Units(reservation, LateOf(p)'))
    <3>1. LateOf(p)' \in SUBSET ReservationIds
      BY <1>1, <1>5, <1>8 DEF LateOf
    <3>2. Units(reservation', LateOf(p)') = Units(reservation, LateOf(p)')
      BY <2>1, <3>1 DEF Units
    <3> QED
      BY <3>2 DEF Quantity
  <2>3. CASE p # w
    <3>1. stock'[p] = stock[p] /\ taken'[p] = taken[p]
      BY <1>8, <2>3
    <3>2. LateOf(p)' = LateOf(p)
      <4>1. r \notin taken[p]
        BY <1>1 DEF OversellInv, TakenCommitted
      <4> QED
        BY <1>8, <3>1, <4>1 DEF LateOf
    <3>3. Quantity(LateOf(p))' = Quantity(LateOf(p))
      BY <2>2, <3>2 DEF Quantity
    <3> QED
      BY <1>3, <1>4, <1>5, <3>1, <3>3
  <2>4. CASE p = w /\ reservation[r].expiresAt <= clock
    <3>1. LateOf(p)' = LateOf(p) \cup {r}
      BY <1>1, <1>8, <2>4 DEF LateOf
    <3>2. Quantity(LateOf(p) \cup {r}) = Quantity(LateOf(p)) + n
      BY <1>1, <1>5, <1>6, QuantityAdd
    <3>3. Quantity(LateOf(p))' = Quantity(LateOf(p)) + n
      BY <2>2, <3>1, <3>2 DEF Quantity
    <3>4. stock'[p] = stock[p] - n /\ stock[p] # NoRow
      BY <1>1, <1>8, <2>4
    <3> HIDE DEF n
    <3> QED
      BY <1>1, <1>3, <1>4, <1>5, <3>3, <3>4
  <2>5. CASE p = w /\ ~(reservation[r].expiresAt <= clock)
    <3>1. LateOf(p) \subseteq LateOf(p)' /\ LateOf(p)' \in SUBSET ReservationIds
      BY <1>1, <1>5, <1>8, <2>5 DEF LateOf
    <3>2. Quantity(LateOf(p)) <= Quantity(LateOf(p))' /\ Quantity(LateOf(p))' \in Nat
      <4>1. ASSUME NEW T \in SUBSET ReservationIds, LateOf(p) \subseteq T
            PROVE  /\ Quantity(LateOf(p)) <= Cardinality(Units(reservation, T))
                   /\ Cardinality(Units(reservation, T)) \in Nat
        BY <4>1, QuantityMonotone, QuantityType DEF Quantity
      <4> QED
        BY <2>2, <3>1, <4>1
    <3>3. Held(p)' = Cardinality(Units(reservation', Holding(p, clock) \ {r}))
      <4>1. Holding(p, clock)' = Holding(p, clock) \ {r}
        <5>1. /\ reservation'[r].status = "COMMITTED"
              /\ \A i \in ReservationIds \ {r} : reservation'[i] = reservation[i]
          BY <1>1, <1>8, StatusUpdate
        <5>2. ASSUME NEW i \in ReservationIds
              PROVE  i \in Holding(p, clock)' <=> i \in Holding(p, clock) /\ i # r
          BY ONLY <1>2, <5>1, i \in ReservationIds DEF Holding
        <5> QED
          BY <5>2 DEF Holding
      <4> QED
        BY <1>2, <4>1 DEF Held, sumActive, Quantity
    <3>4. Held(p)' + n <= Held(p)
      <4>1. reservation[r].expiresAt > clock
        BY <1>1, <2>5, BoundsAssumption DEF Reservation
      <4>2. Cardinality(Units(reservation', Holding(w, clock) \ {r})) + n <= Held(w)
        BY <1>1, <1>2, <1>8, <4>1, HeldCommitted
      <4> QED
        BY <2>5, <3>3, <4>2
    <3>5. stock'[p] = stock[p] - n /\ stock[p] # NoRow
      BY <1>1, <1>8, <2>5
    <3> HIDE DEF n
    <3> QED
      BY <1>1, <1>3, <1>4, <1>5, <3>2, <3>4, <3>5
  <2> QED
    BY <2>3, <2>4, <2>5
<1> QED
  BY <1>1, <1>7, <1>8, CommitStep

LEMMA OversellStep ==
  ASSUME TypeInv, LockInv, RoomInv, LedgerInv, OversellInv,
         NEW o \in Requests, Step(o)
  PROVE  OversellInv'
<1> USE DEF TypeInv, TypeOK
<1>1. TakenCommitted'
  BY LedgerStep DEF LedgerInv
<1>2. ASSUME NEW p \in Pairs, stock'[p] # NoRow
      PROVE  Held(p)' <= stock'[p] + Quantity(LateOf(p))'
  <2>1. CASE WriteCommit(o)
    BY <1>2, <2>1, OversellCommit
  <2>2. CASE WriteStock(o) /\ ~UNCHANGED <<stock, history>>
    <3> DEFINE c == tx[o].call
    <3>1. /\ Settable(o) /\ c.pair \in Pairs /\ c.onHand \in Nat
          /\ stock' = [stock EXCEPT ![c.pair] = c.onHand]
          /\ taken' = [taken EXCEPT ![c.pair] = {}]
          /\ UNCHANGED <<late, reservation>>
      BY <2>2, CallFields DEF WriteStock, Settable, CallAtPC, CallMatches
    <3>2. Held(p)' <= Held(p) /\ Held(p) \in Nat /\ Held(p)' \in Nat
      BY <3>1, HeldShrinks
    <3>3. CASE p = c.pair
      <4>1. Held(p) <= c.onHand /\ stock'[p] = c.onHand
        BY <3>1, <3>3 DEF RoomInv, RoomToSet
      <4>2. Quantity(LateOf(p))' = 0
        <5>1. LateOf(p)' = {}
          BY <3>1, <3>3 DEF LateOf
        <5> QED
          BY <5>1, FS_EmptySet DEF Quantity, Units
      <4> QED
        BY <3>1, <3>2, <4>1, <4>2
    <3>4. CASE p # c.pair
      <4>1. stock'[p] = stock[p] /\ Quantity(LateOf(p))' = Quantity(LateOf(p))
        BY <3>1, <3>4 DEF LateOf, Quantity
      <4>2. Held(p) <= stock[p] + Quantity(LateOf(p)) /\ stock[p] \in Nat
        BY <1>2, <4>1 DEF OversellInv, OversellOnlyByLateCommits, LateOf
      <4>3. Quantity(LateOf(p)) \in Nat
        BY QuantityType DEF LateOf
      <4> QED
        BY <3>2, <4>1, <4>2, <4>3
    <3> QED
      BY <3>3, <3>4
  <2>3. CASE ~WriteCommit(o) /\ (WriteStock(o) => UNCHANGED <<stock, history>>)
    <3>1. UNCHANGED history /\ stock'[p] = stock[p]
      BY <1>2, <2>3, OtherStepsKeepStock DEF history
    <3>2. Quantity(LateOf(p))' = Quantity(LateOf(p)) /\ Quantity(LateOf(p)) \in Nat
      <4>1. \A r \in LateOf(p) :
              reservation'[r].quantity = reservation[r].quantity
        BY RowStays DEF LateOf, OversellInv, TakenCommitted
      <4>2. LateOf(p)' = LateOf(p)
        BY <3>1 DEF history, LateOf
      <4>3. Units(reservation', LateOf(p)) = Units(reservation, LateOf(p))
        BY <4>1 DEF Units
      <4>4. Quantity(LateOf(p)) \in Nat
        BY QuantityType DEF LateOf
      <4> QED
        BY <4>2, <4>3, <4>4 DEF Quantity
    <3>3. Held(p) <= stock[p] + Quantity(LateOf(p)) /\ stock[p] \in Nat
      BY <1>2, <3>1 DEF OversellInv, OversellOnlyByLateCommits, LateOf
    <3>4. CASE tx[o].pc = "insert" /\ tx[o].call.pair = p /\ ~UNCHANGED reservation
      <4>1. PICK r \in ReservationIds : Inserted(o, r)
        <5>1. InsertReservation(o) \/ Fail(o)
          <6>1. ~Arrive(o) /\ ~Acquire(o)
            BY <3>4 DEF Arrive, Acquire, requireWarehouseAndItem,
               loadAndAuthorize, BeginDelete, CreateItem, LockStock,
               LockReservation, DeleteReservation, DeleteItems,
               PurgeTerminalReservationsBefore, PurgeExpiredPendingReservations
          <6> QED
            BY <3>4, <6>1 DEF Step, Proceed, FindKey, SumActive, WriteStock,
               WriteCommit, WriteRelease
        <5> QED
          BY <3>4, <5>1 DEF Fail, InsertReservation, Inserted
      <4>2. clock' = clock
        BY TimeIsPastStep
      <4>3. Held(p)' <= Held(p) + tx[o].call.quantity /\ Held(p)' \in Nat
        BY <4>1, <4>2, HeldGrows
      <4>4. stock[p] = tx[o].onHand
        BY <3>4 DEF RoomInv, InsertHasStock, LockInv, StockHeld, HoldsStock,
           PairOf, CallAtPC, CallMatches
      <4>5. Held(p) + tx[o].call.quantity <= stock[p]
        BY <3>4, <4>4 DEF RoomInv, RoomToInsert
      <4>6. Held(p) \in Nat /\ tx[o].call.quantity \in Nat
        BY <3>4, HeldType, CallFields
        DEF Held, CallAtPC, CallMatches, Quantities
      <4> QED
        BY <3>1, <3>2, <3>3, <4>3, <4>5, <4>6
    <3>5. CASE ~(tx[o].pc = "insert" /\ tx[o].call.pair = p /\ ~UNCHANGED reservation)
      <4>1. Held(p)' <= Held(p) /\ Held(p) \in Nat /\ Held(p)' \in Nat
        BY <3>5, HeldShrinks
      <4> QED
        BY <3>1, <3>2, <3>3, <4>1
    <3> QED
      BY <3>4, <3>5
  <2> QED
    BY <2>1, <2>2, <2>3
<1> QED
  BY <1>1, <1>2 DEF OversellInv, OversellOnlyByLateCommits, LateOf

(* Active reservations never hold more than is on hand, but for commits that
   outlived the expiry of their reservation: Reserve and SetStock decide on a
   sum that can only shrink while they hold the stock row. *)
THEOREM NoOtherOversell == Spec => []OversellOnlyByLateCommits
<1> DEFINE Inv == LedgerInv /\ OversellInv
<1>1. Init => Inv
  BY DEF Init, LedgerInv, LedgerBalanced, OversellInv, TakenCommitted,
     OversellOnlyByLateCommits
<1>2. TypeInv /\ LockInv /\ RoomInv /\ Inv /\ [Next]_vars => Inv'
  <2> SUFFICES ASSUME TypeInv, LockInv, RoomInv, Inv, [Next]_vars PROVE Inv'
    OBVIOUS
  <2>1. CASE Tick
    <3>1. LedgerInv'
      BY <2>1 DEF Tick, history, LedgerInv, TakenCommitted, LedgerBalanced, Quantity
    <3>2. ASSUME NEW p \in Pairs, stock'[p] # NoRow
          PROVE  Held(p)' <= stock'[p] + Quantity(LateOf(p))'
      <4>1. /\ stock'[p] = stock[p]
            /\ Quantity(LateOf(p))' = Quantity(LateOf(p))
            /\ Held(p)' = sumActive(p, clock')
        BY <2>1 DEF Tick, history, LateOf, Quantity, Held, sumActive, Holding
      <4>2. clock \in Nat /\ clock' \in Nat /\ clock <= clock'
        BY <2>1, BoundsAssumption DEF Tick, TypeInv, TypeOK
      <4>3. sumActive(p, clock') <= Held(p)
            /\ sumActive(p, clock') \in Nat /\ Held(p) \in Nat
        BY <4>2, HeldFades, HeldType DEF Held
      <4>4. Held(p) <= stock[p] + Quantity(LateOf(p)) /\ stock[p] \in Nat
        BY <3>2, <4>1 DEF OversellInv, OversellOnlyByLateCommits, LateOf,
           TypeInv, TypeOK
      <4>5. Quantity(LateOf(p)) \in Nat
        BY QuantityType DEF LateOf, TypeInv, TypeOK
      <4> QED
        BY <4>1, <4>3, <4>4, <4>5
    <3> QED
      BY <3>1, <3>2 DEF LedgerInv, OversellInv, OversellOnlyByLateCommits, LateOf
  <2>2. ASSUME NEW o \in Requests, Step(o) PROVE Inv'
    BY <2>2, LedgerStep, OversellStep
  <2>3. CASE UNCHANGED vars
    BY <2>3 DEF vars, LedgerInv, TakenCommitted, LedgerBalanced, OversellInv,
       OversellOnlyByLateCommits, Quantity, Held, sumActive, Holding
  <2> QED
    BY <2>1, <2>2, <2>3 DEF Next, Step
<1>3. Inv => OversellOnlyByLateCommits
  BY DEF OversellInv
<1> QED
  BY <1>1, <1>2, <1>3, RoomInvariant, PTL DEF Spec
=============================================================================

-------------------------- MODULE InventoryProofs --------------------------
(***************************************************************************)
(* Theorems about Inventory, for every value of its constants.             *)
(***************************************************************************)
EXTENDS Inventory, FiniteSetTheorems, TLAPS

(* A handler is where its call takes it, and has what it has read so far. *)
CallMatches(t) ==
  /\ t.pc # "idle" => t.call \in AllCalls
  /\ t.pc = "lock_stock" => t.call.op \in {"reserve", "set_stock", "commit"}
  /\ t.pc \in {"lock_stock", "lock_row"} => t.onHand = NoRow
  /\ t.pc \in {"find_key", "insert"} => t.call.op = "reserve"
  /\ t.pc = "sum" => t.call.op \in {"reserve", "set_stock"}
  /\ t.pc = "write_stock" => t.call.op = "set_stock"
  /\ t.pc = "lock_row" => t.call.op \in {"commit", "release"}
  /\ t.pc = "write_commit" => t.call.op = "commit" /\ t.onHand # NoRow
  /\ t.pc = "write_release" => t.call.op = "release"
  /\ t.pc = "delete_row" => t.call.op = "delete"
  /\ t.pc \in {"purge_terminal", "purge_expired"} => t.call.op = "purge"
  /\ t.pc = "delete_items" => t.call.op \in {"delete_item", "purge_items"}

CallAtPC == \A q \in Requests : CallMatches(tx[q])

TypeInv == TypeOK /\ CallAtPC
-----------------------------------------------------------------------------
(* What a call carries is told by what it asks for. *)
LEMMA CallFields ==
  ASSUME NEW c \in AllCalls
  PROVE  /\ c.op = "reserve" =>
              /\ c.pair \in Pairs /\ c.quantity \in Quantities
              /\ c.ttl \in Nat \ {0} /\ c.key \in Keys \cup {NoKey}
              /\ c.by \in Users
         /\ c.op \in {"commit", "release", "delete"} =>
              c.by \in Users /\ c.id \in ReservationIds
         /\ c.op = "set_stock" => c.pair \in Pairs /\ c.onHand \in Nat
         /\ c.op = "purge" => c.before \in Nat
         /\ c.op \in {"create_item", "delete_item"} => c.item \in Items
         /\ c.op = "purge_items" => c.prefix \in SUBSET SKUs
BY DEF AllCalls

LEMMA FreeRowType == FreeRow \in Reservation
<1>1. (CHOOSE p \in Pairs : TRUE) \in Pairs
  <2>1. PICK w \in Warehouses, i \in Items : TRUE
    BY InhabitedAssumption
  <2>2. <<w, i>> \in Pairs
    BY DEF Pairs
  <2> QED
    BY <2>2
<1>2. (CHOOSE u \in Users : TRUE) \in Users
  BY InhabitedAssumption
<1>3. 1 \in Quantities
  BY BoundsAssumption DEF Quantities
<1> QED
  BY <1>1, <1>2, <1>3 DEF FreeRow, Reservation

LEMMA TypeInit == Init => TypeInv
<1> SUFFICES ASSUME Init PROVE TypeInv
  OBVIOUS
<1>1. Idle("none") \in Tx
  BY DEF Idle, Tx, PCs, Codes
<1>2. TypeOK
  BY <1>1, FreeRowType, BoundsAssumption DEF Init, TypeOK
<1>3. CallAtPC
  BY DEF Init, CallAtPC, CallMatches, Idle
<1> QED
  BY <1>2, <1>3 DEF TypeInv

(* A handler's record replaced by one that is in order leaves all in order. *)
LEMMA TxUpdate ==
  ASSUME TypeInv, NEW q \in Requests, NEW t \in Tx, CallMatches(t),
         tx' = [tx EXCEPT ![q] = t]
  PROVE  tx' \in [Requests -> Tx] /\ CallAtPC'
BY DEF TypeInv, TypeOK, CallAtPC, CallMatches

LEMMA AnswerUpdate ==
  ASSUME TypeInv, NEW q \in Requests, NEW code \in Codes, Answer(q, code)
  PROVE  tx' \in [Requests -> Tx] /\ CallAtPC'
<1>1. Idle(code) \in Tx
  BY DEF Idle, Tx, PCs
<1>2. CallMatches(Idle(code))
  BY DEF CallMatches, Idle
<1> QED
  BY <1>1, <1>2, TxUpdate DEF Answer

LEMMA GotoUpdate ==
  ASSUME TypeInv, NEW q \in Requests, NEW pc \in PCs, Goto(q, pc),
         CallMatches([tx[q] EXCEPT !.pc = pc])
  PROVE  tx' \in [Requests -> Tx] /\ CallAtPC'
<1>1. [tx[q] EXCEPT !.pc = pc] \in Tx
  BY DEF TypeInv, TypeOK, Tx
<1>2. tx' = [tx EXCEPT ![q] = [tx[q] EXCEPT !.pc = pc]]
  BY DEF Goto
<1> QED
  BY <1>1, <1>2, TxUpdate

LEMMA BeginUpdate ==
  ASSUME TypeInv, NEW q \in Requests, NEW c \in AllCalls, NEW pc \in PCs,
         NEW now \in Nat, Begin(q, c, pc, now),
         CallMatches([pc |-> pc, call |-> c, now |-> now, onHand |-> NoRow,
                      locks |-> {}, reply |-> "none"])
  PROVE  tx' \in [Requests -> Tx] /\ CallAtPC'
<1> DEFINE t == [pc |-> pc, call |-> c, now |-> now, onHand |-> NoRow,
                 locks |-> {}, reply |-> "none"]
<1>1. t \in Tx
  BY DEF Tx, Codes
<1> QED
  BY <1>1, TxUpdate DEF Begin
-----------------------------------------------------------------------------
(* Rows marked as deleted are reservations still. *)
LEMMA DeletedType ==
  ASSUME TypeOK, NEW R
  PROVE  Deleted(R) \in [ReservationIds -> Reservation]
<1> SUFFICES ASSUME NEW r \in ReservationIds
             PROVE  [reservation[r] EXCEPT !.status = "deleted"] \in Reservation
  BY DEF TypeOK, Deleted
<1> QED
  BY DEF TypeOK, Reservation

(* Each action keeps every variable in its type and every handler where its
   call takes it. *)
LEMMA TypeArrive ==
  ASSUME TypeInv, NEW q \in Requests, Arrive(q)
  PROVE  TypeInv'
<1> PICK c \in Calls : \/ requireWarehouseAndItem(q, c)
                       \/ loadAndAuthorize(q, c)
                       \/ BeginDelete(q, c)
                       \/ CreateItem(q, c)
  BY DEF Arrive
<1>1. c \in AllCalls
  BY CallsAssumption
<1>2. clock \in Nat
  BY BoundsAssumption DEF TypeInv, TypeOK
<1>3. tx' \in [Requests -> Tx] /\ CallAtPC'
  <2>1. CASE requireWarehouseAndItem(q, c)
    <3>1. CASE Begin(q, c, "lock_stock", clock)
      BY <1>1, <1>2, <2>1, <3>1, BeginUpdate
      DEF requireWarehouseAndItem, PCs, CallMatches
    <3>2. CASE Answer(q, "NOT_FOUND")
      BY <3>2, AnswerUpdate DEF Codes
    <3> QED
      BY <2>1, <3>1, <3>2 DEF requireWarehouseAndItem
  <2>2. CASE loadAndAuthorize(q, c)
    <3>1. CASE c.op = "commit" /\ Begin(q, c, "lock_row", clock)
      BY <1>1, <1>2, <3>1, BeginUpdate DEF PCs, CallMatches
    <3>2. CASE c.op = "release" /\ Begin(q, c, "lock_row", 0)
      BY <1>1, <3>2, BeginUpdate DEF PCs, CallMatches
    <3>3. CASE c.op = "delete" /\ Begin(q, c, "delete_row", 0)
      BY <1>1, <3>3, BeginUpdate DEF PCs, CallMatches
    <3>4. CASE \E code \in Codes : Answer(q, code)
      BY <3>4, AnswerUpdate
    <3> QED
      BY <2>2, <3>1, <3>2, <3>3, <3>4 DEF loadAndAuthorize, Codes
  <2>3. CASE BeginDelete(q, c)
    BY <1>1, <2>3, BeginUpdate DEF BeginDelete, PCs, CallMatches
  <2>4. CASE CreateItem(q, c)
    BY <2>4, AnswerUpdate DEF CreateItem, Codes
  <2> QED
    BY <2>1, <2>2, <2>3, <2>4
<1>4. TypeOK'
  <2>1. CASE requireWarehouseAndItem(q, c)
    BY <1>3, <2>1 DEF requireWarehouseAndItem, TypeInv, TypeOK, history
  <2>2. CASE loadAndAuthorize(q, c)
    BY <1>3, <2>2 DEF loadAndAuthorize, TypeInv, TypeOK, history
  <2>3. CASE BeginDelete(q, c)
    BY <1>3, <2>3 DEF BeginDelete, TypeInv, TypeOK, history
  <2>4. CASE CreateItem(q, c)
    BY <1>3, <2>4 DEF CreateItem, TypeInv, TypeOK, history
  <2> QED
    BY <2>1, <2>2, <2>3, <2>4
<1> QED
  BY <1>3, <1>4 DEF TypeInv

LEMMA TypeAcquire ==
  ASSUME TypeInv, NEW q \in Requests, Acquire(q)
  PROVE  TypeInv'
<1> DEFINE c == tx[q].call
<1>1. CallMatches(tx[q]) /\ tx[q] \in Tx
  BY DEF TypeInv, TypeOK, CallAtPC
<1>2. CASE LockStock(q)
  <2>1. PairOf(q) \in Pairs
    BY <1>1, <1>2, CallFields
    DEF LockStock, PairOf, CallMatches, TypeInv, TypeOK, Reservation
  <2>2. tx' \in [Requests -> Tx] /\ CallAtPC'
    <3> DEFINE next == CASE c.op = "commit" -> "write_commit"
                         [] c.op = "reserve" -> "find_key"
                         [] OTHER -> "sum"
               t == [tx[q] EXCEPT !.pc = next, !.onHand = stock[PairOf(q)],
                                  !.locks = @ \cup {StockRow(PairOf(q))}]
    <3>1. next \in PCs
      BY DEF PCs
    <3>2. CASE stock[PairOf(q)] # NoRow
      <4>1. t \in Tx
        BY <1>1, <2>1, <3>1 DEF Tx, TypeInv, TypeOK, Rows
      <4>2. CallMatches(t)
        BY <1>1, <1>2, <3>2 DEF CallMatches, Tx, LockStock
      <4>3. tx' = [tx EXCEPT ![q] = t]
        BY <1>2, <3>2 DEF LockStock
      <4> QED
        BY <4>1, <4>2, <4>3, TxUpdate
    <3>3. CASE stock[PairOf(q)] = NoRow /\ c.op = "commit"
      BY <1>2, <3>3, AnswerUpdate DEF LockStock, Codes
    <3>4. CASE stock[PairOf(q)] = NoRow /\ c.op # "commit"
      <4>1. CallMatches([tx[q] EXCEPT !.pc = next])
        BY <1>1, <1>2, <3>4 DEF CallMatches, Tx, LockStock
      <4> QED
        BY <1>2, <3>1, <3>4, <4>1, GotoUpdate DEF LockStock
    <3> QED
      BY <3>2, <3>3, <3>4
  <2> QED
    BY <1>2, <2>2 DEF LockStock, TypeInv, TypeOK, history
<1>3. CASE LockReservation(q)
  <2>1. c.id \in ReservationIds
    BY <1>1, <1>3, CallFields DEF LockReservation, CallMatches
  <2>2. tx' \in [Requests -> Tx] /\ CallAtPC'
    <3> DEFINE next == IF c.op = "commit" THEN "lock_stock" ELSE "write_release"
               t == [tx[q] EXCEPT !.pc = next,
                                  !.locks = @ \cup {ReservationRow(c.id)}]
    <3>1. CASE \E code \in Codes : Answer(q, code)
      BY <3>1, AnswerUpdate
    <3>2. CASE tx' = [tx EXCEPT ![q] = t]
      <4>1. t \in Tx
        BY <1>1, <2>1 DEF Tx, PCs, Rows
      <4>2. CallMatches(t)
        BY <1>1, <1>3 DEF CallMatches, Tx, LockReservation
      <4> QED
        BY <3>2, <4>1, <4>2, TxUpdate
    <3> QED
      BY <1>3, <3>1, <3>2 DEF LockReservation, CommitCode, TooLate, ReleaseCode, Codes
  <2> QED
    BY <1>3, <2>2 DEF LockReservation, TypeInv, TypeOK, history
<1>4. CASE DeleteReservation(q)
  <2>1. tx' \in [Requests -> Tx] /\ CallAtPC'
    BY <1>4, AnswerUpdate DEF DeleteReservation, Codes
  <2> QED
    BY <1>4, <2>1, DeletedType DEF DeleteReservation, TypeInv, TypeOK, history
<1>5. CASE PurgeExpiredPendingReservations(q)
  <2>1. tx' \in [Requests -> Tx] /\ CallAtPC'
    BY <1>5, AnswerUpdate DEF PurgeExpiredPendingReservations, Codes
  <2> QED
    BY <1>5, <2>1, DeletedType
    DEF PurgeExpiredPendingReservations, TypeInv, TypeOK, history
<1>6. CASE PurgeTerminalReservationsBefore(q)
  <2>1. c \in AllCalls /\ c.op = "purge" /\ clock \in Nat
    BY <1>1, <1>6, BoundsAssumption
    DEF PurgeTerminalReservationsBefore, CallMatches, TypeInv, TypeOK
  <2>2. tx' \in [Requests -> Tx] /\ CallAtPC'
    BY <1>6, <2>1, BeginUpdate
    DEF PurgeTerminalReservationsBefore, PCs, CallMatches
  <2> QED
    BY <1>6, <2>2, DeletedType
    DEF PurgeTerminalReservationsBefore, TypeInv, TypeOK, history
<1>7. CASE DeleteItems(q)
  <2>1. tx' \in [Requests -> Tx] /\ CallAtPC'
    BY <1>7, AnswerUpdate DEF DeleteItems, Codes
  <2> QED
    BY <1>7, <2>1 DEF DeleteItems, TypeInv, TypeOK, history
<1> QED
  BY <1>2, <1>3, <1>4, <1>5, <1>6, <1>7 DEF Acquire

LEMMA TypeProceed ==
  ASSUME TypeInv, NEW q \in Requests, Proceed(q)
  PROVE  TypeInv'
<1> DEFINE c == tx[q].call
<1>1. CallMatches(tx[q]) /\ tx[q] \in Tx
  BY DEF TypeInv, TypeOK, CallAtPC
<1>2. CASE FindKey(q)
  <2>1. CASE Answer(q, "ok")
    <3>1. tx' \in [Requests -> Tx] /\ CallAtPC'
      BY <2>1, AnswerUpdate DEF Codes
    <3> QED
      BY <1>2, <3>1 DEF FindKey, TypeInv, TypeOK, history
  <2>2. CASE Goto(q, "sum")
    <3>1. CallMatches([tx[q] EXCEPT !.pc = "sum"])
      BY <1>1, <1>2 DEF CallMatches, Tx, FindKey
    <3>2. tx' \in [Requests -> Tx] /\ CallAtPC'
      BY <2>2, <3>1, GotoUpdate DEF PCs
    <3> QED
      BY <1>2, <3>2 DEF FindKey, TypeInv, TypeOK, history
  <2> QED
    BY <1>2, <2>1, <2>2 DEF FindKey
<1>3. CASE SumActive(q)
  <2>1. tx' \in [Requests -> Tx] /\ CallAtPC'
    <3>1. CASE \E code \in Codes : Answer(q, code)
      BY <3>1, AnswerUpdate
    <3>2. CASE c.op = "reserve" /\ Goto(q, "insert")
      <4>1. CallMatches([tx[q] EXCEPT !.pc = "insert"])
        BY <1>1, <1>3, <3>2 DEF CallMatches, Tx, SumActive
      <4> QED
        BY <3>2, <4>1, GotoUpdate DEF PCs
    <3>3. CASE c.op = "set_stock" /\ Goto(q, "write_stock")
      <4>1. CallMatches([tx[q] EXCEPT !.pc = "write_stock"])
        BY <1>1, <1>3, <3>3 DEF CallMatches, Tx, SumActive
      <4> QED
        BY <3>3, <4>1, GotoUpdate DEF PCs
    <3> QED
      BY <1>3, <3>1, <3>2, <3>3 DEF SumActive, Codes
  <2> QED
    BY <1>3, <2>1 DEF SumActive, TypeInv, TypeOK, history
<1>4. CASE InsertReservation(q)
  <2>1. tx' \in [Requests -> Tx] /\ CallAtPC'
    BY <1>4, AnswerUpdate DEF InsertReservation, Codes
  <2>2. reservation' \in [ReservationIds -> Reservation]
    <3>1. CASE UNCHANGED reservation
      BY <3>1 DEF TypeInv, TypeOK
    <3>2. ASSUME NEW r \in ReservationIds,
                 reservation' = [reservation EXCEPT ![r] =
                   [status |-> "PENDING", pair |-> c.pair,
                    quantity |-> c.quantity, key |-> c.key, by |-> c.by,
                    expiresAt |-> tx[q].now + c.ttl, createdAt |-> clock]]
          PROVE  reservation' \in [ReservationIds -> Reservation]
      <4>1. /\ c.pair \in Pairs /\ c.quantity \in Quantities
            /\ c.key \in Keys \cup {NoKey} /\ c.by \in Users
            /\ tx[q].now + c.ttl \in Nat /\ clock \in Nat
        BY <1>1, <1>4, CallFields, BoundsAssumption
        DEF InsertReservation, CallMatches, Tx, TypeInv, TypeOK
      <4>2. "PENDING" \in Live \cup {"free", "deleted"}
        BY DEF Live
      <4> QED
        BY <3>2, <4>1, <4>2 DEF TypeInv, TypeOK, Reservation
    <3> QED
      BY <1>4, <3>1, <3>2 DEF InsertReservation
  <2> QED
    BY <1>4, <2>1, <2>2 DEF InsertReservation, TypeInv, TypeOK, history
<1>5. CASE WriteStock(q)
  <2>1. tx' \in [Requests -> Tx] /\ CallAtPC'
    BY <1>5, AnswerUpdate DEF WriteStock, Codes
  <2>2. c.pair \in Pairs /\ c.onHand \in Nat
    BY <1>1, <1>5, CallFields DEF WriteStock, CallMatches
  <2> QED
    BY <1>5, <2>1, <2>2 DEF WriteStock, TypeInv, TypeOK, history
<1>6. CASE WriteCommit(q)
  <2> DEFINE r == c.id
             n == reservation[r].quantity
  <2>1. tx' \in [Requests -> Tx] /\ CallAtPC'
    BY <1>6, AnswerUpdate DEF WriteCommit, Codes
  <2>2. r \in ReservationIds
    BY <1>1, <1>6, CallFields DEF WriteCommit, CallMatches
  <2>3. tx[q].onHand \in Nat /\ n \in Nat
    BY <1>1, <1>6, <2>2, BoundsAssumption
    DEF WriteCommit, CallMatches, Tx, TypeInv, TypeOK, Reservation, Quantities
  <2>4. ~Underflow(q, n) => tx[q].onHand - n \in Nat
    BY <2>3 DEF Underflow
  <2>5. stock' \in [Pairs -> Nat \cup {NoRow}]
    BY <1>6, <2>4 DEF WriteCommit, TypeInv, TypeOK
  <2>6. reservation' \in [ReservationIds -> Reservation]
    <3>1. reservation[r] \in Reservation
      BY <2>2 DEF TypeInv, TypeOK
    <3>2. [reservation[r] EXCEPT !.status = "COMMITTED"] \in Reservation
      BY <3>1 DEF Reservation, Live
    <3> QED
      BY <1>6, <3>2 DEF WriteCommit, TypeInv, TypeOK
  <2>7. taken' \in [Pairs -> SUBSET ReservationIds] /\ late' \in SUBSET ReservationIds
    BY <1>6, <2>2 DEF WriteCommit, TypeInv, TypeOK, history
  <2> QED
    BY <1>6, <2>1, <2>5, <2>6, <2>7 DEF WriteCommit, TypeInv, TypeOK, history
<1>7. CASE WriteRelease(q)
  <2>1. tx' \in [Requests -> Tx] /\ CallAtPC'
    BY <1>7, AnswerUpdate DEF WriteRelease, Codes
  <2>2. c.id \in ReservationIds
    BY <1>1, <1>7, CallFields DEF WriteRelease, CallMatches
  <2>3. reservation' \in [ReservationIds -> Reservation]
    <3>1. reservation[c.id] \in Reservation
      BY <2>2 DEF TypeInv, TypeOK
    <3>2. [reservation[c.id] EXCEPT !.status = "RELEASED"] \in Reservation
      BY <3>1 DEF Reservation, Live
    <3> QED
      BY <1>7, <2>2, <3>2 DEF WriteRelease, TypeInv, TypeOK
  <2> QED
    BY <1>7, <2>1, <2>3 DEF WriteRelease, TypeInv, TypeOK, history
<1> QED
  BY <1>2, <1>3, <1>4, <1>5, <1>6, <1>7 DEF Proceed

LEMMA TypeNext == TypeInv /\ [Next]_vars => TypeInv'
<1> SUFFICES ASSUME TypeInv, [Next]_vars PROVE TypeInv'
  OBVIOUS
<1>1. CASE Tick
  BY <1>1, BoundsAssumption DEF Tick, TypeInv, TypeOK, CallAtPC, history
<1>2. ASSUME NEW q \in Requests, Fail(q) PROVE TypeInv'
  <2>1. tx' \in [Requests -> Tx] /\ CallAtPC'
    BY <1>2, AnswerUpdate DEF Fail, Codes
  <2> QED
    BY <1>2, <2>1 DEF Fail, TypeInv, TypeOK, history
<1>3. CASE UNCHANGED vars
  BY <1>3 DEF vars, TypeInv, TypeOK, CallAtPC
<1> QED
  BY <1>1, <1>2, <1>3, TypeArrive, TypeAcquire, TypeProceed DEF Next

LEMMA TypeInvariant == Spec => []TypeInv
BY TypeInit, TypeNext, PTL DEF Spec

(* Every variable keeps its type, and no on-hand quantity in the table ever
   gets below zero: Commit checks the quantity it has read under the lock. *)
THEOREM TypeCorrect == Spec => []TypeOK
<1>1. TypeInv => TypeOK
  BY DEF TypeInv
<1> QED
  BY <1>1, TypeInvariant, PTL
-----------------------------------------------------------------------------
(* Row locks *)

Step(q) == Arrive(q) \/ Acquire(q) \/ Proceed(q) \/ Fail(q)

(* No two transactions hold the same row. *)
Exclusive ==
  \A q, o \in Requests : q # o => tx[q].locks \cap tx[o].locks = {}

(* From the lock on a reservation to the end of its transaction, that row is
   locked and as it was read. *)
HoldsReservation(q) ==
  \/ tx[q].pc \in {"write_commit", "write_release"}
  \/ tx[q].pc = "lock_stock" /\ tx[q].call.op = "commit"

ReservationHeld ==
  \A q \in Requests : HoldsReservation(q) =>
    /\ ReservationRow(tx[q].call.id) \in tx[q].locks
    /\ reservation[tx[q].call.id].status = "PENDING"

(* From the lock on a stock row that exists to the end of its transaction,
   that row is locked and has the quantity that was read. *)
HoldsStock(q) ==
  /\ tx[q].pc \in {"find_key", "sum", "insert", "write_stock", "write_commit"}
  /\ tx[q].onHand # NoRow

StockHeld ==
  \A q \in Requests : HoldsStock(q) =>
    /\ StockRow(PairOf(q)) \in tx[q].locks
    /\ stock[PairOf(q)] = tx[q].onHand

(* What DeleteReservation has seen before its DELETE cannot have changed. *)
DeletingSettled ==
  \A q \in Requests : tx[q].pc = "delete_row" =>
    reservation[tx[q].call.id].status \in Terminal \cup {"deleted"}

(* A handler's time is not ahead of the clock. *)
TimeIsPast == \A q \in Requests : tx[q].now <= clock

LockInv ==
  Exclusive /\ ReservationHeld /\ StockHeld /\ DeletingSettled /\ TimeIsPast

(* A step is taken by one handler, which locks no row another one holds. *)
LEMMA LocksStep ==
  ASSUME TypeInv, NEW o \in Requests, Step(o)
  PROVE  /\ \A q \in Requests \ {o} : tx'[q] = tx[q]
         /\ \A row \in tx'[o].locks :
              row \in tx[o].locks \/ ~LockedByOther(o, row)
<1> USE DEF TypeInv, TypeOK
<1>1. CASE Arrive(o)
  BY <1>1 DEF Arrive, requireWarehouseAndItem, loadAndAuthorize,
     BeginDelete, CreateItem, Begin, Answer, Idle
<1>2. CASE Acquire(o)
  <2>1. CASE LockStock(o)
    BY <2>1 DEF LockStock, Blocked, Wanted, Answer, Goto, Idle, Tx
  <2>2. CASE LockReservation(o)
    BY <2>2 DEF LockReservation, Blocked, Wanted, Answer, Idle, Tx
  <2> QED
    BY <1>2, <2>1, <2>2
    DEF Acquire, DeleteReservation, PurgeTerminalReservationsBefore,
        PurgeExpiredPendingReservations, DeleteItems, Begin, Answer, Idle
<1>3. CASE Proceed(o)
  <2>1. \/ \E code \in Codes : Answer(o, code)
        \/ \E pc \in PCs : Goto(o, pc)
    BY <1>3 DEF Proceed, FindKey, SumActive, InsertReservation, WriteStock,
       WriteCommit, WriteRelease, Codes, PCs
  <2>2. ASSUME NEW code \in Codes, Answer(o, code)
        PROVE  /\ \A q \in Requests \ {o} : tx'[q] = tx[q]
               /\ tx'[o].locks = {}
    BY <2>2 DEF Answer, Idle
  <2>3. ASSUME NEW pc \in PCs, Goto(o, pc)
        PROVE  /\ \A q \in Requests \ {o} : tx'[q] = tx[q]
               /\ tx'[o].locks = tx[o].locks
    BY <2>3 DEF Goto, Tx
  <2> QED
    BY <2>1, <2>2, <2>3
<1>4. CASE Fail(o)
  BY <1>4 DEF Fail, Answer, Idle
<1> QED
  BY <1>1, <1>2, <1>3, <1>4 DEF Step

(* What a handler may do to a reservation row: insert it, settle the one it
   has locked, or delete one that holds no stock any more. *)
Inserted(q, r) ==
  /\ tx[q].pc = "insert"
  /\ reservation[r].status = "free"
  /\ reservation' = [reservation EXCEPT ![r] =
       [status |-> "PENDING", pair |-> tx[q].call.pair,
        quantity |-> tx[q].call.quantity, key |-> tx[q].call.key,
        by |-> tx[q].call.by, expiresAt |-> tx[q].now + tx[q].call.ttl,
        createdAt |-> clock]]

Settled(q, r, status) ==
  /\ r = tx[q].call.id
  /\ \/ status = "COMMITTED" /\ tx[q].pc = "write_commit"
     \/ status = "RELEASED" /\ tx[q].pc = "write_release"
  /\ reservation[r].status = "PENDING"
  /\ reservation' = [reservation EXCEPT ![r].status = status]

Removed(q, R) ==
  /\ \A r \in R : /\ RowExists(r)
                  /\ ~Active(reservation[r], clock)
                  /\ ~LockedByOther(q, ReservationRow(r))
  /\ reservation' = Deleted(R)

LEMMA ReservationStep ==
  ASSUME TypeInv, LockInv, NEW q \in Requests, Step(q)
  PROVE  \/ UNCHANGED reservation
         \/ \E r \in ReservationIds : Inserted(q, r)
         \/ \E r \in ReservationIds, status \in Terminal : Settled(q, r, status)
         \/ \E R \in SUBSET ReservationIds : Removed(q, R)
<1> DEFINE c == tx[q].call
<1>1. CallMatches(tx[q]) /\ tx[q] \in Tx
  BY DEF TypeInv, TypeOK, CallAtPC
<1>2. CASE Arrive(q)
  BY <1>2 DEF Arrive, requireWarehouseAndItem, loadAndAuthorize, BeginDelete, CreateItem
<1>3. CASE DeleteReservation(q)
  <2> DEFINE R == {r \in {c.id} : RowExists(r)}
  <2>1. c.id \in ReservationIds
    BY <1>1, <1>3, CallFields DEF DeleteReservation, CallMatches
  <2>2. Removed(q, R)
    BY <1>3 DEF DeleteReservation, Removed, Active, Blocked, Wanted, Terminal,
                Live, LockInv, DeletingSettled, RowExists
  <2> QED
    BY <2>1, <2>2
<1>4. CASE PurgeExpiredPendingReservations(q)
  <2> DEFINE R == Expired(q)
  <2>1. ASSUME NEW r \in R
        PROVE  /\ RowExists(r)
               /\ ~Active(reservation[r], clock)
               /\ ~LockedByOther(q, ReservationRow(r))
    <3>1. reservation[r].expiresAt \in Nat /\ tx[q].now \in Nat /\ clock \in Nat
      BY <1>1, BoundsAssumption DEF TypeInv, TypeOK, Reservation, Tx, Expired
    <3>2. reservation[r].expiresAt < tx[q].now /\ tx[q].now <= clock
      BY DEF Expired, Purgeable, LockInv, TimeIsPast
    <3>3. ~LockedByOther(q, ReservationRow(r))
      BY <1>4 DEF PurgeExpiredPendingReservations, Blocked, Wanted
    <3> QED
      BY <3>1, <3>2, <3>3 DEF Expired, Purgeable, RowExists, Live, Active
  <2>2. Removed(q, R)
    BY <1>4, <2>1 DEF PurgeExpiredPendingReservations, Removed
  <2>3. R \in SUBSET ReservationIds
    BY DEF Expired
  <2> QED
    BY <2>2, <2>3
<1>5. CASE LockStock(q) \/ LockReservation(q)
  BY <1>5 DEF LockStock, LockReservation
<1>6. CASE InsertReservation(q)
  BY <1>6 DEF InsertReservation, Inserted
<1>7. CASE WriteCommit(q)
  <2>1. c.id \in ReservationIds
    BY <1>1, <1>7, CallFields DEF WriteCommit, CallMatches
  <2>2. reservation[c.id].status = "PENDING"
    BY <1>7 DEF LockInv, ReservationHeld, HoldsReservation, WriteCommit
  <2> QED
    BY <1>7, <2>1, <2>2 DEF WriteCommit, Settled, Terminal
<1>8. CASE WriteRelease(q)
  <2>1. c.id \in ReservationIds
    BY <1>1, <1>8, CallFields DEF WriteRelease, CallMatches
  <2>2. reservation[c.id].status = "PENDING"
    BY <1>8 DEF LockInv, ReservationHeld, HoldsReservation, WriteRelease
  <2> QED
    BY <1>8, <2>1, <2>2 DEF WriteRelease, Settled, Terminal
<1>9. CASE FindKey(q) \/ SumActive(q) \/ WriteStock(q) \/ Fail(q)
  BY <1>9 DEF FindKey, SumActive, WriteStock, Fail
<1>10. CASE PurgeTerminalReservationsBefore(q)
  <2>1. Removed(q, TerminalBefore(q))
    BY <1>10 DEF PurgeTerminalReservationsBefore, TerminalBefore, Removed,
       RowExists, Active, Blocked, Wanted, Terminal, Live
  <2> QED
    BY <2>1 DEF TerminalBefore
<1>11. CASE DeleteItems(q)
  BY <1>11 DEF DeleteItems
<1> QED
  BY <1>2, <1>3, <1>4, <1>5, <1>6, <1>7, <1>8, <1>9, <1>10, <1>11
  DEF Step, Acquire, Proceed

(* A stock row changes only by the hand of who holds it, or when nobody does. *)
LEMMA StockStep ==
  ASSUME TypeInv, LockInv, NEW o \in Requests, Step(o),
         NEW p \in Pairs, stock[p] # NoRow, LockedByOther(o, StockRow(p))
  PROVE  stock'[p] = stock[p]
<1> DEFINE c == tx[o].call
<1> USE DEF TypeInv, TypeOK
<1>1. StockRow(p) \notin tx[o].locks
  BY DEF LockInv, Exclusive, LockedByOther
<1>2. CASE Arrive(o)
  BY <1>2 DEF Arrive, requireWarehouseAndItem, loadAndAuthorize, CreateItem,
     BeginDelete
<1>3. CASE WriteStock(o)
  <2>1. (tx[o].onHand = NoRow /\ InsertRefused(c.pair)) \/ p # c.pair
    <3>1. CASE tx[o].onHand # NoRow
      <4>1. StockRow(PairOf(o)) \in tx[o].locks
        BY <1>3, <3>1 DEF LockInv, StockHeld, HoldsStock, WriteStock
      <4>2. c.op = "set_stock"
        BY <1>3 DEF WriteStock, CallAtPC, CallMatches
      <4> QED
        BY <1>1, <4>1, <4>2 DEF PairOf
    <3>2. CASE tx[o].onHand = NoRow /\ ~InsertRefused(c.pair)
      BY <3>2 DEF InsertRefused
    <3> QED
      BY <3>1, <3>2
  <2> QED
    BY <1>3, <2>1 DEF WriteStock, history
<1>4. CASE WriteCommit(o)
  <2>1. StockRow(PairOf(o)) \in tx[o].locks
    BY <1>4 DEF LockInv, StockHeld, HoldsStock, WriteCommit, CallAtPC, CallMatches
  <2>2. PairOf(o) = reservation[c.id].pair
    BY <1>4 DEF WriteCommit, CallAtPC, CallMatches, PairOf
  <2> QED
    BY <1>1, <1>4, <2>1, <2>2 DEF WriteCommit
<1>5. CASE DeleteItems(o)
  <2>1. p[2] \notin Doomed(o)
    BY <1>5 DEF DeleteItems, Blocked, Wanted
  <2> QED
    BY <1>5, <2>1 DEF DeleteItems
<1>6. CASE \/ FindKey(o) \/ SumActive(o) \/ InsertReservation(o)
           \/ WriteRelease(o) \/ Fail(o)
  BY <1>6 DEF FindKey, SumActive, InsertReservation, WriteRelease, Fail
<1>7. CASE Acquire(o) /\ ~DeleteItems(o)
  BY <1>7 DEF Acquire, LockStock, LockReservation, DeleteReservation,
     PurgeTerminalReservationsBefore, PurgeExpiredPendingReservations
<1> QED
  BY <1>2, <1>3, <1>4, <1>5, <1>6, <1>7 DEF Step, Proceed

(* A reservation that another transaction holds does not change. *)
LEMMA HeldReservationStays ==
  ASSUME TypeInv, LockInv, NEW o \in Requests, Step(o),
         NEW q \in Requests \ {o}, HoldsReservation(q)
  PROVE  reservation'[tx[q].call.id] = reservation[tx[q].call.id]
<1> DEFINE r == tx[q].call.id
<1> USE DEF TypeInv, TypeOK
<1>1. /\ reservation[r].status = "PENDING"
      /\ ReservationRow(r) \in tx[q].locks
      /\ ReservationRow(r) \notin tx[o].locks
  BY DEF LockInv, Exclusive, ReservationHeld
<1>2. r \in ReservationIds
  BY CallFields DEF HoldsReservation, CallAtPC, CallMatches
<1>3. ASSUME NEW s \in ReservationIds, Inserted(o, s)
      PROVE  reservation'[r] = reservation[r]
  BY <1>1, <1>3 DEF Inserted
<1>4. ASSUME NEW s \in ReservationIds, NEW status \in Terminal,
             Settled(o, s, status)
      PROVE  reservation'[r] = reservation[r]
  <2>1. ReservationRow(s) \in tx[o].locks
    BY <1>4 DEF Settled, LockInv, ReservationHeld, HoldsReservation
  <2> QED
    BY <1>1, <1>4, <2>1 DEF Settled
<1>5. ASSUME NEW R \in SUBSET ReservationIds, Removed(o, R)
      PROVE  reservation'[r] = reservation[r]
  BY <1>1, <1>2, <1>5 DEF Removed, Deleted, LockedByOther
<1> QED
  BY <1>3, <1>4, <1>5, ReservationStep

(* COMMITTED, RELEASED and deleted rows stay what they are. *)
LEMMA OutcomeStays ==
  ASSUME TypeInv, LockInv, NEW o \in Requests, Step(o),
         NEW r \in ReservationIds,
         reservation[r].status \in Terminal \cup {"deleted"}
  PROVE  reservation'[r].status \in {reservation[r].status, "deleted"}
<1> USE DEF TypeInv, TypeOK
<1>1. ASSUME NEW s \in ReservationIds, Inserted(o, s)
      PROVE  reservation'[r] = reservation[r]
  BY <1>1 DEF Inserted, Terminal
<1>2. ASSUME NEW s \in ReservationIds, NEW status \in Terminal,
             Settled(o, s, status)
      PROVE  reservation'[r] = reservation[r]
  BY <1>2 DEF Settled, Terminal
<1>3. ASSUME NEW R \in SUBSET ReservationIds, Removed(o, R)
      PROVE  reservation'[r].status \in {reservation[r].status, "deleted"}
  BY <1>3 DEF Removed, Deleted, Reservation
<1> QED
  BY <1>1, <1>2, <1>3, ReservationStep

(* The second statement of the sweep begins with no local but its time. *)
LEMMA SweepGoesOn ==
  ASSUME TypeInv, NEW o \in Requests, PurgeTerminalReservationsBefore(o)
  PROVE  /\ tx'[o].pc = "purge_expired" /\ tx'[o].call = tx[o].call
         /\ tx'[o].now = clock /\ tx'[o].onHand = NoRow /\ tx'[o].locks = {}
BY DEF PurgeTerminalReservationsBefore, Begin, TypeInv, TypeOK

(* Once a handler has its locks it goes on to its write, which ends it. *)
LEMMA LastStep ==
  ASSUME NEW o \in Requests, Step(o), ~Arrive(o), ~LockStock(o),
         ~LockReservation(o), ~PurgeTerminalReservationsBefore(o),
         ~FindKey(o), ~SumActive(o)
  PROVE  \E code \in Codes : Answer(o, code)
<1>1. CASE DeleteItems(o)
  BY <1>1 DEF DeleteItems, Codes
<1>2. CASE ~DeleteItems(o)
  BY <1>2 DEF Step, Acquire, Proceed, DeleteReservation,
     PurgeExpiredPendingReservations, InsertReservation, WriteStock,
     WriteCommit, WriteRelease, Fail, Codes
<1> QED
  BY <1>1, <1>2

LEMMA FurtherStep ==
  ASSUME NEW o \in Requests, Step(o), ~Arrive(o), ~LockStock(o),
         ~LockReservation(o), ~PurgeTerminalReservationsBefore(o)
  PROVE  \/ \E code \in Codes : Answer(o, code)
         \/ \E pc \in {"sum", "insert", "write_stock"} :
              tx[o].pc \in {"find_key", "sum"} /\ Goto(o, pc)
<1>1. CASE FindKey(o) \/ SumActive(o)
  BY <1>1 DEF FindKey, SumActive, Codes
<1>2. CASE ~FindKey(o) /\ ~SumActive(o)
  BY <1>2, LastStep
<1> QED
  BY <1>1, <1>2

LEMMA ExclusiveStep ==
  ASSUME TypeInv, LockInv, NEW o \in Requests, Step(o)
  PROVE  Exclusive'
BY LocksStep DEF LockInv, Exclusive, LockedByOther

LEMMA ReservationHeldStep ==
  ASSUME TypeInv, LockInv, NEW o \in Requests, Step(o)
  PROVE  ReservationHeld'
<1> SUFFICES ASSUME NEW q \in Requests, HoldsReservation(q)'
             PROVE  /\ ReservationRow(tx'[q].call.id) \in tx'[q].locks
                    /\ reservation'[tx'[q].call.id].status = "PENDING"
  BY DEF ReservationHeld
<1>1. CASE q # o
  BY <1>1, LocksStep, HeldReservationStays
  DEF LockInv, ReservationHeld, HoldsReservation
<1>2. CASE q = o
  <2> USE <1>2 DEF TypeInv, TypeOK, HoldsReservation
  <2>1. CASE LockReservation(o)
    <3>1. CASE \E code \in Codes : Answer(o, code)
      BY <3>1 DEF Answer, Idle
    <3>2. CASE ~\E code \in Codes : Answer(o, code)
      <4> DEFINE c == tx[o].call
                 code == IF c.op = "commit" THEN CommitCode(c.id, tx[o].now)
                                            ELSE ReleaseCode(c.id)
                 next == IF c.op = "commit" THEN "lock_stock"
                                            ELSE "write_release"
      <4>1. code \in Codes
        BY DEF CommitCode, ReleaseCode, Codes
      <4>2. RowExists(c.id) /\ code = "none"
        BY <2>1, <3>2, <4>1 DEF LockReservation, Codes
      <4>3. tx' = [tx EXCEPT ![o].pc = next,
                             ![o].locks = @ \cup {ReservationRow(c.id)}]
        BY <2>1, <4>2 DEF LockReservation
      <4>4. reservation[c.id].status = "PENDING"
        BY <4>2 DEF RowExists, Live, CommitCode, ReleaseCode
      <4>5. reservation' = reservation
        BY <2>1 DEF LockReservation
      <4>6. tx'[o].call = c /\ ReservationRow(c.id) \in tx'[o].locks
        BY <4>3 DEF Tx
      <4> QED
        BY <4>4, <4>5, <4>6
    <3> QED
      BY <3>1, <3>2
  <2>2. CASE LockStock(o)
    <3>1. tx'[o].pc \notin {"idle"} => tx[o].call.op = "commit"
      BY <2>2 DEF LockStock, Answer, Goto, Idle, Tx
    <3>2. CASE tx[o].call.op = "commit"
      BY <2>2, <3>2 DEF LockStock, Answer, Idle, Tx, LockInv, ReservationHeld
    <3> QED
      BY <3>1, <3>2
  <2>3. CASE ~LockReservation(o) /\ ~LockStock(o)
    <3>1. ~HoldsReservation(o)'
      <4>1. CASE Arrive(o)
        BY <4>1 DEF Arrive, requireWarehouseAndItem, loadAndAuthorize,
           BeginDelete, CreateItem, Begin, Answer, Idle
      <4>2. CASE PurgeTerminalReservationsBefore(o)
        BY <4>2, SweepGoesOn
      <4>3. CASE ~Arrive(o) /\ ~PurgeTerminalReservationsBefore(o)
        <5>1. \/ \E code \in Codes : Answer(o, code)
              \/ \E pc \in {"sum", "insert", "write_stock"} : Goto(o, pc)
          BY <2>3, <4>3, FurtherStep
        <5>2. ASSUME NEW code \in Codes, Answer(o, code)
              PROVE  ~HoldsReservation(o)'
          BY <5>2 DEF Answer, Idle
        <5>3. ASSUME NEW pc \in {"sum", "insert", "write_stock"}, Goto(o, pc)
              PROVE  ~HoldsReservation(o)'
          BY <5>3 DEF Goto, Tx
        <5> QED
          BY <5>1, <5>2, <5>3
      <4> QED
        BY <4>1, <4>2, <4>3
    <3> QED
      BY <3>1
  <2> QED
    BY <2>1, <2>2, <2>3
<1> QED
  BY <1>1, <1>2

LEMMA StockHeldStep ==
  ASSUME TypeInv, LockInv, NEW o \in Requests, Step(o)
  PROVE  StockHeld'
<1> SUFFICES ASSUME NEW q \in Requests, HoldsStock(q)'
             PROVE  /\ StockRow(PairOf(q)') \in tx'[q].locks
                    /\ stock'[PairOf(q)'] = tx'[q].onHand
  BY DEF StockHeld
<1>1. CASE q # o
  <2>1. tx'[q] = tx[q]
    BY <1>1, LocksStep
  <2>2. CallMatches(tx[q]) /\ tx[q] \in Tx
    BY DEF TypeInv, TypeOK, CallAtPC
  <2>3. /\ HoldsStock(q)
        /\ StockRow(PairOf(q)) \in tx[q].locks
        /\ stock[PairOf(q)] = tx[q].onHand
    BY <2>1 DEF HoldsStock, LockInv, StockHeld
  <2>4. PairOf(q)' = PairOf(q)
    <3>1. CASE tx[q].call.op = "commit"
      <4>1. HoldsReservation(q)
        BY <2>2, <2>3, <3>1 DEF HoldsStock, HoldsReservation, CallMatches
      <4> QED
        BY <1>1, <2>1, <3>1, <4>1, HeldReservationStays DEF PairOf
    <3>2. CASE tx[q].call.op # "commit"
      BY <2>1, <3>2 DEF PairOf
    <3> QED
      BY <3>1, <3>2
  <2>5. PairOf(q) \in Pairs
    BY <2>2, <2>3, CallFields
    DEF PairOf, HoldsStock, CallMatches, TypeInv, TypeOK, Reservation
  <2>6. stock[PairOf(q)] # NoRow /\ LockedByOther(o, StockRow(PairOf(q)))
    BY <1>1, <2>3 DEF HoldsStock, LockedByOther
  <2> QED
    BY <2>1, <2>3, <2>4, <2>5, <2>6, StockStep
<1>2. CASE q = o
  <2> USE <1>2 DEF TypeInv, TypeOK
  <2>1. CASE LockStock(o)
    <3>1. CASE \E code \in Codes : Answer(o, code)
      BY <3>1 DEF Answer, Idle, HoldsStock
    <3>2. CASE \E pc \in PCs : Goto(o, pc) /\ stock[PairOf(o)] = NoRow
      <4>1. tx[o].onHand = NoRow
        BY <2>1 DEF LockStock, CallAtPC, CallMatches
      <4> QED
        BY <3>2, <4>1 DEF Goto, Tx, HoldsStock
    <3>3. CASE stock[PairOf(o)] # NoRow
      <4>1. PairOf(o)' = PairOf(o)
        BY <2>1, <3>3 DEF LockStock, PairOf, Tx
      <4> QED
        BY <2>1, <3>3, <4>1 DEF LockStock, Tx
    <3> QED
      BY <2>1, <3>1, <3>2, <3>3 DEF LockStock, Codes, PCs
  <2>2. CASE FindKey(o) \/ SumActive(o)
    <3>1. CASE \E code \in Codes : Answer(o, code)
      BY <3>1 DEF Answer, Idle, HoldsStock
    <3>2. CASE \E pc \in PCs : Goto(o, pc)
      <4>1. HoldsStock(o)
        BY <2>2, <3>2 DEF FindKey, SumActive, Goto, HoldsStock, Tx
      <4>2. PairOf(o)' = PairOf(o)
        BY <2>2, <3>2 DEF FindKey, SumActive, Goto, PairOf, Tx
      <4> QED
        BY <2>2, <3>2, <4>1, <4>2
        DEF FindKey, SumActive, Goto, Tx, LockInv, StockHeld
    <3> QED
      BY <2>2, <3>1, <3>2 DEF FindKey, SumActive, Codes, PCs
  <2>3. CASE LockReservation(o)
    BY <2>3 DEF LockReservation, Answer, Idle, HoldsStock, Tx
  <2>4. CASE Arrive(o)
    BY <2>4 DEF Arrive, requireWarehouseAndItem, loadAndAuthorize,
       BeginDelete, CreateItem, Begin, Answer, Idle, HoldsStock
  <2>5. CASE PurgeTerminalReservationsBefore(o)
    BY <2>5, SweepGoesOn DEF HoldsStock
  <2>6. CASE ~LockStock(o) /\ ~FindKey(o) /\ ~SumActive(o) /\ ~Arrive(o)
             /\ ~LockReservation(o) /\ ~PurgeTerminalReservationsBefore(o)
    <3>1. \E code \in Codes : Answer(o, code)
      BY <2>6, LastStep
    <3> QED
      BY <3>1 DEF Answer, Idle, HoldsStock
  <2> QED
    BY <2>1, <2>2, <2>3, <2>4, <2>5, <2>6
<1> QED
  BY <1>1, <1>2

LEMMA DeletingSettledStep ==
  ASSUME TypeInv, LockInv, NEW o \in Requests, Step(o)
  PROVE  DeletingSettled'
<1> SUFFICES ASSUME NEW q \in Requests, tx'[q].pc = "delete_row"
             PROVE  reservation'[tx'[q].call.id].status \in Terminal \cup {"deleted"}
  BY DEF DeletingSettled
<1>1. CASE q # o
  <2>1. tx'[q] = tx[q]
    BY <1>1, LocksStep
  <2>2. tx[q].call.id \in ReservationIds
    BY <2>1, CallFields DEF TypeInv, CallAtPC, CallMatches
  <2> QED
    BY <2>1, <2>2, OutcomeStays DEF LockInv, DeletingSettled
<1>2. CASE q = o
  <2> USE <1>2 DEF TypeInv, TypeOK
  <2>1. CASE Arrive(o)
    <3>1. PICK c \in Calls : \/ requireWarehouseAndItem(o, c)
                             \/ loadAndAuthorize(o, c)
                             \/ BeginDelete(o, c)
                             \/ CreateItem(o, c)
      BY <2>1 DEF Arrive
    <3>2. CASE loadAndAuthorize(o, c)
      BY <3>2 DEF loadAndAuthorize, DeletableStatus, Begin, Answer, Idle
    <3>3. CASE ~loadAndAuthorize(o, c)
      BY <3>1, <3>3 DEF requireWarehouseAndItem, CreateItem, BeginDelete,
         Begin, Answer, Idle
    <3> QED
      BY <3>2, <3>3
  <2>2. CASE LockStock(o) \/ LockReservation(o)
    BY <2>2 DEF LockStock, LockReservation, Answer, Goto, Idle, Tx
  <2>3. CASE ~Arrive(o) /\ ~LockStock(o) /\ ~LockReservation(o)
             /\ ~PurgeTerminalReservationsBefore(o)
    <3>1. \/ \E code \in Codes : Answer(o, code)
          \/ \E pc \in {"sum", "insert", "write_stock"} : Goto(o, pc)
      BY <2>3, FurtherStep
    <3>2. ASSUME NEW code \in Codes, Answer(o, code) PROVE tx'[o].pc = "idle"
      BY <3>2 DEF Answer, Idle
    <3>3. ASSUME NEW pc \in {"sum", "insert", "write_stock"}, Goto(o, pc)
          PROVE  tx'[o].pc = pc
      BY <3>3 DEF Goto, Tx
    <3> QED
      BY <3>1, <3>2, <3>3
  <2>4. CASE PurgeTerminalReservationsBefore(o)
    BY <2>4, SweepGoesOn
  <2> QED
    BY <2>1, <2>2, <2>3, <2>4
<1> QED
  BY <1>1, <1>2

LEMMA TimeIsPastStep ==
  ASSUME TypeInv, LockInv, NEW o \in Requests, Step(o)
  PROVE  TimeIsPast' /\ clock' = clock
<1>1. clock' = clock /\ clock \in Nat
  <2>1. Arrive(o) => clock' = clock
    BY DEF Arrive, requireWarehouseAndItem, loadAndAuthorize,
       CreateItem, BeginDelete
  <2>2. Acquire(o) => clock' = clock
    BY DEF Acquire, LockStock, LockReservation, DeleteReservation,
       PurgeTerminalReservationsBefore, PurgeExpiredPendingReservations,
       DeleteItems
  <2>3. Proceed(o) \/ Fail(o) => clock' = clock
    BY DEF Proceed, FindKey, SumActive, InsertReservation, WriteStock,
       WriteCommit, WriteRelease, Fail
  <2>4. clock \in Nat
    BY BoundsAssumption DEF TypeInv, TypeOK
  <2> QED
    BY <2>1, <2>2, <2>3, <2>4 DEF Step
<1>2. tx'[o].now \in {tx[o].now, 0, clock}
  <2> USE DEF TypeInv, TypeOK
  <2>1. CASE Arrive(o)
    BY <2>1 DEF Arrive, requireWarehouseAndItem, loadAndAuthorize,
       BeginDelete, CreateItem, Begin, Answer, Idle
  <2>2. CASE LockStock(o) \/ LockReservation(o)
    BY <2>2 DEF LockStock, LockReservation, Answer, Goto, Idle, Tx
  <2>3. CASE ~Arrive(o) /\ ~LockStock(o) /\ ~LockReservation(o)
             /\ ~PurgeTerminalReservationsBefore(o)
    <3>1. \/ \E code \in Codes : Answer(o, code)
          \/ \E pc \in {"sum", "insert", "write_stock"} : Goto(o, pc)
      BY <2>3, FurtherStep
    <3>2. ASSUME NEW code \in Codes, Answer(o, code) PROVE tx'[o].now = 0
      BY <3>2 DEF Answer, Idle
    <3>3. ASSUME NEW pc \in {"sum", "insert", "write_stock"}, Goto(o, pc)
          PROVE  tx'[o].now = tx[o].now
      BY <3>3 DEF Goto, Tx
    <3> QED
      BY <3>1, <3>2, <3>3
  <2>4. CASE PurgeTerminalReservationsBefore(o)
    BY <2>4, SweepGoesOn
  <2> QED
    BY <2>1, <2>2, <2>3, <2>4
<1>3. ASSUME NEW q \in Requests PROVE tx'[q].now <= clock'
  BY <1>1, <1>2, LocksStep DEF LockInv, TimeIsPast
<1> QED
  BY <1>1, <1>3 DEF TimeIsPast

LEMMA LockInit == Init => LockInv
BY BoundsAssumption DEF Init, LockInv, Exclusive, ReservationHeld, StockHeld,
   DeletingSettled, TimeIsPast, HoldsReservation, HoldsStock, Idle

LEMMA LockNext == TypeInv /\ LockInv /\ [Next]_vars => LockInv'
<1> SUFFICES ASSUME TypeInv, LockInv, [Next]_vars PROVE LockInv'
  OBVIOUS
<1>1. CASE Tick
  <2>1. clock \in Nat /\ \A q \in Requests : tx[q].now \in Nat
    BY BoundsAssumption DEF TypeInv, TypeOK, Tx
  <2>2. TimeIsPast'
    BY <1>1, <2>1 DEF Tick, LockInv, TimeIsPast
  <2> QED
    BY <1>1, <2>2 DEF Tick, LockInv, Exclusive, ReservationHeld, StockHeld,
       DeletingSettled, HoldsReservation, HoldsStock, PairOf
<1>2. ASSUME NEW o \in Requests, Step(o) PROVE LockInv'
  BY <1>2, ExclusiveStep, ReservationHeldStep, StockHeldStep,
     DeletingSettledStep, TimeIsPastStep DEF LockInv
<1>3. CASE UNCHANGED vars
  BY <1>3 DEF vars, LockInv, Exclusive, ReservationHeld, StockHeld,
     DeletingSettled, TimeIsPast, HoldsReservation, HoldsStock, PairOf
<1> QED
  BY <1>1, <1>2, <1>3 DEF Next, Step

(* Row locks exclude each other, and what a handler has read under one is
   still so when it writes. *)
THEOREM LockInvariant == Spec => [](TypeInv /\ LockInv)
BY TypeInit, TypeNext, LockInit, LockNext, PTL DEF Spec
-----------------------------------------------------------------------------
(* Who waits for whom *)

(* A transaction holds stock rows only once it needs no further lock, and a
   reservation row also while it waits for the stock row of that reservation. *)
PastLocks == {"find_key", "sum", "insert", "write_stock", "write_commit"}

LockedAt ==
  \A q \in Requests, row \in Rows :
    row \in tx[q].locks =>
      \/ /\ \E p \in Pairs : row = StockRow(p)
         /\ tx[q].pc \in PastLocks
      \/ /\ \E r \in ReservationIds : row = ReservationRow(r)
         /\ HoldsReservation(q)

LEMMA LockedAtStep ==
  ASSUME TypeInv, LockedAt, NEW o \in Requests, Step(o)
  PROVE  LockedAt'
<1> SUFFICES ASSUME NEW q \in Requests, NEW row \in Rows, row \in tx'[q].locks
             PROVE  \/ /\ \E p \in Pairs : row = StockRow(p)
                       /\ tx'[q].pc \in PastLocks
                    \/ /\ \E r \in ReservationIds : row = ReservationRow(r)
                       /\ HoldsReservation(q)'
  BY DEF LockedAt
<1>1. CASE q # o
  BY <1>1, LocksStep DEF LockedAt, HoldsReservation
<1>2. CASE q = o
  <2> USE <1>2 DEF TypeInv, TypeOK
  <2> DEFINE c == tx[o].call
  <2>1. CASE Arrive(o)
    <3>1. tx'[o].locks = {}
      BY <2>1 DEF Arrive, requireWarehouseAndItem, loadAndAuthorize,
         BeginDelete, CreateItem, Begin, Answer, Idle
    <3> QED
      BY <3>1
  <2>2. CASE \E code \in Codes : Answer(o, code)
    BY <2>2 DEF Answer, Idle
  <2>3. CASE LockStock(o) /\ ~\E code \in Codes : Answer(o, code)
    <3>1. CallMatches(tx[o]) /\ tx[o] \in Tx
      BY DEF CallAtPC
    <3>2. PairOf(o) \in Pairs
      BY <2>3, <3>1, CallFields DEF LockStock, PairOf, CallMatches, Reservation
    <3>3. /\ tx'[o].call = c
          /\ tx'[o].locks \subseteq tx[o].locks \cup {StockRow(PairOf(o))}
          /\ c.op = "commit" => tx'[o].pc = "write_commit"
          /\ tx'[o].pc \in PastLocks
      BY <2>3, <3>1 DEF LockStock, Goto, Tx, PastLocks, Codes, CallMatches
    <3>4. CASE row = StockRow(PairOf(o))
      BY <3>2, <3>3, <3>4
    <3>5. CASE row \in tx[o].locks
      <4>1. \E r \in ReservationIds : row = ReservationRow(r)
        BY <2>3, <3>5 DEF LockedAt, LockStock, PastLocks
      <4>2. c.op = "commit"
        BY <2>3, <3>5 DEF LockedAt, LockStock, HoldsReservation, PastLocks
      <4> QED
        BY <3>3, <4>1, <4>2 DEF HoldsReservation
    <3> QED
      BY <3>3, <3>4, <3>5
  <2>4. CASE LockReservation(o) /\ ~\E code \in Codes : Answer(o, code)
    <3>1. CallMatches(tx[o]) /\ tx[o] \in Tx
      BY DEF CallAtPC
    <3>2. c.id \in ReservationIds
      BY <2>4, <3>1, CallFields DEF LockReservation, CallMatches
    <3>3. /\ tx'[o].locks = tx[o].locks \cup {ReservationRow(c.id)}
          /\ HoldsReservation(o)'
      BY <2>4, <3>1 DEF LockReservation, CommitCode, TooLate, ReleaseCode, Tx, Codes,
         HoldsReservation, CallMatches
    <3>4. row \notin tx[o].locks
      BY <2>4 DEF LockedAt, LockReservation, HoldsReservation, PastLocks
    <3> QED
      BY <3>2, <3>3, <3>4
  <2>5. CASE FindKey(o) \/ SumActive(o)
    <3>1. CASE \E pc \in {"sum", "insert", "write_stock"} : Goto(o, pc)
      <4>1. tx'[o].locks = tx[o].locks /\ tx'[o].pc \in PastLocks
        BY <3>1 DEF Goto, Tx, PastLocks
      <4>2. ~HoldsReservation(o)
        BY <2>5 DEF FindKey, SumActive, HoldsReservation
      <4> QED
        BY <4>1, <4>2 DEF LockedAt
    <3> QED
      BY <2>2, <2>5, <3>1 DEF FindKey, SumActive, Codes
  <2>6. CASE PurgeTerminalReservationsBefore(o)
    BY <2>6, SweepGoesOn
  <2> QED
    BY <2>1, <2>2, <2>3, <2>4, <2>5, <2>6, LastStep
<1> QED
  BY <1>1, <1>2

(* Waits between any number of handlers end: who waits while holding a row
   is a commit that holds its reservation row and waits for the stock row,
   and who holds a stock row waits for nothing (the lock order of Commit, and
   Reserve looking reservations up without locking them). *)
THEOREM WaitingEnds == Spec => []WaitsEnd
<1>1. Init => LockedAt
  BY DEF Init, LockedAt, Idle
<1>2. TypeInv /\ LockedAt /\ [Next]_vars => LockedAt'
  <2> SUFFICES ASSUME TypeInv, LockedAt, [Next]_vars PROVE LockedAt'
    OBVIOUS
  <2>1. CASE Tick \/ UNCHANGED vars
    BY <2>1 DEF Tick, vars, LockedAt, HoldsReservation
  <2>2. ASSUME NEW o \in Requests, Step(o) PROVE LockedAt'
    BY <2>2, LockedAtStep
  <2> QED
    BY <2>1, <2>2 DEF Next, Step
<1>3. TypeInv /\ LockedAt => WaitsEnd
  <2> SUFFICES ASSUME TypeInv, LockedAt, NEW q \in Requests,
                      NEW o \in Requests, NEW p \in Requests,
                      NEW x \in Requests, WaitsFor(q, o), WaitsFor(o, p)
               PROVE  ~WaitsFor(p, x)
    BY DEF WaitsEnd
  <2> USE DEF TypeInv, TypeOK, Tx
  <2>1. \A y \in Requests : Wanted(y) # {} =>
          tx[y].pc \in {"lock_stock", "lock_row", "delete_row",
                        "purge_terminal", "purge_expired", "delete_items"}
    BY DEF Wanted
  <2>2. tx[o].pc = "lock_stock"
    <3>1. PICK row \in Rows : row \in tx[o].locks
      BY DEF WaitsFor
    <3>2. tx[o].pc \notin PastLocks
      BY <2>1 DEF WaitsFor, PastLocks
    <3>3. HoldsReservation(o)
      BY <3>1, <3>2 DEF LockedAt
    <3> QED
      BY <2>1, <3>3 DEF HoldsReservation, WaitsFor
  <2>3. StockRow(PairOf(o)) \in tx[p].locks
    BY <2>2 DEF WaitsFor, Wanted
  <2>4. tx[p].pc \in PastLocks
    BY <2>3 DEF LockedAt, StockRow, ReservationRow
  <2> QED
    BY <2>1, <2>4 DEF WaitsFor, PastLocks
<1> QED
  BY <1>1, <1>2, <1>3, TypeInvariant, PTL DEF Spec
-----------------------------------------------------------------------------
(* Consequences of the locking *)

(* No row leaves COMMITTED or RELEASED but by being deleted, and no deleted
   row comes back: the row lock Commit and Release take, and the status they
   look at under it, keep a racing call or a retry from a second outcome. *)
THEOREM OutcomesAreFinal == Spec => OutcomeIsFinal
<1> DEFINE A == \A r \in ReservationIds :
                  reservation[r].status \in Terminal \cup {"deleted"} =>
                    reservation'[r].status \in {reservation[r].status, "deleted"}
<1>1. TypeInv /\ LockInv /\ [Next]_vars => A
  <2> SUFFICES ASSUME TypeInv, LockInv, [Next]_vars PROVE A
    OBVIOUS
  <2>1. CASE Tick \/ UNCHANGED vars
    BY <2>1 DEF Tick, vars
  <2>2. ASSUME NEW o \in Requests, Step(o) PROVE A
    BY <2>2, OutcomeStays
  <2> QED
    BY <2>1, <2>2 DEF Next, Step
<1>2. TypeInv /\ LockInv /\ [Next]_vars => [A]_vars
  BY <1>1
<1>3. Spec => [][A]_vars
  <2>1. Spec => [][Next]_vars
    BY PTL DEF Spec
  <2> QED
    BY <1>2, <2>1, LockInvariant, PTL
<1> QED
  BY <1>3 DEF OutcomeIsFinal

(* A PENDING reservation that has not expired keeps its row: each delete
   either looks for expired or terminal rows itself, at a time that is past,
   or goes for a row that has been terminal ever since it was checked. *)
THEOREM ActiveHoldsSurvive == Spec => ActiveHoldSurvives
<1> DEFINE A == \A r \in ReservationIds :
                  Active(reservation[r], clock) =>
                    reservation'[r].status # "deleted"
<1>1. TypeInv /\ LockInv /\ [Next]_vars => A
  <2> SUFFICES ASSUME TypeInv, LockInv, [Next]_vars,
                      NEW r \in ReservationIds, Active(reservation[r], clock)
               PROVE  reservation'[r].status # "deleted"
    OBVIOUS
  <2>1. reservation[r].status = "PENDING"
    BY DEF Active
  <2>2. CASE Tick \/ UNCHANGED vars
    BY <2>1, <2>2 DEF Tick, vars
  <2>3. ASSUME NEW o \in Requests, Step(o)
        PROVE  reservation'[r].status # "deleted"
    <3> USE DEF TypeInv, TypeOK
    <3>1. ASSUME NEW s \in ReservationIds, Inserted(o, s)
          PROVE  reservation'[r] = reservation[r]
      BY <2>1, <3>1 DEF Inserted
    <3>2. ASSUME NEW s \in ReservationIds, NEW status \in Terminal,
                 Settled(o, s, status)
          PROVE  reservation'[r].status \in {"PENDING", status}
      BY <2>1, <3>2 DEF Settled, Reservation
    <3>3. ASSUME NEW R \in SUBSET ReservationIds, Removed(o, R)
          PROVE  reservation'[r] = reservation[r]
      BY <3>3 DEF Removed, Deleted
    <3> QED
      BY <2>1, <2>3, <3>1, <3>2, <3>3, ReservationStep DEF Terminal
  <2> QED
    BY <2>2, <2>3 DEF Next, Step
<1>2. TypeInv /\ LockInv /\ [Next]_vars => [A]_vars
  BY <1>1
<1>3. Spec => [][A]_vars
  <2>1. Spec => [][Next]_vars
    BY PTL DEF Spec
  <2> QED
    BY <1>2, <2>1, LockInvariant, PTL
<1> QED
  BY <1>3 DEF ActiveHoldSurvives

(* A stock row has an item: SetStock inserts one only for an item there is,
   updates one only while it holds it, and an item takes its stock rows with
   it once nobody holds them. *)
THEOREM StockRowsHaveItems == Spec => []StockHasItem
<1>1. Init => StockHasItem
  BY DEF Init, StockHasItem
<1>2. TypeInv /\ LockInv /\ StockHasItem /\ [Next]_vars => StockHasItem'
  <2> SUFFICES ASSUME TypeInv, LockInv, StockHasItem, [Next]_vars,
                      NEW p \in Pairs, stock'[p] # NoRow
               PROVE  items'[p[2]] = "present"
    BY DEF StockHasItem
  <2>0. p[2] \in Items
    BY DEF Pairs
  <2>1. CASE Tick \/ UNCHANGED vars
    BY <2>1 DEF Tick, vars, StockHasItem
  <2>2. ASSUME NEW o \in Requests, Step(o) PROVE items'[p[2]] = "present"
    <3> USE <2>0 DEF TypeInv, TypeOK
    <3>1. CASE DeleteItems(o)
      BY <3>1 DEF DeleteItems, StockHasItem
    <3>2. ASSUME NEW c \in Calls, CreateItem(o, c)
          PROVE  items'[p[2]] = "present"
      BY <3>2 DEF CreateItem, StockHasItem
    <3>3. CASE WriteStock(o)
      <4>1. CASE p # tx[o].call.pair
        BY <3>3, <4>1 DEF WriteStock, StockHasItem
      <4>2. CASE p = tx[o].call.pair /\ tx[o].onHand = NoRow
        BY <3>3, <4>2 DEF WriteStock, InsertRefused, StockHasItem
      <4>3. CASE p = tx[o].call.pair /\ tx[o].onHand # NoRow
        <5>1. PairOf(o) = p /\ HoldsStock(o)
          BY <3>3, <4>3 DEF WriteStock, PairOf, HoldsStock, CallAtPC, CallMatches
        <5>2. stock[p] # NoRow
          BY <4>3, <5>1 DEF LockInv, StockHeld
        <5> QED
          BY <3>3, <5>2 DEF WriteStock, StockHasItem
      <4> QED
        BY <4>1, <4>2, <4>3
    <3>4. CASE WriteCommit(o)
      <4>1. PairOf(o) = reservation[tx[o].call.id].pair /\ HoldsStock(o)
        BY <3>4 DEF WriteCommit, PairOf, HoldsStock, CallAtPC, CallMatches
      <4>2. stock[PairOf(o)] # NoRow
        BY <4>1 DEF LockInv, StockHeld, HoldsStock
      <4> QED
        BY <3>4, <4>1, <4>2 DEF WriteCommit, StockHasItem
    <3>5. CASE Arrive(o)
      BY <3>2, <3>5 DEF Arrive, requireWarehouseAndItem,
         loadAndAuthorize, BeginDelete, StockHasItem
    <3>6. CASE \/ Acquire(o) /\ ~DeleteItems(o)
               \/ FindKey(o) \/ SumActive(o)
               \/ InsertReservation(o) \/ WriteRelease(o) \/ Fail(o)
      BY <3>6 DEF Acquire, LockStock, LockReservation, DeleteReservation,
         PurgeTerminalReservationsBefore, PurgeExpiredPendingReservations,
         FindKey, SumActive, InsertReservation, WriteRelease, Fail, StockHasItem
    <3> QED
      BY <2>2, <3>1, <3>3, <3>4, <3>5, <3>6 DEF Step, Proceed
  <2> QED
    BY <2>1, <2>2 DEF Next, Step
<1> QED
  BY <1>1, <1>2, LockInvariant, PTL DEF Spec
-----------------------------------------------------------------------------
(* Sums of quantities *)

(* The units of finitely many reservations are finitely many, so that the
   sum of their quantities is a natural number, zero for no reservation. *)
LEMMA QuantityType ==
  ASSUME TypeInv, NEW R \in SUBSET ReservationIds
  PROVE  /\ IsFiniteSet(Units(reservation, R))
         /\ Quantity(R) \in Nat
<1> DEFINE U == R \X Quantities
<1>1. IsFiniteSet(U)
  <2>1. IsFiniteSet(R)
    BY FiniteAssumption, FS_Subset
  <2>2. IsFiniteSet(Quantities)
    BY BoundsAssumption, FS_Interval DEF Quantities
  <2> QED
    BY <2>1, <2>2, FS_Product
<1>2. Units(reservation, R) \subseteq U
  <2>1. ASSUME NEW i \in R, NEW n \in 1 .. reservation[i].quantity
        PROVE  n \in Quantities
    BY BoundsAssumption DEF TypeInv, TypeOK, Reservation, Quantities
  <2> QED
    BY <2>1 DEF Units
<1>3. IsFiniteSet(Units(reservation, R))
  BY <1>1, <1>2, FS_Subset
<1> QED
  BY <1>3, FS_CardinalityType DEF Quantity

(* Idempotency *)

(* A reserve that is past its lookup holds its stock row, and no reservation
   of its pair has its key. *)
Decided(q) ==
  /\ tx[q].pc \in {"sum", "insert"}
  /\ tx[q].call.op = "reserve"
  /\ tx[q].onHand # NoRow

KeyFree ==
  \A q \in Requests, r \in ReservationIds :
    /\ Decided(q)
    /\ tx[q].call.key # NoKey
    /\ HasKey(r, tx[q].call.key)
    => reservation[r].pair # tx[q].call.pair

(* Only a reserve that has found a stock row gets as far as the INSERT. *)
InsertHasStock ==
  \A q \in Requests : tx[q].pc = "insert" => tx[q].onHand # NoRow

LEMMA InsertHasStockStep ==
  ASSUME TypeInv, LockInv, InsertHasStock, NEW o \in Requests, Step(o)
  PROVE  InsertHasStock'
<1> SUFFICES ASSUME NEW q \in Requests, tx'[q].pc = "insert"
             PROVE  tx'[q].onHand # NoRow
  BY DEF InsertHasStock
<1>1. CASE q # o
  BY <1>1, LocksStep DEF InsertHasStock
<1>2. CASE q = o
  <2> USE <1>2 DEF TypeInv, TypeOK
  <2>1. CASE SumActive(o)
    <3>1. CASE \E code \in Codes : Answer(o, code)
      BY <3>1 DEF Answer, Idle
    <3>2. CASE ~\E code \in Codes : Answer(o, code)
      <4> DEFINE c == tx[o].call
                 R == Holding(c.pair, tx[o].now)
      <4>1. c \in AllCalls /\ tx[o] \in Tx
        BY <2>1 DEF SumActive, CallAtPC, CallMatches
      <4>2. c.op = "reserve" /\ ~(OnHandRead(o) < sumActive(c.pair, tx[o].now) + c.quantity)
            /\ Goto(o, "insert")
        <5>1. c.op = "set_stock" => tx'[o].pc \in {"idle", "write_stock"}
          BY <2>1 DEF SumActive, Answer, Goto, Idle, Tx
        <5> QED
          BY <2>1, <3>2, <5>1 DEF SumActive, Codes
      <4>3. sumActive(c.pair, tx[o].now) \in Nat
        BY QuantityType DEF sumActive, Holding
      <4>4. c.quantity \in Nat /\ c.quantity > 0
        BY <4>1, <4>2, CallFields, BoundsAssumption DEF Quantities
      <4>5. tx[o].onHand # NoRow
        BY <4>2, <4>3, <4>4 DEF OnHandRead
      <4> QED
        BY <4>2, <4>5 DEF Goto, Tx
    <3> QED
      BY <3>1, <3>2
  <2>2. CASE Arrive(o)
    BY <2>2 DEF Arrive, requireWarehouseAndItem, loadAndAuthorize,
       BeginDelete, CreateItem, Begin, Answer, Idle
  <2>3. CASE LockStock(o) \/ LockReservation(o) \/ FindKey(o)
    BY <2>3 DEF LockStock, LockReservation, FindKey, Answer, Goto, Idle, Tx
  <2>4. CASE ~SumActive(o) /\ ~Arrive(o) /\ ~LockStock(o)
             /\ ~LockReservation(o) /\ ~FindKey(o)
             /\ ~PurgeTerminalReservationsBefore(o)
    <3>1. \E code \in Codes : Answer(o, code)
      BY <2>4, LastStep
    <3> QED
      BY <3>1 DEF Answer, Idle
  <2>5. CASE PurgeTerminalReservationsBefore(o)
    BY <2>5, SweepGoesOn
  <2> QED
    BY <2>1, <2>2, <2>3, <2>4, <2>5
<1> QED
  BY <1>1, <1>2

LEMMA KeyFreeStep ==
  ASSUME TypeInv, LockInv, InsertHasStock, KeyFree, NEW o \in Requests, Step(o)
  PROVE  KeyFree'
<1> SUFFICES ASSUME NEW q \in Requests, NEW r \in ReservationIds,
                    Decided(q)', tx'[q].call.key # NoKey,
                    HasKey(r, tx[q].call.key)'
             PROVE  reservation'[r].pair # tx'[q].call.pair
  BY DEF KeyFree
<1> USE DEF TypeInv, TypeOK
<1> DEFINE k == tx'[q].call.key
           p == tx'[q].call.pair
<1>1. CASE q # o
  <2>1. /\ tx'[q] = tx[q]
        /\ Decided(q)
        /\ CallMatches(tx[q])
    BY <1>1, LocksStep DEF Decided, CallAtPC
  <2>2. CASE HasKey(r, k) /\ reservation'[r].pair = reservation[r].pair
    BY <2>1, <2>2 DEF KeyFree
  <2>3. ASSUME Inserted(o, r) PROVE reservation'[r].pair # p
    <3>1. HoldsStock(o) /\ HoldsStock(q)
      BY <2>1, <2>3 DEF Inserted, HoldsStock, InsertHasStock, Decided
    <3>2. PairOf(o) = tx[o].call.pair /\ PairOf(q) = p
      BY <2>1, <2>3 DEF Inserted, PairOf, CallAtPC, CallMatches, Decided
    <3>3. tx[o].call.pair # p
      BY <1>1, <3>1, <3>2 DEF LockInv, StockHeld, Exclusive
    <3> QED
      BY <2>3, <3>3 DEF Inserted
  <2>4. ASSUME NEW s \in ReservationIds, Inserted(o, s), s # r
        PROVE  reservation'[r] = reservation[r]
    BY <2>4 DEF Inserted
  <2>5. ASSUME NEW s \in ReservationIds, NEW status \in Terminal,
               Settled(o, s, status)
        PROVE  HasKey(r, k) /\ reservation'[r].pair = reservation[r].pair
    BY <2>5 DEF Settled, Reservation, HasKey, RowExists, Live, Terminal
  <2>6. ASSUME NEW R \in SUBSET ReservationIds, Removed(o, R)
        PROVE  HasKey(r, k) /\ reservation'[r].pair = reservation[r].pair
    BY <2>6 DEF Removed, Deleted, Reservation, HasKey, RowExists, Live
  <2> QED
    BY <2>1, <2>2, <2>3, <2>4, <2>5, <2>6, ReservationStep
    DEF HasKey, RowExists
<1>2. CASE q = o
  <2>1. CASE FindKey(o)
    BY <1>2, <2>1 DEF FindKey, Answer, Goto, Idle, Tx, Decided, HasKey, RowExists
  <2>2. CASE SumActive(o)
    <3>1. CASE \E code \in Codes : Answer(o, code)
      BY <1>2, <3>1 DEF Answer, Idle, Decided
    <3>2. CASE \E pc \in PCs : Goto(o, pc)
      <4>1. Decided(o) /\ tx'[o].call = tx[o].call
        BY <1>2, <2>2, <3>2 DEF SumActive, Goto, Tx, Decided
      <4> QED
        BY <1>2, <2>2, <4>1 DEF SumActive, KeyFree, HasKey, RowExists
    <3> QED
      BY <2>2, <3>1, <3>2 DEF SumActive, Codes, PCs
  <2>3. CASE Arrive(o)
    BY <1>2, <2>3 DEF Arrive, requireWarehouseAndItem, loadAndAuthorize,
       BeginDelete, CreateItem, Begin, Answer, Idle, Decided
  <2>4. CASE LockStock(o)
    BY <1>2, <2>4 DEF LockStock, Answer, Goto, Idle, Tx, Decided
  <2>5. CASE LockReservation(o)
    BY <1>2, <2>5 DEF LockReservation, Answer, Idle, Tx, Decided
  <2>6. CASE ~FindKey(o) /\ ~SumActive(o) /\ ~Arrive(o) /\ ~LockStock(o)
             /\ ~LockReservation(o) /\ ~PurgeTerminalReservationsBefore(o)
    <3>1. \E code \in Codes : Answer(o, code)
      BY <2>6, LastStep
    <3> QED
      BY <1>2, <3>1 DEF Answer, Idle, Decided
  <2>7. CASE PurgeTerminalReservationsBefore(o)
    BY <1>2, <2>7, SweepGoesOn DEF Decided
  <2> QED
    BY <2>1, <2>2, <2>3, <2>4, <2>5, <2>6, <2>7
<1> QED
  BY <1>1, <1>2

(* Reserves with one key on one pair converge: the row lock keeps all but one
   of them between the lookup and the INSERT. *)
THEOREM SamePairKeysConverge == Spec => []SamePairKeyConverges
<1> DEFINE Inv == InsertHasStock /\ KeyFree
<1>1. Init => Inv
  BY DEF Init, Idle, InsertHasStock, KeyFree, Decided
<1>2. TypeInv /\ LockInv /\ Inv /\ [Next]_vars => Inv'
  <2> SUFFICES ASSUME TypeInv, LockInv, Inv, [Next]_vars PROVE Inv'
    OBVIOUS
  <2>1. CASE Tick \/ UNCHANGED vars
    BY <2>1 DEF Tick, vars, InsertHasStock, KeyFree, Decided, HasKey, RowExists
  <2>2. ASSUME NEW o \in Requests, Step(o) PROVE Inv'
    BY <2>2, InsertHasStockStep, KeyFreeStep
  <2> QED
    BY <2>1, <2>2 DEF Next, Step
<1>3. TypeInv /\ Inv => SamePairKeyConverges
  BY DEF InsertHasStock, KeyFree, Decided, SamePairKeyConverges, Inserting,
     TypeInv, CallAtPC, CallMatches
<1> QED
  BY <1>1, <1>2, <1>3, LockInvariant, PTL DEF Spec

(* Shipment keeps to this: it draws a key for each attempt to reserve.  Other
   clients of the API need not. *)
OneKeyOnePair ==
  \A c, d \in Calls :
    c.op = "reserve" /\ d.op = "reserve" /\ c.key = d.key /\ c.key # NoKey
      => c.pair = d.pair

(* Handlers and rows have their keys from the calls. *)
CallsInHand == \A q \in Requests : tx[q].pc # "idle" => tx[q].call \in Calls

KeyedByCall ==
  \A r \in ReservationIds : RowExists(r) =>
    \E c \in Calls : /\ c.op = "reserve"
                     /\ c.key = reservation[r].key
                     /\ c.pair = reservation[r].pair

LEMMA CallsInHandStep ==
  ASSUME TypeInv, CallsInHand, NEW o \in Requests, Step(o)
  PROVE  CallsInHand'
<1> SUFFICES ASSUME NEW q \in Requests, tx'[q].pc # "idle"
             PROVE  tx'[q].call \in Calls
  BY DEF CallsInHand
<1>1. CASE q # o
  BY <1>1, LocksStep DEF CallsInHand
<1>2. CASE q = o
  <2> USE <1>2 DEF TypeInv, TypeOK
  <2>1. CASE Arrive(o)
    BY <2>1 DEF Arrive, requireWarehouseAndItem, loadAndAuthorize,
       BeginDelete, CreateItem, Begin, Answer, Idle
  <2>2. CASE \E code \in Codes : Answer(o, code)
    BY <2>2 DEF Answer, Idle
  <2>3. CASE \E pc \in PCs : tx[o].pc # "idle" /\ Goto(o, pc)
    BY <2>3 DEF Goto, Tx, CallsInHand
  <2>4. CASE LockStock(o)
    BY <2>2, <2>4 DEF LockStock, Goto, Tx, CallsInHand, Codes
  <2>5. CASE LockReservation(o)
    BY <2>2, <2>5 DEF LockReservation, CommitCode, TooLate, ReleaseCode, Tx, CallsInHand, Codes
  <2>6. CASE ~Arrive(o) /\ ~LockStock(o) /\ ~LockReservation(o)
             /\ ~PurgeTerminalReservationsBefore(o)
    BY <2>2, <2>3, <2>6, FurtherStep DEF PCs
  <2>7. CASE PurgeTerminalReservationsBefore(o)
    BY <2>7, SweepGoesOn DEF PurgeTerminalReservationsBefore, CallsInHand
  <2> QED
    BY <2>1, <2>4, <2>5, <2>6, <2>7
<1> QED
  BY <1>1, <1>2

LEMMA KeyedByCallStep ==
  ASSUME TypeInv, LockInv, CallsInHand, KeyedByCall, NEW o \in Requests, Step(o)
  PROVE  KeyedByCall'
<1> SUFFICES ASSUME NEW r \in ReservationIds, RowExists(r)'
             PROVE  \E c \in Calls : /\ c.op = "reserve"
                                     /\ c.key = reservation'[r].key
                                     /\ c.pair = reservation'[r].pair
  BY DEF KeyedByCall
<1> USE DEF TypeInv, TypeOK
<1>1. CASE /\ RowExists(r)
           /\ reservation'[r].key = reservation[r].key
           /\ reservation'[r].pair = reservation[r].pair
  BY <1>1 DEF KeyedByCall
<1>2. ASSUME Inserted(o, r)
      PROVE  /\ tx[o].call \in Calls /\ tx[o].call.op = "reserve"
             /\ tx[o].call.key = reservation'[r].key
             /\ tx[o].call.pair = reservation'[r].pair
  BY <1>2 DEF Inserted, CallsInHand, CallAtPC, CallMatches
<1>3. ASSUME NEW s \in ReservationIds, Inserted(o, s), s # r
      PROVE  reservation'[r] = reservation[r]
  BY <1>3 DEF Inserted
<1>4. ASSUME NEW s \in ReservationIds, NEW status \in Terminal,
             Settled(o, s, status)
      PROVE  /\ RowExists(r)
             /\ reservation'[r].key = reservation[r].key
             /\ reservation'[r].pair = reservation[r].pair
  BY <1>4 DEF Settled, Reservation, RowExists, Live, Terminal
<1>5. ASSUME NEW R \in SUBSET ReservationIds, Removed(o, R)
      PROVE  reservation'[r] = reservation[r]
  BY <1>5 DEF Removed, Deleted, Reservation, RowExists, Live
<1> QED
  BY <1>1, <1>2, <1>3, <1>4, <1>5, ReservationStep DEF RowExists

(* The limit of that argument.  When every key is used for one pair only, all
   reserves with one key converge, as the comment in Reserve says; the run that violates SameKeyConverges uses a key on two pairs. *)
THEOREM KeysConvergeOnOnePair ==
  ASSUME OneKeyOnePair
  PROVE  Spec => []SameKeyConverges
<1> DEFINE Inv == CallsInHand /\ KeyedByCall
<1>1. Init => Inv
  BY DEF Init, Idle, FreeRow, CallsInHand, KeyedByCall, RowExists, Live
<1>2. TypeInv /\ LockInv /\ Inv /\ [Next]_vars => Inv'
  <2> SUFFICES ASSUME TypeInv, LockInv, Inv, [Next]_vars PROVE Inv'
    OBVIOUS
  <2>1. CASE Tick \/ UNCHANGED vars
    BY <2>1 DEF Tick, vars, CallsInHand, KeyedByCall, RowExists
  <2>2. ASSUME NEW o \in Requests, Step(o) PROVE Inv'
    BY <2>2, CallsInHandStep, KeyedByCallStep
  <2> QED
    BY <2>1, <2>2 DEF Next, Step
<1>3. TypeInv /\ Inv /\ SamePairKeyConverges => SameKeyConverges
  <2> SUFFICES ASSUME TypeInv, Inv, SamePairKeyConverges,
                      NEW q \in Requests, NEW r \in ReservationIds,
                      Inserting(q), HasKey(r, tx[q].call.key)
               PROVE  FALSE
    BY DEF SameKeyConverges
  <2>1. tx[q].call \in Calls /\ tx[q].call.op = "reserve" /\ tx[q].call.key # NoKey
    BY DEF Inserting, CallsInHand, TypeInv, CallAtPC, CallMatches
  <2>2. reservation[r].pair = tx[q].call.pair
    BY <2>1, OneKeyOnePair DEF HasKey, KeyedByCall, OneKeyOnePair
  <2> QED
    BY <2>2 DEF SamePairKeyConverges
<1> QED
  BY <1>1, <1>2, <1>3, LockInvariant, SamePairKeysConverge, PTL DEF Spec
=============================================================================

----------------------------- MODULE Inventory -----------------------------
(***************************************************************************)
(* The Inventory service: handlers of internal/service running             *)
(* concurrently over the row-locked Postgres transactions of               *)
(* internal/repository.                                                    *)
(*                                                                         *)
(* A request is one handler goroutine.  Each statement it sends to         *)
(* Postgres is one step, so the statements of different requests           *)
(* interleave.  Writes of an open transaction are invisible to the others  *)
(* (READ COMMITTED), so the last statement of a transaction, its writes    *)
(* and its COMMIT are one step.  SELECT ... FOR UPDATE waits while another *)
(* transaction holds the row; a row that does not exist is not locked.     *)
(*                                                                         *)
(* Operators whose name ends in _bug are seeded faults: none is used here. *)
(***************************************************************************)
EXTENDS Stock

CONSTANTS
  Warehouses,      \* warehouse ids; a warehouse is never deleted
  Items,           \* item ids (uuids) the service may hand out
  SKUs, Sku,       \* stock-keeping codes, and the one each item is given
  ReservationIds,  \* reservation ids (uuids) it may hand out
  Requests,        \* handler goroutines that may run at the same time
  Users,           \* token subjects
  Operators,       \* those of them whose role is operator or admin
  Keys, NoKey,     \* idempotency keys, and the absence of one
  NoRow,           \* the absence of a stock row
  NoCall,          \* the call of a request slot that is free
  MaxQuantity,     \* bound on the quantity of a reservation
  MaxClock,        \* bound on time
  Calls            \* what clients may ask for: a set of AllCalls

Pairs == Warehouses \X Items
Quantities == 1 .. MaxQuantity

(***************************************************************************)
(* The requests that pass input validation (uuids well formed, quantities  *)
(* and TTLs positive) and, from set_stock on, the check for the role of    *)
(* operator or admin.                                                      *)
(***************************************************************************)
AllCalls ==
       [op: {"reserve"}, by: Users, pair: Pairs, quantity: Quantities,
        ttl: Nat \ {0}, key: Keys \cup {NoKey}]
  \cup [op: {"commit", "release", "delete"}, by: Users, id: ReservationIds]
  \cup [op: {"set_stock"}, pair: Pairs, onHand: Nat]
  \cup [op: {"purge"}, before: Nat]
  \cup [op: {"create_item", "delete_item"}, item: Items]
  \cup [op: {"purge_items"}, prefix: SUBSET SKUs]

ASSUME BoundsAssumption == MaxQuantity \in Nat \ {0} /\ MaxClock \in Nat
ASSUME FiniteAssumption == IsFiniteSet(ReservationIds)
ASSUME MarkerAssumption == NoRow \notin Nat /\ NoCall \notin AllCalls
ASSUME CallsAssumption == \A c \in Calls : c \in AllCalls
ASSUME InhabitedAssumption ==
  Warehouses # {} /\ Items # {} /\ Users # {} /\ Operators \subseteq Users
ASSUME SkuAssumption == Sku \in [Items -> SKUs]

VARIABLES
  clock,        \* the services' wall clock
  items,        \* items table: item id -> whether it has a row
  stock,        \* stock table: pair -> quantity_on_hand, or NoRow
  reservation,  \* reservations table: id -> row
  tx,           \* request -> where its handler is and what it has read
  level,        \* history: quantity on hand last set by SetStock
  taken,        \* history: reservations committed since then
  late          \* history: those committed once they had expired

vars == <<clock, items, stock, reservation, tx, level, taken, late>>
history == <<level, taken, late>>
-----------------------------------------------------------------------------
(* Rows *)

Live == {"PENDING", "COMMITTED", "RELEASED"}
Terminal == {"COMMITTED", "RELEASED"}

(* A reservation row.  An id without a row is not handed out yet ("free") or
   had its row deleted: a uuid is not handed out twice. *)
Reservation ==
  [status: Live \cup {"free", "deleted"}, pair: Pairs, quantity: Quantities,
   key: Keys \cup {NoKey}, by: Users, expiresAt: Nat, createdAt: Nat]

FreeRow ==
  [status |-> "free", pair |-> CHOOSE p \in Pairs : TRUE, quantity |-> 1,
   key |-> NoKey, by |-> CHOOSE u \in Users : TRUE,
   expiresAt |-> 0, createdAt |-> 0]

RowExists(r) == reservation[r].status \in Live
HasKey(r, k) == RowExists(r) /\ reservation[r].key = k

(* SUM(quantity) over a set of reservations. *)
Quantity(R) == Cardinality(Units(reservation, R))

(* SELECT ... WHERE warehouse, item, status = PENDING and expires_at > now:
   lazy expiry, the same predicate as stock.Active. *)
Holding_bug(p, now) ==
  {r \in ReservationIds : /\ reservation[r].pair = p
                          /\ reservation[r].status = "PENDING"
                          /\ reservation[r].expiresAt > now + 1}
Holding(p, now) ==
  {r \in ReservationIds : /\ reservation[r].pair = p
                          /\ reservation[r].status = "PENDING"
                          /\ reservation[r].expiresAt > now}
sumActive(p, now) == Quantity(Holding(p, now))

(* DELETE ... WHERE status = PENDING and expires_at < now. *)
Purgeable_bug(r, now) == reservation[r].status = "PENDING"
Purgeable(r, now) ==
  reservation[r].status = "PENDING" /\ reservation[r].expiresAt < now
-----------------------------------------------------------------------------
(* Requests, transactions and locks *)

Codes ==
  {"none", "ok", "created", "NOT_FOUND", "FORBIDDEN", "INTERNAL", "SKU_TAKEN",
   "INSUFFICIENT_STOCK", "STOCK_BELOW_RESERVED", "STOCK_UNDERFLOW",
   "RESERVATION_EXPIRED", "RESERVATION_NOT_ACTIVE",
   "RESERVATION_ALREADY_COMMITTED"}

PCs ==
  {"idle", "lock_stock", "find_key", "sum", "insert", "write_stock",
   "lock_row", "write_commit", "write_release", "delete_row",
   "purge_terminal", "purge_expired", "delete_items"}

StockRow(p) == <<"stock", p>>
ReservationRow(r) == <<"reservation", r>>
Rows == {StockRow(p) : p \in Pairs}
          \cup {ReservationRow(r) : r \in ReservationIds}

(* now and onHand are the handler's local variables of these names. *)
Tx ==
  [pc: PCs, call: AllCalls \cup {NoCall}, now: Nat, onHand: Nat \cup {NoRow},
   locks: SUBSET Rows, reply: Codes]

Idle(code) ==
  [pc |-> "idle", call |-> NoCall, now |-> 0, onHand |-> NoRow,
   locks |-> {}, reply |-> code]

(* The handler returns; its transaction, if any, ends and drops its locks. *)
Answer(q, code) == tx' = [tx EXCEPT ![q] = Idle(code)]

Begin(q, c, pc, now) ==
  tx' = [tx EXCEPT ![q] = [pc |-> pc, call |-> c, now |-> now,
                           onHand |-> NoRow, locks |-> {}, reply |-> "none"]]

Goto(q, pc) == tx' = [tx EXCEPT ![q].pc = pc]

LockedByOther_bug(q, row) == FALSE
LockedByOther(q, row) == \E o \in Requests \ {q} : row \in tx[o].locks

PairOf(q) ==
  IF tx[q].call.op = "commit" THEN reservation[tx[q].call.id].pair
                              ELSE tx[q].call.pair

(* What the WHERE clauses of the deletes by q match. *)
TerminalBefore(q) ==
  {r \in ReservationIds : /\ reservation[r].status \in Terminal
                          /\ reservation[r].createdAt < tx[q].call.before}
Doomed(q) ==
  {i \in Items :
     /\ items[i] = "present"
     /\ \/ tx[q].call.op = "delete_item" /\ i = tx[q].call.item
        \/ tx[q].call.op = "purge_items" /\ Sku[i] \in tx[q].call.prefix}
Expired(q) == {r \in ReservationIds : Purgeable(r, tx[q].now)}

Wanted_bug(q) ==   \* the lookup of the key is FOR UPDATE as well
  CASE tx[q].pc = "lock_stock" -> {StockRow(PairOf(q))}
    [] tx[q].pc \in {"lock_row", "delete_row"} -> {ReservationRow(tx[q].call.id)}
    [] tx[q].pc = "purge_terminal" -> {ReservationRow(r) : r \in TerminalBefore(q)}
    [] tx[q].pc = "purge_expired" -> {ReservationRow(r) : r \in Expired(q)}
    [] tx[q].pc = "delete_items" ->
         {StockRow(p) : p \in {p \in Pairs : p[2] \in Doomed(q)}}
    [] tx[q].pc = "find_key" ->
         {ReservationRow(r) : r \in {r \in ReservationIds : HasKey(r, tx[q].call.key)}}
    [] OTHER -> {}
(* The rows that the next statement of q has to have to itself: SELECT ...
   FOR UPDATE and DELETE lock rows, other SELECTs do not, and the UPDATEs
   are of rows locked before. *)
Wanted(q) ==
  CASE tx[q].pc = "lock_stock" -> {StockRow(PairOf(q))}
    [] tx[q].pc \in {"lock_row", "delete_row"} -> {ReservationRow(tx[q].call.id)}
    [] tx[q].pc = "purge_terminal" -> {ReservationRow(r) : r \in TerminalBefore(q)}
    [] tx[q].pc = "purge_expired" -> {ReservationRow(r) : r \in Expired(q)}
    [] tx[q].pc = "delete_items" ->
         {StockRow(p) : p \in {p \in Pairs : p[2] \in Doomed(q)}}
    [] OTHER -> {}

Blocked(q) == \E row \in Wanted(q) : LockedByOther(q, row)
-----------------------------------------------------------------------------
Init ==
  /\ clock = 0
  /\ items \in [Items -> {"free", "present"}]
  /\ \A i, j \in Items : items[i] = "present" /\ items[j] = "present"
                          /\ Sku[i] = Sku[j] => i = j
  /\ stock = [p \in Pairs |-> NoRow]
  /\ reservation = [r \in ReservationIds |-> FreeRow]
  /\ tx = [q \in Requests |-> Idle("none")]
  /\ level = [p \in Pairs |-> 0]
  /\ taken = [p \in Pairs |-> {}]
  /\ late = {}

Tick ==
  /\ clock < MaxClock
  /\ clock' = clock + 1
  /\ UNCHANGED <<items, stock, reservation, tx, history>>
-----------------------------------------------------------------------------
(* First step of each handler *)

(* Bound: an id is left for one reservation more than those being made. *)
IdLeft ==
  Cardinality({r \in ReservationIds : reservation[r].status = "free"})
    > Cardinality({q \in Requests : tx[q].pc # "idle"
                                     /\ tx[q].call.op = "reserve"})

(* CreateReservation and SetStock look the item up, then take the time. *)
requireWarehouseAndItem(q, c) ==
  /\ tx[q].pc = "idle"
  /\ c.op \in {"reserve", "set_stock"}
  /\ c.op = "reserve" => IdLeft
  /\ IF items[c.pair[2]] = "present" THEN Begin(q, c, "lock_stock", clock)
                                     ELSE Answer(q, "NOT_FOUND")
  /\ UNCHANGED <<clock, items, stock, reservation, history>>

Authorized(u, r) == u \in Operators \/ reservation[r].by = u

DeletableStatus_bug == Live
DeletableStatus == Terminal

(* CommitReservation, ReleaseReservation and DeleteReservation read the row
   without a lock; the first takes the time once it has it. *)
loadAndAuthorize(q, c) ==
  /\ tx[q].pc = "idle"
  /\ c.op \in {"commit", "release", "delete"}
  /\ IF ~RowExists(c.id) THEN Answer(q, "NOT_FOUND")
     ELSE IF ~Authorized(c.by, c.id) THEN Answer(q, "FORBIDDEN")
     ELSE IF c.op = "commit" THEN Begin(q, c, "lock_row", clock)
     ELSE IF c.op = "release" THEN Begin(q, c, "lock_row", 0)
     ELSE IF reservation[c.id].status \in DeletableStatus
       THEN Begin(q, c, "delete_row", 0)
       ELSE Answer(q, "RESERVATION_NOT_ACTIVE")
  /\ UNCHANGED <<clock, items, stock, reservation, history>>
-----------------------------------------------------------------------------
(* repository.Reserve and repository.SetStock *)

(* SELECT ... FROM stock ... FOR UPDATE, in Reserve, SetStock and Commit. *)
LockStock(q) ==
  LET p == PairOf(q)
      next == CASE tx[q].call.op = "commit" -> "write_commit"
                [] tx[q].call.op = "reserve" -> "find_key"
                [] OTHER -> "sum"
  IN  /\ tx[q].pc = "lock_stock"
      /\ ~Blocked(q)
      /\ IF stock[p] # NoRow
           THEN tx' = [tx EXCEPT ![q].pc = next, ![q].onHand = stock[p],
                                 ![q].locks = @ \cup {StockRow(p)}]
           ELSE IF tx[q].call.op = "commit" THEN Answer(q, "STOCK_UNDERFLOW")
                                            ELSE Goto(q, next)
      /\ UNCHANGED <<clock, items, stock, reservation, history>>

FindKey_bug(q) ==   \* no lookup
  /\ tx[q].pc = "find_key"
  /\ Goto(q, "sum")
  /\ UNCHANGED <<clock, items, stock, reservation, history>>
(* The idempotency lookup that follows the lock. *)
FindKey(q) ==
  LET k == tx[q].call.key
  IN  /\ tx[q].pc = "find_key"
      /\ ~Blocked(q)
      /\ IF k # NoKey /\ \E r \in ReservationIds : HasKey(r, k)
           THEN Answer(q, "ok")
           ELSE Goto(q, "sum")
      /\ UNCHANGED <<clock, items, stock, reservation, history>>

OnHandRead(q) == IF tx[q].onHand = NoRow THEN 0 ELSE tx[q].onHand

(* sumActive at the handler's now, and the decision taken on it. *)
SumActive(q) ==
  LET c == tx[q].call
      reserved == sumActive(c.pair, tx[q].now)
  IN  /\ tx[q].pc = "sum"
      /\ \/ /\ c.op = "reserve"
            /\ IF OnHandRead(q) < reserved + c.quantity
                 THEN Answer(q, "INSUFFICIENT_STOCK")
                 ELSE Goto(q, "insert")
         \/ /\ c.op = "set_stock"
            /\ IF c.onHand < reserved
                 THEN Answer(q, "STOCK_BELOW_RESERVED")
                 ELSE Goto(q, "write_stock")
      /\ UNCHANGED <<clock, items, stock, reservation, history>>

(* INSERT INTO reservations and COMMIT.  The unique index refuses a key in
   use; the refused INSERT has aborted the transaction, so the lookup the
   code falls back on fails as well and the request ends in a 500. *)
InsertReservation(q) ==
  LET c == tx[q].call
  IN  /\ tx[q].pc = "insert"
      /\ \/ /\ c.key # NoKey
            /\ \E r \in ReservationIds : HasKey(r, c.key)
            /\ Answer(q, "INTERNAL")
            /\ UNCHANGED reservation
         \/ /\ c.key = NoKey \/ \A r \in ReservationIds : ~HasKey(r, c.key)
            /\ \E r \in ReservationIds :
                 /\ reservation[r].status = "free"
                 /\ reservation' = [reservation EXCEPT ![r] =
                      [status |-> "PENDING", pair |-> c.pair,
                       quantity |-> c.quantity, key |-> c.key, by |-> c.by,
                       expiresAt |-> tx[q].now + c.ttl, createdAt |-> clock]]
            /\ Answer(q, "created")
      /\ UNCHANGED <<clock, items, stock, history>>

(* The INSERT of a stock row fails when another request has created the row
   since (unique) or the item has been deleted (foreign key). *)
InsertRefused_bug(p) == stock[p] # NoRow
InsertRefused(p) == stock[p] # NoRow \/ items[p[2]] # "present"

(* UPDATE stock, or INSERT INTO stock, and COMMIT. *)
WriteStock(q) ==
  LET p == tx[q].call.pair
  IN  /\ tx[q].pc = "write_stock"
      /\ IF tx[q].onHand = NoRow /\ InsertRefused(p)
           THEN /\ Answer(q, "INTERNAL")
                /\ UNCHANGED <<stock, history>>
           ELSE /\ stock' = [stock EXCEPT ![p] = tx[q].call.onHand]
                /\ level' = [level EXCEPT ![p] = tx[q].call.onHand]
                /\ taken' = [taken EXCEPT ![p] = {}]
                /\ Answer(q, "ok")
                /\ UNCHANGED late
      /\ UNCHANGED <<clock, items, reservation>>
-----------------------------------------------------------------------------
(* repository.Commit and repository.Release *)

TooLate_bug(r, now) == reservation[r].expiresAt < now
TooLate(r, now) == reservation[r].expiresAt <= now

CommitCode_bug(r, now) ==
  CASE reservation[r].status = "RELEASED" -> "RESERVATION_NOT_ACTIVE"
    [] reservation[r].status # "RELEASED" /\ TooLate(r, now) -> "RESERVATION_EXPIRED"
    [] OTHER -> "none"
(* What Commit answers once it has the row, "none" when it goes on. *)
CommitCode(r, now) ==
  CASE reservation[r].status = "COMMITTED" -> "ok"
    [] reservation[r].status = "RELEASED" -> "RESERVATION_NOT_ACTIVE"
    [] reservation[r].status = "PENDING" /\ TooLate(r, now) -> "RESERVATION_EXPIRED"
    [] OTHER -> "none"

(* What Release answers once it has the row. *)
ReleaseCode(r) ==
  CASE reservation[r].status = "RELEASED" -> "ok"
    [] reservation[r].status = "COMMITTED" -> "RESERVATION_ALREADY_COMMITTED"
    [] OTHER -> "none"

(* SELECT ... FROM reservations ... FOR UPDATE and the switch on status. *)
LockReservation(q) ==
  LET c == tx[q].call
      code == IF c.op = "commit" THEN CommitCode(c.id, tx[q].now)
                                 ELSE ReleaseCode(c.id)
      next == IF c.op = "commit" THEN "lock_stock" ELSE "write_release"
  IN  /\ tx[q].pc = "lock_row"
      /\ ~Blocked(q)
      /\ IF ~RowExists(c.id) THEN Answer(q, "NOT_FOUND")
         ELSE IF code # "none" THEN Answer(q, code)
         ELSE tx' = [tx EXCEPT ![q].pc = next,
                               ![q].locks = @ \cup {ReservationRow(c.id)}]
      /\ UNCHANGED <<clock, items, stock, reservation, history>>

Underflow_bug(q, n) == FALSE
Underflow(q, n) == tx[q].onHand < n

(* UPDATE stock, UPDATE reservations and COMMIT. *)
WriteCommit(q) ==
  LET r == tx[q].call.id
      p == reservation[r].pair
      n == reservation[r].quantity
  IN  /\ tx[q].pc = "write_commit"
      /\ IF Underflow(q, n)
           THEN /\ Answer(q, "STOCK_UNDERFLOW")
                /\ UNCHANGED <<stock, reservation, history>>
           ELSE /\ stock' = [stock EXCEPT ![p] = tx[q].onHand - n]
                /\ reservation' =
                     [reservation EXCEPT ![r].status = "COMMITTED"]
                /\ taken' = [taken EXCEPT ![p] = @ \cup {r}]
                /\ late' = IF reservation[r].expiresAt <= clock
                             THEN late \cup {r} ELSE late
                /\ Answer(q, "ok")
                /\ UNCHANGED level
      /\ UNCHANGED <<clock, items>>

(* UPDATE reservations and COMMIT. *)
WriteRelease(q) ==
  /\ tx[q].pc = "write_release"
  /\ reservation' = [reservation EXCEPT ![tx[q].call.id].status = "RELEASED"]
  /\ Answer(q, "ok")
  /\ UNCHANGED <<clock, items, stock, history>>
-----------------------------------------------------------------------------
(* Deletes.  A DELETE waits for the rows it matches that others hold. *)

(* The bulk deletes and DeleteItem come to their first DELETE unread. *)
BeginDelete(q, c) ==
  /\ tx[q].pc = "idle"
  /\ \/ c.op = "purge" /\ Begin(q, c, "purge_terminal", 0)
     \/ c.op \in {"delete_item", "purge_items"} /\ Begin(q, c, "delete_items", 0)
  /\ UNCHANGED <<clock, items, stock, reservation, history>>

Deleted(R) ==
  [r \in ReservationIds |->
     IF r \in R THEN [reservation[r] EXCEPT !.status = "deleted"]
                ELSE reservation[r]]

(* repository.DeleteReservation: by id, whatever the status has become. *)
DeleteReservation(q) ==
  LET R == {r \in {tx[q].call.id} : RowExists(r)}
  IN  /\ tx[q].pc = "delete_row"
      /\ ~Blocked(q)
      /\ reservation' = Deleted(R)
      /\ Answer(q, "ok")
      /\ UNCHANGED <<clock, items, stock, history>>

(* PurgeReservations, first statement; the time is taken once it is done. *)
PurgeTerminalReservationsBefore(q) ==
  /\ tx[q].pc = "purge_terminal"
  /\ ~Blocked(q)
  /\ reservation' = Deleted(TerminalBefore(q))
  /\ Begin(q, tx[q].call, "purge_expired", clock)
  /\ UNCHANGED <<clock, items, stock, history>>

(* PurgeReservations, second statement, at the time taken before it. *)
PurgeExpiredPendingReservations(q) ==
  /\ tx[q].pc = "purge_expired"
  /\ ~Blocked(q)
  /\ reservation' = Deleted(Expired(q))
  /\ Answer(q, "ok")
  /\ UNCHANGED <<clock, items, stock, history>>
-----------------------------------------------------------------------------
(* Catalogue *)

CreateItem(q, c) ==
  LET taker == \E i \in Items : items[i] = "present" /\ Sku[i] = Sku[c.item]
  IN  /\ tx[q].pc = "idle"
      /\ c.op = "create_item"
      /\ items[c.item] = "free"
      /\ IF taker THEN /\ Answer(q, "SKU_TAKEN")
                       /\ UNCHANGED items
                  ELSE /\ Answer(q, "created")
                       /\ items' = [items EXCEPT ![c.item] = "present"]
      /\ UNCHANGED <<clock, stock, reservation, history>>

(* DeleteItem and PurgeItemsBySKUPrefix: one DELETE, whose cascade takes the
   stock rows along and waits for those that others hold. *)
DeleteItems(q) ==
  LET c == tx[q].call
      gone == Doomed(q)
  IN  /\ tx[q].pc = "delete_items"
      /\ ~Blocked(q)
      /\ items' = [i \in Items |-> IF i \in gone THEN "deleted" ELSE items[i]]
      /\ stock' = [p \in Pairs |-> IF p[2] \in gone THEN NoRow ELSE stock[p]]
      /\ Answer(q, IF c.op = "delete_item" /\ gone = {} THEN "NOT_FOUND"
                                                        ELSE "ok")
      /\ UNCHANGED <<clock, reservation, history>>
-----------------------------------------------------------------------------
(* The connection is lost, the client gives up or the replica dies: Postgres
   rolls the open transaction back and the handler answers a 500. *)
Fail(q) ==
  /\ tx[q].pc # "idle"
  /\ Answer(q, "INTERNAL")
  /\ UNCHANGED <<clock, items, stock, reservation, history>>

Arrive(q) ==
  \E c \in Calls :
    \/ requireWarehouseAndItem(q, c)
    \/ loadAndAuthorize(q, c)
    \/ BeginDelete(q, c)
    \/ CreateItem(q, c)

(* The steps that may have to wait for a row lock. *)
Acquire(q) ==
  \/ LockStock(q)
  \/ LockReservation(q)
  \/ DeleteReservation(q)
  \/ PurgeTerminalReservationsBefore(q)
  \/ PurgeExpiredPendingReservations(q)
  \/ DeleteItems(q)

Proceed(q) ==
  \/ FindKey(q)
  \/ SumActive(q)
  \/ InsertReservation(q)
  \/ WriteStock(q)
  \/ WriteCommit(q)
  \/ WriteRelease(q)

Next ==
  \/ Tick
  \/ \E q \in Requests : Arrive(q) \/ Acquire(q) \/ Proceed(q) \/ Fail(q)

Spec == Init /\ [][Next]_vars

(* Postgres hands a contended row lock out in order of arrival, so a request
   that could be granted its lock again and again is granted it; the steps
   that wait for nobody are taken because the handler goroutine runs. *)
Fairness ==
  \A q \in Requests : SF_vars(Acquire(q)) /\ WF_vars(Proceed(q))

FairSpec == Spec /\ Fairness
-----------------------------------------------------------------------------
(* Properties *)

(* Every variable has its type; in particular no on-hand quantity in the
   table is negative (CHECK quantity_on_hand >= 0). *)
TypeOK ==
  /\ clock \in 0 .. MaxClock
  /\ items \in [Items -> {"free", "present", "deleted"}]
  /\ stock \in [Pairs -> Nat \cup {NoRow}]
  /\ reservation \in [ReservationIds -> Reservation]
  /\ tx \in [Requests -> Tx]
  /\ level \in [Pairs -> Nat]
  /\ taken \in [Pairs -> SUBSET ReservationIds]
  /\ late \in SUBSET ReservationIds

(* Stock is charged exactly once per committed reservation: what is on hand
   is what SetStock last left there less the quantities of the reservations
   committed since (Commit, against retries, races and lost updates). *)
LedgerBalanced ==
  \A p \in Pairs : stock[p] # NoRow => stock[p] + Quantity(taken[p]) = level[p]

Held(p) == sumActive(p, clock)

(* What active reservations hold never exceeds what is on hand, but for the
   quantities of commits that took a reservation after its expiry: the stock
   math of Reserve, SetStock and Commit under concurrency. *)
OversellOnlyByLateCommits ==
  \A p \in Pairs :
    stock[p] # NoRow => Held(p) <= stock[p] + Quantity(taken[p] \cap late)

(* The same without the exception: what the package comment of repository.go
   promises of the stock math. *)
NoOversell ==
  \A p \in Pairs : stock[p] # NoRow => Held(p) <= stock[p]

(* A reservation that is PENDING and not expired keeps its row: neither the
   retention purge nor a delete removes a hold that counts. *)
ActiveHoldSurvives ==
  [][\A r \in ReservationIds :
        Active(reservation[r], clock) => reservation'[r].status # "deleted"]_vars

(* COMMITTED and RELEASED are final: a racing Commit, Release or retry never
   turns one outcome into the other, and a deleted row does not come back. *)
OutcomeIsFinal ==
  [][\A r \in ReservationIds :
        reservation[r].status \in Terminal \cup {"deleted"} =>
          reservation'[r].status \in {reservation[r].status, "deleted"}]_vars

Inserting(q) == tx[q].pc = "insert" /\ tx[q].call.key # NoKey

(* Reserves with the same key on the same pair converge: the one that is
   about to insert finds no row of its pair with its key (Reserve looks the
   key up again once it holds the stock row). *)
SamePairKeyConverges ==
  \A q \in Requests, r \in ReservationIds :
    Inserting(q) /\ HasKey(r, tx[q].call.key)
      => reservation[r].pair # tx[q].call.pair

(* Reserves with the same key converge, whatever they reserve: none of them
   reaches the unique index and ends in a 500 (comments of Reserve). *)
SameKeyConverges ==
  \A q \in Requests, r \in ReservationIds :
    Inserting(q) => ~HasKey(r, tx[q].call.key)

(* Row locking makes the interleaved transactions an atomic ledger: each of
   them takes effect at its COMMIT, decided on the state of that instant. *)
Ledger ==
  INSTANCE StockLedger WITH Pairs <- Pairs, ReservationIds <- ReservationIds,
    NoRow <- NoRow, clock <- clock, stock <- stock, reservation <- reservation
LedgerSpec == Ledger!Spec

Status == [r \in ReservationIds |-> reservation[r].status]
Overdue ==
  {r \in ReservationIds : reservation[r].status # "free"
                            /\ reservation[r].expiresAt <= clock}

Committing(q, r) ==
  tx[q].pc # "idle" /\ tx[q].call.op = "commit" /\ tx[q].call.id = r

(* A commit has come in time when its handler took the time before the expiry. *)
Vouched ==
  {r \in ReservationIds :
     \E q \in Requests : Committing(q, r) /\ tx[q].now < reservation[r].expiresAt}

(* Reservations live as Inventory's callers are told: settled once, deleted
   only when they hold nothing, committed only by a commit that came in before
   the expiry (Commit and Release against the purge, deletes and the clock). *)
Contract ==
  INSTANCE Reservations WITH ReservationIds <- ReservationIds,
    status <- Status, expired <- Overdue, vouched <- Vouched
KeepsContract == Contract!ContractSpec

(* Stock rows belong to items there are, whatever SetStock and the cascading
   deletes do at the same time. *)
StockHasItem ==
  \A p \in Pairs : stock[p] # NoRow => items[p[2]] = "present"

WaitsFor(q, o) == q # o /\ Wanted(q) \cap tx[o].locks # {}

(* Waiting ends: who waits for a row may find its holder waiting for another
   one, but then the holder of that does not wait.  So no cycle of handlers
   waits on itself, however many there are (the lock order of Commit,
   reservation before stock, against that of Reserve). *)
WaitsEnd ==
  \A q, o, p \in Requests :
    WaitsFor(q, o) /\ WaitsFor(o, p) => \A x \in Requests : ~WaitsFor(p, x)

(* Every request is answered: no deadlock, no lock waited for in vain. *)
EveryRequestAnswered ==
  \A q \in Requests : tx[q].pc # "idle" ~> tx[q].pc = "idle"
=============================================================================

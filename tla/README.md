# Verification of microservice-demo

TLA+ models of the three Go services of this repository, model-checked with
TLC, and theorems about them checked with TLAPS. Every definition of a module
that models code is translated from the source; `PROJECT.json` maps it to the
lines it stands for.

## The system

| Component | State | Operations | Interacts with |
|---|---|---|---|
| **Inventory: stock and reservations** (`src/inventory/internal/{service,repository,stock}`) | `stock` and `reservations` tables in Postgres, row locks of open transactions | Reserve, Commit, Release, SetStock, DeleteReservation, PurgeReservations, reads | called by Shipment and by clients directly; several replicas share the database |
| **Inventory: catalogue** | `items`, `warehouses` | CreateItem, DeleteItem, PurgeItems, CreateWarehouse, reads | deleting an item cascades to its stock rows |
| **Shipment: sagas** (`src/shipment/internal/{service,repository,client}`) | `shipments`, `shipment_status_history` | Create, Confirm, Cancel, DeleteShipment, PurgeShipments, reads | Inventory over HTTP, with a client timeout and no retry of its own |
| **Auth: accounts** (`src/auth/internal`) | `users` | Register, Login, EnsureAdmin, DeleteUser, PurgeUsers | issues the tokens the others verify |
| **Auth: signing key** (`ResolveSigner`) | `signing_keys` | load, or generate and persist, at start | replicas that start together |
| **Platform: token verification** (`platform/authn/jwks.go`) | key set, its fetch time, `Ready` | startup fetch, Keyfunc with lazy refresh, EnsureReady | Auth's JWKS endpoint |
| **Platform: migrations** (`platform/database/migrate.go`) | schema version, dirty flag | RunMigrations, EnsureMigrated | a migrate job and starting replicas |
| **Platform: the rest** (server, config, errors, observability) and **deployment** | none the system acts on | – | – |

### What is hard, and what makes each component correct

* **Inventory** runs handlers concurrently on row-locked transactions. Its
  clock is read *before* the locks are waited for, its idempotency lookup and
  its insert are two statements, its deletes act on statuses read without a
  lock. Correct means: stock is charged once per committed reservation; active
  reservations do not exceed stock; an outcome is final; a hold that counts
  keeps its row; requests with one key converge; stock rows have items; nobody
  waits for ever.
* **Shipment** spans two databases with a call that may be lost, delayed past
  its timeout, or executed without the caller's knowledge, and it writes back
  rows it read before the call. Correct means: CONFIRMED implies charged,
  CANCELLED implies not charged, nothing is charged that was never recorded,
  a PENDING shipment can be settled and is not deleted, the history tells the
  status.
* **Auth** starts several pods on one database: two that both generate a
  signing key, one that dies between storing the key and serving, an admin
  that is looked for and then created, a role read before a delete. Correct
  means: every pod signs with one key, whoever starts first and whoever dies;
  no pod serves on half a schema; an admin's account is never deleted; every
  pod comes to serve in the end.
* **Token verification** caches Auth's keys in each replica, with fetches that
  overlap and store in any order. Correct means: a key that Auth has withdrawn
  is not accepted once the cache should have noticed, and one that Auth has had
  as long is; a failed refresh rejects; a replica that missed Auth at its start
  becomes ready; the cache ends up with Auth's keys.
* **Migrations** run in a Job while pods start and serve, and the Job fails
  and is retried. Correct means: the record never claims more than is in the
  schema, and the retried Job completes (it does not: see the findings).

The full list, at its lines, is under `hazards` in `PROJECT.json`.

## Modules

| Module | What it is |
|---|---|
| `Stock` | package `stock`: when a reservation counts, and what is available. A sum of quantities is the number of units, so that it has a definition without recursion. |
| `StockLedger` | the abstract specification: what Inventory promises of stock as *atomic* operations |
| `Reservations` | the contract between Inventory and its callers: the life of a reservation, abstract enough that `Inventory` implements it and `Saga` extends it |
| `Inventory` | the handlers and transactions of Inventory, one step per SQL statement, and its properties |
| `MCInventory` + 6 cfg | instances for TLC |
| `InventoryProofs` | types, row locks and their consequences, no deadlock, proved |
| `InventoryStockProofs` | the stock arithmetic under concurrency, proved |
| `InventoryLedgerProofs` | `Inventory` implements `StockLedger` and `Reservations`, proved |
| `Saga` | EXTENDS `Reservations`: what a caller of Shipment may rely on, shipments and their reservations moving as one |
| `Shipment` | the sagas against Inventory's API and an unreliable network, and its properties |
| `MCShipment` + 3 cfg | instances for TLC |
| `ShipmentProofs` | the sagas' inductive invariant and all their safety properties, proved |
| `ShipmentSagaProofs` | `Shipment` implements `Saga`, proved |
| `Verifier` | the key cache of `platform/authn/jwks.go` in one replica, against Auth's key set |
| `MCVerifier` + 1 cfg | instance for TLC |
| `VerifierProofs` | fail-closed verification, proved |
| `Migrations` | migrate Jobs on one database, and the guard `EnsureMigrated` |
| `MigrationsProofs` | lemmas: what the version record says of the schema |
| `Auth` | EXTENDS `Migrations`: Auth's pods, their start, signing key and accounts |
| `MCAuth` + 2 cfg | instances for TLC |
| `AuthProofs` | its safety properties, proved |

Names that end in `_bug` are seeded faults: plausible mistakes in the code
beside which they stand, each of which breaks a property. No specification
uses them.

### Inventory

A request is a handler goroutine `q`; `tx[q]` has its program counter, its
call, and the local variables `now` and `onHand`, which live on across
statements and may be stale. Where each action comes from:

| Action | Code |
|---|---|
| `requireWarehouseAndItem`, `loadAndAuthorize` | the first, unlocked reads of the service methods and their early returns, then `now := time.Now()` where the method takes it |
| `LockStock`, `FindKey`, `SumActive`, `InsertReservation` | the statements of `repository.Reserve` |
| `LockStock`, `SumActive`, `WriteStock` | those of `repository.SetStock` |
| `LockReservation`, `LockStock`, `WriteCommit` | those of `repository.Commit` |
| `LockReservation`, `WriteRelease` | those of `repository.Release` |
| `DeleteReservation`, `PurgeTerminalReservationsBefore`, `PurgeExpiredPendingReservations` | the deletes |
| `CreateItem`, `DeleteItems` | the catalogue |
| `BeginDelete` | the handlers of the bulk deletes and of `DeleteItem`, which come to their `DELETE` without a read |
| `Fail` | lost connection, cancelled request, dead replica: rollback and a 500 |

What Postgres does is modelled from how the code uses it: `FOR UPDATE` waits
while another transaction holds the row and locks nothing when there is no
row; uncommitted writes are invisible, so the writes of a transaction and its
COMMIT are one step; a `DELETE` waits for the rows it matches that others
hold, at a program counter of its own, so that `WaitsEnd` and
`EveryRequestAnswered` speak of deletes as well; an error inside a transaction aborts all of it, so the lookup that
`Reserve` tries after the unique violation fails too.

Abstractions: one clock for all replicas; a `DELETE` of several rows waits for
all of them and is one step, where Postgres locks them one by one; validation, wording, listing and the reads that change nothing are left
out; warehouses exist. Ids are never handed out twice.

`level`, `taken` and `late` are history variables: they record what SetStock
last set, what has been committed since, and which of it was committed after
its expiry. No action reads them.

### StockLedger

Reserve, Commit, Release, SetStock, deletion: each decided and done in one
instant on the state of that instant. `Inventory!LedgerSpec` says that the
statement-by-statement transactions implement it (`Ledger == INSTANCE
StockLedger`, every variable mapped to itself; `items`, `tx` and the history
are hidden). `Commit` states the one exception the code makes: the expiry is
not part of what is decided at that instant.

### Reservations

The ledger is about stock; this is about one reservation as a client sees it,
and it is the seam between the two services. A reservation is made, settled
once, and deleted only when it holds nothing. Its expiry may pass at any time.
A commit is decided by its expiry when it comes in and takes effect later, and
`vouched` is what lies between: the reservations that a commit under way has
found in time. That is all that keeps a reservation committable once it has
expired, and the reason for two of the findings.

`Inventory!KeepsContract` maps `status` to the status column, `expired` to the
rows whose `expires_at` the clock has reached and `vouched` to those with a
commit handler whose `now` is before it. `Shipment` maps the same variables to
its own, coarser picture of Inventory, so that what the sagas assume of
Inventory is what Inventory is proved to keep.

### Shipment

A request runs create, confirm, cancel or delete. `net` has the calls that
Inventory has not executed. A call whose caller has timed out or died stays in
`net`, addressed to `Nobody`, and may be executed at any later time; identical
calls of that kind are the same element, which is sound because executing one
may be followed by refusing the other. `ReceiveCommit` records whether the
reservation was unexpired when Inventory took its time, as
`CommitReservation` does before it locks anything. `Respond` may turn any
answer into `DEPENDENCY_UNAVAILABLE`, as `do()` does for a broken one.
`Outside` lets Inventory's retention sweep run (`purge`) and lets the owner
settle a reservation through Inventory's own API (`direct`): a commit or
release that no handler waits for, of a reservation whose id the owner knows
from a recorded shipment.

`repository.Transition` uses GORM's `Save`, which writes the row as it was
read before the call to Inventory, and inserts it if it has been deleted: so
`Transition` overwrites whatever status is stored by then, and only the last
history row is claimed to tell the status.

Abstractions: Inventory's stock is not counted, it may always refuse for lack
of it; the age of a shipment in `PurgeShipments` is an arbitrary subset; the
caller authorised by Shipment is the one Inventory authorises, since the
header is forwarded. A reserve answered with a 2xx whose body cannot be read
at all leaves the code with an empty reservation id, which cannot be stored,
and the model with `DEPENDENCY_UNAVAILABLE`: in both the hold is nobody's.

### Saga

Sagas without handlers, calls, timeouts or crashes: a shipment is recorded in
one instant on a reservation made for it alone that nobody has settled; it is
confirmed when its stock is charged, cancelled when the reservation is freed
or has expired, and deleted when it is settled; throughout, the owner and the
reservation of its row stay. Meanwhile Inventory goes on as its contract says.
`Shipment!FollowsSaga` maps `row` to the table, `charged` to itself, `status`
and `expired` to Inventory as the sagas see it, and `vouched` to the commits
received in time and not executed yet. `CancelExpired` states the exception
the code makes, which is the finding `shipment_cancelled`: it may follow a
commit, or be followed by one. A shipment that ends may have ended otherwise,
or been deleted, before: that is `Save` on a row read earlier.

### Verifier

A request is a goroutine of one replica that verifies a token (`keyForKid`) or
answers a probe (`EnsureReady`; `Prime` at startup is the same fetch). Each
section under the read-write lock is a step, and so is the HTTP answer between
them:

| Action | Code |
|---|---|
| `keyForKid` | `Verify` up to and including the first locked section of `keyForKid`, and its decision to fetch |
| `EnsureReady` | the locked `Ready()` of a probe, and its decision to fetch |
| `Serve` | Auth answers; an answer without a usable key is an error |
| `Store` | the locked end of `fetch`: the keys and `fetchedAt` |
| `FetchFails` | error, bad status or timeout: the token is rejected, the probe answered 503 |
| `Lookup` | the second locked section of `keyForKid`, and the signature check |
| `Publish` | Auth (re)started with another key, under the same kid or another |
| `Tick` | time; a fetch never outlives the client's timeout |

Auth publishes the one key it signs with, so a key set is replaced whole. The
key is what tells tokens apart; what `jwt.Parse` checks besides is left out.
Durations are kept as ages that stop growing where no guard tells larger ones
apart, so the model has no bound on time. `gone` (since when Auth no longer
publishes a key), `revoked` and `settled` are history.

The timeout counts from the first step of a fetch, which is what makes
`TTL + Timeout` the limit in `RevokedNotAccepted` and `SettledAccepted`: a set may be `Timeout` old
when it is stamped fresh, and overlapping fetches may store an older set over
a newer one.

### Migrations and Auth

golang-migrate is external: `Migrations` takes from it one job at a time (an
advisory lock that dies with its session), a version that is recorded as dirty
before its statements run and as clean after them, and the refusal of a dirty
schema. `JobFails` is a failing statement or a dying pod, `Repair` what
`EnsureMigrated`'s message asks an operator for.

| Action of `Auth` | Code |
|---|---|
| `EnsureMigrated`, `ResolveSigner`, `Persist`, `EnsureAdmin`, `CreateAdmin` | `main`, in its order, one step per statement sent to the database |
| `EnsureAdminFails` | `main` logs the error and serves; also an empty `ADMIN_EMAIL` |
| `Crash` | `logger.Fatal`, a kill or a shutdown, at any point |
| `Persist` of a taken kid, or with its answer lost | `ErrDuplicatedKey` or another error: `logger.Fatal` |
| `Login`, `Register`, `CreateUser`, `PurgeUsers` | one statement each |
| `DeleteUser`, `DeleteByID` | the read and the delete of `DeleteUser` |

`minted` is history: the keys that have signed a token. `JWT_KEY_ID`,
`JWT_PRIVATE_KEY` and the database are the same for all pods, as in the
manifests. Passwords and names are left out; `Login` succeeds or changes
nothing. The cutoff of a purge is an arbitrary subset of the customers. A pod
runs one `DeleteUser` at a time; two pods run two.

## Runs

| Run | Properties | Instance |
|---|---|---|
| `inventory_stock` | `TypeOK`, `LedgerBalanced`, `OversellOnlyByLateCommits`, `LedgerSpec` | 2 handlers, 2 reservations of 1 or 2 units, one pair, clock to 2: 740 thousand states |
| `inventory_retention` | `ActiveHoldSurvives`, `OutcomeIsFinal`, `KeepsContract` | 2 handlers, 2 reservations, owner, stranger and operator, TTL 1 and 2, purge: 603 thousand |
| `inventory_catalogue` | `SamePairKeyConverges`, `StockHasItem` | 3 items with 2 SKUs, one key used on two pairs: 632 thousand |
| `inventory_live` | `WaitsEnd`, `EveryRequestAnswered` | 3 handlers on one stock row, its item and a keyed reservation: 83 thousand, no symmetry |
| `shipment_saga` | `TypeOK`, `ConfirmedWasCharged`, `UserCancelledNeverCharged`, `ChargedIsRecorded`, `HistoryTellsStatus`, `PendingNeverDeleted`, `FollowsSaga` | 2 handlers, one shipment, 2 reservations, everything that can go wrong: 1.01 million |
| `verifier` | `TypeOK`, `RevokedNotAccepted`, `SettledAccepted`, `ReadyEventually`, `CacheCatchesUp` | 2 goroutines, 3 keys of which 2 go by one kid, TTL and timeout of 1: 183 thousand |
| `auth_boot` | `TypeOK`, `TokensVerify`, `ServesMigrated`, `AdminStays`, `EveryPodServes` | 2 pods of two versions, a Job and its retry, 3 keys, 3 ids, 2 emails, with and without a configured key: 78 thousand |
| `inventory_oversell` | `NoOversell` is violated | as `inventory_stock` |
| `inventory_keys` | `SameKeyConverges` is violated | as `inventory_catalogue` |
| `shipment_cancelled` | `CancelledNeverCharged` is violated | as `shipment_saga`, nothing outside |
| `shipment_stuck` | `PendingHasReservation` is violated | with the retention sweep |
| `migrate_retry` | `RetryCompletes` is violated | as `auth_boot` |

Bounds. Two handlers are enough for every conflict between two transactions;
three for a lock that is handed on past a waiter. Two reservations are enough
for one to take what another gives back. With a TTL of 1 and a clock up to 2 a
reservation can be made, expire while a handler that has taken its time waits,
and be purged; `SetStock` levels of 0 and 2 against quantities of 1 and 2 reach
each refusal and its boundary. In `inventory_live` time stands still: the
expiry only shortens a request. Deletes of the item are among its calls;
deletes of reservations are not, as they would wait for nobody there: a row
that is settled is held by nobody, and none expires. `inventory_retention` has
them, and the theorem `WaitingEnds` covers all. Reservations of one shipment do not touch
another's, so one shipment is enough for the saga; the second reservation is
the one a failed attempt leaves behind. `IdLeft` and `IdsLeft` keep a request
from starting when no id is left for it; they are the only bounds besides
`MaxClock` and `MaxQuantity`. The TLC symmetry is in reservation ids,
shipment ids and requests, which no definition tells apart; the liveness run
uses none. Deadlock is checked in every run.

In `verifier` two fetches are enough to store in the wrong order, and a third
key for an unknown kid besides a key replaced under its own; with a TTL and a
timeout of 1 the ages 0, 1 and expired differ and every fetch can be early,
late or timed out. In `auth_boot` two pods are enough to race for the key and
for the admin; the pod of the first image needs one migration and that of the
second two, so that one may serve while the other must wait; three keys let
both pods generate one while another is configured or stored. When no fresh
key or id is left, the action that wants one waits. Neither run uses symmetry.

Fairness. `EveryRequestAnswered` assumes weak fairness of the steps that wait
for nobody (the goroutine runs) and strong fairness of the steps that wait for
a row lock: Postgres grants a contended row lock in order of arrival, so a
request cannot be overtaken for ever. Nothing is assumed of the arrival of
requests, of time or of failures. The property fails as soon as two
transactions lock rows in opposite orders.

`verifier` assumes that goroutines run and time passes (weak fairness of
`Tick`, `Lookup` and of the kubelet's probes while a replica is not ready),
that a fetch which is tried again and again is some time answered and stored
(strong fairness of `Serve` and `Store`: every single one may fail), and that
clients come to a replica that is ready, with tokens of the key Auth signs
with (strong fairness). They come to no replica that is not ready, so that
`ReadyEventually` rests on the probes. `CacheCatchesUp` is promised only where
Auth changes its key no more.

`auth_boot` assumes weak fairness of the start of each pod (the Deployment
starts it again, and `main` goes on) and of each Job (it is retried). What dies
by the code's own hand (`logger.Fatal` on a taken kid) is part of the
behaviour; deaths from outside (`Kills`) must end some time, and a dirty
migration must not stay, for `EveryPodServes` to promise anything.

## Findings

* **Oversell by a late commit** (`inventory_oversell`). `CommitReservation`
  takes its time before it waits for row locks. A reservation can expire in
  between and its units be reserved by someone else; the first commit still
  charges them, and the second holder's commit then ends in `STOCK_UNDERFLOW`.
  The arithmetic never goes below zero, and `OversellOnlyByLateCommits` is
  proved: no other interleaving oversells.
* **One key on two pairs** (`inventory_keys`). The stock row lock serialises
  same-key requests for one pair only. For two pairs the second INSERT hits
  the unique index, which aborts the transaction, so the fallback lookup fails
  and the client gets a 500. `KeysConvergeOnOnePair` proves that this is the
  only case: Shipment, which draws a key for each attempt, never meets it.
* **Charged and cancelled** (`shipment_cancelled`). Of two confirms around the
  expiry, one charges the stock and the other records CANCELLED.
* **Stuck PENDING** (`shipment_stuck`). The retention sweep deletes the expired
  reservation of a PENDING shipment, whose confirm and cancel then answer 502
  for ever, and which can be neither deleted nor purged.
* **Retries that cannot succeed** (`migrate_retry`). The comment of
  `0002_items_ondelete_cascade.up.sql` has the Job's retries overcome a
  `lock_timeout`. But the version is dirty by then, `m.Up` refuses a dirty
  schema, and all retries fail until the record is repaired by hand. The guard
  of the pods holds meanwhile (`ServesMigrated`, proved).

Two statements of `deploy/k8s/README.md` were looked into as well. That a
replica which cached the old key of a reset Auth recovers by the TTL (lines
86-89) is `CacheCatchesUp`, and holds; `SettledAccepted` says for how long
tokens may be rejected, the TTL and a fetch's timeout. That a replica whose one-shot `Prime`
failed would never get ready (lines 73-76) is no longer so since `EnsureReady`
fetches on each probe: `ReadyEventually`. A cold start of several Auth replicas
(lines 80-84) is safe, if at the price of a restart: `TokensVerify`,
`EveryPodServes`.

## Proofs

For all values of the constants that satisfy the named assumptions
(`BoundsAssumption`, `FiniteAssumption`, `MarkerAssumption`,
`CallsAssumption`, `InhabitedAssumption`, `SkuAssumption`; `OutsideAssumption`
and `MarkerAssumption` of `Shipment`; `KeysAssumption` and `TimesAssumption` of
`Verifier`; `TargetAssumption`, `PodsAssumption`, `NamesAssumption` and
`NoUserAssumption` of `Auth`):

| Module | Theorem | States |
|---|---|---|
| `InventoryProofs` | `TypeCorrect` | `Spec => []TypeOK` |
| | `LockInvariant` | `Spec => [](TypeInv /\ LockInv)` |
| | `OutcomesAreFinal` | `Spec => OutcomeIsFinal` |
| | `ActiveHoldsSurvive` | `Spec => ActiveHoldSurvives` |
| | `StockRowsHaveItems` | `Spec => []StockHasItem` |
| | `SamePairKeysConverge` | `Spec => []SamePairKeyConverges` |
| | `KeysConvergeOnOnePair` | `OneKeyOnePair` implies `Spec => []SameKeyConverges` |
| | `WaitingEnds` | `Spec => []WaitsEnd` |
| `InventoryStockProofs` | `StockIsBalanced` | `Spec => []LedgerBalanced` |
| | `NoOtherOversell` | `Spec => []OversellOnlyByLateCommits` |
| `InventoryLedgerProofs` | `InventoryImplementsLedger` | `Spec => LedgerSpec` |
| | `InventoryKeepsContract` | `Spec => KeepsContract` |
| `ShipmentProofs` | `InvAlways` | `Spec => []Inv`, the inductive invariant |
| | `TypeCorrect` | `Spec => []TypeOK` |
| | `ConfirmedWasChargedAlways` | `Spec => []ConfirmedWasCharged` |
| | `UserCancelledNeverChargedAlways` | `Spec => []UserCancelledNeverCharged` |
| | `ChargedIsRecordedAlways` | `Spec => []ChargedIsRecorded` |
| | `HistoryTellsStatusAlways` | `Spec => []HistoryTellsStatus` |
| | `PendingNeverDeletedAlways` | `Spec => PendingNeverDeleted` |
| `ShipmentSagaProofs` | `ShipmentImplementsSaga` | `Spec => FollowsSaga` |
| `VerifierProofs` | `TypeCorrect` | `Spec => []TypeOK` |
| | `RevokedNotAcceptedAlways` | `Spec => []RevokedNotAccepted` |
| | `SettledAcceptedAlways` | `Spec => []SettledAccepted` |
| `AuthProofs` | `TypeCorrect` | `Spec => []TypeOK` |
| | `TokensVerifyAlways` | `Spec => []TokensVerify` |
| | `ServesMigratedAlways` | `Spec => []ServesMigrated` |
| | `AdminStaysAlways` | `Spec => AdminStays` |

**Inventory.** `TypeOK` is not inductive: that a handler about to write has the
call and the on-hand quantity it needs is `CallAtPC`. `LockInv` adds what the
locks give: no two handlers hold one row (`Exclusive`); a handler past a lock
holds it, and the row is as it was read (`ReservationHeld`, `StockHeld`); a row
that `DeleteReservation` has found settled stays settled (`DeletingSettled`);
`now` is past (`TimeIsPast`). From it `ReservationStep` and `StockStep` say all
that any step can do to a row, and the action properties follow. For
`LedgerBalanced` a committed row is not counted twice because it was PENDING
under the lock. For `OversellOnlyByLateCommits`, `RoomInv` says that the room
found by `SumActive` is still there at the INSERT or UPDATE: while the stock
row is held nobody else can insert for the pair, and time only frees stock
(`HeldFades`); where there was no stock row to hold, either there is still none
or `WriteStock` is refused.

*No deadlock* is a safety property here, `WaitsEnd`: a handler that waits may
find the holder waiting in turn, and the holder of that does not. The invariant
is `LockedAt`: stock rows are held only past the last lock a transaction takes,
and a reservation row besides only by a commit that waits for its stock row.
`Wanted` then leaves no third wait, for any number of handlers; the run shows
in addition that each of them gets its answer. A `DELETE` of several rows is
one step of the model, so it says nothing of two sweeps that lock the same rows
in different orders.

`KeysConvergeOnOnePair` is `SamePairKeysConverge` with an assumption on the
clients instead of on the pair: `OneKeyOnePair`, no key is used for two pairs.
By `CallsInHand` and `KeyedByCall` a row that has a key has it from a call, and
so has the pair of every other call with that key.

The refinement of the ledger maps every step of a transaction to a stutter but
the one that writes and commits. There `LockInv` and `RoomInv` give what the ledger's
operation asks for: the row is as it was read, and what `SumActive` found
available is still available at that instant (`LedgerAvailable` says that the
ledger's sum and the transaction's are the same).

The refinement of the contract (`InventoryKeepsContract`) needs
`ContractInv`: `LockInv`, and `CommitInTime`, that a commit which holds its
reservation row came in before the expiry. So a commit that takes effect is of
a vouched reservation. A commit that comes in vouches if it is in time, one
that ends withdraws, and as an id's expiry never changes once the row is there,
nothing else touches `vouched` (`CallStep`, `MadeStays`). Deletes are steps of
the contract because of `DeletingSettled` and `TimeIsPast`.

**Shipment.** None of the properties is inductive, because what a handler will
write depends on calls that are still under way. `HandlerInv` says what a
handler knows of its reservation when it has an answer: a confirm that was
told "ok" has been charged, a cancel that was told "ok" has a reservation that
never will be. `MessageInv` says the same of a call on its way: a commit in
`net`, abandoned or not, is for a reservation some shipment has recorded, and
a call with a caller is the one that caller waits for (`Awaited`). `Alone`: an
id is given to one create, and a handler waits for one call. `StockInv`: what
is charged is committed, and stays so or is deleted. `RowInv` says of a stored
row what its status and its last history entry promise. That Inventory's steps
only ever move a reservation forward (`Forward`) keeps all of these. A
released reservation can never be charged, so late commits cannot undo what a
cancel was told; whereas an expired one may still be charged by a commit that
was received in time, which is the finding `shipment_cancelled`.

The refinement (`ShipmentImplementsSaga`) strengthens that to `SagaInv`. A hold
that create has just been given is known to its handler alone, so nothing but
expiry can have undone it when the shipment is stored (`HoldInv`): no call
names it and no shipment has it, however many handlers there are. The owner
that `Save` will write is the stored one (`OwnerRead`). And whoever is told
that a reservation has expired is told the truth, although a call may be
answered long after it was received (`LateInv`, `ExpiryRead`). Steps inside
Inventory map to steps of its contract; sending, losing and answering calls,
crashes and timeouts map to stutters. Where the run has one shipment, the
theorem has any number.

So both sides of the API are checked against one contract: `Inventory` is
proved to keep it, and every step that the sagas' picture of Inventory takes is
proved to be one of it. That this picture leaves out no step of the contract
that Inventory may take is by inspection: reserves, expiry, commits in time
or late, releases and the sweep each have their action, and each may be
refused. Deleting a settled reservation by an operator is the one that has no
action of its own; it is the sweep's `PurgeReservation` to the sagas.

**Verifier.** A cached key left Auth's set at most `age + Timeout` ago, and a
key that a fetch has received at most as long ago as that fetch has been
waiting (`Inv`, `RequestInv`). A request that came when its key was gone for
longer than `TTL + Timeout` therefore either finds the cache expired and
fetches, or does not find the key; and no set that is stored while it runs
contains it either. Where Auth has had one key for that long, a set that is
young enough to be trusted or stored can only be the set of that key
(`SettledSet`).

**Migrations and Auth.** `RecordTrue` and `JobInv` tie the recorded version
and dirty flag to what is applied; `Whole`, the highest version certainly
complete, never falls (`WholeGrows`), so a pod that passed the guard keeps its
schema through failures and repairs of later migrations. `KeyInv`: there is at
most one stored key, and all signers past `Persist` and all tokens have it, or
the configured one. `DeletingInv`: the account a `DeleteUser` has read was not
an admin's, roles never change, and ids are not reused.

What stays with TLC: liveness under fairness (`EveryRequestAnswered`,
`ReadyEventually`, `CacheCatchesUp`, `EveryPodServes`), since the provers
installed handle neither fairness nor ENABLED, and the violations. Every
invariant and every action property that a passing run checks is a theorem,
and so are the three refinements.
What a recursive definition computes for every input is out of the prover's
reach, which is why sums are cardinalities here.

## Not modelled

* HTTP decoding, validation and the mapping of errors to status codes; the
  error type (`platform/apperror`), configuration, database connection,
  logging, metrics, tracing: no state that the system's behaviour depends on.
* `httpserver.Run`: its graceful shutdown appears as requests that complete or
  fail, and as pods that die.
* Manifests, load tests and scripts: what they imply (several replicas, init
  containers, probes, Jobs that are retried, the hourly retention sweep) is in
  the models.
* Reads that change nothing: lists, `GetStockView` (whose two statements may
  give a view that never was; `Reserve` does not rely on it), `Me`.
* Clocks of replicas that differ. The models of Inventory and of the sagas have
  one clock.
* Several keys in Auth's set at once: the code publishes one.
* An Auth pod whose `JWT_KEY_ID` or `JWT_PRIVATE_KEY` differs from the others'.

## Plan

1. `Inventory`: bounded skew between the clocks of replicas, and what of
   `OversellOnlyByLateCommits` is left then.
2. `Inventory`: the torn read of `GetStockView`.
3. `Shipment`: that confirm or cancel, retried, settles a PENDING shipment
   whose reservation is not purged.
4. Composition of `Auth` and `Verifier`: a reset of Auth's database under
   running pods.

---------------------------- MODULE MCInventory ----------------------------
(* Instances of Inventory for TLC. *)
EXTENDS Inventory, TLC

CONSTANTS w1, i1, i2, i3, r1, r2, r3, q1, q2, q3, alice, bob, operator, k1, s1, s2

MCSku == [i \in Items |-> IF i = i2 THEN s2 ELSE s1]

p1 == <<w1, i1>>
p2 == <<w1, i2>>

ReserveOf(p, quantities, ttls, keys) ==
  [op: {"reserve"}, by: {alice}, pair: {p}, quantity: quantities, ttl: ttls,
   key: keys]
CallsOn(users, ops) == [op: ops, by: users, id: ReservationIds]
SetStockOf(p, levels) == [op: {"set_stock"}, pair: {p}, onHand: levels]

(* Reserve, commit, release and restock one pair. *)
StockCalls ==
  ReserveOf(p1, {1, 2}, {1}, {NoKey})
    \cup CallsOn({alice}, {"commit", "release"})
    \cup SetStockOf(p1, {0, 2})

(* Holds, deletes and the retention purge, by the owner and by others. *)
RetentionCalls ==
  ReserveOf(p1, {1}, {1, 2}, {NoKey})
    \cup CallsOn({alice}, {"commit", "release", "delete"})
    \cup CallsOn({bob}, {"release"})
    \cup CallsOn({operator}, {"delete"})
    \cup SetStockOf(p1, {1})
    \cup [op: {"purge"}, before: {2}]

(* Items with two SKUs created and deleted on the way, and one idempotency
   key used for both. *)
CatalogueCalls ==
  ReserveOf(p1, {1}, {1}, {k1, NoKey})
    \cup ReserveOf(p2, {1}, {1}, {k1})
    \cup CallsOn({alice}, {"commit"})
    \cup SetStockOf(p1, {1})
    \cup SetStockOf(p2, {1})
    \cup [op: {"create_item"}, item: {i1, i3}]
    \cup [op: {"delete_item"}, item: {i1}]
    \cup [op: {"purge_items"}, prefix: {{s1}}]

(* Three handlers on one item, its stock and keyed reservations. *)
LiveCalls ==
  ReserveOf(p1, {1}, {1}, {k1})
    \cup CallsOn({alice}, {"commit", "release"})
    \cup SetStockOf(p1, {1})
    \cup [op: {"delete_item"}, item: {i1}]

Symmetry == Permutations(ReservationIds) \cup Permutations(Requests)
=============================================================================

SPECIFICATION Spec
CONSTANTS
  w1 = w1  i1 = i1  i2 = i2  i3 = i3  r1 = r1  r2 = r2  r3 = r3
  q1 = q1  q2 = q2  q3 = q3  alice = alice  bob = bob  operator = operator
  k1 = k1  s1 = s1  s2 = s2
  Warehouses = {w1}
  Items = {i1, i2, i3}
  SKUs = {s1, s2}
  Sku <- MCSku
  ReservationIds = {r1, r2}
  Requests = {q1, q2}
  Users = {alice, bob, operator}
  Operators = {operator}
  Keys = {k1}
  NoKey = NoKey
  NoRow = NoRow
  NoCall = NoCall
  MaxQuantity = 1
  MaxClock = 1
  Calls <- CatalogueCalls
SYMMETRY Symmetry
INVARIANTS
  SamePairKeyConverges
  StockHasItem

SPECIFICATION Spec
CONSTANTS
  q1 = q1  q2 = q2  s1 = s1  s2 = s2  r1 = r1  r2 = r2
  alice = alice  bob = bob  operator = operator
  Nobody = Nobody  NoId = NoId
  Requests = {q1, q2}
  ShipmentIds = {s1}
  ReservationIds = {r1, r2}
  Users = {alice, operator}
  Operators = {operator}
  Outside = {"purge", "direct"}
SYMMETRY Symmetry
INVARIANTS
  TypeOK
  ConfirmedWasCharged
  UserCancelledNeverCharged
  ChargedIsRecorded
  HistoryTellsStatus
PROPERTIES
  PendingNeverDeleted
  FollowsSaga

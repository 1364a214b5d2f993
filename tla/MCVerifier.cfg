SPECIFICATION FairSpec
CONSTANTS
  q1 = q1  q2 = q2  kid1 = kid1  kid2 = kid2
  key1 = key1  key2 = key2  key3 = key3
  Requests = {q1, q2}
  Keys = {key1, key2, key3}
  Kid <- MCKid
  TTL = 1
  Timeout = 1
INVARIANTS
  TypeOK
  RevokedNotAccepted
  SettledAccepted
PROPERTIES
  ReadyEventually
  CacheCatchesUp

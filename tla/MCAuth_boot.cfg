SPECIFICATION FairSpec
CONSTANTS
  p1 = p1  p2 = p2  j1 = j1  j2 = j2  e1 = e1  e2 = e2
  k1 = k1  k2 = k2  k3 = k3  i1 = i1  i2 = i2  i3 = i3
  Jobs = {j1, j2}
  Target = 2
  Pods = {p1, p2}
  Latest <- MCLatest
  Keys = {k1, k2, k3}
  Ids = {i1, i2, i3}
  Emails = {e1, e2}
  AdminEmail = e1
  NoKey = NoKey  NoId = NoId  NoUser = NoUser
INVARIANTS
  TypeOK
  TokensVerify
  ServesMigrated
PROPERTIES
  AdminStays
  EveryPodServes

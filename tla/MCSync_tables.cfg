SPECIFICATION Spec
CONSTANTS
  u1 = u1  a1 = a1  a2 = a2  d1 = d1  d2 = d2
  p1 = p1  p2 = p2  p4 = p4  p5 = p5
  User = {u1}
  App = {a1, a2}
  Device = {d1, d2}
  Token = {k1, k2}
  Payload = {p1, p2}
  NoPayload = none
  Req = {r1, r2}
  NoReq = none
  NoToken = none
  Owner <- TwoApps
  Bytes <- SmallAndLarge
  Chars <- SmallAndLarge
  BodySize <- BodyAsLong
  Malformed = {}
  PrefixOf <- OwnPrefix
  MaxPayloadBytes = 2
  BodySlack = 0
  UserStorageLimit = 2
  UserAppTokenLimit = 1
  HistoryPerApp = 2
  Time = {1}
  Events = {"appdelete"}
  MaxPuts = 2
  MaxDeletes = 1
INVARIANTS TypeOK CascadeIntegrity TokensBounded LiveTokensHaveRows StorageWithinLimit HistoryIsNewest
PROPERTY Isolation
SYMMETRY SymmetryTables

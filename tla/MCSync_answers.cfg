SPECIFICATION FairSpec
CONSTANTS
  u1 = u1  a1 = a1  a2 = a2  d1 = d1  d2 = d2
  p1 = p1  p2 = p2  p4 = p4  p5 = p5
  User = {u1}
  App = {a1}
  Device = {d1}
  Token = {k1}
  Payload = {p1, p2, p4, p5}
  NoPayload = none
  Req = {r1, r2}
  NoReq = none
  NoToken = none
  Owner <- SamePair
  Bytes <- OneOfEach
  Chars <- OneOfEach
  BodySize <- BodyAsLong
  Malformed = {p2}
  PrefixOf <- OwnPrefix
  MaxPayloadBytes = 2
  BodySlack = 1
  UserStorageLimit = 1
  UserAppTokenLimit = 1
  HistoryPerApp = 1
  Time = {1, 2}
  Events = {"appdelete", "dberror", "crash"}
  MaxPuts = 2
  MaxDeletes = 1
INVARIANT HistoryIsNewest
PROPERTIES EveryRequestAnswered ImplementsRegister

SPECIFICATION Spec
CONSTANTS
  u1 = u1  a1 = a1  a2 = a2  d1 = d1  d2 = d2
  p1 = p1  p2 = p2  p4 = p4  p5 = p5
  User = {u1}
  App = {a1}
  Device = {d1, d2}
  Token = {k1, k2}
  Payload = {p1, p2}
  NoPayload = none
  Req = {r1, r2}
  NoReq = none
  NoToken = none
  Owner <- SamePair
  Bytes <- OneByteEach
  Chars <- OneByteEach
  BodySize <- BodyAsLong
  Malformed = {}
  PrefixOf <- OwnPrefix
  MaxPayloadBytes = 2
  BodySlack = 0
  UserStorageLimit = 10
  UserAppTokenLimit = 1
  HistoryPerApp = 1
  Time = {1}
  Events = {}
  MaxPuts = 3
  MaxDeletes = 1
INVARIANTS RevokedTokenRefused SnapshotAgreement OneWinner
PROPERTIES NoLostUpdate DeviceNeverGoesBack
SYMMETRY Symmetry

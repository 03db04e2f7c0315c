SPECIFICATION FairSpec
CONSTANTS
  p1 = p1
  User = {u1}
  App = {a1, a2}
  Token = {h1, h2, h3}
  Payload = {p1}
  NoPayload = none
  Bytes <- OneByte
  Chars <- OneByte
  PrefixOf <- OwnPrefix
  UserStorageLimit = 1
  UserAppTokenLimit = 1
  HistoryPerApp = 1
  Time = {1}
  Handler = {h1, h2, h3}
  NoHandler = none
  PoolSizes = {1, 2}
  MaxVersion = 1
INVARIANT TypeOK
PROPERTIES CommitsAreAtomic OkMeansCommitted EveryHandlerReturns

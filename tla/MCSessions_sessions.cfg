SPECIFICATION Spec
CONSTANTS
  Email = {root, ann}
  Password = {good, short, long}
  Weak = {short}
  TooLong = {long}
  Session = {s1, s2}
  NoSession = none
  Req = {r1, r2}
  BootEmail = root
  BootPassword = short
  AccessTTL = 1
  RefreshTTL = 0
  Time = {0, 1}
INVARIANTS TypeOK StaleSessionRefused AdminsNeedRoot PromotionPropagates
PROPERTY CredentialsKept
SYMMETRY Symmetry

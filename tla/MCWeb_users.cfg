SPECIFICATION WebSpec
CONSTANTS
  Email = {ann, bob}
  Password = {good}
  Weak = {}
  TooLong = {}
  Session = {s1, s2, s3}
  NoSession = none
  Req = {r1, r2}
  BootEmail = ann
  BootPassword = good
  AccessTTL = 0
  RefreshTTL = 1
  Time = {0}
  Tab = {t1, t2}
  Call = {c1}
  NoTab = none
  MaxLogins = 2
INVARIANTS PairsMatch
CONSTRAINT NotTorn
SYMMETRY Symmetry

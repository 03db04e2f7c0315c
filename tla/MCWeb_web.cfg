SPECIFICATION WebSpec
CONSTANTS
  Email = {ann}
  Password = {good}
  Weak = {}
  TooLong = {}
  Session = {s1, s2, s3}
  NoSession = none
  Req = {r1, r2}
  BootEmail = ann
  BootPassword = good
  AccessTTL = 1
  RefreshTTL = 1
  Time = {0, 1}
  Tab = {t1, t2}
  Call = {c1, c2}
  NoTab = none
  MaxLogins = 1
INVARIANTS WebTypeOK StorageHoldsNewest NeverPresentsSpent
VIEW WithoutTorn
SYMMETRY Symmetry

SPECIFICATION WebSpec
CONSTANTS
  Email = {ann}
  Password = {good}
  Weak = {}
  TooLong = {}
  Session = {s1, s2}
  NoSession = none
  Req = {r1, r2}
  BootEmail = ann
  BootPassword = good
  AccessTTL = 1
  RefreshTTL = 1
  Time = {0, 1}
  Tab = {t1}
  Call = {c1}
  NoTab = none
  MaxLogins = 1
PROPERTY LogoutCloses

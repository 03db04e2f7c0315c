SPECIFICATION Spec
CONSTANTS
  Email = {root}
  Password = {good}
  Weak = {}
  TooLong = {}
  Session = {s1, s2, s3}
  NoSession = none
  Req = {r1, r2}
  BootEmail = root
  BootPassword = good
  AccessTTL = 1
  RefreshTTL = 0
  Time = {0, 1}
INVARIANT OneSuccessor
SYMMETRY Symmetry

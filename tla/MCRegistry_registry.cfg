SPECIFICATION Spec
CONSTANTS
  App = {a1, a2, a3}
  Text = {empty, text}
  Empty = empty
  TooLong = {}
  Omitted = omitted
  NewText = {text}
  MaxRowid = 4
  Req = {r1}
  NoReq = none
  Limits = {2, 3}
  MaxLimit = 2
  DefaultLimit = 1
  Time = {0, 1}
  MaxDeletes = 1
INVARIANTS TypeOK WalkMissesFew AcknowledgedPatchShows
SYMMETRY Symmetry

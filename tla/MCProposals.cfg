SPECIFICATION Spec
CONSTANTS
  Proposals = {p1}
  Actors = {u1, m1}
  Moderators = {m1}
  Requests = {r1, r2}
  Nobody = Nobody
  Ahead = 1
  MaxVersion = 5
SYMMETRY MCSymmetry
CHECK_DEADLOCK FALSE
INVARIANTS
  VersionIsSequence
  LogTellsStatus
PROPERTIES
  CheckedIsApplied

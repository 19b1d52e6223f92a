SPECIFICATION Spec
CONSTANTS
  Proposals = {p1}
  Subjects = {s1, s2}
  Keys <- MCKeys
  KeyIds <- MCKeyIds
  KeyId <- MCKeyId
  Keyrings <- MCRollingKeyrings
  Servers = {v1, v2}
  Deployments <- MCRolling
  Legacy = "old"
  Calls = {c1, c2}
  None = None
  MaxAttempts = 3
  MaxVersion = 5
SYMMETRY MCSymmetry
INVARIANTS
  OneSupportPerSubject
CHECK_DEADLOCK FALSE

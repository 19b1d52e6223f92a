SPECIFICATION Spec
CONSTANTS
  Proposals = {p1}
  Subjects = {s1, s2}
  Keys <- MCKeys
  KeyIds <- MCKeyIds
  KeyId <- MCKeyId
  Keyrings <- MCKeyrings
  Servers = {v1}
  Deployments <- MCTogether
  Legacy = "old"
  Calls = {c1, c2}
  None = None
  MaxAttempts = 3
  MaxVersion = 5
SYMMETRY MCSymmetry
INVARIANTS
  OneSupportPerSubject
  CountIsActive
  RegistryCounts
PROPERTIES
  EventTellsCount
  SupportersSpec
CHECK_DEADLOCK FALSE

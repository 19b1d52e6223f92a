SPECIFICATION FairSpec
CONSTANTS
  BlockFields <- MCBlockFields
  TxFields <- MCTxFields
  Sources = {s1, s2}
  Numbers = {1, 2}
  Ranges <- MCRanges
  Runs = {r1, r2}
  Calls = {c1, c2}
  Answer <- MCAnswer
  None = None
  s1 = s1
  s2 = s2
  h = h
INVARIANTS
  CountersAgree
  CompletedCovers
  VerdictIsAgreement
PROPERTIES
  RunsEnd

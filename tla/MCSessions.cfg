SPECIFICATION Spec
CONSTANTS
  Identities = {i}
  Sessions = {1, 2, 3}
  Calls = {c1, c2}
  Keys = {k}
  Contents = {x}
  Asked <- MCAsked
  None = None
  Kept = 1
  Life = 2
  Recent = 1
  Skew = 0
  Ages <- MCAges
  MaxAge = 1
SYMMETRY MCSymmetry
INVARIANTS
  TypeOK
  SessionsLimited
  MutationsOnce
PROPERTIES
  AuthorityIsLive

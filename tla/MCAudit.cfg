SPECIFICATION FairSpec
CONSTANTS
  None = None
  a1 = a1  a2 = a2  p1 = p1  p2 = p2
  actor = actor  global = global  subject = subject  everyone = everyone
  addr = addr  coinA = coinA  coinB = coinB
  Calls = {a1, a2, p1, p2}
  Strict = {a1, a2}
  Keys = {actor, global, subject, everyone}
  KeysOf <- MCKeysOf
  Limit <- MCLimit
  Window = 2
  Retention = 3
  Stall = 1
  MaxTime = 4
  Facts <- MCFacts
  Registries <- MCRegistries
  TargetOf <- MCTargetOf
  MaxTokens = 1
CHECK_DEADLOCK FALSE
CONSTRAINT Focus
INVARIANTS LimitsHold EvidenceIsLastAnswer
PROPERTIES LedgerSpec AuditsEnd

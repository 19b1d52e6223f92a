SPECIFICATION OutboxSpec
CONSTANTS
  Messages <- MCMessages
  Workers = {w1, w2}
  NoWorker = NoWorker
  BatchSize = 1
  LeaseTicks = 1
  RetryTicks = 1
INVARIANTS
  OutboxTypeOK
  LiveClaimOwnsRow
PROPERTIES
  PublishedIsFinal
  ClaimsEnd
  LeasedWorkSpec

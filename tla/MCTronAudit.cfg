SPECIFICATION FairSpec
CONSTANTS
  None = None
  Clients = {"trongrid", "tronscan"}
  Capacity <- MCCapacity
  Parts <- MCParts
  Callers <- MCCallers
  MaxRetries = 1
  RetryBase = 1
  MaxFaults = 2
  MaxBalances = 6
  Answers <- MCAnswers
  MaxStakers = 2
  MaxAnalyses = 1
  Platforms = 1
  ChunkSize = 9
CONSTRAINT Focus
CHECK_DEADLOCK FALSE
INVARIANTS RetriesJustified RateIsPerCaller RoundsInTurn StoresAgree GiniIsMeanDifference
PROPERTIES ScriptEnds

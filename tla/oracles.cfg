SPECIFICATION OraclesSpec
CONSTANTS
  Keys <- SomeKeys
  Plans <- SomePlans
  HistoryLimit = 64
  CandidateLimit = 16
  ExploreLimit = 3
  TornTransactions = TRUE
  MaxReads = 1
  MaxKills = 2
  Txns = {t1, t2}
  MaxSteps = 3
  MaxConditions = 1
  MaxDirect = 1
SYMMETRY Symmetry
INVARIANTS MetAtCommit
PROPERTIES NoFalseAlarm TornDetected
CHECK_DEADLOCK FALSE

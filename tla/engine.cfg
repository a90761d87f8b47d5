SPECIFICATION Spec
CONSTANTS
  Keys <- EngineKeys
  KeyLen <- EngineLen
  Values <- MCValues
  ValueLen <- MCValueLen
  Workloads <- EngineWorkloads
INVARIANTS TreeSound ReadsAgree LegalWritesAccepted
PROPERTY Serializable
CHECK_DEADLOCK FALSE

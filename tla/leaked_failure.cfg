SPECIFICATION Spec
CONSTANTS
  Keys <- FatKeys
  KeyLen <- FatLen
  Values <- MCValues
  ValueLen <- MCValueLen
  Workloads <- FatWorkloads
INVARIANT RefusedNotApplied
CHECK_DEADLOCK FALSE

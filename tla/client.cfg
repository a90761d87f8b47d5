SPECIFICATION FairSpec
CONSTANTS
  Calls = {q1, q2}
  Kinds = {"read", "mutation"}
  EarlierFailures = {0, 5, 40}
INVARIANTS OneDial WaiterHasDialer OutcomesTrue ClosedForGood
PROPERTIES NewerConnectionKept EveryCallReturns
CHECK_DEADLOCK FALSE

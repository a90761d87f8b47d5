SPECIFICATION ProtocolSpec
CONSTANTS
  Requests <- AllRequests
  States <- FoundStates
  Documents <- StoredDocuments
  Actuals <- FoundActuals
  Details <- ShortTexts
  ClientLimits <- ClientSides
  ServerLimits <- ServerSides
  Versions = {1, 2}
  KeyBytes <- SomeBytes
  MaxComponent = 2
  MaxInput = 8
INVARIANTS ServedAsAsked DefiniteIsTrue ToldAsServed BudgetSuffices
INVARIANTS OrderPreserved Canonical
CHECK_DEADLOCK FALSE

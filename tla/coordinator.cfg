SPECIFICATION MixSpec
CONSTANTS
  Operations <- AllOperations
  Closers = {c1}
  queue_capacity = 2
  max_group_requests = 3
  max_group_bytes = 200
  CollectionDelay = TRUE
  MaxSent = 3
  MaxFaults = 1
INVARIANTS ViewIsCommitted AppliedInOrder RefusedNotApplied
PROPERTY EveryCallReturns
CHECK_DEADLOCK FALSE

SPECIFICATION Spec
CONSTANTS PageCount = 3  cache_capacity = 2  ClockSize = 3  MaxChanges = 2  MaxGroup = 2
INVARIANTS CopiesCurrent ViewComplete
CHECK_DEADLOCK FALSE

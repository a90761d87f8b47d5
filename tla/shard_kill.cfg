SPECIFICATION Spec
CONSTANTS
  MaxPage = 3
  MaxTx = 2
  MaxGroup = 2
  MaxCkpt = 1
  MaxCrash = 2
  MaxFault = 1
  CrashKinds = {"process"}
INVARIANTS CommittedState Reopenable

SPECIFICATION Spec
CONSTANTS
  MaxPage = 3
  MaxTx = 2
  MaxGroup = 2
  MaxCkpt = 2
  MaxCrash = 2
  MaxFault = 1
  CrashKinds = {"power"}
INVARIANTS TypeOK CommittedState Reopenable WriteAhead FreshLsn CheckpointSound
PROPERTIES Implements

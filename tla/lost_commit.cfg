SPECIFICATION Spec
CONSTANTS
  MaxPage = 2
  MaxTx = 2
  MaxGroup = 1
  MaxCkpt = 0
  MaxCrash = 3
  MaxFault = 0
  CrashKinds = {"process", "power"}
INVARIANTS AckedSurvive

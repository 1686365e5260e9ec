SPECIFICATION Spec
CONSTANTS
  Job = {j1}
  PK = {k1}
  Pos = {1, 2}
  Part = {1}
  HasBinlogPos = FALSE
  Managers = 1
  MaxRetries = 2
  TornWrites = FALSE
  MaxDiskErrors = 0
  MaxItems = 2
  MaxCrashes = 1
INVARIANT RefusedOnlyIfQueued
CHECK_DEADLOCK FALSE

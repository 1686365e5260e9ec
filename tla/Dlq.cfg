SPECIFICATION FairSpec
CONSTANTS
  Job = {j1}
  PK = {k1}
  Pos = {1, 2}
  Part = {1}
  HasBinlogPos = TRUE
  Managers = 1
  MaxRetries = 2
  TornWrites = FALSE
  MaxDiskErrors = 1
  MaxItems = 2
  MaxCrashes = 1
INVARIANTS FileTracksMemory RetryBudget AcceptedSurvive UnresolvedUnique
PROPERTIES ImplementsLetterBox SettledIsFinal PendingSettles
CHECK_DEADLOCK FALSE

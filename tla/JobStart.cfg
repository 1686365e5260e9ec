SPECIFICATION Spec
CONSTANTS
  Confs <- AllConfs
  TableSeq <- TwoTables
  MaxChanges = 2
  MaxCrashes = 2
INVARIANTS StaleOnlyIfMissed PostgresLosesOnlyInFlight UncopiedIsExplained
PROPERTY ReachesStream
CHECK_DEADLOCK FALSE

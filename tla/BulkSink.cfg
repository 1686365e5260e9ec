SPECIFICATION Spec
CONSTANTS
  Events <- FourEvents
  IndexName <- Lower
  Workers = {1, 2}
  HasBinlogPos = TRUE
  MaxRetries = 3
  MaxBatch = 2
  MaxIndexers = 3
  MaxFaults = 1
INVARIANTS AcceptedIsWritten RetriesFailOnlyIfKnown
PROPERTIES GoesBackOnlyIfKnown QueuedSettle
CHECK_DEADLOCK FALSE

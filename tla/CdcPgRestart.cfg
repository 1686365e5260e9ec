SPECIFICATION FairSpec
CONSTANTS
  Source = "postgresql"
  PK = {"a", "b"}
  PkOf <- Alternating
  KeyOf <- Alternating
  Filtered = {}
  BatchSize = 2
  QueueCap = 2
  HasDLQ = FALSE
  SinkFaults = TRUE
  TransformFaults = FALSE
  MaxEvents = 2
  MaxFailures = 2
  MaxCrashes = 1
PROPERTIES StreamRestarts
CHECK_DEADLOCK FALSE

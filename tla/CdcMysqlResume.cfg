SPECIFICATION Spec
CONSTANTS
  Source = "mysql"
  PK = {"a", "b"}
  PkOf <- Alternating
  KeyOf <- Distinct
  Filtered = {}
  BatchSize = 2
  QueueCap = 2
  HasDLQ = TRUE
  SinkFaults = FALSE
  TransformFaults = FALSE
  MaxEvents = 3
  MaxFailures = 0
  MaxCrashes = 1
INVARIANTS NothingLost
CHECK_DEADLOCK FALSE

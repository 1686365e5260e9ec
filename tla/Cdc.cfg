SPECIFICATION FairSpec
CONSTANTS
  Source = "mysql"
  PK = {"a", "b"}
  PkOf <- Meeting
  KeyOf <- Distinct
  Filtered = {2}
  BatchSize = 2
  QueueCap = 2
  HasDLQ = TRUE
  SinkFaults = TRUE
  TransformFaults = FALSE
  MaxEvents = 4
  MaxFailures = 1
  MaxCrashes = 1
INVARIANTS PipelineInOrder DocumentsCurrent LostOnlyByCrash SavedCovers
PROPERTIES ImplementsAtLeastOnce EventuallyHandled
CHECK_DEADLOCK FALSE

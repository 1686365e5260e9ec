SPECIFICATION Spec
CONSTANTS
  Ids <- SomeIds
  Initial <- SomeInitial
  Filters <- SomeFilters
  Clients = {"job", "rpc"}
  ChunkSize = 1
  SnapshotChunkSize = 2
  MaxChanges = 2
  MaxFaults = 1
INVARIANTS CopiedUnlessKnown StreamConverges
CHECK_DEADLOCK FALSE

SPECIFICATION FairSpec
CONSTANTS
  Tables <- ThreeTables
  MinID <- Lowest
  MaxID <- Highest
  AutoIncrement = {"orders"}
  NoPrimaryKey = {"keyless"}
  EstimatedRows <- Few
  Worker = {w1, w2}
  ChunkSize = 2
  MaxConcurrentChunks = 2
  MaxRetries = 1
INVARIANTS OnePlace NoRetryDropped CompletedIsCopied
PROPERTIES ChunksSettle TablesProcessed
CHECK_DEADLOCK FALSE

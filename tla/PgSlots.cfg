SPECIFICATION Spec
CONSTANTS
  Jobs = {"j1", "j2"}
  Tables = {"t1", "t2"}
  Filters <- SharedTable
  MaxWal = 1
  MaxFailures = 1
  MaxCrashes = 1
INVARIANTS NoGapUnlessRobbed StreamsWhatItAskedFor EntryIsLastCommit
PROPERTY StartsWhenOthersRun
CHECK_DEADLOCK FALSE

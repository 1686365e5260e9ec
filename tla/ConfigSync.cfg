SPECIFICATION Spec
CONSTANTS
  Values = {1, 2}
  Valid = {2}
  InitMulti <- OneMulti
  UserMulti <- EditedMulti
  Added <- OneMore
  Callers = {a}
  ChanCap = 1
  MaxSyncs = 1
  MaxEdits = 2
  MaxTies = 1
PROPERTIES LostOnlyIfKnown EventuallyAgree
CHECK_DEADLOCK FALSE

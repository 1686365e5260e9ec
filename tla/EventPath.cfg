SPECIFICATION PathSpec
CONSTANTS
  Keys <- TwoKeys
  Rows <- SomeRows
  EngineTransform <- Transform
  RuleSets <- SomeRuleSets
  TextNumber <- Numbers
  TextOrder <- Order
  DateTexts = {}
  TrueTexts = {"true"}
  FalseTexts = {"false"}
  MaxChanges <- Changes
  MaxFaults = 1
INVARIANTS DocsFollowRows NoRawSecret ComputedAsUsual
PROPERTY EventuallyDecoded
CHECK_DEADLOCK FALSE

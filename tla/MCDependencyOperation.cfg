CONSTANTS
  Order <- MCOrder
  Rules <- MCRules
  Settings <- MCSettings
SPECIFICATION FairSpec
INVARIANTS
  EvaluationIsExact
  OrderIsKept
PROPERTY
  NodesEnd
CHECK_DEADLOCK FALSE

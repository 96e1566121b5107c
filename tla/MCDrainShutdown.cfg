CONSTANTS
  Generations = {1, 2}
  Revision <- MCRevision
  Entities = {e1}
  Ids = {i1}
  Sessions = {s1, s2}
  Progressive = {s1}
  Calls = {"retire", "close"}
  Revoking = {2}
  TimerKinds = {"timeout", "progressive"}
  MaxRetained = 1
  MaxFailures = 1
  None = None
  Settings <- ShutdownSettings
SPECIFICATION MCFairSpec
PROPERTIES
  OutcomeSticks
  ImplementsDrainOwner
  CallersReturn
  RetiredIsReleased
CHECK_DEADLOCK FALSE

CONSTANTS
  Generations = {1, 2}
  Revision <- MCRevision
  Sessions = {s1}
  ModuleCount = 2
  Callers = {"close", "retire", "use"}
  MaxFailures = 1
  None = None
SPECIFICATION FairSpec
INVARIANTS
  NoRefusalBeforeHandover
  ViewIsOwned
  PreparedIsOwned
PROPERTY
  CallsReturn
CHECK_DEADLOCK FALSE

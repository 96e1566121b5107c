CONSTANTS
  a1 = a1  a2 = a2
  Agents = {a1, a2}
  Default = a1
  Instances = {1, 2}
  Packages = {1, 2}
  MaxOps = 4
  MaxRevs = 4
  Settings <- MCSettings
SPECIFICATION FairSpec
INVARIANTS
  PendingIsOpen
PROPERTIES
  AuthorityIsCommitted
  EndsForCause
  OperationsEnd
CHECK_DEADLOCK FALSE

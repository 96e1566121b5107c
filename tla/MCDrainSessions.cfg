CONSTANTS
  Generations = {1, 2, 3}
  Revision <- MCRevision
  Entities = {e1}
  Ids = {i1}
  Sessions = {s1, s2}
  Progressive = {s1}
  Calls = {"retire", "close"}
  Revoking = {2}
  TimerKinds = {"timeout", "progressive"}
  MaxRetained = 1
  MaxFailures = 1
  None = None
  Settings <- SessionSettings
SPECIFICATION MCSpec
INVARIANTS
  RetiredHasOwner
  NoSessionOnDestroyedResource
  LiveHandleIsRegistered
  RevokedEntitiesAreClosed
  LimitStopsDraining
CHECK_DEADLOCK FALSE

CONSTANTS
  MaxRevision = 3
  MaxCycle = 1
  MaxAttempts = 2
  LeaseIds = {l1, l2, l3}
  Calls = {"heartbeat", "retry", "rollback", "repair", "retire", "prune"}
  None = None
SPECIFICATION FairSpec
INVARIANTS
  OneLease
  AppliedIsServed
  DrainStateAgrees
PROPERTIES
  OutcomesStick
  LedgerSettles
CHECK_DEADLOCK FALSE

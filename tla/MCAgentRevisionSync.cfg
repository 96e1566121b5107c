CONSTANTS
  MaxRevision = 3
  MaxCycle = 1
  MaxAttempts = 2
  LeaseIds = {l1, l2, l3, l4, l5}
  Calls = {"heartbeat", "retry", "rollback", "repair", "retire", "prune"}
  Faults = {"timeout", "crash", "error", "apply", "expiry"}
  MaxFaults = 2
  None = None
  Settings <- SyncSettings
SPECIFICATION MCFairSpec
INVARIANTS
  AppliedIsDurable
  LedgerIsTrue
PROPERTY
  Converges

CONSTANTS
  p1 = p1  p2 = p2  f1 = f1  f2 = f2  f3 = f3  b1 = b1  b2 = b2  b3 = b3
  Procs = {p1, p2}
  Fences = {f1, f2, f3}
  Batches = {b1, b2, b3}
  MaxRecords = 2
  Settings <- MCSettings
SPECIFICATION FairSpec
INVARIANTS
  DeliveredOnce
PROPERTY
  WaitersEnd
CHECK_DEADLOCK FALSE

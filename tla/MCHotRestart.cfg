CONSTANTS
  MaxLaunches = 3
  MaxCrashes = 1
SPECIFICATION FairSpec
INVARIANTS
  OneController
PROPERTIES
  AlwaysControlled
  ShutdownStopsLineage
CHECK_DEADLOCK FALSE

CONSTANTS
  s1 = s1  s2 = s2  g1 = g1  g2 = g2  w1 = w1  w2 = w2
  Sources = {s1, s2}
  Signers = {g1, g2}
  Workers = {w1, w2}
  Settings <- MCSettings
SPECIFICATION FairSpec
INVARIANTS
  UsedIsCached
PROPERTY
  UnusedIsCollected
CHECK_DEADLOCK FALSE

CONSTANTS
  s1 = s1  s2 = s2  d1 = d1  g1 = g1  g2 = g2  c1 = c1  c2 = c2
  Sources = {s1, s2}
  Digests = {d1}
  Signers = {g1, g2}
  MaxOps = 2
  Cleaners = {c1, c2}
  Settings <- MCSettings
SPECIFICATION FairSpec
INVARIANTS
  RowsAgree
  DirsAreOwned
PROPERTY
  DeletionCompletes
CHECK_DEADLOCK FALSE

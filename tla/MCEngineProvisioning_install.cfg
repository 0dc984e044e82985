SPECIFICATION Spec
CONSTANTS
  l1 = l1  l2 = l2  v1 = v1  v2 = v2
  None = None
  Laptops = {l1, l2}
  Versions = {v1, v2}
  Collides = FALSE
  MaxRuns = 3
  MaxChanges = 2
  MaxFaults = 2
SYMMETRY AlikeVersions
CHECK_DEADLOCK FALSE
INVARIANTS TypeOK MarkerNamesInstalled ConsentCoversWrites

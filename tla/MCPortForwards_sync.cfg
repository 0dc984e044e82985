SPECIFICATION Spec
CONSTANTS
  b1 = b1  b2 = b2  q1 = q1  q2 = q2  s1 = s1  s2 = s2  c1 = c1  n1 = n1
  None = None  Empty = Empty  Mixed = Mixed
  Boxes = {b1, b2}
  Ports = {q1, q2}
  Forwardable = {q1}
  Services <- SharedPort
  Occupied <- NoneOrShared
  Syncs = {s1, s2}
  Clicks = {c1}
  Panes = {n1}
  MaxChanges = 1
  MaxFaults = 1
SYMMETRY AlikeSyncs
CHECK_DEADLOCK FALSE
INVARIANTS TypeOK RowsDistinct TornOnlyByOverlap SyncEstablishes
PROPERTY ClickKeepsOtherRows

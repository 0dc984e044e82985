SPECIFICATION FairSpec
CONSTANTS
  u1 = u1  u2 = u2  w1 = w1  w2 = w2  s1 = s1  s2 = s2
  t1 = t1  h1 = h1  h2 = h2  feature = feature  msb1 = msb1  msb2 = msb2
  NoPath = NoPath  None = None
  Users = {u1}
  Linked = {w1, w2}
  Spaces = {s1}
  Paths = {t1}
  Labels = {feature, msb1, msb2}
  Handles = {h1}
  PathOf <- OneCheckout
  LabelOf <- NoLabel
  NamesOf <- NameFromLabel
  MsbLabel <- MsbLabels
  MaxHand = 1
  MaxFaults = 1
CHECK_DEADLOCK FALSE
INVARIANT TypeOK
PROPERTIES RecordOutlivesSandbox HookReclaims

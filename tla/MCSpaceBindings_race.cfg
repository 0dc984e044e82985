SPECIFICATION Spec
CONSTANTS
  u1 = u1  u2 = u2  w1 = w1  w2 = w2  s1 = s1  s2 = s2
  t1 = t1  h1 = h1  h2 = h2  feature = feature  msb1 = msb1  msb2 = msb2
  NoPath = NoPath  None = None
  Users = {u1, u2}
  Linked = {w1}
  Spaces = {s1}
  Paths = {t1}
  Labels = {feature, msb1, msb2}
  Handles = {h1, h2}
  PathOf <- OneCheckout
  LabelOf <- OneLabel
  NamesOf <- AnyName
  MsbLabel <- MsbLabels
  MaxHand = 0
  MaxFaults = 0
CHECK_DEADLOCK FALSE
INVARIANT OneToOne
PROPERTIES ImplementsTable PruneSparesTheOpen

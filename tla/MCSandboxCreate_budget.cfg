SPECIFICATION Spec
CONSTANTS
  c1 = c1  c2 = c2  c3 = c3
  NoBox = NoBox
  Creators = {c1, c2, c3}
  Allocating = {}
  Paths = {"runtime"}
  MemorySizes <- OneTwo
  Budget = 3
  MaxUint32 = 3
  NumBlocks = 1
  Published <- NoPorts
  Policies <- AlwaysDeny
  MaxPages = 3
  MaxFaults = 0
CHECK_DEADLOCK FALSE
PROPERTY OnlyRacesOvershoot
SYMMETRY Interchangeable

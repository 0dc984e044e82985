SPECIFICATION FairSpec
CONSTANTS
  c1 = c1  c2 = c2  c3 = c3
  NoBox = NoBox
  Creators = {c1, c2}
  Allocating = {c1, c2}
  Paths = {"service", "runtime", "ephemeral", "publish"}
  MemorySizes <- One
  Budget = 2
  MaxUint32 = 4
  NumBlocks = 2
  Published <- AnyBlock
  Policies <- AllowedOrNot
  MaxPages = 2
  MaxFaults = 1
CHECK_DEADLOCK FALSE
INVARIANTS TypeOK NoSharedBlock
PROPERTIES ImplementsLedger CallsReturn

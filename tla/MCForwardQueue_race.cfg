SPECIFICATION Spec
CONSTANTS
  w1 = w1  w2 = w2  a1 = a1  a2 = a2  p1 = p1  p2 = p2
  here = here  elsewhere = elsewhere
  AnyHost = AnyHost  NoFile = NoFile
  Whole = Whole  Empty = Empty  Mixed = Mixed
  Writers = {w1, w2}
  Agents = {a1}
  Ports <- MCPorts
  Hosts <- MCHosts
  ServedHost <- AllServeHere
  Batches <- OneOrTwoPorts
  DeclareHosts <- OnlyHere
  MaxCalls = 2
  MaxCutoff = 1
  MaxFaults = 3
CHECK_DEADLOCK FALSE
INVARIANTS TypeOK QueueWellFormed CursorFollowsApply
PROPERTY AckNeverRegresses

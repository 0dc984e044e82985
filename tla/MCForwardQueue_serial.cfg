SPECIFICATION FairSpec
CONSTANTS
  w1 = w1  w2 = w2  a1 = a1  a2 = a2  p1 = p1  p2 = p2
  here = here  elsewhere = elsewhere
  AnyHost = AnyHost  NoFile = NoFile
  Whole = Whole  Empty = Empty  Mixed = Mixed
  Writers = {w1}
  Agents = {a1, a2}
  Ports <- MCPorts
  Hosts <- MCHosts
  ServedHost <- TwoNames
  Batches <- OnePort
  DeclareHosts <- HereOrElsewhere
  MaxCalls = 2
  MaxCutoff = 0
  MaxFaults = 1
CHECK_DEADLOCK FALSE
INVARIANTS NothingPassedOver QueueReadable
PROPERTIES ImplementsMailbox EveryRequestServed

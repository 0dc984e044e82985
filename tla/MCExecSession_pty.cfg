SPECIFICATION FairSpec
CONSTANTS
  Cap = 2
  MaxResizes = 4
  MaxFaults = 1
CHECK_DEADLOCK FALSE
INVARIANTS TypeOK TerminalRestored
PROPERTIES GuestSizeCatchesUp SessionReturns

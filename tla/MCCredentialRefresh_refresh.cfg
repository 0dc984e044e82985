SPECIFICATION Spec
CONSTANTS
  host = host  inplace = inplace  guest = guest
  None = None  Damaged = Damaged
  Refreshers = {host, inplace, guest}
  InPlace = {inplace}
  Capturing = {host}
  MaxGrants = 3
  MaxFaults = 2
CHECK_DEADLOCK FALSE
INVARIANTS TypeOK PairIsRecoverable StaysLoadable
PROPERTY SavesTheLivePair

SPECIFICATION FairSpec
CONSTANTS
  s1 = s1  u1 = u1
  None = None  Torn = Torn
  Sessions = {s1}
  Startups = {u1}
  MaxFlips = 2
  MaxFaults = 2
CHECK_DEADLOCK FALSE
INVARIANTS TypeOK SessionStopsItsAgent
PROPERTIES NoAgentForgotten SessionsProceed DeselectIsFollowed

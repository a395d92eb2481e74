SPECIFICATION RosterSpec
CONSTANTS
  Buddies = {b1, b2}
  GroupNames = {g1, g2}
  Nothing = none
  MaxGid = 2
  MaxMid = 2
  MaxTold = 3
  Whims <- MCWhims
INVARIANT AddedIsStored
CHECK_DEADLOCK FALSE

SPECIFICATION AskedSpec
CONSTANTS
  Rooms = {r1}
  Users = {u1}
  Me = me
  MaxPeople = 1
  MaxOut = 2
  MaxDown = 4
INVARIANT LeftForGood
CHECK_DEADLOCK FALSE

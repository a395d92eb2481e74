SPECIFICATION Spec
CONSTANTS
  Rooms = {r1, r2}
  Users = {u1, u2}
  Me = me
  MaxPeople = 1
  MaxOut = 2
  MaxDown = 3
SYMMETRY RoomSymmetry
INVARIANTS TypeOK RoomAssertionsHold RoomsEndUpRight VisibleIsOnline

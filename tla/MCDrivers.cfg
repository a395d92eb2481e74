SPECIFICATION Spec
CONSTANTS
  Groups = {g1, g2}
  NoGroup = none
  MaxFrames = 2
  Worlds <- MCWorlds
  Rooms = {r1, r2}
  MaxIds = 2
  MaxEntries = 3
  MaxWaiting = 2
  Habits <- MCHabits
  People = {p1, p2}
  Chats = {c1}
  NoOne = none
  MaxLines = 3
  MaxCommands = 2
  Manners <- MCManners
  Services = {admin, icon}
  MaxFlaps = 3
  MaxSnacs = 3
  Customs <- MCCustoms
  Buddies = {b1, b2}
  GroupNames = {g1, g2}
  Nothing = none
  MaxGid = 2
  MaxMid = 2
  MaxTold = 3
  Whims <- MCWhims
  Alphabet <- MCAlphabet
  MaxText = 4
INVARIANTS DriversTypeOK NoDriverFault DriverLayersAgree DriverListsAgree RoomsAgree LilyAgrees OscarServes ReadAsWritten
CHECK_DEADLOCK FALSE

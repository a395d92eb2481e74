SPECIFICATION Spec
CONSTANTS
  n1 = n1
  n2 = n2
  Names = {n1, n2}
  OtherWindow = TRUE
  Regroup = FALSE
  MaxQueued = 2
SYMMETRY NameSymmetry
INVARIANTS TypeOK NoFault ListsAgree VisibleIsOnline QueuedOnlyForAbsent
PROPERTIES PermanentStays KeptThroughEvents TimerSpares

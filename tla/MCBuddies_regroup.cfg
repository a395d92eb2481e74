SPECIFICATION Spec
CONSTANTS
  n1 = n1
  n2 = n2
  Names = {n1, n2}
  OtherWindow = TRUE
  Regroup = TRUE
  MaxQueued = 1
PROPERTIES AddedIsListed

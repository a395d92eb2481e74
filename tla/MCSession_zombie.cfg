SPECIFICATION FairSpec
CONSTANTS
  SendsFail = TRUE
  ConnectFailsAtOnce = FALSE
  Tls = FALSE
  Orderly = TRUE
  MaxPending = 3
PROPERTIES LossNoticed
CHECK_DEADLOCK FALSE

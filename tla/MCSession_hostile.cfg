SPECIFICATION Spec
CONSTANTS
  SendsFail = TRUE
  ConnectFailsAtOnce = TRUE
  Tls = TRUE
  Orderly = FALSE
  MaxPending = 3
INVARIANTS ActiveImpliesOnline SignonUnderTls
PROPERTIES LostOnlyFromOnline
CHECK_DEADLOCK FALSE

SPECIFICATION Spec
CONSTANTS
  SendsFail = FALSE
  ConnectFailsAtOnce = FALSE
  Tls = FALSE
  Orderly = TRUE
  MaxPending = 3
INVARIANTS FreshConnection

SPECIFICATION LiveSpec
CONSTANTS
  SendsFail = FALSE
  ConnectFailsAtOnce = FALSE
  Tls = FALSE
  Orderly = TRUE
  MaxPending = 3
  Handles = {h1, h2}
  Files = {f1, f2}
  NoHandle = none
  Gone = gone
  MaxSize = 2
  Worlds <- MCWorlds
  Pests = {q1, q2}
  NetworkKinds = {"stored", "session", "nowhere"}
  MaxDenyBuf = 2
  Symbols <- MCSymbols
  MaxTalk = 4
  MaxSend = 9
  MaxChat = 5
  MaxNews = 2
  Links = {l1, l2}
  Present <- MCPresent
  Absent <- MCAbsent
  Networks <- MCNetworks
  MaxAsked = 2
  MaxComing = 5
  MaxModes = 3
  MaxNotice = 6
  MaxUp = 2
  MaxDown = 3
  MaxReq = 4
  Remembered = 2
  ImTexts <- MCImTexts
  Hidden <- MCHidden
  MaxFlight = 1
  Speakers = {"bob", "al"}
  Addressed = {"bob", "bobby", "me"}
  MaxSaid = 3
INVARIANTS TypeOK LayersAgree SockValid WrapperKeeps
PROPERTIES OneConnectedNotice DisconnectEndsSession NoticesSpec LossNoticed ReceiveEnds

--------------------------- MODULE SessionNotices ---------------------------
(***************************************************************************)
(* What the windows and the Lua scripts are promised about one connection: *)
(* it is online, lost or closed; every change is announced before anything *)
(* else is; only a session that was online can be lost; and from closed it *)
(* comes back only by being announced online.                              *)
(***************************************************************************)
VARIABLES
  status,  \* "closed", "lost" or "online"
  told     \* whether the scripts' last word was proto_connected

noticeVars == <<status, told>>

NoticesInit == status = "closed" /\ told = FALSE

Connected    == status # "online" /\ status' = "online" /\ told' = TRUE
Disconnected == status = "online" /\ status' = "lost"   /\ told' = FALSE
Closed       == status # "closed" /\ status' = "closed" /\ told' = FALSE

NoticesNext == Connected \/ Disconnected \/ Closed

NoticesSpec == NoticesInit /\ [][NoticesNext]_noticeVars
=============================================================================

-------------------------- MODULE ChatRoomsAsked --------------------------
(***************************************************************************)
(* ChatRooms with a history variable: the rooms that the user has asked    *)
(* for, by /join, and not left since, by /close or /part.  The session,    *)
(* once it is up, is not lost: what is lost with it is not at issue here.  *)
(***************************************************************************)
EXTENDS ChatRooms

VARIABLE asked

AskedInit == Init /\ asked = {}

AskedNext ==
  \/ \E r \in Rooms : Join(r) /\ asked' = asked \cup {r}
  \/ \E r \in Rooms : Close(r) /\ asked' = asked \ {r}
  \/ (Line \/ SignOn \/ Server) /\ UNCHANGED asked

AskedSpec == AskedInit /\ [][AskedNext]_<<vars, asked>>

(* A room that the user has left is not joined again by the client: when nothing
   is under way we are only in rooms that were asked for (ua_close). *)
LeftForGood ==
  up /\ down = <<>> /\ client.out = <<>> => \A r \in Rooms : In(r) => r \in asked
=============================================================================

---------------------------- MODULE MCChatRooms ----------------------------
(* Two rooms, so that somebody may leave one and stay in the other, and two names
   for one other person.  Rooms and names are interchangeable. *)
EXTENDS ChatRooms, TLC

RoomSymmetry == Permutations(Rooms) \cup Permutations(Users)
=============================================================================

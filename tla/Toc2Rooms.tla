------------------------------ MODULE Toc2Rooms ------------------------------
(***************************************************************************)
(* The chat rooms of a TOC2 session: toc2.c knows a room by a number that  *)
(* the server gives it, and keeps a list of the names it has asked for or  *)
(* was invited to, the newest first, from which nothing is ever removed,   *)
(* not by a lost session either.  Requests and replies are under way at    *)
(* the same time; a room that is left while its window is open is asked    *)
(* for again, and so is every room that has a window when a session is up. *)
(*                                                                         *)
(* The client's names have the exchange in front ("4:foo"), except what a  *)
(* user may type; the list's have not.                                     *)
(***************************************************************************)
EXTENDS Integers, Sequences, SequencesExt, FiniteSetsExt

CONSTANTS
  Rooms,       \* names of rooms
  MaxIds,      \* bound: numbers that the server gives to rooms
  MaxEntries,  \* bound: entries of the list
  MaxWaiting,  \* bound: requests, and replies, under way
  Habits       \* of the users and servers, one in each behaviour

(* typesBare: a user joins by the bare name; repeats: and again a room that is
   asked for already; invites: others invite him. *)
Habit == [typesBare : BOOLEAN, repeats : BOOLEAN, invites : BOOLEAN]

ASSUME Toc2RoomsAssumption ==
  /\ {MaxIds, MaxEntries, MaxWaiting} \subseteq Nat
  /\ Habits \subseteq Habit

VARIABLES
  chat,   \* this side and what is under way
  hosts,  \* external: the server's rooms: their numbers, and those we are in
  habit   \* constant

roomVars == <<chat, hosts, habit>>

NoId == 0

Entry   == [name : Rooms, id : 0..MaxIds, invited : BOOLEAN, joined : BOOLEAN]
Request == [cmd : {"toc_chat_join", "toc_chat_accept", "toc_chat_leave"},
            name : Rooms, id : 0..MaxIds,
            asked : Rooms]    \* the room that was to be joined or left
Reply   == [kind : {"CHAT_JOIN", "CHAT_INVITE", "CHAT_LEFT", "ERROR"},
            name : Rooms, id : 0..MaxIds]

Chat ==
  [entries : Seq(Entry),                             \* room_head, newest first
   known   : SUBSET Rooms,                           \* firetalk_room_t
   window  : [Rooms -> {"none", "offline", "online"}],
   out     : Seq(Request),
   mail    : Seq(Reply),
   up      : BOOLEAN,
   fault   : BOOLEAN]                                \* a failed assertion has ended the program

RoomsInit ==
  /\ habit \in Habits
  /\ hosts = [ids |-> [r \in Rooms |-> NoId], last |-> 0, in |-> {}]
  /\ chat = [entries |-> <<>>, known |-> {}, window |-> [r \in Rooms |-> "none"],
             out |-> <<>>, mail |-> <<>>, up |-> FALSE, fault |-> FALSE]

-----------------------------------------------------------------------------
(* The list.  A position is 0 where the code finds none. *)

Find(c, Test(_)) == SelectInSeq(c.entries, Test)

(* Mutant: a room that is listed is not listed again. *)
AddRoomOnce(c, name) ==
  IF Find(c, LAMBDA e : e.name = name) # 0 THEN c
  ELSE [c EXCEPT !.entries = <<[name |-> name, id |-> NoId, invited |-> FALSE, joined |-> FALSE]>> \o @]

AddRoom(c, name) ==
  [c EXCEPT !.entries = <<[name |-> name, id |-> NoId, invited |-> FALSE, joined |-> FALSE]>> \o @]

SetOf(c, i, Change(_)) == IF i = 0 THEN c ELSE [c EXCEPT !.entries[i] = Change(@)]

SetInvited(c, name) ==
  SetOf(c, Find(c, LAMBDA e : e.name = name), LAMBDA e : [e EXCEPT !.invited = TRUE])

SetId(c, name, id) ==
  SetOf(c, Find(c, LAMBDA e : ~e.joined /\ e.name = name), LAMBDA e : [e EXCEPT !.id = id])

SetJoined(c, id) ==
  SetOf(c, Find(c, LAMBDA e : ~e.joined /\ e.id = id), LAMBDA e : [e EXCEPT !.joined = TRUE])

(* Mutant: the number of the oldest entry instead. *)
RoomIdOldest(c, name) ==
  LET i == SelectLastInSeq(c.entries, LAMBDA e : e.name = name)
  IN  IF i = 0 THEN NoId ELSE c.entries[i].id

(* toc_internal_find_room_id. *)
RoomId(c, name) ==
  LET i == Find(c, LAMBDA e : e.name = name) IN IF i = 0 THEN NoId ELSE c.entries[i].id

(* toc_internal_find_room_name; {} stands for a null pointer. *)
RoomNames(c, id) ==
  LET i == Find(c, LAMBDA e : e.id = id) IN IF i = 0 THEN {} ELSE {c.entries[i].name}

-----------------------------------------------------------------------------
(* Requests. *)

Sent(c, cmd, name, id, asked) ==
  [c EXCEPT !.out = Append(@, [cmd |-> cmd, name |-> name, id |-> id, asked |-> asked])]

(* The room that toc_chat_join works with.  A name without an exchange is put
   together by aim_normalize_room_name in a static buffer, where
   toc_internal_get_room_invited then puts the first entry's name together, and
   finds that it is the same. *)
JoinsFor(c, name, bare) ==
  IF bare /\ c.entries # <<>> THEN Head(c.entries).name ELSE name

(* toc_chat_join.  The flag is then to be cleared for the name with the exchange
   in front, which no entry has. *)
ChatJoin(c, asked, bare) ==
  LET name == JoinsFor(c, asked, bare)
      i    == Find(c, LAMBDA e : e.name = name)
  IN  IF i # 0 /\ c.entries[i].invited
      THEN Sent(c, "toc_chat_accept", name, RoomId(c, name), asked)
      ELSE Sent(AddRoom(c, name), "toc_chat_join", name, NoId, asked)

(* firetalk_chat_join: without a session nothing happens. *)
FtChatJoin(c, name, bare) == IF c.up THEN ChatJoin(c, name, bare) ELSE c

ChatPart(c, name) ==
  IF ~c.up \/ RoomId(c, name) = NoId THEN c
  ELSE Sent(c, "toc_chat_leave", name, RoomId(c, name), name)

Bounded == Len(chat.entries) < MaxEntries /\ Len(chat.out) < MaxWaiting /\ ~chat.fault

-----------------------------------------------------------------------------
(* The user. *)

(* Whether a room is asked for and not yet answered. *)
Pending(c, r) ==
  \/ \E q \in ToSet(c.out)  : q.asked = r /\ q.cmd # "toc_chat_leave"
  \/ \E m \in ToSet(c.mail) : m.kind = "CHAT_JOIN" /\ m.name = r

UaJoin(r, bare) ==
  /\ Bounded /\ chat.window[r] # "online"
  /\ bare => habit.typesBare
  /\ ~habit.repeats => ~Pending(chat, r)
  /\ chat' = FtChatJoin([chat EXCEPT !.window[r] = "offline"], r, bare)
  /\ UNCHANGED <<hosts, habit>>

(* bclose on the window. *)
UaClose(r) ==
  /\ Bounded /\ chat.window[r] # "none"
  /\ ~habit.repeats => ~Pending(chat, r)
  /\ chat' = [ChatPart(chat, r) EXCEPT !.window[r] = "none"]
  /\ UNCHANGED <<hosts, habit>>

-----------------------------------------------------------------------------
(* The server. *)

Says(c, kind, name, id) ==
  [c EXCEPT !.mail = Append(@, [kind |-> kind, name |-> name, id |-> id])]

MayReply == Len(chat.mail) < MaxWaiting /\ ~chat.fault

(* A room gets its number when it is made, and a new one when it is made again. *)
Hosted(h, r) ==
  IF h.ids[r] # NoId THEN h ELSE [h EXCEPT !.last = @ + 1, !.ids[r] = h.last + 1]

RequestArrives ==
  /\ MayReply /\ chat.out # <<>>
  /\ LET q    == Head(chat.out)
         rest == [chat EXCEPT !.out = Tail(@)]
         lets(r) == /\ hosts.ids[r] # NoId \/ hosts.last < MaxIds
                    /\ hosts' = [Hosted(hosts, r) EXCEPT !.in = @ \cup {r}]
                    /\ chat' = Says(rest, "CHAT_JOIN", r, hosts'.ids[r])
         refuses == chat' = Says(rest, "ERROR", q.name, NoId) /\ UNCHANGED hosts
         silent  == chat' = rest /\ UNCHANGED hosts
         named   == {r \in Rooms : q.id # NoId /\ hosts.ids[r] = q.id}
     IN  \/ q.cmd = "toc_chat_join" /\ q.name \notin hosts.in /\ (lets(q.name) \/ refuses)
         \/ q.cmd = "toc_chat_join" /\ q.name \in hosts.in /\ (silent \/ lets(q.name))
         \/ q.cmd = "toc_chat_accept" /\ (\E r \in named : lets(r))
         \/ q.cmd = "toc_chat_accept" /\ named = {} /\ refuses
         \/ /\ q.cmd = "toc_chat_leave" /\ named \cap hosts.in # {}
            /\ hosts' = [hosts EXCEPT !.in = @ \ named]
            /\ chat' = Says(rest, "CHAT_LEFT", q.name, q.id)
         \/ q.cmd = "toc_chat_leave" /\ named \cap hosts.in = {} /\ silent
  /\ UNCHANGED habit

Invites ==
  /\ MayReply /\ chat.up /\ habit.invites /\ Len(chat.entries) < MaxEntries
  /\ \E r \in Rooms \ hosts.in :
       /\ hosts.ids[r] # NoId \/ hosts.last < MaxIds
       /\ hosts' = Hosted(hosts, r)
       /\ chat' = Says(chat, "CHAT_INVITE", r, hosts'.ids[r])
  /\ UNCHANGED habit

(* "In some situations, AOL's servers can forcibly remove you from chat rooms." *)
Drops ==
  /\ MayReply
  /\ \E r \in hosts.in :
       /\ hosts' = [hosts EXCEPT !.in = @ \ {r}]
       /\ chat' = Says(chat, "CHAT_LEFT", r, hosts.ids[r])
  /\ UNCHANGED habit

(* A room that no one is in is gone. *)
RoomEnds ==
  /\ \E r \in Rooms \ hosts.in :
       hosts.ids[r] # NoId /\ hosts' = [hosts EXCEPT !.ids[r] = NoId]
  /\ UNCHANGED <<chat, habit>>

-----------------------------------------------------------------------------
(* toc_got_data, and what the client makes of it. *)

(* CHAT_JOIN, with the room's list of people in its wake: the window is online. *)
GotChatJoin(c, name, id) ==
  LET noted == SetJoined(SetId(c, name, id), id)
      room  == RoomNames(noted, id)
  IN  IF Find(c, LAMBDA e : ~e.joined /\ e.name = name) = 0
      THEN [c EXCEPT !.fault = TRUE]     \* assert(exchange != 0)
      ELSE [noted EXCEPT
              !.known = @ \cup room,
              !.window = [r \in Rooms |-> IF r \in room THEN "online" ELSE @[r]]]

GotChatInvite(c, name, id) == SetId(SetInvited(AddRoom(c, name), name), name, id)

(* A room that is left is joined again while it has a window. *)
GotChatLeft(c, id) ==
  LET left == RoomNames(c, id) \cap c.known
      out  == [c EXCEPT !.known = @ \ left]
  IN  IF left = {} THEN c
      ELSE LET r == CHOOSE x \in left : TRUE
           IN  IF c.window[r] = "none" THEN out
               ELSE FtChatJoin([out EXCEPT !.window[r] = "offline"], r, FALSE)

Receive ==
  /\ Bounded /\ chat.mail # <<>>
  /\ LET m    == Head(chat.mail)
         rest == [chat EXCEPT !.mail = Tail(@)]
     IN  chat' = CASE m.kind = "CHAT_JOIN"   -> GotChatJoin(rest, m.name, m.id)
                   [] m.kind = "CHAT_INVITE" -> GotChatInvite(rest, m.name, m.id)
                   [] m.kind = "CHAT_LEFT"   -> GotChatLeft(rest, m.id)
                   [] m.kind = "ERROR"       -> rest
  /\ UNCHANGED <<hosts, habit>>

(* fireio_connected: every room with a window is asked for. *)
Connected ==
  /\ ~chat.up /\ ~chat.fault
  /\ LET wanted == {r \in Rooms : chat.window[r] # "none"}
     IN  /\ Len(chat.entries) + Cardinality(wanted) <= MaxEntries
         /\ chat' = FoldSet(LAMBDA r, c : FtChatJoin(c, r, FALSE), [chat EXCEPT !.up = TRUE], wanted)
  /\ UNCHANGED <<hosts, habit>>

(* The loss of the session: the driver's list stays. *)
Lost ==
  /\ chat.up
  /\ chat' = [chat EXCEPT !.up = FALSE, !.known = {}, !.out = <<>>, !.mail = <<>>,
                          !.window = [r \in Rooms |-> IF @[r] = "online" THEN "offline" ELSE @[r]]]
  /\ hosts' = [hosts EXCEPT !.in = {}]
  /\ UNCHANGED habit

-----------------------------------------------------------------------------
RoomsNext ==
  \/ \E r \in Rooms, bare \in BOOLEAN : UaJoin(r, bare)
  \/ \E r \in Rooms : UaClose(r)
  \/ RequestArrives \/ Invites \/ Drops \/ RoomEnds
  \/ Receive \/ Connected \/ Lost

RoomsSpec == RoomsInit /\ [][RoomsNext]_roomVars

-----------------------------------------------------------------------------
RoomsTypeOK ==
  /\ chat \in Chat
  /\ hosts \in [ids : [Rooms -> 0..MaxIds], last : 0..MaxIds, in : SUBSET Rooms]
  /\ habit \in Habit

(* The assertions of CHAT_JOIN hold, whatever is asked for, left, dropped or lost
   meanwhile: unless one has been invited (the invitation is accepted at every
   later join, and its entry is joined already). *)
NoRoomFault == chat.fault => habit.invites

(* Once nothing is under way, the windows, the wrapper and the server agree on the
   rooms one is in, and each is spoken to by the number it has, through any
   number of earlier entries of its name: if rooms are not asked for twice, and
   nobody is invited (an invitation read between an answer and the next request
   leaves a newer entry of the name, with a number that the room then loses). *)
RoomsAgree ==
  habit = [typesBare |-> FALSE, repeats |-> FALSE, invites |-> FALSE]
    /\ ~chat.fault /\ chat.out = <<>> /\ chat.mail = <<>> =>
    /\ chat.known = hosts.in
    /\ hosts.in = {r \in Rooms : chat.window[r] = "online"}
    /\ \A r \in hosts.in : RoomId(chat, r) = hosts.ids[r]

(* A request to join is for the room that the user or the client asked for. *)
JoinAsksForRoom == \A q \in ToSet(chat.out) : q.name = q.asked
=============================================================================

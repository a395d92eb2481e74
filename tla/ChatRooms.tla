----------------------------- MODULE ChatRooms -----------------------------
(***************************************************************************)
(* The chat rooms of one IRC connection.                                   *)
(*                                                                         *)
(* Who is in a room is known to the server, and kept three times here:     *)
(*                                                                         *)
(*   the wrapper's   firetalk_room_t, with its members and admin           *)
(*   the client's    a CHAT window, with offline and isoper                *)
(*   the scripts'    conn.groups of default.lua, with members and synched  *)
(*                                                                         *)
(* The three are changed by the server's lines alone, in the order of the  *)
(* calls that a line makes; commands only send.  Lines are under way in    *)
(* both directions: a room is left, joined again or lost while older lines *)
(* about it are still to be read, and some of what is read makes the       *)
(* client join again by itself.  From the rooms' members the driver also   *)
(* infers who is online.                                                   *)
(*                                                                         *)
(* The fields of client are the state of this side, out the lines it has   *)
(* sent; an operator takes it to what a function of the code leaves.  The  *)
(* sign-on is Session's: here a session is up or it is not.  Left out are  *)
(* keys, topics, modes but for one's own +o, our own changes of nickname,  *)
(* and windows whose names begin with a colon; whoever is seen is taken    *)
(* for a buddy.                                                            *)
(***************************************************************************)
EXTENDS Integers, Sequences, FiniteSets

CONSTANTS
  Rooms,    \* names of rooms, as comparenicks tells them apart
  Users,    \* nicknames of others
  Me,       \* our own
  MaxPeople,\* bound: others on the server at a time
  MaxOut,   \* bound: lines under way to the server
  MaxDown   \* bound: lines under way from it

ASSUME RoomsAssumption ==
  /\ Me \notin Users
  /\ IsFiniteSet(Rooms)
  /\ {MaxPeople, MaxOut, MaxDown} \subseteq Nat

VARIABLES
  up,      \* whether the session is up
  client,  \* what is kept on this side
  server,  \* external: who is in each room, and the rooms in which we are operator
  down     \* lines from the server, not yet read

vars == <<up, client, server, down>>

Nicks == Users \cup {Me}

Room   == [known : BOOLEAN, members : SUBSET Nicks, admin : BOOLEAN]
Window == [state : {"none", "offline", "online"}, isoper : BOOLEAN]
Group  == [known : BOOLEAN, members : SUBSET Nicks, synched : BOOLEAN]

Client ==
  [rooms     : [Rooms -> Room],
   online    : SUBSET Users,       \* the buddies the wrapper has online
   windows   : [Rooms -> Window],
   groups    : [Rooms -> Group],
   out       : Seq([cmd : {"JOIN", "PART"}, room : Rooms]),
   fault     : BOOLEAN,            \* an assertion has ended the program
   complaint : BOOLEAN]            \* an assertion of the scripts has failed

NoRoom   == [known |-> FALSE, members |-> {}, admin |-> FALSE]
NoWindow == [state |-> "none", isoper |-> FALSE]
NoGroup  == [known |-> FALSE, members |-> {}, synched |-> FALSE]

Lines ==
  [kind : {"JOIN", "PART", "KICK"}, room : Rooms, who : Nicks]
    \cup [kind : {"NAMES"}, room : Rooms, members : SUBSET Nicks, oped : BOOLEAN]
    \cup [kind : {"END", "SAY"}, room : Rooms]
    \cup [kind : {"MODE"}, room : Rooms, oped : BOOLEAN]
    \cup [kind : {"QUIT"}, who : Users]
    \cup [kind : {"NICK"}, who : Users, new : Users]

Init ==
  /\ up = FALSE
  /\ client = [rooms |-> [r \in Rooms |-> NoRoom], online |-> {},
               windows |-> [r \in Rooms |-> NoWindow],
               groups |-> [r \in Rooms |-> NoGroup],
               out |-> <<>>, fault |-> FALSE, complaint |-> FALSE]
  /\ server = [members |-> [r \in Rooms |-> {}], oper |-> {}]
  /\ down = <<>>

-----------------------------------------------------------------------------
(* The client's windows, and the lines it sends. *)

Send(c, cmd, r) == [c EXCEPT !.out = Append(@, [cmd |-> cmd, room |-> r])]

(* A window is made if there is none, whatever the reason may be to look for it. *)
Cgetwin(c, r) ==
  IF c.windows[r].state = "none" THEN [c EXCEPT !.windows[r].state = "offline"] ELSE c

Synched(c, r)  == [Cgetwin(c, r) EXCEPT !.windows[r].state = "online"]
Oped(c, r, on) == [Cgetwin(c, r) EXCEPT !.windows[r].isoper = on]

(* While there is a window for it a room that is left is joined again. *)
Left(c, r) ==
  IF c.windows[r].state = "none"
  THEN c
  ELSE Send([c EXCEPT !.windows[r].state = "offline"], "JOIN", r)

Kicked(c, r) ==
  Send([Cgetwin(c, r) EXCEPT !.windows[r] = [state |-> "offline", isoper |-> FALSE]],
       "JOIN", r)

-----------------------------------------------------------------------------
(* The scripts, default.lua, on the same hooks.  A failed assertion ends the
   function it is in, and is reported in the status window. *)

Scripted(c, r, holds, group) ==
  IF holds THEN [c EXCEPT !.groups[r] = group] ELSE [c EXCEPT !.complaint = TRUE]

ScriptJoined(c, r) ==
  Scripted(c, r, ~c.groups[r].known, [NoGroup EXCEPT !.known = TRUE])

ScriptSynched(c, r) ==
  Scripted(c, r, c.groups[r].known, [c.groups[r] EXCEPT !.synched = TRUE])

ScriptLeft(c, r) == Scripted(c, r, c.groups[r].known, NoGroup)

(* To index the members of no group is an error as well. *)
ScriptUserJoined(c, r, who) ==
  Scripted(c, r, c.groups[r].known /\ who \cap c.groups[r].members = {},
           [c.groups[r] EXCEPT !.members = @ \cup who])

ScriptOped(c, r, on) ==
  Scripted(c, r, c.groups[r].known /\ Me \in c.groups[r].members
                   /\ (on \/ c.groups[r].synched), c.groups[r])

-----------------------------------------------------------------------------
(* The wrapper's rooms: the callbacks of firetalk.c.  What is in each is to be
   told on only if the room was known, or not known, before. *)

ChatJoined(c, r) ==
  IF c.rooms[r].known
  THEN c
  ELSE LET added == [c EXCEPT !.rooms[r] = [NoRoom EXCEPT !.known = TRUE]]
       IN  ScriptJoined(Cgetwin(added, r), r)

ChatLeft(c, r) ==
  IF ~c.rooms[r].known THEN c
  ELSE ScriptLeft(Left([c EXCEPT !.rooms[r] = NoRoom], r), r)

(* Mutant: the room one was kicked out of is kept. *)
ChatKickedStays(c, r) == IF c.rooms[r].known THEN Kicked(c, r) ELSE c

ChatKicked(c, r) ==
  IF ~c.rooms[r].known THEN c
  ELSE ScriptLeft(Kicked([c EXCEPT !.rooms[r] = NoRoom], r), r)

(* Names are told on even if they were members before. *)
UserJoined(c, r, who) ==
  IF ~c.rooms[r].known THEN c
  ELSE ScriptUserJoined([c EXCEPT !.rooms[r].members = @ \cup who], r, who)

ChatSynched(c, r) ==
  IF c.rooms[r].known THEN ScriptSynched(Synched(c, r), r) ELSE c

ChatOped(c, r, on) ==
  IF ~c.rooms[r].known \/ c.rooms[r].admin = on
  THEN c
  ELSE ScriptOped(Oped([c EXCEPT !.rooms[r].admin = on], r, on), r, on)

Without(x, n) == [x EXCEPT !.members = @ \ {n}]

(* One user leaves some of the rooms.  It is told on whether a member or not. *)
UserLeft(c, rooms, n) ==
  LET known == {r \in rooms : c.rooms[r].known}
      fits  == {r \in known : c.groups[r].known /\ n \in c.groups[r].members}
  IN  [c EXCEPT
         !.rooms  = [r \in Rooms |-> IF r \in known THEN Without(@[r], n) ELSE @[r]],
         !.groups = [r \in Rooms |-> IF r \in fits THEN Without(@[r], n) ELSE @[r]],
         !.complaint = @ \/ fits # known]

UserQuit(c, n) == UserLeft(c, {r \in Rooms : n \in c.rooms[r].members}, n)

Renamed(names, old, new) ==
  IF old \in names THEN (names \ {old}) \cup {new} ELSE names

WithRenamed(x, old, new) == [x EXCEPT !.members = Renamed(@, old, new)]

(* One user has another name, here and in the scripts' groups. *)
UserNickchanged(c, old, new) ==
  LET changed == {r \in Rooms : old \in c.rooms[r].members}
      fits    == {r \in changed : c.groups[r].known /\ new \notin c.groups[r].members}
  IN  [c EXCEPT
         !.online = Renamed(@, old, new),
         !.rooms  = [r \in Rooms |-> WithRenamed(@[r], old, new)],
         !.groups = [r \in Rooms |-> IF r \in fits THEN WithRenamed(@[r], old, new) ELSE @[r]],
         !.complaint = @ \/ fits # changed]

-----------------------------------------------------------------------------
(* The driver, irc.c: who is online. *)

(* Mutant: oneself is taken for a buddy. *)
ComesMyself(c, who) == [c EXCEPT !.online = @ \cup who]

Comes(c, who) == [c EXCEPT !.online = @ \cup (who \cap Users)]
Goes(c, who)  == [c EXCEPT !.online = @ \ who]

(* firetalk_user_visible_but *)
VisibleBut(c, r) == UNION {c.rooms[q].members : q \in Rooms \ {r}}

(* Mutant: who leaves a room has gone. *)
DiscUserRemBlind(c, r, who) == Goes(c, who)

(* irc_disc_user_rem, for each of who. *)
DiscUserRem(c, r, who) == Goes(c, who \ VisibleBut(c, r))

(* irc_disc_rem asserts that the room is known. *)
DiscRem(c, r) ==
  IF c.rooms[r].known THEN DiscUserRem(c, r, c.rooms[r].members)
                      ELSE [c EXCEPT !.fault = TRUE]

Running == ~client.fault

(* One line is read; what it makes the client send must find room. *)
Read(kind) ==
  /\ Running
  /\ down # <<>>
  /\ Head(down).kind = kind
  /\ down' = Tail(down)
  /\ UNCHANGED <<up, server>>

JoinLine ==
  /\ Read("JOIN")
  /\ LET m == Head(down)
         c == Comes(client, {m.who})
     IN  client' = IF m.who = Me THEN ChatJoined(c, m.room)
                                 ELSE UserJoined(c, m.room, {m.who})

(* Mutant: who is in a room that one joins is not looked at. *)
NamesLineUnseen ==
  /\ Read("NAMES")
  /\ LET m == Head(down)
         c == UserJoined(client, m.room, m.members)
     IN  client' = IF m.oped THEN ChatOped(c, m.room, TRUE) ELSE c

(* 353, which in one line or several has all the names. *)
NamesLine ==
  /\ Read("NAMES")
  /\ LET m == Head(down)
         c == Comes(UserJoined(client, m.room, m.members), m.members)
     IN  client' = IF m.oped THEN ChatOped(c, m.room, TRUE) ELSE c

(* 366 *)
EndLine == Read("END") /\ client' = ChatSynched(client, Head(down).room)

PartLine ==
  /\ Read("PART")
  /\ Len(client.out) < MaxOut
  /\ LET m == Head(down)
     IN  client' = IF m.who = Me
                   THEN ChatLeft(DiscRem(client, m.room), m.room)
                   ELSE UserLeft(DiscUserRem(client, m.room, {m.who}), {m.room}, m.who)

KickLine ==
  /\ Read("KICK")
  /\ Len(client.out) < MaxOut
  /\ LET m == Head(down)
     IN  client' = IF m.who = Me
                   THEN ChatKicked(DiscRem(client, m.room), m.room)
                   ELSE UserLeft(DiscUserRem(client, m.room, {m.who}), {m.room}, m.who)

QuitLine ==
  /\ Read("QUIT")
  /\ LET n == Head(down).who IN client' = UserQuit(Goes(client, {n}), n)

NickLine ==
  /\ Read("NICK")
  /\ client' = UserNickchanged(client, Head(down).who, Head(down).new)

(* What is said in a room finds its window, or makes it, in the room or not. *)
SayLine == Read("SAY") /\ client' = Cgetwin(client, Head(down).room)

ModeLine ==
  /\ Read("MODE")
  /\ client' = ChatOped(client, Head(down).room, Head(down).oped)

Line == JoinLine \/ NamesLine \/ EndLine \/ PartLine \/ KickLine \/ QuitLine
          \/ NickLine \/ SayLine \/ ModeLine

-----------------------------------------------------------------------------
(* Commands, and the session. *)

Join(r) ==
  /\ Running
  /\ client.windows[r].state # "online"
  /\ Len(client.out) < MaxOut
  /\ LET c == Cgetwin(client, r) IN client' = IF up THEN Send(c, "JOIN", r) ELSE c
  /\ UNCHANGED <<up, server, down>>

(* Mutant: the wrapper forgets the room at once. *)
CloseForgets(r) ==
  /\ Running
  /\ client.windows[r].state # "none"
  /\ Len(client.out) < MaxOut
  /\ LET c == [client EXCEPT !.windows[r] = NoWindow, !.rooms[r] = NoRoom]
     IN  client' = IF up THEN Send(c, "PART", r) ELSE c
  /\ UNCHANGED <<up, server, down>>

(* /close, /part and bclose: the room is left by sending, and no more. *)
Close(r) ==
  /\ Running
  /\ client.windows[r].state # "none"
  /\ Len(client.out) < MaxOut
  /\ LET c == [client EXCEPT !.windows[r] = NoWindow]
     IN  client' = IF up THEN Send(c, "PART", r) ELSE c
  /\ UNCHANGED <<up, server, down>>

(* fireio_connected joins the rooms of all windows, in the windows' order. *)
SignOn ==
  /\ Running
  /\ ~up
  /\ up' = TRUE
  /\ LET open == {r \in Rooms : client.windows[r].state # "none"}
         n    == Cardinality(open)
     IN  /\ n <= MaxOut
         /\ \E order \in [1..n -> open] :
              /\ \A r \in open : \E i \in 1..n : order[i] = r
              /\ client' = [client EXCEPT
                              !.out = [i \in 1..n |-> [cmd |-> "JOIN", room |-> order[i]]]]
  /\ UNCHANGED <<server, down>>

(* firetalk_callback_disconnect, bclearall and the scripts' proto_disconnected;
   what was under way is lost, and the server has seen us go. *)
SignOff ==
  /\ Running
  /\ up
  /\ up' = FALSE
  /\ client' = [client EXCEPT
                  !.rooms   = [r \in Rooms |-> NoRoom],
                  !.online  = {},
                  !.groups  = [r \in Rooms |-> NoGroup],
                  !.windows = [r \in Rooms |->
                                 [state  |-> IF @[r].state = "none" THEN "none" ELSE "offline",
                                  isoper |-> FALSE]],
                  !.out     = <<>>]
  /\ server' = [members |-> [r \in Rooms |-> server.members[r] \ {Me}], oper |-> {}]
  /\ down' = <<>>

-----------------------------------------------------------------------------
(* External: the server, as the driver's handling of its lines supposes it.  It
   tells us of what happens in the rooms we are in, in order. *)

In(r) == Me \in server.members[r]

Present == (UNION {server.members[r] : r \in Rooms}) \ {Me}

(* Lines are sent if there is anything to tell us; they are lost with the session. *)
Tell(lines) ==
  /\ Len(down) + Len(lines) <= MaxDown
  /\ down' = down \o lines

TellIf(told, line) == IF told THEN Tell(<<line>>) ELSE UNCHANGED down

ServerStep == Running /\ UNCHANGED up

Enter(u, r) ==
  /\ ServerStep
  /\ u \notin server.members[r]
  /\ Cardinality(Present \cup {u}) <= MaxPeople
  /\ server' = [server EXCEPT !.members[r] = @ \cup {u}]
  /\ TellIf(In(r), [kind |-> "JOIN", room |-> r, who |-> u])
  /\ UNCHANGED client

Leave(u, r) ==
  /\ ServerStep
  /\ u \in server.members[r]
  /\ server' = [server EXCEPT !.members[r] = @ \ {u}]
  /\ \/ TellIf(In(r), [kind |-> "PART", room |-> r, who |-> u])
     \/ In(r) /\ Tell(<<[kind |-> "KICK", room |-> r, who |-> u]>>)
  /\ UNCHANGED client

Shared(u) == \E r \in Rooms : In(r) /\ u \in server.members[r]

Quit(u) ==
  /\ ServerStep
  /\ u \in Present
  /\ server' = [server EXCEPT !.members = [r \in Rooms |-> @[r] \ {u}]]
  /\ TellIf(Shared(u), [kind |-> "QUIT", who |-> u])
  /\ UNCHANGED client

Rename(u, v) ==
  /\ ServerStep
  /\ Shared(u)
  /\ v \notin Present
  /\ server' = [server EXCEPT !.members =
                  [r \in Rooms |-> Renamed(@[r], u, v)]]
  /\ Tell(<<[kind |-> "NICK", who |-> u, new |-> v]>>)
  /\ UNCHANGED client

Speak(r) ==
  /\ ServerStep
  /\ In(r)
  /\ Tell(<<[kind |-> "SAY", room |-> r]>>)
  /\ UNCHANGED <<client, server>>

Opers(r) ==
  /\ ServerStep
  /\ In(r)
  /\ LET on == r \notin server.oper
     IN  /\ server' = [server EXCEPT !.oper = IF on THEN @ \cup {r} ELSE @ \ {r}]
         /\ Tell(<<[kind |-> "MODE", room |-> r, oped |-> on]>>)
  /\ UNCHANGED client

Expel(r) ==
  /\ ServerStep
  /\ In(r)
  /\ server' = [members |-> [server.members EXCEPT ![r] = @ \ {Me}],
                oper    |-> server.oper \ {r}]
  /\ Tell(<<[kind |-> "KICK", room |-> r, who |-> Me]>>)
  /\ UNCHANGED client

(* Our own lines: a JOIN may be refused, and an empty room gives us the +o. *)
Takes(cmd) ==
  /\ ServerStep
  /\ client.out # <<>>
  /\ Head(client.out).cmd = cmd
  /\ client' = [client EXCEPT !.out = Tail(@)]

Admit ==
  /\ Takes("JOIN")
  /\ LET r    == Head(client.out).room
         all  == server.members[r] \cup {Me}
         oper == server.members[r] = {}
     IN  IF In(r) THEN UNCHANGED <<server, down>>
         ELSE /\ server' = [members |-> [server.members EXCEPT ![r] = all],
                            oper    |-> IF oper THEN server.oper \cup {r} ELSE server.oper]
              /\ Tell(<<[kind |-> "JOIN", room |-> r, who |-> Me],
                        [kind |-> "NAMES", room |-> r, members |-> all, oped |-> oper],
                        [kind |-> "END", room |-> r]>>)

Refuse == Takes("JOIN") /\ UNCHANGED <<server, down>>

Dismiss ==
  /\ Takes("PART")
  /\ LET r == Head(client.out).room
     IN  IF ~In(r) THEN UNCHANGED <<server, down>>
         ELSE /\ server' = [members |-> [server.members EXCEPT ![r] = @ \ {Me}],
                            oper    |-> server.oper \ {r}]
              /\ Tell(<<[kind |-> "PART", room |-> r, who |-> Me]>>)

Server ==
  \/ \E u \in Users, r \in Rooms : Enter(u, r) \/ Leave(u, r)
  \/ \E u \in Users : Quit(u)
  \/ \E u, v \in Users : Rename(u, v)
  \/ \E r \in Rooms : Speak(r) \/ Opers(r) \/ Expel(r)
  \/ Admit \/ Refuse \/ Dismiss

-----------------------------------------------------------------------------
User == \E r \in Rooms : Join(r) \/ Close(r)

Next == Line \/ User \/ SignOn \/ SignOff \/ Server

Spec == Init /\ [][Next]_vars

-----------------------------------------------------------------------------
(* Properties. *)

TypeOK ==
  /\ up \in BOOLEAN
  /\ client \in Client
  /\ server \in [members : [Rooms -> SUBSET Nicks], oper : SUBSET Rooms]
  /\ down \in Seq(Lines)

(* The driver's assertion that a room it is told we have left is known holds,
   whatever was closed, joined or lost meanwhile (irc_disc_rem). *)
NoFault == ~client.fault

(* None of the scripts' assertions about rooms and members fails, and their
   groups are the wrapper's rooms, between any two lines (default.lua). *)
ScriptsAgree ==
  /\ ~client.complaint
  /\ \A r \in Rooms : /\ client.groups[r].known = client.rooms[r].known
                      /\ client.groups[r].members = client.rooms[r].members

(* When all lines have been read the wrapper has the rooms that the server has us
   in, with the same members, and knows whether we are operator. *)
ReadAgrees ==
  up /\ down = <<>> =>
    \A r \in Rooms :
      client.rooms[r] = IF In(r)
                        THEN [known |-> TRUE, members |-> server.members[r],
                              admin |-> r \in server.oper]
                        ELSE NoRoom

(* When nothing is under way the windows shown as joined are those of the rooms
   we are in: none is missing, and none shows a room that was lost. *)
QuietWindows ==
  up /\ down = <<>> /\ client.out = <<>> =>
    \A r \in Rooms : client.windows[r].state = "online" <=> In(r)

Visible(c) == UNION {c.rooms[r].members : r \in Rooms}

(* Whoever is in a room with us is online: leaving one room is not going, and
   joining is seen by the room's names as well as by the JOIN. *)
VisibleIsOnline == Visible(client) \cap Users \subseteq client.online

(* And nobody else: whoever is out of our sight, by leaving, by a QUIT or by our
   own leaving, does not stay online. *)
OnlineIsVisible == client.online \subseteq Visible(client)

(* No assertion about rooms fails, in the driver or in the scripts, however lines and
   wishes cross (NoFault, ScriptsAgree). *)
RoomAssertionsHold == NoFault /\ ScriptsAgree

(* Wrapper, windows and buddy list end up with what the server has: no room is lost or
   kept, and nobody stays online whom we no longer see (ReadAgrees, QuietWindows,
   OnlineIsVisible). *)
RoomsEndUpRight == ReadAgrees /\ QuietWindows /\ OnlineIsVisible
=============================================================================

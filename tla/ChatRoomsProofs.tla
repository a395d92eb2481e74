-------------------------- MODULE ChatRoomsProofs --------------------------
(***************************************************************************)
(* Theorems about ChatRooms, for every value of its constants: any rooms,  *)
(* any users, any number of lines under way.                               *)
(*                                                                         *)
(* The operators take the record of this side to another, so each has a    *)
(* lemma for its type and one for what it keeps of who is online; the      *)
(* lemmas follow the layers, from the client's windows to the driver.      *)
(***************************************************************************)
EXTENDS ChatRooms, FiniteSetTheorems, TLAPS

-----------------------------------------------------------------------------
(* The operators keep the type of the record. *)

Sent == [cmd : {"JOIN", "PART"}, room : Rooms]

(* One field is changed. *)
LEMMA FieldTypes ==
  ASSUME NEW c \in Client, NEW r \in Rooms
  PROVE  /\ \A s \in {"none", "offline", "online"} :
              [c EXCEPT !.windows[r].state = s] \in Client
         /\ \A on \in BOOLEAN : [c EXCEPT !.windows[r].isoper = on] \in Client
         /\ \A w \in Window : [c EXCEPT !.windows[r] = w] \in Client
         /\ \A x \in Room : [c EXCEPT !.rooms[r] = x] \in Client
         /\ \A on \in BOOLEAN : [c EXCEPT !.rooms[r].admin = on] \in Client
         /\ \A g \in Group : [c EXCEPT !.groups[r] = g] \in Client
         /\ \A who \in SUBSET Nicks : [c EXCEPT !.rooms[r].members = @ \cup who] \in Client
         /\ [c EXCEPT !.complaint = TRUE] \in Client
         /\ [c EXCEPT !.fault = TRUE] \in Client
<1>1. ASSUME NEW s \in {"none", "offline", "online"}
      PROVE  [c EXCEPT !.windows[r].state = s] \in Client
  BY DEF Client, Window
<1>2. ASSUME NEW on \in BOOLEAN PROVE [c EXCEPT !.windows[r].isoper = on] \in Client
  BY DEF Client, Window
<1>3. ASSUME NEW w \in Window PROVE [c EXCEPT !.windows[r] = w] \in Client
  BY DEF Client
<1>4. ASSUME NEW x \in Room PROVE [c EXCEPT !.rooms[r] = x] \in Client
  BY DEF Client
<1>5. ASSUME NEW on \in BOOLEAN PROVE [c EXCEPT !.rooms[r].admin = on] \in Client
  BY DEF Client, Room
<1>6. ASSUME NEW g \in Group PROVE [c EXCEPT !.groups[r] = g] \in Client
  BY DEF Client
<1>7. ASSUME NEW who \in SUBSET Nicks
      PROVE  [c EXCEPT !.rooms[r].members = @ \cup who] \in Client
  BY DEF Client, Room
<1>8. [c EXCEPT !.complaint = TRUE] \in Client /\ [c EXCEPT !.fault = TRUE] \in Client
  BY DEF Client
<1> QED
  BY <1>1, <1>2, <1>3, <1>4, <1>5, <1>6, <1>7, <1>8

LEMMA SendType ==
  ASSUME NEW c \in Client, NEW r \in Rooms, NEW cmd \in {"JOIN", "PART"}
  PROVE  Send(c, cmd, r) \in Client
<1>1. c.out \in Seq(Sent) /\ [cmd |-> cmd, room |-> r] \in Sent
  BY DEF Client, Sent
<1>2. Append(c.out, [cmd |-> cmd, room |-> r]) \in Seq(Sent)
  BY <1>1
<1> QED
  BY <1>2 DEF Send, Client, Sent

LEMMA WindowTypes ==
  ASSUME NEW c \in Client, NEW r \in Rooms, NEW on \in BOOLEAN
  PROVE  /\ Cgetwin(c, r) \in Client
         /\ Synched(c, r) \in Client
         /\ Oped(c, r, on) \in Client
         /\ Left(c, r) \in Client
         /\ Kicked(c, r) \in Client
<1>1. Cgetwin(c, r) \in Client
  BY FieldTypes DEF Cgetwin
<1>2. Synched(c, r) \in Client
  BY <1>1, FieldTypes DEF Synched
<1>3. Oped(c, r, on) \in Client
  BY <1>1, FieldTypes DEF Oped
<1>4. Left(c, r) \in Client
  <2>1. [c EXCEPT !.windows[r].state = "offline"] \in Client
    BY FieldTypes
  <2> QED
    BY <2>1, SendType DEF Left
<1>5. Kicked(c, r) \in Client
  <2>1. [state |-> "offline", isoper |-> FALSE] \in Window
    BY DEF Window
  <2>2. [Cgetwin(c, r) EXCEPT !.windows[r] = [state |-> "offline", isoper |-> FALSE]]
          \in Client
    BY <1>1, <2>1, FieldTypes
  <2> QED
    BY <2>2, SendType DEF Kicked
<1> QED
  BY <1>1, <1>2, <1>3, <1>4, <1>5

LEMMA ScriptTypes ==
  ASSUME NEW c \in Client, NEW r \in Rooms, NEW who \in SUBSET Nicks, NEW on
  PROVE  /\ ScriptJoined(c, r) \in Client
         /\ ScriptSynched(c, r) \in Client
         /\ ScriptLeft(c, r) \in Client
         /\ ScriptUserJoined(c, r, who) \in Client
         /\ ScriptOped(c, r, on) \in Client
<1>1. ASSUME NEW holds, NEW group \in Group
      PROVE  Scripted(c, r, holds, group) \in Client
  BY FieldTypes DEF Scripted
<1>2. c.groups[r] \in Group /\ NoGroup \in Group
  BY DEF Client, Group, NoGroup
<1>3. /\ [NoGroup EXCEPT !.known = TRUE] \in Group
      /\ [c.groups[r] EXCEPT !.synched = TRUE] \in Group
      /\ [c.groups[r] EXCEPT !.members = @ \cup who] \in Group
  BY <1>2 DEF Group
<1> QED
  BY <1>1, <1>2, <1>3
     DEF ScriptJoined, ScriptSynched, ScriptLeft, ScriptUserJoined, ScriptOped

LEMMA CallbackTypes ==
  ASSUME NEW c \in Client, NEW r \in Rooms, NEW who \in SUBSET Nicks, NEW on \in BOOLEAN
  PROVE  /\ ChatJoined(c, r) \in Client
         /\ ChatLeft(c, r) \in Client
         /\ ChatKicked(c, r) \in Client
         /\ UserJoined(c, r, who) \in Client
         /\ ChatSynched(c, r) \in Client
         /\ ChatOped(c, r, on) \in Client
<1>1. NoRoom \in Room /\ [NoRoom EXCEPT !.known = TRUE] \in Room
  BY DEF NoRoom, Room
<1>2. [c EXCEPT !.rooms[r] = NoRoom] \in Client
  BY <1>1, FieldTypes
<1>3. ChatJoined(c, r) \in Client
  <2>1. [c EXCEPT !.rooms[r] = [NoRoom EXCEPT !.known = TRUE]] \in Client
    BY <1>1, FieldTypes
  <2>2. Cgetwin([c EXCEPT !.rooms[r] = [NoRoom EXCEPT !.known = TRUE]], r) \in Client
    BY <2>1, WindowTypes
  <2> QED
    BY <2>2, ScriptTypes DEF ChatJoined
<1>4. ChatLeft(c, r) \in Client
  <2>1. Left([c EXCEPT !.rooms[r] = NoRoom], r) \in Client
    BY <1>2, WindowTypes
  <2> QED
    BY <2>1, ScriptTypes DEF ChatLeft
<1>5. ChatKicked(c, r) \in Client
  <2>1. Kicked([c EXCEPT !.rooms[r] = NoRoom], r) \in Client
    BY <1>2, WindowTypes
  <2> QED
    BY <2>1, ScriptTypes DEF ChatKicked
<1>6. UserJoined(c, r, who) \in Client
  <2>1. [c EXCEPT !.rooms[r].members = @ \cup who] \in Client
    BY FieldTypes
  <2> QED
    BY <2>1, ScriptTypes DEF UserJoined
<1>7. ChatSynched(c, r) \in Client
  <2>1. Synched(c, r) \in Client
    BY WindowTypes
  <2> QED
    BY <2>1, ScriptTypes DEF ChatSynched
<1>8. ChatOped(c, r, on) \in Client
  <2>1. [c EXCEPT !.rooms[r].admin = on] \in Client
    BY FieldTypes
  <2>2. Oped([c EXCEPT !.rooms[r].admin = on], r, on) \in Client
    BY <2>1, WindowTypes
  <2> QED
    BY <2>2, ScriptTypes DEF ChatOped
<1> QED
  BY <1>3, <1>4, <1>5, <1>6, <1>7, <1>8

(* The members of all rooms and groups, and who is online, are changed at once. *)
LEMMA SweepTypes ==
  ASSUME NEW c \in Client, NEW xs \in [Rooms -> Room], NEW gs \in [Rooms -> Group],
         NEW who \in SUBSET Users, NEW failed \in BOOLEAN
  PROVE  /\ [c EXCEPT !.rooms = xs, !.groups = gs, !.complaint = failed] \in Client
         /\ [c EXCEPT !.online = who, !.rooms = xs, !.groups = gs, !.complaint = failed]
              \in Client
         /\ [c EXCEPT !.online = who] \in Client
BY DEF Client

LEMMA RenamedTypes ==
  ASSUME NEW c \in Client, NEW r \in Rooms, NEW old, NEW new \in Users
  PROVE  /\ c.rooms[r] \in Room /\ c.groups[r] \in Group
         /\ WithRenamed(c.rooms[r], old, new) \in Room
         /\ WithRenamed(c.groups[r], old, new) \in Group
<1>1. c.rooms[r] \in Room /\ c.groups[r] \in Group
  BY DEF Client
<1>2. ASSUME NEW t \in SUBSET Nicks PROVE Renamed(t, old, new) \in SUBSET Nicks
  BY DEF Renamed, Nicks
<1>3. c.rooms[r].members \in SUBSET Nicks /\ c.groups[r].members \in SUBSET Nicks
  BY <1>1 DEF Room, Group
<1>4. /\ Renamed(c.rooms[r].members, old, new) \in SUBSET Nicks
      /\ Renamed(c.groups[r].members, old, new) \in SUBSET Nicks
  BY <1>2, <1>3
<1>5. WithRenamed(c.rooms[r], old, new) \in Room
  BY <1>1, <1>4 DEF WithRenamed, Room
<1>6. WithRenamed(c.groups[r], old, new) \in Group
  BY <1>1, <1>4 DEF WithRenamed, Group
<1> QED
  BY <1>1, <1>5, <1>6

LEMMA UserLeftType ==
  ASSUME NEW c \in Client, NEW rooms \in SUBSET Rooms, NEW n
  PROVE  UserLeft(c, rooms, n) \in Client
<1> DEFINE known == {r \in rooms : c.rooms[r].known}
<1> DEFINE fits  == {r \in known : c.groups[r].known /\ n \in c.groups[r].members}
<1> DEFINE xs == [r \in Rooms |-> IF r \in known THEN Without(c.rooms[r], n) ELSE c.rooms[r]]
<1> DEFINE gs == [r \in Rooms |-> IF r \in fits THEN Without(c.groups[r], n) ELSE c.groups[r]]
<1>1. ASSUME NEW r \in Rooms
      PROVE  /\ c.rooms[r] \in Room /\ c.groups[r] \in Group
             /\ Without(c.rooms[r], n) \in Room /\ Without(c.groups[r], n) \in Group
  <2>1. c.rooms[r] \in Room /\ c.groups[r] \in Group
    BY DEF Client
  <2> QED
    BY <2>1 DEF Without, Room, Group
<1>2. xs \in [Rooms -> Room] /\ gs \in [Rooms -> Group]
  BY <1>1
<1>3. (c.complaint \/ fits # known) \in BOOLEAN
  OBVIOUS
<1> HIDE DEF known, fits, xs, gs
<1>4. [c EXCEPT !.rooms = xs, !.groups = gs, !.complaint = c.complaint \/ fits # known]
        \in Client
  BY <1>2, <1>3, SweepTypes, Zenon
<1> USE DEF known, fits, xs, gs
<1> QED
  BY <1>4, Zenon DEF UserLeft

LEMMA NickchangedType ==
  ASSUME NEW c \in Client, NEW old \in Users, NEW new \in Users
  PROVE  UserNickchanged(c, old, new) \in Client
<1> DEFINE changed == {r \in Rooms : old \in c.rooms[r].members}
<1> DEFINE fits == {r \in changed : c.groups[r].known /\ new \notin c.groups[r].members}
<1> DEFINE xs == [r \in Rooms |-> WithRenamed(c.rooms[r], old, new)]
<1> DEFINE gs == [r \in Rooms |-> IF r \in fits THEN WithRenamed(c.groups[r], old, new)
                                               ELSE c.groups[r]]
<1>1. xs \in [Rooms -> Room] /\ gs \in [Rooms -> Group]
  BY RenamedTypes
<1>2. Renamed(c.online, old, new) \in SUBSET Users
  BY DEF Renamed, Client
<1>3. (c.complaint \/ fits # changed) \in BOOLEAN
  OBVIOUS
<1> HIDE DEF changed, fits, xs, gs
<1>4. [c EXCEPT !.online = Renamed(c.online, old, new), !.rooms = xs, !.groups = gs,
                !.complaint = c.complaint \/ fits # changed] \in Client
  BY <1>1, <1>2, <1>3, SweepTypes
<1> USE DEF changed, fits, xs, gs
<1> QED
  BY <1>4, Zenon DEF UserNickchanged

LEMMA DriverTypes ==
  ASSUME NEW c \in Client, NEW r \in Rooms, NEW who
  PROVE  /\ Comes(c, who) \in Client
         /\ Goes(c, who) \in Client
         /\ DiscUserRem(c, r, who) \in Client
         /\ DiscRem(c, r) \in Client
<1>1. c.online \in SUBSET Users
  BY DEF Client
<1>2. Comes(c, who) \in Client
  <2>1. c.online \cup (who \cap Users) \in SUBSET Users
    BY <1>1
  <2> QED
    BY <2>1 DEF Comes, Client
<1>3. ASSUME NEW gone PROVE Goes(c, gone) \in Client
  <2>1. c.online \ gone \in SUBSET Users
    BY <1>1
  <2> QED
    BY <2>1 DEF Goes, Client
<1>4. ASSUME NEW gone PROVE DiscUserRem(c, r, gone) \in Client
  BY <1>3 DEF DiscUserRem
<1>5. DiscRem(c, r) \in Client
  BY <1>4, FieldTypes DEF DiscRem
<1> QED
  BY <1>2, <1>3, <1>4, <1>5

-----------------------------------------------------------------------------
(* Lines, and the steps of the specification. *)

LEMMA LineFields ==
  ASSUME NEW m \in Lines
  PROVE  /\ m.kind \in {"JOIN", "PART", "KICK"} => m.room \in Rooms /\ m.who \in Nicks
         /\ m.kind = "NAMES" => /\ m.room \in Rooms
                                /\ m.members \in SUBSET Nicks
                                /\ m.oped \in BOOLEAN
         /\ m.kind \in {"END", "SAY"} => m.room \in Rooms
         /\ m.kind = "MODE" => m.room \in Rooms /\ m.oped \in BOOLEAN
         /\ m.kind = "QUIT" => m.who \in Users
         /\ m.kind = "NICK" => m.who \in Users /\ m.new \in Users
BY DEF Lines

LEMMA ReadTypes ==
  ASSUME TypeOK, NEW kind, Read(kind)
  PROVE  /\ Head(down) \in Lines /\ Head(down).kind = kind
         /\ up' \in BOOLEAN
         /\ server' \in [members : [Rooms -> SUBSET Nicks], oper : SUBSET Rooms]
         /\ down' \in Seq(Lines)
BY DEF TypeOK, Read

LEMMA LineTypes == TypeOK /\ Line => client' \in Client
<1> SUFFICES ASSUME TypeOK, Line PROVE client' \in Client
  OBVIOUS
<1> DEFINE m == Head(down)
<1>0. client \in Client
  BY DEF TypeOK
<1>1. CASE JoinLine
  <2>1. m \in Lines /\ m.kind = "JOIN"
    BY <1>1, ReadTypes DEF JoinLine
  <2>2. m.room \in Rooms /\ m.who \in Nicks
    BY <2>1, LineFields
  <2>3. Comes(client, {m.who}) \in Client /\ {m.who} \in SUBSET Nicks
    BY <1>0, <2>2, DriverTypes
  <2>4. /\ ChatJoined(Comes(client, {m.who}), m.room) \in Client
        /\ UserJoined(Comes(client, {m.who}), m.room, {m.who}) \in Client
    BY <2>2, <2>3, CallbackTypes
  <2> QED
    BY <1>1, <2>4 DEF JoinLine
<1>2. CASE NamesLine
  <2>1. m \in Lines /\ m.kind = "NAMES"
    BY <1>2, ReadTypes DEF NamesLine
  <2>2. m.room \in Rooms /\ m.members \in SUBSET Nicks /\ TRUE \in BOOLEAN
    BY <2>1, LineFields
  <2>3. UserJoined(client, m.room, m.members) \in Client
    BY <1>0, <2>2, CallbackTypes
  <2>4. Comes(UserJoined(client, m.room, m.members), m.members) \in Client
    BY <2>2, <2>3, DriverTypes
  <2>5. ChatOped(Comes(UserJoined(client, m.room, m.members), m.members), m.room, TRUE)
          \in Client
    BY <2>2, <2>4, CallbackTypes
  <2> QED
    BY <1>2, <2>4, <2>5 DEF NamesLine
<1>3. CASE EndLine
  <2>1. m \in Lines /\ m.kind = "END"
    BY <1>3, ReadTypes DEF EndLine
  <2>2. m.room \in Rooms
    BY <2>1, LineFields
  <2> QED
    BY <1>0, <1>3, <2>2, CallbackTypes DEF EndLine
<1>4. CASE PartLine
  <2>1. m \in Lines /\ m.kind = "PART"
    BY <1>4, ReadTypes DEF PartLine
  <2>2. m.room \in Rooms /\ {m.room} \in SUBSET Rooms
    BY <2>1, LineFields
  <2>3. DiscRem(client, m.room) \in Client /\ DiscUserRem(client, m.room, {m.who}) \in Client
    BY <1>0, <2>2, DriverTypes
  <2>4. ChatLeft(DiscRem(client, m.room), m.room) \in Client
    BY <2>2, <2>3, CallbackTypes
  <2>5. UserLeft(DiscUserRem(client, m.room, {m.who}), {m.room}, m.who) \in Client
    BY <2>2, <2>3, UserLeftType
  <2> QED
    BY <1>4, <2>4, <2>5 DEF PartLine
<1>5. CASE KickLine
  <2>1. m \in Lines /\ m.kind = "KICK"
    BY <1>5, ReadTypes DEF KickLine
  <2>2. m.room \in Rooms /\ {m.room} \in SUBSET Rooms
    BY <2>1, LineFields
  <2>3. DiscRem(client, m.room) \in Client /\ DiscUserRem(client, m.room, {m.who}) \in Client
    BY <1>0, <2>2, DriverTypes
  <2>4. ChatKicked(DiscRem(client, m.room), m.room) \in Client
    BY <2>2, <2>3, CallbackTypes
  <2>5. UserLeft(DiscUserRem(client, m.room, {m.who}), {m.room}, m.who) \in Client
    BY <2>2, <2>3, UserLeftType
  <2> QED
    BY <1>5, <2>4, <2>5 DEF KickLine
<1>6. CASE QuitLine
  <2> DEFINE c == Goes(client, {m.who})
             rooms == {r \in Rooms : m.who \in c.rooms[r].members}
  <2>1. c \in Client /\ rooms \in SUBSET Rooms
    <3>1. client.online \ {m.who} \in SUBSET Users
      BY <1>0 DEF Client
    <3> QED
      BY <1>0, <3>1 DEF Goes, Client
  <2>2. UserLeft(c, rooms, m.who) \in Client
    BY <2>1, UserLeftType
  <2> QED
    BY <1>6, <2>2 DEF QuitLine, UserQuit
<1>7. CASE NickLine
  <2>1. m \in Lines /\ m.kind = "NICK"
    BY <1>7, ReadTypes DEF NickLine
  <2>2. m.who \in Users /\ m.new \in Users
    BY <2>1, LineFields
  <2> QED
    BY <1>0, <1>7, <2>2, NickchangedType DEF NickLine
<1>8. CASE SayLine
  <2>1. m \in Lines /\ m.kind = "SAY"
    BY <1>8, ReadTypes DEF SayLine
  <2>2. m.room \in Rooms /\ TRUE \in BOOLEAN
    BY <2>1, LineFields
  <2> QED
    BY <1>0, <1>8, <2>2, WindowTypes DEF SayLine
<1>9. CASE ModeLine
  <2>1. m \in Lines /\ m.kind = "MODE"
    BY <1>9, ReadTypes DEF ModeLine
  <2>2. m.room \in Rooms /\ m.oped \in BOOLEAN
    BY <2>1, LineFields
  <2> QED
    BY <1>0, <1>9, <2>2, CallbackTypes DEF ModeLine
<1> QED
  BY <1>1, <1>2, <1>3, <1>4, <1>5, <1>6, <1>7, <1>8, <1>9 DEF Line

ServerType == [members : [Rooms -> SUBSET Nicks], oper : SUBSET Rooms]

LEMMA UserTypes == TypeOK /\ User => client' \in Client
<1> SUFFICES ASSUME TypeOK, NEW r \in Rooms, Join(r) \/ Close(r)
             PROVE  client' \in Client
  BY DEF User
<1>0. client \in Client
  BY DEF TypeOK
<1>1. CASE Join(r)
  <2>1. Cgetwin(client, r) \in Client
    BY <1>0, WindowTypes
  <2> QED
    BY <1>1, <2>1, SendType DEF Join
<1>2. CASE Close(r)
  <2>1. NoWindow \in Window
    BY DEF NoWindow, Window
  <2>2. [client EXCEPT !.windows[r] = NoWindow] \in Client
    BY <1>0, <2>1, FieldTypes
  <2> QED
    BY <1>2, <2>2, SendType DEF Close
<1> QED
  BY <1>1, <1>2

LEMMA SignOnTypes == TypeOK /\ SignOn => client' \in Client
<1> SUFFICES ASSUME TypeOK, SignOn PROVE client' \in Client
  OBVIOUS
<1> DEFINE open == {r \in Rooms : client.windows[r].state # "none"}
<1> DEFINE n == Cardinality(open)
<1>1. n \in Nat
  <2>1. IsFiniteSet(open)
    BY RoomsAssumption, FS_Subset
  <2> QED
    BY <2>1, FS_CardinalityType
<1>2. PICK order \in [1..n -> open] :
        client' = [client EXCEPT !.out =
                     [i \in 1..n |-> [cmd |-> "JOIN", room |-> order[i]]]]
  BY DEF SignOn
<1>3. \A i \in 1..n : [cmd |-> "JOIN", room |-> order[i]] \in Sent
  BY DEF Sent
<1> HIDE DEF n
<1>4. [i \in 1..n |-> [cmd |-> "JOIN", room |-> order[i]]] \in Seq(Sent)
  BY <1>1, <1>3
<1> QED
  BY <1>2, <1>4 DEF TypeOK, Client, Sent

LEMMA SignOffTypes ==
  TypeOK /\ SignOff => client' \in Client /\ server' \in ServerType /\ down' \in Seq(Lines)
<1> SUFFICES ASSUME TypeOK, SignOff
             PROVE  client' \in Client /\ server' \in ServerType /\ down' \in Seq(Lines)
  OBVIOUS
<1> DEFINE ws == [r \in Rooms |->
                    [state  |-> IF client.windows[r].state = "none" THEN "none" ELSE "offline",
                     isoper |-> FALSE]]
<1>1. ws \in [Rooms -> Window]
  BY DEF Window
<1>2. [r \in Rooms |-> NoRoom] \in [Rooms -> Room]
  BY DEF NoRoom, Room
<1>3. [r \in Rooms |-> NoGroup] \in [Rooms -> Group]
  BY DEF NoGroup, Group
<1>4. <<>> \in Seq(Sent) /\ <<>> \in Seq(Lines)
  OBVIOUS
<1>5. client \in Client /\ server \in ServerType
  BY DEF TypeOK, ServerType
<1>6. client' = [client EXCEPT !.rooms = [r \in Rooms |-> NoRoom], !.online = {},
                               !.groups = [r \in Rooms |-> NoGroup], !.windows = ws,
                               !.out = <<>>]
  BY DEF SignOff
<1> HIDE DEF ws
<1>7. client' \in Client
  BY <1>1, <1>2, <1>3, <1>4, <1>5, <1>6 DEF Client, Sent
<1>8. server' \in ServerType
  BY <1>5 DEF SignOff, ServerType
<1> QED
  BY <1>4, <1>7, <1>8 DEF SignOff

(* What the server tells, a few lines at the end of those under way. *)
LEMMA TellTypes ==
  ASSUME TypeOK, NEW lines \in Seq(Lines), Tell(lines)
  PROVE  down' \in Seq(Lines)
BY DEF TypeOK, Tell

LEMMA TellIfTypes ==
  ASSUME TypeOK, NEW told, NEW line \in Lines, TellIf(told, line)
  PROVE  down' \in Seq(Lines)
<1>1. <<line>> \in Seq(Lines)
  OBVIOUS
<1> QED
  BY <1>1, TellTypes DEF TellIf, TypeOK

LEMMA ServerTypes ==
  TypeOK /\ Server => client' \in Client /\ server' \in ServerType /\ down' \in Seq(Lines)
<1> SUFFICES ASSUME TypeOK, Server
             PROVE  client' \in Client /\ server' \in ServerType /\ down' \in Seq(Lines)
  OBVIOUS
<1>0. client \in Client /\ server \in ServerType /\ down \in Seq(Lines)
  BY DEF TypeOK, ServerType
<1>1. ASSUME NEW u \in Users, NEW r \in Rooms, Enter(u, r)
      PROVE  client' \in Client /\ server' \in ServerType /\ down' \in Seq(Lines)
  <2>1. [kind |-> "JOIN", room |-> r, who |-> u] \in Lines
    BY DEF Lines, Nicks
  <2>2. down' \in Seq(Lines)
    BY <1>1, <2>1, TellIfTypes DEF Enter
  <2>3. server' \in ServerType
    BY <1>0, <1>1 DEF Enter, ServerType, Nicks
  <2> QED
    BY <1>0, <1>1, <2>2, <2>3 DEF Enter
<1>2. ASSUME NEW u \in Users, NEW r \in Rooms, Leave(u, r)
      PROVE  client' \in Client /\ server' \in ServerType /\ down' \in Seq(Lines)
  <2>1. /\ [kind |-> "PART", room |-> r, who |-> u] \in Lines
        /\ [kind |-> "KICK", room |-> r, who |-> u] \in Lines
    BY DEF Lines, Nicks
  <2>2. <<[kind |-> "KICK", room |-> r, who |-> u]>> \in Seq(Lines)
    BY <2>1
  <2>3. down' \in Seq(Lines)
    BY <1>2, <2>1, <2>2, TellTypes, TellIfTypes DEF Leave
  <2>4. server' \in ServerType
    BY <1>0, <1>2 DEF Leave, ServerType
  <2> QED
    BY <1>0, <1>2, <2>3, <2>4 DEF Leave
<1>3. ASSUME NEW u \in Users, Quit(u)
      PROVE  client' \in Client /\ server' \in ServerType /\ down' \in Seq(Lines)
  <2>1. [kind |-> "QUIT", who |-> u] \in Lines
    BY DEF Lines
  <2>2. down' \in Seq(Lines)
    BY <1>3, <2>1, TellIfTypes DEF Quit
  <2>3. server' \in ServerType
    BY <1>0, <1>3 DEF Quit, ServerType
  <2> QED
    BY <1>0, <1>3, <2>2, <2>3 DEF Quit
<1>4. ASSUME NEW u \in Users, NEW v \in Users, Rename(u, v)
      PROVE  client' \in Client /\ server' \in ServerType /\ down' \in Seq(Lines)
  <2>1. <<[kind |-> "NICK", who |-> u, new |-> v]>> \in Seq(Lines)
    BY DEF Lines
  <2>2. down' \in Seq(Lines)
    BY <1>4, <2>1, TellTypes DEF Rename
  <2>3. server' \in ServerType
    BY <1>0, <1>4 DEF Rename, Renamed, ServerType, Nicks
  <2> QED
    BY <1>0, <1>4, <2>2, <2>3 DEF Rename
<1>5. ASSUME NEW r \in Rooms, Speak(r) \/ Opers(r) \/ Expel(r)
      PROVE  client' \in Client /\ server' \in ServerType /\ down' \in Seq(Lines)
  <2>1. ASSUME NEW on \in BOOLEAN
        PROVE  /\ <<[kind |-> "SAY", room |-> r]>> \in Seq(Lines)
               /\ <<[kind |-> "MODE", room |-> r, oped |-> on]>> \in Seq(Lines)
               /\ <<[kind |-> "KICK", room |-> r, who |-> Me]>> \in Seq(Lines)
    BY DEF Lines, Nicks
  <2>2. (r \notin server.oper) \in BOOLEAN /\ TRUE \in BOOLEAN
    OBVIOUS
  <2>3. down' \in Seq(Lines)
    BY <1>5, <2>1, <2>2, TellTypes DEF Speak, Opers, Expel
  <2>4. server' \in ServerType
    BY <1>0, <1>5 DEF Speak, Opers, Expel, ServerType
  <2> QED
    BY <1>0, <1>5, <2>3, <2>4 DEF Speak, Opers, Expel
<1>6. ASSUME NEW cmd, Takes(cmd)
      PROVE  /\ client' \in Client
             /\ Head(client.out).room \in Rooms
  <2>1. client.out \in Seq(Sent) /\ client.out # <<>>
    BY <1>0, <1>6 DEF Client, Sent, Takes
  <2>2. Head(client.out) \in Sent /\ Tail(client.out) \in Seq(Sent)
    BY <2>1
  <2> QED
    BY <1>0, <1>6, <2>2 DEF Client, Sent, Takes
<1>7. CASE Admit
  <2> DEFINE r    == Head(client.out).room
             all  == server.members[r] \cup {Me}
             oper == server.members[r] = {}
             told == <<[kind |-> "JOIN", room |-> r, who |-> Me],
                       [kind |-> "NAMES", room |-> r, members |-> all, oped |-> oper],
                       [kind |-> "END", room |-> r]>>
  <2>1. client' \in Client /\ r \in Rooms
    BY <1>6, <1>7 DEF Admit
  <2>2. all \in SUBSET Nicks /\ oper \in BOOLEAN
    BY <1>0, <2>1 DEF ServerType, Nicks
  <2>3. told \in Seq(Lines)
    <3> HIDE DEF all, oper, r
    <3>1. /\ [kind |-> "JOIN", room |-> r, who |-> Me] \in Lines
          /\ [kind |-> "NAMES", room |-> r, members |-> all, oped |-> oper] \in Lines
          /\ [kind |-> "END", room |-> r] \in Lines
      BY <2>1, <2>2 DEF Lines, Nicks
    <3> QED
      BY <3>1
  <2>4. down' \in Seq(Lines)
    BY <1>0, <1>7, <2>3, TellTypes DEF Admit
  <2>5. server' \in ServerType
    BY <1>0, <1>7, <2>1, <2>2 DEF Admit, ServerType
  <2> QED
    BY <2>1, <2>4, <2>5
<1>8. CASE Refuse
  BY <1>0, <1>6, <1>8 DEF Refuse
<1>9. CASE Dismiss
  <2> DEFINE r == Head(client.out).room
  <2>1. client' \in Client /\ r \in Rooms
    BY <1>6, <1>9 DEF Dismiss
  <2>2. <<[kind |-> "PART", room |-> r, who |-> Me]>> \in Seq(Lines)
    BY <2>1 DEF Lines, Nicks
  <2>3. down' \in Seq(Lines)
    BY <1>0, <1>9, <2>2, TellTypes DEF Dismiss
  <2>4. server' \in ServerType
    BY <1>0, <1>9, <2>1 DEF Dismiss, ServerType
  <2> QED
    BY <2>1, <2>3, <2>4
<1> QED
  BY <1>1, <1>2, <1>3, <1>4, <1>5, <1>7, <1>8, <1>9 DEF Server

LEMMA TypeInit == Init => TypeOK
<1> SUFFICES ASSUME Init PROVE TypeOK
  OBVIOUS
<1>1. /\ [r \in Rooms |-> NoRoom] \in [Rooms -> Room]
      /\ [r \in Rooms |-> NoWindow] \in [Rooms -> Window]
      /\ [r \in Rooms |-> NoGroup] \in [Rooms -> Group]
  BY DEF NoRoom, Room, NoWindow, Window, NoGroup, Group
<1>2. client \in Client
  BY <1>1 DEF Init, Client
<1>3. server \in [members : [Rooms -> SUBSET Nicks], oper : SUBSET Rooms]
  BY DEF Init
<1>4. <<>> \in Seq(Lines)
  OBVIOUS
<1> QED
  BY <1>2, <1>3, <1>4 DEF Init, TypeOK

LEMMA TypeStep == TypeOK /\ [Next]_vars => TypeOK'
<1> SUFFICES ASSUME TypeOK, [Next]_vars PROVE TypeOK'
  OBVIOUS
<1>1. CASE Line
  <2>1. PICK kind : Read(kind)
    BY <1>1 DEF Line, JoinLine, NamesLine, EndLine, PartLine, KickLine, QuitLine, NickLine,
                SayLine, ModeLine
  <2> QED
    BY <1>1, <2>1, LineTypes, ReadTypes DEF TypeOK
<1>2. CASE User
  <2>1. client' \in Client
    BY <1>2, UserTypes
  <2>2. UNCHANGED <<up, server, down>>
    BY <1>2 DEF User, Join, Close
  <2> QED
    BY <2>1, <2>2 DEF TypeOK
<1>3. CASE SignOn
  <2>1. client' \in Client
    BY <1>3, SignOnTypes
  <2>2. up' = TRUE /\ UNCHANGED <<server, down>>
    BY <1>3 DEF SignOn
  <2> QED
    BY <2>1, <2>2 DEF TypeOK
<1>4. CASE SignOff
  <2>1. up' = FALSE
    BY <1>4 DEF SignOff
  <2> QED
    BY <1>4, <2>1, SignOffTypes DEF TypeOK, ServerType
<1>5. CASE Server
  <2>1. UNCHANGED up
    BY <1>5 DEF Server, Enter, Leave, Quit, Rename, Speak, Opers, Expel, Admit, Refuse,
                Dismiss, Takes, ServerStep
  <2> QED
    BY <1>5, <2>1, ServerTypes DEF TypeOK, ServerType
<1>6. CASE UNCHANGED vars
  BY <1>6 DEF vars, TypeOK
<1> QED
  BY <1>1, <1>2, <1>3, <1>4, <1>5, <1>6 DEF Next

(* Every record keeps its type, for every value of the constants. *)
THEOREM RoomsTypeCorrect == Spec => []TypeOK
<1>1. Init => TypeOK
  BY TypeInit
<1>2. TypeOK /\ [Next]_vars => TypeOK'
  BY TypeStep
<1> QED
  BY <1>1, <1>2, PTL DEF Spec

-----------------------------------------------------------------------------
(* Whoever is in sight is online: what each operator does to members and online. *)

Sound(c) ==
  \A r \in Rooms : /\ c.rooms[r].members \cap Users \subseteq c.online
                   /\ ~c.rooms[r].known => c.rooms[r].members = {}

Alike(c, d) == d.rooms = c.rooms /\ d.online = c.online

(* Of every room the members are fewer, or as many; unknown rooms have none. *)
Fewer(c, d) ==
  /\ d.online = c.online
  /\ \A r \in Rooms : /\ d.rooms[r].members \subseteq c.rooms[r].members
                      /\ ~d.rooms[r].known => \/ d.rooms[r].members = {}
                                              \/ ~c.rooms[r].known

LEMMA FewerSound ==
  ASSUME NEW c, NEW d, Sound(c), Fewer(c, d)
  PROVE  Sound(d)
BY DEF Sound, Fewer

LEMMA WindowsAlike ==
  ASSUME NEW c \in Client, NEW r \in Rooms, NEW on \in BOOLEAN
  PROVE  /\ Alike(c, Send(c, "JOIN", r))
         /\ Alike(c, Cgetwin(c, r))
         /\ Alike(c, Synched(c, r))
         /\ Alike(c, Oped(c, r, on))
         /\ Alike(c, Left(c, r))
         /\ Alike(c, Kicked(c, r))
<1>1. ASSUME NEW d \in Client PROVE Alike(d, Send(d, "JOIN", r))
  BY DEF Send, Alike, Client
<1>2. Cgetwin(c, r) \in Client /\ Alike(c, Cgetwin(c, r))
  <2>1. Cgetwin(c, r) \in Client
    BY WindowTypes
  <2>2. Alike(c, Cgetwin(c, r))
    BY DEF Cgetwin, Alike, Client
  <2> QED
    BY <2>1, <2>2
<1>3. Alike(c, Synched(c, r))
  BY <1>2 DEF Synched, Alike, Client
<1>4. Alike(c, Oped(c, r, on))
  BY <1>2 DEF Oped, Alike, Client
<1>5. Alike(c, Left(c, r))
  <2>1. /\ [c EXCEPT !.windows[r].state = "offline"] \in Client
        /\ Alike(c, [c EXCEPT !.windows[r].state = "offline"])
    BY FieldTypes DEF Alike, Client
  <2> QED
    BY <1>1, <2>1 DEF Left, Alike
<1>6. Alike(c, Kicked(c, r))
  <2> DEFINE d == [Cgetwin(c, r) EXCEPT
                     !.windows[r] = [state |-> "offline", isoper |-> FALSE]]
  <2>1. [state |-> "offline", isoper |-> FALSE] \in Window
    BY DEF Window
  <2>2. d \in Client
    BY <1>2, <2>1, FieldTypes
  <2>3. Alike(c, d)
    BY <1>2 DEF Alike, Client
  <2> QED
    BY <1>1, <2>2, <2>3 DEF Kicked, Alike
<1> QED
  BY <1>1, <1>2, <1>3, <1>4, <1>5, <1>6

LEMMA ScriptsAlike ==
  ASSUME NEW c \in Client, NEW r \in Rooms, NEW who, NEW on
  PROVE  /\ Alike(c, ScriptJoined(c, r))
         /\ Alike(c, ScriptSynched(c, r))
         /\ Alike(c, ScriptLeft(c, r))
         /\ Alike(c, ScriptUserJoined(c, r, who))
         /\ Alike(c, ScriptOped(c, r, on))
<1>1. ASSUME NEW holds, NEW group PROVE Alike(c, Scripted(c, r, holds, group))
  BY DEF Scripted, Alike, Client
<1> QED
  BY <1>1 DEF ScriptJoined, ScriptSynched, ScriptLeft, ScriptUserJoined, ScriptOped

(* A room that was known is not any more. *)
LEMMA RoomLeft ==
  ASSUME NEW c \in Client, NEW r \in Rooms, c.rooms[r].known
  PROVE  /\ [c EXCEPT !.rooms[r] = NoRoom] \in Client
         /\ Alike([c EXCEPT !.rooms[r] = NoRoom], ChatLeft(c, r))
         /\ Alike([c EXCEPT !.rooms[r] = NoRoom], ChatKicked(c, r))
<1> DEFINE d == [c EXCEPT !.rooms[r] = NoRoom]
<1>1. d \in Client
  <2>1. NoRoom \in Room
    BY DEF NoRoom, Room
  <2> QED
    BY <2>1, FieldTypes
<1> HIDE DEF d
<1>2. Left(d, r) \in Client /\ Alike(d, Left(d, r)) /\ Kicked(d, r) \in Client
        /\ Alike(d, Kicked(d, r))
  BY <1>1, WindowTypes, WindowsAlike
<1>3. Alike(d, ScriptLeft(Left(d, r), r)) /\ Alike(d, ScriptLeft(Kicked(d, r), r))
  BY <1>2, ScriptsAlike DEF Alike
<1>4. ChatLeft(c, r) = ScriptLeft(Left(d, r), r) /\ ChatKicked(c, r) = ScriptLeft(Kicked(d, r), r)
  BY DEF ChatLeft, ChatKicked, d
<1> QED
  BY <1>1, <1>3, <1>4 DEF d

LEMMA CallbacksFewer ==
  ASSUME NEW c \in Client, NEW r \in Rooms, NEW on \in BOOLEAN
  PROVE  /\ Fewer(c, ChatJoined(c, r))
         /\ Fewer(c, ChatLeft(c, r))
         /\ Fewer(c, ChatKicked(c, r))
         /\ Fewer(c, ChatSynched(c, r))
         /\ Fewer(c, ChatOped(c, r, on))
<1>1. NoRoom \in Room /\ [NoRoom EXCEPT !.known = TRUE] \in Room
  BY DEF NoRoom, Room
<1>2. Fewer(c, c)
  BY DEF Fewer
<1>3. ASSUME NEW d, Fewer(c, d), NEW e, Alike(d, e) PROVE Fewer(c, e)
  BY <1>3 DEF Fewer, Alike
<1>4. Fewer(c, ChatJoined(c, r))
  <2> DEFINE d == [c EXCEPT !.rooms[r] = [NoRoom EXCEPT !.known = TRUE]]
  <2>1. d \in Client
    BY <1>1, FieldTypes
  <2>2. Fewer(c, d)
    BY DEF Fewer, Client, NoRoom
  <2> HIDE DEF d
  <2>3. Cgetwin(d, r) \in Client /\ Alike(d, Cgetwin(d, r))
    BY <2>1, WindowTypes, WindowsAlike
  <2>4. Alike(d, ScriptJoined(Cgetwin(d, r), r))
    BY <2>3, ScriptsAlike DEF Alike
  <2>5. Fewer(c, ScriptJoined(Cgetwin(d, r), r))
    BY <1>3, <2>2, <2>4
  <2> QED
    BY <1>2, <2>5 DEF ChatJoined, d
<1>5. Fewer(c, [c EXCEPT !.rooms[r] = NoRoom])
  BY DEF Fewer, Client, NoRoom
<1>6. Fewer(c, ChatLeft(c, r))
  BY <1>2, <1>3, <1>5, RoomLeft DEF ChatLeft
<1>7. Fewer(c, ChatKicked(c, r))
  BY <1>2, <1>3, <1>5, RoomLeft DEF ChatKicked
<1>8. Fewer(c, ChatSynched(c, r))
  <2>1. Synched(c, r) \in Client /\ Alike(c, Synched(c, r))
    BY WindowTypes, WindowsAlike
  <2>2. Alike(c, ScriptSynched(Synched(c, r), r))
    BY <2>1, ScriptsAlike DEF Alike
  <2> QED
    BY <1>2, <1>3, <2>2 DEF ChatSynched
<1>9. Fewer(c, ChatOped(c, r, on))
  <2> DEFINE d == [c EXCEPT !.rooms[r].admin = on]
  <2>1. d \in Client
    BY FieldTypes
  <2>2. Fewer(c, d)
    BY DEF Fewer, Client, Room
  <2> HIDE DEF d
  <2>3. Oped(d, r, on) \in Client /\ Alike(d, Oped(d, r, on))
    BY <2>1, WindowTypes, WindowsAlike
  <2>4. Alike(d, ScriptOped(Oped(d, r, on), r, on))
    BY <2>3, ScriptsAlike DEF Alike
  <2>5. Fewer(c, ScriptOped(Oped(d, r, on), r, on))
    BY <1>3, <2>2, <2>4
  <2> QED
    BY <1>2, <2>5 DEF ChatOped, d
<1> QED
  BY <1>4, <1>6, <1>7, <1>8, <1>9

(* Names are added to a room that is known; that they are online is told apart. *)
LEMMA UserJoinedAdds ==
  ASSUME NEW c \in Client, NEW r \in Rooms, NEW who \in SUBSET Nicks, Sound(c)
  PROVE  LET d == UserJoined(c, r, who)
         IN  /\ d.online = c.online
             /\ \A q \in Rooms : /\ d.rooms[q].members \subseteq c.rooms[q].members \cup who
                                 /\ ~d.rooms[q].known => d.rooms[q].members = {}
<1> DEFINE d == [c EXCEPT !.rooms[r].members = @ \cup who]
<1>1. CASE ~c.rooms[r].known
  BY <1>1 DEF UserJoined, Sound
<1>2. CASE c.rooms[r].known
  <2>1. d \in Client
    BY FieldTypes
  <2>2. /\ d.online = c.online
        /\ \A q \in Rooms : /\ d.rooms[q].members \subseteq c.rooms[q].members \cup who
                            /\ ~d.rooms[q].known => d.rooms[q].members = {}
    BY <1>2 DEF Sound, Client, Room
  <2>3. Alike(d, ScriptUserJoined(d, r, who))
    BY <2>1, ScriptsAlike
  <2> HIDE DEF d
  <2>4. UserJoined(c, r, who) = ScriptUserJoined(d, r, who)
    BY <1>2 DEF UserJoined, d
  <2> QED
    BY <2>2, <2>3, <2>4 DEF Alike
<1> QED
  BY <1>1, <1>2

LEMMA NamesSound ==
  ASSUME NEW c \in Client, NEW r \in Rooms, NEW who \in SUBSET Nicks, Sound(c)
  PROVE  Sound(Comes(UserJoined(c, r, who), who))
<1> DEFINE d == UserJoined(c, r, who)
<1>1. d \in Client
  BY CallbackTypes
<1>2. /\ d.online = c.online
      /\ \A q \in Rooms : /\ d.rooms[q].members \subseteq c.rooms[q].members \cup who
                          /\ ~d.rooms[q].known => d.rooms[q].members = {}
  BY UserJoinedAdds
<1> HIDE DEF d
<1>3. Comes(d, who).rooms = d.rooms /\ Comes(d, who).online = d.online \cup (who \cap Users)
  BY <1>1 DEF Comes, Client
<1>4. Sound(Comes(d, who))
  BY <1>2, <1>3 DEF Sound
<1> QED
  BY <1>4 DEF d

LEMMA ComesSound ==
  ASSUME NEW c \in Client, NEW who, Sound(c)
  PROVE  /\ Sound(Comes(c, who))
         /\ who \cap Users \subseteq Comes(c, who).online
<1>1. Comes(c, who).rooms = c.rooms /\ Comes(c, who).online = c.online \cup (who \cap Users)
  BY DEF Comes, Client
<1> QED
  BY <1>1 DEF Sound

LEMMA UserJoinedSound ==
  ASSUME NEW c \in Client, NEW r \in Rooms, NEW who \in SUBSET Nicks, Sound(c),
         who \cap Users \subseteq c.online
  PROVE  Sound(UserJoined(c, r, who))
BY UserJoinedAdds DEF Sound

(* What a departure leaves of the rooms. *)
Took(c, d, rooms, n) ==
  /\ d.online = c.online
  /\ \A q \in Rooms :
       /\ d.rooms[q].known = c.rooms[q].known
       /\ d.rooms[q].members =
            IF q \in rooms THEN c.rooms[q].members \ {n} ELSE c.rooms[q].members

LEMMA UserLeftTakes ==
  ASSUME NEW c \in Client, NEW rooms \in SUBSET Rooms, NEW n,
         \A r \in Rooms : ~c.rooms[r].known => c.rooms[r].members = {}
  PROVE  Took(c, UserLeft(c, rooms, n), rooms, n)
<1> DEFINE d     == UserLeft(c, rooms, n)
           known == {r \in rooms : c.rooms[r].known}
<1>1. /\ d.online = c.online
      /\ d.rooms = [r \in Rooms |-> IF r \in known THEN Without(c.rooms[r], n)
                                                   ELSE c.rooms[r]]
  BY DEF UserLeft, Client
<1>2. ASSUME NEW q \in Rooms
      PROVE  /\ d.rooms[q].known = c.rooms[q].known
             /\ d.rooms[q].members =
                  IF q \in rooms THEN c.rooms[q].members \ {n} ELSE c.rooms[q].members
  <2> HIDE DEF d
  <2>1. c.rooms[q] \in Room
    BY DEF Client
  <2>2. /\ Without(c.rooms[q], n).known = c.rooms[q].known
        /\ Without(c.rooms[q], n).members = c.rooms[q].members \ {n}
    BY <2>1 DEF Without, Room
  <2>3. CASE q \in known
    BY <1>1, <2>2, <2>3
  <2>4. CASE q \notin known
    BY <1>1, <2>4
  <2> QED
    BY <2>3, <2>4
<1> HIDE DEF d
<1>3. Took(c, d, rooms, n)
  BY <1>1, <1>2 DEF Took
<1> QED
  BY <1>3 DEF d

(* Who leaves a room goes, unless seen in another. *)
LEMMA GoneSound ==
  ASSUME NEW c \in Client, NEW r \in Rooms, NEW n, Sound(c)
  PROVE  Sound(UserLeft(DiscUserRem(c, r, {n}), {r}, n))
<1> DEFINE e == DiscUserRem(c, r, {n})
           d == UserLeft(e, {r}, n)
<1>1. e \in Client
  BY DriverTypes
<1>2. e.rooms = c.rooms /\ e.online = c.online \ ({n} \ VisibleBut(c, r))
  BY DEF DiscUserRem, Goes, Client
<1>3. ASSUME NEW q \in Rooms, q # r, n \in c.rooms[q].members
      PROVE  n \in VisibleBut(c, r)
  BY <1>3 DEF VisibleBut
<1> HIDE DEF e
<1>4. {r} \in SUBSET Rooms /\ \A q \in Rooms : ~e.rooms[q].known => e.rooms[q].members = {}
  BY <1>2 DEF Sound
<1>5. Took(e, d, {r}, n)
  BY <1>1, <1>4, UserLeftTakes
<1> HIDE DEF d
<1>6. Sound(d)
  BY <1>2, <1>3, <1>5 DEF Sound, Took
<1> QED
  BY <1>6 DEF d, e

(* We leave a room: so do the members out of our sight then. *)
LEMMA OwnLeaveSound ==
  ASSUME NEW c \in Client, NEW r \in Rooms, Sound(c)
  PROVE  /\ Sound(ChatLeft(DiscRem(c, r), r))
         /\ Sound(ChatKicked(DiscRem(c, r), r))
<1> DEFINE e == DiscRem(c, r)
<1>1. e \in Client
  BY DriverTypes
<1>2. CASE ~c.rooms[r].known
  <2>1. Alike(c, e)
    BY <1>2 DEF DiscRem, Alike, Client
  <2> HIDE DEF e
  <2>2. ChatLeft(e, r) = e /\ ChatKicked(e, r) = e
    BY <1>2, <2>1 DEF ChatLeft, ChatKicked, Alike
  <2>3. Sound(e)
    BY <2>1 DEF Alike, Sound
  <2> QED
    BY <2>2, <2>3 DEF e
<1>3. CASE c.rooms[r].known
  <2> DEFINE d == [e EXCEPT !.rooms[r] = NoRoom]
  <2>1. e.rooms = c.rooms /\ e.online = c.online \ (c.rooms[r].members \ VisibleBut(c, r))
    BY <1>3 DEF DiscRem, DiscUserRem, Goes, Client
  <2> HIDE DEF e
  <2>2. d.online = e.online /\ d.rooms = [e.rooms EXCEPT ![r] = NoRoom]
    BY <1>1 DEF Client
  <2>3. Alike(d, ChatLeft(e, r)) /\ Alike(d, ChatKicked(e, r))
    BY <1>1, <1>3, <2>1, RoomLeft
  <2> HIDE DEF d
  <2>4. \A q \in Rooms \ {r} : c.rooms[q].members \subseteq VisibleBut(c, r)
    BY DEF VisibleBut
  <2>5. d.rooms[r].members = {}
    BY <1>1, <2>2 DEF NoRoom, Client
  <2>6. \A q \in Rooms \ {r} : d.rooms[q] = c.rooms[q]
    BY <1>1, <2>1, <2>2 DEF Client
  <2>7. Sound(d)
    BY <2>1, <2>2, <2>4, <2>5, <2>6 DEF Sound
  <2> QED
    BY <2>3, <2>7 DEF Alike, Sound, e
<1> QED
  BY <1>2, <1>3

LEMMA QuitSound ==
  ASSUME NEW c \in Client, NEW n, Sound(c)
  PROVE  Sound(UserQuit(Goes(c, {n}), n))
<1> DEFINE e == Goes(c, {n})
           rooms == {r \in Rooms : n \in e.rooms[r].members}
           d == UserLeft(e, rooms, n)
<1>1. e \in Client
  <2>1. c.online \ {n} \in SUBSET Users
    BY DEF Client
  <2> QED
    BY <2>1 DEF Goes, Client
<1>2. e.rooms = c.rooms /\ e.online = c.online \ {n}
  BY DEF Goes, Client
<1> HIDE DEF e
<1>3. rooms \in SUBSET Rooms /\ \A q \in Rooms : ~e.rooms[q].known => e.rooms[q].members = {}
  BY <1>2 DEF Sound
<1>4. Took(e, d, rooms, n)
  BY <1>1, <1>3, UserLeftTakes
<1> HIDE DEF d
<1>5. Sound(d)
  BY <1>2, <1>4 DEF Sound, Took
<1> QED
  BY <1>5 DEF UserQuit, d, e

LEMMA NickchangedSound ==
  ASSUME NEW c \in Client, NEW old \in Users, NEW new \in Users, Sound(c)
  PROVE  Sound(UserNickchanged(c, old, new))
<1> DEFINE d == UserNickchanged(c, old, new)
<1>1. /\ d.online = Renamed(c.online, old, new)
      /\ d.rooms = [r \in Rooms |-> WithRenamed(c.rooms[r], old, new)]
  BY DEF UserNickchanged, Client
<1>2. ASSUME NEW r \in Rooms
      PROVE  /\ WithRenamed(c.rooms[r], old, new).known = c.rooms[r].known
             /\ WithRenamed(c.rooms[r], old, new).members
                  = Renamed(c.rooms[r].members, old, new)
  <2>1. c.rooms[r] \in Room
    BY RenamedTypes
  <2> QED
    BY <2>1 DEF WithRenamed, Room
<1> HIDE DEF d
<1>3. Sound(d)
  BY <1>1, <1>2 DEF Sound, Renamed
<1> QED
  BY <1>3 DEF d

LEMMA LineSound == TypeOK /\ Sound(client) /\ Line => Sound(client')
<1> SUFFICES ASSUME TypeOK, Sound(client), Line PROVE Sound(client')
  OBVIOUS
<1> DEFINE m == Head(down)
<1>0. client \in Client
  BY DEF TypeOK
<1>1. CASE JoinLine
  <2> DEFINE c == Comes(client, {m.who})
  <2>1. m \in Lines /\ m.kind = "JOIN"
    BY <1>1, ReadTypes DEF JoinLine
  <2>2. m.room \in Rooms /\ m.who \in Nicks
    BY <2>1, LineFields
  <2>3. c \in Client /\ Sound(c) /\ {m.who} \cap Users \subseteq c.online
    BY <1>0, DriverTypes, ComesSound, <2>2
  <2>4. client' = ChatJoined(c, m.room) \/ client' = UserJoined(c, m.room, {m.who})
    BY <1>1 DEF JoinLine
  <2> HIDE DEF c, m
  <2>5. Sound(ChatJoined(c, m.room))
    BY <2>2, <2>3, CallbacksFewer, FewerSound
  <2>6. Sound(UserJoined(c, m.room, {m.who}))
    <3>1. {m.who} \in SUBSET Nicks
      BY <2>2
    <3> QED
      BY <2>2, <2>3, <3>1, UserJoinedSound
  <2> QED
    BY <2>4, <2>5, <2>6
<1>2. CASE NamesLine
  <2> DEFINE c == Comes(UserJoined(client, m.room, m.members), m.members)
  <2>1. m \in Lines /\ m.kind = "NAMES"
    BY <1>2, ReadTypes DEF NamesLine
  <2>2. m.room \in Rooms /\ m.members \in SUBSET Nicks
    BY <2>1, LineFields
  <2>3. c \in Client /\ Sound(c)
    BY <1>0, <2>2, CallbackTypes, DriverTypes, NamesSound
  <2>4. client' = ChatOped(c, m.room, TRUE) \/ client' = c
    BY <1>2 DEF NamesLine
  <2> HIDE DEF c, m
  <2>5. Sound(ChatOped(c, m.room, TRUE))
    BY <2>2, <2>3, CallbacksFewer, FewerSound
  <2> QED
    BY <2>3, <2>4, <2>5
<1>3. CASE EndLine
  <2>1. m \in Lines /\ m.kind = "END"
    BY <1>3, ReadTypes DEF EndLine
  <2>2. m.room \in Rooms
    BY <2>1, LineFields
  <2>3. Sound(ChatSynched(client, m.room))
    BY <1>0, <2>2, CallbacksFewer, FewerSound
  <2> QED
    BY <1>3, <2>3 DEF EndLine
<1>4. CASE PartLine
  <2>1. m \in Lines /\ m.kind = "PART"
    BY <1>4, ReadTypes DEF PartLine
  <2>2. m.room \in Rooms
    BY <2>1, LineFields
  <2> QED
    BY <1>0, <1>4, <2>2, OwnLeaveSound, GoneSound DEF PartLine
<1>5. CASE KickLine
  <2>1. m \in Lines /\ m.kind = "KICK"
    BY <1>5, ReadTypes DEF KickLine
  <2>2. m.room \in Rooms
    BY <2>1, LineFields
  <2> QED
    BY <1>0, <1>5, <2>2, OwnLeaveSound, GoneSound DEF KickLine
<1>6. CASE QuitLine
  BY <1>0, <1>6, QuitSound DEF QuitLine
<1>7. CASE NickLine
  <2>1. m \in Lines /\ m.kind = "NICK"
    BY <1>7, ReadTypes DEF NickLine
  <2>2. m.who \in Users /\ m.new \in Users
    BY <2>1, LineFields
  <2> QED
    BY <1>0, <1>7, <2>2, NickchangedSound DEF NickLine
<1>8. CASE SayLine
  <2>1. m \in Lines /\ m.kind = "SAY"
    BY <1>8, ReadTypes DEF SayLine
  <2>2. m.room \in Rooms
    BY <2>1, LineFields
  <2>3. Alike(client, Cgetwin(client, m.room))
    BY <1>0, <2>2, WindowsAlike
  <2> QED
    BY <1>8, <2>3 DEF SayLine, Alike, Sound
<1>9. CASE ModeLine
  <2>1. m \in Lines /\ m.kind = "MODE"
    BY <1>9, ReadTypes DEF ModeLine
  <2>2. m.room \in Rooms /\ m.oped \in BOOLEAN
    BY <2>1, LineFields
  <2>3. Sound(ChatOped(client, m.room, m.oped))
    BY <1>0, <2>2, CallbacksFewer, FewerSound
  <2> QED
    BY <1>9, <2>3 DEF ModeLine
<1> QED
  BY <1>1, <1>2, <1>3, <1>4, <1>5, <1>6, <1>7, <1>8, <1>9 DEF Line

LEMMA SoundStep == TypeOK /\ Sound(client) /\ [Next]_vars => Sound(client')
<1> SUFFICES ASSUME TypeOK, Sound(client), [Next]_vars PROVE Sound(client')
  OBVIOUS
<1>0. client \in Client
  BY DEF TypeOK
<1>1. ASSUME Alike(client, client') PROVE Sound(client')
  BY <1>1 DEF Alike, Sound
<1>2. CASE Line
  BY <1>2, LineSound
<1>3. CASE User
  <2>1. PICK r \in Rooms : Join(r) \/ Close(r)
    BY <1>3 DEF User
  <2>2. CASE Join(r)
    <3>1. /\ Cgetwin(client, r) \in Client
          /\ Alike(client, Cgetwin(client, r))
      BY <1>0, WindowTypes, WindowsAlike
    <3>2. Alike(Cgetwin(client, r), Send(Cgetwin(client, r), "JOIN", r))
      BY <3>1, WindowsAlike
    <3> QED
      BY <1>1, <2>2, <3>1, <3>2 DEF Join, Alike
  <2>3. CASE Close(r)
    <3> DEFINE c == [client EXCEPT !.windows[r] = NoWindow]
    <3>1. c \in Client
      <4>1. NoWindow \in Window
        BY DEF NoWindow, Window
      <4> QED
        BY <1>0, <4>1, FieldTypes
    <3>2. Alike(client, c)
      BY <1>0 DEF Alike, Client
    <3>3. client' = Send(c, "PART", r) \/ client' = c
      BY <2>3 DEF Close
    <3> HIDE DEF c
    <3>4. Alike(c, Send(c, "PART", r))
      BY <3>1 DEF Send, Alike, Client
    <3> QED
      BY <1>1, <3>2, <3>3, <3>4 DEF Alike
  <2> QED
    BY <2>1, <2>2, <2>3
<1>4. CASE SignOn
  <2>1. PICK sent : client' = [client EXCEPT !.out = sent]
    BY <1>4 DEF SignOn
  <2> QED
    BY <1>0, <1>1, <2>1 DEF Alike, Client
<1>5. CASE SignOff
  <2>1. client'.rooms = [r \in Rooms |-> NoRoom]
    BY <1>0, <1>5 DEF SignOff, Client
  <2> QED
    BY <2>1 DEF Sound, NoRoom
<1>6. CASE Server
  <2>1. client' = client \/ client' = [client EXCEPT !.out = Tail(client.out)]
    BY <1>6 DEF Server, Enter, Leave, Quit, Rename, Speak, Opers, Expel, Admit, Refuse,
                Dismiss, Takes
  <2> QED
    BY <1>0, <1>1, <2>1 DEF Alike, Client
<1>7. CASE UNCHANGED vars
  BY <1>1, <1>7 DEF vars, Alike
<1> QED
  BY <1>2, <1>3, <1>4, <1>5, <1>6, <1>7 DEF Next

(* Whoever is in a room with us is online, whatever lines come and in whatever order:
   leaving one of two rooms is not going, and the names of a room that one joins are
   seen (irc_disc_user_rem, 353). *)
THEOREM SeenInRoomsAreOnline == Spec => []VisibleIsOnline
<1>1. Init => TypeOK /\ Sound(client)
  <2>1. Init => TypeOK
    BY TypeInit
  <2>2. Init => Sound(client)
    BY DEF Init, Sound, NoRoom
  <2> QED
    BY <2>1, <2>2
<1>2. TypeOK /\ Sound(client) /\ [Next]_vars => TypeOK' /\ Sound(client)'
  BY TypeStep, SoundStep
<1>3. Sound(client) => VisibleIsOnline
  BY DEF Sound, VisibleIsOnline, Visible
<1> QED
  BY <1>1, <1>2, <1>3, PTL DEF Spec

-----------------------------------------------------------------------------
(* What is kept here agrees with the server, however lines and wishes cross.

   Between a line's sending and its reading the two differ by the lines under way, and by
   nothing else: read one after another, they lead from what is known here to what the
   server has, and each fits what has been read before it.  The invariant says that there
   is such a history. *)

-----------------------------------------------------------------------------
(* What has been read of the rooms. *)

View == [known : SUBSET Rooms, synched : SUBSET Rooms, admin : SUBSET Rooms,
         members : [Rooms -> SUBSET Nicks]]

ViewOf(c) ==
  [known   |-> {r \in Rooms : c.rooms[r].known},
   synched |-> {r \in Rooms : c.groups[r].synched},
   admin   |-> {r \in Rooms : c.rooms[r].admin},
   members |-> [r \in Rooms |-> c.rooms[r].members]]

(* What a server has told, when all of it has been read. *)
ViewAt(s) ==
  [known   |-> {r \in Rooms : Me \in s.members[r]},
   synched |-> {r \in Rooms : Me \in s.members[r]},
   admin   |-> s.oper,
   members |-> [r \in Rooms |-> IF Me \in s.members[r] THEN s.members[r] ELSE {}]]

IsLeave(m, r) == m.kind \in {"PART", "KICK"} /\ m.room = r /\ m.who = Me

(* A line that a server sends to one who has been told v. *)
Fits(v, m) ==
  /\ m.kind = "JOIN" /\ m.who = Me => m.room \notin v.known
  /\ m.kind = "JOIN" /\ m.who # Me => m.room \in v.known /\ m.who \notin v.members[m.room]
  /\ m.kind = "NAMES" => /\ m.room \in v.known /\ m.room \notin v.synched
                         /\ m.room \notin v.admin
                         /\ v.members[m.room] = {} /\ Me \in m.members
  /\ m.kind = "END" => m.room \in v.known /\ Me \in v.members[m.room]
  /\ m.kind \in {"PART", "KICK"} => m.room \in v.known
  /\ m.kind \in {"PART", "KICK"} /\ m.who # Me => m.who \in v.members[m.room]
  /\ m.kind = "NICK" =>
       \A r \in Rooms : m.who \in v.members[r] => m.new \notin v.members[r]
  /\ m.kind = "MODE" => m.room \in v.synched

Forgotten(v, r) ==
  [known |-> v.known \ {r}, synched |-> v.synched \ {r}, admin |-> v.admin \ {r},
   members |-> [v.members EXCEPT ![r] = {}]]

(* What has been told when it has been read. *)
After(v, m) ==
  CASE m.kind = "JOIN" /\ m.who = Me -> [v EXCEPT !.known = v.known \cup {m.room}]
    [] m.kind = "JOIN" /\ m.who # Me ->
         [v EXCEPT !.members = [v.members EXCEPT ![m.room] = v.members[m.room] \cup {m.who}]]
    [] m.kind = "NAMES" ->
         [known   |-> v.known, synched |-> v.synched,
          admin   |-> IF m.oped THEN v.admin \cup {m.room} ELSE v.admin,
          members |-> [v.members EXCEPT ![m.room] = m.members]]
    [] m.kind = "END" -> [v EXCEPT !.synched = v.synched \cup {m.room}]
    [] m.kind \in {"PART", "KICK"} /\ m.who = Me -> Forgotten(v, m.room)
    [] m.kind \in {"PART", "KICK"} /\ m.who # Me ->
         [v EXCEPT !.members = [v.members EXCEPT ![m.room] = v.members[m.room] \ {m.who}]]
    [] m.kind = "QUIT" ->
         [v EXCEPT !.members = [r \in Rooms |-> v.members[r] \ {m.who}]]
    [] m.kind = "NICK" ->
         [v EXCEPT !.members = [r \in Rooms |-> Renamed(v.members[r], m.who, m.new)]]
    [] m.kind = "SAY" -> v
    [] m.kind = "MODE" ->
         [v EXCEPT !.admin = IF m.oped THEN v.admin \cup {m.room} ELSE v.admin \ {m.room}]

Coherent(v) ==
  /\ v \in View
  /\ v.synched \subseteq v.known /\ v.admin \subseteq v.known
  /\ \A r \in Rooms : r \notin v.known => v.members[r] = {}
  /\ \A r \in v.synched : Me \in v.members[r]

(* The scripts have the wrapper's rooms, and no window shows one that is not known. *)
Alined(c) ==
  /\ ~c.fault /\ ~c.complaint
  /\ \A r \in Rooms : /\ c.groups[r].known = c.rooms[r].known
                      /\ c.groups[r].members = c.rooms[r].members
                      /\ c.windows[r].state = "online" => c.groups[r].synched

Seen(c) == c.online \subseteq Visible(c)

-----------------------------------------------------------------------------
(* The lines under way, read one after another. *)

Leads(h, lines) ==
  /\ h \in [0..Len(lines) -> View]
  /\ \A i \in 0..Len(lines) : Coherent(h[i])
  /\ \A i \in 1..Len(lines) : Fits(h[i - 1], lines[i]) /\ h[i] = After(h[i - 1], lines[i])
  /\ \A r \in Rooms, i, j \in 0..Len(lines) :
       i <= j /\ r \in h[i].known /\ r \notin h[j].known
         => \E k \in (i + 1)..j : IsLeave(lines[k], r)

LEMMA LineKinds ==
  ASSUME NEW m \in Lines
  PROVE  /\ m.kind \in {"JOIN", "PART", "KICK"} => m.room \in Rooms /\ m.who \in Nicks
         /\ m.kind = "NAMES" => m.room \in Rooms /\ m.members \in SUBSET Nicks
                                /\ m.oped \in BOOLEAN
         /\ m.kind \in {"END", "SAY"} => m.room \in Rooms
         /\ m.kind = "MODE" => m.room \in Rooms /\ m.oped \in BOOLEAN
         /\ m.kind = "QUIT" => m.who \in Users
         /\ m.kind = "NICK" => m.who \in Users /\ m.new \in Users
         /\ m.kind \in {"JOIN", "PART", "KICK", "NAMES", "END", "SAY", "MODE", "QUIT", "NICK"}
BY DEF Lines

LEMMA AfterCoherent ==
  ASSUME NEW v, Coherent(v), NEW m \in Lines, Fits(v, m)
  PROVE  /\ Coherent(After(v, m))
         /\ \A r \in Rooms : r \in v.known /\ r \notin After(v, m).known => IsLeave(m, r)
<1> DEFINE w == After(v, m)
<1>0. v \in View /\ Me \notin Users
  BY RoomsAssumption DEF Coherent
<1>1. CASE m.kind = "JOIN" /\ m.who = Me
  <2>1. w = [v EXCEPT !.known = v.known \cup {m.room}] /\ m.room \in Rooms
    BY <1>1, LineKinds DEF After
  <2> HIDE DEF w
  <2> QED
    BY <1>0, <1>1, <2>1 DEF Coherent, View, Fits, IsLeave, w
<1>2. CASE m.kind = "JOIN" /\ m.who # Me
  <2>1. /\ w = [v EXCEPT !.members =
                         [v.members EXCEPT ![m.room] = v.members[m.room] \cup {m.who}]]
        /\ m.room \in Rooms /\ m.who \in Nicks /\ m.room \in v.known
    BY <1>2, LineKinds DEF After, Fits
  <2> HIDE DEF w
  <2> QED
    BY <1>0, <1>2, <2>1 DEF Coherent, View, w
<1>3. CASE m.kind = "NAMES"
  <2>1. /\ m.room \in Rooms /\ m.members \in SUBSET Nicks /\ m.oped \in BOOLEAN
        /\ m.room \in v.known /\ Me \in m.members
    BY <1>3, LineKinds DEF Fits
  <2>2. /\ w.members = [v.members EXCEPT ![m.room] = m.members]
        /\ w.admin = (IF m.oped THEN v.admin \cup {m.room} ELSE v.admin)
        /\ w.known = v.known /\ w.synched = v.synched
        /\ w = [known |-> w.known, synched |-> w.synched, admin |-> w.admin,
                members |-> w.members]
    BY <1>0, <1>3 DEF After, View
  <2> HIDE DEF w
  <2>3. w.admin \subseteq w.known /\ w.admin \subseteq Rooms
    BY <1>0, <2>1, <2>2 DEF Coherent, View
  <2>4. w \in View
    BY <1>0, <2>1, <2>2, <2>3 DEF View
  <2>5. Coherent(w)
    BY <1>0, <2>1, <2>2, <2>3, <2>4 DEF Coherent, View
  <2> QED
    BY <2>2, <2>5 DEF w
<1>4. CASE m.kind = "END"
  <2>1. w = [v EXCEPT !.synched = v.synched \cup {m.room}] /\ m.room \in Rooms
    BY <1>4, LineKinds DEF After
  <2> HIDE DEF w
  <2> QED
    BY <1>0, <1>4, <2>1 DEF Coherent, View, Fits, w
<1>5. CASE m.kind \in {"PART", "KICK"} /\ m.who = Me
  <2>1. w = Forgotten(v, m.room) /\ m.room \in Rooms
    BY <1>5, LineKinds DEF After
  <2> HIDE DEF w
  <2> QED
    BY <1>0, <1>5, <2>1 DEF Coherent, View, Forgotten, IsLeave, w
<1>6. CASE m.kind \in {"PART", "KICK"} /\ m.who # Me
  <2>1. /\ w = [v EXCEPT !.members =
                         [v.members EXCEPT ![m.room] = v.members[m.room] \ {m.who}]]
        /\ m.room \in Rooms /\ m.room \in v.known
    BY <1>6, LineKinds DEF After, Fits
  <2> HIDE DEF w
  <2> QED
    BY <1>0, <1>6, <2>1 DEF Coherent, View, w
<1>7. CASE m.kind = "QUIT"
  <2>1. /\ w = [v EXCEPT !.members = [r \in Rooms |-> v.members[r] \ {m.who}]]
        /\ m.who \in Users
    BY <1>7, LineKinds DEF After
  <2> HIDE DEF w
  <2> QED
    BY <1>0, <1>7, <2>1 DEF Coherent, View, w
<1>8. CASE m.kind = "NICK"
  <2>1. /\ w = [v EXCEPT !.members = [r \in Rooms |-> Renamed(v.members[r], m.who, m.new)]]
        /\ m.who \in Users /\ m.new \in Users
    BY <1>8, LineKinds DEF After
  <2> HIDE DEF w
  <2> QED
    BY <1>0, <1>8, <2>1 DEF Coherent, View, Renamed, Nicks, w
<1>9. CASE m.kind = "SAY"
  BY <1>9 DEF After
<1>10. CASE m.kind = "MODE"
  <2>1. /\ w = [v EXCEPT !.admin = IF m.oped THEN v.admin \cup {m.room}
                                             ELSE v.admin \ {m.room}]
        /\ m.room \in Rooms /\ m.oped \in BOOLEAN
    BY <1>10, LineKinds DEF After
  <2> HIDE DEF w
  <2> QED
    BY <1>0, <1>10, <2>1 DEF Coherent, View, Fits, w
<1> QED
  BY <1>1, <1>2, <1>3, <1>4, <1>5, <1>6, <1>7, <1>8, <1>9, <1>10, LineKinds

(* The first is read. *)
LEMMA ReadOne ==
  ASSUME NEW lines \in Seq(Lines), lines # <<>>, NEW h, Leads(h, lines)
  PROVE  /\ Fits(h[0], Head(lines)) /\ h[1] = After(h[0], Head(lines))
         /\ Leads([i \in 0..(Len(lines) - 1) |-> h[i + 1]], Tail(lines))
<1> DEFINE n == Len(lines)
           g == [i \in 0..(n - 1) |-> h[i + 1]]
<1>1. /\ n \in Nat \ {0} /\ Head(lines) = lines[1]
      /\ Len(Tail(lines)) = n - 1
      /\ \A i \in 1..(n - 1) : Tail(lines)[i] = lines[i + 1]
  OBVIOUS
<1>2. 1 \in 1..n /\ 1 - 1 = 0
  BY <1>1
<1>3. Fits(h[0], Head(lines)) /\ h[1] = After(h[0], Head(lines))
  BY <1>1, <1>2 DEF Leads
<1>4. \A i \in 0..(n - 1) : i + 1 \in 0..n /\ g[i] = h[i + 1]
  BY <1>1
<1>5. g \in [0..(n - 1) -> View] /\ \A i \in 0..(n - 1) : Coherent(g[i])
  BY <1>1, <1>4 DEF Leads
<1>6. ASSUME NEW i \in 1..(n - 1)
      PROVE  Fits(g[i - 1], Tail(lines)[i]) /\ g[i] = After(g[i - 1], Tail(lines)[i])
  <2>1. i - 1 \in 0..(n - 1) /\ i \in 0..(n - 1) /\ (i - 1) + 1 = i /\ i + 1 \in 1..n
        /\ (i + 1) - 1 = i
    BY <1>1
  <2>2. g[i - 1] = h[i] /\ g[i] = h[i + 1] /\ Tail(lines)[i] = lines[i + 1]
    BY <1>1, <2>1
  <2>3. Fits(h[(i + 1) - 1], lines[i + 1]) /\ h[i + 1] = After(h[(i + 1) - 1], lines[i + 1])
    BY <2>1 DEF Leads
  <2> QED
    BY <2>1, <2>2, <2>3
<1>7. ASSUME NEW r \in Rooms, NEW i \in 0..(n - 1), NEW j \in 0..(n - 1), i <= j,
             r \in g[i].known, r \notin g[j].known
      PROVE  \E k \in (i + 1)..j : IsLeave(Tail(lines)[k], r)
  <2>1. /\ i + 1 \in 0..n /\ j + 1 \in 0..n /\ i + 1 <= j + 1
        /\ r \in h[i + 1].known /\ r \notin h[j + 1].known
    BY <1>1, <1>4, <1>7
  <2>2. PICK k \in ((i + 1) + 1)..(j + 1) : IsLeave(lines[k], r)
    BY <2>1 DEF Leads
  <2>3. k - 1 \in (i + 1)..j /\ k - 1 \in 1..(n - 1) /\ (k - 1) + 1 = k
    BY <1>1, <2>2
  <2>4. Tail(lines)[k - 1] = lines[k]
    BY <1>1, <2>3
  <2> QED
    BY <2>2, <2>3, <2>4
<1> HIDE DEF g
<1>8. Leads(g, Tail(lines))
  BY <1>1, <1>5, <1>6, <1>7 DEF Leads
<1> QED
  BY <1>3, <1>8 DEF g

(* One more is sent. *)
LEMMA TellOne ==
  ASSUME NEW lines \in Seq(Lines), NEW h, Leads(h, lines), NEW m \in Lines,
         Fits(h[Len(lines)], m)
  PROVE  \E g : /\ Leads(g, Append(lines, m)) /\ g[0] = h[0]
                /\ g[Len(lines) + 1] = After(h[Len(lines)], m)
<1> DEFINE n == Len(lines)
           w == After(h[n], m)
           g == [i \in 0..(n + 1) |-> IF i <= n THEN h[i] ELSE w]
           more == Append(lines, m)
<1>1. /\ n \in Nat /\ Len(more) = n + 1 /\ more[n + 1] = m
      /\ \A i \in 1..n : more[i] = lines[i]
  OBVIOUS
<1>2. Coherent(h[n])
  BY <1>1 DEF Leads
<1>3. Coherent(w) /\ \A r \in Rooms : r \in h[n].known /\ r \notin w.known => IsLeave(m, r)
  BY <1>2, AfterCoherent
<1>4. w \in View
  BY <1>3 DEF Coherent
<1> HIDE DEF w, more
<1>5. (\A i \in 0..n : g[i] = h[i]) /\ g[n + 1] = w
  BY <1>1
<1>6. g \in [0..(n + 1) -> View]
  BY <1>1, <1>4 DEF Leads
<1> HIDE DEF g
<1>7. \A i \in 0..(n + 1) : i \in 0..n \/ i = n + 1
  BY <1>1
<1>8. \A i \in 0..(n + 1) : Coherent(g[i])
  BY <1>3, <1>5, <1>7 DEF Leads
<1>9. ASSUME NEW i \in 1..(n + 1)
      PROVE  Fits(g[i - 1], more[i]) /\ g[i] = After(g[i - 1], more[i])
  <2>1. CASE i \in 1..n
    <3>1. g[i - 1] = h[i - 1] /\ g[i] = h[i] /\ more[i] = lines[i]
      BY <1>1, <1>5, <2>1
    <3> QED
      BY <2>1, <3>1 DEF Leads
  <2>2. CASE i = n + 1
    <3>1. g[i - 1] = h[n] /\ g[i] = w /\ more[i] = m
      BY <1>1, <1>5, <2>2
    <3> QED
      BY <3>1 DEF w
  <2> QED
    BY <1>1, <2>1, <2>2
<1>10. ASSUME NEW r \in Rooms, NEW i \in 0..(n + 1), NEW j \in 0..(n + 1), i <= j,
              r \in g[i].known, r \notin g[j].known
       PROVE  \E k \in (i + 1)..j : IsLeave(more[k], r)
  <2>1. i # j
    BY <1>10
  <2>2. i \in 0..n /\ g[i] = h[i]
    BY <1>1, <1>5, <1>7, <1>10, <2>1
  <2>3. CASE j \in 0..n
    <3>1. PICK k \in (i + 1)..j : IsLeave(lines[k], r)
      BY <1>5, <1>10, <2>2, <2>3 DEF Leads
    <3>2. k \in 1..n
      BY <1>1, <2>3
    <3> QED
      BY <1>1, <3>1, <3>2
  <2>4. CASE j = n + 1 /\ r \in h[n].known
    <3>1. IsLeave(m, r)
      BY <1>3, <1>5, <1>10, <2>4
    <3>2. n + 1 \in (i + 1)..j
      BY <1>1, <2>2, <2>4
    <3> QED
      BY <1>1, <3>1, <3>2
  <2>5. CASE j = n + 1 /\ r \notin h[n].known
    <3>0. n \in 0..n /\ i <= n
      BY <1>1, <2>2
    <3>1. PICK k \in (i + 1)..n : IsLeave(lines[k], r)
      BY <1>10, <2>2, <2>5, <3>0 DEF Leads
    <3>2. k \in 1..n /\ k \in (i + 1)..j
      BY <1>1, <2>5, <2>2
    <3> QED
      BY <1>1, <3>1, <3>2
  <2> QED
    BY <1>7, <2>3, <2>4, <2>5
<1>11. Leads(g, more)
  BY <1>1, <1>6, <1>8, <1>9, <1>10 DEF Leads
<1>12. g[0] = h[0]
  BY <1>1, <1>5
<1> QED
  BY <1>5, <1>11, <1>12 DEF w, more

-----------------------------------------------------------------------------
(* What each function does to one room, when what it asserts holds. *)

More(a, b) == b = a \/ \E x \in Sent : b = Append(a, x)

OnlyWindow(c, d, r) ==
  /\ d \in Client
  /\ d.rooms = c.rooms /\ d.groups = c.groups /\ d.online = c.online
  /\ d.fault = c.fault /\ d.complaint = c.complaint
  /\ \A q \in Rooms \ {r} : d.windows[q] = c.windows[q]
  /\ More(c.out, d.out)

Turned(c, d, r, room, group) ==
  /\ d \in Client
  /\ d.rooms = [c.rooms EXCEPT ![r] = room] /\ d.groups = [c.groups EXCEPT ![r] = group]
  /\ d.online = c.online
  /\ d.fault = c.fault /\ d.complaint = c.complaint
  /\ \A q \in Rooms \ {r} : d.windows[q] = c.windows[q]
  /\ More(c.out, d.out)

LEMMA SendOnly ==
  ASSUME NEW c \in Client, NEW r \in Rooms, NEW cmd \in {"JOIN", "PART"}
  PROVE  OnlyWindow(c, Send(c, cmd, r), r) /\ Send(c, cmd, r).windows = c.windows
         /\ Send(c, cmd, r).out = Append(c.out, [cmd |-> cmd, room |-> r])
<1>1. [cmd |-> cmd, room |-> r] \in Sent
  BY DEF Sent
<1>2. Send(c, cmd, r) \in Client
  BY SendType
<1>3. /\ Send(c, cmd, r).out = Append(c.out, [cmd |-> cmd, room |-> r])
      /\ Send(c, cmd, r).rooms = c.rooms /\ Send(c, cmd, r).groups = c.groups
      /\ Send(c, cmd, r).online = c.online /\ Send(c, cmd, r).fault = c.fault
      /\ Send(c, cmd, r).complaint = c.complaint /\ Send(c, cmd, r).windows = c.windows
  BY DEF Send, Client
<1> QED
  BY <1>1, <1>2, <1>3 DEF OnlyWindow, More

LEMMA WindowSet ==
  ASSUME NEW c \in Client, NEW r \in Rooms, NEW s \in {"none", "offline", "online"}
  PROVE  LET d == [c EXCEPT !.windows[r].state = s]
         IN  OnlyWindow(c, d, r) /\ d.windows[r].state = s /\ d.out = c.out
<1> DEFINE d == [c EXCEPT !.windows[r].state = s]
<1>1. d \in Client
  BY FieldTypes
<1>2. /\ d.rooms = c.rooms /\ d.groups = c.groups /\ d.online = c.online
      /\ d.fault = c.fault /\ d.complaint = c.complaint /\ d.out = c.out
      /\ \A q \in Rooms \ {r} : d.windows[q] = c.windows[q]
      /\ d.windows[r].state = s
  BY DEF Client, Window
<1> QED
  BY <1>1, <1>2 DEF OnlyWindow, More

LEMMA WindowOper ==
  ASSUME NEW c \in Client, NEW r \in Rooms, NEW on \in BOOLEAN
  PROVE  LET d == [c EXCEPT !.windows[r].isoper = on]
         IN  OnlyWindow(c, d, r) /\ d.windows[r].state = c.windows[r].state /\ d.out = c.out
<1> DEFINE d == [c EXCEPT !.windows[r].isoper = on]
<1>1. d \in Client
  BY FieldTypes
<1>2. /\ d.rooms = c.rooms /\ d.groups = c.groups /\ d.online = c.online
      /\ d.fault = c.fault /\ d.complaint = c.complaint /\ d.out = c.out
      /\ \A q \in Rooms \ {r} : d.windows[q] = c.windows[q]
      /\ d.windows[r].state = c.windows[r].state
  BY DEF Client, Window
<1> QED
  BY <1>1, <1>2 DEF OnlyWindow, More

LEMMA Chained ==
  ASSUME NEW c, NEW d, NEW e, NEW r \in Rooms, OnlyWindow(c, d, r), d.out = c.out,
         OnlyWindow(d, e, r)
  PROVE  OnlyWindow(c, e, r)
BY DEF OnlyWindow

LEMMA CgetwinOnly ==
  ASSUME NEW c \in Client, NEW r \in Rooms
  PROVE  /\ OnlyWindow(c, Cgetwin(c, r), r) /\ Cgetwin(c, r).out = c.out
         /\ Cgetwin(c, r).windows[r].state =
              IF c.windows[r].state = "none" THEN "offline" ELSE c.windows[r].state
<1>1. OnlyWindow(c, c, r)
  BY DEF OnlyWindow, More
<1> DEFINE d == [c EXCEPT !.windows[r].state = "offline"]
<1>2. OnlyWindow(c, d, r) /\ d.windows[r].state = "offline" /\ d.out = c.out
  BY WindowSet
<1> HIDE DEF d
<1>3. Cgetwin(c, r) = IF c.windows[r].state = "none" THEN d ELSE c
  BY DEF Cgetwin, d
<1> QED
  BY <1>1, <1>2, <1>3

LEMMA HandlersOnly ==
  ASSUME NEW c \in Client, NEW r \in Rooms, NEW on \in BOOLEAN
  PROVE  /\ OnlyWindow(c, Synched(c, r), r) /\ Synched(c, r).windows[r].state = "online"
         /\ OnlyWindow(c, Oped(c, r, on), r)
         /\ Oped(c, r, on).windows[r].state = Cgetwin(c, r).windows[r].state
         /\ OnlyWindow(c, Left(c, r), r) /\ Left(c, r).windows[r].state # "online"
         /\ OnlyWindow(c, Kicked(c, r), r) /\ Kicked(c, r).windows[r].state # "online"
<1> DEFINE e == Cgetwin(c, r)
<1>1. OnlyWindow(c, e, r) /\ e.out = c.out /\ e \in Client
  BY CgetwinOnly, WindowTypes
<1>2. OnlyWindow(c, Synched(c, r), r) /\ Synched(c, r).windows[r].state = "online"
  <2> HIDE DEF e
  <2>1. OnlyWindow(e, [e EXCEPT !.windows[r].state = "online"], r)
        /\ [e EXCEPT !.windows[r].state = "online"].windows[r].state = "online"
    BY <1>1, WindowSet
  <2>2. OnlyWindow(c, [e EXCEPT !.windows[r].state = "online"], r)
    BY <1>1, <2>1, Chained
  <2> QED
    BY <2>1, <2>2 DEF Synched, e
<1>3. OnlyWindow(c, Oped(c, r, on), r)
      /\ Oped(c, r, on).windows[r].state = e.windows[r].state
  <2> HIDE DEF e
  <2>1. OnlyWindow(e, [e EXCEPT !.windows[r].isoper = on], r)
        /\ [e EXCEPT !.windows[r].isoper = on].windows[r].state = e.windows[r].state
    BY <1>1, WindowOper
  <2>2. OnlyWindow(c, [e EXCEPT !.windows[r].isoper = on], r)
    BY <1>1, <2>1, Chained
  <2> QED
    BY <2>1, <2>2 DEF Oped, e
<1>4. OnlyWindow(c, Left(c, r), r) /\ Left(c, r).windows[r].state # "online"
  <2> DEFINE d == [c EXCEPT !.windows[r].state = "offline"]
  <2>1. OnlyWindow(c, d, r) /\ d.windows[r].state = "offline" /\ d.out = c.out /\ d \in Client
    BY WindowSet, FieldTypes
  <2> HIDE DEF d
  <2>2. OnlyWindow(d, Send(d, "JOIN", r), r) /\ Send(d, "JOIN", r).windows = d.windows
    BY <2>1, SendOnly
  <2>3. OnlyWindow(c, Send(d, "JOIN", r), r) /\ Send(d, "JOIN", r).windows[r].state = "offline"
    BY <2>1, <2>2, Chained
  <2>4. OnlyWindow(c, c, r)
    BY DEF OnlyWindow, More
  <2> QED
    BY <2>3, <2>4 DEF Left, d
<1>5. OnlyWindow(c, Kicked(c, r), r) /\ Kicked(c, r).windows[r].state # "online"
  <2> DEFINE w == [state |-> "offline", isoper |-> FALSE]
             d == [e EXCEPT !.windows[r] = w]
  <2>1. w \in Window
    BY DEF Window
  <2> HIDE DEF e
  <2>2. d \in Client
    BY <1>1, <2>1, FieldTypes
  <2>3. /\ d.rooms = e.rooms /\ d.groups = e.groups /\ d.online = e.online
        /\ d.fault = e.fault /\ d.complaint = e.complaint /\ d.out = e.out
        /\ \A q \in Rooms \ {r} : d.windows[q] = e.windows[q]
        /\ d.windows[r].state = "offline"
    BY <1>1 DEF Client
  <2> HIDE DEF d
  <2>4. OnlyWindow(e, d, r)
    BY <2>2, <2>3 DEF OnlyWindow, More
  <2>5. OnlyWindow(d, Send(d, "JOIN", r), r) /\ Send(d, "JOIN", r).windows = d.windows
    BY <2>2, SendOnly
  <2>6. OnlyWindow(c, d, r) /\ d.out = c.out
    BY <1>1, <2>3, <2>4, Chained
  <2>7. OnlyWindow(c, Send(d, "JOIN", r), r)
    BY <2>5, <2>6, Chained
  <2>8. Kicked(c, r) = Send(d, "JOIN", r)
    BY DEF Kicked, d, e
  <2> QED
    BY <2>3, <2>5, <2>7, <2>8
<1> QED
  BY <1>2, <1>3, <1>4, <1>5

(* A room is changed in the wrapper, then in the windows, then in the scripts. *)
Remade(c, r, room) == [c EXCEPT !.rooms[r] = room]
Grouped(c, r, group) == [c EXCEPT !.groups[r] = group]

LEMMA Turning ==
  ASSUME NEW c \in Client, NEW r \in Rooms, NEW room \in Room, NEW group \in Group,
         NEW d, OnlyWindow(Remade(c, r, room), d, r)
  PROVE  /\ Turned(c, Grouped(d, r, group), r, room, group)
         /\ Grouped(d, r, group).windows = d.windows
<1> DEFINE b == Remade(c, r, room)
           e == Grouped(d, r, group)
<1>1. /\ b.rooms = [c.rooms EXCEPT ![r] = room] /\ b.groups = c.groups
      /\ b.online = c.online /\ b.fault = c.fault /\ b.complaint = c.complaint
      /\ b.windows = c.windows /\ b.out = c.out
  BY DEF Client, Remade
<1> HIDE DEF b
<1>2. OnlyWindow(b, d, r) /\ d \in Client
  BY DEF OnlyWindow, b
<1>3. /\ e.groups = [d.groups EXCEPT ![r] = group] /\ e.rooms = d.rooms
      /\ e.online = d.online /\ e.fault = d.fault /\ e.complaint = d.complaint
      /\ e.windows = d.windows /\ e.out = d.out
  BY <1>2 DEF Client, Grouped
<1>4. e \in Client
  BY <1>2, FieldTypes DEF Grouped
<1> HIDE DEF e
<1>5. Turned(c, e, r, room, group) /\ e.windows = d.windows
  BY <1>1, <1>2, <1>3, <1>4 DEF Turned, OnlyWindow
<1> QED
  BY <1>5 DEF e

Blank == [NoRoom EXCEPT !.known = TRUE]
BlankGroup == [NoGroup EXCEPT !.known = TRUE]

LEMMA Blanks ==
  /\ Blank.known = TRUE /\ Blank.members = {} /\ Blank.admin = FALSE
  /\ BlankGroup.known = TRUE /\ BlankGroup.members = {} /\ BlankGroup.synched = FALSE
  /\ Blank \in Room /\ NoRoom \in Room /\ BlankGroup \in Group /\ NoGroup \in Group
<1>1. NoRoom \in Room /\ NoGroup \in Group
  BY DEF NoRoom, NoGroup, Room, Group
<1>2. Blank \in Room /\ BlankGroup \in Group
  BY <1>1 DEF Blank, BlankGroup, Room, Group
<1>3. Blank.known = TRUE /\ Blank.members = NoRoom.members /\ Blank.admin = NoRoom.admin
  BY <1>1 DEF Blank, Room
<1>4. /\ BlankGroup.known = TRUE /\ BlankGroup.members = NoGroup.members
      /\ BlankGroup.synched = NoGroup.synched
  BY <1>1 DEF BlankGroup, Group
<1>5. NoRoom.members = {} /\ NoRoom.admin = FALSE /\ NoGroup.members = {} /\ NoGroup.synched = FALSE
  BY DEF NoRoom, NoGroup
<1> QED
  BY <1>1, <1>2, <1>3, <1>4, <1>5

LEMMA OnlyFields ==
  ASSUME NEW b, NEW d, NEW r, OnlyWindow(b, d, r)
  PROVE  d \in Client /\ d.groups = b.groups /\ d.rooms = b.rooms
BY DEF OnlyWindow

LEMMA RoomSet ==
  ASSUME NEW c \in Client, NEW r \in Rooms, NEW room \in Room
  PROVE  LET b == Remade(c, r, room)
         IN  b \in Client /\ b.groups = c.groups /\ b.windows = c.windows /\ b.out = c.out
             /\ b.rooms = [c.rooms EXCEPT ![r] = room]
BY FieldTypes DEF Client, Remade

LEMMA JoinedTurns ==
  ASSUME NEW c \in Client, NEW r \in Rooms, ~c.rooms[r].known, ~c.groups[r].known
  PROVE  /\ Turned(c, ChatJoined(c, r), r, Blank, BlankGroup)
         /\ ChatJoined(c, r).windows[r].state \in {"offline", c.windows[r].state}
<1> DEFINE b == Remade(c, r, Blank)
           d == Cgetwin(b, r)
<1>1. b \in Client /\ b.groups = c.groups /\ b.windows = c.windows
  BY RoomSet, Blanks
<1>2. OnlyWindow(b, d, r) /\ d.windows[r].state \in {"offline", c.windows[r].state}
  <2> HIDE DEF b
  <2> QED
    BY <1>1, CgetwinOnly
<1>3. d.groups = c.groups
  BY <1>1, <1>2, OnlyFields
<1> HIDE DEF d
<1>4. Turned(c, Grouped(d, r, BlankGroup), r, Blank, BlankGroup)
      /\ Grouped(d, r, BlankGroup).windows = d.windows
  BY <1>2, Blanks, Turning
<1>5. ScriptJoined(d, r) = Grouped(d, r, BlankGroup)
  BY <1>3 DEF ScriptJoined, Scripted, Grouped, BlankGroup
<1>6. ChatJoined(c, r) = ScriptJoined(d, r)
  BY DEF ChatJoined, d, b, Remade, Blank
<1> QED
  BY <1>2, <1>4, <1>5, <1>6

LEMMA LeftTurns ==
  ASSUME NEW c \in Client, NEW r \in Rooms, c.rooms[r].known, c.groups[r].known
  PROVE  /\ Turned(c, ChatLeft(c, r), r, NoRoom, NoGroup)
         /\ ChatLeft(c, r).windows[r].state # "online"
         /\ Turned(c, ChatKicked(c, r), r, NoRoom, NoGroup)
         /\ ChatKicked(c, r).windows[r].state # "online"
<1> DEFINE b == Remade(c, r, NoRoom)
<1>1. b \in Client /\ b.groups = c.groups
  BY RoomSet, Blanks
<1>2. ASSUME NEW d, OnlyWindow(b, d, r), d.windows[r].state # "online"
      PROVE  Turned(c, ScriptLeft(d, r), r, NoRoom, NoGroup)
             /\ ScriptLeft(d, r).windows[r].state # "online"
  <2>1. d.groups = c.groups
    BY <1>1, <1>2, OnlyFields
  <2>2. Turned(c, Grouped(d, r, NoGroup), r, NoRoom, NoGroup)
        /\ Grouped(d, r, NoGroup).windows = d.windows
    BY <1>2, Blanks, Turning
  <2>3. ScriptLeft(d, r) = Grouped(d, r, NoGroup)
    BY <2>1 DEF ScriptLeft, Scripted, Grouped
  <2> QED
    BY <1>2, <2>2, <2>3
<1> HIDE DEF b
<1>3. /\ OnlyWindow(b, Left(b, r), r) /\ Left(b, r).windows[r].state # "online"
      /\ OnlyWindow(b, Kicked(b, r), r) /\ Kicked(b, r).windows[r].state # "online"
  BY <1>1, HandlersOnly
<1>4. ChatLeft(c, r) = ScriptLeft(Left(b, r), r) /\ ChatKicked(c, r) = ScriptLeft(Kicked(b, r), r)
  BY DEF ChatLeft, ChatKicked, b, Remade
<1> QED
  BY <1>2, <1>3, <1>4

LEMMA UserJoinedTurns ==
  ASSUME NEW c \in Client, NEW r \in Rooms, NEW who \in SUBSET Nicks,
         c.rooms[r].known, c.groups[r].known, who \cap c.groups[r].members = {}
  PROVE  LET d == UserJoined(c, r, who)
             room == [c.rooms[r] EXCEPT !.members = c.rooms[r].members \cup who]
             group == [c.groups[r] EXCEPT !.members = c.groups[r].members \cup who]
         IN  Turned(c, d, r, room, group) /\ d.windows = c.windows /\ d.out = c.out
<1> DEFINE room == [c.rooms[r] EXCEPT !.members = c.rooms[r].members \cup who]
           group == [c.groups[r] EXCEPT !.members = c.groups[r].members \cup who]
           b == Remade(c, r, room)
<1>1. c.rooms[r] \in Room /\ c.groups[r] \in Group
  BY DEF Client
<1>2. room \in Room /\ group \in Group
  BY <1>1 DEF Room, Group
<1>3. [c EXCEPT !.rooms[r].members = @ \cup who] = b
  BY DEF Client, Remade
<1> HIDE DEF room, group
<1>4. b \in Client /\ b.groups = c.groups /\ b.windows = c.windows /\ b.out = c.out
  BY <1>2, RoomSet
<1>5. OnlyWindow(b, b, r)
  BY <1>4 DEF OnlyWindow, More
<1>6. Turned(c, Grouped(b, r, group), r, room, group)
      /\ Grouped(b, r, group).windows = b.windows
  BY <1>2, <1>5, Turning
<1>7. Grouped(b, r, group).out = c.out
  <2> HIDE DEF b
  <2> QED
    BY <1>4 DEF Grouped, Client
<1>8. UserJoined(c, r, who) = ScriptUserJoined(b, r, who)
  BY <1>3 DEF UserJoined
<1>9. ScriptUserJoined(b, r, who) = Grouped(b, r, group)
  <2> HIDE DEF b
  <2> QED
    BY <1>4 DEF ScriptUserJoined, Scripted, Grouped, group
<1> QED
  BY <1>4, <1>6, <1>7, <1>8, <1>9 DEF room, group

LEMMA SynchedTurns ==
  ASSUME NEW c \in Client, NEW r \in Rooms, c.rooms[r].known, c.groups[r].known
  PROVE  /\ Turned(c, ChatSynched(c, r), r, c.rooms[r], [c.groups[r] EXCEPT !.synched = TRUE])
         /\ ChatSynched(c, r).windows[r].state = "online"
<1> DEFINE group == [c.groups[r] EXCEPT !.synched = TRUE]
           d == Synched(c, r)
<1>1. c.rooms[r] \in Room /\ group \in Group
  BY DEF Client, Group
<1>2. Remade(c, r, c.rooms[r]) = c
  BY DEF Client, Remade
<1>3. OnlyWindow(c, d, r) /\ d.windows[r].state = "online"
  BY HandlersOnly
<1>4. d.groups = c.groups
  BY <1>3, OnlyFields
<1> HIDE DEF d
<1>5. Turned(c, Grouped(d, r, group), r, c.rooms[r], group)
      /\ Grouped(d, r, group).windows = d.windows
  BY <1>1, <1>2, <1>3, Turning
<1>6. ScriptSynched(d, r) = Grouped(d, r, group)
  BY <1>4 DEF ScriptSynched, Scripted, Grouped
<1>7. ChatSynched(c, r) = ScriptSynched(d, r)
  BY DEF ChatSynched, d
<1> QED
  BY <1>3, <1>5, <1>6, <1>7

LEMMA OpedTurns ==
  ASSUME NEW c \in Client, NEW r \in Rooms, NEW on \in BOOLEAN,
         c.rooms[r].known, c.groups[r].known, Me \in c.groups[r].members,
         on \/ c.groups[r].synched
  PROVE  /\ Turned(c, ChatOped(c, r, on), r, [c.rooms[r] EXCEPT !.admin = on], c.groups[r])
         /\ ChatOped(c, r, on).windows[r].state = "online" <=> c.windows[r].state = "online"
<1> DEFINE room == [c.rooms[r] EXCEPT !.admin = on]
           b == Remade(c, r, room)
           d == Oped(b, r, on)
<1>1. c.rooms[r] \in Room /\ c.groups[r] \in Group
  BY DEF Client
<1>2. CASE c.rooms[r].admin = on
  <2>1. room = c.rooms[r]
    BY <1>1, <1>2 DEF Room
  <2>2. ChatOped(c, r, on) = c
    BY <1>2 DEF ChatOped
  <2>3. c.rooms = [c.rooms EXCEPT ![r] = c.rooms[r]] /\ c.groups = [c.groups EXCEPT ![r] = c.groups[r]]
    BY DEF Client
  <2> QED
    BY <2>1, <2>2, <2>3 DEF Turned, More
<1>3. CASE c.rooms[r].admin # on
  <2>1. room \in Room
    BY <1>1 DEF Room
  <2>2. [c EXCEPT !.rooms[r].admin = on] = b
    BY DEF Client, Remade
  <2> HIDE DEF room
  <2>3. b \in Client /\ b.groups = c.groups /\ b.windows = c.windows
    BY <2>1, RoomSet
  <2>4. OnlyWindow(b, d, r)
        /\ (d.windows[r].state = "online" <=> c.windows[r].state = "online")
    <3> HIDE DEF b
    <3> QED
      BY <2>3, HandlersOnly, CgetwinOnly
  <2>5. d.groups = c.groups
    BY <2>3, <2>4, OnlyFields
  <2>6. ChatOped(c, r, on) = ScriptOped(d, r, on)
    BY <1>3, <2>2 DEF ChatOped
  <2> HIDE DEF d
  <2>7. Turned(c, Grouped(d, r, c.groups[r]), r, room, c.groups[r])
        /\ Grouped(d, r, c.groups[r]).windows = d.windows
    BY <1>1, <2>1, <2>4, Turning
  <2>8. ScriptOped(d, r, on) = Grouped(d, r, c.groups[r])
    BY <2>5 DEF ScriptOped, Scripted, Grouped
  <2> QED
    BY <2>4, <2>6, <2>7, <2>8 DEF room
<1> QED
  BY <1>2, <1>3

(* Several rooms at once: a name goes from them, or is another. *)
Regular(c, d) ==
  /\ d \in Client
  /\ d.fault = c.fault /\ d.complaint = c.complaint
  /\ d.windows = c.windows /\ d.out = c.out
  /\ \A q \in Rooms : /\ d.rooms[q].known = c.rooms[q].known
                      /\ d.rooms[q].admin = c.rooms[q].admin
                      /\ d.groups[q].known = c.groups[q].known
                      /\ d.groups[q].synched = c.groups[q].synched

LEMMA WithoutFields ==
  ASSUME NEW c \in Client, NEW q \in Rooms, NEW n
  PROVE  LET x == c.rooms[q]
             y == c.groups[q]
         IN  /\ Without(x, n).known = x.known /\ Without(x, n).admin = x.admin
             /\ Without(x, n).members = x.members \ {n}
             /\ Without(y, n).known = y.known /\ Without(y, n).synched = y.synched
             /\ Without(y, n).members = y.members \ {n}
<1>1. c.rooms[q] \in Room /\ c.groups[q] \in Group
  BY DEF Client
<1> QED
  BY <1>1 DEF Without, Room, Group

Here(c, rooms, n) ==
  \A r \in rooms : c.rooms[r].known /\ c.groups[r].known /\ n \in c.groups[r].members

LeftRooms(c, d, rooms, n) ==
  /\ Regular(c, d) /\ d.online = c.online
  /\ \A q \in Rooms :
       /\ d.rooms[q].members =
            IF q \in rooms THEN c.rooms[q].members \ {n} ELSE c.rooms[q].members
       /\ d.groups[q].members =
            IF q \in rooms THEN c.groups[q].members \ {n} ELSE c.groups[q].members

LEMMA UserLeftRegular ==
  ASSUME NEW c \in Client, NEW rooms \in SUBSET Rooms, NEW n, Here(c, rooms, n)
  PROVE  LeftRooms(c, UserLeft(c, rooms, n), rooms, n)
<1> DEFINE d     == UserLeft(c, rooms, n)
           known == {r \in rooms : c.rooms[r].known}
           fits  == {r \in known : c.groups[r].known /\ n \in c.groups[r].members}
<1>1. known = rooms /\ fits = known
  BY DEF Here
<1>2. /\ d.rooms = [r \in Rooms |-> IF r \in known THEN Without(c.rooms[r], n) ELSE c.rooms[r]]
      /\ d.groups = [r \in Rooms |-> IF r \in fits THEN Without(c.groups[r], n)
                                                   ELSE c.groups[r]]
      /\ d.online = c.online /\ d.fault = c.fault /\ d.windows = c.windows /\ d.out = c.out
      /\ d.complaint = (c.complaint \/ fits # known)
  BY DEF UserLeft, Client
<1>3. d \in Client
  BY UserLeftType
<1>4. d.complaint = c.complaint
  BY <1>1, <1>2 DEF Client
<1> HIDE DEF d
<1>5. ASSUME NEW q \in Rooms
      PROVE  /\ d.rooms[q] = IF q \in rooms THEN Without(c.rooms[q], n) ELSE c.rooms[q]
             /\ d.groups[q] = IF q \in rooms THEN Without(c.groups[q], n) ELSE c.groups[q]
  BY <1>1, <1>2
<1>6. ASSUME NEW q \in Rooms
      PROVE  /\ d.rooms[q].known = c.rooms[q].known /\ d.rooms[q].admin = c.rooms[q].admin
             /\ d.groups[q].known = c.groups[q].known
             /\ d.groups[q].synched = c.groups[q].synched
             /\ d.rooms[q].members =
                  IF q \in rooms THEN c.rooms[q].members \ {n} ELSE c.rooms[q].members
             /\ d.groups[q].members =
                  IF q \in rooms THEN c.groups[q].members \ {n} ELSE c.groups[q].members
  <2>1. CASE q \in rooms
    BY <1>5, <2>1, WithoutFields
  <2>2. CASE q \notin rooms
    BY <1>5, <2>2
  <2> QED
    BY <2>1, <2>2
<1>7. Regular(c, d)
  BY <1>2, <1>3, <1>4, <1>6 DEF Regular
<1> QED
  BY <1>2, <1>6, <1>7 DEF LeftRooms, d

LEMMA RenamedFields ==
  ASSUME NEW c \in Client, NEW q \in Rooms, NEW old, NEW new
  PROVE  LET x == c.rooms[q]
             y == c.groups[q]
         IN  /\ WithRenamed(x, old, new).known = x.known
             /\ WithRenamed(x, old, new).admin = x.admin
             /\ WithRenamed(x, old, new).members = Renamed(x.members, old, new)
             /\ WithRenamed(y, old, new).known = y.known
             /\ WithRenamed(y, old, new).synched = y.synched
             /\ WithRenamed(y, old, new).members = Renamed(y.members, old, new)
<1>1. c.rooms[q] \in Room /\ c.groups[q] \in Group
  BY DEF Client
<1> QED
  BY <1>1 DEF WithRenamed, Room, Group

Changes(c, old, new) ==
  \A r \in Rooms :
    /\ c.groups[r].known = c.rooms[r].known /\ c.groups[r].members = c.rooms[r].members
    /\ old \in c.rooms[r].members => c.rooms[r].known /\ new \notin c.rooms[r].members

NickIs(c, d, old, new) ==
  /\ Regular(c, d) /\ d.online = Renamed(c.online, old, new)
  /\ \A q \in Rooms :
       /\ d.rooms[q].members = Renamed(c.rooms[q].members, old, new)
       /\ d.groups[q].members = Renamed(c.groups[q].members, old, new)

LEMMA NickchangedRegular ==
  ASSUME NEW c \in Client, NEW old \in Users, NEW new \in Users, Changes(c, old, new)
  PROVE  NickIs(c, UserNickchanged(c, old, new), old, new)
<1> DEFINE d       == UserNickchanged(c, old, new)
           changed == {r \in Rooms : old \in c.rooms[r].members}
           fits    == {r \in changed : c.groups[r].known /\ new \notin c.groups[r].members}
<1>1. fits = changed
  BY DEF Changes
<1>2. /\ d.rooms = [r \in Rooms |-> WithRenamed(c.rooms[r], old, new)]
      /\ d.groups = [r \in Rooms |-> IF r \in fits THEN WithRenamed(c.groups[r], old, new)
                                                   ELSE c.groups[r]]
      /\ d.online = Renamed(c.online, old, new)
      /\ d.fault = c.fault /\ d.windows = c.windows /\ d.out = c.out
      /\ d.complaint = (c.complaint \/ fits # changed)
  BY DEF UserNickchanged, Client
<1>3. d \in Client
  BY NickchangedType
<1>4. d.complaint = c.complaint
  BY <1>1, <1>2 DEF Client
<1> HIDE DEF d
<1>5. ASSUME NEW q \in Rooms
      PROVE  /\ d.rooms[q] = WithRenamed(c.rooms[q], old, new)
             /\ d.groups[q] = IF old \in c.rooms[q].members
                              THEN WithRenamed(c.groups[q], old, new) ELSE c.groups[q]
  BY <1>1, <1>2
<1>6. ASSUME NEW q \in Rooms
      PROVE  /\ d.rooms[q].known = c.rooms[q].known /\ d.rooms[q].admin = c.rooms[q].admin
             /\ d.groups[q].known = c.groups[q].known
             /\ d.groups[q].synched = c.groups[q].synched
             /\ d.rooms[q].members = Renamed(c.rooms[q].members, old, new)
             /\ d.groups[q].members = Renamed(c.groups[q].members, old, new)
  <2>1. c.rooms[q].members = c.groups[q].members
    BY DEF Changes
  <2>2. CASE old \in c.rooms[q].members
    BY <1>5, <2>2, RenamedFields
  <2>3. CASE old \notin c.rooms[q].members
    <3>1. Renamed(c.rooms[q].members, old, new) = c.rooms[q].members
      BY <2>3 DEF Renamed
    <3> QED
      BY <1>5, <2>1, <2>3, <3>1, RenamedFields
  <2> QED
    BY <2>2, <2>3
<1>7. Regular(c, d)
  BY <1>2, <1>3, <1>4, <1>6 DEF Regular
<1> QED
  BY <1>2, <1>6, <1>7 DEF NickIs, d

-----------------------------------------------------------------------------
(* What each does to what has been read. *)

(* The windows are told of a room only together with it. *)
Followed(c, d, v) ==
  /\ d \in Client /\ Alined(d) /\ ViewOf(d) = v
  /\ More(c.out, d.out)
  /\ \A q \in Rooms : d.groups[q].synched /\ d.windows[q].state # "online"
                        => c.groups[q].synched /\ c.windows[q].state # "online"

LEMMA ViewRegular ==
  ASSUME NEW c \in Client, NEW d, Alined(c), Regular(c, d),
         \A q \in Rooms : d.groups[q].members = d.rooms[q].members
  PROVE  Followed(c, d, [ViewOf(c) EXCEPT !.members = [q \in Rooms |-> d.rooms[q].members]])
<1>1. ViewOf(d).members = [q \in Rooms |-> d.rooms[q].members]
  BY DEF ViewOf
<1>2. /\ ViewOf(d).known = ViewOf(c).known /\ ViewOf(d).synched = ViewOf(c).synched
      /\ ViewOf(d).admin = ViewOf(c).admin
  BY DEF ViewOf, Regular
<1>3. ViewOf(d) = [ViewOf(c) EXCEPT !.members = [q \in Rooms |-> d.rooms[q].members]]
  BY <1>1, <1>2 DEF ViewOf
<1>4. Alined(d)
  BY DEF Alined, Regular
<1> QED
  BY <1>3, <1>4 DEF Followed, Regular, More

(* One room of the view, as it is after. *)
TurnedTo(v, r, room, group) ==
  [known   |-> IF room.known THEN v.known \cup {r} ELSE v.known \ {r},
   synched |-> IF group.synched THEN v.synched \cup {r} ELSE v.synched \ {r},
   admin   |-> IF room.admin THEN v.admin \cup {r} ELSE v.admin \ {r},
   members |-> [v.members EXCEPT ![r] = room.members]]

LEMMA ViewTurned ==
  ASSUME NEW c \in Client, NEW d, NEW r \in Rooms, Alined(c),
         NEW room \in Room, NEW group \in Group, Turned(c, d, r, room, group),
         group.known = room.known, group.members = room.members,
         d.windows[r].state = "online" => group.synched,
         group.synched /\ d.windows[r].state # "online"
           => c.groups[r].synched /\ c.windows[r].state # "online"
  PROVE  Followed(c, d, TurnedTo(ViewOf(c), r, room, group))
<1>1. /\ \A q \in Rooms : d.rooms[q] = IF q = r THEN room ELSE c.rooms[q]
      /\ \A q \in Rooms : d.groups[q] = IF q = r THEN group ELSE c.groups[q]
  BY DEF Turned, Client
<1>2. /\ ViewOf(d).known = (IF room.known THEN ViewOf(c).known \cup {r}
                                         ELSE ViewOf(c).known \ {r})
      /\ ViewOf(d).admin = (IF room.admin THEN ViewOf(c).admin \cup {r}
                                         ELSE ViewOf(c).admin \ {r})
      /\ ViewOf(d).synched = (IF group.synched THEN ViewOf(c).synched \cup {r}
                                              ELSE ViewOf(c).synched \ {r})
  BY <1>1 DEF ViewOf
<1>3. ViewOf(d).members = [ViewOf(c).members EXCEPT ![r] = room.members]
  BY <1>1 DEF ViewOf
<1>4. ViewOf(d) = [known   |-> ViewOf(d).known, synched |-> ViewOf(d).synched,
                   admin   |-> ViewOf(d).admin, members |-> ViewOf(d).members]
  BY DEF ViewOf
<1>5. Alined(d)
  BY <1>1 DEF Alined, Turned
<1>6. \A q \in Rooms : d.groups[q].synched /\ d.windows[q].state # "online"
                         => c.groups[q].synched /\ c.windows[q].state # "online"
  BY <1>1 DEF Turned
<1> QED
  BY <1>2, <1>3, <1>4, <1>5, <1>6 DEF Followed, Turned, TurnedTo
-----------------------------------------------------------------------------
(* The driver's part: of this side's state it touches who is online, no more. *)

OnlineAlone(c, d) ==
  /\ d \in Client
  /\ d.rooms = c.rooms /\ d.groups = c.groups /\ d.windows = c.windows
  /\ d.out = c.out /\ d.fault = c.fault /\ d.complaint = c.complaint

LEMMA OnlineOnly ==
  ASSUME NEW c \in Client, NEW who
  PROVE  /\ OnlineAlone(c, Comes(c, who)) /\ Comes(c, who).online = c.online \cup (who \cap Users)
         /\ OnlineAlone(c, Goes(c, who)) /\ Goes(c, who).online = c.online \ who
<1>1. ASSUME NEW w \in SUBSET Users
      PROVE  OnlineAlone(c, [c EXCEPT !.online = w]) /\ [c EXCEPT !.online = w].online = w
  BY DEF OnlineAlone, Client
<1>2. c.online \cup (who \cap Users) \in SUBSET Users /\ c.online \ who \in SUBSET Users
  BY DEF Client
<1>3. /\ Comes(c, who) = [c EXCEPT !.online = c.online \cup (who \cap Users)]
      /\ Goes(c, who) = [c EXCEPT !.online = c.online \ who]
  BY DEF Comes, Goes
<1> QED
  BY <1>1, <1>2, <1>3

LEMMA RemOnly ==
  ASSUME NEW c \in Client, NEW r \in Rooms, NEW who
  PROVE  LET d == DiscUserRem(c, r, who)
         IN  /\ OnlineAlone(c, d)
             /\ d.online = c.online \ (who \ VisibleBut(c, r))
BY OnlineOnly DEF DiscUserRem

LEMMA DiscRemOnly ==
  ASSUME NEW c \in Client, NEW r \in Rooms, c.rooms[r].known
  PROVE  LET d == DiscRem(c, r)
         IN  /\ OnlineAlone(c, d)
             /\ d.online = c.online \ (c.rooms[r].members \ VisibleBut(c, r))
BY RemOnly DEF DiscRem

LEMMA ViewAlone ==
  ASSUME NEW c \in Client, NEW b, OnlineAlone(c, b), Alined(c)
  PROVE  /\ b \in Client /\ Alined(b) /\ ViewOf(b) = ViewOf(c)
         /\ \A d, v : Followed(b, d, v) => Followed(c, d, v)
BY DEF OnlineAlone, Alined, ViewOf, Followed

LEMMA InView ==
  ASSUME NEW c \in Client, NEW r \in Rooms
  PROVE  /\ r \in ViewOf(c).known <=> c.rooms[r].known
         /\ r \in ViewOf(c).admin <=> c.rooms[r].admin
         /\ r \in ViewOf(c).synched <=> c.groups[r].synched
         /\ ViewOf(c).members[r] = c.rooms[r].members
BY DEF ViewOf

LEMMA SeenMeans ==
  ASSUME NEW c
  PROVE  Seen(c) <=> \A n \in c.online : \E q \in Rooms : n \in c.rooms[q].members
BY DEF Seen, Visible

LEMMA ButMeans ==
  ASSUME NEW c, NEW r, NEW n
  PROVE  n \in VisibleBut(c, r) <=> \E q \in Rooms \ {r} : n \in c.rooms[q].members
BY DEF VisibleBut

(* What the reading of one line leaves. *)
Follows(c, d, m) == Followed(c, d, After(ViewOf(c), m)) /\ Seen(d)

Steady(c) == c \in Client /\ Alined(c) /\ Coherent(ViewOf(c))

Ready(c, m) == Steady(c) /\ Seen(c) /\ m \in Lines /\ Fits(ViewOf(c), m)

LEMMA SteadyRoom ==
  ASSUME NEW c, Steady(c), NEW r \in Rooms
  PROVE  /\ c.groups[r].known = c.rooms[r].known
         /\ c.groups[r].members = c.rooms[r].members
         /\ c.groups[r].synched => c.rooms[r].known /\ Me \in c.rooms[r].members
         /\ c.rooms[r].admin => c.rooms[r].known
         /\ ~c.rooms[r].known => c.rooms[r].members = {}
         /\ c.windows[r].state = "online" => c.groups[r].synched
         /\ c.rooms[r] \in Room /\ c.groups[r] \in Group /\ ViewOf(c) \in View
<1>1. c \in Client /\ Alined(c) /\ Coherent(ViewOf(c))
  BY DEF Steady
<1>2. c.rooms[r] \in Room /\ c.groups[r] \in Group /\ ViewOf(c) \in View
  BY <1>1 DEF Client, Coherent
<1>3. /\ c.groups[r].known = c.rooms[r].known /\ c.groups[r].members = c.rooms[r].members
      /\ c.windows[r].state = "online" => c.groups[r].synched
  BY <1>1 DEF Alined
<1>4. /\ r \in ViewOf(c).synched => r \in ViewOf(c).known /\ Me \in ViewOf(c).members[r]
      /\ r \in ViewOf(c).admin => r \in ViewOf(c).known
      /\ r \notin ViewOf(c).known => ViewOf(c).members[r] = {}
  BY <1>1 DEF Coherent
<1> QED
  BY <1>1, <1>2, <1>3, <1>4, InView

LEMMA TurnedFields ==
  ASSUME NEW c, Steady(c), NEW r \in Rooms, NEW room \in Room, NEW group \in Group,
         NEW w, w = TurnedTo(ViewOf(c), r, room, group)
  PROVE  /\ room.known = c.rooms[r].known => w.known = ViewOf(c).known
         /\ group.synched = c.groups[r].synched => w.synched = ViewOf(c).synched
         /\ room.admin = c.rooms[r].admin => w.admin = ViewOf(c).admin
<1> DEFINE v == ViewOf(c)
<1>0. c \in Client /\ c.rooms[r] \in Room /\ c.groups[r] \in Group
  BY SteadyRoom DEF Steady
<1>1. /\ r \in v.known <=> c.rooms[r].known
      /\ r \in v.admin <=> c.rooms[r].admin
      /\ r \in v.synched <=> c.groups[r].synched
  BY <1>0, InView
<1> HIDE DEF v
<1>2. /\ w.known = (IF room.known THEN v.known \cup {r} ELSE v.known \ {r})
      /\ w.synched = (IF group.synched THEN v.synched \cup {r} ELSE v.synched \ {r})
      /\ w.admin = (IF room.admin THEN v.admin \cup {r} ELSE v.admin \ {r})
  BY DEF TurnedTo, v
<1>3. /\ room.known \in BOOLEAN /\ c.rooms[r].known \in BOOLEAN
      /\ room.admin \in BOOLEAN /\ c.rooms[r].admin \in BOOLEAN
      /\ group.synched \in BOOLEAN /\ c.groups[r].synched \in BOOLEAN
  BY <1>0 DEF Room, Group
<1>4. ASSUME room.known = c.rooms[r].known PROVE w.known = v.known
  <2>1. w.known = IF c.rooms[r].known THEN v.known \cup {r} ELSE v.known \ {r}
    BY <1>2, <1>4
  <2> QED
    BY <1>1, <2>1
<1>5. ASSUME group.synched = c.groups[r].synched PROVE w.synched = v.synched
  BY <1>1, <1>2, <1>3, <1>5
<1>6. ASSUME room.admin = c.rooms[r].admin PROVE w.admin = v.admin
  BY <1>1, <1>2, <1>3, <1>6
<1> QED
  BY <1>4, <1>5, <1>6 DEF v

LEMMA ReadJoinMe ==
  ASSUME NEW c, NEW m, Ready(c, m), m.kind = "JOIN", m.who = Me
  PROVE  Follows(c, ChatJoined(Comes(c, {Me}), m.room), m)
<1> DEFINE r == m.room
           b == Comes(c, {Me})
           d == ChatJoined(b, r)
           v == ViewOf(c)
<1>1. Steady(c) /\ c \in Client /\ Alined(c) /\ Seen(c) /\ r \in Rooms /\ r \notin v.known
  BY LineKinds DEF Ready, Steady, Fits
<1>2. ~c.rooms[r].known
  BY <1>1, InView
<1>3. OnlineAlone(c, b) /\ b.online = c.online /\ b \in Client /\ Alined(b) /\ ViewOf(b) = v
  <2>1. OnlineAlone(c, b) /\ b.online = c.online \cup ({Me} \cap Users)
    BY <1>1, OnlineOnly
  <2> QED
    BY <1>1, <2>1, ViewAlone, RoomsAssumption
<1>4. v \in View /\ r \notin v.synched /\ r \notin v.admin /\ v.members[r] = {}
      /\ ~c.groups[r].known /\ ~c.groups[r].synched /\ c.windows[r].state # "online"
  BY <1>1, <1>2, SteadyRoom, InView
<1> HIDE DEF b
<1>5. ~b.rooms[r].known /\ ~b.groups[r].known /\ b.windows[r].state # "online"
  BY <1>2, <1>3, <1>4 DEF OnlineAlone
<1>6. Turned(b, d, r, Blank, BlankGroup) /\ d.windows[r].state # "online"
  BY <1>1, <1>3, <1>5, JoinedTurns
<1> HIDE DEF d
<1>7. Followed(b, d, TurnedTo(v, r, Blank, BlankGroup))
  BY <1>1, <1>3, <1>6, Blanks, ViewTurned
<1>8. After(v, m) = TurnedTo(v, r, Blank, BlankGroup)
  <2>1. After(v, m) = [v EXCEPT !.known = v.known \cup {r}]
    BY DEF After
  <2>2. v.synched \ {r} = v.synched /\ v.admin \ {r} = v.admin
        /\ [v.members EXCEPT ![r] = {}] = v.members
    BY <1>4 DEF View
  <2> QED
    BY <1>4, <2>1, <2>2, Blanks DEF View, TurnedTo
<1>9. Followed(c, d, After(v, m))
  BY <1>1, <1>3, <1>7, <1>8, ViewAlone
<1>10. d.online = c.online /\ d.rooms = [c.rooms EXCEPT ![r] = Blank]
  BY <1>3, <1>6 DEF Turned, OnlineAlone
<1>11. ASSUME NEW n \in d.online PROVE \E q \in Rooms : n \in d.rooms[q].members
  <2>1. PICK q \in Rooms : n \in c.rooms[q].members
    BY <1>1, <1>10, SeenMeans
  <2>2. q # r
    BY <1>1, <1>4, <2>1, InView
  <2> QED
    BY <1>1, <1>10, <2>1, <2>2 DEF Client
<1> QED
  BY <1>9, <1>11, SeenMeans DEF Follows, d, b
WithMembers(v, r, names) == [v EXCEPT !.members = [v.members EXCEPT ![r] = names]]

(* Names that are not members yet: after a JOIN, or of a room that one has joined. *)
Newcomers(c, r, who) ==
  /\ r \in ViewOf(c).known /\ who \in SUBSET Nicks
  /\ who \cap c.rooms[r].members = {}

Welcomed(c, b, d, r, who) ==
  /\ Followed(c, d, WithMembers(ViewOf(c), r, c.rooms[r].members \cup who))
  /\ d.online = b.online /\ d.out = c.out
  /\ d.rooms[r].members = c.rooms[r].members \cup who
  /\ \A q \in Rooms \ {r} : d.rooms[q].members = c.rooms[q].members

LEMMA JoinedView ==
  ASSUME NEW c, Steady(c), NEW r \in Rooms, NEW who, Newcomers(c, r, who),
         NEW b, OnlineAlone(c, b)
  PROVE  Welcomed(c, b, UserJoined(b, r, who), r, who)
<1>0. r \in ViewOf(c).known /\ who \in SUBSET Nicks /\ who \cap c.rooms[r].members = {}
  BY DEF Newcomers
<1> DEFINE v == ViewOf(c)
           d == UserJoined(b, r, who)
           room == [c.rooms[r] EXCEPT !.members = c.rooms[r].members \cup who]
           group == [c.groups[r] EXCEPT !.members = c.groups[r].members \cup who]
           w == TurnedTo(v, r, room, group)
<1>1. c \in Client /\ Alined(c)
  BY DEF Steady
<1>3. b \in Client /\ Alined(b) /\ ViewOf(b) = v
  BY <1>1, ViewAlone
<1>4. /\ c.groups[r].known = c.rooms[r].known /\ c.groups[r].members = c.rooms[r].members
      /\ c.windows[r].state = "online" => c.groups[r].synched
      /\ c.rooms[r] \in Room /\ c.groups[r] \in Group /\ v \in View
  BY SteadyRoom
<1>5. /\ room \in Room /\ group \in Group
      /\ room.known = c.rooms[r].known /\ room.admin = c.rooms[r].admin
      /\ room.members = c.rooms[r].members \cup who
      /\ group.known = c.groups[r].known /\ group.synched = c.groups[r].synched
      /\ group.members = c.groups[r].members \cup who
  BY <1>0, <1>1, <1>4 DEF Room, Group
<1>6. Turned(b, d, r, room, group) /\ d.windows = c.windows /\ d.out = c.out
  <2>1. b.rooms[r] = c.rooms[r] /\ b.groups[r] = c.groups[r] /\ b.windows = c.windows
        /\ b.out = c.out
    BY DEF OnlineAlone
  <2>2. who \cap b.groups[r].members = {}
    BY <1>0, <1>4, <2>1
  <2>3. b.rooms[r].known /\ b.groups[r].known
    BY <1>0, <1>1, <1>4, <2>1, InView
  <2> QED
    BY <1>0, <1>3, <1>4, <2>1, <2>2, <2>3, UserJoinedTurns
<1> HIDE DEF d, room, group, w
<1>7. Followed(b, d, w)
  <2>1. b.windows = c.windows /\ b.groups = c.groups
    BY DEF OnlineAlone
  <2> QED
    BY <1>1, <1>3, <1>4, <1>5, <1>6, <2>1, ViewTurned DEF w
<1>8. w = [v EXCEPT !.members = [v.members EXCEPT ![r] = c.rooms[r].members \cup who]]
  <2>1. w = TurnedTo(ViewOf(c), r, room, group)
    BY DEF w
  <2>2. /\ room.known = c.rooms[r].known => w.known = ViewOf(c).known
        /\ group.synched = c.groups[r].synched => w.synched = ViewOf(c).synched
        /\ room.admin = c.rooms[r].admin => w.admin = ViewOf(c).admin
    BY <1>5, <2>1, TurnedFields
  <2>3. /\ w = [known |-> w.known, synched |-> w.synched, admin |-> w.admin,
                members |-> w.members]
        /\ w.members = [v.members EXCEPT ![r] = room.members]
    BY <2>1 DEF TurnedTo
  <2> HIDE DEF v
  <2> QED
    BY <1>4, <1>5, <2>2, <2>3 DEF View, v
<1>9. d.online = b.online /\ d.rooms = [c.rooms EXCEPT ![r] = room]
  BY <1>6 DEF Turned, OnlineAlone
<1>10. /\ d.rooms[r].members = c.rooms[r].members \cup who
       /\ \A q \in Rooms \ {r} : d.rooms[q].members = c.rooms[q].members
  BY <1>1, <1>5, <1>9 DEF Client
<1>11. Followed(c, d, w)
  BY <1>1, <1>7, ViewAlone
<1> QED
  BY <1>6, <1>8, <1>9, <1>10, <1>11 DEF WithMembers, Welcomed, d

LEMMA WelcomedSeen ==
  ASSUME NEW c, NEW b, NEW d, NEW r \in Rooms, NEW who, Welcomed(c, b, d, r, who),
         Seen(c), b.online \subseteq c.online \cup who
  PROVE  Seen(d)
<1>1. ASSUME NEW n \in d.online PROVE \E q \in Rooms : n \in d.rooms[q].members
  <2>1. CASE n \in who
    BY <2>1 DEF Welcomed
  <2>2. CASE n \in c.online
    <3>1. PICK q \in Rooms : n \in c.rooms[q].members
      BY <2>2, SeenMeans
    <3>2. CASE q = r
      BY <3>1, <3>2 DEF Welcomed
    <3>3. CASE q # r
      BY <3>1, <3>3 DEF Welcomed
    <3> QED
      BY <3>2, <3>3
  <2> QED
    BY <2>1, <2>2 DEF Welcomed
<1> QED
  BY <1>1, SeenMeans

LEMMA ReadJoin ==
  ASSUME NEW c, NEW m, Ready(c, m), m.kind = "JOIN", m.who # Me
  PROVE  Follows(c, UserJoined(Comes(c, {m.who}), m.room, {m.who}), m)
<1> DEFINE r == m.room
           who == {m.who}
           b == Comes(c, who)
           d == UserJoined(b, r, who)
           v == ViewOf(c)
<1>1. /\ Steady(c) /\ c \in Client /\ Seen(c) /\ r \in Rooms /\ m.who \in Nicks
      /\ r \in v.known /\ m.who \notin v.members[r]
  BY LineKinds DEF Ready, Steady, Fits
<1>2. m.who \notin c.rooms[r].members /\ v.members[r] = c.rooms[r].members
  BY <1>1, InView
<1>3. OnlineAlone(c, b) /\ b.online = c.online \cup (who \cap Users)
  BY <1>1, OnlineOnly
<1>4. Newcomers(c, r, who)
  BY <1>1, <1>2 DEF Newcomers
<1> HIDE DEF b, who, v, r
<1>5. Welcomed(c, b, d, r, who)
  BY <1>1, <1>3, <1>4, JoinedView
<1> HIDE DEF d
<1>6. After(v, m) = WithMembers(v, r, c.rooms[r].members \cup who)
  BY <1>2 DEF After, who, r, WithMembers
<1>7. Seen(d)
  BY <1>1, <1>3, <1>5, WelcomedSeen
<1>8. Followed(c, d, After(v, m))
  BY <1>5, <1>6 DEF Welcomed, v
<1> QED
  BY <1>7, <1>8 DEF Follows, d, b, who, v, r

LEMMA FollowedOn ==
  ASSUME NEW c, NEW b, NEW d, NEW v, NEW w, Followed(c, b, v), b.out = c.out, Followed(b, d, w)
  PROVE  Followed(c, d, w)
BY DEF Followed

Opened(c, d, r, on) ==
  /\ Followed(c, d, [ViewOf(c) EXCEPT !.admin =
                       IF on THEN ViewOf(c).admin \cup {r} ELSE ViewOf(c).admin \ {r}])
  /\ d.online = c.online
  /\ \A q \in Rooms : d.rooms[q].members = c.rooms[q].members

LEMMA OpedView ==
  ASSUME NEW c, Steady(c), NEW r \in Rooms, NEW on \in BOOLEAN,
         r \in ViewOf(c).known, Me \in ViewOf(c).members[r], on \/ r \in ViewOf(c).synched
  PROVE  Opened(c, ChatOped(c, r, on), r, on)
<1> DEFINE d == ChatOped(c, r, on)
           v == ViewOf(c)
           room == [c.rooms[r] EXCEPT !.admin = on]
           w == TurnedTo(v, r, room, c.groups[r])
<1>1. c \in Client /\ Alined(c)
  BY DEF Steady
<1>4. /\ c.groups[r].known = c.rooms[r].known /\ c.groups[r].members = c.rooms[r].members
      /\ c.windows[r].state = "online" => c.groups[r].synched
      /\ c.rooms[r] \in Room /\ c.groups[r] \in Group /\ v \in View
  BY SteadyRoom
<1>5. /\ room \in Room /\ room.known = c.rooms[r].known /\ room.admin = on
      /\ room.members = c.rooms[r].members
  BY <1>1, <1>4 DEF Room, Group
<1>6. Turned(c, d, r, room, c.groups[r])
      /\ (d.windows[r].state = "online" <=> c.windows[r].state = "online")
  <2>1. /\ c.rooms[r].known /\ c.groups[r].known /\ Me \in c.groups[r].members
        /\ on \/ c.groups[r].synched
    BY <1>1, <1>4, InView
  <2> QED
    BY <1>1, <2>1, OpedTurns
<1> HIDE DEF d, room, w
<1>7. Followed(c, d, w)
  BY <1>1, <1>4, <1>5, <1>6, ViewTurned DEF w
<1>8. w = [v EXCEPT !.admin = IF on THEN v.admin \cup {r} ELSE v.admin \ {r}]
  <2>1. w = TurnedTo(ViewOf(c), r, room, c.groups[r])
    BY DEF w
  <2>2. /\ room.known = c.rooms[r].known => w.known = ViewOf(c).known
        /\ c.groups[r].synched = c.groups[r].synched => w.synched = ViewOf(c).synched
    BY <1>4, <1>5, <2>1, TurnedFields
  <2>3. /\ w = [known |-> w.known, synched |-> w.synched, admin |-> w.admin,
                members |-> w.members]
        /\ w.admin = IF on THEN v.admin \cup {r} ELSE v.admin \ {r}
        /\ w.members = [v.members EXCEPT ![r] = room.members]
    BY <1>5 DEF w, TurnedTo
  <2>4. [v.members EXCEPT ![r] = room.members] = v.members
    BY <1>1, <1>4, <1>5, InView DEF View
  <2> HIDE DEF v
  <2> QED
    BY <1>4, <1>5, <2>2, <2>3, <2>4 DEF View, v
<1>9. d.online = c.online /\ \A q \in Rooms : d.rooms[q].members = c.rooms[q].members
  BY <1>1, <1>5, <1>6 DEF Turned, Client
<1> QED
  BY <1>7, <1>8, <1>9 DEF d, Opened

LEMMA ReadMode ==
  ASSUME NEW c, NEW m, Ready(c, m), m.kind = "MODE"
  PROVE  Follows(c, ChatOped(c, m.room, m.oped), m)
<1> DEFINE r == m.room
           d == ChatOped(c, r, m.oped)
           v == ViewOf(c)
<1>1. Steady(c) /\ c \in Client /\ Seen(c) /\ r \in Rooms /\ m.oped \in BOOLEAN /\ r \in v.synched
  BY LineKinds DEF Ready, Steady, Fits
<1>2. r \in v.known /\ Me \in v.members[r]
  BY <1>1 DEF Ready, Steady, Coherent
<1>3. Opened(c, d, r, m.oped)
  BY <1>1, <1>2, OpedView
<1> HIDE DEF d
<1>4. After(v, m) = [v EXCEPT !.admin = IF m.oped THEN v.admin \cup {r} ELSE v.admin \ {r}]
  BY DEF After
<1>5. Seen(d)
  BY <1>1, <1>3, SeenMeans DEF Opened
<1> QED
  BY <1>3, <1>4, <1>5 DEF Follows, Opened, d

LEMMA ReadEnd ==
  ASSUME NEW c, NEW m, Ready(c, m), m.kind = "END"
  PROVE  Follows(c, ChatSynched(c, m.room), m)
<1> DEFINE r == m.room
           d == ChatSynched(c, r)
           v == ViewOf(c)
           group == [c.groups[r] EXCEPT !.synched = TRUE]
           w == TurnedTo(v, r, c.rooms[r], group)
<1>1. Steady(c) /\ c \in Client /\ Alined(c) /\ Seen(c) /\ r \in Rooms /\ r \in v.known
  BY LineKinds DEF Ready, Steady, Fits
<1>2. /\ c.rooms[r].known /\ c.groups[r].known
      /\ c.groups[r].known = c.rooms[r].known /\ c.groups[r].members = c.rooms[r].members
      /\ c.rooms[r] \in Room /\ c.groups[r] \in Group /\ v \in View
  BY <1>1, InView, SteadyRoom
<1>3. /\ group \in Group /\ group.known = c.groups[r].known
      /\ group.members = c.groups[r].members /\ group.synched = TRUE
  BY <1>2 DEF Group
<1>4. Turned(c, d, r, c.rooms[r], group) /\ d.windows[r].state = "online"
  BY <1>1, <1>2, SynchedTurns
<1> HIDE DEF d, group, w
<1>5. Followed(c, d, w)
  BY <1>1, <1>2, <1>3, <1>4, ViewTurned DEF w
<1>6. w = [v EXCEPT !.synched = v.synched \cup {r}]
  <2>1. w = TurnedTo(ViewOf(c), r, c.rooms[r], group)
    BY DEF w
  <2>2. /\ c.rooms[r].known = c.rooms[r].known => w.known = ViewOf(c).known
        /\ c.rooms[r].admin = c.rooms[r].admin => w.admin = ViewOf(c).admin
    BY <1>1, <1>2, <1>3, <2>1, TurnedFields
  <2>3. /\ w = [known |-> w.known, synched |-> w.synched, admin |-> w.admin,
                members |-> w.members]
        /\ w.synched = v.synched \cup {r}
        /\ w.members = [v.members EXCEPT ![r] = c.rooms[r].members]
    BY <1>3 DEF w, TurnedTo
  <2>4. [v.members EXCEPT ![r] = c.rooms[r].members] = v.members
    BY <1>1, <1>2, InView DEF View
  <2> HIDE DEF v
  <2> QED
    BY <1>2, <2>2, <2>3, <2>4 DEF View, v
<1>7. After(v, m) = w
  BY <1>6 DEF After
<1>8. d.online = c.online /\ \A q \in Rooms : d.rooms[q].members = c.rooms[q].members
  BY <1>1, <1>4 DEF Turned, Client
<1>9. Seen(d)
  BY <1>1, <1>8, SeenMeans
<1> QED
  BY <1>5, <1>7, <1>9 DEF Follows, d
LEMMA OnlineFollows ==
  ASSUME NEW c, NEW b, NEW d, NEW v, Followed(c, b, v), OnlineAlone(b, d)
  PROVE  Followed(c, d, v)
BY DEF Followed, OnlineAlone, Alined, ViewOf

LEMMA ReadNames ==
  ASSUME NEW c, NEW m, Ready(c, m), m.kind = "NAMES"
  PROVE  LET d == Comes(UserJoined(c, m.room, m.members), m.members)
         IN  Follows(c, IF m.oped THEN ChatOped(d, m.room, TRUE) ELSE d, m)
<1> DEFINE r == m.room
           who == m.members
           b == UserJoined(c, r, who)
           d == Comes(b, who)
           e == ChatOped(d, r, TRUE)
           v == ViewOf(c)
           w == WithMembers(v, r, who)
           x == [w EXCEPT !.admin = w.admin \cup {r}]
<1>1. /\ Steady(c) /\ c \in Client /\ Seen(c) /\ v \in View /\ Coherent(v)
      /\ r \in Rooms /\ who \in SUBSET Nicks /\ m.oped \in BOOLEAN
      /\ r \in v.known /\ r \notin v.synched /\ v.members[r] = {} /\ Me \in who
  BY LineKinds DEF Ready, Steady, Fits, Coherent
<1>2. c.rooms[r].members = {}
  BY <1>1, InView
<1>3. Newcomers(c, r, who) /\ OnlineAlone(c, c)
  BY <1>1, <1>2 DEF Newcomers, OnlineAlone
<1> HIDE DEF r, who
<1>4. Welcomed(c, c, b, r, who)
  BY <1>1, <1>3, JoinedView
<1>5. Followed(c, b, w) /\ b \in Client /\ b.out = c.out
  <2>1. c.rooms[r].members \cup who = who
    BY <1>2
  <2> HIDE DEF b
  <2> QED
    BY <1>4, <2>1 DEF Welcomed, Followed
<1> HIDE DEF b
<1>6. OnlineAlone(b, d) /\ d.online = b.online \cup (who \cap Users)
  BY <1>1, <1>5, OnlineOnly
<1> HIDE DEF d
<1>7. Followed(c, d, w) /\ d.out = c.out
  BY <1>5, <1>6, OnlineFollows DEF OnlineAlone
<1>8. Seen(d)
  <2>0. Followed(c, d, WithMembers(ViewOf(c), r, c.rooms[r].members \cup who))
    BY <1>4, <1>6, OnlineFollows DEF Welcomed
  <2>1. Welcomed(c, d, d, r, who)
    BY <1>4, <1>6, <1>7, <2>0 DEF Welcomed, OnlineAlone
  <2>2. d.online \subseteq c.online \cup who
    BY <1>4, <1>6 DEF Welcomed
  <2> QED
    BY <1>1, <2>1, <2>2, WelcomedSeen
<1>9. /\ w.known = v.known /\ w.synched = v.synched /\ w.admin = v.admin
      /\ w.members = [v.members EXCEPT ![r] = who]
      /\ w = [known |-> w.known, synched |-> w.synched, admin |-> w.admin,
              members |-> w.members]
  <2> HIDE DEF v
  <2> QED
    BY <1>1 DEF WithMembers, View
<1>10. /\ m.oped => After(v, m) = x
       /\ ~m.oped => After(v, m) = w
  <2>1. After(v, m) = [known   |-> v.known, synched |-> v.synched,
                       admin   |-> IF m.oped THEN v.admin \cup {r} ELSE v.admin,
                       members |-> [v.members EXCEPT ![r] = who]]
    BY DEF After, r, who
  <2> HIDE DEF v, w
  <2>2. x = [known |-> w.known, synched |-> w.synched, admin |-> w.admin \cup {r},
             members |-> w.members]
    BY <1>9
  <2> HIDE DEF x
  <2>3. CASE m.oped
    BY <1>9, <2>1, <2>2, <2>3
  <2>4. CASE ~m.oped
    BY <1>9, <2>1, <2>4
  <2> QED
    BY <2>3, <2>4
<1>11. Coherent(w)
  <2> HIDE DEF v, w
  <2> QED
    BY <1>1, <1>9 DEF Coherent, View
<1>12. Steady(d) /\ ViewOf(d) = w
  BY <1>7, <1>11 DEF Steady, Followed
<1>13. Followed(d, e, x) /\ Seen(e)
  <2>1. TRUE \in BOOLEAN /\ r \in w.known /\ Me \in w.members[r]
    <3> HIDE DEF v, w
    <3> QED
      BY <1>1, <1>9 DEF View
  <2>2. Opened(d, e, r, TRUE)
    BY <1>1, <1>12, <2>1, OpedView
  <2> HIDE DEF e, w
  <2>3. Followed(d, e, x)
    BY <1>12, <2>2 DEF Opened
  <2>4. Seen(e)
    BY <1>8, <2>2, SeenMeans DEF Opened
  <2> QED
    BY <2>3, <2>4
<1>14. CASE m.oped
  <2>1. Followed(c, e, x)
    <3> HIDE DEF e, x, w
    <3> QED
      BY <1>7, <1>13, FollowedOn
  <2> QED
    BY <1>10, <1>13, <1>14, <2>1 DEF Follows, b, d, r, who
<1>15. CASE ~m.oped
  BY <1>7, <1>8, <1>10, <1>15 DEF Follows, b, d, r, who
<1> QED
  BY <1>1, <1>14, <1>15
(* A room is left: who is seen in no other is not online any more. *)
LEMMA LeavingView ==
  ASSUME NEW c, Steady(c), Seen(c), NEW r \in Rooms, r \in ViewOf(c).known, NEW d,
         Turned(DiscRem(c, r), d, r, NoRoom, NoGroup), d.windows[r].state # "online"
  PROVE  Followed(c, d, Forgotten(ViewOf(c), r)) /\ Seen(d)
<1> DEFINE b == DiscRem(c, r)
           v == ViewOf(c)
<1>1. c \in Client /\ Alined(c) /\ c.rooms[r].known
  BY InView DEF Steady
<1>2. /\ OnlineAlone(c, b)
      /\ b.online = c.online \ (c.rooms[r].members \ VisibleBut(c, r))
  BY <1>1, DiscRemOnly
<1>3. b \in Client /\ Alined(b) /\ ViewOf(b) = v
  BY <1>1, <1>2, ViewAlone
<1> HIDE DEF b
<1>4. Turned(b, d, r, NoRoom, NoGroup)
  BY DEF b
<1>5. /\ NoRoom.known = FALSE /\ NoGroup.known = FALSE /\ NoRoom.members = {}
      /\ NoGroup.members = {} /\ NoGroup.synched = FALSE /\ NoRoom.admin = FALSE
  BY DEF NoRoom, NoGroup
<1>6. Followed(b, d, TurnedTo(v, r, NoRoom, NoGroup))
  BY <1>3, <1>4, <1>5, Blanks, ViewTurned
<1>7. TurnedTo(v, r, NoRoom, NoGroup) = Forgotten(v, r)
  BY <1>5 DEF TurnedTo, Forgotten
<1>8. Followed(c, d, Forgotten(v, r))
  BY <1>1, <1>2, <1>6, <1>7, ViewAlone
<1>9. d.online = b.online /\ d.rooms = [c.rooms EXCEPT ![r] = NoRoom]
  BY <1>2, <1>4 DEF Turned, OnlineAlone
<1>10. ASSUME NEW n \in d.online PROVE \E q \in Rooms : n \in d.rooms[q].members
  <2>1. \E q \in Rooms : n \in c.rooms[q].members
    BY <1>2, <1>9, SeenMeans
  <2>2. n \in c.rooms[r].members => \E q \in Rooms \ {r} : n \in c.rooms[q].members
    BY <1>2, <1>9, ButMeans
  <2>3. PICK q \in Rooms \ {r} : n \in c.rooms[q].members
    BY <2>1, <2>2
  <2> QED
    BY <1>1, <1>9, <2>3 DEF Client
<1> QED
  BY <1>8, <1>10, SeenMeans

LEMMA ReadOwnLeave ==
  ASSUME NEW c, NEW m, Ready(c, m), m.kind \in {"PART", "KICK"}, m.who = Me
  PROVE  /\ Follows(c, ChatLeft(DiscRem(c, m.room), m.room), m)
         /\ Follows(c, ChatKicked(DiscRem(c, m.room), m.room), m)
<1> DEFINE r == m.room
           b == DiscRem(c, r)
           v == ViewOf(c)
<1>1. /\ Steady(c) /\ c \in Client /\ Alined(c) /\ Seen(c) /\ r \in Rooms /\ r \in v.known
  BY LineKinds DEF Ready, Steady, Fits
<1>2. c.rooms[r].known /\ c.groups[r].known
  BY <1>1, InView DEF Alined
<1>3. OnlineAlone(c, b)
  BY <1>1, <1>2, DiscRemOnly
<1>4. b \in Client /\ b.rooms[r].known /\ b.groups[r].known
  BY <1>2, <1>3 DEF OnlineAlone
<1>5. /\ Turned(b, ChatLeft(b, r), r, NoRoom, NoGroup)
      /\ ChatLeft(b, r).windows[r].state # "online"
      /\ Turned(b, ChatKicked(b, r), r, NoRoom, NoGroup)
      /\ ChatKicked(b, r).windows[r].state # "online"
  <2> HIDE DEF b
  <2> QED
    BY <1>1, <1>4, LeftTurns
<1>6. After(v, m) = Forgotten(v, r)
  BY DEF After
<1>7. /\ Followed(c, ChatLeft(b, r), Forgotten(v, r)) /\ Seen(ChatLeft(b, r))
      /\ Followed(c, ChatKicked(b, r), Forgotten(v, r)) /\ Seen(ChatKicked(b, r))
  <2> DEFINE left == ChatLeft(b, r)
             kicked == ChatKicked(b, r)
  <2> HIDE DEF left, kicked, r
  <2>1. Followed(c, left, Forgotten(v, r)) /\ Seen(left)
    BY <1>1, <1>5, LeavingView DEF left
  <2>2. Followed(c, kicked, Forgotten(v, r)) /\ Seen(kicked)
    BY <1>1, <1>5, LeavingView DEF kicked
  <2> QED
    BY <2>1, <2>2 DEF left, kicked, r
<1> QED
  BY <1>6, <1>7 DEF Follows

(* Somebody is gone from some of the rooms. *)
Lost(c, b, d, rooms, n) ==
  /\ Followed(c, d, [ViewOf(c) EXCEPT !.members = [q \in Rooms |-> d.rooms[q].members]])
  /\ d.online = b.online
  /\ \A q \in Rooms : d.rooms[q].members =
                        IF q \in rooms THEN c.rooms[q].members \ {n} ELSE c.rooms[q].members

LEMMA LeftView ==
  ASSUME NEW c, Steady(c), NEW b, OnlineAlone(c, b), NEW rooms \in SUBSET Rooms, NEW n,
         \A r \in rooms : n \in c.rooms[r].members
  PROVE  Lost(c, b, UserLeft(b, rooms, n), rooms, n)
<1> DEFINE d == UserLeft(b, rooms, n)
           v == ViewOf(c)
<1>1. c \in Client /\ Alined(c)
  BY DEF Steady
<1>2. b \in Client /\ Alined(b) /\ ViewOf(b) = v /\ b.rooms = c.rooms /\ b.groups = c.groups
  BY <1>1, ViewAlone DEF OnlineAlone
<1>3. Here(b, rooms, n)
  BY <1>2, SteadyRoom DEF Here
<1>4. LeftRooms(b, d, rooms, n)
  BY <1>2, <1>3, UserLeftRegular
<1> HIDE DEF d
<1>5. \A q \in Rooms : d.groups[q].members = d.rooms[q].members
  BY <1>2, <1>4 DEF Alined, LeftRooms
<1>6. Followed(b, d, [v EXCEPT !.members = [q \in Rooms |-> d.rooms[q].members]])
  BY <1>2, <1>4, <1>5, ViewRegular DEF LeftRooms
<1>7. Followed(c, d, [v EXCEPT !.members = [q \in Rooms |-> d.rooms[q].members]])
  BY <1>1, <1>6, ViewAlone
<1> QED
  BY <1>2, <1>4, <1>7 DEF Lost, LeftRooms, d
LEMMA ReadLeave ==
  ASSUME NEW c, NEW m, Ready(c, m), m.kind \in {"PART", "KICK"}, m.who # Me
  PROVE  Follows(c, UserLeft(DiscUserRem(c, m.room, {m.who}), {m.room}, m.who), m)
<1> DEFINE r == m.room
           n == m.who
           b == DiscUserRem(c, r, {n})
           d == UserLeft(b, {r}, n)
           v == ViewOf(c)
<1>1. /\ Steady(c) /\ c \in Client /\ Alined(c) /\ Seen(c) /\ r \in Rooms
      /\ n \in v.members[r] /\ v \in View
  BY LineKinds DEF Ready, Steady, Fits, Coherent
<1>2. n \in c.rooms[r].members /\ {r} \in SUBSET Rooms
  BY <1>1, InView
<1>3. OnlineAlone(c, b) /\ b.online = c.online \ ({n} \ VisibleBut(c, r))
  BY <1>1, RemOnly
<1> HIDE DEF r, n, b
<1>4. Lost(c, b, d, {r}, n)
  BY <1>1, <1>2, <1>3, LeftView
<1> HIDE DEF d
<1>5. After(v, m) = [v EXCEPT !.members = [v.members EXCEPT ![r] = v.members[r] \ {n}]]
  BY DEF After, r, n
<1>6. [q \in Rooms |-> d.rooms[q].members] = [v.members EXCEPT ![r] = v.members[r] \ {n}]
  <2>1. \A q \in Rooms : v.members[q] = c.rooms[q].members
    BY <1>1, InView
  <2> HIDE DEF v
  <2> QED
    BY <1>1, <1>4, <2>1 DEF Lost, View
<1>7. Followed(c, d, After(v, m))
  BY <1>4, <1>5, <1>6 DEF Lost
<1>8. ASSUME NEW x \in d.online PROVE \E q \in Rooms : x \in d.rooms[q].members
  <2>1. x \in c.online /\ (x = n => x \in VisibleBut(c, r))
    BY <1>3, <1>4 DEF Lost
  <2>2. CASE x = n
    <3>1. PICK q \in Rooms \ {r} : x \in c.rooms[q].members
      BY <2>1, <2>2, ButMeans
    <3> QED
      BY <1>4, <3>1 DEF Lost
  <2>3. CASE x # n
    <3>1. PICK q \in Rooms : x \in c.rooms[q].members
      BY <1>1, <2>1, SeenMeans
    <3>2. x \in c.rooms[q].members \ {n}
      BY <2>3, <3>1
    <3> QED
      BY <1>4, <3>1, <3>2 DEF Lost
  <2> QED
    BY <2>2, <2>3
<1> QED
  BY <1>7, <1>8, SeenMeans DEF Follows, d, b, r, n

LEMMA ReadQuit ==
  ASSUME NEW c, NEW m, Ready(c, m), m.kind = "QUIT"
  PROVE  Follows(c, UserQuit(Goes(c, {m.who}), m.who), m)
<1> DEFINE n == m.who
           b == Goes(c, {n})
           rooms == {r \in Rooms : n \in c.rooms[r].members}
           d == UserLeft(b, rooms, n)
           v == ViewOf(c)
<1>1. Steady(c) /\ c \in Client /\ Alined(c) /\ Seen(c) /\ v \in View
  BY LineKinds DEF Ready, Steady, Fits, Coherent
<1>2. OnlineAlone(c, b) /\ b.online = c.online \ {n}
  BY <1>1, OnlineOnly
<1>3. UserQuit(b, n) = d
  BY <1>2 DEF UserQuit, OnlineAlone
<1> HIDE DEF b
<1>4. rooms \in SUBSET Rooms /\ \A r \in rooms : n \in c.rooms[r].members
  OBVIOUS
<1>5. Lost(c, b, d, rooms, n)
  <2> HIDE DEF rooms
  <2> QED
    BY <1>1, <1>2, <1>4, LeftView
<1> HIDE DEF d
<1>6. ASSUME NEW q \in Rooms PROVE d.rooms[q].members = c.rooms[q].members \ {n}
  <2>1. CASE q \in rooms
    BY <1>5, <2>1 DEF Lost
  <2>2. CASE q \notin rooms
    <3>1. n \notin c.rooms[q].members
      BY <2>2
    <3> QED
      BY <1>5, <2>2, <3>1 DEF Lost
  <2> QED
    BY <2>1, <2>2
<1>7. [q \in Rooms |-> d.rooms[q].members] = [q \in Rooms |-> v.members[q] \ {n}]
  BY <1>1, <1>6, InView
<1>8. After(v, m) = [v EXCEPT !.members = [q \in Rooms |-> v.members[q] \ {n}]]
  BY DEF After
<1>9. Followed(c, d, After(v, m))
  BY <1>5, <1>7, <1>8 DEF Lost
<1>10. ASSUME NEW x \in d.online PROVE \E q \in Rooms : x \in d.rooms[q].members
  <2>1. x \in c.online /\ x # n
    BY <1>2, <1>5 DEF Lost
  <2>2. PICK q \in Rooms : x \in c.rooms[q].members
    BY <1>1, <2>1, SeenMeans
  <2> QED
    BY <1>6, <2>1, <2>2
<1>11. Seen(d)
  BY <1>10, SeenMeans
<1> QED
  BY <1>3, <1>9, <1>11 DEF Follows, b

LEMMA ReadNick ==
  ASSUME NEW c, NEW m, Ready(c, m), m.kind = "NICK"
  PROVE  Follows(c, UserNickchanged(c, m.who, m.new), m)
<1> DEFINE old == m.who
           new == m.new
           d == UserNickchanged(c, old, new)
           v == ViewOf(c)
<1>1. /\ Steady(c) /\ c \in Client /\ Alined(c) /\ Seen(c) /\ v \in View
      /\ old \in Users /\ new \in Users
      /\ \A r \in Rooms : old \in v.members[r] => new \notin v.members[r]
  BY LineKinds DEF Ready, Steady, Fits, Coherent
<1>2. Changes(c, old, new)
  <2>1. ASSUME NEW r \in Rooms
        PROVE  /\ c.groups[r].known = c.rooms[r].known
               /\ c.groups[r].members = c.rooms[r].members
               /\ old \in c.rooms[r].members => c.rooms[r].known /\ new \notin c.rooms[r].members
    BY <1>1, InView, SteadyRoom
  <2> QED
    BY <2>1 DEF Changes
<1>3. NickIs(c, d, old, new)
  BY <1>1, <1>2, NickchangedRegular
<1> HIDE DEF d
<1>4. Followed(c, d, [v EXCEPT !.members = [q \in Rooms |-> d.rooms[q].members]])
  <2>1. \A q \in Rooms : d.groups[q].members = d.rooms[q].members
    BY <1>1, <1>3 DEF NickIs, Alined
  <2> QED
    BY <1>1, <1>3, <2>1, ViewRegular DEF NickIs
<1>5. [q \in Rooms |-> d.rooms[q].members] = [q \in Rooms |-> Renamed(v.members[q], old, new)]
  BY <1>1, <1>3, InView DEF NickIs
<1>6. After(v, m) = [v EXCEPT !.members = [q \in Rooms |-> Renamed(v.members[q], old, new)]]
  BY DEF After
<1>7. Followed(c, d, After(v, m))
  BY <1>4, <1>5, <1>6
<1>8. ASSUME NEW x \in d.online PROVE \E q \in Rooms : x \in d.rooms[q].members
  <2>1. x \in Renamed(c.online, old, new)
    BY <1>3 DEF NickIs
  <2>2. CASE x \in c.online /\ x # old
    <3>1. PICK q \in Rooms : x \in c.rooms[q].members
      BY <1>1, <2>2, SeenMeans
    <3>2. x \in Renamed(c.rooms[q].members, old, new)
      BY <2>2, <3>1 DEF Renamed
    <3> QED
      BY <1>3, <3>2 DEF NickIs
  <2>3. CASE old \in c.online /\ x = new
    <3>1. PICK q \in Rooms : old \in c.rooms[q].members
      BY <1>1, <2>3, SeenMeans
    <3>2. x \in Renamed(c.rooms[q].members, old, new)
      BY <2>3, <3>1 DEF Renamed
    <3> QED
      BY <1>3, <3>2 DEF NickIs
  <2> QED
    BY <2>1, <2>2, <2>3 DEF Renamed
<1> QED
  BY <1>7, <1>8, SeenMeans DEF Follows, d

LEMMA ReadSay ==
  ASSUME NEW c, NEW m, Ready(c, m), m.kind = "SAY"
  PROVE  Follows(c, Cgetwin(c, m.room), m)
<1> DEFINE r == m.room
           d == Cgetwin(c, r)
<1>1. Steady(c) /\ c \in Client /\ Alined(c) /\ Seen(c) /\ r \in Rooms
  BY LineKinds DEF Ready, Steady
<1>2. /\ OnlyWindow(c, d, r) /\ d.out = c.out
      /\ d.windows[r].state = IF c.windows[r].state = "none" THEN "offline"
                                                            ELSE c.windows[r].state
  BY <1>1, CgetwinOnly
<1> HIDE DEF d
<1>3. \A q \in Rooms : d.windows[q].state = "online" <=> c.windows[q].state = "online"
  BY <1>2 DEF OnlyWindow
<1>4. ViewOf(d) = ViewOf(c) /\ Alined(d)
  BY <1>1, <1>2, <1>3 DEF OnlyWindow, ViewOf, Alined
<1>5. Followed(c, d, ViewOf(c))
  BY <1>2, <1>3, <1>4 DEF Followed, OnlyWindow, More
<1>6. After(ViewOf(c), m) = ViewOf(c)
  BY DEF After
<1>7. Seen(d)
  BY <1>1, <1>2 DEF OnlyWindow, Seen, Visible
<1> QED
  BY <1>5, <1>6, <1>7 DEF Follows, d
(* One for each line. *)
LEMMA LineReads ==
  ASSUME NEW m, m = Head(down), Ready(client, m), Line
  PROVE  /\ Follows(client, client', m)
         /\ down # <<>> /\ down' = Tail(down) /\ up' = up /\ server' = server
<1>1. CASE JoinLine
  <2>1. m.kind = "JOIN"
    BY <1>1 DEF JoinLine, Read
  <2>2. CASE m.who = Me
    <3>1. client' = ChatJoined(Comes(client, {Me}), m.room)
      BY <1>1, <2>2 DEF JoinLine
    <3> QED
      BY <1>1, <2>1, <2>2, <3>1, ReadJoinMe DEF JoinLine, Read
  <2>3. CASE m.who # Me
    <3>1. client' = UserJoined(Comes(client, {m.who}), m.room, {m.who})
      BY <1>1, <2>3 DEF JoinLine
    <3> QED
      BY <1>1, <2>1, <2>3, <3>1, ReadJoin DEF JoinLine, Read
  <2> QED
    BY <2>2, <2>3
<1>2. CASE NamesLine
  <2> DEFINE d == Comes(UserJoined(client, m.room, m.members), m.members)
  <2>1. m.kind = "NAMES" /\ client' = IF m.oped THEN ChatOped(d, m.room, TRUE) ELSE d
    BY <1>2 DEF NamesLine, Read
  <2>2. Follows(client, IF m.oped THEN ChatOped(d, m.room, TRUE) ELSE d, m)
    BY <2>1, ReadNames
  <2> QED
    BY <1>2, <2>1, <2>2 DEF NamesLine, Read
<1>3. CASE EndLine
  BY <1>3, ReadEnd DEF EndLine, Read
<1>4. CASE PartLine
  <2>1. m.kind = "PART"
    BY <1>4 DEF PartLine, Read
  <2>2. CASE m.who = Me
    <3>1. client' = ChatLeft(DiscRem(client, m.room), m.room)
      BY <1>4, <2>2 DEF PartLine
    <3> QED
      BY <1>4, <2>1, <2>2, <3>1, ReadOwnLeave DEF PartLine, Read
  <2>3. CASE m.who # Me
    <3>1. client' = UserLeft(DiscUserRem(client, m.room, {m.who}), {m.room}, m.who)
      BY <1>4, <2>3 DEF PartLine
    <3> QED
      BY <1>4, <2>1, <2>3, <3>1, ReadLeave DEF PartLine, Read
  <2> QED
    BY <2>2, <2>3
<1>5. CASE KickLine
  <2>1. m.kind = "KICK"
    BY <1>5 DEF KickLine, Read
  <2>2. CASE m.who = Me
    <3>1. client' = ChatKicked(DiscRem(client, m.room), m.room)
      BY <1>5, <2>2 DEF KickLine
    <3> QED
      BY <1>5, <2>1, <2>2, <3>1, ReadOwnLeave DEF KickLine, Read
  <2>3. CASE m.who # Me
    <3>1. client' = UserLeft(DiscUserRem(client, m.room, {m.who}), {m.room}, m.who)
      BY <1>5, <2>3 DEF KickLine
    <3> QED
      BY <1>5, <2>1, <2>3, <3>1, ReadLeave DEF KickLine, Read
  <2> QED
    BY <2>2, <2>3
<1>6. CASE QuitLine
  BY <1>6, ReadQuit DEF QuitLine, Read
<1>7. CASE NickLine
  BY <1>7, ReadNick DEF NickLine, Read
<1>8. CASE SayLine
  BY <1>8, ReadSay DEF SayLine, Read
<1>9. CASE ModeLine
  BY <1>9, ReadMode DEF ModeLine, Read
<1> QED
  BY <1>1, <1>2, <1>3, <1>4, <1>5, <1>6, <1>7, <1>8, <1>9 DEF Line

-----------------------------------------------------------------------------
(* The lines under way lead from one view to another. *)

Linked(v, lines, w) ==
  \E h : Leads(h, lines) /\ h[0] = v /\ h[Len(lines)] = w

LEMMA LinkEnds ==
  ASSUME NEW lines \in Seq(Lines), NEW v, NEW w, Linked(v, lines, w)
  PROVE  /\ Coherent(v) /\ Coherent(w)
         /\ lines = <<>> => v = w
         /\ \A r \in Rooms : r \in v.known /\ r \notin w.known
                              => \E i \in DOMAIN lines : IsLeave(lines[i], r)
<1>1. PICK h : Leads(h, lines) /\ h[0] = v /\ h[Len(lines)] = w
  BY DEF Linked
<1>2. Len(lines) \in Nat /\ 0 \in 0..Len(lines) /\ Len(lines) \in 0..Len(lines)
      /\ 0 <= Len(lines) /\ DOMAIN lines = 1..Len(lines) /\ 0 + 1 = 1
  OBVIOUS
<1>3. Coherent(v) /\ Coherent(w)
  BY <1>1, <1>2 DEF Leads
<1>4. ASSUME NEW r \in Rooms, r \in v.known, r \notin w.known
      PROVE  \E i \in DOMAIN lines : IsLeave(lines[i], r)
  <2>1. \E k \in (0 + 1)..Len(lines) : IsLeave(lines[k], r)
    BY <1>1, <1>2, <1>4 DEF Leads
  <2> QED
    BY <1>2, <2>1
<1>5. lines = <<>> => v = w
  BY <1>1
<1> QED
  BY <1>3, <1>4, <1>5

LEMMA LinkRead ==
  ASSUME NEW lines \in Seq(Lines), lines # <<>>, NEW v, NEW w, Linked(v, lines, w)
  PROVE  Fits(v, Head(lines)) /\ Linked(After(v, Head(lines)), Tail(lines), w)
<1>1. PICK h : Leads(h, lines) /\ h[0] = v /\ h[Len(lines)] = w
  BY DEF Linked
<1> DEFINE g == [i \in 0..(Len(lines) - 1) |-> h[i + 1]]
<1>2. Fits(h[0], Head(lines)) /\ h[1] = After(h[0], Head(lines)) /\ Leads(g, Tail(lines))
  BY <1>1, ReadOne
<1>3. Len(lines) \in Nat \ {0} /\ Len(Tail(lines)) = Len(lines) - 1
  OBVIOUS
<1>4. g[0] = h[1] /\ g[Len(Tail(lines))] = h[Len(lines)]
  BY <1>3
<1> HIDE DEF g
<1> QED
  BY <1>1, <1>2, <1>4 DEF Linked

LEMMA LinkTell ==
  ASSUME NEW lines \in Seq(Lines), NEW v, NEW w, Linked(v, lines, w), NEW m \in Lines, Fits(w, m)
  PROVE  Linked(v, Append(lines, m), After(w, m))
<1>1. PICK h : Leads(h, lines) /\ h[0] = v /\ h[Len(lines)] = w
  BY DEF Linked
<1>2. PICK g : /\ Leads(g, Append(lines, m)) /\ g[0] = h[0]
               /\ g[Len(lines) + 1] = After(h[Len(lines)], m)
  BY <1>1, TellOne
<1>3. Len(Append(lines, m)) = Len(lines) + 1
  OBVIOUS
<1> QED
  BY <1>1, <1>2, <1>3 DEF Linked

LEMMA LinkNone ==
  ASSUME NEW v, Coherent(v)
  PROVE  Linked(v, <<>>, v)
<1> DEFINE h == [i \in 0..0 |-> v]
<1>1. Len(<<>>) = 0 /\ v \in View
  BY DEF Coherent
<1>2. h \in [0..0 -> View] /\ (\A i \in 0..0 : h[i] = v) /\ h[0] = v
  BY <1>1
<1> HIDE DEF h
<1>3. \A i \in 1..0 : FALSE
  OBVIOUS
<1>4. Leads(h, <<>>)
  BY <1>1, <1>2, <1>3 DEF Leads
<1> QED
  BY <1>1, <1>2, <1>4 DEF Linked
-----------------------------------------------------------------------------
(* What the server does is what it tells. *)

Told(s, t, m) == m \in Lines /\ Fits(ViewAt(s), m) /\ ViewAt(t) = After(ViewAt(s), m)

LEMMA AtFields ==
  ASSUME NEW s, NEW r \in Rooms
  PROVE  /\ r \in ViewAt(s).known <=> Me \in s.members[r]
         /\ r \in ViewAt(s).synched <=> Me \in s.members[r]
         /\ ViewAt(s).admin = s.oper
         /\ ViewAt(s).members[r] = IF Me \in s.members[r] THEN s.members[r] ELSE {}
BY DEF ViewAt

LEMMA AtView ==
  ASSUME NEW s \in ServerType
  PROVE  ViewAt(s) \in View
<1>1. [r \in Rooms |-> IF Me \in s.members[r] THEN s.members[r] ELSE {}]
        \in [Rooms -> SUBSET Nicks]
  BY DEF ServerType
<1> QED
  BY <1>1 DEF ViewAt, View, ServerType

LEMMA ViewFields ==
  ASSUME NEW v \in View, NEW x
  PROVE  /\ [v EXCEPT !.members = x] = [known |-> v.known, synched |-> v.synched,
                                      admin |-> v.admin, members |-> x]
         /\ [v EXCEPT !.admin = x] = [known |-> v.known, synched |-> v.synched,
                                    admin |-> x, members |-> v.members]
         /\ [v EXCEPT !.synched = x] = [known |-> v.known, synched |-> x,
                                      admin |-> v.admin, members |-> v.members]
BY DEF View

(* Members are others than before, we are where we were. *)
Peopled(s, t, ms) ==
  /\ ms \in [Rooms -> SUBSET Nicks] /\ t.oper = s.oper
  /\ \A q \in Rooms : /\ Me \in t.members[q] <=> Me \in s.members[q]
                      /\ ms[q] = IF Me \in s.members[q] THEN t.members[q] ELSE {}

LEMMA MembersAt ==
  ASSUME NEW s \in ServerType, NEW t \in ServerType, NEW ms, Peopled(s, t, ms)
  PROVE  ViewAt(t) = [ViewAt(s) EXCEPT !.members = ms]
<1>0. /\ \A q \in Rooms : Me \in t.members[q] <=> Me \in s.members[q]
      /\ \A q \in Rooms : ms[q] = IF Me \in s.members[q] THEN t.members[q] ELSE {}
      /\ ms \in [Rooms -> SUBSET Nicks]
  BY DEF Peopled
<1>1. {r \in Rooms : Me \in t.members[r]} = {r \in Rooms : Me \in s.members[r]}
  BY <1>0
<1>2. [r \in Rooms |-> IF Me \in t.members[r] THEN t.members[r] ELSE {}] = ms
  <2> DEFINE f == [r \in Rooms |-> IF Me \in t.members[r] THEN t.members[r] ELSE {}]
  <2>1. ASSUME NEW q \in Rooms PROVE f[q] = ms[q]
    BY <1>0
  <2>2. DOMAIN f = Rooms /\ DOMAIN ms = Rooms /\ f = [q \in Rooms |-> f[q]]
        /\ ms = [q \in Rooms |-> ms[q]]
    BY <1>0
  <2> HIDE DEF f
  <2> QED
    BY <2>1, <2>2 DEF f
<1>3. /\ ViewAt(t).known = ViewAt(s).known /\ ViewAt(t).synched = ViewAt(s).synched
      /\ ViewAt(t).admin = ViewAt(s).admin /\ ViewAt(t).members = ms
  BY <1>1, <1>2 DEF ViewAt, Peopled
<1>4. ViewAt(t) = [known |-> ViewAt(t).known, synched |-> ViewAt(t).synched,
                   admin |-> ViewAt(t).admin, members |-> ViewAt(t).members]
  BY DEF ViewAt
<1>5. [ViewAt(s) EXCEPT !.members = ms] =
        [known |-> ViewAt(s).known, synched |-> ViewAt(s).synched,
         admin |-> ViewAt(s).admin, members |-> ms]
  BY AtView, ViewFields
<1> QED
  BY <1>3, <1>4, <1>5

LEMMA EnterTold ==
  ASSUME NEW s \in ServerType, NEW u \in Users, NEW r \in Rooms, u \notin s.members[r]
  PROVE  LET t == [s EXCEPT !.members[r] = @ \cup {u}]
             m == [kind |-> "JOIN", room |-> r, who |-> u]
         IN  IF Me \in s.members[r] THEN Told(s, t, m) ELSE ViewAt(t) = ViewAt(s)
<1> DEFINE t == [s EXCEPT !.members[r] = @ \cup {u}]
           m == [kind |-> "JOIN", room |-> r, who |-> u]
<1>1. /\ u \in Nicks /\ u # Me /\ t \in ServerType /\ t.oper = s.oper
      /\ t.members = [s.members EXCEPT ![r] = s.members[r] \cup {u}]
  BY RoomsAssumption DEF ServerType, Nicks
<1> HIDE DEF t
<1>2. \A q \in Rooms : Me \in t.members[q] <=> Me \in s.members[q]
  BY <1>1 DEF ServerType
<1>3. CASE Me \in s.members[r]
  <2> DEFINE ms == [ViewAt(s).members EXCEPT ![r] = ViewAt(s).members[r] \cup {u}]
  <2>1. Peopled(s, t, ms)
    BY <1>1, <1>2, <1>3 DEF ServerType, ViewAt, Peopled
  <2> HIDE DEF ms
  <2>2. ViewAt(t) = [ViewAt(s) EXCEPT !.members = ms]
    BY <1>1, <2>1, MembersAt
  <2>3. After(ViewAt(s), m) = [ViewAt(s) EXCEPT !.members = ms]
    BY <1>1 DEF After, ms
  <2>4. Fits(ViewAt(s), m)
    BY <1>1, <1>3, AtFields DEF Fits
  <2>5. m \in Lines
    BY <1>1 DEF Lines
  <2> QED
    BY <1>3, <2>2, <2>3, <2>4, <2>5 DEF Told, t
<1>4. CASE Me \notin s.members[r]
  BY <1>1, <1>2, <1>4 DEF ViewAt, ServerType, t
<1> QED
  BY <1>3, <1>4
LEMMA LeaveTold ==
  ASSUME NEW s \in ServerType, NEW u \in Users, NEW r \in Rooms, u \in s.members[r],
         NEW kind \in {"PART", "KICK"}
  PROVE  LET t == [s EXCEPT !.members[r] = @ \ {u}]
             m == [kind |-> kind, room |-> r, who |-> u]
         IN  IF Me \in s.members[r] THEN Told(s, t, m) ELSE ViewAt(t) = ViewAt(s)
<1> DEFINE t == [s EXCEPT !.members[r] = @ \ {u}]
           m == [kind |-> kind, room |-> r, who |-> u]
<1>1. /\ u \in Nicks /\ u # Me /\ t \in ServerType /\ t.oper = s.oper
      /\ t.members = [s.members EXCEPT ![r] = s.members[r] \ {u}]
  BY RoomsAssumption DEF ServerType, Nicks
<1> HIDE DEF t
<1>2. \A q \in Rooms : Me \in t.members[q] <=> Me \in s.members[q]
  BY <1>1 DEF ServerType
<1>3. CASE Me \in s.members[r]
  <2> DEFINE ms == [ViewAt(s).members EXCEPT ![r] = ViewAt(s).members[r] \ {u}]
  <2>1. Peopled(s, t, ms)
    BY <1>1, <1>2, <1>3 DEF ServerType, ViewAt, Peopled
  <2> HIDE DEF ms
  <2>2. ViewAt(t) = [ViewAt(s) EXCEPT !.members = ms]
    BY <1>1, <2>1, MembersAt
  <2>3. After(ViewAt(s), m) = [ViewAt(s) EXCEPT !.members = ms]
    BY <1>1 DEF After, ms
  <2>4. Fits(ViewAt(s), m)
    BY <1>1, <1>3, AtFields DEF Fits
  <2>5. m \in Lines
    BY <1>1 DEF Lines
  <2> QED
    BY <1>3, <2>2, <2>3, <2>4, <2>5 DEF Told, t
<1>4. CASE Me \notin s.members[r]
  BY <1>1, <1>2, <1>4 DEF ViewAt, ServerType, t
<1> QED
  BY <1>3, <1>4

LEMMA QuitTold ==
  ASSUME NEW s \in ServerType, NEW u \in Users
  PROVE  LET t == [s EXCEPT !.members = [r \in Rooms |-> @[r] \ {u}]]
             m == [kind |-> "QUIT", who |-> u]
         IN  /\ Told(s, t, m)
             /\ (\A r \in Rooms : Me \in s.members[r] => u \notin s.members[r])
                   => ViewAt(t) = ViewAt(s)
<1> DEFINE t == [s EXCEPT !.members = [r \in Rooms |-> @[r] \ {u}]]
           m == [kind |-> "QUIT", who |-> u]
           ms == [r \in Rooms |-> ViewAt(s).members[r] \ {u}]
<1>1. /\ u \in Nicks /\ u # Me /\ t \in ServerType /\ t.oper = s.oper
      /\ t.members = [r \in Rooms |-> s.members[r] \ {u}]
  BY RoomsAssumption DEF ServerType, Nicks
<1> HIDE DEF t
<1>2. \A q \in Rooms : Me \in t.members[q] <=> Me \in s.members[q]
  BY <1>1 DEF ServerType
<1>3. Peopled(s, t, ms)
  BY <1>1, <1>2 DEF ServerType, ViewAt, Peopled
<1>4. ASSUME \A r \in Rooms : Me \in s.members[r] => u \notin s.members[r]
      PROVE  ViewAt(t) = ViewAt(s)
  <2>1. Peopled(s, t, ViewAt(s).members)
    <3>1. ASSUME NEW q \in Rooms
          PROVE  ViewAt(s).members[q] = IF Me \in s.members[q] THEN t.members[q] ELSE {}
      <4>1. Me \in s.members[q] => t.members[q] = s.members[q]
        BY <1>1, <1>4 DEF ServerType
      <4> QED
        BY <4>1, AtFields
    <3>2. ViewAt(s).members \in [Rooms -> SUBSET Nicks]
      BY AtView DEF View
    <3> QED
      BY <1>1, <1>2, <3>1, <3>2 DEF Peopled
  <2>2. [ViewAt(s) EXCEPT !.members = ViewAt(s).members] = ViewAt(s)
    BY DEF ViewAt
  <2> QED
    BY <1>1, <2>1, <2>2, MembersAt
<1>5. After(ViewAt(s), m) = [ViewAt(s) EXCEPT !.members = ms]
  BY DEF After
<1> HIDE DEF ms
<1>6. ViewAt(t) = [ViewAt(s) EXCEPT !.members = ms]
  BY <1>1, <1>3, MembersAt
<1>7. Fits(ViewAt(s), m) /\ m \in Lines
  BY DEF Fits, Lines
<1> QED
  BY <1>4, <1>5, <1>6, <1>7 DEF Told, t

LEMMA RenameTold ==
  ASSUME NEW s \in ServerType, NEW u \in Users, NEW v \in Users,
         \A r \in Rooms : v \notin s.members[r]
  PROVE  Told(s, [s EXCEPT !.members = [r \in Rooms |-> Renamed(@[r], u, v)]],
              [kind |-> "NICK", who |-> u, new |-> v])
<1> DEFINE t == [s EXCEPT !.members = [r \in Rooms |-> Renamed(@[r], u, v)]]
           m == [kind |-> "NICK", who |-> u, new |-> v]
           ms == [r \in Rooms |-> Renamed(ViewAt(s).members[r], u, v)]
<1>1. u \in Nicks /\ v \in Nicks /\ u # Me /\ v # Me
  BY RoomsAssumption DEF Nicks
<1>2. t.oper = s.oper /\ t.members = [r \in Rooms |-> Renamed(s.members[r], u, v)]
      /\ t = [members |-> t.members, oper |-> t.oper]
  BY DEF ServerType
<1> HIDE DEF t
<1>3. \A q \in Rooms : /\ Renamed(s.members[q], u, v) \in SUBSET Nicks
                       /\ Me \in Renamed(s.members[q], u, v) <=> Me \in s.members[q]
  BY <1>1 DEF Renamed, ServerType
<1>4. t \in ServerType /\ \A q \in Rooms : Me \in t.members[q] <=> Me \in s.members[q]
  BY <1>2, <1>3 DEF ServerType
<1>5. Renamed({}, u, v) = {}
  BY DEF Renamed
<1>6. Peopled(s, t, ms)
  <2>1. ASSUME NEW q \in Rooms
        PROVE  ms[q] = IF Me \in s.members[q] THEN t.members[q] ELSE {}
    <3>1. t.members[q] = Renamed(s.members[q], u, v)
      BY <1>2
    <3>2. ms[q] = Renamed(ViewAt(s).members[q], u, v)
      OBVIOUS
    <3>3. CASE Me \in s.members[q]
      <4>1. ViewAt(s).members[q] = s.members[q]
        BY <3>3, AtFields
      <4> QED
        BY <3>1, <3>2, <3>3, <4>1
    <3>4. CASE Me \notin s.members[q]
      <4>1. ViewAt(s).members[q] = {}
        BY <3>4, AtFields
      <4> QED
        BY <1>5, <3>2, <3>4, <4>1
    <3> QED
      BY <3>3, <3>4
  <2>2. ms \in [Rooms -> SUBSET Nicks]
    BY <1>3, <1>5, AtFields
  <2> HIDE DEF ms
  <2> QED
    BY <1>2, <1>4, <2>1, <2>2 DEF Peopled
<1>7. After(ViewAt(s), m) = [ViewAt(s) EXCEPT !.members = ms]
  BY DEF After
<1> HIDE DEF ms
<1>8. ViewAt(t) = [ViewAt(s) EXCEPT !.members = ms]
  BY <1>4, <1>6, MembersAt
<1>9. m \in Lines
  BY DEF Lines
<1>10. Fits(ViewAt(s), m)
  BY AtFields DEF Fits
<1> QED
  BY <1>7, <1>8, <1>9, <1>10 DEF Told, t

LEMMA OpersTold ==
  ASSUME NEW s \in ServerType, NEW r \in Rooms, Me \in s.members[r]
  PROVE  LET on == r \notin s.oper
         IN  Told(s, [s EXCEPT !.oper = IF on THEN @ \cup {r} ELSE @ \ {r}],
                  [kind |-> "MODE", room |-> r, oped |-> on])
<1> DEFINE on == r \notin s.oper
           t == [s EXCEPT !.oper = IF on THEN @ \cup {r} ELSE @ \ {r}]
           m == [kind |-> "MODE", room |-> r, oped |-> on]
           oper == IF on THEN s.oper \cup {r} ELSE s.oper \ {r}
<1>1. t.members = s.members /\ t.oper = oper
  BY DEF ServerType
<1> HIDE DEF t
<1>2. on \in BOOLEAN
  OBVIOUS
<1>3. m \in Lines
  BY <1>2 DEF Lines
<1>4. m.kind = "MODE" /\ m.room = r /\ m.oped = on
  OBVIOUS
<1> HIDE DEF m, on
<1>5. After(ViewAt(s), m) = [ViewAt(s) EXCEPT !.admin = oper]
  <2>1. After(ViewAt(s), m) = [ViewAt(s) EXCEPT !.admin =
           IF m.oped THEN ViewAt(s).admin \cup {m.room} ELSE ViewAt(s).admin \ {m.room}]
    BY <1>4 DEF After
  <2> QED
    BY <1>4, <2>1 DEF ViewAt
<1> HIDE DEF oper
<1>6. ViewAt(t) = [ViewAt(s) EXCEPT !.admin = oper]
  <2>1. /\ ViewAt(t).known = ViewAt(s).known /\ ViewAt(t).synched = ViewAt(s).synched
        /\ ViewAt(t).admin = oper /\ ViewAt(t).members = ViewAt(s).members
    BY <1>1 DEF ViewAt
  <2>2. ViewAt(t) = [known |-> ViewAt(t).known, synched |-> ViewAt(t).synched,
                     admin |-> ViewAt(t).admin, members |-> ViewAt(t).members]
    BY DEF ViewAt
  <2> QED
    BY <2>1, <2>2, AtView, ViewFields
<1>7. Fits(ViewAt(s), m)
  BY <1>4, AtFields DEF Fits
<1> QED
  BY <1>3, <1>5, <1>6, <1>7 DEF Told, t, m, on

Outside(s, r) == [members |-> [s.members EXCEPT ![r] = @ \ {Me}], oper |-> s.oper \ {r}]

LEMMA OutTold ==
  ASSUME NEW s \in ServerType, NEW r \in Rooms, Me \in s.members[r], NEW kind \in {"PART", "KICK"}
  PROVE  Told(s, Outside(s, r), [kind |-> kind, room |-> r, who |-> Me])
<1> DEFINE t == Outside(s, r)
           m == [kind |-> kind, room |-> r, who |-> Me]
           v == ViewAt(s)
<1>1. /\ t.members = [s.members EXCEPT ![r] = s.members[r] \ {Me}]
      /\ t.oper = s.oper \ {r} /\ s.members \in [Rooms -> SUBSET Nicks]
  BY DEF ServerType, Outside
<1> HIDE DEF t
<1>2. \A q \in Rooms : Me \in t.members[q] <=> Me \in s.members[q] /\ q # r
  BY <1>1
<1>3. /\ {q \in Rooms : Me \in t.members[q]} = v.known \ {r}
      /\ {q \in Rooms : Me \in t.members[q]} = v.synched \ {r}
      /\ t.oper = v.admin \ {r}
  BY <1>1, <1>2 DEF ViewAt
<1>4. [q \in Rooms |-> IF Me \in t.members[q] THEN t.members[q] ELSE {}]
        = [v.members EXCEPT ![r] = {}]
  BY <1>1, <1>2 DEF ViewAt
<1>5. ViewAt(t) = Forgotten(v, r)
  BY <1>3, <1>4 DEF Forgotten, ViewAt
<1>6. After(v, m) = Forgotten(v, r)
  BY DEF After
<1>7. Fits(v, m)
  BY AtFields DEF Fits
<1>8. m \in Lines
  BY DEF Lines, Nicks
<1> QED
  BY <1>5, <1>6, <1>7, <1>8 DEF Told, t
LEMMA AdmitTold ==
  ASSUME NEW s \in ServerType, NEW r \in Rooms, Me \notin s.members[r], Coherent(ViewAt(s)),
         NEW v, NEW lines \in Seq(Lines), Linked(v, lines, ViewAt(s))
  PROVE  LET all  == s.members[r] \cup {Me}
             oper == s.members[r] = {}
             t    == [members |-> [s.members EXCEPT ![r] = all],
                      oper    |-> IF oper THEN s.oper \cup {r} ELSE s.oper]
         IN  Linked(v, lines \o <<[kind |-> "JOIN", room |-> r, who |-> Me],
                                  [kind |-> "NAMES", room |-> r, members |-> all, oped |-> oper],
                                  [kind |-> "END", room |-> r]>>, ViewAt(t))
<1> DEFINE all  == s.members[r] \cup {Me}
           oper == s.members[r] = {}
           t    == [members |-> [s.members EXCEPT ![r] = all],
                    oper    |-> IF oper THEN s.oper \cup {r} ELSE s.oper]
           m1   == [kind |-> "JOIN", room |-> r, who |-> Me]
           m2   == [kind |-> "NAMES", room |-> r, members |-> all, oped |-> oper]
           m3   == [kind |-> "END", room |-> r]
           v0   == ViewAt(s)
           v1   == [v0 EXCEPT !.known = v0.known \cup {r}]
           v2   == [known   |-> v1.known, synched |-> v1.synched,
                    admin   |-> IF oper THEN v1.admin \cup {r} ELSE v1.admin,
                    members |-> [v1.members EXCEPT ![r] = all]]
           v3   == [v2 EXCEPT !.synched = v2.synched \cup {r}]
<1>1. m1 \in Lines /\ m2 \in Lines /\ m3 \in Lines
  <2>1. all \in SUBSET Nicks /\ oper \in BOOLEAN /\ Me \in Nicks
    BY DEF ServerType, Nicks
  <2> HIDE DEF all, oper
  <2> QED
    BY <2>1 DEF Lines
<1>2. /\ v0 \in View /\ r \notin v0.known /\ r \notin v0.synched /\ r \notin v0.admin
      /\ v0.members[r] = {}
  BY AtView, AtFields DEF Coherent
<1>3. Fits(v0, m1) /\ After(v0, m1) = v1
  BY <1>2 DEF Fits, After
<1>4. /\ v1.known = v0.known \cup {r} /\ v1.synched = v0.synched /\ v1.admin = v0.admin
      /\ v1.members = v0.members
  BY <1>2 DEF View
<1>5. Fits(v1, m2) /\ After(v1, m2) = v2
  <2>1. Me \in all
    OBVIOUS
  <2> HIDE DEF v0, v1, all, oper
  <2>2. Fits(v1, m2)
    BY <1>2, <1>4, <2>1 DEF Fits
  <2>3. After(v1, m2) = v2
    BY DEF After
  <2> QED
    BY <2>2, <2>3
<1>6. /\ v2.known = v1.known /\ v2.synched = v1.synched
      /\ v2.admin = (IF oper THEN v1.admin \cup {r} ELSE v1.admin)
      /\ v2.members = [v1.members EXCEPT ![r] = all]
  OBVIOUS
<1>7. Fits(v2, m3) /\ After(v2, m3) = v3
  <2>1. Me \in all /\ v0.members \in [Rooms -> SUBSET Nicks]
    BY <1>2 DEF View
  <2> HIDE DEF v0, v1, v2, all, oper
  <2>2. Fits(v2, m3)
    BY <1>4, <1>6, <2>1 DEF Fits
  <2>3. After(v2, m3) = v3
    BY DEF After
  <2> QED
    BY <2>2, <2>3
<1>8. v3 = [known |-> v2.known, synched |-> v2.synched \cup {r}, admin |-> v2.admin,
            members |-> v2.members]
  <2> HIDE DEF m1, m2, v0, v1, v2
  <2>1. Coherent(v1)
    BY <1>1, <1>3, AfterCoherent DEF v0
  <2>2. Coherent(v2)
    BY <1>1, <1>5, <2>1, AfterCoherent
  <2> QED
    BY <2>2, ViewFields DEF Coherent
<1>9. ViewAt(t) = v3
  <2>1. t.members = [s.members EXCEPT ![r] = all]
        /\ t.oper = IF oper THEN s.oper \cup {r} ELSE s.oper
    OBVIOUS
  <2> HIDE DEF t
  <2>2. \A q \in Rooms : Me \in t.members[q] <=> Me \in s.members[q] \/ q = r
    BY <2>1 DEF ServerType
  <2>3. {q \in Rooms : Me \in t.members[q]} = v0.known \cup {r}
        /\ {q \in Rooms : Me \in t.members[q]} = v0.synched \cup {r}
    BY <2>2 DEF ViewAt
  <2>4. [q \in Rooms |-> IF Me \in t.members[q] THEN t.members[q] ELSE {}]
          = [v0.members EXCEPT ![r] = all]
    BY <2>1, <2>2 DEF ViewAt, ServerType
  <2>5. t.oper = IF oper THEN v0.admin \cup {r} ELSE v0.admin
    BY <2>1 DEF ViewAt
  <2>6. ViewAt(t) = [known |-> v0.known \cup {r}, synched |-> v0.synched \cup {r},
                     admin |-> t.oper, members |-> [v0.members EXCEPT ![r] = all]]
    BY <2>3, <2>4 DEF ViewAt
  <2> HIDE DEF v0, v1, v2, v3, oper, all
  <2> QED
    BY <1>4, <1>6, <1>8, <2>5, <2>6
<1> HIDE DEF m1, m2, m3, v0, v1, v2, v3, t
<1> DEFINE l1 == Append(lines, m1)
           l2 == Append(l1, m2)
           l3 == Append(l2, m3)
<1>10. l1 \in Seq(Lines) /\ l2 \in Seq(Lines) /\ l3 = lines \o <<m1, m2, m3>>
  BY <1>1
<1>11. Linked(v, l1, v1)
  BY <1>1, <1>3, LinkTell DEF v0
<1> HIDE DEF l1
<1>12. Linked(v, l2, v2)
  BY <1>1, <1>5, <1>10, <1>11, LinkTell
<1> HIDE DEF l2
<1>13. Linked(v, l3, v3)
  BY <1>1, <1>7, <1>10, <1>12, LinkTell
<1> QED
  BY <1>9, <1>10, <1>13 DEF m1, m2, m3, t
-----------------------------------------------------------------------------
(* The invariant. *)

(* We are about to be out of a room. *)
GoingOut(out, lines, r) ==
  \/ \E i \in DOMAIN out : out[i] = [cmd |-> "PART", room |-> r]
  \/ \E i \in DOMAIN lines : IsLeave(lines[i], r)

(* A room whose names are all known and whose window does not show it is being left. *)
Bound(c, lines) ==
  \A r \in Rooms : c.groups[r].synched /\ c.windows[r].state # "online"
                     => GoingOut(c.out, lines, r)

RoomsInv ==
  /\ Alined(client) /\ Seen(client)
  /\ Linked(ViewOf(client), down, ViewAt(server))
  /\ Bound(client, down)
  /\ ~up => down = <<>> /\ client.out = <<>> /\ ViewOf(client).known = {}

LEMMA GoingMore ==
  ASSUME NEW out \in Seq(Sent), NEW lines, NEW more, More(out, more), NEW r, GoingOut(out, lines, r)
  PROVE  GoingOut(more, lines, r)
<1>1. CASE more = out
  BY <1>1
<1>2. ASSUME NEW x \in Sent, more = Append(out, x) PROVE GoingOut(more, lines, r)
  <2>1. \A i \in DOMAIN out : i \in DOMAIN more /\ more[i] = out[i]
    BY <1>2
  <2> QED
    BY <2>1 DEF GoingOut
<1> QED
  BY <1>1, <1>2 DEF More

LEMMA GoingTold ==
  ASSUME NEW out, NEW lines \in Seq(Lines), NEW told \in Seq(Lines), NEW r,
         GoingOut(out, lines, r)
  PROVE  GoingOut(out, lines \o told, r)
<1>1. \A i \in DOMAIN lines : i \in DOMAIN (lines \o told) /\ (lines \o told)[i] = lines[i]
  OBVIOUS
<1> DEFINE all == lines \o told
<1> HIDE DEF all
<1> QED
  BY <1>1 DEF GoingOut, all

LEMMA GoingRead ==
  ASSUME NEW out, NEW lines \in Seq(Lines), lines # <<>>, NEW r, GoingOut(out, lines, r),
         ~IsLeave(Head(lines), r)
  PROVE  GoingOut(out, Tail(lines), r)
<1>1. CASE \E i \in DOMAIN out : out[i] = [cmd |-> "PART", room |-> r]
  BY <1>1 DEF GoingOut
<1>2. CASE \E i \in DOMAIN lines : IsLeave(lines[i], r)
  <2>1. PICK i \in DOMAIN lines : IsLeave(lines[i], r)
    BY <1>2
  <2>2. i # 1
    BY <2>1
  <2>3. i - 1 \in DOMAIN Tail(lines) /\ Tail(lines)[i - 1] = lines[i]
    BY <2>1, <2>2
  <2> QED
    BY <2>1, <2>3 DEF GoingOut
<1> QED
  BY <1>1, <1>2 DEF GoingOut

LEMMA GoingTaken ==
  ASSUME NEW out \in Seq(Sent), out # <<>>, NEW lines, NEW r, GoingOut(out, lines, r),
         Head(out) # [cmd |-> "PART", room |-> r]
  PROVE  GoingOut(Tail(out), lines, r)
<1>1. CASE \E i \in DOMAIN lines : IsLeave(lines[i], r)
  BY <1>1 DEF GoingOut
<1>2. CASE \E i \in DOMAIN out : out[i] = [cmd |-> "PART", room |-> r]
  <2>1. PICK i \in DOMAIN out : out[i] = [cmd |-> "PART", room |-> r]
    BY <1>2
  <2>2. i # 1
    BY <2>1
  <2>3. i - 1 \in DOMAIN Tail(out) /\ Tail(out)[i - 1] = out[i]
    BY <2>1, <2>2
  <2> QED
    BY <2>1, <2>3 DEF GoingOut
<1> QED
  BY <1>1, <1>2 DEF GoingOut

LEMMA InvSteady ==
  ASSUME TypeOK, RoomsInv
  PROVE  /\ Steady(client) /\ client \in Client /\ client.out \in Seq(Sent)
         /\ down \in Seq(Lines) /\ server \in ServerType
         /\ Coherent(ViewOf(client)) /\ Coherent(ViewAt(server))
         /\ \A r \in Rooms : In(r) => up
<1>1. client \in Client /\ down \in Seq(Lines) /\ server \in ServerType
  BY DEF TypeOK, ServerType
<1>2. Coherent(ViewOf(client)) /\ Coherent(ViewAt(server))
      /\ (down = <<>> => ViewOf(client) = ViewAt(server))
  BY <1>1, LinkEnds DEF RoomsInv
<1>3. client.out \in Seq(Sent)
  BY <1>1 DEF Client, Sent
<1>4. ASSUME NEW r \in Rooms, In(r), ~up PROVE FALSE
  <2>1. r \in ViewAt(server).known
    BY <1>4, AtFields DEF In
  <2> QED
    BY <1>2, <1>4, <2>1 DEF RoomsInv
<1> QED
  BY <1>1, <1>2, <1>3, <1>4 DEF RoomsInv, Steady

LEMMA LineStep ==
  ASSUME TypeOK, RoomsInv, Line
  PROVE  RoomsInv'
<1> DEFINE m == Head(down)
           v == ViewOf(client)
<1>1. down # <<>> /\ Steady(client) /\ down \in Seq(Lines) /\ client.out \in Seq(Sent)
      /\ client \in Client
  BY InvSteady DEF Line, JoinLine, NamesLine, EndLine, PartLine, KickLine, QuitLine, NickLine,
                   SayLine, ModeLine, Read
<1>2. m \in Lines
  BY <1>1
<1>3. Fits(v, m) /\ Linked(After(v, m), Tail(down), ViewAt(server))
  BY <1>1, LinkRead DEF RoomsInv
<1>4. Ready(client, m)
  BY <1>1, <1>2, <1>3 DEF Ready, RoomsInv
<1>5. Follows(client, client', m) /\ down' = Tail(down) /\ up' = up /\ server' = server
  BY <1>4, LineReads
<1>6. /\ client' \in Client /\ Alined(client') /\ ViewOf(client') = After(v, m)
      /\ More(client.out, client'.out) /\ Seen(client')
      /\ \A q \in Rooms : client'.groups[q].synched /\ client'.windows[q].state # "online"
                          => client.groups[q].synched /\ client.windows[q].state # "online"
  BY <1>5 DEF Follows, Followed
<1>7. ASSUME NEW r \in Rooms, client'.groups[r].synched, client'.windows[r].state # "online"
      PROVE  GoingOut(client'.out, Tail(down), r)
  <2>1. GoingOut(client.out, down, r)
    BY <1>6, <1>7 DEF RoomsInv, Bound
  <2>2. r \in After(v, m).synched
    BY <1>6, <1>7, InView
  <2>3. ~IsLeave(m, r)
    <3>1. ASSUME IsLeave(m, r) PROVE After(v, m) = Forgotten(v, r)
      BY <3>1 DEF After, IsLeave
    <3> QED
      BY <2>2, <3>1 DEF Forgotten
  <2>4. GoingOut(client.out, Tail(down), r)
    BY <1>1, <2>1, <2>3, GoingRead
  <2> QED
    BY <1>1, <1>6, <2>4, GoingMore
<1>8. up
  BY <1>1 DEF RoomsInv
<1>9. Linked(ViewOf(client'), down', ViewAt(server'))
  BY <1>3, <1>5, <1>6
<1>10. Bound(client', down')
  BY <1>5, <1>7 DEF Bound
<1> QED
  BY <1>5, <1>6, <1>8, <1>9, <1>10 DEF RoomsInv
LEMMA InitInv == Init => RoomsInv
<1> SUFFICES ASSUME Init PROVE RoomsInv
  OBVIOUS
<1> DEFINE v == [known |-> {}, synched |-> {}, admin |-> {}, members |-> [r \in Rooms |-> {}]]
<1>1. /\ \A r \in Rooms : /\ client.rooms[r] = NoRoom /\ client.groups[r] = NoGroup
                          /\ client.windows[r] = NoWindow
      /\ client.online = {} /\ client.out = <<>> /\ ~client.fault /\ ~client.complaint
      /\ server.oper = {} /\ server.members = [r \in Rooms |-> {}]
      /\ down = <<>> /\ up = FALSE
  BY DEF Init
<1>0. \A r \in Rooms :
        /\ ~client.rooms[r].known /\ ~client.rooms[r].admin /\ client.rooms[r].members = {}
        /\ ~client.groups[r].synched /\ client.groups[r].members = {}
        /\ client.groups[r].known = client.rooms[r].known
        /\ client.windows[r].state = "none" /\ Me \notin server.members[r]
  <2>1. /\ ~NoRoom.known /\ ~NoRoom.admin /\ NoRoom.members = {}
        /\ ~NoGroup.synched /\ NoGroup.members = {} /\ NoGroup.known = NoRoom.known
        /\ NoWindow.state = "none"
    BY DEF NoRoom, NoGroup, NoWindow
  <2>2. \A r \in Rooms : server.members[r] = {}
    BY <1>1
  <2> QED
    BY <1>1, <2>1, <2>2
<1>2. ViewOf(client) = v /\ ViewAt(server) = v
  <2>1. ViewOf(client) = v
    BY <1>0 DEF ViewOf
  <2>2. {r \in Rooms : Me \in server.members[r]} = {}
    BY <1>0
  <2>3. [r \in Rooms |-> IF Me \in server.members[r] THEN server.members[r] ELSE {}]
          = [r \in Rooms |-> {}]
    BY <1>0
  <2> QED
    BY <1>1, <2>1, <2>2, <2>3 DEF ViewAt
<1>3. Coherent(v)
  BY DEF Coherent, View
<1>4. v.known = {}
  OBVIOUS
<1> HIDE DEF v
<1>5. Linked(ViewOf(client), down, ViewAt(server))
  BY <1>1, <1>2, <1>3, LinkNone
<1>6. Alined(client)
  BY <1>0, <1>1 DEF Alined
<1>7. Seen(client) /\ Bound(client, down)
  BY <1>0, <1>1 DEF Seen, Bound
<1> QED
  BY <1>1, <1>2, <1>4, <1>5, <1>6, <1>7 DEF RoomsInv

(* A step after which only the lines under way are others. *)
OutAlone(c, d) ==
  /\ d.rooms = c.rooms /\ d.groups = c.groups /\ d.windows = c.windows
  /\ d.online = c.online /\ d.fault = c.fault /\ d.complaint = c.complaint

LEMMA OutStep ==
  ASSUME TypeOK, RoomsInv, OutAlone(client, client'), up, up' = up,
         Linked(ViewOf(client), down', ViewAt(server')),
         \A r \in Rooms : r \in ViewOf(client).known /\ GoingOut(client.out, down, r)
                            => GoingOut(client'.out, down', r)
  PROVE  RoomsInv'
<1>1. /\ ViewOf(client') = ViewOf(client) /\ Alined(client') /\ Seen(client')
  BY DEF OutAlone, ViewOf, RoomsInv, Alined, Seen, Visible
<1>2. Coherent(ViewOf(client)) /\ client \in Client
  BY InvSteady
<1>3. ASSUME NEW r \in Rooms, client'.groups[r].synched, client'.windows[r].state # "online"
      PROVE  GoingOut(client'.out, down', r)
  <2>1. r \in ViewOf(client).known
    BY <1>1, <1>2, <1>3, InView DEF Coherent, OutAlone
  <2>2. GoingOut(client.out, down, r)
    BY <1>3 DEF OutAlone, RoomsInv, Bound
  <2> QED
    BY <2>1, <2>2
<1>4. Bound(client', down')
  BY <1>3 DEF Bound
<1> QED
  BY <1>1, <1>4 DEF RoomsInv

(* The server tells of what it does, if we are there to be told. *)
LEMMA TellStep ==
  ASSUME TypeOK, RoomsInv, UNCHANGED <<up, client>>, NEW told, NEW m, told => up,
         TellIf(told, m), told => Told(server, server', m),
         ~told => ViewAt(server') = ViewAt(server)
  PROVE  RoomsInv'
<1>1. down \in Seq(Lines) /\ Linked(ViewOf(client), down, ViewAt(server))
  BY InvSteady DEF RoomsInv
<1>2. CASE told
  <2>1. m \in Lines /\ Fits(ViewAt(server), m) /\ ViewAt(server') = After(ViewAt(server), m)
    BY <1>2 DEF Told
  <2>2. down' = down \o <<m>>
    BY <1>2 DEF TellIf, Tell
  <2>3. down' = Append(down, m) /\ <<m>> \in Seq(Lines)
    BY <1>1, <2>1, <2>2
  <2>4. Linked(ViewOf(client), down', ViewAt(server'))
    BY <1>1, <2>1, <2>3, LinkTell
  <2>5. \A r \in Rooms : GoingOut(client.out, down, r) => GoingOut(client'.out, down', r)
    BY <1>1, <2>2, <2>3, GoingTold
  <2>6. OutAlone(client, client') /\ up
    BY <1>2 DEF OutAlone
  <2> QED
    BY <2>4, <2>5, <2>6, OutStep
<1>3. CASE ~told
  <2>1. down' = down
    BY <1>3 DEF TellIf
  <2> QED
    BY <1>1, <1>3, <2>1 DEF RoomsInv
<1> QED
  BY <1>2, <1>3
LEMMA PeopleStep ==
  ASSUME TypeOK, RoomsInv, NEW u \in Users, NEW r \in Rooms,
         Enter(u, r) \/ Leave(u, r)
  PROVE  RoomsInv'
<1>1. server \in ServerType /\ (\A q \in Rooms : In(q) => up) /\ u # Me
  BY InvSteady, RoomsAssumption
<1>2. CASE Enter(u, r)
  <2> DEFINE m == [kind |-> "JOIN", room |-> r, who |-> u]
  <2>1. /\ u \notin server.members[r] /\ server' = [server EXCEPT !.members[r] = @ \cup {u}]
        /\ TellIf(In(r), m) /\ UNCHANGED <<up, client>>
    BY <1>2 DEF Enter, ServerStep
  <2>2. IF Me \in server.members[r] THEN Told(server, server', m)
                                    ELSE ViewAt(server') = ViewAt(server)
    BY <1>1, <2>1, EnterTold
  <2> HIDE DEF m
  <2>3. (In(r) => Told(server, server', m)) /\ (~In(r) => ViewAt(server') = ViewAt(server))
    BY <2>2 DEF In
  <2> QED
    BY <1>1, <2>1, <2>3, TellStep
<1>3. CASE Leave(u, r)
  <2>1. /\ u \in server.members[r] /\ server' = [server EXCEPT !.members[r] = @ \ {u}]
        /\ UNCHANGED <<up, client>>
    BY <1>3 DEF Leave, ServerStep
  <2>2. PICK kind \in {"PART", "KICK"} : TellIf(In(r), [kind |-> kind, room |-> r, who |-> u])
    <3>1. CASE TellIf(In(r), [kind |-> "PART", room |-> r, who |-> u])
      BY <3>1
    <3>2. CASE In(r) /\ Tell(<<[kind |-> "KICK", room |-> r, who |-> u]>>)
      BY <3>2 DEF TellIf
    <3> QED
      BY <1>3, <3>1, <3>2 DEF Leave
  <2> DEFINE m == [kind |-> kind, room |-> r, who |-> u]
  <2>3. IF Me \in server.members[r] THEN Told(server, server', m)
                                    ELSE ViewAt(server') = ViewAt(server)
    BY <1>1, <2>1, LeaveTold
  <2>4. TellIf(In(r), m)
    BY <2>2
  <2> HIDE DEF m
  <2>5. (In(r) => Told(server, server', m)) /\ (~In(r) => ViewAt(server') = ViewAt(server))
    BY <2>3 DEF In
  <2> QED
    BY <1>1, <2>1, <2>4, <2>5, TellStep
<1> QED
  BY <1>2, <1>3

LEMMA QuitStep ==
  ASSUME TypeOK, RoomsInv, NEW u \in Users, Quit(u)
  PROVE  RoomsInv'
<1>1. server \in ServerType /\ (\A q \in Rooms : In(q) => up) /\ u # Me
  BY InvSteady, RoomsAssumption
<1> DEFINE m == [kind |-> "QUIT", who |-> u]
<1>2. /\ server' = [server EXCEPT !.members = [q \in Rooms |-> @[q] \ {u}]]
      /\ TellIf(Shared(u), m) /\ UNCHANGED <<up, client>>
  BY DEF Quit, ServerStep
<1>3. /\ Told(server, server', m)
      /\ (\A q \in Rooms : Me \in server.members[q] => u \notin server.members[q])
            => ViewAt(server') = ViewAt(server)
  BY <1>1, <1>2, QuitTold
<1> HIDE DEF m
<1>4. ~Shared(u) => ViewAt(server') = ViewAt(server)
  BY <1>3 DEF Shared, In
<1>5. Shared(u) => up
  BY <1>1 DEF Shared
<1> QED
  BY <1>2, <1>3, <1>4, <1>5, TellStep

LEMMA RenameStep ==
  ASSUME TypeOK, RoomsInv, NEW u \in Users, NEW v \in Users, Rename(u, v)
  PROVE  RoomsInv'
<1> DEFINE m == [kind |-> "NICK", who |-> u, new |-> v]
<1>1. server \in ServerType /\ (\A q \in Rooms : In(q) => up) /\ v # Me
  BY InvSteady, RoomsAssumption
<1>2. /\ server' = [server EXCEPT !.members = [r \in Rooms |-> Renamed(@[r], u, v)]]
      /\ Tell(<<m>>) /\ UNCHANGED <<up, client>> /\ Shared(u) /\ v \notin Present
  BY DEF Rename, ServerStep
<1>3. \A r \in Rooms : v \notin server.members[r]
  BY <1>1, <1>2 DEF Present
<1>4. Told(server, server', m)
  BY <1>1, <1>2, <1>3, RenameTold
<1> HIDE DEF m
<1>5. TellIf(Shared(u), m) /\ up
  BY <1>1, <1>2 DEF TellIf, Shared
<1> QED
  BY <1>2, <1>4, <1>5, TellStep

LEMMA RoomStep ==
  ASSUME TypeOK, RoomsInv, NEW r \in Rooms, Speak(r) \/ Opers(r) \/ Expel(r)
  PROVE  RoomsInv'
<1>1. server \in ServerType /\ up /\ Me \in server.members[r] /\ In(r)
  BY InvSteady DEF Speak, Opers, Expel, In
<1>2. CASE Speak(r)
  <2> DEFINE m == [kind |-> "SAY", room |-> r]
  <2>1. server' = server /\ Tell(<<m>>) /\ UNCHANGED <<up, client>>
    BY <1>2 DEF Speak, ServerStep
  <2>2. Told(server, server', m)
    BY <2>1 DEF Told, Lines, Fits, After
  <2> HIDE DEF m
  <2>3. TellIf(In(r), m)
    BY <1>1, <2>1 DEF TellIf
  <2> QED
    BY <1>1, <2>1, <2>2, <2>3, TellStep
<1>3. CASE Opers(r)
  <2> DEFINE on == r \notin server.oper
             m == [kind |-> "MODE", room |-> r, oped |-> on]
  <2>1. /\ server' = [server EXCEPT !.oper = IF on THEN @ \cup {r} ELSE @ \ {r}]
        /\ Tell(<<m>>) /\ UNCHANGED <<up, client>>
    BY <1>3 DEF Opers, ServerStep
  <2>2. Told(server, server', m)
    BY <1>1, <2>1, OpersTold
  <2> HIDE DEF m
  <2>3. TellIf(In(r), m)
    BY <1>1, <2>1 DEF TellIf
  <2> QED
    BY <1>1, <2>1, <2>2, <2>3, TellStep
<1>4. CASE Expel(r)
  <2> DEFINE m == [kind |-> "KICK", room |-> r, who |-> Me]
  <2>1. server' = Outside(server, r) /\ Tell(<<m>>) /\ UNCHANGED <<up, client>>
    BY <1>4 DEF Expel, ServerStep, Outside
  <2>2. Told(server, server', m)
    BY <1>1, <2>1, OutTold
  <2> HIDE DEF m
  <2>3. TellIf(In(r), m)
    BY <1>1, <2>1 DEF TellIf
  <2> QED
    BY <1>1, <2>1, <2>2, <2>3, TellStep
<1> QED
  BY <1>2, <1>3, <1>4

(* Our own lines. *)
LEMMA TakenStep ==
  ASSUME TypeOK, RoomsInv, Admit \/ Refuse \/ Dismiss
  PROVE  RoomsInv'
<1> DEFINE r == Head(client.out).room
           x == Head(client.out)
<1>1. /\ client.out # <<>> /\ client' = [client EXCEPT !.out = Tail(client.out)] /\ up' = up
      /\ client \in Client /\ client.out \in Seq(Sent) /\ server \in ServerType
      /\ down \in Seq(Lines) /\ Linked(ViewOf(client), down, ViewAt(server))
      /\ Coherent(ViewAt(server))
  BY InvSteady DEF Admit, Refuse, Dismiss, Takes, ServerStep, RoomsInv
<1>2. up /\ r \in Rooms /\ x \in Sent /\ x = [cmd |-> x.cmd, room |-> r]
  <2>1. up
    BY <1>1 DEF RoomsInv
  <2>2. x \in Sent
    BY <1>1
  <2> HIDE DEF x
  <2>3. x.room \in Rooms /\ x = [cmd |-> x.cmd, room |-> x.room]
    BY <2>2 DEF Sent
  <2> QED
    BY <2>1, <2>2, <2>3 DEF x
<1>3. OutAlone(client, client') /\ client'.out = Tail(client.out)
  BY <1>1 DEF OutAlone, Client
<1>4. CASE Admit \/ Refuse
  <2>1. x.cmd = "JOIN"
    BY <1>4 DEF Admit, Refuse, Takes
  <2>2. \A q \in Rooms : GoingOut(client.out, down, q) => GoingOut(Tail(client.out), down, q)
    <3>1. \A q \in Rooms : x # [cmd |-> "PART", room |-> q]
      BY <2>1
    <3> QED
      BY <1>1, <3>1, GoingTaken
  <2>3. CASE UNCHANGED <<server, down>>
    BY <1>1, <1>2, <1>3, <2>2, <2>3, OutStep
  <2>4. CASE Admit /\ ~In(r)
    <3> DEFINE all  == server.members[r] \cup {Me}
               oper == server.members[r] = {}
               told == <<[kind |-> "JOIN", room |-> r, who |-> Me],
                         [kind |-> "NAMES", room |-> r, members |-> all, oped |-> oper],
                         [kind |-> "END", room |-> r]>>
    <3>1. /\ server' = [members |-> [server.members EXCEPT ![r] = all],
                        oper    |-> IF oper THEN server.oper \cup {r} ELSE server.oper]
          /\ down' = down \o told
      BY <2>4 DEF Admit, Tell
    <3>2. Linked(ViewOf(client), down', ViewAt(server'))
      BY <1>1, <1>2, <2>4, <3>1, AdmitTold DEF In
    <3>3. told \in Seq(Lines)
      <4>1. all \in SUBSET Nicks /\ oper \in BOOLEAN /\ Me \in Nicks
        BY <1>1, <1>2 DEF ServerType, Nicks
      <4> HIDE DEF all, oper
      <4> QED
        BY <1>2, <4>1 DEF Lines
    <3> HIDE DEF told
    <3>4. \A q \in Rooms : GoingOut(client.out, down, q) => GoingOut(client'.out, down', q)
      BY <1>1, <1>3, <2>2, <3>1, <3>3, GoingTold
    <3> QED
      BY <1>1, <1>2, <1>3, <3>2, <3>4, OutStep
  <2> QED
    BY <1>4, <2>3, <2>4 DEF Admit, Refuse
<1>5. CASE Dismiss
  <2>1. \A q \in Rooms : q # r /\ GoingOut(client.out, down, q)
                            => GoingOut(Tail(client.out), down, q)
    <3>1. \A q \in Rooms : q # r => x # [cmd |-> "PART", room |-> q]
      BY <1>2
    <3> QED
      BY <1>1, <3>1, GoingTaken
  <2>2. CASE In(r)
    <3> DEFINE m == [kind |-> "PART", room |-> r, who |-> Me]
    <3>1. server' = Outside(server, r) /\ down' = down \o <<m>>
      BY <1>5, <2>2 DEF Dismiss, Tell, Outside
    <3>2. Told(server, server', m) /\ IsLeave(m, r)
      BY <1>1, <1>2, <2>2, <3>1, OutTold DEF In, IsLeave
    <3> HIDE DEF m
    <3>3. m \in Lines /\ Fits(ViewAt(server), m) /\ ViewAt(server') = After(ViewAt(server), m)
      BY <3>2 DEF Told
    <3>4. down' = Append(down, m) /\ <<m>> \in Seq(Lines)
      BY <1>1, <3>1, <3>3
    <3>5. Linked(ViewOf(client), down', ViewAt(server'))
      BY <1>1, <3>3, <3>4, LinkTell
    <3>6. Len(down) + 1 \in DOMAIN down' /\ down'[Len(down) + 1] = m
      BY <1>1, <3>4
    <3>7. GoingOut(Tail(client.out), down', r)
      BY <3>2, <3>6 DEF GoingOut
    <3>8. \A q \in Rooms : GoingOut(client.out, down, q) => GoingOut(client'.out, down', q)
      BY <1>1, <1>3, <2>1, <3>1, <3>4, <3>7, GoingTold
    <3> QED
      BY <1>1, <1>2, <1>3, <3>5, <3>8, OutStep
  <2>3. CASE ~In(r)
    <3>1. UNCHANGED <<server, down>>
      BY <1>5, <2>3 DEF Dismiss
    <3>2. r \in ViewOf(client).known => \E i \in DOMAIN down : IsLeave(down[i], r)
      <4>1. r \notin ViewAt(server).known
        BY <1>2, <2>3, AtFields DEF In
      <4> QED
        BY <1>1, <1>2, <4>1, LinkEnds
    <3>3. r \in ViewOf(client).known => GoingOut(Tail(client.out), down, r)
      BY <3>2 DEF GoingOut
    <3>4. \A q \in Rooms : q \in ViewOf(client).known /\ GoingOut(client.out, down, q)
                              => GoingOut(client'.out, down', q)
      BY <1>3, <2>1, <3>1, <3>3
    <3> QED
      BY <1>1, <1>2, <1>3, <3>1, <3>4, OutStep
  <2> QED
    BY <2>2, <2>3
<1> QED
  BY <1>4, <1>5
LEMMA UserStep ==
  ASSUME TypeOK, RoomsInv, NEW r \in Rooms, Join(r) \/ Close(r)
  PROVE  RoomsInv'
<1>1. /\ client \in Client /\ client.out \in Seq(Sent) /\ Coherent(ViewOf(client))
      /\ UNCHANGED <<up, server, down>>
  BY InvSteady DEF Join, Close
<1>2. SUFFICES ASSUME NEW c \in Client, OnlyWindow(client, c, r), c.out = client.out,
                      c.windows[r].state = "online" => client.windows[r].state = "online",
                      NEW cmd \in {"JOIN", "PART"},
                      client' = IF up THEN Send(c, cmd, r) ELSE c,
                      c.windows[r].state = client.windows[r].state
                        \/ client.windows[r].state # "online" \/ cmd = "PART"
               PROVE  RoomsInv'
  <2>1. CASE Join(r)
    <3>1. /\ OnlyWindow(client, Cgetwin(client, r), r) /\ Cgetwin(client, r).out = client.out
          /\ Cgetwin(client, r).windows[r].state =
               IF client.windows[r].state = "none" THEN "offline" ELSE client.windows[r].state
          /\ Cgetwin(client, r) \in Client
      BY <1>1, CgetwinOnly, WindowTypes
    <3>2. client' = IF up THEN Send(Cgetwin(client, r), "JOIN", r) ELSE Cgetwin(client, r)
      BY <2>1 DEF Join
    <3>3. client.windows[r].state # "online"
      BY <2>1 DEF Join
    <3> QED
      BY <1>2, <3>1, <3>2, <3>3
  <2>2. CASE Close(r)
    <3> DEFINE c == [client EXCEPT !.windows[r] = NoWindow]
    <3>1. client' = IF up THEN Send(c, "PART", r) ELSE c
      BY <2>2 DEF Close
    <3>2. NoWindow \in Window /\ NoWindow.state = "none"
      BY DEF NoWindow, Window
    <3>3. c \in Client
      BY <1>1, <3>2, FieldTypes
    <3>4. /\ c.rooms = client.rooms /\ c.groups = client.groups /\ c.online = client.online
          /\ c.fault = client.fault /\ c.complaint = client.complaint /\ c.out = client.out
          /\ \A q \in Rooms \ {r} : c.windows[q] = client.windows[q]
          /\ c.windows[r] = NoWindow
      BY <1>1 DEF Client
    <3> HIDE DEF c
    <3>5. OnlyWindow(client, c, r)
      BY <3>3, <3>4 DEF OnlyWindow, More
    <3> QED
      BY <1>2, <3>1, <3>2, <3>3, <3>4, <3>5
  <2> QED
    BY <2>1, <2>2
<1> DEFINE sent == Append(client.out, [cmd |-> cmd, room |-> r])
<1>3. OnlyWindow(client, client', r) /\ client'.windows[r].state = c.windows[r].state
      /\ client'.out = IF up THEN sent ELSE client.out
  <2>1. CASE up
    <3>1. OnlyWindow(c, Send(c, cmd, r), r) /\ Send(c, cmd, r).windows = c.windows
          /\ Send(c, cmd, r).out = Append(c.out, [cmd |-> cmd, room |-> r])
      BY SendOnly
    <3> QED
      BY <1>2, <2>1, <3>1, Chained
  <2>2. CASE ~up
    BY <1>2, <2>2
  <2> QED
    BY <2>1, <2>2
<1>4. ViewOf(client') = ViewOf(client) /\ Alined(client') /\ Seen(client')
  <2>1. \A q \in Rooms : client'.windows[q].state = "online" => client.windows[q].state = "online"
    BY <1>2, <1>3 DEF OnlyWindow
  <2> QED
    BY <1>3, <2>1 DEF RoomsInv, OnlyWindow, ViewOf, Alined, Seen, Visible
<1>5. ASSUME NEW q \in Rooms, client'.groups[q].synched, client'.windows[q].state # "online"
      PROVE  GoingOut(client'.out, down, q)
  <2>1. client.groups[q].synched
    BY <1>3, <1>5 DEF OnlyWindow
  <2>2. up
    <3>1. q \in ViewOf(client).known
      BY <1>1, <2>1, InView DEF Coherent
    <3> QED
      BY <3>1 DEF RoomsInv
  <2>3. CASE client.windows[q].state # "online"
    <3>1. GoingOut(client.out, down, q)
      BY <2>1, <2>3 DEF RoomsInv, Bound
    <3>2. More(client.out, client'.out)
      BY <1>3 DEF OnlyWindow
    <3> QED
      BY <1>1, <3>1, <3>2, GoingMore
  <2>4. CASE client.windows[q].state = "online"
    <3>1. q = r /\ cmd = "PART"
      BY <1>2, <1>3, <1>5, <2>4 DEF OnlyWindow
    <3>2. Len(client.out) + 1 \in DOMAIN sent
          /\ sent[Len(client.out) + 1] = [cmd |-> "PART", room |-> q]
      BY <1>1, <3>1
    <3> HIDE DEF sent
    <3> QED
      BY <1>3, <2>2, <3>2 DEF GoingOut
  <2> QED
    BY <2>3, <2>4
<1>6. Bound(client', down')
  BY <1>1, <1>5 DEF Bound
<1> QED
  BY <1>1, <1>3, <1>4, <1>6 DEF RoomsInv

LEMMA SignOnStep ==
  ASSUME TypeOK, RoomsInv, SignOn
  PROVE  RoomsInv'
<1>1. /\ client \in Client /\ Coherent(ViewOf(client)) /\ ~up /\ up' = TRUE
      /\ UNCHANGED <<server, down>>
  BY InvSteady DEF SignOn
<1>2. OutAlone(client, client')
  BY <1>1 DEF SignOn, OutAlone, Client
<1>3. ViewOf(client') = ViewOf(client) /\ Alined(client') /\ Seen(client')
  BY <1>2 DEF OutAlone, ViewOf, RoomsInv, Alined, Seen, Visible
<1>4. \A r \in Rooms : ~client'.groups[r].synched
  BY <1>1, <1>2, InView DEF OutAlone, RoomsInv, Coherent
<1>5. Bound(client', down')
  BY <1>4 DEF Bound
<1> QED
  BY <1>1, <1>3, <1>5 DEF RoomsInv

LEMMA SignOffStep ==
  ASSUME TypeOK, RoomsInv, SignOff
  PROVE  RoomsInv'
<1>1. client \in Client /\ server \in ServerType
  BY InvSteady
<1>2. /\ client'.rooms = [r \in Rooms |-> NoRoom] /\ client'.online = {}
      /\ client'.groups = [r \in Rooms |-> NoGroup] /\ client'.out = <<>>
      /\ client'.windows = [r \in Rooms |->
            [state  |-> IF client.windows[r].state = "none" THEN "none" ELSE "offline",
             isoper |-> FALSE]]
      /\ client'.fault = client.fault /\ client'.complaint = client.complaint
      /\ down' = <<>> /\ up' = FALSE
      /\ server' = [members |-> [r \in Rooms |-> server.members[r] \ {Me}], oper |-> {}]
  BY <1>1 DEF SignOff, Client
<1>3. /\ ~NoRoom.known /\ ~NoRoom.admin /\ NoRoom.members = {}
      /\ ~NoGroup.synched /\ NoGroup.members = {} /\ NoGroup.known = NoRoom.known
  BY DEF NoRoom, NoGroup
<1>4. \A r \in Rooms :
        /\ ~client'.rooms[r].known /\ ~client'.rooms[r].admin /\ client'.rooms[r].members = {}
        /\ ~client'.groups[r].synched /\ client'.groups[r].members = {}
        /\ client'.groups[r].known = client'.rooms[r].known
        /\ client'.windows[r].state # "online" /\ Me \notin server'.members[r]
  BY <1>2, <1>3
<1> DEFINE v == [known |-> {}, synched |-> {}, admin |-> {}, members |-> [r \in Rooms |-> {}]]
<1>5. ViewOf(client') = v
  BY <1>4 DEF ViewOf
<1>6. ViewAt(server') = v
  <2>1. {r \in Rooms : Me \in server'.members[r]} = {}
    BY <1>4
  <2>2. [r \in Rooms |-> IF Me \in server'.members[r] THEN server'.members[r] ELSE {}]
          = [r \in Rooms |-> {}]
    BY <1>4
  <2> QED
    BY <1>2, <2>1, <2>2 DEF ViewAt
<1>7. Coherent(v) /\ v.known = {}
  BY DEF Coherent, View
<1> HIDE DEF v
<1>8. Linked(ViewOf(client'), down', ViewAt(server'))
  BY <1>2, <1>5, <1>6, <1>7, LinkNone
<1>9. Alined(client') /\ Seen(client') /\ Bound(client', down')
  BY <1>2, <1>4 DEF RoomsInv, Alined, Seen, Bound
<1> QED
  BY <1>2, <1>5, <1>7, <1>8, <1>9 DEF RoomsInv

LEMMA InvStep == TypeOK /\ RoomsInv /\ [Next]_vars => RoomsInv'
<1> SUFFICES ASSUME TypeOK, RoomsInv, [Next]_vars PROVE RoomsInv'
  OBVIOUS
<1>1. CASE Line
  BY <1>1, LineStep
<1>2. CASE User
  BY <1>2, UserStep DEF User
<1>3. CASE SignOn
  BY <1>3, SignOnStep
<1>4. CASE SignOff
  BY <1>4, SignOffStep
<1>5. CASE Server
  <2>1. CASE \E u \in Users, r \in Rooms : Enter(u, r) \/ Leave(u, r)
    BY <2>1, PeopleStep
  <2>2. CASE \E u \in Users : Quit(u)
    BY <2>2, QuitStep
  <2>3. CASE \E u, v \in Users : Rename(u, v)
    BY <2>3, RenameStep
  <2>4. CASE \E r \in Rooms : Speak(r) \/ Opers(r) \/ Expel(r)
    BY <2>4, RoomStep, TakenStep
  <2>5. CASE Admit \/ Refuse \/ Dismiss
    BY <2>5, TakenStep
  <2> QED
    BY <1>5, <2>1, <2>2, <2>3, <2>4, <2>5 DEF Server
<1>6. CASE UNCHANGED vars
  BY <1>6 DEF vars, RoomsInv
<1> QED
  BY <1>1, <1>2, <1>3, <1>4, <1>5, <1>6 DEF Next

(* No assertion about rooms ever fails, in the driver or in the scripts, and the scripts'
   groups are always the wrapper's rooms. *)
THEOREM RoomsNeverFail == Spec => []RoomAssertionsHold
<1>1. Init => TypeOK /\ RoomsInv
  BY TypeInit, InitInv
<1>2. TypeOK /\ RoomsInv /\ [Next]_vars => (TypeOK /\ RoomsInv)'
  BY TypeStep, InvStep
<1>3. TypeOK /\ RoomsInv => RoomAssertionsHold
  BY DEF RoomsInv, Alined, RoomAssertionsHold, NoFault, ScriptsAgree
<1> QED
  BY <1>1, <1>2, <1>3, PTL DEF Spec

(* When nothing is under way the wrapper, the windows and the buddy list have what the
   server has; and at no time is somebody online who is in none of our rooms. *)
THEOREM RoomsMeetTheServer == Spec => []RoomsEndUpRight
<1>1. Init => TypeOK /\ RoomsInv
  BY TypeInit, InitInv
<1>2. TypeOK /\ RoomsInv /\ [Next]_vars => (TypeOK /\ RoomsInv)'
  BY TypeStep, InvStep
<1>3. ASSUME TypeOK, RoomsInv PROVE RoomsEndUpRight
  <2>1. client \in Client /\ down \in Seq(Lines) /\ Coherent(ViewOf(client))
    BY <1>3, InvSteady
  <2>2. down = <<>> => ViewOf(client) = ViewAt(server)
    BY <1>3, <2>1, LinkEnds DEF RoomsInv
  <2>3. ASSUME down = <<>>, NEW r \in Rooms
        PROVE  /\ client.rooms[r].known <=> In(r)
               /\ client.groups[r].synched <=> In(r)
               /\ client.rooms[r].admin <=> r \in server.oper
               /\ client.rooms[r].members = IF In(r) THEN server.members[r] ELSE {}
    BY <2>1, <2>2, <2>3, InView, AtFields DEF In
  <2>4. ASSUME down = <<>>, NEW r \in Rooms
        PROVE  client.rooms[r] = IF In(r) THEN [known |-> TRUE, members |-> server.members[r],
                                                admin |-> r \in server.oper]
                                          ELSE NoRoom
    <3>1. client.rooms[r] \in Room /\ (client.rooms[r].admin => client.rooms[r].known)
      BY <2>1, InView DEF Client, Coherent
    <3>2. CASE In(r)
      <4>1. client.rooms[r] = [known   |-> client.rooms[r].known,
                               members |-> client.rooms[r].members,
                               admin   |-> client.rooms[r].admin]
        BY <3>1 DEF Room
      <4>2. client.rooms[r].known = TRUE
        BY <2>3, <2>4, <3>1, <3>2 DEF Room
      <4>3. client.rooms[r].members = server.members[r]
        BY <2>3, <2>4, <3>2
      <4>4. client.rooms[r].admin = (r \in server.oper)
        BY <2>3, <2>4, <3>1 DEF Room
      <4> QED
        BY <3>2, <4>1, <4>2, <4>3, <4>4
    <3>3. CASE ~In(r)
      BY <2>3, <2>4, <3>1, <3>3 DEF Room, NoRoom
    <3> QED
      BY <3>2, <3>3
  <2>5. ReadAgrees
    BY <2>4 DEF ReadAgrees
  <2>6. ASSUME down = <<>>, client.out = <<>>, NEW r \in Rooms
        PROVE  client.windows[r].state = "online" <=> In(r)
    <3>1. ~GoingOut(client.out, down, r)
      BY <2>6 DEF GoingOut
    <3>2. client.groups[r].synched <=> In(r)
      BY <2>3, <2>6
    <3> QED
      BY <1>3, <3>1, <3>2 DEF RoomsInv, Alined, Bound
  <2>7. QuietWindows
    BY <2>6 DEF QuietWindows
  <2>8. OnlineIsVisible
    BY <1>3 DEF RoomsInv, Seen, OnlineIsVisible
  <2> QED
    BY <2>5, <2>7, <2>8 DEF RoomsEndUpRight
<1>4. TypeOK /\ RoomsInv => RoomsEndUpRight
  BY <1>3
<1> QED
  BY <1>1, <1>2, <1>4, PTL DEF Spec
=============================================================================

----------------------------- MODULE RoomOrders -----------------------------
(***************************************************************************)
(* Orders in a room on IRC, and what becomes of them: /op, /deop, /kick,   *)
(* /topic, /invite, /join, /close and what is said.  An order goes through *)
(* the wrapper to the server, which carries it out or refuses; what it     *)
(* tells comes back in order, with what somebody else did meanwhile.       *)
(*                                                                         *)
(* There are one room, oneself and one other.  ChatRooms is about who is   *)
(* in which room; this module is about operators, the topic and the key,   *)
(* as the server, the wrapper and the window have them.                    *)
(***************************************************************************)
EXTENDS Integers, Sequences, FiniteSets

CONSTANTS
  MaxUp,     \* bound on the user's commands on their way to the server
  MaxDown    \* bound on the lines on their way back

ASSUME RoomOrdersAssumption == {MaxUp, MaxDown} \subseteq Nat \ {0}

VARIABLES
  aspect,  \* constant: what is changed in this behaviour
  there,   \* the room as it is: who is in it, operators, topic, key
  room,    \* the wrapper's firetalk_room_t, and his firetalk_member_t
  win,     \* the client's window
  going,   \* commands on their way
  coming,  \* lines on their way
  order    \* the last order, what was told of it, what is stale

orderVars == <<aspect, there, room, win, going, coming, order>>

People == {"me", "him"}
Texts == {"none", "a", "b"}
Keys  == {"none", "key"}

Orders(of) ==
  CASE of = "operators" -> {"op", "deop", "kick", "invite"}
    [] of = "topic"     -> {"topic", "say"}
    [] of = "key"       -> {"say"}
Aspects == {"operators", "topic", "key"}

NotKnown == [known |-> FALSE, admin |-> FALSE, him |-> FALSE, himAdmin |-> FALSE]
NoWin   == [state |-> "none", isoper |-> FALSE, topic |-> "none", key |-> "none"]
NoOrder   == [what |-> "none", told |-> "nothing", silent |-> FALSE,
            again |-> FALSE, refused |-> FALSE, late |-> FALSE]

OrdersInit ==
  /\ aspect \in Aspects
  /\ there = [in |-> {"him"}, ops |-> {"him"}, topic |-> "a", key |-> "none"]
  /\ room = NotKnown /\ win = NoWin
  /\ going = <<>> /\ coming = <<>>
  /\ order = NoOrder
-----------------------------------------------------------------------------
(* The user's side.  The wrapper hands an order on as it is, and whether it can be
   carried out is the server's to say. *)

SentAfter(cmd, arg) == Append(going, [cmd |-> cmd, arg |-> arg])

(* /join: with the key that the window remembers. *)
JoinRoom ==
  /\ win.state # "online" /\ Len(going) < MaxUp
  /\ win' = IF win.state = "none" THEN [NoWin EXCEPT !.state = "offline"] ELSE win
  /\ going' = SentAfter("JOIN", win.key)
  /\ order' = [order EXCEPT !.refused = FALSE, !.late = FALSE,
       !.again = win.state # "none" /\ @]
  /\ UNCHANGED <<there, room, coming>>

(* /join with a key is remembered, whether it was the right one or not. *)
JoinWithKey(key) ==
  /\ win.state # "online" /\ Len(going) < MaxUp
  /\ win' = [win EXCEPT !.state = "offline", !.key = key]
  /\ going' = SentAfter("JOIN", key)
  /\ order' = [order EXCEPT !.refused = FALSE, !.late = FALSE, !.again = win.state # "none" /\ @]
  /\ UNCHANGED <<there, room, coming>>

CloseRoom ==
  /\ win.state # "none" /\ Len(going) < MaxUp
  /\ win' = NoWin
  /\ going' = SentAfter("PART", "none")
  /\ UNCHANGED <<there, room, coming, order>>

(* An order is given in the room's window, one at a time. *)
Give(what, arg) ==
  /\ win.state # "none" /\ Len(going) < MaxUp
  /\ \A i \in DOMAIN going : going[i].cmd \in {"JOIN", "PART"}
  /\ going' = SentAfter(what, arg)
  /\ order' = [order EXCEPT !.what = what, !.told = "nothing", !.silent = FALSE]
  /\ UNCHANGED <<there, room, win, coming>>
-----------------------------------------------------------------------------
(* The server.  It tells us nothing of a room we are not in. *)

Says(lines) == coming' = coming \o lines
News(kind, arg, on) == [kind |-> kind, arg |-> arg, on |-> on]
Refusal(num) == [kind |-> "error", arg |-> num, on |-> FALSE]

Serving(cmd) ==
  /\ going # <<>> /\ Head(going).cmd = cmd
  /\ Len(coming) + 3 <= MaxDown
  /\ going' = Tail(going)
  /\ UNCHANGED <<room, win>>

Admits ==
  /\ Serving("JOIN") /\ "me" \notin there.in
  /\ there.key \in {"none", Head(going).arg}
  /\ LET ops == IF there.in = {} THEN {"me"} ELSE there.ops
     IN  /\ there' = [there EXCEPT !.in = @ \cup {"me"}, !.ops = ops]
         /\ Says(<<News("JOIN", "me", TRUE)>>
                 \o (IF there.topic = "none" THEN <<>> ELSE <<News("TOPIC", there.topic, TRUE)>>)
                 \o <<[kind |-> "NAMES", arg |-> there'.in, on |-> ops]>>)
  /\ UNCHANGED order

TurnsAway ==
  /\ Serving("JOIN")
  /\ IF "me" \in there.in THEN Says(<<>>) /\ UNCHANGED order
     ELSE /\ there.key \notin {"none", Head(going).arg}
          /\ Says(<<Refusal("475")>>)
          /\ order' = [order EXCEPT !.refused = TRUE]
  /\ UNCHANGED there

LetsGo ==
  /\ Serving("PART")
  /\ there' = [there EXCEPT !.in = @ \ {"me"}, !.ops = @ \ {"me"}]
  /\ Says(<<IF "me" \in there.in THEN News("PART", "me", FALSE) ELSE Refusal("442")>>)
  /\ UNCHANGED order

(* What the server makes of an order of ours: a line to all, an error, or nothing where
   nothing changes.  Errors 441 and 443 are about a person. *)
Outcome(what, arg) ==
  CASE what = "say" -> IF "me" \in there.in THEN <<>> ELSE <<Refusal("404")>>
    [] "me" \notin there.in -> <<Refusal("442")>>
    [] what = "invite" -> IF "him" \in there.in THEN <<Refusal("443")>> ELSE <<>>
    [] "me" \notin there.ops -> <<Refusal("482")>>
    [] what = "topic" -> <<News("TOPIC", arg, TRUE)>>
    [] "him" \notin there.in -> <<Refusal("441")>>
    [] what = "kick" -> <<News("KICK", "him", FALSE)>>
    [] ("him" \in there.ops) = (what = "op") -> <<>>
    [] OTHER -> <<News("MODE o", "him", what = "op")>>

Become(line) ==
  CASE line.kind = "TOPIC"  -> [there EXCEPT !.topic = line.arg]
    [] line.kind = "MODE o" -> [there EXCEPT !.ops = IF line.on THEN @ \cup {line.arg} ELSE @ \ {line.arg}]
    [] line.kind = "MODE k" -> [there EXCEPT !.key = line.arg]
    [] line.kind = "KICK"   -> [there EXCEPT !.in = @ \ {line.arg}, !.ops = @ \ {line.arg}]
    [] line.kind = "JOIN"   -> [there EXCEPT !.in = @ \cup {line.arg}]
    [] OTHER -> there

Obeys(what) ==
  /\ Serving(what)
  /\ LET lines == Outcome(what, Head(going).arg)
     IN  /\ Says(lines)
         /\ there' = IF lines = <<>> THEN there ELSE Become(Head(lines))
         /\ order' = [order EXCEPT !.silent = lines = <<>> \/ Head(lines).arg \in {"441", "443"}]

(* Somebody else with the rights to: himself, or a service. *)
Acts(line) ==
  /\ coming = <<>>
  /\ line.kind = "JOIN" => "him" \notin there.in
  /\ line.kind \in {"KICK", "MODE o"} => line.arg \in there.in
  /\ Become(line) # there
  /\ there' = Become(line)
  /\ Says(IF "me" \in there.in THEN <<line>> ELSE <<>>)
  /\ UNCHANGED <<room, win, going, order>>
-----------------------------------------------------------------------------
(* Lines that come back: the driver's handler, the wrapper's callback and the client's. *)

(* cgetwin *)
WindowFor(w) == IF w.state = "none" THEN [w EXCEPT !.state = "offline"] ELSE w
Late(o) == [o EXCEPT !.late = @ \/ win.state = "none"]

Done(what) == [order EXCEPT !.told = IF order.what \in what THEN "done" ELSE @]

JoinedLine(line) ==
  /\ line.kind = "JOIN" /\ line.arg = "me"
  /\ room' = [NotKnown EXCEPT !.known = TRUE]
  /\ win' = WindowFor(win)
  /\ order' = Late(order)
  /\ UNCHANGED going

NamesCome(line) ==
  /\ line.kind = "NAMES"
  /\ room' = [known |-> TRUE, admin |-> "me" \in line.on, him |-> "him" \in line.arg, himAdmin |-> "him" \in line.on]
  /\ win' = [WindowFor(win) EXCEPT !.state = "online", !.isoper = @ \/ "me" \in line.on]
  /\ order' = Late(order)
  /\ UNCHANGED going

HeComesOrGoes(line) ==
  /\ line.kind \in {"JOIN", "KICK"} /\ line.arg = "him"
  /\ room' = IF room.known THEN [room EXCEPT !.him = line.kind = "JOIN", !.himAdmin = FALSE] ELSE room
  /\ order' = IF line.kind = "KICK" THEN Done({"kick"}) ELSE order
  /\ UNCHANGED <<win, going>>

(* firetalk_callback_chat_gottopic knows the room; keychanged does not look. *)
TopicLine(line) ==
  /\ line.kind = "TOPIC"
  /\ win' = IF room.known THEN [WindowFor(win) EXCEPT !.topic = line.arg] ELSE win
  /\ order' = IF room.known THEN Late(Done({"topic"})) ELSE order
  /\ UNCHANGED <<room, going>>

KeyLine(line) ==
  /\ line.kind = "MODE k"
  /\ win' = [WindowFor(win) EXCEPT !.key = line.arg]
  /\ order' = Late(order)
  /\ UNCHANGED <<room, going>>

HisMode(line) ==
  /\ line.kind = "MODE o" /\ line.arg = "him"
  /\ room' = IF room.known /\ room.him THEN [room EXCEPT !.himAdmin = line.on] ELSE room
  /\ order' = Done({IF line.on THEN "op" ELSE "deop"})
  /\ UNCHANGED <<win, going>>

MyMode(line) ==
  /\ line.kind = "MODE o" /\ line.arg = "me"
  /\ LET turns == room.known /\ room.admin # line.on
     IN  /\ room' = IF turns THEN [room EXCEPT !.admin = line.on] ELSE room
         /\ win' = IF turns THEN [WindowFor(win) EXCEPT !.isoper = line.on] ELSE win
         /\ order' = IF turns THEN Late(order) ELSE order
  /\ UNCHANGED going

(* One who is out is in again as soon as may be, without the key. *)
OutLine(line) ==
  /\ line.kind \in {"PART", "KICK"} /\ line.arg = "me"
  /\ room' = NotKnown
  /\ IF ~room.known \/ (line.kind = "PART" /\ win.state = "none") THEN UNCHANGED <<win, going, order>>
     ELSE /\ win' = [WindowFor(win) EXCEPT !.state = "offline", !.isoper = @ /\ line.kind = "PART"]
          /\ going' = SentAfter("JOIN", "none")
          /\ order' = [Late(order) EXCEPT !.again = TRUE, !.refused = FALSE]

(* fireio_error_msg: in the room's window, or in the status window; 441 and 443 look for
   a /whois instead, and there is none. *)
RoomError(line) ==
  /\ line.kind = "error"
  /\ order' = IF line.arg \in {"441", "443", "475"} THEN order ELSE [order EXCEPT !.told = "error"]
  /\ UNCHANGED <<room, win, going>>

Reads ==
  /\ coming # <<>>
  /\ coming' = Tail(coming)
  /\ LET line == Head(coming)
     IN  \/ JoinedLine(line) \/ NamesCome(line) \/ HeComesOrGoes(line) \/ TopicLine(line)
         \/ KeyLine(line) \/ HisMode(line) \/ MyMode(line) \/ OutLine(line) \/ RoomError(line)
  /\ UNCHANGED there

Serves == Admits \/ TurnsAway \/ LetsGo \/ \E what \in Orders(aspect) : Obeys(what)

Others ==
  \/ Acts(News("KICK", "me", FALSE))
  \/ aspect = "topic" /\ \E arg \in {"none", "a"} : Acts(News("TOPIC", arg, TRUE))
  \/ aspect = "key" /\ \E arg \in Keys : Acts(News("MODE k", arg, TRUE))
  \/ /\ aspect = "operators"
     /\ \/ \E who \in People, on \in BOOLEAN : Acts(News("MODE o", who, on))
        \/ Acts(News("KICK", "him", FALSE)) \/ Acts(News("JOIN", "him", TRUE))

OrdersNext ==
  /\ \/ JoinRoom \/ CloseRoom \/ (aspect = "key" /\ JoinWithKey("key"))
     \/ \E what \in Orders(aspect) : Give(what, IF what = "topic" THEN "b" ELSE "none")
     \/ Serves \/ Reads \/ Others
  /\ UNCHANGED aspect
-----------------------------------------------------------------------------
OrdersTypeOK ==
  /\ there \in [in : SUBSET People, ops : SUBSET People, topic : Texts, key : Keys]
  /\ win \in [state : {"none", "offline", "online"}, isoper : BOOLEAN, topic : Texts, key : Keys]
  /\ room \in [known : BOOLEAN, admin : BOOLEAN, him : BOOLEAN, himAdmin : BOOLEAN]
  /\ Len(going) <= MaxUp + 1 /\ Len(coming) <= MaxDown
  /\ \A f \in {"silent", "again", "refused", "late"} : order[f] \in BOOLEAN

Settled == going = <<>> /\ coming = <<>>

(* When all is said the wrapper and the window have the room as it is: who is an operator,
   the topic, the key; but one who was out and came back may have missed that the topic was
   taken away, that the key was changed, and keeps the mark of an operator. *)
RoomShown ==
  Settled /\ room.known /\ win.state # "none" =>
    /\ "me" \in there.in
    /\ room.admin = ("me" \in there.ops) /\ room.him = ("him" \in there.in)
    /\ room.himAdmin = ("him" \in there.ops)
    /\ win.topic = there.topic \/ (order.again /\ there.topic = "none")
    /\ room.admin => win.isoper
    /\ win.isoper => room.admin \/ order.again

(* An order is carried out, or one is told why not; but an order about somebody who is
   not there, or is already, is refused in silence (irc.c:1105). *)
OrderAnswered ==
  Settled /\ order.what \in {"op", "deop", "kick", "topic"} /\ ~order.silent => order.told # "nothing"

(* While the window stays one is in the room, or was refused for want of the key: what is
   sent after a kick has none, even when the window knows it. *)
BackInTheRoom ==
  Settled /\ win.state # "none" /\ ~order.late => "me" \in there.in \/ order.refused
=============================================================================

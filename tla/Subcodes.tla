------------------------------ MODULE Subcodes ------------------------------
(***************************************************************************)
(* Subcodes (CTCP requests and replies) of one IRC connection: the two     *)
(* queues of the wrapper, which messages of the same kind to the same      *)
(* person empty as far as a line has room, and the main loop altogether.   *)
(*                                                                         *)
(* Lengths are in units.  A line's head takes one; a subcode is appended   *)
(* while the line stays within Limit, and a line is sent if it is shorter  *)
(* than that: in the code 511 and 510 characters.                          *)
(***************************************************************************)
EXTENDS Integers, Sequences, FiniteSets, SequencesExt, Sublists

CONSTANTS
  People,         \* who may be written to
  Raw,            \* ":RAW", the name that stands for the server
  Limit,          \* units of a line
  MaxSubcodes,    \* bound: subcodes queued in one behaviour
  MaxSessions     \* bound: sessions in one behaviour

ASSUME SubcodesAssumption ==
  /\ Raw \notin People
  /\ Limit \in Nat \ {0, 1}
  /\ {MaxSubcodes, MaxSessions} \subseteq Nat

Kinds    == {"request", "reply"}
CtcpCommands == {"PING", "VERSION", "LC"}   \* the client's own answer, a fixed one, none

VARIABLES
  subcodes,   \* every subcode that was queued, in order: to, kind, length, session
  queue,      \* subcode_requests and subcode_replies: numbers of subcodes
  lines,      \* lines with subcodes given to the socket: to, kind, subs, fate, session
  session,    \* its number, and how far it is: "off", "synack", "signon", "active"
  pc,         \* "run" between two calls of firetalk_select_custom; in it, first
              \* "drain" while the queues are emptied and then "read"
  pinged      \* lastctcp: a PING was answered less than two seconds ago

subcodeVars == <<subcodes, queue, lines, session, pc, pinged>>

SubcodesInit ==
  /\ subcodes = <<>> /\ lines = <<>>
  /\ queue = [k \in Kinds |-> <<>>]
  /\ session = [n |-> 0, phase |-> "off"]
  /\ pc = "run" /\ pinged = FALSE

-----------------------------------------------------------------------------
(* firetalk_enqueue. *)
Enqueue(to, kind, length) ==
  /\ subcodes' = Append(subcodes, [to |-> to, kind |-> kind, length |-> length,
                                   session |-> session.n])
  /\ queue' = [queue EXCEPT ![kind] = Append(@, Len(subcodes'))]

(* What is queued for one person, in order. *)
Waiting(kind, to) == Those(queue[kind], {i \in DOMAIN subcodes : subcodes[i].to = to})

Length(is) ==
  LET upto[n \in 0..Len(is)] == IF n = 0 THEN 0 ELSE upto[n - 1] + subcodes[is[n]].length
  IN  upto[Len(is)]

(* Mutant: room is kept for one more. *)
TakenShort(kind, to, text) ==
  LET mine == Waiting(kind, to)
      room == {n \in 0..Len(mine) : 1 + text + Length(SubSeq(mine, 1, n)) < Limit}
  IN  IF room = {} THEN <<>>
      ELSE SubSeq(mine, 1, CHOOSE n \in room : \A m \in room : m <= n)

(* firetalk_queue_append: as many as there is room for after the text. *)
Taken(kind, to, text) ==
  LET mine == Waiting(kind, to)
      room == {n \in 0..Len(mine) : 1 + text + Length(SubSeq(mine, 1, n)) <= Limit}
  IN  IF room = {} THEN <<>>
      ELSE SubSeq(mine, 1, CHOOSE n \in room : \A m \in room : m <= n)

(* What becomes of a line: firetalk_sock_send takes it for sent while the
   connection is not there yet, and irc_send_printf refuses one too long. *)
Fate(length) ==
  IF length >= Limit THEN "too long"
  ELSE IF session.phase = "synack" THEN "void" ELSE "sent"

(* irc_im_send_message: the queue, and the line if it has subcodes. *)
ImSendMessage(kind, to, text) ==
  LET subs == IF to = Raw THEN <<>> ELSE Taken(kind, to, text)
      line == [to |-> to, kind |-> kind, subs |-> subs, session |-> session.n,
               length |-> 1 + text + Length(subs), fate |-> Fate(1 + text + Length(subs))]
  IN  /\ queue' = [queue EXCEPT ![kind] = Those(@, DOMAIN subcodes \ {subs[i] : i \in DOMAIN subs})]
      /\ lines' = IF subs = <<>> THEN lines ELSE Append(lines, line)

-----------------------------------------------------------------------------
Running == pc = "run"
Reading == pc = "read"

Room == Len(subcodes) < MaxSubcodes

MoreSessions == session.n < MaxSessions

Dialled == [n |-> session.n + 1, phase |-> "synack"]
Off     == [session EXCEPT !.phase = "off"]

(* /connect. *)
Dial ==
  /\ Running /\ session.phase = "off" /\ MoreSessions
  /\ session' = Dialled
  /\ UNCHANGED <<subcodes, queue, lines, pc, pinged>>

(* The server has taken the connection; a later step ends the sign-on. *)
Advance ==
  /\ Reading
  /\ \/ session.phase = "synack" /\ session' = [session EXCEPT !.phase = "signon"]
     \/ session.phase = "signon" /\ session' = [session EXCEPT !.phase = "active"]
  /\ UNCHANGED <<subcodes, queue, lines, pc, pinged>>

(* firetalk_callback_connectfailed: the queues stay as they are. *)
ConnectFailed ==
  /\ Reading /\ session.phase \in {"synack", "signon"}
  /\ session' = Off
  /\ UNCHANGED <<subcodes, queue, lines, pc, pinged>>

(* Mutant: the queues outlive the session. *)
DisconnectedKeeps ==
  /\ session.phase # "off"
  /\ \/ (Running \/ Reading) /\ session' = Off
     \/ Reading /\ session.phase = "active" /\ MoreSessions /\ session' = Dialled
  /\ UNCHANGED <<subcodes, queue, lines, pc, pinged>>

(* firetalk_callback_disconnect, by the user or because the connection is lost;
   its handler may dial again. *)
Disconnected ==
  /\ session.phase # "off"
  /\ \/ (Running \/ Reading) /\ session' = Off
     \/ Reading /\ session.phase = "active" /\ MoreSessions /\ session' = Dialled
  /\ queue' = [k \in Kinds |-> <<>>]
  /\ UNCHANGED <<subcodes, lines, pc, pinged>>

(* firetalk_subcode_send_request, for /ctcp: refused unless signed on, except to
   a name with a colon. *)
SendRequest(to, length) ==
  /\ Running /\ Room
  /\ session.phase = "active" \/ to = Raw
  /\ Enqueue(to, "request", length)
  /\ UNCHANGED <<lines, session, pc, pinged>>

(* firetalk_callback_subcode_request.  While it runs the wrapper takes itself for
   signed on, so that what servers ask before that is answered, too. *)
GotRequest(from, command, length) ==
  /\ Reading /\ Room /\ session.phase \in {"signon", "active"}
  /\ IF command = "VERSION" \/ (command = "PING" /\ ~pinged)
     THEN Enqueue(from, "reply", length)
     ELSE UNCHANGED <<subcodes, queue>>
  /\ pinged' = (pinged \/ command = "PING")
  /\ UNCHANGED <<lines, session, pc>>

(* firetalk_im_send_message: an automatic message, which may answer one that is
   being read, takes the replies along, the others the requests. *)
SendMessage(to, kind, text) ==
  /\ (Running \/ Reading) /\ session.phase = "active"
  /\ ImSendMessage(kind, to, text)
  /\ UNCHANGED <<subcodes, session, pc, pinged>>

Tick == Running /\ pinged /\ pinged' = FALSE /\ UNCHANGED <<subcodes, queue, lines, session, pc>>

(* firetalk_select_custom before it waits: one line after another, to whom the
   first in the queue is for, first the requests and then the replies.  Every
   line must make the queue shorter: an assertion. *)
DrainKind == IF queue["request"] # <<>> THEN "request" ELSE "reply"

Empty == \A k \in Kinds : queue[k] = <<>>

BeginSelect ==
  /\ Running
  /\ pc' = IF session.phase = "off" \/ Empty THEN "read" ELSE "drain"
  /\ UNCHANGED <<subcodes, queue, lines, session, pinged>>

Drain ==
  /\ pc = "drain"
  /\ LET to == subcodes[Head(queue[DrainKind])].to
     IN  ImSendMessage(DrainKind, to, 0)
  /\ pc' = IF queue' = queue THEN "aborted" ELSE IF Empty' THEN "read" ELSE "drain"
  /\ UNCHANGED <<subcodes, session, pinged>>

EndSelect == Reading /\ pc' = "run" /\ UNCHANGED <<subcodes, queue, lines, session, pinged>>

SubcodesNext ==
  \/ Dial \/ Advance \/ ConnectFailed \/ Disconnected \/ Tick
  \/ BeginSelect \/ Drain \/ EndSelect
  \/ \E to \in People \cup {Raw}, length \in 1..Limit : SendRequest(to, length)
  \/ \E p \in People, c \in CtcpCommands, length \in 1..(Limit - 1) : GotRequest(p, c, length)
  \/ \E p \in People, k \in Kinds, text \in 1..Limit : SendMessage(p, k, text)

-----------------------------------------------------------------------------
SubcodesTypeOK ==
  /\ subcodes \in Seq([to : People \cup {Raw}, kind : Kinds, length : 1..Limit, session : Nat])
  /\ queue \in [Kinds -> Seq(DOMAIN subcodes)]
  /\ lines \in Seq([to : People, kind : Kinds, subs : Seq(DOMAIN subcodes), session : Nat,
                    length : Nat, fate : {"sent", "void", "too long"}])
  /\ session \in [n : Nat, phase : {"off", "synack", "signon", "active"}]
  /\ pc \in {"run", "drain", "read", "aborted"} /\ pinged \in BOOLEAN

(* Lines of one kind to one person. *)
LinesTo(kind, to) == {i \in DOMAIN lines : lines[i].to = to /\ lines[i].kind = kind}

(* Requests to one person, and replies, go out in the order they were made and
   each once, whichever messages carried them; of those of the present session
   none is missing, and no line is refused but one that is a unit too long. *)
SubcodesInOrder ==
  /\ \A i \in DOMAIN lines : lines[i].fate = "too long" => lines[i].length = Limit
  /\ \A kind \in Kinds, to \in People :
       LET wait == Waiting(kind, to)
       IN  /\ \A i, j \in LinesTo(kind, to) :
                \A m \in DOMAIN lines[i].subs, n \in DOMAIN lines[j].subs :
                  i < j \/ (i = j /\ m < n) => lines[i].subs[m] < lines[j].subs[n]
           /\ \A i \in LinesTo(kind, to) : \A m \in DOMAIN lines[i].subs, n \in DOMAIN wait :
                lines[i].subs[m] < wait[n]
           /\ \A m, n \in DOMAIN wait : m < n => wait[m] < wait[n]
           /\ session.phase # "off" =>
                \A s \in DOMAIN subcodes :
                  subcodes[s].to = to /\ subcodes[s].kind = kind /\ subcodes[s].session = session.n
                    => \/ \E n \in DOMAIN wait : wait[n] = s
                       \/ \E i \in LinesTo(kind, to) : \E m \in DOMAIN lines[i].subs : lines[i].subs[m] = s

(* An answer goes out in the session that asked for it or not at all. *)
NoStaleSubcode ==
  \A i \in DOMAIN lines : lines[i].fate = "sent" =>
    \A j \in DOMAIN lines[i].subs : subcodes[lines[i].subs[j]].session = lines[i].session

(* The main loop can always empty the queues, unless something was queued for
   ":RAW" or is longer than any line. *)
DrainGoesOn ==
  pc = "aborted" => \E s \in DOMAIN subcodes :
    subcodes[s].to = Raw \/ subcodes[s].length = Limit
=============================================================================

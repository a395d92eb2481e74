----------------------------- MODULE LuaSockets -----------------------------
(***************************************************************************)
(* The sockets and buffers that Lua drivers are given, naim.socket and     *)
(* naim.buffer, as OSCAR uses them: it connects, reads FLAPs out of the    *)
(* buffer as they become whole, and sends.                                 *)
(*                                                                         *)
(* A FLAP is a header of two cells, of which the first marks where it      *)
(* begins and the second tells its length, and data.  Each cell is known   *)
(* by its FLAP and its place in it.                                        *)
(***************************************************************************)
EXTENDS Integers, Sequences, SequencesExt

CONSTANTS
  Lengths,      \* how long FLAPs are, in cells
  Capacity,     \* cells of the buffer, as resized: more than the longest
  MaxSent       \* bound: FLAPs a server sends in a session

ASSUME LuaSocketsAssumption ==
  /\ Lengths \subseteq Nat \ {0, 1}
  /\ Capacity \in Nat \ {0} /\ \A n \in Lengths : n < Capacity
  /\ MaxSent \in Nat \ {0}

VARIABLES
  sock,     \* firetalk_sock_t of the driver's session: its state, NOTCONNECTED with no fd
  pipe,     \* the other end: what it has sent, what of it is under way, whether it is open
  flap,     \* firetalk_buffer_t, and what FLAPNewData has taken out of it
  driven    \* what the driver takes the session to be, and what has gone wrong

socketVars == <<sock, pipe, flap, driven>>

SockStates == {"NOTCONNECTED", "WAITING_SYNACK", "ACTIVE"}

NoPipe == [sent |-> <<>>, wire |-> <<>>, open |-> FALSE]
NoFlap == [cells |-> <<>>, taken |-> <<>>, short |-> FALSE]

Cell == [flap : 1..MaxSent, at : Nat]

(* FLAP k of a list of lengths, in cells. *)
Cells(sent, k) == [i \in 1..sent[k] |-> [flap |-> k, at |-> i]]

SocketsInit ==
  /\ sock = "NOTCONNECTED" /\ pipe = NoPipe /\ flap = NoFlap
  /\ driven = [session |-> "off", lost |-> "none", failed |-> FALSE]

-----------------------------------------------------------------------------
(* naim.buffer. *)

(* take moves size - pos cells, as many as there was room for, to the front; where more
   remain than that, the old ones stay where they were. *)
Take(cells, n) ==
  [i \in 1..(Len(cells) - n) |-> IF i <= Capacity - Len(cells) THEN cells[n + i] ELSE cells[i]]

(* FLAP:lengthfromstring: 0 for no header.  Data where the length should be reads as a
   FLAP with none. *)
Whole(sent, cells) ==
  IF Len(cells) < 2 \/ cells[1].at # 1 THEN 0
  ELSE IF cells[2].at = 2 THEN sent[cells[2].flap] ELSE 2

(* A round of the loop of got_data_authorizer and FLAPNewData, and where it stops. *)
FlapTaken(sent, g) ==
  LET n == Whole(sent, g.cells)
  IN  IF n = 0 \/ n > Len(g.cells) THEN g
      ELSE [cells |-> Take(g.cells, n),
            taken |-> Append(g.taken, SubSeq(g.cells, 1, n)),
            short |-> g.short \/ Len(g.cells) - n > Capacity - Len(g.cells)]

NewData(sent, f) ==
  LET loop[i \in 0..Len(f.cells)] == IF i = 0 THEN f ELSE FlapTaken(sent, loop[i - 1])
  IN  loop[Len(f.cells)]

-----------------------------------------------------------------------------
(* naim.socket. *)

(* What resolving a name and connecting to it may come to. *)
Outcomes == {"pending", "unresolved", "refused"}

(* firetalk_sock_preselect: the set that a socket is put in besides the exceptional one. *)
Watched ==
  CASE sock = "NOTCONNECTED"   -> "none"
    [] sock = "WAITING_SYNACK" -> "write"
    [] sock = "ACTIVE"         -> "read"

(* sock:connected(). *)
Connected == sock = "ACTIVE"

(* firetalk_sock_close, and OSCAR:cleanup: the client is told. *)
CleanUp ==
  /\ sock' = "NOTCONNECTED" /\ pipe' = [pipe EXCEPT !.open = FALSE, !.wire = <<>>]
  /\ driven' = [driven EXCEPT !.session = "off", !.lost = "told"]
  /\ UNCHANGED flap

(* OSCAR:connect: a new socket and a new buffer.  What sock:connect returns is not
   looked at. *)
Attempt(how) ==
  /\ driven.session = "off" /\ ~driven.failed
  /\ flap' = NoFlap
  /\ CASE how = "pending" ->    \* firetalk_sock_connect
            /\ sock' = "WAITING_SYNACK" /\ pipe' = [NoPipe EXCEPT !.open = TRUE]
            /\ driven' = [driven EXCEPT !.session = "up", !.lost = "none"]
       [] how = "unresolved" -> \* firetalk_sock_resolve4 gives an address of zeros
            /\ sock' = "NOTCONNECTED" /\ pipe' = NoPipe
            /\ driven' = [driven EXCEPT !.session = "up", !.lost = "never"]
       [] how = "refused" ->    \* connect() fails at once: assert(sock->fd == -1)
            /\ sock' = "NOTCONNECTED" /\ pipe' = NoPipe
            /\ driven' = [driven EXCEPT !.failed = TRUE]

(* OSCAR:disconnect. *)
Leave == driven.session = "up" /\ CleanUp

(* firetalk_sock_postselect of a socket that can be written to: firetalk_sock_synack, and
   ACTIVE by naim.socket's postselect. *)
Answered(ok) ==
  /\ Watched = "write"
  /\ IF ok THEN sock' = "ACTIVE" /\ UNCHANGED <<pipe, flap, driven>> ELSE CleanUp

(* firetalk_sock_postselect of a socket in the exceptional set. *)
Exceptional == Watched # "none" /\ CleanUp

(* A send that fails closes the socket, and nobody looks at what it returns; the next
   postselect finds no fd, which is no error. *)
FailsToSend(state) ==
  /\ sock' = "NOTCONNECTED"
  /\ pipe' = [state EXCEPT !.open = FALSE, !.wire = <<>>]
  /\ driven' = [driven EXCEPT !.lost = "silent"]

(* firetalk_sock_postselect of a socket that can be read: n cells, then all FLAPs that are
   whole.  The answer to one of them may fail to be sent. *)
ReadSocket(n, fails) ==
  /\ Watched = "read"
  /\ n \in 1..Len(pipe.wire) /\ n <= Capacity - Len(flap.cells)
  /\ LET rest == [pipe EXCEPT !.wire = SubSeq(@, n + 1, Len(@))]
         got  == NewData(pipe.sent, [flap EXCEPT !.cells = @ \o SubSeq(pipe.wire, 1, n)])
     IN  /\ flap' = got
         /\ IF fails
            THEN Len(got.taken) > Len(flap.taken) /\ FailsToSend(rest)
            ELSE pipe' = rest /\ UNCHANGED <<sock, driven>>

(* A recv of no cells: the end of the stream, or a buffer with no room. *)
ReadNothing ==
  /\ Watched = "read"
  /\ \/ pipe.wire = <<>> /\ ~pipe.open
     \/ pipe.wire # <<>> /\ Len(flap.cells) = Capacity
  /\ CleanUp

(* naim.socket's send by the user's commands: it succeeds but sends nothing before the
   connection is made. *)
SayMore(fails) ==
  /\ driven.session = "up" /\ Connected
  /\ IF fails THEN FailsToSend(pipe) /\ UNCHANGED flap ELSE UNCHANGED socketVars

-----------------------------------------------------------------------------
(* The server. *)

ServerSends(n) ==
  /\ sock = "ACTIVE" /\ pipe.open /\ Len(pipe.sent) < MaxSent
  /\ LET sent == Append(pipe.sent, n)
     IN  pipe' = [pipe EXCEPT !.sent = sent, !.wire = @ \o Cells(sent, Len(sent))]
  /\ UNCHANGED <<sock, flap, driven>>

ServerCloses ==
  /\ sock = "ACTIVE" /\ pipe.open
  /\ pipe' = [pipe EXCEPT !.open = FALSE]
  /\ UNCHANGED <<sock, flap, driven>>

SocketsNext ==
  \/ \E how \in Outcomes : Attempt(how)
  \/ \E ok \in BOOLEAN : Answered(ok) \/ SayMore(ok)
  \/ \E n \in 1..Capacity, fails \in BOOLEAN : ReadSocket(n, fails)
  \/ \E n \in Lengths : ServerSends(n)
  \/ Leave \/ Exceptional \/ ReadNothing \/ ServerCloses

-----------------------------------------------------------------------------
SocketsTypeOK ==
  /\ sock \in SockStates
  /\ pipe.sent \in Seq(Lengths) /\ pipe.wire \in Seq(Cell) /\ pipe.open \in BOOLEAN
  /\ flap.cells \in Seq(Cell) /\ flap.taken \in Seq(Seq(Cell)) /\ flap.short \in BOOLEAN
  /\ Len(flap.cells) <= Capacity
  /\ driven \in [session : {"off", "up"}, lost : {"none", "never", "silent", "told"},
                 failed : BOOLEAN]

(* FLAPs are dispatched as they were sent, each whole, once and in order, however the
   stream is cut, but when take had less room in the buffer than what remained. *)
FlapsInOrder ==
  flap.short \/
    /\ Len(flap.taken) <= Len(pipe.sent)
    /\ \A k \in DOMAIN flap.taken : flap.taken[k] = Cells(pipe.sent, k)

(* No FLAP that is whole waits in the buffer for the next one, and the buffer never
   fills up with a part of one, but in the same case. *)
NoFlapWaits ==
  flap.short \/
    /\ Whole(pipe.sent, flap.cells) \in {0} \cup (Len(flap.cells) + 1)..Capacity
    /\ Len(flap.cells) < Capacity

(* There is a socket while the driver takes a session to be up, but when the name of its
   server had no address (never) or a send failed (silent), which nobody is told; any
   other loss is told, and an attempt after it starts anew. *)
LossIsTold ==
  sock = "NOTCONNECTED" <=> driven.session = "off" \/ driven.lost \in {"never", "silent"}
=============================================================================

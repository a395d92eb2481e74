----------------------------- MODULE LineBuffer -----------------------------
(***************************************************************************)
(* The read buffer of an IRC session, byte for byte: firetalk_sock_read    *)
(* fills it, irc_recv_parse takes one line after another out of it.        *)
(*                                                                         *)
(* A byte is one of five that the code tells apart from the others.        *)
(***************************************************************************)
EXTENDS Integers, Sequences

CONSTANTS
  Size,         \* bytes of the buffer
  MaxStream     \* bound: bytes the server sends in a session

ASSUME LineBufferAssumption == {Size, MaxStream} \subseteq Nat \ {0}

Bytes == {"colon", "space", "cr", "nl", "nul"}

VARIABLES
  stream,    \* all that was received
  buffer,    \* what of it is in the buffer, up to pos
  handled,   \* the lines passed to irc_got_data_parse
  link       \* the socket: "open", or why it was closed

lineVars == <<stream, buffer, handled, link>>

LinesInit == stream = <<>> /\ buffer = <<>> /\ handled = <<>> /\ link = "open"

-----------------------------------------------------------------------------
(* strchr(data, '\n') finds the end of a line if no NUL comes before it; 0 for
   none. *)
LineEnd(b) ==
  IF \E i \in DOMAIN b : b[i] = "nl" /\ \A j \in 1..i : b[j] # "nul"
  THEN CHOOSE i \in DOMAIN b : b[i] = "nl" /\ \A j \in 1..(i - 1) : b[j] # "nl"
  ELSE 0

(* What is between places j and i, at which lines end, without "\n" or "\r\n". *)
LineIn(b, j, i) == SubSeq(b, j + 1, IF i > j + 1 /\ b[i - 1] = "cr" THEN i - 2 ELSE i - 1)

Line(b) == LineIn(b, 0, LineEnd(b))

(* Mutant: one byte more is taken out. *)
AfterOffByOne(b) == SubSeq(b, LineEnd(b) + 2, Len(b))

After(b) == SubSeq(b, LineEnd(b) + 1, Len(b))

(* args[1] # NULL: of a line that begins with a colon, there is a second word. *)
HasCommand(line) == line # <<>> /\ line[1] = "colon" => \E i \in DOMAIN line : line[i] = "space"

(* The loop of irc_got_data, at first and after another round: the lines it has taken, and
   what is left.  A line without a command is taken out, and ends the loop. *)
LoopAt(b) == [lines |-> <<>>, rest |-> b, over |-> FALSE]
LoopOn(l) ==
  IF l.over \/ LineEnd(l.rest) = 0 THEN l
  ELSE IF ~HasCommand(Line(l.rest)) THEN [l EXCEPT !.rest = After(@), !.over = TRUE]
  ELSE [l EXCEPT !.lines = Append(@, Line(l.rest)), !.rest = After(@)]

(* Where it stops: a line has a byte at least. *)
GotData(b) ==
  LET loop[n \in 0..Len(b)] == IF n = 0 THEN LoopAt(b) ELSE LoopOn(loop[n - 1])
  IN  loop[Len(b)]

-----------------------------------------------------------------------------
(* Mutant: recv may give as much as the whole buffer holds. *)
SockReadFull(bytes) ==
  /\ link = "open"
  /\ Len(bytes) \in 1..Size /\ Len(stream) + Len(bytes) <= MaxStream
  /\ LET got == GotData(buffer \o bytes)
     IN  /\ buffer' = got.rest
         /\ handled' = handled \o got.lines
  /\ stream' = stream \o bytes
  /\ UNCHANGED link

(* recv gives as much as has come, and as there is room for. *)
SockRead(bytes) ==
  /\ link = "open"
  /\ Len(bytes) \in 1..(Size - Len(buffer))
  /\ Len(stream) + Len(bytes) <= MaxStream
  /\ LET got == GotData(buffer \o bytes)
     IN  /\ buffer' = got.rest
         /\ handled' = handled \o got.lines
  /\ stream' = stream \o bytes
  /\ UNCHANGED link

(* A recv of no bytes is the end of the stream, or a buffer with no room. *)
SockEnd ==
  /\ link = "open"
  /\ \/ link' = "ended"
     \/ Len(buffer) = Size /\ link' = "full"
  /\ UNCHANGED <<stream, buffer, handled>>

LinesNext ==
  \/ \E n \in 1..Size : \E bytes \in [1..n -> Bytes] : SockRead(bytes)
  \/ SockEnd

-----------------------------------------------------------------------------
(* The stream as the protocol means it: line after line, each ended by "\n".  The line
   that ends at place i of s, and the lines with a command. *)
LineAt(s, i) ==
  LineIn(s, CHOOSE j \in 0..(i - 1) : /\ j > 0 => s[j] = "nl"
                                      /\ \A k \in (j + 1)..(i - 1) : s[k] # "nl", i)

CommandLines(s) ==
  LET upto[i \in 0..Len(s)] ==
        IF i = 0 THEN <<>>
        ELSE IF s[i] = "nl" /\ HasCommand(LineAt(s, i))
             THEN Append(upto[i - 1], LineAt(s, i)) ELSE upto[i - 1]
  IN  upto[Len(s)]

LinesTypeOK ==
  /\ stream \in Seq(Bytes) /\ buffer \in Seq(Bytes) /\ Len(buffer) <= Size
  /\ handled \in Seq(Seq(Bytes))
  /\ link \in {"open", "ended", "full"}

(* However the stream is cut into reads, the lines handled are its lines, from
   the first on, and what is in the buffer is the rest of it. *)
LinesOfStream == CommandLines(stream) = handled \o CommandLines(buffer)

(* A line is handled as soon as its end has come, unless a line without a
   command or a NUL is before it: the loop stops at either.  So it is to a line
   as long as the buffer, or to one of these two, that a session is lost for
   want of room. *)
NoLineWaits ==
  \/ \A i \in DOMAIN buffer : buffer[i] # "nl"
  \/ \E i \in DOMAIN stream : stream[i] = "nul"
  \/ \E i \in DOMAIN stream : stream[i] = "nl" /\ ~HasCommand(LineAt(stream, i))
=============================================================================

--------------------------- MODULE RepeatedLines ---------------------------
(***************************************************************************)
(* How what is said in a room is shown: a line that is said again is only  *)
(* counted until something else comes, and the name a line is addressed to *)
(* is left out when a sign can stand for it: ^ for the previous speaker,   *)
(* + for the one the previous line was addressed to.                       *)
(***************************************************************************)
EXTENDS Integers, Sequences, SequencesExt

CONSTANTS
  Speakers,   \* those who speak, by name
  Addressed,  \* names that lines are addressed to; one's own is "me"
  MaxSaid     \* bound on the lines said

ASSUME RepeatedLinesAssumption == MaxSaid \in Nat \ {0} /\ "nobody" \notin Addressed

VARIABLES
  said,     \* the lines said, as they were said
  last,     \* the window's e.chat->last
  printed   \* what is in the window

linesVars == <<said, last, printed>>

(* A line is somebody's, to somebody or to nobody, a message or an action. *)
Lines == [by : Speakers, to : Addressed \cup {"nobody"}, action : BOOLEAN]

(* e.chat->last: line is NULL, or the line and its speaker. *)
NoLast == [set |-> FALSE, line |-> [by |-> "nobody", to |-> "nobody", action |-> FALSE], reps |-> 0, istome |-> FALSE]

LinesInit == said = <<>> /\ last = NoLast /\ printed = <<>>

(* Of what is printed: the line it stands for, how often, the sign, and whether the name
   was cut; sign " " is none. *)
Entry(line, times, sign, cut, istome) ==
  [line |-> line, times |-> times, sign |-> sign, cut |-> cut, istome |-> istome]

IsToMe(line) == line.to = "me"

(* chat_flush: one repetition is shown as it was said, several by their number. *)
Flushed ==
  IF last.reps = 0 THEN printed
  ELSE Append(printed, Entry(last.line, last.reps, " ", FALSE, last.reps = 1 /\ last.istome))

(* The comparison is of as many letters as the speaker's name has. *)
StartsWith(to, name) == to = name \/ (name = "bob" /\ to = "bobby")

(* The sign; one who says something to the same person again needs none. *)
Sign(line) ==
  CASE StartsWith(line.to, last.line.by) -> "^"
    [] ~StartsWith(line.to, last.line.by) /\ line.to = last.line.to /\ line.by # last.line.by -> "+"
    [] OTHER -> " "

CanCut(line) ==
  /\ last.set /\ last.reps = 0 /\ line.to # "nobody"
  /\ StartsWith(line.to, last.line.by) \/ line.to = last.line.to

(* fireio_recvfrom_display_chat *)
Repeated(line) ==
  /\ last.set /\ line = last.line
  /\ last' = [last EXCEPT !.reps = @ + 1]
  /\ UNCHANGED printed

(* An action is printed in a form that has no place for a sign. *)
Shown(line) ==
  /\ ~(last.set /\ line = last.line)
  /\ LET cut == CanCut(line)
     IN  printed' = Append(Flushed,
           Entry(line, 1, IF cut /\ ~line.action THEN Sign(line) ELSE " ", cut, IsToMe(line)))
  /\ last' = [set |-> TRUE, line |-> line, reps |-> 0, istome |-> IsToMe(line)]

Say(line) ==
  /\ Len(said) < MaxSaid
  /\ Repeated(line) \/ Shown(line)
  /\ said' = Append(said, line)

(* window_echof, and what one says there: what is held back is shown before. *)
Interrupt ==
  /\ last.set
  /\ printed' = Flushed
  /\ last' = NoLast
  /\ UNCHANGED said

LinesNext == (\E line \in Lines : Say(line)) \/ Interrupt
-----------------------------------------------------------------------------
LinesTypeOK ==
  /\ said \in Seq(Lines) /\ Len(said) <= MaxSaid
  /\ last.reps \in 0 .. MaxSaid - 1 /\ (last.reps > 0 => last.set)

Repeat(line, n) == [k \in 1 .. n |-> line]

(* What the window holds, and what is held back, are the lines that were said, in order and
   as often, whatever comes between; a line to oneself is marked as one. *)
SaidShown ==
  /\ FlattenSeq([i \in DOMAIN printed |-> Repeat(printed[i].line, printed[i].times)])
       \o Repeat(last.line, last.reps) = said
  /\ \A i \in DOMAIN printed : printed[i].times = 1 => printed[i].istome = IsToMe(printed[i].line)

(* Whom a reader takes line i to be addressed to, who has understood the line before. *)
ReadsTo(i) ==
  CASE ~printed[i].cut -> printed[i].line.to
    [] printed[i].cut /\ printed[i].sign = "^" -> printed[i - 1].line.by
    [] OTHER -> printed[i - 1].line.to

(* A name that was left out is understood from the line before: the previous speaker's, or
   the one that line was addressed to; but an action leaves it out without a sign
   (fireio.c:534), and a name that only begins as the previous speaker's does is taken for
   his (fireio.c:621). *)
NameUnderstood ==
  \A i \in DOMAIN printed :
    printed[i].line.action \/ printed[i].line.to = "bobby" \/ ReadsTo(i) = printed[i].line.to
=============================================================================

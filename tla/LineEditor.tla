----------------------------- MODULE LineEditor -----------------------------
(***************************************************************************)
(* The input line: gotkey_real's keys, its buffer and its history.         *)
(*                                                                         *)
(* The buffer is an array that ends with the first NUL, and the cursor an  *)
(* index that is kept apart from it; the last entry of the history is a    *)
(* copy of the line that is being typed.  What a key does is done to these *)
(* three, and to the place up to which a recalled line has to agree.       *)
(***************************************************************************)
EXTENDS Integers, Sequences, FiniteSetsExt
LOCAL INSTANCE SequencesExt

CONSTANTS
  Letters,     \* what is typed as it is
  Entity,      \* what several keys put in: &nbsp; and &lt; and <br>
  Tag,         \* an opening and a closing tag, of one character each
  BufSize,        \* of the buffer: 1024 in the code
  Histories,   \* lines entered before
  Drafts,      \* lines typed, of which the cursor may be anywhere
  MaxEntered,  \* bound on the lines entered
  MaxPresses      \* bound on the keys pressed

Nul   == ""
Gap == " "

ASSUME LineEditorAssumption ==
  /\ BufSize \in Nat \ {0} /\ MaxEntered \in Nat /\ MaxPresses \in Nat
  /\ Nul \notin Letters /\ Gap \notin Letters /\ Len(Tag) = 2

VARIABLES
  buf,        \* the array
  bufloc,     \* the cursor
  histar,     \* lines entered, and the one being typed: NoLine before its first letter
  histpos,    \* the entry that was recalled
  matchpos,   \* bufmatchpos
  inpaste, inwhite,
  presses        \* pressed so far

editorVars == <<buf, bufloc, histar, histpos, matchpos, inpaste, inwhite, presses>>

NoLine  == <<Nul>>
NoMatch == -1
Zeroes  == [i \in 1..BufSize |-> Nul]

(* The string in an array from an index on. *)
StrLen(b, from) == Min({i \in 0..(BufSize - from) : from + i = BufSize \/ b[from + i + 1] = Nul})
LineText(b) == SubSeq(b, 1, StrLen(b, 0))
Array(s) == [i \in 1..BufSize |-> IF i <= Len(s) THEN s[i] ELSE Nul]

EditorInit ==
  /\ \E h \in Histories, d \in Drafts :
       /\ histar = Append(h, IF d = <<>> THEN NoLine ELSE d) /\ histpos = Len(h) + 1
       /\ buf = Array(d) /\ bufloc \in 0..Len(d)
  /\ matchpos = NoMatch /\ inpaste = FALSE /\ inwhite = FALSE /\ presses = 0

(* An index in the array: beyond it, what a key does is undefined. *)
Inside == bufloc \in 0..(BufSize - 1)
Astray == bufloc \notin 0..StrLen(buf, 0)
Entered == SubSeq(histar, 1, Len(histar) - 1)
-----------------------------------------------------------------------------
(* ADDTOBUF: the line as it is now becomes the last entry. *)
Shifted(b, loc, ch) ==
  [i \in 1..BufSize |-> CASE i = loc + 1 -> ch
                         [] i > loc + 1 /\ b[loc + 1] # Nul -> b[i - 1]
                         [] OTHER -> b[i]]
AddToBuf(e, ch) ==
  IF StrLen(e.buf, 0) < BufSize - 1 /\ e.loc < BufSize
  THEN LET b == Shifted(e.buf, e.loc, ch)
       IN [buf |-> b, loc |-> e.loc + 1, hist |-> Entered \o <<LineText(b)>>, pos |-> Len(histar)]
  ELSE e

(* ADDSTOBUF: what does not fit is left out, from the middle of it on. *)
AddsToBuf(s) ==
  LET add[i \in 0..Len(s)] ==
        IF i = 0 THEN [buf |-> buf, loc |-> bufloc, hist |-> histar, pos |-> histpos]
        ELSE AddToBuf(add[i - 1], s[i])
  IN add[Len(s)]

Becomes(e) == buf' = e.buf /\ bufloc' = e.loc /\ histar' = e.hist /\ histpos' = e.pos
Puts(s) == Becomes(AddsToBuf(s))
Moves(loc) == bufloc' = loc /\ UNCHANGED <<buf, histar, histpos>>
Edits(b, loc) == buf' = b /\ bufloc' = loc /\ UNCHANGED <<histar, histpos>>
Removed(from) ==
  [i \in 1..BufSize |-> IF i > from /\ i < BufSize THEN buf[i + 1] ELSE buf[i]]

(* strncasecmp finds no difference. *)
Cut(s, n) == SubSeq(s, 1, Min({n, Len(s)}))
AgreesTo(line, n) == Cut(line, n) = Cut(LineText(buf), n)
-----------------------------------------------------------------------------
(* A key that is bound to one of the editor's functions. *)
Bound == inwhite' = FALSE /\ matchpos' = NoMatch /\ UNCHANGED inpaste

TypeLetter(ch) ==
  /\ Puts(<<ch>>)
  /\ inwhite' = FALSE /\ UNCHANGED <<matchpos, inpaste>>

SpaceOrNbsp ==
  /\ matchpos' = NoMatch /\ UNCHANGED inpaste
  /\ IF inpaste /\ inwhite THEN Puts(Entity) /\ inwhite' = FALSE
                           ELSE Puts(<<Gap>>) /\ inwhite' = TRUE

Symbol == Bound /\ Puts(Entity)

CursorLeft  == Bound /\ Moves(IF bufloc > 0 THEN bufloc - 1 ELSE bufloc)
CursorRight == Bound /\ Moves(IF buf[bufloc + 1] # Nul THEN bufloc + 1 ELSE bufloc)
CursorHome  == Bound /\ Moves(0)
CursorEnd   == Bound /\ Moves(StrLen(buf, 0))

Backspace ==
  Bound /\ IF bufloc = 0 THEN Moves(0)
           ELSE Edits(Removed(bufloc - 1), bufloc - 1)
DeleteChar == Bound /\ Edits(Removed(bufloc), bufloc)
KillLine  == Edits(Zeroes, 0) /\ matchpos' = NoMatch /\ inwhite' = FALSE /\ inpaste' = FALSE
KillEol   == Bound /\ Edits([i \in 1..BufSize |->
               IF i \in (bufloc + 1)..(bufloc + StrLen(buf, bufloc)) THEN Nul ELSE buf[i]], bufloc)

(* Where the word before the cursor begins: blanks after it belong to it, and the first
   place of the line is not left for being a blank. *)
WordStart ==
  LET skip[l \in 0..BufSize] == IF l > 0 /\ buf[l + 1] = Gap THEN skip[l - 1] ELSE l
      word[l \in 0..BufSize] == IF l > 0 /\ buf[l + 1] # Gap THEN word[l - 1] ELSE l
      l == word[skip[bufloc - 1]]
  IN IF buf[l + 1] = Gap THEN l + 1 ELSE l

(* Since what is left is moved without its end, the end is cleared after it. *)
KillWord ==
  /\ Bound
  /\ IF bufloc = 0 THEN Moves(0)
     ELSE LET n == bufloc - WordStart
              rest == StrLen(buf, bufloc)
              moved == [i \in 1..BufSize |-> IF i \in (WordStart + 1)..(WordStart + rest)
                                          THEN buf[i + n] ELSE buf[i]]
              end == StrLen(moved, 0)
          IN Edits([i \in 1..BufSize |-> IF i \in (end - n + 1)..end THEN Nul ELSE moved[i]], WordStart)

Paste == inpaste' = ~inpaste /\ inwhite' = FALSE /\ matchpos' = NoMatch
         /\ UNCHANGED <<buf, bufloc, histar, histpos>>

(* A tag and its end, with the cursor between them; at the end of one, behind it.  The
   room is compared with the cursor, not with the line. *)
Bold ==
  /\ Bound
  /\ LET e == AddsToBuf(Tag)
     IN IF buf[bufloc + 1] = Tag[2] THEN Moves(bufloc + 1)
        ELSE IF bufloc + Len(Tag) < BufSize - 1 THEN Becomes([e EXCEPT !.loc = @ - 1])
        ELSE Moves(bufloc)

(* An entry is shown: the cursor goes to its end if it was at the end. *)
Recalled(line) ==
  /\ bufloc' = IF buf[bufloc + 1] = Nul THEN Len(line) ELSE bufloc
  /\ buf' = [Array(line) EXCEPT ![BufSize] = buf[BufSize]]

Upto == IF matchpos = NoMatch THEN bufloc ELSE matchpos

ScrollBack ==
  LET found == {h \in 1..(histpos - 1) : AgreesTo(histar[h], Upto)}
  IN /\ IF found = {} THEN UNCHANGED <<buf, bufloc, histpos>>
        ELSE histpos' = Max(found) /\ Recalled(histar[Max(found)])
     /\ matchpos' = IF histpos > 1 THEN Upto ELSE matchpos
     /\ inwhite' = FALSE /\ UNCHANGED <<histar, inpaste>>

ScrollForward ==
  LET found == {h \in (histpos + 1)..Len(histar) : histar[h] = NoLine \/ AgreesTo(histar[h], Upto)}
      h == Min(found)
  IN /\ IF found = {} THEN UNCHANGED <<buf, bufloc, histpos>>
        ELSE /\ histpos' = h
             /\ IF histar[h] = NoLine THEN buf' = Zeroes /\ bufloc' = 0 ELSE Recalled(histar[h])
     /\ matchpos' = Upto
     /\ inwhite' = FALSE /\ UNCHANGED <<histar, inpaste>>

(* Pasted, a line goes on; that more input waits is taken for that too. *)
EnterPasted ==
  /\ inpaste \/ buf[1] # Nul
  /\ Puts(Entity)
  /\ matchpos' = NoMatch /\ inwhite' = TRUE /\ UNCHANGED inpaste

(* The line is entered, and carried out by then. *)
Enter ==
  /\ ~inpaste /\ buf[1] # Nul /\ Len(histar) <= MaxEntered
  /\ histar' = Entered \o <<LineText(buf), NoLine>> /\ histpos' = Len(histar) + 1
  /\ buf' = Zeroes /\ bufloc' = 0 /\ matchpos' = NoMatch /\ inwhite' = FALSE /\ inpaste' = FALSE

EnterNothing == ~inpaste /\ buf[1] = Nul /\ Bound /\ Moves(bufloc)

EditorNext ==
  /\ Inside /\ presses < MaxPresses /\ presses' = presses + 1
  /\ \/ \E ch \in Letters : TypeLetter(ch)
     \/ SpaceOrNbsp \/ Symbol \/ CursorLeft \/ CursorRight \/ CursorHome \/ CursorEnd \/ Backspace \/ DeleteChar \/ KillLine
     \/ KillEol \/ KillWord \/ Paste \/ Bold \/ ScrollBack \/ ScrollForward \/ EnterPasted \/ Enter \/ EnterNothing
-----------------------------------------------------------------------------
EditorTypeOK ==
  /\ bufloc \in Int /\ histpos \in 1..Len(histar)
  /\ DOMAIN buf = 1..BufSize /\ matchpos \in NoMatch..BufSize
  /\ inpaste \in BOOLEAN /\ inwhite \in BOOLEAN /\ presses \in 0..MaxPresses

(* An older line is shown, and nothing typed; a tag may not fit. *)
Recalls == histar' = histar /\ histpos' # histpos
NoRoom  == StrLen(buf, 0) + Len(Tag) > BufSize - 1

(* The cursor stays in the text, where what is typed is seen: unless a line was recalled
   once more after something was typed into a recalled one, or a tag did not fit. *)
CursorStays ==
  Astray' => Astray \/ (Recalls /\ matchpos \in 0..(bufloc - 1)) \/ (NoRoom /\ bufloc' < 0)

(* The lines entered stay as they were, whatever is done to one that was recalled, and a
   new one is what was seen. *)
HistoryKept ==
  /\ SubSeq(histar', 1, Len(Entered)) = Entered
  /\ Len(histar') > Len(histar) => histar'[Len(histar)] = LineText(buf) /\ LineText(buf) # <<>>

(* What is recalled is a line of the history, and begins as the line did, up to where the
   cursor was when one began to recall. *)
RecallsAsAsked ==
  Recalls /\ LineText(buf') # <<>> =>
    /\ LineText(buf') = histar[histpos']
    /\ ~Astray => IsPrefix(Cut(LineText(buf), matchpos'), LineText(buf'))

(* Any other key changes the line where the cursor is: what is before stays, and if the
   cursor moves, what is after. *)
EditsAtCursor ==
  ~Astray /\ ~NoRoom /\ ~Recalls /\ buf' # buf /\ LineText(buf') # <<>> =>
    /\ IsPrefix(Cut(LineText(buf), Min({bufloc, bufloc'})), LineText(buf'))
    /\ bufloc' # bufloc => IsSuffix(SubSeq(LineText(buf), bufloc + 1, StrLen(buf, 0)), LineText(buf'))

EditorStep == CursorStays /\ HistoryKept /\ RecallsAsAsked /\ EditsAtCursor
=============================================================================

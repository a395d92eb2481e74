------------------------------- MODULE Markup -------------------------------
(***************************************************************************)
(* Drawing a text in a window (hwprintf.c): tags change how letters look,  *)
(* blanks are drawn once, and a word that does not fit goes to a new row,  *)
(* set in under the second word of its line.                               *)
(*                                                                         *)
(* A tag, an entity and a letter are one token each; a row is a sequence   *)
(* of cells.                                                               *)
(***************************************************************************)
EXTENDS Integers, Sequences, FiniteSets, TLC
LOCAL INSTANCE SequencesExt
LOCAL INSTANCE FiniteSetsExt

CONSTANTS
  Scenes,      \* what is drawn: tokens, how many, in what width, and with $color or not
  StackSize,   \* of fontstack (20)
  Slots        \* what an unset slot of it may hold

ASSUME MarkupAssumption ==
  /\ StackSize \in Nat \ {0} /\ Slots # {}
  /\ \A s \in Scenes : s.max \in Nat /\ s.width \in Nat

VARIABLES
  scene,   \* constant
  look,    \* pair, inbold, initalic, inunderline, last_inunderline, white, newline
  fonts,   \* fontstack and fontstacklen
  line,    \* addch: len, firstwhite, secondwhite, lastwhite, buf
  rows,    \* what the window shows
  shown,   \* history: the tokens of this text
  fault    \* an index outside fontstack was used

markupVars == <<scene, look, fonts, line, rows, shown, fault>>

Base == [pair |-> "base", inbold |-> FALSE, initalic |-> FALSE, inunderline |-> FALSE]
StartLook == Base @@ [last_inunderline |-> FALSE, white |-> FALSE, newline |-> FALSE]
Styles(l) == [pair |-> l.pair, inbold |-> l.inbold, initalic |-> l.initalic, inunderline |-> l.inunderline]
-----------------------------------------------------------------------------
Back == "back"    \* the cursor goes back
Hard == "hard"    \* a blank that is not wrapped at

(* The cursor of a window: it goes on in the next row at the edge, and stays in its row
   when it is moved back. *)
PutCell(rs, c) ==
  LET last == rs[Len(rs)]
      InLast(r) == [rs EXCEPT ![Len(rs)] = r]
  IN CASE c = "\n" -> Append(rs, <<>>)
       [] c = Back -> IF last = <<>> THEN rs ELSE InLast(SubSeq(last, 1, Len(last) - 1))
       [] Len(last) + 1 = scene.width -> Append(InLast(Append(last, c)), <<>>)
       [] OTHER -> InLast(Append(last, c))
Decoded(c) == IF c = Hard THEN " " ELSE c
PutAll(rs, cs) == FoldLeft(LAMBDA r, c : PutCell(r, Decoded(c)), rs, cs)
Times(n, c) == [i \in 1..n |-> c]
Rubout(n) == FlattenSeq([i \in 1..n |-> <<Back, " ", Back>>])

White(c) == c \in {" ", Hard}
NoWhite == -1

(* h_init_addch: what is in the row already; columns count from 0. *)
FirstWhite(row, from) ==
  LET ws == {i \in from..(Len(row) - 1) : White(row[i + 1])} IN IF ws = {} THEN NoWhite ELSE Min(ws)
LastWhite(row, from) ==
  LET ws == {i \in from..(Len(row) - 1) : White(row[i + 1])} IN IF ws = {} THEN NoWhite ELSE Max(ws)
LineOf(row) ==
  LET f == FirstWhite(row, 0)
      s == IF f = NoWhite THEN NoWhite ELSE FirstWhite(row, f + 1)
  IN [len |-> Len(row), firstwhite |-> f, secondwhite |-> s,
      lastwhite |-> IF s = NoWhite THEN NoWhite ELSE LastWhite(row, s + 1),
      buf |-> [i \in 0..(Len(row) - 1) |-> row[i + 1]]]

(* nw_wrap_addch: e is a line and the rows.  What a wrap leaves in len is two too much. *)
WrapWord(e) ==
  LET l == e.line
      rest == [i \in 1..(l.len - l.lastwhite - 1) |-> l.buf[l.lastwhite + i]]
      indent == l.secondwhite + 1
  IN IF l.lastwhite > l.firstwhite /\ l.lastwhite > l.secondwhite
     THEN [rows |-> PutAll(e.rows, Rubout(l.len - l.lastwhite) \o <<"\n">> \o Times(indent, " ") \o rest),
           line |-> [l EXCEPT !.len = @ - (l.lastwhite - 1) + indent, !.lastwhite = NoWhite]]
     ELSE [rows |-> PutAll(e.rows, Times(indent + 1, " ")),
           line |-> [l EXCEPT !.len = indent, !.lastwhite = NoWhite]]

Noted(l, c) ==
  CASE c = "\n" -> [l EXCEPT !.len = 0, !.firstwhite = NoWhite, !.secondwhite = NoWhite, !.lastwhite = NoWhite]
    [] c = Back -> LET n == IF l.len > 0 THEN l.len - 1 ELSE 0
                   IN [l EXCEPT !.len = n,
                         !.firstwhite = IF @ = n THEN NoWhite ELSE @,
                         !.secondwhite = IF @ = n THEN NoWhite ELSE @]
    [] OTHER ->
       [l EXCEPT !.len = @ + 1,
          !.buf = [i \in DOMAIN @ \cup {l.len} |-> IF i = l.len THEN c ELSE @[i]],
          !.firstwhite = IF White(c) /\ @ = NoWhite THEN l.len ELSE @,
          !.secondwhite = IF White(c) /\ l.firstwhite # NoWhite /\ @ = NoWhite THEN l.len ELSE @,
          !.lastwhite = IF c = " " /\ l.firstwhite # NoWhite /\ l.secondwhite # NoWhite THEN l.len ELSE @]

WrapAddch(e, c) ==
  LET w == IF e.line.len >= scene.width - 1 THEN WrapWord(e) ELSE e
  IN [rows |-> PutCell(w.rows, Decoded(c)), line |-> Noted(w.line, c)]
Drawn(cs) == FoldLeft(WrapAddch, [rows |-> rows, line |-> line], cs)

Draws(cs) == rows' = Drawn(cs).rows /\ line' = Drawn(cs).line
-----------------------------------------------------------------------------
MarkupInit ==
  /\ scene \in Scenes
  /\ look = StartLook /\ rows = <<<<>>>> /\ line = LineOf(<<>>)
  /\ \E g \in Slots : fonts = [slot |-> [i \in 0..(StackSize - 1) |-> g], len |-> 0]
  /\ shown = <<>> /\ fault = FALSE

Restored(l, slot) == [l EXCEPT !.pair = slot.pair, !.inbold = slot.inbold, !.initalic = slot.initalic,
                               !.inunderline = slot.inunderline]

(* <B>, <I> and <U> are switches. *)
Switch(field, on) == look' = [look EXCEPT ![field] = on] /\ UNCHANGED <<line, rows, fonts, fault>>

(* <A> underlines; at its end the address is drawn if there was other text in it. *)
Anchor ==
  /\ look' = [look EXCEPT !.last_inunderline = look.inunderline, !.inunderline = TRUE]
  /\ UNCHANGED <<line, rows, fonts, fault>>
TagTokens == {"<b>", "</b>", "<i>", "</i>", "<u>", "</u>", "<a>", "</a>", "<br>", "<hr>", "<img>", "<p>",
              "<font dark>", "<font bright>", "<font>", "</font>", "<body>", "<body bg>", "</body>"}
(* What was drawn since the last tag; from the second character if there was none. *)
ThisText == LET overs == {i \in DOMAIN shown : shown[i] = "over"}
            IN IF overs = {} THEN shown ELSE SubSeq(shown, Max(overs) + 1, Len(shown))
Since == LET tags == {i \in DOMAIN ThisText : ThisText[i] \in TagTokens \cup {"&nbsp;", "&lt;"}}
         IN SubSeq(ThisText, IF tags = {} THEN 2 ELSE Max(tags) + 1, Len(ThisText))
AnchorEnds ==
  /\ look' = [look EXCEPT !.inunderline = look.last_inunderline]
  /\ IF Since # <<>> /\ Since[1] # "url" /\ Contains(shown, "<a>")
     THEN Draws(<<" ", "[", "url", "]">>) ELSE UNCHANGED <<line, rows>>
  /\ UNCHANGED <<fonts, fault>>

Break(cs) ==
  /\ Draws(cs \o <<"\n", " ">>) /\ look' = [look EXCEPT !.newline = TRUE, !.white = TRUE]
  /\ UNCHANGED <<fonts, fault>>

(* The length is checked after the slot was written. *)
Pushed(body) ==
  [slot |-> [fonts.slot EXCEPT ![fonts.len] =
               Styles(look) @@ [body |-> IF body THEN TRUE ELSE @.body]],
   len |-> fonts.len + 1]
Opens(body, changed) ==
  /\ UNCHANGED <<line, rows>>
  /\ IF ~scene.colour THEN UNCHANGED <<look, fonts, fault>>
     ELSE IF fonts.len = StackSize THEN fault' = TRUE /\ UNCHANGED <<look, fonts>>
     ELSE fonts' = Pushed(body) /\ look' = changed /\ UNCHANGED fault

FontEnds ==
  /\ UNCHANGED <<line, rows, fault>>
  /\ IF ~scene.colour THEN UNCHANGED <<look, fonts>>
     ELSE LET n == IF fonts.len > 0 THEN fonts.len - 1 ELSE 0
          IN fonts' = [fonts EXCEPT !.len = n] /\ look' = Restored(look, fonts.slot[n])

(* </BODY> looks for the last <BODY>, and forgets whatever is open. *)
BodyEnds ==
  /\ UNCHANGED <<line, rows>>
  /\ IF ~scene.colour THEN UNCHANGED <<look, fonts, fault>>
     ELSE LET bodies == {i \in 0..(fonts.len - 1) : fonts.slot[i].body}
          IN /\ fonts' = [fonts EXCEPT !.len = 0]
             /\ IF fonts.len = 0
                THEN /\ look' = [look EXCEPT !.inbold = FALSE, !.initalic = FALSE, !.inunderline = FALSE]
                     /\ UNCHANGED fault
                ELSE IF bodies = {} THEN fault' = TRUE /\ UNCHANGED look
                ELSE look' = Restored(look, fonts.slot[Max(bodies)]) /\ UNCHANGED fault

ByTag(t) ==
  CASE t = "<b>" -> Switch("inbold", TRUE)      [] t = "</b>" -> Switch("inbold", FALSE)
    [] t = "<i>" -> Switch("initalic", TRUE)    [] t = "</i>" -> Switch("initalic", FALSE)
    [] t = "<u>" -> Switch("inunderline", TRUE) [] t = "</u>" -> Switch("inunderline", FALSE)
    [] t = "<a>" -> Anchor                      [] t = "</a>" -> AnchorEnds
    [] t = "<br>" -> Break(<<>>)                [] t = "<hr>" -> Break(<<"-", "-">>)
    [] t = "<img>" -> Draws(<<"[", "img", "]">>) /\ UNCHANGED <<look, fonts, fault>>
    [] t = "<p>" -> UNCHANGED <<look, line, rows, fonts, fault>>
    [] t = "<font dark>" -> Opens(FALSE, [look EXCEPT !.pair = t, !.inbold = FALSE])
    [] t = "<font bright>" -> Opens(FALSE, [look EXCEPT !.pair = t, !.inbold = TRUE])
    [] t = "<font>" -> Opens(FALSE, look)       [] t = "</font>" -> FontEnds
    [] t = "<body bg>" -> Opens(TRUE, [look EXCEPT !.pair = t, !.inbold = FALSE])
    [] t = "<body>" -> Opens(TRUE, look)        [] t = "</body>" -> BodyEnds

(* An entity, a letter, a blank; a character that begins neither tag nor entity is drawn,
   but is no letter to the blanks about it. *)
NamedLetter(t) ==
  /\ Draws(<<IF t = "&nbsp;" THEN Hard ELSE "<">>)
  /\ look' = [look EXCEPT !.newline = FALSE, !.white = FALSE] /\ UNCHANGED <<fonts, fault>>
Bare(t) == Draws(<<t>>) /\ UNCHANGED <<look, fonts, fault>>
AnyBlank ==
  /\ look' = [look EXCEPT !.newline = FALSE, !.white = TRUE]
  /\ IF look.white THEN UNCHANGED <<line, rows>> ELSE Draws(<<" ">>)
  /\ UNCHANGED <<fonts, fault>>
PlainLetter(t) ==
  /\ Draws(<<t>>) /\ look' = [look EXCEPT !.newline = FALSE, !.white = FALSE]
  /\ UNCHANGED <<fonts, fault>>

Draw(t) ==
  /\ ~fault /\ Len(shown) < scene.max /\ shown' = Append(shown, t)
  /\ CASE t \in TagTokens -> ByTag(t)
       [] t \in {"&nbsp;", "&lt;"} -> NamedLetter(t)
       [] t = "&" -> Bare(t)
       [] t = " " -> AnyBlank
       [] OTHER -> PlainLetter(t)
  /\ UNCHANGED scene

(* The text is over, and the next begins where it ended. *)
NextText ==
  /\ ~fault /\ shown # <<>> /\ ~Contains(shown, "over") /\ Len(shown) < scene.max
  /\ LET e == IF look.white THEN Drawn(<<Back>>) ELSE [rows |-> rows, line |-> line]
     IN rows' = e.rows /\ line' = LineOf(e.rows[Len(e.rows)])
  /\ look' = StartLook /\ fonts' = [fonts EXCEPT !.len = 0] /\ shown' = Append(shown, "over")
  /\ UNCHANGED <<scene, fault>>

MarkupNext == (\E t \in scene.tokens : Draw(t)) \/ NextText
-----------------------------------------------------------------------------
MarkupTypeOK ==
  /\ look.inbold \in BOOLEAN /\ fonts.len \in 0..StackSize /\ line.len \in Nat
  /\ \A w \in {line.firstwhite, line.secondwhite, line.lastwhite} : w >= NoWhite
  /\ \A i \in DOMAIN rows : Len(rows[i]) <= scene.width

(* The elements of this text: those that are open, and whether they were nested. *)
Kind(t) ==
  CASE t \in {"<b>", "</b>"} -> "b" [] t \in {"<i>", "</i>"} -> "i" [] t \in {"<u>", "</u>"} -> "u"
    [] t \in {"<a>", "</a>"} -> "a" [] t \in {"<body>", "<body bg>", "</body>"} -> "body"
    [] t \in {"<font>", "<font dark>", "<font bright>", "</font>"} -> "font"
    [] OTHER -> "none"
Closers == {"</b>", "</i>", "</u>", "</a>", "</body>", "</font>"}
Elements(t) ==
  LET read(e, tok) ==
        LET k == Kind(tok)
            n == Len(e.open)
            within == ToSet(e.open)
            depth == Cardinality({i \in DOMAIN e.open : e.open[i] \in {"font", "body"}}) + 1
        IN IF k = "none" THEN e
           ELSE IF tok \in Closers
           THEN [e EXCEPT !.open = IF n = 0 THEN @ ELSE SubSeq(@, 1, n - 1),
                          !.ok = @ /\ n > 0 /\ e.open[n] = k]
           ELSE [e EXCEPT !.open = Append(@, k), !.depth = IF k \in {"font", "body"} THEN Max({@, depth}) ELSE @,
                          !.ok = @ /\ (k = "font" \/ k \notin within) /\ (k = "body" => "font" \notin within)]
  IN FoldLeft(read, [open |-> <<>>, ok |-> TRUE, depth |-> 0], t)

(* After a text whose elements are nested, none within its like but for <FONT>, and <BODY>
   outside of all <FONT>, what follows looks as before; and the stack of fonts is not
   left, if it is as deep as they are. *)
LooksRestored ==
  LET e == Elements(ThisText)
  IN e.ok /\ e.depth <= StackSize => ~fault /\ (e.open = <<>> => Styles(look) = Base)

(* What was drawn is in the window, in order and once, whatever was wrapped.  A bare & is
   left out: at the end of a text, after a blank, it is taken for that blank. *)
Seen(t) == SelectSeq(t, LAMBDA c : c \notin {" ", "&", "&nbsp;", "<br>", "over"})
TextKept == scene.wraps => Seen(FlattenSeq(rows)) = Seen(shown)

MarkupRight == LooksRestored /\ TextKept
=============================================================================

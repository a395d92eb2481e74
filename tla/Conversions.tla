---------------------------- MODULE Conversions ----------------------------
(***************************************************************************)
(* What becomes of a text on its way to another: the client writes HTML,   *)
(* an IRC server takes control characters, a Lily server marks.            *)
(*                                                                         *)
(* A text is a sequence of characters; a tag or an entity of HTML counts   *)
(* as one, and colours are not told apart.                                 *)
(***************************************************************************)
EXTENDS Integers, Sequences, FiniteSets, TLC, SequencesExt, FiniteSetsExt

CONSTANTS
  Alphabet,   \* by the kind of text, what it is written with
  MaxText     \* bound on its length

Languages == {"html", "irc", "lily", "args"}

ASSUME ConversionsAssumption == DOMAIN Alphabet = Languages /\ MaxText \in Nat

VARIABLES language, said

textVars == <<language, said>>

TextsInit == language \in Languages /\ said = <<>>

Writes(ch) == Len(said) < MaxText /\ said' = Append(said, ch) /\ UNCHANGED language
TextsNext == \E ch \in Alphabet[language] : Writes(ch)
-----------------------------------------------------------------------------
DLE == "^P"
OpenTag  == "b" :> "<b>"  @@ "i" :> "<i>"  @@ "u" :> "<u>"  @@ "font" :> "<font>"
CloseTag == "b" :> "</b>" @@ "i" :> "</i>" @@ "u" :> "</u>" @@ "font" :> "</font>"
Escaped  == "&" :> "&amp;" @@ "<" :> "&lt;" @@ ">" :> "&gt;"

(* Characters that a token of HTML is written with. *)
Width == "&amp;" :> 5 @@ "&lt;" :> 4 @@ "&gt;" :> 4 @@ "&nbsp;" :> 6 @@ "&quot;" :> 6
         @@ "quot;" :> 5 @@ "<br>" :> 4 @@ "<b>" :> 3 @@ "<i>" :> 3 @@ "<u>" :> 3
         @@ "</b>" :> 4 @@ "</i>" :> 4 @@ "</u>" :> 4 @@ "<font>" :> 22 @@ "</font>" :> 7
WidthOf(ch) == IF ch \in DOMAIN Width THEN Width[ch] ELSE 1
Bytes(t) == FoldSeq(LAMBDA ch, n : n + WidthOf(ch), 0, t)

(* Each character becomes some of its own, whatever stands beside it. *)
Mapped(t, to) == FlattenSeq([i \in DOMAIN t |-> IF t[i] \in DOMAIN to THEN to[t[i]] ELSE <<t[i]>>])

AnEntity == "&amp;" :> <<"&">> @@ "&gt;" :> <<">">> @@ "&lt;" :> <<"<">> @@ "&nbsp;" :> <<" ">>
            @@ "&quot;" :> <<"&", "quot;">>    \* is none here

(* Mutant: the quoting character is not quoted. *)
HtmlToIrcUnquoted(t) ==
  Mapped(t, AnEntity @@ "<b>" :> <<"^B">> @@ "</b>" :> <<"^B">> @@ "<i>" :> <<"^V">> @@ "</i>" :> <<"^V">>
            @@ "<u>" :> <<"^_">> @@ "</u>" :> <<"^_">> @@ "<br>" :> <<DLE, "r", DLE, "n">>
            @@ "\r" :> <<DLE, "r">> @@ "\n" :> <<DLE, "n">>)

HtmlToIrc(t) ==
  Mapped(t, AnEntity @@ "<b>" :> <<"^B">> @@ "</b>" :> <<"^B">> @@ "<i>" :> <<"^V">> @@ "</i>" :> <<"^V">>
            @@ "<u>" :> <<"^_">> @@ "</u>" :> <<"^_">> @@ "<br>" :> <<DLE, "r", DLE, "n">>
            @@ "\r" :> <<DLE, "r">> @@ "\n" :> <<DLE, "n">> @@ DLE :> <<DLE, DLE>>)

ABreak == <<" ", "/", " ">>
HtmlToLily(t) ==
  Mapped(t, AnEntity @@ "<b>" :> <<"*">> @@ "</b>" :> <<"*">> @@ "<i>" :> <<"/">> @@ "</i>" :> <<"/">>
            @@ "<u>" :> <<"_">> @@ "</u>" :> <<"_">> @@ "<br>" :> ABreak
            @@ "\r" :> ABreak @@ "\n" :> ABreak @@ DLE :> <<"?">>)
-----------------------------------------------------------------------------
(* The way back: a position goes over the text, and some of the styles are on. *)
AtFirst == [i |-> 1, out |-> <<>>, on |-> {}]
At(s, i) == IF i \in DOMAIN s THEN s[i] ELSE "end"
Emit(e, t)  == [e EXCEPT !.out = @ \o t]
SkipTo(e, i) == [e EXCEPT !.i = i]
TurnOn(e, st)  == [Emit(e, <<OpenTag[st]>>) EXCEPT !.on = @ \cup {st}]
TurnOff(e, st) == IF st \in e.on THEN [Emit(e, <<CloseTag[st]>>) EXCEPT !.on = @ \ {st}] ELSE e
Toggle(e, st)  == IF st \in e.on THEN TurnOff(e, st) ELSE TurnOn(e, st)
IfOff(e, st)   == IF st \in e.on THEN e ELSE TurnOn(e, st)
Reset(e) == TurnOff(TurnOff(TurnOff(TurnOff(e, "font"), "b"), "i"), "u")

(* All of a text is converted step by step; each step takes a character or more. *)
Converted(s, Step(_, _)) ==
  LET run[n \in 0..Len(s)] ==
        IF n = 0 THEN AtFirst
        ELSE IF run[n - 1].i > Len(s) THEN run[n - 1]
        ELSE Step(s, run[n - 1])
  IN run[Len(s)].out

DigitsOf == [d \in {"0", "1", "2", "3", "7"} |-> CHOOSE n \in 0..9 : ToString(n) = d]
IsDigit(ch) == ch \in DOMAIN DigitsOf
DigitsEnd(s, i) == Min({j \in i..(Len(s) + 1) : ~IsDigit(At(s, j))})
Number(s, i, j) == FoldFunctionOnSet(+, 0, [k \in i..(j - 1) |-> DigitsOf[s[k]] * 10^(j - 1 - k)], i..(j - 1))

(* A colour has two digits at most, and so has its background. *)
TwoDigits(s, i) == Min({i + 2, DigitsEnd(s, i)})
ColourEnd(s, i) == LET j == TwoDigits(s, i) IN IF At(s, j) = "," THEN TwoDigits(s, j + 1) ELSE j

(* The codes of an ANSI sequence; what ends it is not shown. *)
AnsiCode(e, n) ==
  CASE n = 0 -> Reset(e)
    [] n = 1 -> IfOff(e, "b")
    [] n = 2 -> TurnOff(e, "b")
    [] n = 3 -> IfOff(e, "u")
    [] n = 7 -> IfOff(e, "i")
    [] n \in 30..37 -> TurnOn(e, "font")
    [] OTHER -> e
Ansi(s, e0) ==
  LET run[n \in 0..Len(s)] ==
        IF n = 0 THEN SkipTo(e0, e0.i + 2)
        ELSE LET e == run[n - 1]
                 j == DigitsEnd(s, e.i)
             IN IF j = e.i THEN e
                ELSE AnsiCode(SkipTo(e, IF At(s, j) = ";" THEN j + 1 ELSE j), Number(s, e.i, j))
      e == run[Len(s)]
  IN SkipTo(e, e.i + 1)

IrcStep(s, e) ==
  LET ch   == s[e.i]
      next == At(s, e.i + 1)
      one  == SkipTo(e, e.i + 1)
      two  == SkipTo(e, e.i + 2)
  IN CASE ch = "^B" -> Toggle(one, "b")
       [] ch = "^V" -> Toggle(one, "i")
       [] ch = "^_" -> Toggle(one, "u")
       [] ch = "^O" -> Reset(one)
       [] ch = "^C" -> IF IsDigit(next) THEN SkipTo(TurnOn(e, "font"), ColourEnd(s, e.i + 1))
                       ELSE TurnOff(one, "font")
       [] ch = "ESC" -> IF next = "[" THEN Ansi(s, e) ELSE one
       [] ch = DLE ->
            IF next = "r"
            THEN IF At(s, e.i + 2) = DLE /\ At(s, e.i + 3) = "n" THEN Emit(SkipTo(e, e.i + 4), <<"<br>">>)
                 ELSE Emit(two, <<"\r">>)
            ELSE IF next = "n" THEN Emit(two, <<"\n">>)
            ELSE Emit(two, IF next = "end" THEN <<>> ELSE <<next>>)
       [] ch = " " /\ next = " " -> Emit(one, <<"&nbsp;">>)
       [] OTHER -> Emit(one, <<IF ch \in DOMAIN Escaped THEN Escaped[ch] ELSE ch>>)
IrcToHtml(s) == Converted(s, IrcStep)
-----------------------------------------------------------------------------
(* A mark counts where a word begins or ends, and if there is another that ends the word. *)
Marks == "*" :> "b" @@ "/" :> "i" @@ "_" :> "u"
AfterWord == {" ", ",", ".", "end"}
FirstOf(s, ch, i) == Min({j \in i..(Len(s) + 1) : j > Len(s) \/ s[j] = ch})

LilyStep(s, e) ==
  LET ch    == s[e.i]
      one   == SkipTo(e, e.i + 1)
      ends  == At(s, e.i + 1) \in AfterWord
      begins == e.i = 1 \/ At(s, e.i - 1) = " "
      other == FirstOf(s, ch, e.i + 1)
      closes == other < FirstOf(s, " ", e.i) /\ At(s, other + 1) \in AfterWord
      st    == Marks[ch]
  IN IF ch \in DOMAIN Marks
     THEN IF ch = "/" /\ begins /\ ends THEN Emit(SkipTo(e, e.i + 2), <<"<br>">>)
          ELSE IF st \in e.on /\ ends /\ (ch = "*" => ~begins) THEN TurnOff(one, st)
          ELSE IF st \notin e.on /\ begins /\ closes /\ (ch = "*" => ~ends) THEN TurnOn(one, st)
          ELSE Emit(one, <<ch>>)
     ELSE IF ch = " " /\ At(s, e.i + 1) = " " THEN Emit(one, <<"&nbsp;">>)
     ELSE Emit(one, <<IF ch \in DOMAIN Escaped THEN Escaped[ch] ELSE ch>>)
LilyToHtml(s) == Converted(s, LilyStep)
-----------------------------------------------------------------------------
(* The arguments of a subcode to TOC go through entities of their own. *)
HtmlEntities(t) ==
  Mapped(t, "<" :> <<"&lt;">> @@ ">" :> <<"&gt;">> @@ "&" :> <<"&amp;">> @@ "\"" :> <<"&quot;">>
            @@ "\n" :> <<"<br>">>)
HtmlClean(t) ==
  Mapped(t, "&lt;" :> <<"<">> @@ "&gt;" :> <<">">> @@ "&amp;" :> <<"&">> @@ "&quot;" :> <<"\"">>
            @@ "&nbsp;" :> <<" ">>)
-----------------------------------------------------------------------------
TextsTypeOK == language \in Languages /\ Len(said) <= MaxText

(* What a reader sees: letters with their styles, and where there is a blank or a break
   between them, however many there are. *)
Blanks == {" ", "&nbsp;", "\n"}
ReadAs == [e \in {"&amp;", "&lt;", "&gt;", "&quot;"} |->
             CASE e = "&amp;" -> "&" [] e = "&lt;" -> "<" [] e = "&gt;" -> ">" [] OTHER -> "\""]
Letter(ch, on) == [ch |-> ch, on |-> on]
Seen(t) ==
  LET styles == {"b", "i", "u"}
      draw(e, ch) ==
        CASE \E st \in styles : ch = OpenTag[st] ->
               [e EXCEPT !.on = @ \cup {st \in styles : ch = OpenTag[st]}]
          [] \E st \in styles : ch = CloseTag[st] ->
               [e EXCEPT !.on = @ \ {st \in styles : ch = CloseTag[st]}]
          [] ch \in {"<font>", "</font>", "\r"} -> e
          [] ch = "<br>" -> [e EXCEPT !.out = Append(@, Letter("break", {})), !.blank = TRUE]
          [] ch \in Blanks -> IF e.blank THEN e
                              ELSE [e EXCEPT !.out = Append(@, Letter(" ", {})), !.blank = TRUE]
          [] OTHER -> [e EXCEPT !.out = Append(@, Letter(IF ch \in DOMAIN ReadAs THEN ReadAs[ch] ELSE ch, e.on)),
                                !.blank = FALSE]
  IN FoldLeft(draw, [out |-> <<>>, on |-> {}, blank |-> TRUE], t).out

(* Each style is opened and closed by turns. *)
ByTurns(t, st) ==
  LET tags == SelectSeq(t, LAMBDA ch : ch \in {OpenTag[st], CloseTag[st]})
  IN \A i \in DOMAIN tags : (tags[i] = OpenTag[st]) <=> (i % 2 = 1)
Clean(t) == \A st \in {"b", "i", "u"} : ByTurns(t, st)
Ends(t, a, b) == \E i \in 1..(Len(t) - 1) : t[i] = a /\ t[i + 1] = b

(* Over IRC one naim shows what the other's user wrote: but that a carriage return before a
   newline becomes a break, and &quot; is not known (html_to_irc leaves it). *)
IrcSeenAsWritten ==
  language = "html" /\ Clean(said) /\ ~Contains(said, "&quot;") /\ ~Ends(said, "\r", "\n")
    => Seen(IrcToHtml(HtmlToIrc(said))) = Seen(said)

(* Over Lily the letters come through, but not their styles if those are of more than a
   word; marks may be added, and a comma or full stop after a lone slash is lost. *)
LettersSeen(t) == SelectSeq([i \in DOMAIN Seen(t) |-> Seen(t)[i].ch], LAMBDA ch : ch \notin DOMAIN Marks \cup {" ", "break"})
LilySeenAsWritten ==
  language = "html" /\ ~Contains(said, "&quot;") /\ ~Contains(said, DLE)
    /\ (\A slash \in {"/", "<i>", "</i>"} : \A ch \in {",", "."} : ~Ends(said, slash, ch))
    => LettersSeen(LilyToHtml(HtmlToLily(said))) = LettersSeen(said)

(* What Lily's marks open they close, before the word is over. *)
LilyTagsClosed ==
  language = "lily" =>
    LET t == LilyToHtml(said)
    IN \A i \in DOMAIN t : \A st \in {"b", "i", "u"} :
         t[i] = OpenTag[st] =>
           \E j \in DOMAIN t : i < j /\ t[j] = CloseTag[st] /\ \A k \in i..j : t[k] \notin Blanks

(* Neither way is more written than there is room for (one is asserted, irc.c:310). *)
ConversionsFit ==
  /\ language = "html" =>
       /\ Bytes(HtmlToIrc(said)) <= 4 * Bytes(said) /\ Bytes(HtmlToLily(said)) <= 3 * Bytes(said)
  /\ language = "irc"  => Bytes(IrcToHtml(said)) <= 22 * Bytes(said)
  /\ language = "lily" => Bytes(LilyToHtml(said)) <= 6 * Bytes(said)

(* What a subcode to TOC carries is read as it was written, but for a newline. *)
ArgsKept == language = "args" /\ ~Contains(said, "\n") => HtmlClean(HtmlEntities(said)) = said

TextsKept ==
  IrcSeenAsWritten /\ LilySeenAsWritten /\ LilyTagsClosed /\ ConversionsFit /\ ArgsKept
=============================================================================

------------------------------ MODULE TocTalk ------------------------------
(***************************************************************************)
(* What is said over TOC2, and what the server tells of others: messages,  *)
(* automatic answers and actions, with the subcodes they carry; presence;  *)
(* profiles; the pieces of information that come in base64; the privacy    *)
(* mode.  Each is a topic, and a behaviour has one of them.                *)
(*                                                                         *)
(* A text is a sequence of symbols: "n" stands for the letters that a      *)
(* percent sign makes into a name, a date or the time; "$" and the         *)
(* backslash for what is quoted; "\t" for what cannot be printed; "<V>"    *)
(* and "<P>" are a subcode each, without arguments and with.               *)
(***************************************************************************)
EXTENDS Integers, Sequences, FiniteSets
LOCAL INSTANCE SequencesExt

CONSTANTS
  Symbols,     \* by the way something is said, what it is written with
  MaxTalk,     \* bound on a text
  MaxSend,     \* characters of a command: TOC_CLIENTSEND_MAXLEN
  MaxChat,     \* characters that a room takes: 232
  MaxNews      \* bound on the frames under way

Ways == {"message", "auto", "action", "chat", "chat action", "invite"}
ASSUME TocTalkAssumption ==
  /\ DOMAIN Symbols = Ways /\ {MaxTalk, MaxSend, MaxChat, MaxNews} \subseteq Nat \ {0}

VARIABLES
  topic,    \* constant: what this behaviour is about
  talk,     \* a text as far as it is written, and the subcodes that wait
  seen,     \* a buddy: as he is, the frames about him, and as the wrapper has him
  scratch,  \* firetalk_debase64's buffer, and what was made of the last frame
  profile,  \* the last USER_INFO: as he wrote it, as it is told, and whether it fails
  privacy   \* permit_mode, the server's, and whether there is a session

talkVars == <<topic, talk, seen, scratch, profile, privacy>>

Topics == {"talk", "presence", "scratch", "profile", "privacy"}
Nobody == [on |-> FALSE, away |-> FALSE, idle |-> 0, typing |-> 0]
Blank == [i \in 0..5 |-> 0]

TalkInit ==
  /\ topic \in Topics
  /\ talk \in [way : Ways, text : {<<>>}, waits : {<<>>, <<"<V>">>, <<"<V>", "<P>">>}, here : BOOLEAN]
  /\ topic # "talk" => talk = [way |-> "message", text |-> <<>>, waits |-> <<>>, here |-> TRUE]
  /\ talk.way \in {"chat", "chat action", "invite"} => talk.waits = <<>>
  /\ talk.way \in {"message", "auto", "action"} => talk.here
  /\ \E h \in IF topic = "presence" THEN BOOLEAN ELSE {FALSE} :
        seen = [him |-> Nobody, hides |-> h, ghost |-> FALSE, news |-> <<>>, view |-> Nobody, fault |-> FALSE]
  /\ scratch = [out |-> Blank, last |-> "none", told |-> <<>>, fault |-> FALSE]
  /\ profile = [came |-> FALSE, away |-> <<>>, info |-> <<>>, wide |-> FALSE, saysAway |-> <<>>, saysInfo |-> <<>>,
                subs |-> <<>>, fault |-> FALSE]
  /\ privacy = [ours |-> 0, theirs |-> 0, on |-> FALSE, open |-> FALSE, said |-> "nothing"]
-----------------------------------------------------------------------------
(* Texts on their way to the server. *)

(* aim_interpolate_variables, with the other's name: two signs stay two. *)
Variable(done, ch) ==
  IF ~done.percent THEN IF ch = "%" THEN [done EXCEPT !.percent = TRUE]
                        ELSE [done EXCEPT !.text = Append(@, ch)]
  ELSE [percent |-> FALSE,
        text |-> done.text \o CASE ch = "%" -> <<"%", "%">> [] ch = "n" -> <<"name">> [] OTHER -> <<"%", ch>>]
Interpolated(t) == FoldLeft(Variable, [percent |-> FALSE, text |-> <<>>], t).text

Me == <<"/me", " ">>
Prepared(way, t) ==
  CASE way = "auto" -> Interpolated(t) [] way \in {"action", "chat action"} -> Me \o t [] OTHER -> t

Earliest(is) == CHOOSE i \in is : \A j \in is : i <= j
Latest(is)   == CHOOSE i \in is : \A j \in is : j <= i

(* toc_quote: blanks go on both sides, and a backslash comes before what is special. *)
Stripped(t) ==
  LET solid == {i \in DOMAIN t : t[i] # " "}
  IN  IF solid = {} THEN <<>>
      ELSE SubSeq(t, Earliest(solid), Latest(solid))

Special == {"$", "\\", "<V>", "<P>"}    \* a subcode has quotes
Quote(t) == FlattenSeq([i \in DOMAIN t |-> IF t[i] \in Special THEN <<"\\", t[i]>> ELSE <<t[i]>>])

(* An unprintable character is written with two symbols. *)
Cells(ch) == IF ch = "&#9;" THEN 2 ELSE 1
Length(t) == FoldLeft(LAMBDA n, ch : n + Cells(ch), 0, t)

(* Whether toc_quote has room for it, counting its own quotation marks. *)
QuoteFits(t) ==
  \A i \in DOMAIN t :
    1 + Length(Quote(SubSeq(t, 1, i - 1))) <= (IF t[i] \in Special THEN MaxSend - 3 ELSE MaxSend - 2)

(* toc_send_printf, of a command whose other words take two; without room to quote
   it reads what is not there. *)
Fate(t) ==
  IF ~QuoteFits(Stripped(t)) THEN "null"
  ELSE IF 2 + Length(Quote(Stripped(t))) + 2 > MaxSend THEN "too long" ELSE "sent"

(* toc_internal_send_message's own copy: what cannot be printed is written by its number. *)
Encoded(t) == [i \in DOMAIN t |-> IF t[i] = "\t" THEN "&#9;" ELSE t[i]]
CopyFits(t) ==
  /\ Len(t) < MaxSend - 1
  /\ \A i \in DOMAIN t : t[i] = "\t" => Length(Encoded(SubSeq(t, 1, i))) < MaxSend - 1

(* firetalk_queue_append: how many of those that wait go along. *)
Riding(t, waits) ==
  LET fits == {n \in 0..Len(waits) : Length(t) + n <= MaxSend - 1}
  IN  IF fits = {} THEN 0 ELSE Latest(fits)

Refused(fate, waits) == [fate |-> fate, wire |-> <<>>, waits |-> waits]

(* toc_im_send_message, toc_im_send_reply, toc_im_send_action. *)
ImSend(way, t, waits) ==
  LET said == Prepared(way, t)
      n    == Riding(Encoded(said), waits)
      wire == Encoded(said) \o SubSeq(waits, 1, n)
  IN  IF ~CopyFits(said) THEN Refused("too long", waits)
      ELSE [fate |-> Fate(wire), wire |-> Quote(Stripped(wire)), waits |-> SubSeq(waits, n + 1, Len(waits))]

(* toc_chat_send_message, toc_chat_send_action, toc_chat_invite: an action does not look
   whether one is in the room. *)
ChatSend(way, t, here) ==
  LET said == Prepared(way, t)
  IN  IF way # "invite" /\ Len(said) > MaxChat THEN Refused("too long", <<>>)
      ELSE IF ~here /\ way # "chat action" THEN Refused("not there", <<>>)
      ELSE IF ~here THEN Refused("nowhere", <<>>)
      ELSE [fate |-> Fate(said), wire |-> Quote(Stripped(said)), waits |-> <<>>]

Sending(k) ==
  IF k.way \in {"chat", "chat action", "invite"} THEN ChatSend(k.way, k.text, k.here)
  ELSE ImSend(k.way, k.text, k.waits)

(* The server takes the quoting off. *)
Unquoted(w) ==
  FoldLeft(LAMBDA d, ch : IF ch = "\\" /\ ~d.quoted THEN [d EXCEPT !.quoted = TRUE]
                          ELSE [quoted |-> FALSE, text |-> Append(d.text, ch)],
           [quoted |-> FALSE, text |-> <<>>], w).text
-----------------------------------------------------------------------------
(* Texts that come from the server. *)
Subcodes == {"<V>", "<P>"}

(* aim_handle_ect: they are taken out, in order. *)
Ects(w)    == SelectSeq(w, LAMBDA ch : ch \in Subcodes)
Words(w) == SelectSeq(w, LAMBDA ch : ch \notin Subcodes)

(* An action begins the text, or follows a tag somewhere. *)
MeAt(t) == {i \in DOMAIN t : i + 2 \in DOMAIN t /\ t[i] \in {">", "<pre>"} /\ SubSeq(t, i + 1, i + 2) = Me}
Spoken(t, plain) ==
  IF Len(t) >= 2 /\ SubSeq(t, 1, 2) = Me THEN [kind |-> "action", text |-> SubSeq(t, 3, Len(t))]
  ELSE IF MeAt(t) # {}
  THEN [kind |-> "action", text |-> SubSeq(t, Earliest(MeAt(t)) + 3, Len(t))]
  ELSE [kind |-> "message", text |-> plain]

(* IM_IN_ENC2. *)
ImIn(auto, w) ==
  LET t == Words(w)
  IN  IF t = <<>> THEN [kind |-> "nothing", text |-> <<>>]
      ELSE Spoken(t, IF auto THEN Interpolated(t) ELSE t)

(* CHAT_IN_ENC: of a page of HTML, the first piece. *)
Unpaged(t) ==
  IF t = <<>> \/ t[1] # "<pre>" THEN t
  ELSE LET tags == {i \in 2..Len(t) : t[i] \in {"<", "<pre>"}}
       IN  SubSeq(t, 2, IF tags = {} THEN Len(t) ELSE Earliest(tags) - 1)
ChatIn(w) == Spoken(Unpaged(w), Unpaged(w))

Heard(k, w) ==
  CASE k.way \in {"message", "auto", "action"} -> ImIn(k.way = "auto", w)
    [] k.way \in {"chat", "chat action"} -> ChatIn(w)
    [] k.way = "invite" -> [kind |-> "invite", text |-> w]

(* The subcodes of an automatic message are replies. *)
HeardSubcodes(k, w) == [kind |-> IF k.way = "auto" THEN "reply" ELSE "request", of |-> Ects(w)]

Write(ch) ==
  /\ topic = "talk" /\ Len(talk.text) < MaxTalk
  /\ talk' = [talk EXCEPT !.text = Append(@, ch)]
  /\ UNCHANGED <<topic, seen, scratch, profile, privacy>>
-----------------------------------------------------------------------------
(* Presence: the server tells what changes, in order. *)
Tell(frame) == IF seen.hides /\ frame.k = "update" THEN seen.news ELSE Append(seen.news, frame)
Update(h) == [k |-> "update", on |-> h.on, away |-> h.away, idle |-> h.idle]

(* He signs on or off, goes away or comes back, is idle or not; one who hides is not told of. *)
HeChanges ==
  \E h \in [on : BOOLEAN, away : BOOLEAN, idle : 0..1, typing : 0..1] :
    /\ topic = "presence" /\ Len(seen.news) < MaxNews
    /\ h # seen.him /\ (~h.on => h = Nobody)
    /\ h.typing = IF h.on /\ seen.him.on THEN seen.him.typing ELSE 0
    /\ seen' = [seen EXCEPT !.him = h, !.news = Tell(Update(h))]
    /\ UNCHANGED <<topic, talk, scratch, profile, privacy>>

HeTypes ==
  /\ topic = "presence" /\ Len(seen.news) < MaxNews /\ seen.him.on /\ ~seen.hides
  /\ seen' = [seen EXCEPT !.him.typing = 1 - @, !.news = Append(@, [k |-> "typing", n |-> 1 - seen.him.typing])]
  /\ UNCHANGED <<topic, talk, scratch, profile, privacy>>

HeSpeaks ==
  /\ topic = "presence" /\ Len(seen.news) < MaxNews /\ seen.him.on
  /\ seen' = [seen EXCEPT !.him.typing = 0, !.news = Append(@, [k |-> "im"])]
  /\ UNCHANGED <<topic, talk, scratch, profile, privacy>>

(* firetalk_callback_im_buddyonline: who comes online has nothing left from before. *)
ShownOnline(s, on) ==
  IF s.view.on = on THEN s
  ELSE IF on THEN [s EXCEPT !.view.on = TRUE, !.fault = @ \/ s.view # Nobody]
  ELSE [s EXCEPT !.view = Nobody]

(* firetalk_callback_im_buddyaway, _idleinfo and _typing, of one who is online. *)
ShownAs(s, away, idle) == IF s.view.on THEN [s EXCEPT !.view.away = away, !.view.idle = idle] ELSE s
ShownTyping(s, n) == IF s.view.on THEN [s EXCEPT !.view.typing = n] ELSE s

GotPresence2(s, f) ==
  CASE f.k = "update" -> IF f.on THEN ShownAs(ShownOnline(s, TRUE), f.away, f.idle) ELSE ShownOnline(s, FALSE)
    [] f.k = "typing" -> ShownTyping(s, f.n)
    [] f.k = "im"     -> ShownTyping(ShownOnline(s, TRUE), 0)

(* UPDATE_BUDDY2, CLIENT_EVENT2 and IM_IN_ENC2: who writes is online. *)
ReadPresence ==
  /\ topic = "presence" /\ seen.news # <<>>
  /\ seen' = [GotPresence2(seen, Head(seen.news)) EXCEPT !.news = Tail(@),
              !.ghost = @ \/ (seen.hides /\ Head(seen.news).k = "im")]
  /\ UNCHANGED <<topic, talk, scratch, profile, privacy>>
-----------------------------------------------------------------------------
(* RVOUS_PROPOSE and BART2 share firetalk_debase64's buffer. *)
Filled(bytes) == [i \in 0..5 |-> IF i < Len(bytes) THEN bytes[i + 1] ELSE IF i = Len(bytes) THEN 0 ELSE scratch.out[i]]

(* Less than three characters are nothing: only the end is set. *)
Short == Filled(<<>>)
ByteAt(out, i) == IF i \in DOMAIN out THEN out[i] ELSE 0

(* RVOUS_PROPOSE of a file transfer: words, the file, or both; a file is one, of less than
   16 megabytes. *)
Words3 == {<<>>, <<7, 0, 0>>, <<7, 7, 7>>}
AFile  == <<0, 1, 0, 1, 0>>
Proposed(words, file) ==
  /\ topic = "scratch" /\ ~scratch.fault /\ (words # <<>> \/ file)
  /\ scratch' = [scratch EXCEPT !.out = Filled(IF file THEN AFile ELSE words),
                 !.last = IF file THEN "offer" ELSE "words", !.told = <<>>]
  /\ UNCHANGED <<topic, talk, seen, profile, privacy>>

(* BART2 with a status.  Both lists of arguments are one array, so it is the type that is
   decoded, not the text: a single figure. *)
TextFrom(out, n) == SelectSeq([i \in 1..6 - n |-> out[n + i - 1]], LAMBDA byte : byte # 0)
StatusComes ==
  /\ topic = "scratch" /\ ~scratch.fault
  /\ LET n == Short[1]
     IN  scratch' = [scratch EXCEPT !.out = Short, !.told = TextFrom(Short, 2),
                     !.fault = Short[0] # 0 \/ ByteAt(Short, n + 2) # 0 \/ ByteAt(Short, n + 3) # 0]
  /\ UNCHANGED <<topic, talk, seen, profile, privacy>>
-----------------------------------------------------------------------------
(* USER_INFO ends with three pieces, "|" after each of the first two: an away message, the
   profile, and one that is not used.  A piece in two bytes a letter has "0" or, for a
   letter that is not Latin, "hi" before each. *)
NotLatin == "letter"
Bytes2(t) == FlattenSeq([i \in DOMAIN t |-> IF t[i] = NotLatin THEN <<"hi", "lo">> ELSE <<"0", t[i]>>])
Written2(t, wide) == (IF wide THEN Bytes2(t) ELSE t) \o <<"|">>

(* decodeUTF16: of each pair the second, if the first is zero. *)
DecodeUtf16(f) ==
  LET ends == {i \in DOMAIN f : i % 2 = 1 /\ f[i] = "|"}
  IN  IF ends = {} THEN [text |-> <<>>, rest |-> <<>>, fault |-> TRUE]
      ELSE LET n == Earliest(ends)
           IN  [text |-> [i \in 1..((n - 1) \div 2) |-> IF f[2 * i - 1] = "0" THEN f[2 * i] ELSE "."],
                rest |-> SubSeq(f, n + 1, Len(f)), fault |-> FALSE]
(* strchr: not beyond a zero. *)
Narrow(f) ==
  LET ends == {i \in DOMAIN f : f[i] \in {"|", "0"}}
  IN  IF ends = {} \/ f[Earliest(ends)] = "0" THEN [text |-> <<>>, rest |-> <<>>, fault |-> TRUE]
      ELSE [text |-> SubSeq(f, 1, Earliest(ends) - 1), rest |-> SubSeq(f, Earliest(ends) + 1, Len(f)), fault |-> FALSE]
Piece(f) == IF f # <<>> /\ f[1] = "0" THEN DecodeUtf16(f) ELSE Narrow(f)

(* Somebody's profile comes: the away message as a reply, the profile without its subcodes. *)
ProfileComes(away, info, wide) ==
  /\ topic = "profile" /\ ~profile.came   \* bound: one, nothing is kept for the next
  /\ LET first  == Piece(Written2(away, wide) \o Written2(info, wide))
         second == Piece(first.rest)
         fails  == first.fault \/ second.fault
                   \/ ~(\/ first.rest[1] \in {"|", "<"}
                        \/ first.rest[1] = "0" /\ first.rest[2] = "<")
     IN  profile' = [came |-> TRUE, away |-> away, info |-> info, wide |-> wide, fault |-> fails,
                     saysAway |-> IF fails THEN <<>> ELSE Interpolated(first.text),
                     saysInfo |-> IF fails THEN <<>> ELSE Interpolated(Words(second.text)),
                     subs |-> IF fails THEN <<>> ELSE Ects(second.text)]
  /\ UNCHANGED <<topic, talk, seen, scratch, privacy>>

Letters == {"a", "%", "n", NotLatin}
AwayTexts == {<<>>} \cup {<<x>> : x \in Letters} \cup {<<x, y>> : x \in Letters, y \in Letters}
InfoTexts == {<<>>, <<"<">>} \cup {<<"<", x>> : x \in Letters \cup Subcodes}
-----------------------------------------------------------------------------
(* The privacy mode. *)
PrivacyModes == 1..5

(* /setpriv, with one of the modes or a word that is none (0).  A send that fails closes the
   socket and is taken for one that succeeds. *)
SetPrivacy(mode, fails) ==
  /\ topic = "privacy" /\ privacy.on
  /\ privacy' =
       IF mode = 0 THEN [privacy EXCEPT !.said = "no such mode"]
       ELSE IF ~privacy.open THEN [privacy EXCEPT !.ours = mode, !.said = "not connected"]
       ELSE [privacy EXCEPT !.ours = mode, !.said = "set", !.open = ~fails,
                            !.theirs = IF fails THEN @ ELSE mode]
  /\ UNCHANGED <<topic, talk, seen, scratch, profile>>

(* CONFIG2: what the server has, or who is denied; and the server is told. *)
PrivacyConfig ==
  /\ topic = "privacy" /\ ~privacy.on
  /\ LET mode == IF privacy.theirs \in PrivacyModes THEN privacy.theirs ELSE 4
     IN  privacy' = [ours |-> mode, theirs |-> mode, on |-> TRUE, open |-> TRUE, said |-> "nothing"]
  /\ UNCHANGED <<topic, talk, seen, scratch, profile>>

(* The session ends: the user goes, or signs on again because nothing is heard any more. *)
SessionEnds ==
  /\ topic = "privacy" /\ privacy.on /\ privacy' = [privacy EXCEPT !.on = FALSE, !.open = FALSE]
  /\ UNCHANGED <<topic, talk, seen, scratch, profile>>

TalkNext ==
  \/ \E ch \in Symbols[talk.way] : Write(ch)
  \/ HeChanges \/ HeTypes \/ HeSpeaks \/ ReadPresence
  \/ \E words \in Words3, file \in BOOLEAN : Proposed(words, file)
  \/ StatusComes
  \/ \E away \in AwayTexts, info \in InfoTexts, wide \in BOOLEAN :
       (wide \/ NotLatin \notin ToSet(away \o info)) /\ ProfileComes(away, info, wide)
  \/ \E mode \in 0..5, fails \in BOOLEAN : SetPrivacy(mode, fails)
  \/ PrivacyConfig \/ SessionEnds
-----------------------------------------------------------------------------
(* Types. *)
TalkTypeOK ==
  /\ topic \in Topics
  /\ talk.way \in Ways /\ talk.text \in Seq(Symbols[talk.way]) /\ Len(talk.text) <= MaxTalk
  /\ {seen.him, seen.view} \subseteq [on : BOOLEAN, away : BOOLEAN, idle : 0..1, typing : 0..1]
  /\ Len(seen.news) <= MaxNews
  /\ scratch.last \in {"none", "offer", "words"} /\ DOMAIN scratch.out = 0..5
  /\ privacy.ours \in 0..5 /\ privacy.theirs \in 0..5

(* Whether there is room for a text, and for what waits, even if all of it is quoted. *)
Roomy(k) == 2 * (Length(Encoded(Prepared(k.way, k.text))) + Len(k.waits)) + 4 <= MaxSend

(* What another takes for an action, or for a page. *)
LooksSpecial(t) ==
  LET s == SelectSeq(t, LAMBDA ch : ch # " ")
  IN  s # <<>> /\ (s[1] \in {"/me", "<pre>"} \/ MeAt(t) # {})

(* What the writer may expect: blanks at both ends do not count, nor do percent signs at
   the end of an automatic message. *)
Core(k, t) ==
  LET lost == IF k.way = "auto" THEN {" ", "%"} ELSE {" "}
      kept == {i \in DOMAIN t : t[i] \notin lost}
  IN  Stripped(SubSeq(t, 1, IF kept = {} THEN 0 ELSE Latest(kept)))
Expected(k) ==
  Core(k, CASE k.way = "auto" -> Interpolated(k.text)
            [] k.way \in {"message", "action"} -> Encoded(k.text)
            [] OTHER -> k.text)

(* What is sent over TOC2 is read as it was written, once the quoting is taken off and
   variables are replaced at both ends: but what looks like an action or a page is one, an
   action that says nothing may be a message, and percent signs that end an automatic
   message may be lost.  The subcodes that went along arrive in order, as replies with an
   automatic message and as requests with another (toc_quote, aim_interpolate_variables,
   toc_internal_send_message, aim_handle_ect, toc_got_data). *)
TalkSeen ==
  topic = "talk" =>
    LET s == Sending(talk)
        w == Unquoted(s.wire)
        h == Heard(talk, w)
        acts == talk.way \in {"action", "chat action"}
    IN  s.fate = "sent" =>
          /\ HeardSubcodes(talk, w).of \o s.waits = talk.waits
          /\ HeardSubcodes(talk, w).kind = "reply" <=> talk.way = "auto"
          /\ (~acts /\ ~LooksSpecial(talk.text)) =>
                Core(talk, h.text) = Expected(talk) /\ h.kind # "action"
          /\ (acts /\ Expected(talk) # <<>>) => h.kind = "action" /\ Core(talk, h.text) = Expected(talk)

(* There is an answer to everything said that has room when all of it is quoted: it is sent,
   with what waits.  Of what has not, subcodes may be taken from the queue and lost, and
   toc_send_printf may follow a null pointer. *)
TalkFits ==
  topic = "talk" =>
    LET s == Sending(talk)
    IN  /\ Roomy(talk) => s.fate \in {"sent", "not there", "nowhere"}
                           \/ (Len(Prepared(talk.way, talk.text)) > MaxChat /\ s.fate = "too long")
        /\ (Roomy(talk) /\ s.fate = "sent") => s.waits = <<>>
        /\ s.fate = "sent" => Length(s.wire) + 4 <= MaxSend

(* A buddy is shown as he is once all that the server told is read; one who hides is shown
   only after he has written, and then for good (UPDATE_BUDDY2, CLIENT_EVENT2, IM_IN_ENC2). *)
PresenceAgrees ==
  /\ (seen.news = <<>> /\ ~seen.hides) => seen.view = seen.him
  /\ (seen.hides /\ seen.view.on) => seen.ghost

(* The wrapper's assertions about one who comes online hold, and the driver's about a status
   text fail only when a file was offered before it. *)
NoTalkFault == ~seen.fault /\ (scratch.fault => scratch.last = "offer")

(* A status text is told as nothing, or as what is left of words that came with an offer:
   never as another's file. *)
StatusTold == (scratch.told # <<>> /\ ~scratch.fault) => scratch.last = "words"

(* An away message and a profile are told as they were written, with a full stop for a
   letter that is not Latin and the variables replaced, and the profile's subcodes as
   replies: but an away message that begins with such a letter is misread, and the
   driver's assertions may fail (USER_INFO). *)
ProfileTold ==
  profile.came =>
  LET plain(t) == [i \in DOMAIN t |-> IF t[i] = NotLatin THEN "." ELSE t[i]]
      misread  == profile.wide /\ profile.away # <<>> /\ Head(profile.away) = NotLatin
  IN  ~misread =>
        /\ ~profile.fault
        /\ profile.saysAway = Interpolated(plain(profile.away))
        /\ profile.saysInfo = Interpolated(Words(plain(profile.info)))
        /\ profile.subs = Ects(profile.info)

(* While the socket is open, the privacy mode is the server's; and what the user was told is
   set was lost only with the socket. *)
PrivacyAgrees ==
  (privacy.on /\ privacy.open) => privacy.ours = privacy.theirs /\ privacy.ours \in PrivacyModes
=============================================================================

----------------------------- MODULE OscarTalk -----------------------------
(***************************************************************************)
(* What is said over OSCAR once the links stand (OscarLinks, OscarRoster): *)
(* messages and what becomes of those that cannot be delivered, texts with *)
(* the requests and replies hidden in them, news of people, what is known  *)
(* of a person, oneself (the profile and the away message), and what a     *)
(* driver written in Lua makes of the wrapper's calls.                     *)
(*                                                                         *)
(* Each behaviour is about one of these.  An error in a Lua handler ends   *)
(* the session (wrap, fatal).                                              *)
(***************************************************************************)
EXTENDS Integers, Sequences, FiniteSets

CONSTANTS
  MaxReq,     \* request numbers: 65536 of them
  Remembered,     \* messages that are remembered: 16
  ImTexts,      \* texts that are written, as sequences of symbols
  Hidden,     \* arguments of the requests hidden in a text
  MaxFlight   \* bound on the news of a person on their way

ASSUME OscarTalkAssumption ==
  /\ {MaxReq, Remembered, MaxFlight} \subseteq Nat \ {0}
  /\ Remembered < MaxReq

VARIABLES
  theme,   \* constant: what this behaviour is about
  oscar,   \* the driver's connection
  wire,    \* what is on its way: our messages, or the news
  fact,    \* what is true: as written, as the person is, as the user wishes
  held,    \* the wrapper's firetalk_buddy_t
  shown    \* what the other end of it has: the window, or the server

oscarTalkVars == <<theme, oscar, wire, fact, held, shown>>

Themes == {"errors", "texts", "news", "info", "self", "calls"}

Callees == {"p", "q"}
NoRecent == [id \in 0 .. MaxReq - 1 |-> "nobody"]

(* OSCAR:connect *)
NewLink == [phase |-> "connected", req |-> 0, recent |-> NoRecent, pending |-> {}]
Down == [NewLink EXCEPT !.phase = "down"]

(* userclass, the EXTENDED status and the spelling of the name; idle time goes the way of
   away. *)
Person == [on : BOOLEAN, away : BOOLEAN, mobile : BOOLEAN, status : {"", "busy"}, name : {"bob", "Bob"}]
NotThere == [on |-> FALSE, away |-> FALSE, mobile |-> FALSE, status |-> "", name |-> "bob"]

Unheld == [on |-> FALSE, away |-> FALSE, mobile |-> FALSE, typing |-> FALSE, name |-> "bob"]
Unseen == [on |-> FALSE, away |-> FALSE, mobile |-> FALSE, name |-> "bob",
           window |-> FALSE, title |-> "none", status |-> "",
           fresh |-> FALSE, leftMobile |-> FALSE, cameOtherwise |-> FALSE]
Untold == [kind |-> "nothing"]

OscarTalkInit ==
  /\ theme \in Themes
  /\ oscar \in IF theme = "self" THEN {Down} ELSE IF theme = "calls" THEN {Down, NewLink} ELSE {NewLink}
  /\ wire = <<>> /\ held = Unheld
  /\ fact \in CASE theme = "news" -> {NotThere}
                [] theme = "self" -> [away : {FALSE}, turned : {FALSE}, last : {"none"}, profile : {"mine", "none"}]
                [] OTHER -> {Untold}
  /\ shown = CASE theme = "news" -> Unseen
               [] theme = "self" -> [away |-> FALSE, profile |-> "none"]
               [] OTHER -> Untold
-----------------------------------------------------------------------------
(* Errors.  A message is remembered under its number, for as long as Remembered more are sent. *)

(* im_send_message; no server answers so late that the numbers have come round. *)
SendIm(to) ==
  /\ theme = "errors" /\ oscar.phase = "connected"
  /\ LET n == (oscar.req + 1) % MaxReq
         older == [i \in DOMAIN wire |-> [wire[i] EXCEPT !.later = @ + 1]]
     IN  /\ oscar' = [oscar EXCEPT !.req = n,
              !.recent = [@ EXCEPT ![n] = to, ![(n - Remembered + MaxReq) % MaxReq] = "nobody"]]
         /\ wire' = Append(SelectSeq(older, LAMBDA m : m.later < MaxReq - 1),
                           [id |-> n, to |-> to, later |-> 0])
  /\ UNCHANGED <<theme, fact, held, shown>>

Without(i) == SubSeq(wire, 1, i - 1) \o SubSeq(wire, i + 1, Len(wire))

Delivered(i) ==
  /\ theme = "errors" /\ oscar.phase = "connected"
  /\ wire' = Without(i)
  /\ UNCHANGED <<theme, oscar, fact, held, shown>>

(* wrap, fatal, cleanup: the session ends as one with a WEIRDPACKET. *)
Fatal == oscar' = [oscar EXCEPT !.phase = "down"]

(* OSCAR.Errors: two of them name an error that firetalk doesn't have. *)
Nameless(err) == err \in {"sender too evil", "receiver too evil"}

(* BOSICBMError *)
ImFailed(i, err) ==
  /\ theme = "errors" /\ oscar.phase = "connected"
  /\ LET m == wire[i]
     IN  shown' = [kind |-> IF Nameless(err) THEN "ended" ELSE "error", of |-> m.to,
                   later |-> m.later, whom |-> oscar.recent[m.id], err |-> err]
  /\ wire' = Without(i)
  /\ IF Nameless(err) THEN Fatal ELSE UNCHANGED oscar
  /\ UNCHANGED <<theme, fact, held>>

ConnectAgain ==
  /\ theme \in {"errors", "texts"} /\ oscar.phase = "down"
  /\ oscar' = NewLink /\ wire' = <<>>
  /\ UNCHANGED <<theme, fact, held, shown>>
-----------------------------------------------------------------------------
(* ImTexts.  What another naim sends: text, and requests (replies, when automatic) that were
   queued for us.  Other programs write in other ways. *)

Forms == {"plain", "latin1", "utf16", "other channel", "no text", "no fragment", "left over"}

Written(form, kind, text, subs, auto) ==
  [kind |-> kind, form |-> form, text |-> text, subs |-> subs, auto |-> auto]

(* im_send_action, im_send_message, subcode_encode: an argument is put in as it is. *)
OnTheWire(m) == (IF m.kind = "action" THEN <<"/me ">> ELSE <<>>) \o m.text

(* Of sixteen bits the upper eight are dropped. *)
Decoded(form, text) ==
  [i \in DOMAIN text |-> IF form = "utf16" /\ text[i] = "wide" THEN "other" ELSE text[i]]

(* htmlclean *)
Cleaned(arg) == [i \in DOMAIN arg |-> IF arg[i] = "&lt;" THEN "<" ELSE arg[i]]

MeAfter(text) == {i \in 2 .. Len(text) : text[i] = "/me " /\ text[i - 1] = ">"}
From(text, i) == SubSeq(text, i, Len(text))
First(S) == CHOOSE i \in S : \A j \in S : i <= j

TellText(kind, text, m) ==
  [kind |-> kind, text |-> text, auto |-> m.auto, subs |-> [i \in DOMAIN m.subs |-> Cleaned(m.subs[i])]]

(* handle_ect takes the requests out, and what is left may be nothing. *)
Understood(m) ==
  LET text == Decoded(m.form, OnTheWire(m))
  IN  CASE text = <<>> -> TellText("empty", text, m)
        [] text # <<>> /\ Head(text) = "/me " -> TellText("action", Tail(text), m)
        [] MeAfter(text) # {} /\ Head(text) # "/me " ->
             TellText("action", From(text, First(MeAfter(text)) + 1), m)
        [] OTHER -> TellText("message", text, m)

Unreadable(m) == m.form \in {"no text", "no fragment", "left over"}

(* BOSICBM: what is on other channels is reported, and then read all the same.  The driver
   keeps nothing from one message to the next, so a behaviour has one. *)
TextComes(m) ==
  /\ theme = "texts" /\ oscar.phase = "connected" /\ shown = Untold
  /\ fact' = m
  /\ IF Unreadable(m)
     THEN Fatal /\ shown' = [kind |-> "ended"] /\ UNCHANGED held
     ELSE LET told == Understood(m)
          IN  /\ shown' = told
              /\ held' = IF told.kind = "empty" THEN held ELSE [held EXCEPT !.typing = FALSE]
              /\ UNCHANGED oscar
  /\ UNCHANGED <<theme, wire>>

(* BOSICBMTypingNotification *)
TypingComes(on) ==
  /\ theme = "texts" /\ shown = Untold /\ held.typing # on
  /\ held' = [held EXCEPT !.typing = on]
  /\ UNCHANGED <<theme, oscar, wire, fact, shown>>
-----------------------------------------------------------------------------
(* News of a person: BOSBlistOnline, the wrapper's callbacks, the client's. *)

Changes(p) ==
  /\ theme = "news" /\ Len(wire) < MaxFlight
  /\ p # fact /\ (~p.on => p = [NotThere EXCEPT !.name = p.name])
  /\ fact' = p /\ wire' = Append(wire, p)
  /\ UNCHANGED <<theme, oscar, held, shown>>

OpensWindow ==
  /\ theme = "news" /\ ~shown.window
  /\ shown' = [shown EXCEPT !.window = TRUE, !.title = shown.name, !.status = "", !.fresh = TRUE]
  /\ UNCHANGED <<theme, oscar, wire, fact, held>>

ClosesWindow ==
  /\ theme = "news" /\ shown.window
  /\ shown' = [shown EXCEPT !.window = FALSE, !.title = "none", !.status = ""]
  /\ UNCHANGED <<theme, oscar, wire, fact, held>>

(* firetalk_callback_im_buddyonline with bcoming: the list takes the new spelling, and the
   window keeps its title. *)
BuddyOnline(h, s, p) ==
  IF h.on THEN <<h, s>>
  ELSE << [h EXCEPT !.on = TRUE, !.name = p.name],
          [s EXCEPT !.on = TRUE, !.away = FALSE, !.mobile = FALSE, !.name = p.name,
                    !.cameOtherwise = s.window /\ s.title # p.name] >>

(* The flags stay as they were in the wrapper, and bgoing clears the client's. *)
BuddyOffline(h, s) ==
  IF ~h.on THEN <<h, s>>
  ELSE << [h EXCEPT !.on = FALSE, !.away = FALSE, !.typing = FALSE],
          [s EXCEPT !.on = FALSE, !.away = FALSE, !.mobile = FALSE, !.status = "",
                    !.leftMobile = h.mobile] >>

(* firetalk_callback_im_buddyflags tells what has changed, and so do _im_buddyaway and
   _idleinfo. *)
FlagsTell(h, p) == h.mobile # p.mobile
AwayTells(h, p) == h.away # p.away

(* fireio_buddy_flags *)
FlagsSeen(h, s, p) ==
  IF FlagsTell(h, p) THEN [s EXCEPT !.mobile = p.mobile, !.leftMobile = FALSE] ELSE s

(* baway *)
AwaySeen(h, s, p) == IF AwayTells(h, p) THEN [s EXCEPT !.away = p.away] ELSE s

(* fireio_buddy_status: a status is kept in the window, and without one nowhere. *)
StatusSeen(s, p) ==
  [s EXCEPT !.status = IF s.window THEN (IF p.away THEN "" ELSE p.status) ELSE @, !.fresh = FALSE]

Particulars(h, s, p) ==
  << [h EXCEPT !.away = p.away, !.mobile = p.mobile],
     StatusSeen(FlagsSeen(h, AwaySeen(h, s, p), p), p) >>

(* fireio_buddy_nickchanged *)
SpeltAs(s, name) ==
  [s EXCEPT !.name = name, !.title = IF s.window THEN name ELSE @, !.cameOtherwise = FALSE]

(* firetalk_callback_user_nickchanged, for a member of the roster that is spelt otherwise. *)
Renamed(h, s, p) ==
  IF h.name = p.name THEN <<h, s>>
  ELSE <<[h EXCEPT !.name = p.name], SpeltAs(s, p.name)>>

NewsComes ==
  /\ theme = "news" /\ wire # <<>>
  /\ LET p == Head(wire)
         first == IF p.on THEN BuddyOnline(held, shown, p) ELSE BuddyOffline(held, shown)
         next == IF p.on THEN Particulars(first[1], first[2], p) ELSE first
         last == Renamed(next[1], next[2], p)
     IN  held' = last[1] /\ shown' = last[2]
  /\ wire' = Tail(wire)
  /\ UNCHANGED <<theme, oscar, fact>>
-----------------------------------------------------------------------------
(* What is known of a person: /whois. *)

Classes == {"admin", "staff", "commercial", "away", "wireless"}
Blurbs == {"none", "two", "some", "5 min"}
Unknown == -100     \* minutes that are not told
TwoLetters == 24930 \* "ab" as a number
Answers == [idle : {0, 7}, blurb : Blurbs, since : {Unknown, 0, 5, -1}, class : SUBSET Classes,
            blurbFirst : BOOLEAN]

(* BOSLocationGotInfo: idle time and away message are told apart by their length. *)
IdleTold(a) == IF a.blurb = "two" /\ (a.idle = 0 \/ ~a.blurbFirst) THEN TwoLetters ELSE a.idle
AwayTold(a) == IF a.blurb = "two" THEN "none" ELSE a.blurb

(* firetalk's flags are numbered otherwise than the userclass, which is handed on as it is. *)
FlagsTold(a) ==
  (IF "staff" \in a.class THEN {"FF_ADMIN"} ELSE {}) \cup (IF "commercial" \in a.class THEN {"FF_MOBILE"} ELSE {})

(* The reply AWAY is the minutes, a blank and a colon before the text where they are known;
   nFIRE_CTCPREPHAND(AWAY) takes the number a text begins with for them, and negative ones
   for text. *)
Absence(a) ==
  LET told == AwayTold(a)
  IN  CASE told = "none" -> [min |-> -1, rest |-> <<>>]
        [] told = "5 min" /\ a.since = Unknown -> [min |-> 5, rest |-> <<"min">>]
        [] told \in {"some", "5 min"} /\ a.since = -1 -> [min |-> -1, rest |-> <<"-1 :", told>>]
        [] told = "some" /\ a.since = Unknown -> [min |-> -1, rest |-> <<told>>]
        [] OTHER -> [min |-> a.since, rest |-> <<told>>]

InfoComes(a) ==
  /\ theme = "info" /\ shown = Untold
  /\ fact' = a
  /\ shown' = [kind |-> "info", idle |-> IdleTold(a), flags |-> FlagsTold(a), absence |-> Absence(a)]
  /\ UNCHANGED <<theme, oscar, wire, held>>
-----------------------------------------------------------------------------
(* Oneself.  firetalk_set_away asks only that one is connecting; a SNAC for which there is
   no link waits in flapspending, a table that keeps no order. *)

SignsOn ==
  /\ theme = "self" /\ oscar.phase = "down"
  /\ oscar' = [NewLink EXCEPT !.phase = "linking"]
  /\ fact' = [fact EXCEPT !.turned = FALSE, !.last = "none"]
  /\ shown' = [away |-> FALSE, profile |-> "none"]
  /\ UNCHANGED <<theme, wire, held>>

(* BOSControlHostReady sends what has waited, and the rate request. *)
LinkStands(last) ==
  /\ theme = "self" /\ oscar.phase = "linking"
  /\ last \in oscar.pending \cup (IF oscar.pending = {} THEN {shown.away} ELSE {})
  /\ shown' = [shown EXCEPT !.away = last]
  /\ oscar' = [oscar EXCEPT !.phase = "asked", !.pending = {}]
  /\ wire' = <<"rates">>
  /\ UNCHANGED <<theme, fact, held>>

(* BOSControlRateResponse asks eight things, and two of the answers matter. *)
RatesCome ==
  /\ theme = "self" /\ oscar.phase = "asked" /\ wire = <<"rates">>
  /\ wire' = <<"limits", "params">>
  /\ UNCHANGED <<theme, oscar, fact, held, shown>>

(* naim_set_info: one who wrote no profile has one of naim's. *)
Profile == IF fact.profile = "none" THEN "a proverb" ELSE fact.profile

(* BOSLocationLimitations *)
LimitsCome(i) ==
  /\ theme = "self" /\ oscar.phase \in {"asked", "connected"} /\ wire[i] = "limits"
  /\ wire' = Without(i)
  /\ shown' = [shown EXCEPT !.profile = "LuaOSCAR user"]
  /\ fact' = [fact EXCEPT !.last = "limits"]
  /\ UNCHANGED <<theme, oscar, held>>

(* BOSICBMParameters: fireio_doinit sets the profile, and the away message of one who is
   away; then one is connected. *)
ParamsCome(i) ==
  /\ theme = "self" /\ oscar.phase = "asked" /\ wire[i] = "params"
  /\ wire' = Without(i)
  /\ oscar' = [oscar EXCEPT !.phase = "connected"]
  /\ shown' = [away |-> fact.away \/ shown.away, profile |-> Profile]
  /\ fact' = [fact EXCEPT !.last = "user"]
  /\ UNCHANGED <<theme, held>>

(* setaway, unsetaway *)
SetsAway(on) ==
  /\ theme = "self" /\ fact.away # on
  /\ fact' = [fact EXCEPT !.away = on, !.turned = @ \/ (oscar.phase = "linking" /\ ~on /\ TRUE \in oscar.pending),
                          !.last = IF oscar.phase = "connected" THEN "user" ELSE @]
  /\ oscar' = IF oscar.phase = "linking" THEN [oscar EXCEPT !.pending = @ \cup {on}] ELSE oscar
  /\ shown' = CASE oscar.phase = "asked"     -> [shown EXCEPT !.away = on]
                [] oscar.phase = "connected" -> [away |-> on, profile |-> Profile]
                [] OTHER -> shown
  /\ UNCHANGED <<theme, wire, held>>

LosesLink ==
  /\ theme = "self" /\ oscar.phase # "down"
  /\ Fatal /\ wire' = <<>>
  /\ UNCHANGED <<theme, fact, held, shown>>
-----------------------------------------------------------------------------
(* The wrapper's calls.  The driver is a Lua object: what it doesn't define cannot be
   called, and what returns nothing has not returned FE_SUCCESS. *)

Calls == {"get_info", "set_info", "set_away", "set_privacy", "im_evil", "im_add_deny", "chat_join"}
ReturnsZero == {"get_info", "set_away"}
ReturnsNothing == {"set_info"}

(* _nlua_pdvcall, PD_CALL_WRAPPER *)
DriverCall(call) ==
  [done |-> call \in ReturnsZero \cup ReturnsNothing,
   ret |-> IF call \in ReturnsZero THEN "FE_SUCCESS" ELSE "FE_UNKNOWN"]

(* firetalk_im_add_deny has blocked before it looks; the others don't get as far. *)
Result(call) ==
  CASE oscar.phase = "connected" -> DriverCall(call)
    [] oscar.phase # "connected" /\ call = "im_add_deny" -> [done |-> FALSE, ret |-> "FE_SUCCESS"]
    [] OTHER -> [done |-> FALSE, ret |-> "FE_NOTCONNECTED"]

(* setaway and naim_set_info don't ask what came of it. *)
Commanded(call) ==
  /\ theme = "calls" /\ shown = Untold
  /\ LET r == Result(call)
     IN  shown' = [kind |-> "called", call |-> call, done |-> r.done, denied |-> call = "im_add_deny",
                   failure |-> r.ret # "FE_SUCCESS" /\ call \notin {"set_away", "set_info"}]
  /\ UNCHANGED <<theme, oscar, wire, fact, held>>
-----------------------------------------------------------------------------
OscarTalkNext ==
  \/ \E to \in Callees : SendIm(to)
  \/ \E i \in DOMAIN wire : Delivered(i)
  \/ \E i \in DOMAIN wire, err \in {"unavailable", "sender too evil"} : ImFailed(i, err)
  \/ ConnectAgain
  \/ \E form \in Forms, kind \in {"message", "action"}, text \in ImTexts, auto \in BOOLEAN :
       \E subs \in {<<>>} \cup {<<arg>> : arg \in Hidden} :
         TextComes(Written(form, kind, text, subs, auto))
  \/ \E on \in BOOLEAN : TypingComes(on)
  \/ \E p \in Person : Changes(p)
  \/ OpensWindow \/ ClosesWindow \/ NewsComes
  \/ \E a \in Answers : InfoComes(a)
  \/ SignsOn \/ RatesCome \/ LosesLink
  \/ \E last \in BOOLEAN : LinkStands(last)
  \/ \E i \in DOMAIN wire : LimitsCome(i) \/ ParamsCome(i)
  \/ \E on \in BOOLEAN : SetsAway(on)
  \/ \E call \in Calls : Commanded(call)
-----------------------------------------------------------------------------
OscarTalkTypeOK ==
  /\ theme \in Themes
  /\ oscar.phase \in {"down", "linking", "asked", "connected"}
  /\ oscar.req \in 0 .. MaxReq - 1
  /\ oscar.recent \in [0 .. MaxReq - 1 -> Callees \cup {"nobody"}]
  /\ oscar.pending \subseteq BOOLEAN
  /\ Cardinality({id \in DOMAIN oscar.recent : oscar.recent[id] # "nobody"}) <= Remembered

(* An error is told about the one the message was for, or, when Remembered messages have been
   sent since, about nobody; never about another (init.lua:846, 1044). *)
ErrorTold ==
  theme = "errors" /\ shown.kind = "error" =>
    shown.whom = IF shown.later < Remembered THEN shown.of ELSE "nobody"

(* A session is not ended by what others do; but the two errors about evil end it
   (init.lua:416), and a message without a text or with bytes left over (init.lua:945). *)
SessionOutlives ==
  theme \in {"errors", "texts"} /\ oscar.phase = "down" =>
    (theme = "errors" /\ Nameless(shown.err)) \/ (theme = "texts" /\ Unreadable(fact))

Escaped(arg) == \E i \in DOMAIN arg : arg[i] = "&lt;"

(* What another naim writes arrives as it was written, as a message or an action, and so do
   the requests hidden in it; but what is wide is not read, what stands before >/me in a
   message is lost, and an argument that looks encoded is decoded although none was
   encoded (init.lua:1072, 1098).  One who has written is no longer typing, but one whose
   message held requests only is still. *)
TextArrives ==
  theme = "texts" /\ shown.kind \notin {"nothing", "ended"} =>
    LET wide == fact.form = "utf16" /\ \E i \in DOMAIN fact.text : fact.text[i] = "wide"
        wire1 == OnTheWire(fact)
    IN  /\ shown.auto = fact.auto
        /\ Len(shown.subs) = Len(fact.subs)
        /\ \A i \in DOMAIN fact.subs : Escaped(fact.subs[i]) \/ shown.subs[i] = fact.subs[i]
        /\ fact.kind = "action" => shown.kind = "action" /\ (wide \/ shown.text = fact.text)
        /\ shown.kind = "message" => fact.kind = "message" /\ (wide \/ shown.text = fact.text)
        /\ shown.kind = "empty" => wire1 = <<>>
        /\ held.typing => wire1 = <<>>
        /\ shown.kind = "action" /\ fact.kind = "message" /\ ~wide =>
             \E i \in DOMAIN wire1 : wire1[i] = "/me " /\ shown.text = From(wire1, i + 1)

(* When all news has come the wrapper and the client have the person as he is; but one who
   went while mobile and comes back mobile is not shown so (firetalk.c:536), a status is
   known only in a window that was open when it was told, and the title of a window keeps
   the spelling of one who comes back under another (buddy.c:795). *)
NewsShown ==
  theme = "news" /\ wire = <<>> =>
    /\ held.on = fact.on /\ shown.on = fact.on
    /\ held.name = fact.name /\ shown.name = fact.name
    /\ fact.on => /\ shown.away = fact.away
                  /\ shown.mobile = fact.mobile \/ shown.leftMobile
                  /\ held.mobile = fact.mobile
    /\ ~fact.on => ~shown.away /\ ~shown.mobile /\ shown.status = ""
    /\ fact.on /\ shown.window /\ ~shown.fresh => shown.status = IF fact.away THEN "" ELSE fact.status
    /\ shown.window => shown.title = fact.name \/ shown.cameOtherwise

(* What is told of a person is so; but an away message of two letters is taken for idle
   minutes (init.lua:630), one that begins with a number for how long he has been away, and
   who is mobile is not told at all. *)
InfoTold ==
  theme = "info" /\ shown.kind = "info" =>
    /\ fact.blurb # "two" => shown.idle = fact.idle
    /\ fact.blurb \notin {"none", "two"} /\ fact.since \in {0, 5} =>
         shown.absence = [min |-> fact.since, rest |-> <<fact.blurb>>]
    /\ fact.blurb = "some" /\ fact.since = Unknown => shown.absence = [min |-> -1, rest |-> <<"some">>]
    /\ shown.absence.rest = <<>> => fact.blurb \in {"none", "two"}
    /\ shown.flags \cap {"FF_MOBILE"} # {} => "commercial" \in fact.class

(* Once one is connected the server has the profile the user wrote, or one of naim's, unless it told
   its limits last (init.lua:610), and has one away exactly as long as he is; but one who went
   away and came back while the links were being made may stay away (init.lua:382). *)
SelfShown ==
  theme = "self" /\ oscar.phase = "connected" =>
    /\ shown.profile = Profile \/ fact.last = "limits"
    /\ shown.away = fact.away \/ (shown.away /\ fact.turned)

(* A command that is told to have failed has done nothing, and one that did nothing is told
   to have failed; but who cannot be blocked at the server is blocked here, with or without
   a failure told (firetalk.c:1385), and one is not told that an away message or a profile
   was not set, since it is when one is connected (fireio.c:126). *)
CommandTold ==
  theme = "calls" /\ shown.kind = "called" =>
    IF shown.call \in {"set_away", "set_info"} THEN shown.done \/ oscar.phase = "down"
    ELSE IF shown.call = "im_add_deny" THEN shown.denied
    ELSE shown.failure = ~shown.done
=============================================================================

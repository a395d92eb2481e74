------------------------------- MODULE MCLive -------------------------------
(***************************************************************************)
(* What must end: a session that is lost or closed, and a file that no     *)
(* longer comes; and beside them what is only kept: the block list, which  *)
(* outlives sessions, what is said over TOC2 and over OSCAR, what an IRC   *)
(* server answers, what becomes of orders in a room, and how a room's      *)
(* lines are shown.  They share the main loop's fairness and no state, so  *)
(* each behaviour is one of one of them, while the others stay as they     *)
(* begin: nothing of them can then be polled.                              *)
(***************************************************************************)
EXTENDS TLC, Session, Transfers, Blocks, TocTalk, IrcReplies, RoomOrders,
        OscarTalk, RepeatedLines

VARIABLE live   \* constant: the one that runs

liveVars == <<live, vars, transferVars, blockVars, talkVars, repliesVars, orderVars, oscarTalkVars, linesVars>>

(* Nothing unusual, and each unusual thing by itself. *)
Plain == [careless |-> FALSE, netFails |-> FALSE, reuse |-> FALSE, changes |-> FALSE]
MCWorlds == {Plain} \cup {[Plain EXCEPT ![w] = TRUE] : w \in DOMAIN Plain}

(* What is said, by the way it is said, with the symbols that matter then. *)
MCSymbols ==
     "message" :> {"a", " ", "\t", "$", ">", "/me"}
  @@ "auto" :> {"a", " ", "%", "n"}
  @@ "action" :> {"a", " ", "\t", "$"}
  @@ "chat" :> {"a", " ", "<pre>", "<", ">", "/me"}
  @@ "chat action" :> {"a", " "}
  @@ "invite" :> {"a", " ", "\\"}

(* Three networks: an old one that doesn't say what its modes are, one with lists of its
   own, and one where a letter that others use otherwise is a rank. *)
PlainLists == [a |-> {"b", "e", "I"}, b |-> {"k"}, c |-> {"l"}, d |-> {"i"}, prefix |-> {"o", "v"}]
MCNetworks ==
  { [tells |-> FALSE, lists |-> PlainLists],
    [tells |-> TRUE, lists |-> [PlainLists EXCEPT !.a = @ \cup {"q"}]],
    [tells |-> TRUE, lists |-> [PlainLists EXCEPT !.prefix = @ \cup {"q"}]] }

(* Names that irc_tolower takes for one. *)
MCPresent == {<<"[">>}
MCAbsent == {<<"]">>}

(* Texts over OSCAR, with one that is long enough for /me to stand within; what is hidden
   in them is a symbol or nothing. *)
MCImTexts ==
  UNION {[1 .. n -> {"a", "wide", ">", "/me "}] : n \in 0 .. 2} \cup {<<"a", ">", "/me ", "a">>}
MCHidden == UNION {[1 .. n -> {"a", "&lt;", "<"}] : n \in 0 .. 1}

LiveInit ==
  /\ live \in {"session", "transfers", "blocks", "talk", "replies", "orders", "oscar", "lines"}
  /\ Init /\ (live # "session" => ~conn.auto)
  /\ TransfersInit /\ (live # "transfers" => world = Plain)
  /\ BlocksInit /\ (live # "blocks" => network = "nowhere")
  /\ TalkInit /\ (live # "talk" => topic = "privacy")
  /\ RepliesInit /\ (live # "replies" => matter = "whois")
  /\ OrdersInit /\ (live # "orders" => aspect = "key")
  /\ OscarTalkInit /\ (live # "oscar" => theme = "errors")
  /\ LinesInit

LiveNext ==
  /\ UNCHANGED live
  /\ \/ live = "session"   /\ Next          /\ UNCHANGED <<transferVars, blockVars, talkVars, repliesVars, orderVars, oscarTalkVars, linesVars>>
     \/ live = "transfers" /\ TransfersNext /\ UNCHANGED <<vars, blockVars, talkVars, repliesVars, orderVars, oscarTalkVars, linesVars>>
     \/ live = "blocks"    /\ BlocksNext    /\ UNCHANGED <<vars, transferVars, talkVars, repliesVars, orderVars, oscarTalkVars, linesVars>>
     \/ live = "talk"      /\ TalkNext      /\ UNCHANGED <<vars, transferVars, blockVars, repliesVars, orderVars, oscarTalkVars, linesVars>>
     \/ live = "replies"   /\ RepliesNext   /\ UNCHANGED <<vars, transferVars, blockVars, talkVars, orderVars, oscarTalkVars, linesVars>>
     \/ live = "orders"    /\ OrdersNext    /\ UNCHANGED <<vars, transferVars, blockVars, talkVars, repliesVars, oscarTalkVars, linesVars>>
     \/ live = "oscar"     /\ OscarTalkNext /\ UNCHANGED <<vars, transferVars, blockVars, talkVars, repliesVars, orderVars, linesVars>>
     \/ live = "lines"     /\ LinesNext     /\ UNCHANGED <<vars, transferVars, blockVars, talkVars, repliesVars, orderVars, oscarTalkVars>>

(* Transfers may be over, all may be said, or an assertion may have ended the program: that
   is no deadlock. *)
LiveRest == live \in {"transfers", "talk", "replies", "oscar", "lines"} /\ UNCHANGED liveVars

LiveSpec == LiveInit /\ [][LiveNext \/ LiveRest]_liveVars /\ Fairness /\ TransfersFairness

(* A transfer that is under way has its window, and the end of one is told; no assertion
   fails and nothing freed is used but as NoTransferFault names (TransferHasWindow,
   EndIsTold, NoTransferFault; TransfersTypeOK).  Who is blocked or ignored is not shown,
   and who no longer is is heard again, but as HeardAgain names (BlockedStays,
   IgnoredStays, HeardAgain; BlocksTypeOK).  What is said over TOC2 is read as it was
   written, what the server tells is shown, and there is room for it, but as TalkSeen,
   TalkFits, ProfileTold and StatusTold name (PresenceAgrees, PrivacyAgrees,
   NoTalkFault; TalkTypeOK).  What an IRC server answers is told to the one who asked,
   and told in full, but as WhoisTold, RawLinesShown and ModesTold name (WhoisEnds,
   NoticeHeard, OptionsKept; RepliesTypeOK).  An order in a room is carried out or
   refused aloud, and the room is shown as it is, but as OrderAnswered, RoomShown and
   BackInTheRoom name (OrdersTypeOK).  What is said and told over OSCAR arrives as it was
   said, and the session outlives it, but as ErrorTold, SessionOutlives, TextArrives,
   NewsShown, InfoTold, SelfShown and CommandTold name (OscarTalkTypeOK).  All that is said in a room is
   shown or counted, and to whom, but as NameUnderstood names (SaidShown; LinesTypeOK). *)
WrapperKeeps ==
  /\ TransfersTypeOK /\ TransferHasWindow /\ EndIsTold /\ NoTransferFault
  /\ BlocksTypeOK /\ BlockedStays /\ IgnoredStays /\ HeardAgain
  /\ TalkTypeOK /\ TalkSeen /\ TalkFits /\ ProfileTold /\ StatusTold
  /\ PresenceAgrees /\ PrivacyAgrees /\ NoTalkFault
  /\ RepliesTypeOK /\ WhoisTold /\ WhoisEnds /\ RawLinesShown /\ ModesTold
  /\ NoticeHeard /\ OptionsKept
  /\ OrdersTypeOK /\ RoomShown /\ OrderAnswered /\ BackInTheRoom
  /\ OscarTalkTypeOK /\ ErrorTold /\ SessionOutlives /\ TextArrives /\ NewsShown /\ InfoTold /\ SelfShown
  /\ CommandTold
  /\ LinesTypeOK /\ SaidShown /\ NameUnderstood
=============================================================================

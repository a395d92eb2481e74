----------------------------- MODULE IrcReplies -----------------------------
(***************************************************************************)
(* What an IRC server tells besides who is in which room: the answers to   *)
(* /whois, notices with the subcodes in them, changes of a room's modes;   *)
(* and the options behind a server's name.  Each is a matter, and a        *)
(* behaviour is about one.                                                 *)
(*                                                                         *)
(* irc.c keeps whether an answer is being read in one static variable,     *)
(* for all connections; the lists of modes and the options belong to a     *)
(* connection and outlive its sessions.                                    *)
(***************************************************************************)
EXTENDS Integers, Sequences, FiniteSets
LOCAL INSTANCE SequencesExt
LOCAL INSTANCE Functions

CONSTANTS
  Links,      \* two connections to one server
  Present,     \* the names on the server, written in characters,
  Absent,      \* and others that nobody has
  Networks,    \* what a server takes as modes, and whether it says so
  MaxAsked,    \* bounds on the questions under way,
  MaxComing,   \* and on the lines
  MaxModes,    \* bound on the letters of a MODE line
  MaxNotice    \* bound on the characters of a notice

ASSUME IrcRepliesAssumption ==
  /\ {MaxAsked, MaxComing, MaxModes, MaxNotice} \subseteq Nat
  /\ \A n \in Networks : {n.lists[k] : k \in {"a", "b", "c", "d", "prefix"}} \subseteq SUBSET STRING

VARIABLES
  matter,     \* constant: what this behaviour is about
  whois,      \* by connection: session, whois_head, what the server sends
  inwhois,    \* static: whether an answer is being read
  answer,     \* the last thing told, and what had come between
  modes,      \* the network, chanmodes and chanprefix, a MODE line
  notice,     \* a NOTICE or PRIVMSG
  options     \* the connection's flags, and what was asked for

repliesVars == <<matter, whois, inwhois, answer, modes, notice, options>>

Matters == {"whois", "modes", "notice", "options"}
Names == Present \cup Absent

(* irc_conn_t_ctor *)
AtFirst == [a |-> {"b", "e", "I"}, b |-> {"k"}, c |-> {"l"}, d |-> {"i", "m", "n", "p", "s", "t", "a"},
            prefix |-> {"o", "v"}]
Told == [what |-> "nothing", who |-> <<>>, info |-> <<>>, oper |-> FALSE, clean |-> TRUE]

RepliesInit ==
  /\ matter \in Matters
  /\ whois = [c \in Links |-> [asks |-> <<>>, coming |-> <<>>, cut |-> FALSE]]
  /\ inwhois = FALSE
  /\ answer = Told
  /\ modes = [net |-> CHOOSE n \in Networks : TRUE, lists |-> AtFirst, stage |-> "off", line |-> <<>>]
  /\ notice \in [kind : {"NOTICE", "PRIVMSG"}, room : BOOLEAN, server : BOOLEAN, text : {<<>>}]
  /\ matter # "notice" => notice = [kind |-> "NOTICE", room |-> FALSE, server |-> FALSE, text |-> <<>>]
  /\ \E legacy \in IF matter = "options" THEN BOOLEAN ELSE {FALSE} :
       options = [pass |-> FALSE, sasl |-> FALSE, tls |-> FALSE, legacy |-> legacy, asked |-> {}, ever |-> {}]
-----------------------------------------------------------------------------
(* /whois. *)

(* irc_tolower, with its slip: both brackets are taken for one. *)
Lower(ch) == CASE ch \in {"[", "]"} -> "{" [] ch = "\\" -> "|" [] OTHER -> ch
Same(m, n) == [i \in DOMAIN m |-> Lower(m[i])] = [i \in DOMAIN n |-> Lower(n[i])]

(* The question in front of those about a name, or 0. *)
About(asks, who) ==
  LET is == {i \in DOMAIN asks : Same(asks[i].who, who)}
  IN  IF is = {} THEN 0 ELSE CHOOSE i \in is : \A j \in is : i <= j

Reply(num, who) == [num |-> num, who |-> who]
Answer(n) ==
  IF n \in Absent THEN <<Reply("401", n), Reply("318", n)>>
  ELSE <<Reply("311", n), Reply("671", n), Reply("313", n), Reply("318", n)>>

Under(Count(_)) == FoldFunction(LAMBDA w, k : k + Count(w), 0, whois)
Coming == Under(LAMBDA w : Len(w.coming))

(* irc_get_info; the server answers in the order it was asked. *)
GetInfo(c, n) ==
  /\ Under(LAMBDA w : Len(w.asks)) < MaxAsked
  /\ Coming + Len(Answer(n)) <= MaxComing
  /\ \A i \in DOMAIN whois[c].asks : Len(whois[c].asks[i].info) <= 1
  /\ LET asks == whois[c].asks
         twins == {i \in DOMAIN asks : Same(asks[i].who, n)}
     IN  whois' = [whois EXCEPT
           ![c].asks = <<[who |-> n, info |-> <<>>, oper |-> FALSE, lost |-> FALSE, 
                          alone |-> twins = {} /\ \A l \in ToSet(whois[c].coming) : ~Same(l.who, n)]>>
                       \o [i \in DOMAIN asks |-> [asks[i] EXCEPT !.alone = @ /\ i \notin twins]],
           ![c].coming = @ \o Answer(n)]
  /\ UNCHANGED <<inwhois, answer>>

(* A message to someone who isn't there: the server sends a 401 for it too. *)
SayTo(c, n) ==
  /\ n \in Absent /\ whois[c].coming = <<>>
  /\ whois' = [whois EXCEPT ![c].coming = Append(@, Reply("401", n)),
       ![c].asks = [i \in DOMAIN @ |-> [@[i] EXCEPT !.alone = @ /\ ~Same(whois[c].asks[i].who, n)]]]
  /\ UNCHANGED <<inwhois, answer>>

Reading(c) == whois[c].coming # <<>> /\ Head(whois[c].coming).num \in {"671", "313", "318"}
              /\ Head(whois[c].coming).who \in Present

(* irc_addwhois *)
AddWhois(asks, who, word) ==
  [i \in DOMAIN asks |-> IF i = About(asks, who) THEN [asks[i] EXCEPT !.info = Append(@, word)] ELSE asks[i]]

(* Nothing came between: no question that is taken for this one, no end of another's answer. *)
Clean(c, entry) == entry.alone /\ ~whois[c].cut

(* The static flag after the line: 311 begins an answer, 318 ends one. *)
InWhois(num) == IF num = "311" THEN TRUE ELSE IF num = "318" THEN FALSE ELSE inwhois

Asking(c, line, asks) ==
  /\ whois' = [d \in Links |->
       IF d = c THEN [whois[c] EXCEPT !.coming = IF @ = <<>> THEN <<>> ELSE Tail(@), !.asks = asks, !.cut = @ /\ line.num # "311"]
       ELSE [whois[d] EXCEPT !.cut = @ \/ (line.num = "318" /\ Reading(d))]]
  /\ inwhois' = InWhois(line.num)

Tells(what, who, entry, clean) ==
  answer' = [what |-> what, who |-> who, info |-> entry.info, oper |-> entry.oper, clean |-> clean]
Silent == answer' = Told
NoEntry == [info |-> <<>>, oper |-> FALSE]

(* 311, 312 and 319 are written into the question; 313 marks it. *)
Detail(c, line) ==
  /\ line.num \in {"311", "313"}
  /\ Asking(c, line, IF line.num # "313" THEN AddWhois(whois[c].asks, line.who, line.num)
                     ELSE [i \in DOMAIN whois[c].asks |->
                             [whois[c].asks[i] EXCEPT !.oper = @ \/ i = About(whois[c].asks, line.who)]])
  /\ Silent

(* RPL_ENDOFWHOIS tells what was gathered. *)
EndOfWhois(c, line) ==
  /\ line.num = "318"
  /\ LET asks == whois[c].asks
         i == About(asks, line.who)
     IN  IF i = 0 THEN Asking(c, line, asks) /\ Silent
         ELSE /\ Asking(c, line, RemoveAt(asks, i))
              /\ Tells("info", line.who, asks[i], Clean(c, asks[i]))

(* ERR_NOSUCHNICK is an error only to one who had asked. *)
NoSuchNick(c, line) ==
  /\ line.num = "401"
  /\ LET asks == whois[c].asks
         i == About(asks, line.who)
     IN  IF i = 0 THEN Asking(c, line, asks) /\ Silent
         ELSE Asking(c, line, RemoveAt(asks, i)) /\ Tells("error", line.who, NoEntry, TRUE)

(* What no case handles goes into the answer being read, or is shown in :RAW; being
   marked away is dropped.  A MODE line without arguments is one of them. *)
Unhandled(c, line) ==
  /\ line.num \in {"671", "305", "263", "MODE"}
  /\ IF inwhois THEN /\ Asking(c, line, AddWhois(whois[c].asks, line.who, line.num))
                     /\ IF line.num \in {"263", "MODE"} THEN Tells("swallowed", line.who, NoEntry, \A d \in Links : ~Reading(d))
                        ELSE Silent
     ELSE /\ Asking(c, line, whois[c].asks)
          /\ IF line.num = "305" THEN Silent
             ELSE Tells("raw", line.who, NoEntry, line.num = "671" /\ ~whois[c].cut)

(* The next line of the answers, or one of the server's own accord: a mark of being away,
   or one that no case handles. *)
WhoisLine(c) ==
  \E line \in IF whois[c].coming = <<>> THEN {Reply(num, <<"text">>) : num \in {"305", "263", "MODE"}}
              ELSE {Head(whois[c].coming)} :
    Detail(c, line) \/ EndOfWhois(c, line) \/ NoSuchNick(c, line) \/ Unhandled(c, line)

(* The session is lost and another begins: whois_head and the flag stay.  No second one is
   lost with a question left from the first. *)
Loses(c) ==
  /\ \A d \in Links : \A i \in DOMAIN whois[d].asks : ~whois[d].asks[i].lost
  /\ whois' = [whois EXCEPT ![c].coming = <<>>, ![c].cut = @ \/ Reading(c),
       ![c].asks = [i \in DOMAIN @ |-> [@[i] EXCEPT !.lost = TRUE]]]
  /\ answer' = Told
  /\ UNCHANGED inwhois

Whois ==
  /\ matter = "whois"
  /\ \E c \in Links :
       \/ \E n \in Names : GetInfo(c, n)
       \/ \E n \in Absent : SayTo(c, n)
       \/ WhoisLine(c) \/ Loses(c)
  /\ UNCHANGED <<matter, modes, notice, options>>
-----------------------------------------------------------------------------
(* MODE. *)

(* mode_has_arg, and a letter of chanprefix: 1 or 2 with an argument, 0 without, -1 unknown. *)
Arged(lists, letter, on) ==
  CASE letter \in lists.a -> 2
    [] letter \in lists.b -> 1
    [] letter \in lists.c -> IF on THEN 1 ELSE 0
    [] letter \in lists.d -> 0
    [] letter \in lists.prefix -> 1
    [] OTHER -> -1

(* The server's arguments for a line, each the place of its letter. *)
Args(lists, line) ==
  SelectSeq([i \in DOMAIN line |-> i], LAMBDA i : Arged(lists, line[i].letter, line[i].on) > 0)

(* A letter of the line: it takes the next argument; one that is unknown ends the walk. *)
ModeStep(lists, args, line, w, i) ==
  LET m     == line[i]
      arged == Arged(lists, m.letter, m.on)
      arg   == IF w.arg <= Len(args) THEN args[w.arg] ELSE 0
  IN  IF w.over \/ arged = -1 THEN [w EXCEPT !.over = TRUE]
      ELSE [w EXCEPT !.arg = IF arged # 0 /\ arg # 0 THEN @ + 1 ELSE @,
              !.told = Append(@, [letter |-> m.letter, on |-> m.on,
                         arg |-> IF arged = 0 \/ (m.letter = "k" /\ ~m.on) THEN 0 ELSE arg])]
Walk(lists, args, line) ==
  FoldLeft(LAMBDA w, i : ModeStep(lists, args, line, w, i),
           [arg |-> 1, over |-> FALSE, told |-> <<>>], [i \in DOMAIN line |-> i]).told

(* What is told of a MODE line: without an argument it is not taken for one, and is
   left unhandled. *)
ModesOf(lists, args, line) == IF args = <<>> THEN <<>> ELSE Walk(lists, args, line)

(* A session with a network: 005 before the end of the MOTD, where the network sends it. *)
Dial(n) ==
  /\ modes.stage = "off"
  /\ modes' = [modes EXCEPT !.net = n, !.stage = "signing on", !.line = <<>>]
Isupport ==
  /\ modes.stage = "signing on" /\ modes.net.tells /\ modes.lists # modes.net.lists
  /\ modes' = [modes EXCEPT !.lists = modes.net.lists]
MotdEnds ==
  /\ modes.stage = "signing on" /\ (modes.net.tells => modes.lists = modes.net.lists)
  /\ modes' = [modes EXCEPT !.stage = "on"]
Letter(letter, on) ==
  /\ modes.stage = "on" /\ Len(modes.line) < MaxModes
  /\ Arged(modes.net.lists, letter, on) # -1
  /\ modes' = [modes EXCEPT !.line = Append(@, [letter |-> letter, on |-> on])]
(* irc_conn_t stays: its lists are the next network's too. *)
HangsUp == modes.stage # "off" /\ modes' = [modes EXCEPT !.stage = "off", !.line = <<>>]

Modes ==
  /\ matter = "modes"
  /\ \/ \E n \in Networks : Dial(n)
     \/ Isupport \/ MotdEnds \/ HangsUp
     \/ \E letter \in {"o", "b", "k", "l", "i", "q"}, on \in BOOLEAN : Letter(letter, on)
  /\ UNCHANGED <<matter, whois, inwhois, answer, notice, options>>
-----------------------------------------------------------------------------
(* NOTICE and PRIVMSG, with subcodes between two marks. *)

Marks(t) == {i \in DOMAIN t : t[i] = "^"}
Lowest(is) == CHOOSE i \in is : \A j \in is : i <= j

(* Cut off at the first blank: the command of a subcode. *)
CommandOf(t) ==
  LET blanks == {i \in DOMAIN t : t[i] = " "}
  IN  IF blanks = {} THEN t ELSE SubSeq(t, 1, Lowest(blanks) - 1)

(* The loop over the marks, and what of the text is left when it ends.  In a notice the
   last mark need not be closed. *)
Scan[t \in Seq({"a", " ", "^"}), closed \in BOOLEAN] ==
  IF Marks(t) = {} THEN [codes |-> <<>>, text |-> t]
  ELSE LET i      == Lowest(Marks(t))
           others == Marks(t) \ {i}
           before == SubSeq(t, 1, i - 1)
       IN  IF others = {}
           THEN IF closed THEN [codes |-> <<>>, text |-> t]
                ELSE LET rest == SubSeq(t, i + 1, Len(t))
                     IN  [codes |-> <<rest>>, text |-> before \o <<"^">> \o CommandOf(rest)]
           ELSE LET j    == Lowest(others)
                    left == Scan[before \o SubSeq(t, j + 1, Len(t)), closed]
                IN  [left EXCEPT !.codes = <<SubSeq(t, i + 1, j - 1)>> \o @]

(* In a room nothing is reported, and an open mark stays in the text. *)
HeardText(n) ==
  IF n.room THEN [codes |-> <<>>, text |-> Scan[n.text, TRUE].text]
  ELSE Scan[n.text, n.kind = "PRIVMSG"]

(* Where the text is shown: a server's notice in :RAW, even when nothing is left of it. *)
ShownIn(n) ==
  CASE n.kind = "NOTICE" /\ n.server -> "raw"
    [] HeardText(n).text = <<>> -> "nowhere"
    [] n.room -> "room"
    [] OTHER -> "person"

Compose(ch) ==
  /\ matter = "notice" /\ Len(notice.text) < MaxNotice
  /\ notice' = [notice EXCEPT !.text = Append(@, ch)]
  /\ UNCHANGED <<matter, whois, inwhois, answer, modes, options>>
-----------------------------------------------------------------------------
(* irc_connect: server?pass&sasl&tls.  Only the first is taken back. *)
Connect(opts) ==
  /\ matter = "options"
  /\ options' = [options EXCEPT
       !.pass = options.legacy \/ "pass" \in opts,
       !.sasl = @ \/ "sasl" \in opts,
       !.tls  = @ \/ "tls" \in opts,
       !.asked = opts, !.ever = @ \cup opts]
  /\ UNCHANGED <<matter, whois, inwhois, answer, modes, notice>>

RepliesNext ==
  \/ Whois \/ Modes
  \/ \E ch \in {"a", " ", "^"} : Compose(ch)
  \/ \E opts \in SUBSET {"pass", "sasl", "tls", "port"} : Connect(opts)
-----------------------------------------------------------------------------
RepliesTypeOK ==
  /\ matter \in Matters
  /\ inwhois \in BOOLEAN
  /\ \A c \in Links :
       /\ Len(whois[c].asks) <= MaxAsked
       /\ \A i \in DOMAIN whois[c].asks : whois[c].asks[i].who \in Names
  /\ modes.net \in Networks /\ modes.stage \in {"off", "signing on", "on"}
  /\ DOMAIN options = {"pass", "sasl", "tls", "legacy", "asked", "ever"}

(* What /whois tells of somebody is everything the server said of him, and of someone
   who isn't there nothing is told but the error; unless an answer on another connection
   ended in between, which takes the static flag away, or two questions were taken for
   one. *)
WhoisTold ==
  answer.what = "info" /\ answer.clean =>
    /\ answer.who \in Present
    /\ answer.info = <<"311", "671">>
    /\ answer.oper

(* Once the server has said everything, no question of the session waits. *)
WhoisEnds ==
  \A c \in Links : whois[c].coming = <<>> =>
    \A i \in DOMAIN whois[c].asks : whois[c].asks[i].lost

(* A line that belongs to no answer is shown, and one that does is not, but while an
   answer is read on some connection, or after a session was lost in the middle of one. *)
RawLinesShown ==
  /\ answer.what = "raw" => ~answer.clean
  /\ answer.what = "swallowed" /\ answer.clean =>
       \E c \in Links : whois[c].cut

(* A change of modes is told as the server means it, argument by argument, if its line has
   an argument at all: of one without, as +i or -l, nothing is told.  Where the network
   doesn't say what its modes are, nothing is told but letters of the line. *)
ModesTold ==
  modes.stage = "on" =>
    LET args  == Args(modes.net.lists, modes.line)
        told  == ModesOf(modes.lists, args, modes.line)
        meant == [i \in DOMAIN modes.line |->
                   [letter |-> modes.line[i].letter, on |-> modes.line[i].on,
                    arg |-> IF i \in ToSet(args) /\ (modes.line[i].letter = "k" => modes.line[i].on) THEN i ELSE 0]]
    IN  IF modes.lists = modes.net.lists THEN told = (IF args = <<>> THEN <<>> ELSE meant)
        ELSE \A i \in DOMAIN told : told[i].letter = meant[i].letter /\ told[i].on = meant[i].on

(* Marks in pairs hold the subcodes, and what is outside of them is the text; a notice
   whose last mark is not closed is both, cut at a blank. *)
Outside(t) ==
  LET before(i) == Cardinality({j \in Marks(t) : j < i})
      out == SelectSeq([i \in DOMAIN t |-> i], LAMBDA i : t[i] # "^" /\ before(i) % 2 = 0)
  IN  [k \in DOMAIN out |-> t[out[k]]]
NoticeHeard ==
  LET paired == Cardinality(Marks(notice.text)) % 2 = 0
  IN  /\ paired => HeardText(notice).text = Outside(notice.text)
      /\ ~notice.room /\ paired => 2 * Len(HeardText(notice).codes) = Cardinality(Marks(notice.text))
      /\ ShownIn(notice) = "nowhere" => Outside(notice.text) = <<>>

(* What is asked for in the server's name is done, and a password is sent only when one
   is asked for; TLS and SASL are also done when an earlier connect asked for them. *)
OptionsKept ==
  /\ options.pass => options.legacy \/ "pass" \in options.asked
  /\ "pass" \in options.asked => options.pass
  /\ "tls" \in options.asked => options.tls
  /\ options.tls => "tls" \in options.ever
  /\ "sasl" \in options.asked => options.sasl
=============================================================================

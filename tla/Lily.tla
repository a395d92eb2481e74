-------------------------------- MODULE Lily --------------------------------
(***************************************************************************)
(* An SLCP session, lily.c: what is told of a person takes three commands, *)
(* each sent when the block of lines that answers the one before it ends;  *)
(* rooms are joined by a queued command, and known to be joined when the   *)
(* server notifies of it; who is here or away is kept in a table.          *)
(*                                                                         *)
(* The answers of all sessions go through the same static variables        *)
(* (blockwhat, info), which no disconnect clears; and the tables outlive   *)
(* a lost session.  A line of the server is one step.                      *)
(*                                                                         *)
(* The lines of the synchronization (%USER and %DISC) are one line here.   *)
(* Every person is a buddy.  Messages and their HTML are left out, and so  *)
(* are renames, /WHAT (which is as /FINGER), and titles.                   *)
(***************************************************************************)
EXTENDS Integers, Sequences, SequencesExt

CONSTANTS
  People,     \* other users
  Chats,      \* discussions
  NoOne,      \* for a command that names no one
  MaxLines,   \* bound: lines from the server under way
  MaxCommands, \* bound: commands under way
  Manners     \* sets of what may happen, one of them in each behaviour

(* "moves": others come and go; "whois": people are asked about; "overlaps": and
   other commands are given, or someone else is asked about, before the answer is
   complete; "loses": sessions are lost; "hasty": discussions are left before one is
   told to be in them; "breaks": a send fails; "destroys": discussions are destroyed;
   "depermits": several people at once are no longer permitted to one. *)
Manner == {"moves", "whois", "overlaps", "hasty", "loses", "breaks", "destroys", "depermits"}

ASSUME LilyAssumption ==
  /\ NoOne \notin People \cup Chats
  /\ IsFiniteSet(Chats)
  /\ {MaxLines, MaxCommands} \subseteq Nat
  /\ Manners \subseteq SUBSET Manner

VARIABLES
  lily,    \* this side and what is under way
  host,    \* external: the server
  manner   \* constant

lilyVars == <<lily, host, manner>>

Presence == {"here", "away", "detached", "gone"}     \* at the server
State    == {"none", "here", "away", "offline"}       \* in lily_userar; "none": not there

Command ==
  [verb : {"FINGER", "WHERE", "INFO"}, of : People]       \* of a person
    \cup [verb : {"JOIN", "QUIT", "what"}, of : Chats]    \* of a discussion
    \cup [verb : {"MEMBERS",              \* /WHERE of oneself
                  "word"},                \* anything else, without a blank in it
           of   : {NoOne}]

Cmd(verb, of) == [verb |-> verb, of |-> of]

Line ==
  [kind : {"sync"}, states : [People -> State]]
    \cup [kind : {"connected"}]
    \cup [kind : {"begin", "text", "end"}, cmd : Command]
    \cup [kind : {"members"}, chats : SUBSET Chats]         \* the text of MEMBERS
    \cup [kind : {"data", "join", "quit", "destroy", "depermit"}, chat : Chats]
    \cup [kind : {"away", "here", "detach", "attach", "disconnect", "connect"}, who : People]

Lily ==
  [session : {"off", "signing", "on"},
   sock    : BOOLEAN,
   block   : SUBSET Command,                 \* blockwhat: none, or that of the open block
   info    : SUBSET People,                  \* of whom the lines of info are; infolen # 0
   told    : SUBSET (People \X SUBSET People),   \* what gotinfo said last, and of whom
   states  : [People -> State],              \* lily_userar
   online  : SUBSET People,                  \* buddies the wrapper has online
   member  : SUBSET Chats,                   \* ismember of lily_chatar
   rooms   : SUBSET Chats,                   \* firetalk_room_t
   windows : SUBSET Chats,
   joins   : SUBSET Chats,                   \* qar
   out     : Seq(Command),
   mail    : Seq(Line),
   fault   : BOOLEAN]                        \* the program has ended on an error of its own

LilyInit ==
  /\ manner \in Manners
  /\ lily = [session |-> "off", sock |-> FALSE, block |-> {}, info |-> {}, told |-> {},
             states |-> [p \in People |-> "none"], online |-> {}, member |-> {},
             rooms |-> {}, windows |-> {}, joins |-> {}, out |-> <<>>, mail |-> <<>>,
             fault |-> FALSE]
  /\ host = [up |-> FALSE, in |-> {}, discs |-> Chats,
             states |-> [p \in People |-> "here"]]

-----------------------------------------------------------------------------
Fault(c) == [c EXCEPT !.fault = TRUE]

(* lily_send_printf: a socket that is closed fails an assertion of
   firetalk_sock_send. *)
Send(c, cmd) == IF ~c.sock THEN Fault(c) ELSE [c EXCEPT !.out = Append(@, cmd)]

LilySockClose(c) == [c EXCEPT !.sock = FALSE, !.out = <<>>, !.mail = <<>>]

(* What the wrapper and the client do at the end of a session. *)
SessionOver(c) == [c EXCEPT !.session = "off", !.rooms = {}, !.online = {}]

(* lily_conn_t_dtor and _ctor; the static variables stay. *)
LilyRenew(c) ==
  [LilySockClose(c) EXCEPT !.states = [p \in People |-> "none"], !.member = {}, !.joins = {}]

Quit(h) == [h EXCEPT !.up = FALSE]

-----------------------------------------------------------------------------
(* The user. *)

MayCommand == ~lily.fault /\ Len(lily.out) < MaxCommands

(* Whether someone's answer is not complete. *)
Asking ==
  \/ lily.block # {}
  \/ \E q \in ToSet(lily.out)  : q.verb \in {"FINGER", "WHERE", "INFO"}
  \/ \E m \in ToSet(lily.mail) : m.kind = "begin"

Joining ==
  \/ lily.joins # {}
  \/ \E q \in ToSet(lily.out)  : q.verb \in {"MEMBERS", "JOIN", "what"}
  \/ \E m \in ToSet(lily.mail) : m.kind \in {"members", "join", "data"}

MayAsk == MayCommand /\ lily.session = "on" /\ (Asking => "overlaps" \in manner)

LilyConnect ==
  /\ ~lily.fault /\ lily.session = "off"
  /\ lily' = [LilySockClose(lily) EXCEPT !.session = "signing", !.sock = TRUE]
  /\ UNCHANGED <<host, manner>>

LilyDisconnect ==
  /\ MayCommand /\ lily.session # "off" /\ lily.sock
  /\ Asking => "overlaps" \in manner
  /\ lily' = SessionOver(LilyRenew(lily))
  /\ host' = Quit(host)
  /\ UNCHANGED manner

GetInfo(p) ==
  /\ MayAsk /\ "whois" \in manner
  /\ lily' = Send(lily, Cmd("FINGER", p))
  /\ UNCHANGED <<host, manner>>

(* A message of one word, or /AWAY without one. *)
SendWord ==
  /\ MayAsk /\ "whois" \in manner
  /\ lily' = Send(lily, Cmd("word", NoOne))
  /\ UNCHANGED <<host, manner>>

LilyJoin(c) ==
  /\ MayAsk /\ c \notin lily.rooms
  /\ lily' = [lily EXCEPT !.windows = @ \cup {c}, !.joins = @ \cup {c}]
  /\ UNCHANGED <<host, manner>>

LilyClose(c) ==
  /\ MayAsk /\ c \in lily.windows
  /\ Joining => "hasty" \in manner
  /\ lily' = Send([lily EXCEPT !.windows = @ \ {c}], Cmd("QUIT", c))
  /\ UNCHANGED <<host, manner>>

(* lily_preselect: what is queued goes out before every wait, in one command here
   for each. *)
Preselect ==
  /\ MayCommand
  /\ \E c \in lily.joins : lily' = Send([lily EXCEPT !.joins = @ \ {c}], Cmd("JOIN", c))
  /\ UNCHANGED <<host, manner>>

(* The send of a command fails, which closes the socket, and nothing is told. *)
SendBreaks ==
  /\ ~lily.fault /\ "breaks" \in manner /\ lily.session = "on" /\ lily.sock
  /\ lily' = LilySockClose(lily)
  /\ host' = Quit(host)
  /\ UNCHANGED manner

(* lily_postselect fails. *)
LilyPollError ==
  /\ ~lily.fault /\ lily.sock
  /\ lily.joins = {}      \* preselect has been before
  /\ ~host.up \/ "loses" \in manner
  /\ lily' = SessionOver(LilySockClose(lily))
  /\ host' = Quit(host)
  /\ UNCHANGED manner

-----------------------------------------------------------------------------
(* The server, which keeps one's membership while one is detached. *)

LilySays(c, lines) == [c EXCEPT !.mail = @ \o lines]

MaySay(n) == ~lily.fault /\ Len(lily.mail) + n <= MaxLines

(* Mutant: the state is kept as the server has it. *)
UserStateRaw(presence) == presence

(* lily_user_state of a %USER line; one who is gone has none. *)
UserState(presence) ==
  CASE presence = "detached" -> "offline" [] presence = "gone" -> "none" [] OTHER -> presence

Synchronizes ==
  /\ MaySay(2) /\ lily.session = "signing" /\ lily.sock /\ ~host.up
  /\ lily' = LilySays(lily, <<[kind |-> "sync", states |-> [p \in People |-> UserState(host.states[p])]],
                         [kind |-> "connected"]>>)
  /\ host' = [host EXCEPT !.up = TRUE]
  /\ UNCHANGED manner

Answer(cmd, lines) ==
  <<[kind |-> "begin", cmd |-> cmd]>> \o lines \o <<[kind |-> "end", cmd |-> cmd]>>

Takes(c) == c \in host.discs \ host.in

CommandArrives ==
  /\ MaySay(3) /\ host.up /\ lily.out # <<>>
  /\ LET q    == Head(lily.out)
         rest == [lily EXCEPT !.out = Tail(@)]
         text == <<[kind |-> "text", cmd |-> q]>>
         note(kind) == <<[kind |-> kind, chat |-> q.of]>>
     IN  /\ lily' = LilySays(rest,
              CASE q.verb \in {"FINGER", "WHERE", "INFO"} -> Answer(q, text)
                [] q.verb = "MEMBERS" -> Answer(q, <<[kind |-> "members", chats |-> host.in]>>)
                [] q.verb = "word"    -> Answer(q, <<>>)
                [] q.verb = "what"    -> IF q.of \in host.discs THEN note("data") ELSE <<>>
                [] q.verb = "JOIN"    -> Answer(q, IF Takes(q.of) THEN note("join") ELSE text)
                [] q.verb = "QUIT"    -> Answer(q, IF q.of \in host.in THEN note("quit") ELSE text))
         /\ host' = [host EXCEPT
              !.in = CASE q.verb = "JOIN" /\ Takes(q.of) -> @ \cup {q.of}
                       [] q.verb = "QUIT"                -> @ \ {q.of}
                       [] OTHER                          -> @]
  /\ UNCHANGED manner

(* Others come, go and turn away; one is told while one is connected. *)
PersonMoves ==
  /\ MaySay(1) /\ "moves" \in manner
  /\ \E p \in People, e \in {"away", "here", "detach", "attach", "disconnect", "connect"} :
       LET new == CASE e = "away"       -> "away"
                    [] e = "detach"     -> "detached"
                    [] e = "disconnect" -> "gone"
                    [] OTHER            -> "here"
       IN  /\ host.states[p] \in CASE e \in {"away", "detach"} -> {"here"}
                                   [] e = "here"       -> {"away"}
                                   [] e = "attach"     -> {"detached"}
                                   [] e = "disconnect" -> {"here", "detached"}
                                   [] e = "connect"    -> {"gone"}
           /\ host' = [host EXCEPT !.states[p] = new]
           /\ lily' = IF host.up THEN LilySays(lily, <<[kind |-> e, who |-> p]>>) ELSE lily
  /\ UNCHANGED manner

ChatDestroyed ==
  /\ MaySay(1) /\ "destroys" \in manner
  /\ \E c \in host.discs :
       /\ host' = [host EXCEPT !.discs = @ \ {c}, !.in = @ \ {c}]
       /\ lily' = IF host.up THEN LilySays(lily, <<[kind |-> "destroy", chat |-> c]>>) ELSE lily
  /\ UNCHANGED manner

PeopleDepermitted ==
  /\ MaySay(1) /\ "depermits" \in manner /\ host.up
  /\ \E c \in host.in : lily' = LilySays(lily, <<[kind |-> "depermit", chat |-> c]>>)
  /\ UNCHANGED <<host, manner>>

-----------------------------------------------------------------------------
(* One line of the server. *)

(* lily_user_add: one who is listed keeps his state; lily_chat_add: a discussion
   one is a member of is again one that one is not. *)
Synced(c, states) ==
  [c EXCEPT !.states = [p \in People |-> IF @[p] = "none" THEN states[p] ELSE @[p]],
            !.member = {}]

(* %connected: buddies are added (lily_im_add_buddy), rooms joined again. *)
GotConnected(c) ==
  Send([c EXCEPT !.session = "on",
                 !.online = {p \in People : c.states[p] \in {"here", "away"}},
                 !.joins = @ \cup c.windows],
       Cmd("MEMBERS", NoOne))

(* A line within a block. *)
Text(c) ==
  LET what == CHOOSE q \in c.block : TRUE
  IN  IF c.block = {} THEN Fault(c)               \* assert(blocknum != -1)
      ELSE CASE what.verb = "FINGER"            -> [c EXCEPT !.info = @ \cup {what.of}]
             [] what.verb \in {"WHERE", "INFO"} ->
                  IF c.info = {} THEN Fault(c)    \* assert(infolen != 0)
                  ELSE [c EXCEPT !.info = @ \cup {what.of}]
             [] OTHER                           -> c

(* The end of a block.  While there is information, any command must have a blank
   in it, and the next command is sent to the one that this block was about. *)
End(c) ==
  LET what == CHOOSE q \in c.block : TRUE
      next == CASE what.verb \in {"word", "MEMBERS"} -> Fault(c)     \* assert(who != NULL)
                [] what.verb = "FINGER" -> Send(c, Cmd("WHERE", what.of))
                [] what.verb = "WHERE"  -> Send(c, Cmd("INFO", what.of))
                [] what.verb = "INFO"   -> [c EXCEPT !.told = {<<what.of, c.info>>}, !.info = {}]
                [] OTHER                -> c
  IN  IF c.info # {} /\ c.block = {} THEN Fault(c)
      ELSE [(IF c.info = {} THEN c ELSE next) EXCEPT !.block = {}]

(* "You are a member of": each is asked for its members, in the order they are named. *)
AskedWhat(c, chats, order) ==
  IF ~c.sock /\ chats # {} THEN Fault(c)
  ELSE [c EXCEPT !.member = @ \cup chats,
                 !.out = @ \o [i \in DOMAIN order |-> Cmd("what", order[i])]]

(* The answer to #$# what: the room is joined, and gets a window. *)
GotWhat(c, chat) == [c EXCEPT !.rooms = @ \cup {chat}, !.windows = @ \cup {chat}]

(* A room that is left or destroyed is joined again, the one while it has a window
   and the other in any case. *)
GotQuit(c, chat) ==
  LET left == [c EXCEPT !.member = @ \ {chat}, !.rooms = @ \ {chat}]
  IN  IF chat \in c.rooms /\ chat \in c.windows
      THEN [left EXCEPT !.joins = @ \cup {chat}] ELSE left

(* Here ismember is left alone. *)
GotDestroy(c, chat) ==
  IF chat \notin c.rooms THEN c
  ELSE [c EXCEPT !.rooms = @ \ {chat}, !.windows = @ \cup {chat}, !.joins = @ \cup {chat}]

(* Mutant: one who disconnects is not taken off again. *)
GotPresenceStays(c, event, p) == [c EXCEPT !.online = @ \cup {p}]

(* Every event shows that its source is online.  The %USER line of one who connects
   has come before it. *)
GotPresence(c, event, p) ==
  LET new == CASE event \in {"away", "detach"} -> "away"
               [] event \in {"here", "attach"} -> "here"
               [] event = "disconnect"         -> "offline"
               [] event = "connect" -> IF c.states[p] \in {"none", "offline"} THEN "here" ELSE c.states[p]
  IN  IF c.states[p] = "none" /\ event # "connect" THEN c
      ELSE [c EXCEPT !.states[p] = new,
                     !.online = IF event = "disconnect" THEN @ \ {p} ELSE @ \cup {p}]

LilyReceive ==
  /\ MayCommand /\ lily.mail # <<>>
  /\ LET m == Head(lily.mail)
         c == [lily EXCEPT !.mail = Tail(@)]
     IN  IF m.kind = "members"
         THEN \E order \in SetToSeqs(m.chats) : lily' = AskedWhat(c, m.chats, order)
         ELSE lily' = CASE m.kind = "sync"      -> Synced(c, m.states)
                        [] m.kind = "connected" -> GotConnected(c)
                        [] m.kind = "begin"     -> [c EXCEPT !.block = {m.cmd}]
                        [] m.kind = "text"      -> Text(c)
                        [] m.kind = "end"       -> End(c)
                        [] m.kind = "data"      -> GotWhat(c, m.chat)
                        [] m.kind = "join"      -> Send([c EXCEPT !.member = @ \cup {m.chat}],
                                                        Cmd("what", m.chat))
                        [] m.kind = "quit"      -> GotQuit(c, m.chat)
                        [] m.kind = "destroy"   -> GotDestroy(c, m.chat)
                        [] m.kind = "depermit"  -> Fault(c)   \* the second target is number 0, no one
                        [] OTHER                -> GotPresence(c, m.kind, m.who)
  /\ UNCHANGED <<host, manner>>

-----------------------------------------------------------------------------
LilyNext ==
  \/ LilyConnect \/ LilyDisconnect \/ SendWord \/ Preselect \/ SendBreaks \/ LilyPollError
  \/ \E p \in People : GetInfo(p)
  \/ \E c \in Chats : LilyJoin(c) \/ LilyClose(c)
  \/ Synchronizes \/ CommandArrives \/ PersonMoves \/ ChatDestroyed \/ PeopleDepermitted
  \/ LilyReceive

LilySpec == LilyInit /\ [][LilyNext]_lilyVars

-----------------------------------------------------------------------------
LilyTypeOK ==
  /\ lily \in Lily
  /\ host \in [up : BOOLEAN, in : SUBSET Chats, discs : SUBSET Chats,
               states : [People -> Presence]]
  /\ manner \subseteq Manner

LilyQuiet ==
  /\ lily.session = "on" /\ lily.sock /\ ~lily.fault
  /\ lily.out = <<>> /\ lily.mail = <<>> /\ lily.joins = {}

(* No line of the server and no command fails an assertion, unless another command
   is given (of one word, or about someone else) while one is told of a person, a
   session is lost meanwhile, the socket is closed by a failed send, or several
   people are depermitted at once. *)
NoLilyFault ==
  lily.fault => \/ manner \cap {"overlaps", "breaks", "depermits"} # {}
                \/ {"whois", "loses"} \subseteq manner

(* What is told of a person is about that person and no one else, unless two are
   asked about at once, or a session is lost in the middle of an answer: what has
   been told by then is told again of the next one. *)
InfoIsHis ==
  manner \cap {"overlaps", "loses"} = {} => \A t \in lily.told : t[2] = {t[1]}

(* Once nothing is under way, the wrapper's rooms and the driver's are those one
   is in, through lost sessions, rejoins and rooms left: unless one is left before
   it is joined, and but for ismember of a room that was destroyed. *)
LilyRooms ==
  LilyQuiet /\ "hasty" \notin manner =>
    /\ lily.rooms = host.in
    /\ lily.member = host.in \/ "destroys" \in manner

(* Nor is anyone shown here or away who is not: unless a session was lost, since a
   later synchronization does not change the state of one who is in the table
   already.  One who detaches is away, and offline to who signs on later. *)
LilyPresence ==
  LilyQuiet /\ "loses" \notin manner =>
    \A p \in People :
      LET is == host.states[p]
      IN  /\ is \in {"here", "away"} => lily.states[p] = is /\ p \in lily.online
          /\ is = "detached" => lily.states[p] \in {"away", "offline"}
          /\ is = "gone" => lily.states[p] \in {"none", "offline"} /\ p \notin lily.online

(* People are told of as they are, and one is in the rooms that one seems to be in
   (InfoIsHis, LilyPresence, LilyRooms). *)
LilyAgrees == InfoIsHis /\ LilyPresence /\ LilyRooms
=============================================================================

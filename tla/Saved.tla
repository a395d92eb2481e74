-------------------------------- MODULE Saved --------------------------------
(***************************************************************************)
(* /save and .naimrc: what is kept over an exit.                           *)
(*                                                                         *)
(* /save writes commands, and the next start reads them as if they were    *)
(* typed.  So whatever is kept goes out through ua_save's quoting and back *)
(* through the splitting of a line into arguments, and then through the    *)
(* commands that made it in the first place.  A text is a sequence of      *)
(* words, blanks and quotes.                                               *)
(***************************************************************************)
EXTENDS Integers, Sequences, FiniteSetsExt, TLC
LOCAL INSTANCE SequencesExt

CONSTANTS
  Networks,    \* labels of connections
  Home,        \* the one there is at first
  Settings,    \* variables of rc_var_s_ar and rc_var_i_ar
  Presets,     \* their values at the start
  KeyPresets,  \* the keys' scripts at the start
  Replacements,\* the filters at the start
  Inputs,      \* lines that may be typed
  MaxInputs    \* bound on the lines typed

Space == " "
Quote == "\""
NoText == <<"unset">>    \* NULL; no text is this one
FrontConn == "front"        \* no connection named: the one in front
AwayMsg == <<"awaymsg">>

VarNames == {<<v>> : v \in Settings} \cup {<<n, ":", v>> : n \in Networks, v \in Settings \cup {"password"}}
            \cup {AwayMsg}

ASSUME SavedAssumption ==
  /\ MaxInputs \in Nat /\ Home \in Networks /\ {FrontConn, "dummy"} \cap Networks = {}
  /\ DOMAIN Presets = {<<v>> : v \in Settings} \cup {AwayMsg}

VARIABLES
  client,   \* what there is to be kept
  kept,     \* history: client as it was when the file was written, or None
  rcfile,   \* the lines of .naimrc that are no comments
  typed     \* lines typed so far

savedVars == <<client, kept, rcfile, typed>>

None == [none |-> TRUE]
-----------------------------------------------------------------------------
(* grabword and pullword: a word is what is up to a blank that is not between quotes, and
   loses its quotes wherever they are. *)
Skipped(s) == SubSeq(s, Min({i \in 1..(Len(s) + 1) : i > Len(s) \/ s[i] # Space}), Len(s))
Odd(s, i)  == Cardinality({j \in 1..(i - 1) : s[j] = Quote}) % 2 = 1
WordEnd(s) == Min({i \in 1..(Len(s) + 1) : i > Len(s) \/ (s[i] = Space /\ ~Odd(s, i))})
Grabbed(s) == SelectSeq(SubSeq(s, 1, WordEnd(s) - 1), LAMBDA w : w # Quote)
Pulled(s)  == Skipped(SubSeq(s, WordEnd(s), Len(s)))

(* naim.call: the last argument there can be is all that is left. *)
Args(s, max) ==
  LET pull[n \in 0..(max - 1)] ==
        IF n = 0 THEN [got |-> <<>>, rest |-> Skipped(s)]
        ELSE LET e == pull[n - 1]
             IN IF e.rest = <<>> THEN e
                ELSE [got |-> Append(e.got, Grabbed(e.rest)), rest |-> Pulled(e.rest)]
      e == pull[max - 1]
  IN IF e.rest = <<>> THEN e.got ELSE Append(e.got, e.rest)

(* The commands that are written, and the most arguments they take. *)
MaxArgs == [c \in {"set", "addbuddy", "filter", "connect"} |-> 3]
       @@  [c \in {"newconn", "ignore", "block", "join", "msg", "alias", "bind"} |-> 2]
       @@  [c \in {"winlist", "away", "open"} |-> 1]

Cmd(conn, cmd, text) == [conn |-> conn, cmd |-> cmd, text |-> text]
-----------------------------------------------------------------------------
Connection(n) ==
  [label |-> n, buddies |-> {}, idiots |-> {}, rooms |-> {}, queued |-> {},
   sn |-> NoText, server |-> NoText, state |-> "off"]

AtStart(n) ==
  [winlist |-> "auto", away |-> FALSE, aliases |-> {}, filters |-> Replacements,
   bound |-> KeyPresets,
   vars |-> [v \in VarNames |-> IF v \in DOMAIN Presets THEN Presets[v] ELSE NoText],
   conns |-> <<Connection(n)>>]

SavedInit ==
  /\ client = AtStart(Home)
  /\ kept = None /\ rcfile = <<>> /\ typed = 0

(* What is known under a name is replaced. *)
Known(set, n)    == {e \in set : e.name = n}
Replaced(set, e) == (set \ Known(set, e.name)) \cup {e}

Labelled(cl, n) == {i \in DOMAIN cl.conns : IF n = FrontConn THEN i = 1 ELSE cl.conns[i].label = n}
SetConn(cl, i, c) == [cl EXCEPT !.conns[i] = c]

NewConnCmd(cl, a) ==
  IF Len(a) # 2 \/ \E i \in DOMAIN cl.conns : <<cl.conns[i].label>> = a[1] THEN cl
  ELSE [cl EXCEPT !.conns = <<Connection(a[1][1])>> \o Tail(cl.conns) \o <<Head(cl.conns)>>]

SetCmd(cl, a) == IF Len(a) = 2 /\ a[1] \in VarNames THEN [cl EXCEPT !.vars[a[1]] = a[2]] ELSE cl

(* /filter replace: a table is emptied, an entry removed, or one put in. *)
FilterCmd(cl, a) ==
  [cl EXCEPT !.filters =
     IF Len(a) = 3 THEN Replaced(@, [name |-> a[2], to |-> a[3]])
     ELSE IF a[2] = <<":flush">> THEN {}
     ELSE IF a[2][1] = "-" THEN @ \ Known(@, Tail(a[2])) ELSE @]

(* A message goes with others, and starts the away time only without one. *)
AwayCmd(cl, a) ==
  IF a = <<>> THEN [cl EXCEPT !.away = ~@]
  ELSE [cl EXCEPT !.away = TRUE, !.vars[AwayMsg] = a[1]]

AddBuddyCmd(c, a) ==
  [c EXCEPT !.buddies = Replaced(@, [name |-> a[1], group |-> IF Len(a) > 1 THEN a[2] ELSE <<"Buddy">>,
                                     real |-> IF Len(a) > 2 THEN a[3] ELSE <<>>])]

Blocked(c, n) == [c EXCEPT !.idiots = Replaced(@, [name |-> n, notes |-> <<"block">>])]
IgnoreCmd(c, a) ==
  IF Len(a) = 2 /\ a[2] = <<"block">> THEN Blocked(c, a[1])
  ELSE [c EXCEPT !.idiots = Replaced(@, [name |-> a[1],
                              notes |-> IF Len(a) > 1 THEN a[2] ELSE <<"There is no reason">>])]

(* A room that one is in is not touched; the key that is known is kept. *)
JoinCmd(c, a) ==
  LET old == Known(c.rooms, a[1])
  IN IF c.state = "on" /\ old # {} THEN c
     ELSE [c EXCEPT !.rooms = Replaced(@, [name |-> a[1],
             key |-> IF Len(a) > 1 THEN a[2]
                     ELSE IF old # {} THEN (CHOOSE r \in old : TRUE).key ELSE NoText])]

(* A window for a buddy, who may be new. *)
OpenCmd(c, a) ==
  IF Known(c.queued, a[1]) # {} THEN c
  ELSE [(IF Known(c.buddies, a[1]) = {} THEN AddBuddyCmd(c, <<a[1], <<"User">>>>) ELSE c)
          EXCEPT !.queued = @ \cup {[name |-> a[1], texts |-> <<>>]}]

(* Whoever has a window and is messaged is absent: the message waits there. *)
MsgCmd(c, a) ==
  [c EXCEPT !.queued = IF Known(@, a[1]) = {} THEN @
     ELSE Replaced(@, [name |-> a[1],
                       texts |-> Append((CHOOSE w \in Known(@, a[1]) : TRUE).texts, a[2])])]

(* One name with a dot is taken for a server. *)
LooksLikeServer(n) == Contains(n, ".") /\ ~Contains(n, "@")
ConnectCmd(c, a) ==
  LET d == IF Len(a) = 1 /\ LooksLikeServer(a[1])
           THEN IF c.sn = NoText THEN c ELSE [c EXCEPT !.server = a[1]]
           ELSE [c EXCEPT !.sn = IF a = <<>> THEN @ ELSE a[1],
                          !.server = IF Len(a) < 2 THEN @ ELSE a[2]]
  IN IF c.state = "on" THEN c
     ELSE IF d.sn = NoText \/ (d = c /\ a # <<>> /\ d.sn # a[1]) THEN d
     ELSE [d EXCEPT !.state = "trying"]

(* ua_handlecmd: the command that a line is. *)
RunCmd(cl, line) ==
  LET a == Args(line.text, MaxArgs[line.cmd])
      i == CHOOSE j \in Labelled(cl, line.conn) : TRUE
      c == cl.conns[i]
  IN CASE Labelled(cl, line.conn) = {} -> cl
       [] line.cmd = "newconn"  -> NewConnCmd(cl, a)
       [] line.cmd = "set"      -> SetCmd(cl, a)
       [] line.cmd = "filter"   -> FilterCmd(cl, a)
       [] line.cmd = "away"     -> AwayCmd(cl, a)
       [] line.cmd = "winlist"  -> [cl EXCEPT !.winlist = a[1][1]]
       [] line.cmd = "alias"    -> [cl EXCEPT !.aliases = Replaced(@, [name |-> a[1], script |-> a[2]])]
       [] line.cmd = "bind"     -> [cl EXCEPT !.bound = Replaced(@, [name |-> a[1], script |-> a[2]])]
       [] line.cmd = "addbuddy" -> SetConn(cl, i, AddBuddyCmd(c, a))
       [] line.cmd = "block"    -> SetConn(cl, i, Blocked(c, a[1]))
       [] line.cmd = "ignore"   -> SetConn(cl, i, IgnoreCmd(c, a))
       [] line.cmd = "join"     -> SetConn(cl, i, JoinCmd(c, a))
       [] line.cmd = "open"     -> SetConn(cl, i, OpenCmd(c, a))
       [] line.cmd = "msg"      -> SetConn(cl, i, MsgCmd(c, a))
       [] line.cmd = "connect"  -> SetConn(cl, i, ConnectCmd(c, a))
-----------------------------------------------------------------------------
(* ua_save.  Only blanks make it quote a text, and for some an empty one does. *)
WithQuotes(q, s)  == IF q THEN <<Quote>> \o s \o <<Quote>> ELSE s
Quoted(s)      == WithQuotes(Contains(s, Space), s)
QuotedEmpty(s) == WithQuotes(s = <<>> \/ Contains(s, Space), s)
Words(a, b)    == a \o <<Space>> \o b
Each(set, Commands(_)) ==
  LET each[s \in SUBSET set] ==
        IF s = {} THEN <<>> ELSE LET e == CHOOSE e \in s : TRUE IN Commands(e) \o each[s \ {e}]
  IN each[set]

Permanent(b) == b.group # <<"User">>

SavedVar(cl, v) ==
  IF cl.vars[v] = Presets[v] THEN <<>>
  ELSE <<Cmd(FrontConn, "set", Words(v, QuotedEmpty(cl.vars[v])))>>
SavedBuddy(n, b) ==
  IF ~Permanent(b) THEN <<>>
  ELSE <<Cmd(n, "addbuddy", Words(Words(Quoted(b.name), QuotedEmpty(b.group)), b.real))>>
SavedIdiot(n, g) ==
  IF g.notes = <<"block">> THEN <<Cmd(n, "block", g.name)>>
  ELSE <<Cmd(n, "ignore", Words(Quoted(g.name), g.notes))>>
SavedRoom(n, r) ==
  IF r.name[1] = ":" THEN <<>>
  ELSE <<Cmd(n, "join", IF r.key = NoText THEN Quoted(r.name) ELSE Words(Quoted(r.name), r.key))>>
SavedQueue(n, w) ==
  IF w.texts = <<>> THEN <<>>
  ELSE <<Cmd(n, "open", w.name)>>
         \o [i \in DOMAIN w.texts |-> Cmd(n, "msg", Words(WithQuotes(TRUE, w.name), w.texts[i]))]

(* A variable of a connection is written if it differs from the one of all. *)
Own(n, v) == <<n, ":", v>>
SavedOwn(cl, n, v) ==
  IF cl.vars[Own(n, v)] \in {NoText, cl.vars[<<v>>]} THEN <<>>
  ELSE <<Cmd(FrontConn, "set", Words(Own(n, v), QuotedEmpty(cl.vars[Own(n, v)])))>>

(* Whether it is to be connected is asked of the connection that /save was typed in. *)
SavedConn(cl, c) ==
  LET n == c.label
      pass == cl.vars[Own(n, "password")]
  IN <<Cmd(FrontConn, "newconn", <<n, Space, "IRC">>)>>
     \o Each(c.buddies, LAMBDA b : SavedBuddy(n, b))
     \o Each(c.idiots, LAMBDA g : SavedIdiot(n, g))
     \o Each(c.rooms, LAMBDA r : SavedRoom(n, r))
     \o Each(c.queued, LAMBDA w : SavedQueue(n, w))
     \o Each(Settings, LAMBDA v : SavedOwn(cl, n, v))
     \o (IF pass = NoText THEN <<>> ELSE <<Cmd(FrontConn, "set", Words(Own(n, "password"), Quoted(pass)))>>)
     \o (IF c.sn = NoText \/ cl.conns[1].state # "on" THEN <<>>
         ELSE <<Cmd(n, "connect",
                  IF c.server = NoText THEN Quoted(c.sn) ELSE Words(Quoted(c.sn), c.server))>>)

ConfigFile(cl) ==
  (IF cl.winlist = "auto" THEN <<>> ELSE <<Cmd(FrontConn, "winlist", <<cl.winlist>>)>>)
  \o Each(DOMAIN Presets, LAMBDA v : SavedVar(cl, v))
  \o Each(cl.bound \ KeyPresets, LAMBDA b : <<Cmd(FrontConn, "bind", Words(b.name, b.script))>>)
  \o (IF cl.away THEN <<Cmd(FrontConn, "away", <<>>)>> ELSE <<>>)
  \o Each(cl.aliases, LAMBDA a : <<Cmd(FrontConn, "alias", Words(a.name, a.script))>>)
  \o <<Cmd(FrontConn, "filter", <<"replace", Space, ":flush">>)>>
  \o Each(cl.filters, LAMBDA f : <<Cmd(FrontConn, "filter", Words(Words(<<"replace">>, f.name), f.to))>>)
  \o FlattenSeq([i \in DOMAIN cl.conns |-> SavedConn(cl, cl.conns[i])])
-----------------------------------------------------------------------------
TypedLine(line) ==
  /\ typed < MaxInputs /\ typed' = typed + 1
  /\ client' = RunCmd(client, line) /\ UNCHANGED <<kept, rcfile>>

(* A connection that was tried comes up, or one that is up is lost. *)
StateChanges(i, from, to) ==
  /\ client.conns[i].state = from
  /\ client' = [client EXCEPT !.conns[i].state = to] /\ UNCHANGED <<kept, rcfile, typed>>

(* One file is written: a bound. *)
Save ==
  /\ kept = None
  /\ rcfile' = ConfigFile(client) /\ kept' = client /\ UNCHANGED <<client, typed>>

ReadConfig(cl) ==
  LET read[i \in 0..Len(rcfile)] == IF i = 0 THEN cl ELSE RunCmd(read[i - 1], rcfile[i])
  IN read[Len(rcfile)]

(* The start makes a connection for what the file does before it makes its own, and
   deletes it if there is another. *)
NextStart ==
  LET cl == ReadConfig(AtStart("dummy"))
      own == SelectSeq(cl.conns, LAMBDA c : c.label # "dummy")
  IN IF Len(cl.conns) = 1 THEN cl ELSE [cl EXCEPT !.conns = own]

(* An exit, which may save, and the next start. *)
Restart == kept # None /\ client' = NextStart /\ UNCHANGED <<kept, rcfile, typed>>

Load ==
  /\ kept # None /\ typed < MaxInputs /\ typed' = typed + 1
  /\ client' = ReadConfig(client) /\ UNCHANGED <<kept, rcfile>>

SavedNext ==
  \/ \E line \in Inputs : TypedLine(line)
  \/ \E i \in DOMAIN client.conns : 
       StateChanges(i, "trying", "on") \/ StateChanges(i, "trying", "off") \/ StateChanges(i, "on", "off")
  \/ Save \/ Restart \/ Load
-----------------------------------------------------------------------------
SavedTypeOK ==
  /\ client.winlist \in {"auto", "visible", "hidden"} /\ client.away \in BOOLEAN
  /\ DOMAIN client.vars = VarNames /\ client.conns # <<>>
  /\ \A i \in DOMAIN client.conns : client.conns[i].state \in {"off", "trying", "on"}
  /\ typed \in 0..MaxInputs

ValueOf(cl, n, v) == IF cl.vars[Own(n, v)] # NoText THEN cl.vars[Own(n, v)] ELSE cl.vars[<<v>>]
Of(cl, n) == cl.conns[CHOOSE i \in Labelled(cl, n) : TRUE]

(* What a connection is to be after the next start.  An ignored person who is blocked must
   have no blank in the name; and the connection is brought up again if the one was up
   that /save was typed in. *)
ConnRestored(was, now, n) ==
  LET w == Of(was, n)
      c == Of(now, n)
      waiting == {q \in w.queued : q.texts # <<>>}
      plain(set) == {g \in set : g.notes # <<"block">> \/ ~Contains(g.name, Space)}
  IN /\ c.buddies = {b \in w.buddies : Permanent(b) \/ Known(waiting, b.name) # {}}
     /\ plain(w.idiots) \subseteq c.idiots
     /\ c.queued = waiting
     /\ c.rooms = {r \in w.rooms : r.name[1] # ":"}
     /\ \A v \in Settings : ValueOf(now, n, v) = ValueOf(was, n, v)
     /\ now.vars[Own(n, "password")] = was.vars[Own(n, "password")]
     /\ c.state = "trying" => c.sn = w.sn /\ c.server = w.server
     /\ c.state = "trying" <=>
          was.conns[1].state = "on" /\ w.sn # NoText

(* What /save writes, the next start restores: settings, keys, aliases, filters, the away
   mark, and each connection with its lists, rooms and queued messages.  But an away
   message with quotes loses them. *)
SaveRestores ==
  Restart =>
    /\ client'.winlist = kept.winlist /\ client'.away = kept.away
    /\ client'.aliases = kept.aliases /\ client'.filters = kept.filters
    /\ client'.bound = kept.bound
    /\ \A v \in DOMAIN Presets : ~Contains(kept.vars[v], Quote) => client'.vars[v] = kept.vars[v]
    /\ Len(client'.conns) = Len(kept.conns)
    /\ \A i \in DOMAIN kept.conns :
         /\ client'.conns[(i % Len(kept.conns)) + 1].label = kept.conns[i].label
         /\ ConnRestored(kept, client', kept.conns[i].label)

(* To load what was just saved changes nothing, but that messages are queued once more,
   one who is away comes back, and those who were blocked with a blank in the name. *)
LoadChangesNothing ==
  Load /\ kept = client =>
    LET same(c) == [c EXCEPT !.queued = {}, !.idiots = {}, !.state = ""]
    IN /\ client'.away = FALSE
       /\ [client' EXCEPT !.away = client.away, !.conns = <<>>, !.vars[AwayMsg] = <<>>]
            = [client EXCEPT !.conns = <<>>, !.vars[AwayMsg] = <<>>]
       /\ Len(client'.conns) = Len(client.conns)
       /\ \A i \in DOMAIN client.conns : same(client'.conns[i]) = same(client.conns[i])

SavedStep == SaveRestores /\ LoadChangesNothing
=============================================================================

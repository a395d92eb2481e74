------------------------------ MODULE MCParts ------------------------------
(***************************************************************************)
(* The parts of client and wrapper that share no state with one another,   *)
(* checked side by side: each behaviour is one of one part, while the      *)
(* others stay as one of their initial states.                             *)
(***************************************************************************)
EXTENDS TLC, LineBuffer, Subcodes, Autopeer, Windows, Connections, Hooks,
        Away, Timers, Commands, LineEditor, Saved, Markup, LuaSockets

VARIABLE part   \* constant: the part that runs

Parts == {"lines", "subcodes", "peers", "windows", "connections", "hooks",
          "away", "timers", "commands", "editor", "saved", "markup",
          "sockets"}

partVars == <<part, lineVars, subcodeVars, peerVars, windowVars,
              connectionVars, hookVars, awayVars, timerVars, commandVars,
              editorVars, savedVars, markupVars, socketVars>>

MCOptions ==
  {[autopeer |-> TRUE, autocrypt |-> c, autobuddy |-> FALSE] : c \in BOOLEAN}
    \cup {[autopeer |-> FALSE, autocrypt |-> TRUE, autobuddy |-> TRUE]}

MCKinds == [c \in Conns |-> IF c = CHOOSE d \in Conns : TRUE
                            THEN {<<"BUDDY", 1>>, <<"CHAT", 2>>, <<"BUDDY", 3>>}
                            ELSE {<<"TRANSFER", 2>>}]

MCTexts   == {<<>>, <<"x">>, <<"y">>}
MCWeight  == [f \in Functions |-> IF f = CHOOSE g \in Functions : TRUE THEN 2 ELSE 1]
MCManners == {[inCall |-> a, twice |-> FALSE] : a \in BOOLEAN} \cup {[inCall |-> FALSE, twice |-> TRUE]}

Ordinary == [autounaway |-> FALSE, autoidle |-> TRUE, autounidle |-> TRUE,
             autoaway |-> 2, autoreply |-> 1]
MCHabits == {Ordinary, [Ordinary EXCEPT !.autounaway = TRUE],
             [Ordinary EXCEPT !.autoaway = 0], [Ordinary EXCEPT !.autounidle = FALSE]}

(* Commands that may be typed, and the commands there are. *)
W(t) == [var |-> 0, text |-> t]
V(i) == [var |-> i, text |-> ""]
Piece(n, args) == [to |-> NoPlace, bare |-> FALSE, name |-> n, args |-> args]
BarePiece(n, args) == [Piece(n, args) EXCEPT !.bare = TRUE]
ToSome(p) == [p EXCEPT !.to = CHOOSE c \in Places : TRUE]
MCBuiltins == "say"   :> [min |-> 1, max |-> 1, where |-> "window"]
           @@ "op"    :> [min |-> 1, max |-> 1, where |-> "chat"]
           @@ "jump"  :> [min |-> 0, max |-> 1, where |-> "anywhere"]
           @@ "close" :> [min |-> 0, max |-> 1, where |-> "window"]
MCLines == {Piece("say", <<W("a")>>), Piece("al", <<W("a"), W("b")>>), Piece("op", <<W("a")>>),
            Piece("jump", <<>>), Piece("close", <<>>),
            ToSome(Piece("say", <<W("b")>>)), ToSome(Piece("op", <<W("a")>>))}
MCScripts == {<<BarePiece("say", <<V(1)>>), Piece("jump", <<>>)>>,
              <<Piece("say", <<V(2)>>), Piece("op", <<V(1)>>)>>,
              <<Piece("al", <<V(1), W("c")>>), Piece("say", <<V(1), V(2)>>)>>}

(* What is typed, and what was before. *)
MCEntity    == <<"&", ";">>
MCTag       == <<"<", ">">>
MCDrafts    == {<<>>, <<"a", "a">>, <<"a", " ", "a">>}
MCHistories == {<<>>, <<<<"a", "b">>>>}

(* What is typed before a /save: texts with blanks, quotes, or nothing in them, to each
   kind of thing that is kept. *)
MCPresets == <<"autosort">> :> <<"2">> @@ <<"im_prefix">> :> <<>> @@ AwayMsg :> <<"gone">>
MCKeyPresets == {[name |-> <<"F1">>, script |-> <<"/help">>]}
MCReplacements == {[name |-> <<"u">>, to |-> <<"you">>]}
Cmds(c, texts) == {Cmd(FrontConn, c, t) : t \in texts}
JohnDoe == <<Quote, "j", Space, "d", Quote>>
MCInputs == UNION
  {Cmds("set", {<<"autosort", Space, "0">>, <<"im_prefix", Space, Quote, "x", Space, "y", Quote>>,
                <<"net", ":", "im_prefix", Space, Quote, Quote>>,
                <<"net", ":", "autosort", Space, "2">>, <<"net", ":", "password", Space, "z">>}),
   Cmds("away", {<<"o", Quote, "x", Space, "y", Quote>>, <<>>}),
   Cmds("newconn", {<<"net", Space, "IRC">>}), Cmds("winlist", {<<"hidden">>}),
   Cmds("alias", {<<"al", Space, "/", Quote, "x", Quote>>}),
   Cmds("bind", {<<"F1", Space, "/", "x", Space, "y">>}),
   Cmds("filter", {<<"replace", Space, "-", "u">>,
                   <<"replace", Space, "r", Space, "are", Space, "we">>}),
   Cmds("addbuddy", {JohnDoe \o <<Space, Quote, Quote, Space, "x", Space, "y">>, <<"a">>}),
   Cmds("block", {JohnDoe}),
   Cmds("ignore", {JohnDoe \o <<Space, "x", Space, "y">>, <<"a", Space, "block">>}),
   Cmds("join", {<<Quote, "c", Space, "d", Quote, Space, "key">>, <<":", "raw">>}),
   Cmds("open", {<<"j", Space, "d">>}), Cmds("msg", {JohnDoe \o <<Space, "x", Quote>>}),
   Cmds("connect", {<<Quote, "m", Space, "e", Quote, Space, "irc", ":", "1">>,
                    <<"n", ".", "m">>, <<"n", ".", "m", Space, "irc">>})}

(* What is drawn: fonts and bodies, links, and words that wrap. *)
AScene(ts, max, cols) ==
  [tokens |-> ts, max |-> max, width |-> cols, colour |-> TRUE, wraps |-> FALSE]
WrapScene(ts, max, cols) == [AScene(ts, max, cols) EXCEPT !.wraps = TRUE]
MCScenes ==
  {AScene({"<font dark>", "</font>", "<body bg>", "</body>", "<b>", "</b>"}, 5, 8),
   AScene({"<font bright>", "<font>", "<body>", "</font>", "</body>"}, 4, 8),
   [AScene({"<font dark>", "</font>", "<body bg>", "</body>"}, 3, 8) EXCEPT !.colour = FALSE],
   AScene({"a", "url", "<a>", "</a>", "<u>", "</u>"}, 4, 20),
   AScene({"<i>", "</i>", "<img>", "<hr>", "<p>", "&lt;"}, 3, 20),
   WrapScene({"a", "c", " ", "<br>"}, 6, 5), WrapScene({"a", " "}, 10, 7),
   WrapScene({"a", "&", "&nbsp;", " "}, 6, 6)}
MCSlots == {[Base EXCEPT !.pair = "other", !.inbold = TRUE] @@ [body |-> TRUE]}

Init ==
  /\ part \in Parts
  /\ LinesInit /\ SubcodesInit /\ ConnectionsInit /\ TimersInit /\ SocketsInit
  /\ PeersInit
  /\ part # "peers" =>
       \A e \in Ends : peers[e] = Unknown(FALSE) /\ option[e] = CHOOSE o \in Options : TRUE
  /\ WindowsInit /\ (part # "windows" => autosort = 0 /\ conns[1] = CHOOSE c \in Conns : TRUE)
  /\ HooksInit /\ (part # "hooks" => ~manner.inCall /\ ~manner.twice)
  /\ AwayInit /\ (part # "away" => habit = Ordinary)
  /\ CommandsInit
  /\ part # "commands" =>
       curplace = (CHOOSE c \in Places : TRUE) /\ \A c \in Places : curkind[c] = "none"
  /\ EditorInit /\ (part # "editor" => histar = <<NoLine>> /\ bufloc = 0)
  /\ SavedInit
  /\ MarkupInit /\ (part # "markup" => scene = CHOOSE t \in Scenes : TRUE)

OthersStay ==
  /\ part # "lines"       => UNCHANGED lineVars
  /\ part # "subcodes"    => UNCHANGED subcodeVars
  /\ part # "peers"       => UNCHANGED peerVars
  /\ part # "windows"     => UNCHANGED windowVars
  /\ part # "connections" => UNCHANGED connectionVars
  /\ part # "hooks"       => UNCHANGED hookVars
  /\ part # "away"        => UNCHANGED awayVars
  /\ part # "timers"      => UNCHANGED timerVars
  /\ part # "commands"    => UNCHANGED commandVars
  /\ part # "editor"      => UNCHANGED editorVars
  /\ part # "saved"       => UNCHANGED savedVars
  /\ part # "markup"      => UNCHANGED markupVars
  /\ part # "sockets"     => UNCHANGED socketVars
  /\ UNCHANGED part

Next ==
  \/ part = "lines"       /\ LinesNext       /\ OthersStay
  \/ part = "subcodes"    /\ SubcodesNext    /\ OthersStay
  \/ part = "peers"       /\ PeersNext       /\ OthersStay
  \/ part = "windows"     /\ WindowsNext     /\ OthersStay
  \/ part = "connections" /\ ConnectionsNext /\ OthersStay
  \/ part = "hooks"       /\ HooksNext       /\ OthersStay
  \/ part = "away"        /\ AwayNext        /\ OthersStay
  \/ part = "timers"      /\ TimersNext      /\ OthersStay
  \/ part = "commands"    /\ CommandsNext    /\ OthersStay
  \/ part = "editor"      /\ EditorNext      /\ OthersStay
  \/ part = "saved"       /\ SavedNext       /\ OthersStay
  \/ part = "markup"      /\ MarkupNext      /\ OthersStay
  \/ part = "sockets"     /\ SocketsNext     /\ OthersStay

Spec == Init /\ [][Next]_partVars

(* The variables of the part that runs keep their types; the others' do not change. *)
PartsTypeOK ==
  CASE part = "lines"       -> LinesTypeOK
    [] part = "subcodes"    -> SubcodesTypeOK
    [] part = "peers"       -> PeersTypeOK
    [] part = "windows"     -> WindowsTypeOK
    [] part = "connections" -> ConnectionsTypeOK
    [] part = "hooks"       -> HooksTypeOK
    [] part = "away"        -> AwayTypeOK
    [] part = "timers"      -> TimersTypeOK
    [] part = "commands"    -> CommandsTypeOK
    [] part = "editor"      -> EditorTypeOK
    [] part = "saved"       -> SavedTypeOK
    [] part = "markup"      -> MarkupTypeOK
    [] part = "sockets"     -> SocketsTypeOK

(* No part fails an assertion or uses what is freed: but for what DrainGoesOn,
   DocryptHasKey, FreedOnlyByItself and HitsInside name. *)
NoAssertionFails == DrainGoesOn /\ DocryptHasKey /\ FreedOnlyByItself /\ HitsInside

(* Each line of a stream is handled, in order, once, and at once, however irc_recv_parse
   gets it from the buffer (LinesOfStream, NoLineWaits), and each FLAP of one, but when
   naim.buffer loses a part of it (FlapsInOrder, NoFlapWaits), whose end is told
   (LossIsTold); subcodes that are queued for a person reach him in order, none twice,
   none in a later session (SubcodesInOrder, NoStaleSubcode). *)
ArriveInOrder ==
  /\ LinesOfStream /\ NoLineWaits
  /\ SubcodesInOrder /\ NoStaleSubcode
  /\ FlapsInOrder /\ NoFlapWaits /\ LossIsTold

(* Two ends of a conversation agree about keys, and what either shows is what the other
   typed (ShownAsTyped, KeysAgree). *)
PeersUnderstand == ShownAsTyped /\ KeysAgree

(* The rings of windows and connections stay whole and in order, /jump finds what waits,
   and select comes to every connection once (RingsInOrder, JumpFindsWaiting, Registered,
   ServedOnce). *)
RingsKept ==
  CASE part = "windows"     -> RingsInOrder /\ JumpFindsWaiting
    [] part = "connections" -> Registered /\ ServedOnce
    [] OTHER                -> TRUE

(* Nothing but the user changes what is in front of him; his commands close, delete and
   go back to what they should; aliases see their arguments, and commands that need a
   window have one; keys change the line he sees; what he saves comes back;
   texts are shown whole, each with its own looks (FrontStays,
   BackAndForth, StaleAreClosed, ListsSurviveExit, ParmsOfTheAlias, NullWhereNotFront,
   EditorStep, SavedStep, MarkupRight). *)
InTheUsersHands ==
  [][CASE part = "windows"     -> WindowsStep
       [] part = "connections" -> ListsSurviveExit
       [] part = "commands"    -> ParmsOfTheAlias' /\ NullWhereNotFront
       [] part = "editor"      -> EditorStep
       [] part = "saved"       -> SavedStep
       [] part = "markup"      -> MarkupRight'
       [] OTHER                -> TRUE]_partVars

(* Each hook of a chain is called once, by its weight, with its own function and with
   what the one before returned (CalledOnce, HooksKeepTheirs, MessageAsReturned); timers
   are called when they are due, a timeout once (TimersStep). *)
ScriptsCalled ==
  [][CASE part = "hooks"  -> (CalledOnce /\ HooksKeepTheirs /\ MessageAsReturned)'
       [] part = "timers" -> TimersStep
       [] OTHER           -> TRUE]_partVars

(* What servers, profiles and people are told of one's absence is true, and told in
   measure (AwayAsShown, ProfileOfTheAway, AnswersPaced, TimerSparesTheActive). *)
AwayIsTold == [][part = "away" => AwayAsShown' /\ AwayStep]_partVars
=============================================================================

-------------------------------- MODULE Toc2 --------------------------------
(***************************************************************************)
(* A TOC2 session: the frames of toc2.c, its sign-on, and the buddy list   *)
(* that is kept three times: by the wrapper (with the flag uploaded), in   *)
(* the driver's batch of additions (buddybuf), and by the server, which    *)
(* sends its own at every sign-on and tells of changes made from           *)
(* elsewhere.                                                              *)
(*                                                                         *)
(* One buddy is followed, who may be in any of the groups.  As in Session, *)
(* a handler is one step, a frame of the read buffer is one step, and the  *)
(* operators take the connection and give the one a function leaves.       *)
(***************************************************************************)
EXTENDS Integers, Sequences, SequencesExt

CONSTANTS
  Groups,      \* groups of the buddy list
  NoGroup,     \* for a buddy who is not in the wrapper's list
  MaxFrames,   \* bound: frames under way
  Worlds       \* sets of what may happen, one of them in each behaviour

(* "early": buddies are added and removed during the sign-on; "hasty": and twice
   between two calls of select(); "pauses": the server sends PAUSE; "nickLast":
   and NICK after CONFIG2; "foreign": it may greet with a version that is not ours;
   "sendsFail": send() may fail. *)
Doings == {"early", "hasty", "pauses", "nickLast", "foreign", "sendsFail"}

ASSUME Toc2Assumption ==
  /\ NoGroup \notin Groups
  /\ MaxFrames \in Nat \ {0}
  /\ Worlds \subseteq SUBSET Doings

VARIABLES
  toc,     \* the connection: client, wrapper, driver, what is under way, server
  world    \* constant: what may happen

tocVars == <<toc, world>>

Frame ==
  {f \in
  [kind : {"flap", "SIGN_ON", "ERROR", "NICK", "CONFIG2", "PAUSE", "INSERTED2",
           "DELETED2", "other",
           "keepalive",    \* a frame of another type than DATA
           "bad"},         \* out of sequence, or longer than any may be
   groups : SUBSET Groups, \* CONFIG2: where the buddy is; INSERTED2, DELETED2: where to
   old  : BOOLEAN] :       \* of an earlier connection
   f.kind = "INSERTED2" => f.groups # {}}

Toc ==
  [online    : {-1, 0, 1},  auto : BOOLEAN,
   connected : {"NOTCONNECTED", "WAITING_SIGNON", "ACTIVE"},
   sock      : {"NOTCONNECTED", "WAITING_SYNACK", "WAITING_SIGNON", "ACTIVE"},
   connectstate : 0..3,
   gotconfig : BOOLEAN,
   sync      : {"this", "old"},   \* the connection that remote_sequence counts in
   frames    : Seq(Frame),        \* in the read buffer
   pc        : {"select", "connecting", "data"},   \* the loop over them
   buddy     : [group : Groups \cup {NoGroup}, uploaded : BOOLEAN],
   buddybuf  : Seq(Groups),       \* groups he is to be added to
   stored    : SUBSET Groups,     \* groups he is in at the server
   mail      : Seq(Frame),        \* frames under way
   server    : {"off", "greet", "greeted", "login", "signed", "half", "on", "refused", "lost"},
   fault     : BOOLEAN]           \* a failed assertion has ended the program

TocInit ==
  /\ world \in Worlds
  /\ \E a \in BOOLEAN, g \in Groups \cup {NoGroup}, s \in {{}} \cup {{h} : h \in Groups} :
       toc = [online |-> 0, auto |-> a, connected |-> "NOTCONNECTED",
              sock |-> "NOTCONNECTED", connectstate |-> 0, gotconfig |-> FALSE,
              sync |-> "this", frames |-> <<>>, pc |-> "select",
              buddy |-> [group |-> g, uploaded |-> FALSE], buddybuf |-> <<>>,
              stored |-> s, mail |-> <<>>, server |-> "off", fault |-> FALSE]

Listed(t) == t.buddy.group # NoGroup

-----------------------------------------------------------------------------
(* What reaches the server: requests sent once it has taken the password. *)

Reaches(t) ==
  t.sock \in {"WAITING_SIGNON", "ACTIVE"} /\ t.server \in {"signed", "half", "on"}

SendRemove(t, g) == IF Reaches(t) THEN [t EXCEPT !.stored = @ \ {g}] ELSE t

SockClose(t) == [t EXCEPT !.sock = "NOTCONNECTED", !.mail = <<>>, !.server = "off"]

(* toc_conn_t_dtor, then _ctor. *)
Renew(t) ==
  [SockClose(t) EXCEPT !.connectstate = 0, !.gotconfig = FALSE, !.sync = "this",
                       !.frames = <<>>, !.buddybuf = <<>>]

(* What is in the read buffer stays there, and is now of an old connection. *)
SockConnect(t, resolved) ==
  [SockClose(t) EXCEPT !.sock = IF resolved THEN "WAITING_SYNACK" ELSE "NOTCONNECTED",
                       !.sync = "old",
                       !.frames = [i \in DOMAIN @ |-> [@[i] EXCEPT !.old = TRUE]]]

(* firetalk_disconnect and toc_internal_disconnect.  The handlers hear nothing,
   since the wrapper has already set connected. *)
FtDisconnect(t) ==
  IF t.connected = "NOTCONNECTED" THEN t
  ELSE [Renew(t) EXCEPT !.connected = "NOTCONNECTED", !.buddy.uploaded = FALSE]

(* firetalk_signon and toc_connect. *)
FtSignon(t, resolved) ==
  SockConnect([FtDisconnect(t) EXCEPT !.connected = "WAITING_SIGNON"], resolved)

UaConnect(t, resolved) == IF t.online > 0 THEN t ELSE FtSignon(t, resolved)

(* firetalk_callback_disconnect, with fireio_disconnected in it: that may sign on
   again before the callback has set connected. *)
CallbackDisconnect(t, resolved) ==
  LET cleared == [t EXCEPT !.buddy.uploaded = FALSE]
      lost    == [cleared EXCEPT !.online = -1]
  IN  [IF t.connected # "ACTIVE" THEN cleared
       ELSE IF t.auto THEN UaConnect(lost, resolved)
       ELSE lost
         EXCEPT !.connected = "NOTCONNECTED"]

(* Mutant: the connection is left as it is. *)
InternalDisconnectBare(t, resolved) == CallbackDisconnect(t, resolved)

(* toc_internal_disconnect out of the driver: the connection is made anew first. *)
InternalDisconnect(t, resolved) == CallbackDisconnect(Renew(t), resolved)

(* Neither the socket nor the flags of the buddies are touched. *)
CallbackConnectFailed(t, badUser, resolved) ==
  LET failed == [t EXCEPT !.connected = "NOTCONNECTED"]
  IN  IF t.connected # "NOTCONNECTED" /\ badUser THEN UaConnect(failed, resolved) ELSE failed

-----------------------------------------------------------------------------
(* The buddy list, as the wrapper keeps it. *)

(* firetalk_im_replace_buddy or firetalk_im_insert_buddy. *)
Placed(t, g) ==
  LET moved == IF t.connected # "NOTCONNECTED" /\ t.buddy.uploaded /\ t.buddy.group # g
               THEN SendRemove(t, t.buddy.group) ELSE t
  IN  IF Listed(t) THEN [moved EXCEPT !.buddy.group = g]
      ELSE [t EXCEPT !.buddy = [group |-> g, uploaded |-> FALSE]]

(* toc_im_add_buddy: into the batch, once the server's list is known. *)
ImAddBuddy(t, g) == IF t.gotconfig THEN [t EXCEPT !.buddybuf = Append(@, g)] ELSE t

(* firetalk_callback_buddyadded: this comes from the server, so nothing is sent. *)
CallbackBuddyAdded(t, g) ==
  [Placed([t EXCEPT !.buddy.uploaded = FALSE], g) EXCEPT !.buddy.uploaded = TRUE]

CallbackBuddyRemoved(t, g) ==
  IF t.buddy.group # g THEN t
  ELSE [t EXCEPT !.buddy = [group |-> NoGroup, uploaded |-> FALSE]]

(* CONFIG2, group after group: each takes the place of the one before.  A buddy that is
   uploaded already is taken out of where he was: meant for one who is listed twice. *)
GotConfig(t, groups) ==
  LET last  == CHOOSE g \in groups : TRUE
      taken == (groups \ {last}) \cup (IF Listed(t) /\ t.buddy.uploaded THEN {t.buddy.group} ELSE {})
  IN  [IF groups = {} THEN t
       ELSE [t EXCEPT !.stored = IF Reaches(t) THEN @ \ taken ELSE @,
                      !.buddy  = [group |-> last, uploaded |-> TRUE]]
         EXCEPT !.gotconfig = TRUE]

(* Mutant: all buddies are uploaded, those that CONFIG2 has brought as well. *)
UploadAll(t) ==
  IF Listed(t) THEN [ImAddBuddy(t, t.buddy.group) EXCEPT !.buddy.uploaded = FALSE] ELSE t

(* The loop over the buddies at the end of the sign-on. *)
Upload(t) ==
  IF Listed(t) /\ ~t.buddy.uploaded
  THEN [ImAddBuddy(t, t.buddy.group) EXCEPT !.buddy.uploaded = TRUE]
  ELSE t

(* toc_preselect: the batch goes out before every wait. *)
Flushed(t) ==
  [t EXCEPT !.stored = IF Reaches(t) THEN @ \cup ToSet(t.buddybuf) ELSE @,
            !.buddybuf = <<>>]

-----------------------------------------------------------------------------
(* The user, between two calls of firetalk_select. *)

Selecting == toc.pc = "select" /\ ~toc.fault

News(t) == \E f \in ToSet(t.mail) \cup ToSet(t.frames) : f.kind \in {"INSERTED2", "DELETED2"}

UserConnect ==
  /\ Selecting
  /\ \E resolved \in BOOLEAN : toc' = UaConnect(toc, resolved)
  /\ UNCHANGED world

UserDisconnect ==
  /\ Selecting
  /\ toc' = [IF toc.online > 0 THEN FtDisconnect(toc) ELSE toc EXCEPT !.online = 0]
  /\ UNCHANGED world

(* Unless in a world where that is not so, lists are not changed in the middle of
   a sign-on, nor twice between two calls; and not while news is under way. *)
MayList ==
  /\ Selecting /\ ~News(toc)
  /\ toc.connected = "WAITING_SIGNON" => "early" \in world
  /\ toc.buddybuf # <<>> => "hasty" \in world /\ Len(toc.buddybuf) < MaxFrames

(* firetalk_im_add_buddy: whatever the driver has done with it, he is marked as
   uploaded. *)
UserAddBuddy(g) ==
  /\ MayList
  /\ toc' = IF toc.connected = "NOTCONNECTED" THEN Placed(toc, g)
            ELSE [ImAddBuddy(Placed(toc, g), g) EXCEPT !.buddy.uploaded = TRUE]
  /\ UNCHANGED world

(* firetalk_im_remove_buddy: a request that cannot be sent leaves him listed. *)
UserRemoveBuddy ==
  /\ MayList /\ Listed(toc)
  /\ ~(toc.connected # "NOTCONNECTED" /\ toc.sock = "NOTCONNECTED")
  /\ toc' = [(IF toc.connected # "NOTCONNECTED" THEN SendRemove(toc, toc.buddy.group) ELSE toc)
               EXCEPT !.buddy = [group |-> NoGroup, uploaded |-> FALSE]]
  /\ UNCHANGED world

(* A command whose request cannot be sent: the socket is closed, and no one told. *)
UserSendFails ==
  /\ Selecting /\ "sendsFail" \in world
  /\ toc.connected # "NOTCONNECTED" /\ toc.sock \in {"WAITING_SIGNON", "ACTIVE"}
  /\ toc' = SockClose(toc)
  /\ UNCHANGED world

-----------------------------------------------------------------------------
(* The server. *)

Note(kind, groups) == [kind |-> kind, groups |-> groups, old |-> FALSE]

Sends(kind, groups, phase) ==
  /\ Len(toc.mail) + Len(toc.frames) < MaxFrames
  /\ toc' = [toc EXCEPT !.mail = Append(@, Note(kind, groups)), !.server = phase]
  /\ UNCHANGED world

SignsOn ==
  LET order == IF "nickLast" \in world THEN <<"CONFIG2", "NICK">> ELSE <<"NICK", "CONFIG2">>
      sends(k, phase) == Sends(k, IF k = "CONFIG2" THEN toc.stored ELSE {}, phase)
  IN  \/ toc.server = "greet"  /\ Sends("flap", {}, "greeted")
      \/ toc.server = "login"  /\ Sends("SIGN_ON", {}, "signed")
      \/ toc.server = "login"  /\ Sends("ERROR", {}, "refused")
      \/ toc.server = "signed" /\ sends(order[1], "half")
      \/ toc.server = "half"   /\ sends(order[2], "on")

Chatters ==
  \/ toc.server = "on" /\ Sends("other", {}, "on")
  \/ toc.server \in {"greeted", "signed", "on"} /\ \E k \in {"keepalive", "bad"} : Sends(k, {}, toc.server)
  \/ toc.server = "on" /\ "pauses" \in world /\ Sends("PAUSE", {}, "login")

(* The list is changed from elsewhere, and not just while this client does: one
   is moved in either order. *)
ChangedElsewhere ==
  /\ toc.server = "off" \/ (toc.server = "on" /\ toc.connected = "ACTIVE")
  /\ toc.mail = <<>> /\ toc.buddybuf = <<>> /\ ~News(toc)
  /\ \E new \in {{}} \cup {{g} : g \in Groups} :
       LET added == [i \in {1} |-> Note("INSERTED2", new)]
           gone  == [i \in {1} |-> Note("DELETED2", toc.stored)]
       IN  /\ new # toc.stored
           /\ \E news \in IF toc.server = "off" THEN {<<>>}
                          ELSE IF toc.stored = {} THEN {added}
                          ELSE IF new = {} THEN {gone}
                          ELSE {added \o gone, gone \o added} :
                toc' = [toc EXCEPT !.stored = new, !.mail = news]
  /\ UNCHANGED world

PeerLost ==
  /\ toc.server \notin {"off", "lost"}
  /\ toc' = [toc EXCEPT !.server = "lost"]
  /\ UNCHANGED world

-----------------------------------------------------------------------------
(* toc_preselect and toc_postselect. *)

PollError ==
  /\ Selecting
  /\ toc.sock = "WAITING_SYNACK" \/ (toc.sock # "NOTCONNECTED" /\ toc.server = "lost")
  /\ \E resolved \in BOOLEAN :
       toc' = IF toc.sock = "ACTIVE"
              THEN CallbackDisconnect(SockClose(Flushed(toc)), resolved)
              ELSE CallbackConnectFailed(SockClose(Flushed(toc)), FALSE, resolved)
  /\ UNCHANGED world

PollSynack ==
  /\ Selecting /\ toc.sock = "WAITING_SYNACK"
  /\ toc' = [Flushed(toc) EXCEPT !.sock = "WAITING_SIGNON", !.server = "greet",
                                 !.connectstate = 0, !.gotconfig = FALSE]
  /\ UNCHANGED world

PollData ==
  /\ Selecting /\ toc.sock \in {"WAITING_SIGNON", "ACTIVE"}
  /\ \E n \in 1..Len(toc.mail) :
       toc' = [Flushed(toc) EXCEPT
                 !.frames = @ \o SubSeq(toc.mail, 1, n),
                 !.mail = SubSeq(@, n + 1, Len(@)),
                 !.pc = IF toc.sock = "ACTIVE" THEN "data" ELSE "connecting"]
  /\ UNCHANGED world

(* Nothing has come. *)
PollNothing ==
  /\ Selecting /\ toc.buddybuf # <<>>
  /\ toc' = Flushed(toc)
  /\ UNCHANGED world

-----------------------------------------------------------------------------
(* One frame of the read buffer: toc_find_packet, and then the loop. *)

Parsing(pc) == toc.pc = pc /\ ~toc.fault

Rest == [toc EXCEPT !.frames = Tail(@)]

First == Head(toc.frames)

Return(t)   == toc' = [t EXCEPT !.pc = "select"] /\ UNCHANGED world
Continue(t) == toc' = t /\ UNCHANGED world

(* The first frame sets the count, and the others must follow it. *)
OutOfStep ==
  \/ First.kind = "bad"
  \/ ~(toc.pc = "connecting" /\ toc.connectstate = 0) /\ First.old # (toc.sync = "old")

Counted ==
  IF toc.pc = "connecting" /\ toc.connectstate = 0
  THEN [Rest EXCEPT !.sync = IF First.old THEN "old" ELSE "this"]
  ELSE Rest

(* A frame of another type than is waited for is taken out, and ends the loop. *)
OtherType ==
  First.kind = "keepalive"
    \/ (First.kind = "flap") # (toc.pc = "connecting" /\ toc.connectstate = 0)

NoFrame ==
  /\ toc.pc # "select" /\ ~toc.fault /\ toc.frames = <<>>
  /\ Return(toc)

FrameOutOfStep ==
  /\ toc.pc # "select" /\ ~toc.fault /\ toc.frames # <<>> /\ OutOfStep
  /\ \E resolved \in BOOLEAN : Return(InternalDisconnect(Rest, resolved))

FrameOfOtherType ==
  /\ toc.pc # "select" /\ ~toc.fault /\ toc.frames # <<>> /\ ~OutOfStep /\ OtherType
  /\ Return(Counted)

(* The end of the sign-on.  The last request but one is looked at, the last one
   not: if that closes the socket, it is marked active without a descriptor. *)
Online(t) ==
  LET ready == Upload([t EXCEPT !.connected = "WAITING_SIGNON"])
  IN  \/ Return([ready EXCEPT !.sock = "ACTIVE", !.connected = "ACTIVE", !.online = 1])
      \/ "sendsFail" \in world /\ Return(CallbackConnectFailed(SockClose(ready), FALSE, TRUE))
      \/ "sendsFail" \in world /\ Return([SockClose(ready) EXCEPT !.fault = TRUE])

(* The server's version; a server that is not ours may have another. *)
Greeted ==
  \/ Continue([Counted EXCEPT !.connectstate = 1,
                 !.server = IF @ = "greeted" THEN "login" ELSE @])
  \/ "foreign" \in world /\ Return(CallbackConnectFailed(Counted, FALSE, TRUE))

(* toc_got_data_connecting. *)
ConnectingFrame ==
  /\ Parsing("connecting") /\ toc.frames # <<>> /\ ~OutOfStep /\ ~OtherType
  /\ CASE toc.connectstate = 0 -> Greeted
       [] toc.connectstate = 1 ->
            IF First.kind = "SIGN_ON" THEN Continue([Rest EXCEPT !.connectstate = 2])
            ELSE \E badUser \in BOOLEAN, resolved \in BOOLEAN :
                   /\ badUser => First.kind = "ERROR"
                   /\ Return(CallbackConnectFailed(Rest, badUser, resolved))
       [] toc.connectstate \in {2, 3} ->
            LET t == IF First.kind = "NICK" THEN [Rest EXCEPT !.connectstate = 3]
                     ELSE GotConfig(Rest, First.groups)
            IN  IF First.kind \notin {"NICK", "CONFIG2"}
                THEN Return(CallbackConnectFailed(Rest, FALSE, TRUE))
                ELSE IF t.gotconfig /\ t.connectstate = 3 THEN Online(t)
                ELSE Continue(t)

(* toc_got_data.  PAUSE changes the state and not the loop. *)
DataFrame ==
  /\ Parsing("data") /\ toc.frames # <<>> /\ ~OutOfStep /\ ~OtherType
  /\ Continue(
       CASE First.kind = "PAUSE"     -> [Rest EXCEPT !.connectstate = 1, !.sock = "WAITING_SIGNON"]
         [] First.kind = "INSERTED2" -> CallbackBuddyAdded(Rest, CHOOSE g \in First.groups : TRUE)
         [] First.kind = "DELETED2"  -> CallbackBuddyRemoved(Rest, CHOOSE g \in First.groups : TRUE)
         [] OTHER                    -> Rest)

-----------------------------------------------------------------------------
TocNext ==
  \/ UserConnect \/ UserDisconnect \/ UserRemoveBuddy \/ UserSendFails
  \/ \E g \in Groups : UserAddBuddy(g)
  \/ SignsOn \/ Chatters \/ ChangedElsewhere \/ PeerLost
  \/ PollError \/ PollSynack \/ PollData \/ PollNothing
  \/ NoFrame \/ FrameOutOfStep \/ FrameOfOtherType \/ ConnectingFrame \/ DataFrame

TocSpec == TocInit /\ [][TocNext]_tocVars

-----------------------------------------------------------------------------
TocTypeOK == toc \in Toc /\ world \subseteq Doings

(* Unless the server pauses the session or sends fail, client, wrapper and driver
   agree on whether it is up, whatever frames come in whatever order. *)
TocLayersAgree ==
  world \cap {"pauses", "sendsFail"} = {} =>
    /\ toc.online > 0 <=> toc.connected = "ACTIVE"
    /\ toc.connected = "ACTIVE" <=> toc.sock = "ACTIVE"

(* Once nothing is under way, the buddy is at the server where the wrapper has
   him, through lost sessions and changes from elsewhere: if nobody changes the
   list during a sign-on or twice at once, and the server sends CONFIG2 last and
   once in a session. *)
ListsAgree ==
  /\ world = {}
  /\ toc.connected = "ACTIVE" /\ toc.server = "on" /\ ~toc.fault
  /\ toc.mail = <<>> /\ toc.frames = <<>> /\ toc.buddybuf = <<>>
  => toc.stored = {toc.buddy.group} \ {NoGroup}
=============================================================================

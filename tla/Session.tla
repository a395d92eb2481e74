------------------------------ MODULE Session ------------------------------
(***************************************************************************)
(* One naim connection window and the IRC session behind it.               *)
(*                                                                         *)
(* Three layers each keep their own idea of whether the session is up:     *)
(*                                                                         *)
(*   the client    conn_t.online                  src/, include/naim       *)
(*   the wrapper   firetalk_connection_t.connected   libfiretalk/firetalk.c *)
(*   the driver    irc_conn_t.sock and .buffer    libfiretalk/irc.c, pdutil.c *)
(*                                                                         *)
(* They call each other in both directions: a command goes down through    *)
(* firetalk_signon and firetalk_disconnect, a socket event comes up through *)
(* the firetalk_callback_ functions, and the client's handler for a lost   *)
(* session calls down again, to reconnect, before the callback that        *)
(* reported the loss has returned.  The program is one thread around       *)
(* select(), so each handler is one step; the interleavings are those of   *)
(* the user's commands, the timer, the peer and the network.  The lines    *)
(* of one read are handled one by one, with nothing in between, so a loop  *)
(* over them is several steps during which pc is not "select".             *)
(***************************************************************************)
EXTENDS Integers

CONSTANTS
  SendsFail,           \* send() may take less than it is given
  ConnectFailsAtOnce,  \* connect() may fail with an error other than EINPROGRESS
  Tls,                 \* the server was given as host?tls
  Orderly,             \* the server refuses before its MOTD ends, ends it once, and sends no line
                       \* longer than any may be
  MaxPending           \* bound: whole lines waiting in the read buffer

ASSUME SessionAssumption ==
  /\ {SendsFail, ConnectFailsAtOnce, Tls, Orderly} \subseteq BOOLEAN
  /\ MaxPending \in Nat \ {0}

VARIABLES
  conn,  \* the connection, a record with the fields of the three layers
  pc     \* "select", or the loop now draining the read buffer

vars == <<conn, pc>>

SockStates == {"NOTCONNECTED", "WAITING_SYNACK", "WAITING_STARTTLS",
               "SEND_SIGNON", "WAITING_SIGNON", "ACTIVE"}

Conn ==
  [online    : {-1, 0, 1},   \* -1 lost, 0 closed or never opened, 1 stands for a time
   auto      : BOOLEAN,      \* $autoreconnect
   scripts   : BOOLEAN,      \* what the proto_connected and proto_disconnected chains last said
   connected : {"NOTCONNECTED", "WAITING_SIGNON", "ACTIVE"},
   roster    : BOOLEAN,      \* the wrapper holds rooms or online buddies of a session
   sock      : SockStates,
   fd        : BOOLEAN,      \* sock.fd /= -1
   tls       : {"none", "this", "old"},  \* sock.tls, and whether it was made for this fd
   pending   : 0..MaxPending,            \* whole lines in the buffer
   frag      : BOOLEAN,                  \* the start of a line in the buffer
   peer      : {"open", "closed", "broken"}]  \* what the next recv() will meet

Init ==
  /\ \E a \in BOOLEAN :
       conn = [online |-> 0, auto |-> a, scripts |-> FALSE,
               connected |-> "NOTCONNECTED", roster |-> FALSE,
               sock |-> "NOTCONNECTED", fd |-> FALSE, tls |-> "none",
               pending |-> 0, frag |-> FALSE, peer |-> "open"]
  /\ pc = "select"

-----------------------------------------------------------------------------
(* The outcomes the network can give a send() and a connect(). *)

SendOutcome == IF SendsFail THEN BOOLEAN ELSE {TRUE}

ConnectOutcome == {"started", "unresolved"}
                    \cup (IF ConnectFailsAtOnce THEN {"failed"} ELSE {})

(* firetalk_sock_t_valid: every routine of the socket asserts it on entry, so
   outside it the process is dead and the operators below are the identity. *)
Valid(c) == c.fd <=> c.sock # "NOTCONNECTED"

SockClose(c) ==
  IF Valid(c)
  THEN [c EXCEPT !.sock = "NOTCONNECTED", !.fd = FALSE, !.tls = "none",
                 !.peer = "open"]
  ELSE c

(* Before the TCP or the TLS handshake is over a send() is dropped, and called
   a success; afterwards a short one closes the socket, and the caller,
   irc_send_printf, does not look. *)
SendPrintf(c, sent) ==
  IF c.sock \in {"NOTCONNECTED", "WAITING_SYNACK", "WAITING_STARTTLS"} \/ sent
  THEN c
  ELSE SockClose(c)

(* Mutant: the state is set before the name is resolved. *)
SockConnectEarlyState(c, out) ==
  [c EXCEPT !.sock = "WAITING_SYNACK", !.fd = out # "unresolved",
            !.tls  = IF c.tls = "none" THEN "none" ELSE "old",
            !.peer = "open"]

(* A descriptor still open is closed here without its TLS context.  A connect()
   that fails at once leaves a descriptor in a socket marked NOTCONNECTED. *)
SockConnect(c, out) ==
  IF ~Valid(c)
  THEN c
  ELSE [c EXCEPT !.sock = IF out = "started" THEN "WAITING_SYNACK"
                                             ELSE "NOTCONNECTED",
                 !.fd   = out # "unresolved",
                 !.tls  = IF c.tls = "none" THEN "none" ELSE "old",
                 !.peer = "open"]

(* irc_conn_t_dtor, then _ctor: the read buffer goes with the rest. *)
Renew(c) ==
  IF Valid(c) THEN [c EXCEPT !.pending = 0, !.frag = FALSE] ELSE c

-----------------------------------------------------------------------------
(* Ending a session from above: firetalk_disconnect and what it calls. *)

(* What fireio_disconnected and the scripts on its chain make of a loss. *)
MarkLost(c) == [c EXCEPT !.online = -1, !.scripts = FALSE]

(* firetalk_callback_disconnect with FE_USERDISCONNECT, which never reconnects.
   (With any other error it may, and is CallbackDisconnect below.) *)
CallbackUserDisconnect(c) ==
  LET cleared  == [c EXCEPT !.roster = FALSE]
      notified == IF c.connected = "ACTIVE" THEN MarkLost(cleared) ELSE cleared
  IN  [notified EXCEPT !.connected = "NOTCONNECTED"]

(* Mutant: QUIT is sent, and the server's answer waited for. *)
IrcDisconnectQuitOnly(c, sent) == SendPrintf(c, sent)

IrcDisconnect(c, sent) ==
  LET quit == SendPrintf(c, sent)
      told == IF quit.sock # "NOTCONNECTED" THEN CallbackUserDisconnect(quit)
                                            ELSE quit
  IN  Renew(SockClose(told))

(* Mutant: the wrapper leaves its own state to the driver's callback. *)
FtDisconnectByCallback(c, sent) ==
  IF c.connected = "NOTCONNECTED" THEN c ELSE IrcDisconnect(c, sent)

FtDisconnect(c, sent) ==
  IF c.connected = "NOTCONNECTED"
  THEN c
  ELSE IrcDisconnect([c EXCEPT !.connected = "NOTCONNECTED"], sent)

-----------------------------------------------------------------------------
(* Starting one: /connect and firetalk_signon. *)

FtSignon(c, sent, out) ==
  SockConnect([FtDisconnect(c, sent) EXCEPT !.connected = "WAITING_SIGNON"], out)

(* Mutant: /connect while online goes ahead. *)
UaConnectAnyway(c, sent, out) == FtSignon(c, sent, out)

UaConnect(c, sent, out) == IF c.online > 0 THEN c ELSE FtSignon(c, sent, out)

-----------------------------------------------------------------------------
(* Callbacks out of the driver, each with what the client does in it. *)

FireioDisconnected(c, sent, out) ==
  IF c.auto THEN UaConnect(MarkLost(c), sent, out) ELSE MarkLost(c)

(* Mutant: the state is left for the client's handler to set. *)
CallbackDisconnectStaysActive(c, sent, out) ==
  IF c.connected = "ACTIVE"
  THEN FireioDisconnected([c EXCEPT !.roster = FALSE], sent, out)
  ELSE [c EXCEPT !.roster = FALSE, !.connected = "NOTCONNECTED"]

(* Mutant: a session that was never up is reported lost. *)
CallbackDisconnectAlwaysTells(c, sent, out) ==
  [FireioDisconnected([c EXCEPT !.roster = FALSE], sent, out)
     EXCEPT !.connected = "NOTCONNECTED"]

CallbackDisconnect(c, sent, out) ==
  LET cleared  == [c EXCEPT !.roster = FALSE]
      notified == IF c.connected = "ACTIVE"
                  THEN FireioDisconnected(cleared, sent, out)
                  ELSE cleared
  IN  [notified EXCEPT !.connected = "NOTCONNECTED"]

InternalDisconnect(c, sent, out) ==
  LET told == IF c.sock # "NOTCONNECTED" THEN CallbackDisconnect(c, sent, out)
                                         ELSE c
  IN  Renew(SockClose(told))

(* FE_BADUSER makes the client try another name at once. *)
CallbackConnectFailed(c, badUser, sent, out) ==
  LET failed == [c EXCEPT !.connected = "NOTCONNECTED"]
  IN  IF c.connected = "NOTCONNECTED" THEN c
      ELSE IF badUser THEN UaConnect(failed, sent, out) ELSE failed

(* fireio_doinit's away message, if it is sent, fails or not on its own. *)
CallbackDoinit(c, sent) ==
  SendPrintf([c EXCEPT !.connected = "WAITING_SIGNON"], sent)

(* fireio_connected leaves online alone when it is already set. *)
CallbackConnected(c) ==
  [c EXCEPT !.connected = "ACTIVE", !.online = 1, !.scripts = TRUE]

-----------------------------------------------------------------------------
(* The user's commands and the timer, taken between two calls of
   firetalk_select; a failed assertion has ended the process before them. *)

Selecting == pc = "select" /\ Valid(conn)

UserConnect ==
  /\ Selecting
  /\ \E sent \in SendOutcome, out \in ConnectOutcome :
       conn' = UaConnect(conn, sent, out)
  /\ UNCHANGED pc

(* Mutant: the proto_disconnected chain is not called. *)
UserDisconnectUntold ==
  /\ Selecting
  /\ \E sent \in SendOutcome :
       conn' = [(IF conn.online > 0 THEN FtDisconnect(conn, sent) ELSE conn)
                  EXCEPT !.online = 0]
  /\ UNCHANGED pc

(* Only while online does /disconnect reach the wrapper, and only if that says
   there was something to end does it tell the scripts. *)
UserDisconnect ==
  /\ Selecting
  /\ \E sent \in SendOutcome :
       LET ended == FtDisconnect(conn, sent)
       IN  conn' = IF conn.online > 0 /\ conn.connected # "NOTCONNECTED"
                   THEN [ended EXCEPT !.online = 0, !.scripts = FALSE]
                   ELSE [conn EXCEPT !.online = 0]
  /\ UNCHANGED pc

UserSetAutoreconnect ==
  /\ Selecting
  /\ conn' = [conn EXCEPT !.auto = ~conn.auto]
  /\ UNCHANGED pc

(* Any command that sends a line, the one time in many the send fails; a message to :RAW
   is let through whatever connected says. *)
UserSend ==
  /\ Selecting
  /\ SendsFail
  /\ conn' = SendPrintf(conn, FALSE)
  /\ UNCHANGED pc

(* Once a minute: events_autoreconnect. *)
Periodic ==
  /\ Selecting
  /\ conn.online = -1
  /\ conn.auto
  /\ \E sent \in SendOutcome, out \in ConnectOutcome :
       conn' = UaConnect(conn, sent, out)
  /\ UNCHANGED pc

-----------------------------------------------------------------------------
(* The peer's end of stream, or a reset, becomes what the next recv() meets. *)
PeerLost ==
  /\ Valid(conn)
  /\ conn.sock \notin {"NOTCONNECTED", "WAITING_SYNACK"}
  /\ conn.peer = "open"
  /\ \E p \in {"closed", "broken"} : conn' = [conn EXCEPT !.peer = p]
  /\ UNCHANGED pc

-----------------------------------------------------------------------------
(* irc_postselect, by what the socket reports. *)

(* irc_signon's lines, whose failure is not looked at. *)
Signon(c, sent) == [SendPrintf(c, sent) EXCEPT !.sock = "WAITING_SIGNON"]

(* The loop that drains the buffer is chosen by the state before the read. *)
Drain(c) == IF c.pending = 0 THEN "select"
            ELSE IF conn.sock = "ACTIVE" THEN "active" ELSE "connecting"

(* Mutant: the state is looked at after the socket layer has closed it. *)
PollErrorLateState ==
  /\ Selecting
  /\ \/ conn.sock \in {"WAITING_SYNACK", "WAITING_STARTTLS"}
     \/ conn.fd /\ conn.tls = "old"
     \/ conn.peer = "broken"
     \/ conn.peer = "closed" /\ conn.tls = "none"
  /\ \E sent \in SendOutcome, out \in ConnectOutcome :
       conn' = CallbackConnectFailed(SockClose(conn), FALSE, sent, out)
  /\ UNCHANGED pc

(* A failed connect() or handshake, a reset, or an end of stream: the socket
   layer closes the socket and the driver tells the wrapper.  tls_read gives 0
   at the end of a stream, which is taken for no data yet. *)
PollError ==
  /\ Selecting
  /\ \/ conn.sock \in {"WAITING_SYNACK", "WAITING_STARTTLS"}
     \/ conn.fd /\ conn.tls = "old"
     \/ conn.peer = "broken"
     \/ conn.peer = "closed" /\ conn.tls = "none"
  /\ \E sent \in SendOutcome, out \in ConnectOutcome :
       conn' = IF conn.sock = "ACTIVE"
               THEN CallbackDisconnect(SockClose(conn), sent, out)
               ELSE CallbackConnectFailed(SockClose(conn), FALSE, sent, out)
  /\ UNCHANGED pc

(* Mutant: the TLS option is forgotten. *)
PollSynackPlain ==
  /\ Selecting
  /\ conn.sock = "WAITING_SYNACK"
  /\ \E sent \in SendOutcome :
       conn' = Signon([conn EXCEPT !.sock = "SEND_SIGNON"], sent)
  /\ UNCHANGED pc

(* connect() has succeeded: start TLS, if asked to and not under way already,
   or sign on. *)
PollSynack ==
  /\ Selecting
  /\ conn.sock = "WAITING_SYNACK"
  /\ IF Tls /\ conn.tls = "none"
     THEN \/ \E s \in {"WAITING_STARTTLS", "SEND_SIGNON"} :
               conn' = [conn EXCEPT !.sock = s, !.tls = "this"]
          \/ conn' = CallbackConnectFailed(SockClose(conn), FALSE, TRUE, "started")
     ELSE \E sent \in SendOutcome :
            conn' = Signon([conn EXCEPT !.sock = "SEND_SIGNON"], sent)
  /\ UNCHANGED pc

(* A round of the handshake; what is left unfinished falls through to the
   buffer, where only lines of an earlier connection can be. *)
PollHandshake ==
  /\ Selecting
  /\ conn.sock = "WAITING_STARTTLS"
  /\ conn.peer = "open"
  /\ \/ /\ \E sent \in SendOutcome : conn' = Signon(conn, sent)
        /\ UNCHANGED pc
     \/ /\ UNCHANGED conn
        /\ pc' = Drain(conn)

(* n whole lines have come, and after them the start of one or not. *)
Received(n, f) ==
  /\ conn.tls # "old"
  /\ \/ conn.peer = "open" /\ (n = 0 => f)
     \/ conn.peer # "broken" /\ conn.tls = "this" /\ n = 0 /\ f = conn.frag

(* SEND_SIGNON is left for the next poll only by a handshake that was over at
   once.  What is read meanwhile stays in the buffer; nothing need be. *)
PollSignon ==
  /\ Selecting
  /\ conn.sock = "SEND_SIGNON"
  /\ \E n \in 0..(MaxPending - conn.pending), f \in BOOLEAN, sent \in SendOutcome :
       /\ Received(n, f) \/ (n = 0 /\ f = conn.frag)
       /\ conn' = Signon([conn EXCEPT !.pending = @ + n, !.frag = f], sent)
  /\ UNCHANGED pc

PollData ==
  /\ Selecting
  /\ conn.sock \in {"WAITING_SIGNON", "ACTIVE"}
  /\ \E n \in 0..(MaxPending - conn.pending), f \in BOOLEAN :
       /\ Received(n, f)
       /\ conn' = [conn EXCEPT !.pending = @ + n, !.frag = f]
  /\ pc' = Drain(conn')

-----------------------------------------------------------------------------
(* One line of the buffer: irc_got_data_connecting and irc_got_data, which
   hands every line to irc_got_data_parse.  In the sign-on loop most lines go
   there too, so that a reply can still be a refusal after the MOTD has ended
   in the same read. *)

Parsing == pc # "select" /\ Valid(conn)

Rest == [conn EXCEPT !.pending = @ - 1]

(* Mutant: the loop does not see that the buffer is empty. *)
ContinuePastEnd(c) == conn' = c /\ pc' = pc

(* Go on with the next line, or leave the loop with the rest in the buffer. *)
Continue(c) == conn' = c /\ pc' = (IF c.pending = 0 THEN "select" ELSE pc)
Return(c)   == conn' = c /\ pc' = "select"

(* The reply's failure is noticed one PING late, when the socket is gone; a reply that is
   too long to be sent ends the session at once. *)
PingLine ==
  /\ Parsing
  /\ IF conn.sock = "NOTCONNECTED"
     THEN Return(InternalDisconnect(Rest, TRUE, "started"))
     ELSE \E sent \in SendOutcome, out \in ConnectOutcome :
            \/ Continue(SendPrintf(Rest, sent))
            \/ ~Orderly /\ Return(InternalDisconnect(Rest, sent, out))

(* The server's word that this client has quit. *)
SelfQuitLine ==
  /\ Parsing
  /\ \E sent \in SendOutcome, out \in ConnectOutcome :
       Continue(InternalDisconnect(Rest, sent, out))

(* A JOIN of this client, or of a buddy. *)
JoinLine ==
  /\ Parsing
  /\ Continue([Rest EXCEPT !.roster = TRUE])

OtherLine ==
  /\ Parsing
  /\ Continue(Rest)

(* A line of one word ends the loop. *)
BareLine ==
  /\ Parsing
  /\ Return(Rest)

SigningOn == Parsing /\ pc = "connecting" /\ (Orderly => conn.connected # "ACTIVE")

(* 431, 432, 433, 436, 461: the nickname is not to be had. *)
RefusedLine ==
  /\ SigningOn
  /\ \E sent \in SendOutcome, out \in ConnectOutcome :
       Return(CallbackConnectFailed(SendPrintf(Rest, sent), TRUE, sent, out))

(* ERROR, and 465: the client is not wanted. *)
ErrorLine ==
  /\ SigningOn
  /\ \E sent \in SendOutcome :
       Return(CallbackConnectFailed(SendPrintf(Rest, sent), FALSE, sent, "started"))

(* 376, 422: signed on.  Then the windows' rooms are joined and HELP is asked. *)
MotdEndLine ==
  /\ SigningOn
  /\ \E away \in SendOutcome, sent \in SendOutcome :
       LET ready == [CallbackDoinit(Rest, away) EXCEPT !.sock = "ACTIVE"]
       IN  Continue(SendPrintf(CallbackConnected(ready), sent))

-----------------------------------------------------------------------------
User   == UserConnect \/ UserDisconnect \/ UserSetAutoreconnect \/ UserSend
Poll   == PollError \/ PollSynack \/ PollHandshake \/ PollSignon \/ PollData
Line   == PingLine \/ SelfQuitLine \/ JoinLine \/ OtherLine \/ BareLine
            \/ RefusedLine \/ ErrorLine \/ MotdEndLine

Next == User \/ Periodic \/ PeerLost \/ Poll \/ Line

Spec == Init /\ [][Next]_vars

(* main() calls firetalk_select for ever, select() reports a descriptor at its
   end of stream every time, and a loop over the buffer runs to its end.
   Nothing is assumed of the user, the peer or the clock. *)
Fairness ==
  /\ WF_vars(Line)
  /\ WF_vars(PollError /\ conn.peer # "open")

FairSpec == Spec /\ Fairness
-----------------------------------------------------------------------------
(* Properties. *)

(* Each field has its type: in particular the loops over the read buffer never
   take a line that is not there (irc_recv_parse). *)
TypeOK == conn \in Conn /\ pc \in {"select", "connecting", "active"}

(* While sends do not fail and the server is orderly, the three layers agree on
   whether the session is up, whichever of them ended it or brought it up. *)
LayersAgree ==
  /\ conn.online > 0 <=> conn.connected = "ACTIVE"
  /\ conn.connected = "ACTIVE" <=> conn.sock = "ACTIVE"

(* Whatever fails, the wrapper accepts a user's messages only on a session the
   client knows to be up: every end of a session that the client is not told of
   by the wrapper, it has made itself. *)
ActiveImpliesOnline == conn.connected = "ACTIVE" => conn.online > 0

(* pdutil.c asserts on every entry that a socket has a descriptor exactly when
   it has a state, so a step that ends otherwise ends the program. *)
SockValid == Valid(conn)

(* A connection attempt begins with what irc_conn_t_ctor leaves: no line and no
   part of a line in the read buffer, and no TLS context. *)
FreshConnection ==
  conn.sock = "WAITING_SYNACK" => conn.pending = 0 /\ ~conn.frag /\ conn.tls = "none"

(* With ?tls, nothing of the sign-on or the session is sent in the clear, over
   whichever descriptor a reconnection has left. *)
SignonUnderTls ==
  Tls /\ conn.fd /\ conn.sock \in {"WAITING_SIGNON", "ACTIVE"} => conn.tls # "none"

(* The client gets no second notice that it has connected: no conn->online to
   find set in fireio_connected. *)
OneConnectedNotice == [][MotdEndLine => conn.online <= 0]_vars

(* /disconnect of a session ends it in every layer, and leaves neither unread
   lines nor rooms and buddies for the next one to inherit. *)
DisconnectEndsSession ==
  [][UserDisconnect /\ conn.online > 0 =>
       /\ conn'.sock = "NOTCONNECTED"
       /\ conn'.pending = 0 /\ ~conn'.frag
       /\ ~conn'.roster]_vars

(* Only a session that was online is reported lost: a failed attempt never makes
   online -1, which would set the timer to reconnect what never was connected. *)
LostOnlyFromOnline == [][conn.online # -1 /\ conn'.online = -1 => conn.online > 0]_vars

(* A session whose peer is gone, or whose socket the driver has closed, is in the
   end known to the client as not online, so that $autoreconnect can act; unless
   a failed assertion has ended the program. *)
LossNoticed ==
  (conn.connected = "ACTIVE" /\ (conn.sock = "NOTCONNECTED" \/ conn.peer # "open"))
    ~> (conn.online <= 0 \/ ~Valid(conn))

(* The session as the windows and the scripts see it. *)
Notices == INSTANCE SessionNotices WITH
  status <- IF conn.online > 0 THEN "online" ELSE IF conn.online = 0 THEN "closed" ELSE "lost",
  told   <- conn.scripts
NoticesSpec == Notices!NoticesSpec
=============================================================================

--------------------------- MODULE SessionProofs ---------------------------
(***************************************************************************)
(* Theorems about Session, for every value of its constants.               *)
(*                                                                         *)
(* The session's operators turn one connection record into another and     *)
(* call each other, so each has a lemma for its type, in the order of the  *)
(* calls, and each action of the proof cites the one or two it uses.       *)
(***************************************************************************)
EXTENDS Session, TLAPS

-----------------------------------------------------------------------------
(* The operators keep a connection's type. *)

LEMMA SockTypes ==
  ASSUME NEW c \in Conn, NEW sent \in BOOLEAN, NEW out
  PROVE  /\ SockClose(c) \in Conn
         /\ SendPrintf(c, sent) \in Conn
         /\ SockConnect(c, out) \in Conn
         /\ Renew(c) \in Conn
         /\ MarkLost(c) \in Conn
<1>1. SockClose(c) \in Conn
  <2>1. [c EXCEPT !.sock = "NOTCONNECTED", !.fd = FALSE, !.tls = "none",
                  !.peer = "open"] \in Conn
    BY DEF Conn, SockStates
  <2> QED
    BY <2>1 DEF SockClose
<1>2. SendPrintf(c, sent) \in Conn
  BY <1>1 DEF SendPrintf
<1>3. SockConnect(c, out) \in Conn
  <2> DEFINE s == IF out = "started" THEN "WAITING_SYNACK" ELSE "NOTCONNECTED"
             f == out # "unresolved"
             t == IF c.tls = "none" THEN "none" ELSE "old"
  <2>1. s \in SockStates /\ f \in BOOLEAN /\ t \in {"none", "this", "old"}
    BY DEF SockStates
  <2>2. [c EXCEPT !.sock = s, !.fd = f, !.tls = t, !.peer = "open"] \in Conn
    <3> HIDE DEF s, f, t
    <3> QED BY <2>1 DEF Conn
  <2> QED
    BY <2>2 DEF SockConnect
<1>4. Renew(c) \in Conn
  <2>1. 0 \in 0..MaxPending
    BY SessionAssumption
  <2>2. [c EXCEPT !.pending = 0, !.frag = FALSE] \in Conn
    BY <2>1 DEF Conn
  <2> QED
    BY <2>2 DEF Renew
<1>5. MarkLost(c) \in Conn
  BY DEF MarkLost, Conn
<1> QED
  BY <1>1, <1>2, <1>3, <1>4, <1>5

LEMMA DisconnectTypes ==
  ASSUME NEW c \in Conn, NEW sent \in BOOLEAN
  PROVE  /\ CallbackUserDisconnect(c) \in Conn
         /\ IrcDisconnect(c, sent) \in Conn
         /\ FtDisconnect(c, sent) \in Conn
<1>1. ASSUME NEW d \in Conn PROVE CallbackUserDisconnect(d) \in Conn
  BY DEF CallbackUserDisconnect, MarkLost, Conn
<1>2. ASSUME NEW d \in Conn PROVE IrcDisconnect(d, sent) \in Conn
  BY <1>1, SockTypes DEF IrcDisconnect
<1>3. FtDisconnect(c, sent) \in Conn
  <2>1. [c EXCEPT !.connected = "NOTCONNECTED"] \in Conn
    BY DEF Conn
  <2> QED
    BY <2>1, <1>2 DEF FtDisconnect
<1> QED
  BY <1>1, <1>2, <1>3

LEMMA ConnectTypes ==
  ASSUME NEW c \in Conn, NEW sent \in BOOLEAN, NEW out
  PROVE  UaConnect(c, sent, out) \in Conn
<1> DEFINE d == [FtDisconnect(c, sent) EXCEPT !.connected = "WAITING_SIGNON"]
<1>1. d \in Conn
  BY DisconnectTypes DEF Conn
<1>2. SockConnect(d, out) \in Conn
  BY <1>1, SockTypes
<1> QED
  BY <1>2 DEF UaConnect, FtSignon

LEMMA CallbackTypes ==
  ASSUME NEW c \in Conn, NEW sent \in BOOLEAN, NEW out, NEW badUser \in BOOLEAN
  PROVE  /\ FireioDisconnected(c, sent, out) \in Conn
         /\ CallbackDisconnect(c, sent, out) \in Conn
         /\ InternalDisconnect(c, sent, out) \in Conn
         /\ CallbackConnectFailed(c, badUser, sent, out) \in Conn
         /\ CallbackDoinit(c, sent) \in Conn
         /\ CallbackConnected(c) \in Conn
         /\ Signon(c, sent) \in Conn
<1>1. ASSUME NEW d \in Conn PROVE FireioDisconnected(d, sent, out) \in Conn
  BY SockTypes, ConnectTypes DEF FireioDisconnected
<1>2. ASSUME NEW d \in Conn PROVE CallbackDisconnect(d, sent, out) \in Conn
  <2> DEFINE e == [d EXCEPT !.roster = FALSE]
             f == IF d.connected = "ACTIVE" THEN FireioDisconnected(e, sent, out) ELSE e
  <2>1. e \in Conn
    BY DEF Conn
  <2>2. f \in Conn
    BY <2>1, <1>1
  <2>3. [f EXCEPT !.connected = "NOTCONNECTED"] \in Conn
    <3> HIDE DEF f
    <3> QED BY <2>2 DEF Conn
  <2> QED
    BY <2>3 DEF CallbackDisconnect
<1>3. InternalDisconnect(c, sent, out) \in Conn
  BY <1>2, SockTypes DEF InternalDisconnect
<1>4. CallbackConnectFailed(c, badUser, sent, out) \in Conn
  <2>1. [c EXCEPT !.connected = "NOTCONNECTED"] \in Conn
    BY DEF Conn
  <2> QED
    BY <2>1, ConnectTypes DEF CallbackConnectFailed
<1>5. CallbackDoinit(c, sent) \in Conn
  <2>1. [c EXCEPT !.connected = "WAITING_SIGNON"] \in Conn
    BY DEF Conn
  <2> QED
    BY <2>1, SockTypes DEF CallbackDoinit
<1>6. CallbackConnected(c) \in Conn
  BY DEF CallbackConnected, Conn
<1>7. Signon(c, sent) \in Conn
  <2>1. SendPrintf(c, sent) \in Conn
    BY SockTypes
  <2> QED
    BY <2>1 DEF Signon, Conn, SockStates
<1> QED
  BY <1>1, <1>2, <1>3, <1>4, <1>5, <1>6, <1>7

-----------------------------------------------------------------------------
(* Type correctness.  A loop over the buffer takes a line without looking
   whether there is one, so the type of pending needs the strengthening that a
   loop is only under way while lines are left. *)

Typed == TypeOK /\ (pc # "select" => conn.pending > 0)

LEMMA Outcomes ==
  ASSUME NEW sent \in SendOutcome
  PROVE  sent \in BOOLEAN
BY DEF SendOutcome

LEMMA DrainTyped ==
  ASSUME NEW c \in Conn
  PROVE  /\ Drain(c) \in {"select", "connecting", "active"}
         /\ Drain(c) # "select" => c.pending > 0
BY SessionAssumption DEF Drain, Conn

(* A line taken from the buffer, then a step of a loop. *)
LEMMA RestTyped ==
  ASSUME Typed, Parsing
  PROVE  Rest \in Conn
<1>1. conn.pending - 1 \in 0..MaxPending
  BY SessionAssumption DEF Typed, TypeOK, Parsing, Conn
<1> QED
  BY <1>1 DEF Typed, TypeOK, Rest, Conn

LEMMA LoopTyped ==
  ASSUME Typed, NEW c \in Conn, Continue(c) \/ Return(c)
  PROVE  Typed'
<1>1. CASE Continue(c)
  <2>1. c.pending \in Nat
    BY SessionAssumption DEF Conn
  <2> QED
    BY <1>1, <2>1 DEF Continue, Typed, TypeOK
<1>2. CASE Return(c)
  BY <1>2 DEF Return, Typed, TypeOK
<1> QED
  BY <1>1, <1>2

LEMMA ReceivedTyped ==
  ASSUME NEW c \in Conn, NEW n \in 0..(MaxPending - c.pending), NEW f \in BOOLEAN
  PROVE  [c EXCEPT !.pending = @ + n, !.frag = f] \in Conn
<1>1. c.pending + n \in 0..MaxPending
  BY SessionAssumption DEF Conn
<1> QED
  BY <1>1 DEF Conn

LEMMA TypedInductive ==
  ASSUME Typed, [Next]_vars
  PROVE  Typed'
<1> USE DEF Typed, TypeOK
<1>u. ASSUME conn' \in Conn, UNCHANGED pc, Selecting PROVE Typed'
  BY <1>u DEF Selecting
<1>1. CASE UserConnect
  <2>1. conn' \in Conn
    BY <1>1, Outcomes, ConnectTypes DEF UserConnect
  <2> QED
    BY <1>1, <2>1, <1>u DEF UserConnect
<1>2. CASE UserDisconnect
  <2>1. PICK sent \in SendOutcome :
          conn' = IF conn.online > 0 /\ conn.connected # "NOTCONNECTED"
                  THEN [FtDisconnect(conn, sent) EXCEPT !.online = 0, !.scripts = FALSE]
                  ELSE [conn EXCEPT !.online = 0]
    BY <1>2 DEF UserDisconnect
  <2>2. FtDisconnect(conn, sent) \in Conn
    BY Outcomes, DisconnectTypes
  <2>3. [FtDisconnect(conn, sent) EXCEPT !.online = 0, !.scripts = FALSE] \in Conn
    BY <2>2 DEF Conn
  <2>4. [conn EXCEPT !.online = 0] \in Conn
    BY DEF Conn
  <2>5. conn' \in Conn
    BY <2>1, <2>3, <2>4
  <2> QED
    BY <1>2, <2>5, <1>u DEF UserDisconnect
<1>3. CASE UserSetAutoreconnect
  <2>1. conn' \in Conn
    BY <1>3 DEF UserSetAutoreconnect, Conn
  <2> QED
    BY <1>3, <2>1, <1>u DEF UserSetAutoreconnect
<1>4. CASE UserSend
  <2>1. conn' \in Conn
    BY <1>4, SockTypes DEF UserSend
  <2> QED
    BY <1>4, <2>1, <1>u DEF UserSend
<1>5. CASE Periodic
  <2>1. conn' \in Conn
    BY <1>5, Outcomes, ConnectTypes DEF Periodic
  <2> QED
    BY <1>5, <2>1, <1>u DEF Periodic
<1>6. CASE PeerLost
  <2>1. conn' \in Conn /\ conn'.pending = conn.pending
    BY <1>6 DEF PeerLost, Conn
  <2> QED
    BY <1>6, <2>1 DEF PeerLost
<1>7. CASE PollError
  <2>1. SockClose(conn) \in Conn
    BY SockTypes
  <2>2. conn' \in Conn
    BY <1>7, <2>1, Outcomes, CallbackTypes DEF PollError
  <2> QED
    BY <1>7, <2>2, <1>u DEF PollError
<1>8. CASE PollSynack
  <2>1. \A s \in {"WAITING_STARTTLS", "SEND_SIGNON"} :
          /\ [conn EXCEPT !.sock = s, !.tls = "this"] \in Conn
          /\ [conn EXCEPT !.sock = s] \in Conn
    BY DEF Conn, SockStates
  <2>2. CallbackConnectFailed(SockClose(conn), FALSE, TRUE, "started") \in Conn
    BY SockTypes, CallbackTypes
  <2>3. \A sent \in SendOutcome : Signon([conn EXCEPT !.sock = "SEND_SIGNON"], sent) \in Conn
    BY <2>1, Outcomes, CallbackTypes
  <2>4. conn' \in Conn
    BY <1>8, <2>1, <2>2, <2>3 DEF PollSynack
  <2> QED
    BY <1>8, <2>4, <1>u DEF PollSynack
<1>9. CASE PollHandshake
  <2>1. CASE UNCHANGED pc /\ \E sent \in SendOutcome : conn' = Signon(conn, sent)
    <3>1. conn' \in Conn
      BY <2>1, Outcomes, CallbackTypes
    <3> QED
      BY <1>9, <2>1, <3>1, <1>u DEF PollHandshake
  <2>2. CASE UNCHANGED conn /\ pc' = Drain(conn)
    BY <2>2, DrainTyped
  <2> QED
    BY <1>9, <2>1, <2>2 DEF PollHandshake
<1>10. CASE PollSignon
  <2>1. conn' \in Conn
    BY <1>10, ReceivedTyped, Outcomes, CallbackTypes DEF PollSignon
  <2> QED
    BY <1>10, <2>1, <1>u DEF PollSignon
<1>11. CASE PollData
  <2>0. PICK n \in 0..(MaxPending - conn.pending), f \in BOOLEAN :
          conn' = [conn EXCEPT !.pending = @ + n, !.frag = f]
    BY <1>11 DEF PollData
  <2>1. conn' \in Conn
    BY <2>0, ReceivedTyped
  <2>2. pc' = Drain(conn')
    BY <1>11 DEF PollData
  <2>3. Drain(conn') \in {"select", "connecting", "active"}
        /\ (Drain(conn') # "select" => conn'.pending > 0)
    BY <2>1 DEF Drain, Conn
  <2> QED
    BY <2>1, <2>2, <2>3
<1>12. CASE PingLine
  <2>1. Rest \in Conn
    BY <1>12, RestTyped DEF PingLine
  <2>2. CASE Return(InternalDisconnect(Rest, TRUE, "started"))
    BY <2>1, <2>2, CallbackTypes, LoopTyped
  <2>3. CASE \E sent \in SendOutcome : Continue(SendPrintf(Rest, sent))
    BY <2>1, <2>3, Outcomes, SockTypes, LoopTyped
  <2>4. CASE \E sent \in SendOutcome, out \in ConnectOutcome : Return(InternalDisconnect(Rest, sent, out))
    BY <2>1, <2>4, Outcomes, CallbackTypes, LoopTyped
  <2> QED
    BY <1>12, <2>2, <2>3, <2>4 DEF PingLine
<1>13. CASE SelfQuitLine
  <2>1. Rest \in Conn
    BY <1>13, RestTyped DEF SelfQuitLine
  <2> QED
    BY <1>13, <2>1, Outcomes, CallbackTypes, LoopTyped DEF SelfQuitLine
<1>14. CASE JoinLine
  <2>1. [Rest EXCEPT !.roster = TRUE] \in Conn
    BY <1>14, RestTyped DEF JoinLine, Conn
  <2> QED
    BY <1>14, <2>1, LoopTyped DEF JoinLine
<1>15. CASE OtherLine
  BY <1>15, RestTyped, LoopTyped DEF OtherLine
<1>16. CASE BareLine
  BY <1>16, RestTyped, LoopTyped DEF BareLine
<1>17. CASE RefusedLine
  <2>1. PICK sent \in SendOutcome, out \in ConnectOutcome :
          Return(CallbackConnectFailed(SendPrintf(Rest, sent), TRUE, sent, out))
    BY <1>17 DEF RefusedLine
  <2>2. SendPrintf(Rest, sent) \in Conn
    BY <1>17, RestTyped, Outcomes, SockTypes DEF RefusedLine, SigningOn
  <2>3. CallbackConnectFailed(SendPrintf(Rest, sent), TRUE, sent, out) \in Conn
    BY <2>2, Outcomes, CallbackTypes
  <2> QED
    BY <2>1, <2>3, LoopTyped
<1>18. CASE ErrorLine
  <2>1. PICK sent \in SendOutcome :
          Return(CallbackConnectFailed(SendPrintf(Rest, sent), FALSE, sent, "started"))
    BY <1>18 DEF ErrorLine
  <2>2. SendPrintf(Rest, sent) \in Conn
    BY <1>18, RestTyped, Outcomes, SockTypes DEF ErrorLine, SigningOn
  <2>3. CallbackConnectFailed(SendPrintf(Rest, sent), FALSE, sent, "started") \in Conn
    BY <2>2, Outcomes, CallbackTypes
  <2> QED
    BY <2>1, <2>3, LoopTyped
<1>19. CASE MotdEndLine
  <2>1. PICK away \in SendOutcome, sent \in SendOutcome :
          Continue(SendPrintf(CallbackConnected(
            [CallbackDoinit(Rest, away) EXCEPT !.sock = "ACTIVE"]), sent))
    BY <1>19 DEF MotdEndLine
  <2>2. CallbackDoinit(Rest, away) \in Conn
    BY <1>19, RestTyped, Outcomes, CallbackTypes DEF MotdEndLine, SigningOn
  <2>3. [CallbackDoinit(Rest, away) EXCEPT !.sock = "ACTIVE"] \in Conn
    BY <2>2 DEF Conn, SockStates
  <2>4. SendPrintf(CallbackConnected(
          [CallbackDoinit(Rest, away) EXCEPT !.sock = "ACTIVE"]), sent) \in Conn
    BY <2>3, Outcomes, SockTypes, CallbackTypes
  <2> QED
    BY <2>1, <2>4, LoopTyped
<1>20. CASE UNCHANGED vars
  BY <1>20 DEF vars
<1> QED
  BY <1>1, <1>2, <1>3, <1>4, <1>5, <1>6, <1>7, <1>8, <1>9, <1>10, <1>11, <1>12,
     <1>13, <1>14, <1>15, <1>16, <1>17, <1>18, <1>19, <1>20
     DEF Next, User, Poll, Line

(* The type invariant: no loop over the read buffer takes a line that is not
   there, whatever the network and the server do. *)
THEOREM TypeCorrect == Spec => []TypeOK
<1>1. Init => Typed
  BY SessionAssumption DEF Init, Typed, TypeOK, Conn, SockStates
<1>2. Typed /\ [Next]_vars => Typed'
  BY TypedInductive
<1>3. Typed => TypeOK
  BY DEF Typed
<1> QED
  BY <1>1, <1>2, <1>3, PTL DEF Spec

-----------------------------------------------------------------------------
(* What each layer's operators do to the state of the layers above it. *)

UpperSame(c, d) == /\ d.online = c.online
                   /\ d.connected = c.connected
                   /\ d.scripts = c.scripts
                   /\ d.auto = c.auto

LEMMA SockKeepsUpper ==
  ASSUME NEW c \in Conn, NEW sent \in BOOLEAN, NEW out
  PROVE  /\ UpperSame(c, SockClose(c))
         /\ UpperSame(c, SendPrintf(c, sent))
         /\ UpperSame(c, SockConnect(c, out))
         /\ UpperSame(c, Renew(c))
<1>1. UpperSame(c, SockClose(c))
  BY DEF SockClose, UpperSame, Conn
<1>2. UpperSame(c, SendPrintf(c, sent))
  BY <1>1 DEF SendPrintf, UpperSame
<1>3. UpperSame(c, SockConnect(c, out))
  BY DEF SockConnect, UpperSame, Conn
<1>4. UpperSame(c, Renew(c))
  BY DEF Renew, UpperSame, Conn
<1> QED
  BY <1>1, <1>2, <1>3, <1>4

(* firetalk_disconnect says nothing to the client, which asked for it. *)
LEMMA FtDisconnectQuiet ==
  ASSUME NEW c \in Conn, NEW sent \in BOOLEAN
  PROVE  /\ FtDisconnect(c, sent).connected = "NOTCONNECTED"
         /\ FtDisconnect(c, sent).online = c.online
         /\ FtDisconnect(c, sent).scripts = c.scripts
<1>1. CASE c.connected = "NOTCONNECTED"
  BY <1>1 DEF FtDisconnect
<1>2. CASE c.connected # "NOTCONNECTED"
  <2> DEFINE d == [c EXCEPT !.connected = "NOTCONNECTED"]
             q == SendPrintf(d, sent)
             t == IF q.sock # "NOTCONNECTED" THEN CallbackUserDisconnect(q) ELSE q
  <2>1. d \in Conn /\ d.connected = "NOTCONNECTED"
        /\ d.online = c.online /\ d.scripts = c.scripts
    BY DEF Conn
  <2>2. q \in Conn /\ UpperSame(d, q)
    BY <2>1, SockTypes, SockKeepsUpper
  <2> HIDE DEF d, q
  <2>3. t \in Conn
    BY <2>2, DisconnectTypes
  <2>4. t.connected = "NOTCONNECTED" /\ t.online = c.online /\ t.scripts = c.scripts
    BY <2>1, <2>2 DEF CallbackUserDisconnect, UpperSame, Conn
  <2> HIDE DEF t
  <2>5. SockClose(t) \in Conn /\ UpperSame(t, SockClose(t))
    BY <2>3, SockTypes, SockKeepsUpper
  <2>6. UpperSame(SockClose(t), Renew(SockClose(t)))
    BY <2>5, SockKeepsUpper
  <2>7. FtDisconnect(c, sent) = Renew(SockClose(t))
    BY <1>2 DEF FtDisconnect, IrcDisconnect, d, q, t
  <2> QED
    BY <2>4, <2>5, <2>6, <2>7 DEF UpperSame
<1> QED
  BY <1>1, <1>2

LEMMA UaConnectUpper ==
  ASSUME NEW c \in Conn, NEW sent \in BOOLEAN, NEW out
  PROVE  /\ UaConnect(c, sent, out).online = c.online
         /\ UaConnect(c, sent, out).scripts = c.scripts
         /\ c.online <= 0 => UaConnect(c, sent, out).connected = "WAITING_SIGNON"
         /\ c.online > 0 => UaConnect(c, sent, out) = c
<1> DEFINE e == FtDisconnect(c, sent)
           d == [e EXCEPT !.connected = "WAITING_SIGNON"]
<1>1. e \in Conn /\ e.online = c.online /\ e.scripts = c.scripts
  BY DisconnectTypes, FtDisconnectQuiet
<1>2. d \in Conn /\ d.connected = "WAITING_SIGNON"
      /\ d.online = c.online /\ d.scripts = c.scripts
  <2> HIDE DEF e
  <2> QED BY <1>1 DEF Conn
<1>3. UpperSame(d, SockConnect(d, out))
  BY <1>2, SockKeepsUpper
<1>4. UaConnect(c, sent, out) = IF c.online > 0 THEN c ELSE SockConnect(d, out)
  BY DEF UaConnect, FtSignon
<1>5. c.online \in {-1, 0, 1}
  BY DEF Conn
<1> HIDE DEF d, e
<1> QED
  BY <1>2, <1>3, <1>4, <1>5 DEF UpperSame

LEMMA CallbackDisconnectUpper ==
  ASSUME NEW c \in Conn, NEW sent \in BOOLEAN, NEW out
  PROVE  LET d == CallbackDisconnect(c, sent, out)
         IN  /\ d.connected = "NOTCONNECTED"
             /\ c.connected = "ACTIVE" => d.online = -1 /\ d.scripts = FALSE
             /\ c.connected # "ACTIVE" => d.online = c.online /\ d.scripts = c.scripts
<1> DEFINE e == [c EXCEPT !.roster = FALSE]
           l == MarkLost(e)
           r == FireioDisconnected(e, sent, out)
<1>1. e \in Conn /\ e.online = c.online /\ e.scripts = c.scripts
  BY DEF Conn
<1>2. l \in Conn /\ l.online = -1 /\ l.scripts = FALSE
  <2> HIDE DEF e
  <2> QED BY <1>1, SockTypes DEF MarkLost, Conn
<1>3. r \in Conn /\ r.online = -1 /\ r.scripts = FALSE
  <2>1. r \in Conn
    BY <1>1, CallbackTypes
  <2>2. r = l \/ r = UaConnect(l, sent, out)
    BY DEF FireioDisconnected
  <2> HIDE DEF l, r
  <2> QED BY <2>1, <2>2, <1>2, UaConnectUpper
<1>4. CallbackDisconnect(c, sent, out) =
        [(IF c.connected = "ACTIVE" THEN r ELSE e) EXCEPT !.connected = "NOTCONNECTED"]
  BY DEF CallbackDisconnect
<1> HIDE DEF e, r, l
<1> QED
  BY <1>1, <1>3, <1>4 DEF Conn

LEMMA InternalDisconnectUpper ==
  ASSUME NEW c \in Conn, NEW sent \in BOOLEAN, NEW out
  PROVE  LET d == InternalDisconnect(c, sent, out)
         IN  /\ c.sock = "NOTCONNECTED" => UpperSame(c, d)
             /\ c.sock # "NOTCONNECTED" => d.connected = "NOTCONNECTED"
             /\ c.sock # "NOTCONNECTED" /\ c.connected = "ACTIVE" =>
                  d.online = -1 /\ d.scripts = FALSE
             /\ c.connected # "ACTIVE" => d.online = c.online /\ d.scripts = c.scripts
<1> DEFINE t == IF c.sock # "NOTCONNECTED" THEN CallbackDisconnect(c, sent, out) ELSE c
<1>1. t \in Conn
  BY CallbackTypes
<1>2. UpperSame(t, SockClose(t)) /\ SockClose(t) \in Conn
  BY <1>1, SockKeepsUpper, SockTypes
<1>3. UpperSame(SockClose(t), Renew(SockClose(t)))
  BY <1>2, SockKeepsUpper
<1>4. UpperSame(t, InternalDisconnect(c, sent, out))
  BY <1>2, <1>3 DEF InternalDisconnect, UpperSame
<1> QED
  BY <1>4, CallbackDisconnectUpper DEF UpperSame

LEMMA ConnectFailedUpper ==
  ASSUME NEW c \in Conn, NEW badUser \in BOOLEAN, NEW sent \in BOOLEAN, NEW out
  PROVE  LET d == CallbackConnectFailed(c, badUser, sent, out)
         IN  /\ d.connected # "ACTIVE"
             /\ d.online = c.online
             /\ d.scripts = c.scripts
<1> DEFINE f == [c EXCEPT !.connected = "NOTCONNECTED"]
<1>1. f \in Conn /\ f.connected = "NOTCONNECTED"
      /\ f.online = c.online /\ f.scripts = c.scripts
  BY DEF Conn
<1>2. CallbackConnectFailed(c, badUser, sent, out) =
        IF c.connected = "NOTCONNECTED" THEN c
        ELSE IF badUser THEN UaConnect(f, sent, out) ELSE f
  BY DEF CallbackConnectFailed
<1>3. f.online <= 0 \/ f.online > 0
  BY <1>1 DEF Conn
<1> HIDE DEF f
<1> QED
  BY <1>1, <1>2, <1>3, UaConnectUpper

-----------------------------------------------------------------------------
(* ActiveImpliesOnline is inductive: the wrapper turns ACTIVE only in the
   callback that sets online, and whoever resets online has first made the
   wrapper NOTCONNECTED. *)

LEMMA ReceivedUpper ==
  ASSUME NEW c \in Conn, NEW n \in 0..(MaxPending - c.pending), NEW f \in BOOLEAN
  PROVE  UpperSame(c, [c EXCEPT !.pending = @ + n, !.frag = f])
BY DEF UpperSame, Conn

LEMMA RestUpper ==
  ASSUME Typed, Parsing
  PROVE  UpperSame(conn, Rest) /\ Rest.sock = conn.sock /\ Rest.fd = conn.fd
BY DEF UpperSame, Rest, Typed, TypeOK, Conn

LEMMA SignonUpper ==
  ASSUME NEW c \in Conn, NEW sent \in BOOLEAN
  PROVE  UpperSame(c, Signon(c, sent))
<1>1. SendPrintf(c, sent) \in Conn /\ UpperSame(c, SendPrintf(c, sent))
  BY SockTypes, SockKeepsUpper
<1> QED
  BY <1>1 DEF Signon, UpperSame, Conn

LEMMA MotdEndUpper ==
  ASSUME NEW c \in Conn, NEW away \in BOOLEAN, NEW sent \in BOOLEAN
  PROVE  LET d == SendPrintf(CallbackConnected(
                    [CallbackDoinit(c, away) EXCEPT !.sock = "ACTIVE"]), sent)
         IN  d.connected = "ACTIVE" /\ d.online = 1 /\ d.scripts = TRUE
<1> DEFINE e == [CallbackDoinit(c, away) EXCEPT !.sock = "ACTIVE"]
           f == CallbackConnected(e)
<1>1. CallbackDoinit(c, away) \in Conn
  BY CallbackTypes
<1>2. e \in Conn
  BY <1>1 DEF Conn, SockStates
<1> HIDE DEF e
<1>3. f \in Conn /\ f.connected = "ACTIVE" /\ f.online = 1 /\ f.scripts = TRUE
  BY <1>2 DEF CallbackConnected, Conn
<1> HIDE DEF f
<1>4. UpperSame(f, SendPrintf(f, sent))
  BY <1>3, SockKeepsUpper
<1> QED
  BY <1>3, <1>4 DEF UpperSame, e, f

LEMMA ActiveImpliesOnlineInductive ==
  ASSUME Typed, ActiveImpliesOnline, [Next]_vars
  PROVE  ActiveImpliesOnline'
<1> USE DEF ActiveImpliesOnline
<1>t. conn \in Conn
  BY DEF Typed, TypeOK
<1>s. ASSUME UpperSame(conn, conn') PROVE ActiveImpliesOnline'
  BY <1>s DEF UpperSame
<1>o. conn.online \in {-1, 0, 1}
  BY <1>t DEF Conn
<1>c. ASSUME NEW sent \in SendOutcome, NEW out, conn' = UaConnect(conn, sent, out)
      PROVE  ActiveImpliesOnline'
  BY <1>c, <1>t, <1>o, Outcomes, UaConnectUpper
<1>1. CASE UserConnect
  BY <1>1, <1>c DEF UserConnect
<1>2. CASE UserDisconnect
  <2>1. PICK sent \in SendOutcome :
          conn' = IF conn.online > 0 /\ conn.connected # "NOTCONNECTED"
                  THEN [FtDisconnect(conn, sent) EXCEPT !.online = 0, !.scripts = FALSE]
                  ELSE [conn EXCEPT !.online = 0]
    BY <1>2 DEF UserDisconnect
  <2>2. FtDisconnect(conn, sent) \in Conn
        /\ FtDisconnect(conn, sent).connected = "NOTCONNECTED"
    BY <1>t, Outcomes, DisconnectTypes, FtDisconnectQuiet
  <2>3. CASE conn.online > 0 /\ conn.connected # "NOTCONNECTED"
    BY <2>1, <2>2, <2>3 DEF Conn
  <2>4. CASE ~(conn.online > 0 /\ conn.connected # "NOTCONNECTED")
    BY <2>1, <2>4, <1>t, <1>o DEF Conn
  <2> QED
    BY <2>3, <2>4
<1>3. CASE UserSetAutoreconnect
  BY <1>3, <1>t DEF UserSetAutoreconnect, Conn
<1>4. CASE UserSend
  BY <1>4, <1>t, <1>s, SockKeepsUpper DEF UserSend
<1>5. CASE Periodic
  BY <1>5, <1>c DEF Periodic
<1>6. CASE PeerLost
  BY <1>6, <1>t, <1>s DEF PeerLost, UpperSame, Conn
<1>7. CASE PollError
  <2>1. PICK sent \in SendOutcome, out \in ConnectOutcome :
          conn' = IF conn.sock = "ACTIVE"
                  THEN CallbackDisconnect(SockClose(conn), sent, out)
                  ELSE CallbackConnectFailed(SockClose(conn), FALSE, sent, out)
    BY <1>7 DEF PollError
  <2>2. SockClose(conn) \in Conn
    BY <1>t, SockTypes
  <2> QED
    BY <2>1, <2>2, Outcomes, CallbackDisconnectUpper, ConnectFailedUpper
<1>8. CASE PollSynack
  <2>1. \A s \in {"WAITING_STARTTLS", "SEND_SIGNON"} :
          /\ UpperSame(conn, [conn EXCEPT !.sock = s, !.tls = "this"])
          /\ UpperSame(conn, [conn EXCEPT !.sock = s])
          /\ [conn EXCEPT !.sock = s] \in Conn
    BY <1>t DEF UpperSame, Conn, SockStates
  <2>2. CallbackConnectFailed(SockClose(conn), FALSE, TRUE, "started").connected # "ACTIVE"
    <3>1. SockClose(conn) \in Conn
      BY <1>t, SockTypes
    <3> HIDE DEF ActiveImpliesOnline
    <3> QED
      BY <3>1, ConnectFailedUpper
  <2>3. \A sent \in SendOutcome :
          UpperSame(conn, Signon([conn EXCEPT !.sock = "SEND_SIGNON"], sent))
    BY <2>1, Outcomes, SignonUpper DEF UpperSame
  <2> QED
    BY <1>8, <1>s, <2>1, <2>2, <2>3 DEF PollSynack
<1>9. CASE PollHandshake
  BY <1>9, <1>t, <1>s, Outcomes, SignonUpper DEF PollHandshake
<1>10. CASE PollSignon
  <2>1. PICK n \in 0..(MaxPending - conn.pending), f \in BOOLEAN, sent \in SendOutcome :
          conn' = Signon([conn EXCEPT !.pending = @ + n, !.frag = f], sent)
    BY <1>10 DEF PollSignon
  <2> DEFINE d == [conn EXCEPT !.pending = @ + n, !.frag = f]
  <2>2. d \in Conn /\ UpperSame(conn, d)
    BY <1>t, ReceivedTyped, ReceivedUpper
  <2> HIDE DEF d
  <2>3. UpperSame(d, Signon(d, sent))
    BY <2>2, Outcomes, SignonUpper
  <2>4. conn' = Signon(d, sent)
    BY <2>1 DEF d
  <2> QED
    BY <2>2, <2>3, <2>4 DEF UpperSame
<1>11. CASE PollData
  <2>1. PICK n \in 0..(MaxPending - conn.pending), f \in BOOLEAN :
          conn' = [conn EXCEPT !.pending = @ + n, !.frag = f]
    BY <1>11 DEF PollData
  <2> QED
    BY <2>1, <1>t, <1>s, ReceivedUpper
<1>p. ASSUME Parsing PROVE Rest \in Conn /\ UpperSame(conn, Rest)
  BY <1>p, RestTyped, RestUpper
<1>12. CASE PingLine
  <2>1. Rest \in Conn /\ UpperSame(conn, Rest) /\ Rest.sock = conn.sock
    BY <1>12, <1>p, RestUpper DEF PingLine
  <2>2. CASE conn.sock = "NOTCONNECTED" /\ Return(InternalDisconnect(Rest, TRUE, "started"))
    BY <2>1, <2>2, InternalDisconnectUpper DEF Return, UpperSame
  <2>3. CASE \E sent \in SendOutcome : Continue(SendPrintf(Rest, sent))
    BY <2>1, <2>3, Outcomes, SockKeepsUpper DEF Continue, UpperSame
  <2>4. CASE \E sent \in SendOutcome, out \in ConnectOutcome : Return(InternalDisconnect(Rest, sent, out))
    <3>1. PICK sent \in SendOutcome, out \in ConnectOutcome : conn' = InternalDisconnect(Rest, sent, out)
      BY <2>4 DEF Return
    <3>2. CASE Rest.sock = "NOTCONNECTED"
      <4>1. UpperSame(Rest, conn')
        BY <2>1, <3>1, <3>2, Outcomes, InternalDisconnectUpper
      <4> QED
        BY <4>1, <2>1 DEF UpperSame
    <3>3. CASE Rest.sock # "NOTCONNECTED"
      <4>1. conn'.connected = "NOTCONNECTED"
        BY <2>1, <3>1, <3>3, Outcomes, InternalDisconnectUpper
      <4> QED
        BY <4>1
    <3> QED
      BY <3>2, <3>3
  <2>5. \/ conn.sock = "NOTCONNECTED" /\ Return(InternalDisconnect(Rest, TRUE, "started"))
        \/ \E sent \in SendOutcome : Continue(SendPrintf(Rest, sent))
        \/ \E sent \in SendOutcome, out \in ConnectOutcome : Return(InternalDisconnect(Rest, sent, out))
    <3> HIDE DEF ActiveImpliesOnline
    <3> QED
      BY <1>12 DEF PingLine
  <2> QED
    BY <2>2, <2>3, <2>4, <2>5
<1>13. CASE SelfQuitLine
  <2>1. PICK sent \in SendOutcome, out \in ConnectOutcome :
          conn' = InternalDisconnect(Rest, sent, out)
    BY <1>13 DEF SelfQuitLine, Continue
  <2>2. Rest \in Conn /\ UpperSame(conn, Rest)
    BY <1>13, <1>p DEF SelfQuitLine
  <2>3. CASE Rest.sock = "NOTCONNECTED"
    <3>1. UpperSame(Rest, conn')
      BY <2>1, <2>2, <2>3, Outcomes, InternalDisconnectUpper
    <3> QED
      BY <3>1, <2>2 DEF UpperSame
  <2>4. CASE Rest.sock # "NOTCONNECTED"
    <3>1. conn'.connected = "NOTCONNECTED"
      BY <2>1, <2>2, <2>4, Outcomes, InternalDisconnectUpper
    <3> QED
      BY <3>1
  <2> QED
    BY <2>3, <2>4
<1>14. CASE JoinLine
  <2>1. conn' = [Rest EXCEPT !.roster = TRUE]
    BY <1>14 DEF JoinLine, Continue
  <2>2. Rest \in Conn /\ UpperSame(conn, Rest)
    BY <1>14, <1>p DEF JoinLine
  <2> QED
    BY <2>1, <2>2 DEF UpperSame, Conn
<1>15. CASE OtherLine
  BY <1>15, <1>p, <1>s DEF OtherLine, Continue
<1>16. CASE BareLine
  BY <1>16, <1>p, <1>s DEF BareLine, Return
<1>17. CASE RefusedLine
  <2>1. PICK sent \in SendOutcome, out \in ConnectOutcome :
          conn' = CallbackConnectFailed(SendPrintf(Rest, sent), TRUE, sent, out)
    BY <1>17 DEF RefusedLine, Return
  <2>2. SendPrintf(Rest, sent) \in Conn
    BY <1>17, <1>p, Outcomes, SockTypes DEF RefusedLine, SigningOn
  <2> QED
    BY <2>1, <2>2, Outcomes, ConnectFailedUpper
<1>18. CASE ErrorLine
  <2>1. PICK sent \in SendOutcome :
          conn' = CallbackConnectFailed(SendPrintf(Rest, sent), FALSE, sent, "started")
    BY <1>18 DEF ErrorLine, Return
  <2>2. SendPrintf(Rest, sent) \in Conn
    BY <1>18, <1>p, Outcomes, SockTypes DEF ErrorLine, SigningOn
  <2> QED
    BY <2>1, <2>2, Outcomes, ConnectFailedUpper
<1>19. CASE MotdEndLine
  <2>1. PICK away \in SendOutcome, sent \in SendOutcome :
          conn' = SendPrintf(CallbackConnected(
            [CallbackDoinit(Rest, away) EXCEPT !.sock = "ACTIVE"]), sent)
    BY <1>19 DEF MotdEndLine, Continue
  <2>2. Rest \in Conn
    BY <1>19, <1>p DEF MotdEndLine, SigningOn
  <2>3. away \in BOOLEAN /\ sent \in BOOLEAN
    BY Outcomes
  <2>4. conn'.online = 1
    BY <2>1, <2>2, <2>3, MotdEndUpper
  <2> QED
    BY <2>4
<1>20. CASE UNCHANGED vars
  BY <1>20 DEF vars
<1> QED
  BY <1>1, <1>2, <1>3, <1>4, <1>5, <1>6, <1>7, <1>8, <1>9, <1>10, <1>11, <1>12,
     <1>13, <1>14, <1>15, <1>16, <1>17, <1>18, <1>19, <1>20
     DEF Next, User, Poll, Line

(* The wrapper is ACTIVE, and so lets the user's messages through, only while
   the client shows the session as up, whatever the network and the server do. *)
THEOREM ActiveIsOnline == Spec => []ActiveImpliesOnline
<1>1. Init => Typed /\ ActiveImpliesOnline
  <2>1. Init => Typed
    BY SessionAssumption DEF Init, Typed, TypeOK, Conn, SockStates
  <2>2. Init => conn.connected = "NOTCONNECTED"
    BY DEF Init
  <2> QED
    BY <2>1, <2>2 DEF ActiveImpliesOnline
<1>2. Typed /\ ActiveImpliesOnline /\ [Next]_vars => (Typed /\ ActiveImpliesOnline)'
  BY TypedInductive, ActiveImpliesOnlineInductive
<1> QED
  BY <1>1, <1>2, PTL DEF Spec

-----------------------------------------------------------------------------
(* The layers agree, when sends do not fail, connect() fails only later, and the
   server refuses nobody it has welcomed.  By itself LayersAgree is not
   inductive: a socket must stay valid, and a loop over the buffer must have a
   socket still, or the end of the MOTD would make a closed one ACTIVE. *)

Reliable == ~SendsFail /\ ~ConnectFailsAtOnce /\ Orderly

ScriptsInSync == conn.scripts <=> conn.online > 0

Agreed == /\ Typed
          /\ Valid(conn)
          /\ LayersAgree
          /\ ScriptsInSync
          /\ pc # "select" => conn.sock # "NOTCONNECTED"

Down(c) == Valid(c) /\ c.sock # "ACTIVE"

LEMMA ReliableOutcomes ==
  ASSUME Reliable
  PROVE  SendOutcome = {TRUE} /\ ConnectOutcome = {"started", "unresolved"}
BY SessionAssumption DEF Reliable, SendOutcome, ConnectOutcome

LEMMA SockDown ==
  ASSUME NEW c \in Conn, Valid(c), NEW out \in {"started", "unresolved"}
  PROVE  /\ SendPrintf(c, TRUE) = c
         /\ Valid(SockClose(c)) /\ SockClose(c).sock = "NOTCONNECTED"
         /\ Down(SockConnect(c, out))
         /\ Valid(Renew(c)) /\ Renew(c).sock = c.sock /\ Renew(c).pending = 0
<1>1. SendPrintf(c, TRUE) = c
  BY DEF SendPrintf
<1>2. Valid(SockClose(c)) /\ SockClose(c).sock = "NOTCONNECTED"
  BY DEF SockClose, Valid, Conn
<1>3. Down(SockConnect(c, out))
  BY DEF SockConnect, Valid, Down, Conn
<1>4. Valid(Renew(c)) /\ Renew(c).sock = c.sock /\ Renew(c).pending = 0
  BY DEF Renew, Valid, Conn
<1> QED
  BY <1>1, <1>2, <1>3, <1>4

LEMMA FtDisconnectDown ==
  ASSUME NEW c \in Conn, Valid(c)
  PROVE  /\ Valid(FtDisconnect(c, TRUE))
         /\ c.connected # "NOTCONNECTED" => FtDisconnect(c, TRUE).sock = "NOTCONNECTED"
<1>1. CASE c.connected = "NOTCONNECTED"
  BY <1>1 DEF FtDisconnect
<1>2. CASE c.connected # "NOTCONNECTED"
  <2> DEFINE d == [c EXCEPT !.connected = "NOTCONNECTED"]
             t == IF d.sock # "NOTCONNECTED" THEN CallbackUserDisconnect(d) ELSE d
  <2>1. d \in Conn /\ Valid(d) /\ SendPrintf(d, TRUE) = d
    BY DEF Valid, SendPrintf, Conn
  <2> HIDE DEF d
  <2>2. t \in Conn
    BY <2>1, DisconnectTypes
  <2>3. Valid(t)
    BY <2>1 DEF CallbackUserDisconnect, MarkLost, Valid, Conn
  <2> HIDE DEF t
  <2>4. SockClose(t) \in Conn /\ Valid(SockClose(t)) /\ SockClose(t).sock = "NOTCONNECTED"
    BY <2>2, <2>3, SockDown, SockTypes
  <2>5. Valid(Renew(SockClose(t))) /\ Renew(SockClose(t)).sock = "NOTCONNECTED"
    BY <2>4, SockDown
  <2>6. FtDisconnect(c, TRUE) = Renew(SockClose(t))
    BY <1>2, <2>1 DEF FtDisconnect, IrcDisconnect, d, t
  <2> QED
    BY <2>5, <2>6
<1> QED
  BY <1>1, <1>2

LEMMA UaConnectDown ==
  ASSUME NEW c \in Conn, Valid(c), NEW out \in {"started", "unresolved"}
  PROVE  /\ Valid(UaConnect(c, TRUE, out))
         /\ c.online <= 0 => Down(UaConnect(c, TRUE, out))
<1> DEFINE e == FtDisconnect(c, TRUE)
           d == [e EXCEPT !.connected = "WAITING_SIGNON"]
<1>1. e \in Conn /\ Valid(e)
  BY DisconnectTypes, FtDisconnectDown
<1> HIDE DEF e
<1>2. d \in Conn /\ Valid(d)
  BY <1>1 DEF Valid, Conn
<1> HIDE DEF d
<1>3. Down(SockConnect(d, out))
  BY <1>2, SockDown
<1>4. UaConnect(c, TRUE, out) = IF c.online > 0 THEN c ELSE SockConnect(d, out)
  BY DEF UaConnect, FtSignon, d, e
<1>5. c.online <= 0 => ~(c.online > 0)
  BY DEF Conn
<1>6. Valid(SockConnect(d, out))
  BY <1>3 DEF Down
<1>7. CASE c.online > 0
  BY <1>4, <1>5, <1>7
<1>8. CASE ~(c.online > 0)
  BY <1>3, <1>4, <1>6, <1>8
<1> QED
  BY <1>7, <1>8

LEMMA CallbackDisconnectDown ==
  ASSUME NEW c \in Conn, Valid(c), NEW out \in {"started", "unresolved"}
  PROVE  /\ Valid(CallbackDisconnect(c, TRUE, out))
         /\ c.sock # "ACTIVE" => Down(CallbackDisconnect(c, TRUE, out))
<1> DEFINE e == [c EXCEPT !.roster = FALSE]
           l == MarkLost(e)
           r == FireioDisconnected(e, TRUE, out)
           n == IF c.connected = "ACTIVE" THEN r ELSE e
<1>1. e \in Conn /\ Valid(e) /\ e.sock = c.sock
  BY DEF Valid, Conn
<1> HIDE DEF e
<1>2. l \in Conn /\ Valid(l) /\ l.sock = c.sock /\ l.online = -1
  BY <1>1 DEF MarkLost, Valid, Conn
<1> HIDE DEF l
<1>3. Down(UaConnect(l, TRUE, out))
  <2>1. l.online <= 0
    BY <1>2
  <2> QED
    BY <1>2, <2>1, UaConnectDown
<1>4. r \in Conn /\ Valid(r) /\ (c.sock # "ACTIVE" => Down(r))
  <2>1. r \in Conn
    BY <1>1, CallbackTypes
  <2>2. r = l \/ r = UaConnect(l, TRUE, out)
    BY DEF FireioDisconnected, l
  <2> HIDE DEF r
  <2> QED
    BY <2>1, <2>2, <1>2, <1>3 DEF Down
<1> HIDE DEF r
<1>5. n \in Conn /\ Valid(n) /\ (c.sock # "ACTIVE" => Down(n))
  BY <1>1, <1>4 DEF Down
<1>6. CallbackDisconnect(c, TRUE, out) = [n EXCEPT !.connected = "NOTCONNECTED"]
  BY DEF CallbackDisconnect, e, r, n
<1> HIDE DEF n
<1> QED
  BY <1>5, <1>6 DEF Down, Valid, Conn

LEMMA InternalDisconnectDown ==
  ASSUME NEW c \in Conn, Valid(c), NEW out \in {"started", "unresolved"}
  PROVE  LET d == InternalDisconnect(c, TRUE, out)
         IN  Valid(d) /\ d.sock = "NOTCONNECTED" /\ d.pending = 0
<1> DEFINE t == IF c.sock # "NOTCONNECTED" THEN CallbackDisconnect(c, TRUE, out) ELSE c
<1>1. t \in Conn /\ Valid(t)
  BY CallbackTypes, CallbackDisconnectDown
<1>2. InternalDisconnect(c, TRUE, out) = Renew(SockClose(t))
  BY DEF InternalDisconnect
<1> HIDE DEF t
<1>3. SockClose(t) \in Conn /\ Valid(SockClose(t)) /\ SockClose(t).sock = "NOTCONNECTED"
  BY <1>1, SockDown, SockTypes
<1> QED
  BY <1>2, <1>3, SockDown

LEMMA ConnectFailedDown ==
  ASSUME NEW c \in Conn, Down(c), c.online <= 0, NEW badUser \in BOOLEAN,
         NEW out \in {"started", "unresolved"}
  PROVE  Down(CallbackConnectFailed(c, badUser, TRUE, out))
<1> DEFINE f == [c EXCEPT !.connected = "NOTCONNECTED"]
<1>1. f \in Conn /\ Down(f) /\ f.online <= 0
  BY DEF Down, Valid, Conn
<1> HIDE DEF f
<1>2. Down(UaConnect(f, TRUE, out))
  BY <1>1, UaConnectDown DEF Down
<1> QED
  BY <1>1, <1>2 DEF CallbackConnectFailed, f

(* What a step tells the client and the scripts: nothing, that the session is
   lost, that it is up, or that the user has closed it. *)
Notice(c, d) ==
  \/ d.online = c.online /\ d.scripts = c.scripts
  \/ c.online = 1 /\ d.online = -1 /\ d.scripts = FALSE
  \/ c.online # 1 /\ d.online = 1 /\ d.scripts = TRUE
  \/ d.online = 0 /\ d.scripts = FALSE

(* The agreement of the layers in one connection record: all say that it is up,
   or all that it is not. *)
Up(c) ==
  /\ c.online = 1 /\ c.scripts = TRUE
  /\ c.connected = "ACTIVE"
  /\ c.sock = "ACTIVE" /\ c.fd = TRUE

Off(c) ==
  /\ c.online # 1 /\ c.scripts = FALSE
  /\ c.connected # "ACTIVE"
  /\ c.sock # "ACTIVE" /\ Valid(c)

Agree(c) == Up(c) \/ Off(c)

LEMMA AgreeMeans ==
  ASSUME NEW c \in Conn
  PROVE  Agree(c) <=> /\ Valid(c)
                      /\ c.online > 0 <=> c.connected = "ACTIVE"
                      /\ c.connected = "ACTIVE" <=> c.sock = "ACTIVE"
                      /\ c.scripts <=> c.online > 0
<1>1. (c.online > 0 <=> c.online = 1) /\ c.scripts \in BOOLEAN /\ c.fd \in BOOLEAN
  BY DEF Conn
<1>2. c.sock = "ACTIVE" => (Valid(c) <=> c.fd = TRUE)
  BY <1>1 DEF Valid
<1>3. c.scripts = TRUE <=> c.scripts
  BY <1>1
<1>4. c.scripts = FALSE <=> ~c.scripts
  BY <1>1
<1> QED
  BY <1>1, <1>2, <1>3, <1>4 DEF Agree, Up, Off

LEMMA OnlineValues ==
  ASSUME NEW c \in Conn
  PROVE  /\ c.online > 0 <=> c.online = 1
         /\ c.online <= 0 <=> c.online # 1
BY DEF Conn

(* Steps that leave the upper layers alone, and do not start or end ACTIVE. *)
LEMMA AgreeSame ==
  ASSUME NEW c \in Conn, Agree(c), NEW d \in Conn, UpperSame(c, d), Valid(d),
         d.sock = c.sock \/ (c.sock # "ACTIVE" /\ d.sock # "ACTIVE")
  PROVE  Agree(d) /\ Notice(c, d)
<1>1. CASE Up(c)
  <2>1. d.sock = "ACTIVE"
    BY <1>1 DEF Up
  <2>2. d.fd = TRUE
    BY <2>1 DEF Valid, Conn
  <2> QED
    BY <1>1, <2>1, <2>2 DEF Up, Agree, UpperSame, Notice
<1>2. CASE Off(c)
  BY <1>2 DEF Off, Agree, UpperSame, Notice
<1> QED
  BY <1>1, <1>2 DEF Agree

LEMMA AgreeDown ==
  ASSUME NEW c \in Conn, Agree(c), NEW d \in Conn, Down(d), d.connected # "ACTIVE",
         \/ d.online = c.online /\ d.scripts = c.scripts /\ c.online # 1
         \/ d.online # 1 /\ d.scripts = FALSE
  PROVE  Agree(d)
BY DEF Agree, Down, Up, Off

LEMMA AgreeUaConnect ==
  ASSUME NEW c \in Conn, Agree(c), NEW out \in {"started", "unresolved"}
  PROVE  /\ Agree(UaConnect(c, TRUE, out))
         /\ Notice(c, UaConnect(c, TRUE, out))
<1> DEFINE d == UaConnect(c, TRUE, out)
<1>1. d \in Conn /\ d.online = c.online /\ d.scripts = c.scripts
  BY ConnectTypes, UaConnectUpper
<1>v. Valid(c)
  BY AgreeMeans
<1>2. CASE c.online > 0
  BY <1>1, <1>2, UaConnectUpper DEF Notice
<1>3. CASE ~(c.online > 0)
  <2>1. c.online <= 0 /\ c.online # 1
    BY <1>3 DEF Conn
  <2>2. Down(d) /\ d.connected = "WAITING_SIGNON"
    BY <2>1, <1>v, UaConnectDown, UaConnectUpper
  <2> HIDE DEF d
  <2>3. Agree(d) /\ Notice(c, d)
    BY <1>1, <2>1, <2>2, AgreeDown DEF Notice
  <2> QED
    BY <2>3 DEF d
<1> QED
  BY <1>2, <1>3

LEMMA AgreeConnectFailed ==
  ASSUME NEW c \in Conn, Agree(c), c.sock # "ACTIVE", NEW badUser \in BOOLEAN,
         NEW out \in {"started", "unresolved"}
  PROVE  LET d == CallbackConnectFailed(c, badUser, TRUE, out)
         IN  Agree(d) /\ Notice(c, d)
<1> DEFINE d == CallbackConnectFailed(c, badUser, TRUE, out)
<1>0. c.online # 1 /\ Down(c)
  BY DEF Agree, Up, Off, Down
<1>1. c.online <= 0 /\ c.online # 1 /\ Down(c)
  BY <1>0, OnlineValues
<1>2. Down(d)
  BY <1>1, ConnectFailedDown
<1>3. d \in Conn /\ d.connected # "ACTIVE" /\ d.online = c.online /\ d.scripts = c.scripts
  <2>1. d \in Conn
    BY CallbackTypes
  <2> QED
    BY <2>1, ConnectFailedUpper
<1> HIDE DEF d
<1>4. Agree(d) /\ Notice(c, d)
  BY <1>1, <1>2, <1>3, AgreeDown DEF Notice
<1> QED
  BY <1>4 DEF d

LEMMA AgreeStep ==
  ASSUME Reliable, Agreed, [Next]_vars
  PROVE  /\ Agree(conn') /\ Notice(conn, conn')
         /\ pc' # "select" => conn'.sock # "NOTCONNECTED"
<1>t. Typed /\ conn \in Conn /\ (pc # "select" => conn.sock # "NOTCONNECTED")
  BY DEF Agreed, Typed, TypeOK
<1>a. Agree(conn) /\ Valid(conn)
  BY <1>t, AgreeMeans DEF Agreed, LayersAgree, ScriptsInSync
<1>o. SendOutcome = {TRUE} /\ ConnectOutcome = {"started", "unresolved"}
  BY ReliableOutcomes
<1>d. Typed' /\ conn' \in Conn
  BY <1>t, TypedInductive DEF Typed, TypeOK
<1>same. ASSUME UpperSame(conn, conn'), Valid(conn'),
                conn'.sock = conn.sock \/ (conn.sock # "ACTIVE" /\ conn'.sock # "ACTIVE")
         PROVE  Agree(conn') /\ Notice(conn, conn')
  BY <1>same, <1>t, <1>a, <1>d, AgreeSame
<1>1. CASE UserConnect \/ Periodic
  <2>1. PICK out \in {"started", "unresolved"} : conn' = UaConnect(conn, TRUE, out)
    BY <1>1, <1>o DEF UserConnect, Periodic
  <2>2. pc' = "select"
    BY <1>1 DEF UserConnect, Periodic, Selecting
  <2>3. Agree(conn') /\ Notice(conn, conn')
    BY <2>1, <1>t, <1>a, AgreeUaConnect
  <2> QED
    BY <2>2, <2>3
<1>2. CASE UserDisconnect
  <2> DEFINE e == FtDisconnect(conn, TRUE)
  <2>1. conn' = IF conn.online > 0 /\ conn.connected # "NOTCONNECTED"
                THEN [e EXCEPT !.online = 0, !.scripts = FALSE]
                ELSE [conn EXCEPT !.online = 0]
    BY <1>2, <1>o DEF UserDisconnect
  <2>2. pc' = "select"
    BY <1>2 DEF UserDisconnect, Selecting
  <2>3. e \in Conn /\ e.connected = "NOTCONNECTED" /\ Valid(e)
        /\ (conn.connected # "NOTCONNECTED" => e.sock = "NOTCONNECTED")
    BY <1>t, <1>a, DisconnectTypes, FtDisconnectQuiet, FtDisconnectDown
  <2> HIDE DEF e
  <2>4. CASE Up(conn)
    <3>1. conn.connected = "ACTIVE" /\ conn.online = 1
      BY <2>4 DEF Up
    <3>2. conn' = [e EXCEPT !.online = 0, !.scripts = FALSE]
      BY <2>1, <3>1
    <3>3. conn'.online = 0 /\ conn'.scripts = FALSE /\ conn'.connected = "NOTCONNECTED"
          /\ conn'.sock = "NOTCONNECTED" /\ conn'.fd = e.fd
      BY <3>1, <3>2, <2>3 DEF Conn
    <3>4. Valid(conn')
      BY <3>1, <3>3, <2>3 DEF Valid
    <3> QED
      BY <2>2, <3>3, <3>4 DEF Agree, Off, Notice
  <2>5. CASE Off(conn)
    <3>1. conn' = [conn EXCEPT !.online = 0]
      BY <2>1, <2>5, <1>t, OnlineValues DEF Off
    <3>2. conn'.online = 0 /\ conn'.scripts = conn.scripts /\ conn'.connected = conn.connected
          /\ conn'.sock = conn.sock /\ conn'.fd = conn.fd
      BY <3>1, <1>t DEF Conn
    <3> QED
      BY <2>2, <2>5, <3>2 DEF Agree, Off, Notice, Valid
  <2> QED
    BY <2>4, <2>5, <1>a DEF Agree
<1>3. CASE UserSetAutoreconnect
  <2>1. conn'.online = conn.online /\ conn'.scripts = conn.scripts
        /\ conn'.connected = conn.connected /\ conn'.sock = conn.sock /\ conn'.fd = conn.fd
    BY <1>3, <1>t DEF UserSetAutoreconnect, Conn
  <2>2. Agree(conn') /\ Notice(conn, conn')
    BY <2>1, <1>a DEF Agree, Up, Off, Notice, Valid
  <2> QED
    BY <1>3, <2>2 DEF UserSetAutoreconnect, Selecting
<1>4. CASE UserSend
  BY <1>4 DEF UserSend, Reliable
<1>6. CASE PeerLost
  <2>1. UpperSame(conn, conn') /\ conn'.sock = conn.sock /\ conn'.fd = conn.fd /\ pc' = pc
    BY <1>6, <1>t DEF PeerLost, UpperSame, Conn
  <2>2. Valid(conn')
    BY <2>1, <1>a DEF Valid
  <2> QED
    BY <2>1, <2>2, <1>same, <1>t
<1>7. CASE PollError
  <2> DEFINE c == SockClose(conn)
  <2>1. PICK out \in {"started", "unresolved"} :
          conn' = IF conn.sock = "ACTIVE" THEN CallbackDisconnect(c, TRUE, out)
                  ELSE CallbackConnectFailed(c, FALSE, TRUE, out)
    BY <1>7, <1>o DEF PollError
  <2>2. pc' = "select"
    BY <1>7 DEF PollError, Selecting
  <2>3. c \in Conn /\ UpperSame(conn, c)
    BY <1>t, SockTypes, SockKeepsUpper
  <2>4. Valid(c) /\ c.sock = "NOTCONNECTED"
    BY <1>t, <1>a, SockDown
  <2> HIDE DEF c
  <2>5. CASE conn.sock = "ACTIVE"
    <3>1. c.connected = "ACTIVE" /\ conn.online = 1
      BY <2>5, <2>3, <1>a DEF Agree, Up, Off, UpperSame
    <3>2. conn' = CallbackDisconnect(c, TRUE, out)
      BY <2>1, <2>5
    <3>3. conn'.connected = "NOTCONNECTED" /\ conn'.online = -1 /\ conn'.scripts = FALSE
      BY <3>2, <2>3, <3>1, CallbackDisconnectUpper
    <3>4. Down(conn')
      BY <3>2, <2>3, <2>4, CallbackDisconnectDown
    <3> QED
      BY <2>2, <3>1, <3>3, <3>4 DEF Agree, Off, Down, Notice
  <2>6. CASE conn.sock # "ACTIVE"
    <3>1. Agree(c)
      BY <2>3, <2>4, <2>6, <1>t, <1>a, AgreeSame
    <3>2. conn' = CallbackConnectFailed(c, FALSE, TRUE, out)
      BY <2>1, <2>6
    <3>3. Agree(conn') /\ Notice(c, conn')
      BY <3>2, <2>3, <2>4, <3>1, AgreeConnectFailed
    <3> QED
      BY <2>2, <2>3, <3>3 DEF Notice, UpperSame
  <2> QED
    BY <2>5, <2>6
<1>8. CASE PollSynack
  <2>1. conn.sock = "WAITING_SYNACK" /\ pc' = "select"
    BY <1>8 DEF PollSynack, Selecting
  <2>2. conn.fd = TRUE
    BY <2>1, <1>t, <1>a DEF Valid, Conn
  <2>3. CASE \E s \in {"WAITING_STARTTLS", "SEND_SIGNON"} :
               conn' = [conn EXCEPT !.sock = s, !.tls = "this"]
    <3>1. PICK s \in {"WAITING_STARTTLS", "SEND_SIGNON"} :
            conn' = [conn EXCEPT !.sock = s, !.tls = "this"]
      BY <2>3
    <3>2. UpperSame(conn, conn') /\ conn'.sock = s /\ conn'.fd = conn.fd
      BY <3>1, <1>t DEF UpperSame, Conn
    <3>3. Valid(conn')
      BY <2>2, <3>2 DEF Valid
    <3> QED
      BY <2>1, <3>2, <3>3, <1>same
  <2>4. CASE conn' = CallbackConnectFailed(SockClose(conn), FALSE, TRUE, "started")
    <3> DEFINE c == SockClose(conn)
    <3>1. c \in Conn /\ UpperSame(conn, c)
      BY <1>t, SockTypes, SockKeepsUpper
    <3>2. Valid(c) /\ c.sock = "NOTCONNECTED"
      BY <1>t, <1>a, SockDown
    <3>3. conn' = CallbackConnectFailed(c, FALSE, TRUE, "started")
      BY <2>4
    <3> HIDE DEF c
    <3>4. Agree(c)
      BY <2>1, <3>1, <3>2, <1>t, <1>a, AgreeSame
    <3>5. Agree(conn') /\ Notice(c, conn')
      BY <3>1, <3>2, <3>3, <3>4, AgreeConnectFailed
    <3> QED
      BY <2>1, <3>1, <3>5 DEF Notice, UpperSame
  <2>5. CASE conn' = Signon([conn EXCEPT !.sock = "SEND_SIGNON"], TRUE)
    <3>1. UpperSame(conn, conn') /\ conn'.sock = "WAITING_SIGNON" /\ conn'.fd = conn.fd
      BY <2>5, <1>t DEF Signon, SendPrintf, UpperSame, Conn
    <3>2. Valid(conn')
      BY <2>2, <3>1 DEF Valid
    <3> QED
      BY <2>1, <3>1, <3>2, <1>same
  <2> QED
    BY <1>8, <1>o, <2>3, <2>4, <2>5 DEF PollSynack
<1>9. CASE PollHandshake
  <2>1. conn.sock = "WAITING_STARTTLS" /\ pc = "select"
    BY <1>9 DEF PollHandshake, Selecting
  <2>2. CASE conn' = Signon(conn, TRUE)
    <3>1. UpperSame(conn, conn') /\ conn'.sock = "WAITING_SIGNON" /\ conn'.fd = conn.fd
      BY <2>2, <1>t DEF Signon, SendPrintf, UpperSame, Conn
    <3>2. Valid(conn')
      BY <2>1, <3>1, <1>a DEF Valid
    <3> QED
      BY <2>1, <3>1, <3>2, <1>same
  <2>3. CASE UNCHANGED conn
    BY <2>1, <2>3, <1>a DEF Notice
  <2> QED
    BY <1>9, <1>o, <2>2, <2>3 DEF PollHandshake
<1>10. CASE PollSignon \/ PollData
  <2>1. PICK n \in 0..(MaxPending - conn.pending), f \in BOOLEAN :
          \/ PollData /\ conn' = [conn EXCEPT !.pending = @ + n, !.frag = f]
          \/ /\ PollSignon
             /\ conn' = Signon([conn EXCEPT !.pending = @ + n, !.frag = f], TRUE)
    <3>1. CASE PollSignon
      BY <3>1, <1>o DEF PollSignon
    <3>2. CASE PollData
      <4>1. \E n \in 0..(MaxPending - conn.pending), f \in BOOLEAN :
              conn' = [conn EXCEPT !.pending = @ + n, !.frag = f]
        BY <3>2 DEF PollData
      <4> QED
        BY <3>2, <4>1
    <3> QED
      BY <1>10, <3>1, <3>2
  <2> DEFINE d == [conn EXCEPT !.pending = @ + n, !.frag = f]
  <2>2. UpperSame(conn, d) /\ d.sock = conn.sock /\ d.fd = conn.fd /\ d \in Conn
    <3>1. d \in Conn
      BY <1>t, ReceivedTyped
    <3> QED
      BY <1>t, <3>1 DEF UpperSame, Conn
  <2>3. \/ PollData /\ conn' = d
        \/ PollSignon /\ conn' = Signon(d, TRUE)
    BY <2>1
  <2> HIDE DEF d
  <2>4. CASE PollData /\ conn' = d
    <3>1. conn.sock # "NOTCONNECTED"
      BY <2>4 DEF PollData
    <3>2. Valid(conn')
      BY <2>2, <2>4, <1>a DEF Valid
    <3> QED
      BY <2>2, <2>4, <3>1, <3>2, <1>same
  <2>5. CASE PollSignon /\ conn' = Signon(d, TRUE)
    <3>1. conn.sock = "SEND_SIGNON"
      BY <2>5 DEF PollSignon
    <3>2. UpperSame(d, conn') /\ conn'.sock = "WAITING_SIGNON" /\ conn'.fd = d.fd
      BY <2>2, <2>5 DEF Signon, SendPrintf, UpperSame, Conn
    <3>3. UpperSame(conn, conn')
      BY <2>2, <3>2 DEF UpperSame
    <3>4. Valid(conn')
      BY <2>2, <3>1, <3>2, <1>a DEF Valid
    <3> QED
      BY <3>1, <3>2, <3>3, <3>4, <1>same
  <2> QED
    BY <2>3, <2>4, <2>5
<1>r. ASSUME Parsing
      PROVE  /\ Rest \in Conn /\ UpperSame(conn, Rest) /\ Rest.sock = conn.sock
             /\ Rest.fd = conn.fd /\ Agree(Rest) /\ conn.sock # "NOTCONNECTED"
             /\ SendPrintf(Rest, TRUE) = Rest
  <2>1. Rest \in Conn /\ UpperSame(conn, Rest) /\ Rest.sock = conn.sock /\ Rest.fd = conn.fd
    BY <1>r, <1>t, RestTyped, RestUpper
  <2>2. Agree(Rest)
    BY <2>1, <1>a DEF Agree, Up, Off, Valid, UpperSame
  <2> QED
    BY <1>r, <2>1, <2>2, <1>t DEF Parsing, SendPrintf
<1>12. CASE PingLine \/ OtherLine \/ BareLine \/ JoinLine
  <2>1. Parsing
    BY <1>12 DEF PingLine, OtherLine, BareLine, JoinLine
  <2>2. Rest \in Conn /\ UpperSame(conn, Rest) /\ Rest.sock = conn.sock /\ Rest.fd = conn.fd
        /\ conn.sock # "NOTCONNECTED" /\ SendPrintf(Rest, TRUE) = Rest
    BY <1>r, <2>1
  <2>3. CASE conn' = Rest
    <3>1. Valid(conn')
      BY <2>2, <2>3, <1>a DEF Valid
    <3> QED
      BY <2>2, <2>3, <3>1, <1>same
  <2>4. CASE conn' = [Rest EXCEPT !.roster = TRUE]
    <3>1. UpperSame(Rest, conn') /\ conn'.sock = Rest.sock /\ conn'.fd = Rest.fd
      BY <2>2, <2>4 DEF UpperSame, Conn
    <3>2. UpperSame(conn, conn')
      BY <2>2, <3>1 DEF UpperSame
    <3>3. Valid(conn')
      BY <2>2, <3>1, <1>a DEF Valid
    <3> QED
      BY <2>2, <3>1, <3>2, <3>3, <1>same
  <2>5. conn' = Rest \/ conn' = [Rest EXCEPT !.roster = TRUE]
    BY <1>12, <1>o, <2>2 DEF PingLine, OtherLine, BareLine, JoinLine, Continue, Return, Reliable
  <2> QED
    BY <2>3, <2>4, <2>5
<1>13. CASE SelfQuitLine
  <2>1. PICK out \in {"started", "unresolved"} : Continue(InternalDisconnect(Rest, TRUE, out))
    BY <1>13, <1>o DEF SelfQuitLine
  <2>2. Rest \in Conn /\ Agree(Rest) /\ UpperSame(conn, Rest) /\ Rest.sock # "NOTCONNECTED"
    BY <1>13, <1>r DEF SelfQuitLine
  <2>3. conn' = InternalDisconnect(Rest, TRUE, out)
    BY <2>1 DEF Continue
  <2>v. Valid(Rest)
    BY <2>2, AgreeMeans
  <2>4. Valid(conn') /\ conn'.sock = "NOTCONNECTED" /\ conn'.pending = 0
    BY <2>2, <2>v, <2>3, InternalDisconnectDown
  <2>5. pc' = "select"
    BY <2>1, <2>3, <2>4 DEF Continue
  <2>6. conn'.connected = "NOTCONNECTED"
    BY <2>2, <2>3, InternalDisconnectUpper
  <2>7. CASE Rest.connected = "ACTIVE"
    <3>1. conn'.online = -1 /\ conn'.scripts = FALSE
      BY <2>2, <2>3, <2>7, InternalDisconnectUpper
    <3>2. conn.online = 1
      BY <2>2, <2>7 DEF Agree, Up, Off, UpperSame
    <3> QED
      BY <2>4, <2>5, <2>6, <3>1, <3>2 DEF Agree, Off, Notice
  <2>8. CASE Rest.connected # "ACTIVE"
    <3>1. conn'.online = Rest.online /\ conn'.scripts = Rest.scripts
      BY <2>2, <2>3, <2>8, InternalDisconnectUpper
    <3>2. Rest.online # 1 /\ Rest.scripts = FALSE
      BY <2>2, <2>8 DEF Agree, Up, Off
    <3> QED
      BY <2>2, <2>4, <2>5, <2>6, <3>1, <3>2 DEF Agree, Off, Notice, UpperSame
  <2> QED
    BY <2>7, <2>8
<1>17. CASE RefusedLine \/ ErrorLine
  <2>1. PICK out \in {"started", "unresolved"}, badUser \in BOOLEAN :
          Return(CallbackConnectFailed(SendPrintf(Rest, TRUE), badUser, TRUE, out))
    BY <1>17, <1>o DEF RefusedLine, ErrorLine
  <2>2. Parsing /\ conn.connected # "ACTIVE"
    BY <1>17 DEF RefusedLine, ErrorLine, SigningOn, Reliable
  <2>3. Rest \in Conn /\ Agree(Rest) /\ UpperSame(conn, Rest) /\ Rest.sock # "ACTIVE"
    BY <2>2, <1>r, <1>a DEF Agree, Up, Off
  <2>4. conn' = CallbackConnectFailed(Rest, badUser, TRUE, out) /\ pc' = "select"
    BY <2>1, <2>2, <1>r DEF Return
  <2>5. Agree(conn') /\ Notice(Rest, conn')
    BY <2>3, <2>4, AgreeConnectFailed
  <2> QED
    BY <2>3, <2>4, <2>5 DEF Notice, UpperSame
<1>19. CASE MotdEndLine
  <2> DEFINE d == [Rest EXCEPT !.connected = "WAITING_SIGNON"]
             m == [d EXCEPT !.sock = "ACTIVE"]
             u == CallbackConnected(m)
  <2>1. Parsing /\ conn.connected # "ACTIVE"
    BY <1>19 DEF MotdEndLine, SigningOn, Reliable
  <2>2. Continue(SendPrintf(u, TRUE))
    BY <1>19, <1>o DEF MotdEndLine, CallbackDoinit, SendPrintf
  <2>3. Rest \in Conn /\ Rest.fd = conn.fd /\ conn.sock # "NOTCONNECTED"
    BY <2>1, <1>r
  <2>4. conn.fd = TRUE
    BY <2>3, <1>t, <1>a DEF Valid, Conn
  <2>5. u.connected = "ACTIVE" /\ u.online = 1 /\ u.scripts = TRUE
        /\ u.sock = "ACTIVE" /\ u.fd = TRUE
    BY <2>3, <2>4 DEF CallbackConnected, Conn
  <2> HIDE DEF u
  <2>6. conn' = u
    BY <2>2 DEF Continue, SendPrintf
  <2>7. conn.online # 1
    BY <2>1, <1>a DEF Agree, Up, Off
  <2> QED
    BY <2>5, <2>6, <2>7 DEF Agree, Up, Notice
<1>20. CASE UNCHANGED vars
  BY <1>20, <1>t, <1>a DEF vars, Notice
<1> QED
  BY <1>1, <1>2, <1>3, <1>4, <1>6, <1>7, <1>8, <1>9, <1>10, <1>12, <1>13, <1>17,
     <1>19, <1>20 DEF Next, User, Poll, Line

LEMMA AgreedInductive ==
  ASSUME Reliable, Agreed, [Next]_vars
  PROVE  Agreed'
<1>1. Typed' /\ conn' \in Conn
  BY TypedInductive DEF Agreed, Typed, TypeOK
<1>2. Agree(conn') /\ (pc' # "select" => conn'.sock # "NOTCONNECTED")
  BY AgreeStep
<1>3. /\ Valid(conn')
      /\ conn'.online > 0 <=> conn'.connected = "ACTIVE"
      /\ conn'.connected = "ACTIVE" <=> conn'.sock = "ACTIVE"
      /\ conn'.scripts <=> conn'.online > 0
  BY <1>1, <1>2, AgreeMeans
<1> QED
  BY <1>1, <1>2, <1>3 DEF Agreed, LayersAgree, ScriptsInSync

LEMMA AgreedInit == Init => Agreed
<1> SUFFICES ASSUME Init PROVE Agreed
  OBVIOUS
<1>1. Typed
  BY SessionAssumption DEF Init, Typed, TypeOK, Conn, SockStates
<1>2. PICK a \in BOOLEAN :
        conn = [online |-> 0, auto |-> a, scripts |-> FALSE,
                connected |-> "NOTCONNECTED", roster |-> FALSE,
                sock |-> "NOTCONNECTED", fd |-> FALSE, tls |-> "none",
                pending |-> 0, frag |-> FALSE, peer |-> "open"]
  BY DEF Init
<1>3. Off(conn)
  BY <1>2 DEF Off, Valid
<1>4. /\ Valid(conn)
      /\ conn.online > 0 <=> conn.connected = "ACTIVE"
      /\ conn.connected = "ACTIVE" <=> conn.sock = "ACTIVE"
      /\ conn.scripts <=> conn.online > 0
  BY <1>1, <1>3, AgreeMeans DEF Agree, Typed, TypeOK
<1>5. pc = "select"
  BY DEF Init
<1> QED
  BY <1>1, <1>4, <1>5 DEF Agreed, LayersAgree, ScriptsInSync

(* On a network whose sends do not fail and with an orderly server, with or
   without TLS, the client, the wrapper and the driver agree whether the session
   is up between any two steps. *)
THEOREM LayersAlwaysAgree == Reliable => (Spec => []LayersAgree)
<1> SUFFICES ASSUME Reliable PROVE Spec => []LayersAgree
  OBVIOUS
<1>1. Agreed /\ [Next]_vars => Agreed'
  BY AgreedInductive
<1>2. Agreed => LayersAgree
  BY DEF Agreed
<1> QED
  BY AgreedInit, <1>1, <1>2, PTL DEF Spec

(* Under the same conditions no assertion about the socket fails. *)
THEOREM SockAlwaysValid == Reliable => (Spec => []SockValid)
<1> SUFFICES ASSUME Reliable PROVE Spec => []SockValid
  OBVIOUS
<1>1. Agreed /\ [Next]_vars => Agreed'
  BY AgreedInductive
<1>2. Agreed => SockValid
  BY DEF Agreed, SockValid
<1> QED
  BY AgreedInit, <1>1, <1>2, PTL DEF Spec

(* Under the same conditions the client and the scripts are told of a session's
   life as SessionNotices promises. *)
THEOREM NoticesKept == Reliable => (Spec => NoticesSpec)
<1> SUFFICES ASSUME Reliable PROVE Spec => NoticesSpec
  OBVIOUS
<1>1. Agreed /\ [Next]_vars => Agreed'
  BY AgreedInductive
<1>2. Init => Notices!NoticesInit
  <2> SUFFICES ASSUME Init PROVE Notices!NoticesInit
    OBVIOUS
  <2>1. conn.online = 0 /\ conn.scripts = FALSE
    BY DEF Init
  <2> QED
    BY <2>1 DEF Notices!NoticesInit
<1>3. Agreed /\ [Next]_vars
        => [Notices!NoticesNext]_(Notices!noticeVars)
  <2> SUFFICES ASSUME Agreed, [Next]_vars
               PROVE  [Notices!NoticesNext]_(Notices!noticeVars)
    OBVIOUS
  <2>1. Notice(conn, conn')
    BY AgreeStep
  <2>2. conn.online \in {-1, 0, 1} /\ conn.scripts \in BOOLEAN
    BY DEF Agreed, Typed, TypeOK, Conn
  <2>3. CASE conn'.online = conn.online /\ conn'.scripts = conn.scripts
    BY <2>3 DEF Notices!noticeVars
  <2>4. CASE conn.online = 1 /\ conn'.online = -1 /\ conn'.scripts = FALSE
    BY <2>4 DEF Notices!NoticesNext, Notices!Disconnected
  <2>5. CASE conn.online # 1 /\ conn'.online = 1 /\ conn'.scripts = TRUE
    BY <2>2, <2>5 DEF Notices!NoticesNext, Notices!Connected
  <2>6. CASE conn'.online = 0 /\ conn'.scripts = FALSE /\ conn.online # 0
    BY <2>2, <2>6 DEF Notices!NoticesNext, Notices!Closed
  <2>7. CASE conn'.online = 0 /\ conn'.scripts = FALSE /\ conn.online = 0
    <3>1. ~conn.scripts
      BY <2>7 DEF Agreed, ScriptsInSync
    <3>2. conn.scripts = FALSE
      BY <3>1, <2>2
    <3> QED
      BY <2>7, <3>2 DEF Notices!noticeVars
  <2> QED
    BY <2>1, <2>3, <2>4, <2>5, <2>6, <2>7 DEF Notice
<1> QED
  BY AgreedInit, <1>1, <1>2, <1>3, PTL DEF Spec, NoticesSpec, Notices!NoticesSpec

(* Under the same conditions the client is told that it is connected only while
   it shows the session as down: fireio_connected never finds online set. *)
THEOREM ConnectedOnce == Reliable => (Spec => OneConnectedNotice)
<1> SUFFICES ASSUME Reliable PROVE Spec => OneConnectedNotice
  OBVIOUS
<1>1. Agreed /\ [Next]_vars => Agreed'
  BY AgreedInductive
<1>2. Agreed => (MotdEndLine => conn.online <= 0)
  <2> SUFFICES ASSUME Agreed, MotdEndLine PROVE conn.online <= 0
    OBVIOUS
  <2>1. conn.connected # "ACTIVE"
    BY DEF MotdEndLine, SigningOn, Reliable
  <2>2. ~(conn.online > 0) /\ conn.online \in {-1, 0, 1}
    BY <2>1 DEF Agreed, LayersAgree, Typed, TypeOK, Conn
  <2> QED
    BY <2>2
<1> QED
  BY AgreedInit, <1>1, <1>2, PTL DEF Spec, OneConnectedNotice

(* What firetalk_disconnect leaves of a session the driver still has. *)
LEMMA FtDisconnectClears ==
  ASSUME NEW c \in Conn, Valid(c), c.connected # "NOTCONNECTED", c.sock # "NOTCONNECTED"
  PROVE  LET d == FtDisconnect(c, TRUE)
         IN  d.sock = "NOTCONNECTED" /\ d.pending = 0 /\ ~d.frag /\ ~d.roster
<1> DEFINE d == [c EXCEPT !.connected = "NOTCONNECTED"]
           t == CallbackUserDisconnect(d)
           k == SockClose(t)
<1>1. d \in Conn /\ Valid(d) /\ d.sock = c.sock /\ SendPrintf(d, TRUE) = d
  BY DEF Valid, SendPrintf, Conn
<1> HIDE DEF d
<1>2. t \in Conn
  BY <1>1, DisconnectTypes
<1>3. Valid(t) /\ ~t.roster
  BY <1>1 DEF CallbackUserDisconnect, MarkLost, Valid, Conn
<1> HIDE DEF t
<1>4. k \in Conn /\ Valid(k) /\ k.sock = "NOTCONNECTED" /\ k.roster = t.roster
  <2>1. k \in Conn
    BY <1>2, SockTypes
  <2>2. Valid(k) /\ k.sock = "NOTCONNECTED" /\ k.roster = t.roster
    BY <1>2, <1>3 DEF SockClose, Valid, Conn
  <2> QED
    BY <2>1, <2>2
<1> HIDE DEF k
<1>5. Renew(k).sock = "NOTCONNECTED" /\ Renew(k).pending = 0
      /\ ~Renew(k).frag /\ Renew(k).roster = t.roster
  BY <1>4 DEF Renew, Conn
<1>6. FtDisconnect(c, TRUE) = Renew(k)
  BY <1>1 DEF FtDisconnect, IrcDisconnect, d, t, k
<1> QED
  BY <1>3, <1>5, <1>6

(* Under the same conditions /disconnect of a session leaves nothing of it: no
   socket, no unread line or part of one, no rooms and no online buddies. *)
THEOREM DisconnectClears == Reliable => (Spec => DisconnectEndsSession)
<1> SUFFICES ASSUME Reliable PROVE Spec => DisconnectEndsSession
  OBVIOUS
<1>1. Agreed /\ [Next]_vars => Agreed'
  BY AgreedInductive
<1>2. Agreed => (UserDisconnect /\ conn.online > 0 =>
                   /\ conn'.sock = "NOTCONNECTED"
                   /\ conn'.pending = 0 /\ ~conn'.frag
                   /\ ~conn'.roster)
  <2> SUFFICES ASSUME Agreed, UserDisconnect, conn.online > 0
               PROVE  /\ conn'.sock = "NOTCONNECTED"
                      /\ conn'.pending = 0 /\ ~conn'.frag
                      /\ ~conn'.roster
    OBVIOUS
  <2> DEFINE e == FtDisconnect(conn, TRUE)
  <2>1. conn \in Conn /\ Valid(conn) /\ conn.connected = "ACTIVE" /\ conn.sock = "ACTIVE"
    BY DEF Agreed, LayersAgree, Typed, TypeOK
  <2>2. e \in Conn /\ e.sock = "NOTCONNECTED" /\ e.pending = 0 /\ ~e.frag /\ ~e.roster
    BY <2>1, DisconnectTypes, FtDisconnectClears
  <2>3. conn' = [e EXCEPT !.online = 0, !.scripts = FALSE]
    BY <2>1, ReliableOutcomes DEF UserDisconnect
  <2> HIDE DEF e
  <2> QED
    BY <2>2, <2>3 DEF Conn
<1> QED
  BY AgreedInit, <1>1, <1>2, PTL DEF Spec, DisconnectEndsSession

-----------------------------------------------------------------------------
(* Whatever the network and the server do, only an ACTIVE wrapper reports a loss,
   and by ActiveImpliesOnline its client shows the session as up. *)

LEMMA LostFromActive ==
  ASSUME Typed, [Next]_vars
  PROVE  conn'.online = -1 => conn.online = -1 \/ conn.connected = "ACTIVE"
<1>t. conn \in Conn
  BY DEF Typed, TypeOK
<1> DEFINE Goal == conn'.online = -1 => conn.online = -1 \/ conn.connected = "ACTIVE"
<1>s. ASSUME conn'.online = conn.online PROVE Goal
  BY <1>s
<1>c. ASSUME NEW sent \in SendOutcome, NEW out, conn' = UaConnect(conn, sent, out)
      PROVE  Goal
  BY <1>c, <1>t, Outcomes, UaConnectUpper
<1>1. CASE UserConnect
  BY <1>1, <1>c DEF UserConnect
<1>2. CASE UserDisconnect
  <2>1. PICK sent \in SendOutcome :
          \/ conn' = [FtDisconnect(conn, sent) EXCEPT !.online = 0, !.scripts = FALSE]
          \/ conn' = [conn EXCEPT !.online = 0]
    BY <1>2 DEF UserDisconnect
  <2>2. FtDisconnect(conn, sent) \in Conn
    BY <1>t, Outcomes, DisconnectTypes
  <2>3. conn'.online = 0
    BY <2>1, <2>2, <1>t DEF Conn
  <2> QED
    BY <2>3
<1>3. CASE UserSetAutoreconnect
  BY <1>3, <1>t DEF UserSetAutoreconnect, Conn
<1>4. CASE UserSend
  BY <1>4, <1>t, <1>s, SockKeepsUpper DEF UserSend, UpperSame
<1>5. CASE Periodic
  BY <1>5, <1>c DEF Periodic
<1>6. CASE PeerLost
  BY <1>6, <1>t DEF PeerLost, Conn
<1>7. CASE PollError
  <2> DEFINE k == SockClose(conn)
  <2>1. PICK sent \in SendOutcome, out \in ConnectOutcome :
          \/ conn' = CallbackDisconnect(k, sent, out)
          \/ conn' = CallbackConnectFailed(k, FALSE, sent, out)
    BY <1>7 DEF PollError
  <2>2. k \in Conn /\ UpperSame(conn, k)
    BY <1>t, SockTypes, SockKeepsUpper
  <2> HIDE DEF k
  <2>3. sent \in BOOLEAN
    BY Outcomes
  <2>4. k.online = conn.online /\ k.connected = conn.connected
    BY <2>2 DEF UpperSame
  <2>5. CASE conn' = CallbackDisconnect(k, sent, out)
    <3>1. conn.connected # "ACTIVE" => conn'.online = k.online
      BY <2>2, <2>3, <2>4, <2>5, CallbackDisconnectUpper
    <3> QED
      BY <3>1, <2>4
  <2>6. CASE conn' = CallbackConnectFailed(k, FALSE, sent, out)
    <3>1. conn'.online = k.online
      BY <2>2, <2>3, <2>6, ConnectFailedUpper
    <3> QED
      BY <3>1, <2>4
  <2> QED
    BY <2>1, <2>5, <2>6
<1>8. CASE PollSynack
  <2>1. \A s \in {"WAITING_STARTTLS", "SEND_SIGNON"} :
          /\ [conn EXCEPT !.sock = s, !.tls = "this"].online = conn.online
          /\ UpperSame(conn, [conn EXCEPT !.sock = s])
          /\ [conn EXCEPT !.sock = s] \in Conn
    BY <1>t DEF UpperSame, Conn, SockStates
  <2>2. CallbackConnectFailed(SockClose(conn), FALSE, TRUE, "started").online = conn.online
    <3>1. SockClose(conn) \in Conn /\ UpperSame(conn, SockClose(conn))
      BY <1>t, SockTypes, SockKeepsUpper
    <3> QED
      BY <3>1, ConnectFailedUpper DEF UpperSame
  <2>3. \A sent \in SendOutcome :
          Signon([conn EXCEPT !.sock = "SEND_SIGNON"], sent).online = conn.online
    BY <2>1, Outcomes, SignonUpper DEF UpperSame
  <2> QED
    BY <1>8, <1>s, <2>1, <2>2, <2>3 DEF PollSynack
<1>9. CASE PollHandshake
  BY <1>9, <1>t, <1>s, Outcomes, SignonUpper DEF PollHandshake, UpperSame
<1>10. CASE PollSignon \/ PollData
  <2>1. PICK n \in 0..(MaxPending - conn.pending), f \in BOOLEAN, sent \in BOOLEAN :
          \/ conn' = [conn EXCEPT !.pending = @ + n, !.frag = f]
          \/ conn' = Signon([conn EXCEPT !.pending = @ + n, !.frag = f], sent)
    <3>1. CASE PollSignon
      BY <3>1, Outcomes DEF PollSignon
    <3>2. CASE PollData
      BY <3>2 DEF PollData
    <3> QED
      BY <1>10, <3>1, <3>2
  <2> DEFINE d == [conn EXCEPT !.pending = @ + n, !.frag = f]
  <2>2. d \in Conn /\ UpperSame(conn, d)
    BY <1>t, ReceivedTyped, ReceivedUpper
  <2>3. conn' = d \/ conn' = Signon(d, sent)
    BY <2>1
  <2> HIDE DEF d
  <2> QED
    BY <2>2, <2>3, SignonUpper DEF UpperSame
<1>p. ASSUME Parsing PROVE Rest \in Conn /\ UpperSame(conn, Rest)
  BY <1>p, RestTyped, RestUpper
<1>12. CASE PingLine \/ SelfQuitLine
  <2>1. PICK sent \in BOOLEAN, out \in ConnectOutcome :
          conn' = InternalDisconnect(Rest, sent, out) \/ conn' = SendPrintf(Rest, sent)
    BY <1>12, Outcomes DEF PingLine, SelfQuitLine, Continue, Return, ConnectOutcome
  <2>2. Rest \in Conn /\ UpperSame(conn, Rest)
    BY <1>12, <1>p DEF PingLine, SelfQuitLine
  <2>3. Rest.online = conn.online /\ Rest.connected = conn.connected
    BY <2>2 DEF UpperSame
  <2>4. CASE conn' = InternalDisconnect(Rest, sent, out)
    <3>1. conn.connected # "ACTIVE" => conn'.online = Rest.online
      BY <2>2, <2>3, <2>4, InternalDisconnectUpper
    <3> QED
      BY <3>1, <2>3
  <2>5. CASE conn' = SendPrintf(Rest, sent)
    BY <2>2, <2>3, <2>5, SockKeepsUpper DEF UpperSame
  <2> QED
    BY <2>1, <2>4, <2>5
<1>14. CASE JoinLine \/ OtherLine \/ BareLine
  <2>1. Rest \in Conn /\ UpperSame(conn, Rest)
    BY <1>14, <1>p DEF JoinLine, OtherLine, BareLine
  <2>2. conn' = Rest \/ conn' = [Rest EXCEPT !.roster = TRUE]
    BY <1>14 DEF JoinLine, OtherLine, BareLine, Continue, Return
  <2> QED
    BY <2>1, <2>2 DEF UpperSame, Conn
<1>17. CASE RefusedLine \/ ErrorLine
  <2>1. PICK badUser \in BOOLEAN, sent \in SendOutcome, out \in ConnectOutcome :
          conn' = CallbackConnectFailed(SendPrintf(Rest, sent), badUser, sent, out)
    BY <1>17 DEF RefusedLine, ErrorLine, Return, ConnectOutcome
  <2>2. Rest \in Conn /\ UpperSame(conn, Rest)
    BY <1>17, <1>p DEF RefusedLine, ErrorLine, SigningOn
  <2>3. SendPrintf(Rest, sent) \in Conn /\ UpperSame(Rest, SendPrintf(Rest, sent))
    BY <2>2, Outcomes, SockTypes, SockKeepsUpper
  <2> QED
    BY <2>1, <2>2, <2>3, Outcomes, ConnectFailedUpper DEF UpperSame
<1>19. CASE MotdEndLine
  <2>1. PICK away \in SendOutcome, sent \in SendOutcome :
          conn' = SendPrintf(CallbackConnected(
            [CallbackDoinit(Rest, away) EXCEPT !.sock = "ACTIVE"]), sent)
    BY <1>19 DEF MotdEndLine, Continue
  <2>2. Rest \in Conn
    BY <1>19, <1>p DEF MotdEndLine, SigningOn
  <2>3. conn'.online = 1
    BY <2>1, <2>2, Outcomes, MotdEndUpper
  <2> QED
    BY <2>3
<1>20. CASE UNCHANGED vars
  BY <1>20 DEF vars
<1> QED
  BY <1>1, <1>2, <1>3, <1>4, <1>5, <1>6, <1>7, <1>8, <1>9, <1>10, <1>12, <1>14,
     <1>17, <1>19, <1>20 DEF Next, User, Poll, Line

(* Whatever the network and the server do, only a session that was online is
   ever reported lost, so the timer reconnects nothing that never was up. *)
THEOREM LossesAreReal == Spec => LostOnlyFromOnline
<1>1. Init => Typed /\ ActiveImpliesOnline
  <2>1. Init => Typed
    BY SessionAssumption DEF Init, Typed, TypeOK, Conn, SockStates
  <2>2. Init => conn.connected = "NOTCONNECTED"
    BY DEF Init
  <2> QED
    BY <2>1, <2>2 DEF ActiveImpliesOnline
<1>2. Typed /\ ActiveImpliesOnline /\ [Next]_vars => (Typed /\ ActiveImpliesOnline)'
  BY TypedInductive, ActiveImpliesOnlineInductive
<1>3. Typed /\ ActiveImpliesOnline /\ [Next]_vars
        => [conn.online # -1 /\ conn'.online = -1 => conn.online > 0]_vars
  BY LostFromActive DEF ActiveImpliesOnline
<1> QED
  BY <1>1, <1>2, <1>3, PTL DEF Spec, LostOnlyFromOnline

-----------------------------------------------------------------------------
(* With ?tls nothing is sent in the clear.  SignonUnderTls speaks of the two
   states in which the session's lines are sent; the two before them need the
   same, and a loop over the buffer must not meet a socket that is still
   connecting, or the end of the MOTD would make that one ACTIVE. *)

Shielded(c) ==
  c.fd /\ c.sock \notin {"NOTCONNECTED", "WAITING_SYNACK"} => c.tls # "none"

TlsHeld ==
  /\ Typed
  /\ Tls => Shielded(conn)
  /\ pc # "select" /\ Valid(conn) => conn.sock # "WAITING_SYNACK"

LEMMA SockShielded ==
  ASSUME NEW c \in Conn, Shielded(c), NEW sent \in BOOLEAN, NEW out
  PROVE  /\ Shielded(SockClose(c))
         /\ Shielded(SendPrintf(c, sent))
         /\ Shielded(SockConnect(c, out))
         /\ Shielded(Renew(c))
<1>1. Shielded(SockClose(c))
  BY DEF Shielded, SockClose, Conn
<1>2. Shielded(SendPrintf(c, sent))
  BY <1>1 DEF SendPrintf
<1>3. Shielded(SockConnect(c, out))
  BY DEF Shielded, SockConnect, Conn
<1>4. Shielded(Renew(c))
  BY DEF Shielded, Renew, Conn
<1> QED
  BY <1>1, <1>2, <1>3, <1>4

(* The layers above the socket touch neither its descriptor nor its state. *)
SockSame(c, d) == d.fd = c.fd /\ d.sock = c.sock /\ d.tls = c.tls

LEMMA ShieldedSame ==
  ASSUME NEW c, NEW d, SockSame(c, d), Shielded(c)
  PROVE  Shielded(d)
BY DEF Shielded, SockSame

LEMMA UpperShielded ==
  ASSUME NEW c \in Conn, NEW s
  PROVE  /\ SockSame(c, MarkLost(c))
         /\ SockSame(c, CallbackUserDisconnect(c))
         /\ SockSame(c, [c EXCEPT !.connected = s])
         /\ SockSame(c, [c EXCEPT !.roster = FALSE])
         /\ SockSame(c, CallbackConnected(c))
<1>1. SockSame(c, MarkLost(c))
  BY DEF SockSame, MarkLost, Conn
<1>2. SockSame(c, CallbackUserDisconnect(c))
  BY DEF SockSame, CallbackUserDisconnect, MarkLost, Conn
<1>3. SockSame(c, [c EXCEPT !.connected = s])
  BY DEF SockSame, Conn
<1>4. SockSame(c, [c EXCEPT !.roster = FALSE])
  BY DEF SockSame, Conn
<1>5. SockSame(c, CallbackConnected(c))
  BY DEF SockSame, CallbackConnected, Conn
<1> QED
  BY <1>1, <1>2, <1>3, <1>4, <1>5

LEMMA FtDisconnectShielded ==
  ASSUME NEW c \in Conn, Shielded(c), NEW sent \in BOOLEAN
  PROVE  Shielded(FtDisconnect(c, sent))
<1>1. CASE c.connected = "NOTCONNECTED"
  BY <1>1 DEF FtDisconnect
<1>2. CASE c.connected # "NOTCONNECTED"
  <2> DEFINE d == [c EXCEPT !.connected = "NOTCONNECTED"]
             q == SendPrintf(d, sent)
             t == IF q.sock # "NOTCONNECTED" THEN CallbackUserDisconnect(q) ELSE q
             k == SockClose(t)
  <2>1. d \in Conn /\ Shielded(d)
    <3>1. d \in Conn
      BY DEF Conn
    <3> QED
      BY <3>1, UpperShielded, ShieldedSame
  <2> HIDE DEF d
  <2>2. q \in Conn /\ Shielded(q)
    BY <2>1, SockTypes, SockShielded
  <2> HIDE DEF q
  <2>3. t \in Conn /\ Shielded(t)
    BY <2>2, DisconnectTypes, UpperShielded, ShieldedSame
  <2> HIDE DEF t
  <2>4. k \in Conn /\ Shielded(k)
    BY <2>3, SockTypes, SockShielded
  <2> HIDE DEF k
  <2>5. FtDisconnect(c, sent) = Renew(k)
    BY <1>2 DEF FtDisconnect, IrcDisconnect, d, q, t, k
  <2> QED
    BY <2>4, <2>5, SockShielded
<1> QED
  BY <1>1, <1>2

LEMMA UaConnectShielded ==
  ASSUME NEW c \in Conn, Shielded(c), NEW sent \in BOOLEAN, NEW out
  PROVE  Shielded(UaConnect(c, sent, out))
<1> DEFINE e == FtDisconnect(c, sent)
           d == [e EXCEPT !.connected = "WAITING_SIGNON"]
<1>1. e \in Conn /\ Shielded(e)
  BY DisconnectTypes, FtDisconnectShielded
<1> HIDE DEF e
<1>2. d \in Conn /\ Shielded(d)
  <2>1. d \in Conn
    BY <1>1 DEF Conn
  <2> QED
    BY <1>1, <2>1, UpperShielded, ShieldedSame
<1> HIDE DEF d
<1>3. Shielded(SockConnect(d, out))
  BY <1>2, SockShielded
<1>4. UaConnect(c, sent, out) = c \/ UaConnect(c, sent, out) = SockConnect(d, out)
  BY DEF UaConnect, FtSignon, d, e
<1> QED
  BY <1>3, <1>4

LEMMA CallbackShielded ==
  ASSUME NEW c \in Conn, Shielded(c), NEW sent \in BOOLEAN, NEW out, NEW badUser \in BOOLEAN
  PROVE  /\ Shielded(CallbackDisconnect(c, sent, out))
         /\ Shielded(InternalDisconnect(c, sent, out))
         /\ Shielded(CallbackConnectFailed(c, badUser, sent, out))
<1>1. Shielded(CallbackDisconnect(c, sent, out))
  <2> DEFINE e == [c EXCEPT !.roster = FALSE]
             l == MarkLost(e)
             r == FireioDisconnected(e, sent, out)
             n == IF c.connected = "ACTIVE" THEN r ELSE e
  <2>1. e \in Conn /\ Shielded(e)
    <3>1. e \in Conn
      BY DEF Conn
    <3> QED
      BY <3>1, UpperShielded, ShieldedSame
  <2> HIDE DEF e
  <2>2. l \in Conn /\ Shielded(l)
    BY <2>1, SockTypes, UpperShielded, ShieldedSame
  <2>3. r = l \/ r = UaConnect(l, sent, out)
    BY DEF FireioDisconnected
  <2> HIDE DEF l
  <2>4. r \in Conn
    BY <2>1, CallbackTypes
  <2> HIDE DEF r
  <2>5. Shielded(r)
    BY <2>2, <2>3, UaConnectShielded
  <2>6. n \in Conn /\ Shielded(n)
    BY <2>1, <2>4, <2>5
  <2>7. CallbackDisconnect(c, sent, out) = [n EXCEPT !.connected = "NOTCONNECTED"]
    BY DEF CallbackDisconnect, n, r, e
  <2> HIDE DEF n
  <2> QED
    BY <2>6, <2>7, UpperShielded, ShieldedSame
<1>2. Shielded(InternalDisconnect(c, sent, out))
  <2> DEFINE t == IF c.sock # "NOTCONNECTED" THEN CallbackDisconnect(c, sent, out) ELSE c
             k == SockClose(t)
  <2>1. t \in Conn /\ Shielded(t)
    BY <1>1, CallbackTypes
  <2> HIDE DEF t
  <2>2. k \in Conn /\ Shielded(k)
    BY <2>1, SockTypes, SockShielded
  <2> HIDE DEF k
  <2>3. InternalDisconnect(c, sent, out) = Renew(k)
    BY DEF InternalDisconnect, t, k
  <2> QED
    BY <2>2, <2>3, SockShielded
<1>3. Shielded(CallbackConnectFailed(c, badUser, sent, out))
  <2> DEFINE f == [c EXCEPT !.connected = "NOTCONNECTED"]
  <2>1. f \in Conn /\ Shielded(f)
    <3>1. f \in Conn
      BY DEF Conn
    <3> QED
      BY <3>1, UpperShielded, ShieldedSame
  <2> HIDE DEF f
  <2>2. \/ CallbackConnectFailed(c, badUser, sent, out) \in {c, f}
        \/ CallbackConnectFailed(c, badUser, sent, out) = UaConnect(f, sent, out)
    BY DEF CallbackConnectFailed, f
  <2> QED
    BY <2>1, <2>2, UaConnectShielded
<1> QED
  BY <1>1, <1>2, <1>3

(* Once a descriptor is shielded, or there is none, its sign-on is. *)
LEMMA SignonShielded ==
  ASSUME NEW c \in Conn, c.fd => c.tls # "none", NEW sent \in BOOLEAN,
         NEW s \in {"WAITING_SIGNON", "ACTIVE"}
  PROVE  /\ Shielded([SendPrintf(c, sent) EXCEPT !.sock = s])
         /\ Shielded(Signon(c, sent))
<1> DEFINE q == SendPrintf(c, sent)
<1>1. SockClose(c).fd => SockClose(c).tls # "none"
  BY DEF SockClose, Conn
<1>2. q \in Conn /\ (q.fd => q.tls # "none")
  BY <1>1, SockTypes DEF SendPrintf
<1> HIDE DEF q
<1>3. Shielded([q EXCEPT !.sock = s]) /\ Shielded([q EXCEPT !.sock = "WAITING_SIGNON"])
  BY <1>2 DEF Shielded, Conn
<1> QED
  BY <1>3 DEF q, Signon

(* What a loop over the buffer leaves of the socket's state. *)
LEMMA LoopSock ==
  ASSUME NEW c \in Conn, NEW sent \in BOOLEAN, NEW out
  PROVE  /\ SendPrintf(c, sent).sock \in {c.sock, "NOTCONNECTED"}
         /\ LET d == InternalDisconnect(c, sent, out)
            IN  Valid(d) => d.sock = "NOTCONNECTED"
<1>1. ASSUME NEW d \in Conn
      PROVE  /\ SockClose(d).sock \in {d.sock, "NOTCONNECTED"}
             /\ Valid(SockClose(d)) => SockClose(d).sock = "NOTCONNECTED"
  BY DEF SockClose, Valid, Conn
<1>2. SendPrintf(c, sent).sock \in {c.sock, "NOTCONNECTED"}
  BY <1>1 DEF SendPrintf
<1>3. ASSUME NEW d \in Conn
      PROVE  Renew(d).sock = d.sock /\ Renew(d).fd = d.fd
  BY DEF Renew, Conn
<1> DEFINE t == IF c.sock # "NOTCONNECTED" THEN CallbackDisconnect(c, sent, out) ELSE c
<1>4. t \in Conn
  BY CallbackTypes
<1>5. InternalDisconnect(c, sent, out) = Renew(SockClose(t))
  BY DEF InternalDisconnect
<1> HIDE DEF t
<1>6. SockClose(t) \in Conn
  BY <1>4, SockTypes
<1>7. Valid(Renew(SockClose(t))) => Renew(SockClose(t)).sock = "NOTCONNECTED"
  BY <1>1, <1>3, <1>4, <1>6 DEF Valid
<1> QED
  BY <1>2, <1>5, <1>7

LEMMA TlsStep ==
  ASSUME TlsHeld, [Next]_vars
  PROVE  /\ Tls => Shielded(conn')
         /\ pc' # "select" /\ Valid(conn') => conn'.sock # "WAITING_SYNACK"
<1> DEFINE Kept == Tls => Shielded(conn')
           Loop == pc' # "select" /\ Valid(conn') => conn'.sock # "WAITING_SYNACK"
<1>t. Typed /\ conn \in Conn
  BY DEF TlsHeld, Typed, TypeOK
<1>h. Tls => Shielded(conn)
  BY DEF TlsHeld
<1>0. ASSUME Selecting, UNCHANGED pc PROVE Loop
  BY <1>0 DEF Selecting
<1>s. ASSUME SockSame(conn, conn') PROVE Kept
  BY <1>s, <1>h, ShieldedSame
<1>1. CASE UserConnect \/ Periodic
  <2>1. PICK sent \in SendOutcome, out \in ConnectOutcome :
          conn' = UaConnect(conn, sent, out)
    BY <1>1 DEF UserConnect, Periodic
  <2>2. Kept
    BY <2>1, <1>t, <1>h, Outcomes, UaConnectShielded
  <2> QED
    BY <1>1, <2>2, <1>0 DEF UserConnect, Periodic
<1>2. CASE UserDisconnect
  <2>1. PICK sent \in SendOutcome :
          \/ conn' = [FtDisconnect(conn, sent) EXCEPT !.online = 0, !.scripts = FALSE]
          \/ conn' = [conn EXCEPT !.online = 0]
    BY <1>2 DEF UserDisconnect
  <2> DEFINE e == FtDisconnect(conn, sent)
  <2>2. e \in Conn /\ (Tls => Shielded(e))
    BY <1>t, <1>h, Outcomes, DisconnectTypes, FtDisconnectShielded
  <2>3. conn' = [e EXCEPT !.online = 0, !.scripts = FALSE] \/ conn' = [conn EXCEPT !.online = 0]
    BY <2>1
  <2> HIDE DEF e
  <2>4. SockSame(e, conn') \/ SockSame(conn, conn')
    BY <2>2, <2>3, <1>t DEF SockSame, Conn
  <2>5. Kept
    BY <2>2, <2>4, <1>h, ShieldedSame
  <2> QED
    BY <1>2, <2>5, <1>0 DEF UserDisconnect
<1>3. CASE UserSetAutoreconnect
  <2>1. Kept
    BY <1>3, <1>t, <1>s DEF UserSetAutoreconnect, SockSame, Conn
  <2> QED
    BY <1>3, <2>1, <1>0 DEF UserSetAutoreconnect
<1>4. CASE UserSend
  <2>1. Kept
    BY <1>4, <1>t, <1>h, SockShielded DEF UserSend
  <2> QED
    BY <1>4, <2>1, <1>0 DEF UserSend
<1>6. CASE PeerLost
  <2>1. SockSame(conn, conn') /\ conn.sock # "WAITING_SYNACK"
    BY <1>6, <1>t DEF PeerLost, SockSame, Conn
  <2> QED
    BY <2>1, <1>s DEF SockSame
<1>7. CASE PollError
  <2> DEFINE k == SockClose(conn)
  <2>1. PICK sent \in SendOutcome, out \in ConnectOutcome :
          \/ conn' = CallbackDisconnect(k, sent, out)
          \/ conn' = CallbackConnectFailed(k, FALSE, sent, out)
    BY <1>7 DEF PollError
  <2>2. k \in Conn /\ (Tls => Shielded(k))
    BY <1>t, <1>h, SockTypes, SockShielded
  <2> HIDE DEF k
  <2>3. Kept
    BY <2>1, <2>2, Outcomes, CallbackShielded
  <2> QED
    BY <1>7, <2>3, <1>0 DEF PollError
<1>8. CASE PollSynack
  <2>1. CASE conn' = CallbackConnectFailed(SockClose(conn), FALSE, TRUE, "started")
    <3>1. SockClose(conn) \in Conn /\ (Tls => Shielded(SockClose(conn)))
      BY <1>t, <1>h, SockTypes, SockShielded
    <3> QED
      BY <1>8, <2>1, <3>1, <1>0, CallbackShielded DEF PollSynack
  <2>2. CASE \E s \in {"WAITING_STARTTLS", "SEND_SIGNON"} :
               conn' = [conn EXCEPT !.sock = s, !.tls = "this"]
    <3>1. conn'.tls = "this"
      BY <2>2, <1>t DEF Conn
    <3> QED
      BY <1>8, <3>1, <1>0 DEF PollSynack, Shielded
  <2>3. CASE /\ ~(Tls /\ conn.tls = "none")
             /\ \E sent \in SendOutcome :
                  conn' = Signon([conn EXCEPT !.sock = "SEND_SIGNON"], sent)
    <3> DEFINE d == [conn EXCEPT !.sock = "SEND_SIGNON"]
    <3>1. d \in Conn /\ d.tls = conn.tls
      BY <1>t DEF Conn, SockStates
    <3>2. PICK sent \in BOOLEAN : conn' = Signon(d, sent)
      BY <2>3, Outcomes
    <3> HIDE DEF d
    <3>3. Kept
      BY <2>3, <3>1, <3>2, SignonShielded
    <3> QED
      BY <1>8, <3>3, <1>0 DEF PollSynack
  <2> QED
    BY <1>8, <2>1, <2>2, <2>3 DEF PollSynack
<1>9. CASE PollHandshake
  <2>1. conn.sock = "WAITING_STARTTLS"
    BY <1>9 DEF PollHandshake
  <2>2. CASE UNCHANGED conn
    BY <2>1, <2>2, <1>s DEF SockSame
  <2>3. CASE UNCHANGED pc /\ \E sent \in SendOutcome : conn' = Signon(conn, sent)
    <3>1. Tls => (conn.fd => conn.tls # "none")
      BY <2>1, <1>h DEF Shielded
    <3>2. Kept
      BY <2>3, <3>1, <1>t, Outcomes, SignonShielded
    <3> QED
      BY <1>9, <2>3, <3>2, <1>0 DEF PollHandshake
  <2> QED
    BY <1>9, <2>2, <2>3 DEF PollHandshake
<1>10. CASE PollSignon \/ PollData
  <2>1. PICK n \in 0..(MaxPending - conn.pending), f \in BOOLEAN, sent \in BOOLEAN :
          \/ PollData /\ conn' = [conn EXCEPT !.pending = @ + n, !.frag = f]
          \/ PollSignon /\ conn' = Signon([conn EXCEPT !.pending = @ + n, !.frag = f], sent)
    <3>1. CASE PollSignon
      BY <3>1, Outcomes DEF PollSignon
    <3>2. CASE PollData
      <4>1. \E n \in 0..(MaxPending - conn.pending), f \in BOOLEAN :
              conn' = [conn EXCEPT !.pending = @ + n, !.frag = f]
        BY <3>2 DEF PollData
      <4> QED
        BY <3>2, <4>1
    <3> QED
      BY <1>10, <3>1, <3>2
  <2> DEFINE d == [conn EXCEPT !.pending = @ + n, !.frag = f]
  <2>2. d \in Conn
    BY <1>t, ReceivedTyped
  <2>3. SockSame(conn, d)
    BY <1>t DEF SockSame, Conn
  <2>4. \/ PollData /\ conn' = d
        \/ PollSignon /\ conn' = Signon(d, sent)
    BY <2>1
  <2> HIDE DEF d
  <2>5. CASE PollData /\ conn' = d
    <3>1. conn.sock # "WAITING_SYNACK"
      BY <2>5 DEF PollData
    <3> QED
      BY <2>3, <2>5, <3>1, <1>s DEF SockSame
  <2>6. CASE PollSignon /\ conn' = Signon(d, sent)
    <3>1. conn.sock = "SEND_SIGNON"
      BY <2>6 DEF PollSignon
    <3>2. Tls => (d.fd => d.tls # "none")
      BY <2>3, <3>1, <1>h DEF SockSame, Shielded
    <3>3. Kept
      BY <2>2, <2>6, <3>2, SignonShielded
    <3> QED
      BY <2>6, <3>3, <1>0 DEF PollSignon
  <2> QED
    BY <2>4, <2>5, <2>6
<1>p. ASSUME Parsing
      PROVE  /\ Rest \in Conn /\ SockSame(conn, Rest)
             /\ Tls => Shielded(Rest)
             /\ Rest.sock # "WAITING_SYNACK"
  <2>1. Rest \in Conn
    BY <1>p, <1>t, RestTyped
  <2>2. SockSame(conn, Rest)
    BY <1>t DEF SockSame, Rest, Conn
  <2>3. Rest.sock # "WAITING_SYNACK"
    BY <1>p, <2>2 DEF Parsing, TlsHeld, SockSame
  <2> QED
    BY <2>1, <2>2, <2>3, <1>h, ShieldedSame
<1>12. CASE PingLine \/ SelfQuitLine
  <2>1. PICK sent \in BOOLEAN, out \in ConnectOutcome :
          conn' = InternalDisconnect(Rest, sent, out) \/ conn' = SendPrintf(Rest, sent)
    BY <1>12, Outcomes DEF PingLine, SelfQuitLine, Continue, Return, ConnectOutcome
  <2>2. Rest \in Conn /\ (Tls => Shielded(Rest)) /\ Rest.sock # "WAITING_SYNACK"
    BY <1>12, <1>p DEF PingLine, SelfQuitLine
  <2>3. Kept
    BY <2>1, <2>2, SockShielded, CallbackShielded
  <2>4. CASE conn' = InternalDisconnect(Rest, sent, out)
    <3>1. Valid(conn') => conn'.sock = "NOTCONNECTED"
      BY <2>2, <2>4, LoopSock
    <3> QED
      BY <2>3, <3>1
  <2>5. CASE conn' = SendPrintf(Rest, sent)
    <3>1. conn'.sock \in {Rest.sock, "NOTCONNECTED"}
      BY <2>2, <2>5, LoopSock
    <3> QED
      BY <2>2, <2>3, <3>1
  <2> QED
    BY <2>1, <2>4, <2>5
<1>14. CASE JoinLine \/ OtherLine \/ BareLine
  <2>1. Rest \in Conn /\ SockSame(conn, Rest) /\ Rest.sock # "WAITING_SYNACK"
    BY <1>14, <1>p DEF JoinLine, OtherLine, BareLine
  <2>2. conn' = Rest \/ conn' = [Rest EXCEPT !.roster = TRUE]
    BY <1>14 DEF JoinLine, OtherLine, BareLine, Continue, Return
  <2>3. SockSame(conn, conn')
    BY <2>1, <2>2 DEF SockSame, Conn
  <2> QED
    BY <2>1, <2>3, <1>s DEF SockSame
<1>17. CASE RefusedLine \/ ErrorLine
  <2>1. PICK badUser \in BOOLEAN, sent \in SendOutcome, out \in ConnectOutcome :
          Return(CallbackConnectFailed(SendPrintf(Rest, sent), badUser, sent, out))
    BY <1>17 DEF RefusedLine, ErrorLine, ConnectOutcome
  <2>2. Rest \in Conn /\ (Tls => Shielded(Rest))
    BY <1>17, <1>p DEF RefusedLine, ErrorLine, SigningOn
  <2> DEFINE q == SendPrintf(Rest, sent)
  <2>3. q \in Conn /\ (Tls => Shielded(q)) /\ sent \in BOOLEAN
    BY <2>2, Outcomes, SockTypes, SockShielded
  <2>4. conn' = CallbackConnectFailed(q, badUser, sent, out) /\ pc' = "select"
    BY <2>1 DEF Return
  <2> HIDE DEF q
  <2> QED
    BY <2>3, <2>4, CallbackShielded
<1>19. CASE MotdEndLine
  <2>0. Parsing
    BY <1>19 DEF MotdEndLine, SigningOn
  <2>1. PICK away \in SendOutcome, sent \in SendOutcome :
          conn' = SendPrintf(CallbackConnected(
            [CallbackDoinit(Rest, away) EXCEPT !.sock = "ACTIVE"]), sent)
    BY <1>19 DEF MotdEndLine, Continue
  <2> DEFINE d == [Rest EXCEPT !.connected = "WAITING_SIGNON"]
             m == [SendPrintf(d, away) EXCEPT !.sock = "ACTIVE"]
             u == CallbackConnected(m)
  <2>2. away \in BOOLEAN /\ sent \in BOOLEAN
    BY Outcomes
  <2>3. d \in Conn /\ SockSame(Rest, d)
    <3>1. Rest \in Conn
      BY <2>0, <1>p
    <3> QED
      BY <3>1 DEF SockSame, Conn
  <2>4. Tls => (d.fd => d.tls # "none")
    <3>1. Valid(conn) /\ conn.sock # "WAITING_SYNACK"
      BY <2>0 DEF Parsing, TlsHeld
    <3>2. Tls => (conn.fd => conn.tls # "none")
      BY <3>1, <1>h DEF Valid, Shielded
    <3> QED
      BY <2>0, <2>3, <3>2, <1>p DEF SockSame
  <2>5. u = CallbackConnected([CallbackDoinit(Rest, away) EXCEPT !.sock = "ACTIVE"])
    BY DEF CallbackDoinit
  <2>6. SendPrintf(d, away) \in Conn
    BY <2>2, <2>3, SockTypes
  <2> HIDE DEF d
  <2>7. m \in Conn /\ m.sock = "ACTIVE" /\ (Tls => Shielded(m))
    <3>1. m \in Conn /\ m.sock = "ACTIVE"
      BY <2>6 DEF Conn, SockStates
    <3> QED
      BY <3>1, <2>2, <2>3, <2>4, SignonShielded
  <2> HIDE DEF m
  <2>8. u \in Conn /\ SockSame(m, u)
    BY <2>7, CallbackTypes, UpperShielded
  <2>9. conn' = SendPrintf(u, sent)
    BY <2>1, <2>5
  <2> HIDE DEF u
  <2>10. Kept
    BY <2>2, <2>7, <2>8, <2>9, ShieldedSame, SockShielded
  <2>11. conn'.sock \in {"ACTIVE", "NOTCONNECTED"}
    BY <2>2, <2>7, <2>8, <2>9, LoopSock DEF SockSame
  <2> QED
    BY <2>10, <2>11
<1>20. CASE UNCHANGED vars
  BY <1>20, <1>h DEF vars, TlsHeld, Valid
<1> QED
  BY <1>1, <1>2, <1>3, <1>4, <1>6, <1>7, <1>8, <1>9, <1>10, <1>12, <1>14, <1>17,
     <1>19, <1>20 DEF Next, User, Poll, Line

(* With ?tls no line of a sign-on or a session goes out on a descriptor without a
   TLS context, whichever way the session before it ended. *)
THEOREM NothingInTheClear == Spec => []SignonUnderTls
<1>1. Init => TlsHeld
  <2>1. Init => Typed
    BY SessionAssumption DEF Init, Typed, TypeOK, Conn, SockStates
  <2>2. Init => conn.fd = FALSE /\ pc = "select"
    BY DEF Init
  <2> QED
    BY <2>1, <2>2 DEF TlsHeld, Shielded
<1>2. TlsHeld /\ [Next]_vars => TlsHeld'
  <2> SUFFICES ASSUME TlsHeld, [Next]_vars PROVE TlsHeld'
    OBVIOUS
  <2>1. Typed'
    BY TypedInductive DEF TlsHeld
  <2>2. /\ Tls => Shielded(conn')
        /\ pc' # "select" /\ Valid(conn') => conn'.sock # "WAITING_SYNACK"
    BY TlsStep
  <2> QED
    BY <2>1, <2>2 DEF TlsHeld, Shielded, Valid
<1>3. TlsHeld => SignonUnderTls
  BY DEF TlsHeld, Shielded, SignonUnderTls
<1> QED
  BY <1>1, <1>2, <1>3, PTL DEF Spec

=============================================================================

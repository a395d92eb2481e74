----------------------------- MODULE OscarLinks -----------------------------
(***************************************************************************)
(* The connections of an OSCAR session: one to the authorizer, which gives *)
(* way to one that is required, and others for services, which are opened  *)
(* when a SNAC is to be sent that no connection has the family for.  SNACs *)
(* wait in a table until theirs is ready.                                  *)
(*                                                                         *)
(* What the server sends is under way in order on each connection; a frame *)
(* of it is one step.  Its answer to a request is put under way at once.   *)
(***************************************************************************)
EXTENDS Integers, Sequences, SequencesExt, FiniteSets

CONSTANTS
  Services,    \* families that the first connection does not serve
  MaxFlaps,    \* bound: connections after the authorizer's, at once
  MaxSnacs,    \* bound: SNACs for services
  Customs      \* sets of what may happen, one of them in each behaviour

(* "drops": connections for services are lost before they are ready; "bursts": two
   SNACs wait for one; "trails": frames come after the one that ends a connection;
   "times": the server ends a connection for a service by such a frame. *)
Custom == {"drops", "bursts", "trails", "times"}

ASSUME OscarLinksAssumption ==
  /\ {MaxFlaps, MaxSnacs} \subseteq Nat /\ MaxFlaps > 0
  /\ Customs \subseteq SUBSET Custom
  /\ "basic" \notin Services

VARIABLES
  oscar,    \* the session in client, wrapper and driver
  custom    \* constant

oscarVars == <<oscar, custom>>

Slots == 1..MaxFlaps

FlapFrame ==
  [kind : {"hello", "rates", "icbm", "bye", "other"}] \cup
  [kind : {"ready", "redirect"}, family : Services \cup {"basic"}]

Flap ==
  [state    : {"none", "opening", "open"},
   required : BOOLEAN,
   serves   : Services \cup {"basic"},         \* what the server has it for
   families : SUBSET (Services \cup {"basic"}),
   mail     : Seq(FlapFrame)]

NoFlap == [state |-> "none", required |-> FALSE, serves |-> "basic", families |-> {}, mail |-> <<>>]

Oscar ==
  [online       : {-1, 0, 1},
   auto         : BOOLEAN,                     \* $autoreconnect
   connected    : {"NOTCONNECTED", "WAITING_SIGNON", "ACTIVE"},
   isconnecting : BOOLEAN,
   authsock     : {"none", "opening", "open", "done"},   \* done: it has sent us on
   opened       : BOOLEAN,                     \* flapconns is not nil
   flapconns    : [Slots -> Flap],
   flapspending : [Services -> SUBSET (1..MaxSnacs)],
   asked        : SUBSET Services,             \* those with an entry in flapspending
   made         : 0..MaxSnacs,                 \* SNACs made for services, so far
   sent         : [Services -> Seq(1..MaxSnacs)],   \* those that were sent
   panic        : BOOLEAN]                     \* an attempt was ended by what an earlier session left

OscarInit ==
  /\ custom \in Customs
  /\ \E a \in BOOLEAN :
       oscar = [online |-> 0, auto |-> a, connected |-> "NOTCONNECTED", isconnecting |-> FALSE,
                authsock |-> "none", opened |-> FALSE, flapconns |-> [s \in Slots |-> NoFlap],
                flapspending |-> [f \in Services |-> {}], asked |-> {}, made |-> 0,
                sent |-> [f \in Services |-> <<>>], panic |-> FALSE]

-----------------------------------------------------------------------------
(* The session. *)

(* OSCAR:connect. *)
OscarConnect(c) ==
  IF c.opened \/ c.authsock # "none" THEN c
  ELSE [c EXCEPT !.authsock = "opening", !.isconnecting = TRUE, !.opened = TRUE]

OscarSignon(c) == OscarConnect([c EXCEPT !.connected = "WAITING_SIGNON"])

(* firetalk_callback_disconnect: the client may sign on again before connected is
   set. *)
OscarCallbackDisconnect(c) ==
  LET lost == [c EXCEPT !.online = -1]
  IN  [IF c.connected # "ACTIVE" THEN c ELSE IF c.auto THEN OscarSignon(lost) ELSE lost
         EXCEPT !.connected = "NOTCONNECTED"]

(* Mutant: the table of what waits is kept. *)
CleanupPending(c) ==
  LET closed == [c EXCEPT !.authsock = "none", !.opened = FALSE,
                          !.flapconns = [s \in Slots |-> NoFlap]]
  IN  IF c.isconnecting THEN [closed EXCEPT !.connected = "NOTCONNECTED"]
      ELSE OscarCallbackDisconnect(closed)

(* OSCAR:cleanup. *)
Cleanup(c) ==
  LET closed == [c EXCEPT !.authsock = "none", !.opened = FALSE,
                          !.flapconns = [s \in Slots |-> NoFlap],
                          !.flapspending = [f \in Services |-> {}], !.asked = {}]
  IN  IF c.isconnecting THEN [closed EXCEPT !.connected = "NOTCONNECTED"]
      ELSE OscarCallbackDisconnect(closed)

(* The buffer of a connection that was ended is read on: that is an error, and the
   error is answered with another cleanup, of whatever session there is by then. *)
CleanupAfterError(c) == IF c.opened THEN [Cleanup(c) EXCEPT !.panic = TRUE] ELSE c

-----------------------------------------------------------------------------
(* Connections. *)

FreeSlots(c) == {s \in Slots : c.flapconns[s].state = "none"}

FLAPConnect(c, s, family) ==
  [c EXCEPT !.flapconns[s] = [NoFlap EXCEPT !.state = "opening", !.serves = family,
                                            !.required = family = "basic"]]

Served(c, family) == {s \in Slots : family \in c.flapconns[s].families}

Said(mail, frame) == IF [kind |-> "bye"] \in ToSet(mail) THEN mail ELSE Append(mail, frame)

(* The server puts a frame under way, unless it has ended the connection. *)
Answers(c, s, frame) == [c EXCEPT !.flapconns[s].mail = Said(@, frame)]

(* A SNAC of the basic families: the server answers it. *)
SendBasic(c, frame) ==
  IF Served(c, "basic") = {} THEN c
  ELSE Answers(c, CHOOSE s \in Served(c, "basic") : TRUE, frame)

(* OSCAR:FLAPSend, of SNAC n for a service. *)
FLAPSend(c, n, family) ==
  IF Served(c, family) # {} THEN [c EXCEPT !.sent[family] = Append(@, n)]
  ELSE LET asks == IF family \in c.asked THEN c
                   ELSE SendBasic(c, [kind |-> "redirect", family |-> family])
       IN  [asks EXCEPT !.flapspending[family] = @ \cup {n}, !.asked = @ \cup {family}]

(* BOSControlHostReady.  What waits is sent in the order of the table, that is, in
   any order; the family is taken out of the table of those asked for. *)
HostReady(c, s, family, order) ==
  LET ready == [c EXCEPT !.flapconns[s].families = @ \cup {family}]
      sent  == IF family = "basic" THEN ready
               ELSE [ready EXCEPT !.sent[family] = @ \o order,
                                  !.flapspending[family] = {}, !.asked = @ \ {family}]
  IN  IF c.isconnecting THEN SendBasic(sent, [kind |-> "rates"]) ELSE sent

Waiting(family) == IF family = "basic" THEN {} ELSE oscar.flapspending[family]

-----------------------------------------------------------------------------
(* The user. *)

OscarUserConnect ==
  /\ oscar.online <= 0
  /\ oscar' = OscarSignon(IF oscar.connected = "NOTCONNECTED" THEN oscar
                          ELSE Cleanup([oscar EXCEPT !.connected = "NOTCONNECTED"]))
  /\ UNCHANGED custom

OscarUserDisconnect ==
  /\ oscar.online > 0
  /\ oscar' = [Cleanup([oscar EXCEPT !.connected = "NOTCONNECTED"]) EXCEPT !.online = 0]
  /\ UNCHANGED custom

(* A request for a service, as /name makes. *)
AsksService(family) ==
  /\ oscar.connected = "ACTIVE" /\ oscar.made < MaxSnacs
  /\ oscar.flapspending[family] # {} => "bursts" \in custom
  /\ oscar' = FLAPSend([oscar EXCEPT !.made = @ + 1], oscar.made + 1, family)
  /\ UNCHANGED custom

-----------------------------------------------------------------------------
(* OSCAR:postselect, of the authorizer's connection: the key, the login and its
   answer are one step. *)
PollAuth ==
  /\ oscar.authsock # "none"
  /\ \/ oscar.authsock = "opening" /\ oscar' = [oscar EXCEPT !.authsock = "open"]
     \/ /\ oscar.authsock = "open"
        /\ \E s \in FreeSlots(oscar) : oscar' = [FLAPConnect(oscar, s, "basic") EXCEPT !.authsock = "done"]
     \/ oscar' = Cleanup(oscar)      \* refused, or lost, even once it has sent us on
  /\ UNCHANGED custom

(* The authorizer says goodbye. *)
PollAuthBye ==
  /\ oscar.authsock = "done"
  /\ oscar' = [oscar EXCEPT !.authsock = "none"]
  /\ UNCHANGED custom

PollOpens(s) ==
  /\ oscar.flapconns[s].state = "opening"
  /\ oscar' = Answers([oscar EXCEPT !.flapconns[s].state = "open"], s, [kind |-> "hello"])
  /\ UNCHANGED custom

(* A connection is lost: the session's, or one for a service, "no sweat". *)
PollLost(s) ==
  LET flap == oscar.flapconns[s]
  IN  /\ flap.state # "none"
      /\ ~flap.required /\ flap.families = {} => "drops" \in custom
      /\ oscar' = IF flap.required THEN Cleanup(oscar) ELSE [oscar EXCEPT !.flapconns[s] = NoFlap]
      /\ UNCHANGED custom

(* OSCAR:FLAPNewData, for one frame. *)
FLAPNewData(s) ==
  LET flap == oscar.flapconns[s]
      m    == Head(flap.mail)
      c    == [oscar EXCEPT !.flapconns[s].mail = Tail(@)]
  IN  /\ flap.state = "open" /\ flap.mail # <<>>
      /\ \/ m.kind = "hello" /\ oscar' = Answers(c, s, [kind |-> "ready", family |-> flap.serves])
         \/ /\ m.kind = "ready"
            /\ \E order \in SetToSeqs(Waiting(m.family)) : oscar' = HostReady(c, s, m.family, order)
         \/ m.kind = "rates" /\ oscar' = SendBasic(c, [kind |-> "icbm"])
         \/ /\ m.kind = "redirect"
            /\ \E t \in FreeSlots(c) : oscar' = FLAPConnect(c, t, m.family)
         \/ /\ m.kind = "icbm"                      \* doinit and connected
            /\ oscar' = [c EXCEPT !.connected = "ACTIVE", !.online = 1, !.isconnecting = FALSE]
         \/ /\ m.kind = "bye"
            /\ oscar' = IF Len(flap.mail) = 1 THEN Cleanup(c) ELSE CleanupAfterError(Cleanup(c))
         \/ m.kind = "other" /\ oscar' = c
      /\ UNCHANGED custom

(* The server ends a connection: the session's, or one for a service that has been
   idle for long. *)
FlapEnds(s) ==
  LET flap == oscar.flapconns[s]
  IN  /\ flap.state = "open" /\ flap.mail = <<>> /\ flap.families # {}
      /\ flap.required \/ "times" \in custom
      /\ \/ oscar' = Answers(oscar, s, [kind |-> "bye"])
         \/ /\ "trails" \in custom
            /\ oscar' = [oscar EXCEPT !.flapconns[s].mail = <<[kind |-> "bye"], [kind |-> "other"]>>]
      /\ UNCHANGED custom

OscarNext ==
  \/ OscarUserConnect \/ OscarUserDisconnect \/ PollAuth \/ PollAuthBye
  \/ \E f \in Services : AsksService(f)
  \/ \E s \in Slots : PollOpens(s) \/ PollLost(s) \/ FLAPNewData(s) \/ FlapEnds(s)

OscarSpec == OscarInit /\ [][OscarNext]_oscarVars

-----------------------------------------------------------------------------
OscarTypeOK == oscar \in Oscar /\ custom \subseteq Custom

(* A session that client and wrapper take to be up has its required connection, and
   a driver that has any session is not taken to be disconnected, so that it can be
   ended and begun again: except, here as in Session, after a reconnection out of
   the callback of a loss. *)
OscarLayersAgree ==
  /\ oscar.connected = "ACTIVE" <=> oscar.online > 0
  /\ oscar.connected = "ACTIVE" =>
       ~oscar.isconnecting /\ \E s \in Served(oscar, "basic") : oscar.flapconns[s].required
  /\ ~oscar.auto => (oscar.connected = "NOTCONNECTED" <=> ~oscar.opened)

(* What waits for a service has a connection on the way while the session's own is
   up, unless one was lost before it was ready: then its family stays asked for, and
   never is again. *)
PendingIsServed ==
  "drops" \in custom \/
  \A f \in oscar.asked :
    \E s \in Slots :
      \/ [kind |-> "bye"] \in ToSet(oscar.flapconns[s].mail)
      \/ oscar.flapconns[s].serves = f /\ oscar.flapconns[s].state # "none" /\ oscar.flapconns[s].families = {}
      \/ [kind |-> "redirect", family |-> f] \in ToSet(oscar.flapconns[s].mail)

(* SNACs for a service are sent each once, and in the order they were made, unless
   two waited for it together. *)
ServedInOrder ==
  \A f \in Services : \A i, j \in DOMAIN oscar.sent[f] :
    i < j => /\ oscar.sent[f][i] # oscar.sent[f][j]
             /\ "bursts" \in custom \/ oscar.sent[f][i] < oscar.sent[f][j]

(* No attempt is ended by what an earlier session has left in a buffer, if nothing
   comes after the frame that ends a connection. *)
NoPanic == oscar.panic => "trails" \in custom
=============================================================================

----------------------------- MODULE DriversProofs -----------------------------
(***************************************************************************)
(* Theorems about the drivers of the other protocols: OSCAR's connections, *)
(* a TOC2 session and its rooms, an SLCP session.                          *)
(*                                                                         *)
(* OscarInv, LilyInv and RoomsInv are inductive.  The first says of a      *)
(* table of connections which slots are in use, for which families, and    *)
(* what has been asked for each family that SNACs wait for; the second,    *)
(* that one person at most is asked about, by one command at a time, and   *)
(* how the lines that are under way lead from the people the driver knows  *)
(* to those the server does; LilyRoomsInv, which needs it, how they lead   *)
(* from the rooms one side has to the other's; the third, that TOC2's list *)
(* of rooms has an entry for each answer to come.  For TOC2's session and  *)
(* the buddy lists the invariants and their lemmas are ListsProofs':       *)
(* TocListInv, with TocInv in it, and RosterInv; lemmas about sequences,   *)
(* too.                                                                    *)
(***************************************************************************)
EXTENDS MCDrivers, ListsProofs, FiniteSetTheorems, TLAPS

-----------------------------------------------------------------------------
(* OSCAR's connections. *)

(* A connection has the family it was made for, once it is ready; the session's own is the
   one that the basic families are served by, and it alone asks and is told. *)
FlapKept(x) ==
  /\ x.state = "none" => x = NoFlap
  /\ x.families \subseteq {x.serves}
  /\ x.required <=> x.state # "none" /\ x.serves = "basic"
  /\ \A i \in DOMAIN x.mail :
       /\ x.mail[i].kind = "ready" => x.mail[i].family = x.serves
       /\ x.mail[i].kind \in {"rates", "icbm", "redirect"} => "basic" \in x.families

(* Nothing comes after the frame that ends a connection. *)
ByeIsLast(x) == \A i \in DOMAIN x.mail : x.mail[i].kind = "bye" => i = Len(x.mail)

Bye         == [kind |-> "bye"]
Redirect(f) == [kind |-> "redirect", family |-> f]

Wired(c) == \A s \in Slots : FlapKept(c.flapconns[s])
Tidy(c)  == \A s \in Slots : ByeIsLast(c.flapconns[s])

SessionKept(c) ==
  /\ c.connected = "ACTIVE" <=> c.online > 0
  /\ c.connected = "ACTIVE" => ~c.isconnecting /\ \E s \in Slots : "basic" \in c.flapconns[s].families
  /\ ~c.opened => c.authsock = "none" /\ \A s \in Slots : c.flapconns[s] = NoFlap
  /\ ~c.auto => (c.connected = "NOTCONNECTED" <=> ~c.opened)

(* The connection by which f will be served is on the way. *)
OnTheWay(c, f) ==
  \E s \in Slots :
    \/ "basic" \in c.flapconns[s].families /\ Bye \in ToSet(c.flapconns[s].mail)
    \/ /\ c.flapconns[s].serves = f /\ c.flapconns[s].state # "none"
       /\ c.flapconns[s].families = {}
    \/ Redirect(f) \in ToSet(c.flapconns[s].mail)

AskedFor(c) == \A f \in c.asked : OnTheWay(c, f)

(* What waits was made after what was sent, and by one who is not served. *)
InTurn(c, bursts) ==
  \A f \in Services :
    /\ c.flapspending[f] # {} => Served(c, f) = {}
    /\ \A n \in c.flapspending[f] : n <= c.made
    /\ \A i \in DOMAIN c.sent[f] :
         /\ c.sent[f][i] <= c.made
         /\ c.sent[f][i] \notin c.flapspending[f]
         /\ \A j \in DOMAIN c.sent[f] : i < j => c.sent[f][i] # c.sent[f][j]
    /\ bursts \/
         /\ \A n, m \in c.flapspending[f] : n = m
         /\ \A i \in DOMAIN c.sent[f] :
              /\ \A n \in c.flapspending[f] : c.sent[f][i] < n
              /\ \A j \in DOMAIN c.sent[f] : i < j => c.sent[f][i] < c.sent[f][j]

OscarInv ==
  /\ oscar \in Oscar /\ custom \subseteq Custom
  /\ Wired(oscar) /\ SessionKept(oscar)
  /\ "trails" \in custom \/ (Tidy(oscar) /\ ~oscar.panic)
  /\ "drops" \in custom \/ AskedFor(oscar)
  /\ InTurn(oscar, "bursts" \in custom)

LEMMA NoFlapIs ==
  /\ NoFlap \in Flap
  /\ FlapKept(NoFlap) /\ ByeIsLast(NoFlap)
BY DEF NoFlap, Flap, FlapKept, ByeIsLast

LEMMA OscarBegins == OscarInit => OscarInv
<1> SUFFICES ASSUME OscarInit PROVE OscarInv
  OBVIOUS
<1> USE OscarLinksAssumption
<1>1. custom \subseteq Custom
  BY DEF OscarInit
<1>2. PICK a \in BOOLEAN :
        oscar = [online |-> 0, auto |-> a, connected |-> "NOTCONNECTED", isconnecting |-> FALSE,
                authsock |-> "none", opened |-> FALSE, flapconns |-> [s \in Slots |-> NoFlap],
                flapspending |-> [f \in Services |-> {}], asked |-> {}, made |-> 0,
                sent |-> [f \in Services |-> <<>>], panic |-> FALSE]
  BY DEF OscarInit
<1>3. oscar \in Oscar
  BY <1>2, NoFlapIs DEF Oscar
<1>4. Wired(oscar) /\ Tidy(oscar) /\ SessionKept(oscar) /\ AskedFor(oscar)
  BY <1>2, NoFlapIs DEF Wired, Tidy, SessionKept, AskedFor
<1>5. InTurn(oscar, "bursts" \in custom)
  BY <1>2 DEF InTurn
<1> QED
  BY <1>1, <1>2, <1>3, <1>4, <1>5 DEF OscarInv

(* What a cleanup leaves: nothing, or, after the loss of a session that was up and is
   begun again, the beginning of another. *)
LEMMA CleanupIs ==
  ASSUME NEW c \in Oscar
  PROVE  LET d == Cleanup(c) IN
         /\ d \in Oscar
         /\ d.connected = "NOTCONNECTED" /\ d.asked = {}
         /\ d.auto = c.auto /\ d.made = c.made /\ d.sent = c.sent /\ d.panic = c.panic
         /\ d.flapspending = [f \in Services |-> {}]
         /\ d.flapconns = [s \in Slots |-> NoFlap]
         /\ \/ /\ ~d.opened /\ d.authsock = "none"
               /\ d.online = c.online \/ d.online = -1
               /\ c.connected = "ACTIVE" /\ ~c.isconnecting => d.online = -1
            \/ c.auto /\ d.opened /\ d.online = -1 
<1> DEFINE x == [c EXCEPT !.authsock = "none", !.opened = FALSE,
                          !.flapconns = [s \in Slots |-> NoFlap],
                          !.flapspending = [f \in Services |-> {}], !.asked = {}]
<1>1. /\ x \in Oscar /\ x.asked = {} /\ x.auto = c.auto /\ x.made = c.made /\ x.sent = c.sent
      /\ x.panic = c.panic /\ x.flapspending = [f \in Services |-> {}] /\ x.connected = c.connected
      /\ x.flapconns = [s \in Slots |-> NoFlap] /\ ~x.opened /\ x.authsock = "none"
      /\ x.online = c.online /\ x.isconnecting = c.isconnecting
  BY NoFlapIs DEF Oscar
<1>2. Cleanup(c) = IF c.isconnecting THEN [x EXCEPT !.connected = "NOTCONNECTED"]
                   ELSE OscarCallbackDisconnect(x)
  BY DEF Cleanup
<1> HIDE DEF x
<1>3. CASE c.isconnecting
  <2>1. Cleanup(c) = [x EXCEPT !.connected = "NOTCONNECTED"]
    BY <1>2, <1>3
  <2> QED
    BY <1>1, <1>3, <2>1 DEF Oscar
<1>4. CASE ~c.isconnecting /\ c.connected # "ACTIVE"
  <2>1. Cleanup(c) = [x EXCEPT !.connected = "NOTCONNECTED"]
    BY <1>1, <1>2, <1>4 DEF OscarCallbackDisconnect
  <2> QED
    BY <1>1, <1>4, <2>1 DEF Oscar
<1>5. CASE ~c.isconnecting /\ c.connected = "ACTIVE" /\ ~c.auto
  <2>1. Cleanup(c) = [x EXCEPT !.online = -1, !.connected = "NOTCONNECTED"]
    BY <1>1, <1>2, <1>5 DEF OscarCallbackDisconnect
  <2> QED
    BY <1>1, <1>5, <2>1 DEF Oscar
<1>6. CASE ~c.isconnecting /\ c.connected = "ACTIVE" /\ c.auto
  <2> DEFINE y == OscarSignon([x EXCEPT !.online = -1])
  <2>1. Cleanup(c) = [y EXCEPT !.connected = "NOTCONNECTED"]
    BY <1>1, <1>2, <1>6 DEF OscarCallbackDisconnect
  <2>2. /\ y \in Oscar /\ y.asked = {} /\ y.auto = c.auto /\ y.made = c.made /\ y.sent = c.sent
        /\ y.panic = c.panic /\ y.flapspending = [f \in Services |-> {}]
        /\ y.flapconns = [s \in Slots |-> NoFlap] /\ y.opened /\ y.online = -1
    BY <1>1 DEF Oscar, OscarSignon, OscarConnect
  <2> HIDE DEF y
  <2> QED
    BY <1>6, <2>1, <2>2 DEF Oscar
<1> QED
  BY <1>3, <1>4, <1>5, <1>6

(* So that a cleanup keeps what a session is, and what waits is gone. *)
LEMMA CleanupKeeps ==
  ASSUME NEW c \in Oscar, NEW bursts, InTurn(c, bursts),
         c.connected = "ACTIVE" => ~c.isconnecting,
         c.online > 0 => c.connected = "ACTIVE"
  PROVE  LET d == Cleanup(c) IN
         d \in Oscar /\ Wired(d) /\ Tidy(d) /\ SessionKept(d) /\ AskedFor(d) /\ InTurn(d, bursts)
<1> DEFINE d == Cleanup(c)
<1>1. /\ d \in Oscar
      /\ d.connected = "NOTCONNECTED" /\ d.asked = {}
      /\ d.auto = c.auto /\ d.made = c.made /\ d.sent = c.sent
      /\ d.flapspending = [f \in Services |-> {}]
      /\ d.flapconns = [s \in Slots |-> NoFlap]
      /\ \/ /\ ~d.opened /\ d.authsock = "none"
            /\ d.online = c.online \/ d.online = -1
            /\ c.connected = "ACTIVE" /\ ~c.isconnecting => d.online = -1
         \/ c.auto /\ d.opened /\ d.online = -1
  BY CleanupIs
<1> HIDE DEF d
<1>2. Wired(d) /\ Tidy(d)
  BY <1>1, NoFlapIs DEF Wired, Tidy
<1>3. AskedFor(d)
  BY <1>1 DEF AskedFor
<1>4. SessionKept(d)
  <2>1. ~(d.online > 0)
    BY <1>1 DEF Oscar
  <2>2. \A s \in Slots : d.flapconns[s] = NoFlap
    BY <1>1
  <2> QED
    BY <1>1, <2>1, <2>2 DEF SessionKept
<1>5. InTurn(d, bursts)
  <2> SUFFICES ASSUME NEW f \in Services
               PROVE  /\ \A i \in DOMAIN c.sent[f] :
                           /\ c.sent[f][i] <= c.made
                           /\ \A j \in DOMAIN c.sent[f] : i < j => c.sent[f][i] # c.sent[f][j]
                      /\ bursts \/
                           \A i, j \in DOMAIN c.sent[f] : i < j => c.sent[f][i] < c.sent[f][j]
    BY <1>1 DEF InTurn
  <2> QED
    BY DEF InTurn
<1> QED
  BY <1>1, <1>2, <1>3, <1>4, <1>5 DEF d

(* A session is begun where there is none. *)
LEMMA SignonKeeps ==
  ASSUME NEW c \in Oscar, SessionKept(c), c.connected = "NOTCONNECTED"
  PROVE  LET d == OscarSignon(c) IN
         /\ d \in Oscar /\ SessionKept(d) /\ d.connected = "WAITING_SIGNON"
         /\ d.flapconns = c.flapconns /\ d.asked = c.asked /\ d.flapspending = c.flapspending
         /\ d.sent = c.sent /\ d.made = c.made /\ d.panic = c.panic
<1> DEFINE w == [c EXCEPT !.connected = "WAITING_SIGNON"]
           d == OscarSignon(c)
<1>1. d = IF c.opened \/ c.authsock # "none" THEN w
          ELSE [w EXCEPT !.authsock = "opening", !.isconnecting = TRUE, !.opened = TRUE]
  BY DEF OscarSignon, OscarConnect, Oscar
<1> HIDE DEF d
<1>2. /\ d \in Oscar /\ d.connected = "WAITING_SIGNON"
      /\ d.flapconns = c.flapconns /\ d.asked = c.asked /\ d.flapspending = c.flapspending
      /\ d.sent = c.sent /\ d.made = c.made /\ d.panic = c.panic
      /\ d.online = c.online /\ d.auto = c.auto /\ d.opened
  BY <1>1 DEF Oscar, SessionKept
<1>3. SessionKept(d)
  BY <1>2 DEF SessionKept
<1> QED
  BY <1>2, <1>3 DEF d

(* What is said of the connections and of what waits does not change with the rest. *)
LEMMA WiredAgain ==
  ASSUME NEW c, NEW d, d.flapconns = c.flapconns
  PROVE  /\ Wired(c) => Wired(d)
         /\ Tidy(c) => Tidy(d)
         /\ AskedFor(c) /\ d.asked = c.asked => AskedFor(d)
         /\ \A bursts : InTurn(c, bursts) /\ d.flapspending = c.flapspending
                        /\ d.sent = c.sent /\ d.made = c.made => InTurn(d, bursts)
BY DEF Wired, Tidy, AskedFor, OnTheWay, InTurn, Served

LEMMA ConnectKeeps == OscarInv /\ OscarUserConnect => OscarInv'
<1> SUFFICES ASSUME OscarInv, OscarUserConnect PROVE OscarInv'
  OBVIOUS
<1>1. /\ oscar \in Oscar /\ custom \subseteq Custom /\ Wired(oscar) /\ SessionKept(oscar)
      /\ InTurn(oscar, "bursts" \in custom) /\ UNCHANGED custom
      /\ oscar.online <= 0 /\ ~(oscar.online > 0)
  <2>1. oscar.online \in {-1, 0, 1} /\ oscar.online <= 0
    BY DEF OscarInv, OscarUserConnect, Oscar
  <2> QED
    BY <2>1 DEF OscarInv, OscarUserConnect
<1>2. CASE oscar.connected = "NOTCONNECTED"
  <2>1. oscar' = OscarSignon(oscar)
    BY <1>2 DEF OscarUserConnect
  <2>2. /\ oscar' \in Oscar /\ SessionKept(oscar')
        /\ oscar'.flapconns = oscar.flapconns /\ oscar'.asked = oscar.asked
        /\ oscar'.flapspending = oscar.flapspending
        /\ oscar'.sent = oscar.sent /\ oscar'.made = oscar.made /\ oscar'.panic = oscar.panic
    BY <1>1, <1>2, <2>1, SignonKeeps
  <2>3. /\ Wired(oscar') /\ InTurn(oscar', "bursts" \in custom)
        /\ Tidy(oscar) => Tidy(oscar')
        /\ AskedFor(oscar) => AskedFor(oscar')
    BY <1>1, <2>2, WiredAgain, Zenon
  <2> QED
    BY <1>1, <2>2, <2>3 DEF OscarInv
<1>3. CASE oscar.connected # "NOTCONNECTED"
  <2> DEFINE b == [oscar EXCEPT !.connected = "NOTCONNECTED"]
             c == Cleanup(b)
  <2>1. oscar' = OscarSignon(c)
    BY <1>3 DEF OscarUserConnect
  <2>2. /\ b \in Oscar /\ b.connected = "NOTCONNECTED" /\ ~(b.online > 0) /\ b.panic = oscar.panic
        /\ b.flapconns = oscar.flapconns /\ b.flapspending = oscar.flapspending
        /\ b.sent = oscar.sent /\ b.made = oscar.made
    BY <1>1 DEF Oscar
  <2> HIDE DEF b
  <2>3. InTurn(b, "bursts" \in custom)
    BY <1>1, <2>2, WiredAgain, Zenon
  <2>4. c \in Oscar /\ Wired(c) /\ Tidy(c) /\ SessionKept(c) /\ AskedFor(c) /\ InTurn(c, "bursts" \in custom)
    BY <2>2, <2>3, CleanupKeeps, Zenon
  <2>5. c.connected = "NOTCONNECTED" /\ c.panic = oscar.panic
    BY <2>2, CleanupIs
  <2> HIDE DEF c
  <2>6. /\ oscar' \in Oscar /\ SessionKept(oscar')
        /\ oscar'.flapconns = c.flapconns /\ oscar'.asked = c.asked
        /\ oscar'.flapspending = c.flapspending
        /\ oscar'.sent = c.sent /\ oscar'.made = c.made /\ oscar'.panic = oscar.panic
    BY <2>1, <2>4, <2>5, SignonKeeps
  <2>7. Wired(oscar') /\ InTurn(oscar', "bursts" \in custom) /\ Tidy(oscar') /\ AskedFor(oscar')
    BY <2>4, <2>6, WiredAgain, Zenon
  <2> QED
    BY <1>1, <2>6, <2>7 DEF OscarInv
<1> QED
  BY <1>2, <1>3

LEMMA DisconnectKeeps == OscarInv /\ OscarUserDisconnect => OscarInv'
<1> SUFFICES ASSUME OscarInv, OscarUserDisconnect PROVE OscarInv'
  OBVIOUS
<1> DEFINE b == [oscar EXCEPT !.connected = "NOTCONNECTED"]
           c == Cleanup(b)
<1>1. /\ oscar \in Oscar /\ custom \subseteq Custom
      /\ InTurn(oscar, "bursts" \in custom) /\ UNCHANGED custom
      /\ oscar.connected = "ACTIVE" /\ ~oscar.isconnecting
      /\ oscar' = [c EXCEPT !.online = 0]
  BY DEF OscarInv, OscarUserDisconnect, SessionKept
<1>2. /\ b \in Oscar /\ b.connected = "NOTCONNECTED" /\ b.panic = oscar.panic
      /\ ~b.isconnecting
      /\ b.flapconns = oscar.flapconns /\ b.flapspending = oscar.flapspending
      /\ b.sent = oscar.sent /\ b.made = oscar.made
  BY <1>1 DEF Oscar
<1>3. c = [b EXCEPT !.authsock = "none", !.opened = FALSE,
                          !.flapconns = [s \in Slots |-> NoFlap],
                          !.flapspending = [f \in Services |-> {}], !.asked = {}]
  BY <1>2 DEF Cleanup, OscarCallbackDisconnect, Oscar
<1>4. c \in Oscar
  BY <1>2, CleanupIs
<1> HIDE DEF b
<1>5. /\ oscar' \in Oscar /\ oscar'.connected = "NOTCONNECTED" /\ oscar'.asked = {}
      /\ oscar'.made = oscar.made /\ oscar'.sent = oscar.sent /\ oscar'.panic = oscar.panic
      /\ oscar'.flapspending = [f \in Services |-> {}]
      /\ oscar'.flapconns = [s \in Slots |-> NoFlap]
      /\ oscar'.online = 0 /\ ~oscar'.opened /\ oscar'.authsock = "none"
  BY <1>1, <1>2, <1>3, <1>4 DEF Oscar
<1>6. Wired(oscar') /\ Tidy(oscar') /\ AskedFor(oscar')
  BY <1>5, NoFlapIs DEF Wired, Tidy, AskedFor
<1>7. SessionKept(oscar')
  BY <1>5 DEF SessionKept
<1>8. InTurn(oscar', "bursts" \in custom)
  BY <1>1, <1>5 DEF InTurn
<1> QED
  BY <1>1, <1>5, <1>6, <1>7, <1>8 DEF OscarInv

-----------------------------------------------------------------------------
(* What does not show in a connection but by its mail. *)
SameButMail(x, y) ==
  y.state = x.state /\ y.required = x.required /\ y.serves = x.serves /\ y.families = x.families

SameSession(c, d) ==
  /\ d.online = c.online /\ d.auto = c.auto /\ d.connected = c.connected
  /\ d.isconnecting = c.isconnecting /\ d.authsock = c.authsock /\ d.opened = c.opened
  /\ d.panic = c.panic

SameWaiting(c, d) ==
  d.flapspending = c.flapspending /\ d.sent = c.sent /\ d.made = c.made

LEMMA FramesAre ==
  /\ \A m \in FlapFrame : m.kind = "bye" => m = Bye
  /\ \A m \in FlapFrame : m.kind = "redirect" => m = Redirect(m.family) /\ m.family \in Services \cup {"basic"}
  /\ \A m \in FlapFrame : m.kind = "ready" => m.family \in Services \cup {"basic"}
  /\ Bye \in FlapFrame /\ \A f \in Services \cup {"basic"} : Redirect(f) \in FlapFrame
BY DEF FlapFrame, Bye, Redirect

LEMMA SaidIs ==
  ASSUME NEW mail \in Seq(FlapFrame), NEW m \in FlapFrame
  PROVE  /\ Said(mail, m) \in Seq(FlapFrame)
         /\ \A i \in DOMAIN mail : i \in DOMAIN Said(mail, m) /\ Said(mail, m)[i] = mail[i]
         /\ \A i \in DOMAIN Said(mail, m) : i \in DOMAIN mail \/ Said(mail, m)[i] = m
         /\ m \in ToSet(Said(mail, m)) \/ Bye \in ToSet(Said(mail, m))
         /\ ToSet(mail) \subseteq ToSet(Said(mail, m))
         /\ (\A i \in DOMAIN mail : mail[i].kind = "bye" => i = Len(mail))
              => \A i \in DOMAIN Said(mail, m) : Said(mail, m)[i].kind = "bye" => i = Len(Said(mail, m))
<1>1. CASE Bye \in ToSet(mail)
  BY <1>1 DEF Said, Bye
<1>2. CASE Bye \notin ToSet(mail)
  <2>1. Said(mail, m) = Append(mail, m)
    BY <1>2 DEF Said, Bye
  <2>2. \A i \in DOMAIN mail : mail[i].kind # "bye"
    BY <1>2, FramesAre DEF ToSet
  <2> DEFINE n == Append(mail, m)
  <2>3. /\ n \in Seq(FlapFrame) /\ Len(n) = Len(mail) + 1 /\ Len(mail) \in Nat
        /\ \A i \in 1..Len(mail) : n[i] = mail[i]
        /\ n[Len(mail) + 1] = m
        /\ DOMAIN n = 1..(Len(mail) + 1) /\ DOMAIN mail = 1..Len(mail)
    OBVIOUS
  <2> HIDE DEF n
  <2>4. \A i \in DOMAIN n : i \in DOMAIN mail \/ (i = Len(n) /\ n[i] = m)
    BY <2>3
  <2>5. m \in ToSet(n)
    BY <2>3 DEF ToSet
  <2>6. ToSet(mail) \subseteq ToSet(n)
    BY <2>3 DEF ToSet
  <2>7. \A i \in DOMAIN n : n[i].kind = "bye" => i = Len(n)
    BY <2>2, <2>3, <2>4
  <2> QED
    BY <2>1, <2>3, <2>4, <2>5, <2>6, <2>7 DEF n
<1> QED
  BY <1>1, <1>2

(* The mail of one connection changes. *)
Mailed(c, s, mail) == [c EXCEPT !.flapconns[s].mail = mail]

LEMMA MailedIs ==
  ASSUME NEW c \in Oscar, NEW s \in Slots, NEW mail \in Seq(FlapFrame)
  PROVE  LET d == Mailed(c, s, mail) IN
         /\ d \in Oscar /\ SameSession(c, d) /\ SameWaiting(c, d) /\ d.asked = c.asked
         /\ \A t \in Slots : SameButMail(c.flapconns[t], d.flapconns[t])
         /\ \A t \in Slots \ {s} : d.flapconns[t] = c.flapconns[t]
         /\ d.flapconns[s].mail = mail
<1> DEFINE x == c.flapconns[s]
           y == [x EXCEPT !.mail = mail]
           g == [c.flapconns EXCEPT ![s] = y]
           d == Mailed(c, s, mail)
<1>1. c.flapconns \in [Slots -> Flap] /\ x \in Flap
  BY DEF Oscar
<1>2. y \in Flap /\ SameButMail(x, y) /\ y.mail = mail
  BY <1>1 DEF Flap, SameButMail
<1>3. \A t : SameButMail(t, t)
  BY DEF SameButMail
<1>4. d = [c EXCEPT !.flapconns = g]
  BY DEF Mailed
<1> HIDE DEF x, y
<1>5. /\ g \in [Slots -> Flap] /\ g[s] = y
      /\ \A t \in Slots \ {s} : g[t] = c.flapconns[t]
  BY <1>1, <1>2
<1> HIDE DEF g, d
<1>6. d \in Oscar /\ SameSession(c, d) /\ SameWaiting(c, d) /\ d.asked = c.asked /\ d.flapconns = g
  BY <1>4, <1>5 DEF Oscar, SameSession, SameWaiting
<1>7. \A t \in Slots : SameButMail(c.flapconns[t], d.flapconns[t])
  BY <1>2, <1>3, <1>5, <1>6 DEF x
<1> QED
  BY <1>2, <1>5, <1>6, <1>7 DEF d

LEMMA MailKeeps ==
  ASSUME NEW c \in Oscar, NEW d \in Oscar, SameSession(c, d), SameWaiting(c, d),
         \A t \in Slots : SameButMail(c.flapconns[t], d.flapconns[t])
  PROVE  /\ SessionKept(c) /\ (\A t \in Slots : c.flapconns[t].state = "none" => d.flapconns[t] = c.flapconns[t])
              => SessionKept(d)
         /\ \A bursts : InTurn(c, bursts) => InTurn(d, bursts)
<1>1. \A f : Served(d, f) = Served(c, f)
  BY DEF Served, SameButMail
<1>2. \A bursts : InTurn(c, bursts) => InTurn(d, bursts)
  BY <1>1 DEF InTurn, SameWaiting
<1>3. ASSUME SessionKept(c), \A t \in Slots : c.flapconns[t].state = "none" => d.flapconns[t] = c.flapconns[t]
      PROVE  SessionKept(d)
  <2>1. NoFlap.state = "none"
    BY DEF NoFlap
  <2> QED
    BY <1>3, <2>1 DEF SessionKept, SameSession, SameButMail
<1> QED
  BY <1>2, <1>3

(* A frame for a connection. *)
Suits(x, m) ==
  /\ x.state # "none"
  /\ m.kind = "ready" => m.family = x.serves
  /\ m.kind \in {"rates", "icbm", "redirect"} => "basic" \in x.families

LEMMA AnswersKeep ==
  ASSUME NEW c \in Oscar, NEW s \in Slots, NEW m \in FlapFrame, Suits(c.flapconns[s], m),
         Wired(c)
  PROVE  LET d == Answers(c, s, m) IN
         /\ d \in Oscar /\ Wired(d) /\ (Tidy(c) => Tidy(d))
         /\ SameSession(c, d) /\ SameWaiting(c, d) /\ d.asked = c.asked
         /\ (SessionKept(c) => SessionKept(d))
         /\ \A t \in Slots : SameButMail(c.flapconns[t], d.flapconns[t])
         /\ \A f : OnTheWay(c, f) => OnTheWay(d, f)
         /\ \A bursts : InTurn(c, bursts) => InTurn(d, bursts)
         /\ m \in ToSet(d.flapconns[s].mail) \/ Bye \in ToSet(d.flapconns[s].mail)
<1> DEFINE old  == c.flapconns[s].mail
           mail == Said(old, m)
           d    == Answers(c, s, m)
<1>1. old \in Seq(FlapFrame) /\ c.flapconns[s] \in Flap
  BY DEF Oscar, Flap
<1>2. d = Mailed(c, s, mail)
  BY DEF Answers, Mailed, Oscar, Flap
<1>3. /\ mail \in Seq(FlapFrame)
      /\ \A i \in DOMAIN mail : i \in DOMAIN old \/ mail[i] = m
      /\ \A i \in DOMAIN old : i \in DOMAIN mail /\ mail[i] = old[i]
      /\ m \in ToSet(mail) \/ Bye \in ToSet(mail)
      /\ ToSet(old) \subseteq ToSet(mail)
      /\ (\A i \in DOMAIN old : old[i].kind = "bye" => i = Len(old))
              => \A i \in DOMAIN mail : mail[i].kind = "bye" => i = Len(mail)
  BY <1>1, SaidIs, Zenon
<1> HIDE DEF mail
<1>4. /\ d \in Oscar /\ SameSession(c, d) /\ SameWaiting(c, d) /\ d.asked = c.asked
      /\ \A t \in Slots : SameButMail(c.flapconns[t], d.flapconns[t])
      /\ \A t \in Slots \ {s} : d.flapconns[t] = c.flapconns[t]
      /\ d.flapconns[s].mail = mail
  BY <1>2, <1>3, MailedIs
<1> HIDE DEF d
<1>5. c.flapconns[s].state # "none"
  BY DEF Suits
<1>6. (SessionKept(c) => SessionKept(d)) /\ \A bursts : InTurn(c, bursts) => InTurn(d, bursts)
  BY <1>4, <1>5, MailKeeps
<1>7. Wired(d)
  <2>1. FlapKept(c.flapconns[s])
    BY DEF Wired
  <2>2. FlapKept(d.flapconns[s])
    BY <1>3, <1>4, <1>5, <2>1 DEF FlapKept, SameButMail, Suits
  <2> QED
    BY <1>4, <2>2 DEF Wired
<1>8. Tidy(c) => Tidy(d)
  BY <1>3, <1>4 DEF Tidy, ByeIsLast
<1>9. \A f : OnTheWay(c, f) => OnTheWay(d, f)
  <2>1. \A t \in Slots : ToSet(c.flapconns[t].mail) \subseteq ToSet(d.flapconns[t].mail)
    BY <1>3, <1>4
  <2> QED
    BY <1>4, <2>1 DEF OnTheWay, SameButMail
<1> QED
  BY <1>3, <1>4, <1>6, <1>7, <1>8, <1>9 DEF d

(* A SNAC of the basic families, if there is a connection for it. *)
LEMMA SendBasicKeeps ==
  ASSUME NEW c \in Oscar, NEW m \in FlapFrame, m.kind \in {"rates", "icbm", "redirect"},
         Wired(c)
  PROVE  LET d == SendBasic(c, m) IN
         /\ d \in Oscar /\ Wired(d) /\ (Tidy(c) => Tidy(d))
         /\ SameSession(c, d) /\ SameWaiting(c, d) /\ d.asked = c.asked
         /\ (SessionKept(c) => SessionKept(d))
         /\ \A t \in Slots : SameButMail(c.flapconns[t], d.flapconns[t])
         /\ \A f : OnTheWay(c, f) => OnTheWay(d, f)
         /\ \A bursts : InTurn(c, bursts) => InTurn(d, bursts)
         /\ (\E s \in Slots : "basic" \in c.flapconns[s].families)
              => \E s \in Slots : /\ "basic" \in d.flapconns[s].families
                                  /\ m \in ToSet(d.flapconns[s].mail) \/ Bye \in ToSet(d.flapconns[s].mail)
<1>1. CASE Served(c, "basic") = {}
  <2>1. SendBasic(c, m) = c
    BY <1>1 DEF SendBasic
  <2>2. ~\E s \in Slots : "basic" \in c.flapconns[s].families
    BY <1>1 DEF Served
  <2> QED
    BY <2>1, <2>2 DEF SameSession, SameWaiting, SameButMail
<1>2. CASE Served(c, "basic") # {}
  <2> DEFINE s == CHOOSE s \in Served(c, "basic") : TRUE
             d == SendBasic(c, m)
  <2>1. s \in Slots /\ "basic" \in c.flapconns[s].families
    BY <1>2 DEF Served
  <2>2. d = Answers(c, s, m)
    BY <1>2 DEF SendBasic
  <2> HIDE DEF s
  <2>3. Suits(c.flapconns[s], m)
    <3>1. FlapKept(c.flapconns[s])
      BY <2>1 DEF Wired
    <3>2. c.flapconns[s].state # "none"
      BY <2>1, <3>1 DEF FlapKept, NoFlap
    <3> QED
      BY <2>1, <3>2 DEF Suits
  <2> HIDE DEF d
  <2>4. /\ d \in Oscar /\ Wired(d) /\ (Tidy(c) => Tidy(d))
        /\ SameSession(c, d) /\ SameWaiting(c, d) /\ d.asked = c.asked
        /\ (SessionKept(c) => SessionKept(d))
        /\ \A t \in Slots : SameButMail(c.flapconns[t], d.flapconns[t])
        /\ \A f : OnTheWay(c, f) => OnTheWay(d, f)
        /\ \A bursts : InTurn(c, bursts) => InTurn(d, bursts)
        /\ m \in ToSet(d.flapconns[s].mail) \/ Bye \in ToSet(d.flapconns[s].mail)
    BY <2>1, <2>2, <2>3, AnswersKeep, Zenon
  <2>5. "basic" \in d.flapconns[s].families
    BY <2>1, <2>4 DEF SameButMail
  <2> QED
    BY <2>1, <2>4, <2>5 DEF d
<1> QED
  BY <1>1, <1>2

(* SNAC n is sent at once to one who is served. *)
LEMMA SentAtOnce ==
  ASSUME NEW c \in Oscar, NEW f \in Services, c.made < MaxSnacs, Served(c, f) # {},
         Wired(c), SessionKept(c), NEW bursts, InTurn(c, bursts)
  PROVE  LET n == c.made + 1
             d == [c EXCEPT !.made = n, !.sent[f] = Append(@, n)]
         IN  /\ d \in Oscar /\ SessionKept(d) /\ InTurn(d, bursts)
             /\ d.flapconns = c.flapconns /\ d.asked = c.asked /\ d.panic = c.panic
<1> USE OscarLinksAssumption
<1> DEFINE n == c.made + 1
           q == Append(c.sent[f], n)
           g == [c.sent EXCEPT ![f] = q]
           d == [c EXCEPT !.made = n, !.sent[f] = Append(@, n)]
<1>1. c.made \in Nat /\ n \in 1..MaxSnacs /\ n \in 0..MaxSnacs /\ n = c.made + 1
  BY DEF Oscar
<1> HIDE DEF n
<1>2. c.sent \in [Services -> Seq(1..MaxSnacs)] /\ c.sent[f] \in Seq(1..MaxSnacs)
  BY DEF Oscar
<1>3. /\ q \in Seq(1..MaxSnacs) /\ DOMAIN q = 1..(Len(c.sent[f]) + 1)
      /\ Len(c.sent[f]) \in Nat /\ DOMAIN c.sent[f] = 1..Len(c.sent[f])
      /\ q[Len(c.sent[f]) + 1] = n
      /\ \A i \in 1..Len(c.sent[f]) : q[i] = c.sent[f][i]
  BY <1>1, <1>2
<1> HIDE DEF q
<1>4. /\ g \in [Services -> Seq(1..MaxSnacs)] /\ g[f] = q
      /\ \A h \in Services \ {f} : g[h] = c.sent[h]
  BY <1>2, <1>3
<1>5. d = [c EXCEPT !.made = n, !.sent = g]
  BY DEF q
<1> HIDE DEF g, d
<1>6. /\ d \in Oscar /\ d.made = n /\ d.sent = g /\ d.flapconns = c.flapconns
      /\ d.asked = c.asked /\ d.panic = c.panic /\ d.flapspending = c.flapspending
      /\ d.online = c.online /\ d.auto = c.auto /\ d.connected = c.connected
      /\ d.isconnecting = c.isconnecting /\ d.authsock = c.authsock /\ d.opened = c.opened
  BY <1>1, <1>4, <1>5 DEF Oscar
<1>7. SessionKept(d)
  BY <1>6 DEF SessionKept
<1>8. c.flapspending[f] = {}
  BY DEF InTurn
<1>9. \A i \in DOMAIN c.sent[f] : c.sent[f][i] <= c.made /\ c.sent[f][i] \in 1..MaxSnacs
  BY <1>2 DEF InTurn
<1> DEFINE l == Len(c.sent[f])
<1>l. l \in Nat /\ DOMAIN q = 1..(l + 1) /\ DOMAIN c.sent[f] = 1..l /\ q[l + 1] = n
      /\ \A i \in 1..l : q[i] = c.sent[f][i]
  BY <1>3
<1> HIDE DEF l
<1>a. \A i \in DOMAIN q : \/ i \in DOMAIN c.sent[f] /\ q[i] = c.sent[f][i]
                          \/ i = l + 1 /\ q[i] = n
  BY <1>l
<1>b. \A i \in DOMAIN c.sent[f] : i < l + 1 /\ c.sent[f][i] < n /\ c.sent[f][i] # n
  <2> SUFFICES ASSUME NEW i \in DOMAIN c.sent[f]
               PROVE  i < l + 1 /\ c.sent[f][i] < n /\ c.sent[f][i] # n
    OBVIOUS
  <2>1. c.sent[f][i] <= c.made /\ c.sent[f][i] \in Nat
    BY <1>9
  <2>2. i < l + 1
    BY <1>l
  <2>3. \A k, m \in Nat : k <= m => k < m + 1 /\ k # m + 1
    OBVIOUS
  <2> QED
    BY <1>1, <2>1, <2>2, <2>3
<1>c. ASSUME NEW h \in Services
      PROVE  /\ c.flapspending[h] # {} => Served(c, h) = {}
             /\ \A k \in c.flapspending[h] : k <= n
             /\ \A i \in DOMAIN g[h] :
                  /\ g[h][i] <= n
                  /\ g[h][i] \notin c.flapspending[h]
                  /\ \A j \in DOMAIN g[h] : i < j => g[h][i] # g[h][j]
             /\ bursts \/
                  /\ \A k, m \in c.flapspending[h] : k = m
                  /\ \A i \in DOMAIN g[h] :
                       /\ \A k \in c.flapspending[h] : g[h][i] < k
                       /\ \A j \in DOMAIN g[h] : i < j => g[h][i] < g[h][j]
  <2>0. \A k \in c.flapspending[h] : k <= n
    BY <1>1 DEF InTurn, Oscar
  <2>1. CASE h # f
    <3>1. g[h] = c.sent[h] /\ c.sent[h] \in Seq(1..MaxSnacs)
      BY <1>2, <1>4, <2>1
    <3>2. \A i \in DOMAIN c.sent[h] : c.sent[h][i] <= n
      BY <1>1, <1>2 DEF InTurn
    <3> QED
      BY <2>0, <3>1, <3>2 DEF InTurn
  <2>2. CASE h = f
    <3>1. \A i, j \in DOMAIN q : i < j => q[i] # q[j]
      <4> SUFFICES ASSUME NEW i \in DOMAIN q, NEW j \in DOMAIN q, i < j PROVE q[i] # q[j]
        OBVIOUS
      <4>1. i \in DOMAIN c.sent[f] /\ q[i] = c.sent[f][i]
        BY <1>l
      <4> QED
        BY <4>1, <1>a, <1>b DEF InTurn
    <3>2. \A i \in DOMAIN q : q[i] <= n
      <4> SUFFICES ASSUME NEW i \in DOMAIN q PROVE q[i] <= n
        OBVIOUS
      <4>1. CASE q[i] = n
        BY <1>1, <4>1
      <4>2. CASE i \in DOMAIN c.sent[f] /\ q[i] = c.sent[f][i]
        BY <1>1, <1>9, <1>b, <4>2
      <4> QED
        BY <1>a, <4>1, <4>2
    <3>3. bursts \/ \A i, j \in DOMAIN q : i < j => q[i] < q[j]
      <4> SUFFICES ASSUME ~bursts, NEW i \in DOMAIN q, NEW j \in DOMAIN q, i < j PROVE q[i] < q[j]
        OBVIOUS
      <4>1. i \in DOMAIN c.sent[f] /\ q[i] = c.sent[f][i]
        BY <1>l
      <4> QED
        BY <4>1, <1>a, <1>b DEF InTurn
    <3> QED
      BY <2>2, <1>4, <1>8, <3>1, <3>2, <3>3
  <2> QED
    BY <2>1, <2>2
<1>d. InTurn(d, bursts)
  BY <1>6, <1>c DEF InTurn, Served
<1> QED
  BY <1>6, <1>7, <1>d DEF d, n

(* SNAC n waits with those for the same service, and the service has been asked for. *)
LEMMA Waits ==
  ASSUME NEW c \in Oscar, NEW f \in Services, NEW n \in 1..MaxSnacs, c.made = n,
         Served(c, f) = {}, SessionKept(c), NEW bursts,
         \A h \in Services : \A k \in c.flapspending[h] : k < n,
         \A h \in Services : \A i \in DOMAIN c.sent[h] : c.sent[h][i] < n,
         InTurn(c, bursts), bursts \/ c.flapspending[f] = {}
  PROVE  LET d == [c EXCEPT !.flapspending[f] = @ \cup {n}, !.asked = @ \cup {f}]
         IN  /\ d \in Oscar /\ SessionKept(d) /\ InTurn(d, bursts)
             /\ d.flapconns = c.flapconns /\ d.asked = c.asked \cup {f} /\ d.panic = c.panic
<1> USE OscarLinksAssumption
<1> DEFINE w == c.flapspending[f] \cup {n}
           g == [c.flapspending EXCEPT ![f] = w]
           d == [c EXCEPT !.flapspending[f] = @ \cup {n}, !.asked = @ \cup {f}]
<1>1. c.flapspending \in [Services -> SUBSET (1..MaxSnacs)]
  BY DEF Oscar
<1>2. w \in SUBSET (1..MaxSnacs)
  BY <1>1
<1>3. /\ g \in [Services -> SUBSET (1..MaxSnacs)] /\ g[f] = w
      /\ \A h \in Services \ {f} : g[h] = c.flapspending[h]
  BY <1>1, <1>2
<1>4. d = [c EXCEPT !.flapspending = g, !.asked = c.asked \cup {f}]
  OBVIOUS
<1> HIDE DEF g, d
<1>5. /\ d \in Oscar /\ d.made = n /\ d.sent = c.sent /\ d.flapconns = c.flapconns
      /\ d.asked = c.asked \cup {f} /\ d.panic = c.panic /\ d.flapspending = g
      /\ d.online = c.online /\ d.auto = c.auto /\ d.connected = c.connected
      /\ d.isconnecting = c.isconnecting /\ d.authsock = c.authsock /\ d.opened = c.opened
  BY <1>3, <1>4 DEF Oscar
<1>6. SessionKept(d)
  BY <1>5 DEF SessionKept
<1>7. InTurn(d, bursts)
  <2>1. \A h \in Services : /\ c.sent[h] \in Seq(1..MaxSnacs) /\ c.flapspending[h] \subseteq 1..MaxSnacs
                            /\ \A i \in DOMAIN c.sent[h] : c.sent[h][i] \in 1..MaxSnacs
    BY DEF Oscar
  <2>2. \A h : Served(d, h) = Served(c, h)
    BY <1>5 DEF Served
  <2>3. ASSUME NEW h \in Services
        PROVE  /\ g[h] # {} => Served(c, h) = {}
               /\ \A k \in g[h] : k <= n
               /\ \A i \in DOMAIN c.sent[h] : c.sent[h][i] \notin g[h]
               /\ bursts \/
                    /\ \A k, m \in g[h] : k = m
                    /\ \A i \in DOMAIN c.sent[h] : \A k \in g[h] : c.sent[h][i] < k
    <3>1. CASE h # f
      BY <1>3, <3>1 DEF InTurn
    <3>2. CASE h = f
      <4>1. \A k \in w : k <= n
        BY <2>1, <3>2 DEF InTurn
      <4>2. \A i \in DOMAIN c.sent[f] : c.sent[f][i] \notin w
        BY <2>1 DEF InTurn
      <4>3. bursts \/ w = {n}
        OBVIOUS
      <4> QED
        BY <1>3, <3>2, <4>1, <4>2, <4>3
    <3> QED
      BY <3>1, <3>2
  <2> QED
    BY <1>5, <2>2, <2>3 DEF InTurn
<1> QED
  BY <1>5, <1>6, <1>7 DEF d
LEMMA AsksKeeps == \A f \in Services : OscarInv /\ AsksService(f) => OscarInv'
<1> SUFFICES ASSUME NEW f \in Services, OscarInv, AsksService(f) PROVE OscarInv'
  OBVIOUS
<1> USE OscarLinksAssumption
<1> DEFINE n == oscar.made + 1
           bursts == "bursts" \in custom
           c == [oscar EXCEPT !.made = n]
<1>1. /\ oscar \in Oscar /\ custom \subseteq Custom /\ Wired(oscar) /\ SessionKept(oscar)
      /\ InTurn(oscar, bursts) /\ UNCHANGED custom /\ oscar.connected = "ACTIVE"
      /\ oscar.made < MaxSnacs /\ (oscar.flapspending[f] # {} => bursts)
      /\ oscar' = FLAPSend(c, n, f)
  BY DEF OscarInv, AsksService
<1>2. /\ oscar.made \in Nat /\ n \in 1..MaxSnacs /\ n \in 0..MaxSnacs
      /\ \A k : k \in Nat /\ k <= oscar.made => k < n
  BY <1>1 DEF Oscar
<1>3. CASE Served(oscar, f) # {}
  <2>1. oscar' = [oscar EXCEPT !.made = n, !.sent[f] = Append(@, n)]
    BY <1>1, <1>3 DEF FLAPSend, Served, Oscar
  <2> HIDE DEF bursts
  <2>2. /\ oscar' \in Oscar /\ SessionKept(oscar') /\ InTurn(oscar', bursts)
        /\ oscar'.flapconns = oscar.flapconns /\ oscar'.asked = oscar.asked
        /\ oscar'.panic = oscar.panic
    <3> DEFINE d == [oscar EXCEPT !.made = oscar.made + 1, !.sent[f] = Append(@, oscar.made + 1)]
    <3>1. /\ d \in Oscar /\ SessionKept(d) /\ InTurn(d, bursts)
          /\ d.flapconns = oscar.flapconns /\ d.asked = oscar.asked /\ d.panic = oscar.panic
      BY <1>1, <1>3, SentAtOnce, Zenon
    <3>2. oscar' = d
      BY <2>1
    <3> HIDE DEF d
    <3> QED
      BY <3>1, <3>2
  <2>3. /\ Wired(oscar) => Wired(oscar')
        /\ Tidy(oscar) => Tidy(oscar')
        /\ AskedFor(oscar) => AskedFor(oscar')
    BY <2>2, WiredAgain, Zenon
  <2> QED
    BY <1>1, <2>2, <2>3 DEF OscarInv, bursts
<1>4. CASE Served(oscar, f) = {}
  <2> DEFINE a == IF f \in c.asked THEN c ELSE SendBasic(c, Redirect(f))
  <2>1. oscar' = [a EXCEPT !.flapspending[f] = @ \cup {n}, !.asked = @ \cup {f}]
    BY <1>1, <1>4 DEF FLAPSend, Served, Oscar, Redirect
  <2>2. /\ c \in Oscar /\ SameSession(oscar, c) /\ c.flapspending = oscar.flapspending
        /\ c.sent = oscar.sent /\ c.made = n /\ c.asked = oscar.asked
        /\ c.flapconns = oscar.flapconns
    BY <1>1, <1>2 DEF Oscar, SameSession
  <2> HIDE DEF c, bursts
  <2>3. Wired(c) /\ (Tidy(oscar) => Tidy(c)) /\ (AskedFor(oscar) => AskedFor(c))
    BY <1>1, <2>2, WiredAgain, Zenon
  <2>4. SessionKept(c)
    BY <1>1, <2>2 DEF SessionKept, SameSession
  <2>5. \A h \in Services : /\ \A k \in oscar.flapspending[h] : k < n
                            /\ \A i \in DOMAIN oscar.sent[h] : oscar.sent[h][i] < n
    <3> SUFFICES ASSUME NEW h \in Services
                 PROVE  /\ \A k \in oscar.flapspending[h] : k < n
                        /\ \A i \in DOMAIN oscar.sent[h] : oscar.sent[h][i] < n
      OBVIOUS
    <3>1. oscar.flapspending[h] \subseteq Nat /\ oscar.sent[h] \in Seq(1..MaxSnacs)
      BY <1>1 DEF Oscar
    <3>2. \A i \in DOMAIN oscar.sent[h] : oscar.sent[h][i] \in Nat
      BY <3>1
    <3> HIDE DEF n
    <3>3. /\ \A k \in oscar.flapspending[h] : k <= oscar.made
          /\ \A i \in DOMAIN oscar.sent[h] : oscar.sent[h][i] <= oscar.made
      BY <1>1 DEF InTurn
    <3> QED
      BY <1>2, <3>1, <3>2, <3>3
  <2> HIDE DEF n
  <2>6. InTurn(c, bursts)
    <3>1. \A h : Served(c, h) = Served(oscar, h)
      BY <2>2 DEF Served
    <3>2. \A h \in Services : /\ \A k \in oscar.flapspending[h] : k <= n
                              /\ \A i \in DOMAIN oscar.sent[h] : oscar.sent[h][i] <= n
      <4> SUFFICES ASSUME NEW h \in Services
                   PROVE  /\ \A k \in oscar.flapspending[h] : k <= n
                          /\ \A i \in DOMAIN oscar.sent[h] : oscar.sent[h][i] <= n
        OBVIOUS
      <4>1. oscar.flapspending[h] \subseteq Nat /\ oscar.sent[h] \in Seq(1..MaxSnacs)
        BY <1>1 DEF Oscar
      <4>2. \A i \in DOMAIN oscar.sent[h] : oscar.sent[h][i] \in Nat
        BY <4>1
      <4> QED
        BY <1>2, <2>5, <4>1, <4>2
    <3> QED
      BY <1>1, <2>2, <3>1, <3>2 DEF InTurn
  <2>7. /\ a \in Oscar /\ Wired(a) /\ (Tidy(c) => Tidy(a)) /\ SameSession(c, a) /\ SameWaiting(c, a)
        /\ a.asked = c.asked /\ SessionKept(a) /\ InTurn(a, bursts)
        /\ \A t \in Slots : SameButMail(c.flapconns[t], a.flapconns[t])
        /\ \A h : OnTheWay(c, h) => OnTheWay(a, h)
        /\ f \notin c.asked => OnTheWay(a, f)
    <3>1. CASE f \in c.asked
      <4>1. a = c
        BY <3>1
      <4> QED
        BY <2>2, <2>3, <2>4, <2>6, <3>1, <4>1 DEF SameSession, SameWaiting, SameButMail
    <3>2. CASE f \notin c.asked
      <4> DEFINE m == Redirect(f)
      <4>1. a = SendBasic(c, m)
        BY <3>2
      <4>2. m \in FlapFrame /\ m.kind \in {"rates", "icbm", "redirect"}
        BY FramesAre DEF Redirect
      <4> HIDE DEF m, a
      <4>3. /\ a \in Oscar /\ Wired(a) /\ (Tidy(c) => Tidy(a))
            /\ SameSession(c, a) /\ SameWaiting(c, a) /\ a.asked = c.asked
            /\ (SessionKept(c) => SessionKept(a))
            /\ \A t \in Slots : SameButMail(c.flapconns[t], a.flapconns[t])
            /\ \A h : OnTheWay(c, h) => OnTheWay(a, h)
            /\ \A b : InTurn(c, b) => InTurn(a, b)
            /\ (\E s \in Slots : "basic" \in c.flapconns[s].families)
              => \E s \in Slots : /\ "basic" \in a.flapconns[s].families
                                  /\ m \in ToSet(a.flapconns[s].mail) \/ Bye \in ToSet(a.flapconns[s].mail)
        BY <2>2, <2>3, <4>1, <4>2, SendBasicKeeps, Zenon
      <4>4. \E s \in Slots : "basic" \in c.flapconns[s].families
        BY <1>1, <2>2 DEF SessionKept
      <4>5. OnTheWay(a, f)
        BY <4>3, <4>4 DEF OnTheWay, m
      <4> QED
        BY <2>4, <2>6, <4>3, <4>5
    <3> QED
      BY <3>1, <3>2
  <2> HIDE DEF a
  <2>8. Served(a, f) = {}
    BY <1>4, <2>2, <2>7 DEF Served, SameButMail
  <2>9. /\ a.made = n /\ a.flapspending = oscar.flapspending /\ a.sent = oscar.sent
        /\ a.panic = oscar.panic
    BY <2>2, <2>7 DEF SameWaiting, SameSession
  <2>a. bursts \/ a.flapspending[f] = {}
    BY <1>1, <2>9
  <2>b. /\ oscar' \in Oscar /\ SessionKept(oscar') /\ InTurn(oscar', bursts)
        /\ oscar'.flapconns = a.flapconns /\ oscar'.asked = a.asked \cup {f}
        /\ oscar'.panic = a.panic
    <3>1. /\ \A h \in Services : \A k \in a.flapspending[h] : k < n
          /\ \A h \in Services : \A i \in DOMAIN a.sent[h] : a.sent[h][i] < n
      BY <2>5, <2>9
    <3> DEFINE d == [a EXCEPT !.flapspending[f] = @ \cup {n}, !.asked = @ \cup {f}]
    <3>2. /\ d \in Oscar /\ SessionKept(d) /\ InTurn(d, bursts)
          /\ d.flapconns = a.flapconns /\ d.asked = a.asked \cup {f} /\ d.panic = a.panic
      BY <1>2, <2>7, <2>8, <2>9, <2>a, <3>1, Waits, Zenon
    <3>3. oscar' = d
      BY <2>1
    <3> HIDE DEF d
    <3> QED
      BY <3>2, <3>3
  <2>c. Wired(oscar') /\ (Tidy(a) => Tidy(oscar'))
    BY <2>7, <2>b, WiredAgain, Zenon
  <2>d. AskedFor(c) => AskedFor(oscar')
    BY <2>7, <2>b DEF AskedFor, OnTheWay
  <2> QED
    BY <1>1, <2>3, <2>7, <2>9, <2>b, <2>c, <2>d DEF OscarInv, bursts
<1> QED
  BY <1>3, <1>4

-----------------------------------------------------------------------------
(* One connection becomes another. *)
Put(c, s, y) == [c EXCEPT !.flapconns[s] = y]

LEMMA PutIs ==
  ASSUME NEW c \in Oscar, NEW s \in Slots, NEW y \in Flap
  PROVE  LET d == Put(c, s, y) IN
         /\ d \in Oscar /\ SameSession(c, d) /\ SameWaiting(c, d) /\ d.asked = c.asked
         /\ d.flapconns[s] = y
         /\ \A t \in Slots \ {s} : d.flapconns[t] = c.flapconns[t]
<1> DEFINE g == [c.flapconns EXCEPT ![s] = y]
           d == Put(c, s, y)
<1>1. /\ g \in [Slots -> Flap] /\ g[s] = y
      /\ \A t \in Slots \ {s} : g[t] = c.flapconns[t]
  BY DEF Oscar
<1>2. d = [c EXCEPT !.flapconns = g]
  BY DEF Put
<1> HIDE DEF g, d
<1>3. d \in Oscar /\ SameSession(c, d) /\ SameWaiting(c, d) /\ d.asked = c.asked /\ d.flapconns = g
  BY <1>1, <1>2 DEF Oscar, SameSession, SameWaiting
<1> QED
  BY <1>1, <1>3 DEF d

(* What survives it. *)
LEMMA PutKeeps ==
  ASSUME NEW c \in Oscar, NEW s \in Slots, NEW y \in Flap, FlapKept(y), Wired(c),
         SessionKept(c), c.opened,
         "basic" \in c.flapconns[s].families => "basic" \in y.families
  PROVE  LET d == Put(c, s, y) IN
         /\ Wired(d) /\ SessionKept(d)
         /\ ByeIsLast(y) /\ Tidy(c) => Tidy(d)
         /\ \A bursts : InTurn(c, bursts) /\ y.families \subseteq c.flapconns[s].families => InTurn(d, bursts)
<1> DEFINE d == Put(c, s, y)
<1>1. /\ d \in Oscar /\ SameSession(c, d) /\ SameWaiting(c, d)
      /\ d.flapconns[s] = y
      /\ \A t \in Slots \ {s} : d.flapconns[t] = c.flapconns[t]
  BY PutIs
<1> HIDE DEF d
<1>2. Wired(d)
  BY <1>1 DEF Wired
<1>3. SessionKept(d)
  <2>1. (\E t \in Slots : "basic" \in c.flapconns[t].families)
          => \E t \in Slots : "basic" \in d.flapconns[t].families
    BY <1>1
  <2> QED
    BY <1>1, <2>1 DEF SessionKept, SameSession
<1>4. ByeIsLast(y) /\ Tidy(c) => Tidy(d)
  BY <1>1 DEF Tidy
<1>5. ASSUME NEW bursts, InTurn(c, bursts), y.families \subseteq c.flapconns[s].families
      PROVE  InTurn(d, bursts)
  <2>1. \A h : Served(d, h) \subseteq Served(c, h)
    BY <1>1, <1>5 DEF Served
  <2>2. \A h : Served(c, h) = {} => Served(d, h) = {}
    BY <2>1
  <2> QED
    BY <1>1, <1>5, <2>2 DEF InTurn, SameWaiting
<1> QED
  BY <1>2, <1>3, <1>4, <1>5 DEF d
(* A connection is opened in a free slot. *)
LEMMA OpeningKeeps ==
  ASSUME NEW c \in Oscar, NEW s \in FreeSlots(c), NEW f \in Services \cup {"basic"},
         Wired(c), SessionKept(c), c.opened
  PROVE  LET d == FLAPConnect(c, s, f) IN
         /\ d \in Oscar /\ SameSession(c, d) /\ SameWaiting(c, d) /\ d.asked = c.asked
         /\ Wired(d) /\ SessionKept(d) /\ (Tidy(c) => Tidy(d))
         /\ \A bursts : InTurn(c, bursts) => InTurn(d, bursts)
         /\ \A h : OnTheWay(c, h) => OnTheWay(d, h)
         /\ OnTheWay(d, f)
<1> DEFINE y == [NoFlap EXCEPT !.state = "opening", !.serves = f, !.required = f = "basic"]
           d == FLAPConnect(c, s, f)
<1>1. s \in Slots /\ c.flapconns[s] = NoFlap
  BY DEF FreeSlots, Wired, FlapKept
<1>2. d = Put(c, s, y)
  BY DEF FLAPConnect, Put
<1>3. /\ y \in Flap /\ y.families = {} /\ y.mail = <<>> /\ y.serves = f /\ y.state = "opening"
      /\ y.required <=> f = "basic"
  <2> DEFINE r == f = "basic"
             z == [NoFlap EXCEPT !.state = "opening"]
             w == [z EXCEPT !.serves = f]
  <2>1. y = [w EXCEPT !.required = r]
    OBVIOUS
  <2>2. z \in Flap /\ z.families = {} /\ z.mail = <<>> /\ z.state = "opening"
    BY NoFlapIs DEF NoFlap, Flap
  <2> HIDE DEF z
  <2>3. w \in Flap /\ w.families = {} /\ w.mail = <<>> /\ w.state = "opening" /\ w.serves = f
    BY <2>2 DEF Flap
  <2> HIDE DEF w, y
  <2>4. CASE r
    <3>1. y = [w EXCEPT !.required = TRUE]
      BY <2>1, <2>4, Zenon
    <3> QED
      BY <2>3, <2>4, <3>1 DEF Flap
  <2>5. CASE ~r
    <3>1. r = FALSE
      BY <2>5
    <3>2. y = [w EXCEPT !.required = FALSE]
      BY <2>1, <3>1, Zenon
    <3> QED
      BY <2>3, <2>5, <3>2 DEF Flap
  <2> QED
    BY <2>4, <2>5
<1>4. NoFlap.families = {} /\ NoFlap.state = "none" /\ NoFlap.mail = <<>>
  BY DEF NoFlap
<1> HIDE DEF y, d
<1>5. FlapKept(y) /\ ByeIsLast(y)
  <2>1. y.state # "none" /\ DOMAIN y.mail = {} /\ y.families \subseteq {y.serves}
    BY <1>3
  <2>2. y.required <=> y.state # "none" /\ y.serves = "basic"
    BY <1>3
  <2> QED
    BY <2>1, <2>2 DEF FlapKept, ByeIsLast
<1>6. /\ d \in Oscar /\ SameSession(c, d) /\ SameWaiting(c, d) /\ d.asked = c.asked
      /\ d.flapconns[s] = y
      /\ \A t \in Slots \ {s} : d.flapconns[t] = c.flapconns[t]
  BY <1>1, <1>2, <1>3, PutIs
<1>7. /\ Wired(d) /\ SessionKept(d)
      /\ ByeIsLast(y) /\ Tidy(c) => Tidy(d)
      /\ \A bursts : InTurn(c, bursts) /\ y.families \subseteq c.flapconns[s].families => InTurn(d, bursts)
  BY <1>1, <1>2, <1>3, <1>4, <1>5, PutKeeps
<1>8. \A h : OnTheWay(c, h) => OnTheWay(d, h)
  <2>1. ToSet(c.flapconns[s].mail) = {}
    BY <1>1, <1>4 DEF ToSet
  <2> QED
    BY <1>1, <1>4, <1>6, <2>1 DEF OnTheWay
<1>9. OnTheWay(d, f)
  BY <1>1, <1>3, <1>6 DEF OnTheWay
<1> QED
  BY <1>3, <1>5, <1>6, <1>7, <1>8, <1>9 DEF d

LEMMA PollAuthKeeps == OscarInv /\ PollAuth => OscarInv'
<1> SUFFICES ASSUME OscarInv, PollAuth PROVE OscarInv'
  OBVIOUS
<1> DEFINE bursts == "bursts" \in custom
<1>1. /\ oscar \in Oscar /\ custom \subseteq Custom /\ Wired(oscar) /\ SessionKept(oscar)
      /\ InTurn(oscar, bursts) /\ UNCHANGED custom /\ oscar.opened
      /\ oscar.authsock # "none"
  BY DEF OscarInv, PollAuth, SessionKept
<1> HIDE DEF bursts
<1>2. CASE oscar' = [oscar EXCEPT !.authsock = "open"]
  <2>1. /\ oscar' \in Oscar /\ oscar'.flapconns = oscar.flapconns /\ oscar'.panic = oscar.panic
        /\ oscar'.asked = oscar.asked /\ SameWaiting(oscar, oscar')
        /\ oscar'.online = oscar.online /\ oscar'.auto = oscar.auto /\ oscar'.opened
        /\ oscar'.connected = oscar.connected /\ oscar'.isconnecting = oscar.isconnecting
    BY <1>1, <1>2 DEF Oscar, SameWaiting
  <2>2. SessionKept(oscar')
    BY <1>1, <2>1 DEF SessionKept
  <2>3. /\ Wired(oscar') /\ InTurn(oscar', bursts)
        /\ Tidy(oscar) => Tidy(oscar')
        /\ AskedFor(oscar) => AskedFor(oscar')
    BY <1>1, <2>1, WiredAgain, Zenon DEF SameWaiting
  <2> QED
    BY <1>1, <2>1, <2>2, <2>3 DEF OscarInv, bursts
<1>3. ASSUME NEW s \in FreeSlots(oscar), oscar' = [FLAPConnect(oscar, s, "basic") EXCEPT !.authsock = "done"]
      PROVE  OscarInv'
  <2> DEFINE c == FLAPConnect(oscar, s, "basic")
  <2>1. /\ c \in Oscar /\ SameSession(oscar, c) /\ SameWaiting(oscar, c) /\ c.asked = oscar.asked
        /\ Wired(c) /\ SessionKept(c) /\ (Tidy(oscar) => Tidy(c))
        /\ \A b : InTurn(oscar, b) => InTurn(c, b)
        /\ \A h : OnTheWay(oscar, h) => OnTheWay(c, h)
    BY <1>1, OpeningKeeps, Zenon
  <2> HIDE DEF c
  <2>2. /\ oscar' \in Oscar /\ oscar'.flapconns = c.flapconns /\ oscar'.panic = c.panic
        /\ oscar'.asked = c.asked /\ SameWaiting(c, oscar')
        /\ oscar'.online = c.online /\ oscar'.auto = c.auto /\ oscar'.opened = c.opened
        /\ oscar'.connected = c.connected /\ oscar'.isconnecting = c.isconnecting
    BY <1>3, <2>1 DEF Oscar, SameWaiting, c
  <2>3. SessionKept(oscar') /\ oscar'.panic = oscar.panic
    BY <1>1, <2>1, <2>2 DEF SessionKept, SameSession
  <2>4. AskedFor(oscar) => AskedFor(c)
    BY <2>1 DEF AskedFor
  <2>5. /\ Wired(oscar') /\ InTurn(oscar', bursts)
        /\ Tidy(c) => Tidy(oscar')
        /\ AskedFor(c) => AskedFor(oscar')
    BY <1>1, <2>1, <2>2, WiredAgain, Zenon DEF SameWaiting
  <2> QED
    BY <1>1, <2>1, <2>2, <2>3, <2>4, <2>5 DEF OscarInv, bursts
<1>4. CASE oscar' = Cleanup(oscar)
  <2>1. /\ oscar' \in Oscar /\ Wired(oscar') /\ Tidy(oscar') /\ SessionKept(oscar') /\ AskedFor(oscar')
        /\ InTurn(oscar', bursts)
    BY <1>1, <1>4, CleanupKeeps, Zenon DEF SessionKept
  <2>2. oscar'.panic = oscar.panic
    BY <1>1, <1>4, CleanupIs
  <2> QED
    BY <1>1, <2>1, <2>2 DEF OscarInv, bursts
<1> QED
  BY <1>2, <1>3, <1>4 DEF PollAuth

LEMMA PollAuthByeKeeps == OscarInv /\ PollAuthBye => OscarInv'
<1> SUFFICES ASSUME OscarInv, PollAuthBye PROVE OscarInv'
  OBVIOUS
<1> DEFINE bursts == "bursts" \in custom
<1>1. /\ oscar \in Oscar /\ custom \subseteq Custom /\ Wired(oscar) /\ SessionKept(oscar)
      /\ InTurn(oscar, bursts) /\ UNCHANGED custom /\ oscar' = [oscar EXCEPT !.authsock = "none"]
  BY DEF OscarInv, PollAuthBye
<1> HIDE DEF bursts
<1>2. /\ oscar' \in Oscar /\ oscar'.flapconns = oscar.flapconns /\ oscar'.panic = oscar.panic
      /\ oscar'.asked = oscar.asked /\ SameWaiting(oscar, oscar') /\ oscar'.authsock = "none"
      /\ oscar'.online = oscar.online /\ oscar'.auto = oscar.auto /\ oscar'.opened = oscar.opened
      /\ oscar'.connected = oscar.connected /\ oscar'.isconnecting = oscar.isconnecting
  BY <1>1 DEF Oscar, SameWaiting
<1>3. SessionKept(oscar')
  BY <1>1, <1>2 DEF SessionKept
<1>4. /\ Wired(oscar') /\ InTurn(oscar', bursts)
      /\ Tidy(oscar) => Tidy(oscar')
      /\ AskedFor(oscar) => AskedFor(oscar')
  BY <1>1, <1>2, WiredAgain, Zenon DEF SameWaiting
<1> QED
  BY <1>1, <1>2, <1>3, <1>4 DEF OscarInv, bursts

(* A connection that is there belongs to a session. *)
LEMMA OpenedIs ==
  ASSUME NEW c, SessionKept(c), NEW s \in Slots, c.flapconns[s].state # "none"
  PROVE  c.opened
BY DEF SessionKept, NoFlap

LEMMA PollOpensKeeps == \A s \in Slots : OscarInv /\ PollOpens(s) => OscarInv'
<1> SUFFICES ASSUME NEW s \in Slots, OscarInv, PollOpens(s) PROVE OscarInv'
  OBVIOUS
<1> DEFINE bursts == "bursts" \in custom
           m == [kind |-> "hello"]
           x == oscar.flapconns[s]
           y == [x EXCEPT !.state = "open"]
           c == [oscar EXCEPT !.flapconns[s].state = "open"]
<1>1. /\ oscar \in Oscar /\ custom \subseteq Custom /\ Wired(oscar) /\ SessionKept(oscar)
      /\ InTurn(oscar, bursts) /\ UNCHANGED custom /\ x.state = "opening"
      /\ oscar' = Answers(c, s, m)
  BY DEF OscarInv, PollOpens
<1>2. oscar.opened
  BY <1>1, OpenedIs
<1>3. x \in Flap /\ FlapKept(x)
  BY <1>1 DEF Oscar, Wired
<1>4. /\ y \in Flap /\ y.state = "open" /\ y.required = x.required /\ y.serves = x.serves
      /\ y.families = x.families /\ y.mail = x.mail
  BY <1>3 DEF Flap
<1>5. c = Put(oscar, s, y)
  BY DEF Put
<1>6. m \in FlapFrame /\ m.kind = "hello"
  BY DEF FlapFrame
<1> HIDE DEF bursts, m, x, y, c
<1>7. FlapKept(y)
  BY <1>1, <1>3, <1>4 DEF FlapKept
<1>8. ByeIsLast(x) => ByeIsLast(y)
  BY <1>4 DEF ByeIsLast
<1>9. /\ c \in Oscar /\ SameSession(oscar, c) /\ SameWaiting(oscar, c) /\ c.asked = oscar.asked
      /\ c.flapconns[s] = y
      /\ \A t \in Slots \ {s} : c.flapconns[t] = oscar.flapconns[t]
  BY <1>1, <1>4, <1>5, PutIs
<1>a. /\ Wired(c) /\ SessionKept(c)
      /\ ByeIsLast(y) /\ Tidy(oscar) => Tidy(c)
      /\ \A b : InTurn(oscar, b) /\ y.families \subseteq x.families => InTurn(c, b)
  BY <1>1, <1>2, <1>4, <1>5, <1>7, PutKeeps DEF x
<1>b. \A f : OnTheWay(oscar, f) => OnTheWay(c, f)
  BY <1>1, <1>4, <1>9 DEF OnTheWay, x
<1>c. Suits(c.flapconns[s], m)
  BY <1>4, <1>6, <1>9 DEF Suits
<1>d. /\ oscar' \in Oscar /\ Wired(oscar') /\ (Tidy(c) => Tidy(oscar'))
      /\ SameSession(c, oscar') /\ SameWaiting(c, oscar') /\ oscar'.asked = c.asked
      /\ (SessionKept(c) => SessionKept(oscar'))
      /\ \A f : OnTheWay(c, f) => OnTheWay(oscar', f)
      /\ \A b : InTurn(c, b) => InTurn(oscar', b)
  BY <1>1, <1>6, <1>9, <1>a, <1>c, AnswersKeep, Zenon
<1>e. InTurn(oscar', bursts)
  BY <1>1, <1>4, <1>a, <1>d, Zenon
<1>f. Tidy(oscar) => Tidy(oscar')
  BY <1>8, <1>a, <1>d DEF Tidy, x
<1>g. AskedFor(oscar) => AskedFor(oscar')
  BY <1>9, <1>b, <1>d DEF AskedFor
<1> QED
  BY <1>1, <1>9, <1>a, <1>d, <1>e, <1>f, <1>g DEF OscarInv, bursts, SameSession

LEMMA PollLostKeeps == \A s \in Slots : OscarInv /\ PollLost(s) => OscarInv'
<1> SUFFICES ASSUME NEW s \in Slots, OscarInv, PollLost(s) PROVE OscarInv'
  OBVIOUS
<1> DEFINE bursts == "bursts" \in custom
           x == oscar.flapconns[s]
<1>1. /\ oscar \in Oscar /\ custom \subseteq Custom /\ Wired(oscar) /\ SessionKept(oscar)
      /\ InTurn(oscar, bursts) /\ UNCHANGED custom /\ x.state # "none"
      /\ ~x.required /\ x.families = {} => "drops" \in custom
  BY DEF OscarInv, PollLost
<1>2. FlapKept(x)
  BY <1>1 DEF Wired
<1>3. CASE x.required
  <2>1. oscar' = Cleanup(oscar)
    BY <1>3 DEF PollLost
  <2> HIDE DEF bursts
  <2>2. /\ oscar' \in Oscar /\ Wired(oscar') /\ Tidy(oscar') /\ SessionKept(oscar') /\ AskedFor(oscar')
        /\ InTurn(oscar', bursts)
    BY <1>1, <2>1, CleanupKeeps, Zenon DEF SessionKept
  <2>3. oscar'.panic = oscar.panic
    BY <1>1, <2>1, CleanupIs
  <2> QED
    BY <1>1, <2>2, <2>3 DEF OscarInv, bursts
<1>4. CASE ~x.required
  <2>1. oscar' = Put(oscar, s, NoFlap)
    BY <1>4 DEF PollLost, Put
  <2> HIDE DEF bursts, x
  <2>2. "basic" \notin x.families
    BY <1>1, <1>2, <1>4 DEF FlapKept
  <2>3. NoFlap.families = {}
    BY DEF NoFlap
  <2>4. oscar.opened
    BY <1>1, OpenedIs DEF x
  <2>5. /\ oscar' \in Oscar /\ SameSession(oscar, oscar') /\ SameWaiting(oscar, oscar')
        /\ oscar'.asked = oscar.asked /\ oscar'.flapconns[s] = NoFlap
        /\ \A t \in Slots \ {s} : oscar'.flapconns[t] = oscar.flapconns[t]
    BY <1>1, <2>1, NoFlapIs, PutIs
  <2>6. /\ Wired(oscar') /\ SessionKept(oscar')
        /\ Tidy(oscar) => Tidy(oscar')
        /\ \A b : InTurn(oscar, b) => InTurn(oscar', b)
    BY <1>1, <2>1, <2>2, <2>3, <2>4, NoFlapIs, PutKeeps DEF x
  <2>7. "drops" \in custom \/ \A f : OnTheWay(oscar, f) => OnTheWay(oscar', f)
    <3> SUFFICES ASSUME "drops" \notin custom, NEW f, NEW t \in Slots,
                        \/ /\ "basic" \in oscar.flapconns[t].families
                           /\ Bye \in ToSet(oscar.flapconns[t].mail)
                        \/ /\ oscar.flapconns[t].serves = f /\ oscar.flapconns[t].state # "none"
                           /\ oscar.flapconns[t].families = {}
                        \/ Redirect(f) \in ToSet(oscar.flapconns[t].mail)
                 PROVE  OnTheWay(oscar', f)
      BY DEF OnTheWay
    <3>1. Redirect(f) \notin ToSet(x.mail)
      BY <1>2, <2>2 DEF FlapKept, ToSet, Redirect
    <3>2. t # s
      BY <1>1, <1>4, <2>2, <3>1 DEF x
    <3> QED
      BY <2>5, <3>2 DEF OnTheWay
  <2>8. "drops" \in custom \/ (AskedFor(oscar) => AskedFor(oscar'))
    BY <2>5, <2>7 DEF AskedFor
  <2>9. InTurn(oscar', bursts)
    BY <1>1, <2>6, Zenon
  <2> QED
    BY <1>1, <2>5, <2>6, <2>8, <2>9 DEF OscarInv, bursts, SameSession
<1> QED
  BY <1>3, <1>4

LEMMA FlapEndsKeeps == \A s \in Slots : OscarInv /\ FlapEnds(s) => OscarInv'
<1> SUFFICES ASSUME NEW s \in Slots, OscarInv, FlapEnds(s) PROVE OscarInv'
  OBVIOUS
<1> DEFINE bursts == "bursts" \in custom
           x == oscar.flapconns[s]
<1>1. /\ oscar \in Oscar /\ custom \subseteq Custom /\ Wired(oscar) /\ SessionKept(oscar)
      /\ InTurn(oscar, bursts) /\ UNCHANGED custom /\ x.state = "open" /\ x.mail = <<>>
  BY DEF OscarInv, FlapEnds
<1>2. FlapKept(x) /\ x \in Flap
  BY <1>1 DEF Wired, Oscar
<1>3. oscar.opened
  BY <1>1, OpenedIs
<1>4. CASE oscar' = Answers(oscar, s, Bye)
  <2> HIDE DEF bursts
  <2>1. Suits(oscar.flapconns[s], Bye) /\ Bye \in FlapFrame
    BY <1>1, FramesAre DEF Suits, Bye
  <2>2. /\ oscar' \in Oscar /\ Wired(oscar') /\ (Tidy(oscar) => Tidy(oscar'))
        /\ SameSession(oscar, oscar') /\ SameWaiting(oscar, oscar') /\ oscar'.asked = oscar.asked
        /\ (SessionKept(oscar) => SessionKept(oscar'))
        /\ \A f : OnTheWay(oscar, f) => OnTheWay(oscar', f)
        /\ \A b : InTurn(oscar, b) => InTurn(oscar', b)
    BY <1>1, <1>4, <2>1, AnswersKeep, Zenon
  <2>3. InTurn(oscar', bursts)
    BY <1>1, <2>2, Zenon
  <2>4. AskedFor(oscar) => AskedFor(oscar')
    BY <2>2 DEF AskedFor
  <2> QED
    BY <1>1, <2>2, <2>3, <2>4 DEF OscarInv, bursts, SameSession
<1>5. CASE /\ "trails" \in custom
           /\ oscar' = [oscar EXCEPT !.flapconns[s].mail = <<[kind |-> "bye"], [kind |-> "other"]>>]
  <2> DEFINE mail == <<[kind |-> "bye"], [kind |-> "other"]>>
             y == [x EXCEPT !.mail = mail]
  <2>1. mail \in Seq(FlapFrame) /\ mail[1].kind = "bye" /\ mail[2].kind = "other" /\ DOMAIN mail = 1..2
    BY DEF FlapFrame
  <2>2. oscar' = Mailed(oscar, s, mail) /\ oscar' = Put(oscar, s, y)
    BY <1>5 DEF Mailed, Put
  <2> HIDE DEF mail
  <2>3. /\ y \in Flap /\ y.state = x.state /\ y.required = x.required /\ y.serves = x.serves
        /\ y.families = x.families /\ y.mail = mail
    BY <1>2, <2>1 DEF Flap
  <2> HIDE DEF y, x, bursts
  <2>4. FlapKept(y)
    BY <1>1, <1>2, <2>1, <2>3 DEF FlapKept
  <2>5. /\ oscar' \in Oscar /\ SameSession(oscar, oscar') /\ SameWaiting(oscar, oscar')
        /\ oscar'.asked = oscar.asked /\ oscar'.flapconns[s] = y
        /\ \A t \in Slots \ {s} : oscar'.flapconns[t] = oscar.flapconns[t]
    BY <1>1, <2>2, <2>3, PutIs
  <2>6. /\ Wired(oscar') /\ SessionKept(oscar')
        /\ \A b : InTurn(oscar, b) => InTurn(oscar', b)
    BY <1>1, <1>3, <2>2, <2>3, <2>4, PutKeeps DEF x
  <2>7. ToSet(x.mail) = {}
    BY <1>1 DEF ToSet
  <2>8. AskedFor(oscar) => AskedFor(oscar')
    BY <2>3, <2>5, <2>7 DEF AskedFor, OnTheWay, x
  <2>9. InTurn(oscar', bursts)
    BY <1>1, <2>6, Zenon
  <2> QED
    BY <1>1, <1>5, <2>5, <2>6, <2>8, <2>9 DEF OscarInv, bursts, SameSession
<1> QED
  BY <1>4, <1>5 DEF FlapEnds, Bye
-----------------------------------------------------------------------------
(* A frame is taken off what is under way. *)
LEMMA Taken ==
  ASSUME NEW c \in Oscar, NEW s \in Slots, c.flapconns[s].state = "open",
         c.flapconns[s].mail # <<>>, Wired(c), SessionKept(c)
  PROVE  LET m == Head(c.flapconns[s].mail)
             d == Mailed(c, s, Tail(c.flapconns[s].mail))
         IN  /\ d \in Oscar /\ Wired(d) /\ SessionKept(d) /\ (Tidy(c) => Tidy(d))
             /\ SameSession(c, d) /\ SameWaiting(c, d) /\ d.asked = c.asked
             /\ \A t \in Slots : SameButMail(c.flapconns[t], d.flapconns[t])
             /\ \A bursts : InTurn(c, bursts) => InTurn(d, bursts)
             /\ \A f : OnTheWay(c, f) => OnTheWay(d, f) \/ m = Bye \/ m = Redirect(f)
             /\ m \in FlapFrame
             /\ m.kind = "ready" => m.family = c.flapconns[s].serves
             /\ m.kind \in {"rates", "icbm", "redirect"} => "basic" \in c.flapconns[s].families
             /\ m.kind = "bye" /\ Tidy(c) => Len(c.flapconns[s].mail) = 1
<1> DEFINE x   == c.flapconns[s]
           old == x.mail
           m   == Head(old)
           new == Tail(old)
           d   == Mailed(c, s, new)
<1>1. x \in Flap /\ FlapKept(x) /\ old \in Seq(FlapFrame) /\ old # <<>>
  BY DEF Oscar, Flap, Wired
<1>2. /\ new \in Seq(FlapFrame) /\ m \in FlapFrame /\ m = old[1] /\ 1 \in DOMAIN old
      /\ Len(old) \in Nat /\ Len(old) > 0 /\ Len(new) = Len(old) - 1
      /\ DOMAIN new = 1..(Len(old) - 1) /\ DOMAIN old = 1..Len(old)
      /\ \A i \in DOMAIN new : i + 1 \in DOMAIN old /\ new[i] = old[i + 1]
  BY <1>1
<1>3. \A i \in DOMAIN old : i = 1 \/ (i - 1 \in DOMAIN new /\ new[i - 1] = old[i])
  BY <1>2
<1> HIDE DEF new, m
<1>4. ToSet(old) \subseteq {m} \cup ToSet(new)
  <2> HIDE DEF old
  <2> SUFFICES ASSUME NEW i \in DOMAIN old PROVE old[i] \in {m} \cup ToSet(new)
    BY DEF ToSet
  <2>1. CASE i = 1
    BY <1>2, <2>1
  <2>2. CASE i - 1 \in DOMAIN new /\ new[i - 1] = old[i]
    BY <2>2 DEF ToSet
  <2> QED
    BY <1>3, <2>1, <2>2
<1>5. /\ d \in Oscar /\ SameSession(c, d) /\ SameWaiting(c, d) /\ d.asked = c.asked
      /\ \A t \in Slots : SameButMail(c.flapconns[t], d.flapconns[t])
      /\ \A t \in Slots \ {s} : d.flapconns[t] = c.flapconns[t]
      /\ d.flapconns[s].mail = new
  BY <1>2, MailedIs
<1> HIDE DEF d
<1>6. SessionKept(d) /\ \A bursts : InTurn(c, bursts) => InTurn(d, bursts)
  BY <1>5, MailKeeps
<1>7. Wired(d)
  <2>1. FlapKept(d.flapconns[s])
    <3>1. SameButMail(x, d.flapconns[s])
      BY <1>5
    <3> QED
      BY <1>1, <1>2, <1>5, <3>1 DEF FlapKept, SameButMail
  <2> QED
    BY <1>5, <2>1 DEF Wired
<1>8. ASSUME Tidy(c)
      PROVE  Tidy(d) /\ (m.kind = "bye" => Len(old) = 1)
  <2>1. ByeIsLast(x)
    BY <1>8 DEF Tidy
  <2>2. \A i \in DOMAIN new : new[i].kind = "bye" => i = Len(new)
    BY <1>2, <2>1 DEF ByeIsLast
  <2>3. m.kind = "bye" => Len(old) = 1
    BY <1>2, <2>1 DEF ByeIsLast
  <2> QED
    BY <1>5, <1>8, <2>2, <2>3 DEF Tidy, ByeIsLast
<1>9. ASSUME NEW f, OnTheWay(c, f), m # Bye, m # Redirect(f)
      PROVE  OnTheWay(d, f)
  <2>1. \A t \in Slots : /\ Bye \in ToSet(c.flapconns[t].mail) => Bye \in ToSet(d.flapconns[t].mail)
                         /\ Redirect(f) \in ToSet(c.flapconns[t].mail) => Redirect(f) \in ToSet(d.flapconns[t].mail)
    BY <1>4, <1>5, <1>9
  <2> QED
    BY <1>5, <1>9, <2>1 DEF OnTheWay, SameButMail
<1>a. /\ m.kind = "ready" => m.family = x.serves
      /\ m.kind \in {"rates", "icbm", "redirect"} => "basic" \in x.families
  BY <1>1, <1>2 DEF FlapKept
<1> QED
  BY <1>2, <1>5, <1>6, <1>7, <1>8, <1>9, <1>a DEF d, m, new

(* What waited for a service is in any order, and each once. *)
LEMMA OrdersAre ==
  ASSUME NEW W \in SUBSET (1..MaxSnacs), NEW order \in SetToSeqs(W)
  PROVE  /\ order \in Seq(W) /\ order \in Seq(1..MaxSnacs)
         /\ \A i \in DOMAIN order : order[i] \in W
         /\ \A i, j \in DOMAIN order : i < j => order[i] # order[j]
<1> USE OscarLinksAssumption
<1>1. IsFiniteSet(1..MaxSnacs)
  BY FS_Interval
<1>2. IsFiniteSet(W)
  BY <1>1, FS_Subset
<1>3. Cardinality(W) \in Nat
  BY <1>2, FS_CardinalityType
<1> DEFINE k == Cardinality(W)
<1>4. order \in [1..k -> W] /\ \A i, j \in 1..k : i # j => order[i] # order[j]
  BY DEF SetToSeqs
<1> HIDE DEF k
<1>5. k \in Nat
  BY <1>3 DEF k
<1>6. order \in Seq(W) /\ DOMAIN order = 1..k
  BY <1>4, <1>5
<1>7. \A i \in DOMAIN order : order[i] \in W
  BY <1>4
<1>8. order \in Seq(1..MaxSnacs)
  <2>1. order \in [1..k -> 1..MaxSnacs]
    BY <1>4
  <2> QED
    BY <1>5, <2>1
<1>9. \A i, j \in DOMAIN order : i < j => order[i] # order[j]
  BY <1>4, <1>5, <1>6
<1> QED
  BY <1>6, <1>7, <1>8, <1>9
(* InTurn, whether or not one is served by now. *)
Ordered(c, bursts) ==
  \A h \in Services :
    /\ \A n \in c.flapspending[h] : n <= c.made
    /\ \A i \in DOMAIN c.sent[h] :
         /\ c.sent[h][i] <= c.made
         /\ c.sent[h][i] \notin c.flapspending[h]
         /\ \A j \in DOMAIN c.sent[h] : i < j => c.sent[h][i] # c.sent[h][j]
    /\ bursts \/
         /\ \A n, m \in c.flapspending[h] : n = m
         /\ \A i \in DOMAIN c.sent[h] :
              /\ \A n \in c.flapspending[h] : c.sent[h][i] < n
              /\ \A j \in DOMAIN c.sent[h] : i < j => c.sent[h][i] < c.sent[h][j]

AllSent(c, f, order) ==
  [c EXCEPT !.sent[f] = @ \o order, !.flapspending[f] = {}, !.asked = @ \ {f}]

(* What waited is sent behind what was sent, and none waits any more. *)
LEMMA SentInTurn ==
  ASSUME NEW c \in Oscar, NEW f \in Services, NEW order \in SetToSeqs(c.flapspending[f]),
         SessionKept(c), NEW bursts,
         \A h \in Services \ {f} : c.flapspending[h] # {} => Served(c, h) = {},
         Ordered(c, bursts)
  PROVE  LET d == AllSent(c, f, order)
         IN  /\ d \in Oscar /\ SessionKept(d) /\ InTurn(d, bursts)
             /\ d.flapconns = c.flapconns /\ d.asked = c.asked \ {f} /\ d.panic = c.panic
<1> USE OscarLinksAssumption
<1> DEFINE p == c.sent[f]
           W == c.flapspending[f]
           q == p \o order
           g == [c.sent EXCEPT ![f] = q]
           w == [c.flapspending EXCEPT ![f] = {}]
           l == Len(p)
           d == AllSent(c, f, order)
<1>1. /\ c.sent \in [Services -> Seq(1..MaxSnacs)] /\ p \in Seq(1..MaxSnacs)
      /\ c.flapspending \in [Services -> SUBSET (1..MaxSnacs)] /\ W \in SUBSET (1..MaxSnacs)
      /\ c.made \in Nat
  BY DEF Oscar
<1> HIDE DEF W
<1>2. /\ order \in Seq(1..MaxSnacs)
      /\ \A i \in DOMAIN order : order[i] \in W
      /\ \A i, j \in DOMAIN order : i < j => order[i] # order[j]
  BY <1>1, OrdersAre DEF W
<1>3. d = [c EXCEPT !.sent = g, !.flapspending = w, !.asked = c.asked \ {f}]
  BY DEF AllSent
<1> HIDE DEF p, d
<1>4. /\ q \in Seq(1..MaxSnacs) /\ l \in Nat /\ DOMAIN p = 1..l
      /\ \A i \in DOMAIN q : \/ i \in DOMAIN p /\ q[i] = p[i]
                             \/ i > l /\ i - l \in DOMAIN order /\ q[i] = order[i - l]
      /\ \A i \in DOMAIN q : i \in Nat
  BY <1>1, <1>2
<1> HIDE DEF q, l
<1>5. /\ g \in [Services -> Seq(1..MaxSnacs)] /\ g[f] = q
      /\ \A h \in Services \ {f} : g[h] = c.sent[h]
  BY <1>1, <1>4
<1>6. /\ w \in [Services -> SUBSET (1..MaxSnacs)] /\ w[f] = {}
      /\ \A h \in Services \ {f} : w[h] = c.flapspending[h]
  BY <1>1
<1> HIDE DEF g, w
<1>7. /\ d \in Oscar /\ d.made = c.made /\ d.sent = g /\ d.flapconns = c.flapconns
      /\ d.asked = c.asked \ {f} /\ d.panic = c.panic /\ d.flapspending = w
      /\ d.online = c.online /\ d.auto = c.auto /\ d.connected = c.connected
      /\ d.isconnecting = c.isconnecting /\ d.authsock = c.authsock /\ d.opened = c.opened
  BY <1>3, <1>5, <1>6 DEF Oscar
<1>8. SessionKept(d)
  BY <1>7 DEF SessionKept
<1>9. /\ \A i \in DOMAIN p : p[i] <= c.made /\ p[i] \notin W
      /\ \A i, j \in DOMAIN p : i < j => p[i] # p[j]
      /\ \A n \in W : n <= c.made
  BY DEF Ordered, p, W
<1>a. bursts \/ /\ \A n, m \in W : n = m
                /\ \A i \in DOMAIN p : \A n \in W : p[i] < n
                /\ \A i, j \in DOMAIN p : i < j => p[i] < p[j]
  BY DEF Ordered, p, W
<1>b. \A i \in DOMAIN q : q[i] <= c.made
  BY <1>2, <1>4, <1>9
<1>c. ASSUME NEW i \in DOMAIN q, NEW j \in DOMAIN q, i < j
      PROVE  q[i] # q[j] /\ (bursts \/ q[i] < q[j])
  <2>1. CASE j \in DOMAIN p /\ q[j] = p[j]
    <3>1. i \in DOMAIN p /\ q[i] = p[i]
      BY <1>4, <1>c, <2>1
    <3> QED
      BY <1>9, <1>a, <1>c, <2>1, <3>1
  <2>2. CASE j > l /\ j - l \in DOMAIN order /\ q[j] = order[j - l]
    <3>1. CASE i \in DOMAIN p /\ q[i] = p[i]
      BY <1>2, <1>9, <1>a, <2>2, <3>1
    <3>2. CASE i > l /\ i - l \in DOMAIN order /\ q[i] = order[i - l]
      <4>1. i - l < j - l
        BY <1>4, <1>c
      <4>2. q[i] # q[j] /\ q[i] \in W /\ q[j] \in W
        BY <1>2, <2>2, <3>2, <4>1
      <4> QED
        BY <1>a, <4>2
    <3> QED
      BY <1>4, <3>1, <3>2
  <2> QED
    BY <1>4, <2>1, <2>2
<1>d. \A h : Served(d, h) = Served(c, h)
  BY <1>7 DEF Served
<1>e. InTurn(d, bursts)
  <2> SUFFICES ASSUME NEW h \in Services
               PROVE  /\ w[h] # {} => Served(c, h) = {}
                      /\ \A n \in w[h] : n <= c.made
                      /\ \A i \in DOMAIN g[h] :
                           /\ g[h][i] <= c.made
                           /\ g[h][i] \notin w[h]
                           /\ \A j \in DOMAIN g[h] : i < j => g[h][i] # g[h][j]
                      /\ bursts \/
                           /\ \A n, m \in w[h] : n = m
                           /\ \A i \in DOMAIN g[h] :
                                /\ \A n \in w[h] : g[h][i] < n
                                /\ \A j \in DOMAIN g[h] : i < j => g[h][i] < g[h][j]
    BY <1>7, <1>d DEF InTurn
  <2>1. CASE h = f
    <3>1. g[h] = q /\ w[h] = {}
      BY <1>5, <1>6, <2>1
    <3> QED
      BY <1>b, <1>c, <3>1
  <2>2. CASE h # f
    <3>1. g[h] = c.sent[h] /\ w[h] = c.flapspending[h]
      BY <1>5, <1>6, <2>2
    <3> QED
      BY <2>2, <3>1 DEF Ordered
  <2> QED
    BY <2>1, <2>2
<1> QED
  BY <1>7, <1>8, <1>e DEF d

LEMMA HostReadyKeeps ==
  ASSUME NEW c \in Oscar, NEW s \in Slots, c.flapconns[s].state # "none", Wired(c),
         SessionKept(c), NEW bursts, InTurn(c, bursts),
         NEW f \in Services \cup {"basic"}, c.flapconns[s].serves = f,
         NEW order, f = "basic" \/ order \in SetToSeqs(c.flapspending[f])
  PROVE  LET d == HostReady(c, s, f, order) IN
         /\ d \in Oscar /\ Wired(d) /\ SessionKept(d) /\ (Tidy(c) => Tidy(d))
         /\ (AskedFor(c) => AskedFor(d)) /\ InTurn(d, bursts) /\ d.panic = c.panic
<1> USE OscarLinksAssumption
<1> DEFINE x == c.flapconns[s]
           y == [x EXCEPT !.families = @ \cup {f}]
           ready == Put(c, s, y)
           sent  == IF f = "basic" THEN ready
                    ELSE [ready EXCEPT !.sent[f] = @ \o order,
                                       !.flapspending[f] = {}, !.asked = @ \ {f}]
           d == HostReady(c, s, f, order)
<1>1. x \in Flap /\ FlapKept(x) /\ f \in Services \cup {"basic"}
  BY DEF Oscar, Wired, Flap
<1>2. d = IF c.isconnecting THEN SendBasic(sent, [kind |-> "rates"]) ELSE sent
  BY DEF HostReady, Put
<1>3. c.opened
  BY OpenedIs
<1>4. /\ y \in Flap /\ y.state = x.state /\ y.required = x.required /\ y.serves = x.serves
      /\ y.families = x.families \cup {f} /\ y.mail = x.mail
  BY <1>1 DEF Flap
<1> HIDE DEF y
<1>5. FlapKept(y)
  BY <1>1, <1>4 DEF FlapKept
<1>6. /\ ready \in Oscar /\ SameSession(c, ready) /\ SameWaiting(c, ready)
      /\ ready.asked = c.asked
      /\ ready.flapconns[s] = y
      /\ \A t \in Slots \ {s} : ready.flapconns[t] = c.flapconns[t]
  BY <1>4, PutIs
<1>7. /\ Wired(ready) /\ SessionKept(ready)
      /\ ByeIsLast(y) /\ Tidy(c) => Tidy(ready)
  BY <1>3, <1>4, <1>5, PutKeeps
<1>8. Tidy(c) => Tidy(ready)
  BY <1>4, <1>7 DEF Tidy, ByeIsLast
<1>9. \A h : h # f /\ OnTheWay(c, h) => OnTheWay(ready, h)
  BY <1>4, <1>6 DEF OnTheWay
<1> HIDE DEF ready
<1>a. \A h : h # f => Served(ready, h) = Served(c, h)
  BY <1>4, <1>6 DEF Served
<1>b. /\ sent \in Oscar /\ SessionKept(sent) /\ InTurn(sent, bursts)
      /\ sent.flapconns = ready.flapconns /\ sent.panic = c.panic
      /\ sent.asked = c.asked \ {f} \/ (f = "basic" /\ sent.asked = c.asked)
  <2>1. CASE f = "basic"
    <3>1. sent = ready
      BY <2>1
    <3>2. \A h \in Services : Served(ready, h) = Served(c, h)
      BY <1>a, <2>1
    <3>3. InTurn(ready, bursts)
      BY <1>6, <3>2 DEF InTurn, SameWaiting
    <3> QED
      BY <1>6, <1>7, <2>1, <3>1, <3>3 DEF SameSession
  <2>2. CASE f # "basic"
    <3>1. sent = [ready EXCEPT !.sent[f] = @ \o order, !.flapspending[f] = {}, !.asked = @ \ {f}]
      BY <2>2
    <3>2. order \in SetToSeqs(ready.flapspending[f]) /\ f \in Services
      BY <1>1, <1>6, <2>2 DEF SameWaiting
    <3>3. \A h \in Services \ {f} : ready.flapspending[h] # {} => Served(ready, h) = {}
      BY <1>6, <1>a DEF SameWaiting, InTurn
    <3>4. Ordered(ready, bursts)
      BY <1>6 DEF Ordered, SameWaiting, InTurn
    <3> DEFINE e == AllSent(ready, f, order)
    <3> HIDE DEF sent
    <3>5. /\ e \in Oscar /\ SessionKept(e) /\ InTurn(e, bursts)
          /\ e.flapconns = ready.flapconns /\ e.asked = ready.asked \ {f} /\ e.panic = ready.panic
      <4>1. ready \in Oscar /\ SessionKept(ready)
        BY <1>6, <1>7
      <4> QED
        BY <4>1, <3>2, <3>3, <3>4, SentInTurn
    <3>6. sent = e
      BY <3>1 DEF AllSent
    <3> HIDE DEF e
    <3> QED
      BY <1>6, <3>5, <3>6 DEF SameSession
  <2> QED
    BY <2>1, <2>2
<1> HIDE DEF sent
<1>c. Wired(sent) /\ (Tidy(c) => Tidy(sent))
  BY <1>7, <1>8, <1>b, WiredAgain, Zenon
<1>d. AskedFor(c) => AskedFor(sent)
  <2> SUFFICES ASSUME AskedFor(c), NEW h \in sent.asked PROVE OnTheWay(sent, h)
    BY DEF AskedFor
  <2>1. h \in c.asked /\ h # f
    <3>1. c.asked \subseteq Services
      BY DEF Oscar
    <3> QED
      BY <1>b, <3>1
  <2>2. OnTheWay(ready, h)
    BY <1>9, <2>1 DEF AskedFor
  <2> QED
    BY <1>b, <2>2 DEF OnTheWay
<1>e. CASE ~c.isconnecting
  <2>1. d = sent
    BY <1>2, <1>e
  <2> QED
    BY <1>b, <1>c, <1>d, <2>1 DEF d
<1>f. CASE c.isconnecting
  <2> DEFINE m == [kind |-> "rates"]
  <2>1. d = SendBasic(sent, m)
    BY <1>2, <1>f
  <2>2. m \in FlapFrame /\ m.kind \in {"rates", "icbm", "redirect"}
    BY DEF FlapFrame
  <2> HIDE DEF m, d
  <2>3. /\ d \in Oscar /\ Wired(d) /\ (Tidy(sent) => Tidy(d))
        /\ SameSession(sent, d) /\ d.asked = sent.asked
        /\ (SessionKept(sent) => SessionKept(d))
        /\ \A h : OnTheWay(sent, h) => OnTheWay(d, h)
        /\ \A b : InTurn(sent, b) => InTurn(d, b)
    BY <1>b, <1>c, <2>1, <2>2, SendBasicKeeps, Zenon
  <2>4. InTurn(d, bursts)
    BY <1>b, <2>3, Zenon
  <2>5. AskedFor(sent) => AskedFor(d)
    BY <2>3 DEF AskedFor
  <2> QED
    BY <1>b, <1>c, <1>d, <2>3, <2>4, <2>5 DEF d, SameSession
<1> QED
  BY <1>e, <1>f
LEMMA NewDataKeeps == \A s \in Slots : OscarInv /\ FLAPNewData(s) => OscarInv'
<1> SUFFICES ASSUME NEW s \in Slots, OscarInv, FLAPNewData(s) PROVE OscarInv'
  OBVIOUS
<1> USE OscarLinksAssumption
<1> DEFINE flap == oscar.flapconns[s]
           m    == Head(flap.mail)
           c    == [oscar EXCEPT !.flapconns[s].mail = Tail(@)]
           bursts == "bursts" \in custom
<1>1. /\ oscar \in Oscar /\ custom \subseteq Custom /\ Wired(oscar) /\ SessionKept(oscar)
      /\ InTurn(oscar, bursts) /\ UNCHANGED custom /\ flap.state = "open" /\ flap.mail # <<>>
      /\ "trails" \in custom \/ (Tidy(oscar) /\ ~oscar.panic)
      /\ "drops" \in custom \/ AskedFor(oscar)
  BY DEF OscarInv, FLAPNewData
<1>2. \/ m.kind = "hello" /\ oscar' = Answers(c, s, [kind |-> "ready", family |-> flap.serves])
      \/ /\ m.kind = "ready"
         /\ \E order \in SetToSeqs(Waiting(m.family)) : oscar' = HostReady(c, s, m.family, order)
      \/ m.kind = "rates" /\ oscar' = SendBasic(c, [kind |-> "icbm"])
      \/ /\ m.kind = "redirect"
         /\ \E t \in FreeSlots(c) : oscar' = FLAPConnect(c, t, m.family)
      \/ /\ m.kind = "icbm"
         /\ oscar' = [c EXCEPT !.connected = "ACTIVE", !.online = 1, !.isconnecting = FALSE]
      \/ /\ m.kind = "bye"
         /\ oscar' = IF Len(flap.mail) = 1 THEN Cleanup(c) ELSE CleanupAfterError(Cleanup(c))
      \/ m.kind = "other" /\ oscar' = c
  BY DEF FLAPNewData
<1>3. c = Mailed(oscar, s, Tail(flap.mail))
  BY DEF Mailed
<1> HIDE DEF c, m, bursts
<1>4. /\ c \in Oscar /\ Wired(c) /\ SessionKept(c) /\ (Tidy(oscar) => Tidy(c))
      /\ SameSession(oscar, c) /\ SameWaiting(oscar, c) /\ c.asked = oscar.asked
      /\ \A t \in Slots : SameButMail(oscar.flapconns[t], c.flapconns[t])
      /\ \A b : InTurn(oscar, b) => InTurn(c, b)
      /\ \A f : OnTheWay(oscar, f) => OnTheWay(c, f) \/ m = Bye \/ m = Redirect(f)
      /\ m \in FlapFrame
      /\ m.kind = "ready" => m.family = flap.serves
      /\ m.kind \in {"rates", "icbm", "redirect"} => "basic" \in flap.families
      /\ m.kind = "bye" /\ Tidy(oscar) => Len(flap.mail) = 1
  BY <1>1, <1>3, Taken DEF m
<1>5. InTurn(c, bursts)
  BY <1>1, <1>4, Zenon
<1>6. /\ c.flapconns[s].state = "open" /\ c.flapconns[s].serves = flap.serves
      /\ c.flapconns[s].families = flap.families
      /\ c.flapspending = oscar.flapspending /\ c.panic = oscar.panic
  BY <1>1, <1>4 DEF SameButMail, SameWaiting, SameSession
<1>7. c.opened
  BY <1>4, <1>6, OpenedIs
<1>8. m.kind \notin {"bye", "redirect"} /\ AskedFor(oscar) => AskedFor(c)
  BY <1>4 DEF AskedFor, Bye, Redirect
<1>a. ASSUME NEW d, oscar' = d, d \in Oscar, Wired(d), SessionKept(d), Tidy(c) => Tidy(d),
             d.panic = c.panic, AskedFor(oscar) => AskedFor(d), InTurn(d, bursts)
      PROVE  OscarInv'
  BY <1>1, <1>4, <1>6, <1>a DEF OscarInv, bursts
<1>b. CASE m.kind = "hello" /\ oscar' = Answers(c, s, [kind |-> "ready", family |-> flap.serves])
  <2> DEFINE r == [kind |-> "ready", family |-> flap.serves]
             d == Answers(c, s, r)
  <2>1. r \in FlapFrame /\ r.kind = "ready" /\ r.family = flap.serves
    <3>1. flap.serves \in Services \cup {"basic"}
      BY <1>1 DEF Oscar, Flap
    <3> QED
      BY <3>1 DEF FlapFrame
  <2> HIDE DEF r
  <2>2. Suits(c.flapconns[s], r)
    BY <1>6, <2>1 DEF Suits
  <2>3. /\ d \in Oscar /\ Wired(d) /\ (Tidy(c) => Tidy(d))
        /\ SameSession(c, d) /\ SameWaiting(c, d) /\ d.asked = c.asked
        /\ (SessionKept(c) => SessionKept(d))
        /\ \A f : OnTheWay(c, f) => OnTheWay(d, f)
        /\ \A b : InTurn(c, b) => InTurn(d, b)
    BY <1>4, <2>1, <2>2, AnswersKeep, Zenon
  <2>4. oscar' = d
    BY <1>b DEF r
  <2> HIDE DEF d
  <2>5. InTurn(d, bursts)
    BY <1>5, <2>3, Zenon
  <2>6. AskedFor(oscar) => AskedFor(d)
    BY <1>8, <1>b, <2>3 DEF AskedFor
  <2>7. d.panic = c.panic
    BY <2>3 DEF SameSession
  <2> QED
    BY <1>4, <1>a, <2>3, <2>4, <2>5, <2>6, <2>7, Zenon
<1>c. ASSUME m.kind = "ready", NEW order \in SetToSeqs(Waiting(m.family)),
             oscar' = HostReady(c, s, m.family, order)
      PROVE  OscarInv'
  <2> DEFINE d == HostReady(c, s, m.family, order)
  <2>1. c.flapconns[s].serves = m.family /\ m.family \in Services \cup {"basic"}
    BY <1>4, <1>6, <1>c, FramesAre
  <2>2. m.family = "basic" \/ order \in SetToSeqs(c.flapspending[m.family])
    BY <1>6, <1>c DEF Waiting
  <2>3. c.flapconns[s].state # "none"
    BY <1>6
  <2>4. /\ d \in Oscar /\ Wired(d) /\ SessionKept(d) /\ (Tidy(c) => Tidy(d))
        /\ (AskedFor(c) => AskedFor(d)) /\ InTurn(d, bursts) /\ d.panic = c.panic
    <3>1. c \in Oscar /\ Wired(c) /\ SessionKept(c)
      BY <1>4
    <3> QED
      BY <1>5, <2>1, <2>2, <2>3, <3>1, HostReadyKeeps
  <2>5. oscar' = d
    BY <1>c
  <2> HIDE DEF d
  <2>6. AskedFor(oscar) => AskedFor(d)
    BY <1>8, <1>c, <2>4
  <2> QED
    BY <1>a, <2>4, <2>5, <2>6, Zenon
<1>d. CASE m.kind = "rates" /\ oscar' = SendBasic(c, [kind |-> "icbm"])
  <2> DEFINE r == [kind |-> "icbm"]
             d == SendBasic(c, r)
  <2>1. r \in FlapFrame /\ r.kind \in {"rates", "icbm", "redirect"}
    BY DEF FlapFrame
  <2>2. oscar' = d
    BY <1>d
  <2> HIDE DEF r
  <2>3. /\ d \in Oscar /\ Wired(d) /\ (Tidy(c) => Tidy(d))
        /\ SameSession(c, d) /\ SameWaiting(c, d) /\ d.asked = c.asked
        /\ (SessionKept(c) => SessionKept(d))
        /\ \A f : OnTheWay(c, f) => OnTheWay(d, f)
        /\ \A b : InTurn(c, b) => InTurn(d, b)
    BY <1>4, <2>1, SendBasicKeeps, Zenon
  <2> HIDE DEF d
  <2>4. InTurn(d, bursts)
    BY <1>5, <2>3, Zenon
  <2>5. AskedFor(oscar) => AskedFor(d)
    BY <1>8, <1>d, <2>3 DEF AskedFor
  <2>6. d.panic = c.panic
    BY <2>3 DEF SameSession
  <2> QED
    BY <1>4, <1>a, <2>2, <2>3, <2>4, <2>5, <2>6, Zenon
<1>e. ASSUME m.kind = "redirect", NEW t \in FreeSlots(c), oscar' = FLAPConnect(c, t, m.family)
      PROVE  OscarInv'
  <2> DEFINE d == FLAPConnect(c, t, m.family)
  <2>1. m = Redirect(m.family) /\ m.family \in Services \cup {"basic"} /\ m # Bye
    BY <1>4, <1>e, FramesAre DEF Bye
  <2>2. /\ d \in Oscar /\ SameSession(c, d) /\ SameWaiting(c, d) /\ d.asked = c.asked
        /\ Wired(d) /\ SessionKept(d) /\ (Tidy(c) => Tidy(d))
        /\ \A b : InTurn(c, b) => InTurn(d, b)
        /\ \A h : OnTheWay(c, h) => OnTheWay(d, h)
        /\ OnTheWay(d, m.family)
    BY <1>4, <1>7, <2>1, OpeningKeeps, Zenon
  <2>3. oscar' = d
    BY <1>e
  <2> HIDE DEF d
  <2>4. InTurn(d, bursts)
    BY <1>5, <2>2, Zenon
  <2>5. \A f : Redirect(f) = m => f = m.family
    BY <2>1 DEF Redirect
  <2>6. AskedFor(oscar) => AskedFor(d)
    BY <1>4, <2>1, <2>2, <2>5 DEF AskedFor
  <2>7. d.panic = c.panic
    BY <2>2 DEF SameSession
  <2> QED
    BY <1>4, <1>a, <2>2, <2>3, <2>4, <2>6, <2>7, Zenon
<1>f. CASE m.kind = "icbm" /\ oscar' = [c EXCEPT !.connected = "ACTIVE", !.online = 1, !.isconnecting = FALSE]
  <2> DEFINE d == [c EXCEPT !.connected = "ACTIVE", !.online = 1, !.isconnecting = FALSE]
  <2>1. /\ d \in Oscar /\ d.flapconns = c.flapconns /\ d.panic = c.panic
        /\ d.asked = c.asked /\ SameWaiting(c, d) /\ d.opened
        /\ d.connected = "ACTIVE" /\ d.online = 1 /\ ~d.isconnecting
    BY <1>4, <1>7 DEF Oscar, SameWaiting
  <2>2. oscar' = d
    BY <1>f
  <2> HIDE DEF d
  <2>3. "basic" \in d.flapconns[s].families
    BY <1>4, <1>6, <1>f, <2>1
  <2>4. SessionKept(d)
    BY <2>1, <2>3 DEF SessionKept
  <2>5. /\ Wired(d) /\ InTurn(d, bursts)
        /\ Tidy(c) => Tidy(d)
        /\ AskedFor(c) => AskedFor(d)
    BY <1>4, <1>5, <2>1, WiredAgain, Zenon DEF SameWaiting
  <2>6. AskedFor(oscar) => AskedFor(d)
    BY <1>8, <1>f, <2>5
  <2> QED
    BY <1>a, <2>1, <2>2, <2>4, <2>5, <2>6, Zenon
<1>g. CASE /\ m.kind = "bye"
           /\ oscar' = IF Len(flap.mail) = 1 THEN Cleanup(c) ELSE CleanupAfterError(Cleanup(c))
  <2> DEFINE d == Cleanup(c)
             e == Cleanup(d)
  <2>1. /\ d \in Oscar /\ Wired(d) /\ Tidy(d) /\ SessionKept(d) /\ AskedFor(d)
        /\ InTurn(d, bursts)
    BY <1>4, <1>5, CleanupKeeps, Zenon DEF SessionKept
  <2>2. d.panic = c.panic
    BY <1>4, CleanupIs
  <2> HIDE DEF d
  <2>3. CASE oscar' = d
    BY <1>a, <2>1, <2>2, <2>3, Zenon
  <2>4. CASE Len(flap.mail) # 1 /\ oscar' = [e EXCEPT !.panic = TRUE]
    <3>1. "trails" \in custom
      BY <1>1, <1>4, <1>g, <2>4
    <3>2. e \in Oscar /\ Wired(e) /\ SessionKept(e) /\ AskedFor(e) /\ InTurn(e, bursts)
      BY <2>1, CleanupKeeps, Zenon DEF SessionKept
    <3> HIDE DEF e
    <3>3. /\ oscar' \in Oscar /\ oscar'.flapconns = e.flapconns
          /\ oscar'.asked = e.asked /\ SameWaiting(e, oscar') /\ oscar'.opened = e.opened
          /\ oscar'.connected = e.connected /\ oscar'.online = e.online
          /\ oscar'.isconnecting = e.isconnecting /\ oscar'.auto = e.auto
          /\ oscar'.authsock = e.authsock
      BY <2>4, <3>2 DEF Oscar, SameWaiting
    <3>4. SessionKept(oscar')
      BY <3>2, <3>3 DEF SessionKept
    <3>5. Wired(oscar') /\ InTurn(oscar', bursts) /\ AskedFor(oscar')
      BY <3>2, <3>3, WiredAgain, Zenon DEF SameWaiting
    <3> QED
      BY <1>1, <3>1, <3>3, <3>4, <3>5 DEF OscarInv, bursts
  <2> QED
    BY <1>g, <2>3, <2>4 DEF CleanupAfterError, d, e
<1>h. CASE m.kind = "other" /\ oscar' = c
  <2>1. AskedFor(oscar) => AskedFor(c)
    BY <1>8, <1>h
  <2> QED
    BY <1>4, <1>5, <1>a, <1>h, <2>1, Zenon
<1> QED
  BY <1>2, <1>b, <1>c, <1>d, <1>e, <1>f, <1>g, <1>h

LEMMA OscarSteps == OscarInv /\ OscarNext => OscarInv'
BY ConnectKeeps, DisconnectKeeps, PollAuthKeeps, PollAuthByeKeeps, AsksKeeps, PollOpensKeeps,
   PollLostKeeps, NewDataKeeps, FlapEndsKeeps DEF OscarNext

LEMMA OscarRests == OscarInv /\ UNCHANGED oscarVars => OscarInv'
BY DEF OscarInv, oscarVars, Wired, Tidy, SessionKept, AskedFor, InTurn, OnTheWay, Served

(* What a user of the driver sees of it. *)
LEMMA OscarAre ==
  ASSUME OscarInv
  PROVE  OscarTypeOK /\ OscarLayersAgree /\ PendingIsServed /\ ServedInOrder /\ NoPanic
<1>1. OscarTypeOK /\ NoPanic
  BY DEF OscarInv, OscarTypeOK, NoPanic
<1>2. OscarLayersAgree
  <2>1. ASSUME NEW s \in Slots, "basic" \in oscar.flapconns[s].families
        PROVE  s \in Served(oscar, "basic") /\ oscar.flapconns[s].required
    BY <2>1 DEF OscarInv, Wired, FlapKept, NoFlap, Served
  <2> QED
    BY <2>1 DEF OscarInv, SessionKept, OscarLayersAgree
<1>3. PendingIsServed
  BY DEF OscarInv, AskedFor, OnTheWay, PendingIsServed, Bye, Redirect
<1>4. ServedInOrder
  BY DEF OscarInv, InTurn, ServedInOrder
<1> QED
  BY <1>1, <1>2, <1>3, <1>4
-----------------------------------------------------------------------------
(* SLCP: lines and commands under way. *)

Asks   == {"FINGER", "WHERE", "INFO"}
Dull   == {"word", "MEMBERS"}
Inner  == {"text", "members", "join", "quit"}
Events == {"away", "here", "detach", "attach", "disconnect", "connect"}

(* A block of lines is open before a line, and after it. *)
Within(l) == l.kind \in Inner \cup {"end"}
Opens(l)  == l.kind \in Inner \cup {"begin"}

InBlock(mail) == mail # <<>> /\ Within(mail[1])

Bracketed(mail) ==
  /\ \A i, j \in DOMAIN mail : j = i + 1 => (Opens(mail[i]) <=> Within(mail[j]))
  /\ \A i \in DOMAIN mail : Opens(mail[i]) => i # Len(mail)

(* Who is asked about, out and in the lines that come. *)
NoneAskedOut(out)   == \A i \in DOMAIN out : out[i].verb \notin Asks
NoneAskedMail(mail) == \A i \in DOMAIN mail : mail[i].kind = "begin" => mail[i].cmd.verb \notin Asks
NoneAskedNow(block) == \A q \in block : q.verb \notin Asks

(* From place i on, no command is without a blank. *)
NoneDullOut(out, i)   == \A j \in DOMAIN out : j >= i => out[j].verb \notin Dull
NoneDullMail(mail, i) == \A j \in DOMAIN mail : j >= i /\ mail[j].kind = "begin" => mail[j].cmd.verb \notin Dull

AskedOut(out, i, q)   == i \in DOMAIN out /\ out[i] = q
                         /\ \A j \in DOMAIN out : j # i => out[j].verb \notin Asks
AskedMail(mail, i, q) == i \in DOMAIN mail /\ mail[i].kind = "begin" /\ mail[i].cmd = q
                         /\ \A j \in DOMAIN mail : j # i /\ mail[j].kind = "begin" => mail[j].cmd.verb \notin Asks

(* Nobody is asked about; or one person is, by one command: that is to go out, answered
   by a line that is to come, or by the block that is open. *)
Free(out, mail, block, info) ==
  NoneAskedOut(out) /\ NoneAskedMail(mail) /\ NoneAskedNow(block) /\ info = {}

AskingOut(out, mail, block, q) ==
  /\ NoneAskedMail(mail) /\ NoneAskedNow(block)
  /\ \E i \in DOMAIN out : AskedOut(out, i, q) /\ NoneDullOut(out, i)

AskingMail(out, mail, block, q) ==
  /\ NoneAskedOut(out) /\ NoneDullOut(out, 1) /\ NoneAskedNow(block)
  /\ \E i \in DOMAIN mail : AskedMail(mail, i, q) /\ NoneDullMail(mail, i)

AskingNow(out, mail, block, q) ==
  /\ NoneAskedOut(out) /\ NoneDullOut(out, 1) /\ NoneAskedMail(mail) /\ NoneDullMail(mail, 1)
  /\ block = {q} /\ InBlock(mail)

NoneDull(out, mail, block) ==
  NoneDullOut(out, 1) /\ NoneDullMail(mail, 1) /\ \A q \in block : q.verb \notin Dull

Question(out, mail, block, info) ==
  \/ Free(out, mail, block, info)
  \/ \E p \in People, v \in Asks :
       /\ IF v = "FINGER" THEN info \subseteq {p} ELSE info = {p} /\ NoneDull(out, mail, block)
       /\ \/ AskingOut(out, mail, block, Cmd(v, p)) /\ (v = "FINGER" => info = {})
          \/ AskingMail(out, mail, block, Cmd(v, p)) /\ (v = "FINGER" => info = {})
          \/ AskingNow(out, mail, block, Cmd(v, p))

(* The first lines of a session. *)
Plain(l) == l.kind \notin {"sync", "connected", "begin"}

Greets(mail) ==
  \/ mail # <<>> /\ mail[1].kind = "connected" /\ \A i \in DOMAIN mail : i # 1 => Plain(mail[i])
  \/ /\ Len(mail) >= 2 /\ mail[1].kind = "sync" /\ mail[2].kind = "connected"
     /\ \A i \in DOMAIN mail : i \notin {1, 2} => Plain(mail[i])

LilyHost ==
  [up : BOOLEAN, in : SUBSET Chats, discs : SUBSET Chats, states : [People -> Presence]]

(* A session and what is under way in it. *)
Link(c, up) ==
  /\ c.sock <=> c.session # "off"
  /\ up => c.sock
  /\ c.session = "on" => up
  /\ ~up => c.mail = <<>> /\ c.out = <<>>
  /\ c.session # "on" => c.joins = {} /\ c.out = <<>>
  /\ c.session = "signing" /\ up => Greets(c.mail)
  /\ c.session = "on" => \A i \in DOMAIN c.mail : c.mail[i].kind \notin {"sync", "connected"}
  /\ \A i \in DOMAIN c.mail : c.mail[i].kind = "depermit" => "depermits" \in manner
  /\ Bracketed(c.mail) /\ (InBlock(c.mail) => c.block # {})

(* What the driver has of a person, and what it will have when a line is read. *)
View(c, p) == [state |-> c.states[p], on |-> p \in c.online]

AfterEvent(v, e) ==
  IF v.state = "none" /\ e # "connect" THEN v
  ELSE [state |-> CASE e \in {"away", "detach"} -> "away"
                    [] e \in {"here", "attach"} -> "here"
                    [] e = "disconnect"         -> "offline"
                    [] e = "connect"            -> IF v.state \in {"none", "offline"} THEN "here" ELSE v.state,
        on |-> e # "disconnect"]

AfterLine(v, l, p) ==
  IF l.kind = "sync" THEN
    [state |-> IF v.state = "none" THEN l.states[p] ELSE v.state, on |-> v.on]
  ELSE IF l.kind = "connected" THEN [state |-> v.state, on |-> v.state \in {"here", "away"}]
  ELSE IF l.kind \in Events /\ l.who = p THEN AfterEvent(v, l.kind)
  ELSE v

Matches(v, is) ==
  /\ is \in {"here", "away"} => v.state = is /\ v.on
  /\ is = "detached" => v.state \in {"away", "offline"}
  /\ is = "gone" => v.state \in {"none", "offline"} /\ ~v.on

Views == [state : State, on : BOOLEAN]

(* There is a history from the view that there is to one that is the server's. *)
History(v, mail, is, p, h) ==
  /\ h \in [0..Len(mail) -> Views]
  /\ h[0] = v
  /\ \A i \in 1..Len(mail) : h[i] = AfterLine(h[i - 1], mail[i], p)
  /\ Matches(h[Len(mail)], is)

Leads(v, mail, is, p) == \E h \in [0..Len(mail) -> Views] : History(v, mail, is, p, h)

Present(c, h) ==
  \A p \in People : IF h.up THEN Leads(View(c, p), c.mail, h.states[p], p)
                    ELSE c.states[p] = "none"

Alive(c) == ~c.fault /\ (c.session = "on" => c.sock)

Orderly == "overlaps" \notin manner /\ ("loses" \in manner => "whois" \notin manner)

Asked(c) ==
  /\ Orderly => Question(c.out, c.mail, c.block, c.info)
  /\ "whois" \notin manner => Free(c.out, c.mail, c.block, c.info)

Sound(c, h) ==
  /\ Link(c, h.up) /\ Asked(c)
  /\ "loses" \notin manner => Present(c, h)

LilyInv ==
  /\ LilyTypeOK
  /\ InfoIsHis /\ NoLilyFault
  /\ lily.session = "on" /\ ~lily.sock => "breaks" \in manner /\ ~host.up /\ lily.mail = <<>>
  /\ Alive(lily) => Sound(lily, host)

-----------------------------------------------------------------------------
(* Commands that go out and lines that come in change whom one asks about. *)

LEMMA OutGrows ==
  ASSUME NEW out \in Seq(Command), NEW next \in Seq(Command), NEW mail, NEW block, NEW info,
         Longer(out, next), \A i \in Later(out, next) : next[i].verb \notin Asks
  PROVE  /\ Free(out, mail, block, info) => Free(next, mail, block, info)
         /\ (\A i \in Later(out, next) : next[i].verb \notin Dull) =>
              (Question(out, mail, block, info) => Question(next, mail, block, info))
<1>1. /\ DOMAIN out = 1..Len(out) /\ DOMAIN next = 1..Len(next)
      /\ Len(out) \in Nat /\ Len(next) \in Nat /\ Len(out) <= Len(next)
      /\ \A i \in 1..Len(out) : next[i] = out[i]
  BY InRange DEF Longer
<1>2. \A i \in 1..Len(next) : i \in 1..Len(out) \/ i \in Later(out, next)
  BY <1>1 DEF Later
<1>3. \A i \in 1..Len(out) : i \in 1..Len(next)
  BY <1>1
<1>4. NoneAskedOut(out) => NoneAskedOut(next)
  BY <1>1, <1>2 DEF NoneAskedOut
<1>5. Free(out, mail, block, info) => Free(next, mail, block, info)
  BY <1>4 DEF Free
<1>6. ASSUME \A i \in Later(out, next) : next[i].verb \notin Dull, Question(out, mail, block, info)
      PROVE  Question(next, mail, block, info)
  <2>1. \A k : NoneDullOut(out, k) => NoneDullOut(next, k)
    BY <1>1, <1>2, <1>6 DEF NoneDullOut
  <2>2. NoneDull(out, mail, block) => NoneDull(next, mail, block)
    BY <2>1 DEF NoneDull
  <2>3. \A i, q : AskedOut(out, i, q) => AskedOut(next, i, q)
    BY <1>1, <1>2, <1>3 DEF AskedOut
  <2>4. \A q : AskingOut(out, mail, block, q) => AskingOut(next, mail, block, q)
    BY <1>1, <1>3, <2>1, <2>3 DEF AskingOut
  <2>5. \A q : AskingMail(out, mail, block, q) => AskingMail(next, mail, block, q)
    BY <1>4, <2>1 DEF AskingMail
  <2>6. \A q : AskingNow(out, mail, block, q) => AskingNow(next, mail, block, q)
    BY <1>4, <2>1 DEF AskingNow
  <2> QED
    BY <1>5, <1>6, <2>2, <2>4, <2>5, <2>6 DEF Question
<1> QED
  BY <1>5, <1>6

LEMMA CmdIs ==
  /\ \A v \in Asks, p \in People : Cmd(v, p) \in Command /\ Cmd(v, p).verb = v /\ Cmd(v, p).of = p
  /\ \A v \in {"JOIN", "QUIT", "what"}, c \in Chats :
       Cmd(v, c) \in Command /\ Cmd(v, c).verb = v /\ Cmd(v, c).of = c
  /\ \A v \in Dull : Cmd(v, NoOne) \in Command /\ Cmd(v, NoOne).verb = v
  /\ \A q \in Command : q.verb \in Asks => q.of \in People /\ q = Cmd(q.verb, q.of)
BY DEF Cmd, Command, Asks, Dull

(* A question goes out. *)
LEMMA AskedNext ==
  ASSUME NEW out \in Seq(Command), NEW mail, NEW block, NEW q \in Command, q.verb \in Asks,
         NoneAskedOut(out), NoneAskedMail(mail), NoneAskedNow(block)
  PROVE  LET next == Append(out, q) IN
         /\ AskingOut(next, mail, block, q)
         /\ NoneDullOut(out, 1) => NoneDullOut(next, 1)
<1> DEFINE next == Append(out, q)
           l == Len(next)
<1>1. /\ next \in Seq(Command) /\ Longer(out, next) /\ l = Len(out) + 1
      /\ \A i \in Later(out, next) : i = l /\ next[i] = q
  BY AppendLonger
<1>2. DOMAIN out = 1..Len(out) /\ DOMAIN next = 1..l /\ Len(out) \in Nat
  BY <1>1, InRange
<1> HIDE DEF next, l
<1>3. \A i \in 1..l : i # l => i \in 1..Len(out) /\ next[i] = out[i]
  BY <1>1, <1>2 DEF Longer
<1>4. l \in 1..l /\ next[l] = q /\ \A j \in 1..l : j >= l => j = l
  BY <1>1, <1>2 DEF Later
<1>5. AskedOut(next, l, q)
  BY <1>2, <1>3, <1>4 DEF AskedOut, NoneAskedOut
<1>6. q.verb \notin Dull
  BY DEF Asks, Dull
<1>7. NoneDullOut(next, l)
  BY <1>2, <1>4, <1>6 DEF NoneDullOut
<1>8. AskingOut(next, mail, block, q)
  BY <1>2, <1>4, <1>5, <1>7 DEF AskingOut
<1>9. NoneDullOut(out, 1) => NoneDullOut(next, 1)
  BY <1>2, <1>3, <1>4, <1>6 DEF NoneDullOut
<1> QED
  BY <1>8, <1>9 DEF next

LEMMA QuestionPut ==
  ASSUME NEW out \in Seq(Command), NEW mail, NEW block, NEW p \in People,
         Free(out, mail, block, {})
  PROVE  Question(Append(out, Cmd("FINGER", p)), mail, block, {})
<1>1. "FINGER" \in Asks
  BY DEF Asks
<1>2. AskingOut(Append(out, Cmd("FINGER", p)), mail, block, Cmd("FINGER", p))
  BY <1>1, AskedNext, CmdIs DEF Free
<1> QED
  BY <1>1, <1>2 DEF Question

LEMMA MailGrowsBlock ==
  ASSUME NEW mail \in Seq(Line), NEW next \in Seq(Line), Longer(mail, next), InBlock(mail)
  PROVE  InBlock(next)
<1>1. /\ Len(mail) \in Nat /\ Len(next) \in Nat /\ Len(mail) <= Len(next)
      /\ (mail = <<>> <=> Len(mail) = 0) /\ (next = <<>> <=> Len(next) = 0)
      /\ \A i \in 1..Len(mail) : next[i] = mail[i]
  BY InRange DEF Longer
<1>2. mail # <<>> /\ Within(mail[1])
  BY DEF InBlock
<1>3. 1 \in 1..Len(mail) /\ Len(next) # 0
  BY <1>1, <1>2
<1> QED
  BY <1>1, <1>2, <1>3 DEF InBlock

(* Lines are told that are no answers. *)
LEMMA LinesTold ==
  ASSUME NEW out, NEW mail \in Seq(Line), NEW next \in Seq(Line), NEW block, NEW info,
         Longer(mail, next), \A i \in Later(mail, next) : next[i].kind # "begin"
  PROVE  /\ Free(out, mail, block, info) => Free(out, next, block, info)
         /\ Question(out, mail, block, info) => Question(out, next, block, info)
<1>1. /\ DOMAIN mail = 1..Len(mail) /\ DOMAIN next = 1..Len(next)
      /\ Len(mail) \in Nat /\ Len(next) \in Nat /\ Len(mail) <= Len(next)
      /\ \A i \in 1..Len(mail) : next[i] = mail[i]
  BY InRange DEF Longer
<1>2. \A i \in 1..Len(next) : i \in 1..Len(mail) \/ i \in Later(mail, next)
  BY <1>1 DEF Later
<1>3. \A i \in 1..Len(mail) : i \in 1..Len(next)
  BY <1>1
<1>4. NoneAskedMail(mail) => NoneAskedMail(next)
  BY <1>1, <1>2 DEF NoneAskedMail
<1>5. Free(out, mail, block, info) => Free(out, next, block, info)
  BY <1>4 DEF Free
<1>6. \A k : NoneDullMail(mail, k) => NoneDullMail(next, k)
  BY <1>1, <1>2 DEF NoneDullMail
<1>7. NoneDull(out, mail, block) => NoneDull(out, next, block)
  BY <1>6 DEF NoneDull
<1>8. \A i, q : AskedMail(mail, i, q) => AskedMail(next, i, q)
  BY <1>1, <1>2, <1>3 DEF AskedMail
<1>9. \A q : AskingOut(out, mail, block, q) => AskingOut(out, next, block, q)
  BY <1>4 DEF AskingOut
<1>10. \A q : AskingMail(out, mail, block, q) => AskingMail(out, next, block, q)
  BY <1>1, <1>3, <1>6, <1>8 DEF AskingMail
<1>11. \A q : AskingNow(out, mail, block, q) => AskingNow(out, next, block, q)
  BY <1>4, <1>6, MailGrowsBlock DEF AskingNow
<1> QED
  BY <1>5, <1>7, <1>9, <1>10, <1>11 DEF Question

(* The first command is answered, with a block that begins at once or with none. *)
LEMMA Answered ==
  ASSUME NEW out \in Seq(Command), out # <<>>,
         NEW mail \in Seq(Line), NEW next \in Seq(Line), NEW block, NEW info,
         Longer(mail, next),
         \A i \in Later(mail, next) : next[i].kind = "begin" => i = Len(mail) + 1 /\ next[i].cmd = out[1],
         out[1].verb \in Asks => Len(mail) + 1 \in Later(mail, next) /\ next[Len(mail) + 1].kind = "begin"
  PROVE  /\ Free(out, mail, block, info) => Free(Tail(out), next, block, info)
         /\ Question(out, mail, block, info) => Question(Tail(out), next, block, info)
<1> DEFINE rest == Tail(out)
           k == Len(mail) + 1
<1>1. /\ DOMAIN mail = 1..Len(mail) /\ DOMAIN next = 1..Len(next)
      /\ Len(mail) \in Nat /\ Len(next) \in Nat /\ Len(mail) <= Len(next)
      /\ \A i \in 1..Len(mail) : next[i] = mail[i]
  BY InRange DEF Longer
<1>2. \A i \in 1..Len(next) : i \in 1..Len(mail) \/ (i \in Later(mail, next) /\ i >= k)
  BY <1>1 DEF Later
<1>3. \A i \in 1..Len(mail) : i \in 1..Len(next) /\ i < k
  BY <1>1
<1>4. /\ rest \in Seq(Command) /\ Len(out) \in Nat \ {0} /\ Len(rest) = Len(out) - 1
      /\ \A i \in 1..Len(rest) : rest[i] = out[i + 1] /\ i + 1 \in 1..Len(out)
      /\ DOMAIN rest = 1..Len(rest) /\ DOMAIN out = 1..Len(out)
  BY TailShorter, InRange
<1> HIDE DEF rest
<1>5. 1 \in 1..Len(out) /\ \A i \in 1..Len(out) : i # 1 => i - 1 \in 1..Len(rest) /\ rest[i - 1] = out[i]
  BY <1>4
<1>6. \A i \in 1..Len(next) : next[i].kind = "begin" =>
        (i \in 1..Len(mail) /\ next[i] = mail[i]) \/ (i = k /\ next[i].cmd = out[1])
  BY <1>1, <1>2
<1>7. NoneAskedOut(out) => NoneAskedOut(rest) /\ out[1].verb \notin Asks
  BY <1>4, <1>5 DEF NoneAskedOut
<1>8. NoneDullOut(out, 1) => NoneDullOut(rest, 1) /\ out[1].verb \notin Dull
  <2>1. \A i \in 1..Len(out) : i >= 1
    BY <1>4
  <2>2. NoneDullOut(out, 1) => \A i \in 1..Len(out) : out[i].verb \notin Dull
    BY <1>4, <2>1 DEF NoneDullOut
  <2> QED
    BY <1>4, <1>5, <2>2 DEF NoneDullOut
<1>9. out[1].verb \notin Asks /\ NoneAskedMail(mail) => NoneAskedMail(next)
  BY <1>1, <1>6 DEF NoneAskedMail
<1>10. out[1].verb \notin Dull => \A i : NoneDullMail(mail, i) => NoneDullMail(next, i)
  BY <1>1, <1>6 DEF NoneDullMail
<1>11. NoneDull(out, mail, block) => NoneDull(rest, next, block)
  BY <1>8, <1>10 DEF NoneDull
<1>12. Free(out, mail, block, info) => Free(rest, next, block, info)
  BY <1>7, <1>9 DEF Free
<1>13. ASSUME NEW q, q.verb \in Asks, AskingOut(out, mail, block, q)
       PROVE  AskingOut(rest, next, block, q) \/ AskingMail(rest, next, block, q)
  <2>1. NoneAskedMail(mail) /\ NoneAskedNow(block)
    BY <1>13 DEF AskingOut
  <2>2. PICK i \in DOMAIN out : AskedOut(out, i, q) /\ NoneDullOut(out, i)
    BY <1>13 DEF AskingOut
  <2>3. i \in 1..Len(out) /\ out[i] = q /\ \A j \in 1..Len(out) : j # i => out[j].verb \notin Asks
    BY <1>4, <2>2 DEF AskedOut
  <2>4. CASE i = 1
    <3>1. k \in 1..Len(next) /\ next[k].kind = "begin" /\ next[k].cmd = q
      BY <1>1, <1>13, <2>3, <2>4 DEF Later
    <3>2. \A j \in 1..Len(next) : j # k /\ next[j].kind = "begin" => next[j].cmd.verb \notin Asks
      BY <1>1, <1>6, <2>1 DEF NoneAskedMail
    <3>3. AskedMail(next, k, q)
      BY <1>1, <3>1, <3>2 DEF AskedMail
    <3>4. \A j \in 1..Len(next) : j >= k => ~(j \in 1..Len(mail))
      BY <1>1
    <3>5. q.verb \notin Dull
      BY <1>13 DEF Asks, Dull
    <3>6. NoneDullMail(next, k)
      BY <1>1, <1>6, <2>3, <2>4, <3>4, <3>5 DEF NoneDullMail
    <3>7. \A j \in 1..Len(rest) : j + 1 # 1 /\ j + 1 >= 1
      BY <1>4
    <3>8. NoneAskedOut(rest)
      BY <1>4, <2>3, <2>4, <3>7 DEF NoneAskedOut
    <3>9. NoneDullOut(rest, 1)
      BY <1>4, <2>2, <2>4, <3>7 DEF NoneDullOut
    <3> QED
      BY <1>1, <2>1, <3>1, <3>3, <3>6, <3>8, <3>9 DEF AskingMail
  <2>5. CASE i # 1
    <3>1. out[1].verb \notin Asks
      BY <1>5, <2>3, <2>5
    <3>2. NoneAskedMail(next)
      BY <1>9, <2>1, <3>1
    <3>3. i - 1 \in 1..Len(rest) /\ rest[i - 1] = q
      BY <1>5, <2>3, <2>5
    <3>4. \A j \in 1..Len(rest) : (j # i - 1 => j + 1 # i) /\ (j >= i - 1 => j + 1 >= i)
      BY <1>4, <2>3
    <3>5. AskedOut(rest, i - 1, q)
      BY <1>4, <2>3, <3>3, <3>4 DEF AskedOut
    <3>6. NoneDullOut(rest, i - 1)
      BY <1>4, <2>2, <3>4 DEF NoneDullOut
    <3> QED
      BY <1>4, <2>1, <3>2, <3>3, <3>5, <3>6 DEF AskingOut
  <2> QED
    BY <2>4, <2>5
<1>14. \A q : AskingMail(out, mail, block, q) => AskingMail(rest, next, block, q)
  <2> SUFFICES ASSUME NEW q, AskingMail(out, mail, block, q) PROVE AskingMail(rest, next, block, q)
    OBVIOUS
  <2>1. NoneAskedOut(out) /\ NoneDullOut(out, 1) /\ NoneAskedNow(block)
    BY DEF AskingMail
  <2>2. PICK i \in DOMAIN mail : AskedMail(mail, i, q) /\ NoneDullMail(mail, i)
    BY DEF AskingMail
  <2>3. AskedMail(next, i, q)
    BY <1>1, <1>3, <1>6, <1>7, <2>1, <2>2 DEF AskedMail
  <2>4. NoneDullMail(next, i)
    BY <1>8, <1>10, <2>1, <2>2
  <2> QED
    BY <1>1, <1>3, <1>7, <1>8, <2>1, <2>2, <2>3, <2>4 DEF AskingMail
<1>15. \A q : AskingNow(out, mail, block, q) => AskingNow(rest, next, block, q)
  BY <1>7, <1>8, <1>9, <1>10, MailGrowsBlock DEF AskingNow
<1>16. \A v \in Asks, p \in People : Cmd(v, p).verb \in Asks
  BY CmdIs
<1>17. ASSUME Question(out, mail, block, info), ~Free(out, mail, block, info)
       PROVE  Question(rest, next, block, info)
  BY <1>11, <1>13, <1>14, <1>15, <1>16, <1>17 DEF Question
<1>18. Free(rest, next, block, info) => Question(rest, next, block, info)
  BY DEF Question
<1> QED
  BY <1>12, <1>17, <1>18 DEF rest

(* A line is read: what waits behind it. *)
LEMMA RestOfMail ==
  ASSUME NEW mail \in Seq(Line), mail # <<>>
  PROVE  LET rest == Tail(mail) IN
         /\ rest \in Seq(Line) /\ Head(mail) = mail[1] /\ mail[1] \in Line
         /\ NoneAskedMail(mail) => NoneAskedMail(rest)
         /\ NoneDullMail(mail, 1) => NoneDullMail(rest, 1)
         /\ \A i, q : AskedMail(mail, i, q) /\ i # 1 =>
              AskedMail(rest, i - 1, q) /\ i - 1 \in DOMAIN rest
         /\ \A q : AskedMail(mail, 1, q) => NoneAskedMail(rest)
         /\ \A i : i \in DOMAIN mail /\ i # 1 /\ NoneDullMail(mail, i) => NoneDullMail(rest, i - 1)
         /\ Bracketed(mail) => Bracketed(rest) /\ (InBlock(rest) <=> Opens(mail[1]))
<1> DEFINE rest == Tail(mail)
<1>1. /\ rest \in Seq(Line) /\ Len(mail) \in Nat \ {0} /\ Len(rest) = Len(mail) - 1
      /\ Head(mail) = mail[1] /\ mail[1] \in Line
      /\ \A i \in 1..Len(rest) : rest[i] = mail[i + 1] /\ i + 1 \in 1..Len(mail)
      /\ DOMAIN rest = 1..Len(rest) /\ DOMAIN mail = 1..Len(mail)
      /\ (rest = <<>> <=> Len(rest) = 0)
  BY TailShorter, InRange
<1> HIDE DEF rest
<1>2. 1 \in 1..Len(mail) /\ \A i \in 1..Len(mail) : i # 1 => i - 1 \in 1..Len(rest) /\ rest[i - 1] = mail[i]
  BY <1>1
<1>3. \A i \in 1..Len(rest) : i + 1 # 1 /\ i + 1 >= 1 /\ i >= 1
  BY <1>1
<1>4. NoneAskedMail(mail) => NoneAskedMail(rest)
  BY <1>1 DEF NoneAskedMail
<1>5. NoneDullMail(mail, 1) => NoneDullMail(rest, 1)
  BY <1>1, <1>3 DEF NoneDullMail
<1>6. ASSUME NEW i, NEW q, AskedMail(mail, i, q), i # 1
      PROVE  AskedMail(rest, i - 1, q) /\ i - 1 \in DOMAIN rest
  <2>1. i \in 1..Len(mail) /\ mail[i].kind = "begin" /\ mail[i].cmd = q
    BY <1>1, <1>6 DEF AskedMail
  <2>2. i - 1 \in 1..Len(rest) /\ rest[i - 1] = mail[i]
    BY <1>2, <1>6, <2>1
  <2>3. \A j \in 1..Len(rest) : j # i - 1 => j + 1 # i
    BY <1>1, <2>1
  <2>4. \A j \in 1..Len(rest) : j # i - 1 /\ rest[j].kind = "begin" => rest[j].cmd.verb \notin Asks
    BY <1>1, <1>6, <2>3 DEF AskedMail
  <2> QED
    BY <1>1, <2>1, <2>2, <2>4 DEF AskedMail
<1>7. \A q : AskedMail(mail, 1, q) => NoneAskedMail(rest)
  BY <1>1, <1>3 DEF AskedMail, NoneAskedMail
<1>8. ASSUME NEW i \in 1..Len(mail), i # 1, NoneDullMail(mail, i)
      PROVE  NoneDullMail(rest, i - 1)
  <2>1. \A j \in 1..Len(rest) : j >= i - 1 => j + 1 >= i
    BY <1>1
  <2> QED
    BY <1>1, <1>8, <2>1 DEF NoneDullMail
<1>9. ASSUME Bracketed(mail) PROVE Bracketed(rest) /\ (InBlock(rest) <=> Opens(mail[1]))
  <2>1. \A i, j \in 1..Len(rest) : j = i + 1 => j + 1 = (i + 1) + 1
    OBVIOUS
  <2>2. \A i, j \in 1..Len(rest) : j = i + 1 => (Opens(rest[i]) <=> Within(rest[j]))
    <3> SUFFICES ASSUME NEW i \in 1..Len(rest), NEW j \in 1..Len(rest), j = i + 1
                 PROVE  Opens(rest[i]) <=> Within(rest[j])
      OBVIOUS
    <3>1. i + 1 \in 1..Len(mail) /\ j + 1 \in 1..Len(mail) /\ j + 1 = (i + 1) + 1
          /\ rest[i] = mail[i + 1] /\ rest[j] = mail[j + 1]
      BY <1>1, <2>1
    <3>2. Opens(mail[i + 1]) <=> Within(mail[j + 1])
      BY <1>1, <1>9, <3>1 DEF Bracketed
    <3> QED
      BY <3>1, <3>2
  <2>3. \A i \in 1..Len(rest) : Opens(rest[i]) => i # Len(rest)
    <3> SUFFICES ASSUME NEW i \in 1..Len(rest), Opens(rest[i]) PROVE i # Len(rest)
      OBVIOUS
    <3>1. i + 1 # Len(mail)
      BY <1>1, <1>9 DEF Bracketed
    <3> QED
      BY <1>1, <3>1
  <2>4. Bracketed(rest)
    BY <1>1, <2>2, <2>3 DEF Bracketed
  <2>5. CASE rest = <<>>
    <3>1. Len(mail) = 1
      BY <1>1, <2>5
    <3>2. ~Opens(mail[1])
      BY <1>1, <1>2, <1>9, <3>1 DEF Bracketed
    <3> QED
      BY <2>4, <2>5, <3>2 DEF InBlock
  <2>6. CASE rest # <<>>
    <3>1. 1 \in 1..Len(rest) /\ 1 + 1 \in 1..Len(mail) /\ rest[1] = mail[1 + 1]
      BY <1>1, <2>6
    <3>2. Opens(mail[1]) <=> Within(mail[1 + 1])
      BY <1>1, <1>2, <1>9, <3>1 DEF Bracketed
    <3> QED
      BY <2>4, <2>6, <3>1, <3>2 DEF InBlock
  <2> QED
    BY <2>5, <2>6
<1> QED
  BY <1>1, <1>4, <1>5, <1>6, <1>7, <1>8, <1>9 DEF rest

(* A line is read that neither begins a block nor ends one. *)
LEMMA LineRead ==
  ASSUME NEW out, NEW mail \in Seq(Line), mail # <<>>, NEW block, NEW info,
         mail[1].kind \notin {"begin", "end"}, Bracketed(mail)
  PROVE  /\ Free(out, mail, block, info) => Free(out, Tail(mail), block, info)
         /\ Question(out, mail, block, info) => Question(out, Tail(mail), block, info)
<1> DEFINE rest == Tail(mail)
<1>1. /\ NoneAskedMail(mail) => NoneAskedMail(rest)
      /\ NoneDullMail(mail, 1) => NoneDullMail(rest, 1)
      /\ \A i, q : AskedMail(mail, i, q) /\ i # 1 => AskedMail(rest, i - 1, q) /\ i - 1 \in DOMAIN rest
      /\ \A i : i \in DOMAIN mail /\ i # 1 /\ NoneDullMail(mail, i) => NoneDullMail(rest, i - 1)
      /\ InBlock(rest) <=> Opens(mail[1])
  BY RestOfMail
<1> HIDE DEF rest
<1>2. \A i, q : AskedMail(mail, i, q) => i # 1
  BY DEF AskedMail
<1>3. \A q : AskingOut(out, mail, block, q) => AskingOut(out, rest, block, q)
  BY <1>1 DEF AskingOut
<1>4. ASSUME NEW q, AskingMail(out, mail, block, q) PROVE AskingMail(out, rest, block, q)
  <2>1. PICK i \in DOMAIN mail : AskedMail(mail, i, q) /\ NoneDullMail(mail, i)
    BY <1>4 DEF AskingMail
  <2>2. AskedMail(rest, i - 1, q) /\ i - 1 \in DOMAIN rest /\ NoneDullMail(rest, i - 1)
    BY <1>1, <1>2, <2>1
  <2> QED
    BY <1>4, <2>2 DEF AskingMail
<1>5. InBlock(mail) => InBlock(rest)
  BY <1>1 DEF InBlock, Within, Opens
<1>6. \A q : AskingNow(out, mail, block, q) => AskingNow(out, rest, block, q)
  BY <1>1, <1>5 DEF AskingNow
<1>7. NoneDull(out, mail, block) => NoneDull(out, rest, block)
  BY <1>1 DEF NoneDull
<1>8. Free(out, mail, block, info) => Free(out, rest, block, info)
  BY <1>1 DEF Free
<1> QED
  BY <1>3, <1>4, <1>6, <1>7, <1>8 DEF Question, rest

(* A block begins: it may be the answer. *)
LEMMA BeginRead ==
  ASSUME NEW out, NEW mail \in Seq(Line), mail # <<>>, NEW block, NEW info,
         mail[1].kind = "begin", Bracketed(mail)
  PROVE  /\ Free(out, mail, block, info) => Free(out, Tail(mail), {mail[1].cmd}, info)
         /\ Question(out, mail, block, info) => Question(out, Tail(mail), {mail[1].cmd}, info)
<1> DEFINE rest == Tail(mail)
           b == mail[1].cmd
<1>1. /\ NoneAskedMail(mail) => NoneAskedMail(rest)
      /\ NoneDullMail(mail, 1) => NoneDullMail(rest, 1)
      /\ \A i, q : AskedMail(mail, i, q) /\ i # 1 => AskedMail(rest, i - 1, q) /\ i - 1 \in DOMAIN rest
      /\ \A q : AskedMail(mail, 1, q) => NoneAskedMail(rest)
      /\ \A i : i \in DOMAIN mail /\ i # 1 /\ NoneDullMail(mail, i) => NoneDullMail(rest, i - 1)
      /\ InBlock(rest) <=> Opens(mail[1])
  BY RestOfMail
<1>2. 1 \in DOMAIN mail /\ 1 >= 1
  BY InRange
<1> HIDE DEF rest, b
<1>3. InBlock(rest)
  BY <1>1 DEF Opens
<1>4. NoneAskedMail(mail) => NoneAskedNow({b})
  BY <1>2 DEF NoneAskedMail, NoneAskedNow, b
<1>5. NoneDullMail(mail, 1) => \A q \in {b} : q.verb \notin Dull
  BY <1>2 DEF NoneDullMail, b
<1>6. NoneDull(out, mail, block) => NoneDull(out, rest, {b})
  BY <1>1, <1>5 DEF NoneDull
<1>7. \A q : AskingOut(out, mail, block, q) => AskingOut(out, rest, {b}, q)
  BY <1>1, <1>4 DEF AskingOut
<1>8. ASSUME NEW q, AskingMail(out, mail, block, q)
      PROVE  AskingMail(out, rest, {b}, q) \/ AskingNow(out, rest, {b}, q)
  <2>1. PICK i \in DOMAIN mail : AskedMail(mail, i, q) /\ NoneDullMail(mail, i)
    BY <1>8 DEF AskingMail
  <2>2. CASE i = 1
    BY <1>1, <1>3, <1>8, <2>1, <2>2 DEF AskingMail, AskingNow, AskedMail, b
  <2>3. CASE i # 1
    <3>1. NoneAskedNow({b})
      BY <1>2, <2>1, <2>3 DEF AskedMail, NoneAskedNow, b
    <3>2. AskedMail(rest, i - 1, q) /\ i - 1 \in DOMAIN rest /\ NoneDullMail(rest, i - 1)
      BY <1>1, <2>1, <2>3
    <3> QED
      BY <1>8, <3>1, <3>2 DEF AskingMail
  <2> QED
    BY <2>2, <2>3
<1>9. \A q : ~AskingNow(out, mail, block, q)
  BY DEF AskingNow, InBlock, Within, Inner
<1>10. Free(out, mail, block, info) => Free(out, rest, {b}, info)
  BY <1>1, <1>4 DEF Free
<1>11. ASSUME Question(out, mail, block, info), ~Free(out, mail, block, info)
       PROVE  Question(out, rest, {b}, info)
  <2>1. PICK p \in People, v \in Asks :
       /\ IF v = "FINGER" THEN info \subseteq {p} ELSE info = {p} /\ NoneDull(out, mail, block)
       /\ \/ AskingOut(out, mail, block, Cmd(v, p)) /\ (v = "FINGER" => info = {})
          \/ AskingMail(out, mail, block, Cmd(v, p)) /\ (v = "FINGER" => info = {})
          \/ AskingNow(out, mail, block, Cmd(v, p))
    BY <1>11 DEF Question
  <2>2. IF v = "FINGER" THEN info \subseteq {p} ELSE info = {p} /\ NoneDull(out, rest, {b})
    BY <1>6, <2>1
  <2>3. \/ AskingOut(out, rest, {b}, Cmd(v, p)) /\ (v = "FINGER" => info = {})
        \/ AskingMail(out, rest, {b}, Cmd(v, p)) /\ (v = "FINGER" => info = {})
        \/ AskingNow(out, rest, {b}, Cmd(v, p))
    BY <1>7, <1>8, <1>9, <2>1
  <2> QED
    BY <2>2, <2>3 DEF Question
<1>12. Free(out, rest, {b}, info) => Question(out, rest, {b}, info)
  BY DEF Question
<1> QED
  BY <1>10, <1>11, <1>12 DEF rest, b

(* A block ends: its information is complete, unless another question is asked. *)
LEMMA EndRead ==
  ASSUME NEW out, NEW mail \in Seq(Line), mail # <<>>, NEW block, NEW info,
         mail[1].kind = "end", Bracketed(mail)
  PROVE  LET rest == Tail(mail) IN
         /\ Free(out, mail, block, info) => Free(out, rest, {}, info)
         /\ NoneDull(out, mail, block) => NoneDull(out, rest, {})
         /\ \A q : AskingOut(out, mail, block, q) => AskingOut(out, rest, {}, q)
         /\ \A q : AskingMail(out, mail, block, q) => AskingMail(out, rest, {}, q)
         /\ \A q : AskingNow(out, mail, block, q) =>
              /\ Free(out, rest, {}, {}) /\ NoneDull(out, rest, {})
              /\ block = {q}
<1> DEFINE rest == Tail(mail)
<1>1. /\ NoneAskedMail(mail) => NoneAskedMail(rest)
      /\ NoneDullMail(mail, 1) => NoneDullMail(rest, 1)
      /\ \A i, q : AskedMail(mail, i, q) /\ i # 1 => AskedMail(rest, i - 1, q) /\ i - 1 \in DOMAIN rest
      /\ \A i : i \in DOMAIN mail /\ i # 1 /\ NoneDullMail(mail, i) => NoneDullMail(rest, i - 1)
  BY RestOfMail
<1> HIDE DEF rest
<1>2. \A i, q : AskedMail(mail, i, q) => i # 1
  BY DEF AskedMail
<1>3. NoneAskedNow({}) /\ \A q \in {} : q.verb \notin Dull
  BY DEF NoneAskedNow
<1>4. \A q : AskingOut(out, mail, block, q) => AskingOut(out, rest, {}, q)
  BY <1>1, <1>3 DEF AskingOut
<1>5. ASSUME NEW q, AskingMail(out, mail, block, q) PROVE AskingMail(out, rest, {}, q)
  <2>1. PICK i \in DOMAIN mail : AskedMail(mail, i, q) /\ NoneDullMail(mail, i)
    BY <1>5 DEF AskingMail
  <2>2. AskedMail(rest, i - 1, q) /\ i - 1 \in DOMAIN rest /\ NoneDullMail(rest, i - 1)
    BY <1>1, <1>2, <2>1
  <2> QED
    BY <1>3, <1>5, <2>2 DEF AskingMail
<1>6. NoneDull(out, mail, block) => NoneDull(out, rest, {})
  BY <1>1, <1>3 DEF NoneDull
<1>7. Free(out, mail, block, info) => Free(out, rest, {}, info)
  BY <1>1, <1>3 DEF Free
<1>8. \A q : AskingNow(out, mail, block, q) =>
        Free(out, rest, {}, {}) /\ NoneDull(out, rest, {}) /\ block = {q}
  BY <1>1, <1>3 DEF AskingNow, Free, NoneDull
<1> QED
  BY <1>4, <1>5, <1>6, <1>7, <1>8 DEF rest

(* Without information, whatever is asked for is still to come, or nothing is. *)
LEMMA EndWithout ==
  ASSUME NEW out, NEW mail \in Seq(Line), mail # <<>>, NEW block, NEW info,
         mail[1].kind = "end", Bracketed(mail), Question(out, mail, block, info),
         \/ info = {}
         \/ \E q \in block : q.verb \notin Asks
  PROVE  Question(out, Tail(mail), {}, info)
<1> DEFINE rest == Tail(mail)
<1>1. /\ Free(out, mail, block, info) => Free(out, rest, {}, info)
      /\ NoneDull(out, mail, block) => NoneDull(out, rest, {})
      /\ \A q : AskingOut(out, mail, block, q) => AskingOut(out, rest, {}, q)
      /\ \A q : AskingMail(out, mail, block, q) => AskingMail(out, rest, {}, q)
      /\ \A q : AskingNow(out, mail, block, q) =>
              Free(out, rest, {}, {}) /\ NoneDull(out, rest, {}) /\ block = {q}
  BY EndRead
<1> HIDE DEF rest
<1>2. CASE Free(out, mail, block, info)
  BY <1>1, <1>2 DEF Question, rest
<1>3. CASE ~Free(out, mail, block, info)
  <2>1. PICK p \in People, v \in Asks :
       /\ IF v = "FINGER" THEN info \subseteq {p} ELSE info = {p} /\ NoneDull(out, mail, block)
       /\ \/ AskingOut(out, mail, block, Cmd(v, p)) /\ (v = "FINGER" => info = {})
          \/ AskingMail(out, mail, block, Cmd(v, p)) /\ (v = "FINGER" => info = {})
          \/ AskingNow(out, mail, block, Cmd(v, p))
    BY <1>3 DEF Question
  <2>2. CASE AskingNow(out, mail, block, Cmd(v, p))
    <3>1. Free(out, rest, {}, {}) /\ block = {Cmd(v, p)} /\ Cmd(v, p).verb \in Asks
      BY <1>1, <2>2, CmdIs
    <3>2. info = {}
      BY <3>1
    <3> QED
      BY <3>1, <3>2 DEF Question, rest
  <2>3. CASE ~AskingNow(out, mail, block, Cmd(v, p))
    <3>1. IF v = "FINGER" THEN info \subseteq {p} ELSE info = {p} /\ NoneDull(out, rest, {})
      BY <1>1, <2>1
    <3>2. \/ AskingOut(out, rest, {}, Cmd(v, p)) /\ (v = "FINGER" => info = {})
          \/ AskingMail(out, rest, {}, Cmd(v, p)) /\ (v = "FINGER" => info = {})
      BY <1>1, <2>1, <2>3
    <3> QED
      BY <3>1, <3>2 DEF Question, rest
  <2> QED
    BY <2>2, <2>3
<1> QED
  BY <1>2, <1>3

(* The block that ends is about whom the information is about, or is no answer. *)
LEMMA EndWith ==
  ASSUME NEW out, NEW mail \in Seq(Line), mail # <<>>, NEW block, NEW info,
         mail[1].kind = "end", Bracketed(mail), Question(out, mail, block, info),
         info # {}, NEW q \in block
  PROVE  /\ q.verb \notin Dull
         /\ q.verb \in Asks =>
              \E p \in People :
                /\ info = {p} /\ q = Cmd(q.verb, p)
                /\ Free(out, Tail(mail), {}, {}) /\ NoneDull(out, Tail(mail), {})
<1>1. ~Free(out, mail, block, info)
  BY DEF Free
<1>2. PICK p \in People, v \in Asks :
       /\ IF v = "FINGER" THEN info \subseteq {p} ELSE info = {p} /\ NoneDull(out, mail, block)
       /\ \/ AskingOut(out, mail, block, Cmd(v, p)) /\ (v = "FINGER" => info = {})
          \/ AskingMail(out, mail, block, Cmd(v, p)) /\ (v = "FINGER" => info = {})
          \/ AskingNow(out, mail, block, Cmd(v, p))
  BY <1>1 DEF Question
<1>3. info = {p}
  BY <1>2
<1>4. Cmd(v, p).verb = v /\ v \notin Dull
  BY CmdIs DEF Asks, Dull
<1>5. CASE AskingNow(out, mail, block, Cmd(v, p))
  <2>1. block = {Cmd(v, p)} /\ Free(out, Tail(mail), {}, {}) /\ NoneDull(out, Tail(mail), {})
    BY <1>5, EndRead
  <2>2. q = Cmd(v, p)
    BY <2>1
  <2> QED
    BY <1>3, <1>4, <2>1, <2>2
<1>6. CASE ~AskingNow(out, mail, block, Cmd(v, p))
  <2>1. NoneAskedNow(block) /\ NoneDull(out, mail, block)
    BY <1>2, <1>6 DEF AskingOut, AskingMail
  <2> QED
    BY <2>1 DEF NoneAskedNow, NoneDull
<1> QED
  BY <1>5, <1>6

(* The next question about the same person. *)
LEMMA AskedOn ==
  ASSUME NEW out \in Seq(Command), NEW mail, NEW p \in People, NEW v \in {"WHERE", "INFO"},
         Free(out, mail, {}, {}), NoneDull(out, mail, {})
  PROVE  Question(Append(out, Cmd(v, p)), mail, {}, {p})
<1>1. v \in Asks /\ v # "FINGER" /\ Cmd(v, p) \in Command /\ Cmd(v, p).verb = v
  BY CmdIs DEF Asks
<1>2. /\ AskingOut(Append(out, Cmd(v, p)), mail, {}, Cmd(v, p))
      /\ NoneDullOut(Append(out, Cmd(v, p)), 1)
  BY <1>1, AskedNext DEF Free, NoneDull
<1>3. NoneDull(Append(out, Cmd(v, p)), mail, {})
  BY <1>2 DEF NoneDull
<1> QED
  BY <1>1, <1>2, <1>3 DEF Question

(* The text of a block, about whom the block is about. *)
LEMMA TextRead ==
  ASSUME NEW out, NEW mail \in Seq(Line), NEW block, NEW info,
         Question(out, mail, block, info), NEW q \in block, q.verb \in Asks
  PROVE  /\ q.verb # "FINGER" => info # {}
         /\ Question(out, mail, block, info \cup {q.of})
<1>1. ~Free(out, mail, block, info)
  BY DEF Free, NoneAskedNow
<1>2. PICK p \in People, v \in Asks :
       /\ IF v = "FINGER" THEN info \subseteq {p} ELSE info = {p} /\ NoneDull(out, mail, block)
       /\ \/ AskingOut(out, mail, block, Cmd(v, p)) /\ (v = "FINGER" => info = {})
          \/ AskingMail(out, mail, block, Cmd(v, p)) /\ (v = "FINGER" => info = {})
          \/ AskingNow(out, mail, block, Cmd(v, p))
  BY <1>1 DEF Question
<1>3. AskingNow(out, mail, block, Cmd(v, p))
  BY <1>2 DEF AskingOut, AskingMail, NoneAskedNow
<1>4. q = Cmd(v, p)
  BY <1>3 DEF AskingNow
<1>5. q.verb = v /\ q.of = p
  BY <1>4, CmdIs
<1>6. IF v = "FINGER" THEN info \cup {p} \subseteq {p} ELSE info \cup {p} = {p} /\ NoneDull(out, mail, block)
  BY <1>2
<1>7. Question(out, mail, block, info \cup {p})
  BY <1>3, <1>6 DEF Question
<1> QED
  BY <1>2, <1>5, <1>7

(* When no one's answer is incomplete, and when the connection is cut, nobody is asked
   about. *)
LEMMA FreeThen ==
  ASSUME NEW out, NEW mail, NEW block, NEW info, Question(out, mail, block, info),
         \/ /\ block = {} /\ \A i \in DOMAIN out : out[i].verb \notin Asks
            /\ \A i \in DOMAIN mail : mail[i].kind # "begin"
         \/ DOMAIN out = {} /\ ~InBlock(mail) /\ \A i \in DOMAIN mail : mail[i].kind # "begin"
  PROVE  Free(out, mail, block, info)
<1>1. SUFFICES ASSUME ~Free(out, mail, block, info) PROVE FALSE
  OBVIOUS
<1>2. PICK p \in People, v \in Asks :
          \/ AskingOut(out, mail, block, Cmd(v, p))
          \/ AskingMail(out, mail, block, Cmd(v, p))
          \/ AskingNow(out, mail, block, Cmd(v, p))
  BY <1>1 DEF Question
<1>3. Cmd(v, p).verb \in Asks
  BY CmdIs
<1>4. ~AskingMail(out, mail, block, Cmd(v, p))
  BY DEF AskingMail, AskedMail
<1>5. ~AskingOut(out, mail, block, Cmd(v, p))
  BY <1>3 DEF AskingOut, AskedOut
<1>6. ~AskingNow(out, mail, block, Cmd(v, p))
  BY DEF AskingNow
<1> QED
  BY <1>2, <1>4, <1>5, <1>6

-----------------------------------------------------------------------------
(* What the driver will have of a person, when all that is under way is read. *)

LEMMA LeadsNothing ==
  ASSUME NEW v \in Views, NEW is, NEW p
  PROVE  Leads(v, <<>>, is, p) <=> Matches(v, is)
<1> DEFINE none == <<>>
<1>1. Len(none) = 0
  OBVIOUS
<1> HIDE DEF none
<1>2. ASSUME Matches(v, is) PROVE Leads(v, none, is, p)
  <2> DEFINE h == [i \in 0..Len(none) |-> v]
  <2>1. h \in [0..Len(none) -> Views] /\ h[0] = v /\ h[Len(none)] = v
    BY <1>1
  <2>2. \A i \in 1..Len(none) : FALSE
    BY <1>1
  <2> HIDE DEF h
  <2>3. History(v, none, is, p, h)
    BY <1>2, <2>1, <2>2 DEF History
  <2> QED
    BY <2>1, <2>3 DEF Leads
<1>3. ASSUME Leads(v, none, is, p) PROVE Matches(v, is)
  BY <1>1, <1>3 DEF Leads, History
<1> QED
  BY <1>2, <1>3 DEF none

(* Lines that are none of the person's. *)
LEMMA LeadsOn ==
  ASSUME NEW v, NEW mail \in Seq(Line), NEW next \in Seq(Line), NEW is, NEW p,
         Leads(v, mail, is, p), Longer(mail, next),
         \A i \in Later(mail, next) : \A w \in Views : AfterLine(w, next[i], p) = w
  PROVE  Leads(v, next, is, p)
<1> DEFINE n == Len(mail)
           m == Len(next)
<1>1. n \in Nat /\ m \in Nat /\ n <= m /\ \A i \in 1..n : next[i] = mail[i]
  BY InRange DEF Longer
<1>2. PICK h \in [0..n -> Views] : History(v, mail, is, p, h)
  BY DEF Leads
<1> HIDE DEF n, m
<1> DEFINE k == [i \in 0..m |-> IF i <= n THEN h[i] ELSE h[n]]
<1>3. /\ k \in [0..m -> Views] /\ k[0] = h[0] /\ k[m] = h[n]
      /\ \A i \in 0..m : k[i] = IF i <= n THEN h[i] ELSE h[n]
  BY <1>1
<1> HIDE DEF k
<1>4. ASSUME NEW i \in 1..m PROVE k[i] = AfterLine(k[i - 1], next[i], p)
  <2>1. i - 1 \in 0..m /\ i \in 0..m
    BY <1>1
  <2>2. CASE i \in 1..n
    <3>1. i <= n /\ i - 1 <= n
      BY <1>1, <2>2
    <3>2. k[i] = h[i] /\ k[i - 1] = h[i - 1] /\ next[i] = mail[i]
      BY <1>1, <1>3, <2>1, <2>2, <3>1
    <3> QED
      BY <1>2, <2>2, <3>2 DEF History, n
  <2>3. CASE ~(i \in 1..n)
    <3>1. i \in (n + 1)..m /\ ~(i <= n) /\ (i - 1 <= n => i - 1 = n) /\ n \in 0..n
      BY <1>1, <2>3
    <3>2. k[i] = h[n] /\ k[i - 1] = h[n]
      BY <1>3, <2>1, <3>1
    <3>3. h[n] \in Views
      BY <1>2, <3>1
    <3>4. i \in Later(mail, next)
      BY <3>1 DEF Later, n, m
    <3> QED
      BY <3>2, <3>3, <3>4
  <2> QED
    BY <2>2, <2>3
<1>5. h[0] = v /\ Matches(h[n], is)
  BY <1>2 DEF History, n
<1>6. History(v, next, is, p, k)
  BY <1>3, <1>4, <1>5 DEF History, m
<1> QED
  BY <1>3, <1>6 DEF Leads, m

(* A line of his. *)
LEMMA LeadsTo ==
  ASSUME NEW v, NEW mail \in Seq(Line), NEW next \in Seq(Line), NEW is, NEW new, NEW p,
         Leads(v, mail, is, p), Longer(mail, next), Len(next) = Len(mail) + 1,
         \A w \in Views : Matches(w, is) =>
           /\ AfterLine(w, next[Len(next)], p) \in Views
           /\ Matches(AfterLine(w, next[Len(next)], p), new)
  PROVE  Leads(v, next, new, p)
<1> DEFINE n == Len(mail)
           m == Len(next)
           l == next[m]
<1>1. m = n + 1 /\ n \in Nat
  BY InRange
<1>2. PICK h \in [0..n -> Views] : History(v, mail, is, p, h)
  BY DEF Leads
<1> HIDE DEF n, m, l
<1>3. h[0] = v /\ Matches(h[n], is) /\ \A i \in 1..n : h[i] = AfterLine(h[i - 1], mail[i], p)
  BY <1>2 DEF History, n
<1> DEFINE z == AfterLine(h[n], l, p)
           k == [i \in 0..m |-> IF i <= n THEN h[i] ELSE z]
<1>4. n \in 0..n /\ ~(m <= n) /\ m \in 1..m /\ 0 <= n
  BY <1>1
<1>5. z \in Views /\ Matches(z, new)
  BY <1>2, <1>3, <1>4 DEF l, m
<1> HIDE DEF z
<1>6. /\ k \in [0..m -> Views] /\ k[0] = h[0] /\ k[m] = z
      /\ \A i \in 0..m : k[i] = IF i <= n THEN h[i] ELSE z
  BY <1>1, <1>4, <1>5
<1> HIDE DEF k
<1>7. next[m] = l /\ \A i \in 1..n : next[i] = mail[i]
  BY <1>1 DEF Longer, l, n
<1>8. ASSUME NEW i \in 1..m PROVE k[i] = AfterLine(k[i - 1], next[i], p)
  <2>1. i - 1 \in 0..m /\ i \in 0..m /\ i - 1 <= n
    BY <1>1
  <2>2. CASE i # m
    <3>1. i \in 1..n /\ i <= n
      BY <1>1, <2>2
    <3>2. k[i] = h[i] /\ k[i - 1] = h[i - 1] /\ next[i] = mail[i]
      BY <1>6, <1>7, <2>1, <3>1
    <3> QED
      BY <1>3, <3>1, <3>2
  <2>3. CASE i = m
    <3>1. k[i - 1] = h[i - 1] /\ i - 1 = n
      BY <1>1, <1>6, <2>1, <2>3
    <3> QED
      BY <1>6, <1>7, <2>3, <3>1 DEF z
  <2> QED
    BY <2>2, <2>3
<1>9. History(v, next, new, p, k)
  BY <1>3, <1>5, <1>6, <1>8 DEF History, m
<1> QED
  BY <1>6, <1>9 DEF Leads, m

(* A line is read. *)
LEMMA LeadsFrom ==
  ASSUME NEW v, NEW mail \in Seq(Line), mail # <<>>, NEW is, NEW p, Leads(v, mail, is, p)
  PROVE  Leads(AfterLine(v, mail[1], p), Tail(mail), is, p)
<1> DEFINE rest == Tail(mail)
           n == Len(mail)
           m == Len(rest)
<1>1. /\ rest \in Seq(Line) /\ n \in Nat \ {0} /\ m = n - 1
      /\ \A i \in 1..m : rest[i] = mail[i + 1] /\ i + 1 \in 1..n
  BY TailShorter
<1>2. PICK h \in [0..n -> Views] : History(v, mail, is, p, h)
  BY DEF Leads
<1> HIDE DEF rest, n, m
<1>3. h[0] = v /\ Matches(h[n], is) /\ \A i \in 1..n : h[i] = AfterLine(h[i - 1], mail[i], p)
  BY <1>2 DEF History, n
<1> DEFINE k == [i \in 0..m |-> h[i + 1]]
<1>4. \A i \in 0..m : i + 1 \in 0..n
  BY <1>1
<1>5. k \in [0..m -> Views]
  BY <1>4
<1>6. k[0] = h[1] /\ k[m] = h[n] /\ 1 \in 1..n
  BY <1>1
<1>7. \A i \in 0..m : k[i] = h[i + 1]
  OBVIOUS
<1> HIDE DEF k
<1>8. ASSUME NEW i \in 1..m PROVE k[i] = AfterLine(k[i - 1], rest[i], p)
  <2>1. i - 1 \in 0..m /\ i \in 0..m /\ (i - 1) + 1 = i /\ (i + 1) - 1 = i /\ i + 1 \in 1..n
    BY <1>1
  <2>2. k[i] = h[i + 1] /\ k[i - 1] = h[i] /\ rest[i] = mail[i + 1]
    <3>1. k[i - 1] = h[(i - 1) + 1]
      BY <1>7, <2>1
    <3> QED
      BY <1>1, <1>7, <2>1, <3>1
  <2>3. h[i + 1] = AfterLine(h[(i + 1) - 1], mail[i + 1], p)
    BY <1>3, <2>1
  <2> QED
    BY <2>1, <2>2, <2>3
<1>9. k[0] = AfterLine(v, mail[1], p)
  BY <1>3, <1>6
<1>10. History(AfterLine(v, mail[1], p), rest, is, p, k)
  BY <1>3, <1>5, <1>6, <1>8, <1>9 DEF History, m
<1> QED
  BY <1>5, <1>10 DEF Leads, m, rest

(* The first lines of a session tell how everyone is. *)
LEMMA LeadsAtFirst ==
  ASSUME NEW on \in BOOLEAN, NEW p \in People, NEW states \in [People -> State],
         NEW is \in Presence, states[p] = UserState(is)
  PROVE  Leads([state |-> "none", on |-> on],
               <<[kind |-> "sync", states |-> states], [kind |-> "connected"]>>, is, p)
<1> DEFINE l1 == [kind |-> "sync", states |-> states]
           l2 == [kind |-> "connected"]
           v0 == [state |-> "none", on |-> on]
           v1 == [state |-> states[p], on |-> on]
           v2 == [state |-> states[p], on |-> states[p] \in {"here", "away"}]
           mail == <<l1, l2>>
           h == [i \in 0..2 |-> IF i = 0 THEN v0 ELSE IF i = 1 THEN v1 ELSE v2]
<1>1. v0 \in Views /\ v1 \in Views /\ v2 \in Views
  <2>1. (states[p] \in {"here", "away"}) \in BOOLEAN
    OBVIOUS
  <2> QED
    BY <2>1 DEF Views, State
<1>2. AfterLine(v0, l1, p) = v1
  BY DEF AfterLine
<1>3. AfterLine(v1, l2, p) = v2
  <2> DEFINE sp == states[p]
  <2>1. v1.state = sp /\ l2.kind = "connected"
    OBVIOUS
  <2> HIDE DEF v1, l2, sp
  <2>2. AfterLine(v1, l2, p) = [state |-> sp, on |-> sp \in {"here", "away"}]
    BY <2>1, Zenon DEF AfterLine
  <2> QED
    BY <2>2 DEF sp
<1>4. Matches(v2, is)
  BY DEF Matches, UserState, Presence
<1>5. mail \in Seq({l1, l2}) /\ Len(mail) = 2 /\ mail[1] = l1 /\ mail[2] = l2
  OBVIOUS
<1> HIDE DEF v0, v1, v2, l1, l2, mail
<1>6. h \in [0..2 -> Views] /\ h[0] = v0 /\ h[1] = v1 /\ h[2] = v2
  BY <1>1
<1> HIDE DEF h
<1>7. ASSUME NEW i \in 1..2 PROVE h[i] = AfterLine(h[i - 1], mail[i], p)
  <2>1. i = 1 \/ i = 2
    OBVIOUS
  <2>2. i = 1 => i - 1 = 0
    OBVIOUS
  <2>3. i = 2 => i - 1 = 1
    OBVIOUS
  <2> QED
    BY <1>2, <1>3, <1>5, <1>6, <2>1, <2>2, <2>3
<1>8. History(v0, mail, is, p, h)
  BY <1>4, <1>5, <1>6, <1>7 DEF History
<1> QED
  BY <1>5, <1>6, <1>8 DEF Leads, v0, mail, l1, l2

-----------------------------------------------------------------------------
(* Lines that follow others. *)

LEMMA BracketsJoin ==
  ASSUME NEW mail \in Seq(Line), NEW r \in Seq(Line), Bracketed(mail), Bracketed(r), ~InBlock(r)
  PROVE  Bracketed(mail \o r) /\ (InBlock(mail \o r) => InBlock(mail))
<1> DEFINE next == mail \o r
           l == Len(mail)
           k == Len(r)
           m == Len(next)
<1>1. /\ next \in Seq(Line) /\ m = l + k /\ l \in Nat /\ k \in Nat
      /\ \A i \in 1..l : next[i] = mail[i]
      /\ \A i \in (l + 1)..m : i - l \in 1..k /\ next[i] = r[i - l]
  BY JoinedLonger, InRange DEF Longer, Later
<1>2. /\ DOMAIN mail = 1..l /\ DOMAIN r = 1..k /\ DOMAIN next = 1..m
      /\ (mail = <<>> <=> l = 0) /\ (r = <<>> <=> k = 0) /\ (next = <<>> <=> m = 0)
  BY <1>1, InRange
<1> HIDE DEF next, l, k, m
<1>3. \A i \in 1..m : i \in 1..l \/ i \in (l + 1)..m
  BY <1>1
<1>4. k # 0 => ~Within(r[1])
  BY <1>2 DEF InBlock
<1>5. ASSUME NEW i \in 1..m, NEW j \in 1..m, j = i + 1
      PROVE  Opens(next[i]) <=> Within(next[j])
  <2>1. CASE j \in 1..l
    <3>1. i \in 1..l
      BY <1>1, <1>5, <2>1
    <3> QED
      BY <1>1, <1>2, <1>5, <2>1, <3>1 DEF Bracketed
  <2>2. CASE i = l
    <3>1. j - l = 1 /\ j \in (l + 1)..m /\ k # 0 /\ i \in 1..l
      BY <1>1, <1>5, <2>2
    <3>2. ~Within(next[j])
      BY <1>1, <1>4, <3>1
    <3>3. ~Opens(mail[i])
      BY <1>2, <2>2, <3>1 DEF Bracketed, l
    <3> QED
      BY <1>1, <3>1, <3>2, <3>3
  <2>3. CASE i \in (l + 1)..m
    <3>1. j \in (l + 1)..m /\ j - l = (i - l) + 1
      BY <1>1, <1>5, <2>3
    <3>2. i - l \in 1..k /\ next[i] = r[i - l] /\ j - l \in 1..k /\ next[j] = r[j - l]
      BY <1>1, <2>3, <3>1
    <3> QED
      BY <1>2, <3>1, <3>2 DEF Bracketed
  <2> QED
    <3>1. j \in 1..l \/ i = l \/ i \in (l + 1)..m
      BY <1>1, <1>5
    <3> QED
      BY <2>1, <2>2, <2>3, <3>1
<1>6. ASSUME NEW i \in 1..m, Opens(next[i]) PROVE i # m
  <2>1. CASE i \in 1..l
    <3>1. i # l
      BY <1>1, <1>2, <1>6, <2>1 DEF Bracketed, l
    <3> QED
      BY <1>1, <2>1, <3>1
  <2>2. CASE i \in (l + 1)..m
    <3>1. i - l # k
      BY <1>1, <1>2, <1>6, <2>2 DEF Bracketed, k
    <3> QED
      BY <1>1, <2>2, <3>1
  <2> QED
    BY <1>3, <2>1, <2>2
<1>7. Bracketed(next)
  BY <1>2, <1>5, <1>6 DEF Bracketed, m
<1>8. ASSUME InBlock(next) PROVE InBlock(mail)
  <2>1. m # 0 /\ Within(next[1])
    BY <1>2, <1>8 DEF InBlock
  <2>2. CASE l = 0
    <3>1. 1 \in (l + 1)..m /\ 1 - l = 1 /\ k # 0
      BY <1>1, <2>1, <2>2
    <3> QED
      BY <1>1, <1>4, <2>1, <3>1
  <2>3. CASE l # 0
    <3>1. 1 \in 1..l
      BY <1>1, <2>3
    <3> QED
      BY <1>1, <1>2, <2>1, <2>3, <3>1 DEF InBlock
  <2> QED
    BY <2>2, <2>3
<1> QED
  BY <1>7, <1>8 DEF next

LEMMA GreetsOn ==
  ASSUME NEW mail \in Seq(Line), NEW next \in Seq(Line), Longer(mail, next), Greets(mail),
         \A i \in Later(mail, next) : Plain(next[i])
  PROVE  Greets(next)
<1>1. /\ DOMAIN mail = 1..Len(mail) /\ DOMAIN next = 1..Len(next)
      /\ Len(mail) \in Nat /\ Len(next) \in Nat /\ Len(mail) <= Len(next)
      /\ (mail = <<>> <=> Len(mail) = 0) /\ (next = <<>> <=> Len(next) = 0)
      /\ \A i \in 1..Len(mail) : next[i] = mail[i]
  BY InRange DEF Longer
<1>2. \A i \in 1..Len(next) : i \in 1..Len(mail) \/ i \in Later(mail, next)
  BY <1>1 DEF Later
<1>3. mail # <<>> => 1 \in 1..Len(mail) /\ next # <<>>
  BY <1>1
<1>4. Len(mail) >= 2 => 1 \in 1..Len(mail) /\ 2 \in 1..Len(mail) /\ Len(next) >= 2
  BY <1>1
<1>5. CASE mail # <<>> /\ mail[1].kind = "connected" /\ \A i \in DOMAIN mail : i # 1 => Plain(mail[i])
  BY <1>1, <1>2, <1>3, <1>5 DEF Greets
<1>6. CASE /\ Len(mail) >= 2 /\ mail[1].kind = "sync" /\ mail[2].kind = "connected"
           /\ \A i \in DOMAIN mail : i \notin {1, 2} => Plain(mail[i])
  <2>1. next[1].kind = "sync" /\ next[2].kind = "connected" /\ Len(next) >= 2
    BY <1>1, <1>4, <1>6
  <2>2. \A i \in 1..Len(next) : i \notin {1, 2} => Plain(next[i])
    BY <1>1, <1>2, <1>6
  <2> QED
    BY <1>1, <2>1, <2>2 DEF Greets
<1> QED
  BY <1>5, <1>6 DEF Greets

LEMMA GreetsRead ==
  ASSUME NEW mail \in Seq(Line), Greets(mail)
  PROVE  /\ mail # <<>> /\ mail[1].kind \in {"sync", "connected"}
         /\ \A i \in DOMAIN mail : mail[i].kind # "begin"
         /\ mail[1].kind = "sync" => Greets(Tail(mail))
         /\ mail[1].kind = "connected" => \A i \in DOMAIN Tail(mail) : Plain(Tail(mail)[i])
<1> DEFINE rest == Tail(mail)
<1>1. mail # <<>> /\ mail[1].kind \in {"sync", "connected"}
  <2>1. Len(mail) >= 2 => mail # <<>>
    BY InRange
  <2> QED
    BY <2>1 DEF Greets
<1>2. /\ rest \in Seq(Line) /\ Len(mail) \in Nat \ {0} /\ Len(rest) = Len(mail) - 1
      /\ \A i \in 1..Len(rest) : rest[i] = mail[i + 1] /\ i + 1 \in 1..Len(mail)
      /\ DOMAIN rest = 1..Len(rest) /\ DOMAIN mail = 1..Len(mail)
      /\ (rest = <<>> <=> Len(rest) = 0)
  BY <1>1, TailShorter, InRange
<1> HIDE DEF rest
<1>3. \A i \in DOMAIN mail : mail[i].kind # "begin"
  <2>1. \A i \in DOMAIN mail : i \in {1, 2} \/ i \notin {1, 2}
    OBVIOUS
  <2> QED
    BY <2>1 DEF Greets, Plain
<1>4. \A i \in 1..Len(rest) : i + 1 # 1 /\ (i # 1 => i + 1 \notin {1, 2})
  BY <1>2
<1>5. ASSUME mail[1].kind = "sync" PROVE Greets(rest)
  <2>1. /\ Len(mail) >= 2 /\ mail[2].kind = "connected"
        /\ \A i \in DOMAIN mail : i \notin {1, 2} => Plain(mail[i])
    BY <1>5 DEF Greets
  <2>2. 1 \in 1..Len(rest) /\ 1 + 1 = 2 /\ Len(rest) # 0
    BY <1>2, <2>1
  <2>3. rest[1].kind = "connected"
    BY <1>2, <2>1, <2>2
  <2>4. \A i \in 1..Len(rest) : i # 1 => Plain(rest[i])
    BY <1>2, <1>4, <2>1
  <2> QED
    BY <1>2, <2>2, <2>3, <2>4 DEF Greets
<1>6. ASSUME mail[1].kind = "connected" PROVE \A i \in DOMAIN rest : Plain(rest[i])
  <2>1. \A i \in DOMAIN mail : i # 1 => Plain(mail[i])
    BY <1>6 DEF Greets
  <2> QED
    BY <1>2, <1>4, <2>1
<1> QED
  BY <1>1, <1>3, <1>5, <1>6 DEF rest

(* One line by itself, and the lines of an answer. *)
LEMMA OneLine ==
  ASSUME NEW l \in Line, ~Within(l), ~Opens(l)
  PROVE  LET r == <<l>> IN
         r \in Seq(Line) /\ Len(r) = 1 /\ r[1] = l /\ Bracketed(r) /\ ~InBlock(r)
<1> DEFINE r == <<l>>
<1>1. r \in Seq(Line) /\ Len(r) = 1 /\ r[1] = l /\ DOMAIN r = 1..1
  OBVIOUS
<1> HIDE DEF r
<1>2. \A i \in 1..1 : i = 1 /\ i + 1 \notin 1..1
  OBVIOUS
<1>3. Bracketed(r)
  BY <1>1, <1>2 DEF Bracketed
<1> QED
  BY <1>1, <1>3 DEF InBlock, r

LEMMA NoLine == /\ <<>> \in Seq(Line) /\ Len(<<>>) = 0 /\ Bracketed(<<>>) /\ ~InBlock(<<>>)
<1> DEFINE r == <<>>
<1>1. r \in Seq(Line) /\ Len(r) = 0 /\ DOMAIN r = 1..0
  OBVIOUS
<1>2. \A i \in 1..0 : FALSE
  OBVIOUS
<1>3. ~InBlock(r)
  BY DEF InBlock
<1> HIDE DEF r
<1>4. Bracketed(r)
  BY <1>1, <1>2 DEF Bracketed
<1> QED
  BY <1>1, <1>3, <1>4 DEF r

LEMMA LineIs ==
  /\ \A m \in Line :
       /\ m.kind \in {"sync", "connected", "begin", "end", "data", "destroy", "depermit"}
                       \cup Inner \cup Events
       /\ m.kind = "sync" => m.states \in [People -> State]
       /\ m.kind \in {"begin", "text", "end"} => m.cmd \in Command
       /\ m.kind = "members" => m.chats \in SUBSET Chats
       /\ m.kind \in {"data", "join", "quit", "destroy", "depermit"} => m.chat \in Chats
       /\ m.kind \in Events => m.who \in People
  /\ \A k \in {"begin", "text", "end"}, q \in Command : [kind |-> k, cmd |-> q] \in Line
  /\ \A chats \in SUBSET Chats : [kind |-> "members", chats |-> chats] \in Line
  /\ \A k \in {"data", "join", "quit", "destroy", "depermit"}, c \in Chats : [kind |-> k, chat |-> c] \in Line
  /\ \A k \in Events, p \in People : [kind |-> k, who |-> p] \in Line
  /\ \A s \in [People -> State] : [kind |-> "sync", states |-> s] \in Line
  /\ [kind |-> "connected"] \in Line
<1>1. \A m \in Line :
       /\ m.kind \in {"sync", "connected", "begin", "end", "data", "destroy", "depermit"}
                       \cup Inner \cup Events
       /\ m.kind = "sync" => m.states \in [People -> State]
       /\ m.kind \in {"begin", "text", "end"} => m.cmd \in Command
       /\ m.kind = "members" => m.chats \in SUBSET Chats
       /\ m.kind \in {"data", "join", "quit", "destroy", "depermit"} => m.chat \in Chats
       /\ m.kind \in Events => m.who \in People
  <2> SUFFICES ASSUME NEW m \in Line
      PROVE /\ m.kind \in {"sync", "connected", "begin", "end", "data", "destroy", "depermit"}
                       \cup Inner \cup Events
            /\ m.kind = "sync" => m.states \in [People -> State]
            /\ m.kind \in {"begin", "text", "end"} => m.cmd \in Command
            /\ m.kind = "members" => m.chats \in SUBSET Chats
            /\ m.kind \in {"data", "join", "quit", "destroy", "depermit"} => m.chat \in Chats
            /\ m.kind \in Events => m.who \in People
    OBVIOUS
  <2> QED
    BY DEF Line, Inner, Events
<1>2. \A k \in {"begin", "text", "end"}, q \in Command : [kind |-> k, cmd |-> q] \in Line
  BY DEF Line
<1>3. \A chats \in SUBSET Chats : [kind |-> "members", chats |-> chats] \in Line
  BY DEF Line
<1>4. \A k \in {"data", "join", "quit", "destroy", "depermit"}, c \in Chats : [kind |-> k, chat |-> c] \in Line
  BY DEF Line
<1>5. \A k \in Events, p \in People : [kind |-> k, who |-> p] \in Line
  BY DEF Line, Events
<1>6. \A s \in [People -> State] : [kind |-> "sync", states |-> s] \in Line
  BY DEF Line
<1>7. [kind |-> "connected"] \in Line
  BY DEF Line
<1> QED
  BY <1>1, <1>2, <1>3, <1>4, <1>5, <1>6, <1>7

(* What comes back on a command: at most one block, which begins at once. *)
IsReply(q, r) ==
  /\ r \in Seq(Line) /\ Bracketed(r) /\ ~InBlock(r)
  /\ \A i \in DOMAIN r :
       /\ r[i].kind \in Inner \cup {"begin", "end", "data"}
       /\ r[i].kind = "begin" => i = 1 /\ r[i].cmd = q
  /\ q.verb \in Asks => r # <<>> /\ r[1].kind = "begin"

LEMMA EmptyAnswer ==
  ASSUME NEW q \in Command
  PROVE  IsReply(q, Answer(q, <<>>))
<1> DEFINE b == [kind |-> "begin", cmd |-> q]
           e == [kind |-> "end", cmd |-> q]
           r == Answer(q, <<>>)
<1>1. b \in Line /\ e \in Line /\ b.kind = "begin" /\ e.kind = "end" /\ b.cmd = q
  BY LineIs
<1>2. r = <<b>> \o <<>> \o <<e>>
  BY DEF Answer
<1> HIDE DEF b, e, r
<1>3. r \in Seq(Line) /\ Len(r) = 2 /\ r[1] = b /\ r[2] = e
  BY <1>1, <1>2
<1>4. DOMAIN r = 1..2 /\ r # <<>>
  BY <1>3, InRange
<1>5. \A i \in 1..2 : i = 1 \/ i = 2
  OBVIOUS
<1>6. \A i, j \in 1..2 : j = i + 1 => i = 1 /\ j = 2
  OBVIOUS
<1>7. Bracketed(r)
  BY <1>1, <1>3, <1>4, <1>5, <1>6 DEF Bracketed, Opens, Within, Inner
<1>8. ~InBlock(r)
  BY <1>1, <1>3 DEF InBlock, Within, Inner
<1>9. \A i \in DOMAIN r : r[i].kind \in Inner \cup {"begin", "end", "data"}
                          /\ (r[i].kind = "begin" => i = 1 /\ r[i].cmd = q)
  BY <1>1, <1>3, <1>4, <1>5 DEF Inner
<1> QED
  BY <1>1, <1>3, <1>4, <1>7, <1>8, <1>9 DEF IsReply, r

LEMMA FullAnswer ==
  ASSUME NEW q \in Command, NEW l \in Line, l.kind \in Inner
  PROVE  IsReply(q, Answer(q, <<l>>))
<1> DEFINE b == [kind |-> "begin", cmd |-> q]
           e == [kind |-> "end", cmd |-> q]
           r == Answer(q, <<l>>)
<1>1. b \in Line /\ e \in Line /\ b.kind = "begin" /\ e.kind = "end" /\ b.cmd = q
  BY LineIs
<1>2. r = <<b>> \o <<l>> \o <<e>>
  BY DEF Answer
<1> HIDE DEF b, e, r
<1>3. r \in Seq(Line) /\ Len(r) = 3 /\ r[1] = b /\ r[2] = l /\ r[3] = e
  BY <1>1, <1>2
<1>4. DOMAIN r = 1..3 /\ r # <<>>
  BY <1>3, InRange
<1>5. \A i \in 1..3 : i = 1 \/ i = 2 \/ i = 3
  OBVIOUS
<1>6. \A i, j \in 1..3 : j = i + 1 => (i = 1 /\ j = 2) \/ (i = 2 /\ j = 3)
  OBVIOUS
<1>7. l.kind \notin {"begin", "end"}
  BY DEF Inner
<1>8. Bracketed(r)
  BY <1>1, <1>3, <1>4, <1>5, <1>6, <1>7 DEF Bracketed, Opens, Within, Inner
<1>9. ~InBlock(r)
  BY <1>1, <1>3 DEF InBlock, Within, Inner
<1>10. \A i \in DOMAIN r : r[i].kind \in Inner \cup {"begin", "end", "data"}
                          /\ (r[i].kind = "begin" => i = 1 /\ r[i].cmd = q)
  BY <1>1, <1>3, <1>4, <1>5, <1>7 DEF Inner
<1> QED
  BY <1>1, <1>3, <1>4, <1>8, <1>9, <1>10 DEF IsReply, r

LEMMA NoAnswer ==
  ASSUME NEW q \in Command, q.verb \notin Asks
  PROVE  IsReply(q, <<>>)
<1>1. DOMAIN <<>> = {}
  OBVIOUS
<1> DEFINE r == <<>>
<1>2. r \in Seq(Line) /\ Bracketed(r) /\ ~InBlock(r)
  BY NoLine
<1> HIDE DEF r
<1>3. \A i \in DOMAIN r : FALSE
  BY <1>1 DEF r
<1>4. IsReply(q, r)
  BY <1>2, <1>3 DEF IsReply
<1> QED
  BY <1>4 DEF r

LEMMA LoneAnswer ==
  ASSUME NEW q \in Command, q.verb \notin Asks, NEW l \in Line, l.kind = "data"
  PROVE  IsReply(q, <<l>>)
<1> DEFINE r == <<l>>
<1>1. r \in Seq(Line) /\ Len(r) = 1 /\ r[1] = l /\ Bracketed(r) /\ ~InBlock(r)
  BY OneLine DEF Within, Opens, Inner
<1>2. DOMAIN r = 1..1 /\ \A i \in 1..1 : i = 1
  BY <1>1, InRange
<1> HIDE DEF r
<1>3. IsReply(q, r)
  BY <1>1, <1>2 DEF IsReply
<1> QED
  BY <1>3 DEF r

-----------------------------------------------------------------------------
(* Steps of a session. *)

LEMMA LilyTyped == LilyTypeOK <=> lily \in Lily /\ host \in LilyHost /\ manner \subseteq Manner
BY DEF LilyTypeOK, LilyHost

LEMMA Onward ==
  ASSUME LilyInv, lily' \in Lily, host' \in LilyHost, manner' = manner, ~lily.fault, ~lily'.fault,
         \/ lily'.told = lily.told
         \/ manner \cap {"overlaps", "loses"} = {} => \A t \in lily'.told : t[2] = {t[1]},
         lily'.session = "on" => lily'.sock, Sound(lily', host')
  PROVE  LilyInv'
<1>1. LilyTypeOK'
  BY DEF LilyInv, LilyTypeOK, LilyHost
<1>2. InfoIsHis'
  BY DEF LilyInv, InfoIsHis
<1>3. NoLilyFault'
  BY DEF NoLilyFault
<1>4. Sound(lily, host)'
  BY DEF Sound, Link, Asked, Orderly, Present
<1> QED
  BY <1>1, <1>2, <1>3, <1>4 DEF LilyInv

LEMMA FaultOn ==
  ASSUME LilyInv, lily' \in Lily, host' \in LilyHost, manner' = manner, lily'.fault,
         lily'.told = lily.told,
         \/ manner \cap {"overlaps", "breaks", "depermits"} # {}
         \/ {"whois", "loses"} \subseteq manner,
         lily'.session = "on" /\ ~lily'.sock => "breaks" \in manner /\ ~host'.up /\ lily'.mail = <<>>
  PROVE  LilyInv'
<1>1. LilyTypeOK'
  BY DEF LilyInv, LilyTypeOK, LilyHost
<1>2. InfoIsHis'
  BY DEF LilyInv, InfoIsHis
<1>3. NoLilyFault'
  BY DEF NoLilyFault
<1> QED
  BY <1>1, <1>2, <1>3 DEF LilyInv, Alive

(* The socket was closed by a send that failed. *)
LEMMA BrokenOn ==
  ASSUME LilyInv, lily' \in Lily, host' \in LilyHost, manner' = manner,
         lily.session = "on", ~lily.sock, lily'.session = "on", ~lily'.sock,
         lily'.mail = lily.mail, lily'.told = lily.told, host'.up = host.up
  PROVE  LilyInv'
<1>1. "breaks" \in manner /\ ~host.up /\ lily.mail = <<>>
  BY DEF LilyInv
<1>2. LilyTypeOK'
  BY DEF LilyInv, LilyTypeOK, LilyHost
<1>3. InfoIsHis'
  BY DEF LilyInv, InfoIsHis
<1>4. NoLilyFault'
  BY <1>1 DEF NoLilyFault
<1> QED
  BY <1>1, <1>2, <1>3, <1>4 DEF LilyInv, Alive

(* What a command that is sent changes. *)
SameButOut(c, d) ==
  /\ d.session = c.session /\ d.sock = c.sock /\ d.block = c.block /\ d.info = c.info
  /\ d.told = c.told /\ d.states = c.states /\ d.online = c.online /\ d.mail = c.mail

LEMMA SendIs ==
  ASSUME NEW c \in Lily, NEW q \in Command
  PROVE  LET d == Send(c, q) IN
         /\ d \in Lily /\ SameButOut(c, d) /\ d.joins = c.joins
         /\ c.sock => d.fault = c.fault /\ d.out = Append(c.out, q)
         /\ ~c.sock => d.fault /\ d.out = c.out
<1> DEFINE d == Send(c, q)
<1>1. CASE ~c.sock
  <2>1. d = [c EXCEPT !.fault = TRUE]
    BY <1>1 DEF Send, Fault
  <2> HIDE DEF d
  <2>2. /\ d \in Lily /\ SameButOut(c, d) /\ d.joins = c.joins
        /\ d.fault /\ d.out = c.out
    BY <2>1 DEF Lily, SameButOut
  <2> QED
    BY <1>1, <2>2 DEF d
<1>2. CASE c.sock
  <2> DEFINE next == Append(c.out, q)
  <2>1. next \in Seq(Command)
    BY DEF Lily
  <2>2. d = [c EXCEPT !.out = next]
    BY <1>2 DEF Send
  <2> HIDE DEF d, next
  <2>3. /\ d \in Lily /\ SameButOut(c, d) /\ d.joins = c.joins
        /\ d.fault = c.fault /\ d.out = next
    BY <2>1, <2>2 DEF Lily, SameButOut
  <2> QED
    BY <1>2, <2>3 DEF d, next
<1> QED
  BY <1>1, <1>2

LEMMA SoundSent ==
  ASSUME NEW c \in Lily, NEW d \in Lily, NEW h \in LilyHost, Sound(c, h), c.session = "on",
         d.session = c.session, d.sock = c.sock, d.block = c.block, d.mail = c.mail,
         d.states = c.states, d.online = c.online, Asked(d)
  PROVE  Sound(d, h)
<1>1. Link(d, h.up)
  BY DEF Sound, Link
<1>2. \A p \in People : View(d, p) = View(c, p)
  BY DEF View
<1>3. Present(c, h) => Present(d, h)
  BY <1>2 DEF Present
<1> QED
  BY <1>1, <1>3 DEF Sound

LEMMA AskedSent ==
  ASSUME NEW c \in Lily, NEW d \in Lily, NEW q \in Command, Asked(c),
         d.out = Append(c.out, q), d.mail = c.mail, d.block = c.block, d.info = c.info,
         q.verb \notin Asks,
         q.verb \notin Dull \/ (Orderly => Free(c.out, c.mail, c.block, c.info))
  PROVE  Asked(d)
<1> DEFINE next == Append(c.out, q)
<1>1. c.out \in Seq(Command)
  BY DEF Lily
<1>2. /\ next \in Seq(Command) /\ Longer(c.out, next)
      /\ \A i \in Later(c.out, next) : next[i] = q
  BY <1>1, AppendLonger
<1> HIDE DEF next
<1>3. \A i \in Later(c.out, next) : next[i].verb \notin Asks
  BY <1>2
<1>4. Free(c.out, c.mail, c.block, c.info) => Free(next, c.mail, c.block, c.info)
  BY <1>1, <1>2, <1>3, OutGrows
<1>5. CASE q.verb \notin Dull
  <2>1. \A i \in Later(c.out, next) : next[i].verb \notin Dull
    BY <1>2, <1>5
  <2>2. Question(c.out, c.mail, c.block, c.info) => Question(next, c.mail, c.block, c.info)
    BY <1>1, <1>2, <1>3, <2>1, OutGrows
  <2> QED
    BY <1>4, <2>2 DEF Asked, next
<1>6. CASE Orderly => Free(c.out, c.mail, c.block, c.info)
  BY <1>4, <1>6 DEF Asked, Question, next
<1> QED
  BY <1>5, <1>6

(* Nothing is asked, when nobody's answer is incomplete. *)
LEMMA NotAsking ==
  ASSUME LilyTypeOK, ~Asking, Question(lily.out, lily.mail, lily.block, lily.info)
  PROVE  Free(lily.out, lily.mail, lily.block, lily.info)
<1>1. lily.out \in Seq(Command) /\ lily.mail \in Seq(Line)
  BY DEF LilyTypeOK, Lily
<1>2. \A i \in DOMAIN lily.out : lily.out[i] \in ToSet(lily.out)
  BY DEF ToSet
<1>3. \A i \in DOMAIN lily.mail : lily.mail[i] \in ToSet(lily.mail)
  BY DEF ToSet
<1>4. lily.block = {} /\ \A i \in DOMAIN lily.out : lily.out[i].verb \notin Asks
  BY <1>2 DEF Asking, Asks
<1>5. \A i \in DOMAIN lily.mail : lily.mail[i].kind # "begin"
  BY <1>3 DEF Asking
<1> QED
  BY <1>4, <1>5, FreeThen

(* With no server, nobody is asked about. *)
LEMMA CutOff ==
  ASSUME NEW c \in Lily, Link(c, FALSE), Asked(c)
  PROVE  /\ c.out = <<>> /\ c.mail = <<>>
         /\ Orderly \/ "whois" \notin manner => Free(<<>>, <<>>, c.block, c.info)
<1>1. c.out = <<>> /\ c.mail = <<>>
  BY DEF Link
<1> DEFINE none == <<>>
<1>2. DOMAIN none = {} /\ ~InBlock(none)
  BY DEF InBlock
<1> HIDE DEF none
<1>3. Question(none, none, c.block, c.info) => Free(none, none, c.block, c.info)
  BY <1>2, FreeThen
<1>4. c.out = none /\ c.mail = none
  BY <1>1 DEF none
<1>5. Orderly \/ "whois" \notin manner => Free(none, none, c.block, c.info)
  BY <1>3, <1>4 DEF Asked
<1> QED
  BY <1>1, <1>5 DEF none

(* What is told of, when it is free, is free without anything under way too. *)
LEMMA StillFree ==
  ASSUME NEW out, NEW mail, NEW block, NEW info, Free(out, mail, block, info)
  PROVE  /\ Free(<<>>, <<>>, block, info) /\ Question(<<>>, <<>>, block, info)
<1> DEFINE none == <<>>
<1>1. DOMAIN none = {}
  OBVIOUS
<1> HIDE DEF none
<1>2. NoneAskedOut(none) /\ NoneAskedMail(none)
  BY <1>1 DEF NoneAskedOut, NoneAskedMail
<1>3. Free(none, none, block, info)
  BY <1>2 DEF Free
<1>4. Question(none, none, block, info)
  BY <1>3 DEF Question
<1> QED
  BY <1>3, <1>4 DEF none

-----------------------------------------------------------------------------
(* The user's steps. *)

LEMMA CutIs ==
  ASSUME NEW c \in Lily
  PROVE  LET d == LilySockClose(c) IN
         /\ d \in Lily /\ ~d.sock /\ d.out = <<>> /\ d.mail = <<>>
         /\ d.session = c.session /\ d.block = c.block /\ d.info = c.info /\ d.told = c.told
         /\ d.states = c.states /\ d.online = c.online /\ d.joins = c.joins /\ d.fault = c.fault
<1> DEFINE none == <<>>
           d == LilySockClose(c)
<1>1. none \in Seq(Command) /\ none \in Seq(Line)
  OBVIOUS
<1>2. d = [c EXCEPT !.sock = FALSE, !.out = none, !.mail = none]
  BY DEF LilySockClose
<1> HIDE DEF none, d
<1>3. /\ d \in Lily /\ ~d.sock /\ d.out = none /\ d.mail = none
      /\ d.session = c.session /\ d.block = c.block /\ d.info = c.info /\ d.told = c.told
      /\ d.states = c.states /\ d.online = c.online /\ d.joins = c.joins /\ d.fault = c.fault
  BY <1>1, <1>2 DEF Lily
<1> QED
  BY <1>3 DEF none, d

(* Without anything under way. *)
LEMMA LinkIdle ==
  ASSUME NEW c \in Lily, NEW up, up = FALSE, c.session # "on", c.sock <=> c.session # "off",
         c.joins = {}, c.out = <<>>, c.mail = <<>>
  PROVE  Link(c, up)
<1>1. Bracketed(c.mail) /\ ~InBlock(c.mail)
  BY NoLine
<1>2. \A i \in DOMAIN c.mail : FALSE
  OBVIOUS
<1> QED
  BY <1>1, <1>2 DEF Link

LEMMA SlcpConnectKeeps == LilyInv /\ LilyConnect => LilyInv'
<1> SUFFICES ASSUME LilyInv, LilyConnect PROVE LilyInv'
  OBVIOUS
<1> DEFINE c == LilySockClose(lily)
<1>1. /\ ~lily.fault /\ lily.session = "off" /\ lily \in Lily /\ host \in LilyHost
      /\ host' = host /\ manner' = manner /\ Sound(lily, host)
  BY LilyTyped DEF LilyInv, LilyConnect, Alive
<1>2. ~host.up /\ lily.joins = {} /\ host.up = FALSE
  BY <1>1 DEF Sound, Link, LilyHost
<1>3. /\ c \in Lily /\ ~c.sock /\ c.out = <<>> /\ c.mail = <<>>
      /\ c.session = lily.session /\ c.block = lily.block /\ c.info = lily.info
      /\ c.told = lily.told /\ c.states = lily.states /\ c.online = lily.online
      /\ c.joins = lily.joins /\ c.fault = lily.fault
  BY <1>1, CutIs
<1>4. lily' = [c EXCEPT !.session = "signing", !.sock = TRUE]
  BY DEF LilyConnect
<1> HIDE DEF c
<1>5. /\ lily' \in Lily /\ lily'.sock /\ lily'.session = "signing"
      /\ lily'.out = c.out /\ lily'.mail = c.mail /\ lily'.joins = c.joins
      /\ lily'.block = c.block /\ lily'.info = c.info /\ lily'.told = c.told
      /\ lily'.states = c.states /\ lily'.fault = c.fault
  BY <1>3, <1>4 DEF Lily
<1>6. Link(lily', FALSE)
  <2>1. /\ lily'.session # "on" /\ (lily'.sock <=> lily'.session # "off")
        /\ lily'.joins = {} /\ lily'.out = <<>> /\ lily'.mail = <<>>
    BY <1>2, <1>3, <1>5
  <2> QED
    BY <1>5, <2>1, LinkIdle
<1>7. Asked(lily')
  <2>1. Link(lily, FALSE) /\ Asked(lily)
    BY <1>1, <1>2 DEF Sound
  <2>2. Orderly \/ "whois" \notin manner => Free(<<>>, <<>>, lily.block, lily.info)
    BY <1>1, <2>1, CutOff
  <2>3. lily'.out = <<>> /\ lily'.mail = <<>> /\ lily'.block = lily.block /\ lily'.info = lily.info
    BY <1>3, <1>5
  <2> QED
    BY <2>2, <2>3, StillFree DEF Asked
<1>8. "loses" \notin manner => Present(lily', host')
  BY <1>1, <1>2, <1>3, <1>5 DEF Sound, Present
<1>9. Sound(lily', host')
  BY <1>1, <1>2, <1>6, <1>7, <1>8 DEF Sound
<1> QED
  BY <1>1, <1>3, <1>5, <1>9, Onward

(* A session is ended. *)
LEMMA SessionEnded ==
  ASSUME LilyInv, ~lily.fault, manner' = manner, lily' \in Lily, host' = Quit(host),
         lily'.session = "off", ~lily'.sock, lily'.out = <<>>, lily'.mail = <<>>, lily'.joins = {},
         lily'.block = lily.block, lily'.info = lily.info, lily'.told = lily.told, ~lily'.fault,
         Orderly \/ "whois" \notin manner => Free(lily.out, lily.mail, lily.block, lily.info),
         "loses" \notin manner => \A p \in People : lily'.states[p] = "none"
  PROVE  LilyInv'
<1>1. lily \in Lily /\ host \in LilyHost
  BY LilyTyped DEF LilyInv
<1>2. host' \in LilyHost /\ host'.up = FALSE
  BY <1>1 DEF Quit, LilyHost
<1>3. Link(lily', FALSE)
  BY LinkIdle
<1>4. Asked(lily')
  BY StillFree DEF Asked
<1>5. "loses" \notin manner => Present(lily', host')
  BY <1>2 DEF Present
<1>6. Sound(lily', host')
  BY <1>2, <1>3, <1>4, <1>5 DEF Sound
<1> QED
  BY <1>2, <1>6, Onward

LEMMA SlcpDisconnectKeeps == LilyInv /\ LilyDisconnect => LilyInv'
<1> SUFFICES ASSUME LilyInv, LilyDisconnect PROVE LilyInv'
  OBVIOUS
<1>1. /\ ~lily.fault /\ lily.sock /\ lily \in Lily /\ manner' = manner /\ Sound(lily, host)
      /\ host' = Quit(host) /\ (Asking => "overlaps" \in manner) /\ LilyTypeOK
  BY LilyTyped DEF LilyInv, LilyDisconnect, Alive, MayCommand
<1> DEFINE c == LilySockClose(lily)
           states == [p \in People |-> "none"]
           d == [c EXCEPT !.states = states, !.member = {}, !.joins = {}]
<1>2. /\ c \in Lily /\ ~c.sock /\ c.out = <<>> /\ c.mail = <<>>
      /\ c.block = lily.block /\ c.info = lily.info
      /\ c.told = lily.told /\ c.fault = lily.fault
  BY <1>1, CutIs
<1>3. lily' = SessionOver(d)
  BY DEF LilyDisconnect, LilyRenew
<1>4. states \in [People -> State] /\ \A p \in People : states[p] = "none"
  BY DEF State
<1> HIDE DEF c, states
<1>5. /\ d \in Lily /\ ~d.sock /\ d.out = c.out /\ d.mail = c.mail /\ d.joins = {}
      /\ d.block = c.block /\ d.info = c.info /\ d.told = c.told /\ d.fault = c.fault
      /\ d.states = states
  BY <1>2, <1>4 DEF Lily
<1> HIDE DEF d
<1>6. /\ lily' \in Lily /\ lily'.session = "off" /\ ~lily'.sock /\ lily'.out = d.out
      /\ lily'.mail = d.mail /\ lily'.joins = {} /\ lily'.block = d.block /\ lily'.info = d.info
      /\ lily'.told = d.told /\ lily'.fault = d.fault /\ lily'.states = d.states
  BY <1>3, <1>5 DEF Lily, SessionOver
<1>7. Orderly \/ "whois" \notin manner => Free(lily.out, lily.mail, lily.block, lily.info)
  <2>1. CASE Orderly
    BY <1>1, <2>1, NotAsking DEF Orderly, Sound, Asked
  <2>2. CASE "whois" \notin manner
    BY <1>1, <2>2 DEF Sound, Asked
  <2> QED
    BY <2>1, <2>2
<1> QED
  <2>1. /\ lily'.out = <<>> /\ lily'.mail = <<>> /\ lily'.block = lily.block
        /\ lily'.info = lily.info /\ lily'.told = lily.told /\ ~lily'.fault
        /\ \A p \in People : lily'.states[p] = "none"
    BY <1>1, <1>2, <1>4, <1>5, <1>6
  <2> QED
    BY <1>1, <1>6, <1>7, <2>1, SessionEnded

LEMMA SlcpPollErrorKeeps == LilyInv /\ LilyPollError => LilyInv'
<1> SUFFICES ASSUME LilyInv, LilyPollError PROVE LilyInv'
  OBVIOUS
<1>1. /\ ~lily.fault /\ lily.sock /\ lily \in Lily /\ manner' = manner /\ Sound(lily, host)
      /\ host' = Quit(host) /\ lily.joins = {} /\ (~host.up \/ "loses" \in manner)
      /\ host \in LilyHost
  BY LilyTyped DEF LilyInv, LilyPollError, Alive
<1> DEFINE c == LilySockClose(lily)
<1>2. /\ c \in Lily /\ ~c.sock /\ c.out = <<>> /\ c.mail = <<>>
      /\ c.block = lily.block /\ c.info = lily.info /\ c.joins = lily.joins
      /\ c.told = lily.told /\ c.fault = lily.fault /\ c.states = lily.states
  BY <1>1, CutIs
<1>3. lily' = SessionOver(c)
  BY DEF LilyPollError
<1> HIDE DEF c
<1>4. /\ lily' \in Lily /\ lily'.session = "off" /\ ~lily'.sock /\ lily'.out = c.out
      /\ lily'.mail = c.mail /\ lily'.joins = c.joins /\ lily'.block = c.block
      /\ lily'.info = c.info /\ lily'.told = c.told /\ lily'.fault = c.fault
      /\ lily'.states = c.states
  BY <1>2, <1>3 DEF Lily, SessionOver
<1>5. ~host.up => host.up = FALSE
  BY <1>1 DEF LilyHost
<1>6. Orderly \/ "whois" \notin manner => Free(lily.out, lily.mail, lily.block, lily.info)
  <2>1. CASE "whois" \notin manner
    BY <1>1, <2>1 DEF Sound, Asked
  <2>2. CASE Orderly /\ "whois" \in manner
    <3>1. host.up = FALSE
      BY <1>1, <1>5, <2>2 DEF Orderly
    <3>2. Link(lily, FALSE) /\ Asked(lily)
      BY <1>1, <3>1 DEF Sound
    <3>3. Free(<<>>, <<>>, lily.block, lily.info) /\ lily.out = <<>> /\ lily.mail = <<>>
      BY <1>1, <2>2, <3>2, CutOff
    <3> QED
      BY <3>3
  <2> QED
    BY <2>1, <2>2
<1>7. "loses" \notin manner => \A p \in People : lily'.states[p] = "none"
  BY <1>1, <1>2, <1>4 DEF Sound, Present
<1> QED
  <2>1. /\ lily'.out = <<>> /\ lily'.mail = <<>> /\ lily'.block = lily.block /\ lily'.joins = {}
        /\ lily'.info = lily.info /\ lily'.told = lily.told /\ ~lily'.fault
    BY <1>1, <1>2, <1>4
  <2> QED
    BY <1>1, <1>4, <1>6, <1>7, <2>1, SessionEnded

LEMMA BreaksKeeps == LilyInv /\ SendBreaks => LilyInv'
<1> SUFFICES ASSUME LilyInv, SendBreaks PROVE LilyInv'
  OBVIOUS
<1>1. /\ ~lily.fault /\ lily \in Lily /\ manner' = manner /\ host \in LilyHost
      /\ host' = Quit(host) /\ lily.session = "on" /\ "breaks" \in manner
      /\ lily' = LilySockClose(lily)
  BY LilyTyped DEF LilyInv, SendBreaks
<1>2. /\ lily' \in Lily /\ ~lily'.sock /\ lily'.mail = <<>> /\ lily'.told = lily.told
      /\ lily'.fault = lily.fault /\ lily'.session = lily.session
  BY <1>1, CutIs
<1>3. host' \in LilyHost /\ ~host'.up
  BY <1>1 DEF Quit, LilyHost
<1>4. LilyTypeOK'
  BY <1>1, <1>2, <1>3 DEF LilyInv, LilyTypeOK, LilyHost
<1>5. InfoIsHis'
  BY <1>1, <1>2 DEF LilyInv, InfoIsHis
<1>6. NoLilyFault'
  BY <1>1, <1>2 DEF NoLilyFault
<1> QED
  BY <1>1, <1>2, <1>3, <1>4, <1>5, <1>6 DEF LilyInv, Alive

(* A command is sent, or fails with the socket closed. *)
LEMMA CommandKeeps ==
  ASSUME LilyInv, ~lily.fault, lily.session = "on", NEW c \in Lily, NEW q \in Command,
         c.session = lily.session, c.sock = lily.sock, c.block = lily.block, c.info = lily.info,
         c.told = lily.told, c.states = lily.states, c.online = lily.online, c.mail = lily.mail,
         c.out = lily.out, c.fault = lily.fault,
         lily' = Send(c, q), host' = host, manner' = manner,
         ASSUME NEW d \in Lily, d.out = Append(lily.out, q), d.mail = lily.mail,
                d.block = lily.block, d.info = lily.info, Asked(lily)
         PROVE  Asked(d)
  PROVE  LilyInv'
<1>1. lily \in Lily /\ host \in LilyHost
  BY LilyTyped DEF LilyInv
<1>2. /\ lily' \in Lily /\ SameButOut(c, lily')
      /\ c.sock => lily'.fault = c.fault /\ lily'.out = Append(c.out, q)
  BY SendIs
<1>3. CASE ~lily.sock
  BY <1>1, <1>2, <1>3, BrokenOn DEF SameButOut
<1>4. CASE lily.sock
  <2>1. Sound(lily, host)
    BY <1>4 DEF LilyInv, Alive
  <2>2. Asked(lily')
    BY <1>2, <1>4, <2>1 DEF SameButOut, Sound
  <2>3. Sound(lily', host)
    BY <1>1, <1>2, <2>1, <2>2, SoundSent DEF SameButOut
  <2> QED
    BY <1>1, <1>2, <1>4, <2>3, Onward DEF SameButOut
<1> QED
  BY <1>3, <1>4

LEMMA GetInfoKeeps == \A p \in People : LilyInv /\ GetInfo(p) => LilyInv'
<1> SUFFICES ASSUME NEW p \in People, LilyInv, GetInfo(p) PROVE LilyInv'
  OBVIOUS
<1> DEFINE q == Cmd("FINGER", p)
<1>1. /\ lily \in Lily /\ LilyTypeOK /\ ~lily.fault /\ lily.session = "on" /\ "whois" \in manner
      /\ (Asking => "overlaps" \in manner) /\ host' = host /\ manner' = manner
      /\ lily' = Send(lily, q)
  BY LilyTyped DEF LilyInv, GetInfo, MayAsk, MayCommand
<1>2. q \in Command
  BY CmdIs DEF Asks
<1>3. ASSUME NEW d \in Lily, d.out = Append(lily.out, q), d.mail = lily.mail,
             d.block = lily.block, d.info = lily.info, Asked(lily)
      PROVE  Asked(d)
  <2>1. ASSUME Orderly PROVE Question(d.out, d.mail, d.block, d.info)
    <3>1. Free(lily.out, lily.mail, lily.block, lily.info)
      BY <1>1, <1>3, <2>1, NotAsking DEF Asked, Orderly
    <3>2. lily.info = {} /\ lily.out \in Seq(Command)
      BY <1>1, <3>1 DEF Free, Lily
    <3>3. Question(Append(lily.out, q), lily.mail, lily.block, {})
      BY <3>1, <3>2, QuestionPut
    <3> QED
      BY <1>3, <3>2, <3>3
  <2> QED
    BY <1>1, <2>1 DEF Asked
<1> HIDE DEF q
<1> QED
  BY <1>1, <1>2, <1>3, CommandKeeps

LEMMA SendWordKeeps == LilyInv /\ SendWord => LilyInv'
<1> SUFFICES ASSUME LilyInv, SendWord PROVE LilyInv'
  OBVIOUS
<1> DEFINE q == Cmd("word", NoOne)
<1>1. /\ lily \in Lily /\ LilyTypeOK /\ ~lily.fault /\ lily.session = "on"
      /\ (Asking => "overlaps" \in manner) /\ host' = host /\ manner' = manner
      /\ lily' = Send(lily, q)
  BY LilyTyped DEF LilyInv, SendWord, MayAsk, MayCommand
<1>2. q \in Command /\ q.verb \notin Asks
  BY CmdIs DEF Asks, Dull
<1>3. ASSUME NEW d \in Lily, d.out = Append(lily.out, q), d.mail = lily.mail,
             d.block = lily.block, d.info = lily.info, Asked(lily)
      PROVE  Asked(d)
  <2>1. Orderly => Free(lily.out, lily.mail, lily.block, lily.info)
    BY <1>1, <1>3, NotAsking DEF Asked, Orderly
  <2> QED
    BY <1>1, <1>2, <1>3, <2>1, AskedSent
<1> HIDE DEF q
<1> QED
  BY <1>1, <1>2, <1>3, CommandKeeps

(* A command that asks nothing about anyone and has a blank in it. *)
LEMMA OtherKeeps ==
  ASSUME LilyInv, ~lily.fault, lily.session = "on", NEW c \in Lily, NEW q \in Command,
         c.session = lily.session, c.sock = lily.sock, c.block = lily.block, c.info = lily.info,
         c.told = lily.told, c.states = lily.states, c.online = lily.online, c.mail = lily.mail,
         c.out = lily.out, c.fault = lily.fault,
         lily' = Send(c, q), host' = host, manner' = manner,
         q.verb \notin Asks, q.verb \notin Dull
  PROVE  LilyInv'
<1>1. lily \in Lily
  BY LilyTyped DEF LilyInv
<1>2. ASSUME NEW d \in Lily, d.out = Append(lily.out, q), d.mail = lily.mail,
             d.block = lily.block, d.info = lily.info, Asked(lily)
      PROVE  Asked(d)
  BY <1>1, <1>2, AskedSent
<1> QED
  BY <1>2, CommandKeeps

LEMMA CloseKeeps == \A k \in Chats : LilyInv /\ LilyClose(k) => LilyInv'
<1> SUFFICES ASSUME NEW k \in Chats, LilyInv, LilyClose(k) PROVE LilyInv'
  OBVIOUS
<1> DEFINE q == Cmd("QUIT", k)
           windows == lily.windows \ {k}
           c == [lily EXCEPT !.windows = windows]
<1>1. /\ lily \in Lily /\ ~lily.fault /\ lily.session = "on" /\ host' = host /\ manner' = manner
      /\ lily' = Send(c, q)
  BY LilyTyped DEF LilyInv, LilyClose, MayAsk, MayCommand
<1>2. q \in Command /\ q.verb \notin Asks /\ q.verb \notin Dull
  BY CmdIs DEF Asks, Dull
<1>3. windows \in SUBSET Chats
  BY <1>1 DEF Lily
<1> HIDE DEF windows, q
<1>4. /\ c \in Lily /\ c.session = lily.session /\ c.sock = lily.sock /\ c.block = lily.block
      /\ c.info = lily.info /\ c.told = lily.told /\ c.states = lily.states
      /\ c.online = lily.online /\ c.mail = lily.mail /\ c.out = lily.out /\ c.fault = lily.fault
  BY <1>1, <1>3 DEF Lily
<1> HIDE DEF c
<1> QED
  BY <1>1, <1>2, <1>4, OtherKeeps

LEMMA PreselectKeeps == LilyInv /\ Preselect => LilyInv'
<1> SUFFICES ASSUME LilyInv, Preselect PROVE LilyInv'
  OBVIOUS
<1>1. /\ lily \in Lily /\ ~lily.fault /\ host' = host /\ manner' = manner
  BY LilyTyped DEF LilyInv, Preselect, MayCommand
<1>2. PICK k \in lily.joins : lily' = Send([lily EXCEPT !.joins = @ \ {k}], Cmd("JOIN", k))
  BY DEF Preselect
<1> DEFINE q == Cmd("JOIN", k)
           joins == lily.joins \ {k}
           c == [lily EXCEPT !.joins = joins]
<1>3. lily.session = "on"
  <2>1. CASE Alive(lily)
    BY <1>2, <2>1 DEF LilyInv, Sound, Link
  <2>2. CASE ~Alive(lily)
    BY <1>1, <2>2 DEF Alive
  <2> QED
    BY <2>1, <2>2
<1>4. k \in Chats
  BY <1>1 DEF Lily
<1>5. q \in Command /\ q.verb \notin Asks /\ q.verb \notin Dull
  BY <1>4, CmdIs DEF Asks, Dull
<1>6. joins \in SUBSET Chats /\ lily' = Send(c, q)
  BY <1>1, <1>2 DEF Lily
<1> HIDE DEF joins, q
<1>7. /\ c \in Lily /\ c.session = lily.session /\ c.sock = lily.sock /\ c.block = lily.block
      /\ c.info = lily.info /\ c.told = lily.told /\ c.states = lily.states
      /\ c.online = lily.online /\ c.mail = lily.mail /\ c.out = lily.out /\ c.fault = lily.fault
  BY <1>1, <1>6 DEF Lily
<1> HIDE DEF c
<1> QED
  BY <1>1, <1>3, <1>5, <1>6, <1>7, OtherKeeps

LEMMA JoinKeeps == \A k \in Chats : LilyInv /\ LilyJoin(k) => LilyInv'
<1> SUFFICES ASSUME NEW k \in Chats, LilyInv, LilyJoin(k) PROVE LilyInv'
  OBVIOUS
<1> DEFINE windows == lily.windows \cup {k}
           joins == lily.joins \cup {k}
<1>1. /\ lily \in Lily /\ host \in LilyHost /\ ~lily.fault /\ lily.session = "on"
      /\ host' = host /\ manner' = manner
      /\ lily' = [lily EXCEPT !.windows = windows, !.joins = joins]
  BY LilyTyped DEF LilyInv, LilyJoin, MayAsk, MayCommand
<1>2. windows \in SUBSET Chats /\ joins \in SUBSET Chats
  BY <1>1 DEF Lily
<1> HIDE DEF windows, joins
<1>3. /\ lily' \in Lily /\ lily'.session = lily.session /\ lily'.sock = lily.sock
      /\ lily'.block = lily.block /\ lily'.info = lily.info /\ lily'.told = lily.told
      /\ lily'.states = lily.states /\ lily'.online = lily.online /\ lily'.mail = lily.mail
      /\ lily'.out = lily.out /\ lily'.fault = lily.fault
  BY <1>1, <1>2 DEF Lily
<1>4. CASE ~lily.sock
  BY <1>1, <1>3, <1>4, BrokenOn
<1>5. CASE lily.sock
  <2>1. Sound(lily, host)
    BY <1>1, <1>5 DEF LilyInv, Alive
  <2>2. Asked(lily')
    BY <1>3, <2>1 DEF Sound, Asked
  <2>3. Sound(lily', host)
    BY <1>1, <1>3, <2>1, <2>2, SoundSent
  <2> QED
    BY <1>1, <1>3, <1>5, <2>3, Onward
<1> QED
  BY <1>4, <1>5

-----------------------------------------------------------------------------
(* The server's steps. *)

LEMMA SaysIs ==
  ASSUME NEW c \in Lily, NEW r \in Seq(Line)
  PROVE  LET d == LilySays(c, r) IN
         /\ d \in Lily /\ d.mail = c.mail \o r
         /\ d.session = c.session /\ d.sock = c.sock /\ d.block = c.block /\ d.info = c.info
         /\ d.told = c.told /\ d.states = c.states /\ d.online = c.online /\ d.joins = c.joins
         /\ d.out = c.out /\ d.fault = c.fault
<1> DEFINE next == c.mail \o r
           d == LilySays(c, r)
<1>1. next \in Seq(Line)
  BY JoinedLonger DEF Lily
<1>2. d = [c EXCEPT !.mail = next]
  BY DEF LilySays
<1> HIDE DEF next, d
<1>3. /\ d \in Lily /\ d.mail = next
      /\ d.session = c.session /\ d.sock = c.sock /\ d.block = c.block /\ d.info = c.info
      /\ d.told = c.told /\ d.states = c.states /\ d.online = c.online /\ d.joins = c.joins
      /\ d.out = c.out /\ d.fault = c.fault
  BY <1>1, <1>2 DEF Lily
<1> QED
  BY <1>3 DEF next, d

LEMMA LinkTold ==
  ASSUME NEW c \in Lily, NEW d \in Lily, NEW r \in Seq(Line), Link(c, TRUE),
         Bracketed(r), ~InBlock(r), d.mail = c.mail \o r,
         d.session = c.session, d.sock = c.sock, d.block = c.block, d.joins = c.joins,
         c.session = "on" \/ (d.out = c.out /\ \A i \in DOMAIN r : Plain(r[i])),
         \A i \in DOMAIN r : /\ r[i].kind \notin {"sync", "connected"}
                             /\ r[i].kind = "depermit" => "depermits" \in manner
  PROVE  Link(d, TRUE)
<1> DEFINE mail == c.mail
           next == d.mail
<1>1. mail \in Seq(Line) /\ Bracketed(mail)
  BY DEF Lily, Link
<1>2. /\ next \in Seq(Line) /\ Longer(mail, next)
      /\ \A i \in Later(mail, next) : i - Len(mail) \in 1..Len(r) /\ next[i] = r[i - Len(mail)]
  <2> DEFINE t == mail \o r
  <2>1. next = t
    OBVIOUS
  <2> HIDE DEF mail, next
  <2>2. /\ t \in Seq(Line) /\ Longer(mail, t)
        /\ \A i \in Later(mail, t) : i - Len(mail) \in 1..Len(r) /\ t[i] = r[i - Len(mail)]
    BY <1>1, JoinedLonger
  <2> HIDE DEF t
  <2> QED
    BY <2>1, <2>2
<1>3. Bracketed(next) /\ (InBlock(next) => InBlock(mail))
  BY <1>1, BracketsJoin
<1>4. /\ DOMAIN mail = 1..Len(mail) /\ DOMAIN next = 1..Len(next) /\ DOMAIN r = 1..Len(r)
      /\ Len(mail) \in Nat /\ Len(next) \in Nat
  BY <1>1, <1>2, InRange
<1>5. \A i \in 1..Len(next) : i \in 1..Len(mail) \/ i \in Later(mail, next)
  BY <1>4 DEF Later
<1>6. \A i \in Later(mail, next) : \E j \in DOMAIN r : next[i] = r[j]
  BY <1>2, <1>4
<1>7. c.session = "signing" => Greets(next)
  <2>1. c.session = "signing" => Greets(mail) /\ \A i \in Later(mail, next) : Plain(next[i])
    BY <1>6 DEF Link
  <2> QED
    BY <1>1, <1>2, <2>1, GreetsOn
<1>8. c.session = "on" => \A i \in DOMAIN next : next[i].kind \notin {"sync", "connected"}
  BY <1>2, <1>4, <1>5, <1>6 DEF Link, Longer
<1>9. \A i \in DOMAIN next : next[i].kind = "depermit" => "depermits" \in manner
  BY <1>2, <1>4, <1>5, <1>6 DEF Link, Longer
<1> HIDE DEF mail, next
<1>10. Bracketed(d.mail) /\ (InBlock(d.mail) => d.block # {})
  BY <1>3 DEF Link, mail, next
<1> QED
  BY <1>7, <1>8, <1>9, <1>10 DEF Link, next

(* One line is told that is none of a session's first and is no answer. *)
LEMMA OneTold ==
  ASSUME LilyInv, ~lily.fault, host.up, NEW l \in Line,
         l.kind \in Events \cup {"destroy", "depermit"}, l.kind = "depermit" => "depermits" \in manner,
         lily' = LilySays(lily, <<l>>), host' \in LilyHost, host'.up, manner' = manner,
         \A p \in People : \A w \in Views : Matches(w, host.states[p]) =>
           AfterLine(w, l, p) \in Views /\ Matches(AfterLine(w, l, p), host'.states[p])
  PROVE  LilyInv'
<1> DEFINE r == <<l>>
           mail == lily.mail
           next == lily'.mail
<1>1. lily \in Lily /\ host \in LilyHost /\ mail \in Seq(Line) /\ host.up = TRUE /\ host'.up = TRUE
  BY LilyTyped DEF LilyInv, Lily, LilyHost
<1>2. Alive(lily) /\ Sound(lily, host) /\ lily.sock
  BY <1>1 DEF LilyInv, Alive, Sound, Link
<1>3. r \in Seq(Line) /\ Len(r) = 1 /\ r[1] = l /\ Bracketed(r) /\ ~InBlock(r)
  BY OneLine DEF Within, Opens, Inner, Events
<1> HIDE DEF r
<1>4. DOMAIN r = 1..1 /\ \A i \in 1..1 : i = 1
  BY <1>3, InRange
<1>5. /\ lily' \in Lily /\ lily'.mail = mail \o r
      /\ lily'.session = lily.session /\ lily'.sock = lily.sock /\ lily'.block = lily.block
      /\ lily'.info = lily.info /\ lily'.told = lily.told /\ lily'.states = lily.states
      /\ lily'.online = lily.online /\ lily'.joins = lily.joins
      /\ lily'.out = lily.out /\ lily'.fault = lily.fault
  BY <1>1, <1>3, SaysIs DEF r
<1>6. \A i \in DOMAIN r : /\ r[i].kind \notin {"sync", "connected", "begin"}
                          /\ r[i].kind = "depermit" => "depermits" \in manner
                          /\ Plain(r[i])
  BY <1>3, <1>4 DEF Events, Plain
<1>7. Link(lily, TRUE)
  BY <1>1, <1>2 DEF Sound
<1>8. Link(lily', TRUE)
  BY <1>1, <1>3, <1>5, <1>6, <1>7, LinkTold
<1>9. /\ next \in Seq(Line) /\ Longer(mail, next) /\ Len(next) = Len(mail) + 1
      /\ next[Len(next)] = l /\ \A i \in Later(mail, next) : next[i] = l
  <2>1. /\ next \in Seq(Line) /\ Longer(mail, next) /\ Len(next) = Len(mail) + Len(r)
        /\ \A i \in Later(mail, next) : i - Len(mail) \in 1..Len(r) /\ next[i] = r[i - Len(mail)]
    <3> DEFINE t == mail \o r
    <3>1. next = t
      BY <1>5
    <3> HIDE DEF mail, next
    <3>2. /\ t \in Seq(Line) /\ Longer(mail, t) /\ Len(t) = Len(mail) + Len(r)
          /\ \A i \in Later(mail, t) : i - Len(mail) \in 1..Len(r) /\ t[i] = r[i - Len(mail)]
      BY <1>1, <1>3, JoinedLonger
    <3> HIDE DEF t
    <3> QED
      BY <3>1, <3>2
  <2>2. Len(mail) \in Nat
    BY <1>1, InRange
  <2>3. Len(next) \in Later(mail, next)
    BY <1>3, <2>1, <2>2 DEF Later
  <2>4. \A i \in Later(mail, next) : next[i] = l
    BY <1>3, <1>4, <2>1
  <2> QED
    BY <1>3, <2>1, <2>3, <2>4
<1>10. Asked(lily')
  <2>1. \A i \in Later(mail, next) : next[i].kind # "begin"
    BY <1>9 DEF Events
  <2>2. /\ Free(lily.out, mail, lily.block, lily.info) => Free(lily.out, next, lily.block, lily.info)
        /\ Question(lily.out, mail, lily.block, lily.info) =>
             Question(lily.out, next, lily.block, lily.info)
    BY <1>1, <1>9, <2>1, LinesTold
  <2> QED
    BY <1>2, <1>5, <2>2 DEF Sound, Asked
<1>11. ASSUME "loses" \notin manner PROVE Present(lily', host')
  <2> SUFFICES ASSUME NEW p \in People PROVE Leads(View(lily', p), next, host'.states[p], p)
    BY <1>1 DEF Present
  <2>1. Leads(View(lily, p), mail, host.states[p], p)
    BY <1>1, <1>2, <1>11 DEF Sound, Present
  <2>2. View(lily', p) = View(lily, p)
    BY <1>5 DEF View
  <2>3. Leads(View(lily, p), next, host'.states[p], p)
    <3> DEFINE v == View(lily, p)
               is == host.states[p]
               new == host'.states[p]
    <3>1. \A w \in Views : Matches(w, is) =>
            /\ AfterLine(w, next[Len(next)], p) \in Views
            /\ Matches(AfterLine(w, next[Len(next)], p), new)
      BY <1>9
    <3> HIDE DEF v, is, new, mail, next
    <3>2. Leads(v, mail, is, p)
      BY <2>1 DEF v, is
    <3>3. Leads(v, next, new, p)
      BY <1>1, <1>9, <3>1, <3>2, LeadsTo
    <3> QED
      BY <3>3 DEF v, new
  <2> QED
    BY <2>2, <2>3
<1>12. Sound(lily', host')
  BY <1>1, <1>8, <1>10, <1>11 DEF Sound
<1> QED
  BY <1>1, <1>2, <1>5, <1>12, Onward

LEMMA HostMoves ==
  ASSUME LilyInv, ~lily.fault, ~host.up, lily' = lily, host' \in LilyHost, ~host'.up, manner' = manner
  PROVE  LilyInv'
<1>1. lily \in Lily /\ host \in LilyHost /\ host.up = FALSE /\ host'.up = FALSE
  BY LilyTyped DEF LilyInv, LilyHost
<1>2. CASE lily.session = "on" /\ ~lily.sock
  BY <1>1, <1>2, BrokenOn
<1>3. CASE lily.session = "on" => lily.sock
  <2>1. Sound(lily, host)
    BY <1>3 DEF LilyInv, Alive
  <2>2. Link(lily', FALSE) /\ Asked(lily')
    BY <1>1, <2>1 DEF Sound
  <2>3. "loses" \notin manner => Present(lily', host')
    BY <1>1, <2>1 DEF Sound, Present
  <2>4. Sound(lily', host')
    BY <1>1, <2>2, <2>3 DEF Sound
  <2> QED
    BY <1>1, <1>3, <2>4, Onward
<1> QED
  BY <1>2, <1>3

(* The presence that an event takes one from, and the one it takes one to. *)
From(e) == CASE e \in {"away", "detach"} -> {"here"}
             [] e = "here"       -> {"away"}
             [] e = "attach"     -> {"detached"}
             [] e = "disconnect" -> {"here", "detached"}
             [] e = "connect"    -> {"gone"}

To(e) == CASE e = "away"       -> "away"
           [] e = "detach"     -> "detached"
           [] e = "disconnect" -> "gone"
           [] OTHER            -> "here"

LEMMA ViewIs ==
  ASSUME NEW s \in State, NEW on \in BOOLEAN
  PROVE  LET v == [state |-> s, on |-> on] IN v \in Views /\ v.state = s /\ v.on = on
BY DEF Views

LEMMA EventFits ==
  ASSUME NEW e \in Events, NEW is \in From(e), NEW w \in Views, Matches(w, is)
  PROVE  AfterEvent(w, e) \in Views /\ Matches(AfterEvent(w, e), To(e))
<1> DEFINE v == AfterEvent(w, e)
<1>1. w.state \in State /\ {"here", "away", "offline"} \subseteq State
  BY DEF Views, State
<1>2. CASE e = "away"
  <2>1. w.state = "here"
    BY <1>2 DEF From, Matches
  <2>2. v = [state |-> "away", on |-> TRUE]
    BY <1>2, <2>1 DEF AfterEvent
  <2>3. v \in Views /\ v.state = "away" /\ v.on = TRUE
    BY <1>1, <2>2, ViewIs
  <2> HIDE DEF v
  <2>4. v \in Views /\ Matches(v, To(e))
    BY <1>2, <2>3 DEF To, Matches
  <2> QED
    BY <2>4 DEF v
<1>3. CASE e = "detach"
  <2>1. w.state = "here"
    BY <1>3 DEF From, Matches
  <2>2. v = [state |-> "away", on |-> TRUE]
    BY <1>3, <2>1 DEF AfterEvent
  <2>3. v \in Views /\ v.state = "away" /\ v.on = TRUE
    BY <1>1, <2>2, ViewIs
  <2> HIDE DEF v
  <2>4. v \in Views /\ Matches(v, To(e))
    BY <1>3, <2>3 DEF To, Matches
  <2> QED
    BY <2>4 DEF v
<1>4. CASE e = "here"
  <2>1. w.state = "away"
    BY <1>4 DEF From, Matches
  <2>2. v = [state |-> "here", on |-> TRUE]
    BY <1>4, <2>1 DEF AfterEvent
  <2>3. v \in Views /\ v.state = "here" /\ v.on = TRUE
    BY <1>1, <2>2, ViewIs
  <2> HIDE DEF v
  <2>4. v \in Views /\ Matches(v, To(e))
    BY <1>4, <2>3 DEF To, Matches
  <2> QED
    BY <2>4 DEF v
<1>5. CASE e = "attach"
  <2>1. w.state \in {"away", "offline"}
    BY <1>5 DEF From, Matches
  <2>2. v = [state |-> "here", on |-> TRUE]
    BY <1>5, <2>1 DEF AfterEvent
  <2>3. v \in Views /\ v.state = "here" /\ v.on = TRUE
    BY <1>1, <2>2, ViewIs
  <2> HIDE DEF v
  <2>4. v \in Views /\ Matches(v, To(e))
    BY <1>5, <2>3 DEF To, Matches
  <2> QED
    BY <2>4 DEF v
<1>6. CASE e = "disconnect"
  <2>1. w.state \in {"here", "away", "offline"}
    BY <1>6 DEF From, Matches
  <2>2. v = [state |-> "offline", on |-> FALSE]
    BY <1>6, <2>1 DEF AfterEvent
  <2>3. v \in Views /\ v.state = "offline" /\ v.on = FALSE
    BY <1>1, <2>2, ViewIs
  <2> HIDE DEF v
  <2>4. v \in Views /\ Matches(v, To(e))
    BY <1>6, <2>3 DEF To, Matches
  <2> QED
    BY <2>4 DEF v
<1>7. CASE e = "connect"
  <2>1. w.state \in {"none", "offline"}
    BY <1>7 DEF From, Matches
  <2>2. v = [state |-> "here", on |-> TRUE]
    BY <1>7, <2>1 DEF AfterEvent
  <2>3. v \in Views /\ v.state = "here" /\ v.on = TRUE
    BY <1>1, <2>2, ViewIs
  <2> HIDE DEF v
  <2>4. v \in Views /\ Matches(v, To(e))
    BY <1>7, <2>3 DEF To, Matches
  <2> QED
    BY <2>4 DEF v
<1> QED
  BY <1>2, <1>3, <1>4, <1>5, <1>6, <1>7 DEF Events

LEMMA PersonKeeps == LilyInv /\ PersonMoves => LilyInv'
<1> SUFFICES ASSUME LilyInv, PersonMoves PROVE LilyInv'
  OBVIOUS
<1>1. lily \in Lily /\ host \in LilyHost /\ ~lily.fault /\ manner' = manner
  BY LilyTyped DEF LilyInv, PersonMoves, MaySay
<1>2. PICK p \in People, e \in Events :
        /\ host.states[p] \in From(e)
        /\ host' = [host EXCEPT !.states[p] = To(e)]
        /\ lily' = IF host.up THEN LilySays(lily, <<[kind |-> e, who |-> p]>>) ELSE lily
  BY DEF PersonMoves, Events, From, To
<1> DEFINE l == [kind |-> e, who |-> p]
           states == [host.states EXCEPT ![p] = To(e)]
<1>3. states \in [People -> Presence] /\ host.states \in [People -> Presence]
  BY <1>1 DEF LilyHost, To, Presence
<1>4. /\ host' \in LilyHost /\ host'.up = host.up
      /\ \A q \in People : host'.states[q] = IF q = p THEN To(e) ELSE host.states[q]
  <2>1. host' = [host EXCEPT !.states = states]
    BY <1>1, <1>2 DEF LilyHost
  <2>2. \A q \in People : states[q] = IF q = p THEN To(e) ELSE host.states[q]
    BY <1>3
  <2> HIDE DEF states
  <2> QED
    BY <1>1, <1>3, <2>1, <2>2 DEF LilyHost
<1>5. CASE ~host.up
  BY <1>1, <1>2, <1>4, <1>5, HostMoves
<1>6. CASE host.up
  <2>1. l \in Line /\ l.kind = e /\ l.who = p /\ e \notin {"sync", "connected", "depermit"}
    BY LineIs DEF Events
  <2> HIDE DEF l, states
  <2>2. ASSUME NEW q \in People, NEW w \in Views, Matches(w, host.states[q])
        PROVE  AfterLine(w, l, q) \in Views /\ Matches(AfterLine(w, l, q), host'.states[q])
    <3>1. CASE q = p
      <4>1. AfterLine(w, l, q) = AfterEvent(w, e)
        BY <2>1, <3>1 DEF AfterLine
      <4> QED
        BY <1>2, <1>4, <2>2, <3>1, <4>1, EventFits
    <3>2. CASE q # p
      <4>1. AfterLine(w, l, q) = w
        BY <2>1, <3>2 DEF AfterLine
      <4> QED
        BY <1>4, <2>2, <3>2, <4>1
    <3> QED
      BY <3>1, <3>2
  <2>3. lily' = LilySays(lily, <<l>>)
    BY <1>2, <1>6 DEF l
  <2> QED
    BY <1>1, <1>4, <1>6, <2>1, <2>2, <2>3, OneTold
<1> QED
  BY <1>5, <1>6

LEMMA OthersUntold ==
  ASSUME NEW l, l.kind \in {"destroy", "depermit"}, NEW p
  PROVE  \A w : AfterLine(w, l, p) = w
BY DEF AfterLine, Events

LEMMA DestroyedKeeps == LilyInv /\ ChatDestroyed => LilyInv'
<1> SUFFICES ASSUME LilyInv, ChatDestroyed PROVE LilyInv'
  OBVIOUS
<1>1. lily \in Lily /\ host \in LilyHost /\ ~lily.fault /\ manner' = manner
  BY LilyTyped DEF LilyInv, ChatDestroyed, MaySay
<1>2. PICK k \in host.discs :
        /\ host' = [host EXCEPT !.discs = @ \ {k}, !.in = @ \ {k}]
        /\ lily' = IF host.up THEN LilySays(lily, <<[kind |-> "destroy", chat |-> k]>>) ELSE lily
  BY DEF ChatDestroyed
<1> DEFINE l == [kind |-> "destroy", chat |-> k]
           discs == host.discs \ {k}
           in == host.in \ {k}
<1>3. discs \in SUBSET Chats /\ in \in SUBSET Chats /\ k \in Chats
  BY <1>1 DEF LilyHost
<1>4. host' \in LilyHost /\ host'.up = host.up /\ host'.states = host.states
  <2>1. host' = [host EXCEPT !.discs = discs, !.in = in]
    BY <1>2
  <2> HIDE DEF discs, in
  <2> QED
    BY <1>1, <1>3, <2>1 DEF LilyHost
<1>5. CASE ~host.up
  BY <1>1, <1>2, <1>4, <1>5, HostMoves
<1>6. CASE host.up
  <2>1. l \in Line /\ l.kind = "destroy"
    BY <1>3, LineIs
  <2>2. lily' = LilySays(lily, <<l>>)
    BY <1>2, <1>6
  <2> HIDE DEF l
  <2>3. \A p \in People : \A w \in Views : Matches(w, host.states[p]) =>
           AfterLine(w, l, p) \in Views /\ Matches(AfterLine(w, l, p), host'.states[p])
    BY <1>4, <2>1, OthersUntold
  <2> QED
    BY <1>1, <1>4, <1>6, <2>1, <2>2, <2>3, OneTold
<1> QED
  BY <1>5, <1>6

LEMMA DepermittedKeeps == LilyInv /\ PeopleDepermitted => LilyInv'
<1> SUFFICES ASSUME LilyInv, PeopleDepermitted PROVE LilyInv'
  OBVIOUS
<1>1. /\ lily \in Lily /\ host \in LilyHost /\ ~lily.fault /\ manner' = manner /\ host' = host
      /\ host.up /\ "depermits" \in manner
  BY LilyTyped DEF LilyInv, PeopleDepermitted, MaySay
<1>2. PICK k \in host.in : lily' = LilySays(lily, <<[kind |-> "depermit", chat |-> k]>>)
  BY DEF PeopleDepermitted
<1> DEFINE l == [kind |-> "depermit", chat |-> k]
<1>3. l \in Line /\ l.kind = "depermit" /\ lily' = LilySays(lily, <<l>>)
  BY <1>1, <1>2, LineIs DEF LilyHost
<1> HIDE DEF l
<1>4. \A p \in People : \A w \in Views : Matches(w, host.states[p]) =>
         AfterLine(w, l, p) \in Views /\ Matches(AfterLine(w, l, p), host'.states[p])
  BY <1>1, <1>3, OthersUntold
<1> QED
  BY <1>1, <1>3, <1>4, OneTold

LEMMA SynchronizesKeeps == LilyInv /\ Synchronizes => LilyInv'
<1> SUFFICES ASSUME LilyInv, Synchronizes PROVE LilyInv'
  OBVIOUS
<1> DEFINE told == [p \in People |-> UserState(host.states[p])]
           l1 == [kind |-> "sync", states |-> told]
           l2 == [kind |-> "connected"]
           r == <<l1, l2>>
<1>1. /\ lily \in Lily /\ host \in LilyHost /\ ~lily.fault /\ manner' = manner /\ ~host.up
      /\ lily.session = "signing" /\ lily.sock /\ host' = [host EXCEPT !.up = TRUE]
      /\ lily' = LilySays(lily, r)
  BY LilyTyped DEF LilyInv, Synchronizes, MaySay
<1>2. Sound(lily, host) /\ host.up = FALSE
  BY <1>1 DEF LilyInv, Alive, LilyHost
<1>3. host' \in LilyHost /\ host'.up = TRUE /\ host'.states = host.states
  BY <1>1 DEF LilyHost
<1>4. told \in [People -> State] /\ \A p \in People : told[p] = UserState(host.states[p])
  BY <1>1 DEF LilyHost, UserState, State, Presence
<1> HIDE DEF told
<1>5. l1 \in Line /\ l2 \in Line /\ l1.kind = "sync" /\ l2.kind = "connected"
  BY <1>4, LineIs
<1> HIDE DEF l1, l2
<1>6. r \in Seq(Line) /\ Len(r) = 2 /\ r[1] = l1 /\ r[2] = l2
  BY <1>5
<1>7. DOMAIN r = 1..2 /\ r # <<>> /\ \A i \in 1..2 : i = 1 \/ i = 2
  BY <1>6, InRange
<1> HIDE DEF r
<1>8. /\ lily' \in Lily /\ lily'.mail = lily.mail \o r
      /\ lily'.session = lily.session /\ lily'.sock = lily.sock /\ lily'.block = lily.block
      /\ lily'.info = lily.info /\ lily'.told = lily.told /\ lily'.states = lily.states
      /\ lily'.online = lily.online /\ lily'.joins = lily.joins
      /\ lily'.out = lily.out /\ lily'.fault = lily.fault
  BY <1>1, <1>6, SaysIs
<1>9. lily'.mail = r /\ lily.out = <<>> /\ lily.mail = <<>> /\ lily.joins = {}
  <2>1. lily.out = <<>> /\ lily.mail = <<>> /\ lily.joins = {}
    BY <1>1, <1>2 DEF Sound, Link
  <2>2. <<>> \o r = r
    BY <1>6
  <2> QED
    BY <1>8, <2>1, <2>2
<1>10. Link(lily', TRUE)
  <2>1. \A i \in 1..2 : ~Opens(r[i]) /\ ~Within(r[i]) /\ r[i].kind # "depermit"
    BY <1>5, <1>6, <1>7 DEF Opens, Within, Inner
  <2>2. Bracketed(r) /\ ~InBlock(r)
    BY <1>7, <2>1 DEF Bracketed, InBlock
  <2>3. Greets(r)
    BY <1>5, <1>6, <1>7 DEF Greets
  <2> QED
    BY <1>1, <1>7, <1>8, <1>9, <2>1, <2>2, <2>3 DEF Link
<1>11. Asked(lily')
  <2>1. Link(lily, FALSE) /\ Asked(lily)
    BY <1>2 DEF Sound
  <2>2. Longer(lily.mail, r) /\ lily.mail \in Seq(Line)
    BY <1>1, <1>9 DEF Longer, Lily
  <2>3. \A i \in Later(lily.mail, r) : r[i].kind # "begin"
    BY <1>5, <1>6, <1>7, <1>9 DEF Later
  <2>4. /\ Free(lily.out, lily.mail, lily.block, lily.info) => Free(lily.out, r, lily.block, lily.info)
        /\ Question(lily.out, lily.mail, lily.block, lily.info) =>
             Question(lily.out, r, lily.block, lily.info)
    BY <1>6, <2>2, <2>3, LinesTold
  <2> QED
    BY <1>8, <1>9, <2>1, <2>4 DEF Asked
<1>12. ASSUME "loses" \notin manner PROVE Present(lily', host')
  <2> SUFFICES ASSUME NEW p \in People PROVE Leads(View(lily', p), lily'.mail, host'.states[p], p)
    BY <1>3 DEF Present
  <2>1. lily.states[p] = "none"
    BY <1>2, <1>12 DEF Sound, Present
  <2> DEFINE on == p \in lily.online
  <2>2. View(lily', p) = [state |-> "none", on |-> on]
    BY <1>8, <2>1 DEF View
  <2>3. on \in BOOLEAN /\ host.states[p] \in Presence
    BY <1>1 DEF LilyHost
  <2> HIDE DEF on
  <2>4. Leads([state |-> "none", on |-> on], r, host.states[p], p)
    BY <1>4, <2>3, LeadsAtFirst DEF r, l1, l2
  <2> QED
    BY <1>3, <1>9, <2>2, <2>4
<1>13. Sound(lily', host')
  BY <1>3, <1>10, <1>11, <1>12 DEF Sound
<1> QED
  BY <1>1, <1>3, <1>8, <1>13, Onward

(* What is answered. *)
AnswerTo(q) ==
  CASE q.verb \in {"FINGER", "WHERE", "INFO"} -> Answer(q, <<[kind |-> "text", cmd |-> q]>>)
    [] q.verb = "MEMBERS" -> Answer(q, <<[kind |-> "members", chats |-> host.in]>>)
    [] q.verb = "word"    -> Answer(q, <<>>)
    [] q.verb = "what"    -> IF q.of \in host.discs THEN <<[kind |-> "data", chat |-> q.of]>> ELSE <<>>
    [] q.verb = "JOIN"    -> Answer(q, IF Takes(q.of) THEN <<[kind |-> "join", chat |-> q.of]>>
                                       ELSE <<[kind |-> "text", cmd |-> q]>>)
    [] q.verb = "QUIT"    -> Answer(q, IF q.of \in host.in THEN <<[kind |-> "quit", chat |-> q.of]>>
                                       ELSE <<[kind |-> "text", cmd |-> q]>>)

LEMMA AnswerToIs ==
  ASSUME NEW q \in Command, host \in LilyHost
  PROVE  IsReply(q, AnswerTo(q))
<1>1. [kind |-> "text", cmd |-> q] \in Line /\ [kind |-> "text", cmd |-> q].kind \in Inner
  BY LineIs DEF Inner
<1>2. IsReply(q, Answer(q, <<[kind |-> "text", cmd |-> q]>>))
  BY <1>1, FullAnswer
<1>3. CASE q.verb \in {"FINGER", "WHERE", "INFO"}
  BY <1>2, <1>3 DEF AnswerTo
<1>4. CASE q.verb = "MEMBERS"
  <2> DEFINE l == [kind |-> "members", chats |-> host.in]
  <2>1. l \in Line /\ l.kind \in Inner
    BY LineIs DEF LilyHost, Inner
  <2>2. IsReply(q, Answer(q, <<l>>))
    BY <2>1, FullAnswer
  <2> QED
    BY <1>4, <2>2 DEF AnswerTo
<1>5. CASE q.verb = "word"
  BY <1>5, EmptyAnswer DEF AnswerTo
<1>6. ASSUME q.verb \in {"JOIN", "QUIT", "what"} PROVE q.of \in Chats
  BY <1>6 DEF Command
<1>7. CASE q.verb = "what"
  <2> DEFINE l == [kind |-> "data", chat |-> q.of]
  <2>1. l \in Line /\ l.kind = "data" /\ q.verb \notin Asks
    BY <1>6, <1>7, LineIs DEF Asks
  <2>2. IsReply(q, <<l>>) /\ IsReply(q, <<>>)
    BY <2>1, LoneAnswer, NoAnswer
  <2> QED
    BY <1>7, <2>2 DEF AnswerTo
<1>8. CASE q.verb = "JOIN"
  <2> DEFINE l == [kind |-> "join", chat |-> q.of]
  <2>1. l \in Line /\ l.kind \in Inner
    BY <1>6, <1>8, LineIs DEF Inner
  <2>2. IsReply(q, Answer(q, <<l>>))
    BY <2>1, FullAnswer
  <2> QED
    BY <1>2, <1>8, <2>2 DEF AnswerTo
<1>9. CASE q.verb = "QUIT"
  <2> DEFINE l == [kind |-> "quit", chat |-> q.of]
  <2>1. l \in Line /\ l.kind \in Inner
    BY <1>6, <1>9, LineIs DEF Inner
  <2>2. IsReply(q, Answer(q, <<l>>))
    BY <2>1, FullAnswer
  <2> QED
    BY <1>2, <1>9, <2>2 DEF AnswerTo
<1> QED
  BY <1>3, <1>4, <1>5, <1>7, <1>8, <1>9 DEF Command

LEMMA ArrivesKeeps == LilyInv /\ CommandArrives => LilyInv'
<1> SUFFICES ASSUME LilyInv, CommandArrives PROVE LilyInv'
  OBVIOUS
<1> DEFINE q == Head(lily.out)
           c == [lily EXCEPT !.out = Tail(@)]
           r == AnswerTo(q)
           mail == lily.mail
           next == mail \o r
<1>1. /\ lily \in Lily /\ host \in LilyHost /\ ~lily.fault /\ manner' = manner /\ host.up
      /\ lily.out # <<>> /\ lily' = LilySays(c, r)
      /\ host' = [host EXCEPT !.in = CASE q.verb = "JOIN" /\ Takes(q.of) -> @ \cup {q.of}
                                       [] q.verb = "QUIT"                -> @ \ {q.of}
                                       [] OTHER                          -> @]
  BY LilyTyped DEF LilyInv, CommandArrives, MaySay, AnswerTo
<1>2. Sound(lily, host) /\ host.up = TRUE
  BY <1>1 DEF LilyInv, Alive, LilyHost
<1>3. lily.session = "on" /\ lily.sock /\ Link(lily, TRUE)
  BY <1>1, <1>2 DEF Sound, Link
<1>4. /\ q = lily.out[1] /\ q \in Command /\ Tail(lily.out) \in Seq(Command)
      /\ mail \in Seq(Line) /\ lily.out \in Seq(Command)
  BY <1>1, TailShorter DEF Lily
<1>5. host' \in LilyHost /\ host'.up = TRUE /\ host'.states = host.states
  <2> DEFINE in == CASE q.verb = "JOIN" /\ Takes(q.of) -> host.in \cup {q.of}
                     [] q.verb = "QUIT"                -> host.in \ {q.of}
                     [] OTHER                          -> host.in
  <2>1. in \in SUBSET Chats
    BY <1>1 DEF LilyHost, Takes
  <2>2. host' = [host EXCEPT !.in = in]
    BY <1>1
  <2> HIDE DEF in
  <2> QED
    BY <1>1, <2>1, <2>2 DEF LilyHost
<1>6. IsReply(q, r)
  BY <1>1, <1>4, AnswerToIs
<1> HIDE DEF q, r
<1>7. /\ c \in Lily /\ c.out = Tail(lily.out) /\ c.mail = mail
      /\ c.session = lily.session /\ c.sock = lily.sock /\ c.block = lily.block
      /\ c.info = lily.info /\ c.told = lily.told /\ c.states = lily.states
      /\ c.online = lily.online /\ c.joins = lily.joins /\ c.fault = lily.fault
  BY <1>1, <1>4 DEF Lily
<1> HIDE DEF c
<1>8. r \in Seq(Line) /\ Bracketed(r) /\ ~InBlock(r)
  BY <1>6 DEF IsReply
<1>9. /\ lily' \in Lily /\ lily'.mail = next /\ lily'.out = Tail(lily.out)
      /\ lily'.session = lily.session /\ lily'.sock = lily.sock /\ lily'.block = lily.block
      /\ lily'.info = lily.info /\ lily'.told = lily.told /\ lily'.states = lily.states
      /\ lily'.online = lily.online /\ lily'.joins = lily.joins /\ lily'.fault = lily.fault
  <2> DEFINE d == LilySays(c, r)
  <2>1. /\ d \in Lily /\ d.mail = c.mail \o r
        /\ d.session = c.session /\ d.sock = c.sock /\ d.block = c.block /\ d.info = c.info
        /\ d.told = c.told /\ d.states = c.states /\ d.online = c.online /\ d.joins = c.joins
        /\ d.out = c.out /\ d.fault = c.fault
    BY <1>7, <1>8, SaysIs
  <2>2. lily' = d
    BY <1>1
  <2> HIDE DEF d
  <2> QED
    BY <1>7, <2>1, <2>2
<1>10. \A i \in DOMAIN r : r[i].kind \notin {"sync", "connected", "depermit"} \cup Events
  BY <1>6 DEF IsReply, Inner, Events
<1>11. Link(lily', TRUE)
  BY <1>1, <1>3, <1>8, <1>9, <1>10, LinkTold
<1> HIDE DEF mail
<1>12. /\ next \in Seq(Line) /\ Longer(mail, next) /\ Len(next) = Len(mail) + Len(r)
       /\ \A i \in Later(mail, next) : i - Len(mail) \in 1..Len(r) /\ next[i] = r[i - Len(mail)]
  BY <1>4, <1>8, JoinedLonger
<1>13. Len(mail) \in Nat /\ DOMAIN r = 1..Len(r) /\ Len(r) \in Nat /\ (r = <<>> <=> Len(r) = 0)
  BY <1>4, <1>8, InRange
<1> HIDE DEF next
<1>14. Asked(lily')
  <2>1. ASSUME NEW i \in Later(mail, next), next[i].kind = "begin"
        PROVE  i = Len(mail) + 1 /\ next[i].cmd = lily.out[1]
    <3>1. i - Len(mail) = 1 /\ next[i].cmd = q
      BY <1>6, <1>12, <1>13, <2>1 DEF IsReply
    <3> QED
      BY <1>4, <1>12, <1>13, <3>1 DEF Later
  <2>2. ASSUME lily.out[1].verb \in Asks
        PROVE  Len(mail) + 1 \in Later(mail, next) /\ next[Len(mail) + 1].kind = "begin"
    <3>1. r # <<>> /\ r[1].kind = "begin"
      BY <1>4, <1>6, <2>2 DEF IsReply
    <3>2. Len(mail) + 1 \in Later(mail, next) /\ (Len(mail) + 1) - Len(mail) = 1
      BY <1>12, <1>13, <3>1 DEF Later
    <3>3. next[Len(mail) + 1] = r[(Len(mail) + 1) - Len(mail)]
      BY <1>12, <3>2
    <3> QED
      BY <3>1, <3>2, <3>3
  <2>3. /\ Free(lily.out, mail, lily.block, lily.info) =>
             Free(Tail(lily.out), next, lily.block, lily.info)
        /\ Question(lily.out, mail, lily.block, lily.info) =>
             Question(Tail(lily.out), next, lily.block, lily.info)
    BY <1>1, <1>4, <1>12, <2>1, <2>2, Answered
  <2> QED
    BY <1>2, <1>9, <2>3 DEF Sound, Asked, mail
<1>15. ASSUME "loses" \notin manner PROVE Present(lily', host')
  <2> SUFFICES ASSUME NEW p \in People PROVE Leads(View(lily', p), next, host'.states[p], p)
    BY <1>5, <1>9 DEF Present
  <2>1. Leads(View(lily, p), mail, host.states[p], p)
    BY <1>2, <1>15 DEF Sound, Present, mail
  <2>2. View(lily', p) = View(lily, p)
    BY <1>9 DEF View
  <2>3. ASSUME NEW i \in Later(mail, next), NEW w \in Views PROVE AfterLine(w, next[i], p) = w
    <3>1. next[i].kind \notin {"sync", "connected", "depermit"} \cup Events
      BY <1>10, <1>12, <1>13
    <3> QED
      BY <3>1 DEF AfterLine
  <2>4. Leads(View(lily, p), next, host.states[p], p)
    <3> DEFINE v == View(lily, p)
               is == host.states[p]
    <3> HIDE DEF v, is
    <3>1. Leads(v, mail, is, p)
      BY <2>1 DEF v, is
    <3>2. Leads(v, next, is, p)
      BY <1>4, <1>12, <2>3, <3>1, LeadsOn
    <3> QED
      BY <3>2 DEF v, is
  <2> QED
    BY <1>5, <2>2, <2>4
<1>16. Sound(lily', host')
  BY <1>5, <1>11, <1>14, <1>15 DEF Sound
<1> QED
  BY <1>1, <1>3, <1>5, <1>9, <1>16, Onward

-----------------------------------------------------------------------------
(* The lines of the server, one by one. *)

Got(c) == [c EXCEPT !.mail = Tail(@)]

LEMMA GotIs ==
  ASSUME LilyInv, ~lily.fault, lily.mail # <<>>
  PROVE  LET c == Got(lily)
             m == lily.mail[1]
         IN  /\ lily \in Lily /\ host \in LilyHost /\ Sound(lily, host) /\ Asked(lily)
             /\ Link(lily, TRUE) /\ host.up = TRUE /\ lily.sock
             /\ lily.mail \in Seq(Line) /\ Bracketed(lily.mail) /\ m \in Line /\ m = Head(lily.mail)
             /\ m.kind \in {"sync", "connected"} => lily.session = "signing"
             /\ m.kind \notin {"sync", "connected"} => lily.session = "on"
             /\ c \in Lily /\ c.mail = Tail(lily.mail) /\ c.out = lily.out
             /\ c.session = lily.session /\ c.sock = lily.sock /\ c.block = lily.block
             /\ c.info = lily.info /\ c.told = lily.told /\ c.states = lily.states
             /\ c.online = lily.online /\ c.joins = lily.joins /\ c.fault = lily.fault
             /\ c.member = lily.member /\ c.windows = lily.windows /\ c.rooms = lily.rooms
<1> DEFINE c == Got(lily)
           m == lily.mail[1]
           rest == Tail(lily.mail)
<1>1. lily \in Lily /\ host \in LilyHost /\ lily.mail \in Seq(Line)
  BY LilyTyped DEF LilyInv, Lily
<1>2. Sound(lily, host)
  BY DEF LilyInv, Alive
<1>3. host.up = TRUE /\ Link(lily, TRUE) /\ lily.sock
  BY <1>1, <1>2 DEF Sound, Link, LilyHost
<1>4. rest \in Seq(Line) /\ m \in Line /\ m = Head(lily.mail)
  BY <1>1, RestOfMail
<1>5. 1 \in DOMAIN lily.mail
  BY <1>1, InRange
<1>6. m.kind \in {"sync", "connected"} => lily.session = "signing"
  <2>1. lily.session \in {"off", "signing", "on"}
    BY <1>1 DEF Lily
  <2> QED
    BY <1>3, <1>5, <2>1 DEF Link
<1>7. m.kind \notin {"sync", "connected"} => lily.session = "on"
  <2>1. lily.session \in {"off", "signing", "on"}
    BY <1>1 DEF Lily
  <2>2. Greets(lily.mail) => m.kind \in {"sync", "connected"}
    BY <1>1, GreetsRead
  <2> QED
    BY <1>3, <2>1, <2>2 DEF Link
<1>8. c = [lily EXCEPT !.mail = rest]
  BY DEF Got
<1> HIDE DEF c, rest, m
<1>9. /\ c \in Lily /\ c.mail = rest /\ c.out = lily.out
      /\ c.session = lily.session /\ c.sock = lily.sock /\ c.block = lily.block
      /\ c.info = lily.info /\ c.told = lily.told /\ c.states = lily.states
      /\ c.online = lily.online /\ c.joins = lily.joins /\ c.fault = lily.fault
      /\ c.member = lily.member /\ c.windows = lily.windows /\ c.rooms = lily.rooms
  BY <1>1, <1>4, <1>8 DEF Lily
<1> QED
  BY <1>1, <1>2, <1>3, <1>4, <1>6, <1>7, <1>9 DEF Sound, Link, c, m, rest

LEMMA LinkRead ==
  ASSUME NEW c \in Lily, NEW d \in Lily, Link(c, TRUE), c.mail # <<>>, d.mail = Tail(c.mail),
         d.sock = c.sock, d.session = IF c.mail[1].kind = "connected" THEN "on" ELSE c.session,
         c.session # "off",
         Opens(c.mail[1]) => d.block # {},
         d.session # "on" => d.joins = {} /\ d.out = <<>>
  PROVE  Link(d, TRUE)
<1> DEFINE mail == c.mail
           rest == Tail(mail)
<1>1. mail \in Seq(Line) /\ mail # <<>> /\ Bracketed(mail)
  BY DEF Lily, Link
<1>2. /\ rest \in Seq(Line) /\ Len(mail) \in Nat \ {0} /\ Len(rest) = Len(mail) - 1
      /\ \A i \in 1..Len(rest) : rest[i] = mail[i + 1] /\ i + 1 \in 1..Len(mail)
      /\ DOMAIN rest = 1..Len(rest) /\ DOMAIN mail = 1..Len(mail)
  BY <1>1, TailShorter, InRange
<1>3. Bracketed(rest) /\ (InBlock(rest) <=> Opens(mail[1]))
  BY <1>1, RestOfMail
<1>4. d.session = "signing" => Greets(rest)
  <2>1. d.session = "signing" => c.session = "signing" /\ mail[1].kind # "connected"
    BY DEF mail
  <2>2. c.session = "signing" => Greets(mail)
    BY DEF Link
  <2> QED
    BY <1>1, <2>1, <2>2, GreetsRead
<1>5. d.session = "on" => \A i \in DOMAIN rest : rest[i].kind \notin {"sync", "connected"}
  <2>1. CASE c.session = "on"
    BY <1>2, <2>1 DEF Link
  <2>2. CASE c.session # "on" /\ mail[1].kind = "connected"
    <3>1. Greets(mail)
      BY <2>2 DEF Link, Lily
    <3>2. \A i \in DOMAIN rest : Plain(rest[i])
      BY <1>1, <2>2, <3>1, GreetsRead
    <3> QED
      BY <3>2 DEF Plain
  <2> QED
    BY <2>1, <2>2
<1>6. \A i \in DOMAIN rest : rest[i].kind = "depermit" => "depermits" \in manner
  BY <1>2 DEF Link
<1>7. d.sock <=> d.session # "off"
  BY DEF Link
<1>8. d.mail = rest
  OBVIOUS
<1> HIDE DEF mail, rest
<1>9. InBlock(d.mail) => d.block # {}
  BY <1>3, <1>8 DEF mail
<1> QED
  BY <1>3, <1>4, <1>5, <1>6, <1>7, <1>8, <1>9 DEF Link

(* A line that is read as AfterLine has it. *)
LEMMA LineKeeps ==
  ASSUME LilyInv, ~lily.fault, lily.mail # <<>>, host' = host, manner' = manner,
         lily' \in Lily, ~lily'.fault, lily'.mail = Tail(lily.mail), lily'.sock = lily.sock,
         \/ lily'.told = lily.told
         \/ manner \cap {"overlaps", "loses"} = {} => \A t \in lily'.told : t[2] = {t[1]},
         lily'.session = IF lily.mail[1].kind = "connected" THEN "on" ELSE lily.session,
         Opens(lily.mail[1]) => lily'.block # {},
         lily'.session # "on" => lily'.joins = lily.joins /\ lily'.out = lily.out,
         Asked(lily'),
         \A p \in People : View(lily', p) = AfterLine(View(lily, p), lily.mail[1], p)
  PROVE  LilyInv'
<1>1. /\ lily \in Lily /\ host \in LilyHost /\ Sound(lily, host) /\ lily.sock
      /\ Link(lily, TRUE) /\ host.up = TRUE
      /\ lily.mail \in Seq(Line) /\ lily.session # "off"
  BY GotIs
<1>2. lily'.session # "on" => lily'.joins = {} /\ lily'.out = <<>>
  <2>1. lily'.session # "on" => lily.session # "on"
    OBVIOUS
  <2> QED
    BY <1>1, <2>1 DEF Link
<1>3. Link(lily', TRUE)
  BY <1>1, <1>2, LinkRead
<1>4. ASSUME "loses" \notin manner PROVE Present(lily', host')
  <2> SUFFICES ASSUME NEW p \in People PROVE Leads(View(lily', p), lily'.mail, host.states[p], p)
    BY <1>1 DEF Present
  <2>1. Leads(View(lily, p), lily.mail, host.states[p], p)
    BY <1>1, <1>4 DEF Sound, Present
  <2>2. Leads(AfterLine(View(lily, p), lily.mail[1], p), Tail(lily.mail), host.states[p], p)
    BY <1>1, <2>1, LeadsFrom
  <2> QED
    BY <2>2
<1>5. Sound(lily', host')
  BY <1>1, <1>3, <1>4 DEF Sound
<1> QED
  BY <1>1, <1>5, Onward

(* A line that neither begins a block nor ends one, and asks nothing. *)
LEMMA ReadAsked ==
  ASSUME NEW c \in Lily, NEW d \in Lily, c.mail # <<>>, Bracketed(c.mail),
         c.mail[1].kind \notin {"begin", "end"}, Asked(c),
         d.mail = Tail(c.mail), d.out = c.out, d.block = c.block, d.info = c.info
  PROVE  Asked(d)
<1>1. c.mail \in Seq(Line)
  BY DEF Lily
<1>2. /\ Free(c.out, c.mail, c.block, c.info) => Free(c.out, Tail(c.mail), c.block, c.info)
      /\ Question(c.out, c.mail, c.block, c.info) => Question(c.out, Tail(c.mail), c.block, c.info)
  BY <1>1, LineRead
<1> QED
  BY <1>2 DEF Asked

(* Lines that are about no person leave what there is of them. *)
LEMMA NobodyMoved ==
  ASSUME NEW c, NEW d, NEW m, m.kind \notin {"sync", "connected"} \cup Events,
         d.states = c.states, d.online = c.online
  PROVE  \A p : View(d, p) = AfterLine(View(c, p), m, p)
BY DEF View, AfterLine

LEMMA InsideBlock ==
  ASSUME LilyInv, ~lily.fault, lily.mail # <<>>, lily.mail[1].kind \in Inner \cup {"end"}
  PROVE  lily.block # {}
<1>1. Link(lily, TRUE)
  BY GotIs
<1> QED
  BY <1>1 DEF Link, InBlock, Within

LEMMA SyncKeeps ==
  ASSUME LilyInv, ~lily.fault, lily.mail # <<>>, host' = host, manner' = manner,
         lily.mail[1].kind = "sync", lily' = Synced(Got(lily), lily.mail[1].states)
  PROVE  LilyInv'
<1> DEFINE m == lily.mail[1]
           c == Got(lily)
           states == [p \in People |-> IF c.states[p] = "none" THEN m.states[p] ELSE c.states[p]]
<1>1. /\ lily \in Lily /\ Asked(lily) /\ lily.session = "signing"
      /\ Bracketed(lily.mail) /\ m \in Line
      /\ c \in Lily /\ c.mail = Tail(lily.mail) /\ c.out = lily.out
      /\ c.session = lily.session /\ c.sock = lily.sock /\ c.block = lily.block
      /\ c.info = lily.info /\ c.told = lily.told /\ c.states = lily.states
      /\ c.online = lily.online /\ c.joins = lily.joins /\ c.fault = lily.fault
  BY GotIs
<1>2. m.states \in [People -> State] /\ m.kind = "sync"
  BY <1>1, LineIs
<1>3. lily' = [c EXCEPT !.states = states, !.member = {}]
  BY DEF Synced
<1>4. /\ states \in [People -> State]
      /\ \A p \in People : states[p] = IF c.states[p] = "none" THEN m.states[p] ELSE c.states[p]
  BY <1>1, <1>2 DEF Lily
<1> HIDE DEF c, m, states
<1>5. /\ lily' \in Lily /\ lily'.mail = c.mail /\ lily'.out = c.out
      /\ lily'.session = c.session /\ lily'.sock = c.sock /\ lily'.block = c.block
      /\ lily'.info = c.info /\ lily'.told = c.told /\ lily'.states = states
      /\ lily'.online = c.online /\ lily'.joins = c.joins /\ lily'.fault = c.fault
  BY <1>1, <1>3, <1>4 DEF Lily
<1>6. Asked(lily')
  BY <1>1, <1>2, <1>5, ReadAsked DEF m
<1>7. \A p \in People : View(lily', p) = AfterLine(View(lily, p), m, p)
  <2> SUFFICES ASSUME NEW p \in People PROVE View(lily', p) = AfterLine(View(lily, p), m, p)
    OBVIOUS
  <2> DEFINE on == p \in lily.online
             s == lily.states[p]
             t == m.states[p]
  <2>1. View(lily, p) = [state |-> s, on |-> on]
    BY DEF View
  <2>2. View(lily', p) = [state |-> IF s = "none" THEN t ELSE s, on |-> on]
    BY <1>1, <1>4, <1>5 DEF View
  <2> HIDE DEF on, s
  <2>3. AfterLine([state |-> s, on |-> on], m, p) = [state |-> IF s = "none" THEN t ELSE s, on |-> on]
    BY <1>2 DEF AfterLine
  <2> QED
    BY <2>1, <2>2, <2>3
<1>8. ~Opens(m)
  BY <1>2 DEF Opens, Inner
<1> QED
  BY <1>1, <1>2, <1>5, <1>6, <1>7, <1>8, LineKeeps DEF m

LEMMA ConnectedKeeps ==
  ASSUME LilyInv, ~lily.fault, lily.mail # <<>>, host' = host, manner' = manner,
         lily.mail[1].kind = "connected", lily' = GotConnected(Got(lily))
  PROVE  LilyInv'
<1> DEFINE m == lily.mail[1]
           c == Got(lily)
           online == {p \in People : c.states[p] \in {"here", "away"}}
           joins == c.joins \cup c.windows
           e == [c EXCEPT !.session = "on", !.online = online, !.joins = joins]
           q == Cmd("MEMBERS", NoOne)
<1>1. /\ lily \in Lily /\ Asked(lily) /\ lily.session = "signing" /\ Link(lily, TRUE) /\ lily.sock
      /\ lily.mail \in Seq(Line) /\ Bracketed(lily.mail) /\ m \in Line
      /\ c \in Lily /\ c.mail = Tail(lily.mail) /\ c.out = lily.out
      /\ c.session = lily.session /\ c.sock = lily.sock /\ c.block = lily.block
      /\ c.info = lily.info /\ c.told = lily.told /\ c.states = lily.states
      /\ c.online = lily.online /\ c.joins = lily.joins /\ c.fault = lily.fault
  BY GotIs
<1>2. online \in SUBSET People /\ joins \in SUBSET Chats /\ \A p \in People : p \in online <=> c.states[p] \in {"here", "away"}
  BY <1>1 DEF Lily
<1>3. q \in Command /\ q.verb \notin Asks
  BY CmdIs DEF Asks, Dull
<1>4. lily' = Send(e, q)
  BY DEF GotConnected
<1>5. m.kind = "connected"
  OBVIOUS
<1> HIDE DEF c, m, online, joins, q
<1>6. /\ e \in Lily /\ e.mail = c.mail /\ e.out = c.out
      /\ e.session = "on" /\ e.sock = c.sock /\ e.block = c.block
      /\ e.info = c.info /\ e.told = c.told /\ e.states = c.states
      /\ e.online = online /\ e.fault = c.fault
  BY <1>1, <1>2 DEF Lily
<1> HIDE DEF e
<1>7. /\ lily' \in Lily /\ SameButOut(e, lily') /\ lily'.fault = e.fault /\ lily'.out = Append(e.out, q)
  <2> DEFINE d == Send(e, q)
  <2>1. q \in Command /\ e \in Lily /\ e.sock
    BY <1>1, <1>3, <1>6
  <2>2. d \in Lily /\ SameButOut(e, d) /\ d.fault = e.fault /\ d.out = Append(e.out, q)
    BY <2>1, SendIs
  <2>3. lily' = d
    BY <1>4
  <2> HIDE DEF d
  <2> QED
    BY <2>2, <2>3
<1>8. Asked(e)
  BY <1>1, <1>5, <1>6, ReadAsked DEF m
<1>9. Orderly => Free(e.out, e.mail, e.block, e.info)
  <2>1. SUFFICES ASSUME Orderly PROVE Free(lily.out, lily.mail, lily.block, lily.info)
    <3>1. Free(lily.out, lily.mail, lily.block, lily.info) =>
            Free(lily.out, Tail(lily.mail), lily.block, lily.info)
      BY <1>1, <1>5, LineRead DEF m
    <3> QED
      BY <1>1, <1>6, <2>1, <3>1
  <2>2. Question(lily.out, lily.mail, lily.block, lily.info)
    BY <1>1, <2>1 DEF Asked
  <2>3. lily.out = <<>> /\ Greets(lily.mail)
    BY <1>1 DEF Link
  <2>4. DOMAIN lily.out = {}
    BY <2>3
  <2>5. ~InBlock(lily.mail)
    BY <1>5 DEF InBlock, Within, Inner, m
  <2>6. \A i \in DOMAIN lily.mail : lily.mail[i].kind # "begin"
    BY <1>1, <2>3, GreetsRead
  <2> QED
    BY <2>2, <2>4, <2>5, <2>6, FreeThen
<1>10. Asked(lily')
  BY <1>3, <1>6, <1>7, <1>8, <1>9, AskedSent DEF SameButOut
<1>11. \A p \in People : View(lily', p) = AfterLine(View(lily, p), m, p)
  <2> SUFFICES ASSUME NEW p \in People PROVE View(lily', p) = AfterLine(View(lily, p), m, p)
    OBVIOUS
  <2> DEFINE on == p \in lily.online
             is == p \in online
             s == lily.states[p]
  <2>1. View(lily, p) = [state |-> s, on |-> on]
    BY DEF View
  <2>2. View(lily', p) = [state |-> s, on |-> is]
    BY <1>1, <1>6, <1>7 DEF View, SameButOut
  <2>3. is <=> s \in {"here", "away"}
    BY <1>1, <1>2
  <2>4. is \in BOOLEAN /\ (s \in {"here", "away"}) \in BOOLEAN
    OBVIOUS
  <2> DEFINE v == [state |-> s, on |-> on]
  <2>5. v.state = s
    OBVIOUS
  <2> HIDE DEF on, s, v, is
  <2>6. AfterLine(v, m, p) = [state |-> s, on |-> s \in {"here", "away"}]
    BY <1>5, <2>5, Zenon DEF AfterLine
  <2>7. is = (s \in {"here", "away"})
    BY <2>3, <2>4
  <2> QED
    BY <2>1, <2>2, <2>6, <2>7 DEF v
<1>12. ~Opens(m)
  BY <1>5 DEF Opens, Inner
<1> QED
  <2>1. /\ ~lily'.fault /\ lily'.mail = Tail(lily.mail) /\ lily'.sock = lily.sock
        /\ lily'.told = lily.told /\ lily'.session = "on"
    BY <1>1, <1>6, <1>7 DEF SameButOut
  <2> QED
    BY <1>5, <1>7, <1>10, <1>11, <1>12, <2>1, LineKeeps DEF m

LEMMA BeginKeeps ==
  ASSUME LilyInv, ~lily.fault, lily.mail # <<>>, host' = host, manner' = manner,
         lily.mail[1].kind = "begin", lily' = [Got(lily) EXCEPT !.block = {lily.mail[1].cmd}]
  PROVE  LilyInv'
<1> DEFINE m == lily.mail[1]
           c == Got(lily)
           block == {m.cmd}
<1>1. /\ lily \in Lily /\ Asked(lily) /\ lily.session = "on"
      /\ lily.mail \in Seq(Line) /\ Bracketed(lily.mail) /\ m \in Line
      /\ c \in Lily /\ c.mail = Tail(lily.mail) /\ c.out = lily.out
      /\ c.session = lily.session /\ c.sock = lily.sock
      /\ c.info = lily.info /\ c.told = lily.told /\ c.states = lily.states
      /\ c.online = lily.online /\ c.joins = lily.joins /\ c.fault = lily.fault
  BY GotIs
<1>2. block \in SUBSET Command /\ block # {} /\ m.kind = "begin"
  BY <1>1, LineIs
<1>3. lily' = [c EXCEPT !.block = block]
  OBVIOUS
<1> HIDE DEF c, block
<1>4. /\ lily' \in Lily /\ lily'.mail = c.mail /\ lily'.out = c.out
      /\ lily'.session = c.session /\ lily'.sock = c.sock /\ lily'.block = block
      /\ lily'.info = c.info /\ lily'.told = c.told /\ lily'.states = c.states
      /\ lily'.online = c.online /\ lily'.joins = c.joins /\ lily'.fault = c.fault
  BY <1>1, <1>2, <1>3 DEF Lily
<1>5. Asked(lily')
  <2>1. /\ Free(lily.out, lily.mail, lily.block, lily.info) =>
             Free(lily.out, Tail(lily.mail), {m.cmd}, lily.info)
        /\ Question(lily.out, lily.mail, lily.block, lily.info) =>
             Question(lily.out, Tail(lily.mail), {m.cmd}, lily.info)
    BY <1>1, <1>2, BeginRead
  <2> QED
    BY <1>1, <1>4, <2>1 DEF Asked, block
<1>6. \A p \in People : View(lily', p) = AfterLine(View(lily, p), m, p)
  <2>1. m.kind \notin {"sync", "connected"} \cup Events
    BY <1>2 DEF Events
  <2>2. lily'.states = lily.states /\ lily'.online = lily.online
    BY <1>1, <1>4
  <2>3. \A d : d.states = lily.states /\ d.online = lily.online =>
                 \A p : View(d, p) = AfterLine(View(lily, p), m, p)
    BY <2>1, NobodyMoved
  <2> QED
    BY <2>2, <2>3
<1> QED
  BY <1>1, <1>2, <1>4, <1>5, <1>6, LineKeeps DEF m

(* A line that leaves people, blocks and commands alone. *)
LEMMA PlainKeeps ==
  ASSUME LilyInv, ~lily.fault, lily.mail # <<>>, host' = host, manner' = manner,
         lily.mail[1].kind \notin {"sync", "connected", "begin", "end"} \cup Events,
         lily' \in Lily, lily'.mail = Tail(lily.mail), lily'.out = lily.out,
         lily'.session = lily.session, lily'.sock = lily.sock, lily'.block = lily.block,
         lily'.info = lily.info, lily'.told = lily.told, lily'.states = lily.states,
         lily'.online = lily.online, lily'.fault = lily.fault
  PROVE  LilyInv'
<1> DEFINE m == lily.mail[1]
<1>1. lily \in Lily /\ Asked(lily) /\ lily.session = "on" /\ Bracketed(lily.mail)
  BY GotIs
<1>2. Asked(lily')
  BY <1>1, ReadAsked
<1>3. Opens(m) => lily'.block # {}
  BY InsideBlock DEF Opens
<1>4. \A p \in People : View(lily', p) = AfterLine(View(lily, p), m, p)
  BY NobodyMoved
<1> QED
  BY <1>1, <1>2, <1>3, <1>4, LineKeeps

LEMMA SlcpDataKeeps ==
  ASSUME LilyInv, ~lily.fault, lily.mail # <<>>, host' = host, manner' = manner,
         lily.mail[1].kind = "data", lily' = GotWhat(Got(lily), lily.mail[1].chat)
  PROVE  LilyInv'
<1> DEFINE m == lily.mail[1]
           c == Got(lily)
           rooms == c.rooms \cup {m.chat}
           windows == c.windows \cup {m.chat}
<1>1. /\ m \in Line /\ c \in Lily /\ c.mail = Tail(lily.mail) /\ c.out = lily.out
      /\ c.session = lily.session /\ c.sock = lily.sock /\ c.block = lily.block
      /\ c.info = lily.info /\ c.told = lily.told /\ c.states = lily.states
      /\ c.online = lily.online /\ c.fault = lily.fault
  BY GotIs
<1>2. rooms \in SUBSET Chats /\ windows \in SUBSET Chats /\ m.kind = "data"
  BY <1>1, LineIs DEF Lily
<1>3. lily' = [c EXCEPT !.rooms = rooms, !.windows = windows]
  BY DEF GotWhat
<1> HIDE DEF c, rooms, windows
<1>4. /\ lily' \in Lily /\ lily'.mail = c.mail /\ lily'.out = c.out
      /\ lily'.session = c.session /\ lily'.sock = c.sock /\ lily'.block = c.block
      /\ lily'.info = c.info /\ lily'.told = c.told /\ lily'.states = c.states
      /\ lily'.online = c.online /\ lily'.fault = c.fault
  BY <1>1, <1>2, <1>3 DEF Lily
<1> QED
  BY <1>1, <1>2, <1>4, PlainKeeps DEF Events

LEMMA QuitKeeps ==
  ASSUME LilyInv, ~lily.fault, lily.mail # <<>>, host' = host, manner' = manner,
         lily.mail[1].kind = "quit", lily' = GotQuit(Got(lily), lily.mail[1].chat)
  PROVE  LilyInv'
<1> DEFINE m == lily.mail[1]
           c == Got(lily)
           rooms == c.rooms \ {m.chat}
           member == c.member \ {m.chat}
           joins == c.joins \cup {m.chat}
           e == [c EXCEPT !.member = member, !.rooms = rooms]
<1>1. /\ m \in Line /\ c \in Lily /\ c.mail = Tail(lily.mail) /\ c.out = lily.out
      /\ c.session = lily.session /\ c.sock = lily.sock /\ c.block = lily.block
      /\ c.info = lily.info /\ c.told = lily.told /\ c.states = lily.states
      /\ c.online = lily.online /\ c.fault = lily.fault
  BY GotIs
<1>2. rooms \in SUBSET Chats /\ member \in SUBSET Chats /\ m.kind = "quit"
  BY <1>1, LineIs DEF Lily
<1>3. lily' = e \/ lily' = [e EXCEPT !.joins = @ \cup {m.chat}]
  BY DEF GotQuit
<1>4. m.chat \in Chats
  BY <1>1, LineIs
<1> HIDE DEF c, rooms, member
<1>5. /\ e \in Lily /\ e.mail = c.mail /\ e.out = c.out
      /\ e.session = c.session /\ e.sock = c.sock /\ e.block = c.block
      /\ e.info = c.info /\ e.told = c.told /\ e.states = c.states
      /\ e.online = c.online /\ e.fault = c.fault
  BY <1>1, <1>2 DEF Lily
<1> HIDE DEF e
<1>6. /\ lily' \in Lily /\ lily'.mail = e.mail /\ lily'.out = e.out
      /\ lily'.session = e.session /\ lily'.sock = e.sock /\ lily'.block = e.block
      /\ lily'.info = e.info /\ lily'.told = e.told /\ lily'.states = e.states
      /\ lily'.online = e.online /\ lily'.fault = e.fault
  <2>1. CASE lily' = e
    BY <1>5, <2>1
  <2>2. CASE lily' = [e EXCEPT !.joins = @ \cup {m.chat}]
    <3> DEFINE more == e.joins \cup {m.chat}
    <3>1. more \in SUBSET Chats
      BY <1>4, <1>5 DEF Lily
    <3>2. lily' = [e EXCEPT !.joins = more]
      BY <2>2
    <3> HIDE DEF more
    <3> QED
      BY <1>5, <3>1, <3>2 DEF Lily
  <2> QED
    BY <1>3, <2>1, <2>2
<1> QED
  BY <1>1, <1>2, <1>5, <1>6, PlainKeeps DEF Events

LEMMA DestroyKeeps ==
  ASSUME LilyInv, ~lily.fault, lily.mail # <<>>, host' = host, manner' = manner,
         lily.mail[1].kind = "destroy", lily' = GotDestroy(Got(lily), lily.mail[1].chat)
  PROVE  LilyInv'
<1> DEFINE m == lily.mail[1]
           c == Got(lily)
           rooms == c.rooms \ {m.chat}
           windows == c.windows \cup {m.chat}
           joins == c.joins \cup {m.chat}
<1>1. /\ m \in Line /\ c \in Lily /\ c.mail = Tail(lily.mail) /\ c.out = lily.out
      /\ c.session = lily.session /\ c.sock = lily.sock /\ c.block = lily.block
      /\ c.info = lily.info /\ c.told = lily.told /\ c.states = lily.states
      /\ c.online = lily.online /\ c.fault = lily.fault
  BY GotIs
<1>2. rooms \in SUBSET Chats /\ windows \in SUBSET Chats /\ joins \in SUBSET Chats /\ m.kind = "destroy"
  BY <1>1, LineIs DEF Lily
<1>3. lily' = c \/ lily' = [c EXCEPT !.rooms = rooms, !.windows = windows, !.joins = joins]
  BY DEF GotDestroy
<1> HIDE DEF c, rooms, windows, joins
<1>4. /\ lily' \in Lily /\ lily'.mail = c.mail /\ lily'.out = c.out
      /\ lily'.session = c.session /\ lily'.sock = c.sock /\ lily'.block = c.block
      /\ lily'.info = c.info /\ lily'.told = c.told /\ lily'.states = c.states
      /\ lily'.online = c.online /\ lily'.fault = c.fault
  BY <1>1, <1>2, <1>3 DEF Lily
<1> QED
  BY <1>1, <1>2, <1>4, PlainKeeps DEF Events

LEMMA DepermitKeeps ==
  ASSUME LilyInv, ~lily.fault, lily.mail # <<>>, host' = host, manner' = manner,
         lily.mail[1].kind = "depermit", lily' = Fault(Got(lily))
  PROVE  LilyInv'
<1> DEFINE c == Got(lily)
<1>1. /\ host \in LilyHost /\ Link(lily, TRUE) /\ lily.sock /\ lily.mail \in Seq(Line)
      /\ c \in Lily /\ c.session = lily.session /\ c.sock = lily.sock /\ c.told = lily.told
  BY GotIs
<1>2. "depermits" \in manner
  BY <1>1, InRange DEF Link
<1> HIDE DEF c
<1>3. /\ lily' \in Lily /\ lily'.session = c.session /\ lily'.sock = c.sock /\ lily'.told = c.told
      /\ lily'.fault
  BY <1>1 DEF Fault, Lily, c
<1> QED
  BY <1>1, <1>2, <1>3, FaultOn

LEMMA JoinLineKeeps ==
  ASSUME LilyInv, ~lily.fault, lily.mail # <<>>, host' = host, manner' = manner,
         lily.mail[1].kind = "join",
         lily' = Send([Got(lily) EXCEPT !.member = @ \cup {lily.mail[1].chat}], Cmd("what", lily.mail[1].chat))
  PROVE  LilyInv'
<1> DEFINE m == lily.mail[1]
           c == Got(lily)
           member == c.member \cup {m.chat}
           e == [c EXCEPT !.member = member]
           q == Cmd("what", m.chat)
<1>1. /\ lily \in Lily /\ Asked(lily) /\ lily.sock /\ Bracketed(lily.mail) /\ m \in Line
      /\ c \in Lily /\ c.mail = Tail(lily.mail) /\ c.out = lily.out
      /\ c.session = lily.session /\ c.sock = lily.sock /\ c.block = lily.block
      /\ c.info = lily.info /\ c.told = lily.told /\ c.states = lily.states
      /\ c.online = lily.online /\ c.fault = lily.fault /\ lily.session = "on"
  BY GotIs
<1>2. m.chat \in Chats /\ m.kind = "join"
  BY <1>1, LineIs
<1>3. q \in Command /\ q.verb \notin Asks /\ q.verb \notin Dull
  BY <1>2, CmdIs DEF Asks, Dull
<1>4. member \in SUBSET Chats /\ lily' = Send(e, q)
  BY <1>1, <1>2 DEF Lily
<1> HIDE DEF c, member, q
<1>5. /\ e \in Lily /\ e.mail = c.mail /\ e.out = c.out
      /\ e.session = c.session /\ e.sock = c.sock /\ e.block = c.block
      /\ e.info = c.info /\ e.told = c.told /\ e.states = c.states
      /\ e.online = c.online /\ e.fault = c.fault
  BY <1>1, <1>4 DEF Lily
<1> HIDE DEF e
<1>6. /\ lily' \in Lily /\ SameButOut(e, lily') /\ lily'.fault = e.fault /\ lily'.out = Append(e.out, q)
  <2> DEFINE d == Send(e, q)
  <2>1. q \in Command /\ e \in Lily /\ e.sock
    BY <1>1, <1>3, <1>5
  <2>2. d \in Lily /\ SameButOut(e, d) /\ d.fault = e.fault /\ d.out = Append(e.out, q)
    BY <2>1, SendIs
  <2>3. lily' = d
    BY <1>4
  <2> HIDE DEF d
  <2> QED
    BY <2>2, <2>3
<1>7. Asked(e)
  BY <1>1, <1>2, <1>5, ReadAsked
<1>8. Asked(lily')
  BY <1>3, <1>5, <1>6, <1>7, AskedSent DEF SameButOut
<1>9. /\ lily'.mail = Tail(lily.mail) /\ lily'.session = "on" /\ lily'.sock = lily.sock
      /\ lily'.block = lily.block /\ lily'.told = lily.told /\ ~lily'.fault
      /\ lily'.states = lily.states /\ lily'.online = lily.online
  BY <1>1, <1>5, <1>6 DEF SameButOut
<1>10. lily'.block # {}
  BY <1>2, <1>9, InsideBlock DEF Inner
<1>11. \A p \in People : View(lily', p) = AfterLine(View(lily, p), m, p)
  <2>1. m.kind \notin {"sync", "connected"} \cup Events
    BY <1>2 DEF Events
  <2>2. \A d : d.states = lily.states /\ d.online = lily.online =>
                 \A p : View(d, p) = AfterLine(View(lily, p), m, p)
    BY <2>1, NobodyMoved
  <2> QED
    BY <1>9, <2>2
<1> QED
  BY <1>1, <1>2, <1>6, <1>8, <1>9, <1>10, <1>11, LineKeeps

LEMMA EventKeeps ==
  ASSUME LilyInv, ~lily.fault, lily.mail # <<>>, host' = host, manner' = manner,
         lily.mail[1].kind \in Events,
         lily' = GotPresence(Got(lily), lily.mail[1].kind, lily.mail[1].who)
  PROVE  LilyInv'
<1> DEFINE m == lily.mail[1]
           e == m.kind
           p == m.who
           c == Got(lily)
<1>1. /\ lily \in Lily /\ Asked(lily) /\ lily.sock /\ Bracketed(lily.mail) /\ m \in Line
      /\ c \in Lily /\ c.mail = Tail(lily.mail) /\ c.out = lily.out
      /\ c.session = lily.session /\ c.sock = lily.sock /\ c.block = lily.block
      /\ c.info = lily.info /\ c.told = lily.told /\ c.states = lily.states
      /\ c.online = lily.online /\ c.fault = lily.fault 
  BY GotIs
<1>s. lily.session = "on"
  <2>1. m.kind \notin {"sync", "connected"}
    BY DEF Events
  <2> QED
    BY <2>1, GotIs
<1>2. p \in People /\ e \in Events
  BY <1>1, LineIs
<1>3. e \notin {"sync", "connected", "begin", "end"} /\ ~Opens(m)
  BY <1>2 DEF Events, Opens, Inner
<1>4. ASSUME lily' \in Lily, lily'.mail = c.mail, lily'.out = c.out, lily'.session = c.session,
             lily'.sock = c.sock, lily'.block = c.block, lily'.info = c.info, lily'.told = c.told,
             lily'.fault = c.fault,
             \A q \in People : View(lily', q) = AfterLine(View(lily, q), m, q)
      PROVE  LilyInv'
  <2>1. Asked(lily')
    BY <1>1, <1>3, <1>4, ReadAsked
  <2>2. /\ ~lily'.fault /\ lily'.mail = Tail(lily.mail) /\ lily'.sock = lily.sock
        /\ lily'.told = lily.told /\ lily'.session = "on"
    BY <1>1, <1>s, <1>4
  <2> QED
    BY <1>1, <1>3, <1>4, <2>1, <2>2, LineKeeps
<1> DEFINE v == View(lily, p)
<1>5. \A q \in People : q # p => \A w : AfterLine(w, m, q) = w
  BY <1>3 DEF AfterLine
<1>6. \A w : AfterLine(w, m, p) = AfterEvent(w, e)
  BY <1>2, <1>3 DEF AfterLine
<1>7. v.state = lily.states[p]
  BY DEF View
<1> HIDE DEF v
<1>8. CASE lily.states[p] = "none" /\ e # "connect"
  <2>1. lily' = c
    BY <1>1, <1>8 DEF GotPresence
  <2>2. AfterEvent(v, e) = v
    BY <1>7, <1>8 DEF AfterEvent
  <2>3. \A q \in People : View(lily', q) = View(lily, q)
    BY <1>1, <2>1 DEF View
  <2>4. \A q \in People : View(lily', q) = AfterLine(View(lily, q), m, q)
    BY <1>5, <1>6, <2>2, <2>3 DEF v
  <2> HIDE DEF c, m
  <2> QED
    BY <1>1, <1>4, <2>1, <2>4
<1>9. CASE ~(lily.states[p] = "none" /\ e # "connect")
  <2> DEFINE new == CASE e \in {"away", "detach"} -> "away"
                      [] e \in {"here", "attach"} -> "here"
                      [] e = "disconnect"         -> "offline"
                      [] e = "connect" -> IF lily.states[p] \in {"none", "offline"} THEN "here" ELSE lily.states[p]
             states == [c.states EXCEPT ![p] = new]
             online == IF e = "disconnect" THEN c.online \ {p} ELSE c.online \cup {p}
  <2>1. lily' = [c EXCEPT !.states = states, !.online = online]
    <3>1. lily' = [c EXCEPT !.states[p] = new, !.online = online]
      BY <1>1, <1>9 DEF GotPresence
    <3> HIDE DEF new, online
    <3> QED
      BY <1>1, <3>1 DEF Lily
  <2>2. new \in State
    BY <1>1, <1>2 DEF State, Lily, Events
  <2>3. AfterEvent(v, e) = [state |-> new, on |-> e # "disconnect"]
    BY <1>7, <1>9 DEF AfterEvent
  <2> HIDE DEF new
  <2>4. /\ states \in [People -> State] /\ online \in SUBSET People
        /\ \A q \in People : states[q] = IF q = p THEN new ELSE lily.states[q]
        /\ \A q \in People : q # p => (q \in online <=> q \in lily.online)
        /\ p \in online <=> e # "disconnect"
    BY <1>1, <1>2, <2>2 DEF Lily
  <2> HIDE DEF c, states, online
  <2>5. /\ lily' \in Lily /\ lily'.mail = c.mail /\ lily'.out = c.out
        /\ lily'.session = c.session /\ lily'.sock = c.sock /\ lily'.block = c.block
        /\ lily'.info = c.info /\ lily'.told = c.told /\ lily'.fault = c.fault
        /\ lily'.states = states /\ lily'.online = online
    BY <1>1, <2>1, <2>4 DEF Lily
  <2>6. ASSUME NEW q \in People PROVE View(lily', q) = AfterLine(View(lily, q), m, q)
    <3>1. CASE q = p
      <4> DEFINE on == q \in online
                 is == e # "disconnect"
      <4>1. View(lily', q) = [state |-> states[q], on |-> on]
        BY <2>5 DEF View
      <4>2. on = is /\ states[q] = new
        BY <2>4, <3>1
      <4> HIDE DEF on
      <4>3. AfterLine(View(lily, q), m, q) = [state |-> new, on |-> is]
        BY <1>6, <2>3, <3>1 DEF v
      <4> QED
        BY <4>1, <4>2, <4>3
    <3>2. CASE q # p
      <4> DEFINE on == q \in online
                 was == q \in lily.online
      <4>1. View(lily', q) = [state |-> states[q], on |-> on] /\ View(lily, q) = [state |-> lily.states[q], on |-> was]
        BY <2>5 DEF View
      <4>2. on = was /\ states[q] = lily.states[q]
        BY <2>4, <3>2
      <4> HIDE DEF on, was
      <4>3. AfterLine(View(lily, q), m, q) = View(lily, q)
        BY <1>5, <3>2
      <4> QED
        BY <4>1, <4>2, <4>3
    <3> QED
      BY <3>1, <3>2
  <2> HIDE DEF m
  <2> QED
    BY <1>1, <1>4, <2>5, <2>6
<1> QED
  BY <1>8, <1>9

(* A set of several commands, none of which asks about anyone. *)
LEMMA OrderIs ==
  ASSUME NEW chats \in SUBSET Chats, NEW order \in SetToSeqs(chats)
  PROVE  LET r == [i \in DOMAIN order |-> Cmd("what", order[i])] IN
         r \in Seq(Command) /\ \A i \in 1..Len(r) : r[i].verb = "what"
<1> DEFINE n == Cardinality(chats)
           r == [i \in DOMAIN order |-> Cmd("what", order[i])]
<1>1. IsFiniteSet(chats)
  BY LilyAssumption, FS_Subset
<1>2. n \in Nat
  BY <1>1, FS_CardinalityType
<1>3. order \in [1..n -> chats]
  BY DEF SetToSeqs
<1>4. \A i \in 1..n : Cmd("what", order[i]) \in Command /\ Cmd("what", order[i]).verb = "what"
  BY <1>3, CmdIs
<1>5. r = [i \in 1..n |-> Cmd("what", order[i])]
  BY <1>3
<1>6. r \in [1..n -> Command]
  BY <1>4, <1>5
<1>7. \A i \in 1..n : r[i] = Cmd("what", order[i])
  BY <1>5
<1> HIDE DEF n, r
<1>8. r \in Seq(Command) /\ Len(r) = n
  BY <1>2, <1>6
<1> QED
  BY <1>4, <1>7, <1>8 DEF r

(* What is asked of the server when it tells what discussions one is in. *)
LEMMA AskedWhatIs ==
  ASSUME NEW c \in Lily, c.sock, NEW chats \in SUBSET Chats, NEW order \in SetToSeqs(chats)
  PROVE  LET d == AskedWhat(c, chats, order) IN
         /\ d \in Lily /\ SameButOut(c, d) /\ d.fault = c.fault
         /\ Asked(c) => Asked(d)
<1> DEFINE d == AskedWhat(c, chats, order)
           r == [i \in DOMAIN order |-> Cmd("what", order[i])]
           out == c.out \o r
           member == c.member \cup chats
<1>1. r \in Seq(Command) /\ \A i \in 1..Len(r) : r[i].verb = "what"
  BY OrderIs
<1>2. member \in SUBSET Chats /\ c.out \in Seq(Command)
  BY DEF Lily
<1>3. d = [c EXCEPT !.member = member, !.out = out]
  BY DEF AskedWhat
<1> HIDE DEF d, r, member
<1>4. /\ out \in Seq(Command) /\ Longer(c.out, out)
      /\ \A i \in Later(c.out, out) : out[i].verb = "what"
  <2>1. /\ out \in Seq(Command) /\ Longer(c.out, out)
        /\ \A i \in Later(c.out, out) : i - Len(c.out) \in 1..Len(r) /\ out[i] = r[i - Len(c.out)]
    BY <1>1, <1>2, JoinedLonger
  <2> QED
    BY <1>1, <2>1
<1> HIDE DEF out
<1>5. d \in Lily /\ SameButOut(c, d) /\ d.fault = c.fault /\ d.out = out
  BY <1>2, <1>3, <1>4 DEF Lily, SameButOut
<1>6. Asked(c) => Asked(d)
  <2>1. \A i \in Later(c.out, out) : out[i].verb \notin Asks /\ out[i].verb \notin Dull
    BY <1>4 DEF Asks, Dull
  <2>2. /\ Free(c.out, c.mail, c.block, c.info) => Free(out, c.mail, c.block, c.info)
        /\ Question(c.out, c.mail, c.block, c.info) => Question(out, c.mail, c.block, c.info)
    BY <1>2, <1>4, <2>1, OutGrows
  <2> QED
    BY <1>5, <2>2 DEF Asked, SameButOut
<1> QED
  BY <1>5, <1>6 DEF d

(* A line that tells nothing of a person, and whose answer is d. *)
LEMMA StillKeeps ==
  ASSUME LilyInv, ~lily.fault, lily.mail # <<>>, host' = host, manner' = manner,
         lily.mail[1].kind \in Inner \cup {"end"},
         lily' \in Lily, SameButOut(Got(lily), lily'), ~lily'.fault, Asked(lily')
  PROVE  LilyInv'
<1> DEFINE m == lily.mail[1]
           c == Got(lily)
<1>1. /\ c.mail = Tail(lily.mail) /\ c.session = lily.session /\ c.sock = lily.sock
      /\ c.block = lily.block /\ c.told = lily.told /\ c.states = lily.states
      /\ c.online = lily.online
  BY GotIs
<1>2. m.kind \notin {"sync", "connected"} \cup Events
  BY DEF Events, Inner
<1>3. lily.session = "on"
  BY <1>2, GotIs
<1>4. lily'.block # {}
  BY <1>1, InsideBlock DEF SameButOut
<1>5. \A p \in People : View(lily', p) = AfterLine(View(lily, p), m, p)
  <2>1. \A d : d.states = lily.states /\ d.online = lily.online =>
                 \A p : View(d, p) = AfterLine(View(lily, p), m, p)
    BY <1>2, NobodyMoved
  <2> QED
    BY <1>1, <2>1 DEF SameButOut
<1> QED
  BY <1>1, <1>2, <1>3, <1>4, <1>5, LineKeeps DEF SameButOut

LEMMA MembersKeeps ==
  ASSUME LilyInv, ~lily.fault, lily.mail # <<>>, host' = host, manner' = manner,
         lily.mail[1].kind = "members",
         \E order \in SetToSeqs(lily.mail[1].chats) :
           lily' = AskedWhat(Got(lily), lily.mail[1].chats, order)
  PROVE  LilyInv'
<1> DEFINE m == lily.mail[1]
           c == Got(lily)
<1> SUFFICES ASSUME NEW order \in SetToSeqs(m.chats), NEW d, d = AskedWhat(c, m.chats, order),
                    lily' = d
             PROVE  LilyInv'
  OBVIOUS
<1>1. /\ lily \in Lily /\ c \in Lily /\ c.sock /\ Asked(lily) /\ Bracketed(lily.mail) /\ m \in Line
      /\ c.mail = Tail(lily.mail) /\ c.out = lily.out /\ c.block = lily.block
      /\ c.info = lily.info /\ ~c.fault
  BY GotIs
<1>2. m.chats \in SUBSET Chats
  BY <1>1, LineIs
<1>3. Asked(c)
  BY <1>1, ReadAsked
<1>4. d \in Lily /\ SameButOut(c, d) /\ ~d.fault /\ Asked(d)
  BY <1>1, <1>2, <1>3, AskedWhatIs
<1> QED
  BY <1>4, StillKeeps DEF Inner

(* A line of a block. *)
LEMMA TextKeeps ==
  ASSUME LilyInv, ~lily.fault, lily.mail # <<>>, host' = host, manner' = manner,
         lily.mail[1].kind = "text", lily' = Text(Got(lily))
  PROVE  LilyInv'
<1> DEFINE c == Got(lily)
           q == CHOOSE q \in c.block : TRUE
           info == c.info \cup {q.of}
<1> SUFFICES ASSUME NEW d, d = Text(c), lily' = d
             PROVE  LilyInv'
  OBVIOUS
<1>1. /\ lily \in Lily /\ host \in LilyHost /\ Asked(lily) /\ Bracketed(lily.mail)
      /\ c \in Lily /\ c.mail = Tail(lily.mail) /\ c.out = lily.out /\ c.block = lily.block
      /\ c.info = lily.info /\ ~c.fault /\ c.sock /\ c.told = lily.told
  BY GotIs
<1>2. Asked(c)
  BY <1>1, ReadAsked
<1>3. c.block # {} /\ q \in c.block /\ q \in Command
  BY <1>1, InsideBlock DEF Inner, Lily
<1>4. q.verb \in Asks => q.of \in People
  BY <1>3, CmdIs
<1>5. \/ d = c /\ q.verb \notin Asks
      \/ d = [c EXCEPT !.info = info] /\ q.verb \in Asks
      \/ d = Fault(c) /\ q.verb \in Asks /\ q.verb # "FINGER" /\ c.info = {}
  BY <1>3 DEF Text, Asks
<1> HIDE DEF c, q
<1>6. /\ Free(c.out, c.mail, c.block, c.info) => q.verb \notin Asks
      /\ Question(c.out, c.mail, c.block, c.info) /\ q.verb \in Asks =>
           (q.verb # "FINGER" => c.info # {}) /\ Question(c.out, c.mail, c.block, info)
  <2>1. Free(c.out, c.mail, c.block, c.info) => q.verb \notin Asks
    BY <1>3 DEF Free, NoneAskedNow
  <2>2. c.mail \in Seq(Line)
    BY <1>1 DEF Lily
  <2>3. ASSUME Question(c.out, c.mail, c.block, c.info), q.verb \in Asks
        PROVE  (q.verb # "FINGER" => c.info # {}) /\ Question(c.out, c.mail, c.block, c.info \cup {q.of})
    BY <1>3, <2>2, <2>3, TextRead
  <2> QED
    BY <2>1, <2>3
<1>7. CASE d = c
  <2>1. SameButOut(c, c)
    BY DEF SameButOut
  <2> QED
    BY <1>1, <1>2, <1>7, <2>1, StillKeeps DEF Inner, c
<1>8. CASE d = [c EXCEPT !.info = info] /\ q.verb \in Asks
  <2>1. info \in SUBSET People
    BY <1>1, <1>4, <1>8 DEF Lily
  <2> HIDE DEF info
  <2>2. /\ d \in Lily /\ d.mail = c.mail /\ d.out = c.out /\ d.session = c.session
        /\ d.sock = c.sock /\ d.block = c.block /\ d.info = info /\ d.told = c.told
        /\ d.states = c.states /\ d.online = c.online /\ ~d.fault
    BY <1>1, <1>8, <2>1 DEF Lily
  <2>3. Asked(d)
    BY <1>2, <1>6, <1>8, <2>2 DEF Asked, info
  <2>4. lily.session = "on"
    BY GotIs
  <2>5. lily.mail[1].kind \notin {"sync", "connected"} \cup Events
    BY DEF Events
  <2>6. c.states = lily.states /\ c.online = lily.online /\ c.session = lily.session /\ c.sock = lily.sock
    BY GotIs DEF c
  <2>7. \A p \in People : View(d, p) = AfterLine(View(lily, p), lily.mail[1], p)
    BY <2>2, <2>5, <2>6, NobodyMoved
  <2> QED
    BY <1>1, <1>3, <2>2, <2>3, <2>4, <2>6, <2>7, LineKeeps
<1>9. CASE d = Fault(c) /\ q.verb \in Asks /\ q.verb # "FINGER" /\ c.info = {}
  <2>1. ~Question(c.out, c.mail, c.block, c.info) /\ ~Free(c.out, c.mail, c.block, c.info)
    BY <1>6, <1>9
  <2>2. ~Orderly /\ "whois" \in manner
    BY <1>2, <2>1 DEF Asked
  <2>3. /\ d \in Lily /\ d.told = c.told /\ d.sock = c.sock /\ d.fault
    BY <1>1, <1>9 DEF Fault, Lily
  <2> QED
    BY <1>1, <2>2, <2>3, FaultOn DEF Orderly
<1> QED
  BY <1>5, <1>7, <1>8, <1>9

(* A block has ended, and what follows is d. *)
LEMMA EndedKeeps ==
  ASSUME LilyInv, ~lily.fault, lily.mail # <<>>, host' = host, manner' = manner,
         lily.mail[1].kind = "end", NEW d \in Lily, lily' = d, ~d.fault,
         d.mail = Tail(lily.mail), d.session = lily.session, d.sock = lily.sock,
         d.states = lily.states, d.online = lily.online, Asked(d),
         \/ d.told = lily.told
         \/ manner \cap {"overlaps", "loses"} = {} => \A t \in d.told : t[2] = {t[1]}
  PROVE  LilyInv'
<1> DEFINE m == lily.mail[1]
<1>1. m.kind \notin {"sync", "connected"} \cup Events /\ ~Opens(m)
  BY DEF Events, Opens, Inner
<1>2. lily.session = "on"
  BY <1>1, GotIs
<1>3. \A p \in People : View(d, p) = AfterLine(View(lily, p), m, p)
  BY <1>1, NobodyMoved
<1> QED
  BY <1>1, <1>2, <1>3, LineKeeps

(* What the end of a block does, by cases. *)
LEMMA EndIs ==
  ASSUME NEW c \in Lily, c.block # {}
  PROVE  LET q == CHOOSE q \in c.block : TRUE
             d == End(c)
             e == [c EXCEPT !.block = {}]
         IN  /\ q \in c.block /\ q \in Command
             /\ \/ d = e /\ (c.info = {} \/ q.verb \notin Asks)
                \/ d = [Fault(c) EXCEPT !.block = {}] /\ c.info # {} /\ q.verb \in Dull
                \/ d = [Send(c, Cmd("WHERE", q.of)) EXCEPT !.block = {}] /\ c.info # {} /\ q.verb = "FINGER"
                \/ d = [Send(c, Cmd("INFO", q.of)) EXCEPT !.block = {}] /\ c.info # {} /\ q.verb = "WHERE"
                \/ d = [c EXCEPT !.block = {}, !.info = {}, !.told = {<<q.of, c.info>>}]
                   /\ c.info # {} /\ q.verb = "INFO"
<1> DEFINE q == CHOOSE q \in c.block : TRUE
           d == End(c)
           next == CASE q.verb \in {"word", "MEMBERS"} -> Fault(c)
                     [] q.verb = "FINGER" -> Send(c, Cmd("WHERE", q.of))
                     [] q.verb = "WHERE"  -> Send(c, Cmd("INFO", q.of))
                     [] q.verb = "INFO"   -> [c EXCEPT !.told = {<<q.of, c.info>>}, !.info = {}]
                     [] OTHER             -> c
           past == IF c.info = {} THEN c ELSE next
<1>1. q \in c.block /\ q \in Command
  BY DEF Lily
<1>2. d = [past EXCEPT !.block = {}]
  BY DEF End
<1> HIDE DEF q, d
<1>3. CASE c.info = {}
  BY <1>1, <1>2, <1>3 DEF d, q
<1>4. CASE c.info # {}
  <2>1. d = [next EXCEPT !.block = {}]
    BY <1>2, <1>4
  <2>2. CASE q.verb \in Dull
    <3>1. next = Fault(c)
      BY <2>2 DEF Dull
    <3> QED
      BY <1>1, <1>4, <2>1, <2>2, <3>1 DEF d, q
  <2>3. CASE q.verb = "FINGER"
    <3>1. next = Send(c, Cmd("WHERE", q.of))
      BY <2>3
    <3> QED
      BY <1>1, <1>4, <2>1, <2>3, <3>1 DEF d, q
  <2>4. CASE q.verb = "WHERE"
    <3>1. next = Send(c, Cmd("INFO", q.of))
      BY <2>4
    <3> QED
      BY <1>1, <1>4, <2>1, <2>4, <3>1 DEF d, q
  <2>5. CASE q.verb = "INFO"
    <3> DEFINE told == {<<q.of, c.info>>}
    <3>1. next = [c EXCEPT !.told = told, !.info = {}]
      BY <2>5
    <3> HIDE DEF told, next
    <3>2. [next EXCEPT !.block = {}] = [c EXCEPT !.block = {}, !.info = {}, !.told = told]
      BY <3>1 DEF Lily
    <3> QED
      BY <1>1, <1>4, <2>1, <2>5, <3>2 DEF d, q, told
  <2>6. CASE q.verb \notin Asks \cup Dull
    <3>1. next = c
      BY <2>6 DEF Asks, Dull
    <3> QED
      BY <1>1, <1>4, <2>1, <2>6, <3>1 DEF d, q
  <2> QED
    BY <2>2, <2>3, <2>4, <2>5, <2>6 DEF Asks
<1> QED
  BY <1>3, <1>4

(* The next question is sent, to the one this block was about. *)
LEMMA NextAsked ==
  ASSUME NEW c \in Lily, c.sock, NEW q \in Command, NEW v \in {"WHERE", "INFO"},
         NEW mail \in Seq(Line), mail # <<>>, mail[1].kind = "end", Bracketed(mail),
         c.mail = Tail(mail), c.info # {}, q \in c.block, q.verb \in Asks,
         Orderly => Question(c.out, mail, c.block, c.info), "whois" \in manner
  PROVE  LET d == [Send(c, Cmd(v, q.of)) EXCEPT !.block = {}] IN
         /\ d \in Lily /\ d.mail = c.mail /\ d.session = c.session /\ d.sock = c.sock
         /\ d.states = c.states /\ d.online = c.online /\ d.told = c.told /\ d.fault = c.fault
         /\ Asked(d)
<1> DEFINE a == Cmd(v, q.of)
           s == Send(c, a)
           d == [s EXCEPT !.block = {}]
<1>1. q.of \in People
  BY CmdIs
<1>2. a \in Command
  BY <1>1, CmdIs DEF Asks
<1> HIDE DEF a
<1>3. s \in Lily /\ SameButOut(c, s) /\ s.fault = c.fault /\ s.out = Append(c.out, a)
  BY <1>2, SendIs
<1> HIDE DEF s
<1>4. /\ d \in Lily /\ d.mail = s.mail /\ d.session = s.session /\ d.sock = s.sock
      /\ d.states = s.states /\ d.online = s.online /\ d.told = s.told /\ d.fault = s.fault
      /\ d.block = {} /\ d.out = s.out /\ d.info = s.info
  BY <1>3 DEF Lily
<1> HIDE DEF d
<1>5. ASSUME Orderly PROVE Question(Append(c.out, a), Tail(mail), {}, c.info)
  <2>1. PICK p \in People :
          /\ c.info = {p} /\ q = Cmd(q.verb, p)
          /\ Free(c.out, Tail(mail), {}, {}) /\ NoneDull(c.out, Tail(mail), {})
    BY <1>5, EndWith
  <2>2. q.of = p
    BY <2>1, CmdIs
  <2>3. c.out \in Seq(Command)
    BY DEF Lily
  <2>4. Question(Append(c.out, Cmd(v, p)), Tail(mail), {}, {p})
    BY <2>1, <2>3, AskedOn
  <2> QED
    BY <2>1, <2>2, <2>4 DEF a
<1>6. Asked(d)
  BY <1>3, <1>4, <1>5 DEF Asked, SameButOut
<1> QED
  BY <1>3, <1>4, <1>6 DEF SameButOut, d, s, a

LEMMA EndKeeps ==
  ASSUME LilyInv, ~lily.fault, lily.mail # <<>>, host' = host, manner' = manner,
         lily.mail[1].kind = "end", lily' = End(Got(lily))
  PROVE  LilyInv'
<1> DEFINE c == Got(lily)
           q == CHOOSE q \in c.block : TRUE
           e == [c EXCEPT !.block = {}]
           mail == lily.mail
<1> SUFFICES ASSUME NEW d, d = End(c), lily' = d
             PROVE  LilyInv'
  OBVIOUS
<1>1. /\ lily \in Lily /\ host \in LilyHost /\ Asked(lily) /\ mail \in Seq(Line) /\ Bracketed(mail)
      /\ c \in Lily /\ c.mail = Tail(mail) /\ c.out = lily.out /\ c.block = lily.block
      /\ c.info = lily.info /\ ~c.fault /\ c.sock /\ lily.sock /\ c.told = lily.told
      /\ c.states = lily.states /\ c.online = lily.online /\ c.session = lily.session
  BY GotIs
<1>2. c.block # {}
  BY <1>1, InsideBlock DEF Inner
<1>3. /\ q \in c.block /\ q \in Command
      /\ \/ d = e /\ (c.info = {} \/ q.verb \notin Asks)
         \/ d = [Fault(c) EXCEPT !.block = {}] /\ c.info # {} /\ q.verb \in Dull
         \/ d = [Send(c, Cmd("WHERE", q.of)) EXCEPT !.block = {}] /\ c.info # {} /\ q.verb = "FINGER"
         \/ d = [Send(c, Cmd("INFO", q.of)) EXCEPT !.block = {}] /\ c.info # {} /\ q.verb = "WHERE"
         \/ d = [c EXCEPT !.block = {}, !.info = {}, !.told = {<<q.of, c.info>>}]
            /\ c.info # {} /\ q.verb = "INFO"
  BY <1>1, <1>2, EndIs
<1>4. /\ Orderly => Question(c.out, mail, c.block, c.info)
      /\ "whois" \notin manner => Free(c.out, mail, c.block, c.info)
      /\ c.info # {} => "whois" \in manner
  BY <1>1 DEF Asked, Free
<1> HIDE DEF c, q, mail
<1>m. mail # <<>> /\ mail[1].kind = "end"
  BY DEF mail
<1>5. CASE d = e /\ (c.info = {} \/ q.verb \notin Asks)
  <2>1. /\ d \in Lily /\ d.mail = c.mail /\ d.out = c.out /\ d.session = c.session /\ d.sock = c.sock
        /\ d.states = c.states /\ d.online = c.online /\ d.told = c.told /\ ~d.fault
        /\ d.block = {} /\ d.info = c.info
    BY <1>1, <1>5 DEF Lily
  <2>2. Orderly => Question(c.out, Tail(mail), {}, c.info)
    BY <1>1, <1>3, <1>4, <1>5, <1>m, EndWithout
  <2>3. "whois" \notin manner => Free(c.out, Tail(mail), {}, c.info)
    BY <1>1, <1>4, <1>m, EndRead
  <2>4. Asked(d)
    BY <1>1, <2>1, <2>2, <2>3 DEF Asked
  <2> QED
    BY <1>1, <2>1, <2>4, EndedKeeps DEF mail
<1>6. CASE d = [Fault(c) EXCEPT !.block = {}] /\ c.info # {} /\ q.verb \in Dull
  <2>1. ~Orderly
    BY <1>1, <1>3, <1>4, <1>6, <1>m, EndWith
  <2>2. "whois" \in manner
    BY <1>4, <1>6
  <2> DEFINE f == Fault(c)
  <2>3. f \in Lily /\ f.fault /\ f.told = c.told /\ f.sock = c.sock
    BY <1>1 DEF Fault, Lily
  <2> HIDE DEF f
  <2>4. d \in Lily /\ d.fault /\ d.told = f.told /\ d.sock = f.sock
    BY <1>6, <2>3 DEF f, Lily
  <2> QED
    BY <1>1, <2>1, <2>2, <2>3, <2>4, FaultOn DEF Orderly
<1>7. ASSUME NEW v \in {"WHERE", "INFO"}, d = [Send(c, Cmd(v, q.of)) EXCEPT !.block = {}],
             c.info # {}, q.verb \in Asks
      PROVE  LilyInv'
  <2> DEFINE s == [Send(c, Cmd(v, q.of)) EXCEPT !.block = {}]
  <2>e. c.sock /\ c.mail = Tail(mail) /\ "whois" \in manner
    BY <1>1, <1>4, <1>7
  <2>f. /\ s \in Lily /\ s.mail = c.mail /\ s.session = c.session /\ s.sock = c.sock
        /\ s.states = c.states /\ s.online = c.online /\ s.told = c.told /\ s.fault = c.fault
        /\ Asked(s)
    <3>1. c.info # {} /\ q.verb \in Asks
      BY <1>7
    <3>2. c \in Lily /\ mail \in Seq(Line) /\ Bracketed(mail)
      BY <1>1
    <3>3. q \in c.block /\ q \in Command
      BY <1>3
    <3>4. Orderly => Question(c.out, mail, c.block, c.info)
      BY <1>4
    <3> QED
      BY <1>m, <2>e, <3>1, <3>2, <3>3, <3>4, NextAsked
  <2> HIDE DEF s
  <2>1. /\ d \in Lily /\ d.mail = c.mail /\ d.session = c.session /\ d.sock = c.sock
        /\ d.states = c.states /\ d.online = c.online /\ d.told = c.told /\ d.fault = c.fault
        /\ Asked(d)
    BY <1>7, <2>f DEF s
  <2> QED
    BY <1>1, <2>1, EndedKeeps DEF mail
<1>8. CASE d = [c EXCEPT !.block = {}, !.info = {}, !.told = {<<q.of, c.info>>}]
           /\ c.info # {} /\ q.verb = "INFO"
  <2> DEFINE told == {<<q.of, c.info>>}
  <2>1. q.of \in People /\ q.verb \in Asks
    BY <1>3, <1>8, CmdIs DEF Asks
  <2>2. told \in SUBSET (People \X SUBSET People)
    BY <1>1, <2>1 DEF Lily
  <2>3. ASSUME Orderly
        PROVE  Question(c.out, Tail(mail), {}, {}) /\ \A t \in told : t[2] = {t[1]}
    <3>1. PICK p \in People :
            /\ c.info = {p} /\ q = Cmd(q.verb, p)
            /\ Free(c.out, Tail(mail), {}, {}) /\ NoneDull(c.out, Tail(mail), {})
      BY <1>1, <1>3, <1>4, <1>8, <1>m, <2>1, <2>3, EndWith
    <3>2. q.of = p
      BY <2>1, <3>1, CmdIs
    <3> QED
      BY <3>1, <3>2 DEF Question
  <2>4. manner \cap {"overlaps", "loses"} = {} => Orderly
    BY DEF Orderly
  <2> HIDE DEF told
  <2>5. /\ d \in Lily /\ d.mail = c.mail /\ d.out = c.out /\ d.session = c.session /\ d.sock = c.sock
        /\ d.states = c.states /\ d.online = c.online /\ ~d.fault
        /\ d.block = {} /\ d.info = {} /\ d.told = told
    BY <1>1, <1>8, <2>2 DEF Lily, told
  <2>6. Asked(d)
    BY <1>1, <1>4, <1>8, <2>3, <2>5 DEF Asked
  <2> QED
    BY <1>1, <2>3, <2>4, <2>5, <2>6, EndedKeeps DEF mail
<1> QED
  BY <1>3, <1>5, <1>6, <1>7, <1>8 DEF Asks

LEMMA ReceiveKeeps == LilyInv /\ LilyReceive => LilyInv'
<1> SUFFICES ASSUME LilyInv, LilyReceive PROVE LilyInv'
  OBVIOUS
<1> DEFINE m == lily.mail[1]
           c == Got(lily)
<1>1. ~lily.fault /\ lily.mail # <<>> /\ host' = host /\ manner' = manner
  BY DEF LilyReceive, MayCommand
<1>2. m \in Line /\ m = Head(lily.mail)
  BY <1>1, GotIs
<1>3. IF m.kind = "members"
      THEN \E order \in SetToSeqs(m.chats) : lily' = AskedWhat(c, m.chats, order)
      ELSE lily' = CASE m.kind = "sync"      -> Synced(c, m.states)
                     [] m.kind = "connected" -> GotConnected(c)
                     [] m.kind = "begin"     -> [c EXCEPT !.block = {m.cmd}]
                     [] m.kind = "text"      -> Text(c)
                     [] m.kind = "end"       -> End(c)
                     [] m.kind = "data"      -> GotWhat(c, m.chat)
                     [] m.kind = "join"      -> Send([c EXCEPT !.member = @ \cup {m.chat}],
                                                     Cmd("what", m.chat))
                     [] m.kind = "quit"      -> GotQuit(c, m.chat)
                     [] m.kind = "destroy"   -> GotDestroy(c, m.chat)
                     [] m.kind = "depermit"  -> Fault(c)
                     [] OTHER                -> GotPresence(c, m.kind, m.who)
  BY <1>2, Zenon DEF LilyReceive, Got
<1>4. m.kind \in {"sync", "connected", "begin", "end", "data", "destroy", "depermit"}
                   \cup Inner \cup Events
  BY <1>2, LineIs
<1>5. CASE m.kind = "members"
  BY <1>1, <1>3, <1>5, MembersKeeps
<1>6. CASE m.kind = "sync"
  BY <1>1, <1>3, <1>6, SyncKeeps
<1>7. CASE m.kind = "connected"
  BY <1>1, <1>3, <1>7, ConnectedKeeps
<1>8. CASE m.kind = "begin"
  BY <1>1, <1>3, <1>8, BeginKeeps
<1>9. CASE m.kind = "text"
  BY <1>1, <1>3, <1>9, TextKeeps
<1>10. CASE m.kind = "end"
  BY <1>1, <1>3, <1>10, EndKeeps
<1>11. CASE m.kind = "data"
  BY <1>1, <1>3, <1>11, SlcpDataKeeps
<1>12. CASE m.kind = "join"
  BY <1>1, <1>3, <1>12, JoinLineKeeps
<1>13. CASE m.kind = "quit"
  BY <1>1, <1>3, <1>13, QuitKeeps
<1>14. CASE m.kind = "destroy"
  BY <1>1, <1>3, <1>14, DestroyKeeps
<1>15. CASE m.kind = "depermit"
  BY <1>1, <1>3, <1>15, DepermitKeeps
<1>16. CASE m.kind \in Events
  <2>1. lily' = GotPresence(c, m.kind, m.who)
    BY <1>3, <1>16 DEF Events
  <2> QED
    BY <1>1, <1>16, <2>1, EventKeeps
<1> QED
  BY <1>4, <1>5, <1>6, <1>7, <1>8, <1>9, <1>10, <1>11, <1>12, <1>13, <1>14, <1>15, <1>16 DEF Inner

-----------------------------------------------------------------------------
LEMMA LilyBegins == LilyInit => LilyInv
<1> SUFFICES ASSUME LilyInit PROVE LilyInv
  OBVIOUS
<1> DEFINE none == <<>>
           states == [p \in People |-> "none"]
<1>1. /\ none \in Seq(Command) /\ none \in Seq(Line)
      /\ states \in [People -> State] /\ \A p \in People : states[p] = "none"
  BY DEF State
<1>2. lily = [session |-> "off", sock |-> FALSE, block |-> {}, info |-> {}, told |-> {},
              states |-> states, online |-> {}, member |-> {},
              rooms |-> {}, windows |-> {}, joins |-> {}, out |-> none, mail |-> none,
              fault |-> FALSE]
  BY DEF LilyInit
<1> HIDE DEF none, states
<1>3. /\ lily \in Lily /\ lily.session = "off" /\ ~lily.sock /\ lily.block = {} /\ lily.info = {}
      /\ lily.told = {} /\ lily.states = states /\ lily.joins = {} /\ lily.out = none
      /\ lily.mail = none /\ ~lily.fault
  BY <1>1, <1>2 DEF Lily
<1>4. host \in LilyHost /\ host.up = FALSE
  <2> DEFINE here == [p \in People |-> "here"]
  <2>1. here \in [People -> Presence]
    BY DEF Presence
  <2>2. host = [up |-> FALSE, in |-> {}, discs |-> Chats, states |-> here]
    BY DEF LilyInit
  <2> HIDE DEF here
  <2> QED
    BY <2>1, <2>2 DEF LilyHost
<1>5. manner \subseteq Manner
  BY LilyAssumption DEF LilyInit
<1>6. LilyTypeOK
  BY <1>3, <1>4, <1>5, LilyTyped
<1>7. Link(lily, FALSE)
  <2>1. lily.out = <<>> /\ lily.mail = <<>>
    BY <1>3 DEF none
  <2> QED
    BY <1>3, <2>1, LinkIdle
<1>8. Free(lily.out, lily.mail, lily.block, lily.info)
  <2>1. DOMAIN none = {}
    BY DEF none
  <2> QED
    BY <1>3, <2>1 DEF Free, NoneAskedOut, NoneAskedMail, NoneAskedNow
<1>9. Asked(lily)
  BY <1>8 DEF Asked, Question
<1>10. Present(lily, host)
  BY <1>1, <1>3, <1>4 DEF Present
<1>11. Sound(lily, host)
  BY <1>4, <1>7, <1>9, <1>10 DEF Sound
<1> QED
  BY <1>3, <1>6, <1>11 DEF LilyInv, InfoIsHis, NoLilyFault

LEMMA LilySteps == LilyInv /\ LilyNext => LilyInv'
BY SlcpConnectKeeps, SlcpDisconnectKeeps, SendWordKeeps, PreselectKeeps, BreaksKeeps, SlcpPollErrorKeeps,
   GetInfoKeeps, JoinKeeps, CloseKeeps, SynchronizesKeeps, ArrivesKeeps, PersonKeeps,
   DestroyedKeeps, DepermittedKeeps, ReceiveKeeps DEF LilyNext

LEMMA LilyRests == LilyInv /\ UNCHANGED lilyVars => LilyInv'
<1> SUFFICES ASSUME LilyInv, lily' = lily, host' = host, manner' = manner PROVE LilyInv'
  BY DEF lilyVars
<1>1. Sound(lily, host) => Sound(lily, host)'
  BY DEF Sound, Link, Asked, Orderly, Present
<1> QED
  BY <1>1 DEF LilyInv, LilyTypeOK, InfoIsHis, NoLilyFault, Alive

LEMMA LilyAre == LilyInv => LilyTypeOK /\ InfoIsHis /\ LilyPresence /\ NoLilyFault
<1> SUFFICES ASSUME LilyInv PROVE LilyPresence
  BY DEF LilyInv
<1> SUFFICES ASSUME LilyQuiet, "loses" \notin manner, NEW p \in People
             PROVE  LET is == host.states[p]
                    IN  /\ is \in {"here", "away"} => lily.states[p] = is /\ p \in lily.online
                        /\ is = "detached" => lily.states[p] \in {"away", "offline"}
                        /\ is = "gone" => lily.states[p] \in {"none", "offline"} /\ p \notin lily.online
  BY DEF LilyPresence
<1> DEFINE is == host.states[p]
           on == p \in lily.online
<1>1. lily \in Lily /\ lily.session = "on" /\ lily.mail = <<>> /\ Sound(lily, host)
  BY LilyTyped DEF LilyQuiet, LilyInv, Alive
<1>2. Leads(View(lily, p), <<>>, is, p)
  BY <1>1 DEF Sound, Link, Present
<1>3. View(lily, p) = [state |-> lily.states[p], on |-> on]
  BY DEF View
<1>4. lily.states[p] \in State /\ on \in BOOLEAN
  BY <1>1 DEF Lily
<1> HIDE DEF is, on
<1>5. View(lily, p) \in Views /\ View(lily, p).state = lily.states[p] /\ View(lily, p).on = on
  BY <1>3, <1>4 DEF Views
<1>6. Matches(View(lily, p), is)
  BY <1>2, <1>5, LeadsNothing
<1> QED
  BY <1>5, <1>6 DEF Matches, is, on

-----------------------------------------------------------------------------
(* SLCP's rooms.  Of each discussion, LilyRoomsInv says in what order what is said of it
   is under way, and that one is in it at the server just if its room is there, or is
   asked for or told of in what is under way, and one is not told later that it is left. *)

(* The lines by which one is told to be in a discussion, by which its room is
   joined, and by which one is told that it is left or gone. *)
Enters(k) == {l \in Line : \/ l.kind = "members" /\ k \in l.chats
                           \/ l.kind = "join" /\ l.chat = k}
Admits(k)  == {l \in Line : l.kind = "data" /\ l.chat = k}
Leaves(k) == {l \in Line : l.kind = "quit" /\ l.chat = k}
Gone(k)   == {l \in Line : l.kind = "destroy" /\ l.chat = k}
Reports(k)  == Enters(k) \cup Admits(k)
Syncs     == {l \in Line : l.kind = "sync"}

(* The commands by which the room of a discussion is asked for. *)
Wants(k)  == {Cmd("what", k), Cmd("MEMBERS", NoOne)}

(* What is under way, and what that leaves to say of a discussion. *)
OrderOf(c, k) ==
  /\ Apart(c.out, {Cmd("JOIN", k)}, {Cmd("QUIT", k)})
  /\ Apart(c.mail, Reports(k), Leaves(k))
  /\ Apart(c.mail, Gone(k), Admits(k))
  /\ Among(c.out, {Cmd("QUIT", k)}) => ~Among(c.out, Wants(k)) /\ ~Among(c.mail, Reports(k))
  /\ c.session # "on" => ~Among(c.mail, Reports(k) \cup Leaves(k))

RoomOf(c, h, k) ==
  /\ k \in h.in => k \in h.discs
  /\ Among(c.mail, Gone(k)) => k \notin h.discs
  /\ k \notin h.discs => Among(c.mail, Gone(k)) \/ (k \notin c.rooms /\ ~Among(c.mail, Admits(k)))
  /\ k \in h.discs \ h.in =>
       /\ ~Among(c.out, {Cmd("what", k)}) /\ ~Among(c.mail, Reports(k))
       /\ k \in c.rooms => Among(c.mail, Leaves(k))
  /\ c.session # "on" => k \notin c.rooms
  /\ c.session = "on" /\ k \in h.in =>
       \/ Among(c.out, Wants(k)) \/ Among(c.mail, Reports(k))
       \/ k \in c.rooms /\ ~Among(c.mail, Leaves(k))

MemberOf(c, h, k) ==
  /\ k \in h.discs
  /\ c.session = "signing" /\ h.up => Among(c.mail, Syncs) \/ k \notin c.member
  /\ c.session = "on" /\ k \in h.in =>
       \/ Among(c.out, {Cmd("MEMBERS", NoOne)}) \/ Among(c.mail, Enters(k))
       \/ k \in c.member /\ ~Among(c.mail, Leaves(k))
  /\ c.session = "on" /\ k \notin h.in => k \notin c.member \/ Among(c.mail, Leaves(k))

ChatOf(c, h, k) ==
  /\ OrderOf(c, k) /\ RoomOf(c, h, k)
  /\ "destroys" \notin manner => MemberOf(c, h, k)

LilyRoomsInv ==
  "hasty" \notin manner /\ Alive(lily) => \A k \in Chats : ChatOf(lily, host, k)

-----------------------------------------------------------------------------
(* The lines of an answer. *)
Unbracketed(X) == \A l \in X : l.kind \notin {"begin", "end"}

LEMMA AmongAnswer ==
  ASSUME NEW q \in Command, NEW lines \in Seq(Line)
  PROVE  /\ \A X : Unbracketed(X) => (Among(Answer(q, lines), X) <=> Among(lines, X))
         /\ \A X, Y : Unbracketed(X) /\ Unbracketed(Y) /\ Apart(lines, Y, X) => Apart(Answer(q, lines), Y, X)
<1> DEFINE b == [kind |-> "begin", cmd |-> q]
           e == [kind |-> "end", cmd |-> q]
           bs == <<b>>
           es == <<e>>
           m == bs \o lines
<1>1. Answer(q, lines) = m \o es
  BY DEF Answer
<1>2. b \in Line /\ e \in Line /\ b.kind = "begin" /\ e.kind = "end"
  BY LineIs
<1>3. \A X : Unbracketed(X) => b \notin X /\ e \notin X
  BY <1>2 DEF Unbracketed
<1>4. /\ \A X : (Among(bs, X) <=> b \in X) /\ (Among(es, X) <=> e \in X)
      /\ \A X, Y : Apart(bs, Y, X) /\ Apart(es, Y, X)
  BY AmongOne
<1>5. bs \in Seq(Line) /\ es \in Seq(Line)
  BY <1>2
<1> HIDE DEF b, e, bs, es
<1>6. m \in Seq(Line)
  BY <1>5
<1>7. /\ \A X : Among(m, X) <=> Among(bs, X) \/ Among(lines, X)
      /\ \A X, Y : Apart(bs, Y, X) /\ Apart(lines, Y, X) /\ (Among(lines, X) => ~Among(bs, Y)) => Apart(m, Y, X)
  BY <1>5, AmongJoined
<1> HIDE DEF m
<1>8. /\ \A X : Among(m \o es, X) <=> Among(m, X) \/ Among(es, X)
      /\ \A X, Y : Apart(m, Y, X) /\ Apart(es, Y, X) /\ (Among(es, X) => ~Among(m, Y)) => Apart(m \o es, Y, X)
  BY <1>5, <1>6, AmongJoined
<1>9. \A X : Unbracketed(X) => (Among(m \o es, X) <=> Among(lines, X))
  BY <1>3, <1>4, <1>7, <1>8
<1>10. ASSUME NEW X, NEW Y, Unbracketed(X), Unbracketed(Y), Apart(lines, Y, X)
       PROVE  Apart(m \o es, Y, X)
  BY <1>3, <1>4, <1>7, <1>8, <1>10
<1> QED
  BY <1>1, <1>9, <1>10

(* What the answer to a command has of discussion k. *)
TellsOf(r, q, h, k) ==
  /\ Among(r, Enters(k)) <=> \/ q.verb = "MEMBERS" /\ k \in h.in
                             \/ q.verb = "JOIN" /\ q.of = k /\ Takes(k)
  /\ Among(r, Admits(k)) <=> q.verb = "what" /\ q.of = k /\ k \in h.discs
  /\ Among(r, Leaves(k)) <=> q.verb = "QUIT" /\ q.of = k /\ k \in h.in
  /\ ~Among(r, Gone(k)) /\ ~Among(r, Syncs)
  /\ Apart(r, Reports(k), Leaves(k)) /\ Apart(r, Gone(k), Admits(k))

LEMMA LoudSets ==
  \A k : /\ Unbracketed(Enters(k)) /\ Unbracketed(Admits(k)) /\ Unbracketed(Reports(k))
         /\ Unbracketed(Leaves(k)) /\ Unbracketed(Gone(k)) /\ Unbracketed(Syncs)
BY DEF Unbracketed, Enters, Admits, Reports, Leaves, Gone, Syncs

(* What a line is for a discussion. *)
LEMMA LineOf ==
  ASSUME NEW l \in Line, NEW k \in Chats
  PROVE  /\ l \in Enters(k) <=> (l.kind = "members" /\ k \in l.chats) \/ (l.kind = "join" /\ l.chat = k)
         /\ l \in Admits(k) <=> l.kind = "data" /\ l.chat = k
         /\ l \in Reports(k) <=> l \in Enters(k) \/ l \in Admits(k)
         /\ l \in Leaves(k) <=> l.kind = "quit" /\ l.chat = k
         /\ l \in Gone(k) <=> l.kind = "destroy" /\ l.chat = k
         /\ l \in Syncs <=> l.kind = "sync"
BY DEF Enters, Admits, Reports, Leaves, Gone, Syncs

(* Lines that say nothing of discussions. *)
Silent(r) ==
  /\ \A k \in Chats : /\ ~Among(r, Enters(k)) /\ ~Among(r, Admits(k))
                      /\ ~Among(r, Leaves(k)) /\ ~Among(r, Gone(k))
                      /\ Apart(r, Reports(k), Leaves(k)) /\ Apart(r, Gone(k), Admits(k))
  /\ ~Among(r, Syncs)

LEMMA QuietLine ==
  ASSUME NEW l \in Line, l.kind \notin {"members", "join", "data", "quit", "destroy", "sync"}
  PROVE  /\ Silent(<<l>>)
         /\ \A k \in Chats : /\ l \notin Enters(k) /\ l \notin Admits(k) /\ l \notin Leaves(k)
                             /\ l \notin Gone(k) /\ l \notin Syncs
<1>1. \A X : Among(<<l>>, X) <=> l \in X
  BY AmongOne
<1>2. \A X, Y : Apart(<<l>>, Y, X)
  BY AmongOne
<1>3. \A k \in Chats : /\ l \notin Enters(k) /\ l \notin Admits(k) /\ l \notin Leaves(k)
                       /\ l \notin Gone(k) /\ l \notin Syncs
  BY LineOf
<1>4. l \notin Syncs
  BY DEF Syncs
<1> DEFINE r == <<l>>
<1>5. /\ \A X : Among(r, X) <=> l \in X
      /\ \A X, Y : Apart(r, Y, X)
  BY <1>1, <1>2
<1> HIDE DEF r
<1>6. Silent(r)
  BY <1>3, <1>4, <1>5 DEF Silent
<1> QED
  BY <1>3, <1>6 DEF r

LEMMA SilentAnswer ==
  ASSUME NEW q \in Command, NEW lines \in Seq(Line), Silent(lines)
  PROVE  Silent(Answer(q, lines))
<1> DEFINE r == Answer(q, lines)
<1>1. /\ \A X : Unbracketed(X) => (Among(r, X) <=> Among(lines, X))
      /\ \A X, Y : Unbracketed(X) /\ Unbracketed(Y) /\ Apart(lines, Y, X) => Apart(r, Y, X)
  BY AmongAnswer
<1> HIDE DEF r
<1>2. Silent(r)
  <2>1. ~Among(r, Syncs)
    BY <1>1, LoudSets DEF Silent
  <2>2. ASSUME NEW k \in Chats
        PROVE  /\ ~Among(r, Enters(k)) /\ ~Among(r, Admits(k))
               /\ ~Among(r, Leaves(k)) /\ ~Among(r, Gone(k))
               /\ Apart(r, Reports(k), Leaves(k)) /\ Apart(r, Gone(k), Admits(k))
    BY <1>1, LoudSets DEF Silent
  <2> QED
    BY <2>1, <2>2 DEF Silent
<1> QED
  BY <1>2 DEF r

LEMMA NoLines == Silent(<<>>)
<1> DEFINE r == <<>>
<1>1. /\ \A X : ~Among(r, X)
      /\ \A X, Y : Apart(r, Y, X)
  BY AmongNone
<1> HIDE DEF r
<1>2. Silent(r)
  BY <1>1 DEF Silent
<1> QED
  BY <1>2 DEF r

LEMMA SilentTells ==
  ASSUME NEW r, NEW q \in Command, NEW h, NEW k \in Chats, Silent(r),
         ~(q.verb = "MEMBERS" /\ k \in h.in), ~(q.verb = "JOIN" /\ q.of = k /\ Takes(k)),
         ~(q.verb = "what" /\ q.of = k /\ k \in h.discs), ~(q.verb = "QUIT" /\ q.of = k /\ k \in h.in)
  PROVE  TellsOf(r, q, h, k)
BY DEF Silent, TellsOf

LEMMA LineTells ==
  ASSUME NEW l \in Line, NEW q \in Command, NEW r, NEW k \in Chats, r = Answer(q, <<l>>) \/ r = <<l>>,
         l.kind \notin {"sync", "destroy"},
         l \in Enters(k) <=> \/ q.verb = "MEMBERS" /\ k \in host.in
                             \/ q.verb = "JOIN" /\ q.of = k /\ Takes(k),
         l \in Admits(k) <=> q.verb = "what" /\ q.of = k /\ k \in host.discs,
         l \in Leaves(k) <=> q.verb = "QUIT" /\ q.of = k /\ k \in host.in
  PROVE  TellsOf(r, q, host, k)
<1> DEFINE one == <<l>>
<1>1. /\ \A X : Among(one, X) <=> l \in X
      /\ \A X, Y : Apart(one, Y, X)
  BY AmongOne
<1>2. one \in Seq(Line)
  OBVIOUS
<1>3. r = Answer(q, one) \/ r = one
  OBVIOUS
<1> HIDE DEF one
<1>4. /\ \A X : Unbracketed(X) => (Among(r, X) <=> l \in X)
      /\ \A X, Y : Unbracketed(X) /\ Unbracketed(Y) => Apart(r, Y, X)
  <2>1. CASE r = one
    BY <1>1, <2>1
  <2>2. CASE r = Answer(q, one)
    <3>1. /\ \A X : Unbracketed(X) => (Among(r, X) <=> Among(one, X))
          /\ \A X, Y : Unbracketed(X) /\ Unbracketed(Y) /\ Apart(one, Y, X) => Apart(r, Y, X)
      BY <1>2, <2>2, AmongAnswer
    <3> QED
      BY <1>1, <3>1
  <2> QED
    BY <1>3, <2>1, <2>2
<1>5. l \notin Gone(k) /\ l \notin Syncs
  BY LineOf
<1> QED
  BY <1>4, <1>5, LoudSets DEF TellsOf

LEMMA ReplyTells ==
  ASSUME NEW q \in Command, host \in LilyHost, NEW k \in Chats
  PROVE  TellsOf(AnswerTo(q), q, host, k)
<1> DEFINE r == AnswerTo(q)
           text == [kind |-> "text", cmd |-> q]
<1>1. text \in Line /\ text.kind = "text"
  BY LineIs
<1>2. Silent(Answer(q, <<text>>))
  <2>1. Silent(<<text>>)
    BY <1>1, QuietLine
  <2>2. <<text>> \in Seq(Line)
    BY <1>1
  <2> QED
    BY <2>1, <2>2, SilentAnswer
<1>3. Silent(Answer(q, <<>>))
  <2>1. <<>> \in Seq(Line)
    OBVIOUS
  <2> QED
    BY <2>1, NoLines, SilentAnswer
<1>4. CASE q.verb \in {"FINGER", "WHERE", "INFO"}
  <2>1. r = Answer(q, <<text>>)
    BY <1>4 DEF AnswerTo
  <2> QED
    BY <1>2, <1>4, <2>1, SilentTells
<1>5. CASE q.verb = "MEMBERS"
  <2> DEFINE l == [kind |-> "members", chats |-> host.in]
  <2>1. l \in Line /\ l.kind = "members" /\ l.chats = host.in
    BY LineIs DEF LilyHost
  <2>2. r = Answer(q, <<l>>)
    BY <1>5 DEF AnswerTo
  <2> HIDE DEF l, r
  <2>3. /\ l \in Enters(k) <=> k \in host.in
        /\ l \notin Admits(k) /\ l \notin Leaves(k)
    BY <2>1, LineOf
  <2> QED
    BY <1>5, <2>1, <2>2, <2>3, LineTells DEF r
<1>6. CASE q.verb = "word"
  <2>1. r = Answer(q, <<>>)
    BY <1>6 DEF AnswerTo
  <2> QED
    BY <1>3, <1>6, <2>1, SilentTells
<1>of. ASSUME q.verb \in {"JOIN", "QUIT", "what"} PROVE q.of \in Chats
  BY <1>of DEF Command
<1>7. CASE q.verb = "what"
  <2> DEFINE l == [kind |-> "data", chat |-> q.of]
  <2>1. l \in Line /\ l.kind = "data" /\ l.chat = q.of
    BY <1>of, <1>7, LineIs
  <2>2. r = IF q.of \in host.discs THEN <<l>> ELSE <<>>
    BY <1>7 DEF AnswerTo
  <2>3. CASE q.of \notin host.discs
    <3>1. r = <<>>
      BY <2>2, <2>3
    <3> QED
      BY <1>7, <2>3, <3>1, NoLines, SilentTells
  <2>4. CASE q.of \in host.discs
    <3>1. r = <<l>>
      BY <2>2, <2>4
    <3> HIDE DEF l, r
    <3>2. /\ l \in Admits(k) <=> q.of = k
          /\ l \notin Enters(k) /\ l \notin Leaves(k)
      BY <2>1, LineOf
    <3> QED
      BY <1>7, <2>1, <2>4, <3>1, <3>2, LineTells DEF r
  <2> QED
    BY <2>3, <2>4
<1>8. CASE q.verb = "JOIN"
  <2> DEFINE l == [kind |-> "join", chat |-> q.of]
  <2>1. l \in Line /\ l.kind = "join" /\ l.chat = q.of
    BY <1>of, <1>8, LineIs
  <2>2. r = Answer(q, IF Takes(q.of) THEN <<l>> ELSE <<text>>)
    BY <1>8 DEF AnswerTo
  <2>3. CASE ~Takes(q.of)
    <3>1. r = Answer(q, <<text>>)
      BY <2>2, <2>3
    <3> QED
      BY <1>2, <1>8, <2>3, <3>1, SilentTells
  <2>4. CASE Takes(q.of)
    <3>1. r = Answer(q, <<l>>)
      BY <2>2, <2>4
    <3> HIDE DEF l, r
    <3>2. /\ l \in Enters(k) <=> q.of = k
          /\ l \notin Admits(k) /\ l \notin Leaves(k)
      BY <2>1, LineOf
    <3> QED
      BY <1>8, <2>1, <2>4, <3>1, <3>2, LineTells DEF r
  <2> QED
    BY <2>3, <2>4
<1>9. CASE q.verb = "QUIT"
  <2> DEFINE l == [kind |-> "quit", chat |-> q.of]
  <2>1. l \in Line /\ l.kind = "quit" /\ l.chat = q.of
    BY <1>of, <1>9, LineIs
  <2>2. r = Answer(q, IF q.of \in host.in THEN <<l>> ELSE <<text>>)
    BY <1>9 DEF AnswerTo
  <2>3. CASE q.of \notin host.in
    <3>1. r = Answer(q, <<text>>)
      BY <2>2, <2>3
    <3> QED
      BY <1>2, <1>9, <2>3, <3>1, SilentTells
  <2>4. CASE q.of \in host.in
    <3>1. r = Answer(q, <<l>>)
      BY <2>2, <2>4
    <3> HIDE DEF l, r
    <3>2. /\ l \in Leaves(k) <=> q.of = k
          /\ l \notin Admits(k) /\ l \notin Enters(k)
      BY <2>1, LineOf
    <3> QED
      BY <1>9, <2>1, <2>4, <3>1, <3>2, LineTells DEF r
  <2> QED
    BY <2>3, <2>4
<1>10. q.verb \in {"FINGER", "WHERE", "INFO", "MEMBERS", "word", "what", "JOIN", "QUIT"}
  BY DEF Command
<1> QED
  BY <1>4, <1>5, <1>6, <1>7, <1>8, <1>9, <1>10

LEMMA ChatsOnward ==
  ASSUME manner' = manner,
         "hasty" \notin manner /\ Alive(lily') => \A k \in Chats : ChatOf(lily', host', k)
  PROVE  LilyRoomsInv'
<1> SUFFICES ASSUME ("hasty" \notin manner)', Alive(lily)', NEW k \in Chats PROVE ChatOf(lily, host, k)'
  BY DEF LilyRoomsInv
<1>1. Alive(lily')
  BY DEF Alive
<1>2. ChatOf(lily', host', k)
  BY <1>1
<1> QED
  BY <1>2 DEF ChatOf, OrderOf, RoomOf, MemberOf

(* What a step of the driver leaves of its rooms, and one of the server of its own. *)
Keeps(c, d)     == d.session = c.session /\ d.rooms = c.rooms /\ d.member = c.member
KeepsHost(h, g) == g.in = h.in /\ g.discs = h.discs /\ g.up = h.up

LEMMA ChatSame ==
  ASSUME NEW c, NEW d, NEW h, NEW g, NEW k, ChatOf(c, h, k), Keeps(c, d), KeepsHost(h, g),
         d.out = c.out, d.mail = c.mail
  PROVE  ChatOf(d, g, k)
BY DEF ChatOf, OrderOf, RoomOf, MemberOf, Keeps, KeepsHost

LEMMA ChatCut ==
  ASSUME NEW c, NEW d, NEW h, NEW g, NEW k, ChatOf(c, h, k),
         d.out = <<>>, d.mail = <<>>, d.session # "on", k \notin d.rooms,
         g.in = h.in, g.discs = h.discs, g.up = FALSE
  PROVE  ChatOf(d, g, k)
<1>1. OrderOf(d, k)
  BY AmongNone DEF OrderOf
<1>2. RoomOf(d, g, k)
  BY AmongNone DEF ChatOf, RoomOf
<1>3. "destroys" \notin manner => MemberOf(d, g, k)
  BY DEF ChatOf, MemberOf
<1> QED
  BY <1>1, <1>2, <1>3 DEF ChatOf

LEMMA ChatTold ==
  ASSUME NEW c, NEW d, NEW h, NEW g, NEW k \in Chats, ChatOf(c, h, k), Keeps(c, d), KeepsHost(h, g),
         NEW r \in Seq(Line), c.mail \in Seq(Line), Silent(r), d.out = c.out, d.mail = c.mail \o r
  PROVE  ChatOf(d, g, k)
<1>1. /\ \A X : Among(d.mail, X) <=> Among(c.mail, X) \/ Among(r, X)
      /\ \A X, Y : Apart(c.mail, Y, X) /\ Apart(r, Y, X) /\ (Among(r, X) => ~Among(c.mail, Y)) => Apart(d.mail, Y, X)
  BY AmongJoined
<1>2. \A X, Y : Among(r, X \cup Y) <=> Among(r, X) \/ Among(r, Y)
  BY AmongBoth
<1>3. /\ ~Among(r, Reports(k)) /\ ~Among(r, Enters(k)) /\ ~Among(r, Admits(k)) /\ ~Among(r, Leaves(k))
      /\ ~Among(r, Gone(k)) /\ ~Among(r, Syncs) /\ ~Among(r, Reports(k) \cup Leaves(k))
  <2>1. ~Among(r, Reports(k))
    BY <1>2 DEF Silent, Reports
  <2> QED
    BY <1>2, <2>1 DEF Silent
<1>4. OrderOf(d, k)
  BY <1>1, <1>3 DEF ChatOf, OrderOf, Silent, Keeps
<1>5. RoomOf(d, g, k)
  BY <1>1, <1>3 DEF ChatOf, RoomOf, Keeps, KeepsHost
<1>6. "destroys" \notin manner => MemberOf(d, g, k)
  BY <1>1, <1>3 DEF ChatOf, MemberOf, Keeps, KeepsHost
<1> QED
  BY <1>4, <1>5, <1>6 DEF ChatOf

(* A command that goes out: QUIT only after what has to do with k, and what asks for its
   room not after that. *)
LEMMA ChatSent ==
  ASSUME NEW c, NEW d, NEW h, NEW k \in Chats, ChatOf(c, h, k), Keeps(c, d),
         NEW q \in Command, c.out \in Seq(Command), d.out = Append(c.out, q), d.mail = c.mail,
         c.session = "on",
         q = Cmd("QUIT", k) => /\ ~Among(c.out, {Cmd("JOIN", k)}) /\ ~Among(c.out, Wants(k))
                               /\ ~Among(c.mail, Reports(k)),
         q \in Wants(k) => ~Among(c.out, {Cmd("QUIT", k)}),
         q = Cmd("what", k) => k \notin h.discs \ h.in
  PROVE  ChatOf(d, h, k)
<1>1. /\ \A X : Among(d.out, X) <=> Among(c.out, X) \/ q \in X
      /\ \A X, Y : Apart(c.out, Y, X) /\ (q \in X => ~Among(c.out, Y)) => Apart(d.out, Y, X)
  BY AmongAppended
<1>2. Cmd("QUIT", k) \notin Wants(k)
  BY CmdIs DEF Wants, Cmd
<1>3. OrderOf(d, k)
  BY <1>1, <1>2 DEF ChatOf, OrderOf, Keeps
<1>4. RoomOf(d, h, k)
  BY <1>1 DEF ChatOf, RoomOf, Keeps
<1>5. "destroys" \notin manner => MemberOf(d, h, k)
  BY <1>1 DEF ChatOf, MemberOf, Keeps
<1> QED
  BY <1>3, <1>4, <1>5 DEF ChatOf

LEMMA SendLeaves ==
  ASSUME NEW c \in Lily, NEW q
  PROVE  Send(c, q).rooms = c.rooms /\ Send(c, q).member = c.member
BY DEF Send, Fault, Lily

LEMMA SocketLeaves ==
  ASSUME NEW c \in Lily
  PROVE  /\ LilySockClose(c).rooms = c.rooms /\ LilySockClose(c).member = c.member
         /\ SessionOver(c).rooms = {} /\ SessionOver(c).session = "off"
         /\ SessionOver(c).out = c.out /\ SessionOver(c).mail = c.mail
BY DEF LilySockClose, SessionOver, Lily

(* There was a session before that nothing was wrong with. *)
LEMMA AliveLinked ==
  ASSUME LilyInv, LilyRoomsInv, Alive(lily), "hasty" \notin manner
  PROVE  /\ lily \in Lily /\ host \in LilyHost /\ Link(lily, host.up)
         /\ lily.out \in Seq(Command) /\ lily.mail \in Seq(Line)
         /\ \A k \in Chats : ChatOf(lily, host, k)
<1>1. lily \in Lily /\ host \in LilyHost
  BY LilyTyped DEF LilyInv
<1> QED
  BY <1>1 DEF LilyInv, LilyRoomsInv, Sound, Lily

LEMMA ConnectChats == LilyInv /\ LilyRoomsInv /\ LilyConnect => LilyRoomsInv'
<1> SUFFICES ASSUME LilyInv, LilyRoomsInv, LilyConnect, "hasty" \notin manner
             PROVE  \A k \in Chats : ChatOf(lily', host', k)
  BY ChatsOnward DEF LilyConnect
<1>1. ~lily.fault /\ lily.session = "off" /\ host' = host
  BY DEF LilyConnect
<1>2. /\ lily \in Lily /\ host \in LilyHost /\ Link(lily, host.up)
      /\ \A k \in Chats : ChatOf(lily, host, k)
  BY <1>1, AliveLinked DEF Alive
<1>3. host.up = FALSE
  BY <1>1, <1>2 DEF Link, LilyHost
<1> DEFINE c == LilySockClose(lily)
<1>4. c \in Lily /\ c.out = <<>> /\ c.mail = <<>> /\ c.rooms = lily.rooms
  BY <1>2, CutIs, SocketLeaves
<1>5. lily' = [c EXCEPT !.session = "signing", !.sock = TRUE]
  BY DEF LilyConnect
<1> HIDE DEF c
<1>6. lily'.out = <<>> /\ lily'.mail = <<>> /\ lily'.session = "signing" /\ lily'.rooms = lily.rooms
  BY <1>4, <1>5 DEF Lily
<1> TAKE k \in Chats
<1>7. k \notin lily.rooms
  BY <1>1, <1>2 DEF ChatOf, RoomOf
<1> QED
  BY <1>1, <1>2, <1>3, <1>6, <1>7, ChatCut

LEMMA OverChats ==
  ASSUME LilyInv, LilyRoomsInv, manner' = manner, Alive(lily), host' = Quit(host),
         lily'.out = <<>>, lily'.mail = <<>>, lily'.session = "off", lily'.rooms = {}
  PROVE  LilyRoomsInv'
<1> SUFFICES ASSUME "hasty" \notin manner PROVE \A k \in Chats : ChatOf(lily', host', k)
  BY ChatsOnward
<1>1. host \in LilyHost /\ \A k \in Chats : ChatOf(lily, host, k)
  BY AliveLinked
<1>2. host'.in = host.in /\ host'.discs = host.discs /\ host'.up = FALSE
  BY <1>1 DEF Quit, LilyHost
<1> QED
  BY <1>1, <1>2, ChatCut

LEMMA DisconnectChats == LilyInv /\ LilyRoomsInv /\ LilyDisconnect => LilyRoomsInv'
<1> SUFFICES ASSUME LilyInv, LilyRoomsInv, LilyDisconnect PROVE LilyRoomsInv'
  OBVIOUS
<1>1. ~lily.fault /\ lily.sock /\ host' = Quit(host) /\ manner' = manner /\ lily \in Lily
  BY LilyTyped DEF LilyInv, LilyDisconnect, MayCommand
<1> DEFINE c == LilySockClose(lily)
           none == [p \in People |-> "none"]
           d == [c EXCEPT !.states = none, !.member = {}, !.joins = {}]
<1>2. c \in Lily /\ c.out = <<>> /\ c.mail = <<>>
  BY <1>1, CutIs
<1>3. lily' = SessionOver(d) /\ none \in [People -> State]
  BY DEF LilyDisconnect, LilyRenew, State
<1> HIDE DEF c, none
<1>4. d \in Lily /\ d.out = c.out /\ d.mail = c.mail
  BY <1>2, <1>3 DEF Lily
<1> HIDE DEF d
<1>5. lily'.out = <<>> /\ lily'.mail = <<>> /\ lily'.session = "off" /\ lily'.rooms = {}
  BY <1>2, <1>3, <1>4, SocketLeaves
<1> QED
  BY <1>1, <1>5, OverChats DEF Alive

LEMMA PollErrorChats == LilyInv /\ LilyRoomsInv /\ LilyPollError => LilyRoomsInv'
<1> SUFFICES ASSUME LilyInv, LilyRoomsInv, LilyPollError PROVE LilyRoomsInv'
  OBVIOUS
<1>1. ~lily.fault /\ lily.sock /\ host' = Quit(host) /\ manner' = manner /\ lily \in Lily
  BY LilyTyped DEF LilyInv, LilyPollError
<1> DEFINE c == LilySockClose(lily)
<1>2. c \in Lily /\ c.out = <<>> /\ c.mail = <<>>
  BY <1>1, CutIs
<1>3. lily' = SessionOver(c)
  BY DEF LilyPollError
<1> HIDE DEF c
<1>4. lily'.out = <<>> /\ lily'.mail = <<>> /\ lily'.session = "off" /\ lily'.rooms = {}
  BY <1>2, <1>3, SocketLeaves
<1> QED
  BY <1>1, <1>4, OverChats DEF Alive

LEMMA BreaksChats == LilyInv /\ LilyRoomsInv /\ SendBreaks => LilyRoomsInv'
<1> SUFFICES ASSUME LilyInv, LilyRoomsInv, SendBreaks PROVE LilyRoomsInv'
  OBVIOUS
<1>1. lily.session = "on" /\ lily' = LilySockClose(lily) /\ manner' = manner /\ lily \in Lily
  BY LilyTyped DEF LilyInv, SendBreaks
<1>2. lily'.session = "on" /\ ~lily'.sock
  BY <1>1, CutIs
<1> QED
  BY <1>1, <1>2, ChatsOnward DEF Alive

(* A command of the user's that goes out. *)
LEMMA CommandChats ==
  ASSUME LilyInv, LilyRoomsInv, manner' = manner, host' = host, ~lily.fault, lily.session = "on",
         NEW c \in Lily, NEW q \in Command, c.out = lily.out, c.mail = lily.mail, Keeps(lily, c),
         c.sock = lily.sock, lily' = Send(c, q),
         "hasty" \notin manner =>
           \A k \in Chats :
             /\ q = Cmd("QUIT", k) => /\ ~Among(lily.out, {Cmd("JOIN", k)}) /\ ~Among(lily.out, Wants(k))
                                      /\ ~Among(lily.mail, Reports(k))
             /\ q \notin Wants(k)
  PROVE  LilyRoomsInv'
<1> SUFFICES ASSUME "hasty" \notin manner, Alive(lily') PROVE \A k \in Chats : ChatOf(lily', host', k)
  BY ChatsOnward
<1>1. /\ lily'.session = c.session /\ lily'.mail = c.mail
      /\ c.sock => lily'.out = Append(c.out, q)
      /\ ~c.sock => lily'.fault
  BY SendIs DEF SameButOut
<1>2. lily'.rooms = c.rooms /\ lily'.member = c.member
  BY SendLeaves
<1>3. c.sock
  BY <1>1 DEF Alive
<1>4. Alive(lily)
  BY <1>3 DEF Alive
<1>5. /\ lily.out \in Seq(Command) /\ \A k \in Chats : ChatOf(lily, host, k)
  BY <1>4, AliveLinked
<1>6. Keeps(lily, lily') /\ lily'.out = Append(lily.out, q) /\ lily'.mail = lily.mail
  BY <1>1, <1>2, <1>3 DEF Keeps
<1> TAKE k \in Chats
<1>7. q # Cmd("what", k)
  BY DEF Wants
<1> QED
  BY <1>5, <1>6, <1>7, ChatSent

LEMMA GetInfoChats == \A p \in People : LilyInv /\ LilyRoomsInv /\ GetInfo(p) => LilyRoomsInv'
<1> SUFFICES ASSUME NEW p \in People, LilyInv, LilyRoomsInv, GetInfo(p) PROVE LilyRoomsInv'
  OBVIOUS
<1> DEFINE q == Cmd("FINGER", p)
<1>1. /\ ~lily.fault /\ lily.session = "on" /\ host' = host /\ manner' = manner /\ lily \in Lily
      /\ lily' = Send(lily, q)
  BY LilyTyped DEF LilyInv, GetInfo, MayAsk, MayCommand
<1>2. q \in Command /\ q.verb = "FINGER"
  BY CmdIs DEF Asks
<1> HIDE DEF q
<1>3. \A k \in Chats : q # Cmd("QUIT", k) /\ q \notin Wants(k)
  BY <1>2 DEF Wants, Cmd
<1> QED
  BY <1>1, <1>2, <1>3, CommandChats DEF Keeps

LEMMA SendWordChats == LilyInv /\ LilyRoomsInv /\ SendWord => LilyRoomsInv'
<1> SUFFICES ASSUME LilyInv, LilyRoomsInv, SendWord PROVE LilyRoomsInv'
  OBVIOUS
<1> DEFINE q == Cmd("word", NoOne)
<1>1. /\ ~lily.fault /\ lily.session = "on" /\ host' = host /\ manner' = manner /\ lily \in Lily
      /\ lily' = Send(lily, q)
  BY LilyTyped DEF LilyInv, SendWord, MayAsk, MayCommand
<1>2. q \in Command /\ q.verb = "word"
  BY CmdIs DEF Dull
<1> HIDE DEF q
<1>3. \A k \in Chats : q # Cmd("QUIT", k) /\ q \notin Wants(k)
  BY <1>2 DEF Wants, Cmd
<1> QED
  BY <1>1, <1>2, <1>3, CommandChats DEF Keeps

LEMMA NotJoining ==
  ASSUME lily.out \in Seq(Command), lily.mail \in Seq(Line), ~Joining, NEW k \in Chats
  PROVE  /\ ~Among(lily.out, {Cmd("JOIN", k)}) /\ ~Among(lily.out, Wants(k))
         /\ ~Among(lily.mail, Reports(k))
<1>1. \A i \in DOMAIN lily.out : lily.out[i].verb \notin {"MEMBERS", "JOIN", "what"}
  BY DEF Joining, ToSet
<1>2. \A i \in DOMAIN lily.mail : lily.mail[i].kind \notin {"members", "join", "data"}
  BY DEF Joining, ToSet
<1>3. ~Among(lily.out, {Cmd("JOIN", k)}) /\ ~Among(lily.out, Wants(k))
  BY <1>1 DEF Among, Wants, Cmd
<1>4. ~Among(lily.mail, Reports(k))
  BY <1>2 DEF Among, Reports, Enters, Admits
<1> QED
  BY <1>3, <1>4

LEMMA CloseChats == \A k \in Chats : LilyInv /\ LilyRoomsInv /\ LilyClose(k) => LilyRoomsInv'
<1> SUFFICES ASSUME NEW k \in Chats, LilyInv, LilyRoomsInv, LilyClose(k) PROVE LilyRoomsInv'
  OBVIOUS
<1> DEFINE q == Cmd("QUIT", k)
           windows == lily.windows \ {k}
           c == [lily EXCEPT !.windows = windows]
<1>1. /\ ~lily.fault /\ lily.session = "on" /\ host' = host /\ manner' = manner /\ lily \in Lily
      /\ lily' = Send(c, q) /\ (Joining => "hasty" \in manner)
  BY LilyTyped DEF LilyInv, LilyClose, MayAsk, MayCommand
<1>2. q \in Command /\ q.verb = "QUIT"
  BY CmdIs
<1>3. windows \in SUBSET Chats
  BY <1>1 DEF Lily
<1> HIDE DEF q, windows
<1>4. /\ c \in Lily /\ c.out = lily.out /\ c.mail = lily.mail /\ Keeps(lily, c) /\ c.sock = lily.sock
  BY <1>1, <1>3 DEF Lily, Keeps
<1> HIDE DEF c
<1>5. \A n \in Chats : q \notin Wants(n)
  BY <1>2 DEF Wants, Cmd
<1>6. lily.out \in Seq(Command) /\ lily.mail \in Seq(Line)
  BY <1>1 DEF Lily
<1>7. "hasty" \notin manner =>
        \A n \in Chats : /\ ~Among(lily.out, {Cmd("JOIN", n)}) /\ ~Among(lily.out, Wants(n))
                         /\ ~Among(lily.mail, Reports(n))
  BY <1>1, <1>6, NotJoining
<1> QED
  BY <1>1, <1>2, <1>4, <1>5, <1>7, CommandChats

LEMMA PreselectChats == LilyInv /\ LilyRoomsInv /\ Preselect => LilyRoomsInv'
<1> SUFFICES ASSUME LilyInv, LilyRoomsInv, Preselect PROVE LilyRoomsInv'
  OBVIOUS
<1>1. ~lily.fault /\ host' = host /\ manner' = manner /\ lily \in Lily
  BY LilyTyped DEF LilyInv, Preselect, MayCommand
<1>2. PICK n \in lily.joins : lily' = Send([lily EXCEPT !.joins = @ \ {n}], Cmd("JOIN", n))
  BY DEF Preselect
<1> DEFINE q == Cmd("JOIN", n)
           joins == lily.joins \ {n}
           c == [lily EXCEPT !.joins = joins]
<1>3. n \in Chats /\ joins \in SUBSET Chats
  BY <1>1 DEF Lily
<1>4. q \in Command /\ q.verb = "JOIN"
  BY <1>3, CmdIs
<1>5. lily' = Send(c, q)
  BY <1>2
<1>6. lily.session = "on"
  <2>1. SUFFICES ASSUME lily.session # "on" PROVE FALSE
    OBVIOUS
  <2>2. Link(lily, host.up)
    BY <1>1, <2>1 DEF LilyInv, Alive, Sound
  <2> QED
    BY <2>1, <2>2 DEF Link
<1> HIDE DEF q, joins
<1>7. /\ c \in Lily /\ c.out = lily.out /\ c.mail = lily.mail /\ Keeps(lily, c) /\ c.sock = lily.sock
  BY <1>1, <1>3 DEF Lily, Keeps
<1> HIDE DEF c
<1>8. \A k \in Chats : q # Cmd("QUIT", k) /\ q \notin Wants(k)
  BY <1>4 DEF Wants, Cmd
<1> QED
  BY <1>1, <1>4, <1>5, <1>6, <1>7, <1>8, CommandChats

LEMMA JoinChats == \A k \in Chats : LilyInv /\ LilyRoomsInv /\ LilyJoin(k) => LilyRoomsInv'
<1> SUFFICES ASSUME NEW n \in Chats, LilyInv, LilyRoomsInv, LilyJoin(n) PROVE LilyRoomsInv'
  OBVIOUS
<1> DEFINE windows == lily.windows \cup {n}
           joins == lily.joins \cup {n}
<1>1. /\ host' = host /\ manner' = manner /\ lily \in Lily
      /\ lily' = [lily EXCEPT !.windows = windows, !.joins = joins]
  BY LilyTyped DEF LilyInv, LilyJoin
<1> HIDE DEF windows, joins
<1>2. /\ lily'.out = lily.out /\ lily'.mail = lily.mail /\ Keeps(lily, lily') /\ lily'.sock = lily.sock
      /\ lily'.fault = lily.fault
  BY <1>1 DEF Lily, Keeps
<1> SUFFICES ASSUME "hasty" \notin manner, Alive(lily'), NEW k \in Chats PROVE ChatOf(lily', host', k)
  BY <1>1, ChatsOnward
<1>3. Alive(lily)
  BY <1>2 DEF Alive, Keeps
<1>4. ChatOf(lily, host, k)
  BY <1>3, AliveLinked
<1> QED
  BY <1>1, <1>2, <1>4, ChatSame DEF KeepsHost

LEMMA SaysLeaves ==
  ASSUME NEW c \in Lily, NEW r \in Seq(Line)
  PROVE  /\ LilySays(c, r).out = c.out /\ LilySays(c, r).mail = c.mail \o r
         /\ Keeps(c, LilySays(c, r)) /\ LilySays(c, r).sock = c.sock /\ LilySays(c, r).fault = c.fault
<1> DEFINE next == c.mail \o r
           d == LilySays(c, r)
<1>1. d = [c EXCEPT !.mail = next]
  BY DEF LilySays
<1> HIDE DEF d, next
<1>2. d.out = c.out /\ d.mail = next /\ Keeps(c, d) /\ d.sock = c.sock /\ d.fault = c.fault
  BY <1>1 DEF Lily, Keeps
<1> QED
  BY <1>2 DEF d, next

(* The server says what is about no discussion, or nothing. *)
LEMMA ServerChats ==
  ASSUME LilyInv, LilyRoomsInv, manner' = manner, ~lily.fault, KeepsHost(host, host'),
         NEW l \in Line, l.kind \notin {"members", "join", "data", "quit", "destroy", "sync"},
         lily' = lily \/ lily' = LilySays(lily, <<l>>)
  PROVE  LilyRoomsInv'
<1>1. lily \in Lily /\ <<l>> \in Seq(Line)
  BY LilyTyped DEF LilyInv
<1>2. lily'.session = lily.session /\ lily'.sock = lily.sock /\ lily'.fault = lily.fault
  BY <1>1, SaysLeaves DEF Keeps
<1> SUFFICES ASSUME "hasty" \notin manner, Alive(lily'), NEW k \in Chats PROVE ChatOf(lily', host', k)
  BY ChatsOnward
<1>3. Alive(lily)
  BY <1>2 DEF Alive
<1>4. ChatOf(lily, host, k) /\ lily.mail \in Seq(Line)
  BY <1>3, AliveLinked
<1>5. CASE lily' = lily
  BY <1>4, <1>5, ChatSame DEF Keeps
<1>6. CASE lily' = LilySays(lily, <<l>>)
  <2> DEFINE r == <<l>>
  <2>1. Silent(r) /\ r \in Seq(Line)
    BY <1>1, QuietLine
  <2> HIDE DEF r
  <2>2. lily'.out = lily.out /\ lily'.mail = lily.mail \o r /\ Keeps(lily, lily')
    BY <1>1, <1>6, <2>1, SaysLeaves DEF r
  <2> QED
    BY <1>4, <2>1, <2>2, ChatTold
<1> QED
  BY <1>5, <1>6

LEMMA PersonChats == LilyInv /\ LilyRoomsInv /\ PersonMoves => LilyRoomsInv'
<1> SUFFICES ASSUME LilyInv, LilyRoomsInv, PersonMoves PROVE LilyRoomsInv'
  OBVIOUS
<1>1. ~lily.fault /\ manner' = manner /\ host \in LilyHost
  BY LilyTyped DEF LilyInv, PersonMoves, MaySay
<1>2. PICK p \in People, e \in Events :
        /\ \E new : host' = [host EXCEPT !.states[p] = new]
        /\ lily' = IF host.up THEN LilySays(lily, <<[kind |-> e, who |-> p]>>) ELSE lily
  BY DEF PersonMoves, Events
<1> DEFINE l == [kind |-> e, who |-> p]
<1>3. l \in Line /\ l.kind \notin {"members", "join", "data", "quit", "destroy", "sync"}
  BY LineIs DEF Events
<1>4. KeepsHost(host, host')
  BY <1>1, <1>2 DEF KeepsHost, LilyHost
<1>5. lily' = lily \/ lily' = LilySays(lily, <<l>>)
  BY <1>2
<1> QED
  BY <1>1, <1>3, <1>4, <1>5, ServerChats

LEMMA DepermittedChats == LilyInv /\ LilyRoomsInv /\ PeopleDepermitted => LilyRoomsInv'
<1> SUFFICES ASSUME LilyInv, LilyRoomsInv, PeopleDepermitted PROVE LilyRoomsInv'
  OBVIOUS
<1>1. ~lily.fault /\ manner' = manner /\ host' = host /\ host \in LilyHost
  BY LilyTyped DEF LilyInv, PeopleDepermitted, MaySay
<1>2. PICK n \in host.in : lily' = LilySays(lily, <<[kind |-> "depermit", chat |-> n]>>)
  BY DEF PeopleDepermitted
<1> DEFINE l == [kind |-> "depermit", chat |-> n]
<1>3. l \in Line /\ l.kind = "depermit"
  BY <1>1, LineIs DEF LilyHost
<1> QED
  BY <1>1, <1>2, <1>3, ServerChats DEF KeepsHost

LEMMA SynchronizesChats == LilyInv /\ LilyRoomsInv /\ Synchronizes => LilyRoomsInv'
<1> SUFFICES ASSUME LilyInv, LilyRoomsInv, Synchronizes PROVE LilyRoomsInv'
  OBVIOUS
<1> DEFINE states == [p \in People |-> UserState(host.states[p])]
           s == [kind |-> "sync", states |-> states]
           e == [kind |-> "connected"]
           r == <<s, e>>
<1>1. /\ lily \in Lily /\ host \in LilyHost /\ ~lily.fault /\ manner' = manner /\ ~host.up
      /\ lily.session = "signing" /\ host' = [host EXCEPT !.up = TRUE]
      /\ lily' = LilySays(lily, r)
  BY LilyTyped DEF LilyInv, Synchronizes, MaySay
<1>2. states \in [People -> State]
  BY <1>1 DEF LilyHost, UserState, State, Presence
<1>3. s \in Line /\ e \in Line /\ s.kind = "sync" /\ e.kind = "connected"
  BY <1>2, LineIs
<1>4. r \in Seq(Line) /\ r[1] = s /\ r[2] = e /\ DOMAIN r = {1, 2}
  BY <1>3
<1> HIDE DEF r, s, e, states
<1>5. /\ host'.in = host.in /\ host'.discs = host.discs
  BY <1>1 DEF LilyHost
<1>6. /\ lily'.out = lily.out /\ lily'.mail = lily.mail \o r /\ Keeps(lily, lily')
  BY <1>1, <1>4, SaysLeaves
<1> SUFFICES ASSUME "hasty" \notin manner, NEW k \in Chats PROVE ChatOf(lily', host', k)
  BY <1>1, ChatsOnward
<1>7. /\ Link(lily, host.up) /\ ChatOf(lily, host, k) /\ lily.mail \in Seq(Line)
  BY <1>1, AliveLinked DEF Alive
<1>8. lily.mail = <<>> /\ lily.out = <<>>
  BY <1>1, <1>7 DEF Link
<1>9. lily'.mail = r /\ lily'.out = <<>>
  BY <1>4, <1>6, <1>8
<1>10. /\ ~Among(r, Reports(k)) /\ ~Among(r, Leaves(k)) /\ ~Among(r, Reports(k) \cup Leaves(k))
       /\ ~Among(r, Gone(k)) /\ ~Among(r, Admits(k))
       /\ Among(r, Syncs)
  BY <1>3, <1>4 DEF Among, Reports, Enters, Admits, Leaves, Gone, Syncs
<1>11. Apart(r, Reports(k), Leaves(k)) /\ Apart(r, Gone(k), Admits(k))
  BY <1>10 DEF Apart, Among
<1>12. OrderOf(lily', k)
  BY <1>9, <1>10, <1>11, AmongNone DEF OrderOf
<1>13. RoomOf(lily', host', k)
  <2>1. ~Among(lily'.out, {Cmd("what", k)})
    BY <1>9, AmongNone
  <2> QED
    BY <1>1, <1>5, <1>6, <1>7, <1>9, <1>10, <2>1 DEF ChatOf, RoomOf, Keeps
<1>14. "destroys" \notin manner => MemberOf(lily', host', k)
  BY <1>1, <1>5, <1>6, <1>7, <1>9, <1>10 DEF ChatOf, MemberOf, Keeps
<1> QED
  BY <1>12, <1>13, <1>14 DEF ChatOf

LEMMA DestroyedChats == LilyInv /\ LilyRoomsInv /\ ChatDestroyed => LilyRoomsInv'
<1> SUFFICES ASSUME LilyInv, LilyRoomsInv, ChatDestroyed PROVE LilyRoomsInv'
  OBVIOUS
<1>1. /\ lily \in Lily /\ host \in LilyHost /\ ~lily.fault /\ manner' = manner /\ "destroys" \in manner
  BY LilyTyped DEF LilyInv, ChatDestroyed, MaySay
<1>2. PICK n \in host.discs :
        /\ host' = [host EXCEPT !.discs = @ \ {n}, !.in = @ \ {n}]
        /\ lily' = IF host.up THEN LilySays(lily, <<[kind |-> "destroy", chat |-> n]>>) ELSE lily
  BY DEF ChatDestroyed
<1> DEFINE l == [kind |-> "destroy", chat |-> n]
           r == IF host.up THEN <<l>> ELSE <<>>
<1>3. n \in Chats /\ l \in Line /\ l.kind = "destroy" /\ l.chat = n
  BY <1>1, LineIs DEF LilyHost
<1>4. host'.in = host.in \ {n} /\ host'.discs = host.discs \ {n} /\ host'.up = host.up
  BY <1>1, <1>2 DEF LilyHost
<1> HIDE DEF l
<1>5. r \in Seq(Line) /\ <<l>> \in Seq(Line)
  BY <1>3
<1>6. lily'.out = lily.out /\ lily'.mail = lily.mail \o r /\ Keeps(lily, lily') /\ lily'.sock = lily.sock
      /\ lily'.fault = lily.fault
  <2>1. lily.mail \in Seq(Line)
    BY <1>1 DEF Lily
  <2>2. lily.mail \o <<>> = lily.mail
    BY <2>1
  <2>3. CASE host.up
    BY <1>1, <1>2, <1>5, <2>3, SaysLeaves DEF l
  <2>4. CASE ~host.up
    BY <1>2, <2>2, <2>4 DEF Keeps
  <2> QED
    BY <2>3, <2>4
<1> SUFFICES ASSUME "hasty" \notin manner, Alive(lily'), NEW k \in Chats PROVE ChatOf(lily', host', k)
  BY <1>1, ChatsOnward
<1>7. Alive(lily)
  BY <1>6 DEF Alive, Keeps
<1>8. Link(lily, host.up) /\ ChatOf(lily, host, k) /\ lily.mail \in Seq(Line)
  BY <1>7, AliveLinked
<1>9. /\ \A X : Among(lily'.mail, X) <=> Among(lily.mail, X) \/ Among(r, X)
      /\ \A X, Y : Apart(lily.mail, Y, X) /\ Apart(r, Y, X) /\ (Among(r, X) => ~Among(lily.mail, Y)) => Apart(lily'.mail, Y, X)
  <2> HIDE DEF r
  <2> QED
    BY <1>5, <1>6, <1>8, AmongJoined
<1>10. /\ \A X : Among(r, X) <=> host.up /\ l \in X
       /\ \A X, Y : Apart(r, Y, X)
  <2>1. /\ \A X : Among(<<l>>, X) <=> l \in X
        /\ \A X, Y : Apart(<<l>>, Y, X)
    BY AmongOne
  <2>2. CASE host.up
    BY <2>1, <2>2
  <2>3. CASE ~host.up
    BY <2>3, AmongNone
  <2> QED
    BY <2>2, <2>3
<1> HIDE DEF r
<1>11. /\ l \notin Enters(k) /\ l \notin Admits(k) /\ l \notin Leaves(k) /\ l \notin Reports(k)
       /\ l \notin Reports(k) \cup Leaves(k)
       /\ l \in Gone(k) <=> n = k
  BY <1>3, LineOf
<1>12. OrderOf(lily', k)
  BY <1>6, <1>8, <1>9, <1>10, <1>11 DEF ChatOf, OrderOf, Keeps
<1>13. RoomOf(lily', host', k)
  <2>1. CASE k # n
    BY <1>4, <1>6, <1>8, <1>9, <1>10, <1>11, <2>1 DEF ChatOf, RoomOf, Keeps
  <2>2. CASE k = n /\ host.up
    BY <1>4, <1>6, <1>8, <1>9, <1>10, <1>11, <2>2 DEF ChatOf, RoomOf, Keeps
  <2>3. CASE k = n /\ ~host.up
    <3>1. k \notin lily.rooms
      <4>1. lily.session # "on"
        BY <1>1, <1>8, <2>3 DEF Link
      <4> QED
        BY <1>8, <4>1 DEF ChatOf, RoomOf
    <3>2. ~Among(lily'.mail, Admits(k))
      <4>1. lily.mail = <<>>
        BY <1>8, <2>3 DEF Link
      <4> QED
        BY <1>9, <1>10, <1>11, <4>1, AmongNone
    <3> QED
      BY <1>4, <1>6, <1>8, <2>3, <3>1, <3>2 DEF ChatOf, RoomOf, Keeps
  <2> QED
    BY <2>1, <2>2, <2>3
<1> QED
  BY <1>1, <1>12, <1>13 DEF ChatOf

(* The server takes a command that is about a discussion, and answers. *)
LEMMA ChatAnswered ==
  ASSUME NEW c, NEW d, NEW h, NEW g, NEW k \in Chats, NEW q \in Command, NEW r \in Seq(Line),
         c.out \in Seq(Command), c.mail \in Seq(Line), c.out # <<>>, q = c.out[1],
         d.out = Tail(c.out), d.mail = c.mail \o r, Keeps(c, d), c.session = "on",
         ChatOf(c, h, k), TellsOf(r, q, h, k), Takes(k) <=> k \in h.discs \ h.in,
         g.discs = h.discs, g.up = h.up,
         k \in g.in <=> \/ k \in h.in /\ ~(q.verb = "QUIT" /\ q.of = k)
                        \/ q.verb = "JOIN" /\ q.of = k /\ Takes(k)
  PROVE  ChatOf(d, g, k)
<1> DEFINE join == Cmd("JOIN", k)
           quit == Cmd("QUIT", k)
           what == Cmd("what", k)
           members == Cmd("MEMBERS", NoOne)
<1>1. /\ q = join <=> q.verb = "JOIN" /\ q.of = k
      /\ q = quit <=> q.verb = "QUIT" /\ q.of = k
      /\ q = what <=> q.verb = "what" /\ q.of = k
      /\ q = members <=> q.verb = "MEMBERS"
  BY DEF Command, Cmd
<1>2. /\ join # quit /\ join # what /\ join # members /\ quit # what /\ quit # members /\ what # members
  BY DEF Cmd
<1>3. Wants(k) = {what, members}
  BY DEF Wants
<1> HIDE DEF join, quit, what, members
<1>4. /\ \A X : Among(c.out, X) <=> q \in X \/ Among(d.out, X)
      /\ \A X, Y : Apart(c.out, Y, X) => Apart(d.out, Y, X) /\ (q \in Y => ~Among(d.out, X))
  BY AmongRest
<1>5. /\ \A X : Among(d.mail, X) <=> Among(c.mail, X) \/ Among(r, X)
      /\ \A X, Y : Apart(c.mail, Y, X) /\ Apart(r, Y, X) /\ (Among(r, X) => ~Among(c.mail, Y)) => Apart(d.mail, Y, X)
  BY AmongJoined
<1>6. \A s : /\ Among(s, Reports(k)) <=> Among(s, Enters(k)) \/ Among(s, Admits(k))
             /\ Among(s, Wants(k)) <=> Among(s, {what}) \/ Among(s, {members})
  BY <1>3 DEF Among, Reports
<1> DEFINE Jn(s) == Among(s, {join})
           Qt(s) == Among(s, {quit})
           Wt(s) == Among(s, {what})
           Mb(s) == Among(s, {members})
<1>7. /\ Jn(c.out) <=> q = join \/ Jn(d.out)
      /\ Qt(c.out) <=> q = quit \/ Qt(d.out)
      /\ Wt(c.out) <=> q = what \/ Wt(d.out)
      /\ Mb(c.out) <=> q = members \/ Mb(d.out)
  BY <1>4
<1>8. /\ Apart(c.out, {join}, {quit})
      /\ Apart(c.mail, Reports(k), Leaves(k))
      /\ Apart(c.mail, Gone(k), Admits(k))
      /\ Qt(c.out) => ~Wt(c.out) /\ ~Mb(c.out) /\ ~Among(c.mail, Enters(k)) /\ ~Among(c.mail, Admits(k))
  BY <1>6 DEF ChatOf, OrderOf, join, quit
<1>9. Apart(d.out, {join}, {quit}) /\ (q = join => ~Qt(d.out))
  BY <1>4, <1>8
<1>10. OrderOf(d, k)
  <2>1. Among(r, Leaves(k)) => ~Among(c.mail, Reports(k))
    BY <1>1, <1>6, <1>7, <1>8 DEF TellsOf
  <2>2. Apart(d.mail, Reports(k), Leaves(k))
    BY <1>5, <1>8, <2>1 DEF TellsOf
  <2>3. Among(r, Admits(k)) => ~Among(c.mail, Gone(k))
    BY DEF TellsOf, ChatOf, RoomOf
  <2>4. Apart(d.mail, Gone(k), Admits(k))
    BY <1>5, <1>8, <2>3 DEF TellsOf
  <2>5. Qt(d.out) => ~Among(d.out, Wants(k)) /\ ~Among(d.mail, Reports(k))
    <3>1. ASSUME Qt(d.out) PROVE ~Among(r, Enters(k)) /\ ~Among(r, Admits(k))
      BY <1>1, <1>7, <1>8, <1>9, <3>1 DEF TellsOf
    <3> QED
      BY <1>5, <1>6, <1>7, <1>8, <3>1
  <2> QED
    BY <1>9, <2>2, <2>4, <2>5 DEF OrderOf, Keeps, join, quit
<1>11. /\ k \in h.in => k \in h.discs
       /\ Among(c.mail, Gone(k)) => k \notin h.discs
       /\ k \notin h.discs => Among(c.mail, Gone(k)) \/ (k \notin c.rooms /\ ~Among(c.mail, Admits(k)))
       /\ k \in h.discs \ h.in =>
            /\ ~Wt(c.out) /\ ~Among(c.mail, Enters(k)) /\ ~Among(c.mail, Admits(k))
            /\ k \in c.rooms => Among(c.mail, Leaves(k))
       /\ k \in h.in =>
            \/ Wt(c.out) \/ Mb(c.out) \/ Among(c.mail, Enters(k)) \/ Among(c.mail, Admits(k))
            \/ k \in c.rooms /\ ~Among(c.mail, Leaves(k))
  BY <1>6 DEF ChatOf, RoomOf, what
<1>12. /\ Among(d.mail, Enters(k)) <=> \/ Among(c.mail, Enters(k))
                                       \/ q = members /\ k \in h.in
                                       \/ q = join /\ Takes(k)
       /\ Among(d.mail, Admits(k)) <=> Among(c.mail, Admits(k)) \/ (q = what /\ k \in h.discs)
       /\ Among(d.mail, Leaves(k)) <=> Among(c.mail, Leaves(k)) \/ (q = quit /\ k \in h.in)
       /\ Among(d.mail, Gone(k)) <=> Among(c.mail, Gone(k))
       /\ Among(d.mail, Syncs) <=> Among(c.mail, Syncs)
  BY <1>1, <1>5 DEF TellsOf
<1>13. k \in g.in <=> (k \in h.in /\ q # quit) \/ (q = join /\ Takes(k))
  BY <1>1
<1>14. RoomOf(d, g, k)
  <2>1. /\ k \in g.in => k \in g.discs
        /\ Among(d.mail, Gone(k)) => k \notin g.discs
        /\ k \notin g.discs => Among(d.mail, Gone(k)) \/ (k \notin d.rooms /\ ~Among(d.mail, Admits(k)))
    BY <1>11, <1>12, <1>13 DEF Keeps
  <2>2. k \in g.discs \ g.in =>
            /\ ~Wt(d.out) /\ ~Among(d.mail, Enters(k)) /\ ~Among(d.mail, Admits(k))
            /\ k \in d.rooms => Among(d.mail, Leaves(k))
    <3>1. CASE k \in h.in
      <4>1. ASSUME k \in g.discs \ g.in PROVE q = quit
        BY <1>13, <3>1, <4>1
      <4> QED
        BY <1>2, <1>7, <1>8, <1>12, <3>1, <4>1
    <3>2. CASE k \notin h.in
      BY <1>2, <1>7, <1>11, <1>12, <1>13, <3>2 DEF Keeps
    <3> QED
      BY <3>1, <3>2
  <2>3. k \in g.in =>
            \/ Wt(d.out) \/ Mb(d.out) \/ Among(d.mail, Enters(k)) \/ Among(d.mail, Admits(k))
            \/ k \in d.rooms /\ ~Among(d.mail, Leaves(k))
    BY <1>7, <1>11, <1>12, <1>13 DEF Keeps
  <2> QED
    BY <1>6, <2>1, <2>2, <2>3 DEF RoomOf, Keeps, what
<1>15. ASSUME "destroys" \notin manner PROVE MemberOf(d, g, k)
  <2>1. /\ k \in h.discs
        /\ k \in h.in => \/ Mb(c.out) \/ Among(c.mail, Enters(k)) \/ (k \in c.member /\ ~Among(c.mail, Leaves(k)))
        /\ k \notin h.in => k \notin c.member \/ Among(c.mail, Leaves(k))
    BY <1>15 DEF ChatOf, MemberOf, members
  <2>2. k \in g.in => \/ Mb(d.out) \/ Among(d.mail, Enters(k)) \/ (k \in d.member /\ ~Among(d.mail, Leaves(k)))
    BY <1>7, <1>12, <1>13, <2>1 DEF Keeps
  <2>3. k \notin g.in => k \notin d.member \/ Among(d.mail, Leaves(k))
    BY <1>12, <1>13, <2>1 DEF Keeps
  <2> QED
    BY <2>1, <2>2, <2>3 DEF MemberOf, Keeps, members
<1> QED
  BY <1>10, <1>14, <1>15 DEF ChatOf

LEMMA ArrivesChats == LilyInv /\ LilyRoomsInv /\ CommandArrives => LilyRoomsInv'
<1> SUFFICES ASSUME LilyInv, LilyRoomsInv, CommandArrives PROVE LilyRoomsInv'
  OBVIOUS
<1> DEFINE q == Head(lily.out)
           rest == Tail(lily.out)
           c == [lily EXCEPT !.out = rest]
           r == AnswerTo(q)
           in == CASE q.verb = "JOIN" /\ Takes(q.of) -> host.in \cup {q.of}
                   [] q.verb = "QUIT"                -> host.in \ {q.of}
                   [] OTHER                          -> host.in
<1>1. /\ lily \in Lily /\ host \in LilyHost /\ ~lily.fault /\ manner' = manner /\ host.up
      /\ lily.out # <<>> /\ lily' = LilySays(c, r)
      /\ host' = [host EXCEPT !.in = in]
  BY LilyTyped DEF LilyInv, CommandArrives, MaySay, AnswerTo
<1>2. /\ q = lily.out[1] /\ q \in Command /\ rest \in Seq(Command)
      /\ lily.mail \in Seq(Line) /\ lily.out \in Seq(Command)
  BY <1>1, TailShorter DEF Lily
<1>3. IsReply(q, r)
  BY <1>1, <1>2, AnswerToIs
<1>4. \A k \in Chats : TellsOf(r, q, host, k)
  BY <1>1, <1>2, ReplyTells
<1>5. \A k \in Chats : k \in in <=> \/ k \in host.in /\ ~(q.verb = "QUIT" /\ q.of = k)
                                    \/ q.verb = "JOIN" /\ q.of = k /\ Takes(k)
  <2> SUFFICES ASSUME NEW k \in Chats
               PROVE  k \in in <=> \/ k \in host.in /\ ~(q.verb = "QUIT" /\ q.of = k)
                                   \/ q.verb = "JOIN" /\ q.of = k /\ Takes(k)
    OBVIOUS
  <2> HIDE DEF q
  <2>1. CASE q.verb = "JOIN"
    BY <2>1
  <2>2. CASE q.verb # "JOIN"
    BY <2>2
  <2> QED
    BY <2>1, <2>2
<1> HIDE DEF q, r, in, rest
<1>6. host'.in = in /\ host'.discs = host.discs /\ host'.up = host.up
  BY <1>1 DEF LilyHost
<1>7. c \in Lily /\ c.out = rest /\ c.mail = lily.mail /\ Keeps(lily, c) /\ c.sock = lily.sock
      /\ c.fault = lily.fault
  BY <1>1, <1>2 DEF Lily, Keeps
<1>8. r \in Seq(Line)
  BY <1>3 DEF IsReply
<1> HIDE DEF c
<1>9. /\ lily'.out = rest /\ lily'.mail = lily.mail \o r /\ Keeps(lily, lily')
      /\ lily'.sock = lily.sock /\ lily'.fault = lily.fault
  BY <1>1, <1>7, <1>8, SaysLeaves DEF Keeps
<1> SUFFICES ASSUME "hasty" \notin manner, Alive(lily'), NEW k \in Chats PROVE ChatOf(lily', host', k)
  BY <1>1, ChatsOnward
<1>10. Alive(lily)
  BY <1>9 DEF Alive, Keeps
<1>11. Link(lily, host.up) /\ ChatOf(lily, host, k)
  BY <1>10, AliveLinked
<1>12. lily.session = "on"
  BY <1>1, <1>11 DEF Link
<1>13. Takes(k) <=> k \in host.discs \ host.in
  BY DEF Takes
<1>14. TellsOf(r, q, host, k)
  BY <1>4
<1>15. k \in host'.in <=> \/ k \in host.in /\ ~(q.verb = "QUIT" /\ q.of = k)
                          \/ q.verb = "JOIN" /\ q.of = k /\ Takes(k)
  BY <1>5, <1>6
<1>16. lily'.out = Tail(lily.out)
  BY <1>9 DEF rest
<1>17. host'.discs = host.discs /\ host'.up = host.up
  BY <1>6
<1>18. lily'.mail = lily.mail \o r /\ Keeps(lily, lily') /\ lily.out # <<>> /\ ChatOf(lily, host, k)
  BY <1>1, <1>9, <1>11
<1> HIDE DEF c
<1> QED
  BY <1>2, <1>8, <1>12, <1>13, <1>14, <1>15, <1>16, <1>17, <1>18, ChatAnswered

(* A line is read, and what is asked for on it, r, goes out. *)
LEMMA ChatRead ==
  ASSUME NEW c, NEW d, NEW h, NEW k \in Chats, NEW r \in Seq(Command), NEW m \in Line,
         c.out \in Seq(Command), c.mail \in Seq(Line), c.mail # <<>>, m = c.mail[1],
         d.out = c.out \o r, d.mail = Tail(c.mail), c.session = "on", d.session = "on",
         ChatOf(c, h, k),
         ~Among(r, {Cmd("QUIT", k)}), ~Among(r, {Cmd("MEMBERS", NoOne)}),
         Among(r, {Cmd("what", k)}) <=> m \in Enters(k),
         k \in d.rooms <=> (k \in c.rooms \/ m \in Admits(k)) /\ m \notin Leaves(k) \cup Gone(k),
         k \in d.member <=> (k \in c.member \/ m \in Enters(k)) /\ m \notin Leaves(k)
  PROVE  ChatOf(d, h, k)
<1> DEFINE join == Cmd("JOIN", k)
           quit == Cmd("QUIT", k)
           what == Cmd("what", k)
           members == Cmd("MEMBERS", NoOne)
<1>1. /\ m \in Reports(k) <=> m \in Enters(k) \/ m \in Admits(k)
      /\ m \in Enters(k) => m \notin Admits(k) /\ m \notin Leaves(k) /\ m \notin Gone(k)
      /\ m \in Admits(k) => m \notin Leaves(k) /\ m \notin Gone(k)
      /\ m \in Leaves(k) => m \notin Gone(k)
  BY LineOf
<1>2. Wants(k) = {what, members}
  BY DEF Wants
<1> HIDE DEF join, quit, what, members
<1>3. /\ \A X : Among(d.out, X) <=> Among(c.out, X) \/ Among(r, X)
      /\ \A X, Y : Apart(c.out, Y, X) /\ Apart(r, Y, X) /\ (Among(r, X) => ~Among(c.out, Y)) => Apart(d.out, Y, X)
  BY AmongJoined
<1>4. /\ \A X : Among(c.mail, X) <=> m \in X \/ Among(d.mail, X)
      /\ \A X, Y : Apart(c.mail, Y, X) => Apart(d.mail, Y, X) /\ (m \in Y => ~Among(d.mail, X))
  BY AmongRest
<1>5. \A s : /\ Among(s, Reports(k)) <=> Among(s, Enters(k)) \/ Among(s, Admits(k))
             /\ Among(s, Wants(k)) <=> Among(s, {what}) \/ Among(s, {members})
  BY <1>2 DEF Among, Reports
<1>6. ~Among(r, {quit}) /\ ~Among(r, {members}) /\ (Among(r, {what}) <=> m \in Enters(k))
  BY DEF quit, what, members
<1> DEFINE Qt(s) == Among(s, {quit})
           Wt(s) == Among(s, {what})
           Mb(s) == Among(s, {members})
<1>7. /\ Qt(d.out) <=> Qt(c.out)
      /\ Wt(d.out) <=> Wt(c.out) \/ m \in Enters(k)
      /\ Mb(d.out) <=> Mb(c.out)
  BY <1>3, <1>6
<1>8. /\ Apart(c.out, {join}, {quit})
      /\ Apart(c.mail, Reports(k), Leaves(k))
      /\ Apart(c.mail, Gone(k), Admits(k))
      /\ Qt(c.out) => ~Wt(c.out) /\ ~Mb(c.out) /\ ~Among(c.mail, Enters(k)) /\ ~Among(c.mail, Admits(k))
  BY <1>5 DEF ChatOf, OrderOf, join, quit
<1>9. /\ Among(c.mail, Enters(k)) <=> m \in Enters(k) \/ Among(d.mail, Enters(k))
      /\ Among(c.mail, Admits(k)) <=> m \in Admits(k) \/ Among(d.mail, Admits(k))
      /\ Among(c.mail, Leaves(k)) <=> m \in Leaves(k) \/ Among(d.mail, Leaves(k))
      /\ Among(c.mail, Gone(k)) <=> m \in Gone(k) \/ Among(d.mail, Gone(k))
  BY <1>4
<1>10. /\ Apart(d.mail, Reports(k), Leaves(k)) /\ (m \in Reports(k) => ~Among(d.mail, Leaves(k)))
       /\ Apart(d.mail, Gone(k), Admits(k)) /\ (m \in Gone(k) => ~Among(d.mail, Admits(k)))
  BY <1>4, <1>8
<1>11. OrderOf(d, k)
  <2>1. Apart(d.out, {join}, {quit})
    <3>1. Apart(r, {join}, {quit})
      BY <1>6 DEF Apart, Among
    <3> QED
      BY <1>3, <1>6, <1>8, <3>1
  <2>2. Qt(d.out) => ~Among(d.out, Wants(k)) /\ ~Among(d.mail, Reports(k))
    BY <1>5, <1>7, <1>8, <1>9
  <2> QED
    BY <1>10, <2>1, <2>2 DEF OrderOf, join, quit
<1>12. /\ k \in h.in => k \in h.discs
       /\ Among(c.mail, Gone(k)) => k \notin h.discs
       /\ k \notin h.discs => Among(c.mail, Gone(k)) \/ (k \notin c.rooms /\ ~Among(c.mail, Admits(k)))
       /\ k \in h.discs \ h.in =>
            /\ ~Wt(c.out) /\ ~Among(c.mail, Enters(k)) /\ ~Among(c.mail, Admits(k))
            /\ k \in c.rooms => Among(c.mail, Leaves(k))
       /\ k \in h.in =>
            \/ Wt(c.out) \/ Mb(c.out) \/ Among(c.mail, Enters(k)) \/ Among(c.mail, Admits(k))
            \/ k \in c.rooms /\ ~Among(c.mail, Leaves(k))
  BY <1>5 DEF ChatOf, RoomOf, what
<1>13. k \in d.rooms <=> (k \in c.rooms \/ m \in Admits(k)) /\ m \notin Leaves(k) /\ m \notin Gone(k)
  OBVIOUS
<1>14. RoomOf(d, h, k)
  <2>1. /\ k \in h.in => k \in h.discs
        /\ Among(d.mail, Gone(k)) => k \notin h.discs
        /\ k \notin h.discs => Among(d.mail, Gone(k)) \/ (k \notin d.rooms /\ ~Among(d.mail, Admits(k)))
    BY <1>1, <1>9, <1>10, <1>12, <1>13
  <2>2. k \in h.discs \ h.in =>
            /\ ~Wt(d.out) /\ ~Among(d.mail, Enters(k)) /\ ~Among(d.mail, Admits(k))
            /\ k \in d.rooms => Among(d.mail, Leaves(k))
    BY <1>1, <1>7, <1>9, <1>12, <1>13
  <2>3. k \in h.in =>
            \/ Wt(d.out) \/ Mb(d.out) \/ Among(d.mail, Enters(k)) \/ Among(d.mail, Admits(k))
            \/ k \in d.rooms /\ ~Among(d.mail, Leaves(k))
    BY <1>1, <1>7, <1>9, <1>10, <1>12, <1>13
  <2> QED
    BY <1>5, <2>1, <2>2, <2>3 DEF RoomOf, what
<1>15. ASSUME "destroys" \notin manner PROVE MemberOf(d, h, k)
  <2>1. /\ k \in h.discs
        /\ k \in h.in => \/ Mb(c.out) \/ Among(c.mail, Enters(k)) \/ (k \in c.member /\ ~Among(c.mail, Leaves(k)))
        /\ k \notin h.in => k \notin c.member \/ Among(c.mail, Leaves(k))
    BY <1>15 DEF ChatOf, MemberOf, members
  <2>2. k \in h.in => \/ Mb(d.out) \/ Among(d.mail, Enters(k)) \/ (k \in d.member /\ ~Among(d.mail, Leaves(k)))
    BY <1>1, <1>7, <1>9, <1>10, <2>1
  <2>3. k \notin h.in => k \notin d.member \/ Among(d.mail, Leaves(k))
    BY <1>1, <1>9, <1>12, <2>1
  <2> QED
    BY <2>1, <2>2, <2>3 DEF MemberOf, members
<1> QED
  BY <1>11, <1>14, <1>15 DEF ChatOf

LEMMA ReadChats ==
  ASSUME LilyInv, LilyRoomsInv, ~lily.fault, lily.mail # <<>>, host' = host, manner' = manner,
         lily.mail[1].kind \notin {"sync", "connected"}, NEW r \in Seq(Command),
         lily'.session = lily.session, lily'.out = lily.out \o r, lily'.mail = Tail(lily.mail),
         \A k \in Chats :
           /\ ~Among(r, {Cmd("QUIT", k)}) /\ ~Among(r, {Cmd("MEMBERS", NoOne)})
           /\ Among(r, {Cmd("what", k)}) <=> lily.mail[1] \in Enters(k)
           /\ k \in lily'.rooms <=> /\ k \in lily.rooms \/ lily.mail[1] \in Admits(k)
                                    /\ lily.mail[1] \notin Leaves(k) \cup Gone(k)
           /\ k \in lily'.member <=> /\ k \in lily.member \/ lily.mail[1] \in Enters(k)
                                     /\ lily.mail[1] \notin Leaves(k)
  PROVE  LilyRoomsInv'
<1> SUFFICES ASSUME "hasty" \notin manner, NEW k \in Chats PROVE ChatOf(lily', host', k)
  BY ChatsOnward
<1> DEFINE m == lily.mail[1]
<1>1. m \in Line /\ lily.session = "on" /\ lily.sock
  BY GotIs
<1>2. Alive(lily)
  BY <1>1 DEF Alive
<1>3. lily.out \in Seq(Command) /\ lily.mail \in Seq(Line) /\ ChatOf(lily, host, k)
  BY <1>2, AliveLinked
<1>4. /\ k \in lily'.rooms <=> (k \in lily.rooms \/ m \in Admits(k)) /\ m \notin Leaves(k) \cup Gone(k)
      /\ k \in lily'.member <=> (k \in lily.member \/ m \in Enters(k)) /\ m \notin Leaves(k)
      /\ ~Among(r, {Cmd("QUIT", k)}) /\ ~Among(r, {Cmd("MEMBERS", NoOne)})
      /\ Among(r, {Cmd("what", k)}) <=> m \in Enters(k)
  OBVIOUS
<1> HIDE DEF m
<1>5. m = lily.mail[1] /\ lily'.session = "on"
  BY <1>1 DEF m
<1> QED
  BY <1>1, <1>3, <1>4, <1>5, ChatRead

(* A line about no discussion, on which what asks for no room may go out. *)
LEMMA OtherChats ==
  ASSUME LilyInv, LilyRoomsInv, ~lily.fault, lily.mail # <<>>, host' = host, manner' = manner,
         lily.mail[1].kind \notin {"sync", "connected", "members", "join", "data", "quit", "destroy"},
         Keeps(lily, lily'), lily'.mail = Tail(lily.mail),
         \/ lily'.out = lily.out
         \/ \E q \in Command : q.verb \in Asks /\ lily'.out = Append(lily.out, q)
  PROVE  LilyRoomsInv'
<1>1. /\ lily \in Lily /\ lily.mail[1] \in Line
  BY GotIs
<1>2. lily.out \in Seq(Command)
  BY <1>1 DEF Lily
<1>3. PICK r \in Seq(Command) :
        /\ lily'.out = lily.out \o r
        /\ \A i \in DOMAIN r : r[i].verb \in Asks
  <2>1. CASE lily'.out = lily.out
    <3>1. <<>> \in Seq(Command) /\ lily.out \o <<>> = lily.out /\ DOMAIN <<>> = {}
      BY <1>2
    <3> QED
      BY <2>1, <3>1
  <2>2. CASE \E q \in Command : q.verb \in Asks /\ lily'.out = Append(lily.out, q)
    <3>1. PICK q \in Command : q.verb \in Asks /\ lily'.out = Append(lily.out, q)
      BY <2>2
    <3>2. <<q>> \in Seq(Command) /\ Append(lily.out, q) = lily.out \o <<q>> /\ DOMAIN <<q>> = {1} /\ <<q>>[1] = q
      BY <1>2
    <3> QED
      BY <3>1, <3>2
  <2> QED
    BY <2>1, <2>2
<1>4. \A k \in Chats : /\ ~Among(r, {Cmd("QUIT", k)}) /\ ~Among(r, {Cmd("MEMBERS", NoOne)})
                       /\ ~Among(r, {Cmd("what", k)})
  BY <1>3 DEF Among, Cmd, Asks
<1>5. \A k \in Chats : /\ lily.mail[1] \notin Enters(k) /\ lily.mail[1] \notin Admits(k)
                       /\ lily.mail[1] \notin Leaves(k) /\ lily.mail[1] \notin Gone(k)
  BY <1>1, QuietLine
<1> QED
  BY <1>3, <1>4, <1>5, ReadChats DEF Keeps

LEMMA GotKeeps ==
  ASSUME LilyInv, ~lily.fault, lily.mail # <<>>
  PROVE  /\ Got(lily) \in Lily /\ Keeps(lily, Got(lily)) /\ Got(lily).out = lily.out
         /\ Got(lily).mail = Tail(lily.mail) /\ Got(lily).sock
BY GotIs DEF Keeps

LEMMA BeginChats ==
  ASSUME LilyInv, LilyRoomsInv, ~lily.fault, lily.mail # <<>>, host' = host, manner' = manner,
         lily.mail[1].kind = "begin", lily' = [Got(lily) EXCEPT !.block = {lily.mail[1].cmd}]
  PROVE  LilyRoomsInv'
<1> DEFINE c == Got(lily)
           block == {lily.mail[1].cmd}
<1>1. c \in Lily /\ Keeps(lily, c) /\ c.out = lily.out /\ c.mail = Tail(lily.mail)
  BY GotKeeps
<1>2. lily' = [c EXCEPT !.block = block]
  OBVIOUS
<1> HIDE DEF c, block
<1>3. Keeps(lily, lily') /\ lily'.out = lily.out /\ lily'.mail = Tail(lily.mail)
  BY <1>1, <1>2 DEF Keeps, Lily
<1> QED
  BY <1>3, OtherChats

LEMMA FaultLeaves ==
  ASSUME NEW c \in Lily
  PROVE  Fault(c) \in Lily /\ Fault(c).fault
BY DEF Fault, Lily

LEMMA TextChats ==
  ASSUME LilyInv, LilyRoomsInv, ~lily.fault, lily.mail # <<>>, host' = host, manner' = manner,
         lily.mail[1].kind = "text", lily' = Text(Got(lily))
  PROVE  LilyRoomsInv'
<1> DEFINE c == Got(lily)
           q == CHOOSE q \in c.block : TRUE
           info == c.info \cup {q.of}
<1>1. c \in Lily /\ Keeps(lily, c) /\ c.out = lily.out /\ c.mail = Tail(lily.mail)
  BY GotKeeps
<1>2. lily' = c \/ lily' = [c EXCEPT !.info = info] \/ lily' = Fault(c)
  BY DEF Text
<1> HIDE DEF c, q, info
<1>3. CASE lily' = Fault(c)
  BY <1>1, <1>3, FaultLeaves, ChatsOnward DEF Alive
<1>4. CASE lily' = c
  BY <1>1, <1>4, OtherChats
<1>5. CASE lily' = [c EXCEPT !.info = info]
  <2>1. Keeps(lily, lily') /\ lily'.out = lily.out /\ lily'.mail = Tail(lily.mail)
    BY <1>1, <1>5 DEF Keeps, Lily
  <2> QED
    BY <2>1, OtherChats
<1> QED
  BY <1>2, <1>3, <1>4, <1>5

LEMMA EndChats ==
  ASSUME LilyInv, LilyRoomsInv, ~lily.fault, lily.mail # <<>>, host' = host, manner' = manner,
         lily.mail[1].kind = "end", lily' = End(Got(lily))
  PROVE  LilyRoomsInv'
<1> DEFINE c == Got(lily)
           q == CHOOSE q \in c.block : TRUE
<1> SUFFICES ASSUME NEW d, d = End(c), lily' = d
             PROVE  LilyRoomsInv'
  OBVIOUS
<1>1. /\ c \in Lily /\ Keeps(lily, c) /\ c.out = lily.out /\ c.mail = Tail(lily.mail)
      /\ c.sock
  BY GotKeeps
<1>2. c.block # {}
  BY GotIs, InsideBlock DEF Inner
<1>3. /\ q \in c.block /\ q \in Command
      /\ \/ d = [c EXCEPT !.block = {}]
         \/ d = [Fault(c) EXCEPT !.block = {}]
         \/ d = [Send(c, Cmd("WHERE", q.of)) EXCEPT !.block = {}] /\ q.verb \in Asks
         \/ d = [Send(c, Cmd("INFO", q.of)) EXCEPT !.block = {}] /\ q.verb \in Asks
         \/ d = [c EXCEPT !.block = {}, !.info = {}, !.told = {<<q.of, c.info>>}]
  BY <1>1, <1>2, EndIs DEF Asks
<1> HIDE DEF c, q
<1>4. CASE d = [c EXCEPT !.block = {}]
  <2>1. Keeps(lily, d) /\ d.out = lily.out /\ d.mail = Tail(lily.mail)
    BY <1>1, <1>4 DEF Keeps, Lily
  <2> QED
    BY <2>1, OtherChats
<1>5. CASE d = [Fault(c) EXCEPT !.block = {}]
  <2> DEFINE f == Fault(c)
  <2>1. f \in Lily /\ f.fault
    BY <1>1, FaultLeaves
  <2> HIDE DEF f
  <2>2. d.fault
    BY <1>5, <2>1 DEF f, Lily
  <2> QED
    BY <2>2, ChatsOnward DEF Alive
<1>6. ASSUME NEW v \in {"WHERE", "INFO"}, d = [Send(c, Cmd(v, q.of)) EXCEPT !.block = {}], q.verb \in Asks
      PROVE  LilyRoomsInv'
  <2> DEFINE a == Cmd(v, q.of)
             s == Send(c, a)
  <2>1. a \in Command /\ a.verb \in Asks
    BY <1>3, <1>6, CmdIs DEF Asks
  <2> HIDE DEF a
  <2>2. s \in Lily /\ s.out = Append(c.out, a) /\ s.mail = c.mail /\ Keeps(c, s)
    BY <1>1, <2>1, SendIs, SendLeaves DEF SameButOut, Keeps
  <2> HIDE DEF s
  <2>3. d = [s EXCEPT !.block = {}]
    BY <1>6 DEF s, a
  <2>4. Keeps(lily, d) /\ d.out = Append(lily.out, a) /\ d.mail = Tail(lily.mail)
    BY <1>1, <2>2, <2>3 DEF Keeps, Lily
  <2> QED
    BY <2>1, <2>4, OtherChats
<1>7. CASE d = [c EXCEPT !.block = {}, !.info = {}, !.told = {<<q.of, c.info>>}]
  <2> DEFINE told == {<<q.of, c.info>>}
  <2>1. d = [c EXCEPT !.block = {}, !.info = {}, !.told = told]
    BY <1>7
  <2> HIDE DEF told
  <2>2. Keeps(lily, d) /\ d.out = lily.out /\ d.mail = Tail(lily.mail)
    BY <1>1, <2>1 DEF Keeps, Lily
  <2> QED
    BY <2>2, OtherChats
<1> QED
  BY <1>3, <1>4, <1>5, <1>6, <1>7

LEMMA EventChats ==
  ASSUME LilyInv, LilyRoomsInv, ~lily.fault, lily.mail # <<>>, host' = host, manner' = manner,
         lily.mail[1].kind \in Events,
         lily' = GotPresence(Got(lily), lily.mail[1].kind, lily.mail[1].who)
  PROVE  LilyRoomsInv'
<1> DEFINE c == Got(lily)
<1>1. c \in Lily /\ Keeps(lily, c) /\ c.out = lily.out /\ c.mail = Tail(lily.mail)
  BY GotKeeps
<1>2. lily' = c \/ \E states, online : lily' = [c EXCEPT !.states = states, !.online = online]
  <2> DEFINE p == lily.mail[1].who
             e == lily.mail[1].kind
             new == CASE e \in {"away", "detach"} -> "away"
                      [] e \in {"here", "attach"} -> "here"
                      [] e = "disconnect"         -> "offline"
                      [] e = "connect" -> IF c.states[p] \in {"none", "offline"} THEN "here" ELSE c.states[p]
             states == [c.states EXCEPT ![p] = new]
             online == IF e = "disconnect" THEN c.online \ {p} ELSE c.online \cup {p}
  <2>1. lily' = c \/ lily' = [c EXCEPT !.states[p] = new, !.online = online]
    BY DEF GotPresence
  <2> HIDE DEF new, online, c
  <2>2. lily' = c \/ lily' = [c EXCEPT !.states = states, !.online = online]
    BY <1>1, <2>1 DEF Lily
  <2> HIDE DEF states
  <2> QED
    BY <2>2
<1> HIDE DEF c
<1>3. Keeps(lily, lily') /\ lily'.out = lily.out /\ lily'.mail = Tail(lily.mail)
  <2>1. CASE lily' = c
    BY <1>1, <2>1
  <2>2. CASE \E states, online : lily' = [c EXCEPT !.states = states, !.online = online]
    BY <1>1, <2>2 DEF Keeps, Lily
  <2> QED
    BY <1>2, <2>1, <2>2
<1>4. lily.mail[1].kind \notin {"sync", "connected", "members", "join", "data", "quit", "destroy"}
  BY DEF Events
<1> QED
  BY <1>3, <1>4, OtherChats

(* A line on which nothing goes out. *)
LEMMA NothingAsked ==
  ASSUME NEW c \in Lily
  PROVE  /\ <<>> \in Seq(Command) /\ c.out = c.out \o <<>>
         /\ \A X : ~Among(<<>>, X)
<1>1. c.out \in Seq(Command)
  BY DEF Lily
<1>2. c.out = c.out \o <<>>
  BY <1>1
<1>3. <<>> \in Seq(Command)
  OBVIOUS
<1> QED
  BY <1>2, <1>3, AmongNone

LEMMA MutelyRead ==
  ASSUME LilyInv, LilyRoomsInv, ~lily.fault, lily.mail # <<>>, host' = host, manner' = manner,
         lily.mail[1].kind \notin {"sync", "connected", "members", "join"},
         lily'.session = lily.session, lily'.out = lily.out, lily'.mail = Tail(lily.mail),
         \A k \in Chats :
           /\ k \in lily'.rooms <=> /\ k \in lily.rooms \/ lily.mail[1] \in Admits(k)
                                    /\ lily.mail[1] \notin Leaves(k) \cup Gone(k)
           /\ k \in lily'.member <=> k \in lily.member /\ lily.mail[1] \notin Leaves(k)
  PROVE  LilyRoomsInv'
<1>1. lily \in Lily /\ lily.mail[1] \in Line
  BY GotIs
<1> DEFINE r == <<>>
<1>2. /\ r \in Seq(Command) /\ lily.out = lily.out \o r
      /\ \A X : ~Among(r, X)
  BY <1>1, NothingAsked
<1> HIDE DEF r
<1>3. \A k \in Chats : lily.mail[1] \notin Enters(k)
  BY <1>1, LineOf
<1>4. /\ lily'.out = lily.out \o r
      /\ \A k \in Chats :
           /\ ~Among(r, {Cmd("QUIT", k)}) /\ ~Among(r, {Cmd("MEMBERS", NoOne)})
           /\ Among(r, {Cmd("what", k)}) <=> lily.mail[1] \in Enters(k)
           /\ k \in lily'.rooms <=> /\ k \in lily.rooms \/ lily.mail[1] \in Admits(k)
                                    /\ lily.mail[1] \notin Leaves(k) \cup Gone(k)
           /\ k \in lily'.member <=> /\ k \in lily.member \/ lily.mail[1] \in Enters(k)
                                     /\ lily.mail[1] \notin Leaves(k)
  BY <1>2, <1>3
<1> QED
  BY <1>2, <1>4, ReadChats

LEMMA DataChats ==
  ASSUME LilyInv, LilyRoomsInv, ~lily.fault, lily.mail # <<>>, host' = host, manner' = manner,
         lily.mail[1].kind = "data", lily' = GotWhat(Got(lily), lily.mail[1].chat)
  PROVE  LilyRoomsInv'
<1> DEFINE m == lily.mail[1]
           c == Got(lily)
           rooms == c.rooms \cup {m.chat}
           windows == c.windows \cup {m.chat}
<1>1. /\ c \in Lily /\ Keeps(lily, c) /\ c.out = lily.out /\ c.mail = Tail(lily.mail) /\ m \in Line
  BY GotKeeps, GotIs
<1>2. lily' = [c EXCEPT !.rooms = rooms, !.windows = windows]
  BY DEF GotWhat
<1>3. \A k \in Chats : k \in rooms <=> k \in lily.rooms \/ k = m.chat
  BY <1>1 DEF Keeps
<1>4. \A k \in Chats : /\ m \in Admits(k) <=> k = m.chat
                       /\ m \notin Leaves(k) /\ m \notin Gone(k)
  BY <1>1, LineOf
<1> HIDE DEF c, rooms, windows
<1>5. /\ lily'.session = c.session /\ lily'.out = c.out /\ lily'.mail = c.mail
      /\ lily'.rooms = rooms /\ lily'.member = c.member
  BY <1>1, <1>2 DEF Lily
<1> QED
  BY <1>1, <1>3, <1>4, <1>5, MutelyRead DEF Keeps, m

LEMMA QuitChats ==
  ASSUME LilyInv, LilyRoomsInv, ~lily.fault, lily.mail # <<>>, host' = host, manner' = manner,
         lily.mail[1].kind = "quit", lily' = GotQuit(Got(lily), lily.mail[1].chat)
  PROVE  LilyRoomsInv'
<1> DEFINE m == lily.mail[1]
           c == Got(lily)
           rooms == c.rooms \ {m.chat}
           member == c.member \ {m.chat}
           e == [c EXCEPT !.member = member, !.rooms = rooms]
           joins == e.joins \cup {m.chat}
<1>1. /\ c \in Lily /\ Keeps(lily, c) /\ c.out = lily.out /\ c.mail = Tail(lily.mail) /\ m \in Line
  BY GotKeeps, GotIs
<1>2. lily' = e \/ lily' = [e EXCEPT !.joins = joins]
  BY DEF GotQuit
<1>3. \A k \in Chats : /\ k \in rooms <=> k \in lily.rooms /\ k # m.chat
                       /\ k \in member <=> k \in lily.member /\ k # m.chat
  BY <1>1 DEF Keeps
<1>4. \A k \in Chats : /\ m \in Leaves(k) <=> k = m.chat
                       /\ m \notin Admits(k) /\ m \notin Gone(k)
  BY <1>1, LineOf
<1>5. e \in Lily
  BY <1>1 DEF Lily
<1> HIDE DEF c, rooms, member, joins
<1>6. /\ e.session = c.session /\ e.out = c.out /\ e.mail = c.mail
      /\ e.rooms = rooms /\ e.member = member
  BY <1>1 DEF Lily
<1> HIDE DEF e
<1>7. /\ lily'.session = c.session /\ lily'.out = c.out /\ lily'.mail = c.mail
      /\ lily'.rooms = rooms /\ lily'.member = member
  <2>1. CASE lily' = e
    BY <1>6, <2>1
  <2>2. CASE lily' = [e EXCEPT !.joins = joins]
    BY <1>5, <1>6, <2>2 DEF Lily
  <2> QED
    BY <1>2, <2>1, <2>2
<1> QED
  BY <1>1, <1>3, <1>4, <1>7, MutelyRead DEF Keeps, m

LEMMA GoneChats ==
  ASSUME LilyInv, LilyRoomsInv, ~lily.fault, lily.mail # <<>>, host' = host, manner' = manner,
         lily.mail[1].kind = "destroy", lily' = GotDestroy(Got(lily), lily.mail[1].chat)
  PROVE  LilyRoomsInv'
<1> DEFINE m == lily.mail[1]
           c == Got(lily)
           rooms == c.rooms \ {m.chat}
           windows == c.windows \cup {m.chat}
           joins == c.joins \cup {m.chat}
<1>1. /\ c \in Lily /\ Keeps(lily, c) /\ c.out = lily.out /\ c.mail = Tail(lily.mail) /\ m \in Line
  BY GotKeeps, GotIs
<1>2. \/ lily' = c /\ m.chat \notin c.rooms
      \/ lily' = [c EXCEPT !.rooms = rooms, !.windows = windows, !.joins = joins]
  BY DEF GotDestroy
<1>3. \A k \in Chats : k \in rooms <=> k \in lily.rooms /\ k # m.chat
  BY <1>1 DEF Keeps
<1>4. \A k \in Chats : /\ m \in Gone(k) <=> k = m.chat
                       /\ m \notin Admits(k) /\ m \notin Leaves(k)
  BY <1>1, LineOf
<1>5. m.chat \notin c.rooms => rooms = c.rooms
  OBVIOUS
<1> HIDE DEF c, rooms, windows, joins
<1>6. /\ lily'.session = c.session /\ lily'.out = c.out /\ lily'.mail = c.mail
      /\ lily'.rooms = rooms /\ lily'.member = c.member
  <2>1. CASE lily' = c /\ m.chat \notin c.rooms
    BY <1>5, <2>1
  <2>2. CASE lily' = [c EXCEPT !.rooms = rooms, !.windows = windows, !.joins = joins]
    BY <1>1, <2>2 DEF Lily
  <2> QED
    BY <1>2, <2>1, <2>2
<1> QED
  BY <1>1, <1>3, <1>4, <1>6, MutelyRead DEF Keeps, m

LEMMA DepermitChats ==
  ASSUME LilyInv, ~lily.fault, lily.mail # <<>>, host' = host, manner' = manner,
         lily' = Fault(Got(lily))
  PROVE  LilyRoomsInv'
<1>1. lily'.fault
  BY GotKeeps, FaultLeaves
<1> QED
  BY <1>1, ChatsOnward DEF Alive

LEMMA JoinedChats ==
  ASSUME LilyInv, LilyRoomsInv, ~lily.fault, lily.mail # <<>>, host' = host, manner' = manner,
         lily.mail[1].kind = "join",
         lily' = Send([Got(lily) EXCEPT !.member = @ \cup {lily.mail[1].chat}], Cmd("what", lily.mail[1].chat))
  PROVE  LilyRoomsInv'
<1> DEFINE m == lily.mail[1]
           c == Got(lily)
           member == c.member \cup {m.chat}
           e == [c EXCEPT !.member = member]
           q == Cmd("what", m.chat)
           r == <<q>>
<1>1. /\ c \in Lily /\ Keeps(lily, c) /\ c.out = lily.out /\ c.mail = Tail(lily.mail) /\ c.sock /\ m \in Line
  BY GotKeeps, GotIs
<1>2. m.chat \in Chats
  BY <1>1, LineIs
<1>3. q \in Command
  BY <1>2, CmdIs
<1>4. member \in SUBSET Chats /\ lily' = Send(e, q)
  BY <1>1, <1>2 DEF Lily
<1>5. /\ \A k \in Chats : k \in member <=> k \in lily.member \/ k = m.chat
      /\ \A k \in Chats : m \in Enters(k) <=> k = m.chat
      /\ \A k \in Chats : m \notin Admits(k) /\ m \notin Leaves(k) /\ m \notin Gone(k)
  BY <1>1, LineOf DEF Keeps
<1>6. \A k \in Chats : /\ q # Cmd("QUIT", k) /\ q # Cmd("MEMBERS", NoOne)
                       /\ q = Cmd("what", k) <=> k = m.chat
  BY DEF Cmd
<1> HIDE DEF c, member, q
<1>7. /\ e \in Lily /\ e.session = c.session /\ e.out = c.out /\ e.mail = c.mail
      /\ e.rooms = c.rooms /\ e.member = member /\ e.sock
  BY <1>1, <1>4 DEF Lily
<1> HIDE DEF e
<1>8. SameButOut(e, lily') /\ lily'.out = Append(e.out, q)
  <2> DEFINE d == Send(e, q)
  <2>1. q \in Command /\ e \in Lily /\ e.sock
    BY <1>3, <1>7
  <2>2. SameButOut(e, d) /\ d.out = Append(e.out, q)
    BY <2>1, SendIs
  <2>3. lily' = d
    BY <1>4
  <2> HIDE DEF d
  <2> QED
    BY <2>2, <2>3
<1>9. lily'.rooms = e.rooms /\ lily'.member = e.member
  BY <1>4, <1>7, SendLeaves
<1>10. r \in Seq(Command) /\ lily'.out = lily.out \o r
  <2>1. c.out \in Seq(Command)
    BY <1>1 DEF Lily
  <2>2. lily'.out = Append(c.out, q) /\ lily.out = c.out
    BY <1>1, <1>7, <1>8
  <2> DEFINE s == c.out
  <2>3. s \in Seq(Command) /\ lily'.out = Append(s, q) /\ lily.out = s
    BY <2>1, <2>2
  <2> HIDE DEF s
  <2>4. r \in Seq(Command) /\ Append(s, q) = s \o r
    BY <1>3, <2>3
  <2> QED
    BY <2>3, <2>4
<1>11. \A X : Among(r, X) <=> q \in X
  BY AmongOne
<1> HIDE DEF r
<1>12. \A k \in Chats : /\ ~Among(r, {Cmd("QUIT", k)}) /\ ~Among(r, {Cmd("MEMBERS", NoOne)})
                        /\ Among(r, {Cmd("what", k)}) <=> m \in Enters(k)
  BY <1>5, <1>6, <1>11
<1>13. lily'.session = lily.session /\ lily'.mail = Tail(lily.mail) /\ lily'.rooms = lily.rooms /\ lily'.member = member
  BY <1>1, <1>7, <1>8, <1>9 DEF SameButOut, Keeps
<1>14. \A k \in Chats :
           /\ ~Among(r, {Cmd("QUIT", k)}) /\ ~Among(r, {Cmd("MEMBERS", NoOne)})
           /\ Among(r, {Cmd("what", k)}) <=> m \in Enters(k)
           /\ k \in lily'.rooms <=> /\ k \in lily.rooms \/ m \in Admits(k)
                                    /\ m \notin Leaves(k) \cup Gone(k)
           /\ k \in lily'.member <=> /\ k \in lily.member \/ m \in Enters(k)
                                     /\ m \notin Leaves(k)
  BY <1>5, <1>12, <1>13
<1> QED
  BY <1>10, <1>13, <1>14, ReadChats DEF m

(* The order in which discussions are asked for has each of them. *)
LEMMA OrderHas ==
  ASSUME NEW chats \in SUBSET Chats, NEW order \in SetToSeqs(chats)
  PROVE  LET r == [i \in DOMAIN order |-> Cmd("what", order[i])] IN
         \A X : Among(r, X) <=> \E k \in chats : Cmd("what", k) \in X
<1> DEFINE n == Cardinality(chats)
           r == [i \in DOMAIN order |-> Cmd("what", order[i])]
<1>1. IsFiniteSet(chats)
  BY LilyAssumption, FS_Subset
<1>2. n \in Nat
  BY <1>1, FS_CardinalityType
<1>3. order \in [1..n -> chats] /\ \A i, j \in 1..n : i # j => order[i] # order[j]
  BY DEF SetToSeqs
<1>4. DOMAIN order = 1..n /\ DOMAIN r = 1..n /\ \A i \in 1..n : r[i] = Cmd("what", order[i])
  BY <1>3
<1>5. \A k \in chats : \E i \in 1..n : order[i] = k
  <2>1. IsFiniteSet(1..n) /\ Cardinality(1..n) = n
    BY <1>2, FS_Interval
  <2> HIDE DEF n
  <2>2. order \in Injection(1..n, chats)
    BY <1>3 DEF Injection, IsInjective
  <2>3. order \in Surjection(1..n, chats)
    BY <1>1, <2>1, <2>2, FS_Surjection, FS_Injection DEF n
  <2> QED
    BY <2>3 DEF Surjection
<1> HIDE DEF r, n
<1>6. ASSUME NEW X PROVE Among(r, X) <=> \E k \in chats : Cmd("what", k) \in X
  BY <1>3, <1>4, <1>5 DEF Among
<1> QED
  BY <1>6 DEF r

LEMMA MembersChats ==
  ASSUME LilyInv, LilyRoomsInv, ~lily.fault, lily.mail # <<>>, host' = host, manner' = manner,
         lily.mail[1].kind = "members",
         \E order \in SetToSeqs(lily.mail[1].chats) :
           lily' = AskedWhat(Got(lily), lily.mail[1].chats, order)
  PROVE  LilyRoomsInv'
<1> DEFINE m == lily.mail[1]
           c == Got(lily)
           chats == m.chats
           member == c.member \cup chats
<1> PICK order \in SetToSeqs(chats) : lily' = AskedWhat(c, chats, order)
  OBVIOUS
<1> DEFINE r == [i \in DOMAIN order |-> Cmd("what", order[i])]
           out == c.out \o r
<1>1. /\ c \in Lily /\ Keeps(lily, c) /\ c.out = lily.out /\ c.mail = Tail(lily.mail) /\ c.sock /\ m \in Line
      /\ m.kind = "members"
  BY GotKeeps, GotIs
<1>2. chats \in SUBSET Chats
  BY <1>1, LineIs
<1>3. lily' = [c EXCEPT !.member = member, !.out = out]
  BY <1>1 DEF AskedWhat
<1>4. r \in Seq(Command)
  BY <1>2, OrderIs
<1>5. \A X : Among(r, X) <=> \E k \in chats : Cmd("what", k) \in X
  BY <1>2, OrderHas
<1>6. /\ \A k \in Chats : k \in member <=> k \in lily.member \/ k \in chats
      /\ \A k \in Chats : m \in Enters(k) <=> k \in chats
      /\ \A k \in Chats : m \notin Admits(k) /\ m \notin Leaves(k) /\ m \notin Gone(k)
  BY <1>1, LineOf DEF Keeps
<1> HIDE DEF c, member, r
<1>7. out = lily.out \o r
  BY <1>1
<1> HIDE DEF out, chats
<1>8. /\ lily'.session = c.session /\ lily'.out = out /\ lily'.mail = c.mail
      /\ lily'.rooms = c.rooms /\ lily'.member = member
  BY <1>1, <1>3 DEF Lily
<1>9. \A k \in Chats : /\ ~Among(r, {Cmd("QUIT", k)}) /\ ~Among(r, {Cmd("MEMBERS", NoOne)})
                       /\ Among(r, {Cmd("what", k)}) <=> m \in Enters(k)
  <2>1. \A j, k : /\ Cmd("what", j) # Cmd("QUIT", k) /\ Cmd("what", j) # Cmd("MEMBERS", NoOne)
                  /\ Cmd("what", j) = Cmd("what", k) <=> j = k
    BY DEF Cmd
  <2> QED
    BY <1>5, <1>6, <2>1
<1>10. /\ lily'.session = lily.session /\ lily'.out = lily.out \o r /\ lily'.mail = Tail(lily.mail)
       /\ lily'.rooms = lily.rooms /\ lily'.member = member
  BY <1>1, <1>7, <1>8 DEF Keeps
<1>11. \A k \in Chats :
           /\ ~Among(r, {Cmd("QUIT", k)}) /\ ~Among(r, {Cmd("MEMBERS", NoOne)})
           /\ Among(r, {Cmd("what", k)}) <=> m \in Enters(k)
           /\ k \in lily'.rooms <=> /\ k \in lily.rooms \/ m \in Admits(k)
                                    /\ m \notin Leaves(k) \cup Gone(k)
           /\ k \in lily'.member <=> /\ k \in lily.member \/ m \in Enters(k)
                                     /\ m \notin Leaves(k)
  BY <1>6, <1>9, <1>10
<1> QED
  BY <1>4, <1>10, <1>11, ReadChats DEF m

LEMMA SyncChats ==
  ASSUME LilyInv, LilyRoomsInv, ~lily.fault, lily.mail # <<>>, host' = host, manner' = manner,
         lily.mail[1].kind = "sync", lily' = Synced(Got(lily), lily.mail[1].states)
  PROVE  LilyRoomsInv'
<1> SUFFICES ASSUME "hasty" \notin manner, NEW k \in Chats PROVE ChatOf(lily', host', k)
  BY ChatsOnward
<1> DEFINE m == lily.mail[1]
           c == Got(lily)
           states == [p \in People |-> IF c.states[p] = "none" THEN m.states[p] ELSE c.states[p]]
           rest == Tail(lily.mail)
<1>1. /\ lily.session = "signing" /\ m \in Line /\ m.kind = "sync" /\ lily.out = <<>>
      /\ c \in Lily /\ Keeps(lily, c) /\ c.out = lily.out /\ c.mail = rest
  BY GotKeeps, GotIs DEF Link
<1>2. lily' = [c EXCEPT !.states = states, !.member = {}]
  BY DEF Synced
<1>3. ChatOf(lily, host, k) /\ lily.mail \in Seq(Line)
  BY <1>1, AliveLinked DEF Alive
<1>4. m \notin Gone(k) /\ m \notin Reports(k) /\ m \notin Leaves(k) /\ m \notin Admits(k)
      /\ m \notin Reports(k) \cup Leaves(k)
  BY <1>1, LineOf
<1>5. /\ \A X : Among(lily.mail, X) <=> m \in X \/ Among(rest, X)
      /\ \A X, Y : Apart(lily.mail, Y, X) => Apart(rest, Y, X)
  BY <1>3, AmongRest
<1> HIDE DEF c, m, states, rest
<1>6. /\ lily'.session = "signing" /\ lily'.out = <<>> /\ lily'.mail = rest
      /\ lily'.rooms = lily.rooms /\ lily'.member = {}
  BY <1>1, <1>2 DEF Lily, Keeps
<1>7. OrderOf(lily', k)
  BY <1>1, <1>3, <1>4, <1>5, <1>6, AmongNone DEF ChatOf, OrderOf
<1>8. RoomOf(lily', host, k)
  <2>1. ~Among(rest, Reports(k))
    BY <1>1, <1>3, <1>4, <1>5, AmongBoth DEF ChatOf, OrderOf
  <2>2. ~Among(lily'.out, {Cmd("what", k)})
    BY <1>6, AmongNone
  <2> QED
    BY <1>1, <1>3, <1>4, <1>5, <1>6, <2>1, <2>2 DEF ChatOf, RoomOf
<1>9. "destroys" \notin manner => MemberOf(lily', host, k)
  BY <1>3, <1>6 DEF ChatOf, MemberOf
<1> QED
  BY <1>7, <1>8, <1>9 DEF ChatOf

LEMMA ConnectedChats ==
  ASSUME LilyInv, LilyRoomsInv, ~lily.fault, lily.mail # <<>>, host' = host, manner' = manner,
         lily.mail[1].kind = "connected", lily' = GotConnected(Got(lily))
  PROVE  LilyRoomsInv'
<1> SUFFICES ASSUME "hasty" \notin manner, NEW k \in Chats PROVE ChatOf(lily', host', k)
  BY ChatsOnward
<1> DEFINE m == lily.mail[1]
           c == Got(lily)
           online == {p \in People : c.states[p] \in {"here", "away"}}
           joins == c.joins \cup c.windows
           e == [c EXCEPT !.session = "on", !.online = online, !.joins = joins]
           q == Cmd("MEMBERS", NoOne)
           rest == Tail(lily.mail)
           r == <<q>>
<1>1. /\ lily.session = "signing" /\ m \in Line /\ m.kind = "connected" /\ lily.out = <<>> /\ host.up
      /\ Greets(lily.mail)
      /\ c \in Lily /\ Keeps(lily, c) /\ c.out = lily.out /\ c.mail = rest /\ c.sock
  BY GotKeeps, GotIs DEF Link
<1>2. online \in SUBSET People /\ joins \in SUBSET Chats /\ q \in Command
  BY <1>1, CmdIs DEF Lily, Dull
<1>3. lily' = Send(e, q)
  BY DEF GotConnected
<1>4. ChatOf(lily, host, k) /\ lily.mail \in Seq(Line)
  BY <1>1, AliveLinked DEF Alive
<1>5. /\ \A X : Among(lily.mail, X) <=> m \in X \/ Among(rest, X)
      /\ \A X, Y : Apart(lily.mail, Y, X) => Apart(rest, Y, X)
  BY <1>4, AmongRest
<1>6. m \notin Gone(k) /\ m \notin Reports(k) /\ m \notin Leaves(k) /\ m \notin Admits(k) /\ m \notin Syncs
  BY <1>1, LineOf
<1>7. ~Among(rest, Syncs)
  <2>1. \A i \in DOMAIN rest : Plain(rest[i])
    BY <1>1, <1>4, GreetsRead
  <2> QED
    BY <2>1 DEF Among, Plain, Syncs
<1>8. /\ Among(r, {q}) /\ Among(r, Wants(k)) /\ ~Among(r, {Cmd("QUIT", k)}) /\ ~Among(r, {Cmd("what", k)})
      /\ Apart(r, {Cmd("JOIN", k)}, {Cmd("QUIT", k)})
  <2>1. /\ \A X : Among(r, X) <=> q \in X
        /\ \A X, Y : Apart(r, Y, X)
    BY AmongOne
  <2>2. q \in Wants(k) /\ q # Cmd("QUIT", k) /\ q # Cmd("what", k)
    BY DEF Wants, Cmd
  <2> QED
    BY <2>1, <2>2
<1> HIDE DEF c, m, online, joins, rest
<1>9. /\ e \in Lily /\ e.session = "on" /\ e.out = <<>> /\ e.mail = rest /\ e.sock
      /\ e.rooms = lily.rooms /\ e.member = lily.member
  BY <1>1, <1>2 DEF Lily, Keeps
<1> HIDE DEF e
<1>10. /\ SameButOut(e, lily') /\ lily'.out = Append(<<>>, q)
       /\ lily'.rooms = lily.rooms /\ lily'.member = lily.member
  BY <1>2, <1>3, <1>9, SendIs, SendLeaves
<1>11. lily'.session = "on" /\ lily'.out = r /\ lily'.mail = rest
  BY <1>9, <1>10 DEF SameButOut
<1> HIDE DEF r
<1>12. ~Among(rest, Reports(k))
  BY <1>1, <1>4, <1>5, AmongBoth DEF ChatOf, OrderOf
<1>13. OrderOf(lily', k)
  BY <1>4, <1>5, <1>8, <1>11 DEF ChatOf, OrderOf
<1>14. k \notin lily.rooms
  BY <1>1, <1>4 DEF ChatOf, RoomOf
<1>15. RoomOf(lily', host, k)
  BY <1>4, <1>5, <1>6, <1>8, <1>10, <1>11, <1>12, <1>14 DEF ChatOf, RoomOf
<1>16. ASSUME "destroys" \notin manner PROVE MemberOf(lily', host, k)
  <2>1. k \in host.discs /\ k \notin lily.member
    BY <1>1, <1>4, <1>5, <1>6, <1>7, <1>16 DEF ChatOf, MemberOf
  <2> QED
    BY <1>8, <1>10, <1>11, <2>1 DEF MemberOf
<1> QED
  BY <1>13, <1>15, <1>16 DEF ChatOf

LEMMA ReceiveChats == LilyInv /\ LilyRoomsInv /\ LilyReceive => LilyRoomsInv'
<1> SUFFICES ASSUME LilyInv, LilyRoomsInv, LilyReceive PROVE LilyRoomsInv'
  OBVIOUS
<1> DEFINE m == lily.mail[1]
           c == Got(lily)
<1>1. ~lily.fault /\ lily.mail # <<>> /\ host' = host /\ manner' = manner
  BY DEF LilyReceive, MayCommand
<1>2. m \in Line /\ m = Head(lily.mail)
  BY <1>1, GotIs
<1>3. IF m.kind = "members"
      THEN \E order \in SetToSeqs(m.chats) : lily' = AskedWhat(c, m.chats, order)
      ELSE lily' = CASE m.kind = "sync"      -> Synced(c, m.states)
                     [] m.kind = "connected" -> GotConnected(c)
                     [] m.kind = "begin"     -> [c EXCEPT !.block = {m.cmd}]
                     [] m.kind = "text"      -> Text(c)
                     [] m.kind = "end"       -> End(c)
                     [] m.kind = "data"      -> GotWhat(c, m.chat)
                     [] m.kind = "join"      -> Send([c EXCEPT !.member = @ \cup {m.chat}],
                                                     Cmd("what", m.chat))
                     [] m.kind = "quit"      -> GotQuit(c, m.chat)
                     [] m.kind = "destroy"   -> GotDestroy(c, m.chat)
                     [] m.kind = "depermit"  -> Fault(c)
                     [] OTHER                -> GotPresence(c, m.kind, m.who)
  BY <1>2, Zenon DEF LilyReceive, Got
<1>4. m.kind \in {"sync", "connected", "begin", "end", "data", "destroy", "depermit"}
                   \cup Inner \cup Events
  BY <1>2, LineIs
<1>5. CASE m.kind = "members"
  BY <1>1, <1>3, <1>5, MembersChats
<1>6. CASE m.kind = "sync"
  BY <1>1, <1>3, <1>6, SyncChats
<1>7. CASE m.kind = "connected"
  BY <1>1, <1>3, <1>7, ConnectedChats
<1>8. CASE m.kind = "begin"
  BY <1>1, <1>3, <1>8, BeginChats
<1>9. CASE m.kind = "text"
  BY <1>1, <1>3, <1>9, TextChats
<1>10. CASE m.kind = "end"
  BY <1>1, <1>3, <1>10, EndChats
<1>11. CASE m.kind = "data"
  BY <1>1, <1>3, <1>11, DataChats
<1>12. CASE m.kind = "join"
  BY <1>1, <1>3, <1>12, JoinedChats
<1>13. CASE m.kind = "quit"
  BY <1>1, <1>3, <1>13, QuitChats
<1>14. CASE m.kind = "destroy"
  BY <1>1, <1>3, <1>14, GoneChats
<1>15. CASE m.kind = "depermit"
  BY <1>1, <1>3, <1>15, DepermitChats
<1>16. CASE m.kind \in Events
  <2>1. lily' = GotPresence(c, m.kind, m.who)
    BY <1>3, <1>16 DEF Events
  <2> QED
    BY <1>1, <1>16, <2>1, EventChats
<1> QED
  BY <1>4, <1>5, <1>6, <1>7, <1>8, <1>9, <1>10, <1>11, <1>12, <1>13, <1>14, <1>15, <1>16 DEF Inner

-----------------------------------------------------------------------------
LEMMA LilyRoomsBegin == LilyInit => LilyRoomsInv
<1> SUFFICES ASSUME LilyInit, NEW k \in Chats PROVE ChatOf(lily, host, k)
  BY DEF LilyRoomsInv
<1>1. /\ lily.session = "off" /\ lily.out = <<>> /\ lily.mail = <<>> /\ lily.rooms = {} /\ lily.member = {}
      /\ host.in = {} /\ host.discs = Chats
  BY DEF LilyInit
<1>2. OrderOf(lily, k)
  BY <1>1, AmongNone DEF OrderOf
<1>3. RoomOf(lily, host, k)
  BY <1>1, AmongNone DEF RoomOf
<1>4. MemberOf(lily, host, k)
  BY <1>1 DEF MemberOf
<1> QED
  BY <1>2, <1>3, <1>4 DEF ChatOf

LEMMA LilyRoomsSteps == LilyInv /\ LilyRoomsInv /\ LilyNext => LilyRoomsInv'
BY ConnectChats, DisconnectChats, SendWordChats, PreselectChats, BreaksChats, PollErrorChats,
   GetInfoChats, JoinChats, CloseChats, SynchronizesChats, ArrivesChats, PersonChats,
   DestroyedChats, DepermittedChats, ReceiveChats DEF LilyNext

LEMMA LilyRoomsRest == LilyRoomsInv /\ UNCHANGED lilyVars => LilyRoomsInv'
<1> SUFFICES ASSUME LilyRoomsInv, lily' = lily, host' = host, manner' = manner PROVE LilyRoomsInv'
  BY DEF lilyVars
<1>1. \A k \in Chats : ChatOf(lily, host, k) => ChatOf(lily', host', k)
  OBVIOUS
<1>2. Alive(lily') => Alive(lily)
  OBVIOUS
<1> QED
  BY <1>1, <1>2, ChatsOnward DEF LilyRoomsInv

LEMMA LilyRoomsAre == LilyInv /\ LilyRoomsInv => LilyRooms
<1> SUFFICES ASSUME LilyInv, LilyRoomsInv, LilyQuiet, "hasty" \notin manner
             PROVE  /\ lily.rooms = host.in
                    /\ lily.member = host.in \/ "destroys" \in manner
  BY DEF LilyRooms
<1>1. /\ lily \in Lily /\ host \in LilyHost
      /\ \A k \in Chats : ChatOf(lily, host, k)
  BY AliveLinked DEF LilyQuiet, Alive
<1>2. lily.rooms \in SUBSET Chats /\ lily.member \in SUBSET Chats /\ host.in \in SUBSET Chats
  BY <1>1 DEF Lily, LilyHost
<1>3. /\ lily.session = "on"
      /\ \A X : ~Among(lily.out, X)
      /\ \A X : ~Among(lily.mail, X)
  BY AmongNone DEF LilyQuiet
<1>4. ASSUME NEW k \in Chats PROVE k \in lily.rooms <=> k \in host.in
  BY <1>1, <1>3 DEF ChatOf, RoomOf
<1>5. ASSUME NEW k \in Chats, "destroys" \notin manner PROVE k \in lily.member <=> k \in host.in
  BY <1>1, <1>3, <1>5 DEF ChatOf, MemberOf
<1> QED
  BY <1>2, <1>4, <1>5

-----------------------------------------------------------------------------
(* TOC2's rooms. *)

(* How often a sequence has one of T. *)
Where(s, T) == {i \in DOMAIN s : s[i] \in T}
Times(s, T) == Cardinality(Where(s, T))

Unjoined(r) == {e \in Entry : e.name = r /\ ~e.joined}
JoinOf(r)   == {q \in Request : q.cmd = "toc_chat_join" /\ q.name = r}
JoinedAs(r) == {m \in Reply : m.kind = "CHAT_JOIN" /\ m.name = r}

(* The answers to come that assert that an entry waits for them. *)
Awaited(c, r) == Times(c.out, JoinOf(r)) + Times(c.mail, JoinedAs(r))

PlainEntry   == {e \in Entry : ~e.invited /\ (~e.joined => e.id = NoId)}
PlainRequest == {q \in Request : q.cmd # "toc_chat_accept"}
PlainReply   == {m \in Reply : m.kind # "CHAT_INVITE" /\ (m.kind = "CHAT_JOIN" => m.id # NoId)}

(* Where nobody is invited, an entry waits for each answer that is to come: there may be
   more, since nothing is ever taken from the list. *)
Uninvited(c) ==
  /\ ~c.fault
  /\ c.entries \in Seq(PlainEntry) /\ c.out \in Seq(PlainRequest) /\ c.mail \in Seq(PlainReply)
  /\ \A r \in Rooms : Awaited(c, r) <= Times(c.entries, Unjoined(r))

OpenRooms(c) == {r \in Rooms : c.window[r] # "none"}

(* Only finitely many windows are ever open, so that Connected comes to an end. *)
RoomsInv == RoomsTypeOK /\ IsFiniteSet(OpenRooms(chat)) /\ (habit.invites \/ Uninvited(chat))

LEMMA WhereFinite ==
  ASSUME NEW S, NEW s \in Seq(S), NEW T
  PROVE  /\ Where(s, T) \subseteq 1..Len(s)
         /\ IsFiniteSet(Where(s, T))
         /\ Times(s, T) \in Nat
<1>1. Len(s) \in Nat /\ DOMAIN s = 1..Len(s)
  OBVIOUS
<1>2. Where(s, T) \subseteq 1..Len(s)
  BY <1>1 DEF Where
<1>3. IsFiniteSet(1..Len(s))
  BY <1>1, FS_Interval
<1>4. IsFiniteSet(Where(s, T))
  BY <1>2, <1>3, FS_Subset
<1> QED
  BY <1>2, <1>4, FS_CardinalityType DEF Times

LEMMA TimesNone ==
  ASSUME NEW T
  PROVE  Times(<<>>, T) = 0
<1>1. Where(<<>>, T) = {}
  BY DEF Where
<1> QED
  BY <1>1, FS_EmptySet DEF Times

LEMMA TimesAppend ==
  ASSUME NEW S, NEW s \in Seq(S), NEW x \in S, NEW T
  PROVE  /\ x \in T => Times(Append(s, x), T) = Times(s, T) + 1
         /\ x \notin T => Times(Append(s, x), T) = Times(s, T)
<1> DEFINE n == Len(s) + 1
<1>1. Len(s) \in Nat /\ DOMAIN s = 1..Len(s)
  OBVIOUS
<1>2. /\ DOMAIN Append(s, x) = 1..n /\ Append(s, x)[n] = x
      /\ \A i \in 1..Len(s) : Append(s, x)[i] = s[i]
  OBVIOUS
<1>3. 1..n = (1..Len(s)) \cup {n} /\ n \notin 1..Len(s)
  BY <1>1
<1> HIDE DEF n
<1>4. x \in T => Where(Append(s, x), T) = Where(s, T) \cup {n}
  BY <1>1, <1>2, <1>3 DEF Where
<1>5. x \notin T => Where(Append(s, x), T) = Where(s, T)
  BY <1>1, <1>2, <1>3 DEF Where
<1>6. n \notin Where(s, T) /\ IsFiniteSet(Where(s, T))
  BY <1>3, WhereFinite
<1> QED
  BY <1>4, <1>5, <1>6, FS_AddElement DEF Times

LEMMA TimesTail ==
  ASSUME NEW S, NEW s \in Seq(S), s # <<>>, NEW T
  PROVE  /\ Head(s) \in T => Times(s, T) = Times(Tail(s), T) + 1
         /\ Head(s) \notin T => Times(s, T) = Times(Tail(s), T)
<1> DEFINE W == Where(s, T) \ {1}
           V == Where(Tail(s), T)
           f == [i \in V |-> i + 1]
<1>1. /\ Len(s) \in Nat /\ Len(s) > 0 /\ DOMAIN s = 1..Len(s) /\ Head(s) = s[1]
      /\ Tail(s) \in Seq(S) /\ DOMAIN Tail(s) = 1..(Len(s) - 1)
      /\ \A i \in 1..(Len(s) - 1) : Tail(s)[i] = s[i + 1]
  OBVIOUS
<1>2. IsFiniteSet(V) /\ V \subseteq Nat /\ 1 \in DOMAIN s
  <2>1. IsFiniteSet(Where(Tail(s), T)) /\ Where(Tail(s), T) \subseteq 1..Len(Tail(s))
    BY <1>1, WhereFinite
  <2> QED
    BY <2>1, <1>1
<1>3. \A i \in V : i \in 1..(Len(s) - 1) /\ Tail(s)[i] = s[i + 1] /\ Tail(s)[i] \in T
  BY <1>1 DEF Where
<1>4. \A i \in V : i + 1 \in W
  BY <1>1, <1>3 DEF Where
<1>5. \A j \in W : j - 1 \in V /\ j = (j - 1) + 1
  <2> TAKE j \in W
  <2>1. j \in 1..Len(s) /\ j # 1 /\ s[j] \in T
    BY <1>1 DEF Where
  <2>2. j - 1 \in 1..(Len(s) - 1) /\ (j - 1) + 1 = j
    BY <2>1, <1>1
  <2> QED
    BY <2>1, <2>2, <1>1 DEF Where
<1>6. \A i, j \in V : i + 1 = j + 1 => i = j
  BY <1>2
<1> HIDE DEF W, V
<1>7. f \in Bijection(V, W)
  <2>1. f \in [V -> W]
    BY <1>4
  <2>2. \A i, j \in V : f[i] = f[j] => i = j
    BY <1>6
  <2>3. \A j \in W : \E i \in V : f[i] = j
    BY <1>5
  <2> QED
    BY <2>1, <2>2, <2>3 DEF Bijection, Injection, Surjection, IsInjective
<1>8. IsFiniteSet(W) /\ Cardinality(W) = Cardinality(V)
  BY <1>2, <1>7, FS_Bijection DEF ExistsBijection
<1>9. (Head(s) \in T => Where(s, T) = W \cup {1}) /\ (Head(s) \notin T => Where(s, T) = W) /\ 1 \notin W
  BY <1>1, <1>2 DEF Where, W
<1> QED
  BY <1>8, <1>9, FS_AddElement DEF Times, V

LEMMA TimesFirst ==
  ASSUME NEW S, NEW s \in Seq(S), NEW x \in S, NEW T
  PROVE  /\ x \in T => Times(<<x>> \o s, T) = Times(s, T) + 1
         /\ x \notin T => Times(<<x>> \o s, T) = Times(s, T)
<1>1. /\ <<x>> \o s \in Seq(S) /\ <<x>> \o s # <<>>
      /\ Head(<<x>> \o s) = x /\ Tail(<<x>> \o s) = s
  OBVIOUS
<1> QED
  BY <1>1, TimesTail

LEMMA TimesPut ==
  ASSUME NEW S, NEW s \in Seq(S), NEW i \in DOMAIN s, NEW x \in S, NEW T
  PROVE  /\ s[i] \in T /\ x \notin T => Times(s, T) = Times([s EXCEPT ![i] = x], T) + 1
         /\ (s[i] \in T <=> x \in T) => Times(s, T) = Times([s EXCEPT ![i] = x], T)
<1> DEFINE z == [s EXCEPT ![i] = x]
<1>1. DOMAIN z = DOMAIN s /\ z[i] = x /\ \A j \in DOMAIN s : j # i => z[j] = s[j]
  OBVIOUS
<1>2. z \in Seq(S)
  OBVIOUS
<1> HIDE DEF z
<1>3. (s[i] \in T <=> x \in T) => Where(s, T) = Where(z, T)
  BY <1>1 DEF Where
<1>4. s[i] \in T /\ x \notin T => Where(s, T) = Where(z, T) \cup {i} /\ i \notin Where(z, T)
  BY <1>1 DEF Where
<1>5. IsFiniteSet(Where(z, T))
  BY <1>2, WhereFinite
<1> QED
  BY <1>3, <1>4, <1>5, FS_AddElement DEF Times, z

(* Rooms are asked for one after the other: the recursion of the fold, and that it has a
   solution over a finite set. *)
OneOf(s) == CHOOSE x \in s : TRUE
JoinsStep(f, base, s) == IF s = {} THEN base ELSE FtChatJoin(f[s \ {OneOf(s)}], OneOf(s), FALSE)
JoinsOf(base, W) == CHOOSE f : f = [s \in SUBSET W |-> JoinsStep(f, base, s)]
SolvedTo(base, W, f, n) ==
  f = [s \in {x \in SUBSET W : Cardinality(x) <= n} |-> JoinsStep(f, base, s)]

LEMMA FoldIs ==
  ASSUME NEW base, NEW W
  PROVE  FoldSet(LAMBDA r, c : FtChatJoin(c, r, FALSE), base, W) = JoinsOf(base, W)[W]
BY DEF FoldSet, MapThenFoldSet, JoinsOf, JoinsStep, OneOf

LEMMA OneLess ==
  ASSUME NEW s, IsFiniteSet(s), s # {}
  PROVE  /\ OneOf(s) \in s /\ IsFiniteSet(s \ {OneOf(s)})
         /\ Cardinality(s) \in Nat /\ Cardinality(s \ {OneOf(s)}) \in Nat
         /\ Cardinality(s \ {OneOf(s)}) = Cardinality(s) - 1
<1>1. OneOf(s) \in s
  BY DEF OneOf
<1>2. Cardinality(s \ {OneOf(s)}) = Cardinality(s) - 1 /\ IsFiniteSet(s \ {OneOf(s)})
  BY <1>1, FS_RemoveElement
<1> QED
  BY <1>1, <1>2, FS_CardinalityType

LEMMA SolvedFirst ==
  ASSUME NEW base, NEW W, IsFiniteSet(W)
  PROVE  \E f : SolvedTo(base, W, f, 0)
<1> DEFINE f == [s \in {x \in SUBSET W : Cardinality(x) <= 0} |-> base]
<1>1. ASSUME NEW s \in SUBSET W, Cardinality(s) <= 0 PROVE s = {}
  <2>1. IsFiniteSet(s) /\ Cardinality(s) \in Nat
    BY FS_Subset, FS_CardinalityType
  <2>2. Cardinality(s) = 0
    BY <2>1, <1>1
  <2> QED
    BY <2>1, <2>2, FS_EmptySet
<1>2. SolvedTo(base, W, f, 0)
  BY <1>1 DEF SolvedTo, JoinsStep
<1> QED
  BY <1>2

LEMMA SolvedNext ==
  ASSUME NEW base, NEW W, IsFiniteSet(W), NEW n \in Nat, NEW f, SolvedTo(base, W, f, n)
  PROVE  \E g : SolvedTo(base, W, g, n + 1)
<1> DEFINE A == {x \in SUBSET W : Cardinality(x) <= n}
           B == {x \in SUBSET W : Cardinality(x) <= n + 1}
           g == [s \in B |-> JoinsStep(f, base, s)]
<1>1. ASSUME NEW s \in B, s # {} PROVE s \ {OneOf(s)} \in A /\ s \ {OneOf(s)} \in B
  <2>1. s \in SUBSET W /\ IsFiniteSet(s) /\ Cardinality(s) <= n + 1
    BY FS_Subset
  <2>2. Cardinality(s) \in Nat /\ Cardinality(s \ {OneOf(s)}) = Cardinality(s) - 1
    BY <1>1, <2>1, OneLess
  <2>3. Cardinality(s \ {OneOf(s)}) <= n /\ Cardinality(s \ {OneOf(s)}) <= n + 1
    BY <2>1, <2>2
  <2> QED
    BY <2>1, <2>3
<1>2. f = [s \in A |-> JoinsStep(f, base, s)]
  BY DEF SolvedTo
<1> HIDE DEF A, B
<1>3. \A s \in A \cap B : g[s] = f[s]
  BY <1>2
<1>4. \A s \in B : JoinsStep(g, base, s) = JoinsStep(f, base, s)
  <2> TAKE s \in B
  <2>1. CASE s = {}
    BY <2>1 DEF JoinsStep
  <2>2. CASE s # {}
    <3>1. g[s \ {OneOf(s)}] = f[s \ {OneOf(s)}]
      BY <2>2, <1>1, <1>3
    <3> HIDE DEF g
    <3> QED
      BY <3>1 DEF JoinsStep
  <2> QED
    BY <2>1, <2>2
<1>5. g = [s \in B |-> JoinsStep(g, base, s)]
  BY <1>4
<1> HIDE DEF g
<1> QED
  BY <1>5 DEF SolvedTo, B

LEMMA FoldSolved ==
  ASSUME NEW base, NEW W, IsFiniteSet(W)
  PROVE  JoinsOf(base, W) = [s \in SUBSET W |-> JoinsStep(JoinsOf(base, W), base, s)]
<1> DEFINE Bad == {n \in Nat : ~\E f : SolvedTo(base, W, f, n)}
<1>1. Bad = {}
  <2> SUFFICES ASSUME Bad # {} PROVE FALSE
    OBVIOUS
  <2>1. Bad \in SUBSET Nat
    OBVIOUS
  <2>2. PICK m \in Bad : \A n \in Bad : m <= n
    <3> HIDE DEF Bad
    <3> QED
      BY <2>1, LeastOf
  <2>3. m # 0
    BY SolvedFirst
  <2>4. m - 1 \in Nat /\ m = (m - 1) + 1 /\ ~(m <= m - 1)
    BY <2>3
  <2>5. m - 1 \notin Bad
    BY <2>2, <2>4
  <2>6. \E f : SolvedTo(base, W, f, m - 1)
    BY <2>4, <2>5
  <2>7. \E f : SolvedTo(base, W, f, (m - 1) + 1)
    BY <2>4, <2>6, SolvedNext
  <2> QED
    BY <2>2, <2>4, <2>7
<1>2. Cardinality(W) \in Nat
  BY FS_CardinalityType
<1>3. PICK f : SolvedTo(base, W, f, Cardinality(W))
  BY <1>1, <1>2
<1>4. {x \in SUBSET W : Cardinality(x) <= Cardinality(W)} = SUBSET W
  BY FS_Subset
<1>5. f = [s \in SUBSET W |-> JoinsStep(f, base, s)]
  BY <1>3, <1>4 DEF SolvedTo
<1> QED
  BY <1>5 DEF JoinsOf

(* What each request keeps, all of them keep. *)
LEMMA FoldStays ==
  ASSUME NEW base, NEW W, IsFiniteSet(W), NEW C, base \in C,
         \A c \in C, r \in W : FtChatJoin(c, r, FALSE) \in C
  PROVE  FoldSet(LAMBDA r, c : FtChatJoin(c, r, FALSE), base, W) \in C
<1> DEFINE f == JoinsOf(base, W)
           Bad == {n \in Nat : \E s \in SUBSET W : Cardinality(s) = n /\ f[s] \notin C}
<1>1. \A s \in SUBSET W : f[s] = JoinsStep(f, base, s)
  <2>1. f = [s \in SUBSET W |-> JoinsStep(f, base, s)]
    BY FoldSolved
  <2> HIDE DEF f
  <2> QED
    BY <2>1
<1> HIDE DEF f
<1>2. Bad = {}
  <2> SUFFICES ASSUME Bad # {} PROVE FALSE
    OBVIOUS
  <2>1. Bad \in SUBSET Nat
    OBVIOUS
  <2>2. PICK m \in Bad : \A n \in Bad : m <= n
    <3> HIDE DEF Bad
    <3> QED
      BY <2>1, LeastOf
  <2>3. PICK s \in SUBSET W : Cardinality(s) = m /\ f[s] \notin C
    OBVIOUS
  <2>4. s # {}
    BY <2>3, <1>1 DEF JoinsStep
  <2>5. IsFiniteSet(s)
    BY FS_Subset
  <2> DEFINE t == s \ {OneOf(s)}
  <2>6. OneOf(s) \in W /\ t \in SUBSET W /\ Cardinality(t) \in Nat /\ Cardinality(t) = m - 1
    BY <2>3, <2>4, <2>5, OneLess
  <2>7. f[t] \in C
    <3>1. Cardinality(t) \notin Bad
      <4> HIDE DEF Bad, t
      <4>1. m \in Nat
        BY <2>1
      <4> QED
        BY <4>1, <2>2, <2>6
    <3> QED
      BY <3>1, <2>6
  <2>8. f[s] = FtChatJoin(f[t], OneOf(s), FALSE)
    BY <1>1, <2>4 DEF JoinsStep
  <2> QED
    BY <2>3, <2>6, <2>7, <2>8
<1>3. Cardinality(W) \in Nat /\ W \in SUBSET W
  BY FS_CardinalityType
<1>4. f[W] \in C
  BY <1>2, <1>3
<1> QED
  BY <1>4, FoldIs DEF f

Fresh(name) == [name |-> name, id |-> NoId, invited |-> FALSE, joined |-> FALSE]
OfName(c, name)     == Find(c, LAMBDA e : e.name = name)
OfId(c, id)         == Find(c, LAMBDA e : e.id = id)
FreeOfName(c, name) == Find(c, LAMBDA e : ~e.joined /\ e.name = name)
FreeOfId(c, id)     == Find(c, LAMBDA e : ~e.joined /\ e.id = id)

LEMMA LeastFound ==
  ASSUME NEW n \in Nat, NEW J \in SUBSET (1..n)
  PROVE  LET i == IF J # {} THEN Min(J) ELSE 0 IN
         i \in 0..n /\ (i = 0 <=> J = {}) /\ (i # 0 => i \in J)
<1>1. CASE J = {}
  BY <1>1
<1>2. CASE J # {}
  <2>1. J \in SUBSET Nat
    OBVIOUS
  <2>2. \E m \in J : \A k \in J : m <= k
    BY <1>2, <2>1, LeastOf
  <2>3. Min(J) \in J
    BY <2>2 DEF Min
  <2>4. Min(J) \in 0..n /\ Min(J) # 0
    <3>1. \A k \in J : k \in 0..n /\ k # 0
      OBVIOUS
    <3> QED
      BY <2>3, <3>1, Zenon
  <2> QED
    BY <1>2, <2>3, <2>4, Zenon
<1> QED
  BY <1>1, <1>2

LEMMA Founds ==
  ASSUME NEW c \in Chat, NEW name, NEW id
  PROVE  LET n == Len(c.entries)
             i == OfName(c, name)
             j == OfId(c, id)
             k == FreeOfName(c, name)
             l == FreeOfId(c, id)
         IN  /\ n \in Nat /\ DOMAIN c.entries = 1..n
             /\ {i, j, k, l} \subseteq 0..n
             /\ i # 0 => c.entries[i].name = name
             /\ j # 0 => c.entries[j].id = id
             /\ k # 0 => ~c.entries[k].joined /\ c.entries[k].name = name
             /\ l # 0 => ~c.entries[l].joined /\ c.entries[l].id = id
             /\ k = 0 => \A x \in 1..n : ~(~c.entries[x].joined /\ c.entries[x].name = name)
             /\ l = 0 => \A x \in 1..n : ~(~c.entries[x].joined /\ c.entries[x].id = id)
<1> DEFINE n == Len(c.entries)
           I == {x \in 1..n : c.entries[x].name = name}
           J == {x \in 1..n : c.entries[x].id = id}
           K == {x \in 1..n : ~c.entries[x].joined /\ c.entries[x].name = name}
           L == {x \in 1..n : ~c.entries[x].joined /\ c.entries[x].id = id}
<1>1. n \in Nat /\ DOMAIN c.entries = 1..n
  BY DEF Chat
<1>2. OfName(c, name) = IF I # {} THEN Min(I) ELSE 0
  BY DEF OfName, Find, SelectInSeq
<1>3. OfId(c, id) = IF J # {} THEN Min(J) ELSE 0
  BY DEF OfId, Find, SelectInSeq
<1>4. FreeOfName(c, name) = IF K # {} THEN Min(K) ELSE 0
  BY DEF FreeOfName, Find, SelectInSeq
<1>5. FreeOfId(c, id) = IF L # {} THEN Min(L) ELSE 0
  BY DEF FreeOfId, Find, SelectInSeq
<1>6. I \subseteq 1..n /\ J \subseteq 1..n /\ K \subseteq 1..n /\ L \subseteq 1..n
  OBVIOUS
<1>7. OfName(c, name) \in 0..n /\ (OfName(c, name) # 0 => OfName(c, name) \in I)
  <2> HIDE DEF n, I
  <2> QED
    BY <1>1, <1>2, <1>6, LeastFound
<1>8. OfId(c, id) \in 0..n /\ (OfId(c, id) # 0 => OfId(c, id) \in J)
  <2> HIDE DEF n, J
  <2> QED
    BY <1>1, <1>3, <1>6, LeastFound
<1>9. /\ FreeOfName(c, name) \in 0..n /\ (FreeOfName(c, name) # 0 => FreeOfName(c, name) \in K)
      /\ FreeOfName(c, name) = 0 => K = {}
  <2> HIDE DEF n, K
  <2> QED
    BY <1>1, <1>4, <1>6, LeastFound
<1>10. /\ FreeOfId(c, id) \in 0..n /\ (FreeOfId(c, id) # 0 => FreeOfId(c, id) \in L)
       /\ FreeOfId(c, id) = 0 => L = {}
  <2> HIDE DEF n, L
  <2> QED
    BY <1>1, <1>5, <1>6, LeastFound
<1> QED
  BY <1>1, <1>7, <1>8, <1>9, <1>10

LEMMA RoomNumbers == NoId \in 0..MaxIds /\ MaxIds \in Nat
BY Toc2RoomsAssumption DEF NoId

LEMMA LookUp ==
  ASSUME NEW c \in Chat, NEW name \in Rooms, NEW id
  PROVE  RoomId(c, name) \in 0..MaxIds /\ RoomNames(c, id) \subseteq Rooms /\ IsFiniteSet(RoomNames(c, id))
<1>1. /\ OfName(c, name) \in 0..Len(c.entries) /\ OfId(c, id) \in 0..Len(c.entries)
      /\ Len(c.entries) \in Nat /\ DOMAIN c.entries = 1..Len(c.entries)
  BY Founds
<1>2. \A i \in DOMAIN c.entries : c.entries[i].id \in 0..MaxIds /\ c.entries[i].name \in Rooms
  <2>1. c.entries \in Seq(Entry)
    BY DEF Chat
  <2>2. \A i \in DOMAIN c.entries : c.entries[i] \in Entry
    BY <2>1
  <2> QED
    BY <2>2 DEF Entry
<1>3. RoomId(c, name) = IF OfName(c, name) = 0 THEN NoId ELSE c.entries[OfName(c, name)].id
  BY DEF RoomId, OfName
<1>4. RoomNames(c, id) = IF OfId(c, id) = 0 THEN {} ELSE {c.entries[OfId(c, id)].name}
  BY DEF RoomNames, OfId
<1>5. OfName(c, name) # 0 => OfName(c, name) \in DOMAIN c.entries
  BY <1>1
<1>6. OfId(c, id) # 0 => OfId(c, id) \in DOMAIN c.entries
  BY <1>1
<1> QED
  BY <1>2, <1>3, <1>4, <1>5, <1>6, RoomNumbers, FS_EmptySet, FS_Singleton

LEMMA FreshIs ==
  ASSUME NEW name \in Rooms
  PROVE  Fresh(name) \in PlainEntry /\ Fresh(name) \in Entry /\ \A r \in Rooms : Fresh(name) \in Unjoined(r) <=> r = name
BY RoomNumbers DEF Fresh, PlainEntry, Entry, Unjoined

LEMMA AddRoomIs ==
  ASSUME NEW c \in Chat, NEW name \in Rooms
  PROVE  AddRoom(c, name) = [c EXCEPT !.entries = <<Fresh(name)>> \o c.entries] /\ AddRoom(c, name) \in Chat
<1>1. AddRoom(c, name) = [c EXCEPT !.entries = <<Fresh(name)>> \o c.entries]
  BY DEF AddRoom, Fresh
<1>2. <<Fresh(name)>> \o c.entries \in Seq(Entry)
  BY FreshIs DEF Chat
<1> HIDE DEF Fresh
<1> QED
  BY <1>1, <1>2 DEF Chat

Commands == {"toc_chat_join", "toc_chat_accept", "toc_chat_leave"}
Ask(cmd, name, id, asked) == [cmd |-> cmd, name |-> name, id |-> id, asked |-> asked]

LEMMA SentRequest ==
  ASSUME NEW c \in Chat, NEW cmd \in Commands,
         NEW name \in Rooms, NEW id \in 0..MaxIds, NEW asked \in Rooms
  PROVE  /\ Ask(cmd, name, id, asked) \in Request
         /\ cmd # "toc_chat_accept" => Ask(cmd, name, id, asked) \in PlainRequest
         /\ Ask(cmd, name, id, asked).cmd = cmd /\ Ask(cmd, name, id, asked).name = name
         /\ Sent(c, cmd, name, id, asked) = [c EXCEPT !.out = Append(c.out, Ask(cmd, name, id, asked))]
         /\ Sent(c, cmd, name, id, asked) \in Chat
<1> DEFINE q == Ask(cmd, name, id, asked)
<1>1. q \in Request /\ q.cmd = cmd /\ q.name = name
  BY DEF Request, Ask, Commands
<1>2. Sent(c, cmd, name, id, asked) = [c EXCEPT !.out = Append(c.out, q)]
  BY DEF Sent, Ask
<1> HIDE DEF q
<1>3. Append(c.out, q) \in Seq(Request)
  BY <1>1 DEF Chat
<1>4. [c EXCEPT !.out = Append(c.out, q)] \in Chat
  BY <1>3 DEF Chat
<1>5. cmd # "toc_chat_accept" => q \in PlainRequest
  BY <1>1 DEF PlainRequest
<1> QED
  BY <1>1, <1>2, <1>4, <1>5 DEF q

(* A name is listed with every request for it. *)
ListedWith(c, d) ==
  d \in Chat /\ d.window = c.window /\ d.up = c.up /\ d.mail = c.mail /\ (Uninvited(c) => Uninvited(d))

LEMMA ChatJoinListed ==
  ASSUME NEW c \in Chat, NEW asked \in Rooms, NEW bare \in BOOLEAN
  PROVE  ListedWith(c, ChatJoin(c, asked, bare))
<1> DEFINE name == JoinsFor(c, asked, bare)
           i    == OfName(c, name)
           id   == RoomId(c, name)
           p    == AddRoom(c, name)
<1>1. name \in Rooms
  <2>1. c.entries \in Seq(Entry)
    BY DEF Chat
  <2>2. c.entries # <<>> => Head(c.entries) \in Entry
    BY <2>1
  <2> QED
    BY <2>2 DEF JoinsFor, Entry
<1>2. ChatJoin(c, asked, bare) = IF i # 0 /\ c.entries[i].invited
                                 THEN Sent(c, "toc_chat_accept", name, id, asked)
                                 ELSE Sent(p, "toc_chat_join", name, NoId, asked)
  BY DEF ChatJoin, OfName
<1> HIDE DEF name
<1>3. i \in 0..Len(c.entries) /\ Len(c.entries) \in Nat /\ DOMAIN c.entries = 1..Len(c.entries)
  BY Founds
<1>4. id \in 0..MaxIds /\ NoId \in 0..MaxIds
  BY <1>1, LookUp, RoomNumbers
<1>5. p = [c EXCEPT !.entries = <<Fresh(name)>> \o c.entries] /\ p \in Chat
  BY <1>1, AddRoomIs
<1> HIDE DEF i, id, p
<1>6. CASE i # 0 /\ c.entries[i].invited
  <2> DEFINE d == Sent(c, "toc_chat_accept", name, id, asked)
             q == Ask("toc_chat_accept", name, id, asked)
  <2>1. d = [c EXCEPT !.out = Append(c.out, q)] /\ d \in Chat
    <3>1. "toc_chat_accept" \in Commands
      BY DEF Commands
    <3> QED
      BY <3>1, <1>1, <1>4, SentRequest
  <2> HIDE DEF d, q
  <2>2. d.window = c.window /\ d.up = c.up /\ d.mail = c.mail
    BY <2>1 DEF Chat
  <2>3. ~Uninvited(c)
    <3>1. i \in DOMAIN c.entries
      BY <1>3, <1>6
    <3> QED
      BY <3>1, <1>6 DEF Uninvited, PlainEntry
  <2> QED
    BY <1>2, <1>6, <2>1, <2>2, <2>3 DEF ListedWith, d
<1>7. CASE ~(i # 0 /\ c.entries[i].invited)
  <2> DEFINE d == Sent(p, "toc_chat_join", name, NoId, asked)
             q == Ask("toc_chat_join", name, NoId, asked)
             e == Fresh(name)
  <2>1. /\ d = [p EXCEPT !.out = Append(p.out, q)] /\ d \in Chat
        /\ q \in Request /\ q \in PlainRequest
        /\ \A r \in Rooms : q \in JoinOf(r) <=> name = r
    <3>1. "toc_chat_join" \in Commands /\ "toc_chat_join" # "toc_chat_accept"
      BY DEF Commands
    <3>2. d = [p EXCEPT !.out = Append(p.out, q)] /\ d \in Chat
      <4>1. p \in Chat /\ NoId \in 0..MaxIds
        BY <1>4, <1>5
      <4> QED
        BY <4>1, <3>1, <1>1, SentRequest
    <3>4. q \in Request /\ q.cmd = "toc_chat_join" /\ q.name = name
      BY <3>1, <1>1, <1>4, <1>5, SentRequest
    <3>5. q \in PlainRequest
      BY <3>4 DEF PlainRequest
    <3>3. \A r \in Rooms : q \in JoinOf(r) <=> name = r
      BY <3>4 DEF JoinOf
    <3> QED
      BY <3>2, <3>3, <3>4, <3>5
  <2>2. e \in PlainEntry /\ e \in Entry /\ \A r \in Rooms : e \in Unjoined(r) <=> r = name
    BY <1>1, FreshIs
  <2> HIDE DEF d, q, e
  <2>3. /\ d.window = c.window /\ d.up = c.up /\ d.mail = c.mail /\ d.fault = c.fault
        /\ d.entries = <<e>> \o c.entries /\ d.out = Append(c.out, q)
    BY <1>5, <2>1 DEF Chat, e
  <2>4. c.entries \in Seq(Entry) /\ c.out \in Seq(Request) /\ c.mail \in Seq(Reply)
    BY DEF Chat
  <2>5. ASSUME Uninvited(c) PROVE Uninvited(d)
    <3>1. c.entries \in Seq(PlainEntry) /\ c.out \in Seq(PlainRequest) /\ c.mail \in Seq(PlainReply)
      BY <2>5 DEF Uninvited
    <3>2. d.entries \in Seq(PlainEntry) /\ d.out \in Seq(PlainRequest) /\ d.mail \in Seq(PlainReply)
      <4>1. <<e>> \in Seq(PlainEntry)
        BY <2>2
      <4>2. <<e>> \o c.entries \in Seq(PlainEntry)
        BY <4>1, <3>1
      <4>3. Append(c.out, q) \in Seq(PlainRequest)
        BY <3>1, <2>1
      <4> QED
        BY <4>2, <4>3, <3>1, <2>3
    <3>3. ASSUME NEW r \in Rooms PROVE Awaited(d, r) <= Times(d.entries, Unjoined(r))
      <4>1. Awaited(c, r) <= Times(c.entries, Unjoined(r))
        BY <2>5 DEF Uninvited
      <4>2. /\ Times(c.entries, Unjoined(r)) \in Nat /\ Times(c.out, JoinOf(r)) \in Nat
            /\ Times(c.mail, JoinedAs(r)) \in Nat
        BY <2>4, WhereFinite
      <4>3. /\ r = name => Times(d.entries, Unjoined(r)) = Times(c.entries, Unjoined(r)) + 1
            /\ r # name => Times(d.entries, Unjoined(r)) = Times(c.entries, Unjoined(r))
        BY <2>2, <2>3, <2>4, TimesFirst
      <4>4. /\ r = name => Times(d.out, JoinOf(r)) = Times(c.out, JoinOf(r)) + 1
            /\ r # name => Times(d.out, JoinOf(r)) = Times(c.out, JoinOf(r))
        <5>1. /\ q \in JoinOf(r) => Times(Append(c.out, q), JoinOf(r)) = Times(c.out, JoinOf(r)) + 1
              /\ q \notin JoinOf(r) => Times(Append(c.out, q), JoinOf(r)) = Times(c.out, JoinOf(r))
          BY <2>1, <2>4, TimesAppend
        <5> QED
          BY <5>1, <2>1, <2>3
      <4> QED
        BY <4>1, <4>2, <4>3, <4>4, <2>3 DEF Awaited
    <3>4. ~d.fault
      BY <2>3, <2>5 DEF Uninvited
    <3> QED
      BY <3>2, <3>3, <3>4 DEF Uninvited
  <2> QED
    BY <1>2, <1>7, <2>1, <2>3, <2>5 DEF ListedWith, d
<1> QED
  BY <1>6, <1>7

LEMMA FtJoinListed ==
  ASSUME NEW c \in Chat, NEW asked \in Rooms, NEW bare \in BOOLEAN
  PROVE  ListedWith(c, FtChatJoin(c, asked, bare))
<1>1. ListedWith(c, c)
  BY DEF ListedWith
<1> QED
  BY <1>1, ChatJoinListed DEF FtChatJoin

LEMMA SetOfIs ==
  ASSUME NEW c \in Chat, NEW i \in 0..Len(c.entries), NEW e, i # 0 => e \in Entry
  PROVE  LET d == IF i = 0 THEN c ELSE [c EXCEPT !.entries = [c.entries EXCEPT ![i] = e]] IN
         /\ d \in Chat
         /\ d.known = c.known /\ d.window = c.window /\ d.out = c.out /\ d.mail = c.mail
         /\ d.up = c.up /\ d.fault = c.fault
         /\ d.entries = IF i = 0 THEN c.entries ELSE [c.entries EXCEPT ![i] = e]
<1>1. CASE i = 0
  BY <1>1
<1>2. CASE i # 0
  <2>1. c.entries \in Seq(Entry) /\ i \in DOMAIN c.entries
    BY <1>2 DEF Chat
  <2>2. [c.entries EXCEPT ![i] = e] \in Seq(Entry)
    BY <1>2, <2>1
  <2> DEFINE z == [c.entries EXCEPT ![i] = e]
  <2> HIDE DEF z
  <2>3. [c EXCEPT !.entries = z] \in Chat
    BY <2>2 DEF Chat, z
  <2> QED
    BY <1>2, <2>3 DEF Chat, z
<1> QED
  BY <1>1, <1>2

(* What is written in an entry that is found. *)
EntryPut(c, i, e) == IF i = 0 THEN c ELSE [c EXCEPT !.entries = [c.entries EXCEPT ![i] = e]]

LEMMA SetIdIs ==
  ASSUME NEW c, NEW name, NEW id
  PROVE  SetId(c, name, id) =
           EntryPut(c, FreeOfName(c, name), [c.entries[FreeOfName(c, name)] EXCEPT !.id = id])
BY DEF SetId, SetOf, FreeOfName, EntryPut

LEMMA SetJoinedIs ==
  ASSUME NEW c, NEW id
  PROVE  SetJoined(c, id) =
           EntryPut(c, FreeOfId(c, id), [c.entries[FreeOfId(c, id)] EXCEPT !.joined = TRUE])
BY DEF SetJoined, SetOf, FreeOfId, EntryPut

LEMMA SetInvitedIs ==
  ASSUME NEW c, NEW name
  PROVE  SetInvited(c, name) =
           EntryPut(c, OfName(c, name), [c.entries[OfName(c, name)] EXCEPT !.invited = TRUE])
BY DEF SetInvited, SetOf, OfName, EntryPut

(* As but for the list. *)
ButEntries(c, d) ==
  /\ d \in Chat
  /\ d.known = c.known /\ d.window = c.window /\ d.out = c.out /\ d.mail = c.mail
  /\ d.up = c.up /\ d.fault = c.fault

LEMMA EntryChanged ==
  ASSUME NEW e \in Entry, NEW id \in 0..MaxIds
  PROVE  /\ [e EXCEPT !.id = id] \in Entry
         /\ [e EXCEPT !.joined = TRUE] \in Entry
         /\ [e EXCEPT !.invited = TRUE] \in Entry
BY DEF Entry

LEMMA Places ==
  ASSUME NEW c \in Chat, NEW i \in 0..Len(c.entries), i # 0
  PROVE  i \in DOMAIN c.entries /\ c.entries[i] \in Entry
<1>1. c.entries \in Seq(Entry)
  BY DEF Chat
<1>2. DOMAIN c.entries = 1..Len(c.entries) /\ Len(c.entries) \in Nat
  BY <1>1
<1>3. i \in DOMAIN c.entries
  BY <1>2
<1> QED
  BY <1>1, <1>3

LEMMA EntryPutIs ==
  ASSUME NEW c \in Chat, NEW i \in 0..Len(c.entries), NEW e, i # 0 => e \in Entry
  PROVE  /\ ButEntries(c, EntryPut(c, i, e))
         /\ EntryPut(c, i, e).entries = IF i = 0 THEN c.entries ELSE [c.entries EXCEPT ![i] = e]
BY SetOfIs DEF EntryPut, ButEntries

LEMMA NotedIs ==
  ASSUME NEW c \in Chat, NEW name \in Rooms, NEW id \in 0..MaxIds
  PROVE  ButEntries(c, SetId(c, name, id)) /\ ButEntries(c, SetJoined(c, id)) /\ ButEntries(c, SetInvited(c, name))
<1>1. FreeOfName(c, name) \in 0..Len(c.entries)
  BY Founds
<1>2. FreeOfId(c, id) \in 0..Len(c.entries)
  BY Founds
<1>3. OfName(c, name) \in 0..Len(c.entries)
  BY Founds
<1>4. ButEntries(c, SetId(c, name, id))
  BY <1>1, Places, EntryChanged, EntryPutIs, SetIdIs
<1>5. ButEntries(c, SetJoined(c, id))
  BY <1>2, Places, EntryChanged, EntryPutIs, SetJoinedIs
<1>6. ButEntries(c, SetInvited(c, name))
  BY <1>3, Places, EntryChanged, EntryPutIs, SetInvitedIs
<1> QED
  BY <1>4, <1>5, <1>6

JoinedNow(e, id) == [e EXCEPT !.id = id, !.joined = TRUE]

(* What the search for a waiting entry by number returns. *)
LEMMA FoundById ==
  ASSUME NEW c \in Chat, NEW id, NEW j, j = FreeOfId(c, id)
  PROVE  /\ j \in 0..Len(c.entries) /\ (j # 0 => ~c.entries[j].joined /\ c.entries[j].id = id)
         /\ DOMAIN c.entries = 1..Len(c.entries)
         /\ j = 0 => \A k \in 1..Len(c.entries) : ~(~c.entries[k].joined /\ c.entries[k].id = id)
BY Founds

(* With nobody invited, the oldest-waiting entry of the room is the one that CHAT_JOIN
   changes: the other entries that are not joined have no number. *)
LEMMA BothNoted ==
  ASSUME NEW c \in Chat, c.entries \in Seq(PlainEntry), NEW name \in Rooms, NEW id \in 0..MaxIds, id # NoId,
         NEW i, i = FreeOfName(c, name), i # 0
  PROVE  SetJoined(SetId(c, name, id), id).entries = [c.entries EXCEPT ![i] = JoinedNow(c.entries[i], id)]
<1> DEFINE x == [c.entries[i] EXCEPT !.id = id]
           d == SetId(c, name, id)
           j == FreeOfId(d, id)
           y == [x EXCEPT !.joined = TRUE]
<1>1. i \in 0..Len(c.entries) /\ ~c.entries[i].joined /\ c.entries[i].name = name
  BY Founds
<1>2. i \in DOMAIN c.entries /\ c.entries[i] \in Entry
  BY <1>1, Places
<1>3. x \in Entry /\ x.id = id /\ ~x.joined
  BY <1>1, <1>2 DEF Entry
<1>4. y = JoinedNow(c.entries[i], id) /\ y \in Entry
  BY <1>2 DEF Entry, JoinedNow
<1>5. d = EntryPut(c, i, x)
  BY SetIdIs
<1> HIDE DEF x, y, d
<1>6. ButEntries(c, d) /\ d.entries = [c.entries EXCEPT ![i] = x]
  BY <1>1, <1>3, <1>5, EntryPutIs
<1>7. d \in Chat /\ i \in DOMAIN d.entries /\ d.entries[i] = x
  BY <1>2, <1>6 DEF ButEntries
<1>8. /\ j \in 0..Len(d.entries) /\ (j # 0 => ~d.entries[j].joined /\ d.entries[j].id = id)
      /\ DOMAIN d.entries = 1..Len(d.entries)
      /\ j = 0 => \A k \in 1..Len(d.entries) : ~(~d.entries[k].joined /\ d.entries[k].id = id)
  <2>1. d \in Chat
    BY <1>7
  <2> QED
    BY <2>1, FoundById
<1>9. j # 0
  BY <1>3, <1>7, <1>8
<1>10. j \in DOMAIN d.entries
  BY <1>7, <1>8, <1>9, Places
<1>11. j = i
  <2> SUFFICES ASSUME j # i PROVE FALSE
    OBVIOUS
  <2>1. j \in DOMAIN c.entries /\ d.entries[j] = c.entries[j]
    BY <1>6, <1>10
  <2>2. ~c.entries[j].joined /\ c.entries[j].id = id /\ c.entries[j] \in PlainEntry
    BY <2>1, <1>8, <1>9
  <2> QED
    BY <2>2 DEF PlainEntry
<1> HIDE DEF j
<1>12. SetJoined(d, id) = EntryPut(d, i, y)
  BY <1>7, <1>11, SetJoinedIs DEF y, j
<1>13. EntryPut(d, i, y).entries = [d.entries EXCEPT ![i] = y]
  <2>1. i \in 0..Len(d.entries) /\ i # 0
    BY <1>8, <1>9, <1>11
  <2> QED
    BY <2>1, <1>4, <1>7, EntryPutIs
<1>14. [d.entries EXCEPT ![i] = y] = [c.entries EXCEPT ![i] = y]
  BY <1>2, <1>6
<1> QED
  BY <1>4, <1>12, <1>13, <1>14 DEF d

(* The list and what is under way, by themselves: all that Uninvited is about. *)
LEMMA UninvitedIs ==
  ASSUME NEW c, NEW d, Uninvited(c), ~d.fault, d.entries = c.entries, d.out = c.out, d.mail = c.mail
  PROVE  Uninvited(d)
BY DEF Uninvited, Awaited

(* Replies come and go. *)
ReplyOf(kind, name, id) == [kind |-> kind, name |-> name, id |-> id]
ReplyKinds == {"CHAT_JOIN", "CHAT_INVITE", "CHAT_LEFT", "ERROR"}

LEMMA SaidReply ==
  ASSUME NEW c \in Chat, NEW kind \in ReplyKinds, NEW name \in Rooms, NEW id \in 0..MaxIds
  PROVE  /\ ReplyOf(kind, name, id) \in Reply
         /\ ReplyOf(kind, name, id).kind = kind /\ ReplyOf(kind, name, id).name = name
         /\ ReplyOf(kind, name, id).id = id
         /\ Says(c, kind, name, id) = [c EXCEPT !.mail = Append(c.mail, ReplyOf(kind, name, id))]
         /\ Says(c, kind, name, id) \in Chat
         /\ Says(c, kind, name, id).window = c.window
<1> DEFINE m == ReplyOf(kind, name, id)
<1>1. m \in Reply /\ m.kind = kind /\ m.name = name /\ m.id = id
  BY DEF Reply, ReplyOf, ReplyKinds
<1>2. Says(c, kind, name, id) = [c EXCEPT !.mail = Append(c.mail, m)]
  BY DEF Says, ReplyOf
<1> HIDE DEF m
<1>3. Append(c.mail, m) \in Seq(Reply)
  BY <1>1 DEF Chat
<1>4. [c EXCEPT !.mail = Append(c.mail, m)] \in Chat /\ [c EXCEPT !.mail = Append(c.mail, m)].window = c.window
  BY <1>3 DEF Chat
<1> QED
  BY <1>1, <1>2, <1>4 DEF m

(* A reply other than that one has joined or is invited. *)
LEMMA SaidOther ==
  ASSUME NEW c \in Chat, NEW kind \in {"CHAT_LEFT", "ERROR"}, NEW name \in Rooms, NEW id \in 0..MaxIds,
         Uninvited(c)
  PROVE  Uninvited(Says(c, kind, name, id))
<1> DEFINE m == ReplyOf(kind, name, id)
           d == Says(c, kind, name, id)
<1>1. kind \in ReplyKinds
  BY DEF ReplyKinds
<1>2. m \in Reply /\ m.kind = kind
  BY <1>1, SaidReply
<1>3. d = [c EXCEPT !.mail = Append(c.mail, m)]
  BY <1>1, SaidReply
<1> HIDE DEF m, d
<1>4. d.entries = c.entries /\ d.out = c.out /\ d.fault = c.fault /\ d.mail = Append(c.mail, m)
  BY <1>3 DEF Chat
<1>5. m \in PlainReply /\ \A r \in Rooms : m \notin JoinedAs(r)
  BY <1>2 DEF PlainReply, JoinedAs
<1>6. c.mail \in Seq(PlainReply) /\ c.mail \in Seq(Reply)
  BY DEF Uninvited, Chat
<1>7. d.mail \in Seq(PlainReply)
  BY <1>4, <1>5, <1>6
<1>8. \A r \in Rooms : Times(d.mail, JoinedAs(r)) = Times(c.mail, JoinedAs(r))
  BY <1>2, <1>4, <1>5, <1>6, TimesAppend
<1> QED
  BY <1>4, <1>7, <1>8 DEF Uninvited, Awaited, d

(* The first request is taken: it counts for its room, if it is to join. *)
LEMMA RequestTaken ==
  ASSUME NEW c \in Chat, c.out # <<>>
  PROVE  LET d == [c EXCEPT !.out = Tail(@)]
         IN  /\ d \in Chat /\ d.window = c.window /\ Head(c.out) \in Request
             /\ Uninvited(c) => Uninvited(d) /\ Head(c.out) \in PlainRequest
<1> DEFINE d == [c EXCEPT !.out = Tail(@)]
           q == Head(c.out)
<1>1. c.out \in Seq(Request)
  BY DEF Chat
<1>2. Tail(c.out) \in Seq(Request) /\ q \in Request
  BY <1>1
<1>3. d \in Chat /\ d.window = c.window /\ d.out = Tail(c.out) /\ d.entries = c.entries /\ d.mail = c.mail
      /\ d.fault = c.fault
  BY <1>2 DEF Chat
<1> HIDE DEF d, q
<1>4. ASSUME Uninvited(c) PROVE Uninvited(d) /\ q \in PlainRequest
  <2>1. c.out \in Seq(PlainRequest)
    BY <1>4 DEF Uninvited
  <2>2. d.out \in Seq(PlainRequest) /\ q \in PlainRequest
    BY <1>3, <2>1 DEF q
  <2>3. ASSUME NEW r \in Rooms PROVE Awaited(d, r) <= Awaited(c, r) /\ Awaited(c, r) \in Nat /\ Awaited(d, r) \in Nat
    <3>1. /\ Head(c.out) \in JoinOf(r) => Times(c.out, JoinOf(r)) = Times(d.out, JoinOf(r)) + 1
          /\ Head(c.out) \notin JoinOf(r) => Times(c.out, JoinOf(r)) = Times(d.out, JoinOf(r))
      BY <1>1, <1>3, TimesTail
    <3>2. Times(c.out, JoinOf(r)) \in Nat /\ Times(d.out, JoinOf(r)) \in Nat
      BY <1>1, <1>2, <1>3, WhereFinite
    <3>3. Times(c.mail, JoinedAs(r)) \in Nat
      BY WhereFinite DEF Chat
    <3> QED
      BY <3>1, <3>2, <3>3, <1>3 DEF Awaited
  <2>4. ASSUME NEW r \in Rooms PROVE Awaited(d, r) <= Times(d.entries, Unjoined(r))
    <3>1. Awaited(c, r) <= Times(c.entries, Unjoined(r))
      BY <1>4 DEF Uninvited
    <3>2. Times(c.entries, Unjoined(r)) \in Nat
      BY WhereFinite DEF Chat
    <3> QED
      BY <3>1, <3>2, <2>3, <1>3
  <2> QED
    BY <1>3, <1>4, <2>2, <2>4 DEF Uninvited
<1> QED
  BY <1>2, <1>3, <1>4 DEF d, q

(* A request to join is answered: as many are awaited as before. *)
LEMMA JoinAnswered ==
  ASSUME NEW c \in Chat, c.out # <<>>, Uninvited(c), Head(c.out).cmd = "toc_chat_join",
         NEW id \in 0..MaxIds, id # NoId
  PROVE  Uninvited(Says([c EXCEPT !.out = Tail(@)], "CHAT_JOIN", Head(c.out).name, id))
<1> DEFINE q == Head(c.out)
           p == [c EXCEPT !.out = Tail(@)]
           m == ReplyOf("CHAT_JOIN", q.name, id)
           d == Says(p, "CHAT_JOIN", q.name, id)
<1>1. p \in Chat /\ q \in Request /\ Uninvited(p)
  BY RequestTaken
<1>2. q.name \in Rooms
  BY <1>1 DEF Request
<1>3. p.out = Tail(c.out) /\ p.entries = c.entries /\ p.mail = c.mail /\ p.fault = c.fault
  BY DEF Chat
<1> HIDE DEF p
<1>4. "CHAT_JOIN" \in ReplyKinds
  BY DEF ReplyKinds
<1>5. m \in Reply /\ m.kind = "CHAT_JOIN" /\ m.name = q.name /\ m.id = id
  BY <1>1, <1>2, <1>4, SaidReply
<1>6. d = [p EXCEPT !.mail = Append(p.mail, m)]
  BY <1>1, <1>2, <1>4, SaidReply
<1> HIDE DEF m, d, q
<1>7. d.out = Tail(c.out) /\ d.entries = c.entries /\ d.mail = Append(c.mail, m) /\ d.fault = c.fault
  BY <1>1, <1>3, <1>6 DEF Chat
<1>8. m \in PlainReply /\ \A r \in Rooms : m \in JoinedAs(r) <=> r = q.name
  BY <1>5 DEF PlainReply, JoinedAs
<1>9. \A r \in Rooms : q \in JoinOf(r) <=> r = q.name
  BY <1>1 DEF JoinOf, q
<1>10. c.mail \in Seq(Reply) /\ c.out \in Seq(Request) /\ c.entries \in Seq(Entry)
  BY DEF Chat
<1>11. d.out \in Seq(PlainRequest) /\ d.mail \in Seq(PlainReply) /\ d.entries \in Seq(PlainEntry)
  <2>1. c.mail \in Seq(PlainReply) /\ p.out \in Seq(PlainRequest) /\ c.entries \in Seq(PlainEntry)
    BY <1>1 DEF Uninvited
  <2>2. Append(c.mail, m) \in Seq(PlainReply)
    BY <2>1, <1>8
  <2> QED
    BY <2>1, <2>2, <1>3, <1>7
<1>12. ASSUME NEW r \in Rooms PROVE Awaited(d, r) <= Times(d.entries, Unjoined(r))
  <2>1. Awaited(c, r) <= Times(c.entries, Unjoined(r))
    BY DEF Uninvited
  <2>2. /\ q \in JoinOf(r) => Times(c.out, JoinOf(r)) = Times(Tail(c.out), JoinOf(r)) + 1
        /\ q \notin JoinOf(r) => Times(c.out, JoinOf(r)) = Times(Tail(c.out), JoinOf(r))
    BY <1>10, TimesTail DEF q
  <2>3. /\ m \in JoinedAs(r) => Times(Append(c.mail, m), JoinedAs(r)) = Times(c.mail, JoinedAs(r)) + 1
        /\ m \notin JoinedAs(r) => Times(Append(c.mail, m), JoinedAs(r)) = Times(c.mail, JoinedAs(r))
    BY <1>5, <1>10, TimesAppend
  <2>4. Tail(c.out) \in Seq(Request)
    BY <1>10
  <2>5. /\ Times(c.out, JoinOf(r)) \in Nat /\ Times(Tail(c.out), JoinOf(r)) \in Nat
        /\ Times(c.mail, JoinedAs(r)) \in Nat
    BY <1>10, <2>4, WhereFinite
  <2>6. Awaited(d, r) = Awaited(c, r)
    BY <2>2, <2>3, <2>5, <1>7, <1>8, <1>9 DEF Awaited
  <2> QED
    BY <2>1, <2>6, <1>7
<1>13. ~d.fault
  BY <1>7 DEF Uninvited
<1> QED
  BY <1>11, <1>12, <1>13 DEF Uninvited, d, p, q

LEMMA ReplyTaken ==
  ASSUME NEW c \in Chat, c.mail # <<>>
  PROVE  LET d == [c EXCEPT !.mail = Tail(@)]
         IN  /\ d \in Chat /\ d.window = c.window /\ Head(c.mail) \in Reply /\ d.entries = c.entries /\ d.out = c.out
             /\ d.mail = Tail(c.mail) /\ d.fault = c.fault /\ d.known = c.known
             /\ Uninvited(c) => Uninvited(d) /\ Head(c.mail) \in PlainReply
<1> DEFINE d == [c EXCEPT !.mail = Tail(@)]
           m == Head(c.mail)
<1>1. c.mail \in Seq(Reply)
  BY DEF Chat
<1>2. Tail(c.mail) \in Seq(Reply) /\ m \in Reply
  BY <1>1
<1>3. d \in Chat /\ d.window = c.window /\ d.mail = Tail(c.mail) /\ d.entries = c.entries /\ d.out = c.out
      /\ d.fault = c.fault /\ d.known = c.known
  BY <1>2 DEF Chat
<1> HIDE DEF d, m
<1>4. ASSUME Uninvited(c) PROVE Uninvited(d) /\ m \in PlainReply
  <2>1. c.mail \in Seq(PlainReply)
    BY <1>4 DEF Uninvited
  <2>2. d.mail \in Seq(PlainReply) /\ m \in PlainReply
    BY <1>3, <2>1 DEF m
  <2>3. ASSUME NEW r \in Rooms PROVE Awaited(d, r) <= Awaited(c, r) /\ Awaited(c, r) \in Nat /\ Awaited(d, r) \in Nat
    <3>1. /\ Head(c.mail) \in JoinedAs(r) => Times(c.mail, JoinedAs(r)) = Times(d.mail, JoinedAs(r)) + 1
          /\ Head(c.mail) \notin JoinedAs(r) => Times(c.mail, JoinedAs(r)) = Times(d.mail, JoinedAs(r))
      BY <1>1, <1>3, TimesTail
    <3>2. Times(c.mail, JoinedAs(r)) \in Nat /\ Times(d.mail, JoinedAs(r)) \in Nat
      BY <1>1, <1>2, <1>3, WhereFinite
    <3>3. Times(c.out, JoinOf(r)) \in Nat
      BY WhereFinite DEF Chat
    <3> QED
      BY <3>1, <3>2, <3>3, <1>3 DEF Awaited
  <2>4. ASSUME NEW r \in Rooms PROVE Awaited(d, r) <= Times(d.entries, Unjoined(r))
    <3>1. Awaited(c, r) <= Times(c.entries, Unjoined(r))
      BY <1>4 DEF Uninvited
    <3>2. Times(c.entries, Unjoined(r)) \in Nat
      BY WhereFinite DEF Chat
    <3> QED
      BY <3>1, <3>2, <2>3, <1>3
  <2> QED
    BY <1>3, <1>4, <2>2, <2>4 DEF Uninvited
<1> QED
  BY <1>2, <1>3, <1>4 DEF d, m

(* Whatever is read of CHAT_JOIN, at most one more window is open. *)
WindowsWith(w, room) == [r \in Rooms |-> IF r \in room THEN "online" ELSE w[r]]

LEMMA OneMoreOpen ==
  ASSUME NEW c, NEW d, NEW room, IsFiniteSet(room), IsFiniteSet(OpenRooms(c)), OpenRooms(d) \subseteq OpenRooms(c) \cup room
  PROVE  IsFiniteSet(OpenRooms(d))
<1>1. IsFiniteSet(OpenRooms(c) \cup room)
  BY FS_Union
<1> QED
  BY <1>1, FS_Subset

LEMMA GotJoinTyped ==
  ASSUME NEW c \in Chat, NEW name \in Rooms, NEW id \in 0..MaxIds
  PROVE  /\ GotChatJoin(c, name, id) \in Chat
         /\ IsFiniteSet(OpenRooms(c)) => IsFiniteSet(OpenRooms(GotChatJoin(c, name, id)))
         /\ FreeOfName(c, name) # 0 =>
              LET noted == SetJoined(SetId(c, name, id), id)
                  d     == GotChatJoin(c, name, id)
              IN  d.entries = noted.entries /\ d.out = c.out /\ d.mail = c.mail /\ d.fault = c.fault
<1> DEFINE half  == SetId(c, name, id)
           noted == SetJoined(half, id)
           room  == RoomNames(noted, id)
           w     == WindowsWith(noted.window, room)
           d     == GotChatJoin(c, name, id)
<1>1. ButEntries(c, half)
  BY NotedIs
<1>2. half \in Chat
  BY <1>1 DEF ButEntries
<1>3. ButEntries(half, noted)
  <2> HIDE DEF half
  <2> QED
    BY <1>2, NotedIs
<1>4. /\ noted \in Chat
      /\ noted.known = c.known /\ noted.window = c.window /\ noted.out = c.out /\ noted.mail = c.mail
      /\ noted.fault = c.fault
  BY <1>1, <1>3 DEF ButEntries
<1>5. room \subseteq Rooms /\ IsFiniteSet(room)
  <2> HIDE DEF noted
  <2> QED
    BY <1>4, LookUp
<1>6. CASE FreeOfName(c, name) = 0
  <2>1. d = [c EXCEPT !.fault = TRUE]
    BY <1>6 DEF GotChatJoin, FreeOfName
  <2> HIDE DEF d
  <2>2. d \in Chat /\ d.window = c.window
    BY <2>1 DEF Chat
  <2>3. OpenRooms(d) = OpenRooms(c)
    BY <2>2 DEF OpenRooms
  <2> QED
    BY <1>6, <2>2, <2>3 DEF d
<1>7. CASE FreeOfName(c, name) # 0
  <2>1. d = [noted EXCEPT !.known = noted.known \cup room, !.window = w]
    BY <1>7 DEF GotChatJoin, FreeOfName, WindowsWith
  <2>2. w \in [Rooms -> {"none", "offline", "online"}]
    <3> HIDE DEF noted, room
    <3> QED
      BY <1>4 DEF WindowsWith, Chat
  <2>3. \A r \in Rooms : r \notin room => w[r] = c.window[r]
    <3> HIDE DEF noted, room
    <3> QED
      BY <1>4 DEF WindowsWith
  <2> HIDE DEF d, w, noted, room
  <2>4. d \in Chat
    BY <2>1, <2>2, <1>4, <1>5 DEF Chat
  <2>5. d.window = w /\ d.entries = noted.entries /\ d.out = c.out /\ d.mail = c.mail /\ d.fault = c.fault
    BY <2>1, <1>4 DEF Chat
  <2>6. OpenRooms(d) \subseteq OpenRooms(c) \cup room
    BY <2>3, <2>5 DEF OpenRooms
  <2> QED
    BY <2>4, <2>5, <2>6, <1>5, <1>7, OneMoreOpen DEF d, noted
<1> QED
  BY <1>6, <1>7

LEMMA JoinRead ==
  ASSUME NEW p \in Chat, p.mail # <<>>, Uninvited(p), Head(p.mail).kind = "CHAT_JOIN"
  PROVE  Uninvited(GotChatJoin([p EXCEPT !.mail = Tail(@)], Head(p.mail).name, Head(p.mail).id))
<1> DEFINE m    == Head(p.mail)
           c    == [p EXCEPT !.mail = Tail(@)]
           name == m.name
           id   == m.id
           i    == FreeOfName(c, name)
           e    == JoinedNow(c.entries[i], id)
           d    == GotChatJoin(c, name, id)
<1>1. /\ c \in Chat /\ m \in PlainReply /\ m \in Reply /\ c.entries = p.entries /\ c.out = p.out
      /\ c.mail = Tail(p.mail) /\ c.fault = p.fault
  BY ReplyTaken
<1>2. Uninvited(c)
  BY ReplyTaken
<1>3. name \in Rooms /\ id \in 0..MaxIds /\ id # NoId
  BY <1>1 DEF Reply, PlainReply
<1>4. p.mail \in Seq(Reply) /\ p.entries \in Seq(Entry) /\ p.out \in Seq(Request) /\ Tail(p.mail) \in Seq(Reply)
  BY DEF Chat
<1>5. ~p.fault /\ c.entries \in Seq(PlainEntry) /\ c.out \in Seq(PlainRequest) /\ c.mail \in Seq(PlainReply)
  BY <1>2 DEF Uninvited
<1> HIDE DEF c
<1>6. ASSUME NEW r \in Rooms
      PROVE  /\ Awaited(p, r) <= Times(p.entries, Unjoined(r))
             /\ Times(p.entries, Unjoined(r)) \in Nat /\ Times(p.out, JoinOf(r)) \in Nat
             /\ Times(Tail(p.mail), JoinedAs(r)) \in Nat
             /\ r = name => Times(p.mail, JoinedAs(r)) = Times(Tail(p.mail), JoinedAs(r)) + 1
             /\ r # name => Times(p.mail, JoinedAs(r)) = Times(Tail(p.mail), JoinedAs(r))
  <2>1. Awaited(p, r) <= Times(p.entries, Unjoined(r))
    BY DEF Uninvited
  <2>2. /\ Times(p.entries, Unjoined(r)) \in Nat /\ Times(p.out, JoinOf(r)) \in Nat
        /\ Times(Tail(p.mail), JoinedAs(r)) \in Nat
    BY <1>4, WhereFinite
  <2>3. /\ m \in JoinedAs(r) => Times(p.mail, JoinedAs(r)) = Times(Tail(p.mail), JoinedAs(r)) + 1
        /\ m \notin JoinedAs(r) => Times(p.mail, JoinedAs(r)) = Times(Tail(p.mail), JoinedAs(r))
    BY <1>4, TimesTail
  <2>4. m \in JoinedAs(r) <=> r = name
    BY <1>1 DEF JoinedAs
  <2> QED
    BY <2>1, <2>2, <2>3, <2>4
<1> HIDE DEF m, name, id
<1>7. i # 0
  <2> SUFFICES ASSUME i = 0 PROVE FALSE
    OBVIOUS
  <2>1. /\ DOMAIN c.entries = 1..Len(c.entries)
        /\ \A x \in 1..Len(c.entries) : ~(~c.entries[x].joined /\ c.entries[x].name = name)
    BY <1>1, Founds
  <2>2. Where(p.entries, Unjoined(name)) = {}
    BY <1>1, <2>1 DEF Where, Unjoined
  <2>3. Times(p.entries, Unjoined(name)) = 0
    BY <2>2, FS_EmptySet DEF Times
  <2> QED
    BY <2>3, <1>3, <1>6 DEF Awaited
<1>14. i \in DOMAIN c.entries /\ ~c.entries[i].joined /\ c.entries[i].name = name
  BY <1>1, <1>7, Founds, Places
<1>8. /\ i \in DOMAIN c.entries /\ ~c.entries[i].joined /\ c.entries[i].name = name
      /\ SetJoined(SetId(c, name, id), id).entries = [c.entries EXCEPT ![i] = e]
  <2> HIDE DEF i
  <2>1. /\ c \in Chat /\ c.entries \in Seq(PlainEntry) /\ name \in Rooms /\ id \in 0..MaxIds
        /\ id # NoId /\ i = FreeOfName(c, name) /\ i # 0
    BY <1>1, <1>3, <1>5, <1>7 DEF i
  <2> HIDE DEF d
  <2> QED
    BY <2>1, <1>14, BothNoted
<1>9. d.entries = [c.entries EXCEPT ![i] = e] /\ d.out = c.out /\ d.mail = c.mail /\ d.fault = c.fault
  BY <1>1, <1>3, <1>7, <1>8, GotJoinTyped
<1> HIDE DEF d, i
<1>10. c.entries[i] \in PlainEntry /\ c.entries[i] \in Entry
  BY <1>1, <1>4, <1>5, <1>8
<1>11. e \in Entry /\ e \in PlainEntry /\ e.joined /\ e.name = name
  BY <1>3, <1>8, <1>10 DEF Entry, PlainEntry, JoinedNow
<1>12. d.entries \in Seq(PlainEntry)
  <2> HIDE DEF e
  <2> QED
    BY <1>5, <1>8, <1>9, <1>11
<1>13. ASSUME NEW r \in Rooms PROVE Awaited(d, r) <= Times(d.entries, Unjoined(r))
  <2>1. e \notin Unjoined(r) /\ (c.entries[i] \in Unjoined(r) <=> r = name)
    BY <1>8, <1>10, <1>11 DEF Unjoined
  <2> HIDE DEF e
  <2>2. d.entries \in Seq(Entry) /\ c.entries \in Seq(Entry)
    BY <1>1, <1>4, <1>8, <1>9, <1>11
  <2>3. /\ r = name => Times(c.entries, Unjoined(r)) = Times(d.entries, Unjoined(r)) + 1
        /\ r # name => Times(c.entries, Unjoined(r)) = Times(d.entries, Unjoined(r))
    BY <2>1, <2>2, <1>8, <1>9, <1>11, TimesPut
  <2>4. Times(d.entries, Unjoined(r)) \in Nat
    BY <2>2, WhereFinite
  <2> QED
    BY <2>3, <2>4, <1>1, <1>6, <1>9 DEF Awaited
<1> QED
  BY <1>1, <1>5, <1>9, <1>12, <1>13 DEF Uninvited, d, c, m, name, id

(* CHAT_INVITE and CHAT_LEFT. *)
LEMMA GotInviteTyped ==
  ASSUME NEW c \in Chat, NEW name \in Rooms, NEW id \in 0..MaxIds
  PROVE  GotChatInvite(c, name, id) \in Chat /\ GotChatInvite(c, name, id).window = c.window
<1>1. AddRoom(c, name) \in Chat /\ AddRoom(c, name).window = c.window
  <2> DEFINE z == <<Fresh(name)>> \o c.entries
  <2>1. AddRoom(c, name) = [c EXCEPT !.entries = z] /\ AddRoom(c, name) \in Chat
    BY AddRoomIs
  <2> HIDE DEF z
  <2> QED
    BY <2>1 DEF Chat
<1>2. ButEntries(AddRoom(c, name), SetInvited(AddRoom(c, name), name))
  BY <1>1, NotedIs
<1>3. SetInvited(AddRoom(c, name), name) \in Chat /\ SetInvited(AddRoom(c, name), name).window = c.window
  BY <1>1, <1>2 DEF ButEntries
<1>4. ButEntries(SetInvited(AddRoom(c, name), name), SetId(SetInvited(AddRoom(c, name), name), name, id))
  BY <1>3, NotedIs
<1> QED
  BY <1>3, <1>4 DEF ButEntries, GotChatInvite

LEMMA GotLeftKeeps ==
  ASSUME NEW c \in Chat, NEW id \in 0..MaxIds
  PROVE  /\ GotChatLeft(c, id) \in Chat
         /\ Uninvited(c) => Uninvited(GotChatLeft(c, id))
         /\ IsFiniteSet(OpenRooms(c)) => IsFiniteSet(OpenRooms(GotChatLeft(c, id)))
<1> DEFINE left == RoomNames(c, id) \cap c.known
           out  == [c EXCEPT !.known = @ \ left]
           r    == CHOOSE x \in left : TRUE
           off  == [out EXCEPT !.window[r] = "offline"]
           d    == GotChatLeft(c, id)
<1>1. d = IF left = {} THEN c ELSE IF c.window[r] = "none" THEN out ELSE FtChatJoin(off, r, FALSE)
  BY DEF GotChatLeft
<1>2. left \subseteq Rooms
  BY DEF Chat
<1> HIDE DEF left, d
<1>3. /\ out \in Chat /\ out.window = c.window /\ out.entries = c.entries /\ out.out = c.out
      /\ out.mail = c.mail /\ out.fault = c.fault
  BY DEF Chat
<1> HIDE DEF out
<1>4. CASE left = {}
  BY <1>1, <1>4 DEF d
<1>5. CASE left # {} /\ c.window[r] = "none"
  <2>1. d = out
    BY <1>1, <1>5
  <2>2. OpenRooms(out) = OpenRooms(c)
    BY <1>3 DEF OpenRooms
  <2> QED
    BY <2>1, <2>2, <1>3, UninvitedIs DEF d, Uninvited
<1>6. CASE left # {} /\ c.window[r] # "none"
  <2>1. d = FtChatJoin(off, r, FALSE)
    BY <1>1, <1>6
  <2>2. r \in Rooms
    BY <1>2, <1>6
  <2> HIDE DEF r
  <2>3. /\ off \in Chat /\ off.entries = c.entries /\ off.out = c.out
        /\ off.mail = c.mail /\ off.fault = c.fault
    BY <1>3, <2>2 DEF Chat
  <2>4. \A x \in Rooms : off.window[x] # "none" => c.window[x] # "none"
    BY <1>3, <1>6, <2>2 DEF Chat
  <2> HIDE DEF off
  <2>5. ListedWith(off, d)
    BY <2>1, <2>2, <2>3, FtJoinListed
  <2>6. Uninvited(c) => Uninvited(off)
    BY <2>3, UninvitedIs DEF Uninvited
  <2>7. OpenRooms(d) \subseteq OpenRooms(c)
    BY <2>4, <2>5 DEF ListedWith, OpenRooms
  <2> QED
    BY <2>5, <2>6, <2>7, FS_Subset DEF ListedWith, d
<1> QED
  BY <1>4, <1>5, <1>6

Hosts == [ids : [Rooms -> 0..MaxIds], last : 0..MaxIds, in : SUBSET Rooms]

LEMMA RoomsInvIs ==
  RoomsInv <=> /\ chat \in Chat /\ hosts \in Hosts /\ habit \in Habit
               /\ IsFiniteSet(OpenRooms(chat)) /\ (habit.invites \/ Uninvited(chat))
BY DEF RoomsInv, RoomsTypeOK, Hosts

(* A step of this side, in which the server has no part. *)
LEMMA OursKept ==
  ASSUME RoomsInv, UNCHANGED <<hosts, habit>>,
         chat' \in Chat, IsFiniteSet(OpenRooms(chat')), habit.invites \/ Uninvited(chat')
  PROVE  RoomsInv'
BY DEF RoomsInv, RoomsTypeOK, OpenRooms, Uninvited, Awaited

LEMMA RoomsBegin == RoomsInit => RoomsInv
<1> SUFFICES ASSUME RoomsInit PROVE RoomsInv
  OBVIOUS
<1>1. habit \in Habit /\ hosts \in Hosts
  BY Toc2RoomsAssumption, RoomNumbers DEF RoomsInit, Hosts
<1>2. chat = [entries |-> <<>>, known |-> {}, window |-> [r \in Rooms |-> "none"],
              out |-> <<>>, mail |-> <<>>, up |-> FALSE, fault |-> FALSE]
  BY DEF RoomsInit
<1>3. chat \in Chat
  <2>1. <<>> \in Seq(Entry) /\ <<>> \in Seq(Request) /\ <<>> \in Seq(Reply)
    OBVIOUS
  <2> QED
    BY <1>2, <2>1 DEF Chat
<1>4. OpenRooms(chat) = {}
  BY <1>2 DEF OpenRooms
<1>5. Uninvited(chat)
  <2>1. <<>> \in Seq(PlainEntry) /\ <<>> \in Seq(PlainRequest) /\ <<>> \in Seq(PlainReply)
    OBVIOUS
  <2>2. chat.entries = <<>> /\ chat.out = <<>> /\ chat.mail = <<>> /\ ~chat.fault
    BY <1>2
  <2>3. ASSUME NEW r \in Rooms PROVE Awaited(chat, r) <= Times(chat.entries, Unjoined(r))
    BY <2>2, TimesNone DEF Awaited
  <2> QED
    BY <2>1, <2>2, <2>3 DEF Uninvited
<1> QED
  BY <1>1, <1>3, <1>4, <1>5, FS_EmptySet, RoomsInvIs

LEMMA UaJoinKeeps == \A r \in Rooms, bare \in BOOLEAN : RoomsInv /\ UaJoin(r, bare) => RoomsInv'
<1> SUFFICES ASSUME NEW r \in Rooms, NEW bare \in BOOLEAN, RoomsInv, UaJoin(r, bare) PROVE RoomsInv'
  OBVIOUS
<1> DEFINE c == [chat EXCEPT !.window[r] = "offline"]
<1>1. chat' = FtChatJoin(c, r, bare) /\ UNCHANGED <<hosts, habit>>
  BY DEF UaJoin
<1>2. chat \in Chat /\ IsFiniteSet(OpenRooms(chat)) /\ (habit.invites \/ Uninvited(chat))
  BY RoomsInvIs
<1>3. /\ c \in Chat /\ c.entries = chat.entries /\ c.out = chat.out /\ c.mail = chat.mail
      /\ c.fault = chat.fault /\ \A x \in Rooms : x # r => c.window[x] = chat.window[x]
  BY <1>2 DEF Chat
<1> HIDE DEF c
<1>4. ListedWith(c, chat')
  BY <1>1, <1>3, FtJoinListed
<1>5. habit.invites \/ Uninvited(chat')
  BY <1>2, <1>3, <1>4, UninvitedIs DEF ListedWith, Uninvited
<1>6. OpenRooms(chat') \subseteq OpenRooms(chat) \cup {r}
  BY <1>3, <1>4 DEF ListedWith, OpenRooms
<1>7. IsFiniteSet(OpenRooms(chat'))
  BY <1>2, <1>6, OneMoreOpen, FS_Singleton
<1> QED
  BY <1>1, <1>4, <1>5, <1>7, OursKept DEF ListedWith

LEMMA PartKeeps ==
  ASSUME NEW c \in Chat, NEW r \in Rooms
  PROVE  /\ ChatPart(c, r) \in Chat /\ ChatPart(c, r).window = c.window
         /\ Uninvited(c) => Uninvited(ChatPart(c, r))
<1> DEFINE id == RoomId(c, r)
           d  == Sent(c, "toc_chat_leave", r, id, r)
           q  == Ask("toc_chat_leave", r, id, r)
<1>1. ChatPart(c, r) = c \/ ChatPart(c, r) = d
  BY DEF ChatPart
<1>2. id \in 0..MaxIds
  BY LookUp
<1> HIDE DEF id
<1>3. "toc_chat_leave" \in Commands
  BY DEF Commands
<1>4. q \in Request /\ q.cmd = "toc_chat_leave"
  BY <1>2, <1>3, SentRequest
<1>5. d = [c EXCEPT !.out = Append(c.out, q)] /\ d \in Chat
  BY <1>2, <1>3, SentRequest
<1> HIDE DEF d, q
<1>6. /\ d.window = c.window /\ d.entries = c.entries /\ d.mail = c.mail /\ d.fault = c.fault
      /\ d.out = Append(c.out, q)
  BY <1>5 DEF Chat
<1>7. q \in PlainRequest /\ \A x \in Rooms : q \notin JoinOf(x)
  BY <1>4 DEF PlainRequest, JoinOf
<1>8. ASSUME Uninvited(c) PROVE Uninvited(d)
  <2>1. c.out \in Seq(PlainRequest) /\ c.out \in Seq(Request)
    BY <1>8 DEF Uninvited, Chat
  <2>2. d.out \in Seq(PlainRequest)
    BY <2>1, <1>6, <1>7
  <2>3. \A x \in Rooms : Times(d.out, JoinOf(x)) = Times(c.out, JoinOf(x))
    BY <2>1, <1>4, <1>6, <1>7, TimesAppend
  <2> QED
    BY <2>2, <2>3, <1>6, <1>8 DEF Uninvited, Awaited
<1> QED
  BY <1>1, <1>5, <1>6, <1>8

LEMMA UaCloseKeeps == \A r \in Rooms : RoomsInv /\ UaClose(r) => RoomsInv'
<1> SUFFICES ASSUME NEW r \in Rooms, RoomsInv, UaClose(r) PROVE RoomsInv'
  OBVIOUS
<1> DEFINE c == ChatPart(chat, r)
<1>1. chat' = [c EXCEPT !.window[r] = "none"] /\ UNCHANGED <<hosts, habit>>
  BY DEF UaClose
<1>2. chat \in Chat /\ IsFiniteSet(OpenRooms(chat)) /\ (habit.invites \/ Uninvited(chat))
  BY RoomsInvIs
<1>3. c \in Chat /\ c.window = chat.window /\ (Uninvited(chat) => Uninvited(c))
  BY <1>2, PartKeeps
<1> HIDE DEF c
<1>4. /\ chat' \in Chat /\ chat'.entries = c.entries /\ chat'.out = c.out /\ chat'.mail = c.mail
      /\ chat'.fault = c.fault /\ \A x \in Rooms : chat'.window[x] # "none" => chat.window[x] # "none"
  BY <1>1, <1>3 DEF Chat
<1>5. habit.invites \/ Uninvited(chat')
  BY <1>2, <1>3, <1>4, UninvitedIs DEF Uninvited
<1>6. OpenRooms(chat') \subseteq OpenRooms(chat)
  BY <1>4 DEF OpenRooms
<1>7. IsFiniteSet(OpenRooms(chat'))
  BY <1>2, <1>6, FS_Subset
<1> QED
  BY <1>1, <1>4, <1>5, <1>7, OursKept

LEMMA HostedIs ==
  ASSUME NEW h \in Hosts, NEW r \in Rooms, h.ids[r] # NoId \/ h.last < MaxIds
  PROVE  /\ Hosted(h, r) \in Hosts
         /\ Hosted(h, r).ids[r] \in 0..MaxIds /\ Hosted(h, r).ids[r] # NoId
<1>1. CASE h.ids[r] # NoId
  BY <1>1 DEF Hosted, Hosts
<1>2. CASE h.ids[r] = NoId
  <2> DEFINE n == h.last + 1
  <2>1. n \in 0..MaxIds /\ n # NoId
    BY <1>2, RoomNumbers DEF Hosts, NoId
  <2>2. Hosted(h, r) = [h EXCEPT !.last = n, !.ids[r] = n]
    BY <1>2 DEF Hosted, Hosts
  <2> HIDE DEF n
  <2> DEFINE f == [h.ids EXCEPT ![r] = n]
  <2>3. f \in [Rooms -> 0..MaxIds] /\ f[r] = n
    BY <2>1 DEF Hosts
  <2>4. Hosted(h, r) = [h EXCEPT !.last = n, !.ids = f]
    BY <2>2
  <2> HIDE DEF f
  <2>5. Hosted(h, r) \in Hosts /\ Hosted(h, r).ids = f
    BY <2>1, <2>3, <2>4 DEF Hosts
  <2> QED
    BY <2>1, <2>3, <2>5
<1> QED
  BY <1>1, <1>2

(* A step of the server, to whom the windows are nothing. *)
LEMMA TheirsKept ==
  ASSUME RoomsInv, UNCHANGED habit, hosts' \in Hosts,
         chat' \in Chat, chat'.window = chat.window, habit.invites \/ Uninvited(chat')
  PROVE  RoomsInv'
<1>1. OpenRooms(chat') = OpenRooms(chat)
  BY DEF OpenRooms
<1> QED
  BY <1>1 DEF RoomsInv, RoomsTypeOK, Hosts, OpenRooms, Uninvited, Awaited

LEMMA RequestArrivesKeeps == RoomsInv /\ RequestArrives => RoomsInv'
<1> SUFFICES ASSUME RoomsInv, RequestArrives PROVE RoomsInv'
  OBVIOUS
<1> DEFINE q    == Head(chat.out)
           rest == [chat EXCEPT !.out = Tail(@)]
           lets(r) == /\ hosts.ids[r] # NoId \/ hosts.last < MaxIds
                      /\ hosts' = [Hosted(hosts, r) EXCEPT !.in = @ \cup {r}]
                      /\ chat' = Says(rest, "CHAT_JOIN", r, hosts'.ids[r])
           refuses == chat' = Says(rest, "ERROR", q.name, NoId) /\ UNCHANGED hosts
           silent  == chat' = rest /\ UNCHANGED hosts
           left    == /\ \E named \in SUBSET Rooms : hosts' = [hosts EXCEPT !.in = @ \ named]
                      /\ chat' = Says(rest, "CHAT_LEFT", q.name, q.id)
<1>1. chat.out # <<>> /\ UNCHANGED habit
  BY DEF RequestArrives
<1>2. chat \in Chat /\ hosts \in Hosts /\ (habit.invites \/ Uninvited(chat))
  BY RoomsInvIs
<1>3. \/ q.cmd = "toc_chat_join" /\ lets(q.name)
      \/ q.cmd = "toc_chat_accept" /\ \E r \in Rooms : lets(r)
      \/ refuses \/ silent \/ left
  <2> HIDE DEF q, rest
  <2> QED
    BY DEF RequestArrives, q, rest
<1>4. rest \in Chat /\ rest.window = chat.window /\ q \in Request
  BY <1>1, <1>2, RequestTaken
<1>5. Uninvited(chat) => Uninvited(rest) /\ q \in PlainRequest
  BY <1>1, <1>2, RequestTaken
<1>6. q.name \in Rooms /\ q.id \in 0..MaxIds /\ NoId \in 0..MaxIds
  BY <1>4, RoomNumbers DEF Request
<1>7. {"CHAT_JOIN", "CHAT_LEFT", "ERROR"} \subseteq ReplyKinds
  BY DEF ReplyKinds
<1>8. ASSUME NEW r \in Rooms, lets(r)
      PROVE  /\ hosts' \in Hosts /\ hosts'.ids[r] \in 0..MaxIds /\ hosts'.ids[r] # NoId
             /\ chat' = Says(rest, "CHAT_JOIN", r, hosts'.ids[r])
             /\ chat' \in Chat /\ chat'.window = chat.window
  <2> DEFINE h == Hosted(hosts, r)
  <2>1. h \in Hosts /\ h.ids[r] \in 0..MaxIds /\ h.ids[r] # NoId
    BY <1>2, <1>8, HostedIs
  <2>2. hosts' = [h EXCEPT !.in = @ \cup {r}] /\ chat' = Says(rest, "CHAT_JOIN", r, hosts'.ids[r])
    BY <1>8
  <2> HIDE DEF h, rest
  <2>3. hosts' \in Hosts /\ hosts'.ids[r] \in 0..MaxIds /\ hosts'.ids[r] # NoId
    BY <2>1, <2>2 DEF Hosts
  <2> HIDE DEF lets
  <2>4. chat' \in Chat /\ chat'.window = rest.window
    BY <2>2, <2>3, <1>4, <1>7, SaidReply
  <2> QED
    BY <2>2, <2>3, <2>4, <1>4
<1>9. CASE q.cmd = "toc_chat_join" /\ lets(q.name)
  <2>1. /\ hosts' \in Hosts /\ hosts'.ids[q.name] \in 0..MaxIds /\ hosts'.ids[q.name] # NoId
        /\ chat' = Says(rest, "CHAT_JOIN", q.name, hosts'.ids[q.name])
        /\ chat' \in Chat /\ chat'.window = chat.window
    BY <1>6, <1>8, <1>9
  <2>2. Uninvited(chat) => Uninvited(chat')
    BY <2>1, <1>1, <1>2, <1>9, JoinAnswered
  <2> QED
    BY <2>1, <2>2, <1>1, <1>2, TheirsKept
<1>10. CASE q.cmd = "toc_chat_accept" /\ \E r \in Rooms : lets(r)
  <2>1. ~Uninvited(chat)
    BY <1>5, <1>10 DEF PlainRequest
  <2>2. hosts' \in Hosts /\ chat' \in Chat /\ chat'.window = chat.window
    BY <1>8, <1>10
  <2> QED
    BY <2>1, <2>2, <1>1, <1>2, TheirsKept
<1> HIDE DEF rest, q
<1>11. CASE refuses
  <2>1. chat' \in Chat /\ chat'.window = chat.window
    BY <1>4, <1>6, <1>7, <1>11, SaidReply
  <2>2. Uninvited(rest) => Uninvited(chat')
    BY <1>4, <1>6, <1>11, SaidOther
  <2> QED
    BY <2>1, <2>2, <1>1, <1>2, <1>5, <1>11, TheirsKept
<1>12. CASE silent
  BY <1>1, <1>2, <1>4, <1>5, <1>12, TheirsKept
<1>13. CASE left
  <2>1. chat' \in Chat /\ chat'.window = chat.window
    BY <1>4, <1>6, <1>7, <1>13, SaidReply
  <2>2. Uninvited(rest) => Uninvited(chat')
    BY <1>4, <1>6, <1>13, SaidOther
  <2>3. hosts' \in Hosts
    BY <1>2, <1>13 DEF Hosts
  <2> QED
    BY <2>1, <2>2, <2>3, <1>1, <1>2, <1>5, TheirsKept
<1> QED
  BY <1>3, <1>9, <1>10, <1>11, <1>12, <1>13

LEMMA InvitesKeeps == RoomsInv /\ Invites => RoomsInv'
<1> SUFFICES ASSUME RoomsInv, Invites PROVE RoomsInv'
  OBVIOUS
<1>1. PICK r \in Rooms \ hosts.in :
        /\ hosts.ids[r] # NoId \/ hosts.last < MaxIds
        /\ hosts' = Hosted(hosts, r)
        /\ chat' = Says(chat, "CHAT_INVITE", r, hosts'.ids[r])
  BY DEF Invites
<1>2. chat \in Chat /\ hosts \in Hosts /\ r \in Rooms
  BY RoomsInvIs
<1>3. hosts' \in Hosts /\ hosts'.ids[r] \in 0..MaxIds
  BY <1>1, <1>2, HostedIs
<1>4. chat' \in Chat /\ chat'.window = chat.window
  <2>1. "CHAT_INVITE" \in ReplyKinds
    BY DEF ReplyKinds
  <2> QED
    BY <2>1, <1>1, <1>2, <1>3, SaidReply
<1>5. habit.invites /\ UNCHANGED habit
  BY DEF Invites
<1> QED
  BY <1>3, <1>4, <1>5, TheirsKept

LEMMA DropsKeeps == RoomsInv /\ Drops => RoomsInv'
<1> SUFFICES ASSUME RoomsInv, Drops PROVE RoomsInv'
  OBVIOUS
<1>1. PICK r \in hosts.in :
        hosts' = [hosts EXCEPT !.in = @ \ {r}] /\ chat' = Says(chat, "CHAT_LEFT", r, hosts.ids[r])
  BY DEF Drops
<1>2. chat \in Chat /\ hosts \in Hosts /\ (habit.invites \/ Uninvited(chat))
  BY RoomsInvIs
<1>3. r \in Rooms /\ hosts.ids[r] \in 0..MaxIds /\ hosts' \in Hosts
  BY <1>1, <1>2 DEF Hosts
<1>4. chat' \in Chat /\ chat'.window = chat.window
  <2>1. "CHAT_LEFT" \in ReplyKinds
    BY DEF ReplyKinds
  <2> QED
    BY <2>1, <1>1, <1>2, <1>3, SaidReply
<1>5. Uninvited(chat) => Uninvited(chat')
  BY <1>1, <1>2, <1>3, SaidOther
<1>6. UNCHANGED habit
  BY DEF Drops
<1> QED
  BY <1>2, <1>3, <1>4, <1>5, <1>6, TheirsKept

LEMMA RoomEndsKeeps == RoomsInv /\ RoomEnds => RoomsInv'
<1> SUFFICES ASSUME RoomsInv, RoomEnds PROVE RoomsInv'
  OBVIOUS
<1>1. PICK r \in Rooms : hosts' = [hosts EXCEPT !.ids[r] = NoId]
  BY DEF RoomEnds
<1>2. UNCHANGED <<chat, habit>>
  BY DEF RoomEnds
<1>3. chat \in Chat /\ hosts \in Hosts /\ (habit.invites \/ Uninvited(chat))
  BY RoomsInvIs
<1>4. hosts' \in Hosts
  BY <1>1, <1>3, RoomNumbers DEF Hosts
<1>5. chat' \in Chat /\ chat'.window = chat.window /\ (habit.invites \/ Uninvited(chat'))
  BY <1>2, <1>3
<1> QED
  BY <1>2, <1>4, <1>5, TheirsKept

LEMMA RoomReplyKeeps == RoomsInv /\ Receive => RoomsInv'
<1> SUFFICES ASSUME RoomsInv, Receive PROVE RoomsInv'
  OBVIOUS
<1> DEFINE m    == Head(chat.mail)
           rest == [chat EXCEPT !.mail = Tail(@)]
<1>1. chat.mail # <<>> /\ UNCHANGED <<hosts, habit>>
  BY DEF Receive
<1>2. chat \in Chat /\ IsFiniteSet(OpenRooms(chat)) /\ (habit.invites \/ Uninvited(chat))
  BY RoomsInvIs
<1>3. rest \in Chat /\ rest.window = chat.window /\ m \in Reply
  BY <1>1, <1>2, ReplyTaken
<1>4. Uninvited(chat) => Uninvited(rest) /\ m \in PlainReply
  BY <1>1, <1>2, ReplyTaken
<1>5. IsFiniteSet(OpenRooms(rest))
  BY <1>2, <1>3 DEF OpenRooms
<1>6. m.name \in Rooms /\ m.id \in 0..MaxIds /\ m.kind \in ReplyKinds
  BY <1>3 DEF Reply, ReplyKinds
<1>7. CASE m.kind = "CHAT_JOIN"
  <2>1. chat' = GotChatJoin(rest, m.name, m.id)
    BY <1>7 DEF Receive
  <2>2. Uninvited(chat) => Uninvited(chat')
    BY <2>1, <1>1, <1>2, <1>7, JoinRead
  <2> HIDE DEF m, rest
  <2>3. chat' \in Chat /\ IsFiniteSet(OpenRooms(chat'))
    BY <2>1, <1>3, <1>5, <1>6, GotJoinTyped
  <2> QED
    BY <2>2, <2>3, <1>1, <1>2, OursKept
<1>8. CASE m.kind = "CHAT_INVITE"
  <2>1. chat' = GotChatInvite(rest, m.name, m.id)
    BY <1>8 DEF Receive
  <2> HIDE DEF m, rest
  <2>2. chat' \in Chat /\ chat'.window = rest.window
    BY <2>1, <1>3, <1>6, GotInviteTyped
  <2>3. IsFiniteSet(OpenRooms(chat'))
    BY <2>2, <1>5 DEF OpenRooms
  <2>4. habit.invites
    BY <1>2, <1>4, <1>8 DEF PlainReply
  <2> QED
    BY <2>2, <2>3, <2>4, <1>1, OursKept
<1>9. CASE m.kind = "CHAT_LEFT"
  <2>1. chat' = GotChatLeft(rest, m.id)
    BY <1>9 DEF Receive
  <2> HIDE DEF m, rest
  <2>2. chat' \in Chat /\ IsFiniteSet(OpenRooms(chat')) /\ (Uninvited(rest) => Uninvited(chat'))
    BY <2>1, <1>3, <1>5, <1>6, GotLeftKeeps
  <2> QED
    BY <2>2, <1>1, <1>2, <1>4, OursKept
<1>10. CASE m.kind = "ERROR"
  <2>1. chat' = rest
    BY <1>10 DEF Receive
  <2> QED
    BY <2>1, <1>1, <1>2, <1>3, <1>4, <1>5, OursKept
<1> QED
  BY <1>6, <1>7, <1>8, <1>9, <1>10 DEF ReplyKinds

LEMMA RoomsConnectedKeeps == RoomsInv /\ Connected => RoomsInv'
<1> SUFFICES ASSUME RoomsInv, Connected PROVE RoomsInv'
  OBVIOUS
<1> DEFINE base == [chat EXCEPT !.up = TRUE]
           C    == {c \in Chat : c.window = chat.window /\ (Uninvited(chat) => Uninvited(c))}
<1>1. /\ chat' = FoldSet(LAMBDA r, c : FtChatJoin(c, r, FALSE), base, OpenRooms(chat))
      /\ UNCHANGED <<hosts, habit>>
  BY DEF Connected, OpenRooms
<1>2. chat \in Chat /\ IsFiniteSet(OpenRooms(chat)) /\ (habit.invites \/ Uninvited(chat))
  BY RoomsInvIs
<1>3. base \in C
  <2>1. base \in Chat /\ base.window = chat.window /\ base.entries = chat.entries
        /\ base.out = chat.out /\ base.mail = chat.mail /\ base.fault = chat.fault
    BY <1>2 DEF Chat
  <2> HIDE DEF base
  <2> QED
    BY <2>1, UninvitedIs DEF Uninvited
<1>4. \A c \in C, r \in OpenRooms(chat) : FtChatJoin(c, r, FALSE) \in C
  <2> TAKE c \in C, r \in OpenRooms(chat)
  <2>1. c \in Chat /\ r \in Rooms
    BY DEF OpenRooms
  <2>2. ListedWith(c, FtChatJoin(c, r, FALSE))
    BY <2>1, FtJoinListed
  <2> QED
    BY <2>2 DEF ListedWith
<1> HIDE DEF base, C
<1>5. chat' \in C
  BY <1>1, <1>2, <1>3, <1>4, FoldStays
<1>6. chat' \in Chat /\ chat'.window = chat.window /\ (Uninvited(chat) => Uninvited(chat'))
  BY <1>5 DEF C
<1>7. OpenRooms(chat') = OpenRooms(chat)
  BY <1>6 DEF OpenRooms
<1> QED
  BY <1>1, <1>2, <1>6, <1>7, OursKept

LEMMA RoomsLostKeeps == RoomsInv /\ Lost => RoomsInv'
<1> SUFFICES ASSUME RoomsInv, Lost PROVE RoomsInv'
  OBVIOUS
<1> DEFINE w == [r \in Rooms |-> IF chat.window[r] = "online" THEN "offline" ELSE chat.window[r]]
<1>1. /\ chat' = [chat EXCEPT !.up = FALSE, !.known = {}, !.out = <<>>, !.mail = <<>>, !.window = w]
      /\ hosts' = [hosts EXCEPT !.in = {}] /\ UNCHANGED habit
  BY DEF Lost
<1>2. chat \in Chat /\ hosts \in Hosts /\ IsFiniteSet(OpenRooms(chat)) /\ (habit.invites \/ Uninvited(chat))
  BY RoomsInvIs
<1>3. w \in [Rooms -> {"none", "offline", "online"}] /\ \A r \in Rooms : w[r] # "none" => chat.window[r] # "none"
  BY <1>2 DEF Chat
<1> HIDE DEF w
<1>4. <<>> \in Seq(Request) /\ <<>> \in Seq(Reply) /\ <<>> \in Seq(PlainRequest) /\ <<>> \in Seq(PlainReply)
  OBVIOUS
<1>5. /\ chat' \in Chat /\ chat'.window = w /\ chat'.out = <<>> /\ chat'.mail = <<>>
      /\ chat'.entries = chat.entries /\ chat'.fault = chat.fault
  BY <1>1, <1>2, <1>3, <1>4 DEF Chat
<1>6. ASSUME Uninvited(chat) PROVE Uninvited(chat')
  <2>1. ASSUME NEW r \in Rooms PROVE Awaited(chat', r) <= Times(chat'.entries, Unjoined(r))
    <3>1. Times(chat.entries, Unjoined(r)) \in Nat
      BY <1>2, WhereFinite DEF Chat
    <3>2. Awaited(chat', r) = 0
      BY <1>5, TimesNone DEF Awaited
    <3> QED
      BY <3>1, <3>2, <1>5
  <2> QED
    BY <2>1, <1>4, <1>5, <1>6 DEF Uninvited
<1>7. OpenRooms(chat') \subseteq OpenRooms(chat)
  BY <1>3, <1>5 DEF OpenRooms
<1>8. IsFiniteSet(OpenRooms(chat'))
  BY <1>2, <1>7, FS_Subset
<1>9. hosts' \in Hosts /\ habit' \in Habit /\ habit' = habit
  BY <1>1, <1>2, RoomsInvIs DEF Hosts
<1> QED
  BY <1>2, <1>5, <1>6, <1>8, <1>9 DEF RoomsInv, RoomsTypeOK, Hosts, OpenRooms, Uninvited, Awaited

LEMMA RoomsSteps == RoomsInv /\ RoomsNext => RoomsInv'
BY UaJoinKeeps, UaCloseKeeps, RequestArrivesKeeps, InvitesKeeps, DropsKeeps, RoomEndsKeeps,
   RoomReplyKeeps, RoomsConnectedKeeps, RoomsLostKeeps DEF RoomsNext

LEMMA RoomsRest == RoomsInv /\ UNCHANGED roomVars => RoomsInv'
BY DEF RoomsInv, RoomsTypeOK, OpenRooms, Uninvited, Awaited, roomVars

LEMMA RoomsAre == RoomsInv => RoomsTypeOK /\ NoRoomFault
BY DEF RoomsInv, Uninvited, NoRoomFault

-----------------------------------------------------------------------------
(* The drivers side by side. *)

(* Each driver's steps leave the others alone. *)
LEMMA OscarHolds == Spec => []OscarInv
<1>1. Init => OscarInv
  BY OscarBegins DEF Init
<1>2. OscarInv /\ [Next]_driverVars => OscarInv'
  <2>1. Next => OscarNext \/ UNCHANGED oscarVars
    BY DEF Next
  <2>2. UNCHANGED driverVars => UNCHANGED oscarVars
    BY DEF driverVars
  <2> QED
    BY <2>1, <2>2, OscarSteps, OscarRests
<1> QED
  BY <1>1, <1>2, PTL DEF Spec

LEMMA TocHolds == Spec => []TocListInv
<1>1. Init => TocListInv
  BY TocListsBegin DEF Init
<1>2. TocListInv /\ [Next]_driverVars => TocListInv'
  <2>1. Next => TocNext \/ UNCHANGED tocVars
    BY DEF Next
  <2>2. UNCHANGED driverVars => UNCHANGED tocVars
    BY DEF driverVars
  <2> QED
    BY <2>1, <2>2, TocListSteps, TocListsRest
<1> QED
  BY <1>1, <1>2, PTL DEF Spec

LEMMA LilyHolds == Spec => [](LilyInv /\ LilyRoomsInv)
<1>1. Init => LilyInv /\ LilyRoomsInv
  BY LilyBegins, LilyRoomsBegin DEF Init
<1>2. LilyInv /\ LilyRoomsInv /\ [Next]_driverVars => (LilyInv /\ LilyRoomsInv)'
  <2>1. Next => LilyNext \/ UNCHANGED lilyVars
    BY DEF Next
  <2>2. UNCHANGED driverVars => UNCHANGED lilyVars
    BY DEF driverVars
  <2>3. LilyInv /\ LilyNext => LilyInv'
    BY LilySteps
  <2>4. LilyInv /\ LilyRoomsInv /\ LilyNext => LilyRoomsInv'
    BY LilyRoomsSteps
  <2>5. LilyInv /\ LilyRoomsInv /\ UNCHANGED lilyVars => LilyInv' /\ LilyRoomsInv'
    BY LilyRests, LilyRoomsRest
  <2> QED
    BY <2>1, <2>2, <2>3, <2>4, <2>5
<1> QED
  BY <1>1, <1>2, PTL DEF Spec

LEMMA RosterHolds == Spec => []RosterInv
<1>1. Init => RosterInv
  BY RosterBegins DEF Init
<1>2. RosterInv /\ [Next]_driverVars => RosterInv'
  <2>1. Next => RosterNext \/ UNCHANGED rosterVars
    BY DEF Next
  <2>2. UNCHANGED driverVars => UNCHANGED rosterVars
    BY DEF driverVars
  <2> QED
    BY <2>1, <2>2, RosterSteps, RosterRests
<1> QED
  BY <1>1, <1>2, PTL DEF Spec

LEMMA RoomsHold == Spec => []RoomsInv
<1>1. Init => RoomsInv
  BY RoomsBegin DEF Init
<1>2. RoomsInv /\ [Next]_driverVars => RoomsInv'
  <2>1. Next => RoomsNext \/ UNCHANGED roomVars
    BY DEF Next
  <2>2. UNCHANGED driverVars => UNCHANGED roomVars
    BY DEF driverVars
  <2> QED
    BY <2>1, <2>2, RoomsSteps, RoomsRest
<1> QED
  BY <1>1, <1>2, PTL DEF Spec

(* The texts: what is written is of the language's alphabet. *)
TextsInv == TextsTypeOK /\ said \in Seq(Alphabet[language])

LEMMA TextsHold == Spec => []TextsInv
<1>1. Init => TextsInv
  <2> SUFFICES ASSUME TextsInit PROVE TextsInv
    BY DEF Init
  <2>1. said = <<>> /\ language \in Languages
    BY DEF TextsInit
  <2>2. <<>> \in Seq(Alphabet[language]) /\ Len(<<>>) = 0
    OBVIOUS
  <2> QED
    BY <2>1, <2>2, ConversionsAssumption DEF TextsInv, TextsTypeOK
<1>2. TextsInv /\ TextsNext => TextsInv'
  <2> SUFFICES ASSUME TextsInv, NEW ch \in Alphabet[language], Writes(ch) PROVE TextsInv'
    BY DEF TextsNext
  <2>1. said \in Seq(Alphabet[language]) /\ Len(said) < MaxText /\ language' = language
        /\ said' = Append(said, ch) /\ language \in Languages
    BY DEF TextsInv, TextsTypeOK, Writes
  <2>2. said' \in Seq(Alphabet[language']) /\ Len(said') = Len(said) + 1 /\ Len(said) \in Nat
    BY <2>1
  <2>3. Len(said') <= MaxText
    BY <2>1, <2>2, ConversionsAssumption
  <2> QED
    BY <2>1, <2>2, <2>3 DEF TextsInv, TextsTypeOK
<1>3. TextsInv /\ UNCHANGED textVars => TextsInv'
  BY DEF TextsInv, TextsTypeOK, textVars
<1>4. TextsInv /\ [Next]_driverVars => TextsInv'
  <2>1. Next => TextsNext \/ UNCHANGED textVars
    BY DEF Next
  <2>2. UNCHANGED driverVars => UNCHANGED textVars
    BY DEF driverVars
  <2> QED
    BY <2>1, <2>2, <1>2, <1>3
<1> QED
  BY <1>1, <1>4, PTL DEF Spec

(* The variables of every driver keep their types, for any people, rooms, groups, services
   and bounds, as the inductive invariants of the drivers contain. *)
THEOREM TypesKept == Spec => []DriversTypeOK
<1>1. TocListInv /\ RoomsInv /\ LilyInv /\ OscarInv /\ RosterInv /\ TextsInv => DriversTypeOK
  BY TocAre, RoomsAre, LilyAre, OscarAre, RosterAre DEF TocListInv, TextsInv, DriversTypeOK
<1> QED
  BY <1>1, TocHolds, RoomsHold, LilyHolds, OscarHolds, RosterHolds, TextsHold, PTL

(* What waits for a service of OSCAR has a connection on the way to it, and is sent once
   and in order (OSCAR's wantfamily, redirect, FLAPNewData and cleanup), through any
   connections that come and go, for any services and slots: with the exceptions that
   PendingIsServed and ServedInOrder state. *)
THEOREM Serves == Spec => []OscarServes
<1>1. OscarInv => OscarServes
  BY OscarAre DEF OscarServes
<1> QED
  BY <1>1, OscarHolds, PTL

(* Client, wrapper and driver agree on whether there is a session, through any frames
   in any order, with TOC2 and OSCAR (firetalk_callback_disconnect, toc_internal_disconnect,
   and OSCAR:disconnect and FLAP.cleanup). *)
THEOREM LayersAgree == Spec => []DriverLayersAgree
<1>1. OscarInv /\ TocListInv => DriverLayersAgree
  BY OscarAre, TocAre DEF TocListInv, DriverLayersAgree
<1> QED
  BY <1>1, OscarHolds, TocHolds, PTL

(* The client has a buddy in the group that the server has him in, once nothing is under
   way: with OSCAR, whose driver then has the server's groups and items as well
   (OSCAR:buddylist_add and buddylist_remove, the SSI answers and rosters of
   OSCAR-snac.lua), and with TOC2 (toc_got_data's INSERTED2 and DELETED2, the CONFIG2 of
   toc_got_data_connecting, the batch of toc_preselect); through lost sessions, refused
   changes, changes from elsewhere and frames of earlier connections, for any groups and
   numbers: with the exceptions that OscarListsAgree and ListsAgree state. *)
THEOREM ListsMeet == Spec => []DriverListsAgree
<1>1. RosterInv /\ TocListInv => DriverListsAgree
  BY RosterAre, TocListsAre DEF DriverListsAgree
<1> QED
  BY <1>1, RosterHolds, TocHolds, PTL

(* No driver fails an assertion, follows a null pointer or gives a session up by an error
   of its own: not on a CHAT_JOIN of TOC2, for which the list of rooms always has an entry
   that waits (toc_got_data and toc_internal_set_joined, where RoomsInv counts entries and
   answers), not on what SLCP's server notifies of (lily.c), not on frames behind the one
   that ends a connection of OSCAR (FLAPNewData and cleanup), and not on what the server
   tells of its lists (the assertions and indices of the SSI handlers in OSCAR-snac.lua):
   but in the cases that NoRoomFault, NoLilyFault, NoPanic and NoRosterFault name. *)
THEOREM Faultless == Spec => []NoDriverFault
<1>1. RoomsInv /\ LilyInv /\ OscarInv /\ RosterInv => NoDriverFault
  BY RoomsAre, LilyAre, RosterAre DEF OscarInv, NoPanic, NoDriverFault
<1> QED
  BY <1>1, RoomsHold, LilyHolds, OscarHolds, RosterHolds, PTL

(* What SLCP's driver tells of a person is about that person (lily.c's blockwhat and info,
   filled by /FINGER, /WHERE and /INFO in turn), and once nothing is under way nobody is
   shown here or away who is not (lily_user_state, and the events that lily_got_notify
   takes).  The wrapper's rooms and the driver's are then those one is in, through joins
   that are queued and answered, rooms left and destroyed, and sessions lost and begun
   again (lily_preselect, the answers to /WHERE and #$# what, the notices of JOIN and QUIT).
   All this for any people, discussions and bounds: with the exceptions that InfoIsHis,
   LilyPresence and LilyRooms state. *)
THEOREM AsTheServerHas == Spec => []LilyAgrees
<1>1. LilyInv /\ LilyRoomsInv => LilyAgrees
  BY LilyAre, LilyRoomsAre DEF LilyAgrees
<1> QED
  BY <1>1, LilyHolds, PTL
=============================================================================

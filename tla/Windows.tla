------------------------------ MODULE Windows ------------------------------
(***************************************************************************)
(* The rings of windows: conn_t's, from curconn, and in each connection    *)
(* its buddywin_t's, from curbwin.                                         *)
(*                                                                         *)
(* A ring is a sequence that begins with what is in front; going to the    *)
(* next is a rotation.  What is typed goes to the window in front of the   *)
(* connection in front, so that these must change under the user's hands   *)
(* only.  Every round of the main loop ends with statrefresh, which notes  *)
(* what is on the screen; each action here is such a round.                *)
(***************************************************************************)
EXTENDS Integers, FiniteSets
LOCAL INSTANCE SequencesExt

CONSTANTS
  Conns,        \* connections
  WindowKinds,        \* for each, the windows it may have: <<type, name>>, a name a number
  Autosorts     \* values of $autosort: 0, 1 (by name), 2 (by group)

ASSUME WindowsAssumption ==
  /\ \A c \in Conns : WindowKinds[c] \subseteq {"BUDDY", "CHAT", "TRANSFER"} \X Nat
  /\ Autosorts \subseteq 0..2

VARIABLES
  conns,     \* the ring of connections, from curconn
  rings,     \* each one's ring of windows, from curbwin
  marks,     \* waiting, stale (offline, nothing queued) and due (closetime is over)
  seen,      \* windows by viewtime, the last one first
  autosort   \* constant: $autosort

windowVars == <<conns, rings, marks, seen, autosort>>

Wins == UNION {{c} \X WindowKinds[c] : c \in Conns}

WindowsInit ==
  /\ conns \in SetToSeqs(Conns)
  /\ rings = [c \in Conns |-> <<>>]
  /\ marks = [waiting |-> {}, stale |-> {}, due |-> {}]
  /\ seen = <<>>
  /\ autosort \in Autosorts

RangeOf(s)    == {s[i] : i \in DOMAIN s}
Rotate(s, i)  == SubSeq(s, i, Len(s)) \o SubSeq(s, 1, i - 1)
NextIn(s, i)  == IF i = Len(s) THEN 1 ELSE i + 1
FirstFrom(s, i, Test(_)) ==    \* the first place of ring s from i on, or i
  LET js == {j \in DOMAIN s : Test(j)}
      Away(j) == (j - i + Len(s)) % Len(s)
  IN IF js = {} THEN i ELSE CHOOSE j \in js : \A k \in js : Away(j) <= Away(k)
PlaceOf(s, w) == CHOOSE i \in DOMAIN s : s[i] = w

(* bsort's comparators. *)
Before(v, w) ==
  IF autosort = 2 /\ (v[1] = "BUDDY") # (w[1] = "BUDDY") THEN v[1] = "BUDDY"
  ELSE v[2] < w[2]

Sorted(s) ==
  IF autosort = 0 \/ s = <<>> THEN s
  ELSE LET sorted == SortSeq(s, Before)
       IN Rotate(sorted, PlaceOf(sorted, s[1]))

InsertedNext(s, w) == IF w \in RangeOf(s) THEN s ELSE IF s = <<>> THEN <<w>> ELSE InsertAt(s, 2, w)

(* bnewwin: behind the last of the names, unless a greater one comes next. *)
Inserted(s, w) ==
  IF w \in RangeOf(s) THEN s
  ELSE IF s = <<>> THEN <<w>>
  ELSE LET last == FirstFrom(s, 1, LAMBDA i : s[i][2] > s[NextIn(s, i)][2])
           at   == FirstFrom(s, last, LAMBDA i : s[NextIn(s, i)][2] > w[2])
       IN InsertAt(s, at + 1, w)

(* bgetanywin, by name: the first, whatever its type. *)
Named(s, n)  == {i \in DOMAIN s : s[i][2] = n /\ \A j \in 1..i - 1 : s[j][2] # n}

(* bclose: the next window comes to the front in its place. *)
Closed1(s, w) == SelectSeq(s, LAMBDA v : v # w)
-----------------------------------------------------------------------------
InFront(cs, rs) == IF rs[cs[1]] = <<>> THEN {} ELSE {<<cs[1], rs[cs[1]][1]>>}

(* The end of a round: statrefresh and, in it, bupdate, with windows g gone. *)
Round(cs, rs, m) ==
  LET sorted == [c \in Conns |-> Sorted(rs[c])]
      front  == InFront(cs, sorted)
      open   == UNION {{c} \X RangeOf(sorted[c]) : c \in Conns}
      late   == SelectSeq(seen, LAMBDA v : v \in open \ front)
  IN /\ conns' = cs
     /\ rings' = sorted
     /\ marks' = [waiting |-> (m.waiting \cap open) \ front,
                  stale |-> m.stale \cap open, due |-> m.due \cap open]
     /\ seen' = IF front = {} THEN late ELSE <<CHOOSE v \in front : TRUE>> \o late
     /\ UNCHANGED autosort

Ring(c, s) == [rings EXCEPT ![c] = s]

WrittenInFront(c, w, calls) ==
  LET s == Inserted(rings[c], w) IN
  Round(conns, Ring(c, Rotate(s, PlaceOf(s, w))),
        [marks EXCEPT !.waiting = IF calls THEN @ \cup {<<c, w>>} ELSE @])

(* What events do: a window is opened if need be, something is written to it. *)
Written(c, w, calls) ==
  Round(conns, Ring(c, Inserted(rings[c], w)),
        [marks EXCEPT !.waiting = IF calls THEN @ \cup {<<c, w>>} ELSE @])

(* A buddy or a room comes or goes; his temporary window is closed at once. *)
Changes(c, w) ==
  /\ w \in RangeOf(rings[c])
  /\ w[1] # "TRANSFER"
  /\ Round(conns, rings,
           [marks EXCEPT !.stale = IF <<c, w>> \in @ THEN @ \ {<<c, w>>} ELSE @ \cup {<<c, w>>},
                         !.due = @ \ {<<c, w>>}])

Goes(c, w) == w[1] = "BUDDY" /\ w \in RangeOf(rings[c]) /\ Round(conns, Ring(c, Closed1(rings[c], w)), marks)

(* nFIRE_HANDLER(needpass): the user is asked for a password where he is not. *)
NeedPass(c) ==
  /\ conns[1] # c
  /\ Round(Rotate(conns, PlaceOf(conns, c)), rings, marks)

(* Time passes: a window of a temporary buddy may be closed from now on. *)
FallsDue(c, w) ==
  /\ w[1] = "BUDDY" /\ <<c, w>> \in marks.stale \ (marks.waiting \cup marks.due)
  /\ marks' = [marks EXCEPT !.due = @ \cup {<<c, w>>}]
  /\ UNCHANGED <<conns, rings, seen, autosort>>

(* events_winlistmaint in one connection: it goes on until it is back at the
   window in front, and a window closed in front brings the next one there. *)
Maintained(s, due) ==
  IF s = <<>> THEN s
  ELSE IF s[1] \in due THEN Tail(s)
  ELSE SelectSeq(s, LAMBDA w : w \notin due)

WinlistMaint ==
  Round(conns, [c \in Conns |-> Maintained(rings[c], {w \in WindowKinds[c] : <<c, w>> \in marks.due})], marks)
-----------------------------------------------------------------------------
(* What the user does. *)
Here == rings[conns[1]]
NextWindow == Here # <<>> /\ Round(conns, Ring(conns[1], Rotate(Here, NextIn(Here, 1))), marks)
PrevWindow == Here # <<>> /\ Round(conns, Ring(conns[1], Rotate(Here, Len(Here))), marks)
NextConn   == Round(Rotate(conns, NextIn(conns, 1)), rings, marks)
PrevConn   == Round(Rotate(conns, Len(conns)), rings, marks)

GoTo(v) ==
  LET c == v[1]
      i == PlaceOf(conns, c)
      j == PlaceOf(rings[c], v[2])
  IN Round(Rotate(conns, i), Ring(c, Rotate(rings[c], j)), marks)

(* /jump: the first window that waits, in the first connection that has one,
   from the connection the command is given to. *)
WaitingIn(c) == {j \in DOMAIN rings[c] : <<c, rings[c][j]>> \in marks.waiting}
Targets(c) ==
  LET from == Rotate(conns, PlaceOf(conns, c))
      is   == {i \in DOMAIN from : WaitingIn(from[i]) # {}}
  IN {<<from[i], rings[from[i]][j]>> :
        i \in {k \in is : \A l \in is : k <= l},
        j \in UNION {{k \in WaitingIn(from[h]) : \A l \in WaitingIn(from[h]) : k <= l} :
                       h \in {k \in is : \A l \in is : k <= l}}}

Jump(c) == LET ts == Targets(c) IN
  IF ts = {} THEN Round(conns, rings, marks) ELSE GoTo(CHOOSE v \in ts : TRUE)

(* /jump with a name, or /open of somebody who has a window; /open of another. *)
Open(n) ==
  LET c == conns[1] IN
  IF Named(Here, n) # {}
  THEN Round(conns, Ring(c, Rotate(Here, CHOOSE i \in Named(Here, n) : TRUE)), marks)
  ELSE /\ <<"BUDDY", n>> \in WindowKinds[c]
       /\ LET s == Inserted(Here, <<"BUDDY", n>>)
          IN Round(conns, Ring(c, Rotate(s, PlaceOf(s, <<"BUDDY", n>>))), marks)

(* /jumpback: what was seen last of all that is not in front of connection c. *)
JumpBack(c) ==
  LET js == {j \in DOMAIN seen : rings[c] = <<>> \/ seen[j] # <<c, rings[c][1]>>} IN
  IF js = {} THEN Round(conns, rings, marks)
  ELSE GoTo(seen[CHOOSE j \in js : \A k \in js : j <= k])

Close == Here # <<>> /\ Round(conns, Ring(conns[1], Tail(Here)), marks)

(* /closeall: as many steps as there are windows; each finds the one to close
   by its name. *)
ClosedAll(c) ==
  LET all == rings[c]
      left[i \in 0..Len(all)] ==
        IF i = 0 THEN all
        ELSE LET s == left[i - 1] IN
             IF <<c, all[i]>> \in marks.stale /\ Named(s, all[i][2]) # {}
             THEN Closed1(s, s[CHOOSE k \in Named(s, all[i][2]) : TRUE])
             ELSE s
  IN left[Len(all)]

CloseAll == Round(conns, Ring(conns[1], ClosedAll(conns[1])), marks)

UserGoes ==
  \/ NextWindow \/ PrevWindow \/ NextConn \/ PrevConn
  \/ \E c \in Conns : Jump(c) \/ JumpBack(c)
  \/ \E n \in {w[2] : w \in UNION {WindowKinds[c] : c \in Conns}} : Open(n)

Event ==
  \/ \E v \in Wins : \/ \E calls \in BOOLEAN : Written(v[1], v[2], calls)
                     \/ Changes(v[1], v[2]) \/ Goes(v[1], v[2]) \/ FallsDue(v[1], v[2])
  \/ WinlistMaint

WindowsNext == UserGoes \/ Close \/ CloseAll \/ Event \/ (\E c \in Conns : NeedPass(c))
-----------------------------------------------------------------------------
(* Every window is once in its ring, and what is noted is noted of open windows. *)
WindowsTypeOK ==
  /\ conns \in SetToSeqs(Conns)
  /\ \A c \in Conns : IsInjective(rings[c]) /\ RangeOf(rings[c]) \subseteq WindowKinds[c]
  /\ LET open == UNION {{c} \X RangeOf(rings[c]) : c \in Conns}
     IN /\ marks.waiting \cup marks.stale \cup marks.due \subseteq open
        /\ RangeOf(seen) \subseteq open /\ IsInjective(seen)

(* Going round a ring meets the windows in their order, and begins anew once only:
   however windows were opened and closed and whichever is in front. *)
RingsInOrder ==
  \A c \in Conns : LET s == rings[c] IN
    Cardinality({i \in DOMAIN s : IF autosort = 0 THEN s[i][2] > s[NextIn(s, i)][2]
                                  ELSE Before(s[NextIn(s, i)], s[i])}) <= 1

(* What is in front, in any connection, is where the user left it or is gone: no event
   brings anything else there, but for the question for a password. *)
FrontStays ==
  \/ /\ conns' = conns
     /\ \A c \in Conns : rings[c] # <<>> /\ rings[c][1] \in RangeOf(rings'[c])
                           => rings'[c][1] = rings[c][1]
  \/ UserGoes
  \/ \E c \in Conns : NeedPass(c)

(* /jump has a place to go, with unread messages, as long as there are any, in whichever
   connection they are and whichever it is given to. *)
JumpFindsWaiting ==
  \A c \in Conns : marks.waiting # {} =>
    Cardinality(Targets(c)) = 1 /\ Targets(c) \subseteq marks.waiting

(* /jumpback takes the user back and forth between two windows. *)
BackAndForth ==
  Len(seen) > 1 /\ Here # <<>> =>
    IsPrefix(<<seen[2], seen[1]>>, seen') \/ ~JumpBack(conns[1])

(* /closeall closes the windows of the absent, unless another window has the same name;
   and a minute leaves one whose time is over only if it closed the one in front. *)
StaleAreClosed ==
  /\ Cardinality({w[2] : w \in RangeOf(Here)}) = Len(Here) =>
       \/ RangeOf(rings'[conns[1]]) = {w \in RangeOf(Here) : <<conns[1], w>> \notin marks.stale}
       \/ ~CloseAll
  /\ \/ \A v \in marks.due \cap marks'.due : <<v[1], rings[v[1]][1]>> \in marks.due \ marks'.due
     \/ ~WinlistMaint

WindowsStep == FrontStays /\ BackAndForth /\ StaleAreClosed
=============================================================================

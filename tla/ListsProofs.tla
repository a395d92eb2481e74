------------------------------ MODULE ListsProofs ------------------------------
(***************************************************************************)
(* Theorems about the buddy lists of OSCAR and TOC2, for every value of    *)
(* the constants: any buddies, groups and items, any number of frames      *)
(* under way.                                                              *)
(*                                                                         *)
(* What OSCAR's server has told and the driver has not read leads, frame   *)
(* by frame and with none that the driver cannot take, from the driver's   *)
(* list to one that has all that the server has: RosterInv says so.  Each  *)
(* operator has a lemma for what it returns, each frame one for what it    *)
(* keeps.                                                                  *)
(*                                                                         *)
(* Of a TOC2 session, TocInv says what client, wrapper and driver think.   *)
(* Frames of earlier connections may be left in its read buffer.           *)
(* TocListInv says that the frames that are ahead lead, one at a time and  *)
(* in an order that a server keeps to, from what the driver has made of    *)
(* those it has read to what the server has done: how far the sign-on has  *)
(* come, and where the buddy is.                                           *)
(***************************************************************************)
EXTENDS OscarRoster, Toc2, FiniteSetTheorems, WellFoundedInduction, TLAPS

-----------------------------------------------------------------------------
(* Sequences that grow at their end, and shrink at their beginning. *)

Longer(s, t) == Len(s) <= Len(t) /\ \A i \in 1..Len(s) : t[i] = s[i]
Later(s, t)  == (Len(s) + 1)..Len(t)

LEMMA AppendLonger ==
  ASSUME NEW S, NEW s \in Seq(S), NEW e \in S
  PROVE  LET t == Append(s, e) IN
         /\ t \in Seq(S) /\ Longer(s, t) /\ Len(t) = Len(s) + 1
         /\ \A i \in Later(s, t) : i = Len(t) /\ t[i] = e
<1> DEFINE t == Append(s, e)
           l == Len(s)
           m == Len(t)
<1>1. /\ t \in Seq(S) /\ m = l + 1 /\ t[l + 1] = e /\ l \in Nat
      /\ \A i \in 1..l : t[i] = s[i]
  OBVIOUS
<1> HIDE DEF t, l, m
<1>2. l <= m /\ \A i \in (l + 1)..m : i = m /\ i = l + 1
  BY <1>1
<1>3. Longer(s, t)
  BY <1>1, <1>2 DEF Longer, l, m
<1>4. \A i \in Later(s, t) : i = m /\ t[i] = e
  BY <1>1, <1>2 DEF Later, l, m
<1> QED
  BY <1>1, <1>3, <1>4 DEF t, l, m

LEMMA JoinedLonger ==
  ASSUME NEW S, NEW s \in Seq(S), NEW r \in Seq(S)
  PROVE  LET t == s \o r IN
         /\ t \in Seq(S) /\ Longer(s, t) /\ Len(t) = Len(s) + Len(r)
         /\ \A i \in Later(s, t) : i - Len(s) \in 1..Len(r) /\ t[i] = r[i - Len(s)]
<1> DEFINE t == s \o r
           l == Len(s)
           m == Len(t)
           k == Len(r)
<1>1. /\ t \in Seq(S) /\ m = l + k /\ l \in Nat /\ k \in Nat
      /\ \A i \in 1..l : t[i] = s[i]
      /\ \A i \in 1..k : t[l + i] = r[i]
  OBVIOUS
<1> HIDE DEF t, l, m, k
<1>2. l <= m /\ \A i \in (l + 1)..m : i - l \in 1..k /\ l + (i - l) = i
  BY <1>1
<1>3. Longer(s, t)
  BY <1>1, <1>2 DEF Longer, l, m
<1>4. \A i \in Later(s, t) : i - l \in 1..k /\ t[i] = r[i - l]
  <2> SUFFICES ASSUME NEW i \in (l + 1)..m PROVE i - l \in 1..k /\ t[i] = r[i - l]
    BY DEF Later, l, m
  <2>1. i - l \in 1..k /\ l + (i - l) = i
    BY <1>2
  <2>2. t[l + (i - l)] = r[i - l]
    BY <1>1, <2>1
  <2> QED
    BY <2>1, <2>2
<1> QED
  BY <1>1, <1>3, <1>4 DEF t, l, m, k

LEMMA TailShorter ==
  ASSUME NEW S, NEW s \in Seq(S), s # <<>>
  PROVE  LET t == Tail(s) IN
         /\ t \in Seq(S) /\ Len(s) \in Nat \ {0} /\ Len(t) = Len(s) - 1 /\ Head(s) = s[1] /\ s[1] \in S
         /\ \A i \in 1..Len(t) : t[i] = s[i + 1] /\ i + 1 \in 1..Len(s)
<1> DEFINE t == Tail(s)
           l == Len(s)
           m == Len(t)
<1>1. t \in Seq(S) /\ l \in Nat \ {0} /\ m = l - 1 /\ Head(s) = s[1] /\ s[1] \in S
  OBVIOUS
<1>2. \A i \in 1..m : t[i] = s[i + 1]
  OBVIOUS
<1> HIDE DEF t, l, m
<1>3. \A i \in 1..m : i + 1 \in 1..l
  BY <1>1
<1> QED
  BY <1>1, <1>2, <1>3 DEF t, l, m

LEMMA InRange == \A S : \A s \in Seq(S) : DOMAIN s = 1..Len(s) /\ Len(s) \in Nat /\ (s = <<>> <=> Len(s) = 0)
OBVIOUS

(* Something of a kind is under way; and none of one kind comes before one of another. *)
Among(s, X)      == \E i \in DOMAIN s : s[i] \in X
Apart(s, Y, X) == \A i, j \in DOMAIN s : i < j /\ s[j] \in X => s[i] \notin Y

LEMMA AmongJoined ==
  ASSUME NEW S, NEW s \in Seq(S), NEW r \in Seq(S)
  PROVE  /\ \A X : Among(s \o r, X) <=> Among(s, X) \/ Among(r, X)
         /\ \A X, Y : Apart(s, Y, X) /\ Apart(r, Y, X) /\ (Among(r, X) => ~Among(s, Y)) => Apart(s \o r, Y, X)
<1> DEFINE t == s \o r
           l == Len(s)
           n == Len(r)
<1>1. /\ DOMAIN t = 1..(l + n) /\ DOMAIN s = 1..l /\ DOMAIN r = 1..n /\ l \in Nat /\ n \in Nat
      /\ \A i \in 1..l : t[i] = s[i]
      /\ \A i \in 1..n : t[l + i] = r[i]
  OBVIOUS
<1> HIDE DEF t, l, n
<1>2. /\ \A i \in 1..l : i \in 1..(l + n)
      /\ \A i \in 1..n : l + i \in 1..(l + n)
      /\ \A i \in 1..(l + n) : i \in 1..l \/ (i - l \in 1..n /\ l + (i - l) = i)
      /\ \A i, j \in 1..(l + n) : i < j /\ j \in 1..l => i \in 1..l
      /\ \A i, j \in 1..(l + n) : i < j => i - l < j - l
  BY <1>1
<1>3. ASSUME NEW i \in DOMAIN t
      PROVE  \/ i \in DOMAIN s /\ t[i] = s[i]
             \/ i - l \in DOMAIN r /\ t[i] = r[i - l]
  BY <1>1, <1>2, <1>3
<1>4. ASSUME NEW X PROVE Among(t, X) <=> Among(s, X) \/ Among(r, X)
  <2>1. ASSUME Among(t, X) PROVE Among(s, X) \/ Among(r, X)
    BY <1>3, <2>1 DEF Among
  <2>2. ASSUME Among(s, X) PROVE Among(t, X)
    BY <1>1, <1>2, <2>2 DEF Among
  <2>3. ASSUME Among(r, X) PROVE Among(t, X)
    <3>1. PICK i \in 1..n : r[i] \in X
      BY <1>1, <2>3 DEF Among
    <3>2. l + i \in DOMAIN t /\ t[l + i] = r[i]
      BY <1>1, <1>2
    <3> QED
      BY <3>1, <3>2 DEF Among
  <2> QED
    BY <2>1, <2>2, <2>3
<1>5. ASSUME NEW X, NEW Y, Apart(s, Y, X), Apart(r, Y, X), Among(r, X) => ~Among(s, Y)
      PROVE  Apart(t, Y, X)
  <2> SUFFICES ASSUME NEW i \in DOMAIN t, NEW j \in DOMAIN t, i < j, t[j] \in X
               PROVE  t[i] \notin Y
    BY DEF Apart
  <2>1. CASE j \in DOMAIN s /\ t[j] = s[j]
    <3>1. i \in DOMAIN s /\ t[i] = s[i]
      BY <1>1, <1>2, <2>1
    <3> QED
      BY <1>5, <2>1, <3>1 DEF Apart
  <2>2. CASE j - l \in DOMAIN r /\ t[j] = r[j - l]
    <3>1. Among(r, X)
      BY <2>2 DEF Among
    <3>2. CASE i \in DOMAIN s /\ t[i] = s[i]
      BY <1>5, <3>1, <3>2 DEF Among
    <3>3. CASE i - l \in DOMAIN r /\ t[i] = r[i - l]
      <4>1. i - l < j - l
        BY <1>1, <1>2
      <4> QED
        BY <1>5, <2>2, <3>3, <4>1 DEF Apart
    <3> QED
      BY <1>3, <3>2, <3>3
  <2> QED
    BY <1>3, <2>1, <2>2
<1> QED
  BY <1>4, <1>5 DEF t

LEMMA AmongOne ==
  \A e : /\ \A X : Among(<<e>>, X) <=> e \in X
         /\ \A X, Y : Apart(<<e>>, Y, X)
<1> SUFFICES ASSUME NEW e PROVE /\ \A X : Among(<<e>>, X) <=> e \in X
                                /\ \A X, Y : Apart(<<e>>, Y, X)
  OBVIOUS
<1> DEFINE s == <<e>>
<1>1. DOMAIN s = {1} /\ s[1] = e
  OBVIOUS
<1> HIDE DEF s
<1>2. \A X : Among(s, X) <=> e \in X
  BY <1>1 DEF Among
<1>3. \A X, Y : Apart(s, Y, X)
  BY <1>1 DEF Apart
<1> QED
  BY <1>2, <1>3 DEF s

LEMMA AmongNone ==
  /\ \A X : ~Among(<<>>, X)
  /\ \A X, Y : Apart(<<>>, Y, X)
<1> DEFINE s == <<>>
<1>1. DOMAIN s = {}
  OBVIOUS
<1> HIDE DEF s
<1> QED
  BY <1>1 DEF Among, Apart, s

LEMMA AmongAppended ==
  ASSUME NEW S, NEW s \in Seq(S), NEW e \in S
  PROVE  /\ \A X : Among(Append(s, e), X) <=> Among(s, X) \/ e \in X
         /\ \A X, Y : Apart(s, Y, X) /\ (e \in X => ~Among(s, Y)) => Apart(Append(s, e), Y, X)
<1>1. Append(s, e) = s \o <<e>> /\ <<e>> \in Seq(S)
  OBVIOUS
<1> DEFINE r == <<e>>
<1>2. \A X : Among(r, X) <=> e \in X
  BY AmongOne
<1>3. \A X, Y : Apart(r, Y, X)
  BY AmongOne
<1> HIDE DEF r
<1>4. r \in Seq(S) /\ Append(s, e) = s \o r
  BY <1>1 DEF r
<1> QED
  BY <1>2, <1>3, <1>4, AmongJoined

LEMMA AmongRest ==
  ASSUME NEW S, NEW s \in Seq(S), s # <<>>
  PROVE  /\ \A X : Among(s, X) <=> s[1] \in X \/ Among(Tail(s), X)
         /\ \A X, Y : Apart(s, Y, X) => Apart(Tail(s), Y, X) /\ (s[1] \in Y => ~Among(Tail(s), X))
<1> DEFINE t == Tail(s)
<1>1. /\ t \in Seq(S) /\ Len(s) \in Nat \ {0} /\ Len(t) = Len(s) - 1
      /\ \A i \in 1..Len(t) : t[i] = s[i + 1] /\ i + 1 \in 1..Len(s)
      /\ DOMAIN t = 1..Len(t) /\ DOMAIN s = 1..Len(s)
  BY TailShorter, InRange
<1> HIDE DEF t
<1>2. /\ 1 \in 1..Len(s)
      /\ \A i \in 1..Len(s) : i = 1 \/ (i - 1 \in 1..Len(t) /\ (i - 1) + 1 = i)
      /\ \A i, j \in 1..Len(t) : i < j => i + 1 < j + 1
      /\ \A j \in 1..Len(t) : 1 < j + 1
  BY <1>1
<1>3. ASSUME NEW X PROVE Among(s, X) <=> s[1] \in X \/ Among(t, X)
  <2>1. ASSUME Among(s, X), s[1] \notin X PROVE Among(t, X)
    <3>1. PICK i \in 1..Len(s) : s[i] \in X
      BY <1>1, <2>1 DEF Among
    <3>2. i - 1 \in DOMAIN t /\ t[i - 1] = s[i]
      BY <1>1, <1>2, <2>1, <3>1
    <3> QED
      BY <3>1, <3>2 DEF Among
  <2>2. ASSUME s[1] \in X PROVE Among(s, X)
    BY <1>1, <1>2, <2>2 DEF Among
  <2>3. ASSUME Among(t, X) PROVE Among(s, X)
    BY <1>1, <2>3 DEF Among
  <2> QED
    BY <2>1, <2>2, <2>3
<1>4. ASSUME NEW X, NEW Y, Apart(s, Y, X) PROVE Apart(t, Y, X) /\ (s[1] \in Y => ~Among(t, X))
  <2>1. Apart(t, Y, X)
    BY <1>1, <1>2, <1>4 DEF Apart
  <2>2. s[1] \in Y => ~Among(t, X)
    BY <1>1, <1>2, <1>4 DEF Apart, Among
  <2> QED
    BY <2>1, <2>2
<1> QED
  BY <1>3, <1>4 DEF t

LEMMA AmongBoth == \A s, X, Y : Among(s, X \cup Y) <=> Among(s, X) \/ Among(s, Y)
BY DEF Among

-----------------------------------------------------------------------------
(* OSCAR's buddy list, which four keep. *)

(* What a frame of the server makes of the driver's list, and which it can take. *)
Heard(r, m) ==
  CASE m.kind = "roster"   -> RosterReply(r, m.list)
    [] m.kind = "start"    -> [r EXCEPT !.ssibusy = TRUE]
    [] m.kind = "end"      -> [r EXCEPT !.ssibusy = FALSE]
    [] m.kind = "addgroup" -> [r EXCEPT !.groups[m.gid] = m.name,
                                        !.members = [i \in Items |-> IF i[1] = m.gid THEN Nothing ELSE @[i]]]
    [] m.kind = "add"      -> CommitDirty(AddItem(r, m.item, m.who), {m.item})
    [] m.kind = "remove"   -> RemoveItem(r, m.item)
    [] m.kind = "removegroup" ->
         [r EXCEPT !.groups[m.gid] = Nothing,
                   !.members = [i \in Items |-> IF i[1] = m.gid THEN Nothing ELSE @[i]]]

Fits(r, m) == m.kind = "remove" => r.members[m.item] # Nothing

(* The server's list: everyone is in a group, and once. *)
Proper(l) ==
  /\ \A i \in Items : l.members[i] # Nothing => l.groups[i[1]] # Nothing
  /\ \A i, j \in Items : l.members[i] # Nothing /\ l.members[i] = l.members[j] => i = j

Has(l, p) == \E i \in Items : l.members[i] = p

(* The driver has what the server has; *)
Covers(r, l) ==
  /\ \A k \in Gids : l.groups[k] # Nothing => r.groups[k] = l.groups[k]
  /\ \A i \in Items : l.members[i] # Nothing => r.members[i] = l.members[i]

(* and nobody else, with the wrapper, but for the buddies that are being moved. *)
Equals(r, l, moved) ==
  /\ \A i \in Items : r.members[i] = l.members[i]
  /\ \A p \in Buddies \ moved : r.buddies[p].uploaded <=> Has(l, p)
  /\ \A i \in Items : l.members[i] # Nothing /\ l.members[i] \notin moved =>
       r.buddies[l.members[i]].group = l.groups[i[1]]

Holds(r, l, w) ==
  /\ r.up /\ r.loaded /\ r.known /\ ~r.fault
  /\ Covers(r, l)
  /\ w = {} => Equals(r, l, {})

(* The frames that are under way lead from the driver's list to x; and to one that is the
   server's. *)
Path(r, told, x, h) ==
  /\ h[0] = r /\ h[Len(told)] = x
  /\ \A j \in 1..Len(told) : Fits(h[j - 1], told[j]) /\ h[j] = Heard(h[j - 1], told[j])

ComesTo(r, told, x) == \E h \in [0..Len(told) -> Roster] : Path(r, told, x, h)

Follows(r, told, l, w) ==
  \E x \in Roster : ComesTo(r, told, x) /\ Holds(x, l, w) /\ ~x.ssibusy

(* A session has begun; a list is on the way or has come. *)
SigningOn(r, s) == ~r.loaded /\ ~r.ssibusy /\ s.told = <<[kind |-> "limits"]>>

Listening(r, s, w) ==
  /\ r.known /\ Follows(r, s.told, s.list, w)
  /\ \A j \in DOMAIN s.told : s.told[j].kind # "limits"
  /\ \A j \in DOMAIN s.told : s.told[j].kind = "roster" <=> j = 1 /\ ~r.loaded

StoredFirst(r, l) == \A p \in Buddies : r.buddies[p].uploaded => Has(l, p)

Unclear == {"crowds", "early", "races", "elsewhere"}

Clear(r, s, w) ==
  /\ ~r.fault /\ Proper(s.list)
  /\ IF ~r.up THEN s.told = <<>> ELSE SigningOn(r, s) \/ Listening(r, s, w)
  /\ ~r.up \/ SigningOn(r, s) => (w = {} => StoredFirst(r, s.list))

Site == [list : List, told : Seq(Told)]

RosterInv ==
  /\ RosterTypeOK /\ site \in Site
  /\ whim \cap Unclear = {} => Clear(roster, site, whim)

-----------------------------------------------------------------------------
(* Numbers. *)

LEMMA LeastOf ==
  ASSUME NEW S \in SUBSET Nat, S # {}
  PROVE  \E m \in S : \A n \in S : m <= n
<1> DEFINE R == OpToRel(<, Nat)
<1>1. IsWellFoundedOn(R, Nat)
  BY NatLessThanWellFounded, Zenon
<1>2. \E x \in S : \A y \in S : ~(<<y, x>> \in R)
  <2> HIDE DEF R
  <2> QED
    BY <1>1, WFMin, Zenon
<1>3. PICK x \in S : \A y \in S : ~(<<y, x>> \in R)
  BY <1>2, Zenon
<1>4. ASSUME NEW n \in S, n < x PROVE FALSE
  <2>1. n \in Nat /\ x \in Nat
    OBVIOUS
  <2>2. <<n, x>> \in R
    BY <2>1, <1>4 DEF OpToRel
  <2> QED
    BY <1>3, <2>2
<1> QED
  BY <1>4

LEMMA GreatestOf ==
  ASSUME NEW n \in Nat, NEW S \in SUBSET (0..n), S # {}
  PROVE  \E m \in S : \A k \in S : k <= m
<1> DEFINE D == {n - k : k \in S}
<1>1. D \in SUBSET Nat /\ D # {}
  <2>1. ASSUME NEW k \in S PROVE n - k \in Nat
    <3>1. k \in 0..n
      OBVIOUS
    <3> QED
      BY <3>1
  <2> QED
    BY <2>1
<1>2. PICK d \in D : \A e \in D : d <= e
  <2> HIDE DEF D
  <2> QED
    BY <1>1, LeastOf
<1>3. PICK m \in S : d = n - m
  OBVIOUS
<1>4. ASSUME NEW k \in S PROVE k <= m
  <2>1. n - m <= n - k
    BY <1>2, <1>3
  <2>2. k \in 0..n /\ m \in 0..n
    OBVIOUS
  <2> QED
    BY <2>1, <2>2
<1> QED
  BY <1>4

LEMMA UpTo ==
  ASSUME NEW n \in Nat, NEW G, 0 \in G, \A i \in 0..(n - 1) : i \in G => i + 1 \in G
  PROVE  \A i \in 0..n : i \in G
<1> DEFINE B == {i \in 0..n : i \notin G}
<1> SUFFICES ASSUME B # {} PROVE FALSE
  OBVIOUS
<1>1. B \in SUBSET Nat
  OBVIOUS
<1>2. PICK m \in B : \A k \in B : m <= k
  <2> HIDE DEF B
  <2> QED
    BY <1>1, LeastOf
<1>3. m \in 1..n
  BY <1>2
<1>4. m - 1 \in 0..(n - 1) /\ (m - 1) + 1 = m /\ ~(m <= m - 1)
  BY <1>3
<1>5. m - 1 \in G
  BY <1>2, <1>4
<1> QED
  BY <1>4, <1>5, <1>2

LEMMA MaxIs ==
  ASSUME NEW n \in Nat, NEW S \in SUBSET (0..n), S # {}
  PROVE  Max(S) \in S /\ \A k \in S : k <= Max(S)
<1>1. PICK m \in S : \A k \in S : k <= m
  BY GreatestOf
<1>2. \A k \in S : m >= k
  BY <1>1
<1> QED
  BY <1>1, <1>2 DEF Max

-----------------------------------------------------------------------------
(* Lists, and what is done with them. *)

LEMMA ItemIs ==
  /\ \A i \in Items : i[1] \in Gids /\ i[2] \in Mids /\ i = <<i[1], i[2]>>
  /\ \A k \in Gids, m \in Mids : <<k, m>> \in Items
BY DEF Items

LEMMA ListIs ==
  ASSUME NEW l \in List
  PROVE  /\ l.groups \in [Gids -> GroupNames \cup {Nothing}]
         /\ l.members \in [Items -> Buddies \cup {Nothing}]
         /\ l = [groups |-> l.groups, members |-> l.members]
         /\ \A k \in Gids : l.groups[k] # Nothing => l.groups[k] \in GroupNames
         /\ \A i \in Items : l.members[i] # Nothing => l.members[i] \in Buddies
BY DEF List

LEMMA NoListIs ==
  /\ NoList \in List
  /\ \A k \in Gids : NoList.groups[k] = Nothing
  /\ \A i \in Items : NoList.members[i] = Nothing
BY DEF NoList, List

LEMMA ServerAddGroupIs ==
  ASSUME NEW l \in List, NEW k \in Gids, NEW name \in GroupNames
  PROVE  LET m == ServerAddGroup(l, k, name) IN
         /\ m \in List /\ m.members = l.members
         /\ \A j \in Gids : j # k => m.groups[j] = l.groups[j]
         /\ l.groups[k] # Nothing => m = l
         /\ m.groups[k] \in {l.groups[k], name}
         /\ l.groups[k] = Nothing /\ (\A j \in Gids : l.groups[j] # name) => m.groups[k] = name
<1> DEFINE m == ServerAddGroup(l, k, name)
<1>1. CASE l.groups[k] # Nothing \/ name \in ToSet(l.groups)
  <2>1. m = l
    BY <1>1 DEF ServerAddGroup
  <2>2. name \in ToSet(l.groups) => \E j \in Gids : l.groups[j] = name
    BY ListIs DEF ToSet
  <2> QED
    BY <1>1, <2>1, <2>2
<1>2. CASE ~(l.groups[k] # Nothing \/ name \in ToSet(l.groups))
  <2> DEFINE groups == [l.groups EXCEPT ![k] = name]
  <2>1. m = [l EXCEPT !.groups = groups]
    BY <1>2 DEF ServerAddGroup
  <2>2. /\ groups \in [Gids -> GroupNames \cup {Nothing}] /\ groups[k] = name
        /\ \A j \in Gids : j # k => groups[j] = l.groups[j]
    BY ListIs
  <2> HIDE DEF m, groups
  <2>3. m \in List /\ m.groups = groups /\ m.members = l.members
    BY <2>1, <2>2 DEF List
  <2> QED
    BY <1>2, <2>2, <2>3 DEF m
<1> QED
  BY <1>1, <1>2

LEMMA ServerAddIs ==
  ASSUME NEW l \in List, NEW i \in Items, NEW who \in Buddies
  PROVE  LET m == ServerAdd(l, i, who) IN
         /\ m \in List /\ m.groups = l.groups
         /\ \A j \in Items : j # i => m.members[j] = l.members[j]
         /\ IF l.groups[i[1]] = Nothing \/ l.members[i] # Nothing THEN m = l ELSE m.members[i] = who
<1> DEFINE m == ServerAdd(l, i, who)
           members == [l.members EXCEPT ![i] = who]
<1>1. CASE l.groups[i[1]] = Nothing \/ l.members[i] # Nothing
  BY <1>1 DEF ServerAdd
<1>2. CASE ~(l.groups[i[1]] = Nothing \/ l.members[i] # Nothing)
  <2>1. m = [l EXCEPT !.members = members]
    BY <1>2 DEF ServerAdd
  <2>2. /\ members \in [Items -> Buddies \cup {Nothing}] /\ members[i] = who
        /\ \A j \in Items : j # i => members[j] = l.members[j]
    BY ListIs
  <2> HIDE DEF m, members
  <2>3. m \in List /\ m.members = members /\ m.groups = l.groups
    BY <2>1, <2>2 DEF List
  <2> QED
    BY <1>2, <2>2, <2>3 DEF m
<1> QED
  BY <1>1, <1>2

LEMMA ServerRemoveIs ==
  ASSUME NEW l \in List, NEW who, NEW where
  PROVE  LET m == ServerRemove(l, who, where) IN
         /\ m \in List /\ m.groups = l.groups
         /\ \A i \in Items : m.members[i] = IF i \in where /\ l.members[i] = who THEN Nothing ELSE l.members[i]
<1> DEFINE m == ServerRemove(l, who, where)
           members == [i \in Items |-> IF i \in where /\ l.members[i] = who THEN Nothing ELSE l.members[i]]
<1>1. m = [l EXCEPT !.members = members]
  BY DEF ServerRemove
<1>2. /\ members \in [Items -> Buddies \cup {Nothing}]
      /\ \A i \in Items : members[i] = IF i \in where /\ l.members[i] = who THEN Nothing ELSE l.members[i]
  BY ListIs
<1> HIDE DEF m, members
<1>3. m \in List /\ m.members = members /\ m.groups = l.groups
  BY <1>1, <1>2 DEF List
<1> QED
  BY <1>2, <1>3 DEF m

LEMMA ServerRemoveGroupsIs ==
  ASSUME NEW l \in List, NEW ks
  PROVE  LET m == ServerRemoveGroups(l, ks) IN
         /\ m \in List
         /\ \A k \in Gids : m.groups[k] = IF k \in ks THEN Nothing ELSE l.groups[k]
         /\ \A i \in Items : m.members[i] = IF i[1] \in ks THEN Nothing ELSE l.members[i]
<1> DEFINE groups  == [k \in Gids |-> IF k \in ks THEN Nothing ELSE l.groups[k]]
           members == [i \in Items |-> IF i[1] \in ks THEN Nothing ELSE l.members[i]]
<1>1. ServerRemoveGroups(l, ks) = [groups |-> groups, members |-> members]
  BY DEF ServerRemoveGroups
<1>2. groups \in [Gids -> GroupNames \cup {Nothing}] /\ members \in [Items -> Buddies \cup {Nothing}]
  BY ListIs
<1>3. /\ \A k \in Gids : groups[k] = IF k \in ks THEN Nothing ELSE l.groups[k]
      /\ \A i \in Items : members[i] = IF i[1] \in ks THEN Nothing ELSE l.members[i]
  OBVIOUS
<1> HIDE DEF groups, members
<1> QED
  BY <1>1, <1>2, <1>3 DEF List

LEMMA GrouplessIs ==
  ASSUME NEW l \in List, NEW k \in Gids
  PROVE  LET m == Groupless(l, k) IN
         /\ m \in List
         /\ \A j \in Gids : m.groups[j] = IF j = k THEN Nothing ELSE l.groups[j]
         /\ \A i \in Items : m.members[i] = IF i[1] = k THEN Nothing ELSE l.members[i]
<1> DEFINE groups  == [l.groups EXCEPT ![k] = Nothing]
           members == [i \in Items |-> IF i[1] = k THEN Nothing ELSE l.members[i]]
<1>1. Groupless(l, k) = [groups |-> groups, members |-> members]
  BY DEF Groupless
<1>2. groups \in [Gids -> GroupNames \cup {Nothing}] /\ members \in [Items -> Buddies \cup {Nothing}]
  BY ListIs
<1>3. /\ \A j \in Gids : groups[j] = IF j = k THEN Nothing ELSE l.groups[j]
      /\ \A i \in Items : members[i] = IF i[1] = k THEN Nothing ELSE l.members[i]
  BY ListIs
<1> HIDE DEF groups, members
<1> QED
  BY <1>1, <1>2, <1>3 DEF List

LEMMA TakenIs ==
  ASSUME NEW l \in List, NEW i \in Items
  PROVE  LET m == [l EXCEPT !.members[i] = Nothing] IN
         /\ m \in List /\ m.groups = l.groups
         /\ \A j \in Items : m.members[j] = IF j = i THEN Nothing ELSE l.members[j]
<1> DEFINE members == [l.members EXCEPT ![i] = Nothing]
           m == [l EXCEPT !.members = members]
<1>1. /\ members \in [Items -> Buddies \cup {Nothing}]
      /\ \A j \in Items : members[j] = IF j = i THEN Nothing ELSE l.members[j]
  BY ListIs
<1> HIDE DEF members
<1>2. m \in List /\ m.groups = l.groups /\ m.members = members
  BY <1>1 DEF List
<1>3. [l EXCEPT !.members[i] = Nothing] = m
  BY DEF members
<1> QED
  BY <1>1, <1>2, <1>3

-----------------------------------------------------------------------------
(* What each frame makes of the driver's list. *)

Listing == [group : GroupNames \cup {Nothing}, uploaded : BOOLEAN]

LEMMA RosterIs ==
  ASSUME NEW r \in Roster
  PROVE  /\ r.up \in BOOLEAN /\ r.loaded \in BOOLEAN /\ r.known \in BOOLEAN
         /\ r.ssibusy \in BOOLEAN /\ r.fault \in BOOLEAN
         /\ r.groups \in [Gids -> GroupNames \cup {Nothing}]
         /\ r.members \in [Items -> Buddies \cup {Nothing}]
         /\ r.buddies \in [Buddies -> Listing]
BY DEF Roster, Listing

LEMMA EntryIs ==
  ASSUME NEW r \in Roster, NEW p \in Buddies
  PROVE  /\ r.buddies[p] \in Listing
         /\ r.buddies[p].group \in GroupNames \cup {Nothing} /\ r.buddies[p].uploaded \in BOOLEAN
<1>1. r.buddies[p] \in Listing
  BY RosterIs
<1> QED
  BY <1>1 DEF Listing

LEMMA ToldIs ==
  ASSUME NEW m \in Told
  PROVE  /\ m.kind \in {"limits", "start", "end", "roster", "add", "addgroup", "remove", "removegroup"}
         /\ m.kind = "roster" => m.list \in List
         /\ m.kind = "add" => m.item \in Items /\ m.who \in Buddies
         /\ m.kind = "addgroup" => m.gid \in Gids /\ m.name \in GroupNames
         /\ m.kind = "remove" => m.item \in Items
         /\ m.kind = "removegroup" => m.gid \in Gids
<1>1. CASE m \in [kind : {"limits", "start", "end"}]
  BY <1>1
<1>2. CASE m \in [kind : {"roster"}, list : List]
  BY <1>2
<1>3. CASE m \in [kind : {"add"}, item : Items, who : Buddies]
  BY <1>3
<1>4. CASE m \in [kind : {"addgroup"}, gid : Gids, name : GroupNames]
  BY <1>4
<1>5. CASE m \in [kind : {"remove"}, item : Items]
  BY <1>5
<1>6. CASE m \in [kind : {"removegroup"}, gid : Gids]
  BY <1>6
<1> QED
  BY <1>1, <1>2, <1>3, <1>4, <1>5, <1>6 DEF Told

(* Of two states of the driver's list, that the flags are the same. *)
Alike(y, r) == y.up = r.up /\ y.known = r.known /\ y.fault = r.fault

LEMMA HeardBusy ==
  ASSUME NEW r \in Roster, NEW m, m.kind \in {"start", "end"}
  PROVE  LET y == Heard(r, m) IN
         /\ y \in Roster /\ Alike(y, r) /\ y.loaded = r.loaded
         /\ y.groups = r.groups /\ y.members = r.members /\ y.buddies = r.buddies
         /\ y.ssibusy = (m.kind = "start")
<1> DEFINE y == Heard(r, m)
<1>1. CASE m.kind = "start"
  <2>1. y = [r EXCEPT !.ssibusy = TRUE]
    BY <1>1 DEF Heard
  <2> HIDE DEF y
  <2>2. /\ y \in Roster /\ Alike(y, r) /\ y.loaded = r.loaded
        /\ y.groups = r.groups /\ y.members = r.members /\ y.buddies = r.buddies
        /\ y.ssibusy = TRUE
    BY <2>1 DEF Roster, Alike
  <2> QED
    BY <1>1, <2>2 DEF y
<1>2. CASE m.kind = "end"
  <2>1. y = [r EXCEPT !.ssibusy = FALSE]
    BY <1>2 DEF Heard
  <2> HIDE DEF y
  <2>2. /\ y \in Roster /\ Alike(y, r) /\ y.loaded = r.loaded
        /\ y.groups = r.groups /\ y.members = r.members /\ y.buddies = r.buddies
        /\ y.ssibusy = FALSE
    BY <2>1 DEF Roster, Alike
  <2> QED
    BY <1>2, <2>2 DEF y
<1> QED
  BY <1>1, <1>2

LEMMA HeardAddGroup ==
  ASSUME NEW r \in Roster, NEW m, m.kind = "addgroup", m.gid \in Gids, m.name \in GroupNames
  PROVE  LET y == Heard(r, m) IN
         /\ y \in Roster /\ Alike(y, r) /\ y.loaded = r.loaded
         /\ \A k \in Gids : y.groups[k] = IF k = m.gid THEN m.name ELSE r.groups[k]
         /\ \A i \in Items : y.members[i] = IF i[1] = m.gid THEN Nothing ELSE r.members[i]
         /\ y.buddies = r.buddies /\ y.ssibusy = r.ssibusy
<1> DEFINE y == Heard(r, m)
           groups == [r.groups EXCEPT ![m.gid] = m.name]
           members == [i \in Items |-> IF i[1] = m.gid THEN Nothing ELSE r.members[i]]
<1>1. y = [r EXCEPT !.groups = groups, !.members = members]
  BY DEF Heard
<1>2. /\ groups \in [Gids -> GroupNames \cup {Nothing}]
      /\ \A k \in Gids : groups[k] = IF k = m.gid THEN m.name ELSE r.groups[k]
  BY RosterIs
<1>3. /\ members \in [Items -> Buddies \cup {Nothing}]
      /\ \A i \in Items : members[i] = IF i[1] = m.gid THEN Nothing ELSE r.members[i]
  BY RosterIs
<1> HIDE DEF y, groups, members
<1>4. /\ y \in Roster /\ Alike(y, r) /\ y.loaded = r.loaded /\ y.groups = groups
      /\ y.members = members /\ y.buddies = r.buddies /\ y.ssibusy = r.ssibusy
  BY <1>1, <1>2, <1>3 DEF Roster, Alike
<1> QED
  BY <1>2, <1>3, <1>4 DEF y

LEMMA HeardRemoveGroup ==
  ASSUME NEW r \in Roster, NEW m, m.kind = "removegroup", m.gid \in Gids
  PROVE  LET y == Heard(r, m) IN
         /\ y \in Roster /\ Alike(y, r) /\ y.loaded = r.loaded
         /\ \A k \in Gids : y.groups[k] = IF k = m.gid THEN Nothing ELSE r.groups[k]
         /\ \A i \in Items : y.members[i] = IF i[1] = m.gid THEN Nothing ELSE r.members[i]
         /\ y.buddies = r.buddies /\ y.ssibusy = r.ssibusy
<1> DEFINE y == Heard(r, m)
           groups == [r.groups EXCEPT ![m.gid] = Nothing]
           members == [i \in Items |-> IF i[1] = m.gid THEN Nothing ELSE r.members[i]]
<1>1. y = [r EXCEPT !.groups = groups, !.members = members]
  BY DEF Heard
<1>2. /\ groups \in [Gids -> GroupNames \cup {Nothing}]
      /\ \A k \in Gids : groups[k] = IF k = m.gid THEN Nothing ELSE r.groups[k]
  BY RosterIs
<1>3. /\ members \in [Items -> Buddies \cup {Nothing}]
      /\ \A i \in Items : members[i] = IF i[1] = m.gid THEN Nothing ELSE r.members[i]
  BY RosterIs
<1> HIDE DEF y, groups, members
<1>4. /\ y \in Roster /\ Alike(y, r) /\ y.loaded = r.loaded /\ y.groups = groups
      /\ y.members = members /\ y.buddies = r.buddies /\ y.ssibusy = r.ssibusy
  BY <1>1, <1>2, <1>3 DEF Roster, Alike
<1> QED
  BY <1>2, <1>3, <1>4 DEF y

(* Whoever is committed is in the group of one of the items that hold him. *)
EnteredAs(entry, r, dirty, p) ==
  \/ (\A i \in dirty : r.members[i] # p) /\ entry = r.buddies[p]
  \/ \E i \in dirty : /\ r.members[i] = p
                      /\ entry = [group |-> r.groups[i[1]], uploaded |-> TRUE]

Committed(y, r, dirty) ==
  /\ y \in Roster /\ Alike(y, r) /\ y.loaded = r.loaded
  /\ y.groups = r.groups /\ y.members = r.members /\ y.ssibusy = r.ssibusy
  /\ \A p \in Buddies : EnteredAs(y.buddies[p], r, dirty, p)

LEMMA CommitDirtyIs ==
  ASSUME NEW r \in Roster, NEW dirty \in SUBSET Items
  PROVE  Committed(CommitDirty(r, dirty), r, dirty)
<1> DEFINE y == CommitDirty(r, dirty)
           placed == [p \in Buddies |-> {i \in dirty : r.members[i] = p}]
           One(p) == IF placed[p] = {} THEN r.buddies[p]
                     ELSE [group |-> r.groups[(CHOOSE i \in placed[p] : TRUE)[1]], uploaded |-> TRUE]
           buddies == [p \in Buddies |-> One(p)]
<1>1. y = [r EXCEPT !.buddies = buddies]
  BY DEF CommitDirty
<1>2. ASSUME NEW p \in Buddies
      PROVE  One(p) \in Listing /\ EnteredAs(One(p), r, dirty, p)
  <2>0. placed[p] = {i \in dirty : r.members[i] = p}
    OBVIOUS
  <2>1. CASE placed[p] = {}
    <3>1. One(p) = r.buddies[p]
      BY <2>1
    <3>2. \A i \in dirty : r.members[i] # p
      BY <2>0, <2>1
    <3> QED
      BY <3>1, <3>2, EntryIs DEF EnteredAs
  <2>2. CASE placed[p] # {}
    <3> DEFINE i == CHOOSE j \in placed[p] : TRUE
    <3>1. i \in placed[p]
      BY <2>2
    <3>2. One(p) = [group |-> r.groups[i[1]], uploaded |-> TRUE]
      BY <2>2
    <3> HIDE DEF i
    <3>3. i \in dirty /\ i \in Items /\ r.members[i] = p
      BY <3>1, <2>0
    <3>4. r.groups[i[1]] \in GroupNames \cup {Nothing}
      BY <3>3, ItemIs, RosterIs
    <3>5. [group |-> r.groups[i[1]], uploaded |-> TRUE] \in Listing
      BY <3>4 DEF Listing
    <3> HIDE DEF One
    <3> QED
      BY <3>2, <3>3, <3>5, Zenon DEF EnteredAs
  <2> QED
    BY <2>1, <2>2
<1>3. buddies \in [Buddies -> Listing] /\ \A p \in Buddies : buddies[p] = One(p)
  <2> HIDE DEF One
  <2> QED
    BY <1>2
<1> HIDE DEF y, buddies, One
<1>4. /\ y \in Roster /\ Alike(y, r) /\ y.loaded = r.loaded /\ y.groups = r.groups
      /\ y.members = r.members /\ y.buddies = buddies /\ y.ssibusy = r.ssibusy
  BY <1>1, <1>3 DEF Roster, Alike, Listing
<1>5. \A p \in Buddies : EnteredAs(y.buddies[p], r, dirty, p)
  <2> TAKE p \in Buddies
  <2>1. y.buddies[p] = One(p)
    BY <1>3, <1>4
  <2> QED
    BY <1>2, <2>1, Zenon
<1>6. Committed(y, r, dirty)
  BY <1>4, <1>5, Zenon DEF Committed
<1> QED
  BY <1>6 DEF y

LEMMA AddItemIs ==
  ASSUME NEW r \in Roster, NEW item \in Items, NEW who \in Buddies
  PROVE  LET y == AddItem(r, item, who) IN
         /\ y \in Roster /\ Alike(y, r) /\ y.loaded = r.loaded
         /\ y.groups = r.groups /\ y.buddies = r.buddies /\ y.ssibusy = r.ssibusy
         /\ y.members[item] = who
         /\ \A i \in Items \ {item} :
              y.members[i] = IF r.members[item] = Nothing /\ i[2] = item[2] THEN Nothing ELSE r.members[i]
<1> DEFINE y == AddItem(r, item, who)
           others == IF r.members[item] # Nothing THEN r.members
                     ELSE [i \in Items |-> IF i[2] = item[2] THEN Nothing ELSE r.members[i]]
           members == [others EXCEPT ![item] = who]
<1>1. y = [r EXCEPT !.members = members]
  BY DEF AddItem
<1>2. /\ others \in [Items -> Buddies \cup {Nothing}]
      /\ \A i \in Items :
           others[i] = IF r.members[item] = Nothing /\ i[2] = item[2] THEN Nothing ELSE r.members[i]
  <2>1. CASE r.members[item] = Nothing
    BY <2>1, RosterIs
  <2>2. CASE r.members[item] # Nothing
    BY <2>2, RosterIs
  <2> QED
    BY <2>1, <2>2
<1> HIDE DEF others
<1>3. /\ members \in [Items -> Buddies \cup {Nothing}] /\ members[item] = who
      /\ \A i \in Items \ {item} : members[i] = others[i]
  BY <1>2
<1> HIDE DEF y, members
<1>4. /\ y \in Roster /\ Alike(y, r) /\ y.loaded = r.loaded /\ y.groups = r.groups
      /\ y.members = members /\ y.buddies = r.buddies /\ y.ssibusy = r.ssibusy
  BY <1>1, <1>3 DEF Roster, Alike
<1> QED
  BY <1>2, <1>3, <1>4 DEF y

LEMMA HeardAdd ==
  ASSUME NEW r \in Roster, NEW m, m.kind = "add", m.item \in Items, m.who \in Buddies
  PROVE  LET y == Heard(r, m) IN
         /\ y \in Roster /\ Alike(y, r) /\ y.loaded = r.loaded
         /\ y.groups = r.groups /\ y.ssibusy = r.ssibusy
         /\ y.members[m.item] = m.who
         /\ \A i \in Items \ {m.item} :
              y.members[i] = IF r.members[m.item] = Nothing /\ i[2] = m.item[2] THEN Nothing
                             ELSE r.members[i]
         /\ \A p \in Buddies \ {m.who} : y.buddies[p] = r.buddies[p]
         /\ y.buddies[m.who] = [group |-> r.groups[m.item[1]], uploaded |-> TRUE]
<1> DEFINE y == Heard(r, m)
           z == AddItem(r, m.item, m.who)
           dirty == {m.item}
<1>0. dirty \in SUBSET Items
  OBVIOUS
<1>1. y = CommitDirty(z, dirty)
  BY DEF Heard
<1>2. /\ z \in Roster /\ Alike(z, r) /\ z.loaded = r.loaded
      /\ z.groups = r.groups /\ z.buddies = r.buddies /\ z.ssibusy = r.ssibusy
      /\ z.members[m.item] = m.who
      /\ \A i \in Items \ {m.item} :
           z.members[i] = IF r.members[m.item] = Nothing /\ i[2] = m.item[2] THEN Nothing
                          ELSE r.members[i]
  BY AddItemIs
<1> HIDE DEF y, z, dirty
<1>3. Committed(y, z, dirty)
  BY <1>0, <1>1, <1>2, CommitDirtyIs
<1>4. y.buddies[m.who] = [group |-> r.groups[m.item[1]], uploaded |-> TRUE]
  BY <1>2, <1>3 DEF dirty, Committed, EnteredAs
<1>5. ASSUME NEW p \in Buddies \ {m.who} PROVE y.buddies[p] = r.buddies[p]
  BY <1>2, <1>3 DEF dirty, Committed, EnteredAs
<1>6. /\ y \in Roster /\ Alike(y, r) /\ y.loaded = r.loaded
      /\ y.groups = r.groups /\ y.ssibusy = r.ssibusy /\ y.members = z.members
  BY <1>2, <1>3 DEF Committed, Alike
<1> QED
  BY <1>2, <1>4, <1>5, <1>6 DEF y

LEMMA HeardRemove ==
  ASSUME NEW r \in Roster, NEW m, m.kind = "remove", m.item \in Items,
         NEW who \in Buddies, r.members[m.item] = who
  PROVE  LET y == Heard(r, m) IN
         /\ y \in Roster /\ Alike(y, r) /\ y.loaded = r.loaded
         /\ y.groups = r.groups /\ y.ssibusy = r.ssibusy
         /\ \A i \in Items : y.members[i] = IF i = m.item THEN Nothing ELSE r.members[i]
         /\ \A p \in Buddies \ {who} : y.buddies[p] = r.buddies[p]
         /\ r.buddies[who].group = r.groups[m.item[1]] => y.buddies[who] = Unlisted
<1> DEFINE y == Heard(r, m)
           b == OscarBuddyRemoved(r, who, r.groups[m.item[1]])
           out == [r.buddies EXCEPT ![who] = Unlisted]
           members == [b.members EXCEPT ![m.item] = Nothing]
<1>1. y = [b EXCEPT !.members = members]
  BY OscarRosterAssumption DEF Heard, RemoveItem
<1>2. /\ out \in [Buddies -> Listing]
      /\ out[who] = Unlisted /\ \A p \in Buddies \ {who} : out[p] = r.buddies[p]
  BY RosterIs DEF Unlisted, Listing
<1>3. /\ b \in Roster /\ Alike(b, r) /\ b.loaded = r.loaded
      /\ b.groups = r.groups /\ b.ssibusy = r.ssibusy /\ b.members = r.members
      /\ \A p \in Buddies \ {who} : b.buddies[p] = r.buddies[p]
      /\ r.buddies[who].group = r.groups[m.item[1]] => b.buddies[who] = Unlisted
  <2>1. CASE r.buddies[who].group = r.groups[m.item[1]]
    <3>1. b = [r EXCEPT !.buddies = out]
      BY <2>1 DEF OscarBuddyRemoved
    <3> HIDE DEF b, out
    <3>2. /\ b \in Roster /\ Alike(b, r) /\ b.loaded = r.loaded
          /\ b.groups = r.groups /\ b.ssibusy = r.ssibusy /\ b.members = r.members /\ b.buddies = out
      BY <3>1, <1>2 DEF Roster, Alike, Listing
    <3> QED
      BY <3>2, <1>2
  <2>2. CASE r.buddies[who].group # r.groups[m.item[1]]
    <3>1. b = r
      BY <2>2 DEF OscarBuddyRemoved
    <3> QED
      BY <3>1, <2>2 DEF Alike
  <2> QED
    BY <2>1, <2>2
<1> HIDE DEF b
<1>4. /\ members \in [Items -> Buddies \cup {Nothing}]
      /\ \A i \in Items : members[i] = IF i = m.item THEN Nothing ELSE r.members[i]
  BY <1>3, RosterIs
<1> HIDE DEF y, members
<1>5. /\ y \in Roster /\ Alike(y, b) /\ y.loaded = b.loaded
      /\ y.groups = b.groups /\ y.ssibusy = b.ssibusy /\ y.members = members /\ y.buddies = b.buddies
  BY <1>1, <1>3, <1>4 DEF Roster, Alike
<1> QED
  BY <1>3, <1>4, <1>5 DEF y, Alike

(* The list that comes takes the place of the driver's, group by group. *)
Replaced(y, r, l) ==
  /\ y \in Roster /\ Alike(y, r) /\ y.loaded = TRUE /\ y.ssibusy = r.ssibusy
  /\ \A k \in Gids : y.groups[k] = IF l.groups[k] = Nothing THEN r.groups[k] ELSE l.groups[k]
  /\ \A i \in Items :
       y.members[i] = IF l.groups[i[1]] = Nothing THEN r.members[i] ELSE l.members[i]
  /\ \A p \in Buddies :
       \/ /\ \A i \in Items : l.members[i] # Nothing => y.members[i] # p
          /\ y.buddies[p] = r.buddies[p]
       \/ \E i \in Items : /\ l.members[i] # Nothing /\ y.members[i] = p
                           /\ y.buddies[p] = [group |-> y.groups[i[1]], uploaded |-> TRUE]

LEMMA HeardRoster ==
  ASSUME NEW r \in Roster, NEW m, m.kind = "roster", m.list \in List
  PROVE  Replaced(Heard(r, m), r, m.list)
<1> DEFINE y == Heard(r, m)
           l == m.list
           mine == {k \in Gids : l.groups[k] = Nothing}
           groups == [k \in Gids |-> IF k \in mine THEN r.groups[k] ELSE l.groups[k]]
           members == [i \in Items |-> IF i[1] \in mine THEN r.members[i] ELSE l.members[i]]
           z == [r EXCEPT !.groups = groups, !.members = members, !.loaded = TRUE]
           dirty == {i \in Items : l.members[i] # Nothing}
<1>1. y = CommitDirty(z, dirty)
  BY DEF Heard, RosterReply
<1>0. l \in List
  OBVIOUS
<1> HIDE DEF l
<1>2. /\ groups \in [Gids -> GroupNames \cup {Nothing}]
      /\ \A k \in Gids : groups[k] = IF l.groups[k] = Nothing THEN r.groups[k] ELSE l.groups[k]
  BY <1>0, RosterIs, ListIs
<1>3. /\ members \in [Items -> Buddies \cup {Nothing}]
      /\ \A i \in Items : members[i] = IF l.groups[i[1]] = Nothing THEN r.members[i] ELSE l.members[i]
  BY <1>0, RosterIs, ListIs, ItemIs
<1> HIDE DEF groups, members
<1>4. /\ z \in Roster /\ Alike(z, r) /\ z.loaded = TRUE /\ z.groups = groups
      /\ z.members = members /\ z.buddies = r.buddies /\ z.ssibusy = r.ssibusy
  BY <1>2, <1>3 DEF Roster, Alike
<1>5. dirty \in SUBSET Items
  OBVIOUS
<1> HIDE DEF y, z, dirty
<1>6. Committed(y, z, dirty)
  BY <1>1, <1>4, <1>5, CommitDirtyIs
<1>7. y \in Roster /\ Alike(y, r) /\ y.loaded = TRUE /\ y.ssibusy = r.ssibusy
  BY <1>4, <1>6 DEF Alike, Committed
<1>8. /\ \A k \in Gids : y.groups[k] = IF l.groups[k] = Nothing THEN r.groups[k] ELSE l.groups[k]
      /\ \A i \in Items :
           y.members[i] = IF l.groups[i[1]] = Nothing THEN r.members[i] ELSE l.members[i]
  BY <1>2, <1>3, <1>4, <1>6 DEF Committed
<1>9. \A p \in Buddies :
        \/ /\ \A i \in Items : l.members[i] # Nothing => y.members[i] # p
           /\ y.buddies[p] = r.buddies[p]
        \/ \E i \in Items : /\ l.members[i] # Nothing /\ y.members[i] = p
                            /\ y.buddies[p] = [group |-> y.groups[i[1]], uploaded |-> TRUE]
  <2>1. y.groups = z.groups /\ y.members = z.members
    BY <1>6 DEF Committed
  <2> TAKE p \in Buddies
  <2>2. CASE (\A i \in dirty : z.members[i] # p) /\ y.buddies[p] = z.buddies[p]
    BY <2>1, <2>2, <1>4 DEF dirty
  <2>3. ASSUME NEW i \in dirty, z.members[i] = p,
               y.buddies[p] = [group |-> z.groups[i[1]], uploaded |-> TRUE]
        PROVE  \E j \in Items : /\ l.members[j] # Nothing /\ y.members[j] = p
                                /\ y.buddies[p] = [group |-> y.groups[j[1]], uploaded |-> TRUE]
    BY <2>1, <2>3 DEF dirty
  <2> QED
    BY <1>6, <2>2, <2>3, Zenon DEF Committed, EnteredAs
<1>10. Replaced(y, r, l)
  BY <1>7, <1>8, <1>9, Zenon DEF Replaced
<1> QED
  BY <1>10 DEF y, l

-----------------------------------------------------------------------------
(* Frames, one after the other. *)

LEMMA HeardKeeps ==
  ASSUME NEW r \in Roster, NEW m \in Told, m.kind # "limits", Fits(r, m)
  PROVE  LET y == Heard(r, m) IN
         /\ y \in Roster /\ Alike(y, r)
         /\ m.kind = "roster" => y.loaded = TRUE
         /\ m.kind # "roster" => y.loaded = r.loaded
<1>1. CASE m.kind \in {"start", "end"}
  BY <1>1, HeardBusy
<1>2. CASE m.kind = "roster"
  BY <1>2, ToldIs, HeardRoster DEF Replaced
<1>3. CASE m.kind = "addgroup"
  BY <1>3, ToldIs, HeardAddGroup
<1>4. CASE m.kind = "add"
  BY <1>4, ToldIs, HeardAdd
<1>5. CASE m.kind = "remove"
  <2>1. m.item \in Items /\ r.members[m.item] # Nothing
    BY <1>5, ToldIs DEF Fits
  <2>2. r.members[m.item] \in Buddies
    BY <2>1, RosterIs
  <2> QED
    BY <1>5, <2>1, <2>2, HeardRemove
<1>6. CASE m.kind = "removegroup"
  BY <1>6, ToldIs, HeardRemoveGroup
<1> QED
  BY <1>1, <1>2, <1>3, <1>4, <1>5, <1>6, ToldIs

(* Only that an item is removed takes a buddy off. *)
LEMMA HeardUploads ==
  ASSUME NEW r \in Roster, NEW m \in Told, m.kind \notin {"limits", "remove"},
         NEW p \in Buddies, r.buddies[p].uploaded
  PROVE  Heard(r, m).buddies[p].uploaded
<1>1. CASE m.kind \in {"start", "end"}
  BY <1>1, HeardBusy
<1>2. CASE m.kind = "roster"
  <2> DEFINE y == Heard(r, m)
  <2>1. \/ y.buddies[p] = r.buddies[p]
        \/ \E i \in Items : y.buddies[p] = [group |-> y.groups[i[1]], uploaded |-> TRUE]
    <3> HIDE DEF y
    <3>1. Replaced(y, r, m.list)
      BY <1>2, ToldIs, HeardRoster DEF y
    <3> QED
      BY <3>1, Zenon DEF Replaced
  <2> HIDE DEF y
  <2>2. ASSUME y.buddies[p] = r.buddies[p] PROVE y.buddies[p].uploaded
    BY <2>2
  <2>3. ASSUME NEW i \in Items, y.buddies[p] = [group |-> y.groups[i[1]], uploaded |-> TRUE]
        PROVE  y.buddies[p].uploaded
    BY <2>3
  <2>4. y.buddies[p].uploaded
    BY <2>1, <2>2, <2>3, Zenon
  <2> QED
    BY <2>4 DEF y
<1>3. CASE m.kind = "addgroup"
  BY <1>3, ToldIs, HeardAddGroup
<1>4. CASE m.kind = "add"
  <2> DEFINE y == Heard(r, m)
  <2>1. \/ y.buddies[p] = r.buddies[p]
        \/ y.buddies[p] = [group |-> r.groups[m.item[1]], uploaded |-> TRUE]
    BY <1>4, ToldIs, HeardAdd
  <2> HIDE DEF y
  <2>2. y.buddies[p].uploaded
    BY <2>1
  <2> QED
    BY <2>2 DEF y
<1>6. CASE m.kind = "removegroup"
  BY <1>6, ToldIs, HeardRemoveGroup
<1> QED
  BY <1>1, <1>2, <1>3, <1>4, <1>6, ToldIs

LEMMA ComesHere ==
  ASSUME NEW r \in Roster
  PROVE  ComesTo(r, <<>>, r) /\ \A x : ComesTo(r, <<>>, x) => x = r
<1> DEFINE h == [j \in 0..Len(<<>>) |-> r]
<1>1. h \in [0..Len(<<>>) -> Roster] /\ h[0] = r /\ h[Len(<<>>)] = r
  OBVIOUS
<1> HIDE DEF h
<1>2. Path(r, <<>>, r, h)
  BY <1>1 DEF Path
<1>3. ASSUME NEW x, ComesTo(r, <<>>, x) PROVE x = r
  BY <1>3 DEF ComesTo, Path
<1> QED
  BY <1>1, <1>2, <1>3 DEF ComesTo

LEMMA ComesOn ==
  ASSUME NEW r \in Roster, NEW told \in Seq(Told), NEW m \in Told, NEW x \in Roster,
         ComesTo(r, told, x), Fits(x, m), Heard(x, m) \in Roster
  PROVE  ComesTo(r, Append(told, m), Heard(x, m))
<1> DEFINE n == Len(told)
           y == Heard(x, m)
           more == Append(told, m)
<1>1. PICK h \in [0..n -> Roster] : Path(r, told, x, h)
  BY DEF ComesTo
<1> DEFINE g == [j \in 0..(n + 1) |-> IF j <= n THEN h[j] ELSE y]
<1>2. n \in Nat /\ Len(more) = n + 1 /\ more[n + 1] = m /\ \A j \in 1..n : more[j] = told[j]
  OBVIOUS
<1>3. /\ g \in [0..(n + 1) -> Roster] /\ g[n + 1] = y
      /\ \A j \in 0..n : g[j] = h[j]
  BY <1>2
<1>4. /\ h[0] = r /\ h[n] = x
      /\ \A j \in 1..n : Fits(h[j - 1], told[j]) /\ h[j] = Heard(h[j - 1], told[j])
  BY <1>1 DEF Path
<1>5. \A j \in 1..n : j \in 0..n /\ j - 1 \in 0..n
  BY <1>2
<1>6. n + 1 \in 1..(n + 1) /\ (n + 1) - 1 = n /\ n \in 0..n /\ 0 \in 0..n
      /\ \A j \in 1..(n + 1) : j = n + 1 \/ j \in 1..n
  BY <1>2
<1>7. y = Heard(x, m) /\ Fits(x, m)
  OBVIOUS
<1> HIDE DEF g, n, y, more
<1>8. ASSUME NEW j \in 1..(n + 1) PROVE Fits(g[j - 1], more[j]) /\ g[j] = Heard(g[j - 1], more[j])
  <2>1. CASE j \in 1..n
    <3>1. g[j - 1] = h[j - 1] /\ g[j] = h[j] /\ more[j] = told[j]
      BY <2>1, <1>2, <1>3, <1>5
    <3> QED
      BY <2>1, <3>1, <1>4
  <2>2. CASE j = n + 1
    <3>1. j - 1 = n
      BY <2>2, <1>6
    <3>2. g[j - 1] = x /\ g[j] = y /\ more[j] = m
      BY <2>2, <3>1, <1>2, <1>3, <1>4, <1>6
    <3> QED
      BY <3>2, <1>7
  <2> QED
    BY <2>1, <2>2, <1>6
<1>9. Path(r, more, y, g)
  <2>1. g[0] = r /\ g[Len(more)] = y
    BY <1>2, <1>3, <1>4, <1>6
  <2>2. \A j \in 1..Len(more) : Fits(g[j - 1], more[j]) /\ g[j] = Heard(g[j - 1], more[j])
    BY <1>2, <1>8
  <2> QED
    BY <2>1, <2>2 DEF Path
<1>10. g \in [0..Len(more) -> Roster]
  BY <1>2, <1>3
<1>11. ComesTo(r, more, y)
  BY <1>9, <1>10 DEF ComesTo
<1> QED
  BY <1>11 DEF more, y

LEMMA ComesFrom ==
  ASSUME NEW r \in Roster, NEW told \in Seq(Told), told # <<>>, NEW x \in Roster, ComesTo(r, told, x)
  PROVE  /\ Fits(r, Head(told)) /\ Heard(r, Head(told)) \in Roster
         /\ ComesTo(Heard(r, Head(told)), Tail(told), x)
<1> DEFINE n == Len(told)
           rest == Tail(told)
<1>1. PICK h \in [0..n -> Roster] : Path(r, told, x, h)
  BY DEF ComesTo
<1> DEFINE g == [j \in 0..(n - 1) |-> h[j + 1]]
<1>2. /\ n \in Nat /\ n # 0 /\ Len(rest) = n - 1 /\ told[1] = Head(told)
      /\ \A j \in 1..(n - 1) : rest[j] = told[j + 1]
  OBVIOUS
<1>3. /\ h[0] = r /\ h[n] = x
      /\ \A j \in 1..n : Fits(h[j - 1], told[j]) /\ h[j] = Heard(h[j - 1], told[j])
  BY <1>1 DEF Path
<1>4. /\ 1 \in 1..n /\ 1 - 1 = 0 /\ 1 \in 0..n /\ 0 \in 0..(n - 1) /\ 0 + 1 = 1
      /\ n - 1 \in 0..(n - 1) /\ (n - 1) + 1 = n
      /\ \A j \in 1..(n - 1) : /\ j \in 0..(n - 1) /\ j - 1 \in 0..(n - 1) /\ j + 1 \in 1..n
                               /\ (j - 1) + 1 = j /\ (j + 1) - 1 = j
      /\ \A j \in 0..(n - 1) : j + 1 \in 0..n
  BY <1>2
<1>5. Fits(r, Head(told)) /\ h[1] = Heard(r, Head(told)) /\ h[1] \in Roster
  BY <1>2, <1>3, <1>4
<1>6. g \in [0..(n - 1) -> Roster] /\ \A j \in 0..(n - 1) : g[j] = h[j + 1]
  BY <1>4
<1> HIDE DEF g, n, rest
<1>7. ASSUME NEW j \in 1..(n - 1) PROVE Fits(g[j - 1], rest[j]) /\ g[j] = Heard(g[j - 1], rest[j])
  <2>1. g[j - 1] = h[j] /\ g[j] = h[j + 1] /\ rest[j] = told[j + 1]
    BY <1>2, <1>4, <1>6
  <2>2. Fits(h[(j + 1) - 1], told[j + 1]) /\ h[j + 1] = Heard(h[(j + 1) - 1], told[j + 1])
    BY <1>3, <1>4
  <2>3. (j + 1) - 1 = j
    BY <1>4
  <2> QED
    BY <2>1, <2>2, <2>3
<1>8. g[0] = h[1] /\ g[Len(rest)] = x
  BY <1>2, <1>3, <1>4, <1>6
<1>9. Path(h[1], rest, x, g)
  BY <1>2, <1>7, <1>8 DEF Path
<1>10. ComesTo(h[1], rest, x)
  BY <1>2, <1>6, <1>9 DEF ComesTo
<1> QED
  BY <1>5, <1>10 DEF rest

(* Without a removal under way, who is there now will be. *)
LEMMA StillUploaded ==
  ASSUME NEW r \in Roster, NEW told \in Seq(Told), NEW x \in Roster, ComesTo(r, told, x),
         \A j \in DOMAIN told : told[j].kind \notin {"limits", "remove"},
         NEW p \in Buddies, r.buddies[p].uploaded
  PROVE  x.buddies[p].uploaded
<1> DEFINE n == Len(told)
<1>1. PICK h \in [0..n -> Roster] : Path(r, told, x, h)
  BY DEF ComesTo
<1> DEFINE G == {j \in 0..n : h[j].buddies[p].uploaded}
<1>2. n \in Nat /\ DOMAIN told = 1..n /\ \A j \in 1..n : told[j] \in Told
  OBVIOUS
<1>3. /\ h[0] = r /\ h[n] = x
      /\ \A j \in 1..n : h[j] = Heard(h[j - 1], told[j])
  BY <1>1 DEF Path
<1>4. /\ 0 \in 0..n /\ n \in 0..n
      /\ \A j \in 0..(n - 1) : j \in 0..n /\ j + 1 \in 0..n /\ j + 1 \in 1..n /\ (j + 1) - 1 = j
  BY <1>2
<1>5. 0 \in G
  BY <1>3, <1>4
<1> HIDE DEF n
<1>6. ASSUME NEW j \in 0..(n - 1), j \in G PROVE j + 1 \in G
  <2>1. h[j] \in Roster /\ h[j].buddies[p].uploaded
    BY <1>6, <1>4
  <2>2. told[j + 1] \in Told /\ told[j + 1].kind \notin {"limits", "remove"}
    BY <1>2, <1>4
  <2>3. Heard(h[j], told[j + 1]).buddies[p].uploaded
    BY <2>1, <2>2, HeardUploads
  <2>4. h[j + 1] = Heard(h[j], told[j + 1])
    BY <1>3, <1>4
  <2> QED
    BY <2>3, <2>4, <1>4
<1>7. n \in G
  <2> HIDE DEF G
  <2> QED
    BY <1>2, <1>4, <1>5, <1>6, UpTo
<1> QED
  BY <1>7, <1>3

-----------------------------------------------------------------------------
(* What the server tells keeps the driver's list the server's. *)

LEMMA HoldsBusy ==
  ASSUME NEW w, NEW x \in Roster, NEW l, Holds(x, l, w), NEW m, m.kind \in {"start", "end"}
  PROVE  Holds(Heard(x, m), l, w)
<1> DEFINE y == Heard(x, m)
<1>1. /\ Alike(y, x) /\ y.loaded = x.loaded
      /\ y.groups = x.groups /\ y.members = x.members /\ y.buddies = x.buddies
  BY HeardBusy
<1> HIDE DEF y
<1>2. Covers(y, l)
  BY <1>1 DEF Holds, Covers
<1>3. ASSUME w = {} PROVE Equals(y, l, {})
  BY <1>1, <1>3 DEF Holds, Equals
<1>4. Holds(y, l, w)
  BY <1>1, <1>2, <1>3 DEF Holds, Alike
<1> QED
  BY <1>4 DEF y

LEMMA HoldsAddGroup ==
  ASSUME NEW w, NEW x \in Roster, NEW l \in List, Holds(x, l, w), Proper(l),
         NEW m, m.kind = "addgroup", m.gid \in Gids, m.name \in GroupNames, l.groups[m.gid] = Nothing,
         NEW n \in List, n.members = l.members, n.groups[m.gid] = m.name,
         \A k \in Gids : k # m.gid => n.groups[k] = l.groups[k]
  PROVE  Holds(Heard(x, m), n, w) /\ Proper(n)
<1> DEFINE y == Heard(x, m)
<1>1. /\ Alike(y, x) /\ y.loaded = x.loaded /\ y.buddies = x.buddies
      /\ \A k \in Gids : y.groups[k] = IF k = m.gid THEN m.name ELSE x.groups[k]
      /\ \A i \in Items : y.members[i] = IF i[1] = m.gid THEN Nothing ELSE x.members[i]
  BY HeardAddGroup
<1>2. \A i \in Items : l.members[i] # Nothing => i[1] # m.gid /\ i[1] \in Gids
  BY ItemIs DEF Proper
<1> HIDE DEF y
<1>3. Covers(y, n)
  BY <1>1, <1>2 DEF Holds, Covers
<1>4. ASSUME w = {} PROVE Equals(y, n, {})
  <2>1. Equals(x, l, {})
    BY <1>4 DEF Holds
  <2>2. \A i \in Items : y.members[i] = n.members[i]
    BY <1>1, <1>2, <2>1 DEF Equals
  <2>3. \A p \in Buddies \ {} : y.buddies[p].uploaded <=> Has(n, p)
    BY <1>1, <2>1 DEF Equals, Has
  <2>4. \A i \in Items : n.members[i] # Nothing /\ n.members[i] \notin {} =>
          y.buddies[n.members[i]].group = n.groups[i[1]]
    BY <1>1, <1>2, <2>1 DEF Equals
  <2> QED
    BY <2>2, <2>3, <2>4 DEF Equals
<1>5. Proper(n)
  BY <1>2 DEF Proper
<1>6. Holds(y, n, w)
  BY <1>1, <1>3, <1>4 DEF Holds, Alike
<1> QED
  BY <1>5, <1>6 DEF y

LEMMA HoldsAdd ==
  ASSUME NEW w, NEW x \in Roster, NEW l \in List, Holds(x, l, w), Proper(l),
         NEW m, m.kind = "add", m.item \in Items, m.who \in Buddies,
         l.groups[m.item[1]] # Nothing, ~Has(l, m.who),
         \A k \in Gids : l.members[<<k, m.item[2]>>] = Nothing,
         NEW n \in List, n.groups = l.groups, n.members[m.item] = m.who,
         \A i \in Items : i # m.item => n.members[i] = l.members[i]
  PROVE  Holds(Heard(x, m), n, w) /\ Proper(n)
<1> DEFINE y == Heard(x, m)
           item == m.item
           who == m.who
<1>1. /\ Alike(y, x) /\ y.loaded = x.loaded /\ y.groups = x.groups
      /\ y.members[item] = who
      /\ \A i \in Items \ {item} :
           y.members[i] = IF x.members[item] = Nothing /\ i[2] = item[2] THEN Nothing ELSE x.members[i]
      /\ \A p \in Buddies \ {who} : y.buddies[p] = x.buddies[p]
      /\ y.buddies[who] = [group |-> x.groups[item[1]], uploaded |-> TRUE]
  BY HeardAdd
<1>2. item \in Items /\ who \in Buddies /\ who # Nothing /\ item[1] \in Gids
  BY ItemIs, OscarRosterAssumption
<1>3. \A i \in Items : i[2] = item[2] => l.members[i] = Nothing
  BY ItemIs
<1>4. n.members[item] = who /\ \A i \in Items : i # item => n.members[i] = l.members[i]
  OBVIOUS
<1>5. \A i \in Items : l.members[i] # who
  BY DEF Has
<1>6. l.groups[item[1]] # Nothing
  OBVIOUS
<1> HIDE DEF y, item, who
<1>7. Covers(y, n)
  <2>1. \A i \in Items : n.members[i] # Nothing => y.members[i] = n.members[i]
    BY <1>1, <1>2, <1>3, <1>4 DEF Holds, Covers
  <2>2. \A k \in Gids : n.groups[k] # Nothing => y.groups[k] = n.groups[k]
    BY <1>1 DEF Holds, Covers
  <2> QED
    BY <2>1, <2>2 DEF Covers
<1>8. ASSUME w = {} PROVE Equals(y, n, {})
  <2>1. Equals(x, l, {})
    BY <1>8 DEF Holds
  <2>2. \A i \in Items : y.members[i] = n.members[i]
    BY <1>1, <1>3, <1>4, <2>1 DEF Equals
  <2>3. ASSUME NEW p \in Buddies PROVE y.buddies[p].uploaded <=> Has(n, p)
    <3>1. CASE p = who
      BY <3>1, <1>1, <1>2, <1>4 DEF Has
    <3>2. CASE p # who
      <4>1. Has(n, p) <=> Has(l, p)
        <5>1. ASSUME NEW i \in Items, n.members[i] = p PROVE l.members[i] = p
          BY <3>2, <5>1, <1>4
        <5>2. ASSUME NEW i \in Items, l.members[i] = p PROVE n.members[i] = p
          <6>1. i # item
            BY <5>2, <1>3, OscarRosterAssumption
          <6> QED
            BY <5>2, <6>1, <1>4
        <5> QED
          BY <5>1, <5>2 DEF Has
      <4> QED
        BY <4>1, <3>2, <1>1, <2>1 DEF Equals
    <3> QED
      BY <3>1, <3>2
  <2>4. ASSUME NEW i \in Items, n.members[i] # Nothing PROVE y.buddies[n.members[i]].group = n.groups[i[1]]
    <3>1. CASE i = item
      <4>1. n.groups[item[1]] = x.groups[item[1]]
        BY <1>2, <1>6 DEF Holds, Covers
      <4> QED
        BY <3>1, <4>1, <1>1, <1>4
    <3>2. CASE i # item
      <4>1. n.members[i] = l.members[i] /\ l.members[i] # who /\ l.members[i] \in Buddies
        BY <3>2, <2>4, <1>4, <1>5, ListIs
      <4>2. x.buddies[l.members[i]].group = l.groups[i[1]]
        BY <2>4, <4>1, <2>1 DEF Equals
      <4> QED
        BY <4>1, <4>2, <1>1
    <3> QED
      BY <3>1, <3>2
  <2> QED
    BY <2>2, <2>3, <2>4 DEF Equals
<1>9. Proper(n)
  <2>1. \A i \in Items : n.members[i] # Nothing => n.groups[i[1]] # Nothing
    BY <1>4, <1>6 DEF Proper
  <2>2. ASSUME NEW i \in Items, NEW j \in Items, n.members[i] # Nothing, n.members[i] = n.members[j]
        PROVE  i = j
    BY <2>2, <1>4, <1>5 DEF Proper
  <2> QED
    BY <2>1, <2>2 DEF Proper
<1>10. Holds(y, n, w)
  BY <1>1, <1>7, <1>8 DEF Holds, Alike
<1> QED
  BY <1>9, <1>10 DEF y

LEMMA HoldsRemove ==
  ASSUME NEW w, NEW x \in Roster, NEW l \in List, Holds(x, l, w), Proper(l),
         NEW m, m.kind = "remove", m.item \in Items, l.members[m.item] # Nothing,
         NEW n \in List, n.groups = l.groups,
         \A i \in Items : n.members[i] = IF i = m.item THEN Nothing ELSE l.members[i]
  PROVE  Fits(x, m) /\ Holds(Heard(x, m), n, w) /\ Proper(n)
<1> DEFINE y == Heard(x, m)
           item == m.item
           who == l.members[item]
<1>0. item \in Items /\ who \in Buddies /\ x.members[item] = who /\ item[1] \in Gids /\ who # Nothing
  BY ListIs, ItemIs DEF Holds, Covers
<1>1. /\ Alike(y, x) /\ y.loaded = x.loaded /\ y.groups = x.groups
      /\ \A i \in Items : y.members[i] = IF i = item THEN Nothing ELSE x.members[i]
      /\ \A p \in Buddies \ {who} : y.buddies[p] = x.buddies[p]
      /\ x.buddies[who].group = x.groups[item[1]] => y.buddies[who] = Unlisted
  BY <1>0, HeardRemove
<1>2. Fits(x, m)
  BY <1>0 DEF Fits
<1>3. \A i \in Items : n.members[i] = IF i = item THEN Nothing ELSE l.members[i]
  OBVIOUS
<1>4. l.groups[item[1]] # Nothing /\ l.members[item] = who /\ \A i \in Items : l.members[i] = who => i = item
  BY <1>0 DEF Proper
<1> HIDE DEF y, item, who
<1>5. Covers(y, n)
  <2>1. \A i \in Items : n.members[i] # Nothing => y.members[i] = n.members[i]
    BY <1>1, <1>3 DEF Holds, Covers
  <2>2. \A k \in Gids : n.groups[k] # Nothing => y.groups[k] = n.groups[k]
    BY <1>1 DEF Holds, Covers
  <2> QED
    BY <2>1, <2>2 DEF Covers
<1>6. ASSUME w = {} PROVE Equals(y, n, {})
  <2>1. Equals(x, l, {})
    BY <1>6 DEF Holds
  <2>2. \A i \in Items : y.members[i] = n.members[i]
    BY <1>1, <1>3, <2>1 DEF Equals
  <2>3. ASSUME NEW p \in Buddies PROVE y.buddies[p].uploaded <=> Has(n, p)
    <3>1. CASE p = who
      <4>1. ~Has(n, p)
        BY <3>1, <1>0, <1>3, <1>4 DEF Has
      <4>2. x.buddies[who].group = l.groups[item[1]]
        BY <2>1, <1>0, <1>4 DEF Equals
      <4>3. x.groups[item[1]] = l.groups[item[1]]
        BY <1>0, <1>4 DEF Holds, Covers
      <4>4. y.buddies[who] = Unlisted
        BY <4>2, <4>3, <1>1
      <4> QED
        BY <3>1, <4>1, <4>4 DEF Unlisted
    <3>2. CASE p # who
      <4>1. Has(n, p) <=> Has(l, p)
        BY <3>2, <1>3, <1>4, OscarRosterAssumption DEF Has
      <4> QED
        BY <4>1, <3>2, <1>1, <2>1 DEF Equals
    <3> QED
      BY <3>1, <3>2
  <2>4. ASSUME NEW i \in Items, n.members[i] # Nothing PROVE y.buddies[n.members[i]].group = n.groups[i[1]]
    <3>1. n.members[i] = l.members[i] /\ l.members[i] # who /\ l.members[i] \in Buddies
      BY <2>4, <1>3, <1>4, ListIs
    <3>2. x.buddies[l.members[i]].group = l.groups[i[1]]
      BY <2>4, <3>1, <2>1 DEF Equals
    <3> QED
      BY <3>1, <3>2, <1>1
  <2> QED
    BY <2>2, <2>3, <2>4 DEF Equals
<1>7. Proper(n)
  BY <1>3 DEF Proper
<1>8. Holds(y, n, w)
  BY <1>1, <1>5, <1>6 DEF Holds, Alike
<1> QED
  BY <1>2, <1>7, <1>8 DEF y

LEMMA HoldsRemoveGroup ==
  ASSUME NEW w, NEW x \in Roster, NEW l \in List, Holds(x, l, w), Proper(l),
         NEW m, m.kind = "removegroup", m.gid \in Gids, Empty(l.members, m.gid),
         NEW n \in List,
         \A k \in Gids : n.groups[k] = IF k = m.gid THEN Nothing ELSE l.groups[k],
         \A i \in Items : n.members[i] = IF i[1] = m.gid THEN Nothing ELSE l.members[i]
  PROVE  Holds(Heard(x, m), n, w) /\ Proper(n)
<1> DEFINE y == Heard(x, m)
<1>1. /\ Alike(y, x) /\ y.loaded = x.loaded /\ y.buddies = x.buddies
      /\ \A k \in Gids : y.groups[k] = IF k = m.gid THEN Nothing ELSE x.groups[k]
      /\ \A i \in Items : y.members[i] = IF i[1] = m.gid THEN Nothing ELSE x.members[i]
  BY HeardRemoveGroup
<1>2. \A i \in Items : i[1] \in Gids /\ (i[1] = m.gid => l.members[i] = Nothing)
  BY ItemIs DEF Empty
<1>3. \A i \in Items : n.members[i] = l.members[i]
  BY <1>2
<1> HIDE DEF y
<1>4. Covers(y, n)
  BY <1>1, <1>2 DEF Holds, Covers
<1>5. ASSUME w = {} PROVE Equals(y, n, {})
  <2>1. Equals(x, l, {})
    BY <1>5 DEF Holds
  <2>2. \A i \in Items : y.members[i] = n.members[i]
    BY <1>1, <1>2, <2>1 DEF Equals
  <2>3. \A p \in Buddies \ {} : y.buddies[p].uploaded <=> Has(n, p)
    BY <1>1, <1>3, <2>1 DEF Equals, Has
  <2>4. \A i \in Items : n.members[i] # Nothing /\ n.members[i] \notin {} =>
          y.buddies[n.members[i]].group = n.groups[i[1]]
    BY <1>1, <1>2, <1>3, <2>1 DEF Equals
  <2> QED
    BY <2>2, <2>3, <2>4 DEF Equals
<1>6. Proper(n)
  BY <1>2, <1>3 DEF Proper
<1>7. Holds(y, n, w)
  BY <1>1, <1>4, <1>5 DEF Holds, Alike
<1> QED
  BY <1>6, <1>7 DEF y

LEMMA HoldsRoster ==
  ASSUME NEW w, NEW r \in Roster, NEW l \in List, Proper(l), r.up, r.known, ~r.fault,
         \A i \in Items : r.members[i] = Nothing,
         w = {} => StoredFirst(r, l),
         NEW m, m.kind = "roster", m.list = l
  PROVE  Holds(Heard(r, m), l, w) /\ Heard(r, m) \in Roster /\ Heard(r, m).ssibusy = r.ssibusy
<1> DEFINE y == Heard(r, m)
<1>1. Replaced(y, r, l)
  BY HeardRoster
<1> HIDE DEF y
<1>2. /\ \A k \in Gids : y.groups[k] = IF l.groups[k] = Nothing THEN r.groups[k] ELSE l.groups[k]
      /\ \A i \in Items : y.members[i] = l.members[i]
  <2>1. \A i \in Items : l.groups[i[1]] = Nothing => l.members[i] = Nothing
    BY DEF Proper
  <2> QED
    BY <1>1, <2>1 DEF Replaced
<1>3. Covers(y, l)
  BY <1>2 DEF Covers
<1>4. ASSUME w = {} PROVE Equals(y, l, {})
  <2>1. \A p \in Buddies :
          \/ ~Has(l, p) /\ y.buddies[p] = r.buddies[p]
          \/ \E i \in Items : /\ l.members[i] = p
                              /\ y.buddies[p] = [group |-> l.groups[i[1]], uploaded |-> TRUE]
    <3> TAKE p \in Buddies
    <3>1. CASE /\ \A i \in Items : l.members[i] # Nothing => y.members[i] # p
               /\ y.buddies[p] = r.buddies[p]
      BY <3>1, <1>2, OscarRosterAssumption DEF Has
    <3>2. ASSUME NEW i \in Items, l.members[i] # Nothing, y.members[i] = p,
                 y.buddies[p] = [group |-> y.groups[i[1]], uploaded |-> TRUE]
          PROVE  /\ l.members[i] = p
                 /\ y.buddies[p] = [group |-> l.groups[i[1]], uploaded |-> TRUE]
      <4>1. y.groups[i[1]] = l.groups[i[1]]
        BY <3>2, <1>2, ItemIs DEF Proper
      <4> QED
        BY <3>2, <4>1, <1>2
    <3> QED
      BY <1>1, <3>1, <3>2, Zenon DEF Replaced
  <2>2. ASSUME NEW p \in Buddies PROVE y.buddies[p].uploaded <=> Has(l, p)
    <3>1. ASSUME ~Has(l, p), y.buddies[p] = r.buddies[p] PROVE ~y.buddies[p].uploaded
      BY <3>1, <1>4 DEF StoredFirst
    <3>2. ASSUME NEW i \in Items, l.members[i] = p,
                 y.buddies[p] = [group |-> l.groups[i[1]], uploaded |-> TRUE]
          PROVE  Has(l, p) /\ y.buddies[p].uploaded
      BY <3>2 DEF Has
    <3> QED
      BY <2>1, <3>1, <3>2
  <2>3. ASSUME NEW j \in Items, l.members[j] # Nothing PROVE y.buddies[l.members[j]].group = l.groups[j[1]]
    <3> DEFINE p == l.members[j]
    <3>1. p \in Buddies /\ Has(l, p)
      BY <2>3, ListIs DEF Has
    <3>2. PICK i \in Items : /\ l.members[i] = p
                             /\ y.buddies[p] = [group |-> l.groups[i[1]], uploaded |-> TRUE]
      BY <2>1, <3>1
    <3>3. i = j
      BY <2>3, <3>2 DEF Proper
    <3> QED
      BY <3>2, <3>3
  <2> QED
    BY <1>2, <2>2, <2>3 DEF Equals
<1>5. y.loaded /\ y.up /\ y.known /\ ~y.fault /\ y \in Roster /\ y.ssibusy = r.ssibusy
  BY <1>1 DEF Replaced, Alike
<1>6. Holds(y, l, w)
  BY <1>3, <1>4, <1>5 DEF Holds
<1> QED
  BY <1>5, <1>6 DEF y

-----------------------------------------------------------------------------
(* The driver's part of the user's commands. *)

Pair(r, l) == [r |-> r, l |-> l]

Pairs == [r : Roster, l : List]

LEMMA DriverRemoveIs ==
  ASSUME NEW r \in Roster, NEW l \in List, NEW who \in Buddies, NEW group
  PROVE  LET d == DriverRemove(Pair(r, l), who, group) IN
         /\ d \in Pairs
         /\ Alike(d.r, r) /\ d.r.loaded = r.loaded /\ d.r.ssibusy = r.ssibusy
         /\ d.r.groups = r.groups /\ d.r.buddies = r.buddies
         /\ \A i \in Items : d.r.members[i] = IF r.members[i] = who /\ r.groups[i[1]] = group
                                              THEN Nothing ELSE r.members[i]
         /\ \A k \in Gids : d.l.groups[k] = IF r.groups[k] # Nothing /\ Empty(d.r.members, k)
                                            THEN Nothing ELSE l.groups[k]
         /\ \A i \in Items :
              d.l.members[i] = IF \/ r.groups[i[1]] # Nothing /\ Empty(d.r.members, i[1])
                                  \/ r.members[i] = who /\ r.groups[i[1]] = group /\ l.members[i] = who
                               THEN Nothing ELSE l.members[i]
<1> DEFINE d == DriverRemove(Pair(r, l), who, group)
           here == {i \in WhereIs(r.members, who) : r.groups[i[1]] = group}
           kept == [i \in Items |-> IF i \in here THEN Nothing ELSE r.members[i]]
           empty == {k \in Gids : r.groups[k] # Nothing /\ Empty(kept, k)}
           x == [r EXCEPT !.members = kept]
           m == ServerRemove(l, who, here)
           y == ServerRemoveGroups(m, empty)
<1>1. d = [r |-> x, l |-> y]
  BY DEF DriverRemove, Pair
<1>2. \A i \in Items : i \in here <=> r.members[i] = who /\ r.groups[i[1]] = group
  BY DEF WhereIs
<1> HIDE DEF here
<1>3. /\ kept \in [Items -> Buddies \cup {Nothing}]
      /\ \A i \in Items : kept[i] = IF i \in here THEN Nothing ELSE r.members[i]
  BY RosterIs
<1> HIDE DEF kept
<1>4. /\ x \in Roster /\ Alike(x, r) /\ x.loaded = r.loaded /\ x.ssibusy = r.ssibusy
      /\ x.groups = r.groups /\ x.buddies = r.buddies /\ x.members = kept
  BY <1>3 DEF Roster, Alike
<1>5. /\ m \in List /\ m.groups = l.groups
      /\ \A i \in Items : m.members[i] = IF i \in here /\ l.members[i] = who THEN Nothing ELSE l.members[i]
  BY ServerRemoveIs
<1>6. \A k \in Gids : k \in empty <=> r.groups[k] # Nothing /\ Empty(kept, k)
  OBVIOUS
<1> HIDE DEF x, m, empty
<1>7. /\ y \in List
      /\ \A k \in Gids : y.groups[k] = IF k \in empty THEN Nothing ELSE m.groups[k]
      /\ \A i \in Items : y.members[i] = IF i[1] \in empty THEN Nothing ELSE m.members[i]
  BY <1>5, ServerRemoveGroupsIs
<1> HIDE DEF y, d
<1>8. d.r = x /\ d.l = y /\ d \in Pairs
  BY <1>1, <1>4, <1>7 DEF Pairs
<1>9. \A i \in Items : x.members[i] = IF r.members[i] = who /\ r.groups[i[1]] = group
                                      THEN Nothing ELSE r.members[i]
  BY <1>2, <1>3, <1>4
<1>10. \A k \in Gids : y.groups[k] = IF r.groups[k] # Nothing /\ Empty(x.members, k)
                                     THEN Nothing ELSE l.groups[k]
  BY <1>4, <1>5, <1>6, <1>7
<1>11. \A i \in Items :
         y.members[i] = IF \/ r.groups[i[1]] # Nothing /\ Empty(x.members, i[1])
                           \/ r.members[i] = who /\ r.groups[i[1]] = group /\ l.members[i] = who
                        THEN Nothing ELSE l.members[i]
  BY <1>2, <1>4, <1>5, <1>6, <1>7, ItemIs
<1> QED
  BY <1>4, <1>8, <1>9, <1>10, <1>11 DEF d

(* Where all that the server has is the driver's, so it is afterwards; and only the one
   buddy is another. *)
(* What is left of a list when a buddy is taken out of a group. *)
TakenOff(d, w, who, r, l, group) ==
  /\ Covers(d.r, d.l) /\ Proper(d.l)
  /\ w = {} => Equals(d.r, d.l, {who})
  /\ \A i \in Items : d.l.members[i] = who => l.members[i] = who /\ r.groups[i[1]] # group

LEMMA DriverRemoveHolds ==
  ASSUME NEW w, NEW r \in Roster, NEW l \in List, Holds(r, l, w), Proper(l),
         NEW who \in Buddies, NEW group
  PROVE  TakenOff(DriverRemove(Pair(r, l), who, group), w, who, r, l, group)
<1> DEFINE d == DriverRemove(Pair(r, l), who, group)
           x == d.r
           n == d.l
<1>1. x.groups = r.groups /\ x.buddies = r.buddies
  BY DriverRemoveIs
<1>2. \A i \in Items : x.members[i] = IF r.members[i] = who /\ r.groups[i[1]] = group
                                      THEN Nothing ELSE r.members[i]
  BY DriverRemoveIs
<1>3. \A k \in Gids : n.groups[k] = IF r.groups[k] # Nothing /\ Empty(x.members, k)
                                    THEN Nothing ELSE l.groups[k]
  BY DriverRemoveIs
<1>4. \A i \in Items :
        n.members[i] = IF \/ r.groups[i[1]] # Nothing /\ Empty(x.members, i[1])
                          \/ r.members[i] = who /\ r.groups[i[1]] = group /\ l.members[i] = who
                       THEN Nothing ELSE l.members[i]
  BY DriverRemoveIs
<1> HIDE DEF d
<1>5. \A i \in Items : Empty(x.members, i[1]) => x.members[i] = Nothing
  BY ItemIs DEF Empty
<1>6. Covers(r, l)
  BY DEF Holds
<1>7. \A i \in Items : l.members[i] # Nothing => r.members[i] = l.members[i]
  BY <1>6 DEF Covers
<1> HIDE DEF x, n
<1>8. Covers(x, n)
  <2>1. \A k \in Gids : n.groups[k] # Nothing => x.groups[k] = n.groups[k]
    BY <1>1, <1>3, <1>6 DEF Covers
  <2>2. \A i \in Items : n.members[i] # Nothing => x.members[i] = n.members[i]
    BY <1>2, <1>4, <1>7
  <2> QED
    BY <2>1, <2>2 DEF Covers
<1>9. Proper(n)
  <2>1. \A i \in Items : n.members[i] # Nothing => n.members[i] = l.members[i]
    BY <1>4
  <2>2. \A i \in Items : n.members[i] # Nothing => n.groups[i[1]] # Nothing
    BY <1>3, <1>4, ItemIs DEF Proper
  <2>3. \A i, j \in Items : n.members[i] # Nothing /\ n.members[i] = n.members[j] => i = j
    BY <2>1 DEF Proper
  <2> QED
    BY <2>2, <2>3 DEF Proper
<1>10. ASSUME w = {} PROVE Equals(x, n, {who})
  <2>1. Equals(r, l, {})
    BY <1>10 DEF Holds
  <2>2. \A i \in Items : x.members[i] = n.members[i]
    <3> SUFFICES ASSUME NEW i \in Items PROVE x.members[i] = n.members[i]
      OBVIOUS
    <3>1. r.members[i] = l.members[i]
      BY <2>1 DEF Equals
    <3> QED
      BY <3>1, <1>2, <1>4, <1>5
  <2>3. ASSUME NEW p \in Buddies \ {who} PROVE x.buddies[p].uploaded <=> Has(n, p)
    <3>1. Has(n, p) <=> Has(l, p)
      <4>1. \A i \in Items : r.members[i] = p <=> x.members[i] = p
        BY <1>2, OscarRosterAssumption
      <4>2. \A i \in Items : r.members[i] = l.members[i]
        BY <2>1 DEF Equals
      <4> QED
        BY <4>1, <4>2, <2>2 DEF Has
    <3> QED
      BY <3>1, <1>1, <2>1 DEF Equals
  <2>4. ASSUME NEW i \in Items, n.members[i] # Nothing, n.members[i] # who
        PROVE  x.buddies[n.members[i]].group = n.groups[i[1]]
    <3>1. n.members[i] = l.members[i] /\ n.groups[i[1]] = l.groups[i[1]]
      BY <2>4, <1>3, <1>4, ItemIs
    <3> QED
      BY <2>4, <3>1, <1>1, <2>1 DEF Equals
  <2> QED
    BY <2>2, <2>3, <2>4 DEF Equals
<1>11. \A i \in Items : n.members[i] = who => l.members[i] = who /\ r.groups[i[1]] # group
  BY <1>4, <1>7, OscarRosterAssumption
<1>12. TakenOff(d, w, who, r, l, group)
  BY <1>8, <1>9, <1>10, <1>11 DEF TakenOff, x, n
<1> QED
  BY <1>12 DEF d

LEMMA NewGidIs ==
  ASSUME NEW r \in Roster, NEW group \in GroupNames, NewGid(r, group) \in Gids
  PROVE  /\ TargetOf(r, group) # {} => NewGid(r, group) \in TargetOf(r, group)
         /\ TargetOf(r, group) = {} => r.groups[NewGid(r, group)] = Nothing
<1> DEFINE target == TargetOf(r, group)
           used == {0} \cup {k \in Gids : r.groups[k] # Nothing}
<1>1. MaxGid \in Nat
  BY OscarRosterAssumption
<1>2. Gids \subseteq 0..MaxGid /\ 0 \in 0..MaxGid
  BY <1>1 DEF Gids
<1>3. target \in SUBSET (0..MaxGid) /\ used \in SUBSET (0..MaxGid) /\ used # {}
  BY <1>2 DEF TargetOf
<1>4. CASE target # {}
  <2>1. NewGid(r, group) = Max(target)
    BY <1>4 DEF NewGid
  <2> HIDE DEF target
  <2>2. Max(target) \in target
    BY <1>1, <1>3, <1>4, MaxIs
  <2> QED
    BY <1>4, <2>1, <2>2 DEF target
<1>5. CASE target = {}
  <2>1. NewGid(r, group) = 1 + Max(used)
    BY <1>5 DEF NewGid
  <2>2. \A k \in Gids : r.groups[k] # Nothing => k \in used
    OBVIOUS
  <2> HIDE DEF used
  <2>3. Max(used) \in used /\ \A k \in used : k <= Max(used)
    BY <1>1, <1>3, MaxIs
  <2>4. Max(used) \in Nat
    <3> DEFINE top == Max(used)
    <3>1. top \in 0..MaxGid
      BY <1>3, <2>3
    <3> HIDE DEF top
    <3>2. top \in Nat
      BY <1>1, <3>1
    <3> QED
      BY <3>2 DEF top
  <2>5. ~(1 + Max(used) <= Max(used))
    BY <2>4
  <2> QED
    BY <1>5, <2>1, <2>2, <2>3, <2>5
<1> QED
  BY <1>4, <1>5

(* What goes before the item itself: at the driver, groups that are empty are taken off; at
   the server, the buddy and these, and the new group is added. *)
EmptyGroups(r, who, group) ==
  {k \in Gids \ TargetOf(r, group) : r.groups[k] # Nothing /\ Empty(Without(r.members, who), k)}

Pruned(r, l, who, group) ==
  ServerRemoveGroups(ServerRemove(l, who, WhereIs(r.members, who)), EmptyGroups(r, who, group))

Grouped(r, l, who, group, gid) ==
  IF TargetOf(r, group) = {} THEN ServerAddGroup(Pruned(r, l, who, group), gid, group)
  ELSE Pruned(r, l, who, group)

LEMMA DriverAddIs ==
  ASSUME NEW r \in Roster, NEW l \in List, NEW who \in Buddies, NEW group \in GroupNames,
         NEW item \in Items, item = <<NewGid(r, group), NewMid(r, who, group)>>
  PROVE  LET d == DriverAdd(Pair(r, l), who, group) IN
         /\ d \in Pairs
         /\ d.r.up = r.up /\ d.r.known = r.known /\ d.r.fault = r.fault
         /\ d.r.loaded = r.loaded /\ d.r.ssibusy = r.ssibusy
         /\ \A k \in Gids : d.r.groups[k] = IF k = item[1] THEN group
                                            ELSE IF k \in EmptyGroups(r, who, group) THEN Nothing
                                            ELSE r.groups[k]
         /\ \A i \in Items : d.r.members[i] = IF i = item THEN who
                                              ELSE IF r.members[i] = who THEN Nothing ELSE r.members[i]
         /\ \A p \in Buddies : d.r.buddies[p].group = r.buddies[p].group
         /\ \A p \in Buddies \ {who} : d.r.buddies[p] = r.buddies[p]
         /\ d.r.buddies[who].uploaded
         /\ Pruned(r, l, who, group) \in List /\ Grouped(r, l, who, group, item[1]) \in List
         /\ d.l = ServerAdd(Grouped(r, l, who, group, item[1]), item, who)
<1> DEFINE d == DriverAdd(Pair(r, l), who, group)
           target == TargetOf(r, group)
           kept == Without(r.members, who)
           empty == EmptyGroups(r, who, group)
           gid == item[1]
           out == ServerRemove(l, who, WhereIs(r.members, who))
           pruned == Pruned(r, l, who, group)
           mid == Grouped(r, l, who, group, gid)
           groups == [k \in Gids |-> IF k = gid THEN group ELSE IF k \in empty THEN Nothing ELSE r.groups[k]]
           members == [kept EXCEPT ![item] = who]
           entry == [r.buddies[who] EXCEPT !.uploaded = TRUE]
           buddies == [r.buddies EXCEPT ![who] = entry]
           x == [r EXCEPT !.groups = groups, !.members = members, !.buddies = buddies]
           y == ServerAdd(mid, item, who)
<1>0. gid = NewGid(r, group) /\ gid \in Gids
  BY ItemIs
<1>1. d = [r |-> x, l |-> y]
  BY <1>0 DEF DriverAdd, Pair, Grouped, Pruned, EmptyGroups
<1> HIDE DEF empty, gid
<1>2. /\ groups \in [Gids -> GroupNames \cup {Nothing}]
      /\ \A k \in Gids : groups[k] = IF k = gid THEN group ELSE IF k \in empty THEN Nothing ELSE r.groups[k]
  BY RosterIs
<1>3. /\ members \in [Items -> Buddies \cup {Nothing}]
      /\ \A i \in Items : members[i] = IF i = item THEN who
                                       ELSE IF r.members[i] = who THEN Nothing ELSE r.members[i]
  <2>1. /\ kept \in [Items -> Buddies \cup {Nothing}]
        /\ \A i \in Items : kept[i] = IF r.members[i] = who THEN Nothing ELSE r.members[i]
    BY RosterIs DEF Without
  <2> HIDE DEF kept
  <2> QED
    BY <2>1
<1>4. entry \in Listing /\ entry.group = r.buddies[who].group /\ entry.uploaded
  <2>1. r.buddies[who] \in Listing
    BY EntryIs
  <2> QED
    BY <2>1 DEF Listing
<1> HIDE DEF entry
<1>5. /\ buddies \in [Buddies -> Listing] /\ buddies[who] = entry
      /\ \A p \in Buddies \ {who} : buddies[p] = r.buddies[p]
  BY <1>4, RosterIs
<1> HIDE DEF groups, members, buddies
<1>6. /\ x \in Roster /\ Alike(x, r) /\ x.loaded = r.loaded /\ x.ssibusy = r.ssibusy
      /\ x.groups = groups /\ x.members = members /\ x.buddies = buddies
  BY <1>2, <1>3, <1>5 DEF Roster, Alike, Listing
<1>7. out \in List
  BY ServerRemoveIs
<1> HIDE DEF out
<1>8. pruned \in List
  BY <1>7, ServerRemoveGroupsIs DEF Pruned, out, empty
<1> HIDE DEF pruned
<1>9. mid \in List
  BY <1>0, <1>8, ServerAddGroupIs DEF Grouped, pruned
<1> HIDE DEF mid
<1>10. y \in List
  BY <1>9, ServerAddIs
<1> HIDE DEF x, y, d
<1>11. d.r = x /\ d.l = y /\ d \in Pairs
  BY <1>1, <1>6, <1>10 DEF Pairs
<1>12. \A p \in Buddies : x.buddies[p].group = r.buddies[p].group
  BY <1>4, <1>5, <1>6
<1>13. x.buddies[who].uploaded
  BY <1>4, <1>5, <1>6
<1>14. \A p \in Buddies \ {who} : x.buddies[p] = r.buddies[p]
  BY <1>5, <1>6
<1>15. x.up = r.up /\ x.known = r.known /\ x.fault = r.fault
  BY <1>6 DEF Alike
<1> QED
  BY <1>15, <1>2, <1>3, <1>6, <1>8, <1>9, <1>11, <1>12, <1>13, <1>14 DEF d, y, mid, pruned, empty, gid

(* A buddy who may be being moved is put where he belongs: in no group but one, at the
   driver, and at the server if that has the group. *)
LEMMA DriverAddHolds ==
  ASSUME NEW w, NEW r \in Roster, NEW l \in List, Covers(r, l), Proper(l),
         NEW who \in Buddies, NEW group \in GroupNames,
         w = {} => Equals(r, l, {who}),
         r.up, r.loaded, r.known, ~r.fault, r.buddies[who].group = group,
         NEW item \in Items, item = <<NewGid(r, group), NewMid(r, who, group)>>,
         Without(r.members, who)[item] = Nothing,
         w = {} /\ TargetOf(r, group) # {} => l.groups[item[1]] = group
  PROVE  LET d == DriverAdd(Pair(r, l), who, group) IN Holds(d.r, d.l, w) /\ Proper(d.l)
<1> DEFINE d == DriverAdd(Pair(r, l), who, group)
           target == TargetOf(r, group)
           kept == Without(r.members, who)
           empty == EmptyGroups(r, who, group)
           out == ServerRemove(l, who, WhereIs(r.members, who))
           pruned == Pruned(r, l, who, group)
           gid == item[1]
           mid == Grouped(r, l, who, group, gid)
           x == d.r
           n == d.l
<1>1. /\ Alike(x, r) /\ x.loaded = r.loaded
      /\ \A k \in Gids : x.groups[k] = IF k = gid THEN group
                                       ELSE IF k \in empty THEN Nothing ELSE r.groups[k]
      /\ \A i \in Items : x.members[i] = IF i = item THEN who
                                         ELSE IF r.members[i] = who THEN Nothing ELSE r.members[i]
      /\ \A p \in Buddies : x.buddies[p].group = r.buddies[p].group
      /\ \A p \in Buddies \ {who} : x.buddies[p] = r.buddies[p]
      /\ x.buddies[who].uploaded
  <2>1. x.loaded = r.loaded
    BY DriverAddIs
  <2>6. Alike(x, r)
    <3>1. x.up = r.up
      BY DriverAddIs
    <3>2. x.known = r.known
      BY DriverAddIs
    <3>3. x.fault = r.fault
      BY DriverAddIs
    <3> HIDE DEF x
    <3> QED
      BY <3>1, <3>2, <3>3 DEF Alike
  <2>2. \A k \in Gids : x.groups[k] = IF k = gid THEN group
                                     ELSE IF k \in empty THEN Nothing ELSE r.groups[k]
    BY DriverAddIs
  <2>3. \A i \in Items : x.members[i] = IF i = item THEN who
                                        ELSE IF r.members[i] = who THEN Nothing ELSE r.members[i]
    BY DriverAddIs
  <2>4. \A p \in Buddies : x.buddies[p].group = r.buddies[p].group
    BY DriverAddIs
  <2>5. (\A p \in Buddies \ {who} : x.buddies[p] = r.buddies[p]) /\ x.buddies[who].uploaded
    BY DriverAddIs
  <2> HIDE DEF x, gid, empty
  <2> QED
    BY <2>1, <2>2, <2>3, <2>4, <2>5, <2>6
<1>2. pruned \in List /\ mid \in List /\ n = ServerAdd(mid, item, who)
  BY DriverAddIs
<1>3. /\ gid = NewGid(r, group) /\ gid \in Gids
      /\ target # {} => gid \in target
      /\ target = {} => r.groups[gid] = Nothing
  BY ItemIs, NewGidIs
<1>4. \A k \in Gids : k \in target <=> r.groups[k] = group
  BY DEF TargetOf
<1>25. \A k \in Gids : k \in empty => k \notin target /\ Empty(kept, k)
  BY DEF EmptyGroups
<1>5. \A i \in Items : /\ i[1] \in Gids
                       /\ i[1] \in empty => i[1] \notin target /\ (r.members[i] = Nothing \/ r.members[i] = who)
  <2>1. \A i \in Items : Empty(kept, i[1]) => kept[i] = Nothing
    BY ItemIs DEF Empty
  <2>2. \A i \in Items : kept[i] = IF r.members[i] = who THEN Nothing ELSE r.members[i]
    BY DEF Without
  <2> QED
    BY <2>1, <2>2, <1>25, ItemIs
<1>6. r.members[item] \in {Nothing, who}
  BY DEF Without
<1>7. out \in List /\ out.groups = l.groups
      /\ \A i \in Items : out.members[i] = IF r.members[i] = who /\ l.members[i] = who THEN Nothing
                                           ELSE l.members[i]
  BY ServerRemoveIs DEF WhereIs
<1> HIDE DEF out
<1>8. /\ \A k \in Gids : pruned.groups[k] = IF k \in empty THEN Nothing ELSE l.groups[k]
      /\ \A i \in Items : pruned.members[i] = IF i[1] \in empty THEN Nothing
                                              ELSE IF r.members[i] = who /\ l.members[i] = who THEN Nothing
                                              ELSE l.members[i]
  BY <1>7, ServerRemoveGroupsIs DEF Pruned, out
<1>9. who # Nothing /\ group # Nothing
  BY OscarRosterAssumption
<1>26. gid \in empty => r.groups[gid] # Nothing
  BY DEF EmptyGroups
<1>10. gid \notin empty
  BY <1>3, <1>9, <1>25, <1>26
<1> HIDE DEF d, target, kept, empty, pruned, gid, mid
<1>11. /\ \A i \in Items : l.members[i] # Nothing => r.members[i] = l.members[i]
       /\ \A k \in Gids : l.groups[k] # Nothing => r.groups[k] = l.groups[k]
  BY DEF Covers
<1>12. /\ \A i \in Items : i[1] \in empty => l.members[i] \in {Nothing, who}
       /\ \A i \in Items : pruned.members[i] = IF l.members[i] = who THEN Nothing ELSE
                             IF i[1] \in empty THEN Nothing ELSE l.members[i]
  BY <1>5, <1>8, <1>11, <1>9
<1>13. \A i \in Items : pruned.members[i] = IF l.members[i] = who THEN Nothing ELSE l.members[i]
  BY <1>12
<1>14. /\ mid.members = pruned.members
       /\ \A k \in Gids : k # gid => mid.groups[k] = pruned.groups[k]
       /\ target = {} => mid.groups[gid] = group
       /\ target # {} => mid.groups[gid] = l.groups[gid]
  <2>1. CASE target = {}
    <3>1. mid = ServerAddGroup(pruned, gid, group)
      BY <2>1 DEF mid, Grouped, pruned, target
    <3>2. pruned.groups[gid] = Nothing
      BY <2>1, <1>3, <1>8, <1>10, <1>11
    <3>3. \A k \in Gids : pruned.groups[k] # group
      BY <2>1, <1>4, <1>8, <1>9, <1>11
    <3> QED
      BY <2>1, <3>1, <3>2, <3>3, <1>2, <1>3, ServerAddGroupIs
  <2>2. CASE target # {}
    <3>1. mid = pruned
      BY <2>2 DEF mid, Grouped, pruned, target
    <3> QED
      BY <2>2, <3>1, <1>3, <1>8, <1>10
  <2> QED
    BY <2>1, <2>2
<1>15. /\ n.groups = mid.groups
       /\ \A i \in Items : i # item => n.members[i] = mid.members[i]
       /\ IF mid.groups[gid] = Nothing \/ mid.members[item] # Nothing THEN n = mid ELSE n.members[item] = who
  BY <1>2, ServerAddIs DEF gid
<1>16. mid.members[item] = Nothing
  BY <1>6, <1>11, <1>13, <1>14
<1> HIDE DEF x, n
<1>17. /\ \A k \in Gids : n.groups[k] = IF k = gid THEN mid.groups[gid]
                                        ELSE IF k \in empty THEN Nothing ELSE l.groups[k]
       /\ \A i \in Items : n.members[i] =
            IF i = item THEN IF mid.groups[gid] = Nothing THEN Nothing ELSE who
            ELSE IF l.members[i] = who THEN Nothing ELSE l.members[i]
  BY <1>8, <1>13, <1>14, <1>15, <1>16
<1>18. mid.groups[gid] \in {Nothing, group}
  BY <1>3, <1>4, <1>11, <1>14
<1>19. Covers(x, n)
  <2>1. \A k \in Gids : n.groups[k] # Nothing => x.groups[k] = n.groups[k]
    BY <1>1, <1>11, <1>17, <1>18
  <2>2. \A i \in Items : n.members[i] # Nothing => x.members[i] = n.members[i]
    BY <1>1, <1>11, <1>17
  <2> QED
    BY <2>1, <2>2 DEF Covers
<1>20. item[1] = gid
  BY DEF gid
<1>21. \A i \in Items : i # item /\ n.members[i] # Nothing =>
         /\ n.members[i] = l.members[i] /\ n.members[i] # who
         /\ n.groups[i[1]] = l.groups[i[1]] /\ l.groups[i[1]] # Nothing
  <2> SUFFICES ASSUME NEW i \in Items, i # item, n.members[i] # Nothing
               PROVE  /\ n.members[i] = l.members[i] /\ n.members[i] # who
                      /\ n.groups[i[1]] = l.groups[i[1]] /\ l.groups[i[1]] # Nothing
    OBVIOUS
  <2>1. n.members[i] = l.members[i] /\ n.members[i] # who
    BY <1>17, <1>9
  <2>2. l.groups[i[1]] # Nothing /\ i[1] \in Gids
    BY <2>1, <1>5 DEF Proper
  <2>3. i[1] \notin empty
    BY <2>1, <1>12
  <2>4. CASE i[1] = gid
    <3>1. target # {}
      BY <2>2, <2>4, <1>3, <1>11
    <3> QED
      BY <2>1, <2>2, <2>4, <3>1, <1>14, <1>17
  <2>5. CASE i[1] # gid
    BY <2>1, <2>2, <2>3, <2>5, <1>17
  <2> QED
    BY <2>4, <2>5
<1>22. Proper(n)
  <2>1. n.members[item] # Nothing => n.groups[item[1]] # Nothing /\ n.members[item] = who
    BY <1>3, <1>17, <1>20
  <2>2. \A i \in Items : n.members[i] # Nothing => n.groups[i[1]] # Nothing
    BY <2>1, <1>21
  <2>3. ASSUME NEW i \in Items, NEW j \in Items, n.members[i] # Nothing, n.members[i] = n.members[j]
        PROVE  i = j
    BY <2>1, <2>3, <1>21 DEF Proper
  <2> QED
    BY <2>2, <2>3 DEF Proper
<1>23. ASSUME w = {} PROVE Equals(x, n, {})
  <2>1. Equals(r, l, {who})
    BY <1>23
  <2>2. mid.groups[gid] = group
    BY <1>14, <1>23, <1>20 DEF target
  <2>3. n.members[item] = who /\ n.groups[gid] = group
    BY <2>2, <1>3, <1>9, <1>17
  <2>4. \A i \in Items : x.members[i] = n.members[i]
    BY <2>1, <2>3, <1>1, <1>17 DEF Equals
  <2>5. ASSUME NEW p \in Buddies PROVE x.buddies[p].uploaded <=> Has(n, p)
    <3>1. CASE p = who
      BY <3>1, <2>3, <1>1 DEF Has
    <3>2. CASE p # who
      <4>1. Has(n, p) <=> Has(l, p)
        <5>1. ASSUME NEW i \in Items, n.members[i] = p PROVE l.members[i] = p
          BY <5>1, <3>2, <2>3, <1>17, OscarRosterAssumption
        <5>2. ASSUME NEW i \in Items, l.members[i] = p PROVE n.members[i] = p
          BY <5>2, <3>2, <1>6, <1>11, <1>17, OscarRosterAssumption
        <5> QED
          BY <5>1, <5>2 DEF Has
      <4>2. x.buddies[p].uploaded <=> r.buddies[p].uploaded
        BY <3>2, <1>1
      <4>3. r.buddies[p].uploaded <=> Has(l, p)
        BY <3>2, <2>1 DEF Equals
      <4> QED
        BY <4>1, <4>2, <4>3
    <3> QED
      BY <3>1, <3>2
  <2>6. ASSUME NEW i \in Items, n.members[i] # Nothing PROVE x.buddies[n.members[i]].group = n.groups[i[1]]
    <3>1. CASE i = item
      BY <3>1, <2>3, <1>1, <1>20
    <3>2. CASE i # item
      <4>1. n.members[i] = l.members[i] /\ n.members[i] # who /\ n.groups[i[1]] = l.groups[i[1]]
        BY <3>2, <2>6, <1>21
      <4>2. l.members[i] \in Buddies
        BY <2>6, <4>1, ListIs
      <4>3. r.buddies[l.members[i]].group = l.groups[i[1]]
        BY <2>1, <2>6, <4>1 DEF Equals
      <4> QED
        BY <4>1, <4>2, <4>3, <1>1
    <3> QED
      BY <3>1, <3>2
  <2> QED
    BY <2>4, <2>5, <2>6 DEF Equals
<1>24. Holds(x, n, w)
  BY <1>1, <1>19, <1>23 DEF Holds, Alike
<1> QED
  BY <1>22, <1>24 DEF x, n, d

-----------------------------------------------------------------------------
(* A buddy is put in a group: the part of UserAdds before the driver is told to add. *)

MovedTo(r, l, who, group) ==
  IF r.buddies[who].group = Nothing THEN [Pair(r, l) EXCEPT !.r.buddies[who].group = group]
  ELSE ReplaceBuddy(Pair(r, l), who, group)

(* Of two states, that one is the other but for the group of a buddy. *)
Regrouped(e, d, who, group) ==
  /\ e \in Pairs /\ e.l = d.l /\ Alike(e.r, d.r)
  /\ e.r.loaded = d.r.loaded /\ e.r.ssibusy = d.r.ssibusy
  /\ e.r.groups = d.r.groups /\ e.r.members = d.r.members
  /\ e.r.buddies[who].group = group
  /\ \A p \in Buddies : e.r.buddies[p].uploaded = d.r.buddies[p].uploaded
  /\ \A p \in Buddies \ {who} : e.r.buddies[p] = d.r.buddies[p]

LEMMA RegroupedIs ==
  ASSUME NEW d \in Pairs, NEW who \in Buddies, NEW group \in GroupNames
  PROVE  Regrouped([d EXCEPT !.r.buddies[who].group = group], d, who, group)
<1> DEFINE r == d.r
           entry == [r.buddies[who] EXCEPT !.group = group]
           buddies == [r.buddies EXCEPT ![who] = entry]
           y == [r EXCEPT !.buddies = buddies]
           e == [d EXCEPT !.r = y]
<1>1. r \in Roster /\ d.l \in List
  BY DEF Pairs
<1>2. r.buddies[who] \in Listing /\ r.buddies \in [Buddies -> Listing]
  BY <1>1, RosterIs
<1>3. entry \in Listing /\ entry.group = group /\ entry.uploaded = r.buddies[who].uploaded
  BY <1>2 DEF Listing
<1>4. [d EXCEPT !.r.buddies[who].group = group] = e
  OBVIOUS
<1> HIDE DEF entry
<1>5. /\ buddies \in [Buddies -> Listing] /\ buddies[who] = entry
      /\ \A p \in Buddies \ {who} : buddies[p] = r.buddies[p]
  BY <1>2, <1>3
<1> HIDE DEF buddies, r
<1>6. /\ y \in Roster /\ Alike(y, r) /\ y.loaded = r.loaded /\ y.ssibusy = r.ssibusy
      /\ y.groups = r.groups /\ y.members = r.members /\ y.buddies = buddies
  BY <1>1, <1>5 DEF Roster, Alike, Listing
<1> HIDE DEF y
<1>7. e \in Pairs /\ e.r = y /\ e.l = d.l
  BY <1>1, <1>6 DEF Pairs
<1> HIDE DEF e
<1>8. \A p \in Buddies : e.r.buddies[p].uploaded = r.buddies[p].uploaded
  BY <1>3, <1>5, <1>6, <1>7
<1>9. /\ Alike(e.r, r) /\ e.r.loaded = r.loaded /\ e.r.ssibusy = r.ssibusy
      /\ e.r.groups = r.groups /\ e.r.members = r.members
      /\ e.r.buddies[who].group = group
      /\ \A p \in Buddies \ {who} : e.r.buddies[p] = r.buddies[p]
  BY <1>3, <1>5, <1>6, <1>7
<1>10. Regrouped(e, d, who, group)
  BY <1>7, <1>8, <1>9 DEF Regrouped, r
<1> QED
  BY <1>4, <1>10

LEMMA PairIs ==
  ASSUME NEW r \in Roster, NEW l \in List
  PROVE  Pair(r, l) \in Pairs /\ Pair(r, l).r = r /\ Pair(r, l).l = l
BY DEF Pair, Pairs

(* Whether the buddy is taken out of a group first. *)
TakenOut(r, who, group) ==
  r.buddies[who].group \notin {Nothing, group} /\ r.buddies[who].uploaded /\ TakesChanges(r)

LEMMA MovedCases ==
  ASSUME NEW r \in Roster, NEW l \in List, NEW who \in Buddies, NEW group \in GroupNames
  PROVE  LET s == MovedTo(r, l, who, group) IN
         /\ TakenOut(r, who, group) =>
              Regrouped(s, DriverRemove(Pair(r, l), who, r.buddies[who].group), who, group)
         /\ ~TakenOut(r, who, group) => Regrouped(s, Pair(r, l), who, group)
<1> DEFINE s == MovedTo(r, l, who, group)
           old == r.buddies[who].group
           d == DriverRemove(Pair(r, l), who, old)
<1>1. /\ Pair(r, l) \in Pairs /\ Pair(r, l).r = r /\ Pair(r, l).l = l
      /\ d \in Pairs
  BY PairIs, DriverRemoveIs
<1>2. CASE old = Nothing
  <2>1. s = [Pair(r, l) EXCEPT !.r.buddies[who].group = group]
    BY <1>2 DEF MovedTo
  <2> QED
    BY <1>1, <1>2, <2>1, RegroupedIs DEF TakenOut
<1>3. CASE old = group
  <2>1. old # Nothing
    BY <1>3, OscarRosterAssumption
  <2>2. s = Pair(r, l)
    BY <1>1, <1>3, <2>1 DEF MovedTo, ReplaceBuddy
  <2>3. Regrouped(Pair(r, l), Pair(r, l), who, group)
    BY <1>1, <1>3 DEF Regrouped, Alike
  <2> QED
    BY <1>3, <2>2, <2>3 DEF TakenOut
<1>4. CASE old \notin {Nothing, group} /\ TakenOut(r, who, group)
  <2>1. s = [d EXCEPT !.r.buddies[who].group = group]
    <3> HIDE DEF d
    <3> QED
      BY <1>1, <1>4 DEF MovedTo, ReplaceBuddy, TakenOut, d
  <2>2. Regrouped(s, d, who, group)
    <3> HIDE DEF d
    <3> QED
      BY <1>1, <2>1, RegroupedIs
  <2> QED
    BY <1>4, <2>2
<1>5. CASE old \notin {Nothing, group} /\ ~TakenOut(r, who, group)
  <2>1. s = [Pair(r, l) EXCEPT !.r.buddies[who].group = group]
    BY <1>1, <1>5 DEF MovedTo, ReplaceBuddy, TakenOut
  <2> QED
    BY <1>1, <1>5, <2>1, RegroupedIs
<1> QED
  BY <1>2, <1>3, <1>4, <1>5

LEMMA MovedIs ==
  ASSUME NEW r \in Roster, NEW l \in List, NEW who \in Buddies, NEW group \in GroupNames
  PROVE  LET s == MovedTo(r, l, who, group) IN
         /\ s \in Pairs /\ Alike(s.r, r) /\ s.r.loaded = r.loaded /\ s.r.ssibusy = r.ssibusy
         /\ s.r.buddies[who].group = group
         /\ \A p \in Buddies : s.r.buddies[p].uploaded = r.buddies[p].uploaded
         /\ ~TakesChanges(r) => s.l = l
<1> DEFINE s == MovedTo(r, l, who, group)
           d == DriverRemove(Pair(r, l), who, r.buddies[who].group)
<1>1. CASE TakenOut(r, who, group)
  <2>1. Regrouped(s, d, who, group)
    BY <1>1, MovedCases
  <2>2. Alike(d.r, r) /\ d.r.loaded = r.loaded /\ d.r.ssibusy = r.ssibusy /\ d.r.buddies = r.buddies
    BY DriverRemoveIs
  <2>3. TakesChanges(r)
    BY <1>1 DEF TakenOut
  <2> HIDE DEF s, d
  <2>4. /\ s \in Pairs /\ Alike(s.r, r) /\ s.r.loaded = r.loaded /\ s.r.ssibusy = r.ssibusy
        /\ s.r.buddies[who].group = group
        /\ \A p \in Buddies : s.r.buddies[p].uploaded = r.buddies[p].uploaded
    BY <2>1, <2>2 DEF Regrouped, Alike
  <2> QED
    BY <2>3, <2>4 DEF s
<1>2. CASE ~TakenOut(r, who, group)
  <2>1. Regrouped(s, Pair(r, l), who, group)
    BY <1>2, MovedCases
  <2> HIDE DEF s
  <2>2. /\ s \in Pairs /\ Alike(s.r, r) /\ s.r.loaded = r.loaded /\ s.r.ssibusy = r.ssibusy
        /\ s.r.buddies[who].group = group /\ s.l = l
        /\ \A p \in Buddies : s.r.buddies[p].uploaded = r.buddies[p].uploaded
    BY <2>1, PairIs DEF Regrouped
  <2> QED
    BY <2>2 DEF s
<1> QED
  BY <1>1, <1>2

LEMMA RegroupedHolds ==
  ASSUME NEW w, NEW d \in Pairs, NEW who \in Buddies, Covers(d.r, d.l), w = {} => Equals(d.r, d.l, {who}),
         NEW group, NEW e, Regrouped(e, d, who, group)
  PROVE  Covers(e.r, e.l) /\ (w = {} => Equals(e.r, e.l, {who}))
<1>1. /\ e.l = d.l /\ e.r.groups = d.r.groups /\ e.r.members = d.r.members
      /\ \A p \in Buddies \ {who} : e.r.buddies[p] = d.r.buddies[p]
  BY DEF Regrouped
<1>2. Covers(e.r, e.l)
  BY <1>1 DEF Covers
<1>3. ASSUME w = {} PROVE Equals(e.r, e.l, {who})
  <2>1. \A i \in Items : d.l.members[i] # Nothing => d.l.members[i] \in Buddies
    BY ListIs DEF Pairs
  <2>2. Equals(d.r, d.l, {who})
    BY <1>3
  <2>3. \A i \in Items : e.r.members[i] = e.l.members[i]
    BY <1>1, <2>2 DEF Equals
  <2>4. \A p \in Buddies \ {who} : e.r.buddies[p].uploaded <=> Has(e.l, p)
    BY <1>1, <2>2 DEF Equals
  <2>5. \A i \in Items : e.l.members[i] # Nothing /\ e.l.members[i] \notin {who} =>
          e.r.buddies[e.l.members[i]].group = e.l.groups[i[1]]
    BY <1>1, <2>1, <2>2 DEF Equals
  <2> QED
    BY <2>3, <2>4, <2>5 DEF Equals
<1> QED
  BY <1>2, <1>3

LEMMA MovedHolds ==
  ASSUME NEW w, NEW r \in Roster, NEW l \in List, Holds(r, l, w), Proper(l),
         NEW who \in Buddies, NEW group \in GroupNames
  PROVE  LET s == MovedTo(r, l, who, group) IN
         /\ Covers(s.r, s.l) /\ Proper(s.l)
         /\ w = {} => Equals(s.r, s.l, {who})
<1> DEFINE s == MovedTo(r, l, who, group)
           d == DriverRemove(Pair(r, l), who, r.buddies[who].group)
           p == Pair(r, l)
<1>1. CASE TakenOut(r, who, group)
  <2>1. Regrouped(s, d, who, group)
    BY <1>1, MovedCases
  <2>2. d \in Pairs
    BY DriverRemoveIs
  <2>3. Covers(d.r, d.l) /\ Proper(d.l) /\ (w = {} => Equals(d.r, d.l, {who}))
    <3>1. TakenOff(d, w, who, r, l, r.buddies[who].group)
      BY DriverRemoveHolds
    <3> QED
      BY <3>1, Zenon DEF TakenOff
  <2> HIDE DEF s, d
  <2>4. Covers(s.r, s.l) /\ (w = {} => Equals(s.r, s.l, {who}))
    BY <2>1, <2>2, <2>3, RegroupedHolds
  <2>5. s.l = d.l
    BY <2>1 DEF Regrouped
  <2>9. Proper(s.l)
    BY <2>3, <2>5
  <2> QED
    BY <2>4, <2>9 DEF s
<1>2. CASE ~TakenOut(r, who, group)
  <2>1. Regrouped(s, p, who, group)
    BY <1>2, MovedCases
  <2>2. p \in Pairs /\ p.r = r /\ p.l = l
    BY PairIs
  <2>3. Covers(r, l) /\ (w = {} => Equals(r, l, {}))
    BY DEF Holds
  <2>4. w = {} => Equals(r, l, {who})
    BY <2>3 DEF Equals
  <2> HIDE DEF s, p
  <2>5. Covers(p.r, p.l) /\ (w = {} => Equals(p.r, p.l, {who}))
    BY <2>2, <2>3, <2>4
  <2>6. Covers(s.r, s.l) /\ (w = {} => Equals(s.r, s.l, {who}))
    BY <2>1, <2>2, <2>5, RegroupedHolds
  <2>7. s.l = l
    BY <2>1, <2>2 DEF Regrouped
  <2>8. Proper(s.l)
    BY <2>7
  <2> QED
    BY <2>6, <2>8 DEF s
<1> QED
  BY <1>1, <1>2

-----------------------------------------------------------------------------
(* The user's commands. *)

LEMMA SiteIs ==
  ASSUME NEW s \in Site
  PROVE  /\ s.list \in List /\ s.told \in Seq(Told)
         /\ \A l \in List : LET n == [s EXCEPT !.list = l] IN n \in Site /\ n.list = l /\ n.told = s.told
         /\ \A t \in Seq(Told) : LET n == [s EXCEPT !.told = t] IN n \in Site /\ n.told = t /\ n.list = s.list
BY DEF Site

LEMMA EmptyFollows ==
  ASSUME NEW w, NEW r \in Roster, NEW l
  PROVE  Follows(r, <<>>, l, w) <=> Holds(r, l, w) /\ ~r.ssibusy
<1>1. ASSUME Follows(r, <<>>, l, w) PROVE Holds(r, l, w) /\ ~r.ssibusy
  <2>1. PICK x \in Roster : ComesTo(r, <<>>, x) /\ Holds(x, l, w) /\ ~x.ssibusy
    BY <1>1, Zenon DEF Follows
  <2>2. x = r
    BY <2>1, ComesHere, Zenon
  <2> QED
    BY <2>1, <2>2
<1>2. ASSUME Holds(r, l, w), ~r.ssibusy PROVE Follows(r, <<>>, l, w)
  BY <1>2, ComesHere, Zenon DEF Follows
<1> QED
  BY <1>1, <1>2, Zenon

(* The user waits for it to be quiet; then what the driver has is what the server has. *)
LEMMA QuietMeans ==
  ASSUME NEW w, NEW r \in Roster, NEW s \in Site, w \cap Unclear = {}, Clear(r, s, w), r.up,
         r.loaded \/ "early" \in w,
         \A j \in DOMAIN s.told : s.told[j].kind \in {"limits", "roster"} \/ "races" \in w
  PROVE  s.told = <<>> /\ Holds(r, s.list, w) /\ ~r.ssibusy /\ TakesChanges(r)
<1>1. "early" \notin w /\ "races" \notin w
  BY DEF Unclear
<1>2. Listening(r, s, w)
  BY <1>1 DEF Clear, SigningOn
<1>3. ASSUME NEW j \in DOMAIN s.told PROVE FALSE
  BY <1>1, <1>2, <1>3 DEF Listening
<1>4. s.told = <<>>
  <2>1. s.told \in Seq(Told)
    BY SiteIs
  <2> QED
    BY <1>3, <2>1
<1>5. Holds(r, s.list, w) /\ ~r.ssibusy
  BY <1>2, <1>4, EmptyFollows DEF Listening
<1>6. TakesChanges(r)
  BY <1>5 DEF TakesChanges, Holds
<1> QED
  BY <1>4, <1>5, <1>6

LEMMA SettledClear ==
  ASSUME NEW w, NEW r \in Roster, NEW s \in Site, s.told = <<>>, Holds(r, s.list, w), Proper(s.list), ~r.ssibusy
  PROVE  Clear(r, s, w)
<1>1. r.up /\ r.loaded /\ r.known /\ ~r.fault
  BY DEF Holds
<1>2. Follows(r, s.told, s.list, w)
  BY EmptyFollows
<1>3. DOMAIN s.told = {}
  OBVIOUS
<1>4. Listening(r, s, w)
  BY <1>1, <1>2, <1>3 DEF Listening
<1>5. ~SigningOn(r, s)
  BY <1>1 DEF SigningOn
<1> QED
  BY <1>1, <1>4, <1>5 DEF Clear

(* UserAdds: what the wrapper and the driver make of it. *)
Added(r, l, who, group) ==
  IF TakesChanges(MovedTo(r, l, who, group).r) THEN DriverAdd(MovedTo(r, l, who, group), who, group)
  ELSE MovedTo(r, l, who, group)

LEMMA AddedIs ==
  ASSUME NEW r \in Roster, NEW l \in List, NEW who \in Buddies, NEW group \in GroupNames,
         LET d == MovedTo(r, l, who, group) IN
           TakesChanges(d.r) => <<NewGid(d.r, group), NewMid(d.r, who, group)>> \in Items
  PROVE  LET e == Added(r, l, who, group) IN
         /\ e \in Pairs /\ e.r.ssibusy = r.ssibusy /\ e.r.up = r.up
         /\ ~TakesChanges(r) => /\ e.l = l /\ Alike(e.r, r) /\ e.r.loaded = r.loaded
                                /\ \A p \in Buddies : e.r.buddies[p].uploaded = r.buddies[p].uploaded
<1> DEFINE d == MovedTo(r, l, who, group)
           e == Added(r, l, who, group)
<1>1. /\ d \in Pairs /\ Alike(d.r, r) /\ d.r.loaded = r.loaded /\ d.r.ssibusy = r.ssibusy
      /\ \A p \in Buddies : d.r.buddies[p].uploaded = r.buddies[p].uploaded
      /\ ~TakesChanges(r) => d.l = l
  BY MovedIs
<1>2. TakesChanges(d.r) <=> TakesChanges(r)
  <2> HIDE DEF d
  <2> QED
    BY <1>1 DEF TakesChanges, Alike
<1>3. CASE TakesChanges(d.r)
  <2>1. e = DriverAdd(d, who, group)
    BY <1>3 DEF Added
  <2>2. d = Pair(d.r, d.l) /\ d.r \in Roster /\ d.l \in List
    <3> HIDE DEF d
    <3> QED
      BY <1>1 DEF Pairs, Pair
  <2> DEFINE item == <<NewGid(d.r, group), NewMid(d.r, who, group)>>
  <2>3. item \in Items
    BY <1>3
  <2> HIDE DEF d, item
  <2>4. ASSUME NEW f, f = DriverAdd(Pair(d.r, d.l), who, group)
        PROVE  f \in Pairs /\ f.r.up = d.r.up /\ f.r.ssibusy = d.r.ssibusy
    <3>1. item = <<NewGid(d.r, group), NewMid(d.r, who, group)>>
      BY DEF item
    <3>2. f \in Pairs
      BY <2>2, <2>3, <2>4, <3>1, DriverAddIs
    <3>3. f.r.up = d.r.up
      BY <2>2, <2>3, <2>4, <3>1, DriverAddIs
    <3>4. f.r.ssibusy = d.r.ssibusy
      BY <2>2, <2>3, <2>4, <3>1, DriverAddIs
    <3> QED
      BY <3>2, <3>3, <3>4
  <2> HIDE DEF e
  <2>5. e = DriverAdd(Pair(d.r, d.l), who, group)
    BY <2>1, <2>2, Zenon
  <2>6. e \in Pairs /\ e.r.up = r.up /\ e.r.ssibusy = r.ssibusy
    BY <2>4, <2>5, <1>1 DEF Alike
  <2> QED
    BY <1>2, <1>3, <2>6 DEF e
<1>4. CASE ~TakesChanges(d.r)
  <2>1. e = d
    BY <1>4 DEF Added
  <2> HIDE DEF d, e
  <2>2. /\ e \in Pairs /\ Alike(e.r, r) /\ e.r.loaded = r.loaded /\ e.r.ssibusy = r.ssibusy
        /\ \A p \in Buddies : e.r.buddies[p].uploaded = r.buddies[p].uploaded
        /\ e.l = l
    BY <1>1, <1>2, <1>4, <2>1
  <2>3. e.r.up = r.up
    BY <2>2 DEF Alike
  <2> QED
    BY <2>2, <2>3 DEF e
<1> QED
  BY <1>3, <1>4

LEMMA AddedHolds ==
  ASSUME NEW w, NEW r \in Roster, NEW l \in List, Holds(r, l, w), Proper(l), TakesChanges(r),
         NEW who \in Buddies, NEW group \in GroupNames,
         "crowds" \notin w,
         LET d    == MovedTo(r, l, who, group)
             item == <<NewGid(d.r, group), NewMid(d.r, who, group)>>
         IN  /\ item \in Items
             /\ Without(d.r.members, who)[item] # Nothing => "crowds" \in w
             /\ TargetOf(d.r, group) # {} /\ d.l.groups[item[1]] # group => "refills" \in w
  PROVE  LET e == Added(r, l, who, group) IN Holds(e.r, e.l, w) /\ Proper(e.l)
<1> DEFINE d == MovedTo(r, l, who, group)
           item == <<NewGid(d.r, group), NewMid(d.r, who, group)>>
<1>1. /\ item \in Items
      /\ Without(d.r.members, who)[item] = Nothing
      /\ TargetOf(d.r, group) # {} /\ d.l.groups[item[1]] # group => "refills" \in w
  OBVIOUS
<1>2. /\ d \in Pairs /\ Alike(d.r, r) /\ d.r.loaded = r.loaded /\ d.r.ssibusy = r.ssibusy
      /\ d.r.buddies[who].group = group
  BY MovedIs
<1>3. Covers(d.r, d.l) /\ Proper(d.l) /\ (w = {} => Equals(d.r, d.l, {who}))
  BY MovedHolds
<1>4. Added(r, l, who, group) = IF TakesChanges(d.r) THEN DriverAdd(d, who, group) ELSE d
  BY DEF Added
<1>5. item = <<NewGid(d.r, group), NewMid(d.r, who, group)>>
  OBVIOUS
<1> HIDE DEF d, item
<1>6. d = Pair(d.r, d.l) /\ d.r \in Roster /\ d.l \in List
  BY <1>2 DEF Pairs, Pair
<1>7. TakesChanges(d.r)
  BY <1>2 DEF TakesChanges, Alike
<1>8. d.r.up /\ d.r.loaded /\ d.r.known /\ ~d.r.fault
  BY <1>2 DEF Holds, Alike
<1>9. w = {} /\ TargetOf(d.r, group) # {} => d.l.groups[item[1]] = group
  BY <1>1
<1>10. LET e == DriverAdd(Pair(d.r, d.l), who, group) IN Holds(e.r, e.l, w) /\ Proper(e.l)
  BY <1>1, <1>2, <1>3, <1>5, <1>6, <1>8, <1>9, DriverAddHolds
<1>11. Added(r, l, who, group) = DriverAdd(Pair(d.r, d.l), who, group)
  BY <1>4, <1>6, <1>7, Zenon
<1> QED
  BY <1>10, <1>11, Zenon

LEMMA AddedClear ==
  ASSUME NEW w, NEW r \in Roster, NEW s \in Site, w \cap Unclear = {}, Clear(r, s, w),
         r.up => /\ r.loaded \/ "early" \in w
                 /\ \A j \in DOMAIN s.told : s.told[j].kind \in {"limits", "roster"} \/ "races" \in w,
         NEW who \in Buddies, NEW group \in GroupNames,
         LET d    == MovedTo(r, s.list, who, group)
             item == <<NewGid(d.r, group), NewMid(d.r, who, group)>>
         IN  TakesChanges(d.r) =>
               /\ item \in Items
               /\ Without(d.r.members, who)[item] # Nothing => "crowds" \in w
               /\ TargetOf(d.r, group) # {} /\ d.l.groups[item[1]] # group => "refills" \in w
  PROVE  LET e == Added(r, s.list, who, group) IN Clear(e.r, [s EXCEPT !.list = e.l], w)
<1> DEFINE d == MovedTo(r, s.list, who, group)
           e == Added(r, s.list, who, group)
           n == [s EXCEPT !.list = e.l]
<1>1. s.list \in List /\ Proper(s.list)
  BY SiteIs DEF Clear
<1>2. /\ e \in Pairs /\ e.r.ssibusy = r.ssibusy /\ e.r.up = r.up
      /\ ~TakesChanges(r) => /\ e.l = s.list /\ Alike(e.r, r) /\ e.r.loaded = r.loaded
                             /\ \A p \in Buddies : e.r.buddies[p].uploaded = r.buddies[p].uploaded
  BY <1>1, AddedIs
<1>3. TakesChanges(d.r) <=> TakesChanges(r)
  <2>1. Alike(d.r, r) /\ d.r.ssibusy = r.ssibusy
    BY <1>1, MovedIs
  <2> HIDE DEF d
  <2> QED
    BY <2>1 DEF TakesChanges, Alike
<1>4. e.l \in List /\ e.r \in Roster
  <2> HIDE DEF e
  <2> QED
    BY <1>2 DEF Pairs
<1>5. n \in Site /\ n.list = e.l /\ n.told = s.told
  <2> HIDE DEF e
  <2> QED
    BY <1>4, SiteIs
<1>6. CASE r.up
  <2>1. s.told = <<>> /\ Holds(r, s.list, w) /\ ~r.ssibusy /\ TakesChanges(r)
    BY <1>6, QuietMeans
  <2>2. "crowds" \notin w
    BY DEF Unclear
  <2>3. Holds(e.r, e.l, w) /\ Proper(e.l)
    BY <1>1, <1>3, <2>1, <2>2, AddedHolds
  <2> HIDE DEF e, n
  <2>4. Clear(e.r, n, w)
    BY <1>2, <1>4, <1>5, <2>1, <2>3, SettledClear
  <2> QED
    BY <2>4 DEF e, n
<1>7. CASE ~r.up
  <2>1. ~TakesChanges(r)
    BY <1>7 DEF TakesChanges
  <2>2. s.told = <<>> /\ ~r.fault /\ (w = {} => StoredFirst(r, s.list))
    BY <1>7 DEF Clear
  <2> HIDE DEF e, n
  <2>3. /\ ~e.r.fault /\ ~e.r.up /\ n.told = <<>> /\ n.list = s.list
        /\ \A p \in Buddies : e.r.buddies[p].uploaded = r.buddies[p].uploaded
    BY <1>2, <1>5, <1>7, <2>1, <2>2 DEF Alike
  <2>4. w = {} => StoredFirst(e.r, n.list)
    BY <2>2, <2>3 DEF StoredFirst
  <2>5. Clear(e.r, n, w)
    BY <1>1, <2>3, <2>4 DEF Clear
  <2> QED
    BY <2>5 DEF e, n
<1> QED
  BY <1>6, <1>7

(* UserRemoves: what the wrapper and the driver make of it. *)
Removed(r, l, who) ==
  [(IF r.up THEN DriverRemove(Pair(r, l), who, r.buddies[who].group) ELSE Pair(r, l))
     EXCEPT !.r.buddies[who] = Unlisted]

(* Of two states, that one is the other but for a buddy who is not listed any more. *)
Delisted(e, d, who) ==
  /\ e \in Pairs /\ e.l = d.l /\ Alike(e.r, d.r)
  /\ e.r.loaded = d.r.loaded /\ e.r.ssibusy = d.r.ssibusy
  /\ e.r.groups = d.r.groups /\ e.r.members = d.r.members
  /\ ~e.r.buddies[who].uploaded
  /\ \A p \in Buddies \ {who} : e.r.buddies[p] = d.r.buddies[p]

LEMMA DelistedIs ==
  ASSUME NEW d \in Pairs, NEW who \in Buddies
  PROVE  Delisted([d EXCEPT !.r.buddies[who] = Unlisted], d, who)
<1> DEFINE r == d.r
           buddies == [r.buddies EXCEPT ![who] = Unlisted]
           y == [r EXCEPT !.buddies = buddies]
           e == [d EXCEPT !.r = y]
<1>1. r \in Roster /\ d.l \in List
  BY DEF Pairs
<1>2. r.buddies \in [Buddies -> Listing]
  BY <1>1, RosterIs
<1>3. Unlisted \in Listing /\ ~Unlisted.uploaded
  BY DEF Listing, Unlisted
<1>4. [d EXCEPT !.r.buddies[who] = Unlisted] = e
  OBVIOUS
<1>5. /\ buddies \in [Buddies -> Listing] /\ buddies[who] = Unlisted
      /\ \A p \in Buddies \ {who} : buddies[p] = r.buddies[p]
  BY <1>2, <1>3
<1> HIDE DEF buddies, r
<1>6. /\ y \in Roster /\ Alike(y, r) /\ y.loaded = r.loaded /\ y.ssibusy = r.ssibusy
      /\ y.groups = r.groups /\ y.members = r.members /\ y.buddies = buddies
  BY <1>1, <1>5 DEF Roster, Alike, Listing
<1> HIDE DEF y
<1>7. e \in Pairs /\ e.r = y /\ e.l = d.l
  BY <1>1, <1>6 DEF Pairs
<1> HIDE DEF e
<1>8. Delisted(e, d, who)
  BY <1>3, <1>5, <1>6, <1>7 DEF Delisted, r
<1> QED
  BY <1>4, <1>8

LEMMA RemovedCases ==
  ASSUME NEW r \in Roster, NEW l \in List, NEW who \in Buddies
  PROVE  LET e == Removed(r, l, who) IN
         /\ r.up => Delisted(e, DriverRemove(Pair(r, l), who, r.buddies[who].group), who)
         /\ ~r.up => Delisted(e, Pair(r, l), who)
<1> DEFINE e == Removed(r, l, who)
           d == DriverRemove(Pair(r, l), who, r.buddies[who].group)
<1>1. d \in Pairs /\ Pair(r, l) \in Pairs
  BY DriverRemoveIs, PairIs
<1>2. CASE r.up
  <2>1. e = [d EXCEPT !.r.buddies[who] = Unlisted]
    <3> HIDE DEF d
    <3> QED
      BY <1>2 DEF Removed, d
  <2> HIDE DEF d
  <2>2. Delisted(e, d, who)
    BY <1>1, <2>1, DelistedIs
  <2> HIDE DEF e
  <2>3. (r.up => Delisted(e, d, who)) /\ (~r.up => Delisted(e, Pair(r, l), who))
    BY <1>2, <2>2
  <2> QED
    BY <2>3, Zenon DEF e, d
<1>3. CASE ~r.up
  <2>1. e = [Pair(r, l) EXCEPT !.r.buddies[who] = Unlisted]
    BY <1>3 DEF Removed
  <2> QED
    BY <1>1, <1>3, <2>1, DelistedIs
<1> QED
  BY <1>2, <1>3

LEMMA RemovedIs ==
  ASSUME NEW r \in Roster, NEW l \in List, NEW who \in Buddies
  PROVE  LET e == Removed(r, l, who) IN
         /\ e \in Pairs /\ Alike(e.r, r) /\ e.r.loaded = r.loaded /\ e.r.ssibusy = r.ssibusy
         /\ ~e.r.buddies[who].uploaded
         /\ \A p \in Buddies \ {who} : e.r.buddies[p] = r.buddies[p]
         /\ ~r.up => e.l = l
<1> DEFINE e == Removed(r, l, who)
           d == DriverRemove(Pair(r, l), who, r.buddies[who].group)
<1>1. CASE r.up
  <2>1. Delisted(e, d, who)
    BY <1>1, RemovedCases
  <2>2. Alike(d.r, r) /\ d.r.loaded = r.loaded /\ d.r.ssibusy = r.ssibusy /\ d.r.buddies = r.buddies
    BY DriverRemoveIs
  <2> HIDE DEF e, d
  <2>3. /\ e \in Pairs /\ Alike(e.r, r) /\ e.r.loaded = r.loaded /\ e.r.ssibusy = r.ssibusy
        /\ ~e.r.buddies[who].uploaded
        /\ \A p \in Buddies \ {who} : e.r.buddies[p] = r.buddies[p]
    BY <2>1, <2>2 DEF Delisted, Alike
  <2> QED
    BY <1>1, <2>3 DEF e
<1>2. CASE ~r.up
  <2>1. Delisted(e, Pair(r, l), who)
    BY <1>2, RemovedCases
  <2> HIDE DEF e
  <2>2. /\ e \in Pairs /\ Alike(e.r, r) /\ e.r.loaded = r.loaded /\ e.r.ssibusy = r.ssibusy
        /\ ~e.r.buddies[who].uploaded /\ e.l = l
        /\ \A p \in Buddies \ {who} : e.r.buddies[p] = r.buddies[p]
    BY <2>1, PairIs DEF Delisted
  <2> QED
    BY <2>2 DEF e
<1> QED
  BY <1>1, <1>2

LEMMA RemovedHolds ==
  ASSUME NEW w, NEW r \in Roster, NEW l \in List, Holds(r, l, w), Proper(l), NEW who \in Buddies
  PROVE  LET e == Removed(r, l, who) IN Holds(e.r, e.l, w) /\ Proper(e.l)
<1> DEFINE e == Removed(r, l, who)
           group == r.buddies[who].group
           d == DriverRemove(Pair(r, l), who, group)
<1>1. r.up /\ r.loaded /\ r.known /\ ~r.fault /\ Covers(r, l) /\ (w = {} => Equals(r, l, {}))
  BY DEF Holds
<1>2. Delisted(e, d, who)
  BY <1>1, RemovedCases
<1>3. /\ e \in Pairs /\ Alike(e.r, r) /\ e.r.loaded = r.loaded
  BY RemovedIs
<1>4. TakenOff(d, w, who, r, l, group)
  BY DriverRemoveHolds
<1>11. d \in Pairs
  BY DriverRemoveIs
<1> HIDE DEF d, e
<1>6. Covers(d.r, d.l) /\ Proper(d.l) /\ (w = {} => Equals(d.r, d.l, {who}))
  BY <1>4, Zenon DEF TakenOff
<1>5. \A i \in Items : d.l.members[i] = who => l.members[i] = who /\ r.groups[i[1]] # group
  BY <1>4, Zenon DEF TakenOff
<1>7. /\ e.l = d.l /\ e.r.groups = d.r.groups /\ e.r.members = d.r.members
      /\ ~e.r.buddies[who].uploaded
      /\ \A p \in Buddies \ {who} : e.r.buddies[p] = d.r.buddies[p]
  BY <1>2 DEF Delisted
<1>8. Covers(e.r, e.l) /\ Proper(e.l)
  BY <1>6, <1>7 DEF Covers
<1>9. ASSUME w = {} PROVE Equals(e.r, e.l, {})
  <2>1. Equals(d.r, d.l, {who}) /\ Equals(r, l, {})
    BY <1>1, <1>6, <1>9
  <2>2. \A i \in Items : e.l.members[i] # who
    <3> SUFFICES ASSUME NEW i \in Items, e.l.members[i] = who PROVE FALSE
      OBVIOUS
    <3>1. l.members[i] = who /\ r.groups[i[1]] # group
      BY <1>5, <1>7
    <3>2. who # Nothing
      BY OscarRosterAssumption
    <3>3. l.groups[i[1]] # Nothing /\ group = l.groups[i[1]]
      BY <2>1, <3>1, <3>2 DEF Proper, Equals
    <3>4. r.groups[i[1]] = l.groups[i[1]]
      BY <1>1, <3>3, ItemIs DEF Covers
    <3> QED
      BY <3>1, <3>3, <3>4
  <2>3. \A i \in Items : e.l.members[i] # Nothing => e.l.members[i] \in Buddies
    BY <1>7, <1>11, ListIs DEF Pairs
  <2>4. \A i \in Items : e.r.members[i] = e.l.members[i]
    BY <2>1, <1>7 DEF Equals
  <2>5. ASSUME NEW p \in Buddies PROVE e.r.buddies[p].uploaded <=> Has(e.l, p)
    BY <2>1, <2>2, <1>7 DEF Equals, Has
  <2>6. ASSUME NEW i \in Items, e.l.members[i] # Nothing
        PROVE  e.r.buddies[e.l.members[i]].group = e.l.groups[i[1]]
    BY <2>1, <2>2, <2>3, <2>6, <1>7 DEF Equals
  <2> QED
    BY <2>4, <2>5, <2>6 DEF Equals
<1>10. Holds(e.r, e.l, w)
  BY <1>1, <1>3, <1>8, <1>9 DEF Holds, Alike
<1> QED
  BY <1>8, <1>10 DEF e

LEMMA RemovedClear ==
  ASSUME NEW w, NEW r \in Roster, NEW s \in Site, w \cap Unclear = {}, Clear(r, s, w),
         r.up => /\ r.loaded \/ "early" \in w
                 /\ \A j \in DOMAIN s.told : s.told[j].kind \in {"limits", "roster"} \/ "races" \in w,
         NEW who \in Buddies
  PROVE  LET e == Removed(r, s.list, who) IN Clear(e.r, [s EXCEPT !.list = e.l], w)
<1> DEFINE e == Removed(r, s.list, who)
           n == [s EXCEPT !.list = e.l]
<1>1. s.list \in List /\ Proper(s.list)
  BY SiteIs DEF Clear
<1>2. /\ e \in Pairs /\ Alike(e.r, r) /\ e.r.ssibusy = r.ssibusy
      /\ ~e.r.buddies[who].uploaded
      /\ \A p \in Buddies \ {who} : e.r.buddies[p] = r.buddies[p]
      /\ ~r.up => e.l = s.list
  BY <1>1, RemovedIs
<1>4. e.l \in List /\ e.r \in Roster
  <2> HIDE DEF e
  <2> QED
    BY <1>2 DEF Pairs
<1>5. n \in Site /\ n.list = e.l /\ n.told = s.told
  <2> HIDE DEF e
  <2> QED
    BY <1>4, SiteIs
<1>6. CASE r.up
  <2>1. s.told = <<>> /\ Holds(r, s.list, w) /\ ~r.ssibusy
    BY <1>6, QuietMeans
  <2>3. Holds(e.r, e.l, w) /\ Proper(e.l)
    BY <1>1, <2>1, RemovedHolds
  <2> HIDE DEF e, n
  <2>4. Clear(e.r, n, w)
    BY <1>2, <1>4, <1>5, <2>1, <2>3, SettledClear
  <2> QED
    BY <2>4 DEF e, n
<1>7. CASE ~r.up
  <2>2. s.told = <<>> /\ ~r.fault /\ (w = {} => StoredFirst(r, s.list))
    BY <1>7 DEF Clear
  <2> HIDE DEF e, n
  <2>3. /\ ~e.r.fault /\ ~e.r.up /\ n.told = <<>> /\ n.list = s.list
        /\ \A p \in Buddies : e.r.buddies[p].uploaded => r.buddies[p].uploaded
    BY <1>2, <1>5, <1>7, <2>2 DEF Alike
  <2>4. w = {} => StoredFirst(e.r, n.list)
    BY <2>2, <2>3 DEF StoredFirst
  <2>5. Clear(e.r, n, w)
    BY <1>1, <2>3, <2>4 DEF Clear
  <2> QED
    BY <2>5 DEF e, n
<1> QED
  BY <1>6, <1>7

-----------------------------------------------------------------------------
(* Sessions begin and end, and frames are heard. *)

LEMMA SignsOnClear ==
  ASSUME NEW w, NEW r \in Roster, NEW s \in Site, ~r.up, ~r.fault
  PROVE  LET y == [r EXCEPT !.up = TRUE, !.loaded = FALSE, !.ssibusy = FALSE]
             n == [s EXCEPT !.told = <<[kind |-> "limits"]>>]
         IN  y \in Roster /\ n \in Site /\ (Clear(r, s, w) => Clear(y, n, w))
<1> DEFINE y == [r EXCEPT !.up = TRUE, !.loaded = FALSE, !.ssibusy = FALSE]
           m == [kind |-> "limits"]
           n == [s EXCEPT !.told = <<m>>]
<1>1. /\ y \in Roster /\ y.up /\ ~y.loaded /\ ~y.ssibusy
      /\ y.fault = r.fault /\ y.buddies = r.buddies
  BY DEF Roster
<1>2. m \in Told
  BY DEF Told
<1>3. n \in Site /\ n.list = s.list /\ n.told = <<m>>
  <2>1. <<m>> \in Seq(Told)
    BY <1>2
  <2> QED
    BY <2>1, SiteIs
<1>4. SigningOn(y, n)
  BY <1>1, <1>3 DEF SigningOn
<1>5. ASSUME Clear(r, s, w) PROVE Clear(y, n, w)
  <2> HIDE DEF y, n
  <2>1. Proper(n.list) /\ ~y.fault
    BY <1>1, <1>3, <1>5 DEF Clear
  <2>2. w = {} => StoredFirst(y, n.list)
    BY <1>1, <1>3, <1>5 DEF Clear, StoredFirst
  <2> QED
    BY <1>1, <1>4, <2>1, <2>2 DEF Clear
<1> QED
  BY <1>1, <1>3, <1>5

LEMMA GoesOffClear ==
  ASSUME NEW w, NEW r \in Roster, NEW s \in Site, r.up,
         (\E j \in DOMAIN s.told : s.told[j].kind = "remove") => "absent" \in w
  PROVE  LET y == [r EXCEPT !.up = FALSE]
             n == [s EXCEPT !.told = <<>>]
         IN  y \in Roster /\ n \in Site /\ (Clear(r, s, w) => Clear(y, n, w))
<1> DEFINE y == [r EXCEPT !.up = FALSE]
           n == [s EXCEPT !.told = <<>>]
<1>1. y \in Roster /\ ~y.up /\ y.fault = r.fault /\ y.buddies = r.buddies
  BY DEF Roster
<1>2. n \in Site /\ n.list = s.list /\ n.told = <<>>
  <2>1. <<>> \in Seq(Told)
    OBVIOUS
  <2> QED
    BY <2>1, SiteIs
<1>3. s.told \in Seq(Told) /\ s.list \in List
  BY SiteIs
<1>4. ASSUME Clear(r, s, w) PROVE Clear(y, n, w)
  <2> HIDE DEF y, n
  <2>1. Proper(n.list) /\ ~y.fault
    BY <1>1, <1>2, <1>4 DEF Clear
  <2>2. ASSUME w = {} PROVE StoredFirst(r, s.list)
    <3>1. CASE SigningOn(r, s)
      BY <1>4, <2>2, <3>1 DEF Clear
    <3>2. CASE Listening(r, s, w)
      <4>1. PICK x \in Roster : ComesTo(r, s.told, x) /\ Holds(x, s.list, w)
        BY <3>2 DEF Listening, Follows
      <4>2. \A j \in DOMAIN s.told : s.told[j].kind \notin {"limits", "remove"}
        BY <2>2, <3>2 DEF Listening
      <4>3. ASSUME NEW p \in Buddies, r.buddies[p].uploaded PROVE Has(s.list, p)
        <5>1. x.buddies[p].uploaded
          BY <1>3, <4>1, <4>2, <4>3, StillUploaded
        <5> QED
          BY <2>2, <4>1, <5>1 DEF Holds, Equals
      <4> QED
        BY <4>3 DEF StoredFirst
    <3> QED
      BY <1>4, <3>1, <3>2 DEF Clear
  <2>3. w = {} => StoredFirst(y, n.list)
    BY <1>1, <1>2, <2>2 DEF StoredFirst
  <2> QED
    BY <1>1, <1>2, <2>1, <2>3 DEF Clear
<1> QED
  BY <1>1, <1>2, <1>4

LEMMA HeardTyped ==
  ASSUME NEW r \in Roster, NEW m \in Told, m.kind # "limits"
  PROVE  Heard(r, m) \in Roster
<1>1. CASE Fits(r, m)
  BY <1>1, HeardKeeps
<1>2. CASE ~Fits(r, m)
  <2>1. m.kind = "remove" /\ r.members[m.item] = Nothing
    BY <1>2 DEF Fits
  <2>2. Heard(r, m) = RemoveItem(r, m.item)
    BY <2>1 DEF Heard
  <2>3. RemoveItem(r, m.item) = [r EXCEPT !.up = FALSE, !.fault = TRUE]
    BY <2>1 DEF RemoveItem
  <2>4. [r EXCEPT !.up = FALSE, !.fault = TRUE] \in Roster
    BY DEF Roster
  <2> QED
    BY <2>2, <2>3, <2>4
<1> QED
  BY <1>1, <1>2

LEMMA HeadTail ==
  ASSUME NEW t \in Seq(Told), t # <<>>
  PROVE  /\ Head(t) \in Told /\ Head(t) = t[1] /\ 1 \in DOMAIN t /\ Tail(t) \in Seq(Told)
         /\ \A j \in DOMAIN Tail(t) : j + 1 \in DOMAIN t /\ j + 1 # 1 /\ Tail(t)[j] = t[j + 1]
OBVIOUS

LEMMA HeardClear ==
  ASSUME NEW w, NEW r \in Roster, NEW s \in Site, Clear(r, s, w), r.up, s.told # <<>>,
         Head(s.told).kind # "limits",
         NEW y, y = Heard(r, Head(s.told)),
         NEW n \in Site, n.list = s.list, n.told = IF y.up THEN Tail(s.told) ELSE <<>>
  PROVE  Clear(y, n, w)
<1> DEFINE m == Head(s.told)
<1>1. s.told \in Seq(Told) /\ s.list \in List
  BY SiteIs
<1>2. /\ m \in Told /\ m = s.told[1] /\ 1 \in DOMAIN s.told
      /\ \A j \in DOMAIN Tail(s.told) :
           j + 1 \in DOMAIN s.told /\ j + 1 # 1 /\ Tail(s.told)[j] = s.told[j + 1]
  BY <1>1, HeadTail
<1> HIDE DEF m
<1>3. m.kind # "limits" /\ y = Heard(r, m)
  BY DEF m
<1>4. ~SigningOn(r, s)
  BY <1>2, <1>3 DEF SigningOn
<1>5. Listening(r, s, w)
  BY <1>4 DEF Clear
<1>6. PICK x \in Roster : ComesTo(r, s.told, x) /\ Holds(x, s.list, w) /\ ~x.ssibusy
  BY <1>5 DEF Listening, Follows
<1>7. Fits(r, m) /\ y \in Roster /\ ComesTo(y, Tail(s.told), x)
  BY <1>1, <1>3, <1>6, ComesFrom DEF m
<1>8. /\ Alike(y, r)
      /\ m.kind = "roster" => y.loaded = TRUE
      /\ m.kind # "roster" => y.loaded = r.loaded
  BY <1>2, <1>3, <1>7, HeardKeeps
<1>9. y.up /\ y.known /\ ~y.fault
  BY <1>5, <1>8 DEF Alike, Clear, Listening
<1>10. y.loaded
  <2>1. m.kind = "roster" <=> 1 = 1 /\ ~r.loaded
    BY <1>2, <1>5 DEF Listening
  <2> QED
    BY <1>8, <2>1
<1>11. n.told = Tail(s.told)
  BY <1>9
<1>12. Follows(y, n.told, n.list, w)
  BY <1>6, <1>7, <1>11, Zenon DEF Follows
<1>13. \A j \in DOMAIN n.told : n.told[j].kind # "limits" /\ n.told[j].kind # "roster"
  BY <1>2, <1>5, <1>11 DEF Listening
<1>14. Listening(y, n, w)
  BY <1>9, <1>10, <1>12, <1>13 DEF Listening
<1>15. ~SigningOn(y, n)
  BY <1>10 DEF SigningOn
<1>16. Proper(n.list)
  BY DEF Clear
<1> QED
  BY <1>9, <1>14, <1>15, <1>16 DEF Clear

(* The list is asked for. *)
LEMMA LimitsClear ==
  ASSUME NEW w, NEW r \in Roster, NEW s \in Site, r.up, s.told # <<>>, Head(s.told).kind = "limits"
  PROVE  LET y == [r EXCEPT !.known = TRUE, !.groups = NoList.groups, !.members = NoList.members]
             t == Append(Tail(s.told), [kind |-> "roster", list |-> s.list])
         IN  /\ y \in Roster /\ t \in Seq(Told)
             /\ \A n \in Site : Clear(r, s, w) /\ n.list = s.list /\ n.told = t => Clear(y, n, w)
<1> DEFINE y == [r EXCEPT !.known = TRUE, !.groups = NoList.groups, !.members = NoList.members]
           m == [kind |-> "roster", list |-> s.list]
           t == Append(Tail(s.told), m)
<1>1. s.told \in Seq(Told) /\ s.list \in List
  BY SiteIs
<1>2. m \in Told /\ m.kind = "roster" /\ m.list = s.list
  BY <1>1 DEF Told
<1>3. /\ y \in Roster /\ y.known /\ y.up = r.up /\ y.fault = r.fault /\ y.loaded = r.loaded
      /\ y.ssibusy = r.ssibusy /\ y.buddies = r.buddies /\ y.members = NoList.members
  <2>1. NoList.groups \in [Gids -> GroupNames \cup {Nothing}] /\ NoList.members \in [Items -> Buddies \cup {Nothing}]
    BY NoListIs, ListIs
  <2> QED
    BY <2>1 DEF Roster
<1>4. \A i \in Items : y.members[i] = Nothing
  BY <1>3, NoListIs
<1> HIDE DEF y, m
<1>5. t \in Seq(Told)
  BY <1>1, <1>2, HeadTail
<1>6. ASSUME NEW n \in Site, Clear(r, s, w), n.list = s.list, n.told = t PROVE Clear(y, n, w)
  <2>1. s.told[1].kind = "limits" /\ 1 \in DOMAIN s.told
    BY <1>1, HeadTail
  <2>2. SigningOn(r, s)
    BY <1>6, <2>1 DEF Clear, Listening
  <2>3. Tail(s.told) = <<>>
    BY <2>2 DEF SigningOn
  <2>4. n.told = <<m>> /\ n.told = Append(<<>>, m)
    <3>1. n.told = Append(<<>>, m)
      BY <1>6, <2>3, Zenon
    <3>2. Append(<<>>, m) = <<m>>
      OBVIOUS
    <3> QED
      BY <3>1, <3>2, Zenon
  <2>5. Proper(s.list) /\ ~r.fault /\ ~r.loaded /\ ~r.ssibusy /\ (w = {} => StoredFirst(y, s.list))
    BY <1>3, <1>6, <2>2 DEF Clear, SigningOn, StoredFirst
  <2> DEFINE z == Heard(y, m)
  <2>6. Holds(z, s.list, w) /\ z \in Roster /\ z.ssibusy = y.ssibusy
    BY <1>1, <1>2, <1>3, <1>4, <2>5, HoldsRoster
  <2>7. ComesTo(y, Append(<<>>, m), z)
    <3>1. ComesTo(y, <<>>, y)
      BY <1>3, ComesHere
    <3>2. Fits(y, m)
      BY <1>2 DEF Fits
    <3>3. <<>> \in Seq(Told)
      OBVIOUS
    <3> QED
      BY <1>2, <1>3, <2>6, <3>1, <3>2, <3>3, ComesOn
  <2> HIDE DEF z
  <2>8. Follows(y, n.told, n.list, w)
    <3>1. ~z.ssibusy
      BY <1>3, <2>5, <2>6
    <3>2. ComesTo(y, n.told, z) /\ Holds(z, n.list, w)
      BY <1>6, <2>4, <2>6, <2>7, Zenon
    <3> QED
      BY <2>6, <3>1, <3>2, Zenon DEF Follows
  <2>9. \A j \in DOMAIN n.told : j = 1 /\ n.told[j].kind = "roster"
    BY <1>2, <2>4
  <2>10. Listening(y, n, w)
    BY <1>3, <2>5, <2>8, <2>9 DEF Listening
  <2>11. ~SigningOn(y, n)
    BY <1>2, <2>4 DEF SigningOn
  <2> QED
    BY <1>3, <1>6, <2>5, <2>10, <2>11 DEF Clear
<1> QED
  BY <1>3, <1>5, <1>6 DEF y, m

-----------------------------------------------------------------------------
(* Another client. *)

(* What is under way leads to l, and is no longer a sign-on. *)
Reached(r, told, l, w) == \E x \in Roster : ComesTo(r, told, x) /\ Holds(x, l, w)

Framed(r, told) ==
  /\ told # <<>> \/ r.loaded
  /\ \A j \in DOMAIN told : told[j].kind # "limits" /\ (told[j].kind = "roster" <=> j = 1 /\ ~r.loaded)

Open(r, told, l, w) == told \in Seq(Told) /\ Reached(r, told, l, w) /\ Framed(r, told)

LEMMA AppendIs ==
  ASSUME NEW t \in Seq(Told), NEW m \in Told
  PROVE  /\ Append(t, m) \in Seq(Told) /\ Append(t, m) # <<>>
         /\ \A j \in DOMAIN Append(t, m) : \/ j \in DOMAIN t /\ Append(t, m)[j] = t[j]
                                           \/ Append(t, m)[j] = m /\ (j = 1 => t = <<>>)
<1>1. \A j \in DOMAIN Append(t, m) : j \in DOMAIN t \/ j = Len(t) + 1
  OBVIOUS
<1>2. \A j \in DOMAIN t : Append(t, m)[j] = t[j]
  OBVIOUS
<1>3. Append(t, m)[Len(t) + 1] = m /\ (Len(t) + 1 = 1 => t = <<>>)
  OBVIOUS
<1>4. Append(t, m) \in Seq(Told) /\ Append(t, m) # <<>>
  <2>1. Append(t, m) \in Seq(Told) /\ Len(Append(t, m)) = Len(t) + 1 /\ Len(t) \in Nat
    OBVIOUS
  <2>2. Len(<<>>) = 0
    OBVIOUS
  <2> QED
    BY <2>1, <2>2
<1> QED
  BY <1>1, <1>2, <1>3, <1>4

LEMMA FramedOn ==
  ASSUME NEW r \in Roster, NEW t \in Seq(Told), Framed(r, t),
         NEW m \in Told, m.kind \notin {"limits", "roster"}
  PROVE  Framed(r, Append(t, m))
<1> DEFINE a == Append(t, m)
<1>1. /\ a # <<>>
      /\ \A j \in DOMAIN a : (j \in DOMAIN t /\ a[j] = t[j]) \/ (a[j] = m /\ (j = 1 => t = <<>>))
  BY AppendIs
<1> HIDE DEF a
<1>2. ASSUME NEW j \in DOMAIN a
      PROVE  a[j].kind # "limits" /\ (a[j].kind = "roster" <=> j = 1 /\ ~r.loaded)
  BY <1>1 DEF Framed
<1>3. Framed(r, a)
  BY <1>1, <1>2 DEF Framed
<1> QED
  BY <1>3 DEF a

LEMMA OpenOn ==
  ASSUME NEW w, NEW r \in Roster, NEW t, NEW l, NEW n, Open(r, t, l, w),
         NEW m \in Told, m.kind \notin {"limits", "roster"},
         \A x \in Roster : Holds(x, l, w) => Fits(x, m) /\ Holds(Heard(x, m), n, w)
  PROVE  Open(r, Append(t, m), n, w)
<1>1. t \in Seq(Told) /\ Framed(r, t)
  BY DEF Open
<1>2. PICK x \in Roster : ComesTo(r, t, x) /\ Holds(x, l, w)
  BY DEF Open, Reached
<1>3. Fits(x, m) /\ Holds(Heard(x, m), n, w)
  BY <1>2
<1>4. Heard(x, m) \in Roster
  BY HeardTyped
<1>5. ComesTo(r, Append(t, m), Heard(x, m))
  BY <1>1, <1>2, <1>3, <1>4, ComesOn
<1>6. Reached(r, Append(t, m), n, w)
  BY <1>3, <1>4, <1>5, Zenon DEF Reached
<1> QED
  BY <1>1, <1>6, AppendIs, FramedOn DEF Open

LEMMA OpenStarts ==
  ASSUME NEW w, NEW r \in Roster, NEW s \in Site, Listening(r, s, w)
  PROVE  Open(r, s.told, s.list, w)
<1>1. s.told \in Seq(Told)
  BY SiteIs
<1>2. PICK x \in Roster : ComesTo(r, s.told, x) /\ Holds(x, s.list, w)
  BY DEF Listening, Follows
<1>3. Reached(r, s.told, s.list, w)
  BY <1>2 DEF Reached
<1>4. s.told # <<>> \/ r.loaded
  <2> SUFFICES ASSUME s.told = <<>> PROVE r.loaded
    OBVIOUS
  <2>1. x = r
    BY <1>2, ComesHere
  <2> QED
    BY <1>2, <2>1 DEF Holds
<1>5. Framed(r, s.told)
  BY <1>4 DEF Listening, Framed
<1> QED
  BY <1>1, <1>3, <1>5 DEF Open

(* The transaction begins and ends. *)
StartFrame == [kind |-> "start"]
EndFrame   == [kind |-> "end"]

LEMMA OpenBusy ==
  ASSUME NEW w, NEW r \in Roster, NEW t, NEW l, Open(r, t, l, w), NEW k \in {"start", "end"}
  PROVE  Open(r, Append(t, [kind |-> k]), l, w)
<1> DEFINE m == [kind |-> k]
<1>1. m \in Told /\ m.kind = k
  BY DEF Told
<1> HIDE DEF m
<1>2. m.kind \in {"start", "end"} /\ m.kind \notin {"limits", "roster"}
  BY <1>1
<1>3. ASSUME NEW x \in Roster, Holds(x, l, w) PROVE Fits(x, m) /\ Holds(Heard(x, m), l, w)
  <2>1. Fits(x, m)
    BY <1>2 DEF Fits
  <2> QED
    BY <1>2, <1>3, <2>1, HoldsBusy
<1>4. Open(r, Append(t, m), l, w)
  BY <1>1, <1>2, <1>3, OpenOn
<1> QED
  BY <1>4 DEF m

LEMMA OpenEnds ==
  ASSUME NEW w, NEW r \in Roster, r.known, NEW t, NEW n \in Site, Open(r, t, n.list, w),
         n.told = Append(t, EndFrame)
  PROVE  Listening(r, n, w)
<1> DEFINE m == EndFrame
<1>1. m \in Told /\ m.kind = "end"
  BY DEF Told, EndFrame
<1> HIDE DEF m
<1>2. t \in Seq(Told)
  BY DEF Open
<1>3. PICK x \in Roster : ComesTo(r, t, x) /\ Holds(x, n.list, w)
  BY DEF Open, Reached
<1> DEFINE z == Heard(x, m)
<1>4. z \in Roster /\ z.ssibusy = (m.kind = "start")
  BY <1>1, HeardBusy
<1>5. Fits(x, m) /\ Holds(z, n.list, w)
  BY <1>1, <1>3, HoldsBusy DEF Fits
<1>6. ComesTo(r, Append(t, m), z)
  BY <1>1, <1>2, <1>3, <1>4, <1>5, ComesOn
<1> HIDE DEF z
<1>7. ~z.ssibusy
  BY <1>1, <1>4
<1>8. n.told = Append(t, m)
  BY DEF m
<1>9. Follows(r, n.told, n.list, w)
  BY <1>4, <1>5, <1>6, <1>7, <1>8, Zenon DEF Follows
<1>10. Framed(r, n.told)
  BY <1>1, <1>2, <1>8, FramedOn DEF Open
<1> QED
  BY <1>9, <1>10 DEF Listening, Framed

(* Whether it is told of is Listens, of whom has signed on. *)
Hearing(r, told) == r.up /\ \A j \in DOMAIN told : told[j].kind # "limits"

ToldOf(r, told, frames) ==
  IF Hearing(r, told) THEN told \o <<StartFrame>> \o frames \o <<EndFrame>> ELSE told

LEMMA TwoIs ==
  ASSUME NEW a, NEW b
  PROVE  Append(<<a>>, b) = <<a, b>> /\ Append(<<>>, b) = <<b>>
<1> DEFINE S == {a, b}
<1>1. <<a>> \in Seq(S) /\ <<a, b>> \in Seq(S) /\ b \in S
  OBVIOUS
<1>2. Append(<<a>>, b) \in Seq(S) /\ Len(Append(<<a>>, b)) = 2 /\ Len(<<a, b>>) = 2
  BY <1>1
<1>3. /\ Append(<<a>>, b)[1] = a /\ Append(<<a>>, b)[2] = b
      /\ <<a, b>>[1] = a /\ <<a, b>>[2] = b
  BY <1>1
<1>4. \A i \in 1..2 : Append(<<a>>, b)[i] = <<a, b>>[i]
  BY <1>3
<1>5. \A v, x \in Seq(S) : Len(v) = 2 /\ Len(x) = 2 /\ (\A i \in 1..2 : v[i] = x[i]) => v = x
  OBVIOUS
<1>6. Append(<<>>, b) = <<b>>
  OBVIOUS
<1> QED
  BY <1>1, <1>2, <1>4, <1>5, <1>6

(* The same, frame by frame. *)
ToldWith(t, a)    == Append(Append(Append(t, StartFrame), a), EndFrame)
ToldWithBoth(t, a, b) == Append(Append(Append(Append(t, StartFrame), a), b), EndFrame)

LEMMA ToldOfIs ==
  ASSUME NEW r, NEW t \in Seq(Told), NEW a \in Told, NEW b \in Told
  PROVE  /\ ToldOf(r, t, <<a>>) = IF Hearing(r, t) THEN ToldWith(t, a) ELSE t
         /\ ToldOf(r, t, <<a, b>>) = IF Hearing(r, t) THEN ToldWithBoth(t, a, b) ELSE t
         /\ ToldOf(r, t, <<a>>) \in Seq(Told) /\ ToldOf(r, t, <<a, b>>) \in Seq(Told)
<1> DEFINE u == Append(t, StartFrame)
<1>1. StartFrame \in Told /\ EndFrame \in Told
  BY DEF Told, StartFrame, EndFrame
<1>8. /\ ToldOf(r, t, <<a>>) = IF Hearing(r, t) THEN t \o <<StartFrame>> \o <<a>> \o <<EndFrame>> ELSE t
      /\ ToldOf(r, t, <<a, b>>) = IF Hearing(r, t) THEN t \o <<StartFrame>> \o <<a, b>> \o <<EndFrame>> ELSE t
  BY DEF ToldOf
<1>9. u = Append(t, StartFrame)
  OBVIOUS
<1> HIDE DEF u
<1>2. \A v \in Seq(Told), m \in Told : v \o <<m>> = Append(v, m) /\ Append(v, m) \in Seq(Told)
  OBVIOUS
<1>3. \A v \in Seq(Told) : v \o <<a, b>> = Append(Append(v, a), b)
  <2> SUFFICES ASSUME NEW v \in Seq(Told) PROVE v \o <<a, b>> = Append(Append(v, a), b)
    OBVIOUS
  <2>1. v \o <<a, b>> \in Seq(Told) /\ Append(Append(v, a), b) \in Seq(Told)
    OBVIOUS
  <2>2. Len(v \o <<a, b>>) = Len(Append(Append(v, a), b))
    OBVIOUS
  <2>3. \A i \in 1..Len(v \o <<a, b>>) : (v \o <<a, b>>)[i] = Append(Append(v, a), b)[i]
    OBVIOUS
  <2> QED
    BY <2>1, <2>2, <2>3
<1>4. t \o <<StartFrame>> = u /\ u \in Seq(Told)
  BY <1>1, <1>2, <1>9
<1>5. /\ t \o <<StartFrame>> \o <<a>> \o <<EndFrame>> = Append(Append(u, a), EndFrame)
      /\ Append(Append(u, a), EndFrame) \in Seq(Told)
  BY <1>1, <1>2, <1>4
<1>6. /\ t \o <<StartFrame>> \o <<a, b>> \o <<EndFrame>> = Append(Append(Append(u, a), b), EndFrame)
      /\ Append(Append(Append(u, a), b), EndFrame) \in Seq(Told)
  BY <1>1, <1>2, <1>3, <1>4
<1>7. ToldWith(t, a) = Append(Append(u, a), EndFrame) /\ ToldWithBoth(t, a, b) = Append(Append(Append(u, a), b), EndFrame)
  BY <1>9, Zenon DEF ToldWith, ToldWithBoth
<1> QED
  BY <1>5, <1>6, <1>7, <1>8

LEMMA ToldOfTwo ==
  ASSUME NEW r, NEW t \in Seq(Told), NEW a \in Told, NEW b \in Told
  PROVE  ToldOf(r, t, <<a, b>>) = IF Hearing(r, t) THEN ToldWithBoth(t, a, b) ELSE t
BY ToldOfIs

(* What another client does is told of to whom it must be. *)
LEMMA AnotherClear ==
  ASSUME NEW w, NEW r \in Roster, NEW s \in Site, Clear(r, s, w), NEW n \in Site, Proper(n.list),
         ~Hearing(r, s.told) /\ w = {} => \A p \in Buddies : Has(s.list, p) => Has(n.list, p),
         ~Hearing(r, s.told) => n.told = s.told,
         Listening(r, s, w) /\ Hearing(r, s.told) => Listening(r, n, w)
  PROVE  Clear(r, n, w)
<1>1. CASE ~r.up
  <2>1. ~Hearing(r, s.told)
    BY <1>1 DEF Hearing
  <2>2. w = {} => StoredFirst(r, n.list)
    BY <1>1, <2>1 DEF Clear, StoredFirst
  <2> QED
    BY <1>1, <2>1, <2>2 DEF Clear
<1>2. CASE r.up /\ SigningOn(r, s)
  <2>1. 1 \in DOMAIN s.told /\ s.told[1].kind = "limits"
    BY <1>2 DEF SigningOn
  <2>2. ~Hearing(r, s.told)
    BY <2>1 DEF Hearing
  <2>3. SigningOn(r, n)
    BY <1>2, <2>2 DEF SigningOn
  <2>4. w = {} => StoredFirst(r, n.list)
    BY <1>2, <2>2 DEF Clear, StoredFirst
  <2> QED
    BY <1>2, <2>3, <2>4 DEF Clear
<1>3. CASE r.up /\ ~SigningOn(r, s)
  <2>1. Listening(r, s, w)
    BY <1>3 DEF Clear
  <2>2. Hearing(r, s.told)
    BY <1>3, <2>1 DEF Listening, Hearing
  <2>3. Listening(r, n, w)
    BY <2>1, <2>2
  <2>5. ~SigningOn(r, n)
    <3>1. n.told = <<[kind |-> "limits"]>> => 1 \in DOMAIN n.told /\ n.told[1].kind = "limits"
      OBVIOUS
    <3> QED
      BY <2>3, <3>1 DEF SigningOn, Listening
  <2> QED
    BY <1>3, <2>3, <2>5 DEF Clear
<1> QED
  BY <1>1, <1>2, <1>3

LEMMA AddsClear ==
  ASSUME NEW w, NEW r \in Roster, NEW s \in Site,
         NEW who \in Buddies, NEW item \in Items, NEW group \in GroupNames,
         WhereIs(s.list.members, who) = {}, s.list.members[item] = Nothing,
         ServerAddGroup(s.list, item[1], group).groups[item[1]] = group,
         (\E k \in Gids : s.list.members[<<k, item[2]>>] # Nothing) => "elsewhere" \in w
  PROVE  LET made   == ServerAddGroup(s.list, item[1], group)
             new    == IF s.list.groups[item[1]] = Nothing
                       THEN <<[kind |-> "addgroup", gid |-> item[1], name |-> group]>> ELSE <<>>
             frames == Append(new, [kind |-> "add", item |-> item, who |-> who])
             n      == [list |-> ServerAdd(made, item, who), told |-> ToldOf(r, s.told, frames)]
         IN  n \in Site /\ (w \cap Unclear = {} /\ Clear(r, s, w) => Clear(r, n, w))
<1> DEFINE l == s.list
           gid == item[1]
           made == ServerAddGroup(l, gid, group)
           grp == [kind |-> "addgroup", gid |-> gid, name |-> group]
           m == [kind |-> "add", item |-> item, who |-> who]
           new == IF l.groups[gid] = Nothing THEN <<grp>> ELSE <<>>
           frames == Append(new, m)
           full == ServerAdd(made, item, who)
           t == ToldOf(r, s.told, frames)
           n == [list |-> full, told |-> t]
           u == Append(s.told, StartFrame)
<1>1. s.told \in Seq(Told) /\ l \in List /\ gid \in Gids
  BY SiteIs, ItemIs
<1>2. /\ grp \in Told /\ grp.kind = "addgroup" /\ grp.gid = gid /\ grp.name = group
      /\ m \in Told /\ m.kind = "add" /\ m.item = item /\ m.who = who
  BY <1>1 DEF Told
<1>3. /\ made \in List /\ made.members = l.members
      /\ \A j \in Gids : j # gid => made.groups[j] = l.groups[j]
      /\ l.groups[gid] # Nothing => made = l
      /\ made.groups[gid] = group
  BY <1>1, ServerAddGroupIs
<1>4. group # Nothing /\ who # Nothing
  BY OscarRosterAssumption
<1>5. ~Has(l, who) /\ l.members[item] = Nothing
  BY DEF WhereIs, Has
<1>6. frames = IF l.groups[gid] = Nothing THEN <<grp, m>> ELSE <<m>>
  <2> HIDE DEF grp, m
  <2> QED
    BY TwoIs
<1>20. (\E k \in Gids : l.members[<<k, item[2]>>] # Nothing) => "elsewhere" \in w
  OBVIOUS
<1>21. s.list = l /\ gid = item[1] /\ u = Append(s.told, StartFrame)
  OBVIOUS
<1> HIDE DEF l, gid, made, grp, m
<1>7. /\ full \in List /\ full.groups = made.groups /\ full.members[item] = who
      /\ \A j \in Items : j # item => full.members[j] = l.members[j]
  <2>1. made.groups[item[1]] # Nothing /\ made.members[item] = Nothing
    BY <1>3, <1>4, <1>5, <1>21
  <2> QED
    BY <1>3, <2>1, ServerAddIs
<1>8. /\ t \in Seq(Told)
      /\ ~Hearing(r, s.told) => t = s.told
      /\ Hearing(r, s.told) =>
           t = IF l.groups[gid] = Nothing THEN ToldWithBoth(s.told, grp, m) ELSE ToldWith(s.told, m)
  <2> DEFINE one == ToldOf(r, s.told, <<m>>)
             two == ToldOf(r, s.told, <<grp, m>>)
  <2>1. /\ one = IF Hearing(r, s.told) THEN ToldWith(s.told, m) ELSE s.told
        /\ two = IF Hearing(r, s.told) THEN ToldWithBoth(s.told, grp, m) ELSE s.told
        /\ one \in Seq(Told) /\ two \in Seq(Told)
    <3>1. s.told \in Seq(Told) /\ grp \in Told /\ m \in Told
      BY <1>1, <1>2
    <3>2. one \in Seq(Told) /\ two \in Seq(Told)
      BY <3>1, ToldOfIs
    <3>3. one = IF Hearing(r, s.told) THEN ToldWith(s.told, m) ELSE s.told
      BY <3>1, ToldOfIs
    <3>4. two = IF Hearing(r, s.told) THEN ToldWithBoth(s.told, grp, m) ELSE s.told
      BY <3>1, ToldOfTwo
    <3> QED
      BY <3>2, <3>3, <3>4
  <2>2. t = IF l.groups[gid] = Nothing THEN two ELSE one
    <3> HIDE DEF frames
    <3> QED
      BY <1>6
  <2> HIDE DEF one, two, t
  <2> QED
    BY <1>1, <2>1, <2>2
<1> HIDE DEF frames, full, t, u
<1>9. n \in Site /\ n.list = full /\ n.told = t
  BY <1>7, <1>8 DEF Site
<1> HIDE DEF n
<1>10. ASSUME w \cap Unclear = {}, Clear(r, s, w) PROVE Clear(r, n, w)
  <2>1. Proper(l)
    BY <1>10, <1>21 DEF Clear
  <2>2. \A i \in Items : i[1] \in Gids
    BY ItemIs
  <2>3. Proper(made)
    <3>1. \A k \in Gids : l.groups[k] # Nothing => made.groups[k] # Nothing
      BY <1>3, <1>4
    <3>2. \A i \in Items : made.members[i] # Nothing => made.groups[i[1]] # Nothing
      BY <1>3, <2>1, <2>2, <3>1 DEF Proper
    <3>3. \A i, j \in Items : made.members[i] # Nothing /\ made.members[i] = made.members[j] => i = j
      BY <1>3, <2>1 DEF Proper
    <3> QED
      BY <3>2, <3>3 DEF Proper
  <2>4. Proper(full)
    <3>1. \A i \in Items : i # item => full.members[i] = made.members[i] /\ made.members[i] # who
      BY <1>3, <1>5, <1>7 DEF Has
    <3>2. full.groups[item[1]] # Nothing
      BY <1>3, <1>4, <1>7, <1>21
    <3>3. \A i \in Items : full.members[i] # Nothing => full.groups[i[1]] # Nothing
      BY <1>7, <2>3, <3>1, <3>2 DEF Proper
    <3>4. ASSUME NEW i \in Items, NEW j \in Items, full.members[i] # Nothing, full.members[i] = full.members[j]
          PROVE  i = j
      BY <1>7, <2>3, <3>1, <3>4 DEF Proper
    <3> QED
      BY <3>3, <3>4 DEF Proper
  <2>5. \A p \in Buddies : Has(l, p) => Has(full, p)
    BY <1>5, <1>7, OscarRosterAssumption DEF Has
  <2>6. ASSUME Listening(r, s, w), Hearing(r, s.told) PROVE Listening(r, n, w)
    <3>1. Open(r, u, l, w)
      <4>1. Open(r, s.told, l, w)
        BY <2>6, <1>21, OpenStarts
      <4> QED
        BY <4>1, <1>21, OpenBusy DEF StartFrame
    <3>2. \A k \in Gids : made.members[<<k, item[2]>>] = Nothing
      BY <1>3, <1>10, <1>20 DEF Unclear
    <3>3. \A x \in Roster : Holds(x, made, w) => Fits(x, m) /\ Holds(Heard(x, m), full, w)
      <4> SUFFICES ASSUME NEW x \in Roster, Holds(x, made, w)
                   PROVE  Fits(x, m) /\ Holds(Heard(x, m), full, w)
        OBVIOUS
      <4>1. made.groups[m.item[1]] # Nothing /\ ~Has(made, m.who)
        BY <1>2, <1>3, <1>4, <1>5, <1>21 DEF Has
      <4>2. Holds(Heard(x, m), full, w)
        BY <1>2, <1>3, <1>7, <2>3, <3>2, <4>1, HoldsAdd
      <4> QED
        BY <1>2, <4>2 DEF Fits
    <3>4. ASSUME NEW v, Open(r, v, made, w), n.told = Append(Append(v, m), EndFrame) PROVE Listening(r, n, w)
      <4>1. Open(r, Append(v, m), full, w)
        BY <1>2, <3>3, <3>4, OpenOn
      <4>2. r.known
        BY <2>6 DEF Listening
      <4> QED
        BY <1>9, <1>21, <3>4, <4>1, <4>2, OpenEnds
    <3>5. CASE l.groups[gid] # Nothing
      <4>1. n.told = ToldWith(s.told, m)
        BY <1>8, <1>9, <2>6, <3>5
      <4>2. n.told = Append(Append(u, m), EndFrame)
        BY <4>1, <1>21, Zenon DEF ToldWith
      <4>3. Open(r, u, made, w)
        BY <1>3, <3>1, <3>5
      <4> QED
        BY <3>4, <4>2, <4>3
    <3>6. CASE l.groups[gid] = Nothing
      <4>1. \A x \in Roster : Holds(x, l, w) => Fits(x, grp) /\ Holds(Heard(x, grp), made, w)
        <5> SUFFICES ASSUME NEW x \in Roster, Holds(x, l, w)
                     PROVE  Fits(x, grp) /\ Holds(Heard(x, grp), made, w)
          OBVIOUS
        <5>1. grp.gid \in Gids /\ grp.name \in GroupNames /\ l.groups[grp.gid] = Nothing /\ made.groups[grp.gid] = grp.name
          BY <1>1, <1>2, <1>3, <3>6
        <5>2. \A k \in Gids : k # grp.gid => made.groups[k] = l.groups[k]
          BY <1>2, <1>3
        <5>3. Holds(Heard(x, grp), made, w)
          BY <1>1, <1>2, <1>3, <2>1, <5>1, <5>2, HoldsAddGroup
        <5> QED
          BY <1>2, <5>3 DEF Fits
      <4>2. Open(r, Append(u, grp), made, w)
        BY <1>2, <3>1, <4>1, OpenOn
      <4>3. n.told = ToldWithBoth(s.told, grp, m)
        BY <1>8, <1>9, <2>6, <3>6
      <4>4. n.told = Append(Append(Append(u, grp), m), EndFrame)
        BY <4>3, <1>21, Zenon DEF ToldWithBoth
      <4> QED
        BY <3>4, <4>2, <4>4
    <3> QED
      BY <3>5, <3>6
  <2> QED
    BY <1>8, <1>9, <1>10, <1>21, <2>4, <2>5, <2>6, AnotherClear
<1> QED
  BY <1>9, <1>10 DEF n, full, t, frames, made, m, grp, l, gid

LEMMA RemovesClear ==
  ASSUME NEW w, NEW r \in Roster, NEW s \in Site, NEW item \in Items,
         s.list.members[item] # Nothing,
         Hearing(r, s.told) \/ "absent" \in w
  PROVE  LET left == [s.list EXCEPT !.members[item] = Nothing]
             gone == [kind |-> "remove", item |-> item]
             n    == IF Empty(left.members, item[1])
                     THEN [list |-> Groupless(left, item[1]),
                           told |-> ToldOf(r, s.told, <<gone, [kind |-> "removegroup", gid |-> item[1]]>>)]
                     ELSE [list |-> left, told |-> ToldOf(r, s.told, <<gone>>)]
         IN  n \in Site /\ (Clear(r, s, w) => Clear(r, n, w))
<1> DEFINE l == s.list
           gid == item[1]
           left == [l EXCEPT !.members[item] = Nothing]
           m == [kind |-> "remove", item |-> item]
           a == [kind |-> "removegroup", gid |-> gid]
           bare == Groupless(left, gid)
           n == IF Empty(left.members, gid)
                THEN [list |-> bare, told |-> ToldOf(r, s.told, <<m, a>>)]
                ELSE [list |-> left, told |-> ToldOf(r, s.told, <<m>>)]
           u == Append(s.told, StartFrame)
<1>1. s.told \in Seq(Told) /\ l \in List /\ gid \in Gids
  BY SiteIs, ItemIs
<1>2. /\ m \in Told /\ m.kind = "remove" /\ m.item = item
      /\ a \in Told /\ a.kind = "removegroup" /\ a.gid = gid
  BY <1>1 DEF Told
<1>3. /\ left \in List /\ left.groups = l.groups
      /\ \A j \in Items : left.members[j] = IF j = item THEN Nothing ELSE l.members[j]
  BY <1>1, TakenIs
<1>21. /\ s.list = l /\ gid = item[1] /\ u = Append(s.told, StartFrame)
       /\ l.members[item] # Nothing
  OBVIOUS
<1> HIDE DEF l, gid, left, a, m
<1>4. /\ bare \in List
      /\ \A k \in Gids : bare.groups[k] = IF k = gid THEN Nothing ELSE left.groups[k]
      /\ \A i \in Items : bare.members[i] = IF i[1] = gid THEN Nothing ELSE left.members[i]
  BY <1>1, <1>3, GrouplessIs
<1> HIDE DEF bare, u
<1>5. /\ n \in Site
      /\ n.list = IF Empty(left.members, gid) THEN bare ELSE left
      /\ ~Hearing(r, s.told) => n.told = s.told
      /\ Hearing(r, s.told) =>
           n.told = IF Empty(left.members, gid) THEN ToldWithBoth(s.told, m, a) ELSE ToldWith(s.told, m)
  <2> DEFINE one == ToldOf(r, s.told, <<m>>)
             two == ToldOf(r, s.told, <<m, a>>)
  <2>1. /\ one = IF Hearing(r, s.told) THEN ToldWith(s.told, m) ELSE s.told
        /\ two = IF Hearing(r, s.told) THEN ToldWithBoth(s.told, m, a) ELSE s.told
        /\ one \in Seq(Told) /\ two \in Seq(Told)
    BY <1>1, <1>2, ToldOfIs
  <2> HIDE DEF one, two
  <2>2. n = IF Empty(left.members, gid) THEN [list |-> bare, told |-> two] ELSE [list |-> left, told |-> one]
    BY DEF one, two
  <2> HIDE DEF n
  <2> QED
    BY <1>3, <1>4, <2>1, <2>2 DEF Site
<1> HIDE DEF n
<1>6. ASSUME Clear(r, s, w) PROVE Clear(r, n, w)
  <2>1. Proper(l)
    BY <1>6, <1>21 DEF Clear
  <2>2. Proper(left)
    BY <1>3, <2>1 DEF Proper
  <2>3. Empty(left.members, gid) => Proper(bare)
    <3> SUFFICES ASSUME Empty(left.members, gid) PROVE Proper(bare)
      OBVIOUS
    <3>1. \A i \in Items : bare.members[i] # Nothing => i[1] # gid /\ bare.members[i] = left.members[i]
      BY <1>4
    <3>2. \A i \in Items : bare.members[i] # Nothing => bare.groups[i[1]] = left.groups[i[1]]
      BY <1>4, <3>1, ItemIs
    <3>3. \A i \in Items : bare.members[i] # Nothing => bare.groups[i[1]] # Nothing
      BY <2>2, <3>1, <3>2 DEF Proper
    <3>4. \A i, j \in Items : bare.members[i] # Nothing /\ bare.members[i] = bare.members[j] => i = j
      BY <2>2, <3>1 DEF Proper
    <3> QED
      BY <3>3, <3>4 DEF Proper
  <2>4. Proper(n.list)
    BY <1>5, <2>2, <2>3
  <2>5. ~(~Hearing(r, s.told) /\ w = {})
    OBVIOUS
  <2>6. ASSUME Listening(r, s, w), Hearing(r, s.told) PROVE Listening(r, n, w)
    <3>1. Open(r, u, l, w)
      <4>1. Open(r, s.told, l, w)
        BY <2>6, <1>21, OpenStarts
      <4> QED
        BY <4>1, <1>21, OpenBusy DEF StartFrame
    <3>2. \A x \in Roster : Holds(x, l, w) => Fits(x, m) /\ Holds(Heard(x, m), left, w)
      <4> SUFFICES ASSUME NEW x \in Roster, Holds(x, l, w)
                   PROVE  Fits(x, m) /\ Holds(Heard(x, m), left, w)
        OBVIOUS
      <4>1. l.members[m.item] # Nothing /\ m.item \in Items
        BY <1>2, <1>21
      <4>2. \A i \in Items : left.members[i] = IF i = m.item THEN Nothing ELSE l.members[i]
        BY <1>2, <1>3
      <4> QED
        BY <1>1, <1>2, <1>3, <2>1, <4>1, <4>2, HoldsRemove
    <3>3. Open(r, Append(u, m), left, w)
      BY <1>2, <3>1, <3>2, OpenOn
    <3>4. r.known
      BY <2>6 DEF Listening
    <3>5. CASE ~Empty(left.members, gid)
      <4>1. n.list = left /\ n.told = ToldWith(s.told, m)
        BY <1>5, <2>6, <3>5
      <4>2. n.told = Append(Append(u, m), EndFrame)
        BY <4>1, <1>21, Zenon DEF ToldWith
      <4> QED
        BY <1>5, <3>3, <3>4, <4>1, <4>2, OpenEnds
    <3>6. CASE Empty(left.members, gid)
      <4>1. n.list = bare /\ n.told = ToldWithBoth(s.told, m, a)
        BY <1>5, <2>6, <3>6
      <4>4. n.told = Append(Append(Append(u, m), a), EndFrame)
        BY <4>1, <1>21, Zenon DEF ToldWithBoth
      <4>2. \A x \in Roster : Holds(x, left, w) => Fits(x, a) /\ Holds(Heard(x, a), bare, w)
        <5> SUFFICES ASSUME NEW x \in Roster, Holds(x, left, w)
                     PROVE  Fits(x, a) /\ Holds(Heard(x, a), bare, w)
          OBVIOUS
        <5>1. /\ a.gid \in Gids /\ Empty(left.members, a.gid)
              /\ \A k \in Gids : bare.groups[k] = IF k = a.gid THEN Nothing ELSE left.groups[k]
              /\ \A i \in Items : bare.members[i] = IF i[1] = a.gid THEN Nothing ELSE left.members[i]
          BY <1>1, <1>2, <1>4, <3>6
        <5>2. Holds(Heard(x, a), bare, w)
          BY <1>2, <1>3, <1>4, <2>2, <5>1, HoldsRemoveGroup
        <5> QED
          BY <1>2, <5>2 DEF Fits
      <4>3. Open(r, Append(Append(u, m), a), bare, w)
        BY <1>2, <3>3, <4>2, OpenOn
      <4> QED
        BY <1>5, <3>4, <4>1, <4>3, <4>4, OpenEnds
    <3> QED
      BY <3>5, <3>6
  <2> QED
    BY <1>5, <1>6, <2>4, <2>5, <2>6, AnotherClear
<1> QED
  BY <1>5, <1>6 DEF n, bare, left, m, a, l, gid

-----------------------------------------------------------------------------
(* RosterInv is inductive. *)

LEMMA InvHolds == RosterInv => /\ roster \in Roster /\ site \in Site /\ whim \subseteq Whim
                               /\ whim \cap Unclear = {} => Clear(roster, site, whim)
BY DEF RosterInv, RosterTypeOK

LEMMA InvAfter ==
  ASSUME RosterInv, NEW y \in Roster, NEW n \in Site, roster' = y, site' = n, whim' = whim,
         whim \cap Unclear = {} => Clear(y, n, whim)
  PROVE  RosterInv'
<1>1. roster' \in Roster /\ site' \in Site /\ whim' \subseteq Whim
  BY InvHolds
<1>2. site'.list \in List /\ site'.told \in Seq(Told)
  BY SiteIs
<1>3. whim' \cap Unclear = {} => Clear(roster', site', whim')
  OBVIOUS
<1> QED
  BY <1>1, <1>2, <1>3 DEF RosterInv, RosterTypeOK

LEMMA RosterBegins == RosterInit => RosterInv
<1> SUFFICES ASSUME RosterInit PROVE RosterInv
  OBVIOUS
<1> DEFINE none == [p \in Buddies |-> Unlisted]
<1>1. whim \in Whims /\ whim \subseteq Whim
  BY OscarRosterAssumption DEF RosterInit
<1>2. site = [list |-> NoList, told |-> <<>>] /\ site \in Site
  BY NoListIs DEF RosterInit, Site
<1>3. none \in [Buddies -> Listing] /\ \A p \in Buddies : ~none[p].uploaded
  BY DEF Listing, Unlisted
<1>4. roster = [up |-> FALSE, loaded |-> FALSE, known |-> FALSE, ssibusy |-> FALSE,
                groups |-> NoList.groups, members |-> NoList.members,
                buddies |-> none, fault |-> FALSE]
  BY DEF RosterInit
<1> HIDE DEF none
<1>5. roster \in Roster /\ ~roster.up /\ ~roster.fault /\ roster.buddies = none
  BY <1>3, <1>4, NoListIs, ListIs DEF Roster, Listing
<1>6. Proper(NoList)
  BY NoListIs DEF Proper
<1>7. Clear(roster, site, whim)
  BY <1>2, <1>3, <1>5, <1>6 DEF Clear, StoredFirst
<1> QED
  BY <1>1, <1>2, <1>5, <1>7, NoListIs DEF RosterInv, RosterTypeOK

LEMMA UserAddsKeeps ==
  ASSUME RosterInv, NEW who \in Buddies, NEW group \in GroupNames, UserAdds(who, group)
  PROVE  RosterInv'
<1> DEFINE d == MovedTo(roster, site.list, who, group)
           item == <<NewGid(d.r, group), NewMid(d.r, who, group)>>
           e == Added(roster, site.list, who, group)
           n == [site EXCEPT !.list = e.l]
<1>1. roster \in Roster /\ site \in Site /\ (whim \cap Unclear = {} => Clear(roster, site, whim))
  BY InvHolds
<1>2. site.list \in List
  BY <1>1, SiteIs
<1>3. /\ Quiet
      /\ TakesChanges(d.r) =>
           /\ item \in Items
           /\ Without(d.r.members, who)[item] # Nothing => "crowds" \in whim
           /\ TargetOf(d.r, group) # {} /\ d.l.groups[item[1]] # group => "refills" \in whim
      /\ Becomes(IF TakesChanges(d.r) THEN DriverAdd(d, who, group) ELSE d)
  BY Zenon DEF UserAdds, MovedTo, Pair, RosterState
<1>4. roster' = e.r /\ site' = n /\ whim' = whim
  BY <1>3, Zenon DEF Becomes, Added
<1>5. e \in Pairs
  BY <1>1, <1>2, <1>3, AddedIs
<1>6. whim \cap Unclear = {} => Clear(e.r, n, whim)
  <2> SUFFICES ASSUME whim \cap Unclear = {} PROVE Clear(e.r, n, whim)
    OBVIOUS
  <2>1. roster.up => /\ roster.loaded \/ "early" \in whim
                     /\ \A j \in DOMAIN site.told :
                          site.told[j].kind \in {"limits", "roster"} \/ "races" \in whim
    BY <1>3, Zenon DEF Quiet
  <2> QED
    BY <1>1, <1>3, <2>1, AddedClear
<1> HIDE DEF d, e
<1>7. e.r \in Roster /\ n \in Site
  BY <1>1, <1>5, SiteIs DEF Pairs
<1> HIDE DEF n
<1> QED
  BY <1>4, <1>6, <1>7, InvAfter

LEMMA UserRemovesKeeps ==
  ASSUME RosterInv, NEW who \in Buddies, UserRemoves(who)
  PROVE  RosterInv'
<1> DEFINE e == Removed(roster, site.list, who)
           n == [site EXCEPT !.list = e.l]
<1>1. roster \in Roster /\ site \in Site /\ (whim \cap Unclear = {} => Clear(roster, site, whim))
  BY InvHolds
<1>2. site.list \in List
  BY <1>1, SiteIs
<1>3. /\ Quiet
      /\ UNCHANGED rosterVars \/ (roster' = e.r /\ site' = n /\ whim' = whim)
  BY Zenon DEF UserRemoves, Removed, Pair, RosterState, Becomes
<1>4. e \in Pairs
  BY <1>1, <1>2, RemovedIs
<1>5. whim \cap Unclear = {} => Clear(e.r, n, whim)
  <2> SUFFICES ASSUME whim \cap Unclear = {} PROVE Clear(e.r, n, whim)
    OBVIOUS
  <2>1. roster.up => /\ roster.loaded \/ "early" \in whim
                     /\ \A j \in DOMAIN site.told :
                          site.told[j].kind \in {"limits", "roster"} \/ "races" \in whim
    BY <1>3, Zenon DEF Quiet
  <2> QED
    BY <1>1, <2>1, RemovedClear
<1> HIDE DEF e
<1>6. e.r \in Roster /\ n \in Site
  BY <1>1, <1>4, SiteIs DEF Pairs
<1> HIDE DEF n
<1>7. CASE UNCHANGED rosterVars
  BY <1>1, <1>7, InvAfter DEF rosterVars
<1>8. CASE roster' = e.r /\ site' = n /\ whim' = whim
  BY <1>5, <1>6, <1>8, InvAfter
<1> QED
  BY <1>3, <1>7, <1>8

LEMMA RosterSignsOnKeeps == ASSUME RosterInv, RosterSignsOn PROVE RosterInv'
<1> DEFINE y == [roster EXCEPT !.up = TRUE, !.loaded = FALSE, !.ssibusy = FALSE]
           n == [site EXCEPT !.told = <<[kind |-> "limits"]>>]
<1>1. roster \in Roster /\ site \in Site /\ (whim \cap Unclear = {} => Clear(roster, site, whim))
  BY InvHolds
<1>2. ~roster.up /\ ~roster.fault /\ roster' = y /\ site' = n /\ whim' = whim
  BY DEF RosterSignsOn
<1>3. y \in Roster /\ n \in Site /\ (Clear(roster, site, whim) => Clear(y, n, whim))
  BY <1>1, <1>2, SignsOnClear
<1> HIDE DEF y, n
<1> QED
  BY <1>1, <1>2, <1>3, InvAfter

LEMMA GoesOffKeeps == ASSUME RosterInv, GoesOff PROVE RosterInv'
<1> DEFINE y == [roster EXCEPT !.up = FALSE]
           n == [site EXCEPT !.told = <<>>]
<1>1. roster \in Roster /\ site \in Site /\ (whim \cap Unclear = {} => Clear(roster, site, whim))
  BY InvHolds
<1>2. /\ roster.up /\ roster' = y /\ site' = n /\ whim' = whim
      /\ (\E j \in DOMAIN site.told : site.told[j].kind = "remove") => "absent" \in whim
  BY DEF GoesOff
<1>3. y \in Roster /\ n \in Site /\ (Clear(roster, site, whim) => Clear(y, n, whim))
  BY <1>1, <1>2, GoesOffClear
<1> HIDE DEF y, n
<1> QED
  BY <1>1, <1>2, <1>3, InvAfter

LEMMA HearsKeeps == ASSUME RosterInv, Hears PROVE RosterInv'
<1> DEFINE m == Head(site.told)
           rest == [site EXCEPT !.told = Tail(@)]
           y == [roster EXCEPT !.known = TRUE, !.groups = NoList.groups, !.members = NoList.members]
           t == Append(Tail(site.told), [kind |-> "roster", list |-> site.list])
           z == Heard(roster, m)
           n == [rest EXCEPT !.told = IF z.up THEN @ ELSE <<>>]
           a == [rest EXCEPT !.told = Append(@, [kind |-> "roster", list |-> site.list])]
<1>1. roster \in Roster /\ site \in Site /\ (whim \cap Unclear = {} => Clear(roster, site, whim))
  BY InvHolds
<1>2. site.told \in Seq(Told) /\ site.list \in List /\ site.told # <<>> /\ roster.up
  BY <1>1, SiteIs DEF Hears
<1>3. m \in Told /\ Tail(site.told) \in Seq(Told)
  BY <1>2, HeadTail
<1>4. rest \in Site /\ rest.told = Tail(site.told) /\ rest.list = site.list
  BY <1>1, <1>3, SiteIs
<1>5. /\ whim' = whim
      /\ \/ m.kind = "limits" /\ roster' = y /\ site' = a
         \/ m.kind # "limits" /\ roster' = z /\ site' = n
  <2>1. whim' = whim
    BY DEF Hears
  <2>2. CASE m.kind = "limits"
    BY <2>1, <2>2 DEF Hears
  <2>3. CASE m.kind # "limits"
    BY <2>1, <2>3, <1>3, ToldIs DEF Hears, Heard
  <2> QED
    BY <2>2, <2>3
<1>6. CASE m.kind = "limits" /\ roster' = y /\ site' = a
  <2>1. /\ y \in Roster /\ t \in Seq(Told)
        /\ \A k \in Site : Clear(roster, site, whim) /\ k.list = site.list /\ k.told = t => Clear(y, k, whim)
    BY <1>1, <1>2, <1>6, LimitsClear
  <2> HIDE DEF y, t
  <2>2. a = [rest EXCEPT !.told = t]
    BY <1>4 DEF t
  <2> HIDE DEF rest, a
  <2>3. a \in Site /\ a.list = site.list /\ a.told = t
    BY <1>4, <2>1, <2>2, SiteIs
  <2>4. whim \cap Unclear = {} => Clear(y, a, whim)
    BY <1>1, <2>1, <2>3
  <2> QED
    BY <1>5, <1>6, <2>1, <2>3, <2>4, InvAfter
<1>7. CASE m.kind # "limits" /\ roster' = z /\ site' = n
  <2>1. z \in Roster
    BY <1>1, <1>3, <1>7, HeardTyped
  <2> DEFINE u == IF z.up THEN Tail(site.told) ELSE <<>>
  <2>2. z = Heard(roster, Head(site.told))
    OBVIOUS
  <2> HIDE DEF z
  <2>3. u \in Seq(Told)
    BY <1>3
  <2>4. n = [rest EXCEPT !.told = u]
    BY <1>4
  <2>5. u = IF z.up THEN Tail(site.told) ELSE <<>>
    OBVIOUS
  <2> HIDE DEF rest, n, u
  <2>6. n \in Site /\ n.list = site.list /\ n.told = u
    BY <1>4, <2>3, <2>4, SiteIs
  <2>7. ASSUME Clear(roster, site, whim) PROVE Clear(z, n, whim)
    BY <1>1, <1>2, <1>7, <2>2, <2>5, <2>6, <2>7, HeardClear
  <2> QED
    BY <1>1, <1>5, <1>7, <2>1, <2>6, <2>7, InvAfter
<1> QED
  BY <1>5, <1>6, <1>7

LEMMA AnotherIs ==
  ASSUME NEW l, NEW frames, Another(l, frames)
  PROVE  roster' = roster /\ whim' = whim /\ site' = [list |-> l, told |-> ToldOf(roster, site.told, frames)]
BY DEF Another, Tells, Listens, ToldOf, Hearing, StartFrame, EndFrame

LEMMA AnotherAddsKeeps ==
  ASSUME RosterInv, NEW who \in Buddies, NEW item \in Items, NEW group \in GroupNames,
         AnotherAdds(who, item, group)
  PROVE  RosterInv'
<1> DEFINE made == ServerAddGroup(site.list, item[1], group)
           new == IF site.list.groups[item[1]] = Nothing
                  THEN <<[kind |-> "addgroup", gid |-> item[1], name |-> group]>> ELSE <<>>
           frames == Append(new, [kind |-> "add", item |-> item, who |-> who])
           n == [list |-> ServerAdd(made, item, who), told |-> ToldOf(roster, site.told, frames)]
<1>1. roster \in Roster /\ site \in Site /\ (whim \cap Unclear = {} => Clear(roster, site, whim))
  BY InvHolds
<1>2. /\ WhereIs(site.list.members, who) = {} /\ site.list.members[item] = Nothing
      /\ made.groups[item[1]] = group
      /\ (\E k \in Gids : site.list.members[<<k, item[2]>>] # Nothing) => "elsewhere" \in whim
      /\ Another(ServerAdd(made, item, who), frames)
  BY Zenon DEF AnotherAdds
<1>3. roster' = roster /\ whim' = whim /\ site' = n
  BY <1>2, AnotherIs, Zenon
<1>4. n \in Site /\ (whim \cap Unclear = {} /\ Clear(roster, site, whim) => Clear(roster, n, whim))
  BY <1>1, <1>2, AddsClear
<1> HIDE DEF n
<1> QED
  BY <1>1, <1>3, <1>4, InvAfter

LEMMA AnotherRemovesKeeps ==
  ASSUME RosterInv, NEW item \in Items, AnotherRemoves(item)
  PROVE  RosterInv'
<1> DEFINE left == [site.list EXCEPT !.members[item] = Nothing]
           gone == [kind |-> "remove", item |-> item]
           two == [list |-> Groupless(left, item[1]),
                   told |-> ToldOf(roster, site.told, <<gone, [kind |-> "removegroup", gid |-> item[1]]>>)]
           one == [list |-> left, told |-> ToldOf(roster, site.told, <<gone>>)]
           n == IF Empty(left.members, item[1]) THEN two ELSE one
<1>1. roster \in Roster /\ site \in Site /\ (whim \cap Unclear = {} => Clear(roster, site, whim))
  BY InvHolds
<1>2. /\ site.list.members[item] # Nothing
      /\ Listens \/ "absent" \in whim
      /\ IF Empty(left.members, item[1])
         THEN Another(Groupless(left, item[1]), <<gone, [kind |-> "removegroup", gid |-> item[1]]>>)
         ELSE Another(left, <<gone>>)
  BY Zenon DEF AnotherRemoves
<1>3. Hearing(roster, site.told) \/ "absent" \in whim
  BY <1>2 DEF Listens, Hearing
<1>4. roster' = roster /\ whim' = whim /\ site' = n
  BY <1>2, AnotherIs, Zenon
<1>5. n \in Site /\ (Clear(roster, site, whim) => Clear(roster, n, whim))
  BY <1>1, <1>2, <1>3, RemovesClear
<1> HIDE DEF n
<1> QED
  BY <1>1, <1>4, <1>5, InvAfter

LEMMA RosterSteps == RosterInv /\ RosterNext => RosterInv'
BY UserAddsKeeps, UserRemovesKeeps, RosterSignsOnKeeps, GoesOffKeeps, HearsKeeps, AnotherAddsKeeps,
   AnotherRemovesKeeps DEF RosterNext

LEMMA RosterRests == RosterInv /\ UNCHANGED rosterVars => RosterInv'
BY InvHolds, InvAfter DEF rosterVars

LEMMA RosterAre == RosterInv => RosterTypeOK /\ OscarListsAgree /\ NoRosterFault
<1> SUFFICES ASSUME RosterInv PROVE OscarListsAgree /\ NoRosterFault
  BY DEF RosterInv
<1>1. roster \in Roster /\ site \in Site /\ (whim \cap Unclear = {} => Clear(roster, site, whim))
  BY InvHolds
<1>2. NoRosterFault
  <2>1. whim \cap Unclear = {} => ~roster.fault
    BY <1>1 DEF Clear
  <2> QED
    BY <2>1 DEF NoRosterFault, Unclear
<1>3. ASSUME Settled, whim = {}
      PROVE  /\ roster.members = site.list.members
             /\ \A p \in Buddies :
                  LET there == {site.list.groups[i[1]] : i \in WhereIs(site.list.members, p)}
                  IN  /\ there \subseteq {roster.buddies[p].group}
                      /\ roster.buddies[p].uploaded <=> there # {}
  <2>1. Clear(roster, site, whim) /\ roster.up /\ site.told = <<>> /\ roster.loaded /\ site.list \in List
    BY <1>1, <1>3, SiteIs DEF Settled
  <2>2. Listening(roster, site, whim)
    BY <2>1 DEF Clear, SigningOn
  <2>3. Holds(roster, site.list, whim)
    BY <1>1, <2>1, <2>2, EmptyFollows DEF Listening
  <2>4. Equals(roster, site.list, {})
    BY <1>3, <2>3 DEF Holds
  <2>5. roster.members = site.list.members
    <3>1. /\ roster.members \in [Items -> Buddies \cup {Nothing}]
          /\ site.list.members \in [Items -> Buddies \cup {Nothing}]
      BY <1>1, <2>1, RosterIs, ListIs
    <3>2. \A i \in Items : roster.members[i] = site.list.members[i]
      BY <2>4 DEF Equals
    <3> QED
      BY <3>1, <3>2
  <2>6. ASSUME NEW p \in Buddies
        PROVE  LET there == {site.list.groups[i[1]] : i \in WhereIs(site.list.members, p)}
               IN  /\ there \subseteq {roster.buddies[p].group}
                   /\ roster.buddies[p].uploaded <=> there # {}
    <3>1. p # Nothing
      BY OscarRosterAssumption
    <3>2. \A i \in WhereIs(site.list.members, p) : site.list.groups[i[1]] = roster.buddies[p].group
      BY <2>4, <3>1 DEF Equals, WhereIs
    <3>3. roster.buddies[p].uploaded <=> WhereIs(site.list.members, p) # {}
      BY <2>4 DEF Equals, Has, WhereIs
    <3> QED
      BY <3>2, <3>3
  <2> QED
    BY <2>5, <2>6
<1> QED
  BY <1>2, <1>3, Zenon DEF OscarListsAgree
-----------------------------------------------------------------------------
(* TOC2: client, wrapper and driver. *)

Off(t) == t.connected # "ACTIVE" /\ t.sock # "ACTIVE" /\ ~(t.online > 0)
On(t)  == t.connected = "ACTIVE" /\ t.sock = "ACTIVE" /\ t.online > 0

Unpaused(t) ==
  /\ \A i \in DOMAIN t.frames : t.frames[i].kind # "PAUSE"
  /\ \A i \in DOMAIN t.mail : t.mail[i].kind # "PAUSE"

(* The loop that is in the read buffer is the one of the state of the socket. *)
LoopFits(t) ==
  /\ t.pc = "connecting" => t.sock = "WAITING_SIGNON"
  /\ t.pc = "data" => t.sock = "ACTIVE"

TocInv ==
  /\ toc \in Toc /\ world \subseteq Doings
  /\ world \cap {"pauses", "sendsFail"} = {} =>
       (Off(toc) \/ On(toc)) /\ Unpaused(toc) /\ LoopFits(toc)

(* What neither the session nor the loop shows in. *)
SameLink(t, d) ==
  d.online = t.online /\ d.connected = t.connected /\ d.sock = t.sock /\ d.pc = t.pc

LEMMA TocBegins == TocInit => TocInv
<1> SUFFICES ASSUME TocInit PROVE TocInv
  OBVIOUS
<1> USE Toc2Assumption
<1>1. PICK a \in BOOLEAN, g \in Groups \cup {NoGroup}, s \in {{}} \cup {{h} : h \in Groups} :
       toc = [online |-> 0, auto |-> a, connected |-> "NOTCONNECTED",
              sock |-> "NOTCONNECTED", connectstate |-> 0, gotconfig |-> FALSE,
              sync |-> "this", frames |-> <<>>, pc |-> "select",
              buddy |-> [group |-> g, uploaded |-> FALSE], buddybuf |-> <<>>,
              stored |-> s, mail |-> <<>>, server |-> "off", fault |-> FALSE]
  BY DEF TocInit
<1>2. world \subseteq Doings /\ s \subseteq Groups
  BY DEF TocInit
<1>3. toc \in Toc
  BY <1>1, <1>2 DEF Toc
<1>4. Off(toc) /\ Unpaused(toc) /\ LoopFits(toc)
  BY <1>1 DEF Off, Unpaused, LoopFits
<1> QED
  BY <1>2, <1>3, <1>4 DEF TocInv

LEMMA SockCloseIs ==
  ASSUME NEW t \in Toc
  PROVE  LET d == SockClose(t) IN
         /\ d \in Toc /\ d.sock = "NOTCONNECTED" /\ d.mail = <<>> /\ d.frames = t.frames
         /\ d.online = t.online /\ d.connected = t.connected /\ d.pc = t.pc
         /\ Unpaused(t) => Unpaused(d)
<1> DEFINE d == SockClose(t)
<1>1. /\ d \in Toc /\ d.sock = "NOTCONNECTED" /\ d.mail = <<>> /\ d.frames = t.frames
      /\ d.online = t.online /\ d.connected = t.connected /\ d.pc = t.pc
  <2> DEFINE none == <<>>
  <2>1. none \in Seq(Frame)
    OBVIOUS
  <2>2. d = [t EXCEPT !.sock = "NOTCONNECTED", !.mail = none, !.server = "off"]
    BY DEF SockClose
  <2> HIDE DEF none, d
  <2>3. /\ d \in Toc /\ d.sock = "NOTCONNECTED" /\ d.mail = none /\ d.frames = t.frames
        /\ d.online = t.online /\ d.connected = t.connected /\ d.pc = t.pc
    BY <2>1, <2>2 DEF Toc
  <2> QED
    BY <2>3 DEF none, d
<1> HIDE DEF d
<1>2. Unpaused(t) => Unpaused(d)
  BY <1>1 DEF Unpaused
<1> QED
  BY <1>1, <1>2 DEF d

LEMMA RenewIs ==
  ASSUME NEW t \in Toc
  PROVE  LET d == Renew(t) IN
         /\ d \in Toc /\ d.sock = "NOTCONNECTED" /\ Unpaused(d)
         /\ d.online = t.online /\ d.connected = t.connected /\ d.pc = t.pc
<1> DEFINE d == Renew(t)
<1>1. /\ d \in Toc /\ d.sock = "NOTCONNECTED" /\ d.mail = <<>> /\ d.frames = <<>>
      /\ d.online = t.online /\ d.connected = t.connected /\ d.pc = t.pc
  <2> DEFINE none == <<>>
             c == SockClose(t)
  <2>1. none \in Seq(Frame) /\ none \in Seq(Groups)
    OBVIOUS
  <2>2. d = [c EXCEPT !.connectstate = 0, !.gotconfig = FALSE, !.sync = "this",
                      !.frames = none, !.buddybuf = none]
    BY DEF Renew
  <2>3. c = [t EXCEPT !.sock = "NOTCONNECTED", !.mail = none, !.server = "off"]
    BY DEF SockClose
  <2> HIDE DEF none, c, d
  <2>4. /\ c \in Toc /\ c.sock = "NOTCONNECTED" /\ c.mail = none
        /\ c.online = t.online /\ c.connected = t.connected /\ c.pc = t.pc
    BY <2>1, <2>3 DEF Toc
  <2>5. /\ d \in Toc /\ d.sock = "NOTCONNECTED" /\ d.mail = none /\ d.frames = none
        /\ d.online = t.online /\ d.connected = t.connected /\ d.pc = t.pc
    <3> DEFINE e == [c EXCEPT !.connectstate = 0, !.gotconfig = FALSE, !.sync = "this"]
    <3>1. d = [e EXCEPT !.frames = none, !.buddybuf = none]
      BY <2>2
    <3>2. /\ e \in Toc /\ e.sock = "NOTCONNECTED" /\ e.mail = none
          /\ e.online = t.online /\ e.connected = t.connected /\ e.pc = t.pc
      <4> DEFINE z == [c EXCEPT !.connectstate = 0]
      <4>1. 0 \in 0..3
        OBVIOUS
      <4>2. e = [z EXCEPT !.gotconfig = FALSE, !.sync = "this"]
        OBVIOUS
      <4>3. /\ z \in Toc /\ z.sock = "NOTCONNECTED" /\ z.mail = none
            /\ z.online = t.online /\ z.connected = t.connected /\ z.pc = t.pc
        BY <2>4, <4>1 DEF Toc
      <4> HIDE DEF z, e
      <4> QED
        BY <4>2, <4>3 DEF Toc
    <3> HIDE DEF e
    <3> QED
      BY <2>1, <3>1, <3>2 DEF Toc
  <2> QED
    BY <2>5 DEF none, d
<1> HIDE DEF d
<1>2. Unpaused(d)
  BY <1>1 DEF Unpaused
<1> QED
  BY <1>1, <1>2 DEF d

LEMMA SockConnectIs ==
  ASSUME NEW t \in Toc, NEW resolved \in BOOLEAN
  PROVE  LET d == SockConnect(t, resolved) IN
         /\ d \in Toc /\ d.sock \in {"WAITING_SYNACK", "NOTCONNECTED"}
         /\ d.online = t.online /\ d.connected = t.connected /\ d.pc = t.pc
         /\ Unpaused(t) => Unpaused(d)
<1> DEFINE c == SockClose(t)
           old == [i \in DOMAIN t.frames |-> [t.frames[i] EXCEPT !.old = TRUE]]
           d == SockConnect(t, resolved)
<1>1. /\ c \in Toc /\ c.mail = <<>> /\ c.frames = t.frames
      /\ c.online = t.online /\ c.connected = t.connected /\ c.pc = t.pc
  BY SockCloseIs
<1>2. t.frames \in Seq(Frame)
  BY DEF Toc
<1>3. \A i \in DOMAIN t.frames : t.frames[i] \in Frame
  BY <1>2
<1>4. \A f \in Frame : [f EXCEPT !.old = TRUE] \in Frame /\ [f EXCEPT !.old = TRUE].kind = f.kind
  BY DEF Frame
<1>5. /\ old \in Seq(Frame) /\ DOMAIN old = DOMAIN t.frames
      /\ \A i \in DOMAIN old : old[i].kind = t.frames[i].kind
  <2>1. DOMAIN t.frames = 1..Len(t.frames) /\ Len(t.frames) \in Nat
    BY <1>2
  <2>2. old \in [1..Len(t.frames) -> Frame]
    BY <1>3, <1>4, <2>1
  <2>3. old \in Seq(Frame)
    BY <2>1, <2>2
  <2> QED
    BY <1>3, <1>4, <2>3
<1>6. d = [c EXCEPT !.sock = IF resolved THEN "WAITING_SYNACK" ELSE "NOTCONNECTED",
                    !.sync = "old", !.frames = old]
  BY <1>1 DEF SockConnect
<1> HIDE DEF c, old, d
<1>7. /\ d \in Toc /\ d.sock \in {"WAITING_SYNACK", "NOTCONNECTED"}
      /\ d.online = t.online /\ d.connected = t.connected /\ d.pc = t.pc
      /\ d.frames = old /\ d.mail = <<>>
  BY <1>1, <1>5, <1>6 DEF Toc
<1>8. Unpaused(t) => Unpaused(d)
  BY <1>5, <1>7 DEF Unpaused
<1> QED
  BY <1>7, <1>8 DEF d

LEMMA FtDisconnectIs ==
  ASSUME NEW t \in Toc
  PROVE  LET d == FtDisconnect(t) IN
         /\ d \in Toc /\ d.connected = "NOTCONNECTED"
         /\ d.sock = "NOTCONNECTED" \/ (t.connected = "NOTCONNECTED" /\ d.sock = t.sock)
         /\ d.online = t.online /\ d.pc = t.pc
         /\ Unpaused(t) => Unpaused(d)
<1>1. CASE t.connected = "NOTCONNECTED"
  BY <1>1 DEF FtDisconnect
<1>2. CASE t.connected # "NOTCONNECTED"
  <2> DEFINE c == Renew(t)
             b == [c.buddy EXCEPT !.uploaded = FALSE]
             d == FtDisconnect(t)
  <2>1. /\ c \in Toc /\ c.sock = "NOTCONNECTED" /\ Unpaused(c)
        /\ c.online = t.online /\ c.connected = t.connected /\ c.pc = t.pc
    BY RenewIs
  <2>2. d = [c EXCEPT !.connected = "NOTCONNECTED", !.buddy = b]
    BY <1>2 DEF FtDisconnect
  <2> HIDE DEF c, d
  <2>3. b \in [group : Groups \cup {NoGroup}, uploaded : BOOLEAN]
    BY <2>1 DEF Toc
  <2> HIDE DEF b
  <2>4. /\ d \in Toc /\ d.connected = "NOTCONNECTED" /\ d.sock = "NOTCONNECTED"
        /\ d.online = t.online /\ d.pc = t.pc /\ d.frames = c.frames /\ d.mail = c.mail
    BY <2>1, <2>2, <2>3 DEF Toc
  <2>5. Unpaused(d)
    BY <2>1, <2>4 DEF Unpaused
  <2> QED
    BY <2>4, <2>5 DEF d
<1> QED
  BY <1>1, <1>2

LEMMA UaConnectIs ==
  ASSUME NEW t \in Toc, NEW resolved \in BOOLEAN
  PROVE  LET d == UaConnect(t, resolved) IN
         /\ d \in Toc /\ d.pc = t.pc
         /\ Unpaused(t) => Unpaused(d)
         /\ IF t.online > 0 THEN d = t ELSE Off(d)
<1>1. CASE t.online > 0
  BY <1>1 DEF UaConnect
<1>2. CASE ~(t.online > 0)
  <2> DEFINE c == FtDisconnect(t)
             w == [c EXCEPT !.connected = "WAITING_SIGNON"]
             d == UaConnect(t, resolved)
  <2>1. d = SockConnect(w, resolved)
    BY <1>2 DEF UaConnect, FtSignon
  <2>2. /\ c \in Toc /\ c.online = t.online /\ c.pc = t.pc
        /\ Unpaused(t) => Unpaused(c)
    BY FtDisconnectIs
  <2> HIDE DEF c
  <2>3. /\ w \in Toc /\ w.connected = "WAITING_SIGNON" /\ w.online = t.online /\ w.pc = t.pc
        /\ w.frames = c.frames /\ w.mail = c.mail
    BY <2>2 DEF Toc
  <2> HIDE DEF w
  <2>4. Unpaused(t) => Unpaused(w)
    BY <2>2, <2>3 DEF Unpaused
  <2>5. /\ d \in Toc /\ d.sock \in {"WAITING_SYNACK", "NOTCONNECTED"}
        /\ d.online = w.online /\ d.connected = w.connected /\ d.pc = w.pc
        /\ Unpaused(w) => Unpaused(d)
    BY <2>1, <2>3, SockConnectIs
  <2> HIDE DEF d
  <2>6. Off(d)
    BY <1>2, <2>3, <2>5 DEF Off
  <2> QED
    BY <1>2, <2>3, <2>4, <2>5, <2>6 DEF d
<1> QED
  BY <1>1, <1>2

LEMMA CallbackDisconnectIs ==
  ASSUME NEW t \in Toc, NEW resolved \in BOOLEAN
  PROVE  LET d == CallbackDisconnect(t, resolved) IN
         /\ d \in Toc /\ d.pc = t.pc
         /\ Unpaused(t) => Unpaused(d)
         /\ t.sock = "NOTCONNECTED" /\ (t.online > 0 => t.connected = "ACTIVE") => Off(d)
<1> DEFINE b == [t.buddy EXCEPT !.uploaded = FALSE]
           c == [t EXCEPT !.buddy = b]
           l == [c EXCEPT !.online = -1]
           e == IF t.connected # "ACTIVE" THEN c
                ELSE IF t.auto THEN UaConnect(l, resolved)
                ELSE l
           d == CallbackDisconnect(t, resolved)
<1>1. d = [e EXCEPT !.connected = "NOTCONNECTED"]
  BY DEF CallbackDisconnect
<1>2. b \in [group : Groups \cup {NoGroup}, uploaded : BOOLEAN]
  BY DEF Toc
<1> HIDE DEF b
<1>3. /\ c \in Toc /\ c.online = t.online /\ c.sock = t.sock /\ c.pc = t.pc
      /\ c.frames = t.frames /\ c.mail = t.mail /\ c.connected = t.connected
  BY <1>2 DEF Toc
<1> HIDE DEF c
<1>4. /\ l \in Toc /\ l.online = -1 /\ l.sock = t.sock /\ l.pc = t.pc
      /\ l.frames = t.frames /\ l.mail = t.mail
  BY <1>3 DEF Toc
<1> HIDE DEF l
<1>5. (Unpaused(t) => Unpaused(c)) /\ (Unpaused(t) => Unpaused(l))
  BY <1>3, <1>4 DEF Unpaused
<1>6. /\ e \in Toc /\ e.pc = t.pc
      /\ Unpaused(t) => Unpaused(e)
      /\ t.sock = "NOTCONNECTED" => e.sock # "ACTIVE"
      /\ (t.online > 0 => t.connected = "ACTIVE") => ~(e.online > 0)
  <2>1. CASE t.connected # "ACTIVE"
    <3>1. e = c
      BY <2>1
    <3> QED
      BY <1>3, <1>5, <2>1, <3>1
  <2>2. CASE t.connected = "ACTIVE" /\ ~t.auto
    <3>1. e = l
      BY <2>2
    <3> QED
      BY <1>4, <1>5, <3>1
  <2>3. CASE t.connected = "ACTIVE" /\ t.auto
    <3>1. e = UaConnect(l, resolved)
      BY <2>3
    <3> HIDE DEF e
    <3>2. ~(l.online > 0)
      BY <1>4
    <3>3. e \in Toc /\ e.pc = l.pc /\ (Unpaused(l) => Unpaused(e)) /\ Off(e)
      BY <1>4, <3>1, <3>2, UaConnectIs
    <3> QED
      BY <1>4, <1>5, <3>3 DEF Off
  <2> QED
    BY <2>1, <2>2, <2>3
<1> HIDE DEF e, d
<1>7. /\ d \in Toc /\ d.pc = t.pc /\ d.connected = "NOTCONNECTED" /\ d.sock = e.sock
      /\ d.online = e.online /\ d.frames = e.frames /\ d.mail = e.mail
  BY <1>1, <1>6 DEF Toc
<1>8. Unpaused(t) => Unpaused(d)
  BY <1>6, <1>7 DEF Unpaused
<1>9. t.sock = "NOTCONNECTED" /\ (t.online > 0 => t.connected = "ACTIVE") => Off(d)
  BY <1>6, <1>7 DEF Off
<1> QED
  BY <1>7, <1>8, <1>9 DEF d

LEMMA ConnectFailedIs ==
  ASSUME NEW t \in Toc, NEW badUser \in BOOLEAN, NEW resolved \in BOOLEAN
  PROVE  LET d == CallbackConnectFailed(t, badUser, resolved) IN
         /\ d \in Toc /\ d.pc = t.pc
         /\ Unpaused(t) => Unpaused(d)
         /\ t.sock # "ACTIVE" /\ ~(t.online > 0) => Off(d)
<1> DEFINE f == [t EXCEPT !.connected = "NOTCONNECTED"]
           d == CallbackConnectFailed(t, badUser, resolved)
<1>1. d = f \/ d = UaConnect(f, resolved)
  BY DEF CallbackConnectFailed
<1>2. /\ f \in Toc /\ f.pc = t.pc /\ f.sock = t.sock /\ f.online = t.online
      /\ f.connected = "NOTCONNECTED" /\ f.frames = t.frames /\ f.mail = t.mail
  BY DEF Toc
<1> HIDE DEF f, d
<1>3. Unpaused(t) => Unpaused(f)
  BY <1>2 DEF Unpaused
<1>4. CASE d = f
  BY <1>2, <1>3, <1>4 DEF Off, d
<1>5. CASE d = UaConnect(f, resolved)
  <2>1. /\ d \in Toc /\ d.pc = f.pc
        /\ Unpaused(f) => Unpaused(d)
        /\ IF f.online > 0 THEN d = f ELSE Off(d)
    BY <1>2, <1>5, UaConnectIs
  <2> QED
    BY <1>2, <1>3, <2>1 DEF d
<1> QED
  BY <1>1, <1>4, <1>5
(* What is done to the lists. *)
ListsOnly(t, d) ==
  /\ SameLink(t, d) /\ d.frames = t.frames /\ d.mail = t.mail /\ d.server = t.server
  /\ d.connectstate = t.connectstate /\ d.auto = t.auto

Buddy == [group : Groups \cup {NoGroup}, uploaded : BOOLEAN]

LEMMA ListsOnlyChain ==
  \A t, d, e : ListsOnly(t, t) /\ (ListsOnly(t, d) /\ ListsOnly(d, e) => ListsOnly(t, e))
BY DEF ListsOnly, SameLink

LEMMA BuddyIs ==
  ASSUME NEW t \in Toc
  PROVE  /\ t.buddy \in Buddy
         /\ \A b \in Buddy : [t EXCEPT !.buddy = b] \in Toc /\ ListsOnly(t, [t EXCEPT !.buddy = b])
                             /\ [t EXCEPT !.buddy = b].buddy = b
         /\ \A u \in BOOLEAN : [t.buddy EXCEPT !.uploaded = u] \in Buddy
         /\ \A g \in Groups : [t.buddy EXCEPT !.group = g] \in Buddy
         /\ \A g \in Groups \cup {NoGroup}, u \in BOOLEAN : [group |-> g, uploaded |-> u] \in Buddy
<1>1. t.buddy \in Buddy
  BY DEF Toc, Buddy
<1>2. \A b \in Buddy : [t EXCEPT !.buddy = b] \in Toc /\ ListsOnly(t, [t EXCEPT !.buddy = b])
                       /\ [t EXCEPT !.buddy = b].buddy = b
  BY DEF Toc, Buddy, ListsOnly, SameLink
<1> QED
  BY <1>1, <1>2 DEF Buddy

LEMMA SendRemoveIs ==
  ASSUME NEW t \in Toc, NEW g
  PROVE  SendRemove(t, g) \in Toc /\ ListsOnly(t, SendRemove(t, g))
<1>1. CASE Reaches(t)
  <2> DEFINE s == t.stored \ {g}
  <2>1. s \in SUBSET Groups
    BY DEF Toc
  <2>2. SendRemove(t, g) = [t EXCEPT !.stored = s]
    BY <1>1 DEF SendRemove
  <2> HIDE DEF s
  <2> QED
    BY <2>1, <2>2 DEF Toc, ListsOnly, SameLink
<1>2. CASE ~Reaches(t)
  BY <1>2, ListsOnlyChain DEF SendRemove
<1> QED
  BY <1>1, <1>2

LEMMA PlacedIs ==
  ASSUME NEW t \in Toc, NEW g \in Groups
  PROVE  Placed(t, g) \in Toc /\ ListsOnly(t, Placed(t, g))
<1> DEFINE moved == IF t.connected # "NOTCONNECTED" /\ t.buddy.uploaded /\ t.buddy.group # g
                    THEN SendRemove(t, t.buddy.group) ELSE t
           b == [moved.buddy EXCEPT !.group = g]
           n == [group |-> g, uploaded |-> FALSE]
<1>1. moved \in Toc /\ ListsOnly(t, moved)
  BY SendRemoveIs, ListsOnlyChain
<1>2. Placed(t, g) = [moved EXCEPT !.buddy = b] \/ Placed(t, g) = [t EXCEPT !.buddy = n]
  BY DEF Placed
<1> HIDE DEF moved
<1>3. b \in Buddy /\ n \in Buddy
  BY <1>1, BuddyIs
<1> HIDE DEF b, n
<1>4. [moved EXCEPT !.buddy = b] \in Toc /\ ListsOnly(moved, [moved EXCEPT !.buddy = b])
  BY <1>1, <1>3, BuddyIs
<1>5. [t EXCEPT !.buddy = n] \in Toc /\ ListsOnly(t, [t EXCEPT !.buddy = n])
  BY <1>3, BuddyIs
<1> QED
  BY <1>1, <1>2, <1>4, <1>5, ListsOnlyChain

LEMMA AddBuddyIs ==
  ASSUME NEW t \in Toc, NEW g \in Groups
  PROVE  ImAddBuddy(t, g) \in Toc /\ ListsOnly(t, ImAddBuddy(t, g))
<1>1. CASE t.gotconfig
  <2> DEFINE q == Append(t.buddybuf, g)
  <2>1. q \in Seq(Groups)
    BY DEF Toc
  <2>2. ImAddBuddy(t, g) = [t EXCEPT !.buddybuf = q]
    BY <1>1 DEF ImAddBuddy
  <2> HIDE DEF q
  <2> QED
    BY <2>1, <2>2 DEF Toc, ListsOnly, SameLink
<1>2. CASE ~t.gotconfig
  BY <1>2, ListsOnlyChain DEF ImAddBuddy
<1> QED
  BY <1>1, <1>2

(* A buddy is marked as uploaded, or not. *)
Marked(t, u) == [t EXCEPT !.buddy.uploaded = u]

LEMMA MarkedIs ==
  ASSUME NEW t \in Toc, NEW u \in BOOLEAN
  PROVE  Marked(t, u) \in Toc /\ ListsOnly(t, Marked(t, u))
<1> DEFINE b == [t.buddy EXCEPT !.uploaded = u]
<1>1. b \in Buddy
  BY BuddyIs
<1>2. Marked(t, u) = [t EXCEPT !.buddy = b]
  BY DEF Marked
<1> HIDE DEF b
<1> QED
  BY <1>1, <1>2, BuddyIs

LEMMA BuddyAddedIs ==
  ASSUME NEW t \in Toc, NEW g \in Groups
  PROVE  CallbackBuddyAdded(t, g) \in Toc /\ ListsOnly(t, CallbackBuddyAdded(t, g))
<1> DEFINE c == Marked(t, FALSE)
           p == Placed(c, g)
<1>1. CallbackBuddyAdded(t, g) = Marked(p, TRUE)
  BY DEF CallbackBuddyAdded, Marked
<1>2. c \in Toc /\ ListsOnly(t, c)
  BY MarkedIs
<1> HIDE DEF c
<1>3. p \in Toc /\ ListsOnly(c, p)
  BY <1>2, PlacedIs
<1> HIDE DEF p
<1>4. Marked(p, TRUE) \in Toc /\ ListsOnly(p, Marked(p, TRUE))
  BY <1>3, MarkedIs
<1> QED
  BY <1>1, <1>2, <1>3, <1>4, ListsOnlyChain

LEMMA BuddyRemovedIs ==
  ASSUME NEW t \in Toc, NEW g
  PROVE  CallbackBuddyRemoved(t, g) \in Toc /\ ListsOnly(t, CallbackBuddyRemoved(t, g))
<1> DEFINE b == [group |-> NoGroup, uploaded |-> FALSE]
<1>1. b \in Buddy
  BY BuddyIs
<1> HIDE DEF b
<1>2. [t EXCEPT !.buddy = b] \in Toc /\ ListsOnly(t, [t EXCEPT !.buddy = b])
  BY <1>1, BuddyIs
<1> QED
  BY <1>2, ListsOnlyChain DEF CallbackBuddyRemoved, b

LEMMA UploadIs ==
  ASSUME NEW t \in Toc
  PROVE  Upload(t) \in Toc /\ ListsOnly(t, Upload(t))
<1>1. CASE Listed(t) /\ ~t.buddy.uploaded
  <2> DEFINE g == t.buddy.group
             a == ImAddBuddy(t, g)
  <2>1. g \in Groups
    BY <1>1 DEF Toc, Listed
  <2>2. Upload(t) = Marked(a, TRUE)
    BY <1>1 DEF Upload, Marked
  <2> HIDE DEF g
  <2>3. a \in Toc /\ ListsOnly(t, a)
    BY <2>1, AddBuddyIs
  <2> HIDE DEF a
  <2>4. Marked(a, TRUE) \in Toc /\ ListsOnly(a, Marked(a, TRUE))
    BY <2>3, MarkedIs
  <2> QED
    BY <2>2, <2>3, <2>4, ListsOnlyChain
<1>2. CASE ~(Listed(t) /\ ~t.buddy.uploaded)
  BY <1>2, ListsOnlyChain DEF Upload
<1> QED
  BY <1>1, <1>2

LEMMA FlushedIs ==
  ASSUME NEW t \in Toc
  PROVE  Flushed(t) \in Toc /\ ListsOnly(t, Flushed(t))
<1> DEFINE s == IF Reaches(t) THEN t.stored \cup ToSet(t.buddybuf) ELSE t.stored
           none == <<>>
<1>1. ToSet(t.buddybuf) \subseteq Groups
  <2>1. t.buddybuf \in Seq(Groups)
    BY DEF Toc
  <2> QED
    BY <2>1 DEF ToSet
<1>2. s \in SUBSET Groups /\ none \in Seq(Groups)
  BY <1>1 DEF Toc
<1>3. Flushed(t) = [t EXCEPT !.stored = s, !.buddybuf = none]
  BY DEF Flushed
<1> HIDE DEF s, none
<1> QED
  BY <1>2, <1>3 DEF Toc, ListsOnly, SameLink

LEMMA GotConfigIs ==
  ASSUME NEW t \in Toc, NEW groups \in SUBSET Groups
  PROVE  GotConfig(t, groups) \in Toc /\ ListsOnly(t, GotConfig(t, groups))
<1> DEFINE last  == CHOOSE g \in groups : TRUE
           taken == (groups \ {last}) \cup (IF Listed(t) /\ t.buddy.uploaded THEN {t.buddy.group} ELSE {})
           s == IF Reaches(t) THEN t.stored \ taken ELSE t.stored
           b == [group |-> last, uploaded |-> TRUE]
           c == IF groups = {} THEN t ELSE [t EXCEPT !.stored = s, !.buddy = b]
<1>1. GotConfig(t, groups) = [c EXCEPT !.gotconfig = TRUE]
  BY DEF GotConfig
<1>2. c \in Toc /\ ListsOnly(t, c)
  <2>1. CASE groups = {}
    BY <2>1, ListsOnlyChain
  <2>2. CASE groups # {}
    <3>1. last \in Groups
      BY <2>2
    <3>2. s \in SUBSET Groups
      BY DEF Toc
    <3>3. b \in Buddy
      BY <3>1, BuddyIs
    <3>4. c = [t EXCEPT !.stored = s, !.buddy = b]
      BY <2>2
    <3> HIDE DEF s, b, c
    <3> QED
      BY <3>2, <3>3, <3>4 DEF Toc, Buddy, ListsOnly, SameLink
  <2> QED
    BY <2>1, <2>2
<1> HIDE DEF c
<1>3. [c EXCEPT !.gotconfig = TRUE] \in Toc /\ ListsOnly(c, [c EXCEPT !.gotconfig = TRUE])
  BY <1>2 DEF Toc, ListsOnly, SameLink
<1> QED
  BY <1>1, <1>2, <1>3, ListsOnlyChain
-----------------------------------------------------------------------------
QuietWorld == world \cap {"pauses", "sendsFail"} = {}

LEMMA TocKept ==
  ASSUME TocInv, toc' \in Toc, UNCHANGED world,
         QuietWorld /\ (Off(toc) \/ On(toc)) /\ Unpaused(toc) /\ LoopFits(toc) =>
           (Off(toc') \/ On(toc')) /\ Unpaused(toc') /\ LoopFits(toc')
  PROVE  TocInv'
BY DEF TocInv, QuietWorld

LEMMA ListsKeep ==
  ASSUME TocInv, toc' \in Toc, UNCHANGED world, ListsOnly(toc, toc')
  PROVE  TocInv'
<1>1. /\ Off(toc) => Off(toc')
      /\ On(toc) => On(toc')
      /\ Unpaused(toc) => Unpaused(toc')
      /\ LoopFits(toc) => LoopFits(toc')
  BY DEF ListsOnly, SameLink, Off, On, Unpaused, LoopFits
<1> QED
  BY <1>1, TocKept

LEMMA UserConnectKeeps == TocInv /\ UserConnect => TocInv'
<1> SUFFICES ASSUME TocInv, UserConnect PROVE TocInv'
  OBVIOUS
<1>1. PICK resolved \in BOOLEAN : toc' = UaConnect(toc, resolved)
  BY DEF UserConnect
<1>2. toc \in Toc /\ UNCHANGED world /\ toc.pc = "select"
  BY DEF TocInv, UserConnect, Selecting
<1>3. /\ toc' \in Toc /\ toc'.pc = toc.pc
      /\ Unpaused(toc) => Unpaused(toc')
      /\ IF toc.online > 0 THEN toc' = toc ELSE Off(toc')
  BY <1>1, <1>2, UaConnectIs
<1>4. LoopFits(toc')
  BY <1>2, <1>3 DEF LoopFits
<1>5. Off(toc) \/ On(toc) => Off(toc') \/ On(toc')
  BY <1>3 DEF Off
<1> QED
  BY <1>2, <1>3, <1>4, <1>5, TocKept

LEMMA UserDisconnectKeeps == TocInv /\ UserDisconnect => TocInv'
<1> SUFFICES ASSUME TocInv, UserDisconnect PROVE TocInv'
  OBVIOUS
<1> DEFINE c == IF toc.online > 0 THEN FtDisconnect(toc) ELSE toc
<1>1. toc \in Toc /\ UNCHANGED world /\ toc.pc = "select" /\ toc' = [c EXCEPT !.online = 0]
  BY DEF TocInv, UserDisconnect, Selecting
<1>2. /\ c \in Toc /\ c.pc = toc.pc /\ (Unpaused(toc) => Unpaused(c))
      /\ Off(toc) \/ On(toc) => c.connected # "ACTIVE" /\ c.sock # "ACTIVE"
  <2>1. CASE toc.online > 0
    <3>1. c = FtDisconnect(toc)
      BY <2>1
    <3> HIDE DEF c
    <3> QED
      BY <1>1, <2>1, <3>1, FtDisconnectIs DEF Off, On
  <2>2. CASE ~(toc.online > 0)
    <3>1. c = toc
      BY <2>2
    <3> QED
      BY <1>1, <2>2, <3>1 DEF Off, On
  <2> QED
    BY <2>1, <2>2
<1> HIDE DEF c
<1>3. /\ toc' \in Toc /\ toc'.pc = "select" /\ toc'.online = 0 /\ toc'.connected = c.connected
      /\ toc'.sock = c.sock /\ toc'.frames = c.frames /\ toc'.mail = c.mail
  BY <1>1, <1>2 DEF Toc
<1>4. (Off(toc) \/ On(toc) => Off(toc')) /\ LoopFits(toc') /\ (Unpaused(toc) => Unpaused(toc'))
  BY <1>2, <1>3 DEF Off, LoopFits, Unpaused
<1> QED
  BY <1>1, <1>3, <1>4, TocKept

LEMMA UserAddKeeps == \A g \in Groups : TocInv /\ UserAddBuddy(g) => TocInv'
<1> SUFFICES ASSUME NEW g \in Groups, TocInv, UserAddBuddy(g) PROVE TocInv'
  OBVIOUS
<1> DEFINE p == Placed(toc, g)
           a == ImAddBuddy(p, g)
<1>1. toc \in Toc /\ UNCHANGED world /\ (toc' = p \/ toc' = Marked(a, TRUE))
  BY DEF TocInv, UserAddBuddy, Marked
<1>2. p \in Toc /\ ListsOnly(toc, p)
  BY <1>1, PlacedIs
<1> HIDE DEF p
<1>3. a \in Toc /\ ListsOnly(p, a)
  BY <1>2, AddBuddyIs
<1> HIDE DEF a
<1>4. Marked(a, TRUE) \in Toc /\ ListsOnly(a, Marked(a, TRUE))
  BY <1>3, MarkedIs
<1>5. ListsOnly(toc, a)
  BY <1>2, <1>3, ListsOnlyChain
<1>6. ListsOnly(toc, Marked(a, TRUE))
  BY <1>4, <1>5, ListsOnlyChain
<1>7. toc' \in Toc /\ ListsOnly(toc, toc')
  BY <1>1, <1>2, <1>4, <1>6
<1> QED
  BY <1>1, <1>7, ListsKeep

LEMMA UserRemoveKeeps == TocInv /\ UserRemoveBuddy => TocInv'
<1> SUFFICES ASSUME TocInv, UserRemoveBuddy PROVE TocInv'
  OBVIOUS
<1> DEFINE c == IF toc.connected # "NOTCONNECTED" THEN SendRemove(toc, toc.buddy.group) ELSE toc
           b == [group |-> NoGroup, uploaded |-> FALSE]
<1>1. toc \in Toc /\ UNCHANGED world /\ toc' = [c EXCEPT !.buddy = b]
  BY DEF TocInv, UserRemoveBuddy
<1>2. c \in Toc /\ ListsOnly(toc, c)
  BY <1>1, SendRemoveIs, ListsOnlyChain
<1>3. b \in Buddy
  BY <1>1, BuddyIs
<1> HIDE DEF b, c
<1>4. toc' \in Toc /\ ListsOnly(c, toc')
  BY <1>1, <1>2, <1>3, BuddyIs
<1> QED
  BY <1>1, <1>2, <1>4, ListsOnlyChain, ListsKeep

LEMMA SendFailsKeeps == TocInv /\ UserSendFails => TocInv'
<1> SUFFICES ASSUME TocInv, UserSendFails PROVE TocInv'
  OBVIOUS
<1>1. toc \in Toc /\ UNCHANGED world /\ toc' = SockClose(toc) /\ ~QuietWorld
  BY DEF TocInv, UserSendFails, QuietWorld
<1>2. toc' \in Toc
  BY <1>1, SockCloseIs
<1> QED
  BY <1>1, <1>2, TocKept

-----------------------------------------------------------------------------
Kinds == {"flap", "SIGN_ON", "ERROR", "NICK", "CONFIG2", "PAUSE", "INSERTED2", "DELETED2", "other",
          "keepalive", "bad"}
Phases == {"off", "greet", "greeted", "login", "signed", "half", "on", "refused", "lost"}

LEMMA NoteIs ==
  ASSUME NEW kind \in Kinds, NEW groups \in SUBSET Groups, kind = "INSERTED2" => groups # {}
  PROVE  Note(kind, groups) \in Frame /\ Note(kind, groups).kind = kind
BY DEF Note, Frame, Kinds

(* What is under way grows. *)
LEMMA MailGrows ==
  ASSUME NEW mail \in Seq(Frame), NEW f \in Frame
  PROVE  /\ Append(mail, f) \in Seq(Frame)
         /\ (\A i \in DOMAIN mail : mail[i].kind # "PAUSE") /\ f.kind # "PAUSE"
              => \A i \in DOMAIN Append(mail, f) : Append(mail, f)[i].kind # "PAUSE"
<1> DEFINE q == Append(mail, f)
           l == Len(mail)
<1>1. /\ q \in Seq(Frame) /\ DOMAIN q = 1..(l + 1) /\ q[l + 1] = f /\ l \in Nat
      /\ DOMAIN mail = 1..l /\ \A i \in 1..l : q[i] = mail[i]
  OBVIOUS
<1> HIDE DEF q, l
<1>2. \A i \in DOMAIN q : i = l + 1 \/ i \in DOMAIN mail
  BY <1>1
<1> QED
  BY <1>1, <1>2 DEF q

LEMMA MailJoined ==
  ASSUME NEW p \in Seq(Frame), NEW q \in Seq(Frame),
         \A i \in DOMAIN p : p[i].kind # "PAUSE", \A i \in DOMAIN q : q[i].kind # "PAUSE"
  PROVE  p \o q \in Seq(Frame) /\ \A i \in DOMAIN (p \o q) : (p \o q)[i].kind # "PAUSE"
<1> DEFINE j == p \o q
           l == Len(p)
           m == Len(q)
<1>1. /\ j \in Seq(Frame) /\ DOMAIN j = 1..(l + m) /\ l \in Nat /\ m \in Nat
      /\ DOMAIN p = 1..l /\ DOMAIN q = 1..m
      /\ \A i \in 1..l : j[i] = p[i]
      /\ \A i \in 1..m : j[l + i] = q[i]
  OBVIOUS
<1> HIDE DEF j, l, m
<1>2. ASSUME NEW i \in DOMAIN j PROVE j[i].kind # "PAUSE"
  <2>1. CASE i \in 1..l
    BY <1>1, <2>1
  <2>2. CASE i \notin 1..l
    <3>1. i - l \in 1..m /\ l + (i - l) = i
      BY <1>1, <2>2
    <3>2. j[i] = q[i - l]
      BY <1>1, <3>1
    <3> QED
      BY <1>1, <3>1, <3>2
  <2> QED
    BY <2>1, <2>2
<1> QED
  BY <1>1, <1>2 DEF j

LEMMA SendsKeep ==
  ASSUME TocInv, NEW kind \in Kinds, NEW groups \in SUBSET Groups, NEW phase \in Phases,
         Sends(kind, groups, phase), kind # "INSERTED2", kind = "PAUSE" => "pauses" \in world
  PROVE  TocInv'
<1> DEFINE f == Note(kind, groups)
           q == Append(toc.mail, f)
<1>1. toc \in Toc /\ UNCHANGED world /\ toc' = [toc EXCEPT !.mail = q, !.server = phase]
  BY DEF TocInv, Sends
<1>2. f \in Frame /\ f.kind = kind
  BY NoteIs
<1> HIDE DEF f
<1>3. toc.mail \in Seq(Frame)
  BY <1>1 DEF Toc
<1>4. /\ q \in Seq(Frame)
      /\ (\A i \in DOMAIN toc.mail : toc.mail[i].kind # "PAUSE") /\ f.kind # "PAUSE"
              => \A i \in DOMAIN q : q[i].kind # "PAUSE"
  BY <1>2, <1>3, MailGrows
<1> HIDE DEF q
<1>5. toc' \in Toc /\ SameLink(toc, toc') /\ toc'.frames = toc.frames /\ toc'.mail = q
  BY <1>1, <1>4 DEF Toc, SameLink, Phases
<1>6. /\ Off(toc) => Off(toc')
      /\ On(toc) => On(toc')
      /\ LoopFits(toc) => LoopFits(toc')
  BY <1>5 DEF SameLink, Off, On, LoopFits
<1>7. QuietWorld /\ Unpaused(toc) => Unpaused(toc')
  BY <1>2, <1>4, <1>5 DEF Unpaused, QuietWorld
<1> QED
  BY <1>1, <1>5, <1>6, <1>7, TocKept

LEMMA SignsOnKeeps == TocInv /\ SignsOn => TocInv'
<1> SUFFICES ASSUME TocInv, SignsOn PROVE TocInv'
  OBVIOUS
<1>1. toc.stored \in SUBSET Groups /\ {} \in SUBSET Groups
  BY DEF TocInv, Toc
<1>2. PICK kind \in {"flap", "SIGN_ON", "ERROR", "NICK", "CONFIG2"},
           groups \in {toc.stored, {}}, phase \in Phases : Sends(kind, groups, phase)
  BY DEF SignsOn, Phases
<1>3. kind \in Kinds /\ kind \notin {"PAUSE", "INSERTED2"} /\ groups \in SUBSET Groups
  BY <1>1 DEF Kinds
<1> QED
  BY <1>2, <1>3, SendsKeep

LEMMA ChattersKeeps == TocInv /\ Chatters => TocInv'
<1> SUFFICES ASSUME TocInv, Chatters PROVE TocInv'
  OBVIOUS
<1>1. PICK kind \in {"other", "keepalive", "bad", "PAUSE"}, phase \in Phases :
        Sends(kind, {}, phase) /\ (kind = "PAUSE" => "pauses" \in world)
  BY DEF Chatters, Phases
<1>2. kind \in Kinds /\ kind # "INSERTED2" /\ {} \in SUBSET Groups
  BY DEF Kinds
<1> QED
  BY <1>1, <1>2, SendsKeep

LEMMA ElsewhereKeeps == TocInv /\ ChangedElsewhere => TocInv'
<1> SUFFICES ASSUME TocInv, ChangedElsewhere PROVE TocInv'
  OBVIOUS
<1>1. toc \in Toc /\ UNCHANGED world /\ toc.stored \in SUBSET Groups
  BY DEF TocInv, ChangedElsewhere, Toc
<1>2. PICK new \in {{}} \cup {{g} : g \in Groups} :
        LET added == [i \in {1} |-> Note("INSERTED2", new)]
            gone  == [i \in {1} |-> Note("DELETED2", toc.stored)]
        IN  \E news \in {<<>>, gone} \cup (IF new = {} THEN {} ELSE {added, added \o gone, gone \o added}) :
              toc' = [toc EXCEPT !.stored = new, !.mail = news]
  BY DEF ChangedElsewhere
<1> DEFINE f == Note("INSERTED2", new)
           d == Note("DELETED2", toc.stored)
           one == <<f>>
           other == <<d>>
<1>3. /\ new \in SUBSET Groups
      /\ new # {} => f \in Frame /\ f.kind = "INSERTED2"
      /\ d \in Frame /\ d.kind = "DELETED2"
  <2>1. new \in SUBSET Groups /\ "INSERTED2" \in Kinds /\ "DELETED2" \in Kinds
    BY DEF Kinds
  <2> QED
    BY <1>1, <2>1, NoteIs
<1> HIDE DEF f, d
<1>4. [i \in {1} |-> f] = one /\ [i \in {1} |-> d] = other
  OBVIOUS
<1>5. PICK news \in {<<>>, other} \cup (IF new = {} THEN {} ELSE {one, one \o other, other \o one}) :
        toc' = [toc EXCEPT !.stored = new, !.mail = news]
  BY <1>2, <1>4 DEF f, d
<1>6. news \in Seq(Frame) /\ \A i \in DOMAIN news : news[i].kind # "PAUSE"
  <2>1. other \in Seq(Frame) /\ \A i \in DOMAIN other : other[i].kind # "PAUSE"
    BY <1>3
  <2>2. new # {} => one \in Seq(Frame) /\ \A i \in DOMAIN one : one[i].kind # "PAUSE"
    BY <1>3
  <2> HIDE DEF one, other
  <2>3. new # {} => /\ one \o other \in Seq(Frame) /\ \A i \in DOMAIN (one \o other) : (one \o other)[i].kind # "PAUSE"
                    /\ other \o one \in Seq(Frame) /\ \A i \in DOMAIN (other \o one) : (other \o one)[i].kind # "PAUSE"
    BY <2>1, <2>2, MailJoined
  <2>4. <<>> \in Seq(Frame) /\ \A i \in DOMAIN <<>> : <<>>[i].kind # "PAUSE"
    OBVIOUS
  <2> QED
    BY <1>5, <2>1, <2>2, <2>3, <2>4
<1> HIDE DEF one, other
<1>7. toc' \in Toc /\ SameLink(toc, toc') /\ toc'.frames = toc.frames /\ toc'.mail = news
  BY <1>1, <1>3, <1>5, <1>6 DEF Toc, SameLink
<1>8. /\ Off(toc) => Off(toc')
      /\ On(toc) => On(toc')
      /\ LoopFits(toc) => LoopFits(toc')
      /\ Unpaused(toc) => Unpaused(toc')
  BY <1>6, <1>7 DEF SameLink, Off, On, LoopFits, Unpaused
<1> QED
  BY <1>1, <1>7, <1>8, TocKept

LEMMA PeerLostKeeps == TocInv /\ PeerLost => TocInv'
<1> SUFFICES ASSUME TocInv, PeerLost PROVE TocInv'
  OBVIOUS
<1>1. toc \in Toc /\ UNCHANGED world /\ toc' = [toc EXCEPT !.server = "lost"]
  BY DEF TocInv, PeerLost
<1>2. toc' \in Toc /\ SameLink(toc, toc') /\ toc'.frames = toc.frames /\ toc'.mail = toc.mail
  BY <1>1 DEF Toc, SameLink
<1>3. /\ Off(toc) => Off(toc')
      /\ On(toc) => On(toc')
      /\ LoopFits(toc) => LoopFits(toc')
      /\ Unpaused(toc) => Unpaused(toc')
  BY <1>2 DEF SameLink, Off, On, LoopFits, Unpaused
<1> QED
  BY <1>1, <1>2, <1>3, TocKept

-----------------------------------------------------------------------------
(* What the driver does: with the socket, and with a frame. *)

(* The link is as good as it was. *)
Held(t, d) ==
  /\ Off(t) \/ On(t) => Off(d) \/ On(d)
  /\ Unpaused(t) => Unpaused(d)

LEMMA HeldIs ==
  /\ \A t, d : SameLink(t, d) /\ d.frames = t.frames /\ d.mail = t.mail => Held(t, d)
  /\ \A t, d, e : Held(t, d) /\ Held(d, e) => Held(t, e)
  /\ \A t, d : Off(d) /\ (Unpaused(t) => Unpaused(d)) => Held(t, d)
BY DEF Held, SameLink, Off, On, Unpaused

(* The loop over the frames ends. *)
Ended(t) == [t EXCEPT !.pc = "select"]

LEMMA EndedIs ==
  ASSUME NEW t \in Toc
  PROVE  /\ Ended(t) \in Toc /\ Held(t, Ended(t)) /\ LoopFits(Ended(t))
         /\ Off(t) => Off(Ended(t))
BY DEF Ended, Toc, Held, Off, On, Unpaused, LoopFits

LEMMA Returned ==
  ASSUME TocInv, NEW t \in Toc, Return(t),
         QuietWorld /\ (Off(toc) \/ On(toc)) /\ Unpaused(toc) /\ LoopFits(toc) =>
           (Off(t) \/ On(t)) /\ Unpaused(t)
  PROVE  TocInv'
<1>1. toc' = Ended(t) /\ UNCHANGED world
  BY DEF Return, Ended
<1>2. toc' \in Toc /\ Held(t, toc') /\ LoopFits(toc')
  BY <1>1, EndedIs
<1>3. QuietWorld /\ (Off(toc) \/ On(toc)) /\ Unpaused(toc) /\ LoopFits(toc) =>
           (Off(toc') \/ On(toc')) /\ Unpaused(toc') /\ LoopFits(toc')
  BY <1>2 DEF Held
<1> QED
  BY <1>1, <1>2, <1>3, TocKept

LEMMA PollErrorKeeps == TocInv /\ PollError => TocInv'
<1> SUFFICES ASSUME TocInv, PollError PROVE TocInv'
  OBVIOUS
<1> DEFINE f == Flushed(toc)
           c == SockClose(f)
<1>1. PICK resolved \in BOOLEAN :
        toc' = IF toc.sock = "ACTIVE" THEN CallbackDisconnect(c, resolved)
               ELSE CallbackConnectFailed(c, FALSE, resolved)
  BY DEF PollError
<1>2. toc \in Toc /\ UNCHANGED world /\ toc.pc = "select"
  BY DEF TocInv, PollError, Selecting
<1>3. f \in Toc /\ SameLink(toc, f) /\ f.frames = toc.frames /\ f.mail = toc.mail
  BY <1>2, FlushedIs DEF ListsOnly
<1> HIDE DEF f
<1>4. /\ c \in Toc /\ c.sock = "NOTCONNECTED" /\ c.frames = f.frames
      /\ c.online = f.online /\ c.connected = f.connected /\ c.pc = f.pc
      /\ Unpaused(f) => Unpaused(c)
  BY <1>3, SockCloseIs
<1> HIDE DEF c
<1>5. c.online = toc.online /\ c.connected = toc.connected /\ c.pc = "select"
      /\ (Unpaused(toc) => Unpaused(c))
  BY <1>2, <1>3, <1>4 DEF SameLink, Unpaused
<1>6. /\ toc' \in Toc /\ toc'.pc = "select" /\ (Unpaused(c) => Unpaused(toc'))
      /\ (Off(toc) \/ On(toc)) => Off(toc')
  <2>1. CASE toc.sock = "ACTIVE"
    <3>1. toc' = CallbackDisconnect(c, resolved)
      BY <1>1, <2>1
    <3>2. (Off(toc) \/ On(toc)) => c.connected = "ACTIVE"
      BY <1>5, <2>1 DEF Off, On
    <3> QED
      BY <1>4, <1>5, <3>1, <3>2, CallbackDisconnectIs
  <2>2. CASE toc.sock # "ACTIVE"
    <3>1. toc' = CallbackConnectFailed(c, FALSE, resolved) /\ FALSE \in BOOLEAN
      BY <1>1, <2>2
    <3>2. (Off(toc) \/ On(toc)) => ~(c.online > 0)
      BY <1>5, <2>2 DEF Off, On
    <3> QED
      BY <1>4, <1>5, <3>1, <3>2, ConnectFailedIs
  <2> QED
    BY <2>1, <2>2
<1>7. LoopFits(toc')
  BY <1>6 DEF LoopFits
<1> QED
  BY <1>2, <1>5, <1>6, <1>7, TocKept

LEMMA PollSynackKeeps == TocInv /\ PollSynack => TocInv'
<1> SUFFICES ASSUME TocInv, PollSynack PROVE TocInv'
  OBVIOUS
<1> DEFINE f == Flushed(toc)
           c == [f EXCEPT !.connectstate = 0]
<1>1. /\ toc \in Toc /\ UNCHANGED world /\ toc.pc = "select" /\ toc.sock = "WAITING_SYNACK"
      /\ toc' = [c EXCEPT !.sock = "WAITING_SIGNON", !.server = "greet", !.gotconfig = FALSE]
  BY DEF TocInv, PollSynack, Selecting
<1>2. f \in Toc /\ SameLink(toc, f) /\ f.frames = toc.frames /\ f.mail = toc.mail
  BY <1>1, FlushedIs DEF ListsOnly
<1> HIDE DEF f
<1>3. c \in Toc /\ SameLink(f, c) /\ c.frames = f.frames /\ c.mail = f.mail
  <2>1. 0 \in 0..3
    OBVIOUS
  <2> QED
    BY <1>2, <2>1 DEF Toc, SameLink
<1> HIDE DEF c
<1> DEFINE on == [c EXCEPT !.sock = "WAITING_SIGNON", !.server = "greet", !.gotconfig = FALSE]
<1>g. on \in Toc /\ on.sock = "WAITING_SIGNON" /\ on.frames = c.frames /\ on.mail = c.mail
      /\ on.connected = c.connected /\ on.online = c.online /\ on.pc = c.pc
  BY <1>3 DEF Toc
<1>h. toc' = on
  BY <1>1
<1> HIDE DEF on
<1>4. /\ toc' \in Toc /\ toc'.sock = "WAITING_SIGNON" /\ toc'.connected = toc.connected
      /\ toc'.online = toc.online /\ toc'.pc = "select" /\ toc'.frames = toc.frames
      /\ toc'.mail = toc.mail
  BY <1>1, <1>2, <1>3, <1>g, <1>h DEF SameLink
<1>5. /\ (Off(toc) \/ On(toc)) => Off(toc')
      /\ LoopFits(toc') /\ (Unpaused(toc) => Unpaused(toc'))
  BY <1>1, <1>4 DEF Off, On, LoopFits, Unpaused
<1> QED
  BY <1>1, <1>4, <1>5, TocKept

(* What is read is the first of what is under way. *)
LEMMA MailSplit ==
  ASSUME NEW q \in Seq(Frame), NEW n \in 1..Len(q)
  PROVE  /\ SubSeq(q, 1, n) \in Seq(Frame) /\ SubSeq(q, n + 1, Len(q)) \in Seq(Frame)
         /\ (\A i \in DOMAIN q : q[i].kind # "PAUSE") =>
              /\ \A i \in DOMAIN SubSeq(q, 1, n) : SubSeq(q, 1, n)[i].kind # "PAUSE"
              /\ \A i \in DOMAIN SubSeq(q, n + 1, Len(q)) : SubSeq(q, n + 1, Len(q))[i].kind # "PAUSE"
<1> DEFINE a == SubSeq(q, 1, n)
           b == SubSeq(q, n + 1, Len(q))
           l == Len(q)
<1>1. l \in Nat /\ DOMAIN q = 1..l /\ n \in 1..l
  OBVIOUS
<1>2. a \in Seq(Frame) /\ DOMAIN a = 1..n /\ \A i \in 1..n : a[i] = q[i]
  OBVIOUS
<1>3. b \in Seq(Frame) /\ DOMAIN b = 1..(l - n) /\ \A i \in 1..(l - n) : b[i] = q[n + i]
  OBVIOUS
<1> HIDE DEF a, b, l
<1>4. (\A i \in 1..n : i \in 1..l) /\ (\A i \in 1..(l - n) : n + i \in 1..l)
  BY <1>1
<1> QED
  BY <1>1, <1>2, <1>3, <1>4 DEF a, b, l

LEMMA PollDataKeeps == TocInv /\ PollData => TocInv'
<1> SUFFICES ASSUME TocInv, PollData PROVE TocInv'
  OBVIOUS
<1> DEFINE f == Flushed(toc)
<1>1. toc \in Toc /\ UNCHANGED world /\ toc.sock \in {"WAITING_SIGNON", "ACTIVE"}
  BY DEF TocInv, PollData
<1>2. f \in Toc /\ SameLink(toc, f) /\ f.frames = toc.frames /\ f.mail = toc.mail
  BY <1>1, FlushedIs DEF ListsOnly
<1>3. PICK n \in 1..Len(toc.mail) :
        toc' = [f EXCEPT !.frames = @ \o SubSeq(toc.mail, 1, n),
                         !.mail = SubSeq(@, n + 1, Len(@)),
                         !.pc = IF toc.sock = "ACTIVE" THEN "data" ELSE "connecting"]
  BY DEF PollData
<1> HIDE DEF f
<1> DEFINE a == SubSeq(toc.mail, 1, n)
           b == SubSeq(toc.mail, n + 1, Len(toc.mail))
           j == toc.frames \o a
<1>4. toc.mail \in Seq(Frame) /\ toc.frames \in Seq(Frame)
  BY <1>1 DEF Toc
<1>5. /\ a \in Seq(Frame) /\ b \in Seq(Frame)
      /\ Unpaused(toc) => /\ \A i \in DOMAIN a : a[i].kind # "PAUSE"
                          /\ \A i \in DOMAIN b : b[i].kind # "PAUSE"
  BY <1>4, MailSplit DEF Unpaused
<1>6. toc' = [f EXCEPT !.frames = j, !.mail = b,
                       !.pc = IF toc.sock = "ACTIVE" THEN "data" ELSE "connecting"]
  BY <1>2, <1>3 DEF Toc
<1> HIDE DEF a, b
<1>7. j \in Seq(Frame) /\ (Unpaused(toc) => \A i \in DOMAIN j : j[i].kind # "PAUSE")
  <2>1. j \in Seq(Frame)
    BY <1>4, <1>5
  <2>2. Unpaused(toc) => \A i \in DOMAIN j : j[i].kind # "PAUSE"
    BY <1>4, <1>5, MailJoined DEF Unpaused
  <2> QED
    BY <2>1, <2>2
<1> HIDE DEF j
<1>8. /\ toc' \in Toc /\ toc'.sock = toc.sock /\ toc'.connected = toc.connected
      /\ toc'.online = toc.online /\ toc'.frames = j /\ toc'.mail = b
      /\ toc'.pc = IF toc.sock = "ACTIVE" THEN "data" ELSE "connecting"
  BY <1>2, <1>5, <1>6, <1>7 DEF Toc, SameLink
<1>9. /\ (Off(toc) \/ On(toc)) => (Off(toc') \/ On(toc'))
      /\ LoopFits(toc') /\ (Unpaused(toc) => Unpaused(toc'))
  BY <1>1, <1>5, <1>7, <1>8 DEF Off, On, LoopFits, Unpaused
<1> QED
  BY <1>1, <1>8, <1>9, TocKept

LEMMA PollNothingKeeps == TocInv /\ PollNothing => TocInv'
<1> SUFFICES ASSUME TocInv, PollNothing PROVE TocInv'
  OBVIOUS
<1>1. toc \in Toc /\ UNCHANGED world /\ toc' = Flushed(toc)
  BY DEF TocInv, PollNothing
<1>2. toc' \in Toc /\ ListsOnly(toc, toc')
  BY <1>1, FlushedIs
<1> QED
  BY <1>1, <1>2, ListsKeep

LEMMA RestIs ==
  ASSUME toc \in Toc, toc.frames # <<>>
  PROVE  /\ Rest \in Toc /\ SameLink(toc, Rest) /\ Held(toc, Rest)
         /\ First \in Frame /\ (Unpaused(toc) => First.kind # "PAUSE")
         /\ Rest.gotconfig = toc.gotconfig
<1> DEFINE q == Tail(toc.frames)
           l == Len(toc.frames)
<1>1. toc.frames \in Seq(Frame)
  BY DEF Toc
<1>2. /\ q \in Seq(Frame) /\ First = toc.frames[1] /\ l \in Nat \ {0}
      /\ DOMAIN toc.frames = 1..l /\ DOMAIN q = 1..(l - 1)
      /\ \A i \in 1..(l - 1) : q[i] = toc.frames[i + 1]
  BY <1>1 DEF First
<1>3. Rest = [toc EXCEPT !.frames = q]
  BY DEF Rest
<1> HIDE DEF q, l
<1>4. 1 \in 1..l /\ \A i \in 1..(l - 1) : i + 1 \in 1..l
  BY <1>2
<1>5. /\ Rest \in Toc /\ SameLink(toc, Rest) /\ Rest.frames = q /\ Rest.mail = toc.mail
      /\ Rest.gotconfig = toc.gotconfig
  BY <1>2, <1>3 DEF Toc, SameLink
<1>6. First \in Frame /\ (Unpaused(toc) => First.kind # "PAUSE")
  BY <1>1, <1>2, <1>4 DEF Unpaused
<1>7. Unpaused(toc) => Unpaused(Rest)
  BY <1>2, <1>4, <1>5 DEF Unpaused
<1> QED
  BY <1>5, <1>6, <1>7 DEF Held, SameLink, Off, On

LEMMA NoFrameKeeps == TocInv /\ NoFrame => TocInv'
<1> SUFFICES ASSUME TocInv, NoFrame PROVE TocInv'
  OBVIOUS
<1>1. toc \in Toc /\ Return(toc)
  BY DEF TocInv, NoFrame
<1> QED
  BY <1>1, Returned

LEMMA OutOfStepKeeps == TocInv /\ FrameOutOfStep => TocInv'
<1> SUFFICES ASSUME TocInv, FrameOutOfStep PROVE TocInv'
  OBVIOUS
<1>1. toc \in Toc /\ toc.frames # <<>>
  BY DEF TocInv, FrameOutOfStep
<1> DEFINE c == Renew(Rest)
<1>2. PICK resolved \in BOOLEAN : Return(CallbackDisconnect(c, resolved))
  BY DEF FrameOutOfStep, InternalDisconnect
<1>3. Rest \in Toc /\ SameLink(toc, Rest)
  BY <1>1, RestIs
<1>4. /\ c \in Toc /\ c.sock = "NOTCONNECTED" /\ Unpaused(c)
      /\ c.online = Rest.online /\ c.connected = Rest.connected
  BY <1>3, RenewIs
<1> HIDE DEF c
<1> DEFINE d == CallbackDisconnect(c, resolved)
<1>5. d \in Toc /\ Unpaused(d) /\ ((c.online > 0 => c.connected = "ACTIVE") => Off(d))
  BY <1>4, CallbackDisconnectIs
<1> HIDE DEF d
<1>6. Off(toc) \/ On(toc) => Off(d)
  BY <1>3, <1>4, <1>5 DEF SameLink, Off, On
<1>7. Return(d)
  BY <1>2 DEF d
<1> QED
  BY <1>5, <1>6, <1>7, Returned

LEMMA CountedIs ==
  ASSUME toc \in Toc, toc.frames # <<>>
  PROVE  Counted \in Toc /\ SameLink(toc, Counted) /\ Held(toc, Counted)
<1>1. Rest \in Toc /\ SameLink(toc, Rest) /\ Held(toc, Rest) /\ First \in Frame
  BY RestIs
<1>2. PICK s \in {"this", "old"} : Counted = [Rest EXCEPT !.sync = s] \/ Counted = Rest
  BY DEF Counted
<1> DEFINE c == [Rest EXCEPT !.sync = s]
<1>3. c \in Toc /\ SameLink(Rest, c) /\ c.frames = Rest.frames /\ c.mail = Rest.mail
  BY <1>1 DEF Toc, SameLink
<1> HIDE DEF c
<1>4. Held(Rest, c)
  BY <1>3, HeldIs
<1>5. Held(toc, c) /\ SameLink(toc, c)
  BY <1>1, <1>3, <1>4, HeldIs DEF SameLink
<1> QED
  BY <1>1, <1>2, <1>3, <1>5 DEF c

LEMMA OtherTypeKeeps == TocInv /\ FrameOfOtherType => TocInv'
<1> SUFFICES ASSUME TocInv, FrameOfOtherType PROVE TocInv'
  OBVIOUS
<1>1. toc \in Toc /\ toc.frames # <<>> /\ Return(Counted)
  BY DEF TocInv, FrameOfOtherType
<1>2. Counted \in Toc /\ Held(toc, Counted)
  BY <1>1, CountedIs
<1> QED
  BY <1>1, <1>2, Returned DEF Held

(* A frame after which the loop goes on. *)
LEMMA Continued ==
  ASSUME TocInv, NEW t \in Toc, Continue(t), SameLink(toc, t),
         QuietWorld => (Unpaused(toc) => Unpaused(t))
  PROVE  TocInv'
<1>1. toc' = t /\ UNCHANGED world
  BY DEF Continue
<1>2. /\ Off(toc) => Off(t)
      /\ On(toc) => On(t)
      /\ LoopFits(toc) => LoopFits(t)
  BY DEF SameLink, Off, On, LoopFits
<1> QED
  BY <1>1, <1>2, TocKept

LEMMA GreetedKeeps ==
  ASSUME TocInv, toc.frames # <<>>,
         Continue([Counted EXCEPT !.connectstate = 1, !.server = IF @ = "greeted" THEN "login" ELSE @])
  PROVE  TocInv'
<1> DEFINE c == Counted
           e == [c EXCEPT !.connectstate = 1]
           v == IF c.server = "greeted" THEN "login" ELSE c.server
           t == [e EXCEPT !.server = v]
<1>1. toc \in Toc
  BY DEF TocInv
<1>2. c \in Toc /\ SameLink(toc, c) /\ Held(toc, c)
  BY <1>1, CountedIs
<1>3. Continue(t)
  BY <1>2 DEF Toc
<1> HIDE DEF c
<1>4. e \in Toc /\ SameLink(c, e) /\ e.frames = c.frames /\ e.mail = c.mail /\ e.server = c.server
  <2>1. 1 \in 0..3
    OBVIOUS
  <2> QED
    BY <1>2, <2>1 DEF Toc, SameLink
<1>5. v \in Phases
  BY <1>2 DEF Toc, Phases
<1> HIDE DEF e, v
<1>6. t \in Toc /\ SameLink(e, t) /\ t.frames = e.frames /\ t.mail = e.mail
  BY <1>4, <1>5 DEF Toc, SameLink, Phases
<1> HIDE DEF t
<1>7. SameLink(toc, t) /\ (Unpaused(toc) => Unpaused(t))
  BY <1>2, <1>4, <1>6 DEF SameLink, Held, Unpaused
<1> QED
  BY <1>3, <1>6, <1>7, Continued

LEMMA FailedKeeps ==
  ASSUME TocInv, toc.frames # <<>>, toc.pc = "connecting",
         NEW t \in {Rest, Counted}, NEW badUser \in BOOLEAN, NEW resolved \in BOOLEAN,
         Return(CallbackConnectFailed(t, badUser, resolved))
  PROVE  TocInv'
<1> DEFINE d == CallbackConnectFailed(t, badUser, resolved)
<1>1. toc \in Toc
  BY DEF TocInv
<1>2. t \in Toc /\ SameLink(toc, t) /\ Held(toc, t)
  BY <1>1, RestIs, CountedIs
<1>3. d \in Toc /\ (Unpaused(t) => Unpaused(d)) /\ (t.sock # "ACTIVE" /\ ~(t.online > 0) => Off(d))
  BY <1>2, ConnectFailedIs
<1>4. Return(d)
  OBVIOUS
<1> HIDE DEF d
<1>5. (Off(toc) \/ On(toc)) /\ LoopFits(toc) => Off(d)
  BY <1>2, <1>3 DEF SameLink, Off, On, LoopFits
<1> QED
  BY <1>2, <1>3, <1>4, <1>5, Returned DEF Held

LEMMA OnlineKeeps ==
  ASSUME TocInv, NEW t \in Toc, SameLink(toc, t), Unpaused(toc) => Unpaused(t),
         toc.pc = "connecting", Online(t)
  PROVE  TocInv'
<1> DEFINE w == [t EXCEPT !.connected = "WAITING_SIGNON"]
           ready == Upload(w)
           c == SockClose(ready)
           up == [ready EXCEPT !.sock = "ACTIVE", !.connected = "ACTIVE", !.online = 1]
           f == CallbackConnectFailed(c, FALSE, TRUE)
           x == [c EXCEPT !.fault = TRUE]
<1>1. /\ Return(up) \/ Return(f) \/ Return(x)
      /\ Return(f) \/ Return(x) => ~QuietWorld \/ Return(up)
  BY DEF Online, QuietWorld
<1>2. w \in Toc /\ w.frames = t.frames /\ w.mail = t.mail
  BY DEF Toc
<1> HIDE DEF w
<1>3. ready \in Toc /\ ready.frames = w.frames /\ ready.mail = w.mail
  BY <1>2, UploadIs DEF ListsOnly
<1> HIDE DEF ready
<1>4. c \in Toc
  BY <1>3, SockCloseIs
<1> HIDE DEF c
<1>5. up \in Toc /\ On(up) /\ up.frames = ready.frames /\ up.mail = ready.mail
  <2> DEFINE one == 1
  <2>1. one \in {-1, 0, 1} /\ one > 0
    OBVIOUS
  <2>2. up = [ready EXCEPT !.sock = "ACTIVE", !.connected = "ACTIVE", !.online = one]
    OBVIOUS
  <2> HIDE DEF one, up
  <2>3. /\ up \in Toc /\ up.sock = "ACTIVE" /\ up.connected = "ACTIVE" /\ up.online = one
        /\ up.frames = ready.frames /\ up.mail = ready.mail
    BY <1>3, <2>1, <2>2 DEF Toc
  <2> QED
    BY <2>1, <2>3 DEF On
<1>6. f \in Toc
  BY <1>4, ConnectFailedIs
<1>7. x \in Toc
  BY <1>4 DEF Toc
<1> HIDE DEF up, f, x
<1>8. Unpaused(toc) => Unpaused(up)
  BY <1>2, <1>3, <1>5 DEF Unpaused
<1>9. CASE Return(up)
  BY <1>5, <1>8, <1>9, Returned
<1>10. CASE Return(f) /\ ~QuietWorld
  BY <1>6, <1>10, Returned
<1>11. CASE Return(x) /\ ~QuietWorld
  BY <1>7, <1>11, Returned
<1> QED
  BY <1>1, <1>9, <1>10, <1>11

LEMMA ConnectingKeeps == TocInv /\ ConnectingFrame => TocInv'
<1> SUFFICES ASSUME TocInv, ConnectingFrame PROVE TocInv'
  OBVIOUS
<1>1. toc \in Toc /\ toc.frames # <<>> /\ toc.pc = "connecting"
  BY DEF TocInv, ConnectingFrame, Parsing
<1>2. /\ Rest \in Toc /\ SameLink(toc, Rest) /\ Held(toc, Rest)
      /\ First \in Frame /\ (Unpaused(toc) => First.kind # "PAUSE")
  BY <1>1, RestIs
<1>3. CASE toc.connectstate = 0
  <2>1. \/ Continue([Counted EXCEPT !.connectstate = 1, !.server = IF @ = "greeted" THEN "login" ELSE @])
        \/ Return(CallbackConnectFailed(Counted, FALSE, TRUE))
    <3>1. Greeted
      BY <1>3 DEF ConnectingFrame
    <3> QED
      BY <3>1 DEF Greeted
  <2>2. CASE Return(CallbackConnectFailed(Counted, FALSE, TRUE))
    <3>1. Counted \in {Rest, Counted} /\ FALSE \in BOOLEAN /\ TRUE \in BOOLEAN
      OBVIOUS
    <3> QED
      BY <1>1, <2>2, <3>1, FailedKeeps
  <2>3. CASE Continue([Counted EXCEPT !.connectstate = 1, !.server = IF @ = "greeted" THEN "login" ELSE @])
    BY <1>1, <2>3, GreetedKeeps
  <2> QED
    BY <2>1, <2>2, <2>3
<1>4. CASE toc.connectstate = 1
  <2> DEFINE t == [Rest EXCEPT !.connectstate = 2]
  <2>1. \/ Continue(t)
        \/ \E badUser \in BOOLEAN, resolved \in BOOLEAN :
             Return(CallbackConnectFailed(Rest, badUser, resolved))
    BY <1>4 DEF ConnectingFrame
  <2>2. t \in Toc /\ SameLink(Rest, t) /\ t.frames = Rest.frames /\ t.mail = Rest.mail
    <3>1. 2 \in 0..3
      OBVIOUS
    <3> QED
      BY <1>2, <3>1 DEF Toc, SameLink
  <2> HIDE DEF t
  <2>3. SameLink(toc, t) /\ (Unpaused(toc) => Unpaused(t))
    BY <1>2, <2>2 DEF SameLink, Held, Unpaused
  <2>4. CASE Continue(t)
    BY <2>2, <2>3, <2>4, Continued
  <2>5. ASSUME NEW badUser \in BOOLEAN, NEW resolved \in BOOLEAN,
               Return(CallbackConnectFailed(Rest, badUser, resolved))
        PROVE  TocInv'
    BY <1>1, <2>5, FailedKeeps
  <2> QED
    BY <2>1, <2>4, <2>5
<1>5. CASE toc.connectstate \in {2, 3}
  <2> DEFINE nick == [Rest EXCEPT !.connectstate = 3]
             t == IF First.kind = "NICK" THEN nick ELSE GotConfig(Rest, First.groups)
  <2>1. IF First.kind \notin {"NICK", "CONFIG2"}
        THEN Return(CallbackConnectFailed(Rest, FALSE, TRUE))
        ELSE Online(t) \/ Continue(t)
    <3>1. toc.connectstate # 0 /\ toc.connectstate # 1
      BY <1>5
    <3> QED
      BY <1>5, <3>1 DEF ConnectingFrame
  <2>2. CASE First.kind \notin {"NICK", "CONFIG2"}
    <3>1. Return(CallbackConnectFailed(Rest, FALSE, TRUE)) /\ FALSE \in BOOLEAN /\ TRUE \in BOOLEAN
      BY <2>1, <2>2
    <3> QED
      BY <1>1, <3>1, FailedKeeps
  <2>3. CASE First.kind \in {"NICK", "CONFIG2"}
    <3>1. nick \in Toc /\ SameLink(Rest, nick) /\ nick.frames = Rest.frames /\ nick.mail = Rest.mail
      <4>1. 3 \in 0..3
        OBVIOUS
      <4> QED
        BY <1>2, <4>1 DEF Toc, SameLink
    <3>2. First.groups \in SUBSET Groups
      BY <1>2 DEF Frame
    <3>3. /\ GotConfig(Rest, First.groups) \in Toc
          /\ SameLink(Rest, GotConfig(Rest, First.groups))
          /\ GotConfig(Rest, First.groups).frames = Rest.frames
          /\ GotConfig(Rest, First.groups).mail = Rest.mail
      BY <1>2, <3>2, GotConfigIs DEF ListsOnly
    <3> HIDE DEF nick
    <3>4. t \in Toc /\ SameLink(Rest, t) /\ t.frames = Rest.frames /\ t.mail = Rest.mail
      BY <3>1, <3>3
    <3>5. Online(t) \/ Continue(t)
      BY <2>1, <2>3
    <3> HIDE DEF t
    <3>6. SameLink(toc, t) /\ (Unpaused(toc) => Unpaused(t))
      BY <1>2, <3>4 DEF SameLink, Held, Unpaused
    <3>7. CASE Continue(t)
      BY <3>4, <3>6, <3>7, Continued
    <3>8. CASE Online(t)
      BY <1>1, <3>4, <3>6, <3>8, OnlineKeeps
    <3> QED
      BY <3>5, <3>7, <3>8
  <2> QED
    BY <2>2, <2>3
<1>6. toc.connectstate \in 0..3
  BY <1>1 DEF Toc
<1>7. toc.connectstate = 0 \/ toc.connectstate = 1 \/ toc.connectstate \in {2, 3}
  BY <1>6
<1> QED
  BY <1>3, <1>4, <1>5, <1>7

LEMMA DataKeeps == TocInv /\ DataFrame => TocInv'
<1> SUFFICES ASSUME TocInv, DataFrame PROVE TocInv'
  OBVIOUS
<1>1. toc \in Toc /\ toc.frames # <<>> /\ toc.pc = "data"
  BY DEF TocInv, DataFrame, Parsing
<1>2. /\ Rest \in Toc /\ SameLink(toc, Rest) /\ Held(toc, Rest)
      /\ First \in Frame /\ (Unpaused(toc) => First.kind # "PAUSE")
  BY <1>1, RestIs
<1> DEFINE g == CHOOSE g \in First.groups : TRUE
<1>3. CASE First.kind = "PAUSE"
  <2> DEFINE t == [Rest EXCEPT !.connectstate = 1, !.sock = "WAITING_SIGNON"]
  <2>1. toc' = t /\ UNCHANGED world
    BY <1>3 DEF DataFrame, Continue
  <2>2. 1 \in 0..3
    OBVIOUS
  <2>3. t \in Toc
    <3> DEFINE e == [Rest EXCEPT !.connectstate = 1]
    <3>1. e \in Toc
      BY <1>2, <2>2 DEF Toc
    <3>2. t = [e EXCEPT !.sock = "WAITING_SIGNON"]
      OBVIOUS
    <3> HIDE DEF e, t
    <3> QED
      BY <3>1, <3>2 DEF Toc
  <2> HIDE DEF t
  <2> QED
    BY <1>2, <1>3, <2>1, <2>3, TocKept
<1>4. CASE First.kind = "INSERTED2"
  <2>1. Continue(CallbackBuddyAdded(Rest, g))
    BY <1>4 DEF DataFrame
  <2>2. g \in Groups
    <3>1. First.groups \subseteq Groups /\ First.groups # {}
      BY <1>2, <1>4 DEF Frame
    <3> QED
      BY <3>1
  <2> HIDE DEF g
  <2> DEFINE t == CallbackBuddyAdded(Rest, g)
  <2>3. t \in Toc /\ ListsOnly(Rest, t)
    BY <1>2, <2>2, BuddyAddedIs
  <2> HIDE DEF t
  <2>4. SameLink(toc, t) /\ (Unpaused(toc) => Unpaused(t))
    BY <1>2, <2>3 DEF ListsOnly, SameLink, Held, Unpaused
  <2> QED
    BY <2>1, <2>3, <2>4, Continued DEF t
<1>5. CASE First.kind = "DELETED2"
  <2>1. Continue(CallbackBuddyRemoved(Rest, g))
    BY <1>5 DEF DataFrame
  <2> HIDE DEF g
  <2> DEFINE t == CallbackBuddyRemoved(Rest, g)
  <2>3. t \in Toc /\ ListsOnly(Rest, t)
    BY <1>2, BuddyRemovedIs
  <2> HIDE DEF t
  <2>4. SameLink(toc, t) /\ (Unpaused(toc) => Unpaused(t))
    BY <1>2, <2>3 DEF ListsOnly, SameLink, Held, Unpaused
  <2> QED
    BY <2>1, <2>3, <2>4, Continued DEF t
<1>6. CASE First.kind \notin {"PAUSE", "INSERTED2", "DELETED2"}
  <2>1. Continue(Rest)
    BY <1>6 DEF DataFrame
  <2> QED
    BY <1>2, <2>1, Continued DEF Held
<1> QED
  BY <1>3, <1>4, <1>5, <1>6

-----------------------------------------------------------------------------
LEMMA TocSteps == TocInv /\ TocNext => TocInv'
BY UserConnectKeeps, UserDisconnectKeeps, UserAddKeeps, UserRemoveKeeps, SendFailsKeeps,
   SignsOnKeeps, ChattersKeeps, ElsewhereKeeps, PeerLostKeeps,
   PollErrorKeeps, PollSynackKeeps, PollDataKeeps, PollNothingKeeps,
   NoFrameKeeps, OutOfStepKeeps, OtherTypeKeeps, ConnectingKeeps, DataKeeps
   DEF TocNext

LEMMA TocRests == TocInv /\ UNCHANGED tocVars => TocInv'
<1> SUFFICES ASSUME TocInv, UNCHANGED tocVars PROVE TocInv'
  OBVIOUS
<1>1. toc' = toc /\ world' = world
  BY DEF tocVars
<1> QED
  BY <1>1 DEF TocInv

LEMMA TocAre == TocInv => TocTypeOK /\ TocLayersAgree
BY DEF TocInv, TocTypeOK, TocLayersAgree, Off, On
-----------------------------------------------------------------------------
(* TOC2: the buddy list of the wrapper and the server's. *)

(* What the frames that are under way make of a session: the frame that has to come before
   CONFIG2; how far the sign-on with this connection's server has come, where 0 is that none
   of its frames has been seen; and where the buddy is. *)
Sight == [due : {"NICK", "nothing"}, level : 0..4, at : Groups \cup {NoGroup}]

IsNews(f) == f.kind \in {"INSERTED2", "DELETED2"}

NewsOf(f) == CHOOSE g \in f.groups : TRUE

AfterNews(g, f) ==
  IF f.kind = "INSERTED2" THEN NewsOf(f)
  ELSE IF f.kind = "DELETED2" /\ g = NewsOf(f) THEN NoGroup ELSE g

DueAfter(d, f) == IF f.kind = "SIGN_ON" THEN "NICK" ELSE IF f.kind = "NICK" THEN "nothing" ELSE d

(* In which order a server sends its frames. *)
Climbs(l, f, m) ==
  \/ f.old /\ l = 0 /\ m = 0
  \/ /\ ~f.old
     /\ \/ f.kind = "flap" /\ l = 0 /\ m = 1
        \/ f.kind = "SIGN_ON" /\ l = 1 /\ m = 2
        \/ f.kind = "NICK" /\ l = 2 /\ m = 3
        \/ f.kind = "CONFIG2" /\ l = 3 /\ m = 4
        \/ f.kind = "ERROR" /\ l = 1 /\ m = 1
        \/ f.kind \in {"INSERTED2", "DELETED2", "other"} /\ l = 4 /\ m = 4
        \/ f.kind \in {"keepalive", "bad"} /\ l # 0 /\ m = l

Shows(v, f, w) ==
  /\ w.due = DueAfter(v.due, f)
  /\ f.kind = "CONFIG2" => v.due = "nothing"
  /\ Climbs(v.level, f, w.level)
  /\ w.at = AfterNews(v.at, f)

Trail(v, s, x, h) ==
  /\ h[0] = v /\ h[Len(s)] = x
  /\ \A j \in 1..Len(s) : Shows(h[j - 1], s[j], h[j])

Brings(v, s, x) == \E h \in [0..Len(s) -> Sight] : Trail(v, s, x, h)

OnLine(t) == t.sock \in {"WAITING_SIGNON", "ACTIVE"}
Ahead(t)  == t.frames \o t.mail
InSync(t) == t.sock = "ACTIVE" /\ t.sync = "this"

Stage(t) ==
  IF t.connectstate = 0 \/ t.sync = "old" THEN 0 ELSE IF t.gotconfig THEN 4 ELSE t.connectstate

(* What the driver has seen, and what it will have when it has read everything. *)
SeenNow(t, v) ==
  /\ t.connectstate = 2 => v.due = "NICK"
  /\ t.sock = "WAITING_SYNACK" => v.level = 0
  /\ OnLine(t) => v.level = Stage(t)
  /\ InSync(t) => v.at = t.buddy.group

SeenLast(t, x) ==
  /\ t.sock = "WAITING_SYNACK" \/ t.server = "greet" => x.level = 0
  /\ t.server \in {"greeted", "login", "refused"} => x.level = 1
  /\ t.server = "signed" => x.level = 2
  /\ t.server = "half" => x.level = 3 /\ x.due = "nothing"
  /\ t.server = "on" => x.level = 4
  /\ InSync(t) /\ t.server = "on" => t.stored \cup ToSet(t.buddybuf) = {x.at} \ {NoGroup}

(* Until one is signed on there is no news, and the configuration is the server's. *)
Timely(f, stored) == ~f.old => ~IsNews(f) /\ (f.kind = "CONFIG2" => f.groups = stored)

Signing(t) ==
  t.sock = "WAITING_SIGNON" => \A i \in DOMAIN Ahead(t) : Timely(Ahead(t)[i], t.stored)

Newsless(s) == \A i \in DOMAIN s : ~IsNews(s[i])

Straight(t) ==
  /\ t.server = "off" <=> ~OnLine(t)
  /\ t.server = "off" => t.mail = <<>>
  /\ t.sock = "WAITING_SYNACK" => \A i \in DOMAIN t.frames : t.frames[i].old
  /\ t.sock = "WAITING_SIGNON" => ~t.gotconfig
  /\ t.sock = "ACTIVE" => t.connectstate = 3 /\ t.gotconfig /\ (Listed(t) => t.buddy.uploaded)
  /\ t.connected # "ACTIVE" => ~t.buddy.uploaded /\ t.buddybuf = <<>>

Accounted(t) == \E v, x \in Sight : Brings(v, Ahead(t), x) /\ SeenNow(t, v) /\ SeenLast(t, x)

ListInv(t) ==
  /\ Straight(t) /\ Signing(t) /\ Accounted(t)
  /\ InSync(t) /\ t.buddybuf # <<>> => Newsless(Ahead(t))

TocListInv == TocInv /\ (world = {} => ListInv(toc))
-----------------------------------------------------------------------------
(* Ways from what has been seen to what will have been. *)

LEMMA BringsHere ==
  ASSUME NEW v \in Sight
  PROVE  Brings(v, <<>>, v)
<1> DEFINE h == [j \in 0..Len(<<>>) |-> v]
<1>1. h \in [0..Len(<<>>) -> Sight] /\ h[0] = v /\ h[Len(<<>>)] = v
  OBVIOUS
<1> HIDE DEF h
<1>2. Trail(v, <<>>, v, h)
  BY <1>1 DEF Trail
<1> QED
  BY <1>1, <1>2 DEF Brings

LEMMA BringsNowhere ==
  ASSUME NEW v, NEW x, Brings(v, <<>>, x)
  PROVE  x = v
BY DEF Brings, Trail

LEMMA BringsOn ==
  ASSUME NEW s \in Seq(Frame), NEW f, NEW v, NEW x, NEW y \in Sight,
         Brings(v, s, x), Shows(x, f, y)
  PROVE  Brings(v, Append(s, f), y)
<1> DEFINE n == Len(s)
           more == Append(s, f)
<1>1. PICK h \in [0..n -> Sight] : Trail(v, s, x, h)
  BY DEF Brings
<1> DEFINE g == [j \in 0..(n + 1) |-> IF j <= n THEN h[j] ELSE y]
<1>2. n \in Nat /\ Len(more) = n + 1 /\ more[n + 1] = f /\ \A j \in 1..n : more[j] = s[j]
  OBVIOUS
<1>3. /\ g \in [0..(n + 1) -> Sight] /\ g[n + 1] = y
      /\ \A j \in 0..n : g[j] = h[j]
  BY <1>2
<1>4. h[0] = v /\ h[n] = x /\ \A j \in 1..n : Shows(h[j - 1], s[j], h[j])
  BY <1>1 DEF Trail
<1>5. \A j \in 1..n : j \in 0..n /\ j - 1 \in 0..n
  BY <1>2
<1>6. n + 1 \in 1..(n + 1) /\ (n + 1) - 1 = n /\ n \in 0..n /\ 0 \in 0..n
      /\ \A j \in 1..(n + 1) : j = n + 1 \/ j \in 1..n
  BY <1>2
<1> HIDE DEF g, n, more
<1>8. ASSUME NEW j \in 1..(n + 1) PROVE Shows(g[j - 1], more[j], g[j])
  <2>1. CASE j \in 1..n
    <3>1. g[j - 1] = h[j - 1] /\ g[j] = h[j] /\ more[j] = s[j]
      BY <2>1, <1>2, <1>3, <1>5
    <3> QED
      BY <2>1, <3>1, <1>4
  <2>2. CASE j = n + 1
    <3>1. j - 1 = n
      BY <2>2, <1>6
    <3>2. g[j - 1] = x /\ g[j] = y /\ more[j] = f
      BY <2>2, <3>1, <1>2, <1>3, <1>4, <1>6
    <3> QED
      BY <3>2
  <2> QED
    BY <2>1, <2>2, <1>6
<1>9. Trail(v, more, y, g)
  <2>1. g[0] = v /\ g[Len(more)] = y
    BY <1>2, <1>3, <1>4, <1>6
  <2>2. \A j \in 1..Len(more) : Shows(g[j - 1], more[j], g[j])
    BY <1>2, <1>8
  <2> QED
    BY <2>1, <2>2 DEF Trail
<1>10. g \in [0..Len(more) -> Sight]
  BY <1>2, <1>3
<1> QED
  BY <1>9, <1>10 DEF Brings, more

LEMMA BringsFrom ==
  ASSUME NEW s \in Seq(Frame), s # <<>>, NEW v, NEW x, Brings(v, s, x)
  PROVE  \E w \in Sight : Shows(v, Head(s), w) /\ Brings(w, Tail(s), x)
<1> DEFINE n == Len(s)
           rest == Tail(s)
<1>1. PICK h \in [0..n -> Sight] : Trail(v, s, x, h)
  BY DEF Brings
<1> DEFINE g == [j \in 0..(n - 1) |-> h[j + 1]]
<1>2. /\ n \in Nat /\ n # 0 /\ Len(rest) = n - 1 /\ s[1] = Head(s)
      /\ \A j \in 1..(n - 1) : rest[j] = s[j + 1]
  OBVIOUS
<1>3. h[0] = v /\ h[n] = x /\ \A j \in 1..n : Shows(h[j - 1], s[j], h[j])
  BY <1>1 DEF Trail
<1>4. /\ 1 \in 1..n /\ 1 - 1 = 0 /\ 1 \in 0..n /\ 0 \in 0..(n - 1) /\ 0 + 1 = 1
      /\ n - 1 \in 0..(n - 1) /\ (n - 1) + 1 = n
      /\ \A j \in 1..(n - 1) : /\ j \in 0..(n - 1) /\ j - 1 \in 0..(n - 1) /\ j + 1 \in 1..n
                               /\ (j - 1) + 1 = j /\ (j + 1) - 1 = j
      /\ \A j \in 0..(n - 1) : j + 1 \in 0..n
  BY <1>2
<1>5. Shows(v, Head(s), h[1]) /\ h[1] \in Sight
  BY <1>2, <1>3, <1>4
<1>6. g \in [0..(n - 1) -> Sight] /\ \A j \in 0..(n - 1) : g[j] = h[j + 1]
  BY <1>4
<1> HIDE DEF g, n, rest
<1>7. ASSUME NEW j \in 1..(n - 1) PROVE Shows(g[j - 1], rest[j], g[j])
  <2>1. g[j - 1] = h[j] /\ g[j] = h[j + 1] /\ rest[j] = s[j + 1]
    BY <1>2, <1>4, <1>6
  <2>2. Shows(h[(j + 1) - 1], s[j + 1], h[j + 1])
    BY <1>3, <1>4
  <2>3. (j + 1) - 1 = j
    BY <1>4
  <2> QED
    BY <2>1, <2>2, <2>3
<1>8. g[0] = h[1] /\ g[Len(rest)] = x
  BY <1>2, <1>3, <1>4, <1>6
<1>9. Trail(h[1], rest, x, g)
  BY <1>2, <1>7, <1>8 DEF Trail
<1>10. Brings(h[1], rest, x)
  BY <1>2, <1>6, <1>9 DEF Brings
<1> QED
  BY <1>5, <1>10 DEF rest

(* What is first brings somewhere, too. *)
LEMMA BringsPart ==
  ASSUME NEW p \in Seq(Frame), NEW q \in Seq(Frame), NEW v, NEW x, Brings(v, p \o q, x)
  PROVE  \E y \in Sight : Brings(v, p, y)
<1> DEFINE n == Len(p)
           s == p \o q
           m == Len(s)
<1>1. PICK h \in [0..m -> Sight] : Trail(v, s, x, h)
  BY DEF Brings
<1> DEFINE g == [j \in 0..n |-> h[j]]
<1>2. n \in Nat /\ m \in Nat /\ n <= m /\ \A j \in 1..n : s[j] = p[j]
  OBVIOUS
<1>3. h[0] = v /\ \A j \in 1..m : Shows(h[j - 1], s[j], h[j])
  BY <1>1 DEF Trail
<1>4. /\ 0 \in 0..n /\ n \in 0..n
      /\ \A j \in 1..n : j \in 1..m /\ j \in 0..n /\ j - 1 \in 0..n
      /\ \A j \in 0..n : j \in 0..m
  BY <1>2
<1>5. g \in [0..n -> Sight] /\ \A j \in 0..n : g[j] = h[j]
  BY <1>4
<1> HIDE DEF g, n, m, s
<1>6. \A j \in 1..n : Shows(g[j - 1], p[j], g[j])
  BY <1>2, <1>3, <1>4, <1>5
<1>7. Trail(v, p, g[n], g) /\ g[n] \in Sight
  BY <1>3, <1>4, <1>5, <1>6 DEF Trail, n
<1> QED
  BY <1>5, <1>7 DEF Brings, n

LEMMA ShowsNoNews ==
  ASSUME NEW v \in Sight, NEW w \in Sight, NEW f, Shows(v, f, w), ~IsNews(f)
  PROVE  /\ w.at = v.at
         /\ \A g \in Groups \cup {NoGroup} : Shows([v EXCEPT !.at = g], f, [w EXCEPT !.at = g])
<1>1. f.kind # "INSERTED2" /\ f.kind # "DELETED2"
  BY DEF IsNews
<1>2. \A g : AfterNews(g, f) = g
  BY <1>1 DEF AfterNews
<1> QED
  BY <1>2 DEF Shows, Sight

(* Without news, the buddy might as well be elsewhere. *)
LEMMA BringsNoNews ==
  ASSUME NEW s \in Seq(Frame), NEW v \in Sight, NEW x \in Sight, Brings(v, s, x), Newsless(s)
  PROVE  /\ x.at = v.at
         /\ \A g \in Groups \cup {NoGroup} : Brings([v EXCEPT !.at = g], s, [x EXCEPT !.at = g])
<1> DEFINE n == Len(s)
<1>1. PICK h \in [0..n -> Sight] : Trail(v, s, x, h)
  BY DEF Brings
<1>2. n \in Nat /\ DOMAIN s = 1..n
  OBVIOUS
<1>3. h[0] = v /\ h[n] = x /\ \A j \in 1..n : Shows(h[j - 1], s[j], h[j])
  BY <1>1 DEF Trail
<1>4. /\ 0 \in 0..n /\ n \in 0..n
      /\ \A j \in 1..n : j \in 0..n /\ j - 1 \in 0..n
      /\ \A j \in 0..(n - 1) : j + 1 \in 1..n /\ (j + 1) - 1 = j
  BY <1>2
<1> HIDE DEF n
<1>5. ASSUME NEW j \in 1..n
      PROVE  /\ h[j].at = h[j - 1].at
             /\ \A g \in Groups \cup {NoGroup} :
                  Shows([h[j - 1] EXCEPT !.at = g], s[j], [h[j] EXCEPT !.at = g])
  <2>1. h[j - 1] \in Sight /\ h[j] \in Sight /\ Shows(h[j - 1], s[j], h[j]) /\ ~IsNews(s[j])
    BY <1>2, <1>3, <1>4 DEF Newsless
  <2> QED
    BY <2>1, ShowsNoNews
<1>6. x.at = v.at
  <2> DEFINE G == {j \in 0..n : h[j].at = v.at}
  <2>1. 0 \in G
    BY <1>3, <1>4
  <2>2. ASSUME NEW j \in 0..(n - 1), j \in G PROVE j + 1 \in G
    <3>1. j + 1 \in 1..n /\ (j + 1) - 1 = j /\ j + 1 \in 0..n
      BY <1>4
    <3>2. h[j + 1].at = h[j].at
      BY <3>1, <1>5
    <3> QED
      BY <2>2, <3>1, <3>2
  <2>3. \A j \in 0..n : j \in G
    <3> HIDE DEF G
    <3> QED
      BY <1>2, <2>1, <2>2, UpTo
  <2> QED
    BY <1>3, <1>4, <2>3
<1>7. ASSUME NEW g \in Groups \cup {NoGroup} PROVE Brings([v EXCEPT !.at = g], s, [x EXCEPT !.at = g])
  <2> DEFINE k == [j \in 0..n |-> [h[j] EXCEPT !.at = g]]
             w == [v EXCEPT !.at = g]
             y == [x EXCEPT !.at = g]
  <2>1. k \in [0..n -> Sight]
    <3>1. \A u \in Sight : [u EXCEPT !.at = g] \in Sight
      BY DEF Sight
    <3> QED
      BY <3>1
  <2>2. k[0] = w /\ k[n] = y /\ \A j \in 1..n : Shows(k[j - 1], s[j], k[j])
    BY <1>3, <1>4, <1>5
  <2> HIDE DEF k, w, y
  <2>3. Trail(w, s, y, k)
    BY <2>2 DEF Trail, n
  <2> QED
    BY <2>1, <2>3 DEF Brings, n, w, y
<1> QED
  BY <1>6, <1>7

(* What comes after the server's first frame is its own. *)
LEMMA BringsNew ==
  ASSUME NEW s \in Seq(Frame), NEW v \in Sight, NEW x, Brings(v, s, x), v.level # 0
  PROVE  /\ \A i \in DOMAIN s : ~s[i].old
         /\ v.level = 4 => x.level = 4
<1> DEFINE n == Len(s)
<1>1. PICK h \in [0..n -> Sight] : Trail(v, s, x, h)
  BY DEF Brings
<1>2. n \in Nat /\ DOMAIN s = 1..n
  OBVIOUS
<1>3. h[0] = v /\ h[n] = x /\ \A j \in 1..n : Climbs(h[j - 1].level, s[j], h[j].level)
  BY <1>1 DEF Trail, Shows
<1>4. /\ 0 \in 0..n /\ n \in 0..n
      /\ \A j \in 1..n : j - 1 \in 0..n
      /\ \A j \in 0..(n - 1) : j + 1 \in 1..n /\ (j + 1) - 1 = j /\ j + 1 \in 0..n
  BY <1>2
<1> HIDE DEF n
<1>5. \A l, f, m : Climbs(l, f, m) /\ l # 0 => m # 0 /\ ~f.old /\ (l = 4 => m = 4)
  BY DEF Climbs
<1> DEFINE G == {j \in 0..n : h[j].level # 0 /\ (v.level = 4 => h[j].level = 4)}
<1>6. 0 \in G
  BY <1>3, <1>4
<1>7. ASSUME NEW j \in 0..(n - 1), j \in G PROVE j + 1 \in G
  BY <1>3, <1>4, <1>5, <1>7
<1>8. \A j \in 0..n : j \in G
  <2> HIDE DEF G
  <2> QED
    BY <1>2, <1>6, <1>7, UpTo
<1> QED
  BY <1>2, <1>3, <1>4, <1>5, <1>8

(* The same frames, when they are of an earlier connection. *)
LEMMA BringsOld ==
  ASSUME NEW s \in Seq(Frame), NEW q \in Seq(Frame), NEW v \in Sight, NEW x, Brings(v, s, x),
         Len(q) = Len(s), \A i \in DOMAIN q : q[i] = [s[i] EXCEPT !.old = TRUE]
  PROVE  \E y \in Sight : y.level = 0 /\ Brings([v EXCEPT !.level = 0], q, y)
<1> DEFINE n == Len(s)
<1>1. PICK h \in [0..n -> Sight] : Trail(v, s, x, h)
  BY DEF Brings
<1>2. n \in Nat /\ DOMAIN s = 1..n /\ DOMAIN q = 1..n /\ Len(q) = n /\ \A j \in 1..n : s[j] \in Frame
  OBVIOUS
<1>3. h[0] = v /\ \A j \in 1..n : Shows(h[j - 1], s[j], h[j])
  BY <1>1 DEF Trail
<1>4. 0 \in 0..n /\ n \in 0..n /\ \A j \in 1..n : j \in 0..n /\ j - 1 \in 0..n
  BY <1>2
<1> HIDE DEF n
<1> DEFINE k == [j \in 0..n |-> [h[j] EXCEPT !.level = 0]]
           w == [v EXCEPT !.level = 0]
<1>5. ASSUME NEW j \in 1..n PROVE Shows(k[j - 1], q[j], k[j])
  <2>1. k[j - 1] = [h[j - 1] EXCEPT !.level = 0] /\ k[j] = [h[j] EXCEPT !.level = 0]
    BY <1>4
  <2>2. h[j - 1] \in Sight /\ h[j] \in Sight
    BY <1>4
  <2> DEFINE a == k[j - 1]
             b == k[j]
             f == q[j]
  <2>3. /\ a.due = h[j - 1].due /\ a.at = h[j - 1].at /\ a.level = 0
        /\ b.due = h[j].due /\ b.at = h[j].at /\ b.level = 0
    BY <2>1, <2>2 DEF Sight
  <2>4. f.old /\ f.kind = s[j].kind /\ f.groups = s[j].groups
    BY <1>2 DEF Frame
  <2> HIDE DEF k, a, b, f
  <2>5. NewsOf(f) = NewsOf(s[j])
    BY <2>4 DEF NewsOf
  <2>6. Shows(h[j - 1], s[j], h[j])
    BY <1>3
  <2>7. Climbs(a.level, f, b.level)
    BY <2>3, <2>4 DEF Climbs
  <2>8. Shows(a, f, b)
    BY <2>3, <2>4, <2>5, <2>6, <2>7 DEF Shows, DueAfter, AfterNews
  <2> QED
    BY <2>8 DEF a, b, f
<1>6. k \in [0..n -> Sight] /\ k[0] = w /\ k[n].level = 0
  <2>1. \A u \in Sight : [u EXCEPT !.level = 0] \in Sight /\ [u EXCEPT !.level = 0].level = 0
    BY DEF Sight
  <2> QED
    BY <1>3, <1>4, <2>1
<1> HIDE DEF k, w
<1>7. Trail(w, q, k[n], k)
  BY <1>2, <1>5, <1>6 DEF Trail
<1>8. Brings(w, q, k[n]) /\ k[n] \in Sight
  BY <1>2, <1>4, <1>6, <1>7 DEF Brings
<1> QED
  BY <1>6, <1>8 DEF w
-----------------------------------------------------------------------------
(* What the wrapper and the socket's functions leave. *)

LEMMA AheadIs ==
  ASSUME NEW t \in Toc
  PROVE  /\ t.frames \in Seq(Frame) /\ t.mail \in Seq(Frame) /\ Ahead(t) \in Seq(Frame)
         /\ t.mail = <<>> => Ahead(t) = t.frames
<1>1. t.frames \in Seq(Frame) /\ t.mail \in Seq(Frame)
  BY DEF Toc
<1> DEFINE p == t.frames
           q == t.mail
<1>2. p \o q \in Seq(Frame) /\ p \o <<>> = p
  <2> HIDE DEF q
  <2>1. p \in Seq(Frame) /\ q \in Seq(Frame)
    BY <1>1 DEF q
  <2> HIDE DEF p
  <2> QED
    BY <2>1
<1> QED
  BY <1>1, <1>2 DEF Ahead

(* All that counts is as it was. *)
SameCourse(t, d) ==
  /\ d.sock = t.sock /\ d.connectstate = t.connectstate /\ d.gotconfig = t.gotconfig
  /\ d.sync = t.sync /\ d.frames = t.frames /\ d.mail = t.mail /\ d.server = t.server
  /\ d.stored = t.stored

SameLists(t, d) ==
  /\ SameCourse(t, d) /\ d.buddy = t.buddy /\ d.buddybuf = t.buddybuf
  /\ d.connected = "ACTIVE" <=> t.connected = "ACTIVE"

LEMMA SameListsKeep ==
  ASSUME NEW t, NEW d, ListInv(t), SameLists(t, d)
  PROVE  ListInv(d)
<1>1. Ahead(d) = Ahead(t) /\ (OnLine(d) <=> OnLine(t)) /\ (InSync(d) <=> InSync(t))
      /\ Stage(d) = Stage(t) /\ (Listed(d) <=> Listed(t))
  BY DEF SameLists, SameCourse, Ahead, OnLine, InSync, Stage, Listed
<1>2. Straight(d) /\ Signing(d) /\ (InSync(d) /\ d.buddybuf # <<>> => Newsless(Ahead(d)))
  BY <1>1 DEF ListInv, SameLists, SameCourse, Straight, Signing
<1>3. \A v, x : SeenNow(t, v) /\ SeenLast(t, x) => SeenNow(d, v) /\ SeenLast(d, x)
  BY <1>1 DEF SameLists, SameCourse, SeenNow, SeenLast
<1>4. Accounted(d)
  BY <1>1, <1>3 DEF ListInv, Accounted
<1> QED
  BY <1>2, <1>4 DEF ListInv

(* While one is not signed on, the list is the wrapper's alone. *)
LEMMA UnlistedKeep ==
  ASSUME NEW t, NEW d, ListInv(t), SameCourse(t, d), t.sock # "ACTIVE",
         ~d.buddy.uploaded, d.buddybuf = <<>>
  PROVE  ListInv(d)
<1>1. Ahead(d) = Ahead(t) /\ (OnLine(d) <=> OnLine(t)) /\ ~InSync(d) /\ ~InSync(t)
      /\ Stage(d) = Stage(t)
  BY DEF SameCourse, Ahead, OnLine, InSync, Stage
<1>2. Straight(d) /\ Signing(d)
  BY <1>1 DEF ListInv, SameCourse, Straight, Signing
<1>3. \A v, x : SeenNow(t, v) /\ SeenLast(t, x) => SeenNow(d, v) /\ SeenLast(d, x)
  BY <1>1 DEF SameCourse, SeenNow, SeenLast
<1>4. Accounted(d)
  BY <1>1, <1>3 DEF ListInv, Accounted
<1> QED
  BY <1>1, <1>2, <1>4 DEF ListInv

LEMMA SockCloseLeaves ==
  ASSUME NEW t \in Toc
  PROVE  LET d == SockClose(t) IN
         /\ d \in Toc /\ d.sock = "NOTCONNECTED" /\ d.mail = <<>> /\ d.server = "off"
         /\ d.frames = t.frames /\ d.connected = t.connected /\ d.connectstate = t.connectstate
         /\ d.gotconfig = t.gotconfig /\ d.sync = t.sync /\ d.buddy = t.buddy
         /\ d.buddybuf = t.buddybuf /\ d.stored = t.stored /\ d.online = t.online
<1> DEFINE none == <<>>
           d == SockClose(t)
<1>1. none \in Seq(Frame)
  OBVIOUS
<1>2. d = [t EXCEPT !.sock = "NOTCONNECTED", !.mail = none, !.server = "off"]
  BY DEF SockClose
<1> HIDE DEF none, d
<1>3. /\ d \in Toc /\ d.sock = "NOTCONNECTED" /\ d.mail = none /\ d.server = "off"
      /\ d.frames = t.frames /\ d.connected = t.connected /\ d.connectstate = t.connectstate
      /\ d.gotconfig = t.gotconfig /\ d.sync = t.sync /\ d.buddy = t.buddy
      /\ d.buddybuf = t.buddybuf /\ d.stored = t.stored /\ d.online = t.online
  BY <1>1, <1>2 DEF Toc
<1> QED
  BY <1>3 DEF none, d

LEMMA SockCloseLists ==
  ASSUME NEW t \in Toc, ListInv(t)
  PROVE  ListInv(SockClose(t))
<1> DEFINE d == SockClose(t)
<1>1. /\ d \in Toc /\ d.sock = "NOTCONNECTED" /\ d.mail = <<>> /\ d.server = "off"
      /\ d.frames = t.frames /\ d.connected = t.connected /\ d.connectstate = t.connectstate
      /\ d.gotconfig = t.gotconfig /\ d.sync = t.sync /\ d.buddy = t.buddy
      /\ d.buddybuf = t.buddybuf /\ d.stored = t.stored
  BY SockCloseLeaves
<1> HIDE DEF d
<1>2. Straight(d) /\ Signing(d) /\ ~InSync(d)
  BY <1>1 DEF ListInv, Straight, Signing, OnLine, InSync
<1>3. PICK v \in Sight, x \in Sight : Brings(v, Ahead(t), x) /\ SeenNow(t, v)
  BY DEF ListInv, Accounted
<1>4. PICK y \in Sight : Brings(v, t.frames, y)
  BY <1>3, AheadIs, BringsPart DEF Ahead
<1>5. Ahead(d) = t.frames
  BY <1>1, AheadIs
<1>6. SeenNow(d, v) /\ SeenLast(d, y)
  BY <1>1, <1>2, <1>3 DEF SeenNow, SeenLast, OnLine, InSync
<1>7. Accounted(d)
  BY <1>4, <1>5, <1>6 DEF Accounted
<1> QED
  BY <1>2, <1>7 DEF ListInv, d

LEMMA RenewLeaves ==
  ASSUME NEW t \in Toc
  PROVE  LET d == Renew(t) IN
         /\ d \in Toc /\ d.sock = "NOTCONNECTED" /\ d.mail = <<>> /\ d.server = "off"
         /\ d.frames = <<>> /\ d.connected = t.connected /\ d.connectstate = 0
         /\ d.buddy = t.buddy /\ d.buddybuf = <<>>
<1> DEFINE none == <<>>
           c == SockClose(t)
           e == [c EXCEPT !.connectstate = 0]
           k == [e EXCEPT !.gotconfig = FALSE, !.sync = "this"]
           d == Renew(t)
<1>1. none \in Seq(Frame) /\ none \in Seq(Groups)
  OBVIOUS
<1>2. d = [c EXCEPT !.connectstate = 0, !.gotconfig = FALSE, !.sync = "this",
                    !.frames = none, !.buddybuf = none]
  BY DEF Renew
<1>3. d = [k EXCEPT !.frames = none, !.buddybuf = none]
  BY <1>2
<1>4. /\ c \in Toc /\ c.sock = "NOTCONNECTED" /\ c.mail = <<>> /\ c.server = "off"
      /\ c.connected = t.connected /\ c.buddy = t.buddy
  BY SockCloseLeaves
<1> HIDE DEF none, c, d
<1>5. /\ e \in Toc /\ e.sock = "NOTCONNECTED" /\ e.mail = <<>> /\ e.server = "off"
      /\ e.connected = t.connected /\ e.buddy = t.buddy /\ e.connectstate = 0
  <2>1. 0 \in 0..3
    OBVIOUS
  <2> QED
    BY <1>4, <2>1 DEF Toc
<1>6. k = [e EXCEPT !.gotconfig = FALSE, !.sync = "this"]
  OBVIOUS
<1> HIDE DEF e, k
<1>7. /\ k \in Toc /\ k.sock = "NOTCONNECTED" /\ k.mail = <<>> /\ k.server = "off"
      /\ k.connected = t.connected /\ k.buddy = t.buddy /\ k.connectstate = 0
  BY <1>5, <1>6 DEF Toc
<1>8. /\ d \in Toc /\ d.sock = "NOTCONNECTED" /\ d.mail = <<>> /\ d.server = "off"
      /\ d.frames = none /\ d.connected = t.connected /\ d.connectstate = 0
      /\ d.buddy = t.buddy /\ d.buddybuf = none
  BY <1>1, <1>3, <1>7 DEF Toc
<1> QED
  BY <1>8 DEF none, d

LEMMA RenewLists ==
  ASSUME NEW t \in Toc, t.connected # "ACTIVE" => ~t.buddy.uploaded
  PROVE  ListInv(Renew(t))
<1> DEFINE d == Renew(t)
           v == [due |-> "nothing", level |-> 0, at |-> NoGroup]
<1>1. /\ d \in Toc /\ d.sock = "NOTCONNECTED" /\ d.mail = <<>> /\ d.server = "off"
      /\ d.frames = <<>> /\ d.connected = t.connected /\ d.connectstate = 0
      /\ d.buddy = t.buddy /\ d.buddybuf = <<>>
  BY RenewLeaves
<1> HIDE DEF d
<1>2. Straight(d) /\ Signing(d) /\ ~InSync(d)
  BY <1>1 DEF Straight, Signing, OnLine, InSync
<1>3. v \in Sight
  BY DEF Sight
<1> HIDE DEF v
<1>4. Brings(v, Ahead(d), v)
  BY <1>1, <1>3, AheadIs, BringsHere
<1>5. SeenNow(d, v) /\ SeenLast(d, v)
  BY <1>1, <1>2 DEF SeenNow, SeenLast, OnLine, InSync
<1> QED
  BY <1>2, <1>3, <1>4, <1>5 DEF ListInv, Accounted, d

LEMMA FtDisconnectLists ==
  ASSUME NEW t \in Toc, ListInv(t)
  PROVE  ListInv(FtDisconnect(t))
<1>1. CASE t.connected = "NOTCONNECTED"
  BY <1>1 DEF FtDisconnect
<1>2. CASE t.connected # "NOTCONNECTED"
  <2> DEFINE c == Renew(t)
             b == [c.buddy EXCEPT !.uploaded = FALSE]
             d == FtDisconnect(t)
  <2>1. c \in Toc /\ c.sock = "NOTCONNECTED" /\ c.buddybuf = <<>>
    BY RenewLeaves
  <2>2. ListInv(c)
    BY RenewLists DEF ListInv, Straight
  <2>3. d = [c EXCEPT !.connected = "NOTCONNECTED", !.buddy = b]
    BY <1>2 DEF FtDisconnect
  <2> HIDE DEF c, d
  <2>4. b \in [group : Groups \cup {NoGroup}, uploaded : BOOLEAN] /\ ~b.uploaded
    BY <2>1 DEF Toc
  <2> HIDE DEF b
  <2>5. SameCourse(c, d) /\ ~d.buddy.uploaded /\ d.buddybuf = <<>>
    BY <2>1, <2>3, <2>4 DEF Toc, SameCourse
  <2> QED
    BY <2>1, <2>2, <2>5, UnlistedKeep DEF d
<1> QED
  BY <1>1, <1>2

LEMMA SockConnectLists ==
  ASSUME NEW t \in Toc, NEW resolved \in BOOLEAN, ListInv(t)
  PROVE  ListInv(SockConnect(t, resolved))
<1> DEFINE c == SockClose(t)
           old == [i \in DOMAIN t.frames |-> [t.frames[i] EXCEPT !.old = TRUE]]
           d == SockConnect(t, resolved)
           to == IF resolved THEN "WAITING_SYNACK" ELSE "NOTCONNECTED"
<1>1. /\ c \in Toc /\ c.mail = <<>> /\ c.server = "off"
      /\ c.frames = t.frames /\ c.connected = t.connected /\ c.connectstate = t.connectstate
      /\ c.buddy = t.buddy /\ c.buddybuf = t.buddybuf
  BY SockCloseLeaves
<1>2. d = [c EXCEPT !.sock = to, !.sync = "old", !.frames = old]
  BY <1>1 DEF SockConnect
<1>3. d \in Toc
  BY SockConnectIs
<1>4. to \in {"WAITING_SYNACK", "NOTCONNECTED"}
  OBVIOUS
<1>5. /\ t.frames \in Seq(Frame) /\ old \in Seq(Frame) /\ Len(old) = Len(t.frames)
      /\ \A i \in DOMAIN old : old[i] = [t.frames[i] EXCEPT !.old = TRUE] /\ old[i].old
  <2>1. /\ t.frames \in Seq(Frame)
        /\ \A f \in Frame : [f EXCEPT !.old = TRUE] \in Frame /\ [f EXCEPT !.old = TRUE].old
    BY AheadIs DEF Frame
  <2> QED
    BY <2>1
<1> HIDE DEF c, d, old, to
<1>6. /\ d.sock \in {"WAITING_SYNACK", "NOTCONNECTED"} /\ d.mail = <<>> /\ d.server = "off"
      /\ d.frames = old /\ d.connected = t.connected /\ d.connectstate = t.connectstate
      /\ d.buddy = t.buddy /\ d.buddybuf = t.buddybuf
  BY <1>1, <1>2, <1>4 DEF Toc
<1>7. Straight(d) /\ Signing(d) /\ ~InSync(d)
  BY <1>5, <1>6 DEF ListInv, Straight, Signing, OnLine, InSync
<1>8. PICK v \in Sight, x \in Sight : Brings(v, Ahead(t), x) /\ SeenNow(t, v)
  BY DEF ListInv, Accounted
<1>9. PICK y \in Sight : Brings(v, t.frames, y)
  BY <1>8, AheadIs, BringsPart DEF Ahead
<1> DEFINE w == [v EXCEPT !.level = 0]
<1>10. w \in Sight /\ w.level = 0 /\ w.due = v.due
  BY DEF Sight
<1>11. PICK z \in Sight : z.level = 0 /\ Brings(w, old, z)
  BY <1>5, <1>9, BringsOld
<1> HIDE DEF w
<1>12. Ahead(d) = old
  BY <1>3, <1>6, AheadIs
<1>13. SeenNow(d, w) /\ SeenLast(d, z)
  BY <1>6, <1>7, <1>8, <1>10, <1>11 DEF SeenNow, SeenLast, OnLine, InSync
<1>14. Accounted(d)
  BY <1>10, <1>11, <1>12, <1>13 DEF Accounted
<1> QED
  BY <1>7, <1>14 DEF ListInv, d

LEMMA UaConnectLists ==
  ASSUME NEW t \in Toc, NEW resolved \in BOOLEAN, ListInv(t)
  PROVE  /\ ListInv(UaConnect(t, resolved))
         /\ ~(t.online > 0) => UaConnect(t, resolved).connected = "WAITING_SIGNON"
<1>1. CASE t.online > 0
  BY <1>1 DEF UaConnect
<1>2. CASE ~(t.online > 0)
  <2> DEFINE c == FtDisconnect(t)
             w == [c EXCEPT !.connected = "WAITING_SIGNON"]
             d == UaConnect(t, resolved)
  <2>1. d = SockConnect(w, resolved)
    BY <1>2 DEF UaConnect, FtSignon
  <2>2. c \in Toc /\ c.connected = "NOTCONNECTED" /\ ListInv(c)
    BY FtDisconnectIs, FtDisconnectLists
  <2> HIDE DEF c
  <2>3. w \in Toc /\ w.connected = "WAITING_SIGNON" /\ SameLists(c, w)
    BY <2>2 DEF Toc, SameLists, SameCourse
  <2> HIDE DEF w
  <2>4. ListInv(w)
    BY <2>2, <2>3, SameListsKeep
  <2>5. ListInv(d) /\ d.connected = w.connected
    BY <2>1, <2>3, <2>4, SockConnectLists, SockConnectIs
  <2> QED
    BY <2>3, <2>5
<1> QED
  BY <1>1, <1>2

LEMMA CallbackDisconnectLists ==
  ASSUME NEW t \in Toc, NEW resolved \in BOOLEAN, ListInv(t), t.sock = "NOTCONNECTED",
         t.buddybuf = <<>>
  PROVE  ListInv(CallbackDisconnect(t, resolved))
<1> DEFINE b == [t.buddy EXCEPT !.uploaded = FALSE]
           c == [t EXCEPT !.buddy = b]
           l == [c EXCEPT !.online = -1]
           e == IF t.connected # "ACTIVE" THEN c
                ELSE IF t.auto THEN UaConnect(l, resolved)
                ELSE l
           d == CallbackDisconnect(t, resolved)
<1>1. d = [e EXCEPT !.connected = "NOTCONNECTED"]
  BY DEF CallbackDisconnect
<1>2. b \in [group : Groups \cup {NoGroup}, uploaded : BOOLEAN] /\ ~b.uploaded
  BY DEF Toc
<1> HIDE DEF b
<1>3. c \in Toc /\ SameCourse(t, c) /\ ~c.buddy.uploaded /\ c.buddybuf = <<>>
  BY <1>2 DEF Toc, SameCourse
<1> HIDE DEF c
<1>4. l \in Toc /\ l.online = -1 /\ SameCourse(t, l) /\ ~l.buddy.uploaded /\ l.buddybuf = <<>>
  BY <1>3 DEF Toc, SameCourse
<1> HIDE DEF l
<1>5. ListInv(c) /\ ListInv(l)
  BY <1>3, <1>4, UnlistedKeep
<1>6. e \in Toc /\ ListInv(e) /\ e.sock # "ACTIVE" /\ ~e.buddy.uploaded /\ e.buddybuf = <<>>
  <2>1. CASE e = c
    BY <1>3, <1>5, <2>1 DEF SameCourse
  <2>2. CASE e = l
    BY <1>4, <1>5, <2>2 DEF SameCourse
  <2>3. CASE e = UaConnect(l, resolved)
    <3> HIDE DEF e
    <3>1. ~(l.online > 0)
      BY <1>4
    <3>2. e \in Toc /\ Off(e)
      BY <1>4, <2>3, <3>1, UaConnectIs
    <3>3. ListInv(e) /\ e.connected = "WAITING_SIGNON"
      BY <1>4, <1>5, <2>3, <3>1, UaConnectLists
    <3> QED
      BY <3>2, <3>3 DEF ListInv, Straight, Off
  <2> QED
    BY <2>1, <2>2, <2>3
<1> HIDE DEF e, d
<1>7. SameCourse(e, d) /\ ~d.buddy.uploaded /\ d.buddybuf = <<>>
  BY <1>1, <1>6 DEF Toc, SameCourse
<1> QED
  BY <1>6, <1>7, UnlistedKeep DEF d

LEMMA ConnectFailedLists ==
  ASSUME NEW t \in Toc, NEW badUser \in BOOLEAN, NEW resolved \in BOOLEAN, ListInv(t),
         t.connected # "ACTIVE"
  PROVE  ListInv(CallbackConnectFailed(t, badUser, resolved))
<1> DEFINE f == [t EXCEPT !.connected = "NOTCONNECTED"]
           d == CallbackConnectFailed(t, badUser, resolved)
<1>1. d = f \/ d = UaConnect(f, resolved)
  BY DEF CallbackConnectFailed
<1>2. f \in Toc /\ SameLists(t, f)
  BY DEF Toc, SameLists, SameCourse
<1> HIDE DEF f, d
<1>3. ListInv(f)
  BY <1>2, SameListsKeep
<1>4. ListInv(UaConnect(f, resolved))
  BY <1>2, <1>3, UaConnectLists
<1> QED
  BY <1>1, <1>3, <1>4 DEF d

LEMMA FlushedLeaves ==
  ASSUME NEW t \in Toc
  PROVE  LET d == Flushed(t) IN
         /\ d \in Toc /\ d.sock = t.sock /\ d.mail = t.mail /\ d.server = t.server
         /\ d.frames = t.frames /\ d.connected = t.connected /\ d.connectstate = t.connectstate
         /\ d.gotconfig = t.gotconfig /\ d.sync = t.sync /\ d.buddy = t.buddy
         /\ d.buddybuf = <<>> /\ d.online = t.online /\ d.fault = t.fault /\ d.pc = t.pc
         /\ d.stored = IF Reaches(t) THEN t.stored \cup ToSet(t.buddybuf) ELSE t.stored
<1> DEFINE s == IF Reaches(t) THEN t.stored \cup ToSet(t.buddybuf) ELSE t.stored
           none == <<>>
           d == Flushed(t)
<1>1. d \in Toc
  BY FlushedIs
<1>2. d = [t EXCEPT !.stored = s, !.buddybuf = none]
  BY DEF Flushed
<1> HIDE DEF s, none, d
<1>3. /\ d.sock = t.sock /\ d.mail = t.mail /\ d.server = t.server
      /\ d.frames = t.frames /\ d.connected = t.connected /\ d.connectstate = t.connectstate
      /\ d.gotconfig = t.gotconfig /\ d.sync = t.sync /\ d.buddy = t.buddy
      /\ d.buddybuf = none /\ d.online = t.online /\ d.fault = t.fault /\ d.pc = t.pc
      /\ d.stored = s
  BY <1>2 DEF Toc
<1> QED
  BY <1>1, <1>3 DEF s, none, d

LEMMA FlushedLists ==
  ASSUME NEW t \in Toc, ListInv(t), t.sock # "ACTIVE" => t.connected # "ACTIVE"
  PROVE  ListInv(Flushed(t))
<1> DEFINE d == Flushed(t)
<1>1. /\ d \in Toc /\ d.sock = t.sock /\ d.mail = t.mail /\ d.server = t.server
      /\ d.frames = t.frames /\ d.connected = t.connected /\ d.connectstate = t.connectstate
      /\ d.gotconfig = t.gotconfig /\ d.sync = t.sync /\ d.buddy = t.buddy
      /\ d.buddybuf = <<>>
      /\ d.stored = IF Reaches(t) THEN t.stored \cup ToSet(t.buddybuf) ELSE t.stored
  BY FlushedLeaves
<1> HIDE DEF d
<1>2. ToSet(<<>>) = {}
  BY DEF ToSet
<1>3. CASE t.sock # "ACTIVE"
  <2>1. t.buddybuf = <<>>
    BY <1>3 DEF ListInv, Straight
  <2>2. d.stored = t.stored
    BY <1>1, <1>2, <2>1
  <2>3. SameLists(t, d)
    BY <1>1, <2>1, <2>2 DEF SameLists, SameCourse
  <2> QED
    BY <2>3, SameListsKeep DEF d
<1>4. CASE t.sock = "ACTIVE"
  <2>1. Ahead(d) = Ahead(t) /\ (OnLine(d) <=> OnLine(t)) /\ (InSync(d) <=> InSync(t))
        /\ Stage(d) = Stage(t) /\ (Listed(d) <=> Listed(t))
    BY <1>1 DEF Ahead, OnLine, InSync, Stage, Listed
  <2>2. Straight(d) /\ Signing(d)
    BY <1>1, <1>4, <2>1 DEF ListInv, Straight, Signing
  <2>3. t.server = "on" => Reaches(t)
    BY <1>4 DEF Reaches
  <2>4. t.server = "on" => d.stored \cup ToSet(d.buddybuf) = t.stored \cup ToSet(t.buddybuf)
    BY <1>1, <1>2, <2>3
  <2>5. \A v, x : SeenNow(t, v) /\ SeenLast(t, x) => SeenNow(d, v) /\ SeenLast(d, x)
    BY <1>1, <2>1, <2>4 DEF SeenNow, SeenLast
  <2>6. Accounted(d)
    BY <2>1, <2>5 DEF ListInv, Accounted
  <2> QED
    BY <1>1, <2>2, <2>6 DEF ListInv, d
<1> QED
  BY <1>3, <1>4
-----------------------------------------------------------------------------
(* What the user does, and what the server sends. *)

(* In a world where nothing unusual happens. *)
Usual(t) ==
  /\ world = {} /\ t \in Toc /\ ListInv(t)
  /\ Off(t) \/ On(t)
  /\ Unpaused(t) /\ LoopFits(t)

LEMMA UserConnectLists == Usual(toc) /\ UserConnect => ListInv(toc')
BY UaConnectLists DEF Usual, UserConnect

LEMMA UserDisconnectLists == Usual(toc) /\ UserDisconnect => ListInv(toc')
<1> SUFFICES ASSUME Usual(toc), UserDisconnect PROVE ListInv(toc')
  OBVIOUS
<1> DEFINE c == IF toc.online > 0 THEN FtDisconnect(toc) ELSE toc
<1>1. toc \in Toc /\ ListInv(toc) /\ toc' = [c EXCEPT !.online = 0]
  BY DEF Usual, UserDisconnect
<1>2. c \in Toc /\ ListInv(c)
  BY <1>1, FtDisconnectIs, FtDisconnectLists
<1> HIDE DEF c
<1>3. SameLists(c, toc')
  BY <1>1, <1>2 DEF Toc, SameLists, SameCourse
<1> QED
  BY <1>2, <1>3, SameListsKeep

LEMMA NewslessIs ==
  ASSUME toc \in Toc, ~News(toc)
  PROVE  Newsless(Ahead(toc))
<1> DEFINE p == toc.frames
           q == toc.mail
           s == p \o q
           l == Len(p)
           m == Len(q)
<1>1. p \in Seq(Frame) /\ q \in Seq(Frame)
  BY AheadIs
<1>2. (\A i \in DOMAIN p : ~IsNews(p[i])) /\ (\A i \in DOMAIN q : ~IsNews(q[i]))
  BY <1>1 DEF News, IsNews, ToSet
<1> HIDE DEF p, q
<1>3. /\ DOMAIN s = 1..(l + m) /\ l \in Nat /\ m \in Nat
      /\ DOMAIN p = 1..l /\ DOMAIN q = 1..m
      /\ \A i \in 1..l : s[i] = p[i]
      /\ \A i \in 1..m : s[l + i] = q[i]
  BY <1>1
<1> HIDE DEF s, l, m
<1>4. ASSUME NEW i \in DOMAIN s PROVE ~IsNews(s[i])
  <2>1. CASE i \in 1..l
    BY <1>2, <1>3, <2>1
  <2>2. CASE i \notin 1..l
    <3>1. i - l \in 1..m /\ l + (i - l) = i
      BY <1>3, <2>2
    <3>2. s[i] = q[i - l]
      BY <1>3, <3>1
    <3> QED
      BY <1>2, <1>3, <3>1, <3>2
  <2> QED
    BY <2>1, <2>2
<1> QED
  BY <1>4 DEF Newsless, Ahead, s, p, q

(* The user puts the buddy elsewhere. *)
LEMMA RelistedKeep ==
  ASSUME NEW t \in Toc, NEW d \in Toc, ListInv(t), Newsless(Ahead(t)),
         t.sock = "ACTIVE", d.sock = t.sock, d.connectstate = t.connectstate,
         d.gotconfig = t.gotconfig, d.sync = t.sync, d.frames = t.frames, d.mail = t.mail,
         d.server = t.server, d.connected = "ACTIVE", Listed(d) => d.buddy.uploaded,
         t.server = "on" /\ t.stored \cup ToSet(t.buddybuf) = {t.buddy.group} \ {NoGroup} =>
           d.stored \cup ToSet(d.buddybuf) = {d.buddy.group} \ {NoGroup}
  PROVE  ListInv(d)
<1>1. Ahead(d) = Ahead(t) /\ (OnLine(d) <=> OnLine(t)) /\ (InSync(d) <=> InSync(t))
      /\ Stage(d) = Stage(t)
  BY DEF Ahead, OnLine, InSync, Stage
<1>2. Straight(d) /\ Signing(d)
  BY <1>1 DEF ListInv, Straight, Signing
<1>3. PICK v \in Sight, x \in Sight : Brings(v, Ahead(t), x) /\ SeenNow(t, v) /\ SeenLast(t, x)
  BY DEF ListInv, Accounted
<1>4. Accounted(d)
  <2>1. CASE ~InSync(t)
    <3>1. SeenNow(d, v) /\ SeenLast(d, x)
      BY <1>1, <1>3, <2>1 DEF SeenNow, SeenLast
    <3> QED
      BY <1>1, <1>3, <3>1 DEF Accounted
  <2>2. CASE InSync(t)
    <3> DEFINE g == d.buddy.group
               w == [v EXCEPT !.at = g]
               y == [x EXCEPT !.at = g]
    <3>1. g \in Groups \cup {NoGroup}
      BY DEF Toc
    <3>2. x.at = v.at /\ Brings(w, Ahead(t), y)
      BY <1>3, <3>1, AheadIs, BringsNoNews
    <3> HIDE DEF g
    <3>3. /\ w \in Sight /\ w.at = g /\ w.level = v.level /\ w.due = v.due
          /\ y \in Sight /\ y.at = g /\ y.level = x.level /\ y.due = x.due
      BY <3>1 DEF Sight
    <3> HIDE DEF w, y
    <3>4. v.at = t.buddy.group
      BY <1>3, <2>2 DEF SeenNow
    <3>5. t.server = "on" => t.stored \cup ToSet(t.buddybuf) = {t.buddy.group} \ {NoGroup}
      BY <1>3, <2>2, <3>2, <3>4 DEF SeenLast
    <3>6. t.server = "on" => d.stored \cup ToSet(d.buddybuf) = {g} \ {NoGroup}
      BY <3>5 DEF g
    <3>7. SeenNow(d, w)
      BY <1>1, <1>3, <3>3 DEF SeenNow, g
    <3>8. SeenLast(d, y)
      BY <1>1, <1>3, <3>3, <3>6 DEF SeenLast
    <3> QED
      BY <1>1, <3>2, <3>3, <3>7, <3>8 DEF Accounted
  <2> QED
    BY <2>1, <2>2
<1> QED
  BY <1>1, <1>2, <1>4 DEF ListInv

(* What is changed of the list, and what the server is told of it. *)
LEMMA RemoveLeaves ==
  ASSUME NEW t \in Toc, NEW g
  PROVE  LET d == SendRemove(t, g) IN
         /\ d \in Toc /\ d.sock = t.sock /\ d.mail = t.mail /\ d.server = t.server
         /\ d.frames = t.frames /\ d.connected = t.connected /\ d.connectstate = t.connectstate
         /\ d.gotconfig = t.gotconfig /\ d.sync = t.sync /\ d.buddy = t.buddy
         /\ d.buddybuf = t.buddybuf
         /\ d.stored = IF Reaches(t) THEN t.stored \ {g} ELSE t.stored
<1> DEFINE d == SendRemove(t, g)
           s == t.stored \ {g}
<1>1. CASE Reaches(t)
  <2>1. d = [t EXCEPT !.stored = s]
    BY <1>1 DEF SendRemove
  <2>2. d \in Toc
    BY SendRemoveIs
  <2> HIDE DEF d, s
  <2>3. /\ d.sock = t.sock /\ d.mail = t.mail /\ d.server = t.server
        /\ d.frames = t.frames /\ d.connected = t.connected /\ d.connectstate = t.connectstate
        /\ d.gotconfig = t.gotconfig /\ d.sync = t.sync /\ d.buddy = t.buddy
        /\ d.buddybuf = t.buddybuf /\ d.stored = s
    BY <2>1 DEF Toc
  <2> QED
    BY <1>1, <2>2, <2>3 DEF d, s
<1>2. CASE ~Reaches(t)
  BY <1>2 DEF SendRemove
<1> QED
  BY <1>1, <1>2

LEMMA PlacedLeaves ==
  ASSUME NEW t \in Toc, NEW g \in Groups
  PROVE  LET d == Placed(t, g)
             gone == t.connected # "NOTCONNECTED" /\ Listed(t) /\ t.buddy.uploaded /\ t.buddy.group # g
         IN
         /\ d \in Toc /\ d.sock = t.sock /\ d.mail = t.mail /\ d.server = t.server
         /\ d.frames = t.frames /\ d.connected = t.connected /\ d.connectstate = t.connectstate
         /\ d.gotconfig = t.gotconfig /\ d.sync = t.sync /\ d.buddybuf = t.buddybuf
         /\ d.buddy.group = g /\ d.buddy.uploaded = (Listed(t) /\ t.buddy.uploaded)
         /\ d.stored = IF gone /\ Reaches(t) THEN t.stored \ {t.buddy.group} ELSE t.stored
<1> DEFINE d == Placed(t, g)
           gone == t.connected # "NOTCONNECTED" /\ Listed(t) /\ t.buddy.uploaded /\ t.buddy.group # g
           moved == IF t.connected # "NOTCONNECTED" /\ t.buddy.uploaded /\ t.buddy.group # g
                    THEN SendRemove(t, t.buddy.group) ELSE t
           b == [moved.buddy EXCEPT !.group = g]
           n == [group |-> g, uploaded |-> FALSE]
<1>0. d \in Toc
  BY PlacedIs
<1>1. CASE Listed(t)
  <2>1. d = [moved EXCEPT !.buddy = b]
    BY <1>1 DEF Placed
  <2>2. /\ moved \in Toc /\ moved.sock = t.sock /\ moved.mail = t.mail /\ moved.server = t.server
        /\ moved.frames = t.frames /\ moved.connected = t.connected
        /\ moved.connectstate = t.connectstate
        /\ moved.gotconfig = t.gotconfig /\ moved.sync = t.sync /\ moved.buddy = t.buddy
        /\ moved.buddybuf = t.buddybuf
        /\ moved.stored = IF gone /\ Reaches(t) THEN t.stored \ {t.buddy.group} ELSE t.stored
    <3>1. CASE gone
      <4>1. moved = SendRemove(t, t.buddy.group)
        BY <3>1
      <4> HIDE DEF moved
      <4> QED
        BY <3>1, <4>1, RemoveLeaves
    <3>2. CASE ~gone
      <4>1. moved = t
        BY <1>1, <3>2
      <4> QED
        BY <3>2, <4>1
    <3> QED
      BY <3>1, <3>2
  <2> HIDE DEF moved, d
  <2>3. b.group = g /\ b.uploaded = t.buddy.uploaded /\ b \in Buddy
    BY <2>2, BuddyIs DEF Buddy
  <2> HIDE DEF b, gone
  <2>4. /\ d.sock = t.sock /\ d.mail = t.mail /\ d.server = t.server
        /\ d.frames = t.frames /\ d.connected = t.connected /\ d.connectstate = t.connectstate
        /\ d.gotconfig = t.gotconfig /\ d.sync = t.sync /\ d.buddybuf = t.buddybuf
        /\ d.buddy = b /\ d.stored = moved.stored
    BY <2>1, <2>2 DEF Toc
  <2>5. d.buddy.group = g /\ d.buddy.uploaded = t.buddy.uploaded
    BY <2>3, <2>4
  <2>6. (Listed(t) /\ t.buddy.uploaded) = t.buddy.uploaded
    BY <1>1 DEF Toc
  <2> QED
    BY <1>0, <2>2, <2>4, <2>5, <2>6 DEF d, gone
<1>2. CASE ~Listed(t)
  <2>1. d = [t EXCEPT !.buddy = n]
    BY <1>2 DEF Placed
  <2>2. n.group = g /\ n.uploaded = FALSE
    OBVIOUS
  <2> HIDE DEF d, n
  <2>3. /\ d.sock = t.sock /\ d.mail = t.mail /\ d.server = t.server
        /\ d.frames = t.frames /\ d.connected = t.connected /\ d.connectstate = t.connectstate
        /\ d.gotconfig = t.gotconfig /\ d.sync = t.sync /\ d.buddybuf = t.buddybuf
        /\ d.buddy = n /\ d.stored = t.stored
    BY <2>1 DEF Toc
  <2> QED
    BY <1>0, <1>2, <2>2, <2>3 DEF d
<1> QED
  BY <1>1, <1>2

LEMMA AddLeaves ==
  ASSUME NEW t \in Toc, NEW g \in Groups, NEW u \in BOOLEAN
  PROVE  LET d == Marked(ImAddBuddy(t, g), u) IN
         /\ d \in Toc /\ d.sock = t.sock /\ d.mail = t.mail /\ d.server = t.server
         /\ d.frames = t.frames /\ d.connected = t.connected /\ d.connectstate = t.connectstate
         /\ d.gotconfig = t.gotconfig /\ d.sync = t.sync /\ d.stored = t.stored
         /\ d.buddy.group = t.buddy.group /\ d.buddy.uploaded = u
         /\ d.buddybuf = IF t.gotconfig THEN Append(t.buddybuf, g) ELSE t.buddybuf
<1> DEFINE q == IF t.gotconfig THEN Append(t.buddybuf, g) ELSE t.buddybuf
           c == ImAddBuddy(t, g)
           b == [c.buddy EXCEPT !.uploaded = u]
           d == Marked(c, u)
<1>1. c \in Toc
  BY AddBuddyIs
<1>2. c = [t EXCEPT !.buddybuf = q]
  BY DEF ImAddBuddy, Toc
<1>3. d \in Toc
  BY <1>1, MarkedIs
<1>4. d = [c EXCEPT !.buddy = b]
  BY DEF Marked
<1> HIDE DEF q, c, d
<1>5. /\ c.sock = t.sock /\ c.mail = t.mail /\ c.server = t.server
      /\ c.frames = t.frames /\ c.connected = t.connected /\ c.connectstate = t.connectstate
      /\ c.gotconfig = t.gotconfig /\ c.sync = t.sync /\ c.stored = t.stored
      /\ c.buddy = t.buddy /\ c.buddybuf = q
  BY <1>2 DEF Toc
<1>6. b.group = t.buddy.group /\ b.uploaded = u
  BY <1>1, <1>5 DEF Toc
<1> HIDE DEF b
<1>7. /\ d.sock = t.sock /\ d.mail = t.mail /\ d.server = t.server
      /\ d.frames = t.frames /\ d.connected = t.connected /\ d.connectstate = t.connectstate
      /\ d.gotconfig = t.gotconfig /\ d.sync = t.sync /\ d.stored = t.stored
      /\ d.buddy = b /\ d.buddybuf = q
  BY <1>1, <1>4, <1>5 DEF Toc
<1> QED
  BY <1>3, <1>6, <1>7 DEF q, c, d

LEMMA OneBuffered ==
  ASSUME NEW g
  PROVE  ToSet(Append(<<>>, g)) = {g} /\ ToSet(<<>>) = {} /\ Append(<<>>, g) # <<>>
BY DEF ToSet

LEMMA UserAddLists == \A g \in Groups : Usual(toc) /\ UserAddBuddy(g) => ListInv(toc')
<1> SUFFICES ASSUME NEW g \in Groups, Usual(toc), UserAddBuddy(g) PROVE ListInv(toc')
  OBVIOUS
<1> USE Toc2Assumption
<1> DEFINE p == Placed(toc, g)
           gone == toc.connected # "NOTCONNECTED" /\ Listed(toc) /\ toc.buddy.uploaded
                     /\ toc.buddy.group # g
           a == Marked(ImAddBuddy(p, g), TRUE)
<1>1. /\ toc \in Toc /\ ListInv(toc) /\ (Off(toc) \/ On(toc))
      /\ toc.connected # "WAITING_SIGNON" /\ toc.buddybuf = <<>>
      /\ toc' = IF toc.connected = "NOTCONNECTED" THEN p ELSE a
  BY DEF Usual, UserAddBuddy, MayList, Marked
<1>2. Newsless(Ahead(toc))
  BY <1>1, NewslessIs DEF UserAddBuddy, MayList
<1>3. /\ p \in Toc /\ p.sock = toc.sock /\ p.mail = toc.mail /\ p.server = toc.server
      /\ p.frames = toc.frames /\ p.connected = toc.connected
      /\ p.connectstate = toc.connectstate
      /\ p.gotconfig = toc.gotconfig /\ p.sync = toc.sync /\ p.buddybuf = toc.buddybuf
      /\ p.buddy.group = g /\ p.buddy.uploaded = (Listed(toc) /\ toc.buddy.uploaded)
      /\ p.stored = IF gone /\ Reaches(toc) THEN toc.stored \ {toc.buddy.group} ELSE toc.stored
  BY <1>1, PlacedLeaves
<1> HIDE DEF p
<1>4. CASE toc.connected = "NOTCONNECTED"
  <2>1. toc' = p /\ p.stored = toc.stored
    BY <1>1, <1>3, <1>4
  <2>2. toc.sock # "ACTIVE" /\ ~toc.buddy.uploaded
    BY <1>1, <1>4 DEF Off, On, ListInv, Straight
  <2>3. SameCourse(toc, p) /\ ~p.buddy.uploaded /\ p.buddybuf = <<>>
    BY <1>1, <1>3, <2>1, <2>2 DEF SameCourse
  <2> QED
    BY <1>1, <2>1, <2>2, <2>3, UnlistedKeep
<1>5. CASE toc.connected # "NOTCONNECTED"
  <2>1. toc.connected = "ACTIVE" /\ toc.sock = "ACTIVE"
    BY <1>1, <1>5 DEF Toc, Off, On
  <2>2. toc.gotconfig /\ (Listed(toc) => toc.buddy.uploaded)
    BY <1>1, <2>1 DEF ListInv, Straight
  <2>3. /\ a \in Toc /\ a.sock = p.sock /\ a.mail = p.mail /\ a.server = p.server
        /\ a.frames = p.frames /\ a.connected = p.connected /\ a.connectstate = p.connectstate
        /\ a.gotconfig = p.gotconfig /\ a.sync = p.sync /\ a.stored = p.stored
        /\ a.buddy.group = p.buddy.group /\ a.buddy.uploaded = TRUE
        /\ a.buddybuf = IF p.gotconfig THEN Append(p.buddybuf, g) ELSE p.buddybuf
    <3>1. p \in Toc /\ TRUE \in BOOLEAN
      BY <1>3
    <3> QED
      BY <3>1, AddLeaves, Zenon
  <2> HIDE DEF a
  <2>4. ToSet(a.buddybuf) = {g} /\ ToSet(toc.buddybuf) = {}
    BY <1>1, <1>3, <2>2, <2>3, OneBuffered
  <2>5. ASSUME toc.server = "on", toc.stored \cup ToSet(toc.buddybuf) = {toc.buddy.group} \ {NoGroup}
        PROVE  a.stored \cup ToSet(a.buddybuf) = {a.buddy.group} \ {NoGroup}
    <3>1. Reaches(toc)
      BY <2>1, <2>5 DEF Reaches
    <3>2. toc.stored = {toc.buddy.group} \ {NoGroup}
      BY <2>4, <2>5
    <3>3. p.stored \cup {g} = {g}
      BY <1>3, <1>5, <2>2, <3>1, <3>2 DEF Listed
    <3> QED
      BY <1>3, <2>3, <2>4, <3>3
  <2>6. toc' = a
    BY <1>1, <1>5
  <2>7. ListInv(a)
    BY <1>1, <1>2, <1>3, <2>1, <2>3, <2>5, RelistedKeep
  <2> QED
    BY <2>6, <2>7
<1> QED
  BY <1>4, <1>5

LEMMA UserRemoveLists == Usual(toc) /\ UserRemoveBuddy => ListInv(toc')
<1> SUFFICES ASSUME Usual(toc), UserRemoveBuddy PROVE ListInv(toc')
  OBVIOUS
<1> DEFINE r == SendRemove(toc, toc.buddy.group)
           c == IF toc.connected # "NOTCONNECTED" THEN r ELSE toc
           b == [group |-> NoGroup, uploaded |-> FALSE]
<1>1. /\ toc \in Toc /\ ListInv(toc) /\ (Off(toc) \/ On(toc))
      /\ toc.connected # "WAITING_SIGNON" /\ toc.buddybuf = <<>>
      /\ toc' = [c EXCEPT !.buddy = b]
  BY DEF Usual, UserRemoveBuddy, MayList
<1>2. Newsless(Ahead(toc))
  BY <1>1, NewslessIs DEF UserRemoveBuddy, MayList
<1>3. /\ c \in Toc /\ c.sock = toc.sock /\ c.mail = toc.mail /\ c.server = toc.server
      /\ c.frames = toc.frames /\ c.connected = toc.connected
      /\ c.connectstate = toc.connectstate
      /\ c.gotconfig = toc.gotconfig /\ c.sync = toc.sync /\ c.buddybuf = toc.buddybuf
      /\ c.stored = IF toc.connected # "NOTCONNECTED" /\ Reaches(toc)
                    THEN toc.stored \ {toc.buddy.group} ELSE toc.stored
  <2>1. CASE toc.connected # "NOTCONNECTED"
    <3>1. c = r
      BY <2>1
    <3> HIDE DEF c
    <3> QED
      BY <1>1, <2>1, <3>1, RemoveLeaves
  <2>2. CASE toc.connected = "NOTCONNECTED"
    <3>1. c = toc
      BY <2>2
    <3> QED
      BY <1>1, <2>2, <3>1
  <2> QED
    BY <2>1, <2>2
<1>4. b \in Buddy /\ b.group = NoGroup /\ ~b.uploaded
  BY <1>1, BuddyIs
<1> HIDE DEF b, c
<1>5. /\ toc' \in Toc /\ toc'.sock = toc.sock /\ toc'.mail = toc.mail
      /\ toc'.server = toc.server /\ toc'.frames = toc.frames /\ toc'.connected = toc.connected
      /\ toc'.connectstate = toc.connectstate /\ toc'.gotconfig = toc.gotconfig
      /\ toc'.sync = toc.sync /\ toc'.buddybuf = <<>> /\ toc'.stored = c.stored /\ toc'.buddy = b
  BY <1>1, <1>3, <1>4 DEF Toc, Buddy
<1>6. CASE toc.connected = "NOTCONNECTED"
  <2>1. toc.sock # "ACTIVE"
    BY <1>1, <1>6 DEF Off, On
  <2>2. SameCourse(toc, toc') /\ ~toc'.buddy.uploaded
    BY <1>3, <1>4, <1>5, <1>6 DEF SameCourse
  <2> QED
    BY <1>1, <1>5, <2>1, <2>2, UnlistedKeep
<1>7. CASE toc.connected # "NOTCONNECTED"
  <2>1. toc.connected = "ACTIVE" /\ toc.sock = "ACTIVE"
    BY <1>1, <1>7 DEF Toc, Off, On
  <2>2. ~Listed(toc') /\ toc'.buddy.group = NoGroup
    BY <1>4, <1>5 DEF Listed
  <2>3. ASSUME toc.server = "on", toc.stored \cup ToSet(toc.buddybuf) = {toc.buddy.group} \ {NoGroup}
        PROVE  toc'.stored \cup ToSet(toc'.buddybuf) = {toc'.buddy.group} \ {NoGroup}
    <3>1. Reaches(toc)
      BY <2>1, <2>3 DEF Reaches
    <3>2. ToSet(toc.buddybuf) = {} /\ ToSet(toc'.buddybuf) = {}
      BY <1>1, <1>5, OneBuffered
    <3>3. toc'.stored = {}
      BY <1>3, <1>5, <1>7, <2>3, <3>1, <3>2
    <3> QED
      BY <2>2, <3>2, <3>3
  <2> DEFINE d == toc'
  <2>4. /\ d \in Toc /\ d.sock = toc.sock /\ d.mail = toc.mail
        /\ d.server = toc.server /\ d.frames = toc.frames /\ d.connected = toc.connected
        /\ d.connectstate = toc.connectstate /\ d.gotconfig = toc.gotconfig
        /\ d.sync = toc.sync /\ ~Listed(d)
        /\ toc.server = "on" /\ toc.stored \cup ToSet(toc.buddybuf) = {toc.buddy.group} \ {NoGroup}
             => d.stored \cup ToSet(d.buddybuf) = {d.buddy.group} \ {NoGroup}
    BY <1>5, <2>2, <2>3
  <2> HIDE DEF d
  <2>5. ListInv(d)
    BY <1>1, <1>2, <2>1, <2>4, RelistedKeep
  <2> QED
    BY <2>5 DEF d
<1> QED
  BY <1>6, <1>7

LEMMA PeerLostLists == Usual(toc) /\ PeerLost => ListInv(toc')
<1> SUFFICES ASSUME Usual(toc), PeerLost PROVE ListInv(toc')
  OBVIOUS
<1> DEFINE d == toc'
<1>1. /\ toc \in Toc /\ ListInv(toc) /\ toc.server # "off"
      /\ d = [toc EXCEPT !.server = "lost"]
  BY DEF Usual, PeerLost
<1> HIDE DEF d
<1>2. /\ d.sock = toc.sock /\ d.mail = toc.mail /\ d.server = "lost" /\ d.frames = toc.frames
      /\ d.connected = toc.connected /\ d.connectstate = toc.connectstate
      /\ d.gotconfig = toc.gotconfig /\ d.sync = toc.sync /\ d.buddybuf = toc.buddybuf
      /\ d.buddy = toc.buddy /\ d.stored = toc.stored
  BY <1>1 DEF Toc
<1>3. Ahead(d) = Ahead(toc) /\ (OnLine(d) <=> OnLine(toc)) /\ (InSync(d) <=> InSync(toc))
      /\ Stage(d) = Stage(toc) /\ (Listed(d) <=> Listed(toc))
  BY <1>2 DEF Ahead, OnLine, InSync, Stage, Listed
<1>4. Straight(d) /\ Signing(d)
  BY <1>1, <1>2, <1>3 DEF ListInv, Straight, Signing
<1>5. \A v, x : SeenNow(toc, v) /\ SeenLast(toc, x) => SeenNow(d, v) /\ SeenLast(d, x)
  BY <1>2, <1>3 DEF SeenNow, SeenLast
<1>6. Accounted(d)
  BY <1>1, <1>3, <1>5 DEF ListInv, Accounted
<1> QED
  BY <1>1, <1>2, <1>3, <1>4, <1>6 DEF ListInv, d

(* The server sends a frame. *)
LEMMA AheadGrows ==
  ASSUME NEW t \in Toc, NEW d \in Toc, NEW f \in Frame,
         d.frames = t.frames, d.mail = Append(t.mail, f)
  PROVE  Ahead(d) = Append(Ahead(t), f)
<1> DEFINE p == t.frames
           q == t.mail
<1>1. p \in Seq(Frame) /\ q \in Seq(Frame)
  BY AheadIs
<1> HIDE DEF p, q
<1>2. p \o Append(q, f) = Append(p \o q, f)
  BY <1>1
<1> QED
  BY <1>2 DEF Ahead, p, q

LEMMA EachOfMore ==
  ASSUME NEW s \in Seq(Frame), NEW f, NEW i \in DOMAIN Append(s, f)
  PROVE  Append(s, f)[i] = f \/ (i \in DOMAIN s /\ Append(s, f)[i] = s[i])
OBVIOUS

LEMMA GrownKeeps ==
  ASSUME NEW t \in Toc, NEW d \in Toc, NEW f \in Frame, ListInv(t), OnLine(t),
         d.server \notin {"off", "greet"}, d.frames = t.frames, d.mail = Append(t.mail, f),
         d.sock = t.sock, d.connected = t.connected, d.connectstate = t.connectstate,
         d.gotconfig = t.gotconfig, d.sync = t.sync, d.buddy = t.buddy, d.buddybuf = t.buddybuf,
         d.stored = t.stored,
         t.sock = "WAITING_SIGNON" => Timely(f, t.stored),
         InSync(t) /\ t.buddybuf # <<>> => ~IsNews(f),
         \A v, x \in Sight : SeenNow(t, v) /\ Brings(v, Ahead(t), x) /\ SeenLast(t, x) =>
           \E y \in Sight : Shows(x, f, y) /\ SeenLast(d, y)
  PROVE  ListInv(d)
<1>1. Ahead(d) = Append(Ahead(t), f) /\ Ahead(t) \in Seq(Frame)
  BY AheadGrows, AheadIs
<1>2. (OnLine(d) <=> OnLine(t)) /\ (InSync(d) <=> InSync(t))
      /\ Stage(d) = Stage(t) /\ (Listed(d) <=> Listed(t))
  BY DEF OnLine, InSync, Stage, Listed
<1>3. Straight(d)
  BY <1>2 DEF ListInv, Straight
<1>4. Signing(d)
  <2>1. SUFFICES ASSUME d.sock = "WAITING_SIGNON", NEW i \in DOMAIN Ahead(d)
                 PROVE  Timely(Ahead(d)[i], d.stored)
    BY DEF Signing
  <2>2. Ahead(d)[i] = f \/ (i \in DOMAIN Ahead(t) /\ Ahead(d)[i] = Ahead(t)[i])
    BY <1>1, EachOfMore
  <2> QED
    BY <2>1, <2>2 DEF ListInv, Signing
<1>5. InSync(d) /\ d.buddybuf # <<>> => Newsless(Ahead(d))
  <2>1. SUFFICES ASSUME InSync(d), d.buddybuf # <<>>, NEW i \in DOMAIN Ahead(d)
                 PROVE  ~IsNews(Ahead(d)[i])
    BY DEF Newsless
  <2>2. Ahead(d)[i] = f \/ (i \in DOMAIN Ahead(t) /\ Ahead(d)[i] = Ahead(t)[i])
    BY <1>1, EachOfMore
  <2> QED
    BY <1>2, <2>1, <2>2 DEF ListInv, Newsless
<1>6. PICK v \in Sight, x \in Sight : Brings(v, Ahead(t), x) /\ SeenNow(t, v) /\ SeenLast(t, x)
  BY DEF ListInv, Accounted
<1>7. PICK y \in Sight : Shows(x, f, y) /\ SeenLast(d, y)
  BY <1>6
<1>8. Brings(v, Ahead(d), y)
  BY <1>1, <1>6, <1>7, BringsOn
<1>9. SeenNow(d, v)
  BY <1>2, <1>6 DEF SeenNow
<1> QED
  BY <1>3, <1>4, <1>5, <1>7, <1>8, <1>9 DEF ListInv, Accounted

(* What a phase of the server's asks of what has been seen. *)
Phased(phase, x) ==
  /\ phase = "greet" => x.level = 0
  /\ phase \in {"greeted", "login", "refused"} => x.level = 1
  /\ phase = "signed" => x.level = 2
  /\ phase = "half" => x.level = 3 /\ x.due = "nothing"
  /\ phase = "on" => x.level = 4

LEMMA SendsLists ==
  ASSUME Usual(toc), NEW kind \in Kinds, NEW groups \in SUBSET Groups,
         NEW phase \in Phases \ {"off", "greet"}, Sends(kind, groups, phase),
         kind \notin {"INSERTED2", "DELETED2"}, toc.server # "off",
         kind = "CONFIG2" => groups = toc.stored /\ toc.server = "half",
         phase = "on" => kind = "CONFIG2" \/ toc.server = "on",
         \A x \in Sight : Phased(toc.server, x) =>
           \E y \in Sight : Shows(x, Note(kind, groups), y) /\ Phased(phase, y)
  PROVE  ListInv(toc')
<1> DEFINE f == Note(kind, groups)
           q == Append(toc.mail, f)
           d == toc'
<1>1. /\ toc \in Toc /\ ListInv(toc) /\ d = [toc EXCEPT !.mail = q, !.server = phase]
  BY DEF Usual, Sends
<1>2. f \in Frame /\ f.kind = kind /\ f.groups = groups /\ ~f.old
  BY NoteIs DEF Note
<1>3. toc.mail \in Seq(Frame)
  BY <1>1, AheadIs
<1>4. q \in Seq(Frame)
  BY <1>2, <1>3
<1> HIDE DEF f, q, d
<1>5. /\ d \in Toc /\ d.server = phase /\ d.frames = toc.frames /\ d.mail = q
      /\ d.sock = toc.sock /\ d.connected = toc.connected /\ d.connectstate = toc.connectstate
      /\ d.gotconfig = toc.gotconfig /\ d.sync = toc.sync /\ d.buddy = toc.buddy
      /\ d.buddybuf = toc.buddybuf /\ d.stored = toc.stored
  BY <1>1, <1>4 DEF Toc, Phases
<1>6. OnLine(toc)
  BY <1>1 DEF ListInv, Straight
<1>7. ~IsNews(f) /\ Timely(f, toc.stored)
  BY <1>2 DEF IsNews, Timely
<1>8. ASSUME NEW v \in Sight, NEW x \in Sight,
             SeenNow(toc, v), Brings(v, Ahead(toc), x), SeenLast(toc, x)
      PROVE  \E y \in Sight : Shows(x, f, y) /\ SeenLast(d, y)
  <2>1. Phased(toc.server, x)
    BY <1>8 DEF SeenLast, Phased
  <2>2. PICK y \in Sight : Shows(x, f, y) /\ Phased(phase, y)
    BY <2>1 DEF f
  <2>3. y.at = x.at
    BY <1>7, <2>2, ShowsNoNews
  <2>4. d.sock # "WAITING_SYNACK" /\ d.server # "greet"
    BY <1>5, <1>6 DEF OnLine
  <2>5. ASSUME InSync(d), d.server = "on" PROVE d.stored \cup ToSet(d.buddybuf) = {y.at} \ {NoGroup}
    <3>1. InSync(toc)
      BY <1>5, <2>5 DEF InSync
    <3>2. CASE toc.server = "on"
      BY <1>5, <1>8, <2>3, <3>1, <3>2 DEF SeenLast
    <3>3. CASE toc.server # "on"
      <4>1. toc.server = "half" /\ x.level = 3
        BY <1>5, <2>1, <2>5, <3>3 DEF Phased
      <4>2. v.level = 4
        BY <1>1, <1>6, <1>8, <3>1 DEF ListInv, Straight, SeenNow, Stage, InSync
      <4>3. x.level = 4
        BY <1>1, <1>8, <4>2, AheadIs, BringsNew
      <4> QED
        BY <4>1, <4>3
    <3> QED
      BY <3>2, <3>3
  <2>6. SeenLast(d, y)
    BY <1>5, <2>2, <2>4, <2>5 DEF SeenLast, Phased
  <2> QED
    BY <2>2, <2>6
<1> DEFINE after == \A v, x \in Sight : SeenNow(toc, v) /\ Brings(v, Ahead(toc), x) /\ SeenLast(toc, x) =>
           \E y \in Sight : Shows(x, f, y) /\ SeenLast(d, y)
<1>9. after
  BY <1>8
<1>10. d.mail = Append(toc.mail, f) /\ d.server \notin {"off", "greet"}
  BY <1>5 DEF q, Phases
<1>11. ListInv(d)
  BY <1>1, <1>2, <1>5, <1>6, <1>7, <1>9, <1>10, GrownKeeps
<1> QED
  BY <1>11 DEF d

LEMMA ClimbsNote ==
  ASSUME NEW x \in Sight, NEW kind \in Kinds, NEW groups, NEW m \in 0..4,
         kind \notin {"INSERTED2", "DELETED2"},
         kind = "CONFIG2" => x.due = "nothing",
         \/ kind = "flap" /\ x.level = 0 /\ m = 1
         \/ kind = "SIGN_ON" /\ x.level = 1 /\ m = 2
         \/ kind = "NICK" /\ x.level = 2 /\ m = 3
         \/ kind = "CONFIG2" /\ x.level = 3 /\ m = 4
         \/ kind = "ERROR" /\ x.level = 1 /\ m = 1
         \/ kind = "other" /\ x.level = 4 /\ m = 4
         \/ kind \in {"keepalive", "bad"} /\ x.level # 0 /\ m = x.level
  PROVE  \E y \in Sight : /\ Shows(x, Note(kind, groups), y) /\ y.level = m
                          /\ kind = "NICK" => y.due = "nothing"
                          /\ kind \notin {"NICK", "SIGN_ON"} => y.due = x.due
<1> DEFINE f == Note(kind, groups)
           e == DueAfter(x.due, f)
           y == [due |-> e, level |-> m, at |-> x.at]
<1>1. f.kind = kind /\ ~f.old
  BY DEF Note
<1> HIDE DEF f
<1>2. e \in {"NICK", "nothing"} /\ (kind = "NICK" => e = "nothing")
      /\ (kind \notin {"NICK", "SIGN_ON"} => e = x.due)
  BY <1>1 DEF DueAfter, Sight
<1>3. AfterNews(x.at, f) = x.at
  BY <1>1 DEF AfterNews
<1>4. Climbs(x.level, f, m)
  BY <1>1 DEF Climbs
<1>5. e = DueAfter(x.due, f)
  OBVIOUS
<1> HIDE DEF e
<1>6. y \in Sight /\ y.due = e /\ y.level = m /\ y.at = x.at
  BY <1>2 DEF Sight
<1> HIDE DEF y
<1>7. Shows(x, f, y)
  BY <1>1, <1>3, <1>4, <1>5, <1>6 DEF Shows
<1> QED
  BY <1>2, <1>6, <1>7 DEF f

LEMMA SignsOnLists == Usual(toc) /\ SignsOn => ListInv(toc')
<1> SUFFICES ASSUME Usual(toc), SignsOn PROVE ListInv(toc')
  OBVIOUS
<1>1. toc.stored \in SUBSET Groups /\ {} \in SUBSET Groups /\ world = {}
  BY DEF Usual, Toc
<1>2. PICK kind \in {"flap", "SIGN_ON", "ERROR", "NICK", "CONFIG2"},
           groups \in {toc.stored, {}}, phase \in {"greeted", "signed", "refused", "half", "on"} :
        /\ Sends(kind, groups, phase)
        /\ kind = "CONFIG2" => groups = toc.stored
        /\ \/ kind = "flap" /\ toc.server = "greet" /\ phase = "greeted"
           \/ kind = "SIGN_ON" /\ toc.server = "login" /\ phase = "signed"
           \/ kind = "ERROR" /\ toc.server = "login" /\ phase = "refused"
           \/ kind = "NICK" /\ toc.server = "signed" /\ phase = "half"
           \/ kind = "CONFIG2" /\ toc.server = "half" /\ phase = "on"
  BY <1>1 DEF SignsOn
<1>3. kind \in Kinds /\ groups \in SUBSET Groups /\ phase \in Phases \ {"off", "greet"}
  BY <1>1, <1>2 DEF Kinds, Phases
<1>4. ASSUME NEW x \in Sight, Phased(toc.server, x)
      PROVE  \E y \in Sight : Shows(x, Note(kind, groups), y) /\ Phased(phase, y)
  <2> DEFINE m == IF kind = "flap" THEN 1 ELSE IF kind = "SIGN_ON" THEN 2 ELSE IF kind = "NICK" THEN 3
                  ELSE IF kind = "CONFIG2" THEN 4 ELSE 1
  <2>1. m \in 0..4
    OBVIOUS
  <2>2. kind = "CONFIG2" => x.due = "nothing"
    BY <1>2, <1>4 DEF Phased
  <2>3. \/ kind = "flap" /\ x.level = 0 /\ m = 1
        \/ kind = "SIGN_ON" /\ x.level = 1 /\ m = 2
        \/ kind = "NICK" /\ x.level = 2 /\ m = 3
        \/ kind = "CONFIG2" /\ x.level = 3 /\ m = 4
        \/ kind = "ERROR" /\ x.level = 1 /\ m = 1
    BY <1>2, <1>4 DEF Phased
  <2> HIDE DEF m
  <2>4. PICK y \in Sight : Shows(x, Note(kind, groups), y) /\ y.level = m
                          /\ (kind = "NICK" => y.due = "nothing")
    BY <1>2, <1>3, <2>1, <2>2, <2>3, ClimbsNote
  <2>5. Phased(phase, y)
    BY <1>2, <2>3, <2>4 DEF Phased
  <2> QED
    BY <2>4, <2>5
<1> QED
  BY <1>2, <1>3, <1>4, SendsLists

LEMMA ChattersLists == Usual(toc) /\ Chatters => ListInv(toc')
<1> SUFFICES ASSUME Usual(toc), Chatters PROVE ListInv(toc')
  OBVIOUS
<1>1. world = {} /\ {} \in SUBSET Groups
  BY DEF Usual
<1>2. PICK kind \in {"other", "keepalive", "bad"} :
        /\ Sends(kind, {}, toc.server) /\ toc.server \in {"greeted", "signed", "on"}
        /\ kind = "other" => toc.server = "on"
  BY <1>1 DEF Chatters
<1> DEFINE phase == toc.server
           none == {}
<1>3. kind \in Kinds /\ phase \in Phases \ {"off", "greet"} /\ none \in SUBSET Groups
  BY <1>1, <1>2 DEF Kinds, Phases
<1>4. ASSUME NEW x \in Sight, Phased(toc.server, x)
      PROVE  \E y \in Sight : Shows(x, Note(kind, none), y) /\ Phased(phase, y)
  <2> DEFINE m == x.level
  <2>1. m \in 0..4
    BY DEF Sight
  <2>2. /\ kind \in Kinds /\ kind \notin {"INSERTED2", "DELETED2"} /\ kind # "CONFIG2"
        /\ \/ kind = "other" /\ x.level = 4 /\ m = 4
           \/ kind \in {"keepalive", "bad"} /\ x.level # 0 /\ m = x.level
    BY <1>2, <1>3, <1>4 DEF Phased
  <2> HIDE DEF m
  <2>3. PICK y \in Sight : Shows(x, Note(kind, none), y) /\ y.level = m /\ y.due = x.due
    BY <1>2, <2>1, <2>2, ClimbsNote
  <2>4. m = x.level
    BY <2>2
  <2>5. Phased(phase, y)
    BY <1>4, <2>3, <2>4 DEF Phased
  <2> QED
    BY <2>3, <2>5
<1>5. Sends(kind, none, phase) /\ kind \notin {"INSERTED2", "DELETED2", "CONFIG2"}
      /\ toc.server # "off" /\ (phase = "on" => toc.server = "on")
  BY <1>2
<1> HIDE DEF phase, none
<1> QED
  BY <1>3, <1>4, <1>5, SendsLists

(* News of another client: at the server and in what is under way alike. *)
LEMMA ShowsNews ==
  ASSUME NEW x \in Sight, x.level = 4, NEW f \in Frame, IsNews(f), ~f.old
  PROVE  /\ AfterNews(x.at, f) \in Groups \cup {NoGroup}
         /\ [x EXCEPT !.at = AfterNews(x.at, f)] \in Sight
         /\ Shows(x, f, [x EXCEPT !.at = AfterNews(x.at, f)])
<1> DEFINE a == AfterNews(x.at, f)
           y == [x EXCEPT !.at = a]
<1>1. f.kind \in {"INSERTED2", "DELETED2"}
  BY DEF IsNews
<1>2. a \in Groups \cup {NoGroup}
  <2>1. f.kind = "INSERTED2" => NewsOf(f) \in Groups
    <3>1. f.kind = "INSERTED2" => f.groups \subseteq Groups /\ f.groups # {}
      BY DEF Frame
    <3> QED
      BY <3>1 DEF NewsOf
  <2>2. x.at \in Groups \cup {NoGroup}
    BY DEF Sight
  <2> QED
    BY <2>1, <2>2 DEF AfterNews
<1>3. a = AfterNews(x.at, f)
  OBVIOUS
<1> HIDE DEF a
<1>4. y \in Sight /\ y.due = x.due /\ y.level = x.level /\ y.at = a
  BY <1>2 DEF Sight
<1> HIDE DEF y
<1>5. Climbs(x.level, f, y.level)
  BY <1>1, <1>4 DEF Climbs
<1>6. DueAfter(x.due, f) = x.due
  BY <1>1 DEF DueAfter
<1>7. Shows(x, f, y)
  BY <1>1, <1>3, <1>4, <1>5, <1>6 DEF Shows
<1> QED
  BY <1>2, <1>3, <1>4, <1>7 DEF y

LEMMA NewsIs ==
  /\ \A g \in Groups : NewsOf(Note("INSERTED2", {g})) = g
  /\ \A s : NewsOf(Note("DELETED2", s)) = CHOOSE g \in s : TRUE
  /\ \A g : (CHOOSE h \in {g} : TRUE) = g
BY DEF NewsOf, Note

LEMMA ElsewhereLists == Usual(toc) /\ ChangedElsewhere => ListInv(toc')
<1> SUFFICES ASSUME Usual(toc), ChangedElsewhere PROVE ListInv(toc')
  OBVIOUS
<1> USE Toc2Assumption
<1>1. /\ toc \in Toc /\ ListInv(toc) /\ (Off(toc) \/ On(toc)) /\ toc.stored \in SUBSET Groups
      /\ toc.server = "off" \/ (toc.server = "on" /\ toc.connected = "ACTIVE")
      /\ toc.mail = <<>> /\ toc.buddybuf = <<>>
  BY DEF Usual, ChangedElsewhere, Toc
<1> DEFINE a(new) == Note("INSERTED2", new)
           b == Note("DELETED2", toc.stored)
           d == toc'
<1>2. PICK new \in {{}} \cup {{g} : g \in Groups} :
        LET added == [i \in {1} |-> a(new)]
            gone  == [i \in {1} |-> b]
        IN  /\ new # toc.stored
            /\ \E news \in IF toc.server = "off" THEN {<<>>}
                           ELSE IF toc.stored = {} THEN {added}
                           ELSE IF new = {} THEN {gone}
                           ELSE {added \o gone, gone \o added} :
                 d = [toc EXCEPT !.stored = new, !.mail = news]
  BY DEF ChangedElsewhere
<1> DEFINE f == a(new)
<1>3. /\ new \in SUBSET Groups
      /\ new # {} => f \in Frame /\ IsNews(f) /\ ~f.old
      /\ b \in Frame /\ IsNews(b) /\ ~b.old
  <2>1. new \in SUBSET Groups /\ "INSERTED2" \in Kinds /\ "DELETED2" \in Kinds
    BY DEF Kinds
  <2>2. /\ new # {} => f \in Frame /\ f.kind = "INSERTED2"
        /\ b \in Frame /\ b.kind = "DELETED2"
    BY <1>1, <2>1, NoteIs
  <2> QED
    BY <2>2 DEF IsNews, Note
<1> HIDE DEF d
<1>4. CASE toc.server = "off"
  <2> DEFINE none == <<>>
  <2>1. d = [toc EXCEPT !.stored = new, !.mail = none]
    BY <1>2, <1>4
  <2>2. none \in Seq(Frame) /\ toc.mail = none
    BY <1>1
  <2> HIDE DEF none
  <2>3. /\ d.sock = toc.sock /\ d.mail = toc.mail /\ d.server = toc.server
        /\ d.frames = toc.frames
        /\ d.connected = toc.connected /\ d.connectstate = toc.connectstate
        /\ d.gotconfig = toc.gotconfig /\ d.sync = toc.sync /\ d.buddybuf = toc.buddybuf
        /\ d.buddy = toc.buddy
    BY <1>1, <2>1, <2>2 DEF Toc
  <2>4. Ahead(d) = Ahead(toc) /\ ~OnLine(d) /\ ~OnLine(toc) /\ ~InSync(d) /\ Stage(d) = Stage(toc)
    BY <1>1, <1>4, <2>3 DEF ListInv, Straight, Ahead, OnLine, InSync, Stage
  <2>5. Straight(d) /\ Signing(d)
    BY <1>1, <2>3, <2>4 DEF ListInv, Straight, Signing, OnLine, Listed
  <2>6. \A v, x : SeenNow(toc, v) /\ SeenLast(toc, x) => SeenNow(d, v) /\ SeenLast(d, x)
    BY <2>3, <2>4 DEF SeenNow, SeenLast
  <2>7. Accounted(d)
    BY <1>1, <2>4, <2>6 DEF ListInv, Accounted
  <2> QED
    BY <2>4, <2>5, <2>7 DEF ListInv, d
<1>5. CASE toc.server = "on"
  <2>1. toc.connected = "ACTIVE" /\ toc.sock = "ACTIVE" /\ OnLine(toc)
    BY <1>1, <1>5 DEF Off, On, OnLine
  <2>2. PICK v \in Sight, x \in Sight :
          Brings(v, Ahead(toc), x) /\ SeenNow(toc, v) /\ SeenLast(toc, x)
    BY <1>1 DEF ListInv, Accounted
  <2>3. x.level = 4 /\ (InSync(toc) => toc.stored = {x.at} \ {NoGroup})
    <3>1. ToSet(toc.buddybuf) = {}
      BY <1>1, OneBuffered
    <3> QED
      BY <1>5, <2>2, <3>1 DEF SeenLast
  <2> DEFINE p == toc.frames
  <2>4. p \in Seq(Frame) /\ Ahead(toc) = p
    BY <1>1, AheadIs
  (* It is enough to say what is sent, and where that leads. *)
  <2>5. ASSUME NEW news \in Seq(Frame), d = [toc EXCEPT !.stored = new, !.mail = news],
               NEW y \in Sight, Brings(v, p \o news, y), y.level = 4, y.due = x.due,
               InSync(toc) => new = {y.at} \ {NoGroup}
        PROVE  ListInv(d)
    <3>1. /\ d \in Toc /\ d.sock = toc.sock /\ d.mail = news /\ d.server = "on"
          /\ d.frames = p /\ d.stored = new
          /\ d.connected = toc.connected /\ d.connectstate = toc.connectstate
          /\ d.gotconfig = toc.gotconfig /\ d.sync = toc.sync /\ d.buddybuf = toc.buddybuf
          /\ d.buddy = toc.buddy
      BY <1>1, <1>3, <1>5, <2>5 DEF Toc
    <3>2. (OnLine(d) <=> OnLine(toc)) /\ (InSync(d) <=> InSync(toc))
          /\ Stage(d) = Stage(toc) /\ (Listed(d) <=> Listed(toc))
      BY <3>1 DEF OnLine, InSync, Stage, Listed
    <3>3. Straight(d) /\ Signing(d) /\ d.buddybuf = <<>>
      BY <1>1, <1>5, <2>1, <3>1, <3>2 DEF ListInv, Straight, Signing
    <3>4. ToSet(d.buddybuf) = {}
      BY <3>3, OneBuffered
    <3>5. SeenNow(d, v)
      BY <2>2, <3>1, <3>2 DEF SeenNow
    <3>6. SeenLast(d, y)
      BY <2>1, <2>5, <3>1, <3>2, <3>4 DEF SeenLast
    <3>7. Brings(v, Ahead(d), y)
      BY <2>5, <3>1 DEF Ahead
    <3> QED
      BY <3>3, <3>5, <3>6, <3>7 DEF ListInv, Accounted
  <2> DEFINE one == <<f>>
             other == <<b>>
  <2>6. [i \in {1} |-> f] = one /\ [i \in {1} |-> b] = other
    OBVIOUS
  <2>7. /\ toc.stored = {} => d = [toc EXCEPT !.stored = new, !.mail = one] /\ new # {}
        /\ toc.stored # {} /\ new = {} => d = [toc EXCEPT !.stored = new, !.mail = other]
        /\ toc.stored # {} /\ new # {} =>
             \/ d = [toc EXCEPT !.stored = new, !.mail = one \o other]
             \/ d = [toc EXCEPT !.stored = new, !.mail = other \o one]
    BY <1>2, <1>5, <2>6
  <2>8. \A g \in Groups \cup {NoGroup} : AfterNews(g, b) = IF g = NewsOf(b) THEN NoGroup ELSE g
    BY DEF AfterNews, Note
  <2>9. new # {} => new = {NewsOf(f)} /\ NewsOf(f) \in Groups /\ \A g : AfterNews(g, f) = NewsOf(f)
    <3>1. SUFFICES ASSUME new # {}
                   PROVE  new = {NewsOf(f)} /\ NewsOf(f) \in Groups /\ \A g : AfterNews(g, f) = NewsOf(f)
      OBVIOUS
    <3>2. PICK g \in Groups : new = {g}
      BY <3>1
    <3>3. NewsOf(f) = g
      BY <3>2, NewsIs
    <3> QED
      BY <3>2, <3>3 DEF AfterNews, Note
  <2>10. InSync(toc) /\ toc.stored # {} => x.at \in Groups /\ x.at # NoGroup /\ NewsOf(b) = x.at
    <3>1. SUFFICES ASSUME InSync(toc), toc.stored # {}
                   PROVE  x.at \in Groups /\ x.at # NoGroup /\ NewsOf(b) = x.at
      OBVIOUS
    <3>2. toc.stored = {x.at} /\ x.at \in Groups
      BY <1>1, <2>3, <3>1
    <3> QED
      BY <3>2, NewsIs
  <2> HIDE DEF f, b, p
  <2> DEFINE ya == [x EXCEPT !.at = AfterNews(x.at, f)]
             yb == [x EXCEPT !.at = AfterNews(x.at, b)]
             yab == [ya EXCEPT !.at = AfterNews(ya.at, b)]
             yba == [yb EXCEPT !.at = AfterNews(yb.at, f)]
  <2>11. /\ new # {} => ya \in Sight /\ Shows(x, f, ya)
         /\ yb \in Sight /\ Shows(x, b, yb)
    BY <1>3, <2>3, ShowsNews
  <2>12. /\ ya.level = 4 /\ ya.due = x.due /\ ya.at = AfterNews(x.at, f)
         /\ yb.level = 4 /\ yb.due = x.due /\ yb.at = AfterNews(x.at, b)
    BY <2>3 DEF Sight
  <2> HIDE DEF ya, yb
  <2>13. new # {} => /\ yab \in Sight /\ Shows(ya, b, yab)
                     /\ yba \in Sight /\ Shows(yb, f, yba)
    BY <1>3, <2>11, <2>12, ShowsNews
  <2>14. new # {} => /\ yab.level = 4 /\ yab.due = x.due /\ yab.at = AfterNews(ya.at, b)
                     /\ yba.level = 4 /\ yba.due = x.due /\ yba.at = AfterNews(yb.at, f)
    BY <2>11, <2>12 DEF Sight
  <2> HIDE DEF yab, yba
  <2>15. /\ new # {} => one \in Seq(Frame) /\ p \o one = Append(p, f)
         /\ other \in Seq(Frame) /\ p \o other = Append(p, b)
         /\ new # {} => one \o other \in Seq(Frame) /\ p \o (one \o other) = Append(Append(p, f), b)
         /\ new # {} => other \o one \in Seq(Frame) /\ p \o (other \o one) = Append(Append(p, b), f)
    BY <1>3, <2>4
  <2> HIDE DEF one, other
  <2>16. Brings(v, p, x)
    BY <2>2, <2>4
  <2>17. /\ new # {} => Append(p, f) \in Seq(Frame) /\ Brings(v, Append(p, f), ya)
         /\ Append(p, b) \in Seq(Frame) /\ Brings(v, Append(p, b), yb)
    BY <1>3, <2>4, <2>11, <2>16, BringsOn
  <2>18. new # {} => /\ Brings(v, Append(Append(p, f), b), yab)
                     /\ Brings(v, Append(Append(p, b), f), yba)
    BY <1>3, <2>13, <2>17, BringsOn
  <2>19. CASE toc.stored = {}
    <3>1. d = [toc EXCEPT !.stored = new, !.mail = one] /\ new # {}
      BY <2>7, <2>19
    <3>2. new = {ya.at} \ {NoGroup}
      BY <2>9, <2>12, <3>1
    <3>3. Brings(v, p \o one, ya)
      BY <2>15, <2>17, <3>1
    <3>4. one \in Seq(Frame) /\ ya \in Sight /\ ya.level = 4 /\ ya.due = x.due
      BY <2>11, <2>12, <2>15, <3>1
    <3>5. ListInv(d)
      BY <2>5, <3>1, <3>2, <3>3, <3>4
    <3> QED
      BY <3>5 DEF d
  <2>20. CASE toc.stored # {} /\ new = {}
    <3>1. d = [toc EXCEPT !.stored = new, !.mail = other]
      BY <2>7, <2>20
    <3>2. InSync(toc) => new = {yb.at} \ {NoGroup}
      BY <2>8, <2>10, <2>12, <2>20
    <3>3. Brings(v, p \o other, yb)
      BY <2>15, <2>17
    <3>4. other \in Seq(Frame) /\ yb \in Sight /\ yb.level = 4 /\ yb.due = x.due
      BY <2>11, <2>12, <2>15
    <3>5. ListInv(d)
      BY <2>5, <3>1, <3>2, <3>3, <3>4
    <3> QED
      BY <3>5 DEF d
  <2>21. CASE toc.stored # {} /\ new # {}
    <3>1. InSync(toc) => NewsOf(f) # x.at
      BY <1>2, <2>3, <2>9, <2>10, <2>21
    <3>2. InSync(toc) => yab.at = NewsOf(f) /\ yba.at = NewsOf(f)
      BY <2>8, <2>9, <2>10, <2>12, <2>14, <2>21, <3>1
    <3>3. InSync(toc) => new = {yab.at} \ {NoGroup} /\ new = {yba.at} \ {NoGroup}
      BY <2>9, <2>21, <3>2
    <3>4. /\ one \o other \in Seq(Frame) /\ yab \in Sight /\ yab.level = 4 /\ yab.due = x.due
          /\ other \o one \in Seq(Frame) /\ yba \in Sight /\ yba.level = 4 /\ yba.due = x.due
          /\ Brings(v, p \o (one \o other), yab) /\ Brings(v, p \o (other \o one), yba)
      BY <2>13, <2>14, <2>15, <2>18, <2>21
    <3>5. CASE d = [toc EXCEPT !.stored = new, !.mail = one \o other]
      <4>1. ListInv(d)
        BY <2>5, <3>3, <3>4, <3>5
      <4> QED
        BY <4>1 DEF d
    <3>6. CASE d = [toc EXCEPT !.stored = new, !.mail = other \o one]
      <4>1. ListInv(d)
        BY <2>5, <3>3, <3>4, <3>6
      <4> QED
        BY <4>1 DEF d
    <3> QED
      BY <2>7, <2>21, <3>5, <3>6
  <2> QED
    BY <2>19, <2>20, <2>21
<1> QED
  BY <1>1, <1>4, <1>5
-----------------------------------------------------------------------------
(* select(). *)

LEMMA EndedLists ==
  ASSUME NEW t \in Toc, ListInv(t)
  PROVE  ListInv(Ended(t))
<1> DEFINE d == Ended(t)
<1>1. SameLists(t, d)
  BY DEF Ended, Toc, SameLists, SameCourse
<1> QED
  BY <1>1, SameListsKeep

LEMMA NoFrameLists == Usual(toc) /\ NoFrame => ListInv(toc')
BY EndedLists DEF Usual, NoFrame, Return, Ended

LEMMA FlushedUsual ==
  ASSUME Usual(toc)
  PROVE  ListInv(Flushed(toc))
BY FlushedLists DEF Usual, Off, On

LEMMA PollNothingLists == Usual(toc) /\ PollNothing => ListInv(toc')
BY FlushedUsual DEF PollNothing

LEMMA PollErrorLists == Usual(toc) /\ PollError => ListInv(toc')
<1> SUFFICES ASSUME Usual(toc), PollError PROVE ListInv(toc')
  OBVIOUS
<1> DEFINE f == Flushed(toc)
           c == SockClose(f)
<1>1. PICK resolved \in BOOLEAN :
        toc' = IF toc.sock = "ACTIVE" THEN CallbackDisconnect(c, resolved)
               ELSE CallbackConnectFailed(c, FALSE, resolved)
  BY DEF PollError
<1>2. /\ f \in Toc /\ f.buddybuf = <<>> /\ f.connected = toc.connected
      /\ ListInv(f)
  BY FlushedLeaves, FlushedUsual DEF Usual
<1> HIDE DEF f
<1>3. /\ c \in Toc /\ c.sock = "NOTCONNECTED" /\ c.buddybuf = <<>> /\ c.connected = toc.connected
      /\ ListInv(c)
  BY <1>2, SockCloseLeaves, SockCloseLists
<1> HIDE DEF c
<1>4. ListInv(CallbackDisconnect(c, resolved))
  BY <1>3, CallbackDisconnectLists
<1>5. toc.sock # "ACTIVE" => c.connected # "ACTIVE"
  BY <1>3 DEF Usual, Off, On
<1>6. c.connected # "ACTIVE" => ListInv(CallbackConnectFailed(c, FALSE, resolved))
  BY <1>3, ConnectFailedLists
<1> QED
  BY <1>1, <1>4, <1>5, <1>6

LEMMA PollSynackLists == Usual(toc) /\ PollSynack => ListInv(toc')
<1> SUFFICES ASSUME Usual(toc), PollSynack PROVE ListInv(toc')
  OBVIOUS
<1> DEFINE f == Flushed(toc)
           zero == 0
           d == toc'
<1>1. /\ toc.sock = "WAITING_SYNACK"
      /\ d = [f EXCEPT !.sock = "WAITING_SIGNON", !.server = "greet", !.connectstate = zero,
                       !.gotconfig = FALSE]
  BY DEF PollSynack
<1>2. /\ f \in Toc /\ f.buddybuf = <<>> /\ f.connected = toc.connected /\ f.sock = toc.sock
      /\ ListInv(f)
  BY FlushedLeaves, FlushedUsual DEF Usual
<1>3. zero \in 0..3 /\ zero = 0
  OBVIOUS
<1> HIDE DEF f, zero, d
<1>4. /\ d \in Toc /\ d.sock = "WAITING_SIGNON" /\ d.server = "greet" /\ d.connectstate = zero
      /\ d.gotconfig = FALSE /\ d.frames = f.frames /\ d.mail = f.mail
      /\ d.connected = toc.connected /\ d.buddy = f.buddy /\ d.buddybuf = f.buddybuf
      /\ d.sync = f.sync /\ d.stored = f.stored
  BY <1>1, <1>2, <1>3 DEF Toc
<1>5. f.mail = <<>> /\ \A i \in DOMAIN f.frames : f.frames[i].old
  BY <1>1, <1>2 DEF ListInv, Straight, OnLine
<1>6. Ahead(d) = Ahead(f) /\ Ahead(f) = f.frames
  BY <1>2, <1>4, <1>5, AheadIs DEF Ahead
<1>7. Signing(d)
  BY <1>4, <1>5, <1>6 DEF Signing, Timely
<1>8. d.connected # "ACTIVE"
  BY <1>1, <1>4 DEF Usual, Off, On
<1>9. Straight(d) /\ ~InSync(d) /\ OnLine(d) /\ Stage(d) = 0
  BY <1>1, <1>2, <1>3, <1>4, <1>8 DEF ListInv, Straight, InSync, OnLine, Stage, Listed
<1>10. PICK v \in Sight, x \in Sight : Brings(v, Ahead(f), x) /\ SeenNow(f, v) /\ SeenLast(f, x)
  BY <1>2 DEF ListInv, Accounted
<1>11. v.level = 0 /\ x.level = 0
  BY <1>1, <1>2, <1>10 DEF SeenNow, SeenLast
<1>12. SeenNow(d, v)
  BY <1>3, <1>4, <1>9, <1>11 DEF SeenNow
<1>13. SeenLast(d, x)
  BY <1>4, <1>9, <1>11 DEF SeenLast
<1>14. Accounted(d)
  BY <1>6, <1>10, <1>12, <1>13 DEF Accounted
<1> QED
  BY <1>7, <1>9, <1>14 DEF ListInv, d

LEMMA JoinedIs ==
  ASSUME NEW c \in Seq(Frame), NEW b \in Seq(Frame)
  PROVE  /\ c \o b \in Seq(Frame) /\ Len(c \o b) = Len(c) + Len(b)
         /\ \A i \in 1..Len(c) : (c \o b)[i] = c[i]
         /\ \A i \in 1..Len(b) : (c \o b)[Len(c) + i] = b[i]
OBVIOUS

LEMMA SplitJoins ==
  ASSUME NEW p \in Seq(Frame), NEW q \in Seq(Frame), NEW n \in 1..Len(q)
  PROVE  (p \o SubSeq(q, 1, n)) \o SubSeq(q, n + 1, Len(q)) = p \o q
<1> DEFINE a == SubSeq(q, 1, n)
           b == SubSeq(q, n + 1, Len(q))
           l == Len(p)
           m == Len(q)
           u == p \o q
<1>1. a \in Seq(Frame) /\ b \in Seq(Frame)
  BY MailSplit
<1>2. m \in Nat /\ n \in 1..m /\ l \in Nat
  OBVIOUS
<1>3. Len(a) = n /\ (\A i \in 1..n : a[i] = q[i])
  OBVIOUS
<1>4. Len(b) = m - n /\ \A i \in 1..(m - n) : b[i] = q[i + n]
  OBVIOUS
<1> HIDE DEF a, b
<1>5. /\ p \o a \in Seq(Frame) /\ Len(p \o a) = l + n
      /\ \A i \in 1..l : (p \o a)[i] = p[i]
      /\ \A i \in 1..n : (p \o a)[l + i] = a[i]
  BY <1>1, <1>3
<1> DEFINE c == p \o a
           s == c \o b
<1>6. c \in Seq(Frame) /\ Len(c) = l + n /\ Len(b) = m - n /\ b \in Seq(Frame)
  BY <1>1, <1>4, <1>5
<1> HIDE DEF c
<1>7. /\ s \in Seq(Frame) /\ Len(s) = (l + n) + (m - n)
      /\ \A i \in 1..(l + n) : s[i] = c[i]
      /\ \A i \in 1..(m - n) : s[(l + n) + i] = b[i]
  <2>1. /\ s \in Seq(Frame) /\ Len(s) = Len(c) + Len(b)
        /\ \A i \in 1..Len(c) : s[i] = c[i]
        /\ \A i \in 1..Len(b) : s[Len(c) + i] = b[i]
    BY <1>6, JoinedIs
  <2> HIDE DEF s
  <2> QED
    BY <1>6, <2>1
<1>8. /\ u \in Seq(Frame) /\ Len(u) = l + m
      /\ \A i \in 1..l : u[i] = p[i]
      /\ \A i \in 1..m : u[l + i] = q[i]
  OBVIOUS
<1> HIDE DEF s, u, l, m
<1>9. ASSUME NEW i \in 1..(l + m) PROVE s[i] = u[i]
  <2>1. CASE i \in 1..l
    <3>1. i \in 1..(l + n)
      BY <1>2, <2>1
    <3> QED
      BY <1>5, <1>7, <1>8, <2>1, <3>1 DEF c
  <2>2. CASE i \notin 1..l /\ i - l \in 1..n
    <3>1. i \in 1..(l + n) /\ l + (i - l) = i /\ i - l \in 1..m
      BY <1>2, <2>2
    <3>2. c[i] = a[i - l]
      BY <1>5, <2>2, <3>1 DEF c
    <3>3. u[i] = q[i - l]
      BY <1>8, <3>1
    <3> QED
      BY <1>3, <1>7, <2>2, <3>1, <3>2, <3>3
  <2>3. CASE i \notin 1..l /\ i - l \notin 1..n
    <3> DEFINE k == i - (l + n)
    <3>1. k \in 1..(m - n) /\ (l + n) + k = i /\ k + n \in 1..m /\ l + (k + n) = i
      BY <1>2, <2>3
    <3> HIDE DEF k
    <3>2. s[i] = b[k]
      BY <1>7, <3>1
    <3>3. u[i] = q[k + n]
      BY <1>8, <3>1
    <3> QED
      BY <1>4, <3>1, <3>2, <3>3
  <2> QED
    BY <2>1, <2>2, <2>3
<1>10. Len(s) = Len(u) /\ Len(u) = l + m
  BY <1>2, <1>7, <1>8
<1>11. s = u
  BY <1>7, <1>8, <1>9, <1>10
<1> QED
  BY <1>11 DEF s, u, c, a, b

LEMMA PollDataLists == Usual(toc) /\ PollData => ListInv(toc')
<1> SUFFICES ASSUME Usual(toc), PollData PROVE ListInv(toc')
  OBVIOUS
<1> DEFINE f == Flushed(toc)
           d == toc'
           p == toc.frames
           q == toc.mail
<1>1. PICK n \in 1..Len(q) :
        d = [f EXCEPT !.frames = @ \o SubSeq(q, 1, n), !.mail = SubSeq(@, n + 1, Len(@)),
                      !.pc = IF toc.sock = "ACTIVE" THEN "data" ELSE "connecting"]
  BY DEF PollData
<1> DEFINE a == SubSeq(q, 1, n)
           b == SubSeq(q, n + 1, Len(q))
           at == IF toc.sock = "ACTIVE" THEN "data" ELSE "connecting"
<1>2. /\ f \in Toc /\ f.frames = p /\ f.mail = q /\ ListInv(f) /\ f.sock = toc.sock
      /\ p \in Seq(Frame) /\ q \in Seq(Frame) /\ OnLine(f)
  BY FlushedLeaves, FlushedUsual, AheadIs DEF Usual, PollData, OnLine
<1>3. (p \o a) \o b = p \o q
  BY <1>2, SplitJoins
<1> DEFINE pa == p \o a
<1>4. d = [f EXCEPT !.frames = pa, !.mail = b, !.pc = at]
  BY <1>1, <1>2
<1> HIDE DEF f, d, pa, b, at
<1>5. /\ d.frames = pa /\ d.mail = b /\ d.sock = f.sock /\ d.connected = f.connected
      /\ d.connectstate = f.connectstate /\ d.gotconfig = f.gotconfig /\ d.sync = f.sync
      /\ d.buddy = f.buddy /\ d.buddybuf = f.buddybuf /\ d.stored = f.stored
      /\ d.server = f.server
  BY <1>2, <1>4 DEF Toc
<1>6. Ahead(d) = Ahead(f)
  BY <1>2, <1>3, <1>5 DEF Ahead, pa
<1>7. (OnLine(d) <=> OnLine(f)) /\ (InSync(d) <=> InSync(f)) /\ Stage(d) = Stage(f)
      /\ (Listed(d) <=> Listed(f))
  BY <1>5 DEF OnLine, InSync, Stage, Listed
<1>8. Straight(d)
  BY <1>2, <1>5, <1>7 DEF ListInv, Straight, OnLine
<1>9. Signing(d) /\ (InSync(d) /\ d.buddybuf # <<>> => Newsless(Ahead(d)))
  BY <1>2, <1>5, <1>6, <1>7 DEF ListInv, Signing
<1>10. \A v, x : SeenNow(f, v) /\ SeenLast(f, x) => SeenNow(d, v) /\ SeenLast(d, x)
  BY <1>5, <1>7 DEF SeenNow, SeenLast
<1>11. Accounted(d)
  BY <1>2, <1>6, <1>10 DEF ListInv, Accounted
<1> QED
  BY <1>8, <1>9, <1>11 DEF ListInv, d
-----------------------------------------------------------------------------
(* One frame is read. *)

LEMMA RestLeaves ==
  ASSUME toc \in Toc, toc.frames # <<>>
  PROVE  /\ Rest \in Toc /\ Rest.sock = toc.sock /\ Rest.mail = toc.mail
         /\ Rest.server = toc.server /\ Rest.connected = toc.connected
         /\ Rest.connectstate = toc.connectstate /\ Rest.gotconfig = toc.gotconfig
         /\ Rest.sync = toc.sync /\ Rest.buddy = toc.buddy /\ Rest.buddybuf = toc.buddybuf
         /\ Rest.stored = toc.stored /\ Rest.frames = Tail(toc.frames)
<1> DEFINE q == Tail(toc.frames)
<1>1. Rest \in Toc /\ Rest = [toc EXCEPT !.frames = q]
  BY RestIs DEF Rest
<1> HIDE DEF q
<1>2. /\ Rest.sock = toc.sock /\ Rest.mail = toc.mail
      /\ Rest.server = toc.server /\ Rest.connected = toc.connected
      /\ Rest.connectstate = toc.connectstate /\ Rest.gotconfig = toc.gotconfig
      /\ Rest.sync = toc.sync /\ Rest.buddy = toc.buddy /\ Rest.buddybuf = toc.buddybuf
      /\ Rest.stored = toc.stored /\ Rest.frames = q
  BY <1>1 DEF Toc
<1> QED
  BY <1>1, <1>2 DEF q

LEMMA JoinedRest ==
  ASSUME NEW p \in Seq(Frame), p # <<>>, NEW q \in Seq(Frame)
  PROVE  /\ p \o q # <<>> /\ Head(p \o q) = Head(p) /\ Tail(p \o q) = Tail(p) \o q
         /\ Tail(p) \in Seq(Frame)
<1> DEFINE s == p \o q
           a == Tail(p)
           u == a \o q
           l == Len(p)
           m == Len(q)
<1>1. a \in Seq(Frame) /\ Len(a) = l - 1 /\ \A i \in 1..(l - 1) : a[i] = p[i + 1]
  OBVIOUS
<1>2. l \in Nat \ {0} /\ m \in Nat /\ Head(p) = p[1]
  OBVIOUS
<1>3. /\ s \in Seq(Frame) /\ Len(s) = l + m
      /\ \A i \in 1..l : s[i] = p[i]
      /\ \A i \in 1..m : s[l + i] = q[i]
  BY JoinedIs
<1> HIDE DEF a
<1>4. /\ u \in Seq(Frame) /\ Len(u) = Len(a) + m
      /\ \A i \in 1..Len(a) : u[i] = a[i]
      /\ \A i \in 1..m : u[Len(a) + i] = q[i]
  BY <1>1, JoinedIs
<1> HIDE DEF s, u, l, m
<1>5. 1 \in 1..l /\ Len(s) # 0
  BY <1>2, <1>3
<1>6. s # <<>> /\ Head(s) = Head(p)
  BY <1>2, <1>3, <1>5
<1> DEFINE b == Tail(s)
<1>7. b \in Seq(Frame) /\ Len(b) = Len(s) - 1 /\ \A i \in 1..(Len(s) - 1) : b[i] = s[i + 1]
  BY <1>3, <1>6
<1> HIDE DEF b
<1>8. Len(b) = Len(u) /\ Len(u) = (l - 1) + m
  BY <1>1, <1>2, <1>3, <1>4, <1>7
<1>9. ASSUME NEW i \in 1..((l - 1) + m) PROVE b[i] = u[i]
  <2>1. b[i] = s[i + 1]
    BY <1>2, <1>3, <1>7
  <2>2. CASE i \in 1..(l - 1)
    <3>1. i + 1 \in 1..l
      BY <1>2, <2>2
    <3> QED
      BY <1>1, <1>3, <1>4, <2>1, <2>2, <3>1
  <2>3. CASE i \notin 1..(l - 1)
    <3> DEFINE k == i - (l - 1)
    <3>1. k \in 1..m /\ l + k = i + 1 /\ (l - 1) + k = i
      BY <1>2, <2>3
    <3> HIDE DEF k
    <3>2. s[i + 1] = q[k]
      BY <1>3, <3>1
    <3>3. u[i] = q[k]
      BY <1>1, <1>4, <3>1
    <3> QED
      BY <2>1, <3>2, <3>3
  <2> QED
    BY <2>2, <2>3
<1>10. b = u
  BY <1>4, <1>7, <1>8, <1>9
<1> QED
  BY <1>1, <1>6, <1>10 DEF b, s, u, a

LEMMA TailIs ==
  ASSUME NEW s \in Seq(Frame), s # <<>>
  PROVE  /\ 1 \in DOMAIN s /\ Head(s) = s[1]
         /\ \A i \in DOMAIN Tail(s) : i + 1 \in DOMAIN s /\ Tail(s)[i] = s[i + 1]
<1> DEFINE l == Len(s)
           b == Tail(s)
<1>1. l \in Nat \ {0} /\ DOMAIN s = 1..l /\ Head(s) = s[1]
  OBVIOUS
<1>2. DOMAIN b = 1..(l - 1) /\ \A i \in 1..(l - 1) : b[i] = s[i + 1]
  OBVIOUS
<1> HIDE DEF l, b
<1>3. 1 \in 1..l /\ \A i \in 1..(l - 1) : i + 1 \in 1..l
  BY <1>1
<1> QED
  BY <1>1, <1>2, <1>3 DEF b

(* What is ahead of the frame that is read. *)
LEMMA RestAhead ==
  ASSUME toc \in Toc, toc.frames # <<>>, NEW d, d.frames = Rest.frames, d.mail = toc.mail
  PROVE  /\ Ahead(toc) \in Seq(Frame) /\ Ahead(toc) # <<>> /\ First = Head(Ahead(toc))
         /\ Ahead(d) = Tail(Ahead(toc)) /\ Ahead(d) \in Seq(Frame)
<1> DEFINE p == toc.frames
           q == toc.mail
<1>1. p \in Seq(Frame) /\ p # <<>> /\ q \in Seq(Frame)
  BY AheadIs
<1>2. d.frames = Tail(p) /\ d.mail = q /\ First = Head(p)
  BY RestLeaves DEF First
<1> HIDE DEF p, q
<1>3. /\ p \o q # <<>> /\ Head(p \o q) = Head(p) /\ Tail(p \o q) = Tail(p) \o q
      /\ Tail(p) \in Seq(Frame)
  BY <1>1, JoinedRest
<1>4. p \o q \in Seq(Frame) /\ Tail(p) \o q \in Seq(Frame)
  BY <1>1, <1>3, JoinedIs
<1> QED
  BY <1>2, <1>3, <1>4 DEF Ahead, p, q

LEMMA HeadRead ==
  ASSUME Usual(toc), toc.frames # <<>>, NEW d, d.frames = Rest.frames, d.mail = toc.mail
  PROVE  \E v, w, x \in Sight :
           SeenNow(toc, v) /\ Shows(v, First, w) /\ Brings(w, Ahead(d), x) /\ SeenLast(toc, x)
<1>1. PICK v \in Sight, x \in Sight :
        Brings(v, Ahead(toc), x) /\ SeenNow(toc, v) /\ SeenLast(toc, x)
  BY DEF Usual, ListInv, Accounted
<1>2. /\ Ahead(toc) \in Seq(Frame) /\ Ahead(toc) # <<>> /\ First = Head(Ahead(toc))
      /\ Ahead(d) = Tail(Ahead(toc))
  BY RestAhead DEF Usual
<1>3. PICK w \in Sight : Shows(v, Head(Ahead(toc)), w) /\ Brings(w, Tail(Ahead(toc)), x)
  BY <1>1, <1>2, BringsFrom
<1> QED
  BY <1>1, <1>2, <1>3

LEMMA ReadLists ==
  ASSUME Usual(toc), toc.frames # <<>>, NEW d, d.frames = Rest.frames, d.mail = toc.mail,
         Straight(d), Accounted(d),
         d.sock = "WAITING_SIGNON" => toc.sock = "WAITING_SIGNON" /\ d.stored = toc.stored,
         InSync(d) /\ d.buddybuf # <<>> =>
           (InSync(toc) /\ toc.buddybuf # <<>>) \/ Newsless(Ahead(d))
  PROVE  ListInv(d)
<1>1. /\ Ahead(toc) \in Seq(Frame) /\ Ahead(toc) # <<>>
      /\ Ahead(d) = Tail(Ahead(toc))
  BY RestAhead DEF Usual
<1>2. \A i \in DOMAIN Ahead(d) :
        i + 1 \in DOMAIN Ahead(toc) /\ Ahead(d)[i] = Ahead(toc)[i + 1]
  BY <1>1, TailIs
<1>3. Signing(d)
  BY <1>2 DEF Usual, ListInv, Signing
<1>4. Newsless(Ahead(toc)) => Newsless(Ahead(d))
  BY <1>2 DEF Newsless
<1>5. InSync(d) /\ d.buddybuf # <<>> => Newsless(Ahead(d))
  BY <1>4 DEF Usual, ListInv
<1> QED
  BY <1>3, <1>5 DEF ListInv

(* The handler of the frame leaves the lists that the server has, and what it has seen. *)
LEMMA ReadOn ==
  ASSUME Usual(toc), toc.frames # <<>>, NEW d, d.frames = Rest.frames, d.mail = toc.mail,
         Straight(d), d.sock = toc.sock, d.stored = toc.stored, d.buddybuf = toc.buddybuf,
         d.server = toc.server \/ (toc.server = "greeted" /\ d.server = "login"),
         InSync(d) => InSync(toc),
         \A v, w \in Sight : SeenNow(toc, v) /\ Shows(v, First, w) => SeenNow(d, w)
  PROVE  ListInv(d)
<1>1. PICK v \in Sight, w \in Sight, x \in Sight :
        SeenNow(toc, v) /\ Shows(v, First, w) /\ Brings(w, Ahead(d), x) /\ SeenLast(toc, x)
  BY HeadRead
<1>2. SeenNow(d, w)
  BY <1>1
<1>3. SeenLast(d, x)
  BY <1>1 DEF SeenLast
<1>4. Accounted(d)
  BY <1>1, <1>2, <1>3 DEF Accounted
<1> QED
  BY <1>4, ReadLists

(* The connection that reads. *)
LEMMA Reading ==
  ASSUME Usual(toc), toc.pc # "select"
  PROVE  /\ toc \in Toc /\ ListInv(toc) /\ Straight(toc) /\ world = {} /\ OnLine(toc)
         /\ toc.pc = "connecting" =>
              toc.sock = "WAITING_SIGNON" /\ ~toc.gotconfig /\ toc.connected # "ACTIVE"
         /\ toc.pc = "data" =>
              /\ toc.sock = "ACTIVE" /\ toc.connected = "ACTIVE" /\ toc.connectstate = 3
              /\ toc.gotconfig /\ (Listed(toc) => toc.buddy.uploaded)
         /\ toc.pc \in {"connecting", "data"}
<1>1. toc.pc \in {"connecting", "data"}
  BY DEF Usual, Toc
<1>2. toc \in Toc /\ ListInv(toc) /\ Straight(toc) /\ world = {}
  BY DEF Usual, ListInv
<1>3. CASE toc.pc = "connecting"
  <2>1. toc.sock = "WAITING_SIGNON"
    BY <1>3 DEF Usual, LoopFits
  <2> QED
    BY <1>1, <1>2, <1>3, <2>1 DEF Usual, Straight, OnLine, Off, On
<1>4. CASE toc.pc = "data"
  <2>1. toc.sock = "ACTIVE"
    BY <1>4 DEF Usual, LoopFits
  <2> QED
    BY <1>1, <1>2, <1>4, <2>1 DEF Usual, Straight, OnLine, Off, On
<1> QED
  BY <1>1, <1>3, <1>4

LEMMA RestStraight ==
  ASSUME Usual(toc), toc.frames # <<>>, NEW d, d.mail = toc.mail, d.sock = toc.sock,
         OnLine(toc),
         d.server = toc.server \/ (toc.server = "greeted" /\ d.server = "login"),
         d.sock = "WAITING_SIGNON" => ~d.gotconfig,
         d.sock = "ACTIVE" => d.connectstate = 3 /\ d.gotconfig /\ (Listed(d) => d.buddy.uploaded),
         d.connected # "ACTIVE" => ~d.buddy.uploaded /\ d.buddybuf = <<>>
  PROVE  Straight(d)
BY DEF Usual, ListInv, Straight, OnLine

LEMMA OutOfStepLists == Usual(toc) /\ FrameOutOfStep => ListInv(toc')
<1> SUFFICES ASSUME Usual(toc), FrameOutOfStep PROVE ListInv(toc')
  OBVIOUS
<1> DEFINE r == Rest
           c == Renew(r)
<1>1. PICK resolved \in BOOLEAN : toc' = Ended(CallbackDisconnect(c, resolved))
  BY DEF FrameOutOfStep, InternalDisconnect, Return, Ended
<1>2. toc.frames # <<>> /\ toc \in Toc
  BY DEF FrameOutOfStep, Usual
<1>3. r \in Toc /\ r.connected = toc.connected /\ r.buddy = toc.buddy
  BY <1>2, RestLeaves
<1> HIDE DEF r
<1>4. r.connected # "ACTIVE" => ~r.buddy.uploaded
  BY <1>3 DEF Usual, ListInv, Straight
<1>5. c \in Toc /\ c.sock = "NOTCONNECTED" /\ c.buddybuf = <<>> /\ ListInv(c)
  BY <1>3, <1>4, RenewLeaves, RenewLists
<1> HIDE DEF c
<1> DEFINE e == CallbackDisconnect(c, resolved)
<1>6. e \in Toc /\ ListInv(e)
  BY <1>5, CallbackDisconnectLists, CallbackDisconnectIs
<1> HIDE DEF e
<1>7. ListInv(Ended(e))
  BY <1>6, EndedLists
<1> QED
  BY <1>1, <1>7 DEF e

LEMMA CountedLeaves ==
  ASSUME toc \in Toc, toc.frames # <<>>
  PROVE  /\ Counted \in Toc /\ Counted.sock = toc.sock /\ Counted.mail = toc.mail
         /\ Counted.server = toc.server /\ Counted.connected = toc.connected
         /\ Counted.connectstate = toc.connectstate /\ Counted.gotconfig = toc.gotconfig
         /\ Counted.buddy = toc.buddy /\ Counted.buddybuf = toc.buddybuf
         /\ Counted.stored = toc.stored /\ Counted.frames = Rest.frames
         /\ Counted.sync = IF toc.pc = "connecting" /\ toc.connectstate = 0
                           THEN IF First.old THEN "old" ELSE "this"
                           ELSE toc.sync
<1> DEFINE r == Rest
           s == IF First.old THEN "old" ELSE "this"
           c == Counted
<1>1. /\ r \in Toc /\ r.sock = toc.sock /\ r.mail = toc.mail
      /\ r.server = toc.server /\ r.connected = toc.connected
      /\ r.connectstate = toc.connectstate /\ r.gotconfig = toc.gotconfig
      /\ r.sync = toc.sync /\ r.buddy = toc.buddy /\ r.buddybuf = toc.buddybuf
      /\ r.stored = toc.stored
  BY RestLeaves
<1>2. c \in Toc
  BY CountedIs
<1>3. c = IF toc.pc = "connecting" /\ toc.connectstate = 0 THEN [r EXCEPT !.sync = s] ELSE r
  BY DEF Counted
<1> HIDE DEF r, s, c
<1>4. /\ c.sock = toc.sock /\ c.mail = toc.mail
      /\ c.server = toc.server /\ c.connected = toc.connected
      /\ c.connectstate = toc.connectstate /\ c.gotconfig = toc.gotconfig
      /\ c.buddy = toc.buddy /\ c.buddybuf = toc.buddybuf
      /\ c.stored = toc.stored /\ c.frames = r.frames
      /\ c.sync = IF toc.pc = "connecting" /\ toc.connectstate = 0 THEN s ELSE toc.sync
  BY <1>1, <1>3 DEF Toc
<1> QED
  BY <1>2, <1>4 DEF r, s, c

(* What a frame does to a view: without news the buddy stays where he is. *)
LEMMA ShownIs ==
  ASSUME NEW v \in Sight, NEW w \in Sight, NEW f, Shows(v, f, w)
  PROVE  /\ ~IsNews(f) => w.at = v.at
         /\ f.kind # "NICK" /\ v.due = "NICK" => w.due = "NICK"
         /\ f.kind = "SIGN_ON" => w.due = "NICK"
         /\ f.kind = "CONFIG2" => v.due = "nothing"
         /\ Climbs(v.level, f, w.level)
         /\ w.at = AfterNews(v.at, f)
<1>1. ~IsNews(f) => w.at = v.at
  BY ShowsNoNews
<1> QED
  BY <1>1 DEF Shows, DueAfter

LEMMA OtherTypeLists == Usual(toc) /\ FrameOfOtherType => ListInv(toc')
<1> SUFFICES ASSUME Usual(toc), FrameOfOtherType PROVE ListInv(toc')
  OBVIOUS
<1> DEFINE c == Counted
<1>1. toc' = Ended(c) /\ toc.frames # <<>> /\ toc.pc # "select" /\ ~OutOfStep /\ OtherType
  BY DEF FrameOfOtherType, Return, Ended
<1>2. /\ toc \in Toc /\ Straight(toc) /\ OnLine(toc)
      /\ toc.pc = "connecting" => toc.sock = "WAITING_SIGNON" /\ ~toc.gotconfig
      /\ toc.pc = "data" => toc.connectstate = 3 /\ toc.gotconfig
      /\ toc.pc \in {"connecting", "data"}
  BY <1>1, Reading
<1>3. /\ c \in Toc /\ c.sock = toc.sock /\ c.mail = toc.mail
      /\ c.server = toc.server /\ c.connected = toc.connected
      /\ c.connectstate = toc.connectstate /\ c.gotconfig = toc.gotconfig
      /\ c.buddy = toc.buddy /\ c.buddybuf = toc.buddybuf
      /\ c.stored = toc.stored /\ c.frames = Rest.frames
      /\ c.sync = IF toc.pc = "connecting" /\ toc.connectstate = 0
                  THEN IF First.old THEN "old" ELSE "this"
                  ELSE toc.sync
  BY <1>1, <1>2, CountedLeaves
<1> HIDE DEF c
<1>4. Listed(c) <=> Listed(toc)
  BY <1>3 DEF Listed
<1>5. Straight(c)
  BY <1>1, <1>2, <1>3, <1>4, RestStraight DEF Straight
<1>6. InSync(c) => InSync(toc)
  BY <1>2, <1>3 DEF InSync
<1>7. First.kind = "flap" \/ First.kind = "keepalive" \/ (toc.pc = "connecting" /\ toc.connectstate = 0)
  BY <1>1 DEF OtherType
<1>8. ASSUME NEW v \in Sight, NEW w \in Sight, SeenNow(toc, v), Shows(v, First, w)
      PROVE  SeenNow(c, w)
  <2>1. /\ ~IsNews(First) => w.at = v.at
        /\ First.kind # "NICK" /\ v.due = "NICK" => w.due = "NICK"
        /\ Climbs(v.level, First, w.level)
    BY <1>8, ShownIs
  <2>2. CASE toc.pc = "connecting" /\ toc.connectstate = 0
    <3>1. v.level = 0 /\ First.kind # "flap"
      BY <1>1, <1>2, <1>8, <2>2 DEF SeenNow, Stage, OtherType
    <3>2. w.level = 0
      BY <2>1, <3>1 DEF Climbs
    <3> QED
      BY <1>2, <1>3, <2>2, <3>2 DEF SeenNow, Stage, InSync
  <2>3. CASE ~(toc.pc = "connecting" /\ toc.connectstate = 0)
    <3>1. First.kind \in {"flap", "keepalive"} /\ First.old = (toc.sync = "old")
      BY <1>1, <1>7, <2>3 DEF OutOfStep
    <3>2. toc.connectstate # 0
      BY <1>2, <2>3
    <3>3. v.level = Stage(toc)
      BY <1>2, <1>8 DEF SeenNow
    <3>4. Stage(c) = Stage(toc) /\ (InSync(c) => InSync(toc))
      BY <1>3, <2>3 DEF Stage, InSync
    <3>5. w.level = v.level
      <4>1. CASE First.old
        BY <2>1, <4>1 DEF Climbs
      <4>2. CASE ~First.old
        <5>1. toc.sync # "old"
          BY <3>1, <4>2
        <5>2. v.level # 0
          BY <3>2, <3>3, <5>1 DEF Stage
        <5> QED
          BY <2>1, <3>1, <4>2, <5>2 DEF Climbs
      <4> QED
        BY <4>1, <4>2
    <3>6. w.at = v.at /\ (v.due = "NICK" => w.due = "NICK")
      BY <2>1, <3>1 DEF IsNews
    <3> QED
      BY <1>2, <1>3, <1>8, <3>3, <3>4, <3>5, <3>6 DEF SeenNow, OnLine
  <2> QED
    BY <2>2, <2>3
<1>9. ListInv(c)
  BY <1>1, <1>3, <1>5, <1>6, <1>8, ReadOn
<1> QED
  BY <1>1, <1>3, <1>9, EndedLists

(* toc_got_data_connecting. *)
LEMMA GreetedLists ==
  ASSUME Usual(toc), toc.frames # <<>>, toc.pc = "connecting", toc.connectstate = 0,
         First.kind = "flap",
         toc' = [Counted EXCEPT !.connectstate = 1, !.server = IF @ = "greeted" THEN "login" ELSE @]
  PROVE  ListInv(toc')
<1> DEFINE c == Counted
           one == 1
           server == IF c.server = "greeted" THEN "login" ELSE c.server
           d == toc'
<1>1. /\ toc \in Toc /\ Straight(toc) /\ OnLine(toc)
      /\ toc.sock = "WAITING_SIGNON" /\ ~toc.gotconfig
  BY Reading
<1>2. /\ c \in Toc /\ c.sock = toc.sock /\ c.mail = toc.mail
      /\ c.server = toc.server /\ c.connected = toc.connected
      /\ c.connectstate = toc.connectstate /\ c.gotconfig = toc.gotconfig
      /\ c.buddy = toc.buddy /\ c.buddybuf = toc.buddybuf
      /\ c.stored = toc.stored /\ c.frames = Rest.frames
      /\ c.sync = IF First.old THEN "old" ELSE "this"
  BY <1>1, CountedLeaves
<1>3. d = [c EXCEPT !.connectstate = one, !.server = server] /\ one = 1
  OBVIOUS
<1> HIDE DEF c, one, d
<1>4. /\ d.sock = toc.sock /\ d.mail = toc.mail /\ d.server = server
      /\ d.connected = toc.connected /\ d.connectstate = one /\ d.gotconfig = toc.gotconfig
      /\ d.buddy = toc.buddy /\ d.buddybuf = toc.buddybuf
      /\ d.stored = toc.stored /\ d.frames = Rest.frames /\ d.sync = c.sync
  BY <1>2, <1>3 DEF Toc
<1>5. d.server = toc.server \/ (toc.server = "greeted" /\ d.server = "login")
  BY <1>2, <1>4
<1>6. Straight(d) /\ ~InSync(d)
  BY <1>1, <1>4, <1>5, RestStraight DEF Straight, InSync
<1>7. ASSUME NEW v \in Sight, NEW w \in Sight, SeenNow(toc, v), Shows(v, First, w)
      PROVE  SeenNow(d, w)
  <2>1. v.level = 0
    BY <1>1, <1>7 DEF SeenNow, Stage
  <2>2. Climbs(v.level, First, w.level)
    BY <1>7, ShownIs
  <2>3. w.level = IF First.old THEN 0 ELSE 1
    BY <2>1, <2>2 DEF Climbs
  <2>4. Stage(d) = IF First.old THEN 0 ELSE 1
    BY <1>1, <1>2, <1>3, <1>4 DEF Stage
  <2> QED
    BY <1>1, <1>3, <1>4, <1>6, <2>3, <2>4 DEF SeenNow
<1>8. ListInv(d)
  BY <1>4, <1>5, <1>6, <1>7, ReadOn
<1> QED
  BY <1>8 DEF d

(* The frame is not the one that is waited for: but it has been seen. *)
LEMMA RestLists ==
  ASSUME Usual(toc), toc.frames # <<>>, toc.pc = "connecting", ~OutOfStep,
         \/ toc.connectstate = 1 /\ First.kind # "SIGN_ON"
         \/ toc.connectstate \in {2, 3} /\ First.kind \notin {"NICK", "CONFIG2"},
         ~OtherType
  PROVE  ListInv(Rest)
<1> DEFINE c == Rest
<1>1. /\ toc \in Toc /\ Straight(toc) /\ OnLine(toc)
      /\ toc.sock = "WAITING_SIGNON" /\ ~toc.gotconfig
  BY Reading
<1>2. /\ c \in Toc /\ c.sock = toc.sock /\ c.mail = toc.mail
      /\ c.server = toc.server /\ c.connected = toc.connected
      /\ c.connectstate = toc.connectstate /\ c.gotconfig = toc.gotconfig
      /\ c.sync = toc.sync /\ c.buddy = toc.buddy /\ c.buddybuf = toc.buddybuf
      /\ c.stored = toc.stored
  BY <1>1, RestLeaves
<1>3. First.old = (toc.sync = "old") /\ First.kind # "flap"
  BY DEF OutOfStep, OtherType
<1>4. c.frames = Rest.frames
  OBVIOUS
<1> HIDE DEF c
<1>5. Straight(c) /\ ~InSync(c)
  BY <1>1, <1>2, RestStraight DEF Straight, InSync
<1>6. ASSUME NEW v \in Sight, NEW w \in Sight, SeenNow(toc, v), Shows(v, First, w)
      PROVE  SeenNow(c, w)
  <2>1. /\ First.kind # "NICK" /\ v.due = "NICK" => w.due = "NICK"
        /\ Climbs(v.level, First, w.level)
    BY <1>6, ShownIs
  <2>2. v.level = Stage(toc) /\ Stage(c) = Stage(toc)
    BY <1>1, <1>2, <1>6 DEF SeenNow, Stage
  <2>3. w.level = v.level
    <3>1. CASE First.old
      BY <2>1, <3>1 DEF Climbs
    <3>2. CASE ~First.old
      <4>1. toc.sync # "old"
        BY <1>3, <3>2
      <4>2. v.level = toc.connectstate
        BY <1>1, <2>2, <4>1 DEF Stage
      <4>3. CASE toc.connectstate = 1
        BY <1>3, <2>1, <3>2, <4>2, <4>3 DEF Climbs
      <4>4. CASE toc.connectstate = 2
        BY <1>3, <2>1, <3>2, <4>2, <4>4 DEF Climbs
      <4>5. CASE toc.connectstate = 3
        BY <1>3, <2>1, <3>2, <4>2, <4>5 DEF Climbs
      <4> QED
        BY <4>3, <4>4, <4>5
    <3> QED
      BY <3>1, <3>2
  <2>4. toc.connectstate = 2 => w.due = "NICK"
    BY <1>6, <2>1 DEF SeenNow
  <2> QED
    BY <1>1, <1>2, <1>5, <2>2, <2>3, <2>4 DEF SeenNow
<1>7. c.server = toc.server
  BY <1>2
<1>8. ListInv(c)
  BY <1>2, <1>4, <1>5, <1>6, <1>7, ReadOn
<1> QED
  BY <1>8 DEF c

LEMMA FailedLists ==
  ASSUME Usual(toc), toc.frames # <<>>, toc.pc = "connecting", ListInv(Rest),
         NEW badUser \in BOOLEAN, NEW resolved \in BOOLEAN,
         Return(CallbackConnectFailed(Rest, badUser, resolved))
  PROVE  ListInv(toc')
<1> DEFINE r == Rest
           e == CallbackConnectFailed(r, badUser, resolved)
<1>1. toc' = Ended(e)
  BY DEF Return, Ended
<1>2. r \in Toc /\ r.connected # "ACTIVE" /\ ListInv(r)
  BY Reading, RestLeaves
<1> HIDE DEF r
<1>3. e \in Toc /\ ListInv(e)
  BY <1>2, ConnectFailedIs, ConnectFailedLists
<1> HIDE DEF e
<1> QED
  BY <1>1, <1>3, EndedLists

(* SIGN_ON, or NICK. *)
LEMMA FurtherLists ==
  ASSUME Usual(toc), toc.frames # <<>>, toc.pc = "connecting", ~OutOfStep,
         NEW n \in {2, 3},
         \/ n = 2 /\ toc.connectstate = 1 /\ First.kind = "SIGN_ON"
         \/ n = 3 /\ toc.connectstate \in {2, 3} /\ First.kind = "NICK",
         toc' = [Rest EXCEPT !.connectstate = n]
  PROVE  ListInv(toc')
<1> DEFINE c == Rest
           d == toc'
<1>1. /\ toc \in Toc /\ Straight(toc) /\ OnLine(toc)
      /\ toc.sock = "WAITING_SIGNON" /\ ~toc.gotconfig
  BY Reading
<1>2. /\ c \in Toc /\ c.sock = toc.sock /\ c.mail = toc.mail
      /\ c.server = toc.server /\ c.connected = toc.connected
      /\ c.gotconfig = toc.gotconfig
      /\ c.sync = toc.sync /\ c.buddy = toc.buddy /\ c.buddybuf = toc.buddybuf
      /\ c.stored = toc.stored
  BY <1>1, RestLeaves
<1>3. First.old = (toc.sync = "old")
  BY DEF OutOfStep
<1>4. d = [c EXCEPT !.connectstate = n] /\ c.frames = Rest.frames
  OBVIOUS
<1> HIDE DEF c, d
<1>5. /\ d.sock = toc.sock /\ d.mail = toc.mail /\ d.server = toc.server
      /\ d.connected = toc.connected /\ d.gotconfig = toc.gotconfig /\ d.connectstate = n
      /\ d.sync = toc.sync /\ d.buddy = toc.buddy /\ d.buddybuf = toc.buddybuf
      /\ d.stored = toc.stored /\ d.frames = Rest.frames
  BY <1>2, <1>4 DEF Toc
<1>6. Straight(d) /\ ~InSync(d)
  BY <1>1, <1>5, RestStraight DEF Straight, InSync
<1>7. ASSUME NEW v \in Sight, NEW w \in Sight, SeenNow(toc, v), Shows(v, First, w)
      PROVE  SeenNow(d, w)
  <2>1. Climbs(v.level, First, w.level) /\ (First.kind = "SIGN_ON" => w.due = "NICK")
    BY <1>7, ShownIs
  <2>2. v.level = Stage(toc)
    BY <1>1, <1>7 DEF SeenNow
  <2>3. w.level = Stage(d)
    <3>1. CASE First.old
      <4>1. toc.sync = "old"
        BY <1>3, <3>1
      <4> QED
        BY <1>5, <2>1, <3>1, <4>1 DEF Climbs, Stage
    <3>2. CASE ~First.old
      <4>1. toc.sync # "old"
        BY <1>3, <3>2
      <4>2. Stage(d) = n
        BY <1>1, <1>5, <4>1 DEF Stage
      <4>3. CASE n = 2
        BY <2>1, <3>2, <4>2, <4>3 DEF Climbs
      <4>4. CASE n = 3
        BY <2>1, <3>2, <4>2, <4>4 DEF Climbs
      <4> QED
        BY <4>3, <4>4
    <3> QED
      BY <3>1, <3>2
  <2>4. n = 2 => w.due = "NICK"
    BY <2>1
  <2> QED
    BY <1>1, <1>5, <1>6, <2>3, <2>4 DEF SeenNow
<1>8. ListInv(d)
  BY <1>5, <1>6, <1>7, ReadOn
<1> QED
  BY <1>8 DEF d

(* The buddies that CONFIG2 brings, and the batch at the end of the sign-on. *)
LEMMA ConfiguredLeaves ==
  ASSUME NEW t \in Toc, NEW groups \in SUBSET Groups, ~t.buddy.uploaded, t.buddybuf = <<>>
  PROVE  LET d == GotConfig(t, groups) IN
         /\ d \in Toc /\ d.sock = t.sock /\ d.mail = t.mail /\ d.server = t.server
         /\ d.frames = t.frames /\ d.connectstate = t.connectstate /\ d.gotconfig
         /\ d.sync = t.sync /\ d.buddybuf = <<>>
         /\ IF groups = {} THEN d.buddy = t.buddy /\ d.stored = t.stored
            ELSE \E last \in groups :
                   /\ d.buddy = [group |-> last, uploaded |-> TRUE]
                   /\ d.stored = IF Reaches(t) THEN t.stored \ (groups \ {last}) ELSE t.stored
<1> DEFINE last == CHOOSE g \in groups : TRUE
           taken == (groups \ {last}) \cup (IF Listed(t) /\ t.buddy.uploaded THEN {t.buddy.group} ELSE {})
           s == IF Reaches(t) THEN t.stored \ taken ELSE t.stored
           b == [group |-> last, uploaded |-> TRUE]
           d == GotConfig(t, groups)
<1>1. d \in Toc
  BY GotConfigIs
<1>2. d = [IF groups = {} THEN t ELSE [t EXCEPT !.stored = s, !.buddy = b] EXCEPT !.gotconfig = TRUE]
  BY DEF GotConfig
<1>3. taken = groups \ {last}
  OBVIOUS
<1>4. groups # {} => last \in groups
  OBVIOUS
<1> HIDE DEF last, taken, s, b, d
<1>5. CASE groups = {}
  <2>1. d = [t EXCEPT !.gotconfig = TRUE]
    BY <1>2, <1>5
  <2>2. /\ d.sock = t.sock /\ d.mail = t.mail /\ d.server = t.server
        /\ d.frames = t.frames /\ d.connectstate = t.connectstate /\ d.gotconfig
        /\ d.sync = t.sync /\ d.buddybuf = t.buddybuf /\ d.buddy = t.buddy /\ d.stored = t.stored
    BY <2>1 DEF Toc
  <2> QED
    BY <1>1, <1>5, <2>2 DEF d
<1>6. CASE groups # {}
  <2>1. d = [t EXCEPT !.stored = s, !.buddy = b, !.gotconfig = TRUE]
    BY <1>2, <1>6
  <2>2. /\ d.sock = t.sock /\ d.mail = t.mail /\ d.server = t.server
        /\ d.frames = t.frames /\ d.connectstate = t.connectstate /\ d.gotconfig
        /\ d.sync = t.sync /\ d.buddybuf = t.buddybuf /\ d.buddy = b /\ d.stored = s
    BY <2>1 DEF Toc
  <2>3. s = IF Reaches(t) THEN t.stored \ (groups \ {last}) ELSE t.stored
    BY <1>3 DEF s
  <2>4. last \in groups
    BY <1>4, <1>6
  <2>5. b = [group |-> last, uploaded |-> TRUE]
    BY DEF b
  <2> QED
    BY <1>1, <1>6, <2>2, <2>3, <2>4, <2>5 DEF d
<1> QED
  BY <1>5, <1>6

(* The buddy is in the batch, and marked. *)
LEMMA BatchLeaves ==
  ASSUME NEW t \in Toc, Listed(t)
  PROVE  LET d == Marked(ImAddBuddy(t, t.buddy.group), TRUE) IN
         /\ d \in Toc /\ d.sock = t.sock /\ d.mail = t.mail /\ d.server = t.server
         /\ d.frames = t.frames /\ d.connected = t.connected /\ d.connectstate = t.connectstate
         /\ d.gotconfig = t.gotconfig /\ d.sync = t.sync /\ d.stored = t.stored
         /\ d.buddy.group = t.buddy.group /\ d.buddy.uploaded = TRUE
         /\ d.buddybuf = IF t.gotconfig THEN Append(t.buddybuf, t.buddy.group) ELSE t.buddybuf
<1>1. t.buddy.group \in Groups
  BY DEF Toc, Listed
<1> DEFINE g == t.buddy.group
<1> HIDE DEF g
<1>2. t \in Toc /\ g \in Groups /\ TRUE \in BOOLEAN
  BY <1>1 DEF g
<1> DEFINE d == Marked(ImAddBuddy(t, g), TRUE)
<1>3. /\ d \in Toc /\ d.sock = t.sock /\ d.mail = t.mail /\ d.server = t.server
      /\ d.frames = t.frames /\ d.connected = t.connected /\ d.connectstate = t.connectstate
      /\ d.gotconfig = t.gotconfig /\ d.sync = t.sync /\ d.stored = t.stored
      /\ d.buddy.group = t.buddy.group /\ d.buddy.uploaded = TRUE
      /\ d.buddybuf = IF t.gotconfig THEN Append(t.buddybuf, g) ELSE t.buddybuf
  BY <1>2, AddLeaves, Zenon
<1> HIDE DEF d
<1> QED
  BY <1>3 DEF d, g

LEMMA UploadLeaves ==
  ASSUME NEW t \in Toc, t.gotconfig, t.buddybuf = <<>>
  PROVE  LET d == Upload(t) IN
         /\ d \in Toc /\ d.sock = t.sock /\ d.mail = t.mail /\ d.server = t.server
         /\ d.frames = t.frames /\ d.connected = t.connected /\ d.connectstate = t.connectstate
         /\ d.gotconfig /\ d.sync = t.sync /\ d.stored = t.stored
         /\ d.buddy.group = t.buddy.group /\ (Listed(d) => d.buddy.uploaded)
         /\ ToSet(d.buddybuf) = IF Listed(t) /\ ~t.buddy.uploaded THEN {t.buddy.group} ELSE {}
<1> DEFINE a == Marked(ImAddBuddy(t, t.buddy.group), TRUE)
           d == Upload(t)
<1>1. d = IF Listed(t) /\ ~t.buddy.uploaded THEN a ELSE t
  BY DEF Upload, Marked
<1> HIDE DEF d
<1>2. CASE Listed(t) /\ ~t.buddy.uploaded
  <2>1. /\ a \in Toc /\ a.sock = t.sock /\ a.mail = t.mail /\ a.server = t.server
        /\ a.frames = t.frames /\ a.connected = t.connected /\ a.connectstate = t.connectstate
        /\ a.gotconfig = t.gotconfig /\ a.sync = t.sync /\ a.stored = t.stored
        /\ a.buddy.group = t.buddy.group /\ a.buddy.uploaded = TRUE
        /\ a.buddybuf = IF t.gotconfig THEN Append(t.buddybuf, t.buddy.group) ELSE t.buddybuf
    BY <1>2, BatchLeaves
  <2>2. d = a
    BY <1>1, <1>2
  <2> HIDE DEF a
  <2>3. ToSet(a.buddybuf) = {t.buddy.group}
    BY <2>1, OneBuffered
  <2> QED
    BY <1>2, <2>1, <2>2, <2>3 DEF d
<1>3. CASE ~(Listed(t) /\ ~t.buddy.uploaded)
  <2>1. d = t
    BY <1>1, <1>3
  <2>2. ToSet(t.buddybuf) = {}
    BY OneBuffered
  <2> QED
    BY <1>3, <2>1, <2>2 DEF d
<1> QED
  BY <1>2, <1>3

(* The client is signed on, and its list is the one that the server has sent. *)
LEMMA SignedOnLeaves ==
  ASSUME NEW t \in Toc, NEW groups \in SUBSET Groups, ~t.buddy.uploaded, t.buddybuf = <<>>,
         NEW up, Online(GotConfig(t, groups)), world = {}, up = toc'
  PROVE  /\ up.sock = "ACTIVE" /\ up.connected = "ACTIVE" /\ up.mail = t.mail
         /\ up.frames = t.frames /\ up.server = t.server /\ up.connectstate = t.connectstate
         /\ up.gotconfig /\ up.sync = t.sync /\ (Listed(up) => up.buddy.uploaded)
         /\ up.buddy.group \in Groups \cup {NoGroup}
         /\ Reaches(t) /\ groups = t.stored =>
              up.stored \cup ToSet(up.buddybuf) = {up.buddy.group} \ {NoGroup}
<1> USE Toc2Assumption
<1> DEFINE c == GotConfig(t, groups)
           w == [c EXCEPT !.connected = "WAITING_SIGNON"]
           r == Upload(w)
           one == 1
<1>1. up = [[r EXCEPT !.sock = "ACTIVE", !.connected = "ACTIVE", !.online = one] EXCEPT !.pc = "select"]
  BY DEF Online, Return
<1>2. /\ c \in Toc /\ c.sock = t.sock /\ c.mail = t.mail /\ c.server = t.server
      /\ c.frames = t.frames /\ c.connectstate = t.connectstate /\ c.gotconfig
      /\ c.sync = t.sync /\ c.buddybuf = <<>>
      /\ IF groups = {} THEN c.buddy = t.buddy /\ c.stored = t.stored
         ELSE \E last \in groups :
                /\ c.buddy = [group |-> last, uploaded |-> TRUE]
                /\ c.stored = IF Reaches(t) THEN t.stored \ (groups \ {last}) ELSE t.stored
  BY ConfiguredLeaves
<1> HIDE DEF c
<1>3. /\ w \in Toc /\ w.sock = c.sock /\ w.mail = c.mail /\ w.server = c.server
      /\ w.frames = c.frames /\ w.connectstate = c.connectstate /\ w.gotconfig
      /\ w.sync = c.sync /\ w.buddybuf = c.buddybuf /\ w.buddy = c.buddy /\ w.stored = c.stored
  BY <1>2 DEF Toc
<1> HIDE DEF w
<1>4. w.buddybuf = <<>>
  BY <1>2, <1>3
<1>5. /\ r \in Toc /\ r.sock = w.sock /\ r.mail = w.mail /\ r.server = w.server
      /\ r.frames = w.frames /\ r.connectstate = w.connectstate
      /\ r.gotconfig /\ r.sync = w.sync /\ r.stored = w.stored
      /\ r.buddy.group = w.buddy.group /\ (Listed(r) => r.buddy.uploaded)
      /\ ToSet(r.buddybuf) = IF Listed(w) /\ ~w.buddy.uploaded THEN {w.buddy.group} ELSE {}
  BY <1>3, <1>4, UploadLeaves
<1> HIDE DEF r, one
<1>6. /\ up.sock = "ACTIVE" /\ up.connected = "ACTIVE" /\ up.mail = r.mail
      /\ up.frames = r.frames /\ up.server = r.server /\ up.connectstate = r.connectstate
      /\ up.gotconfig /\ up.sync = r.sync /\ up.buddy = r.buddy /\ up.stored = r.stored
      /\ up.buddybuf = r.buddybuf
  BY <1>1, <1>5 DEF Toc
<1>7. (Listed(up) => up.buddy.uploaded) /\ up.buddy.group = c.buddy.group
      /\ up.buddy.group \in Groups \cup {NoGroup}
  BY <1>3, <1>5, <1>6 DEF Listed, Toc
<1>8. ASSUME Reaches(t), groups = t.stored
      PROVE  up.stored \cup ToSet(up.buddybuf) = {up.buddy.group} \ {NoGroup}
  <2>1. up.stored = c.stored /\ ToSet(up.buddybuf) = IF Listed(c) /\ ~c.buddy.uploaded THEN {c.buddy.group} ELSE {}
    BY <1>3, <1>5, <1>6 DEF Listed
  <2>2. CASE groups = {}
    <3>1. c.buddy = t.buddy /\ c.stored = {}
      BY <1>2, <1>8, <2>2
    <3> QED
      BY <1>7, <2>1, <3>1 DEF Listed
  <2>3. CASE groups # {}
    <3>1. PICK last \in groups : /\ c.buddy = [group |-> last, uploaded |-> TRUE]
                                 /\ c.stored = t.stored \ (groups \ {last})
      BY <1>2, <1>8, <2>3
    <3>2. c.stored = {last} /\ last # NoGroup /\ c.buddy.group = last /\ c.buddy.uploaded = TRUE
      BY <1>8, <3>1
    <3> QED
      BY <1>7, <2>1, <3>2
  <2> QED
    BY <2>2, <2>3
<1>9. /\ up.mail = t.mail /\ up.frames = t.frames /\ up.server = t.server
      /\ up.connectstate = t.connectstate /\ up.sync = t.sync
  BY <1>2, <1>3, <1>5, <1>6
<1> QED
  BY <1>6, <1>7, <1>8, <1>9

LEMMA ConfigLists ==
  ASSUME Usual(toc), toc.frames # <<>>, toc.pc = "connecting", ~OutOfStep,
         toc.connectstate = 3, First.kind = "CONFIG2", Online(GotConfig(Rest, First.groups))
  PROVE  ListInv(toc')
<1> DEFINE r == Rest
           d == toc'
           groups == First.groups
<1>1. /\ toc \in Toc /\ Straight(toc) /\ OnLine(toc) /\ world = {}
      /\ toc.sock = "WAITING_SIGNON" /\ ~toc.gotconfig /\ toc.connected # "ACTIVE"
      /\ ~toc.buddy.uploaded /\ toc.buddybuf = <<>> /\ toc.server # "off"
  BY Reading DEF Straight
<1>2. /\ r \in Toc /\ r.sock = toc.sock /\ r.mail = toc.mail
      /\ r.server = toc.server /\ r.connectstate = toc.connectstate
      /\ r.sync = toc.sync /\ r.buddy = toc.buddy /\ r.buddybuf = toc.buddybuf
      /\ r.stored = toc.stored
  BY <1>1, RestLeaves
<1>3. groups \in SUBSET Groups /\ First \in Frame
  BY <1>1, RestIs DEF Frame
<1>4. First.old = (toc.sync = "old")
  BY DEF OutOfStep
<1>5. Online(GotConfig(r, groups)) /\ r.frames = Rest.frames
  OBVIOUS
<1> HIDE DEF r, d
<1>6. ~r.buddy.uploaded /\ r.buddybuf = <<>>
  BY <1>1, <1>2
<1>7. d = toc'
  BY DEF d
<1>8. /\ d.sock = "ACTIVE" /\ d.connected = "ACTIVE" /\ d.mail = r.mail
      /\ d.frames = r.frames /\ d.server = r.server /\ d.connectstate = r.connectstate
      /\ d.gotconfig /\ d.sync = r.sync /\ (Listed(d) => d.buddy.uploaded)
      /\ d.buddy.group \in Groups \cup {NoGroup}
      /\ Reaches(r) /\ groups = r.stored =>
           d.stored \cup ToSet(d.buddybuf) = {d.buddy.group} \ {NoGroup}
  BY <1>1, <1>2, <1>3, <1>5, <1>6, <1>7, SignedOnLeaves
<1>9. d.frames = Rest.frames /\ d.mail = toc.mail /\ d.server = toc.server
      /\ d.connectstate = 3 /\ d.sync = toc.sync
  BY <1>2, <1>5, <1>8
<1>10. Straight(d) /\ OnLine(d)
  BY <1>1, <1>8, <1>9 DEF Straight, OnLine
<1>11. PICK v \in Sight, w \in Sight, x \in Sight :
         SeenNow(toc, v) /\ Shows(v, First, w) /\ Brings(w, Ahead(d), x) /\ SeenLast(toc, x)
  BY <1>9, HeadRead
<1>12. Climbs(v.level, First, w.level) /\ v.level = Stage(toc)
  BY <1>1, <1>11, ShownIs DEF SeenNow
<1>13. /\ Ahead(toc) \in Seq(Frame) /\ Ahead(toc) # <<>> /\ First = Head(Ahead(toc))
       /\ Ahead(d) = Tail(Ahead(toc)) /\ Ahead(d) \in Seq(Frame)
  BY <1>1, <1>9, RestAhead
<1> HIDE DEF groups
<1>14. CASE toc.sync = "old"
  <2>1. ~InSync(d) /\ Stage(d) = 0
    BY <1>9, <1>14 DEF InSync, Stage
  <2>2. w.level = 0
    BY <1>4, <1>12, <1>14 DEF Climbs
  <2>3. SeenNow(d, w)
    BY <1>8, <1>9, <2>1, <2>2 DEF SeenNow
  <2>4. SeenLast(d, x)
    BY <1>1, <1>8, <1>9, <1>11, <2>1 DEF SeenLast
  <2>5. Accounted(d)
    BY <1>11, <2>3, <2>4 DEF Accounted
  <2> QED
    BY <1>8, <1>9, <1>10, <2>1, <2>5, ReadLists DEF d
<1>15. CASE toc.sync # "old"
  <2>1. ~First.old /\ w.level = 4 /\ Stage(d) = 4
    <3>1. ~First.old
      BY <1>4, <1>15
    <3>2. v.level = 3
      BY <1>1, <1>12, <1>15 DEF Stage
    <3>3. w.level = 4
      BY <1>12, <3>1, <3>2 DEF Climbs
    <3>4. Stage(d) = 4
      BY <1>8, <1>9, <1>15 DEF Stage
    <3> QED
      BY <3>1, <3>3, <3>4
  <2>2. (\A i \in DOMAIN Ahead(d) : ~Ahead(d)[i].old) /\ x.level = 4
    <3>1. w.level # 0 /\ Brings(w, Ahead(d), x) /\ Ahead(d) \in Seq(Frame)
      BY <1>11, <1>13, <2>1
    <3> QED
      BY <2>1, <3>1, BringsNew, Zenon
  <2>3. /\ First = Ahead(toc)[1] /\ 1 \in DOMAIN Ahead(toc)
        /\ \A i \in DOMAIN Ahead(d) : i + 1 \in DOMAIN Ahead(toc) /\ Ahead(d)[i] = Ahead(toc)[i + 1]
    BY <1>13, TailIs
  <2>4. \A i \in DOMAIN Ahead(toc) : Timely(Ahead(toc)[i], toc.stored)
    BY <1>1 DEF Usual, ListInv, Signing
  <2>5. Newsless(Ahead(d))
    BY <2>2, <2>3, <2>4 DEF Newsless, Timely
  <2>6. groups = toc.stored
    BY <2>1, <2>3, <2>4 DEF Timely, groups
  <2> DEFINE g == d.buddy.group
             y == [w EXCEPT !.at = g]
             z == [x EXCEPT !.at = g]
  <2>7. g \in Groups \cup {NoGroup}
    BY <1>8
  <2>8. Brings(y, Ahead(d), z)
    BY <1>11, <1>13, <2>5, <2>7, BringsNoNews
  <2>9. /\ y \in Sight /\ y.at = g /\ y.level = w.level /\ y.due = w.due
        /\ z \in Sight /\ z.at = g /\ z.level = x.level /\ z.due = x.due
    BY <2>7 DEF Sight
  <2> HIDE DEF y, z
  <2>10. SeenNow(d, y)
    BY <1>8, <1>9, <2>1, <2>9 DEF SeenNow
  <2>11. toc.server = "on" => Reaches(r)
    BY <1>1, <1>2 DEF Reaches
  <2>12. d.server = "on" => d.stored \cup ToSet(d.buddybuf) = {z.at} \ {NoGroup}
    BY <1>2, <1>8, <1>9, <2>6, <2>9, <2>11
  <2>13. SeenLast(d, z)
    BY <1>1, <1>8, <1>9, <1>11, <2>9, <2>12 DEF SeenLast
  <2>14. Accounted(d)
    BY <2>8, <2>9, <2>10, <2>13 DEF Accounted
  <2> QED
    BY <1>8, <1>9, <1>10, <2>5, <2>14, ReadLists DEF d
<1> QED
  BY <1>14, <1>15

LEMMA ConnectingLists == Usual(toc) /\ ConnectingFrame => ListInv(toc')
<1> SUFFICES ASSUME Usual(toc), ConnectingFrame PROVE ListInv(toc')
  OBVIOUS
<1>1. toc.pc = "connecting" /\ toc.frames # <<>> /\ ~OutOfStep /\ ~OtherType
  BY DEF ConnectingFrame, Parsing
<1>2. toc \in Toc /\ toc.sock = "WAITING_SIGNON" /\ ~toc.gotconfig /\ toc.connectstate \in 0..3
  BY <1>1, Reading DEF Toc
<1>3. Rest \in Toc /\ ~Rest.gotconfig /\ Rest.connectstate = toc.connectstate
  BY <1>1, <1>2, RestLeaves
<1>4. CASE toc.connectstate = 0
  <2>1. toc' = [Counted EXCEPT !.connectstate = 1, !.server = IF @ = "greeted" THEN "login" ELSE @]
    <3>1. Greeted
      BY <1>4 DEF ConnectingFrame
    <3> QED
      BY <3>1 DEF Greeted, Continue, Usual
  <2>2. First.kind = "flap"
    BY <1>1, <1>4 DEF OtherType
  <2> QED
    BY <1>1, <1>4, <2>1, <2>2, GreetedLists
<1>5. CASE toc.connectstate = 1
  <2>1. CASE First.kind = "SIGN_ON"
    <3>1. toc' = [Rest EXCEPT !.connectstate = 2] /\ 2 \in {2, 3}
      BY <1>5, <2>1 DEF ConnectingFrame, Continue
    <3> QED
      BY <1>1, <1>5, <2>1, <3>1, FurtherLists
  <2>2. CASE First.kind # "SIGN_ON"
    <3>1. PICK badUser \in BOOLEAN, resolved \in BOOLEAN :
            Return(CallbackConnectFailed(Rest, badUser, resolved))
      BY <1>5, <2>2 DEF ConnectingFrame
    <3>2. ListInv(Rest)
      BY <1>1, <1>5, <2>2, RestLists
    <3> QED
      BY <1>1, <3>1, <3>2, FailedLists
  <2> QED
    BY <2>1, <2>2
<1>6. CASE toc.connectstate \in {2, 3}
  <2> DEFINE nick == [Rest EXCEPT !.connectstate = 3]
             c == GotConfig(Rest, First.groups)
             t == IF First.kind = "NICK" THEN nick ELSE c
  <2>1. IF First.kind \notin {"NICK", "CONFIG2"}
        THEN Return(CallbackConnectFailed(Rest, FALSE, TRUE))
        ELSE IF t.gotconfig /\ t.connectstate = 3 THEN Online(t) ELSE Continue(t)
    <3>1. toc.connectstate # 0 /\ toc.connectstate # 1
      BY <1>6
    <3> QED
      BY <1>6, <3>1 DEF ConnectingFrame
  <2>2. CASE First.kind \notin {"NICK", "CONFIG2"}
    <3>1. Return(CallbackConnectFailed(Rest, FALSE, TRUE)) /\ FALSE \in BOOLEAN /\ TRUE \in BOOLEAN
      BY <2>1, <2>2
    <3>2. ListInv(Rest)
      BY <1>1, <1>6, <2>2, RestLists
    <3> QED
      BY <1>1, <3>1, <3>2, FailedLists
  <2>3. CASE First.kind = "NICK"
    <3>1. t = nick /\ ~nick.gotconfig
      BY <1>3, <2>3 DEF Toc
    <3>2. toc' = nick
      BY <2>1, <2>3, <3>1 DEF Continue
    <3>3. toc' = [Rest EXCEPT !.connectstate = 3] /\ 3 \in {2, 3}
      BY <3>2
    <3> QED
      BY <1>1, <1>6, <2>3, <3>3, FurtherLists
  <2>4. CASE First.kind = "CONFIG2"
    <3>1. First.groups \in SUBSET Groups
      BY <1>1, <1>2, RestIs DEF Frame
    <3>2. ~Rest.buddy.uploaded /\ Rest.buddybuf = <<>>
      BY <1>1, <1>2, Reading, RestLeaves DEF Straight
    <3>3. c.gotconfig /\ c.connectstate = toc.connectstate
      BY <1>3, <3>1, <3>2, ConfiguredLeaves
    <3>4. PICK v \in Sight, w \in Sight : SeenNow(toc, v) /\ Shows(v, First, w)
      BY <1>1, HeadRead, RestLeaves, <1>2
    <3>5. toc.connectstate = 3
      <4>1. v.due = "nothing"
        BY <2>4, <3>4, ShownIs
      <4> QED
        BY <1>6, <3>4, <4>1 DEF SeenNow
    <3>6. Online(c)
      BY <2>1, <2>4, <3>3, <3>5
    <3> QED
      BY <1>1, <2>4, <3>5, <3>6, ConfigLists
  <2> QED
    BY <2>2, <2>3, <2>4
<1> QED
  BY <1>2, <1>4, <1>5, <1>6

(* toc_got_data. *)
LEMMA BuddyAddedLeaves ==
  ASSUME NEW t \in Toc, NEW g \in Groups
  PROVE  LET d == CallbackBuddyAdded(t, g) IN
         /\ d.sock = t.sock /\ d.mail = t.mail /\ d.server = t.server /\ d.frames = t.frames
         /\ d.connected = t.connected /\ d.connectstate = t.connectstate
         /\ d.gotconfig = t.gotconfig /\ d.sync = t.sync /\ d.buddybuf = t.buddybuf
         /\ d.stored = t.stored /\ d.buddy.group = g /\ d.buddy.uploaded
<1> DEFINE no == FALSE
           m == Marked(t, no)
           p == Placed(m, g)
           b == [p.buddy EXCEPT !.uploaded = TRUE]
           d == CallbackBuddyAdded(t, g)
<1>1. d = [p EXCEPT !.buddy = b]
  BY DEF CallbackBuddyAdded, Marked
<1>2. no \in BOOLEAN /\ ~no
  OBVIOUS
<1> HIDE DEF no
<1>3. /\ m \in Toc /\ m.sock = t.sock /\ m.mail = t.mail /\ m.server = t.server
      /\ m.frames = t.frames /\ m.connected = t.connected /\ m.connectstate = t.connectstate
      /\ m.gotconfig = t.gotconfig /\ m.sync = t.sync /\ m.buddybuf = t.buddybuf
      /\ m.stored = t.stored /\ m.buddy.uploaded = no
  <2> DEFINE k == [t.buddy EXCEPT !.uploaded = no]
  <2>1. m \in Toc /\ k.uploaded = no
    BY <1>2, MarkedIs DEF Toc
  <2>2. m = [t EXCEPT !.buddy = k]
    BY DEF Marked
  <2> HIDE DEF k, m
  <2> QED
    BY <2>1, <2>2 DEF Toc
<1> HIDE DEF m
<1> DEFINE gone == m.connected # "NOTCONNECTED" /\ Listed(m) /\ m.buddy.uploaded /\ m.buddy.group # g
<1>4. /\ p \in Toc /\ p.sock = m.sock /\ p.mail = m.mail /\ p.server = m.server
      /\ p.frames = m.frames /\ p.connected = m.connected /\ p.connectstate = m.connectstate
      /\ p.gotconfig = m.gotconfig /\ p.sync = m.sync /\ p.buddybuf = m.buddybuf
      /\ p.buddy.group = g
      /\ p.stored = IF gone /\ Reaches(m) THEN m.stored \ {m.buddy.group} ELSE m.stored
  BY <1>3, PlacedLeaves
<1>5. ~gone
  BY <1>2, <1>3
<1> HIDE DEF p, gone, d
<1>6. p.stored = m.stored
  BY <1>4, <1>5
<1>7. b.group = g /\ b.uploaded
  BY <1>4 DEF Toc
<1> HIDE DEF b
<1>8. /\ d.sock = p.sock /\ d.mail = p.mail /\ d.server = p.server /\ d.frames = p.frames
      /\ d.connected = p.connected /\ d.connectstate = p.connectstate
      /\ d.gotconfig = p.gotconfig /\ d.sync = p.sync /\ d.buddybuf = p.buddybuf
      /\ d.stored = p.stored /\ d.buddy = b
  BY <1>1, <1>4 DEF Toc
<1> QED
  BY <1>3, <1>4, <1>6, <1>7, <1>8 DEF d

LEMMA BuddyRemovedLeaves ==
  ASSUME NEW t \in Toc, NEW g
  PROVE  LET d == CallbackBuddyRemoved(t, g) IN
         /\ d.sock = t.sock /\ d.mail = t.mail /\ d.server = t.server /\ d.frames = t.frames
         /\ d.connected = t.connected /\ d.connectstate = t.connectstate
         /\ d.gotconfig = t.gotconfig /\ d.sync = t.sync /\ d.buddybuf = t.buddybuf
         /\ d.stored = t.stored
         /\ IF t.buddy.group = g THEN d.buddy = [group |-> NoGroup, uploaded |-> FALSE]
            ELSE d.buddy = t.buddy
BY DEF CallbackBuddyRemoved, Toc

LEMMA DataLists == Usual(toc) /\ DataFrame => ListInv(toc')
<1> SUFFICES ASSUME Usual(toc), DataFrame PROVE ListInv(toc')
  OBVIOUS
<1> DEFINE r == Rest
           d == toc'
           g == NewsOf(First)
<1>1. toc.pc = "data" /\ toc.frames # <<>> /\ ~OutOfStep /\ ~OtherType
  BY DEF DataFrame, Parsing
<1>2. /\ toc \in Toc /\ Straight(toc) /\ OnLine(toc) /\ toc.sock = "ACTIVE"
      /\ toc.connected = "ACTIVE" /\ toc.connectstate = 3 /\ toc.gotconfig
      /\ (Listed(toc) => toc.buddy.uploaded)
  BY <1>1, Reading
<1>3. /\ r \in Toc /\ r.sock = toc.sock /\ r.mail = toc.mail
      /\ r.server = toc.server /\ r.connected = toc.connected
      /\ r.connectstate = toc.connectstate /\ r.gotconfig = toc.gotconfig
      /\ r.sync = toc.sync /\ r.buddy = toc.buddy /\ r.buddybuf = toc.buddybuf
      /\ r.stored = toc.stored
  BY <1>1, <1>2, RestLeaves
<1>4. First \in Frame /\ First.kind # "PAUSE"
  BY <1>1, <1>2, RestIs DEF Usual
<1>5. First.old = (toc.sync = "old")
  BY <1>1 DEF OutOfStep
<1>6. \/ First.kind = "INSERTED2" /\ d = CallbackBuddyAdded(r, g)
      \/ First.kind = "DELETED2" /\ d = CallbackBuddyRemoved(r, g)
      \/ First.kind \notin {"INSERTED2", "DELETED2"} /\ d = r
  BY <1>4 DEF DataFrame, Continue, NewsOf
<1>7. First.kind = "INSERTED2" => g \in Groups
  BY <1>4 DEF Frame, NewsOf
<1>8. r.frames = Rest.frames
  OBVIOUS
<1> HIDE DEF r, d, g
<1>9. /\ d.sock = r.sock /\ d.mail = r.mail /\ d.server = r.server /\ d.frames = r.frames
      /\ d.connected = r.connected /\ d.connectstate = r.connectstate
      /\ d.gotconfig = r.gotconfig /\ d.sync = r.sync /\ d.buddybuf = r.buddybuf
      /\ d.stored = r.stored
  BY <1>3, <1>6, <1>7, BuddyAddedLeaves, BuddyRemovedLeaves
<1>10. /\ First.kind = "INSERTED2" => d.buddy.group = g /\ d.buddy.uploaded
       /\ First.kind = "DELETED2" =>
            IF toc.buddy.group = g THEN d.buddy = [group |-> NoGroup, uploaded |-> FALSE]
            ELSE d.buddy = toc.buddy
       /\ First.kind \notin {"INSERTED2", "DELETED2"} => d.buddy = toc.buddy
  <2>1. ASSUME First.kind = "INSERTED2" PROVE d.buddy.group = g /\ d.buddy.uploaded
    <3>1. g \in Groups /\ r \in Toc /\ d = CallbackBuddyAdded(r, g)
      BY <1>3, <1>6, <1>7, <2>1
    <3> QED
      BY <3>1, BuddyAddedLeaves
  <2>2. ASSUME First.kind = "DELETED2"
        PROVE  IF toc.buddy.group = g THEN d.buddy = [group |-> NoGroup, uploaded |-> FALSE]
               ELSE d.buddy = toc.buddy
    <3>1. r \in Toc /\ d = CallbackBuddyRemoved(r, g)
      BY <1>3, <1>6, <2>2
    <3>2. IF r.buddy.group = g THEN d.buddy = [group |-> NoGroup, uploaded |-> FALSE]
          ELSE d.buddy = r.buddy
      BY <3>1 DEF CallbackBuddyRemoved, Toc
    <3> QED
      BY <1>3, <3>2
  <2>3. ASSUME First.kind \notin {"INSERTED2", "DELETED2"} PROVE d.buddy = toc.buddy
    BY <1>3, <1>6, <2>3
  <2> QED
    BY <2>1, <2>2, <2>3
<1>11. Listed(d) => d.buddy.uploaded
  BY <1>2, <1>10 DEF Listed
<1>12. Straight(d)
  BY <1>1, <1>2, <1>3, <1>9, <1>11, RestStraight
<1>13. (InSync(d) <=> InSync(toc)) /\ Stage(d) = Stage(toc)
  BY <1>3, <1>9 DEF InSync, Stage
<1>14. ASSUME NEW v \in Sight, NEW w \in Sight, SeenNow(toc, v), Shows(v, First, w)
       PROVE  SeenNow(d, w)
  <2>1. Climbs(v.level, First, w.level) /\ w.at = AfterNews(v.at, First)
    BY <1>14, ShownIs
  <2>2. v.level = Stage(toc)
    BY <1>2, <1>14 DEF SeenNow
  <2>3. w.level = v.level
    <3>1. CASE First.old
      BY <2>1, <3>1 DEF Climbs
    <3>2. CASE ~First.old
      <4>1. toc.sync # "old"
        BY <1>5, <3>2
      <4>2. v.level = 4
        BY <1>2, <2>2, <4>1 DEF Stage
      <4> QED
        BY <2>1, <3>2, <4>2 DEF Climbs
    <3> QED
      BY <3>1, <3>2
  <2>4. InSync(d) => w.at = d.buddy.group
    <3>1. SUFFICES ASSUME InSync(d) PROVE w.at = d.buddy.group
      OBVIOUS
    <3>2. v.at = toc.buddy.group
      BY <1>13, <1>14, <3>1 DEF SeenNow
    <3>3. w.at = IF First.kind = "INSERTED2" THEN g
                 ELSE IF First.kind = "DELETED2" /\ v.at = g THEN NoGroup ELSE v.at
      BY <2>1 DEF AfterNews, g
    <3> QED
      BY <1>10, <3>2, <3>3
  <2> QED
    BY <1>2, <1>3, <1>9, <1>13, <2>2, <2>3, <2>4 DEF SeenNow
<1>15. ListInv(d)
  BY <1>1, <1>3, <1>8, <1>9, <1>12, <1>13, <1>14, ReadOn
<1> QED
  BY <1>15 DEF d
-----------------------------------------------------------------------------
LEMMA TocListsBegin == TocInit => TocListInv
<1> SUFFICES ASSUME TocInit, world = {} PROVE ListInv(toc)
  BY TocBegins DEF TocListInv
<1>1. /\ toc.sock = "NOTCONNECTED" /\ toc.connectstate = 0 /\ toc.frames = <<>> /\ toc.mail = <<>>
      /\ toc.server = "off" /\ toc.connected = "NOTCONNECTED" /\ toc.buddybuf = <<>>
      /\ ~toc.buddy.uploaded
  BY DEF TocInit
<1>2. Straight(toc) /\ ~InSync(toc) /\ ~OnLine(toc)
  BY <1>1 DEF Straight, InSync, OnLine
<1>3. Ahead(toc) = <<>>
  BY <1>1 DEF Ahead
<1>4. Signing(toc)
  BY <1>1 DEF Signing
<1> DEFINE v == [due |-> "nothing", level |-> 0, at |-> NoGroup]
<1>5. v \in Sight
  <2>1. 0 \in 0..4
    OBVIOUS
  <2> QED
    BY <2>1 DEF Sight
<1>6. Brings(v, <<>>, v)
  BY <1>5, BringsHere
<1>7. SeenNow(toc, v) /\ SeenLast(toc, v)
  BY <1>1, <1>2 DEF SeenNow, SeenLast
<1>8. Accounted(toc)
  BY <1>3, <1>5, <1>6, <1>7 DEF Accounted
<1> QED
  BY <1>2, <1>4, <1>8 DEF ListInv

LEMMA TocListSteps == TocListInv /\ TocNext => TocListInv'
<1> SUFFICES ASSUME TocListInv, TocNext PROVE TocListInv'
  OBVIOUS
<1>1. TocInv'
  BY TocSteps DEF TocListInv
<1>2. UNCHANGED world
  <2>1. /\ UserConnect \/ UserDisconnect \/ UserRemoveBuddy \/ UserSendFails => UNCHANGED world
        /\ \A g \in Groups : UserAddBuddy(g) => UNCHANGED world
    BY DEF UserConnect, UserDisconnect, UserRemoveBuddy, UserSendFails, UserAddBuddy
  <2>2. SignsOn \/ Chatters \/ ChangedElsewhere \/ PeerLost => UNCHANGED world
    BY DEF SignsOn, Sends, Chatters, ChangedElsewhere, PeerLost
  <2>3. PollError \/ PollSynack \/ PollData \/ PollNothing => UNCHANGED world
    BY DEF PollError, PollSynack, PollData, PollNothing
  <2>4. NoFrame \/ FrameOutOfStep \/ FrameOfOtherType \/ DataFrame => UNCHANGED world
    BY DEF NoFrame, Return, FrameOutOfStep, FrameOfOtherType, DataFrame, Continue
  <2>5. ConnectingFrame => UNCHANGED world
    <3>1. \A t : Return(t) \/ Continue(t) => UNCHANGED world
      BY DEF Return, Continue
    <3>2. \A t : Online(t) => UNCHANGED world
      BY <3>1 DEF Online
    <3>3. ConnectingFrame => UNCHANGED world
      <4>1. ASSUME ConnectingFrame, toc.connectstate = 0 PROVE UNCHANGED world
        <5>1. Greeted
          BY <4>1 DEF ConnectingFrame
        <5> QED
          BY <3>1, <5>1 DEF Greeted
      <4>2. ASSUME ConnectingFrame, toc.connectstate = 1 PROVE UNCHANGED world
        BY <3>1, <4>2 DEF ConnectingFrame
      <4>3. ASSUME ConnectingFrame, toc.connectstate \in {2, 3} PROVE UNCHANGED world
        <5>1. toc.connectstate # 0 /\ toc.connectstate # 1
          BY <4>3
        <5> QED
          BY <3>1, <3>2, <4>3, <5>1 DEF ConnectingFrame
      <4>4. toc.connectstate \in 0..3
        BY DEF TocListInv, TocInv, Toc
      <4> QED
        BY <4>1, <4>2, <4>3, <4>4
    <3> QED
      BY <3>3
  <2> QED
    BY <2>1, <2>2, <2>3, <2>4, <2>5 DEF TocNext
<1>3. ASSUME world = {} PROVE ListInv(toc')
  <2>1. Usual(toc)
    BY <1>3 DEF TocListInv, TocInv, Usual
  <2>2. ~UserSendFails
    BY <1>3 DEF UserSendFails
  <2> QED
    BY <2>1, <2>2, UserConnectLists, UserDisconnectLists, UserRemoveLists, UserAddLists,
       SignsOnLists, ChattersLists, ElsewhereLists, PeerLostLists, PollErrorLists,
       PollSynackLists, PollDataLists, PollNothingLists, NoFrameLists, OutOfStepLists,
       OtherTypeLists, ConnectingLists, DataLists DEF TocNext
<1>4. ListInv(toc)' <=> ListInv(toc')
  BY DEF ListInv, Straight, Signing, Accounted, InSync, Newsless, Ahead, OnLine, Listed, SeenNow,
         SeenLast, Stage
<1> QED
  BY <1>1, <1>2, <1>3, <1>4 DEF TocListInv

LEMMA TocListsRest == TocListInv /\ UNCHANGED tocVars => TocListInv'
<1> SUFFICES ASSUME TocListInv, UNCHANGED tocVars PROVE TocListInv'
  OBVIOUS
<1>1. TocInv' /\ toc' = toc /\ world' = world
  BY TocRests DEF TocListInv, tocVars
<1>2. ListInv(toc)' <=> ListInv(toc)
  BY <1>1 DEF ListInv, Straight, Signing, Accounted, InSync, Newsless, Ahead, OnLine, Listed, SeenNow,
         SeenLast, Stage
<1> QED
  BY <1>1, <1>2 DEF TocListInv

LEMMA TocListsAre == TocListInv => ListsAgree
<1> SUFFICES ASSUME TocListInv, world = {}, toc.connected = "ACTIVE", toc.server = "on",
                    toc.mail = <<>>, toc.frames = <<>>, toc.buddybuf = <<>>
             PROVE  toc.stored = {toc.buddy.group} \ {NoGroup}
  BY DEF ListsAgree
<1>1. toc \in Toc /\ ListInv(toc) /\ toc.sock = "ACTIVE" /\ OnLine(toc)
  BY DEF TocListInv, TocInv, Off, On, OnLine
<1>2. Ahead(toc) = <<>>
  BY DEF Ahead
<1>3. PICK v \in Sight, x \in Sight : Brings(v, <<>>, x) /\ SeenNow(toc, v) /\ SeenLast(toc, x)
  BY <1>1, <1>2 DEF ListInv, Accounted
<1>4. x = v /\ x.level = 4
  BY <1>3, BringsNowhere DEF SeenLast
<1>5. toc.sync # "old"
  BY <1>1, <1>3, <1>4 DEF SeenNow, Stage
<1>6. InSync(toc)
  BY <1>1, <1>5 DEF Toc, InSync
<1>7. x.at = toc.buddy.group
  BY <1>3, <1>4, <1>6 DEF SeenNow
<1>8. toc.stored \cup ToSet(toc.buddybuf) = {x.at} \ {NoGroup}
  BY <1>3, <1>6 DEF SeenLast
<1>9. ToSet(toc.buddybuf) = {}
  BY OneBuffered
<1> QED
  BY <1>7, <1>8, <1>9
=============================================================================

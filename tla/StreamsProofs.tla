--------------------------- MODULE StreamsProofs ---------------------------
(***************************************************************************)
(* Proofs about what is read and sent in parts: lines out of the buffer of *)
(* an IRC connection, CTCP requests and replies that wait for their line,  *)
(* FLAPs out of the buffer of a Lua driver.                                *)
(*                                                                         *)
(* They begin with lists and counting: what the recursive functions of the *)
(* models come to.  A set of natural numbers that has 0 and with each      *)
(* number the next has them all, since of those it had not there would be  *)
(* a least: with this, and sets for predicates, what is defined along a    *)
(* list is proved along it.                                                *)
(***************************************************************************)
EXTENDS LineBuffer, Subcodes, LuaSockets, WellFoundedInduction, TLAPS

-----------------------------------------------------------------------------
(* Lists and counting. *)

LEMMA LeastOf ==
  ASSUME NEW S \in SUBSET Nat, S # {}
  PROVE  \E m \in S : \A n \in S : m <= n
<1> DEFINE R == OpToRel(<, Nat)
<1>1. IsWellFoundedOn(R, Nat)
  BY NatLessThanWellFounded, Zenon
<1>2. \E x \in S : \A y \in S : ~(<<y, x>> \in R)
  <2> HIDE DEF R
  <2> QED
    BY <1>1, WFMin, Zenon
<1>3. PICK x \in S : \A y \in S : ~(<<y, x>> \in R)
  BY <1>2, Zenon
<1>4. ASSUME NEW n \in S, n < x PROVE FALSE
  <2>1. n \in Nat /\ x \in Nat
    OBVIOUS
  <2>2. <<n, x>> \in R
    BY <2>1, <1>4 DEF OpToRel
  <2> QED
    BY <1>3, <2>2
<1> QED
  BY <1>4

LEMMA GreatestOf ==
  ASSUME NEW n \in Nat, NEW S \in SUBSET (0..n), S # {}
  PROVE  \E m \in S : \A k \in S : k <= m
<1> DEFINE D == {n - k : k \in S}
<1>1. D \in SUBSET Nat /\ D # {}
  <2>1. ASSUME NEW k \in S PROVE n - k \in Nat
    <3>1. k \in 0..n
      OBVIOUS
    <3> QED
      BY <3>1
  <2> QED
    BY <2>1
<1>2. PICK d \in D : \A e \in D : d <= e
  <2> HIDE DEF D
  <2> QED
    BY <1>1, LeastOf
<1>3. PICK m \in S : d = n - m
  OBVIOUS
<1>4. ASSUME NEW k \in S PROVE k <= m
  <2>1. n - m <= n - k
    BY <1>2, <1>3
  <2>2. k \in 0..n /\ m \in 0..n
    OBVIOUS
  <2> QED
    BY <2>1, <2>2
<1> QED
  BY <1>4

LEMMA UpTo ==
  ASSUME NEW n \in Nat, NEW G, 0 \in G, \A i \in 0..(n - 1) : i \in G => i + 1 \in G
  PROVE  \A i \in 0..n : i \in G
<1> DEFINE B == {i \in 0..n : i \notin G}
<1> SUFFICES ASSUME B # {} PROVE FALSE
  OBVIOUS
<1>1. B \in SUBSET Nat
  OBVIOUS
<1>2. PICK m \in B : \A k \in B : m <= k
  <2> HIDE DEF B
  <2> QED
    BY <1>1, LeastOf
<1>3. m \in 1..n
  BY <1>2
<1>4. m - 1 \in 0..(n - 1) /\ (m - 1) + 1 = m /\ ~(m <= m - 1)
  BY <1>3
<1>5. m - 1 \in G
  BY <1>2, <1>4
<1> QED
  BY <1>4, <1>5, <1>2

Stepped(f, X, b, k, g) ==
  f \in [0..k -> X] /\ f[0] = b /\ \A i \in 1..k : f[i] = g[i][f[i - 1]]

(* A function that is defined from each number to the next exists. *)
LEMMA StepByStep ==
  ASSUME NEW X, NEW b, NEW n, NEW g,
         b \in X, n \in Nat, g \in [1..n -> [X -> X]]
  PROVE  \E f : Stepped(f, X, b, n, g)
<1> DEFINE Is(f, k) == Stepped(f, X, b, k, g)
           G == {k \in 0..n : \E f : Is(f, k)}
<1> USE DEF Stepped
<1>1. 0 \in G
  <2> DEFINE f == [i \in 0..0 |-> b]
  <2>1. Is(f, 0)
    OBVIOUS
  <2>2. 0 \in 0..n
    OBVIOUS
  <2> HIDE DEF f, Is
  <2> QED
    BY <2>1, <2>2
<1>2. ASSUME NEW k \in 0..(n - 1), k \in G PROVE k + 1 \in G
  <2>1. PICK f : Is(f, k)
    BY <1>2
  <2>2. f[k] \in X /\ k + 1 \in 1..n
    BY <2>1
  <2>3. g[k + 1][f[k]] \in X
    BY <2>2
  <2> DEFINE h == [i \in 0..(k + 1) |-> IF i = k + 1 THEN g[k + 1][f[k]] ELSE f[i]]
  <2>4. h \in [0..(k + 1) -> X]
    BY <2>1, <2>3
  <2>5. h[0] = b
    BY <2>1
  <2>6. ASSUME NEW i \in 1..(k + 1) PROVE h[i] = g[i][h[i - 1]]
    <3>1. CASE i = k + 1
      <4>1. i - 1 = k /\ h[k] = f[k] /\ h[i] = g[k + 1][f[k]]
        BY <3>1
      <4> QED
        BY <4>1, <3>1
    <3>2. CASE i # k + 1
      <4>1. i \in 1..k /\ i - 1 \in 0..k /\ i \in 0..(k + 1) /\ i - 1 # k + 1 /\ i - 1 \in 0..(k + 1)
        BY <3>2
      <4>2. h[i] = f[i] /\ h[i - 1] = f[i - 1]
        BY <4>1, <3>2
      <4> QED
        BY <4>1, <4>2, <2>1
    <3> QED
      BY <3>1, <3>2
  <2>7. Is(h, k + 1)
    BY <2>4, <2>5, <2>6
  <2>8. k + 1 \in 0..n
    OBVIOUS
  <2> HIDE DEF h, Is
  <2> QED
    BY <2>7, <2>8
<1> HIDE DEF Is, G
<1>3. \A k \in 0..n : k \in G
  BY <1>1, <1>2, UpTo
<1>4. n \in G
  BY <1>3
<1> QED
  <2>1. \E f : Is(f, n)
    BY <1>4 DEF G
  <2> QED
    BY <2>1, Zenon DEF Is

-----------------------------------------------------------------------------
(* Those. *)

Grown(s, S, u) ==
  u = [i \in 0..Len(s) |->
         IF i = 0 THEN <<>> ELSE IF s[i] \in S THEN Append(u[i - 1], s[i]) ELSE u[i - 1]]

LEMMA UptoIs ==
  ASSUME NEW T, NEW s \in Seq(T), NEW S
  PROVE  \E u : /\ Those(s, S) = u[Len(s)] /\ u[0] = <<>>
                /\ \A i \in 1..Len(s) :
                     u[i] = IF s[i] \in S THEN Append(u[i - 1], s[i]) ELSE u[i - 1]
<1> DEFINE n == Len(s)
           X == Seq(T)
           g == [i \in 1..n |-> [x \in X |-> IF s[i] \in S THEN Append(x, s[i]) ELSE x]]
<1>1. n \in Nat /\ <<>> \in X
  OBVIOUS
<1>2. g \in [1..n -> [X -> X]]
  <2>1. ASSUME NEW i \in 1..n, NEW x \in Seq(T)
        PROVE  (IF s[i] \in S THEN Append(x, s[i]) ELSE x) \in Seq(T)
    <3>1. s[i] \in T
      OBVIOUS
    <3> QED
      BY <3>1
  <2>2. ASSUME NEW i \in 1..n
        PROVE  [x \in X |-> IF s[i] \in S THEN Append(x, s[i]) ELSE x] \in [X -> X]
    BY <2>1
  <2> QED
    BY <2>2
<1>3. PICK f \in [0..n -> X] : f[0] = <<>> /\ \A i \in 1..n : f[i] = g[i][f[i - 1]]
  <2> HIDE DEF g, n, X
  <2> DEFINE b == <<>>
  <2>1. b \in X
    BY <1>1
  <2> HIDE DEF b
  <2>2. \E f : Stepped(f, X, b, n, g)
    BY <1>1, <1>2, <2>1, StepByStep
  <2> QED
    BY <2>2 DEF Stepped, b
<1>4. ASSUME NEW i \in 1..n
      PROVE  f[i] = IF s[i] \in S THEN Append(f[i - 1], s[i]) ELSE f[i - 1]
  <2>1. i - 1 \in 0..n /\ f[i - 1] \in X
    OBVIOUS
  <2>3. g[i][f[i - 1]] = IF s[i] \in S THEN Append(f[i - 1], s[i]) ELSE f[i - 1]
    BY <2>1
  <2> QED
    BY <1>3, <2>3
<1>5. Grown(s, S, f)
  <2>1. f = [i \in 0..n |-> f[i]]
    OBVIOUS
  <2>2. ASSUME NEW i \in 0..n
        PROVE  f[i] = IF i = 0 THEN <<>> ELSE IF s[i] \in S THEN Append(f[i - 1], s[i]) ELSE f[i - 1]
    <3>1. CASE i = 0
      BY <3>1, <1>3
    <3>2. CASE i # 0
      <4>1. i \in 1..n
        BY <3>2
      <4> QED
        BY <4>1, <3>2, <1>4
    <3> QED
      BY <3>1, <3>2
  <2> QED
    BY <2>1, <2>2 DEF Grown
<1> DEFINE u == CHOOSE v : Grown(s, S, v)
<1>6. Grown(s, S, u)
  BY <1>5
<1>7. Those(s, S) = u[Len(s)]
  BY DEF Those, Grown
<1> HIDE DEF u
<1>8. u[0] = <<>> /\ \A i \in 1..n : u[i] = IF s[i] \in S THEN Append(u[i - 1], s[i]) ELSE u[i - 1]
  <2>1. u = [i \in 0..n |-> IF i = 0 THEN <<>> ELSE IF s[i] \in S THEN Append(u[i - 1], s[i]) ELSE u[i - 1]]
    BY <1>6, Zenon DEF Grown
  <2>2. \A i \in 0..n : u[i] = IF i = 0 THEN <<>> ELSE IF s[i] \in S THEN Append(u[i - 1], s[i]) ELSE u[i - 1]
    BY <2>1, Zenon
  <2>3. 0 \in 0..n /\ \A i \in 1..n : i \in 0..n /\ i # 0
    OBVIOUS
  <2> QED
    BY <2>2, <2>3
<1> QED
  BY <1>7, <1>8

(* r is the elements of S among the first i of list s; h says where in s    *)
(* each of them is.                                                        *)
TakenFrom(T, s, S, i, r, h) ==
  /\ r \in Seq(T)
  /\ h \in [1..Len(r) -> 1..i]
  /\ \A j \in 1..Len(r), k \in 1..Len(r) : j < k => h[j] < h[k]
  /\ \A j \in 1..Len(r) : r[j] = s[h[j]] /\ s[h[j]] \in S
  /\ \A k \in 1..i : s[k] \in S => \E j \in 1..Len(r) : h[j] = k

LEMMA OneMore ==
  ASSUME NEW T, NEW s, NEW S, NEW i, NEW r, NEW h,
         s \in Seq(T), i \in 1..Len(s), TakenFrom(T, s, S, i - 1, r, h)
  PROVE  \E g : TakenFrom(T, s, S, i, IF s[i] \in S THEN Append(r, s[i]) ELSE r, g)
<1> USE DEF TakenFrom
<1>1. s[i] \in T /\ i \in Nat /\ Len(r) \in Nat
  OBVIOUS
<1>2. CASE s[i] \notin S
  <2>1. TakenFrom(T, s, S, i, r, h)
    <3>1. h \in [1..Len(r) -> 1..i]
      BY <1>1
    <3>2. ASSUME NEW k \in 1..i, s[k] \in S PROVE \E j \in 1..Len(r) : h[j] = k
      <4>1. k \in 1..(i - 1)
        BY <3>2, <1>1, <1>2
      <4> QED
        BY <4>1, <3>2
    <3> QED
      BY <3>1, <3>2
  <2> HIDE DEF TakenFrom
  <2> QED
    BY <2>1, <1>2
<1>3. CASE s[i] \in S
  <2> DEFINE q == Append(r, s[i])
             m == Len(r)
             g == [j \in 1..(m + 1) |-> IF j = m + 1 THEN i ELSE h[j]]
  <2>1. q \in Seq(T) /\ Len(q) = m + 1 /\ q[m + 1] = s[i] /\ \A j \in 1..m : q[j] = r[j]
    BY <1>1
  <2>2. \A j \in 1..m : h[j] \in 1..(i - 1)
    OBVIOUS
  <2>3. g[m + 1] = i /\ \A j \in 1..m : g[j] = h[j]
    BY <1>1
  <2>4. g \in [1..Len(q) -> 1..i]
    <3>1. \A j \in 1..(m + 1) : (IF j = m + 1 THEN i ELSE h[j]) \in 1..i
      BY <1>1, <2>2
    <3> QED
      BY <2>1, <3>1
  <2>5. ASSUME NEW j \in 1..(m + 1), NEW k \in 1..(m + 1), j < k PROVE g[j] < g[k]
    <3>1. j \in 1..m
      BY <2>5, <1>1
    <3>2. CASE k = m + 1
      BY <2>2, <2>3, <3>1, <3>2, <1>1
    <3>3. CASE k # m + 1
      <4>1. k \in 1..m
        BY <3>3, <1>1
      <4> QED
        BY <4>1, <3>1, <2>3, <2>5
    <3> QED
      BY <3>2, <3>3
  <2>6. ASSUME NEW j \in 1..(m + 1) PROVE q[j] = s[g[j]] /\ s[g[j]] \in S
    <3>1. CASE j = m + 1
      BY <3>1, <2>1, <2>3, <1>3
    <3>2. CASE j # m + 1
      <4>1. j \in 1..m
        BY <3>2, <1>1
      <4> QED
        BY <4>1, <2>1, <2>3
    <3> QED
      BY <3>1, <3>2
  <2>7. ASSUME NEW k \in 1..i, s[k] \in S PROVE \E j \in 1..(m + 1) : g[j] = k
    <3>0. m + 1 \in 1..(m + 1) /\ \A j \in 1..m : j \in 1..(m + 1)
      BY <1>1
    <3>1. CASE k = i
      BY <3>0, <3>1, <2>3
    <3>2. CASE k # i
      <4>1. k \in 1..(i - 1)
        BY <3>2, <1>1
      <4>2. PICK j \in 1..m : h[j] = k
        BY <4>1, <2>7
      <4> QED
        BY <3>0, <4>2, <2>3
    <3> QED
      BY <3>1, <3>2
  <2> HIDE DEF g, q, m
  <2>8. TakenFrom(T, s, S, i, q, g)
    BY <2>1, <2>4, <2>5, <2>6, <2>7
  <2> HIDE DEF TakenFrom
  <2> QED
    BY <2>8, <1>3 DEF q
<1> QED
  BY <1>2, <1>3

LEMMA ThoseTaken ==
  ASSUME NEW T, NEW s, NEW S, s \in Seq(T)
  PROVE  \E h : TakenFrom(T, s, S, Len(s), Those(s, S), h)
<1> DEFINE n == Len(s)
<1>1. n \in Nat
  OBVIOUS
<1>2. PICK u : /\ Those(s, S) = u[n] /\ u[0] = <<>>
               /\ \A i \in 1..n : u[i] = IF s[i] \in S THEN Append(u[i - 1], s[i]) ELSE u[i - 1]
  BY UptoIs
<1> DEFINE G == {i \in 0..n : \E h : TakenFrom(T, s, S, i, u[i], h)}
<1>3. 0 \in G
  <2> DEFINE h == [j \in 1..0 |-> 0]
  <2>1. TakenFrom(T, s, S, 0, <<>>, h)
    BY DEF TakenFrom
  <2>2. 0 \in 0..n
    BY <1>1
  <2> HIDE DEF h
  <2> QED
    BY <2>1, <2>2, <1>2
<1>4. ASSUME NEW i \in 0..(n - 1), i \in G PROVE i + 1 \in G
  <2>1. PICK h : TakenFrom(T, s, S, i, u[i], h)
    BY <1>4
  <2> DEFINE k == i + 1
             r == u[i]
  <2>2. k \in 1..n /\ k \in 0..n /\ k - 1 = i
    BY <1>1
  <2>3. TakenFrom(T, s, S, k - 1, r, h)
    BY <2>1, <2>2
  <2>4. u[k] = IF s[k] \in S THEN Append(r, s[k]) ELSE r
    BY <1>2, <2>2
  <2> HIDE DEF k, r
  <2>5. \E g : TakenFrom(T, s, S, k, IF s[k] \in S THEN Append(r, s[k]) ELSE r, g)
    BY <2>2, <2>3, OneMore, Zenon
  <2>6. \E g : TakenFrom(T, s, S, k, u[k], g)
    BY <2>4, <2>5
  <2>7. k \in G
    BY <2>6, <2>2
  <2> QED
    BY <2>7 DEF k
<1> HIDE DEF G
<1>5. \A i \in 0..n : i \in G
  BY <1>1, <1>3, <1>4, UpTo
<1>6. n \in G
  BY <1>5, <1>1
<1> QED
  BY <1>6, <1>2 DEF G

(* What the models need of it. *)
LEMMA ThoseAre ==
  ASSUME NEW T, NEW s, NEW S, s \in Seq(T)
  PROVE  /\ Those(s, S) \in Seq(T)
         /\ \A j \in 1..Len(Those(s, S)) :
               Those(s, S)[j] \in S /\ \E i \in 1..Len(s) : s[i] = Those(s, S)[j]
         /\ \A i \in 1..Len(s) : s[i] \in S => \E j \in 1..Len(Those(s, S)) : Those(s, S)[j] = s[i]
<1> DEFINE r == Those(s, S)
<1>1. PICK h : TakenFrom(T, s, S, Len(s), r, h)
  BY ThoseTaken, Zenon
<1> HIDE DEF r
<1>2. r \in Seq(T)
  BY <1>1 DEF TakenFrom
<1>3. ASSUME NEW j \in 1..Len(r) PROVE r[j] \in S /\ \E i \in 1..Len(s) : s[i] = r[j]
  BY <1>1 DEF TakenFrom
<1>4. ASSUME NEW i \in 1..Len(s), s[i] \in S PROVE \E j \in 1..Len(r) : r[j] = s[i]
  BY <1>1, <1>4 DEF TakenFrom
<1> QED
  BY <1>2, <1>3, <1>4 DEF r

(* A first element that stays is first. *)
LEMMA FirstStays ==
  ASSUME NEW T, NEW s, NEW S, s \in Seq(T), s # <<>>, s[1] \in S
  PROVE  Those(s, S) # <<>> /\ Those(s, S)[1] = s[1]
<1> DEFINE r == Those(s, S)
<1>1. PICK h : TakenFrom(T, s, S, Len(s), r, h)
  BY ThoseTaken, Zenon
<1> HIDE DEF r
<1>2. r \in Seq(T) /\ Len(r) \in Nat
  BY <1>1 DEF TakenFrom
<1>3. 1 \in 1..Len(s)
  OBVIOUS
<1>4. PICK j \in 1..Len(r) : h[j] = 1
  BY <1>1, <1>3 DEF TakenFrom
<1>5. j = 1
  <2>1. 1 \in 1..Len(r) /\ h[1] \in 1..Len(s)
    BY <1>1, <1>2 DEF TakenFrom
  <2>2. ASSUME 1 < j PROVE FALSE
    <3>1. h[1] < h[j]
      BY <1>1, <2>1, <2>2 DEF TakenFrom
    <3> QED
      BY <3>1, <1>4, <2>1
  <2> QED
    BY <2>2, <1>2
<1>6. r[1] = s[1] /\ r # <<>>
  BY <1>1, <1>2, <1>4, <1>5 DEF TakenFrom
<1> QED
  BY <1>6 DEF r

(* What was there once is there once. *)
LEMMA OnceStays ==
  ASSUME NEW T, NEW s, NEW S, s \in Seq(T),
         \A i, j \in 1..Len(s) : s[i] = s[j] => i = j
  PROVE  \A i, j \in 1..Len(Those(s, S)) : Those(s, S)[i] = Those(s, S)[j] => i = j
<1> DEFINE r == Those(s, S)
<1>1. PICK h : TakenFrom(T, s, S, Len(s), r, h)
  BY ThoseTaken, Zenon
<1> HIDE DEF r
<1> SUFFICES ASSUME NEW i \in 1..Len(r), NEW j \in 1..Len(r), r[i] = r[j] PROVE i = j
  BY DEF r
<1>2. h[i] \in 1..Len(s) /\ h[j] \in 1..Len(s) /\ r[i] = s[h[i]] /\ r[j] = s[h[j]]
  BY <1>1 DEF TakenFrom
<1>3. h[i] = h[j]
  BY <1>2
<1>4. i \in Nat /\ j \in Nat /\ (i < j => h[i] < h[j]) /\ (j < i => h[j] < h[i])
  BY <1>1 DEF TakenFrom
<1> QED
  BY <1>2, <1>3, <1>4
-----------------------------------------------------------------------------
(* Lines. *)

LEMMA LineEndIs ==
  ASSUME NEW b \in Seq(Bytes)
  PROVE  /\ LineEnd(b) \in 0..Len(b)
         /\ LineEnd(b) # 0 => /\ b[LineEnd(b)] = "nl"
                              /\ \A j \in 1..(LineEnd(b) - 1) : b[j] # "nl"
         /\ LineEnd(b) = 0 => \/ \A i \in DOMAIN b : b[i] # "nl"
                              \/ \E i \in DOMAIN b : b[i] = "nul"
<1> DEFINE S == {i \in DOMAIN b : b[i] = "nl"}
<1>0. DOMAIN b = 1..Len(b) /\ Len(b) \in Nat
  OBVIOUS
<1>1. CASE \E i \in DOMAIN b : b[i] = "nl" /\ \A j \in 1..i : b[j] # "nul"
  <2>1. S \in SUBSET Nat /\ S # {}
    BY <1>1, <1>0
  <2>2. PICK m \in S : \A n \in S : m <= n
    <3> HIDE DEF S
    <3> QED
      BY <2>1, LeastOf
  <2>3. m \in DOMAIN b /\ b[m] = "nl" /\ \A j \in 1..(m - 1) : b[j] # "nl"
    <3>1. m \in 1..Len(b)
      BY <1>0
    <3>2. ASSUME NEW j \in 1..(m - 1), b[j] = "nl" PROVE FALSE
      <4>1. j \in 1..Len(b) /\ ~(m <= j)
        BY <3>1, <1>0
      <4> QED
        BY <4>1, <3>2, <2>2, <1>0
    <3> QED
      BY <3>2
  <2>4. LineEnd(b) = CHOOSE i \in DOMAIN b : b[i] = "nl" /\ \A j \in 1..(i - 1) : b[j] # "nl"
    BY <1>1, Zenon DEF LineEnd
  <2>5. LineEnd(b) \in DOMAIN b /\ b[LineEnd(b)] = "nl" /\ \A j \in 1..(LineEnd(b) - 1) : b[j] # "nl"
    BY <2>3, <2>4, Zenon
  <2> QED
    BY <2>5, <1>0
<1>2. CASE ~\E i \in DOMAIN b : b[i] = "nl" /\ \A j \in 1..i : b[j] # "nul"
  <2>1. LineEnd(b) = 0
    BY <1>2, Zenon DEF LineEnd
  <2>2. ASSUME NEW i \in DOMAIN b, b[i] = "nl" PROVE \E k \in DOMAIN b : b[k] = "nul"
    <3>1. PICK j \in 1..i : b[j] = "nul"
      BY <1>2, <2>2
    <3>2. j \in DOMAIN b
      BY <1>0
    <3> QED
      BY <3>1, <3>2
  <2> QED
    BY <2>1, <2>2, <1>0
<1> QED
  BY <1>1, <1>2

(* The line that ends at place i is the one from the last end before it. *)
LEMMA LineAtIs ==
  ASSUME NEW s \in Seq(Bytes), NEW i \in 1..Len(s), NEW j \in 0..(i - 1),
         j > 0 => s[j] = "nl", \A k \in (j + 1)..(i - 1) : s[k] # "nl"
  PROVE  LineAt(s, i) = LineIn(s, j, i)
<1> DEFINE Is(n) == (n > 0 => s[n] = "nl") /\ \A k \in (n + 1)..(i - 1) : s[k] # "nl"
           c == CHOOSE n \in 0..(i - 1) : Is(n)
<1>1. c \in 0..(i - 1) /\ Is(c)
  <2>1. \E n \in 0..(i - 1) : Is(n)
    OBVIOUS
  <2> HIDE DEF Is
  <2> QED
    BY <2>1, Zenon
<1>2. LineAt(s, i) = LineIn(s, c, i)
  BY DEF LineAt
<1> HIDE DEF c
<1>3. c = j
  <2>1. CASE c < j
    <3>1. j \in (c + 1)..(i - 1) /\ j > 0
      BY <2>1, <1>1
    <3> QED
      BY <3>1, <1>1
  <2>2. CASE j < c
    <3>1. c \in (j + 1)..(i - 1) /\ c > 0
      BY <2>2, <1>1
    <3> QED
      BY <3>1, <1>1
  <2> QED
    BY <2>1, <2>2, <1>1
<1> QED
  BY <1>2, <1>3

LEMMA LastEnd ==
  ASSUME NEW s \in Seq(Bytes), NEW i \in 1..Len(s)
  PROVE  \E j \in 0..(i - 1) : /\ j > 0 => s[j] = "nl"
                               /\ \A k \in (j + 1)..(i - 1) : s[k] # "nl"
<1> DEFINE S == {j \in 0..(i - 1) : j > 0 => s[j] = "nl"}
           n == i - 1
<1>1. n \in Nat /\ S \in SUBSET (0..n) /\ 0 \in S
  OBVIOUS
<1>2. PICK m \in S : \A k \in S : k <= m
  <2> HIDE DEF S, n
  <2> QED
    BY <1>1, GreatestOf
<1>3. ASSUME NEW k \in (m + 1)..(i - 1), s[k] = "nl" PROVE FALSE
  <2>1. m \in 0..(i - 1)
    OBVIOUS
  <2>2. k \in S /\ ~(k <= m)
    BY <2>1, <1>3
  <2> QED
    BY <2>2, <1>2
<1> QED
  BY <1>3

(* Lines of a sequence are those of its parts, when it is parted at the end of a line. *)
LEMMA LineInFirst ==
  ASSUME NEW p \in Seq(Bytes), NEW q \in Seq(Bytes), NEW i \in 1..Len(p), NEW j \in 0..(i - 1)
  PROVE  LineIn(p \o q, j, i) = LineIn(p, j, i)
<1>1. p \o q \in Seq(Bytes) /\ Len(p \o q) = Len(p) + Len(q) /\ \A k \in 1..Len(p) : (p \o q)[k] = p[k]
  OBVIOUS
<1> DEFINE w == p \o q
<1> HIDE DEF w
<1>2. i > j + 1 => w[i - 1] = p[i - 1]
  BY <1>1 DEF w
<1> DEFINE e == IF i > j + 1 /\ p[i - 1] = "cr" THEN i - 2 ELSE i - 1
<1>3. LineIn(w, j, i) = SubSeq(w, j + 1, e) /\ LineIn(p, j, i) = SubSeq(p, j + 1, e)
  BY <1>2 DEF LineIn
<1>4. e \in Int /\ e <= Len(p) /\ j + 1 >= 1 /\ j \in Nat
  OBVIOUS
<1> HIDE DEF e
<1>5. SubSeq(w, j + 1, e) = SubSeq(p, j + 1, e)
  BY <1>1, <1>4 DEF w
<1> QED
  BY <1>3, <1>5 DEF w

LEMMA LineInSecond ==
  ASSUME NEW p \in Seq(Bytes), NEW q \in Seq(Bytes), NEW i \in 1..Len(q), NEW j \in 0..(i - 1)
  PROVE  LineIn(p \o q, Len(p) + j, Len(p) + i) = LineIn(q, j, i)
<1> DEFINE w == p \o q
           n == Len(p)
<1>1. w \in Seq(Bytes) /\ n \in Nat /\ Len(w) = n + Len(q) /\ \A k \in 1..Len(q) : w[n + k] = q[k]
  OBVIOUS
<1> HIDE DEF w, n
<1>2. i > j + 1 => w[n + i - 1] = q[i - 1]
  <2>1. i > j + 1 => i - 1 \in 1..Len(q) /\ n + i - 1 = n + (i - 1)
    BY <1>1
  <2> QED
    BY <1>1, <2>1
<1> DEFINE e == IF i > j + 1 /\ q[i - 1] = "cr" THEN i - 2 ELSE i - 1
<1>3. LineIn(w, n + j, n + i) = SubSeq(w, n + j + 1, n + e) /\ LineIn(q, j, i) = SubSeq(q, j + 1, e)
  <2>1. LineIn(q, j, i) = SubSeq(q, j + 1, e)
    BY DEF LineIn
  <2> DEFINE a == n + j
             d == n + i
             f == IF d > a + 1 /\ w[d - 1] = "cr" THEN d - 2 ELSE d - 1
  <2>2. f = n + e
    BY <1>1, <1>2
  <2>3. LineIn(w, a, d) = SubSeq(w, a + 1, f)
    <3> HIDE DEF a, d
    <3> QED
      BY DEF LineIn
  <2> HIDE DEF f
  <2> QED
    BY <2>1, <2>2, <2>3
<1>4. e \in Int /\ e <= Len(q) /\ j + 1 >= 1 /\ j \in Nat /\ e >= j
  OBVIOUS
<1> HIDE DEF e
<1>5. SubSeq(w, n + j + 1, n + e) = SubSeq(q, j + 1, e)
  BY <1>1, <1>4
<1> QED
  BY <1>3, <1>5 DEF w, n

LEMMA LineInIs ==
  ASSUME NEW s \in Seq(Bytes), NEW i \in 1..Len(s), NEW j \in 0..(i - 1)
  PROVE  LineIn(s, j, i) \in Seq(Bytes)
<1> DEFINE e == IF i > j + 1 /\ s[i - 1] = "cr" THEN i - 2 ELSE i - 1
<1>1. LineIn(s, j, i) = SubSeq(s, j + 1, e)
  BY DEF LineIn
<1>2. e \in Int /\ e <= Len(s) /\ j + 1 >= 1 /\ j \in Nat
  OBVIOUS
<1> HIDE DEF e
<1> QED
  BY <1>1, <1>2

LEMMA LineAtSeq ==
  ASSUME NEW s \in Seq(Bytes), NEW i \in 1..Len(s)
  PROVE  LineAt(s, i) \in Seq(Bytes)
<1>1. PICK j \in 0..(i - 1) : (j > 0 => s[j] = "nl") /\ \A k \in (j + 1)..(i - 1) : s[k] # "nl"
  BY LastEnd
<1>2. LineAt(s, i) = LineIn(s, j, i)
  BY <1>1, LineAtIs
<1> QED
  BY <1>2, LineInIs

(* Nothing ends in a part, or what ends there last does at its end. *)
AtEnd(p) == p # <<>> => p[Len(p)] = "nl"

LEMMA LineAtFirst ==
  ASSUME NEW p \in Seq(Bytes), NEW q \in Seq(Bytes), NEW i \in 1..Len(p)
  PROVE  LineAt(p \o q, i) = LineAt(p, i) /\ (p \o q)[i] = p[i]
<1> DEFINE w == p \o q
<1>0. w \in Seq(Bytes) /\ Len(w) = Len(p) + Len(q) /\ \A k \in 1..Len(p) : w[k] = p[k]
  OBVIOUS
<1>1. PICK j \in 0..(i - 1) : (j > 0 => p[j] = "nl") /\ \A k \in (j + 1)..(i - 1) : p[k] # "nl"
  BY LastEnd
<1>2. LineAt(p, i) = LineIn(p, j, i)
  BY <1>1, LineAtIs
<1>3. LineIn(w, j, i) = LineIn(p, j, i)
  BY LineInFirst
<1> HIDE DEF w
<1>4. (j > 0 => w[j] = "nl") /\ \A k \in (j + 1)..(i - 1) : w[k] # "nl"
  BY <1>0, <1>1
<1>5. i \in 1..Len(w)
  BY <1>0
<1>6. LineAt(w, i) = LineIn(w, j, i)
  BY <1>0, <1>4, <1>5, LineAtIs
<1> QED
  BY <1>0, <1>2, <1>3, <1>6 DEF w

LEMMA LineAtSecond ==
  ASSUME NEW p \in Seq(Bytes), NEW q \in Seq(Bytes), AtEnd(p), NEW i \in 1..Len(q)
  PROVE  LineAt(p \o q, Len(p) + i) = LineAt(q, i) /\ (p \o q)[Len(p) + i] = q[i]
<1> DEFINE w == p \o q
           n == Len(p)
<1>0. /\ w \in Seq(Bytes) /\ Len(w) = n + Len(q) /\ n \in Nat
      /\ \A k \in 1..n : w[k] = p[k]
      /\ \A k \in 1..Len(q) : w[n + k] = q[k]
  OBVIOUS
<1>1. PICK j \in 0..(i - 1) : (j > 0 => q[j] = "nl") /\ \A k \in (j + 1)..(i - 1) : q[k] # "nl"
  BY LastEnd
<1>2. LineAt(q, i) = LineIn(q, j, i)
  BY <1>1, LineAtIs
<1>3. LineIn(w, n + j, n + i) = LineIn(q, j, i)
  BY LineInSecond
<1>7. n > 0 => p[n] = "nl"
  BY DEF AtEnd
<1> DEFINE c == n + j
           d == n + i
<1> HIDE DEF w, n
<1>4. (c > 0 => w[c] = "nl") /\ \A k \in (c + 1)..(d - 1) : w[k] # "nl"
  <2>1. ASSUME c > 0 PROVE w[c] = "nl"
    <3>1. CASE j = 0
      BY <3>1, <2>1, <1>0, <1>7
    <3>2. CASE j # 0
      BY <3>2, <1>0, <1>1
    <3> QED
      BY <3>1, <3>2
  <2>2. ASSUME NEW k \in (c + 1)..(d - 1) PROVE w[k] # "nl"
    <3>1. k - n \in (j + 1)..(i - 1) /\ k = n + (k - n) /\ k - n \in 1..Len(q)
      BY <1>0
    <3> QED
      BY <3>1, <1>0, <1>1
  <2> QED
    BY <2>1, <2>2
<1>5. d \in 1..Len(w) /\ c \in 0..(d - 1)
  BY <1>0
<1> HIDE DEF c, d
<1>6. LineAt(w, d) = LineIn(w, c, d)
  BY <1>0, <1>4, <1>5, LineAtIs
<1> QED
  BY <1>0, <1>2, <1>3, <1>6 DEF w, n, c, d

-----------------------------------------------------------------------------
(* The lines with a command, one place after the other. *)
Counts(s, i) == s[i] = "nl" /\ HasCommand(LineAt(s, i))

Collected(u, s) ==
  /\ u \in [0..Len(s) -> Seq(Seq(Bytes))]
  /\ u[0] = <<>>
  /\ \A i \in 1..Len(s) : u[i] = IF Counts(s, i) THEN Append(u[i - 1], LineAt(s, i)) ELSE u[i - 1]

CollectedOf(s, u) ==
  u = [i \in 0..Len(s) |->
         IF i = 0 THEN <<>>
         ELSE IF s[i] = "nl" /\ HasCommand(LineAt(s, i))
              THEN Append(u[i - 1], LineAt(s, i)) ELSE u[i - 1]]

LEMMA CommandLinesAre ==
  ASSUME NEW s \in Seq(Bytes)
  PROVE  \E u : Collected(u, s) /\ CommandLines(s) = u[Len(s)]
<1> DEFINE n == Len(s)
           X == Seq(Seq(Bytes))
           F(i, x) == IF Counts(s, i) THEN Append(x, LineAt(s, i)) ELSE x
           g == [i \in 1..n |-> [x \in X |-> F(i, x)]]
           b == <<>>
<1>1. n \in Nat /\ b \in X
  OBVIOUS
<1>0. \A i \in 1..n : LineAt(s, i) \in Seq(Bytes)
  BY LineAtSeq
<1>2. ASSUME NEW i \in 1..n, NEW x \in X PROVE F(i, x) \in X
  BY <1>0
<1>3. g \in [1..n -> [X -> X]]
  <2> HIDE DEF F, X, n
  <2> QED
    BY <1>2
<1>4. PICK f : Stepped(f, X, b, n, g)
  <2> HIDE DEF g, n, X, b
  <2> QED
    BY <1>1, <1>3, StepByStep
<1>5. f \in [0..n -> X] /\ f[0] = <<>> /\ \A i \in 1..n : f[i] = F(i, f[i - 1])
  <2> HIDE DEF F, X
  <2>1. f \in [0..n -> X] /\ f[0] = <<>> /\ \A i \in 1..n : f[i] = g[i][f[i - 1]]
    BY <1>4 DEF Stepped
  <2>2. ASSUME NEW i \in 1..n PROVE f[i] = F(i, f[i - 1])
    <3>1. i - 1 \in 0..n
      BY <1>1
    <3>2. f[i - 1] \in X
      BY <2>1, <3>1
    <3> QED
      BY <2>1, <3>2
  <2> QED
    BY <2>1, <2>2
<1>6. CollectedOf(s, f)
  <2>1. f = [i \in 0..n |-> f[i]]
    BY <1>5
  <2>2. ASSUME NEW i \in 0..n
        PROVE  f[i] = IF i = 0 THEN <<>>
                      ELSE IF s[i] = "nl" /\ HasCommand(LineAt(s, i))
                           THEN Append(f[i - 1], LineAt(s, i)) ELSE f[i - 1]
    <3>1. CASE i = 0
      BY <3>1, <1>5
    <3>2. CASE i # 0
      <4>1. i \in 1..n
        BY <3>2
      <4> QED
        BY <4>1, <3>2, <1>5 DEF Counts
    <3> QED
      BY <3>1, <3>2
  <2> QED
    BY <2>1, <2>2 DEF CollectedOf
<1> DEFINE u == CHOOSE v : CollectedOf(s, v)
<1>7. CollectedOf(s, u)
  BY <1>6
<1>8. CommandLines(s) = u[Len(s)]
  BY DEF CommandLines, CollectedOf
<1> HIDE DEF u
<1>9. u[0] = <<>> /\ \A i \in 1..n : u[i] = F(i, u[i - 1])
  <2>1. \A i \in 0..n : u[i] = IF i = 0 THEN <<>>
                               ELSE IF s[i] = "nl" /\ HasCommand(LineAt(s, i))
                                    THEN Append(u[i - 1], LineAt(s, i)) ELSE u[i - 1]
    BY <1>7, Zenon DEF CollectedOf
  <2>2. 0 \in 0..n /\ \A i \in 1..n : i \in 0..n /\ i # 0
    BY <1>1
  <2> QED
    BY <2>1, <2>2 DEF Counts
<1>10. u \in [0..n -> X]
  <2> DEFINE G == {i \in 0..n : u[i] \in X}
  <2>1. 0 \in G
    <3>1. u[0] = <<>> /\ <<>> \in X /\ 0 \in 0..n
      <4> HIDE DEF F, X
      <4> QED
        BY <1>9, <1>1
    <3> QED
      BY <3>1
  <2>2. ASSUME NEW i \in 0..(n - 1), i \in G PROVE i + 1 \in G
    <3>1. i + 1 \in 1..n /\ i + 1 \in 0..n /\ (i + 1) - 1 = i
      BY <1>1
    <3>2. u[i + 1] = F(i + 1, u[i])
      BY <3>1, <1>9
    <3>3. u[i] \in X
      BY <2>2
    <3> HIDE DEF F, X
    <3>4. u[i + 1] \in X
      BY <3>1, <3>2, <3>3, <1>2
    <3> QED
      BY <3>1, <3>4
  <2>3. \A i \in 0..n : i \in G
    <3> HIDE DEF G
    <3> QED
      BY <1>1, <2>1, <2>2, UpTo
  <2>4. DOMAIN u = 0..n /\ u = [i \in 0..n |-> u[i]]
    BY <1>7 DEF CollectedOf
  <2> QED
    BY <2>3, <2>4
<1>11. Collected(u, s)
  BY <1>9, <1>10 DEF Collected
<1> QED
  BY <1>8, <1>11

AppendsBehind(x, y, e) == Append(x \o y, e) = x \o Append(y, e)

LEMMA AppendBehind ==
  ASSUME NEW T, NEW x, NEW y, NEW e, x \in Seq(T), y \in Seq(T), e \in T
  PROVE  AppendsBehind(x, y, e)
<1> DEFINE l == Append(x \o y, e)
           r == x \o Append(y, e)
<1>1. l \in Seq(T) /\ r \in Seq(T) /\ Len(l) = Len(x) + Len(y) + 1 /\ Len(r) = Len(l)
  OBVIOUS
<1>2. ASSUME NEW i \in 1..Len(l) PROVE l[i] = r[i]
  OBVIOUS
<1> HIDE DEF l, r
<1>3. l = r
  BY <1>1, <1>2
<1> QED
  BY <1>3 DEF l, r, AppendsBehind

LEMMA NothingBehind ==
  ASSUME NEW T, NEW x \in Seq(T)
  PROVE  x \o <<>> = x /\ <<>> \o x = x
OBVIOUS

LEMMA LinesFirst ==
  ASSUME NEW p \in Seq(Bytes), NEW q \in Seq(Bytes), NEW u, NEW v,
         Collected(u, p \o q), Collected(v, p)
  PROVE  \A i \in 0..Len(p) : u[i] = v[i]
<1> DEFINE w == p \o q
           n == Len(p)
           G == {i \in 0..n : u[i] = v[i]}
<1>0. n \in Nat /\ Len(w) = n + Len(q)
  OBVIOUS
<1>1. 0 \in G
  BY <1>0 DEF Collected
<1>2. ASSUME NEW i \in 0..(n - 1), i \in G PROVE i + 1 \in G
  <2> DEFINE k == i + 1
  <2>1. k \in 1..n /\ k \in 1..Len(w) /\ k \in 0..n /\ k - 1 = i
    BY <1>0
  <2> HIDE DEF k, w
  <2>2. LineAt(w, k) = LineAt(p, k) /\ w[k] = p[k]
    BY <2>1, LineAtFirst DEF w
  <2>3. Counts(w, k) <=> Counts(p, k)
    BY <2>2 DEF Counts
  <2>4. u[k] = IF Counts(w, k) THEN Append(u[i], LineAt(w, k)) ELSE u[i]
    BY <2>1 DEF Collected, w
  <2>5. v[k] = IF Counts(p, k) THEN Append(v[i], LineAt(p, k)) ELSE v[i]
    BY <2>1 DEF Collected
  <2>6. u[k] = v[k]
    BY <2>2, <2>3, <2>4, <2>5, <1>2
  <2> QED
    BY <2>1, <2>6 DEF k
<1> HIDE DEF G, n
<1>3. \A i \in 0..n : i \in G
  BY <1>0, <1>1, <1>2, UpTo
<1> QED
  BY <1>3 DEF G, n

Behind(p, q, u, v, x) == \A i \in 0..Len(q) : u[Len(p) + i] = v[Len(p)] \o x[i]

LEMMA LinesSecond ==
  ASSUME NEW p \in Seq(Bytes), NEW q \in Seq(Bytes), AtEnd(p), NEW u, NEW v, NEW x,
         Collected(u, p \o q), Collected(v, p), Collected(x, q)
  PROVE  Behind(p, q, u, v, x)
<1> DEFINE w == p \o q
           n == Len(p)
           m == Len(q)
           X == Seq(Seq(Bytes))
           G == {i \in 0..m : u[n + i] = v[n] \o x[i]}
<1>0. n \in Nat /\ m \in Nat /\ Len(w) = n + m
  OBVIOUS
<1>4. v[n] \in X /\ \A i \in 0..m : x[i] \in X
  <2>1. v \in [0..n -> X] /\ x \in [0..m -> X]
    BY DEF Collected
  <2>2. n \in 0..n
    BY <1>0
  <2> HIDE DEF X, n, m
  <2> QED
    BY <2>1, <2>2
<1>1. 0 \in G
  <2>1. u[n] = v[n]
    <3>1. n \in 0..n
      BY <1>0
    <3> QED
      BY <3>1, LinesFirst
  <2>2. x[0] = <<>> /\ n + 0 = n /\ 0 \in 0..m
    BY <1>0 DEF Collected
  <2>3. v[n] \o <<>> = v[n]
    <3> DEFINE y == v[n]
               T == Seq(Bytes)
    <3>1. y \in Seq(T)
      BY <1>4
    <3> HIDE DEF y, T
    <3>2. y \o <<>> = y
      BY <3>1, NothingBehind
    <3> QED
      BY <3>2 DEF y
  <2> QED
    BY <2>1, <2>2, <2>3
<1>2. ASSUME NEW i \in 0..(m - 1), i \in G PROVE i + 1 \in G
  <2> DEFINE k == i + 1
             d == n + k
             l == LineAt(q, k)
  <2>1. /\ k \in 1..m /\ k \in 0..m /\ k - 1 = i /\ d \in 1..Len(w) /\ d - 1 = n + i
        /\ i \in 0..m
    BY <1>0
  <2>2. LineAt(w, d) = l /\ w[d] = q[k]
    <3> HIDE DEF k
    <3> QED
      BY <2>1, LineAtSecond
  <2>7. l \in Seq(Bytes)
    BY <2>1, LineAtSeq
  <2>8. u[n + i] = v[n] \o x[i]
    BY <1>2
  <2> HIDE DEF k, w, d, n, m
  <2>3. Counts(w, d) <=> Counts(q, k)
    BY <2>2 DEF Counts
  <2>4. u[d] = IF Counts(w, d) THEN Append(u[n + i], LineAt(w, d)) ELSE u[n + i]
    BY <2>1 DEF Collected, w
  <2>5. x[k] = IF Counts(q, k) THEN Append(x[i], l) ELSE x[i]
    BY <2>1 DEF Collected, m
  <2>6. u[d] = v[n] \o x[k]
    <3> DEFINE T == Seq(Bytes)
               y == v[n]
               z == x[i]
    <3>1. y \in Seq(T) /\ z \in Seq(T) /\ l \in T
      BY <1>4, <2>1, <2>7
    <3> HIDE DEF T, y, z, l
    <3>2. Append(y \o z, l) = y \o Append(z, l)
      <4>1. AppendsBehind(y, z, l)
        BY <3>1, AppendBehind
      <4> QED
        BY <4>1 DEF AppendsBehind
    <3>3. LineAt(w, d) = l /\ u[n + i] = y \o z
      BY <2>2, <2>8 DEF l, y, z
    <3>4. x[k] = IF Counts(q, k) THEN Append(z, l) ELSE z
      BY <2>5 DEF z
    <3>5. u[d] = y \o x[k]
      BY <3>2, <3>3, <3>4, <2>4, <2>3
    <3> QED
      BY <3>5 DEF y
  <2> QED
    BY <2>1, <2>6 DEF k, d
<1> HIDE DEF G, n, m, w, X
<1>3. \A i \in 0..m : i \in G
  BY <1>0, <1>1, <1>2, UpTo
<1> QED
  BY <1>3 DEF G, n, m, Behind

LEMMA LinesParted ==
  ASSUME NEW p \in Seq(Bytes), NEW q \in Seq(Bytes), AtEnd(p)
  PROVE  CommandLines(p \o q) = CommandLines(p) \o CommandLines(q)
<1> DEFINE w == p \o q
<1>0. w \in Seq(Bytes) /\ Len(w) = Len(p) + Len(q) /\ Len(q) \in 0..Len(q)
  OBVIOUS
<1>1. PICK u : Collected(u, w) /\ CommandLines(w) = u[Len(w)]
  <2> HIDE DEF w
  <2> QED
    BY <1>0, CommandLinesAre
<1>2. PICK v : Collected(v, p) /\ CommandLines(p) = v[Len(p)]
  BY CommandLinesAre
<1>3. PICK x : Collected(x, q) /\ CommandLines(q) = x[Len(q)]
  BY CommandLinesAre
<1>4. Behind(p, q, u, v, x)
  BY <1>1, <1>2, <1>3, LinesSecond
<1> QED
  BY <1>0, <1>1, <1>2, <1>3, <1>4 DEF Behind

LEMMA CommandLinesSeq ==
  ASSUME NEW s \in Seq(Bytes)
  PROVE  CommandLines(s) \in Seq(Seq(Bytes))
<1>1. PICK u : Collected(u, s) /\ CommandLines(s) = u[Len(s)]
  BY CommandLinesAre
<1>2. Len(s) \in 0..Len(s)
  OBVIOUS
<1> QED
  BY <1>1, <1>2 DEF Collected

(* A part in which no line ends but at its end has that one line. *)
LEMMA LinesOfOne ==
  ASSUME NEW p \in Seq(Bytes), p # <<>>, \A j \in 1..(Len(p) - 1) : p[j] # "nl", p[Len(p)] = "nl"
  PROVE  CommandLines(p) = IF HasCommand(LineIn(p, 0, Len(p))) THEN <<LineIn(p, 0, Len(p))>> ELSE <<>>
<1> DEFINE n == Len(p)
<1>0. n \in Nat \ {0} /\ n \in 1..Len(p)
  OBVIOUS
<1>1. PICK u : Collected(u, p) /\ CommandLines(p) = u[n]
  BY CommandLinesAre
<1> DEFINE m == n - 1
           G == {i \in 0..m : u[i] = <<>>}
<1>2. m \in Nat /\ 0 \in G
  BY <1>0, <1>1 DEF Collected
<1>3. ASSUME NEW i \in 0..(m - 1), i \in G PROVE i + 1 \in G
  <2> DEFINE k == i + 1
  <2>1. k \in 1..m /\ k \in 1..Len(p) /\ k \in 0..m /\ k - 1 = i
    BY <1>0
  <2> HIDE DEF k
  <2>2. ~Counts(p, k)
    BY <2>1 DEF Counts
  <2>3. u[k] = u[i]
    BY <2>1, <2>2, <1>1 DEF Collected
  <2> QED
    BY <2>1, <2>3, <1>3 DEF k
<1>4. u[m] = <<>>
  <2> HIDE DEF G
  <2>1. \A i \in 0..m : i \in G
    <3> HIDE DEF m
    <3> QED
      BY <1>2, <1>3, UpTo
  <2> QED
    BY <2>1, <1>2 DEF G
<1>5. LineAt(p, n) = LineIn(p, 0, n)
  <2>1. 0 \in 0..(n - 1) /\ \A k \in (0 + 1)..(n - 1) : p[k] # "nl"
    BY <1>0
  <2> QED
    BY <1>0, <2>1, LineAtIs
<1>6. u[n] = IF Counts(p, n) THEN Append(u[m], LineAt(p, n)) ELSE u[m]
  BY <1>0, <1>1 DEF Collected
<1> QED
  BY <1>1, <1>4, <1>5, <1>6 DEF Counts

LEMMA ConcatAgain ==
  ASSUME NEW T, NEW x, NEW y, NEW z, x \in Seq(T), y \in Seq(T), z \in Seq(T)
  PROVE  (x \o y) \o z = x \o (y \o z)
<1> DEFINE l == (x \o y) \o z
           r == x \o (y \o z)
<1>1. l \in Seq(T) /\ r \in Seq(T) /\ Len(l) = Len(x) + Len(y) + Len(z) /\ Len(r) = Len(l)
  OBVIOUS
<1>2. ASSUME NEW i \in 1..Len(l) PROVE l[i] = r[i]
  OBVIOUS
<1> HIDE DEF l, r
<1>3. l = r
  BY <1>1, <1>2
<1> QED
  BY <1>3 DEF l, r

(* What is taken out of the buffer for a line. *)
LineTaken(b) == SubSeq(b, 1, LineEnd(b))

LEMMA FirstLine ==
  ASSUME NEW b \in Seq(Bytes), LineEnd(b) # 0
  PROVE  /\ LineTaken(b) \in Seq(Bytes) /\ After(b) \in Seq(Bytes) /\ Line(b) \in Seq(Bytes)
         /\ b = LineTaken(b) \o After(b)
         /\ Len(After(b)) < Len(b)
         /\ LineTaken(b) # <<>> /\ AtEnd(LineTaken(b))
         /\ CommandLines(LineTaken(b)) = IF HasCommand(Line(b)) THEN <<Line(b)>> ELSE <<>>
         /\ LineTaken(b)[Len(LineTaken(b))] = "nl"
         /\ LineAt(LineTaken(b), Len(LineTaken(b))) = Line(b)
<1> DEFINE e == LineEnd(b)
           p == LineTaken(b)
           q == After(b)
<1>1. e \in 1..Len(b) /\ b[e] = "nl" /\ \A j \in 1..(e - 1) : b[j] # "nl"
  <2>1. e \in 0..Len(b) /\ e # 0
    BY LineEndIs
  <2> QED
    BY <2>1, LineEndIs
<1>2. p = SubSeq(b, 1, e) /\ q = SubSeq(b, e + 1, Len(b)) /\ Line(b) = LineIn(b, 0, e)
  BY DEF LineTaken, After, Line
<1> HIDE DEF e, p, q
<1>3. p \in Seq(Bytes) /\ Len(p) = e /\ \A i \in 1..e : p[i] = b[i]
  BY <1>1, <1>2
<1>4. q \in Seq(Bytes) /\ Len(q) = Len(b) - e /\ \A i \in 1..Len(q) : q[i] = b[e + i]
  BY <1>1, <1>2
<1>5. b = p \o q
  <2> DEFINE r == p \o q
  <2>0. r \in Seq(Bytes) /\ Len(r) = Len(p) + Len(q)
    <3>1. p \in Seq(Bytes) /\ q \in Seq(Bytes)
      BY <1>3, <1>4
    <3> QED
      BY <3>1
  <2>1. Len(r) = Len(b) /\ Len(b) \in Nat /\ e \in Nat
    BY <2>0, <1>1, <1>3, <1>4
  <2>3. ASSUME NEW i \in 1..Len(b) PROVE r[i] = b[i]
    <3>1. CASE i <= e
      BY <3>1, <1>1, <1>3, <1>4
    <3>2. CASE i > e
      <4>1. i - e \in 1..Len(q) /\ i = e + (i - e) /\ e \in Nat
        BY <3>2, <1>1, <1>4
      <4>2. r[i] = q[i - e]
        BY <4>1, <1>3, <1>4
      <4> QED
        BY <4>1, <4>2, <1>4
    <3> QED
      BY <3>1, <3>2, <2>1
  <2> HIDE DEF r
  <2>2. r = b
    BY <2>0, <2>1, <2>3
  <2> QED
    BY <2>2 DEF r
<1>6. p # <<>> /\ p[Len(p)] = "nl" /\ \A j \in 1..(Len(p) - 1) : p[j] # "nl"
  BY <1>1, <1>3
<1>7. LineIn(b, 0, e) = LineIn(p, 0, e)
  <2>1. e \in 1..Len(p) /\ 0 \in 0..(e - 1)
    BY <1>1, <1>3
  <2>2. LineIn(p \o q, 0, e) = LineIn(p, 0, e)
    BY <1>3, <1>4, <2>1, LineInFirst
  <2> QED
    BY <2>2, <1>5
<1>8. CommandLines(p) = IF HasCommand(Line(b)) THEN <<Line(b)>> ELSE <<>>
  <2>1. CommandLines(p) = IF HasCommand(LineIn(p, 0, Len(p))) THEN <<LineIn(p, 0, Len(p))>> ELSE <<>>
    BY <1>3, <1>6, LinesOfOne
  <2> QED
    BY <2>1, <1>7, <1>3, <1>2
<1>9. LineAt(p, Len(p)) = Line(b)
  <2> DEFINE n == Len(p)
  <2>1. n \in 1..Len(p) /\ 0 \in 0..(n - 1) /\ \A k \in (0 + 1)..(n - 1) : p[k] # "nl"
    BY <1>1, <1>3, <1>6
  <2>2. LineAt(p, n) = LineIn(p, 0, n)
    BY <1>3, <2>1, LineAtIs
  <2> QED
    BY <2>2, <1>3, <1>7, <1>2
<1>10. Line(b) \in Seq(Bytes)
  <2>1. 0 \in 0..(e - 1)
    BY <1>1
  <2> QED
    BY <1>2, <1>1, <2>1, LineInIs
<1>11. Len(q) < Len(b) /\ AtEnd(p)
  BY <1>1, <1>4, <1>6 DEF AtEnd
<1> QED
  BY <1>3, <1>4, <1>5, <1>6, <1>8, <1>9, <1>10, <1>11 DEF p, q

-----------------------------------------------------------------------------
(* The loop. *)
Loop == [lines : Seq(Seq(Bytes)), rest : Seq(Bytes), over : BOOLEAN]

LEMMA LoopOnIs ==
  ASSUME NEW l \in Loop
  PROVE  /\ l.over \/ LineEnd(l.rest) = 0 => LoopOn(l) = l
         /\ ~(l.over \/ LineEnd(l.rest) = 0) =>
              /\ LoopOn(l).rest = After(l.rest)
              /\ LoopOn(l).lines = IF HasCommand(Line(l.rest)) THEN Append(l.lines, Line(l.rest))
                                   ELSE l.lines
              /\ (LoopOn(l).over <=> ~HasCommand(Line(l.rest)))
         /\ LoopOn(l) \in Loop
<1>1. l.rest \in Seq(Bytes) /\ l.lines \in Seq(Seq(Bytes)) /\ l.over \in BOOLEAN
      /\ l = [lines |-> l.lines, rest |-> l.rest, over |-> l.over]
  BY DEF Loop
<1>2. CASE l.over \/ LineEnd(l.rest) = 0
  <2>1. LoopOn(l) = l
    BY <1>2, Zenon DEF LoopOn
  <2> QED
    BY <2>1, <1>2
<1>3. CASE ~(l.over \/ LineEnd(l.rest) = 0) /\ HasCommand(Line(l.rest))
  <2> DEFINE a == After(l.rest)
             t == Line(l.rest)
  <2>1. a \in Seq(Bytes) /\ t \in Seq(Bytes)
    BY <1>1, <1>3, FirstLine
  <2>2. LoopOn(l) = [l EXCEPT !.lines = Append(@, t), !.rest = After(@)]
    BY <1>3, Zenon DEF LoopOn
  <2> HIDE DEF a, t
  <2>3. LoopOn(l) = [lines |-> Append(l.lines, t), rest |-> a, over |-> l.over]
    BY <2>2, <1>1 DEF a
  <2>4. Append(l.lines, t) \in Seq(Seq(Bytes)) /\ l.over = FALSE
    BY <1>1, <2>1, <1>3
  <2> QED
    BY <2>1, <2>3, <2>4, <1>3 DEF a, t, Loop
<1>4. CASE ~(l.over \/ LineEnd(l.rest) = 0) /\ ~HasCommand(Line(l.rest))
  <2> DEFINE a == After(l.rest)
  <2>1. a \in Seq(Bytes)
    BY <1>1, <1>4, FirstLine
  <2>2. LoopOn(l) = [l EXCEPT !.rest = After(@), !.over = TRUE]
    BY <1>4, Zenon DEF LoopOn
  <2> HIDE DEF a
  <2>3. LoopOn(l) = [lines |-> l.lines, rest |-> a, over |-> TRUE]
    BY <2>2, <1>1 DEF a
  <2>4. LoopOn(l).lines = l.lines /\ LoopOn(l).rest = a /\ LoopOn(l).over
    BY <2>3
  <2>5. LoopOn(l) \in Loop
    BY <1>1, <2>1, <2>3 DEF Loop
  <2> QED
    BY <2>4, <2>5, <1>4 DEF a
<1> QED
  BY <1>2, <1>3, <1>4

Rounds(u, b) ==
  /\ u \in [0..Len(b) -> Loop]
  /\ u[0] = LoopAt(b)
  /\ \A i \in 1..Len(b) : u[i] = LoopOn(u[i - 1])

RoundsOf(b, u) ==
  u = [n \in 0..Len(b) |-> IF n = 0 THEN LoopAt(b) ELSE LoopOn(u[n - 1])]

LEMMA GotDataIs ==
  ASSUME NEW b \in Seq(Bytes)
  PROVE  \E u : Rounds(u, b) /\ GotData(b) = u[Len(b)]
<1> DEFINE n == Len(b)
           X == Loop
           g == [i \in 1..n |-> [x \in X |-> LoopOn(x)]]
           a == LoopAt(b)
<1>1. n \in Nat /\ a \in X
  BY DEF LoopAt, Loop
<1>2. ASSUME NEW x \in X PROVE LoopOn(x) \in X
  BY LoopOnIs
<1> HIDE DEF X
<1>3. g \in [1..n -> [X -> X]]
  BY <1>2
<1>4. PICK f : Stepped(f, X, a, n, g)
  <2> HIDE DEF g, n, a
  <2> QED
    BY <1>1, <1>3, StepByStep
<1>5. f \in [0..n -> X] /\ f[0] = a /\ \A i \in 1..n : f[i] = LoopOn(f[i - 1])
  <2>1. f \in [0..n -> X] /\ f[0] = a /\ \A i \in 1..n : f[i] = g[i][f[i - 1]]
    BY <1>4 DEF Stepped
  <2>2. ASSUME NEW i \in 1..n PROVE f[i] = LoopOn(f[i - 1])
    <3>1. i - 1 \in 0..n
      BY <1>1
    <3>2. f[i - 1] \in X
      BY <2>1, <3>1
    <3> QED
      BY <2>1, <3>2
  <2> QED
    BY <2>1, <2>2
<1>6. RoundsOf(b, f)
  <2>1. f = [i \in 0..n |-> f[i]]
    BY <1>5
  <2>2. ASSUME NEW i \in 0..n
        PROVE  f[i] = IF i = 0 THEN LoopAt(b) ELSE LoopOn(f[i - 1])
    <3>1. CASE i = 0
      BY <3>1, <1>5
    <3>2. CASE i # 0
      <4>1. i \in 1..n
        BY <3>2
      <4> QED
        BY <4>1, <3>2, <1>5
    <3> QED
      BY <3>1, <3>2
  <2> QED
    BY <2>1, <2>2 DEF RoundsOf
<1> DEFINE u == CHOOSE v : RoundsOf(b, v)
<1>7. RoundsOf(b, u)
  BY <1>6
<1>8. GotData(b) = u[Len(b)]
  BY DEF GotData, RoundsOf
<1> HIDE DEF u
<1>9. u[0] = a /\ \A i \in 1..n : u[i] = LoopOn(u[i - 1])
  <2>1. \A i \in 0..n : u[i] = IF i = 0 THEN LoopAt(b) ELSE LoopOn(u[i - 1])
    BY <1>7, Zenon DEF RoundsOf
  <2>2. 0 \in 0..n /\ \A i \in 1..n : i \in 0..n /\ i # 0
    BY <1>1
  <2> QED
    BY <2>1, <2>2
<1>10. u \in [0..n -> X]
  <2> DEFINE G == {i \in 0..n : u[i] \in X}
  <2>1. 0 \in G
    BY <1>9, <1>1
  <2>2. ASSUME NEW i \in 0..(n - 1), i \in G PROVE i + 1 \in G
    <3>1. i + 1 \in 1..n /\ i + 1 \in 0..n /\ (i + 1) - 1 = i
      BY <1>1
    <3>2. u[i + 1] = LoopOn(u[i])
      BY <3>1, <1>9
    <3>3. u[i] \in X
      BY <2>2
    <3>4. u[i + 1] \in X
      BY <3>2, <3>3, <1>2
    <3> QED
      BY <3>1, <3>4
  <2>3. \A i \in 0..n : i \in G
    <3> HIDE DEF G
    <3> QED
      BY <1>1, <2>1, <2>2, UpTo
  <2>4. DOMAIN u = 0..n /\ u = [i \in 0..n |-> u[i]]
    BY <1>7 DEF RoundsOf
  <2> QED
    BY <2>3, <2>4
<1>11. Rounds(u, b)
  BY <1>9, <1>10 DEF Rounds, X
<1> QED
  BY <1>8, <1>11

(* What is taken out of b is whole lines; it is over when one of them had no command. *)
Parted(b, l) ==
  \E g \in Seq(Bytes) :
    /\ b = g \o l.rest /\ AtEnd(g) /\ CommandLines(g) = l.lines
    /\ l.over => \E i \in 1..Len(g) : g[i] = "nl" /\ ~HasCommand(LineAt(g, i))

LEMMA NoneOfNothing == CommandLines(<<>>) = <<>>
<1> DEFINE e == <<>>
<1>1. e \in Seq(Bytes) /\ Len(e) = 0
  OBVIOUS
<1> HIDE DEF e
<1>2. PICK u : Collected(u, e) /\ CommandLines(e) = u[Len(e)]
  BY <1>1, CommandLinesAre
<1>3. CommandLines(e) = <<>>
  BY <1>1, <1>2 DEF Collected
<1> QED
  BY <1>3 DEF e

LEMMA LineMore ==
  ASSUME NEW b \in Seq(Bytes), NEW l \in Loop, Parted(b, l), ~l.over, LineEnd(l.rest) # 0
  PROVE  Parted(b, LoopOn(l))
<1> DEFINE r == l.rest
           p == LineTaken(r)
           q == After(r)
           t == Line(r)
           m == LoopOn(l)
<1>1. PICK g \in Seq(Bytes) : b = g \o r /\ AtEnd(g) /\ CommandLines(g) = l.lines
  BY DEF Parted
<1>2. r \in Seq(Bytes) /\ LineEnd(r) # 0
  BY DEF Loop
<1>3. /\ p \in Seq(Bytes) /\ q \in Seq(Bytes) /\ t \in Seq(Bytes) /\ r = p \o q
      /\ p # <<>> /\ AtEnd(p)
      /\ CommandLines(p) = IF HasCommand(t) THEN <<t>> ELSE <<>>
      /\ p[Len(p)] = "nl" /\ LineAt(p, Len(p)) = t
  BY <1>2, FirstLine
<1>4. /\ m.rest = q /\ m.lines = IF HasCommand(t) THEN Append(l.lines, t) ELSE l.lines
      /\ m.over <=> ~HasCommand(t)
  BY LoopOnIs
<1>5. l.lines \in Seq(Seq(Bytes))
  BY DEF Loop
<1> HIDE DEF r, p, q, t, m
<1> DEFINE w == g \o p
<1>6. w \in Seq(Bytes) /\ Len(w) = Len(g) + Len(p) /\ Len(p) \in 1..Len(p) /\ Len(g) \in Nat
  BY <1>3
<1>7. b = w \o q
  <2> DEFINE T == Bytes
  <2>1. g \in Seq(T) /\ p \in Seq(T) /\ q \in Seq(T)
    BY <1>3
  <2>2. w \o q = g \o (p \o q)
    <3> HIDE DEF T
    <3> QED
      BY <2>1, ConcatAgain
  <2> QED
    BY <2>2, <1>1, <1>3
<1>8. LineAt(w, Len(g) + Len(p)) = t /\ w[Len(g) + Len(p)] = "nl"
  BY <1>1, <1>3, <1>6, LineAtSecond
<1>9. AtEnd(w)
  BY <1>6, <1>8 DEF AtEnd
<1>10. CommandLines(w) = m.lines
  <2> DEFINE c == CommandLines(g)
             d == CommandLines(p)
  <2>1. CommandLines(w) = c \o d
    BY <1>1, <1>3, LinesParted
  <2>2. c = l.lines /\ d = IF HasCommand(t) THEN <<t>> ELSE <<>>
    BY <1>1, <1>3
  <2> HIDE DEF w, c, d
  <2>3. CASE HasCommand(t)
    <3>1. c \o <<t>> = Append(c, t)
      BY <1>3, <1>5, <2>2
    <3> QED
      BY <3>1, <2>1, <2>2, <2>3, <1>4
  <2>4. CASE ~HasCommand(t)
    <3>1. c \o <<>> = c
      BY <1>5, <2>2
    <3> QED
      BY <3>1, <2>1, <2>2, <2>4, <1>4
  <2> QED
    BY <2>3, <2>4
<1>11. m.over => \E i \in 1..Len(w) : w[i] = "nl" /\ ~HasCommand(LineAt(w, i))
  <2>1. Len(g) + Len(p) \in 1..Len(w)
    BY <1>6
  <2> HIDE DEF w
  <2> QED
    BY <2>1, <1>4, <1>8
<1> HIDE DEF w
<1>12. Parted(b, m)
  BY <1>4, <1>6, <1>7, <1>9, <1>10, <1>11 DEF Parted
<1> QED
  BY <1>12 DEF m

Stopped(l) == l.over \/ LineEnd(l.rest) = 0

LEMMA GotDataHas ==
  ASSUME NEW b \in Seq(Bytes)
  PROVE  GotData(b) \in Loop /\ Parted(b, GotData(b)) /\ Stopped(GotData(b))
<1> DEFINE n == Len(b)
<1>0. n \in Nat
  OBVIOUS
<1>1. PICK u : Rounds(u, b) /\ GotData(b) = u[n]
  BY GotDataIs
<1> DEFINE G == {i \in 0..n : Parted(b, u[i]) /\ (Stopped(u[i]) \/ Len(u[i].rest) + i <= n)}
<1>2. \A i \in 0..n : u[i] \in Loop
  BY <1>1 DEF Rounds
<1>3. 0 \in G
  <2> DEFINE l == LoopAt(b)
             e == <<>>
  <2>1. u[0] = l
    BY <1>1 DEF Rounds
  <2>2. l.rest = b /\ l.lines = <<>> /\ l.over = FALSE
    BY DEF LoopAt
  <2>3. e \in Seq(Bytes) /\ b = e \o b /\ AtEnd(e) /\ CommandLines(e) = <<>>
    <3>1. e \o b = b
      OBVIOUS
    <3> QED
      BY <3>1, NoneOfNothing DEF AtEnd
  <2> HIDE DEF l, e
  <2>4. Parted(b, l)
    BY <2>2, <2>3 DEF Parted
  <2>5. Len(l.rest) + 0 <= n /\ 0 \in 0..n
    BY <2>2, <1>0
  <2> QED
    BY <2>1, <2>4, <2>5
<1>4. ASSUME NEW i \in 0..(n - 1), i \in G PROVE i + 1 \in G
  <2> DEFINE l == u[i]
             k == i + 1
             m == u[k]
  <2>1. k \in 1..n /\ k - 1 = i /\ i \in 0..n /\ k \in 0..n
    BY <1>0
  <2>2. m = LoopOn(l) /\ l \in Loop
    <3>1. u[k] = LoopOn(u[k - 1])
      BY <1>1, <2>1 DEF Rounds
    <3> QED
      BY <3>1, <2>1, <1>2
  <2>3. Parted(b, l) /\ (Stopped(l) \/ Len(l.rest) + i <= n)
    BY <1>4
  <2> HIDE DEF l, m, G
  <2>4. Parted(b, m) /\ (Stopped(m) \/ Len(m.rest) + k <= n)
    <3>1. CASE Stopped(l)
      BY <3>1, <2>2, <2>3, LoopOnIs DEF Stopped
    <3>2. CASE ~Stopped(l)
      <4>1. Parted(b, m)
        BY <3>2, <2>2, <2>3, LineMore DEF Stopped
      <4>2. m.rest = After(l.rest)
        BY <3>2, <2>2, LoopOnIs DEF Stopped
      <4>3. l.rest \in Seq(Bytes) /\ LineEnd(l.rest) # 0
        BY <3>2, <2>2 DEF Stopped, Loop
      <4>4. After(l.rest) \in Seq(Bytes) /\ Len(After(l.rest)) < Len(l.rest)
        BY <4>3, FirstLine
      <4>5. Len(m.rest) + k <= n
        <5> DEFINE x == After(l.rest)
        <5>1. Len(x) \in Nat /\ Len(l.rest) \in Nat /\ Len(x) < Len(l.rest) /\ Len(l.rest) + i <= n
          BY <4>3, <4>4, <3>2, <2>3
        <5> HIDE DEF x
        <5>2. Len(x) + k <= n
          BY <5>1, <1>0
        <5> QED
          BY <5>2, <4>2 DEF x
      <4> QED
        BY <4>1, <4>5
    <3> QED
      BY <3>1, <3>2
  <2>5. k \in G
    BY <2>1, <2>4 DEF G, m
  <2> QED
    BY <2>5
<1>5. n \in G
  <2>1. \A i \in 0..n : i \in G
    <3> HIDE DEF G, n
    <3> QED
      BY <1>0, <1>3, <1>4, UpTo
  <2> QED
    BY <2>1, <1>0
<1> DEFINE l == u[n]
<1>6. Parted(b, l) /\ (Stopped(l) \/ Len(l.rest) + n <= n) /\ l \in Loop
  <2>1. n \in 0..n
    BY <1>0
  <2> QED
    BY <1>5, <1>2, <2>1
<1> HIDE DEF l
<1>7. Stopped(l)
  <2> SUFFICES ASSUME Len(l.rest) + n <= n PROVE LineEnd(l.rest) = 0
    BY <1>6 DEF Stopped
  <2>1. l.rest \in Seq(Bytes)
    BY <1>6 DEF Loop
  <2>2. Len(l.rest) \in Nat
    BY <2>1
  <2>3. Len(l.rest) = 0
    BY <2>2, <1>0
  <2>4. LineEnd(l.rest) \in 0..Len(l.rest)
    BY <2>1, LineEndIs
  <2> QED
    BY <2>3, <2>4
<1> QED
  BY <1>1, <1>6, <1>7 DEF l

-----------------------------------------------------------------------------
(* The stream: what is in the buffer is what came after the last line that was taken. *)
LinesInv ==
  /\ LinesTypeOK
  /\ \E g \in Seq(Bytes) : stream = g \o buffer /\ AtEnd(g) /\ CommandLines(g) = handled
  /\ NoLineWaits

LEMMA LinesBegin == LinesInit => LinesInv
<1> SUFFICES ASSUME LinesInit PROVE LinesInv
  OBVIOUS
<1> DEFINE e == <<>>
<1>1. e \in Seq(Bytes) /\ e = e \o e /\ AtEnd(e)
  BY DEF AtEnd
<1>2. stream = e /\ buffer = e /\ handled = e /\ link = "open"
  BY DEF LinesInit
<1>3. LinesTypeOK
  BY LineBufferAssumption DEF LinesInit, LinesTypeOK
<1>4. NoLineWaits
  BY DEF LinesInit, NoLineWaits
<1>5. CommandLines(e) = e
  BY NoneOfNothing
<1> HIDE DEF e
<1> QED
  BY <1>1, <1>2, <1>3, <1>4, <1>5 DEF LinesInv

LEMMA LinesRest == LinesInv /\ UNCHANGED lineVars => LinesInv'
BY DEF LinesInv, lineVars, LinesTypeOK, NoLineWaits

LEMMA SockReadKeeps ==
  ASSUME NEW bytes \in Seq(Bytes), LinesInv, SockRead(bytes)
  PROVE  LinesInv'
<1> DEFINE b == buffer \o bytes
           l == GotData(b)
<1>1. /\ link = "open" /\ link' = link
      /\ buffer' = l.rest /\ handled' = handled \o l.lines /\ stream' = stream \o bytes
      /\ Len(bytes) \in 1..(Size - Len(buffer))
  BY DEF SockRead
<1>2. /\ stream \in Seq(Bytes) /\ buffer \in Seq(Bytes) /\ handled \in Seq(Seq(Bytes))
      /\ Len(buffer) <= Size /\ Size \in Nat
  BY LineBufferAssumption DEF LinesInv, LinesTypeOK
<1>3. b \in Seq(Bytes) /\ Len(b) = Len(buffer) + Len(bytes) /\ Len(b) <= Size
  BY <1>1, <1>2
<1> HIDE DEF b
<1>4. l \in Loop /\ Parted(b, l) /\ Stopped(l)
  BY <1>3, GotDataHas
<1>5. PICK g \in Seq(Bytes) : stream = g \o buffer /\ AtEnd(g) /\ CommandLines(g) = handled
  BY DEF LinesInv
<1> HIDE DEF l
<1>6. l.rest \in Seq(Bytes) /\ l.lines \in Seq(Seq(Bytes))
  BY <1>4 DEF Loop
<1>7. PICK h \in Seq(Bytes) :
           /\ b = h \o l.rest /\ AtEnd(h) /\ CommandLines(h) = l.lines
           /\ l.over => \E i \in 1..Len(h) : h[i] = "nl" /\ ~HasCommand(LineAt(h, i))
  BY <1>4 DEF Parted
<1> DEFINE w == g \o h
           r == l.rest
           T == Bytes
<1>8. w \in Seq(T) /\ r \in Seq(T) /\ Len(w) = Len(g) + Len(h) /\ Len(g) \in Nat /\ Len(h) \in Nat
  BY <1>6
<1>9. stream' = w \o r
  <2>1. stream' = (g \o buffer) \o bytes
    BY <1>1, <1>5
  <2>2. (g \o buffer) \o bytes = g \o (buffer \o bytes)
    <3>1. g \in Seq(T) /\ buffer \in Seq(T) /\ bytes \in Seq(T)
      BY <1>2
    <3> HIDE DEF T
    <3> QED
      BY <3>1, ConcatAgain
  <2>3. (g \o h) \o r = g \o (h \o r)
    <3>1. g \in Seq(T) /\ h \in Seq(T) /\ r \in Seq(T)
      BY <1>6
    <3> HIDE DEF T, r
    <3> QED
      BY <3>1, ConcatAgain
  <2>4. h \o r = buffer \o bytes
    BY <1>7 DEF b
  <2> QED
    BY <2>1, <2>2, <2>3, <2>4
<1>10. AtEnd(w)
  <2>1. CASE h = <<>>
    <3>1. w = g
      BY <2>1
    <3> QED
      BY <3>1, <1>5
  <2>2. CASE h # <<>>
    <3>1. Len(h) \in 1..Len(h) /\ h[Len(h)] = "nl"
      BY <2>2, <1>7 DEF AtEnd
    <3>2. w[Len(g) + Len(h)] = h[Len(h)]
      BY <3>1
    <3> QED
      BY <3>1, <3>2, <1>8 DEF AtEnd
  <2> QED
    BY <2>1, <2>2
<1>11. CommandLines(w) = handled'
  <2>1. CommandLines(w) = CommandLines(g) \o CommandLines(h)
    BY <1>5, LinesParted
  <2> QED
    BY <2>1, <1>1, <1>5, <1>7
<1>16. buffer' = r
  BY <1>1
<1> DEFINE s == w \o r
<1>12. s \in Seq(Bytes) /\ Len(s) = Len(w) + Len(r)
       /\ (\A i \in 1..Len(w) : s[i] = w[i]) /\ (\A i \in 1..Len(r) : s[Len(w) + i] = r[i])
  <2>1. w \in Seq(Bytes) /\ r \in Seq(Bytes)
    BY <1>8
  <2> HIDE DEF w, r
  <2> QED
    BY <2>1
<1>17. stream' = s
  BY <1>9
<1>18. Len(s) \in Nat /\ Len(w) \in Nat /\ Len(r) \in Nat
       /\ DOMAIN s = 1..Len(s) /\ DOMAIN r = 1..Len(r)
  <2> HIDE DEF w, r, s, T
  <2> QED
    BY <1>8, <1>12
<1>19. \A i \in 1..Len(h) : LineAt(w, Len(g) + i) = LineAt(h, i) /\ w[Len(g) + i] = h[i]
  BY <1>5, LineAtSecond
<1>20. Len(b) = Len(h) + Len(r)
  BY <1>6, <1>7
<1>21. \A k \in 1..Len(w) : LineAt(s, k) = LineAt(w, k) /\ s[k] = w[k]
  <2>1. w \in Seq(Bytes) /\ r \in Seq(Bytes)
    BY <1>8
  <2> HIDE DEF w, r
  <2> QED
    BY <2>1, LineAtFirst
<1> HIDE DEF w, r, s
<1>13. LinesTypeOK'
  <2>1. Len(r) <= Size
    BY <1>20, <1>18, <1>3, <1>8, <1>2
  <2>2. handled \o l.lines \in Seq(Seq(Bytes))
    <3> DEFINE x == l.lines
               U == Seq(Bytes)
    <3>1. handled \in Seq(U) /\ x \in Seq(U)
      BY <1>2, <1>6
    <3> HIDE DEF x, U
    <3>2. handled \o x \in Seq(U)
      BY <3>1
    <3> QED
      BY <3>2 DEF x, U
  <2> QED
    BY <2>1, <2>2, <1>1, <1>8, <1>16, <1>17, <1>12 DEF LinesTypeOK
<1>14. NoLineWaits'
  <2>1. CASE LineEnd(r) = 0
    <3>1. (\A i \in DOMAIN r : r[i] # "nl") \/ \E i \in DOMAIN r : r[i] = "nul"
      BY <2>1, <1>8, LineEndIs
    <3>3. ASSUME NEW i \in DOMAIN r, r[i] = "nul" PROVE \E j \in DOMAIN s : s[j] = "nul"
      <4>1. Len(w) + i \in DOMAIN s /\ s[Len(w) + i] = r[i]
        BY <1>12, <1>18
      <4> QED
        BY <4>1, <3>3
    <3> QED
      BY <3>1, <3>3, <1>16, <1>17 DEF NoLineWaits
  <2>2. CASE l.over
    <3>1. PICK i \in 1..Len(h) : h[i] = "nl" /\ ~HasCommand(LineAt(h, i))
      BY <2>2, <1>7
    <3> DEFINE k == Len(g) + i
    <3>2. k \in 1..Len(w) /\ k \in DOMAIN s
      BY <1>8, <1>12, <1>18
    <3>3. LineAt(w, k) = LineAt(h, i) /\ w[k] = h[i]
      BY <1>19
    <3> HIDE DEF k
    <3>4. LineAt(s, k) = LineAt(w, k) /\ s[k] = w[k]
      BY <3>2, <1>21
    <3>5. s[k] = "nl" /\ ~HasCommand(LineAt(s, k))
      BY <3>1, <3>3, <3>4
    <3> QED
      BY <3>2, <3>5, <1>17 DEF NoLineWaits
  <2>3. l.over \/ LineEnd(r) = 0
    BY <1>4 DEF Stopped, r
  <2> QED
    BY <2>1, <2>2, <2>3
<1>15. stream' = w \o r
  BY <1>17 DEF s
<1> QED
  BY <1>8, <1>15, <1>10, <1>11, <1>13, <1>14, <1>16 DEF LinesInv

LEMMA LinesSteps == LinesInv /\ LinesNext => LinesInv'
<1> SUFFICES ASSUME LinesInv, LinesNext PROVE LinesInv'
  OBVIOUS
<1>1. ASSUME NEW n \in 1..Size, NEW bytes \in [1..n -> Bytes], SockRead(bytes) PROVE LinesInv'
  <2>1. bytes \in Seq(Bytes)
    BY LineBufferAssumption
  <2> QED
    BY <2>1, <1>1, SockReadKeeps
<1>2. CASE SockEnd
  BY <1>2 DEF SockEnd, LinesInv, LinesTypeOK, NoLineWaits
<1> QED
  BY <1>1, <1>2, Zenon DEF LinesNext

LEMMA LinesAre == LinesInv => LinesOfStream /\ NoLineWaits
<1> SUFFICES ASSUME LinesInv PROVE LinesOfStream
  BY DEF LinesInv
<1>1. PICK g \in Seq(Bytes) : stream = g \o buffer /\ AtEnd(g) /\ CommandLines(g) = handled
  BY DEF LinesInv
<1>2. buffer \in Seq(Bytes)
  BY DEF LinesInv, LinesTypeOK
<1>3. CommandLines(g \o buffer) = CommandLines(g) \o CommandLines(buffer)
  BY <1>1, <1>2, LinesParted
<1> QED
  BY <1>1, <1>3 DEF LinesOfStream

-----------------------------------------------------------------------------
(* Subcodes.  Queues and lines hold numbers of subcodes: they rise. *)
Rising(q) == \A m, n \in DOMAIN q : m < n => q[m] < q[n]

Holds(q, s) == \E m \in DOMAIN q : q[m] = s

(* What is in r is in q, but not in S. *)
Remains(r, q, S) == \A s : Holds(r, s) <=> Holds(q, s) /\ s \in S

LEMMA ThoseRise ==
  ASSUME NEW T, NEW q \in Seq(T), T \subseteq Nat, Rising(q), NEW S
  PROVE  Those(q, S) \in Seq(T) /\ Rising(Those(q, S)) /\ Remains(Those(q, S), q, S)
<1> DEFINE r == Those(q, S)
<1>1. PICK h : TakenFrom(T, q, S, Len(q), r, h)
  BY ThoseTaken, Zenon
<1> HIDE DEF r
<1>2. /\ r \in Seq(T) /\ DOMAIN r = 1..Len(r) /\ DOMAIN q = 1..Len(q) /\ Len(r) \in Nat /\ Len(q) \in Nat
      /\ h \in [1..Len(r) -> 1..Len(q)]
  BY <1>1 DEF TakenFrom
<1>3. Rising(r)
  <2> SUFFICES ASSUME NEW m \in DOMAIN r, NEW n \in DOMAIN r, m < n PROVE r[m] < r[n]
    BY DEF Rising
  <2>1. h[m] \in DOMAIN q /\ h[n] \in DOMAIN q /\ h[m] < h[n]
    BY <1>1, <1>2 DEF TakenFrom
  <2>2. q[h[m]] < q[h[n]]
    BY <2>1 DEF Rising
  <2> QED
    BY <2>2, <1>1, <1>2 DEF TakenFrom
<1>4. ASSUME NEW s, Holds(r, s) PROVE Holds(q, s) /\ s \in S
  <2>1. PICK m \in 1..Len(r) : r[m] = s
    BY <1>2, <1>4 DEF Holds
  <2>2. r[m] = q[h[m]] /\ q[h[m]] \in S /\ h[m] \in 1..Len(q)
    BY <1>1, <1>2 DEF TakenFrom
  <2> QED
    BY <2>1, <2>2, <1>2 DEF Holds
<1>5. ASSUME NEW s, Holds(q, s), s \in S PROVE Holds(r, s)
  <2>1. PICK m \in 1..Len(q) : q[m] = s
    BY <1>2, <1>5 DEF Holds
  <2>2. PICK j \in 1..Len(r) : h[j] = m
    BY <1>1, <1>5, <2>1 DEF TakenFrom
  <2>3. r[j] = s
    BY <1>1, <2>1, <2>2 DEF TakenFrom
  <2> QED
    BY <2>3, <1>2 DEF Holds
<1> QED
  BY <1>2, <1>3, <1>4, <1>5, Zenon DEF r, Remains

(* r is the first of q: what else q holds is greater. *)
FirstOf(r, q) ==
  /\ Rising(r)
  /\ \A s : Holds(r, s) => Holds(q, s)
  /\ \A s, t : Holds(r, s) /\ Holds(q, t) /\ ~Holds(r, t) => s < t

LEMMA FirstsAre ==
  ASSUME NEW T, NEW q \in Seq(T), T \subseteq Nat, Rising(q), NEW n \in 0..Len(q)
  PROVE  SubSeq(q, 1, n) \in Seq(T) /\ FirstOf(SubSeq(q, 1, n), q)
<1> DEFINE r == SubSeq(q, 1, n)
<1>1. /\ r \in Seq(T) /\ DOMAIN r = 1..n /\ DOMAIN q = 1..Len(q) /\ n \in Nat /\ Len(q) \in Nat
      /\ \A i \in 1..n : r[i] = q[i] /\ i \in DOMAIN q
  <2>1. n \in Nat /\ Len(q) \in Nat /\ DOMAIN q = 1..Len(q) /\ n <= Len(q)
    OBVIOUS
  <2>2. \A i \in 1..n : i \in 1..Len(q)
    BY <2>1
  <2>3. Len(r) = n /\ r \in Seq(T)
    BY <2>1, <2>2
  <2>4. \A i \in 1..n : r[i] = q[i]
    BY <2>1
  <2> QED
    BY <2>1, <2>2, <2>3, <2>4
<1> HIDE DEF r
<1>2. Rising(r)
  BY <1>1 DEF Rising
<1>3. \A s : Holds(r, s) => Holds(q, s)
  BY <1>1 DEF Holds
<1>4. ASSUME NEW s, NEW t, Holds(r, s), Holds(q, t), ~Holds(r, t) PROVE s < t
  <2>1. PICK i \in 1..n : r[i] = s
    BY <1>1, <1>4 DEF Holds
  <2>2. PICK j \in 1..Len(q) : q[j] = t
    BY <1>1, <1>4 DEF Holds
  <2>3. j \notin 1..n
    BY <1>1, <1>4, <2>2 DEF Holds
  <2>4. i < j /\ i \in DOMAIN q /\ j \in DOMAIN q
    BY <2>3, <1>1
  <2> QED
    BY <2>1, <2>2, <2>4, <1>1 DEF Rising
<1> QED
  BY <1>1, <1>2, <1>3, <1>4 DEF r, FirstOf

LEMMA AppendHolds ==
  ASSUME NEW T, NEW q \in Seq(T), NEW x
  PROVE  \A s : Holds(Append(q, x), s) <=> Holds(q, s) \/ s = x
<1> DEFINE r == Append(q, x)
           n == Len(q)
<1>1. /\ DOMAIN q = 1..n /\ DOMAIN r = 1..(n + 1) /\ n \in Nat
      /\ r[n + 1] = x /\ \A i \in 1..n : r[i] = q[i]
  OBVIOUS
<1> HIDE DEF r, n
<1>2. ASSUME NEW s, Holds(r, s) PROVE Holds(q, s) \/ s = x
  <2>1. PICK i \in 1..(n + 1) : r[i] = s
    BY <1>1, <1>2 DEF Holds
  <2>2. i = n + 1 \/ i \in 1..n
    BY <1>1
  <2> QED
    BY <2>1, <2>2, <1>1 DEF Holds
<1>3. ASSUME NEW s, Holds(q, s) PROVE Holds(r, s)
  <2>1. PICK i \in 1..n : q[i] = s
    BY <1>1, <1>3 DEF Holds
  <2>2. i \in 1..(n + 1)
    BY <1>1
  <2> QED
    BY <2>1, <2>2, <1>1 DEF Holds
<1>4. Holds(r, x)
  <2>1. n + 1 \in 1..(n + 1)
    BY <1>1
  <2> QED
    BY <2>1, <1>1 DEF Holds
<1> QED
  BY <1>2, <1>3, <1>4 DEF r

(* A number that is greater than all before it. *)
LEMMA AppendRises ==
  ASSUME NEW T, NEW q \in Seq(T), NEW x, Rising(q), \A s : Holds(q, s) => s < x
  PROVE  Rising(Append(q, x))
<1> DEFINE r == Append(q, x)
           l == Len(q)
<1>1. /\ DOMAIN q = 1..l /\ DOMAIN r = 1..(l + 1) /\ l \in Nat
      /\ r[l + 1] = x /\ \A i \in 1..l : r[i] = q[i]
  OBVIOUS
<1> HIDE DEF r, l
<1>2. ASSUME NEW m \in 1..(l + 1), NEW n \in 1..(l + 1), m < n PROVE r[m] < r[n]
  <2>1. m \in 1..l
    BY <1>1, <1>2
  <2>2. CASE n = l + 1
    <3>1. Holds(q, q[m])
      BY <2>1, <1>1 DEF Holds
    <3> QED
      BY <3>1, <2>1, <2>2, <1>1
  <2>3. CASE n # l + 1
    <3>1. n \in 1..l
      BY <1>1, <2>3
    <3> QED
      BY <3>1, <2>1, <1>1, <1>2 DEF Rising
  <2> QED
    BY <2>2, <2>3
<1> QED
  BY <1>1, <1>2 DEF r, Rising

Subcode == [to : People \cup {Raw}, kind : Kinds, length : 1..Limit, session : Nat]

SentLine == [to : People, kind : Kinds, subs : Seq(Nat), session : Nat, length : Nat,
             fate : {"sent", "void", "too long"}]

SubcodesTyped ==
  /\ subcodes \in Seq(Subcode) /\ queue \in [Kinds -> Seq(1..Len(subcodes))]
  /\ lines \in Seq(SentLine)
  /\ session \in [n : Nat, phase : {"off", "synack", "signon", "active"}]

(* The lengths of a list of subcodes, added up. *)
Summed(u, is) ==
  u = [n \in 0..Len(is) |-> IF n = 0 THEN 0 ELSE u[n - 1] + subcodes[is[n]].length]

LEMMA LengthIs ==
  ASSUME SubcodesTyped, NEW is \in Seq(1..Len(subcodes))
  PROVE  Length(is) \in Nat
<1> DEFINE n == Len(is)
           g == [i \in 1..n |-> [x \in Nat |-> x + subcodes[is[i]].length]]
<1>1. n \in Nat /\ \A i \in 1..n : subcodes[is[i]].length \in Nat
  <2>1. \A j \in 1..Len(subcodes) : subcodes[j] \in Subcode
    BY DEF SubcodesTyped
  <2>2. \A i \in 1..n : is[i] \in 1..Len(subcodes)
    OBVIOUS
  <2>3. \A x \in Subcode : x.length \in Nat
    BY SubcodesAssumption DEF Subcode
  <2> QED
    BY <2>1, <2>2, <2>3
<1>2. g \in [1..n -> [Nat -> Nat]]
  <2>1. \A i \in 1..n : \A x \in Nat : x + subcodes[is[i]].length \in Nat
    BY <1>1
  <2> QED
    BY <2>1
<1>3. PICK f : Stepped(f, Nat, 0, n, g)
  <2> HIDE DEF g, n
  <2>1. 0 \in Nat
    OBVIOUS
  <2> QED
    BY <1>1, <1>2, <2>1, StepByStep
<1>4. Summed(f, is)
  <2>1. f \in [0..n -> Nat] /\ f[0] = 0 /\ \A i \in 1..n : f[i] = g[i][f[i - 1]]
    BY <1>3 DEF Stepped
  <2>2. ASSUME NEW i \in 1..n PROVE f[i] = f[i - 1] + subcodes[is[i]].length
    <3>1. i - 1 \in 0..n /\ f[i - 1] \in Nat
      BY <2>1
    <3>2. g[i][f[i - 1]] = f[i - 1] + subcodes[is[i]].length
      BY <3>1
    <3> QED
      BY <2>1, <3>2
  <2>3. ASSUME NEW i \in 0..n
        PROVE  f[i] = IF i = 0 THEN 0 ELSE f[i - 1] + subcodes[is[i]].length
    <3>1. CASE i = 0
      BY <3>1, <2>1
    <3>2. CASE i # 0
      <4>1. i \in 1..n
        BY <3>2, <1>1
      <4> QED
        BY <4>1, <3>2, <2>2
    <3> QED
      BY <3>1, <3>2
  <2>4. f = [i \in 0..n |-> f[i]]
    BY <2>1
  <2> QED
    BY <2>3, <2>4 DEF Summed
<1> DEFINE u == CHOOSE v : Summed(v, is)
<1>5. Summed(u, is) /\ Length(is) = u[n]
  <2>1. \E v : Summed(v, is)
    BY <1>4
  <2>2. Summed(u, is)
    BY <2>1
  <2>3. Length(is) = u[n]
    BY DEF Length, Summed
  <2> QED
    BY <2>2, <2>3
<1> HIDE DEF u
<1> DEFINE G == {i \in 0..n : u[i] \in Nat}
<1>6. \A i \in 0..n : u[i] = IF i = 0 THEN 0 ELSE u[i - 1] + subcodes[is[i]].length
  BY <1>5 DEF Summed
<1>7. 0 \in G
  BY <1>1, <1>6
<1>8. ASSUME NEW i \in 0..(n - 1), i \in G PROVE i + 1 \in G
  <2> DEFINE k == i + 1
  <2>1. k \in 1..n /\ k \in 0..n /\ k - 1 = i /\ u[i] \in Nat /\ k # 0
    BY <1>1, <1>8
  <2> HIDE DEF k
  <2>2. u[k] = u[i] + subcodes[is[k]].length
    BY <2>1, <1>6
  <2>3. subcodes[is[k]].length \in Nat
    BY <2>1, <1>1
  <2>4. u[k] \in Nat
    BY <2>1, <2>2, <2>3
  <2> QED
    BY <2>1, <2>4 DEF k
<1>9. \A i \in 0..n : i \in G
  <2> HIDE DEF G, n
  <2> QED
    BY <1>1, <1>7, <1>8, UpTo
<1> QED
  BY <1>1, <1>5, <1>9

(* What a message takes along: the first of what waits for its reader. *)
LEMMA WaitingIs ==
  ASSUME SubcodesTyped, NEW kind \in Kinds, NEW to, Rising(queue[kind])
  PROVE  /\ Waiting(kind, to) \in Seq(1..Len(subcodes)) /\ Rising(Waiting(kind, to))
         /\ \A s : Holds(Waiting(kind, to), s) <=> Holds(queue[kind], s) /\ subcodes[s].to = to
<1> DEFINE T == 1..Len(subcodes)
           q == queue[kind]
           Its == {i \in DOMAIN subcodes : subcodes[i].to = to}
           w == Those(q, Its)
<1>1. q \in Seq(T) /\ T \subseteq Nat /\ DOMAIN subcodes = T
  BY DEF SubcodesTyped
<1>2. w \in Seq(T) /\ Rising(w) /\ Remains(w, q, Its)
  <2> HIDE DEF q, Its, T
  <2> QED
    BY <1>1, ThoseRise DEF q
<1>3. Waiting(kind, to) = w
  BY DEF Waiting
<1>4. \A s : Holds(q, s) => s \in T
  <2>1. \A m \in DOMAIN q : q[m] \in T
    BY <1>1
  <2> HIDE DEF q, T
  <2> QED
    BY <2>1 DEF Holds
<1>5. \A s : Holds(w, s) <=> Holds(q, s) /\ s \in Its
  BY <1>2, Zenon DEF Remains
<1> HIDE DEF w, q
<1>6. \A s : Holds(w, s) <=> Holds(q, s) /\ subcodes[s].to = to
  BY <1>1, <1>4, <1>5
<1> QED
  BY <1>2, <1>3, <1>6 DEF q

Takes(subs, kind, to) ==
  /\ subs \in Seq(Nat) /\ Rising(subs)
  /\ \A s : Holds(subs, s) => Holds(queue[kind], s) /\ subcodes[s].to = to
  /\ \A s, t : Holds(subs, s) /\ Holds(queue[kind], t) /\ subcodes[t].to = to /\ ~Holds(subs, t)
                 => s < t

Fits(subs, text) ==
  subs # <<>> => 1 + text + Length(subs) \in Nat /\ 1 + text + Length(subs) <= Limit

LEMMA TakesNone ==
  ASSUME NEW kind, NEW to, NEW text
  PROVE  Takes(<<>>, kind, to) /\ Fits(<<>>, text)
BY DEF Takes, Fits, Rising, Holds

LEMMA TakenIs ==
  ASSUME SubcodesTyped, NEW kind \in Kinds, NEW to, NEW text \in Nat, Rising(queue[kind])
  PROVE  Takes(Taken(kind, to, text), kind, to) /\ Fits(Taken(kind, to, text), text)
<1> DEFINE mine == Waiting(kind, to)
           room == {n \in 0..Len(mine) : 1 + text + Length(SubSeq(mine, 1, n)) <= Limit}
           n == CHOOSE n \in room : \A m \in room : m <= n
           T == 1..Len(subcodes)
<1>1. /\ mine \in Seq(T) /\ Rising(mine)
      /\ \A s : Holds(mine, s) <=> Holds(queue[kind], s) /\ subcodes[s].to = to
  BY WaitingIs
<1> HIDE DEF mine, n
<1>2. CASE room = {}
  <2>1. Taken(kind, to, text) = <<>>
    BY <1>2 DEF Taken, mine
  <2> QED
    BY <2>1, TakesNone
<1>3. CASE room # {}
  <2>1. \E m \in room : \A k \in room : k <= m
    <3> DEFINE l == Len(mine)
    <3>1. l \in Nat /\ room \in SUBSET (0..l)
      BY <1>1
    <3> HIDE DEF l, room
    <3> QED
      BY <1>3, <3>1, GreatestOf
  <2>2. n \in room
    BY <2>1 DEF n
  <2> DEFINE subs == SubSeq(mine, 1, n)
  <2>3. n \in 0..Len(mine) /\ 1 + text + Length(subs) <= Limit
    BY <2>2
  <2>4. Taken(kind, to, text) = subs
    BY <1>3 DEF Taken, mine, n
  <2> HIDE DEF room
  <2>5. subs \in Seq(T) /\ FirstOf(subs, mine)
    <3>1. T \subseteq Nat
      BY DEF SubcodesTyped
    <3> HIDE DEF T
    <3> QED
      BY <1>1, <2>3, <3>1, FirstsAre
  <2> HIDE DEF subs
  <2>6. Length(subs) \in Nat
    BY <2>5, LengthIs
  <2>7. subs \in Seq(Nat)
    <3>1. T \subseteq Nat /\ subs \in [1..Len(subs) -> T] /\ Len(subs) \in Nat
      BY <2>5 DEF SubcodesTyped
    <3>2. subs \in [1..Len(subs) -> Nat]
      BY <3>1
    <3> QED
      BY <3>1, <3>2
  <2>8. Takes(subs, kind, to)
    BY <2>5, <2>7, <1>1 DEF Takes, FirstOf
  <2>9. Fits(subs, text)
    BY <2>3, <2>6 DEF Fits
  <2> QED
    BY <2>4, <2>8, <2>9
<1> QED
  BY <1>2, <1>3

Queued(kind, s) == Holds(queue[kind], s)
Carries(i, s)  == Holds(lines[i].subs, s)

QueuesRise == \A k \in Kinds : Rising(queue[k])

LinesRise ==
  \A i \in DOMAIN lines : Rising(lines[i].subs) /\ \A s : Carries(i, s) => s \in DOMAIN subcodes

(* A line has what was queued before what later lines of its kind to its reader have, and
   before what waits for him. *)
LinesOrder ==
  \A i, j \in DOMAIN lines : i < j /\ lines[i].to = lines[j].to /\ lines[i].kind = lines[j].kind =>
    \A s, t : Carries(i, s) /\ Carries(j, t) => s < t

LinesBefore ==
  \A i \in DOMAIN lines : \A s, t :
    Carries(i, s) /\ Queued(lines[i].kind, t) /\ subcodes[t].to = lines[i].to => s < t

NoneMissing ==
  session.phase # "off" => \A s \in DOMAIN subcodes : subcodes[s].session = session.n =>
    \/ Queued(subcodes[s].kind, s)
    \/ \E i \in DOMAIN lines :
         lines[i].to = subcodes[s].to /\ lines[i].kind = subcodes[s].kind /\ Carries(i, s)

NoneLater == \A s \in DOMAIN subcodes : subcodes[s].session <= session.n

OnlyTooLong == \A i \in DOMAIN lines : lines[i].fate = "too long" => lines[i].length = Limit

SubcodesKept ==
  /\ SubcodesTyped /\ QueuesRise /\ LinesRise /\ LinesOrder /\ LinesBefore
  /\ NoneMissing /\ NoneLater /\ OnlyTooLong /\ NoStaleSubcode

(* What waits was queued in this session: a session that is off may leave its queues to the
   next one, which drains them before it is anything but void. *)
AllFresh == \A k \in Kinds : \A s : Queued(k, s) => subcodes[s].session = session.n

SubcodesInv ==
  /\ SubcodesKept
  /\ session.phase = "off" \/ (session.phase = "synack" /\ pc # "read") \/ AllFresh
  /\ pc = "drain" => ~Empty /\ session.phase # "off"
  /\ DrainGoesOn

LEMMA WaitIsQueued ==
  ASSUME SubcodesTyped, NEW k \in Kinds, NEW s, Queued(k, s)
  PROVE  s \in DOMAIN subcodes /\ s \in Nat
<1> DEFINE q == queue[k]
<1>1. q \in Seq(1..Len(subcodes)) /\ DOMAIN subcodes = 1..Len(subcodes)
  BY DEF SubcodesTyped
<1>2. PICK m \in DOMAIN q : q[m] = s
  BY DEF Queued, Holds
<1> HIDE DEF q
<1>3. s \in 1..Len(subcodes)
  BY <1>1, <1>2
<1> QED
  BY <1>1, <1>3

LEMMA AsMuchAs ==
  ASSUME NEW m \in Nat, NEW n \in Nat, m <= n, m >= n
  PROVE  m = n
OBVIOUS

LEMMA TooLongIs ==
  ASSUME NEW l \in Nat, Fate(l) = "too long", l <= Limit
  PROVE  l = Limit
<1>1. Limit \in Nat /\ l >= Limit
  BY SubcodesAssumption DEF Fate
<1> QED
  BY <1>1, AsMuchAs, Zenon

(* A message takes the first of what waits for its reader into a line. *)
LEMMA MessageKeeps ==
  ASSUME SubcodesKept, NEW kind \in Kinds, NEW to \in People \cup {Raw}, NEW text \in Nat,
         ImSendMessage(kind, to, text), UNCHANGED <<subcodes, session>>,
         session.phase = "synack" \/ AllFresh
  PROVE  SubcodesKept' /\ \A k \in Kinds : \A s : Queued(k, s)' => Queued(k, s)
<1> USE DEF Queued, Carries
<1> DEFINE subs == IF to = Raw THEN <<>> ELSE Taken(kind, to, text)
           given == [to |-> to, kind |-> kind, subs |-> subs, session |-> session.n,
                    length |-> 1 + text + Length(subs), fate |-> Fate(1 + text + Length(subs))]
           S == DOMAIN subcodes \ {subs[i] : i \in DOMAIN subs}
           T == 1..Len(subcodes)
           q == queue[kind]
           r == Those(q, S)
<1>1. SubcodesTyped /\ Rising(q) /\ \A k \in Kinds : Rising(queue[k])
  BY DEF SubcodesKept, QueuesRise
<1>2. Takes(subs, kind, to) /\ Fits(subs, text)
  <2>1. CASE to = Raw
    <3>1. subs = <<>>
      BY <2>1
    <3> QED
      BY <3>1, TakesNone
  <2>2. CASE to # Raw
    <3>1. subs = Taken(kind, to, text)
      BY <2>2
    <3> QED
      BY <3>1, <1>1, TakenIs
  <2> QED
    BY <2>1, <2>2
<1>3. subs # <<>> => to \in People
  OBVIOUS
<1>4. /\ queue' = [queue EXCEPT ![kind] = r]
      /\ lines' = IF subs = <<>> THEN lines ELSE Append(lines, given)
  <2>1. DOMAIN queue = Kinds
    BY <1>1 DEF SubcodesTyped
  <2>2. /\ queue' = [queue EXCEPT ![kind] = Those(@, DOMAIN subcodes \ {subs[i] : i \in DOMAIN subs})]
        /\ lines' = IF subs = <<>> THEN lines ELSE Append(lines, given)
    BY DEF ImSendMessage
  <2> HIDE DEF subs, given
  <2> QED
    BY <2>1, <2>2
<1> HIDE DEF subs
<1>5. q \in Seq(T) /\ T \subseteq Nat /\ DOMAIN subcodes = T /\ queue \in [Kinds -> Seq(T)]
  BY <1>1 DEF SubcodesTyped
<1>6. r \in Seq(T) /\ Rising(r) /\ Remains(r, q, S)
  <2> HIDE DEF q, S, T
  <2> QED
    BY <1>1, <1>5, ThoseRise
<1>7. \A s : Holds(r, s) <=> Holds(q, s) /\ ~Holds(subs, s)
  <2>1. ASSUME NEW s, Holds(q, s) PROVE s \in S <=> ~Holds(subs, s)
    <3>1. s \in T
      <4>1. \A m \in DOMAIN q : q[m] \in T
        BY <1>5
      <4> HIDE DEF q, T
      <4> QED
        BY <4>1, <2>1 DEF Holds
    <3> HIDE DEF T, q
    <3> QED
      BY <3>1, <1>5 DEF Holds
  <2> HIDE DEF S, q, r
  <2> QED
    BY <1>6, <2>1, Zenon DEF Remains
<1> HIDE DEF S, r, T
<1>8. queue' \in [Kinds -> Seq(T)] /\ queue'[kind] = r /\ \A k \in Kinds : k # kind => queue'[k] = queue[k]
  <2> DEFINE Q == Seq(T)
  <2>1. queue \in [Kinds -> Q] /\ r \in Q
    BY <1>5, <1>6
  <2> HIDE DEF Q, q
  <2>2. queue' \in [Kinds -> Q] /\ queue'[kind] = r /\ \A k \in Kinds : k # kind => queue'[k] = queue[k]
    BY <2>1, <1>4
  <2> QED
    BY <2>2 DEF Q
<1>9. ASSUME NEW k \in Kinds, NEW s
      PROVE  Holds(queue'[k], s) <=> Queued(k, s) /\ ~(k = kind /\ Holds(subs, s))
  <2>1. CASE k = kind
    BY <2>1, <1>7, <1>8, Zenon
  <2>2. CASE k # kind
    BY <2>2, <1>8, Zenon
  <2> QED
    BY <2>1, <2>2
<1> DEFINE n == Len(lines)
<1>10. n \in Nat /\ DOMAIN lines = 1..n /\ lines \in Seq(SentLine)
  BY <1>1 DEF SubcodesTyped
<1>11. subs # <<>> => given \in SentLine /\ given.length <= Limit /\ Limit \in Nat
  <2> SUFFICES ASSUME subs # <<>> PROVE given \in SentLine /\ given.length <= Limit /\ Limit \in Nat
    OBVIOUS
  <2> DEFINE l == 1 + text + Length(subs)
  <2>1. l \in Nat /\ l <= Limit /\ to \in People /\ subs \in Seq(Nat) /\ session.n \in Nat
    BY <1>1, <1>2, <1>3 DEF Takes, Fits, SubcodesTyped
  <2> HIDE DEF l
  <2>2. Fate(l) \in {"sent", "void", "too long"} /\ Limit \in Nat
    BY SubcodesAssumption DEF Fate
  <2>3. given = [to |-> to, kind |-> kind, subs |-> subs, session |-> session.n,
                length |-> l, fate |-> Fate(l)]
    BY DEF l
  <2> HIDE DEF given
  <2> QED
    BY <2>1, <2>2, <2>3 DEF SentLine
<1>12. /\ given.to = to /\ given.kind = kind /\ given.subs = subs /\ given.session = session.n
       /\ given.fate = Fate(given.length)
  OBVIOUS
<1> HIDE DEF given
(* Line j is new or was there. *)
<1>13. /\ lines' \in Seq(SentLine)
       /\ \A i \in DOMAIN lines : i \in DOMAIN lines' /\ lines'[i] = lines[i]
       /\ \A j \in DOMAIN lines' : j \in DOMAIN lines \/
             (j = n + 1 /\ lines'[j] = given /\ subs # <<>>)
       /\ subs # <<>> => n + 1 \in DOMAIN lines' /\ lines'[n + 1] = given
  <2>1. CASE subs = <<>>
    BY <2>1, <1>4, <1>10
  <2>2. CASE subs # <<>>
    <3>1. given \in SentLine /\ lines' = Append(lines, given)
      BY <2>2, <1>4, <1>11
    <3>2. /\ lines' \in Seq(SentLine) /\ DOMAIN lines' = 1..(n + 1) /\ lines'[n + 1] = given
          /\ \A i \in 1..n : lines'[i] = lines[i]
      BY <3>1, <1>10
    <3> HIDE DEF n
    <3> QED
      BY <3>2, <2>2, <1>10
  <2> QED
    BY <2>1, <2>2
<1> HIDE DEF n, q
<1>14. SubcodesTyped'
  BY <1>1, <1>8, <1>13 DEF SubcodesTyped, T
<1>15. QueuesRise'
  <2>1. ASSUME NEW k \in Kinds PROVE Rising(queue'[k])
    <3>1. CASE k = kind
      BY <3>1, <1>6, <1>8
    <3>2. CASE k # kind
      BY <3>2, <1>1, <1>8
    <3> QED
      BY <3>1, <3>2
  <2> QED
    BY <2>1 DEF QueuesRise
<1>16. \A s : Holds(subs, s) => Queued(kind, s) /\ subcodes[s].to = to /\ s \in DOMAIN subcodes
  BY <1>1, <1>2, WaitIsQueued DEF Takes
<1>17. LinesRise'
  <2> SUFFICES ASSUME NEW j \in DOMAIN lines'
               PROVE  Rising(lines'[j].subs) /\ \A s : Holds(lines'[j].subs, s) => s \in DOMAIN subcodes
    BY Zenon DEF LinesRise
  <2>1. CASE j \in DOMAIN lines
    BY <2>1, <1>13 DEF SubcodesKept, LinesRise
  <2>2. CASE j \notin DOMAIN lines
    <3>1. lines'[j] = given
      BY <2>2, <1>13
    <3> QED
      BY <3>1, <1>2, <1>12, <1>16 DEF Takes
  <2> QED
    BY <2>1, <2>2
<1>18. LinesOrder'
  <2> SUFFICES ASSUME NEW i \in DOMAIN lines', NEW j \in DOMAIN lines', i < j,
                      lines'[i].to = lines'[j].to, lines'[i].kind = lines'[j].kind,
                      NEW s, NEW t, Holds(lines'[i].subs, s), Holds(lines'[j].subs, t)
               PROVE  s < t
    BY Zenon DEF LinesOrder
  <2>1. i \in DOMAIN lines
    <3> SUFFICES ASSUME i \notin DOMAIN lines PROVE FALSE
      OBVIOUS
    <3>1. i = n + 1 /\ (j = n + 1 \/ j \in 1..n) /\ n \in Nat
      BY <1>10, <1>13
    <3> QED
      BY <3>1
  <2>2. lines'[i] = lines[i]
    BY <2>1, <1>13
  <2>3. CASE j \in DOMAIN lines
    <3>1. lines'[j] = lines[j]
      BY <2>3, <1>13
    <3> QED
      BY <3>1, <2>1, <2>2, <2>3 DEF SubcodesKept, LinesOrder
  <2>4. CASE j \notin DOMAIN lines
    <3>1. lines'[j] = given
      BY <2>4, <1>13
    <3>2. Queued(lines[i].kind, t) /\ subcodes[t].to = lines[i].to /\ Carries(i, s)
      BY <3>1, <2>2, <1>12, <1>16
    <3> QED
      BY <3>2, <2>1 DEF SubcodesKept, LinesBefore
  <2> QED
    BY <2>3, <2>4
<1>19. LinesBefore'
  <2> SUFFICES ASSUME NEW j \in DOMAIN lines', NEW s, NEW t, Holds(lines'[j].subs, s),
                      Holds(queue'[lines'[j].kind], t), subcodes[t].to = lines'[j].to
               PROVE  s < t
    BY Zenon DEF LinesBefore
  <2>0. lines'[j].kind \in Kinds
    <3>1. lines'[j] \in SentLine
      BY <1>13
    <3> QED
      BY <3>1 DEF SentLine
  <2>3. Queued(lines'[j].kind, t) /\ ~(lines'[j].kind = kind /\ Holds(subs, t))
    BY <2>0, <1>9
  <2>1. CASE j \in DOMAIN lines
    <3>1. lines'[j] = lines[j]
      BY <2>1, <1>13
    <3> QED
      BY <3>1, <2>1, <2>3 DEF SubcodesKept, LinesBefore
  <2>2. CASE j \notin DOMAIN lines
    <3>1. lines'[j] = given
      BY <2>2, <1>13
    <3>2. Holds(subs, s) /\ Queued(kind, t) /\ subcodes[t].to = to /\ ~Holds(subs, t)
      BY <3>1, <2>3, <1>12
    <3> QED
      BY <3>2, <1>2 DEF Takes
  <2> QED
    BY <2>1, <2>2
<1>20. NoneMissing'
  <2> SUFFICES ASSUME session.phase # "off", NEW s \in DOMAIN subcodes,
                      subcodes[s].session = session.n, ~Holds(queue'[subcodes[s].kind], s)
               PROVE  \E i \in DOMAIN lines' : /\ lines'[i].to = subcodes[s].to
                                               /\ lines'[i].kind = subcodes[s].kind
                                               /\ Holds(lines'[i].subs, s)
    BY Zenon DEF NoneMissing
  <2>1. subcodes[s].kind \in Kinds
    <3>1. subcodes[s] \in Subcode
      BY <1>1 DEF SubcodesTyped
    <3> QED
      BY <3>1 DEF Subcode
  <2>2. CASE ~Queued(subcodes[s].kind, s)
    <3>1. PICK i \in DOMAIN lines : /\ lines[i].to = subcodes[s].to /\ lines[i].kind = subcodes[s].kind
                                    /\ Carries(i, s)
      BY <2>2 DEF SubcodesKept, NoneMissing
    <3> QED
      BY <3>1, <1>13
  <2>3. CASE Queued(subcodes[s].kind, s)
    <3>1. subcodes[s].kind = kind /\ Holds(subs, s)
      BY <2>1, <2>3, <1>9
    <3>2. subs # <<>>
      BY <3>1 DEF Holds
    <3>3. n + 1 \in DOMAIN lines' /\ lines'[n + 1] = given /\ subcodes[s].to = to
      BY <3>1, <3>2, <1>13, <1>16
    <3> QED
      BY <3>1, <3>3, <1>12
  <2> QED
    BY <2>2, <2>3
<1>21. NoneLater'
  BY DEF SubcodesKept, NoneLater
<1>22. OnlyTooLong'
  <2> SUFFICES ASSUME NEW j \in DOMAIN lines', lines'[j].fate = "too long"
               PROVE  lines'[j].length = Limit
    BY Zenon DEF OnlyTooLong
  <2>1. CASE j \in DOMAIN lines
    BY <2>1, <1>13 DEF SubcodesKept, OnlyTooLong
  <2>2. CASE j \notin DOMAIN lines
    <3>1. lines'[j] = given /\ subs # <<>>
      BY <2>2, <1>13
    <3>3. Fate(given.length) = "too long" /\ given.length <= Limit
      BY <3>1, <1>11, <1>12
    <3>4. \A x \in SentLine : x.length \in Nat
      BY DEF SentLine
    <3>5. given.length \in Nat
      BY <3>1, <3>4, <1>11, Zenon
    <3>2. given.length = Limit
      BY <3>3, <3>5, TooLongIs
    <3> QED
      BY <3>1, <3>2
  <2> QED
    BY <2>1, <2>2
<1>23. NoStaleSubcode'
  <2> SUFFICES ASSUME NEW j \in DOMAIN lines', lines'[j].fate = "sent",
                      NEW m \in DOMAIN lines'[j].subs
               PROVE  subcodes[lines'[j].subs[m]].session = lines'[j].session
    BY Zenon DEF NoStaleSubcode
  <2>1. CASE j \in DOMAIN lines
    BY <2>1, <1>13 DEF SubcodesKept, NoStaleSubcode
  <2>2. CASE j \notin DOMAIN lines
    <3>1. lines'[j] = given /\ subs # <<>>
      BY <2>2, <1>13
    <3>2. session.phase # "synack"
      BY <3>1, <1>12 DEF Fate
    <3>3. Queued(kind, subs[m])
      BY <3>1, <1>12, <1>16 DEF Holds
    <3>4. subcodes[subs[m]].session = session.n
      BY <3>2, <3>3 DEF AllFresh
    <3> QED
      BY <3>1, <3>4, <1>12
  <2> QED
    BY <2>1, <2>2
<1>24. \A k \in Kinds : \A s : Queued(k, s)' => Queued(k, s)
  BY <1>9, Zenon
<1> QED
  BY <1>14, <1>15, <1>17, <1>18, <1>19, <1>20, <1>21, <1>22, <1>23, <1>24, Zenon DEF SubcodesKept

LEMMA NothingWaits ==
  ASSUME queue = [k \in Kinds |-> <<>>]
  PROVE  /\ \A T : queue \in [Kinds -> Seq(T)]
         /\ QueuesRise /\ \A k \in Kinds : \A s : ~Queued(k, s)
<1>1. \A k \in Kinds : queue[k] = <<>>
  OBVIOUS
<1>2. ASSUME NEW T PROVE queue \in [Kinds -> Seq(T)]
  <2> DEFINE z == <<>>
             Q == Seq(T)
  <2>1. z \in Q /\ queue = [k \in Kinds |-> z]
    OBVIOUS
  <2> HIDE DEF z, Q
  <2>2. queue \in [Kinds -> Q]
    BY <2>1
  <2> QED
    BY <2>2 DEF Q
<1> QED
  BY <1>1, <1>2 DEF QueuesRise, Rising, Queued, Holds

LEMMA SubcodesBegin == SubcodesInit => SubcodesInv
<1> SUFFICES ASSUME SubcodesInit PROVE SubcodesInv
  OBVIOUS
<1>1. /\ subcodes = <<>> /\ lines = <<>> /\ session = [n |-> 0, phase |-> "off"] /\ pc = "run"
      /\ queue = [k \in Kinds |-> <<>>]
  BY DEF SubcodesInit
<1>2. SubcodesTyped
  <2>1. queue \in [Kinds -> Seq(1..Len(subcodes))]
    BY <1>1, NothingWaits
  <2> QED
    BY <1>1, <2>1 DEF SubcodesTyped
<1>3. QueuesRise
  BY <1>1, NothingWaits
<1>4. LinesRise /\ LinesOrder /\ LinesBefore /\ OnlyTooLong /\ NoStaleSubcode
  BY <1>1 DEF LinesRise, LinesOrder, LinesBefore, OnlyTooLong, NoStaleSubcode
<1>5. NoneMissing /\ NoneLater /\ DrainGoesOn
  BY <1>1 DEF NoneMissing, NoneLater, DrainGoesOn
<1> QED
  BY <1>1, <1>2, <1>3, <1>4, <1>5 DEF SubcodesInv, SubcodesKept

(* Subcodes and lines stay: then so does what is said of them alone. *)
LEMMA LinesStay ==
  ASSUME SubcodesKept, UNCHANGED <<subcodes, lines>>
  PROVE  /\ LinesRise' /\ LinesOrder' /\ OnlyTooLong' /\ NoStaleSubcode'
         /\ subcodes' \in Seq(Subcode) /\ lines' \in Seq(SentLine)
         /\ DrainGoesOn /\ pc' # "aborted" => DrainGoesOn'
BY DEF SubcodesKept, LinesRise, LinesOrder, OnlyTooLong, NoStaleSubcode, SubcodesTyped,
       Carries, DrainGoesOn

LEMMA SubcodesRest == SubcodesInv /\ UNCHANGED subcodeVars => SubcodesInv'
<1> SUFFICES ASSUME SubcodesInv, UNCHANGED subcodeVars PROVE SubcodesInv'
  OBVIOUS
<1>1. UNCHANGED <<subcodes, queue, lines, session, pc>>
  BY DEF subcodeVars
<1>2. SubcodesTyped' /\ QueuesRise' /\ LinesBefore' /\ NoneMissing' /\ NoneLater'
  BY <1>1, Zenon DEF SubcodesInv, SubcodesKept, SubcodesTyped, QueuesRise, LinesBefore, NoneMissing,
       NoneLater, Queued, Carries
<1>3. LinesRise' /\ LinesOrder' /\ OnlyTooLong' /\ NoStaleSubcode'
  BY <1>1, Zenon DEF SubcodesInv, SubcodesKept, LinesRise, LinesOrder, OnlyTooLong,
       NoStaleSubcode, Carries
<1>4. AllFresh' = AllFresh /\ Empty' = Empty /\ DrainGoesOn' = DrainGoesOn
  BY <1>1, Zenon DEF AllFresh, Queued, Empty, DrainGoesOn
<1> QED
  BY <1>1, <1>2, <1>3, <1>4 DEF SubcodesInv, SubcodesKept

LEMMA EnqueueKeeps ==
  ASSUME NEW to \in People \cup {Raw}, NEW kind \in Kinds, NEW length \in 1..Limit,
         SubcodesInv, Enqueue(to, kind, length), pc # "drain", UNCHANGED <<lines, session, pc>>
  PROVE  SubcodesInv'
<1> DEFINE n == Len(subcodes)
           x == [to |-> to, kind |-> kind, length |-> length, session |-> session.n]
           m == n + 1
<1>0. SubcodesKept /\ SubcodesTyped
  BY DEF SubcodesInv, SubcodesKept
<1>1. x \in Subcode /\ subcodes \in Seq(Subcode) /\ n \in Nat /\ session.n \in Nat
  BY <1>0 DEF SubcodesTyped, Subcode
<1>2. subcodes' = Append(subcodes, x)
  BY DEF Enqueue
<1>x. x.kind = kind /\ x.session = session.n
  OBVIOUS
<1> HIDE DEF x
<1>3. /\ subcodes' \in Seq(Subcode) /\ Len(subcodes') = m
      /\ DOMAIN subcodes = 1..n /\ DOMAIN subcodes' = 1..m /\ subcodes'[m] = x
      /\ \A i \in 1..n : subcodes'[i] = subcodes[i] /\ i \in 1..m
  BY <1>1, <1>2
<1>4. \A q \in Seq(1..n) : q \in Seq(1..m) /\ Append(q, m) \in Seq(1..m)
  <2>1. 1..n \subseteq 1..m /\ m \in 1..m
    BY <1>1
  <2> DEFINE A == 1..n
             B == 1..m
  <2>2. A \subseteq B /\ m \in B
    BY <2>1
  <2> HIDE DEF A, B, m
  <2>3. ASSUME NEW q \in Seq(A) PROVE q \in Seq(B) /\ Append(q, m) \in Seq(B)
    <3>1. q \in [1..Len(q) -> A] /\ Len(q) \in Nat
      OBVIOUS
    <3>2. q \in [1..Len(q) -> B]
      BY <2>2, <3>1
    <3>3. q \in Seq(B)
      BY <3>1, <3>2
    <3> QED
      BY <2>2, <3>3
  <2> QED
    BY <2>3 DEF A, B
<1> DEFINE q == queue[kind]
           r == Append(q, m)
           Q == Seq(1..m)
<1>5. queue' = [queue EXCEPT ![kind] = r]
  <2>1. DOMAIN queue = Kinds
    BY <1>0 DEF SubcodesTyped
  <2>2. queue' = [queue EXCEPT ![kind] = Append(@, Len(subcodes'))]
    BY DEF Enqueue
  <2> QED
    BY <1>3, <2>1, <2>2
<1>6. q \in Seq(1..n) /\ queue \in [Kinds -> Seq(1..n)]
  BY <1>0 DEF SubcodesTyped
<1>7. r \in Q /\ queue \in [Kinds -> Q] /\ \A s : Holds(q, s) => s \in 1..n
  <2>1. \A k \in Kinds : queue[k] \in Q
    BY <1>4, <1>6
  <2>2. queue \in [Kinds -> Q]
    <3> HIDE DEF Q
    <3> QED
      BY <2>1, <1>6
  <2>3. \A j \in DOMAIN q : q[j] \in 1..n
    BY <1>6
  <2>4. r \in Q
    BY <1>4, <1>6
  <2> HIDE DEF q, r, Q
  <2> QED
    BY <2>2, <2>3, <2>4 DEF Holds
<1>8. Rising(r) /\ \A s : Holds(r, s) <=> Holds(q, s) \/ s = m
  <2>1. Rising(q)
    BY <1>0 DEF SubcodesKept, QueuesRise
  <2>2. \A s : Holds(q, s) => s < m
    BY <1>1, <1>7
  <2> HIDE DEF q, m
  <2> QED
    BY <1>6, <2>1, <2>2, AppendRises, AppendHolds
<1> HIDE DEF Q, r, m
<1>9. queue' \in [Kinds -> Q] /\ queue'[kind] = r /\ \A k \in Kinds : k # kind => queue'[k] = queue[k]
  BY <1>5, <1>7
<1>10. ASSUME NEW k \in Kinds, NEW s
       PROVE  Holds(queue'[k], s) <=> Holds(queue[k], s) \/ (k = kind /\ s = m)
  <2>1. CASE k = kind
    BY <2>1, <1>8, <1>9, Zenon DEF q
  <2>2. CASE k # kind
    BY <2>2, <1>9, Zenon
  <2> QED
    BY <2>1, <2>2
<1> HIDE DEF q, n
<1>11. SubcodesTyped'
  BY <1>0, <1>3, <1>9 DEF SubcodesTyped, Q
<1>12. QueuesRise'
  <2>1. ASSUME NEW k \in Kinds PROVE Rising(queue'[k])
    <3>1. CASE k = kind
      BY <3>1, <1>8, <1>9
    <3>2. CASE k # kind
      BY <3>2, <1>0, <1>9 DEF SubcodesKept, QueuesRise
    <3> QED
      BY <3>1, <3>2
  <2> QED
    BY <2>1 DEF QueuesRise
<1>13. LinesRise' /\ LinesOrder' /\ OnlyTooLong'
  <2>1. LinesRise /\ LinesOrder /\ OnlyTooLong /\ UNCHANGED lines
    BY <1>0 DEF SubcodesKept
  <2>2. DOMAIN subcodes \subseteq DOMAIN subcodes'
    BY <1>3
  <2>3. LinesRise'
    BY <2>1, <2>2 DEF LinesRise, Carries
  <2> QED
    BY <2>1, <2>3 DEF LinesOrder, OnlyTooLong, Carries
<1>14. \A i \in DOMAIN lines : \A s : Carries(i, s) => s \in 1..n /\ s < m
  <2>1. \A i \in DOMAIN lines : \A s : Carries(i, s) => s \in 1..n
    BY <1>0, <1>3 DEF SubcodesKept, LinesRise
  <2> QED
    BY <1>1, <2>1 DEF m, n
<1>15. LinesBefore'
  <2> SUFFICES ASSUME NEW i \in DOMAIN lines, NEW s, NEW t, Carries(i, s),
                      Holds(queue'[lines[i].kind], t), subcodes'[t].to = lines[i].to
               PROVE  s < t
    BY Zenon DEF LinesBefore, Carries, Queued
  <2>1. lines[i].kind \in Kinds
    <3>1. lines[i] \in SentLine
      BY <1>0 DEF SubcodesTyped
    <3> QED
      BY <3>1 DEF SentLine
  <2>2. CASE t = m
    BY <2>2, <1>14
  <2>3. CASE t # m
    <3>1. Queued(lines[i].kind, t)
      BY <2>1, <2>3, <1>10 DEF Queued
    <3>2. subcodes'[t] = subcodes[t]
      BY <3>1, <2>1, <1>0, <1>3, WaitIsQueued
    <3> QED
      BY <3>1, <3>2, <1>0 DEF SubcodesKept, LinesBefore
  <2> QED
    BY <2>2, <2>3
<1>16. NoneMissing'
  <2> SUFFICES ASSUME session.phase # "off", NEW s \in 1..m, subcodes'[s].session = session.n,
                      ~Holds(queue'[subcodes'[s].kind], s)
               PROVE  \E i \in DOMAIN lines : /\ lines[i].to = subcodes'[s].to
                                              /\ lines[i].kind = subcodes'[s].kind /\ Carries(i, s)
    BY <1>3, Zenon DEF NoneMissing, Carries, Queued
  <2>1. s # m
    BY <1>3, <1>10, <1>x
  <2>2. s \in 1..n /\ subcodes'[s] = subcodes[s]
    BY <2>1, <1>1, <1>3 DEF m
  <2>3. subcodes[s].kind \in Kinds
    <3>1. subcodes[s] \in Subcode
      BY <2>2, <1>1, <1>3
    <3> QED
      BY <3>1 DEF Subcode
  <2>4. ~Queued(subcodes[s].kind, s)
    BY <2>2, <2>3, <1>10 DEF Queued
  <2> QED
    BY <2>2, <2>4, <1>0, <1>3 DEF SubcodesKept, NoneMissing
<1>17. NoneLater'
  <2> SUFFICES ASSUME NEW s \in 1..m PROVE subcodes'[s].session <= session.n
    BY <1>3, Zenon DEF NoneLater
  <2>1. CASE s = m
    BY <2>1, <1>1, <1>3, <1>x
  <2>2. CASE s # m
    <3>1. s \in 1..n /\ subcodes'[s] = subcodes[s]
      BY <2>2, <1>1, <1>3 DEF m
    <3> QED
      BY <3>1, <1>0, <1>3 DEF SubcodesKept, NoneLater
  <2> QED
    BY <2>1, <2>2
<1>18. NoStaleSubcode'
  <2> SUFFICES ASSUME NEW i \in DOMAIN lines, lines[i].fate = "sent", NEW j \in DOMAIN lines[i].subs
               PROVE  subcodes'[lines[i].subs[j]].session = lines[i].session
    BY Zenon DEF NoStaleSubcode
  <2>1. lines[i].subs[j] \in 1..n
    BY <1>14 DEF Carries, Holds
  <2> QED
    BY <2>1, <1>0, <1>3 DEF SubcodesKept, NoStaleSubcode
<1>19. DrainGoesOn'
  <2> SUFFICES ASSUME pc = "aborted"
               PROVE  \E s \in DOMAIN subcodes' : subcodes'[s].to = Raw \/ subcodes'[s].length = Limit
    BY DEF DrainGoesOn
  <2>1. PICK s \in DOMAIN subcodes : subcodes[s].to = Raw \/ subcodes[s].length = Limit
    BY DEF SubcodesInv, DrainGoesOn
  <2>2. s \in DOMAIN subcodes' /\ subcodes'[s] = subcodes[s]
    BY <1>3
  <2> QED
    BY <2>1, <2>2
<1>20. ASSUME AllFresh PROVE AllFresh'
  <2> SUFFICES ASSUME NEW k \in Kinds, NEW s, Holds(queue'[k], s)
               PROVE  subcodes'[s].session = session.n
    BY Zenon DEF AllFresh, Queued
  <2>1. CASE s = m
    BY <2>1, <1>3, <1>x
  <2>2. CASE s # m
    <3>1. Queued(k, s)
      BY <2>2, <1>10 DEF Queued
    <3>2. subcodes'[s] = subcodes[s]
      BY <3>1, <1>0, <1>3, WaitIsQueued
    <3> QED
      BY <3>1, <3>2, <1>20 DEF AllFresh
  <2> QED
    BY <2>1, <2>2
<1>21. SubcodesKept'
  BY <1>11, <1>12, <1>13, <1>15, <1>16, <1>17, <1>18 DEF SubcodesKept
<1> QED
  BY <1>19, <1>20, <1>21 DEF SubcodesInv

LEMMA LengthOfOne ==
  ASSUME NEW i, subcodes[i].length \in Nat, NEW is, Len(is) = 1, is[1] = i
  PROVE  Length(is) = subcodes[i].length
<1> DEFINE l == subcodes[i].length
           Is(u) == u = [n \in 0..Len(is) |-> IF n = 0 THEN 0 ELSE u[n - 1] + subcodes[is[n]].length]
           f == [n \in 0..1 |-> IF n = 0 THEN 0 ELSE l]
<1>1. l \in Nat
  OBVIOUS
<1>2. Length(is) = (CHOOSE u : Is(u))[1]
  BY DEF Length
<1>3. Is(f)
  <2>1. \A n \in 0..1 : f[n] = IF n = 0 THEN 0 ELSE f[n - 1] + subcodes[is[n]].length
    <3>1. f[0] = 0 /\ f[1] = l
      OBVIOUS
    <3>2. \A n \in 0..1 : n = 0 \/ n = 1
      OBVIOUS
    <3>3. f[1] = f[0] + subcodes[is[1]].length
      BY <3>1, <1>1
    <3> QED
      BY <3>1, <3>2, <3>3
  <2>2. f = [n \in 0..1 |-> f[n]]
    OBVIOUS
  <2> HIDE DEF f
  <2>3. f = [n \in 0..1 |-> IF n = 0 THEN 0 ELSE f[n - 1] + subcodes[is[n]].length]
    BY <2>1, <2>2
  <2> QED
    BY <2>3
<1> DEFINE u == CHOOSE v : Is(v)
<1>4. Is(u)
  <2> HIDE DEF Is, f
  <2> QED
    BY <1>3
<1> HIDE DEF u
<1>5. u[0] = 0 /\ u[1] = u[0] + l
  <2>1. u = [n \in 0..1 |-> IF n = 0 THEN 0 ELSE u[n - 1] + subcodes[is[n]].length]
    BY <1>4
  <2>2. 0 \in 0..1 /\ 1 \in 0..1
    OBVIOUS
  <2> HIDE DEF Is, l, f
  <2>3. u[0] = 0
    BY <2>1, <2>2
  <2>4. u[1] = u[0] + subcodes[is[1]].length
    BY <2>1, <2>2
  <2> QED
    BY <2>3, <2>4 DEF l
<1>6. u[1] = l
  BY <1>1, <1>5
<1> QED
  BY <1>2, <1>6 DEF u

(* The line for the first of a queue takes him from it, unless he is ":RAW" or his
   subcode too long. *)
LEMMA DrainMoves ==
  ASSUME SubcodesTyped, NEW kind \in Kinds, queue[kind] # <<>>,
         NEW to, to = subcodes[Head(queue[kind])].to,
         to # Raw, subcodes[Head(queue[kind])].length # Limit,
         ImSendMessage(kind, to, 0)
  PROVE  queue' # queue
<1> DEFINE T == 1..Len(subcodes)
           q == queue[kind]
           first == Head(q)
           Its == {i \in DOMAIN subcodes : subcodes[i].to = to}
           mine == Waiting(kind, to)
           room == {n \in 0..Len(mine) : 1 + 0 + Length(SubSeq(mine, 1, n)) <= Limit}
           n == CHOOSE n \in room : \A m \in room : m <= n
           subs == SubSeq(mine, 1, n)
           S == DOMAIN subcodes \ {subs[i] : i \in DOMAIN subs}
<1>1. q \in Seq(T) /\ q # <<>> /\ first = q[1] /\ first \in T /\ DOMAIN subcodes = T
  BY DEF SubcodesTyped
<1>2. mine = Those(q, Its) /\ first \in Its
  BY <1>1 DEF Waiting
<1>3. mine \in Seq(T) /\ mine # <<>> /\ mine[1] = first
  <2> HIDE DEF q, Its, T, mine, first
  <2>1. Those(q, Its) \in Seq(T)
    BY <1>1, ThoseAre
  <2>2. q[1] \in Its
    BY <1>1, <1>2
  <2>3. Those(q, Its) # <<>> /\ Those(q, Its)[1] = q[1]
    BY <1>1, <2>2, FirstStays
  <2> QED
    BY <1>1, <1>2, <2>1, <2>3
<1>4. subcodes[first].length \in 1..Limit /\ subcodes[first].length # Limit /\ Limit \in Nat
  <2>1. \A i \in DOMAIN subcodes : subcodes[i] \in Subcode
    BY DEF SubcodesTyped
  <2>2. subcodes[first] \in Subcode /\ subcodes[first].length # Limit
    BY <1>1, <2>1
  <2> HIDE DEF first
  <2> QED
    BY <2>2, SubcodesAssumption DEF Subcode
<1> HIDE DEF mine, first
<1>5. Len(mine) \in Nat \ {0} /\ Len(SubSeq(mine, 1, 1)) = 1 /\ SubSeq(mine, 1, 1)[1] = first
  BY <1>3
<1>6. Length(SubSeq(mine, 1, 1)) = subcodes[first].length
  <2> DEFINE is == SubSeq(mine, 1, 1)
  <2>1. Len(is) = 1 /\ is[1] = first /\ subcodes[first].length \in Nat
    BY <1>4, <1>5
  <2> HIDE DEF is
  <2>2. Length(is) = subcodes[first].length
    BY <2>1, LengthOfOne
  <2> QED
    BY <2>2 DEF is
<1>7. 1 \in room /\ room \in SUBSET (0..Len(mine)) /\ room # {}
  BY <1>4, <1>5, <1>6
<1> HIDE DEF room
<1>8. \E m \in room : \A k \in room : k <= m
  <2> DEFINE l == Len(mine)
  <2>1. l \in Nat /\ room \in SUBSET (0..l) /\ room # {}
    BY <1>5, <1>7
  <2> HIDE DEF l
  <2> QED
    BY <2>1, GreatestOf
<1>9. n \in room /\ \A m \in room : m <= n
  BY <1>8
<1> HIDE DEF n
<1>10. n \in 1..Len(mine)
  BY <1>5, <1>7, <1>9
<1>11. Len(subs) = n /\ DOMAIN subs = 1..n /\ subs[1] = first
  BY <1>3, <1>10
<1>12. first \in {subs[i] : i \in DOMAIN subs}
  <2>1. 1 \in DOMAIN subs
    BY <1>10, <1>11
  <2> HIDE DEF subs
  <2> QED
    BY <1>11, <2>1
<1>13. Taken(kind, to, 0) = subs
  BY <1>7 DEF Taken, mine, room, n
<1>14. queue' = [queue EXCEPT ![kind] = Those(q, S)]
  <2> HIDE DEF subs
  <2> QED
    <3>1. to # Raw
      OBVIOUS
    <3> QED
      BY <3>1, <1>13, Zenon DEF ImSendMessage
<1> HIDE DEF S, q, subs, T
<1>15. Those(q, S) # q
  <2> SUFFICES ASSUME Those(q, S) = q PROVE FALSE
    OBVIOUS
  <2>1. \A j \in 1..Len(Those(q, S)) : Those(q, S)[j] \in S
    BY <1>1, ThoseAre
  <2>2. 1 \in 1..Len(q)
    BY <1>1
  <2>3. first \in S
    BY <1>1, <2>1, <2>2
  <2> QED
    BY <1>12, <2>3 DEF S
<1>16. queue'[kind] = Those(q, S)
  BY <1>14 DEF SubcodesTyped
<1> QED
  BY <1>15, <1>16 DEF q

LEMMA DrainKeeps ==
  ASSUME SubcodesInv, Drain
  PROVE  SubcodesInv'
<1> DEFINE kind == DrainKind
           first == Head(queue[kind])
           to == subcodes[first].to
<1>1. /\ ImSendMessage(kind, to, 0) /\ UNCHANGED <<subcodes, session>> /\ pc = "drain"
      /\ pc' = IF queue' = queue THEN "aborted" ELSE IF Empty' THEN "read" ELSE "drain"
  BY DEF Drain
<1>0. SubcodesKept /\ SubcodesTyped /\ session.phase # "off" /\ ~Empty
  BY <1>1 DEF SubcodesInv, SubcodesKept
<1>2. kind \in Kinds /\ queue[kind] # <<>>
  BY <1>0 DEF Empty, DrainKind, Kinds
<1> HIDE DEF kind
<1>3. first \in DOMAIN subcodes
  <2> DEFINE q == queue[kind]
  <2>1. q \in Seq(1..Len(subcodes)) /\ q # <<>> /\ DOMAIN subcodes = 1..Len(subcodes)
    BY <1>0, <1>2 DEF SubcodesTyped
  <2> HIDE DEF q
  <2>2. Head(q) \in DOMAIN subcodes
    BY <2>1
  <2> QED
    BY <2>2 DEF q
<1> HIDE DEF first
<1>4. to \in People \cup {Raw}
  <2>1. subcodes[first] \in Subcode
    BY <1>0, <1>3 DEF SubcodesTyped
  <2> QED
    BY <2>1 DEF Subcode
<1>5. session.phase = "synack" \/ AllFresh
  BY <1>0, <1>1 DEF SubcodesInv
<1>6. SubcodesKept' /\ \A k \in Kinds : \A s : Queued(k, s)' => Queued(k, s)
  <2> DEFINE t == to
  <2>1. t \in People \cup {Raw} /\ ImSendMessage(kind, t, 0) /\ 0 \in Nat
    BY <1>1, <1>4
  <2>2. UNCHANGED <<subcodes, session>>
    BY <1>1
  <2> HIDE DEF t
  <2> QED
    BY <2>1, <2>2, <1>0, <1>2, <1>5, MessageKeeps
<1>7. ASSUME pc' = "aborted" PROVE to = Raw \/ subcodes[first].length = Limit
  <2>1. queue' = queue
    BY <1>1, <1>7
  <2> SUFFICES ASSUME to # Raw, subcodes[first].length # Limit PROVE FALSE
    OBVIOUS
  <2> DEFINE t == to
  <2>2. t = subcodes[Head(queue[kind])].to /\ t # Raw /\ ImSendMessage(kind, t, 0)
        /\ subcodes[Head(queue[kind])].length # Limit
    BY <1>1 DEF first
  <2> HIDE DEF t
  <2>3. queue' # queue
    BY <1>0, <1>2, <2>2, DrainMoves
  <2> QED
    BY <2>1, <2>3
<1>8. DrainGoesOn'
  BY <1>1, <1>3, <1>7 DEF DrainGoesOn
<1>9. AllFresh => AllFresh'
  BY <1>1, <1>6 DEF AllFresh
<1>10. Empty' => AllFresh'
  BY DEF AllFresh, Empty, Queued, Holds
<1>11. session.phase = "off" \/ (session.phase = "synack" /\ pc' # "read") \/ AllFresh'
  BY <1>1, <1>5, <1>9, <1>10
<1>12. pc' = "drain" => ~Empty'
  BY <1>1
<1> QED
  BY <1>0, <1>1, <1>6, <1>8, <1>11, <1>12 DEF SubcodesInv

LEMMA SubcodesSteps == SubcodesInv /\ SubcodesNext => SubcodesInv'
<1> SUFFICES ASSUME SubcodesInv, SubcodesNext PROVE SubcodesInv'
  OBVIOUS
<1> USE DEF Running, Reading
<1>0. SubcodesKept /\ SubcodesTyped /\ session.n \in Nat
      /\ session.phase \in {"off", "synack", "signon", "active"}
  BY DEF SubcodesInv, SubcodesKept, SubcodesTyped
<1>1. ASSUME UNCHANGED <<subcodes, queue, lines, session>>
      PROVE  SubcodesKept' /\ AllFresh' = AllFresh /\ Empty' = Empty
             /\ (DrainGoesOn /\ pc' # "aborted" => DrainGoesOn')
  <2>1. SubcodesTyped' /\ QueuesRise' /\ LinesBefore' /\ NoneMissing' /\ NoneLater'
    BY <1>0, <1>1, Zenon DEF SubcodesKept, SubcodesTyped, QueuesRise, LinesBefore, NoneMissing,
         NoneLater, Queued, Carries
  <2>2. AllFresh' = AllFresh /\ Empty' = Empty
    BY <1>1, Zenon DEF AllFresh, Queued, Empty
  <2> QED
    BY <1>0, <1>1, <2>1, <2>2, LinesStay DEF SubcodesKept
<1>2. ASSUME UNCHANGED <<subcodes, queue, lines, pc>>, session'.n = session.n,
             session'.phase = "off" \/ session.phase # "off",
             session' \in [n : Nat, phase : {"off", "synack", "signon", "active"}]
      PROVE  SubcodesKept' /\ AllFresh' = AllFresh /\ (DrainGoesOn => DrainGoesOn')
  <2>1. SubcodesTyped'
    BY <1>0, <1>2 DEF SubcodesTyped
  <2>2. QueuesRise' /\ LinesBefore'
    BY <1>0, <1>2, Zenon DEF SubcodesKept, QueuesRise, LinesBefore, Queued, Carries
  <2>3. NoneLater' /\ AllFresh' = AllFresh
    BY <1>0, <1>2, Zenon DEF SubcodesKept, NoneLater, AllFresh, Queued
  <2>4. NoneMissing'
    BY <1>0, <1>2, Zenon DEF SubcodesKept, NoneMissing, Queued, Carries
  <2> QED
    BY <1>0, <1>2, <2>1, <2>2, <2>3, <2>4, LinesStay DEF SubcodesKept, DrainGoesOn
<1>3. ASSUME UNCHANGED <<subcodes, lines, pc>>, session' = Dialled,
             queue' \in [Kinds -> Seq(1..Len(subcodes))],
             \A k \in Kinds : queue'[k] = queue[k] \/ queue'[k] = <<>>
      PROVE  SubcodesKept' /\ (DrainGoesOn => DrainGoesOn')
  <2>1. session'.n = session.n + 1 /\ session'.phase = "synack"
        /\ session' \in [n : Nat, phase : {"off", "synack", "signon", "active"}]
    BY <1>0, <1>3 DEF Dialled
  <2>2. SubcodesTyped'
    BY <1>0, <1>3, <2>1 DEF SubcodesTyped
  <2>3. QueuesRise' /\ \A k \in Kinds : \A s : Queued(k, s)' => Queued(k, s)
    <3>1. \A k \in Kinds : Rising(queue[k])
      BY <1>0 DEF SubcodesKept, QueuesRise
    <3>2. ASSUME NEW k \in Kinds
          PROVE  Rising(queue'[k]) /\ \A s : Holds(queue'[k], s) => Holds(queue[k], s)
      <4>1. Rising(<<>>) /\ \A s : ~Holds(<<>>, s)
        BY DEF Rising, Holds
      <4> QED
        BY <1>3, <3>1, <4>1
    <3> QED
      BY <3>2 DEF QueuesRise, Queued
  <2>4. LinesBefore'
    <3> SUFFICES ASSUME NEW i \in DOMAIN lines, NEW s, NEW t, Carries(i, s),
                        Holds(queue'[lines[i].kind], t), subcodes[t].to = lines[i].to
                 PROVE  s < t
      BY <1>3, Zenon DEF LinesBefore, Carries, Queued
    <3>1. lines[i].kind \in Kinds
      <4>1. lines[i] \in SentLine
        BY <1>0 DEF SubcodesTyped
      <4> QED
        BY <4>1 DEF SentLine
    <3> QED
      BY <3>1, <1>0, <2>3 DEF SubcodesKept, LinesBefore, Queued
  <2>5. \A s \in DOMAIN subcodes : subcodes[s].session \in Nat /\ subcodes[s].session <= session.n
    <3>1. \A s \in DOMAIN subcodes : subcodes[s] \in Subcode
      BY <1>0 DEF SubcodesTyped
    <3> QED
      BY <1>0, <3>1 DEF SubcodesKept, NoneLater, Subcode
  <2>6. NoneLater' /\ NoneMissing'
    BY <1>0, <1>3, <2>1, <2>5 DEF NoneLater, NoneMissing
  <2> QED
    BY <1>0, <1>3, <2>2, <2>3, <2>4, <2>6, LinesStay DEF SubcodesKept, DrainGoesOn
<1>4. /\ Off.n = session.n /\ Off.phase = "off"
      /\ Off \in [n : Nat, phase : {"off", "synack", "signon", "active"}]
  BY <1>0 DEF Off, SubcodesTyped
<1>5. ASSUME Dial PROVE SubcodesInv'
  <2>1. /\ UNCHANGED <<subcodes, queue, lines, pc>> /\ session' = Dialled /\ pc = "run"
    BY <1>5 DEF Dial
  <2>2. session'.phase = "synack"
    BY <2>1 DEF Dialled
  <2>3. queue' \in [Kinds -> Seq(1..Len(subcodes))]
    BY <2>1, <1>0 DEF SubcodesTyped
  <2>4. SubcodesKept' /\ (DrainGoesOn => DrainGoesOn')
    BY <2>1, <2>3, <1>3
  <2> QED
    BY <2>1, <2>2, <2>4 DEF SubcodesInv
<1>6. ASSUME Advance PROVE SubcodesInv'
  <2>1. /\ UNCHANGED <<subcodes, queue, lines, pc>> /\ pc = "read" /\ session.phase # "off"
        /\ session'.n = session.n
        /\ session' \in [n : Nat, phase : {"off", "synack", "signon", "active"}]
    BY <1>0, <1>6 DEF Advance, SubcodesTyped
  <2>2. SubcodesKept' /\ AllFresh' = AllFresh /\ (DrainGoesOn => DrainGoesOn')
    BY <2>1, <1>2
  <2> QED
    BY <2>1, <2>2 DEF SubcodesInv
<1>7. ASSUME ConnectFailed PROVE SubcodesInv'
  <2>1. /\ UNCHANGED <<subcodes, queue, lines, pc>> /\ pc = "read" /\ session' = Off
    BY <1>7 DEF ConnectFailed
  <2>2. SubcodesKept' /\ (DrainGoesOn => DrainGoesOn')
    BY <2>1, <1>2, <1>4
  <2> QED
    BY <2>1, <2>2, <1>4 DEF SubcodesInv
<1>8. ASSUME Tick \/ BeginSelect \/ EndSelect PROVE SubcodesInv'
  <2>1. /\ UNCHANGED <<subcodes, queue, lines, session>> /\ pc' # "aborted"
        /\ pc' = "drain" => ~Empty /\ session.phase # "off"
        /\ pc' = "read" => pc = "run" /\ (session.phase = "off" \/ Empty)
    BY <1>8 DEF Tick, BeginSelect, EndSelect
  <2>2. SubcodesKept' /\ AllFresh' = AllFresh /\ Empty' = Empty /\ (DrainGoesOn /\ pc' # "aborted" => DrainGoesOn')
    BY <2>1, <1>1, Zenon
  <2>3. Empty => AllFresh
    BY DEF AllFresh, Empty, Queued, Holds
  <2>4. session.phase = "off" \/ (session.phase = "synack" /\ pc' # "read") \/ AllFresh
    BY <2>1, <2>3 DEF SubcodesInv
  <2> QED
    BY <2>1, <2>2, <2>4 DEF SubcodesInv
<1>9. ASSUME Disconnected PROVE SubcodesInv'
  <2>1. /\ UNCHANGED <<subcodes, lines, pc>> /\ queue' = [k \in Kinds |-> <<>>] /\ pc # "drain"
        /\ session' = Off \/ session' = Dialled
    BY <1>9 DEF Disconnected
  <2>2. queue' \in [Kinds -> Seq(1..Len(subcodes))] /\ \A k \in Kinds : queue'[k] = <<>>
    <3> DEFINE z == <<>>
               Q == Seq(1..Len(subcodes))
    <3>1. z \in Q /\ queue' = [k \in Kinds |-> z]
      BY <2>1
    <3> HIDE DEF z, Q
    <3>2. queue' \in [Kinds -> Q] /\ \A k \in Kinds : queue'[k] = z
      BY <3>1
    <3> QED
      BY <3>2 DEF Q, z
  <2>3. AllFresh'
    BY <2>2 DEF AllFresh, Queued, Holds
  <2>4. CASE session' = Dialled
    <3>1. SubcodesKept' /\ (DrainGoesOn => DrainGoesOn')
      BY <2>1, <2>2, <2>4, <1>3
    <3> QED
      BY <2>1, <2>3, <3>1 DEF SubcodesInv
  <2>5. CASE session' = Off
    <3>1. SubcodesTyped'
      BY <2>1, <2>2, <2>5, <1>0, <1>4 DEF SubcodesTyped
    <3>2. QueuesRise' /\ LinesBefore'
      <4>1. \A k \in Kinds : \A s : ~Queued(k, s)'
        BY <2>2 DEF Queued, Holds
      <4>2. QueuesRise'
        BY <2>2 DEF QueuesRise, Rising
      <4>3. \A i \in DOMAIN lines : lines[i].kind \in Kinds
        <5>1. \A i \in DOMAIN lines : lines[i] \in SentLine
          BY <1>0 DEF SubcodesTyped
        <5> QED
          BY <5>1 DEF SentLine
      <4> QED
        BY <4>1, <4>2, <4>3, <2>1 DEF LinesBefore
    <3>3. NoneLater' /\ NoneMissing'
      BY <2>1, <2>5, <1>0, <1>4 DEF SubcodesKept, NoneLater, NoneMissing
    <3>4. SubcodesKept'
      BY <1>0, <2>1, <3>1, <3>2, <3>3, LinesStay DEF SubcodesKept
    <3> QED
      BY <2>1, <2>3, <3>4 DEF SubcodesInv, DrainGoesOn
  <2> QED
    BY <2>1, <2>4, <2>5
<1>10. ASSUME NEW to \in People \cup {Raw}, NEW length \in 1..Limit, SendRequest(to, length)
       PROVE  SubcodesInv'
  <2>1. Enqueue(to, "request", length) /\ pc # "drain" /\ UNCHANGED <<lines, session, pc>> /\ "request" \in Kinds
    BY <1>10 DEF SendRequest, Kinds
  <2> QED
    BY <2>1, EnqueueKeeps
<1>11. ASSUME NEW p \in People, NEW c, NEW length \in 1..(Limit - 1), GotRequest(p, c, length)
       PROVE  SubcodesInv'
  <2>1. pc # "drain" /\ UNCHANGED <<lines, session, pc>> /\ "reply" \in Kinds
    BY <1>11 DEF GotRequest, Kinds
  <2>2. length \in 1..Limit /\ p \in People \cup {Raw}
    BY SubcodesAssumption
  <2>3. Enqueue(p, "reply", length) \/ UNCHANGED <<subcodes, queue>>
    BY <1>11 DEF GotRequest
  <2>4. CASE Enqueue(p, "reply", length)
    BY <2>1, <2>2, <2>4, EnqueueKeeps
  <2>5. CASE UNCHANGED <<subcodes, queue>>
    <3>1. UNCHANGED <<subcodes, queue, lines, session, pc>>
      BY <2>1, <2>5
    <3>2. SubcodesKept' /\ AllFresh' = AllFresh /\ Empty' = Empty
      BY <3>1, <1>1, Zenon
    <3> QED
      BY <3>1, <3>2 DEF SubcodesInv, DrainGoesOn
  <2> QED
    BY <2>3, <2>4, <2>5
<1>12. ASSUME NEW p \in People, NEW k \in Kinds, NEW text \in 1..Limit, SendMessage(p, k, text)
       PROVE  SubcodesInv'
  <2>1. /\ ImSendMessage(k, p, text) /\ UNCHANGED <<subcodes, session, pc>> /\ pc # "drain"
        /\ session.phase = "active"
    BY <1>12 DEF SendMessage
  <2>2. AllFresh
    BY <2>1 DEF SubcodesInv
  <2>3. p \in People \cup {Raw} /\ text \in Nat
    BY SubcodesAssumption
  <2>4. SubcodesKept' /\ \A j \in Kinds : \A s : Queued(j, s)' => Queued(j, s)
    BY <1>0, <2>1, <2>2, <2>3, MessageKeeps
  <2>5. AllFresh'
    BY <2>1, <2>2, <2>4 DEF AllFresh
  <2> QED
    BY <2>1, <2>4, <2>5 DEF SubcodesInv, DrainGoesOn
<1> QED
  BY <1>5, <1>6, <1>7, <1>8, <1>9, <1>10, <1>11, <1>12, DrainKeeps, Zenon DEF SubcodesNext

LEMMA SubcodesAre == SubcodesInv => SubcodesInOrder /\ NoStaleSubcode /\ DrainGoesOn
<1> SUFFICES ASSUME SubcodesInv PROVE SubcodesInOrder
  BY DEF SubcodesInv, SubcodesKept
<1>0. SubcodesKept /\ SubcodesTyped
  BY DEF SubcodesInv, SubcodesKept
<1>1. \A i \in DOMAIN lines : lines[i].fate = "too long" => lines[i].length = Limit
  BY <1>0 DEF SubcodesKept, OnlyTooLong
<1> SUFFICES ASSUME NEW kind \in Kinds, NEW to \in People
             PROVE  LET wait == Waiting(kind, to)
                    IN  /\ \A i, j \in LinesTo(kind, to) :
                             \A m \in DOMAIN lines[i].subs, n \in DOMAIN lines[j].subs :
                               i < j \/ (i = j /\ m < n) => lines[i].subs[m] < lines[j].subs[n]
                        /\ \A i \in LinesTo(kind, to) : \A m \in DOMAIN lines[i].subs, n \in DOMAIN wait :
                             lines[i].subs[m] < wait[n]
                        /\ \A m, n \in DOMAIN wait : m < n => wait[m] < wait[n]
                        /\ session.phase # "off" =>
                             \A s \in DOMAIN subcodes :
                               subcodes[s].to = to /\ subcodes[s].kind = kind /\ subcodes[s].session = session.n
                                 => \/ \E n \in DOMAIN wait : wait[n] = s
                                    \/ \E i \in LinesTo(kind, to) : \E m \in DOMAIN lines[i].subs : lines[i].subs[m] = s
  BY <1>1 DEF SubcodesInOrder
<1> DEFINE wait == Waiting(kind, to)
<1>2. /\ Rising(wait)
      /\ \A s : Holds(wait, s) <=> Holds(queue[kind], s) /\ subcodes[s].to = to
  BY <1>0, WaitingIs DEF SubcodesKept, QueuesRise
<1> HIDE DEF wait
<1>3. \A i \in LinesTo(kind, to) : i \in DOMAIN lines /\ lines[i].to = to /\ lines[i].kind = kind
  BY DEF LinesTo
<1>4. \A i, j \in LinesTo(kind, to) :
        \A m \in DOMAIN lines[i].subs, n \in DOMAIN lines[j].subs :
          i < j \/ (i = j /\ m < n) => lines[i].subs[m] < lines[j].subs[n]
  <2> SUFFICES ASSUME NEW i \in LinesTo(kind, to), NEW j \in LinesTo(kind, to),
                      NEW m \in DOMAIN lines[i].subs, NEW n \in DOMAIN lines[j].subs,
                      i < j \/ (i = j /\ m < n)
               PROVE  lines[i].subs[m] < lines[j].subs[n]
    OBVIOUS
  <2>1. Carries(i, lines[i].subs[m]) /\ Carries(j, lines[j].subs[n])
    BY DEF Carries, Holds
  <2>2. CASE i < j
    BY <1>0, <1>3, <2>1, <2>2, Zenon DEF SubcodesKept, LinesOrder
  <2>3. CASE i = j /\ m < n
    BY <1>0, <1>3, <2>3, Zenon DEF SubcodesKept, LinesRise, Rising
  <2> QED
    BY <2>2, <2>3
<1>5. ASSUME NEW i \in LinesTo(kind, to), NEW m \in DOMAIN lines[i].subs, NEW n \in DOMAIN wait
      PROVE  lines[i].subs[m] < wait[n]
  <2>1. Carries(i, lines[i].subs[m]) /\ Holds(wait, wait[n])
    BY DEF Carries, Holds
  <2>2. Queued(lines[i].kind, wait[n]) /\ subcodes[wait[n]].to = lines[i].to
    BY <1>2, <1>3, <2>1 DEF Queued
  <2> QED
    BY <1>0, <1>3, <2>1, <2>2, Zenon DEF SubcodesKept, LinesBefore
<1>6. \A m, n \in DOMAIN wait : m < n => wait[m] < wait[n]
  BY <1>2 DEF Rising
<1>7. ASSUME session.phase # "off", NEW s \in DOMAIN subcodes,
             subcodes[s].to = to, subcodes[s].kind = kind, subcodes[s].session = session.n
      PROVE  \/ \E n \in DOMAIN wait : wait[n] = s
             \/ \E i \in LinesTo(kind, to) : \E m \in DOMAIN lines[i].subs : lines[i].subs[m] = s
  <2>1. CASE Queued(kind, s)
    <3>1. Holds(wait, s)
      BY <1>2, <1>7, <2>1 DEF Queued
    <3> QED
      BY <3>1 DEF Holds
  <2>2. CASE ~Queued(kind, s)
    <3>1. PICK i \in DOMAIN lines : lines[i].to = to /\ lines[i].kind = kind /\ Carries(i, s)
      BY <1>0, <1>7, <2>2, Zenon DEF SubcodesKept, NoneMissing
    <3>2. i \in LinesTo(kind, to)
      BY <3>1 DEF LinesTo
    <3> QED
      BY <3>1, <3>2 DEF Carries, Holds
  <2> QED
    BY <2>1, <2>2
<1> QED
  BY <1>4, <1>5, <1>6, <1>7, Zenon DEF wait

-----------------------------------------------------------------------------
(* Sockets of Lua drivers: the stream of cells. *)
FlapCell == [flap : Nat, at : Nat]

At(k, i) == [flap |-> k, at |-> i]

(* The cell after cell c of FLAPs of these lengths. *)
NextCell(sent, c) == IF c.at < sent[c.flap] THEN At(c.flap, c.at + 1) ELSE At(c.flap + 1, 1)

(* Cells that are of FLAPs that were sent. *)
AllSent(sent, w) == \A i \in 1..Len(w) : w[i].flap \in 1..Len(sent) /\ w[i].at \in 1..sent[w[i].flap]

(* w is what follows FLAP k, and goes on to the end of what was sent. *)
Runs(sent, k, w) ==
  /\ Len(w) > 0 => w[1] = At(k + 1, 1)
  /\ \A i \in 1..(Len(w) - 1) : w[i + 1] = NextCell(sent, w[i])

ToTheEnd(sent, k, w) ==
  IF Len(w) = 0 THEN k = Len(sent) ELSE w[Len(w)] = At(Len(sent), sent[Len(sent)])

LEMMA SentAre ==
  ASSUME NEW sent \in Seq(Lengths)
  PROVE  \A k \in 1..Len(sent) : sent[k] \in Lengths /\ sent[k] \in Nat /\ sent[k] >= 2 /\ sent[k] < Capacity
<1>1. \A k \in 1..Len(sent) : sent[k] \in Lengths
  OBVIOUS
<1>2. \A n \in Lengths : n \in Nat /\ n >= 2 /\ n < Capacity
  <2>1. \A n \in Lengths : n \in Nat /\ n # 0 /\ n # 1 /\ n < Capacity
    BY LuaSocketsAssumption
  <2>2. \A n \in Nat : n # 0 /\ n # 1 => n >= 2
    OBVIOUS
  <2> QED
    BY <2>1, <2>2
<1> QED
  BY <1>1, <1>2

LEMMA AtIs == \A k, i : At(k, i).flap = k /\ At(k, i).at = i
BY DEF At

(* A FLAP begins what follows the one before it. *)
LEMMA RunsHead ==
  ASSUME NEW sent \in Seq(Lengths), NEW k \in Nat, NEW w \in Seq(FlapCell),
         AllSent(sent, w), Runs(sent, k, w), Len(w) > 0
  PROVE  /\ k + 1 \in 1..Len(sent)
         /\ \A i \in 1..Len(w) : i <= sent[k + 1] => w[i] = At(k + 1, i)
<1> DEFINE m == k + 1
           l == sent[m]
           n == Len(w)
<1>0. n \in Nat /\ n > 0 /\ m \in Nat
  OBVIOUS
<1>1. w[1] = At(m, 1) /\ \A i \in 1..(n - 1) : w[i + 1] = NextCell(sent, w[i])
  BY DEF Runs
<1>2. m \in 1..Len(sent)
  <2>1. w[1].flap \in 1..Len(sent)
    BY <1>0 DEF AllSent
  <2> QED
    BY <2>1, <1>1, AtIs
<1>3. l \in Nat /\ l >= 2
  BY <1>2, SentAre
<1> HIDE DEF l, m, n
<1> DEFINE G == {i \in 0..(n - 1) : i + 1 <= l => w[i + 1] = At(m, i + 1)}
<1>4. 0 \in G
  BY <1>0, <1>1
<1>5. ASSUME NEW i \in 0..((n - 1) - 1), i \in G PROVE i + 1 \in G
  <2> DEFINE j == i + 1
  <2>1. j \in 1..(n - 1) /\ j \in 0..(n - 1) /\ i \in Nat
    BY <1>0
  <2>2. ASSUME j + 1 <= l PROVE w[j + 1] = At(m, j + 1)
    <3>1. j <= l /\ j < l
      BY <2>1, <2>2, <1>3
    <3>2. w[j] = At(m, j)
      BY <3>1, <1>5
    <3> HIDE DEF j
    <3>3. w[j + 1] = NextCell(sent, w[j])
      BY <2>1, <1>1
    <3>4. w[j].at = j /\ w[j].flap = m
      BY <3>2, AtIs
    <3>5. w[j].at < sent[w[j].flap]
      BY <3>1, <3>4 DEF l
    <3>6. w[j + 1] = At(w[j].flap, w[j].at + 1)
      BY <3>3, <3>5, Zenon DEF NextCell
    <3> QED
      BY <3>4, <3>6
  <2> HIDE DEF j
  <2>3. j \in G
    BY <2>1, <2>2
  <2> QED
    BY <2>3 DEF j
<1> HIDE DEF G
<1>6. \A i \in 0..(n - 1) : i \in G
  <2> DEFINE p == n - 1
  <2>1. p \in Nat /\ \A i \in 0..(p - 1) : i \in G => i + 1 \in G
    BY <1>0, <1>5
  <2> HIDE DEF p
  <2>2. \A i \in 0..p : i \in G
    BY <2>1, <1>4, UpTo
  <2> QED
    BY <2>2 DEF p
<1>7. ASSUME NEW i \in 1..n, i <= l PROVE w[i] = At(m, i)
  <2>1. i - 1 \in 0..(n - 1) /\ (i - 1) + 1 = i
    BY <1>0
  <2>2. i - 1 \in G
    BY <2>1, <1>6
  <2>3. (i - 1) + 1 <= l => w[(i - 1) + 1] = At(m, (i - 1) + 1)
    BY <2>2 DEF G
  <2> QED
    BY <2>1, <2>3, <1>7
<1> QED
  BY <1>2, <1>7 DEF l, m, n

(* Of p places behind l of n places. *)
Shifts(l, n, p) ==
  /\ \A i \in 1..(p - 1) :
       i \in 1..p /\ i + 1 \in 1..p /\ l + i \in 1..(n - 1) /\ l + (i + 1) = (l + i) + 1
  /\ p # 0 => p \in 1..p /\ l + p = n

LEMMA ShiftsAre ==
  ASSUME NEW l \in Nat, NEW n \in Nat, NEW p \in Nat, p = n - l
  PROVE  Shifts(l, n, p)
BY DEF Shifts

(* And what follows it runs on. *)
LEMMA RunsOn ==
  ASSUME NEW sent \in Seq(Lengths), NEW k \in Nat, NEW w \in Seq(FlapCell),
         AllSent(sent, w), Runs(sent, k, w), Len(w) > 0, NEW v \in Seq(FlapCell),
         NEW l \in Nat, l = sent[k + 1], l <= Len(w), Len(v) = Len(w) - l,
         \A i \in 1..Len(v) : v[i] = w[l + i]
  PROVE  /\ Runs(sent, k + 1, v)
         /\ ToTheEnd(sent, k, w) => ToTheEnd(sent, k + 1, v)
<1> DEFINE m == k + 1
           n == Len(w)
           p == Len(v)
<1>1. m \in 1..Len(sent) /\ \A i \in 1..Len(w) : i <= l => w[i] = At(m, i)
  BY RunsHead
<1>2. l \in Nat /\ l >= 2
  BY <1>1, SentAre
<1>3. n \in Nat /\ p \in Nat /\ p = n - l /\ l \in 1..n /\ m \in Nat
  BY <1>2
<1>4. \A i \in 1..(n - 1) : w[i + 1] = NextCell(sent, w[i])
  BY DEF Runs
<1>5. w[l] = At(m, l)
  <2>1. l <= l /\ l \in 1..Len(w)
    BY <1>2, <1>3
  <2> HIDE DEF m
  <2> QED
    BY <1>1, <2>1, Zenon
<1>6. l = sent[m] /\ \A i \in 1..p : v[i] = w[l + i]
  OBVIOUS
<1> HIDE DEF m, n, p
<1>7. ASSUME p > 0 PROVE v[1] = At(m + 1, 1)
  <2>1. l \in 1..(n - 1) /\ 1 \in 1..p
    BY <1>2, <1>3, <1>7
  <2>2. v[1] = w[l + 1] /\ w[l + 1] = NextCell(sent, w[l])
    BY <2>1, <1>4, <1>6
  <2>3. w[l].flap = m /\ w[l].at = l
    BY <1>5, AtIs
  <2>4. ~(w[l].at < sent[w[l].flap])
    BY <2>3, <1>2, <1>6
  <2>5. NextCell(sent, w[l]) = At(w[l].flap + 1, 1)
    BY <2>4, Zenon DEF NextCell
  <2> QED
    BY <2>2, <2>3, <2>5
<1>8. ASSUME NEW i \in 1..(p - 1) PROVE v[i + 1] = NextCell(sent, v[i])
  <2>0. l \in Nat /\ n \in Nat /\ p \in Nat /\ p = n - l
    BY <1>2, <1>3
  <2>4. i \in 1..p /\ i + 1 \in 1..p /\ l + i \in 1..(n - 1) /\ l + (i + 1) = (l + i) + 1
    <3>1. Shifts(l, n, p)
      BY <2>0, ShiftsAre, Zenon
    <3> QED
      BY <3>1, Zenon DEF Shifts
  <2> DEFINE j == l + i
             r == i + 1
  <2>1. i \in 1..p /\ r \in 1..p /\ j \in 1..(n - 1) /\ l + r = j + 1
    BY <2>4
  <2> HIDE DEF r, j
  <2>2. v[i] = w[j] /\ v[r] = w[j + 1]
    <3>1. v[i] = w[l + i] /\ v[r] = w[l + r]
      BY <2>1, <1>6
    <3> QED
      BY <3>1, <2>1 DEF j
  <2>3. w[j + 1] = NextCell(sent, w[j])
    BY <2>1, <1>4
  <2> QED
    BY <2>2, <2>3 DEF r
<1>9. Runs(sent, m, v)
  BY <1>7, <1>8 DEF Runs, p
<1>10. ASSUME ToTheEnd(sent, k, w) PROVE ToTheEnd(sent, m, v)
  <2>1. w[n] = At(Len(sent), sent[Len(sent)])
    <3>1. n # 0
      BY <1>3, <1>2
    <3> QED
      BY <3>1, <1>10 DEF ToTheEnd, n
  <2>2. CASE p = 0
    <3>1. n = l
      BY <1>2, <1>3, <2>2
    <3>2. At(m, l) = At(Len(sent), sent[Len(sent)])
      BY <3>1, <2>1, <1>5
    <3>3. m = Len(sent)
      BY <3>2, AtIs
    <3> QED
      BY <3>3, <2>2 DEF ToTheEnd, p
  <2>3. CASE p # 0
    <3>1. p \in 1..p /\ l + p = n
      <4>1. Shifts(l, n, p)
        BY <1>2, <1>3, ShiftsAre, Zenon
      <4> QED
        BY <4>1, <2>3, Zenon DEF Shifts
    <3>2. v[p] = w[n]
      BY <3>1, <1>6
    <3> QED
      BY <3>2, <2>1, <2>3 DEF ToTheEnd, p
  <2> QED
    BY <2>2, <2>3
<1> QED
  BY <1>9, <1>10 DEF m

(* What is cut off behind. *)
LEMMA RunsCut ==
  ASSUME NEW sent, NEW k, NEW c \in Seq(FlapCell), NEW r \in Seq(FlapCell),
         Runs(sent, k, c \o r)
  PROVE  Runs(sent, k, c)
<1> DEFINE w == c \o r
<1>1. /\ Len(w) = Len(c) + Len(r) /\ Len(c) \in Nat /\ Len(r) \in Nat
      /\ \A i \in 1..Len(c) : w[i] = c[i]
  OBVIOUS
<1>2. Runs(sent, k, w)
  OBVIOUS
<1> HIDE DEF w
<1>3. Len(c) > 0 => c[1] = At(k + 1, 1)
  BY <1>1, <1>2 DEF Runs
<1>4. ASSUME NEW i \in 1..(Len(c) - 1) PROVE c[i + 1] = NextCell(sent, c[i])
  <2> DEFINE j == i + 1
  <2>1. i \in 1..(Len(w) - 1) /\ i \in 1..Len(c) /\ j \in 1..Len(c)
    BY <1>1
  <2>2. w[j] = NextCell(sent, w[i])
    BY <1>2, <2>1 DEF Runs
  <2> HIDE DEF j
  <2>3. c[j] = w[j] /\ c[i] = w[i]
    BY <2>1, <1>1
  <2>4. c[j] = NextCell(sent, c[i])
    BY <2>2, <2>3
  <2> QED
    BY <2>4 DEF j
<1> QED
  BY <1>3, <1>4 DEF Runs

(* Of n places and l behind them: where the next place is. *)
Seams(n, l) ==
  \A i \in 1..((n + l) - 1) :
    \/ i \in 1..n /\ i \in 1..(n - 1) /\ i + 1 \in 1..n
    \/ i \in 1..n /\ i = n
    \/ \E j \in 1..l : i = n + j /\ i + 1 = n + (j + 1) /\ j + 1 \in 1..l /\ j < l

LEMMA SeamsAre ==
  ASSUME NEW n \in Nat, NEW l \in Nat
  PROVE  Seams(n, l)
<1> SUFFICES ASSUME NEW i \in 1..((n + l) - 1), ~(i \in 1..n)
             PROVE  \E j \in 1..l : i = n + j /\ i + 1 = n + (j + 1) /\ j + 1 \in 1..l /\ j < l
  BY DEF Seams
<1> DEFINE j == i - n
<1>1. j \in 1..l /\ i = n + j /\ i + 1 = n + (j + 1) /\ j + 1 \in 1..l /\ j < l
  OBVIOUS
<1> HIDE DEF j
<1> QED
  BY <1>1

LEMMA OneBefore ==
  ASSUME NEW p, NEW n, NEW l, p = n + l
  PROVE  1..(p - 1) = 1..((n + l) - 1)
BY Zenon

LEMMA CellsAre ==
  ASSUME NEW sent \in Seq(Lengths), NEW k \in 1..Len(sent)
  PROVE  /\ Cells(sent, k) \in Seq(FlapCell) /\ Len(Cells(sent, k)) = sent[k]
         /\ \A i \in 1..sent[k] : Cells(sent, k)[i] = At(k, i)
<1>1. sent[k] \in Nat /\ k \in Nat
  BY SentAre
<1>2. Cells(sent, k) = [i \in 1..sent[k] |-> At(k, i)]
  BY DEF Cells, At
<1> DEFINE l == sent[k]
           x == [i \in 1..l |-> At(k, i)]
<1>3. l \in Nat /\ \A i \in 1..l : At(k, i) \in FlapCell
  BY <1>1 DEF At, FlapCell
<1> HIDE DEF l
<1>4. x \in Seq(FlapCell) /\ Len(x) = l /\ \A i \in 1..l : x[i] = At(k, i)
  BY <1>3
<1> QED
  BY <1>2, <1>4 DEF l

(* One more FLAP goes on where the one before it ends. *)
LEMMA RunsSent ==
  ASSUME NEW sent \in Seq(Lengths), NEW k \in Nat, NEW w \in Seq(FlapCell),
         AllSent(sent, w), Runs(sent, k, w), ToTheEnd(sent, k, w),
         NEW more \in Seq(Lengths), Len(more) = Len(sent) + 1,
         \A i \in 1..Len(sent) : more[i] = sent[i],
         NEW x \in Seq(FlapCell), x = Cells(more, Len(more))
  PROVE  /\ AllSent(more, w \o x) /\ Runs(more, k, w \o x) /\ ToTheEnd(more, k, w \o x)
<1> DEFINE m == Len(more)
           n == Len(w)
           l == more[m]
           v == w \o x
<1>1. Len(sent) \in Nat /\ m = Len(sent) + 1 /\ m \in 1..Len(more) /\ m \in Nat /\ n \in Nat
  OBVIOUS
<1>2. l \in Nat /\ l >= 2
  BY <1>1, SentAre
<1>3. Len(x) = l /\ \A i \in 1..l : x[i] = At(m, i)
  BY <1>1, CellsAre
<1>4. /\ v \in Seq(FlapCell) /\ Len(v) = n + l
      /\ (\A i \in 1..n : v[i] = w[i]) /\ \A i \in 1..l : v[n + i] = x[i]
  <2> HIDE DEF m, l
  <2> QED
    BY <1>2, <1>3
<1>5. /\ Len(w) = n /\ Len(more) = m
      /\ \A i \in 1..Len(sent) : more[i] = sent[i] /\ i \in 1..m
  BY <1>1
<1>6. l = more[m]
  OBVIOUS
<1>7. Len(sent) > 0 => more[Len(sent)] = sent[Len(sent)] /\ Len(sent) \in 1..Len(sent)
  BY <1>1, <1>5
<1> HIDE DEF m, n, l, v
<1>8. \A i \in 1..(n + l) : i \in 1..n \/ \E j \in 1..l : i = n + j
  <2> SUFFICES ASSUME NEW i \in 1..(n + l), i \notin 1..n PROVE \E j \in 1..l : i = n + j
    OBVIOUS
  <2>1. i - n \in 1..l /\ i = n + (i - n)
    BY <1>1, <1>2
  <2> QED
    BY <2>1
<1>9. AllSent(more, v)
  <2> SUFFICES ASSUME NEW i \in 1..(n + l)
               PROVE  v[i].flap \in 1..m /\ v[i].at \in 1..more[v[i].flap]
    BY <1>4, <1>5 DEF AllSent
  <2>1. CASE i \in 1..n
    <3>1. w[i].flap \in 1..Len(sent) /\ w[i].at \in 1..sent[w[i].flap]
      BY <2>1, <1>5 DEF AllSent
    <3> QED
      BY <2>1, <3>1, <1>4, <1>5
  <2>2. ASSUME NEW j \in 1..l, i = n + j PROVE v[i].flap \in 1..m /\ v[i].at \in 1..more[v[i].flap]
    <3>1. v[i] = At(m, j)
      BY <2>2, <1>3, <1>4
    <3>2. v[i].flap = m /\ v[i].at = j
      BY <3>1, AtIs
    <3> QED
      BY <3>2, <1>1, <1>5, <1>6
  <2> QED
    BY <2>1, <2>2, <1>8
<1>10. 1 \in 1..l /\ l \in 1..l
  BY <1>2
<1>11. CASE n = 0
  <2>1. k = Len(sent)
    BY <1>5, <1>11 DEF ToTheEnd
  <2>2. v[1] = At(m, 1)
    BY <1>1, <1>3, <1>4, <1>10, <1>11
  <2>3. v[1] = At(k + 1, 1)
    BY <2>1, <2>2, <1>1
  <2> QED
    <3>1. Runs(more, k, v)
      <4>1. ASSUME NEW i \in 1..(Len(v) - 1) PROVE v[i + 1] = NextCell(more, v[i])
        <5> DEFINE j == i + 1
        <5>1. i \in 1..l /\ j \in 1..l /\ i < l /\ n + i = i /\ n + j = j
          BY <1>2, <1>4, <1>11
        <5> HIDE DEF j
        <5>2. v[i] = At(m, i) /\ v[j] = At(m, j)
          <6>1. v[n + i] = x[i] /\ v[n + j] = x[j] /\ x[i] = At(m, i) /\ x[j] = At(m, j)
            BY <5>1, <1>3, <1>4
          <6> QED
            BY <6>1, <5>1
        <5>3. v[i].flap = m /\ v[i].at = i
          BY <5>2, AtIs
        <5>4. v[i].at < more[v[i].flap]
          BY <5>1, <5>3, <1>6
        <5>5. NextCell(more, v[i]) = At(v[i].flap, v[i].at + 1)
          BY <5>4, Zenon DEF NextCell
        <5> QED
          BY <5>2, <5>3, <5>5 DEF j
      <4> QED
        BY <4>1, <2>3 DEF Runs
    <3>2. ToTheEnd(more, k, v)
      <4>1. v[n + l] = At(m, l) /\ Len(v) = n + l /\ Len(v) # 0
        BY <1>1, <1>2, <1>3, <1>4, <1>10
      <4> QED
        BY <4>1, <1>5, <1>6 DEF ToTheEnd
    <3> QED
      BY <3>1, <3>2, <1>9 DEF v
<1>12. CASE n # 0
  <2>1. n \in 1..n /\ 1 \in 1..n /\ n > 0
    BY <1>1, <1>12
  <2>2. w[n] = At(Len(sent), sent[Len(sent)]) /\ w[1] = At(k + 1, 1)
    BY <2>1, <1>5, <1>12 DEF ToTheEnd, Runs
  <2>3. Len(sent) \in 1..Len(sent)
    <3>1. w[n].flap \in 1..Len(sent)
      BY <2>1, <1>5 DEF AllSent
    <3>2. w[n].flap = Len(sent)
      BY <2>2, AtIs
    <3> QED
      BY <3>1, <3>2
  <2>4. ASSUME NEW i \in 1..((n + l) - 1) PROVE v[i + 1] = NextCell(more, v[i])
    <3>0. Seams(n, l)
      BY <1>1, <1>2, SeamsAre, Zenon
    <3>1. CASE i \in 1..n /\ i \in 1..(n - 1) /\ i + 1 \in 1..n
      <4> DEFINE j == i + 1
      <4>1. w[j] = NextCell(sent, w[i]) /\ i \in 1..n /\ j \in 1..n
        BY <3>1, <1>5 DEF Runs
      <4> HIDE DEF j
      <4>2. w[i].flap \in 1..Len(sent)
        BY <4>1, <1>5 DEF AllSent
      <4>3. more[w[i].flap] = sent[w[i].flap]
        BY <4>2, <1>5
      <4>4. NextCell(more, w[i]) = NextCell(sent, w[i])
        BY <4>3, Zenon DEF NextCell
      <4>5. v[j] = w[j] /\ v[i] = w[i]
        BY <4>1, <1>4
      <4> QED
        BY <4>1, <4>4, <4>5 DEF j
    <3>2. CASE i \in 1..n /\ i = n
      <4>1. v[n] = w[n] /\ v[n + 1] = At(m, 1)
        BY <2>1, <1>3, <1>4, <1>10
      <4>2. v[n].flap = Len(sent) /\ v[n].at = sent[Len(sent)]
        BY <4>1, <2>2, AtIs
      <4>3. ~(v[n].at < more[v[n].flap])
        <5>1. sent[Len(sent)] \in Nat
          BY <2>3, SentAre
        <5>2. more[Len(sent)] = sent[Len(sent)]
          BY <2>3, <1>5
        <5> QED
          BY <4>2, <5>1, <5>2
      <4>4. NextCell(more, v[n]) = At(v[n].flap + 1, 1)
        BY <4>3, Zenon DEF NextCell
      <4>5. v[n].flap + 1 = m
        BY <4>2, <1>1
      <4> QED
        BY <4>1, <4>4, <4>5, <3>2
    <3>3. ASSUME NEW j \in 1..l, i = n + j, i + 1 = n + (j + 1), j + 1 \in 1..l, j < l
          PROVE  v[i + 1] = NextCell(more, v[i])
      <4> DEFINE h == j + 1
      <4>1. h \in 1..l /\ i + 1 = n + h
        BY <3>3
      <4> HIDE DEF h
      <4>2. v[i] = At(m, j) /\ v[i + 1] = At(m, h)
        <5>1. v[n + j] = x[j] /\ v[n + h] = x[h] /\ x[j] = At(m, j) /\ x[h] = At(m, h)
          BY <4>1, <1>3, <1>4
        <5> QED
          BY <5>1, <4>1, <3>3
      <4>3. v[i].flap = m /\ v[i].at = j
        BY <4>2, AtIs
      <4>4. v[i].at < more[v[i].flap]
        BY <4>3, <3>3, <1>6
      <4>5. NextCell(more, v[i]) = At(v[i].flap, v[i].at + 1)
        BY <4>4, Zenon DEF NextCell
      <4> QED
        BY <4>2, <4>3, <4>5 DEF h
    <3> QED
      BY <3>0, <3>1, <3>2, <3>3, Zenon DEF Seams
  <2>5. v[1] = At(k + 1, 1)
    BY <2>1, <2>2, <1>4
  <2>6. Runs(more, k, v)
    <3> DEFINE p == Len(v)
    <3>1. p = n + l
      BY <1>4
    <3> HIDE DEF p
    <3>2. 1..(p - 1) = 1..((n + l) - 1)
      BY <3>1, OneBefore, Zenon
    <3>3. \A i \in 1..((n + l) - 1) : v[i + 1] = NextCell(more, v[i])
      BY <2>4, Zenon
    <3>4. \A i \in 1..(p - 1) : v[i + 1] = NextCell(more, v[i])
      BY <3>2, <3>3, Zenon
    <3> QED
      BY <3>4, <2>5, Zenon DEF Runs, p
  <2>7. ToTheEnd(more, k, v)
    <3>1. v[n + l] = At(m, l) /\ Len(v) = n + l /\ Len(v) # 0
      BY <1>1, <1>2, <1>3, <1>4, <1>10
    <3> QED
      BY <3>1, <1>5, <1>6 DEF ToTheEnd
  <2> QED
    BY <2>6, <2>7, <1>9 DEF v
<1> QED
  BY <1>11, <1>12

-----------------------------------------------------------------------------
(* The buffer. *)
FlapBuffer == [cells : Seq(FlapCell), taken : Seq(Seq(FlapCell)), short : BOOLEAN]

(* A buffer that NewData may be given. *)
Fed(sent) == {f \in FlapBuffer : AllSent(sent, f.cells)}

LEMMA WholeIs ==
  ASSUME NEW sent \in Seq(Lengths), NEW c \in Seq(FlapCell), AllSent(sent, c)
  PROVE  Whole(sent, c) \in Nat /\ (Whole(sent, c) # 0 => Whole(sent, c) >= 2 /\ Len(c) >= 2)
<1>1. CASE Len(c) < 2 \/ c[1].at # 1
  <2>1. Whole(sent, c) = 0
    BY <1>1 DEF Whole
  <2> QED
    BY <2>1
<1>2. CASE ~(Len(c) < 2 \/ c[1].at # 1)
  <2>1. Whole(sent, c) = IF c[2].at = 2 THEN sent[c[2].flap] ELSE 2
    BY <1>2 DEF Whole
  <2>2. Len(c) \in Nat /\ Len(c) >= 2
    BY <1>2
  <2>3. c[2].flap \in 1..Len(sent)
    BY <2>2 DEF AllSent
  <2>4. sent[c[2].flap] \in Nat /\ sent[c[2].flap] >= 2
    BY <2>3, SentAre
  <2> QED
    BY <2>1, <2>2, <2>4
<1> QED
  BY <1>1, <1>2

LEMMA TakeIs ==
  ASSUME NEW c \in Seq(FlapCell), NEW n \in Nat, n <= Len(c), n >= 1
  PROVE  /\ Take(c, n) \in Seq(FlapCell) /\ Len(Take(c, n)) = Len(c) - n
         /\ \A i \in 1..(Len(c) - n) : \E j \in 1..Len(c) : Take(c, n)[i] = c[j]
         /\ Len(c) - n <= Capacity - Len(c) => \A i \in 1..(Len(c) - n) : Take(c, n)[i] = c[n + i]
<1> DEFINE p == Len(c) - n
           e(i) == IF i <= Capacity - Len(c) THEN c[n + i] ELSE c[i]
           t == [i \in 1..p |-> e(i)]
<1>0. Len(c) \in Nat /\ p \in Nat /\ Capacity \in Nat
  BY LuaSocketsAssumption
<1>1. Take(c, n) = t
  BY DEF Take
<1>2. ASSUME NEW i \in 1..p PROVE n + i \in 1..Len(c) /\ i \in 1..Len(c)
  BY <1>0
<1>3. ASSUME NEW i \in 1..p PROVE e(i) \in FlapCell /\ \E j \in 1..Len(c) : e(i) = c[j]
  BY <1>2
<1>4. p <= Capacity - Len(c) => \A i \in 1..p : e(i) = c[n + i]
  BY <1>0
<1> HIDE DEF p, e
<1>5. t \in Seq(FlapCell) /\ Len(t) = p /\ \A i \in 1..p : t[i] = e(i)
  BY <1>0, <1>3
<1> HIDE DEF t
<1> QED
  BY <1>1, <1>3, <1>4, <1>5 DEF p

LEMMA FlapTakenIs ==
  ASSUME NEW sent \in Seq(Lengths), NEW g \in Fed(sent)
  PROVE  FlapTaken(sent, g) \in Fed(sent)
<1> DEFINE n == Whole(sent, g.cells)
           c == g.cells
<1>1. g \in FlapBuffer /\ c \in Seq(FlapCell) /\ AllSent(sent, c) /\ g.taken \in Seq(Seq(FlapCell)) /\ g.short \in BOOLEAN
  BY DEF Fed, FlapBuffer
<1>2. n \in Nat /\ (n # 0 => n >= 2)
  BY <1>1, WholeIs
<1> HIDE DEF n
<1>3. CASE n = 0 \/ n > Len(c)
  <2>1. FlapTaken(sent, g) = g
    BY <1>3 DEF FlapTaken, n
  <2> QED
    BY <2>1
<1>4. CASE ~(n = 0 \/ n > Len(c))
  <2> DEFINE t == Take(c, n)
             x == SubSeq(c, 1, n)
             b == g.short \/ Len(c) - n > Capacity - Len(c)
             h == [cells |-> t, taken |-> Append(g.taken, x), short |-> b]
  <2>1. FlapTaken(sent, g) = h
    BY <1>4 DEF FlapTaken, n
  <2>2. n <= Len(c) /\ n >= 1 /\ Len(c) \in Nat
    BY <1>1, <1>2, <1>4
  <2> HIDE DEF c
  <2>3. t \in Seq(FlapCell) /\ \A i \in 1..Len(t) : \E j \in 1..Len(c) : t[i] = c[j]
    <3>1. /\ t \in Seq(FlapCell) /\ Len(t) = Len(c) - n
          /\ \A i \in 1..(Len(c) - n) : \E j \in 1..Len(c) : t[i] = c[j]
      BY <1>1, <1>2, <2>2, TakeIs, Zenon
    <3> HIDE DEF t
    <3> QED
      BY <3>1
  <2>4. x \in Seq(FlapCell)
    BY <1>1, <1>2, <2>2
  <2> HIDE DEF t, x, b
  <2>5. AllSent(sent, t)
    BY <1>1, <2>3 DEF AllSent
  <2>6. Append(g.taken, x) \in Seq(Seq(FlapCell))
    <3> DEFINE Q == Seq(FlapCell)
               q == g.taken
    <3>1. q \in Seq(Q) /\ x \in Q
      BY <1>1, <2>4
    <3> HIDE DEF Q, q
    <3>2. Append(q, x) \in Seq(Q)
      BY <3>1
    <3> QED
      BY <3>2 DEF Q, q
  <2>7. b \in BOOLEAN
    BY <1>1 DEF b
  <2> HIDE DEF h
  <2>8. h \in Fed(sent)
    <3> DEFINE a == Append(g.taken, x)
    <3>1. a \in Seq(Seq(FlapCell)) /\ h = [cells |-> t, taken |-> a, short |-> b]
      BY <2>6 DEF h
    <3> HIDE DEF a
    <3>2. h \in FlapBuffer /\ h.cells = t
      BY <3>1, <2>3, <2>7 DEF FlapBuffer
    <3> QED
      BY <3>2, <2>5 DEF Fed
  <2> QED
    BY <2>1, <2>8
<1> QED
  BY <1>3, <1>4

TakesOf(u, sent, f) ==
  u = [i \in 0..Len(f.cells) |-> IF i = 0 THEN f ELSE FlapTaken(sent, u[i - 1])]

LEMMA NewDataIs ==
  ASSUME NEW sent \in Seq(Lengths), NEW f \in Fed(sent)
  PROVE  \E u : /\ NewData(sent, f) = u[Len(f.cells)] /\ u[0] = f
                /\ \A i \in 1..Len(f.cells) : u[i] = FlapTaken(sent, u[i - 1])
                /\ \A i \in 0..Len(f.cells) : u[i] \in Fed(sent)
<1> DEFINE n == Len(f.cells)
           X == Fed(sent)
           g == [i \in 1..n |-> [x \in X |-> FlapTaken(sent, x)]]
<1>1. n \in Nat
  <2>1. f.cells \in Seq(FlapCell)
    BY DEF Fed, FlapBuffer
  <2> QED
    BY <2>1
<1>2. ASSUME NEW x \in X PROVE FlapTaken(sent, x) \in X
  BY FlapTakenIs
<1> HIDE DEF n
<1>0. f \in X
  OBVIOUS
<1> HIDE DEF X
<1>3. g \in [1..n -> [X -> X]]
  BY <1>2
<1>4. PICK h : Stepped(h, X, f, n, g)
  <2> HIDE DEF g
  <2> QED
    BY <1>0, <1>1, <1>3, StepByStep
<1>5. h \in [0..n -> X] /\ h[0] = f /\ \A i \in 1..n : h[i] = FlapTaken(sent, h[i - 1])
  <2>1. h \in [0..n -> X] /\ h[0] = f /\ \A i \in 1..n : h[i] = g[i][h[i - 1]]
    BY <1>4 DEF Stepped
  <2>2. ASSUME NEW i \in 1..n PROVE h[i] = FlapTaken(sent, h[i - 1])
    <3>1. i - 1 \in 0..n
      BY <1>1
    <3>2. h[i - 1] \in X
      BY <2>1, <3>1
    <3> QED
      BY <2>1, <3>2
  <2> QED
    BY <2>1, <2>2
<1>6. TakesOf(h, sent, f)
  <2>1. h = [i \in 0..n |-> h[i]]
    BY <1>5
  <2>2. ASSUME NEW i \in 0..n
        PROVE  h[i] = IF i = 0 THEN f ELSE FlapTaken(sent, h[i - 1])
    <3>1. CASE i = 0
      BY <3>1, <1>5
    <3>2. CASE i # 0
      <4>1. i \in 1..n
        BY <3>2, <1>1
      <4> QED
        BY <4>1, <3>2, <1>5
    <3> QED
      BY <3>1, <3>2
  <2>3. h = [i \in 0..n |-> IF i = 0 THEN f ELSE FlapTaken(sent, h[i - 1])]
    BY <2>1, <2>2
  <2> QED
    BY <2>3, Zenon DEF TakesOf, n
<1> DEFINE u == CHOOSE v : TakesOf(v, sent, f)
<1>7. TakesOf(u, sent, f) /\ NewData(sent, f) = u[n]
  <2>1. TakesOf(u, sent, f)
    BY <1>6, Zenon
  <2>2. NewData(sent, f) = u[n]
    BY Zenon DEF NewData, TakesOf, n
  <2> QED
    BY <2>1, <2>2
<1> HIDE DEF u
<1>8. u[0] = f /\ \A i \in 1..n : u[i] = FlapTaken(sent, u[i - 1])
  <2>1. \A i \in 0..n : u[i] = IF i = 0 THEN f ELSE FlapTaken(sent, u[i - 1])
    BY <1>7, Zenon DEF TakesOf, n
  <2>2. 0 \in 0..n /\ \A i \in 1..n : i \in 0..n /\ i # 0
    BY <1>1
  <2> QED
    BY <2>1, <2>2, Zenon
<1> DEFINE G == {i \in 0..n : u[i] \in X}
<1>9. 0 \in G
  BY <1>0, <1>1, <1>8
<1>10. ASSUME NEW i \in 0..(n - 1), i \in G PROVE i + 1 \in G
  <2> DEFINE k == i + 1
  <2>1. k \in 1..n /\ k \in 0..n /\ k - 1 = i /\ u[i] \in X
    BY <1>1, <1>10
  <2> HIDE DEF k
  <2>2. u[k] = FlapTaken(sent, u[i])
    BY <2>1, <1>8
  <2>3. u[k] \in X
    BY <2>1, <2>2, <1>2
  <2> QED
    BY <2>1, <2>3 DEF k
<1>11. \A i \in 0..n : i \in G
  <2> HIDE DEF G
  <2> QED
    BY <1>1, <1>9, <1>10, UpTo
<1>12. \A i \in 0..n : u[i] \in X
  BY <1>11
<1> QED
  BY <1>7, <1>8, <1>12, Zenon DEF n, X

(* What f has taken is the first FLAPs, and what it holds and what is under way follow. *)
InOrder(sent, f, wire) ==
  /\ Runs(sent, Len(f.taken), f.cells \o wire)
  /\ Len(f.taken) <= Len(sent)
  /\ \A k \in DOMAIN f.taken : f.taken[k] = Cells(sent, k)

Unbroken(sent, f, wire) == ToTheEnd(sent, Len(f.taken), f.cells \o wire)

Finished(sent, f) == Whole(sent, f.cells) = 0 \/ Whole(sent, f.cells) > Len(f.cells)

LEMMA FinishedStays ==
  ASSUME NEW sent, NEW g, Finished(sent, g)
  PROVE  FlapTaken(sent, g) = g
BY DEF Finished, FlapTaken

LEMMA ShortOf ==
  ASSUME NEW sent, NEW g, ~Finished(sent, g)
  PROVE  FlapTaken(sent, g) =
           [cells |-> Take(g.cells, Whole(sent, g.cells)),
            taken |-> Append(g.taken, SubSeq(g.cells, 1, Whole(sent, g.cells))),
            short |-> g.short \/ Len(g.cells) - Whole(sent, g.cells) > Capacity - Len(g.cells)]
<1> DEFINE n == Whole(sent, g.cells)
<1>1. ~(n = 0 \/ n > Len(g.cells))
  BY Zenon DEF Finished
<1> HIDE DEF n
<1> QED
  BY <1>1, Zenon DEF FlapTaken, n

LEMMA AllSentBoth ==
  ASSUME NEW sent, NEW c \in Seq(FlapCell), NEW r \in Seq(FlapCell)
  PROVE  AllSent(sent, c \o r) <=> AllSent(sent, c) /\ AllSent(sent, r)
<1> DEFINE w == c \o r
           p == Len(c)
           l == Len(r)
<1>1. /\ Len(w) = p + l /\ p \in Nat /\ l \in Nat
      /\ (\A i \in 1..p : w[i] = c[i]) /\ \A i \in 1..l : w[p + i] = r[i]
  OBVIOUS
<1> DEFINE Good(x) == x.flap \in 1..Len(sent) /\ x.at \in 1..sent[x.flap]
<1>2. /\ AllSent(sent, w) <=> \A i \in 1..(p + l) : Good(w[i])
      /\ AllSent(sent, c) <=> \A i \in 1..p : Good(c[i])
      /\ AllSent(sent, r) <=> \A i \in 1..l : Good(r[i])
  BY <1>1, Zenon DEF AllSent
<1> HIDE DEF Good, w, p, l
<1>3. \A i \in 1..p : i \in 1..(p + l)
  BY <1>1
<1>4. \A j \in 1..l : p + j \in 1..(p + l)
  BY <1>1
<1>5. ASSUME NEW i \in 1..(p + l) PROVE i \in 1..p \/ \E j \in 1..l : i = p + j
  <2>1. i \notin 1..p => i - p \in 1..l /\ i = p + (i - p)
    BY <1>1
  <2> QED
    BY <2>1
<1>6. (\A i \in 1..(p + l) : Good(w[i])) <=> (\A i \in 1..p : Good(c[i])) /\ \A i \in 1..l : Good(r[i])
  BY <1>1, <1>3, <1>4, <1>5
<1> QED
  BY <1>2, <1>6 DEF w

LEMMA JoinedAre ==
  ASSUME NEW x \in Seq(FlapCell), NEW y \in Seq(FlapCell)
  PROVE  /\ x \o y \in Seq(FlapCell) /\ Len(x \o y) = Len(x) + Len(y)
         /\ (\A i \in 1..Len(x) : (x \o y)[i] = x[i])
         /\ \A i \in 1..Len(y) : (x \o y)[Len(x) + i] = y[i]
OBVIOUS

(* v is what follows the first n of w. *)
RestOf(w, n, v) ==
  /\ Len(w) > 0 /\ n <= Len(w) /\ Len(v) = Len(w) - n
  /\ \A i \in 1..Len(v) : v[i] = w[n + i]

LEMMA ShiftedBehind ==
  ASSUME NEW c \in Seq(FlapCell), NEW t \in Seq(FlapCell), NEW wire \in Seq(FlapCell),
         NEW n \in Nat, n <= Len(c), n # 0, Len(t) = Len(c) - n,
         \A i \in 1..(Len(c) - n) : t[i] = c[n + i]
  PROVE  RestOf(c \o wire, n, t \o wire)
<1> DEFINE w == c \o wire
           v == t \o wire
           p == Len(c)
           l == Len(wire)
           s == Len(t)
<1>1. /\ Len(w) = p + l /\ p \in Nat /\ l \in Nat
      /\ (\A i \in 1..p : w[i] = c[i]) /\ \A i \in 1..l : w[p + i] = wire[i]
  OBVIOUS
<1>2. /\ Len(v) = s + l /\ s \in Nat
      /\ (\A i \in 1..s : v[i] = t[i]) /\ \A i \in 1..l : v[s + i] = wire[i]
  <2>1. s \in Nat
    OBVIOUS
  <2> QED
    BY <2>1, JoinedAre, Zenon
<1>3. s = p - n /\ \A i \in 1..s : t[i] = c[n + i]
  OBVIOUS
<1>4. n <= p /\ n # 0
  OBVIOUS
<1> HIDE DEF w, v, p, l, s
<1>5. ASSUME NEW i \in 1..(s + l) PROVE v[i] = w[n + i]
  <2>1. CASE i \in 1..s
    <3>1. n + i \in 1..p
      BY <2>1, <1>1, <1>2, <1>3
    <3> QED
      BY <3>1, <2>1, <1>1, <1>2, <1>3
  <2>2. CASE i \notin 1..s
    <3> DEFINE j == i - s
    <3>1. j \in 1..l /\ i = s + j /\ n + i = p + j
      BY <2>2, <1>1, <1>2, <1>3
    <3> HIDE DEF j
    <3>2. v[s + j] = wire[j] /\ w[p + j] = wire[j]
      BY <3>1, <1>1, <1>2
    <3> QED
      BY <3>1, <3>2
  <2> QED
    BY <2>1, <2>2
<1>6. Len(w) > 0 /\ n <= Len(w) /\ Len(v) = Len(w) - n
  BY <1>1, <1>2, <1>3, <1>4
<1>7. \A i \in 1..Len(v) : v[i] = w[n + i]
  BY <1>2, <1>5
<1> QED
  BY <1>6, <1>7 DEF w, v, RestOf

(* The FLAP that is taken out is the next one that was sent. *)
LEMMA NextTaken ==
  ASSUME NEW sent \in Seq(Lengths), NEW k \in Nat, NEW c \in Seq(FlapCell), NEW wire \in Seq(FlapCell),
         AllSent(sent, c), AllSent(sent, wire), Runs(sent, k, c \o wire),
         NEW n \in Nat, n = Whole(sent, c), n # 0, n <= Len(c)
  PROVE  /\ k + 1 \in 1..Len(sent) /\ n = sent[k + 1] /\ n >= 2
         /\ SubSeq(c, 1, n) = Cells(sent, k + 1)
<1> DEFINE w == c \o wire
           m == k + 1
           p == Len(c)
           x == SubSeq(c, 1, n)
<1>1. /\ w \in Seq(FlapCell) /\ Len(w) = p + Len(wire) /\ p \in Nat /\ Len(wire) \in Nat
      /\ (\A i \in 1..p : w[i] = c[i]) /\ \A i \in 1..Len(wire) : w[p + i] = wire[i]
  OBVIOUS
<1>2. n >= 2 /\ p >= 2 /\ c[1].at = 1
  <2>1. ~(Len(c) < 2 \/ c[1].at # 1)
    BY DEF Whole
  <2>2. n >= 2
    BY WholeIs
  <2> QED
    BY <2>1, <2>2, <1>1
<1>3. n = IF c[2].at = 2 THEN sent[c[2].flap] ELSE 2
  BY <1>1, <1>2 DEF Whole
<1>4. AllSent(sent, w)
  BY AllSentBoth
<1> DEFINE u == w
<1>5. u \in Seq(FlapCell) /\ AllSent(sent, u) /\ Runs(sent, k, u) /\ Len(u) > 0
  BY <1>1, <1>2, <1>4
<1> HIDE DEF u, w
<1>6. m \in 1..Len(sent) /\ \A i \in 1..Len(u) : i <= sent[m] => u[i] = At(m, i)
  BY <1>5, RunsHead
<1>7. sent[m] \in Nat /\ sent[m] >= 2 /\ m \in Nat
  BY <1>6, SentAre
<1> HIDE DEF m, p
<1>8. c[2] = At(m, 2)
  <2>1. 2 \in 1..p /\ 2 \in 1..Len(w)
    BY <1>1, <1>2
  <2>2. u[2] = At(m, 2)
    BY <2>1, <1>6, <1>7 DEF u
  <2> QED
    BY <2>1, <2>2, <1>1 DEF u
<1>9. n = sent[m]
  BY <1>3, <1>8, AtIs
<1>10. x \in Seq(FlapCell) /\ Len(x) = n /\ \A i \in 1..n : x[i] = c[i] /\ i \in 1..p
  <2>1. \A i \in 1..n : i \in 1..Len(c)
    OBVIOUS
  <2> QED
    BY <2>1, <1>1 DEF p
<1>11. ASSUME NEW i \in 1..n PROVE x[i] = At(m, i)
  <2>1. i \in 1..p /\ i \in 1..Len(w) /\ i <= sent[m]
    BY <1>1, <1>9, <1>10
  <2>2. u[i] = At(m, i)
    BY <2>1, <1>6, Zenon DEF u
  <2> QED
    BY <2>1, <2>2, <1>1, <1>10 DEF u
<1> DEFINE y == Cells(sent, m)
<1>12. y \in Seq(FlapCell) /\ Len(y) = n /\ \A i \in 1..n : y[i] = At(m, i)
  BY <1>6, <1>9, CellsAre
<1> HIDE DEF x, y
<1>13. x = y
  <2>1. \A i \in 1..n : x[i] = y[i]
    BY <1>11, <1>12
  <2> QED
    BY <2>1, <1>10, <1>12
<1> QED
  BY <1>2, <1>6, <1>9, <1>13 DEF m, x, y

LEMMA TakenInOrder ==
  ASSUME NEW sent \in Seq(Lengths), NEW g \in Fed(sent), NEW wire \in Seq(FlapCell),
         AllSent(sent, wire), Len(g.cells) <= Capacity, InOrder(sent, g, wire), ~Finished(sent, g),
         NEW h, h = FlapTaken(sent, g), ~h.short
  PROVE  /\ Len(h.cells) < Len(g.cells) /\ InOrder(sent, h, wire)
         /\ Unbroken(sent, g, wire) => Unbroken(sent, h, wire)
<1> DEFINE c == g.cells
           q == g.taken
           k == Len(q)
           n == Whole(sent, c)
           t == Take(c, n)
           x == SubSeq(c, 1, n)
           w == c \o wire
           v == t \o wire
<1>1. c \in Seq(FlapCell) /\ AllSent(sent, c) /\ q \in Seq(Seq(FlapCell)) /\ Len(c) \in Nat
  BY DEF Fed, FlapBuffer
<1>2. n \in Nat /\ n # 0 /\ n <= Len(c)
  <2>1. n \in Nat
    BY <1>1, WholeIs
  <2>2. ~(n = 0 \/ n > Len(c))
    BY Zenon DEF Finished
  <2> QED
    BY <1>1, <2>1, <2>2
<1>3. h.cells = t /\ h.taken = Append(q, x) /\ Len(c) - n <= Capacity - Len(c)
  <2> DEFINE b == g.short \/ Len(c) - n > Capacity - Len(c)
             a == Append(q, x)
  <2>1. ~Finished(sent, g)
    OBVIOUS
  <2>2. FlapTaken(sent, g) = [cells |-> t, taken |-> a, short |-> b]
    BY <2>1, ShortOf, Zenon
  <2> HIDE DEF t, a, b
  <2>6. h.cells = t /\ h.taken = a /\ h.short = b
    BY <2>2
  <2>3. ~(Len(c) - n > Capacity - Len(c))
    BY <2>6, Zenon DEF b
  <2>4. Capacity \in Nat
    BY LuaSocketsAssumption
  <2>5. Len(c) - n <= Capacity - Len(c)
    <3> HIDE DEF n, c
    <3> QED
      BY <2>3, <2>4, <1>1, <1>2
  <2> QED
    BY <2>5, <2>6 DEF a
<1>4. Runs(sent, k, w) /\ k <= Len(sent) /\ \A i \in DOMAIN q : q[i] = Cells(sent, i)
  BY DEF InOrder
<1>5. k \in Nat /\ DOMAIN q = 1..k
  BY <1>1
<1> HIDE DEF k, n, c, q
<1>6. /\ k + 1 \in 1..Len(sent) /\ n = sent[k + 1] /\ n >= 2 /\ x = Cells(sent, k + 1)
  BY <1>1, <1>2, <1>4, <1>5, NextTaken DEF n
<1>7. t \in Seq(FlapCell) /\ Len(t) = Len(c) - n /\ \A i \in 1..(Len(c) - n) : t[i] = c[n + i]
  <2>1. n >= 1
    BY <1>2
  <2> QED
    BY <2>1, <1>1, <1>2, <1>3, TakeIs
<1>8. x \in Seq(FlapCell)
  BY <1>1, <1>2
<1> HIDE DEF t, x
<1>9. /\ w \in Seq(FlapCell) /\ v \in Seq(FlapCell) /\ Len(w) > 0
      /\ n <= Len(w) /\ Len(v) = Len(w) - n /\ \A i \in 1..Len(v) : v[i] = w[n + i]
  <2>1. RestOf(w, n, v)
    BY <1>1, <1>2, <1>7, ShiftedBehind
  <2>2. w \in Seq(FlapCell) /\ v \in Seq(FlapCell)
    BY <1>1, <1>7, JoinedAre, Zenon
  <2> QED
    BY <2>1, <2>2, Zenon DEF RestOf
<1>10. AllSent(sent, w)
  BY <1>1, AllSentBoth
<1> HIDE DEF w, v
<1>11. Runs(sent, k + 1, v) /\ (ToTheEnd(sent, k, w) => ToTheEnd(sent, k + 1, v))
  BY <1>2, <1>4, <1>5, <1>6, <1>9, <1>10, RunsOn
<1> DEFINE r == Append(q, x)
<1>12. r \in Seq(Seq(FlapCell)) /\ Len(r) = k + 1 /\ DOMAIN r = 1..(k + 1) /\ r[k + 1] = x /\ \A i \in 1..k : r[i] = q[i]
  <2> DEFINE Q == Seq(FlapCell)
  <2>1. q \in Seq(Q) /\ x \in Q /\ k = Len(q)
    BY <1>1, <1>8 DEF k
  <2> HIDE DEF Q
  <2>2. r \in Seq(Q) /\ Len(r) = k + 1 /\ DOMAIN r = 1..(k + 1) /\ r[k + 1] = x /\ \A i \in 1..k : r[i] = q[i]
    BY <2>1
  <2> QED
    BY <2>2 DEF Q
<1> HIDE DEF r
<1>13. \A i \in DOMAIN r : r[i] = Cells(sent, i)
  <2> SUFFICES ASSUME NEW i \in 1..(k + 1) PROVE r[i] = Cells(sent, i)
    BY <1>12
  <2>1. i = k + 1 \/ i \in 1..k
    BY <1>5
  <2> QED
    BY <2>1, <1>4, <1>5, <1>6, <1>12
<1>14. k + 1 <= Len(sent)
  BY <1>6
<1>15. h.taken = r /\ h.cells = t
  BY <1>3 DEF r
<1>16. InOrder(sent, h, wire)
  BY <1>11, <1>12, <1>13, <1>14, <1>15, Zenon DEF InOrder, v
<1>17. Len(h.cells) < Len(g.cells)
  <2>1. Len(t) < Len(c)
    BY <1>1, <1>2, <1>6, <1>7
  <2> QED
    BY <2>1, <1>15 DEF c
<1>18. Unbroken(sent, g, wire) => Unbroken(sent, h, wire)
  BY <1>11, <1>12, <1>15, Zenon DEF Unbroken, v, w, k, c, q
<1> QED
  BY <1>16, <1>17, <1>18

(* What is so of a buffer before and after each round. *)
FlapsKept(sent, f, wire, up) ==
  f.short \/ (InOrder(sent, f, wire) /\ (up => Unbroken(sent, f, wire)))

LEMMA FewerCells ==
  ASSUME NEW sent \in Seq(Lengths), NEW g \in Fed(sent), NEW h, h = FlapTaken(sent, g)
  PROVE  /\ Len(g.cells) \in Nat /\ Len(h.cells) \in Nat /\ (g.short => h.short)
         /\ (Finished(sent, g) /\ h = g) \/ Len(h.cells) < Len(g.cells)
<1> DEFINE c == g.cells
           n == Whole(sent, c)
<1>1. g \in FlapBuffer /\ c \in Seq(FlapCell) /\ AllSent(sent, c) /\ Len(c) \in Nat
  BY DEF Fed, FlapBuffer
<1>2. CASE Finished(sent, g)
  <2>1. h = g
    BY <1>2, FinishedStays
  <2> QED
    BY <1>1, <1>2, <2>1
<1>3. CASE ~Finished(sent, g)
  <2> DEFINE t == Take(c, n)
             a == Append(g.taken, SubSeq(c, 1, n))
             b == g.short \/ Len(c) - n > Capacity - Len(c)
  <2>1. h = [cells |-> t, taken |-> a, short |-> b]
    BY <1>3, ShortOf, Zenon
  <2>2. n \in Nat /\ n >= 1 /\ n <= Len(c)
    <3>1. n \in Nat /\ (n # 0 => n >= 2)
      BY <1>1, WholeIs
    <3>2. ~(n = 0 \/ n > Len(c))
      BY <1>3, Zenon DEF Finished
    <3> HIDE DEF n, c
    <3> QED
      BY <3>1, <3>2, <1>1
  <2>3. Len(t) = Len(c) - n
    BY <1>1, <2>2, TakeIs, Zenon
  <2> HIDE DEF t, a, b
  <2>4. h.cells = t /\ h.short = b
    BY <2>1
  <2>5. g.short => h.short
    BY <2>4, Zenon DEF b
  <2> HIDE DEF n, c
  <2>6. Len(t) < Len(c) /\ Len(t) \in Nat
    BY <2>2, <2>3, <1>1
  <2> QED
    BY <2>4, <2>5, <2>6, <1>1 DEF c
<1> QED
  BY <1>2, <1>3

LEMMA RoundKeeps ==
  ASSUME NEW sent \in Seq(Lengths), NEW g \in Fed(sent), NEW wire \in Seq(FlapCell), NEW up,
         AllSent(sent, wire), Len(g.cells) <= Capacity, FlapsKept(sent, g, wire, up)
  PROVE  FlapsKept(sent, FlapTaken(sent, g), wire, up)
<1> DEFINE h == FlapTaken(sent, g)
<1>1. g.short => h.short
  BY FewerCells
<1>2. CASE Finished(sent, g)
  <2>1. h = g
    BY <1>2, FinishedStays
  <2> QED
    BY <2>1
<1>3. CASE ~Finished(sent, g) /\ ~h.short
  <2>1. InOrder(sent, g, wire) /\ (up => Unbroken(sent, g, wire))
    BY <1>1, <1>3, Zenon DEF FlapsKept
  <2>2. InOrder(sent, h, wire) /\ (Unbroken(sent, g, wire) => Unbroken(sent, h, wire))
    BY <1>3, <2>1, TakenInOrder
  <2> QED
    BY <2>1, <2>2, Zenon DEF FlapsKept
<1>4. CASE h.short
  BY <1>4, Zenon DEF FlapsKept
<1> QED
  BY <1>2, <1>3, <1>4

(* After a read: what may be taken is, by as many rounds as there are cells at most. *)
LEMMA NewDataHas ==
  ASSUME NEW sent \in Seq(Lengths), NEW f \in Fed(sent), NEW wire \in Seq(FlapCell), NEW up,
         AllSent(sent, wire), Len(f.cells) <= Capacity, FlapsKept(sent, f, wire, up),
         NEW got, got = NewData(sent, f)
  PROVE  /\ got \in Fed(sent) /\ Len(got.cells) <= Capacity
         /\ FlapsKept(sent, got, wire, up) /\ Finished(sent, got)
<1> DEFINE n == Len(f.cells)
<1>1. PICK u : /\ NewData(sent, f) = u[n] /\ u[0] = f
               /\ \A i \in 1..n : u[i] = FlapTaken(sent, u[i - 1])
               /\ \A i \in 0..n : u[i] \in Fed(sent)
  BY NewDataIs, Zenon
<1>2. n \in Nat /\ n <= Capacity /\ Capacity \in Nat
  <2>1. f.cells \in Seq(FlapCell)
    BY DEF Fed, FlapBuffer
  <2> QED
    BY <2>1, LuaSocketsAssumption
<1>3. Len(f.cells) = n
  OBVIOUS
<1> HIDE DEF n
<1> DEFINE G == {i \in 0..n : /\ FlapsKept(sent, u[i], wire, up) /\ Len(u[i].cells) <= n
                              /\ Finished(sent, u[i]) \/ Len(u[i].cells) <= n - i}
<1>4. 0 \in G
  BY <1>1, <1>2, <1>3
<1>5. ASSUME NEW i \in 0..(n - 1), i \in G PROVE i + 1 \in G
  <2> DEFINE k == i + 1
             g == u[i]
             h == u[k]
  <2>1. k \in 1..n /\ k \in 0..n /\ k - 1 = i /\ i \in 0..n /\ i \in Nat /\ k = i + 1
    BY <1>2
  <2>2. /\ FlapsKept(sent, g, wire, up) /\ Len(g.cells) <= n
        /\ Finished(sent, g) \/ Len(g.cells) <= n - i
    BY <1>5
  <2> HIDE DEF k, G
  <2>3. h = FlapTaken(sent, g) /\ g \in Fed(sent)
    BY <2>1, <1>1
  <2> HIDE DEF g, h
  <2>4. /\ Len(g.cells) \in Nat /\ Len(h.cells) \in Nat
        /\ (Finished(sent, g) /\ h = g) \/ Len(h.cells) < Len(g.cells)
    BY <2>3, FewerCells, Zenon
  <2>5. Len(g.cells) <= Capacity
    BY <2>2, <2>4, <1>2
  <2>6. FlapsKept(sent, h, wire, up)
    BY <2>2, <2>3, <2>5, RoundKeeps, Zenon
  <2>7. Len(h.cells) <= n /\ (Finished(sent, h) \/ Len(h.cells) <= n - k)
    <3>1. CASE Finished(sent, g) /\ h = g
      BY <3>1, <2>2
    <3>2. CASE Len(h.cells) < Len(g.cells)
      <4>1. Len(h.cells) <= n
        BY <3>2, <2>2, <2>4, <1>2
      <4>2. CASE Len(g.cells) <= n - i
        <5>1. Len(h.cells) <= n - k
          BY <4>2, <3>2, <2>1, <2>4, <1>2
        <5> QED
          BY <4>1, <5>1
      <4>3. CASE Finished(sent, g)
        <5>1. h = g
          BY <4>3, <2>3, FinishedStays, Zenon
        <5> QED
          BY <5>1, <2>2, <4>3
      <4> QED
        BY <2>2, <4>2, <4>3
    <3> QED
      BY <2>4, <3>1, <3>2
  <2>8. k \in G
    BY <2>1, <2>6, <2>7 DEF G, h
  <2> QED
    BY <2>8 DEF k
<1>6. \A i \in 0..n : i \in G
  <2> HIDE DEF G
  <2> QED
    BY <1>2, <1>4, <1>5, UpTo
<1>7. /\ FlapsKept(sent, u[n], wire, up) /\ Len(u[n].cells) <= n
      /\ Finished(sent, u[n]) \/ Len(u[n].cells) <= n - n
  <2>1. n \in G
    BY <1>2, <1>6
  <2> QED
    BY <2>1
<1>8. got = u[n] /\ got \in Fed(sent) /\ Len(got.cells) \in Nat
  <2>1. got = u[n] /\ got \in Fed(sent)
    BY <1>1, <1>2
  <2>2. got.cells \in Seq(FlapCell)
    BY <2>1 DEF Fed, FlapBuffer
  <2> QED
    BY <2>1, <2>2
<1> HIDE DEF G
<1>9. Finished(sent, got)
  <2>1. ASSUME Len(got.cells) <= n - n PROVE Finished(sent, got)
    <3>1. Len(got.cells) < 2
      BY <2>1, <1>2, <1>8
    <3>2. Whole(sent, got.cells) = 0
      BY <3>1 DEF Whole
    <3> QED
      BY <3>2 DEF Finished
  <2> QED
    BY <2>1, <1>7, <1>8
<1> QED
  BY <1>2, <1>7, <1>8, <1>9

(* A buffer out of which all was taken holds a part of a FLAP, which has room. *)
NoneWaits(sent, f) ==
  f.short \/
    /\ Whole(sent, f.cells) \in {0} \cup (Len(f.cells) + 1)..Capacity
    /\ Len(f.cells) < Capacity

LEMMA FinishedWaits ==
  ASSUME NEW sent \in Seq(Lengths), NEW f \in Fed(sent), NEW wire \in Seq(FlapCell), NEW up,
         AllSent(sent, wire), FlapsKept(sent, f, wire, up), Finished(sent, f)
  PROVE  NoneWaits(sent, f)
<1> SUFFICES ASSUME ~f.short
             PROVE  /\ Whole(sent, f.cells) \in {0} \cup (Len(f.cells) + 1)..Capacity
                    /\ Len(f.cells) < Capacity
  BY DEF NoneWaits
<1> DEFINE c == f.cells
           l == Len(c)
           n == Whole(sent, c)
           m == Len(f.taken) + 1
           w == c \o wire
<1>1. c \in Seq(FlapCell) /\ AllSent(sent, c) /\ l \in Nat /\ Len(f.taken) \in Nat /\ m \in Nat
  BY DEF Fed, FlapBuffer
<1>2. n \in Nat /\ Capacity \in Nat /\ Capacity > 0
  BY <1>1, WholeIs, LuaSocketsAssumption
<1>3. n = 0 \/ n > l
  BY Zenon DEF Finished
<1>4. Runs(sent, Len(f.taken), w)
  BY Zenon DEF FlapsKept, InOrder
<1>5. w \in Seq(FlapCell) /\ Len(w) = l + Len(wire) /\ Len(wire) \in Nat /\ \A i \in 1..l : w[i] = c[i]
  BY <1>1
<1>6. AllSent(sent, w)
  BY <1>1, AllSentBoth
<1>7. CASE l = 0
  <2>1. n = 0
    BY <1>7 DEF Whole
  <2> QED
    BY <2>1, <1>2, <1>7
<1>8. CASE l # 0
  <2> DEFINE u == w
  <2>1. u \in Seq(FlapCell) /\ AllSent(sent, u) /\ Runs(sent, Len(f.taken), u) /\ Len(u) > 0
    BY <1>1, <1>4, <1>5, <1>6, <1>8
  <2> HIDE DEF u, w
  <2>2. m \in 1..Len(sent) /\ \A i \in 1..Len(u) : i <= sent[m] => u[i] = At(m, i)
    BY <2>1, <1>1, RunsHead
  <2>3. sent[m] \in Nat /\ sent[m] >= 2 /\ sent[m] < Capacity
    BY <2>2, SentAre
  <2> HIDE DEF m
  <2>4. 1 \in 1..Len(u) /\ 1 \in 1..l /\ (l >= 2 => 2 \in 1..Len(u) /\ 2 \in 1..l)
    BY <1>1, <1>5, <1>8 DEF u
  <2>5. c[1] = At(m, 1) /\ (l >= 2 => c[2] = At(m, 2))
    <3>1. u[1] = At(m, 1) /\ (l >= 2 => u[2] = At(m, 2))
      BY <2>2, <2>3, <2>4
    <3> QED
      BY <3>1, <2>4, <1>5 DEF u
  <2>6. CASE l < 2
    <3>1. n = 0
      BY <2>6 DEF Whole
    <3>2. l < Capacity
      BY <2>6, <2>3, <1>1, <1>2
    <3> QED
      BY <3>1, <3>2
  <2>7. CASE l >= 2
    <3>1. c[1].at = 1 /\ c[2].at = 2 /\ c[2].flap = m
      BY <2>5, <2>7, AtIs
    <3>2. n = sent[m]
      <4>1. ~(l < 2 \/ c[1].at # 1)
        BY <2>7, <3>1, <1>1
      <4> QED
        BY <4>1, <3>1 DEF Whole
    <3> HIDE DEF n, l
    <3>3. n \in (l + 1)..Capacity /\ l < Capacity
      BY <3>2, <2>3, <1>1, <1>2, <1>3
    <3> QED
      BY <3>3 DEF n, l
  <2> QED
    BY <2>6, <2>7, <1>1
<1> QED
  BY <1>7, <1>8

LEMMA JoinsOn ==
  ASSUME NEW x \in Seq(FlapCell), NEW y \in Seq(FlapCell), NEW z \in Seq(FlapCell)
  PROVE  (x \o y) \o z = x \o (y \o z)
<1> DEFINE a == x \o y
           b == y \o z
           u == a \o z
           v == x \o b
           n == Len(x)
           p == Len(y)
           l == Len(z)
<1>1. n \in Nat /\ p \in Nat /\ l \in Nat
  OBVIOUS
<1>2. a \in Seq(FlapCell) /\ Len(a) = n + p /\ (\A i \in 1..n : a[i] = x[i]) /\ \A i \in 1..p : a[n + i] = y[i]
  BY JoinedAre, Zenon
<1>3. b \in Seq(FlapCell) /\ Len(b) = p + l /\ (\A i \in 1..p : b[i] = y[i]) /\ \A i \in 1..l : b[p + i] = z[i]
  BY JoinedAre, Zenon
<1> HIDE DEF a, b
<1>4. /\ u \in Seq(FlapCell) /\ Len(u) = (n + p) + l /\ (\A i \in 1..(n + p) : u[i] = a[i])
      /\ \A i \in 1..l : u[(n + p) + i] = z[i]
  <2>1. /\ u \in Seq(FlapCell) /\ Len(u) = Len(a) + l /\ (\A i \in 1..Len(a) : u[i] = a[i])
        /\ \A i \in 1..l : u[Len(a) + i] = z[i]
    BY <1>2, JoinedAre, Zenon
  <2> HIDE DEF u, n, p, l
  <2> QED
    BY <2>1, <1>2
<1>5. /\ v \in Seq(FlapCell) /\ Len(v) = n + (p + l) /\ (\A i \in 1..n : v[i] = x[i])
      /\ \A i \in 1..(p + l) : v[n + i] = b[i]
  <2>1. /\ v \in Seq(FlapCell) /\ Len(v) = n + Len(b) /\ (\A i \in 1..n : v[i] = x[i])
        /\ \A i \in 1..Len(b) : v[n + i] = b[i]
    BY <1>3, JoinedAre, Zenon
  <2> HIDE DEF v, n, p, l
  <2> QED
    BY <2>1, <1>3
<1> HIDE DEF u, v, n, p, l
<1>6. Len(u) = Len(v) /\ Len(u) = (n + p) + l
  BY <1>1, <1>4, <1>5
<1>7. ASSUME NEW i \in 1..((n + p) + l) PROVE u[i] = v[i]
  <2>1. CASE i \in 1..n
    <3>1. i \in 1..(n + p)
      BY <2>1, <1>1
    <3> QED
      BY <3>1, <2>1, <1>2, <1>4, <1>5
  <2>2. CASE i \notin 1..n /\ i \in 1..(n + p)
    <3> DEFINE j == i - n
    <3>1. j \in 1..p /\ j \in 1..(p + l) /\ i = n + j
      BY <2>2, <1>1
    <3> HIDE DEF j
    <3>2. u[i] = a[i] /\ a[n + j] = y[j] /\ v[n + j] = b[j] /\ b[j] = y[j]
      BY <3>1, <2>2, <1>2, <1>3, <1>4, <1>5
    <3> QED
      BY <3>1, <3>2
  <2>3. CASE i \notin 1..(n + p)
    <3> DEFINE j == i - (n + p)
               h == p + j
    <3>1. j \in 1..l /\ h \in 1..(p + l) /\ i = (n + p) + j /\ i = n + h /\ h = p + j
      BY <2>3, <1>1
    <3> HIDE DEF j, h
    <3>2. u[(n + p) + j] = z[j] /\ v[n + h] = b[h] /\ b[p + j] = z[j]
      BY <3>1, <1>3, <1>4, <1>5
    <3> QED
      BY <3>1, <3>2
  <2> QED
    BY <2>1, <2>2, <2>3
<1>8. u = v
  BY <1>4, <1>5, <1>6, <1>7
<1> QED
  BY <1>8 DEF u, v, a, b

-----------------------------------------------------------------------------
(* Sockets of Lua drivers. *)
SocketsInv ==
  /\ sock \in SockStates
  /\ pipe \in [sent : Seq(Lengths), wire : Seq(FlapCell), open : BOOLEAN]
  /\ driven \in [session : {"off", "up"}, lost : {"none", "never", "silent", "told"}, failed : BOOLEAN]
  /\ flap \in Fed(pipe.sent) /\ AllSent(pipe.sent, pipe.wire) /\ Len(flap.cells) <= Capacity
  /\ FlapsKept(pipe.sent, flap, pipe.wire, sock # "NOTCONNECTED")
  /\ NoneWaits(pipe.sent, flap)
  /\ LossIsTold

LEMMA NothingRuns ==
  /\ NoFlap \in Fed(<<>>) /\ AllSent(<<>>, <<>>) /\ Len(NoFlap.cells) <= Capacity
  /\ \A up : FlapsKept(<<>>, NoFlap, <<>>, up)
  /\ NoneWaits(<<>>, NoFlap)
<1> DEFINE none == <<>>
<1>1. none \in Seq(FlapCell) /\ none \in Seq(Seq(FlapCell)) /\ Len(none) = 0 /\ none \o none = none /\ DOMAIN none = {}
  OBVIOUS
<1>2. NoFlap.cells = none /\ NoFlap.taken = none /\ NoFlap.short = FALSE /\ NoFlap \in FlapBuffer
  BY <1>1 DEF NoFlap, FlapBuffer
<1> HIDE DEF none
<1>3. AllSent(none, none)
  BY <1>1 DEF AllSent
<1>4. Capacity \in Nat /\ Capacity > 0
  BY LuaSocketsAssumption
<1>5. Whole(none, none) = 0
  BY <1>1 DEF Whole
<1>6. NoneWaits(none, NoFlap)
  BY <1>1, <1>2, <1>4, <1>5 DEF NoneWaits
<1>7. Runs(none, 0, none) /\ ToTheEnd(none, 0, none)
  BY <1>1 DEF Runs, ToTheEnd
<1>8. InOrder(none, NoFlap, none) /\ Unbroken(none, NoFlap, none)
  BY <1>1, <1>2, <1>7 DEF InOrder, Unbroken
<1>9. \A up : FlapsKept(none, NoFlap, none, up)
  BY <1>8, Zenon DEF FlapsKept
<1>10. NoFlap \in Fed(none)
  BY <1>2, <1>3 DEF Fed
<1> QED
  BY <1>1, <1>2, <1>3, <1>4, <1>6, <1>9, <1>10 DEF none

LEMMA SocketsBegin == SocketsInit => SocketsInv
<1> SUFFICES ASSUME SocketsInit PROVE SocketsInv
  OBVIOUS
<1>1. sock = "NOTCONNECTED" /\ pipe = NoPipe /\ flap = NoFlap
  BY DEF SocketsInit
<1>2. driven = [session |-> "off", lost |-> "none", failed |-> FALSE]
  BY DEF SocketsInit
<1>3. pipe \in [sent : Seq(Lengths), wire : Seq(FlapCell), open : BOOLEAN] /\ pipe.sent = <<>> /\ pipe.wire = <<>>
  BY <1>1 DEF NoPipe
<1>4. LossIsTold
  BY <1>1, <1>2 DEF LossIsTold
<1>5. driven \in [session : {"off", "up"}, lost : {"none", "never", "silent", "told"}, failed : BOOLEAN]
  BY <1>2
<1> QED
  BY <1>1, <1>3, <1>4, <1>5, NothingRuns DEF SocketsInv, SockStates

LEMMA SocketsRest == SocketsInv /\ UNCHANGED socketVars => SocketsInv'
<1> SUFFICES ASSUME SocketsInv, UNCHANGED socketVars PROVE SocketsInv'
  OBVIOUS
<1> QED
  BY DEF SocketsInv, LossIsTold, socketVars

(* What is under way is lost with the connection. *)
LEMMA WireDrops ==
  ASSUME NEW sent \in Seq(Lengths), NEW f \in Fed(sent), NEW wire \in Seq(FlapCell), NEW up,
         FlapsKept(sent, f, wire, up)
  PROVE  AllSent(sent, <<>>) /\ FlapsKept(sent, f, <<>>, FALSE)
<1> DEFINE c == f.cells
           none == <<>>
           v == c \o none
<1>1. none \in Seq(FlapCell) /\ Len(none) = 0
  OBVIOUS
<1>2. c \in Seq(FlapCell)
  BY DEF Fed, FlapBuffer
<1>3. AllSent(sent, none)
  BY <1>1 DEF AllSent
<1>4. CASE f.short
  BY <1>3, <1>4, Zenon DEF FlapsKept
<1>5. CASE ~f.short
  <2>1. InOrder(sent, f, wire)
    BY <1>5, Zenon DEF FlapsKept
  <2>2. Runs(sent, Len(f.taken), c)
    <3>1. Runs(sent, Len(f.taken), c \o wire)
      BY <2>1, Zenon DEF InOrder
    <3> HIDE DEF c
    <3> QED
      BY <1>2, <3>1, RunsCut
  <2>3. v = c
    <3>1. v \in Seq(FlapCell) /\ Len(v) = Len(c) + Len(none) /\ \A i \in 1..Len(c) : v[i] = c[i]
      BY <1>1, <1>2, JoinedAre, Zenon
    <3> HIDE DEF v, c, none
    <3> QED
      BY <3>1, <1>1, <1>2
  <2>4. Runs(sent, Len(f.taken), v)
    BY <2>2, <2>3
  <2>5. InOrder(sent, f, none)
    <3>1. Runs(sent, Len(f.taken), f.cells \o none)
      BY <2>4
    <3> HIDE DEF none
    <3> QED
      BY <2>1, <3>1, Zenon DEF InOrder
  <2> HIDE DEF none
  <2>6. FlapsKept(sent, f, none, FALSE)
    BY <2>5, Zenon DEF FlapsKept
  <2> QED
    BY <1>3, <2>6 DEF none
<1> QED
  BY <1>4, <1>5

(* The connection goes, and whatever is under way with it. *)
LEMMA SocketDrops ==
  ASSUME SocketsInv, sock' = "NOTCONNECTED",
         pipe' = [sent |-> pipe.sent, wire |-> <<>>, open |-> FALSE],
         flap' \in Fed(pipe.sent), Len(flap'.cells) <= Capacity,
         NEW more \in Seq(FlapCell), NEW up, FlapsKept(pipe.sent, flap', more, up),
         NoneWaits(pipe.sent, flap'),
         driven' \in [session : {"off", "up"}, lost : {"none", "never", "silent", "told"}, failed : BOOLEAN],
         driven'.session = "off" \/ driven'.lost = "silent"
  PROVE  SocketsInv'
<1>1. pipe.sent \in Seq(Lengths)
  BY DEF SocketsInv
<1>2. pipe'.sent = pipe.sent /\ pipe'.wire = <<>> /\ pipe' \in [sent : Seq(Lengths), wire : Seq(FlapCell), open : BOOLEAN]
  BY <1>1
<1>3. AllSent(pipe.sent, <<>>) /\ FlapsKept(pipe.sent, flap', <<>>, FALSE)
  BY <1>1, WireDrops, Zenon
<1>4. FlapsKept(pipe.sent, flap', <<>>, sock' # "NOTCONNECTED")
  BY <1>3, Zenon DEF FlapsKept
<1>5. LossIsTold'
  BY DEF LossIsTold
<1>6. sock' \in SockStates
  BY DEF SockStates
<1> QED
  BY <1>2, <1>3, <1>4, <1>5, <1>6 DEF SocketsInv

LEMMA CleanUpKeeps == SocketsInv /\ CleanUp => SocketsInv'
<1> SUFFICES ASSUME SocketsInv, CleanUp PROVE SocketsInv'
  OBVIOUS
<1>1. sock' = "NOTCONNECTED" /\ flap' = flap
  BY DEF CleanUp
<1>2. pipe' = [sent |-> pipe.sent, wire |-> <<>>, open |-> FALSE]
  BY DEF CleanUp, SocketsInv
<1>3. /\ driven' \in [session : {"off", "up"}, lost : {"none", "never", "silent", "told"}, failed : BOOLEAN]
      /\ driven'.session = "off"
  BY DEF CleanUp, SocketsInv
<1>4. /\ pipe.wire \in Seq(FlapCell) /\ flap' \in Fed(pipe.sent) /\ Len(flap'.cells) <= Capacity
      /\ FlapsKept(pipe.sent, flap', pipe.wire, sock # "NOTCONNECTED") /\ NoneWaits(pipe.sent, flap')
  BY <1>1 DEF SocketsInv
<1> QED
  BY <1>1, <1>2, <1>3, <1>4, SocketDrops

LEMMA AttemptKeeps ==
  ASSUME SocketsInv, NEW how \in Outcomes, Attempt(how)
  PROVE  SocketsInv'
<1>1. driven \in [session : {"off", "up"}, lost : {"none", "never", "silent", "told"}, failed : BOOLEAN] /\ driven.session = "off"
  BY DEF SocketsInv, Attempt
<1>2. flap' = NoFlap
  BY DEF Attempt
<1>3. /\ sock' \in SockStates /\ pipe' \in [sent : Seq(Lengths), wire : Seq(FlapCell), open : BOOLEAN]
      /\ pipe'.sent = <<>> /\ pipe'.wire = <<>>
      /\ driven' \in [session : {"off", "up"}, lost : {"none", "never", "silent", "told"}, failed : BOOLEAN]
      /\ LossIsTold'
  <2>1. CASE how = "pending"
    <3>1. sock' = "WAITING_SYNACK" /\ pipe' = [sent |-> <<>>, wire |-> <<>>, open |-> TRUE]
      BY <2>1 DEF Attempt, NoPipe
    <3>2. driven' = [driven EXCEPT !.session = "up", !.lost = "none"]
      BY <2>1 DEF Attempt
    <3>3. driven'.session = "up" /\ driven'.lost = "none"
      BY <3>2, <1>1
    <3>4. driven' \in [session : {"off", "up"}, lost : {"none", "never", "silent", "told"}, failed : BOOLEAN]
      BY <3>2, <1>1
    <3>5. LossIsTold'
      BY <3>1, <3>3 DEF LossIsTold
    <3>6. /\ pipe' \in [sent : Seq(Lengths), wire : Seq(FlapCell), open : BOOLEAN]
          /\ pipe'.sent = <<>> /\ pipe'.wire = <<>>
      BY <3>1
    <3> QED
      BY <3>1, <3>4, <3>5, <3>6 DEF SockStates
  <2>2. CASE how = "unresolved"
    <3>1. sock' = "NOTCONNECTED" /\ pipe' = [sent |-> <<>>, wire |-> <<>>, open |-> FALSE]
      BY <2>2 DEF Attempt, NoPipe
    <3>2. driven' = [driven EXCEPT !.session = "up", !.lost = "never"]
      BY <2>2 DEF Attempt
    <3>3. driven'.session = "up" /\ driven'.lost = "never"
      BY <3>2, <1>1
    <3>4. driven' \in [session : {"off", "up"}, lost : {"none", "never", "silent", "told"}, failed : BOOLEAN]
      BY <3>2, <1>1
    <3>5. LossIsTold'
      BY <3>1, <3>3 DEF LossIsTold
    <3>6. /\ pipe' \in [sent : Seq(Lengths), wire : Seq(FlapCell), open : BOOLEAN]
          /\ pipe'.sent = <<>> /\ pipe'.wire = <<>>
      BY <3>1
    <3> QED
      BY <3>1, <3>4, <3>5, <3>6 DEF SockStates
  <2>3. CASE how = "refused"
    <3>1. sock' = "NOTCONNECTED" /\ pipe' = [sent |-> <<>>, wire |-> <<>>, open |-> FALSE]
      BY <2>3 DEF Attempt, NoPipe
    <3>2. driven' = [driven EXCEPT !.failed = TRUE]
      BY <2>3 DEF Attempt
    <3>3. driven'.session = "off"
      BY <3>2, <1>1
    <3>4. driven' \in [session : {"off", "up"}, lost : {"none", "never", "silent", "told"}, failed : BOOLEAN]
      BY <3>2, <1>1
    <3>5. LossIsTold'
      BY <3>1, <3>3 DEF LossIsTold
    <3>6. /\ pipe' \in [sent : Seq(Lengths), wire : Seq(FlapCell), open : BOOLEAN]
          /\ pipe'.sent = <<>> /\ pipe'.wire = <<>>
      BY <3>1
    <3> QED
      BY <3>1, <3>4, <3>5, <3>6 DEF SockStates
  <2> QED
    BY <2>1, <2>2, <2>3 DEF Outcomes
<1> QED
  BY <1>2, <1>3, NothingRuns DEF SocketsInv

(* The first n cells of what is under way, x, move behind what is in the buffer. *)
Passes(c, w, n, x, y) ==
  /\ x \in Seq(FlapCell) /\ y \in Seq(FlapCell) /\ c \o x \in Seq(FlapCell)
  /\ Len(c \o x) = Len(c) + n /\ (c \o x) \o y = c \o w

LEMMA CutPasses ==
  ASSUME NEW c \in Seq(FlapCell), NEW w \in Seq(FlapCell), NEW n \in 1..Len(w)
  PROVE  Passes(c, w, n, SubSeq(w, 1, n), SubSeq(w, n + 1, Len(w)))
<1> DEFINE x == SubSeq(w, 1, n)
           y == SubSeq(w, n + 1, Len(w))
<1>1. /\ x \in Seq(FlapCell) /\ Len(x) = n /\ \A i \in 1..n : x[i] = w[i]
  OBVIOUS
<1>2. /\ y \in Seq(FlapCell) /\ Len(y) = Len(w) - n /\ \A i \in 1..(Len(w) - n) : y[i] = w[n + i]
  OBVIOUS
<1> HIDE DEF x, y
<1>3. x \o y = w
  <2> DEFINE z == x \o y
  <2>1. /\ z \in Seq(FlapCell) /\ Len(z) = Len(w)
        /\ (\A i \in 1..n : z[i] = x[i]) /\ \A i \in 1..(Len(w) - n) : z[n + i] = y[i]
    <3>1. /\ z \in Seq(FlapCell) /\ Len(z) = Len(x) + Len(y)
          /\ (\A i \in 1..Len(x) : z[i] = x[i]) /\ \A i \in 1..Len(y) : z[Len(x) + i] = y[i]
      BY <1>1, <1>2, JoinedAre, Zenon
    <3> HIDE DEF z
    <3>2. n + (Len(w) - n) = Len(w)
      OBVIOUS
    <3> QED
      BY <3>1, <3>2, <1>1, <1>2
  <2> HIDE DEF z
  <2>2. ASSUME NEW i \in 1..Len(w) PROVE z[i] = w[i]
    <3>1. CASE i \in 1..n
      BY <3>1, <2>1, <1>1
    <3>2. CASE i \notin 1..n
      <4> DEFINE j == i - n
      <4>1. j \in 1..(Len(w) - n) /\ i = n + j
        BY <3>2
      <4> HIDE DEF j
      <4>2. z[n + j] = y[j] /\ y[j] = w[n + j]
        BY <4>1, <2>1, <1>2
      <4> QED
        BY <4>1, <4>2
    <3> QED
      BY <3>1, <3>2
  <2>3. z = w
    BY <2>1, <2>2
  <2> QED
    BY <2>3 DEF z
<1>4. c \o x \in Seq(FlapCell) /\ Len(c \o x) = Len(c) + n
  BY <1>1
<1>5. (c \o x) \o y = c \o (x \o y)
  BY <1>1, <1>2, JoinsOn
<1>6. (c \o x) \o y = c \o w
  BY <1>3, <1>5
<1>7. Passes(c, w, n, x, y)
  BY <1>1, <1>2, <1>4, <1>6, Zenon DEF Passes
<1> QED
  BY <1>7 DEF x, y

LEMMA ReadKeeps ==
  ASSUME SocketsInv, NEW n \in 1..Capacity, NEW fails \in BOOLEAN, ReadSocket(n, fails)
  PROVE  SocketsInv'
<1> DEFINE sent == pipe.sent
           w == pipe.wire
           c == flap.cells
           x == SubSeq(w, 1, n)
           y == SubSeq(w, n + 1, Len(w))
           f == [flap EXCEPT !.cells = c \o x]
           got == NewData(sent, f)
           rest == [pipe EXCEPT !.wire = y]
<1>1. /\ pipe \in [sent : Seq(Lengths), wire : Seq(FlapCell), open : BOOLEAN]
      /\ sent \in Seq(Lengths) /\ w \in Seq(FlapCell) /\ flap \in Fed(sent) /\ AllSent(sent, w)
      /\ FlapsKept(sent, flap, w, sock # "NOTCONNECTED")
  BY DEF SocketsInv
<1>2. /\ sock = "ACTIVE" /\ n \in 1..Len(w) /\ n <= Capacity - Len(c) /\ flap' = got
      /\ fails => FailsToSend(rest)
      /\ ~fails => pipe' = rest /\ UNCHANGED <<sock, driven>>
  <2>1. Watched = "read"
    BY DEF ReadSocket
  <2>2. sock = "ACTIVE"
    BY <2>1 DEF Watched, SocketsInv, SockStates
  <2> QED
    BY <2>2 DEF ReadSocket
<1>3. flap \in FlapBuffer /\ c \in Seq(FlapCell) /\ AllSent(sent, c) /\ Len(c) \in Nat
  BY <1>1 DEF Fed, FlapBuffer
<1>4. Capacity \in Nat
  BY LuaSocketsAssumption
<1> HIDE DEF sent, w, c, x, y
<1>5. /\ x \in Seq(FlapCell) /\ y \in Seq(FlapCell) /\ c \o x \in Seq(FlapCell)
      /\ Len(c \o x) = Len(c) + n /\ (c \o x) \o y = c \o w
  <2>1. Passes(c, w, n, x, y)
    BY <1>1, <1>2, <1>3, CutPasses, Zenon DEF x, y
  <2> QED
    BY <2>1, Zenon DEF Passes
<1>6. AllSent(sent, c \o x) /\ AllSent(sent, y)
  <2>1. AllSent(sent, c \o w)
    BY <1>1, <1>3, AllSentBoth
  <2> DEFINE z == c \o x
  <2>2. AllSent(sent, z \o y) /\ z \in Seq(FlapCell)
    BY <2>1, <1>5
  <2> HIDE DEF z
  <2>3. AllSent(sent, z) /\ AllSent(sent, y)
    BY <2>2, <1>5, AllSentBoth
  <2> QED
    BY <2>3 DEF z
<1> DEFINE z == c \o x
<1>7. /\ f \in FlapBuffer /\ f.cells = z /\ f.taken = flap.taken /\ f.short = flap.short
  <2>1. f = [flap EXCEPT !.cells = z]
    OBVIOUS
  <2>2. z \in Seq(FlapCell)
    BY <1>5
  <2> HIDE DEF z, f
  <2> QED
    BY <2>1, <2>2, <1>3 DEF FlapBuffer
<1>8. f \in Fed(sent)
  BY <1>6, <1>7 DEF Fed
<1>9. Len(f.cells) <= Capacity
  <2>1. Len(z) <= Capacity
    <3>1. Len(z) = Len(c) + n /\ n \in Nat /\ n <= Capacity - Len(c)
      BY <1>2, <1>5
    <3> HIDE DEF z
    <3> QED
      BY <3>1, <1>3, <1>4
  <2> QED
    BY <2>1, <1>7
<1>10. FlapsKept(sent, f, y, TRUE)
  <2>1. z \o y = c \o w
    BY <1>5
  <2> HIDE DEF z, f
  <2>2. CASE flap.short
    BY <2>2, <1>7, Zenon DEF FlapsKept
  <2>3. CASE ~flap.short
    <3>1. InOrder(sent, flap, w) /\ Unbroken(sent, flap, w)
      <4>1. sock # "NOTCONNECTED"
        BY <1>2
      <4> QED
        BY <2>3, <4>1, <1>1, Zenon DEF FlapsKept
    <3>2. InOrder(sent, f, y)
      BY <3>1, <2>1, <1>7, Zenon DEF InOrder, c
    <3>3. Unbroken(sent, f, y)
      BY <3>1, <2>1, <1>7, Zenon DEF Unbroken, c
    <3> QED
      BY <3>2, <3>3, Zenon DEF FlapsKept
  <2> QED
    BY <2>2, <2>3
<1> HIDE DEF f, z
<1>11. /\ got \in Fed(sent) /\ Len(got.cells) <= Capacity
       /\ FlapsKept(sent, got, y, TRUE) /\ Finished(sent, got)
  BY <1>1, <1>5, <1>6, <1>8, <1>9, <1>10, NewDataHas
<1> HIDE DEF got
<1>12. NoneWaits(sent, got)
  BY <1>1, <1>5, <1>6, <1>11, FinishedWaits
<1>13. CASE fails
  <2>1. sock' = "NOTCONNECTED" /\ pipe' = [rest EXCEPT !.open = FALSE, !.wire = <<>>]
        /\ driven' = [driven EXCEPT !.lost = "silent"]
    BY <1>2, <1>13 DEF FailsToSend
  <2>2. pipe' = [sent |-> pipe.sent, wire |-> <<>>, open |-> FALSE]
    BY <2>1, <1>1
  <2>3. /\ driven' \in [session : {"off", "up"}, lost : {"none", "never", "silent", "told"}, failed : BOOLEAN]
        /\ driven'.lost = "silent"
    BY <2>1 DEF SocketsInv
  <2> QED
    BY <2>1, <2>2, <2>3, <1>2, <1>5, <1>11, <1>12, SocketDrops DEF sent
<1>14. CASE ~fails
  <2>1. pipe' = rest /\ sock' = sock /\ driven' = driven /\ flap' = got
    BY <1>2, <1>14
  <2>2. pipe'.sent = sent /\ pipe'.wire = y /\ pipe' \in [sent : Seq(Lengths), wire : Seq(FlapCell), open : BOOLEAN]
    <3> HIDE DEF y
    <3> QED
      BY <2>1, <1>1, <1>5 DEF sent
  <2>3. FlapsKept(sent, got, y, sock' # "NOTCONNECTED")
    BY <1>11, Zenon DEF FlapsKept
  <2>4. LossIsTold'
    BY <2>1 DEF LossIsTold, SocketsInv
  <2>5. /\ sock' \in SockStates
        /\ driven' \in [session : {"off", "up"}, lost : {"none", "never", "silent", "told"}, failed : BOOLEAN]
    BY <2>1 DEF SocketsInv
  <2>6. flap' \in Fed(pipe'.sent) /\ AllSent(pipe'.sent, pipe'.wire) /\ Len(flap'.cells) <= Capacity
    BY <2>1, <2>2, <1>6, <1>11
  <2>7. FlapsKept(pipe'.sent, flap', pipe'.wire, sock' # "NOTCONNECTED") /\ NoneWaits(pipe'.sent, flap')
    BY <2>1, <2>2, <2>3, <1>12
  <2> QED
    BY <2>2, <2>4, <2>5, <2>6, <2>7 DEF SocketsInv
<1> QED
  BY <1>13, <1>14

(* What a FLAP that was sent is does not change when another one is. *)
LEMMA SentStays ==
  ASSUME NEW sent \in Seq(Lengths), NEW more \in Seq(Lengths), Len(more) = Len(sent) + 1,
         \A i \in 1..Len(sent) : more[i] = sent[i]
  PROVE  /\ \A k \in 1..Len(sent) : Cells(more, k) = Cells(sent, k)
         /\ \A c \in Seq(FlapCell) : AllSent(sent, c) => Whole(more, c) = Whole(sent, c)
<1>1. \A k \in 1..Len(sent) : Cells(more, k) = Cells(sent, k)
  BY DEF Cells
<1>2. ASSUME NEW c \in Seq(FlapCell), AllSent(sent, c) PROVE Whole(more, c) = Whole(sent, c)
  <2>1. CASE Len(c) < 2 \/ c[1].at # 1
    BY <2>1 DEF Whole
  <2>2. CASE ~(Len(c) < 2 \/ c[1].at # 1)
    <3>1. 2 \in 1..Len(c)
      BY <2>2
    <3>2. c[2].flap \in 1..Len(sent)
      BY <3>1, <1>2 DEF AllSent
    <3>3. more[c[2].flap] = sent[c[2].flap]
      BY <3>2
    <3> QED
      BY <3>3, Zenon DEF Whole
  <2> QED
    BY <2>1, <2>2
<1> QED
  BY <1>1, <1>2

LEMMA SendKeeps ==
  ASSUME SocketsInv, NEW n \in Lengths, ServerSends(n)
  PROVE  SocketsInv'
<1> DEFINE sent == pipe.sent
           w == pipe.wire
           c == flap.cells
           more == Append(sent, n)
           x == Cells(more, Len(more))
           k == Len(flap.taken)
<1>1. /\ pipe \in [sent : Seq(Lengths), wire : Seq(FlapCell), open : BOOLEAN]
      /\ sent \in Seq(Lengths) /\ w \in Seq(FlapCell) /\ flap \in Fed(sent) /\ AllSent(sent, w)
      /\ FlapsKept(sent, flap, w, sock # "NOTCONNECTED") /\ NoneWaits(sent, flap) /\ Len(c) <= Capacity
  BY DEF SocketsInv
<1>2. /\ sock = "ACTIVE" /\ pipe' = [pipe EXCEPT !.sent = more, !.wire = w \o x]
      /\ sock' = sock /\ flap' = flap /\ driven' = driven
  BY DEF ServerSends
<1>3. flap \in FlapBuffer /\ c \in Seq(FlapCell) /\ AllSent(sent, c) /\ k \in Nat
  BY <1>1 DEF Fed, FlapBuffer
<1> HIDE DEF sent, w, c
<1>4. more \in Seq(Lengths) /\ Len(more) = Len(sent) + 1 /\ \A i \in 1..Len(sent) : more[i] = sent[i]
  BY <1>1
<1> HIDE DEF more
<1>5. /\ \A i \in 1..Len(sent) : Cells(more, i) = Cells(sent, i)
      /\ Whole(more, c) = Whole(sent, c)
  BY <1>1, <1>3, <1>4, SentStays
<1>6. x \in Seq(FlapCell) /\ AllSent(more, x)
  <2>1. Len(more) \in 1..Len(more) /\ more[Len(more)] \in Nat
    <3>1. Len(more) \in 1..Len(more)
      BY <1>1, <1>4
    <3> QED
      BY <3>1, <1>4, SentAre
  <2>2. x \in Seq(FlapCell) /\ Len(x) = more[Len(more)] /\ \A i \in 1..more[Len(more)] : x[i] = At(Len(more), i)
    BY <2>1, <1>4, CellsAre
  <2> HIDE DEF x
  <2>3. AllSent(more, x)
    BY <2>1, <2>2, AtIs DEF AllSent
  <2> QED
    BY <2>2, <2>3
<1>7. AllSent(more, c) /\ AllSent(more, w)
  <2>1. \A i \in 1..Len(sent) : i \in 1..Len(more) /\ more[i] = sent[i]
    BY <1>1, <1>4
  <2> QED
    BY <2>1, <1>1, <1>3, Zenon DEF AllSent
<1> HIDE DEF x
<1>8. w \o x \in Seq(FlapCell) /\ AllSent(more, w \o x)
  <2>1. w \o x \in Seq(FlapCell)
    BY <1>1, <1>6
  <2> QED
    BY <2>1, <1>1, <1>6, <1>7, AllSentBoth
<1>9. FlapsKept(more, flap, w \o x, TRUE)
  <2>1. CASE flap.short
    BY <2>1, Zenon DEF FlapsKept
  <2>2. CASE ~flap.short
    <3> DEFINE u == c \o w
    <3>1. InOrder(sent, flap, w) /\ Unbroken(sent, flap, w)
      <4>1. sock # "NOTCONNECTED"
        BY <1>2
      <4> QED
        BY <2>2, <4>1, <1>1, Zenon DEF FlapsKept
    <3>2. Runs(sent, k, u) /\ ToTheEnd(sent, k, u) /\ k <= Len(sent) /\ \A i \in DOMAIN flap.taken : flap.taken[i] = Cells(sent, i)
      BY <3>1, Zenon DEF InOrder, Unbroken, c
    <3>3. u \in Seq(FlapCell) /\ AllSent(sent, u)
      <4>1. u \in Seq(FlapCell)
        BY <1>1, <1>3
      <4> QED
        BY <4>1, <1>1, <1>3, AllSentBoth
    <3>4. u \o x = c \o (w \o x)
      BY <1>1, <1>3, <1>6, JoinsOn
    <3> HIDE DEF u
    <3>5. Runs(more, k, u \o x) /\ ToTheEnd(more, k, u \o x)
      <4>1. x = Cells(more, Len(more))
        BY DEF x
      <4> HIDE DEF k
      <4> QED
        BY <4>1, <3>2, <3>3, <1>1, <1>3, <1>4, <1>6, RunsSent
    <3>6. \A i \in DOMAIN flap.taken : flap.taken[i] = Cells(more, i)
      <4>1. DOMAIN flap.taken = 1..k
        BY <1>3 DEF FlapBuffer
      <4>2. \A i \in 1..k : i \in 1..Len(sent)
        <5>1. Len(sent) \in Nat
          BY <1>1
        <5> HIDE DEF k
        <5> QED
          BY <5>1, <3>2, <1>3
      <4> QED
        BY <4>1, <4>2, <3>2, <1>5, Zenon
    <3>7. k <= Len(more)
      <4>1. Len(sent) \in Nat
        BY <1>1
      <4> HIDE DEF k
      <4> QED
        BY <4>1, <3>2, <1>3, <1>4
    <3>8. InOrder(more, flap, w \o x) /\ Unbroken(more, flap, w \o x)
      BY <3>4, <3>5, <3>6, <3>7, Zenon DEF InOrder, Unbroken, c
    <3> QED
      BY <3>8, Zenon DEF FlapsKept
  <2> QED
    BY <2>1, <2>2
<1>10. NoneWaits(more, flap)
  BY <1>1, <1>5, Zenon DEF NoneWaits, c
<1> DEFINE v == w \o x
<1>11. /\ pipe' \in [sent : Seq(Lengths), wire : Seq(FlapCell), open : BOOLEAN]
       /\ pipe'.sent = more /\ pipe'.wire = v
  <2>1. pipe' = [pipe EXCEPT !.sent = more, !.wire = v] /\ v \in Seq(FlapCell)
    BY <1>2, <1>8
  <2> HIDE DEF v
  <2> QED
    BY <2>1, <1>1, <1>4
<1>12. flap \in Fed(more)
  BY <1>3, <1>7 DEF Fed, c
<1>13. FlapsKept(more, flap, v, sock' # "NOTCONNECTED") /\ AllSent(more, v)
  BY <1>8, <1>9, Zenon DEF FlapsKept
<1>14. LossIsTold'
  BY <1>2 DEF LossIsTold, SocketsInv
<1> HIDE DEF v
<1> QED
  BY <1>1, <1>2, <1>10, <1>11, <1>12, <1>13, <1>14 DEF SocketsInv, c

LEMMA SocketsSteps == SocketsInv /\ SocketsNext => SocketsInv'
<1> SUFFICES ASSUME SocketsInv, SocketsNext PROVE SocketsInv'
  OBVIOUS
<1>1. ASSUME NEW how \in Outcomes, Attempt(how) PROVE SocketsInv'
  BY <1>1, AttemptKeeps
<1>2. ASSUME NEW ok \in BOOLEAN, Answered(ok) PROVE SocketsInv'
  <2>1. CASE ok
    <3>1. sock' = "ACTIVE" /\ pipe' = pipe /\ flap' = flap /\ driven' = driven
      BY <1>2, <2>1 DEF Answered
    <3>2. sock # "NOTCONNECTED"
      BY <1>2 DEF Answered, Watched
    <3>3. FlapsKept(pipe.sent, flap, pipe.wire, sock # "NOTCONNECTED")
      BY DEF SocketsInv
    <3>4. FlapsKept(pipe.sent, flap, pipe.wire, sock' # "NOTCONNECTED")
      BY <3>2, <3>3, Zenon DEF FlapsKept
    <3>5. LossIsTold'
      BY <3>1, <3>2 DEF LossIsTold, SocketsInv
    <3>6. sock' \in SockStates
      BY <3>1 DEF SockStates
    <3> QED
      BY <3>1, <3>4, <3>5, <3>6 DEF SocketsInv
  <2>2. CASE ~ok
    BY <1>2, <2>2, CleanUpKeeps DEF Answered
  <2> QED
    BY <2>1, <2>2
<1>3. ASSUME NEW ok \in BOOLEAN, SayMore(ok) PROVE SocketsInv'
  <2>1. CASE ok
    <3>1. /\ sock' = "NOTCONNECTED" /\ pipe' = [pipe EXCEPT !.open = FALSE, !.wire = <<>>]
          /\ driven' = [driven EXCEPT !.lost = "silent"] /\ flap' = flap
      BY <1>3, <2>1 DEF SayMore, FailsToSend
    <3>2. pipe' = [sent |-> pipe.sent, wire |-> <<>>, open |-> FALSE]
      BY <3>1 DEF SocketsInv
    <3>3. /\ driven' \in [session : {"off", "up"}, lost : {"none", "never", "silent", "told"}, failed : BOOLEAN]
          /\ driven'.lost = "silent"
      BY <3>1 DEF SocketsInv
    <3>4. /\ pipe.wire \in Seq(FlapCell) /\ flap' \in Fed(pipe.sent) /\ Len(flap'.cells) <= Capacity
          /\ FlapsKept(pipe.sent, flap', pipe.wire, sock # "NOTCONNECTED") /\ NoneWaits(pipe.sent, flap')
      BY <3>1 DEF SocketsInv
    <3> QED
      BY <3>1, <3>2, <3>3, <3>4, SocketDrops
  <2>2. CASE ~ok
    <3>1. UNCHANGED socketVars
      BY <1>3, <2>2 DEF SayMore
    <3> QED
      BY <3>1, SocketsRest
  <2> QED
    BY <2>1, <2>2
<1>4. ASSUME NEW n \in 1..Capacity, NEW fails \in BOOLEAN, ReadSocket(n, fails) PROVE SocketsInv'
  BY <1>4, ReadKeeps
<1>5. ASSUME NEW n \in Lengths, ServerSends(n) PROVE SocketsInv'
  BY <1>5, SendKeeps
<1>6. CASE Leave \/ Exceptional \/ ReadNothing
  BY <1>6, CleanUpKeeps DEF Leave, Exceptional, ReadNothing
<1>7. CASE ServerCloses
  <2>1. pipe' = [pipe EXCEPT !.open = FALSE] /\ sock' = sock /\ flap' = flap /\ driven' = driven
    BY <1>7 DEF ServerCloses
  <2>2. /\ pipe' \in [sent : Seq(Lengths), wire : Seq(FlapCell), open : BOOLEAN]
        /\ pipe'.sent = pipe.sent /\ pipe'.wire = pipe.wire
    BY <2>1 DEF SocketsInv
  <2>3. LossIsTold'
    BY <2>1 DEF LossIsTold, SocketsInv
  <2> QED
    BY <2>1, <2>2, <2>3 DEF SocketsInv
<1> QED
  BY <1>1, <1>2, <1>3, <1>4, <1>5, <1>6, <1>7, Zenon DEF SocketsNext

LEMMA SocketsAre == SocketsInv => FlapsInOrder /\ NoFlapWaits /\ LossIsTold
<1> SUFFICES ASSUME SocketsInv PROVE FlapsInOrder /\ NoFlapWaits
  BY DEF SocketsInv
<1>1. FlapsInOrder
  BY Zenon DEF SocketsInv, FlapsKept, InOrder, FlapsInOrder
<1>2. NoFlapWaits
  BY Zenon DEF SocketsInv, NoneWaits, NoFlapWaits
<1> QED
  BY <1>1, <1>2
=============================================================================

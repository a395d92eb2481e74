---------------------------- MODULE BlocksProofs ----------------------------
(***************************************************************************)
(* Theorems about Blocks, for any finite set of people, any network and    *)
(* any length of the batch: the last word on each is kept over sign-ons,   *)
(* over the three lists, and over what another client changes.             *)
(***************************************************************************)
EXTENDS Blocks, FiniteSetTheorems, TLAPS

-----------------------------------------------------------------------------
(* The batch as a set. *)

LEMMA SetToSeqIsAll ==
  ASSUME NEW S, IsFiniteSet(S)
  PROVE  SetToSeq(S) \in Seq(S) /\ ToSet(SetToSeq(S)) = S
<1> DEFINE n == Cardinality(S)
           Good(f) == f \in [1..n -> S] /\ IsInjective(f)
           s == CHOOSE f \in [1..n -> S] : IsInjective(f)
<1>1. n \in Nat /\ ExistsBijection(1..n, S)
  BY FS_CardinalityType
<1>2. PICK f : Good(f)
  BY <1>1 DEF ExistsBijection, Bijection, Injection
<1>3. s \in [1..n -> S] /\ IsInjective(s)
  BY <1>2
<1>4. IsFiniteSet(1..n) /\ Cardinality(1..n) = n
  <2>1. 1 \in Int /\ n \in Int
    BY <1>1
  <2> QED
    BY <1>1, <2>1, FS_Interval
<1> HIDE DEF s
<1>5. s \in Injection(1..n, S)
  BY <1>3 DEF Injection
<1>6. s \in Surjection(1..n, S)
  BY <1>4, <1>5, FS_Injection
<1>7. {s[i] : i \in DOMAIN s} = S
  BY <1>3, <1>6 DEF Surjection
<1>8. s \in Seq(S)
  BY <1>1, <1>3
<1> QED
  BY <1>7, <1>8 DEF SetToSeq, ToSet, s

LEMMA BatchSets ==
  ASSUME NEW s \in Seq(Pests), NEW p \in Pests
  PROVE  /\ ToSet(<<>>) = {}
         /\ Append(s, p) \in Seq(Pests)
         /\ ToSet(Append(s, p)) = ToSet(s) \cup {p}
         /\ s = <<>> => ToSet(s) = {}
<1>1. DOMAIN Append(s, p) = 1..(Len(s) + 1)
  OBVIOUS
<1>2. DOMAIN s = 1..Len(s) /\ Len(s) \in Nat
  OBVIOUS
<1>3. \A i \in 1..Len(s) : Append(s, p)[i] = s[i]
  OBVIOUS
<1>4. Append(s, p)[Len(s) + 1] = p
  OBVIOUS
<1>5. ToSet(Append(s, p)) = ToSet(s) \cup {p}
  BY <1>1, <1>2, <1>3, <1>4 DEF ToSet
<1> QED
  BY <1>5 DEF ToSet

-----------------------------------------------------------------------------
(* The three properties speak of what is shown; that they last over a sign-on
   and over the batch needs what the three lists hold meanwhile. *)

Kept(p) ==
  /\ wish[p] = "none" =>
       /\ denied[p] = "none" /\ idiotar[p] = "none" /\ p \notin ToSet(denybuf)
       /\ online = "on" \/ network # "stored" => p \notin silenced
  /\ wish[p] = "blocked" =>
       /\ denied[p] # "none" /\ idiotar[p] # "none"
       /\ network = "stored" /\ online = "on" => p \in silenced \cup ToSet(denybuf)
  /\ wish[p] = "ignored" =>
       /\ idiotar[p] # "none"
       /\ p \notin undone => /\ denied[p] = "none"
                             /\ online = "on" => p \notin ToSet(denybuf)
                             /\ online = "on" \/ network # "stored" => p \notin silenced
  /\ wish[p] = "heard" =>
       /\ denied[p] = "none" => idiotar[p] = "none"
       /\ p \notin undone => /\ denied[p] = "none" /\ p \notin silenced
                             /\ online = "on" => p \notin ToSet(denybuf)
  /\ online # "on" => denied[p] # "uploaded"

BlocksInv == BlocksTypeOK /\ \A p \in Pests : Kept(p)

LEMMA BlocksInvInit == BlocksInit => BlocksInv
<1> SUFFICES ASSUME BlocksInit PROVE BlocksInv
  OBVIOUS
<1>1. BlocksTypeOK
  BY DEF BlocksInit, BlocksTypeOK
<1>2. \A p \in Pests : Kept(p)
  BY DEF BlocksInit, Kept, ToSet
<1> QED
  BY <1>1, <1>2 DEF BlocksInv

(* The operators on the lists, for one person. *)
LEMMA DenyEffects ==
  ASSUME BlocksInv, NEW p \in Pests
  PROVE  /\ FtAddDeny(p) =>
              /\ denied' = [denied EXCEPT ![p] = IF @ = "none" THEN "listed" ELSE @]
              /\ idiotar' = [idiotar EXCEPT ![p] = "block"]
              /\ presence' = presence \ {p}
              /\ denybuf' \in Seq(Pests) /\ silenced' \in {silenced, silenced \cup {p}}
              /\ ToSet(denybuf') = IF online = "on" /\ network = "stored"
                                   THEN ToSet(denybuf) \cup {p} ELSE ToSet(denybuf)
         /\ FtRemoveDeny(p) =>
              /\ denied' = [denied EXCEPT ![p] = "none"]
              /\ idiotar' = [idiotar EXCEPT ![p] = "none"]
              /\ silenced' \in {silenced, silenced \ {p}}
              /\ denied[p] # "none" => silenced' = silenced \ {p}
<1>t. BlocksTypeOK /\ denybuf \in Seq(Pests) /\ denied \in [Pests -> {"none", "listed", "uploaded"}]
      /\ idiotar \in [Pests -> {"none", "ignored", "block"}]
  BY DEF BlocksInv, BlocksTypeOK
<1>1. ASSUME FtAddDeny(p)
      PROVE  /\ denied' = [denied EXCEPT ![p] = IF @ = "none" THEN "listed" ELSE @]
             /\ idiotar' = [idiotar EXCEPT ![p] = "block"]
             /\ presence' = presence \ {p}
             /\ denybuf' \in Seq(Pests) /\ silenced' \in {silenced, silenced \cup {p}}
             /\ ToSet(denybuf') = IF online = "on" /\ network = "stored"
                                  THEN ToSet(denybuf) \cup {p} ELSE ToSet(denybuf)
  <2>1. InternalAddDeny({p}, FALSE)
    BY <1>1 DEF FtAddDeny
  <2>2. denied' = [denied EXCEPT ![p] = IF @ = "none" THEN "listed" ELSE @]
    BY <1>t, <2>1 DEF InternalAddDeny
  <2>3. idiotar' = [idiotar EXCEPT ![p] = "block"] /\ presence' = presence \ {p}
    BY <1>t, <2>1 DEF InternalAddDeny, RAddIdiot
  <2>4. CASE online = "on"
    <3>1. ImAddDeny(p)
      BY <1>1, <2>4 DEF FtAddDeny
    <3> QED
      BY <1>t, <2>2, <2>3, <2>4, <3>1, BatchSets DEF ImAddDeny
  <2>5. CASE online # "on"
    <3>1. UNCHANGED <<denybuf, silenced>>
      BY <1>1, <2>5 DEF FtAddDeny
    <3> QED
      BY <1>t, <2>2, <2>3, <2>5, <3>1
  <2> QED
    BY <2>4, <2>5
<1>2. ASSUME FtRemoveDeny(p)
      PROVE  /\ denied' = [denied EXCEPT ![p] = "none"]
             /\ idiotar' = [idiotar EXCEPT ![p] = "none"]
             /\ silenced' \in {silenced, silenced \ {p}}
             /\ denied[p] # "none" => silenced' = silenced \ {p}
  BY <1>t, <1>2 DEF FtRemoveDeny, RDelIdiot, InternalRemoveDeny, ImRemoveDeny
<1> QED
  BY <1>1, <1>2

(* One person's part of a step; the others are left as they were. *)
LEMMA BlocksStep ==
  ASSUME BlocksInv, [BlocksNext]_blockVars
  PROVE  BlocksInv'
<1>t. /\ network \in NetworkKinds /\ online \in {"off", "signing", "on"}
      /\ idiotar \in [Pests -> {"none", "ignored", "block"}]
      /\ denied \in [Pests -> {"none", "listed", "uploaded"}]
      /\ denybuf \in Seq(Pests)
      /\ silenced \subseteq Pests /\ presence \subseteq Pests /\ undone \subseteq Pests
      /\ wish \in [Pests -> {"none", "ignored", "blocked", "heard"}]
  BY DEF BlocksInv, BlocksTypeOK
<1>k. \A q \in Pests : Kept(q)
  BY DEF BlocksInv
<1>1. ASSUME NEW p \in Pests, BlockHim(p) PROVE BlocksInv'
  <2>1. /\ denied' = [denied EXCEPT ![p] = IF @ = "none" THEN "listed" ELSE @]
        /\ idiotar' = [idiotar EXCEPT ![p] = "block"]
        /\ presence' = presence \ {p}
        /\ denybuf' \in Seq(Pests) /\ silenced' \in {silenced, silenced \cup {p}}
        /\ ToSet(denybuf') = IF online = "on" /\ network = "stored"
                             THEN ToSet(denybuf) \cup {p} ELSE ToSet(denybuf)
    BY <1>1, DenyEffects DEF BlockHim
  <2>2. /\ wish' = [wish EXCEPT ![p] = "blocked"] /\ undone' = undone \ {p}
        /\ UNCHANGED <<network, online>>
    BY <1>1 DEF BlockHim
  <2>3. BlocksTypeOK'
    BY <1>t, <2>1, <2>2 DEF BlocksTypeOK
  <2>4. ASSUME NEW q \in Pests PROVE Kept(q)'
    BY <1>t, <1>k, <2>1, <2>2 DEF Kept
  <2> QED
    BY <2>3, <2>4 DEF BlocksInv
<1>2. ASSUME NEW p \in Pests, UnblockHim(p) PROVE BlocksInv'
  <2>1. /\ idiotar' = [idiotar EXCEPT ![p] = "none"]
        /\ denied' \in {denied, [denied EXCEPT ![p] = "none"]}
        /\ silenced' \in {silenced, silenced \ {p}}
        /\ online = "on" => /\ denied' = [denied EXCEPT ![p] = "none"]
                            /\ denied[p] # "none" => silenced' = silenced \ {p}
        /\ online # "on" => UNCHANGED <<denied, silenced>>
    BY <1>2, DenyEffects DEF UnblockHim, RDelIdiot
  <2>2. /\ wish' = [wish EXCEPT ![p] = "heard"]
        /\ undone' = IF OutOfReach(p) THEN undone \cup {p} ELSE undone \ {p}
        /\ UNCHANGED <<network, online, denybuf, presence>>
    BY <1>2 DEF UnblockHim
  <2>3. BlocksTypeOK'
    BY <1>t, <2>1, <2>2 DEF BlocksTypeOK
  <2>4. ASSUME NEW q \in Pests PROVE Kept(q)'
    <3>1. CASE q = p
      <4>0. Kept(p) /\ wish'[p] = "heard" /\ online' = online /\ denybuf' = denybuf /\ idiotar'[p] = "none"
        BY <1>t, <1>k, <2>2, <2>1
      <4>1. ASSUME p \notin undone'
            PROVE  /\ denied'[p] = "none" /\ p \notin silenced'
                   /\ online = "on" => p \notin ToSet(denybuf)
        <5>1. ~OutOfReach(p)
          BY <2>2, <4>1
        <5>2. CASE online # "on"
          BY <2>1, <5>1, <5>2 DEF OutOfReach
        <5>3. CASE online = "on"
          <6>1. denied[p] = "none" => p \notin silenced
            BY <1>t, <4>0, <5>1, <5>3 DEF OutOfReach, Kept
          <6> QED
            BY <1>t, <2>1, <5>1, <5>3, <6>1 DEF OutOfReach
        <5> QED
          BY <5>2, <5>3
      <4>2. online # "on" => denied'[p] # "uploaded"
        BY <2>1, <4>0 DEF Kept
      <4> QED
        BY <3>1, <4>0, <4>1, <4>2 DEF Kept
    <3>2. CASE q # p
      BY <1>t, <1>k, <2>1, <2>2, <3>2 DEF Kept
    <3> QED
      BY <3>1, <3>2
  <2> QED
    BY <2>3, <2>4 DEF BlocksInv
<1>3. ASSUME NEW p \in Pests, IgnoreHim(p) PROVE BlocksInv'
  <2>1. /\ idiotar' = [idiotar EXCEPT ![p] = "ignored"]
        /\ wish' = [wish EXCEPT ![p] = IF wish[p] = "blocked" THEN "blocked" ELSE "ignored"]
        /\ UNCHANGED <<network, online, denied, denybuf, silenced, presence, undone>>
    BY <1>t, <1>3 DEF IgnoreHim, RAddIdiot
  <2>3. BlocksTypeOK'
    BY <1>t, <2>1 DEF BlocksTypeOK
  <2>4. ASSUME NEW q \in Pests PROVE Kept(q)'
    BY <1>t, <1>k, <2>1 DEF Kept
  <2> QED
    BY <2>3, <2>4 DEF BlocksInv
<1>4. CASE SignOn \/ (\E p \in Pests : Arrives(p)) \/ UNCHANGED blockVars
  <2>1. /\ online' \in {online, "signing"}
        /\ presence' \subseteq Pests
        /\ UNCHANGED <<network, idiotar, denied, denybuf, silenced, wish, undone>>
        /\ online' # online => online = "off"
    BY <1>t, <1>4 DEF SignOn, Arrives, blockVars
  <2>3. BlocksTypeOK'
    BY <1>t, <2>1 DEF BlocksTypeOK
  <2>4. ASSUME NEW q \in Pests PROVE Kept(q)'
    BY <1>t, <1>k, <2>1 DEF Kept
  <2> QED
    BY <2>3, <2>4 DEF BlocksInv
<1>5. CASE GotDenies
  <2>0. online = "signing" /\ online' = "on" /\ denybuf = <<>> /\ UNCHANGED <<network, silenced, undone>>
    BY <1>5 DEF GotDenies
  <2>e. ToSet(denybuf) = {}
    BY <2>0 DEF ToSet
  <2>1. CASE network = "stored"
    <3> DEFINE S == {p \in Pests : denied[p] = "listed" /\ p \notin silenced}
    <3>1. /\ denied' = [p \in Pests |-> IF p \in silenced \/ denied[p] # "none"
                                        THEN "uploaded" ELSE "none"]
          /\ idiotar' = [p \in Pests |-> IF p \in silenced THEN "block" ELSE idiotar[p]]
          /\ presence' = presence \ silenced
          /\ denybuf' = SetToSeq(S)
          /\ wish' = [p \in Pests |-> IF p \in silenced /\ wish[p] \in {"none", "ignored"}
                                      THEN "blocked" ELSE wish[p]]
      BY <1>5, <2>1 DEF GotDenies, RAddIdiot
    <3>2. IsFiniteSet(S)
      <4>1. S \in SUBSET Pests
        OBVIOUS
      <4> QED
        BY <4>1, BlocksAssumption, FS_Subset
    <3>3. denybuf' \in Seq(S) /\ ToSet(denybuf') = S
      BY <3>1, <3>2, SetToSeqIsAll
    <3>4. denybuf' \in Seq(Pests)
      BY <3>3
    <3>5. \A q \in Pests : q \in ToSet(denybuf') <=> denied[q] = "listed" /\ q \notin silenced
      BY <3>3
    <3> HIDE DEF S
    <3>6. BlocksTypeOK'
      BY <1>t, <2>0, <3>1, <3>4 DEF BlocksTypeOK
    <3>7. ASSUME NEW q \in Pests PROVE Kept(q)'
      <4>1. CASE q \in silenced
        BY <1>t, <1>k, <2>0, <2>1, <2>e, <3>1, <3>5, <4>1 DEF Kept
      <4>2. CASE q \notin silenced
        BY <1>t, <1>k, <2>0, <2>1, <2>e, <3>1, <3>5, <4>2 DEF Kept
      <4> QED
        BY <4>1, <4>2
    <3> QED
      BY <3>6, <3>7 DEF BlocksInv
  <2>2. CASE network # "stored"
    <3>1. UNCHANGED <<denied, idiotar, presence, denybuf, wish>>
      BY <1>5, <2>2 DEF GotDenies
    <3>2. BlocksTypeOK'
      BY <1>t, <2>0, <3>1 DEF BlocksTypeOK
    <3>3. ASSUME NEW q \in Pests PROVE Kept(q)'
      BY <1>t, <1>k, <2>0, <2>2, <2>e, <3>1 DEF Kept
    <3> QED
      BY <3>2, <3>3 DEF BlocksInv
  <2> QED
    BY <2>1, <2>2
<1>6. CASE Offline
  <2>1. /\ online' = "off"
        /\ denied' = [p \in Pests |-> IF denied[p] = "uploaded" THEN "listed" ELSE denied[p]]
        /\ presence' = {}
        /\ silenced' \in {{}, silenced}
        /\ UNCHANGED <<network, idiotar, denybuf, wish, undone>>
    BY <1>6 DEF Offline
  <2>3. BlocksTypeOK'
    BY <1>t, <2>1 DEF BlocksTypeOK
  <2>4. ASSUME NEW q \in Pests PROVE Kept(q)'
    BY <1>t, <1>k, <2>1 DEF Kept
  <2> QED
    BY <2>3, <2>4 DEF BlocksInv
<1>7. CASE Flush
  <2>1. /\ denybuf' = <<>>
        /\ silenced' = IF online = "on" THEN silenced \cup ToSet(denybuf) ELSE silenced
        /\ UNCHANGED <<network, online, idiotar, denied, presence, wish, undone>>
    BY <1>7 DEF Flush
  <2>2. ToSet(denybuf') = {} /\ ToSet(denybuf) \subseteq Pests
    BY <1>t, <2>1 DEF ToSet
  <2>3. BlocksTypeOK'
    BY <1>t, <2>1, <2>2 DEF BlocksTypeOK
  <2>n. ASSUME NEW q \in Pests, wish[q] = "none" PROVE q \notin ToSet(denybuf)
    BY <1>k, <2>n DEF Kept
  <2>4. ASSUME NEW q \in Pests PROVE Kept(q)'
    BY <1>t, <1>k, <2>1, <2>2 DEF Kept
  <2> QED
    BY <2>3, <2>4 DEF BlocksInv
<1>8. ASSUME NEW p \in Pests, InsertedDeny(p) PROVE BlocksInv'
  <2>1. /\ online = "on" /\ silenced' = silenced \cup {p}
        /\ denied' = [denied EXCEPT ![p] = "uploaded"]
        /\ idiotar' = [idiotar EXCEPT ![p] = "block"]
        /\ presence' = presence \ {p}
        /\ wish' = [wish EXCEPT ![p] = "blocked"] /\ undone' = undone \ {p}
        /\ UNCHANGED <<network, online, denybuf>>
    BY <1>t, <1>8 DEF InsertedDeny, InternalAddDeny, RAddIdiot
  <2>3. BlocksTypeOK'
    BY <1>t, <2>1 DEF BlocksTypeOK
  <2>4. ASSUME NEW q \in Pests PROVE Kept(q)'
    BY <1>t, <1>k, <2>1 DEF Kept
  <2> QED
    BY <2>3, <2>4 DEF BlocksInv
<1>9. ASSUME NEW p \in Pests, DeletedDeny(p) PROVE BlocksInv'
  <2>1. /\ network = "stored" /\ online = "on" /\ p \in silenced /\ silenced' = silenced \ {p}
        /\ undone' = IF p \in ToSet(denybuf) THEN undone \cup {p} ELSE undone \ {p}
        /\ UNCHANGED <<network, online, denybuf, presence>>
    BY <1>9 DEF DeletedDeny
  <2>2. CASE denied[p] # "none"
    <3>1. /\ denied' = [denied EXCEPT ![p] = "none"]
          /\ idiotar' = [idiotar EXCEPT ![p] = "none"]
          /\ wish' = [wish EXCEPT ![p] = "heard"]
      BY <1>9, <2>2 DEF DeletedDeny, InternalRemoveDeny, RDelIdiot
    <3>3. BlocksTypeOK'
      BY <1>t, <2>1, <3>1 DEF BlocksTypeOK
    <3>4. ASSUME NEW q \in Pests PROVE Kept(q)'
      BY <1>t, <1>k, <2>1, <3>1 DEF Kept
    <3> QED
      BY <3>3, <3>4 DEF BlocksInv
  <2>3. CASE denied[p] = "none"
    <3>1. UNCHANGED <<denied, idiotar, wish>>
      BY <1>9, <2>3 DEF DeletedDeny
    <3>3. BlocksTypeOK'
      BY <1>t, <2>1, <3>1 DEF BlocksTypeOK
    <3>4. ASSUME NEW q \in Pests PROVE Kept(q)'
      BY <1>t, <1>k, <2>1, <2>3, <3>1 DEF Kept
    <3> QED
      BY <3>3, <3>4 DEF BlocksInv
  <2> QED
    BY <2>2, <2>3
<1> QED
  BY <1>1, <1>2, <1>3, <1>4, <1>5, <1>6, <1>7, <1>8, <1>9 DEF BlocksNext

LEMMA AlwaysBlocksInv == BlocksSpec => []BlocksInv
<1>1. BlocksInv /\ [BlocksNext]_blockVars => BlocksInv'
  BY BlocksStep
<1> QED
  BY BlocksInvInit, <1>1, PTL DEF BlocksSpec

(* Who is blocked is heard nowhere, over sign-ons, lost sessions and what another
   client does, and a server that keeps a list is told of him in the end. *)
THEOREM BlocksLast == BlocksSpec => []BlockedStays
<1>1. BlocksInv => BlockedStays
  <2> SUFFICES ASSUME BlocksInv, NEW p \in Pests, wish[p] = "blocked"
               PROVE  /\ FateOf(p, FALSE) = "dropped" /\ FateOf(p, TRUE) = "dropped"
                      /\ network = "stored" /\ online = "on" /\ denybuf = <<>> => p \in silenced
    BY DEF BlockedStays
  <2>1. Kept(p)
    BY DEF BlocksInv
  <2>2. denybuf = <<>> => ToSet(denybuf) = {}
    BY DEF ToSet
  <2> QED
    BY <2>1, <2>2 DEF Kept, FateOf, Drops
<1> QED
  BY <1>1, AlwaysBlocksInv, PTL

(* Who is ignored is shown nowhere, and is warned unless he is blocked, too. *)
THEOREM IgnoredLast == BlocksSpec => []IgnoredStays
<1>1. BlocksInv => IgnoredStays
  BY DEF BlocksInv, Kept, IgnoredStays, FateOf, Drops
<1> QED
  BY <1>1, AlwaysBlocksInv, PTL

(* Who is not, or no longer, to be kept away is shown, and the server lets him
   through, save those of whom a block was taken back when that did nothing. *)
THEOREM OthersAreHeard == BlocksSpec => []HeardAgain
<1>1. BlocksInv => HeardAgain
  BY DEF BlocksInv, Kept, HeardAgain, FateOf, Drops
<1> QED
  BY <1>1, AlwaysBlocksInv, PTL
=============================================================================

--------------------------- MODULE BuddiesProofs ---------------------------
(***************************************************************************)
(* Theorems about Buddies, for every value of its constants: any set of    *)
(* names, any length of a queue.                                           *)
(*                                                                         *)
(* The operators of Buddies take the record of one name to another, so     *)
(* each has a lemma for its type and one for what it keeps of the list's   *)
(* soundness, in the order of the calls; an action changes one record, or  *)
(* each record on its own, and its step of the proof cites one or two.     *)
(***************************************************************************)
EXTENDS Buddies, TLAPS

-----------------------------------------------------------------------------
(* The operators keep a record's type. *)

Settings == [autobuddy : BOOLEAN, autoclose : BOOLEAN, autoquery : BOOLEAN]

LEMMA NoneQueued == 0 \in 0..MaxQueued
BY BuddiesAssumption

LEMMA ClientTypes ==
  ASSUME NEW r \in Buddy, NEW grp \in BOOLEAN, NEW holds
  PROVE  /\ Asserted(holds, r) \in Buddy
         /\ AddClient(r, grp) \in Buddy
         /\ CloseWin(r) \in Buddy
         /\ DelClient(r) \in Buddy
         /\ NewWin(r) \in Buddy
         /\ BuddyAdded(r, grp) \in Buddy
         /\ BuddyRemoved(r) \in Buddy
<1>1. ASSUME NEW s \in Buddy, NEW h PROVE Asserted(h, s) \in Buddy
  BY DEF Asserted, Buddy
<1>2. AddClient(r, grp) \in Buddy
  BY DEF AddClient, Buddy, Listing
<1>3. CloseWin(r) \in Buddy
  BY NoneQueued DEF CloseWin, Buddy
<1>4. ASSUME NEW s \in Buddy PROVE DelClient(s) \in Buddy
  <2>1. Asserted(s.win = "none", s) \in Buddy
    BY <1>1
  <2> QED
    BY <2>1 DEF DelClient, Buddy, Listing
<1>5. NewWin(r) \in Buddy
  <2>1. Asserted(r.client # "absent", r) \in Buddy
    BY <1>1
  <2> QED
    BY <2>1 DEF NewWin, Buddy
<1>6. BuddyAdded(r, grp) \in Buddy
  BY <1>2 DEF BuddyAdded, Buddy
<1>7. BuddyRemoved(r) \in Buddy
  BY <1>3, <1>4 DEF BuddyRemoved
<1> QED
  BY <1>1, <1>2, <1>3, <1>4, <1>5, <1>6, <1>7

LEMMA CallbackTypes ==
  ASSUME NEW r \in Buddy, NEW others \in BOOLEAN, settings \in Settings
  PROVE  /\ Coming(r) \in Buddy
         /\ Delete(r) \in Buddy
         /\ Going(r, others) \in Buddy
         /\ Comes(r) \in Buddy
         /\ Goes(r, others) \in Buddy
<1>1. ASSUME NEW s \in Buddy PROVE Coming(s) \in Buddy
  <2> DEFINE found == Asserted(s.client # "absent", s)
             shown == IF settings.autoquery THEN NewWin(found) ELSE found
  <2>1. found \in Buddy
    BY ClientTypes
  <2>2. shown \in Buddy
    BY <2>1, ClientTypes
  <2>3. [shown EXCEPT !.client = "online", !.queued = 0] \in Buddy
    <3> HIDE DEF shown
    <3>1. [shown EXCEPT !.client = "online"] \in Buddy
      BY <2>2 DEF Buddy, Listing
    <3> QED
      BY <3>1, NoneQueued DEF Buddy
  <2> QED
    BY <2>2, <2>3 DEF Coming
<1>2. ASSUME NEW s \in Buddy PROVE Delete(s) \in Buddy
  <2>1. BuddyRemoved(s) \in Buddy
    BY ClientTypes
  <2> QED
    <3> DEFINE d == BuddyRemoved(s)
    <3> HIDE DEF d
    <3>1. d \in Buddy
      BY <2>1 DEF d
    <3>2. [d EXCEPT !.wrapper = "absent", !.uploaded = FALSE, !.wgroup = FALSE] \in Buddy
      BY <3>1 DEF Buddy, Listing
    <3> QED
      BY <3>2 DEF Delete, d
<1>3. ASSUME NEW s \in Buddy PROVE Going(s, others) \in Buddy
  <2> DEFINE gone   == [s EXCEPT !.client = "offline"]
             closed == CloseWin(gone)
             temporary == settings.autoclose /\ ~s.group
  <2>1. gone \in Buddy
    BY DEF Buddy, Listing
  <2>2. closed \in Buddy /\ DelClient(closed) \in Buddy /\ Delete(closed) \in Buddy
    BY <2>1, <1>2, ClientTypes
  <2>3. [gone EXCEPT !.closing = @ \/ (temporary /\ ~s.waiting)] \in Buddy
    BY <2>1 DEF Buddy, Settings
  <2> QED
    BY <2>1, <2>2, <2>3 DEF Going
<1>4. [r EXCEPT !.wrapper = "online"] \in Buddy /\ [r EXCEPT !.wrapper = "offline"] \in Buddy
  BY DEF Buddy, Listing
<1> QED
  BY <1>1, <1>2, <1>3, <1>4 DEF Comes, Goes

LEMMA ListTypes ==
  ASSUME NEW r \in Buddy, NEW others \in BOOLEAN, NEW grp \in BOOLEAN, NEW writes \in BOOLEAN,
         settings \in Settings, up \in BOOLEAN
  PROVE  /\ Remove(r, others) \in Buddy
         /\ RemoveBoth(r, others) \in Buddy
         /\ Add(r, grp, writes, others) \in Buddy
<1>1. Remove(r, others) \in Buddy
  <2>1. (IF up THEN Goes(r, others) ELSE r) \in Buddy
    BY CallbackTypes
  <2> QED
    BY <2>1, CallbackTypes DEF Remove
<1>2. RemoveBoth(r, others) \in Buddy
  BY <1>1, ClientTypes DEF RemoveBoth
<1>3. Replace(r, grp, others) \in Buddy
  <2> DEFINE left == IF up /\ r.uploaded THEN Goes(r, others) ELSE r
  <2>1. left \in Buddy
    BY CallbackTypes
  <2>2. [left EXCEPT !.fault = "freed"] \in Buddy /\ [left EXCEPT !.wgroup = grp] \in Buddy
    BY <2>1 DEF Buddy
  <2> QED
    BY <2>2, ClientTypes DEF Replace
<1>4. Insert(r, grp) \in Buddy
  <2>1. [r EXCEPT !.wrapper = "offline", !.wgroup = grp] \in Buddy
    BY DEF Buddy, Listing
  <2> QED
    BY <2>1, ClientTypes DEF Insert
<1>5. Add(r, grp, writes, others) \in Buddy
  <2> DEFINE listed == IF r.wrapper = "absent" THEN Insert(r, grp) ELSE Replace(r, grp, others)
             seen   == IF up /\ r.room THEN Comes(listed) ELSE listed
             sent   == [seen EXCEPT !.uploaded = @ \/ up]
  <2>1. listed \in Buddy
    BY <1>3, <1>4
  <2>2. seen \in Buddy
    BY <2>1, CallbackTypes
  <2>3. sent \in Buddy
    BY <2>2 DEF Buddy
  <2>4. Comes(sent) \in Buddy
    BY <2>3, CallbackTypes
  <2> QED
    BY <2>1, <2>3, <2>4 DEF Add
<1> QED
  BY <1>1, <1>2, <1>5

LEMMA HandlerTypes ==
  ASSUME NEW r \in Buddy, NEW others \in BOOLEAN, settings \in Settings, up \in BOOLEAN
  PROVE  /\ Autobuddied(r, others) \in Buddy
         /\ Displayed(r) \in Buddy
         /\ Clear(r) \in Buddy
         /\ r.queued < MaxQueued => Sent(r) \in Buddy
         /\ CleanedUp(r, others) \in Buddy
<1>1. Autobuddied(r, others) \in Buddy
  BY ClientTypes, ListTypes DEF Autobuddied
<1>2. Displayed(r) \in Buddy
  BY DEF Displayed, Buddy
<1>3. Clear(r) \in Buddy
  <2> DEFINE marked == [r EXCEPT !.wrapper  = IF @ = "online" THEN "offline" ELSE @,
                                 !.client   = IF @ = "online" THEN "offline" ELSE @,
                                 !.uploaded = FALSE,
                                 !.room     = FALSE]
  <2>1. marked \in Buddy
    BY DEF Buddy, Listing
  <2> QED
    BY <2>1, ClientTypes DEF Clear
<1>4. r.queued < MaxQueued => Sent(r) \in Buddy
  BY BuddiesAssumption DEF Sent, Buddy
<1>5. CleanedUp(r, others) \in Buddy
  <2>1. [r EXCEPT !.closing = FALSE] \in Buddy
    BY DEF Buddy
  <2> QED
    BY <2>1, ClientTypes, ListTypes DEF CleanedUp
<1> QED
  BY <1>1, <1>2, <1>3, <1>4, <1>5

-----------------------------------------------------------------------------
(* Type correctness.  No strengthening is needed: the guard of Say keeps the
   queue within its bound, and every other step only shortens it. *)

LEMMA OthersType ==
  ASSUME NEW n \in Names
  PROVE  Others(n) \in BOOLEAN
BY BuddiesAssumption DEF Others

LEMMA SetTypes ==
  ASSUME TypeOK, NEW n \in Names, NEW r \in Buddy, Set(n, r), UNCHANGED <<up, settings>>
  PROVE  TypeOK'
BY DEF Set, TypeOK

LEMMA TypesInductive == TypeOK /\ [Next]_vars => TypeOK'
<1> SUFFICES ASSUME TypeOK, [Next]_vars PROVE TypeOK'
  OBVIOUS
<1> USE DEF Settings
<1>t. \A n \in Names : b[n] \in Buddy /\ Others(n) \in BOOLEAN
  BY OthersType DEF TypeOK
<1>u. settings \in Settings /\ up \in BOOLEAN
  BY DEF TypeOK
<1>1. ASSUME NEW n \in Names, Join(n) PROVE TypeOK'
  <2>1. Comes(b[n]) \in Buddy
    BY <1>t, <1>u, CallbackTypes
  <2>2. [Comes(b[n]) EXCEPT !.room = TRUE] \in Buddy
    BY <2>1 DEF Buddy
  <2> QED
    BY <1>1, <2>2, SetTypes DEF Join
<1>2. ASSUME NEW n \in Names, NoSuchNick(n) PROVE TypeOK'
  <2>1. Goes(b[n], Others(n)) \in Buddy
    BY <1>t, <1>u, CallbackTypes
  <2> QED
    BY <1>2, <2>1, SetTypes DEF NoSuchNick
<1>3. ASSUME NEW n \in Names, Message(n) PROVE TypeOK'
  <2>1. Autobuddied(b[n], Others(n)) \in Buddy
    BY <1>t, <1>u, HandlerTypes
  <2>2. Displayed(Autobuddied(b[n], Others(n))) \in Buddy
    BY <1>t, <1>u, <2>1, HandlerTypes
  <2> QED
    BY <1>3, <2>2, SetTypes DEF Message
<1>4. ASSUME NEW gone \in SUBSET Names, Part(gone) PROVE TypeOK'
  <2>1. ASSUME NEW n \in Names PROVE [Goes(b[n], Others(n)) EXCEPT !.room = FALSE] \in Buddy
    <3>1. Goes(b[n], Others(n)) \in Buddy
      BY <1>t, <1>u, CallbackTypes
    <3> QED
      BY <3>1 DEF Buddy
  <2> QED
    BY <1>4, <1>t, <2>1 DEF Part, TypeOK
<1>5. ASSUME NEW old \in Names, NEW new \in Names, Nick(old, new) PROVE TypeOK'
  <2>1. Unknown \in Buddy
    BY NoneQueued DEF Unknown, Buddy, Listing
  <2> QED
    BY <1>5, <1>t, <2>1 DEF Nick, TypeOK
<1>6. CASE SignOn
  BY <1>6 DEF SignOn, TypeOK
<1>7. CASE SignOff
  <2>1. \A n \in Names : Clear(b[n]) \in Buddy
    BY <1>t, <1>u, HandlerTypes
  <2> QED
    BY <1>7, <2>1 DEF SignOff, TypeOK
<1>8. ASSUME NEW n \in Names, DelBuddy(n) PROVE TypeOK'
  <2> DEFINE r == IF b[n].client # "absent" THEN RemoveBoth(b[n], Others(n))
                                           ELSE Remove(b[n], Others(n))
  <2>1. r \in Buddy
    <3>1. FALSE \in BOOLEAN
      OBVIOUS
    <3> QED
      BY <1>t, <1>u, <3>1, ListTypes
  <2>2. Set(n, Asserted(r.client = "absent", r)) /\ UNCHANGED <<up, settings>>
    BY <1>8 DEF DelBuddy
  <2> HIDE DEF r
  <2>3. Asserted(r.client = "absent", r) \in Buddy
    BY <2>1 DEF Asserted, Buddy
  <2> QED
    BY <2>2, <2>3, SetTypes
<1>9. ASSUME NEW n \in Names, Open(n) PROVE TypeOK'
  <2> DEFINE r == IF b[n].client = "absent"
                  THEN Add(AddClient(b[n], FALSE), FALSE, FALSE, Others(n)) ELSE b[n]
  <2>1. r \in Buddy
    <3>1. AddClient(b[n], FALSE) \in Buddy
      BY <1>t, ClientTypes
    <3> QED
      BY <1>t, <1>u, <3>1, ListTypes
  <2>2. Set(n, NewWin(r)) /\ UNCHANGED <<up, settings>>
    BY <1>9 DEF Open
  <2> HIDE DEF r
  <2>3. NewWin(r) \in Buddy
    BY <2>1, ClientTypes
  <2> QED
    BY <2>2, <2>3, SetTypes
<1>10. ASSUME NEW n \in Names, Close(n) PROVE TypeOK'
  <2>1. CloseWin(b[n]) \in Buddy
    BY <1>t, ClientTypes
  <2> QED
    BY <1>10, <2>1, SetTypes DEF Close
<1>11. ASSUME NEW n \in Names, View(n) PROVE TypeOK'
  <2>1. [b[n] EXCEPT !.waiting = FALSE,
                     !.closing = @ \/ (settings.autoclose /\ ~b[n].group)] \in Buddy
    BY <1>t, <1>u DEF Buddy
  <2> QED
    BY <1>11, <2>1, SetTypes DEF View
<1>12. ASSUME NEW n \in Names, NEW grp \in BOOLEAN, AddBuddy(n, grp) PROVE TypeOK'
  <2>1. Add(b[n], grp, FALSE, Others(n)) \in Buddy
    BY <1>t, <1>u, ListTypes
  <2> QED
    BY <1>12, <2>1, SetTypes DEF AddBuddy
<1>13. ASSUME NEW n \in Names, NEW typed \in BOOLEAN, Say(n, typed) PROVE TypeOK'
  <2> DEFINE r == IF typed THEN [b[n] EXCEPT !.win = "kept"] ELSE b[n]
  <2>1. r \in Buddy /\ r.queued < MaxQueued
    BY <1>13, <1>t DEF Say, Buddy
  <2>2. Set(n, Sent(r)) /\ UNCHANGED <<up, settings>>
    BY <1>13 DEF Say
  <2> HIDE DEF r
  <2>3. Sent(r) \in Buddy
    BY <1>t, <1>u, <2>1, HandlerTypes
  <2> QED
    BY <2>2, <2>3, SetTypes
<1>14. CASE CloseAll
  <2>1. \A n \in Names : CloseWin(b[n]) \in Buddy
    BY <1>t, ClientTypes
  <2> QED
    BY <1>14, <1>t, <2>1 DEF CloseAll, TypeOK
<1>15. CASE UserSet
  BY <1>15 DEF UserSet, TypeOK
<1>16. ASSUME NEW due \in SUBSET Names, Maintain(due) PROVE TypeOK'
  <2>1. \A n \in Names : CleanedUp(b[n], Others(n)) \in Buddy
    BY <1>t, <1>u, HandlerTypes
  <2> QED
    BY <1>16, <1>t, <2>1 DEF Maintain, TypeOK
<1>17. CASE UNCHANGED vars
  BY <1>17 DEF vars, TypeOK
<1> QED
  BY <1>1, <1>2, <1>3, <1>4, <1>5, <1>6, <1>7, <1>8, <1>9, <1>10, <1>11, <1>12,
     <1>13, <1>14, <1>15, <1>16, <1>17 DEF Next, Server, User, Timer

LEMMA TypesInit == Init => TypeOK
<1>1. Unknown \in Buddy
  BY NoneQueued DEF Unknown, Buddy, Listing
<1> QED
  BY <1>1 DEF Init, TypeOK

(* The type invariant, for any constants: above all the queue of a window is
   never longer than what was said in it, nor shorter than nothing. *)
THEOREM BuddiesTypeCorrect == Spec => []TypeOK
BY TypesInit, TypesInductive, PTL DEF Spec

-----------------------------------------------------------------------------
(* What is kept under a name is sane, in every state and between the calls of a
   handler; and who is seen in a room is online, but for the moment in which one
   goes.  This is with another window open and without buddies being regrouped. *)

Sane(r, u) ==
  /\ r.fault = "none"
  /\ r.wrapper = r.client
  /\ r.wgroup = r.group
  /\ r.client = "absent" => r.win = "none" /\ ~r.group
  /\ r.client = "online" => u
  /\ r.room => u
  /\ r.queued # 0 => r.client = "offline" /\ r.win # "none"

Seen(r) == r.room /\ r.wrapper # "absent" => r.wrapper = "online"

LEMMA SaneComes ==
  ASSUME NEW r \in Buddy, Sane(r, up), up
  PROVE  /\ Sane(Comes(r), up)
         /\ Comes(r).wrapper = (IF r.wrapper = "absent" THEN "absent" ELSE "online")
         /\ Comes(r).room = r.room
         /\ Comes(r).group = r.group
BY DEF Comes, Coming, NewWin, Asserted, Sane, Buddy, Listing

LEMMA SaneDelete ==
  ASSUME NEW r \in Buddy, Sane(r, up)
  PROVE  /\ Sane(Delete(r), up)
         /\ Delete(r).wrapper = "absent"
         /\ Delete(r).room = r.room
BY DEF Delete, BuddyRemoved, CloseWin, DelClient, Asserted, Sane, Buddy, Listing

LEMMA SaneGoes ==
  ASSUME NEW r \in Buddy, Sane(r, up)
  PROVE  /\ Sane(Goes(r, TRUE), up)
         /\ Goes(r, TRUE).wrapper # "online"
         /\ Goes(r, TRUE).room = r.room
         /\ r.wrapper = "absent" => Goes(r, TRUE).wrapper = "absent"
         /\ r.wrapper # "absent" /\ r.group => Goes(r, TRUE).wrapper # "absent"
BY DEF Goes, Going, Delete, BuddyRemoved, CloseWin, DelClient, Asserted, Sane, Buddy, Listing

LEMMA SaneRemove ==
  ASSUME NEW r \in Buddy, Sane(r, up), settings \in Settings
  PROVE  /\ Sane(Remove(r, TRUE), up)
         /\ Remove(r, TRUE).client = "absent"
         /\ Remove(r, TRUE).room = r.room
<1> DEFINE left == IF up THEN Goes(r, TRUE) ELSE r
<1>1. left \in Buddy /\ Sane(left, up) /\ left.room = r.room
  BY SaneGoes, CallbackTypes
<1>2. Remove(r, TRUE) = Delete(left)
  BY DEF Remove
<1> HIDE DEF left
<1>3. Sane(Delete(left), up) /\ Delete(left).wrapper = "absent" /\ Delete(left).room = left.room
  BY <1>1, SaneDelete
<1> QED
  BY <1>1, <1>2, <1>3 DEF Sane

LEMMA SaneRemoveBoth ==
  ASSUME NEW r \in Buddy, Sane(r, up), settings \in Settings
  PROVE  /\ Sane(RemoveBoth(r, TRUE), up)
         /\ RemoveBoth(r, TRUE).client = "absent"
         /\ RemoveBoth(r, TRUE).room = r.room
<1>1. CASE r.wrapper = "absent"
  BY <1>1 DEF RemoveBoth, DelClient, Asserted, Sane, Buddy, Listing
<1>2. CASE r.wrapper # "absent"
  BY <1>2, SaneRemove DEF RemoveBoth
<1> QED
  BY <1>1, <1>2

(* firetalk_im_add_buddy is given a name that neither list has, or the client's
   only, just put there; or else a buddy of both, who stays in the group. *)
Addable(r, grp) ==
  \/ r.wrapper # "absent" /\ r.wgroup = grp /\ Sane(r, up)
  \/ /\ r.wrapper = "absent"
     /\ r.fault = "none"
     /\ r.client \in {"absent", "offline"}
     /\ r.client = "absent" => r.win = "none"
     /\ r.queued = 0
     /\ r.room => up

LEMMA SaneAdd ==
  ASSUME NEW r \in Buddy, NEW grp \in BOOLEAN, NEW writes \in BOOLEAN,
         Addable(r, grp), settings \in Settings, up \in BOOLEAN, writes => up
  PROVE  /\ Sane(Add(r, grp, writes, TRUE), up)
         /\ r.wrapper = "absent" \/ Seen(r) => Seen(Add(r, grp, writes, TRUE))
         /\ Add(r, grp, writes, TRUE).client # "absent"
<1> DEFINE listed == IF r.wrapper = "absent" THEN Insert(r, grp) ELSE Replace(r, grp, TRUE)
           seen   == IF up /\ r.room THEN Comes(listed) ELSE listed
           sent   == [seen EXCEPT !.uploaded = @ \/ up]
<1>1. /\ listed \in Buddy /\ Sane(listed, up) /\ listed.room = r.room
      /\ listed.wrapper # "absent"
  <2>1. CASE r.wrapper = "absent"
    BY <2>1 DEF Addable, Insert, BuddyAdded, AddClient, Sane, Buddy, Listing
  <2>2. CASE r.wrapper # "absent"
    BY <2>2 DEF Addable, Replace
  <2> QED
    BY <2>1, <2>2
<1>2. Add(r, grp, writes, TRUE) = IF writes THEN Comes(sent) ELSE sent
  <2>1. listed.fault = "none"
    BY <1>1 DEF Sane
  <2> QED
    BY <2>1 DEF Add
<1>3. seen \in Buddy /\ Sane(seen, up) /\ seen.room = r.room /\ seen.wrapper # "absent"
      /\ (r.room => seen.wrapper = "online")
  <2> HIDE DEF listed
  <2>1. CASE up /\ r.room
    <3>1. /\ Comes(listed) \in Buddy /\ Sane(Comes(listed), up)
          /\ Comes(listed).room = r.room /\ Comes(listed).wrapper = "online"
      BY <1>1, <2>1, SaneComes, CallbackTypes
    <3> QED
      BY <2>1, <3>1
  <2>2. CASE ~(up /\ r.room)
    BY <1>1, <2>2 DEF Sane
  <2> QED
    BY <2>1, <2>2
<1> HIDE DEF seen
<1>4. sent \in Buddy /\ Sane(sent, up) /\ sent.room = seen.room /\ sent.wrapper = seen.wrapper
  BY <1>3 DEF Sane, Buddy
<1> HIDE DEF sent
<1>5. writes => /\ Sane(Comes(sent), up) /\ Comes(sent).room = sent.room
                /\ Comes(sent).wrapper = "online"
  BY <1>3, <1>4, SaneComes
<1> QED
  BY <1>2, <1>3, <1>4, <1>5 DEF Sane, Seen

LEMMA SaneHandlers ==
  ASSUME NEW r \in Buddy, Sane(r, up), Seen(r), settings \in Settings, up \in BOOLEAN
  PROVE  /\ up => Sane(Displayed(Autobuddied(r, TRUE)), up) /\ Seen(Displayed(Autobuddied(r, TRUE)))
         /\ Sane(Clear(r), FALSE) /\ Seen(Clear(r))
         /\ Sane(CleanedUp(r, TRUE), up) /\ Seen(CleanedUp(r, TRUE))
         /\ Sane(CloseWin(r), up) /\ Seen(CloseWin(r))
<1>1. ASSUME up PROVE Sane(Autobuddied(r, TRUE), up) /\ Seen(Autobuddied(r, TRUE))
  <2>1. CASE settings.autobuddy /\ r.client = "absent"
    <3> DEFINE a == NewWin(AddClient(Asserted(r.win = "none", r), FALSE))
    <3>1. a \in Buddy
      BY ClientTypes
    <3>2. Addable(a, FALSE) /\ a.wrapper = "absent"
      BY <1>1, <2>1 DEF Addable, NewWin, AddClient, Asserted, Sane, Buddy, Listing
    <3>3. Autobuddied(r, TRUE) = Add(a, FALSE, TRUE, TRUE)
      BY <2>1 DEF Autobuddied
    <3> HIDE DEF a
    <3> QED
      BY <1>1, <3>1, <3>2, <3>3, SaneAdd
  <2>2. CASE settings.autobuddy /\ r.client # "absent"
    BY <2>2 DEF Autobuddied, NewWin, Asserted, Sane, Seen, Buddy, Listing
  <2>3. CASE ~settings.autobuddy
    BY <2>3 DEF Autobuddied
  <2> QED
    BY <2>1, <2>2, <2>3
<1>2. ASSUME up PROVE Sane(Displayed(Autobuddied(r, TRUE)), up) /\ Seen(Displayed(Autobuddied(r, TRUE)))
  <2> DEFINE a == Autobuddied(r, TRUE)
  <2>1. a \in Buddy /\ Sane(a, up) /\ Seen(a)
    BY <1>1, <1>2, HandlerTypes
  <2> HIDE DEF a
  <2>2. Sane(Displayed(a), up) /\ Seen(Displayed(a))
    BY <2>1 DEF Displayed, Sane, Seen, Buddy, Listing
  <2> QED
    BY <2>2 DEF a
<1>3. Sane(Clear(r), FALSE) /\ Seen(Clear(r))
  BY DEF Clear, CloseWin, Sane, Seen, Buddy, Listing
<1>4. Sane(CloseWin(r), up) /\ Seen(CloseWin(r))
  BY DEF CloseWin, Sane, Seen, Buddy, Listing
<1>5. Sane(CleanedUp(r, TRUE), up) /\ Seen(CleanedUp(r, TRUE))
  <2>1. CASE r.client = "online" \/ r.group \/ r.queued > 0
    BY <2>1 DEF CleanedUp, Sane, Seen, Buddy, Listing
  <2>2. CASE ~(r.client = "online" \/ r.group \/ r.queued > 0)
    <3> DEFINE a == CloseWin(r)
    <3>1. a \in Buddy
      BY ClientTypes
    <3>2. CleanedUp(r, TRUE) = RemoveBoth(a, TRUE) /\ Sane(a, up)
      BY <2>2, <1>4 DEF CleanedUp
    <3> HIDE DEF a
    <3>3. Sane(RemoveBoth(a, TRUE), up) /\ RemoveBoth(a, TRUE).client = "absent"
      BY <3>1, <3>2, SaneRemoveBoth
    <3> QED
      BY <3>2, <3>3 DEF Sane, Seen
  <2> QED
    BY <2>1, <2>2
<1> QED
  BY <1>2, <1>3, <1>4, <1>5

-----------------------------------------------------------------------------
(* The list is sound.  That the copies agree is not inductive by itself: a
   buddy whose window outlives him, or a fault, would break it in the next
   step, and that no window outlives its buddy rests in turn on the copies'
   agreeing, since the wrapper's removal is what closes the window. *)

Calm == OtherWindow /\ ~Regroup

Sound == TypeOK /\ \A n \in Names : Sane(b[n], up) /\ Seen(b[n])

LEMMA SetSound ==
  ASSUME Sound, NEW n \in Names, NEW r \in Buddy, Sane(r, up), Seen(r),
         Set(n, r), UNCHANGED <<up, settings>>
  PROVE  Sound'
<1>1. TypeOK'
  BY SetTypes DEF Sound
<1>2. ASSUME NEW m \in Names PROVE Sane(b'[m], up) /\ Seen(b'[m])
  <2>1. b'[m] = IF m = n THEN r ELSE b[m]
    BY DEF Set, Sound, TypeOK
  <2> QED
    BY <2>1 DEF Sound
<1> QED
  BY <1>1, <1>2 DEF Sound, Sane, Seen

LEMMA EachSound ==
  ASSUME Sound, TypeOK', UNCHANGED <<up, settings>>,
         \A n \in Names : Sane(b'[n], up) /\ Seen(b'[n])
  PROVE  Sound'
BY DEF Sound, Sane, Seen

LEMMA SoundInductive == Calm /\ Sound /\ [Next]_vars => Sound'
<1> SUFFICES ASSUME Calm, Sound, [Next]_vars PROVE Sound'
  OBVIOUS
<1>t. TypeOK'
  BY TypesInductive DEF Sound
<1>s. \A n \in Names : b[n] \in Buddy /\ Sane(b[n], up) /\ Seen(b[n])
  BY DEF Sound, TypeOK
<1>o. \A n \in Names : Others(n) = TRUE
  BY DEF Calm, Others
<1>u. settings \in Settings /\ up \in BOOLEAN
  BY DEF Sound, TypeOK, Settings
<1>b. b \in [Names -> Buddy]
  BY DEF Sound, TypeOK
<1>1. ASSUME NEW n \in Names, Join(n) PROVE Sound'
  <2>1. Comes(b[n]) \in Buddy /\ Sane(Comes(b[n]), up)
        /\ Comes(b[n]).wrapper = (IF b[n].wrapper = "absent" THEN "absent" ELSE "online")
    BY <1>1, <1>s, <1>u, CallbackTypes, SaneComes DEF Join, Online
  <2> DEFINE r == [Comes(b[n]) EXCEPT !.room = TRUE]
  <2>2. r \in Buddy /\ Sane(r, up) /\ Seen(r)
    BY <1>1, <2>1 DEF Join, Online, Sane, Seen, Buddy
  <2> QED
    BY <1>1, <2>2, SetSound DEF Join
<1>2. ASSUME NEW n \in Names, NoSuchNick(n) PROVE Sound'
  <2>1. /\ Goes(b[n], TRUE) \in Buddy /\ Sane(Goes(b[n], TRUE), up)
        /\ Goes(b[n], TRUE).room = b[n].room
    BY <1>s, <1>u, CallbackTypes, SaneGoes
  <2>2. Seen(Goes(b[n], TRUE))
    BY <1>2, <2>1 DEF NoSuchNick, Seen
  <2> QED
    BY <1>2, <1>o, <2>1, <2>2, SetSound DEF NoSuchNick
<1>3. ASSUME NEW n \in Names, Message(n) PROVE Sound'
  <2> DEFINE r == Displayed(Autobuddied(b[n], TRUE))
  <2>1. r \in Buddy
    BY <1>s, <1>u, HandlerTypes
  <2>2. Sane(r, up) /\ Seen(r)
    BY <1>3, <1>s, <1>u, SaneHandlers DEF Message, Online
  <2>3. Set(n, r) /\ UNCHANGED <<up, settings>>
    BY <1>3, <1>o DEF Message
  <2> HIDE DEF r
  <2> QED
    BY <2>1, <2>2, <2>3, SetSound
<1>4. ASSUME NEW gone \in SUBSET Names, Part(gone) PROVE Sound'
  <2>1. ASSUME NEW n \in Names PROVE Sane(b'[n], up) /\ Seen(b'[n])
    <3>1. b'[n] = IF n \in gone THEN [Goes(b[n], TRUE) EXCEPT !.room = FALSE] ELSE b[n]
      BY <1>4, <1>o DEF Part
    <3>2. /\ Goes(b[n], TRUE) \in Buddy /\ Sane(Goes(b[n], TRUE), up)
      BY <1>s, <1>u, CallbackTypes, SaneGoes
    <3>3. /\ Sane([Goes(b[n], TRUE) EXCEPT !.room = FALSE], up)
          /\ Seen([Goes(b[n], TRUE) EXCEPT !.room = FALSE])
      BY <3>2 DEF Sane, Seen, Buddy
    <3> QED
      BY <1>s, <3>1, <3>3
  <2> QED
    BY <1>4, <1>t, <2>1, EachSound DEF Part
<1>5. ASSUME NEW old \in Names, NEW new \in Names, Nick(old, new) PROVE Sound'
  <2>1. Sane(Unknown, up) /\ Seen(Unknown)
    BY DEF Unknown, Sane, Seen
  <2>2. ASSUME NEW n \in Names PROVE Sane(b'[n], up) /\ Seen(b'[n])
    <3>1. b'[n] \in {Unknown, b[old], b[n]}
      BY <1>5, <1>b DEF Nick
    <3> QED
      BY <1>s, <2>1, <3>1
  <2> QED
    BY <1>5, <1>t, <2>2, EachSound DEF Nick
<1>6. CASE SignOn
  BY <1>6, <1>t DEF SignOn, Sound, Sane, Seen
<1>7. CASE SignOff
  <2>1. ASSUME NEW n \in Names PROVE Sane(b'[n], FALSE) /\ Seen(b'[n])
    <3>1. Sane(Clear(b[n]), FALSE) /\ Seen(Clear(b[n]))
      BY <1>s, <1>u, SaneHandlers
    <3> QED
      BY <1>7, <3>1 DEF SignOff
  <2>2. up' = FALSE
    BY <1>7 DEF SignOff
  <2> QED
    BY <1>t, <2>1, <2>2 DEF Sound, Sane, Seen
<1>8. ASSUME NEW n \in Names, DelBuddy(n) PROVE Sound'
  <2> DEFINE r == IF b[n].client # "absent" THEN RemoveBoth(b[n], TRUE)
                                           ELSE Remove(b[n], TRUE)
  <2>1. r \in Buddy
    BY <1>s, <1>u, ListTypes, TRUE \in BOOLEAN, FALSE \in BOOLEAN
  <2>2. Sane(r, up) /\ r.client = "absent"
    BY <1>s, <1>u, SaneRemove, SaneRemoveBoth
  <2>3. Set(n, Asserted(r.client = "absent", r)) /\ UNCHANGED <<up, settings>>
    BY <1>8, <1>o DEF DelBuddy
  <2> HIDE DEF r
  <2>4. Asserted(r.client = "absent", r) = r /\ Seen(r)
    BY <2>2 DEF Asserted, Sane, Seen
  <2> QED
    BY <2>1, <2>2, <2>3, <2>4, SetSound
<1>9. ASSUME NEW n \in Names, Open(n) PROVE Sound'
  <2> DEFINE r == IF b[n].client = "absent"
                  THEN Add(AddClient(b[n], FALSE), FALSE, FALSE, TRUE) ELSE b[n]
  <2>1. r \in Buddy /\ Sane(r, up) /\ Seen(r) /\ r.client # "absent"
    <3>1. CASE b[n].client = "absent"
      <4> DEFINE a == AddClient(b[n], FALSE)
      <4>1. a \in Buddy
        BY <1>s, ClientTypes
      <4>2. Addable(a, FALSE) /\ a.wrapper = "absent"
        BY <1>s, <3>1 DEF Addable, AddClient, Sane, Buddy, Listing
      <4>3. r = Add(a, FALSE, FALSE, TRUE)
        BY <3>1
      <4> HIDE DEF a, r
      <4>4. Add(a, FALSE, FALSE, TRUE) \in Buddy
        BY <1>u, <4>1, ListTypes, TRUE \in BOOLEAN, FALSE \in BOOLEAN
      <4> QED
        BY <1>u, <4>1, <4>2, <4>3, <4>4, SaneAdd, FALSE \in BOOLEAN
    <3>2. CASE b[n].client # "absent"
      BY <1>s, <3>2
    <3> QED
      BY <3>1, <3>2
  <2>2. Set(n, NewWin(r)) /\ UNCHANGED <<up, settings>>
    BY <1>9, <1>o DEF Open
  <2> HIDE DEF r
  <2>3. NewWin(r) \in Buddy
    BY <2>1, ClientTypes
  <2>4. Sane(NewWin(r), up) /\ Seen(NewWin(r))
    BY <2>1 DEF NewWin, Asserted, Sane, Seen, Buddy
  <2> QED
    BY <2>2, <2>3, <2>4, SetSound
<1>10. ASSUME NEW n \in Names, Close(n) PROVE Sound'
  <2>1. CloseWin(b[n]) \in Buddy /\ Sane(CloseWin(b[n]), up) /\ Seen(CloseWin(b[n]))
    BY <1>s, <1>u, ClientTypes, SaneHandlers
  <2> QED
    BY <1>10, <2>1, SetSound DEF Close
<1>11. ASSUME NEW n \in Names, View(n) PROVE Sound'
  <2> DEFINE r == [b[n] EXCEPT !.waiting = FALSE,
                               !.closing = @ \/ (settings.autoclose /\ ~b[n].group)]
  <2>1. r \in Buddy /\ Sane(r, up) /\ Seen(r)
    BY <1>s, <1>u DEF Buddy, Sane, Seen
  <2> QED
    BY <1>11, <2>1, SetSound DEF View
<1>12. ASSUME NEW n \in Names, NEW grp \in BOOLEAN, AddBuddy(n, grp) PROVE Sound'
  <2> DEFINE r == Add(b[n], grp, FALSE, TRUE)
  <2>1. r \in Buddy
    BY <1>s, <1>u, ListTypes
  <2>2. Addable(b[n], grp)
    BY <1>12, <1>s DEF AddBuddy, Calm, Addable, Sane
  <2>3. Sane(r, up) /\ Seen(r)
    BY <1>s, <1>u, <2>2, SaneAdd
  <2>4. Set(n, r) /\ UNCHANGED <<up, settings>>
    BY <1>12, <1>o DEF AddBuddy
  <2> HIDE DEF r
  <2> QED
    BY <2>1, <2>3, <2>4, SetSound
<1>13. ASSUME NEW n \in Names, NEW typed \in BOOLEAN, Say(n, typed) PROVE Sound'
  <2> DEFINE r == IF typed THEN [b[n] EXCEPT !.win = "kept"] ELSE b[n]
  <2>1. r \in Buddy /\ Sane(r, up) /\ Seen(r) /\ r.queued < MaxQueued /\ r.win # "none"
    BY <1>13, <1>s DEF Say, Buddy, Sane, Seen
  <2>2. Set(n, Sent(r)) /\ UNCHANGED <<up, settings>>
    BY <1>13 DEF Say
  <2> HIDE DEF r
  <2>3. Sent(r) \in Buddy
    BY <1>u, <2>1, HandlerTypes
  <2>4. Sane(Sent(r), up) /\ Seen(Sent(r))
    BY <2>1 DEF Sent, Sane, Seen, Buddy, Listing
  <2> QED
    BY <2>2, <2>3, <2>4, SetSound
<1>14. CASE CloseAll
  <2>1. ASSUME NEW n \in Names PROVE Sane(b'[n], up) /\ Seen(b'[n])
    <3>1. Sane(CloseWin(b[n]), up) /\ Seen(CloseWin(b[n]))
      BY <1>s, <1>u, SaneHandlers
    <3> QED
      BY <1>14, <1>s, <3>1 DEF CloseAll
  <2> QED
    BY <1>14, <1>t, <2>1, EachSound DEF CloseAll
<1>15. CASE UserSet
  BY <1>15, <1>t DEF UserSet, Sound
<1>16. ASSUME NEW due \in SUBSET Names, Maintain(due) PROVE Sound'
  <2>1. ASSUME NEW n \in Names PROVE Sane(b'[n], up) /\ Seen(b'[n])
    <3>1. Sane(CleanedUp(b[n], TRUE), up) /\ Seen(CleanedUp(b[n], TRUE))
      BY <1>s, <1>u, SaneHandlers
    <3> QED
      BY <1>16, <1>s, <1>o, <3>1 DEF Maintain
  <2> QED
    BY <1>16, <1>t, <2>1, EachSound DEF Maintain
<1>17. CASE UNCHANGED vars
  BY <1>17 DEF vars, Sound, TypeOK
<1> QED
  BY <1>1, <1>2, <1>3, <1>4, <1>5, <1>6, <1>7, <1>8, <1>9, <1>10, <1>11, <1>12,
     <1>13, <1>14, <1>15, <1>16, <1>17 DEF Next, Server, User, Timer

LEMMA SoundInit == Init => Sound
<1>1. Sane(Unknown, FALSE) /\ Seen(Unknown)
  BY DEF Unknown, Sane, Seen
<1> QED
  BY <1>1, TypesInit DEF Init, Sound

LEMMA AlwaysSound == Calm => (Spec => []Sound)
<1> SUFFICES ASSUME Calm PROVE Spec => []Sound
  OBVIOUS
<1>1. Sound /\ [Next]_vars => Sound'
  BY SoundInductive
<1> QED
  BY SoundInit, <1>1, PTL DEF Spec

(* With another window open, and nobody regrouped, no handler fails an
   assertion or uses a buddy that the handlers it called have freed. *)
THEOREM NothingFails == Calm => (Spec => []NoFault)
<1>1. Sound => NoFault
  BY DEF Sound, Sane, NoFault
<1> QED
  BY <1>1, AlwaysSound, PTL

(* Under the same conditions the wrapper's list and the client's have the same
   buddies, in the same groups, online or not in both. *)
THEOREM ListsAlwaysAgree == Calm => (Spec => []ListsAgree)
<1>1. Sound => ListsAgree
  BY DEF Sound, Sane, ListsAgree
<1> QED
  BY <1>1, AlwaysSound, PTL

(* Under the same conditions who is seen in a room is online. *)
THEOREM SeenAreOnline == Calm => (Spec => []VisibleIsOnline)
<1>1. Sound => VisibleIsOnline
  BY DEF Sound, Seen, VisibleIsOnline
<1> QED
  BY <1>1, AlwaysSound, PTL

(* Under the same conditions messages are queued for the absent alone, in a
   window, however long the queue may get. *)
THEOREM QueuesAreForAbsent == Calm => (Spec => []QueuedOnlyForAbsent)
<1>1. Sound => QueuedOnlyForAbsent
  <2> SUFFICES ASSUME Sound, NEW n \in Names, b[n].queued > 0
               PROVE  b[n].win # "none" /\ b[n].client = "offline"
    BY DEF QueuedOnlyForAbsent
  <2>1. b[n].queued # 0
    BY DEF Sound, TypeOK, Buddy
  <2> QED
    BY <2>1 DEF Sound, Sane
<1> QED
  BY <1>1, AlwaysSound, PTL

-----------------------------------------------------------------------------
(* Who is taken off the list. *)

(* What an operator does that keeps a permanent buddy. *)
Keeps(r, s) == r.client # "absent" /\ r.group => s.client # "absent"

LEMMA HandlersKeep ==
  ASSUME NEW r \in Buddy, Sane(r, up), settings \in Settings, up \in BOOLEAN
  PROVE  /\ up => Keeps(r, Comes(r))
         /\ Keeps(r, Goes(r, TRUE))
         /\ up => Keeps(r, Displayed(Autobuddied(r, TRUE)))
         /\ Keeps(r, Clear(r))
         /\ Keeps(r, CleanedUp(r, TRUE))
         /\ Keeps(r, CloseWin(r))
         /\ Keeps(r, NewWin(r))
         /\ r.win # "none" => Keeps(r, Sent(r))
<1>1. up => Keeps(r, Comes(r))
  BY SaneComes DEF Keeps, Sane
<1>2. Keeps(r, Goes(r, TRUE))
  BY SaneGoes DEF Keeps, Sane
<1>3. up => Keeps(r, Displayed(Autobuddied(r, TRUE)))
  <2> SUFFICES ASSUME up, r.client # "absent" PROVE Displayed(Autobuddied(r, TRUE)).client # "absent"
    BY DEF Keeps
  <2> QED
    BY DEF Autobuddied, Displayed, NewWin, Asserted, Buddy
<1>4. Keeps(r, Clear(r))
  BY DEF Keeps, Clear, CloseWin, Buddy, Listing
<1>5. Keeps(r, CleanedUp(r, TRUE))
  BY DEF Keeps, CleanedUp, Buddy
<1>6. Keeps(r, CloseWin(r)) /\ Keeps(r, NewWin(r)) /\ Keeps(r, Sent(r))
  BY DEF Keeps, CloseWin, NewWin, Asserted, Sent, Buddy
<1> QED
  BY <1>1, <1>2, <1>3, <1>4, <1>5, <1>6

LEMMA StepKeeps ==
  ASSUME Calm, Sound, [Next]_vars, NEW n \in Names
  PROVE  \/ Keeps(b[n], b'[n])
         \/ DelBuddy(n)
         \/ \E new \in Names : Nick(n, new)
<1>s. b[n] \in Buddy /\ Sane(b[n], up) /\ b \in [Names -> Buddy]
  BY DEF Sound, TypeOK
<1>o. \A m \in Names : Others(m) = TRUE
  BY DEF Calm, Others
<1>u. settings \in Settings /\ up \in BOOLEAN
  BY DEF Sound, TypeOK, Settings
<1>k. Keeps(b[n], b[n])
  BY DEF Keeps
<1>e. ASSUME NEW m \in Names, NEW r, Set(m, r), m = n => Keeps(b[n], r) PROVE Keeps(b[n], b'[n])
  BY <1>e, <1>s, <1>k DEF Set
<1>1. ASSUME NEW m \in Names, Join(m) PROVE Keeps(b[n], b'[n])
  <2> DEFINE r == [Comes(b[m]) EXCEPT !.room = TRUE]
  <2>1. m = n => Keeps(b[n], r)
    <3>1. Comes(b[n]) \in Buddy /\ Keeps(b[n], Comes(b[n]))
      BY <1>1, <1>s, <1>u, CallbackTypes, HandlersKeep, TRUE \in BOOLEAN DEF Join, Online
    <3> QED
      BY <3>1 DEF Keeps, Buddy
  <2> QED
    BY <1>1, <1>e, <2>1 DEF Join
<1>2. ASSUME NEW m \in Names, NoSuchNick(m) PROVE Keeps(b[n], b'[n])
  BY <1>2, <1>e, <1>s, <1>o, <1>u, HandlersKeep DEF NoSuchNick
<1>3. ASSUME NEW m \in Names, Message(m) PROVE Keeps(b[n], b'[n])
  BY <1>3, <1>e, <1>s, <1>o, <1>u, HandlersKeep DEF Message, Online
<1>4. ASSUME NEW gone \in SUBSET Names, Part(gone) PROVE Keeps(b[n], b'[n])
  <2>1. Keeps(b[n], Goes(b[n], TRUE)) /\ Goes(b[n], TRUE) \in Buddy
    BY <1>s, <1>u, HandlersKeep, CallbackTypes
  <2>2. Keeps(b[n], [Goes(b[n], TRUE) EXCEPT !.room = FALSE])
    BY <2>1 DEF Keeps, Buddy
  <2> QED
    BY <1>4, <1>o, <1>k, <2>2 DEF Part
<1>5. ASSUME NEW old \in Names, NEW new \in Names, Nick(old, new), old # n
      PROVE  Keeps(b[n], b'[n])
  <2>1. n # new => b'[n] = b[n]
    BY <1>5, <1>s DEF Nick
  <2>2. n = new => b[n].client = "absent"
    BY <1>5 DEF Nick, Unknown
  <2> QED
    BY <1>k, <2>1, <2>2 DEF Keeps
<1>6. CASE SignOn
  BY <1>6, <1>k DEF SignOn
<1>7. CASE SignOff
  BY <1>7, <1>s, <1>u, HandlersKeep DEF SignOff
<1>8. ASSUME NEW m \in Names, DelBuddy(m), m # n PROVE Keeps(b[n], b'[n])
  BY <1>8, <1>e DEF DelBuddy
<1>9. ASSUME NEW m \in Names, Open(m) PROVE Keeps(b[n], b'[n])
  <2>1. CASE b[m].client = "absent"
    BY <1>9, <1>s, <1>k, <2>1 DEF Open, Set, Keeps
  <2>2. CASE b[m].client # "absent"
    BY <1>9, <1>e, <1>s, <1>u, <2>2, HandlersKeep DEF Open
  <2> QED
    BY <2>1, <2>2
<1>10. ASSUME NEW m \in Names, Close(m) PROVE Keeps(b[n], b'[n])
  BY <1>10, <1>e, <1>s, <1>u, HandlersKeep DEF Close
<1>11. ASSUME NEW m \in Names, View(m) PROVE Keeps(b[n], b'[n])
  <2> DEFINE r == [b[m] EXCEPT !.waiting = FALSE,
                               !.closing = @ \/ (settings.autoclose /\ ~b[m].group)]
  <2>1. m = n => Keeps(b[n], r)
    BY <1>s DEF Keeps, Buddy
  <2> QED
    BY <1>11, <1>e, <2>1 DEF View
<1>12. ASSUME NEW m \in Names, NEW grp \in BOOLEAN, AddBuddy(m, grp) PROVE Keeps(b[n], b'[n])
  <2> DEFINE r == Add(b[m], grp, FALSE, TRUE)
  <2>1. ASSUME m = n, b[n].client # "absent" PROVE r.client # "absent"
    <3>1. Addable(b[n], grp)
      BY <1>12, <1>s, <2>1 DEF AddBuddy, Calm, Addable, Sane
    <3> QED
      BY <1>s, <1>u, <2>1, <3>1, SaneAdd, FALSE \in BOOLEAN
  <2> QED
    BY <1>12, <1>e, <1>o, <2>1 DEF AddBuddy, Keeps
<1>13. ASSUME NEW m \in Names, NEW typed \in BOOLEAN, Say(m, typed) PROVE Keeps(b[n], b'[n])
  <2> DEFINE r == IF typed THEN [b[m] EXCEPT !.win = "kept"] ELSE b[m]
  <2>1. m = n => Keeps(b[n], Sent(r))
    BY <1>s DEF Keeps, Sent, Buddy
  <2> QED
    BY <1>13, <1>e, <2>1 DEF Say
<1>14. CASE CloseAll
  BY <1>14, <1>s, <1>u, <1>k, HandlersKeep DEF CloseAll
<1>15. CASE UserSet
  BY <1>15, <1>k DEF UserSet
<1>16. ASSUME NEW due \in SUBSET Names, Maintain(due) PROVE Keeps(b[n], b'[n])
  BY <1>16, <1>s, <1>u, <1>o, <1>k, HandlersKeep DEF Maintain
<1>17. CASE UNCHANGED vars
  BY <1>17, <1>k DEF vars
<1> QED
  BY <1>1, <1>2, <1>3, <1>4, <1>5, <1>6, <1>7, <1>8, <1>9, <1>10, <1>11, <1>12,
     <1>13, <1>14, <1>15, <1>16, <1>17 DEF Next, Server, User, Timer

(* Under the same conditions a buddy in a group of the user's own leaves the
   list by /delbuddy alone, or under another name. *)
THEOREM PermanentBuddiesStay == Calm => (Spec => PermanentStays)
<1> SUFFICES ASSUME Calm PROVE Spec => PermanentStays
  OBVIOUS
<1>1. Sound /\ [Next]_vars
        => [\A n \in Names :
              b[n].client # "absent" /\ b[n].group /\ b'[n].client = "absent" =>
                \/ DelBuddy(n)
                \/ \E new \in Names : Nick(n, new)]_vars
  BY StepKeeps DEF Keeps
<1> QED
  BY <1>1, AlwaysSound, PTL DEF Spec, PermanentStays

-----------------------------------------------------------------------------
(* Which windows are closed, and what is lost with them. *)

(* The timer closes the window of nobody who is online or has messages queued,
   whatever else is open and whoever has been regrouped. *)
THEOREM TimerSparesThem == Spec => TimerSpares
<1>1. TypeOK /\ [Next]_vars
        => [Timer => \A n \in Names :
              b[n].client = "online" \/ b[n].queued > 0 => b'[n].win = b[n].win]_vars
  <2> SUFFICES ASSUME TypeOK, Timer, NEW n \in Names,
                      b[n].client = "online" \/ b[n].queued > 0
               PROVE  b'[n].win = b[n].win
    OBVIOUS
  <2>1. PICK due \in SUBSET Names : Maintain(due)
    BY DEF Timer
  <2>2. b[n] \in Buddy
    BY DEF TypeOK
  <2>3. b'[n] \in {CleanedUp(b[n], Others(n)), b[n]}
    BY <2>1 DEF Maintain
  <2>4. CleanedUp(b[n], Others(n)).win = b[n].win
    BY <2>2 DEF CleanedUp, Buddy
  <2> QED
    BY <2>3, <2>4
<1> QED
  BY <1>1, TypesInit, TypesInductive, PTL DEF Spec, TimerSpares

(* What an event leaves of a window that is kept, and of its queue. *)
WindowKept(r, s) ==
  r.win = "kept" => s.win = "kept" /\ (s.client = "online" \/ s.queued = r.queued)

LEMMA EventsKeepWindow ==
  ASSUME NEW r \in Buddy, Sane(r, up), NEW others \in BOOLEAN, settings \in Settings
  PROVE  /\ WindowKept(r, [Comes(r) EXCEPT !.room = TRUE])
         /\ WindowKept(r, Goes(r, others))
         /\ WindowKept(r, [Goes(r, others) EXCEPT !.room = FALSE])
         /\ WindowKept(r, Displayed(Autobuddied(r, others)))
         /\ WindowKept(r, Clear(r))
<1>1. Comes(r) \in Buddy /\ Goes(r, others) \in Buddy
  BY CallbackTypes
<1>2. WindowKept(r, Comes(r))
  BY DEF WindowKept, Comes, Coming, NewWin, Asserted, Sane, Buddy, Listing
<1>3. WindowKept(r, Goes(r, others))
  BY DEF WindowKept, Goes, Going, Buddy, Listing
<1>4. ASSUME NEW s \in Buddy, NEW room \in BOOLEAN, WindowKept(r, s)
      PROVE  WindowKept(r, [s EXCEPT !.room = room])
  BY <1>4 DEF WindowKept, Buddy
<1>5. WindowKept(r, Displayed(Autobuddied(r, others)))
  <2> SUFFICES ASSUME r.win = "kept" PROVE WindowKept(r, Displayed(Autobuddied(r, others)))
    BY DEF WindowKept
  <2>1. r.client # "absent"
    BY DEF Sane
  <2>2. Autobuddied(r, others) = r
    BY <2>1 DEF Autobuddied, NewWin
  <2> QED
    BY <2>2 DEF WindowKept, Displayed, Buddy
<1>6. WindowKept(r, Clear(r))
  BY DEF WindowKept, Clear, Buddy, Listing
<1> QED
  BY <1>1, <1>2, <1>3, <1>4, <1>5, <1>6

LEMMA EventStepKeeps ==
  ASSUME Sound, Server \/ SignOff, NEW n \in Names
  PROVE  \E m \in Names : (m = n \/ Nick(n, m)) /\ WindowKept(b[n], b'[m])
<1>s. b[n] \in Buddy /\ Sane(b[n], up) /\ b \in [Names -> Buddy] /\ Others(n) \in BOOLEAN
  BY OthersType DEF Sound, TypeOK
<1>u. settings \in Settings
  BY DEF Sound, TypeOK, Settings
<1>k. WindowKept(b[n], b[n])
  BY DEF WindowKept
<1>e. /\ WindowKept(b[n], [Comes(b[n]) EXCEPT !.room = TRUE])
      /\ WindowKept(b[n], Goes(b[n], Others(n)))
      /\ WindowKept(b[n], [Goes(b[n], Others(n)) EXCEPT !.room = FALSE])
      /\ WindowKept(b[n], Displayed(Autobuddied(b[n], Others(n))))
      /\ WindowKept(b[n], Clear(b[n]))
  BY <1>s, <1>u, EventsKeepWindow
<1>n. ASSUME WindowKept(b[n], b'[n])
      PROVE  \E m \in Names : (m = n \/ Nick(n, m)) /\ WindowKept(b[n], b'[m])
  BY <1>n
<1>set. ASSUME NEW m \in Names, NEW r, Set(m, r), m = n => WindowKept(b[n], r)
        PROVE  WindowKept(b[n], b'[n])
  BY <1>set, <1>s, <1>k DEF Set
<1>1. ASSUME NEW m \in Names, Join(m) \/ NoSuchNick(m) \/ Message(m)
      PROVE  WindowKept(b[n], b'[n])
  <2>1. CASE Join(m)
    BY <2>1, <1>e, <1>set DEF Join
  <2>2. CASE NoSuchNick(m)
    BY <2>2, <1>e, <1>set DEF NoSuchNick
  <2>3. CASE Message(m)
    BY <2>3, <1>e, <1>set DEF Message
  <2> QED
    BY <1>1, <2>1, <2>2, <2>3
<1>2. ASSUME NEW gone \in SUBSET Names, Part(gone) PROVE WindowKept(b[n], b'[n])
  BY <1>2, <1>e, <1>k DEF Part
<1>3. ASSUME NEW old \in Names, NEW new \in Names, Nick(old, new)
      PROVE  \E m \in Names : (m = n \/ Nick(n, m)) /\ WindowKept(b[n], b'[m])
  <2>1. CASE n = old
    <3>1. b'[new] = b[n]
      BY <1>3, <2>1, <1>s DEF Nick
    <3> QED
      BY <1>3, <2>1, <3>1, <1>k
  <2>2. CASE n = new
    <3>1. b[n].win = "none"
      BY <1>3, <2>2 DEF Nick, Unknown
    <3> QED
      BY <3>1, <1>n DEF WindowKept
  <2>3. CASE n # old /\ n # new
    <3>1. b'[n] = b[n]
      BY <1>3, <2>3, <1>s DEF Nick
    <3> QED
      BY <3>1, <1>k, <1>n
  <2> QED
    BY <2>1, <2>2, <2>3
<1>4. CASE SignOff
  <2>1. b'[n] = Clear(b[n])
    BY <1>4 DEF SignOff
  <2> QED
    BY <2>1, <1>e, <1>n
<1> QED
  BY <1>1, <1>2, <1>3, <1>4, <1>n DEF Server

(* Under the same conditions nothing the server sends, nor the session's end,
   closes a window the user has typed in or got a message in, or drops what is
   queued there; a nick change takes both along. *)
THEOREM WindowsOutliveEvents == Calm => (Spec => KeptThroughEvents)
<1> SUFFICES ASSUME Calm PROVE Spec => KeptThroughEvents
  OBVIOUS
<1>1. Sound => ((Server \/ SignOff) =>
        \A n \in Names : b[n].win = "kept" =>
          \E m \in Names :
             /\ m = n \/ Nick(n, m)
             /\ b'[m].win = "kept"
             /\ b'[m].client = "online" \/ b'[m].queued = b[n].queued)
  <2> SUFFICES ASSUME Sound, Server \/ SignOff, NEW n \in Names, b[n].win = "kept"
               PROVE  \E m \in Names :
                         /\ m = n \/ Nick(n, m)
                         /\ b'[m].win = "kept"
                         /\ b'[m].client = "online" \/ b'[m].queued = b[n].queued
    OBVIOUS
  <2> QED
    BY EventStepKeeps DEF WindowKept
<1> QED
  BY <1>1, AlwaysSound, PTL DEF Spec, KeptThroughEvents

=============================================================================

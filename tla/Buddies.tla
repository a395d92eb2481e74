------------------------------ MODULE Buddies ------------------------------
(***************************************************************************)
(* The buddy list of one IRC connection.                                   *)
(*                                                                         *)
(* It is kept twice, and the two copies are changed only through calls of  *)
(* each other:                                                             *)
(*                                                                         *)
(*   the wrapper's   firetalk_buddy_t, with online and uploaded            *)
(*   the client's    buddylist_t, with offline and the group               *)
(*                                                                         *)
(* and a window may be open for a buddy, buddywin_t, which points into the *)
(* client's copy, keeps the messages queued for an absent buddy, and may   *)
(* be waiting to be closed together with a buddy who is only temporary.    *)
(* A driver's event comes up through the wrapper into bcoming or bgoing,   *)
(* and bgoing may call down again to remove the very buddy whose event is  *)
(* being handled, or whose removal caused it.                              *)
(*                                                                         *)
(* Everything kept under one name is one record of b, absent parts and     *)
(* all: every routine finds what it works on by name, and its operator     *)
(* here takes that record to the record it leaves.  The sign-on is         *)
(* Session's; here a session is up or it is not.  A nick change is modelled *)
(* when the new name is not in the list.                                   *)
(***************************************************************************)
EXTENDS Integers, FiniteSets

CONSTANTS
  Names,        \* names, as the protocol's comparenicks tells them apart
  OtherWindow,  \* the connection always has a window that is no buddy's
  Regroup,      \* /addbuddy is given for a buddy in the other kind of group
  MaxQueued     \* bound: messages queued for one absent buddy

ASSUME BuddiesAssumption ==
  /\ {OtherWindow, Regroup} \subseteq BOOLEAN
  /\ MaxQueued \in Nat

VARIABLES
  b,         \* what is kept under each name
  up,        \* whether the session is up
  settings   \* $autobuddy, $autoclose and $autoquery

vars == <<b, up, settings>>

Listing == {"absent", "offline", "online"}

Buddy ==
  [wrapper  : Listing,   \* the first firetalk_buddy_t of the name, and its online
   uploaded : BOOLEAN,
   wgroup   : BOOLEAN,   \* its group is not "User"
   client   : Listing,   \* the first buddylist_t of the name, and its offline
   group    : BOOLEAN,   \* USER_PERMANENT: its _group is not "User"
   win      : {"none", "temporary", "kept"},  \* its window, and keepafterso
   waiting  : BOOLEAN,   \* unread messages
   closing  : BOOLEAN,   \* closetime is set
   queued   : 0..MaxQueued,                   \* pouncec
   room     : BOOLEAN,   \* firetalk_user_visible: a member of a room we are in
   fault    : {"none", "assert", "freed"}]    \* what has ended the program

Unknown == [wrapper |-> "absent", uploaded |-> FALSE, wgroup |-> FALSE,
            client |-> "absent", group |-> FALSE,
            win |-> "none", waiting |-> FALSE, closing |-> FALSE, queued |-> 0,
            room |-> FALSE, fault |-> "none"]

Init ==
  /\ b = [n \in Names |-> Unknown]
  /\ up = FALSE
  /\ settings \in [autobuddy : BOOLEAN, autoclose : BOOLEAN, autoquery : BOOLEAN]

Running == \A n \in Names : b[n].fault = "none"

-----------------------------------------------------------------------------
(* The client's copy: rc.c and buddy.c. *)

Asserted(holds, r) == IF holds THEN r ELSE [r EXCEPT !.fault = "assert"]

AddClient(r, grp) ==
  IF r.client # "absent" THEN r ELSE [r EXCEPT !.client = "offline", !.group = grp]

DelClient(r) ==
  [Asserted(r.win = "none", r) EXCEPT !.client = "absent", !.group = FALSE]

CloseWin(r) ==
  [r EXCEPT !.win = "none", !.waiting = FALSE, !.closing = FALSE, !.queued = 0]

NewWin(r) ==
  IF r.win # "none"
  THEN r
  ELSE [Asserted(r.client # "absent", r) EXCEPT !.win = "temporary"]

(* The handlers of FC_IM_BUDDYADDED and FC_IM_BUDDYREMOVED. *)
BuddyAdded(r, grp) == [AddClient(r, grp) EXCEPT !.group = grp]
BuddyRemoved(r)    == DelClient(CloseWin(r))

(* Mutant: the window is only looked for where it would be opened. *)
ComingKeepsQueue(r) ==
  IF r.client = "offline"
  THEN [r EXCEPT !.client = "online", !.queued = IF settings.autoquery THEN 0 ELSE @]
  ELSE r

(* Mutant: one message is taken from the queue, there or not. *)
ComingSendsOne(r) ==
  IF r.client = "offline"
  THEN [r EXCEPT !.client = "online", !.queued = @ - 1]
  ELSE r

(* bcoming: what was queued is sent as soon as the buddy is marked online. *)
Coming(r) ==
  LET found == Asserted(r.client # "absent", r)
      shown == IF settings.autoquery THEN NewWin(found) ELSE found
  IN  IF shown.client = "offline"
      THEN [shown EXCEPT !.client = "online", !.queued = 0]
      ELSE shown

-----------------------------------------------------------------------------
(* The wrapper's copy, and the two callbacks that tell of a buddy's coming  *)
(* and going.                                                               *)

(* firetalk_im_delete_buddy; without a buddy it does nothing. *)
Delete(r) ==
  IF r.wrapper = "absent"
  THEN r
  ELSE [BuddyRemoved(r) EXCEPT !.wrapper = "absent", !.uploaded = FALSE, !.wgroup = FALSE]

(* Mutant: a buddy whose window is not kept goes with it, permanent or not. *)
GoingForgets(r, others) ==
  LET gone == [r EXCEPT !.client = "offline"]
  IN  IF r.client = "absent" THEN r
      ELSE IF r.win = "none" THEN gone
      ELSE IF r.win = "kept" THEN [gone EXCEPT !.closing = TRUE]
      ELSE Delete(CloseWin(gone))

(* Mutant: the window of a buddy who leaves is closed, kept or not. *)
GoingClosesKept(r, others) ==
  IF r.client = "absent" THEN r
  ELSE CloseWin([r EXCEPT !.client = "offline"])

(* bgoing.  Others tells of any other window: without one at all it returns at
   once.  A window that need not be kept is closed, and a temporary buddy
   removed along with it, here and in the wrapper, where the buddy is known to
   be offline by now. *)
Going(r, others) ==
  LET gone   == [r EXCEPT !.client = "offline"]
      closed == CloseWin(gone)
      temporary == settings.autoclose /\ ~r.group
  IN  IF r.client = "absent" \/ (r.win = "none" /\ ~others) THEN r
      ELSE IF r.win = "none" THEN gone
      ELSE IF r.win = "kept"
           THEN [gone EXCEPT !.closing = @ \/ (temporary /\ ~r.waiting)]
      ELSE IF ~temporary THEN closed
      ELSE IF closed.wrapper = "absent" THEN DelClient(closed) ELSE Delete(closed)

(* firetalk_callback_im_buddyonline *)
Comes(r)        == IF r.wrapper = "offline" THEN Coming([r EXCEPT !.wrapper = "online"]) ELSE r
Goes(r, others) == IF r.wrapper = "online"
                   THEN Going([r EXCEPT !.wrapper = "offline"], others)
                   ELSE r

(* firetalk_im_remove_buddy.  The driver first has the buddy go, and the buddy
   may then be gone already. *)
Remove(r, others) == Delete(IF up THEN Goes(r, others) ELSE r)

(* What a caller does with it: FE_NOTFOUND leaves the client's copy to it. *)
RemoveBoth(r, others) == IF r.wrapper = "absent" THEN DelClient(r) ELSE Remove(r, others)

(* firetalk_im_add_buddy's first half.  A buddy moved to another group is
   removed from the driver first; if that removes it from the wrapper too, what
   follows writes to freed memory. *)
Replace(r, grp, others) ==
  LET left == IF up /\ r.uploaded THEN Goes(r, others) ELSE r
  IN  IF r.wgroup = grp THEN r
      ELSE IF left.wrapper = "absent" THEN [left EXCEPT !.fault = "freed"]
      ELSE BuddyAdded([left EXCEPT !.wgroup = grp], grp)

Insert(r, grp) == BuddyAdded([r EXCEPT !.wrapper = "offline", !.wgroup = grp], grp)

(* Mutant: a new buddy is taken for offline until its next JOIN. *)
AddWithoutLook(r, grp, writes, others) ==
  LET listed == IF r.wrapper = "absent" THEN Insert(r, grp) ELSE Replace(r, grp, others)
      sent   == [listed EXCEPT !.uploaded = up]
  IN  IF writes THEN Comes(sent) ELSE sent

(* Then the driver is told, and who is in a room or has just written is online. *)
Add(r, grp, writes, others) ==
  LET listed == IF r.wrapper = "absent" THEN Insert(r, grp) ELSE Replace(r, grp, others)
      seen   == IF up /\ r.room THEN Comes(listed) ELSE listed
      sent   == [seen EXCEPT !.uploaded = @ \/ up]
  IN  IF listed.fault # "none" THEN listed
      ELSE IF writes THEN Comes(sent) ELSE sent

-----------------------------------------------------------------------------
(* What the server sends while the session is up. *)

Others(n) == OtherWindow \/ \E m \in Names \ {n} : b[m].win # "none"

Set(n, r) == b' = [b EXCEPT ![n] = r]

Online == Running /\ up

(* JOIN, and each name of a 353. *)
Join(n) ==
  /\ Online
  /\ Set(n, [Comes(b[n]) EXCEPT !.room = TRUE])
  /\ UNCHANGED <<up, settings>>

(* A QUIT, a PART of the last room shared, or our own PART of a room: those not
   seen in another room have gone.  (Of several who go at once, the last window
   closed would make bgoing return early for the rest: one at a time, then.) *)
Part(gone) ==
  /\ Online
  /\ gone # {}
  /\ \A n \in gone : b[n].room
  /\ OtherWindow \/ Cardinality(gone) = 1
  /\ b' = [n \in Names |-> IF n \in gone
                           THEN [Goes(b[n], Others(n)) EXCEPT !.room = FALSE]
                           ELSE b[n]]
  /\ UNCHANGED <<up, settings>>

(* 401, the answer to a message for one who is not there. *)
NoSuchNick(n) ==
  /\ Online
  /\ ~b[n].room
  /\ Set(n, Goes(b[n], Others(n)))
  /\ UNCHANGED <<up, settings>>

(* fireio_buddy_nickchanged renames the client's copy and the window; the rooms'
   members are renamed whether in the list or not. *)
Nick(old, new) ==
  /\ Online
  /\ b[old].room
  /\ b[new] = Unknown
  /\ b' = [b EXCEPT ![old] = Unknown, ![new] = b[old]]
  /\ UNCHANGED <<up, settings>>

(* Mutant: the window is opened before the buddy is in the list. *)
AutobuddiedWindowFirst(r, others) ==
  IF settings.autobuddy
  THEN Add(AddClient(NewWin(r), FALSE), FALSE, TRUE, others)
  ELSE r

(* fireio_recvfrom_autobuddy, fireio_recvfrom_display_user *)
Autobuddied(r, others) ==
  IF ~settings.autobuddy THEN r
  ELSE IF r.client = "absent"
       THEN Add(NewWin(AddClient(Asserted(r.win = "none", r), FALSE)), FALSE, TRUE, others)
       ELSE NewWin(r)

Displayed(r) ==
  IF r.client = "absent" \/ r.win = "none" THEN r
  ELSE [r EXCEPT !.win = "kept", !.waiting = TRUE]

Message(n) ==
  /\ Online
  /\ Set(n, Displayed(Autobuddied(b[n], Others(n))))
  /\ UNCHANGED <<up, settings>>

-----------------------------------------------------------------------------
(* The session comes up, and goes with all that was known of anyone. *)

SignOn ==
  /\ Running
  /\ ~up
  /\ up' = TRUE
  /\ UNCHANGED <<b, settings>>

(* Mutant: only the buddies with windows are marked. *)
ClearWindowsOnly(r) ==
  LET marked == [r EXCEPT !.wrapper = IF @ = "online" THEN "offline" ELSE @,
                          !.uploaded = FALSE, !.room = FALSE]
  IN  IF r.win = "none" THEN marked ELSE [marked EXCEPT !.client = "offline"]

(* firetalk_callback_disconnect and bclearall(conn, 0). *)
Clear(r) ==
  LET marked == [r EXCEPT !.wrapper  = IF @ = "online" THEN "offline" ELSE @,
                          !.client   = IF @ = "online" THEN "offline" ELSE @,
                          !.uploaded = FALSE,
                          !.room     = FALSE]
  IN  IF r.win = "temporary" THEN CloseWin(marked) ELSE marked

SignOff ==
  /\ Online
  /\ up' = FALSE
  /\ b' = [n \in Names |-> Clear(b[n])]
  /\ UNCHANGED settings

-----------------------------------------------------------------------------
(* Commands, and the user's looking at a window. *)

AddBuddy(n, grp) ==
  /\ Running
  /\ Regroup \/ b[n].wrapper = "absent" \/ b[n].wgroup = grp
  /\ Set(n, Add(b[n], grp, FALSE, Others(n)))
  /\ UNCHANGED <<up, settings>>

DelBuddy(n) ==
  /\ Running
  /\ b[n].win = "none"
  /\ LET r == IF b[n].client # "absent" THEN RemoveBoth(b[n], Others(n))
                                         ELSE Remove(b[n], Others(n))
     IN  Set(n, Asserted(r.client = "absent", r))
  /\ UNCHANGED <<up, settings>>

Open(n) ==
  /\ Running
  /\ b[n].win = "none"
  /\ Set(n, NewWin(IF b[n].client = "absent"
                   THEN Add(AddClient(b[n], FALSE), FALSE, FALSE, Others(n))
                   ELSE b[n]))
  /\ UNCHANGED <<up, settings>>

Close(n) ==
  /\ Running
  /\ b[n].win # "none"
  /\ Set(n, CloseWin(b[n]))
  /\ UNCHANGED <<up, settings>>

CloseAll ==
  /\ Running
  /\ b' = [n \in Names |->
             IF b[n].win # "none" /\ b[n].client # "online" /\ b[n].queued = 0
             THEN CloseWin(b[n]) ELSE b[n]]
  /\ UNCHANGED <<up, settings>>

(* naim_send_im: to a window whose buddy is not there the message is queued. *)
Sent(r) == IF r.win = "none" \/ (up /\ r.client = "online")
           THEN r
           ELSE [r EXCEPT !.queued = @ + 1]

(* A line typed in the buddy's window, which is kept from then on, or /msg. *)
Say(n, typed) ==
  /\ Running
  /\ b[n].win # "none"
  /\ b[n].queued < MaxQueued
  /\ Set(n, Sent(IF typed THEN [b[n] EXCEPT !.win = "kept"] ELSE b[n]))
  /\ UNCHANGED <<up, settings>>

(* bupdate, with the window in front. *)
View(n) ==
  /\ Running
  /\ b[n].waiting
  /\ Set(n, [b[n] EXCEPT !.waiting = FALSE,
                         !.closing = @ \/ (settings.autoclose /\ ~b[n].group)])
  /\ UNCHANGED <<up, settings>>

UserSet ==
  /\ Running
  /\ \E v \in DOMAIN settings : settings' = [settings EXCEPT ![v] = ~@]
  /\ UNCHANGED <<b, up>>

-----------------------------------------------------------------------------
(* Mutant: the buddy is not looked at again when the time has come. *)
CleanedUpUnseen(r, others) == RemoveBoth(CloseWin(r), others)

(* A window whose closetime has passed, in events_winlistmaint. *)
CleanedUp(r, others) ==
  IF r.client = "online" \/ r.group \/ r.queued > 0
  THEN [r EXCEPT !.closing = FALSE]
  ELSE RemoveBoth(CloseWin(r), others)

(* Once a minute, for the windows whose time has come. *)
Maintain(due) ==
  /\ Running
  /\ due # {}
  /\ \A n \in due : b[n].closing
  /\ b' = [n \in Names |-> IF n \in due THEN CleanedUp(b[n], Others(n)) ELSE b[n]]
  /\ UNCHANGED <<up, settings>>

-----------------------------------------------------------------------------
Server ==
  \/ \E n \in Names : Join(n) \/ NoSuchNick(n) \/ Message(n)
  \/ \E gone \in SUBSET Names : Part(gone)
  \/ \E old, new \in Names : Nick(old, new)

User ==
  \/ \E n \in Names : DelBuddy(n) \/ Open(n) \/ Close(n) \/ View(n)
  \/ \E n \in Names, grp \in BOOLEAN : AddBuddy(n, grp)
  \/ \E n \in Names, typed \in BOOLEAN : Say(n, typed)
  \/ CloseAll
  \/ UserSet

Timer == \E due \in SUBSET Names : Maintain(due)

Next == Server \/ SignOn \/ SignOff \/ User \/ Timer

Spec == Init /\ [][Next]_vars

-----------------------------------------------------------------------------
(* Properties. *)

TypeOK ==
  /\ b \in [Names -> Buddy]
  /\ up \in BOOLEAN
  /\ settings \in [autobuddy : BOOLEAN, autoclose : BOOLEAN, autoquery : BOOLEAN]

(* No handler runs into an assertion or into a buddy already freed, whatever it
   finds removed by a handler it called: buddies do not go from one list while a
   window or a callback still needs them (bcoming, bnewwin, rdelbuddy,
   ua_delbuddy, fireio_recvfrom_autobuddy, firetalk_im_replace_buddy). *)
NoFault == \A n \in Names : b[n].fault = "none"

(* The two copies of the list have the same buddies, in the same groups, and
   agree on who is online, though each is changed first by some of the paths. *)
ListsAgree ==
  \A n \in Names : b[n].wrapper = b[n].client /\ b[n].wgroup = b[n].group

(* A buddy seen in a room is online, however it got into the list or the room:
   irc_im_add_buddy looks among the rooms' members, JOIN among the buddies. *)
VisibleIsOnline ==
  \A n \in Names : b[n].room /\ b[n].wrapper # "absent" => b[n].wrapper = "online"

(* A message is in the queue only while it cannot be sent: none stays behind
   when the buddy has come (bcoming), and none is queued for one who is there. *)
QueuedOnlyForAbsent ==
  \A n \in Names : b[n].queued > 0 => b[n].win # "none" /\ b[n].client = "offline"

(* Only /delbuddy takes a buddy in a group of the user's own off the list; what
   goes by itself, at sign-off or by the timer, was in the group "User". *)
PermanentStays ==
  [][\A n \in Names :
       b[n].client # "absent" /\ b[n].group /\ b'[n].client = "absent" =>
         \/ DelBuddy(n)
         \/ \E new \in Names : Nick(n, new)]_vars

(* Nothing the server sends closes a window that the user has typed in or got a
   message in, or drops a message queued there; renaming takes it along. *)
KeptThroughEvents ==
  [][(Server \/ SignOff) =>
       \A n \in Names : b[n].win = "kept" =>
         \E m \in Names :
            /\ m = n \/ Nick(n, m)
            /\ b'[m].win = "kept"
            /\ b'[m].client = "online" \/ b'[m].queued = b[n].queued]_vars

(* The timer takes only the buddies who are offline and have nothing queued. *)
TimerSpares ==
  [][Timer => \A n \in Names :
       b[n].client = "online" \/ b[n].queued > 0 => b'[n].win = b[n].win]_vars

(* The timer closes no window with unread messages. *)
UnreadKept ==
  [][Timer => \A n \in Names : b[n].waiting => b'[n].win # "none"]_vars

(* /addbuddy leaves the buddy in the list, in the group that was asked for. *)
AddedIsListed ==
  [][\A n \in Names, grp \in BOOLEAN :
       AddBuddy(n, grp) => b'[n].wrapper # "absent" /\ b'[n].wgroup = grp]_vars
=============================================================================

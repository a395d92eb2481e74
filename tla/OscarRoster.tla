----------------------------- MODULE OscarRoster -----------------------------
(***************************************************************************)
(* The buddy list of an OSCAR session, which four keep: the wrapper (and   *)
(* the client with it), the driver in Lua, the server, and other clients   *)
(* of the account.  An item of the server's list is one person at a pair   *)
(* of a group's and an item's number; the client makes the numbers up.     *)
(*                                                                         *)
(* The server does at once what the driver asks; what it tells is under    *)
(* way in order.  Names that differ in case and alias are not modelled,    *)
(* and the list fits one SNAC.                                             *)
(***************************************************************************)
EXTENDS Integers, Sequences, FiniteSets, SequencesExt, FiniteSetsExt

CONSTANTS
  Buddies, GroupNames,
  Nothing,     \* no person, no group
  MaxGid,      \* bound: groups at the server
  MaxMid,      \* bound: items of a group
  MaxTold,     \* bound: frames under way
  Whims        \* sets of what may happen, one of them in each behaviour

(* "crowds": a buddy is added where the number made up for him is taken; "refills": to
   a group that the driver has and the server has not any more; "early": the list is
   changed before it has come; "races": while the server tells of another client's
   changes; "elsewhere": another client gives an item a number of another group's item;
   "absent": another client takes a buddy from the list, and this one is not told. *)
Whim == {"crowds", "refills", "early", "races", "elsewhere", "absent"}

ASSUME OscarRosterAssumption ==
  /\ {MaxGid, MaxMid, MaxTold} \subseteq Nat
  /\ Whims \subseteq SUBSET Whim
  /\ Nothing \notin Buddies \cup GroupNames

VARIABLES
  roster,   \* the wrapper's and the driver's list
  site,     \* the server's, and what it tells
  whim      \* constant

rosterVars == <<roster, site, whim>>

Gids  == 1..MaxGid
Mids  == 1..MaxMid
Items == Gids \X Mids

List == [groups : [Gids -> GroupNames \cup {Nothing}], members : [Items -> Buddies \cup {Nothing}]]

NoList == [groups |-> [k \in Gids |-> Nothing], members |-> [i \in Items |-> Nothing]]

Told ==
  [kind : {"limits", "start", "end"}] \cup
  [kind : {"roster"}, list : List] \cup
  [kind : {"add"}, item : Items, who : Buddies] \cup
  [kind : {"addgroup"}, gid : Gids, name : GroupNames] \cup
  [kind : {"remove"}, item : Items] \cup
  [kind : {"removegroup"}, gid : Gids]

Roster ==
  [up      : BOOLEAN,          \* signed on
   loaded  : BOOLEAN,          \* the list has come in this session
   known   : BOOLEAN,          \* self.groups is not nil
   ssibusy : BOOLEAN,
   groups  : [Gids -> GroupNames \cup {Nothing}],       \* self.groups, which outlives a session
   members : [Items -> Buddies \cup {Nothing}],
   buddies : [Buddies -> [group : GroupNames \cup {Nothing}, uploaded : BOOLEAN]],  \* the wrapper's
   fault   : BOOLEAN]          \* the driver has given up the session

Unlisted == [group |-> Nothing, uploaded |-> FALSE]

RosterInit ==
  /\ roster = [up |-> FALSE, loaded |-> FALSE, known |-> FALSE, ssibusy |-> FALSE,
               groups |-> NoList.groups, members |-> NoList.members,
               buddies |-> [p \in Buddies |-> Unlisted], fault |-> FALSE]
  /\ site = [list |-> NoList, told |-> <<>>]
  /\ whim \in Whims

-----------------------------------------------------------------------------
(* Lists. *)

WhereIs(members, who)   == {i \in Items : members[i] = who}
Without(members, who) == [i \in Items |-> IF members[i] = who THEN Nothing ELSE members[i]]
Empty(members, k)     == \A m \in Mids : members[<<k, m>>] = Nothing
Groupless(l, k)       == [groups  |-> [l.groups EXCEPT ![k] = Nothing],
                          members |-> [i \in Items |-> IF i[1] = k THEN Nothing ELSE l.members[i]]]

(* The server: what is there already, and what has no group, it refuses. *)
ServerAddGroup(l, k, name) ==
  IF l.groups[k] # Nothing \/ name \in ToSet(l.groups) THEN l ELSE [l EXCEPT !.groups[k] = name]

ServerAdd(l, i, who) ==
  IF l.groups[i[1]] = Nothing \/ l.members[i] # Nothing THEN l ELSE [l EXCEPT !.members[i] = who]

ServerRemove(l, who, where) ==
  [l EXCEPT !.members = [i \in Items |-> IF i \in where /\ l.members[i] = who THEN Nothing
                                         ELSE l.members[i]]]

ServerRemoveGroups(l, ks) ==
  [groups  |-> [k \in Gids |-> IF k \in ks THEN Nothing ELSE l.groups[k]],
   members |-> [i \in Items |-> IF i[1] \in ks THEN Nothing ELSE l.members[i]]]

-----------------------------------------------------------------------------
(* The driver's part of the user's commands, on the driver's and the server's lists. *)

RosterState == [r |-> roster, l |-> site.list]

TargetOf(r, group) == {k \in Gids : r.groups[k] = group}

(* The group that a buddy is added to, and the number he gets: one more than his own
   last there, whatever else is in it. *)
NewGid(r, group) ==
  IF TargetOf(r, group) # {} THEN Max(TargetOf(r, group))
  ELSE 1 + Max({0} \cup {k \in Gids : r.groups[k] # Nothing})

NewMid(r, who, group) ==
  1 + Max({0} \cup {i[2] : i \in {j \in WhereIs(r.members, who) : r.groups[j[1]] = group}})

(* OSCAR:im_remove_buddy, no transaction being under way: a group that is empty is
   removed at the server and kept in the driver. *)
DriverRemove(s, who, group) ==
  LET here  == {i \in WhereIs(s.r.members, who) : s.r.groups[i[1]] = group}
      kept  == [i \in Items |-> IF i \in here THEN Nothing ELSE s.r.members[i]]
      empty == {k \in Gids : s.r.groups[k] # Nothing /\ Empty(kept, k)}
  IN  [r |-> [s.r EXCEPT !.members = kept],
       l |-> ServerRemoveGroups(ServerRemove(s.l, who, here), empty)]

(* OSCAR:im_add_buddy, no transaction being under way; he is told to be added, too. *)
DriverAdd(s, who, group) ==
  LET target == TargetOf(s.r, group)
      kept   == Without(s.r.members, who)
      empty  == {k \in Gids \ target : s.r.groups[k] # Nothing /\ Empty(kept, k)}
      gid    == NewGid(s.r, group)
      item   == <<gid, NewMid(s.r, who, group)>>
      pruned == ServerRemoveGroups(ServerRemove(s.l, who, WhereIs(s.r.members, who)), empty)
  IN  [r |-> [s.r EXCEPT !.groups  = [k \in Gids |-> IF k = gid THEN group
                                                     ELSE IF k \in empty THEN Nothing ELSE @[k]],
                         !.members = [kept EXCEPT ![item] = who],
                         !.buddies[who].uploaded = TRUE],
       l |-> ServerAdd(IF target = {} THEN ServerAddGroup(pruned, gid, group) ELSE pruned, item, who)]

(* Either is refused while the server's transaction is under way, and fails without a
   list. *)
TakesChanges(r) == r.up /\ r.known /\ ~r.ssibusy

-----------------------------------------------------------------------------
(* The user. *)

Quiet == roster.up =>
  /\ roster.loaded \/ "early" \in whim
  /\ \A j \in DOMAIN site.told : site.told[j].kind \in {"limits", "roster"} \/ "races" \in whim

Becomes(s) == roster' = s.r /\ site' = [site EXCEPT !.list = s.l] /\ UNCHANGED whim

(* firetalk_im_replace_buddy: a buddy who was uploaded is taken out of his group. *)
ReplaceBuddy(s, who, group) ==
  LET buddy == s.r.buddies[who]
      out   == IF buddy.uploaded /\ TakesChanges(s.r) THEN DriverRemove(s, who, buddy.group) ELSE s
  IN  IF buddy.group = group THEN s ELSE [out EXCEPT !.r.buddies[who].group = group]

(* firetalk_im_add_buddy. *)
UserAdds(who, group) ==
  LET s    == IF roster.buddies[who].group = Nothing
              THEN [RosterState EXCEPT !.r.buddies[who].group = group]
              ELSE ReplaceBuddy(RosterState, who, group)
      item == <<NewGid(s.r, group), NewMid(s.r, who, group)>>
  IN  /\ Quiet
      /\ TakesChanges(s.r) =>
           /\ item \in Items
           /\ Without(s.r.members, who)[item] # Nothing => "crowds" \in whim
           /\ TargetOf(s.r, group) # {} /\ s.l.groups[item[1]] # group => "refills" \in whim
      /\ Becomes(IF TakesChanges(s.r) THEN DriverAdd(s, who, group) ELSE s)

(* firetalk_im_remove_buddy. *)
UserRemoves(who) ==
  LET taken == IF roster.up THEN DriverRemove(RosterState, who, roster.buddies[who].group) ELSE RosterState
  IN  /\ roster.buddies[who].group # Nothing
      /\ Quiet
      /\ IF roster.up /\ ~TakesChanges(roster) THEN UNCHANGED rosterVars
         ELSE Becomes([taken EXCEPT !.r.buddies[who] = Unlisted])

RosterSignsOn ==
  /\ ~roster.up /\ ~roster.fault
  /\ roster' = [roster EXCEPT !.up = TRUE, !.loaded = FALSE, !.ssibusy = FALSE]
  /\ site' = [site EXCEPT !.told = <<[kind |-> "limits"]>>]
  /\ UNCHANGED whim

(* The session is left or lost. *)
GoesOff ==
  /\ roster.up
  /\ (\E j \in DOMAIN site.told : site.told[j].kind = "remove") => "absent" \in whim
  /\ roster' = [roster EXCEPT !.up = FALSE]
  /\ site' = [site EXCEPT !.told = <<>>]
  /\ UNCHANGED whim

-----------------------------------------------------------------------------
(* What comes from the server. *)

(* OSCAR:_CommitDirty, of one item or of the whole list: each is told to be added. *)
CommitDirty(r, dirty) ==
  LET placed == [p \in Buddies |-> {i \in dirty : r.members[i] = p}]
  IN  [r EXCEPT !.buddies = [p \in Buddies |->
         IF placed[p] = {} THEN r.buddies[p]
         ELSE [group |-> r.groups[(CHOOSE i \in placed[p] : TRUE)[1]], uploaded |-> TRUE]]]

(* OSCAR:_AddItem, of a buddy, out of a transaction: the number is looked for in the
   other groups. *)
AddItem(r, item, who) ==
  LET others == IF r.members[item] # Nothing THEN r.members
                ELSE [i \in Items |-> IF i[2] = item[2] THEN Nothing ELSE r.members[i]]
  IN  [r EXCEPT !.members = [others EXCEPT ![item] = who]]

(* firetalk_callback_buddyremoved. *)
OscarBuddyRemoved(r, who, group) ==
  IF r.buddies[who].group = group THEN [r EXCEPT !.buddies[who] = Unlisted] ELSE r

(* OSCAR:BOSSSIRemoveItem; that there is no such item is an error, which ends the
   session. *)
RemoveItem(r, item) ==
  LET who == r.members[item]
  IN  IF who = Nothing THEN [r EXCEPT !.up = FALSE, !.fault = TRUE]
      ELSE [OscarBuddyRemoved(r, who, r.groups[item[1]]) EXCEPT !.members[item] = Nothing]

(* BOSSSIRosterReply: a group of the list takes the place of one with its number. *)
RosterReply(r, l) ==
  LET mine   == {k \in Gids : l.groups[k] = Nothing}
      loaded == [r EXCEPT !.groups  = [k \in Gids |-> IF k \in mine THEN @[k] ELSE l.groups[k]],
                          !.members = [i \in Items |-> IF i[1] \in mine THEN @[i] ELSE l.members[i]],
                          !.loaded  = TRUE]
  IN  CommitDirty(loaded, {i \in Items : l.members[i] # Nothing})

Hears ==
  /\ roster.up /\ site.told # <<>>
  /\ LET m    == Head(site.told)
         rest == [site EXCEPT !.told = Tail(@)]
         is(r) == roster' = r /\ site' = [rest EXCEPT !.told = IF r.up THEN @ ELSE <<>>]
     IN  \/ /\ m.kind = "limits"                 \* OSCAR:BOSSSILimitReply asks for the list
            /\ roster' = [roster EXCEPT !.known = TRUE, !.groups = NoList.groups,
                                        !.members = NoList.members]
            /\ site' = [rest EXCEPT !.told = Append(@, [kind |-> "roster", list |-> site.list])]
         \/ m.kind = "roster" /\ is(RosterReply(roster, m.list))
         \/ m.kind = "start" /\ is([roster EXCEPT !.ssibusy = TRUE])
         \/ m.kind = "end" /\ is([roster EXCEPT !.ssibusy = FALSE])
         \/ m.kind = "addgroup" /\ is([roster EXCEPT !.groups[m.gid] = m.name,
                                                     !.members = [i \in Items |->
                                                        IF i[1] = m.gid THEN Nothing ELSE @[i]]])
         \/ m.kind = "add" /\ is(CommitDirty(AddItem(roster, m.item, m.who), {m.item}))
         \/ m.kind = "remove" /\ is(RemoveItem(roster, m.item))
         \/ /\ m.kind = "removegroup"
            /\ is([roster EXCEPT !.groups[m.gid] = Nothing,
                                 !.members = [i \in Items |-> IF i[1] = m.gid THEN Nothing ELSE @[i]]])
  /\ UNCHANGED whim

-----------------------------------------------------------------------------
(* Another client of the account, which numbers as it likes what is free. *)

Listens == roster.up /\ \A j \in DOMAIN site.told : site.told[j].kind # "limits"

Tells(frames) ==
  IF Listens THEN site.told \o <<[kind |-> "start"]>> \o frames \o <<[kind |-> "end"]>>
  ELSE site.told

Another(list, frames) ==
  /\ Len(site.told) <= MaxTold
  /\ site' = [list |-> list, told |-> Tells(frames)]
  /\ UNCHANGED <<roster, whim>>

AnotherAdds(who, item, group) ==
  LET l    == site.list
      made == ServerAddGroup(l, item[1], group)
      new  == IF l.groups[item[1]] = Nothing
              THEN <<[kind |-> "addgroup", gid |-> item[1], name |-> group]>> ELSE <<>>
  IN  /\ WhereIs(l.members, who) = {} /\ l.members[item] = Nothing /\ made.groups[item[1]] = group
      /\ (\E k \in Gids : l.members[<<k, item[2]>>] # Nothing) => "elsewhere" \in whim
      /\ Another(ServerAdd(made, item, who), Append(new, [kind |-> "add", item |-> item, who |-> who]))

AnotherRemoves(item) ==
  LET left == [site.list EXCEPT !.members[item] = Nothing]
      gone == [kind |-> "remove", item |-> item]
  IN  /\ site.list.members[item] # Nothing
      /\ Listens \/ "absent" \in whim
      /\ IF Empty(left.members, item[1])
         THEN Another(Groupless(left, item[1]), <<gone, [kind |-> "removegroup", gid |-> item[1]]>>)
         ELSE Another(left, <<gone>>)

RosterNext ==
  \/ \E p \in Buddies, g \in GroupNames : UserAdds(p, g)
  \/ \E p \in Buddies : UserRemoves(p)
  \/ RosterSignsOn \/ GoesOff \/ Hears
  \/ \E p \in Buddies, i \in Items, g \in GroupNames : AnotherAdds(p, i, g)
  \/ \E i \in Items : AnotherRemoves(i)

RosterSpec == RosterInit /\ [][RosterNext]_rosterVars

-----------------------------------------------------------------------------
RosterTypeOK ==
  /\ roster \in Roster
  /\ site.list \in List /\ site.told \in Seq(Told)
  /\ whim \subseteq Whim

Settled == roster.up /\ roster.loaded /\ site.told = <<>> /\ ~roster.ssibusy

(* Once the list has come and nothing is under way, driver and server have the same
   items, and the wrapper's list has each of the server's buddies in his group and
   takes nobody else to be there: but for what the whims name. *)
OscarListsAgree ==
  Settled /\ whim = {} =>
    /\ roster.members = site.list.members
    /\ \A p \in Buddies :
         LET there == {site.list.groups[i[1]] : i \in WhereIs(site.list.members, p)}
         IN  /\ there \subseteq {roster.buddies[p].group}
             /\ roster.buddies[p].uploaded <=> there # {}

(* What the server tells never makes the driver give up the session, but where numbers
   clash. *)
NoRosterFault == roster.fault => whim \cap {"crowds", "early", "races", "elsewhere"} # {}

(* A buddy that the driver has said is added is on the server's list. *)
AddedIsStored ==
  Settled => \A p \in Buddies : roster.buddies[p].uploaded => WhereIs(site.list.members, p) # {}
=============================================================================

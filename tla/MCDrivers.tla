----------------------------- MODULE MCDrivers -----------------------------
(***************************************************************************)
(* What the drivers keep, checked side by side: TOC2's session and buddy   *)
(* list, its rooms, the SLCP driver, OSCAR's connections and buddy list,   *)
(* and the texts that are converted.  Each behaviour is one of one of      *)
(* these, while the others stay as they begin.                             *)
(***************************************************************************)
EXTENDS Toc2, Toc2Rooms, Lily, OscarLinks, OscarRoster, Conversions

VARIABLE driver   \* constant: the one that runs

driverVars == <<driver, tocVars, roomVars, lilyVars, oscarVars, rosterVars, textVars>>

(* Nothing unusual, and the unusual things by themselves or in pairs. *)
MCWorlds  == {{}, {"early", "hasty", "nickLast", "foreign"}, {"pauses", "sendsFail"}}
Habitual  == [typesBare |-> FALSE, repeats |-> FALSE, invites |-> FALSE]
MCHabits  == {Habitual} \cup {[Habitual EXCEPT ![h] = TRUE] : h \in DOMAIN Habitual}
MCManners == {{"whois"}, {"whois", "overlaps"}, {"moves", "hasty"}, {"whois", "loses"},
              {"breaks"}, {"destroys"}, {"depermits"}}
MCCustoms == {{}, {"drops"}, {"bursts"}, {"trails"}, {"times"}}
MCWhims   == {{}, {"absent"}}
MCAlphabet ==
     "html" :> {"a", " ", "&lt;", "&quot;", "<b>", "</b>", "<i>", "</i>", "<br>", "\n", "\r", DLE, ","}
  @@ "irc"  :> {"a", " ", "^B", "^V", "^C", ",", "1", "ESC", "[", DLE}
  @@ "lily" :> {"a", " ", "*", "/", "_", ".", "&"}
  @@ "args" :> {"a", "<", "&", "\"", "\n"}

Init ==
  /\ driver \in {"toc2", "toc2 rooms", "slcp", "oscar", "oscar list", "texts"}
  /\ TocInit /\ RoomsInit /\ LilyInit /\ OscarInit /\ RosterInit /\ TextsInit
  /\ driver # "toc2" => world = {} /\ ~toc.auto /\ ~Listed(toc) /\ toc.stored = {}
  /\ driver # "toc2 rooms" => habit = Habitual
  /\ driver # "slcp" => manner = {"whois"}
  /\ driver # "oscar" => custom = {} /\ ~oscar.auto
  /\ driver # "texts" => language = "html"

Next ==
  \/ driver = "toc2" /\ TocNext /\ UNCHANGED <<driver, roomVars, lilyVars, oscarVars, rosterVars, textVars>>
  \/ driver = "toc2 rooms" /\ RoomsNext /\ UNCHANGED <<driver, tocVars, lilyVars, oscarVars, rosterVars, textVars>>
  \/ driver = "slcp" /\ LilyNext /\ UNCHANGED <<driver, tocVars, roomVars, oscarVars, rosterVars, textVars>>
  \/ driver = "oscar" /\ OscarNext /\ UNCHANGED <<driver, tocVars, roomVars, lilyVars, rosterVars, textVars>>
  \/ driver = "oscar list" /\ RosterNext /\ UNCHANGED <<driver, tocVars, roomVars, lilyVars, oscarVars, textVars>>
  \/ driver = "texts" /\ TextsNext
     /\ UNCHANGED <<driver, tocVars, roomVars, lilyVars, oscarVars, rosterVars>>

Spec == Init /\ [][Next]_driverVars

(* The variables of every driver keep their types. *)
DriversTypeOK ==
  /\ TocTypeOK /\ RoomsTypeOK /\ LilyTypeOK /\ OscarTypeOK /\ RosterTypeOK
  /\ TextsTypeOK

(* No driver fails an assertion, follows a null pointer or gives a session up by an
   error of its own: but in the cases that NoRoomFault, NoLilyFault, NoPanic and
   NoRosterFault name. *)
NoDriverFault == NoRoomFault /\ NoLilyFault /\ NoPanic /\ NoRosterFault

(* Client, wrapper and driver agree whether there is a session, with TOC2
   (TocLayersAgree) and OSCAR (OscarLayersAgree). *)
DriverLayersAgree == TocLayersAgree /\ OscarLayersAgree

(* The buddy list of the wrapper is the server's when nothing is under way, with TOC2
   (ListsAgree) and OSCAR (OscarListsAgree). *)
DriverListsAgree == ListsAgree /\ OscarListsAgree

(* What waits for a service of OSCAR is served, in order and once (PendingIsServed,
   ServedInOrder). *)
OscarServes == PendingIsServed /\ ServedInOrder

(* What one wrote is what another reads, on IRC, Lily and in a subcode to TOC, but in the
   cases that IrcSeenAsWritten, LilySeenAsWritten, LilyTagsClosed, ConversionsFit and
   ArgsKept name. *)
ReadAsWritten == TextsKept
=============================================================================

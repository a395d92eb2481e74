---------------------------- MODULE Connections ----------------------------
(***************************************************************************)
(* Connections made and unmade: the client's ring of conn_t and the        *)
(* wrapper's list of firetalk_connection_t.                                *)
(*                                                                         *)
(* Commands come from the keyboard, between two selects, or from a script, *)
(* which any callback may run: so that firetalk_select_custom's four walks *)
(* over the list have it change under them.  For this a connection that is *)
(* destroyed stays in the list, marked deleted, until they are over; but   *)
(* its driver's handle is freed at once, and so is the client's conn_t,    *)
(* which the output of a shell command may still be waiting for.           *)
(***************************************************************************)
EXTENDS Integers, FiniteSets, Sublists
LOCAL INSTANCE SequencesExt

CONSTANTS
  Labels,      \* names of connections
  First,       \* the one that main makes
  Keeping,     \* those whose service keeps the buddy list
  Shells,      \* those to which /exec is given
  MaxCalls     \* bound: /newconn's and /delconn's in one round of the main loop

ASSUME ConnectionsAssumption == First \in Labels /\ Keeping \cup Shells \subseteq Labels
                            /\ MaxCalls \in Nat

VARIABLES
  ring,      \* curconn and what follows it
  list,      \* conn_head and what follows it: [name, deleted]
  walk,      \* which walk over the list, at which entry, inside its driver or not
  signedOn,   \* the connections that are signed on
  stored,    \* the services that keep a buddy list for the user
  exec,      \* the connection an /exec was given to whose output is to come
  used       \* what was used after it was freed; the program ends there

connectionVars == <<ring, list, walk, signedOn, stored, exec, used>>

Entry(n) == [name |-> n, deleted |-> FALSE]
Idle == [number |-> 0, at |-> 0, inside |-> FALSE, served |-> {}, begun |-> {}, own |-> {},
         twice |-> FALSE, calls |-> 0]
Walks == 1..4    \* of the wrapper's periodic, of preselect, of postselect, of transfers

ConnectionsInit ==
  /\ ring = <<First>> /\ list = <<Entry(First)>>
  /\ walk = Idle
  /\ signedOn = {} /\ stored = Keeping
  /\ exec = {} /\ used = {}

Names(s) == {s[i] : i \in DOMAIN s}
Quitted == ring = <<>>
Alive(n) == \E i \in DOMAIN list : list[i] = Entry(n)
-----------------------------------------------------------------------------
(* The commands.  The walk's place is kept when an entry comes before it. *)

(* ua_newconn: the new connection goes behind curconn and becomes it;
   firetalk_create_conn puts it at the head of the list. *)
NewConn(n) ==
  /\ n \notin Names(ring)
  /\ ring' = <<n>> \o Tail(ring) \o <<Head(ring)>>
  /\ list' = <<Entry(n)>> \o list
  /\ walk' = [walk EXCEPT !.at = IF walk.number = 0 THEN 0 ELSE @ + 1, !.calls = @ + 1]
  /\ UNCHANGED <<signedOn, stored, exec, used>>

(* bclearall, with force: each buddy is removed, at the service too if signed on. *)
ClearedLists(n) == stored \ ({n} \cap signedOn)

Marked(n) == [i \in DOMAIN list |-> IF list[i] = Entry(n) THEN [list[i] EXCEPT !.deleted = TRUE] ELSE list[i]]

InDriverOf(n) == walk.inside /\ list[walk.at].name = n

(* do_delconn. *)
DoDelConn(n) ==
  /\ stored' = ClearedLists(n)
  /\ signedOn' = signedOn \ {n}
  /\ list' = Marked(n)
  /\ ring' = Those(ring, Labels \ {n})
  /\ exec' = {[x EXCEPT !.alive = @ /\ x.of # n] : x \in exec}
  /\ walk' = [walk EXCEPT !.begun = @ \ {n}, !.calls = @ + 1,
                          !.own = IF InDriverOf(n) THEN @ \cup {n} ELSE @]
  /\ UNCHANGED used

(* ua_delconn: the search begins with the connection it is given to. *)
Found(given, n) ==
  LET i == CHOOSE j \in DOMAIN ring : ring[j] = given
  IN \E j \in i..Len(ring) : ring[j] = n

DelConn(given, n) ==
  /\ Len(ring) > 1 /\ Found(given, n)
  /\ DoDelConn(n)

(* ua_exit: all are disconnected before the first is deleted. *)
Exit ==
  /\ walk.number = 0
  /\ ring' = <<>> /\ list' = [i \in DOMAIN list |-> [list[i] EXCEPT !.deleted = TRUE]]
  /\ signedOn' = {}
  /\ exec' = {[x EXCEPT !.alive = FALSE] : x \in exec}
  /\ UNCHANGED <<walk, stored, used>>

(* Sessions come and go; they matter here to the lists that services keep. *)
Sessions(n) ==
  /\ n \in Names(ring) \cap Keeping /\ (walk.number = 0 \/ (walk.number = 3 /\ InDriverOf(n)))
  /\ signedOn' = IF n \in signedOn THEN signedOn \ {n} ELSE signedOn \cup {n}
  /\ UNCHANGED <<ring, list, walk, stored, exec, used>>

TurnTo(i) ==
  /\ ring' = SubSeq(ring, i, Len(ring)) \o SubSeq(ring, 1, i - 1)
  /\ UNCHANGED <<list, walk, signedOn, stored, exec, used>>

Exec(n) ==
  /\ n \in Names(ring) \cap Shells /\ exec = {}
  /\ exec' = {[of |-> n, alive |-> TRUE]}
  /\ UNCHANGED <<ring, list, walk, signedOn, stored, used>>

(* exec_postselect, with output to come or at its end. *)
Output(x) ==
  /\ walk.number = 0 /\ ~Quitted
  /\ exec' = {}
  /\ used' = IF x.alive THEN {} ELSE {"exec"}
  /\ UNCHANGED <<ring, list, walk, signedOn, stored>>

Command ==
  walk.calls < MaxCalls /\ \E n \in Labels : NewConn(n) \/ \E given \in Names(ring) : DelConn(given, n)

Keyboard ==
  /\ walk.number = 0 /\ ~Quitted
  /\ \/ Command \/ Exit
     \/ \E n \in Labels : Exec(n)
     \/ \E i \in 2..Len(ring) : TurnTo(i)
-----------------------------------------------------------------------------
(* firetalk_select_custom. *)

Begun(k) == [walk EXCEPT !.number = k, !.at = 0, !.inside = FALSE, !.served = {},
                         !.begun = {list[i].name : i \in {j \in DOMAIN list : ~list[j].deleted}}]

SelectBegins == walk.number = 0 /\ walk' = Begun(1) /\ UNCHANGED <<ring, list, signedOn, stored, exec, used>>

(* The next entry; those marked deleted are passed over. *)
NextEntry ==
  /\ walk.number # 0 /\ ~walk.inside /\ walk.at < Len(list)
  /\ LET e == list[walk.at + 1] IN
     walk' = IF e.deleted THEN [walk EXCEPT !.at = @ + 1]
             ELSE [walk EXCEPT !.at = @ + 1, !.inside = TRUE, !.served = @ \cup {e.name},
                               !.twice = @ \/ e.name \in walk.served]
  /\ UNCHANGED <<ring, list, signedOn, stored, exec, used>>

(* A callback runs a script. *)
Script == walk.inside /\ ~Quitted /\ Command

(* The driver goes on after its callbacks, with its handle. *)
DriverReturns ==
  /\ walk.inside
  /\ walk' = [walk EXCEPT !.inside = FALSE]
  /\ used' = IF list[walk.at].deleted THEN {list[walk.at].name} ELSE {}
  /\ UNCHANGED <<ring, list, signedOn, stored, exec>>

(* The end of a walk; after the last the deleted are taken from the list. *)
WalkEnds ==
  /\ walk.number # 0 /\ ~walk.inside /\ walk.at = Len(list)
  /\ IF walk.number < 4
     THEN walk' = Begun(walk.number + 1) /\ UNCHANGED list
     ELSE walk' = Idle /\ list' = Those(list, {Entry(n) : n \in Labels})
  /\ UNCHANGED <<ring, signedOn, stored, exec, used>>

ConnectionsNext ==
  /\ used = {}
  /\ \/ \E n \in Labels : Sessions(n)
     \/ Keyboard \/ Script \/ \E x \in exec : Output(x)
     \/ SelectBegins \/ NextEntry \/ DriverReturns \/ WalkEnds
-----------------------------------------------------------------------------
ConnectionsTypeOK ==
  /\ Names(ring) \subseteq Labels /\ IsInjective(ring)
  /\ list \in Seq([name : Labels, deleted : BOOLEAN])
  /\ walk.number \in {0} \cup Walks /\ walk.at \in 0..Len(list)
  /\ walk.served \cup walk.begun \cup walk.own \cup signedOn \cup stored \subseteq Labels
  /\ exec \subseteq [of : Labels, alive : BOOLEAN]
  /\ used \subseteq Labels \cup {"exec"}

(* The client's ring and what is left of the wrapper's list are the same connections. *)
Registered ==
  /\ Names(ring) = {n \in Labels : Alive(n)}
  /\ \A i, j \in DOMAIN list : ~list[i].deleted /\ list[i] = list[j] => i = j

(* Each walk comes to every connection that is there all the time, once, whatever is
   made and unmade meanwhile. *)
ServedOnce ==
  /\ ~walk.twice
  /\ walk.number # 0 /\ ~walk.inside /\ walk.at = Len(list) => walk.begun \subseteq walk.served

(* No driver goes on with a handle that is freed, unless its connection was deleted in a
   callback of its own; but the output of a command may come to a freed conn_t. *)
FreedOnlyByItself == used \subseteq walk.own \cup {"exec"}

(* A buddy list kept by a service is lost only with /delconn of a connection that is
   signed on: /exit leaves it. *)
ListsSurviveExit ==
  \A n \in stored \ stored' : n \in signedOn /\ ring' # <<>> /\ n \notin Names(ring')
=============================================================================

------------------------------- MODULE Timers -------------------------------
(***************************************************************************)
(* The scripts' timers: naim.settimeout and naim.setinterval, and the two  *)
(* hooks of default.lua that the main loop calls before and after it       *)
(* waits in select().                                                      *)
(*                                                                         *)
(* The hook after the wait goes through a copy of the table, since what a  *)
(* timer calls may set and clear timers, fail, or take its time.           *)
(***************************************************************************)
EXTENDS Integers, FiniteSets

CONSTANTS
  Timers,      \* tables that scripts make
  Delays,      \* seconds asked for
  Wait,        \* seconds that select() waits when no timer is due: 60 at most
  MaxTick      \* bound on the clock

ASSUME TimersAssumption ==
  /\ Delays \subseteq Nat
  /\ Wait \in Nat /\ MaxTick \in Nat

VARIABLES
  tick,      \* os.time()
  timers,    \* naim.timers; those that are gone are kept for the properties
  pass,      \* where the main loop is; now: the timer just called
  last       \* when each was last called

timerVars == <<tick, timers, pass, last>>

Unset == [state |-> "unset", kind |-> "timeout", when |-> 0, interval |-> 0]
Between == [at |-> "commands", asked |-> 0, until |-> 0, old |-> {}, now |-> {}]
Uncalled == -1

TimersInit ==
  /\ tick = 0
  /\ timers = [t \in Timers |-> Unset]
  /\ pass = Between
  /\ last = [t \in Timers |-> Uncalled]

IsSet(ts, t) == ts[t].state = "set"

SetTimer(ts, t, kind, delay) ==
  [ts EXCEPT ![t] = [state |-> "set", kind |-> kind, when |-> tick + delay, interval |-> delay]]

(* naim.cleartimeout: the table that is being gone through has the timer still. *)
ClearTimeout(ts, t) == [ts EXCEPT ![t].state = IF @ = "set" THEN "gone" ELSE @]

(* What a script may do with timers, in a command or as the function of one. *)
Effects(ts) ==
  {ts} \cup {SetTimer(ts, t, k, d) : t \in {u \in Timers : ts[u].state = "unset"},
                                     k \in {"timeout", "interval"}, d \in Delays}
       \cup {ClearTimeout(ts, t) : t \in {u \in Timers : IsSet(ts, u)}}
-----------------------------------------------------------------------------
ScriptSets ==
  /\ pass.at = "commands"
  /\ timers' \in Effects(timers) \ {timers}
  /\ UNCHANGED <<tick, pass, last>>

(* The hook of preselect: the wait ends with the first timer that is due later than
   now; one that is due now is not looked at. *)
Preselect ==
  LET later == {timers[t].when : t \in {u \in Timers : IsSet(timers, u) /\ timers[u].when > tick}}
      ends  == later \cup {tick + Wait}
  IN CHOOSE e \in ends : \A f \in ends : e <= f

Waits ==
  /\ pass.at = "commands"
  /\ pass' = [Between EXCEPT !.at = "select", !.asked = tick, !.until = Preselect]
  /\ UNCHANGED <<tick, timers, last>>

(* select() returns, because something has come or the time is over; the hook of
   postselect copies the table. *)
Wakes ==
  /\ pass.at = "select"
  /\ tick' \in {n \in tick..pass.until : n <= MaxTick}
  /\ pass' = [pass EXCEPT !.at = "timers", !.old = {t \in Timers : IsSet(timers, t)}]
  /\ UNCHANGED <<timers, last>>

(* What is done with a timer before its function is called. *)
Rescheduled(ts, t) ==
  IF ts[t].kind = "interval" THEN [ts EXCEPT ![t].when = tick + ts[t].interval] ELSE ClearTimeout(ts, t)

(* The next timer of the copy, in the order of pairs(), which is any.  An error in its
   function ends the hook. *)
Looks(t) ==
  /\ pass.at = "timers" /\ t \in pass.old
  /\ IF timers[t].when > tick
     THEN pass' = [pass EXCEPT !.old = @ \ {t}, !.now = {}] /\ UNCHANGED <<tick, timers, last>>
     ELSE /\ timers' \in Effects(Rescheduled(timers, t))
          /\ last' = [last EXCEPT ![t] = tick]
          /\ \/ /\ tick' \in {n \in {tick, tick + 1} : n <= MaxTick}
                /\ pass' = [pass EXCEPT !.old = @ \ {t}, !.now = {t}]
             \/ pass' = [Between EXCEPT !.now = {t}] /\ UNCHANGED tick

PassEnds ==
  /\ pass.at = "timers" /\ pass.old = {}
  /\ pass' = Between
  /\ UNCHANGED <<tick, timers, last>>

TimersNext == ScriptSets \/ Waits \/ Wakes \/ PassEnds \/ \E t \in Timers : Looks(t)
-----------------------------------------------------------------------------
TimersTypeOK ==
  /\ tick \in 0..MaxTick
  /\ \A t \in Timers :
       /\ timers[t].state \in {"unset", "set", "gone"} /\ timers[t].kind \in {"timeout", "interval"}
       /\ timers[t].when \in Nat /\ timers[t].interval \in Nat
       /\ last[t] \in Uncalled..tick
  /\ pass.at \in {"commands", "select", "timers"} /\ pass.old \cup pass.now \subseteq Timers

(* A timeout is called once: whatever the functions do that are called in the same pass,
   and if one fails, its own too. *)
OnceEach ==
  pass.at = "timers" => \A t \in pass'.now : timers[t].kind = "timeout" => last[t] = Uncalled

(* An interval is called at least its time after it was called before, however late that
   was: calls that were missed are not made up for. *)
IntervalsSpaced ==
  pass.at = "timers" => \A t \in pass'.now :
    last[t] # Uncalled => tick - last[t] >= timers[t].interval

(* The main loop does not sleep past a timer that was due later than its wait began, and
   a timer that was due by then waits for one wait more. *)
NotSleptPast ==
  pass'.at = "timers" /\ pass.at = "select" =>
    \A t \in Timers : IsSet(timers, t) =>
      \/ tick' <= timers[t].when
      \/ timers[t].when <= pass.asked /\ tick' - pass.asked <= Wait

TimersStep == OnceEach /\ IntervalsSpaced /\ NotSleptPast
=============================================================================

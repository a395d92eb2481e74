-------------------------------- MODULE Away --------------------------------
(***************************************************************************)
(* Being away and idle: one absence for the whole client, told to every    *)
(* connection, and the automatic answers.                                  *)
(*                                                                         *)
(* The minutes that one has been idle are a variable that the minute's     *)
(* timer counts and the sending of a message clears; what one is away      *)
(* since is put back by them.  A TOC2 connection keeps the message, which  *)
(* it puts in the profile, and what it last told of idleness; both outlive *)
(* the session.                                                            *)
(***************************************************************************)
EXTENDS Integers

CONSTANTS
  Links,       \* connections, all of TOC2
  Writers,     \* who writes to the user, each with a window
  Minute,      \* a minute of the clock's ticks: 60 in the code
  LongIdle,    \* minutes: 10 in the code
  MaxClock,    \* bound on the clock
  Habits       \* the user's settings, one in each behaviour

Habit == [autounaway : BOOLEAN, autoidle : BOOLEAN, autounidle : BOOLEAN,
          autoaway : Nat, autoreply : Nat]

ASSUME AwayAssumption ==
  /\ Minute \in Nat \ {0} /\ LongIdle \in Nat /\ MaxClock \in Nat
  /\ Habits \subseteq Habit

VARIABLES
  clock,     \* now
  idle,      \* $idletime
  since,     \* awaytime: not positive when one is there
  links,     \* each one's session, what its driver keeps and its server shows
  answers,   \* informed of each window, lastauto, and when they were sent
  acted,     \* when the user last sent a message or came back
  habit      \* constant: the settings

awayVars == <<clock, idle, since, links, answers, acted, habit>>

Start     == Minute * (MaxClock + 1)    \* the clock is far from 0
Never     == 0
NewServer == [away |-> FALSE, profile |-> FALSE, idle |-> FALSE]

AwayInit ==
  /\ clock = Start /\ idle = 0 /\ since = -1
  /\ links = [l \in Links |-> [state |-> "off", message |-> FALSE, lastIdle |-> FALSE, server |-> NewServer]]
  /\ answers = [informed |-> [w \in Writers |-> Never], lastauto |-> Never, sent |-> [w \in Writers |-> Never]]
  /\ acted = Start
  /\ habit \in Habits

IsAway == since > 0
Up(l)  == l.state = "up"
-----------------------------------------------------------------------------
(* firetalk_set_away and toc_set_away: a server heeds it when one is signed on. *)
SetAwayOf(l, away) ==
  IF l.state = "off" THEN l
  ELSE [l EXCEPT !.message = away, !.server.away = IF Up(l) THEN away ELSE @]

(* naim_set_info and toc_set_info: the profile has the message that the driver keeps. *)
SetInfo(l) == IF Up(l) THEN [l EXCEPT !.server.profile = l.message] ELSE l

SetAwayAll(away) == [l \in Links |-> SetInfo(SetAwayOf(links[l], away))]

(* updateidletime, when one is not away. *)
Unidle == idle' = IF habit.autounidle THEN 0 ELSE idle

SetAway == since' = clock - Minute * idle /\ links' = SetAwayAll(TRUE)

UnsetAway == since' = 0 /\ Unidle /\ links' = SetAwayAll(FALSE)

UpdateIdleTime ==
  IF IsAway /\ habit.autounaway THEN UnsetAway
  ELSE Unidle /\ UNCHANGED <<since, links>>

(* /away: with a message, or as a switch; /avail.  *)
AwayCommand(message) ==
  /\ IF message \/ ~IsAway
     THEN SetAway /\ UNCHANGED <<idle, acted>>
     ELSE UnsetAway /\ acted' = clock
  /\ UNCHANGED <<clock, answers, habit>>

AvailCommand ==
  /\ IsAway
  /\ UnsetAway /\ acted' = clock
  /\ UNCHANGED <<clock, answers, habit>>

(* naim_send_im or naim_send_act, to one who is online. *)
UserSends ==
  /\ \E l \in Links : Up(links[l])
  /\ UpdateIdleTime /\ acted' = clock
  /\ UNCHANGED <<clock, answers, habit>>

(* sendaway and naim_send_im_away: not two automatic messages in two seconds. *)
Answer(w) ==
  answers' = IF answers.lastauto < clock - 1
             THEN [answers EXCEPT !.lastauto = clock, !.informed[w] = clock, !.sent[w] = clock]
             ELSE [answers EXCEPT !.informed[w] = clock]

SendAway(w) == Answer(w) /\ UNCHANGED <<idle, since, links>>

(* fireio_recvfrom_display_user: whether a message is answered. *)
Answerable(w) ==
  /\ habit.autoreply > 0 /\ IsAway
  /\ clock - answers.informed[w] > Minute * habit.autoreply
  /\ habit.autoaway = 0 \/ idle >= (clock - since) \div Minute \/ idle >= LongIdle

Received(w, automatic) ==
  /\ \E l \in Links : Up(links[l])
  /\ IF ~automatic /\ Answerable(w) THEN SendAway(w)
     ELSE UNCHANGED <<idle, since, links, answers>>
  /\ UNCHANGED <<clock, acted, habit>>

(* The clock; and at a full minute the hooks of periodic: events_idleaway, then
   events_winlistmaint, which tells the profile again to who is away. *)
IdleAway ==
  LET minutes == IF habit.autoidle THEN idle + 1 ELSE idle IN
  /\ idle' = minutes
  /\ IF ~IsAway /\ habit.autoaway > 0 /\ minutes >= habit.autoaway
     THEN since' = clock' - Minute * minutes /\ links' = SetAwayAll(TRUE)
     ELSE /\ UNCHANGED since
          /\ links' = IF IsAway THEN [l \in Links |-> SetInfo(links[l])] ELSE links

ClockTicks ==
  /\ clock < Start + MaxClock /\ clock' = clock + 1
  /\ IF clock' % Minute = 0 THEN IdleAway ELSE UNCHANGED <<idle, since, links>>
  /\ UNCHANGED <<answers, acted, habit>>

(* toc_periodic: only the crossing of LongIdle is told. *)
Periodic(l) ==
  LET long == idle >= LongIdle IN
  /\ Up(links[l]) /\ links[l].lastIdle # long
  /\ links' = [links EXCEPT ![l].lastIdle = long, ![l].server.idle = long]
  /\ UNCHANGED <<clock, idle, since, answers, acted, habit>>

(* Sessions; fireio_doinit is called when one is signed on. *)
Connect(l) ==
  /\ links[l].state = "off"
  /\ links' = [links EXCEPT ![l].state = "connecting", ![l].server = NewServer]
  /\ UNCHANGED <<clock, idle, since, answers, acted, habit>>

(* Mutant: a new session is not told. *)
DoInitPlain(l) == SetInfo(l)

DoInit(l) == LET told == SetInfo(l) IN IF IsAway THEN SetAwayOf(told, TRUE) ELSE told

SignedOn(l) ==
  /\ links[l].state = "connecting"
  /\ links' = [links EXCEPT ![l] = DoInit([@ EXCEPT !.state = "up"])]
  /\ UNCHANGED <<clock, idle, since, answers, acted, habit>>

SessionLost(l) ==
  /\ links[l].state # "off"
  /\ links' = [links EXCEPT ![l].state = "off", ![l].server = NewServer]
  /\ UNCHANGED <<clock, idle, since, answers, acted, habit>>

AwayNext ==
  \/ \E message \in BOOLEAN : AwayCommand(message)
  \/ AvailCommand \/ UserSends \/ ClockTicks
  \/ \E w \in Writers, automatic \in BOOLEAN : Received(w, automatic)
  \/ \E l \in Links : Periodic(l) \/ Connect(l) \/ SignedOn(l) \/ SessionLost(l)
-----------------------------------------------------------------------------
AwayTypeOK ==
  /\ clock \in Start..Start + MaxClock /\ acted \in Start..clock
  /\ idle \in 0..MaxClock /\ since \in -1..clock
  /\ links \in [Links -> [state : {"off", "connecting", "up"}, message : BOOLEAN, lastIdle : BOOLEAN,
                          server : [away : BOOLEAN, profile : BOOLEAN, idle : BOOLEAN]]]
  /\ answers.lastauto \in 0..clock
  /\ \A w \in Writers : answers.informed[w] \in 0..clock /\ answers.sent[w] \in 0..clock

(* Every server one is signed on to shows that one is away if and only if one is,
   whenever one signed on, left or came back. *)
AwayAsShown == \A l \in Links : Up(links[l]) => (links[l].server.away <=> IsAway)

(* A profile says that one is away only when one is, unless one came back while that
   connection was down: its driver keeps the message for the next session. *)
StaleMessage(l) == links[l].message /\ ~IsAway
ProfileOfTheAway ==
  \A l \in Links : StaleMessage(l)' /\ ~StaleMessage(l) => links[l].state = "off"

(* Nobody is sent two answers within $autoreply minutes, nor two people in two seconds;
   and an answer is not something the user does: it ends no absence. *)
AnswersPaced ==
  \A w \in Writers : answers.sent'[w] # answers.sent[w] =>
    /\ clock - answers.sent[w] > Minute * habit.autoreply
    /\ \A v \in Writers : clock - answers.sent[v] > 1
    /\ since' = since /\ idle' = idle

(* The timer makes nobody away who has just sent something or come back, and answers
   nobody in his name: but for messages sent in the first two minutes of an absence. *)
TimerSparesTheActive ==
  habit.autoidle /\ habit.autounidle =>
    /\ since' > 0 /\ since <= 0 /\ clock' # clock =>
         clock' - acted > Minute * (habit.autoaway - 1)
    /\ habit.autoaway > 0 /\ answers.sent' # answers.sent =>
         \/ acted < since + 2 * Minute
         \/ clock - acted > Minute * (LongIdle - 1)

AwayStep == ProfileOfTheAway /\ AnswersPaced /\ TimerSparesTheActive
=============================================================================

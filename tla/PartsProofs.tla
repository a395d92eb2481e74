----------------------------- MODULE PartsProofs -----------------------------
(***************************************************************************)
(* Theorems about the parts of client and wrapper that share no state, for *)
(* every value of their constants.  Each is a theorem of MCParts' Spec, in *)
(* which one part runs; the invariants are those of the parts.             *)
(***************************************************************************)
EXTENDS MCParts, StreamsProofs, TLAPS

-----------------------------------------------------------------------------
(* Whole minutes. *)

LEMMA DivMod ==
  ASSUME NEW m \in Nat \ {0}, NEW a \in Nat
  PROVE  /\ a \div m \in Nat /\ a % m \in 0..(m - 1)
         /\ a = m * (a \div m) + (a % m)
OBVIOUS

LEMMA TimesBound ==
  ASSUME NEW m \in Nat \ {0}, NEW q \in Int, NEW p \in Int, p < q
  PROVE  m * p + m <= m * q
<1>1. m * (p + 1) <= m * q
  <2>1. q - (p + 1) \in Nat
    OBVIOUS
  <2>2. m * (q - (p + 1)) \in Nat
    BY <2>1
  <2> QED
    BY <2>2
<1> QED
  BY <1>1

LEMMA DivUnique ==
  ASSUME NEW m \in Nat \ {0}, NEW q \in Nat, NEW r \in 0..(m - 1)
  PROVE  (m * q + r) \div m = q
<1> DEFINE a == m * q + r
<1>0. m * q \in Nat
  OBVIOUS
<1>1. a \in Nat
  BY <1>0
<1>2. a \div m \in Nat /\ a % m \in 0..(m - 1) /\ a = m * (a \div m) + (a % m)
  BY <1>1, DivMod
<1>3. ~(a \div m < q)
  BY <1>0, <1>2, TimesBound
<1>4. ~(q < a \div m)
  BY <1>0, <1>2, TimesBound
<1> QED
  BY <1>2, <1>3, <1>4

(* The next second begins a minute or does not. *)
LEMMA NextMinute ==
  ASSUME NEW m \in Nat \ {0}, NEW a \in Nat
  PROVE  (a + 1) \div m = IF (a + 1) % m = 0 THEN (a \div m) + 1 ELSE a \div m
<1> DEFINE q == a \div m
           r == a % m
<1>1. q \in Nat /\ r \in 0..(m - 1) /\ a = m * q + r
  BY DivMod
<1> HIDE DEF q, r
<1>2. m * (q + 1) = m * q + m /\ m * q \in Nat
  BY <1>1
<1>3. CASE r = m - 1
  <2>1. a + 1 = m * (q + 1) + 0
    BY <1>1, <1>2, <1>3
  <2>2. (a + 1) \div m = q + 1
    BY <1>1, <2>1, DivUnique
  <2>3. a + 1 = m * (q + 1) + ((a + 1) % m) /\ (a + 1) % m \in 0..(m - 1)
    <3>1. a + 1 \in Nat
      OBVIOUS
    <3> QED
      BY <2>2, <3>1, DivMod
  <2>4. (a + 1) % m = 0
    BY <1>1, <1>2, <2>1, <2>3
  <2> QED
    BY <2>2, <2>4 DEF q
<1>4. CASE r # m - 1
  <2>1. a + 1 = m * q + (r + 1) /\ r + 1 \in 0..(m - 1)
    BY <1>1, <1>2, <1>4
  <2>2. (a + 1) \div m = q
    BY <1>1, <2>1, DivUnique
  <2>3. a + 1 = m * q + ((a + 1) % m) /\ (a + 1) % m \in 0..(m - 1)
    <3>1. a + 1 \in Nat
      OBVIOUS
    <3> QED
      BY <2>2, <3>1, DivMod
  <2>4. (a + 1) % m = r + 1
    BY <1>1, <1>2, <2>1, <2>3
  <2> QED
    BY <1>1, <2>2, <2>4 DEF q
<1> QED
  BY <1>3, <1>4

(* Minutes that have begun between two times. *)
LEMMA MinutesBetween ==
  ASSUME NEW m \in Nat \ {0}, NEW a \in Nat, NEW b \in Nat
  PROVE  LET n == (b \div m) - (a \div m) IN
         n \in Int /\ m * n \in Int /\ m * n < b - a + m /\ b - a < m * n + m
<1>1. /\ a \div m \in Nat /\ a % m \in 0..(m - 1) /\ a = m * (a \div m) + (a % m)
      /\ b \div m \in Nat /\ b % m \in 0..(m - 1) /\ b = m * (b \div m) + (b % m)
  BY DivMod
<1> DEFINE p == a \div m
           q == b \div m
<1> HIDE DEF p, q
<1>2. p \in Nat /\ q \in Nat
  BY <1>1 DEF p, q
<1>3. m * (q - p) = m * q - m * p /\ m * q \in Nat /\ m * p \in Nat
  BY <1>2
<1>4. q - p \in Int /\ m * (q - p) \in Int
  BY <1>2
<1> QED
  BY <1>1, <1>3, <1>4 DEF p, q

-----------------------------------------------------------------------------
(* Away. *)

AwayLink ==
  [state : {"off", "connecting", "up"}, message : BOOLEAN, lastIdle : BOOLEAN,
   server : [away : BOOLEAN, profile : BOOLEAN, idle : BOOLEAN]]

AwayTyped ==
  /\ clock \in Nat /\ clock >= Start /\ acted \in Start..clock
  /\ idle \in Nat /\ idle <= clock - Start /\ since \in Int /\ since <= clock
  /\ links \in [Links -> AwayLink]
  /\ clock <= Start + MaxClock
  /\ answers \in [informed : [Writers -> Nat], lastauto : Nat, sent : [Writers -> Nat]]
  /\ answers.lastauto <= clock
  /\ habit \in Habit

(* The minutes that one has been idle are those that have begun since one acted. *)
IdleIsCounted ==
  habit.autoidle /\ habit.autounidle => idle = (clock \div Minute) - (acted \div Minute)

(* An answer is noted before it may be sent. *)
AnswersNoted ==
  \A w \in Writers : answers.sent[w] <= answers.informed[w] /\ answers.sent[w] <= answers.lastauto

(* A server shows nothing before one is signed on. *)
ShownInSession == \A l \in Links : ~Up(links[l]) => ~links[l].server.away

AwayInv == AwayTyped /\ AwayAsShown /\ ShownInSession /\ IdleIsCounted /\ AnswersNoted

LEMMA SetAwayOfIs ==
  ASSUME NEW l \in AwayLink, NEW away \in BOOLEAN
  PROVE  LET k == SetAwayOf(l, away) IN
         /\ k \in AwayLink /\ k.state = l.state
         /\ Up(l) => k.server.away = away
         /\ ~Up(l) => k.server.away = l.server.away
         /\ IF l.state = "off" THEN k = l ELSE k.message = away
BY DEF SetAwayOf, AwayLink, Up

LEMMA SetInfoIs ==
  ASSUME NEW l \in AwayLink
  PROVE  LET k == SetInfo(l) IN
         /\ k \in AwayLink /\ k.state = l.state /\ k.message = l.message
         /\ k.server.away = l.server.away
BY DEF SetInfo, AwayLink, Up

LEMMA SetAwayAllIs ==
  ASSUME links \in [Links -> AwayLink], NEW away \in BOOLEAN, NEW ls, ls = SetAwayAll(away)
  PROVE  /\ ls \in [Links -> AwayLink]
         /\ \A l \in Links :
              /\ ls[l].state = links[l].state
              /\ ls[l].server.away = IF Up(ls[l]) THEN away ELSE links[l].server.away
              /\ IF links[l].state = "off" THEN ls[l].message = links[l].message
                                           ELSE ls[l].message = away
<1>1. \A l \in Links : ls[l] = SetInfo(SetAwayOf(links[l], away))
  BY DEF SetAwayAll
<1>2. ASSUME NEW l \in Links
      PROVE  /\ ls[l] \in AwayLink /\ ls[l].state = links[l].state
             /\ ls[l].server.away = IF Up(ls[l]) THEN away ELSE links[l].server.away
             /\ IF links[l].state = "off" THEN ls[l].message = links[l].message
                                          ELSE ls[l].message = away
  <2> DEFINE k == SetAwayOf(links[l], away)
  <2>1. links[l] \in AwayLink
    OBVIOUS
  <2>2. /\ k \in AwayLink /\ k.state = links[l].state
        /\ Up(links[l]) => k.server.away = away
        /\ ~Up(links[l]) => k.server.away = links[l].server.away
        /\ IF links[l].state = "off" THEN k = links[l] ELSE k.message = away
    BY <2>1, SetAwayOfIs
  <2> HIDE DEF k
  <2>3. /\ SetInfo(k) \in AwayLink /\ SetInfo(k).state = k.state
        /\ SetInfo(k).message = k.message /\ SetInfo(k).server.away = k.server.away
    BY <2>2, SetInfoIs
  <2>4. ls[l] = SetInfo(k)
    BY <1>1 DEF k
  <2> QED
    BY <2>2, <2>3, <2>4 DEF Up
<1>3. DOMAIN ls = Links
  BY DEF SetAwayAll
<1>4. ls = [l \in Links |-> ls[l]]
  BY DEF SetAwayAll
<1> QED
  BY <1>2, <1>4

LEMMA StartIsNat == Start \in Nat
<1>1. Minute \in Nat /\ MaxClock + 1 \in Nat
  BY AwayAssumption
<1> QED
  BY <1>1 DEF Start

LEMMA StartIsFar ==
  ASSUME NEW c \in Nat, NEW i \in Nat, i <= c - Start, c <= Start + MaxClock
  PROVE  c - Minute * i \in Nat \ {0} /\ c - Minute * i <= c
<1>1. Minute \in Nat \ {0} /\ MaxClock \in Nat /\ i <= MaxClock
  BY AwayAssumption, StartIsNat
<1>2. Minute * i + Minute <= Minute * (MaxClock + 1)
  BY <1>1, TimesBound
<1>3. Minute * i \in Nat
  BY <1>1
<1>4. c >= Start
  BY StartIsNat
<1> QED
  BY <1>1, <1>2, <1>3, <1>4 DEF Start

(* What is left of a step once idle, since and links are known. *)
LEMMA AwaySwitched ==
  ASSUME AwayInv, UNCHANGED <<clock, answers, habit>>, acted' \in {acted, clock},
         idle' \in Nat, idle' <= idle,
         habit.autoidle /\ habit.autounidle => idle' = (clock \div Minute) - (acted' \div Minute),
         NEW away \in BOOLEAN, links' = SetAwayAll(away),
         since' = IF away THEN clock - Minute * idle ELSE 0
  PROVE  AwayInv' /\ AwayStep
<1>1. /\ links' \in [Links -> AwayLink]
      /\ \A l \in Links :
           /\ links'[l].state = links[l].state
           /\ links'[l].server.away = IF Up(links'[l]) THEN away ELSE links[l].server.away
           /\ IF links[l].state = "off" THEN links'[l].message = links[l].message
                                        ELSE links'[l].message = away
  <2>1. links \in [Links -> AwayLink]
    BY DEF AwayInv, AwayTyped
  <2> QED
    BY <2>1, SetAwayAllIs
<1>2. since' \in Int /\ since' <= clock /\ (since' > 0 <=> away)
  BY StartIsFar DEF AwayInv, AwayTyped
<1>3. AwayTyped'
  <2>1. clock' = clock /\ answers' = answers /\ habit' = habit
    OBVIOUS
  <2>2. acted' \in Start..clock /\ idle' <= clock - Start
    BY StartIsNat DEF AwayInv, AwayTyped
  <2> QED
    BY <1>1, <1>2, <2>1, <2>2 DEF AwayInv, AwayTyped
<1>4. AwayAsShown' /\ ShownInSession'
  BY <1>1, <1>2 DEF AwayInv, AwayAsShown, ShownInSession, IsAway, Up
<1>5. IdleIsCounted' /\ AnswersNoted'
  BY DEF IdleIsCounted, AnswersNoted, AwayInv
<1>6. ProfileOfTheAway
  BY <1>1, <1>2 DEF ProfileOfTheAway, StaleMessage, IsAway
<1>7. AnswersPaced /\ TimerSparesTheActive
  BY DEF AnswersPaced, TimerSparesTheActive, AwayInv, AwayTyped
<1> QED
  BY <1>3, <1>4, <1>5, <1>6, <1>7 DEF AwayInv, AwayStep

(* Sessions, and what is told of long idleness. *)
LEMMA AwayLinked ==
  ASSUME AwayInv, UNCHANGED <<clock, idle, since, answers, acted, habit>>,
         links' \in [Links -> AwayLink],
         \A l \in Links : /\ links'[l].server.away <=> (Up(links'[l]) /\ IsAway)
                          /\ links'[l].message => links[l].message \/ IsAway
  PROVE  AwayInv' /\ AwayStep
<1>1. AwayTyped'
  BY DEF AwayInv, AwayTyped
<1>2. AwayAsShown' /\ ShownInSession'
  BY DEF AwayAsShown, ShownInSession, IsAway
<1>3. IdleIsCounted' /\ AnswersNoted'
  BY DEF IdleIsCounted, AnswersNoted, AwayInv
<1>4. ProfileOfTheAway
  BY DEF ProfileOfTheAway, StaleMessage, IsAway
<1>5. AnswersPaced /\ TimerSparesTheActive
  BY DEF AnswersPaced, TimerSparesTheActive, AwayInv, AwayTyped
<1> QED
  BY <1>1, <1>2, <1>3, <1>4, <1>5 DEF AwayInv, AwayStep

LEMMA AwaySessions ==
  ASSUME AwayInv, NEW l \in Links, Periodic(l) \/ Connect(l) \/ SignedOn(l) \/ SessionLost(l)
  PROVE  AwayInv' /\ AwayStep
<1>1. /\ links \in [Links -> AwayLink] /\ links[l] \in AwayLink
      /\ \A k \in Links : links[k].server.away <=> (Up(links[k]) /\ IsAway)
  BY DEF AwayInv, AwayTyped, AwayAsShown, ShownInSession
<1>2. UNCHANGED <<clock, idle, since, answers, acted, habit>>
  BY DEF Periodic, Connect, SignedOn, SessionLost
<1>3. CASE SignedOn(l)
  <2> DEFINE k == [links[l] EXCEPT !.state = "up"]
             told == SetInfo(k)
  <2>1. k \in AwayLink /\ Up(k) /\ k.message = links[l].message
    BY <1>1 DEF AwayLink, Up
  <2>2. links' = [links EXCEPT ![l] = DoInit(k)]
    BY <1>3 DEF SignedOn
  <2>3. told \in AwayLink /\ told.state = k.state /\ told.message = k.message
    BY <2>1, SetInfoIs
  <2>4. /\ SetAwayOf(told, TRUE) \in AwayLink
        /\ Up(told) => SetAwayOf(told, TRUE).server.away = TRUE
    BY <2>3, SetAwayOfIs
  <2>9. told.server.away = links[l].server.away
    BY <1>1, <2>1, SetInfoIs DEF AwayLink
  <2>5. DoInit(k) = IF IsAway THEN SetAwayOf(told, TRUE) ELSE told
    BY DEF DoInit
  <2> HIDE DEF k, told
  <2>6. /\ DoInit(k) \in AwayLink
        /\ IsAway => DoInit(k).server.away
        /\ Up(DoInit(k))
        /\ ~IsAway => ~DoInit(k).server.away
        /\ ~IsAway => DoInit(k).message = links[l].message
    <3>1. links[l].state = "connecting"
      BY <1>3 DEF SignedOn
    <3>2. ~links[l].server.away
      BY <1>1, <3>1 DEF Up
    <3>3. SetAwayOf(told, TRUE).state = told.state
      BY <2>3, SetAwayOfIs
    <3>4. CASE IsAway
      <4>1. DoInit(k) = SetAwayOf(told, TRUE)
        BY <2>5, <3>4
      <4> QED
        BY <2>1, <2>3, <2>4, <3>3, <3>4, <4>1 DEF Up
    <3>5. CASE ~IsAway
      <4>1. DoInit(k) = told
        BY <2>5, <3>5
      <4> QED
        BY <2>1, <2>3, <2>9, <3>2, <3>5, <4>1 DEF Up
    <3> QED
      BY <3>4, <3>5
  <2>7. links' \in [Links -> AwayLink]
    BY <1>1, <2>2, <2>6
  <2>8. ASSUME NEW i \in Links
        PROVE  /\ links'[i].server.away <=> (Up(links'[i]) /\ IsAway)
               /\ links'[i].message => links[i].message \/ IsAway
    <3>1. CASE i # l
      BY <1>1, <2>2, <3>1
    <3>2. CASE i = l
      <4>1. links'[l] = DoInit(k)
        BY <1>1, <2>2
      <4> QED
        BY <2>6, <3>2, <4>1
    <3> QED
      BY <3>1, <3>2
  <2> QED
    BY <1>2, <2>7, <2>8, AwayLinked
<1>4. CASE Periodic(l)
  <2> DEFINE long == idle >= LongIdle
  <2>1. links' = [links EXCEPT ![l].lastIdle = long, ![l].server.idle = long] /\ long \in BOOLEAN
    BY <1>4 DEF Periodic
  <2> HIDE DEF long
  <2>2. /\ links' \in [Links -> AwayLink]
        /\ \A k \in Links : /\ links'[k].state = links[k].state
                            /\ links'[k].message = links[k].message
                            /\ links'[k].server.away = links[k].server.away
    BY <1>1, <2>1 DEF AwayLink
  <2> QED
    BY <1>1, <1>2, <2>2, AwayLinked DEF Up
<1>5. CASE Connect(l) \/ SessionLost(l)
  <2>1. PICK s \in {"connecting", "off"} :
          links' = [links EXCEPT ![l].state = s, ![l].server = NewServer]
    BY <1>5 DEF Connect, SessionLost
  <2>2. NewServer \in [away : BOOLEAN, profile : BOOLEAN, idle : BOOLEAN]
    BY DEF NewServer
  <2>3. /\ links' \in [Links -> AwayLink]
        /\ \A k \in Links : /\ links'[k].message = links[k].message
                            /\ k # l => links'[k] = links[k]
        /\ links'[l].state = s
    BY <1>1, <2>1, <2>2 DEF AwayLink
  <2>4. links'[l].server = NewServer /\ ~NewServer.away
    BY <1>1, <2>1 DEF NewServer, AwayLink
  <2> QED
    BY <1>1, <1>2, <2>3, <2>4, AwayLinked DEF Up
<1> QED
  BY <1>3, <1>4, <1>5

LEMMA AwayCommands ==
  ASSUME AwayInv,
         (\E message \in BOOLEAN : AwayCommand(message)) \/ AvailCommand \/ UserSends
  PROVE  AwayInv' /\ AwayStep
<1>1. /\ links \in [Links -> AwayLink] /\ idle \in Nat /\ clock \in Nat /\ acted \in Nat
      /\ acted <= clock /\ habit \in Habit /\ Minute \in Nat \ {0}
  BY AwayAssumption, StartIsNat DEF AwayInv, AwayTyped
<1>2. UNCHANGED <<clock, answers, habit>>
  BY DEF AwayCommand, AvailCommand, UserSends
<1>3. (clock \div Minute) - (clock \div Minute) = 0
  BY <1>1, DivMod
<1>4. CASE SetAway /\ UNCHANGED <<idle, acted>>
  <2>1. links' = SetAwayAll(TRUE) /\ since' = (IF TRUE THEN clock - Minute * idle ELSE 0)
    BY <1>4 DEF SetAway
  <2>2. habit.autoidle /\ habit.autounidle => idle' = (clock \div Minute) - (acted' \div Minute)
    BY <1>4 DEF AwayInv, IdleIsCounted
  <2>3. TRUE \in BOOLEAN
    OBVIOUS
  <2>4. acted' \in {acted, clock} /\ idle' \in Nat /\ idle' <= idle
    BY <1>1, <1>4
  <2> QED
    BY <1>2, <2>1, <2>2, <2>3, <2>4, AwaySwitched
<1>5. ASSUME Unidle, acted' = clock
      PROVE  /\ idle' \in Nat /\ idle' <= idle
             /\ habit.autoidle /\ habit.autounidle
                  => idle' = (clock \div Minute) - (acted' \div Minute)
  BY <1>1, <1>3, <1>5 DEF Unidle
<1>6. CASE UnsetAway /\ acted' = clock
  <2>1. links' = SetAwayAll(FALSE) /\ since' = (IF FALSE THEN clock - Minute * idle ELSE 0)
    BY <1>6 DEF UnsetAway
  <2>2. FALSE \in BOOLEAN
    OBVIOUS
  <2>3. Unidle
    BY <1>6 DEF UnsetAway
  <2> QED
    BY <1>2, <1>5, <1>6, <2>1, <2>2, <2>3, AwaySwitched
<1>7. CASE Unidle /\ UNCHANGED <<since, links>> /\ acted' = clock
  <2>1. AwayTyped'
    BY <1>1, <1>2, <1>5, <1>7, StartIsNat DEF AwayInv, AwayTyped
  <2>2. AwayAsShown' /\ ShownInSession'
    BY <1>7 DEF AwayInv, AwayAsShown, ShownInSession, IsAway
  <2>3. IdleIsCounted' /\ AnswersNoted'
    BY <1>2, <1>5, <1>7 DEF IdleIsCounted, AnswersNoted, AwayInv
  <2>4. AwayStep
    BY <1>2, <1>7 DEF AwayStep, ProfileOfTheAway, StaleMessage, IsAway, AnswersPaced,
                      TimerSparesTheActive
  <2> QED
    BY <2>1, <2>2, <2>3, <2>4 DEF AwayInv
<1> QED
  BY <1>4, <1>6, <1>7 DEF AwayCommand, AvailCommand, UserSends, UpdateIdleTime

(* A message: one that is answered is answered once, after $autoreply minutes. *)
LEMMA AwayReceived ==
  ASSUME AwayInv, NEW w \in Writers, NEW automatic \in BOOLEAN, Received(w, automatic)
  PROVE  AwayInv' /\ AwayStep
<1>1. /\ UNCHANGED <<clock, acted, habit, idle, since, links>>
      /\ answers' = answers \/ (Answerable(w) /\ Answer(w))
  BY DEF Received, SendAway
<1>2. /\ clock \in Nat /\ acted \in Nat /\ acted <= clock /\ idle \in Nat /\ since \in Int
      /\ since <= clock /\ Minute \in Nat \ {0} /\ LongIdle \in Nat /\ habit \in Habit
      /\ answers.informed \in [Writers -> Nat] /\ answers.sent \in [Writers -> Nat]
      /\ answers.lastauto \in Nat
      /\ answers = [informed |-> answers.informed, lastauto |-> answers.lastauto,
                    sent |-> answers.sent]
  BY AwayAssumption, StartIsNat DEF AwayInv, AwayTyped
<1>3. AwayAsShown' /\ ShownInSession' /\ IdleIsCounted'
  <2>1. /\ clock' = clock /\ acted' = acted /\ habit' = habit /\ idle' = idle
        /\ since' = since /\ links' = links
    BY <1>1
  <2>2. AwayAsShown' /\ ShownInSession'
    BY <2>1 DEF AwayInv, AwayAsShown, ShownInSession, IsAway, Up
  <2>3. IdleIsCounted'
    BY <2>1, Zenon DEF AwayInv, IdleIsCounted
  <2> QED
    BY <2>2, <2>3
<1>4. ProfileOfTheAway
  BY <1>1 DEF ProfileOfTheAway, StaleMessage, IsAway
<1>5. CASE answers' = answers
  BY <1>1, <1>3, <1>4, <1>5
  DEF AwayInv, AwayTyped, AnswersNoted, AwayStep, AnswersPaced, TimerSparesTheActive
<1>6. CASE Answerable(w) /\ Answer(w)
  <2> DEFINE sends == answers.lastauto < clock - 1
  <2>1. /\ answers'.informed = [answers.informed EXCEPT ![w] = clock]
        /\ answers'.lastauto = IF sends THEN clock ELSE answers.lastauto
        /\ answers'.sent = IF sends THEN [answers.sent EXCEPT ![w] = clock] ELSE answers.sent
        /\ answers' \in [informed : [Writers -> Nat], lastauto : Nat, sent : [Writers -> Nat]]
    <3>1. CASE sends
      BY <1>2, <1>6, <3>1 DEF Answer
    <3>2. CASE ~sends
      BY <1>2, <1>6, <3>2 DEF Answer
    <3> QED
      BY <3>1, <3>2
  <2>2. AwayTyped'
    BY <1>1, <1>2, <2>1 DEF AwayInv, AwayTyped
  <2>3. \A v \in Writers : answers.sent[v] <= answers.informed[v] /\ answers.sent[v] <= answers.lastauto
    BY DEF AwayInv, AnswersNoted
  <2>4. answers.lastauto <= clock
    BY DEF AwayInv, AwayTyped
  <2>5. AnswersNoted'
    BY <1>2, <2>1, <2>3, <2>4 DEF AnswersNoted
  <2>6. clock - answers.informed[w] > Minute * habit.autoreply
    BY <1>6 DEF Answerable
  <2>7. AnswersPaced
    <3>1. Minute * habit.autoreply \in Nat
      <4>1. habit.autoreply \in Nat
        BY <1>2 DEF Habit
      <4> QED
        BY <1>2, <4>1
    <3>2. ASSUME NEW v \in Writers, answers'.sent[v] # answers.sent[v] PROVE sends /\ v = w
      BY <1>2, <2>1, <3>2
    <3>3. clock - answers.sent[w] > Minute * habit.autoreply
      BY <1>2, <2>3, <2>6, <3>1
    <3>4. sends => \A v \in Writers : clock - answers.sent[v] > 1
      BY <1>2, <2>3
    <3> QED
      BY <1>1, <3>2, <3>3, <3>4 DEF AnswersPaced
  <2>8. ASSUME habit.autoidle, habit.autounidle, habit.autoaway > 0
        PROVE  acted < since + 2 * Minute \/ clock - acted > Minute * (LongIdle - 1)
    <3>1. /\ idle = (clock \div Minute) - (acted \div Minute)
          /\ Minute * idle \in Int /\ Minute * idle < clock - acted + Minute
      BY <1>2, <2>8, MinutesBetween DEF AwayInv, IdleIsCounted
    <3>2. CASE idle >= (clock - since) \div Minute
      <4> DEFINE d == (clock - since) \div Minute
      <4>1. /\ d \in Nat /\ (clock - since) % Minute \in 0..(Minute - 1)
            /\ clock - since = Minute * d + ((clock - since) % Minute)
        <5>1. clock - since \in Nat
          BY <1>2
        <5> QED
          BY <1>2, <5>1, DivMod
      <4>2. Minute * d \in Int /\ Minute * idle \in Int /\ d <= idle
        BY <1>2, <3>2, <4>1
      <4> HIDE DEF d
      <4>3. Minute * d <= Minute * idle
        BY <1>2, <4>1, <4>2, TimesBound
      <4> QED
        BY <1>2, <3>1, <4>1, <4>2, <4>3
    <3>3. CASE idle >= LongIdle
      <4>1. Minute * LongIdle <= Minute * idle
        BY <1>2, <3>3, TimesBound
      <4>2. Minute * (LongIdle - 1) = Minute * LongIdle - Minute /\ Minute * LongIdle \in Int
        BY <1>2
      <4> QED
        BY <1>2, <3>1, <4>1, <4>2
    <3> QED
      BY <1>2, <1>6, <2>8, <3>2, <3>3 DEF Answerable, Habit
  <2>9. TimerSparesTheActive
    BY <1>1, <2>8 DEF TimerSparesTheActive
  <2> QED
    BY <1>3, <1>4, <2>2, <2>5, <2>7, <2>9 DEF AwayInv, AwayStep
<1> QED
  BY <1>1, <1>5, <1>6

(* The clock: at a full minute the timer may find that one has been idle for long. *)
LEMMA AwayTicks ==
  ASSUME AwayInv, ClockTicks
  PROVE  AwayInv' /\ AwayStep
<1>1. /\ clock' = clock + 1 /\ clock < Start + MaxClock
      /\ answers' = answers /\ acted' = acted /\ habit' = habit
  BY DEF ClockTicks
<1>2. /\ clock \in Nat /\ acted \in Nat /\ acted <= clock /\ idle \in Nat /\ since \in Int
      /\ since <= clock /\ Minute \in Nat \ {0} /\ habit \in Habit /\ Start \in Nat
      /\ links \in [Links -> AwayLink] /\ idle <= clock - Start /\ MaxClock \in Nat
      /\ acted \in Start..clock /\ answers.lastauto \in Nat /\ answers.lastauto <= clock
  BY AwayAssumption, StartIsNat DEF AwayInv, AwayTyped
<1>3. clock' \in Nat /\ clock' <= Start + MaxClock
  BY <1>1, <1>2
<1>4. (clock + 1) \div Minute
        = IF (clock + 1) % Minute = 0 THEN (clock \div Minute) + 1 ELSE clock \div Minute
  BY <1>2, NextMinute
<1>5. clock \div Minute \in Nat /\ acted \div Minute \in Nat
  BY <1>2, DivMod
<1>6. habit.autoidle /\ habit.autounidle => idle = (clock \div Minute) - (acted \div Minute)
  BY DEF AwayInv, IdleIsCounted
<1>7. AnswersNoted' /\ AnswersPaced
  BY <1>1 DEF AwayInv, AnswersNoted, AnswersPaced
<1>8. IF clock' % Minute = 0 THEN IdleAway ELSE UNCHANGED <<idle, since, links>>
  BY DEF ClockTicks
<1>9. CASE clock' % Minute # 0
  <2>1. idle' = idle /\ since' = since /\ links' = links
    BY <1>8, <1>9
  <2>2. AwayTyped'
    BY <1>1, <1>2, <1>3, <2>1 DEF AwayInv, AwayTyped
  <2>3. AwayAsShown' /\ ShownInSession'
    BY <2>1 DEF AwayInv, AwayAsShown, ShownInSession, IsAway, Up
  <2>4. (clock' \div Minute) = clock \div Minute
    BY <1>1, <1>4, <1>9
  <2>5. IdleIsCounted'
    BY <1>1, <1>6, <2>1, <2>4 DEF IdleIsCounted
  <2>6. ProfileOfTheAway
    BY <2>1 DEF ProfileOfTheAway, StaleMessage, IsAway
  <2>7. TimerSparesTheActive
    BY <1>1, <1>2, <2>1 DEF TimerSparesTheActive
  <2> QED
    BY <1>7, <2>2, <2>3, <2>5, <2>6, <2>7 DEF AwayInv, AwayStep
<1>10. CASE clock' % Minute = 0
  <2> DEFINE minutes == IF habit.autoidle THEN idle + 1 ELSE idle
             goes == ~IsAway /\ habit.autoaway > 0 /\ minutes >= habit.autoaway
  <2>1. /\ idle' = minutes
        /\ IF goes THEN since' = clock' - Minute * minutes /\ links' = SetAwayAll(TRUE)
           ELSE /\ since' = since
                /\ links' = IF IsAway THEN [l \in Links |-> SetInfo(links[l])] ELSE links
    BY <1>8, <1>10 DEF IdleAway
  <2>2. minutes \in Nat /\ minutes <= clock' - Start
    BY <1>1, <1>2
  <2>3. habit.autoidle /\ habit.autounidle => minutes = (clock' \div Minute) - (acted \div Minute)
    <3>1. (clock' \div Minute) = (clock \div Minute) + 1
      BY <1>1, <1>4, <1>10
    <3> QED
      BY <1>2, <1>5, <1>6, <3>1
  <2>4. goes => minutes >= habit.autoaway /\ ~IsAway /\ habit.autoaway > 0
    OBVIOUS
  <2> HIDE DEF minutes, goes
  <2>5. IdleIsCounted'
    BY <1>1, <2>1, <2>3 DEF IdleIsCounted
  <2>6. CASE goes
    <3>1. /\ clock' - Minute * minutes \in Nat \ {0} /\ clock' - Minute * minutes <= clock'
      BY <1>3, <2>2, StartIsFar
    <3>2. since' = clock' - Minute * minutes /\ links' = SetAwayAll(TRUE)
      BY <2>1, <2>6
    <3>3. PICK away \in BOOLEAN : away /\ links' = SetAwayAll(away)
      BY <3>2
    <3>4. /\ links' \in [Links -> AwayLink]
          /\ \A l \in Links :
               /\ links'[l].state = links[l].state
               /\ links'[l].server.away = IF Up(links'[l]) THEN away ELSE links[l].server.away
      BY <1>2, <3>3, SetAwayAllIs
    <3>5. AwayTyped'
      <4>1. since' \in Int /\ since' <= clock'
        BY <1>3, <3>1, <3>2
      <4> QED
        BY <1>1, <1>2, <1>3, <2>1, <2>2, <3>4, <4>1 DEF AwayInv, AwayTyped
    <3>6. AwayAsShown' /\ ShownInSession'
      <4>1. IsAway'
        BY <3>1, <3>2 DEF IsAway
      <4>2. ASSUME NEW l \in Links
            PROVE  links'[l].server.away <=> Up(links'[l])
        BY <3>3, <3>4 DEF AwayInv, ShownInSession, Up
      <4> QED
        BY <4>1, <4>2 DEF AwayAsShown, ShownInSession
    <3>7. ProfileOfTheAway
      BY <3>1, <3>2 DEF ProfileOfTheAway, StaleMessage, IsAway
    <3>8. ASSUME habit.autoidle, habit.autounidle
          PROVE  clock' - acted > Minute * (habit.autoaway - 1)
      <4>1. /\ Minute * minutes \in Int /\ Minute * minutes < clock' - acted + Minute
        BY <1>2, <1>3, <2>3, <3>8, MinutesBetween
      <4>2. habit.autoaway \in Nat /\ habit.autoaway <= minutes
        BY <1>2, <2>2, <2>4, <2>6 DEF Habit
      <4>3. Minute * habit.autoaway <= Minute * minutes
        BY <1>2, <2>2, <4>2, TimesBound
      <4>4. Minute * (habit.autoaway - 1) = Minute * habit.autoaway - Minute
            /\ Minute * habit.autoaway \in Int
        BY <1>2, <4>2
      <4> QED
        BY <1>2, <1>3, <4>1, <4>3, <4>4
    <3>9. TimerSparesTheActive
      BY <1>1, <3>8 DEF TimerSparesTheActive
    <3> QED
      BY <1>7, <2>5, <3>5, <3>6, <3>7, <3>9 DEF AwayInv, AwayStep
  <2>7. CASE ~goes
    <3>1. /\ since' = since
          /\ links' = IF IsAway THEN [l \in Links |-> SetInfo(links[l])] ELSE links
      BY <2>1, <2>7
    <3>2. /\ links' \in [Links -> AwayLink]
          /\ \A l \in Links : /\ links'[l].state = links[l].state
                              /\ links'[l].message = links[l].message
                              /\ links'[l].server.away = links[l].server.away
      <4>1. CASE IsAway
        BY <1>2, <3>1, <4>1, SetInfoIs
      <4>2. CASE ~IsAway
        BY <1>2, <3>1, <4>2
      <4> QED
        BY <4>1, <4>2
    <3>3. AwayTyped'
      BY <1>1, <1>2, <1>3, <2>1, <2>2, <3>1, <3>2 DEF AwayInv, AwayTyped
    <3>4. AwayAsShown' /\ ShownInSession'
      BY <3>1, <3>2 DEF AwayInv, AwayAsShown, ShownInSession, IsAway, Up
    <3>5. ProfileOfTheAway
      BY <3>1, <3>2 DEF ProfileOfTheAway, StaleMessage, IsAway
    <3>6. TimerSparesTheActive
      BY <1>1, <1>2, <3>1 DEF TimerSparesTheActive
    <3> QED
      BY <1>7, <2>5, <3>3, <3>4, <3>5, <3>6 DEF AwayInv, AwayStep
  <2> QED
    BY <2>6, <2>7
<1> QED
  BY <1>9, <1>10

LEMMA AwayBegins == AwayInit => AwayInv
<1> SUFFICES ASSUME AwayInit PROVE AwayInv
  OBVIOUS
<1>1. Start \in Nat /\ MaxClock \in Nat /\ Minute \in Nat \ {0} /\ Habits \subseteq Habit
  BY StartIsNat, AwayAssumption
<1>2. clock = Start /\ idle = 0 /\ since = -1 /\ acted = Start /\ habit \in Habit
  BY <1>1 DEF AwayInit
<1>3. /\ links \in [Links -> AwayLink]
      /\ \A l \in Links : links[l].state = "off" /\ ~links[l].server.away
  BY DEF AwayInit, AwayLink, NewServer
<1>4. /\ answers.informed = [w \in Writers |-> 0] /\ answers.sent = [w \in Writers |-> 0]
      /\ answers.lastauto = 0
      /\ answers \in [informed : [Writers -> Nat], lastauto : Nat, sent : [Writers -> Nat]]
  BY DEF AwayInit, Never
<1>5. AwayTyped
  BY <1>1, <1>2, <1>3, <1>4 DEF AwayTyped
<1>6. AwayAsShown /\ ShownInSession
  BY <1>3 DEF AwayAsShown, ShownInSession, Up
<1>7. IdleIsCounted /\ AnswersNoted
  BY <1>1, <1>2, <1>4, DivMod DEF IdleIsCounted, AnswersNoted
<1> QED
  BY <1>5, <1>6, <1>7 DEF AwayInv

LEMMA AwaySteps == AwayInv /\ AwayNext => AwayInv' /\ AwayStep
BY AwayCommands, AwayTicks, AwayReceived, AwaySessions DEF AwayNext

LEMMA AwayRests == AwayInv /\ UNCHANGED awayVars => AwayInv'
BY DEF awayVars, AwayInv, AwayTyped, AwayAsShown, ShownInSession, IdleIsCounted, AnswersNoted,
       IsAway, Up

AwayPart == part = "away" => AwayInv

(* What servers, profiles and people are told of one's absence is true and told in
   measure, for any number of connections and people, any minute and any settings. *)
THEOREM AwayAlwaysTold == Spec => AwayIsTold
<1>1. Init => AwayPart
  BY AwayBegins DEF Init, AwayPart
<1>2. AwayPart /\ [Next]_partVars => AwayPart'
  <2> SUFFICES ASSUME AwayPart, [Next]_partVars PROVE AwayPart'
    OBVIOUS
  <2>1. part' = part
    BY DEF Next, OthersStay, partVars
  <2>2. CASE part = "away" /\ AwayNext
    BY <2>1, <2>2, AwaySteps DEF AwayPart
  <2>3. CASE part = "away" /\ UNCHANGED awayVars
    BY <2>1, <2>3, AwayRests DEF AwayPart
  <2> QED
    BY <2>1, <2>2, <2>3 DEF Next, partVars, AwayPart
<1>3. AwayPart /\ [Next]_partVars => [part = "away" => AwayAsShown' /\ AwayStep]_partVars
  <2> SUFFICES ASSUME AwayPart, Next, part = "away" PROVE AwayAsShown' /\ AwayStep
    OBVIOUS
  <2>1. AwayNext
    BY DEF Next
  <2> QED
    BY <2>1, AwaySteps DEF AwayPart, AwayInv
<1> QED
  BY <1>1, <1>2, <1>3, PTL DEF Spec, AwayIsTold

-----------------------------------------------------------------------------
(* Sequences with one more or one less. *)

LEMMA InsertAtIs ==
  ASSUME NEW T, NEW s \in Seq(T), NEW e \in T, NEW a \in 1..(Len(s) + 1)
  PROVE  /\ InsertAt(s, a, e) \in Seq(T) /\ Len(InsertAt(s, a, e)) = Len(s) + 1
         /\ \A i \in 1..(Len(s) + 1) :
              InsertAt(s, a, e)[i] = IF i < a THEN s[i] ELSE IF i = a THEN e ELSE s[i - 1]
<1> DEFINE x == SubSeq(s, 1, a - 1)
           y == SubSeq(s, a, Len(s))
<1>1. x \in Seq(T) /\ Len(x) = a - 1 /\ \A i \in 1..(a - 1) : x[i] = s[i]
  OBVIOUS
<1>2. y \in Seq(T) /\ Len(y) = Len(s) - a + 1 /\ \A i \in 1..(Len(s) - a + 1) : y[i] = s[a + i - 1]
  OBVIOUS
<1>3. InsertAt(s, a, e) = (x \o <<e>>) \o y
  BY DEF InsertAt
<1> HIDE DEF x, y
<1>4. (x \o <<e>>) \in Seq(T) /\ Len(x \o <<e>>) = a
      /\ (\A i \in 1..(a - 1) : (x \o <<e>>)[i] = s[i]) /\ (x \o <<e>>)[a] = e
  BY <1>1
<1> DEFINE z == x \o <<e>>
<1> HIDE DEF z
<1>5. z \in Seq(T) /\ Len(z) = a /\ (\A i \in 1..(a - 1) : z[i] = s[i]) /\ z[a] = e
  BY <1>4 DEF z
<1>6. InsertAt(s, a, e) = z \o y
  BY <1>3 DEF z
<1>7. z \o y \in Seq(T) /\ Len(z \o y) = Len(s) + 1
      /\ \A i \in 1..(Len(s) + 1) : (z \o y)[i] = IF i <= a THEN z[i] ELSE y[i - a]
  BY <1>2, <1>5
<1>8. ASSUME NEW i \in 1..(Len(s) + 1)
      PROVE  (z \o y)[i] = IF i < a THEN s[i] ELSE IF i = a THEN e ELSE s[i - 1]
  <2>1. CASE i <= a
    BY <2>1, <1>5, <1>7
  <2>2. CASE i > a
    <3>1. i - a \in 1..(Len(s) - a + 1) /\ a + (i - a) - 1 = i - 1
      BY <2>2
    <3> QED
      BY <2>2, <3>1, <1>2, <1>7
  <2>3. i <= a \/ i > a
    OBVIOUS
  <2> QED
    BY <2>1, <2>2, <2>3, Zenon
<1> QED
  BY <1>6, <1>7, <1>8

LEMMA RemoveAtIs ==
  ASSUME NEW T, NEW s \in Seq(T), NEW a \in 1..Len(s)
  PROVE  /\ RemoveAt(s, a) \in Seq(T) /\ Len(RemoveAt(s, a)) = Len(s) - 1
         /\ \A i \in 1..(Len(s) - 1) : RemoveAt(s, a)[i] = IF i < a THEN s[i] ELSE s[i + 1]
<1> DEFINE x == SubSeq(s, 1, a - 1)
           y == SubSeq(s, a + 1, Len(s))
<1>1. x \in Seq(T) /\ Len(x) = a - 1 /\ \A i \in 1..(a - 1) : x[i] = s[i]
  OBVIOUS
<1>2. y \in Seq(T) /\ Len(y) = Len(s) - a /\ \A i \in 1..(Len(s) - a) : y[i] = s[a + i]
  OBVIOUS
<1>3. RemoveAt(s, a) = x \o y
  BY DEF RemoveAt
<1> HIDE DEF x, y
<1>4. x \o y \in Seq(T) /\ Len(x \o y) = Len(s) - 1
      /\ \A i \in 1..(Len(s) - 1) : (x \o y)[i] = IF i < a THEN x[i] ELSE y[i - (a - 1)]
  <2>1. x \o y \in Seq(T) /\ Len(x \o y) = Len(x) + Len(y)
        /\ \A i \in 1..(Len(x) + Len(y)) : (x \o y)[i] = IF i <= Len(x) THEN x[i] ELSE y[i - Len(x)]
    <3>1. x \in Seq(T) /\ y \in Seq(T)
      BY <1>1, <1>2
    <3> QED
      BY <3>1
  <2>2. Len(s) \in Nat /\ a \in Int /\ Len(x) = a - 1 /\ Len(x) + Len(y) = Len(s) - 1
    BY <1>1, <1>2
  <2>3. \A i \in 1..(Len(s) - 1) : i <= a - 1 <=> i < a
    BY <2>2
  <2> QED
    BY <2>1, <2>2, <2>3
<1>5. ASSUME NEW i \in 1..(Len(s) - 1) PROVE (x \o y)[i] = IF i < a THEN s[i] ELSE s[i + 1]
  <2>1. CASE i < a
    BY <2>1, <1>1, <1>4
  <2>2. CASE ~(i < a)
    <3>1. i - (a - 1) \in 1..(Len(s) - a) /\ a + (i - (a - 1)) = i + 1
      BY <2>2
    <3> QED
      BY <2>2, <3>1, <1>2, <1>4
  <2> QED
    BY <2>1, <2>2
<1> QED
  BY <1>3, <1>4, <1>5

LEMMA AppendIs ==
  ASSUME NEW T, NEW s \in Seq(T), NEW e \in T
  PROVE  /\ Append(s, e) \in Seq(T) /\ Len(Append(s, e)) = Len(s) + 1
         /\ (\A i \in 1..Len(s) : Append(s, e)[i] = s[i]) /\ Append(s, e)[Len(s) + 1] = e
OBVIOUS

-----------------------------------------------------------------------------
(* Hooks. *)

Hook == [ref : Nat, weight : Nat, by : Functions]
OfTable == Functions \cup {"nil"}
AnyText == Texts \cup {<<>>}
HookCall == [at : Nat, called : Seq(OfTable), begun : SUBSET Functions, shifted : BOOLEAN,
             buf : AnyText, len : Nat, told : AnyText]

TableTyped ==
  /\ table \in [of : Seq(OfTable), free : Seq(Nat)]
  /\ \A i \in DOMAIN chain : chain[i].ref \in 1..Len(table.of)
  /\ \A k \in DOMAIN table.free : table.free[k] \in 1..Len(table.of)
  /\ \A k, l \in DOMAIN table.free : table.free[k] = table.free[l] => k = l
  /\ \A f \in Functions : handle[f] \in 0..Len(table.of)

HooksTyped ==
  /\ chain \in Seq(Hook) /\ handle \in [Functions -> Nat] /\ call \in HookCall
  /\ stray \in BOOLEAN /\ manner \in Manner

(* The chain is in the order of the weights, and has a function once. *)
ChainOrdered ==
  /\ \A i, j \in DOMAIN chain : i < j => chain[i].weight <= chain[j].weight
  /\ \A i, j \in DOMAIN chain : chain[i].by = chain[j].by => i = j
  /\ \A i \in DOMAIN chain : chain[i].weight = Weight[chain[i].by]

(* A hooked function is where its hook's number says, its script has that number, and the
   number is not free. *)
NumbersTheirs ==
  ~manner.twice =>
    \A i \in DOMAIN chain :
      /\ table.of[chain[i].ref] = chain[i].by /\ handle[chain[i].by] = chain[i].ref
      /\ \A k \in DOMAIN table.free : chain[i].ref # table.free[k]

(* As long as nothing moved under it, a call has called the chain up to its index, and
   those that were there when it began, if they are there still, it will. *)
CallFollows ==
  InCall /\ ~call.shifted =>
    /\ call.at <= Len(chain)
    /\ ~manner.twice =>
         /\ Len(call.called) = call.at /\ \A i \in 1..call.at : call.called[i] = chain[i].by
         /\ \A f \in call.begun : \E i \in DOMAIN chain : chain[i].by = f

CallOver == ~InCall => CalledOnce

HooksInv ==
  /\ HooksTyped /\ TableTyped /\ ChainOrdered /\ NumbersTheirs /\ CallFollows /\ CallOver
  /\ HitsInside /\ MessageAsReturned

LEMMA TextsAre == \A t \in AnyText : t \in Seq({t[i] : i \in DOMAIN t})
<1> SUFFICES ASSUME NEW t \in AnyText PROVE t \in Seq({t[i] : i \in DOMAIN t})
  OBVIOUS
<1>1. CASE t \in Texts
  BY <1>1, HooksAssumption
<1>2. CASE t = <<>>
  <2>1. \A S : <<>> \in Seq(S)
    OBVIOUS
  <2> QED
    BY <1>2, <2>1, Zenon
<1> QED
  BY <1>1, <1>2 DEF AnyText

(* While the call runs, too, each has been called once. *)
LEMMA FollowedOnce == HooksInv => CalledOnce
<1> SUFFICES ASSUME HooksInv, ~manner.twice, ~call.shifted, InCall PROVE CalledOnce
  BY DEF HooksInv, CallOver, CalledOnce
<1> USE DEF HooksInv
<1>1. /\ call.at <= Len(chain) /\ Len(call.called) = call.at
      /\ \A i \in 1..call.at : call.called[i] = chain[i].by
  BY DEF CallFollows
<1>2. chain \in Seq(Hook) /\ call.called \in Seq(OfTable) /\ call.at \in Nat
  BY DEF HooksTyped, HookCall
<1>3. DOMAIN call.called = 1..call.at /\ 1..call.at \subseteq DOMAIN chain
  BY <1>1, <1>2
<1>4. IsInjective(call.called)
  BY <1>1, <1>3 DEF IsInjective, ChainOrdered
<1>5. ASSUME NEW i \in DOMAIN call.called, NEW j \in DOMAIN call.called, i < j
      PROVE  Weight[call.called[i]] <= Weight[call.called[j]]
  <2>1. call.called[i] = chain[i].by /\ call.called[j] = chain[j].by
        /\ i \in DOMAIN chain /\ j \in DOMAIN chain
    BY <1>1, <1>3
  <2>2. chain[i].weight <= chain[j].weight /\ chain[i].weight = Weight[chain[i].by]
        /\ chain[j].weight = Weight[chain[j].by]
    BY <2>1, <1>5 DEF ChainOrdered
  <2> QED
    BY <2>1, <2>2
<1> QED
  BY <1>4, <1>5 DEF CalledOnce

LEMMA HooksBegin == HooksInit => HooksInv
<1> SUFFICES ASSUME HooksInit PROVE HooksInv
  OBVIOUS
<1>1. chain = <<>> /\ table = [of |-> <<>>, free |-> <<>>] /\ call = NoCall /\ ~stray
      /\ handle = [f \in Functions |-> 0] /\ manner \in Manner
  BY HooksAssumption DEF HooksInit
<1>2. <<>> \in Seq(OfTable) /\ <<>> \in Seq(Nat) /\ <<>> \in Seq(Hook) /\ <<>> \in AnyText
      /\ Len(<<>>) = 0 /\ DOMAIN <<>> = {}
  BY DEF AnyText
<1>3. call \in HookCall /\ call.at = 0 /\ call.called = <<>>
  BY <1>1, <1>2 DEF NoCall, HookCall
<1>4. HooksTyped
  <2>1. handle \in [Functions -> Nat]
    BY <1>1
  <2>2. stray \in BOOLEAN
    BY DEF HooksInit
  <2>3. manner \in Manner
    BY <1>1, HooksAssumption
  <2>4. chain \in Seq(Hook)
    BY <1>1, <1>2
  <2> QED
    BY <2>1, <2>2, <2>3, <2>4, <1>3 DEF HooksTyped
<1>5. table \in [of : Seq(OfTable), free : Seq(Nat)] /\ table.of = <<>> /\ table.free = <<>>
  BY <1>1, <1>2
<1>6. TableTyped
  BY <1>1, <1>2, <1>5 DEF TableTyped
<1>7. ChainOrdered /\ NumbersTheirs
  BY <1>1, <1>2 DEF ChainOrdered, NumbersTheirs
<1>8. ~InCall
  BY <1>3 DEF InCall
<1>9. CalledOnce
  BY <1>2, <1>3, <1>8 DEF CalledOnce, IsInjective
<1> QED
  BY <1>1, <1>4, <1>6, <1>7, <1>8, <1>9 DEF HooksInv, CallFollows, CallOver, HitsInside, MessageAsReturned

LEMMA MovedIs ==
  ASSUME call \in HookCall, NEW a \in Nat
  PROVE  /\ Moved(a) \in HookCall
         /\ Moved(a).at = call.at /\ Moved(a).called = call.called /\ Moved(a).begun = call.begun
         /\ Moved(a).buf = call.buf /\ Moved(a).len = call.len /\ Moved(a).told = call.told
         /\ Moved(a).shifted <=> call.shifted \/ (InCall /\ a <= call.at)
<1> DEFINE b == call.shifted \/ (InCall /\ a <= call.at)
<1>1. Moved(a) = [call EXCEPT !.shifted = b]
  BY DEF Moved
<1>2. b \in BOOLEAN
  BY DEF InCall, HookCall
<1> HIDE DEF b
<1>3. [call EXCEPT !.shifted = b] \in HookCall
  BY <1>2 DEF HookCall
<1>4. [call EXCEPT !.shifted = b].shifted = b
  BY DEF HookCall
<1>5. Moved(a).shifted <=> b
  BY <1>1, <1>4
<1> QED
  BY <1>1, <1>3, <1>5 DEF b, HookCall

LEMMA ChainFacts ==
  ASSUME HooksTyped
  PROVE  /\ chain \in Seq(Hook) /\ Len(chain) \in Nat /\ DOMAIN chain = 1..Len(chain)
         /\ \A i \in 1..Len(chain) : chain[i].weight \in Nat
         /\ \A f \in Functions : Weight[f] \in Nat
<1>1. chain \in Seq(Hook)
  BY DEF HooksTyped
<1>2. \A i \in 1..Len(chain) : chain[i] \in Hook
  BY <1>1
<1>3. \A i \in 1..Len(chain) : chain[i].weight \in Nat
  BY <1>2 DEF Hook
<1>4. \A f \in Functions : Weight[f] \in Nat
  BY HooksAssumption
<1> QED
  BY <1>1, <1>3, <1>4

(* Where a new hook goes. *)
LEMMA AddedIs ==
  ASSUME HooksTyped, ChainOrdered, NEW f \in Functions, NEW r \in Nat
  PROVE  \E a \in 1..(Len(chain) + 1) :
           /\ Added(f, r).at = a
           /\ Added(f, r).chain = InsertAt(chain, a, [ref |-> r, weight |-> Weight[f], by |-> f])
           /\ \A i \in 1..(a - 1) : chain[i].weight <= Weight[f]
           /\ \A i \in a..Len(chain) : Weight[f] <= chain[i].weight
<1> DEFINE later == {i \in DOMAIN chain : chain[i].weight > Weight[f]}
           at == IF later = {} THEN Len(chain) + 1 ELSE CHOOSE i \in later : \A j \in later : i <= j
<1>0. chain \in Seq(Hook) /\ Len(chain) \in Nat /\ DOMAIN chain = 1..Len(chain)
      /\ (\A i \in 1..Len(chain) : chain[i].weight \in Nat) /\ Weight[f] \in Nat
  BY ChainFacts
<1>1. /\ Added(f, r).at = at
      /\ Added(f, r).chain = InsertAt(chain, at, [ref |-> r, weight |-> Weight[f], by |-> f])
  BY DEF Added
<1>2. CASE later = {}
  <2>1. at = Len(chain) + 1
    BY <1>2
  <2>2. \A i \in 1..Len(chain) : chain[i].weight <= Weight[f]
    BY <1>0, <1>2
  <2> HIDE DEF at
  <2> QED
    BY <1>0, <1>1, <2>1, <2>2
<1>3. CASE later # {}
  <2>1. later \in SUBSET Nat
    BY <1>0
  <2>2. PICK m \in later : \A n \in later : m <= n
    <3> HIDE DEF later
    <3> QED
      BY <1>3, <2>1, LeastOf
  <2>3. at \in later /\ \A n \in later : at <= n
    <3>1. at = CHOOSE i \in later : \A j \in later : i <= j
      BY <1>3
    <3> HIDE DEF later, at
    <3> QED
      BY <3>1, <2>2
  <2> HIDE DEF at
  <2>4. at \in 1..Len(chain) /\ chain[at].weight > Weight[f]
    BY <1>0, <2>3
  <2>5. ASSUME NEW i \in 1..(at - 1) PROVE chain[i].weight <= Weight[f]
    <3>1. i \in 1..Len(chain) /\ i < at
      BY <1>0, <2>4
    <3>2. i \notin later
      BY <2>3, <2>4, <3>1
    <3> QED
      BY <1>0, <3>1, <3>2
  <2>6. ASSUME NEW i \in at..Len(chain) PROVE Weight[f] <= chain[i].weight
    <3>1. i \in DOMAIN chain /\ at \in DOMAIN chain /\ (at < i \/ at = i)
      BY <1>0, <2>4
    <3>2. chain[at].weight <= chain[i].weight
      BY <3>1, <1>0 DEF ChainOrdered
    <3> QED
      BY <3>1, <3>2, <2>4, <1>0
  <2> QED
    BY <1>0, <1>1, <2>4, <2>5, <2>6
<1> QED
  BY <1>2, <1>3

(* The chain with a hook of its own more. *)
LEMMA ChainAdded ==
  ASSUME HooksTyped, ChainOrdered, NEW f \in Functions, NEW r \in Nat, ~Hooked(f),
         chain' = Added(f, r).chain
  PROVE  \E a \in 1..(Len(chain) + 1) :
           /\ Added(f, r).at = a /\ ChainOrdered' /\ chain' \in Seq(Hook)
           /\ Len(chain') = Len(chain) + 1 /\ chain'[a].ref = r /\ chain'[a].by = f
           /\ \A i \in 1..(a - 1) : chain'[i] = chain[i]
           /\ \A i \in (a + 1)..(Len(chain) + 1) : chain'[i] = chain[i - 1]
<1> DEFINE e == [ref |-> r, weight |-> Weight[f], by |-> f]
<1>0. chain \in Seq(Hook) /\ Len(chain) \in Nat /\ DOMAIN chain = 1..Len(chain)
      /\ (\A i \in 1..Len(chain) : chain[i].weight \in Nat) /\ Weight[f] \in Nat /\ e \in Hook
  <2>1. Weight[f] \in Nat
    BY ChainFacts
  <2>2. e \in Hook
    BY <2>1 DEF Hook
  <2> QED
    BY <2>2, ChainFacts
<1>1. PICK a \in 1..(Len(chain) + 1) :
           /\ Added(f, r).at = a /\ chain' = InsertAt(chain, a, e)
           /\ \A i \in 1..(a - 1) : chain[i].weight <= Weight[f]
           /\ \A i \in a..Len(chain) : Weight[f] <= chain[i].weight
  BY AddedIs
<1>2. chain' \in Seq(Hook) /\ Len(chain') = Len(chain) + 1
      /\ \A i \in 1..(Len(chain) + 1) :
           chain'[i] = IF i < a THEN chain[i] ELSE IF i = a THEN e ELSE chain[i - 1]
  <2> HIDE DEF e
  <2>1. InsertAt(chain, a, e) \in Seq(Hook) /\ Len(InsertAt(chain, a, e)) = Len(chain) + 1
        /\ \A i \in 1..(Len(chain) + 1) :
             InsertAt(chain, a, e)[i] = IF i < a THEN chain[i] ELSE IF i = a THEN e ELSE chain[i - 1]
    BY <1>0, InsertAtIs
  <2> QED
    BY <1>1, <2>1
<1>3. DOMAIN chain' = 1..(Len(chain) + 1) /\ chain'[a] = e
      /\ (\A i \in 1..(a - 1) : chain'[i] = chain[i])
      /\ (\A i \in (a + 1)..(Len(chain) + 1) : chain'[i] = chain[i - 1])
  <2> HIDE DEF e
  <2>1. DOMAIN chain' = 1..(Len(chain) + 1)
    BY <1>2
  <2>2. chain'[a] = e
    BY <1>0, <1>2
  <2>3. \A i \in 1..(a - 1) : chain'[i] = chain[i]
    BY <1>0, <1>2
  <2>4. \A i \in (a + 1)..(Len(chain) + 1) : i \in 1..(Len(chain) + 1) /\ ~(i < a) /\ i # a
    BY <1>0
  <2>5. \A i \in (a + 1)..(Len(chain) + 1) : chain'[i] = chain[i - 1]
    BY <1>2, <2>4
  <2> QED
    BY <2>1, <2>2, <2>3, <2>5
<1>4. e.ref = r /\ e.weight = Weight[f] /\ e.by = f
  OBVIOUS
<1> HIDE DEF e
<1>5. ASSUME NEW i \in DOMAIN chain', i # a
      PROVE  \E j \in DOMAIN chain :
               /\ chain'[i] = chain[j] /\ (i < a => j = i /\ j \in 1..(a - 1))
               /\ (i > a => j = i - 1 /\ j \in a..Len(chain))
  <2>1. CASE i < a
    BY <1>0, <1>3, <2>1
  <2>2. CASE i > a
    <3>1. i - 1 \in a..Len(chain) /\ i \in (a + 1)..(Len(chain) + 1)
      BY <1>0, <1>3, <2>2
    <3> QED
      BY <1>0, <1>3, <2>2, <3>1
  <2> QED
    BY <1>0, <1>3, <1>5, <2>1, <2>2
<1>6. ASSUME NEW i \in DOMAIN chain', NEW j \in DOMAIN chain', i < j
      PROVE  chain'[i].weight <= chain'[j].weight
  <2>0. i \in Int /\ j \in Int /\ a \in Int
    BY <1>0, <1>3
  <2>1. CASE i = a
    <3>1. j # a /\ j > a
      BY <2>0, <2>1, <1>6
    <3>2. PICK k \in a..Len(chain) : chain'[j] = chain[k]
      BY <3>1, <1>5
    <3> QED
      BY <2>1, <3>2, <1>1, <1>3, <1>4
  <2>2. CASE j = a
    <3>1. i # a /\ i < a
      BY <2>0, <2>2, <1>6
    <3>2. PICK k \in 1..(a - 1) : chain'[i] = chain[k]
      BY <3>1, <1>5
    <3> QED
      BY <2>2, <3>2, <1>1, <1>3, <1>4
  <2>3. CASE i # a /\ j # a
    <3>1. PICK k \in DOMAIN chain : /\ chain'[i] = chain[k] /\ (i < a => k = i) /\ (i > a => k = i - 1)
      BY <2>3, <1>5
    <3>2. PICK l \in DOMAIN chain : /\ chain'[j] = chain[l] /\ (j < a => l = j) /\ (j > a => l = j - 1)
      BY <2>3, <1>5
    <3>3. k < l
      BY <2>0, <2>3, <3>1, <3>2, <1>6
    <3> QED
      BY <3>1, <3>2, <3>3 DEF ChainOrdered
  <2> QED
    BY <2>1, <2>2, <2>3
<1>7. ASSUME NEW i \in DOMAIN chain', NEW j \in DOMAIN chain', chain'[i].by = chain'[j].by
      PROVE  i = j
  <2>0. i \in Int /\ j \in Int /\ a \in Int
    BY <1>0, <1>3
  <2>1. CASE i = a \/ j = a
    BY <2>1, <1>3, <1>4, <1>5, <1>7 DEF Hooked
  <2>2. CASE i # a /\ j # a
    <3>1. PICK k \in DOMAIN chain : /\ chain'[i] = chain[k] /\ (i < a => k = i) /\ (i > a => k = i - 1)
      BY <2>2, <1>5
    <3>2. PICK l \in DOMAIN chain : /\ chain'[j] = chain[l] /\ (j < a => l = j) /\ (j > a => l = j - 1)
      BY <2>2, <1>5
    <3>3. k = l
      BY <3>1, <3>2, <1>7 DEF ChainOrdered
    <3>4. (i < a => k < a) /\ (i > a => k >= a) /\ (j < a => l < a) /\ (j > a => l >= a)
      BY <2>0, <3>1, <3>2
    <3> QED
      BY <2>0, <2>2, <3>1, <3>2, <3>3, <3>4
  <2> QED
    BY <2>1, <2>2
<1>8. ASSUME NEW i \in DOMAIN chain' PROVE chain'[i].weight = Weight[chain'[i].by]
  <2>1. CASE i = a
    BY <2>1, <1>3, <1>4
  <2>2. CASE i # a
    BY <2>2, <1>5 DEF ChainOrdered
  <2> QED
    BY <2>1, <2>2
<1>9. ChainOrdered'
  BY <1>6, <1>7, <1>8 DEF ChainOrdered
<1> QED
  BY <1>1, <1>2, <1>3, <1>4, <1>9

(* The chain with one less. *)
LEMMA ChainRemoved ==
  ASSUME HooksTyped, ChainOrdered, NEW a \in DOMAIN chain, chain' = RemoveAt(chain, a)
  PROVE  /\ ChainOrdered' /\ chain' \in Seq(Hook) /\ Len(chain') = Len(chain) - 1
         /\ DOMAIN chain' = 1..(Len(chain) - 1)
         /\ \A i \in 1..(a - 1) : chain'[i] = chain[i]
         /\ \A i \in DOMAIN chain' : \E j \in DOMAIN chain \ {a} : chain'[i] = chain[j]
         /\ \A j \in DOMAIN chain \ {a} : \E i \in DOMAIN chain' : chain'[i] = chain[j]
<1>0. chain \in Seq(Hook) /\ Len(chain) \in Nat /\ DOMAIN chain = 1..Len(chain) /\ a \in 1..Len(chain)
  BY DEF HooksTyped
<1>1. chain' \in Seq(Hook) /\ Len(chain') = Len(chain) - 1
      /\ \A i \in 1..(Len(chain) - 1) : chain'[i] = IF i < a THEN chain[i] ELSE chain[i + 1]
  BY <1>0, RemoveAtIs
<1>2. DOMAIN chain' = 1..(Len(chain) - 1)
  BY <1>0, <1>1
<1>3. ASSUME NEW i \in DOMAIN chain'
      PROVE  \E j \in DOMAIN chain \ {a} :
               chain'[i] = chain[j] /\ (i < a => j = i) /\ (i >= a => j = i + 1)
  <2>0. i \in 1..(Len(chain) - 1) /\ i \in DOMAIN chain /\ i + 1 \in DOMAIN chain
    BY <1>0, <1>2
  <2>1. CASE i < a
    BY <1>0, <1>1, <2>0, <2>1
  <2>2. CASE i >= a
    <3>1. i + 1 # a /\ ~(i < a)
      BY <1>0, <2>0, <2>2
    <3> QED
      BY <1>1, <2>0, <2>2, <3>1
  <2> QED
    BY <1>0, <2>0, <2>1, <2>2
<1>4. ASSUME NEW j \in DOMAIN chain \ {a} PROVE \E i \in DOMAIN chain' : chain'[i] = chain[j]
  <2>1. CASE j < a
    <3>1. j \in 1..(Len(chain) - 1)
      BY <1>0, <2>1
    <3> QED
      BY <1>1, <1>2, <2>1, <3>1
  <2>2. CASE j > a
    <3>1. j - 1 \in 1..(Len(chain) - 1) /\ ~(j - 1 < a) /\ (j - 1) + 1 = j
      BY <1>0, <2>2
    <3> QED
      BY <1>1, <1>2, <3>1
  <2> QED
    BY <1>0, <2>1, <2>2
<1>5. ASSUME NEW i \in DOMAIN chain', NEW j \in DOMAIN chain'
      PROVE  /\ i < j => chain'[i].weight <= chain'[j].weight
             /\ chain'[i].by = chain'[j].by => i = j
  <2>0. i \in Int /\ j \in Int /\ a \in Int
    BY <1>0, <1>2
  <2>1. PICK k \in DOMAIN chain : chain'[i] = chain[k] /\ (i < a => k = i) /\ (i >= a => k = i + 1)
    BY <1>3
  <2>2. PICK l \in DOMAIN chain : chain'[j] = chain[l] /\ (j < a => l = j) /\ (j >= a => l = j + 1)
    BY <1>3
  <2>3. (i < j => k < l) /\ (k = l => i = j)
    BY <2>0, <2>1, <2>2
  <2>4. k < l => chain[k].weight <= chain[l].weight
    BY DEF ChainOrdered
  <2>5. chain[k].by = chain[l].by => k = l
    BY DEF ChainOrdered
  <2> QED
    BY <2>1, <2>2, <2>3, <2>4, <2>5
<1>6. ASSUME NEW i \in DOMAIN chain' PROVE chain'[i].weight = Weight[chain'[i].by]
  BY <1>3 DEF ChainOrdered
<1>7. \A i \in 1..(a - 1) : chain'[i] = chain[i]
  BY <1>0, <1>1
<1>8. ChainOrdered'
  BY <1>5, <1>6 DEF ChainOrdered
<1> QED
  BY <1>1, <1>2, <1>3, <1>4, <1>7, <1>8

LEMMA TableOf ==
  ASSUME NEW o \in Seq(OfTable), NEW q \in Seq(Nat), NEW d, d = [of |-> o, free |-> q]
  PROVE  d \in [of : Seq(OfTable), free : Seq(Nat)] /\ d.of = o /\ d.free = q
OBVIOUS

(* luaL_ref. *)
LEMMA TableAdded ==
  ASSUME TableTyped, NEW f \in Functions,
         table' = IF table.free = <<>> THEN [table EXCEPT !.of = Append(table.of, f)]
                  ELSE [of |-> [table.of EXCEPT ![Given] = f], free |-> Tail(table.free)]
  PROVE  /\ table' \in [of : Seq(OfTable), free : Seq(Nat)]
         /\ Given \in 1..Len(table'.of) /\ Len(table.of) <= Len(table'.of)
         /\ Len(table.of) \in Nat /\ Len(table'.of) \in Nat
         /\ table'.of[Given] = f
         /\ \A n \in 1..Len(table.of) : n # Given => table'.of[n] = table.of[n]
         /\ \A k \in DOMAIN table'.free :
              /\ table'.free[k] \in 1..Len(table'.of) /\ table'.free[k] # Given
              /\ \E l \in DOMAIN table.free : table'.free[k] = table.free[l]
         /\ \A k, l \in DOMAIN table'.free : table'.free[k] = table'.free[l] => k = l
         /\ Given \in 1..Len(table.of) => \E l \in DOMAIN table.free : Given = table.free[l]
<1>0. /\ table \in [of : Seq(OfTable), free : Seq(Nat)]
      /\ table.of \in Seq(OfTable) /\ table.free \in Seq(Nat) /\ f \in OfTable
      /\ Len(table.of) \in Nat /\ Len(table.free) \in Nat
      /\ DOMAIN table.free = 1..Len(table.free)
  BY DEF TableTyped, OfTable
<1>1. CASE table.free = <<>>
  <2>1. Given = Len(table.of) + 1
    BY <1>1 DEF Given
  <2>2. table' = [of |-> Append(table.of, f), free |-> table.free]
    BY <1>0, <1>1
  <2>3. table'.of = Append(table.of, f) /\ table'.free = <<>> /\ DOMAIN table'.free = {}
    BY <2>2, <1>1
  <2>4. /\ Append(table.of, f) \in Seq(OfTable) /\ Len(Append(table.of, f)) = Len(table.of) + 1
        /\ (\A i \in 1..Len(table.of) : Append(table.of, f)[i] = table.of[i])
        /\ Append(table.of, f)[Len(table.of) + 1] = f
    BY <1>0, AppendIs
  <2>5. table' \in [of : Seq(OfTable), free : Seq(Nat)]
    <3> DEFINE o == Append(table.of, f)
    <3>1. o \in Seq(OfTable) /\ table' = [of |-> o, free |-> table.free]
      BY <2>2, <2>4
    <3> HIDE DEF o
    <3> QED
      BY <1>0, <3>1, TableOf
  <2> QED
    BY <1>0, <2>1, <2>3, <2>4, <2>5
<1>2. CASE table.free # <<>>
  <2> DEFINE o == [table.of EXCEPT ![Given] = f]
             t == Tail(table.free)
  <2>1. Given = Head(table.free) /\ table' = [of |-> o, free |-> t]
    BY <1>2 DEF Given
  <2>2. 1 \in DOMAIN table.free /\ Head(table.free) = table.free[1]
    BY <1>0, <1>2
  <2>3. Given \in 1..Len(table.of) /\ Given = table.free[1]
    BY <2>1, <2>2 DEF TableTyped
  <2>4. t \in Seq(Nat) /\ Len(t) = Len(table.free) - 1 /\ DOMAIN t = 1..(Len(table.free) - 1)
        /\ \A k \in DOMAIN t : t[k] = table.free[k + 1]
    BY <1>0, <1>2
  <2>5. o \in Seq(OfTable) /\ Len(o) = Len(table.of) /\ o[Given] = f
        /\ \A n \in 1..Len(table.of) : n # Given => o[n] = table.of[n]
    BY <1>0, <2>3
  <2> HIDE DEF o, t
  <2>6. table'.of = o /\ table'.free = t /\ table' \in [of : Seq(OfTable), free : Seq(Nat)]
    <3>1. o \in Seq(OfTable) /\ t \in Seq(Nat) /\ table' = [of |-> o, free |-> t]
      BY <2>1, <2>4, <2>5
    <3>2. [of |-> o, free |-> t] \in [of : Seq(OfTable), free : Seq(Nat)]
      BY <3>1
    <3>3. table'.of = o /\ table'.free = t
      BY <3>1
    <3>4. table' \in [of : Seq(OfTable), free : Seq(Nat)]
      BY <3>1, <3>2, Zenon
    <3> QED
      BY <3>3, <3>4
  <2>7. ASSUME NEW k \in DOMAIN t
        PROVE  /\ k + 1 \in DOMAIN table.free /\ k + 1 # 1 /\ t[k] = table.free[k + 1]
    <3> DEFINE n == Len(table.free)
    <3>1. n \in Nat /\ k \in 1..(n - 1) /\ DOMAIN table.free = 1..n /\ t[k] = table.free[k + 1]
      BY <1>0, <2>4
    <3> HIDE DEF n
    <3>2. k + 1 \in 1..n /\ k + 1 # 1
      BY <3>1
    <3> QED
      BY <3>1, <3>2
  <2>8. ASSUME NEW k \in DOMAIN t
        PROVE  /\ t[k] \in 1..Len(table.of) /\ t[k] # Given
               /\ \E l \in DOMAIN table.free : t[k] = table.free[l]
    BY <2>7, <2>2, <2>3 DEF TableTyped
  <2>9. ASSUME NEW k \in DOMAIN t, NEW l \in DOMAIN t, t[k] = t[l] PROVE k = l
    <3>1. k + 1 = l + 1
      BY <2>7, <2>9 DEF TableTyped
    <3> QED
      BY <3>1, <2>4, <1>0
  <2>10. /\ \A k \in DOMAIN table'.free :
              /\ table'.free[k] \in 1..Len(table.of) /\ table'.free[k] # Given
              /\ \E l \in DOMAIN table.free : table'.free[k] = table.free[l]
         /\ \A k, l \in DOMAIN table'.free : table'.free[k] = table'.free[l] => k = l
    BY <2>6, <2>8, <2>9
  <2>11. Len(table'.of) = Len(table.of) /\ table'.of[Given] = f
         /\ \A n \in 1..Len(table.of) : n # Given => table'.of[n] = table.of[n]
    BY <2>5, <2>6
  <2>12. \E l \in DOMAIN table.free : Given = table.free[l]
    BY <2>2, <2>3
  <2>13. Len(table.of) <= Len(table'.of) /\ Len(table'.of) \in Nat
    BY <1>0, <2>11
  <2> HIDE DEF Given
  <2> QED
    BY <1>0, <2>3, <2>6, <2>10, <2>11, <2>12, <2>13
<1> QED
  BY <1>1, <1>2

LEMMA AddHookKeeps == \A f \in Functions : HooksInv /\ AddHook(f) => HooksInv'
<1> SUFFICES ASSUME NEW f \in Functions, HooksInv, AddHook(f) PROVE HooksInv'
  OBVIOUS
<1> USE DEF HooksInv
<1> DEFINE r == Given
<1>0. /\ ~Hooked(f) /\ chain' = Added(f, r).chain /\ call' = Moved(Added(f, r).at)
      /\ table' = IF table.free = <<>> THEN [table EXCEPT !.of = Append(table.of, f)]
                  ELSE [of |-> [table.of EXCEPT ![Given] = f], free |-> Tail(table.free)]
      /\ handle' = [handle EXCEPT ![f] = r] /\ stray' = stray /\ manner' = manner
  BY DEF AddHook, TableTyped
<1>1. /\ table' \in [of : Seq(OfTable), free : Seq(Nat)]
      /\ r \in 1..Len(table'.of) /\ Len(table.of) <= Len(table'.of)
      /\ Len(table.of) \in Nat /\ Len(table'.of) \in Nat
      /\ table'.of[r] = f
      /\ \A n \in 1..Len(table.of) : n # r => table'.of[n] = table.of[n]
      /\ \A k \in DOMAIN table'.free :
           /\ table'.free[k] \in 1..Len(table'.of) /\ table'.free[k] # r
           /\ \E l \in DOMAIN table.free : table'.free[k] = table.free[l]
      /\ \A k, l \in DOMAIN table'.free : table'.free[k] = table'.free[l] => k = l
      /\ r \in 1..Len(table.of) => \E l \in DOMAIN table.free : r = table.free[l]
  BY <1>0, TableAdded
<1> HIDE DEF r
<1>2. r \in Nat
  BY <1>1
<1>3. PICK a \in 1..(Len(chain) + 1) :
           /\ Added(f, r).at = a /\ ChainOrdered' /\ chain' \in Seq(Hook)
           /\ Len(chain') = Len(chain) + 1 /\ chain'[a].ref = r /\ chain'[a].by = f
           /\ \A i \in 1..(a - 1) : chain'[i] = chain[i]
           /\ \A i \in (a + 1)..(Len(chain) + 1) : chain'[i] = chain[i - 1]
  BY <1>0, <1>2, ChainAdded
<1>4. Len(chain) \in Nat /\ DOMAIN chain = 1..Len(chain) /\ a \in Nat
      /\ DOMAIN chain' = 1..(Len(chain) + 1) /\ call \in HookCall
  BY <1>3, ChainFacts DEF HooksTyped
<1>5. /\ call' \in HookCall
      /\ call'.at = call.at /\ call'.called = call.called /\ call'.begun = call.begun
      /\ call'.buf = call.buf /\ call'.len = call.len /\ call'.told = call.told
      /\ call'.shifted <=> call.shifted \/ (InCall /\ a <= call.at)
  BY <1>0, <1>3, <1>4, MovedIs
<1>6. ASSUME NEW i \in DOMAIN chain', i # a
      PROVE  \E j \in DOMAIN chain : chain'[i] = chain[j]
  <2>1. CASE i < a
    BY <1>3, <1>4, <2>1
  <2>2. CASE i > a
    <3>1. i - 1 \in 1..Len(chain) /\ i \in (a + 1)..(Len(chain) + 1)
      BY <1>3, <1>4, <2>2
    <3> QED
      BY <1>3, <1>4, <3>1
  <2> QED
    BY <1>4, <1>6, <2>1, <2>2
<1>7. ASSUME NEW j \in DOMAIN chain PROVE \E i \in DOMAIN chain' : chain'[i] = chain[j]
  <2>1. CASE j < a
    BY <1>3, <1>4, <2>1
  <2>2. CASE j >= a
    <3>1. j + 1 \in (a + 1)..(Len(chain) + 1) /\ (j + 1) - 1 = j
      BY <1>3, <1>4, <2>2
    <3> QED
      BY <1>3, <1>4, <3>1
  <2> QED
    BY <1>4, <2>1, <2>2
<1>8. HooksTyped'
  <2>1. handle' \in [Functions -> Nat]
    BY <1>0, <1>2 DEF HooksTyped
  <2> QED
    BY <2>1, <1>0, <1>3, <1>5 DEF HooksTyped
<1>9. TableTyped'
  <2>1. ASSUME NEW i \in DOMAIN chain' PROVE chain'[i].ref \in 1..Len(table'.of)
    <3>1. CASE i = a
      BY <3>1, <1>1, <1>3
    <3>2. CASE i # a
      <4>1. PICK j \in DOMAIN chain : chain'[i] = chain[j]
        BY <3>2, <1>6
      <4>2. chain[j].ref \in 1..Len(table.of)
        BY DEF TableTyped
      <4> QED
        BY <4>1, <4>2, <1>1
    <3> QED
      BY <3>1, <3>2
  <2>2. ASSUME NEW g \in Functions PROVE handle'[g] \in 0..Len(table'.of)
    <3>1. handle[g] \in 0..Len(table.of) /\ handle'[g] = IF g = f THEN r ELSE handle[g]
      BY <1>0 DEF TableTyped, HooksTyped
    <3> QED
      BY <3>1, <1>1
  <2> QED
    BY <2>1, <2>2, <1>1 DEF TableTyped
<1>10. NumbersTheirs'
  <2> SUFFICES ASSUME ~manner.twice, NEW i \in DOMAIN chain'
               PROVE  /\ table'.of[chain'[i].ref] = chain'[i].by /\ handle'[chain'[i].by] = chain'[i].ref
                      /\ \A k \in DOMAIN table'.free : chain'[i].ref # table'.free[k]
    BY <1>0 DEF NumbersTheirs
  <2>1. CASE i = a
    <3>1. handle'[f] = r
      BY <1>0 DEF HooksTyped
    <3> QED
      BY <2>1, <3>1, <1>1, <1>3
  <2>2. CASE i # a
    <3>1. PICK j \in DOMAIN chain : chain'[i] = chain[j]
      BY <2>2, <1>6
    <3>2. /\ table.of[chain[j].ref] = chain[j].by /\ handle[chain[j].by] = chain[j].ref
          /\ \A k \in DOMAIN table.free : chain[j].ref # table.free[k]
      BY DEF NumbersTheirs
    <3>3. chain[j].ref \in 1..Len(table.of)
      BY DEF TableTyped
    <3>4. chain[j].ref # r
      BY <1>1, <3>2, <3>3
    <3>5. chain[j].by # f
      BY <1>0 DEF Hooked
    <3>6. handle'[chain[j].by] = handle[chain[j].by]
      BY <1>0, <3>5 DEF HooksTyped
    <3>7. \A k \in DOMAIN table'.free : chain[j].ref # table'.free[k]
      BY <1>1, <3>2
    <3>8. table'.of[chain[j].ref] = table.of[chain[j].ref]
      BY <1>1, <3>3, <3>4
    <3> QED
      BY <3>1, <3>2, <3>6, <3>7, <3>8
  <2> QED
    BY <2>1, <2>2
<1>11. InCall' <=> InCall
  BY <1>5 DEF InCall
<1>12. CallFollows'
  <2> SUFFICES ASSUME InCall, ~call.shifted, ~(a <= call.at)
               PROVE  /\ call.at <= Len(chain')
                      /\ ~manner.twice =>
                           /\ Len(call.called) = call.at /\ \A i \in 1..call.at : call.called[i] = chain'[i].by
                           /\ \A g \in call.begun : \E i \in DOMAIN chain' : chain'[i].by = g
    <3> HIDE DEF HooksInv
    <3> QED
      BY <1>0, <1>5, <1>11 DEF CallFollows
  <2>1. call.at \in Nat /\ call.at <= Len(chain)
    BY <1>4 DEF CallFollows, HookCall
  <2>2. \A i \in 1..call.at : chain'[i] = chain[i]
    BY <1>3, <1>4, <2>1
  <2>3. call.at <= Len(chain')
    BY <1>3, <1>4, <2>1
  <2>4. ASSUME ~manner.twice
        PROVE  /\ Len(call.called) = call.at /\ \A i \in 1..call.at : call.called[i] = chain'[i].by
               /\ \A g \in call.begun : \E i \in DOMAIN chain' : chain'[i].by = g
    BY <2>2, <2>4, <1>7 DEF CallFollows
  <2> QED
    BY <2>3, <2>4
<1>13. CallOver'
  BY <1>0, <1>5, <1>11 DEF CallOver, CalledOnce
<1>14. HitsInside' /\ MessageAsReturned'
  BY <1>0, <1>5, <1>11 DEF HitsInside, MessageAsReturned
<1> QED
  BY <1>3, <1>8, <1>9, <1>10, <1>12, <1>13, <1>14

(* luaL_unref. *)
LEMMA TableFreed ==
  ASSUME TableTyped, NEW f \in Functions, handle[f] # 0, ~Contains(table.free, handle[f]),
         table' = [of |-> [table.of EXCEPT ![handle[f]] = "nil"],
                   free |-> <<handle[f]>> \o table.free]
  PROVE  /\ table' \in [of : Seq(OfTable), free : Seq(Nat)]
         /\ Len(table'.of) = Len(table.of) /\ Len(table.of) \in Nat
         /\ \A n \in 1..Len(table.of) : n # handle[f] => table'.of[n] = table.of[n]
         /\ \A k \in DOMAIN table'.free :
              /\ table'.free[k] \in 1..Len(table'.of)
              /\ table'.free[k] = handle[f] \/ \E l \in DOMAIN table.free : table'.free[k] = table.free[l]
         /\ \A k, l \in DOMAIN table'.free : table'.free[k] = table'.free[l] => k = l
<1> DEFINE h == handle[f]
           o == [table.of EXCEPT ![h] = "nil"]
           t == <<h>> \o table.free
<1>0. /\ table.of \in Seq(OfTable) /\ table.free \in Seq(Nat) /\ "nil" \in OfTable
      /\ Len(table.of) \in Nat /\ Len(table.free) \in Nat
      /\ DOMAIN table.free = 1..Len(table.free) /\ h \in 1..Len(table.of)
  BY DEF TableTyped, OfTable
<1>1. o \in Seq(OfTable) /\ Len(o) = Len(table.of)
      /\ \A n \in 1..Len(table.of) : n # h => o[n] = table.of[n]
  BY <1>0
<1>2. table' = [of |-> o, free |-> t]
  OBVIOUS
<1>3. \A l \in DOMAIN table.free : table.free[l] # h
  BY <1>0 DEF Contains
<1> HIDE DEF h
<1>4. t \in Seq(Nat) /\ Len(t) = Len(table.free) + 1 /\ DOMAIN t = 1..(Len(table.free) + 1)
      /\ t[1] = h /\ \A k \in 2..(Len(table.free) + 1) : t[k] = table.free[k - 1]
  BY <1>0
<1> HIDE DEF o, t
<1>5. table'.of = o /\ table'.free = t /\ table' \in [of : Seq(OfTable), free : Seq(Nat)]
  <2>1. o \in Seq(OfTable) /\ t \in Seq(Nat) /\ table' = [of |-> o, free |-> t]
    BY <1>1, <1>2, <1>4
  <2>2. [of |-> o, free |-> t] \in [of : Seq(OfTable), free : Seq(Nat)]
    BY <2>1
  <2>3. table'.of = o /\ table'.free = t
    BY <2>1
  <2>4. table' \in [of : Seq(OfTable), free : Seq(Nat)]
    BY <2>1, <2>2, Zenon
  <2> QED
    BY <2>3, <2>4
<1>6. ASSUME NEW k \in DOMAIN t, k # 1
      PROVE  k - 1 \in DOMAIN table.free /\ t[k] = table.free[k - 1]
  <2> DEFINE n == Len(table.free)
  <2>1. n \in Nat /\ k \in 1..(n + 1)
    BY <1>0, <1>4
  <2> HIDE DEF n
  <2>2. k \in 2..(n + 1) /\ k - 1 \in 1..n
    BY <2>1, <1>6
  <2> QED
    BY <2>2, <1>0, <1>4 DEF n
<1>7. ASSUME NEW k \in DOMAIN t
      PROVE  /\ t[k] \in 1..Len(table.of)
             /\ t[k] = h \/ \E l \in DOMAIN table.free : t[k] = table.free[l]
  <2>1. CASE k = 1
    BY <2>1, <1>0, <1>4
  <2>2. CASE k # 1
    BY <2>2, <1>6 DEF TableTyped
  <2> QED
    BY <2>1, <2>2
<1>8. ASSUME NEW k \in DOMAIN t, NEW l \in DOMAIN t, t[k] = t[l] PROVE k = l
  <2>1. CASE k = 1 \/ l = 1
    BY <2>1, <1>3, <1>4, <1>6, <1>8
  <2>2. CASE k # 1 /\ l # 1
    <3>1. k - 1 = l - 1
      BY <2>2, <1>6, <1>8 DEF TableTyped
    <3> QED
      BY <3>1, <1>0, <1>4
  <2> QED
    BY <2>1, <2>2
<1>9. /\ table' \in [of : Seq(OfTable), free : Seq(Nat)]
      /\ Len(table'.of) = Len(table.of) /\ Len(table.of) \in Nat
      /\ \A n \in 1..Len(table.of) : n # h => table'.of[n] = table.of[n]
  BY <1>0, <1>1, <1>5
<1>10. /\ \A k \in DOMAIN table'.free :
           /\ table'.free[k] \in 1..Len(table'.of)
           /\ table'.free[k] = h \/ \E l \in DOMAIN table.free : table'.free[k] = table.free[l]
       /\ \A k, l \in DOMAIN table'.free : table'.free[k] = table'.free[l] => k = l
  <2>1. Len(table'.of) = Len(table.of) /\ table'.free = t
    BY <1>5, <1>1
  <2> QED
    BY <2>1, <1>7, <1>8
<1> QED
  BY <1>9, <1>10, Zenon DEF h

LEMMA DelHookKeeps == \A f \in Functions : HooksInv /\ DelHook(f) => HooksInv'
<1> SUFFICES ASSUME NEW f \in Functions, HooksInv, DelHook(f) PROVE HooksInv'
  OBVIOUS
<1> USE DEF HooksInv
<1>0. /\ handle[f] # 0 /\ (Hooked(f) \/ manner.twice) /\ ~Contains(table.free, handle[f])
      /\ table' = [of |-> [table.of EXCEPT ![handle[f]] = "nil"],
                   free |-> <<handle[f]>> \o table.free]
      /\ handle' = handle /\ stray' = stray /\ manner' = manner
  BY DEF DelHook
<1>1. /\ table' \in [of : Seq(OfTable), free : Seq(Nat)]
      /\ Len(table'.of) = Len(table.of) /\ Len(table.of) \in Nat
      /\ \A n \in 1..Len(table.of) : n # handle[f] => table'.of[n] = table.of[n]
      /\ \A k \in DOMAIN table'.free :
           /\ table'.free[k] \in 1..Len(table'.of)
           /\ table'.free[k] = handle[f] \/ \E l \in DOMAIN table.free : table'.free[k] = table.free[l]
      /\ \A k, l \in DOMAIN table'.free : table'.free[k] = table'.free[l] => k = l
  BY <1>0, TableFreed
<1>2. Len(chain) \in Nat /\ DOMAIN chain = 1..Len(chain) /\ call \in HookCall
      /\ handle \in [Functions -> Nat]
  BY ChainFacts DEF HooksTyped
<1>3. CASE PlaceOfHook(handle[f]) = {}
  <2>1. chain' = chain /\ call' = call
    BY <1>3 DEF DelHook
  <2>2. manner.twice
    BY <1>0, <1>3 DEF PlaceOfHook, NumbersTheirs, Hooked
  <2>3. TableTyped'
    BY <1>0, <1>1, <2>1 DEF TableTyped
  <2>4. NumbersTheirs'
    BY <1>0, <2>2 DEF NumbersTheirs
  <2>5. HooksTyped' /\ ChainOrdered'
    BY <1>0, <2>1 DEF HooksTyped, ChainOrdered
  <2>6. CallFollows' /\ CallOver' /\ HitsInside' /\ MessageAsReturned'
    BY <1>0, <2>1 DEF CallFollows, CallOver, HitsInside, MessageAsReturned, CalledOnce, InCall
  <2> QED
    BY <2>3, <2>4, <2>5, <2>6
<1>4. CASE PlaceOfHook(handle[f]) # {}
  <2>0. PICK a \in PlaceOfHook(handle[f]) :
             /\ chain' = RemoveAt(chain, a)
             /\ call' = [Moved(a) EXCEPT !.begun = Moved(a).begun \ {chain[a].by}]
    <3> DEFINE a == CHOOSE i \in PlaceOfHook(handle[f]) : TRUE
    <3>1. a \in PlaceOfHook(handle[f])
      BY <1>4
    <3>2. /\ chain' = RemoveAt(chain, a)
          /\ call' = [Moved(a) EXCEPT !.begun = Moved(a).begun \ {chain[a].by}]
      BY <1>4 DEF DelHook
    <3> HIDE DEF a
    <3> QED
      BY <3>1, <3>2
  <2>1. a \in DOMAIN chain /\ chain[a].ref = handle[f] /\ a \in Nat
    BY <1>2 DEF PlaceOfHook
  <2>2. /\ ChainOrdered' /\ chain' \in Seq(Hook) /\ Len(chain') = Len(chain) - 1
        /\ DOMAIN chain' = 1..(Len(chain) - 1)
        /\ \A i \in 1..(a - 1) : chain'[i] = chain[i]
        /\ \A i \in DOMAIN chain' : \E j \in DOMAIN chain \ {a} : chain'[i] = chain[j]
        /\ \A j \in DOMAIN chain \ {a} : \E i \in DOMAIN chain' : chain'[i] = chain[j]
    BY <2>0, <2>1, ChainRemoved
  <2>3. /\ call' \in HookCall
        /\ call'.at = call.at /\ call'.called = call.called
        /\ call'.begun = call.begun \ {chain[a].by}
        /\ call'.buf = call.buf /\ call'.len = call.len /\ call'.told = call.told
        /\ call'.shifted <=> call.shifted \/ (InCall /\ a <= call.at)
    <3> DEFINE m == Moved(a)
               b == m.begun \ {chain[a].by}
    <3>1. /\ m \in HookCall
          /\ m.at = call.at /\ m.called = call.called /\ m.begun = call.begun
          /\ m.buf = call.buf /\ m.len = call.len /\ m.told = call.told
          /\ m.shifted <=> call.shifted \/ (InCall /\ a <= call.at)
      BY <1>2, <2>1, MovedIs
    <3>2. call' = [m EXCEPT !.begun = b]
      BY <2>0
    <3> HIDE DEF m
    <3>3. b = call.begun \ {chain[a].by} /\ b \in SUBSET Functions
      BY <3>1, <1>2 DEF HookCall
    <3> HIDE DEF b
    <3>4. call' \in HookCall
          /\ call'.at = m.at /\ call'.called = m.called /\ call'.begun = b
          /\ call'.buf = m.buf /\ call'.len = m.len /\ call'.told = m.told
      BY <3>1, <3>2, <3>3 DEF HookCall
    <3>5. call'.shifted = m.shifted
      BY <3>1, <3>2 DEF HookCall
    <3> QED
      BY <3>1, <3>3, <3>4, <3>5
  <2>4. HooksTyped'
    BY <1>0, <2>2, <2>3 DEF HooksTyped
  <2>5. TableTyped'
    <3>1. \A i \in DOMAIN chain' : chain'[i].ref \in 1..Len(table'.of)
      <4>1. \A j \in DOMAIN chain : chain[j].ref \in 1..Len(table.of)
        BY DEF TableTyped
      <4> HIDE DEF HooksInv
      <4> QED
        BY <1>1, <2>2, <4>1
    <3>2. \A g \in Functions : handle'[g] \in 0..Len(table'.of)
      BY <1>0, <1>1 DEF TableTyped
    <3> HIDE DEF HooksInv
    <3> QED
      BY <1>1, <3>1, <3>2 DEF TableTyped
  <2>6. NumbersTheirs'
    <3> SUFFICES ASSUME ~manner.twice, NEW i \in DOMAIN chain'
                 PROVE  /\ table'.of[chain'[i].ref] = chain'[i].by /\ handle'[chain'[i].by] = chain'[i].ref
                        /\ \A k \in DOMAIN table'.free : chain'[i].ref # table'.free[k]
      BY <1>0 DEF NumbersTheirs
    <3>1. PICK j \in DOMAIN chain \ {a} : chain'[i] = chain[j]
      BY <2>2
    <3>2. /\ table.of[chain[j].ref] = chain[j].by /\ handle[chain[j].by] = chain[j].ref
          /\ \A k \in DOMAIN table.free : chain[j].ref # table.free[k]
      BY DEF NumbersTheirs
    <3>3. chain[j].ref # chain[a].ref
      <4>1. table.of[chain[a].ref] = chain[a].by
        BY <2>1 DEF NumbersTheirs
      <4>2. chain[j].by # chain[a].by
        BY <2>1 DEF ChainOrdered
      <4> QED
        BY <4>1, <4>2, <3>2
    <3>4. chain[j].ref \in 1..Len(table.of)
      BY DEF TableTyped
    <3>5. table'.of[chain[j].ref] = table.of[chain[j].ref]
      BY <3>3, <3>4, <1>1, <2>1
    <3>6. \A k \in DOMAIN table'.free : chain[j].ref # table'.free[k]
      BY <1>1, <2>1, <3>2, <3>3
    <3> QED
      BY <1>0, <3>1, <3>2, <3>5, <3>6
  <2>7. InCall' <=> InCall
    BY <2>3 DEF InCall
  <2>8. CallFollows'
    <3> SUFFICES ASSUME InCall, ~call.shifted, ~(a <= call.at)
                 PROVE  /\ call.at <= Len(chain')
                        /\ ~manner.twice =>
                             /\ Len(call.called) = call.at /\ \A i \in 1..call.at : call.called[i] = chain'[i].by
                             /\ \A g \in call.begun \ {chain[a].by} : \E i \in DOMAIN chain' : chain'[i].by = g
      <4> HIDE DEF HooksInv
      <4> QED
        BY <1>0, <2>3, <2>7 DEF CallFollows
    <3>1. call.at \in Nat /\ call.at < a /\ a <= Len(chain)
      BY <1>2, <2>1 DEF HookCall
    <3>2. \A i \in 1..call.at : chain'[i] = chain[i]
      <4>1. \A i \in 1..call.at : i \in 1..(a - 1)
        BY <2>1, <3>1
      <4> QED
        BY <2>2, <4>1
    <3>3. call.at <= Len(chain')
      BY <1>2, <2>1, <2>2, <3>1
    <3>4. ASSUME ~manner.twice
          PROVE  /\ Len(call.called) = call.at /\ \A i \in 1..call.at : call.called[i] = chain'[i].by
                 /\ \A g \in call.begun \ {chain[a].by} : \E i \in DOMAIN chain' : chain'[i].by = g
      <4>1. /\ Len(call.called) = call.at /\ \A i \in 1..call.at : call.called[i] = chain[i].by
            /\ \A g \in call.begun : \E i \in DOMAIN chain : chain[i].by = g
        BY <3>4 DEF CallFollows
      <4>2. \A i \in 1..call.at : call.called[i] = chain'[i].by
        BY <4>1, <3>2
      <4>3. ASSUME NEW g \in call.begun \ {chain[a].by} PROVE \E i \in DOMAIN chain' : chain'[i].by = g
        <5>1. PICK j \in DOMAIN chain : chain[j].by = g
          BY <4>1, <4>3
        <5>2. j \in DOMAIN chain \ {a}
          BY <5>1, <4>3
        <5> QED
          BY <5>1, <5>2, <2>2
      <4> QED
        BY <4>1, <4>2, <4>3
    <3> QED
      BY <3>3, <3>4
  <2>9. CallOver'
    <3> SUFFICES ASSUME ~InCall, ~manner.twice, ~call.shifted PROVE CalledOnce'
      BY <1>0, <2>3, <2>7 DEF CallOver, CalledOnce
    <3>1. CalledOnce
      BY DEF CallOver
    <3> QED
      BY <1>0, <2>3, <2>7, <3>1 DEF CalledOnce
  <2>10. HitsInside' /\ MessageAsReturned'
    BY <1>0, <2>3, <2>7 DEF HitsInside, MessageAsReturned
  <2> QED
    BY <2>2, <2>4, <2>5, <2>6, <2>8, <2>9, <2>10
<1> QED
  BY <1>3, <1>4

LEMMA TextWhole ==
  \A t \in AnyText : /\ Len(t) \in Nat /\ SubSeq(t, 1, Len(t)) = t
<1> SUFFICES ASSUME NEW t \in AnyText PROVE Len(t) \in Nat /\ SubSeq(t, 1, Len(t)) = t
  OBVIOUS
<1>1. PICK S : t \in Seq(S)
  BY TextsAre
<1> QED
  BY <1>1

LEMMA CallBeginsKeeps == \A t \in Texts : HooksInv /\ ~stray /\ CallBegins(t) => HooksInv'
<1> SUFFICES ASSUME NEW t \in Texts, HooksInv, ~stray, CallBegins(t) PROVE HooksInv'
  OBVIOUS
<1> USE DEF HooksInv
<1> DEFINE who == table.of[chain[1].ref]
           all == {chain[i].by : i \in DOMAIN chain}
<1>0. /\ ~InCall /\ chain # <<>>
      /\ call' = [at |-> 1, called |-> <<who>>, begun |-> all, shifted |-> FALSE,
                  buf |-> t, len |-> Len(t), told |-> t]
      /\ chain' = chain /\ table' = table /\ handle' = handle /\ stray' = stray /\ manner' = manner
  BY DEF CallBegins, NoCall
<1>1. Len(chain) \in Nat /\ DOMAIN chain = 1..Len(chain) /\ 1 \in DOMAIN chain /\ chain \in Seq(Hook)
  BY <1>0, ChainFacts
<1>2. who \in OfTable
  <2>1. chain[1].ref \in 1..Len(table.of) /\ table.of \in Seq(OfTable)
    BY <1>1 DEF TableTyped
  <2> QED
    BY <2>1
<1>3. all \in SUBSET Functions
  <2>1. \A i \in DOMAIN chain : chain[i] \in Hook
    BY <1>1
  <2> QED
    BY <2>1 DEF Hook
<1>4. t \in AnyText /\ Len(t) \in Nat /\ SubSeq(t, 1, Len(t)) = t
  BY TextWhole DEF AnyText
<1>5. \A f \in all : \E i \in DOMAIN chain : chain[i].by = f
  OBVIOUS
<1>6. ~manner.twice => who = chain[1].by
  BY <1>1 DEF NumbersTheirs
<1> DEFINE c == <<who>>
<1>7. c \in Seq(OfTable) /\ Len(c) = 1 /\ c[1] = who
  BY <1>2
<1> HIDE DEF who, all, c
<1>8. call' = [at |-> 1, called |-> c, begun |-> all, shifted |-> FALSE,
               buf |-> t, len |-> Len(t), told |-> t]
  BY <1>0 DEF c
<1>9. /\ call'.at = 1 /\ call'.called = c /\ call'.begun = all /\ ~call'.shifted
      /\ call'.buf = t /\ call'.len = Len(t) /\ call'.told = t
  BY <1>8
<1>10. call' \in HookCall
  BY <1>3, <1>4, <1>7, <1>8 DEF HookCall
<1>11. InCall'
  BY <1>9 DEF InCall
<1>12. HooksTyped' /\ TableTyped' /\ ChainOrdered' /\ NumbersTheirs'
  BY <1>0, <1>10 DEF HooksTyped, TableTyped, ChainOrdered, NumbersTheirs
<1>13. CallFollows'
  <2>1. 1 <= Len(chain)
    BY <1>1
  <2>2. \A i \in 1..1 : i = 1
    OBVIOUS
  <2> QED
    BY <1>0, <1>5, <1>6, <1>7, <1>9, <1>11, <2>1, <2>2 DEF CallFollows
<1>14. CallOver' /\ HitsInside' /\ MessageAsReturned'
  BY <1>0, <1>4, <1>9, <1>11 DEF CallOver, HitsInside, MessageAsReturned
<1> QED
  BY <1>12, <1>13, <1>14

LEMMA ReturnedIs ==
  ASSUME call \in HookCall, NEW t \in Texts
  PROVE  \E b \in AnyText :
           /\ Returned(call, t) = [at |-> call.at, called |-> call.called, begun |-> call.begun,
                                   shifted |-> call.shifted, buf |-> b, len |-> Len(t), told |-> t]
           /\ SubSeq(b, 1, Len(t)) = t /\ (b # t => IsStrictPrefix(t, b))
<1> DEFINE b == IF IsPrefix(t, call.buf) THEN call.buf ELSE t
<1>1. Returned(call, t) = [call EXCEPT !.buf = b, !.len = Len(t), !.told = t]
  BY DEF Returned
<1>2. t \in AnyText /\ call.buf \in AnyText
  BY DEF HookCall, AnyText
<1>3. b \in AnyText
  BY <1>2
<1>4. Len(t) \in Nat /\ SubSeq(t, 1, Len(t)) = t
  BY <1>2, TextWhole
<1>5. SubSeq(b, 1, Len(t)) = t /\ (b # t => IsStrictPrefix(t, b))
  <2>1. CASE IsPrefix(t, call.buf)
    <3>1. SubSeq(t, 1, Len(t)) = SubSeq(call.buf, 1, Len(t))
      BY <2>1 DEF IsPrefix
    <3> QED
      BY <2>1, <3>1, <1>4 DEF IsStrictPrefix
  <2>2. CASE ~IsPrefix(t, call.buf)
    BY <2>2, <1>4
  <2> QED
    BY <2>1, <2>2
<1> HIDE DEF b
<1>6. [call EXCEPT !.buf = b, !.len = Len(t), !.told = t]
        = [at |-> call.at, called |-> call.called, begun |-> call.begun,
           shifted |-> call.shifted, buf |-> b, len |-> Len(t), told |-> t]
  <2> DEFINE l == Len(t)
             p == [at |-> call.at, called |-> call.called, begun |-> call.begun,
                   shifted |-> call.shifted, buf |-> call.buf, len |-> call.len, told |-> call.told]
  <2>1. call = p
    BY DEF HookCall
  <2>2. [p EXCEPT !.buf = b, !.len = l, !.told = t]
          = [at |-> call.at, called |-> call.called, begun |-> call.begun,
             shifted |-> call.shifted, buf |-> b, len |-> l, told |-> t]
    <3> HIDE DEF l
    <3> DEFINE q == [at |-> call.at, called |-> call.called, begun |-> call.begun,
                     shifted |-> call.shifted, buf |-> b, len |-> call.len, told |-> call.told]
               r == [at |-> call.at, called |-> call.called, begun |-> call.begun,
                     shifted |-> call.shifted, buf |-> b, len |-> l, told |-> call.told]
    <3>1. [p EXCEPT !.buf = b, !.len = l, !.told = t]
            = [[[p EXCEPT !.buf = b] EXCEPT !.len = l] EXCEPT !.told = t]
      <4> HIDE DEF p
      <4> QED
        OBVIOUS
    <3>2. [p EXCEPT !.buf = b] = q
      OBVIOUS
    <3>3. [q EXCEPT !.len = l] = r
      OBVIOUS
    <3>4. [r EXCEPT !.told = t]
            = [at |-> call.at, called |-> call.called, begun |-> call.begun,
               shifted |-> call.shifted, buf |-> b, len |-> l, told |-> t]
      OBVIOUS
    <3> HIDE DEF p, q, r
    <3> QED
      BY <3>1, <3>2, <3>3, <3>4, Zenon
  <2> HIDE DEF p
  <2> QED
    BY <2>1, <2>2
<1> QED
  BY <1>1, <1>3, <1>5, <1>6

LEMMA HookReturnsKeeps == \A t \in Texts : HooksInv /\ ~stray /\ HookReturns(t) => HooksInv'
<1> SUFFICES ASSUME NEW t \in Texts, HooksInv, ~stray, HookReturns(t) PROVE HooksInv'
  OBVIOUS
<1> USE DEF HooksInv
<1>0. /\ InCall /\ call \in HookCall
      /\ chain' = chain /\ table' = table /\ handle' = handle /\ stray' = stray /\ manner' = manner
  BY DEF HookReturns, HooksTyped
<1>1. PICK b \in AnyText :
           /\ Returned(call, t) = [at |-> call.at, called |-> call.called, begun |-> call.begun,
                                   shifted |-> call.shifted, buf |-> b, len |-> Len(t), told |-> t]
           /\ SubSeq(b, 1, Len(t)) = t /\ (b # t => IsStrictPrefix(t, b))
  BY <1>0, ReturnedIs
<1>2. t \in AnyText /\ Len(t) \in Nat /\ SubSeq(t, 1, Len(t)) = t
  BY TextWhole DEF AnyText
<1>3. Len(chain) \in Nat /\ DOMAIN chain = 1..Len(chain) /\ chain \in Seq(Hook)
      /\ call.at \in Nat /\ call.at # 0 /\ call.called \in Seq(OfTable) /\ call.begun \in SUBSET Functions
      /\ call.shifted \in BOOLEAN
  BY <1>0, ChainFacts DEF HookCall, InCall
<1>4. HooksTyped' <=> call' \in HookCall
  BY <1>0 DEF HooksTyped
<1>5. TableTyped' /\ ChainOrdered' /\ NumbersTheirs'
  BY <1>0 DEF TableTyped, ChainOrdered, NumbersTheirs
<1>6. CASE call.at < Len(chain)
  <2> DEFINE n == call.at + 1
             who == table.of[chain[n].ref]
             c == Append(call.called, who)
  <2>1. call' = [Returned(call, t) EXCEPT !.at = Returned(call, t).at + 1, !.called = Append(Returned(call, t).called, who)]
    BY <1>6 DEF HookReturns
  <2>2. n \in DOMAIN chain /\ n \in Nat /\ n # 0
    BY <1>3, <1>6
  <2>3. who \in OfTable
    <3>1. chain[n].ref \in 1..Len(table.of) /\ table.of \in Seq(OfTable)
      BY <2>2 DEF TableTyped
    <3> QED
      BY <3>1
  <2>4. c \in Seq(OfTable) /\ Len(c) = Len(call.called) + 1
        /\ (\A i \in 1..Len(call.called) : c[i] = call.called[i]) /\ c[Len(call.called) + 1] = who
    <3> HIDE DEF who
    <3> QED
      BY <1>3, <2>3, AppendIs
  <2>5. call' = [at |-> n, called |-> c, begun |-> call.begun,
                 shifted |-> call.shifted, buf |-> b, len |-> Len(t), told |-> t]
    <3> DEFINE p == [at |-> call.at, called |-> call.called, begun |-> call.begun,
                     shifted |-> call.shifted, buf |-> b, len |-> Len(t), told |-> t]
    <3>1. p.at = call.at /\ p.called = call.called
      OBVIOUS
    <3>2. [p EXCEPT !.at = n, !.called = c]
            = [at |-> n, called |-> c, begun |-> call.begun,
               shifted |-> call.shifted, buf |-> b, len |-> Len(t), told |-> t]
      <4> HIDE DEF n, c
      <4> DEFINE q == [at |-> n, called |-> call.called, begun |-> call.begun,
                       shifted |-> call.shifted, buf |-> b, len |-> Len(t), told |-> t]
      <4>1. [p EXCEPT !.at = n, !.called = c] = [[p EXCEPT !.at = n] EXCEPT !.called = c]
        <5> HIDE DEF p
        <5> QED
          OBVIOUS
      <4>2. [p EXCEPT !.at = n] = q
        OBVIOUS
      <4>3. [q EXCEPT !.called = c]
              = [at |-> n, called |-> c, begun |-> call.begun,
                 shifted |-> call.shifted, buf |-> b, len |-> Len(t), told |-> t]
        OBVIOUS
      <4> HIDE DEF p, q
      <4> QED
        BY <4>1, <4>2, <4>3, Zenon
    <3> HIDE DEF p, who
    <3>3. Returned(call, t) = p
      BY <1>1 DEF p
    <3> QED
      BY <2>1, <3>1, <3>2, <3>3
  <2>6. ~manner.twice => who = chain[n].by
    BY <2>2 DEF NumbersTheirs
  <2> HIDE DEF c, who
  <2>7. /\ call'.at = n /\ call'.called = c /\ call'.begun = call.begun
        /\ call'.shifted = call.shifted /\ call'.buf = b /\ call'.len = Len(t) /\ call'.told = t
    BY <2>5
  <2>8. call' \in HookCall
    <3> HIDE DEF n
    <3> QED
      BY <1>2, <1>3, <2>2, <2>4, <2>5 DEF HookCall
  <2>9. InCall'
    BY <2>2, <2>7 DEF InCall
  <2>10. CallFollows'
    <3> SUFFICES ASSUME ~call.shifted
                 PROVE  /\ n <= Len(chain)
                        /\ ~manner.twice =>
                             /\ Len(c) = n /\ \A i \in 1..n : c[i] = chain[i].by
                             /\ \A f \in call.begun : \E i \in DOMAIN chain : chain[i].by = f
      BY <1>0, <2>7, <2>9 DEF CallFollows
    <3>1. n <= Len(chain)
      BY <1>3, <2>2
    <3>2. ASSUME ~manner.twice
          PROVE  /\ Len(c) = n /\ \A i \in 1..n : c[i] = chain[i].by
                 /\ \A f \in call.begun : \E i \in DOMAIN chain : chain[i].by = f
      <4>1. /\ Len(call.called) = call.at /\ \A i \in 1..call.at : call.called[i] = chain[i].by
            /\ \A f \in call.begun : \E i \in DOMAIN chain : chain[i].by = f
        BY <3>2, <1>0 DEF CallFollows
      <4>2. \A i \in 1..n : i \in 1..call.at \/ i = n
        BY <1>3
      <4> QED
        BY <4>1, <4>2, <2>4, <2>6, <3>2
    <3> QED
      BY <3>1, <3>2
  <2>11. CallOver' /\ HitsInside' /\ MessageAsReturned'
    BY <1>0, <1>1, <2>7, <2>9 DEF CallOver, HitsInside, MessageAsReturned
  <2> QED
    BY <1>4, <1>5, <2>8, <2>10, <2>11
<1>7. CASE ~(call.at < Len(chain))
  <2>1. call' = [Returned(call, t) EXCEPT !.at = 0]
    BY <1>7 DEF HookReturns
  <2>2. call' = [at |-> 0, called |-> call.called, begun |-> call.begun,
                 shifted |-> call.shifted, buf |-> b, len |-> Len(t), told |-> t]
    BY <1>1, <2>1
  <2>3. /\ call'.at = 0 /\ call'.called = call.called /\ call'.begun = call.begun
        /\ call'.shifted = call.shifted
    BY <2>2
  <2>4. call' \in HookCall
    BY <1>2, <1>3, <2>2 DEF HookCall
  <2>5. ~InCall'
    BY <2>3 DEF InCall
  <2>6. CalledOnce'
    <3> SUFFICES ASSUME ~manner.twice, ~call.shifted
                 PROVE  /\ IsInjective(call.called)
                        /\ \A i, j \in DOMAIN call.called : i < j => Weight[call.called[i]] <= Weight[call.called[j]]
                        /\ \A f \in call.begun : Contains(call.called, f)
      BY <1>0, <2>3 DEF CalledOnce
    <3>1. CalledOnce
      BY FollowedOnce
    <3>2. /\ call.at <= Len(chain) /\ Len(call.called) = call.at
          /\ \A i \in 1..call.at : call.called[i] = chain[i].by
          /\ \A f \in call.begun : \E i \in DOMAIN chain : chain[i].by = f
      BY <1>0 DEF CallFollows
    <3>3. call.at = Len(chain)
      BY <1>3, <1>7, <3>2
    <3>4. \A f \in call.begun : Contains(call.called, f)
      BY <1>3, <3>2, <3>3 DEF Contains
    <3> QED
      BY <3>1, <3>4 DEF CalledOnce
  <2>7. CallFollows' /\ CallOver' /\ HitsInside' /\ MessageAsReturned'
    BY <1>0, <2>5, <2>6 DEF CallFollows, CallOver, HitsInside, MessageAsReturned
  <2> QED
    BY <1>4, <1>5, <2>4, <2>7
<1> QED
  BY <1>6, <1>7

LEMMA HookStopsKeeps == HooksInv /\ ~stray /\ HookStops => HooksInv'
<1> SUFFICES ASSUME HooksInv, ~stray, HookStops PROVE HooksInv'
  OBVIOUS
<1> USE DEF HooksInv
<1>0. /\ InCall /\ call \in HookCall /\ (stray' <=> call.at > Len(chain)) /\ stray' \in BOOLEAN
      /\ call' = [NoCall EXCEPT !.shifted = call.shifted]
      /\ chain' = chain /\ table' = table /\ handle' = handle /\ manner' = manner
  <2>1. stray' = (call.at > Len(chain))
    BY DEF HookStops
  <2>2. (stray' <=> call.at > Len(chain)) /\ stray' \in BOOLEAN
    <3> DEFINE past == call.at > Len(chain)
    <3>1. past \in BOOLEAN
      OBVIOUS
    <3>2. stray' = past
      BY <2>1
    <3> HIDE DEF past
    <3>3. (stray' <=> past) /\ stray' \in BOOLEAN
      BY <3>1, <3>2
    <3> QED
      BY <3>3 DEF past
  <2> QED
    BY <2>2 DEF HookStops, HooksTyped
<1>1. call' = [at |-> 0, called |-> <<>>, begun |-> {}, shifted |-> call.shifted,
               buf |-> <<>>, len |-> 0, told |-> <<>>]
  BY <1>0 DEF NoCall
<1>2. call'.at = 0 /\ call'.called = <<>> /\ call'.shifted = call.shifted
  BY <1>1
<1>3. call' \in HookCall
  <2>1. call.shifted \in BOOLEAN /\ <<>> \in Seq(OfTable) /\ <<>> \in AnyText
    BY <1>0 DEF HookCall, AnyText
  <2> QED
    BY <1>1, <2>1 DEF HookCall
<1>4. ~InCall'
  BY <1>2 DEF InCall
<1>5. HooksTyped' /\ TableTyped' /\ ChainOrdered' /\ NumbersTheirs'
  BY <1>0, <1>3 DEF HooksTyped, TableTyped, ChainOrdered, NumbersTheirs
<1>6. CalledOnce'
  <2>1. DOMAIN (call'.called) = {}
    BY <1>2
  <2> QED
    BY <1>2, <1>4, <2>1 DEF CalledOnce, IsInjective
<1>7. HitsInside'
  <2>1. call.shifted \/ call.at <= Len(chain)
    BY <1>0 DEF CallFollows
  <2>2. call.at \in Nat /\ Len(chain) \in Nat
    BY <1>0, ChainFacts DEF HookCall
  <2> QED
    BY <1>0, <1>2, <2>1, <2>2 DEF HitsInside
<1> QED
  BY <1>4, <1>5, <1>6, <1>7 DEF CallFollows, CallOver, MessageAsReturned

LEMMA HooksSteps == HooksInv /\ HooksNext => HooksInv'
BY AddHookKeeps, DelHookKeeps, CallBeginsKeeps, HookReturnsKeeps, HookStopsKeeps
   DEF HooksNext, Changed

LEMMA HooksRest == HooksInv /\ UNCHANGED hookVars => HooksInv'
BY DEF HooksInv, HooksTyped, TableTyped, ChainOrdered, NumbersTheirs, CallFollows, CallOver,
       CalledOnce, HitsInside, MessageAsReturned, InCall, hookVars

LEMMA HooksTheirs == HooksInv => HooksKeepTheirs
BY DEF HooksInv, NumbersTheirs, HooksKeepTheirs

-----------------------------------------------------------------------------
(* Timers.  They need not be finitely many: that a wait ends with the first of
   them at all is the well-ordering of the naturals (LeastOf). *)

Timer == [state : {"unset", "set", "gone"}, kind : {"timeout", "interval"},
          when : Nat, interval : Nat]

Place == [at : {"commands", "select", "timers"}, asked : Nat, until : Nat,
          old : SUBSET Timers, now : SUBSET Timers]

TimersTyped ==
  /\ tick \in 0..MaxTick /\ timers \in [Timers -> Timer] /\ pass \in Place
  /\ last \in [Timers -> Int] /\ \A t \in Timers : last[t] \in Uncalled..tick

(* A timeout that may be called has not been: one that is set, and one in the copy that
   postselect goes through, which may be gone by now. *)
Due ==
  /\ \A t \in Timers : timers[t].state = "unset" => last[t] = Uncalled
  /\ \A t \in Timers :
       timers[t].state = "set" /\ timers[t].kind = "timeout" => last[t] = Uncalled
  /\ pass.at = "timers" =>
       \A t \in pass.old :
         timers[t].state # "unset" /\ (timers[t].kind = "timeout" => last[t] = Uncalled)

(* An interval is due its time after its last call. *)
Spaced ==
  \A t \in Timers : timers[t].kind = "interval" /\ last[t] # Uncalled =>
    timers[t].when = last[t] + timers[t].interval

(* While select() waits, the scripts do not run: what preselect found holds. *)
WaitIsRight ==
  pass.at = "select" =>
    /\ pass.asked = tick /\ pass.until \in tick..(tick + Wait)
    /\ \A t \in Timers : timers[t].state = "set" /\ timers[t].when > tick =>
         pass.until <= timers[t].when

TimersInv == TimersTyped /\ Due /\ Spaced /\ WaitIsRight

-----------------------------------------------------------------------------
(* What scripts and the hooks do with the table. *)

LEMMA SetIs ==
  ASSUME NEW ts \in [Timers -> Timer], tick \in Nat, NEW t \in Timers,
         NEW k \in {"timeout", "interval"}, NEW d \in Delays
  PROVE  /\ SetTimer(ts, t, k, d) \in [Timers -> Timer]
         /\ SetTimer(ts, t, k, d)[t].state = "set"
         /\ \A u \in Timers \ {t} : SetTimer(ts, t, k, d)[u] = ts[u]
<1>1. d \in Nat /\ tick + d \in Nat
  BY TimersAssumption
<1>2. [state |-> "set", kind |-> k, when |-> tick + d, interval |-> d] \in Timer
  BY <1>1 DEF Timer
<1> QED
  BY <1>2 DEF SetTimer

LEMMA ClearIs ==
  ASSUME NEW ts \in [Timers -> Timer], NEW t \in Timers
  PROVE  /\ ClearTimeout(ts, t) \in [Timers -> Timer]
         /\ \A u \in Timers \ {t} : ClearTimeout(ts, t)[u] = ts[u]
         /\ ClearTimeout(ts, t)[t].kind = ts[t].kind
         /\ ClearTimeout(ts, t)[t].when = ts[t].when
         /\ ClearTimeout(ts, t)[t].interval = ts[t].interval
         /\ ClearTimeout(ts, t)[t].state = IF ts[t].state = "set" THEN "gone" ELSE ts[t].state
<1> DEFINE c == [ts[t] EXCEPT !.state = IF @ = "set" THEN "gone" ELSE @]
<1>1. ts[t] \in Timer
  OBVIOUS
<1>2. c \in Timer /\ c.kind = ts[t].kind /\ c.when = ts[t].when /\ c.interval = ts[t].interval
      /\ c.state = IF ts[t].state = "set" THEN "gone" ELSE ts[t].state
  BY <1>1 DEF Timer
<1>3. ClearTimeout(ts, t) = [ts EXCEPT ![t] = c]
  BY <1>1 DEF ClearTimeout, Timer
<1> HIDE DEF c
<1> QED
  BY <1>2, <1>3

(* A timer after what a script may do: as it was, newly set, or gone. *)
SameBut(x, y) == x.kind = y.kind /\ x.when = y.when /\ x.interval = y.interval

Touched(x, y) ==
  \/ y = x
  \/ x.state = "unset" /\ y.state = "set"
  \/ x.state = "set" /\ y.state = "gone" /\ SameBut(x, y)

LEMMA EffectsAre ==
  ASSUME NEW ts \in [Timers -> Timer], tick \in Nat, NEW s \in Effects(ts)
  PROVE  s \in [Timers -> Timer] /\ \A u \in Timers : Touched(ts[u], s[u])
<1>1. CASE s = ts
  BY <1>1 DEF Touched
<1>2. ASSUME NEW t \in Timers, ts[t].state = "unset",
             NEW k \in {"timeout", "interval"}, NEW d \in Delays, s = SetTimer(ts, t, k, d)
      PROVE  s \in [Timers -> Timer] /\ \A u \in Timers : Touched(ts[u], s[u])
  <2>1. s \in [Timers -> Timer] /\ s[t].state = "set" /\ \A u \in Timers \ {t} : s[u] = ts[u]
    BY <1>2, SetIs
  <2> QED
    BY <2>1, <1>2 DEF Touched
<1>3. ASSUME NEW t \in Timers, ts[t].state = "set", s = ClearTimeout(ts, t)
      PROVE  s \in [Timers -> Timer] /\ \A u \in Timers : Touched(ts[u], s[u])
  <2>1. s \in [Timers -> Timer] /\ (\A u \in Timers \ {t} : s[u] = ts[u])
        /\ s[t].state = "gone" /\ SameBut(ts[t], s[t])
    BY <1>3, ClearIs DEF SameBut
  <2> QED
    BY <2>1, <1>3 DEF Touched
<1> QED
  BY <1>1, <1>2, <1>3 DEF Effects, IsSet

LEMMA RescheduledIs ==
  ASSUME NEW ts \in [Timers -> Timer], tick \in Nat, NEW t \in Timers
  PROVE  /\ Rescheduled(ts, t) \in [Timers -> Timer]
         /\ \A u \in Timers \ {t} : Rescheduled(ts, t)[u] = ts[u]
         /\ Rescheduled(ts, t)[t].kind = ts[t].kind
         /\ Rescheduled(ts, t)[t].interval = ts[t].interval
         /\ ts[t].kind = "interval" =>
              /\ Rescheduled(ts, t)[t].when = tick + ts[t].interval
              /\ Rescheduled(ts, t)[t].state = ts[t].state
         /\ ts[t].kind = "timeout" /\ ts[t].state # "unset" =>
              Rescheduled(ts, t)[t].state = "gone"
<1>0. ts[t] \in Timer
  OBVIOUS
<1>1. CASE ts[t].kind = "interval"
  <2> DEFINE c == [ts[t] EXCEPT !.when = tick + ts[t].interval]
  <2>1. tick + ts[t].interval \in Nat
    BY <1>0 DEF Timer
  <2>2. c \in Timer /\ c.kind = ts[t].kind /\ c.interval = ts[t].interval
        /\ c.when = tick + ts[t].interval /\ c.state = ts[t].state
    BY <1>0, <2>1 DEF Timer
  <2>3. Rescheduled(ts, t) = [ts EXCEPT ![t] = c]
    BY <1>0, <1>1 DEF Rescheduled, Timer
  <2> HIDE DEF c
  <2> QED
    BY <2>2, <2>3, <1>1
<1>2. CASE ts[t].kind = "timeout"
  <2>1. Rescheduled(ts, t) = ClearTimeout(ts, t)
    BY <1>2 DEF Rescheduled
  <2>2. ts[t].state \in {"unset", "set", "gone"}
    BY <1>0 DEF Timer
  <2> QED
    BY <2>1, <2>2, <1>2, ClearIs
<1> QED
  BY <1>0, <1>1, <1>2 DEF Timer

(* Preselect's choice is there, and the least. *)
LEMMA PreselectIs ==
  ASSUME TimersTyped
  PROVE  /\ Preselect \in tick..(tick + Wait)
         /\ \A t \in Timers : timers[t].state = "set" /\ timers[t].when > tick =>
              Preselect <= timers[t].when
<1> DEFINE later == {timers[t].when : t \in {u \in Timers : IsSet(timers, u) /\ timers[u].when > tick}}
           ends  == later \cup {tick + Wait}
<1>0. tick \in Nat /\ Wait \in Nat /\ tick + Wait \in Nat
      /\ \A t \in Timers : timers[t].when \in Nat
  BY TimersAssumption DEF TimersTyped, Timer
<1>1. later \subseteq {n \in Nat : n > tick}
  BY <1>0
<1>2. ends \in SUBSET Nat /\ ends # {} /\ \A n \in ends : n >= tick
  BY <1>0, <1>1
<1>3. PICK m \in ends : \A n \in ends : m <= n
  <2> HIDE DEF ends
  <2> QED
    BY <1>2, LeastOf
<1>4. Preselect \in ends /\ \A f \in ends : Preselect <= f
  <2>1. Preselect = CHOOSE e \in ends : \A f \in ends : e <= f
    BY DEF Preselect
  <2> HIDE DEF ends
  <2> QED
    BY <2>1, <1>3
<1>5. Preselect <= tick + Wait
  BY <1>4
<1>6. ASSUME NEW t \in Timers, timers[t].state = "set", timers[t].when > tick
      PROVE  Preselect <= timers[t].when
  BY <1>4, <1>6 DEF IsSet
<1>7. Preselect \in Nat /\ Preselect >= tick
  <2> HIDE DEF ends
  <2> QED
    BY <1>2, <1>4
<1> QED
  BY <1>0, <1>5, <1>6, <1>7

-----------------------------------------------------------------------------
(* The steps. *)

LEMMA TimersBegin == TimersInit => TimersInv
<1> SUFFICES ASSUME TimersInit PROVE TimersInv
  OBVIOUS
<1>1. Unset \in Timer /\ Between \in Place
  BY DEF Unset, Between, Timer, Place
<1>2. TimersTyped
  BY <1>1, TimersAssumption DEF TimersInit, TimersTyped, Uncalled
<1> QED
  BY <1>2 DEF TimersInit, TimersInv, Due, Spaced, WaitIsRight, Unset, Between, Uncalled

LEMMA ScriptSetsKeeps == TimersInv /\ ScriptSets => TimersInv'
<1> SUFFICES ASSUME TimersInv, ScriptSets PROVE TimersInv'
  OBVIOUS
<1> USE DEF TimersInv
<1>1. timers' \in [Timers -> Timer] /\ (\A u \in Timers : Touched(timers[u], timers'[u]))
      /\ tick' = tick /\ pass' = pass /\ last' = last /\ pass.at = "commands"
  BY EffectsAre DEF ScriptSets, TimersTyped
<1>2. TimersTyped'
  BY <1>1 DEF TimersTyped
<1>3. Due'
  BY <1>1 DEF Due, Touched, SameBut, TimersTyped, Timer
<1>4. Spaced'
  <2> SUFFICES ASSUME NEW t \in Timers, timers'[t].kind = "interval", last'[t] # Uncalled
               PROVE  timers'[t].when = last'[t] + timers'[t].interval
    BY DEF Spaced
  <2>1. timers[t].state # "unset"
    BY <1>1 DEF Due
  <2>2. SameBut(timers[t], timers'[t])
    BY <1>1, <2>1 DEF Touched, SameBut
  <2> QED
    BY <1>1, <2>2 DEF SameBut, Spaced
<1> QED
  BY <1>1, <1>2, <1>3, <1>4 DEF WaitIsRight

LEMMA WaitsKeeps == TimersInv /\ Waits => TimersInv'
<1> SUFFICES ASSUME TimersInv, Waits PROVE TimersInv'
  OBVIOUS
<1> USE DEF TimersInv
<1>1. /\ pass' = [at |-> "select", asked |-> tick, until |-> Preselect, old |-> {}, now |-> {}]
      /\ tick' = tick /\ timers' = timers /\ last' = last
  BY DEF Waits, Between
<1>2. /\ Preselect \in tick..(tick + Wait)
      /\ \A t \in Timers : timers[t].state = "set" /\ timers[t].when > tick =>
           Preselect <= timers[t].when
  BY PreselectIs
<1>3. tick \in Nat /\ Preselect \in Nat
  BY <1>2, TimersAssumption DEF TimersTyped
<1> HIDE DEF Preselect
<1>4. pass' \in Place
  BY <1>1, <1>3 DEF Place
<1> QED
  BY <1>1, <1>2, <1>4 DEF TimersTyped, Due, Spaced, WaitIsRight

LEMMA WakesKeeps == TimersInv /\ Wakes => TimersInv' /\ TimersStep
<1> SUFFICES ASSUME TimersInv, Wakes PROVE TimersInv' /\ TimersStep
  OBVIOUS
<1> USE DEF TimersInv
<1>0. pass \in Place /\ pass.at = "select" /\ tick \in Nat
  BY DEF Wakes, TimersTyped
<1>1. /\ timers' = timers /\ last' = last /\ tick' \in tick..pass.until /\ tick' <= MaxTick
      /\ pass' \in Place /\ pass'.at = "timers" /\ pass'.now = pass.now
      /\ pass'.old = {t \in Timers : timers[t].state = "set"}
  <2>1. pass' = [pass EXCEPT !.at = "timers", !.old = {t \in Timers : timers[t].state = "set"}]
    BY DEF Wakes, IsSet
  <2> QED
    BY <1>0, <2>1 DEF Wakes, Place
<1>2. pass.until \in Nat /\ tick' \in Nat /\ tick' >= tick /\ tick' <= pass.until
  BY <1>0, <1>1 DEF Place
<1>3. TimersTyped'
  BY <1>1, <1>2, TimersAssumption DEF TimersTyped, Uncalled
<1>4. Due' /\ Spaced' /\ WaitIsRight'
  BY <1>1 DEF Due, Spaced, WaitIsRight
<1>5. NotSleptPast
  <2> SUFFICES ASSUME NEW t \in Timers, timers[t].state = "set"
               PROVE  \/ tick' <= timers[t].when
                      \/ timers[t].when <= pass.asked /\ tick' - pass.asked <= Wait
    BY DEF NotSleptPast, IsSet
  <2>0. timers[t].when \in Nat
    BY DEF TimersTyped, Timer
  <2>1. pass.asked = tick /\ pass.until \in tick..(tick + Wait)
        /\ (timers[t].when > tick => pass.until <= timers[t].when)
    BY <1>0 DEF WaitIsRight
  <2>2. pass.until <= tick + Wait /\ Wait \in Nat
    BY <2>1, TimersAssumption
  <2>3. CASE timers[t].when > tick
    BY <2>0, <2>1, <2>3, <1>0, <1>2
  <2>4. CASE ~(timers[t].when > tick)
    <3>1. tick' <= tick + Wait
      BY <2>2, <1>0, <1>2
    <3>2. tick' - tick <= Wait
      <4>1. ASSUME NEW a \in Nat, NEW b \in Nat, NEW w \in Nat, a <= b + w PROVE a - b <= w
        BY <4>1
      <4> QED
        BY <3>1, <4>1, <2>2, <1>0, <1>2
    <3>3. timers[t].when <= tick
      BY <2>0, <2>4, <1>0
    <3> QED
      BY <3>2, <3>3, <2>1
  <2> QED
    BY <2>3, <2>4
<1> QED
  BY <1>0, <1>3, <1>4, <1>5 DEF TimersStep, OnceEach, IntervalsSpaced

LEMMA PassEndsKeeps == TimersInv /\ PassEnds => TimersInv' /\ TimersStep
<1> SUFFICES ASSUME TimersInv, PassEnds PROVE TimersInv' /\ TimersStep
  OBVIOUS
<1>1. pass' = Between /\ tick' = tick /\ timers' = timers /\ last' = last /\ pass.at = "timers"
  BY DEF PassEnds
<1>2. Between \in Place
  BY DEF Between, Place
<1> QED
  BY <1>1, <1>2 DEF TimersInv, TimersTyped, Due, Spaced, WaitIsRight, TimersStep, OnceEach,
                    IntervalsSpaced, NotSleptPast, Between

LEMMA LooksKeeps == \A t \in Timers : TimersInv /\ Looks(t) => TimersInv' /\ TimersStep
<1> SUFFICES ASSUME NEW t \in Timers, TimersInv, Looks(t) PROVE TimersInv' /\ TimersStep
  OBVIOUS
<1> USE DEF TimersInv
<1>0. pass \in Place /\ pass.at = "timers" /\ t \in pass.old /\ tick \in Nat /\ MaxTick \in Nat
      /\ timers \in [Timers -> Timer] /\ last \in [Timers -> Int]
      /\ timers[t].when \in Nat /\ timers[t].interval \in Nat
  BY TimersAssumption DEF Looks, TimersTyped, Timer
<1>1. CASE timers[t].when > tick
  <2>1. /\ pass' = [pass EXCEPT !.old = pass.old \ {t}, !.now = {}]
        /\ tick' = tick /\ timers' = timers /\ last' = last
    BY <1>1 DEF Looks
  <2>2. pass' \in Place /\ pass'.at = "timers" /\ pass'.old \subseteq pass.old /\ pass'.now = {}
    BY <2>1, <1>0 DEF Place
  <2> QED
    BY <1>0, <2>1, <2>2 DEF TimersTyped, Due, Spaced, WaitIsRight, TimersStep, OnceEach,
                      IntervalsSpaced, NotSleptPast
<1>2. CASE ~(timers[t].when > tick)
  <2> DEFINE mid == Rescheduled(timers, t)
  <2>1. /\ timers' \in Effects(mid) /\ last' = [last EXCEPT ![t] = tick]
        /\ tick' \in {tick, tick + 1} /\ tick' <= MaxTick
    BY <1>0, <1>2 DEF Looks, TimersTyped
  <2>2. pass' \in Place /\ pass'.at \in {"commands", "timers"} /\ pass'.now = {t}
        /\ pass'.old \subseteq pass.old \ {t}
    <3>1. \/ pass' = [pass EXCEPT !.old = pass.old \ {t}, !.now = {t}]
          \/ pass' = [at |-> "commands", asked |-> 0, until |-> 0, old |-> {}, now |-> {t}]
      BY <1>2 DEF Looks, Between
    <3>2. /\ pass.asked \in Nat /\ pass.until \in Nat /\ pass.old \subseteq Timers
          /\ pass = [at |-> "timers", asked |-> pass.asked, until |-> pass.until,
                     old |-> pass.old, now |-> pass.now]
      BY <1>0 DEF Place
    <3>3. CASE pass' = [pass EXCEPT !.old = pass.old \ {t}, !.now = {t}]
      <4>1. pass' = [at |-> "timers", asked |-> pass.asked, until |-> pass.until,
                     old |-> pass.old \ {t}, now |-> {t}]
        <5> DEFINE o == pass.old \ {t}
                   n == {t}
                   p == [at |-> "timers", asked |-> pass.asked, until |-> pass.until,
                         old |-> pass.old, now |-> pass.now]
        <5>1. pass' = [p EXCEPT !.old = o, !.now = n]
          BY <3>2, <3>3
        <5> HIDE DEF o, n
        <5>2. pass' = [at |-> "timers", asked |-> pass.asked, until |-> pass.until,
                       old |-> o, now |-> n]
          BY <5>1
        <5> QED
          BY <5>2 DEF o, n
      <4> QED
        BY <4>1, <3>2 DEF Place
    <3>4. CASE pass' = [at |-> "commands", asked |-> 0, until |-> 0, old |-> {}, now |-> {t}]
      BY <3>4 DEF Place
    <3> QED
      BY <3>1, <3>3, <3>4
  <2>3. /\ mid \in [Timers -> Timer]
        /\ \A u \in Timers \ {t} : mid[u] = timers[u]
        /\ mid[t].kind = timers[t].kind
        /\ mid[t].interval = timers[t].interval
        /\ timers[t].kind = "interval" =>
             mid[t].when = tick + timers[t].interval /\ mid[t].state = timers[t].state
        /\ timers[t].kind = "timeout" /\ timers[t].state # "unset" => mid[t].state = "gone"
    BY <1>0, RescheduledIs
  <2> HIDE DEF mid
  <2>4. timers' \in [Timers -> Timer] /\ \A u \in Timers : Touched(mid[u], timers'[u])
    BY <1>0, <2>1, <2>3, EffectsAre
  <2>5. timers[t].state # "unset" /\ (timers[t].kind = "timeout" => last[t] = Uncalled)
        /\ timers[t].kind \in {"timeout", "interval"}
    BY <1>0 DEF Due, Timer
  <2>6. TimersTyped'
    <3>1. tick' \in 0..MaxTick /\ tick' >= tick
      BY <1>0, <2>1
    <3>2. last' \in [Timers -> Int]
      BY <1>0, <2>1
    <3>3. \A u \in Timers : last'[u] \in Uncalled..tick'
      BY <1>0, <2>1, <3>1, <3>2 DEF TimersTyped, Uncalled
    <3> QED
      BY <2>2, <2>4, <3>1, <3>2, <3>3 DEF TimersTyped
  <2>7. last'[t] = tick /\ \A u \in Timers \ {t} : last'[u] = last[u]
    BY <2>1, <1>0
  <2>8. timers'[t].kind = timers[t].kind /\ timers'[t].state # "unset"
        /\ (timers[t].kind = "timeout" => timers'[t].state = "gone")
        /\ SameBut(mid[t], timers'[t])
    <3>1. mid[t].state # "unset"
      BY <2>3, <2>5
    <3> QED
      BY <3>1, <2>3, <2>4, <2>5 DEF Touched, SameBut
  <2>9. Due'
    <3>1. ASSUME NEW u \in Timers \ {t}
          PROVE  /\ timers'[u].state = "unset" => last'[u] = Uncalled
                 /\ timers'[u].state = "set" /\ timers'[u].kind = "timeout" => last'[u] = Uncalled
                 /\ u \in pass.old =>
                      timers'[u].state # "unset" /\ (timers'[u].kind = "timeout" => last'[u] = Uncalled)
      <4>1. Touched(timers[u], timers'[u]) /\ last'[u] = last[u]
        BY <2>3, <2>4, <2>7
      <4>2. pass.at = "timers"
        BY <1>0
      <4> QED
        BY <4>1, <4>2 DEF Due, Touched, SameBut
    <3>2. pass'.old \subseteq pass.old \ {t} /\ pass.old \subseteq Timers
      BY <1>0, <2>2 DEF Place
    <3> QED
      BY <3>1, <3>2, <2>8, <2>5 DEF Due
  <2>10. Spaced'
    <3>1. ASSUME NEW u \in Timers \ {t}, timers'[u].kind = "interval", last'[u] # Uncalled
          PROVE  timers'[u].when = last'[u] + timers'[u].interval
      <4>1. Touched(timers[u], timers'[u]) /\ last'[u] = last[u]
        BY <2>3, <2>4, <2>7
      <4>2. timers[u].state # "unset"
        BY <4>1, <3>1 DEF Due
      <4> QED
        BY <3>1, <4>1, <4>2 DEF Spaced, Touched, SameBut
    <3>2. timers'[t].kind = "interval" => timers'[t].when = last'[t] + timers'[t].interval
      BY <2>3, <2>7, <2>8 DEF SameBut
    <3> QED
      BY <3>1, <3>2 DEF Spaced
  <2>11. WaitIsRight'
    BY <2>2 DEF WaitIsRight
  <2>12. IntervalsSpaced
    <3> SUFFICES ASSUME last[t] # Uncalled PROVE tick - last[t] >= timers[t].interval
      BY <2>2 DEF IntervalsSpaced
    <3>1. timers[t].when = last[t] + timers[t].interval
      BY <2>5 DEF Spaced
    <3> QED
      BY <3>1, <1>0, <1>2
  <2>13. OnceEach /\ NotSleptPast
    BY <1>0, <2>2, <2>5 DEF OnceEach, NotSleptPast
  <2> QED
    BY <2>6, <2>9, <2>10, <2>11, <2>12, <2>13 DEF TimersStep
<1> QED
  BY <1>1, <1>2

LEMMA TimersSteps == TimersInv /\ TimersNext => TimersInv' /\ TimersStep
<1>1. TimersInv /\ (ScriptSets \/ Waits) => TimersStep
  BY DEF TimersStep, OnceEach, IntervalsSpaced, NotSleptPast, ScriptSets, Waits
<1> QED
  BY <1>1, ScriptSetsKeeps, WaitsKeeps, WakesKeeps, PassEndsKeeps, LooksKeeps DEF TimersNext

LEMMA TimersRest == TimersInv /\ UNCHANGED timerVars => TimersInv'
BY DEF TimersInv, TimersTyped, Due, Spaced, WaitIsRight, timerVars

LEMMA TimersTypes == TimersInv => TimersTypeOK
BY DEF TimersInv, TimersTyped, TimersTypeOK, Timer, Place

-----------------------------------------------------------------------------
(* Scripts. *)

(* Scripts are called as they should be: each hook of a chain once, by its weight, with
   its own function and the message that the one before returned; and timers when they
   are due, a timeout once. *)
THEOREM ScriptsAlwaysCalled == Spec => ScriptsCalled
<1> DEFINE Inv == HooksInv /\ TimersInv
<1>1. Init => Inv
  BY HooksBegin, TimersBegin DEF Init
<1>2. Inv /\ [Next]_partVars => Inv'
  <2> SUFFICES ASSUME Inv, [Next]_partVars PROVE Inv'
    OBVIOUS
  <2>1. HooksInv'
    <3>1. HooksNext \/ UNCHANGED hookVars
      BY Zenon DEF Next, OthersStay, partVars
    <3> QED
      BY <3>1, HooksSteps, HooksRest
  <2>2. TimersInv'
    <3>1. TimersNext \/ UNCHANGED timerVars
      BY Zenon DEF Next, OthersStay, partVars
    <3> QED
      BY <3>1, TimersSteps, TimersRest
  <2> QED
    BY <2>1, <2>2
<1>3. Inv /\ Inv' /\ [Next]_partVars =>
        [CASE part = "hooks"  -> (CalledOnce /\ HooksKeepTheirs /\ MessageAsReturned)'
           [] part = "timers" -> TimersStep
           [] OTHER           -> TRUE]_partVars
  <2> SUFFICES ASSUME Inv, Inv', Next
               PROVE  CASE part = "hooks"  -> (CalledOnce /\ HooksKeepTheirs /\ MessageAsReturned)'
                        [] part = "timers" -> TimersStep
                        [] OTHER           -> TRUE
    OBVIOUS
  <2>1. CalledOnce' /\ HooksKeepTheirs' /\ MessageAsReturned'
    BY FollowedOnce, HooksTheirs, PTL DEF HooksInv
  <2>2. part = "timers" => TimersStep
    BY TimersSteps DEF Next
  <2> QED
    BY <2>1, <2>2
<1> QED
  BY <1>1, <1>2, <1>3, PTL DEF Spec, ScriptsCalled

-----------------------------------------------------------------------------
(* Connections. *)

Item == [name : Labels, deleted : BOOLEAN]

Walker == [number : 0..4, at : Nat, inside : BOOLEAN, served : SUBSET Labels,
           begun : SUBSET Labels, own : SUBSET Labels, twice : BOOLEAN, calls : Nat]

ConnectionsTyped ==
  /\ ring \in Seq(Labels) /\ list \in Seq(Item) /\ walk \in Walker
  /\ signedOn \subseteq Labels /\ stored \subseteq Labels
  /\ exec \subseteq [of : Labels, alive : BOOLEAN]

WalkPlaced ==
  /\ walk.at \in 0..Len(list)
  /\ walk.inside => walk.number # 0 /\ walk.at # 0
  /\ walk.number = 0 => walk.at = 0 /\ walk.served = {} /\ walk.begun = {}

(* What is in the ring is alive in the list, and is in either once. *)
RingMirrored ==
  /\ \A i, j \in DOMAIN ring : ring[i] = ring[j] => i = j
  /\ \A i, j \in DOMAIN list :
       ~list[i].deleted /\ ~list[j].deleted /\ list[i].name = list[j].name => i = j
  /\ \A i \in DOMAIN ring : \E j \in DOMAIN list : list[j] = Entry(ring[i])
  /\ \A j \in DOMAIN list : ~list[j].deleted => \E i \in DOMAIN ring : ring[i] = list[j].name

(* A connection that is deleted while its driver runs was deleted in a callback of
   that driver. *)
DeletedInside ==
  walk.inside /\ list[walk.at].deleted => list[walk.at].name \in walk.own

(* What lies ahead of a walk was not come to; what was there when it began was, or
   lies ahead. *)
AheadUnserved ==
  /\ ~walk.twice
  /\ \A k \in DOMAIN list : walk.at < k /\ ~list[k].deleted => list[k].name \notin walk.served
  /\ \A n \in walk.begun : n \in walk.served \/ \E k \in DOMAIN list : walk.at < k /\ list[k] = Entry(n)

ConnectionsInv ==
  /\ ConnectionsTyped /\ WalkPlaced /\ RingMirrored /\ DeletedInside /\ AheadUnserved
  /\ FreedOnlyByItself

LEMMA EntryIs ==
  ASSUME NEW n \in Labels
  PROVE  Entry(n) \in Item /\ Entry(n).name = n /\ ~Entry(n).deleted
BY DEF Entry, Item

LEMMA EntryOf ==
  ASSUME NEW e \in Item, ~e.deleted
  PROVE  e = Entry(e.name) /\ e.name \in Labels
BY DEF Entry, Item

LEMMA ConnectionsBegin == ConnectionsInit => ConnectionsInv
<1> SUFFICES ASSUME ConnectionsInit PROVE ConnectionsInv
  OBVIOUS
<1> USE DEF ConnectionsInit
<1>1. First \in Labels /\ Keeping \subseteq Labels
  BY ConnectionsAssumption
<1>2. Idle \in Walker
  BY DEF Idle, Walker
<1>3. /\ walk.number = 0 /\ walk.at = 0 /\ ~walk.inside /\ walk.served = {} /\ walk.begun = {}
      /\ ~walk.twice
  BY DEF Idle
<1>4. /\ Entry(First) \in Item /\ Entry(First).name = First
      /\ DOMAIN list = {1} /\ Len(list) = 1 /\ DOMAIN ring = {1}
      /\ list[1] = Entry(First) /\ ring[1] = First
  BY <1>1, EntryIs
<1>5. ConnectionsTyped
  BY <1>1, <1>2, <1>4 DEF ConnectionsTyped
<1>6. WalkPlaced /\ DeletedInside
  BY <1>3, <1>4 DEF WalkPlaced, DeletedInside
<1>7. RingMirrored
  BY <1>4 DEF RingMirrored
<1>8. AheadUnserved
  BY <1>3 DEF AheadUnserved
<1>9. FreedOnlyByItself
  BY DEF FreedOnlyByItself
<1> QED
  BY <1>5, <1>6, <1>7, <1>8, <1>9 DEF ConnectionsInv

LEMMA ConnectionsRest == ConnectionsInv /\ UNCHANGED connectionVars => ConnectionsInv'
BY DEF ConnectionsInv, ConnectionsTyped, WalkPlaced, RingMirrored, DeletedInside,
       AheadUnserved, FreedOnlyByItself, connectionVars

(* The commands. *)

(* A ring with a new first element, the old one behind the others. *)
LEMMA RingWithNew ==
  ASSUME NEW T, NEW s \in Seq(T), s # <<>>, NEW n \in T, NEW r, r = <<n>> \o Tail(s) \o <<Head(s)>>
  PROVE  /\ r \in Seq(T) /\ Len(r) = Len(s) + 1
         /\ r[1] = n /\ r[Len(s) + 1] = s[1] /\ \A k \in 2..Len(s) : r[k] = s[k]
<1>1. Len(s) \in Nat \ {0} /\ Tail(s) \in Seq(T) /\ Len(Tail(s)) = Len(s) - 1 /\ Head(s) = s[1] /\ s[1] \in T
  OBVIOUS
<1>2. \A k \in 1..(Len(s) - 1) : Tail(s)[k] = s[k + 1]
  BY <1>1
<1> DEFINE t == Tail(s)
           h == Head(s)
           m == Len(s)
           q == <<n>> \o t
<1>3. /\ t \in Seq(T) /\ m \in Nat \ {0} /\ Len(t) = m - 1 /\ h = s[1] /\ h \in T
      /\ \A k \in 1..(m - 1) : t[k] = s[k + 1]
  BY <1>1, <1>2
<1> HIDE DEF t, h, m
<1>4. q \in Seq(T) /\ Len(q) = m /\ q[1] = n /\ \A k \in 2..m : q[k] = t[k - 1]
  BY <1>3
<1>5. r = q \o <<h>>
  BY DEF t, h
<1> HIDE DEF q
<1>6. r \in Seq(T) /\ Len(r) = m + 1 /\ r[m + 1] = h /\ \A k \in 1..m : r[k] = q[k]
  BY <1>3, <1>4, <1>5
<1>7. ASSUME NEW k \in 2..m PROVE r[k] = s[k]
  <2>1. k - 1 \in 1..(m - 1) /\ k \in 1..m /\ (k - 1) + 1 = k
    BY <1>3
  <2> QED
    BY <2>1, <1>3, <1>4, <1>6
<1> QED
  BY <1>3, <1>4, <1>6, <1>7 DEF m

LEMMA NewConnKeeps ==
  ASSUME NEW n \in Labels, ConnectionsInv, used = {}, ~Quitted, NewConn(n),
         walk.number = 0 \/ walk.inside
  PROVE  ConnectionsInv'
<1> USE DEF NewConn
<1>1. ring \in Seq(Labels) /\ ring # <<>> /\ Len(ring) \in Nat \ {0} /\ DOMAIN ring = 1..Len(ring)
  BY DEF ConnectionsInv, ConnectionsTyped, Quitted
<1>2. list \in Seq(Item) /\ Len(list) \in Nat /\ DOMAIN list = 1..Len(list)
  BY DEF ConnectionsInv, ConnectionsTyped
<1>3. Entry(n) \in Item /\ Entry(n).name = n /\ ~Entry(n).deleted
  BY EntryIs
<1>4. /\ ring' \in Seq(Labels) /\ Len(ring') = Len(ring) + 1 /\ DOMAIN ring' = 1..(Len(ring) + 1)
      /\ ring'[1] = n /\ ring'[Len(ring) + 1] = ring[1]
      /\ \A k \in 2..Len(ring) : ring'[k] = ring[k]
  <2> DEFINE r == ring'
  <2>1. r = <<n>> \o Tail(ring) \o <<Head(ring)>>
    OBVIOUS
  <2> HIDE DEF r
  <2>2. /\ r \in Seq(Labels) /\ Len(r) = Len(ring) + 1
        /\ r[1] = n /\ r[Len(ring) + 1] = ring[1] /\ \A k \in 2..Len(ring) : r[k] = ring[k]
    BY <1>1, <2>1, RingWithNew
  <2> QED
    BY <2>2 DEF r
<1> DEFINE e == Entry(n)
<1>5. /\ list' \in Seq(Item) /\ Len(list') = Len(list) + 1 /\ DOMAIN list' = 1..(Len(list) + 1)
      /\ list'[1] = e /\ \A k \in 2..(Len(list) + 1) : list'[k] = list[k - 1]
  <2>1. list' = <<e>> \o list /\ e \in Item
    BY <1>3
  <2> HIDE DEF e
  <2> QED
    BY <1>2, <2>1
<1>6. \A k \in DOMAIN list : k + 1 \in DOMAIN list' /\ list'[k + 1] = list[k]
  BY <1>2, <1>5
<1>7. ASSUME NEW k \in DOMAIN list', k # 1 PROVE k - 1 \in DOMAIN list /\ list'[k] = list[k - 1] /\ (k - 1) + 1 = k
  BY <1>2, <1>5, <1>7
<1>8. ASSUME NEW k \in DOMAIN ring' PROVE k = 1 \/ (k = Len(ring) + 1 /\ ring'[k] = ring[1]) \/ (k \in 2..Len(ring) /\ ring'[k] = ring[k])
  BY <1>1, <1>4
<1>9. ASSUME NEW i \in DOMAIN ring PROVE \E k \in DOMAIN ring' : ring'[k] = ring[i]
  <2>1. CASE i = 1
    <3>1. Len(ring) + 1 \in DOMAIN ring'
      BY <1>1, <1>4
    <3> QED
      BY <3>1, <2>1, <1>4
  <2>2. CASE i # 1
    <3>1. i \in 2..Len(ring) /\ i \in DOMAIN ring'
      BY <2>2, <1>1, <1>4
    <3> QED
      BY <3>1, <1>4
  <2> QED
    BY <2>1, <2>2
<1>10. \A i \in DOMAIN ring : ring[i] # n
  BY DEF Names
<1>11. \A j \in DOMAIN list : ~list[j].deleted => list[j].name # n
  BY <1>10 DEF ConnectionsInv, RingMirrored
<1>12. /\ walk' \in Walker /\ walk'.number = walk.number /\ walk'.inside = walk.inside
       /\ walk'.served = walk.served /\ walk'.begun = walk.begun /\ walk'.own = walk.own
       /\ walk'.twice = walk.twice
       /\ walk'.at = IF walk.number = 0 THEN 0 ELSE walk.at + 1
  <2> DEFINE p == IF walk.number = 0 THEN 0 ELSE walk.at + 1
             c == walk.calls + 1
  <2>1. walk \in Walker /\ p \in Nat /\ c \in Nat
    BY DEF ConnectionsInv, ConnectionsTyped, Walker
  <2>2. walk' = [walk EXCEPT !.at = p, !.calls = c]
    OBVIOUS
  <2> HIDE DEF p, c
  <2>3. /\ walk' \in Walker /\ walk'.number = walk.number /\ walk'.inside = walk.inside
        /\ walk'.served = walk.served /\ walk'.begun = walk.begun /\ walk'.own = walk.own
        /\ walk'.twice = walk.twice /\ walk'.at = p
    BY <2>1, <2>2 DEF Walker
  <2> QED
    BY <2>3 DEF p
<1>13. ConnectionsTyped'
  BY <1>4, <1>5, <1>12 DEF ConnectionsInv, ConnectionsTyped
<1>14. walk.at \in 0..Len(list) /\ walk.at \in Nat /\ (walk.number = 0 => walk.at = 0)
  BY <1>2 DEF ConnectionsInv, WalkPlaced
<1>15. WalkPlaced'
  BY <1>2, <1>5, <1>12, <1>14 DEF ConnectionsInv, WalkPlaced
<1>16. RingMirrored'
  <2>1. ASSUME NEW i \in DOMAIN ring', NEW j \in DOMAIN ring', ring'[i] = ring'[j] PROVE i = j
    <3>1. \A k \in DOMAIN ring, l \in DOMAIN ring : ring[k] = ring[l] => k = l
      BY DEF ConnectionsInv, RingMirrored
    <3>2. \A k \in DOMAIN ring' : k # 1 => ring'[k] # n
      BY <1>1, <1>8, <1>10
    <3>3. CASE i = 1 \/ j = 1
      BY <3>2, <3>3, <2>1, <1>4
    <3>4. CASE i # 1 /\ j # 1
      BY <3>1, <3>4, <2>1, <1>8, <1>1
    <3> QED
      BY <3>3, <3>4
  <2>2. ASSUME NEW i \in DOMAIN list', NEW j \in DOMAIN list',
               ~list'[i].deleted, ~list'[j].deleted, list'[i].name = list'[j].name
        PROVE  i = j
    <3>1. CASE i = 1 \/ j = 1
      BY <3>1, <2>2, <1>3, <1>5, <1>7, <1>11
    <3>2. CASE i # 1 /\ j # 1
      <4>1. i - 1 = j - 1
        BY <3>2, <2>2, <1>7 DEF ConnectionsInv, RingMirrored
      <4> QED
        BY <4>1, <1>5
    <3> QED
      BY <3>1, <3>2
  <2>3. ASSUME NEW i \in DOMAIN ring' PROVE \E j \in DOMAIN list' : list'[j] = Entry(ring'[i])
    <3>1. CASE i = 1
      <4>1. ring'[i] = n /\ 1 \in DOMAIN list' /\ list'[1] = Entry(n)
        BY <3>1, <1>4, <1>5, <1>2
      <4> QED
        BY <4>1, Zenon
    <3>2. CASE i # 1
      <4>1. \E k \in DOMAIN ring : ring'[i] = ring[k]
        <5>1. 1 \in DOMAIN ring /\ (i \in 2..Len(ring) => i \in DOMAIN ring)
          BY <1>1
        <5> QED
          BY <5>1, <3>2, <1>8
      <4>0. PICK k \in DOMAIN ring : ring'[i] = ring[k]
        BY <4>1
      <4>2. PICK j \in DOMAIN list : list[j] = Entry(ring[k])
        BY DEF ConnectionsInv, RingMirrored
      <4>3. j + 1 \in DOMAIN list' /\ list'[j + 1] = Entry(ring'[i])
        BY <4>0, <4>2, <1>6, Zenon
      <4> QED
        BY <4>3, Zenon
    <3> QED
      BY <3>1, <3>2
  <2>4. ASSUME NEW j \in DOMAIN list', ~list'[j].deleted PROVE \E i \in DOMAIN ring' : ring'[i] = list'[j].name
    <3>1. CASE j = 1
      <4>1. 1 \in DOMAIN ring'
        BY <1>1, <1>4
      <4> QED
        BY <4>1, <3>1, <1>3, <1>4, <1>5
    <3>2. CASE j # 1
      <4>1. j - 1 \in DOMAIN list /\ list'[j] = list[j - 1]
        BY <3>2, <1>7
      <4>2. PICK k \in DOMAIN ring : ring[k] = list[j - 1].name
        BY <4>1, <2>4 DEF ConnectionsInv, RingMirrored
      <4>3. PICK i \in DOMAIN ring' : ring'[i] = ring[k]
        BY <1>9
      <4> QED
        BY <4>1, <4>2, <4>3
    <3> QED
      BY <3>1, <3>2
  <2> QED
    BY <2>1, <2>2, <2>3, <2>4 DEF RingMirrored
<1>17. DeletedInside'
  <2> SUFFICES ASSUME walk.inside, list'[walk'.at].deleted PROVE list'[walk'.at].name \in walk.own
    BY <1>12 DEF DeletedInside
  <2>1. walk.number # 0 /\ walk.at \in DOMAIN list
    BY <1>2, <1>14 DEF ConnectionsInv, WalkPlaced
  <2>2. list'[walk'.at] = list[walk.at]
    BY <2>1, <1>6, <1>12
  <2> QED
    BY <2>2 DEF ConnectionsInv, DeletedInside
<1>18. AheadUnserved'
  <2>1. ASSUME NEW k \in DOMAIN list', walk'.at < k, ~list'[k].deleted PROVE list'[k].name \notin walk.served
    <3>1. CASE walk.number = 0
      BY <3>1 DEF ConnectionsInv, WalkPlaced
    <3>2. CASE walk.number # 0
      <4>1. k # 1 /\ walk.at < k - 1
        BY <3>2, <2>1, <1>12, <1>14, <1>5, <1>2
      <4> QED
        BY <4>1, <2>1, <1>7 DEF ConnectionsInv, AheadUnserved
    <3> QED
      BY <3>1, <3>2
  <2>2. ASSUME NEW m \in walk.begun, m \notin walk.served
        PROVE  \E k \in DOMAIN list' : walk'.at < k /\ list'[k] = Entry(m)
    <3>1. PICK k \in DOMAIN list : walk.at < k /\ list[k] = Entry(m)
      BY <2>2 DEF ConnectionsInv, AheadUnserved
    <3>2. walk'.at < k + 1
      BY <3>1, <1>2, <1>12, <1>14
    <3> QED
      BY <3>1, <3>2, <1>6
  <2> QED
    BY <2>1, <2>2, <1>12 DEF ConnectionsInv, AheadUnserved
<1>19. FreedOnlyByItself'
  BY DEF FreedOnlyByItself
<1> QED
  BY <1>13, <1>15, <1>16, <1>17, <1>18, <1>19 DEF ConnectionsInv

LEMMA MarkedIs ==
  ASSUME NEW n \in Labels, list \in Seq(Item), NEW l, l = Marked(n)
  PROVE  /\ l \in Seq(Item) /\ Len(l) = Len(list) /\ DOMAIN l = DOMAIN list
         /\ \A i \in DOMAIN list : /\ l[i].name = list[i].name
                                   /\ list[i].deleted => l[i].deleted
                                   /\ list[i].name = n => l[i].deleted
                                   /\ l[i].deleted => list[i].deleted \/ list[i].name = n
                                   /\ ~l[i].deleted => l[i] = list[i]
<1>1. DOMAIN list = 1..Len(list) /\ Len(list) \in Nat
  OBVIOUS
<1>2. ASSUME NEW e \in Item
      PROVE  /\ [e EXCEPT !.deleted = TRUE] \in Item
             /\ [e EXCEPT !.deleted = TRUE].name = e.name /\ [e EXCEPT !.deleted = TRUE].deleted
             /\ ~e.deleted /\ e.name = n => e = Entry(n)
             /\ e = Entry(n) => e.name = n /\ ~e.deleted
  <2>1. e = Entry(n) => e.name = n /\ ~e.deleted
    BY EntryIs
  <2>2. ~e.deleted /\ e.name = n => e = Entry(n)
    BY EntryOf
  <2>3. /\ [e EXCEPT !.deleted = TRUE] \in Item
        /\ [e EXCEPT !.deleted = TRUE].name = e.name /\ [e EXCEPT !.deleted = TRUE].deleted
    BY DEF Item
  <2> QED
    BY <2>1, <2>2, <2>3
<1> DEFINE m(e) == IF e = Entry(n) THEN [e EXCEPT !.deleted = TRUE] ELSE e
<1>3. ASSUME NEW e \in Item
      PROVE  /\ m(e) \in Item /\ m(e).name = e.name
             /\ e.deleted => m(e).deleted
             /\ e.name = n => m(e).deleted
             /\ m(e).deleted => e.deleted \/ e.name = n
             /\ ~m(e).deleted => m(e) = e
  <2>1. CASE e = Entry(n)
    BY <2>1, <1>2
  <2>2. CASE e # Entry(n)
    BY <2>2, <1>2
  <2> QED
    BY <2>1, <2>2
<1>4. l = [i \in DOMAIN list |-> m(list[i])]
  BY DEF Marked
<1>5. \A i \in DOMAIN list : list[i] \in Item
  BY <1>1
<1> HIDE DEF m
<1>6. l \in [1..Len(list) -> Item]
  BY <1>1, <1>3, <1>4, <1>5
<1>7. l \in Seq(Item) /\ Len(l) = Len(list) /\ DOMAIN l = DOMAIN list
  BY <1>1, <1>6
<1>8. \A i \in DOMAIN list : l[i] = m(list[i])
  BY <1>4
<1> QED
  BY <1>3, <1>5, <1>7, <1>8

LEMMA DoDelConnKeeps ==
  ASSUME NEW n \in Labels, ConnectionsInv, used = {}, DoDelConn(n)
  PROVE  ConnectionsInv'
<1> USE DEF DoDelConn
<1>1. ring \in Seq(Labels) /\ Len(ring) \in Nat /\ DOMAIN ring = 1..Len(ring)
  BY DEF ConnectionsInv, ConnectionsTyped
<1>2. list \in Seq(Item) /\ Len(list) \in Nat /\ DOMAIN list = 1..Len(list)
  BY DEF ConnectionsInv, ConnectionsTyped
<1>3. /\ list' \in Seq(Item) /\ Len(list') = Len(list) /\ DOMAIN list' = DOMAIN list
      /\ \A i \in DOMAIN list : /\ list'[i].name = list[i].name
                                /\ list[i].deleted => list'[i].deleted
                                /\ list[i].name = n => list'[i].deleted
                                /\ list'[i].deleted => list[i].deleted \/ list[i].name = n
                                /\ ~list'[i].deleted => list'[i] = list[i]
  <2> DEFINE l == list'
  <2>1. l = Marked(n)
    OBVIOUS
  <2> HIDE DEF l
  <2>2. /\ l \in Seq(Item) /\ Len(l) = Len(list) /\ DOMAIN l = DOMAIN list
        /\ \A i \in DOMAIN list : /\ l[i].name = list[i].name
                                  /\ list[i].deleted => l[i].deleted
                                  /\ list[i].name = n => l[i].deleted
                                  /\ l[i].deleted => list[i].deleted \/ list[i].name = n
                                  /\ ~l[i].deleted => l[i] = list[i]
    BY <1>2, <2>1, MarkedIs
  <2> QED
    BY <2>2 DEF l
<1>4. /\ ring' \in Seq(Labels) /\ DOMAIN ring' = 1..Len(ring')
      /\ \A j \in DOMAIN ring' : ring'[j] \in Labels \ {n} /\ \E i \in DOMAIN ring : ring[i] = ring'[j]
      /\ \A i \in DOMAIN ring : ring[i] \in Labels \ {n} => \E j \in DOMAIN ring' : ring'[j] = ring[i]
      /\ \A i, j \in DOMAIN ring' : ring'[i] = ring'[j] => i = j
  <2> DEFINE r == ring'
             S == Labels \ {n}
  <2>1. r = Those(ring, S)
    OBVIOUS
  <2>2. \A i, j \in 1..Len(ring) : ring[i] = ring[j] => i = j
    BY <1>1 DEF ConnectionsInv, RingMirrored
  <2> HIDE DEF r, S
  <2>3. /\ Those(ring, S) \in Seq(Labels)
        /\ \A j \in 1..Len(Those(ring, S)) :
             Those(ring, S)[j] \in S /\ \E i \in 1..Len(ring) : ring[i] = Those(ring, S)[j]
        /\ \A i \in 1..Len(ring) : ring[i] \in S => \E j \in 1..Len(Those(ring, S)) : Those(ring, S)[j] = ring[i]
    BY <1>1, ThoseAre
  <2>4. \A i, j \in 1..Len(Those(ring, S)) : Those(ring, S)[i] = Those(ring, S)[j] => i = j
    BY <1>1, <2>2, OnceStays
  <2>5. /\ r \in Seq(Labels)
        /\ \A j \in 1..Len(r) : r[j] \in S /\ \E i \in 1..Len(ring) : ring[i] = r[j]
        /\ \A i \in 1..Len(ring) : ring[i] \in S => \E j \in 1..Len(r) : r[j] = ring[i]
        /\ \A i, j \in 1..Len(r) : r[i] = r[j] => i = j
    BY <2>1, <2>3, <2>4
  <2>6. DOMAIN r = 1..Len(r)
    BY <2>5
  <2> QED
    BY <2>5, <2>6, <1>1 DEF r, S
<1>5. /\ walk' \in Walker /\ walk'.number = walk.number /\ walk'.inside = walk.inside
      /\ walk'.at = walk.at /\ walk'.served = walk.served /\ walk'.begun = walk.begun \ {n}
      /\ walk'.twice = walk.twice /\ walk.own \subseteq walk'.own
      /\ InDriverOf(n) => n \in walk'.own
  <2> DEFINE b == walk.begun \ {n}
             c == walk.calls + 1
             o == IF InDriverOf(n) THEN walk.own \cup {n} ELSE walk.own
  <2>1. /\ walk \in Walker /\ b \subseteq Labels /\ c \in Nat /\ o \subseteq Labels
        /\ walk.own \subseteq o /\ (InDriverOf(n) => n \in o)
    BY DEF ConnectionsInv, ConnectionsTyped, Walker
  <2>2. walk' = [walk EXCEPT !.begun = b, !.calls = c, !.own = o]
    OBVIOUS
  <2> HIDE DEF b, c, o
  <2>3. /\ walk' \in Walker /\ walk'.number = walk.number /\ walk'.inside = walk.inside
        /\ walk'.at = walk.at /\ walk'.served = walk.served /\ walk'.begun = b
        /\ walk'.twice = walk.twice /\ walk'.own = o
    BY <2>1, <2>2 DEF Walker
  <2> QED
    BY <2>1, <2>3 DEF b
<1>6. ConnectionsTyped'
  <2>1. exec' \subseteq [of : Labels, alive : BOOLEAN]
    <3>1. ASSUME NEW x \in exec PROVE [x EXCEPT !.alive = @ /\ x.of # n] \in [of : Labels, alive : BOOLEAN]
      <4>1. x \in [of : Labels, alive : BOOLEAN]
        BY DEF ConnectionsInv, ConnectionsTyped
      <4> DEFINE a == x.alive /\ x.of # n
      <4>2. a \in BOOLEAN
        OBVIOUS
      <4> HIDE DEF a
      <4>3. [x EXCEPT !.alive = a] \in [of : Labels, alive : BOOLEAN]
        BY <4>1, <4>2
      <4> QED
        BY <4>3 DEF a
    <3> QED
      BY <3>1
  <2>2. signedOn' \subseteq Labels /\ stored' \subseteq Labels
    BY DEF ConnectionsInv, ConnectionsTyped, ClearedLists
  <2> QED
    BY <2>1, <2>2, <1>3, <1>4, <1>5 DEF ConnectionsTyped
<1>7. WalkPlaced'
  BY <1>3, <1>5 DEF ConnectionsInv, WalkPlaced
<1>8. RingMirrored'
  <2>1. ASSUME NEW i \in DOMAIN list', NEW j \in DOMAIN list',
               ~list'[i].deleted, ~list'[j].deleted, list'[i].name = list'[j].name
        PROVE  i = j
    BY <2>1, <1>3 DEF ConnectionsInv, RingMirrored
  <2>2. ASSUME NEW i \in DOMAIN ring' PROVE \E j \in DOMAIN list' : list'[j] = Entry(ring'[i])
    <3>1. PICK k \in DOMAIN ring : ring[k] = ring'[i]
      BY <1>4
    <3>2. PICK j \in DOMAIN list : list[j] = Entry(ring[k])
      BY DEF ConnectionsInv, RingMirrored
    <3>3. ring[k] \in Labels /\ ring[k] # n
      BY <3>1, <1>4
    <3>4. list[j].name = ring[k] /\ ~list[j].deleted
      BY <3>2, <3>3, EntryIs
    <3>5. list'[j] = list[j]
      BY <3>3, <3>4, <1>3
    <3>6. j \in DOMAIN list' /\ list'[j] = Entry(ring'[i])
      BY <3>1, <3>2, <3>5, <1>3, Zenon
    <3> QED
      BY <3>6, Zenon
  <2>3. ASSUME NEW j \in DOMAIN list', ~list'[j].deleted PROVE \E i \in DOMAIN ring' : ring'[i] = list'[j].name
    <3>1. ~list[j].deleted /\ list[j].name # n /\ list'[j].name = list[j].name
      BY <2>3, <1>3
    <3>2. PICK k \in DOMAIN ring : ring[k] = list[j].name
      BY <3>1, <1>3 DEF ConnectionsInv, RingMirrored
    <3>3. ring[k] \in Labels \ {n}
      BY <3>1, <3>2, <1>1
    <3>4. PICK i \in DOMAIN ring' : ring'[i] = ring[k]
      BY <3>3, <1>4
    <3> QED
      BY <3>1, <3>2, <3>4
  <2> QED
    BY <2>1, <2>2, <2>3, <1>4 DEF RingMirrored
<1>9. DeletedInside'
  <2> SUFFICES ASSUME walk.inside, list'[walk.at].deleted PROVE list'[walk.at].name \in walk'.own
    BY <1>5 DEF DeletedInside
  <2>1. walk.at \in DOMAIN list
    BY <1>2 DEF ConnectionsInv, WalkPlaced
  <2>2. CASE list[walk.at].deleted
    BY <2>1, <2>2, <1>3, <1>5 DEF ConnectionsInv, DeletedInside
  <2>3. CASE list[walk.at].name = n
    BY <2>1, <2>3, <1>3, <1>5 DEF InDriverOf
  <2> QED
    BY <2>1, <2>2, <2>3, <1>3
<1>10. AheadUnserved'
  <2>1. ASSUME NEW k \in DOMAIN list', walk.at < k, ~list'[k].deleted PROVE list'[k].name \notin walk.served
    BY <2>1, <1>3 DEF ConnectionsInv, AheadUnserved
  <2>2. ASSUME NEW m \in walk'.begun, m \notin walk.served
        PROVE  \E k \in DOMAIN list' : walk.at < k /\ list'[k] = Entry(m)
    <3>1. m \in Labels /\ m # n /\ m \in walk.begun
      BY <1>5 DEF ConnectionsInv, ConnectionsTyped, Walker
    <3>2. PICK k \in DOMAIN list : walk.at < k /\ list[k] = Entry(m)
      BY <2>2, <3>1 DEF ConnectionsInv, AheadUnserved
    <3>3. list[k].name = m /\ ~list[k].deleted
      BY <3>1, <3>2, EntryIs
    <3>4. list'[k] = list[k]
      BY <3>1, <3>3, <1>3
    <3> QED
      BY <3>2, <3>4, <1>3
  <2> QED
    BY <2>1, <2>2, <1>5 DEF ConnectionsInv, AheadUnserved
<1>11. FreedOnlyByItself'
  BY DEF FreedOnlyByItself
<1> QED
  BY <1>6, <1>7, <1>8, <1>9, <1>10, <1>11 DEF ConnectionsInv

LEMMA ExitKeeps ==
  ASSUME ConnectionsInv, used = {}, Exit
  PROVE  ConnectionsInv'
<1> USE DEF Exit
<1>1. list \in Seq(Item) /\ Len(list) \in Nat /\ DOMAIN list = 1..Len(list)
  BY DEF ConnectionsInv, ConnectionsTyped
<1>2. /\ list' \in Seq(Item) /\ Len(list') = Len(list) /\ DOMAIN list' = DOMAIN list
      /\ \A i \in DOMAIN list : list'[i].deleted
  <2>1. \A e \in Item : [e EXCEPT !.deleted = TRUE] \in Item /\ [e EXCEPT !.deleted = TRUE].deleted
    BY DEF Item
  <2> DEFINE m(e) == [e EXCEPT !.deleted = TRUE]
  <2>2. list' = [i \in DOMAIN list |-> m(list[i])]
    OBVIOUS
  <2>3. \A e \in Item : m(e) \in Item /\ m(e).deleted
    BY <2>1
  <2> HIDE DEF m
  <2>4. \A i \in DOMAIN list : list[i] \in Item /\ list'[i] = m(list[i])
    BY <1>1, <2>2
  <2>5. list' \in [1..Len(list) -> Item]
    BY <1>1, <2>2, <2>3, <2>4
  <2>6. \A i \in DOMAIN list : list'[i].deleted
    BY <2>3, <2>4
  <2> QED
    BY <1>1, <2>5, <2>6
<1>3. /\ walk.at \in 0..Len(list) /\ walk.number = 0 /\ ~walk.inside /\ walk.begun = {} /\ walk.at = 0
  BY DEF ConnectionsInv, WalkPlaced
<1>4. ConnectionsTyped'
  <2>1. exec' \subseteq [of : Labels, alive : BOOLEAN]
    BY DEF ConnectionsInv, ConnectionsTyped
  <2> QED
    BY <2>1, <1>2 DEF ConnectionsInv, ConnectionsTyped
<1>5. WalkPlaced'
  BY <1>2 DEF ConnectionsInv, WalkPlaced
<1>6. RingMirrored'
  BY <1>2 DEF RingMirrored
<1>7. DeletedInside' /\ AheadUnserved'
  BY <1>2, <1>3 DEF ConnectionsInv, DeletedInside, AheadUnserved
<1>8. FreedOnlyByItself'
  BY DEF FreedOnlyByItself
<1> QED
  BY <1>4, <1>5, <1>6, <1>7, <1>8 DEF ConnectionsInv

(* What the user does besides: the list and the walks stay as they are. *)
LEMMA ElsewhereKeeps ==
  ASSUME ConnectionsInv, used = {},
         \/ \E n \in Labels : Sessions(n)
         \/ \E n \in Labels : Exec(n)
         \/ \E x \in exec : Output(x)
  PROVE  ConnectionsInv'
<1>1. UNCHANGED <<ring, list, walk>> /\ used' \subseteq {"exec"}
  BY DEF Sessions, Exec, Output
<1>2. signedOn' \subseteq Labels /\ stored' \subseteq Labels
  BY DEF Sessions, Exec, Output, ConnectionsInv, ConnectionsTyped
<1>3. exec' \subseteq [of : Labels, alive : BOOLEAN]
  <2>1. exec \subseteq [of : Labels, alive : BOOLEAN]
    BY DEF ConnectionsInv, ConnectionsTyped
  <2>2. ASSUME NEW n \in Labels, Exec(n) PROVE exec' \subseteq [of : Labels, alive : BOOLEAN]
    BY <2>2 DEF Exec
  <2> QED
    BY <2>1, <2>2 DEF Sessions, Output
<1>4. ConnectionsTyped'
  BY <1>1, <1>2, <1>3 DEF ConnectionsInv, ConnectionsTyped
<1>5. WalkPlaced' /\ RingMirrored' /\ DeletedInside' /\ AheadUnserved'
  BY <1>1 DEF ConnectionsInv, WalkPlaced, RingMirrored, DeletedInside, AheadUnserved
<1>6. FreedOnlyByItself'
  BY <1>1 DEF FreedOnlyByItself
<1> QED
  BY <1>4, <1>5, <1>6 DEF ConnectionsInv

(* A ring turned, so that its i-th element is first. *)
LEMMA Turned ==
  ASSUME NEW T, NEW s \in Seq(T), NEW i \in 2..Len(s), NEW r,
         r = SubSeq(s, i, Len(s)) \o SubSeq(s, 1, i - 1)
  PROVE  /\ r \in Seq(T) /\ Len(r) = Len(s)
         /\ \A k \in 1..Len(s) : r[k] = s[IF k <= Len(s) - i + 1 THEN k + i - 1 ELSE k - (Len(s) - i + 1)]
<1> DEFINE m == Len(s)
           a == SubSeq(s, i, Len(s))
           b == SubSeq(s, 1, i - 1)
<1>1. m \in Nat /\ i \in 2..m
  OBVIOUS
<1>2. a \in Seq(T) /\ Len(a) = m - i + 1 /\ \A k \in 1..(m - i + 1) : a[k] = s[k + i - 1]
  OBVIOUS
<1>3. b \in Seq(T) /\ Len(b) = i - 1 /\ \A k \in 1..(i - 1) : b[k] = s[k]
  OBVIOUS
<1>4. r = a \o b
  OBVIOUS
<1> HIDE DEF a, b, m
<1>5. r \in Seq(T) /\ Len(r) = m /\ \A k \in 1..m : r[k] = IF k <= m - i + 1 THEN a[k] ELSE b[k - (m - i + 1)]
  BY <1>1, <1>2, <1>3, <1>4
<1>6. ASSUME NEW k \in 1..m PROVE r[k] = s[IF k <= m - i + 1 THEN k + i - 1 ELSE k - (m - i + 1)]
  <2>1. CASE k <= m - i + 1
    BY <1>1, <1>2, <1>5, <2>1
  <2>2. CASE ~(k <= m - i + 1)
    <3>1. k - (m - i + 1) \in 1..(i - 1)
      BY <1>1, <2>2
    <3> QED
      BY <3>1, <1>3, <1>5, <2>2
  <2> QED
    BY <2>1, <2>2
<1> QED
  BY <1>5, <1>6 DEF m

LEMMA TurnToKeeps ==
  ASSUME NEW i \in 2..Len(ring), ConnectionsInv, used = {}, TurnTo(i)
  PROVE  ConnectionsInv'
<1> USE DEF TurnTo
<1> DEFINE m == Len(ring)
           p(k) == IF k <= m - i + 1 THEN k + i - 1 ELSE k - (m - i + 1)
<1>1. ring \in Seq(Labels) /\ m \in Nat /\ i \in 2..m /\ DOMAIN ring = 1..m
  BY DEF ConnectionsInv, ConnectionsTyped
<1>2. ring' \in Seq(Labels) /\ Len(ring') = m /\ \A k \in 1..m : ring'[k] = ring[p(k)]
  <2> DEFINE r == ring'
  <2>1. r = SubSeq(ring, i, Len(ring)) \o SubSeq(ring, 1, i - 1)
    OBVIOUS
  <2> HIDE DEF r
  <2>2. /\ r \in Seq(Labels) /\ Len(r) = Len(ring)
        /\ \A k \in 1..Len(ring) : r[k] = ring[IF k <= Len(ring) - i + 1 THEN k + i - 1 ELSE k - (Len(ring) - i + 1)]
    BY <1>1, <2>1, Turned
  <2> QED
    BY <2>2 DEF r
<1>3. DOMAIN ring' = 1..m
  BY <1>2
<1> HIDE DEF m
<1>4. /\ \A k \in 1..m : p(k) \in 1..m
      /\ \A k, l \in 1..m : p(k) = p(l) => k = l
      /\ \A k \in 1..m : \E l \in 1..m : p(l) = k
  <2>1. ASSUME NEW k \in 1..m PROVE \E l \in 1..m : p(l) = k
    <3>1. CASE i <= k
      <4>1. k - i + 1 \in 1..m /\ p(k - i + 1) = k
        BY <1>1, <3>1
      <4> HIDE DEF p
      <4> QED
        BY <4>1
    <3>2. CASE k < i
      <4>1. k + (m - i + 1) \in 1..m /\ p(k + (m - i + 1)) = k
        BY <1>1, <3>2
      <4> HIDE DEF p
      <4> QED
        BY <4>1
    <3> QED
      BY <3>1, <3>2, <1>1
  <2>2. ASSUME NEW k \in 1..m PROVE p(k) \in 1..m
    BY <1>1
  <2>3. ASSUME NEW k \in 1..m, NEW l \in 1..m, p(k) = p(l) PROVE k = l
    BY <1>1, <2>3
  <2> HIDE DEF p
  <2> QED
    BY <2>1, <2>2, <2>3
<1> HIDE DEF p
<1>5. RingMirrored'
  <2>1. ASSUME NEW k \in DOMAIN ring', NEW l \in DOMAIN ring', ring'[k] = ring'[l] PROVE k = l
    <3>1. /\ p(k) \in DOMAIN ring /\ p(l) \in DOMAIN ring /\ k \in 1..m /\ l \in 1..m
          /\ ring[p(k)] = ring[p(l)]
      BY <2>1, <1>1, <1>2, <1>3, <1>4
    <3>2. p(k) = p(l)
      BY <3>1 DEF ConnectionsInv, RingMirrored
    <3> QED
      BY <3>1, <3>2, <1>4
  <2>2. ASSUME NEW k \in DOMAIN ring' PROVE \E j \in DOMAIN list : list[j] = Entry(ring'[k])
    <3>1. p(k) \in DOMAIN ring /\ ring'[k] = ring[p(k)]
      BY <1>1, <1>2, <1>3, <1>4
    <3> QED
      BY <3>1 DEF ConnectionsInv, RingMirrored
  <2>3. ASSUME NEW j \in DOMAIN list, ~list[j].deleted PROVE \E k \in DOMAIN ring' : ring'[k] = list[j].name
    <3>1. PICK k \in DOMAIN ring : ring[k] = list[j].name
      BY <2>3 DEF ConnectionsInv, RingMirrored
    <3>2. PICK l \in 1..m : p(l) = k
      BY <1>1, <1>4
    <3> QED
      BY <3>1, <3>2, <1>2, <1>3
  <2> QED
    BY <2>1, <2>2, <2>3 DEF ConnectionsInv, RingMirrored
<1>6. ConnectionsTyped'
  BY <1>2 DEF ConnectionsInv, ConnectionsTyped
<1>7. WalkPlaced' /\ DeletedInside' /\ AheadUnserved'
  BY DEF ConnectionsInv, WalkPlaced, DeletedInside, AheadUnserved
<1>8. FreedOnlyByItself'
  BY DEF FreedOnlyByItself
<1> QED
  BY <1>5, <1>6, <1>7, <1>8 DEF ConnectionsInv

(* The walks. *)

LEMMA BegunIs ==
  ASSUME NEW k \in 1..4, walk \in Walker, list \in Seq(Item), NEW w, w = Begun(k)
  PROVE  /\ w \in Walker /\ w.number = k /\ w.at = 0 /\ ~w.inside /\ w.served = {}
         /\ w.own = walk.own /\ w.twice = walk.twice
         /\ \A n \in w.begun : \E j \in DOMAIN list : list[j] = Entry(n)
<1> DEFINE b == {list[i].name : i \in {j \in DOMAIN list : ~list[j].deleted}}
<1>1. w = [walk EXCEPT !.number = k, !.at = 0, !.inside = FALSE, !.served = {}, !.begun = b]
  BY DEF Begun
<1>2. \A j \in DOMAIN list : list[j] \in Item
  OBVIOUS
<1>3. b \subseteq Labels
  BY <1>2 DEF Item
<1>4. ASSUME NEW n \in b PROVE \E j \in DOMAIN list : list[j] = Entry(n)
  <2>1. PICK j \in DOMAIN list : ~list[j].deleted /\ list[j].name = n
    OBVIOUS
  <2>2. list[j] = Entry(list[j].name)
    BY <1>2, <2>1, EntryOf
  <2>3. list[j] = Entry(n)
    BY <2>1, <2>2, Zenon
  <2> QED
    BY <2>3, Zenon
<1> HIDE DEF b
<1>5. /\ w \in Walker /\ w.number = k /\ w.at = 0 /\ ~w.inside /\ w.served = {}
      /\ w.own = walk.own /\ w.twice = walk.twice /\ w.begun = b
  <2> DEFINE s == {}
  <2>1. k \in 0..4 /\ s \subseteq Labels
    OBVIOUS
  <2>2. w = [walk EXCEPT !.number = k, !.at = 0, !.inside = FALSE, !.served = s, !.begun = b]
    BY <1>1
  <2> HIDE DEF s
  <2>3. w \in Walker
    <3> DEFINE v == [walk EXCEPT !.number = k, !.at = 0, !.inside = FALSE]
    <3>1. v \in Walker
      BY <2>1 DEF Walker
    <3>2. w = [v EXCEPT !.served = s, !.begun = b]
      BY <2>2 DEF Walker
    <3> HIDE DEF v
    <3> QED
      BY <1>3, <2>1, <3>1, <3>2 DEF Walker
  <2>4. /\ w.number = k /\ w.at = 0 /\ ~w.inside /\ w.served = s
        /\ w.own = walk.own /\ w.twice = walk.twice /\ w.begun = b
    BY <2>2 DEF Walker
  <2> QED
    BY <2>3, <2>4 DEF s
<1> QED
  BY <1>4, <1>5

LEMMA BegunKeeps ==
  ASSUME NEW k \in 1..4, ConnectionsInv, used = {}, walk' = Begun(k),
         UNCHANGED <<ring, list, signedOn, stored, exec, used>>
  PROVE  ConnectionsInv'
<1>1. walk \in Walker /\ list \in Seq(Item) /\ Len(list) \in Nat /\ DOMAIN list = 1..Len(list)
  BY DEF ConnectionsInv, ConnectionsTyped
<1>2. /\ walk' \in Walker /\ walk'.number = k /\ walk'.at = 0 /\ ~walk'.inside /\ walk'.served = {}
      /\ walk'.own = walk.own /\ walk'.twice = walk.twice
      /\ \A n \in walk'.begun : \E j \in DOMAIN list : list[j] = Entry(n)
  <2> DEFINE w == walk'
  <2>1. w = Begun(k)
    OBVIOUS
  <2> HIDE DEF w
  <2>2. /\ w \in Walker /\ w.number = k /\ w.at = 0 /\ ~w.inside /\ w.served = {}
        /\ w.own = walk.own /\ w.twice = walk.twice
        /\ \A n \in w.begun : \E j \in DOMAIN list : list[j] = Entry(n)
    BY <1>1, <2>1, BegunIs
  <2> QED
    BY <2>2 DEF w
<1>3. ConnectionsTyped'
  BY <1>2 DEF ConnectionsInv, ConnectionsTyped
<1>4. WalkPlaced' /\ RingMirrored' /\ DeletedInside'
  BY <1>1, <1>2 DEF ConnectionsInv, WalkPlaced, RingMirrored, DeletedInside
<1>5. AheadUnserved'
  <2>1. ASSUME NEW n \in walk'.begun PROVE \E j \in DOMAIN list : 0 < j /\ list[j] = Entry(n)
    BY <1>1, <1>2
  <2> QED
    BY <2>1, <1>2 DEF ConnectionsInv, AheadUnserved
<1>6. FreedOnlyByItself'
  BY DEF FreedOnlyByItself
<1> QED
  BY <1>3, <1>4, <1>5, <1>6 DEF ConnectionsInv

LEMMA NextEntryKeeps ==
  ASSUME ConnectionsInv, used = {}, NextEntry
  PROVE  ConnectionsInv'
<1> DEFINE a == walk.at + 1
           e == list[a]
<1>1. walk \in Walker /\ list \in Seq(Item) /\ Len(list) \in Nat /\ DOMAIN list = 1..Len(list)
  BY DEF ConnectionsInv, ConnectionsTyped
<1>2. /\ a \in DOMAIN list /\ a \in 1..Len(list) /\ e \in Item /\ a \in Nat
      /\ walk.number # 0 /\ ~walk.inside /\ \A k \in DOMAIN list : a < k => walk.at < k
      /\ walk.at < a /\ \A k \in DOMAIN list : walk.at < k => k = a \/ a < k
  BY <1>1 DEF NextEntry, ConnectionsInv, WalkPlaced
<1>3. UNCHANGED <<ring, list, signedOn, stored, exec, used>>
  BY DEF NextEntry
<1>4. RingMirrored'
  BY <1>3 DEF ConnectionsInv, RingMirrored
<1>5. FreedOnlyByItself'
  BY <1>3 DEF FreedOnlyByItself
<1>6. CASE e.deleted
  <2>1. walk' = [walk EXCEPT !.at = a]
    BY <1>6 DEF NextEntry
  <2> HIDE DEF a
  <2>2. /\ walk' \in Walker /\ walk'.at = a /\ walk'.number = walk.number /\ ~walk'.inside
        /\ walk'.served = walk.served /\ walk'.begun = walk.begun /\ walk'.twice = walk.twice
    BY <1>1, <1>2, <2>1 DEF Walker
  <2>3. ConnectionsTyped' /\ WalkPlaced' /\ DeletedInside'
    BY <1>1, <1>2, <1>3, <2>2 DEF ConnectionsInv, ConnectionsTyped, WalkPlaced, DeletedInside
  <2>4. AheadUnserved'
    <3>1. ASSUME NEW n \in walk.begun, n \notin walk.served
          PROVE  \E k \in DOMAIN list : a < k /\ list[k] = Entry(n)
      <4>1. n \in Labels
        BY <1>1 DEF Walker
      <4>2. PICK k \in DOMAIN list : walk.at < k /\ list[k] = Entry(n)
        BY <3>1 DEF ConnectionsInv, AheadUnserved
      <4>3. ~list[k].deleted
        BY <4>1, <4>2, EntryIs
      <4>4. k # a
        BY <4>3, <1>6
      <4> QED
        BY <4>2, <4>4, <1>2
    <3>2. ASSUME NEW k \in DOMAIN list, a < k, ~list[k].deleted PROVE list[k].name \notin walk.served
      BY <3>2, <1>2 DEF ConnectionsInv, AheadUnserved
    <3> QED
      BY <3>1, <3>2, <1>3, <2>2 DEF ConnectionsInv, AheadUnserved
  <2> QED
    BY <2>3, <2>4, <1>4, <1>5 DEF ConnectionsInv
<1>7. CASE ~e.deleted
  <2> DEFINE s == walk.served \cup {e.name}
             t == walk.twice \/ e.name \in walk.served
  <2>1. e.name \notin walk.served /\ ~walk.twice
    BY <1>2, <1>7 DEF ConnectionsInv, AheadUnserved
  <2>2. walk' = [walk EXCEPT !.at = a, !.inside = TRUE, !.served = s, !.twice = t]
    BY <1>7 DEF NextEntry
  <2>3. s \subseteq Labels /\ t \in BOOLEAN /\ ~t
    BY <1>1, <1>2, <2>1 DEF Walker, Item
  <2> HIDE DEF a, s, t
  <2>4. /\ walk' \in Walker /\ walk'.at = a /\ walk'.number = walk.number /\ walk'.inside
        /\ walk'.served = s /\ walk'.begun = walk.begun /\ walk'.twice = t
    BY <1>1, <1>2, <2>2, <2>3 DEF Walker
  <2>5. ConnectionsTyped' /\ WalkPlaced'
    BY <1>1, <1>2, <1>3, <2>4 DEF ConnectionsInv, ConnectionsTyped, WalkPlaced
  <2>6. DeletedInside'
    BY <1>3, <1>7, <2>4 DEF DeletedInside
  <2>7. AheadUnserved'
    <3>1. ASSUME NEW n \in walk.begun, n \notin s
          PROVE  \E k \in DOMAIN list : a < k /\ list[k] = Entry(n)
      <4>1. n \in Labels /\ n \notin walk.served /\ n # e.name
        BY <3>1, <1>1 DEF Walker, s
      <4>2. PICK k \in DOMAIN list : walk.at < k /\ list[k] = Entry(n)
        BY <4>1 DEF ConnectionsInv, AheadUnserved
      <4>3. list[k].name = n
        BY <4>1, <4>2, EntryIs
      <4>4. k # a
        BY <4>1, <4>3
      <4> QED
        BY <4>2, <4>4, <1>2
    <3>2. ASSUME NEW k \in DOMAIN list, a < k, ~list[k].deleted PROVE list[k].name \notin s
      <4>1. list[k].name \notin walk.served
        BY <3>2, <1>2 DEF ConnectionsInv, AheadUnserved
      <4>2. k # a
        BY <3>2, <1>1, <1>2
      <4>3. list[k].name # e.name
        BY <3>2, <4>2, <1>2, <1>7 DEF ConnectionsInv, RingMirrored
      <4> QED
        BY <4>1, <4>3 DEF s
    <3> QED
      BY <3>1, <3>2, <1>3, <2>3, <2>4 DEF AheadUnserved
  <2> QED
    BY <2>5, <2>6, <2>7, <1>4, <1>5 DEF ConnectionsInv
<1> QED
  BY <1>6, <1>7

LEMMA DriverReturnsKeeps ==
  ASSUME ConnectionsInv, used = {}, DriverReturns
  PROVE  ConnectionsInv'
<1> USE DEF DriverReturns
<1>1. walk \in Walker /\ list \in Seq(Item)
  BY DEF ConnectionsInv, ConnectionsTyped
<1>2. /\ walk' \in Walker /\ walk'.at = walk.at /\ walk'.number = walk.number /\ ~walk'.inside
      /\ walk'.served = walk.served /\ walk'.begun = walk.begun /\ walk'.twice = walk.twice
      /\ walk'.own = walk.own
  BY <1>1 DEF Walker
<1>3. ConnectionsTyped' /\ WalkPlaced' /\ DeletedInside'
  BY <1>2 DEF ConnectionsInv, ConnectionsTyped, WalkPlaced, DeletedInside
<1>4. RingMirrored' /\ AheadUnserved'
  BY <1>2 DEF ConnectionsInv, RingMirrored, AheadUnserved
<1>5. FreedOnlyByItself'
  BY <1>2 DEF ConnectionsInv, DeletedInside, FreedOnlyByItself
<1> QED
  BY <1>3, <1>4, <1>5 DEF ConnectionsInv

(* What is left of the list when the deleted are taken from it. *)
LEMMA LastWalkKeeps ==
  ASSUME ConnectionsInv, used = {}, walk' = Idle, list' = Those(list, {Entry(n) : n \in Labels}),
         UNCHANGED <<ring, signedOn, stored, exec, used>>
  PROVE  ConnectionsInv'
<1> DEFINE S == {Entry(n) : n \in Labels}
           l == list'
<1>1. list \in Seq(Item) /\ Len(list) \in Nat /\ DOMAIN list = 1..Len(list)
  BY DEF ConnectionsInv, ConnectionsTyped
<1>2. \A j \in DOMAIN list : list[j] \in Item
  BY <1>1
<1>3. \A j \in DOMAIN list : (list[j] \in S) <=> ~list[j].deleted
  <2>1. ASSUME NEW j \in DOMAIN list, list[j] \in S PROVE ~list[j].deleted
    BY <2>1, EntryIs
  <2>2. ASSUME NEW j \in DOMAIN list, ~list[j].deleted PROVE list[j] \in S
    <3>1. list[j] = Entry(list[j].name) /\ list[j].name \in Labels
      BY <1>2, <2>2, EntryOf
    <3> QED
      BY <3>1
  <2> QED
    BY <2>1, <2>2
<1>4. l = Those(list, S)
  OBVIOUS
<1> HIDE DEF S, l
<1>5. PICK h : TakenFrom(Item, list, S, Len(list), l, h)
  <2>1. \E h : TakenFrom(Item, list, S, Len(list), Those(list, S), h)
    BY <1>1, ThoseTaken
  <2> QED
    BY <2>1, <1>4
<1>6. /\ l \in Seq(Item) /\ Len(l) \in Nat /\ DOMAIN l = 1..Len(l)
      /\ \A j \in DOMAIN l : h[j] \in DOMAIN list /\ l[j] = list[h[j]] /\ list[h[j]] \in S
      /\ \A k \in DOMAIN list : list[k] \in S => \E j \in DOMAIN l : h[j] = k
      /\ \A j, k \in DOMAIN l : j < k => h[j] < h[k]
  <2>1. l \in Seq(Item) /\ Len(l) \in Nat /\ DOMAIN l = 1..Len(l)
    BY <1>5 DEF TakenFrom
  <2>2. \A j \in DOMAIN l : h[j] \in DOMAIN list /\ l[j] = list[h[j]] /\ list[h[j]] \in S
    BY <1>1, <1>5, <2>1 DEF TakenFrom
  <2>3. \A k \in DOMAIN list : list[k] \in S => \E j \in DOMAIN l : h[j] = k
    BY <1>1, <1>5, <2>1 DEF TakenFrom
  <2>4. \A j, k \in DOMAIN l : j < k => h[j] < h[k]
    BY <1>5, <2>1 DEF TakenFrom
  <2> QED
    BY <2>1, <2>2, <2>3, <2>4, Zenon
<1>7. Idle \in Walker /\ Idle.number = 0 /\ Idle.at = 0 /\ ~Idle.inside /\ Idle.served = {}
      /\ Idle.begun = {} /\ ~Idle.twice
  BY DEF Idle, Walker
<1>8. ConnectionsTyped'
  BY <1>6, <1>7 DEF ConnectionsInv, ConnectionsTyped, l
<1>9. WalkPlaced' /\ DeletedInside' /\ AheadUnserved'
  BY <1>6, <1>7 DEF WalkPlaced, DeletedInside, AheadUnserved, l
<1>10. RingMirrored'
  <2>1. ASSUME NEW i \in DOMAIN l, NEW j \in DOMAIN l, ~l[i].deleted, ~l[j].deleted, l[i].name = l[j].name
        PROVE  i = j
    <3>1. h[i] = h[j]
      BY <2>1, <1>6 DEF ConnectionsInv, RingMirrored
    <3>2. h[i] \in Nat /\ h[j] \in Nat /\ i \in Nat /\ j \in Nat
      BY <1>1, <1>6
    <3>3. ~(i < j) /\ ~(j < i)
      BY <3>1, <3>2, <1>6
    <3> QED
      BY <3>2, <3>3
  <2>2. ASSUME NEW i \in DOMAIN ring PROVE \E j \in DOMAIN l : l[j] = Entry(ring[i])
    <3>1. PICK k \in DOMAIN list : list[k] = Entry(ring[i])
      BY DEF ConnectionsInv, RingMirrored
    <3>2. ring[i] \in Labels
      BY DEF ConnectionsInv, ConnectionsTyped
    <3>3. list[k] \in S
      BY <3>1, <3>2 DEF S
    <3>4. PICK j \in DOMAIN l : h[j] = k
      BY <3>3, <1>6
    <3>5. l[j] = Entry(ring[i])
      BY <3>1, <3>4, <1>6
    <3> QED
      BY <3>5
  <2>3. ASSUME NEW j \in DOMAIN l, ~l[j].deleted PROVE \E i \in DOMAIN ring : ring[i] = l[j].name
    BY <2>3, <1>6 DEF ConnectionsInv, RingMirrored
  <2> QED
    BY <2>1, <2>2, <2>3 DEF ConnectionsInv, RingMirrored, l
<1>11. FreedOnlyByItself'
  BY DEF FreedOnlyByItself
<1> QED
  BY <1>8, <1>9, <1>10, <1>11 DEF ConnectionsInv

LEMMA ConnectionsSteps == ConnectionsInv /\ ConnectionsNext => ConnectionsInv'
<1> SUFFICES ASSUME ConnectionsInv, ConnectionsNext PROVE ConnectionsInv'
  OBVIOUS
<1>0. used = {}
  BY DEF ConnectionsNext
<1>1. ASSUME Command, ~Quitted, walk.number = 0 \/ walk.inside PROVE ConnectionsInv'
  <2>1. ASSUME NEW n \in Labels, NewConn(n) PROVE ConnectionsInv'
    BY <1>0, <1>1, <2>1, NewConnKeeps
  <2>2. ASSUME NEW n \in Labels, NEW given, DelConn(given, n) PROVE ConnectionsInv'
    <3>1. DoDelConn(n)
      BY <2>2 DEF DelConn
    <3> QED
      BY <1>0, <3>1, DoDelConnKeeps
  <2> QED
    BY <1>1, <2>1, <2>2, Zenon DEF Command
<1>2. ASSUME Keyboard PROVE ConnectionsInv'
  <2>1. walk.number = 0 /\ ~Quitted
    BY <1>2 DEF Keyboard
  <2>2. ASSUME NEW n \in Labels, Exec(n) PROVE ConnectionsInv'
    BY <1>0, <2>2, ElsewhereKeeps
  <2>3. ASSUME NEW i \in 2..Len(ring), TurnTo(i) PROVE ConnectionsInv'
    BY <1>0, <2>3, TurnToKeeps
  <2>4. ASSUME Exit PROVE ConnectionsInv'
    BY <1>0, <2>4, ExitKeeps
  <2> QED
    BY <1>1, <1>2, <2>1, <2>2, <2>3, <2>4, Zenon DEF Keyboard
<1>3. ASSUME Script PROVE ConnectionsInv'
  <2>1. Command /\ ~Quitted /\ walk.inside
    BY <1>3 DEF Script
  <2> QED
    BY <2>1, <1>1
<1>4. ASSUME SelectBegins PROVE ConnectionsInv'
  <2>1. walk' = Begun(1) /\ UNCHANGED <<ring, list, signedOn, stored, exec, used>>
    BY <1>4 DEF SelectBegins
  <2> QED
    BY <1>0, <2>1, BegunKeeps
<1>5. ASSUME WalkEnds PROVE ConnectionsInv'
  <2>1. UNCHANGED <<ring, signedOn, stored, exec, used>> /\ walk.number # 0
    BY <1>5 DEF WalkEnds
  <2>2. CASE walk.number < 4
    <3> DEFINE k == walk.number + 1
    <3>1. k \in 1..4
      BY <2>1, <2>2 DEF ConnectionsInv, ConnectionsTyped, Walker
    <3>2. walk' = Begun(k) /\ list' = list
      BY <1>5, <2>2 DEF WalkEnds
    <3> HIDE DEF k
    <3> QED
      BY <1>0, <2>1, <3>1, <3>2, BegunKeeps
  <2>3. CASE ~(walk.number < 4)
    BY <1>0, <1>5, <2>1, <2>3, LastWalkKeeps DEF WalkEnds
  <2> QED
    BY <2>2, <2>3
<1>6. ASSUME \/ \E n \in Labels : Sessions(n)
             \/ \E x \in exec : Output(x)
      PROVE  ConnectionsInv'
  BY <1>0, <1>6, ElsewhereKeeps, Zenon
<1>7. ASSUME NextEntry \/ DriverReturns PROVE ConnectionsInv'
  BY <1>0, <1>7, NextEntryKeeps, DriverReturnsKeeps
<1> QED
  BY <1>2, <1>3, <1>4, <1>5, <1>6, <1>7, Zenon DEF ConnectionsNext

LEMMA ConnectionsAre == ConnectionsInv => Registered /\ ServedOnce /\ FreedOnlyByItself
<1> SUFFICES ASSUME ConnectionsInv PROVE Registered /\ ServedOnce /\ FreedOnlyByItself
  OBVIOUS
<1>1. Names(ring) = {n \in Labels : Alive(n)}
  <2>1. ASSUME NEW n \in Names(ring) PROVE n \in Labels /\ Alive(n)
    <3>1. PICK i \in DOMAIN ring : ring[i] = n
      BY DEF Names
    <3>2. PICK j \in DOMAIN list : list[j] = Entry(ring[i])
      BY DEF ConnectionsInv, RingMirrored
    <3>3. list[j] = Entry(n) /\ n \in Labels
      BY <3>1, <3>2 DEF ConnectionsInv, ConnectionsTyped
    <3> QED
      BY <3>3 DEF Alive
  <2>2. ASSUME NEW n \in Labels, Alive(n) PROVE n \in Names(ring)
    <3>1. PICK j \in DOMAIN list : list[j] = Entry(n)
      BY <2>2 DEF Alive
    <3>2. ~list[j].deleted /\ list[j].name = n
      BY <3>1, EntryIs
    <3>3. PICK i \in DOMAIN ring : ring[i] = list[j].name
      BY <3>2 DEF ConnectionsInv, RingMirrored
    <3> QED
      BY <3>2, <3>3 DEF Names
  <2> QED
    BY <2>1, <2>2
<1>2. Registered
  BY <1>1 DEF ConnectionsInv, RingMirrored, Registered
<1>3. ServedOnce
  <2> SUFFICES ASSUME walk.at = Len(list), NEW n \in walk.begun PROVE n \in walk.served
    BY DEF ServedOnce, ConnectionsInv, AheadUnserved
  <2>1. ~\E k \in DOMAIN list : walk.at < k
    BY DEF ConnectionsInv, ConnectionsTyped
  <2> QED
    BY <2>1 DEF ConnectionsInv, AheadUnserved
<1> QED
  BY <1>2, <1>3 DEF ConnectionsInv

-----------------------------------------------------------------------------
(* Autopeer. *)

AWord == [word : {"+AUTOPEER", "-AUTOPEER", "+AUTOCRYPT", "-AUTOCRYPT"}, key : Nat]

(* A buddy as it may be: who encrypts has a key. *)
Keyed == {b \in Blist : b.docrypt => b.crypt # NoKey}

Answers == [b : Keyed, out : Seq(Seq(AWord))]

PeersInv ==
  /\ peers \in [Ends -> Keyed] /\ option \in [Ends -> Option]
  /\ mail \in [Ends -> Seq(Message)] /\ keys \in Nat

LEMMA WordsAre ==
  ASSUME NEW k \in Nat
  PROVE  /\ Word("+AUTOPEER", k) \in AWord /\ Word("-AUTOPEER", k) \in AWord
         /\ Word("+AUTOCRYPT", k) \in AWord /\ Word("-AUTOCRYPT", k) \in AWord
BY DEF Word, AWord

LEMMA OneIs == ASSUME NEW T, NEW x \in T PROVE <<x>> \in Seq(T)
OBVIOUS

LEMMA MessagesAre ==
  /\ \A words \in Seq(AWord) : Request(words) \in Message
  /\ \A key \in Nat, auto \in BOOLEAN : Text(key, auto) \in Message
  /\ \A m \in Message : m.what = "text" => m.key \in Nat /\ m.auto \in BOOLEAN
  /\ \A m \in Message : m.what = "AUTOPEER" => m.words \in Seq(AWord)
<1>1. ASSUME NEW words \in Seq(AWord) PROVE Request(words) \in Message
  <2> DEFINE Ws == Seq(AWord)
  <2>1. words \in Ws /\ Message = [what : {"text"}, key : Nat, auto : BOOLEAN] \cup [what : {"AUTOPEER"}, words : Ws]
    BY DEF Message, AWord
  <2> HIDE DEF Ws
  <2> QED
    BY <2>1 DEF Request
<1>2. ASSUME NEW key \in Nat, NEW auto \in BOOLEAN PROVE Text(key, auto) \in Message
  BY DEF Text, Message
<1>3. ASSUME NEW m \in Message, m.what = "text" PROVE m.key \in Nat /\ m.auto \in BOOLEAN
  BY <1>3 DEF Message
<1>4. ASSUME NEW m \in Message, m.what = "AUTOPEER" PROVE m.words \in Seq(AWord)
  BY <1>4 DEF Message, AWord
<1> QED
  BY <1>1, <1>2, <1>3, <1>4

LEMMA UnknownIs == \A l \in BOOLEAN : Unknown(l) \in Keyed
BY DEF Unknown, Keyed, Blist, NoKey

LEMMA EffectIs ==
  ASSUME NEW b \in Keyed, NEW out \in Seq(Seq(AWord))
  PROVE  [b |-> b, out |-> out] \in Answers
<1> DEFINE Ws == Seq(Seq(AWord))
<1>1. out \in Ws /\ Answers = [b : Keyed, out : Ws]
  BY DEF Answers
<1> HIDE DEF Ws
<1> QED
  BY <1>1

LEMMA EffectHas ==
  ASSUME NEW e \in Answers
  PROVE  e.b \in Keyed /\ e.out \in Seq(Seq(AWord))
BY DEF Answers

(* No word leaves a buddy encrypting without a key. *)
LEMMA PlusAutopeerIs ==
  ASSUME NEW b \in Keyed, NEW o
  PROVE  PlusAutopeer(b, o) \in Answers
<1> DEFINE c == [b EXCEPT !.peer = Level]
           p == <<Word("+AUTOPEER", NoKey)>>
           q == IF b.peer = 0 /\ b.crypt = NoKey /\ o.autocrypt THEN <<Word("+AUTOCRYPT", NoKey)>> ELSE <<>>
           w == p \o q
<1>1. c \in Keyed
  BY DEF Keyed, Blist, Level
<1>2. w \in Seq(AWord)
  <2>1. p \in Seq(AWord)
    BY WordsAre, OneIs DEF NoKey
  <2>2. q \in Seq(AWord)
    <3>1. <<Word("+AUTOCRYPT", NoKey)>> \in Seq(AWord)
      BY WordsAre, OneIs DEF NoKey
    <3>2. <<>> \in Seq(AWord)
      OBVIOUS
    <3> QED
      BY <3>1, <3>2
  <2> HIDE DEF p, q
  <2> QED
    BY <2>1, <2>2
<1>3. PlusAutopeer(b, o) = IF b.peer = Level THEN [b |-> b, out |-> <<>>] ELSE [b |-> c, out |-> <<w>>]
  BY DEF PlusAutopeer
<1> HIDE DEF c, w
<1>4. <<w>> \in Seq(Seq(AWord)) /\ <<>> \in Seq(Seq(AWord))
  BY <1>2, OneIs
<1>5. [b |-> c, out |-> <<w>>] \in Answers
  BY <1>1, <1>4, EffectIs
<1>6. [b |-> b, out |-> <<>>] \in Answers
  BY <1>4, EffectIs
<1> QED
  BY <1>3, <1>5, <1>6

LEMMA MinusAutocryptIs ==
  ASSUME NEW b \in Keyed
  PROVE  /\ MinusAutocrypt(b) \in Answers
         /\ \A e : e = MinusAutopeer(b) => e \in Answers
<1> DEFINE c == [b EXCEPT !.docrypt = FALSE, !.crypt = NoKey]
           w == <<Word("-AUTOCRYPT", NoKey)>>
<1>1. c \in Keyed
  BY DEF Keyed, Blist, NoKey
<1>2. <<w>> \in Seq(Seq(AWord)) /\ <<>> \in Seq(Seq(AWord))
  BY WordsAre, OneIs DEF NoKey
<1>3. MinusAutocrypt(b) = IF b.crypt = NoKey THEN [b |-> b, out |-> <<>>] ELSE [b |-> c, out |-> <<w>>]
  BY DEF MinusAutocrypt
<1>4. [b |-> c, out |-> <<w>>] \in Answers /\ [b |-> b, out |-> <<>>] \in Answers
  <2> HIDE DEF c, w
  <2> QED
    BY <1>1, <1>2, EffectIs
<1> HIDE DEF c, w
<1>5. MinusAutocrypt(b) \in Answers
  BY <1>3, <1>4
<1> DEFINE e == MinusAutocrypt(b)
<1>6. e \in Answers
  BY <1>5
<1>7. MinusAutopeer(b) = [e EXCEPT !.b = [e.b EXCEPT !.docrypt = FALSE, !.peer = 0]]
  <2>1. MinusAutopeer(b) = [e EXCEPT !.b.docrypt = FALSE, !.b.peer = 0]
    BY DEF MinusAutopeer
  <2> HIDE DEF e
  <2>2. e = [b |-> e.b, out |-> e.out] /\ e.b \in Blist
    BY <1>6 DEF Answers, Keyed
  <2>3. e.b = [listed |-> e.b.listed, peer |-> e.b.peer, crypt |-> e.b.crypt, docrypt |-> e.b.docrypt]
    BY <2>2 DEF Blist
  <2> QED
    BY <2>1, <2>2, <2>3
<1> HIDE DEF e
<1>8. [e.b EXCEPT !.docrypt = FALSE, !.peer = 0] \in Keyed
  <2>1. e.b \in Keyed
    BY <1>6, EffectHas
  <2> DEFINE x == e.b
  <2>2. x \in Keyed
    BY <2>1
  <2> HIDE DEF x
  <2>3. [x EXCEPT !.docrypt = FALSE, !.peer = 0] \in Keyed
    BY <2>2 DEF Keyed, Blist
  <2> QED
    BY <2>3 DEF x
<1> DEFINE d == [e.b EXCEPT !.docrypt = FALSE, !.peer = 0]
<1>9. d \in Keyed /\ MinusAutopeer(b) = [e EXCEPT !.b = d]
  BY <1>7, <1>8
<1> HIDE DEF d
<1>10. [e EXCEPT !.b = d] \in Answers
  BY <1>6, <1>9 DEF Answers
<1> QED
  BY <1>5, <1>9, <1>10

LEMMA PlusAutocryptIs ==
  ASSUME NEW b \in Keyed, NEW o, NEW told \in Nat, NEW made \in Nat \ {0}
  PROVE  PlusAutocrypt(b, o, told, made) \in Answers
<1> DEFINE key == IF told = NoKey THEN made ELSE told
           d == [b EXCEPT !.crypt = key, !.docrypt = TRUE]
           c == IF b.crypt = key THEN b ELSE d
           n == <<Word("-AUTOCRYPT", NoKey)>>
           k == <<Word("+AUTOCRYPT", key)>>
           out == IF told = NoKey THEN <<k>> ELSE <<>>
<1>1. key \in Nat /\ key # NoKey
  BY DEF NoKey
<1>2. /\ n \in Seq(AWord) /\ k \in Seq(AWord)
  BY <1>1, WordsAre, OneIs DEF NoKey
<1>3. PlusAutocrypt(b, o, told, made) =
        IF ~o.autocrypt THEN [b |-> b, out |-> <<n>>] ELSE [b |-> c, out |-> out]
  BY DEF PlusAutocrypt
<1> HIDE DEF key
<1>4. c \in Keyed
  <2>1. d \in Keyed
    BY <1>1 DEF Keyed, Blist
  <2> HIDE DEF d
  <2> QED
    BY <2>1
<1> HIDE DEF c, n, k
<1>5. out \in Seq(Seq(AWord)) /\ <<n>> \in Seq(Seq(AWord))
  BY <1>2, OneIs
<1> HIDE DEF out
<1>6. [b |-> b, out |-> <<n>>] \in Answers /\ [b |-> c, out |-> out] \in Answers
  BY <1>4, <1>5, EffectIs
<1> QED
  BY <1>3, <1>6

LEMMA OneWordIs ==
  ASSUME NEW b \in Keyed, NEW o, NEW w \in AWord, NEW made \in Nat \ {0}
  PROVE  OneWord(b, o, w, made) \in Answers
<1>1. w.key \in Nat /\ w.word \in {"+AUTOPEER", "-AUTOPEER", "+AUTOCRYPT", "-AUTOCRYPT"}
  BY DEF AWord
<1>2. /\ PlusAutopeer(b, o) \in Answers /\ MinusAutopeer(b) \in Answers
      /\ PlusAutocrypt(b, o, w.key, made) \in Answers /\ MinusAutocrypt(b) \in Answers
  <2>1. PlusAutocrypt(b, o, w.key, made) \in Answers
    <3> DEFINE k == w.key
    <3>1. k \in Nat
      BY <1>1
    <3> HIDE DEF k
    <3>2. PlusAutocrypt(b, o, k, made) \in Answers
      BY <3>1, PlusAutocryptIs
    <3> QED
      BY <3>2 DEF k
  <2> QED
    BY <2>1, PlusAutopeerIs, MinusAutocryptIs, Zenon
<1>3. CASE w.word = "+AUTOPEER"
  BY <1>2, <1>3 DEF OneWord
<1>4. CASE w.word = "-AUTOPEER"
  BY <1>2, <1>4 DEF OneWord
<1>5. CASE w.word = "+AUTOCRYPT"
  BY <1>2, <1>5 DEF OneWord
<1>6. CASE w.word = "-AUTOCRYPT"
  BY <1>2, <1>6 DEF OneWord
<1> QED
  BY <1>1, <1>3, <1>4, <1>5, <1>6

(* All the words of a request, one after the other. *)
LEMMA AllWordsIs ==
  ASSUME NEW b \in Keyed, NEW o, NEW words \in Seq(AWord), NEW made \in Nat \ {0}
  PROVE  AllWords(b, o, words, made) \in Answers
<1> DEFINE n == Len(words)
           first == [b |-> b, out |-> <<>>]
           next(e, w) == [b |-> OneWord(e.b, o, w, made).b, out |-> e.out \o OneWord(e.b, o, w, made).out]
           Is(u) == u = [i \in 0..n |-> IF i = 0 THEN first ELSE next(u[i - 1], words[i])]
           g == [i \in 1..n |-> [e \in Answers |-> next(e, words[i])]]
<1>1. n \in Nat /\ \A i \in 1..n : words[i] \in AWord
  OBVIOUS
<1>2. first \in Answers
  <2>1. <<>> \in Seq(Seq(AWord))
    OBVIOUS
  <2> QED
    BY <2>1, EffectIs
<1>3. ASSUME NEW e \in Answers, NEW w \in AWord PROVE next(e, w) \in Answers
  <2> DEFINE f == OneWord(e.b, o, w, made)
             out == e.out \o f.out
             c == f.b
  <2>1. e.b \in Keyed /\ e.out \in Seq(Seq(AWord))
    BY EffectHas
  <2>2. f \in Answers
    <3> DEFINE x == e.b
    <3>1. x \in Keyed
      BY <2>1
    <3> HIDE DEF x
    <3>2. OneWord(x, o, w, made) \in Answers
      BY <3>1, OneWordIs
    <3> QED
      BY <3>2 DEF x
  <2>3. next(e, w) = [b |-> c, out |-> out]
    OBVIOUS
  <2> HIDE DEF f
  <2>4. c \in Keyed /\ f.out \in Seq(Seq(AWord))
    BY <2>2, EffectHas
  <2>5. out \in Seq(Seq(AWord))
    BY <2>1, <2>4
  <2> HIDE DEF c, out, next
  <2>6. [b |-> c, out |-> out] \in Answers
    BY <2>4, <2>5, EffectIs
  <2> QED
    BY <2>3, <2>6
<1>4. AllWords(b, o, words, made) = (CHOOSE u : Is(u))[n]
  BY DEF AllWords
<1> HIDE DEF first, next, n
<1>5. g \in [1..n -> [Answers -> Answers]]
  BY <1>1, <1>3
<1>6. PICK f : Stepped(f, Answers, first, n, g)
  <2> HIDE DEF g
  <2> QED
    BY <1>1, <1>2, <1>5, StepByStep
<1>7. Is(f)
  <2>1. f \in [0..n -> Answers] /\ f[0] = first /\ \A i \in 1..n : f[i] = g[i][f[i - 1]]
    BY <1>6 DEF Stepped
  <2>2. ASSUME NEW i \in 0..n PROVE f[i] = IF i = 0 THEN first ELSE next(f[i - 1], words[i])
    <3>1. CASE i = 0
      BY <2>1, <3>1
    <3>2. CASE i # 0
      <4>1. i \in 1..n /\ i - 1 \in 0..n
        BY <1>1, <3>2
      <4>2. f[i - 1] \in Answers /\ f[i] = g[i][f[i - 1]]
        BY <2>1, <4>1
      <4> QED
        BY <4>1, <4>2, <3>2
    <3> QED
      BY <3>1, <3>2
  <2>3. f = [i \in 0..n |-> f[i]]
    BY <2>1
  <2> QED
    BY <2>2, <2>3
<1> DEFINE u == CHOOSE v : Is(v)
<1>8. Is(u)
  <2> HIDE DEF Is
  <2> QED
    BY <1>7
<1> HIDE DEF u
<1> DEFINE G == {i \in 0..n : u[i] \in Answers}
<1>9. ASSUME NEW i \in 0..n PROVE u[i] = IF i = 0 THEN first ELSE next(u[i - 1], words[i])
  BY <1>8
<1> HIDE DEF Is
<1>10. 0 \in G
  <2>1. 0 \in 0..n
    BY <1>1
  <2> QED
    BY <2>1, <1>2, <1>9
<1>11. ASSUME NEW i \in 0..(n - 1), i \in G PROVE i + 1 \in G
  <2> DEFINE k == i + 1
  <2>1. k \in 1..n /\ k \in 0..n /\ k # 0 /\ k - 1 = i
    BY <1>1
  <2> HIDE DEF k
  <2>2. u[k] = next(u[i], words[k])
    BY <1>9, <2>1
  <2>3. u[i] \in Answers /\ words[k] \in AWord
    BY <1>1, <1>11, <2>1
  <2>4. u[k] \in Answers
    BY <1>3, <2>2, <2>3
  <2>5. k \in G
    BY <2>1, <2>4
  <2> QED
    BY <2>5 DEF k
<1> HIDE DEF G
<1>12. \A i \in 0..n : i \in G
  BY <1>1, <1>10, <1>11, UpTo
<1>13. n \in G
  BY <1>1, <1>12
<1>14. u[n] \in Answers
  BY <1>13 DEF G
<1> QED
  BY <1>4, <1>14 DEF u

(* Mail. *)
LEMMA MailWith ==
  ASSUME NEW m \in [Ends -> Seq(Message)], NEW x, NEW s \in Seq(Message)
  PROVE  [m EXCEPT ![x] = @ \o s] \in [Ends -> Seq(Message)]
<1> DEFINE M == Seq(Message)
<1>1. \A q \in M : q \o s \in M
  OBVIOUS
<1>2. m \in [Ends -> M]
  OBVIOUS
<1> HIDE DEF M
<1>3. [m EXCEPT ![x] = @ \o s] \in [Ends -> M]
  BY <1>1, <1>2
<1> QED
  BY <1>3 DEF M

LEMMA MailLess ==
  ASSUME NEW m \in [Ends -> Seq(Message)], NEW x \in Ends, m[x] # <<>>
  PROVE  /\ [m EXCEPT ![x] = Tail(@)] \in [Ends -> Seq(Message)]
         /\ Head(m[x]) \in Message
<1>1. m[x] \in Seq(Message)
  OBVIOUS
<1>2. Tail(m[x]) \in Seq(Message) /\ Head(m[x]) \in Message
  <2> DEFINE q == m[x]
  <2>1. q \in Seq(Message) /\ q # <<>>
    BY <1>1
  <2> HIDE DEF q
  <2>2. Tail(q) \in Seq(Message) /\ Head(q) \in Message
    BY <2>1
  <2> QED
    BY <2>2 DEF q
<1> DEFINE t == Tail(m[x])
<1>3. t \in Seq(Message) /\ [m EXCEPT ![x] = Tail(@)] = [m EXCEPT ![x] = t]
  BY <1>2
<1> HIDE DEF t
<1>4. [m EXCEPT ![x] = t] \in [Ends -> Seq(Message)]
  BY <1>3
<1> QED
  BY <1>2, <1>3, <1>4

LEMMA SayKeeps ==
  ASSUME NEW e \in Ends, NEW auto \in BOOLEAN, PeersInv, Say(e, auto)
  PROVE  PeersInv'
<1> DEFINE b == peers[e]
           offers == b.listed /\ ~b.docrypt /\ option[e].autopeer /\ b.peer = 0
           key == IF b.listed /\ b.docrypt THEN b.crypt ELSE NoKey
           text == <<Text(key, auto)>>
           offer == IF offers THEN <<Request(<<Word("+AUTOPEER", NoKey)>>)>> ELSE <<>>
           s == IF auto THEN text \o offer ELSE offer \o text
<1>1. b \in Keyed /\ b.crypt \in Nat
  BY DEF PeersInv, Keyed, Blist
<1>2. peers' \in [Ends -> Keyed]
  <2>1. peers' = IF offers THEN [peers EXCEPT ![e] = [b EXCEPT !.peer = -1]] ELSE peers
    BY DEF Say
  <2>2. [b EXCEPT !.peer = -1] \in Keyed
    BY <1>1 DEF Keyed, Blist
  <2> DEFINE c == [b EXCEPT !.peer = -1]
  <2>3. c \in Keyed
    BY <2>2
  <2> HIDE DEF c
  <2>4. [peers EXCEPT ![e] = c] \in [Ends -> Keyed]
    BY <2>3 DEF PeersInv
  <2> QED
    BY <2>1, <2>4 DEF PeersInv, c
<1>3. s \in Seq(Message)
  <2>1. text \in Seq(Message)
    <3>1. key \in Nat
      BY <1>1 DEF NoKey
    <3> HIDE DEF key
    <3>2. Text(key, auto) \in Message
      BY <3>1, MessagesAre
    <3> QED
      BY <3>2, OneIs
  <2>2. offer \in Seq(Message)
    <3> DEFINE w == <<Word("+AUTOPEER", NoKey)>>
    <3>1. w \in Seq(AWord)
      BY WordsAre, OneIs DEF NoKey
    <3> HIDE DEF w
    <3>2. <<Request(w)>> \in Seq(Message)
      BY <3>1, MessagesAre, OneIs
    <3>3. <<>> \in Seq(Message)
      OBVIOUS
    <3> QED
      BY <3>2, <3>3 DEF w
  <2> HIDE DEF text, offer
  <2> QED
    BY <2>1, <2>2
<1>4. mail' = [mail EXCEPT ![Other(e)] = @ \o s]
  BY DEF Say
<1> HIDE DEF s
<1>5. mail' \in [Ends -> Seq(Message)]
  <2> DEFINE x == Other(e)
  <2> HIDE DEF x
  <2>1. [mail EXCEPT ![x] = @ \o s] \in [Ends -> Seq(Message)]
    BY <1>3, MailWith DEF PeersInv
  <2> QED
    BY <2>1, <1>4 DEF x
<1>6. UNCHANGED <<option, keys>>
  BY DEF Say
<1> QED
  BY <1>2, <1>5, <1>6 DEF PeersInv

LEMMA GotTextKeeps ==
  ASSUME NEW e \in Ends, PeersInv, GotText(e)
  PROVE  PeersInv'
<1> DEFINE m == Head(mail[e])
           b == peers[e]
           decrypts == b.listed /\ b.crypt # NoKey /\ (b.peer <= 3 \/ m.key # NoKey)
           resumed == b.docrypt \/ decrypts
           d == resumed /\ (m.auto \/ m.key # NoKey)
           l == b.listed \/ option[e].autobuddy
<1>1. mail \in [Ends -> Seq(Message)] /\ mail[e] # <<>> /\ m.what = "text" /\ UNCHANGED <<option, keys>>
  BY DEF GotText, PeersInv
<1>2. m \in Message /\ [mail EXCEPT ![e] = Tail(@)] \in [Ends -> Seq(Message)]
  BY <1>1, MailLess
<1>3. mail' \in [Ends -> Seq(Message)]
  BY <1>2 DEF GotText
<1>4. m.key \in Nat /\ m.auto \in BOOLEAN
  BY <1>1, <1>2, MessagesAre
<1>5. b \in Keyed /\ b \in Blist /\ (b.docrypt => b.crypt # NoKey)
  BY DEF PeersInv, Keyed
<1>6. d \in BOOLEAN /\ (d => b.crypt # NoKey)
  BY <1>4, <1>5 DEF Blist
<1>7. l \in BOOLEAN
  OBVIOUS
<1>8. peers' = [peers EXCEPT ![e] = [b EXCEPT !.docrypt = d, !.listed = l]]
  <2>1. peers' = [peers EXCEPT ![e].docrypt = d, ![e].listed = @ \/ option[e].autobuddy]
    BY DEF GotText
  <2>2. peers \in [Ends -> Keyed]
    BY DEF PeersInv
  <2> HIDE DEF d
  <2> QED
    BY <2>1, <2>2, <1>5 DEF Blist
<1> HIDE DEF d, l
<1>9. [b EXCEPT !.docrypt = d, !.listed = l] \in Keyed
  BY <1>5, <1>6, <1>7 DEF Keyed, Blist
<1> DEFINE c == [b EXCEPT !.docrypt = d, !.listed = l]
<1>10. c \in Keyed
  BY <1>9
<1> HIDE DEF c
<1>11. [peers EXCEPT ![e] = c] \in [Ends -> Keyed]
  BY <1>10 DEF PeersInv
<1> QED
  BY <1>1, <1>3, <1>8, <1>11 DEF PeersInv, c

LEMMA TwoMails ==
  ASSUME NEW m \in [Ends -> Seq(Message)], NEW e \in Ends, m[e] # <<>>,
         NEW x, NEW s \in Seq(Message)
  PROVE  [m EXCEPT ![e] = Tail(@), ![x] = @ \o s] \in [Ends -> Seq(Message)]
<1> DEFINE M == Seq(Message)
           t == Tail(m[e])
<1>1. m \in [Ends -> M] /\ m[e] \in M
  OBVIOUS
<1>2. t \in M
  <2> DEFINE q == m[e]
  <2>1. q \in Seq(Message) /\ q # <<>>
    BY <1>1
  <2> HIDE DEF q
  <2>2. Tail(q) \in M
    BY <2>1
  <2> QED
    BY <2>2 DEF q
<1>3. \A q \in M : q \o s \in M
  OBVIOUS
<1> DEFINE f == [m EXCEPT ![e] = Tail(@), ![x] = @ \o s]
<1>4. DOMAIN f = Ends /\ \A y \in Ends : f[y] = m[y] \/ f[y] = t \/ f[y] = m[y] \o s \/ f[y] = t \o s
  <2> HIDE DEF M
  <2> QED
    BY <1>1
<1>5. f = [y \in Ends |-> f[y]]
  BY <1>4
<1> HIDE DEF M, t
<1> HIDE DEF f
<1>6. \A y \in Ends : f[y] \in M
  BY <1>1, <1>2, <1>3, <1>4
<1>7. f \in [Ends -> M]
  BY <1>5, <1>6
<1> QED
  BY <1>7 DEF f, M

LEMMA GotAutopeerKeeps ==
  ASSUME NEW e \in Ends, PeersInv, GotAutopeer(e)
  PROVE  PeersInv'
<1> DEFINE words == Head(mail[e]).words
           takesBack == Len(words) = 1 /\ words[1].word \in {"-AUTOPEER", "-AUTOCRYPT"}
           b == peers[e]
           made == \E i \in DOMAIN words : words[i] = Word("+AUTOCRYPT", NoKey)
           answer == IF takesBack THEN <<>> ELSE << <<Word("-AUTOPEER", NoKey)>> >>
           c == [b EXCEPT !.listed = TRUE]
           effect ==
             IF b.listed \/ (~takesBack /\ option[e].autobuddy)
             THEN AllWords(c, option[e], words, keys + 1)
             ELSE [b |-> b, out |-> answer]
           s == [i \in DOMAIN effect.out |-> Request(effect.out[i])]
           t == [mail EXCEPT ![e] = Tail(@)]
<1>1. /\ mail \in [Ends -> Seq(Message)] /\ mail[e] # <<>> /\ Head(mail[e]).what = "AUTOPEER"
      /\ keys \in Nat /\ UNCHANGED option /\ b \in Keyed
  BY DEF GotAutopeer, PeersInv
<1>2. Head(mail[e]) \in Message /\ t \in [Ends -> Seq(Message)]
  BY <1>1, MailLess
<1>3. words \in Seq(AWord)
  BY <1>1, <1>2, MessagesAre
<1>4. effect \in Answers
  <2>1. c \in Keyed
    BY <1>1 DEF Keyed, Blist
  <2>2. keys + 1 \in Nat \ {0}
    BY <1>1
  <2>3. answer \in Seq(Seq(AWord))
    <3> DEFINE w == <<Word("-AUTOPEER", NoKey)>>
    <3>1. w \in Seq(AWord)
      BY WordsAre, OneIs DEF NoKey
    <3> HIDE DEF w
    <3>2. <<w>> \in Seq(Seq(AWord))
      BY <3>1, OneIs
    <3>3. <<>> \in Seq(Seq(AWord))
      OBVIOUS
    <3> QED
      BY <3>2, <3>3 DEF w
  <2> DEFINE o == option[e]
             n == keys + 1
  <2> HIDE DEF c, words, o, n, answer
  <2>4. AllWords(c, o, words, n) \in Answers
    BY <2>1, <2>2, <1>3, AllWordsIs DEF n
  <2>5. [b |-> b, out |-> answer] \in Answers
    BY <1>1, <2>3, EffectIs
  <2> QED
    BY <2>4, <2>5 DEF o, n
<1>5. /\ peers' = [peers EXCEPT ![e] = effect.b]
      /\ mail' = [mail EXCEPT ![e] = Tail(@), ![Other(e)] = @ \o s]
  BY DEF GotAutopeer
<1>6. keys' \in Nat
  <2>1. keys' = keys + 1 \/ keys' = keys
    BY DEF GotAutopeer
  <2> QED
    BY <1>1, <2>1
<1> HIDE DEF effect
<1>7. effect.b \in Keyed /\ effect.out \in Seq(Seq(AWord))
  BY <1>4, EffectHas
<1>8. peers' \in [Ends -> Keyed]
  BY <1>5, <1>7 DEF PeersInv
<1>9. s \in Seq(Message)
  <2> DEFINE q == effect.out
             Ws == Seq(AWord)
  <2>1. q \in Seq(Ws) /\ \A w \in Ws : Request(w) \in Message
    BY <1>7, MessagesAre
  <2> HIDE DEF q, Ws
  <2>2. [i \in DOMAIN q |-> Request(q[i])] \in Seq(Message)
    <3>1. DOMAIN q = 1..Len(q) /\ Len(q) \in Nat /\ \A i \in 1..Len(q) : q[i] \in Ws
      BY <2>1
    <3>2. [i \in DOMAIN q |-> Request(q[i])] \in [1..Len(q) -> Message]
      BY <2>1, <3>1
    <3> QED
      BY <3>1, <3>2
  <2> QED
    BY <2>2 DEF q
<1> DEFINE x == Other(e)
<1> HIDE DEF x, s
<1>10. mail' \in [Ends -> Seq(Message)]
  <2>1. mail' = [mail EXCEPT ![e] = Tail(@), ![x] = @ \o s]
    BY <1>5, Zenon DEF x
  <2> QED
    BY <1>1, <1>9, <2>1, TwoMails
<1> QED
  BY <1>1, <1>6, <1>8, <1>10 DEF PeersInv

LEMMA ForgetsKeeps ==
  ASSUME NEW e \in Ends, PeersInv, Delete(e) \/ Add(e) \/ SeesOtherGo(e) \/ SignsOff(e)
  PROVE  PeersInv'
<1>1. UNCHANGED <<option, keys>> /\ peers \in [Ends -> Keyed] /\ mail \in [Ends -> Seq(Message)]
  BY DEF Delete, Add, SeesOtherGo, SignsOff, PeersInv
<1>2. \E l \in BOOLEAN : peers' = [peers EXCEPT ![e] = Unknown(l)]
  <2>1. peers[e].listed \in BOOLEAN
    BY <1>1 DEF Keyed, Blist
  <2> QED
    BY <2>1 DEF Delete, Add, SeesOtherGo, SignsOff
<1>3. peers' \in [Ends -> Keyed]
  BY <1>1, <1>2, UnknownIs
<1>4. mail' \in [Ends -> Seq(Message)]
  <2> DEFINE x == Other(e)
             w == <<Word("-AUTOPEER", NoKey)>>
             M == Seq(Message)
  <2>1. CASE Delete(e)
    <3>1. w \in Seq(AWord)
      BY WordsAre, OneIs DEF NoKey
    <3> HIDE DEF w
    <3>2. Request(w) \in Message
      BY <3>1, MessagesAre
    <3> DEFINE r == Request(w)
    <3>3. r \in Message /\ (mail' = [mail EXCEPT ![x] = Append(@, r)] \/ mail' = mail)
      BY <2>1, <3>2 DEF Delete, w
    <3> HIDE DEF x, r
    <3>4. \A q \in M : Append(q, r) \in M
      BY <3>3
    <3>5. mail \in [Ends -> M]
      BY <1>1
    <3> HIDE DEF M
    <3>6. [mail EXCEPT ![x] = Append(@, r)] \in [Ends -> M]
      BY <3>4, <3>5
    <3> QED
      BY <3>3, <3>6, <1>1 DEF M
  <2>2. CASE SignsOff(e)
    <3>1. mail' = [mail EXCEPT ![e] = <<>>, ![x] = <<>>]
      BY <2>2 DEF SignsOff
    <3> DEFINE z == <<>>
    <3>2. z \in M /\ mail \in [Ends -> M] /\ mail' = [mail EXCEPT ![e] = z, ![x] = z]
      BY <1>1, <3>1
    <3> HIDE DEF z, M, x
    <3>3. mail' \in [Ends -> M]
      BY <3>2
    <3> QED
      BY <3>3 DEF M
  <2>3. CASE Add(e) \/ SeesOtherGo(e)
    BY <1>1, <2>3 DEF Add, SeesOtherGo
  <2> QED
    BY <2>1, <2>2, <2>3
<1> QED
  BY <1>1, <1>3, <1>4 DEF PeersInv

LEMMA PeersBegin == PeersInit => PeersInv
<1> SUFFICES ASSUME PeersInit PROVE PeersInv
  OBVIOUS
<1>1. peers \in [Ends -> Keyed]
  <2>1. {Unknown(TRUE), Unknown(FALSE)} \subseteq Keyed
    BY UnknownIs
  <2> DEFINE U == {Unknown(TRUE), Unknown(FALSE)}
  <2>2. peers \in [Ends -> U] /\ U \subseteq Keyed
    BY <2>1 DEF PeersInit
  <2> HIDE DEF U
  <2> QED
    BY <2>2
<1>2. option \in [Ends -> Option]
  BY AutopeerAssumption DEF PeersInit
<1>3. mail \in [Ends -> Seq(Message)] /\ keys \in Nat
  <2> DEFINE z == <<>>
             M == Seq(Message)
  <2>1. z \in M /\ mail = [e \in Ends |-> z]
    BY DEF PeersInit
  <2> HIDE DEF z, M
  <2>2. mail \in [Ends -> M]
    BY <2>1
  <2> QED
    BY <2>2 DEF M, PeersInit
<1> QED
  BY <1>1, <1>2, <1>3 DEF PeersInv

LEMMA PeersSteps == PeersInv /\ PeersNext => PeersInv'
BY SayKeeps, GotTextKeeps, GotAutopeerKeeps, ForgetsKeeps, Zenon DEF PeersNext

LEMMA PeersRest == PeersInv /\ UNCHANGED peerVars => PeersInv'
BY DEF PeersInv, peerVars

LEMMA PeersAre == PeersInv => DocryptHasKey
BY DEF PeersInv, Keyed, DocryptHasKey

-----------------------------------------------------------------------------
(* Assertions. *)

(* However subcodes, requests to encrypt, scripts and commands come, no part of naim fails
   an assertion of its own, goes on with what is freed, or calls a hook outside the chain,
   but where NoAssertionFails says so: a subcode for ":RAW" or as long as a line, a
   connection deleted by a callback of its own, the output of a command for a connection
   that is gone. *)
THEOREM PartsNeverFail == Spec => []NoAssertionFails
<1> DEFINE Inv == SubcodesInv /\ PeersInv /\ ConnectionsInv /\ HooksInv
<1>1. Init => Inv
  BY SubcodesBegin, PeersBegin, ConnectionsBegin, HooksBegin, Zenon DEF Init
<1>2. Inv /\ [Next]_partVars => Inv'
  <2> SUFFICES ASSUME Inv, [Next]_partVars PROVE Inv'
    OBVIOUS
  <2>1. SubcodesInv'
    <3>1. SubcodesNext \/ UNCHANGED subcodeVars
      BY Zenon DEF Next, OthersStay, partVars
    <3> QED
      BY <3>1, SubcodesSteps, SubcodesRest
  <2>2. PeersInv'
    <3>1. PeersNext \/ UNCHANGED peerVars
      BY Zenon DEF Next, OthersStay, partVars
    <3> QED
      BY <3>1, PeersSteps, PeersRest
  <2>3. ConnectionsInv'
    <3>1. ConnectionsNext \/ UNCHANGED connectionVars
      BY Zenon DEF Next, OthersStay, partVars
    <3> QED
      BY <3>1, ConnectionsSteps, ConnectionsRest
  <2>4. HooksInv'
    <3>1. HooksNext \/ UNCHANGED hookVars
      BY Zenon DEF Next, OthersStay, partVars
    <3> QED
      BY <3>1, HooksSteps, HooksRest
  <2> QED
    BY <2>1, <2>2, <2>3, <2>4
<1>3. Inv => NoAssertionFails
  BY SubcodesAre, PeersAre, ConnectionsAre DEF HooksInv, NoAssertionFails
<1> QED
  BY <1>1, <1>2, <1>3, PTL DEF Spec

(* The client's ring and the wrapper's list are the same connections, each once, and each
   walk of select comes once to every connection that is there throughout: whatever
   commands and scripts make and unmake on the way. *)
THEOREM ConnectionsKept == Spec => [](Registered /\ ServedOnce)
<1>1. Init => ConnectionsInv
  BY ConnectionsBegin, Zenon DEF Init
<1>2. ConnectionsInv /\ [Next]_partVars => ConnectionsInv'
  <2> SUFFICES ASSUME ConnectionsInv, [Next]_partVars PROVE ConnectionsInv'
    OBVIOUS
  <2>1. ConnectionsNext \/ UNCHANGED connectionVars
    BY Zenon DEF Next, OthersStay, partVars
  <2> QED
    BY <2>1, ConnectionsSteps, ConnectionsRest
<1> QED
  BY <1>1, <1>2, ConnectionsAre, PTL DEF Spec

-----------------------------------------------------------------------------
(* What is read is what was sent, in order, each whole and once: lines however their
   stream is cut and whatever bytes end them, subcodes for a person however many wait for
   him, FLAPs of a Lua driver's server unless naim.buffer lost a part of one; none of
   them waits for more to come, and the loss of a driver's connection is told. *)
THEOREM WhatIsSentArrives == Spec => []ArriveInOrder
<1> DEFINE Inv == LinesInv /\ SubcodesInv /\ SocketsInv
<1>1. Init => Inv
  BY LinesBegin, SubcodesBegin, SocketsBegin, Zenon DEF Init
<1>2. Inv /\ [Next]_partVars => Inv'
  <2> SUFFICES ASSUME Inv, [Next]_partVars PROVE Inv'
    OBVIOUS
  <2>1. LinesInv'
    <3>1. LinesNext \/ UNCHANGED lineVars
      BY Zenon DEF Next, OthersStay, partVars
    <3> QED
      BY <3>1, LinesSteps, LinesRest
  <2>2. SubcodesInv'
    <3>1. SubcodesNext \/ UNCHANGED subcodeVars
      BY Zenon DEF Next, OthersStay, partVars
    <3> QED
      BY <3>1, SubcodesSteps, SubcodesRest
  <2>3. SocketsInv'
    <3>1. SocketsNext \/ UNCHANGED socketVars
      BY Zenon DEF Next, OthersStay, partVars
    <3> QED
      BY <3>1, SocketsSteps, SocketsRest
  <2> QED
    BY <2>1, <2>2, <2>3
<1>3. Inv => ArriveInOrder
  BY LinesAre, SubcodesAre, SocketsAre DEF ArriveInOrder
<1> QED
  BY <1>1, <1>2, <1>3, PTL DEF Spec
=============================================================================

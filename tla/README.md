# naim, in TLA+

naim is a console chat client in C: a curses user interface, a library
(FireTalk) that puts IRC, TOC2, Lily and, through Lua, OSCAR behind one
interface, and Lua scripts on hook chains.  It is one process and one thread
around `select()`.  What makes it hard to get right is not parallelism but
re-entrancy and three layers that each keep their own copy of the same facts:

| layer | where | what it keeps |
|---|---|---|
| client | `src/`, `include/naim/naim.h` | `conn_t` (`online`), `buddylist_t`, `buddywin_t`, `chatlist_t`, `transfer_t` |
| wrapper | `libfiretalk/firetalk.c` | `firetalk_connection_t` (`connected`), buddies, rooms and members, denies, transfers, subcode queues |
| driver | `libfiretalk/irc.c`, `toc2.c`, `lily.c`, `modules/OSCAR`; `pdutil.c` for sockets | protocol state, socket, read buffer |

A command goes down through the `firetalk_` functions; an event comes up
through `firetalk_callback_` functions and the hook chains, and the client's
handler often calls down again before the callback has returned.

## Reading order

| module | what it is |
|---|---|
| `SessionNotices` | what windows and scripts are promised of one connection: the abstract specification |
| `Session`, `SessionProofs` | one IRC connection through the three layers: connect, sign-on, loss, disconnect, reconnect; and its theorems |
| `Buddies`, `BuddiesProofs` | the buddy list of one IRC connection, its two copies, presence, windows and queued messages |
| `ChatRooms`, `ChatRoomsAsked`, `ChatRoomsProofs` | the chat rooms of one IRC connection in wrapper, windows and scripts, against a server with lines under way both ways; with the history of what the user asked for; theorems |
| `Blocks`, `BlocksProofs` | the three copies of the list of people to be kept away; theorems |
| `Transfers`, `TocTalk`, `IrcReplies`, `RoomOrders`, `OscarTalk`, `RepeatedLines` | what goes on in a session that stands: file transfers, what is said over TOC2, what an IRC server answers, orders to a room, what is said over OSCAR, how a room's lines are shown |
| `LineBuffer`, `Subcodes`, `Autopeer`, `Windows`, `Connections`, `Hooks`, `Away`, `Timers`, `Commands`, `LineEditor`, `Saved`, `Markup`, `LuaSockets` | parts of wrapper, client and scripts that share no state |
| `Sublists`, `StreamsProofs`, `PartsProofs` | what remains of a ring or a queue when some of it goes; induction along a list and theorems about what is read and sent piece by piece; theorems about the other parts |
| `Toc2`, `Toc2Rooms`, `Lily`, `OscarLinks`, `OscarRoster`, `Conversions`, `ListsProofs`, `DriversProofs` | the other protocols' drivers; theorems |
| `MCBuddies`, `MCChatRooms`, `MCLive`, `MCParts`, `MCDrivers`, `MCOscarRoster` and their `.cfg` files | the instances TLC checks |

Definitions keep the source's names where TLA+ allows (`FtDisconnect` is
`firetalk_disconnect`, `Coming` is `bcoming`).  A definition whose comment begins
with *Mutant* is no part of the specification: it is a plausible bug, by which
some property has been seen to fail.

Two things recur.  A property that the code keeps only in part is stated in full with
its exceptions as named conjuncts, and the comment above it names the code each comes
from; every exception has been seen in a behaviour, and without it the property
fails.  And where only some users, networks or scripts do what makes trouble, a
constant holds what may happen (`Worlds`, `Habits`, `Manners`, `Customs`, `Whims`), and
each behaviour has one element of it, the first with nothing unusual: so that the
strongest property holds in the ordinary world, and the exceptions are about the
others.

## Inventory

The components, their state, their operations, and what makes each correct.

1. **Session** (`Session`).  State: `conn_t.online`,
   `firetalk_connection_t.connected`, `irc_conn_t.sock` and `.buffer`, TLS context.
   Operations: `/connect`, `/disconnect`, `$autoreconnect`, the minute timer, the
   socket's poll, the sign-on and data loops, the callbacks doinit, connected,
   connectfailed, disconnect.  Hard: reconnecting from inside the callback of the
   loss, sends and connects that fail half way, unread input of a dead session.
   Correct if the layers agree, every loss is noticed, what the user closed stays
   closed, nothing of one session reaches the next, nothing goes out unencrypted
   under `?tls`.
2. **Buddy list, presence, buddy windows** (`Buddies`; partly).  State: the two
   lists, `online`/`offline`, groups, windows with `keepafterso`, `waiting`,
   `closetime` and the queued messages.  Operations: `/addbuddy`, `/delbuddy`,
   `/open`, `/close`, `/closeall`, typing, `/msg`; JOIN, PART, QUIT, NICK, 353, 401,
   PRIVMSG; `events_winlistmaint`.  Hard: `bgoing` removes the buddy whose event is
   being delivered.  Correct if the lists agree, no assertion fails and nothing freed
   is used, permanent buddies and queued or unread messages are not lost.
3. **Chat rooms** (`ChatRooms`, `RoomOrders`; partly).  State: `firetalk_room_t` with
   its members and `admin`, `chatlist_t.offline`, `.isoper` and `.key`, the chat windows,
   `conn.groups` of `lua/default.lua`, and from the members who is online.  Operations:
   `/join`, `/close` (`/part`), `/op`, `/deop`, `/kick`, `/topic`, `/invite`, joins after a
   sign-on, JOIN, 353, 366, PART, KICK, QUIT, NICK, MODE, TOPIC, PRIVMSG and refusals.
   Hard: lines about a room are still to be read when it is closed, joined again or lost,
   and some make the client join by itself.  Correct if the three copies agree with each
   other and, when all is read, with the server, no assertion fails, a room the user left
   is not joined again, and an order is carried out or refused aloud.
4. **File transfers** (`Transfers`).  `firetalk_transfer_t`, its socket and state, the
   client's `transfer_t` and window.  Offer, accept, refuse, cancel, send, receive.
   Hard: descriptor without socket state, blocking acknowledgements, a handle freed
   under its window.  Correct if every transfer ends and no freed handle is used.
5. **Subcode queues** (`Subcodes`).  `firetalk_queue_t` of CTCP requests and replies,
   drained into outgoing messages or by `firetalk_select_custom`.  Correct if all that is
   queued is sent once, in order, in its session, and the drain ends.
6. **Read buffers** (`LineBuffer`; `LuaSockets` for drivers in Lua).
   `firetalk_buffer_t`, `firetalk_sock_read`, `irc_recv_parse`, `naim.buffer`.  Correct
   if the lines (FLAPs) handed on are the stream's.
7. **AUTOPEER / AUTOCRYPT** (`Autopeer`).  `buddylist_t.peer`, `.docrypt`, `.crypt` at two
   ends.  Correct if a message is decrypted with the key it was encrypted with.
8. **Hook chains and timers** (`Hooks`, `Timers`).  `chain_t`, and the scripts' table of
   timers, changed while they are gone through.  Correct if each hook that stays is
   called once, in the order of the weights, and each timer when it is due.
9. **Away, idle, automatic replies** (`Away`).  `awaytime`, `idletime`, `informed`,
   `lastauto`, and TOC2's copies.  Correct if servers and people are told the truth, and
   in measure.
10. **Window and connection rings** (`Windows`, `Connections`).  `curconn`, `curbwin`, the
    `next` pointers, `conn_head` and its `deleted` marks.  Hard: callbacks that change what
    `firetalk_select_custom` walks over; events between the user's keys.  Correct if what is
    typed goes where the user left off, and every connection is served.
11. **Block list** (`Blocks`).  `idiotar`, `deny_head`, the server's list.  Correct if one
    who is blocked is not heard and one who no longer is, is.
12. **IRC's answers, modes, notices** (`IrcReplies`; partly) and **texts between
    protocols** (`Conversions`).  The questions of `/whois`, `chanmodes`, flags of a
    connection's name; HTML to and from control characters and marks.
13. **Chat lines that are repeated** (`RepeatedLines`).  `e.chat->last`.  Correct if all
    that is said is shown or counted, and to whom.
14. **TOC2, Lily, OSCAR drivers** (`Toc2`, `Toc2Rooms`, `TocTalk`; `Lily`; `OscarLinks`,
    `OscarRoster`, `OscarTalk`; partly).  Other sign-ons, TOC2's batches and rooms by
    number, Lily's blocks and static variables, OSCAR's connections, waiting SNACs and
    numbered items.  Correct if sessions, lists, rooms and presence are the server's once
    nothing is under way.
15. **Commands and aliases** (`Commands`), **line editor** (`LineEditor`), **/save and
    .naimrc** (`Saved`), **drawing of texts** (`Markup`): each partly.  Sequential, with
    state that is easy to leave half changed.
16. **Not modelled**: log files, digests, name comparison and text helpers, vendored
    code, test programs; see the end.

## How it is put together

`Session` is checked by itself (`MCSession_hostile.cfg` and its like) where everything may fail, and the modules
for what goes on in a session beside it in `MCLive`.  Parts that share no variable are
not multiplied with each other: in `MCLive`, `MCParts` and `MCDrivers` a constant variable
(`live`, `part`, `driver`) says which of them runs, and the others stay as they begin,
so that the states are the sum of theirs and not the product.  Nothing is lost by it, for
no action of one reads what another changes.  Where two components do touch, the one
that is not the subject is reduced inside the module to what it can do to the other: of
`Session`, `ChatRooms` and `Blocks` keep whether it is up, `Buddies` keeps of a room
whether somebody is in it, `ChatRooms` keeps of a buddy whether he is online.

A run has the properties of all its parts, those of one kind as one: `WrapperKeeps`,
`ArriveInOrder`, `InTheUsersHands` and the others are conjunctions (of action formulas,
under one box), each of whose parts is defined, explained and checked in the module it
is about.  The comment above it names them.

## Session

`conn` is a record with a field for each thing a layer keeps, and the operators on it
are the functions of the code, composed as the code calls them: `CallbackDisconnect`
calls `FireioDisconnected`, which may call `UaConnect`, `FtSignon`, `SockConnect`, and
afterwards sets `connected` as the callback does.  Commands and timer act when the
program is in `select()` (`pc = "select"`); a read puts whole lines in the buffer and
sets `pc` to the loop that drains it; then each line is a step, because a line may
end the session under the loop.  The network is a choice of outcomes (`SendOutcome`,
`ConnectOutcome`) and the action `PeerLost`.  `Valid` is the assertion
`firetalk_sock_t_valid` that every routine of the socket begins with: beyond it the
process is dead, so no action is enabled.

Abstractions: lines are counted, not spelled; a kind of line is an action.  `roster`
stands for all the rooms and presence the wrapper holds.  `MaxPending` bounds the
whole lines in the buffer.  Three is enough for a line to be handled in each of the
states that the two before it can leave.

Runs:

- `session_reliable` (in `MCLive`): sends do not fail, `connect()` fails only later, the server
  refuses before its MOTD ends, ends it once and asks no PING whose answer is too long to be
  sent (`Orderly`; `irc.c:626`, `:895`).  The layers agree
  (`LayersAgree`), the socket stays valid (`SockValid`), no second notice of
  connecting arrives, `/disconnect` ends the session in all layers and leaves nothing
  behind, every loss is noticed (`LossNoticed`), and the whole implements
  `SessionNotices` (`NoticesSpec`).
- `session_hostile`: everything may fail, over TLS, with a server that refuses at any
  time.  What is left: `ActiveImpliesOnline`, `SignonUnderTls` and
  `LostOnlyFromOnline`.
- `session_stale`: `FreshConnection` fails.  After a 433 the client signs on again from
  inside the callback, and the unread rest of the refused sign-on is parsed as the new
  connection's: `irc_connect` resets neither the buffer nor the TLS context.
- `session_zombie`: `LossNoticed` fails when sends do: `irc_send_printf` drops the
  result of the send that closed the socket.

Fairness: weak fairness of the read loops (they run to their end within one call) and
of the report of a lost peer (`select()` goes on reporting it, and `main` goes on
calling `firetalk_select`).  None for the user, the peer or the timer.

CHECK_DEADLOCK is FALSE where an assertion of the socket may end the program.

Seen in the model and not kept as runs of their own: `/disconnect` of an attempt that
is under way does nothing (`ua_disconnect` looks at `online` only); with a server that
refuses after its MOTD, the scripts can miss a disconnection; a `connect()` that fails
at once, or a sign-on line that cannot be sent, leaves descriptor and state apart and
the next use of the socket fails its assertion; over TLS an end of stream reads as no
data yet, so that it goes unnoticed (the reliable run is without TLS).

## Buddies

Every routine of the buddy list finds what it works on by name, so all that is kept
under one name is one record of `b` (absent parts and all), and a routine is an
operator from that record to the one it leaves.  The calls nest as in the code:
`Remove` has the driver report the buddy gone (`Goes`), the client's `bgoing` (`Going`)
may close the window and call down to remove the buddy (`Delete`), and the outer
removal then finds nothing left.  The recursion ends there, since the wrapper has
marked the buddy offline before it calls: so it is unrolled.  `fault` records a failed
assertion of the code, or a write to a buddy already freed; then nothing more happens.

A session is up or not (`Session` has the rest).  `room` is `firetalk_user_visible`, the
member lists reduced to whether the name is in one.  Closing times are reduced to
whether one is set: the timer may find any of those set to be due, which covers every
length.  The settings change at any time.

Constants: `OtherWindow` says that the connection has a window that is not a buddy's.
Without any window `bgoing` returns at once and the client goes on showing the buddy
online (`ListsAgree` then fails; ChangeLog:407 tells of the same omission at
disconnection), so the passing run sets it.  `Regroup` allows `/addbuddy` of a buddy in
the other kind of group, which the run `buddies_regroup` is about.  A nick change onto a
name that is in the list is left out: it would make two buddies of one name.

Runs: two names (a nick change needs two, and two windows), two messages queued (so
that sending one is not sending all).

- `buddies_list`: `NoFault`, `ListsAgree`, `VisibleIsOnline`, `QueuedOnlyForAbsent`,
  `PermanentStays`, `KeptThroughEvents`, `TimerSpares`.
- `buddies_unread`: a message that comes for a window already set to close does not
  put it off; ChangeLog:338 says unread messages do.
- `buddies_regroup`: `/addbuddy` of an online temporary buddy with a window not yet
  used: the driver's removal is a sign-off, which removes the buddy altogether, and
  `firetalk_im_replace_buddy` goes on with the freed record.

No liveness is claimed: nothing in the list waits for anything but the timer.

## ChatRooms

`client` is all that this side keeps of the rooms, in one record, and an operator on it
is a function of the code: a callback of the wrapper (`ChatJoined` is
`firetalk_callback_chat_joined`) changes `rooms`, then calls the client's handler
(`Kicked` is `fireio_chat_kicked`), which changes `windows` and may send, and then the
scripts' (`ScriptLeft`), in the order of the hook chain.  An action that ends in `Line`
reads one line of `down`, as `irc_got_data_parse` does; commands only add to
`client.out`.  `fault` is the assertion of `irc_disc_rem`, which would end the program;
`complaint` a failed assertion of `default.lua`, which ends the hook it is in.

The server is external, and modelled as the driver takes it to be: it keeps `server`,
and tells us in order of what happens in the rooms that we are in.  It may refuse a
JOIN, kick us at any time, and give or take our operator status; the answer to a JOIN
(the JOIN, all names in one 353, the 366) is sent at once.  A session may be lost at any
time, with all that is under way.

Names are abstract; a buddy is whoever is seen.  Of `Buddies` only `online` is kept, and
of `Session` only `up`; that `SignOn` and `SignOff` are atomic is what `Session` shows of
the callbacks.  In one line several members may change: since the code goes through them
one by one, with the same test for each, an operator changes them together.

Bounds: two rooms (to leave one and be seen in the other), one other person at a time,
with two names (for NICK), two lines to the server (a PART behind a JOIN) and three from
it, which is one whole answer to a JOIN.  A line that makes the client send is read only
if there is room for what it sends.

Runs:

- `rooms_agree`: `RoomAssertionsHold`, that is no assertion of driver or scripts fails
  (`NoFault`, `ScriptsAgree`); `RoomsEndUpRight`: the wrapper's rooms are the server's when
  all is read (`ReadAgrees`), the windows' when nothing is under way (`QuietWindows`), and
  nobody is online who is not in sight (`OnlineIsVisible`); and `VisibleIsOnline`.
- `rooms_left`: `LeftForGood` fails.  `/close` deletes the window and sends PART; a line
  read before its echo makes the window again, as `cgetwin` makes one for whatever is
  said, joined or kicked, and `fireio_chat_left` then takes the PART for someone else's
  doing and joins again, and so does `fireio_chat_kicked` without any window.
  `ChatRoomsAsked` has a session that is not lost, so that nothing else is to blame.  With
  both bounds on lines reached that run may stop: CHECK_DEADLOCK is FALSE.

Not claimed: liveness, since the server may refuse for ever.  A window's `isoper`, topic and
key are in `RoomOrders`.

## In a session that stands: MCLive

The run `session_reliable` has, beside `Session`, seven modules whose properties are
`WrapperKeeps` and `ReceiveEnds`.

**Transfers** (`WrapperKeeps`: `TransferHasWindow`, `EndIsTold`, `NoTransferFault`).  A
transfer is a record at an address; a window's handle and the transfer's pointer to
its `transfer_t` are such addresses, and either side may be freed first.  `stuck` is the
sender's blocking wait for the last acknowledgements, which stops everything else.  Two
addresses, two files, two parts of a file: enough for a new transfer at the address of
one that is gone, and for one to be under way while another waits.  `ReceiveEnds` is
liveness: once the far end has closed, a transfer that receives is over after a while.
Its fairness (`TransfersFairness`) is that a socket that can be read is seen by a round of
the main loop, which `select()` and `main` justify; the far end and the user have none.
Worlds: careless users, failing sockets, addresses used again, files that change, each by
itself.  Seen beside the properties: a `connect()` of a transfer that fails leads to a
cancelled transfer with a descriptor and no state, and the assertion of
`firetalk-int.h:229` fails; the sender goes round for ever at `firetalk.c:1211` when the
far end has closed; `/accept` twice or of one's own offer, and `/close` before progress
was shown, leave dangling pointers; a stale handle may cancel another transfer at the
same address (`buddy.c:663`).

**Blocks** (`BlockedStays`, `IgnoredStays`, `HeardAgain`).  Three lists of one connection to
each of three kinds of networks.  `wish` is the last word on each person, the user's or,
for a stored list, another client's.  Two people, batches of two.  `HeardAgain` excuses the
/unblocks of `OutOfReach`, which is said of the lists as they are before, not by what becomes of
them: one that should have removed an entry and does not is no excuse.  Seen: `/unblock`
without a session removes the client's entry only (`commands.c:1411`); it overtakes an
addition that waits in TOC2's batch (`toc2.c:907`); SILENCE is not sent again after a
reconnection; what a blocked person says is dropped in private only.

**TocTalk** (`TalkSeen`, `TalkFits`, `PresenceAgrees`, `ProfileTold`, `StatusTold`,
`PrivacyAgrees`, `NoTalkFault`).  A text grows symbol by symbol, so that the properties
say of every text what its reader makes of it.  Texts of four symbols of those that are
quoted, replaced or taken for something, a command of nine cells, a room's line of five,
two frames under way.  Seen: without a room `toc_quote` returns NULL, of which
`toc_send_printf` takes the length (`toc2.c:1005`); subcodes have left their queue when the
send is refused (`toc2.c:940`); what ends with a percent sign as an automatic message
loses it; words before `>/me ` are dropped; the text of a status is told as nothing or as
what another element left in a static array, and its assertions fail after an offer of a
file (`toc2.c:1797`); an away message that begins with a letter that is not Latin is
misread.

**IrcReplies** (`WhoisTold`, `WhoisEnds`, `RawLinesShown`, `ModesTold`, `NoticeHeard`,
`OptionsKept`).  Two connections that share the static `inwhois` of `irc.c:888`, with the
names `[`, which is there, and `]`, which is not and which `irc_tolower` takes for the same
(`irc.c:40`).  Two questions under way, five lines; one asks again only while no more
than one line has come; one session is lost with questions open.  Three networks, three
letters of modes; a notice of six characters.  Seen: an answer that ends on one
connection cuts the other's in two, and after a session was lost in the middle of one,
lines that nobody handles are swallowed on every connection; a network that sends no
005 is read by the modes of the one before (`irc.c:1410`); a MODE line without an argument,
as of `+i`, tells nothing and is a line nobody handles (`irc.c:1155`); `?tls` and `?sasl` in a server's
name are never taken back.

**RoomOrders** (`RoomShown`, `OrderAnswered`, `BackInTheRoom`).  One room, oneself and one
other; two commands and three lines under way; another changes something only when
nothing is, which is when a change is not overtaken anyway.  Seen: 441, 443 and 401 for an
order tell nothing (`irc.c:1105`); the rejoin after a kick sends no key although the window
has it (`fireio.c:861`); a mark of operator, a topic taken away and a key changed outlive
an absence.

**OscarTalk** (`ErrorTold`, `SessionOutlives`, `TextArrives`, `NewsShown`, `InfoTold`,
`SelfShown`, `CommandTold`).  Six themes, from messages and their errors to what the
wrapper makes of a driver in Lua that lacks a function.  Four request numbers of which
two are remembered (65536 and 16); no server answers so late that the numbers have come
round.  Texts of two symbols, and one of four that has `/me` within; the driver keeps
nothing from one text, or one answer about a person, to the next, so that a behaviour
has one.  Seen: two errors name a firetalk error that does not exist, and end the session
(`init.lua:416`), as does a message without a text (`init.lua:945`); an away message of two
letters is read as minutes of idleness; one who is away and comes back while the links
are being made may stay away for the server, as what waits for a link has no order; a
person's title and flags outlive his sign-off.

**RepeatedLines** (`SaidShown`, `NameUnderstood`).  Two speakers, names to which lines are
addressed of which one begins as another does (`bob`, `bobby`), three lines, and
interruptions.  Seen: an action loses the addressee's name without a sign in its place;
`bobby:` after a line of bob's is shown as addressed to bob.

## Parts without shared state: MCParts

The run `parts`; each behaviour is one of one part.

**LineBuffer** (`ArriveInOrder`: `LinesOfStream`, `NoLineWaits`).  Every stream of six bytes
over the five that matter, cut into reads in every way, with a buffer of four: a line
longer than the buffer, a line as long, a CR and LF apart, a NUL in between.
**LuaSockets** (`FlapsInOrder`, `NoFlapWaits`, `LossIsTold`) is the same for `naim.buffer`
and OSCAR's FLAPs of two or three cells, in a buffer of five, four of them sent, and has
the life of the driver's socket.  Seen: `take` moves `size - pos` bytes (`buffer.c:66`), so
that a FLAP that comes with the beginning of the next may be dispatched twice; a send that
fails closes the socket, and nobody is told; a `connect()` that fails at once leaves a
descriptor that the next use asserts against.

**Subcodes** (`SubcodesInOrder`, `NoStaleSubcode`, and `DrainGoesOn` in
`NoAssertionFails`).  Lengths in units, lines of three; two subcodes over two sessions,
so that one may be left of the session before.  Seen: one that fits no line, or is for
`:RAW`, is not taken off, and the assertion of `firetalk.c:2014` fails.

**Autopeer** (`PeersUnderstand`: `ShownAsTyped`, `KeysAgree`; `DocryptHasKey`).  Two ends with
every combination of settings that matters, two keys, two messages under way each way,
one lapse (a deleted buddy, a sign-off).  Seen: two ends that begin together never
encrypt; after a lapse texts may be unreadable for good.

**Windows** (`RingsKept`: `RingsInOrder`, `JumpFindsWaiting`; `InTheUsersHands`:
`WindowsStep`).  A ring is a sequence with what is in front at its head.  Two connections;
one with two kinds of windows and of names in common, which is what `/closeall` stumbles
on; sorting by name and by group.  **Connections** (`Registered`, `ServedOnce`,
`FreedOnlyByItself`, `ListsSurviveExit`) has three labels, two `/newconn` or `/delconn` in a
round from within any callback, and an `/exec` whose output is to come.  Seen: the
question for a password brings another connection to the front with a half-typed line
(`firebind.c:503`); the output of `/exec` goes to a `conn_t` that may be freed
(`commands.c:2182`); a connection deleted in a callback of its own has its driver go on with
a freed handle; `/delconn` of a connection that is up empties the service's buddy list.

**Hooks** (`ScriptsCalled`: `CalledOnce`, `HooksKeepTheirs`, `MessageAsReturned`;
`HitsInside`).  Three functions, one of another weight.  Seen: a change at or before the
running index skips a hook or calls it again; the last hook that deletes itself has a hit
counted behind the array; a handle used twice frees another function's number; a script
that cuts a message's end leaves the old end in the string.

**Timers** (`OnceEach`, `IntervalsSpaced`, `NotSleptPast`, joined in `TimersStep`).  Two
timers, delays of 0 and 1, a wait of 2, three ticks.  Seen: one that is due or overdue
when the wait begins waits for a whole one; a timer cleared in the pass that calls it
fires all the same.

**Away** (`AwayIsTold`: `AwayAsShown`, `ProfileOfTheAway`, `AnswersPaced`,
`TimerSparesTheActive`).  A minute has two ticks, ten minutes are three, the clock goes to
six: long enough for `$autoaway`, an answer, a second one and coming back.  Seen:
`awaytime` begins at -1, which `$beeponim` takes for being away; a TOC2 connection that is
down when one comes back tells the old message later.

**Commands** (`ParmsOfTheAlias`, `NullWhereNotFront`).  Two connections, two arguments,
aliases three deep, and an alias of a command's own name.  Seen: an alias that calls an
alias loses its arguments; `$args1*`, of which ChangeLog:135 tells, is not replaced;
`/other:say` where the other has no window follows a null pointer.

**LineEditor** (`EditorStep`: `Recalls`, `CursorStays`, `HistoryKept`, `RecallsAsAsked`,
`EditsAtCursor`).  A buffer of five, four keys pressed from every cursor in three lines
already typed, with and without a history.  Seen: recalling again after typing into a
recalled line puts the cursor behind the text; a tag near the end is refused by the wrong
position (`conio.c:717`).

**Saved** (`SavedStep`: `SaveRestores`, `LoadChangesNothing`).  Two connections, two lines
typed of each kind that changes something kept, one file, and a fresh client that reads
it.  Seen: a blocked name with a blank is written without quotes (`commands.c:558`), an away
message with quotes loses them, whether a connection is brought up is asked of the one
that `/save` was typed in (`commands.c:682`).

**Markup** (`MarkupRight`: `LooksRestored`, `TextKept`).  Eight scenes of tags, entities, bare
ampersands and words, in widths from 5 to 20, with a stack of two.  Seen: one nested
element too many writes behind the stack, one closed that was never opened restores a
slot that was never set or the one before the stack, and a literal `&` at a text's end is
taken back.

Deadlock is not checked in these runs: streams end, bounds are reached, and a failed
assertion ends a part.

## The other drivers: MCDrivers

The run `drivers`.  As in `Session` an operator is a function of the driver, from the
connection to the one it leaves, and a frame or line of the server is one step.

**Toc2** (`TocLayersAgree`, `ListsAgree`).  One buddy in any of two groups, two frames under
way; the wrapper's `uploaded`, the driver's batch, and the server's list, which another
client changes too; a server may greet with another version (`toc2.c:2226`).  Seen: `firetalk_im_add_buddy` marks as uploaded what
`toc_im_add_buddy` drops before the list has come (`toc2.c:859`); `/delbuddy` overtakes an
addition in the batch (`toc2.c:533`); PAUSE takes a session back to the sign-on; a failed
send closes the socket in silence.
**Toc2Rooms** (`NoRoomFault`, `RoomsAgree`, `JoinAsksForRoom`).  Two rooms, two numbers, three
entries of the list that is never shortened.  Seen: an invitation is accepted at every
later join, and a second CHAT_JOIN fails an assertion; an invitation read between the answer to a
join and the next request leaves a newer entry of the name, by which the room is then
spoken to with a number that is another's.  `RoomsAgree` is for rooms nobody is invited
to: that last case takes four numbers and five entries, more than the run has.

**Lily** (`NoLilyFault`; `LilyAgrees`: `InfoIsHis`, `LilyPresence`, `LilyRooms`).  Two people, a discussion,
three lines and two commands under way.  Seen: what the static variables hold of an answer
that was cut off is told of the next person; one detached is away to who was there and
offline to who signs on; a synchronization does not change who is known already;
depermitting two at once follows a null pointer.

**OscarLinks** (`OscarLayersAgree`, `PendingIsServed`, `ServedInOrder`, `NoPanic`).  Two
services, three connections, three SNACs.  Seen: a service's connection that is lost before
it is ready leaves its family asked for; SNACs that wait together go in any order; a loss
that reconnects has the rest of the old `postselect` kill the new attempt.
**OscarRoster** (`OscarListsAgree`, `NoRosterFault`).  Two buddies, two groups, two numbers
of each.  The run `oscar_added`, with the whim that buddies are added to a group that has
one: `AddedIsStored` fails, since the number made up is taken, the server refuses, and the
client has said "added" (`commands.c:240`).  The other whims (`refills`, `early`, `races`,
`elsewhere`) were explored and each breaks `OscarListsAgree` or `NoRosterFault`; they are
among the exceptions of these and not part of the run.

**Conversions** (`IrcSeenAsWritten`, `LilySeenAsWritten`, `LilyTagsClosed`, `ConversionsFit`,
`ArgsKept`): every text of four symbols of each alphabet, turned and read.

Bounds: two of whatever may be taken for another (people, rooms, numbers, groups), and as
many lines or frames under way as let one come behind the one that changes what it is
about.  The run has 1.9 million states.

## Fairness

Stated in two places only.  `Session`: the read loops run to their end and a lost peer is
reported.  `Transfers`: a socket that can be read is polled.  Both are the main loop: one
thread that calls `select()` for ever and handles every descriptor that is set; a
behaviour in which the program hangs in a blocking call (`stuck`) or has failed an
assertion is excluded by the property itself, not by fairness.  Nothing else is claimed
to happen in the end, because nothing else depends on this program alone.

## Proofs

`SessionProofs` proves, for every value of the constants (`MaxPending` included):

- `TypeCorrect`: `Spec => []TypeOK`.
- `ActiveIsOnline`: whatever fails, `connected = "ACTIVE"` implies `online > 0`.
- `LayersAlwaysAgree`, `SockAlwaysValid`: under `~SendsFail`, `~ConnectFailsAtOnce` and
  `Orderly`, by one inductive invariant.  `LayersAgree` alone is not inductive: within a
  read the wrapper may have started a new attempt from inside the callback that ended
  the old session, so the invariant also says which states of wrapper and socket
  go together while a loop is running, and what the scripts have been told.
- `NoticesKept`: under the same assumptions every step of `Session` is a step of
  `SessionNotices` or a stutter.
- `ConnectedOnce`, `DisconnectClears`: under the same assumptions `OneConnectedNotice` and
  `DisconnectEndsSession`, from the same invariant: that `fireio_connected` finds `online`
  clear rests on what the loops know of the layers while they run, and that `/disconnect`
  leaves nothing on the wrapper's cleaning up below the client's state.
- `LossesAreReal`: `LostOnlyFromOnline`, whatever fails.  The one call that tells of a loss
  is made where the wrapper had the session up, and by `ActiveIsOnline` the client had, too.
- `NothingInTheClear`: `SignonUnderTls`, whatever fails.  Not inductive: that a descriptor
  in use has a context has to hold from the handshake on, through the states in which the
  reading loops are, and that a context is never left to a descriptor without TLS
  (`TlsHeld`, with `Shielded` for the connection by itself).

`BuddiesProofs` proves, for any set of names and any `MaxQueued`:

- `BuddiesTypeCorrect`: `Spec => []TypeOK`, without further assumption.
- `NothingFails`, `ListsAlwaysAgree`, `SeenAreOnline`, `QueuesAreForAbsent`: `NoFault`,
  `ListsAgree`, `VisibleIsOnline` and `QueuedOnlyForAbsent`, under `Calm`, that is
  `OtherWindow` and `~Regroup`.  Both are needed: without another window `bgoing`
  returns before it marks the buddy offline, and `/addbuddy` into another group is the
  finding of `buddies_regroup`.
- `PermanentBuddiesStay`: `PermanentStays`, under `Calm`.
- `TimerSparesThem`: `TimerSpares`, without further assumption: the timer's part is a
  function of the record of each name.
- `WindowsOutliveEvents`: `KeptThroughEvents`, under `Calm`: of each call the server's
  lines make, that it leaves a kept window and its queue, or, for a nick, takes them along.

One inductive invariant, `Sound`, serves them but for `TimerSparesThem`: `Sane` says of each name that nothing
has failed, that the copies agree, that there is a window, or a queue, only for a buddy
of the list, and that nobody is online or in a room without a session; `Seen`, that who is in a
room is online.  None of the theorems' properties is inductive by itself: that the
copies agree after a removal rests on the window's having been closed by it, and the
window on the copies' agreeing, since the wrapper's removal closes it.  `Sane` holds
even between the calls of one handler, which is what makes a lemma for each operator
possible; `Seen` only between steps.

The proofs have a lemma for each operator of the chain of calls (what it preserves, for
a record of the right type), and then a step for each action.

`ChatRoomsProofs` proves, for any finite set of rooms, any users and any bounds:

- `RoomsTypeCorrect`: `Spec => []TypeOK`.
- `SeenInRoomsAreOnline`: `VisibleIsOnline`.  The inductive invariant `Sound` adds that a
  room which is not known has no members: a departure is told of known rooms only, while
  the driver takes the buddy offline for any.  The argument uses nothing of the server:
  it holds for any lines in any order.

It proves too, under the same assumption, what does depend on the server:

- `RoomsNeverFail`: `RoomAssertionsHold`, no assertion of the driver or of the scripts
  fails, and the scripts' groups are the wrapper's rooms.
- `RoomsMeetTheServer`: `RoomsEndUpRight`.

Neither is inductive: between the sending of a line and its reading the two ends differ.
The invariant `RoomsInv` says that they differ by the lines under way only: a *view* is
what has been told of the rooms (known, synched, operator, members), `After(v, m)` is the
view once `m` has been read, `Fits(v, m)` that a server would send `m` to one who has been
told `v`, and there is a history of views, one for each line under way, from `ViewOf(client)`
to `ViewAt(server)`.  A line sent makes the history longer at its end (`LinkTell`), a line
read makes it shorter at its beginning (`LinkRead`); so that each handler
has to be compared with `After` only for a line that fits (`LineReads`), and each of the
server's actions only with the view at the end.  `Bound` adds what the windows need: an
online window belongs to a room that is synched, and a room that is
synched without one is being left, by our PART under way or its echo.  The invariant was
checked by TLC, within the bounds of `MCChatRooms_agree`, before it was proved.

`BlocksProofs` proves, for any finite set of people, any kind of network and a batch of any
length, `BlocksLast`, `IgnoredLast` and `OthersAreHeard`: `BlockedStays`, `IgnoredStays` and
`HeardAgain`, the parts of `WrapperKeeps` that `Blocks` states, of `BlocksSpec`, the module
by itself.  They speak of what is shown, which
is not inductive; `Kept` says for each person, by what the user wishes of him, which of
the three lists and of the batch he must and must not be on, between sessions too.
The batch is the one place where the set of people has to be finite
(`BlocksAssumption`): the list that comes from the server is answered with a sequence of
all who are missing from it, and that it has them all is the lemma `SetToSeqIsAll`.

`PartsProofs` proves theorems of `MCParts`' `Spec`, for every value of the constants of the
parts they are about (any people, functions, labels, texts and limits, as the modules'
assumptions have them):

- `AwayAlwaysTold`: `AwayIsTold`.  That the profile and the server's flag are what the user
  has chosen is inductive once it is known that a server shows nothing before one is
  signed on; that answers are paced, that an answer is noted before it may be sent; and
  that `awaytime` is reached at a full minute, that the minutes counted are those that
  have begun since one acted (`IdleIsCounted`), which is arithmetic (`NextMinute`,
  `MinutesBetween`).
- `ScriptsAlwaysCalled`: `ScriptsCalled`.  For hooks: the chain is ordered by weight and has
  a function once (`ChainOrdered`), a function is in the scripts' table under the number
  that its hook has (`NumbersTheirs`), and, while nothing has moved under it, a call has
  called the chain up to its index (`CallFollows`).  For timers: a timeout that is set, or
  that the copy of the table under way has, was not called (`Due`), and what `preselect`
  found holds while `select()` waits (`WaitIsRight`).
- `PartsNeverFail`: `NoAssertionFails`, by an invariant of each of four parts.  A queue that
  is being drained shrinks with every line (`DrainMoves`): its first subcode fits a line,
  unless it is for `:RAW` or as long as a line, the cases of the property.  Nobody is
  marked as encrypting without a key (`Keyed`), which has to hold after each word of a
  request, so that the proof goes along the words (`AllWordsIs`).  A walk that is inside a
  driver has its connection in the list (`WalkPlaced`), and what is deleted meanwhile was
  deleted in a callback of that driver's, or is not freed before the walk is over
  (`DeletedInside`).  A call's index stays inside the chain unless something moved.
- `ConnectionsKept`: `Registered` and `ServedOnce`, what `RingsKept` says of connections.  The
  client's ring has what is alive in the wrapper's list, each once (`RingMirrored`); what
  lies ahead of a walk has not been served, and what was there when it began lies ahead, has
  been served or was deleted (`AheadUnserved`).

- `WhatIsSentArrives`: `ArriveInOrder`, for buffers of any size, streams cut anywhere and any
  number of subcodes, by an invariant of each of the three parts, in `StreamsProofs`.

`StreamsProofs` proves these three of the parts by themselves:

- `LinesInv`: what is in the buffer is what is left of the stream when the lines handed on
  are taken away, and has no end of line in it, unless it ran over.  `GotData` is a
  loop, here a recursive function of the rounds; that it ends (`GotDataHas`) is
  that each round leaves fewer bytes.  `CommandLinesSeq` says how the lines of a stream cut in
  two follow from those of its pieces, if the first ends with a line.
- `SubcodesInv`: the numbers of the subcodes rise in each queue and in each line
  (`QueuesRise`, `LinesRise`) and from line to line (`LinesOrder`), what was sent comes before
  what waits (`LinesBefore`), and what is neither sent nor queued was dropped with its
  session (`NoneMissing`).  No one of them is inductive without the others: a line takes
  some of a queue and leaves the rest in its place.
- `SocketsInv`: what is in the driver's buffer followed by what is under way runs, cell by
  cell, from the last FLAP taken (`InOrder`) to the end of the last sent (`Unbroken`), as long
  as no `take` fell short; after `NewData` the buffer begins with no whole FLAP (`Finished`,
  by which `NoneWaits`), since each round has fewer cells than the one before.

`StreamsProofs` begins with the induction that both modules need.  The library's induction theorems take an
operator as a parameter, which the provers do not instantiate; but that a set of
numbers has a least element follows from its finiteness (`LeastOf`), and from that, that a set that
has 0 and with each number the next has them all (`UpTo`), which is applied to a set defined
by the fact to be shown (`StepByStep` for a recursive function along a list).  `SelectSeq` has
no definition for the prover, so that `Those`, a recursive function, takes its place in
the modules that are proved about: `ThoseAre`, `FirstStays` and `OnceStays` say that it has what
it should, in the same order, each as often.

`DriversProofs` proves theorems of `MCDrivers`' `Spec`, for any groups, services, bounds and
sets of what may happen:

- `Serves`: `OscarServes`.  `OscarInv` says of each slot that a connection has the one family
  it was made for, and only once it is ready, and that what is under way to it is what
  such a connection is told (`FlapKept`); that a frame which ends a connection is its last
  (`Tidy`); that a session which is up has a connection with the basic families; that a
  family which was asked for has its connection, or the answer, on the way (`AskedFor`), and
  that what waits for a family waits while none has it, is made after what was sent, and
  is no part of that (`InTurn`).  None of these is inductive alone: that nothing is sent past what
  waits rests on the families that a connection can have at all, and `OnTheWay` on who
  reads a redirect.
- `LayersAgree`: `DriverLayersAgree`, from `OscarInv` and `TocInv` (in `ListsProofs`).  A read of TOC2 is a loop over
  its frames, and one of them may end the session and another begin it, so that `TocInv` says
  for which state of the socket the frames that are left are read, what the answers
  that are under way can find, and that the server's configuration is in order.
- `AsTheServerHas`: `LilyAgrees`, from `LilyInv` and `LilyRoomsInv`, with the assumption that the discussions
  are finitely many (each that one is in is asked for once).  For `InfoIsHis` it says that one person
  at most is asked about, and by one command: that is to go out, or its answer is to come,
  or its block is open (`Question`), and from where it is on, no command without a blank in it; and
  that lines within a block come while one is open (`Bracketed`).  For
  `LilyPresence`, which is only about what has been read, it says that there is a history of
  views, one for each line under way, from what the driver has of a person to what the server
  has (`Leads`): the server's line extends it at its end, and a line read takes its first view away.
  The sessions that are lost, and who is asked about across them, are in both (`Asked`,
  `Present`).  For `LilyRooms` it says, of each discussion, that one who is in it at the server
  has its room, or the room is asked for in a command that is to go out or by an answer
  that is to come, and no notice that it is left comes after; that one who is not in it has
  the room only if such a notice is under way (`RoomOf`, `MemberOf`).  This is inductive with
  the order of what is under way (`OrderOf`): no answer that enters a room before a notice that
  it is left, no QUIT sent while the room is being joined (which is what "hasty" breaks).  TLC checked
  `LilyRoomsInv` with one and with two discussions before it was proved.

- `Faultless`: `NoDriverFault`, from `RosterInv`, `LilyInv`, `OscarInv` and, for TOC2's rooms,
  `RoomsInv`.  The assertion of CHAT_JOIN is that the list has an entry of that name which is not
  joined.  No entry is ever marked for the request that added it, nor taken off the list, and the
  same room may be asked for again while an answer is under way, so that the invariant counts:
  for each room there are at least as many entries that wait as there are requests and answers
  under way (`Awaited`).  That an answer uses up one entry only, and of its own room, rests on
  those that wait having no number (`PlainEntry`, `BothNoted`), which an invitation breaks.
  `Connected` asks for every room that has a window, one after the other: `FoldSolved` shows
  that the recursion of `FoldSet` has a solution over a finite set, and `FoldStays` that it
  keeps what each request keeps; the invariant has it that the windows are finitely many.
- `TypesKept`: `DriversTypeOK`, which these invariants contain.
- `ListsMeet`: `DriverListsAgree`, from `RosterInv` and `TocListInv`, which `ListsProofs` proves of the two modules by themselves, and which have
  one idea.  With OSCAR, what the server has told and the driver has not read leads from the
  driver's list, frame by frame and with none that the driver cannot take, to a list that has
  all that the server has and, unless another client is not told of what it took, nothing
  else (`Follows`): there is a history of lists, one for each frame.  Before the server has been
  asked for its list there is none (`SigningOn`); then, and between sessions, the wrapper takes
  nobody to be at the server who is not (`StoredFirst`).  With TOC2 it is a history of sights
  (`Accounted`), from what the driver has made of the frames it has read (`SeenNow`) to what
  the server has done (`SeenLast`): how far the sign-on with this connection's server has come,
  what has to come before CONFIG2, and in which group the buddy is.  It takes in the frames that an
  earlier connection has left in the buffer (`sock_connect` keeps them): the driver may count in
  their numbers, and sign on with them, and the sign-on of the new server then comes as data; so
  that the group is only followed while driver and server are one connection's (`InSync`), and
  CONFIG2 sets it anew, of which one needs that it is the server's list of now (`Signing`).  That
  additions that wait are not overtaken by news is the world's doing (`MayList`), and is kept.
  TLC has checked `TocListInv` on small instances before it was proved.

Left to TLC: `LossNoticed` and `ReceiveEnds`, since liveness is beyond the proof system; of
`MCParts` the types, what is about texts and keys, and what `RingsKept` says of windows
(`PartsTypeOK`, `PeersUnderstand`, `InTheUsersHands`); of `MCLive` what is not `Blocks`; and of
`MCDrivers` TOC2's rooms (`RoomsAgree`) and `ReadAsWritten`, which is about what recursive functions
make of every text.  Worth proving next: that two ends of a conversation agree about keys,
whose inductive invariant has to name each phase of the negotiation (who has offered a key,
whose answer is under way in which direction, which side has lapsed) with the requests in
both mailboxes; that TOC2's rooms are the server's.

## Not modelled

- Two buddies of one name after a change of nick, and with them friendly names and tags
  (`firetalk.c:785`): the lists are maps by name here.
- TOC2's capabilities, icons, direct connections and file offers; changes of name and
  password; OSCAR's icons, rates, capabilities, missed messages and the items of its list
  that are no buddies; Lily's renames, titles, /WHAT, reviews and memos; IRC's WHO and
  the descriptions of modes.
- Tab completion (`conio.c`, `firebind.c:770`; two stray semicolons at `firebind.c:793` and
  `796` make its assertion fail), the detection of pastes, keys that scroll.
- The commands that only report, `/help` and `/filter`'s tables, and `/exec` but for
  the connection its output goes to.
- What curses draws, log files: no state that another part reads.
- MD5, base64 and the helpers of `rodents.c`: pure functions on bytes.  Names that are
  equal for `firetalk_compare_nicks` are one name in every module, but where the
  comparison itself matters (`IrcReplies`).
- The Lua interpreter, `linux_vsprintf.c`, the test programs.

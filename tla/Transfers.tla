----------------------------- MODULE Transfers -----------------------------
(***************************************************************************)
(* File transfers: firetalk_transfer_t in the wrapper, its descriptor and  *)
(* its peer, and the window and transfer_t the client has for it.          *)
(*                                                                         *)
(* A transfer and its window know each other by pointers, and each may be  *)
(* freed first: the wrapper frees a transfer when it ends, the client a    *)
(* transfer_t when its window is closed.  Handles are addresses, so that a *)
(* new transfer may get the address of one that is gone.                   *)
(***************************************************************************)
EXTENDS Integers, FiniteSets

CONSTANTS
  Handles,      \* addresses of transfers
  Files,        \* file names, which are also the windows' names
  NoHandle,     \* NULL
  Gone,         \* a pointer to a transfer_t that has been freed
  MaxSize,      \* bound: parts of a file
  Worlds        \* what may happen, one of them in each behaviour

World ==
  [careless : BOOLEAN,    \* /accept twice or of one's own offer, /close half way
   netFails : BOOLEAN,    \* sockets of transfers fail or are reset
   reuse    : BOOLEAN,    \* a new transfer may get the address of one that is gone
   changes  : BOOLEAN]    \* a file may change between its offer and its sending

ASSUME TransfersAssumption ==
  /\ NoHandle \notin Handles
  /\ {NoHandle, Gone} \cap Files = {}
  /\ NoHandle # Gone
  /\ MaxSize \in Nat \ {0}
  /\ Worlds \subseteq World

VARIABLES
  desk,    \* transfers and windows, with the assertion that failed if one did
  stuck,   \* the transfer whose last acknowledgements the program waits for
  world    \* constant: what may happen

transferVars == <<desk, stuck, world>>

States == {"free", "WAITLOCAL", "WAITREMOTE", "WAITSYNACK", "TRANSFERRING"}

Transfer ==
  [state  : States,
   sends  : BOOLEAN,                       \* FF_DIRECTION_SENDING
   sock   : {"none", "raw", "active"},     \* no fd; fd but NOTCONNECTED; both
   size   : -1..MaxSize,                   \* -1: not known
   bytes  : 0..MaxSize + 1,
   peer   : {"open", "closed", "reset"},   \* what the far end has done
   client : Files \cup {NoHandle, Gone}]   \* clientfilestruct

Window ==
  [open   : BOOLEAN,
   handle : Handles \cup {NoHandle},       \* transfer_t.handle
   news   : {"none", "begun", "finished", "failed"}]   \* what it was last told

Free   == [state |-> "free", sends |-> FALSE, sock |-> "none", size |-> 0,
           bytes |-> 0, peer |-> "open", client |-> NoHandle]
Closed == [open |-> FALSE, handle |-> NoHandle, news |-> "none"]

TransfersInit ==
  /\ desk = [xfer |-> [h \in Handles |-> Free], win |-> [f \in Files |-> Closed],
             used |-> {}, fault |-> FALSE]
  /\ stuck = NoHandle
  /\ world \in Worlds

Live(d, h) == h \in Handles /\ d.xfer[h].state # "free"

-----------------------------------------------------------------------------
(* The operators below take the desk and give the one a function leaves. *)

Put(d, h, x) == [d EXCEPT !.xfer[h] = x]

Failed(d) == [d EXCEPT !.fault = TRUE]

(* firetalk_file_cancel: a handle that is not in the list is not found.  The
   destructor of the socket asserts that it is valid. *)
FileCancel(d, h) ==
  IF ~Live(d, h) THEN d
  ELSE [Put(d, h, Free) EXCEPT !.fault = d.fault \/ d.xfer[h].sock = "raw"]

(* What the client's handlers do: they reach the window through the transfer_t
   they are given.  Only progress fills in the handle of an offer. *)
FileStart(d, h) ==
  LET c == d.xfer[h].client
  IN  IF c \notin Files THEN Failed(d) ELSE [d EXCEPT !.win[c].news = "begun"]

(* Mutant: the handle of an offer is not filled in. *)
FileProgressNoHandle(d, h) ==
  LET c == d.xfer[h].client
  IN  IF c \notin Files \/ d.win[c].handle # h THEN Failed(d) ELSE d

FileProgress(d, h) ==
  LET c == d.xfer[h].client
  IN  IF c \notin Files \/ d.win[c].handle \notin {h, NoHandle} THEN Failed(d)
      ELSE [d EXCEPT !.win[c].handle = h]

FileEnd(d, h, news) ==
  LET c == d.xfer[h].client
  IN  IF c \notin Files \/ d.win[c].handle # h THEN Failed(d)
      ELSE [d EXCEPT !.win[c].news = news]

(* Told of an error, and cancelled. *)
FileError(d, h) == FileCancel(FileEnd(d, h, "failed"), h)

(* Mutant: that all has come is not told. *)
CompleteSilent(d, h) ==
  LET told == FileProgress(d, h)
  IN  IF d.xfer[h].bytes = d.xfer[h].size THEN FileCancel(told, h) ELSE told

(* All has been sent or received, or not yet all. *)
Complete(d, h) ==
  LET told == FileProgress(d, h)
  IN  IF d.xfer[h].bytes = d.xfer[h].size
      THEN FileCancel(FileEnd(told, h, "finished"), h)
      ELSE told

-----------------------------------------------------------------------------
Working == stuck = NoHandle /\ ~desk.fault

Fresh(h) == ~Live(desk, h) /\ (world.reuse \/ h \notin desk.used)

Started(d, h, x) == [Put(d, h, x) EXCEPT !.used = @ \cup {h}]

Opened(d, f, h) == [d EXCEPT !.win[f] = [open |-> TRUE, handle |-> h, news |-> "none"]]

(* /offer.  The file may be unreadable; and once there is a descriptor, a call
   that fails cancels a transfer whose socket is not valid. *)
UserOffer(f, h, size) ==
  /\ Working /\ ~desk.win[f].open /\ Fresh(h)
  /\ LET opened == Opened(desk, f, NoHandle)
         x == [Free EXCEPT !.state = "WAITREMOTE", !.sends = TRUE, !.sock = "raw",
                           !.size = size, !.client = f]
     IN  \/ desk' = opened
         \/ desk' = Started(opened, h, x)
         \/ world.netFails /\ desk' = FileCancel(Started(opened, h, x), h)
  /\ UNCHANGED <<stuck, world>>

(* A DCC SEND: firetalk_callback_file_offer and fireio_file_offer. *)
RemoteOffer(f, h, size) ==
  /\ Working /\ Fresh(h)
  /\ LET x == [Free EXCEPT !.state = "WAITLOCAL", !.size = size]
         d == Started(desk, h, x)
     IN  \/ desk' = FileCancel(d, h)                 \* no address to connect to
         \/ desk' = IF d.win[f].open THEN FileCancel(d, h) ELSE Opened(d, f, h)
  /\ UNCHANGED <<stuck, world>>

(* /accept: the window's handle is used unseen.  The file may exist already, the
   connection may fail at once, and a descriptor that was open is forgotten. *)
UserAccept(f) ==
  LET h == desk.win[f].handle
  IN  /\ Working /\ desk.win[f].open
      /\ world.careless \/ (Live(desk, h) /\ desk.xfer[h].state = "WAITLOCAL")
      /\ IF ~Live(desk, h)
         THEN desk' = Failed(desk)
         ELSE LET mine == [desk.xfer[h] EXCEPT !.client = f]
              IN  \/ desk' = Put(desk, h, mine)
                  \/ desk' = Put(desk, h, [mine EXCEPT !.state = "WAITSYNACK", !.peer = "open",
                                  !.sock = IF @ = "active" THEN @ ELSE "raw"])
                  \/ world.netFails /\ desk' = FileCancel(Put(desk, h,
                                  [mine EXCEPT !.sock = IF @ = "active" THEN "raw" ELSE "none"]), h)
      /\ UNCHANGED <<stuck, world>>

(* /close: bclose of a TRANSFER window.  The transfer_t goes with the window,
   whether the wrapper has found the handle or not. *)
UserCloseTransfer(f) ==
  LET h == desk.win[f].handle
      d == FileCancel(desk, h)
  IN  /\ Working /\ desk.win[f].open
      /\ world.careless \/ IF Live(desk, h) THEN desk.xfer[h].sock # "raw"
                                      ELSE \A g \in Handles : desk.xfer[g].client # f
      /\ desk' = [d EXCEPT !.win[f] = Closed,
                           !.xfer = [g \in Handles |-> [d.xfer[g] EXCEPT
                                       !.client = IF @ = f THEN Gone ELSE @]]]
      /\ UNCHANGED <<stuck, world>>

-----------------------------------------------------------------------------
(* The loop at the end of firetalk_select_custom, for one transfer. *)

Polled(h, state) == Working /\ desk.xfer[h].state = state

(* The peer of an offer connects. *)
PollAccept(h) ==
  /\ Polled(h, "WAITREMOTE")
  /\ \/ desk' = FileStart(Put(desk, h, [desk.xfer[h] EXCEPT
                    !.state = "TRANSFERRING", !.sock = "active"]), h)
     \/ world.netFails /\ desk' = FileError(desk, h)
  /\ UNCHANGED <<stuck, world>>

(* firetalk_handle_file_synack: a failure is told to nobody. *)
PollFileSynack(h) ==
  /\ Polled(h, "WAITSYNACK")
  /\ \/ desk' = FileStart(Put(desk, h, [desk.xfer[h] EXCEPT
                    !.state = "TRANSFERRING", !.sock = "active"]), h)
     \/ world.netFails /\ desk' = FileCancel(desk, h)
  /\ UNCHANGED <<stuck, world>>

(* Mutant: a stream that has ended is read again and again. *)
PollReceiveForgives(h) ==
  LET x == desk.xfer[h]
  IN  /\ Polled(h, "TRANSFERRING") /\ ~x.sends
      /\ \E n \in 1..(MaxSize + 1 - x.bytes) :
           x.peer = "open" /\ desk' = Complete(Put(desk, h, [x EXCEPT !.bytes = @ + n]), h)
      /\ UNCHANGED <<stuck, world>>

(* firetalk_handle_receive.  What has come is n more parts; at the end of the
   stream that is none.  Every time the count is sent back: the first time after
   the peer has closed that still succeeds, and is answered with a reset. *)
PollReceive(h) ==
  LET x == desk.xfer[h]
  IN  /\ Polled(h, "TRANSFERRING") /\ ~x.sends
      /\ \/ \E n \in 1..(MaxSize + 1 - x.bytes) :
              /\ x.peer = "open"
              /\ \/ desk' = Complete(Put(desk, h, [x EXCEPT !.bytes = @ + n]), h)
                 \/ desk' = FileError(desk, h)       \* the disk is full
         \/ /\ x.peer = "closed"
            /\ desk' = Complete(Put(desk, h, [x EXCEPT !.peer = "reset"]), h)
         \/ /\ x.peer = "reset"
            /\ desk' = FileError(Put(desk, h, [x EXCEPT !.sock = "none"]), h)
      /\ UNCHANGED <<stuck, world>>

(* firetalk_handle_send: the whole file, n parts by now, in one call; then the
   acknowledgements are waited for, as long as it takes, by a recv that blocks.
   After the far end has closed, the first part can still be sent. *)
PollSend(h) ==
  \E n \in IF world.changes THEN 0..MaxSize ELSE {desk.xfer[h].size} :
    LET sent == FileProgress(Put(desk, h, [desk.xfer[h] EXCEPT !.bytes = n]), h)
        lost == [desk.xfer[h] EXCEPT !.sock = "none"]
    IN  /\ Polled(h, "TRANSFERRING") /\ desk.xfer[h].sends
        /\ \/ /\ n = 0
              /\ desk' = FileCancel(Complete(desk, h), h) /\ stuck' = stuck
           \/ /\ n > 0
              /\ desk' = sent
              /\ stuck' = IF sent.fault THEN NoHandle ELSE h
           \/ /\ n > 1 /\ desk.xfer[h].peer = "closed"
              /\ desk' = FileError(FileProgress(Put(desk, h, lost), h), h) /\ stuck' = stuck
           \/ /\ n > 0 /\ world.netFails
              /\ desk' = FileError(Put(desk, h, lost), h) /\ stuck' = stuck
        /\ UNCHANGED world

(* The last acknowledgement has come. *)
Acknowledged ==
  /\ stuck # NoHandle /\ ~desk.fault
  /\ desk.xfer[stuck].peer = "open"
  /\ desk' = FileCancel(Complete(desk, stuck), stuck)
  /\ stuck' = NoHandle /\ UNCHANGED world

(* select reports an exception on a socket that is open. *)
PollExcept(h) ==
  /\ Working /\ Live(desk, h) /\ world.netFails
  /\ desk.xfer[h].sock # "none"
  /\ desk' = FileError(desk, h)
  /\ UNCHANGED <<stuck, world>>

(* The far end closes.  From then on recv gives 0, and the loop of the sender
   goes round on it for ever. *)
PeerCloses(h) ==
  /\ ~desk.fault
  /\ desk.xfer[h].sock = "active" /\ desk.xfer[h].peer = "open"
  /\ desk' = Put(desk, h, [desk.xfer[h] EXCEPT !.peer = "closed"])
  /\ UNCHANGED <<stuck, world>>

PollTransfer(h) == PollExcept(h) \/ PollAccept(h) \/ PollFileSynack(h) \/ PollReceive(h) \/ PollSend(h)

TransfersNext ==
  \/ \E f \in Files, h \in Handles, size \in 0..MaxSize : UserOffer(f, h, size)
  \/ \E f \in Files, h \in Handles, size \in -1..MaxSize : RemoteOffer(f, h, size)
  \/ \E f \in Files : UserAccept(f) \/ UserCloseTransfer(f)
  \/ \E h \in Handles : PollTransfer(h) \/ PeerCloses(h)
  \/ Acknowledged

(* A socket that can be read is seen by every round of the main loop. *)
TransfersFairness == \A h \in Handles : WF_transferVars(PollReceive(h))

TransfersSpec == TransfersInit /\ [][TransfersNext]_transferVars

-----------------------------------------------------------------------------
(* The records of wrapper and client keep their types. *)
TransfersTypeOK ==
  /\ desk \in [xfer : [Handles -> Transfer], win : [Files -> Window],
               used : SUBSET Handles, fault : BOOLEAN]
  /\ stuck \in Handles \cup {NoHandle}
  /\ world \in World

(* A user who closes and accepts only what has come to that, with sockets that
   do not fail: no assertion of the transfers and their windows fails, and no
   transfer_t is used after it was freed. *)
NoTransferFault == desk.fault => world.careless \/ world.netFails

(* While addresses are not used again and nobody is careless, every transfer
   has one window, and it is the one that the wrapper's pointer leads to: from
   its offer by the far end, or from /offer. *)
TransferHasWindow ==
  world.careless \/ world.netFails \/ world.reuse \/
  \A h \in Handles : Live(desk, h) =>
    LET mine == {f \in Files : desk.win[f].open /\ desk.win[f].handle = h}
        c    == desk.xfer[h].client
    IN  IF c = NoHandle THEN Cardinality(mine) = 1
        ELSE c \in Files /\ desk.win[c].open /\ mine \in {{}, {c}}

(* A window whose transfer is over has been told that it finished or failed. *)
EndIsTold ==
  (world = [w \in DOMAIN world |-> FALSE]) =>
  \A f \in Files :
    desk.win[f].open /\ desk.win[f].handle # NoHandle /\ ~Live(desk, desk.win[f].handle)
      => desk.win[f].news \in {"finished", "failed"}

ReceivesInVain(h) ==
  /\ desk.xfer[h].state = "TRANSFERRING" /\ ~desk.xfer[h].sends
  /\ desk.xfer[h].peer # "open"

(* A file that no longer comes is given up: once the far end has closed, the
   transfer is over after a while, complete or not, unless another transfer
   holds the program up or an assertion has ended it. *)
ReceiveEnds ==
  \A h \in Handles :
    ReceivesInVain(h) ~> (~ReceivesInVain(h) \/ stuck # NoHandle \/ desk.fault)
=============================================================================

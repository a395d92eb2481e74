------------------------------- MODULE Blocks -------------------------------
(***************************************************************************)
(* Whom one does not want to hear: the client's list (idiotar), the        *)
(* wrapper's (deny_head) and the server's, of one connection.              *)
(*                                                                         *)
(* A network keeps a list of its own (TOC2), one for as long as one is     *)
(* signed on (SILENCE of IRC), or none (Lily, and IRC where SILENCE is not *)
(* known).  With TOC2 additions wait in a batch for the next select().     *)
(***************************************************************************)
EXTENDS Integers, Sequences, FiniteSets, SequencesExt

CONSTANTS
  Pests,       \* who may be ignored or blocked
  NetworkKinds,       \* kinds of networks: which lists are kept
  MaxDenyBuf   \* bound: names in a batch

ASSUME BlocksAssumption ==
  /\ IsFiniteSet(Pests)
  /\ NetworkKinds \subseteq {"stored", "session", "nowhere"}
  /\ MaxDenyBuf \in Nat \ {0}

VARIABLES
  network,   \* constant: the kind of this one
  online,      \* "off", "signing" on, or "on": conn->online > 0 and connected ACTIVE
  idiotar,   \* the client's entry for each: none, or one with a reason
  denied,    \* deny_head: none, an entry, or one that is uploaded
  denybuf,   \* TOC2: the batch of additions
  silenced,  \* whom the server keeps from us
  presence,  \* whom the wrapper shows as online
  wish,      \* the last word on each: the user's, or the server's if he gave none
  undone     \* those whose block was taken back where that does not reach it

blockVars == <<network, online, idiotar, denied, denybuf, silenced, presence, wish, undone>>

BlocksInit ==
  /\ network \in NetworkKinds /\ online = "off"
  /\ idiotar = [p \in Pests |-> "none"] /\ denied = [p \in Pests |-> "none"]
  /\ denybuf = <<>> /\ presence = {} /\ undone = {}
  /\ silenced \in IF network = "stored" THEN {{}} \cup {{p} : p \in Pests} ELSE {{}}
  /\ wish = [p \in Pests |-> "none"]

-----------------------------------------------------------------------------
(* The client's list. *)
RAddIdiot(people, why) ==
  idiotar' = [p \in Pests |-> IF p \in people THEN why ELSE idiotar[p]]

RDelIdiot(p) == idiotar' = [idiotar EXCEPT ![p] = "none"]

(* firetalk_im_internal_add_deny for all of a set, and raddidiot out of its callback:
   they are shown as gone. *)
InternalAddDeny(people, uploaded) ==
  /\ denied' = [p \in Pests |->
                  IF p \in people /\ uploaded THEN "uploaded"
                  ELSE IF p \in people /\ denied[p] = "none" THEN "listed"
                  ELSE denied[p]]
  /\ RAddIdiot(people, "block")
  /\ presence' = presence \ people

(* firetalk_im_internal_remove_deny, and rdelidiot out of its callback. *)
InternalRemoveDeny(p) ==
  /\ denied' = [denied EXCEPT ![p] = "none"]
  /\ RDelIdiot(p)

(* A driver's im_add_deny. *)
ImAddDeny(p) ==
  /\ denybuf' = IF network = "stored" THEN Append(denybuf, p) ELSE denybuf
  /\ silenced' = IF network = "session" THEN silenced \cup {p} ELSE silenced

(* A driver's im_remove_deny.  It does not look into the batch. *)
ImRemoveDeny(p) == silenced' = silenced \ {p}

FtAddDeny(p) ==
  /\ InternalAddDeny({p}, FALSE)
  /\ IF online = "on" THEN ImAddDeny(p) ELSE UNCHANGED <<denybuf, silenced>>

(* FE_NOTFOUND, or FE_SUCCESS: the driver is asked then. *)
FtRemoveDeny(p) ==
  IF denied[p] = "none" THEN RDelIdiot(p) /\ UNCHANGED <<denied, silenced>>
  ELSE InternalRemoveDeny(p) /\ ImRemoveDeny(p)

-----------------------------------------------------------------------------
(* The user. *)

(* /block, and /ignore with the reason "block": firetalk_im_add_deny. *)
BlockHim(p) ==
  /\ Len(denybuf) < MaxDenyBuf
  /\ FtAddDeny(p)
  /\ wish' = [wish EXCEPT ![p] = "blocked"] /\ undone' = undone \ {p}
  /\ UNCHANGED <<network, online>>

(* Where /unblock does not reach: the wrapper isn't asked without a session; a batch is not
   looked into; and of one who came to the server that way the wrapper knows nothing, when
   he is to be unblocked again. *)
OutOfReach(p) ==
  \/ online # "on" /\ (denied[p] # "none" \/ p \in silenced)
  \/ online = "on" /\ p \in ToSet(denybuf)
  \/ online = "on" /\ p \in undone /\ denied[p] = "none" /\ p \in silenced

(* /unblock: the wrapper is asked only while there is a session, rdelidiot called in
   any case. *)
UnblockHim(p) ==
  /\ IF online = "on" THEN FtRemoveDeny(p) ELSE RDelIdiot(p) /\ UNCHANGED <<denied, silenced>>
  /\ wish' = [wish EXCEPT ![p] = "heard"]
  /\ undone' = IF OutOfReach(p) THEN undone \cup {p} ELSE undone \ {p}
  /\ UNCHANGED <<network, online, denybuf, presence>>

(* /ignore: raddidiot, whose reason takes the place of an earlier one. *)
IgnoreHim(p) ==
  /\ RAddIdiot({p}, "ignored")
  /\ wish' = [wish EXCEPT ![p] = IF @ = "blocked" THEN @ ELSE "ignored"]
  /\ UNCHANGED <<network, online, denied, denybuf, silenced, presence, undone>>

-----------------------------------------------------------------------------
(* The session. *)

SignOn ==
  /\ online = "off" /\ online' = "signing"
  /\ UNCHANGED <<network, idiotar, denied, denybuf, silenced, presence, wish, undone>>

(* Some select() has come since, and emptied the batch.  With TOC2, CONFIG2: those that
   the server names, and then those it did not name go into the batch.  Other servers are
   told nothing. *)
GotDenies ==
  /\ online = "signing" /\ online' = "on" /\ denybuf = <<>>
  /\ IF network = "stored"
     THEN /\ denied' = [p \in Pests |-> IF p \in silenced \/ denied[p] # "none"
                                        THEN "uploaded" ELSE "none"]
          /\ RAddIdiot(silenced, "block")
          /\ presence' = presence \ silenced
          /\ denybuf' = SetToSeq({p \in Pests : denied[p] = "listed" /\ p \notin silenced})
          /\ wish' = [p \in Pests |-> IF p \in silenced /\ wish[p] \in {"none", "ignored"}
                                      THEN "blocked" ELSE wish[p]]
     ELSE UNCHANGED <<denied, idiotar, presence, denybuf, wish>>
  /\ UNCHANGED <<network, silenced, undone>>

(* firetalk_callback_disconnect, or a failed attempt. *)
Offline ==
  /\ online # "off" /\ online' = "off"
  /\ denied' = [p \in Pests |-> IF denied[p] = "uploaded" THEN "listed" ELSE denied[p]]
  /\ presence' = {}
  /\ silenced' = IF network = "session" THEN {} ELSE silenced
  /\ UNCHANGED <<network, idiotar, denybuf, wish, undone>>

(* toc_preselect: toc_im_add_deny_flush.  Without a session the batch is thrown away. *)
Flush ==
  /\ denybuf # <<>> /\ denybuf' = <<>>
  /\ silenced' = IF online = "on" THEN silenced \cup ToSet(denybuf) ELSE silenced
  /\ UNCHANGED <<network, online, idiotar, denied, presence, wish, undone>>

(* TOC2: another client of the same account changes the list, which INSERTED2 and
   DELETED2 tell. *)
InsertedDeny(p) ==
  /\ network = "stored" /\ online = "on" /\ p \notin silenced
  /\ silenced' = silenced \cup {p}
  /\ InternalAddDeny({p}, TRUE)
  /\ wish' = [wish EXCEPT ![p] = "blocked"] /\ undone' = undone \ {p}
  /\ UNCHANGED <<network, online, denybuf>>

DeletedDeny(p) ==
  /\ network = "stored" /\ online = "on" /\ p \in silenced
  /\ silenced' = silenced \ {p}
  /\ IF denied[p] # "none"
     THEN InternalRemoveDeny(p) /\ wish' = [wish EXCEPT ![p] = "heard"]
     ELSE UNCHANGED <<denied, idiotar, wish>>
  /\ undone' = IF p \in ToSet(denybuf) THEN undone \cup {p} ELSE undone \ {p}
  /\ UNCHANGED <<network, online, denybuf, presence>>

(* firetalk_callback_im_buddyonline. *)
Arrives(p) ==
  /\ online = "on" /\ p \notin presence
  /\ presence' = presence \cup {p}
  /\ UNCHANGED <<network, online, idiotar, denied, denybuf, silenced, wish, undone>>

BlocksNext ==
  \/ \E p \in Pests : BlockHim(p) \/ UnblockHim(p) \/ IgnoreHim(p)
  \/ \E p \in Pests : InsertedDeny(p) \/ DeletedDeny(p) \/ Arrives(p)
  \/ SignOn \/ GotDenies \/ Offline \/ Flush

BlocksSpec == BlocksInit /\ [][BlocksNext]_blockVars

-----------------------------------------------------------------------------
(* firetalk_callback_im_getmessage drops what people it denies send to oneself. *)
Drops(p) == denied[p] # "none"

(* What becomes of a message of p that has come: fireio_recvfrom_ignorelist drops those
   from people in the client's list, and warns who sent one to oneself. *)
FateOf(p, inRoom) ==
  IF ~inRoom /\ Drops(p) THEN "dropped"
  ELSE IF idiotar[p] = "none" THEN "shown"
  ELSE IF inRoom THEN "dropped" ELSE "warned"

BlocksTypeOK ==
  /\ network \in NetworkKinds /\ online \in {"off", "signing", "on"}
  /\ idiotar \in [Pests -> {"none", "ignored", "block"}]
  /\ denied \in [Pests -> {"none", "listed", "uploaded"}]
  /\ denybuf \in Seq(Pests)
  /\ silenced \subseteq Pests /\ presence \subseteq Pests /\ undone \subseteq Pests
  /\ wish \in [Pests -> {"none", "ignored", "blocked", "heard"}]

(* Who is to be heard is shown, and the server sends what he writes; but a block that was
   taken back without a session stays, and so does one that waits in the batch. *)
HeardAgain ==
  \A p \in Pests \ undone : wish[p] \in {"none", "heard"} =>
    /\ FateOf(p, FALSE) = "shown" /\ FateOf(p, TRUE) = "shown"
    /\ online = "on" => p \notin silenced

(* Who is blocked is not shown, neither here nor in a room, and is not warned; a server
   that keeps a list keeps him from us once the batch is sent. *)
BlockedStays ==
  \A p \in Pests : wish[p] = "blocked" =>
    /\ FateOf(p, FALSE) = "dropped" /\ FateOf(p, TRUE) = "dropped"
    /\ network = "stored" /\ online = "on" /\ denybuf = <<>> => p \in silenced

(* Who is ignored is not shown, and is warned when he writes, unless he is blocked, too. *)
IgnoredStays ==
  \A p \in Pests : wish[p] = "ignored" =>
    FateOf(p, TRUE) = "dropped" /\ FateOf(p, FALSE) \in {"warned", "dropped"}
=============================================================================

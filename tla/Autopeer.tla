------------------------------ MODULE Autopeer ------------------------------
(***************************************************************************)
(* AUTOPEER and AUTOCRYPT between two naims: the peer level, the key and   *)
(* docrypt that each keeps for the other in its buddylist_t, negotiated by *)
(* CTCP requests that travel with the messages they are about.             *)
(*                                                                         *)
(* A message is a text or the words of one AUTOPEER request.  Subcodes     *)
(* keep their order (Subcodes), and those in a line come before its text.  *)
(***************************************************************************)
EXTENDS Integers, Sequences, FiniteSets, SequencesExt

CONSTANTS
  Ends,        \* the two of them
  MaxKeys,     \* bound: keys made up
  MaxUnder,    \* bound: messages under way to one end when the other sends more
  MaxLapses,   \* bound: times that an end forgets what was negotiated
  Options      \* settings that an end may have

Option == [autopeer : BOOLEAN, autocrypt : BOOLEAN, autobuddy : BOOLEAN]

ASSUME AutopeerAssumption ==
  /\ Cardinality(Ends) = 2 /\ IsFiniteSet(Ends)
  /\ {MaxKeys, MaxUnder, MaxLapses} \subseteq Nat
  /\ Options \subseteq Option

Level == 4      \* the level this code announces
NoKey == 0

VARIABLES
  peers,    \* for each end, the buddylist_t it has for the other, or its absence
  option,   \* $autopeer, $autocrypt and $autobuddy of each end
  mail,     \* messages under way to each end, in order
  keys,     \* how many keys were made up
  lapses,   \* how many times an end has forgotten what was negotiated
  garbled   \* somebody was shown a text decrypted with no key or a wrong one

peerVars == <<peers, option, mail, keys, lapses, garbled>>

Other(e) == CHOOSE x \in Ends : x # e

Blist == [listed : BOOLEAN, peer : {0, -1, Level}, crypt : Nat, docrypt : BOOLEAN]

Unknown(listed) == [listed |-> listed, peer |-> 0, crypt |-> NoKey, docrypt |-> FALSE]

PeersInit ==
  /\ peers \in [Ends -> {Unknown(TRUE), Unknown(FALSE)}]
  /\ option \in [Ends -> Options]
  /\ mail = [e \in Ends |-> <<>>]
  /\ keys = 0 /\ lapses = 0 /\ garbled = FALSE

Text(key, auto) == [what |-> "text", key |-> key, auto |-> auto]
Request(words)  == [what |-> "AUTOPEER", words |-> words]
Word(w, key)    == [word |-> w, key |-> key]

-----------------------------------------------------------------------------
(* sendto_encrypt and sendto_send.  With docrypt the text goes encrypted, as a
   subcode; otherwise the first of them offers to negotiate, before the line
   with the text or, if that is automatic, after it. *)
Say(e, auto) ==
  LET b == peers[e]
      offers == b.listed /\ ~b.docrypt /\ option[e].autopeer /\ b.peer = 0
      text == <<Text(IF b.listed /\ b.docrypt THEN b.crypt ELSE NoKey, auto)>>
      offer == IF offers THEN <<Request(<<Word("+AUTOPEER", NoKey)>>)>> ELSE <<>>
  IN  /\ Len(mail[Other(e)]) < MaxUnder
      /\ peers' = IF offers THEN [peers EXCEPT ![e].peer = -1] ELSE peers
      /\ mail' = [mail EXCEPT ![Other(e)] = @ \o IF auto THEN text \o offer ELSE offer \o text]
      /\ UNCHANGED <<option, keys, lapses, garbled>>

(* fireio_recvfrom_decrypt: what has a key is decrypted with the one at hand, and
   in the clear with level 4; encryption is resumed by a message that is
   encrypted and stopped by one that is not, unless it is automatic.  Then
   fireio_recvfrom_autobuddy. *)
GotText(e) ==
  LET m == Head(mail[e])
      b == peers[e]
      decrypts == b.listed /\ b.crypt # NoKey /\ (b.peer <= 3 \/ m.key # NoKey)
      resumed == b.docrypt \/ decrypts
  IN  /\ mail[e] # <<>> /\ m.what = "text"
      /\ garbled' = (garbled \/ m.key # IF decrypts THEN b.crypt ELSE NoKey)
      /\ peers' = [peers EXCEPT
           ![e].docrypt = resumed /\ (m.auto \/ m.key # NoKey),
           ![e].listed = @ \/ option[e].autobuddy]
      /\ mail' = [mail EXCEPT ![e] = Tail(@)]
      /\ UNCHANGED <<option, keys, lapses>>

-----------------------------------------------------------------------------
(* One word of a request: what it makes of the blist, and the requests it
   answers with. *)
PlusAutopeer(b, o) ==
  IF b.peer = Level THEN [b |-> b, out |-> <<>>]
  ELSE [b |-> [b EXCEPT !.peer = Level],
        out |-> <<  <<Word("+AUTOPEER", NoKey)>> \o
                    IF b.peer = 0 /\ b.crypt = NoKey /\ o.autocrypt
                    THEN <<Word("+AUTOCRYPT", NoKey)>> ELSE <<>>  >>]

MinusAutocrypt(b) ==
  IF b.crypt = NoKey THEN [b |-> b, out |-> <<>>]
  ELSE [b |-> [b EXCEPT !.docrypt = FALSE, !.crypt = NoKey],
        out |-> << <<Word("-AUTOCRYPT", NoKey)>> >>]

MinusAutopeer(b) ==
  LET e == MinusAutocrypt(b)
  IN  [e EXCEPT !.b.docrypt = FALSE, !.b.peer = 0]

(* Mutant: the key that was made up is not told. *)
PlusAutocryptAlone(b, o, told, made) ==
  LET key == IF told = NoKey THEN made ELSE told
  IN  IF ~o.autocrypt THEN [b |-> b, out |-> << <<Word("-AUTOCRYPT", NoKey)>> >>]
      ELSE [b |-> IF b.crypt = key THEN b ELSE [b EXCEPT !.crypt = key, !.docrypt = TRUE],
            out |-> <<>>]

(* Without a key, one is made up and told. *)
PlusAutocrypt(b, o, told, made) ==
  LET key == IF told = NoKey THEN made ELSE told
  IN  IF ~o.autocrypt THEN [b |-> b, out |-> << <<Word("-AUTOCRYPT", NoKey)>> >>]
      ELSE [b |-> IF b.crypt = key THEN b ELSE [b EXCEPT !.crypt = key, !.docrypt = TRUE],
            out |-> IF told = NoKey THEN << <<Word("+AUTOCRYPT", key)>> >> ELSE <<>>]

OneWord(b, o, w, made) ==
  CASE w.word = "+AUTOPEER"  -> PlusAutopeer(b, o)
    [] w.word = "-AUTOPEER"  -> MinusAutopeer(b)
    [] w.word = "+AUTOCRYPT" -> PlusAutocrypt(b, o, w.key, made)
    [] w.word = "-AUTOCRYPT" -> MinusAutocrypt(b)

(* All of them, in order. *)
AllWords(b, o, words, made) ==
  LET upto[i \in 0..Len(words)] ==
        IF i = 0 THEN [b |-> b, out |-> <<>>]
        ELSE LET e == upto[i - 1]
                 f == OneWord(e.b, o, words[i], made)
             IN  [b |-> f.b, out |-> e.out \o f.out]
  IN  upto[Len(words)]

(* The AUTOPEER handler.  One who is no buddy is made one, or declined, or, if it
   only takes something back, passed over. *)
GotAutopeer(e) ==
  LET words == Head(mail[e]).words
      takesBack == Len(words) = 1 /\ words[1].word \in {"-AUTOPEER", "-AUTOCRYPT"}
      b == peers[e]
      made == \E i \in DOMAIN words : words[i] = Word("+AUTOCRYPT", NoKey)
      effect ==
        IF b.listed \/ (~takesBack /\ option[e].autobuddy)
        THEN AllWords([b EXCEPT !.listed = TRUE], option[e], words, keys + 1)
        ELSE [b |-> b, out |-> IF takesBack THEN <<>> ELSE << <<Word("-AUTOPEER", NoKey)>> >>]
  IN  /\ mail[e] # <<>> /\ Head(mail[e]).what = "AUTOPEER"
      /\ made => keys < MaxKeys
      /\ Len(mail[Other(e)]) <= MaxUnder
      /\ peers' = [peers EXCEPT ![e] = effect.b]
      /\ mail' = [mail EXCEPT ![e] = Tail(@),
                  ![Other(e)] = @ \o [i \in DOMAIN effect.out |-> Request(effect.out[i])]]
      /\ keys' = IF made THEN keys + 1 ELSE keys
      /\ UNCHANGED <<option, lapses, garbled>>

-----------------------------------------------------------------------------
Lapse == lapses < MaxLapses /\ lapses' = lapses + 1

(* rdelbuddy. *)
Delete(e) ==
  /\ peers[e].listed /\ Len(mail[Other(e)]) < MaxUnder
  /\ peers' = [peers EXCEPT ![e] = Unknown(FALSE)]
  /\ mail' = IF peers[e].peer > 0
             THEN [mail EXCEPT ![Other(e)] = Append(@, Request(<<Word("-AUTOPEER", NoKey)>>))]
             ELSE mail
  /\ Lapse
  /\ UNCHANGED <<option, keys, garbled>>

(* raddbuddy. *)
Add(e) ==
  /\ ~peers[e].listed
  /\ peers' = [peers EXCEPT ![e] = Unknown(TRUE)]
  /\ UNCHANGED <<option, mail, keys, lapses, garbled>>

(* bgoing, of a buddy that has a window. *)
SeesOtherGo(e) ==
  /\ peers[e].listed
  /\ peers' = [peers EXCEPT ![e] = Unknown(TRUE)]
  /\ Lapse
  /\ UNCHANGED <<option, mail, keys, garbled>>

(* bclearall: the session of an end is over, and what was under way is lost. *)
SignsOff(e) ==
  /\ peers' = [peers EXCEPT ![e] = Unknown(peers[e].listed)]
  /\ mail' = [mail EXCEPT ![e] = <<>>, ![Other(e)] = <<>>]
  /\ Lapse
  /\ UNCHANGED <<option, keys, garbled>>

PeersNext ==
  \E e \in Ends :
    \/ \E auto \in BOOLEAN : Say(e, auto)
    \/ GotText(e) \/ GotAutopeer(e)
    \/ Delete(e) \/ Add(e) \/ SeesOtherGo(e) \/ SignsOff(e)

-----------------------------------------------------------------------------
Message ==
  [what : {"text"}, key : Nat, auto : BOOLEAN] \cup
  [what : {"AUTOPEER"},
   words : Seq([word : {"+AUTOPEER", "-AUTOPEER", "+AUTOCRYPT", "-AUTOCRYPT"}, key : Nat])]

PeersTypeOK ==
  /\ peers \in [Ends -> Blist]
  /\ option \in [Ends -> Option]
  /\ mail \in [Ends -> Seq(Message)]
  /\ keys \in Nat /\ lapses \in Nat /\ garbled \in BOOLEAN

(* Whoever encrypts has a key: sendto_encrypt asserts it.  It holds through
   every order of requests, deletions, departures and sign-offs. *)
DocryptHasKey == \A e \in Ends : peers[e].docrypt => peers[e].crypt # NoKey

(* Until an end has forgotten something, every text is shown as it was typed,
   whoever started the negotiation and whatever crossed it on the way. *)
ShownAsTyped == lapses = 0 => ~garbled

(* Until then both have the same key once all messages have come. *)
KeysAgree ==
  lapses = 0 /\ (\A e \in Ends : mail[e] = <<>>) => \A e, f \in Ends : peers[e].crypt = peers[f].crypt
=============================================================================

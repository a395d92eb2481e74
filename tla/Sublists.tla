------------------------------ MODULE Sublists ------------------------------
(***************************************************************************)
(* Parts of a list, in its order: what remains of a ring, a list or a      *)
(* queue when some of it is taken out.                                     *)
(***************************************************************************)
EXTENDS Integers, Sequences

(* The elements of list s that are in set S. *)
Those(s, S) ==
  LET upto[i \in 0..Len(s)] ==
        IF i = 0 THEN <<>> ELSE IF s[i] \in S THEN Append(upto[i - 1], s[i]) ELSE upto[i - 1]
  IN  upto[Len(s)]
=============================================================================

----------------------------- MODULE MCBuddies -----------------------------
(* Two names are enough for a nick change and for one buddy's window to be the
   last but one; they are interchangeable. *)
EXTENDS Buddies, TLC

NameSymmetry == Permutations(Names)
=============================================================================

----------------------------- MODULE MCOscarRoster -----------------------------
EXTENDS OscarRoster

(* Buddies are added to groups that others are in. *)
MCWhims == {{"crowds"}}
=============================================================================

------------------------------ MODULE Commands ------------------------------
(***************************************************************************)
(* What is typed, bound or scripted becomes commands: ua_handlecmd finds   *)
(* the connection and the alias, alias_parse puts the arguments in         *)
(* variables, naim_eval takes the script piece by piece, and naim.call and *)
(* ua_valid see to arguments and place.                                    *)
(*                                                                         *)
(* The arguments of an alias are variables of the whole client, which an   *)
(* alias that is called by an alias uses too; and where the user is, is    *)
(* looked up in another connection than the one the command is given to.   *)
(***************************************************************************)
EXTENDS Integers, Sequences
LOCAL INSTANCE SequencesExt

CONSTANTS
  Places,      \* connections
  NoPlace,     \* of a command that names none
  Builtins,    \* the commands that have code: [name -> [min, max, where]]
  Lines,       \* what may be typed: pieces [to, bare, name, args]
  AliasNames,  \* may be names of commands too
  Scripts,     \* sequences of pieces, none of them empty: that would be the last
  MaxParms,    \* arguments at most: 10 in the code
  MaxDepth     \* bound on aliases that call aliases: the stack in the code

(* An argument is a word, or the variable of that number. *)
Arg(words) == [var : 0..MaxParms, text : words]

ASSUME CommandsAssumption ==
  /\ NoPlace \notin Places
  /\ MaxParms \in Nat \ {0} /\ MaxDepth \in Nat
  /\ \A s \in Scripts : Len(s) > 0
  /\ \A n \in DOMAIN Builtins : Builtins[n].where \in {"anywhere", "window", "chat"}

VARIABLES
  curplace,   \* curconn
  curkind,    \* in each connection, the type of its curbwin, or "none"
  aliasar,    \* the script of each alias, or none
  parms,      \* $arg1, $arg2, ...
  stack,      \* aliases that are carried out, the innermost first
  did         \* the command carried out last

commandVars == <<curplace, curkind, aliasar, parms, stack, did>>

Blank == [i \in 1..MaxParms |-> ""]
NoDeed == [name |-> "", args |-> <<>>, at |-> NoPlace, null |-> FALSE]

CommandsInit ==
  /\ curplace \in Places
  /\ curkind \in [Places -> {"none", "BUDDY", "CHAT"}]
  /\ aliasar = [a \in AliasNames |-> <<>>]
  /\ parms = Blank /\ stack = <<>> /\ did = NoDeed

(* script_expand: a variable that is blank leaves no word. *)
Expanded(args) ==
  SelectSeq([i \in DOMAIN args |-> IF args[i].var > 0 THEN parms[args[i].var] ELSE args[i].text],
            LAMBDA w : w # "")

InConn == curkind[curplace] # "none"
-----------------------------------------------------------------------------
(* ua_valid_where: whether one is in a window at all is asked of the connection in front;
   then of what kind it is, of the one that the command is for. *)
InPlace(where) == where # "anywhere" => InConn

(* A command with code, for connection c: naim.call, ua_valid, and what it changes of
   where the user is.  Either of the last two follows curbwin unseen. *)
BuiltinCalled(name, args, c) ==
  LET b == Builtins[name]
      goes == Len(args) >= b.min /\ (b.max = 0 => args = <<>>) /\ InPlace(b.where)
      null == goes /\ b.where # "anywhere" /\ curkind[c] = "none"
  IN IF ~goes \/ (b.where = "chat" /\ curkind[c] = "BUDDY")
     THEN did' = NoDeed /\ UNCHANGED <<curplace, curkind>>
     ELSE /\ did' = [name |-> name, args |-> args, at |-> c, null |-> null]
          /\ IF name = "jump" THEN curplace' \in Places ELSE UNCHANGED curplace
          /\ IF name = "close" /\ ~null
             THEN \E k \in {"none", "BUDDY", "CHAT"} : curkind' = [curkind EXCEPT ![c] = k]
             ELSE UNCHANGED curkind

Filled(args) == [i \in 1..MaxParms |-> IF i <= Len(args) THEN args[i] ELSE ""]

(* alias_parse, up to naim_eval: the connection that was named is not passed on. *)
AliasCalled(args) ==
  /\ Len(stack) < MaxDepth
  /\ parms' = Filled(args)
  /\ UNCHANGED <<curplace, curkind, did>>

(* ua_handlecmd, with what is left of the caller below. *)
HandleCmd(p, args, below) ==
  LET c == IF p.to = NoPlace THEN curplace ELSE p.to
      alias == ~p.bare /\ p.name \in AliasNames /\ aliasar[p.name] # <<>>
      called == [i \in {j \in {1} : below # <<>>} |-> [below[1] EXCEPT !.calledNone = FALSE]]
  IN  IF alias
      THEN /\ AliasCalled(args)
           /\ stack' = <<[rest |-> aliasar[p.name], args |-> args, calledNone |-> TRUE]>>
                         \o called \o SubSeq(below, 2, Len(below))
      ELSE /\ IF p.name \in DOMAIN Builtins THEN BuiltinCalled(p.name, args, c)
              ELSE did' = NoDeed /\ UNCHANGED <<curplace, curkind>>
           /\ stack' = below /\ UNCHANGED parms

Typed ==
  /\ stack = <<>> /\ ~did.null
  /\ \E p \in Lines : HandleCmd(p, Expanded(p.args), <<>>)
  /\ UNCHANGED aliasar

(* /alias. *)
MakeAlias ==
  /\ stack = <<>> /\ ~did.null
  /\ \E a \in AliasNames, s \in Scripts : aliasar' = [aliasar EXCEPT ![a] = s]
  /\ did' = NoDeed /\ UNCHANGED <<curplace, curkind, parms, stack>>

(* naim_eval: the next piece, with the variables as they are by now. *)
NextPiece ==
  /\ stack # <<>> /\ stack[1].rest # <<>> /\ ~did.null
  /\ LET p == Head(stack[1].rest)
     IN HandleCmd(p, Expanded(p.args), <<[stack[1] EXCEPT !.rest = Tail(@)]>> \o Tail(stack))
  /\ UNCHANGED aliasar

Cleared(n) == [i \in 1..MaxParms |-> IF i <= n THEN "" ELSE parms[i]]

(* alias_parse, after naim_eval. *)
AliasEnds ==
  /\ stack # <<>> /\ stack[1].rest = <<>> /\ ~did.null
  /\ parms' = Cleared(Len(stack[1].args))
  /\ stack' = Tail(stack)
  /\ UNCHANGED <<curplace, curkind, aliasar, did>>

CommandsNext == Typed \/ MakeAlias \/ NextPiece \/ AliasEnds
-----------------------------------------------------------------------------
CommandsTypeOK ==
  /\ curplace \in Places /\ curkind \in [Places -> {"none", "BUDDY", "CHAT"}]
  /\ aliasar \in [AliasNames -> Scripts \cup {<<>>}]
  /\ DOMAIN parms = 1..MaxParms
  /\ Len(stack) <= MaxDepth
  /\ did.at \in Places \cup {NoPlace} /\ did.null \in BOOLEAN

(* The commands of an alias see the arguments it was called with, until one of them is
   an alias: those after that one see none.  Outside of aliases none are left. *)
ParmsOfTheAlias ==
  parms = IF stack = <<>> \/ ~stack[1].calledNone THEN Blank ELSE Filled(stack[1].args)

(* A command that needs a window is not carried out without one: unless it was given to
   a connection that is not in front, while the one in front has a window. *)
NullWhereNotFront ==
  did'.null /\ ~did.null => did'.at # curplace /\ InConn
=============================================================================

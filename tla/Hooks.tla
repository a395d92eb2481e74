------------------------------- MODULE Hooks -------------------------------
(***************************************************************************)
(* A chain of hooks: HOOK_CALL goes through the array by index, and what   *)
(* it calls may add hooks to the very chain or take some away, itself too. *)
(*                                                                         *)
(* Most hooks are Lua functions.  They are found by a number in a table,   *)
(* naim.internal.hooks, which the hook keeps as its userdata and the       *)
(* script as the handle to delete it by, and which luaL_unref gives to the *)
(* next that is added.  A hook may also return the message anew.           *)
(***************************************************************************)
EXTENDS Integers, FiniteSets
LOCAL INSTANCE SequencesExt

CONSTANTS
  Functions,    \* what scripts hook into the chain
  Weight,       \* for each, its weight
  Texts,        \* messages, as sequences of letters
  Manners       \* what scripts do, one of them in each behaviour

Manner ==
  [inCall : BOOLEAN,    \* hooks are added and deleted from within the chain
   twice  : BOOLEAN]    \* a hook may be deleted by a handle that was used before

ASSUME HooksAssumption ==
  /\ Weight \in [Functions -> Nat]
  /\ Manners \subseteq Manner
  /\ \A t \in Texts : t \in Seq({t[i] : i \in DOMAIN t})

VARIABLES
  chain,      \* chain_t.hooks: each one's number, and the weight
  table,      \* naim.internal.hooks, and its list of free numbers
  handle,     \* what hooks.add gave each function's script; 0: nothing
  call,       \* HOOK_CALL: the index, who has been called, the message
  stray,      \* hits++ fell outside the array
  manner      \* constant: what scripts do

hookVars == <<chain, table, handle, call, stray, manner>>

NoCall  == [at |-> 0, called |-> <<>>, begun |-> {}, shifted |-> FALSE,
            buf |-> <<>>, len |-> 0, told |-> <<>>]

HooksInit ==
  /\ chain = <<>> /\ table = [of |-> <<>>, free |-> <<>>]
  /\ handle = [f \in Functions |-> 0]
  /\ call = NoCall /\ stray = FALSE
  /\ manner \in Manners

InCall      == call.at # 0
Hooked(f)   == \E i \in DOMAIN chain : chain[i].by = f     \* by: who added it
PlaceOfHook(r) == {i \in DOMAIN chain : chain[i].ref = r}
-----------------------------------------------------------------------------
(* luaL_ref takes the number freed last, or a new one. *)
Given == IF table.free = <<>> THEN Len(table.of) + 1 ELSE Head(table.free)

(* HOOK_INS behind those of no greater weight. *)
Added(f, r) ==
  LET later == {i \in DOMAIN chain : chain[i].weight > Weight[f]}
      at    == IF later = {} THEN Len(chain) + 1 ELSE CHOOSE i \in later : \A j \in later : i <= j
  IN [at |-> at, chain |-> InsertAt(chain, at, [ref |-> r, weight |-> Weight[f], by |-> f])]

(* A change at or before the running hook moves it under the index. *)
Moved(at) == [call EXCEPT !.shifted = @ \/ (InCall /\ at <= call.at)]

AddHook(f) ==
  /\ ~Hooked(f)
  /\ LET r == Given IN
     /\ chain' = Added(f, r).chain
     /\ call' = Moved(Added(f, r).at)
     /\ table' = IF table.free = <<>> THEN [table EXCEPT !.of = Append(@, f)]
                 ELSE [of |-> [table.of EXCEPT ![r] = f], free |-> Tail(table.free)]
     /\ handle' = [handle EXCEPT ![f] = r]
  /\ UNCHANGED <<stray, manner>>

(* HOOK_DODEL, then luaL_unref, whether a hook was found or not.  What a number that is
   free already does to luaL_unref's list is left out. *)
DelHook(f) ==
  /\ handle[f] # 0 /\ (Hooked(f) \/ manner.twice)
  /\ ~Contains(table.free, handle[f])
  /\ LET is == PlaceOfHook(handle[f]) IN
     IF is = {} THEN UNCHANGED <<chain, call>>
     ELSE LET i == CHOOSE i \in is : TRUE IN
          /\ chain' = RemoveAt(chain, i)
          /\ call' = [Moved(i) EXCEPT !.begun = @ \ {chain[i].by}]
  /\ table' = [of |-> [table.of EXCEPT ![handle[f]] = "nil"], free |-> <<handle[f]>> \o table.free]
  /\ UNCHANGED <<handle, stray, manner>>

Changed == \E f \in Functions : AddHook(f) \/ DelHook(f)
-----------------------------------------------------------------------------
(* HOOK_CALL begins, with a message. *)
CallBegins(t) ==
  /\ ~InCall /\ chain # <<>>
  /\ call' = [NoCall EXCEPT !.at = 1, !.called = <<table.of[chain[1].ref]>>,
                            !.begun = {chain[i].by : i \in DOMAIN chain},
                            !.buf = t, !.len = Len(t), !.told = t]
  /\ UNCHANGED <<chain, table, handle, stray, manner>>

ReturnedKept(c, t) ==
  [c EXCEPT !.buf = IF IsPrefix(t, c.buf) THEN c.buf ELSE t, !.told = t]

(* _call_hook, where the message comes back: a new text is copied over the old unless
   that begins with it. *)
Returned(c, t) ==
  [c EXCEPT !.buf = IF IsPrefix(t, c.buf) THEN c.buf ELSE t, !.len = Len(t), !.told = t]

(* The running hook returns: to continue with the next index, or to stop the chain. *)
HookReturns(t) ==
  /\ InCall
  /\ LET c == Returned(call, t) IN
     IF call.at < Len(chain)
     THEN call' = [c EXCEPT !.at = @ + 1, !.called = Append(@, table.of[chain[call.at + 1].ref])]
     ELSE call' = [c EXCEPT !.at = 0]
  /\ UNCHANGED <<chain, table, handle, stray, manner>>

HookStops ==
  /\ InCall
  /\ call' = [NoCall EXCEPT !.shifted = call.shifted]
  /\ stray' = (call.at > Len(chain))
  /\ UNCHANGED <<chain, table, handle, manner>>

HooksNext ==
  /\ ~stray
  /\ \/ (InCall => manner.inCall) /\ Changed
     \/ \E t \in Texts : CallBegins(t) \/ (InCall /\ HookReturns(t))
     \/ HookStops
-----------------------------------------------------------------------------
HooksTypeOK ==
  /\ chain \in Seq([ref : 1..Len(table.of), weight : Nat, by : Functions])
  /\ \A i \in 1..Len(table.of) : table.of[i] \in Functions \cup {"nil"}
  /\ IsInjective(table.free) /\ \A i \in DOMAIN table.free : table.free[i] \in DOMAIN table.of
  /\ \A f \in Functions : handle[f] \in 0..Len(table.of)
  /\ call.at \in Nat /\ call.len \in Nat /\ call.buf \in Texts
  /\ stray \in BOOLEAN

(* Hooks are called by weight, and when a call has gone through the chain each of those
   that were there all the time has been called once: unless one at or before the
   running one was added or deleted. *)
CalledOnce ==
  ~manner.twice /\ ~call.shifted =>
    /\ IsInjective(call.called)
    /\ \A i, j \in DOMAIN call.called : i < j => Weight[call.called[i]] <= Weight[call.called[j]]
    /\ ~InCall => call.called = <<>> \/ \A f \in call.begun : Contains(call.called, f)

(* hits is counted in the array, unless the last hook deleted itself or one before. *)
HitsInside == stray => call.shifted

(* Each hook's number stands for the function it was added with, as long as no script
   deletes by a handle it has used. *)
HooksKeepTheirs ==
  ~manner.twice => \A i \in DOMAIN chain : table.of[chain[i].ref] = chain[i].by

(* The next hook gets the message that the one before returned; as a string it is that
   message too, unless a script has cut its end. *)
MessageAsReturned ==
  InCall => /\ SubSeq(call.buf, 1, call.len) = call.told
            /\ call.buf # call.told => IsStrictPrefix(call.told, call.buf)
=============================================================================

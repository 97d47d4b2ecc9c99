--------------------------- MODULE SessionListeners ---------------------------
(***************************************************************************)
(* The listeners of one NativeSession (native/bridge.mjs): on, once, off   *)
(* and _emit.  A JavaScript Set keeps its members in the order they were   *)
(* added.  once() stores a wrapper of its own and remembers, for each      *)
(* callback, the wrapper made last.  Between two callbacks of an emission  *)
(* the code of a callback may call on, once and off.                       *)
(***************************************************************************)
EXTENDS Integers, Sequences, FiniteSets, SequencesExt

CONSTANTS
  Events, Callbacks, NoEvent,
  MaxRegs,        \* bound: calls of once()
  MaxEmits,       \* bound: emissions
  Careful         \* TRUE when a callback given to once() is given to nothing else and
                  \* taken off only from the event it was registered for

ASSUME ListenersAssumption ==
  MaxRegs \in Nat /\ MaxEmits \in Nat /\ Careful \in BOOLEAN /\ NoEvent \notin Events

VARIABLES
  listeners,      \* #listeners: event -> members of its set, in order
  wrapperOf,      \* #onceWrappers: callback -> number of its last wrapper, 0 for none
  regs,           \* calls of once() so far: each makes the wrapper of that number
  emitting,       \* the event being emitted
  remaining,      \* what is left of the copy _emit walks
  emits,          \* emissions so far
  fired,          \* history: how often each wrapper ran
  given,          \* history: <<event, callback>> pairs passed to on, <<.., .., "once">> to once
  removed         \* history: <<event, callback>> taken off and not registered again

vars == <<listeners, wrapperOf, regs, emitting, remaining, emits, fired, given, removed>>

(* A member of a set: the callback itself (reg 0), or the wrapper of a once() call. *)
Entry == [cb : Callbacks, reg : 0 .. MaxRegs]

TypeOK ==
  /\ DOMAIN listeners \subseteq Events
  /\ \A e \in DOMAIN listeners : listeners[e] \in Seq(Entry) /\ IsInjective(listeners[e])
  /\ wrapperOf \in [Callbacks -> 0 .. MaxRegs]
  /\ regs \in 0 .. MaxRegs
  /\ emitting \in Events \cup {NoEvent}
  /\ remaining \in Seq(Entry)
  /\ emits \in 0 .. MaxEmits
  /\ fired \in [1 .. MaxRegs -> Nat]
  /\ given \subseteq Events \X Callbacks \X {"on", "once"}
  /\ removed \subseteq Events \X Callbacks

Init ==
  /\ listeners = << >>
  /\ wrapperOf = [cb \in Callbacks |-> 0]
  /\ regs = 0
  /\ emitting = NoEvent /\ remaining = << >> /\ emits = 0
  /\ fired = [r \in 1 .. MaxRegs |-> 0]
  /\ given = {} /\ removed = {}

-----------------------------------------------------------------------------
(* Set.add, creating the set of the event when there is none. *)
Add(e, entry) ==
  LET set == IF e \in DOMAIN listeners THEN listeners[e] ELSE << >>
      new == IF \E i \in DOMAIN set : set[i] = entry THEN set ELSE Append(set, entry)
  IN listeners' = [f \in DOMAIN listeners \cup {e} |-> IF f = e THEN new ELSE listeners[f]]

(* What a careful caller may register and take off. *)
Fresh(cb)     == \A g \in given : g[2] # cb
MayGive(cb)   == \A g \in given : g[2] = cb => g[3] = "on"
MayOff(e, cb) == \A g \in given : g[2] = cb /\ g[3] = "once" => g[1] = e

On(e, cb) ==
  /\ Careful => MayGive(cb)
  /\ Add(e, [cb |-> cb, reg |-> 0])
  /\ given' = given \cup {<<e, cb, "on">>}
  /\ removed' = removed \ {<<e, cb>>}
  /\ UNCHANGED <<wrapperOf, regs, emitting, remaining, emits, fired>>

Once(e, cb) ==
  /\ regs < MaxRegs
  /\ Careful => Fresh(cb)
  /\ regs' = regs + 1
  /\ wrapperOf' = [wrapperOf EXCEPT ![cb] = regs']
  /\ Add(e, [cb |-> cb, reg |-> regs'])
  /\ given' = given \cup {<<e, cb, "once">>}
  /\ removed' = removed \ {<<e, cb>>}
  /\ UNCHANGED <<emitting, remaining, emits, fired>>

(* Set.delete *)
Delete(set, entry) ==
  IF \E i \in DOMAIN set : set[i] = entry
  THEN RemoveAt(set, CHOOSE i \in DOMAIN set : set[i] = entry)
  ELSE set

(* Mutant of Drop: the wrapper is not looked up. *)
DropPlain(e, cb) ==
  IF e \in DOMAIN listeners
  THEN /\ listeners' = [listeners EXCEPT ![e] = Delete(@, [cb |-> cb, reg |-> 0])]
       /\ UNCHANGED wrapperOf
  ELSE UNCHANGED <<listeners, wrapperOf>>

(* Body of off: the callback, and the wrapper the callback has last been given. *)
Drop(e, cb) ==
  IF e \in DOMAIN listeners
  THEN /\ listeners' = [listeners EXCEPT ![e] =
            Delete(Delete(@, [cb |-> cb, reg |-> 0]), [cb |-> cb, reg |-> wrapperOf[cb]])]
       /\ wrapperOf' = [wrapperOf EXCEPT ![cb] = 0]
  ELSE UNCHANGED <<listeners, wrapperOf>>

Off(e, cb) ==
  /\ Careful => MayOff(e, cb)
  /\ Drop(e, cb)
  /\ removed' = removed \cup {<<e, cb>>}
  /\ UNCHANGED <<regs, emitting, remaining, emits, fired, given>>

(* _emit: a copy of the event's set is walked. *)
Emit(e) ==
  /\ emitting = NoEvent /\ emits < MaxEmits
  /\ e \in DOMAIN listeners /\ listeners[e] # << >>
  /\ emitting' = e /\ remaining' = listeners[e] /\ emits' = emits + 1
  /\ UNCHANGED <<listeners, wrapperOf, regs, fired, given, removed>>

(* Mutant of Call: a wrapper does not take itself off. *)
CallKeeping ==
  /\ emitting # NoEvent
  /\ remaining' = Tail(remaining)
  /\ emitting' = IF Len(remaining) = 1 THEN NoEvent ELSE emitting
  /\ fired' = IF Head(remaining).reg = 0 THEN fired ELSE [fired EXCEPT ![Head(remaining).reg] = @ + 1]
  /\ UNCHANGED <<listeners, wrapperOf, regs, emits, given, removed>>

(* The next member runs; a wrapper first calls off for its callback. *)
Call ==
  /\ emitting # NoEvent
  /\ LET entry == Head(remaining) IN
     IF entry.reg = 0
     THEN UNCHANGED <<listeners, wrapperOf, fired>>
     ELSE /\ Drop(emitting, entry.cb)
          /\ fired' = [fired EXCEPT ![entry.reg] = @ + 1]
  /\ remaining' = Tail(remaining)
  /\ emitting' = IF Len(remaining) = 1 THEN NoEvent ELSE emitting
  /\ UNCHANGED <<regs, emits, given, removed>>

Next == \/ \E e \in Events, cb \in Callbacks : On(e, cb) \/ Once(e, cb) \/ Off(e, cb)
        \/ \E e \in Events : Emit(e)
        \/ Call

Spec == Init /\ [][Next]_vars

-----------------------------------------------------------------------------
\* The listener of a once() call runs at most once, whatever its callback and those called
\* before it in the same emission register and take off.
OnceFiresOnce == \A r \in 1 .. MaxRegs : fired[r] <= 1

\* A callback taken off and not registered again is in the event's set no more, in no form:
\* neither as itself nor wrapped by an earlier once().
RemovedStaysRemoved ==
  \A e \in DOMAIN listeners : \A i \in DOMAIN listeners[e] :
    <<e, listeners[e][i].cb>> \notin removed
=============================================================================

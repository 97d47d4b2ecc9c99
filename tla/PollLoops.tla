------------------------------ MODULE PollLoops ------------------------------
(***************************************************************************)
(* The loops that ask until a condition holds or a deadline has passed:    *)
(* the native wait command (native/src/cli.cpp), whose question is an      *)
(* evaluation in the page with a limit of its own; waitForReady            *)
(* (helpers/starfish.mjs), whose question is an HTTP request without one;  *)
(* and initialPage (the same file), which looks at the client's pages.     *)
(*                                                                         *)
(* Time advances in ticks.  The programs are prompt: no tick passes while  *)
(* one of them can go on.                                                  *)
(***************************************************************************)
EXTENDS Integers, Sequences, FiniteSets

CONSTANTS
  Loops,       \* a set of [name, timeout, pause, limit]: the loop run, its timeout, the sleep
               \* between two attempts, the longest an attempt may take
  Unlimited,   \* the limit of a loop whose attempts have none
  Delay,       \* what a prompt server takes at most to answer
  MaxTurns,    \* bound: how often the condition turns
  MaxTime      \* bound: ticks

ASSUME LoopsAssumption ==
  /\ Loops \subseteq [name : {"wait", "waitForReady", "initialPage"},
                      timeout : Nat, pause : Nat \ {0}, limit : Nat \cup {Unlimited}]
  /\ Unlimited \notin Nat /\ Delay \in Nat /\ MaxTurns \in Nat /\ MaxTime \in Nat
  /\ \A l \in Loops : (l.name = "initialPage") <=> (l.limit = 0)

VARIABLES
  loop,        \* the one of Loops that runs
  prompt,      \* the server answers within Delay
  now,         \* ticks since the loop began
  phase,       \* "check", "asking", "pausing", or at the end "found" or "timedOut"
  since,       \* when the phase began
  lastId,      \* ids given to attempts so far
  atServer,    \* attempts the server has not handled
  toProgram,   \* answers on their way: [id, holds, at]
  reachable,   \* the connection stands, the port is served
  holds,       \* the condition: visible, present, ready, a page is there
  turns,       \* how often it turned
  heldSince,   \* history: since when it has held with the server there, -1 when not
  seenAt       \* history: when the answer that ended the loop was true

serverVars  == <<atServer, reachable, holds, turns, heldSince>>
programVars == <<phase, since, lastId, seenAt>>
vars == <<loop, prompt, now, programVars, serverVars, toProgram>>

Answer == [id : Nat, holds : BOOLEAN, at : Nat]

TypeOK ==
  /\ loop \in Loops /\ prompt \in BOOLEAN
  /\ now \in 0 .. MaxTime /\ since \in 0 .. now /\ lastId \in Nat
  /\ phase \in {"check", "asking", "pausing", "found", "timedOut"}
  /\ atServer \in Seq(1 .. lastId) /\ toProgram \in Seq(Answer)
  /\ reachable \in BOOLEAN /\ holds \in BOOLEAN /\ turns \in 0 .. MaxTurns
  /\ heldSince \in -1 .. now /\ seenAt \in -1 .. now

Init ==
  /\ loop \in Loops /\ prompt \in BOOLEAN
  /\ now = 0 /\ phase = "check" /\ since = 0 /\ lastId = 0
  /\ atServer = << >> /\ toProgram = << >>
  /\ reachable \in IF loop.name = "waitForReady" THEN BOOLEAN ELSE {TRUE}
  /\ holds \in BOOLEAN /\ turns = 0
  /\ heldSince = (IF holds /\ reachable THEN 0 ELSE -1) /\ seenAt = -1

-----------------------------------------------------------------------------
(* The program *)

Over == phase \in {"found", "timedOut"}
Limited == loop.limit # Unlimited

(* Mutant of Goto: the clock is set ahead. *)
GotoAhead(p) == phase' = p /\ since' = now + 1

Goto(p) == phase' = p /\ since' = now

Found(at) == Goto("found") /\ seenAt' = at
Pause     == Goto("pausing") /\ UNCHANGED seenAt

(* Mutants of InTime: at the deadline too; not when the next pause would pass it. *)
InTimeInclusive == now <= loop.timeout
InTimeForPause  == now + loop.pause < loop.timeout

(* The loop goes on while its deadline lies ahead: with a timeout of 0 it asks nothing. *)
InTime == now < loop.timeout

(* The top of the loop.  pages() is answered on the spot; a question to a server that cannot
   be reached fails at once. *)
Check ==
  /\ phase = "check"
  /\ CASE ~InTime -> Goto("timedOut") /\ UNCHANGED <<lastId, atServer, seenAt>>
       [] InTime /\ loop.name = "initialPage" ->
            /\ IF holds THEN Found(now) ELSE Pause
            /\ UNCHANGED <<lastId, atServer>>
       [] InTime /\ loop.name # "initialPage" /\ ~reachable -> Pause /\ UNCHANGED <<lastId, atServer>>
       [] InTime /\ loop.name # "initialPage" /\ reachable ->
            /\ Goto("asking") /\ lastId' = lastId + 1 /\ atServer' = Append(atServer, lastId')
            /\ UNCHANGED seenAt
  /\ UNCHANGED <<loop, prompt, now, reachable, holds, turns, heldSince, toProgram>>

(* Mutant of Matches: any answer is taken. *)
MatchesAny(answer) == TRUE

(* sendAndWait compares the ids; a request of waitForReady has a connection of its own. *)
Matches(answer) == answer.id = lastId

(* An answer arrives.  That to an attempt that was given up is ignored. *)
Receive ==
  /\ toProgram # << >>
  /\ toProgram' = Tail(toProgram)
  /\ LET answer == Head(toProgram) IN
     IF phase = "asking" /\ Matches(answer)
     THEN IF answer.holds THEN Found(answer.at) ELSE Pause
     ELSE UNCHANGED <<phase, since, seenAt>>
  /\ UNCHANGED <<loop, prompt, now, lastId, serverVars>>

(* Mutant of GiveUp: an attempt waits for its answer. *)
GiveUpNever == ~reachable /\ phase = "asking" /\ Pause
               /\ UNCHANGED <<loop, prompt, now, lastId, serverVars, toProgram>>

(* The attempt's own limit, or the end of the connection.  getJson listens for errors of its
   request only: once the headers of the response have come the end of the connection does not
   settle its promise, so an attempt without limit may also stay where it is (Tick). *)
GiveUp ==
  /\ phase = "asking"
  /\ ~reachable \/ (Limited /\ now >= since + loop.limit)
  /\ Pause
  /\ UNCHANGED <<loop, prompt, now, lastId, serverVars, toProgram>>

Wake ==
  /\ phase = "pausing" /\ now >= since + loop.pause
  /\ Goto("check") /\ UNCHANGED <<loop, prompt, now, lastId, seenAt, serverVars, toProgram>>

Program == Check \/ Receive \/ GiveUp \/ Wake

-----------------------------------------------------------------------------
(* What it asks *)

(* Questions are handled in order; one that throws is answered without the condition. *)
Handle ==
  /\ atServer # << >> /\ reachable /\ ~Over
  /\ atServer' = Tail(atServer)
  /\ \E throws \in BOOLEAN :
       /\ throws => ~prompt
       /\ toProgram' = Append(toProgram, [id |-> Head(atServer), holds |-> holds /\ ~throws,
                                          at |-> now])
  /\ UNCHANGED <<loop, prompt, now, programVars, reachable, holds, turns, heldSince>>

Turn ==
  /\ turns < MaxTurns /\ turns' = turns + 1 /\ ~Over
  /\ holds' = ~holds
  /\ heldSince' = IF holds' /\ reachable THEN now ELSE -1
  /\ UNCHANGED <<loop, prompt, now, programVars, atServer, reachable, toProgram>>

(* The engine starts to serve its port, once; or goes away with all it was asked. *)
Serve ==
  /\ ~reachable /\ loop.name = "waitForReady" /\ lastId = 0 /\ ~Over
  /\ reachable' = TRUE
  /\ heldSince' = IF holds THEN now ELSE -1
  /\ UNCHANGED <<loop, prompt, now, programVars, atServer, holds, turns, toProgram>>

HangUp ==
  /\ reachable /\ ~Over /\ ~prompt /\ loop.name # "initialPage"
  /\ reachable' = FALSE /\ atServer' = << >> /\ toProgram' = << >> /\ heldSince' = -1
  /\ UNCHANGED <<loop, prompt, now, programVars, holds, turns>>

Tick ==
  /\ now < MaxTime /\ ~Over
  /\ phase # "check"
  /\ ~(phase = "pausing" /\ now >= since + loop.pause)
  /\ ~(phase = "asking" /\ Limited /\ (~reachable \/ now >= since + loop.limit))
  /\ ~(phase = "asking" /\ prompt /\ now >= since + Delay)
  /\ now' = now + 1
  /\ UNCHANGED <<loop, prompt, programVars, serverVars, toProgram>>

Next == Program \/ Handle \/ Turn \/ Serve \/ HangUp \/ Tick

Spec == Init /\ [][Next]_vars

(* Time passes, and a program that can go on does; what ends an attempt without limit may never
   come.  Nothing is asked of a server that is not prompt. *)
FairSpec ==
  /\ Spec /\ WF_vars(Check) /\ WF_vars(Limited /\ GiveUp) /\ WF_vars(Wake) /\ WF_vars(Tick)
  /\ WF_vars(prompt /\ (Handle \/ Receive))

-----------------------------------------------------------------------------
\* A loop that ends well has seen the condition hold, and no longer ago than an attempt may
\* take: an answer that comes after its attempt was given up does not end the loop.
FoundIsFresh ==
  phase = "found" => seenAt >= 0 /\ (Limited => now - seenAt <= loop.limit)

\* A loop with limited attempts ends at most one attempt and one pause after the last tick
\* before its deadline - not at the deadline: wait may take 10 s longer than its --timeout.
OverrunBounded ==
  Limited => now <= IF loop.timeout = 0 THEN 0 ELSE loop.timeout - 1 + loop.limit + loop.pause

\* A condition that holds long enough before the deadline is not missed: when every attempt is
\* answered within Delay, a loop that times out can only have met a condition that did not
\* hold, or began to hold less than an attempt and a pause before the deadline.
NotMissed ==
  phase = "timedOut" /\ prompt /\ heldSince >= 0 =>
    heldSince >= loop.timeout - Delay - loop.pause

\* A loop with limited attempts ends, also when the server is mute or goes away.
LoopEnds == Limited ~> Over
=============================================================================

--------------------------- MODULE PollLoopsProofs ---------------------------
(***************************************************************************)
(* Theorems about PollLoops for any timeouts, pauses, limits and delays.   *)
(*                                                                         *)
(* OverrunBounded follows from where the loop may be at a time: it begins  *)
(* an attempt before its deadline, ends it within the limit and pauses     *)
(* once (OnTime).  FoundIsFresh needs that an answer that carries the id   *)
(* of the attempt under way was given after that attempt began (Answers).  *)
(* NotMissed follows from when a condition that holds now was last seen    *)
(* not to hold (Seen).                                                     *)
(***************************************************************************)
EXTENDS PollLoops, TLAPS

Answers ==
  \A i \in DOMAIN toProgram :
    /\ toProgram[i].id <= lastId /\ toProgram[i].at <= now
    /\ phase = "asking" /\ toProgram[i].id = lastId => toProgram[i].at >= since

OnTime ==
  Limited =>
    /\ phase = "asking"  => since < loop.timeout /\ now <= since + loop.limit
    /\ phase = "pausing" => /\ 0 < loop.timeout /\ since < loop.timeout + loop.limit
                            /\ now <= since + loop.pause
    /\ OverrunBounded

Inv == TypeOK /\ Answers /\ OnTime /\ FoundIsFresh

(* What the assumption says of the loop that runs. *)
LEMMA LoopTypes ==
  ASSUME TypeOK
  PROVE  /\ loop.timeout \in Nat /\ loop.pause \in Nat /\ loop.pause > 0
         /\ loop.limit \in Nat \cup {Unlimited} /\ Unlimited \notin Nat
         /\ Delay \in Nat /\ MaxTurns \in Nat /\ MaxTime \in Nat
         /\ Limited => loop.limit \in Nat
BY LoopsAssumption DEF TypeOK, Limited

(* What Append adds, and what it leaves. *)
LEMMA Appended ==
  ASSUME NEW S, NEW s \in Seq(S), NEW e \in S, NEW i \in DOMAIN Append(s, e)
  PROVE  \/ i \in DOMAIN s /\ Append(s, e)[i] = s[i]
         \/ Append(s, e)[i] = e
<1>1. Len(s) \in Nat /\ DOMAIN s = 1 .. Len(s) /\ i \in 1 .. Len(s) + 1
  OBVIOUS
<1>2. CASE i = Len(s) + 1
  BY <1>2
<1>3. CASE i # Len(s) + 1
  <2>1. i \in 1 .. Len(s)
    BY <1>1, <1>3
  <2> QED
    BY <1>1, <2>1
<1> QED
  BY <1>2, <1>3

LEMMA InitInv == Init => Inv
<1> SUFFICES ASSUME Init PROVE Inv
  OBVIOUS
<1>1. TypeOK
  <2>1. heldSince \in -1 .. now /\ seenAt \in -1 .. now /\ since \in 0 .. now
    BY DEF Init
  <2>2. now \in 0 .. MaxTime /\ turns \in 0 .. MaxTurns
    BY LoopsAssumption DEF Init
  <2>3. reachable \in BOOLEAN
    BY DEF Init
  <2>4. atServer \in Seq(1 .. lastId) /\ toProgram \in Seq(Answer)
    BY DEF Init
  <2> QED
    BY <2>1, <2>2, <2>3, <2>4 DEF Init, TypeOK
<1>2. Answers
  BY DEF Init, Answers
<1>3. OnTime /\ FoundIsFresh
  BY <1>1, LoopTypes DEF Init, OnTime, OverrunBounded, FoundIsFresh
<1> QED
  BY <1>1, <1>2, <1>3 DEF Inv

-----------------------------------------------------------------------------
LEMMA CheckInv == Inv /\ Check => Inv'
<1> SUFFICES ASSUME Inv, Check PROVE Inv'
  OBVIOUS
<1>0. /\ TypeOK /\ Answers /\ OnTime /\ FoundIsFresh /\ phase = "check" /\ since' = now
      /\ UNCHANGED <<loop, prompt, now, reachable, holds, turns, heldSince, toProgram>>
  BY LoopsAssumption DEF Inv, Check, Goto, Found, Pause, TypeOK
<1>1. \/ /\ phase' = "timedOut" /\ UNCHANGED <<lastId, atServer, seenAt>>
      \/ /\ InTime /\ phase' = "found" /\ seenAt' = now /\ UNCHANGED <<lastId, atServer>>
      \/ /\ InTime /\ phase' = "pausing" /\ UNCHANGED <<lastId, atServer, seenAt>>
      \/ /\ InTime /\ phase' = "asking" /\ lastId' = lastId + 1 /\ atServer' = Append(atServer, lastId')
         /\ UNCHANGED seenAt
  BY <1>0, LoopsAssumption DEF Check, Goto, Found, Pause, TypeOK
<1>2. TypeOK'
  <2>1. /\ lastId' \in Nat /\ phase' \in {"check", "asking", "pausing", "found", "timedOut"}
        /\ since' \in 0 .. now' /\ seenAt' \in -1 .. now'
    BY <1>0, <1>1 DEF TypeOK
  <2>2. atServer' \in Seq(1 .. lastId')
    <3>1. CASE UNCHANGED <<lastId, atServer>>
      BY <1>0, <3>1 DEF TypeOK
    <3>2. CASE lastId' = lastId + 1 /\ atServer' = Append(atServer, lastId')
      <4>1. atServer \in Seq(1 .. lastId') /\ lastId' \in 1 .. lastId'
        BY <1>0, <3>2 DEF TypeOK
      <4> QED
        BY <3>2, <4>1
    <3> QED
      BY <1>1, <3>1, <3>2
  <2> QED
    BY <1>0, <2>1, <2>2 DEF TypeOK
<1>3. Answers'
  <2> SUFFICES ASSUME NEW i \in DOMAIN toProgram
               PROVE  /\ toProgram[i].id <= lastId' /\ toProgram[i].at <= now
                      /\ ~(phase' = "asking" /\ toProgram[i].id = lastId')
    BY <1>0 DEF Answers
  <2>0. toProgram[i] \in Answer
    BY <1>0 DEF TypeOK
  <2>1. /\ toProgram[i].id \in Nat /\ lastId \in Nat
        /\ toProgram[i].id <= lastId /\ toProgram[i].at <= now
    BY <1>0, <2>0 DEF Answers, TypeOK, Answer
  <2> QED
    BY <1>1, <2>1
<1>4. OnTime'
  <2> SUFFICES ASSUME Limited' PROVE OnTime'
    BY DEF OnTime
  <2>1. /\ Limited /\ loop.timeout \in Nat /\ loop.pause \in Nat /\ loop.limit \in Nat /\ now \in Nat
    BY <1>0, LoopTypes DEF Limited, TypeOK
  <2>2. OverrunBounded'
    BY <1>0, <2>1 DEF OnTime, OverrunBounded
  <2>3. phase' \in {"asking", "pausing"} => now < loop.timeout
    BY <1>1 DEF InTime
  <2> QED
    BY <1>0, <2>1, <2>2, <2>3 DEF OnTime
<1>5. FoundIsFresh'
  BY <1>0, <1>1, LoopTypes DEF FoundIsFresh, Limited, TypeOK
<1> QED
  BY <1>2, <1>3, <1>4, <1>5 DEF Inv

LEMMA ReceiveInv == Inv /\ Receive => Inv'
<1> SUFFICES ASSUME Inv, Receive PROVE Inv'
  OBVIOUS
<1> DEFINE answer == Head(toProgram)
<1>0. /\ TypeOK /\ Answers /\ OnTime /\ FoundIsFresh /\ toProgram # << >>
      /\ toProgram' = Tail(toProgram) /\ UNCHANGED <<loop, prompt, now, lastId, serverVars>>
  BY DEF Inv, Receive
<1>1. \/ /\ phase = "asking" /\ answer.id = lastId /\ phase' = "found" /\ since' = now
         /\ seenAt' = answer.at
      \/ phase = "asking" /\ phase' = "pausing" /\ since' = now /\ UNCHANGED seenAt
      \/ UNCHANGED <<phase, since, seenAt>>
  BY DEF Receive, Found, Pause, Goto, Matches
<1>2. answer = toProgram[1] /\ 1 \in DOMAIN toProgram /\ answer \in Answer
  BY <1>0 DEF TypeOK
<1>3. Tail(toProgram) \in Seq(Answer)
  BY <1>0 DEF TypeOK
<1>4. TypeOK'
  BY <1>0, <1>1, <1>2, <1>3 DEF TypeOK, Answer, Answers, serverVars
<1>5. Answers'
  <2> SUFFICES ASSUME NEW i \in DOMAIN Tail(toProgram)
               PROVE  /\ Tail(toProgram)[i].id <= lastId' /\ Tail(toProgram)[i].at <= now'
                      /\ phase' = "asking" /\ Tail(toProgram)[i].id = lastId'
                           => Tail(toProgram)[i].at >= since'
    BY <1>0 DEF Answers
  <2>1. i + 1 \in DOMAIN toProgram /\ Tail(toProgram)[i] = toProgram[i + 1]
    BY <1>0 DEF TypeOK
  <2> QED
    BY <1>0, <1>1, <2>1 DEF Answers
<1>6. OnTime'
  <2> SUFFICES ASSUME Limited' PROVE OnTime'
    BY DEF OnTime
  <2>1. /\ Limited /\ loop.timeout \in Nat /\ loop.pause \in Nat /\ loop.limit \in Nat
        /\ now \in Nat /\ since \in Nat
    BY <1>0, LoopTypes DEF Limited, TypeOK
  <2>2. OverrunBounded'
    BY <1>0, <2>1 DEF OnTime, OverrunBounded
  <2> QED
    BY <1>0, <1>1, <2>1, <2>2 DEF OnTime
<1>7. FoundIsFresh'
  <2>1. CASE answer.id = lastId /\ phase = "asking" /\ phase' = "found" /\ seenAt' = answer.at
    <3>1. answer.at \in Nat /\ answer.at >= since
      BY <1>0, <1>2, <2>1 DEF Answers, Answer
    <3>2. Limited => now <= since + loop.limit /\ loop.limit \in Nat
      BY <1>0, <2>1, LoopTypes DEF OnTime
    <3> QED
      BY <1>0, <2>1, <3>1, <3>2 DEF FoundIsFresh, Limited, TypeOK
  <2> QED
    BY <1>0, <1>1, <2>1 DEF FoundIsFresh, Limited
<1> QED
  BY <1>4, <1>5, <1>6, <1>7 DEF Inv

LEMMA GiveUpInv == Inv /\ GiveUp => Inv'
<1> SUFFICES ASSUME Inv, GiveUp PROVE Inv'
  OBVIOUS
<1>0. /\ TypeOK /\ Answers /\ OnTime /\ FoundIsFresh /\ phase = "asking"
      /\ phase' = "pausing" /\ since' = now
      /\ UNCHANGED <<loop, prompt, now, lastId, seenAt, serverVars, toProgram>>
  BY DEF Inv, GiveUp, Pause, Goto
<1>1. TypeOK' /\ Answers' /\ FoundIsFresh'
  BY <1>0 DEF TypeOK, Answers, FoundIsFresh, Limited, serverVars
<1>2. OnTime'
  <2> SUFFICES ASSUME Limited PROVE /\ 0 < loop.timeout /\ now < loop.timeout + loop.limit
                                    /\ now <= now + loop.pause /\ OverrunBounded
    BY <1>0 DEF OnTime, OverrunBounded, Limited
  <2>1. loop.timeout \in Nat /\ loop.pause \in Nat /\ loop.limit \in Nat /\ now \in Nat /\ since \in Nat
    BY <1>0, LoopTypes DEF TypeOK
  <2>2. since < loop.timeout /\ now <= since + loop.limit /\ OverrunBounded
    BY <1>0 DEF OnTime
  <2> QED
    BY <2>1, <2>2
<1> QED
  BY <1>1, <1>2 DEF Inv

LEMMA WakeInv == Inv /\ Wake => Inv'
<1> SUFFICES ASSUME Inv, Wake PROVE Inv'
  OBVIOUS
<1>0. /\ TypeOK /\ Answers /\ OnTime /\ FoundIsFresh /\ phase = "pausing"
      /\ phase' = "check" /\ since' = now
      /\ UNCHANGED <<loop, prompt, now, lastId, seenAt, serverVars, toProgram>>
  BY DEF Inv, Wake, Goto
<1>1. TypeOK' /\ Answers' /\ FoundIsFresh'
  BY <1>0 DEF TypeOK, Answers, FoundIsFresh, Limited, serverVars
<1>2. OnTime'
  BY <1>0, LoopTypes DEF OnTime, OverrunBounded, Limited, TypeOK
<1> QED
  BY <1>1, <1>2 DEF Inv

-----------------------------------------------------------------------------
LEMMA HandleInv == Inv /\ Handle => Inv'
<1> SUFFICES ASSUME Inv, Handle PROVE Inv'
  OBVIOUS
<1>0. /\ TypeOK /\ Answers /\ OnTime /\ FoundIsFresh /\ atServer # << >>
      /\ atServer' = Tail(atServer)
      /\ UNCHANGED <<loop, prompt, now, programVars, reachable, holds, turns, heldSince>>
  BY DEF Inv, Handle
<1>1. PICK throws \in BOOLEAN :
        toProgram' = Append(toProgram, [id |-> Head(atServer), holds |-> holds /\ ~throws, at |-> now])
  BY DEF Handle
<1> DEFINE answer == [id |-> Head(atServer), holds |-> holds /\ ~throws, at |-> now]
<1>2. /\ Head(atServer) \in 1 .. lastId /\ Tail(atServer) \in Seq(1 .. lastId)
  BY <1>0 DEF TypeOK
<1>3. answer \in Answer /\ answer.id = Head(atServer) /\ answer.at = now
  <2>1. (holds /\ ~throws) \in BOOLEAN
    OBVIOUS
  <2> QED
    BY <1>0, <1>2, <2>1 DEF TypeOK, Answer
<1> HIDE DEF answer
<1>4. toProgram' = Append(toProgram, answer)
  BY <1>1 DEF answer
<1>5. TypeOK'
  BY <1>0, <1>2, <1>3, <1>4 DEF TypeOK, programVars
<1>6. Answers'
  <2> SUFFICES ASSUME NEW i \in DOMAIN Append(toProgram, answer)
               PROVE  LET a == Append(toProgram, answer)[i] IN
                      /\ a.id <= lastId /\ a.at <= now
                      /\ phase = "asking" /\ a.id = lastId => a.at >= since
    BY <1>0, <1>4 DEF Answers, programVars
  <2>0. toProgram \in Seq(Answer) /\ now \in Nat /\ lastId \in Nat /\ since \in 0 .. now
    BY <1>0 DEF TypeOK
  <2>1. CASE i \in DOMAIN toProgram /\ Append(toProgram, answer)[i] = toProgram[i]
    BY <1>0, <2>1 DEF Answers
  <2>2. CASE Append(toProgram, answer)[i] = answer
    BY <1>2, <1>3, <2>0, <2>2
  <2>3. \/ i \in DOMAIN toProgram /\ Append(toProgram, answer)[i] = toProgram[i]
        \/ Append(toProgram, answer)[i] = answer
    BY <1>3, <2>0, Appended
  <2> QED
    BY <2>1, <2>2, <2>3
<1>7. OnTime' /\ FoundIsFresh'
  BY <1>0 DEF OnTime, OverrunBounded, FoundIsFresh, Limited, programVars
<1> QED
  BY <1>5, <1>6, <1>7 DEF Inv

LEMMA TurnInv == Inv /\ Turn => Inv'
<1> SUFFICES ASSUME Inv, Turn PROVE Inv'
  OBVIOUS
<1>1. TypeOK'
  <2>1. holds' \in BOOLEAN /\ heldSince' \in -1 .. now
    BY DEF Inv, TypeOK, Turn
  <2>2. turns' \in 0 .. MaxTurns
    BY LoopTypes DEF Inv, TypeOK, Turn
  <2> QED
    BY <2>1, <2>2 DEF Inv, TypeOK, Turn, programVars
<1>2. Answers' /\ OnTime' /\ FoundIsFresh'
  BY DEF Inv, Turn, Answers, OnTime, OverrunBounded, FoundIsFresh, Limited, programVars
<1> QED
  BY <1>1, <1>2 DEF Inv

LEMMA ServeInv == Inv /\ Serve => Inv'
<1> SUFFICES ASSUME Inv, Serve PROVE Inv'
  OBVIOUS
<1>1. TypeOK'
  BY DEF Inv, TypeOK, Serve, programVars
<1>2. Answers' /\ OnTime' /\ FoundIsFresh'
  BY DEF Inv, Serve, Answers, OnTime, OverrunBounded, FoundIsFresh, Limited, programVars
<1> QED
  BY <1>1, <1>2 DEF Inv

LEMMA HangUpInv == Inv /\ HangUp => Inv'
<1> SUFFICES ASSUME Inv, HangUp PROVE Inv'
  OBVIOUS
<1>1. TypeOK'
  <2>1. /\ atServer' \in Seq(1 .. lastId) /\ toProgram' \in Seq(Answer) /\ heldSince' \in -1 .. now
    BY DEF Inv, TypeOK, HangUp
  <2> QED
    BY <2>1 DEF Inv, TypeOK, HangUp, programVars
<1>2. Answers' /\ OnTime' /\ FoundIsFresh'
  BY DEF Inv, HangUp, Answers, OnTime, OverrunBounded, FoundIsFresh, Limited, programVars
<1> QED
  BY <1>1, <1>2 DEF Inv

LEMMA TickInv == Inv /\ Tick => Inv'
<1> SUFFICES ASSUME Inv, Tick PROVE Inv'
  OBVIOUS
<1>0. /\ TypeOK /\ Answers /\ OnTime /\ FoundIsFresh
      /\ now < MaxTime /\ now' = now + 1 /\ phase \in {"asking", "pausing"}
      /\ phase = "pausing" => now < since + loop.pause
      /\ phase = "asking" /\ Limited => now < since + loop.limit
      /\ UNCHANGED <<loop, prompt, programVars, serverVars, toProgram>>
  BY LoopTypes DEF Inv, Tick, Over, TypeOK
<1>1. TypeOK'
  BY <1>0, LoopTypes DEF TypeOK, programVars, serverVars
<1>2. Answers'
  <2> SUFFICES ASSUME NEW i \in DOMAIN toProgram
               PROVE  /\ toProgram[i].id <= lastId /\ toProgram[i].at <= now + 1
                      /\ phase = "asking" /\ toProgram[i].id = lastId => toProgram[i].at >= since
    BY <1>0 DEF Answers, programVars
  <2>0. toProgram[i] \in Answer
    BY <1>0 DEF TypeOK
  <2>1. toProgram[i].at \in Nat /\ now \in Nat
    BY <1>0, <2>0 DEF TypeOK, Answer
  <2> QED
    BY <1>0, <2>1 DEF Answers
<1>3. FoundIsFresh'
  BY <1>0 DEF FoundIsFresh, programVars
<1>4. OnTime'
  <2> SUFFICES ASSUME Limited' PROVE OnTime'
    BY DEF OnTime
  <2>1. /\ Limited /\ loop.timeout \in Nat /\ loop.pause \in Nat /\ loop.limit \in Nat
        /\ now \in Nat /\ since \in Nat
    BY <1>0, LoopTypes DEF Limited, TypeOK
  <2>2. CASE phase = "asking"
    BY <1>0, <2>1, <2>2 DEF OnTime, OverrunBounded, Limited, programVars
  <2>3. CASE phase = "pausing"
    BY <1>0, <2>1, <2>3 DEF OnTime, OverrunBounded, Limited, programVars
  <2> QED
    BY <1>0, <2>2, <2>3
<1> QED
  BY <1>1, <1>2, <1>3, <1>4 DEF Inv

-----------------------------------------------------------------------------
LEMMA NextInv == Inv /\ [Next]_vars => Inv'
<1> SUFFICES ASSUME Inv, [Next]_vars PROVE Inv'
  OBVIOUS
<1>1. CASE UNCHANGED vars
  BY <1>1 DEF vars, programVars, serverVars, Inv, TypeOK, Answers, OnTime, OverrunBounded,
              FoundIsFresh, Limited
<1> QED
  BY <1>1, CheckInv, ReceiveInv, GiveUpInv, WakeInv, HandleInv, TurnInv, ServeInv, HangUpInv,
     TickInv DEF Next, Program

LEMMA Invariance == Spec => []Inv
BY InitInv, NextInv, PTL DEF Spec

(* The variables of the loops keep their types, whatever is asked and answered when. *)
THEOREM TypeCorrect == Spec => []TypeOK
<1>1. Inv => TypeOK
  BY DEF Inv
<1> QED
  BY <1>1, Invariance, PTL

(* A loop that succeeds has seen the condition hold within the time of one attempt: an answer
   to an attempt that wait gave up does not count, however late it comes. *)
THEOREM FreshCorrect == Spec => []FoundIsFresh
<1>1. Inv => FoundIsFresh
  BY DEF Inv
<1> QED
  BY <1>1, Invariance, PTL

(* wait and initialPage are over at most one attempt and one pause after their deadline. *)
THEOREM OverrunCorrect == Spec => []OverrunBounded
<1>1. Inv => OverrunBounded
  BY DEF Inv, OnTime, OverrunBounded
<1> QED
  BY <1>1, Invariance, PTL

-----------------------------------------------------------------------------
(* What a loop that is answered promptly has missed *)

\* A prompt answer comes before an attempt is given up.
AnsweredInTime == \A l \in Loops : l.limit \in Nat /\ l.name # "initialPage" => Delay < l.limit

\* When the condition was last seen not to hold: after the attempt under way began, or at
\* most Delay before the pause, hence at most Delay and a pause before the next check.
Seen ==
  /\ heldSince >= 0 => holds /\ reachable
  /\ phase = "asking" => loop.name # "initialPage"
  /\ prompt =>
       /\ phase = "asking" =>
            /\ reachable /\ now <= since + Delay
            /\ heldSince >= 0 => \A i \in DOMAIN toProgram :
                 toProgram[i].id = lastId => toProgram[i].holds \/ toProgram[i].at <= heldSince
       /\ phase = "pausing" =>
            /\ now <= since + loop.pause
            /\ heldSince >= 0 => heldSince >= since - Delay
       /\ phase = "check" /\ heldSince >= 0 => heldSince >= now - Delay - loop.pause
       /\ NotMissed

LEMMA SeenInit == Init => Seen
<1> SUFFICES ASSUME Init PROVE Seen
  OBVIOUS
<1>1. loop \in Loops /\ Delay \in Nat /\ loop.pause \in Nat
  BY LoopsAssumption DEF Init
<1> QED
  BY <1>1 DEF Init, Seen, NotMissed

LEMMA SeenProgram == AnsweredInTime /\ Inv /\ Seen /\ Program => Seen'
<1> SUFFICES ASSUME AnsweredInTime, Inv, Seen, Program PROVE Seen'
  OBVIOUS
<1>0. /\ loop.timeout \in Nat /\ loop.pause \in Nat /\ Delay \in Nat /\ now \in Nat
      /\ since \in 0 .. now /\ heldSince \in -1 .. now /\ lastId \in Nat /\ loop \in Loops
      /\ toProgram \in Seq(Answer) /\ Answers
  BY LoopTypes DEF Inv, TypeOK
<1>a. UNCHANGED <<loop, prompt, now, reachable, holds, heldSince>>
  BY DEF Program, Check, Receive, GiveUp, Wake, serverVars
<1>1. CASE Check
  <2>1. /\ phase = "check" /\ since' = now /\ toProgram' = toProgram
        /\ \/ ~InTime /\ phase' = "timedOut"
           \/ InTime /\ phase' = "found"
           \/ InTime /\ phase' = "pausing" /\ (~holds \/ ~reachable)
           \/ /\ InTime /\ phase' = "asking" /\ loop.name # "initialPage" /\ reachable
              /\ lastId' = lastId + 1
    BY <1>1 DEF Check, Goto, Found, Pause
  <2>2. CASE ~InTime /\ phase' = "timedOut"
    <3>1. prompt /\ heldSince >= 0 => heldSince >= loop.timeout - Delay - loop.pause
      BY <1>0, <2>1, <2>2 DEF Seen, InTime
    <3> QED
      BY <1>a, <2>2, <3>1 DEF Seen, NotMissed
  <2>3. CASE phase' = "found"
    BY <1>a, <2>3 DEF Seen, NotMissed
  <2>4. CASE phase' = "pausing" /\ (~holds \/ ~reachable)
    BY <1>0, <1>a, <2>1, <2>4 DEF Seen, NotMissed
  <2>5. CASE phase' = "asking" /\ loop.name # "initialPage" /\ reachable /\ lastId' = lastId + 1
    <3>1. \A i \in DOMAIN toProgram : toProgram[i].id # lastId'
      BY <1>0, <2>5 DEF Answers, Answer
    <3> QED
      BY <1>0, <1>a, <2>1, <2>5, <3>1 DEF Seen, NotMissed
  <2> QED
    BY <2>1, <2>2, <2>3, <2>4, <2>5
<1>2. CASE Receive
  <2> DEFINE answer == Head(toProgram)
  <2>1. /\ toProgram # << >> /\ toProgram' = Tail(toProgram) /\ UNCHANGED lastId
        /\ \/ /\ phase = "asking" /\ answer.id = lastId /\ ~answer.holds
              /\ phase' = "pausing" /\ since' = now
           \/ phase' = "found"
           \/ UNCHANGED <<phase, since>>
    BY <1>2 DEF Receive, Found, Pause, Goto, Matches
  <2>2. answer = toProgram[1] /\ 1 \in DOMAIN toProgram /\ answer \in Answer
    BY <1>0, <2>1
  <2> HIDE DEF answer
  <2>3. CASE phase = "asking" /\ answer.id = lastId /\ ~answer.holds /\ phase' = "pausing" /\ since' = now
    <3>1. answer.at \in Nat /\ answer.at >= since
      BY <1>0, <2>2, <2>3 DEF Answers, Answer
    <3>2. prompt /\ heldSince >= 0 => answer.at <= heldSince /\ now <= since + Delay
      BY <2>2, <2>3 DEF Seen
    <3>3. prompt /\ heldSince >= 0 => heldSince >= now - Delay
      BY <1>0, <3>1, <3>2
    <3> QED
      BY <1>0, <1>a, <2>3, <3>3 DEF Seen, NotMissed
  <2>4. CASE phase' = "found"
    BY <1>a, <2>4 DEF Seen, NotMissed
  <2>5. CASE UNCHANGED <<phase, since>>
    <3>1. \A i \in DOMAIN Tail(toProgram) :
            i + 1 \in DOMAIN toProgram /\ Tail(toProgram)[i] = toProgram[i + 1]
      BY <1>0, <2>1
    <3>2. (\A i \in DOMAIN toProgram :
             toProgram[i].id = lastId => toProgram[i].holds \/ toProgram[i].at <= heldSince)
          => \A i \in DOMAIN toProgram' :
               toProgram'[i].id = lastId => toProgram'[i].holds \/ toProgram'[i].at <= heldSince
      BY <2>1, <3>1
    <3> QED
      BY <1>a, <2>1, <2>5, <3>2 DEF Seen, NotMissed
  <2> QED
    BY <2>1, <2>3, <2>4, <2>5
<1>3. CASE GiveUp
  <2>1. phase = "asking" /\ phase' = "pausing" /\ (~reachable \/ (Limited /\ now >= since + loop.limit))
    BY <1>3 DEF GiveUp, Pause, Goto
  <2>2. ~prompt
    <3>1. SUFFICES ASSUME prompt PROVE FALSE
      OBVIOUS
    <3>2. reachable /\ now <= since + Delay /\ loop.name # "initialPage"
      BY <2>1, <3>1 DEF Seen
    <3>3. loop.limit \in Nat /\ Delay < loop.limit
      BY <1>0, <2>1, <3>2, LoopTypes DEF AnsweredInTime, Inv
    <3> QED
      BY <1>0, <2>1, <3>2, <3>3
  <2> QED
    BY <1>a, <2>1, <2>2 DEF Seen
<1>4. CASE Wake
  <2>1. phase = "pausing" /\ phase' = "check"
    BY <1>4 DEF Wake, Goto
  <2> QED
    BY <1>0, <1>a, <2>1 DEF Seen, NotMissed
<1> QED
  BY <1>1, <1>2, <1>3, <1>4 DEF Program

LEMMA SeenOutside ==
  Inv /\ Seen /\ (Handle \/ Turn \/ Serve \/ HangUp \/ Tick \/ UNCHANGED vars) => Seen'
<1> SUFFICES ASSUME Inv, Seen, Handle \/ Turn \/ Serve \/ HangUp \/ Tick \/ UNCHANGED vars
             PROVE  Seen'
  OBVIOUS
<1>0. /\ loop.timeout \in Nat /\ loop.pause \in Nat /\ Delay \in Nat /\ now \in Nat
      /\ since \in 0 .. now /\ heldSince \in -1 .. now /\ lastId \in Nat
      /\ toProgram \in Seq(Answer) /\ Answers
  BY LoopTypes DEF Inv, TypeOK
<1>1. CASE Handle
  <2>1. PICK throws \in BOOLEAN :
          /\ throws => ~prompt
          /\ toProgram' = Append(toProgram, [id |-> Head(atServer), holds |-> holds /\ ~throws, at |-> now])
    BY <1>1 DEF Handle
  <2> DEFINE answer == [id |-> Head(atServer), holds |-> holds /\ ~throws, at |-> now]
  <2>2. answer \in Answer /\ toProgram' = Append(toProgram, answer)
    <3>1. Head(atServer) \in Nat /\ (holds /\ ~throws) \in BOOLEAN
      BY <1>1 DEF Handle, Inv, TypeOK
    <3> QED
      BY <1>0, <2>1, <3>1 DEF Answer
  <2>3. prompt /\ heldSince >= 0 => answer.holds
    BY <2>1 DEF Seen
  <2> HIDE DEF answer
  <2>4. UNCHANGED <<loop, prompt, now, phase, since, lastId, reachable, holds, heldSince>>
    BY <1>1 DEF Handle, programVars
  <2>5. \A i \in DOMAIN toProgram' : \/ i \in DOMAIN toProgram /\ toProgram'[i] = toProgram[i]
                                     \/ toProgram'[i] = answer
    BY <1>0, <2>2, Appended
  <2>6. prompt /\ phase = "asking" /\ heldSince >= 0 => \A i \in DOMAIN toProgram' :
          toProgram'[i].id = lastId => toProgram'[i].holds \/ toProgram'[i].at <= heldSince
    <3>1. prompt /\ phase = "asking" /\ heldSince >= 0 => \A i \in DOMAIN toProgram :
            toProgram[i].id = lastId => toProgram[i].holds \/ toProgram[i].at <= heldSince
      BY DEF Seen
    <3> QED
      BY <2>3, <2>5, <3>1
  <2> QED
    BY <2>4, <2>6 DEF Seen, NotMissed
<1>2. CASE Turn
  <2>1. /\ phase # "timedOut" /\ UNCHANGED <<loop, prompt, now, phase, since, lastId, reachable, toProgram>>
        /\ (holds' /\ reachable /\ heldSince' = now) \/ heldSince' = -1
    BY <1>2 DEF Turn, programVars, Over
  <2>2. \A i \in DOMAIN toProgram : toProgram[i].at <= now
    BY <1>0 DEF Answers
  <2> QED
    BY <1>0, <2>1, <2>2 DEF Seen, NotMissed
<1>3. CASE Serve
  <2>1. /\ phase # "timedOut" /\ UNCHANGED <<loop, prompt, now, phase, since, lastId, holds, toProgram>>
        /\ ~reachable /\ reachable' /\ ((holds /\ heldSince' = now) \/ heldSince' = -1)
    BY <1>3 DEF Serve, programVars, Over
  <2> QED
    BY <1>0, <2>1 DEF Seen, NotMissed
<1>4. CASE HangUp
  <2>1. /\ ~prompt /\ UNCHANGED <<loop, prompt, phase>> /\ heldSince' = -1
    BY <1>4 DEF HangUp, programVars
  <2> QED
    BY <2>1 DEF Seen
<1>5. CASE Tick
  <2>1. /\ phase \notin {"check", "timedOut"} /\ now' = now + 1
        /\ phase = "pausing" => now < since + loop.pause
        /\ phase = "asking" /\ prompt => now < since + Delay
        /\ UNCHANGED <<loop, prompt, phase, since, lastId, reachable, holds, heldSince, toProgram>>
    BY <1>0, <1>5 DEF Tick, Over, programVars, serverVars
  <2> QED
    BY <1>0, <2>1 DEF Seen, NotMissed
<1>6. CASE UNCHANGED vars
  BY <1>6 DEF vars, programVars, serverVars, Seen, NotMissed
<1> QED
  BY <1>1, <1>2, <1>3, <1>4, <1>5, <1>6

(* A condition that holds since before the last attempt could still see it is not missed, for
   any timeout and pause, when prompt answers come before the attempt is given up. *)
THEOREM NotMissedCorrect ==
  ASSUME AnsweredInTime
  PROVE  Spec => []NotMissed
<1>1. Seen => NotMissed
  BY DEF Seen, NotMissed
<1>2. Inv /\ Seen /\ [Next]_vars => Seen'
  BY SeenProgram, SeenOutside DEF Next
<1> QED
  BY <1>1, <1>2, SeenInit, Invariance, PTL DEF Spec
=============================================================================

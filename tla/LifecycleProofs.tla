---------------------------- MODULE LifecycleProofs ----------------------------
(***************************************************************************)
(* Theorems about Lifecycle for any commands, ports and engines.           *)
(*                                                                         *)
(* StopSparesOthers holds of any workload: a port gets to a stop through   *)
(* the state file only, and only a start writes a port of its own there    *)
(* (Recorded, Knows, Aimed).                                               *)
(*                                                                         *)
(* The properties of undisturbed commands need to know what the engines    *)
(* and the state file look like at each step of the one command that runs  *)
(* (Phase), and between two commands (Settled).  They are proved of        *)
(* workloads whose starts are those of the Node program, as a native start *)
(* leaves its engine behind when it gives up, and where nobody launched an *)
(* engine by hand on a port of a start: stop takes any engine of the port. *)
(***************************************************************************)
EXTENDS Lifecycle, TLAPS

Asked(p) == \E d \in Cmds : cmd[d].op = "start" /\ cmd[d].port = p

StartSteps == {"probeState", "probePort", "launch", "poll", "sweep"}
WriteSteps == {"truncate", "fill"}
StopSteps  == {"find", "kill", "wait", "clear"}

(* Which command may be where, and when it has read a state. *)
Placed ==
  \A c \in Cmds :
    /\ pc[c] \in StartSteps => cmd[c].op = "start"
    /\ pc[c] \in WriteSteps => cmd[c].op \in {"start", "client"}
    /\ pc[c] \in StopSteps  => cmd[c].op = "stop"
    /\ pc[c] \in StopSteps \/ pc[c] = "probeState" => seen[c] # NoState
    /\ pc[c] \in WriteSteps /\ cmd[c].op = "client" => seen[c] # NoState

Knows ==
  /\ file # NoState /\ file.data # Torn => Asked(file.data.port)
  /\ \A c \in Cmds : seen[c] # NoState => Asked(seen[c].port)

Aimed ==
  \A c \in Cmds : pc[c] = "kill" =>
    victim[c] \in Engines /\ EnginePort(victim[c]) = seen[c].port

SharedInv == TypeOK /\ Placed /\ Knows /\ Aimed /\ StopSparesOthers

(* What the assumptions say of the commands that run. *)
LEMMA WorkloadTypes ==
  ASSUME TypeOK
  PROVE  /\ cmd \in [Cmds -> Invocations] /\ Serial \in BOOLEAN /\ MayFail \in BOOLEAN
         /\ \A c \in Cmds : cmd[c].port \in Ports
<1>1. workload \in [cmd : [Cmds -> Invocations], serial : BOOLEAN, mayFail : BOOLEAN]
  BY WorkloadsAssumption DEF TypeOK
<1>2. \A i \in Invocations : i.port \in Ports
  BY InvocationsAssumption, UnusedAssumption
<1> QED
  BY <1>1, <1>2 DEF cmd, Serial, MayFail

LEMMA EnginePorts ==
  ASSUME TypeOK, NEW e \in Engines
  PROVE  EnginePort(e) \in Ports
BY WorkloadTypes, StraysAssumption DEF EnginePort, Engines

(* What a command reads is what the file holds, when it holds a state. *)
LEMMA ReadTypes ==
  ASSUME TypeOK
  PROVE  /\ ReadState \in State \cup {NoState}
         /\ ReadState # NoState =>
              /\ file # NoState /\ file.data # Torn /\ file.data \in State
              /\ ReadState = file.data
<1>1. CASE file = NoState \/ file.data = Torn
  BY <1>1 DEF ReadState
<1>2. CASE file # NoState /\ file.data # Torn
  <2>1. file \in [creator : Cmds, data : State \cup {Torn}]
    BY <1>2 DEF TypeOK
  <2> QED
    BY <1>2, <2>1 DEF ReadState
<1> QED
  BY <1>1, <1>2

(* What is written is a state of the command that writes. *)
LEMMA WrittenType ==
  ASSUME TypeOK, Placed, NEW c \in Cmds, pc[c] \in WriteSteps
  PROVE  Written(c) \in State
<1>1. CASE cmd[c].op = "start"
  BY <1>1, WorkloadTypes DEF Written, State
<1>2. CASE cmd[c].op = "client"
  <2>1. seen[c] # NoState
    BY <1>2 DEF Placed
  <2> QED
    BY <1>2, <2>1 DEF Written, TypeOK
<1> QED
  BY <1>1, <1>2 DEF Placed

LEMMA InitShared == Init => SharedInv
<1> SUFFICES ASSUME Init PROVE SharedInv
  OBVIOUS
<1>1. TypeOK
  BY DEF Init, TypeOK, Ended
<1>2. Placed /\ Knows /\ Aimed
  BY DEF Init, Placed, Knows, Aimed, StartSteps, WriteSteps, StopSteps
<1>3. StopSparesOthers
  BY DEF Init, StopSparesOthers, Engines
<1> QED
  BY <1>1, <1>2, <1>3 DEF SharedInv

-----------------------------------------------------------------------------
(* Type correctness *)

(* The steps of the commands, apart from those that kill. *)
LEMMA StepType ==
  ASSUME TypeOK, Placed, NEW c \in Cmds, Step(c) \/ Interrupt(c)
  PROVE  TypeOK'
<1> USE DEF Ended
<1>1. CASE BeginStart(c)
  BY <1>1, ReadTypes DEF BeginStart, Begin, Go, TypeOK
<1>2. CASE ProbeState(c)
  BY <1>2 DEF ProbeState, Go, TypeOK
<1>3. CASE ProbePort(c)
  BY <1>3 DEF ProbePort, Go, TypeOK
<1>4. CASE Launch(c)
  BY <1>4 DEF Launch, Go, TypeOK, Listed
<1>5. CASE PollReady(c)
  BY <1>5 DEF PollReady, Go, TypeOK
<1>6. CASE PollTimeout(c)
  BY <1>6 DEF PollTimeout, Go, TypeOK
<1>7. CASE Sweep(c)
  BY <1>7 DEF Sweep, Kill, Go, TypeOK, Listed
<1>8. CASE Truncate(c)
  BY <1>8 DEF Truncate, Go, TypeOK
<1>9. CASE Fill(c)
  <2>1. Written(c) \in State
    BY <1>9, WrittenType DEF Fill, WriteSteps
  <2> QED
    BY <1>9, <2>1 DEF Fill, Go, TypeOK
<1>10. CASE BeginClient(c)
  BY <1>10, ReadTypes DEF BeginClient, Begin, Go, TypeOK
<1>11. CASE BeginStop(c)
  BY <1>11, ReadTypes DEF BeginStop, Begin, Go, TypeOK
<1>12. CASE Find(c)
  BY <1>12 DEF Find, FindPidByPort, Go, TypeOK
<1>13. CASE KillVictim(c)
  BY <1>13 DEF KillVictim, Kill, Go, TypeOK, Listed
<1>14. CASE Wait(c)
  BY <1>14 DEF Wait, Go, TypeOK
<1>15. CASE Clear(c)
  BY <1>15 DEF Clear, Go, TypeOK
<1>16. CASE Interrupt(c)
  BY <1>16 DEF Interrupt, Go, TypeOK
<1> QED
  BY <1>1, <1>2, <1>3, <1>4, <1>5, <1>6, <1>7, <1>8, <1>9, <1>10, <1>11, <1>12, <1>13, <1>14,
     <1>15, <1>16 DEF Step

LEMMA EngineType ==
  ASSUME TypeOK, NEW e \in Engines, Boot(e) \/ EngineExit(e) \/ LaunchStray(e)
  PROVE  TypeOK'
BY DEF Boot, EngineExit, LaunchStray, TypeOK, Listed

LEMMA NextCases ==
  ASSUME Next
  PROVE  \/ \E c \in Cmds : Step(c) \/ Interrupt(c)
         \/ \E e \in Engines : Boot(e) \/ EngineExit(e) \/ (LaunchStray(e) /\ e \in Strays)
BY DEF Next, Engines

-----------------------------------------------------------------------------
(* A stop kills on the ports of starts only *)

(* What a step of command c does to the commands. *)
LEMMA StepPlaced ==
  ASSUME TypeOK, Placed, NEW c \in Cmds, Step(c) \/ Interrupt(c)
  PROVE  Placed'
<1>1. workload' = workload /\ cmd' = cmd
  BY DEF Step, Interrupt, BeginStart, BeginStop, BeginClient, Begin, ProbeState, ProbePort, Launch, PollReady,
         PollTimeout, Sweep, Truncate, Fill, Find, KillVictim, Wait, Clear, cmd
<1> DEFINE At == pc'[c]
<1>2. pc' = [pc EXCEPT ![c] = At] /\ \A d \in Cmds \ {c} : pc'[d] = pc[d] /\ seen'[d] = seen[d]
  BY DEF Step, Interrupt, BeginStart, BeginStop, BeginClient, Begin, ProbeState, ProbePort, Launch, PollReady,
         PollTimeout, Sweep, Truncate, Fill, Find, KillVictim, Wait, Clear, Go, TypeOK
<1>3. /\ At \in StartSteps => cmd[c].op = "start"
      /\ At \in WriteSteps => cmd[c].op \in {"start", "client"}
      /\ At \in StopSteps  => cmd[c].op = "stop"
      /\ At \in StopSteps \/ At = "probeState" => seen'[c] # NoState
      /\ At \in WriteSteps /\ cmd[c].op = "client" => seen'[c] # NoState
  <2> USE DEF TypeOK, Go, StartSteps, WriteSteps, StopSteps, Placed, Ended
  <2>1. CASE BeginStart(c) \/ BeginClient(c) \/ BeginStop(c)
    BY <2>1 DEF BeginStart, BeginClient, BeginStop, Begin
  <2>2. CASE ProbeState(c) \/ ProbePort(c) \/ Launch(c) \/ PollReady(c) \/ PollTimeout(c)
    BY <2>2 DEF ProbeState, ProbePort, Launch, PollReady, PollTimeout
  <2>3. CASE Sweep(c) \/ Truncate(c) \/ Fill(c)
    BY <2>3 DEF Sweep, Truncate, Fill
  <2>4. CASE Find(c) \/ KillVictim(c) \/ Wait(c) \/ Clear(c) \/ Interrupt(c)
    BY <2>4 DEF Find, KillVictim, Wait, Clear, Interrupt
  <2> QED
    BY <2>1, <2>2, <2>3, <2>4 DEF Step
<1> QED
  BY <1>1, <1>2, <1>3 DEF Placed

(* Only a start writes a port of its own; every other port written was read before. *)
LEMMA StepKnows ==
  ASSUME TypeOK, Placed, Knows, NEW c \in Cmds, Step(c) \/ Interrupt(c)
  PROVE  Knows'
<1>0. ASSUME cmd' = cmd, NEW p, Asked(p) PROVE Asked(p)'
  BY <1>0 DEF Asked
<1>1. CASE BeginStart(c) \/ BeginClient(c) \/ BeginStop(c)
  <2>1. cmd' = cmd /\ file' = file /\ seen' = [seen EXCEPT ![c] = ReadState]
    BY <1>1 DEF BeginStart, BeginClient, BeginStop, Begin, cmd
  <2>2. ReadState # NoState => Asked(ReadState.port)
    BY ReadTypes DEF Knows
  <2> QED
    BY <1>0, <2>1, <2>2 DEF Knows, TypeOK
<1>2. CASE Truncate(c)
  BY <1>0, <1>2 DEF Truncate, Knows, cmd
<1>3. CASE Fill(c)
  <2>1. cmd' = cmd /\ seen' = seen /\ pc[c] \in WriteSteps
    BY <1>3 DEF Fill, cmd, WriteSteps
  <2>2. Asked(Written(c).port)
    <3>1. CASE cmd[c].op = "start"
      BY <3>1 DEF Written, Asked
    <3>2. CASE cmd[c].op = "client"
      BY <2>1, <3>2 DEF Written, Placed, Knows
    <3> QED
      BY <2>1, <3>1, <3>2 DEF Placed
  <2>3. file' = file \/ (file' # NoState /\ file'.data # Torn => file'.data = Written(c))
    <3>1. CASE file # NoState /\ file.creator = handle[c]
      <4>1. file \in [creator : Cmds, data : State \cup {Torn}]
        BY <3>1 DEF TypeOK
      <4>2. PICK data : file' = [file EXCEPT !.data = data] /\ data \in {Written(c), Torn}
        BY <1>3, <3>1 DEF Fill
      <4> QED
        BY <4>1, <4>2
    <3>2. CASE ~(file # NoState /\ file.creator = handle[c])
      BY <1>3, <3>2 DEF Fill
    <3> QED
      BY <3>1, <3>2
  <2> QED
    BY <1>0, <2>1, <2>2, <2>3 DEF Knows
<1>4. CASE Clear(c)
  BY <1>0, <1>4 DEF Clear, Knows, cmd
<1>5. CASE UNCHANGED <<workload, seen, file>>
  BY <1>0, <1>5 DEF Knows, cmd
<1> QED
  BY <1>1, <1>2, <1>3, <1>4, <1>5 DEF Step, Interrupt, ProbeState, ProbePort, Launch, PollReady, PollTimeout,
     Sweep, Find, KillVictim, Wait

(* The engine a stop is about to kill serves the port of the state it read. *)
LEMMA StepAimed ==
  ASSUME TypeOK, Placed, Aimed, NEW c \in Cmds, Step(c) \/ Interrupt(c)
  PROVE  Aimed'
<1>1. cmd' = cmd /\ \A e : EnginePort(e)' = EnginePort(e)
  BY DEF Step, Interrupt, BeginStart, BeginStop, BeginClient, Begin, ProbeState, ProbePort, Launch, PollReady,
         PollTimeout, Sweep, Truncate, Fill, Find, KillVictim, Wait, Clear, cmd, EnginePort
<1>2. \A d \in Cmds \ {c} : pc'[d] = pc[d] /\ seen'[d] = seen[d] /\ victim'[d] = victim[d]
  BY DEF Step, Interrupt, BeginStart, BeginStop, BeginClient, Begin, ProbeState, ProbePort, Launch, PollReady,
         PollTimeout, Sweep, Truncate, Fill, Find, KillVictim, Wait, Clear, Go, TypeOK
<1>3. CASE Find(c)
  <2>1. PICK e \in FindPidByPort(seen[c].port) :
          victim' = [victim EXCEPT ![c] = e] /\ Go(c, IF e = NoCmd THEN "clear" ELSE "kill")
    BY <1>3 DEF Find
  <2>2. e # NoCmd => e \in Engines /\ EnginePort(e) = seen[c].port
    BY DEF FindPidByPort
  <2>3. pc'[c] = "kill" => e # NoCmd
    BY <2>1 DEF Go, TypeOK
  <2>4. victim'[c] = e /\ seen' = seen
    BY <1>3, <2>1 DEF Find, TypeOK
  <2> QED
    BY <1>1, <1>2, <2>2, <2>3, <2>4 DEF Aimed
<1>4. CASE ~Find(c)
  <2>1. pc'[c] # "kill"
    BY <1>4 DEF Step, Interrupt, BeginStart, BeginStop, BeginClient, Begin, ProbeState, ProbePort, Launch,
       PollReady, PollTimeout, Sweep, Truncate, Fill, KillVictim, Wait, Clear, Go, TypeOK
  <2> QED
    BY <1>1, <1>2, <2>1 DEF Aimed
<1> QED
  BY <1>3, <1>4

LEMMA StepSpares ==
  ASSUME TypeOK, Placed, Knows, Aimed, StopSparesOthers, NEW c \in Cmds, Step(c) \/ Interrupt(c)
  PROVE  StopSparesOthers'
<1>1. cmd' = cmd
  BY DEF Step, Interrupt, BeginStart, BeginStop, BeginClient, Begin, ProbeState, ProbePort, Launch, PollReady,
         PollTimeout, Sweep, Truncate, Fill, Find, KillVictim, Wait, Clear, cmd
<1> SUFFICES ASSUME NEW e \in Strays, \A d \in Cmds : cmd[d].op = "start" => cmd[d].port # StrayPort[e],
                    NEW k \in causes'[e]
             PROVE  cmd[k].op # "stop"
  BY <1>1 DEF StopSparesOthers
<1>2. CASE k \in causes[e]
  BY <1>2 DEF StopSparesOthers
<1>3. CASE k \notin causes[e]
  <2>1. k = c /\ (Sweep(c) \/ (KillVictim(c) /\ e = victim[c]))
    BY <1>3 DEF Step, Interrupt, BeginStart, BeginStop, BeginClient, Begin, ProbeState, ProbePort, Launch,
       PollReady, PollTimeout, Sweep, Truncate, Fill, Find, KillVictim, Wait, Clear, Kill, Engines
  <2>2. CASE Sweep(c)
    BY <2>1, <2>2 DEF Sweep, Placed, StartSteps
  <2>3. CASE KillVictim(c) /\ e = victim[c]
    <3>1. EnginePort(e) = seen[c].port /\ seen[c] # NoState
      BY <2>3 DEF KillVictim, Aimed, Placed, StopSteps
    <3>2. EnginePort(e) = StrayPort[e]
      BY StraysAssumption DEF EnginePort
    <3> QED
      BY <3>1, <3>2 DEF Knows, Asked
  <2> QED
    BY <2>1, <2>2, <2>3
<1> QED
  BY <1>2, <1>3

LEMMA EngineShared ==
  ASSUME SharedInv, NEW e \in Engines, Boot(e) \/ EngineExit(e) \/ LaunchStray(e)
  PROVE  SharedInv'
<1>1. UNCHANGED <<workload, pc, seen, victim, file, causes>>
  BY DEF Boot, EngineExit, LaunchStray
<1>2. TypeOK'
  BY EngineType DEF SharedInv
<1>3. Placed' /\ Knows' /\ Aimed' /\ StopSparesOthers'
  BY <1>1 DEF SharedInv, Placed, Knows, Aimed, StopSparesOthers, Asked, cmd, EnginePort
<1> QED
  BY <1>2, <1>3 DEF SharedInv

LEMMA NextShared == SharedInv /\ [Next]_vars => SharedInv'
<1> SUFFICES ASSUME SharedInv, [Next]_vars PROVE SharedInv'
  OBVIOUS
<1>1. ASSUME NEW c \in Cmds, Step(c) \/ Interrupt(c) PROVE SharedInv'
  BY <1>1, StepType, StepPlaced, StepKnows, StepAimed, StepSpares DEF SharedInv
<1>2. CASE UNCHANGED vars
  BY <1>2 DEF vars, SharedInv, TypeOK, Placed, Knows, Aimed, StopSparesOthers, Asked, cmd, EnginePort
<1> QED
  BY <1>1, <1>2, EngineShared, NextCases

LEMMA SharedCorrect == Spec => []SharedInv
BY InitShared, NextShared, PTL DEF Spec

(* Every variable has its type: whatever commands run at once, fail or are interrupted, what
   the state file holds and what a command has read is a state some start could write. *)
THEOREM TypeCorrect == Spec => []TypeOK
<1>1. SharedInv => TypeOK
  BY DEF SharedInv
<1> QED
  BY <1>1, SharedCorrect, PTL

(* stop never kills a Starfish on a port no start was asked for, however many commands of
   either program run at once, fail and are interrupted: the port it kills on was read from
   the state file, and what a client command writes back there was read from it too. *)
THEOREM StopSparesOthersCorrect == Spec => []StopSparesOthers
<1>1. SharedInv => StopSparesOthers
  BY DEF SharedInv
<1> QED
  BY <1>1, SharedCorrect, PTL

-----------------------------------------------------------------------------
(* Undisturbed commands *)

(* A native start that times out leaves its engine behind; an engine launched by hand on a
   start's port is taken for that start's own. *)
NodeStarts  == \A c \in Cmds : cmd[c].op = "start" => cmd[c].impl = "node"
StraysApart == \A e \in Strays : ~Asked(StrayPort[e])
Managed     == Undisturbed /\ NodeStarts /\ StraysApart

Alone == \A c, d \in Cmds : Active(c) /\ Active(d) => c = d

(* No engine a start launched is left, but for those of set. *)
NoneBut(set) == \A b \in Cmds \ set : engine[b] \notin Listed

Records(s, b) == s = [port |-> cmd[b].port, by |-> b]
Recorded(b)   == file # NoState /\ Records(file.data, b)

(* A state written by a start that succeeded and whose engine nobody killed. *)
Current(s) == \E b \in Cmds : Records(s, b) /\ Started(b) /\ causes[b] = {}
Kept       == file # NoState => file.data # Torn /\ Current(file.data)

Settled == Kept /\ \A b \in Cmds : engine[b] \in Listed => engine[b] = "up" /\ Recorded(b)

(* The command c read the state file, which is still the same. *)
Read(c) == Settled /\ file # NoState /\ seen[c] = file.data

Phase(c) ==
  LET at == pc[c]
      start == cmd[c].op = "start"
  IN /\ at \in {"probeState", "find", "kill"} \/ (at = "truncate" /\ ~start) => Read(c)
     /\ at = "kill" => victim[c] \in Cmds /\ Recorded(victim[c])
     /\ at \in {"probePort", "launch"} => Kept /\ NoneBut({})
     /\ at \in {"poll", "sweep"} \/ (at = "truncate" /\ start) => Kept /\ NoneBut({c})
     /\ at = "poll" => engine[c] \in {"booting", "up", "gone"}
     /\ at \in WriteSteps /\ start => engine[c] \in {"up", "gone"}
     /\ at = "fill" => file # NoState /\ file.creator = handle[c] /\ file.data = Torn
     /\ at = "fill" /\ start => NoneBut({c})
     /\ at = "fill" /\ ~start =>
          /\ Current(seen[c])
          /\ \A b \in Cmds : engine[b] \in Listed => engine[b] = "up" /\ Records(seen[c], b)
     /\ at = "wait" => \A b \in Cmds : engine[b] \in Listed => engine[b] = "dying" /\ b = victim[c]
     /\ at = "clear" => NoneBut({})

(* The engine of a start that has not launched it yet, and of one that has. *)
Unharmed ==
  \A c \in Cmds :
    /\ pc[c] \in {"new", "probeState", "probePort", "launch"} => engine[c] = "none" /\ causes[c] = {}
    /\ pc[c] \in {"poll", "truncate", "fill"} /\ cmd[c].op = "start" => causes[c] = {}

OneByOne ==
  /\ Alone /\ Unharmed
  /\ Idle => Settled
  /\ \A c \in Cmds : Active(c) => Phase(c)

ManagedInv == SharedInv /\ (Managed => OneByOne)

(* On the port of a start only an engine that some start launched can answer. *)
LEMMA AnswersFrom ==
  ASSUME TypeOK, Managed, NEW p, Asked(p), Listening(p)
  PROVE  \E b \in Cmds : engine[b] = "up" /\ cmd[b].port = p
<1>1. PICK e \in Engines : engine[e] = "up" /\ EnginePort(e) = p
  BY DEF Listening
<1>2. e \in Cmds
  BY <1>1, StraysAssumption DEF Managed, StraysApart, EnginePort, Engines
<1> QED
  BY <1>1, <1>2 DEF EnginePort

(* While a command is at work no other is, and nobody is deceived. *)
LEMMA Undeceived ==
  ASSUME Managed, OneByOne, NEW c \in Cmds, Active(c)
  PROVE  /\ \A d \in Cmds \ {c} : ~Active(d)
         /\ Phase(c)
         /\ \A p : Probe(p) = {Listening(p)}
BY DEF Managed, Undisturbed, OneByOne, Alone, Probe

(* A state that is current stays so whatever a command still at work does, unless it kills
   the engine of another. *)
LEMMA CurrentStays ==
  ASSUME TypeOK, NEW c \in Cmds, NEW at, Go(c, at), pc[c] # "ok", cmd' = cmd,
         \A b \in Cmds \ {c} : causes'[b] = causes[b],
         NEW s, Current(s)
  PROVE  Current(s)'
<1>1. PICK b \in Cmds : Records(s, b) /\ Started(b) /\ causes[b] = {}
  BY DEF Current
<1>2. b # c /\ pc'[b] = pc[b]
  BY <1>1 DEF Started, Go, TypeOK
<1> QED
  BY <1>1, <1>2 DEF Current, Records, Started

(* What is to be shown of a step of one command. *)
LEMMA Moved ==
  ASSUME TypeOK, Managed, NEW c \in Cmds, NEW at, Go(c, at), workload' = workload, at # "new",
         \A d \in Cmds \ {c} : ~Active(d),
         Unharmed', at \in Ended => Settled', at \notin Ended => Phase(c)'
  PROVE  OneByOne'
<1>1. pc'[c] = at /\ \A d \in Cmds \ {c} : pc'[d] = pc[d]
  BY DEF Go, TypeOK
<1>2. \A d \in Cmds \ {c} : ~Active(d)'
  BY <1>1 DEF Active
<1>3. Active(c)' <=> at \notin Ended
  BY <1>1 DEF Active
<1> QED
  BY <1>2, <1>3 DEF OneByOne, Alone, Idle

(* What holds of the engines and the histories of the commands that have not launched any. *)
LEMMA StaysUnharmed ==
  ASSUME TypeOK, Unharmed, NEW c \in Cmds, NEW at, Go(c, at), workload' = workload,
         \A b \in Cmds \ {c} : engine[b] = "none" => engine'[b] = "none",
         \A b \in Cmds \ {c} : causes[b] = {} => causes'[b] = {},
         at \in {"new", "probeState", "probePort", "launch"} => engine'[c] = "none" /\ causes'[c] = {},
         at \in {"poll", "truncate", "fill"} /\ cmd[c].op = "start" => causes'[c] = {}
  PROVE  Unharmed'
<1>1. pc'[c] = at /\ \A d \in Cmds \ {c} : pc'[d] = pc[d]
  BY DEF Go, TypeOK
<1>2. cmd' = cmd
  BY DEF cmd
<1> QED
  BY <1>1, <1>2 DEF Unharmed

-----------------------------------------------------------------------------
(* The steps of undisturbed commands *)

(* Between two commands a read finds the state of the file, or the file is absent. *)
LEMMA ReadSettled ==
  ASSUME TypeOK, Settled
  PROVE  /\ ReadState = NoState => file = NoState /\ NoneBut({})
         /\ ReadState # NoState => file # NoState /\ ReadState = file.data
<1>1. CASE file = NoState
  BY <1>1 DEF ReadState, Settled, Recorded, NoneBut
<1>2. CASE file # NoState
  <2>1. file.data # Torn /\ file.data \in State \cup {Torn}
    BY <1>2 DEF Settled, Kept, TypeOK
  <2>2. ReadState = file.data /\ ReadState # NoState
    BY <1>2, <2>1, NullsAssumption DEF ReadState, State
  <2> QED
    BY <1>2, <2>2
<1> QED
  BY <1>1, <1>2

(* A command that only moves on, or only reads, leaves things settled or kept. *)
LEMMA SettledStays ==
  ASSUME TypeOK, NEW c \in Cmds, NEW at, Go(c, at), pc[c] # "ok",
         UNCHANGED <<workload, file, engine, causes>>
  PROVE  /\ Settled => Settled'
         /\ Kept => Kept'
<1>1. cmd' = cmd
  BY DEF cmd
<1>2. Kept => Kept'
  BY <1>1, CurrentStays DEF Kept
<1>3. \A b : Recorded(b) => Recorded(b)'
  BY <1>1 DEF Recorded, Records
<1> QED
  BY <1>2, <1>3 DEF Settled

LEMMA BeginsManaged ==
  ASSUME TypeOK, Managed, OneByOne, NEW c \in Cmds,
         BeginStart(c) \/ BeginClient(c) \/ BeginStop(c)
  PROVE  OneByOne'
<1>0. /\ pc[c] = "new" /\ (\A d \in Cmds : ~Active(d)) /\ Settled /\ Unharmed
      /\ UNCHANGED <<workload, file, engine, causes>> /\ seen'[c] = ReadState /\ cmd' = cmd
  BY DEF BeginStart, BeginClient, BeginStop, Begin, Managed, Undisturbed, OneByOne, Idle, TypeOK, cmd
<1>1. engine[c] = "none" /\ causes[c] = {}
  BY <1>0 DEF Unharmed
<1>2. PICK at : /\ Go(c, at)
                /\ \/ cmd[c].op = "start" /\ at = IF ReadState = NoState THEN "probePort" ELSE "probeState"
                   \/ cmd[c].op = "client" /\ at = IF ReadState = NoState THEN "ok" ELSE "truncate"
                   \/ cmd[c].op = "stop" /\ at = IF ReadState = NoState THEN "ok" ELSE "find"
  BY DEF BeginStart, BeginClient, BeginStop, Begin
<1>3. Settled' /\ pc'[c] = at
  BY <1>0, <1>2, SettledStays DEF Go, TypeOK
<1>4. Unharmed'
  BY <1>0, <1>1, <1>2, StaysUnharmed
<1>5. CASE ReadState = NoState /\ cmd[c].op = "start"
  <2>1. Kept' /\ NoneBut({})'
    BY <1>0, <1>3, <1>5, ReadSettled DEF Settled, NoneBut
  <2>2. at = "probePort"
    BY <1>2, <1>5
  <2>3. Phase(c)'
    BY <1>3, <2>1, <2>2 DEF Phase, WriteSteps
  <2> QED
    BY <1>0, <1>2, <1>4, <2>2, <2>3, Moved DEF Ended
<1>6. CASE ReadState = NoState /\ cmd[c].op # "start"
  BY <1>0, <1>2, <1>3, <1>4, <1>6, Moved DEF Ended
<1>7. CASE ReadState # NoState
  <2>1. Read(c)'
    BY <1>0, <1>3, <1>7, ReadSettled DEF Read
  <2>2. at \in {"probeState", "find"} \/ (at = "truncate" /\ cmd[c].op # "start")
    BY <1>2, <1>7
  <2>3. Phase(c)'
    BY <1>0, <1>3, <2>1, <2>2 DEF Phase, WriteSteps
  <2> QED
    BY <1>0, <1>2, <1>4, <2>2, <2>3, Moved DEF Ended
<1> QED
  BY <1>5, <1>6, <1>7

(* The recorded engine answers, unless none is left. *)
LEMMA ProbeStateManaged ==
  ASSUME SharedInv, Managed, OneByOne, NEW c \in Cmds, ProbeState(c)
  PROVE  OneByOne'
<1>0. /\ TypeOK /\ pc[c] = "probeState" /\ Active(c) /\ Unharmed /\ cmd' = cmd
      /\ UNCHANGED <<workload, file, engine, causes>>
  BY DEF SharedInv, ProbeState, Active, Ended, OneByOne, cmd
<1>1. (\A d \in Cmds \ {c} : ~Active(d)) /\ Phase(c) /\ Probe(seen[c].port) = {Listening(seen[c].port)}
  BY <1>0, Undeceived
<1>2. Read(c) /\ engine[c] = "none" /\ causes[c] = {}
  BY <1>0, <1>1 DEF Phase, Unharmed
<1>3. PICK at : Go(c, at) /\ at = IF Listening(seen[c].port) THEN "refused" ELSE "probePort"
  BY <1>1 DEF ProbeState
<1>4. Settled' /\ Kept' /\ pc'[c] = at
  BY <1>0, <1>2, <1>3, SettledStays DEF Read, Settled, Go, TypeOK
<1>5. Unharmed'
  BY <1>0, <1>2, <1>3, StaysUnharmed
<1>6. CASE Listening(seen[c].port)
  BY <1>0, <1>1, <1>3, <1>4, <1>5, <1>6, Moved DEF Ended
<1>7. CASE ~Listening(seen[c].port)
  <2>1. ASSUME NEW b \in Cmds, engine[b] \in Listed PROVE FALSE
    <3>1. engine[b] = "up" /\ file.data = [port |-> cmd[b].port, by |-> b] /\ seen[c] = file.data
      BY <1>2, <2>1 DEF Read, Settled, Recorded, Records
    <3>2. EnginePort(b) = seen[c].port /\ b \in Engines
      BY <3>1 DEF EnginePort, Engines
    <3> QED
      BY <1>7, <3>1, <3>2 DEF Listening
  <2>2. NoneBut({})'
    BY <1>0, <2>1 DEF NoneBut
  <2>3. Phase(c)'
    BY <1>3, <1>4, <1>7, <2>2 DEF Phase, WriteSteps
  <2> QED
    BY <1>0, <1>1, <1>3, <1>5, <1>7, <2>3, Moved DEF Ended
<1> QED
  BY <1>6, <1>7

LEMMA ProbePortManaged ==
  ASSUME SharedInv, Managed, OneByOne, NEW c \in Cmds, ProbePort(c)
  PROVE  OneByOne'
<1>0. /\ TypeOK /\ pc[c] = "probePort" /\ Active(c) /\ Unharmed /\ cmd' = cmd
      /\ UNCHANGED <<workload, file, engine, causes>>
  BY DEF SharedInv, ProbePort, Active, Ended, OneByOne, cmd
<1>1. (\A d \in Cmds \ {c} : ~Active(d)) /\ Phase(c)
  BY <1>0, Undeceived
<1>2. Kept /\ NoneBut({}) /\ engine[c] = "none" /\ causes[c] = {}
  BY <1>0, <1>1 DEF Phase, Unharmed
<1>3. PICK at : Go(c, at) /\ at \in {"refused", "launch"}
  BY DEF ProbePort
<1>4. Kept' /\ NoneBut({})' /\ pc'[c] = at
  BY <1>0, <1>2, <1>3, SettledStays DEF NoneBut, Go, TypeOK
<1>5. Unharmed'
  BY <1>0, <1>2, <1>3, StaysUnharmed
<1>6. Settled' /\ (at = "launch" => Phase(c)')
  BY <1>4 DEF Settled, NoneBut, Phase, WriteSteps
<1> QED
  BY <1>0, <1>1, <1>3, <1>5, <1>6, Moved DEF Ended

LEMMA LaunchManaged ==
  ASSUME SharedInv, Managed, OneByOne, NEW c \in Cmds, Launch(c)
  PROVE  OneByOne'
<1>0. /\ TypeOK /\ pc[c] = "launch" /\ Active(c) /\ Unharmed /\ cmd' = cmd
      /\ UNCHANGED <<workload, file, causes>> /\ Go(c, "poll")
  BY DEF SharedInv, Launch, Active, Ended, OneByOne, cmd
<1>1. engine'[c] = "booting" /\ \A b \in Cmds \ {c} : engine'[b] = engine[b]
  BY <1>0 DEF Launch, TypeOK, Engines
<1>2. (\A d \in Cmds \ {c} : ~Active(d)) /\ Phase(c)
  BY <1>0, Undeceived
<1>3. Kept /\ NoneBut({}) /\ causes[c] = {}
  BY <1>0, <1>2 DEF Phase, Unharmed
<1>4. Kept'
  BY <1>0, <1>3, CurrentStays DEF Kept
<1>5. NoneBut({c})' /\ pc'[c] = "poll"
  BY <1>0, <1>1, <1>3 DEF NoneBut, Go, TypeOK
<1>6. Unharmed'
  BY <1>0, <1>1, <1>3, StaysUnharmed
<1>7. Phase(c)'
  BY <1>1, <1>4, <1>5 DEF Phase, WriteSteps
<1> QED
  BY <1>0, <1>2, <1>6, <1>7, Moved DEF Ended

(* Ready: it is this command's engine that answers. *)
LEMMA PollReadyManaged ==
  ASSUME SharedInv, Managed, OneByOne, NEW c \in Cmds, PollReady(c)
  PROVE  OneByOne'
<1>0. /\ TypeOK /\ pc[c] = "poll" /\ Active(c) /\ Unharmed /\ cmd' = cmd /\ cmd[c].op = "start"
      /\ UNCHANGED <<workload, file, engine, causes>> /\ Go(c, "truncate") /\ Listening(cmd[c].port)
  BY DEF SharedInv, PollReady, Active, Ended, OneByOne, cmd, Placed, StartSteps
<1>1. (\A d \in Cmds \ {c} : ~Active(d)) /\ Phase(c)
  BY <1>0, Undeceived
<1>2. Kept /\ NoneBut({c}) /\ causes[c] = {}
  BY <1>0, <1>1 DEF Phase, Unharmed
<1>3. PICK b \in Cmds : engine[b] = "up"
  BY <1>0, AnswersFrom DEF Asked
<1>4. engine[c] = "up"
  BY <1>2, <1>3 DEF NoneBut, Listed
<1>5. Kept' /\ NoneBut({c})' /\ pc'[c] = "truncate"
  BY <1>0, <1>2, SettledStays DEF NoneBut, Go, TypeOK
<1>6. Unharmed'
  BY <1>0, <1>2, StaysUnharmed
<1>7. Phase(c)'
  BY <1>0, <1>4, <1>5 DEF Phase
<1> QED
  BY <1>0, <1>1, <1>6, <1>7, Moved DEF Ended

(* A start of the Node program that gives up goes on to stop what it launched. *)
LEMMA PollTimeoutManaged ==
  ASSUME SharedInv, Managed, OneByOne, NEW c \in Cmds, PollTimeout(c)
  PROVE  OneByOne'
<1>0. /\ TypeOK /\ pc[c] = "poll" /\ Active(c) /\ Unharmed /\ cmd' = cmd /\ cmd[c].op = "start"
      /\ UNCHANGED <<workload, file, engine, causes>>
  BY DEF SharedInv, PollTimeout, Active, Ended, OneByOne, cmd, Placed, StartSteps
<1>1. (\A d \in Cmds \ {c} : ~Active(d)) /\ Phase(c)
  BY <1>0, Undeceived
<1>2. Kept /\ NoneBut({c}) /\ causes[c] = {}
  BY <1>0, <1>1 DEF Phase, Unharmed
<1>3. Go(c, "sweep")
  BY <1>0 DEF PollTimeout, Managed, NodeStarts
<1>4. Kept' /\ NoneBut({c})' /\ pc'[c] = "sweep"
  BY <1>0, <1>2, <1>3, SettledStays DEF NoneBut, Go, TypeOK
<1>5. Unharmed'
  BY <1>0, <1>2, <1>3, StaysUnharmed
<1>6. Phase(c)'
  BY <1>4 DEF Phase, WriteSteps
<1> QED
  BY <1>0, <1>1, <1>3, <1>5, <1>6, Moved DEF Ended

(* The sweep ends when no engine is listed any more; whoever else it kills, it is not the
   engine of a start recorded in the file. *)
LEMMA SweepManaged ==
  ASSUME SharedInv, Managed, OneByOne, NEW c \in Cmds, Sweep(c)
  PROVE  OneByOne'
<1>0. /\ TypeOK /\ pc[c] = "sweep" /\ Active(c) /\ Unharmed /\ cmd' = cmd
      /\ UNCHANGED <<workload, file>> /\ Kill(c, Engines)
  BY DEF SharedInv, Sweep, Active, Ended, OneByOne, cmd
<1>1. (\A d \in Cmds \ {c} : ~Active(d)) /\ Phase(c)
  BY <1>0, Undeceived
<1>2. Kept /\ NoneBut({c})
  BY <1>0, <1>1 DEF Phase
<1>3. PICK at \in {"sweep", "failed"} :
        Go(c, at) /\ (at = "failed" => \A e \in Engines : engine'[e] \notin Listed)
  BY DEF Sweep, Managed, Undisturbed
<1>4. \A b \in Cmds \ {c} : engine'[b] = engine[b] /\ causes'[b] = causes[b]
  BY <1>0, <1>2 DEF Kill, NoneBut, Running, Engines
<1>5. Kept'
  BY <1>0, <1>2, <1>3, <1>4, CurrentStays DEF Kept
<1>6. NoneBut({c})' /\ pc'[c] = at
  BY <1>0, <1>2, <1>3, <1>4 DEF NoneBut, Go, TypeOK
<1>7. Unharmed'
  BY <1>0, <1>3, <1>4, StaysUnharmed
<1>8. CASE at = "sweep"
  <2>1. Phase(c)'
    BY <1>5, <1>6, <1>8 DEF Phase, WriteSteps
  <2> QED
    BY <1>0, <1>1, <1>3, <1>7, <1>8, <2>1, Moved DEF Ended
<1>9. CASE at = "failed"
  <2>1. Settled'
    BY <1>3, <1>5, <1>9 DEF Settled, Engines
  <2> QED
    BY <1>0, <1>1, <1>3, <1>7, <1>9, <2>1, Moved DEF Ended
<1> QED
  BY <1>3, <1>8, <1>9

LEMMA TruncateManaged ==
  ASSUME SharedInv, Managed, OneByOne, NEW c \in Cmds, Truncate(c)
  PROVE  OneByOne'
<1>0. /\ TypeOK /\ pc[c] = "truncate" /\ Active(c) /\ Unharmed /\ cmd' = cmd
      /\ UNCHANGED <<workload, seen, engine, causes>> /\ Go(c, "fill")
  BY DEF SharedInv, Truncate, Active, Ended, OneByOne, cmd
<1>1. (\A d \in Cmds \ {c} : ~Active(d)) /\ Phase(c)
  BY <1>0, Undeceived
<1>2. pc'[c] = "fill"
  BY <1>0 DEF Go, TypeOK
<1>3. file' # NoState /\ file'.creator = handle'[c] /\ file'.data = Torn
  <2>1. file' = [creator |-> file'.creator, data |-> Torn] /\ handle'[c] = file'.creator
    BY DEF Truncate, TypeOK, SharedInv
  <2>2. TypeOK'
    BY <1>0, StepType DEF SharedInv, Step
  <2>3. file'.creator \in Cmds
    BY <2>2, <1>0, <2>1 DEF TypeOK, Truncate
  <2> QED
    BY <2>1, <2>3, NullsAssumption
<1>4. Unharmed'
  BY <1>0, StaysUnharmed DEF Unharmed
<1>5. CASE cmd[c].op = "start"
  <2>1. NoneBut({c})' /\ engine'[c] \in {"up", "gone"}
    BY <1>0, <1>1, <1>5 DEF Phase, NoneBut, WriteSteps
  <2>2. Phase(c)'
    BY <1>0, <1>2, <1>3, <1>5, <2>1 DEF Phase
  <2> QED
    BY <1>0, <1>1, <1>4, <2>2, Moved DEF Ended
<1>6. CASE cmd[c].op # "start"
  <2>1. Read(c)
    BY <1>0, <1>1, <1>6 DEF Phase
  <2>2. Current(seen[c])'
    <3>1. Current(seen[c])
      BY <2>1 DEF Read, Settled, Kept
    <3> QED
      BY <1>0, <3>1, CurrentStays
  <2>3. \A b \in Cmds : engine'[b] \in Listed => engine'[b] = "up" /\ Records(seen[c], b)'
    BY <1>0, <2>1 DEF Read, Settled, Recorded, Records
  <2>4. Phase(c)'
    BY <1>0, <1>2, <1>3, <1>6, <2>2, <2>3 DEF Phase
  <2> QED
    BY <1>0, <1>1, <1>4, <2>4, Moved DEF Ended
<1> QED
  BY <1>5, <1>6

(* The text goes to the file that was emptied, whole. *)
LEMMA FillManaged ==
  ASSUME SharedInv, Managed, OneByOne, NEW c \in Cmds, Fill(c)
  PROVE  OneByOne'
<1>0. /\ TypeOK /\ pc[c] = "fill" /\ Active(c) /\ Unharmed /\ cmd' = cmd
      /\ UNCHANGED <<workload, seen, engine, causes>> /\ Go(c, "ok")
  BY DEF SharedInv, Fill, Active, Ended, OneByOne, cmd
<1>1. (\A d \in Cmds \ {c} : ~Active(d)) /\ Phase(c)
  BY <1>0, Undeceived
<1>2. pc'[c] = "ok"
  BY <1>0 DEF Go, TypeOK
<1>3. file # NoState /\ file.creator = handle[c] /\ file.data = Torn
  BY <1>0, <1>1 DEF Phase
<1>4. Written(c) \in State
  BY <1>0, WrittenType DEF SharedInv, WriteSteps
<1>5. file' = [creator |-> file.creator, data |-> Written(c)] /\ file' # NoState
  <2>1. file \in [creator : Cmds, data : State \cup {Torn}]
    BY <1>0, <1>3 DEF TypeOK
  <2>2. file' = [file EXCEPT !.data = Written(c)]
    BY <1>3 DEF Fill
  <2>3. file' = [creator |-> file.creator, data |-> Written(c)] /\ file.creator \in Cmds
    BY <2>1, <2>2
  <2> QED
    BY <1>4, <2>3, NullsAssumption DEF State
<1>6. file'.data = Written(c) /\ file'.data # Torn
  BY <1>4, <1>5, NullsAssumption DEF State
<1>7. Unharmed'
  BY <1>0, StaysUnharmed
<1>8. CASE cmd[c].op = "start"
  <2>1. Records(file.data, c)'
    BY <1>0, <1>6, <1>8 DEF Written, Records
  <2>2. Started(c)' /\ causes'[c] = {}
    BY <1>0, <1>2, <1>8 DEF Started, Unharmed
  <2>3. Kept'
    BY <1>6, <2>1, <2>2 DEF Kept, Current
  <2>4. \A b \in Cmds : engine'[b] \in Listed => b = c /\ engine'[b] = "up"
    BY <1>0, <1>1, <1>8 DEF Phase, NoneBut, WriteSteps, Listed
  <2>5. Settled'
    BY <1>5, <2>1, <2>3, <2>4 DEF Settled, Recorded
  <2> QED
    BY <1>0, <1>1, <1>7, <2>5, Moved DEF Ended
<1>9. CASE cmd[c].op # "start"
  <2>1. file'.data = seen[c]
    BY <1>6, <1>9 DEF Written
  <2>2. Current(seen[c]) /\ \A b \in Cmds : engine[b] \in Listed => engine[b] = "up" /\ Records(seen[c], b)
    BY <1>0, <1>1, <1>9 DEF Phase
  <2>3. Current(seen[c])'
    BY <1>0, <2>2, CurrentStays
  <2>4. Kept'
    BY <1>0, <1>6, <2>1, <2>3 DEF Kept
  <2>5. \A b \in Cmds : engine'[b] \in Listed => engine'[b] = "up" /\ Recorded(b)'
    BY <1>0, <1>5, <2>1, <2>2 DEF Recorded, Records
  <2>6. Settled'
    BY <2>4, <2>5 DEF Settled
  <2> QED
    BY <1>0, <1>1, <1>7, <2>6, Moved DEF Ended
<1> QED
  BY <1>8, <1>9

(* The engine found is the recorded one, or none is left. *)
LEMMA FindManaged ==
  ASSUME SharedInv, Managed, OneByOne, NEW c \in Cmds, Find(c)
  PROVE  OneByOne'
<1>0. /\ TypeOK /\ pc[c] = "find" /\ Active(c) /\ Unharmed /\ cmd' = cmd /\ cmd[c].op = "stop"
      /\ UNCHANGED <<workload, seen, file, engine, causes>> /\ seen[c] # NoState
  BY DEF SharedInv, Find, Active, Ended, OneByOne, cmd, Placed, StopSteps
<1>1. (\A d \in Cmds \ {c} : ~Active(d)) /\ Phase(c)
  BY <1>0, Undeceived
<1>2. Read(c)
  BY <1>0, <1>1 DEF Phase
<1>3. PICK e \in FindPidByPort(seen[c].port) :
        victim' = [victim EXCEPT ![c] = e] /\ Go(c, IF e = NoCmd THEN "clear" ELSE "kill")
  BY DEF Find
<1>4. Settled' /\ Read(c)'
  BY <1>0, <1>2, <1>3, SettledStays DEF Read
<1>5. CASE e = NoCmd
  <2>1. {d \in Engines : engine[d] \in Listed /\ EnginePort(d) = seen[c].port} = {}
    BY <1>3, <1>5, NullsAssumption DEF FindPidByPort, Engines
  <2>2. ASSUME NEW b \in Cmds, engine[b] \in Listed PROVE FALSE
    <3>1. file.data = [port |-> cmd[b].port, by |-> b]
      BY <1>2, <2>2 DEF Read, Settled, Recorded, Records
    <3>2. EnginePort(b) = seen[c].port /\ b \in Engines
      BY <1>2, <3>1 DEF Read, EnginePort, Engines
    <3> QED
      BY <2>1, <2>2, <3>2
  <2>3. NoneBut({})' /\ pc'[c] = "clear"
    BY <1>0, <1>3, <1>5, <2>2 DEF NoneBut, Go, TypeOK
  <2>4. Phase(c)' /\ Unharmed'
    BY <1>0, <1>3, <1>5, <2>3, StaysUnharmed DEF Phase, WriteSteps
  <2> QED
    BY <1>0, <1>1, <1>3, <1>5, <2>4, Moved DEF Ended
<1>6. CASE e # NoCmd
  <2>1. e \in Engines /\ engine[e] \in Listed /\ EnginePort(e) = seen[c].port
    BY <1>3, <1>6 DEF FindPidByPort
  <2>2. Asked(seen[c].port)
    BY <1>0 DEF SharedInv, Knows
  <2>3. e \in Cmds
    BY <2>1, <2>2, StraysAssumption DEF Managed, StraysApart, EnginePort, Engines
  <2>4. Recorded(e)
    BY <1>2, <2>1, <2>3 DEF Read, Settled
  <2>5. pc'[c] = "kill" /\ victim'[c] = e
    BY <1>0, <1>3, <1>6 DEF Go, TypeOK
  <2>6. victim'[c] \in Cmds /\ Recorded(victim[c])'
    BY <1>0, <2>3, <2>4, <2>5 DEF Recorded, Records
  <2>7. Phase(c)' /\ Unharmed'
    BY <1>0, <1>3, <1>4, <1>6, <2>5, <2>6, StaysUnharmed DEF Phase, WriteSteps
  <2> QED
    BY <1>0, <1>1, <1>3, <1>6, <2>7, Moved DEF Ended
<1> QED
  BY <1>5, <1>6

LEMMA KillManaged ==
  ASSUME SharedInv, Managed, OneByOne, NEW c \in Cmds, KillVictim(c)
  PROVE  OneByOne'
<1>0. /\ TypeOK /\ pc[c] = "kill" /\ Active(c) /\ Unharmed /\ cmd' = cmd
      /\ UNCHANGED <<workload, seen, victim, file>> /\ Go(c, "wait") /\ Kill(c, {victim[c]})
  BY DEF SharedInv, KillVictim, Active, Ended, OneByOne, cmd
<1>1. (\A d \in Cmds \ {c} : ~Active(d)) /\ Phase(c)
  BY <1>0, Undeceived
<1>2. Settled /\ Recorded(victim[c]) /\ victim[c] \in Cmds /\ pc'[c] = "wait"
  BY <1>0, <1>1 DEF Phase, Read, Go, TypeOK
<1>3. \A b \in Cmds : engine[b] \in Listed => engine[b] = "up" /\ b = victim[c]
  <2>1. \A b : Recorded(b) => file.data.by = b
    BY DEF Recorded, Records
  <2> QED
    BY <1>2, <2>1 DEF Settled
<1>4. \A b \in Cmds : engine'[b] \in Listed => engine'[b] = "dying" /\ b = victim'[c]
  BY <1>0, <1>3 DEF Kill, Engines, Running, Listed
<1>5. \A b \in Cmds : engine[b] = "none" => engine'[b] = "none" /\ causes'[b] = causes[b]
  BY <1>0 DEF Kill, Running, Listed, Engines
<1>6. Unharmed'
  <2>1. pc'[c] = "wait" /\ \A d \in Cmds \ {c} : pc'[d] = pc[d] /\ ~Active(d)
    BY <1>0, <1>1 DEF Go, TypeOK
  <2> QED
    BY <1>0, <1>5, <2>1 DEF Unharmed, Active, Ended
<1>7. Phase(c)'
  BY <1>2, <1>4 DEF Phase, WriteSteps
<1> QED
  BY <1>0, <1>1, <1>6, <1>7, Moved DEF Ended

LEMMA WaitManaged ==
  ASSUME SharedInv, Managed, OneByOne, NEW c \in Cmds, Wait(c)
  PROVE  OneByOne'
<1>0. /\ TypeOK /\ pc[c] = "wait" /\ Active(c) /\ Unharmed /\ cmd' = cmd
      /\ UNCHANGED <<workload, engine, causes>> /\ Go(c, "clear") /\ engine[victim[c]] # "dying"
  BY DEF SharedInv, Wait, Active, Ended, OneByOne, cmd, Managed, Undisturbed
<1>1. (\A d \in Cmds \ {c} : ~Active(d)) /\ Phase(c)
  BY <1>0, Undeceived
<1>2. NoneBut({})' /\ pc'[c] = "clear"
  BY <1>0, <1>1 DEF Phase, NoneBut, Go, TypeOK
<1>3. Phase(c)' /\ Unharmed'
  BY <1>0, <1>2, StaysUnharmed DEF Phase, WriteSteps
<1> QED
  BY <1>0, <1>1, <1>3, Moved DEF Ended

LEMMA ClearManaged ==
  ASSUME SharedInv, Managed, OneByOne, NEW c \in Cmds, Clear(c)
  PROVE  OneByOne'
<1>0. /\ TypeOK /\ pc[c] = "clear" /\ Active(c) /\ Unharmed /\ cmd' = cmd
      /\ UNCHANGED <<workload, engine, causes>> /\ Go(c, "ok") /\ file' = NoState
  BY DEF SharedInv, Clear, Active, Ended, OneByOne, cmd
<1>1. (\A d \in Cmds \ {c} : ~Active(d)) /\ Phase(c)
  BY <1>0, Undeceived
<1>2. Settled'
  BY <1>0, <1>1 DEF Phase, NoneBut, Settled, Kept
<1>3. Unharmed'
  BY <1>0, StaysUnharmed
<1> QED
  BY <1>0, <1>1, <1>2, <1>3, Moved DEF Ended

(* An engine that ends, or one launched by hand, leaves every command where it is. *)
LEMMA EndsManaged ==
  ASSUME TypeOK, OneByOne, UNCHANGED <<workload, pc, seen, victim, handle, file, causes>>,
         \A b \in Cmds : engine'[b] = engine[b] \/ (engine[b] \in Listed /\ engine'[b] = "gone")
  PROVE  OneByOne'
<1>1. cmd' = cmd /\ \A c : Active(c)' <=> Active(c)
  BY DEF cmd, Active
<1>2. \A b \in Cmds : /\ engine'[b] \in Listed => engine[b] = engine'[b]
                      /\ engine[b] = "none" => engine'[b] = "none"
  BY DEF Listed
<1>3. Unharmed'
  BY <1>1, <1>2 DEF OneByOne, Unharmed
<1>4. (\A b : Recorded(b)' <=> Recorded(b)) /\ (\A s : Current(s)' <=> Current(s)) /\ (Kept' <=> Kept)
  BY <1>1 DEF Recorded, Records, Current, Started, Kept
<1>5. (Settled => Settled') /\ \A set : NoneBut(set) => NoneBut(set)'
  BY <1>2, <1>4 DEF Settled, NoneBut
<1>6. ASSUME NEW c \in Cmds, Phase(c) PROVE Phase(c)'
  <2>1. Read(c) => Read(c)'
    BY <1>5 DEF Read
  <2>2. engine'[c] \in {engine[c], "gone"}
    OBVIOUS
  <2>3. pc[c] = "fill" /\ cmd[c].op # "start" =>
          /\ Current(seen[c])'
          /\ \A b \in Cmds : engine'[b] \in Listed => engine'[b] = "up" /\ Records(seen[c], b)'
    BY <1>1, <1>2, <1>4, <1>6 DEF Phase, Records
  <2>4. pc[c] = "wait" => \A b \in Cmds : engine'[b] \in Listed => engine'[b] = "dying" /\ b = victim'[c]
    BY <1>2, <1>6 DEF Phase
  <2> QED
    BY <1>1, <1>4, <1>5, <1>6, <2>1, <2>2, <2>3, <2>4 DEF Phase
<1> QED
  BY <1>1, <1>3, <1>5, <1>6 DEF OneByOne, Alone, Idle

(* An engine boots only while the start that launched it waits, or sweeps it away; nothing
   else answers on its port. *)
LEMMA BootsManaged ==
  ASSUME SharedInv, Managed, OneByOne, NEW e \in Cmds, Boot(e)
  PROVE  OneByOne'
<1>0. /\ TypeOK /\ engine[e] = "booting" /\ engine[e] \in Listed /\ e \in Engines
      /\ UNCHANGED <<workload, pc, seen, victim, handle, file, causes>>
      /\ engine' = [engine EXCEPT ![e] = IF Listening(EnginePort(e)) THEN "mute" ELSE "up"]
  BY DEF SharedInv, Boot, Listed, Engines
<1>1. PICK c \in Cmds : Active(c)
  BY <1>0 DEF OneByOne, Settled, Idle
<1>2. (\A d \in Cmds \ {c} : ~Active(d)) /\ Phase(c)
  BY <1>1, Undeceived
<1>3. pc[c] \in {"poll", "sweep"} /\ e = c
  <2>1. ~Settled
    BY <1>0 DEF Settled
  <2>2. NoneBut({}) => FALSE
    BY <1>0 DEF NoneBut
  <2>3. NoneBut({c}) => e = c
    BY <1>0 DEF NoneBut
  <2>4. pc[c] \in StartSteps \cup WriteSteps \cup StopSteps
    BY <1>0, <1>1 DEF TypeOK, Active, StartSteps, WriteSteps, StopSteps
  <2> QED
    BY <1>0, <1>2, <2>1, <2>2, <2>3, <2>4 DEF Phase, Read, StartSteps, WriteSteps, StopSteps
<1>4. Kept /\ NoneBut({c}) /\ cmd[c].op = "start"
  BY <1>2, <1>3 DEF Phase, SharedInv, Placed, StartSteps
<1>5. engine'[c] = "up"
  <2>1. ASSUME Listening(EnginePort(e)) PROVE FALSE
    <3>1. Asked(EnginePort(e))
      BY <1>3, <1>4 DEF Asked, EnginePort
    <3>2. PICK b \in Cmds : engine[b] = "up"
      BY <1>0, <2>1, <3>1, AnswersFrom
    <3> QED
      BY <1>0, <1>3, <1>4, <3>2 DEF NoneBut, Listed
  <2> QED
    BY <1>0, <1>3, <2>1 DEF TypeOK
<1>6. cmd' = cmd /\ (\A d : Active(d)' <=> Active(d)) /\ \A b \in Cmds \ {c} : engine'[b] = engine[b]
  BY <1>0, <1>3 DEF cmd, Active, TypeOK
<1>7. Kept' /\ NoneBut({c})'
  BY <1>0, <1>4, <1>6 DEF Kept, Current, Records, Started, NoneBut
<1>8. Phase(c)'
  BY <1>0, <1>3, <1>5, <1>7 DEF Phase, WriteSteps
<1>9. Unharmed'
  BY <1>0, <1>3, <1>6 DEF OneByOne, Unharmed
<1> QED
  BY <1>1, <1>2, <1>6, <1>8, <1>9 DEF OneByOne, Alone, Idle

LEMMA InitManaged == Init => OneByOne
<1> SUFFICES ASSUME Init PROVE OneByOne
  OBVIOUS
<1>1. \A c \in Cmds : ~Active(c)
  BY DEF Init, Active, Ended
<1>2. Settled
  BY DEF Init, Settled, Kept, Listed, Engines
<1>3. Unharmed
  BY DEF Init, Unharmed, Engines
<1> QED
  BY <1>1, <1>2, <1>3 DEF OneByOne, Alone

LEMMA NextManaged == ManagedInv /\ [Next]_vars => ManagedInv'
<1> SUFFICES ASSUME ManagedInv, [Next]_vars PROVE ManagedInv'
  OBVIOUS
<1>0. SharedInv /\ SharedInv' /\ TypeOK
  BY NextShared DEF ManagedInv, SharedInv
<1>1. workload' = workload
  BY DEF Next, Step, Interrupt, BeginStart, BeginStop, BeginClient, Begin, ProbeState, ProbePort, Launch,
     PollReady, PollTimeout, Sweep, Truncate, Fill, Find, KillVictim, Wait, Clear, Boot, EngineExit,
     LaunchStray, vars
<1>2. Managed' <=> Managed
  BY <1>1 DEF Managed, Undisturbed, NodeStarts, StraysApart, Asked, cmd, Serial, MayFail
<1> SUFFICES ASSUME Managed, OneByOne PROVE OneByOne'
  BY <1>0, <1>2 DEF ManagedInv
<1>3. ASSUME NEW c \in Cmds, Step(c) \/ Interrupt(c) PROVE OneByOne'
  <2>1. ~Interrupt(c)
    BY DEF Interrupt, Managed, Undisturbed
  <2> QED
    BY <1>0, <1>3, <2>1, BeginsManaged, ProbeStateManaged, ProbePortManaged, LaunchManaged,
       PollReadyManaged, PollTimeoutManaged, SweepManaged, TruncateManaged, FillManaged, FindManaged,
       KillManaged, WaitManaged, ClearManaged DEF Step
<1>4. ASSUME NEW e \in Engines, Boot(e) \/ EngineExit(e) \/ (LaunchStray(e) /\ e \in Strays)
      PROVE  OneByOne'
  <2>1. CASE Boot(e) /\ e \in Cmds
    BY <1>0, <2>1, BootsManaged
  <2>2. CASE e \in Strays
    <3>1. \A b \in Cmds : engine'[b] = engine[b]
      BY <1>0, <1>4, <2>2, StraysAssumption DEF Boot, EngineExit, LaunchStray, TypeOK, Engines
    <3> QED
      BY <1>0, <1>4, <3>1, EndsManaged DEF Boot, EngineExit, LaunchStray
  <2>3. CASE EngineExit(e)
    <3>1. \A b \in Cmds : engine'[b] = engine[b] \/ (engine[b] \in Listed /\ engine'[b] = "gone")
      BY <1>0, <2>3 DEF EngineExit, TypeOK, Engines
    <3> QED
      BY <1>0, <2>3, <3>1, EndsManaged DEF EngineExit
  <2> QED
    BY <1>4, <2>1, <2>2, <2>3 DEF Engines
<1>5. CASE UNCHANGED vars
  <2>1. \A b \in Cmds : engine'[b] = engine[b]
    BY <1>5 DEF vars
  <2> QED
    BY <1>0, <1>5, <2>1, EndsManaged DEF vars
<1> QED
  BY <1>3, <1>4, <1>5, NextCases

LEMMA ManagedCorrect == Spec => []ManagedInv
<1>1. Init => ManagedInv
  BY InitShared, InitManaged DEF ManagedInv
<1> QED
  BY <1>1, NextManaged, PTL DEF Spec

(* Of commands run one after the other, whatever their number and ports, whose starts are the
   Node program's and whose ports are apart from those of engines launched by hand: two
   engines that successful starts launched never answer at the same time. *)
THEOREM NoDoubleLaunchCorrect == Spec => [](NodeStarts /\ StraysApart => NoDoubleLaunch)
<1>1. ASSUME ManagedInv, Managed PROVE NoDoubleLaunch
  <2> SUFFICES ASSUME NEW b \in Cmds, NEW d \in Cmds, Started(b), Started(d),
                      engine[b] = "up", engine[d] = "up"
               PROVE  b = d
    BY DEF NoDoubleLaunch
  <2>1. OneByOne /\ TypeOK /\ engine[b] \in Listed /\ engine[d] \in Listed
    BY <1>1 DEF ManagedInv, SharedInv, Listed
  <2>2. Settled => b = d
    <3>1. Recorded(b) /\ Recorded(d) => file.data.by = b /\ file.data.by = d
      BY DEF Recorded, Records
    <3> QED
      BY <2>1, <3>1 DEF Settled
  <2>3. ASSUME NEW c \in Cmds, Active(c) PROVE b = d
    <3>1. Phase(c) /\ c # b /\ c # d
      BY <1>1, <2>1, <2>3, Undeceived DEF Started, Active, Ended
    <3>2. ~NoneBut({}) /\ ~NoneBut({c})
      BY <2>1, <3>1 DEF NoneBut
    <3>3. pc[c] \in StartSteps \cup WriteSteps \cup StopSteps
      BY <2>1, <2>3 DEF TypeOK, Active, StartSteps, WriteSteps, StopSteps
    <3>4. pc[c] # "wait"
      BY <2>1, <3>1 DEF Phase
    <3>5. pc[c] = "fill" => b = d
      <4>1. Records(seen[c], b) /\ Records(seen[c], d) => seen[c].by = b /\ seen[c].by = d
        BY DEF Records
      <4> QED
        BY <2>1, <3>1, <3>2, <4>1 DEF Phase
    <3> QED
      BY <2>2, <3>1, <3>2, <3>3, <3>4, <3>5 DEF Phase, Read, StartSteps, WriteSteps, StopSteps
  <2> QED
    BY <2>1, <2>2, <2>3 DEF OneByOne, Idle
<1>2. ManagedInv => (NodeStarts /\ StraysApart => NoDoubleLaunch)
  BY <1>1 DEF Managed, NoDoubleLaunch
<1> QED
  BY <1>2, ManagedCorrect, PTL

(* Between two such commands no engine is left that the state file does not name, whichever
   of the starts failed. *)
THEOREM NoOrphanCorrect == Spec => [](NodeStarts /\ StraysApart => NoOrphan)
<1>1. ManagedInv /\ Managed /\ Idle => Settled
  BY DEF ManagedInv, OneByOne
<1>2. ManagedInv => (NodeStarts /\ StraysApart => NoOrphan)
  BY <1>1 DEF Managed, NoOrphan, Settled, Recorded, Records, Listed, Running
<1> QED
  BY <1>2, ManagedCorrect, PTL

(* Between two such commands the state file is whole and that of a successful start whose
   engine no command killed. *)
THEOREM StateIsCurrentCorrect == Spec => [](NodeStarts /\ StraysApart => StateIsCurrent)
<1>1. ManagedInv /\ Managed /\ Idle => Settled
  BY DEF ManagedInv, OneByOne
<1>2. ASSUME Kept, file # NoState
      PROVE  file.data # Torn /\ Started(file.data.by) /\ causes[file.data.by] = {}
  <2>1. PICK b \in Cmds : Records(file.data, b) /\ Started(b) /\ causes[b] = {}
    BY <1>2 DEF Kept, Current
  <2>2. file.data.by = b
    BY <2>1 DEF Records
  <2> QED
    BY <1>2, <2>1, <2>2 DEF Kept
<1>3. ManagedInv => (NodeStarts /\ StraysApart => StateIsCurrent)
  BY <1>1, <1>2 DEF Managed, StateIsCurrent, Settled
<1> QED
  BY <1>3, ManagedCorrect, PTL
=============================================================================

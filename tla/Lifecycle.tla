------------------------------- MODULE Lifecycle -------------------------------
(***************************************************************************)
(* start, stop and client, the commands that manage the one Starfish of a  *)
(* user: native/src/cli.cpp and bin/starfish-cdp.mjs with the launch       *)
(* helper.  Every command is a process of its own; what they share is the  *)
(* state file ~/.starfish-cdp/state.json and the engines that run.  Both   *)
(* programs take the same steps except where a start gives up waiting.     *)
(*                                                                         *)
(* The engine launched by start command c is called c.  Strays are engines *)
(* somebody launched without the programs modelled here.                   *)
(***************************************************************************)
EXTENDS Integers, FiniteSets

CONSTANTS
  Cmds,           \* the commands, one invocation each
  Ports,
  Invocations,    \* what they may be: [op, impl, port], or Unused
  Unused,         \* of a command that is never run
  Workloads,      \* [cmd, serial, mayFail]: an invocation for each command; serial when a
                  \* command is run after the previous one ended; mayFail when a probe may
                  \* time out, a killed engine may linger for 5 s and a command may be
                  \* interrupted
  Strays,         \* engines launched by hand
  StrayPort,      \* the port each of them serves
  NoCmd, NoState, Torn

ASSUME InvocationsAssumption ==
  Invocations \subseteq
    [op : {"start", "stop", "client"}, impl : {"native", "node"}, port : Ports] \cup {Unused}
ASSUME WorkloadsAssumption ==
  Workloads \subseteq [cmd : [Cmds -> Invocations], serial : BOOLEAN, mayFail : BOOLEAN]
ASSUME UnusedAssumption == Unused.op = "none" /\ Unused.port \in Ports
ASSUME StraysAssumption == Cmds \cap Strays = {} /\ StrayPort \in [Strays -> Ports]
ASSUME NullsAssumption ==
  /\ NoCmd \notin Cmds \cup Strays
  /\ {NoState, Torn} \cap [port : Ports, by : Cmds] = {}
  /\ NoState \notin [creator : Cmds, data : [port : Ports, by : Cmds] \cup {Torn}]

VARIABLES
  workload,       \* the one of Workloads that is run
  pc,             \* where each command is
  seen,           \* the state it read
  victim,         \* the engine a stop found
  handle,         \* the state file it has open, named by the command that created it
  file,           \* the state file: NoState, or its creator and its content
  engine,         \* what each engine does
  causes          \* history: the commands that killed each engine

vars == <<workload, pc, seen, victim, handle, file, engine, causes>>

cmd     == workload.cmd
Serial  == workload.serial
MayFail == workload.mayFail

Engines == Cmds \cup Strays
EnginePort(e) == IF e \in Cmds THEN cmd[e].port ELSE StrayPort[e]

(* A state names the port and, for the properties, the start that wrote it. *)
State == [port : Ports, by : Cmds]

Ended == {"ok", "refused", "failed", "interrupted"}
Active(c) == pc[c] \notin Ended \cup {"new"}

(* pgrep -x Starfish lists an engine until it is reaped; only "up" answers. *)
Listed == {"booting", "up", "mute", "dying"}
Running == Listed \ {"dying"}
Listening(p) == \E e \in Engines : engine[e] = "up" /\ EnginePort(e) = p

TypeOK ==
  /\ workload \in Workloads
  /\ pc \in [Cmds -> {"new", "probeState", "probePort", "launch", "poll", "sweep",
                      "truncate", "fill", "find", "kill", "wait", "clear"} \cup Ended]
  /\ seen \in [Cmds -> State \cup {NoState}]
  /\ victim \in [Cmds -> Engines \cup {NoCmd}]
  /\ handle \in [Cmds -> Cmds \cup {NoCmd}]
  /\ file \in [creator : Cmds, data : State \cup {Torn}] \cup {NoState}
  /\ engine \in [Engines -> Listed \cup {"none", "gone"}]
  /\ causes \in [Engines -> SUBSET Cmds]

Init ==
  /\ workload \in Workloads
  /\ pc = [c \in Cmds |-> "new"]
  /\ seen = [c \in Cmds |-> NoState]
  /\ victim = [c \in Cmds |-> NoCmd]
  /\ handle = [c \in Cmds |-> NoCmd]
  /\ file = NoState
  /\ engine = [e \in Engines |-> "none"]
  /\ causes = [e \in Engines |-> {}]

-----------------------------------------------------------------------------
(* Shared by the commands *)

(* readState: an absent, empty or cut file is no state. *)
ReadState == IF file = NoState \/ file.data = Torn THEN NoState ELSE file.data

(* isAlive, httpGetVersion: what a probe of port p may find. *)
Probe(p) == {Listening(p)} \cup IF MayFail THEN {FALSE} ELSE {}

(* findPidByPort: one of the listed engines whose environment names the port. *)
FindPidByPort(p) ==
  LET found == {e \in Engines : engine[e] \in Listed /\ EnginePort(e) = p}
  IN IF found = {} THEN {NoCmd} ELSE found

Go(c, to) == pc' = [pc EXCEPT ![c] = to]

Kill(c, set) ==
  /\ engine' = [e \in Engines |->
       IF e \in set /\ engine[e] \in Running THEN "dying" ELSE engine[e]]
  /\ causes' = [e \in Engines |->
       IF e \in set /\ engine[e] \in Running THEN causes[e] \cup {c} ELSE causes[e]]

(* The first step of every command: when Serial, only once the others have ended. *)
Begin(c, op) ==
  /\ pc[c] = "new" /\ cmd[c].op = op
  /\ Serial => \A d \in Cmds : ~Active(d)
  /\ seen' = [seen EXCEPT ![c] = ReadState]
  /\ UNCHANGED <<workload, victim, handle, file, engine, causes>>

(* The program is ended from outside, between any two steps. *)
Interrupt(c) ==
  /\ MayFail /\ Active(c)
  /\ Go(c, "interrupted")
  /\ UNCHANGED <<workload, seen, victim, handle, file, engine, causes>>

-----------------------------------------------------------------------------
(* start *)

BeginStart(c) ==
  /\ Begin(c, "start")
  /\ Go(c, IF ReadState = NoState THEN "probePort" ELSE "probeState")

(* Mutant of ProbeState: the recorded port is not probed. *)
ProbeStateNever(c) ==
  /\ pc[c] = "probeState"
  /\ Go(c, "probePort")
  /\ UNCHANGED <<workload, seen, victim, handle, file, engine, causes>>

(* "already running": the recorded instance answers. *)
ProbeState(c) ==
  /\ pc[c] = "probeState"
  /\ \E alive \in Probe(seen[c].port) : Go(c, IF alive THEN "refused" ELSE "probePort")
  /\ UNCHANGED <<workload, seen, victim, handle, file, engine, causes>>

(* "refusing to launch": something answers on the wanted port. *)
ProbePort(c) ==
  /\ pc[c] = "probePort"
  /\ \E alive \in Probe(cmd[c].port) : Go(c, IF alive THEN "refused" ELSE "launch")
  /\ UNCHANGED <<workload, seen, victim, handle, file, engine, causes>>

(* The engine is forked off into a session of its own. *)
Launch(c) ==
  /\ pc[c] = "launch"
  /\ engine' = [engine EXCEPT ![c] = "booting"]
  /\ Go(c, "poll")
  /\ UNCHANGED <<workload, seen, victim, handle, file, causes>>

(* Ready as soon as anything answers on the port, be it this command's engine or not. *)
PollReady(c) ==
  /\ pc[c] = "poll" /\ Listening(cmd[c].port)
  /\ Go(c, "truncate")
  /\ UNCHANGED <<workload, seen, victim, handle, file, engine, causes>>

(* 15 s without an answer.  The native program just reports it; the helper's stop()
   of the Node program goes on to sweep. *)
PollTimeout(c) ==
  /\ pc[c] = "poll"
  /\ Go(c, IF cmd[c].impl = "native" THEN "failed" ELSE "sweep")
  /\ UNCHANGED <<workload, seen, victim, handle, file, engine, causes>>

(* Mutant of Sweep: nothing is killed. *)
SweepNothing(c) ==
  /\ pc[c] = "sweep"
  /\ Go(c, "failed")
  /\ UNCHANGED <<workload, seen, victim, handle, file, engine, causes>>

(* launchStarfish's stop(): the engine found by its port and then, with pkill -x, every
   Starfish; again until none is listed or 5 s are over. *)
Sweep(c) ==
  /\ pc[c] = "sweep"
  /\ Kill(c, Engines)
  /\ \E to \in {"sweep", "failed"} :
       /\ to = "failed" => MayFail \/ \A e \in Engines : engine'[e] \notin Listed
       /\ Go(c, to)
  /\ UNCHANGED <<workload, seen, victim, handle, file>>

-----------------------------------------------------------------------------
(* writeState, in start and in client *)

(* Opening the file empties it; it is created when there is none. *)
Truncate(c) ==
  /\ pc[c] = "truncate"
  /\ file' = [creator |-> IF file = NoState THEN c ELSE file.creator, data |-> Torn]
  /\ handle' = [handle EXCEPT ![c] = file'.creator]
  /\ Go(c, "fill")
  /\ UNCHANGED <<workload, seen, victim, engine, causes>>

Written(c) == IF cmd[c].op = "start" THEN [port |-> cmd[c].port, by |-> c] ELSE seen[c]

(* The text goes to the file opened, which may have been removed or, when somebody
   else wrote to it meanwhile, end up with the tail of a longer text. *)
Fill(c) ==
  /\ pc[c] = "fill"
  /\ IF file # NoState /\ file.creator = handle[c]
     THEN \E data \in {Written(c)} \cup (IF file.data = Torn THEN {} ELSE {Torn}) :
            file' = [file EXCEPT !.data = data]
     ELSE UNCHANGED file
  /\ Go(c, "ok")
  /\ UNCHANGED <<workload, seen, victim, handle, engine, causes>>

(* client <name>: the state read is written back with another client. *)
BeginClient(c) ==
  /\ Begin(c, "client")
  /\ Go(c, IF ReadState = NoState THEN "ok" ELSE "truncate")

-----------------------------------------------------------------------------
(* stop *)

BeginStop(c) ==
  /\ Begin(c, "stop")
  /\ Go(c, IF ReadState = NoState THEN "ok" ELSE "find")

(* Mutant of Find: any Starfish will do. *)
FindAny(c) ==
  /\ pc[c] = "find"
  /\ \E e \in {d \in Engines : engine[d] \in Listed} :
       victim' = [victim EXCEPT ![c] = e] /\ Go(c, "kill")
  /\ UNCHANGED <<workload, seen, handle, file, engine, causes>>

Find(c) ==
  /\ pc[c] = "find"
  /\ \E e \in FindPidByPort(seen[c].port) :
       victim' = [victim EXCEPT ![c] = e] /\ Go(c, IF e = NoCmd THEN "clear" ELSE "kill")
  /\ UNCHANGED <<workload, seen, handle, file, engine, causes>>

KillVictim(c) ==
  /\ pc[c] = "kill"
  /\ Kill(c, {victim[c]})
  /\ Go(c, "wait")
  /\ UNCHANGED <<workload, seen, victim, handle, file>>

(* Until no engine of the port is listed, or 5 s, in which the one killed is reaped
   unless MayFail. *)
Wait(c) ==
  /\ pc[c] = "wait" /\ (MayFail \/ engine[victim[c]] # "dying")
  /\ Go(c, "clear")
  /\ UNCHANGED <<workload, seen, victim, handle, file, engine, causes>>

(* Mutant of Clear: the state file stays. *)
ClearNothing(c) ==
  /\ pc[c] = "clear"
  /\ Go(c, "ok")
  /\ UNCHANGED <<workload, seen, victim, handle, file, engine, causes>>

(* clearState removes the file, whatever it holds by now. *)
Clear(c) ==
  /\ pc[c] = "clear"
  /\ file' = NoState
  /\ Go(c, "ok")
  /\ UNCHANGED <<workload, seen, victim, handle, engine, causes>>

-----------------------------------------------------------------------------
(* The engines, as the code in src/ relies on them *)

(* Serves its port, or stays mute when the port is taken. *)
Boot(e) ==
  /\ engine[e] = "booting"
  /\ engine' = [engine EXCEPT ![e] = IF Listening(EnginePort(e)) THEN "mute" ELSE "up"]
  /\ UNCHANGED <<workload, pc, seen, victim, handle, file, causes>>

(* Reaped after a kill, or ended by itself: without a pending timer it shuts down. *)
EngineExit(e) ==
  /\ engine[e] \in Listed
  /\ engine' = [engine EXCEPT ![e] = "gone"]
  /\ UNCHANGED <<workload, pc, seen, victim, handle, file, causes>>

LaunchStray(e) ==
  /\ engine[e] = "none"
  /\ engine' = [engine EXCEPT ![e] = "booting"]
  /\ UNCHANGED <<workload, pc, seen, victim, handle, file, causes>>

Step(c) == \/ BeginStart(c) \/ ProbeState(c) \/ ProbePort(c) \/ Launch(c)
           \/ PollReady(c) \/ PollTimeout(c) \/ Sweep(c)
           \/ Truncate(c) \/ Fill(c) \/ BeginClient(c)
           \/ BeginStop(c) \/ Find(c) \/ KillVictim(c) \/ Wait(c) \/ Clear(c)

Next == \/ \E c \in Cmds : Step(c) \/ Interrupt(c)
        \/ \E e \in Engines : Boot(e) \/ EngineExit(e)
        \/ \E e \in Strays : LaunchStray(e)

Spec == Init /\ [][Next]_vars

-----------------------------------------------------------------------------
(* Safety *)

Idle == \A c \in Cmds : ~Active(c)
Started(c) == cmd[c].op = "start" /\ pc[c] = "ok"

\* A Starfish launched by hand on a port no start was asked for is never killed: the port
\* a stop kills on went through the state file and a search of all processes.
OthersUntouched ==
  \A e \in Strays :
    (\A c \in Cmds : cmd[c].op = "start" => cmd[c].port # StrayPort[e]) => causes[e] = {}

\* The same of what a stop kills, whatever runs at the same time, fails or is interrupted.
StopSparesOthers ==
  \A e \in Strays :
    (\A c \in Cmds : cmd[c].op = "start" => cmd[c].port # StrayPort[e])
      => \A c \in causes[e] : cmd[c].op # "stop"

(* One command after the other, none of them interrupted or deceived by a probe. *)
Undisturbed == Serial /\ ~MayFail

\* Commands run one after the other: two engines of successful starts never answer at the
\* same time: a start refuses to launch a second instance, on the recorded port, its own or
\* another.
NoDoubleLaunch ==
  Undisturbed =>
    \A c, d \in Cmds :
      Started(c) /\ Started(d) /\ engine[c] = "up" /\ engine[d] = "up" => c = d

\* Between such commands of the Node program, whose start sweeps the machine when it gives up,
\* every engine a start left running is the one the state file names, so that the next stop ends
\* it: no such start, failed or not, leaves an engine nobody manages.  (A native start that gives
\* up does leave its engine behind, and so may commands that overlap: the run Commands has only
\* Node commands in its serial workload, and the theorem assumes NodeStarts.)
NoOrphan ==
  Undisturbed /\ Idle => \A c \in Cmds : engine[c] \in Running =>
                           file # NoState /\ file.data = [port |-> cmd[c].port, by |-> c]

\* Between such commands the state file, if any, is that of a successful start whose engine
\* no command has killed: a dead entry only ever means that the engine ended by itself.
StateIsCurrent ==
  Undisturbed /\ Idle /\ file # NoState =>
    file.data # Torn /\ Started(file.data.by) /\ causes[file.data.by] = {}
=============================================================================

---------------------------- MODULE MCLifecycle ----------------------------
(* Lifecycle for TLC: which commands a run tries, and one engine launched by hand. *)
EXTENDS Lifecycle, TLC

CONSTANTS p1, p2, p3, stray

Starts(impl)  == [op : {"start"}, impl : {impl}, port : {p1, p2}]
Others        == [op : {"stop", "client"}, impl : {"node"}, port : {p1}]
NodeRuns      == Starts("node") \cup Others
NativeRuns    == Starts("native") \cup Others
NotRun        == [op |-> "none", impl |-> "none", port |-> p1]
MixedRuns     == NativeRuns \cup {[op |-> "start", impl |-> "node", port |-> p1], NotRun}
AllRuns       == NodeRuns \cup NativeRuns \cup {NotRun}

(* Node commands one after the other. *)
InTurn ==
  [cmd : [Cmds -> NodeRuns], serial : {TRUE}, mayFail : {FALSE}]

(* Starts of both programs, stops and clients at once, all but one of the commands. *)
AtOnce ==
  [cmd : {f \in [Cmds -> MixedRuns] :
            Cardinality({c \in Cmds : f[c] = NotRun}) = 1},
   serial : {FALSE}, mayFail : {TRUE}]

Both          == InTurn \cup AtOnce
AllPorts      == {p1, p2, p3}
StrayOnItsOwn == stray :> p3
CmdSymmetry   == Permutations(Cmds)
=============================================================================

----------------------------- MODULE MCPollLoops -----------------------------
(* PollLoops for TLC: the three loops with short timeouts.  wait's attempts may take longer
   than its whole timeout, as 10 s are longer than its 5 s. *)
EXTENDS PollLoops

Loop(name, timeout, pause, limit) ==
  [name |-> name, timeout |-> timeout, pause |-> pause, limit |-> limit]
ThreeLoops ==
  {Loop("wait", t, 1, 3) : t \in {0, 2, 6}} \cup {Loop("waitForReady", 4, 2, Unlimited)}
  \cup {Loop("initialPage", t, 1, 0) : t \in {0, 3}}
=============================================================================

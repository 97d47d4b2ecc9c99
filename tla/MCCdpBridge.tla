---------------------------- MODULE MCCdpBridge ----------------------------
(* CdpBridge for TLC: calls, targets and sessions are interchangeable. *)
EXTENDS CdpBridge, TLC

CallSymmetry == Permutations(Promises)
ViewSymmetry == Permutations(Targets) \cup Permutations(Sessions)
=============================================================================

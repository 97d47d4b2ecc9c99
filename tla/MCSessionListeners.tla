------------------------- MODULE MCSessionListeners -------------------------
(* SessionListeners for TLC: events and callbacks are interchangeable. *)
EXTENDS SessionListeners, TLC

Symmetry == Permutations(Events) \cup Permutations(Callbacks)
=============================================================================

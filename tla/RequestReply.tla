---------------------------- MODULE RequestReply ----------------------------
(***************************************************************************)
(* What NativeSession.send() promises its callers (native/bridge.mjs), with*)
(* the child process, the pipes and the socket left out: a call is pending *)
(* until it is answered or refused, and calls are refused all at once.     *)
(***************************************************************************)
CONSTANT Promises

VARIABLES outcome, link

Ask(p) ==
  /\ outcome[p] = "idle"
  /\ outcome' = [outcome EXCEPT ![p] = IF link = "closed" THEN "refused" ELSE "pending"]
  /\ UNCHANGED link

(* Answers come only while the connection is open. *)
Answer(p) ==
  /\ link = "open" /\ outcome[p] = "pending"
  /\ \E how \in {"resolved", "rejected"} : outcome' = [outcome EXCEPT ![p] = how]
  /\ UNCHANGED link

(* The connection goes from open to draining (calls are still accepted and will be
   refused) to closed, or closes at once; every pending call is refused. *)
Sever(to) ==
  /\ <<link, to>> \in {<<"open", "draining">>, <<"open", "closed">>,
                       <<"draining", "closed">>, <<"closed", "closed">>}
  /\ link' = to
  /\ outcome' = [p \in Promises |-> IF outcome[p] = "pending" THEN "refused" ELSE outcome[p]]

Init == outcome = [p \in Promises |-> "idle"] /\ link = "open"

Next == \/ \E p \in Promises : Ask(p) \/ Answer(p)
        \/ \E to \in {"draining", "closed"} : Sever(to)

Spec == Init /\ [][Next]_<<outcome, link>>
=============================================================================

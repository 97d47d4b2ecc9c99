------------------------------ MODULE MCWsFrames ------------------------------
(* WsFrames for TLC: four kinds of traffic. *)
EXTENDS WsFrames

Pieces ==       \* messages in fragments, with every other frame between them
  [sizes |-> {0, 2}, forms |-> {7}, masking |-> {FALSE},
   kinds |-> {"text", "part", "ping", "odd", "close"}, chunks |-> {1, 6}, frames |-> 3,
   textSizes |-> {}, texts |-> 0]
Messages ==     \* several fragmented messages
  [Pieces EXCEPT !.sizes = {2}, !.kinds = {"text", "part", "ping"}, !.frames = 4]
Lengths ==      \* every length form, masked or not
  [sizes |-> {1, 126}, forms |-> {7, 16, 64}, masking |-> {TRUE, FALSE},
   kinds |-> {"text", "part", "close", "huge", "limit"}, chunks |-> {5, 200}, frames |-> 2,
   textSizes |-> {}, texts |-> 0]
Sent ==         \* what the client sends
  [sizes |-> {0, 125}, forms |-> {7}, masking |-> {FALSE}, kinds |-> {"ping", "pong"},
   chunks |-> {3, 200}, frames |-> 2, textSizes |-> {0, 1, 125, 126, 65535, 65536}, texts |-> 1]
Traffic == <<Pieces, Messages, Lengths, Sent>>
=============================================================================

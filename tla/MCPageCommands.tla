--------------------------- MODULE MCPageCommands ---------------------------
(* PageCommands for TLC: every command of both programs, in time or late, or one of them. *)
EXTENDS PageCommands

AllPrograms == [impl : {"native", "node"}, command : {"goto", "click"}, late : BOOLEAN]
               \cup [impl : {"native"}, command : {"back", "forward", "reload"}, late : BOOLEAN]
NativeGoto  == [impl : {"native"}, command : {"goto"}, late : {FALSE}]
=============================================================================

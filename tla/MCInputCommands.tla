---------------------------- MODULE MCInputCommands ----------------------------
(* InputCommands for TLC: two fields, texts of one and two letters, four kinds of session. *)
EXTENDS InputCommands

CONSTANTS a, b, wide

ShortTexts == {<<a>>, <<a, b>>}
TypedTexts == {<<a>>, <<b, a, wide, b>>}
UpAndDown  == {-1, 2}

Session(names, quirk) == [names |-> names, quirk |-> quirk]
FourKinds ==
  {Session({"type", "fill", "focus", "press", "keyboard", "inserttext"}, FALSE),
   Session({"focus", "dblclick", "press", "keydown", "keyup", "move", "down", "up"}, TRUE),
   Session({"type", "select", "check", "uncheck", "hover", "scroll", "wheel", "get"}, FALSE),
   Session({"highlight", "setitem", "clearitems", "getitem", "get"}, FALSE)}
=============================================================================

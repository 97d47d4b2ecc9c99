-------------------------------- MODULE Texts --------------------------------
(***************************************************************************)
(* The conversions of the native program at work: one behaviour takes one  *)
(* input through one of them and stops.                                    *)
(***************************************************************************)
EXTENDS Base64, JsonText, JsonNumber, JsonTree, AxTree

CONSTANTS
  ByteStrings, \* texts as bytes
  UnitStrings, \* texts as Node has them
  NumberTexts, \* documents that might be a number
  TokenLists,  \* documents
  Replies,     \* what the engine answers to a capture: [ok, data, bytes], bytes what data stands for
  Rooms,       \* how many bytes fit where the capture is to be stored, or Unwritable
  NodeLists    \* accessibility trees

VARIABLES
  kind,        \* which conversion
  input,
  done,
  result

vars == <<kind, input, done, result>>

Inputs(k) ==
  CASE k = "bytes"   -> ByteStrings
    [] k = "units"   -> UnitStrings
    [] k = "number"  -> NumberTexts
    [] k = "tokens"  -> TokenLists
    [] k = "capture" -> {[reply |-> r, room |-> n] : r \in Replies, n \in Rooms}
    [] k = "nodes"   -> NodeLists

Init ==
  /\ kind \in {"bytes", "units", "number", "tokens", "capture", "nodes"}
  /\ input \in Inputs(kind)
  /\ done = FALSE /\ result = << >>

Yields(k, value) == kind = k /\ ~done /\ done' = TRUE /\ result' = value /\ UNCHANGED <<kind, input>>

Quoted(text) == Append(text, Quote)

(* A text read as it stands, and written. *)
ReadAndWrite ==
  Yields("bytes", [read |-> ReadString(Quoted(input)), written |-> WriteString(input)])

(* A line from Node, with and without its characters escaped. *)
ReadLine ==
  Yields("units", [read |-> ReadString(Quoted(Stringify(input))),
                   escaped |-> ReadString(Quoted(AllEscaped(input)))])

ReadNumber == Yields("number", ReadNumberToken(input))

ParseDocument == Yields("tokens", Parse(input))

(* The file had held something else. *)
TakeCapture == Yields("capture", Capture(input.reply, input.room, <<0>>))

PrintTree == Yields("nodes", Snapshot(input))

Next == ReadAndWrite \/ ReadLine \/ ReadNumber \/ ParseDocument \/ TakeCapture \/ PrintTree

Spec == Init /\ [][Next]_vars

-----------------------------------------------------------------------------
Reads(text, bytes) == ReadString(Quoted(text)) = [ok |-> TRUE, out |-> bytes]
OneLine(text) == \A i \in DOMAIN text : text[i] \notin Control

\* What the program writes it reads back unchanged, on one line, and it writes exactly the
\* well-formed texts: its two recognisers of UTF-8 agree, and whatever was accepted from one
\* side can be passed on to the other without an exception that would end the child.
StringsSurvive ==
  kind = "bytes" /\ done =>
    /\ result.written.ok <=> IsUtf8(input)
    /\ result.written.ok => Reads(result.written.out, input) /\ OneLine(result.written.out)
    /\ result.read.ok =>
         LET again == WriteString(result.read.out)
         IN  again.ok /\ Reads(again.out, result.read.out)

\* A line from Node is read as the text it stands for, escaped or not, and what the child would
\* write for that text is the same line again.  The exception is a text with half a surrogate
\* pair: the child refuses it, skips the line, and its call is never sent.
LinesCarryStrings ==
  kind = "units" /\ done =>
    IF WellFormed(input)
    THEN /\ result.read = [ok |-> TRUE, out |-> ToUtf8(input)] /\ result.escaped = result.read
         /\ WriteString(ToUtf8(input)) = [ok |-> TRUE, out |-> Stringify(input)]
         /\ OneLine(Stringify(input))
    ELSE ~result.read.ok /\ ~result.escaped.ok

\* A number is accepted if and only if the grammar allows it and it is not too large for a
\* float, however its zeros, its point and its exponent are set; else the document fails.  One
\* without fraction and exponent is an integer exactly when it fits, and is then written as it
\* was read (-0 as 0), the smallest integer included; otherwise it becomes a float and is not cut
\* off.
NumbersSurvive ==
  kind = "number" /\ done =>
    /\ result.ok <=> IsNumber(input) /\ IsFinite(input)
    /\ result.ok /\ IsIntegral(input) =>
         LET text == IF input = <<Minus, 0>> THEN <<0>> ELSE input
             size == Decimal(SelectSeq(input, LAMBDA c : c \in Dec))
         IN  IF input[1] = Minus
             THEN /\ result.type = (IF size <= MaxInteger + 1 THEN "integer" ELSE "float")
                  /\ result.type = "integer" => WriteInteger(result.value) = text
             ELSE /\ result.type = (IF size <= MaxUnsigned THEN "unsigned" ELSE "float")
                  /\ result.type = "unsigned" => WriteInteger(result.value) = text
    /\ result.ok /\ ~IsIntegral(input) => result.type = "float"

\* A document is accepted if and only if the grammar allows it, and read as what it means; what
\* is written for that is read as the same again.
ParsesGrammar ==
  kind = "tokens" /\ done =>
    /\ result.ok <=> Meanings(input) # {}
    /\ result.ok => /\ Meanings(input) = {result.root}
                    /\ Parse(DumpTree(result.root)) = result

\* A capture that is reported as saved has left the engine's bytes, all of them and no other, in
\* a file that could be opened and had room for them, and one that failed has left the file
\* alone.  (Neither opening nor writing is checked, so without room a part is reported as saved.)
\* The text the engine sends is that of RFC 4648, with or without line breaks.
CaptureIsWhole ==
  kind = "capture" /\ done =>
    /\ result.rc = 0 /\ input.room # Unwritable /\ input.room >= Len(input.reply.bytes) =>
         result.file = input.reply.bytes
    /\ result.rc = 1 => result.file = <<0>>
    /\ result.rc = 0 <=> input.reply.ok /\ Other \notin ToSet(input.reply.data)
    /\ input.reply.ok => Encode(input.reply.bytes) = Rfc4648(input.reply.bytes)

\* The snapshot shows the tree: every node that is not ignored and has a role once, in document
\* order, indented one level under its nearest shown ancestor, whatever is left out in between.
SnapshotShowsTree == kind = "nodes" /\ done => ShowsTree(input, result)
=============================================================================

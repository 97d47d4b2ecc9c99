------------------------------- MODULE JsonTree -------------------------------
(***************************************************************************)
(* The parser of native/src/json.hpp (sax_parse_internal, with the handler *)
(* that builds the value) and its serializer, token by token: the          *)
(* structural characters, strings and other scalars.                       *)
(***************************************************************************)
EXTENDS Naturals, Sequences, SequencesExt, TLC

CONSTANTS
  Strings,     \* the string tokens, in their order as keys: a sequence
  Scalars,     \* the tokens that are values and no strings
  BadToken     \* what the lexer makes of anything else

Leaves == ToSet(Strings) \cup Scalars
Tokens == {"{", "}", "[", "]", ":", ","} \cup Leaves \cup {BadToken}

Value(kind, leaf, items, members) ==
  [kind |-> kind, leaf |-> leaf, items |-> items, members |-> members]
Leaf(token)     == Value("leaf", token, << >>, << >>)
Array(items)    == Value("array", BadToken, items, << >>)
Object(members) == Value("object", BadToken, << >>, members)

-----------------------------------------------------------------------------
(* The parser expects a value, a value or the end of an array just opened, a key or the end of
   an object just opened, a key, a colon, or what may stand behind a value; or it is done.  The
   stack holds the arrays and objects that are open, with the key that waits for its value. *)
Parser == [mode |-> "value", stack |-> << >>, root |-> Leaf(BadToken)]

Errs(s) == [s EXCEPT !.mode = "error"]

Opens(s, value, mode) ==
  [s EXCEPT !.mode = mode, !.stack = Append(@, [value |-> value, key |-> BadToken])]

(* handle_value: the next element, or the value of the key, in place of what it had. *)
Put(frame, v) ==
  IF frame.value.kind = "array" THEN [frame EXCEPT !.value.items = Append(@, v)]
  ELSE [frame EXCEPT !.value.members = (frame.key :> v) @@ @]

Completes(s, v) ==
  IF s.stack = << >> THEN [s EXCEPT !.mode = "done", !.root = v]
  ELSE [s EXCEPT !.mode = "behind", !.stack = Append(Front(@), Put(Last(@), v))]

Closes(s) == Completes([s EXCEPT !.stack = Front(@)], Last(s.stack).value)

InArray(s) == Last(s.stack).value.kind = "array"

TakeValue(s, token) ==
  CASE token = "["        -> Opens(s, Array(<< >>), "first")
    [] token = "{"        -> Opens(s, Object(<< >>), "firstKey")
    [] token \in Leaves   -> Completes(s, Leaf(token))
    [] OTHER              -> IF s.mode = "first" /\ token = "]" THEN Closes(s) ELSE Errs(s)

TakeKey(s, token) ==
  IF token \in ToSet(Strings)
  THEN [s EXCEPT !.mode = "colon", !.stack = Append(Front(@), [Last(@) EXCEPT !.key = token])]
  ELSE IF s.mode = "firstKey" /\ token = "}" THEN Closes(s) ELSE Errs(s)

(* Mutant of TakeBehind: a comma may be the last in an array. *)
TakeBehindLoose(s, token) ==
  CASE token = "," -> [s EXCEPT !.mode = IF InArray(s) THEN "first" ELSE "key"]
    [] token = (IF InArray(s) THEN "]" ELSE "}") -> Closes(s)
    [] OTHER -> Errs(s)

TakeBehind(s, token) ==
  CASE token = "," -> [s EXCEPT !.mode = IF InArray(s) THEN "value" ELSE "key"]
    [] token = (IF InArray(s) THEN "]" ELSE "}") -> Closes(s)
    [] OTHER -> Errs(s)

Take(s, token) ==
  CASE s.mode \in {"value", "first"}  -> TakeValue(s, token)
    [] s.mode \in {"firstKey", "key"} -> TakeKey(s, token)
    [] s.mode = "colon"               -> IF token = ":" THEN [s EXCEPT !.mode = "value"] ELSE Errs(s)
    [] s.mode = "behind"              -> TakeBehind(s, token)
    [] s.mode \in {"done", "error"}   -> Errs(s)    \* strict: nothing may follow

(* parse(text, nullptr, false): a value, or a discarded one. *)
Parse(tokens) ==
  LET end == FoldLeft(Take, Parser, tokens)
  IN  [ok |-> end.mode = "done", root |-> end.root]

RECURSIVE DumpTree(_)
DumpTree(v) ==
  CASE v.kind = "leaf"  -> <<v.leaf>>
    [] v.kind = "array" ->
         <<"[">> \o FlattenSeq([i \in DOMAIN v.items |->
                      (IF i = 1 THEN << >> ELSE <<",">>) \o DumpTree(v.items[i])]) \o <<"]">>
    [] v.kind = "object" ->
         LET keys == SelectSeq(Strings, LAMBDA k : k \in DOMAIN v.members) IN
         <<"{">> \o FlattenSeq([i \in DOMAIN keys |->
                      (IF i = 1 THEN << >> ELSE <<",">>)
                      \o <<keys[i], ":">> \o DumpTree(v.members[keys[i]])]) \o <<"}">>

-----------------------------------------------------------------------------
(* The grammar of RFC 8259: the values a sequence of tokens can stand for. *)

Inner(t)  == SubSeq(t, 2, Len(t) - 1)
Commas(t) == {i \in DOMAIN t : t[i] = ","}
Encloses(open, t, close) == Len(t) >= 2 /\ t[1] = open /\ t[Len(t)] = close

RECURSIVE Meanings(_), Lists(_), Maps(_, _)
Meanings(t) ==
  (IF Len(t) = 1 /\ t[1] \in Leaves THEN {Leaf(t[1])} ELSE {})
  \cup (IF Encloses("[", t, "]")
        THEN {Array(l) : l \in IF Inner(t) = << >> THEN {<< >>} ELSE Lists(Inner(t))} ELSE {})
  \cup (IF Encloses("{", t, "}")
        THEN IF Inner(t) = << >> THEN {Object(<< >>)}
             ELSE {Object(m) : m \in Maps(Inner(t), << >>)}
        ELSE {})

Lists(t) ==
  {<<v>> : v \in Meanings(t)}
  \cup UNION {{<<v>> \o l : v \in Meanings(SubSeq(t, 1, i - 1)), l \in Lists(SubSeq(t, i + 1, Len(t)))}
                : i \in Commas(t)}

(* Members, over those that came before: of two with the same name the later one counts. *)
Maps(t, before) ==
  LET Member(u) == IF Len(u) < 3 \/ u[1] \notin ToSet(Strings) \/ u[2] # ":" THEN {}
                   ELSE {(u[1] :> v) @@ before : v \in Meanings(SubSeq(u, 3, Len(u)))}
  IN  Member(t)
      \cup UNION {UNION {Maps(SubSeq(t, i + 1, Len(t)), m) : m \in Member(SubSeq(t, 1, i - 1))}
                    : i \in Commas(t)}
=============================================================================

------------------------------- MODULE JsonText -------------------------------
(***************************************************************************)
(* How native/src/json.hpp reads and writes what goes through the native   *)
(* child and the native program: strings byte by byte (scan_string of the  *)
(* lexer, dump_escaped of the serializer, two recognisers of UTF-8 written *)
(* apart from each other).                                                 *)
(*                                                                         *)
(* A byte is a number below 256, a text between its quotes a sequence of   *)
(* them.                                                                   *)
(***************************************************************************)
EXTENDS Naturals, Sequences, SequencesExt

Quote     == 34
Backslash == 92
Control   == 0 .. 31

-----------------------------------------------------------------------------
(* UTF-8 *)

Utf8(code) ==
  LET Low(n) == 128 + (n % 64) IN
  CASE code < 128                     -> <<code>>
    [] code \in 128 .. 2047           -> <<192 + (code \div 64), Low(code)>>
    [] code \in 2048 .. 65535         -> <<224 + (code \div 4096), Low(code \div 64), Low(code)>>
    [] code >= 65536 -> <<240 + (code \div 262144), Low(code \div 4096), Low(code \div 64), Low(code)>>

HighSurrogate == 55296 .. 56319
LowSurrogate  == 56320 .. 57343
Pair(high, low) == 65536 + 1024 * (high - 55296) + (low - 56320)

-----------------------------------------------------------------------------
(* scan_string *)

Rest(low, high, n) == <<low .. high>> \o [i \in 1 .. n |-> 128 .. 191]

(* Mutant of Continuation: the second byte is never restricted further. *)
ContinuationLoose(lead) ==
  CASE lead \in 194 .. 223 -> Rest(128, 191, 0)
    [] lead \in 224 .. 239 -> Rest(128, 191, 1)
    [] lead \in 240 .. 244 -> Rest(128, 191, 2)

(* What may follow the first byte of a character. *)
Continuation(lead) ==
  CASE lead \in 194 .. 223               -> Rest(128, 191, 0)
    [] lead = 224                        -> Rest(160, 191, 1)
    [] lead \in (225 .. 239) \ {237}     -> Rest(128, 191, 1)
    [] lead = 237                        -> Rest(128, 159, 1)
    [] lead = 240                        -> Rest(144, 191, 2)
    [] lead \in 241 .. 243               -> Rest(128, 191, 2)
    [] lead = 244                        -> Rest(128, 143, 2)

HexValue(c) ==
  CASE c \in 48 .. 57  -> c - 48
    [] c \in 65 .. 70  -> c - 55
    [] c \in 97 .. 102 -> c - 87
IsHex(c) == c \in (48 .. 57) \cup (65 .. 70) \cup (97 .. 102)

\* quotation mark, reverse solidus, solidus, b, f, n, r, t
Unescaped == [c \in {34, 92, 47, 98, 102, 110, 114, 116} |->
  CASE c = 98 -> 8 [] c = 102 -> 12 [] c = 110 -> 10 [] c = 114 -> 13 [] c = 116 -> 9
    [] c \in {34, 92, 47} -> c]

(* A scanner is between two characters, behind a backslash, behind so many digits of \u, waiting
   for the second half of a surrogate pair, or within a multi-byte character. *)
Scanner == [mode |-> "text", out |-> << >>, digits |-> 0, code |-> 0, high |-> 0, rest |-> << >>]
Fails(s) == [s EXCEPT !.mode = "error"]
Adds(s, bytes) == [s EXCEPT !.mode = "text", !.out = @ \o bytes, !.high = 0]

ScanText(s, c) ==
  CASE c = Quote     -> [s EXCEPT !.mode = "closed"]
    [] c = Backslash -> [s EXCEPT !.mode = "escape"]
    [] c \in Control   -> Fails(s)
    [] c \in (32 .. 127) \ {Quote, Backslash} -> Adds(s, <<c>>)
    [] c \in 194 .. 244 -> [Adds(s, <<c>>) EXCEPT !.mode = "inside", !.rest = Continuation(c)]
    [] c \in (128 .. 193) \cup (245 .. 255) -> Fails(s)

ScanInside(s, c) ==
  IF c \notin Head(s.rest) THEN Fails(s)
  ELSE [Adds(s, <<c>>) EXCEPT !.rest = Tail(@), !.mode = IF Len(s.rest) = 1 THEN "text" ELSE "inside"]

ScanEscape(s, c) ==
  CASE c = 117 -> [s EXCEPT !.mode = "hex", !.digits = 0, !.code = 0]
    [] c \in DOMAIN Unescaped -> Adds(s, <<Unescaped[c]>>)
    [] OTHER -> Fails(s)

(* Mutant of EndCode: a surrogate that stands alone is let through. *)
EndCodeLone(s, code) == Adds(s, Utf8(code))

(* The fourth digit of \u: a code point, or one half of a surrogate pair. *)
EndCode(s, code) ==
  CASE s.high # 0 -> IF code \in LowSurrogate THEN Adds(s, Utf8(Pair(s.high, code))) ELSE Fails(s)
    [] s.high = 0 /\ code \in HighSurrogate -> [s EXCEPT !.mode = "second", !.high = code]
    [] s.high = 0 /\ code \in LowSurrogate  -> Fails(s)
    [] OTHER -> Adds(s, Utf8(code))

ScanHex(s, c) ==
  IF ~IsHex(c) THEN Fails(s)
  ELSE LET code == 16 * s.code + HexValue(c) IN
       IF s.digits = 3 THEN EndCode(s, code) ELSE [s EXCEPT !.digits = @ + 1, !.code = code]

(* The document is this string alone; a NUL outside a string counts as its end. *)
ScanBehind(s, c) ==
  CASE c \in {9, 10, 13, 32} -> s
    [] c = 0 -> [s EXCEPT !.mode = "ended"]
    [] OTHER -> Fails(s)

(* One more byte. *)
Scan(s, c) ==
  CASE s.mode = "text"   -> ScanText(s, c)
    [] s.mode = "inside" -> ScanInside(s, c)
    [] s.mode = "escape" -> ScanEscape(s, c)
    [] s.mode = "hex"    -> ScanHex(s, c)
    [] s.mode = "second" -> IF c = Backslash THEN [s EXCEPT !.mode = "secondU"] ELSE Fails(s)
    [] s.mode = "secondU" -> IF c = 117 THEN [s EXCEPT !.mode = "hex", !.digits = 0, !.code = 0]
                             ELSE Fails(s)
    [] s.mode = "closed" -> ScanBehind(s, c)
    [] s.mode \in {"error", "ended"} -> s

(* A document that is one string: the text behind its opening quote, to the end. *)
ReadString(text) ==
  LET end == FoldLeft(Scan, Scanner, text)
  IN  [ok |-> end.mode \in {"closed", "ended"}, out |-> end.out]

-----------------------------------------------------------------------------
(* dump_escaped, strict: an ill-formed text is not written, dump() throws. *)

(* The class of a byte, and the table of the automaton: state 0 accepts, 1 rejects. *)
ByteType(b) ==
  CASE b < 128           -> 0
    [] b \in 128 .. 143  -> 1
    [] b \in 144 .. 159  -> 9
    [] b \in 160 .. 191  -> 7
    [] b \in 194 .. 223  -> 2
    [] b = 224           -> 10
    [] b = 237           -> 4
    [] b \in (225 .. 239) \ {237} -> 3
    [] b = 240           -> 11
    [] b \in 241 .. 243  -> 6
    [] b = 244           -> 5
    [] b \in {192, 193} \cup (245 .. 255) -> 8

Transition(state, type) ==
  CASE state = 0 /\ type \in {0, 2, 3} -> type
    [] state = 0 /\ type = 4           -> 5
    [] state = 0 /\ type = 5           -> 8
    [] state = 0 /\ type = 6           -> 7
    [] state = 0 /\ type = 10          -> 4
    [] state = 0 /\ type = 11          -> 6
    [] state = 2 /\ type \in {1, 7, 9} -> 0
    [] state = 3 /\ type \in {1, 7, 9} -> 2
    [] state = 4 /\ type = 7           -> 2
    [] state = 5 /\ type \in {1, 9}    -> 2
    [] state = 6 /\ type \in {7, 9}    -> 3
    [] state = 7 /\ type \in {1, 7, 9} -> 3
    [] state = 8 /\ type = 1           -> 3
    [] OTHER -> 1

(* The code point so far: six bits of a continuation, or what 0xFF >> type leaves of a first
   byte. *)
CodeOf(state, code, byte) ==
  IF state # 0 THEN (64 * code + (byte % 64)) % 2097152
  ELSE IF ByteType(byte) > 8 THEN 0 ELSE byte % (2 ^ (8 - ByteType(byte)))

Hex(n) == IF n < 10 THEN 48 + n ELSE 87 + n

(* What stands for a character: its last byte, unless it must be escaped. *)
Escape(code, byte) ==
  CASE code = 8  -> <<Backslash, 98>>
    [] code = 9  -> <<Backslash, 116>>
    [] code = 10 -> <<Backslash, 110>>
    [] code = 12 -> <<Backslash, 102>>
    [] code = 13 -> <<Backslash, 114>>
    [] code \in {Quote, Backslash} -> <<Backslash, code>>
    [] code \in Control \ {8, 9, 10, 12, 13} ->
         <<Backslash, 117, 48, 48, Hex(code \div 16), Hex(code % 16)>>
    [] OTHER -> <<byte>>

Dump(s, byte) ==
  LET code == CodeOf(s.state, s.code, byte)
      next == Transition(s.state, ByteType(byte))
  IN  CASE s.state = 1 -> s
        [] s.state # 1 /\ next = 1 -> [s EXCEPT !.state = 1]
        [] s.state # 1 /\ next # 1 ->
             [state |-> next, code |-> code,
              out |-> s.out \o (IF next = 0 THEN Escape(code, byte) ELSE <<byte>>)]

(* The text between the quotes of a string that is written; not ok when dump() throws. *)
WriteString(bytes) ==
  LET end == FoldLeft(Dump, [state |-> 0, code |-> 0, out |-> << >>], bytes)
  IN  [ok |-> end.state = 0, out |-> end.out]

-----------------------------------------------------------------------------
(* Node's side: a string is a sequence of 16-bit units.  JSON.stringify escapes the controls, the
   quotation mark, the reverse solidus and surrogates that stand alone; the pipe is UTF-8. *)

RECURSIVE Characters(_)
Characters(units) ==
  IF units = << >> THEN << >>
  ELSE IF Len(units) > 1 /\ units[1] \in HighSurrogate /\ units[2] \in LowSurrogate
       THEN <<Pair(units[1], units[2])>> \o Characters(SubSeq(units, 3, Len(units)))
       ELSE <<units[1]>> \o Characters(Tail(units))

Surrogate == HighSurrogate \cup LowSurrogate
WellFormed(units) == \A i \in DOMAIN Characters(units) : Characters(units)[i] \notin Surrogate

Each(Text(_), chars) == FlattenSeq([i \in DOMAIN chars |-> Text(chars[i])])

EscapeUnit(n) ==
  <<Backslash, 117, Hex(n \div 4096), Hex((n \div 256) % 16), Hex((n \div 16) % 16), Hex(n % 16)>>

Stringify(units) ==
  LET Text(c) == CASE c \in Control \cup {Quote, Backslash} -> Escape(c, c)
                   [] c \in Surrogate -> EscapeUnit(c)
                   [] OTHER -> Utf8(c)
  IN  Each(Text, Characters(units))

ToUtf8(units)     == Each(Utf8, Characters(units))
AllEscaped(units) == Each(EscapeUnit, units)

-----------------------------------------------------------------------------
(* The only code point that n bytes can stand for. *)
CandidateCodes(bytes, n) ==
  {CASE n = 1 -> bytes[1]
     [] n = 2 -> 64 * (bytes[1] % 32) + (bytes[2] % 64)
     [] n = 3 -> 4096 * (bytes[1] % 16) + 64 * (bytes[2] % 64) + (bytes[3] % 64)
     [] n = 4 -> 262144 * (bytes[1] % 8) + 4096 * (bytes[2] % 64) + 64 * (bytes[3] % 64)
                 + (bytes[4] % 64)}

(* What RFC 3629 calls well-formed: the shortest form of code points that are no surrogates. *)
RECURSIVE IsUtf8(_)
IsUtf8(bytes) ==
  \/ bytes = << >>
  \/ \E n \in 1 .. 4 \cap DOMAIN bytes :
       /\ \E code \in CandidateCodes(bytes, n) :
             code \notin Surrogate /\ code <= 1114111 /\ Utf8(code) = SubSeq(bytes, 1, n)
       /\ IsUtf8(SubSeq(bytes, n + 1, Len(bytes)))
=============================================================================

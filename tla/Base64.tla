-------------------------------- MODULE Base64 --------------------------------
(***************************************************************************)
(* native/src/base64.cpp, and the two commands that store what they decode *)
(* (screenshot and pdf of native/src/cli.cpp).                             *)
(*                                                                         *)
(* A byte is a number below 256.  A character of the text is the number    *)
(* 0..63 of its digit, or one of the three kinds of other characters.      *)
(***************************************************************************)
EXTENDS Naturals, Sequences, SequencesExt

CONSTANTS
  Pad, Blank, Other,    \* '=', white space, any other character
  Unwritable            \* a path that cannot be opened; of another it counts how many bytes fit

ASSUME RoomAssumption == Unwritable \notin Nat

Digit == 0 .. 63
Byte  == 0 .. 255

-----------------------------------------------------------------------------
(* Three bytes become four digits, one or two become two or three and pads. *)

Bits(group) == 65536 * group[1] + 256 * group[2] + group[3]

DigitsOf(n) == <<n \div 262144, (n \div 4096) % 64, (n \div 64) % 64, n % 64>>

Group(data) ==
  CASE Len(data) = 3 -> DigitsOf(Bits(data))
    [] Len(data) = 2 -> SubSeq(DigitsOf(Bits(data \o <<0>>)), 1, 3) \o <<Pad>>
    [] Len(data) = 1 -> SubSeq(DigitsOf(Bits(data \o <<0, 0>>)), 1, 2) \o <<Pad, Pad>>

Encode(data) ==
  LET Part(i) == Group(SubSeq(data, 3 * i - 2, IF 3 * i > Len(data) THEN Len(data) ELSE 3 * i))
  IN  FlattenSeq([i \in 1 .. (Len(data) + 2) \div 3 |-> Part(i)])

-----------------------------------------------------------------------------
(* acc is 32 bits wide; what is read of it are its low 14 bits, which are all that is kept
   here. *)
Start == [state |-> "reading", acc |-> 0, bits |-> 0, out |-> << >>]

TakeDigit(s, digit) ==
  LET acc == (64 * s.acc + digit) % 16384 IN
  IF s.bits >= 2
  THEN [s EXCEPT !.acc = acc, !.bits = @ - 2, !.out = Append(@, (acc \div (2 ^ (s.bits - 2))) % 256)]
  ELSE [s EXCEPT !.acc = acc, !.bits = @ + 6]

(* Mutant of Read: a blank ends the text. *)
ReadToBlank(s, c) ==
  CASE s.state # "reading" -> s
    [] s.state = "reading" /\ c \in {Pad, Blank} -> [s EXCEPT !.state = "ended"]
    [] s.state = "reading" /\ c = Other -> [s EXCEPT !.state = "failed"]
    [] s.state = "reading" /\ c \in Digit -> TakeDigit(s, c)

(* One character; nothing is read behind a pad or a failure. *)
Read(s, c) ==
  CASE s.state # "reading" \/ c = Blank -> s
    [] s.state = "reading" /\ c = Pad   -> [s EXCEPT !.state = "ended"]
    [] s.state = "reading" /\ c = Other -> [s EXCEPT !.state = "failed"]
    [] s.state = "reading" /\ c \in Digit -> TakeDigit(s, c)

Decode(text) ==
  LET end == FoldLeft(Read, Start, text)
  IN  [ok |-> end.state # "failed", out |-> end.out]

-----------------------------------------------------------------------------
(* screenshot and pdf: the reply of the engine, the room there is for the file, and the file.
   A reply without data has an empty text.  Neither the opening nor the writing is looked at:
   what does not fit is lost. *)
Stored(bytes, room, file) ==
  CASE room = Unwritable -> file
    [] room # Unwritable -> SubSeq(bytes, 1, IF room < Len(bytes) THEN room ELSE Len(bytes))

Capture(reply, room, file) ==
  LET decoded == Decode(reply.data) IN
  IF ~reply.ok \/ ~decoded.ok
  THEN [rc |-> 1, file |-> file]
  ELSE [rc |-> 0, file |-> Stored(decoded.out, room, file)]

-----------------------------------------------------------------------------
(* What the text of a byte string is by RFC 4648: its bits, six to a digit, filled up with
   zeros, and pads to a multiple of four characters. *)
BitAt(data, i) == LET byte == 1 + ((i - 1) \div 8) IN
  IF byte > Len(data) THEN 0 ELSE (data[byte] \div (2 ^ (7 - ((i - 1) % 8)))) % 2

DigitAt(data, j) ==
  LET Bit(k) == BitAt(data, 6 * (j - 1) + k)
  IN  32 * Bit(1) + 16 * Bit(2) + 8 * Bit(3) + 4 * Bit(4) + 2 * Bit(5) + Bit(6)

Rfc4648(data) ==
  LET digits == (8 * Len(data) + 5) \div 6
  IN  [j \in 1 .. 4 * ((Len(data) + 2) \div 3) |-> IF j <= digits THEN DigitAt(data, j) ELSE Pad]
=============================================================================

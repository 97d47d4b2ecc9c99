------------------------------ MODULE JsonNumber ------------------------------
(***************************************************************************)
(* Numbers in native/src/json.hpp: scan_number of the lexer, and the       *)
(* serializer's dump_integer, with integers of Width bits.                 *)
(*                                                                         *)
(* A character is the number 0..9 of a digit, or one of four others.  A    *)
(* float keeps its text: of what strtod and to_chars make of it only is    *)
(* modelled whether it is too large to be finite.                          *)
(***************************************************************************)
EXTENDS Integers, Sequences, SequencesExt

CONSTANTS
  Width,       \* of integers: 64 in the program
  FloatLimit   \* the digits of the least integer that is read as an infinite float: 309 digits
               \* in the program, 2^1024 - 2^970

ASSUME WidthAssumption == Width \in Nat \ {0}
ASSUME LimitAssumption == FloatLimit \in Seq(0 .. 9) \ {<< >>} /\ FloatLimit[1] # 0

Minus == 10
Plus  == 11
Point == 12
Exp   == 13           \* e or E
Dec   == 0 .. 9

MaxUnsigned == 2 ^ Width - 1
MaxInteger  == 2 ^ (Width - 1) - 1
MinInteger  == -(2 ^ (Width - 1))

-----------------------------------------------------------------------------
(* The labels of scan_number: what is expected next.  From those in Complete an unexpected
   character ends the number; it is read again for the next token, which makes a document that
   is a number fail. *)
Complete == {"zero", "any1", "decimal2", "any2"}

ExpectInteger(label, c) ==
  CASE label \in {"init", "minus"} /\ c = 0        -> "zero"
    [] label \in {"init", "minus"} /\ c \in 1 .. 9 -> "any1"
    [] label = "init" /\ c = Minus                 -> "minus"
    [] label = "any1" /\ c \in Dec                 -> "any1"
    [] label \in {"zero", "any1"} /\ c = Point     -> "decimal1"
    [] label \in {"zero", "any1"} /\ c = Exp       -> "exponent"
    [] OTHER -> "error"

ExpectFraction(label, c) ==
  CASE c \in Dec                       -> "decimal2"
    [] label = "decimal2" /\ c = Exp   -> "exponent"
    [] OTHER -> "error"

ExpectExponent(label, c) ==
  CASE c \in Dec                                -> "any2"
    [] label = "exponent" /\ c \in {Plus, Minus} -> "sign"
    [] OTHER -> "error"

Expect(label, c) ==
  CASE label \in {"init", "minus", "zero", "any1"}  -> ExpectInteger(label, c)
    [] label \in {"decimal1", "decimal2"}           -> ExpectFraction(label, c)
    [] label \in {"exponent", "sign", "any2"}       -> ExpectExponent(label, c)
    [] label = "error"                              -> label

Decimal(digits) == FoldLeft(LAMBDA n, d : 10 * n + d, 0, digits)

Number(type, value, text) == [ok |-> TRUE, type |-> type, value |-> value, text |-> text]
NoNumber == [ok |-> FALSE, type |-> "none", value |-> 0, text |-> << >>]

(* An integer that does not fit becomes a float. *)
Convert(text) ==
  CASE Point \in ToSet(text) \/ Exp \in ToSet(text) -> Number("float", 0, text)
    [] text[1] = Minus -> IF -Decimal(Tail(text)) >= MinInteger
                          THEN Number("integer", -Decimal(Tail(text)), text)
                          ELSE Number("float", 0, text)
    [] OTHER           -> IF Decimal(text) <= MaxUnsigned THEN Number("unsigned", Decimal(text), text)
                          ELSE Number("float", 0, text)

ScanNumber(text) ==
  IF FoldLeft(Expect, "init", text) \in Complete THEN Convert(text) ELSE NoNumber

(* The parts of a number: the digits of its mantissa, how many of them stand before the point,
   its exponent. *)
Before(text, c)  == IF c \in ToSet(text) THEN SubSeq(text, 1, SelectInSeq(text, LAMBDA d : d = c) - 1) ELSE text
OnlyDigits(text) == SelectSeq(text, LAMBDA c : c \in Dec)
Mantissa(text)   == OnlyDigits(Before(text, Exp))
WholeDigits(text) == Len(OnlyDigits(Before(Before(text, Exp), Point)))
Exponent(text)   == LET digits == SubSeq(text, Len(Before(text, Exp)) + 1, Len(text)) IN
                    (IF Minus \in ToSet(digits) THEN -1 ELSE 1) * Decimal(OnlyDigits(digits))

(* strtod: the digits from the first one that is not 0, and their place, are compared with
   FloatLimit. *)
Overflows(text) ==
  LET digits == Mantissa(text)
      zeros  == SelectInSeq(digits, LAMBDA d : d # 0) - 1     \* -1 when there are but zeros
      places == WholeDigits(text) + Exponent(text) - zeros
      At(i)  == IF i + zeros \in DOMAIN digits THEN digits[i + zeros] ELSE 0
      Less   == \E i \in DOMAIN FloatLimit :
                  At(i) < FloatLimit[i] /\ \A j \in 1 .. i - 1 : At(j) = FloatLimit[j]
  IN  zeros >= 0 /\ (places > Len(FloatLimit) \/ (places = Len(FloatLimit) /\ ~Less))

(* Mutant of ReadNumberToken: an infinite float is a value like any other. *)
ReadNumberTokenAnySize(text) == ScanNumber(text)

(* The parser takes no float that is not finite: "number overflow". *)
ReadNumberToken(text) ==
  LET number == ScanNumber(text)
  IN  IF number.type = "float" /\ Overflows(text) THEN NoNumber ELSE number

-----------------------------------------------------------------------------
RECURSIVE CountDigits(_), Digits(_)
CountDigits(n) ==
  CASE n < 10    -> 1
    [] n \in 10 .. 99     -> 2
    [] n \in 100 .. 999   -> 3
    [] n \in 1000 .. 9999 -> 4
    [] n > 9999  -> 4 + CountDigits(n \div 10000)

(* Two digits at a time, from the end. *)
Digits(n) ==
  CASE n < 10        -> <<n>>
    [] n \in 10 .. 99 -> <<n \div 10, n % 10>>
    [] n > 99        -> Digits(n \div 100) \o <<(n % 100) \div 10, n % 10>>

(* In two steps, as -MinInteger does not fit. *)
RemoveSign(n) == -(n + 1) + 1

(* dump_integer: the room for the digits is counted, then filled from its end. *)
WriteInteger(n) ==
  LET abs    == IF n < 0 THEN RemoveSign(n) ELSE n
      digits == Digits(abs)
      room   == CountDigits(abs)
      At(i)  == IF i + Len(digits) - room \in DOMAIN digits THEN digits[i + Len(digits) - room] ELSE Plus
  IN  (IF n < 0 THEN <<Minus>> ELSE << >>) \o [i \in 1 .. room |-> At(i)]

-----------------------------------------------------------------------------
(* The grammar of RFC 8259: an integer part, then perhaps a fraction, then perhaps an exponent. *)
AllDigits(t) == t # << >> /\ ToSet(t) \subseteq Dec

IsIntegral(t) ==
  LET u == IF t # << >> /\ t[1] = Minus THEN Tail(t) ELSE t
  IN  AllDigits(u) /\ (u[1] = 0 => Len(u) = 1)

IsFraction(t) == t = << >> \/ (t[1] = Point /\ AllDigits(Tail(t)))

IsExponent(t) ==
  \/ t = << >>
  \/ t[1] = Exp /\ AllDigits(IF Len(t) > 1 /\ t[2] \in {Plus, Minus} THEN SubSeq(t, 3, Len(t)) ELSE Tail(t))

(* It is less than FloatLimit: its integer part, written out without exponent, is. *)
IsFinite(t) ==
  LET digits == Mantissa(t)
      length == WholeDigits(t) + Exponent(t)
      whole  == [i \in 1 .. length |-> IF i \in DOMAIN digits THEN digits[i] ELSE 0]
      over   == length - Len(FloatLimit)
  IN  \/ over < 0
      \/ /\ \A i \in 1 .. over : whole[i] = 0
         /\ Decimal(SubSeq(whole, over + 1, length)) < Decimal(FloatLimit)

IsNumber(t) ==
  \E i \in 0 .. Len(t) : \E j \in i .. Len(t) :
    /\ IsIntegral(SubSeq(t, 1, i))
    /\ IsFraction(SubSeq(t, i + 1, j))
    /\ IsExponent(SubSeq(t, j + 1, Len(t)))
=============================================================================

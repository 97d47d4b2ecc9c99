------------------------------- MODULE MCTexts -------------------------------
(* Texts for TLC: the bytes and code units at the boundaries of their classes, every short
   document and longer ones with an error, byte strings of every length modulo 3, and trees of
   four nodes. *)
EXTENDS Texts

UpTo(S, n) == UNION {[1 .. k -> S] : k \in 0 .. n}

Boundaries ==
  {8, 10, 31, 34, 65, 92, 127, 128, 143, 144, 159, 160, 191, 193, 194, 223, 224, 225, 237, 239,
   240, 241, 243, 244, 245, 255}
FourBytes ==
  {<<a, b, c, d>> : a \in {240, 241, 244, 245}, b \in {127, 128, 143, 144, 191, 192},
                    c \in {127, 128, 191, 192}, d \in {127, 128, 191, 192}}
\* \ud83d and \ude00 on their own, together, cut and in the wrong order
High == <<92, 117, 100, 56, 51, 100>>
Low  == <<92, 117, 100, 101, 48, 48>>
Escapes == {High, Low, High \o Low, Low \o High, High \o <<92>>, High \o High \o Low,
            <<92, 117, 48, 48>>, <<92, 110>>, <<92, 120>>}
Bytes == UpTo(Boundaries, 3) \cup FourBytes \cup Escapes

Units ==
  UpTo({0, 10, 31, 34, 65, 92, 127, 128, 2047, 2048, 55295, 55296, 56319, 56320, 57343, 57344,
        65535}, 3)

(* Short texts, integers on both sides of the powers of ten and of two, and the same value just
   below and at the limit of floats with its point at different places. *)
LimitDigits == <<1, 7, 9>> \o [i \in 1 .. 5 |-> 0]    \* 17900000
NearLimit ==
  {<<1, 7, 8, 9, 9>> \o <<9, 9, 9>>, LimitDigits} \cup
  UNION {{m \o <<Exp>> \o e : m \in {<<1, 7, 8>>, <<1, 7, 9>>}, e \in {<<5>>, <<Plus, 0, 5>>}},
         {m \o <<Exp, 7>> : m \in {<<1, Point, 7, 8, 9>>, <<1, Point, 7, 9>>, <<0, Point, 0, 1, 7, 9>>}},
         {<<0, Point, 0, 0>> \o m \o <<Exp, 1, 0>> : m \in {<<1, 7, 8>>, <<1, 7, 9>>, <<1, 8>>}},
         {LimitDigits \o <<0, 0, Exp, Minus, e>> : e \in 1 .. 3}}
Around(n) == {Digits(m) : m \in n - 1 .. n + 1}
Numerals ==
  LET plain == UNION {Around(n) : n \in {10, 100, 1000, 9999, 10000, 99999, 100000, 1000000, 99, 999,
                                          2 ^ (Width - 1), 2 ^ Width}}
  IN  plain \cup NearLimit \cup {<<Minus>> \o d : d \in plain \cup NearLimit} \cup UpTo({0, 1, 9, Minus, Plus, Point, Exp}, 5)

Documents ==
  {<<"{", "a", ":", "n", ",", "a", ":", "[", "n", "]", "}">>,
   <<"[", "[", "n", ",", "b", "]", ",", "{", "}", ",", "[", "]", "]">>,
   <<"{", "b", ":", "{", "a", ":", "n", "}", ",", "a", ":", "n", "}">>}
Edited(t) == {[t EXCEPT ![i] = c] : i \in DOMAIN t, c \in Tokens} \cup {RemoveAt(t, i) : i \in DOMAIN t}
TokenTexts == UpTo({"{", "}", "[", "]", ":", ",", "a", "n"}, 5) \cup UpTo(Tokens, 3)
              \cup UNION {Edited(t) : t \in Documents}

Pictures == UpTo({0, 1, 63, 64, 128, 255}, 3) \cup UpTo({7, 250}, 7)
Broken(text) == FlattenSeq([i \in DOMAIN text |-> IF i % 3 = 0 THEN <<text[i], Blank>> ELSE <<text[i]>>])
Answers ==
  UNION {{[ok |-> TRUE, data |-> d, bytes |-> p] : d \in {Encode(p), Broken(Encode(p))}} : p \in Pictures}
  \cup {[ok |-> TRUE, data |-> d, bytes |-> << >>] : d \in {<<Other>>, <<0, 0, Other, 0>>}}
  \cup {[ok |-> FALSE, data |-> << >>, bytes |-> << >>]}

(* Trees of four nodes, children in either order, with an id no node has, the other nodes in the
   array behind the root in either order, the root or another one without an id. *)
Parents == {p \in [2 .. 4 -> 0 .. 3] : \A i \in 2 .. 4 : p[i] < i}
Look == {[ignored |-> FALSE, role |-> "role"], [ignored |-> TRUE, role |-> "role"],
         [ignored |-> FALSE, role |-> NoRole]}
Children(p, i, down) ==
  LET up == SetToSortSeq({j \in 2 .. 4 : p[j] = i} \cup (IF i = 2 THEN {9} ELSE {}), <)
  IN  IF down THEN Reverse(up) ELSE up
Tree(p, look, down, order, blank) ==
  [k \in 1 .. 4 |-> [id |-> IF order[k] = blank THEN NoId ELSE order[k],
                     ignored |-> look[order[k]].ignored, role |-> look[order[k]].role,
                     childIds |-> Children(p, order[k], down)]]
Trees ==
  {<< >>} \cup {Tree(p, look, down, order, blank) :
                   p \in Parents, look \in [1 .. 4 -> Look], down \in BOOLEAN,
                   order \in {<<1, 2, 3, 4>>, <<1, 4, 3, 2>>}, blank \in {0, 1, 3}}

Space == {Unwritable} \cup 0 .. 7

StringTokens == <<"a", "b">>
=============================================================================

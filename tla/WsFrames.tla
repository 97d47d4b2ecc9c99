------------------------------- MODULE WsFrames -------------------------------
(***************************************************************************)
(* The WebSocket client of the native side (native/src/ws_client.cpp): the *)
(* upgrade, the bytes recv() hands over in chunks of any size, the frames  *)
(* decoded from them, and the headers and masks of what is sent.  Bytes    *)
(* are numbers below 256.  The server is external and keeps to RFC 6455:   *)
(* only control frames come between the fragments of a message, nothing    *)
(* follows a close frame.  The write of a frame succeeds (CdpBridge has    *)
(* the writes that do not).                                                *)
(***************************************************************************)
EXTENDS Integers, Sequences, SequencesExt, Bitwise

CONSTANTS
  Mixes           \* bounds of the traffic, a sequence of records:
                  \*   sizes      payload lengths of the server's frames
                  \*   forms      the length fields it uses, of 7, 16 and 64 bits
                  \*   masking    whether it masks: README says never, the decoder can
                  \*   kinds      the frames it sends
                  \*   chunks     bytes one recv() returns, all there are when they are fewer
                  \*   frames     how many frames it sends, and rounds of the decoder
                  \*   textSizes  lengths of the texts the client sends
                  \*   texts      how many texts and close frames the client sends

ASSUME MixesAssumption ==
  \A i \in DOMAIN Mixes :
    LET m == Mixes[i] IN
    /\ m.sizes \subseteq 0 .. 1000 /\ m.textSizes \subseteq Nat /\ m.forms \subseteq {7, 16, 64}
    /\ m.masking \subseteq BOOLEAN /\ m.frames \in Nat /\ m.texts \in Nat
    /\ m.kinds \subseteq {"text", "part", "ping", "pong", "odd", "close", "huge", "limit"}
    /\ m.chunks \subseteq 1 .. 8192

Bytes     == 0 .. 255
HttpBytes == 2              \* the 101 response, cut to its last two bytes
HttpByte  == 256            \* a byte of it, told apart from those of frames
Limit     == 512 * 1024 * 1024
Key       == <<1, 2, 131, 4>>   \* a masking key: any other would do

VARIABLES
  mix,            \* the one of Mixes that is tried
  wire,           \* bytes the server has sent and nobody read
  eof,            \* the server shut its end down
  open,           \* connectUrl returned true
  closed,         \* m_closed
  recvBuf,        \* m_recvBuf
  fragment,       \* m_fragment (m_fragOpcode is written and never read)
  out,            \* history: messages poll() handed over
  up,             \* history: frames written, as [head, key, body]
  texts,          \* history: what they must say, as [op, len, body]
  goals,          \* history: the server's frames, [kind, body, end], end the byte it ends at
  partial,        \* payload of the server's unfinished message, << >> for none
  parting,        \* the server is in the middle of a message
  recvd,          \* history: bytes read since the upgrade
  decoded         \* history: tryDecode has run

Bounds == Mixes[mix]

vars == <<mix, wire, eof, open, closed, recvBuf, fragment, out, up, texts, goals, partial, parting,
          recvd, decoded>>

TypeOK ==
  /\ mix \in DOMAIN Mixes
  /\ wire \in Seq(Bytes \cup {HttpByte}) /\ recvBuf \in Seq(Bytes) /\ fragment \in Seq(Bytes)
  /\ {eof, open, closed, parting, decoded} \subseteq BOOLEAN
  /\ \A i \in DOMAIN out : out[i] \in Seq(Bytes)
  /\ \A i \in DOMAIN up : up[i].head \in Seq(Bytes) /\ up[i].body \in Seq(Bytes)
  /\ recvd \in Nat

Init ==
  /\ mix \in DOMAIN Mixes
  /\ wire = [i \in 1 .. HttpBytes |-> HttpByte] /\ eof = FALSE
  /\ open = FALSE /\ closed = FALSE
  /\ recvBuf = << >> /\ fragment = << >> /\ out = << >>
  /\ up = << >> /\ texts = << >> /\ goals = << >>
  /\ partial = << >> /\ parting = FALSE /\ recvd = 0 /\ decoded = FALSE

-----------------------------------------------------------------------------
(* Bytes of a frame. *)

(* A table, so that TLC works each out once. *)
XorTable == [a \in Bytes |-> [b \in Bytes |-> a ^^ b]]

Masked(payload, key) == [i \in DOMAIN payload |-> XorTable[payload[i]][key[((i - 1) % 4) + 1]]]

(* The length field after the flag bit, 16 bits of it for the middle form. *)
LengthField(bit, form, n) ==
  CASE form = 7  -> <<bit + n>>
    [] form = 16 -> <<bit + 126, (n \div 256) % 256, n % 256>>
    [] form = 64 -> <<bit + 127, 0, 0, 0, 0, n \div (2^24), (n \div (2^16)) % 256,
                      (n \div 256) % 256, n % 256>>

(* Mutant of Form: the 7-bit form for 126 too. *)
FormLoose(n) == IF n <= 126 THEN 7 ELSE IF n < 65536 THEN 16 ELSE 64

(* The form sendFrame takes for a payload of n bytes. *)
Form(n) == IF n <= 125 THEN 7 ELSE IF n < 65536 THEN 16 ELSE 64

(* sendFrame: FIN and opcode, length, key, masked payload. *)
Frame(op, n, payload) ==
  [head |-> <<128 + op>> \o LengthField(128, Form(n), n), key |-> Key, body |-> Masked(payload, Key)]

-----------------------------------------------------------------------------
(* The server.  A frame it sends is appended to the wire in one piece: recv() may cut it
   anywhere. *)

Total == recvd + Len(wire) - (IF open THEN 0 ELSE HttpBytes)

Payload(n) == [i \in 1 .. n |-> Len(goals) + (i % 3)]     \* tells messages and places apart

ServerSends(kind, bytes, body) ==
  /\ ~eof /\ Len(goals) < Bounds.frames
  /\ \A i \in DOMAIN goals : goals[i].kind \notin {"close", "huge", "limit"}
  /\ wire' = wire \o bytes
  /\ goals' = Append(goals, [kind |-> kind, body |-> body, end |-> Total + Len(bytes)])
  /\ UNCHANGED <<mix, eof, open, closed, recvBuf, fragment, out, up, texts, recvd, decoded>>

Fits(form, n) == form = 7 => n <= 125

ServerFrame(first, form, masked, payload) ==
  <<first>> \o LengthField(IF masked THEN 128 ELSE 0, form, Len(payload))
            \o (IF masked THEN Key \o Masked(payload, Key) ELSE payload)

(* A message in one frame, or the last frame of one. *)
ServerText(form, masked, n) ==
  /\ "text" \in Bounds.kinds /\ Fits(form, n)
  /\ ServerSends("text", ServerFrame(128 + (IF parting THEN 0 ELSE 1), form, masked, Payload(n)),
                 partial \o Payload(n))
  /\ partial' = << >> /\ parting' = FALSE

(* A fragment that is not the last. *)
ServerPart(form, masked, n) ==
  /\ "part" \in Bounds.kinds /\ Fits(form, n)
  /\ ServerSends("part", ServerFrame(IF parting THEN 0 ELSE 1, form, masked, Payload(n)), << >>)
  /\ partial' = partial \o Payload(n) /\ parting' = TRUE

(* A control frame, or one with an opcode nobody defined. *)
ServerControl(masked, n) ==
  \E kind \in Bounds.kinds \cap {"ping", "pong", "close", "odd"} :
    /\ n <= 125
    /\ LET op == CASE kind = "ping" -> 9 [] kind = "pong" -> 10 [] kind = "close" -> 8 [] OTHER -> 3
       IN ServerSends(kind, ServerFrame(128 + op, 7, masked, Payload(n)), Payload(n))
    /\ UNCHANGED <<partial, parting>>

(* A header that announces more than the client takes, or just as much: the payload is not
   sent within the bounds. *)
ServerHuge ==
  /\ \E kind \in Bounds.kinds \cap {"huge", "limit"} :
       \E length \in IF kind = "limit" THEN {<<0, 0, 0, 0, 32, 0, 0, 0>>}
                     ELSE {<<0, 0, 0, 0, 32, 0, 0, 1>>, <<0, 0, 0, 1, 0, 0, 0, 0>>,
                           <<255, 255, 255, 255, 255, 255, 255, 255>>} :
         ServerSends(kind, <<130, 127>> \o length, << >>)
  /\ UNCHANGED <<partial, parting>>

ServerEof ==
  /\ ~eof /\ eof' = TRUE
  /\ UNCHANGED <<mix, wire, open, closed, recvBuf, fragment, out, up, texts, goals, partial, parting,
                 recvd, decoded>>

-----------------------------------------------------------------------------
(* tryDecode. *)

(* The 64-bit length, anything above the limit brought down to just above it. *)
Length64(b) == IF (\E i \in 1 .. 4 : b[i] # 0) \/ b[5] >= 64 THEN Limit + 1
               ELSE ((b[5] * 256 + b[6]) * 256 + b[7]) * 256 + b[8]

HeaderBytes(buf) == CASE buf[2] % 128 = 126 -> 4 [] buf[2] % 128 = 127 -> 10 [] OTHER -> 2

(* Mutant of PayloadLength: the two bytes are taken low byte first. *)
PayloadLengthSwapped(buf) ==
  CASE buf[2] % 128 = 126 -> buf[4] * 256 + buf[3]
    [] buf[2] % 128 = 127 -> Length64(SubSeq(buf, 3, 10))
    [] OTHER -> buf[2] % 128

PayloadLength(buf) ==
  CASE buf[2] % 128 = 126 -> buf[3] * 256 + buf[4]
    [] buf[2] % 128 = 127 -> Length64(SubSeq(buf, 3, 10))
    [] OTHER -> buf[2] % 128

(* Mutant of TooLong: the limit itself is refused. *)
TooLongOrEqual(n) == n >= Limit

TooLong(n) == n > Limit

(* Mutant of Take: an empty last fragment does not end its message. *)
TakeUnended(s, op, fin, payload) ==
  CASE op = 8  -> [s EXCEPT !.closed = TRUE, !.going = FALSE]
    [] op = 9  -> [s EXCEPT !.pongs = Append(@, payload)]
    [] op = 0 /\ payload = << >> -> s
    [] op = 0 /\ ~fin -> [s EXCEPT !.fragment = @ \o payload]
    [] op = 0 /\ fin  -> [s EXCEPT !.out = Append(@, s.fragment \o payload), !.fragment = << >>]
    [] op \in {1, 2} /\ fin  -> [s EXCEPT !.out = Append(@, payload)]
    [] op \in {1, 2} /\ ~fin -> [s EXCEPT !.fragment = payload]
    [] OTHER -> s

(* What a whole frame does. *)
Take(s, op, fin, payload) ==
  CASE op = 8  -> [s EXCEPT !.closed = TRUE, !.going = FALSE]
    [] op = 9  -> [s EXCEPT !.pongs = Append(@, payload)]
    [] op = 0 /\ ~fin -> [s EXCEPT !.fragment = @ \o payload]
    [] op = 0 /\ fin  -> [s EXCEPT !.out = Append(@, s.fragment \o payload), !.fragment = << >>]
    [] op \in {1, 2} /\ fin  -> [s EXCEPT !.out = Append(@, payload)]
    [] op \in {1, 2} /\ ~fin -> [s EXCEPT !.fragment = payload]
    [] OTHER -> s

(* One round of the loop. *)
Round(s) ==
  LET buf == s.buf
      stop == [s EXCEPT !.going = FALSE]
  IN IF ~s.going THEN s
     ELSE IF Len(buf) < 2 \/ Len(buf) < HeaderBytes(buf) THEN stop
     ELSE LET masked == buf[2] >= 128
              n      == PayloadLength(buf)
              start  == HeaderBytes(buf) + (IF masked THEN 4 ELSE 0)
          IN IF TooLong(n) THEN [stop EXCEPT !.closed = TRUE]
             ELSE IF Len(buf) < start + n THEN stop
             ELSE LET raw == SubSeq(buf, start + 1, start + n)
                      payload == IF masked THEN Masked(raw, SubSeq(buf, start - 3, start)) ELSE raw
                  IN Take([s EXCEPT !.buf = SubSeq(buf, start + n + 1, Len(buf))],
                          buf[1] % 16, buf[1] >= 128, payload)

(* The loop: the buffer holds no more frames than the server sends, and a round finds it empty. *)
Decode(buf) ==
  FoldLeft(LAMBDA s, i : Round(s),
           [buf |-> buf, fragment |-> fragment, out |-> out, pongs |-> << >>, closed |-> closed,
            going |-> TRUE],
           [i \in 1 .. Bounds.frames + 1 |-> i])

TryDecode(buf) ==
  LET s == Decode(buf) IN
  /\ recvBuf' = s.buf /\ fragment' = s.fragment /\ out' = s.out /\ closed' = s.closed
  /\ up' = up \o [i \in DOMAIN s.pongs |-> Frame(10, Len(s.pongs[i]), s.pongs[i])]
  /\ texts' = texts \o [i \in DOMAIN s.pongs |->
                          [op |-> 10, len |-> Len(s.pongs[i]), body |-> s.pongs[i]]]
  /\ decoded' = TRUE

-----------------------------------------------------------------------------
(* connectUrl: the last recv() of the response may bring the first frames, which stay in
   the buffer.  The ways it fails leave no connection: CdpBridge has them. *)
ConnectUrl ==
  /\ ~open /\ ~closed
  /\ \E k \in HttpBytes .. Len(wire) :
       /\ wire' = SubSeq(wire, k + 1, Len(wire))
       /\ recvBuf' = SubSeq(wire, HttpBytes + 1, k)
       /\ recvd' = k - HttpBytes
  /\ open' = TRUE
  /\ UNCHANGED <<mix, eof, closed, fragment, out, up, texts, goals, partial, parting, decoded>>

(* poll: bytes to read. *)
Poll ==
  /\ open
  /\ wire # << >>
  /\ \E chunk \in Bounds.chunks :
     LET k == IF chunk < Len(wire) THEN chunk ELSE Len(wire) IN
       /\ wire' = SubSeq(wire, k + 1, Len(wire))
       /\ TryDecode(recvBuf \o SubSeq(wire, 1, k))
       /\ recvd' = recvd + k
  /\ UNCHANGED <<mix, eof, open, goals, partial, parting>>

(* poll: nothing to read yet. *)
PollAgain ==
  /\ open /\ wire = << >> /\ ~eof
  /\ TryDecode(recvBuf)
  /\ UNCHANGED <<mix, wire, eof, open, goals, partial, parting, recvd>>

(* poll: the end of the stream, or its loss with what was on the way. *)
PollEnds ==
  /\ open /\ eof
  /\ wire' = << >> /\ closed' = TRUE
  /\ UNCHANGED <<mix, eof, open, recvBuf, fragment, out, up, texts, goals, partial, parting, recvd,
                 decoded>>

(* sendText; of a long text the first bytes only are kept. *)
SendText(n) ==
  /\ open /\ Len(SelectSeq(texts, LAMBDA t : t.op # 10)) < Bounds.texts
  /\ LET body == [i \in 1 .. (IF n < 5 THEN n ELSE 5) |-> 64 + i] IN
     /\ up' = Append(up, Frame(1, n, body))
     /\ texts' = Append(texts, [op |-> 1, len |-> n, body |-> body])
  /\ UNCHANGED <<mix, wire, eof, open, closed, recvBuf, fragment, out, goals, partial, parting, recvd,
                 decoded>>

SendClose ==
  /\ open /\ ~closed /\ Len(SelectSeq(texts, LAMBDA t : t.op # 10)) < Bounds.texts
  /\ up' = Append(up, Frame(8, 0, << >>))
  /\ texts' = Append(texts, [op |-> 8, len |-> 0, body |-> << >>])
  /\ UNCHANGED <<mix, wire, eof, open, closed, recvBuf, fragment, out, goals, partial, parting, recvd,
                 decoded>>

Next ==
  \/ \E form \in Bounds.forms, masked \in Bounds.masking, n \in Bounds.sizes :
       ServerText(form, masked, n) \/ ServerPart(form, masked, n)
  \/ \E masked \in Bounds.masking, n \in Bounds.sizes : ServerControl(masked, n)
  \/ ServerHuge \/ ServerEof
  \/ ConnectUrl \/ Poll \/ PollAgain \/ PollEnds
  \/ \E n \in Bounds.textSizes : SendText(n)
  \/ SendClose

Spec == Init /\ [][Next]_vars

-----------------------------------------------------------------------------
(* The server's frames of one kind that have been read to their last byte. *)
Due(kind) == LET whole == SelectSeq(goals, LAMBDA g : g.kind = kind /\ g.end <= recvd)
             IN [i \in DOMAIN whole |-> whole[i].body]

\* The messages handed over are those the server has completed in the bytes read, whatever
\* the pieces recv() cut them into, whatever length form and mask they have, with control
\* frames and unknown ones in between.
Delivered == decoded => out = Due("text")

\* Every ping read is answered, in order, with its payload; masking what goes out is undone by
\* its key, and the length in its header is its length in the shortest form.
SentIsReadable ==
  /\ decoded => [i \in DOMAIN Due("ping") |-> Due("ping")[i]]
                = LET pongs == SelectSeq(texts, LAMBDA t : t.op = 10)
                  IN [i \in DOMAIN pongs |-> pongs[i].body]
  /\ \A i \in DOMAIN up :
       LET head == up[i].head IN
       /\ head[1] = 128 + texts[i].op /\ head[2] >= 128
       /\ Masked(up[i].body, up[i].key) = texts[i].body
       /\ Len(head) = HeaderBytes(head)
       /\ PayloadLength(head) = texts[i].len
       /\ Len(head) = IF texts[i].len < 126 THEN 2 ELSE IF texts[i].len < 65536 THEN 4 ELSE 10

\* The client gives a connection up for a close frame or a length above 512 MiB, as soon as
\* it is read, and for the end of the stream, and for nothing else.
ClosedWhenDue ==
  decoded /\ ~eof => (closed <=> Due("close") \o Due("huge") # << >>)
=============================================================================

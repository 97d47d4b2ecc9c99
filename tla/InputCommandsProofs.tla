------------------------- MODULE InputCommandsProofs -------------------------
(***************************************************************************)
(* InputCommands: its type invariant, the page the commands ask for and    *)
(* what they print, proved for every set of fields, keys and texts, any    *)
(* number of commands and any timeouts.  A command whose waits time out    *)
(* ends while its messages are still on their way, so the invariant        *)
(* follows every chain of pages those messages may yet produce to the page *)
(* that the commands started so far, the running one included, ask for.    *)
(***************************************************************************)
EXTENDS InputCommands, SequenceTheorems, TLAPS

(* Pages that differ in nothing but the outline of highlight and its timers. *)
Same(p, q) ==
  /\ p.focus = q.focus /\ p.value = q.value /\ p.held = q.held
  /\ p.pointer = q.pointer /\ p.pressed = q.pressed
  /\ p.clicks = q.clicks /\ p.doubles = q.doubles
  /\ p.checked = q.checked /\ p.scrolled = q.scrolled /\ p.stored = q.stored

(* Message m may turn page p into page q. *)
Turns(p, m, q) ==
  \/ Names(m) # Missing /\ Same(q, Applied(p, m))
  \/ (Names(m) = Missing \/ m.op = "focusNode") /\ Same(q, p)

(* The pages between messages on their way, from page p on. *)
Chain(p, messages, P) ==
  /\ P \in [1 .. Len(messages) + 1 -> Page] /\ Same(P[1], p)
  /\ \A i \in 1 .. Len(messages) : Turns(P[i], messages[i], P[i + 1])

(* Whatever becomes of them, the last of the pages is one of the goals. *)
Leads(p, messages, goals) ==
  \A P \in [1 .. Len(messages) + 1 -> Page] :
    Chain(p, messages, P) => \E goal \in goals : Same(P[Len(messages) + 1], goal)

-----------------------------------------------------------------------------
(* The pages that the first n messages of a command's script may make of page p. *)

FieldNames  == {"type", "fill", "focus"}
LookupNames == FieldNames \cup {"hover", "dblclick"}

Focused(p, f) == [p EXCEPT !.focus = f]

FieldGoals(p, c, n) ==
  IF n <= 2 THEN {p}
  ELSE IF n = 3 THEN {p, Focused(p, c.field)}
  ELSE IF n = 4 THEN {Focused(p, c.field)}
  ELSE IF n = 5 /\ c.name = "fill" THEN {[Focused(p, c.field) EXCEPT !.value[c.field] = << >>]}
  ELSE {Effect(p, c)}

Click(p, f) == Release(Press(p, f), f)
DblclickGoals(p, c, n) ==
  IF n <= 2 THEN {p}
  ELSE IF n = 3 THEN {Press(p, c.field)}
  ELSE IF n = 4 THEN {Click(p, c.field)}
  ELSE IF n = 5 THEN {Press(Click(p, c.field), c.field)}
  ELSE IF n = 6 THEN {Click(Click(p, c.field), c.field)}
  ELSE {Effect(p, c)}

HoverGoals(p, c, n) == IF n <= 2 THEN {p} ELSE {Effect(p, c)}
PressGoals(p, c, n) == IF n = 1 THEN {KeyDown(p, c.key, ~c.modified)} ELSE {Effect(p, c)}

(* Of a text typed key by key, an odd message has a key down that the next one lets up. *)
HalfTyped(p, text, n) ==
  [Insert(p, SubSeq(text, 1, (n + 1) \div 2)) EXCEPT
     !.held = (@ \ ToSet(SubSeq(text, 1, n \div 2)))
              \cup IF n % 2 = 1 THEN {text[(n + 1) \div 2]} ELSE {}]

(* A script of one message, which does nothing when its selector matches nothing. *)
OneGoal(p, c) == IF Names(Script(c)[1]) = Missing THEN {p} ELSE {Effect(p, c)}

Goals(p, c, n) ==
  IF n = 0 THEN {p}
  ELSE CASE c.name \in FieldNames -> FieldGoals(p, c, n)
         [] c.name = "dblclick"   -> DblclickGoals(p, c, n)
         [] c.name = "hover"      -> HoverGoals(p, c, n)
         [] c.name = "press"      -> PressGoals(p, c, n)
         [] c.name = "keyboard"   -> {HalfTyped(p, c.text, n)}
         [] OTHER                 -> OneGoal(p, c)

-----------------------------------------------------------------------------
(* The inductive invariant *)

Message == Script(command)[step]
Sent    == IF waiting THEN step ELSE step - 1

(* What is on its way leads to a page that the running command may have made of the one
   that the commands before it have asked for. *)
OnCourse == Leads(page, toEngine, Goals(asked, command, Sent))

(* The command that waits has sent its message last; the answer to it tells of the page. *)
LastIsOwn == waiting /\ toEngine # << >> => toEngine[Len(toEngine)] = Message
AnswerIsOwn ==
  waiting /\ toEngine = << >> =>
    /\ answer = "ok" => Names(Message) # Missing /\ (Message.op = "focusNode" => page.focus = Message.on)
    /\ answer = "error" => Names(Message) = Missing \/ Message.op = "focusNode"
    /\ told = IF Message.op \in {"read", "store"} /\ Names(Message) # Missing
              THEN Told(page, Names(Message)) ELSE Nothing

(* A command gets past its lookup only with a field, past a character only when it can be sent. *)
Found(c, n) == c.name \in LookupNames /\ n > 2 => c.field # Missing
Sendable(c, n) == c.name = "keyboard" =>
  \A j \in DOMAIN c.text : 2 * j - 1 <= n => c.text[j] \notin WideChars
Placed ==
  /\ waiting => command # NoCommand
  /\ command # NoCommand => Found(command, step) /\ Sendable(command, Sent)

Plain == asked.red = [f \in Fields |-> FALSE] /\ asked.toRestore = << >>

(* At most one outline is on, or about to be, and its timer remembers that there was none. *)
OneOutline ==
  /\ \A i \in DOMAIN toEngine : toEngine[i].op = "highlight" => i = 1 /\ page.toRestore = << >>
  /\ page.toRestore = << >> => page.red = [f \in Fields |-> FALSE]
  /\ page.toRestore # << >> =>
       \E f \in Fields : /\ page.toRestore = <<[field |-> f, red |-> FALSE]>>
                         /\ page.red = [g \in Fields |-> g = f]
  /\ command # NoCommand /\ command.name = "highlight" /\ ~waiting =>
       toEngine = << >> /\ page.toRestore = << >>

Text == Seq(Chars \cup WideChars)
OrMissing(S) == S \cup {Missing}

(* The messages of the scripts, as far as they are sent. *)
Messages ==
       [op : {"enable", "lookup", "highlight"}, on : OrMissing(Fields), must : BOOLEAN]
  \cup [op : {"read"}, on : OrMissing(Fields) \cup Areas, must : BOOLEAN]
  \cup [op : {"focusNode", "focusScript", "clear", "dispatch"}, on : Fields, must : BOOLEAN]
  \cup [op : {"insert"}, on : Text, must : BOOLEAN]
  \cup [op : {"keyDown", "keyUp"}, on : [key : Keys, text : BOOLEAN], must : BOOLEAN]
  \cup [op : {"mouseMoved", "mousePressed", "mouseReleased"}, on : Points, must : BOOLEAN]
  \cup [op : {"select"}, on : [field : OrMissing(Fields), text : Text], must : BOOLEAN]
  \cup [op : {"check"}, on : [field : OrMissing(Fields), checked : BOOLEAN], must : BOOLEAN]
  \cup [op : {"scroll"}, on : [field : OrMissing(Points), by : Int], must : BOOLEAN]
  \cup [op : {"store"}, on : [field : Areas, text : Text], must : BOOLEAN]
  \cup [op : {"emptied"}, on : Areas, must : BOOLEAN]

IInv ==
  /\ TypeOK /\ toEngine \in Seq(Messages)
  /\ OnCourse /\ LastIsOwn /\ AnswerIsOwn /\ Placed /\ PrintedAsAsked

-----------------------------------------------------------------------------
(* Commands, messages and scripts *)

(* The arguments of a command, by its name. *)
LEMMA CommandShape ==
  ASSUME NEW c \in Commands
  PROVE  /\ c.name \in AllNames
         /\ c.name \in {"type", "fill", "select"} => c.field \in OrMissing(Fields) /\ c.text \in Texts
         /\ c.name \in {"focus", "dblclick", "hover", "check", "uncheck", "get", "highlight"} =>
              c.field \in OrMissing(Fields)
         /\ c.name \in {"press", "keydown", "keyup"} => c.key \in Keys /\ c.modified \in BOOLEAN
         /\ c.name = "keyboard" => c.text \in KeyTexts
         /\ c.name = "inserttext" => c.text \in Texts
         /\ c.name = "move" => c.at \in Points
         /\ c.name \in {"down", "up"} => c.at \in Points \cup {Unsaid}
         /\ c.name = "scroll" => c.at \in OrMissing(Points) /\ c.by \in Distances
         /\ c.name = "wheel" => c.by \in Distances
         /\ c.name \in {"setitem", "clearitems", "getitem"} => c.field \in Areas
         /\ c.name = "setitem" => c.text \in Texts
  BY DEF Commands, OrMissing, AllNames

(* What a message is about, by its kind. *)
LEMMA MessageShape ==
  ASSUME NEW m \in Messages
  PROVE  /\ m.op \in {"enable", "lookup", "highlight", "read", "focusNode", "focusScript", "clear",
                      "dispatch", "insert", "keyDown", "keyUp", "mouseMoved", "mousePressed",
                      "mouseReleased", "select", "check", "scroll", "store", "emptied"}
         /\ m.op \in {"enable", "lookup", "highlight"} => m.on \in OrMissing(Fields)
         /\ m.op = "read" => m.on \in OrMissing(Fields) \cup Areas
         /\ m.op \in {"focusNode", "focusScript", "clear", "dispatch"} => m.on \in Fields
         /\ m.op = "insert" => m.on \in Text
         /\ m.op \in {"keyDown", "keyUp"} => m.on \in [key : Keys, text : BOOLEAN]
         /\ m.op \in {"mouseMoved", "mousePressed", "mouseReleased"} => m.on \in Points
         /\ m.op = "select" => m.on \in [field : OrMissing(Fields), text : Text]
         /\ m.op = "check" => m.on \in [field : OrMissing(Fields), checked : BOOLEAN]
         /\ m.op = "scroll" => m.on \in [field : OrMissing(Points), by : Int]
         /\ m.op = "store" => m.on \in [field : Areas, text : Text]
         /\ m.op = "emptied" => m.on \in Areas
  BY DEF Messages

(* A sequence is two shorter ones in a row when it has their elements. *)
LEMMA Joins ==
  ASSUME NEW S, NEW s \in Seq(S), NEW t \in Seq(S), NEW u \in Seq(S),
         Len(u) = Len(s) + Len(t),
         \A i \in 1 .. Len(s) : u[i] = s[i],
         \A i \in 1 .. Len(t) : u[Len(s) + i] = t[i]
  PROVE  s \o t = u
<1>1. s \o t \in Seq(S) /\ Len(s \o t) = Len(u)
  BY ConcatProperties
<1>2. ASSUME NEW i \in 1 .. Len(u) PROVE (s \o t)[i] = u[i]
  <2>1. (s \o t)[i] = IF i <= Len(s) THEN s[i] ELSE t[i - Len(s)]
    BY ConcatProperties
  <2>2. Len(s) \in Nat /\ Len(t) \in Nat
    OBVIOUS
  <2>3. CASE i <= Len(s)
    BY <2>1, <2>2, <2>3
  <2>4. CASE i > Len(s)
    <3>1. i - Len(s) \in 1 .. Len(t) /\ Len(s) + (i - Len(s)) = i
      BY <2>2, <2>4
    <3>2. (s \o t)[i] = t[i - Len(s)]
      BY <2>1, <2>2, <2>4
    <3>3. PICK k \in 1 .. Len(t) : k = i - Len(s) /\ Len(s) + k = i
      BY <3>1
    <3>4. u[i] = t[k]
      BY <3>3
    <3>5. QED
      BY <3>2, <3>3, <3>4
  <2>5. QED
    BY <2>2, <2>3, <2>4
<1>3. QED
  BY <1>1, <1>2, SeqEqual

(* The pieces scripts are made of. *)
LEMMA FourInARow ==
  ASSUME NEW a, NEW b, NEW c, NEW d
  PROVE  <<a, b>> \o <<c, d>> = <<a, b, c, d>>
<1> DEFINE S == {a, b, c, d}
<1> DEFINE s0 == <<a, b>>  t0 == <<c, d>>  u0 == <<a, b, c, d>>
<1>1. s0 \in Seq(S) /\ t0 \in Seq(S) /\ u0 \in Seq(S)
  OBVIOUS
<1>2. Len(s0) = 2 /\ Len(t0) = 2 /\ Len(u0) = 4
  OBVIOUS
<1>3. \A i \in 1 .. 2 : u0[i] = s0[i]
  OBVIOUS
<1>4. \A i \in 1 .. 2 : u0[2 + i] = t0[i]
  OBVIOUS
<1>5. s0 \o t0 = u0
  <2> HIDE DEF S, s0, t0, u0
  <2>1. Len(u0) = Len(s0) + Len(t0)
    BY <1>2
  <2>2. \A i \in 1 .. Len(s0) : u0[i] = s0[i]
    BY <1>2, <1>3
  <2>3. \A i \in 1 .. Len(t0) : u0[Len(s0) + i] = t0[i]
    BY <1>2, <1>4
  <2>4. QED
    BY <1>1, <2>1, <2>2, <2>3, Joins
<1>6. QED
  BY <1>5

LEMMA SixInARow ==
  ASSUME NEW a, NEW b, NEW c, NEW d, NEW e, NEW g
  PROVE  <<a, b, c, d>> \o <<e, g>> = <<a, b, c, d, e, g>>
<1> DEFINE S == {a, b, c, d, e, g}
<1> DEFINE s0 == <<a, b, c, d>>  t0 == <<e, g>>  u0 == <<a, b, c, d, e, g>>
<1>1. s0 \in Seq(S) /\ t0 \in Seq(S) /\ u0 \in Seq(S)
  OBVIOUS
<1>2. Len(s0) = 4 /\ Len(t0) = 2 /\ Len(u0) = 6
  OBVIOUS
<1>3. \A i \in 1 .. 4 : u0[i] = s0[i]
  OBVIOUS
<1>4. \A i \in 1 .. 2 : u0[4 + i] = t0[i]
  OBVIOUS
<1>5. s0 \o t0 = u0
  <2> HIDE DEF S, s0, t0, u0
  <2>1. Len(u0) = Len(s0) + Len(t0)
    BY <1>2
  <2>2. \A i \in 1 .. Len(s0) : u0[i] = s0[i]
    BY <1>2, <1>3
  <2>3. \A i \in 1 .. Len(t0) : u0[Len(s0) + i] = t0[i]
    BY <1>2, <1>4
  <2>4. QED
    BY <1>1, <2>1, <2>2, <2>3, Joins
<1>6. QED
  BY <1>5

LEMMA SevenInARow ==
  ASSUME NEW a, NEW b, NEW c, NEW d, NEW e, NEW g, NEW h
  PROVE  <<a, b, c, d>> \o <<e, g, h>> = <<a, b, c, d, e, g, h>>
<1> DEFINE S == {a, b, c, d, e, g, h}
<1> DEFINE s0 == <<a, b, c, d>>  t0 == <<e, g, h>>  u0 == <<a, b, c, d, e, g, h>>
<1>1. s0 \in Seq(S) /\ t0 \in Seq(S) /\ u0 \in Seq(S)
  OBVIOUS
<1>2. Len(s0) = 4 /\ Len(t0) = 3 /\ Len(u0) = 7
  OBVIOUS
<1>3. \A i \in 1 .. 4 : u0[i] = s0[i]
  OBVIOUS
<1>4. \A i \in 1 .. 3 : u0[4 + i] = t0[i]
  OBVIOUS
<1>5. s0 \o t0 = u0
  <2> HIDE DEF S, s0, t0, u0
  <2>1. Len(u0) = Len(s0) + Len(t0)
    BY <1>2
  <2>2. \A i \in 1 .. Len(s0) : u0[i] = s0[i]
    BY <1>2, <1>3
  <2>3. \A i \in 1 .. Len(t0) : u0[Len(s0) + i] = t0[i]
    BY <1>2, <1>4
  <2>4. QED
    BY <1>1, <2>1, <2>2, <2>3, Joins
<1>6. QED
  BY <1>5

LEMMA LastOfSeven ==
  ASSUME NEW a, NEW b, NEW c, NEW d, NEW e, NEW g, NEW h
  PROVE  <<a, b, c, d, e, g>> \o <<h>> = <<a, b, c, d, e, g, h>>
<1> DEFINE S == {a, b, c, d, e, g, h}
<1> DEFINE s0 == <<a, b, c, d, e, g>>  t0 == <<h>>  u0 == <<a, b, c, d, e, g, h>>
<1>1. s0 \in Seq(S) /\ t0 \in Seq(S) /\ u0 \in Seq(S)
  OBVIOUS
<1>2. Len(s0) = 6 /\ Len(t0) = 1 /\ Len(u0) = 7
  OBVIOUS
<1>3. \A i \in 1 .. 6 : u0[i] = s0[i]
  OBVIOUS
<1>4. \A i \in 1 .. 1 : u0[6 + i] = t0[i]
  OBVIOUS
<1>5. s0 \o t0 = u0
  <2> HIDE DEF S, s0, t0, u0
  <2>1. Len(u0) = Len(s0) + Len(t0)
    BY <1>2
  <2>2. \A i \in 1 .. Len(s0) : u0[i] = s0[i]
    BY <1>2, <1>3
  <2>3. \A i \in 1 .. Len(t0) : u0[Len(s0) + i] = t0[i]
    BY <1>2, <1>4
  <2>4. QED
    BY <1>1, <2>1, <2>2, <2>3, Joins
<1>6. QED
  BY <1>5

-----------------------------------------------------------------------------
(* The scripts, message by message. *)
LEMMA TypeMessages ==
  ASSUME NEW c, c.name = "type"
  PROVE  Script(c) = <<Must("enable", c.field), Lookup(c.field), Try("focusNode", c.field),
                       Try("focusScript", c.field), Try("insert", c.text), Try("read", c.field)>>
<1>1. Script(c) = TypeScript(c.field, c.text)
  BY DEF Script
<1> DEFINE m1 == Must("enable", c.field)  m2 == Lookup(c.field)  m3 == Try("focusNode", c.field)
           m4 == Try("focusScript", c.field)  m5 == Try("insert", c.text)  m6 == Try("read", c.field)
<1>2. TypeScript(c.field, c.text) = <<m1, m2>> \o <<m3, m4>> \o <<m5, m6>>
  BY DEF TypeScript, FocusScript
<1>3. <<m1, m2>> \o <<m3, m4>> \o <<m5, m6>> = <<m1, m2, m3, m4, m5, m6>>
  <2> HIDE DEF m1, m2, m3, m4, m5, m6
  <2>1. <<m1, m2>> \o <<m3, m4>> = <<m1, m2, m3, m4>>
    BY FourInARow
  <2>2. <<m1, m2, m3, m4>> \o <<m5, m6>> = <<m1, m2, m3, m4, m5, m6>>
    BY SixInARow
  <2>3. QED
    BY <2>1, <2>2
<1>4. QED
  BY <1>1, <1>2, <1>3

LEMMA FillMessages ==
  ASSUME NEW c, c.name = "fill"
  PROVE  Script(c) = <<Must("enable", c.field), Lookup(c.field), Try("focusNode", c.field),
                       Must("focusScript", c.field), Try("clear", c.field), Try("insert", c.text),
                       Try("read", c.field)>>
<1>1. Script(c) = FillScript(c.field, c.text)
  BY DEF Script
<1> DEFINE m1 == Must("enable", c.field)  m2 == Lookup(c.field)  m3 == Try("focusNode", c.field)
           m4 == Must("focusScript", c.field)  m5 == Try("clear", c.field)
           m6 == Try("insert", c.text)  m7 == Try("read", c.field)
<1>2. FillScript(c.field, c.text) = <<m1, m2>> \o <<m3, m4>> \o <<m5, m6, m7>>
  BY DEF FillScript, FocusScript
<1>3. <<m1, m2>> \o <<m3, m4>> \o <<m5, m6, m7>> = <<m1, m2, m3, m4, m5, m6, m7>>
  <2> HIDE DEF m1, m2, m3, m4, m5, m6, m7
  <2>1. <<m1, m2>> \o <<m3, m4>> = <<m1, m2, m3, m4>>
    BY FourInARow
  <2>2. <<m1, m2, m3, m4>> \o <<m5, m6, m7>> = <<m1, m2, m3, m4, m5, m6, m7>>
    BY SevenInARow
  <2>3. QED
    BY <2>1, <2>2
<1>4. QED
  BY <1>1, <1>2, <1>3

LEMMA FocusMessages ==
  ASSUME NEW c, c.name = "focus"
  PROVE  Script(c) = <<Try("enable", c.field), Lookup(c.field), Try("focusNode", c.field),
                       Must("focusScript", c.field)>>
<1> DEFINE m1 == Try("enable", c.field)  m2 == Lookup(c.field)  m3 == Try("focusNode", c.field)
           m4 == Must("focusScript", c.field)
<1>1. Script(c) = <<m1, m2>> \o <<m3, m4>>
  BY DEF Script, FocusScript
<1>2. <<m1, m2>> \o <<m3, m4>> = <<m1, m2, m3, m4>>
  <2> HIDE DEF m1, m2, m3, m4
  <2>1. QED
    BY FourInARow
<1>3. QED
  BY <1>1, <1>2

LEMMA DblclickMessages ==
  ASSUME NEW c, c.name = "dblclick"
  PROVE  Script(c) = <<Must("enable", c.field), Lookup(c.field), Try("mousePressed", c.field),
                       Try("mouseReleased", c.field), Try("mousePressed", c.field),
                       Try("mouseReleased", c.field), Try("dispatch", c.field)>>
<1>1. Script(c) = DblclickScript(c.field)
  BY DEF Script
<1> DEFINE m1 == Must("enable", c.field)  m2 == Lookup(c.field)  m3 == Try("mousePressed", c.field)
           m4 == Try("mouseReleased", c.field)  m5 == Try("dispatch", c.field)
<1>2. DblclickScript(c.field) = <<m1, m2>> \o <<m3, m4>> \o <<m3, m4>> \o <<m5>>
  BY DEF DblclickScript, MouseEvent
<1>3. <<m1, m2>> \o <<m3, m4>> \o <<m3, m4>> \o <<m5>> = <<m1, m2, m3, m4, m3, m4, m5>>
  <2> HIDE DEF m1, m2, m3, m4, m5
  <2>1. <<m1, m2>> \o <<m3, m4>> = <<m1, m2, m3, m4>>
    BY FourInARow
  <2>2. <<m1, m2, m3, m4>> \o <<m3, m4>> = <<m1, m2, m3, m4, m3, m4>>
    BY SixInARow
  <2>3. <<m1, m2, m3, m4, m3, m4>> \o <<m5>> = <<m1, m2, m3, m4, m3, m4, m5>>
    BY LastOfSeven
  <2>4. PICK four : four = <<m1, m2>> \o <<m3, m4>>
    OBVIOUS
  <2>5. PICK six : six = <<m1, m2, m3, m4, m3, m4>>
    OBVIOUS
  <2>6. four \o <<m3, m4>> = six
    BY <2>1, <2>2, <2>4, <2>5
  <2>7. QED
    BY <2>3, <2>4, <2>5, <2>6
<1>4. QED
  BY <1>1, <1>2, <1>3

LEMMA HoverMessages ==
  ASSUME NEW c, c.name = "hover"
  PROVE  Script(c) = <<Must("enable", c.field), Lookup(c.field), Try("mouseMoved", c.field)>>
  BY DEF Script, HoverScript, MouseEvent

LEMMA PressMessages ==
  ASSUME NEW c, c.name = "press"
  PROVE  Script(c) = <<KeyEvent("keyDown", c.key, c.modified), KeyEvent("keyUp", c.key, c.modified)>>
  BY DEF Script, PressScript

(* The scripts of one message. *)
Singles == {"keydown", "keyup", "inserttext", "select", "check", "uncheck", "scroll", "get",
            "highlight", "setitem", "clearitems", "getitem", "wheel", "move", "down", "up"}
SoleMessage(c) ==
  CASE c.name = "keydown" -> KeyEvent("keyDown", c.key, c.modified)
      [] c.name = "keyup"   -> KeyEvent("keyUp", c.key, c.modified)
      [] c.name = "inserttext" -> Try("insert", c.text)
      [] c.name = "select"  -> Must("select", [field |-> c.field, text |-> c.text])
      [] c.name \in {"check", "uncheck"} ->
           Must("check", [field |-> c.field, checked |-> c.name = "check"])
      [] c.name = "scroll"  -> Must("scroll", [field |-> c.at, by |-> c.by])
      [] c.name \in {"get", "getitem"} -> Must("read", c.field)
      [] c.name = "highlight" -> Must("highlight", c.field)
      [] c.name = "setitem" -> Must("store", [field |-> c.field, text |-> c.text])
      [] c.name = "clearitems" -> Must("emptied", c.field)
      [] c.name = "wheel"   -> Try("scroll", [field |-> Nowhere, by |-> c.by])
      [] c.name = "move"    -> Try("mouseMoved", c.at)
      [] c.name = "down"    -> Try("mousePressed", At(c))
      [] c.name = "up"      -> Try("mouseReleased", At(c))
LEMMA SingleMessage ==
  ASSUME NEW c, c.name \in Singles
  PROVE  Script(c) = <<SoleMessage(c)>>
  BY DEF Singles, Script, SelectScript, CheckScript, ScrollScript, GetScript, HighlightScript,
         StorageScript, MouseEvent, SoleMessage

(* What each of them is, whether its failure ends the command, and what it reads. *)
LEMMA SoleShape ==
  ASSUME NEW c, c.name \in Singles, NEW m, m = SoleMessage(c)
  PROVE  /\ c.name \in {"keydown", "keyup", "inserttext", "wheel", "move", "down", "up"} =>
              ~m.must /\ Names(m) = Nowhere /\ m.op \in {"keyDown", "keyUp", "insert", "scroll", "mouseMoved",
                                   "mousePressed", "mouseReleased"}
         /\ c.name \in {"select", "check", "uncheck", "scroll", "clearitems"} =>
              m.must /\ m.op \in {"select", "check", "scroll", "emptied"}
         /\ c.name = "setitem" => m.must /\ m.op = "store" /\ Names(m) = c.field
         /\ c.name \in {"get", "getitem"} => m.must /\ m.op = "read" /\ Names(m) = c.field
         /\ c.name = "highlight" => m.must /\ m.op = "highlight"
<1>1. CASE c.name = "keydown"
  <2>1. m = KeyEvent("keyDown", c.key, c.modified)
    BY <1>1 DEF SoleMessage
  <2>2. QED
    BY <1>1, <2>1 DEF Must, Try, KeyEvent, Names
<1>2. CASE c.name = "keyup"
  <2>1. m = KeyEvent("keyUp", c.key, c.modified)
    BY <1>2 DEF SoleMessage
  <2>2. QED
    BY <1>2, <2>1 DEF Must, Try, KeyEvent, Names
<1>3. CASE c.name = "inserttext"
  <2>1. m = Try("insert", c.text)
    BY <1>3 DEF SoleMessage
  <2>2. QED
    BY <1>3, <2>1 DEF Must, Try, KeyEvent, Names
<1>4. CASE c.name = "select"
  <2>1. m = Must("select", [field |-> c.field, text |-> c.text])
    BY <1>4 DEF SoleMessage
  <2>2. QED
    BY <1>4, <2>1 DEF Must, Try, KeyEvent, Names
<1>5. CASE c.name = "check"
  <2>1. m = Must("check", [field |-> c.field, checked |-> c.name = "check"])
    BY <1>5 DEF SoleMessage
  <2>2. QED
    BY <1>5, <2>1 DEF Must, Try, KeyEvent, Names
<1>6. CASE c.name = "uncheck"
  <2>1. m = Must("check", [field |-> c.field, checked |-> c.name = "check"])
    BY <1>6 DEF SoleMessage
  <2>2. QED
    BY <1>6, <2>1 DEF Must, Try, KeyEvent, Names
<1>7. CASE c.name = "scroll"
  <2>1. m = Must("scroll", [field |-> c.at, by |-> c.by])
    BY <1>7 DEF SoleMessage
  <2>2. QED
    BY <1>7, <2>1 DEF Must, Try, KeyEvent, Names
<1>8. CASE c.name = "get"
  <2>1. m = Must("read", c.field)
    BY <1>8 DEF SoleMessage
  <2>2. QED
    BY <1>8, <2>1 DEF Must, Try, KeyEvent, Names
<1>9. CASE c.name = "highlight"
  <2>1. m = Must("highlight", c.field)
    BY <1>9 DEF SoleMessage
  <2>2. QED
    BY <1>9, <2>1 DEF Must, Try, KeyEvent, Names
<1>10. CASE c.name = "setitem"
  <2>1. m = Must("store", [field |-> c.field, text |-> c.text])
    BY <1>10 DEF SoleMessage
  <2>2. QED
    BY <1>10, <2>1 DEF Must, Try, KeyEvent, Names
<1>11. CASE c.name = "clearitems"
  <2>1. m = Must("emptied", c.field)
    BY <1>11 DEF SoleMessage
  <2>2. QED
    BY <1>11, <2>1 DEF Must, Try, KeyEvent, Names
<1>12. CASE c.name = "getitem"
  <2>1. m = Must("read", c.field)
    BY <1>12 DEF SoleMessage
  <2>2. QED
    BY <1>12, <2>1 DEF Must, Try, KeyEvent, Names
<1>13. CASE c.name = "wheel"
  <2>1. m = Try("scroll", [field |-> Nowhere, by |-> c.by])
    BY <1>13 DEF SoleMessage
  <2>2. QED
    BY <1>13, <2>1 DEF Must, Try, KeyEvent, Names
<1>14. CASE c.name = "move"
  <2>1. m = Try("mouseMoved", c.at)
    BY <1>14 DEF SoleMessage
  <2>2. QED
    BY <1>14, <2>1 DEF Must, Try, KeyEvent, Names
<1>15. CASE c.name = "down"
  <2>1. m = Try("mousePressed", At(c))
    BY <1>15 DEF SoleMessage
  <2>2. QED
    BY <1>15, <2>1 DEF Must, Try, KeyEvent, Names
<1>16. CASE c.name = "up"
  <2>1. m = Try("mouseReleased", At(c))
    BY <1>16 DEF SoleMessage
  <2>2. QED
    BY <1>16, <2>1 DEF Must, Try, KeyEvent, Names
<1>17. QED
  BY <1>1, <1>2, <1>3, <1>4, <1>5, <1>6, <1>7, <1>8, <1>9, <1>10, <1>11, <1>12, <1>13, <1>14, <1>15, <1>16 DEF Singles

LEMMA KeyboardMessages ==
  ASSUME NEW c, c.name = "keyboard", c.text \in Text
  PROVE  /\ Len(Script(c)) = 2 * Len(c.text) /\ DOMAIN Script(c) = 1 .. 2 * Len(c.text)
         /\ \A i \in 1 .. 2 * Len(c.text) :
              /\ (i + 1) \div 2 \in DOMAIN c.text
              /\ Script(c)[i] = IF c.text[(i + 1) \div 2] \in WideChars
                               THEN Try("abort", c.text[(i + 1) \div 2])
                               ELSE KeyEvent(IF i % 2 = 1 THEN "keyDown" ELSE "keyUp",
                                             c.text[(i + 1) \div 2], FALSE)
<1>1. Script(c) = Typed(c.text)
  BY DEF Script
<1>2. Len(c.text) \in Nat /\ DOMAIN c.text = 1 .. Len(c.text) /\ 2 * Len(c.text) \in Nat
  BY DEF Text
<1>3. DOMAIN Typed(c.text) = 1 .. 2 * Len(c.text)
  BY DEF Typed
<1>4. Len(Typed(c.text)) = 2 * Len(c.text)
  BY <1>2, <1>3 DEF Typed
<1>5. ASSUME NEW i \in 1 .. 2 * Len(c.text) PROVE (i + 1) \div 2 \in DOMAIN c.text
  BY <1>2
<1>6. ASSUME NEW i \in 1 .. 2 * Len(c.text)
      PROVE Typed(c.text)[i] = IF c.text[(i + 1) \div 2] \in WideChars
                               THEN Try("abort", c.text[(i + 1) \div 2])
                               ELSE KeyEvent(IF i % 2 = 1 THEN "keyDown" ELSE "keyUp",
                                             c.text[(i + 1) \div 2], FALSE)
  BY DEF Typed
<1>7. QED
  BY <1>1, <1>3, <1>4, <1>5, <1>6

(* How long the scripts are. *)
LEMMA ScriptLength ==
  ASSUME NEW c \in Commands
  PROVE  /\ Len(Script(c)) \in Nat \ {0} /\ DOMAIN Script(c) = 1 .. Len(Script(c))
         /\ c.name = "type" => Len(Script(c)) = 6
         /\ c.name \in {"fill", "dblclick"} => Len(Script(c)) = 7
         /\ c.name = "focus" => Len(Script(c)) = 4
         /\ c.name = "hover" => Len(Script(c)) = 3
         /\ c.name = "press" => Len(Script(c)) = 2
         /\ c.name = "keyboard" => Len(Script(c)) = 2 * Len(c.text)
         /\ c.name \in Singles => Len(Script(c)) = 1
<1>1. c.name \in {"type", "fill", "focus", "dblclick", "hover", "press", "keyboard"} \cup Singles
  BY CommandShape DEF AllNames, Singles
<1>2. CASE c.name = "type"
  <2>1. Len(Script(c)) = 6 /\ DOMAIN Script(c) = 1 .. 6
    BY <1>2, TypeMessages
  <2>2. QED
    BY <1>2, <2>1 DEF Singles
<1>3. CASE c.name = "fill"
  <2>1. Len(Script(c)) = 7 /\ DOMAIN Script(c) = 1 .. 7
    BY <1>3, FillMessages
  <2>2. QED
    BY <1>3, <2>1 DEF Singles
<1>4. CASE c.name = "focus"
  <2>1. Len(Script(c)) = 4 /\ DOMAIN Script(c) = 1 .. 4
    BY <1>4, FocusMessages
  <2>2. QED
    BY <1>4, <2>1 DEF Singles
<1>5. CASE c.name = "dblclick"
  <2>1. Len(Script(c)) = 7 /\ DOMAIN Script(c) = 1 .. 7
    BY <1>5, DblclickMessages
  <2>2. QED
    BY <1>5, <2>1 DEF Singles
<1>6. CASE c.name = "hover"
  <2>1. Len(Script(c)) = 3 /\ DOMAIN Script(c) = 1 .. 3
    BY <1>6, HoverMessages
  <2>2. QED
    BY <1>6, <2>1 DEF Singles
<1>7. CASE c.name = "press"
  <2>1. Len(Script(c)) = 2 /\ DOMAIN Script(c) = 1 .. 2
    BY <1>7, PressMessages
  <2>2. QED
    BY <1>7, <2>1 DEF Singles
<1>8. CASE c.name = "keyboard"
  <2>1. c.text \in KeyTexts
    BY <1>8, CommandShape
  <2>2. c.text \in Text /\ c.text # << >>
    BY <2>1, InputAssumption DEF Text
  <2>3. Len(c.text) \in Nat \ {0}
    BY <2>2 DEF Text
  <2>4. Len(Script(c)) = 2 * Len(c.text) /\ DOMAIN Script(c) = 1 .. 2 * Len(c.text)
    BY <1>8, <2>2, KeyboardMessages
  <2>5. 2 * Len(c.text) \in Nat \ {0}
    BY <2>3
  <2>6. QED
    BY <1>8, <2>4, <2>5 DEF Singles
<1>9. CASE c.name \in Singles
  <2>1. Len(Script(c)) = 1 /\ DOMAIN Script(c) = 1 .. 1
    BY <1>9, SingleMessage
  <2>2. QED
    BY <1>9, <2>1 DEF Singles
<1>10. QED
  BY <1>1, <1>2, <1>3, <1>4, <1>5, <1>6, <1>7, <1>8, <1>9

(* Both ways to send are ways to send a message. *)
LEMMA IsMessage ==
  /\ \A on \in OrMissing(Fields) : \A op \in {"enable", "lookup", "highlight", "read"} :
       Must(op, on) \in Messages /\ Try(op, on) \in Messages
  /\ \A on \in Areas : \A op \in {"read", "emptied"} : Must(op, on) \in Messages
  /\ \A on \in Fields : \A op \in {"focusNode", "focusScript", "clear", "dispatch"} :
       Must(op, on) \in Messages /\ Try(op, on) \in Messages
  /\ \A on \in Text : Try("insert", on) \in Messages
  /\ \A key \in Keys, modified \in BOOLEAN : \A op \in {"keyDown", "keyUp"} :
       KeyEvent(op, key, modified) \in Messages
  /\ \A on \in Points : \A op \in {"mouseMoved", "mousePressed", "mouseReleased"} :
       Try(op, on) \in Messages
  /\ \A field \in OrMissing(Fields), text \in Text :
       Must("select", [field |-> field, text |-> text]) \in Messages
  /\ \A field \in OrMissing(Fields), checked \in BOOLEAN :
       Must("check", [field |-> field, checked |-> checked]) \in Messages
  /\ \A field \in OrMissing(Points), by \in Int :
       /\ Must("scroll", [field |-> field, by |-> by]) \in Messages
       /\ Try("scroll", [field |-> field, by |-> by]) \in Messages
  /\ \A field \in Areas, text \in Text :
       Must("store", [field |-> field, text |-> text]) \in Messages
<1> USE DEF Must, Try, Messages
<1>1. \A on \in OrMissing(Fields) : \A op \in {"enable", "lookup", "highlight", "read"} :
          Must(op, on) \in Messages /\ Try(op, on) \in Messages
  OBVIOUS
<1>2. \A on \in Areas : \A op \in {"read", "emptied"} : Must(op, on) \in Messages
  OBVIOUS
<1>3. \A on \in Fields : \A op \in {"focusNode", "focusScript", "clear", "dispatch"} :
          Must(op, on) \in Messages /\ Try(op, on) \in Messages
  OBVIOUS
<1>4. \A on \in Text : Try("insert", on) \in Messages
  OBVIOUS
<1>5. \A key \in Keys, modified \in BOOLEAN : \A op \in {"keyDown", "keyUp"} :
          KeyEvent(op, key, modified) \in Messages
  BY DEF KeyEvent
<1>6. \A on \in Points : \A op \in {"mouseMoved", "mousePressed", "mouseReleased"} :
          Try(op, on) \in Messages
  OBVIOUS
<1>7. \A field \in OrMissing(Fields), text \in Text :
          Must("select", [field |-> field, text |-> text]) \in Messages
  OBVIOUS
<1>8. \A field \in OrMissing(Fields), checked \in BOOLEAN :
          Must("check", [field |-> field, checked |-> checked]) \in Messages
  OBVIOUS
<1>9. \A field \in OrMissing(Points), by \in Int :
          /\ Must("scroll", [field |-> field, by |-> by]) \in Messages
          /\ Try("scroll", [field |-> field, by |-> by]) \in Messages
  OBVIOUS
<1>10. \A field \in Areas, text \in Text :
          Must("store", [field |-> field, text |-> text]) \in Messages
  OBVIOUS
<1>11. QED
  BY <1>1, <1>2, <1>3, <1>4, <1>5, <1>6, <1>7, <1>8, <1>9, <1>10

(* What a script may send is a message. *)
LEMMA ScriptTyped ==
  ASSUME NEW c \in Commands, NEW n \in 1 .. Len(Script(c)), Found(c, n), Sendable(c, n)
  PROVE  Script(c)[n] \in Messages
<1> USE DEF Lookup
<1>1. c.name \in {"type", "fill", "focus", "dblclick", "hover", "press", "keyboard"} \cup Singles
  BY CommandShape DEF AllNames, Singles
<1>2. ASSUME c.name \in LookupNames
      PROVE  c.field \in OrMissing(Fields) /\ (n > 2 => c.field \in Fields)
  BY <1>2, CommandShape DEF LookupNames, FieldNames, Found, OrMissing
<1>3. Texts \subseteq Text /\ KeyTexts \subseteq Text
  BY InputAssumption DEF Text
<1>4. CASE c.name = "type"
  <2>1. n \in 1 .. 6
    BY <1>4, ScriptLength
  <2>2. c.text \in Text
    BY <1>3, <1>4, CommandShape
  <2>3. c.field \in OrMissing(Fields) /\ (n > 2 => c.field \in Fields)
    BY <1>2, <1>4 DEF LookupNames, FieldNames
  <2>4. QED
    BY <1>4, <2>1, <2>2, <2>3, TypeMessages, IsMessage DEF OrMissing, Points
<1>5. CASE c.name = "fill"
  <2>1. n \in 1 .. 7
    BY <1>5, ScriptLength
  <2>2. c.text \in Text
    BY <1>3, <1>5, CommandShape
  <2>3. c.field \in OrMissing(Fields) /\ (n > 2 => c.field \in Fields)
    BY <1>2, <1>5 DEF LookupNames, FieldNames
  <2>4. QED
    BY <1>5, <2>1, <2>2, <2>3, FillMessages, IsMessage DEF OrMissing, Points
<1>6. CASE c.name = "focus"
  <2>1. n \in 1 .. 4
    BY <1>6, ScriptLength
  <2>2. c.field \in OrMissing(Fields) /\ (n > 2 => c.field \in Fields)
    BY <1>2, <1>6 DEF LookupNames, FieldNames
  <2>3. QED
    BY <1>6, <2>1, <2>2, FocusMessages, IsMessage DEF OrMissing, Points
<1>7. CASE c.name = "dblclick"
  <2>1. n \in 1 .. 7
    BY <1>7, ScriptLength
  <2>2. c.field \in OrMissing(Fields) /\ (n > 2 => c.field \in Fields)
    BY <1>2, <1>7 DEF LookupNames, FieldNames
  <2>3. QED
    BY <1>7, <2>1, <2>2, DblclickMessages, IsMessage DEF OrMissing, Points
<1>8. CASE c.name = "hover"
  <2>1. n \in 1 .. 3
    BY <1>8, ScriptLength
  <2>2. c.field \in OrMissing(Fields) /\ (n > 2 => c.field \in Fields)
    BY <1>2, <1>8 DEF LookupNames, FieldNames
  <2>3. QED
    BY <1>8, <2>1, <2>2, HoverMessages, IsMessage DEF OrMissing, Points
<1>9. CASE c.name = "press"
  <2>1. n \in 1 .. 2
    BY <1>9, ScriptLength
  <2>2. c.key \in Keys
    BY <1>9, CommandShape
  <2>3. QED
    <3>1. Script(c)[n] \in {KeyEvent("keyDown", c.key, c.modified), KeyEvent("keyUp", c.key, c.modified)}
      BY <1>9, <2>1, PressMessages
    <3>2. c.modified \in BOOLEAN
      BY <1>9, CommandShape
    <3>3. QED
      BY <2>2, <3>1, <3>2, IsMessage
<1>10. CASE c.name = "keyboard"
  <2>1. c.text \in Text
    BY <1>3, <1>10, CommandShape
  <2>2. n \in 1 .. 2 * Len(c.text) /\ Len(c.text) \in Nat
    BY <1>10, <2>1, ScriptLength DEF Text
  <2> DEFINE j == (n + 1) \div 2
  <2>3. j \in DOMAIN c.text /\ 2 * j - 1 <= n
    BY <1>10, <2>1, <2>2, KeyboardMessages
  <2>4. c.text[j] \in (Chars \cup WideChars) \ WideChars
    BY <1>10, <2>1, <2>3 DEF Sendable, Text
  <2>5. c.text[j] \in Keys /\ c.text[j] \notin WideChars
    BY <2>4 DEF Keys
  <2>6. Script(c)[n] = KeyEvent(IF n % 2 = 1 THEN "keyDown" ELSE "keyUp", c.text[j], FALSE)
    BY <1>10, <2>1, <2>2, <2>5, KeyboardMessages
  <2>7. \A op \in {"keyDown", "keyUp"}, key \in Keys : KeyEvent(op, key, FALSE) \in Messages
    BY IsMessage
  <2>8. QED
    BY <2>5, <2>6, <2>7
<1>11. CASE c.name \in Singles
  <2>1. n = 1
    <3>1. Len(Script(c)) = 1
      BY <1>11, ScriptLength
    <3>2. QED
      BY <3>1
  <2>2. /\ c.name \in {"keydown", "keyup"} => c.key \in Keys
        /\ c.name \in {"inserttext", "select", "setitem"} => c.text \in Text
        /\ c.name \in {"select", "check", "uncheck", "get", "highlight"} => c.field \in OrMissing(Fields)
        /\ c.name = "scroll" => c.at \in OrMissing(Points) /\ c.by \in Int
        /\ c.name = "wheel" => c.by \in Int
        /\ c.name = "move" => c.at \in Points
        /\ c.name \in {"down", "up"} => At(c) \in Points
        /\ c.name \in {"setitem", "clearitems", "getitem"} => c.field \in Areas
    BY <1>3, CommandShape, InputAssumption DEF At, Points
  <2>3. Script(c)[n] = SoleMessage(c)
    BY <1>11, <2>1, SingleMessage
  <2>4. c.name \in {"keydown", "keyup"} => c.modified \in BOOLEAN
    BY CommandShape
  <2>5. CASE c.name \in {"keydown", "keyup"}
    BY <2>2, <2>3, <2>4, <2>5, IsMessage DEF SoleMessage
  <2>6. CASE c.name \in {"inserttext", "select", "setitem"}
    BY <2>2, <2>3, <2>6, CommandShape, IsMessage DEF SoleMessage
  <2>7. CASE c.name \in {"check", "uncheck", "get", "highlight", "getitem", "clearitems"}
    BY <2>2, <2>3, <2>7, IsMessage DEF SoleMessage
  <2>8. CASE c.name \in {"scroll", "wheel"}
    <3>1. Nowhere \in OrMissing(Points)
      BY DEF OrMissing, Points
    <3>2. QED
      BY <2>2, <2>3, <2>8, <3>1, IsMessage DEF SoleMessage
  <2>9. CASE c.name \in {"move", "down", "up"}
    BY <2>2, <2>3, <2>9, IsMessage DEF SoleMessage
  <2>10. QED
    BY <1>11, <2>5, <2>6, <2>7, <2>8, <2>9 DEF Singles
<1>12. QED
  BY <1>1, <1>4, <1>5, <1>6, <1>7, <1>8, <1>9, <1>10, <1>11

-----------------------------------------------------------------------------
(* What messages do to a page: they leave it a page, and do not depend on the outline. *)
LEMMA SameIsEquivalence ==
  /\ \A p : Same(p, p)
  /\ \A p, q : Same(p, q) => Same(q, p)
  /\ \A p, q, r : Same(p, q) /\ Same(q, r) => Same(p, r)
  BY DEF Same

LEMMA InsertTyped ==
  ASSUME NEW p \in Page, NEW text \in Text
  PROVE  Insert(p, text) \in Page
<1>1. CASE p.focus \in Fields
  <2>1. p.value[p.focus] \o text \in Text
    BY <1>1, ConcatProperties DEF Page, Text
  <2>2. [p.value EXCEPT ![p.focus] = p.value[p.focus] \o text] \in [Fields -> Text]
    BY <2>1 DEF Page, Text
  <2>3. Insert(p, text) = [p EXCEPT !.value = [p.value EXCEPT ![p.focus] = p.value[p.focus] \o text]]
    BY <1>1 DEF Insert
  <2>4. QED
    BY <2>2, <2>3 DEF Page, Text
<1>2. CASE p.focus \notin Fields
  BY <1>2 DEF Insert
<1>3. QED
  BY <1>1, <1>2

LEMMA InsertSame ==
  ASSUME NEW p \in Page, NEW q \in Page, Same(p, q), NEW text
  PROVE  Same(Insert(p, text), Insert(q, text))
<1>1. CASE p.focus \in Fields
  <2>1. q.focus \in Fields /\ q.focus = p.focus /\ q.value = p.value
    BY <1>1 DEF Same
  <2>2. Insert(p, text) = [p EXCEPT !.value = [p.value EXCEPT ![p.focus] = p.value[p.focus] \o text]]
    BY <1>1 DEF Insert
  <2>3. Insert(q, text) = [q EXCEPT !.value = [p.value EXCEPT ![p.focus] = p.value[p.focus] \o text]]
    BY <2>1 DEF Insert
  <2>4. QED
    BY <2>2, <2>3 DEF Same, Page
<1>2. CASE p.focus \notin Fields
  BY <1>2 DEF Insert, Same
<1>3. QED
  BY <1>1, <1>2

LEMMA KeyDownTyped ==
  ASSUME NEW p \in Page, NEW key \in Keys, NEW text
  PROVE  KeyDown(p, key, text) \in Page
<1> DEFINE down == [p EXCEPT !.held = @ \cup {key}]
<1>1. down \in Page
  BY DEF Page
<1>2. key \in Chars => <<key>> \in Text
  BY DEF Text
<1>3. key \in Chars => Insert(down, <<key>>) \in Page
  BY <1>1, <1>2, InsertTyped
<1>4. QED
  BY <1>1, <1>3 DEF KeyDown

LEMMA KeyDownSame ==
  ASSUME NEW p \in Page, NEW q \in Page, Same(p, q), NEW key \in Keys, NEW text
  PROVE  Same(KeyDown(p, key, text), KeyDown(q, key, text))
<1> DEFINE pDown == [p EXCEPT !.held = @ \cup {key}]  qDown == [q EXCEPT !.held = @ \cup {key}]
<1>1. pDown \in Page /\ qDown \in Page /\ Same(pDown, qDown)
  BY DEF Page, Same
<1>2. Same(Insert(pDown, <<key>>), Insert(qDown, <<key>>))
  BY <1>1, InsertSame
<1>3. QED
  BY <1>1, <1>2 DEF KeyDown

LEMMA PressTyped ==
  ASSUME NEW p \in Page, NEW at \in Points
  PROVE  /\ Press(p, at) \in Page /\ Release(p, at) \in Page
         /\ \A q \in Page : Same(p, q) => /\ Same(Press(p, at), Press(q, at))
                                          /\ Same(Release(p, at), Release(q, at))
<1>1. Press(p, at) \in Page
  BY DEF Page, Press
<1> DEFINE Up(x) == [x EXCEPT !.pointer = at, !.pressed = Unsaid]
<1>2. ASSUME NEW x \in Page
      PROVE  /\ Up(x) \in Page
             /\ at \in Fields => [Up(x) EXCEPT !.clicks[at] = @ + 1] \in Page
  <2>1. Up(x) \in Page
    BY DEF Page
  <2>2. ASSUME at \in Fields
        PROVE  [Up(x) EXCEPT !.clicks[at] = @ + 1] \in Page
    <3> HIDE DEF Up
    <3>0. x.clicks \in [Fields -> Nat]
      BY DEF Page
    <3>1. [x.clicks EXCEPT ![at] = x.clicks[at] + 1] \in [Fields -> Nat]
      BY <2>2, <3>0
    <3> USE DEF Up
    <3>2. [Up(x) EXCEPT !.clicks[at] = @ + 1]
          = [Up(x) EXCEPT !.clicks = [x.clicks EXCEPT ![at] = x.clicks[at] + 1]]
      BY DEF Page
    <3>3. QED
      BY <2>1, <3>1, <3>2 DEF Page
  <2>3. QED
    BY <2>1, <2>2
<1>3. Release(p, at) \in Page
  BY <1>2 DEF Release
<1>4. ASSUME NEW q \in Page, Same(p, q)
      PROVE  Same(Press(p, at), Press(q, at))
  BY <1>4 DEF Page, Press, Same
<1>5. ASSUME NEW q \in Page, Same(p, q)
      PROVE  Same(Release(p, at), Release(q, at))
  <2>1. Same(Up(p), Up(q)) /\ p.pressed = q.pressed
    BY <1>5 DEF Page, Same
  <2>2. Same([Up(p) EXCEPT !.clicks[at] = @ + 1], [Up(q) EXCEPT !.clicks[at] = @ + 1])
    BY <1>5 DEF Page, Same
  <2>3. QED
    BY <2>1, <2>2 DEF Release
<1>6. QED
  BY <1>1, <1>3, <1>4, <1>5

LEMMA ScrollTyped ==
  ASSUME NEW p \in Page, NEW at \in Points, NEW by \in Int
  PROVE  /\ Scroll(p, at, by) \in Page
         /\ \A q \in Page : Same(p, q) => Same(Scroll(p, at, by), Scroll(q, at, by))
<1>1. Scroll(p, at, by) \in Page
  <2>1. [p.scrolled EXCEPT ![at] = IF @ + by > 0 THEN @ + by ELSE 0] \in [Points -> Nat]
    BY DEF Page
  <2>2. QED
    BY <2>1 DEF Page, Scroll
<1>2. QED
  BY <1>1 DEF Page, Scroll, Same

(* A message that finds what it names leaves a page, the same for pages that are the same. *)
LEMMA AppliedTyped ==
  ASSUME NEW p \in Page, NEW m \in Messages, Names(m) # Missing
  PROVE  Applied(p, m) \in Page
<1> USE MessageShape
<1>1. CASE m.op \in {"enable", "lookup", "read"}
  BY <1>1 DEF Applied
<1>2. CASE m.op \in {"focusNode", "focusScript"}
  BY <1>2 DEF Applied, Page, Points
<1>3. CASE m.op = "insert"
  BY <1>3, InsertTyped DEF Applied
<1>4. CASE m.op = "clear"
  <2>1. Applied(p, m) = [p EXCEPT !.value[m.on] = << >>] /\ m.on \in Fields
    BY <1>4 DEF Applied
  <2>2. [p.value EXCEPT ![m.on] = << >>] \in [Fields -> Text]
    BY <2>1 DEF Page, Text
  <2>3. QED
    BY <2>1, <2>2 DEF Page, Text
<1>5. CASE m.op = "keyDown"
  BY <1>5, KeyDownTyped DEF Applied
<1>6. CASE m.op = "keyUp"
  BY <1>6 DEF Applied, Page
<1>7. CASE m.op = "mouseMoved"
  BY <1>7 DEF Applied, Page
<1>8. CASE m.op \in {"mousePressed", "mouseReleased"}
  BY <1>8, PressTyped DEF Applied
<1>9. CASE m.op \in {"select", "check"}
  <2>1. m.on.field \in Fields /\ (m.op = "select" => m.on.text \in Text)
        /\ (m.op = "check" => m.on.checked \in BOOLEAN)
    BY <1>9 DEF Names, OrMissing
  <2>2. m.op = "select" => [p.value EXCEPT ![m.on.field] = m.on.text] \in [Fields -> Text]
    BY <2>1 DEF Page, Text
  <2>3. m.op = "check" => [p.checked EXCEPT ![m.on.field] = m.on.checked] \in [Fields -> BOOLEAN]
    BY <2>1 DEF Page
  <2>4. /\ m.op = "select" => Applied(p, m) = [p EXCEPT !.value[m.on.field] = m.on.text]
        /\ m.op = "check" => Applied(p, m) = [p EXCEPT !.checked[m.on.field] = m.on.checked]
    BY DEF Applied
  <2>5. CASE m.op = "select"
    <3>1. PICK value \in [Fields -> Text] : value = [p.value EXCEPT ![m.on.field] = m.on.text]
      BY <2>2, <2>5
    <3>2. Applied(p, m) = [p EXCEPT !.value = value]
      BY <2>4, <2>5, <3>1
    <3>3. QED
      BY <3>2 DEF Page, Text
  <2>6. CASE m.op = "check"
    <3>1. PICK checked \in [Fields -> BOOLEAN] : checked = [p.checked EXCEPT ![m.on.field] = m.on.checked]
      BY <2>3, <2>6
    <3>2. Applied(p, m) = [p EXCEPT !.checked = checked]
      BY <2>4, <2>6, <3>1
    <3>3. QED
      BY <3>2 DEF Page
  <2>7. QED
    BY <1>9, <2>5, <2>6
<1>10. CASE m.op = "scroll"
  <2>1. m.on.field \in Points /\ m.on.by \in Int
    BY <1>10 DEF Names, OrMissing
  <2>2. Applied(p, m) = Scroll(p, m.on.field, m.on.by)
    BY <1>10 DEF Applied
  <2>3. QED
    BY <2>1, <2>2, ScrollTyped
<1>11. CASE m.op = "highlight"
  <2>1. m.on \in Fields
    BY <1>11 DEF Names, OrMissing
  <2> DEFINE entry == [field |-> m.on, red |-> p.red[m.on]]
  <2>2. entry \in [field : Fields, red : BOOLEAN] /\ [p.red EXCEPT ![m.on] = TRUE] \in [Fields -> BOOLEAN]
    BY <2>1 DEF Page
  <2>3. Append(p.toRestore, entry) \in Seq([field : Fields, red : BOOLEAN])
    BY <2>2 DEF Page
  <2>4. Applied(p, m) = [p EXCEPT !.red = [p.red EXCEPT ![m.on] = TRUE],
                                  !.toRestore = Append(p.toRestore, entry)]
    BY <1>11 DEF Applied, Highlight, Page
  <2> HIDE DEF entry
  <2>5. QED
    BY <2>2, <2>3, <2>4 DEF Page
<1>12. CASE m.op \in {"store", "emptied"}
  <2>1. /\ m.op = "store" => m.on.field \in Areas /\ m.on.text \in Text
        /\ m.op = "emptied" => m.on \in Areas
    OBVIOUS
  <2>2. /\ m.op = "store" => [p.stored EXCEPT ![m.on.field] = m.on.text] \in [Areas -> Text]
        /\ m.op = "emptied" => [p.stored EXCEPT ![m.on] = << >>] \in [Areas -> Text]
    BY <2>1 DEF Page, Text
  <2>3. /\ m.op = "store" => Applied(p, m) = [p EXCEPT !.stored[m.on.field] = m.on.text]
        /\ m.op = "emptied" => Applied(p, m) = [p EXCEPT !.stored[m.on] = << >>]
    BY DEF Applied
  <2>4. PICK stored \in [Areas -> Text] :
          /\ m.op = "store" => stored = [p.stored EXCEPT ![m.on.field] = m.on.text]
          /\ m.op = "emptied" => stored = [p.stored EXCEPT ![m.on] = << >>]
    <3>1. CASE m.op = "store"
      BY <2>2, <3>1
    <3>2. CASE m.op = "emptied"
      BY <2>2, <3>2
    <3>3. QED
      BY <1>12, <3>1, <3>2
  <2>5. Applied(p, m) = [p EXCEPT !.stored = stored]
    BY <1>12, <2>3, <2>4
  <2>6. QED
    BY <2>5 DEF Page, Text
<1>13. CASE m.op = "dispatch"
  <2>1. [p.doubles EXCEPT ![m.on] = p.doubles[m.on] + 1] \in [Fields -> Nat]
    BY <1>13 DEF Page
  <2>2. Applied(p, m) = [p EXCEPT !.doubles = [p.doubles EXCEPT ![m.on] = p.doubles[m.on] + 1]]
    BY <1>13 DEF Applied, Page
  <2>3. QED
    BY <2>1, <2>2 DEF Page
<1>14. QED
  BY <1>1, <1>2, <1>3, <1>4, <1>5, <1>6, <1>7, <1>8, <1>9, <1>10, <1>11, <1>12, <1>13

LEMMA AppliedSame ==
  ASSUME NEW p \in Page, NEW q \in Page, Same(p, q), NEW m \in Messages, Names(m) # Missing
  PROVE  Same(Applied(p, m), Applied(q, m))
<1> USE MessageShape
<1>1. CASE m.op \in {"enable", "lookup", "read"}
  BY <1>1 DEF Applied
<1>2. CASE m.op \in {"focusNode", "focusScript"}
  BY <1>2 DEF Applied, Page, Same
<1>3. CASE m.op = "insert"
  BY <1>3, InsertSame DEF Applied
<1>4. CASE m.op = "clear"
  BY <1>4 DEF Applied, Page, Same
<1>5. CASE m.op = "keyDown"
  BY <1>5, KeyDownSame DEF Applied
<1>6. CASE m.op = "keyUp"
  BY <1>6 DEF Applied, Page, Same
<1>7. CASE m.op = "mouseMoved"
  BY <1>7 DEF Applied, Page, Same
<1>8. CASE m.op \in {"mousePressed", "mouseReleased"}
  BY <1>8, PressTyped DEF Applied
<1>9. CASE m.op \in {"select", "check"}
  BY <1>9 DEF Applied, Page, Same
<1>10. CASE m.op = "scroll"
  <2>1. m.on.field \in Points /\ m.on.by \in Int
    BY <1>10 DEF Names, OrMissing
  <2>2. Applied(p, m) = Scroll(p, m.on.field, m.on.by) /\ Applied(q, m) = Scroll(q, m.on.field, m.on.by)
    BY <1>10 DEF Applied
  <2>3. QED
    BY <2>1, <2>2, ScrollTyped
<1>11. CASE m.op = "highlight"
  BY <1>11 DEF Applied, Highlight, Page, Same
<1>12. CASE m.op \in {"store", "emptied"}
  BY <1>12 DEF Applied, Page, Same
<1>13. CASE m.op = "dispatch"
  BY <1>13 DEF Applied, Page, Same
<1>14. QED
  BY <1>1, <1>2, <1>3, <1>4, <1>5, <1>6, <1>7, <1>8, <1>9, <1>10, <1>11, <1>12, <1>13

-----------------------------------------------------------------------------
(* Texts typed key by key *)
LEMMA FirstOfText ==
  ASSUME NEW text \in Text, NEW k \in 0 .. Len(text)
  PROVE  /\ SubSeq(text, 1, k) \in Text
         /\ k < Len(text) => /\ SubSeq(text, 1, k + 1) = SubSeq(text, 1, k) \o <<text[k + 1]>>
                             /\ ToSet(SubSeq(text, 1, k + 1)) = ToSet(SubSeq(text, 1, k)) \cup {text[k + 1]}
<1>1. Len(text) \in Nat /\ k \in Nat /\ \A i \in 1 .. Len(text) : text[i] \in Chars \cup WideChars
  BY ElementOfSeq DEF Text
<1>2. \A j \in 0 .. Len(text) :
        /\ SubSeq(text, 1, j) \in Text /\ Len(SubSeq(text, 1, j)) = j
        /\ \A i \in 1 .. j : SubSeq(text, 1, j)[i] = text[i]
  BY <1>1, SubSeqProperties DEF Text
<1>3. ASSUME k < Len(text)
      PROVE  SubSeq(text, 1, k + 1) = SubSeq(text, 1, k) \o <<text[k + 1]>>
  <2> DEFINE n == k + 1
  <2>1. n \in 1 .. Len(text) /\ n - 1 = k
    BY <1>1, <1>3
  <2>2. SubSeq(text, 1, n) = SubSeq(text, 1, n - 1) \o <<text[n]>>
    BY <1>1, <2>1, SubSeqRecursiveSecond DEF Text
  <2>3. QED
    BY <2>1, <2>2
<1>4. ASSUME k < Len(text)
      PROVE  ToSet(SubSeq(text, 1, k + 1)) = ToSet(SubSeq(text, 1, k)) \cup {text[k + 1]}
  <2>1. \A j \in 0 .. Len(text) : ToSet(SubSeq(text, 1, j)) = {text[i] : i \in 1 .. j}
    <3>1. \A j \in 0 .. Len(text) : DOMAIN SubSeq(text, 1, j) = 1 .. j
      BY <1>2 DEF Text
    <3>2. QED
      BY <1>2, <3>1 DEF ToSet
  <2>2. k + 1 \in 0 .. Len(text) /\ 1 .. k + 1 = (1 .. k) \cup {k + 1}
    BY <1>1, <1>4
  <2>3. QED
    BY <2>1, <2>2
<1>5. QED
  BY <1>2, <1>3, <1>4

(* Where keyboard type stops: nowhere, or at the first wider character. *)
LEMMA ReachedAll ==
  ASSUME NEW text \in Text, \A j \in DOMAIN text : text[j] \notin WideChars
  PROVE  Reached(text) = SubSeq(text, 1, Len(text))
  BY SubSeqFull DEF Reached, Text

LEMMA ReachedTo ==
  ASSUME NEW text \in Text, NEW k \in Nat, k + 1 \in DOMAIN text, text[k + 1] \in WideChars,
         \A j \in DOMAIN text : j <= k => text[j] \notin WideChars
  PROVE  Reached(text) = SubSeq(text, 1, k)
<1> DEFINE stops == {i \in DOMAIN text : text[i] \in WideChars}
<1>1. DOMAIN text = 1 .. Len(text) /\ Len(text) \in Nat
  BY DEF Text
<1>2. k + 1 \in stops /\ \A i \in stops : k + 1 <= i
  BY <1>1
<1>3. stops \subseteq Nat
  BY <1>1
<1>4. Min(stops) = k + 1
  <2>1. \E x \in stops : \A y \in stops : x <= y
    BY <1>2
  <2>2. Min(stops) \in stops /\ \A y \in stops : Min(stops) <= y
    BY <2>1 DEF Min
  <2>3. QED
    BY <1>2, <1>3, <2>2
<1>5. stops # {} /\ k + 1 - 1 = k
  BY <1>2
<1>6. Reached(text) = IF stops = {} THEN text ELSE SubSeq(text, 1, Min(stops) - 1)
  BY DEF Reached
<1> HIDE DEF stops
<1>7. QED
  BY <1>4, <1>5, <1>6

LEMMA HalfTypedTyped ==
  ASSUME NEW p \in Page, NEW text \in Text, NEW n \in 0 .. 2 * Len(text),
         n % 2 = 1 => text[(n + 1) \div 2] \in Keys
  PROVE  /\ HalfTyped(p, text, n) \in Page
         /\ n = 0 => Same(p, HalfTyped(p, text, n))
<1>1. (n + 1) \div 2 \in 0 .. Len(text) /\ Len(text) \in Nat
  BY DEF Text
<1>2. Insert(p, SubSeq(text, 1, (n + 1) \div 2)) \in Page
  BY <1>1, FirstOfText, InsertTyped
<1>3. HalfTyped(p, text, n) \in Page
  <2>1. n % 2 \in {0, 1}
    BY <1>1
  <2>2. (IF n % 2 = 1 THEN {text[(n + 1) \div 2]} ELSE {}) \subseteq Keys
    OBVIOUS
  <2> DEFINE q == Insert(p, SubSeq(text, 1, (n + 1) \div 2))  more == IF n % 2 = 1 THEN {text[(n + 1) \div 2]} ELSE {}
             fewer == ToSet(SubSeq(text, 1, n \div 2))
  <2>3. HalfTyped(p, text, n) = [q EXCEPT !.held = (@ \ fewer) \cup more]
    BY DEF HalfTyped
  <2>4. q \in Page /\ more \subseteq Keys
    BY <1>2, <2>2
  <2> HIDE DEF q, more, fewer
  <2>5. QED
    BY <2>3, <2>4 DEF Page
<1>4. ASSUME n = 0 PROVE Same(p, HalfTyped(p, text, n))
  <2>1. (n + 1) \div 2 = 0 /\ n \div 2 = 0 /\ n % 2 = 0
    BY <1>4
  <2>2. SubSeq(text, 1, 0) = << >> /\ ToSet(<< >>) = {}
    BY SubSeqEmpty DEF ToSet
  <2>3. Same(p, Insert(p, << >>))
    <3>1. p.focus \in Fields => p.value[p.focus] \o << >> = p.value[p.focus]
      BY ConcatEmptySeq DEF Page
    <3>2. p.focus \in Fields => [p.value EXCEPT ![p.focus] = p.value[p.focus]] = p.value
      BY DEF Page
    <3>3. QED
      BY <3>1, <3>2 DEF Insert, Same, Page
  <2>4. HalfTyped(p, text, n) = [Insert(p, << >>) EXCEPT !.held = (@ \ {}) \cup {}]
    <3> DEFINE q == Insert(p, SubSeq(text, 1, (n + 1) \div 2))  fewer == ToSet(SubSeq(text, 1, n \div 2))
               more == IF n % 2 = 1 THEN {text[(n + 1) \div 2]} ELSE {}
    <3>1. HalfTyped(p, text, n) = [q EXCEPT !.held = (@ \ fewer) \cup more]
      BY DEF HalfTyped
    <3>2. q = Insert(p, << >>)
      BY <2>1, <2>2
    <3>3. fewer = {}
      <4>1. fewer = ToSet(SubSeq(text, 1, 0))
        BY <2>1
      <4>2. QED
        BY <2>2, <4>1
    <3>4. more = {}
      BY <2>1
    <3> HIDE DEF q, fewer, more
    <3>5. QED
      BY <3>1, <3>2, <3>3, <3>4
  <2>5. Insert(p, << >>) \in Page
    BY <1>2, <2>1, <2>2
  <2>6. QED
    BY <2>3, <2>4, <2>5 DEF Same, Page
<1>5. QED
  BY <1>3, <1>4

-----------------------------------------------------------------------------
(* A message that finds what it names and is not DOM.focus does what it says. *)
LEMMA TurnsIsApplied ==
  ASSUME NEW g, NEW m, NEW r, Turns(g, m, r), Names(m) # Missing, m.op # "focusNode"
  PROVE  Same(r, Applied(g, m))
  BY DEF Turns

(* One that reads, looks up or enables leaves the page alone, whatever it finds. *)
LEMMA TurnsToSame ==
  ASSUME NEW g, NEW m, NEW r, Turns(g, m, r), m.op \in {"enable", "lookup", "read"}
  PROVE  Same(r, g)
  BY DEF Turns, Applied

LEMMA FieldProgress ==
  ASSUME NEW p \in Page, NEW c \in Commands, c.name \in FieldNames,
         NEW n \in 1 .. Len(Script(c)), Found(c, n),
         NEW g \in Goals(p, c, n - 1), NEW r, Turns(g, Script(c)[n], r)
  PROVE  \E h \in Goals(p, c, n) : Same(r, h)
<1> DEFINE f == c.field  m == Script(c)[n]
<1>1. Goals(p, c, n) = FieldGoals(p, c, n) /\ (n > 1 => Goals(p, c, n - 1) = FieldGoals(p, c, n - 1))
      /\ (n = 1 => Goals(p, c, n - 1) = {p}) /\ n \in Nat \ {0}
  BY ScriptLength DEF Goals, FieldNames
<1>2. n > 2 => f \in Fields
  BY CommandShape DEF Found, LookupNames, FieldNames, OrMissing
<1>3. \A q : Same(q, q)
  BY SameIsEquivalence
<1>4. CASE n <= 2
  <2>1. m.op \in {"enable", "lookup"}
    BY <1>1, <1>4, TypeMessages, FillMessages, FocusMessages DEF FieldNames, Must, Try, Lookup
  <2>2. Same(r, g)
    BY <2>1, TurnsToSame
  <2>3. g = p /\ Goals(p, c, n) = {p}
    BY <1>1, <1>4 DEF FieldGoals
  <2>4. QED
    BY <2>2, <2>3
<1>5. CASE n = 3
  <2>1. m = Try("focusNode", f)
    BY <1>5, TypeMessages, FillMessages, FocusMessages DEF FieldNames
  <2>2. m.op = "focusNode" /\ m.on = f
    BY <2>1 DEF Try
  <2>3. g = p /\ Goals(p, c, n) = {p, Focused(p, f)}
    BY <1>1, <1>5 DEF FieldGoals
  <2>4. Applied(p, m) = Focused(p, f)
    BY <2>2 DEF Applied, Focused
  <2>5. Same(r, p) \/ Same(r, Focused(p, f))
    BY <2>3, <2>4 DEF Turns
  <2>6. QED
    BY <2>3, <2>5
<1>6. CASE n = 4
  <2>1. m \in {Try("focusScript", f), Must("focusScript", f)}
    BY <1>6, TypeMessages, FillMessages, FocusMessages DEF FieldNames
  <2>2. m.op = "focusScript" /\ m.on = f /\ Names(m) = Nowhere
    BY <2>1 DEF Try, Must, Names
  <2>3. g \in {p, Focused(p, f)} /\ Goals(p, c, n) = {Focused(p, f)}
    BY <1>1, <1>6 DEF FieldGoals
  <2>4. Applied(g, m) = [g EXCEPT !.focus = f]
    BY <2>2 DEF Applied
  <2>5. Same([g EXCEPT !.focus = f], Focused(p, f))
    BY <2>3 DEF Focused, Same, Page
  <2>6. Same(r, Applied(g, m))
    BY <2>2, TurnsIsApplied, InputAssumption
  <2>7. QED
    BY <2>3, <2>4, <2>5, <2>6, SameIsEquivalence
<1>7. CASE n > 4 /\ c.name = "type"
  <2>1. n \in {5, 6}
    BY <1>7, ScriptLength
  <2>2. Goals(p, c, n) = {Insert(Focused(p, f), c.text)}
    BY <1>1, <1>7, <2>1 DEF FieldGoals, Effect, Focused
  <2>3. CASE n = 5
    <3>1. m = Try("insert", c.text)
      BY <1>7, <2>3, TypeMessages
    <3>2. g = Focused(p, f)
      BY <1>1, <2>3 DEF FieldGoals
    <3>3. Applied(g, m) = Insert(g, c.text) /\ Names(m) = Nowhere /\ m.op # "focusNode"
      BY <3>1 DEF Try, Applied, Names
    <3>4. QED
      BY <2>2, <3>2, <3>3, TurnsIsApplied, InputAssumption
  <2>4. CASE n = 6
    <3>1. m = Try("read", f)
      BY <1>7, <2>4, TypeMessages
    <3>2. g = Insert(Focused(p, f), c.text)
      BY <1>1, <1>7, <2>4 DEF FieldGoals, Effect, Focused
    <3>3. QED
      BY <2>2, <3>1, <3>2, TurnsToSame DEF Try
  <2>5. QED
    BY <2>1, <2>3, <2>4
<1>8. CASE n > 4 /\ c.name = "fill"
  <2>1. n \in {5, 6, 7}
    BY <1>8, ScriptLength
  <2> DEFINE emptied == [Focused(p, f) EXCEPT !.value[f] = << >>]
             filled  == [p EXCEPT !.focus = f, !.value[f] = c.text]
  <2>2. /\ n = 5 => Goals(p, c, n) = {emptied}
        /\ n > 5 => Goals(p, c, n) = {filled}
    BY <1>1, <1>8, <2>1 DEF FieldGoals, Effect
  <2>3. CASE n = 5
    <3>1. m = Try("clear", f)
      BY <1>8, <2>3, FillMessages
    <3>2. g = Focused(p, f)
      BY <1>1, <2>3 DEF FieldGoals
    <3>3. Applied(g, m) = emptied /\ Names(m) = Nowhere /\ m.op # "focusNode"
      BY <3>1, <3>2 DEF Try, Applied, Names
    <3>4. QED
      BY <2>2, <2>3, <3>3, TurnsIsApplied, InputAssumption
  <2>4. CASE n = 6
    <3>1. m = Try("insert", c.text)
      BY <1>8, <2>4, FillMessages
    <3>2. g = emptied
      BY <1>1, <1>8, <2>4 DEF FieldGoals
    <3>3. Applied(g, m) = Insert(g, c.text) /\ Names(m) = Nowhere /\ m.op # "focusNode"
      BY <3>1 DEF Try, Applied, Names
    <3>4. Insert(emptied, c.text) = [emptied EXCEPT !.value[f] = << >> \o c.text]
      <4>1. emptied.focus = f /\ emptied.value = [p.value EXCEPT ![f] = << >>]
        BY DEF Focused, Page
      <4>2. f \in Fields /\ emptied.value[f] = << >>
        BY <1>2, <2>4, <4>1 DEF Page
      <4> HIDE DEF emptied
      <4>3. QED
        BY <4>1, <4>2 DEF Insert
    <3>5. << >> \o c.text = c.text
      <4>1. c.text \in Text
        BY <1>8, CommandShape, InputAssumption DEF Text
      <4>2. QED
        BY <4>1, ConcatEmptySeq DEF Text
    <3>6. Same([emptied EXCEPT !.value[f] = c.text], filled)
      BY DEF Focused, Same, Page
    <3>7. Same(r, Insert(emptied, c.text))
      BY <3>2, <3>3, TurnsIsApplied, InputAssumption
    <3>8. Insert(emptied, c.text) = [emptied EXCEPT !.value[f] = c.text]
      BY <3>4, <3>5
    <3>9. Goals(p, c, n) = {filled}
      BY <2>2, <2>4
    <3> HIDE DEF emptied, filled
    <3>10. Same(r, filled)
      BY <3>6, <3>7, <3>8, SameIsEquivalence
    <3>11. QED
      BY <3>9, <3>10
  <2>5. CASE n = 7
    <3>1. m = Try("read", f)
      BY <1>8, <2>5, FillMessages
    <3>2. g = filled
      BY <1>1, <1>8, <2>5 DEF FieldGoals, Effect
    <3>3. QED
      BY <2>2, <2>5, <3>1, <3>2, TurnsToSame DEF Try
  <2>6. QED
    BY <2>1, <2>3, <2>4, <2>5
<1>9. c.name = "focus" => n <= 4
  BY ScriptLength
<1>10. QED
  BY <1>1, <1>4, <1>5, <1>6, <1>7, <1>8, <1>9 DEF FieldNames

LEMMA DblclickProgress ==
  ASSUME NEW p \in Page, NEW c \in Commands, c.name = "dblclick",
         NEW n \in 1 .. Len(Script(c)), Found(c, n),
         NEW g \in Goals(p, c, n - 1), NEW r, Turns(g, Script(c)[n], r)
  PROVE  \E h \in Goals(p, c, n) : Same(r, h)
<1> DEFINE f == c.field  m == Script(c)[n]
<1>1. Goals(p, c, n) = DblclickGoals(p, c, n) /\ (n > 1 => Goals(p, c, n - 1) = DblclickGoals(p, c, n - 1))
      /\ (n = 1 => Goals(p, c, n - 1) = {p}) /\ n \in 1 .. 7
  BY ScriptLength DEF Goals, FieldNames
<1>2. n <= 2 => m.op \in {"enable", "lookup"}
  BY <1>1, DblclickMessages DEF Must, Lookup
<1>3. n > 2 => m = Try(IF n \in {3, 5} THEN "mousePressed" ELSE IF n \in {4, 6} THEN "mouseReleased"
                       ELSE "dispatch", f)
  BY <1>1, DblclickMessages
<1>4. n > 2 => Names(m) # Missing /\ m.op # "focusNode"
  BY <1>3, InputAssumption DEF Try, Names
<1>5. n > 2 => Applied(g, m) = IF n \in {3, 5} THEN Press(g, f) ELSE IF n \in {4, 6} THEN Release(g, f)
                               ELSE [g EXCEPT !.doubles[f] = @ + 1]
  <2>1. \A op : Try(op, f).op = op /\ Try(op, f).on = f
    BY DEF Try
  <2>2. Applied(g, Try("mousePressed", f)) = Press(g, f)
    BY <2>1 DEF Applied
  <2>3. Applied(g, Try("mouseReleased", f)) = Release(g, f)
    BY <2>1 DEF Applied
  <2>4. Applied(g, Try("dispatch", f)) = [g EXCEPT !.doubles[f] = @ + 1]
    BY <2>1 DEF Applied
  <2> HIDE DEF m
  <2>5. QED
    BY <1>3, <2>2, <2>3, <2>4
<1>6. n > 2 => Same(r, Applied(g, m))
  BY <1>4, TurnsIsApplied
<1>7. CASE n <= 2
  <2>1. Same(r, g)
    BY <1>2, <1>7, TurnsToSame
  <2>2. g = p /\ Goals(p, c, n) = {p}
    BY <1>1, <1>7 DEF DblclickGoals
  <2>3. QED
    BY <2>1, <2>2
<1>8. CASE n = 3
  <2>1. g = p /\ Goals(p, c, n) = {Press(p, f)}
    BY <1>1, <1>8 DEF DblclickGoals
  <2>2. QED
    BY <1>5, <1>6, <1>8, <2>1
<1>9. CASE n = 4
  <2>1. g = Press(p, f) /\ Goals(p, c, n) = {Release(Press(p, f), f)}
    BY <1>1, <1>9 DEF DblclickGoals, Click
  <2>2. QED
    BY <1>5, <1>6, <1>9, <2>1
<1>10. CASE n = 5
  <2>1. g = Click(p, f) /\ Goals(p, c, n) = {Press(Click(p, f), f)}
    BY <1>1, <1>10 DEF DblclickGoals
  <2>2. QED
    BY <1>5, <1>6, <1>10, <2>1
<1>11. CASE n = 6
  <2>1. g = Press(Click(p, f), f) /\ Goals(p, c, n) = {Release(Press(Click(p, f), f), f)}
    BY <1>1, <1>11 DEF DblclickGoals, Click
  <2>2. QED
    BY <1>5, <1>6, <1>11, <2>1
<1>12. CASE n = 7
  <2>1. g = Click(Click(p, f), f)
    BY <1>1, <1>12 DEF DblclickGoals
  <2>2. Goals(p, c, n) = {[Click(Click(p, f), f) EXCEPT !.doubles[f] = @ + 1]}
    BY <1>1, <1>12 DEF DblclickGoals, Click, Effect, Double
  <2>3. QED
    BY <1>5, <1>6, <1>12, <2>1, <2>2
<1>13. QED
  BY <1>1, <1>7, <1>8, <1>9, <1>10, <1>11, <1>12

LEMMA HoverProgress ==
  ASSUME NEW p \in Page, NEW c \in Commands, c.name = "hover",
         NEW n \in 1 .. Len(Script(c)), Found(c, n),
         NEW g \in Goals(p, c, n - 1), NEW r, Turns(g, Script(c)[n], r)
  PROVE  \E h \in Goals(p, c, n) : Same(r, h)
<1> DEFINE m == Script(c)[n]
<1>1. Goals(p, c, n) = HoverGoals(p, c, n) /\ (n > 1 => Goals(p, c, n - 1) = HoverGoals(p, c, n - 1))
      /\ (n = 1 => Goals(p, c, n - 1) = {p}) /\ n \in 1 .. 3
  BY ScriptLength DEF Goals, FieldNames
<1>2. g = p
  BY <1>1 DEF HoverGoals
<1>3. CASE n <= 2
  <2>1. m.op \in {"enable", "lookup"}
    BY <1>1, <1>3, HoverMessages DEF Must, Lookup
  <2>2. Goals(p, c, n) = {p}
    BY <1>1, <1>3 DEF HoverGoals
  <2>3. QED
    BY <1>2, <2>1, <2>2, TurnsToSame
<1>4. CASE n = 3
  <2>1. m = Try("mouseMoved", c.field)
    BY <1>4, HoverMessages
  <2>2. Names(m) # Missing /\ m.op # "focusNode" /\ Applied(g, m) = [g EXCEPT !.pointer = c.field]
    BY <2>1, InputAssumption DEF Try, Names, Applied
  <2>3. Goals(p, c, n) = {[p EXCEPT !.pointer = c.field]}
    BY <1>1, <1>4 DEF HoverGoals, Effect
  <2>4. QED
    BY <1>2, <2>2, <2>3, TurnsIsApplied
<1>5. QED
  BY <1>1, <1>3, <1>4

(* The text of a key is that of the command's effect. *)
LEMMA KeyEvents ==
  ASSUME NEW p, NEW key, NEW modified \in BOOLEAN
  PROVE  /\ Names(KeyEvent("keyDown", key, modified)) = Nowhere
         /\ Names(KeyEvent("keyUp", key, modified)) = Nowhere
         /\ KeyEvent("keyDown", key, modified).op = "keyDown"
         /\ KeyEvent("keyUp", key, modified).op = "keyUp"
         /\ Applied(p, KeyEvent("keyDown", key, modified)) = KeyDown(p, key, ~modified)
         /\ Applied(p, KeyEvent("keyUp", key, modified)) = [p EXCEPT !.held = @ \ {key}]
<1>1. /\ KeyEvent("keyDown", key, modified).op = "keyDown"
      /\ KeyEvent("keyDown", key, modified).on = [key |-> key, text |-> key \in Chars /\ ~modified]
      /\ KeyEvent("keyUp", key, modified).op = "keyUp"
      /\ KeyEvent("keyUp", key, modified).on.key = key
  BY DEF KeyEvent, Try
<1>2. Applied(p, KeyEvent("keyDown", key, modified)) = KeyDown(p, key, key \in Chars /\ ~modified)
  BY <1>1 DEF Applied
<1>3. KeyDown(p, key, key \in Chars /\ ~modified) = KeyDown(p, key, ~modified)
  BY DEF KeyDown
<1>4. Applied(p, KeyEvent("keyUp", key, modified)) = [p EXCEPT !.held = @ \ {key}]
  BY <1>1 DEF Applied
<1>5. QED
  BY <1>1, <1>2, <1>3, <1>4 DEF Names

LEMMA KeyUpEvent ==
  ASSUME NEW p, NEW key, NEW modified
  PROVE  Applied(p, KeyEvent("keyUp", key, modified)) = [p EXCEPT !.held = @ \ {key}]
<1>1. KeyEvent("keyUp", key, modified).op = "keyUp" /\ KeyEvent("keyUp", key, modified).on.key = key
  BY DEF KeyEvent, Try
<1>2. QED
  BY <1>1 DEF Applied

LEMMA ConcatTexts ==
  ASSUME NEW a \in Text, NEW b \in Text, NEW c \in Text
  PROVE  (a \o b) \o c = a \o (b \o c)
  BY ConcatAssociative DEF Text

LEMMA PressProgress ==
  ASSUME NEW p \in Page, NEW c \in Commands, c.name = "press",
         NEW n \in 1 .. Len(Script(c)),
         NEW g \in Goals(p, c, n - 1), NEW r, Turns(g, Script(c)[n], r)
  PROVE  \E h \in Goals(p, c, n) : Same(r, h)
<1> DEFINE m == Script(c)[n]
<1>1. Goals(p, c, n) = PressGoals(p, c, n) /\ (n > 1 => Goals(p, c, n - 1) = PressGoals(p, c, n - 1))
      /\ (n = 1 => Goals(p, c, n - 1) = {p}) /\ n \in 1 .. 2
  BY ScriptLength DEF Goals, FieldNames
<1>2. c.modified \in BOOLEAN
  BY CommandShape
<1>3. m = IF n = 1 THEN KeyEvent("keyDown", c.key, c.modified) ELSE KeyEvent("keyUp", c.key, c.modified)
  BY <1>1, PressMessages
<1>4. Names(m) # Missing /\ m.op # "focusNode"
  <2>1. \A op \in {"keyDown", "keyUp"} : /\ Names(KeyEvent(op, c.key, c.modified)) = Nowhere
                                       /\ KeyEvent(op, c.key, c.modified).op # "focusNode"
    BY <1>2, KeyEvents
  <2>2. \E op \in {"keyDown", "keyUp"} : m = KeyEvent(op, c.key, c.modified)
    BY <1>3
  <2>3. QED
    BY <2>1, <2>2, InputAssumption
<1>5. Same(r, Applied(g, m))
  BY <1>4, TurnsIsApplied
<1>6. CASE n = 1
  <2>1. g = p /\ Goals(p, c, n) = {KeyDown(p, c.key, ~c.modified)}
    BY <1>1, <1>6 DEF PressGoals
  <2>2. QED
    BY <1>2, <1>3, <1>5, <1>6, <2>1, KeyEvents
<1>7. CASE n = 2
  <2>1. g = KeyDown(p, c.key, ~c.modified)
    BY <1>1, <1>7 DEF PressGoals
  <2>2. Goals(p, c, n) = {[KeyDown(p, c.key, ~c.modified) EXCEPT !.held = @ \ {c.key}]}
    BY <1>1, <1>7 DEF PressGoals, Effect
  <2>3. QED
    BY <1>2, <1>3, <1>5, <1>7, <2>1, <2>2, KeyEvents
<1>8. QED
  BY <1>1, <1>6, <1>7

(* What a script of one message does is the effect of its command, the outline aside. *)
LEMMA SingleEffect ==
  ASSUME NEW p \in Page, NEW c \in Commands, c.name \in Singles
  PROVE  /\ c.name # "highlight" => Applied(p, SoleMessage(c)) = Effect(p, c)
         /\ c.name = "highlight" => Effect(p, c) = p /\ Same(Applied(p, SoleMessage(c)), p)
<1> DEFINE m == SoleMessage(c)
<1>1. CASE c.name \in {"keydown", "keyup"}
  <2>1. c.modified \in BOOLEAN
    BY <1>1, CommandShape
  <2>2. c.name = "keydown" => /\ m = KeyEvent("keyDown", c.key, c.modified)
                              /\ Effect(p, c) = KeyDown(p, c.key, ~c.modified)
    BY DEF SoleMessage, Effect
  <2>3. c.name = "keyup" => /\ m = KeyEvent("keyUp", c.key, c.modified)
                            /\ Effect(p, c) = [p EXCEPT !.held = @ \ {c.key}]
    BY DEF SoleMessage, Effect
  <2>4. Applied(p, KeyEvent("keyDown", c.key, c.modified)) = KeyDown(p, c.key, ~c.modified)
    BY <2>1, KeyEvents
  <2>5. Applied(p, KeyEvent("keyUp", c.key, c.modified)) = [p EXCEPT !.held = @ \ {c.key}]
    BY KeyUpEvent
  <2> HIDE DEF m
  <2>6. Applied(p, m) = Effect(p, c)
    BY <1>1, <2>2, <2>3, <2>4, <2>5
  <2>7. QED
    BY <1>1, <2>6 DEF m
<1>2. CASE c.name = "inserttext"
  <2>1. m = Try("insert", c.text)
    BY <1>2 DEF SoleMessage
  <2>2. m.op = "insert" /\ m.on = c.text
    BY <2>1 DEF Must, Try
  <2>3. Applied(p, m) = Insert(p, c.text)
    BY <2>2 DEF Applied
  <2>4. Effect(p, c) = Insert(p, c.text)
    BY <1>2 DEF Effect
  <2> HIDE DEF m
  <2>5. Applied(p, m) = Effect(p, c)
    BY <2>3, <2>4
  <2>6. QED
    BY <1>2, <2>5 DEF m
<1>3. CASE c.name = "select"
  <2>1. m = Must("select", [field |-> c.field, text |-> c.text])
    BY <1>3 DEF SoleMessage
  <2>2. m.op = "select" /\ m.on = [field |-> c.field, text |-> c.text]
    BY <2>1 DEF Must, Try
  <2>3. Applied(p, m) = [p EXCEPT !.value[c.field] = c.text]
    BY <2>2 DEF Applied
  <2>4. Effect(p, c) = [p EXCEPT !.value[c.field] = c.text]
    BY <1>3 DEF Effect
  <2> HIDE DEF m
  <2>5. Applied(p, m) = Effect(p, c)
    BY <2>3, <2>4
  <2>6. QED
    BY <1>3, <2>5 DEF m
<1>4. CASE c.name = "check"
  <2>1. m = Must("check", [field |-> c.field, checked |-> c.name = "check"])
    BY <1>4 DEF SoleMessage
  <2>2. m.op = "check" /\ m.on = [field |-> c.field, checked |-> c.name = "check"]
    BY <2>1 DEF Must, Try
  <2>3. Applied(p, m) = [p EXCEPT !.checked[c.field] = c.name = "check"]
    BY <2>2 DEF Applied
  <2>4. Effect(p, c) = [p EXCEPT !.checked[c.field] = c.name = "check"]
    BY <1>4 DEF Effect
  <2> HIDE DEF m
  <2>5. Applied(p, m) = Effect(p, c)
    BY <2>3, <2>4
  <2>6. QED
    BY <1>4, <2>5 DEF m
<1>5. CASE c.name = "uncheck"
  <2>1. m = Must("check", [field |-> c.field, checked |-> c.name = "check"])
    BY <1>5 DEF SoleMessage
  <2>2. m.op = "check" /\ m.on = [field |-> c.field, checked |-> c.name = "check"]
    BY <2>1 DEF Must, Try
  <2>3. Applied(p, m) = [p EXCEPT !.checked[c.field] = c.name = "check"]
    BY <2>2 DEF Applied
  <2>4. Effect(p, c) = [p EXCEPT !.checked[c.field] = c.name = "check"]
    BY <1>5 DEF Effect
  <2> HIDE DEF m
  <2>5. Applied(p, m) = Effect(p, c)
    BY <2>3, <2>4
  <2>6. QED
    BY <1>5, <2>5 DEF m
<1>6. CASE c.name = "scroll"
  <2>1. m = Must("scroll", [field |-> c.at, by |-> c.by])
    BY <1>6 DEF SoleMessage
  <2>2. m.op = "scroll" /\ m.on = [field |-> c.at, by |-> c.by]
    BY <2>1 DEF Must, Try
  <2>3. Applied(p, m) = Scroll(p, c.at, c.by)
    BY <2>2 DEF Applied
  <2>4. Effect(p, c) = Scroll(p, c.at, c.by)
    BY <1>6 DEF Effect
  <2> HIDE DEF m
  <2>5. Applied(p, m) = Effect(p, c)
    BY <2>3, <2>4
  <2>6. QED
    BY <1>6, <2>5 DEF m
<1>7. CASE c.name = "wheel"
  <2>1. m = Try("scroll", [field |-> Nowhere, by |-> c.by])
    BY <1>7 DEF SoleMessage
  <2>2. m.op = "scroll" /\ m.on = [field |-> Nowhere, by |-> c.by]
    BY <2>1 DEF Must, Try
  <2>3. Applied(p, m) = Scroll(p, Nowhere, c.by)
    BY <2>2 DEF Applied
  <2>4. Effect(p, c) = Scroll(p, Nowhere, c.by)
    BY <1>7 DEF Effect
  <2> HIDE DEF m
  <2>5. Applied(p, m) = Effect(p, c)
    BY <2>3, <2>4
  <2>6. QED
    BY <1>7, <2>5 DEF m
<1>8. CASE c.name = "move"
  <2>1. m = Try("mouseMoved", c.at)
    BY <1>8 DEF SoleMessage
  <2>2. m.op = "mouseMoved" /\ m.on = c.at
    BY <2>1 DEF Must, Try
  <2>3. Applied(p, m) = [p EXCEPT !.pointer = c.at]
    BY <2>2 DEF Applied
  <2>4. Effect(p, c) = [p EXCEPT !.pointer = c.at]
    BY <1>8 DEF Effect
  <2> HIDE DEF m
  <2>5. Applied(p, m) = Effect(p, c)
    BY <2>3, <2>4
  <2>6. QED
    BY <1>8, <2>5 DEF m
<1>9. CASE c.name = "down"
  <2>1. m = Try("mousePressed", At(c))
    BY <1>9 DEF SoleMessage
  <2>2. m.op = "mousePressed" /\ m.on = At(c)
    BY <2>1 DEF Must, Try
  <2>3. Applied(p, m) = Press(p, At(c))
    BY <2>2 DEF Applied
  <2>4. Effect(p, c) = Press(p, At(c))
    BY <1>9 DEF Effect
  <2> HIDE DEF m
  <2>5. Applied(p, m) = Effect(p, c)
    BY <2>3, <2>4
  <2>6. QED
    BY <1>9, <2>5 DEF m
<1>10. CASE c.name = "up"
  <2>1. m = Try("mouseReleased", At(c))
    BY <1>10 DEF SoleMessage
  <2>2. m.op = "mouseReleased" /\ m.on = At(c)
    BY <2>1 DEF Must, Try
  <2>3. Applied(p, m) = Release(p, At(c))
    BY <2>2 DEF Applied
  <2>4. Effect(p, c) = Release(p, At(c))
    BY <1>10 DEF Effect
  <2> HIDE DEF m
  <2>5. Applied(p, m) = Effect(p, c)
    BY <2>3, <2>4
  <2>6. QED
    BY <1>10, <2>5 DEF m
<1>11. CASE c.name = "setitem"
  <2>1. m = Must("store", [field |-> c.field, text |-> c.text])
    BY <1>11 DEF SoleMessage
  <2>2. m.op = "store" /\ m.on = [field |-> c.field, text |-> c.text]
    BY <2>1 DEF Must, Try
  <2>3. Applied(p, m) = [p EXCEPT !.stored[c.field] = c.text]
    BY <2>2 DEF Applied
  <2>4. Effect(p, c) = [p EXCEPT !.stored[c.field] = c.text]
    BY <1>11 DEF Effect
  <2> HIDE DEF m
  <2>5. Applied(p, m) = Effect(p, c)
    BY <2>3, <2>4
  <2>6. QED
    BY <1>11, <2>5 DEF m
<1>12. CASE c.name = "clearitems"
  <2>1. m = Must("emptied", c.field)
    BY <1>12 DEF SoleMessage
  <2>2. m.op = "emptied" /\ m.on = c.field
    BY <2>1 DEF Must, Try
  <2>3. Applied(p, m) = [p EXCEPT !.stored[c.field] = << >>]
    BY <2>2 DEF Applied
  <2>4. Effect(p, c) = [p EXCEPT !.stored[c.field] = << >>]
    BY <1>12 DEF Effect
  <2> HIDE DEF m
  <2>5. Applied(p, m) = Effect(p, c)
    BY <2>3, <2>4
  <2>6. QED
    BY <1>12, <2>5 DEF m
<1>13. CASE c.name = "get"
  <2>1. m = Must("read", c.field)
    BY <1>13 DEF SoleMessage
  <2>2. m.op = "read" /\ m.on = c.field
    BY <2>1 DEF Must, Try
  <2>3. Applied(p, m) = p
    BY <2>2 DEF Applied
  <2>4. Effect(p, c) = p
    BY <1>13 DEF Effect
  <2> HIDE DEF m
  <2>5. Applied(p, m) = Effect(p, c)
    BY <2>3, <2>4
  <2>6. QED
    BY <1>13, <2>5 DEF m
<1>14. CASE c.name = "getitem"
  <2>1. m = Must("read", c.field)
    BY <1>14 DEF SoleMessage
  <2>2. m.op = "read" /\ m.on = c.field
    BY <2>1 DEF Must, Try
  <2>3. Applied(p, m) = p
    BY <2>2 DEF Applied
  <2>4. Effect(p, c) = p
    BY <1>14 DEF Effect
  <2> HIDE DEF m
  <2>5. Applied(p, m) = Effect(p, c)
    BY <2>3, <2>4
  <2>6. QED
    BY <1>14, <2>5 DEF m
<1>15. CASE c.name = "highlight"
  <2>1. m.op = "highlight" /\ m.on = c.field
    BY <1>15 DEF SoleMessage, Must
  <2>2. Applied(p, m) = Highlight(p, c.field)
    BY <2>1 DEF Applied
  <2>3. Effect(p, c) = p
    BY <1>15 DEF Effect
  <2>4. Same(Highlight(p, c.field), p)
    BY DEF Highlight, Same, Page
  <2> HIDE DEF m
  <2>5. Same(Applied(p, m), p)
    BY <2>2, <2>4
  <2>6. QED
    BY <1>15, <2>3, <2>5 DEF m
<1>16. QED
  BY <1>1, <1>2, <1>3, <1>4, <1>5, <1>6, <1>7, <1>8, <1>9, <1>10, <1>11, <1>12, <1>13, <1>14, <1>15 DEF Singles

LEMMA SingleProgress ==
  ASSUME NEW p \in Page, NEW c \in Commands, c.name \in Singles,
         NEW n \in 1 .. Len(Script(c)),
         NEW g \in Goals(p, c, n - 1), NEW r, Turns(g, Script(c)[n], r)
  PROVE  \E h \in Goals(p, c, n) : Same(r, h)
<1> DEFINE m == Script(c)[n]
<1>1. n = 1
  <2>1. Len(Script(c)) = 1
    BY ScriptLength
  <2>2. QED
    BY <2>1
<1>2. m = SoleMessage(c) /\ Script(c)[1] = m
  BY <1>1, SingleMessage
<1>3. g = p /\ Goals(p, c, n) = OneGoal(p, c)
  BY <1>1 DEF Goals, Singles, FieldNames
<1>4. m.op # "focusNode"
  <2>1. PICK sole : sole = SoleMessage(c)
    OBVIOUS
  <2>2. sole.op # "focusNode"
    BY <2>1, SoleShape DEF Singles
  <2>3. QED
    BY <1>2, <2>1, <2>2
<1>5. CASE Names(m) = Missing
  <2>1. Same(r, p)
    BY <1>3, <1>4, <1>5 DEF Turns
  <2>2. QED
    BY <1>2, <1>3, <1>5, <2>1 DEF OneGoal
<1>6. CASE Names(m) # Missing
  <2>1. Same(r, Applied(p, m)) /\ Goals(p, c, n) = {Effect(p, c)}
    BY <1>2, <1>3, <1>4, <1>6, TurnsIsApplied DEF OneGoal
  <2>2. Same(Applied(p, m), Effect(p, c))
    BY <1>2, SingleEffect, SameIsEquivalence
  <2>3. QED
    BY <2>1, <2>2, SameIsEquivalence
<1>7. QED
  BY <1>5, <1>6

LEMMA KeyboardProgress ==
  ASSUME NEW p \in Page, NEW c \in Commands, c.name = "keyboard",
         NEW n \in 1 .. Len(Script(c)), Sendable(c, n),
         NEW g \in Goals(p, c, n - 1), NEW r \in Page, Turns(g, Script(c)[n], r)
  PROVE  \E h \in Goals(p, c, n) : Same(r, h)
<1> DEFINE text == c.text  m == Script(c)[n]
<1>1. text \in Text /\ Len(text) \in Nat /\ n \in 1 .. 2 * Len(text) /\ DOMAIN text = 1 .. Len(text)
  <2>1. text \in Text
    BY CommandShape, InputAssumption DEF Text
  <2>2. Len(Script(c)) = 2 * Len(text)
    BY ScriptLength
  <2>3. QED
    BY <2>1, <2>2 DEF Text
<1>2. \A j \in 1 .. Len(text) : 2 * j - 1 <= n => text[j] \in Chars /\ text[j] \in Keys
  <2>1. ASSUME NEW j \in 1 .. Len(text), 2 * j - 1 <= n PROVE text[j] \in Chars
    <3>1. text[j] \notin WideChars
      BY <1>1, <2>1 DEF Sendable
    <3>2. text[j] \in Chars \cup WideChars
      BY <1>1, ElementOfSeq DEF Text
    <3>3. QED
      BY <3>1, <3>2
  <2>2. QED
    BY <2>1 DEF Keys
<1>3. Goals(p, c, n) = {HalfTyped(p, text, n)} /\ (n > 1 => g = HalfTyped(p, text, n - 1)) /\ (n = 1 => g = p)
  BY <1>1 DEF Goals, FieldNames
<1> DEFINE q == HalfTyped(p, text, n - 1)
<1>4. q \in Page /\ Same(g, q) /\ g \in Page /\ HalfTyped(p, text, n) \in Page
  <2>1. n - 1 \in 0 .. 2 * Len(text) /\ n \in 0 .. 2 * Len(text)
    BY <1>1
  <2>2. \A i \in 1 .. n : i % 2 = 1 => (i + 1) \div 2 \in 1 .. Len(text) /\ 2 * ((i + 1) \div 2) - 1 <= n
    BY <1>1
  <2>3. (n - 1) % 2 = 1 => n - 1 \in 1 .. n
    BY <1>1
  <2>4. (n - 1) % 2 = 1 => text[((n - 1) + 1) \div 2] \in Keys
    BY <1>2, <2>2, <2>3
  <2>5. n % 2 = 1 => text[(n + 1) \div 2] \in Keys
    BY <1>1, <1>2, <2>2
  <2>6. q \in Page /\ (n - 1 = 0 => Same(p, q))
    BY <1>1, <2>1, <2>4, HalfTypedTyped
  <2>7. HalfTyped(p, text, n) \in Page
    BY <1>1, <2>1, <2>5, HalfTypedTyped
  <2>8. CASE n = 1
    <3>1. n - 1 = 0 /\ g = p
      BY <1>3, <2>8
    <3>2. QED
      BY <2>6, <2>7, <3>1
  <2>9. CASE n > 1
    <3>1. g = q
      BY <1>3, <2>9
    <3>2. QED
      BY <2>6, <2>7, <3>1, SameIsEquivalence
  <2>10. QED
    BY <1>1, <2>8, <2>9
<1>5. PICK k \in 0 .. Len(text) - 1 : n = 2 * k + 1 \/ n = 2 * k + 2
  <2>1. (n - 1) \div 2 \in 0 .. Len(text) - 1
    BY <1>1
  <2>2. n = 2 * ((n - 1) \div 2) + 1 \/ n = 2 * ((n - 1) \div 2) + 2
    BY <1>1
  <2>3. QED
    BY <2>1, <2>2
<1>6. k \in Nat /\ k + 1 \in 1 .. Len(text) /\ k < Len(text) /\ k \in 0 .. Len(text)
  BY <1>1, <1>5
<1> DEFINE key == text[k + 1]  before == SubSeq(text, 1, k)  upTo == SubSeq(text, 1, k + 1)
<1>7. key \in Chars /\ key \in Keys /\ key \notin WideChars
  <2>1. 2 * (k + 1) - 1 <= n
    BY <1>5, <1>6
  <2>2. key \notin WideChars
    BY <1>1, <1>6, <2>1 DEF Sendable
  <2>3. QED
    BY <1>2, <1>6, <2>1, <2>2
<1>8. /\ before \in Text /\ upTo \in Text /\ upTo = before \o <<key>>
      /\ ToSet(upTo) = ToSet(before) \cup {key}
  <2>1. k + 1 \in 0 .. Len(text)
    BY <1>6
  <2>2. QED
    BY <1>1, <1>6, <2>1, FirstOfText
<1>9. Names(m) # Missing => Same(Applied(g, m), Applied(q, m))
  <2>1. m \in Messages
    BY ScriptTyped DEF Found, LookupNames, FieldNames
  <2>2. QED
    BY <1>4, <2>1, AppliedSame
<1>10. CASE n = 2 * k + 1
  <2>1. /\ (n + 1) \div 2 = k + 1 /\ n \div 2 = k /\ n % 2 = 1
        /\ ((n - 1) + 1) \div 2 = k /\ (n - 1) \div 2 = k /\ (n - 1) % 2 = 0
    BY <1>6, <1>10
  <2>2. m = KeyEvent("keyDown", key, FALSE)
    BY <1>1, <1>7, <2>1, KeyboardMessages
  <2>3. q = [Insert(p, before) EXCEPT !.held = (@ \ ToSet(before)) \cup {}]
    <3> DEFINE x == Insert(p, SubSeq(text, 1, ((n - 1) + 1) \div 2))
               fewer == ToSet(SubSeq(text, 1, (n - 1) \div 2))
               more == IF (n - 1) % 2 = 1 THEN {text[((n - 1) + 1) \div 2]} ELSE {}
    <3>1. q = [x EXCEPT !.held = (@ \ fewer) \cup more]
      BY DEF HalfTyped
    <3>2. x = Insert(p, before) /\ fewer = ToSet(before) /\ more = {}
      BY <2>1
    <3> HIDE DEF q, x, fewer, more, before
    <3>3. QED
      BY <3>1, <3>2
  <2>4. HalfTyped(p, text, n) = [Insert(p, upTo) EXCEPT !.held = (@ \ ToSet(before)) \cup {key}]
    <3> DEFINE x == Insert(p, SubSeq(text, 1, (n + 1) \div 2))
               fewer == ToSet(SubSeq(text, 1, n \div 2))
               more == IF n % 2 = 1 THEN {text[(n + 1) \div 2]} ELSE {}
    <3>1. HalfTyped(p, text, n) = [x EXCEPT !.held = (@ \ fewer) \cup more]
      BY DEF HalfTyped
    <3>2. x = Insert(p, upTo) /\ fewer = ToSet(before) /\ more = {key}
      BY <2>1
    <3> HIDE DEF x, fewer, more, before, upTo, key
    <3>3. QED
      BY <3>1, <3>2
  <2>5. Same(r, Applied(g, m)) /\ Names(m) # Missing
    BY <2>2, KeyEvents, TurnsIsApplied, InputAssumption
  <2>6. Same(KeyDown(q, key, TRUE), HalfTyped(p, text, n))
    <3> HIDE DEF key, before, upTo, q
    <3>1. Insert(p, before) \in Page /\ Insert(p, upTo) \in Page
      BY <1>8, InsertTyped
    <3> DEFINE down == [q EXCEPT !.held = @ \cup {key}]
    <3>2. KeyDown(q, key, TRUE) = Insert(down, <<key>>)
      BY <1>7 DEF KeyDown
    <3>3. \A x \in Page : [[x EXCEPT !.held = (@ \ ToSet(before)) \cup {}] EXCEPT !.held = @ \cup {key}]
                          = [x EXCEPT !.held = (@ \ ToSet(before)) \cup {key}]
      <4>1. ASSUME NEW x \in Page
            PROVE  [[x EXCEPT !.held = (@ \ ToSet(before)) \cup {}] EXCEPT !.held = @ \cup {key}]
                   = [x EXCEPT !.held = (@ \ ToSet(before)) \cup {key}]
        <5>1. PICK fewer : fewer = (x.held \ ToSet(before)) \cup {}
          OBVIOUS
        <5>2. PICK more : more = fewer \cup {key} /\ more = (x.held \ ToSet(before)) \cup {key}
          BY <5>1
        <5>3. [x EXCEPT !.held = (@ \ ToSet(before)) \cup {}] = [x EXCEPT !.held = fewer]
          BY <5>1
        <5>4. [[x EXCEPT !.held = fewer] EXCEPT !.held = @ \cup {key}] = [x EXCEPT !.held = more]
          BY <5>2 DEF Page
        <5>5. [x EXCEPT !.held = (@ \ ToSet(before)) \cup {key}] = [x EXCEPT !.held = more]
          BY <5>2
        <5>6. QED
          BY <5>3, <5>4, <5>5
      <4>2. QED
        BY <4>1
    <3>4. down = [Insert(p, before) EXCEPT !.held = (@ \ ToSet(before)) \cup {key}]
      BY <2>3, <3>1, <3>3
    <3>5. CASE p.focus \in Fields
      <4>1. (p.value[p.focus] \o before) \o <<key>> = p.value[p.focus] \o upTo
        <5>1. p.value[p.focus] \in Text
          BY <3>5 DEF Page, Text
        <5>2. <<key>> \in Text
          BY <1>7 DEF Text
        <5>3. (p.value[p.focus] \o before) \o <<key>> = p.value[p.focus] \o (before \o <<key>>)
          <6>1. PICK x \in Text, y \in Text, z \in Text :
                  x = p.value[p.focus] /\ y = before /\ z = <<key>>
            BY <1>8, <5>1, <5>2
          <6>2. (x \o y) \o z = x \o (y \o z)
            BY ConcatTexts
          <6>3. QED
            BY <6>1, <6>2
        <5>4. QED
          BY <1>8, <5>3
      <4> DEFINE v == p.value[p.focus] \o before  w == p.value[p.focus] \o upTo
      <4>2. Insert(p, before) = [p EXCEPT !.value = [p.value EXCEPT ![p.focus] = v]]
        BY <3>5 DEF Insert, Page
      <4>3. Insert(p, upTo) = [p EXCEPT !.value = [p.value EXCEPT ![p.focus] = w]]
        BY <3>5 DEF Insert, Page
      <4>4. w = v \o <<key>>
        BY <4>1
      <4> HIDE DEF v, w
      <4>5. down.focus = p.focus /\ down.value = [p.value EXCEPT ![p.focus] = v]
        BY <3>4, <4>2 DEF Page
      <4>6. down.value[p.focus] = v
        BY <3>5, <4>5 DEF Page
      <4>7. Insert(down, <<key>>) = [down EXCEPT !.value = [down.value EXCEPT ![p.focus] = w]]
        BY <3>5, <4>4, <4>5, <4>6 DEF Insert
      <4>8. [down.value EXCEPT ![p.focus] = w] = [p.value EXCEPT ![p.focus] = w]
        BY <4>5 DEF Page
      <4> DEFINE value == [p.value EXCEPT ![p.focus] = w]  held == (p.held \ ToSet(before)) \cup {key}
      <4>9. down = [[p EXCEPT !.value = [p.value EXCEPT ![p.focus] = v]] EXCEPT !.held = held]
        BY <3>4, <4>2 DEF Page
      <4>10. HalfTyped(p, text, n) = [[p EXCEPT !.value = value] EXCEPT !.held = held]
        BY <2>4, <4>3 DEF Page
      <4>11. KeyDown(q, key, TRUE) = [down EXCEPT !.value = value]
        BY <3>2, <4>7, <4>8
      <4> HIDE DEF down, value, held
      <4>12. QED
        BY <4>9, <4>10, <4>11 DEF Same, Page
    <3>6. CASE p.focus \notin Fields
      <4>1. Insert(p, before) = p /\ Insert(p, upTo) = p
        BY <3>6 DEF Insert
      <4>2. down.focus = p.focus
        BY <3>4, <4>1 DEF Page
      <4>3. Insert(down, <<key>>) = down
        BY <3>6, <4>2 DEF Insert
      <4>4. QED
        BY <2>4, <3>2, <3>4, <4>1, <4>3 DEF Same, Page
    <3>7. QED
      BY <3>5, <3>6
  <2>7. Applied(q, m) = KeyDown(q, key, TRUE)
    <3> HIDE DEF q, key, m
    <3>1. Applied(q, m) = KeyDown(q, key, ~FALSE)
      BY <2>2, KeyEvents
    <3>2. KeyDown(q, key, ~FALSE) = KeyDown(q, key, TRUE)
      BY DEF KeyDown
    <3>3. QED
      BY <3>1, <3>2
  <2>8. QED
    BY <1>3, <1>9, <2>5, <2>6, <2>7, SameIsEquivalence
<1>11. CASE n = 2 * k + 2
  <2>1. /\ (n + 1) \div 2 = k + 1 /\ n \div 2 = k + 1 /\ n % 2 = 0
        /\ ((n - 1) + 1) \div 2 = k + 1 /\ (n - 1) \div 2 = k /\ (n - 1) % 2 = 1
    BY <1>6, <1>11
  <2>2. m = KeyEvent("keyUp", key, FALSE)
    <3>1. m = KeyEvent(IF n % 2 = 1 THEN "keyDown" ELSE "keyUp", key, FALSE)
      BY <1>1, <1>7, <2>1, KeyboardMessages
    <3>2. (IF n % 2 = 1 THEN "keyDown" ELSE "keyUp") = "keyUp"
      BY <2>1
    <3>3. QED
      BY <3>1, <3>2
  <2>3. q = [Insert(p, upTo) EXCEPT !.held = (@ \ ToSet(before)) \cup {key}]
    <3> DEFINE x == Insert(p, SubSeq(text, 1, ((n - 1) + 1) \div 2))
               fewer == ToSet(SubSeq(text, 1, (n - 1) \div 2))
               more == IF (n - 1) % 2 = 1 THEN {text[((n - 1) + 1) \div 2]} ELSE {}
    <3>1. q = [x EXCEPT !.held = (@ \ fewer) \cup more]
      BY DEF HalfTyped
    <3>2. x = Insert(p, upTo) /\ fewer = ToSet(before) /\ more = {key}
      BY <2>1
    <3> HIDE DEF q, x, fewer, more, before, upTo, key
    <3>3. QED
      BY <3>1, <3>2
  <2>4. HalfTyped(p, text, n) = [Insert(p, upTo) EXCEPT !.held = (@ \ ToSet(upTo)) \cup {}]
    <3> DEFINE x == Insert(p, SubSeq(text, 1, (n + 1) \div 2))
               fewer == ToSet(SubSeq(text, 1, n \div 2))
               more == IF n % 2 = 1 THEN {text[(n + 1) \div 2]} ELSE {}
    <3>1. HalfTyped(p, text, n) = [x EXCEPT !.held = (@ \ fewer) \cup more]
      BY DEF HalfTyped
    <3>2. x = Insert(p, upTo) /\ fewer = ToSet(upTo) /\ more = {}
      BY <2>1
    <3> HIDE DEF x, fewer, more, upTo
    <3>3. QED
      BY <3>1, <3>2
  <2>5. Same(r, Applied(g, m)) /\ Names(m) # Missing
    BY <2>2, KeyEvents, TurnsIsApplied, InputAssumption
  <2>6. Same([q EXCEPT !.held = @ \ {key}], HalfTyped(p, text, n))
    <3> HIDE DEF key, before, upTo, q
    <3>1. Insert(p, upTo) \in Page
      BY <1>8, InsertTyped
    <3>2. \A held : ((held \ ToSet(before)) \cup {key}) \ {key} = (held \ ToSet(upTo)) \cup {}
      BY <1>8
    <3>3. QED
      BY <2>3, <2>4, <3>1, <3>2 DEF Same, Page
  <2>7. Applied(q, m) = [q EXCEPT !.held = @ \ {key}]
    <3> HIDE DEF q, key, m
    <3>1. QED
      BY <2>2, KeyUpEvent
  <2>8. QED
    BY <1>3, <1>9, <2>5, <2>6, <2>7, SameIsEquivalence
<1>12. QED
  BY <1>5, <1>10, <1>11

(* Every message that is sent goes on from what was sent before it. *)
LEMMA Progress ==
  ASSUME NEW p \in Page, NEW c \in Commands, NEW n \in 1 .. Len(Script(c)), Found(c, n), Sendable(c, n),
         NEW g \in Goals(p, c, n - 1), NEW r \in Page, Turns(g, Script(c)[n], r)
  PROVE  \E h \in Goals(p, c, n) : Same(r, h)
<1>1. c.name \in FieldNames \cup {"dblclick", "hover", "press", "keyboard"} \cup Singles
  BY CommandShape DEF AllNames, Singles, FieldNames
<1>2. QED
  BY <1>1, FieldProgress, DblclickProgress, HoverProgress, PressProgress, KeyboardProgress, SingleProgress

LEMMA GoalsTyped ==
  ASSUME NEW p \in Page, NEW c \in Commands, NEW n \in 0 .. Len(Script(c)), Found(c, n), Sendable(c, n)
  PROVE  Goals(p, c, n) \subseteq Page
<1>1. c.name \in FieldNames \cup {"dblclick", "hover", "press", "keyboard"} \cup Singles
  BY CommandShape DEF AllNames, Singles, FieldNames
<1>2. CASE n = 0
  BY <1>2 DEF Goals
<1>3. n \in Nat
  BY ScriptLength
<1>4. c.name \in LookupNames /\ n > 2 => c.field \in Fields /\ c.field \in Points
  BY CommandShape DEF Found, LookupNames, FieldNames, OrMissing, Points
<1>5. ASSUME c.name \in FieldNames, n # 0
      PROVE  Goals(p, c, n) \subseteq Page
  <2>1. Goals(p, c, n) = FieldGoals(p, c, n)
    BY <1>5 DEF Goals, FieldNames
  <2>2. CASE n <= 2
    BY <2>1, <2>2 DEF FieldGoals
  <2>3. CASE n > 2
    <3>1. c.field \in Fields /\ c.field \in Points
      BY <1>4, <1>5, <2>3 DEF LookupNames
    <3>2. Focused(p, c.field) \in Page
      BY <3>1 DEF Focused, Page
    <3>3. \A text \in Text : [p.value EXCEPT ![c.field] = text] \in [Fields -> Text]
      BY DEF Page, Text
    <3>4. << >> \in Text
      BY DEF Text
    <3>5. \A text \in Text : [Focused(p, c.field) EXCEPT !.value[c.field] = text] \in Page
      BY <3>1, <3>3 DEF Focused, Page, Text
    <3>6. c.name = "focus" => Effect(p, c) = Focused(p, c.field)
      BY DEF Effect, Focused
    <3>7. c.name = "type" => Effect(p, c) = Insert(Focused(p, c.field), c.text) /\ c.text \in Text
      BY CommandShape, InputAssumption DEF Effect, Focused, Text
    <3>8. c.name = "fill" => /\ Effect(p, c) = [Focused(p, c.field) EXCEPT !.value[c.field] = c.text]
                             /\ c.text \in Text
      BY CommandShape, InputAssumption DEF Effect, Focused, Text, Page
    <3>9. Effect(p, c) \in Page
      BY <1>5, <3>2, <3>5, <3>6, <3>7, <3>8, InsertTyped DEF FieldNames
    <3>10. QED
      BY <2>1, <3>2, <3>4, <3>5, <3>9 DEF FieldGoals
  <2>4. QED
    BY <1>3, <2>2, <2>3
<1>6. ASSUME c.name = "dblclick", n # 0
      PROVE  Goals(p, c, n) \subseteq Page
  <2>1. Goals(p, c, n) = DblclickGoals(p, c, n)
    BY <1>6 DEF Goals, FieldNames
  <2>2. CASE n <= 2
    BY <2>1, <2>2 DEF DblclickGoals
  <2>3. CASE n > 2
    <3>1. c.field \in Fields /\ c.field \in Points
      BY <1>4, <1>6, <2>3 DEF LookupNames
    <3>2. Press(p, c.field) \in Page /\ Click(p, c.field) \in Page
      BY <3>1, PressTyped DEF Click
    <3>3. Press(Click(p, c.field), c.field) \in Page /\ Click(Click(p, c.field), c.field) \in Page
      BY <3>1, <3>2, PressTyped DEF Click
    <3>4. \A x \in Page : [x EXCEPT !.doubles[c.field] = @ + 1] \in Page
      <4>1. ASSUME NEW x \in Page PROVE [x EXCEPT !.doubles[c.field] = @ + 1] \in Page
        <5>0. x.doubles \in [Fields -> Nat]
          BY DEF Page
        <5>1. [x.doubles EXCEPT ![c.field] = x.doubles[c.field] + 1] \in [Fields -> Nat]
          BY <3>1, <5>0
        <5>2. [x EXCEPT !.doubles[c.field] = @ + 1]
              = [x EXCEPT !.doubles = [x.doubles EXCEPT ![c.field] = x.doubles[c.field] + 1]]
          BY DEF Page
        <5>3. QED
          BY <5>1, <5>2 DEF Page
      <4>2. QED
        BY <4>1
    <3>5. Effect(p, c) = [Click(Click(p, c.field), c.field) EXCEPT !.doubles[c.field] = @ + 1]
      BY <1>6 DEF Effect, Double, Click
    <3>6. QED
      BY <2>1, <3>2, <3>3, <3>4, <3>5 DEF DblclickGoals
  <2>4. QED
    BY <1>3, <2>2, <2>3
<1>7. ASSUME c.name = "hover", n # 0
      PROVE  Goals(p, c, n) \subseteq Page
  <2>1. n > 2 => Effect(p, c) \in Page
    BY <1>4, <1>7 DEF Effect, LookupNames, Page
  <2>2. QED
    BY <1>3, <1>7, <2>1 DEF Goals, FieldNames, HoverGoals
<1>8. ASSUME c.name = "press", n # 0
      PROVE  Goals(p, c, n) \subseteq Page
  <2>1. c.key \in Keys
    BY <1>8, CommandShape
  <2>2. KeyDown(p, c.key, ~c.modified) \in Page
    BY <2>1, KeyDownTyped
  <2>3. Effect(p, c) \in Page
    BY <1>8, <2>2 DEF Effect, Page
  <2>4. QED
    BY <1>8, <2>2, <2>3 DEF Goals, FieldNames, PressGoals
<1>9. ASSUME c.name = "keyboard", n # 0
      PROVE  Goals(p, c, n) \subseteq Page
  <2>1. c.text \in Text /\ Len(c.text) \in Nat /\ n \in 0 .. 2 * Len(c.text) /\ DOMAIN c.text = 1 .. Len(c.text)
    <3>1. c.text \in Text
      BY <1>9, CommandShape, InputAssumption DEF Text
    <3>2. Len(Script(c)) = 2 * Len(c.text)
      BY <1>9, ScriptLength
    <3>3. QED
      BY <3>1, <3>2 DEF Text
  <2>2. ASSUME n % 2 = 1
        PROVE  c.text[(n + 1) \div 2] \in Keys
    <3>1. (n + 1) \div 2 \in 1 .. Len(c.text) /\ 2 * ((n + 1) \div 2) - 1 <= n
      BY <1>3, <2>1, <2>2
    <3>2. QED
      BY <1>9, <2>1, <3>1, ElementOfSeq DEF Sendable, Text, Keys
  <2>3. HalfTyped(p, c.text, n) \in Page
    BY <2>1, <2>2, HalfTypedTyped
  <2>4. QED
    BY <1>9, <2>3 DEF Goals, FieldNames
<1>10. ASSUME c.name \in Singles, n # 0
       PROVE  Goals(p, c, n) \subseteq Page
  <2>1. n = 1 /\ Script(c)[1] = SoleMessage(c) /\ 1 \in 1 .. Len(Script(c))
    <3>1. Len(Script(c)) = 1
      BY <1>10, ScriptLength
    <3>2. QED
      BY <1>3, <1>10, <3>1, SingleMessage
  <2>2. Goals(p, c, n) = OneGoal(p, c)
    BY <1>10, <2>1 DEF Goals, Singles, FieldNames
  <2>3. Script(c)[1] \in Messages
    BY <1>10, <2>1, ScriptTyped DEF Found, Sendable, Singles, LookupNames, FieldNames
  <2>4. Names(Script(c)[1]) # Missing => Effect(p, c) \in Page
    BY <1>10, <2>1, <2>3, AppliedTyped, SingleEffect
  <2>5. QED
    BY <2>2, <2>4 DEF OneGoal
<1>11. QED
  BY <1>1, <1>2, <1>5, <1>6, <1>7, <1>8, <1>9, <1>10

-----------------------------------------------------------------------------
(* How commands end *)

LEMMA KeyboardEffect ==
  ASSUME NEW p \in Page, NEW c \in Commands, c.name = "keyboard", c.text \in Text,
         NEW k \in 0 .. Len(c.text), Reached(c.text) = SubSeq(c.text, 1, k)
  PROVE  HalfTyped(p, c.text, 2 * k) = Effect(p, c)
<1> DEFINE text == c.text  n == 2 * k  r == SubSeq(text, 1, k)
<1>1. (n + 1) \div 2 = k /\ n \div 2 = k /\ n % 2 = 0
  BY DEF Text
<1>2. HalfTyped(p, text, n) = [Insert(p, r) EXCEPT !.held = (@ \ ToSet(r)) \cup {}]
  <2> DEFINE x == Insert(p, SubSeq(text, 1, (n + 1) \div 2))
             fewer == ToSet(SubSeq(text, 1, n \div 2))
             more == IF n % 2 = 1 THEN {text[(n + 1) \div 2]} ELSE {}
  <2>1. HalfTyped(p, text, n) = [x EXCEPT !.held = (@ \ fewer) \cup more]
    BY DEF HalfTyped
  <2>2. x = Insert(p, r) /\ fewer = ToSet(r) /\ more = {}
    BY <1>1
  <2> HIDE DEF n, x, fewer, more, r
  <2>3. QED
    BY <2>1, <2>2
<1>3. Effect(p, c) = [Insert(p, r) EXCEPT !.held = @ \ ToSet(r)]
  BY DEF Effect
<1>4. \A S : S \cup {} = S
  OBVIOUS
<1>5. QED
  BY <1>2, <1>3, <1>4

(* A command that got through its script has had its effect. *)
LEMMA EndGoal ==
  ASSUME NEW p \in Page, NEW c \in Commands, NEW n \in Nat, n = Len(Script(c)), Sendable(c, n),
         c.name \in Singles => Names(SoleMessage(c)) # Missing
  PROVE  Goals(p, c, n) = {Effect(p, c)}
<1>1. c.name \in FieldNames \cup {"dblclick", "hover", "press", "keyboard"} \cup Singles
  BY CommandShape DEF AllNames, Singles, FieldNames
<1>2. n # 0
  BY ScriptLength
<1>3. CASE c.name \in FieldNames
  <2>1. Goals(p, c, n) = FieldGoals(p, c, n)
    BY <1>2, <1>3 DEF Goals, FieldNames
  <2>2. c.name = "focus" => n = 4 /\ Effect(p, c) = Focused(p, c.field)
    BY ScriptLength DEF Effect, Focused
  <2>3. c.name = "type" => n = 6
    BY ScriptLength
  <2>4. c.name = "fill" => n = 7
    BY ScriptLength
  <2>5. CASE c.name = "focus"
    <3>1. FieldGoals(p, c, 4) = {Focused(p, c.field)}
      BY DEF FieldGoals
    <3>2. QED
      BY <2>1, <2>2, <2>5, <3>1
  <2>6. CASE c.name = "type"
    <3>1. FieldGoals(p, c, 6) = {Effect(p, c)}
      BY DEF FieldGoals
    <3>2. QED
      BY <2>1, <2>3, <2>6, <3>1
  <2>7. CASE c.name = "fill"
    <3>1. FieldGoals(p, c, 7) = {Effect(p, c)}
      BY DEF FieldGoals
    <3>2. QED
      BY <2>1, <2>4, <2>7, <3>1
  <2>8. QED
    BY <1>3, <2>5, <2>6, <2>7 DEF FieldNames
<1>4. CASE c.name = "dblclick"
  <2>1. n = 7
    BY <1>4, ScriptLength
  <2>2. QED
    BY <1>2, <1>4, <2>1 DEF Goals, FieldNames, DblclickGoals
<1>5. CASE c.name = "hover"
  <2>1. n = 3
    BY <1>5, ScriptLength
  <2>2. QED
    BY <1>2, <1>5, <2>1 DEF Goals, FieldNames, HoverGoals
<1>6. CASE c.name = "press"
  <2>1. n = 2
    BY <1>6, ScriptLength
  <2>2. QED
    BY <1>2, <1>6, <2>1 DEF Goals, FieldNames, PressGoals
<1>7. CASE c.name = "keyboard"
  <2> DEFINE text == c.text
  <2>1. text \in Text /\ Len(text) \in Nat /\ n = 2 * Len(text) /\ DOMAIN text = 1 .. Len(text)
    <3>1. text \in Text
      BY <1>7, CommandShape, InputAssumption DEF Text
    <3>2. Len(Script(c)) = 2 * Len(text)
      BY <1>7, ScriptLength
    <3>3. QED
      BY <3>1, <3>2 DEF Text
  <2>2. \A j \in DOMAIN text : text[j] \notin WideChars
    BY <1>7, <2>1 DEF Sendable
  <2>3. Reached(text) = SubSeq(text, 1, Len(text))
    BY <2>1, <2>2, ReachedAll
  <2>4. Len(text) \in 0 .. Len(text)
    BY <2>1
  <2>5. HalfTyped(p, text, n) = Effect(p, c)
    BY <1>7, <2>1, <2>3, <2>4, KeyboardEffect
  <2>6. QED
    BY <1>2, <1>7, <2>5 DEF Goals, FieldNames
<1>8. CASE c.name \in Singles
  <2>1. Script(c)[1] = SoleMessage(c)
    BY <1>8, SingleMessage
  <2>2. Goals(p, c, n) = OneGoal(p, c)
    BY <1>2, <1>8 DEF Goals, Singles, FieldNames
  <2>3. QED
    BY <1>8, <2>1, <2>2 DEF OneGoal
<1>9. QED
  BY <1>1, <1>3, <1>4, <1>5, <1>6, <1>7, <1>8

(* DOM.focus that is answered has moved the focus: its script is not needed. *)
LEMMA FocusGoal ==
  ASSUME NEW p \in Page, NEW c \in Commands, c.name \in FieldNames,
         NEW q \in Page, q.focus = c.field, NEW g \in Goals(p, c, 3), Same(q, g)
  PROVE  /\ Goals(p, c, 4) = {Focused(p, c.field)} /\ Same(q, Focused(p, c.field))
         /\ c.name = "focus" => Effect(p, c) = Focused(p, c.field)
<1>1. Goals(p, c, 3) = {p, Focused(p, c.field)} /\ Goals(p, c, 4) = {Focused(p, c.field)}
  BY DEF Goals, FieldNames, FieldGoals
<1>2. Same(q, Focused(p, c.field))
  BY <1>1 DEF Focused, Same, Page
<1>3. QED
  BY <1>1, <1>2 DEF Effect, Focused

(* keyboard type that meets a wider character has typed what comes before it. *)
LEMMA AbortGoal ==
  ASSUME NEW p \in Page, NEW c \in Commands, NEW n \in 1 .. Len(Script(c)), Sendable(c, n - 1),
         Script(c)[n].op = "abort"
  PROVE  /\ Effect(p, c) \in Page
         /\ \A g \in Goals(p, c, n - 1) : Same(g, Effect(p, c))
<1>1. c.name = "keyboard"
  <2>1. ASSUME c.name # "keyboard" PROVE FALSE
    <3>1. Sendable(c, n)
      BY <2>1 DEF Sendable
    <3>2. CASE Found(c, n)
      <4>1. Script(c)[n] \in Messages
        BY <3>1, <3>2, ScriptTyped
      <4>2. QED
        BY <4>1, MessageShape
    <3>3. CASE ~Found(c, n)
      <4>1. c.name \in LookupNames /\ n > 2
        BY <3>3 DEF Found
      <4>2. CASE c.name = "type"
        <5>1. n \in 3 .. 6
          BY <4>1, <4>2, ScriptLength
        <5>2. QED
          BY <4>2, <5>1, TypeMessages DEF Try
      <4>3. CASE c.name = "fill"
        <5>1. n \in 3 .. 7
          BY <4>1, <4>3, ScriptLength
        <5>2. QED
          BY <4>3, <5>1, FillMessages DEF Try, Must
      <4>4. CASE c.name = "focus"
        <5>1. n \in 3 .. 4
          BY <4>1, <4>4, ScriptLength
        <5>2. QED
          BY <4>4, <5>1, FocusMessages DEF Try, Must
      <4>5. CASE c.name = "hover"
        <5>1. n = 3
          BY <4>1, <4>5, ScriptLength
        <5>2. QED
          BY <4>5, <5>1, HoverMessages DEF Try
      <4>6. CASE c.name = "dblclick"
        <5>1. n \in 3 .. 7
          BY <4>1, <4>6, ScriptLength
        <5>2. QED
          BY <4>6, <5>1, DblclickMessages DEF Try
      <4>7. QED
        BY <4>1, <4>2, <4>3, <4>4, <4>5, <4>6 DEF LookupNames, FieldNames
    <3>4. QED
      BY <3>2, <3>3
  <2>2. QED
    BY <2>1
<1> DEFINE text == c.text  i == (n + 1) \div 2
<1>2. text \in Text /\ Len(text) \in Nat /\ n \in 1 .. 2 * Len(text) /\ DOMAIN text = 1 .. Len(text)
  <2>1. text \in Text
    BY <1>1, CommandShape, InputAssumption DEF Text
  <2>2. Len(Script(c)) = 2 * Len(text)
    BY <1>1, ScriptLength
  <2>3. QED
    BY <2>1, <2>2 DEF Text
<1>3. i \in 1 .. Len(text)
  BY <1>2
<1>4. text[i] \in WideChars
  <2>1. ASSUME text[i] \notin WideChars PROVE FALSE
    <3>1. Script(c)[n] = KeyEvent(IF n % 2 = 1 THEN "keyDown" ELSE "keyUp", text[i], FALSE)
      BY <1>1, <1>2, <2>1, KeyboardMessages
    <3>2. \A key : \A op \in {"keyDown", "keyUp"} : KeyEvent(op, key, FALSE).op # "abort"
      BY DEF KeyEvent, Try
    <3> HIDE DEF i, text
    <3>3. (IF n % 2 = 1 THEN "keyDown" ELSE "keyUp") \in {"keyDown", "keyUp"}
      OBVIOUS
    <3>4. QED
      BY <3>1, <3>2, <3>3
  <2>2. QED
    BY <2>1
<1>5. n = 2 * i - 1
  <2>1. n = 2 * i - 1 \/ n = 2 * i
    BY <1>2
  <2>2. n = 2 * i => 2 * i - 1 <= n - 1
    BY <1>2
  <2>3. QED
    BY <1>1, <1>2, <1>3, <1>4, <2>1, <2>2 DEF Sendable
<1>6. PICK k \in 0 .. Len(text) : i = k + 1
  <2>1. i - 1 \in 0 .. Len(text) /\ i = (i - 1) + 1
    BY <1>2, <1>3
  <2>2. QED
    BY <2>1
<1>7. n - 1 = 2 * k /\ k \in Nat
  BY <1>2, <1>5, <1>6
<1> HIDE DEF i
<1>8. \A j \in DOMAIN text : j <= k => text[j] \notin WideChars
  <2>1. ASSUME NEW j \in DOMAIN text, j <= k PROVE text[j] \notin WideChars
    <3>1. 2 * j - 1 <= n - 1
      BY <1>2, <1>7, <2>1
    <3>2. QED
      BY <1>1, <3>1 DEF Sendable
  <2>2. QED
    BY <2>1
<1>9. Reached(text) = SubSeq(text, 1, k)
  BY <1>2, <1>3, <1>4, <1>6, <1>7, <1>8, ReachedTo
<1>10. HalfTyped(p, text, 2 * k) = Effect(p, c)
  BY <1>1, <1>2, <1>9, KeyboardEffect
<1>11. HalfTyped(p, text, 2 * k) \in Page /\ (2 * k = 0 => Same(p, HalfTyped(p, text, 2 * k)))
  <2>1. 2 * k \in 0 .. 2 * Len(text) /\ (2 * k) % 2 # 1
    BY <1>2, <1>7
  <2>2. QED
    BY <1>2, <2>1, HalfTypedTyped
<1>12. ASSUME NEW g \in Goals(p, c, n - 1) PROVE Same(g, Effect(p, c))
  <2>1. CASE n - 1 = 0
    BY <1>7, <1>10, <1>11, <1>12, <2>1 DEF Goals
  <2>2. CASE n - 1 # 0
    <3>1. g = HalfTyped(p, text, 2 * k)
      BY <1>1, <1>7, <1>12, <2>2 DEF Goals, FieldNames
    <3>2. QED
      BY <1>10, <3>1, SameIsEquivalence
  <2>3. QED
    BY <2>1, <2>2
<1>13. QED
  BY <1>10, <1>11, <1>12

(* A command that fails has done what a failure leaves. *)
LEMMA FailGoal ==
  ASSUME NEW p \in Page, NEW c \in Commands, NEW n \in 1 .. Len(Script(c)), Found(c, n), Sendable(c, n),
         NEW m, m = Script(c)[n], m.must = TRUE
  PROVE  \A outcome : outcome = "late" \/ Names(m) = Missing =>
           Goals(p, c, n) = {FailedEffect(p, c, m, outcome)}
<1> SUFFICES ASSUME NEW outcome, outcome = "late" \/ Names(m) = Missing
             PROVE  Goals(p, c, n) = {FailedEffect(p, c, m, outcome)}
  OBVIOUS
<1>1. c.name \in FieldNames \cup {"dblclick", "hover", "press", "keyboard"} \cup Singles
  BY CommandShape DEF AllNames, Singles, FieldNames
<1>2. n # 0 /\ n \in Nat
  BY ScriptLength
<1>3. ASSUME m.op \in {"enable", "lookup"}
      PROVE  FailedEffect(p, c, m, outcome) = p
  BY <1>3 DEF FailedEffect
<1>4. CASE c.name \in FieldNames
  <2>1. Goals(p, c, n) = FieldGoals(p, c, n)
    BY <1>2, <1>4 DEF Goals, FieldNames
  <2>2. CASE n <= 2
    <3>1. m.op \in {"enable", "lookup"}
      BY <1>2, <1>4, <2>2, TypeMessages, FillMessages, FocusMessages DEF FieldNames, Must, Try, Lookup
    <3>2. FieldGoals(p, c, n) = {p}
      BY <2>2 DEF FieldGoals
    <3>3. QED
      BY <1>3, <2>1, <3>1, <3>2
  <2>3. CASE n > 2
    <3>1. n = 4 /\ m.op = "focusScript"
      <4>1. CASE c.name = "type"
        <5>1. n \in 3 .. 6
          BY <1>2, <2>3, <4>1, ScriptLength
        <5>2. ~m.must
          BY <4>1, <5>1, TypeMessages DEF Try
        <5>3. QED
          BY <5>2
      <4>2. CASE c.name = "fill"
        <5>1. n \in 3 .. 7
          BY <1>2, <2>3, <4>2, ScriptLength
        <5>2. n # 4 => ~m.must
          BY <4>2, <5>1, FillMessages DEF Try
        <5>3. n = 4 => m.op = "focusScript"
          BY <4>2, FillMessages DEF Must
        <5>4. QED
          BY <5>2, <5>3
      <4>3. CASE c.name = "focus"
        <5>1. n \in 3 .. 4
          BY <1>2, <2>3, <4>3, ScriptLength
        <5>2. n # 4 => ~m.must
          BY <4>3, <5>1, FocusMessages DEF Try
        <5>3. n = 4 => m.op = "focusScript"
          BY <4>3, FocusMessages DEF Must
        <5>4. QED
          BY <5>2, <5>3
      <4>4. QED
        BY <1>4, <4>1, <4>2, <4>3 DEF FieldNames
    <3>2. FailedEffect(p, c, m, outcome) = Focused(p, c.field)
      BY <3>1 DEF FailedEffect, Focused
    <3>3. FieldGoals(p, c, 4) = {Focused(p, c.field)}
      BY DEF FieldGoals
    <3>4. QED
      BY <2>1, <3>1, <3>2, <3>3
  <2>4. QED
    BY <1>2, <2>2, <2>3
<1>5. CASE c.name = "dblclick"
  <2>1. n \in 1 .. 7
    BY <1>5, ScriptLength
  <2>2. n <= 2
    <3>1. n > 2 => ~m.must
      BY <1>5, <2>1, DblclickMessages DEF Try
    <3>2. QED
      BY <2>1, <3>1
  <2>3. m.op \in {"enable", "lookup"}
    BY <1>5, <2>1, <2>2, DblclickMessages DEF Must, Lookup
  <2>4. Goals(p, c, n) = {p}
    BY <1>2, <1>5, <2>2 DEF Goals, FieldNames, DblclickGoals
  <2>5. QED
    BY <1>3, <2>3, <2>4
<1>6. CASE c.name = "hover"
  <2>1. n \in 1 .. 3
    BY <1>6, ScriptLength
  <2>2. n <= 2
    <3>1. n > 2 => ~m.must
      BY <1>6, <2>1, HoverMessages DEF Try
    <3>2. QED
      BY <2>1, <3>1
  <2>3. m.op \in {"enable", "lookup"}
    BY <1>6, <2>1, <2>2, HoverMessages DEF Must, Lookup
  <2>4. Goals(p, c, n) = {p}
    BY <1>2, <1>6, <2>2 DEF Goals, FieldNames, HoverGoals
  <2>5. QED
    BY <1>3, <2>3, <2>4
<1>7. CASE c.name = "press"
  <2>1. n \in 1 .. 2
    BY <1>7, ScriptLength
  <2>2. ~m.must
    BY <1>7, <2>1, PressMessages DEF KeyEvent, Try
  <2>3. QED
    BY <2>2
<1>8. CASE c.name = "keyboard"
  <2>1. c.text \in Text
    BY <1>8, CommandShape, InputAssumption DEF Text
  <2>2. n \in 1 .. 2 * Len(c.text)
    BY <1>8, ScriptLength
  <2>3. /\ \A a : ~Try("abort", a).must
        /\ \A op, key : ~KeyEvent(op, key, FALSE).must
    BY DEF Try, KeyEvent
  <2>4. m \in {Try("abort", c.text[(n + 1) \div 2])}
             \cup {KeyEvent("keyDown", c.text[(n + 1) \div 2], FALSE), KeyEvent("keyUp", c.text[(n + 1) \div 2], FALSE)}
    BY <1>8, <2>1, <2>2, KeyboardMessages
  <2>5. ~m.must
    BY <2>3, <2>4
  <2>6. QED
    BY <2>5
<1>9. CASE c.name \in Singles
  <2>1. n = 1
    <3>1. Len(Script(c)) = 1
      BY <1>9, ScriptLength
    <3>2. QED
      BY <3>1
  <2>2. m = SoleMessage(c)
    BY <1>9, <2>1, SingleMessage
  <2>3. Goals(p, c, n) = IF Names(m) = Missing THEN {p} ELSE {Effect(p, c)}
    BY <1>9, <2>1 DEF Goals, Singles, FieldNames, OneGoal
  <2>4. m.op # "focusScript"
    BY <1>9, <2>2, SoleShape DEF Singles
  <2>5. CASE Names(m) = Missing
    BY <2>3, <2>4, <2>5 DEF FailedEffect
  <2>6. CASE Names(m) # Missing
    <3>1. CASE c.name \in {"keydown", "keyup", "inserttext", "wheel", "move", "down", "up"}
      <4>1. ~m.must
        BY <1>9, <2>2, <3>1, SoleShape
      <4>2. QED
        BY <4>1
    <3>2. CASE c.name \in {"select", "check", "uncheck", "scroll", "setitem", "clearitems"}
      <4>1. m.op \in {"select", "check", "scroll", "store", "emptied"}
        BY <1>9, <2>2, <3>2, SoleShape
      <4>2. FailedEffect(p, c, m, outcome) = Effect(p, c)
        BY <2>6, <4>1 DEF FailedEffect
      <4>3. QED
        BY <2>3, <2>6, <4>2
    <3>3. CASE c.name \in {"get", "getitem", "highlight"}
      <4>1. m.op \in {"read", "highlight"}
        BY <1>9, <2>2, <3>3, SoleShape
      <4>2. FailedEffect(p, c, m, outcome) = p
        BY <4>1 DEF FailedEffect
      <4>3. Effect(p, c) = p
        BY <3>3 DEF Effect
      <4>4. QED
        BY <2>3, <2>6, <4>2, <4>3
    <3>4. QED
      BY <1>9, <3>1, <3>2, <3>3 DEF Singles
  <2>7. QED
    BY <2>5, <2>6
<1>10. QED
  BY <1>1, <1>4, <1>5, <1>6, <1>7, <1>8, <1>9

(* What is not read as a wider character can be sent. *)
LEMMA SendableNext ==
  ASSUME NEW c \in Commands, NEW n \in 1 .. Len(Script(c)), Sendable(c, n - 1), Script(c)[n].op # "abort"
  PROVE  Sendable(c, n)
<1>1. ASSUME c.name = "keyboard", NEW j \in DOMAIN c.text, 2 * j - 1 <= n
      PROVE  c.text[j] \notin WideChars
  <2>1. c.text \in Text /\ Len(c.text) \in Nat /\ n \in 1 .. 2 * Len(c.text) /\ DOMAIN c.text = 1 .. Len(c.text)
    <3>1. c.text \in Text
      BY <1>1, CommandShape, InputAssumption DEF Text
    <3>2. Len(Script(c)) = 2 * Len(c.text)
      BY <1>1, ScriptLength
    <3>3. QED
      BY <3>1, <3>2 DEF Text
  <2>2. CASE 2 * j - 1 <= n - 1
    BY <1>1, <2>2 DEF Sendable
  <2>3. CASE 2 * j - 1 > n - 1
    <3>1. (n + 1) \div 2 = j
      BY <1>1, <2>1, <2>3
    <3>2. Script(c)[n] = IF c.text[(n + 1) \div 2] \in WideChars
                         THEN Try("abort", c.text[(n + 1) \div 2])
                         ELSE KeyEvent(IF n % 2 = 1 THEN "keyDown" ELSE "keyUp", c.text[(n + 1) \div 2], FALSE)
      BY <1>1, <2>1, KeyboardMessages
    <3>3. c.text[(n + 1) \div 2] \notin WideChars
      <4>1. SUFFICES ASSUME c.text[(n + 1) \div 2] \in WideChars PROVE FALSE
        OBVIOUS
      <4>2. Script(c)[n] = Try("abort", c.text[(n + 1) \div 2])
        BY <3>2, <4>1
      <4>3. \A a : Try("abort", a).op = "abort"
        BY DEF Try
      <4>4. QED
        BY <4>2, <4>3
    <3>4. QED
      BY <3>1, <3>3
  <2>4. QED
    BY <1>1, <2>1, <2>2, <2>3
<1>2. QED
  BY <1>1 DEF Sendable

(* A command reads what it is about, last. *)
LEMMA ReadsOwn ==
  ASSUME NEW c \in Commands, NEW n \in 1 .. Len(Script(c)), Found(c, n), Sendable(c, n),
         Script(c)[n].op \in {"read", "store"}
  PROVE  Names(Script(c)[n]) = c.field
<1> DEFINE m == Script(c)[n]
<1>1. c.name \in FieldNames \cup {"dblclick", "hover", "press", "keyboard"} \cup Singles
  BY CommandShape DEF AllNames, Singles, FieldNames
<1>2. CASE c.name = "type"
  <2>1. n \in 1 .. 6
    BY <1>2, ScriptLength
  <2>2. n = 6
    <3>1. n # 6 => m.op \notin {"read", "store"}
      BY <1>2, <2>1, TypeMessages DEF Try, Must, Lookup
    <3>2. QED
      BY <3>1
  <2>3. m = Try("read", c.field)
    BY <1>2, <2>2, TypeMessages
  <2>4. QED
    BY <2>3 DEF Try, Names
<1>3. CASE c.name = "fill"
  <2>1. n \in 1 .. 7
    BY <1>3, ScriptLength
  <2>2. n = 7
    <3>1. n # 7 => m.op \notin {"read", "store"}
      BY <1>3, <2>1, FillMessages DEF Try, Must, Lookup
    <3>2. QED
      BY <3>1
  <2>3. m = Try("read", c.field)
    BY <1>3, <2>2, FillMessages
  <2>4. QED
    BY <2>3 DEF Try, Names
<1>4. CASE c.name = "focus"
  <2>1. n \in 1 .. 4
    BY <1>4, ScriptLength
  <2>2. QED
    BY <1>4, <2>1, FocusMessages DEF Try, Must, Lookup
<1>5. CASE c.name = "dblclick"
  <2>1. n \in 1 .. 7
    BY <1>5, ScriptLength
  <2>2. QED
    BY <1>5, <2>1, DblclickMessages DEF Try, Must, Lookup
<1>6. CASE c.name = "hover"
  <2>1. n \in 1 .. 3
    BY <1>6, ScriptLength
  <2>2. QED
    BY <1>6, <2>1, HoverMessages DEF Try, Must, Lookup
<1>7. CASE c.name = "press"
  <2>1. n \in 1 .. 2
    BY <1>7, ScriptLength
  <2>2. QED
    BY <1>7, <2>1, PressMessages DEF Try, KeyEvent
<1>8. CASE c.name = "keyboard"
  <2>1. c.text \in Text
    BY <1>8, CommandShape, InputAssumption DEF Text
  <2>2. n \in 1 .. 2 * Len(c.text)
    BY <1>8, ScriptLength
  <2>3. m \in {Try("abort", c.text[(n + 1) \div 2])}
             \cup {KeyEvent("keyDown", c.text[(n + 1) \div 2], FALSE), KeyEvent("keyUp", c.text[(n + 1) \div 2], FALSE)}
    BY <1>8, <2>1, <2>2, KeyboardMessages
  <2>4. QED
    BY <2>3 DEF Try, KeyEvent
<1>9. CASE c.name \in Singles
  <2>1. n = 1
    <3>1. Len(Script(c)) = 1
      BY <1>9, ScriptLength
    <3>2. QED
      BY <3>1
  <2>2. m = SoleMessage(c)
    BY <1>9, <2>1, SingleMessage
  <2>3. m.op \in {"read", "store"}
    OBVIOUS
  <2>4. QED
    <3> HIDE DEF m
    <3>1. Names(m) = c.field
      BY <1>9, <2>2, <2>3, SoleShape DEF Singles
    <3>2. QED
      BY <3>1 DEF m
<1>10. QED
  BY <1>1, <1>2, <1>3, <1>4, <1>5, <1>6, <1>7, <1>8, <1>9 DEF FieldNames

-----------------------------------------------------------------------------
(* What messages on their way lead to *)

(* Pages that are the same have the same future. *)
LEMMA LeadsFromSame ==
  ASSUME NEW p, NEW q, Same(p, q), NEW messages, NEW goals, Leads(p, messages, goals)
  PROVE  Leads(q, messages, goals)
<1>1. ASSUME NEW P, Chain(q, messages, P) PROVE Chain(p, messages, P)
  BY <1>1, SameIsEquivalence DEF Chain
<1>2. QED
  BY <1>1 DEF Leads

(* Goals may be exchanged for others that are the same. *)
LEMMA LeadsToSame ==
  ASSUME NEW p, NEW messages, NEW goals, Leads(p, messages, goals), NEW others,
         \A g \in goals : \E h \in others : Same(g, h)
  PROVE  Leads(p, messages, others)
<1>1. ASSUME NEW q, NEW g \in goals, Same(q, g) PROVE \E h \in others : Same(q, h)
  BY <1>1, SameIsEquivalence
<1>2. QED
  BY <1>1 DEF Leads

(* When no message is on its way, the page is there already. *)
LEMMA LeadsNow ==
  ASSUME NEW p \in Page, NEW goals
  PROVE  Leads(p, << >>, goals) <=> \E g \in goals : Same(p, g)
<1>1. Len(<< >>) = 0 /\ Len(<< >>) + 1 = 1
  OBVIOUS
<1>2. ASSUME Leads(p, << >>, goals) PROVE \E g \in goals : Same(p, g)
  <2> DEFINE P == [i \in 1 .. 1 |-> p]
  <2>1. P \in [1 .. 1 -> Page] /\ P[1] = p
    OBVIOUS
  <2>2. Chain(p, << >>, P)
    BY <1>1, <2>1, SameIsEquivalence DEF Chain
  <2>3. QED
    BY <1>1, <1>2, <2>1, <2>2 DEF Leads
<1>3. ASSUME NEW g \in goals, Same(p, g) PROVE Leads(p, << >>, goals)
  <2>1. ASSUME NEW P, Chain(p, << >>, P) PROVE Same(P[1], g)
    BY <1>3, <2>1, SameIsEquivalence DEF Chain
  <2>2. QED
    BY <1>1, <2>1 DEF Leads
<1>4. QED
  BY <1>2, <1>3

(* What is handled leaves the rest on course. *)
LEMMA LeadsOn ==
  ASSUME NEW p \in Page, NEW q \in Page, NEW messages \in Seq(Messages), messages # << >>, NEW goals,
         Leads(p, messages, goals), Turns(p, Head(messages), q)
  PROVE  Leads(q, Tail(messages), goals)
<1> DEFINE L == Len(messages)  rest == Tail(messages)
<1>1. /\ L \in Nat /\ L >= 1 /\ Len(rest) = L - 1 /\ Head(messages) = messages[1]
      /\ \A i \in 1 .. L - 1 : rest[i] = messages[i + 1]
  BY EmptySeq, HeadTailProperties
<1>2. SUFFICES ASSUME NEW P \in [1 .. L -> Page], Chain(q, rest, P)
               PROVE  \E goal \in goals : Same(P[L], goal)
  BY <1>1 DEF Leads
<1> DEFINE Q == [i \in 1 .. L + 1 |-> IF i = 1 THEN p ELSE P[i - 1]]
<1>3. Q \in [1 .. L + 1 -> Page] /\ Q[1] = p /\ \A i \in 1 .. L : Q[i + 1] = P[i]
  BY <1>1
<1> HIDE DEF Q, rest
<1>4. Same(P[1], q) /\ \A i \in 1 .. L - 1 : Turns(P[i], rest[i], P[i + 1])
  BY <1>1, <1>2 DEF Chain
<1>5. ASSUME NEW i \in 1 .. L PROVE Turns(Q[i], messages[i], Q[i + 1])
  <2>1. CASE i = 1
    <3>1. Turns(p, Head(messages), P[1])
      BY <1>4, SameIsEquivalence DEF Turns
    <3>2. QED
      BY <1>1, <1>3, <2>1, <3>1
  <2>2. CASE i # 1
    <3>1. i - 1 \in 1 .. L - 1 /\ (i - 1) + 1 = i
      BY <1>1, <2>2
    <3>2. Turns(P[i - 1], rest[i - 1], P[i])
      BY <1>4, <3>1
    <3>3. rest[i - 1] = messages[i] /\ Q[i] = P[i - 1] /\ Q[i + 1] = P[i]
      BY <1>1, <1>3, <3>1
    <3>4. QED
      BY <3>2, <3>3
  <2>3. QED
    BY <2>1, <2>2
<1>6. Chain(p, messages, Q)
  BY <1>3, <1>5, SameIsEquivalence DEF Chain
<1>7. \E goal \in goals : Same(Q[L + 1], goal)
  BY <1>3, <1>6 DEF Leads
<1>8. Q[L + 1] = P[L]
  BY <1>1, <1>3
<1>9. QED
  BY <1>7, <1>8

(* A page that is the same is turned into the same. *)
LEMMA TurnsSame ==
  ASSUME NEW p \in Page, NEW q \in Page, Same(p, q), NEW m \in Messages, NEW r, Turns(p, m, r)
  PROVE  Turns(q, m, r)
<1>1. CASE Names(m) # Missing /\ Same(r, Applied(p, m))
  BY <1>1, AppliedSame, SameIsEquivalence DEF Turns
<1>2. CASE (Names(m) = Missing \/ m.op = "focusNode") /\ Same(r, p)
  BY <1>2, SameIsEquivalence DEF Turns
<1>3. QED
  BY <1>1, <1>2 DEF Turns

(* What is sent goes on from there. *)
LEMMA LeadsFurther ==
  ASSUME NEW p \in Page, NEW messages \in Seq(Messages), NEW a \in Page, NEW c \in Commands,
         NEW n \in 1 .. Len(Script(c)), Found(c, n), Sendable(c, n - 1), Sendable(c, n),
         Leads(p, messages, Goals(a, c, n - 1))
  PROVE  Leads(p, Append(messages, Script(c)[n]), Goals(a, c, n))
<1> DEFINE L == Len(messages)  m == Script(c)[n]  more == Append(messages, m)
<1>1. m \in Messages
  BY ScriptTyped
<1>2. /\ L \in Nat /\ Len(more) = L + 1 /\ more[L + 1] = m
      /\ \A i \in 1 .. L : more[i] = messages[i]
  <2> HIDE DEF m
  <2>1. QED
    BY <1>1, AppendProperties
<1> HIDE DEF m, more
<1>3. SUFFICES ASSUME NEW P \in [1 .. L + 2 -> Page], Chain(p, more, P)
               PROVE  \E goal \in Goals(a, c, n) : Same(P[L + 2], goal)
  <2>1. Len(more) + 1 = L + 2
    BY <1>2
  <2>2. \A P \in [1 .. L + 2 -> Page] : Chain(p, more, P) => \E goal \in Goals(a, c, n) : Same(P[L + 2], goal)
    BY <1>3
  <2>3. Leads(p, more, Goals(a, c, n))
    BY <2>1, <2>2 DEF Leads
  <2>4. QED
    BY <2>3 DEF m, more
<1> DEFINE Q == [i \in 1 .. L + 1 |-> P[i]]
<1>4. Q \in [1 .. L + 1 -> Page] /\ \A i \in 1 .. L + 1 : Q[i] = P[i]
  BY <1>2
<1> HIDE DEF Q
<1>5. Same(P[1], p) /\ \A i \in 1 .. L + 1 : Turns(P[i], more[i], P[i + 1])
  BY <1>2, <1>3 DEF Chain
<1>6. Chain(p, messages, Q)
  <2>1. Same(Q[1], p)
    BY <1>2, <1>4, <1>5
  <2>2. ASSUME NEW i \in 1 .. L PROVE Turns(Q[i], messages[i], Q[i + 1])
    <3>1. Turns(P[i], more[i], P[i + 1])
      BY <1>2, <1>5
    <3>2. Q[i] = P[i] /\ Q[i + 1] = P[i + 1] /\ more[i] = messages[i]
      BY <1>2, <1>4
    <3>3. QED
      BY <3>1, <3>2
  <2>3. QED
    BY <1>4, <2>1, <2>2 DEF Chain
<1>7. PICK g \in Goals(a, c, n - 1) : Same(P[L + 1], g)
  <2>1. L + 1 \in 1 .. L + 1
    BY <1>2
  <2>2. QED
    BY <1>4, <1>6, <2>1 DEF Leads
<1>8. g \in Page
  <2>1. n - 1 \in 0 .. Len(Script(c)) /\ Found(c, n - 1)
    BY ScriptLength DEF Found
  <2>2. QED
    BY <2>1, GoalsTyped
<1>9. P[L + 1] \in Page /\ P[L + 2] \in Page /\ Turns(P[L + 1], m, P[L + 2])
  BY <1>2, <1>5
<1>10. Turns(g, m, P[L + 2])
  BY <1>1, <1>7, <1>8, <1>9, TurnsSame
<1>11. QED
  BY <1>8, <1>9, <1>10, Progress DEF m

-----------------------------------------------------------------------------
(* What is read *)
Readings == (Text \X BOOLEAN) \cup [{1} -> Text]

LEMMA ToldTyped ==
  ASSUME NEW p \in Page, NEW f \in Fields \cup Areas
  PROVE  Told(p, f) \in Readings
<1>1. CASE f \in Areas
  <2>1. p.stored[f] \in Text
    BY <1>1 DEF Page, Text
  <2>2. <<p.stored[f]>> \in [{1} -> Text]
    BY <2>1
  <2>3. QED
    BY <1>1, <2>2 DEF Told, Readings
<1>2. CASE f \notin Areas
  <2>1. p.value[f] \in Text /\ p.checked[f] \in BOOLEAN
    BY <1>2 DEF Page, Text
  <2>2. <<p.value[f], p.checked[f]>> \in Text \X BOOLEAN
    BY <2>1
  <2>3. QED
    BY <1>2, <2>2 DEF Told, Readings
<1>3. QED
  BY <1>1, <1>2

LEMMA ToldSame ==
  ASSUME NEW p, NEW q, Same(p, q), NEW f
  PROVE  Told(p, f) = Told(q, f)
  BY DEF Same, Told

-----------------------------------------------------------------------------
(* Places in scripts *)

(* DOM.focus is the third message of the commands that focus a field. *)
LEMMA FocusNodeThird ==
  ASSUME NEW c \in Commands, NEW n \in 1 .. Len(Script(c)), Script(c)[n].op = "focusNode"
  PROVE  c.name \in FieldNames /\ n = 3 /\ ~Script(c)[n].must /\ Script(c)[n].on = c.field
<1> DEFINE m == Script(c)[n]
<1>1. c.name \in FieldNames \cup {"dblclick", "hover", "press", "keyboard"} \cup Singles
  BY CommandShape DEF AllNames, Singles, FieldNames
<1>2. Try("focusNode", c.field).on = c.field /\ ~Try("focusNode", c.field).must
  BY DEF Try
<1>3. CASE c.name = "type"
  <2>1. n \in 1 .. 6
    BY <1>3, ScriptLength
  <2>2. n = 3
    <3>1. n # 3 => m.op # "focusNode"
      BY <1>3, <2>1, TypeMessages DEF Try, Must, Lookup
    <3>2. QED
      BY <3>1
  <2>3. m = Try("focusNode", c.field)
    BY <1>3, <2>2, TypeMessages
  <2>4. QED
    BY <1>2, <1>3, <2>2, <2>3 DEF FieldNames
<1>4. CASE c.name = "fill"
  <2>1. n \in 1 .. 7
    BY <1>4, ScriptLength
  <2>2. n = 3
    <3>1. n # 3 => m.op # "focusNode"
      BY <1>4, <2>1, FillMessages DEF Try, Must, Lookup
    <3>2. QED
      BY <3>1
  <2>3. m = Try("focusNode", c.field)
    BY <1>4, <2>2, FillMessages
  <2>4. QED
    BY <1>2, <1>4, <2>2, <2>3 DEF FieldNames
<1>5. CASE c.name = "focus"
  <2>1. n \in 1 .. 4
    BY <1>5, ScriptLength
  <2>2. n = 3
    <3>1. n # 3 => m.op # "focusNode"
      BY <1>5, <2>1, FocusMessages DEF Try, Must, Lookup
    <3>2. QED
      BY <3>1
  <2>3. m = Try("focusNode", c.field)
    BY <1>5, <2>2, FocusMessages
  <2>4. QED
    BY <1>2, <1>5, <2>2, <2>3 DEF FieldNames
<1>6. CASE c.name = "dblclick"
  <2>1. n \in 1 .. 7
    BY <1>6, ScriptLength
  <2>2. QED
    BY <1>6, <2>1, DblclickMessages DEF Try, Must, Lookup
<1>7. CASE c.name = "hover"
  <2>1. n \in 1 .. 3
    BY <1>7, ScriptLength
  <2>2. QED
    BY <1>7, <2>1, HoverMessages DEF Try, Must, Lookup
<1>8. CASE c.name = "press"
  <2>1. n \in 1 .. 2
    BY <1>8, ScriptLength
  <2>2. QED
    BY <1>8, <2>1, PressMessages DEF Try, KeyEvent
<1>9. CASE c.name = "keyboard"
  <2>1. c.text \in Text
    BY <1>9, CommandShape, InputAssumption DEF Text
  <2>2. n \in 1 .. 2 * Len(c.text)
    BY <1>9, ScriptLength
  <2>3. m \in {Try("abort", c.text[(n + 1) \div 2])}
             \cup {KeyEvent("keyDown", c.text[(n + 1) \div 2], FALSE), KeyEvent("keyUp", c.text[(n + 1) \div 2], FALSE)}
    BY <1>9, <2>1, <2>2, KeyboardMessages
  <2>4. QED
    BY <2>3 DEF Try, KeyEvent
<1>10. CASE c.name \in Singles
  <2>1. n = 1
    <3>1. Len(Script(c)) = 1
      BY <1>10, ScriptLength
    <3>2. QED
      BY <3>1
  <2>2. m = SoleMessage(c)
    BY <1>10, <2>1, SingleMessage
  <2>3. m.op # "focusNode"
    <3> HIDE DEF m
    <3>1. QED
      BY <1>10, <2>2, SoleShape DEF Singles
  <2>4. QED
    BY <2>3
<1>11. QED
  BY <1>1, <1>3, <1>4, <1>5, <1>6, <1>7, <1>8, <1>9, <1>10 DEF FieldNames

(* The lookup is the second message, and the command ends without it. *)
LEMMA LookupSecond ==
  ASSUME NEW c \in Commands, c.name \in LookupNames
  PROVE  Script(c)[2].must /\ Names(Script(c)[2]) = c.field
<1>1. Script(c)[2] = Must("lookup", c.field)
  BY TypeMessages, FillMessages, FocusMessages, DblclickMessages, HoverMessages
     DEF LookupNames, FieldNames, Lookup
<1>2. QED
  BY <1>1 DEF Must, Names

(* A message that ends no command, alone in its script, names no selector. *)
LEMMA SoleFinds ==
  ASSUME NEW c \in Commands, c.name \in Singles, ~SoleMessage(c).must
  PROVE  Names(SoleMessage(c)) # Missing
<1>1. PICK m : m = SoleMessage(c)
  OBVIOUS
<1>2. c.name \in {"keydown", "keyup", "inserttext", "wheel", "move", "down", "up"}
  BY <1>1, SoleShape DEF Singles
<1>3. QED
  BY <1>1, <1>2, SoleShape, InputAssumption

-----------------------------------------------------------------------------
(* The steps.  The engine's quirk is that of the session, which no step changes. *)
LEMMA KeyDownSteady ==
  ASSUME session' = session
  PROVE  \A p, key, text : KeyDown(p, key, text)' = KeyDown(p, key, text)
  BY DEF KeyDown, Quirk

LEMMA GoalsSteady ==
  ASSUME session' = session, NEW p, NEW c, NEW n
  PROVE  Goals(p, c, n)' = Goals(p, c, n)
<1>1. Effect(p, c)' = Effect(p, c)
  BY KeyDownSteady DEF Effect
<1>2. FieldGoals(p, c, n)' = FieldGoals(p, c, n)
  BY <1>1 DEF FieldGoals
<1>3. DblclickGoals(p, c, n)' = DblclickGoals(p, c, n)
  BY <1>1 DEF DblclickGoals
<1>4. HoverGoals(p, c, n)' = HoverGoals(p, c, n)
  BY <1>1 DEF HoverGoals
<1>5. PressGoals(p, c, n)' = PressGoals(p, c, n)
  BY <1>1, KeyDownSteady DEF PressGoals
<1>6. OneGoal(p, c)' = OneGoal(p, c)
  BY <1>1 DEF OneGoal
<1>7. QED
  BY <1>2, <1>3, <1>4, <1>5, <1>6 DEF Goals

LEMMA LeadsSteady ==
  ASSUME session' = session, NEW p, NEW messages, NEW goals, Leads(p, messages, goals)
  PROVE  Leads(p, messages, goals)'
<1>1. \A q, m : Applied(q, m)' = Applied(q, m)
  BY KeyDownSteady DEF Applied
<1>2. \A q, m, r : Turns(q, m, r)' => Turns(q, m, r)
  BY <1>1 DEF Turns
<1>3. \A P : Chain(p, messages, P)' => Chain(p, messages, P)
  BY <1>2 DEF Chain
<1>4. QED
  BY <1>3 DEF Leads

LEMMA CourseSteady ==
  ASSUME session' = session,
         NEW p, NEW messages, NEW a, NEW c, NEW n, Leads(p, messages, Goals(a, c, n)),
         page' = p, toEngine' = messages, asked' = a, command' = c, Sent' = n
  PROVE  OnCourse'
<1>1. Leads(p, messages, Goals(a, c, n))'
  <2>1. PICK goals : goals = Goals(a, c, n)
    OBVIOUS
  <2>2. Leads(p, messages, goals)'
    BY <2>1, LeadsSteady
  <2>3. goals = Goals(a, c, n)'
    BY <2>1, GoalsSteady
  <2>4. QED
    BY <2>2, <2>3
<1>2. QED
  BY <1>1 DEF OnCourse

LEMMA InitKeeps ==
  ASSUME Init
  PROVE  IInv
<1>1. BlankPage \in Page
  BY DEF BlankPage, Page, Points
<1>2. TypeOK
  <2>1. step \in 1 .. IF command = NoCommand THEN 1 ELSE Len(Script(command))
    BY DEF Init
  <2>2. runs \in 0 .. MaxCommands
    BY InputAssumption DEF Init
  <2>3. session \in Sessions /\ command \in Commands \cup {NoCommand} /\ waiting \in BOOLEAN
    BY DEF Init
  <2>4. answer \in {"ok", "error"} /\ page \in Page /\ asked \in Page /\ astray \in BOOLEAN
    BY <1>1 DEF Init
  <2>5. told \in Readings \cup {Nothing} /\ printed \in (Readings \X Readings) \cup {Nothing}
    BY DEF Init
  <2>6. QED
    BY <2>1, <2>2, <2>3, <2>4, <2>5 DEF TypeOK, Readings, Text
<1>3. toEngine \in Seq(Messages)
  BY DEF Init
<1>4. OnCourse
  <2>1. Sent = 0 /\ toEngine = << >> /\ page = BlankPage /\ asked = BlankPage
    BY DEF Init, Sent
  <2>2. Goals(BlankPage, command, 0) = {BlankPage}
    BY DEF Goals
  <2>3. Leads(BlankPage, << >>, {BlankPage})
    BY <1>1, LeadsNow, SameIsEquivalence
  <2>4. QED
    BY <2>1, <2>2, <2>3 DEF OnCourse
<1>5. LastIsOwn /\ AnswerIsOwn /\ Placed /\ PrintedAsAsked
  BY DEF Init, LastIsOwn, AnswerIsOwn, Placed, PrintedAsAsked
<1>6. QED
  BY <1>2, <1>3, <1>4, <1>5 DEF IInv

(* Between two commands nothing has been sent of the next. *)
LEMMA RunKeeps ==
  ASSUME IInv, Run
  PROVE  IInv'
<1>1. command = NoCommand /\ step = 1 /\ ~waiting /\ Sent = 0
  BY DEF IInv, TypeOK, Run, Placed, Sent
<1>2. command' \in Commands /\ step' = 1 /\ waiting' = waiting /\ Sent' = 0 /\ runs' \in 0 .. MaxCommands
  BY <1>1, InputAssumption DEF Run, InUse, Sent, IInv, TypeOK
<1>3. Len(Script(command')) \in Nat \ {0}
  BY <1>2, ScriptLength
<1>4. /\ session' = session /\ toEngine' = toEngine /\ answer' = answer /\ told' = told
      /\ page' = page /\ asked' = asked /\ astray' = astray /\ printed' = printed
  BY DEF Run
<1>5. TypeOK'
  BY <1>2, <1>3, <1>4 DEF IInv, TypeOK
<1>6. OnCourse'
  <2>1. PICK c : c = command'
    OBVIOUS
  <2>2. PICK a : a = asked
    OBVIOUS
  <2>3. Goals(asked, command, Sent) = {a} /\ Goals(a, c, 0) = {a}
    BY <1>1, <2>2 DEF Goals
  <2>4. Leads(page, toEngine, Goals(a, c, 0))
    BY <2>3 DEF IInv, OnCourse
  <2>5. PICK p, messages : p = page /\ messages = toEngine
    OBVIOUS
  <2>6. Leads(p, messages, Goals(a, c, 0))
    BY <2>4, <2>5
  <2>7. page' = p /\ toEngine' = messages /\ asked' = a /\ command' = c /\ Sent' = 0 /\ session' = session
    BY <1>2, <1>4, <2>1, <2>2, <2>5
  <2>8. QED
    BY <2>6, <2>7, CourseSteady
<1>7. LastIsOwn' /\ AnswerIsOwn' /\ PrintedAsAsked'
  BY <1>1, <1>2, <1>4 DEF LastIsOwn, AnswerIsOwn, IInv, PrintedAsAsked
<1>8. Placed'
  <2>1. Found(command', 1)
    BY DEF Found
  <2>2. ASSUME command'.name = "keyboard" PROVE command'.text \in Text
    BY <1>2, <2>2, CommandShape, InputAssumption DEF Text
  <2>3. Sendable(command', 0)
    BY <2>2 DEF Sendable, Text
  <2>4. ~waiting' /\ step' = 1 /\ Sent' = 0
    BY <1>1, <1>2
  <2>5. QED
    BY <2>1, <2>3, <2>4 DEF Placed
<1>9. QED
  BY <1>4, <1>5, <1>6, <1>7, <1>8 DEF IInv

(* The engine handles what was sent first, and the rest stays on course. *)
LEMMA HandleKeeps ==
  ASSUME IInv, Handle
  PROVE  IInv'
<1>1. PICK m \in Messages : m = Head(toEngine)
  BY HeadTailProperties, EmptySeq DEF Handle, IInv
<1>2. PICK p \in Page : p = page
  BY DEF IInv, TypeOK
<1>3. /\ toEngine \in Seq(Messages) /\ toEngine # << >> /\ toEngine' = Tail(toEngine)
      /\ session' = session /\ command' = command /\ step' = step /\ waiting' = waiting
      /\ asked' = asked /\ astray' = astray /\ printed' = printed /\ runs' = runs
  BY DEF Handle, IInv
<1>4. PICK q : q = page'
  OBVIOUS
<1>5. \/ Names(m) # Missing /\ q = Applied(p, m) /\ answer' = "ok"
      \/ Names(m) = Missing /\ answer' = "error" /\ q = p
      \/ m.op = "focusNode" /\ answer' = "error" /\ q = p
  BY <1>1, <1>2, <1>4 DEF Handle
<1>6. q \in Page /\ Turns(p, m, q) /\ answer' \in {"ok", "error"}
  BY <1>5, AppliedTyped, SameIsEquivalence DEF Turns
<1>7. told' = IF m.op \in {"read", "store"} /\ Names(m) # Missing THEN Told(q, Names(m)) ELSE Nothing
  BY <1>1, <1>4 DEF Handle
<1>8. told' \in Readings \cup {Nothing}
  <2>1. m.op \in {"read", "store"} /\ Names(m) # Missing => Names(m) \in Fields \cup Areas
    BY MessageShape DEF Names, OrMissing
  <2>2. QED
    BY <1>6, <1>7, <2>1, ToldTyped
<1>9. TypeOK'
  BY <1>3, <1>4, <1>6, <1>8 DEF IInv, TypeOK, Readings, Text
<1>10. toEngine' \in Seq(Messages)
  BY <1>3, HeadTailProperties
<1>11. OnCourse'
  <2>1. PICK messages, a, c, n : messages = toEngine /\ a = asked /\ c = command /\ n = Sent
    OBVIOUS
  <2>2. Leads(p, messages, Goals(a, c, n))
    BY <1>2, <2>1 DEF IInv, OnCourse
  <2>3. Leads(q, Tail(messages), Goals(a, c, n))
    BY <1>1, <1>3, <1>6, <2>1, <2>2, LeadsOn
  <2>4. page' = q /\ toEngine' = Tail(messages) /\ asked' = a /\ command' = c /\ Sent' = n
    BY <1>3, <1>4, <2>1 DEF Sent
  <2>5. QED
    BY <1>3, <2>3, <2>4, CourseSteady
<1>12. Message' = Message /\ Sent' = Sent
  BY <1>3 DEF Message, Sent
<1>13. /\ Len(toEngine) \in Nat /\ Len(toEngine) >= 1 /\ Len(toEngine') = Len(toEngine) - 1
       /\ \A i \in 1 .. Len(toEngine) - 1 : toEngine'[i] = toEngine[i + 1]
       /\ Head(toEngine) = toEngine[1]
  BY <1>3, HeadTailProperties, EmptySeq
<1>14. LastIsOwn'
  <2>1. SUFFICES ASSUME waiting, toEngine' # << >>
                 PROVE  toEngine'[Len(toEngine')] = Message
    BY <1>3, <1>12 DEF LastIsOwn
  <2>2. toEngine[Len(toEngine)] = Message
    BY <1>3, <2>1 DEF IInv, LastIsOwn
  <2>3. Len(toEngine') # 0
    BY <1>10, <2>1, EmptySeq
  <2>4. QED
    BY <1>13, <2>2, <2>3
<1>15. AnswerIsOwn'
  <2>1. SUFFICES ASSUME waiting, toEngine' = << >>
        PROVE  /\ answer' = "ok" => Names(Message) # Missing /\ (Message.op = "focusNode" => q.focus = Message.on)
               /\ answer' = "error" => Names(Message) = Missing \/ Message.op = "focusNode"
               /\ told' = IF Message.op \in {"read", "store"} /\ Names(Message) # Missing
                          THEN Told(q, Names(Message)) ELSE Nothing
    BY <1>3, <1>4, <1>12 DEF AnswerIsOwn
  <2>2. Len(toEngine) = 1
    BY <1>13, <2>1
  <2>3. m = Message
    BY <1>1, <1>3, <1>13, <2>1, <2>2 DEF IInv, LastIsOwn
  <2>4. m.op = "focusNode" /\ q = Applied(p, m) => q.focus = m.on
    BY DEF Applied, Page
  <2>5. QED
    BY <1>5, <1>7, <2>3, <2>4
<1>16. Placed' /\ PrintedAsAsked'
  BY <1>3, <1>12 DEF IInv, Placed, PrintedAsAsked
<1>17. QED
  BY <1>9, <1>10, <1>11, <1>14, <1>15, <1>16 DEF IInv

(* A timer of the page changes nothing but an outline. *)
LEMMA RestoreKeeps ==
  ASSUME IInv, Restore
  PROVE  IInv'
<1>1. PICK p \in Page : p = page
  BY DEF IInv, TypeOK
<1>2. PICK q : q = page'
  OBVIOUS
<1>3. /\ session' = session /\ command' = command /\ step' = step /\ waiting' = waiting
      /\ toEngine' = toEngine /\ answer' = answer /\ told' = told
      /\ asked' = asked /\ astray' = astray /\ printed' = printed /\ runs' = runs
  BY DEF Restore
<1>4. q \in Page /\ Same(p, q) /\ p.focus = q.focus
  <2>1. p.toRestore # << >> /\ p.toRestore \in Seq([field : Fields, red : BOOLEAN])
    BY <1>1 DEF Restore, Page
  <2>2. PICK first \in [field : Fields, red : BOOLEAN] : first = Head(p.toRestore)
    BY <2>1, HeadTailProperties, EmptySeq
  <2>3. q = [p EXCEPT !.red[first.field] = first.red, !.toRestore = Tail(@)]
    BY <1>1, <1>2, <2>2 DEF Restore
  <2>4. PICK red \in [Fields -> BOOLEAN] : red = [p.red EXCEPT ![first.field] = first.red]
    BY <2>2 DEF Page
  <2>5. PICK rest \in Seq([field : Fields, red : BOOLEAN]) : rest = Tail(p.toRestore)
    BY <2>1, HeadTailProperties
  <2>6. q = [p EXCEPT !.red = red, !.toRestore = rest]
    BY <2>3, <2>4, <2>5 DEF Page
  <2>7. QED
    BY <2>6 DEF Page, Same
<1>5. TypeOK'
  BY <1>2, <1>3, <1>4 DEF IInv, TypeOK
<1>6. OnCourse'
  <2>1. PICK messages, a, c, n : messages = toEngine /\ a = asked /\ c = command /\ n = Sent
    OBVIOUS
  <2>2. Leads(p, messages, Goals(a, c, n))
    BY <1>1, <2>1 DEF IInv, OnCourse
  <2>3. Leads(q, messages, Goals(a, c, n))
    BY <1>4, <2>2, LeadsFromSame
  <2>4. page' = q /\ toEngine' = messages /\ asked' = a /\ command' = c /\ Sent' = n
    BY <1>2, <1>3, <2>1 DEF Sent
  <2>5. QED
    BY <1>3, <2>3, <2>4, CourseSteady
<1>7. Message' = Message /\ Sent' = Sent
  BY <1>3 DEF Message, Sent
<1>8. Told(q, Names(Message)) = Told(p, Names(Message))
  BY <1>4, ToldSame
<1>9. AnswerIsOwn'
  <2>1. SUFFICES ASSUME waiting, toEngine = << >>
        PROVE  /\ answer = "ok" => Names(Message) # Missing /\ (Message.op = "focusNode" => q.focus = Message.on)
               /\ answer = "error" => Names(Message) = Missing \/ Message.op = "focusNode"
               /\ told = IF Message.op \in {"read", "store"} /\ Names(Message) # Missing
                         THEN Told(q, Names(Message)) ELSE Nothing
    BY <1>2, <1>3, <1>7 DEF AnswerIsOwn
  <2>2. QED
    BY <1>1, <1>4, <1>8, <2>1 DEF IInv, AnswerIsOwn
<1>10. LastIsOwn' /\ Placed' /\ PrintedAsAsked'
  BY <1>3, <1>7 DEF IInv, LastIsOwn, Placed, PrintedAsAsked
<1>11. QED
  BY <1>3, <1>5, <1>6, <1>9, <1>10 DEF IInv

(* A command that ends asks for the page that its messages lead to. *)
LEMMA EndedKeeps ==
  ASSUME IInv, command # NoCommand, session' = session, toEngine' = toEngine,
         NEW result \in Page, NEW shown, Ended(result, shown), Leads(page, toEngine, {result}),
         shown # Nothing => shown \in Readings /\ shown = Told(result, command.field)
  PROVE  IInv'
<1>1. /\ command' = NoCommand /\ step' = 1 /\ waiting' = FALSE /\ asked' = result
      /\ answer' = answer /\ told' = told /\ page' = page /\ runs' = runs
      /\ printed' = IF shown = Nothing THEN Nothing ELSE <<shown, Told(result, command.field)>>
  BY DEF Ended
<1>a. astray' \in BOOLEAN
  <2>1. astray' = (astray \/ Effect(asked, command) # Documented(asked, command))
    BY DEF Ended
  <2>2. QED
    BY <2>1
<1>2. printed' \in (Readings \X Readings) \cup {Nothing} /\ (printed' # Nothing => printed'[1] = printed'[2])
  <2>1. CASE shown = Nothing
    BY <1>1, <2>1
  <2>2. CASE shown # Nothing
    <3>1. printed' = <<shown, shown>> /\ shown \in Readings
      BY <1>1, <2>2
    <3>2. QED
      BY <3>1
  <2>3. QED
    BY <2>1, <2>2
<1>3. TypeOK'
  <2>1. step' \in 1 .. IF command' = NoCommand THEN 1 ELSE Len(Script(command'))
    BY <1>1
  <2>2. runs' \in 0 .. MaxCommands /\ session' \in Sessions /\ answer' \in {"ok", "error"}
        /\ page' \in Page /\ asked' \in Page
    BY <1>1 DEF IInv, TypeOK
  <2>3. command' \in Commands \cup {NoCommand} /\ waiting' \in BOOLEAN
    BY <1>1
  <2>4. told' \in Readings \cup {Nothing}
    BY <1>1 DEF IInv, TypeOK, Readings, Text
  <2>5. QED
    BY <1>2, <1>a, <2>1, <2>2, <2>3, <2>4 DEF TypeOK, Readings, Text
<1>4. OnCourse'
  <2>1. PICK p, messages, c : p = page /\ messages = toEngine /\ c = NoCommand
    OBVIOUS
  <2>2. Goals(result, c, 0) = {result}
    BY DEF Goals
  <2>3. Leads(p, messages, Goals(result, c, 0))
    BY <2>1, <2>2
  <2>4. page' = p /\ toEngine' = messages /\ asked' = result /\ command' = c /\ Sent' = 0
    BY <1>1, <2>1 DEF Sent
  <2>5. QED
    BY <2>3, <2>4, CourseSteady
<1>5. LastIsOwn' /\ AnswerIsOwn' /\ Placed' /\ PrintedAsAsked'
  BY <1>1, <1>2 DEF LastIsOwn, AnswerIsOwn, Placed, PrintedAsAsked
<1>6. QED
  BY <1>3, <1>4, <1>5 DEF IInv

(* The next message goes out, or a wider character ends the program. *)
LEMMA SendKeeps ==
  ASSUME IInv, Send
  PROVE  IInv'
<1>1. PICK c \in Commands : c = command /\ c # NoCommand
  BY DEF IInv, TypeOK, Send
<1>2. PICK n \in 1 .. Len(Script(c)) : n = step
  BY <1>1 DEF IInv, TypeOK
<1>3. PICK m : m = Script(c)[n] /\ m = Message
  BY <1>1, <1>2 DEF Message
<1>4. ~waiting /\ session' = session /\ Sent = n - 1 /\ Found(c, n) /\ Sendable(c, n - 1) /\ n \in Nat
  <2>1. ~waiting /\ Sent = n - 1
    BY <1>2 DEF Send, Sent
  <2>2. Found(c, n) /\ Sendable(c, n - 1)
    BY <1>1, <1>2, <2>1 DEF IInv, Placed
  <2>3. n \in Nat
    BY ScriptLength
  <2>4. QED
    BY <2>1, <2>2, <2>3 DEF Send
<1>5. PICK p \in Page, a \in Page, messages \in Seq(Messages) : p = page /\ a = asked /\ messages = toEngine
  BY DEF IInv, TypeOK
<1>6. Leads(p, messages, Goals(a, c, n - 1))
  BY <1>1, <1>4, <1>5 DEF IInv, OnCourse
<1>7. CASE m.op = "abort"
  <2>1. Ended(Effect(a, c), Nothing) /\ toEngine' = toEngine
    BY <1>1, <1>2, <1>3, <1>5, <1>7 DEF Send
  <2>2. Effect(a, c) \in Page /\ \A g \in Goals(a, c, n - 1) : Same(g, Effect(a, c))
    BY <1>3, <1>4, <1>7, AbortGoal
  <2>3. PICK result \in Page : result = Effect(a, c)
    BY <2>2
  <2>4. Leads(p, messages, {result})
    BY <1>6, <2>2, <2>3, LeadsToSame
  <2>5. Leads(page, toEngine, {result}) /\ Ended(result, Nothing)
    BY <1>5, <2>1, <2>3, <2>4
  <2>6. QED
    BY <1>1, <1>4, <2>1, <2>5, EndedKeeps
<1>8. CASE m.op # "abort"
  <2>1. /\ toEngine' = Append(messages, m) /\ waiting' = TRUE
        /\ command' = command /\ step' = step /\ answer' = answer /\ told' = told
        /\ page' = page /\ asked' = asked /\ astray' = astray /\ printed' = printed /\ runs' = runs
    BY <1>1, <1>2, <1>3, <1>5, <1>8 DEF Send
  <2>2. Sendable(c, n)
    BY <1>3, <1>4, <1>8, SendableNext
  <2>3. m \in Messages
    BY <1>3, <1>4, <2>2, ScriptTyped
  <2>4. Sent' = n /\ Message' = Message
    BY <1>2, <2>1 DEF Sent, Message
  <2>5. toEngine' \in Seq(Messages) /\ toEngine' # << >> /\ toEngine'[Len(toEngine')] = m
    <3>1. /\ Append(messages, m) \in Seq(Messages) /\ Len(Append(messages, m)) = Len(messages) + 1
          /\ Append(messages, m)[Len(messages) + 1] = m /\ Len(messages) \in Nat
      BY <2>3, AppendProperties
    <3>2. Append(messages, m) # << >>
      BY <3>1, EmptySeq
    <3>3. QED
      BY <2>1, <3>1, <3>2
  <2>6. TypeOK'
    BY <1>4, <2>1 DEF IInv, TypeOK
  <2>7. OnCourse'
    <3>1. Leads(p, Append(messages, m), Goals(a, c, n))
      BY <1>3, <1>4, <1>6, <2>2, LeadsFurther
    <3>2. PICK more : more = Append(messages, m)
      OBVIOUS
    <3>3. Leads(p, more, Goals(a, c, n))
      BY <3>1, <3>2
    <3>4. page' = p /\ toEngine' = more /\ asked' = a /\ command' = c /\ Sent' = n
      BY <1>1, <1>5, <2>1, <2>4, <3>2
    <3>5. QED
      BY <1>4, <3>3, <3>4, CourseSteady
  <2>8. LastIsOwn' /\ AnswerIsOwn'
    BY <1>3, <2>1, <2>4, <2>5 DEF LastIsOwn, AnswerIsOwn
  <2>9. Placed' /\ PrintedAsAsked'
    BY <1>1, <1>2, <1>4, <2>1, <2>2, <2>4 DEF Placed, IInv, PrintedAsAsked
  <2>10. QED
    BY <2>5, <2>6, <2>7, <2>8, <2>9 DEF IInv
<1>9. QED
  BY <1>7, <1>8

(* What an answer tells of the message that is waited for. *)
LEMMA AdvanceKeeps ==
  ASSUME IInv, waiting, NEW outcome, Advance(outcome),
         outcome = "late" \/ (toEngine = << >> /\ outcome = answer)
  PROVE  IInv'
<1>1. PICK c \in Commands : c = command /\ c # NoCommand
  BY DEF IInv, TypeOK, Placed
<1>2. PICK n \in 1 .. Len(Script(c)) : n = step
  BY <1>1 DEF IInv, TypeOK
<1>3. PICK m : m = Script(c)[n] /\ m = Message
  BY <1>1, <1>2 DEF Message
<1>4. Sent = n /\ Found(c, n) /\ Sendable(c, n) /\ n \in Nat /\ n >= 1
  <2>1. Sent = n
    BY <1>2 DEF Sent
  <2>2. Found(c, n) /\ Sendable(c, n)
    BY <1>1, <1>2, <2>1 DEF IInv, Placed
  <2>3. n \in Nat /\ n >= 1
    BY ScriptLength
  <2>4. QED
    BY <2>1, <2>2, <2>3
<1>5. PICK p \in Page, a \in Page, messages \in Seq(Messages) : p = page /\ a = asked /\ messages = toEngine
  BY DEF IInv, TypeOK
<1>6. Leads(p, messages, Goals(a, c, n))
  BY <1>1, <1>4, <1>5 DEF IInv, OnCourse
<1>7. session' = session /\ toEngine' = toEngine
  BY DEF Advance
<1>8. ASSUME outcome # "late"
      PROVE  /\ messages = << >> /\ outcome \in {"ok", "error"}
             /\ outcome = "ok" => Names(m) # Missing /\ (m.op = "focusNode" => p.focus = m.on)
             /\ outcome = "error" => Names(m) = Missing \/ m.op = "focusNode"
             /\ told = IF m.op \in {"read", "store"} /\ Names(m) # Missing THEN Told(p, Names(m)) ELSE Nothing
  BY <1>3, <1>5, <1>8 DEF IInv, AnswerIsOwn, TypeOK
<1>9. PICK next : next = IF m.op = "focusNode" /\ outcome = "ok" THEN n + 2 ELSE n + 1
  OBVIOUS
<1>10. CASE outcome # "ok" /\ m.must
  <2>1. Ended(FailedEffect(a, c, m, outcome), Nothing)
    BY <1>1, <1>2, <1>3, <1>5, <1>10 DEF Advance
  <2>2. outcome = "late" \/ Names(m) = Missing
    BY <1>3, <1>8, <1>10, FocusNodeThird
  <2>3. Goals(a, c, n) = {FailedEffect(a, c, m, outcome)}
    <3>1. m = Script(c)[n] /\ m.must = TRUE
      <4>1. m \in Messages
        BY <1>3, <1>4, ScriptTyped
      <4>2. m.must \in BOOLEAN
        BY <4>1 DEF Messages
      <4>3. QED
        BY <1>3, <1>10, <4>2
    <3>2. \A o : o = "late" \/ Names(m) = Missing => Goals(a, c, n) = {FailedEffect(a, c, m, o)}
      <4>1. Found(c, n) /\ Sendable(c, n) /\ m = Script(c)[n] /\ m.must = TRUE
        BY <1>4, <3>1
      <4>2. \A q \in Page : \A d \in Commands : \A k \in 1 .. Len(Script(d)) : Found(d, k) => (Sendable(d, k) =>
              \A x : x = Script(d)[k] => (x.must = TRUE => 
                \A o : o = "late" \/ Names(x) = Missing => Goals(q, d, k) = {FailedEffect(q, d, x, o)}))
        BY FailGoal
      <4>3. Found(c, n) => (Sendable(c, n) =>
              \A x : x = Script(c)[n] => (x.must = TRUE => 
                \A o : o = "late" \/ Names(x) = Missing => Goals(a, c, n) = {FailedEffect(a, c, x, o)}))
        BY <4>2, Zenon
      <4>4. QED
        BY <4>1, <4>3, Zenon
    <3>3. QED
      BY <2>2, <3>2
  <2>4. Goals(a, c, n) \subseteq Page
    <3>1. n \in 0 .. Len(Script(c))
      BY <1>4, ScriptLength
    <3>2. QED
      BY <1>4, <3>1, GoalsTyped
  <2>5. PICK result \in Page : result = FailedEffect(a, c, m, outcome)
    BY <2>3, <2>4
  <2>6. Leads(page, toEngine, {result}) /\ Ended(result, Nothing)
    BY <1>5, <1>6, <2>1, <2>3, <2>5
  <2>7. QED
    BY <1>1, <1>7, <2>6, EndedKeeps
<1>11. CASE (outcome = "ok" \/ ~m.must) /\ next > Len(Script(c))
  <2>1. Ended(Effect(a, c), Shown(outcome))
    BY <1>1, <1>2, <1>3, <1>5, <1>9, <1>11 DEF Advance
  <2>2. Effect(a, c) \in Page /\ Leads(p, messages, {Effect(a, c)})
    <3>1. CASE m.op = "focusNode" /\ outcome = "ok"
      <4>1. c.name \in FieldNames /\ n = 3 /\ m.on = c.field
        BY <1>3, <3>1, FocusNodeThird
      <4>2. c.name = "focus"
        <5>1. next = 5
          <6>1. next = n + 2
            BY <1>9, <3>1
          <6>2. QED
            BY <4>1, <6>1
        <5>2. Len(Script(c)) # 6 /\ Len(Script(c)) # 7
          <6>1. 5 > Len(Script(c))
            BY <1>11, <5>1
          <6>2. ~(5 > 6) /\ ~(5 > 7)
            OBVIOUS
          <6>3. QED
            BY <6>1, <6>2
        <5>3. QED
          BY <4>1, <5>2, ScriptLength DEF FieldNames
      <4>3. messages = << >> /\ p.focus = c.field
        BY <1>8, <3>1, <4>1
      <4>4. PICK g \in Goals(a, c, 3) : Same(p, g)
        BY <1>6, <4>1, <4>3, LeadsNow
      <4>5. Effect(a, c) = Focused(a, c.field) /\ Same(p, Focused(a, c.field))
        BY <4>1, <4>2, <4>3, <4>4, FocusGoal
      <4>6. Effect(a, c) \in Page
        <5>1. c.field \in Points
          BY <4>3 DEF Page
        <5>2. QED
          BY <4>5, <5>1 DEF Focused, Page
      <4>7. QED
        BY <4>3, <4>5, <4>6, LeadsNow
    <3>2. CASE ~(m.op = "focusNode" /\ outcome = "ok")
      <4>1. n = Len(Script(c))
        BY <1>4, <1>9, <1>11, <3>2, ScriptLength
      <4>2. ASSUME c.name \in Singles PROVE Names(SoleMessage(c)) # Missing
        <5>1. m = SoleMessage(c)
          <6>1. PICK sole : sole = SoleMessage(c)
            OBVIOUS
          <6>2. Script(c) = <<sole>>
            BY <4>2, <6>1, SingleMessage
          <6>3. Len(Script(c)) = 1 /\ Script(c)[1] = sole
            BY <6>2
          <6>4. n = 1
            BY <4>1, <6>3
          <6>5. QED
            BY <1>3, <6>1, <6>3, <6>4
        <5>2. CASE outcome = "ok"
          BY <1>8, <5>1, <5>2
        <5>3. CASE ~m.must
          BY <4>2, <5>1, <5>3, SoleFinds
        <5>4. QED
          BY <1>11, <5>2, <5>3
      <4>3. Goals(a, c, n) = {Effect(a, c)}
        BY <1>4, <4>1, <4>2, EndGoal
      <4>4. Goals(a, c, n) \subseteq Page
        <5>1. n \in 0 .. Len(Script(c))
          BY <1>4, ScriptLength
        <5>2. QED
          BY <1>4, <5>1, GoalsTyped
      <4>5. QED
        BY <1>6, <4>3, <4>4
    <3>3. QED
      BY <3>1, <3>2
  <2>3. PICK result \in Page : result = Effect(a, c)
    BY <2>2
  <2>4. Leads(page, toEngine, {result}) /\ Ended(result, Shown(outcome))
    BY <1>5, <2>1, <2>2, <2>3
  <2>5. ASSUME Shown(outcome) # Nothing
        PROVE  Shown(outcome) \in Readings /\ Shown(outcome) = Told(result, command.field)
    <3>1. outcome = "ok" /\ Shown(outcome) = told
      BY <2>5 DEF Shown
    <3>2. told \in Readings
      BY <2>5, <3>1 DEF IInv, TypeOK, Readings, Text
    <3>3. m.op \in {"read", "store"} /\ told = Told(p, Names(m)) /\ messages = << >>
      BY <1>8, <2>5, <3>1
    <3>4. Names(m) = c.field
      BY <1>3, <1>4, <3>3, ReadsOwn
    <3>5. Same(p, result)
      BY <2>2, <2>3, <3>3, LeadsNow
    <3>6. QED
      BY <1>1, <3>1, <3>2, <3>3, <3>4, <3>5, ToldSame
  <2>6. QED
    BY <1>1, <1>7, <2>4, <2>5, EndedKeeps
<1>12. CASE (outcome = "ok" \/ ~m.must) /\ ~(next > Len(Script(c)))
  <2>1. /\ step' = next /\ waiting' = FALSE /\ command' = command /\ answer' = answer /\ told' = told
        /\ page' = page /\ asked' = asked /\ astray' = astray /\ printed' = printed /\ runs' = runs
    BY <1>1, <1>2, <1>3, <1>9, <1>12 DEF Advance
  <2>2. next \in 1 .. Len(Script(c)) /\ next - 1 \in Nat
    BY <1>4, <1>9, <1>12, ScriptLength
  <2>3. Sent' = next - 1
    BY <2>1 DEF Sent
  <2>4. TypeOK'
    BY <1>1, <1>7, <2>1, <2>2 DEF IInv, TypeOK
  <2>5. Leads(p, messages, Goals(a, c, next - 1)) /\ Sendable(c, next - 1) /\ Found(c, next)
    <3>1. CASE m.op = "focusNode" /\ outcome = "ok"
      <4>1. c.name \in FieldNames /\ n = 3 /\ m.on = c.field /\ next = 5
        <5>1. c.name \in FieldNames /\ n = 3 /\ m.on = c.field
          BY <1>3, <3>1, FocusNodeThird
        <5>2. next = n + 2
          BY <1>9, <3>1
        <5>3. QED
          BY <5>1, <5>2
      <4>2. messages = << >> /\ p.focus = c.field
        BY <1>8, <3>1, <4>1
      <4>3. PICK g \in Goals(a, c, 3) : Same(p, g)
        BY <1>6, <4>1, <4>2, LeadsNow
      <4>4. Goals(a, c, 4) = {Focused(a, c.field)} /\ Same(p, Focused(a, c.field))
        BY <4>1, <4>2, <4>3, FocusGoal
      <4>5. Leads(p, messages, Goals(a, c, 4))
        BY <4>2, <4>4, LeadsNow
      <4>6. Sendable(c, 4) /\ Found(c, 5)
        BY <1>4, <4>1 DEF Sendable, Found, FieldNames
      <4>7. QED
        BY <4>1, <4>5, <4>6
    <3>2. CASE ~(m.op = "focusNode" /\ outcome = "ok")
      <4>1. next = n + 1 /\ next - 1 = n
        BY <1>4, <1>9, <3>2
      <4>2. ASSUME c.name \in LookupNames, next > 2 PROVE c.field # Missing
        <5>1. CASE n > 2
          BY <1>4, <4>2, <5>1 DEF Found
        <5>2. CASE n = 2
          <6>1. m.must /\ Names(m) = c.field
            BY <1>3, <4>2, <5>2, LookupSecond
          <6>2. outcome = "ok" /\ outcome # "late"
            BY <1>12, <6>1
          <6>3. QED
            BY <1>8, <6>1, <6>2
        <5>3. QED
          BY <1>4, <4>1, <4>2, <5>1, <5>2
      <4>3. Found(c, next)
        BY <4>2 DEF Found
      <4>4. QED
        BY <1>4, <1>6, <4>1, <4>3
    <3>3. QED
      BY <3>1, <3>2
  <2>6. OnCourse'
    <3>1. PICK k : k = next - 1
      OBVIOUS
    <3>2. Leads(p, messages, Goals(a, c, k))
      BY <2>5, <3>1
    <3>3. page' = p /\ toEngine' = messages /\ asked' = a /\ command' = c /\ Sent' = k
      BY <1>1, <1>5, <1>7, <2>1, <2>3, <3>1
    <3>4. QED
      BY <1>7, <3>2, <3>3, CourseSteady
  <2>7. Placed'
    BY <1>1, <2>1, <2>3, <2>5 DEF Placed
  <2>8. LastIsOwn' /\ AnswerIsOwn' /\ PrintedAsAsked'
    BY <2>1 DEF LastIsOwn, AnswerIsOwn, PrintedAsAsked, IInv
  <2>9. QED
    BY <1>7, <2>4, <2>6, <2>7, <2>8 DEF IInv
<1>13. QED
  BY <1>10, <1>11, <1>12

LEMMA NextKeeps ==
  ASSUME IInv, [Next]_vars
  PROVE  IInv'
<1>1. CASE Run
  BY <1>1, RunKeeps
<1>2. CASE Send
  BY <1>2, SendKeeps
<1>3. CASE Reply
  BY <1>3, AdvanceKeeps DEF Reply
<1>4. CASE Timeout
  BY <1>4, AdvanceKeeps DEF Timeout
<1>5. CASE Handle
  BY <1>5, HandleKeeps
<1>6. CASE Restore
  BY <1>6, RestoreKeeps
<1>7. CASE UNCHANGED vars
  <2>1. /\ session' = session /\ command' = command /\ step' = step /\ waiting' = waiting
        /\ toEngine' = toEngine /\ answer' = answer /\ told' = told
        /\ page' = page /\ asked' = asked /\ astray' = astray /\ printed' = printed /\ runs' = runs
    BY <1>7 DEF vars
  <2>2. Message' = Message /\ Sent' = Sent
    BY <2>1 DEF Message, Sent
  <2>3. TypeOK'
    BY <2>1 DEF IInv, TypeOK
  <2>4. OnCourse'
    <3>1. PICK p, messages, a, c, n :
            p = page /\ messages = toEngine /\ a = asked /\ c = command /\ n = Sent
      OBVIOUS
    <3>2. Leads(p, messages, Goals(a, c, n))
      BY <3>1 DEF IInv, OnCourse
    <3>3. page' = p /\ toEngine' = messages /\ asked' = a /\ command' = c /\ Sent' = n
      BY <2>1, <2>2, <3>1
    <3>4. QED
      BY <2>1, <3>2, <3>3, CourseSteady
  <2>5. LastIsOwn' /\ AnswerIsOwn'
    BY <2>1, <2>2 DEF IInv, LastIsOwn, AnswerIsOwn
  <2>6. Placed' /\ PrintedAsAsked'
    BY <2>1, <2>2 DEF IInv, Placed, PrintedAsAsked
  <2>7. QED
    BY <2>1, <2>3, <2>4, <2>5, <2>6 DEF IInv
<1>8. QED
  BY <1>1, <1>2, <1>3, <1>4, <1>5, <1>6, <1>7 DEF Next

(* The messages on their way lead to the page that is asked for, the answer waited for is
   the own one, and a command got past its lookup only with a field. *)
THEOREM CourseIsKept == Spec => []IInv
<1>1. Init => IInv
  BY InitKeeps
<1>2. IInv /\ [Next]_vars => IInv'
  BY NextKeeps
<1>3. QED
  BY <1>1, <1>2, PTL DEF Spec

(* Every variable keeps its type: no script is run past its end, and the page stays a page
   whatever is handled. *)
THEOREM TypeCorrect == Spec => []TypeOK
<1>1. IInv => TypeOK
  BY DEF IInv
<1>2. QED
  BY <1>1, CourseIsKept, PTL

(* What a command prints of a field is what the commands so far have made of it, however many
   waits before timed out: it never takes the answer to an earlier message for its own. *)
THEOREM PrintedCorrect == Spec => []PrintedAsAsked
<1>1. IInv => PrintedAsAsked
  BY DEF IInv
<1>2. QED
  BY <1>1, CourseIsKept, PTL

-----------------------------------------------------------------------------
(* Outlines *)

(* Page q has the outlines of page p, and the timers that put them back. *)
Outlined(q, p) == {"red", "toRestore"} \subseteq DOMAIN q /\ q.red = p.red /\ q.toRestore = p.toRestore

(* What does not highlight leaves the outlines alone. *)
LEMMA SameOutline ==
  ASSUME NEW p, NEW q, Outlined(q, p)
  PROVE  /\ \A text : Outlined(Insert(q, text), p)
         /\ \A key, text : Outlined(KeyDown(q, key, text), p)
         /\ \A at : Outlined(Press(q, at), p)
         /\ \A at : Outlined(Release(q, at), p)
         /\ \A at, by : Outlined(Scroll(q, at, by), p)
<1>1. ASSUME NEW r, Outlined(r, p), NEW text PROVE Outlined(Insert(r, text), p)
  BY <1>1 DEF Outlined, Insert
<1>2. ASSUME NEW key, NEW text PROVE Outlined(KeyDown(q, key, text), p)
  <2>1. Outlined([q EXCEPT !.held = @ \cup {key}], p)
    BY DEF Outlined
  <2>2. PICK r : r = [q EXCEPT !.held = @ \cup {key}]
    OBVIOUS
  <2>3. Outlined(r, p) /\ Outlined(Insert(r, <<key>>), p)
    BY <1>1, <2>1, <2>2
  <2>4. KeyDown(q, key, text) = r \/ KeyDown(q, key, text) = Insert(r, <<key>>)
    BY <2>2 DEF KeyDown
  <2>5. QED
    BY <2>3, <2>4
<1>3. ASSUME NEW at PROVE Outlined(Press(q, at), p)
  BY DEF Outlined, Press
<1>4. ASSUME NEW at PROVE Outlined(Release(q, at), p)
  <2>1. PICK up : up = [q EXCEPT !.pointer = at, !.pressed = Unsaid]
    OBVIOUS
  <2>2. Outlined(up, p)
    BY <2>1 DEF Outlined
  <2>3. Outlined([up EXCEPT !.clicks[at] = @ + 1], p)
    BY <2>2 DEF Outlined
  <2>4. Release(q, at) = up \/ Release(q, at) = [up EXCEPT !.clicks[at] = @ + 1]
    BY <2>1 DEF Release
  <2>5. QED
    BY <2>2, <2>3, <2>4
<1>5. ASSUME NEW at, NEW by PROVE Outlined(Scroll(q, at, by), p)
  BY DEF Outlined, Scroll
<1>6. QED
  BY <1>1, <1>2, <1>3, <1>4, <1>5

LEMMA AppliedOutline ==
  ASSUME NEW p \in Page, NEW m \in Messages, m.op # "highlight"
  PROVE  Applied(p, m).red = p.red /\ Applied(p, m).toRestore = p.toRestore
<1>1. Outlined(p, p)
  BY DEF Outlined, Page
<1>2. ASSUME NEW q, q = Applied(p, m) PROVE Outlined(q, p)
  <2>1. CASE m.op \in {"enable", "lookup", "read"}
    BY <1>1, <1>2, <2>1 DEF Applied
  <2>2. CASE m.op \in {"insert", "keyDown", "mousePressed", "mouseReleased", "scroll"}
    BY <1>1, <1>2, <2>2, SameOutline DEF Applied
  <2>3. CASE m.op \in {"focusNode", "focusScript", "mouseMoved", "keyUp"}
    BY <1>1, <1>2, <2>3 DEF Applied, Outlined
  <2>4. CASE m.op \in {"clear", "select", "check"}
    BY <1>1, <1>2, <2>4 DEF Applied, Outlined
  <2>5. CASE m.op \in {"store", "emptied", "dispatch"}
    BY <1>1, <1>2, <2>5 DEF Applied, Outlined
  <2>6. QED
    BY <2>1, <2>2, <2>3, <2>4, <2>5, MessageShape
<1>3. QED
  BY <1>2 DEF Outlined

(* What a command asks for says nothing of outlines: highlight asks for none to stay. *)
LEMMA EffectOutline ==
  ASSUME NEW p \in Page, NEW c \in Commands
  PROVE  /\ Outlined(Effect(p, c), p)
         /\ \A m, outcome : Outlined(FailedEffect(p, c, m, outcome), p)
<1>1. Outlined(p, p)
  BY DEF Outlined, Page
<1>2. ASSUME NEW q, q = Effect(p, c) PROVE Outlined(q, p)
  <2>1. CASE c.name = "type"
    <3>1. PICK r : r = [p EXCEPT !.focus = c.field]
      OBVIOUS
    <3>2. Outlined(r, p)
      BY <1>1, <3>1 DEF Outlined
    <3>3. q = Insert(r, c.text)
      BY <1>2, <2>1, <3>1 DEF Effect
    <3>4. QED
      BY <3>2, <3>3, SameOutline
  <2>2. CASE c.name = "fill"
    <3>1. q = [p EXCEPT !.focus = c.field, !.value[c.field] = c.text]
      BY <1>2, <2>2 DEF Effect
    <3>2. QED
      BY <1>1, <3>1 DEF Outlined
  <2>3. CASE c.name \in {"focus", "keyup", "move", "hover"}
    BY <1>1, <1>2, <2>3 DEF Effect, Outlined
  <2>4. CASE c.name = "dblclick"
    <3>1. PICK x : x = Press(p, c.field)
      OBVIOUS
    <3>2. PICK y : y = Release(x, c.field)
      OBVIOUS
    <3>3. PICK z : z = Press(y, c.field)
      OBVIOUS
    <3>4. PICK r : r = Release(z, c.field)
      OBVIOUS
    <3>5. Outlined(x, p)
      BY <1>1, <3>1, SameOutline
    <3>6. Outlined(y, p)
      BY <3>2, <3>5, SameOutline
    <3>7. Outlined(z, p)
      BY <3>3, <3>6, SameOutline
    <3>8. Outlined(r, p)
      BY <3>4, <3>7, SameOutline
    <3>9. q = [r EXCEPT !.doubles[c.field] = @ + 1]
      BY <1>2, <2>4, <3>1, <3>2, <3>3, <3>4 DEF Effect, Double
    <3>10. QED
      BY <3>8, <3>9 DEF Outlined
  <2>5. CASE c.name = "press"
    <3>1. PICK r : r = KeyDown(p, c.key, ~c.modified)
      OBVIOUS
    <3>2. Outlined(r, p)
      BY <1>1, <3>1, SameOutline
    <3>3. q = [r EXCEPT !.held = @ \ {c.key}]
      BY <1>2, <2>5, <3>1 DEF Effect
    <3>4. QED
      BY <3>2, <3>3 DEF Outlined
  <2>6. CASE c.name = "keyboard"
    <3>1. PICK r : r = Insert(p, Reached(c.text))
      OBVIOUS
    <3>2. Outlined(r, p)
      BY <1>1, <3>1, SameOutline
    <3>3. q = [r EXCEPT !.held = @ \ ToSet(Reached(c.text))]
      BY <1>2, <2>6, <3>1 DEF Effect
    <3>4. QED
      BY <3>2, <3>3 DEF Outlined
  <2>7. CASE c.name \in {"keydown", "inserttext", "down", "up", "scroll", "wheel"}
    BY <1>1, <1>2, <2>7, SameOutline DEF Effect
  <2>8. CASE c.name \in {"select", "check", "uncheck"}
    BY <1>1, <1>2, <2>8 DEF Effect, Outlined
  <2>9. CASE c.name \in {"setitem", "clearitems"}
    BY <1>1, <1>2, <2>9 DEF Effect, Outlined
  <2>10. CASE c.name \in {"get", "getitem", "highlight"}
    BY <1>1, <1>2, <2>10 DEF Effect
  <2>11. QED
    BY <2>1, <2>2, <2>3, <2>4, <2>5, <2>6, <2>7, <2>8, <2>9, <2>10, CommandShape DEF AllNames
<1>3. ASSUME NEW m, NEW outcome PROVE Outlined(FailedEffect(p, c, m, outcome), p)
  <2>1. Outlined([p EXCEPT !.focus = c.field], p)
    BY <1>1 DEF Outlined
  <2>2. FailedEffect(p, c, m, outcome) \in {[p EXCEPT !.focus = c.field], Effect(p, c), p}
    BY DEF FailedEffect
  <2>3. QED
    BY <1>1, <1>2, <2>1, <2>2
<1>4. QED
  BY <1>2, <1>3

(* Only highlight highlights, with its one message. *)
LEMMA HighlightOwn ==
  ASSUME NEW c \in Commands
  PROVE  /\ c.name = "highlight" => Len(Script(c)) = 1 /\ Script(c)[1].op = "highlight"
         /\ \A n \in 1 .. Len(Script(c)) :
              Found(c, n) /\ Sendable(c, n) /\ Script(c)[n].op = "highlight" => c.name = "highlight"
<1>1. ASSUME c.name = "highlight" PROVE Len(Script(c)) = 1 /\ Script(c)[1].op = "highlight"
  <2>1. Script(c) = <<Must("highlight", c.field)>>
    BY <1>1 DEF Script, HighlightScript
  <2>2. QED
    BY <2>1 DEF Must
<1>2. ASSUME NEW n \in 1 .. Len(Script(c)), Found(c, n), Sendable(c, n), Script(c)[n].op = "highlight"
      PROVE  c.name = "highlight"
  <2> DEFINE m == Script(c)[n]
  <2>1. c.name \in FieldNames \cup {"dblclick", "hover", "press", "keyboard"} \cup Singles
    BY CommandShape DEF AllNames, Singles, FieldNames
  <2>2. CASE c.name = "type"
    <3>1. n \in 1 .. 6
      BY <1>2, <2>2, ScriptLength
    <3>2. QED
      BY <1>2, <2>2, <3>1, TypeMessages DEF Try, Must, Lookup
  <2>3. CASE c.name = "fill"
    <3>1. n \in 1 .. 7
      BY <1>2, <2>3, ScriptLength
    <3>2. QED
      BY <1>2, <2>3, <3>1, FillMessages DEF Try, Must, Lookup
  <2>4. CASE c.name = "focus"
    <3>1. n \in 1 .. 4
      BY <1>2, <2>4, ScriptLength
    <3>2. QED
      BY <1>2, <2>4, <3>1, FocusMessages DEF Try, Must, Lookup
  <2>5. CASE c.name = "dblclick"
    <3>1. n \in 1 .. 7
      BY <1>2, <2>5, ScriptLength
    <3>2. QED
      BY <1>2, <2>5, <3>1, DblclickMessages DEF Try, Must, Lookup
  <2>6. CASE c.name = "hover"
    <3>1. n \in 1 .. 3
      BY <1>2, <2>6, ScriptLength
    <3>2. QED
      BY <1>2, <2>6, <3>1, HoverMessages DEF Try, Must, Lookup
  <2>7. CASE c.name = "press"
    <3>1. n \in 1 .. 2
      BY <1>2, <2>7, ScriptLength
    <3>2. QED
      BY <1>2, <2>7, <3>1, PressMessages DEF Try, KeyEvent
  <2>8. CASE c.name = "keyboard"
    <3>1. c.text \in Text
      BY <2>8, CommandShape, InputAssumption DEF Text
    <3>2. n \in 1 .. 2 * Len(c.text)
      BY <1>2, <2>8, ScriptLength
    <3>3. m \in {Try("abort", c.text[(n + 1) \div 2])}
               \cup {KeyEvent("keyDown", c.text[(n + 1) \div 2], FALSE), KeyEvent("keyUp", c.text[(n + 1) \div 2], FALSE)}
      BY <2>8, <3>1, <3>2, KeyboardMessages
    <3>4. QED
      BY <1>2, <3>3 DEF Try, KeyEvent
  <2>9. CASE c.name \in Singles
    <3>1. Len(Script(c)) = 1
      BY <2>9, ScriptLength
    <3>2. n = 1
      BY <1>2, <3>1
    <3>3. PICK sole : sole = SoleMessage(c)
      OBVIOUS
    <3>4. sole.op = "highlight"
      BY <1>2, <2>9, <3>2, <3>3, SingleMessage
    <3>5. QED
      BY <2>9, <3>3, <3>4, SoleShape DEF Singles
  <2>10. QED
    BY <2>1, <2>2, <2>3, <2>4, <2>5, <2>6, <2>7, <2>8, <2>9 DEF FieldNames
<1>3. QED
  BY <1>1, <1>2

(* Nobody highlights while an outline is on: each is put back to what it was. *)
LEMMA OutlineInit ==
  ASSUME Init
  PROVE  Plain /\ OneOutline
<1>1. asked = BlankPage /\ page = BlankPage /\ toEngine = << >> /\ command = NoCommand
  BY DEF Init
<1>2. BlankPage.red = [f \in Fields |-> FALSE] /\ BlankPage.toRestore = << >>
  BY DEF BlankPage
<1>3. QED
  BY <1>1, <1>2 DEF Plain, OneOutline

(* No command asks for an outline that stays. *)
LEMMA PlainKeeps ==
  ASSUME IInv, Plain, [Next]_vars
  PROVE  Plain'
<1>1. asked \in Page /\ (command # NoCommand => command \in Commands)
  BY DEF IInv, TypeOK
<1>2. ASSUME NEW result, Outlined(result, asked), asked' = result PROVE Plain'
  BY <1>2 DEF Plain, Outlined
<1>3. CASE Send
  <2>1. command \in Commands
    BY <1>1, <1>3 DEF Send
  <2>2. asked' = asked \/ asked' = Effect(asked, command)
    BY <1>3 DEF Send, Ended
  <2>3. QED
    BY <1>1, <1>2, <2>1, <2>2, EffectOutline DEF Plain
<1>4. ASSUME NEW outcome, Advance(outcome), waiting PROVE Plain'
  <2>1. command \in Commands
    BY <1>1, <1>4 DEF IInv, Placed
  <2>2. PICK m : m = Script(command)[step]
    OBVIOUS
  <2>3. asked' \in {asked, Effect(asked, command), FailedEffect(asked, command, m, outcome)}
    BY <1>4, <2>2 DEF Advance, Ended
  <2>4. QED
    BY <1>1, <1>2, <2>1, <2>3, EffectOutline DEF Plain
<1>5. CASE Run \/ Handle \/ Restore \/ UNCHANGED vars
  BY <1>5 DEF Run, Handle, Restore, vars, Plain
<1>6. QED
  BY <1>3, <1>4, <1>5 DEF Next, Reply, Timeout

LEMMA OutlineRun ==
  ASSUME IInv, Patient, OneOutline, Run
  PROVE  OneOutline'
<1>1. toEngine' = toEngine /\ page' = page
  BY DEF Run
<1>2. command'.name = "highlight" => page.toRestore = << >> /\ toEngine = << >>
  BY DEF Run
<1>3. QED
  BY <1>1, <1>2 DEF OneOutline

LEMMA OutlineSend ==
  ASSUME IInv, OneOutline, Send
  PROVE  OneOutline'
<1>1. PICK c \in Commands : c = command /\ c # NoCommand
  BY DEF IInv, TypeOK, Send
<1>2. PICK n \in 1 .. Len(Script(c)) : n = step
  BY <1>1 DEF IInv, TypeOK
<1>3. PICK m : m = Script(c)[n]
  OBVIOUS
<1>4. ~waiting /\ Found(c, n) /\ Sendable(c, n - 1) /\ page' = page
  <2>1. ~waiting /\ Sent = n - 1
    BY <1>2 DEF Send, Sent
  <2>2. page' = page
    BY DEF Send, Ended
  <2>3. QED
    BY <1>1, <1>2, <2>1, <2>2 DEF IInv, Placed
<1>5. CASE m.op = "abort"
  <2>1. command' = NoCommand /\ toEngine' = toEngine
    BY <1>1, <1>2, <1>3, <1>5 DEF Send, Ended
  <2>2. QED
    BY <1>4, <2>1 DEF OneOutline
<1>6. CASE m.op # "abort"
  <2>1. toEngine' = Append(toEngine, m) /\ waiting' = TRUE /\ command' = command
    BY <1>1, <1>2, <1>3, <1>6 DEF Send
  <2>2. Sendable(c, n)
    BY <1>3, <1>4, <1>6, SendableNext
  <2>3. m.op = "highlight" => toEngine = << >> /\ page.toRestore = << >>
    BY <1>1, <1>3, <1>4, <2>2, HighlightOwn DEF OneOutline
  <2>4. m \in Messages /\ toEngine \in Seq(Messages)
    BY <1>3, <1>4, <2>2, ScriptTyped DEF IInv
  <2>5. /\ Len(toEngine) \in Nat /\ Len(toEngine') = Len(toEngine) + 1
        /\ toEngine'[Len(toEngine) + 1] = m /\ DOMAIN toEngine' = 1 .. Len(toEngine) + 1
        /\ DOMAIN toEngine = 1 .. Len(toEngine)
        /\ \A i \in 1 .. Len(toEngine) : toEngine'[i] = toEngine[i]
    BY <2>1, <2>4, AppendProperties
  <2>6. ASSUME NEW i \in DOMAIN toEngine', toEngine'[i].op = "highlight"
        PROVE  i = 1 /\ page.toRestore = << >>
    <3>1. CASE i \in DOMAIN toEngine
      BY <2>5, <2>6, <3>1 DEF OneOutline
    <3>2. CASE i \notin DOMAIN toEngine
      <4>1. i = Len(toEngine) + 1 /\ m.op = "highlight"
        BY <2>5, <2>6, <3>2
      <4>2. Len(toEngine) = 0
        BY <2>3, <4>1
      <4>3. QED
        BY <2>3, <4>1, <4>2
    <3>3. QED
      BY <3>1, <3>2
  <2>7. QED
    BY <1>4, <2>1, <2>6 DEF OneOutline
<1>7. QED
  BY <1>5, <1>6

LEMMA OutlineAdvance ==
  ASSUME IInv, OneOutline, waiting, NEW outcome, Advance(outcome)
  PROVE  OneOutline'
<1>1. PICK c \in Commands : c = command /\ c # NoCommand
  BY DEF IInv, TypeOK, Placed
<1>2. toEngine' = toEngine /\ page' = page
  BY DEF Advance, Ended
<1>3. \/ command' = NoCommand
      \/ command' = c /\ step' \in {step + 1, step + 2} /\ ~(step' > Len(Script(c)))
  BY <1>1 DEF Advance, Ended
<1>4. ASSUME c.name = "highlight" PROVE command' = NoCommand
  <2>1. Len(Script(c)) = 1 /\ step \in 1 .. Len(Script(c))
    BY <1>1, <1>4, HighlightOwn DEF IInv, TypeOK
  <2>2. QED
    BY <1>3, <2>1
<1>5. ~(command' # NoCommand /\ command'.name = "highlight")
  BY <1>3, <1>4
<1>6. QED
  BY <1>2, <1>5 DEF OneOutline

LEMMA OutlineHandle ==
  ASSUME IInv, OneOutline, Handle
  PROVE  OneOutline'
<1>1. PICK m \in Messages : m = Head(toEngine)
  BY HeadTailProperties, EmptySeq DEF Handle, IInv
<1>2. PICK p \in Page : p = page
  BY DEF IInv, TypeOK
<1>3. PICK q : q = page'
  OBVIOUS
<1>4. \/ q = Applied(p, m) /\ Names(m) # Missing
      \/ q = p
  BY <1>1, <1>2, <1>3 DEF Handle
<1>5. /\ toEngine # << >> /\ command' = command /\ waiting' = waiting
      /\ Len(toEngine) \in Nat /\ Len(toEngine) >= 1 /\ Head(toEngine) = toEngine[1]
      /\ DOMAIN toEngine = 1 .. Len(toEngine) /\ DOMAIN toEngine' = 1 .. Len(toEngine) - 1
      /\ \A i \in 1 .. Len(toEngine) - 1 : toEngine'[i] = toEngine[i + 1]
  BY HeadTailProperties, EmptySeq DEF Handle, IInv
<1>6. ASSUME NEW i \in DOMAIN toEngine', toEngine'[i].op = "highlight" PROVE FALSE
  <2>1. i + 1 \in DOMAIN toEngine /\ toEngine[i + 1].op = "highlight" /\ i + 1 # 1
    BY <1>5, <1>6
  <2>2. QED
    BY <2>1 DEF OneOutline
<1>7. ~(command' # NoCommand /\ command'.name = "highlight" /\ ~waiting')
  BY <1>5 DEF OneOutline
<1>8. CASE q = p \/ m.op # "highlight"
  <2>1. q.red = p.red /\ q.toRestore = p.toRestore
    BY <1>4, <1>8, AppliedOutline
  <2>2. QED
    BY <1>2, <1>3, <1>6, <1>7, <2>1 DEF OneOutline
<1>9. CASE q # p /\ m.op = "highlight"
  <2>1. 1 \in DOMAIN toEngine /\ toEngine[1].op = "highlight"
    BY <1>1, <1>5, <1>9
  <2>2. p.toRestore = << >> /\ p.red = [f \in Fields |-> FALSE]
    BY <1>2, <2>1 DEF OneOutline
  <2>3. PICK f \in Fields : f = m.on
    BY <1>4, <1>9, MessageShape DEF Names, OrMissing
  <2>4. q = [p EXCEPT !.red[f] = TRUE, !.toRestore = Append(@, [field |-> f, red |-> p.red[f]])]
    BY <1>4, <1>9, <2>3 DEF Applied, Highlight
  <2>5. q.toRestore = <<[field |-> f, red |-> FALSE]>>
    <3>1. q.toRestore = Append(p.toRestore, [field |-> f, red |-> p.red[f]])
      BY <2>4 DEF Page
    <3>2. QED
      BY <2>2, <3>1
  <2>6. q.red = [g \in Fields |-> g = f]
    <3>1. q.red = [p.red EXCEPT ![f] = TRUE]
      BY <2>4 DEF Page
    <3>2. QED
      BY <2>2, <3>1
  <2>7. q.toRestore # << >>
    BY <2>5
  <2>8. QED
    BY <1>3, <1>6, <1>7, <2>5, <2>6, <2>7 DEF OneOutline
<1>10. QED
  BY <1>8, <1>9

LEMMA OutlineRestore ==
  ASSUME IInv, OneOutline, Restore
  PROVE  OneOutline'
<1>1. PICK p \in Page : p = page
  BY DEF IInv, TypeOK
<1>2. p.toRestore # << >>
  BY <1>1 DEF Restore
<1>3. PICK f \in Fields : p.toRestore = <<[field |-> f, red |-> FALSE]>> /\ p.red = [g \in Fields |-> g = f]
  BY <1>1, <1>2 DEF OneOutline
<1>4. page' = [p EXCEPT !.red[f] = FALSE, !.toRestore = Tail(@)]
  <2>1. PICK first : first = [field |-> f, red |-> FALSE]
    OBVIOUS
  <2>2. Head(p.toRestore) = first
    BY <1>3, <2>1
  <2>3. first.field = f /\ first.red = FALSE
    BY <2>1
  <2>4. page' = [p EXCEPT !.red[first.field] = first.red, !.toRestore = Tail(@)]
    BY <1>1, <2>2 DEF Restore
  <2>5. QED
    BY <2>3, <2>4
<1>5. page'.toRestore = << >> /\ page'.red = [g \in Fields |-> FALSE]
  <2>1. page'.toRestore = Tail(p.toRestore) /\ page'.red = [p.red EXCEPT ![f] = FALSE]
    BY <1>4 DEF Page
  <2>2. PICK first : first = [field |-> f, red |-> FALSE]
    OBVIOUS
  <2>3. Tail(p.toRestore) = << >>
    <3>1. p.toRestore = <<first>>
      BY <1>3, <2>2
    <3>2. Tail(<<first>>) = << >>
      OBVIOUS
    <3>3. QED
      BY <3>1, <3>2
  <2>4. [p.red EXCEPT ![f] = FALSE] = [g \in Fields |-> FALSE]
    BY <1>3
  <2>5. QED
    BY <2>1, <2>3, <2>4
<1>6. /\ toEngine' = toEngine /\ command' = command /\ waiting' = waiting
      /\ ~(command # NoCommand /\ command.name = "highlight" /\ ~waiting)
      /\ \A i \in DOMAIN toEngine : toEngine[i].op # "highlight"
  BY <1>1, <1>2 DEF Restore, OneOutline
<1>7. QED
  BY <1>5, <1>6 DEF OneOutline

(* When nobody highlights while an outline is on, at most one is on or about to be, and no
   command asks for one that stays. *)
THEOREM OutlineIsOne ==
  ASSUME Patient
  PROVE  Spec => [](Plain /\ OneOutline)
<1>1. Init => Plain /\ OneOutline
  BY OutlineInit
<1>2. IInv /\ Plain /\ OneOutline /\ [Next]_vars => Plain' /\ OneOutline'
  <2> SUFFICES ASSUME IInv, Plain, OneOutline, [Next]_vars
               PROVE  Plain' /\ OneOutline'
    OBVIOUS
  <2>1. CASE UNCHANGED vars
    <3>1. command' = command /\ waiting' = waiting /\ toEngine' = toEngine /\ page' = page /\ asked' = asked
      BY <2>1 DEF vars
    <3>2. QED
      BY <3>1 DEF Plain, OneOutline
  <2>2. QED
    BY <2>1, PlainKeeps, OutlineRun, OutlineSend, OutlineAdvance, OutlineHandle, OutlineRestore
       DEF Next, Reply, Timeout
<1>3. QED
  BY <1>1, <1>2, CourseIsKept, PTL DEF Spec

(* Once a command has ended and its messages are handled, no key is held that no keydown holds,
   and the page is what the commands so far ask for, up to the first that is not as documented:
   however many waits timed out, provided nobody highlights while an outline is on. *)
THEOREM PageCorrect ==
  ASSUME Patient
  PROVE  Spec => []PageAsAsked
<1>1. ASSUME IInv, Plain, OneOutline PROVE PageAsAsked
  <2>1. SUFFICES ASSUME command = NoCommand, toEngine = << >>, page.toRestore = << >>
                 PROVE  page = asked
    BY DEF PageAsAsked
  <2>2. page \in Page /\ asked \in Page
    BY <1>1 DEF IInv, TypeOK
  <2>3. Sent = 0
    BY <1>1, <2>1 DEF IInv, TypeOK, Placed, Sent
  <2>4. Goals(asked, command, Sent) = {asked}
    BY <2>3 DEF Goals
  <2>5. Leads(page, << >>, {asked})
    BY <1>1, <2>1, <2>4 DEF IInv, OnCourse
  <2>6. Same(page, asked)
    BY <2>2, <2>5, LeadsNow
  <2>7. page.red = asked.red /\ page.toRestore = asked.toRestore
    BY <1>1, <2>1 DEF Plain, OneOutline
  <2>8. \A p \in Page :
          p = [focus |-> p.focus, value |-> p.value, held |-> p.held, pointer |-> p.pointer,
               pressed |-> p.pressed, clicks |-> p.clicks, doubles |-> p.doubles,
               checked |-> p.checked, scrolled |-> p.scrolled, stored |-> p.stored,
               red |-> p.red, toRestore |-> p.toRestore]
    BY DEF Page
  <2>9. PICK p \in Page, q \in Page : p = page /\ q = asked
    BY <2>2
  <2>10. p = q
    BY <2>6, <2>7, <2>8, <2>9 DEF Same
  <2>11. QED
    BY <2>9, <2>10
<1>2. QED
  BY <1>1, CourseIsKept, OutlineIsOne, PTL
=============================================================================

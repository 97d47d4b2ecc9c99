---------------------------- MODULE InputCommands ----------------------------
(***************************************************************************)
(* The native commands that act on the controls of a page, or read them    *)
(* (native/src/cli.cpp): type, fill, focus, press, keydown, keyup,         *)
(* keyboard, mouse, hover, dblclick, select, check, uncheck, scroll,       *)
(* highlight, storage, get and is.  Each runs in a process of its own,     *)
(* sends the messages of a script over its connection and waits for the    *)
(* reply of one before it sends the next; but a wait may time out and most *)
(* results are ignored.  Starfish takes one connection at a time and reads *)
(* it in order, so what was sent is handled in that order, across          *)
(* processes too.                                                          *)
(***************************************************************************)
EXTENDS Integers, Sequences, FiniteSets, SequencesExt

CONSTANTS
  Fields,         \* selectors of input fields
  Missing,        \* a selector that matches nothing
  Nowhere,        \* the point (0,0), outside of every field; what scrolls there is the window
  Unsaid,         \* no point given: mouse down and up take one or none
  Distances,      \* how far scroll and mouse wheel go, upwards when negative
  Chars,          \* characters of one byte in UTF-8
  WideChars,      \* characters of more bytes
  NamedKeys,      \* keys that are no characters
  Texts,          \* texts of type, fill and keyboard inserttext
  KeyTexts,       \* texts of keyboard type (an empty one sends nothing)
  Sessions,       \* a set of [names, quirk]: the commands in use, whether the engine
                  \* inserts a character whatever the modifiers
  Patient,        \* TRUE when nobody highlights while an element is highlighted
  Late,           \* TRUE when a reply may come after its timeout
  NoCommand,
  MaxCommands     \* bound: commands run

AllNames == {"type", "fill", "focus", "dblclick", "press", "keydown", "keyup", "keyboard",
             "inserttext", "move", "down", "up", "hover", "wheel", "scroll", "select", "check",
             "uncheck", "get", "highlight", "setitem", "clearitems", "getitem"}

ASSUME InputAssumption ==
  /\ {Missing, Nowhere, Unsaid} \cap Fields = {} /\ Missing # Nowhere
  /\ Chars \cap (WideChars \cup NamedKeys) = {}
  /\ Texts \cup KeyTexts \subseteq Seq(Chars \cup WideChars) /\ << >> \notin KeyTexts
  /\ Sessions \subseteq [names : SUBSET AllNames, quirk : BOOLEAN]
  /\ Distances \subseteq Int
  /\ {Late, Patient} \subseteq BOOLEAN /\ MaxCommands \in Nat

Keys   == Chars \cup NamedKeys
Areas  == {"local", "session"}      \* of web storage, with one key each
Points == Fields \cup {Nowhere}     \* a field stands for its centre

VARIABLES
  session,        \* the one of Sessions that is run
  command,        \* the command running, NoCommand between two
  step,           \* index in its script
  waiting,        \* sendAndWait is waiting
  toEngine,       \* messages on their way
  answer,         \* outcome of the message handled last: "ok" or "error"
  told,           \* what the message handled last has read, the empty sequence when nothing
  page,           \* the page
  asked,          \* history: the page the commands so far should have led to
  astray,         \* history: a command was not what native/COMMANDS.md says of it
  printed,        \* of the command that ended last, what it printed and should have printed
  runs            \* commands started

vars == <<session, command, step, waiting, toEngine, answer, told, page, asked, astray, printed,
          runs>>

Page == [focus : Points, value : [Fields -> Seq(Chars \cup WideChars)], held : SUBSET Keys,
         pointer : Points, pressed : Points \cup {Unsaid}, clicks : [Fields -> Nat],
         doubles : [Fields -> Nat], checked : [Fields -> BOOLEAN], scrolled : [Points -> Nat],
         stored : [Areas -> Seq(Chars \cup WideChars)], red : [Fields -> BOOLEAN],
         toRestore : Seq([field : Fields, red : BOOLEAN])]

Quirk    == session.quirk
Commands ==
       [name : {"type", "fill"}, field : Fields \cup {Missing}, text : Texts]
  \cup [name : {"select"}, field : Fields \cup {Missing}, text : Texts]
  \cup [name : {"focus", "dblclick", "hover", "check", "uncheck", "get", "highlight"},
         field : Fields \cup {Missing}]
  \cup [name : {"press", "keydown", "keyup"}, key : Keys, modified : BOOLEAN]
  \cup [name : {"keyboard"}, text : KeyTexts]
  \cup [name : {"inserttext"}, text : Texts]
  \cup [name : {"move"}, at : Points]
  \cup [name : {"down", "up"}, at : Points \cup {Unsaid}]
  \cup [name : {"scroll"}, at : Points \cup {Missing}, by : Distances]
  \cup [name : {"wheel"}, by : Distances]
  \cup [name : {"setitem"}, field : Areas, text : Texts]
  \cup [name : {"clearitems", "getitem"}, field : Areas]

InUse == {c \in Commands : c.name \in session.names}

BlankPage ==
  [focus |-> Nowhere, value |-> [f \in Fields |-> << >>], held |-> {}, pointer |-> Nowhere,
   pressed |-> Unsaid, clicks |-> [f \in Fields |-> 0], doubles |-> [f \in Fields |-> 0],
   checked |-> [f \in Fields |-> FALSE], scrolled |-> [at \in Points |-> 0],
   stored |-> [area \in Areas |-> << >>], red |-> [f \in Fields |-> FALSE], toRestore |-> << >>]

(* What a command can read of a field, or of an area of storage. *)
Told(p, f) == IF f \in Areas THEN <<p.stored[f]>> ELSE <<p.value[f], p.checked[f]>>
Nothing    == << >>

Init ==
  /\ session \in Sessions
  /\ command = NoCommand /\ step = 1 /\ waiting = FALSE
  /\ toEngine = << >> /\ answer = "ok" /\ told = Nothing
  /\ page = BlankPage /\ asked = BlankPage /\ astray = FALSE /\ printed = Nothing /\ runs = 0

-----------------------------------------------------------------------------
(* Scripts: messages [op, on, must], must when a failure ends the command with exit code 1. *)

Must(op, on) == [op |-> op, on |-> on, must |-> TRUE]
Try(op, on)  == [op |-> op, on |-> on, must |-> FALSE]

(* keyEvent: the text rides on a keyDown without modifiers, Shift aside. *)
KeyEvent(op, key, modified) ==
  Try(op, [key |-> key, text |-> op = "keyDown" /\ key \in Chars /\ ~modified])

PressScript(key, modified) == <<KeyEvent("keyDown", key, modified), KeyEvent("keyUp", key, modified)>>

(* keyboard type takes the text byte by byte; a byte of a wider character is no UTF-8, and
   the JSON library throws out of the program when the message is formatted. *)
Typed(text) ==
  [i \in 1 .. 2 * Len(text) |->
     LET c == text[(i + 1) \div 2] IN
     IF c \in WideChars THEN Try("abort", c)
     ELSE KeyEvent(IF i % 2 = 1 THEN "keyDown" ELSE "keyUp", c, FALSE)]

(* elementCenter and querySelectorNode: a selector that matches nothing ends the command. *)
Lookup(field) == Must("lookup", field)

(* focusSelector, after the lookup of the node: an error of DOM.focus is made good by a
   script, otherwise skipped. *)
FocusScript(field, last) == <<Try("focusNode", field), last>>

MouseEvent(op, at) == Try(op, at)

(* select, check, uncheck, scroll and highlight are one evaluation each, which says null when
   the selector matches nothing; storage is one that always has a value. *)
SelectScript(c) == <<Must("select", [field |-> c.field, text |-> c.text])>>
CheckScript(c)  == <<Must("check", [field |-> c.field, checked |-> c.name = "check"])>>
ScrollScript(c) == <<Must("scroll", [field |-> c.at, by |-> c.by])>>
GetScript(c)    == <<Must("read", c.field)>>
HighlightScript(c) == <<Must("highlight", c.field)>>
StorageScript(c) ==
  CASE c.name = "setitem"    -> <<Must("store", [field |-> c.field, text |-> c.text])>>
    [] c.name = "clearitems" -> <<Must("emptied", c.field)>>
    [] c.name = "getitem"    -> <<Must("read", c.field)>>

HoverScript(field) == <<Must("enable", field), Lookup(field), MouseEvent("mouseMoved", field)>>

(* The point of mouse down and up, (0,0) when none is given. *)
At(c) == IF c.at = Unsaid THEN Nowhere ELSE c.at

TypeScript(field, text) ==
  <<Must("enable", field), Lookup(field)>> \o FocusScript(field, Try("focusScript", field))
  \o <<Try("insert", text), Try("read", field)>>

FillScript(field, text) ==
  <<Must("enable", field), Lookup(field)>> \o FocusScript(field, Must("focusScript", field))
  \o <<Try("clear", field), Try("insert", text), Try("read", field)>>

DblclickScript(field) ==
  LET click == <<MouseEvent("mousePressed", field), MouseEvent("mouseReleased", field)>>
  IN <<Must("enable", field), Lookup(field)>> \o click \o click \o <<Try("dispatch", field)>>

Script(c) ==
  CASE c.name = "type"  -> TypeScript(c.field, c.text)
    [] c.name = "fill"  -> FillScript(c.field, c.text)
    [] c.name = "focus" -> <<Try("enable", c.field), Lookup(c.field)>>
                           \o FocusScript(c.field, Must("focusScript", c.field))
    [] c.name = "dblclick"   -> DblclickScript(c.field)
    [] c.name = "press"      -> PressScript(c.key, c.modified)
    [] c.name = "keydown"    -> <<KeyEvent("keyDown", c.key, c.modified)>>
    [] c.name = "keyup"      -> <<KeyEvent("keyUp", c.key, c.modified)>>
    [] c.name = "keyboard"   -> Typed(c.text)
    [] c.name = "inserttext" -> <<Try("insert", c.text)>>
    [] c.name = "hover"  -> HoverScript(c.field)
    [] c.name = "select" -> SelectScript(c)
    [] c.name \in {"check", "uncheck"} -> CheckScript(c)
    [] c.name = "scroll" -> ScrollScript(c)
    [] c.name = "get"    -> GetScript(c)
    [] c.name = "highlight" -> HighlightScript(c)
    [] c.name \in {"setitem", "clearitems", "getitem"} -> StorageScript(c)
    [] c.name = "wheel"  -> <<Try("scroll", [field |-> Nowhere, by |-> c.by])>>
    [] c.name = "move" -> <<MouseEvent("mouseMoved", c.at)>>
    [] c.name = "down" -> <<MouseEvent("mousePressed", At(c))>>
    [] c.name = "up"   -> <<MouseEvent("mouseReleased", At(c))>>

TypeOK ==
  /\ session \in Sessions /\ command \in Commands \cup {NoCommand}
  /\ step \in 1 .. IF command = NoCommand THEN 1 ELSE Len(Script(command))
  /\ waiting \in BOOLEAN /\ answer \in {"ok", "error"}
  /\ page \in Page /\ asked \in Page /\ astray \in BOOLEAN
  /\ LET Reading == (Seq(Chars \cup WideChars) \X BOOLEAN) \cup [{1} -> Seq(Chars \cup WideChars)]
     IN told \in Reading \cup {Nothing} /\ printed \in (Reading \X Reading) \cup {Nothing}
  /\ runs \in 0 .. MaxCommands

-----------------------------------------------------------------------------
(* What a message does to a page. *)

Insert(p, text) ==
  IF p.focus \in Fields THEN [p EXCEPT !.value[p.focus] = @ \o text] ELSE p

KeyDown(p, key, text) ==
  LET down == [p EXCEPT !.held = @ \cup {key}]
  IN IF key \in Chars /\ (text \/ Quirk) THEN Insert(down, <<key>>) ELSE down

(* A click is a press and a release in the same field; a press moves the focus. *)
Press(p, at)   == [p EXCEPT !.pointer = at, !.pressed = at, !.focus = at]
Release(p, at) ==
  LET up == [p EXCEPT !.pointer = at, !.pressed = Unsaid]
  IN IF at \in Fields /\ p.pressed = at THEN [up EXCEPT !.clicks[at] = @ + 1] ELSE up

Scroll(p, at, by) == [p EXCEPT !.scrolled[at] = IF @ + by > 0 THEN @ + by ELSE 0]

(* The outline is red until a timer puts back what it was. *)
Highlight(p, f) ==
  [p EXCEPT !.red[f] = TRUE, !.toRestore = Append(@, [field |-> f, red |-> p.red[f]])]

(* The selectors a message names. *)
Names(m) == CASE m.op \in {"lookup", "read", "highlight", "emptied"} -> m.on
              [] m.op \in {"select", "check", "scroll", "store"} -> m.on.field
              [] OTHER -> Nowhere

Applied(p, m) ==
  CASE m.op = "focusNode"     -> [p EXCEPT !.focus = m.on]
    [] m.op = "focusScript"   -> [p EXCEPT !.focus = m.on]
    [] m.op = "insert"        -> Insert(p, m.on)
    [] m.op = "clear"         -> [p EXCEPT !.value[m.on] = << >>]
    [] m.op = "keyDown"       -> KeyDown(p, m.on.key, m.on.text)
    [] m.op = "keyUp"         -> [p EXCEPT !.held = @ \ {m.on.key}]
    [] m.op = "mouseMoved"    -> [p EXCEPT !.pointer = m.on]
    [] m.op = "mousePressed"  -> Press(p, m.on)
    [] m.op = "mouseReleased" -> Release(p, m.on)
    [] m.op = "select"        -> [p EXCEPT !.value[m.on.field] = m.on.text]
    [] m.op = "check"         -> [p EXCEPT !.checked[m.on.field] = m.on.checked]
    [] m.op = "scroll"        -> Scroll(p, m.on.field, m.on.by)
    [] m.op = "highlight"     -> Highlight(p, m.on)
    [] m.op = "store"         -> [p EXCEPT !.stored[m.on.field] = m.on.text]
    [] m.op = "emptied"       -> [p EXCEPT !.stored[m.on] = << >>]
    [] m.op = "dispatch"      -> [p EXCEPT !.doubles[m.on] = @ + 1]
    [] OTHER                  -> p

(* The engine handles a message.  It may refuse DOM.focus. *)
Handle ==
  /\ toEngine # << >>
  /\ LET m == Head(toEngine) IN
     \/ Names(m) # Missing /\ page' = Applied(page, m) /\ answer' = "ok"
     \/ Names(m) = Missing /\ answer' = "error" /\ UNCHANGED page
     \/ m.op = "focusNode" /\ answer' = "error" /\ UNCHANGED page
  /\ LET m == Head(toEngine)
     IN told' = IF m.op \in {"read", "store"} /\ Names(m) # Missing
                THEN Told(page', Names(m)) ELSE Nothing
  /\ toEngine' = Tail(toEngine)
  /\ UNCHANGED <<session, command, step, waiting, asked, astray, printed, runs>>

(* The page's timers, 2 s each. *)
Restore ==
  /\ page.toRestore # << >>
  /\ LET first == Head(page.toRestore)
     IN page' = [page EXCEPT !.red[first.field] = first.red, !.toRestore = Tail(@)]
  /\ UNCHANGED <<session, command, step, waiting, toEngine, answer, told, asked, astray, printed,
                 runs>>

-----------------------------------------------------------------------------
(* What a command is for, in one step: nothing when it failed before it touched the page.  In
   two cases native/COMMANDS.md says something else of it: see Documented. *)

Double(p, f) == [Release(Press(Release(Press(p, f), f), f), f) EXCEPT !.doubles[f] = @ + 1]

(* keyboard type sends what stands before the first wider character. *)
Reached(text) ==
  LET stops == {i \in DOMAIN text : text[i] \in WideChars}
  IN IF stops = {} THEN text ELSE SubSeq(text, 1, Min(stops) - 1)

Effect(p, c) ==
  CASE c.name = "type" -> Insert([p EXCEPT !.focus = c.field], c.text)
    [] c.name = "fill" -> [p EXCEPT !.focus = c.field, !.value[c.field] = c.text]
    [] c.name = "focus" -> [p EXCEPT !.focus = c.field]
    [] c.name = "dblclick" -> Double(p, c.field)
    [] c.name = "press" -> [KeyDown(p, c.key, ~c.modified) EXCEPT !.held = @ \ {c.key}]
    [] c.name = "keydown" -> KeyDown(p, c.key, ~c.modified)
    [] c.name = "keyup" -> [p EXCEPT !.held = @ \ {c.key}]
    [] c.name = "keyboard" -> [Insert(p, Reached(c.text)) EXCEPT
                                 !.held = @ \ ToSet(Reached(c.text))]
    [] c.name = "inserttext" -> Insert(p, c.text)
    [] c.name = "move" -> [p EXCEPT !.pointer = c.at]
    [] c.name = "down" -> Press(p, At(c))
    [] c.name = "up"   -> Release(p, At(c))
    [] c.name = "hover"  -> [p EXCEPT !.pointer = c.field]
    [] c.name = "select" -> [p EXCEPT !.value[c.field] = c.text]
    [] c.name \in {"check", "uncheck"} -> [p EXCEPT !.checked[c.field] = c.name = "check"]
    [] c.name = "scroll" -> Scroll(p, c.at, c.by)
    [] c.name = "wheel"  -> Scroll(p, Nowhere, c.by)
    [] c.name \in {"setitem", "clearitems"} ->
         [p EXCEPT !.stored[c.field] = IF c.name = "setitem" THEN c.text ELSE << >>]
    [] c.name \in {"get", "getitem", "highlight"} -> p

(* native/COMMANDS.md: mouse down and up act "at last point" (line 116) when none is given, and
   keyboard type sends "per-char key events" (line 48) for all of its text. *)
LastPoint(p, c) == IF c.at = Unsaid THEN p.pointer ELSE c.at
Documented(p, c) ==
  CASE c.name = "down" -> Press(p, LastPoint(p, c))
    [] c.name = "up"   -> Release(p, LastPoint(p, c))
    [] c.name = "keyboard" -> [Insert(p, c.text) EXCEPT !.held = @ \ ToSet(c.text)]
    [] OTHER -> Effect(p, c)

(* fill and focus may give up after DOM.focus; an evaluation that is late is done all the
   same. *)
FailedEffect(p, c, m, outcome) ==
  CASE m.op = "focusScript" -> [p EXCEPT !.focus = c.field]
    [] m.op \in {"select", "check", "scroll", "store", "emptied"} /\ outcome = "late" /\ Names(m) # Missing -> Effect(p, c)
    [] OTHER -> p

-----------------------------------------------------------------------------
(* The program. *)

Run ==
  /\ command = NoCommand /\ runs < MaxCommands
  /\ command' \in InUse
  /\ Patient /\ command'.name = "highlight" => page.toRestore = << >> /\ toEngine = << >>
  /\ step' = 1 /\ runs' = runs + 1
  /\ UNCHANGED <<session, waiting, toEngine, answer, told, page, asked, astray, printed>>

Ended(result, shown) ==
  /\ command' = NoCommand /\ step' = 1 /\ waiting' = FALSE
  /\ asked' = result
  /\ astray' = (astray \/ Effect(asked, command) # Documented(asked, command))
  /\ printed' = IF shown = Nothing THEN Nothing ELSE <<shown, Told(result, command.field)>>
  /\ UNCHANGED <<answer, told, page, runs>>

(* type, fill, get and storage print what their last message read, when it was answered. *)
Shown(outcome) == IF outcome = "ok" THEN told ELSE Nothing

Send ==
  /\ command # NoCommand /\ ~waiting
  /\ UNCHANGED session
  /\ LET m == Script(command)[step] IN
     IF m.op = "abort"
     THEN Ended(Effect(asked, command), Nothing) /\ UNCHANGED toEngine
     ELSE /\ toEngine' = Append(toEngine, m) /\ waiting' = TRUE
          /\ UNCHANGED <<command, step, answer, told, page, asked, astray, printed, runs>>

(* Mutant of Advance: no script makes a refused DOM.focus good. *)
AdvanceNoFallback(outcome) ==
  LET script == Script(command)
      m      == script[step]
      next   == IF m.op = "focusNode" THEN step + 2 ELSE step + 1
  IN /\ UNCHANGED <<session, toEngine>>
     /\ CASE outcome # "ok" /\ m.must -> Ended(FailedEffect(asked, command, m, outcome), Nothing)
          [] outcome = "ok" \/ ~m.must ->
               IF next > Len(script) THEN Ended(Effect(asked, command), Shown(outcome))
               ELSE /\ step' = next /\ waiting' = FALSE
                    /\ UNCHANGED <<command, answer, told, page, asked, astray, printed, runs>>

(* Mutant of Advance: a DOM.focus that is late is taken for done. *)
AdvanceLateFocusDone(outcome) ==
  LET script == Script(command)
      m      == script[step]
      next   == IF m.op = "focusNode" /\ outcome # "error" THEN step + 2 ELSE step + 1
  IN /\ UNCHANGED <<session, toEngine>>
     /\ CASE outcome # "ok" /\ m.must -> Ended(FailedEffect(asked, command, m, outcome), Nothing)
          [] outcome = "ok" \/ ~m.must ->
               IF next > Len(script) THEN Ended(Effect(asked, command), Shown(outcome))
               ELSE /\ step' = next /\ waiting' = FALSE
                    /\ UNCHANGED <<command, answer, told, page, asked, astray, printed, runs>>

(* sendAndWait has returned. *)
Advance(outcome) ==
  LET script == Script(command)
      m      == script[step]
      next   == IF m.op = "focusNode" /\ outcome = "ok" THEN step + 2 ELSE step + 1
  IN /\ UNCHANGED <<session, toEngine>>
     /\ CASE outcome # "ok" /\ m.must -> Ended(FailedEffect(asked, command, m, outcome), Nothing)
          [] outcome = "ok" \/ ~m.must ->
               IF next > Len(script) THEN Ended(Effect(asked, command), Shown(outcome))
               ELSE /\ step' = next /\ waiting' = FALSE
                    /\ UNCHANGED <<command, answer, told, page, asked, astray, printed, runs>>

(* Replies come in the order of the messages. *)
Reply   == waiting /\ toEngine = << >> /\ Advance(answer)
Timeout == waiting /\ Late /\ Advance("late")

Next == Run \/ Send \/ Reply \/ Timeout \/ Handle \/ Restore

Spec == Init /\ [][Next]_vars

-----------------------------------------------------------------------------
\* Once a command has ended and its messages are handled, the page is what the commands so far
\* ask for, by native/COMMANDS.md: every text in its field and in order, each double click two
\* clicks, a command that failed did nothing but move the focus, and no highlight stays - however
\* many waits timed out, and up to the first command that is not what is documented of it (mouse
\* down or up without a point, keyboard type cut at a wider character, where that makes a
\* difference to the page).  With or without one, no key is held that no keydown holds.
PageAsAsked ==
  command = NoCommand /\ toEngine = << >> /\ page.toRestore = << >> =>
    /\ page.held = asked.held
    /\ ~astray => page = asked

\* What a command prints of a field is what the commands so far have made of it, its own texts
\* included, and never what an earlier message read - also after commands whose waits timed
\* out.
PrintedAsAsked == printed # Nothing => printed[1] = printed[2]
=============================================================================

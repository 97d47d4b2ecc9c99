----------------------------- MODULE PageCommands -----------------------------
(***************************************************************************)
(* goto, click, back, forward and reload: one invocation of a command that *)
(* may navigate, from the attached session to its exit.  The native        *)
(* program (native/src/cli.cpp) drives CdpClient::sendAndWait and          *)
(* waitEvent, which read the socket in batches; the Node program           *)
(* (bin/starfish-cdp.mjs), which has goto and click, awaits promises.      *)
(* Starfish drops a page's timers when it navigates and shuts down once a  *)
(* loaded page has none, so they re-inject a keep-alive timer.             *)
(***************************************************************************)
EXTENDS Integers, Sequences, FiniteSets

CONSTANTS
  Programs,       \* the programs and commands tried: [impl, command, late], late when
                  \* replies and events may come after their timeout
  OldPageLoading, \* TRUE when the page shown at first may still be loading
  MaxSocket       \* bound: messages on their way to the program

CommandNames == {"goto", "click", "back", "forward", "reload"}

ASSUME ParametersAssumption ==
  /\ Programs \subseteq [impl : {"native"}, command : CommandNames, late : BOOLEAN]
                 \cup [impl : {"node"}, command : {"goto", "click"}, late : BOOLEAN]
  /\ OldPageLoading \in BOOLEAN /\ MaxSocket \in Nat

VARIABLES
  program,        \* the one of Programs that runs
  step,           \* index in the script
  exit,           \* "running", "complete" (exit code 0) or "failed"
  lastId,         \* ids allocated so far
  waiting,        \* the id awaited, 0 when none
  closed,         \* the program knows that the connection is closed
  loadSeen,       \* waitEvent returned true; the promise of once() has resolved
  got,            \* per step: "none" before it, "ok", "error", "lost" when given up
  spoke,          \* history: the step whose reply each step took
  url,            \* per step, the url its getFrameTree reported
  aim,            \* the history entry to go to, the url to load again
  toEngine,       \* commands on their way
  toClient,       \* messages on their way
  nav,            \* the page: "old", or a navigation "asked", "committed", "loaded"
  newUrl,         \* the url the navigation leads to
  history, index, \* the session history of the page, an entry named by its url
  historyRead,    \* history: both as they were when the command's question was answered
  oldLoading,     \* the old page's load event is still to come
  oldLoaded,      \* history: it came while the command ran
  timer,          \* the document shown has a pending timer
  up,             \* the engine runs
  loadRead        \* history: a load event was read before the wait for it ended

programVars == <<program, step, exit, lastId, waiting, closed, loadSeen, got, spoke, url, aim,
                 loadRead>>
pageVars    == <<nav, newUrl, history, index, historyRead, oldLoading, oldLoaded, timer, up>>
vars        == <<programVars, toEngine, toClient, pageVars>>

Impl    == program.impl
Command == program.command
Late    == program.late

Goto  == <<"Page.enable", "Page.navigate", "load", "Runtime.evaluate", "addScript",
           "Page.getFrameTree">>
Click == <<"DOM.enable", "elementCenter", "Page.getFrameTree", "mousePressed",
           "mouseReleased", "Page.getFrameTree", "Runtime.evaluate", "addScript">>
Inject(first) == <<first, "load", "Runtime.evaluate", "addScript", "Page.getFrameTree">>
NavHistory == <<"Page.enable", "Page.getNavigationHistory">>
              \o Inject("Page.navigateToHistoryEntry")
Reload     == <<"Page.getFrameTree", "Page.enable">> \o Inject("Page.navigate")

Script == CASE Command = "goto"  -> Goto
            [] Command = "click" -> Click
            [] Command \in {"back", "forward"} -> NavHistory
            [] Command = "reload" -> Reload
Steps  == 1 .. Len(Script)
Step(op) == CHOOSE s \in Steps : Script[s] = op

(* The steps whose failure ends the command with exit code 1. *)
Must ==
  CASE Command \in {"back", "forward"}      -> {2, 3}
    [] Command = "reload"                   -> {1, 3}
    [] Impl = "native" /\ Command \in {"goto", "click"} -> {1, 2}
    [] Impl = "node" /\ Command = "goto"  -> {1, 2, 4, 6}
    [] Impl = "node" /\ Command = "click" -> 1 .. 7

Urls == {"before", "old", "pushed", "after", "new"}
None == [entries |-> << >>, index |-> 0]      \* no history seen
Seen == [entries : Seq(Urls), index : Nat]
Message ==
  [kind : {"reply"}, id : Nat, step : Steps, ok : BOOLEAN, seen : Seen]
    \cup [kind : {"load", "close"}]

TypeOK ==
  /\ program \in Programs
  /\ step \in Steps
  /\ exit \in {"running", "complete", "failed"}
  /\ lastId \in Nat /\ waiting \in Nat
  /\ closed \in BOOLEAN /\ loadSeen \in BOOLEAN
  /\ got \in [Steps -> {"none", "ok", "error", "lost"}]
  /\ spoke \in [Steps -> Steps \cup {0}]
  /\ url \in [Steps -> Urls \cup {"none"}]
  /\ aim \in Urls \cup {"none"}
  /\ toEngine \in Seq([id : Nat, step : Steps, aim : Urls \cup {"none"}])
  /\ toClient \in Seq(Message)
  /\ nav \in {"old", "asked", "committed", "loaded"}
  /\ newUrl \in Urls /\ history \in Seq(Urls) /\ index \in DOMAIN history /\ historyRead \in Seen
  /\ {oldLoading, oldLoaded} \subseteq BOOLEAN /\ timer \in BOOLEAN /\ up \in BOOLEAN
  /\ loadRead \in BOOLEAN

(* The page shown at first carries a keep-alive timer.  It may be the first, the last or
   another entry of its history. *)
Init ==
  /\ program \in Programs
  /\ step = 1 /\ exit = "running" /\ lastId = 0 /\ waiting = 0
  /\ closed = FALSE /\ loadSeen = FALSE
  /\ got = [s \in Steps |-> "none"] /\ spoke = [s \in Steps |-> 0]
  /\ url = [s \in Steps |-> "none"]
  /\ toEngine = << >> /\ toClient = << >>
  /\ aim = "none" /\ historyRead = None /\ newUrl = "old"
  /\ history \in IF Command \in {"back", "forward"}
                 THEN {<<"old", "after">>, <<"before", "old">>, <<"before", "old", "after">>}
                 ELSE {<<"old">>}
  /\ index = CHOOSE i \in DOMAIN history : history[i] = "old"
  /\ nav = "old" /\ oldLoading \in {FALSE, OldPageLoading} /\ oldLoaded = FALSE
  /\ timer = TRUE /\ up = TRUE
  /\ loadRead = FALSE

-----------------------------------------------------------------------------
(* The program *)

Running == exit = "running"

(* The url of a getFrameTree step: a second one that fails is taken for unchanged. *)
UrlOf(outcome, reported) ==
  IF outcome = "ok" THEN reported.entries[reported.index]
  ELSE IF Command = "click" /\ step = 6 THEN url[3] ELSE "none"

(* Mutant of Target: counted from the end of the history. *)
TargetFromEnd(reported) ==
  LET target == IF Command = "back" THEN Len(reported.entries) - 1 ELSE reported.index + 1
  IN IF target \in DOMAIN reported.entries THEN reported.entries[target] ELSE "none"

(* navHistory: the entry next to the current one, "none" when there is none. *)
Target(reported) ==
  LET target == reported.index + (IF Command = "back" THEN -1 ELSE 1)
  IN IF target \in DOMAIN reported.entries THEN reported.entries[target] ELSE "none"

(* What the replies so far say of where to go. *)
Aim(outcome, reported) ==
  CASE outcome = "ok" /\ Script[step] = "Page.getNavigationHistory" -> Target(reported)
    [] outcome = "ok" /\ Command = "reload" /\ step = 1 -> UrlOf(outcome, reported)
    [] OTHER -> aim

(* The step is over: go on, or end the command.  click injects only when the url
   changed. *)
Advance(outcome, from, reported) ==
  /\ got' = [got EXCEPT ![step] = outcome]
  /\ spoke' = [spoke EXCEPT ![step] = from]
  /\ url' = IF Script[step] = "Page.getFrameTree"
            THEN [url EXCEPT ![step] = UrlOf(outcome, reported)] ELSE url
  /\ aim' = Aim(outcome, reported)
  /\ waiting' = 0
  /\ LET failed == \/ outcome # "ok" /\ step \in Must
                   \/ Script[step] = "Page.getNavigationHistory" /\ aim' = "none"
         done   == \/ step = Len(Script)
                   \/ Command = "click" /\ step = 6 /\ url'[6] = url[3]
     IN /\ exit' = IF failed THEN "failed" ELSE IF done THEN "complete" ELSE "running"
        /\ step' = IF failed \/ done THEN step ELSE step + 1

GiveUp == Advance("lost", 0, None)

(* Mutant of Slept: the url is read at once. *)
SleptNot == TRUE

(* 300 ms after the mouse button's release, unless Late, what it set off is loaded. *)
Slept == Command = "click" /\ step = 6 => Late \/ nav \in {"old", "loaded"}

(* sendText, or send() of a client library: fails at once on a closed connection. *)
Send ==
  /\ Running /\ Script[step] # "load" /\ waiting = 0 /\ Slept
  /\ IF closed
     THEN GiveUp /\ UNCHANGED <<lastId, toEngine>>
     ELSE /\ lastId' = lastId + 1 /\ waiting' = lastId'
          /\ toEngine' = Append(toEngine, [id |-> lastId', step |-> step, aim |-> aim])
          /\ UNCHANGED <<step, exit, got, spoke, url, aim>>
  /\ UNCHANGED <<program, closed, loadSeen, loadRead, toClient, pageVars>>

IsClose(m) == m.kind = "close"
IsLoad(m)  == m.kind = "load"
HasLoad    == Command # "click"
Reads(messages) ==
  loadRead' = (loadRead \/ (HasLoad /\ got[Step("load")] = "none" /\ \E m \in messages : IsLoad(m)))
IsReply(m) == m.kind = "reply" /\ m.id = waiting

(* Mutant of SendAndWait: the id of a reply is not looked at. *)
SendAndWaitAny ==
  /\ Running /\ Impl = "native" /\ waiting # 0 /\ toClient # << >>
  /\ LET m == Head(toClient) IN
     IF m.kind = "reply" THEN Advance(IF m.ok THEN "ok" ELSE "error", m.step, m.seen)
     ELSE UNCHANGED <<step, exit, waiting, got, spoke, url, aim>>
  /\ toClient' = Tail(toClient)
  /\ UNCHANGED <<program, lastId, closed, loadSeen, loadRead, toEngine, pageVars>>

(* sendAndWait: one poll reads a batch.  A close in it ends the wait before the rest is
   looked at; the matching reply ends it and everything else in the batch is dropped. *)
SendAndWait ==
  /\ Running /\ Impl = "native" /\ waiting # 0
  /\ \E n \in 1 .. Len(toClient) :
       LET batch == {toClient[i] : i \in 1 .. n} IN
       /\ toClient' = SubSeq(toClient, n + 1, Len(toClient))
       /\ Reads(batch)
       /\ closed' = \E m \in batch : IsClose(m)
       /\ IF closed' THEN GiveUp
          ELSE IF \E m \in batch : IsReply(m)
          THEN \E m \in batch : IsReply(m) /\ Advance(IF m.ok THEN "ok" ELSE "error", m.step, m.seen)
          ELSE UNCHANGED <<step, exit, waiting, got, spoke, url, aim>>
  /\ UNCHANGED <<program, lastId, loadSeen, toEngine, pageVars>>

(* Its deadline. *)
SendTimeout ==
  /\ Running /\ Impl = "native" /\ waiting # 0 /\ Late
  /\ GiveUp
  /\ UNCHANGED <<program, lastId, closed, loadSeen, loadRead, toEngine, toClient, pageVars>>

(* waitEvent: any load event in the batch will do. *)
WaitEvent ==
  /\ Running /\ Impl = "native" /\ Script[step] = "load"
  /\ \E n \in 1 .. Len(toClient) :
       LET batch == {toClient[i] : i \in 1 .. n} IN
       /\ toClient' = SubSeq(toClient, n + 1, Len(toClient))
       /\ Reads(batch)
       /\ closed' = \E m \in batch : IsClose(m)
       /\ loadSeen' = (~closed' /\ \E m \in batch : IsLoad(m))
       /\ IF closed' \/ loadSeen' THEN Advance(IF closed' THEN "lost" ELSE "ok", 0, None)
          ELSE UNCHANGED <<step, exit, waiting, got, spoke, url, aim>>
  /\ UNCHANGED <<program, lastId, toEngine, pageVars>>

LoadToCome ==
  \/ \E i \in DOMAIN toClient : toClient[i].kind = "load"
  \/ up /\ (oldLoading \/ nav \in {"asked", "committed"}
            \/ \E i \in DOMAIN toEngine : Script[toEngine[i].step] \in {"Page.navigate", "Page.navigateToHistoryEntry"})

(* 8 s without a load event. *)
LoadTimeout ==
  /\ Running /\ Script[step] = "load" /\ ~loadSeen
  /\ closed \/ Late \/ ~LoadToCome
  /\ GiveUp
  /\ UNCHANGED <<program, lastId, closed, loadSeen, loadRead, toEngine, toClient, pageVars>>

(* Mutant of OnMessage: goto registers its listener when it starts to wait. *)
OnMessageListeningLate ==
  /\ Running /\ Impl = "node" /\ toClient # << >>
  /\ toClient' = Tail(toClient)
  /\ LET m == Head(toClient) IN
     /\ Reads({m})
     /\ closed' = (closed \/ IsClose(m))
     /\ loadSeen' = (loadSeen \/ (IsLoad(m) /\ Script[step] = "load"))
     /\ IF IsReply(m) THEN Advance(IF m.ok THEN "ok" ELSE "error", m.step, m.seen)
        ELSE IF IsClose(m) /\ waiting # 0 THEN GiveUp
        ELSE UNCHANGED <<step, exit, waiting, got, spoke, url, aim>>
  /\ UNCHANGED <<program, lastId, toEngine, pageVars>>

(* Node: the connection's messages, one at a time.  The listener of goto was registered
   before the first command. *)
OnMessage ==
  /\ Running /\ Impl = "node" /\ toClient # << >>
  /\ toClient' = Tail(toClient)
  /\ LET m == Head(toClient) IN
     /\ Reads({m})
     /\ closed' = (closed \/ IsClose(m))
     /\ loadSeen' = (loadSeen \/ IsLoad(m))
     /\ IF IsReply(m) THEN Advance(IF m.ok THEN "ok" ELSE "error", m.step, m.seen)
        ELSE IF IsClose(m) /\ waiting # 0 THEN GiveUp
        ELSE UNCHANGED <<step, exit, waiting, got, spoke, url, aim>>
  /\ UNCHANGED <<program, lastId, toEngine, pageVars>>

(* Mutant of LoadAwaited: the load event is not awaited. *)
LoadNotAwaited ==
  /\ Running /\ Impl = "node" /\ Script[step] = "load"
  /\ Advance("ok", 0, None)
  /\ UNCHANGED <<program, lastId, closed, loadSeen, loadRead, toEngine, toClient, pageVars>>

LoadAwaited ==
  /\ Running /\ Impl = "node" /\ Script[step] = "load" /\ loadSeen
  /\ Advance("ok", 0, None)
  /\ UNCHANGED <<program, lastId, closed, loadSeen, loadRead, toEngine, toClient, pageVars>>

-----------------------------------------------------------------------------
(* Starfish, as the code in src/ relies on it *)

Push(m) == Len(toClient) < MaxSocket /\ toClient' = Append(toClient, m)
Known(url_) == \E i \in DOMAIN history : history[i] = url_
IndexOf(url_) == CHOOSE i \in DOMAIN history : history[i] = url_

(* pushState makes an entry of the document shown. *)
SameDocument(url_) == nav = "old" /\ {history[index], url_} \subseteq {"old", "pushed"}

(* A command done without an error: a url leads to itself or, by a redirect, to another
   page; a history entry is shown at once when it belongs to the document shown. *)
Does(op, to) ==
  CASE op = "Page.navigate" ->
         /\ nav' = "asked" /\ newUrl' \in (IF to = "none" THEN {"old"} ELSE {to}) \cup {"new"}
         /\ UNCHANGED index
    [] op = "mouseReleased" ->
         /\ \/ nav' = "asked" /\ newUrl' \in {"old", "new"}
            \/ UNCHANGED <<nav, newUrl>>
         /\ UNCHANGED index
    [] op = "Page.navigateToHistoryEntry" ->
         /\ Known(to)
         /\ IF SameDocument(to)
            THEN index' = IndexOf(to) /\ UNCHANGED <<nav, newUrl>>
            ELSE nav' = "asked" /\ newUrl' = to /\ UNCHANGED index
    [] OTHER -> UNCHANGED <<nav, newUrl, index>>

(* Commands are answered in order, each with a result or an error.  A script added for
   new documents is acknowledged and never run (cli.cpp:1934). *)
Handle ==
  /\ up /\ toEngine # << >>
  /\ toEngine' = Tail(toEngine)
  /\ \E ok \in BOOLEAN :
       LET c    == Head(toEngine)
           op   == Script[c.step]
           seen == [entries |-> history, index |-> index]
       IN /\ Push([kind |-> "reply", id |-> c.id, step |-> c.step, ok |-> ok, seen |-> seen])
          /\ IF ok THEN Does(op, c.aim) ELSE UNCHANGED <<nav, newUrl, index>>
          /\ historyRead' = IF op = "Page.getNavigationHistory" THEN seen ELSE historyRead
          /\ oldLoading' = (oldLoading /\ nav' = nav)
          /\ timer' = (timer \/ (ok /\ op = "Runtime.evaluate"))
  /\ UNCHANGED <<programVars, history, oldLoaded, up>>

(* The page adds an entry for itself. *)
PushState ==
  /\ up /\ nav = "old" /\ ~Known("pushed") /\ exit = "running"
  /\ history' = Append(SubSeq(history, 1, index), "pushed") /\ index' = index + 1
  /\ UNCHANGED <<programVars, toEngine, toClient, nav, newUrl, historyRead, oldLoading, oldLoaded,
                 timer, up>>

(* The new document replaces the old one and its timers; it may have a timer of its own. *)
Commit ==
  /\ up /\ nav = "asked"
  /\ nav' = "committed"
  /\ CASE Command \in {"back", "forward"} -> index' = IndexOf(newUrl) /\ UNCHANGED history
       [] OTHER -> IF newUrl = history[index] THEN UNCHANGED <<history, index>>
                   ELSE /\ history' = Append(SubSeq(history, 1, index), newUrl)
                        /\ index' = index + 1
  /\ timer' \in BOOLEAN
  /\ UNCHANGED <<programVars, toEngine, toClient, newUrl, historyRead, oldLoading, oldLoaded, up>>

Load ==
  /\ up /\ \/ nav = "committed" /\ nav' = "loaded" /\ UNCHANGED <<oldLoading, oldLoaded>>
           \/ oldLoading /\ oldLoading' = FALSE /\ oldLoaded' = TRUE /\ UNCHANGED nav
  /\ Push([kind |-> "load"])
  /\ UNCHANGED <<programVars, toEngine, newUrl, history, index, historyRead, timer, up>>

(* A loaded page without a timer lets the shell end, and the connection with it. *)
ShutDown ==
  /\ up /\ nav = "loaded" /\ ~timer
  /\ up' = FALSE
  /\ toClient' = Append(toClient, [kind |-> "close"])
  /\ UNCHANGED <<programVars, toEngine, nav, newUrl, history, index, historyRead, oldLoading,
                 oldLoaded, timer>>

Next == \/ Send \/ SendAndWait \/ SendTimeout \/ WaitEvent \/ LoadTimeout
        \/ OnMessage \/ LoadAwaited
        \/ Handle \/ PushState \/ Commit \/ Load \/ ShutDown

Spec == Init /\ [][Next]_vars

-----------------------------------------------------------------------------
\* Every reply a step takes is the reply to its own command, also after an earlier command
\* timed out and its reply came later.
RepliesMatch == \A s \in Steps : spoke[s] \in {0, s}

\* goto, back, forward and reload: when the command has waited for the load event, the
\* injection was answered and it ends well, as it reports, the page shown has a pending timer
\* and cannot shut down - unless, in the Node program, the load event waited for was that of
\* the page left, which had not loaded when the command began.
KeepsAlive ==
  /\ HasLoad /\ exit = "complete" /\ got[Step("load")] = "ok" /\ got[Step("Runtime.evaluate")] = "ok"
  /\ Impl = "node" => ~oldLoaded
  => timer

\* back and forward, unless something is late: the url reported at the end is that of the
\* entry next to the one the page showed when it was asked, even when the page adds an entry
\* meanwhile, an entry belongs to the document shown and its load event never comes, or that
\* event is lost.
OneEntryAway ==
  Command \in {"back", "forward"} /\ exit = "complete" /\ got[7] = "ok"
  /\ (~Late \/ got[4] = "ok")
  => \E i \in DOMAIN historyRead.entries :
       /\ historyRead.entries[i] = url[7]
       /\ i = historyRead.index + (IF Command = "back" THEN -1 ELSE 1)

\* goto and its like do not wait 8 s for a load event that they have read already.
LoadNotMissed ==
  HasLoad /\ got[Step("load")] = "lost" /\ ~closed => ~loadRead

\* The same of the Node program, whose listener is there before the navigation.
NodeLoadNotMissed == Impl = "node" => LoadNotMissed

\* click: when what it set off is loaded within its 300 ms and shows another url, and no
\* command of it failed, the page it leaves behind has a pending timer.
ClickReinjects ==
  Command = "click" /\ ~Late /\ exit = "complete" /\ nav = "loaded" /\ newUrl = "new"
  /\ (\A s \in Steps : got[s] \in {"ok", "none"}) => timer
=============================================================================

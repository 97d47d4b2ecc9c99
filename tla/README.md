# Verification of starfish-cdp-test

TLA+ models, TLC runs and TLAPS proofs for the programs of this repository that drive a
headless Starfish browser over the Chrome DevTools Protocol (CDP): the native client
(`native/bridge.mjs` and the C++ child `native/src/`), the two command line programs
(`native/src/cli.cpp`, `bin/starfish-cdp.mjs`) and the launch helper
(`helpers/starfish.mjs`).

## Inventory

### Components, their state and operations

**Node bridge** (`native/bridge.mjs`). `NativeBrowser` spawns the C++ child and speaks
line-delimited JSON with it. State: `#pending` (bridgeId -> promise), `#lastBridgeId`,
`#sessions`, `#pages`, `#closed`, the line buffer. Operations: `connect`, `_send`,
`newSession`, `pages`, `close`, the handlers of the child's lines (`ready`, `fatal`,
`result`, `error`, `event`, `pages`, `closed`) and of its exit. Correct when a promise
settles once, with the answer to its own call; nothing stays pending after the connection
is gone; `pages()` follows the child.

**NativeSession** (same file). A set of listeners per method, the wrappers of `once()`;
`on`, `once`, `off`, `_emit`. Correct when `once()` fires once and `off()` is final, also
when listeners change the set they are being called from.

**C++ child** (`main.cpp`, `cdp_client.cpp`). A `select()` loop over stdin and the socket;
`CdpClient` keeps `m_lastId`, `m_cdpToBridge`, `m_pages`. Operations: connect, handshake
(auto-attach, then poll for a first page for 5 s), `sendCommand`, `route`, close.
Correct when ids lead back to their calls, every change of the pages is announced, events
keep their order, and the process ends when its purpose does.

**WebSocket client** (`ws_client.cpp`). Receive buffer, fragments, closed flag;
`connectUrl`, `sendText`, `sendClose`, `poll`, `tryDecode`. Correct when messages do not
depend on how the stream is cut, and what is written can be read by RFC 6455.

**Lifecycle commands** (`start`, `stop`, `status`, `client` of both command line programs;
`launchStarfish`). Each is a process; they share `~/.starfish-cdp/state.json` and the
engines. Correct when the state file names the engine that runs, one instance is managed
at a time, none is left unmanaged and nobody else's engine is killed.

**Page commands** (the rest of `cli.cpp` and `starfish-cdp.mjs`). A process attaches to the
initial page, sends requests one after another with `sendAndWait`/`waitEvent` (native) or
promises (Node), prints and exits. `goto`, `click`, `back`, `forward`, `reload` navigate
and must leave a keep-alive timer in the new page, or Starfish shuts down. The input
commands (`type`, `fill`, `press`, `keyboard`, `mouse`, `select`, `scroll`, ...) change fields,
keys, buttons and controls, `storage` what the page keeps; `get`, `is`, `snapshot` and the captures read it.
Correct when the page is what was asked for, and what is printed or stored is what the page
holds.

**Loops** (`wait`, `waitForReady`, `initialPage`). State: a deadline, and at most one attempt
under way. Correct when success is fresh, the end is not far behind the deadline, and a
condition that holds is not missed.

**Conversions**: base64 (`base64.cpp`) and the vendored JSON library (`json.hpp`, 24765 of the
repository's lines, of which strings, integers, the parser and the writer are used). Correct
when they implement their grammars, and when what one side writes the other reads.

**Around them**: the choice between three clients in `helpers/starfish.mjs`, the demo, the
tests and the fixture server. Starfish itself, puppeteer and playwright are external.

### How they interact

Caller -> promise -> stdin line -> CDP id -> socket frame -> server, and back through
`m_cdpToBridge` and `#pending`: four buffers and two id maps, each side free to go away at
any time. Events and page snapshots share the way back. Command line programs meet only
in the state file, in the process table and in the engine's page.

### What is hard

Two id spaces with answers in any order; the closed line, `close()`, the exit event and
results racing for one promise; writes on a non-blocking socket whose outcome is ignored;
page maps replicated twice; timeouts whose replies still come; events thrown away
with a batch; processes that check, act and record in separate steps; cuts of a byte stream
at any place. `PROJECT.json` lists each hazard at its line with the properties that watch it.

## Modules

| Module | Models | Lines of code it stands for |
|---|---|---|
| `CdpBridge` | Node bridge, pipes, child, socket; the server as environment | bridge.mjs, main.cpp, cdp_client.cpp |
| `RequestReply` | what `NativeBrowser` promises about calls, abstractly | bridge.mjs |
| `CdpBridgeProofs` | theorems about `CdpBridge`: types, calls and their ids | |
| `CdpBridgeFlowProofs` | theorems about `CdpBridge`: page maps, events, where a pending call is | |
| `CdpBridgeRefinement` | `CdpBridge` implements `RequestReply` | |
| `SessionListeners` | `NativeSession`'s listeners | bridge.mjs:23-76 |
| `WsFrames` | bytes and frames of the WebSocket client | ws_client.cpp |
| `Lifecycle` | start, stop, client, engines, state file | cli.cpp, starfish-cdp.mjs, helpers/starfish.mjs |
| `PageCommands` | goto and click, native and Node; back, forward, reload; pushstate's effect | cdp_client.cpp, cli.cpp, starfish-cdp.mjs |
| `InputCommands` | type, fill, focus, dblclick, press, keydown, keyup, keyboard, mouse, hover, select, check, scroll, highlight, storage, get, is | cli.cpp |
| `PollLoops` | wait, waitForReady, initialPage, with time | cli.cpp, cdp_client.cpp, helpers/starfish.mjs |
| `SessionListenersProofs`, `LifecycleProofs`, `PageCommandsProofs`, `InputCommandsProofs`, `PollLoopsProofs` | theorems about the module each is named for | |
| `Base64` | both directions, and what screenshot and pdf store | base64.cpp, cli.cpp |
| `JsonText`, `JsonNumber`, `JsonTree` | strings and UTF-8, numbers, the parser and the writer | json.hpp |
| `AxTree` | snapshot's tree | cli.cpp |
| `Texts` | one conversion of one input, for the five modules above | main.cpp, cdp_client.cpp, cli.cpp |
| `MC*` | instances for TLC: symmetry sets, invocations, kinds of input | |

The actions of each module carry the names of the functions; `PROJECT.json` ("map") gives
the lines of every definition.

**CdpBridge.** Node's variables are the private fields of `NativeBrowser` plus, per call,
the fate of its promise (`outcome`) and whose answer it got (`answer`). `stdin` and
`stdout` are the pipes; the child's stdout has a capacity (`MaxPipe`) because `emit` blocks.
The child's `phase` is its place in `main()`; `lastId`, `cdpToBridge`, `pages` are
`CdpClient`'s members. `toChild` and `atServer` are the two directions of the socket. A
promise token stands for both the call and what it asks for, so a reply says whose
question it answers and a wrong match is visible. One action per handler: e.g. `Poll` reads a
batch of messages, routes each and emits all lines; `OnExit` rejects what is pending and
closes. The server answers in any order, attaches, detaches, destroys and hangs up.
`WriteMayFail` lets a write be refused or cut (then the stream is torn for good).

**RequestReply** has a call asked, answered while the link is open (or while the last lines
drain), and severed together with all others. `CdpBridge` implements it with
`link` as history variable.

**SessionListeners** keeps the sets as sequences (a JavaScript Set keeps insertion order),
and splits `_emit` so that callbacks run on, once and off between two others. `Careful` restricts
the caller: a callback given to `once()` is used for nothing else.

**WsFrames** works on bytes. `Decode` is `tryDecode`'s loop, `Frame` is `sendFrame`. The
server's frames are recorded with the byte they end at, so that what should have been
delivered after so many bytes is known without decoding.

**Lifecycle** has one step per system call that others can observe: read the state, probe,
launch, poll, truncate, fill, find, kill, wait, remove. An engine is named after the start
that launched it; `causes` remembers which commands killed it.

**PageCommands** runs one script of commands. `SendAndWait` takes a batch from the socket
and drops everything but the matching reply, as the code does; `OnMessage` is the Node side.
The page is old, asked, committed or loaded, and has a timer or not. `back` and `forward` read
the page's history, remember one entry (`aim`) and go to it, while the page may add an entry by `pushState`;
`reload` asks for the url it has read.

**InputCommands** runs several processes one after another. A script is a sequence of
messages, each marked by whether its failure ends the command. `Effect` says what a command is
for in one step, on the same page the engine's `Applied` works on message by message. `told` is
what the message handled last has read, so that a reply that belongs to another message shows.
`Documented` is the same by native/COMMANDS.md where that says something else, and `astray` becomes TRUE when the two
differ: from then on `PageAsAsked` says only which keys are held. `Patient` restricts the caller of `highlight` (see Findings).

**PollLoops** counts time in ticks, and no tick passes while the program can go on. `limit` is
what one attempt may take: 10 s for an evaluation, nothing for `pages()`, `Unlimited` for the HTTP request
of `waitForReady`. The condition turns at any time, answers carry the id of their attempt and when they
were true, and the server may be prompt, late, mute or gone. `getJson` listens for errors of its request only, so an
attempt without limit may outlive the connection.

**Base64, JsonText, JsonNumber, JsonTree, AxTree** are operators. Each is the code's own
algorithm, written as a fold of one step per character, byte or token where the code loops (the accumulator of
base64, the lexer's states, the automaton of the serializer, the parser's stack), next to a
definition of what the result should be that is made differently: the bits of RFC 4648, the
shortest forms of RFC 3629, the grammar of RFC 8259 as a set of meanings, the ways from the root of a tree. `Texts`
has an action for each use. Integers have `Width` bits instead of 64,
and `FloatLimit` is where floats become infinite; of a float nothing else is converted.

## What TLC checks

| Run | Bounds | Shows |
|---|---|---|
| `BridgeCalls` | 2 calls, 1 target, pipe 2, socket 2, failing writes | types; no call gets another's answer (`AnswersMatch`, `CallInv`); a pending call is in one place only (`CarriedOnce`); promises settle once; nothing pending after exit; refinement of `RequestReply` |
| `BridgeViews` | no calls, 2 targets, 2 sessions, 2 events each | page maps agree up to what is on the way; events come in order without gaps |
| `BridgeLive` | 2 calls, pipe 1, socket 1, fairness | every call settles; once the upgrade is answered or refused, `connect()` settles and the child ends |
| `ListenersCareful` | 2 events, 3 callbacks | `once()` fires once, `off()` is final |
| `Frames` | four kinds of traffic: 3 frames with everything between them, 4 frames of fragmented messages, 2 frames in 3 length forms and with masks, 126 bytes and 512 MiB, texts of 0 to 65536 bytes with pongs | messages do not depend on the cuts; the decoder gives up exactly when due; what is written is readable and in the shortest form; pings are answered |
| `Commands` | 4 Node commands one after another, or 3 commands of both programs interleaved, interrupted and timing out; a stray engine | one instance, none unmanaged, the state file is current (one after another); no stop kills somebody else's engine (always) |
| `Navigation` | all five commands, 3 messages in the socket, late replies, a first page that may be loading, at any place of a history of up to 3 entries | replies match after timeouts; keep-alive is there after an answered injection; back and forward go one entry; click injects when what it set off is loaded in time; no load event is missed (Node) |
| `Input` | 3 commands with timeouts: texts in two fields, or keys and mouse, or controls, or highlights and storage | no key stays down; up to the first command that is not as documented, the page is what the commands ask for; what is printed is what they have made of it |
| `Polling` | six loops with timeouts 0 to 6, limits 0, 3 and none; the condition turns 3 times; fairness | success is fresh; bounded overrun; a condition that holds long enough is not missed; limited loops end |
| `Texts` | all strings of 3 bytes out of 26 that bound a class, or of 3 code units out of 17, four-byte characters, cut and swapped escapes; numbers of 5 characters, around each limit of integers and of finite floats; documents of 5 tokens, and three longer ones with any one token replaced or dropped; captures of up to 7 bytes, with and without line breaks, into files with less room or none; all trees of 4 nodes, with nodes that have no id | the conversions agree with their grammars and with each other |
| `StartTimeout`, `GotoBatch` | small | counterexamples, see Findings |

Bounds. Two calls are enough for one to take the other's answer, and a third adds no new
pair; symmetry is sound since calls, targets, sessions and commands are compared for equality only
(the run with liveness uses none). Pipe and socket capacities of 1 and 2 make every
writer meet a full buffer. In `WsFrames` reads of one byte, and an upgrade response that may bring any number of bytes along, reach every cut; two frames of the long kind
put each length form before and after each other kind, and four short ones make a
fragmented message with control frames inside. Three commands are a start, a stop or a second start, and one
more; four in the serial run allow start-stop-start-stop. In `InputCommands` three commands let one
that timed out be followed by two whose messages queue behind it. In `PollLoops` an attempt of `wait` may take
3 ticks and its timeout is 2 or 6, so that one attempt outlasts the deadline, as 10 s outlast 5 s; 10 ticks are
more than the longest overrun. In `Texts`, byte and unit sets take both ends of each range the code
compares with, 7 bytes pass each of the accumulator's alignments twice, and 20 bits give integers of up to seven
digits, so that the two-digit loop of `dump_integer` ends with one digit and with two. `MaxRegs`,
`MaxEmits`, `MaxCommands`, `MaxEvents` and the `frames` and `texts` of a mix only cut behaviours off. A
module that is checked under several kinds of input (`Workloads`, `Programs`, `Mixes`, `Sessions`) takes one of them
in `Init` and keeps it, so that one run covers them all. Deadlock
checking is off in every run because every model may stop: connections end, commands exit
and bounds are reached.

The type invariants of `CdpBridge` and `PollLoops` are checked by runs; those of `Lifecycle`, `SessionListeners`,
`PageCommands` and `InputCommands` are proved instead, and those of the other modules are there to be read, and were checked as the modules grew.

Fairness is assumed in `BridgeLive` and `Polling`. In `BridgeLive`, `main`'s `select()` serves both descriptors in each turn and
its timeouts pass, Node's event loop runs ready callbacks, SIGTERM is delivered, and
the server answers each command it received until it hangs up. Attaching targets, sending events, hanging
up and everything the caller does is not fair. Nor is `Connect`: `connectUrl` waits for the answer to the upgrade with a
`recv()` that has no timeout (ws_client.cpp:121), so a server that stays mute keeps the child there. `ConnectSettles` and
`ChildEnds` therefore speak of a child that has left `"connecting"`; `CallsSettle` needs no such condition, as calls begin after the
ready line. The run takes `WriteMayFail = FALSE`: a
frame the socket refuses leaves its call pending until the connection ends. In `Polling` time passes,
timers fire, and the program's own steps are taken; a server answers only when it is prompt, so `LoopEnds` holds
against one that never does. Giving up is fair for attempts that have a limit only.

## Findings

Two have a run that violates one property:

- `StartTimeout` (`OthersUntouched`): a Node start that times out kills every Starfish (`pkill -x`), though AGENT_ENTRYPOINT_REVIEW.md:106 says there is no such kill in the CLI path.
- `GotoBatch` (`LoadNotMissed`): the native goto loses a load event read together with the navigate reply and waits 8 s.

More were met while the properties were stated, and show in the conditions of the properties. Take the
condition away and TLC finds the behaviour:

- `NoDoubleLaunch` without `Undisturbed`: two starts at once both launch, though start "Refuses to double-launch" (README.md:142).
- `OnceFiresOnce` with `Careful = FALSE`: `once()` twice with one callback makes a listener that cannot be removed (bridge.mjs:54).
- `KeepsAlive` without the answer to the injection: the native goto reports the keep-alive as injected when it is not (cli.cpp:593).
- `KeepsAlive` without `~oldLoaded`: goto may take the old page's load event for the new one's.
- `ClickReinjects` without `newUrl = "new"`: a click that leads to the same url leaves no keep-alive.
- `Delivered` without `decoded`: frames that come with the upgrade response are not decoded by `connectUrl`, though its comment says so (ws_client.cpp:155). Harmless as long as the server waits for a command.
- `PageAsAsked` with `Patient = FALSE`: highlight twice within 2 s leaves the outline red for good (cli.cpp:1971), which native/COMMANDS.md:55 calls transient: the second saves the red outline of the first and restores it.
- `ConnectSettles` and `ChildEnds` without `phase # "connecting"`: against a server that accepts and never answers the upgrade, `connect()` never settles and the child outlives Node (ws_client.cpp:121).
- `~astray` is no invariant (the condition is what keeps `PageAsAsked` to the documented cases): `mouse down` and `up` without a point act at (0,0) (cli.cpp:1816), though native/COMMANDS.md:116 says "at last point" and cli.cpp:1813 "the last moved point".
- `~astray` is no invariant for a second reason: `keyboard type` ends at the first character of more than one byte, where the program is ended by an exception (cli.cpp:1298, json.hpp:18521), though native/COMMANDS.md:48 says "per-char key events".
- `OverrunBounded` is not `now <= timeout`: an evaluation may outlast the deadline of `wait` by 10 s, though native/COMMANDS.md:155 says "until the element is visible (≤5s)".
- `LoopEnds` without `Limited`: `waitForReady` stays in `getJson` when the server is mute, or ends its response behind the headers (helpers/starfish.mjs:112).
- `NumbersSurvive` without `IsFinite`: a document with a number as large as 1e999 is rejected, though RFC 8259 has no such limit (json.hpp:12436).
- `LinesCarryStrings` without `WellFormed`: a line with half a surrogate pair is skipped by the child and its call stays pending.
- `CaptureIsWhole` without its conditions on `room`: screenshot and pdf say "saved" when the file could not be opened, or was full before the end (cli.cpp:787-789).
- `CaptureIsWhole` has no input with text behind a pad or cut within a group: `Decode` accepts both, though base64.h:8 says "returns false on invalid input".

## What is proved

Every theorem holds for all values of the constants that meet the named assumptions of its module, not only for
the instances TLC checks. `PROJECT.json` ("theorems") lists them.

### The bridge

From `NullsAssumption` and `BoundsAssumption` of `CdpBridge`, for any promises, targets, sessions, capacities and
both values of `WriteMayFail`:

| Theorem | States |
|---|---|
| `TypeCorrect` | `TypeOK` |
| `CallsCorrect`, `AnswersCorrect` | `CallInv`; a settled call has the server's answer to that very call (`AnswersMatch`) |
| `ExitCorrect`, `SettledOnceCorrect` | nothing is pending after the exit event; a settled call never changes |
| `CarriedCorrect` | `CarriedOnce`: a pending call is in one place at most, and in none only for a reason |
| `NodeViewCorrect`, `ChildViewCorrect` | `NodeViewInSync`, `ChildViewInSync`: the page maps follow the server's |
| `EventsCorrect` | `EventsInOrder`: no event of a session is lost, doubled or overtaken |
| `LinkCorrect`, `Refinement` | the closed line is the last one; `CdpBridge` implements `RequestReply` |

`AnswersMatch` is not inductive: a reply that is on its way under a wrong id would break it one
step later. `CallInv` says of each of the buffers (stdin, `cdpToBridge`, the server, the
socket, stdout) that an id found there has been given out already and leads, through the maps as they
are now, to the call whose body travels with it. An id is given out once (both counters only
grow), so a map entry that is dropped can never come to mean another call: that is `Stands`. The proof goes
action by action; frame lemmas carry over the parts an action does not touch. For the refinement, `LinkInv` orders
the closed line after every result, so the one step that severs the abstract link has nothing left to answer; every
other step is a stutter, an `Ask` or an `Answer`.

`CarriedOnce` counts carriers that are found through the maps. Its invariant (`CarrierInv`) speaks of ids instead: no
bridge id is in two of stdin, the child's map and stdout, no CDP id both at the server and in a reply, and none
twice in one of them (`Unique`). Fresh ids stay fresh because `CallInv` bounds all others. `Kept` is the converse, an id of a
pending call is in some stage, and needs `NoneEarly` where the child enters its loop: nothing was sent yet.

The page maps and the events need to know that Node is created by the ready line and by nothing else (`Boot`): before
it there is no session, and the map Node has afterwards is the one of that line. `ChildViewInSync` compares the server's map
with what the messages on the way will make of the child's. `ViewInv` adds that a session belongs to one target and was
given out (`OwnSessions`), and that a message on its way names target and session rightly (`NamedRight`), since `route`
drops an entry whichever of the two matches. For events, `Sorted`, `Whole` and `Joined` say that the numbers on the way are in
order in each pipe and across the two, without a gap up to the last one emitted, and that they begin where what was delivered ends.
Stating these properties without folds, as proofs need, and trying to prove them showed that `EventsInOrder` is about a live
Node only: once it is gone the child writes to nobody. With three events TLC shows the same; two could not.

### Listeners

`TypeCorrect` for any caller. `OnceFiresOnceCorrect` and `RemovedStaysRemovedCorrect` assume `Careful` (see Findings for what
happens without). Then a callback given to `once()` has one registration, so the wrapper remembered for it is the
only one there is and is what `off` finds (`Remembered`); a wrapper that is still in a set, or still to be called by the emission
under way, has not fired (`Pending`).

### Lifecycle

`TypeCorrect` and `StopSparesOthersCorrect` hold for all workloads, with any number of commands at once: the port a stop kills on
was read from the state file, where only starts put ports of their own (`Recorded`, `Knows`, `Aimed`).

`NoDoubleLaunchCorrect`, `NoOrphanCorrect` and `StateIsCurrentCorrect` hold of undisturbed commands
under two conditions, which the theorems state. `NodeStarts`: the starts are those of the Node program, as a native start that gives up
leaves its engine behind. `StraysApart`: no engine was launched by hand on a port some start is asked for; such an engine answers in place
of the start's own, and the file then records what does not run (TLC shows it when the condition is dropped).
The argument follows the one command that runs: `Phase` says for each of its steps what the engines and the state file look
like, `Settled` what they look like between two commands.

### Page commands

From `ParametersAssumption`, for both programs, any socket capacity and late replies: `TypeCorrect`, `RepliesMatchCorrect`,
`KeepsAliveCorrect`, `NodeLoadNotMissedCorrect`, `OneEntryAwayCorrect`, `ClickReinjectsCorrect`. The invariant ties what a command
was told to what the page was when the engine answered: `Ids` and `Progress` place the command, reply or result of each step, so that
a step is asked once; `Page` and `Loads` follow the one step that leaves the page and say whose load event is on its way; `Aimed`
and `Arrives` follow the entry that back and forward chose, and `Clicks` the url a click compares.

### Input commands

From `InputAssumption`, for any fields, keys, texts, distances and kinds of session, any number of commands and timeouts, and an
engine that may insert a character whatever the modifiers. The assumption keeps apart what the program can tell apart: the selector
that matches nothing, the point outside of every field and "no point given" are no fields, a key of one byte is no wider character, and
`keyboard type` is given some text (it sends nothing for an empty one).

| Theorem | States |
|---|---|
| `TypeCorrect` | `TypeOK` |
| `CourseIsKept` | `IInv`, the inductive invariant |
| `PrintedCorrect` | `PrintedAsAsked`: what is printed is what the commands so far have made of the field, never what an earlier message read |
| `OutlineIsOne`, `PageCorrect` | with `Patient` (see Findings for what happens without): at most one outline is on, or about to be; `PageAsAsked`, up to the first command that is not as documented |

`asked` is the page by `Effect`; as long as `~astray` it is also the page by `Documented`, which is why `PageAsAsked` compares with it under that condition only.

`PageAsAsked` compares two pages at the end only, when nothing is on its way. Before that a command whose waits time out ends
while its messages still queue, and the next one sends behind them; DOM.focus may be refused and a script makes it good. So
`OnCourse` follows every chain of pages that the queued messages may yet make of the present one: it
ends in one of the `Goals`, the pages that what was sent of the running script may have made of the page asked for. There is more than
one goal only after DOM.focus, which the next message settles. The operators `FieldGoals`, `DblclickGoals`, `PressGoals` and `HalfTyped` say
what they are for each script: a double click half done, a text typed up to a key that is still down. The lemma `Progress` says that a message
takes the goals before it to those after it; `EndGoal`, `FailGoal` and `AbortGoal` that the last ones are the command's effect,
what a failure leaves, and what was typed before a wider character. `LeadsOn` and `LeadsFurther` are handling and
sending. `LastIsOwn` and `AnswerIsOwn` tie the reply waited for to the message sent last, which gives `PrintedAsAsked` and a
focus that really moved when the script after DOM.focus is skipped; `Placed` keeps a command from passing its lookup without a field.

Pages are compared by `Same`, which leaves the outline of `highlight` out: its timer comes at any time and would break
every chain. `OneOutline` accounts for it apart. The proof asked for two assumptions the model had left unsaid (`Missing` is not the point
outside, no empty `KeyTexts`), and for `Typed` to be written message by message.

### Polling

From `LoopsAssumption`, for any loops with any timeouts, pauses, limits and any `Delay`:

- `TypeCorrect`: `TypeOK`.
- `FreshCorrect`: `FoundIsFresh`. Its strengthening (`Answers`) says that an answer on its way which carries the id of the
  attempt under way was given after that attempt began; ids only grow, so older answers can never match.
- `OverrunCorrect`: `OverrunBounded`, by where the loop may be at a time (`OnTime`): attempts begin before the deadline,
  and no tick passes one that is over its limit, or a pause that is.
- `NotMissedCorrect`: `NotMissed`, when prompt answers come before an attempt is given up (`AnsweredInTime`). By when the
  condition was last seen not to hold (`Seen`): at most `Delay` before a pause, hence at most `Delay` and a pause before a check.

### Only model-checked

The liveness properties (TLAPS has no liveness under fairness here). The properties of `WsFrames`, whose masks need
`Bitwise`, and those of `Texts`: its conversions are recursive or folds over sequences, and what they compute for every input
is out of this prover's reach.

## Assumptions about what is outside

The server gives each attachment a session id of its own and does not attach a target again
before it is detached; non-page targets and events without session change nothing that is
modelled. Lines and messages are well formed (both sides skip what does not parse). Once a frame
is cut short the server reads nothing more. An engine answers, stays mute when its port is taken,
and may end by itself; the moment between fork and exec, and the reuse of pids, are left out.
`mayFail` covers probes that time out, an engine that lingers after a kill, and interrupts;
without it, one command after another, `Undisturbed` says what holds when nothing of that happens. In `PageCommands`, `Late` allows replies after
their timeout and `OldPageLoading` a first page whose load event is still to come. Starfish serves one
connection at a time and in order; DOM.focus may be refused, other input commands are not.

## Not modelled

- `eval`, `cdp`, `text`, `html`, `status`, the attach check: one request and a print; `cookies`, `set offline`, `scrollintoview`: one or two
  requests that hand their arguments on.
- Argument parsing, usage texts, the wording of output, urls, the HTTP text of the upgrade.
- Of `json.hpp`: the conversion of floats (strtod but for whether the result is finite, to_chars), comments, callbacks, iterators, pointers,
  patches, and the binary formats. Most of its 24765 lines are templates, documentation and formats the repository
  never uses, so the share of the implementation's lines that the map covers stays small.
- The dispatch of `helpers/starfish.mjs` to puppeteer and playwright; demo, fixture server and tests; the Node program's `type`.

## Plan

Done in this order: bridge and its theorems, lifecycle, listeners, page commands, frames, input commands; then history
and reload, the remaining input commands and the readers, the polling loops with their theorems, the
conversions; then the theorems about page maps, events, lifecycle, listeners, page commands and input commands.

What could follow: a composition of `WsFrames` with the child's batches; `status` and the attach check against a `stop` that
runs at the same time; a version of `WsFrames` whose masks and folds are functions, to prove `Delivered`.

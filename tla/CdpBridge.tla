------------------------------ MODULE CdpBridge ------------------------------
(***************************************************************************)
(* The native client pipeline: a Node process holding a NativeBrowser      *)
(* (native/bridge.mjs), the C++ child it spawns (native/src/main.cpp with  *)
(* CdpClient), the two pipes between them and the WebSocket to Starfish's  *)
(* CDP server.  The server is outside the repository: it answers commands  *)
(* in any order, attaches and detaches targets and may close the socket.   *)
(*                                                                         *)
(* A promise p of Promises stands for one NativeSession.send() call, and   *)
(* also for what the call asks for, so a reply says whose question it      *)
(* answers.  Strings, JSON and payloads are abstracted to these tokens.    *)
(***************************************************************************)
EXTENDS Integers, Sequences, FiniteSets, Functions, SequencesExt

CONSTANTS
  Promises,       \* the send() calls the caller will make
  Targets,        \* CDP target ids
  Sessions,       \* flat session ids, each given to one attachment
  NoPromise, NoTarget, NoSession,
  MaxEvents,      \* bound: regular events the server emits per session
  MaxPipe,        \* capacity of the child's stdout, in lines: emit blocks when it is full
  MaxSocket,      \* capacity of the socket towards the child, in messages
  WriteMayFail    \* TRUE when the non-blocking socket may refuse a write

ASSUME NullsAssumption ==
  /\ NoPromise \notin Promises
  /\ NoTarget \notin Targets
  /\ NoSession \notin Sessions
ASSUME BoundsAssumption ==
  MaxEvents \in Nat /\ MaxPipe \in Nat /\ MaxSocket \in Nat /\ WriteMayFail \in BOOLEAN

VARIABLES
  (* Node: NativeBrowser *)
  browser,        \* connect()'s promise: "waiting", "ready", "failed"; "gone" when Node exited
  lastBridgeId,   \* #lastBridgeId
  pending,        \* #pending: bridgeId -> promise
  outcome,        \* what the caller's promise has become
  answer,         \* whose answer it was settled with
  nodeClosed,     \* #closed
  exitSeen,       \* the child's exit event was handled
  nodePages,      \* #pages
  sessions,       \* keys of #sessions
  delivered,      \* per session, the events given to _emit
  (* the pipes *)
  stdin, stdout,
  (* the child: main() and CdpClient *)
  phase,          \* where main() is
  lastId,         \* m_lastId
  cdpToBridge,    \* m_cdpToBridge: CDP id -> bridgeId
  pages,          \* m_pages: target -> session, NoSession when absent
  killed,         \* SIGTERM sent, not yet delivered
  (* the socket and the server *)
  torn,           \* a frame was cut short: the server can parse nothing after it
  unsent,         \* history: promises whose frame never left the child
  atServer,       \* commands sent and not answered yet
  toChild,        \* messages on their way to the child
  serverOpen,     \* the server's end of the socket
  attached,       \* the server's attached page targets
  usedSessions,   \* session ids the server has handed out
  emitted,        \* per session, how many regular events the server emitted
  verdict,        \* history: the server's answers, <<promise, ok>>
  link            \* history: "open", "draining" (closed line seen), "closed"

callVars   == <<lastBridgeId, pending, outcome, answer>>
viewVars   == <<nodePages, sessions, delivered>>
nodeVars   == <<browser, callVars, nodeClosed, exitSeen, viewVars, link>>
childVars  == <<phase, lastId, cdpToBridge, pages>>
wireVars   == <<torn, unsent, atServer>>
serverVars == <<serverOpen, attached, usedSessions, emitted, verdict>>
vars == <<nodeVars, stdin, stdout, childVars, killed, wireVars, toChild, serverVars>>

PageMap == [Targets -> Sessions \cup {NoSession}]
NoPages == [t \in Targets |-> NoSession]

Put(f, k, v) == [x \in DOMAIN f \cup {k} |-> IF x = k THEN v ELSE f[x]]
Drop(f, k)   == Restrict(f, DOMAIN f \ {k})

(* IPC lines and socket messages *)
Op      == [op : {"send"}, bridgeId : Nat, body : Promises] \cup [op : {"close"}]
Command == [id : Nat, body : Promises \cup {NoPromise}]
Message ==
  [kind : {"reply"}, id : Nat, ok : BOOLEAN, body : Promises \cup {NoPromise}]
    \cup [kind : {"attached"}, target : Targets, session : Sessions, page : BOOLEAN]
    \cup [kind : {"detached"}, target : Targets \cup {NoTarget}, session : Sessions]
    \cup [kind : {"destroyed"}, target : Targets]
    \cup [kind : {"event"}, session : Sessions, n : Nat]
    \cup [kind : {"close"}]
Line ==
  [type : {"result", "error"}, bridgeId : Nat, body : Promises \cup {NoPromise}]
    \cup [type : {"event"}, session : Sessions, n : Nat]
    \cup [type : {"ready", "pages"}, pages : PageMap]
    \cup [type : {"fatal", "closed"}]

TypeOK ==
  /\ browser \in {"waiting", "ready", "failed", "gone"}
  /\ lastBridgeId \in Nat
  /\ DOMAIN pending \subseteq Nat
  /\ \A b \in DOMAIN pending : pending[b] \in Promises
  /\ outcome \in [Promises -> {"idle", "pending", "resolved", "rejected", "refused"}]
  /\ answer \in [Promises -> Promises \cup {NoPromise}]
  /\ nodeClosed \in BOOLEAN /\ exitSeen \in BOOLEAN
  /\ nodePages \in PageMap
  /\ sessions \subseteq Sessions
  /\ delivered \in [Sessions -> Seq(Nat)]
  /\ stdin \in Seq(Op) /\ stdout \in Seq(Line)
  /\ phase \in {"connecting", "connected", "handshake", "running", "ended", "dead"}
  /\ lastId \in Nat
  /\ DOMAIN cdpToBridge \subseteq Nat
  /\ \A i \in DOMAIN cdpToBridge : cdpToBridge[i] \in Nat
  /\ pages \in PageMap
  /\ killed \in BOOLEAN
  /\ torn \in BOOLEAN /\ unsent \subseteq Promises
  /\ atServer \subseteq Command
  /\ toChild \in Seq(Message)
  /\ serverOpen \in BOOLEAN
  /\ attached \in PageMap
  /\ usedSessions \subseteq Sessions
  /\ emitted \in [Sessions -> Nat]
  /\ verdict \subseteq (Promises \cup {NoPromise}) \X BOOLEAN
  /\ link \in {"open", "draining", "closed"}

Init ==
  /\ browser = "waiting"
  /\ lastBridgeId = 0 /\ pending = << >>
  /\ outcome = [p \in Promises |-> "idle"]
  /\ answer = [p \in Promises |-> NoPromise]
  /\ nodeClosed = FALSE /\ exitSeen = FALSE
  /\ nodePages = NoPages /\ sessions = {} /\ delivered = [s \in Sessions |-> << >>]
  /\ stdin = << >> /\ stdout = << >>
  /\ phase = "connecting" /\ lastId = 0 /\ cdpToBridge = << >> /\ pages = NoPages
  /\ killed = FALSE
  /\ torn = FALSE /\ unsent = {} /\ atServer = {} /\ toChild = << >>
  /\ serverOpen = TRUE /\ attached = NoPages /\ usedSessions = {}
  /\ emitted = [s \in Sessions |-> 0]
  /\ verdict = {}
  /\ link = "open"

-----------------------------------------------------------------------------
(* Node: the caller's operations *)

(* _send on a closed browser: rejected on the spot, nothing is written. *)
SendRefused(p) ==
  /\ browser = "ready" /\ outcome[p] = "idle" /\ nodeClosed
  /\ outcome' = [outcome EXCEPT ![p] = "refused"]
  /\ UNCHANGED <<browser, lastBridgeId, pending, answer, nodeClosed, exitSeen, viewVars,
                 link, stdin, stdout, childVars, killed, wireVars, toChild, serverVars>>

(* _send: a fresh bridgeId, a pending entry and one line to the child. *)
Send(p) ==
  /\ browser = "ready" /\ outcome[p] = "idle" /\ ~nodeClosed
  /\ lastBridgeId' = lastBridgeId + 1
  /\ pending' = Put(pending, lastBridgeId', p)
  /\ outcome' = [outcome EXCEPT ![p] = "pending"]
  /\ stdin' = Append(stdin, [op |-> "send", bridgeId |-> lastBridgeId', body |-> p])
  /\ UNCHANGED <<browser, answer, nodeClosed, exitSeen, viewVars, link, stdout,
                 childVars, killed, wireVars, toChild, serverVars>>

(* Mutant of NewSession: the page is not looked up before use. *)
NewSessionUnchecked(t) ==
  /\ browser = "ready"
  /\ sessions' = sessions \cup {nodePages[t]}
  /\ UNCHANGED <<browser, callVars, nodeClosed, exitSeen, nodePages, delivered, link,
                 stdin, stdout, childVars, killed, wireVars, toChild, serverVars>>

(* newSession: a session object cached under the page's session id. *)
NewSession(t) ==
  /\ browser = "ready" /\ nodePages[t] \in Sessions \ sessions
  /\ sessions' = sessions \cup {nodePages[t]}
  /\ UNCHANGED <<browser, callVars, nodeClosed, exitSeen, nodePages, delivered, link,
                 stdin, stdout, childVars, killed, wireVars, toChild, serverVars>>

(* Mutant of RejectPending: the calls stay pending. *)
RejectNothing == UNCHANGED <<lastBridgeId, pending, outcome, answer>>

(* _rejectPending: every pending promise is refused and the map cleared. *)
RejectPending ==
  /\ outcome' = [p \in Promises |->
                   IF p \in Range(pending) THEN "refused" ELSE outcome[p]]
  /\ pending' = << >>
  /\ UNCHANGED <<lastBridgeId, answer>>

(* close(): a close op, SIGTERM right after it, and every pending promise refused. *)
Close ==
  /\ browser = "ready" /\ ~nodeClosed
  /\ nodeClosed' = TRUE /\ link' = "closed"
  /\ stdin' = Append(stdin, [op |-> "close"])
  /\ killed' = TRUE
  /\ RejectPending
  /\ UNCHANGED <<browser, exitSeen, viewVars, stdout, childVars, wireVars, toChild,
                 serverVars>>

(* The Node process ends without close(): the child's stdin is at end of file, and
   what it wrote is read by nobody. *)
NodeGone ==
  /\ browser # "gone"
  /\ browser' = "gone" /\ stdout' = << >>
  /\ UNCHANGED <<callVars, nodeClosed, exitSeen, viewVars, link, stdin, childVars,
                 killed, wireVars, toChild, serverVars>>

-----------------------------------------------------------------------------
(* Node: _onStdout hands each line to _handle *)

TakeLine(type) ==
  /\ browser # "gone" /\ stdout # << >> /\ Head(stdout).type = type
  /\ stdout' = Tail(stdout)
  /\ UNCHANGED <<stdin, childVars, killed, wireVars, toChild, serverVars>>

(* "ready" resolves connect() and applies the first snapshot, unless connect()
   has settled already. *)
HandleReady ==
  /\ TakeLine("ready")
  /\ IF browser = "waiting"
     THEN browser' = "ready" /\ nodePages' = Head(stdout).pages
     ELSE UNCHANGED <<browser, nodePages>>
  /\ UNCHANGED <<callVars, nodeClosed, exitSeen, sessions, delivered, link>>

(* "fatal" rejects connect(). *)
HandleFatal ==
  /\ TakeLine("fatal")
  /\ browser' = IF browser = "waiting" THEN "failed" ELSE browser
  /\ UNCHANGED <<callVars, nodeClosed, exitSeen, viewVars, link>>

(* Mutant of Settle: the pending entry outlives the answer. *)
SettleKeepingEntry(how) ==
  LET line == Head(stdout) IN
  /\ UNCHANGED pending
  /\ IF line.bridgeId \in DOMAIN pending
     THEN /\ outcome' = [outcome EXCEPT ![pending[line.bridgeId]] = how]
          /\ answer' = [answer EXCEPT ![pending[line.bridgeId]] = line.body]
     ELSE UNCHANGED <<outcome, answer>>

(* "result" and "error" settle the pending promise of their bridgeId, if any. *)
Settle(how) ==
  LET line == Head(stdout) IN
  IF line.bridgeId \in DOMAIN pending
  THEN /\ outcome' = [outcome EXCEPT ![pending[line.bridgeId]] = how]
       /\ answer' = [answer EXCEPT ![pending[line.bridgeId]] = line.body]
       /\ pending' = Drop(pending, line.bridgeId)
  ELSE UNCHANGED <<outcome, answer, pending>>

HandleResult ==
  /\ TakeLine("result") /\ Settle("resolved")
  /\ UNCHANGED <<browser, lastBridgeId, nodeClosed, exitSeen, viewVars, link>>

HandleError ==
  /\ TakeLine("error") /\ Settle("rejected")
  /\ UNCHANGED <<browser, lastBridgeId, nodeClosed, exitSeen, viewVars, link>>

(* "event" reaches the listeners of its session, if the session was created. *)
HandleEvent ==
  /\ TakeLine("event")
  /\ LET line == Head(stdout) IN
     delivered' = IF line.session \in sessions
                  THEN [delivered EXCEPT ![line.session] = Append(@, line.n)]
                  ELSE delivered
  /\ UNCHANGED <<browser, callVars, nodeClosed, exitSeen, nodePages, sessions, link>>

(* "pages" replaces the whole page map. *)
HandlePages ==
  /\ TakeLine("pages")
  /\ nodePages' = Head(stdout).pages
  /\ UNCHANGED <<browser, callVars, nodeClosed, exitSeen, sessions, delivered, link>>

(* "closed" refuses what is pending; the browser does not become closed yet. *)
HandleClosed ==
  /\ TakeLine("closed")
  /\ RejectPending
  /\ link' = IF link = "open" THEN "draining" ELSE link
  /\ UNCHANGED <<browser, nodeClosed, exitSeen, viewVars>>

(* Mutant of OnExit: #closed is not set. *)
OnExitKeepingOpen ==
  /\ browser # "gone" /\ phase = "dead" /\ ~exitSeen
  /\ exitSeen' = TRUE /\ link' = "closed"
  /\ RejectPending
  /\ browser' = IF browser = "waiting" THEN "failed" ELSE browser
  /\ UNCHANGED <<nodeClosed, viewVars, stdin, stdout, childVars, killed, wireVars,
                 toChild, serverVars>>

(* The child's exit event; stdout may still hold lines that were not read. *)
OnExit ==
  /\ browser # "gone" /\ phase = "dead" /\ ~exitSeen
  /\ exitSeen' = TRUE /\ nodeClosed' = TRUE /\ link' = "closed"
  /\ RejectPending
  /\ browser' = IF browser = "waiting" THEN "failed" ELSE browser
  /\ UNCHANGED <<viewVars, stdin, stdout, childVars, killed, wireVars, toChild,
                 serverVars>>

-----------------------------------------------------------------------------
(* The child *)

(* Mutant of Emit: a full pipe loses the line instead of blocking. *)
EmitOrDrop(lines) ==
  stdout' = IF browser = "gone" \/ Len(stdout) >= MaxPipe THEN stdout ELSE stdout \o lines

(* emit: blocks while stdout is full; fails unnoticed once Node is gone. *)
Emit(lines) ==
  IF browser = "gone" \/ lines = << >> THEN UNCHANGED stdout
  ELSE Len(stdout) < MaxPipe /\ stdout' = stdout \o lines

(* sendText: the frame reaches the server unless an earlier one was cut short;
   a full socket buffer loses this one, cutting it short or not. *)
Transmit(id, body) ==
  \/ /\ ~torn
     /\ atServer' = atServer \cup {[id |-> id, body |-> body]}
     /\ UNCHANGED <<torn, unsent>>
  \/ /\ WriteMayFail
     /\ torn' \in {torn, TRUE}
     /\ unsent' = unsent \cup {body}
     /\ UNCHANGED atServer

(* connectUrl: the server has answered the upgrade and it succeeds; or the server refuses,
   closes or cannot be found, and main() reports a fatal error and returns.  connectUrl reads
   the answer with a blocking recv() and no deadline, and stdin is not read before it returns:
   as long as the server accepts and stays mute, this step is not taken. *)
Connect ==
  /\ phase = "connecting"
  /\ \/ phase' = "connected" /\ UNCHANGED stdout
     \/ phase' = "ended" /\ Emit(<<[type |-> "fatal"]>>)
  /\ UNCHANGED <<nodeVars, stdin, lastId, cdpToBridge, pages, killed, wireVars, toChild,
                 serverVars>>

(* Mutant of HandshakeBegin: one id is allocated for two commands. *)
HandshakeBeginOneId ==
  /\ phase = "connected"
  /\ lastId' = lastId + 1
  /\ atServer' = atServer \cup {[id |-> lastId + i, body |-> NoPromise] : i \in {1, 2}}
  /\ phase' = "handshake"
  /\ UNCHANGED <<nodeVars, stdin, stdout, cdpToBridge, pages, killed, torn, unsent,
                 toChild, serverVars>>

(* handshake: two commands whose ids are never entered in m_cdpToBridge. *)
HandshakeBegin ==
  /\ phase = "connected"
  /\ lastId' = lastId + 2
  /\ \/ /\ atServer' = atServer \cup {[id |-> lastId + i, body |-> NoPromise] : i \in {1, 2}}
        /\ phase' = "handshake" /\ UNCHANGED stdout
     \/ /\ WriteMayFail /\ UNCHANGED atServer
        /\ phase' = "ended" /\ Emit(<<[type |-> "fatal"]>>)
  /\ UNCHANGED <<nodeVars, stdin, cdpToBridge, pages, killed, torn, unsent, toChild,
                 serverVars>>

(* Mutant of PagesAfter: a detachment is matched by its target id only. *)
PagesAfterTargetIdOnly(m) ==
  CASE m.kind = "attached" /\ m.page -> [pages EXCEPT ![m.target] = m.session]
    [] m.kind \in {"detached", "destroyed"} -> [pages EXCEPT ![m.target] = NoSession]
    [] OTHER -> pages

(* route: its effect on m_pages, and whether pagesChanged. *)
PagesAfter(m) ==
  CASE m.kind = "attached" /\ m.page -> [pages EXCEPT ![m.target] = m.session]
    [] m.kind = "detached"  -> [t \in Targets |->
                                  IF t = m.target \/ pages[t] = m.session
                                  THEN NoSession ELSE pages[t]]
    [] m.kind = "destroyed" -> [pages EXCEPT ![m.target] = NoSession]
    [] OTHER -> pages

(* Mutant of PagesChanged: only attachments are announced. *)
PagesChangedByAttach(m) == m.kind = "attached" /\ m.page

PagesChanged(m) == (m.kind = "attached" /\ m.page) \/ PagesAfter(m) # pages

(* route: a reply whose id is known, once, under its bridgeId. *)
ReplyLines(m) ==
  IF m.id \in DOMAIN cdpToBridge
  THEN <<[type |-> IF m.ok THEN "result" ELSE "error",
          bridgeId |-> cdpToBridge[m.id], body |-> m.body]>>
  ELSE << >>

(* Mutant of LinesOf: replies carrying an error are not forwarded. *)
LinesOfResultsOnly(m) == IF m.kind = "reply" /\ m.ok THEN ReplyLines(m) ELSE << >>

(* route: the IPC lines a message becomes. *)
LinesOf(m) ==
  IF m.kind = "reply" THEN ReplyLines(m)
  ELSE IF m.kind = "event"
  THEN <<[type |-> "event", session |-> m.session, n |-> m.n]>>
  ELSE IF PagesChanged(m)
  THEN <<[type |-> "pages", pages |-> PagesAfter(m)]>>
  ELSE << >>

Route(m) ==
  /\ cdpToBridge' = IF m.kind = "reply" THEN Drop(cdpToBridge, m.id) ELSE cdpToBridge
  /\ pages' = PagesAfter(m)

(* handshake's pump: messages update the maps, their lines are discarded. *)
HandshakePoll ==
  /\ phase = "handshake" /\ toChild # << >> /\ Head(toChild).kind # "close"
  /\ Route(Head(toChild))
  /\ toChild' = Tail(toChild)
  /\ UNCHANGED <<nodeVars, stdin, stdout, phase, lastId, killed, wireVars, serverVars>>

(* handshake returns once a batch left m_pages non-empty: the ready line. *)
HandshakeDone ==
  /\ phase = "handshake" /\ pages # NoPages
  /\ phase' = "running"
  /\ Emit(<<[type |-> "ready", pages |-> pages]>>)
  /\ UNCHANGED <<nodeVars, stdin, lastId, cdpToBridge, pages, killed, wireVars, toChild,
                 serverVars>>

(* Mutant of HandshakeFailed: no deadline. *)
HandshakeFailedOnCloseOnly ==
  /\ phase = "handshake" /\ pages = NoPages
  /\ phase' = "ended"
  /\ [kind |-> "close"] \in Range(toChild) /\ toChild' = << >>
  /\ Emit(<<[type |-> "fatal"]>>)
  /\ UNCHANGED <<nodeVars, stdin, lastId, cdpToBridge, pages, killed, wireVars, serverVars>>

(* handshake fails: 5 s without a page, or a close read in the same poll as any
   messages before it, which are then dropped. *)
HandshakeFailed ==
  /\ phase = "handshake" /\ pages = NoPages
  /\ phase' = "ended"
  /\ \/ UNCHANGED toChild
     \/ [kind |-> "close"] \in Range(toChild) /\ toChild' = << >>
  /\ Emit(<<[type |-> "fatal"]>>)
  /\ UNCHANGED <<nodeVars, stdin, lastId, cdpToBridge, pages, killed, wireVars, serverVars>>

(* Mutant of ReadSend: the map entry is made before the id is allocated. *)
ReadSendOldId ==
  /\ phase = "running" /\ stdin # << >> /\ Head(stdin).op = "send"
  /\ stdin' = Tail(stdin)
  /\ lastId' = lastId + 1
  /\ cdpToBridge' = Put(cdpToBridge, lastId, Head(stdin).bridgeId)
  /\ Transmit(lastId', Head(stdin).body)
  /\ UNCHANGED <<nodeVars, stdout, phase, pages, killed, toChild, serverVars>>

(* main's stdin half on a send op: sendCommand, which ignores sendText's result. *)
ReadSend ==
  /\ phase = "running" /\ stdin # << >> /\ Head(stdin).op = "send"
  /\ stdin' = Tail(stdin)
  /\ lastId' = lastId + 1
  /\ cdpToBridge' = Put(cdpToBridge, lastId', Head(stdin).bridgeId)
  /\ Transmit(lastId', Head(stdin).body)
  /\ UNCHANGED <<nodeVars, stdout, phase, pages, killed, toChild, serverVars>>

(* Mutant of ReadClose: end of file is not noticed. *)
ReadCloseOpOnly ==
  /\ phase = "running"
  /\ stdin # << >> /\ Head(stdin).op = "close" /\ stdin' = Tail(stdin)
  /\ phase' = "ended"
  /\ UNCHANGED <<nodeVars, stdout, lastId, cdpToBridge, pages, killed, wireVars, toChild,
                 serverVars>>

(* main's stdin half on a close op or at end of file: the loop ends. *)
ReadClose ==
  /\ phase = "running"
  /\ \/ stdin # << >> /\ Head(stdin).op = "close" /\ stdin' = Tail(stdin)
     \/ stdin = << >> /\ browser = "gone" /\ UNCHANGED stdin
  /\ phase' = "ended"
  /\ UNCHANGED <<nodeVars, stdout, lastId, cdpToBridge, pages, killed, wireVars, toChild,
                 serverVars>>

(* main's socket half: one decoded message is routed and its lines emitted. *)
Poll ==
  /\ phase = "running" /\ toChild # << >> /\ Head(toChild).kind # "close"
  /\ Route(Head(toChild))
  /\ Emit(LinesOf(Head(toChild)))
  /\ toChild' = Tail(toChild)
  /\ UNCHANGED <<nodeVars, stdin, phase, lastId, killed, wireVars, serverVars>>

(* main's socket half when poll reports the close: the closed line comes last. *)
PollClosed ==
  /\ phase = "running" /\ toChild # << >> /\ Head(toChild).kind = "close"
  /\ Emit(<<[type |-> "closed"]>>)
  /\ phase' = "ended" /\ toChild' = Tail(toChild)
  /\ UNCHANGED <<nodeVars, stdin, lastId, cdpToBridge, pages, killed, wireVars, serverVars>>

(* main returns, or SIGTERM ends the child wherever it is; its socket closes and
   what was on it is gone. *)
Exit ==
  /\ phase # "dead" /\ (phase = "ended" \/ killed)
  /\ phase' = "dead" /\ serverOpen' = FALSE /\ toChild' = << >> /\ atServer' = {}
  /\ UNCHANGED <<nodeVars, stdin, stdout, lastId, cdpToBridge, pages, killed, torn,
                 unsent, attached, usedSessions, emitted, verdict>>

-----------------------------------------------------------------------------
(* The CDP server, as the code in src/ relies on it *)

Serving == serverOpen /\ phase # "connecting"
Push(m) == Len(toChild) < MaxSocket /\ toChild' = Append(toChild, m)
ServerLeaves == UNCHANGED <<nodeVars, stdin, stdout, childVars, killed, torn, unsent,
                            serverOpen>>

(* Any outstanding command is answered, with a result or an error. *)
Reply(c) ==
  /\ Serving
  /\ atServer' = atServer \ {c}
  /\ \E ok \in BOOLEAN :
       /\ Push([kind |-> "reply", id |-> c.id, ok |-> ok, body |-> c.body])
       /\ verdict' = verdict \cup {<<c.body, ok>>}
  /\ UNCHANGED <<attached, usedSessions, emitted>> /\ ServerLeaves

(* After setAutoAttach a target is attached under a session id never used before;
   attachments of other than pages are announced too. *)
Attach(t, s) ==
  /\ Serving /\ lastId >= 2 /\ s \notin usedSessions
  /\ usedSessions' = usedSessions \cup {s}
  /\ \E page \in BOOLEAN :
       /\ page => attached[t] = NoSession
       /\ attached' = IF page THEN [attached EXCEPT ![t] = s] ELSE attached
       /\ Push([kind |-> "attached", target |-> t, session |-> s, page |-> page])
  /\ UNCHANGED <<emitted, verdict, atServer>> /\ ServerLeaves

(* A page goes away: named by its session, with or without its target id (the
   target id of detachedFromTarget is optional), or by its target when destroyed. *)
Detach(t) ==
  /\ Serving /\ attached[t] # NoSession
  /\ attached' = [attached EXCEPT ![t] = NoSession]
  /\ \/ \E named \in {t, NoTarget} :
          Push([kind |-> "detached", target |-> named, session |-> attached[t]])
     \/ Push([kind |-> "destroyed", target |-> t])
  /\ UNCHANGED <<usedSessions, emitted, verdict, atServer>> /\ ServerLeaves

(* A regular protocol event of a session.  (Browser-level events carry no session
   id: the child forwards them and NativeBrowser finds no session for them.) *)
EmitEvent(s) ==
  /\ Serving /\ s \in usedSessions /\ emitted[s] < MaxEvents
  /\ emitted' = [emitted EXCEPT ![s] = @ + 1]
  /\ Push([kind |-> "event", session |-> s, n |-> emitted'[s]])
  /\ UNCHANGED <<attached, usedSessions, verdict, atServer>> /\ ServerLeaves

(* The server closes the socket or vanishes; what it had not answered is lost. *)
Hangup ==
  /\ Serving
  /\ serverOpen' = FALSE
  /\ toChild' = Append(toChild, [kind |-> "close"])
  /\ UNCHANGED <<nodeVars, stdin, stdout, childVars, killed, wireVars, attached,
                 usedSessions, emitted, verdict>>

-----------------------------------------------------------------------------
NodeHandles == \/ HandleReady \/ HandleFatal \/ HandleResult \/ HandleError
               \/ HandleEvent \/ HandlePages \/ HandleClosed

NodeNext == \/ \E p \in Promises : Send(p) \/ SendRefused(p)
            \/ \E t \in Targets : NewSession(t)
            \/ Close \/ NodeGone \/ OnExit
            \/ NodeHandles

ChildNext == \/ Connect \/ HandshakeBegin \/ HandshakePoll \/ HandshakeDone
             \/ HandshakeFailed \/ ReadSend \/ ReadClose \/ Poll \/ PollClosed \/ Exit

ServerNext == \/ \E c \in atServer : Reply(c)
              \/ \E t \in Targets : Detach(t) \/ \E s \in Sessions : Attach(t, s)
              \/ \E s \in Sessions : EmitEvent(s)
              \/ Hangup

Next == NodeNext \/ ChildNext \/ ServerNext

Spec == Init /\ [][Next]_vars
-----------------------------------------------------------------------------
(* Safety *)

Settled == {"resolved", "rejected", "refused"}

\* A settled call carries the answer the server gave to that very call: the two id
\* spaces (bridgeId and CDP id), crossed by _send, sendCommand and route, are never
\* confused, in whatever order the server replies.
AnswersMatch ==
  \A p \in Promises :
    /\ outcome[p] = "resolved" => answer[p] = p /\ <<p, TRUE>> \in verdict
    /\ outcome[p] = "rejected" => answer[p] = p /\ <<p, FALSE>> \in verdict

\* A call is settled at most once: after resolve or reject nothing changes it, however
\* a reply, the closed line, close() and the exit event race.
SettledOnce ==
  [][\A p \in Promises : outcome[p] \in Settled =>
        outcome'[p] = outcome[p] /\ answer'[p] = answer[p]]_vars

(* If bridgeId b still awaits an answer, it is the call p that does. *)
Stands(b, p) == b \in DOMAIN pending => pending[b] = p

PendingOK ==
  /\ \A b \in DOMAIN pending : b <= lastBridgeId /\ outcome[pending[b]] = "pending"
  /\ IsInjective(pending)
  /\ \A p \in Promises : outcome[p] = "pending" => p \in Range(pending)
  /\ exitSeen => nodeClosed
  /\ nodeClosed => DOMAIN pending = {}

StdinOK ==
  \A o \in Range(stdin) : o.op = "send" =>
    o.bridgeId <= lastBridgeId /\ Stands(o.bridgeId, o.body)

MapOK == \A id \in DOMAIN cdpToBridge : id <= lastId /\ cdpToBridge[id] <= lastBridgeId

(* A command or a reply with this id speaks for the call it was made for. *)
Speaks(id, body) ==
  id <= lastId /\ (id \in DOMAIN cdpToBridge => Stands(cdpToBridge[id], body))

ServerOK == \A c \in atServer : Speaks(c.id, c.body)

SocketOK ==
  \A m \in Range(toChild) : m.kind = "reply" =>
    Speaks(m.id, m.body) /\ <<m.body, m.ok>> \in verdict

StdoutOK ==
  \A l \in Range(stdout) : l.type \in {"result", "error"} =>
    /\ l.bridgeId <= lastBridgeId /\ Stands(l.bridgeId, l.body)
    /\ <<l.body, l.type = "result">> \in verdict

\* At every stage between _send and _handle an id still leads to the call it was given
\* to, and ids not given out yet occur nowhere: the inductive core of AnswersMatch.
CallInv ==
  PendingOK /\ StdinOK /\ MapOK /\ ServerOK /\ SocketOK /\ StdoutOK /\ AnswersMatch

\* The closed line is the last the child writes, so that once Node has handled it no
\* result can follow, and #closed is what separates refusing calls from accepting them.
LinkInv ==
  /\ link = "closed" <=> nodeClosed
  /\ link = "draining" => phase \in {"ended", "dead"} /\ stdout = << >>
  /\ \A i \in DOMAIN stdout : stdout[i].type = "closed" =>
       i = Len(stdout) /\ phase \in {"ended", "dead"}

(* Where a pending call is on its way, each stage mapped back to the promise. *)
Owner(b) == IF b \in DOMAIN pending THEN pending[b] ELSE NoPromise
Mapped(id) == IF id \in DOMAIN cdpToBridge THEN Owner(cdpToBridge[id]) ELSE NoPromise
Carriers(p) ==
  {<<"stdin", i>> : i \in {j \in DOMAIN stdin :
                             stdin[j].op = "send" /\ Owner(stdin[j].bridgeId) = p}}
    \cup {<<"server", c.id>> : c \in {d \in atServer : Mapped(d.id) = p}}
    \cup {<<"socket", i>> : i \in {j \in DOMAIN toChild :
                             toChild[j].kind = "reply" /\ Mapped(toChild[j].id) = p}}
    \cup {<<"stdout", i>> : i \in {j \in DOMAIN stdout :
                             stdout[j].type \in {"result", "error"}
                               /\ Owner(stdout[j].bridgeId) = p}}

\* While the connection stands, a pending call is in exactly one place between _send and
\* _handle, unless its frame was refused by the socket; it is never in two.
CarriedOnce ==
  \A p \in Promises : outcome[p] = "pending" =>
    /\ Cardinality(Carriers(p)) <= 1
    /\ phase = "running" /\ serverOpen /\ p \notin unsent /\ browser # "gone"
         => Carriers(p) # {}

(* What a message says of target t and session s: it makes s the page of t, or ends that. *)
Begins(m, t, s) == m.kind = "attached" /\ m.page /\ m.target = t /\ m.session = s
Ends(m, t, s) ==
  \/ m.kind = "attached" /\ m.page /\ m.target = t /\ m.session # s
  \/ m.kind = "detached" /\ m.session = s
  \/ m.kind = "destroyed" /\ m.target = t

(* The child's page map, caught up with the first k messages on the way, has s for t. *)
Foreseen(k, t, s) ==
  \/ pages[t] = s /\ \A j \in 1 .. k : ~Ends(toChild[j], t, s)
  \/ \E i \in 1 .. k : /\ Begins(toChild[i], t, s)
                      /\ \A j \in i + 1 .. k : ~Ends(toChild[j], t, s)

\* The child's page map is the server's, up to the messages not read yet: no attachment,
\* detachment or destruction is lost or misapplied, before or after the handshake.
ChildViewInSync ==
  phase \in {"handshake", "running"} =>
    \A t \in Targets, s \in Sessions : attached[t] = s <=> Foreseen(Len(toChild), t, s)

\* NativeBrowser's page map is the child's, up to the snapshots still in the stdout pipe:
\* every change of m_pages is announced, and the last announcement is the current map.
NodeViewInSync ==
  LET shots == {i \in DOMAIN stdout : stdout[i].type \in {"ready", "pages"}} IN
  phase = "running" /\ browser # "gone" =>
    \/ shots = {} /\ nodePages = pages
    \/ \E i \in shots : stdout[i].pages = pages /\ \A j \in shots : j <= i

(* Where session s's events are on their way, and their numbers. *)
EventLines(s)    == {i \in DOMAIN stdout : stdout[i].type = "event" /\ stdout[i].session = s}
EventMessages(s) == {i \in DOMAIN toChild : toChild[i].kind = "event" /\ toChild[i].session = s}
OnTheWay(s) == {stdout[i].n : i \in EventLines(s)} \cup {toChild[i].n : i \in EventMessages(s)}

\* No event overtakes another between the server and the listeners of its session, and from
\* the first one these get they get every one, none dropped or doubled, while Node lives.
EventsInOrder ==
  browser # "gone" => \A s \in Sessions :
    /\ \A i, j \in EventLines(s) : i < j => stdout[i].n < stdout[j].n
    /\ \A i, j \in EventMessages(s) : i < j => toChild[i].n < toChild[j].n
    /\ \A i \in EventLines(s), j \in EventMessages(s) : stdout[i].n < toChild[j].n
    /\ delivered[s] # << >> =>
         LET last == Last(delivered[s]) IN
         /\ \A i \in 1 .. Len(delivered[s]) - 1 : delivered[s][i + 1] = delivered[s][i] + 1
         /\ \A n \in OnTheWay(s) : n > last /\ (last + 1) .. n \subseteq OnTheWay(s)
         /\ phase = "running" => (last + 1) .. emitted[s] \subseteq OnTheWay(s)

\* Once the child's exit was handled no call is pending, including those sent after the
\* closed line, which rejects what is pending without closing the browser.
ExitLeavesNonePending == exitSeen => \A p \in Promises : outcome[p] # "pending"

(* What NativeBrowser promises its callers: see RequestReply. *)
Abstract == INSTANCE RequestReply WITH Promises <- Promises, outcome <- outcome, link <- link

\* The pipeline implements RequestReply: a call is answered only while the connection is
\* open, and is refused only together with every other pending call.
ImplementsRequestReply == Abstract!Spec

-----------------------------------------------------------------------------
(* Liveness *)

(* main's select() serves both descriptors every turn, Node's event loop runs every
   ready callback, the kernel delivers SIGTERM, 5 s come to an end; and the server, unless
   it hung up, answers each command it received.  That it answers the upgrade is not
   assumed: Connect is not fair. *)
Fairness ==
  /\ WF_vars(HandshakeBegin)
  /\ WF_vars(HandshakePoll) /\ WF_vars(HandshakeDone) /\ WF_vars(HandshakeFailed)
  /\ WF_vars(ReadSend) /\ WF_vars(ReadClose) /\ WF_vars(Poll) /\ WF_vars(PollClosed)
  /\ WF_vars(Exit)
  /\ WF_vars(NodeHandles) /\ WF_vars(OnExit)
  /\ \A p \in Promises : WF_vars(\E c \in atServer : c.body = p /\ Reply(c))

FairSpec == Spec /\ Fairness

\* Every send() settles while Node lives: answered, or refused when the connection ends,
\* also when it is written between the closed line and the exit event.
CallsSettle ==
  \A p \in Promises : outcome[p] = "pending" ~> outcome[p] # "pending" \/ browser = "gone"

\* Once the server has answered the upgrade, or refused it, connect() settles, whatever the
\* server does during the handshake: it attaches no page, a page comes and goes, it hangs up.
\* (A server that leaves the upgrade unanswered keeps connect() waiting for ever.)
ConnectSettles == browser = "waiting" /\ phase # "connecting" ~> browser # "waiting"

\* A child that is past the upgrade does not outlive its purpose: close(), the end of Node -
\* at any time, during the upgrade too - a failed handshake or a hangup each lead to its exit.
\* (One whose upgrade is never answered reads no stdin, and does not notice that Node ended.)
ChildEnds ==
  phase # "connecting" /\ (nodeClosed \/ browser \in {"gone", "failed"} \/ ~serverOpen)
    ~> phase = "dead"
=============================================================================

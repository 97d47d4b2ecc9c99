-------------------------- MODULE CdpBridgeProofs --------------------------
(***************************************************************************)
(* Proofs about CdpBridge, for any number of calls, targets, sessions and  *)
(* events and any capacity of the pipes.                                   *)
(***************************************************************************)
EXTENDS CdpBridge, SequenceTheorems, TLAPS

-----------------------------------------------------------------------------
(* The fields of lines, ops and messages *)

LEMMA LineFields ==
  ASSUME NEW l \in Line
  PROVE  /\ l.type \in {"result", "error"} => l.bridgeId \in Nat /\ l.body \in Promises \cup {NoPromise}
         /\ l.type = "event" => l.session \in Sessions /\ l.n \in Nat
         /\ l.type \in {"ready", "pages"} => l.pages \in PageMap
  BY DEF Line

LEMMA OpFields ==
  ASSUME NEW o \in Op, o.op = "send"
  PROVE  o.bridgeId \in Nat /\ o.body \in Promises
  BY DEF Op

LEMMA MessageFields ==
  ASSUME NEW m \in Message
  PROVE  /\ m.kind = "reply" => m.id \in Nat /\ m.ok \in BOOLEAN /\ m.body \in Promises \cup {NoPromise}
         /\ m.kind = "attached" => m.target \in Targets /\ m.session \in Sessions
         /\ m.kind = "detached" => m.session \in Sessions
         /\ m.kind = "destroyed" => m.target \in Targets
         /\ m.kind = "event" => m.session \in Sessions /\ m.n \in Nat
  BY DEF Message

LEMMA HeadTail ==
  ASSUME NEW S, NEW q \in Seq(S), q # << >>
  PROVE  Head(q) \in S /\ Tail(q) \in Seq(S)
  BY HeadTailProperties

LEMMA PagesAfterType ==
  ASSUME pages \in PageMap, NEW m \in Message
  PROVE  PagesAfter(m) \in PageMap
  BY MessageFields DEF PageMap, PagesAfter

LEMMA LinesOfType ==
  ASSUME TypeOK, NEW m \in Message
  PROVE  LinesOf(m) \in Seq(Line)
  <1>1. PagesAfter(m) \in PageMap
    BY PagesAfterType DEF TypeOK
  <1>2. ASSUME m.kind = "reply" PROVE ReplyLines(m) \in Seq(Line)
    <2>1. m.id \in DOMAIN cdpToBridge => cdpToBridge[m.id] \in Nat
      BY DEF TypeOK
    <2>2. m.body \in Promises \cup {NoPromise}
      BY <1>2, MessageFields
    <2> DEFINE l == [type |-> IF m.ok THEN "result" ELSE "error",
                     bridgeId |-> cdpToBridge[m.id], body |-> m.body]
    <2>3. m.id \in DOMAIN cdpToBridge => l \in Line
      BY <2>1, <2>2 DEF Line
    <2> QED
      BY <2>3 DEF ReplyLines
  <1>3. m.kind = "event" => [type |-> "event", session |-> m.session, n |-> m.n] \in Line
    BY MessageFields DEF Line
  <1>4. [type |-> "pages", pages |-> PagesAfter(m)] \in Line
    BY <1>1 DEF Line
  <1> QED
    BY <1>2, <1>3, <1>4 DEF LinesOf
LEMMA DropInto ==
  ASSUME NEW f, NEW k, NEW D, NEW R,
         DOMAIN f \subseteq D, \A x \in DOMAIN f : f[x] \in R
  PROVE  /\ DOMAIN Drop(f, k) \subseteq D
         /\ \A x \in DOMAIN Drop(f, k) : Drop(f, k)[x] \in R
  BY DEF Drop, Restrict

LEMMA EmitType ==
  ASSUME TypeOK, NEW lines \in Seq(Line), Emit(lines)
  PROVE  stdout' \in Seq(Line)
  <1>1. stdout \in Seq(Line)
    BY DEF TypeOK
  <1>2. stdout \o lines \in Seq(Line)
    BY <1>1, ConcatProperties
  <1> QED
    BY <1>1, <1>2 DEF Emit

LEMMA RouteType ==
  ASSUME TypeOK, NEW m \in Message, Route(m)
  PROVE  /\ DOMAIN cdpToBridge' \subseteq Nat
         /\ \A i \in DOMAIN cdpToBridge' : cdpToBridge'[i] \in Nat
         /\ pages' \in PageMap
  <1>1. pages' \in PageMap
    BY PagesAfterType DEF TypeOK, Route
  <1>2. cdpToBridge' = cdpToBridge \/ cdpToBridge' = Drop(cdpToBridge, m.id)
    BY DEF Route
  <1>3. DOMAIN cdpToBridge \subseteq Nat /\ \A i \in DOMAIN cdpToBridge : cdpToBridge[i] \in Nat
    BY DEF TypeOK
  <1>4. /\ DOMAIN Drop(cdpToBridge, m.id) \subseteq Nat
        /\ \A i \in DOMAIN Drop(cdpToBridge, m.id) : Drop(cdpToBridge, m.id)[i] \in Nat
    BY <1>3, DropInto
  <1> QED
    BY <1>1, <1>2, <1>3, <1>4

LEMMA PushType ==
  ASSUME TypeOK, NEW m \in Message, Push(m)
  PROVE  toChild' \in Seq(Message)
  BY DEF TypeOK, Push

LEMMA TakeLineType ==
  ASSUME TypeOK, NEW type, TakeLine(type)
  PROVE  /\ Head(stdout) \in Line /\ Head(stdout).type = type
         /\ stdout' \in Seq(Line)
  BY HeadTail DEF TypeOK, TakeLine

LEMMA RejectPendingType ==
  ASSUME TypeOK, RejectPending
  PROVE  /\ lastBridgeId' \in Nat
         /\ DOMAIN pending' \subseteq Nat
         /\ \A b \in DOMAIN pending' : pending'[b] \in Promises
         /\ outcome' \in [Promises -> {"idle", "pending", "resolved", "rejected", "refused"}]
         /\ answer' \in [Promises -> Promises \cup {NoPromise}]
  BY DEF TypeOK, RejectPending

LEMMA SettleType ==
  ASSUME TypeOK, stdout # << >>, Head(stdout) \in Line,
         Head(stdout).type \in {"result", "error"},
         NEW how \in {"resolved", "rejected"}, Settle(how)
  PROVE  /\ DOMAIN pending' \subseteq Nat
         /\ \A b \in DOMAIN pending' : pending'[b] \in Promises
         /\ outcome' \in [Promises -> {"idle", "pending", "resolved", "rejected", "refused"}]
         /\ answer' \in [Promises -> Promises \cup {NoPromise}]
  <1> DEFINE b == Head(stdout).bridgeId
  <1>1. CASE b \in DOMAIN pending
    <2>1. /\ outcome' = [outcome EXCEPT ![pending[b]] = how]
          /\ answer' = [answer EXCEPT ![pending[b]] = Head(stdout).body]
          /\ pending' = Drop(pending, b)
      BY <1>1 DEF Settle
    <2>2. /\ DOMAIN Drop(pending, b) \subseteq Nat
          /\ \A x \in DOMAIN Drop(pending, b) : Drop(pending, b)[x] \in Promises
      <3>1. DOMAIN pending \subseteq Nat /\ \A x \in DOMAIN pending : pending[x] \in Promises
        BY DEF TypeOK
      <3> QED
        BY <3>1, DropInto
    <2>3. Head(stdout).body \in Promises \cup {NoPromise}
      BY LineFields
    <2> QED
      BY <2>1, <2>2, <2>3 DEF TypeOK
  <1>2. CASE b \notin DOMAIN pending
    BY <1>2 DEF TypeOK, Settle
  <1> QED
    BY <1>1, <1>2

-----------------------------------------------------------------------------
(* Type correctness *)

LEMMA TypeInit == Init => TypeOK
  <1> SUFFICES ASSUME Init PROVE TypeOK
    OBVIOUS
  <1>1. NoPages \in PageMap
    BY DEF NoPages, PageMap
  <1>2. /\ DOMAIN pending = {} /\ DOMAIN cdpToBridge = {}
        /\ stdin \in Seq(Op) /\ stdout \in Seq(Line) /\ toChild \in Seq(Message)
    BY DEF Init
  <1>3. /\ delivered \in [Sessions -> Seq(Nat)] /\ emitted \in [Sessions -> Nat]
        /\ outcome \in [Promises -> {"idle", "pending", "resolved", "rejected", "refused"}]
        /\ answer \in [Promises -> Promises \cup {NoPromise}]
    BY DEF Init
  <1> QED
    BY <1>1, <1>2, <1>3 DEF Init, TypeOK

LEMMA TypeNode == TypeOK /\ NodeNext => TypeOK'
  <1> SUFFICES ASSUME TypeOK, NodeNext PROVE TypeOK'
    OBVIOUS
  <1> USE DEF nodeVars, callVars, viewVars, childVars, wireVars, serverVars
  <1>1. ASSUME NEW p \in Promises, Send(p) PROVE TypeOK'
    <2>1. [op |-> "send", bridgeId |-> lastBridgeId', body |-> p] \in Op
      BY <1>1 DEF Send, Op, TypeOK
    <2> QED
      BY <1>1, <2>1 DEF TypeOK, Send, Put
  <1>2. ASSUME NEW p \in Promises, SendRefused(p) PROVE TypeOK'
    BY <1>2 DEF TypeOK, SendRefused
  <1>3. ASSUME NEW t \in Targets, NewSession(t) PROVE TypeOK'
    BY <1>3 DEF TypeOK, NewSession
  <1>4. CASE Close
    BY <1>4, RejectPendingType DEF TypeOK, Close, Op
  <1>5. CASE NodeGone
    BY <1>5 DEF TypeOK, NodeGone
  <1>6. CASE OnExit
    BY <1>6, RejectPendingType DEF TypeOK, OnExit
  <1>7. CASE HandleReady
    <2>1. /\ Head(stdout).pages \in PageMap /\ stdout' \in Seq(Line)
      BY <1>7, TakeLineType, LineFields DEF HandleReady
    <2> QED
      BY <1>7, <2>1 DEF TypeOK, HandleReady, TakeLine
  <1>8. CASE HandleFatal
    BY <1>8, TakeLineType DEF TypeOK, HandleFatal, TakeLine
  <1>9. CASE HandleResult
    <2>1. stdout # << >> /\ Head(stdout) \in Line /\ Head(stdout).type = "result"
            /\ stdout' \in Seq(Line)
      BY <1>9, TakeLineType DEF HandleResult, TakeLine
    <2> QED
      BY <1>9, <2>1, SettleType DEF TypeOK, HandleResult, TakeLine
  <1>10. CASE HandleError
    <2>1. stdout # << >> /\ Head(stdout) \in Line /\ Head(stdout).type = "error"
            /\ stdout' \in Seq(Line)
      BY <1>10, TakeLineType DEF HandleError, TakeLine
    <2> QED
      BY <1>10, <2>1, SettleType DEF TypeOK, HandleError, TakeLine
  <1>11. CASE HandleEvent
    <2>1. /\ Head(stdout).session \in Sessions /\ Head(stdout).n \in Nat
          /\ stdout' \in Seq(Line)
      BY <1>11, TakeLineType, LineFields DEF HandleEvent
    <2>2. delivered' \in [Sessions -> Seq(Nat)]
      BY <1>11, <2>1 DEF TypeOK, HandleEvent
    <2> QED
      BY <1>11, <2>1, <2>2 DEF TypeOK, HandleEvent, TakeLine
  <1>12. CASE HandlePages
    <2>1. /\ Head(stdout).pages \in PageMap /\ stdout' \in Seq(Line)
      BY <1>12, TakeLineType, LineFields DEF HandlePages
    <2> QED
      BY <1>12, <2>1 DEF TypeOK, HandlePages, TakeLine
  <1>13. CASE HandleClosed
    BY <1>13, TakeLineType, RejectPendingType DEF TypeOK, HandleClosed, TakeLine
  <1> QED
    BY <1>1, <1>2, <1>3, <1>4, <1>5, <1>6, <1>7, <1>8, <1>9, <1>10, <1>11, <1>12, <1>13
    DEF NodeNext, NodeHandles

LEMMA TypeChild == TypeOK /\ ChildNext => TypeOK'
  <1> SUFFICES ASSUME TypeOK, ChildNext PROVE TypeOK'
    OBVIOUS
  <1> USE DEF nodeVars, callVars, viewVars, childVars, wireVars, serverVars
  <1>0. /\ <<[type |-> "fatal"]>> \in Seq(Line) /\ <<[type |-> "closed"]>> \in Seq(Line)
        /\ <<[type |-> "ready", pages |-> pages]>> \in Seq(Line)
    BY DEF Line, TypeOK
  <1>1. CASE Connect
    BY <1>0, <1>1, EmitType DEF TypeOK, Connect
  <1>2. CASE HandshakeBegin
    <2>1. \A i \in {1, 2} : [id |-> lastId + i, body |-> NoPromise] \in Command
      BY DEF TypeOK, Command
    <2>2. stdout' \in Seq(Line)
      BY <1>0, <1>2, EmitType DEF TypeOK, HandshakeBegin
    <2>3. atServer' \subseteq Command
      <3>1. \/ atServer' = atServer
            \/ atServer' = atServer \cup
                 {[id |-> lastId + i, body |-> NoPromise] : i \in {1, 2}}
        BY <1>2 DEF HandshakeBegin
      <3>2. atServer \subseteq Command
        BY DEF TypeOK
      <3> QED
        BY <2>1, <3>1, <3>2
    <2> QED
      BY <1>2, <2>2, <2>3 DEF TypeOK, HandshakeBegin
  <1>3. CASE HandshakePoll
    <2>1. Head(toChild) \in Message /\ toChild' \in Seq(Message)
      BY <1>3, HeadTail DEF TypeOK, HandshakePoll
    <2> QED
      BY <1>3, <2>1, RouteType DEF TypeOK, HandshakePoll
  <1>4. CASE HandshakeDone
    BY <1>0, <1>4, EmitType DEF TypeOK, HandshakeDone
  <1>5. CASE HandshakeFailed
    <2>1. toChild' \in Seq(Message) /\ stdout' \in Seq(Line)
      <3>1. Emit(<<[type |-> "fatal"]>>) /\ (toChild' = toChild \/ toChild' = << >>)
        BY <1>5 DEF HandshakeFailed
      <3>2. toChild \in Seq(Message) /\ << >> \in Seq(Message)
        BY DEF TypeOK
      <3> QED
        BY <1>0, <3>1, <3>2, EmitType
    <2> QED
      BY <1>5, <2>1 DEF TypeOK, HandshakeFailed
  <1>6. CASE ReadSend
    <2>1. /\ Head(stdin) \in Op /\ stdin' \in Seq(Op)
          /\ Head(stdin).bridgeId \in Nat /\ Head(stdin).body \in Promises
      BY <1>6, HeadTail, OpFields DEF TypeOK, ReadSend
    <2>2. [id |-> lastId', body |-> Head(stdin).body] \in Command
      BY <1>6, <2>1 DEF TypeOK, ReadSend, Command
    <2>3. /\ atServer' \subseteq Command /\ torn' \in BOOLEAN /\ unsent' \subseteq Promises
      BY <1>6, <2>1, <2>2 DEF TypeOK, ReadSend, Transmit
    <2> QED
      BY <1>6, <2>1, <2>3 DEF TypeOK, ReadSend, Put
  <1>7. CASE ReadClose
    <2>1. stdin' \in Seq(Op)
      BY <1>7, HeadTail DEF TypeOK, ReadClose
    <2> QED
      BY <1>7, <2>1 DEF TypeOK, ReadClose
  <1>8. CASE Poll
    <2>1. Head(toChild) \in Message /\ toChild' \in Seq(Message)
      BY <1>8, HeadTail DEF TypeOK, Poll
    <2>2. stdout' \in Seq(Line)
      BY <1>8, <2>1, LinesOfType, EmitType DEF Poll
    <2> QED
      BY <1>8, <2>1, <2>2, RouteType DEF TypeOK, Poll
  <1>9. CASE PollClosed
    <2>1. toChild' \in Seq(Message)
      BY <1>9, HeadTail DEF TypeOK, PollClosed
    <2> QED
      BY <1>0, <1>9, <2>1, EmitType DEF TypeOK, PollClosed
  <1>10. CASE Exit
    <2>1. toChild' \in Seq(Message) /\ atServer' \subseteq Command
      BY <1>10 DEF Exit
    <2> QED
      BY <1>10, <2>1 DEF TypeOK, Exit
  <1> QED
    BY <1>1, <1>2, <1>3, <1>4, <1>5, <1>6, <1>7, <1>8, <1>9, <1>10 DEF ChildNext

LEMMA TypeServer == TypeOK /\ ServerNext => TypeOK'
  <1> SUFFICES ASSUME TypeOK, ServerNext PROVE TypeOK'
    OBVIOUS
  <1> USE DEF ServerLeaves, nodeVars, callVars, viewVars, childVars, wireVars, serverVars
  <1>1. ASSUME NEW c \in atServer, Reply(c) PROVE TypeOK'
    <2>1. PICK ok \in BOOLEAN :
            /\ Push([kind |-> "reply", id |-> c.id, ok |-> ok, body |-> c.body])
            /\ verdict' = verdict \cup {<<c.body, ok>>}
      BY <1>1 DEF Reply
    <2>2. [kind |-> "reply", id |-> c.id, ok |-> ok, body |-> c.body] \in Message
      BY DEF TypeOK, Command, Message
    <2>3. toChild' \in Seq(Message)
      BY <2>1, <2>2, PushType
    <2>4. verdict' \subseteq (Promises \cup {NoPromise}) \X BOOLEAN
      BY <2>1 DEF TypeOK, Command
    <2> QED
      BY <1>1, <2>3, <2>4 DEF TypeOK, Reply
  <1>2. ASSUME NEW t \in Targets, NEW s \in Sessions, Attach(t, s) PROVE TypeOK'
    <2>1. toChild' \in Seq(Message)
      BY <1>2, PushType DEF Attach, Message
    <2> QED
      BY <1>2, <2>1 DEF TypeOK, Attach, PageMap
  <1>3. ASSUME NEW t \in Targets, Detach(t) PROVE TypeOK'
    <2>1. attached[t] \in Sessions
      BY <1>3 DEF TypeOK, PageMap, Detach
    <2>2. toChild' \in Seq(Message)
      BY <1>3, <2>1, PushType DEF Detach, Message
    <2> QED
      BY <1>3, <2>2 DEF TypeOK, Detach, PageMap
  <1>4. ASSUME NEW s \in Sessions, EmitEvent(s) PROVE TypeOK'
    <2>1. emitted' \in [Sessions -> Nat] /\ emitted'[s] \in Nat
      BY <1>4 DEF TypeOK, EmitEvent
    <2>2. toChild' \in Seq(Message)
      BY <1>4, <2>1, PushType DEF EmitEvent, Message
    <2> QED
      BY <1>4, <2>1, <2>2 DEF TypeOK, EmitEvent
  <1>5. CASE Hangup
    <2>1. [kind |-> "close"] \in Message
      BY DEF Message
    <2>2. toChild' \in Seq(Message)
      BY <1>5, <2>1 DEF TypeOK, Hangup
    <2> QED
      BY <1>5, <2>2 DEF TypeOK, Hangup
  <1> QED
    BY <1>1, <1>2, <1>3, <1>4, <1>5 DEF ServerNext

\* Every variable keeps its type in every behaviour of the pipeline, for any number of
\* calls, pages and events: pages, pending and the id maps never hold a stray value.
THEOREM TypeCorrect == Spec => []TypeOK
  <1>1. TypeOK /\ UNCHANGED vars => TypeOK'
    BY DEF TypeOK, vars, nodeVars, callVars, viewVars, childVars, wireVars, serverVars
  <1>2. TypeOK /\ [Next]_vars => TypeOK'
    BY <1>1, TypeNode, TypeChild, TypeServer DEF Next
  <1> QED
    BY <1>2, TypeInit, PTL DEF Spec

-----------------------------------------------------------------------------
(* What the queue operations do to the set of queued elements *)

LEMMA RangeType ==
  ASSUME NEW S, NEW q \in Seq(S)
  PROVE  \A x \in Range(q) : x \in S
  BY DEF Range

LEMMA RangeAppend ==
  ASSUME NEW S, NEW q \in Seq(S), NEW e \in S
  PROVE  \A x \in Range(Append(q, e)) : x \in Range(q) \/ x = e
  BY DEF Range

LEMMA RangeTail ==
  ASSUME NEW S, NEW q \in Seq(S), q # << >>
  PROVE  Head(q) \in Range(q) /\ \A x \in Range(Tail(q)) : x \in Range(q)
  BY HeadTailProperties DEF Range

LEMMA RangeConcat ==
  ASSUME NEW S, NEW q \in Seq(S), NEW r \in Seq(S)
  PROVE  \A x \in Range(q \o r) : x \in Range(q) \/ x \in Range(r)
  BY DEF Range

LEMMA RangeSmall ==
  ASSUME NEW e
  PROVE  Range(<< >>) = {} /\ Range(<<e>>) = {e}
  BY DEF Range

\* What a step may do without touching any call: queues lose elements or gain some that
\* are not about calls, both maps lose entries, counters and the history grow.
CarriersFrame ==
  /\ DOMAIN pending' \subseteq DOMAIN pending
  /\ \A b \in DOMAIN pending' : pending'[b] = pending[b]
  /\ DOMAIN cdpToBridge' \subseteq DOMAIN cdpToBridge
  /\ \A i \in DOMAIN cdpToBridge' : cdpToBridge'[i] = cdpToBridge[i]
  /\ lastBridgeId' = lastBridgeId /\ lastId' \in Nat /\ lastId <= lastId'
  /\ verdict \subseteq verdict'

StdinFrame  == \A o \in Range(stdin') : o \in Range(stdin) \/ o.op # "send"
ServerFrame == \A c \in atServer' : c \in atServer \/ c.id \in (lastId + 1) .. lastId'
SocketFrame == \A m \in Range(toChild') : m \in Range(toChild) \/ m.kind # "reply"
StdoutFrame == \A l \in Range(stdout') : l \in Range(stdout) \/ l.type \notin {"result", "error"}

LEMMA FrameStdin ==
  ASSUME StdinOK, CarriersFrame, StdinFrame PROVE StdinOK'
  BY DEF StdinOK, CarriersFrame, StdinFrame, Stands

LEMMA FrameMap ==
  ASSUME TypeOK, MapOK, CarriersFrame PROVE MapOK'
  BY DEF TypeOK, MapOK, CarriersFrame

LEMMA FrameSpeaks ==
  ASSUME TypeOK, CarriersFrame, NEW id \in Nat, NEW body, Speaks(id, body)
  PROVE  Speaks(id, body)'
  <1>1. lastId \in Nat
    BY DEF TypeOK
  <1> QED
    BY <1>1 DEF Speaks, Stands, CarriersFrame

LEMMA FrameServer ==
  ASSUME TypeOK, MapOK, ServerOK, CarriersFrame, ServerFrame PROVE ServerOK'
  <1>1. ASSUME NEW c \in atServer', c \in atServer PROVE Speaks(c.id, c.body)'
    BY <1>1, FrameSpeaks DEF TypeOK, Command, ServerOK
  <1>2. ASSUME NEW c \in atServer', c.id \in (lastId + 1) .. lastId' PROVE Speaks(c.id, c.body)'
    BY <1>2 DEF TypeOK, MapOK, Speaks, CarriersFrame
  <1> QED
    BY <1>1, <1>2 DEF ServerOK, ServerFrame

LEMMA FrameSocket ==
  ASSUME TypeOK, SocketOK, CarriersFrame, SocketFrame PROVE SocketOK'
  <1> SUFFICES ASSUME NEW m \in Range(toChild'), m.kind = "reply"
               PROVE  Speaks(m.id, m.body)' /\ <<m.body, m.ok>> \in verdict'
    BY DEF SocketOK
  <1>1. m \in Range(toChild)
    BY DEF SocketFrame
  <1>2. m \in Message
    BY <1>1, RangeType DEF TypeOK
  <1>3. Speaks(m.id, m.body) /\ <<m.body, m.ok>> \in verdict
    BY <1>1 DEF SocketOK
  <1>4. m.id \in Nat
    BY <1>2, MessageFields
  <1> QED
    BY <1>3, <1>4, FrameSpeaks DEF CarriersFrame

LEMMA FrameStdout ==
  ASSUME StdoutOK, CarriersFrame, StdoutFrame PROVE StdoutOK'
  BY DEF StdoutOK, CarriersFrame, StdoutFrame, Stands
-----------------------------------------------------------------------------
(* The call invariant *)

InFlightOK == StdinOK /\ MapOK /\ ServerOK /\ SocketOK /\ StdoutOK

LEMMA FrameInFlight ==
  ASSUME TypeOK, InFlightOK, CarriersFrame,
         StdinFrame, ServerFrame, SocketFrame, StdoutFrame
  PROVE  InFlightOK'
  BY FrameStdin, FrameMap, FrameServer, FrameSocket, FrameStdout DEF InFlightOK

LEMMA CallFrame ==
  ASSUME TypeOK, PendingOK, AnswersMatch, verdict \subseteq verdict',
         UNCHANGED <<callVars, nodeClosed>>, exitSeen' = exitSeen
  PROVE  PendingOK' /\ AnswersMatch'
  <1>1. UNCHANGED <<lastBridgeId, pending, outcome, answer, nodeClosed, exitSeen>>
    BY DEF callVars
  <1>2. PendingOK'
    BY <1>1 DEF PendingOK
  <1>3. AnswersMatch'
    BY <1>1 DEF AnswersMatch
  <1> QED
    BY <1>2, <1>3

LEMMA RejectStep ==
  ASSUME TypeOK, PendingOK, AnswersMatch, RejectPending, verdict' = verdict,
         exitSeen' => nodeClosed'
  PROVE  PendingOK' /\ AnswersMatch'
  <1>1. DOMAIN pending' = {} /\ answer' = answer /\ lastBridgeId' = lastBridgeId
    BY DEF RejectPending
  <1>2. \A p \in Promises : outcome'[p] = IF p \in Range(pending) THEN "refused" ELSE outcome[p]
    BY DEF RejectPending
  <1>3. \A p \in Promises : outcome'[p] # "pending"
    BY <1>2 DEF PendingOK
  <1>4. AnswersMatch'
    BY <1>1, <1>2 DEF AnswersMatch
  <1>5. PendingOK'
    BY <1>1, <1>3 DEF PendingOK, IsInjective
  <1> QED
    BY <1>4, <1>5

LEMMA SettleStep ==
  ASSUME TypeOK, PendingOK, StdoutOK, AnswersMatch, stdout # << >>,
         Head(stdout).type \in {"result", "error"},
         NEW how, how = IF Head(stdout).type = "result" THEN "resolved" ELSE "rejected",
         Settle(how), UNCHANGED <<lastBridgeId, nodeClosed, exitSeen, verdict>>
  PROVE  /\ PendingOK' /\ AnswersMatch'
         /\ DOMAIN pending' \subseteq DOMAIN pending
         /\ \A b \in DOMAIN pending' : pending'[b] = pending[b]
  <1> DEFINE l == Head(stdout)
             p == pending[l.bridgeId]
  <1>0. l \in Range(stdout)
    BY RangeTail DEF TypeOK
  <1>1. CASE l.bridgeId \notin DOMAIN pending
    <2>1. UNCHANGED <<outcome, answer, pending>>
      BY <1>1 DEF Settle
    <2> QED
      BY <2>1, CallFrame DEF callVars
  <1>2. CASE l.bridgeId \in DOMAIN pending
    <2>1. /\ outcome' = [outcome EXCEPT ![p] = how]
          /\ answer' = [answer EXCEPT ![p] = l.body]
          /\ pending' = Drop(pending, l.bridgeId)
      BY <1>2 DEF Settle
    <2>2. /\ DOMAIN pending' = DOMAIN pending \ {l.bridgeId}
          /\ \A b \in DOMAIN pending' : pending'[b] = pending[b]
      BY <2>1 DEF Drop, Restrict
    <2>3. /\ p \in Promises /\ l.body = p
          /\ <<p, l.type = "result">> \in verdict
      BY <1>0, <1>2 DEF TypeOK, StdoutOK, Stands
    <2>4. /\ outcome'[p] = how /\ answer'[p] = p
          /\ \A q \in Promises \ {p} : outcome'[q] = outcome[q] /\ answer'[q] = answer[q]
      BY <2>1, <2>3 DEF TypeOK
    <2>5. how = "resolved" => <<p, TRUE>> \in verdict
      <3>1. how = "resolved" => (l.type = "result") = TRUE
        OBVIOUS
      <3> QED
        BY <2>3, <3>1
    <2>6. how = "rejected" => <<p, FALSE>> \in verdict
      <3>1. how = "rejected" => (l.type = "result") = FALSE
        OBVIOUS
      <3> QED
        BY <2>3, <3>1
    <2>7. AnswersMatch'
      BY <2>4, <2>5, <2>6 DEF AnswersMatch
    <2>8. PendingOK'
      <3>1. \A b \in DOMAIN pending' : pending'[b] \in Promises \ {p}
        BY <1>2, <2>2 DEF PendingOK, IsInjective, TypeOK
      <3>2. \A b \in DOMAIN pending' : b <= lastBridgeId' /\ outcome'[pending'[b]] = "pending"
        BY <2>2, <2>4, <3>1 DEF PendingOK
      <3>3. IsInjective(pending')
        BY <2>2 DEF PendingOK, IsInjective
      <3>4. \A q \in Promises : outcome'[q] = "pending" => q \in Range(pending')
        BY <1>2, <2>2, <2>4 DEF PendingOK, Range
      <3> QED
        BY <2>2, <3>2, <3>3, <3>4 DEF PendingOK
    <2> QED
      BY <2>2, <2>7, <2>8
  <1> QED
    BY <1>1, <1>2

LEMMA CallInit == Init => CallInv
  <1> SUFFICES ASSUME Init PROVE CallInv
    OBVIOUS
  <1>1. Range(stdin) = {} /\ Range(stdout) = {} /\ Range(toChild) = {}
    BY RangeSmall DEF Init
  <1>2. DOMAIN pending = {} /\ DOMAIN cdpToBridge = {}
    BY DEF Init
  <1>3. PendingOK
    BY <1>2 DEF Init, PendingOK, IsInjective
  <1> QED
    BY <1>1, <1>2, <1>3 DEF Init, CallInv, StdinOK, MapOK, ServerOK, SocketOK, StdoutOK,
                            AnswersMatch

LEMMA CallNode == TypeOK /\ CallInv /\ NodeNext => CallInv'
  <1> SUFFICES ASSUME TypeOK, CallInv, NodeNext PROVE CallInv'
    OBVIOUS
  <1> USE DEF nodeVars, viewVars, childVars, wireVars, serverVars
  <1>0. InFlightOK /\ PendingOK /\ AnswersMatch
    BY DEF CallInv, InFlightOK
  <1>a. lastId \in Nat /\ stdout \in Seq(Line)
    BY DEF TypeOK
  <1>b. ASSUME NEW type, TakeLine(type)
        PROVE  /\ stdout # << >> /\ Head(stdout).type = type /\ verdict' = verdict
               /\ StdinFrame /\ ServerFrame /\ SocketFrame /\ StdoutFrame
               /\ UNCHANGED <<cdpToBridge, lastId>>
    <2>1. \A x \in Range(stdout') : x \in Range(stdout)
      BY <1>a, <1>b, RangeTail DEF TakeLine
    <2> QED
      BY <1>b, <2>1 DEF TakeLine, StdinFrame, ServerFrame, SocketFrame, StdoutFrame
  <1>c. ASSUME NEW type, TakeLine(type), UNCHANGED <<callVars, nodeClosed, exitSeen>>
        PROVE  CallInv'
    <2>1. CarriersFrame
      BY <1>a, <1>b, <1>c DEF CarriersFrame, callVars
    <2> QED
      BY <1>0, <1>b, <1>c, <2>1, CallFrame, FrameInFlight DEF CallInv, InFlightOK
  <1>d. ASSUME NEW type, TakeLine(type), type \in {"result", "error"},
               Settle(IF type = "result" THEN "resolved" ELSE "rejected"),
               UNCHANGED <<lastBridgeId, nodeClosed, exitSeen>>
        PROVE  CallInv'
    <2>1. /\ PendingOK' /\ AnswersMatch'
          /\ DOMAIN pending' \subseteq DOMAIN pending
          /\ \A b \in DOMAIN pending' : pending'[b] = pending[b]
      BY <1>0, <1>b, <1>d, SettleStep DEF InFlightOK
    <2>2. CarriersFrame
      BY <1>a, <1>b, <1>d, <2>1 DEF CarriersFrame
    <2> QED
      BY <1>0, <1>b, <1>d, <2>1, <2>2, FrameInFlight DEF CallInv, InFlightOK
  <1>1. ASSUME NEW p \in Promises, Send(p) PROVE CallInv'
    <2>a. PICK b \in Nat : b = lastBridgeId + 1
      BY DEF TypeOK
    <2> DEFINE o == [op |-> "send", bridgeId |-> b, body |-> p]
    <2>0. lastBridgeId \in Nat /\ lastBridgeId < b /\ lastBridgeId' = b
            /\ outcome[p] = "idle" /\ ~nodeClosed
      BY <1>1, <2>a DEF Send, TypeOK
    <2>1. /\ DOMAIN pending' = DOMAIN pending \cup {b} /\ pending'[b] = p
          /\ \A x \in DOMAIN pending : x # b /\ pending'[x] = pending[x]
      BY <1>0, <1>1, <2>0 DEF Send, Put, PendingOK, TypeOK
    <2>2. /\ outcome'[p] = "pending" /\ \A q \in Promises \ {p} : outcome'[q] = outcome[q]
      BY <1>1 DEF Send, TypeOK
    <2>3. \A x \in DOMAIN pending : pending[x] \in Promises \ {p} /\ x \in Nat
      BY <1>0, <2>0 DEF PendingOK, TypeOK
    <2>4. PendingOK'
      <3>1. \A x \in DOMAIN pending' : x <= lastBridgeId' /\ outcome'[pending'[x]] = "pending"
        BY <1>0, <2>0, <2>1, <2>2, <2>3 DEF PendingOK
      <3>2. IsInjective(pending')
        BY <1>0, <2>1, <2>3 DEF PendingOK, IsInjective
      <3>3. \A q \in Promises : outcome'[q] = "pending" => q \in Range(pending')
        BY <1>0, <2>1, <2>2 DEF PendingOK, Range
      <3> QED
        BY <1>0, <1>1, <2>0, <3>1, <3>2, <3>3 DEF PendingOK, Send
    <2>5. AnswersMatch'
      BY <1>0, <1>1, <2>2 DEF AnswersMatch, Send
    <2>6. \A x \in Nat, q \in Promises \cup {NoPromise} :
            x <= lastBridgeId /\ Stands(x, q) => x <= lastBridgeId' /\ Stands(x, q)'
      BY <2>0, <2>1 DEF Stands
    <2>7. StdinOK'
      <3>1. \A x \in Range(stdin') : x \in Range(stdin) \/ x = o
        <4>1. o \in Op /\ stdin \in Seq(Op)
          BY <2>0 DEF TypeOK, Op
        <4>2. stdin' = Append(stdin, o)
          BY <1>1, <2>0 DEF Send
        <4> QED
          BY <4>1, <4>2, RangeAppend
      <3>2. \A x \in Range(stdin) : x \in Op
        BY RangeType DEF TypeOK
      <3>3. \A x \in Range(stdin) : x.op = "send" =>
              x.bridgeId <= lastBridgeId' /\ Stands(x.bridgeId, x.body)'
        BY <1>0, <2>6, <3>2, OpFields DEF InFlightOK, StdinOK
      <3>4. b <= lastBridgeId' /\ Stands(b, p)'
        BY <2>0, <2>1 DEF Stands
      <3>5. o.bridgeId = b /\ o.body = p
        OBVIOUS
      <3> HIDE DEF o
      <3> QED
        BY <3>1, <3>3, <3>4, <3>5 DEF StdinOK
    <2>8. MapOK'
      BY <1>0, <1>1, <2>0 DEF InFlightOK, MapOK, Send, TypeOK
    <2>9. \A id \in Nat, q \in Promises \cup {NoPromise} : Speaks(id, q) => Speaks(id, q)'
      <3>1. UNCHANGED <<lastId, cdpToBridge>>
        BY <1>1 DEF Send
      <3>2. \A id \in DOMAIN cdpToBridge : cdpToBridge[id] \in Nat /\ cdpToBridge[id] <= lastBridgeId
        BY <1>0 DEF InFlightOK, MapOK, TypeOK
      <3> QED
        BY <2>6, <3>1, <3>2 DEF Speaks
    <2>10. ServerOK'
      BY <1>0, <1>1, <2>9 DEF InFlightOK, ServerOK, Send, TypeOK, Command
    <2>11. SocketOK'
      <3>1. \A m \in Range(toChild) : m \in Message
        BY RangeType DEF TypeOK
      <3> QED
        BY <1>0, <1>1, <2>9, <3>1, MessageFields DEF InFlightOK, SocketOK, Send
    <2>12. StdoutOK'
      <3>1. \A l \in Range(stdout) : l \in Line
        BY RangeType DEF TypeOK
      <3> QED
        BY <1>0, <1>1, <2>6, <3>1, LineFields DEF InFlightOK, StdoutOK, Send
    <2> QED
      BY <2>4, <2>5, <2>7, <2>8, <2>10, <2>11, <2>12 DEF CallInv
  <1>2. ASSUME NEW p \in Promises, SendRefused(p) PROVE CallInv'
    <2>1. /\ outcome[p] = "idle" /\ outcome'[p] = "refused"
          /\ \A q \in Promises \ {p} : outcome'[q] = outcome[q]
      BY <1>2 DEF SendRefused, TypeOK
    <2>2. \A b \in DOMAIN pending : pending[b] \in Promises \ {p}
      BY <1>0, <2>1 DEF PendingOK, TypeOK
    <2>3. PendingOK' /\ AnswersMatch'
      BY <1>0, <1>2, <2>1, <2>2 DEF SendRefused, PendingOK, AnswersMatch
    <2>4. CarriersFrame /\ StdinFrame /\ ServerFrame /\ SocketFrame /\ StdoutFrame
      BY <1>a, <1>2 DEF SendRefused, CarriersFrame, StdinFrame, ServerFrame, SocketFrame,
                        StdoutFrame
    <2> QED
      BY <1>0, <2>3, <2>4, FrameInFlight DEF CallInv, InFlightOK
  <1>3. ASSUME NEW t \in Targets, NewSession(t) PROVE CallInv'
    <2>1. CarriersFrame /\ StdinFrame /\ ServerFrame /\ SocketFrame /\ StdoutFrame
      BY <1>a, <1>3 DEF NewSession, callVars, CarriersFrame, StdinFrame, ServerFrame,
                        SocketFrame, StdoutFrame
    <2> QED
      BY <1>0, <1>3, <2>1, CallFrame, FrameInFlight DEF NewSession, CallInv, InFlightOK
  <1>4. CASE Close
    <2>1. PendingOK' /\ AnswersMatch'
      BY <1>0, <1>4, RejectStep DEF Close
    <2>2. \A x \in Range(stdin') : x \in Range(stdin) \/ x = [op |-> "close"]
      <3>1. [op |-> "close"] \in Op /\ stdin \in Seq(Op)
        BY DEF TypeOK, Op
      <3>2. stdin' = Append(stdin, [op |-> "close"])
        BY <1>4 DEF Close
      <3> QED
        BY <3>1, <3>2, RangeAppend
    <2>3. CarriersFrame /\ StdinFrame /\ ServerFrame /\ SocketFrame /\ StdoutFrame
      BY <1>a, <1>4, <2>2 DEF Close, RejectPending, CarriersFrame, StdinFrame, ServerFrame,
                        SocketFrame, StdoutFrame
    <2> QED
      BY <1>0, <2>1, <2>3, FrameInFlight DEF CallInv, InFlightOK
  <1>5. CASE NodeGone
    <2>1. CarriersFrame /\ StdinFrame /\ ServerFrame /\ SocketFrame /\ StdoutFrame
      <3>1. Range(stdout') = {}
        BY <1>5 DEF NodeGone, Range
      <3> QED
        BY <1>a, <1>5, <3>1 DEF NodeGone, callVars, CarriersFrame, StdinFrame, ServerFrame,
                                SocketFrame, StdoutFrame
    <2> QED
      BY <1>0, <1>5, <2>1, CallFrame, FrameInFlight DEF NodeGone, CallInv, InFlightOK
  <1>6. CASE OnExit
    <2>1. PendingOK' /\ AnswersMatch'
      BY <1>0, <1>6, RejectStep DEF OnExit
    <2>2. CarriersFrame /\ StdinFrame /\ ServerFrame /\ SocketFrame /\ StdoutFrame
      BY <1>a, <1>6 DEF OnExit, RejectPending, CarriersFrame, StdinFrame, ServerFrame,
                        SocketFrame, StdoutFrame
    <2> QED
      BY <1>0, <2>1, <2>2, FrameInFlight DEF CallInv, InFlightOK
  <1>7. CASE HandleReady
    BY <1>7, <1>c DEF HandleReady
  <1>8. CASE HandleFatal
    BY <1>8, <1>c DEF HandleFatal
  <1>9. CASE HandleResult
    BY <1>9, <1>d DEF HandleResult
  <1>10. CASE HandleError
    BY <1>10, <1>d DEF HandleError
  <1>11. CASE HandleEvent
    BY <1>11, <1>c DEF HandleEvent
  <1>12. CASE HandlePages
    BY <1>12, <1>c DEF HandlePages
  <1>13. CASE HandleClosed
    <2>1. PendingOK' /\ AnswersMatch'
      BY <1>0, <1>13, <1>b, RejectStep DEF HandleClosed, PendingOK
    <2>2. CarriersFrame
      BY <1>a, <1>b, <1>13 DEF HandleClosed, RejectPending, CarriersFrame
    <2> QED
      BY <1>0, <1>13, <1>b, <2>1, <2>2, FrameInFlight DEF HandleClosed, CallInv, InFlightOK
  <1> QED
    BY <1>1, <1>2, <1>3, <1>4, <1>5, <1>6, <1>7, <1>8, <1>9, <1>10, <1>11, <1>12, <1>13
    DEF NodeNext, NodeHandles

LEMMA CallChild == TypeOK /\ CallInv /\ ChildNext => CallInv'
  <1> SUFFICES ASSUME TypeOK, CallInv, ChildNext PROVE CallInv'
    OBVIOUS
  <1>0. InFlightOK /\ PendingOK /\ AnswersMatch
    BY DEF CallInv, InFlightOK
  <1>a. UNCHANGED <<callVars, nodeClosed, exitSeen, verdict>>
    BY DEF ChildNext, nodeVars, serverVars, Connect, HandshakeBegin, HandshakePoll,
           HandshakeDone, HandshakeFailed, ReadSend, ReadClose, Poll, PollClosed, Exit
  <1>b. PendingOK' /\ AnswersMatch'
    BY <1>0, <1>a, CallFrame
  <1>c. /\ lastId \in Nat /\ lastBridgeId \in Nat /\ UNCHANGED <<lastBridgeId, pending>>
        /\ stdin \in Seq(Op) /\ stdout \in Seq(Line) /\ toChild \in Seq(Message)
    BY <1>a DEF TypeOK, callVars
  <1>d. ASSUME NEW lines \in Seq(Line), Emit(lines)
        PROVE  \A l \in Range(stdout') : l \in Range(stdout) \/ l \in Range(lines)
    BY <1>c, <1>d, RangeConcat DEF Emit
  <1>e. ASSUME NEW type \in {"fatal", "closed", "ready"}, NEW l \in Line, l.type = type,
               Emit(<<l>>)
        PROVE  StdoutFrame
    <2>1. <<l>> \in Seq(Line) /\ Range(<<l>>) = {l}
      BY RangeSmall
    <2> QED
      BY <1>d, <1>e, <2>1 DEF StdoutFrame
  <1>f. ASSUME toChild # << >>, toChild' = Tail(toChild)
        PROVE  SocketFrame /\ Head(toChild) \in Range(toChild) /\ Head(toChild) \in Message
    BY <1>c, <1>f, RangeTail, HeadTail DEF SocketFrame
  <1>g. ASSUME NEW m \in Message, Route(m), UNCHANGED lastId
        PROVE  CarriersFrame
    <2>1. DOMAIN Drop(cdpToBridge, m.id) \subseteq DOMAIN cdpToBridge
            /\ \A i \in DOMAIN Drop(cdpToBridge, m.id) :
                 Drop(cdpToBridge, m.id)[i] = cdpToBridge[i]
      BY DEF Drop, Restrict
    <2> QED
      BY <1>a, <1>c, <1>g, <2>1 DEF Route, CarriersFrame
  <1>h. ASSUME UNCHANGED <<lastId, cdpToBridge>> PROVE CarriersFrame
    BY <1>a, <1>c, <1>h DEF CarriersFrame
  <1> DEFINE fatal  == [type |-> "fatal"]
             closed == [type |-> "closed"]
             ready  == [type |-> "ready", pages |-> pages]
  <1>i. fatal \in Line /\ closed \in Line /\ ready \in Line
    BY DEF Line, TypeOK
  <1> HIDE DEF fatal, closed, ready
  <1>j. UNCHANGED stdout => StdoutFrame
    BY DEF StdoutFrame
  <1>k. Emit(<<fatal>>) \/ Emit(<<closed>>) \/ Emit(<<ready>>) => StdoutFrame
    BY <1>e, <1>i DEF fatal, closed, ready
  <1>1. CASE Connect
    <2>1. StdoutFrame
      BY <1>1, <1>j, <1>k DEF Connect, fatal
    <2>2. CarriersFrame /\ StdinFrame /\ ServerFrame /\ SocketFrame
      BY <1>1, <1>h DEF Connect, wireVars, StdinFrame, ServerFrame, SocketFrame
    <2> QED
      BY <1>0, <1>b, <2>1, <2>2, FrameInFlight DEF CallInv, InFlightOK
  <1>2. CASE HandshakeBegin
    <2>1. StdoutFrame
      BY <1>2, <1>j, <1>k DEF HandshakeBegin, fatal
    <2>2. CarriersFrame
      BY <1>2, <1>a, <1>c DEF HandshakeBegin, CarriersFrame
    <2>3. StdinFrame /\ SocketFrame
      BY <1>2 DEF HandshakeBegin, StdinFrame, SocketFrame
    <2>4. ServerFrame
      BY <1>2, <1>c DEF HandshakeBegin, ServerFrame
    <2> QED
      BY <1>0, <1>b, <2>1, <2>2, <2>3, <2>4, FrameInFlight DEF CallInv, InFlightOK
  <1>3. CASE HandshakePoll
    <2>1. StdinFrame /\ ServerFrame /\ StdoutFrame
      BY <1>3 DEF HandshakePoll, wireVars, StdinFrame, ServerFrame, StdoutFrame
    <2>2. SocketFrame /\ CarriersFrame
      BY <1>3, <1>f, <1>g DEF HandshakePoll
    <2> QED
      BY <1>0, <1>b, <2>1, <2>2, FrameInFlight DEF CallInv, InFlightOK
  <1>4. CASE HandshakeDone
    <2>1. StdoutFrame
      BY <1>4, <1>k DEF HandshakeDone, ready
    <2>2. CarriersFrame /\ StdinFrame /\ ServerFrame /\ SocketFrame
      BY <1>4, <1>h DEF HandshakeDone, wireVars, StdinFrame, ServerFrame, SocketFrame
    <2> QED
      BY <1>0, <1>b, <2>1, <2>2, FrameInFlight DEF CallInv, InFlightOK
  <1>5. CASE HandshakeFailed
    <2>1. StdoutFrame
      BY <1>5, <1>k DEF HandshakeFailed, fatal
    <2>2. toChild' = toChild \/ Range(toChild') = {}
      BY <1>5, RangeSmall DEF HandshakeFailed
    <2>3. CarriersFrame /\ StdinFrame /\ ServerFrame /\ SocketFrame
      BY <1>5, <1>h, <2>2 DEF HandshakeFailed, wireVars, StdinFrame, ServerFrame, SocketFrame
    <2> QED
      BY <1>0, <1>b, <2>1, <2>3, FrameInFlight DEF CallInv, InFlightOK
  <1>6. CASE ReadSend
    <2> DEFINE o == Head(stdin)
    <2>0. /\ stdin # << >> /\ o \in Range(stdin) /\ o \in Op /\ o.op = "send"
          /\ \A x \in Range(stdin') : x \in Range(stdin)
      BY <1>6, <1>c, RangeTail, HeadTail DEF ReadSend
    <2>1. PICK q, p : /\ q = o.bridgeId /\ p = o.body /\ q \in Nat /\ p \in Promises
                      /\ q <= lastBridgeId /\ Stands(q, p)
      BY <1>0, <2>0, OpFields DEF InFlightOK, StdinOK
    <2>2. PICK n \in Nat : n = lastId + 1
      BY <1>c
    <2>3. /\ lastId' = n /\ lastId < n
          /\ cdpToBridge' = Put(cdpToBridge, n, q)
          /\ \A c \in atServer' : c \in atServer \/ (c.id = n /\ c.body = p)
      <3>1. /\ lastId' = n /\ cdpToBridge' = Put(cdpToBridge, n, q)
            /\ Transmit(n, p)
        BY <1>6, <2>1, <2>2 DEF ReadSend
      <3>2. atServer' \subseteq atServer \cup {[id |-> n, body |-> p]}
        BY <3>1 DEF Transmit
      <3> QED
        BY <1>c, <2>2, <3>1, <3>2
    <2>4. /\ DOMAIN cdpToBridge' = DOMAIN cdpToBridge \cup {n} /\ cdpToBridge'[n] = q
          /\ \A i \in DOMAIN cdpToBridge : i <= lastId /\ i \in Nat /\ i # n
                                           /\ cdpToBridge'[i] = cdpToBridge[i]
      BY <1>0, <1>c, <2>3 DEF Put, InFlightOK, MapOK, TypeOK
    <2>5. \A x, y : Stands(x, y)' <=> Stands(x, y)
      BY <1>c DEF Stands
    <2>6. \A i \in Nat : \A y : Speaks(i, y) => Speaks(i, y)'
      BY <1>c, <2>3, <2>4, <2>5 DEF Speaks
    <2>7. Speaks(n, p)'
      BY <2>1, <2>3, <2>4, <2>5 DEF Speaks
    <2>8. StdinOK'
      BY <1>0, <1>c, <2>0, <2>5 DEF InFlightOK, StdinOK
    <2>9. MapOK'
      BY <1>0, <1>c, <2>1, <2>3, <2>4 DEF InFlightOK, MapOK
    <2>10. ServerOK'
      <3>1. \A c \in atServer : c.id \in Nat
        BY DEF TypeOK, Command
      <3> QED
        BY <1>0, <2>3, <2>6, <2>7, <3>1 DEF InFlightOK, ServerOK
    <2>11. SocketOK'
      <3>1. \A m \in Range(toChild) : m.kind = "reply" => m.id \in Nat
        BY <1>c, RangeType, MessageFields
      <3>2. UNCHANGED <<toChild, verdict>>
        BY <1>6, <1>a DEF ReadSend
      <3> QED
        BY <1>0, <2>6, <3>1, <3>2 DEF InFlightOK, SocketOK
    <2>12. StdoutOK'
      <3>1. UNCHANGED <<stdout, verdict>>
        BY <1>6, <1>a DEF ReadSend
      <3> QED
        BY <1>0, <1>c, <2>5, <3>1 DEF InFlightOK, StdoutOK
    <2> QED
      BY <1>b, <2>8, <2>9, <2>10, <2>11, <2>12 DEF CallInv
  <1>7. CASE ReadClose
    <2>1. \A x \in Range(stdin') : x \in Range(stdin)
      BY <1>7, <1>c, RangeTail DEF ReadClose
    <2>2. CarriersFrame /\ StdinFrame /\ ServerFrame /\ SocketFrame /\ StdoutFrame
      BY <1>7, <1>h, <2>1 DEF ReadClose, wireVars, StdinFrame, ServerFrame, SocketFrame,
                              StdoutFrame
    <2> QED
      BY <1>0, <1>b, <2>2, FrameInFlight DEF CallInv, InFlightOK
  <1>8. CASE Poll
    <2> DEFINE m == Head(toChild)
    <2>1. SocketFrame /\ m \in Range(toChild) /\ m \in Message /\ CarriersFrame
      BY <1>8, <1>f, <1>g DEF Poll
    <2>2. StdinFrame /\ ServerFrame
      BY <1>8 DEF Poll, wireVars, StdinFrame, ServerFrame
    <2>3. StdinOK' /\ MapOK' /\ ServerOK' /\ SocketOK'
      BY <1>0, <2>1, <2>2, FrameStdin, FrameMap, FrameServer, FrameSocket DEF InFlightOK
    <2>4. \A l \in Range(stdout') : l \in Range(stdout) \/ l \in Range(LinesOf(m))
      BY <1>8, <1>d, <2>1, LinesOfType DEF Poll
    <2>5. ASSUME NEW l \in Range(LinesOf(m)), l.type \in {"result", "error"}
          PROVE  /\ l.bridgeId <= lastBridgeId /\ Stands(l.bridgeId, l.body)
                 /\ <<l.body, l.type = "result">> \in verdict
      <3>1. m.kind = "reply" /\ m.id \in DOMAIN cdpToBridge
        BY <2>5, RangeSmall DEF LinesOf, ReplyLines
      <3>2. l = [type |-> IF m.ok THEN "result" ELSE "error",
                 bridgeId |-> cdpToBridge[m.id], body |-> m.body]
        BY <2>5, <3>1, RangeSmall DEF LinesOf, ReplyLines
      <3>3. Speaks(m.id, m.body) /\ <<m.body, m.ok>> \in verdict /\ m.ok \in BOOLEAN
        BY <1>0, <2>1, <3>1, MessageFields DEF InFlightOK, SocketOK
      <3>4. (l.type = "result") = m.ok
        BY <3>2, <3>3
      <3> QED
        BY <1>0, <3>1, <3>2, <3>3, <3>4 DEF Speaks, InFlightOK, MapOK
    <2>6. StdoutOK'
      BY <1>0, <1>a, <1>c, <2>4, <2>5 DEF InFlightOK, StdoutOK, Stands
    <2> QED
      BY <1>b, <2>3, <2>6 DEF CallInv
  <1>9. CASE PollClosed
    <2>1. StdoutFrame
      BY <1>9, <1>k DEF PollClosed, closed
    <2>2. CarriersFrame /\ SocketFrame
      BY <1>9, <1>f, <1>h DEF PollClosed
    <2>3. StdinFrame /\ ServerFrame
      BY <1>9 DEF PollClosed, wireVars, StdinFrame, ServerFrame
    <2> QED
      BY <1>0, <1>b, <2>1, <2>2, <2>3, FrameInFlight DEF CallInv, InFlightOK
  <1>10. CASE Exit
    <2>1. Range(toChild') = {} /\ atServer' = {}
      BY <1>10, RangeSmall DEF Exit
    <2>2. CarriersFrame /\ StdinFrame /\ ServerFrame /\ SocketFrame /\ StdoutFrame
      BY <1>10, <1>h, <2>1 DEF Exit, StdinFrame, ServerFrame, SocketFrame, StdoutFrame
    <2> QED
      BY <1>0, <1>b, <2>2, FrameInFlight DEF CallInv, InFlightOK
  <1> QED
    BY <1>1, <1>2, <1>3, <1>4, <1>5, <1>6, <1>7, <1>8, <1>9, <1>10 DEF ChildNext

LEMMA CallServer == TypeOK /\ CallInv /\ ServerNext => CallInv'
  <1> SUFFICES ASSUME TypeOK, CallInv, ServerNext PROVE CallInv'
    OBVIOUS
  <1>0. InFlightOK /\ PendingOK /\ AnswersMatch /\ toChild \in Seq(Message)
    BY DEF CallInv, InFlightOK, TypeOK
  <1>a. /\ UNCHANGED <<callVars, nodeClosed, exitSeen, stdin, stdout, cdpToBridge, lastId>>
        /\ verdict \subseteq verdict'
        /\ \A c \in atServer' : c \in atServer
    BY DEF ServerNext, nodeVars, childVars, serverVars, wireVars, ServerLeaves, Reply,
           Attach, Detach, EmitEvent, Hangup
  <1>b. PendingOK' /\ AnswersMatch'
    BY <1>0, <1>a, CallFrame
  <1>c. CarriersFrame /\ StdinFrame /\ ServerFrame /\ StdoutFrame
    BY <1>a DEF CarriersFrame, StdinFrame, ServerFrame, StdoutFrame, callVars, TypeOK
  <1>d. StdinOK' /\ MapOK' /\ ServerOK' /\ StdoutOK'
    BY <1>0, <1>c, FrameStdin, FrameMap, FrameServer, FrameStdout DEF InFlightOK
  <1>e. ASSUME NEW m \in Message, toChild' = Append(toChild, m),
               m.kind = "reply" => Speaks(m.id, m.body)' /\ <<m.body, m.ok>> \in verdict'
        PROVE  SocketOK'
    <2>1. \A x \in Range(toChild') : x \in Range(toChild) \/ x = m
      BY <1>0, <1>e, RangeAppend
    <2>2. ASSUME NEW x \in Range(toChild), x.kind = "reply"
          PROVE  Speaks(x.id, x.body)' /\ <<x.body, x.ok>> \in verdict'
      <3>1. Speaks(x.id, x.body) /\ <<x.body, x.ok>> \in verdict
        BY <1>0, <2>2 DEF InFlightOK, SocketOK
      <3>2. x.id \in Nat
        BY <1>0, <2>2, RangeType, MessageFields
      <3> QED
        BY <1>a, <1>c, <3>1, <3>2, FrameSpeaks
    <2> QED
      BY <1>e, <2>1, <2>2 DEF SocketOK
  <1>1. ASSUME NEW c \in atServer, Reply(c) PROVE SocketOK'
    <2>1. PICK ok \in BOOLEAN :
            /\ Push([kind |-> "reply", id |-> c.id, ok |-> ok, body |-> c.body])
            /\ verdict' = verdict \cup {<<c.body, ok>>}
      BY <1>1 DEF Reply
    <2> DEFINE m == [kind |-> "reply", id |-> c.id, ok |-> ok, body |-> c.body]
    <2>2. m \in Message /\ m.id = c.id /\ m.body = c.body /\ m.ok = ok /\ c.id \in Nat
      BY DEF TypeOK, Command, Message
    <2>3. Speaks(c.id, c.body)'
      BY <1>0, <1>c, <2>2, FrameSpeaks DEF InFlightOK, ServerOK
    <2>4. toChild' = Append(toChild, m)
      BY <2>1 DEF Push
    <2> HIDE DEF m
    <2> QED
      BY <1>e, <2>1, <2>2, <2>3, <2>4
  <1>2. ASSUME NEW t \in Targets, NEW s \in Sessions, Attach(t, s) PROVE SocketOK'
    <2>1. PICK page \in BOOLEAN :
            Push([kind |-> "attached", target |-> t, session |-> s, page |-> page])
      BY <1>2 DEF Attach
    <2>2. [kind |-> "attached", target |-> t, session |-> s, page |-> page] \in Message
      BY DEF Message
    <2> QED
      BY <1>e, <2>1, <2>2 DEF Push
  <1>3. ASSUME NEW t \in Targets, Detach(t) PROVE SocketOK'
    <2>1. PICK m \in Message : m.kind # "reply" /\ Push(m)
      BY <1>3 DEF Detach, TypeOK, PageMap, Message
    <2> QED
      BY <1>e, <2>1 DEF Push
  <1>4. ASSUME NEW s \in Sessions, EmitEvent(s) PROVE SocketOK'
    <2>1. emitted'[s] \in Nat
      BY <1>4 DEF EmitEvent, TypeOK
    <2>2. [kind |-> "event", session |-> s, n |-> emitted'[s]] \in Message
      BY <2>1 DEF Message
    <2> QED
      BY <1>4, <1>e, <2>2 DEF EmitEvent, Push
  <1>5. ASSUME Hangup PROVE SocketOK'
    <2>1. [kind |-> "close"] \in Message
      BY DEF Message
    <2> QED
      BY <1>5, <1>e, <2>1 DEF Hangup
  <1>6. SocketOK'
    BY <1>1, <1>2, <1>3, <1>4, <1>5 DEF ServerNext
  <1> QED
    BY <1>b, <1>d, <1>6 DEF CallInv

LEMMA CallStutter == TypeOK /\ CallInv /\ UNCHANGED vars => CallInv'
  <1> SUFFICES ASSUME TypeOK, CallInv, UNCHANGED vars PROVE CallInv'
    OBVIOUS
  <1>1. InFlightOK /\ PendingOK /\ AnswersMatch /\ lastId \in Nat
    BY DEF CallInv, InFlightOK, TypeOK
  <1>2. /\ UNCHANGED <<callVars, nodeClosed, exitSeen, stdin, stdout, cdpToBridge, lastId,
                       toChild, atServer, verdict>>
    BY DEF vars, nodeVars, callVars, childVars, wireVars, serverVars
  <1>3. CarriersFrame /\ StdinFrame /\ ServerFrame /\ SocketFrame /\ StdoutFrame
    BY <1>1, <1>2 DEF callVars, CarriersFrame, StdinFrame, ServerFrame, SocketFrame, StdoutFrame
  <1> QED
    BY <1>1, <1>2, <1>3, CallFrame, FrameInFlight DEF CallInv, InFlightOK

\* The inductive invariant of the two id maps and the four queues between them.
THEOREM CallsCorrect == Spec => []CallInv
  <1>1. TypeOK /\ CallInv /\ [Next]_vars => CallInv'
    BY CallNode, CallChild, CallServer, CallStutter DEF Next
  <1> QED
    BY <1>1, CallInit, TypeCorrect, PTL DEF Spec

\* Whatever the order of replies, losses and closings, a call is only ever settled with an
\* answer the server gave to that call.
THEOREM AnswersCorrect == Spec => []AnswersMatch
  <1>1. CallInv => AnswersMatch
    BY DEF CallInv
  <1> QED
    BY <1>1, CallsCorrect, PTL

\* After the child's exit has been handled no call stays pending.
THEOREM ExitCorrect == Spec => []ExitLeavesNonePending
  <1>1. CallInv => ExitLeavesNonePending
    BY DEF CallInv, PendingOK, ExitLeavesNonePending, Range
  <1> QED
    BY <1>1, CallsCorrect, PTL

\* No step changes a call that was resolved, rejected or refused.
THEOREM SettledOnceCorrect == Spec => SettledOnce
  <1> DEFINE Once == \A p \in Promises : outcome[p] \in Settled =>
                       outcome'[p] = outcome[p] /\ answer'[p] = answer[p]
  <1>1. ASSUME TypeOK, CallInv, [Next]_vars PROVE [Once]_vars
    <2>0. PendingOK
      BY <1>1 DEF CallInv
    <2>1. CASE UNCHANGED <<outcome, answer>>
      BY <2>1
    <2>2. CASE RejectPending
      <3>1. \A p \in Promises : p \in Range(pending) => outcome[p] = "pending"
        BY <2>0 DEF PendingOK, Range
      <3> QED
        BY <2>2, <3>1 DEF RejectPending, Settled
    <2>3. ASSUME NEW p \in Promises, Send(p) \/ SendRefused(p) PROVE Once
      <3>1. outcome[p] = "idle" /\ answer' = answer
              /\ \A q \in Promises \ {p} : outcome'[q] = outcome[q]
        BY <1>1, <2>3 DEF Send, SendRefused, TypeOK
      <3> QED
        BY <3>1 DEF Settled
    <2>4. ASSUME NEW how, Settle(how) PROVE Once
      <3> DEFINE b == Head(stdout).bridgeId
      <3>1. CASE b \in DOMAIN pending
        <4>1. outcome[pending[b]] = "pending" /\ pending[b] \in Promises
          BY <1>1, <2>0, <3>1 DEF PendingOK, TypeOK
        <4>2. \A q \in Promises \ {pending[b]} : outcome'[q] = outcome[q] /\ answer'[q] = answer[q]
          BY <1>1, <2>4, <3>1 DEF Settle, TypeOK
        <4> QED
          BY <4>1, <4>2 DEF Settled
      <3>2. CASE b \notin DOMAIN pending
        BY <2>4, <3>2 DEF Settle
      <3> QED
        BY <3>1, <3>2
    <2>5. CASE UNCHANGED vars
      BY <2>5, <2>1 DEF vars, nodeVars, callVars
    <2>6. CASE ChildNext
      BY <2>6, <2>1 DEF ChildNext, nodeVars, callVars, Connect, HandshakeBegin,
        HandshakePoll, HandshakeDone, HandshakeFailed, ReadSend, ReadClose, Poll,
        PollClosed, Exit
    <2>7. CASE ServerNext
      BY <2>7, <2>1 DEF ServerNext, nodeVars, callVars, ServerLeaves, Reply, Attach, Detach,
        EmitEvent, Hangup
    <2>8. CASE NodeNext
      BY <2>8, <2>1, <2>2, <2>3, <2>4 DEF NodeNext, NodeHandles, callVars, NewSession, Close,
        NodeGone, OnExit, HandleReady, HandleFatal, HandleResult, HandleError, HandleEvent,
        HandlePages, HandleClosed
    <2> QED
      BY <1>1, <2>5, <2>6, <2>7, <2>8 DEF Next
  <1> QED
    BY <1>1, TypeCorrect, CallsCorrect, PTL DEF Spec, SettledOnce
=============================================================================

------------------------ MODULE CdpBridgeFlowProofs ------------------------
(***************************************************************************)
(* Proofs about what flows through the pipeline of CdpBridge: the page     *)
(* maps, the events and the pending calls are neither lost, doubled nor    *)
(* reordered between the server and the caller, for any number of calls,   *)
(* targets, sessions and events and any capacity of the pipes.             *)
(***************************************************************************)
EXTENDS CdpBridgeProofs, FiniteSetTheorems

-----------------------------------------------------------------------------
(* Positions in a queue *)

LEMMA TailAt ==
  ASSUME NEW S, NEW q \in Seq(S), q # << >>
  PROVE  /\ Len(q) \in Nat /\ Len(q) >= 1 /\ Head(q) = q[1] /\ q[1] \in S
         /\ Tail(q) \in Seq(S) /\ Len(Tail(q)) = Len(q) - 1
         /\ \A i \in 1 .. Len(q) - 1 : Tail(q)[i] = q[i + 1]
         /\ DOMAIN Tail(q) = 1 .. Len(q) - 1 /\ DOMAIN q = 1 .. Len(q)
  BY HeadTailProperties

LEMMA AppendAt ==
  ASSUME NEW S, NEW q \in Seq(S), NEW e \in S
  PROVE  /\ Len(q) \in Nat /\ Append(q, e) \in Seq(S) /\ Len(Append(q, e)) = Len(q) + 1
         /\ \A i \in 1 .. Len(q) : Append(q, e)[i] = q[i]
         /\ Append(q, e)[Len(q) + 1] = e
         /\ DOMAIN Append(q, e) = 1 .. Len(q) + 1 /\ DOMAIN q = 1 .. Len(q)
  OBVIOUS

LEMMA ConcatOne ==
  ASSUME NEW S, NEW q \in Seq(S), NEW e \in S
  PROVE  q \o <<e>> = Append(q, e)
  OBVIOUS

LEMMA ConcatNone ==
  ASSUME NEW S, NEW q \in Seq(S)
  PROVE  q \o << >> = q
  OBVIOUS

-----------------------------------------------------------------------------
(* What a step does to the child's stdout *)

\* One line more at the end of stdout.
Printed(l) == stdout' = Append(stdout, l)

\* The line at the head of stdout is gone.
Taken == stdout # << >> /\ stdout' = Tail(stdout)

LEMMA EmitOne ==
  ASSUME TypeOK, NEW l \in Line, Emit(<<l>>)
  PROVE  IF browser = "gone" THEN UNCHANGED stdout ELSE Printed(l)
  <1>1. stdout \o <<l>> = Append(stdout, l) /\ <<l>> # << >>
    BY ConcatOne DEF TypeOK
  <1> QED
    BY <1>1 DEF Emit, Printed

\* The line a message becomes, if it becomes one.
LEMMA LinesOfShape ==
  ASSUME TypeOK, NEW m \in Message
  PROVE  \/ LinesOf(m) = << >> /\ m.kind # "event" /\ (m.kind = "reply" \/ PagesAfter(m) = pages)
         \/ \E l \in Line :
              /\ LinesOf(m) = <<l>>
              /\ \/ /\ m.kind = "reply" /\ m.id \in DOMAIN cdpToBridge
                    /\ l.type \in {"result", "error"} /\ l.bridgeId = cdpToBridge[m.id]
                 \/ m.kind = "event" /\ l.type = "event" /\ l.session = m.session /\ l.n = m.n
                 \/ /\ m.kind \notin {"reply", "event"}
                    /\ l.type = "pages" /\ l.pages = PagesAfter(m)
  <1>1. CASE m.kind = "reply"
    <2>1. CASE m.id \in DOMAIN cdpToBridge
      <3> DEFINE l == [type |-> IF m.ok THEN "result" ELSE "error",
                       bridgeId |-> cdpToBridge[m.id], body |-> m.body]
      <3>1. l \in Line
        <4>1. cdpToBridge[m.id] \in Nat
          BY <2>1 DEF TypeOK
        <4>2. m.body \in Promises \cup {NoPromise}
          BY <1>1, MessageFields
        <4> QED
          BY <4>1, <4>2 DEF Line
      <3>2. LinesOf(m) = <<l>>
        BY <1>1, <2>1 DEF LinesOf, ReplyLines
      <3>3. l.type \in {"result", "error"} /\ l.bridgeId = cdpToBridge[m.id]
        OBVIOUS
      <3> HIDE DEF l
      <3> QED
        BY <1>1, <2>1, <3>1, <3>2, <3>3
    <2>2. CASE m.id \notin DOMAIN cdpToBridge
      BY <1>1, <2>2 DEF LinesOf, ReplyLines
    <2> QED
      BY <2>1, <2>2
  <1>2. CASE m.kind = "event"
    <2> DEFINE l == [type |-> "event", session |-> m.session, n |-> m.n]
    <2>1. l \in Line
      BY <1>2, MessageFields DEF Line
    <2>2. LinesOf(m) = <<l>>
      BY <1>2 DEF LinesOf
    <2>3. l.type = "event" /\ l.session = m.session /\ l.n = m.n
      OBVIOUS
    <2> HIDE DEF l
    <2> QED
      BY <1>2, <2>1, <2>2, <2>3
  <1>3. CASE m.kind \notin {"reply", "event"} /\ PagesChanged(m)
    <2> DEFINE l == [type |-> "pages", pages |-> PagesAfter(m)]
    <2>1. l \in Line
      BY PagesAfterType DEF Line, TypeOK
    <2>2. LinesOf(m) = <<l>>
      BY <1>3 DEF LinesOf
    <2>3. l.type = "pages" /\ l.pages = PagesAfter(m)
      OBVIOUS
    <2> HIDE DEF l
    <2> QED
      BY <1>3, <2>1, <2>2, <2>3
  <1>4. CASE m.kind \notin {"reply", "event"} /\ ~PagesChanged(m)
    BY <1>4 DEF LinesOf, PagesChanged
  <1> QED
    BY <1>1, <1>2, <1>3, <1>4

-----------------------------------------------------------------------------
(* Node's page map *)

Before == {"connecting", "connected", "handshake"}
ReadyWaits == browser = "waiting" /\ stdout # << >> /\ stdout[1].type = "ready"
                /\ \A i \in DOMAIN stdout : stdout[i].type = "ready" => i = 1
ReadyTaken == browser = "ready" /\ \A i \in DOMAIN stdout : stdout[i].type # "ready"

\* The ready line is the first the child writes, and connect() is resolved by it and by
\* nothing else; until then no session exists and nothing was delivered.
Boot ==
  /\ phase \in Before /\ browser # "gone" => browser = "waiting" /\ stdout = << >>
  /\ phase = "running" /\ browser # "gone" => ReadyWaits \/ ReadyTaken
  /\ browser \in {"waiting", "failed"} => sessions = {}
  /\ \A s \in Sessions : delivered[s] # << >> => s \in sessions

LEMMA BootNode == TypeOK /\ Boot /\ NodeNext => Boot'
  <1> SUFFICES ASSUME TypeOK, Boot, NodeNext PROVE Boot'
    OBVIOUS
  <1> USE DEF Boot, nodeVars, callVars, viewVars, childVars, wireVars, serverVars, Before
  <1>0. stdout \in Seq(Line)
    BY DEF TypeOK
  <1>a. ASSUME Taken, UNCHANGED <<phase, sessions, delivered>>,
               browser' = browser \/ phase \notin Before \cup {"running"},
               browser' \in {"waiting", "failed"} => browser \in {"waiting", "failed"},
               browser # "gone", ~(phase = "running" /\ Head(stdout).type = "ready")
        PROVE  Boot'
    <2>1. stdout # << >> /\ Head(stdout) = stdout[1] /\ DOMAIN stdout' = 1 .. Len(stdout) - 1
            /\ DOMAIN stdout = 1 .. Len(stdout) /\ Len(stdout) \in Nat
            /\ \A i \in 1 .. Len(stdout) - 1 : stdout'[i] = stdout[i + 1]
      BY <1>0, <1>a, TailAt DEF Taken
    <2>2. phase = "running" => ReadyTaken
      BY <1>a, <2>1 DEF ReadyWaits
    <2>3. phase = "running" => ReadyTaken'
      <3>1. \A i \in DOMAIN stdout' : i + 1 \in DOMAIN stdout /\ stdout'[i] = stdout[i + 1]
        BY <2>1
      <3> QED
        BY <1>a, <2>2, <3>1 DEF ReadyTaken
    <2>4. phase \notin Before
      BY <1>a, <2>1
    <2> QED
      BY <1>a, <2>3, <2>4
  <1>b. ASSUME UNCHANGED <<phase, stdout, browser, sessions, delivered>> PROVE Boot'
    BY <1>b DEF ReadyWaits, ReadyTaken
  <1>c. ASSUME NEW type, TakeLine(type) PROVE Taken /\ phase' = phase /\ browser # "gone"
    BY <1>c DEF TakeLine, Taken
  <1>d. ASSUME NEW type, TakeLine(type), type # "ready", UNCHANGED <<browser, sessions, delivered>>
        PROVE  Boot'
    <2>1. Head(stdout).type # "ready"
      BY <1>d DEF TakeLine
    <2> QED
      BY <1>a, <1>c, <1>d, <2>1
  <1>1. ASSUME NEW p \in Promises, Send(p) PROVE Boot'
    BY <1>b, <1>1 DEF Send
  <1>2. ASSUME NEW p \in Promises, SendRefused(p) PROVE Boot'
    BY <1>b, <1>2 DEF SendRefused
  <1>3. ASSUME NEW t \in Targets, NewSession(t) PROVE Boot'
    BY <1>3 DEF NewSession, ReadyWaits, ReadyTaken
  <1>4. CASE Close
    BY <1>b, <1>4 DEF Close
  <1>5. CASE NodeGone
    BY <1>5 DEF NodeGone
  <1>6. CASE OnExit
    BY <1>6 DEF OnExit
  <1>7. CASE HandleReady
    <2>1. Taken /\ phase' = phase /\ browser # "gone" /\ UNCHANGED <<sessions, delivered>>
      BY <1>7, <1>c DEF HandleReady
    <2>2. CASE phase # "running"
      <3>1. browser' = browser \/ phase \notin Before
        BY <2>1 DEF Taken
      <3>2. browser' \in {"waiting", "failed"} => browser \in {"waiting", "failed"}
        BY <1>7 DEF HandleReady
      <3> QED
        BY <1>a, <2>1, <2>2, <3>1, <3>2
    <2>3. CASE phase = "running"
      <3>0. Head(stdout).type = "ready"
        BY <1>7 DEF HandleReady, TakeLine
      <3>1. stdout # << >> /\ Head(stdout) = stdout[1] /\ DOMAIN stdout' = 1 .. Len(stdout) - 1
              /\ DOMAIN stdout = 1 .. Len(stdout) /\ Len(stdout) \in Nat
              /\ \A i \in 1 .. Len(stdout) - 1 : stdout'[i] = stdout[i + 1]
        BY <1>0, <2>1, TailAt DEF Taken
      <3>2. ReadyWaits
        BY <2>1, <2>3, <3>0, <3>1 DEF ReadyTaken
      <3>3. browser' = "ready"
        BY <1>7, <3>2 DEF HandleReady, ReadyWaits
      <3>4. \A i \in DOMAIN stdout' : stdout'[i].type # "ready"
        <4>1. \A i \in DOMAIN stdout' : i + 1 \in DOMAIN stdout /\ stdout'[i] = stdout[i + 1] /\ i + 1 # 1
          BY <3>1
        <4> QED
          BY <3>2, <4>1 DEF ReadyWaits
      <3> QED
        BY <2>1, <2>3, <3>3, <3>4 DEF ReadyTaken
    <2> QED
      BY <2>2, <2>3
  <1>8. CASE HandleFatal
    <2>1. Taken /\ phase' = phase /\ browser # "gone" /\ UNCHANGED <<sessions, delivered>>
            /\ Head(stdout).type = "fatal"
      BY <1>8, <1>c DEF HandleFatal, TakeLine
    <2>2. browser' \in {"waiting", "failed"} => browser \in {"waiting", "failed"}
      BY <1>8, <2>1 DEF HandleFatal
    <2>3. browser' = browser \/ phase \notin Before \cup {"running"}
      <3>1. phase \notin Before
        BY <2>1 DEF Taken
      <3>2. Head(stdout) = stdout[1]
        BY <1>0, <2>1, TailAt DEF Taken
      <3>3. phase = "running" => ReadyTaken
        BY <2>1, <3>2 DEF ReadyWaits
      <3> QED
        BY <1>8, <2>1, <3>1, <3>3 DEF HandleFatal, ReadyTaken
    <2> QED
      BY <1>a, <2>1, <2>2, <2>3
  <1>9. CASE HandleResult
    BY <1>9, <1>d DEF HandleResult
  <1>10. CASE HandleError
    BY <1>10, <1>d DEF HandleError
  <1>11. CASE HandleEvent
    <2>1. Taken /\ phase' = phase /\ browser # "gone" /\ UNCHANGED <<sessions, browser>>
            /\ Head(stdout).type = "event"
      BY <1>11, <1>c DEF HandleEvent, TakeLine
    <2>2. \A s \in Sessions : delivered'[s] # << >> => s \in sessions
      BY <1>11 DEF HandleEvent, TypeOK
    <2>3. phase \notin Before
      BY <2>1 DEF Taken
    <2>4. stdout # << >> /\ Head(stdout) = stdout[1] /\ DOMAIN stdout' = 1 .. Len(stdout) - 1
            /\ DOMAIN stdout = 1 .. Len(stdout) /\ Len(stdout) \in Nat
            /\ \A i \in 1 .. Len(stdout) - 1 : stdout'[i] = stdout[i + 1]
      BY <1>0, <2>1, TailAt DEF Taken
    <2>5. phase = "running" => ReadyTaken'
      <3>1. \A i \in DOMAIN stdout' : i + 1 \in DOMAIN stdout /\ stdout'[i] = stdout[i + 1]
        BY <2>4
      <3>2. phase = "running" => ReadyTaken
        BY <2>1, <2>4 DEF ReadyWaits
      <3> QED
        BY <2>1, <3>1, <3>2 DEF ReadyTaken
    <2> QED
      BY <2>1, <2>2, <2>3, <2>5
  <1>12. CASE HandlePages
    BY <1>12, <1>d DEF HandlePages
  <1>13. CASE HandleClosed
    BY <1>13, <1>d DEF HandleClosed
  <1> QED
    BY <1>1, <1>2, <1>3, <1>4, <1>5, <1>6, <1>7, <1>8, <1>9, <1>10, <1>11, <1>12, <1>13
    DEF NodeNext, NodeHandles

LEMMA BootChild == TypeOK /\ Boot /\ ChildNext => Boot'
  <1> SUFFICES ASSUME TypeOK, Boot, ChildNext PROVE Boot'
    OBVIOUS
  <1> USE DEF Boot, nodeVars, callVars, viewVars, childVars, wireVars, serverVars, Before
  <1>0. stdout \in Seq(Line) /\ UNCHANGED <<browser, sessions, delivered>>
    BY DEF TypeOK, ChildNext, Connect, HandshakeBegin, HandshakePoll, HandshakeDone,
           HandshakeFailed, ReadSend, ReadClose, Poll, PollClosed, Exit
  <1>a. ASSUME phase' \in {"ended", "dead"} PROVE Boot'
    BY <1>0, <1>a
  <1>b. ASSUME UNCHANGED stdout, phase' = phase \/ {phase, phase'} \subseteq Before PROVE Boot'
    BY <1>0, <1>b DEF ReadyWaits, ReadyTaken
  <1>1. CASE Connect
    BY <1>1, <1>a, <1>b DEF Connect
  <1>2. CASE HandshakeBegin
    BY <1>2, <1>a, <1>b DEF HandshakeBegin
  <1>3. CASE HandshakePoll
    BY <1>3, <1>b DEF HandshakePoll
  <1>4. CASE HandshakeDone
    <2> DEFINE l == [type |-> "ready", pages |-> pages]
    <2>1. l \in Line /\ l.type = "ready"
      BY DEF Line, TypeOK
    <2>2. Emit(<<l>>) /\ phase = "handshake" /\ phase' = "running"
      BY <1>4 DEF HandshakeDone
    <2> HIDE DEF l
    <2>3. browser # "gone" => Printed(l) /\ stdout = << >> /\ browser = "waiting"
      BY <2>1, <2>2, EmitOne
    <2>4. browser # "gone" => DOMAIN stdout' = {1} /\ stdout'[1] = l /\ stdout' # << >>
      BY <2>3 DEF Printed
    <2>5. browser # "gone" => ReadyWaits'
      BY <1>0, <2>1, <2>3, <2>4 DEF ReadyWaits
    <2> QED
      BY <1>0, <2>2, <2>5
  <1>5. CASE HandshakeFailed
    BY <1>5, <1>a DEF HandshakeFailed
  <1>6. CASE ReadSend
    BY <1>6, <1>b DEF ReadSend
  <1>7. CASE ReadClose
    BY <1>7, <1>a DEF ReadClose
  <1>8. CASE Poll
    <2> DEFINE m == Head(toChild)
    <2>1. m \in Message /\ Emit(LinesOf(m)) /\ phase = "running" /\ phase' = phase
      BY <1>8, TailAt DEF Poll, TypeOK
    <2>2. CASE LinesOf(m) = << >>
      BY <1>b, <2>1, <2>2 DEF Emit
    <2>3. ASSUME NEW l \in Line, LinesOf(m) = <<l>>, l.type # "ready" PROVE Boot'
      <3>1. browser # "gone" => Printed(l)
        BY <2>1, <2>3, EmitOne
      <3>2. browser # "gone" =>
              /\ DOMAIN stdout' = 1 .. Len(stdout) + 1 /\ DOMAIN stdout = 1 .. Len(stdout)
              /\ Len(stdout) \in Nat /\ stdout' # << >>
              /\ \A i \in 1 .. Len(stdout) : stdout'[i] = stdout[i]
              /\ stdout'[Len(stdout) + 1] = l
        BY <1>0, <3>1, AppendAt DEF Printed
      <3>3. browser # "gone" /\ ReadyWaits => ReadyWaits'
        <4>1. SUFFICES ASSUME browser # "gone", ReadyWaits PROVE ReadyWaits'
          OBVIOUS
        <4>2. Len(stdout) >= 1
          BY <1>0, <4>1 DEF ReadyWaits
        <4>3. stdout'[1].type = "ready"
          BY <3>2, <4>1, <4>2 DEF ReadyWaits
        <4>4. \A i \in DOMAIN stdout' : stdout'[i].type = "ready" => i = 1
          BY <2>3, <3>2, <4>1 DEF ReadyWaits
        <4> QED
          BY <1>0, <3>2, <4>1, <4>3, <4>4 DEF ReadyWaits
      <3>4. browser # "gone" /\ ReadyTaken => ReadyTaken'
        BY <1>0, <2>3, <3>2 DEF ReadyTaken
      <3> QED
        BY <1>0, <2>1, <3>3, <3>4
    <2>4. LinesOf(m) = << >> \/ \E l \in Line : LinesOf(m) = <<l>> /\ l.type # "ready"
      BY <2>1, LinesOfShape
    <2> QED
      BY <2>2, <2>3, <2>4
  <1>9. CASE PollClosed
    BY <1>9, <1>a DEF PollClosed
  <1>10. CASE Exit
    BY <1>10, <1>a DEF Exit
  <1> QED
    BY <1>1, <1>2, <1>3, <1>4, <1>5, <1>6, <1>7, <1>8, <1>9, <1>10 DEF ChildNext

\* What the server's steps, and stuttering, leave alone.
LEMMA ServerFrames ==
  ASSUME ServerNext \/ UNCHANGED vars
  PROVE  /\ UNCHANGED <<browser, lastBridgeId, pending, outcome, nodePages, sessions, delivered>>
         /\ UNCHANGED <<stdin, stdout, phase, lastId, cdpToBridge, pages, unsent>>
  BY DEF ServerNext, ServerLeaves, Reply, Attach, Detach, EmitEvent, Hangup, vars,
         nodeVars, callVars, viewVars, childVars, wireVars, serverVars

LEMMA BootKept == TypeOK /\ Boot /\ [Next]_vars => Boot'
  <1>1. Boot /\ (ServerNext \/ UNCHANGED vars) => Boot'
    BY ServerFrames DEF Boot, ReadyWaits, ReadyTaken
  <1> QED
    BY <1>1, BootNode, BootChild DEF Next

LEMMA BootCorrect == Spec => []Boot
  <1>1. Init => Boot
    BY DEF Init, Boot, Before
  <1> QED
    BY <1>1, BootKept, TypeCorrect, PTL DEF Spec

Shows(l) == l.type \in {"ready", "pages"}
Shots == {i \in DOMAIN stdout : Shows(stdout[i])}

\* Node has the child's page map, or the last snapshot in stdout is that map.
InSync ==
  \/ Shots = {} /\ nodePages = pages
  \/ \E i \in Shots : stdout[i].pages = pages /\ \A j \in Shots : j <= i

LEMMA ShotsTaken ==
  ASSUME TypeOK, InSync, Taken, pages' = pages,
         IF Shows(Head(stdout)) THEN nodePages' = Head(stdout).pages ELSE nodePages' = nodePages
  PROVE  InSync'
  <1>1. /\ Head(stdout) = stdout[1] /\ Len(stdout) \in Nat /\ Len(stdout) >= 1
        /\ DOMAIN stdout' = 1 .. Len(stdout) - 1 /\ DOMAIN stdout = 1 .. Len(stdout)
        /\ \A i \in 1 .. Len(stdout) - 1 : stdout'[i] = stdout[i + 1]
    BY TailAt DEF TypeOK, Taken
  <1>2. \A i \in Shots' : i \in Nat /\ i >= 1 /\ i + 1 \in Shots
    BY <1>1 DEF Shots
  <1>3. \A i \in Shots : i \in Nat /\ (i > 1 => i - 1 \in Shots')
    BY <1>1 DEF Shots
  <1>4. 1 \in Shots <=> Shows(Head(stdout))
    BY <1>1 DEF Shots
  <1>5. CASE Shots = {}
    BY <1>2, <1>4, <1>5 DEF InSync
  <1>6. CASE \E i \in Shots : stdout[i].pages = pages /\ \A j \in Shots : j <= i
    <2>1. PICK i \in Shots : stdout[i].pages = pages /\ \A j \in Shots : j <= i
      BY <1>6
    <2>2. CASE i = 1
      <3>1. Shots' = {}
        BY <1>2, <2>1, <2>2
      <3>2. nodePages' = pages
        BY <1>1, <1>4, <2>1, <2>2
      <3> QED
        BY <3>1, <3>2 DEF InSync
    <2>3. CASE i > 1
      <3>1. i - 1 \in Shots' /\ stdout'[i - 1] = stdout[i]
        BY <1>1, <1>3, <2>1, <2>3 DEF Shots
      <3>2. \A j \in Shots' : j <= i - 1
        BY <1>2, <1>3, <2>1
      <3> QED
        BY <2>1, <3>1, <3>2 DEF InSync
    <2> QED
      BY <1>1, <1>3, <2>1, <2>2, <2>3 DEF Shots
  <1> QED
    BY <1>5, <1>6 DEF InSync

LEMMA ShotsPrinted ==
  ASSUME TypeOK, NEW l \in Line, Printed(l),
         IF Shows(l) THEN l.pages = pages'
                     ELSE InSync /\ pages' = pages /\ nodePages' = nodePages
  PROVE  InSync'
  <1>1. /\ Len(stdout) \in Nat /\ stdout'[Len(stdout) + 1] = l
        /\ DOMAIN stdout' = 1 .. Len(stdout) + 1 /\ DOMAIN stdout = 1 .. Len(stdout)
        /\ \A i \in 1 .. Len(stdout) : stdout'[i] = stdout[i]
    BY AppendAt DEF TypeOK, Printed
  <1>2. CASE Shows(l)
    <2>1. Len(stdout) + 1 \in Shots' /\ \A j \in Shots' : j <= Len(stdout) + 1
      BY <1>1, <1>2 DEF Shots
    <2> QED
      BY <1>1, <1>2, <2>1 DEF InSync
  <1>3. CASE ~Shows(l)
    <2>1. Shots' = Shots
      BY <1>1, <1>3 DEF Shots
    <2>2. \A i \in Shots : stdout'[i] = stdout[i]
      BY <1>1 DEF Shots
    <2> QED
      BY <1>3, <2>1, <2>2 DEF InSync
  <1> QED
    BY <1>2, <1>3

LEMMA ViewNode == TypeOK /\ Boot /\ NodeViewInSync /\ NodeNext => NodeViewInSync'
  <1> SUFFICES ASSUME TypeOK, Boot, NodeViewInSync, NodeNext, phase' = "running",
                      browser' # "gone"
               PROVE  InSync'
    BY DEF NodeViewInSync, InSync, Shots, Shows
  <1> USE DEF nodeVars, callVars, viewVars, childVars, wireVars, serverVars
  <1>0. phase = "running" /\ pages' = pages /\ browser # "gone" /\ InSync
    <2>1. phase = "running" /\ pages' = pages /\ browser # "gone"
      BY DEF NodeNext, NodeHandles, TakeLine, Send, SendRefused, NewSession, Close, NodeGone,
             OnExit, HandleReady, HandleFatal, HandleResult, HandleError, HandleEvent,
             HandlePages, HandleClosed
    <2> QED
      BY <2>1 DEF NodeViewInSync, InSync, Shots, Shows
  <1>a. ASSUME UNCHANGED <<stdout, nodePages>> PROVE InSync'
    BY <1>0, <1>a DEF InSync, Shots
  <1>b. ASSUME NEW type, TakeLine(type), type \notin {"ready", "pages"}, UNCHANGED nodePages
        PROVE  InSync'
    BY <1>0, <1>b, ShotsTaken DEF TakeLine, Taken, Shows
  <1>1. ASSUME NEW p \in Promises, Send(p) \/ SendRefused(p) PROVE InSync'
    BY <1>a, <1>1 DEF Send, SendRefused
  <1>2. ASSUME NEW t \in Targets, NewSession(t) PROVE InSync'
    BY <1>a, <1>2 DEF NewSession
  <1>3. CASE Close \/ OnExit
    BY <1>a, <1>3 DEF Close, OnExit
  <1>4. CASE NodeGone
    BY <1>4 DEF NodeGone
  <1>5. CASE HandleReady
    <2>1. Taken /\ Head(stdout).type = "ready" /\ Head(stdout) = stdout[1] /\ 1 \in DOMAIN stdout
      BY <1>5, TailAt DEF HandleReady, TakeLine, Taken, TypeOK
    <2>2. browser = "waiting"
      BY <1>0, <2>1 DEF Boot, ReadyWaits, ReadyTaken
    <2> QED
      BY <1>0, <1>5, <2>1, <2>2, ShotsTaken DEF HandleReady, Shows
  <1>6. CASE HandlePages
    <2>1. Taken /\ Head(stdout).type = "pages" /\ nodePages' = Head(stdout).pages
      BY <1>6 DEF HandlePages, TakeLine, Taken
    <2> QED
      BY <1>0, <2>1, ShotsTaken DEF Shows
  <1>7. CASE HandleFatal
    BY <1>b, <1>7 DEF HandleFatal
  <1>8. CASE HandleResult
    BY <1>b, <1>8 DEF HandleResult
  <1>9. CASE HandleError
    BY <1>b, <1>9 DEF HandleError
  <1>10. CASE HandleEvent
    BY <1>b, <1>10 DEF HandleEvent
  <1>11. CASE HandleClosed
    BY <1>b, <1>11 DEF HandleClosed
  <1> QED
    BY <1>1, <1>2, <1>3, <1>4, <1>5, <1>6, <1>7, <1>8, <1>9, <1>10, <1>11
    DEF NodeNext, NodeHandles

LEMMA ViewChild == TypeOK /\ Boot /\ NodeViewInSync /\ ChildNext => NodeViewInSync'
  <1> SUFFICES ASSUME TypeOK, Boot, NodeViewInSync, ChildNext, phase' = "running",
                      browser' # "gone"
               PROVE  InSync'
    BY DEF NodeViewInSync, InSync, Shots, Shows
  <1> USE DEF nodeVars, callVars, viewVars, childVars, wireVars, serverVars
  <1>0. UNCHANGED <<browser, nodePages>> /\ browser # "gone"
    BY DEF ChildNext, Connect, HandshakeBegin, HandshakePoll, HandshakeDone,
           HandshakeFailed, ReadSend, ReadClose, Poll, PollClosed, Exit
  <1>1. CASE HandshakeDone
    <2> DEFINE l == [type |-> "ready", pages |-> pages]
    <2>1. l \in Line /\ Shows(l) /\ l.pages = pages
      BY DEF Line, TypeOK, Shows
    <2>2. Emit(<<l>>) /\ pages' = pages
      BY <1>1 DEF HandshakeDone
    <2> HIDE DEF l
    <2> QED
      BY <1>0, <2>1, <2>2, EmitOne, ShotsPrinted
  <1>2. CASE ReadSend
    <2>1. UNCHANGED <<stdout, pages>> /\ phase = "running"
      BY <1>2 DEF ReadSend
    <2> QED
      BY <1>0, <2>1 DEF NodeViewInSync, InSync, Shots, Shows
  <1>3. CASE Poll
    <2> DEFINE m == Head(toChild)
    <2>1. m \in Message /\ Emit(LinesOf(m)) /\ phase = "running" /\ pages' = PagesAfter(m)
      BY <1>3, TailAt DEF Poll, Route, TypeOK
    <2>2. InSync
      BY <1>0, <2>1 DEF NodeViewInSync, InSync, Shots, Shows
    <2>3. m.kind \in {"reply", "event"} => pages' = pages
      BY <2>1 DEF PagesAfter
    <2>4. CASE LinesOf(m) = << >>
      <3>1. stdout' = stdout /\ pages' = pages
        BY <2>1, <2>3, <2>4, LinesOfShape DEF Emit
      <3> QED
        BY <1>0, <2>2, <3>1 DEF InSync, Shots
    <2>5. ASSUME NEW l \in Line, LinesOf(m) = <<l>>, l.type = "pages", l.pages = PagesAfter(m)
          PROVE  InSync'
      BY <1>0, <2>1, <2>5, EmitOne, ShotsPrinted DEF Shows
    <2>6. ASSUME NEW l \in Line, LinesOf(m) = <<l>>, l.type \in {"result", "error", "event"},
                 pages' = pages
          PROVE  InSync'
      BY <1>0, <2>1, <2>2, <2>6, EmitOne, ShotsPrinted DEF Shows
    <2> QED
      BY <2>1, <2>3, <2>4, <2>5, <2>6, LinesOfShape
  <1> QED
    BY <1>1, <1>2, <1>3
    DEF ChildNext, Connect, HandshakeBegin, HandshakePoll, HandshakeFailed, ReadClose,
        PollClosed, Exit

\* Node's page map is the child's up to the snapshots still in the pipe, whatever attaches,
\* detaches or is destroyed while connect() waits and after.
THEOREM NodeViewCorrect == Spec => []NodeViewInSync
  <1>1. Init => NodeViewInSync
    BY DEF Init, NodeViewInSync
  <1>2. NodeViewInSync /\ (ServerNext \/ UNCHANGED vars) => NodeViewInSync'
    BY ServerFrames DEF NodeViewInSync
  <1>3. TypeOK /\ Boot /\ NodeViewInSync /\ [Next]_vars => NodeViewInSync'
    BY <1>2, ViewNode, ViewChild DEF Next
  <1> QED
    BY <1>1, <1>3, TypeCorrect, BootCorrect, PTL DEF Spec

-----------------------------------------------------------------------------
(* The child's page map *)

Live == phase \in Before \cup {"running"}

\* One message at the end of the child's socket; the message at its head is gone.
Arrived(m) == toChild' = Append(toChild, m)
Read == toChild # << >> /\ toChild' = Tail(toChild)

\* The server never attaches two pages under one session.
OwnSessions ==
  /\ \A t \in Targets : attached[t] # NoSession => attached[t] \in usedSessions
  /\ \A t, u \in Targets : attached[t] # NoSession /\ attached[t] = attached[u] => t = u

\* A detachment that names its target names the page which that session is by then: the
\* child may forget the target's page without asking which session it has.
NamedRight ==
  \A i \in DOMAIN toChild :
    toChild[i].kind = "detached" /\ toChild[i].target \in Targets
      => Foreseen(i - 1, toChild[i].target, toChild[i].session)

Synced == \A t \in Targets, s \in Sessions : attached[t] = s <=> Foreseen(Len(toChild), t, s)

ViewInv == OwnSessions /\ (Live => NamedRight /\ Synced)

LEMMA MessagesArrived ==
  ASSUME TypeOK, NEW m \in Message, Arrived(m), pages' = pages, NEW t \in Targets,
         NEW s \in Sessions, NEW len, len = Len(toChild)
  PROVE  /\ len \in Nat /\ Len(toChild') = len + 1
         /\ \A k \in 0 .. len : Foreseen(k, t, s)' <=> Foreseen(k, t, s)
         /\ Foreseen(len + 1, t, s)'
              <=> Begins(m, t, s) \/ (Foreseen(len, t, s) /\ ~Ends(m, t, s))
  <1> DEFINE n == Len(toChild)
  <1>1. /\ n \in Nat /\ toChild'[n + 1] = m
        /\ \A i \in 1 .. n : toChild'[i] = toChild[i]
    BY AppendAt DEF TypeOK, Arrived
  <1>2. \A i \in 1 .. n : /\ Ends(toChild'[i], t, s) <=> Ends(toChild[i], t, s)
                          /\ Begins(toChild'[i], t, s) <=> Begins(toChild[i], t, s)
    BY <1>1
  <1>3. /\ Ends(toChild'[n + 1], t, s) <=> Ends(m, t, s)
        /\ Begins(toChild'[n + 1], t, s) <=> Begins(m, t, s)
    BY <1>1
  <1>n. len \in Nat /\ len = n
    BY <1>1
  <1>4. ASSUME NEW k \in 0 .. len PROVE Foreseen(k, t, s)' <=> Foreseen(k, t, s)
    <2>1. \A i \in 1 .. k : i \in 1 .. n
      BY <1>n, <1>4
    <2>2. \A i \in 1 .. k : \A j \in i + 1 .. k : j \in 1 .. n
      BY <1>n, <1>4
    <2> HIDE DEF n
    <2> QED
      BY <1>2, <2>1, <2>2 DEF Foreseen
  <1>5. Foreseen(len + 1, t, s)' <=> Begins(m, t, s) \/ (Foreseen(len, t, s) /\ ~Ends(m, t, s))
    <2>1. \A i \in 1 .. len : i \in 1 .. n /\ i \in 1 .. len + 1
      BY <1>n
    <2>2. \A i \in 1 .. len : \A j \in i + 1 .. len : j \in 1 .. n /\ j \in i + 1 .. len + 1
      BY <1>n
    <2>3. \A i \in 1 .. len + 1 : i = len + 1 \/ i \in 1 .. len
      BY <1>n
    <2>4. \A i \in 1 .. len : \A j \in i + 1 .. len + 1 : j = len + 1 \/ j \in i + 1 .. len
      BY <1>n
    <2>5. \A i \in 1 .. len : len + 1 \in i + 1 .. len + 1
      BY <1>n
    <2>6. len + 1 \in 1 .. len + 1 /\ \A j \in len + 1 + 1 .. len + 1 : FALSE
      BY <1>n
    <2>7. /\ Ends(toChild'[len + 1], t, s) <=> Ends(m, t, s)
          /\ Begins(toChild'[len + 1], t, s) <=> Begins(m, t, s)
      BY <1>3, <1>n
    <2> DEFINE Kept == pages[t] = s /\ \A j \in 1 .. len : ~Ends(toChild[j], t, s)
               Begun == \E i \in 1 .. len : /\ Begins(toChild[i], t, s)
                                            /\ \A j \in i + 1 .. len : ~Ends(toChild[j], t, s)
    <2> HIDE DEF n
    <2>8. (pages'[t] = s /\ \A j \in 1 .. len + 1 : ~Ends(toChild'[j], t, s))
            <=> Kept /\ ~Ends(m, t, s)
      BY <1>2, <2>1, <2>3, <2>6, <2>7
    <2>9. (\E i \in 1 .. len + 1 : /\ Begins(toChild'[i], t, s)
                                   /\ \A j \in i + 1 .. len + 1 : ~Ends(toChild'[j], t, s))
            <=> Begins(m, t, s) \/ (Begun /\ ~Ends(m, t, s))
      <3>1. ASSUME Begins(m, t, s)
            PROVE  \E i \in 1 .. len + 1 : /\ Begins(toChild'[i], t, s)
                                           /\ \A j \in i + 1 .. len + 1 : ~Ends(toChild'[j], t, s)
        BY <2>6, <2>7, <3>1
      <3>2. ASSUME Begun, ~Ends(m, t, s)
            PROVE  \E i \in 1 .. len + 1 : /\ Begins(toChild'[i], t, s)
                                           /\ \A j \in i + 1 .. len + 1 : ~Ends(toChild'[j], t, s)
        <4>1. PICK i \in 1 .. len : /\ Begins(toChild[i], t, s)
                                    /\ \A j \in i + 1 .. len : ~Ends(toChild[j], t, s)
          BY <3>2
        <4>2. Begins(toChild'[i], t, s) /\ i \in 1 .. len + 1
          BY <1>2, <2>1, <4>1
        <4>3. \A j \in i + 1 .. len + 1 : ~Ends(toChild'[j], t, s)
          BY <1>2, <2>2, <2>4, <2>7, <3>2, <4>1
        <4> QED
          BY <4>2, <4>3
      <3>3. ASSUME NEW i \in 1 .. len + 1, Begins(toChild'[i], t, s),
                   \A j \in i + 1 .. len + 1 : ~Ends(toChild'[j], t, s), ~Begins(m, t, s)
            PROVE  Begun /\ ~Ends(m, t, s)
        <4>1. i \in 1 .. len
          BY <2>3, <2>7, <3>3
        <4>2. Begins(toChild[i], t, s)
          BY <1>2, <2>1, <3>3, <4>1
        <4>3. \A j \in i + 1 .. len : ~Ends(toChild[j], t, s)
          BY <1>2, <2>2, <3>3, <4>1
        <4>4. ~Ends(m, t, s)
          BY <2>5, <2>7, <3>3, <4>1
        <4> QED
          BY <4>1, <4>2, <4>3, <4>4
      <3> QED
        BY <3>1, <3>2, <3>3
    <2>10. Foreseen(len, t, s) <=> Kept \/ Begun
      BY DEF Foreseen
    <2>11. Foreseen(len + 1, t, s)' <=>
             \/ pages'[t] = s /\ \A j \in 1 .. len + 1 : ~Ends(toChild'[j], t, s)
             \/ \E i \in 1 .. len + 1 : /\ Begins(toChild'[i], t, s)
                                        /\ \A j \in i + 1 .. len + 1 : ~Ends(toChild'[j], t, s)
      BY DEF Foreseen
    <2> QED
      BY <2>8, <2>9, <2>10, <2>11
  <1>6. Len(toChild') = len + 1
    BY AppendAt DEF TypeOK, Arrived
  <1> QED
    BY <1>4, <1>5, <1>6, <1>n

LEMMA MessagesRead ==
  ASSUME TypeOK, Read, NEW t \in Targets, NEW s \in Sessions, NEW len, len = Len(toChild),
         pages'[t] = s <=> \/ Begins(Head(toChild), t, s)
                           \/ pages[t] = s /\ ~Ends(Head(toChild), t, s)
  PROVE  /\ len \in Nat /\ len >= 1 /\ Len(toChild') = len - 1
         /\ \A k \in 0 .. len - 1 : Foreseen(k, t, s)' <=> Foreseen(k + 1, t, s)
  <1>1. /\ len \in Nat /\ len >= 1 /\ Len(toChild') = len - 1 /\ Head(toChild) = toChild[1]
        /\ \A i \in 1 .. len - 1 : toChild'[i] = toChild[i + 1]
    BY TailAt DEF TypeOK, Read
  <1>2. \A i \in 1 .. len - 1 : /\ Ends(toChild'[i], t, s) <=> Ends(toChild[i + 1], t, s)
                                /\ Begins(toChild'[i], t, s) <=> Begins(toChild[i + 1], t, s)
    BY <1>1
  <1>3. pages'[t] = s <=> Begins(toChild[1], t, s) \/ (pages[t] = s /\ ~Ends(toChild[1], t, s))
    BY <1>1
  <1>4. ASSUME NEW k \in 0 .. len - 1 PROVE Foreseen(k, t, s)' <=> Foreseen(k + 1, t, s)
    <2>1. \A i \in 1 .. k : i \in 1 .. len - 1 /\ i + 1 \in 1 .. k + 1 /\ i + 1 \in Nat
      BY <1>1, <1>4
    <2>2. \A i \in 1 .. k + 1 : i = 1 \/ (i - 1 \in 1 .. k /\ i - 1 + 1 = i)
      BY <1>1, <1>4
    <2>3. \A i \in 1 .. k : \A j \in i + 1 .. k :
            j \in 1 .. k /\ j + 1 \in i + 1 + 1 .. k + 1
      BY <1>1, <1>4
    <2>4. \A i \in 1 .. k : \A j \in i + 1 + 1 .. k + 1 :
            j - 1 \in i + 1 .. k /\ j - 1 \in 1 .. k /\ j - 1 + 1 = j
      BY <1>1, <1>4
    <2>5. 1 \in 1 .. k + 1 /\ \A j \in 2 .. k + 1 : j - 1 \in 1 .. k /\ j - 1 + 1 = j
      BY <1>1, <1>4
    <2>6. \A j \in 1 .. k : j + 1 \in 2 .. k + 1
      BY <1>1, <1>4
    <2> DEFINE KeptThen(a) == \A j \in a + 1 .. k + 1 : ~Ends(toChild[j], t, s)
               KeptNow(a) == \A j \in a + 1 .. k : ~Ends(toChild'[j], t, s)
    <2>7. KeptNow(0) <=> KeptThen(1)
      <3>1. ASSUME KeptThen(1) PROVE KeptNow(0)
        <4>1. \A j \in 2 .. k + 1 : ~Ends(toChild[j], t, s)
          BY <3>1
        <4>2. \A j \in 1 .. k : ~Ends(toChild'[j], t, s)
          BY <1>2, <2>1, <2>6, <4>1
        <4> QED
          BY <4>2
      <3>2. ASSUME KeptNow(0) PROVE KeptThen(1)
        <4>1. \A j \in 1 .. k : ~Ends(toChild'[j], t, s)
          BY <3>2
        <4>2. \A j \in 2 .. k + 1 : ~Ends(toChild[j], t, s)
          BY <1>2, <2>1, <2>5, <4>1
        <4> QED
          BY <4>2
      <3> QED
        BY <3>1, <3>2
    <2>8. \A i \in 1 .. k : KeptNow(i) <=> KeptThen(i + 1)
      <3>1. ASSUME NEW i \in 1 .. k, KeptThen(i + 1) PROVE KeptNow(i)
        BY <1>2, <2>1, <2>3, <3>1
      <3>2. ASSUME NEW i \in 1 .. k, KeptNow(i) PROVE KeptThen(i + 1)
        <4>1. SUFFICES ASSUME NEW j \in i + 1 + 1 .. k + 1 PROVE ~Ends(toChild[j], t, s)
          OBVIOUS
        <4>2. j - 1 \in i + 1 .. k /\ j - 1 \in 1 .. len - 1 /\ j - 1 + 1 = j
          BY <2>1, <2>4
        <4>3. ~Ends(toChild'[j - 1], t, s)
          BY <3>2, <4>2
        <4> QED
          BY <1>2, <4>2, <4>3
      <3> QED
        BY <3>1, <3>2
    <2>9. Foreseen(k, t, s)' <=> \/ pages'[t] = s /\ KeptNow(0)
                                 \/ \E i \in 1 .. k : Begins(toChild'[i], t, s) /\ KeptNow(i)
      BY DEF Foreseen
    <2>10. Foreseen(k + 1, t, s) <=> \/ pages[t] = s /\ KeptThen(0)
                                     \/ \E i \in 1 .. k + 1 : Begins(toChild[i], t, s) /\ KeptThen(i)
      BY DEF Foreseen
    <2>11. KeptThen(0) <=> ~Ends(toChild[1], t, s) /\ KeptThen(1)
      <3>1. \A j : j \in 0 + 1 .. k + 1 <=> j = 1 \/ j \in 1 + 1 .. k + 1
        BY <1>1, <1>4
      <3> QED
        BY <3>1
    <2> HIDE DEF KeptThen, KeptNow
    <2>12. (\E i \in 1 .. k + 1 : Begins(toChild[i], t, s) /\ KeptThen(i))
             <=> \/ Begins(toChild[1], t, s) /\ KeptThen(1)
                 \/ \E i \in 1 .. k : Begins(toChild'[i], t, s) /\ KeptNow(i)
      <3>1. ASSUME NEW i \in 1 .. k + 1, Begins(toChild[i], t, s), KeptThen(i), i # 1
            PROVE  \E x \in 1 .. k : Begins(toChild'[x], t, s) /\ KeptNow(x)
        <4>1. PICK x \in 1 .. k : x + 1 = i
          BY <2>2, <3>1
        <4> QED
          BY <1>2, <2>1, <2>8, <3>1, <4>1
      <3>2. ASSUME NEW i \in 1 .. k, Begins(toChild'[i], t, s), KeptNow(i)
            PROVE  \E x \in 1 .. k + 1 : Begins(toChild[x], t, s) /\ KeptThen(x)
        BY <1>2, <2>1, <2>8, <3>2
      <3> QED
        BY <2>5, <3>1, <3>2
    <2> QED
      BY <1>3, <2>7, <2>9, <2>10, <2>11, <2>12
  <1> QED
    BY <1>1, <1>4

\* What one message does to the child's map, given that a named target is the right one.
LEMMA PagesAfterMeans ==
  ASSUME TypeOK, NEW m \in Message, NEW t \in Targets, NEW s \in Sessions,
         m.kind = "detached" /\ m.target \in Targets => pages[m.target] = m.session
  PROVE  PagesAfter(m)[t] = s <=> Begins(m, t, s) \/ (pages[t] = s /\ ~Ends(m, t, s))
  <1>1. pages \in PageMap /\ NoSession # s
    BY NullsAssumption DEF TypeOK
  <1>2. CASE m.kind = "attached" /\ m.page
    BY <1>1, <1>2 DEF PagesAfter, Begins, Ends, PageMap
  <1>3. CASE m.kind = "detached"
    <2>1. PagesAfter(m)[t] = IF t = m.target \/ pages[t] = m.session THEN NoSession ELSE pages[t]
      BY <1>3 DEF PagesAfter
    <2>2. ~Begins(m, t, s) /\ (Ends(m, t, s) <=> m.session = s)
      BY <1>3 DEF Begins, Ends
    <2> QED
      BY <1>1, <1>3, <2>1, <2>2
  <1>4. CASE m.kind = "destroyed"
    BY <1>1, <1>4 DEF PagesAfter, Begins, Ends, PageMap
  <1>5. CASE ~(m.kind = "attached" /\ m.page) /\ m.kind \notin {"detached", "destroyed"}
    <2>1. PagesAfter(m) = pages
      BY <1>5 DEF PagesAfter
    <2>2. ~Begins(m, t, s) /\ ~Ends(m, t, s)
      BY <1>5 DEF Begins, Ends
    <2> QED
      BY <2>1, <2>2
  <1> QED
    BY <1>2, <1>3, <1>4, <1>5

\* Reading a message off the socket keeps the map in step.
LEMMA ViewRead ==
  ASSUME TypeOK, NamedRight, Synced, Read, pages' = PagesAfter(Head(toChild)),
         attached' = attached
  PROVE  NamedRight' /\ Synced'
  <1> DEFINE m == Head(toChild)
  <1>1. PICK len : len = Len(toChild)
    OBVIOUS
  <1>2. /\ m \in Message /\ m = toChild[1] /\ len \in Nat /\ len >= 1 /\ Len(toChild') = len - 1
        /\ DOMAIN toChild = 1 .. len /\ DOMAIN toChild' = 1 .. len - 1
        /\ \A i \in 1 .. len - 1 : toChild'[i] = toChild[i + 1] /\ toChild[i + 1] \in Message
    BY <1>1, TailAt DEF TypeOK, Read
  <1>3. m.kind = "detached" /\ m.target \in Targets => pages[m.target] = m.session
    <2>1. SUFFICES ASSUME m.kind = "detached", m.target \in Targets
                   PROVE  pages[m.target] = m.session
      OBVIOUS
    <2>2. Foreseen(1 - 1, m.target, m.session)
      BY <1>2, <2>1 DEF NamedRight
    <2>3. \A i \in 1 .. 1 - 1 : FALSE
      OBVIOUS
    <2> QED
      BY <2>2, <2>3 DEF Foreseen
  <1>4. ASSUME NEW t \in Targets, NEW s \in Sessions
        PROVE  pages'[t] = s <=> Begins(m, t, s) \/ (pages[t] = s /\ ~Ends(m, t, s))
    BY <1>2, <1>3, PagesAfterMeans
  <1>5. ASSUME NEW t \in Targets, NEW s \in Sessions, NEW k \in 0 .. len - 1
        PROVE  Foreseen(k, t, s)' <=> Foreseen(k + 1, t, s)
    BY <1>1, <1>4, MessagesRead
  <1>6. Synced'
    <2>1. SUFFICES ASSUME NEW t \in Targets, NEW s \in Sessions
                   PROVE  attached[t] = s <=> Foreseen(Len(toChild), t, s)'
      BY DEF Synced
    <2>2. len - 1 \in 0 .. len - 1 /\ len - 1 + 1 = len
      BY <1>2
    <2>3. Foreseen(len - 1, t, s)' <=> Foreseen(len, t, s)
      <3>1. PICK k \in 0 .. len - 1 : k = len - 1 /\ k + 1 = len
        BY <2>2
      <3>2. Foreseen(k, t, s)' <=> Foreseen(len, t, s)
        BY <1>5, <3>1
      <3> QED
        BY <3>1, <3>2
    <2>4. Foreseen(Len(toChild), t, s)' <=> Foreseen(len - 1, t, s)'
      BY <1>2 DEF Foreseen
    <2> QED
      BY <1>1, <2>3, <2>4 DEF Synced
  <1>7. NamedRight'
    <2>1. SUFFICES ASSUME NEW i \in 1 .. len - 1, NEW x, x = toChild'[i], x.kind = "detached",
                          x.target \in Targets
                   PROVE  Foreseen(i - 1, x.target, x.session)'
      BY <1>2 DEF NamedRight
    <2>3. x = toChild[i + 1] /\ x \in Message /\ x.session \in Sessions /\ x.target \in Targets
            /\ x.kind = "detached" /\ i + 1 \in DOMAIN toChild
      BY <1>2, <2>1, MessageFields
    <2>4. PICK k \in 0 .. len - 1 : k = i - 1 /\ k + 1 = i + 1 - 1
      BY <1>2, <2>1
    <2>5. Foreseen(k + 1, x.target, x.session)
      BY <2>3, <2>4 DEF NamedRight
    <2>6. PICK t \in Targets, s \in Sessions : t = x.target /\ s = x.session
      BY <2>3
    <2>7. Foreseen(k, t, s)'
      BY <1>5, <2>5, <2>6
    <2> QED
      BY <2>4, <2>6, <2>7 DEF Foreseen
  <1> QED
    BY <1>6, <1>7

\* So does a message put on it that says what the server did.
LEMMA ViewArrived ==
  ASSUME TypeOK, NamedRight, Synced, NEW m \in Message, Arrived(m), pages' = pages,
         \A t \in Targets, s \in Sessions :
           attached'[t] = s <=> Begins(m, t, s) \/ (attached[t] = s /\ ~Ends(m, t, s)),
         m.kind = "detached" /\ m.target \in Targets => attached[m.target] = m.session
  PROVE  NamedRight' /\ Synced'
  <1>1. PICK len : len = Len(toChild)
    OBVIOUS
  <1>2. /\ len \in Nat /\ Len(toChild') = len + 1 /\ toChild'[len + 1] = m
        /\ DOMAIN toChild = 1 .. len /\ DOMAIN toChild' = 1 .. len + 1
        /\ \A i \in 1 .. len : toChild'[i] = toChild[i] /\ toChild[i] \in Message
    BY <1>1, AppendAt DEF TypeOK, Arrived
  <1>3. ASSUME NEW t \in Targets, NEW s \in Sessions
        PROVE  /\ \A k \in 0 .. len : Foreseen(k, t, s)' <=> Foreseen(k, t, s)
               /\ Foreseen(len + 1, t, s)'
                    <=> Begins(m, t, s) \/ (Foreseen(len, t, s) /\ ~Ends(m, t, s))
    BY <1>1, MessagesArrived
  <1>4. Synced'
    <2>1. SUFFICES ASSUME NEW t \in Targets, NEW s \in Sessions
                   PROVE  attached'[t] = s <=> Foreseen(Len(toChild), t, s)'
      BY DEF Synced
    <2>2. Foreseen(Len(toChild), t, s)' <=> Foreseen(len + 1, t, s)'
      BY <1>2 DEF Foreseen
    <2>3. attached[t] = s <=> Foreseen(len, t, s)
      BY <1>1 DEF Synced
    <2> QED
      BY <1>3, <2>2, <2>3
  <1>5. NamedRight'
    <2>1. SUFFICES ASSUME NEW i \in 1 .. len + 1, NEW x, x = toChild'[i], x.kind = "detached",
                          x.target \in Targets
                   PROVE  Foreseen(i - 1, x.target, x.session)'
      BY <1>2 DEF NamedRight
    <2>3. x \in Message /\ x.session \in Sessions /\ x.target \in Targets /\ x.kind = "detached"
      <3>1. i = len + 1 \/ i \in 1 .. len
        BY <1>2, <2>1
      <3> QED
        BY <1>2, <2>1, <3>1, MessageFields
    <2>4. PICK k \in 0 .. len : k = i - 1
      BY <1>2, <2>1
    <2>5. Foreseen(k, x.target, x.session)
      <3>1. CASE i = len + 1
        <4>1. x = m /\ k = len
          BY <1>2, <2>1, <2>4, <3>1
        <4> QED
          BY <1>1, <2>3, <4>1 DEF Synced
      <3>2. CASE i \in 1 .. len
        <4>1. x = toChild[i] /\ i \in DOMAIN toChild
          BY <1>2, <2>1, <3>2
        <4> QED
          BY <2>3, <2>4, <4>1 DEF NamedRight
      <3> QED
        BY <1>2, <3>1, <3>2
    <2>6. PICK t \in Targets, s \in Sessions : t = x.target /\ s = x.session
      BY <2>3
    <2>7. Foreseen(k, t, s)'
      BY <1>3, <2>5, <2>6
    <2> QED
      BY <2>4, <2>6, <2>7 DEF Foreseen
  <1> QED
    BY <1>4, <1>5

LEMMA ViewInvServer == TypeOK /\ ViewInv /\ ServerNext => ViewInv'
  <1> SUFFICES ASSUME TypeOK, ViewInv, ServerNext PROVE ViewInv'
    OBVIOUS
  <1>0. UNCHANGED <<phase, pages>>
    BY ServerFrames
  <1>a. ASSUME NEW m \in Message, Arrived(m), OwnSessions',
               Live => \A t \in Targets, s \in Sessions :
                 attached'[t] = s <=> Begins(m, t, s) \/ (attached[t] = s /\ ~Ends(m, t, s)),
               m.kind = "detached" /\ m.target \in Targets => attached[m.target] = m.session
        PROVE  ViewInv'
    BY <1>0, <1>a, ViewArrived DEF ViewInv, Live
  <1>b. ASSUME NEW m \in Message, Arrived(m), UNCHANGED <<attached, usedSessions>>,
               m.kind \in {"reply", "event", "close"} \/ (m.kind = "attached" /\ ~m.page)
        PROVE  ViewInv'
    <2>1. \A t \in Targets, s \in Sessions : ~Begins(m, t, s) /\ ~Ends(m, t, s)
      BY <1>b DEF Begins, Ends
    <2>2. OwnSessions'
      BY <1>b DEF ViewInv, OwnSessions
    <2>3. m.kind # "detached"
      BY <1>b
    <2> QED
      BY <1>a, <1>b, <2>1, <2>2, <2>3
  <1>1. ASSUME NEW c \in atServer, Reply(c) PROVE ViewInv'
    <2>1. PICK ok \in BOOLEAN : Push([kind |-> "reply", id |-> c.id, ok |-> ok, body |-> c.body])
      BY <1>1 DEF Reply
    <2> DEFINE m == [kind |-> "reply", id |-> c.id, ok |-> ok, body |-> c.body]
    <2>2. m \in Message /\ m.kind = "reply"
      BY DEF TypeOK, Command, Message
    <2>3. Arrived(m) /\ UNCHANGED <<attached, usedSessions>>
      BY <1>1, <2>1 DEF Push, Arrived, Reply
    <2> HIDE DEF m
    <2> QED
      BY <1>b, <2>2, <2>3
  <1>2. ASSUME NEW t \in Targets, NEW s \in Sessions, Attach(t, s) PROVE ViewInv'
    <2>1. PICK page \in BOOLEAN :
            /\ page => attached[t] = NoSession
            /\ attached' = IF page THEN [attached EXCEPT ![t] = s] ELSE attached
            /\ Push([kind |-> "attached", target |-> t, session |-> s, page |-> page])
      BY <1>2 DEF Attach
    <2> DEFINE m == [kind |-> "attached", target |-> t, session |-> s, page |-> page]
    <2>2. m \in Message /\ m.kind = "attached" /\ m.page = page /\ m.target = t /\ m.session = s
      BY DEF Message
    <2>3. Arrived(m)
      BY <2>1 DEF Push, Arrived
    <2> HIDE DEF m
    <2>4. /\ s \notin usedSessions /\ usedSessions' = usedSessions \cup {s}
          /\ attached \in PageMap
      BY <1>2 DEF Attach, TypeOK
    <2>5. OwnSessions'
      <3>1. \A u \in Targets : attached'[u] = IF page /\ u = t THEN s ELSE attached[u]
        BY <2>1, <2>4 DEF PageMap
      <3>2. \A u \in Targets : attached[u] # s
        BY <2>4, NullsAssumption DEF ViewInv, OwnSessions
      <3> QED
        BY <2>4, <3>1, <3>2 DEF ViewInv, OwnSessions
    <2>6. \A u \in Targets, x \in Sessions :
            attached'[u] = x <=> Begins(m, u, x) \/ (attached[u] = x /\ ~Ends(m, u, x))
      BY <2>1, <2>2, <2>4, NullsAssumption DEF Begins, Ends, PageMap
    <2> QED
      BY <1>a, <2>2, <2>3, <2>5, <2>6
  <1>3. ASSUME NEW t \in Targets, Detach(t) PROVE ViewInv'
    <2>1. /\ attached[t] \in Sessions /\ attached \in PageMap /\ usedSessions' = usedSessions
          /\ \A u \in Targets : attached'[u] = IF u = t THEN NoSession ELSE attached[u]
      BY <1>3 DEF Detach, TypeOK, PageMap
    <2>2. OwnSessions'
      BY <2>1 DEF ViewInv, OwnSessions
    <2>3. \A u \in Targets : attached[u] = attached[t] => u = t
      BY <2>1, NullsAssumption DEF ViewInv, OwnSessions
    <2>4. ASSUME NEW named \in {t, NoTarget},
                 Push([kind |-> "detached", target |-> named, session |-> attached[t]])
          PROVE  ViewInv'
      <3> DEFINE m == [kind |-> "detached", target |-> named, session |-> attached[t]]
      <3>1. m \in Message /\ m.kind = "detached" /\ m.target = named /\ m.session = attached[t]
        BY <2>1, <2>4 DEF Message
      <3>2. Arrived(m)
        BY <2>4 DEF Push, Arrived
      <3> HIDE DEF m
      <3>3. m.target \in Targets => attached[m.target] = m.session
        BY <3>1, NullsAssumption
      <3>4. \A u \in Targets, x \in Sessions :
              attached'[u] = x <=> Begins(m, u, x) \/ (attached[u] = x /\ ~Ends(m, u, x))
        BY <2>1, <2>3, <3>1, NullsAssumption DEF Begins, Ends
      <3> QED
        BY <1>a, <2>2, <3>1, <3>2, <3>3, <3>4
    <2>5. ASSUME Push([kind |-> "destroyed", target |-> t]) PROVE ViewInv'
      <3> DEFINE m == [kind |-> "destroyed", target |-> t]
      <3>1. m \in Message /\ m.kind = "destroyed" /\ m.target = t
        BY DEF Message
      <3>2. Arrived(m)
        BY <2>5 DEF Push, Arrived
      <3> HIDE DEF m
      <3>3. \A u \in Targets, x \in Sessions :
              attached'[u] = x <=> Begins(m, u, x) \/ (attached[u] = x /\ ~Ends(m, u, x))
        BY <2>1, <3>1, NullsAssumption DEF Begins, Ends
      <3> QED
        BY <1>a, <2>2, <3>1, <3>2, <3>3
    <2> QED
      BY <1>3, <2>4, <2>5 DEF Detach
  <1>4. ASSUME NEW s \in Sessions, EmitEvent(s) PROVE ViewInv'
    <2> DEFINE m == [kind |-> "event", session |-> s, n |-> emitted'[s]]
    <2>1. m \in Message /\ m.kind = "event"
      <3>1. emitted'[s] \in Nat
        BY <1>4 DEF EmitEvent, TypeOK
      <3> QED
        BY <3>1 DEF Message
    <2>2. Arrived(m) /\ UNCHANGED <<attached, usedSessions>>
      BY <1>4 DEF EmitEvent, Push, Arrived
    <2> HIDE DEF m
    <2> QED
      BY <1>b, <2>1, <2>2
  <1>5. CASE Hangup
    <2> DEFINE m == [kind |-> "close"]
    <2>1. m \in Message /\ m.kind = "close"
      BY DEF Message
    <2>2. Arrived(m) /\ UNCHANGED <<attached, usedSessions>>
      BY <1>5 DEF Hangup, Arrived
    <2> HIDE DEF m
    <2> QED
      BY <1>b, <2>1, <2>2
  <1> QED
    BY <1>1, <1>2, <1>3, <1>4, <1>5 DEF ServerNext

LEMMA ViewInvRest == TypeOK /\ ViewInv /\ (NodeNext \/ ChildNext \/ UNCHANGED vars) => ViewInv'
  <1> SUFFICES ASSUME TypeOK, ViewInv, NodeNext \/ ChildNext \/ UNCHANGED vars PROVE ViewInv'
    OBVIOUS
  <1> USE DEF nodeVars, callVars, viewVars, childVars, wireVars, serverVars
  <1>1. UNCHANGED <<attached, usedSessions>>
    BY DEF NodeNext, NodeHandles, TakeLine, Send, SendRefused, NewSession, Close, NodeGone,
           OnExit, HandleReady, HandleFatal, HandleResult, HandleError, HandleEvent,
           HandlePages, HandleClosed, vars, ChildNext, Connect, HandshakeBegin,
           HandshakePoll, HandshakeDone, HandshakeFailed, ReadSend, ReadClose, Poll,
           PollClosed, Exit
  <1>2. OwnSessions'
    BY <1>1 DEF ViewInv, OwnSessions
  <1>3. ASSUME UNCHANGED <<toChild, pages>>, Live' => Live PROVE ViewInv'
    <2>1. \A k, t, s : Foreseen(k, t, s)' <=> Foreseen(k, t, s)
      BY <1>3 DEF Foreseen
    <2> QED
      BY <1>1, <1>2, <1>3, <2>1 DEF ViewInv, NamedRight, Synced
  <1>4. ASSUME ~Live' PROVE ViewInv'
    BY <1>2, <1>4 DEF ViewInv
  <1>5. CASE NodeNext \/ UNCHANGED vars
    <2>1. UNCHANGED <<toChild, pages, phase>>
      BY <1>5 DEF NodeNext, NodeHandles, TakeLine, Send, SendRefused, NewSession, Close, NodeGone,
           OnExit, HandleReady, HandleFatal, HandleResult, HandleError, HandleEvent,
           HandlePages, HandleClosed, vars
    <2> QED
      BY <1>3, <2>1 DEF Live
  <1>6. CASE HandshakePoll \/ Poll
    <2>1. Read /\ pages' = PagesAfter(Head(toChild)) /\ Live
      BY <1>6 DEF HandshakePoll, Poll, Route, Read, Live, Before
    <2> QED
      BY <1>1, <1>2, <2>1, ViewRead DEF ViewInv
  <1>7. CASE ChildNext /\ ~HandshakePoll /\ ~Poll
    <2>1. (UNCHANGED <<toChild, pages>> /\ (Live' => Live)) \/ ~Live'
      BY <1>7 DEF ChildNext, Connect, HandshakeBegin, HandshakeDone, HandshakeFailed,
           ReadSend, ReadClose, PollClosed, Exit, Live, Before
    <2> QED
      BY <1>3, <1>4, <2>1
  <1> QED
    BY <1>5, <1>6, <1>7

\* The child's page map, with the messages on the way, is the server's: the premise under which
\* the snapshots it announces to Node are right.
THEOREM ChildViewCorrect == Spec => []ChildViewInSync
  <1>1. Init => ViewInv
    <2> SUFFICES ASSUME Init PROVE ViewInv
      OBVIOUS
    <2>1. /\ \A t \in Targets : attached[t] = NoSession /\ pages[t] = NoSession
          /\ DOMAIN toChild = {} /\ Len(toChild) = 0
      BY DEF Init, NoPages
    <2>2. \A i \in 1 .. Len(toChild) : FALSE
      BY <2>1
    <2>3. \A t \in Targets, s \in Sessions : ~Foreseen(Len(toChild), t, s)
      BY <2>1, <2>2, NullsAssumption DEF Foreseen
    <2> QED
      BY <2>1, <2>3, NullsAssumption DEF ViewInv, OwnSessions, NamedRight, Synced
  <1>2. TypeOK /\ ViewInv /\ [Next]_vars => ViewInv'
    BY ViewInvServer, ViewInvRest DEF Next
  <1>3. ViewInv => ChildViewInSync
    BY DEF ViewInv, Synced, Live, Before, ChildViewInSync
  <1> QED
    BY <1>1, <1>2, <1>3, TypeCorrect, PTL DEF Spec

-----------------------------------------------------------------------------
(* Events *)

LineNumbers(s) == {stdout[i].n : i \in EventLines(s)}
MessageNumbers(s) == {toChild[i].n : i \in EventMessages(s)}
LinesOrdered(s) == \A i, j \in EventLines(s) : i < j => stdout[i].n < stdout[j].n
MessagesOrdered(s) == \A i, j \in EventMessages(s) : i < j => toChild[i].n < toChild[j].n

\* A line, a message, that carries an event of s.
EventLine(l, s) == l.type = "event" /\ l.session = s
EventMessage(m, s) == m.kind = "event" /\ m.session = s

LEMMA NumbersType ==
  ASSUME TypeOK, NEW s \in Sessions
  PROVE  /\ LineNumbers(s) \subseteq Nat /\ MessageNumbers(s) \subseteq Nat
         /\ OnTheWay(s) = LineNumbers(s) \cup MessageNumbers(s)
         /\ emitted[s] \in Nat /\ delivered[s] \in Seq(Nat)
         /\ delivered[s] # << >> => Last(delivered[s]) \in Nat
  <1>1. \A i \in EventLines(s) : stdout[i].n \in Nat
    <2>1. \A i \in EventLines(s) : stdout[i] \in Line /\ stdout[i].type = "event"
      BY DEF TypeOK, EventLines
    <2> QED
      BY <2>1, LineFields
  <1>2. \A i \in EventMessages(s) : toChild[i].n \in Nat
    <2>1. \A i \in EventMessages(s) : toChild[i] \in Message /\ toChild[i].kind = "event"
      BY DEF TypeOK, EventMessages
    <2> QED
      BY <2>1, MessageFields
  <1>3. emitted[s] \in Nat /\ delivered[s] \in Seq(Nat)
    BY DEF TypeOK
  <1>4. delivered[s] # << >> => Last(delivered[s]) \in Nat
    BY <1>3 DEF Last
  <1> QED
    BY <1>1, <1>2, <1>3, <1>4 DEF LineNumbers, MessageNumbers, OnTheWay

LEMMA LinesTaken ==
  ASSUME TypeOK, NEW s \in Sessions, LinesOrdered(s), Taken
  PROVE  /\ LinesOrdered(s)'
         /\ IF EventLine(Head(stdout), s)
            THEN /\ LineNumbers(s) = LineNumbers(s)' \cup {Head(stdout).n}
                 /\ \A a \in LineNumbers(s)' : Head(stdout).n < a
            ELSE LineNumbers(s)' = LineNumbers(s)
  <1>1. /\ Head(stdout) = stdout[1] /\ Len(stdout) \in Nat /\ Len(stdout) >= 1
        /\ DOMAIN stdout' = 1 .. Len(stdout) - 1 /\ DOMAIN stdout = 1 .. Len(stdout)
        /\ \A i \in 1 .. Len(stdout) - 1 : stdout'[i] = stdout[i + 1]
    BY TailAt DEF TypeOK, Taken
  <1>2. \A i \in EventLines(s)' : /\ i \in Nat /\ i >= 1 /\ i + 1 \in EventLines(s)
                                  /\ stdout'[i] = stdout[i + 1]
    BY <1>1 DEF EventLines
  <1>3. \A i \in EventLines(s) : /\ i \in Nat
                                 /\ i # 1 => /\ i - 1 \in EventLines(s)'
                                             /\ stdout'[i - 1] = stdout[i]
    BY <1>1 DEF EventLines
  <1>4. 1 \in EventLines(s) <=> EventLine(Head(stdout), s)
    BY <1>1 DEF EventLines, EventLine
  <1>5. LinesOrdered(s)'
    BY <1>2 DEF LinesOrdered
  <1>6. \A a \in LineNumbers(s)' : a \in LineNumbers(s)
    BY <1>2 DEF LineNumbers
  <1>7. \A a \in LineNumbers(s) : a \in LineNumbers(s)' \/ (1 \in EventLines(s) /\ a = stdout[1].n)
    BY <1>3 DEF LineNumbers
  <1>8. 1 \in EventLines(s) => stdout[1].n \in LineNumbers(s)
    BY DEF LineNumbers
  <1>9. 1 \in EventLines(s) => \A a \in LineNumbers(s)' : stdout[1].n < a
    <2>1. SUFFICES ASSUME 1 \in EventLines(s), NEW i \in EventLines(s)'
                   PROVE  stdout[1].n < stdout'[i].n
      BY DEF LineNumbers
    <2>2. i + 1 \in EventLines(s) /\ stdout'[i] = stdout[i + 1] /\ 1 < i + 1
      BY <1>2
    <2> QED
      BY <2>1, <2>2 DEF LinesOrdered
  <1> QED
    BY <1>1, <1>4, <1>5, <1>6, <1>7, <1>8, <1>9

LEMMA LinesPrinted ==
  ASSUME TypeOK, NEW s \in Sessions, LinesOrdered(s), NEW l \in Line, Printed(l),
         EventLine(l, s) => \A a \in LineNumbers(s) : a < l.n
  PROVE  /\ LinesOrdered(s)'
         /\ LineNumbers(s)' = IF EventLine(l, s) THEN LineNumbers(s) \cup {l.n}
                                                 ELSE LineNumbers(s)
  <1>0. PICK len : len = Len(stdout)
    OBVIOUS
  <1>1. /\ len \in Nat /\ stdout'[len + 1] = l
        /\ DOMAIN stdout' = 1 .. len + 1 /\ DOMAIN stdout = 1 .. len
        /\ \A i \in 1 .. len : stdout'[i] = stdout[i]
    BY <1>0, AppendAt DEF TypeOK, Printed
  <1>2. \A i \in EventLines(s) : /\ i \in 1 .. len /\ i \in EventLines(s)'
                                 /\ stdout'[i] = stdout[i]
    BY <1>1 DEF EventLines
  <1>3. \A i \in EventLines(s)' : /\ i \in 1 .. len + 1
                                  /\ \/ i \in EventLines(s) /\ stdout'[i] = stdout[i]
                                     \/ i = len + 1 /\ EventLine(l, s)
    <2>1. SUFFICES ASSUME NEW i \in EventLines(s)'
                   PROVE  /\ i \in 1 .. len + 1
                          /\ \/ i \in EventLines(s) /\ stdout'[i] = stdout[i]
                             \/ i = len + 1 /\ EventLine(l, s)
      OBVIOUS
    <2>2. i \in 1 .. len + 1 /\ stdout'[i].type = "event" /\ stdout'[i].session = s
      BY <1>1 DEF EventLines
    <2>3. i = len + 1 \/ i \in 1 .. len
      BY <1>1, <2>2
    <2> QED
      BY <1>1, <2>2, <2>3 DEF EventLines, EventLine
  <1>4. EventLine(l, s) => len + 1 \in EventLines(s)'
    BY <1>1 DEF EventLines, EventLine
  <1>5. LinesOrdered(s)'
    <2>1. SUFFICES ASSUME NEW i \in EventLines(s)', NEW j \in EventLines(s)', i < j
                   PROVE  stdout'[i].n < stdout'[j].n
      BY DEF LinesOrdered
    <2>2. i \in 1 .. len + 1 /\ j \in 1 .. len + 1 /\ i # len + 1
      BY <1>1, <1>3, <2>1
    <2>3. i \in EventLines(s) /\ stdout'[i] = stdout[i]
      BY <1>3, <2>2
    <2>4. CASE j = len + 1
      <3>1. EventLine(l, s) /\ stdout'[j].n = l.n
        BY <1>1, <1>2, <1>3, <2>4
      <3> QED
        BY <2>3, <3>1 DEF LineNumbers
    <2>5. CASE j # len + 1
      BY <1>3, <2>1, <2>3, <2>5 DEF LinesOrdered
    <2> QED
      BY <2>4, <2>5
  <1>6. \A a \in LineNumbers(s) : a \in LineNumbers(s)'
    BY <1>2 DEF LineNumbers
  <1>7. EventLine(l, s) => l.n \in LineNumbers(s)'
    BY <1>1, <1>4 DEF LineNumbers
  <1>8. \A a \in LineNumbers(s)' : a \in LineNumbers(s) \/ (EventLine(l, s) /\ a = l.n)
    BY <1>1, <1>3 DEF LineNumbers
  <1> QED
    BY <1>5, <1>6, <1>7, <1>8

LEMMA EventsRead ==
  ASSUME TypeOK, NEW s \in Sessions, MessagesOrdered(s), Read
  PROVE  /\ MessagesOrdered(s)'
         /\ IF EventMessage(Head(toChild), s)
            THEN /\ MessageNumbers(s) = MessageNumbers(s)' \cup {Head(toChild).n}
                 /\ \A a \in MessageNumbers(s)' : Head(toChild).n < a
            ELSE MessageNumbers(s)' = MessageNumbers(s)
  <1>1. /\ Head(toChild) = toChild[1] /\ Len(toChild) \in Nat /\ Len(toChild) >= 1
        /\ DOMAIN toChild' = 1 .. Len(toChild) - 1 /\ DOMAIN toChild = 1 .. Len(toChild)
        /\ \A i \in 1 .. Len(toChild) - 1 : toChild'[i] = toChild[i + 1]
    BY TailAt DEF TypeOK, Read
  <1>2. \A i \in EventMessages(s)' : /\ i \in Nat /\ i >= 1 /\ i + 1 \in EventMessages(s)
                                     /\ toChild'[i] = toChild[i + 1]
    BY <1>1 DEF EventMessages
  <1>3. \A i \in EventMessages(s) : /\ i \in Nat
                                    /\ i # 1 => /\ i - 1 \in EventMessages(s)'
                                                /\ toChild'[i - 1] = toChild[i]
    BY <1>1 DEF EventMessages
  <1>4. 1 \in EventMessages(s) <=> EventMessage(Head(toChild), s)
    BY <1>1 DEF EventMessages, EventMessage
  <1>5. MessagesOrdered(s)'
    BY <1>2 DEF MessagesOrdered
  <1>6. \A a \in MessageNumbers(s)' : a \in MessageNumbers(s)
    BY <1>2 DEF MessageNumbers
  <1>7. \A a \in MessageNumbers(s) :
          a \in MessageNumbers(s)' \/ (1 \in EventMessages(s) /\ a = toChild[1].n)
    BY <1>3 DEF MessageNumbers
  <1>8. 1 \in EventMessages(s) => toChild[1].n \in MessageNumbers(s)
    BY DEF MessageNumbers
  <1>9. 1 \in EventMessages(s) => \A a \in MessageNumbers(s)' : toChild[1].n < a
    <2>1. SUFFICES ASSUME 1 \in EventMessages(s), NEW i \in EventMessages(s)'
                   PROVE  toChild[1].n < toChild'[i].n
      BY DEF MessageNumbers
    <2>2. i + 1 \in EventMessages(s) /\ toChild'[i] = toChild[i + 1] /\ 1 < i + 1
      BY <1>2
    <2> QED
      BY <2>1, <2>2 DEF MessagesOrdered
  <1> QED
    BY <1>1, <1>4, <1>5, <1>6, <1>7, <1>8, <1>9

LEMMA EventsArrived ==
  ASSUME TypeOK, NEW s \in Sessions, MessagesOrdered(s), NEW m \in Message, Arrived(m),
         EventMessage(m, s) => \A a \in MessageNumbers(s) : a < m.n
  PROVE  /\ MessagesOrdered(s)'
         /\ MessageNumbers(s)' = IF EventMessage(m, s) THEN MessageNumbers(s) \cup {m.n}
                                                       ELSE MessageNumbers(s)
  <1>0. PICK len : len = Len(toChild)
    OBVIOUS
  <1>1. /\ len \in Nat /\ toChild'[len + 1] = m
        /\ DOMAIN toChild' = 1 .. len + 1 /\ DOMAIN toChild = 1 .. len
        /\ \A i \in 1 .. len : toChild'[i] = toChild[i]
    BY <1>0, AppendAt DEF TypeOK, Arrived
  <1>2. \A i \in EventMessages(s) : /\ i \in 1 .. len /\ i \in EventMessages(s)'
                                    /\ toChild'[i] = toChild[i]
    BY <1>1 DEF EventMessages
  <1>3. \A i \in EventMessages(s)' : /\ i \in 1 .. len + 1
                                     /\ \/ i \in EventMessages(s) /\ toChild'[i] = toChild[i]
                                        \/ i = len + 1 /\ EventMessage(m, s)
    <2>1. SUFFICES ASSUME NEW i \in EventMessages(s)'
                   PROVE  /\ i \in 1 .. len + 1
                          /\ \/ i \in EventMessages(s) /\ toChild'[i] = toChild[i]
                             \/ i = len + 1 /\ EventMessage(m, s)
      OBVIOUS
    <2>2. i \in 1 .. len + 1 /\ toChild'[i].kind = "event" /\ toChild'[i].session = s
      BY <1>1 DEF EventMessages
    <2>3. i = len + 1 \/ i \in 1 .. len
      BY <1>1, <2>2
    <2> QED
      BY <1>1, <2>2, <2>3 DEF EventMessages, EventMessage
  <1>4. EventMessage(m, s) => len + 1 \in EventMessages(s)'
    BY <1>1 DEF EventMessages, EventMessage
  <1>5. MessagesOrdered(s)'
    <2>1. SUFFICES ASSUME NEW i \in EventMessages(s)', NEW j \in EventMessages(s)', i < j
                   PROVE  toChild'[i].n < toChild'[j].n
      BY DEF MessagesOrdered
    <2>2. i \in 1 .. len + 1 /\ j \in 1 .. len + 1 /\ i # len + 1
      BY <1>1, <1>3, <2>1
    <2>3. i \in EventMessages(s) /\ toChild'[i] = toChild[i]
      BY <1>3, <2>2
    <2>4. CASE j = len + 1
      <3>1. EventMessage(m, s) /\ toChild'[j].n = m.n
        BY <1>1, <1>2, <1>3, <2>4
      <3> QED
        BY <2>3, <3>1 DEF MessageNumbers
    <2>5. CASE j # len + 1
      BY <1>3, <2>1, <2>3, <2>5 DEF MessagesOrdered
    <2> QED
      BY <2>4, <2>5
  <1>6. \A a \in MessageNumbers(s) : a \in MessageNumbers(s)'
    BY <1>2 DEF MessageNumbers
  <1>7. EventMessage(m, s) => m.n \in MessageNumbers(s)'
    BY <1>1, <1>4 DEF MessageNumbers
  <1>8. \A a \in MessageNumbers(s)' : a \in MessageNumbers(s) \/ (EventMessage(m, s) /\ a = m.n)
    BY <1>1, <1>3 DEF MessageNumbers
  <1> QED
    BY <1>5, <1>6, <1>7, <1>8

\* The numbers of a session's events only grow along the pipeline, ...
Sorted(s) ==
  /\ LinesOrdered(s) /\ MessagesOrdered(s)
  /\ \A a \in LineNumbers(s), b \in MessageNumbers(s) : a < b

\* ... have no gap, and reach up to the last the server emitted while the child lives: if it
\* dies, the end of the row is lost and never the middle.
Whole(s) ==
  /\ \A n \in OnTheWay(s) : n <= emitted[s]
  /\ \A n, m \in OnTheWay(s) : n .. m \subseteq OnTheWay(s)
  /\ phase # "dead" => \A n \in OnTheWay(s) : n .. emitted[s] \subseteq OnTheWay(s)

\* What was delivered goes on where the row on its way begins.
Joined(s) ==
  delivered[s] # << >> =>
    LET last == Last(delivered[s]) IN
    /\ \A i \in 1 .. Len(delivered[s]) - 1 : delivered[s][i + 1] = delivered[s][i] + 1
    /\ last <= emitted[s]
    /\ \A n \in OnTheWay(s) : n > last /\ (last + 1) .. n \subseteq OnTheWay(s)
    /\ phase # "dead" => (last + 1) .. emitted[s] \subseteq OnTheWay(s)

EventInv ==
  /\ phase = "dead" => ~serverOpen
  /\ browser # "gone" => \A s \in Sessions : Sorted(s) /\ Whole(s) /\ Joined(s)

LEMMA FlowSame ==
  ASSUME NEW s \in Sessions, Whole(s), Joined(s), OnTheWay(s)' = OnTheWay(s),
         emitted'[s] = emitted[s], delivered'[s] = delivered[s],
         phase = "dead" => phase' = "dead"
  PROVE  Whole(s)' /\ Joined(s)'
  BY DEF Whole, Joined

LEMMA FlowDrop ==
  ASSUME TypeOK, NEW s \in Sessions, Whole(s), NEW n \in Nat, OnTheWay(s) = OnTheWay(s)' \cup {n},
         \A a \in OnTheWay(s)' : n < a, emitted'[s] = emitted[s], delivered'[s] = << >>,
         phase = "dead" => phase' = "dead"
  PROVE  Whole(s)' /\ Joined(s)'
  <1>1. OnTheWay(s) \subseteq Nat /\ emitted[s] \in Nat
    BY NumbersType
  <1>2. Joined(s)'
    BY DEF Joined
  <1>3. \A a, b \in OnTheWay(s)' : a .. b \subseteq OnTheWay(s)'
    BY <1>1 DEF Whole
  <1>4. phase' # "dead" => \A a \in OnTheWay(s)' : a .. emitted[s] \subseteq OnTheWay(s)'
    BY <1>1 DEF Whole
  <1> QED
    BY <1>2, <1>3, <1>4 DEF Whole

LEMMA FlowDeliver ==
  ASSUME TypeOK, NEW s \in Sessions, Whole(s), Joined(s), NEW n \in Nat,
         OnTheWay(s) = OnTheWay(s)' \cup {n}, \A a \in OnTheWay(s)' : n < a,
         emitted'[s] = emitted[s], delivered'[s] = Append(delivered[s], n),
         phase = "dead" => phase' = "dead"
  PROVE  Whole(s)' /\ Joined(s)'
  <1>1. /\ OnTheWay(s) \subseteq Nat /\ emitted[s] \in Nat /\ delivered[s] \in Seq(Nat)
        /\ Len(delivered[s]) \in Nat
    BY NumbersType
  <1>2. Whole(s)'
    <2>1. \A a, b \in OnTheWay(s)' : a .. b \subseteq OnTheWay(s)'
      BY <1>1 DEF Whole
    <2>2. phase' # "dead" => \A a \in OnTheWay(s)' : a .. emitted[s] \subseteq OnTheWay(s)'
      BY <1>1 DEF Whole
    <2> QED
      BY <2>1, <2>2 DEF Whole
  <1>3. /\ Last(delivered'[s]) = n /\ Len(delivered'[s]) = Len(delivered[s]) + 1
        /\ \A i \in 1 .. Len(delivered[s]) : delivered'[s][i] = delivered[s][i]
        /\ delivered'[s][Len(delivered[s]) + 1] = n
    BY <1>1 DEF Last
  <1>4. delivered[s] # << >> => n = Last(delivered[s]) + 1
    <2>1. SUFFICES ASSUME delivered[s] # << >> PROVE n = Last(delivered[s]) + 1
      OBVIOUS
    <2>2. PICK last \in Nat : last = Last(delivered[s])
      BY <2>1, NumbersType
    <2>3. last < n /\ (last + 1) .. n \subseteq OnTheWay(s)
      BY <2>1, <2>2 DEF Joined
    <2>4. last + 1 \in OnTheWay(s)
      BY <2>2, <2>3
    <2>5. last + 1 >= n
      BY <1>1, <2>2, <2>4
    <2> QED
      BY <2>2, <2>3, <2>5
  <1>5. \A i \in 1 .. Len(delivered'[s]) - 1 : delivered'[s][i + 1] = delivered'[s][i] + 1
    <2>1. SUFFICES ASSUME NEW i \in 1 .. Len(delivered[s])
                   PROVE  delivered'[s][i + 1] = delivered'[s][i] + 1
      BY <1>1, <1>3
    <2>2. CASE i = Len(delivered[s])
      <3>1. delivered[s] # << >> /\ Last(delivered[s]) = delivered[s][i]
        BY <1>1, <2>1, <2>2 DEF Last
      <3> QED
        BY <1>3, <1>4, <2>1, <2>2, <3>1
    <2>3. CASE i # Len(delivered[s])
      <3>1. i \in 1 .. Len(delivered[s]) - 1 /\ i + 1 \in 1 .. Len(delivered[s])
        BY <1>1, <2>1, <2>3
      <3>2. delivered[s] # << >>
        BY <1>1, <2>1
      <3>3. delivered[s][i + 1] = delivered[s][i] + 1
        BY <3>1, <3>2 DEF Joined
      <3> QED
        BY <1>3, <2>1, <3>1, <3>3
    <2> QED
      BY <2>2, <2>3
  <1>6. n <= emitted[s] /\ n \in OnTheWay(s)
    BY DEF Whole
  <1>7. \A m \in OnTheWay(s)' : m > n /\ (n + 1) .. m \subseteq OnTheWay(s)'
    BY <1>1, <1>6 DEF Whole
  <1>8. phase' # "dead" => (n + 1) .. emitted[s] \subseteq OnTheWay(s)'
    BY <1>1, <1>6 DEF Whole
  <1> QED
    BY <1>2, <1>3, <1>5, <1>6, <1>7, <1>8 DEF Joined

LEMMA FlowEmit ==
  ASSUME TypeOK, NEW s \in Sessions, Whole(s), Joined(s), NEW n \in Nat, n = emitted[s] + 1,
         OnTheWay(s)' = OnTheWay(s) \cup {n}, emitted'[s] = n, delivered'[s] = delivered[s],
         phase # "dead"
  PROVE  Whole(s)' /\ Joined(s)'
  <1>1. OnTheWay(s) \subseteq Nat /\ emitted[s] \in Nat
    BY NumbersType
  <1>2. \A a \in OnTheWay(s) : a <= emitted[s] /\ a .. emitted[s] \subseteq OnTheWay(s)
    BY DEF Whole
  <1>3. \A a \in OnTheWay(s)' : a .. n \subseteq OnTheWay(s)'
    BY <1>1, <1>2
  <1>4. Whole(s)'
    <2>1. \A a, b \in OnTheWay(s)' : a .. b \subseteq OnTheWay(s)'
      BY <1>1, <1>2, <1>3 DEF Whole
    <2> QED
      BY <1>1, <1>2, <1>3, <2>1 DEF Whole
  <1>5. Joined(s)'
    <2>1. CASE delivered[s] = << >>
      BY <2>1 DEF Joined
    <2>2. CASE delivered[s] # << >>
      <3>1. PICK last \in Nat : last = Last(delivered[s])
        BY <2>2, NumbersType
      <3>2. last <= emitted[s] /\ (last + 1) .. emitted[s] \subseteq OnTheWay(s)
              /\ \A a \in OnTheWay(s) : a > last /\ (last + 1) .. a \subseteq OnTheWay(s)
        BY <2>2, <3>1 DEF Joined
      <3>3. (last + 1) .. n \subseteq OnTheWay(s)'
        BY <1>1, <3>1, <3>2
      <3>4. \A a \in OnTheWay(s)' : a > last /\ (last + 1) .. a \subseteq OnTheWay(s)'
        BY <1>1, <3>1, <3>2, <3>3
      <3>5. last <= n
        BY <1>1, <3>1, <3>2
      <3>6. \A i \in 1 .. Len(delivered[s]) - 1 : delivered[s][i + 1] = delivered[s][i] + 1
        BY <2>2 DEF Joined
      <3> QED
        BY <3>1, <3>3, <3>4, <3>5, <3>6 DEF Joined
    <2> QED
      BY <2>1, <2>2
  <1> QED
    BY <1>4, <1>5

\* What is cut off at the end of the row leaves no gap.
LEMMA FlowCut ==
  ASSUME TypeOK, NEW s \in Sessions, Whole(s), Joined(s), NEW Cut,
         OnTheWay(s) = OnTheWay(s)' \cup Cut, \A a \in OnTheWay(s)', b \in Cut : a < b,
         emitted'[s] = emitted[s], delivered'[s] = delivered[s], phase' = "dead"
  PROVE  Whole(s)' /\ Joined(s)'
  <1>1. OnTheWay(s) \subseteq Nat /\ emitted[s] \in Nat
    BY NumbersType
  <1>2. \A a \in OnTheWay(s)' : \A x \in OnTheWay(s) : x <= a => x \in OnTheWay(s)'
    BY <1>1
  <1>3. Whole(s)'
    BY <1>1, <1>2 DEF Whole
  <1>4. Joined(s)'
    <2>1. CASE delivered[s] = << >>
      BY <2>1 DEF Joined
    <2>2. CASE delivered[s] # << >>
      <3>1. PICK last \in Nat : last = Last(delivered[s])
        BY <2>2, NumbersType
      <3>2. last <= emitted[s]
              /\ \A a \in OnTheWay(s) : a > last /\ (last + 1) .. a \subseteq OnTheWay(s)
        BY <2>2, <3>1 DEF Joined
      <3>3. \A a \in OnTheWay(s)' : a > last /\ (last + 1) .. a \subseteq OnTheWay(s)'
        BY <1>1, <1>2, <3>1, <3>2
      <3>4. \A i \in 1 .. Len(delivered[s]) - 1 : delivered[s][i + 1] = delivered[s][i] + 1
        BY <2>2 DEF Joined
      <3> QED
        BY <3>1, <3>2, <3>3, <3>4 DEF Joined
    <2> QED
      BY <2>1, <2>2
  <1> QED
    BY <1>3, <1>4

LEMMA EventNode == TypeOK /\ Boot /\ EventInv /\ NodeNext => EventInv'
  <1> SUFFICES ASSUME TypeOK, Boot, EventInv, NodeNext PROVE EventInv'
    OBVIOUS
  <1> USE DEF nodeVars, callVars, viewVars, childVars, wireVars, serverVars
  <1>0. UNCHANGED <<phase, serverOpen, emitted, toChild>>
    BY DEF NodeNext, NodeHandles, TakeLine, Send, SendRefused, NewSession, Close, NodeGone,
           OnExit, HandleReady, HandleFatal, HandleResult, HandleError, HandleEvent,
           HandlePages, HandleClosed
  <1>a. \A s \in Sessions : /\ EventMessages(s)' = EventMessages(s)
                            /\ MessageNumbers(s)' = MessageNumbers(s)
                            /\ MessagesOrdered(s)' <=> MessagesOrdered(s)
    BY <1>0 DEF EventMessages, MessageNumbers, MessagesOrdered
  <1>b. ASSUME UNCHANGED <<stdout, delivered>>, browser' # "gone" => browser # "gone"
        PROVE  EventInv'
    <2>1. \A s \in Sessions : /\ EventLines(s)' = EventLines(s)
                              /\ LineNumbers(s)' = LineNumbers(s)
                              /\ LinesOrdered(s)' <=> LinesOrdered(s)
                              /\ OnTheWay(s)' = OnTheWay(s)
      BY <1>0, <1>b DEF EventLines, LineNumbers, LinesOrdered, OnTheWay, EventMessages
    <2>2. ASSUME NEW s \in Sessions, browser # "gone" PROVE Sorted(s)' /\ Whole(s)' /\ Joined(s)'
      <3>1. Sorted(s)'
        BY <1>a, <2>1, <2>2 DEF EventInv, Sorted
      <3>2. Whole(s)' /\ Joined(s)'
        BY <1>0, <1>b, <2>1, <2>2, FlowSame DEF EventInv
      <3> QED
        BY <3>1, <3>2
    <2> QED
      BY <1>0, <1>b, <2>2 DEF EventInv
  <1>c. ASSUME Taken, Head(stdout).type # "event", UNCHANGED delivered, browser # "gone"
        PROVE  EventInv'
    <2>1. ASSUME NEW s \in Sessions PROVE Sorted(s)' /\ Whole(s)' /\ Joined(s)'
      <3>1. LinesOrdered(s)' /\ LineNumbers(s)' = LineNumbers(s)
        BY <1>c, LinesTaken DEF EventInv, Sorted, EventLine
      <3>2. Sorted(s)'
        BY <1>a, <1>c, <3>1 DEF EventInv, Sorted
      <3>3. OnTheWay(s)' = OnTheWay(s)
        BY <1>a, <3>1, NumbersType DEF OnTheWay, LineNumbers, MessageNumbers
      <3> QED
        BY <1>0, <1>c, <3>2, <3>3, FlowSame DEF EventInv
    <2> QED
      BY <1>0, <2>1 DEF EventInv
  <1>d. ASSUME NEW type, type # "event", TakeLine(type), UNCHANGED delivered PROVE EventInv'
    BY <1>c, <1>d DEF TakeLine, Taken
  <1>1. ASSUME NEW p \in Promises, Send(p) \/ SendRefused(p) PROVE EventInv'
    BY <1>b, <1>1 DEF Send, SendRefused
  <1>2. ASSUME NEW t \in Targets, NewSession(t) PROVE EventInv'
    BY <1>b, <1>2 DEF NewSession
  <1>3. CASE Close \/ OnExit
    BY <1>b, <1>3 DEF Close, OnExit
  <1>4. CASE NodeGone
    BY <1>0, <1>4 DEF NodeGone, EventInv
  <1>5. CASE HandleReady
    BY <1>d, <1>5 DEF HandleReady
  <1>6. CASE HandlePages
    BY <1>d, <1>6 DEF HandlePages
  <1>7. CASE HandleFatal
    BY <1>d, <1>7 DEF HandleFatal
  <1>8. CASE HandleResult
    BY <1>d, <1>8 DEF HandleResult
  <1>9. CASE HandleError
    BY <1>d, <1>9 DEF HandleError
  <1>10. CASE HandleClosed
    BY <1>d, <1>10 DEF HandleClosed
  <1>11. CASE HandleEvent
    <2> DEFINE l == Head(stdout)
    <2>0. Taken /\ l.type = "event" /\ browser # "gone" /\ browser' = browser
      BY <1>11 DEF HandleEvent, TakeLine, Taken
    <2>1. l \in Line
      BY <2>0, HeadTail DEF TypeOK, Taken
    <2>2. l.session \in Sessions /\ l.n \in Nat
      BY <2>0, <2>1, LineFields
    <2>3. delivered' = IF l.session \in sessions
                       THEN [delivered EXCEPT ![l.session] = Append(@, l.n)]
                       ELSE delivered
      BY <1>11 DEF HandleEvent
    <2> HIDE DEF l
    <2>4. ASSUME NEW s \in Sessions PROVE Sorted(s)' /\ Whole(s)' /\ Joined(s)'
      <3>0. Sorted(s) /\ Whole(s) /\ Joined(s)
        BY <2>0 DEF EventInv
      <3>1. CASE l.session # s
        <4>1. LinesOrdered(s)' /\ LineNumbers(s)' = LineNumbers(s)
          BY <2>0, <3>0, <3>1, LinesTaken DEF Sorted, EventLine, l
        <4>2. Sorted(s)'
          BY <1>a, <3>0, <4>1 DEF Sorted
        <4>3. OnTheWay(s)' = OnTheWay(s)
          BY <1>a, <4>1 DEF OnTheWay, LineNumbers, MessageNumbers
        <4>4. delivered'[s] = delivered[s]
          BY <2>2, <2>3, <3>1 DEF TypeOK
        <4> QED
          BY <1>0, <3>0, <4>2, <4>3, <4>4, FlowSame
      <3>2. CASE l.session = s
        <4>1. /\ LinesOrdered(s)' /\ LineNumbers(s) = LineNumbers(s)' \cup {l.n}
              /\ \A a \in LineNumbers(s)' : l.n < a
          BY <2>0, <3>0, <3>2, LinesTaken DEF Sorted, EventLine, l
        <4>2. Sorted(s)'
          BY <1>a, <3>0, <4>1 DEF Sorted
        <4>3. OnTheWay(s) = OnTheWay(s)' \cup {l.n} /\ \A a \in OnTheWay(s)' : l.n < a
          BY <1>a, <3>0, <4>1 DEF OnTheWay, LineNumbers, MessageNumbers, Sorted
        <4>4. CASE s \in sessions
          <5>1. delivered'[s] = Append(delivered[s], l.n)
            BY <2>3, <3>2, <4>4 DEF TypeOK
          <5> QED
            BY <1>0, <2>2, <3>0, <4>2, <4>3, <5>1, FlowDeliver
        <4>5. CASE s \notin sessions
          <5>1. delivered'[s] = << >>
            BY <2>3, <3>2, <4>5 DEF Boot
          <5> QED
            BY <1>0, <2>2, <3>0, <4>2, <4>3, <5>1, FlowDrop
        <4> QED
          BY <4>4, <4>5
      <3> QED
        BY <3>1, <3>2
    <2> QED
      BY <1>0, <2>4 DEF EventInv
  <1> QED
    BY <1>1, <1>2, <1>3, <1>4, <1>5, <1>6, <1>7, <1>8, <1>9, <1>10, <1>11
    DEF NodeNext, NodeHandles

LEMMA EventServer == TypeOK /\ EventInv /\ (ServerNext \/ UNCHANGED vars) => EventInv'
  <1> SUFFICES ASSUME TypeOK, EventInv, ServerNext \/ UNCHANGED vars PROVE EventInv'
    OBVIOUS
  <1> USE DEF nodeVars, callVars, viewVars, childVars, wireVars, serverVars
  <1>0. UNCHANGED <<browser, delivered, stdout, phase>>
    BY ServerFrames
  <1>1. serverOpen' => serverOpen
    BY DEF vars, ServerNext, ServerLeaves, Reply, Attach, Detach, EmitEvent, Hangup
  <1>a. \A s \in Sessions : /\ EventLines(s)' = EventLines(s)
                            /\ LineNumbers(s)' = LineNumbers(s)
                            /\ LinesOrdered(s)' <=> LinesOrdered(s)
    BY <1>0 DEF EventLines, LineNumbers, LinesOrdered
  <1>b. ASSUME NEW m \in Message, m.kind # "event", Arrived(m), UNCHANGED emitted PROVE EventInv'
    <2>1. ASSUME NEW s \in Sessions, browser # "gone" PROVE Sorted(s)' /\ Whole(s)' /\ Joined(s)'
      <3>0. Sorted(s) /\ Whole(s) /\ Joined(s)
        BY <2>1 DEF EventInv
      <3>1. MessagesOrdered(s)' /\ MessageNumbers(s)' = MessageNumbers(s)
        BY <1>b, <3>0, EventsArrived DEF Sorted, EventMessage
      <3>2. Sorted(s)'
        BY <1>a, <3>0, <3>1 DEF Sorted
      <3>3. OnTheWay(s)' = OnTheWay(s)
        BY <1>a, <3>1 DEF OnTheWay, LineNumbers, MessageNumbers
      <3> QED
        BY <1>0, <1>b, <3>0, <3>2, <3>3, FlowSame
    <2> QED
      BY <1>0, <1>1, <2>1 DEF EventInv
  <1>2. ASSUME NEW c \in atServer, Reply(c) PROVE EventInv'
    <2>1. PICK ok \in BOOLEAN : Push([kind |-> "reply", id |-> c.id, ok |-> ok, body |-> c.body])
      BY <1>2 DEF Reply
    <2> DEFINE m == [kind |-> "reply", id |-> c.id, ok |-> ok, body |-> c.body]
    <2>2. m \in Message /\ m.kind = "reply"
      BY DEF TypeOK, Command, Message
    <2>3. Arrived(m) /\ UNCHANGED emitted
      BY <1>2, <2>1 DEF Push, Arrived, Reply
    <2> HIDE DEF m
    <2> QED
      BY <1>b, <2>2, <2>3
  <1>3. ASSUME NEW t \in Targets, NEW s \in Sessions, Attach(t, s) PROVE EventInv'
    <2>1. PICK page \in BOOLEAN :
            Push([kind |-> "attached", target |-> t, session |-> s, page |-> page])
      BY <1>3 DEF Attach
    <2> DEFINE m == [kind |-> "attached", target |-> t, session |-> s, page |-> page]
    <2>2. m \in Message /\ m.kind = "attached"
      BY DEF Message
    <2>3. Arrived(m) /\ UNCHANGED emitted
      BY <1>3, <2>1 DEF Push, Arrived, Attach
    <2> HIDE DEF m
    <2> QED
      BY <1>b, <2>2, <2>3
  <1>4. ASSUME NEW t \in Targets, Detach(t) PROVE EventInv'
    <2>1. PICK m \in Message : m.kind # "event" /\ Push(m)
      BY <1>4 DEF Detach, TypeOK, PageMap, Message
    <2>2. Arrived(m) /\ UNCHANGED emitted
      BY <1>4, <2>1 DEF Push, Arrived, Detach
    <2> QED
      BY <1>b, <2>1, <2>2
  <1>5. ASSUME NEW x \in Sessions, EmitEvent(x) PROVE EventInv'
    <2>1. PICK n \in Nat : n = emitted[x] + 1
      BY DEF TypeOK
    <2>2. emitted' = [emitted EXCEPT ![x] = n] /\ emitted'[x] = n
      BY <1>5, <2>1 DEF EmitEvent, TypeOK
    <2> DEFINE m == [kind |-> "event", session |-> x, n |-> n]
    <2>3. m \in Message /\ m.kind = "event" /\ m.session = x /\ m.n = n
      BY <2>1 DEF Message
    <2>4. Arrived(m)
      BY <1>5, <2>2 DEF EmitEvent, Push, Arrived
    <2>5. phase # "dead"
      BY <1>5 DEF EmitEvent, Serving, EventInv
    <2> HIDE DEF m
    <2>6. ASSUME NEW s \in Sessions, browser # "gone" PROVE Sorted(s)' /\ Whole(s)' /\ Joined(s)'
      <3>0. Sorted(s) /\ Whole(s) /\ Joined(s)
        BY <2>6 DEF EventInv
      <3>1. CASE s # x
        <4>1. MessagesOrdered(s)' /\ MessageNumbers(s)' = MessageNumbers(s)
          BY <2>3, <2>4, <3>0, <3>1, EventsArrived DEF Sorted, EventMessage
        <4>2. Sorted(s)'
          BY <1>a, <3>0, <4>1 DEF Sorted
        <4>3. OnTheWay(s)' = OnTheWay(s)
          BY <1>a, <4>1 DEF OnTheWay, LineNumbers, MessageNumbers
        <4>4. emitted'[s] = emitted[s]
          BY <2>2, <3>1 DEF TypeOK
        <4> QED
          BY <1>0, <3>0, <4>2, <4>3, <4>4, FlowSame
      <3>2. CASE s = x
        <4>0. \A a \in OnTheWay(s) : a \in Nat /\ a < n
          <5>1. OnTheWay(s) \subseteq Nat /\ emitted[s] \in Nat
            BY NumbersType
          <5> QED
            BY <2>1, <3>0, <3>2, <5>1 DEF Whole
        <4>a. OnTheWay(s) = LineNumbers(s) \cup MessageNumbers(s)
          BY NumbersType
        <4>1. MessagesOrdered(s)' /\ MessageNumbers(s)' = MessageNumbers(s) \cup {n}
          BY <2>3, <2>4, <3>0, <3>2, <4>0, <4>a, EventsArrived DEF Sorted, EventMessage
        <4>2. Sorted(s)'
          BY <1>a, <3>0, <4>0, <4>a, <4>1 DEF Sorted
        <4>3. OnTheWay(s)' = OnTheWay(s) \cup {n}
          BY <1>a, <4>1 DEF OnTheWay, LineNumbers, MessageNumbers
        <4> QED
          BY <1>0, <2>1, <2>2, <2>5, <3>0, <3>2, <4>2, <4>3, FlowEmit
      <3> QED
        BY <3>1, <3>2
    <2> QED
      BY <1>0, <1>1, <2>6 DEF EventInv
  <1>6. CASE Hangup
    <2> DEFINE m == [kind |-> "close"]
    <2>1. m \in Message /\ m.kind = "close"
      BY DEF Message
    <2>2. Arrived(m) /\ UNCHANGED emitted
      BY <1>6 DEF Hangup, Arrived
    <2> HIDE DEF m
    <2> QED
      BY <1>b, <2>1, <2>2
  <1>7. CASE UNCHANGED vars
    <2>1. ASSUME NEW s \in Sessions, browser # "gone" PROVE Sorted(s)' /\ Whole(s)' /\ Joined(s)'
      <3>0. Sorted(s) /\ Whole(s) /\ Joined(s)
        BY <2>1 DEF EventInv
      <3>1. UNCHANGED <<toChild, emitted>>
        BY <1>7 DEF vars
      <3>2. MessageNumbers(s)' = MessageNumbers(s) /\ (MessagesOrdered(s)' <=> MessagesOrdered(s))
        BY <3>1 DEF EventMessages, MessageNumbers, MessagesOrdered
      <3>3. OnTheWay(s)' = OnTheWay(s)
        BY <1>a, <3>2 DEF OnTheWay, LineNumbers, MessageNumbers
      <3>4. Sorted(s)'
        BY <1>a, <3>0, <3>2 DEF Sorted
      <3> QED
        BY <1>0, <3>0, <3>1, <3>3, <3>4, FlowSame
    <2> QED
      BY <1>0, <1>1, <2>1 DEF EventInv
  <1> QED
    BY <1>2, <1>3, <1>4, <1>5, <1>6, <1>7 DEF ServerNext

LEMMA EventChild == TypeOK /\ Boot /\ EventInv /\ ChildNext => EventInv'
  <1> SUFFICES ASSUME TypeOK, Boot, EventInv, ChildNext PROVE EventInv'
    OBVIOUS
  <1> USE DEF nodeVars, callVars, viewVars, childVars, wireVars, serverVars
  <1>0. UNCHANGED <<browser, delivered, emitted>> /\ phase # "dead"
    BY DEF ChildNext, Connect, HandshakeBegin, HandshakePoll, HandshakeDone,
           HandshakeFailed, ReadSend, ReadClose, Poll, PollClosed, Exit
  <1>1. phase' = "dead" => ~serverOpen'
    BY <1>0 DEF ChildNext, Connect, HandshakeBegin, HandshakePoll, HandshakeDone,
           HandshakeFailed, ReadSend, ReadClose, Poll, PollClosed, Exit
  <1>a. ASSUME UNCHANGED toChild, NEW s \in Sessions
        PROVE  /\ EventMessages(s)' = EventMessages(s)
               /\ MessageNumbers(s)' = MessageNumbers(s)
               /\ MessagesOrdered(s)' <=> MessagesOrdered(s)
    BY <1>a DEF EventMessages, MessageNumbers, MessagesOrdered
  <1>b. ASSUME UNCHANGED stdout, NEW s \in Sessions
        PROVE  /\ EventLines(s)' = EventLines(s)
               /\ LineNumbers(s)' = LineNumbers(s)
               /\ LinesOrdered(s)' <=> LinesOrdered(s)
    BY <1>b DEF EventLines, LineNumbers, LinesOrdered
  <1>c. ASSUME NEW l \in Line, l.type # "event", Emit(<<l>>), NEW s \in Sessions, Sorted(s)
        PROVE  LinesOrdered(s)' /\ LineNumbers(s)' = LineNumbers(s)
    <2>1. CASE UNCHANGED stdout
      BY <1>b, <1>c, <2>1 DEF Sorted
    <2>2. CASE Printed(l)
      BY <1>c, <2>2, LinesPrinted DEF Sorted, EventLine
    <2> QED
      BY <1>c, <2>1, <2>2, EmitOne
  <1>d. ASSUME NEW s \in Sessions, Sorted(s), Whole(s), Joined(s), MessagesOrdered(s)', LinesOrdered(s)',
               MessageNumbers(s)' = MessageNumbers(s), LineNumbers(s)' = LineNumbers(s)
        PROVE  Sorted(s)' /\ Whole(s)' /\ Joined(s)'
    <2>1. Sorted(s)'
      BY <1>d DEF Sorted
    <2>2. OnTheWay(s)' = OnTheWay(s)
      BY <1>d DEF OnTheWay, LineNumbers, MessageNumbers
    <2> QED
      BY <1>0, <1>d, <2>1, <2>2, FlowSame
  <1> DEFINE fatal  == [type |-> "fatal"]
             closed == [type |-> "closed"]
             ready  == [type |-> "ready", pages |-> pages]
  <1>e. /\ fatal \in Line /\ closed \in Line /\ ready \in Line
        /\ fatal.type # "event" /\ closed.type # "event" /\ ready.type # "event"
    BY DEF Line, TypeOK
  <1> HIDE DEF fatal, closed, ready
  <1>f. ASSUME UNCHANGED toChild,
               UNCHANGED stdout \/ Emit(<<fatal>>) \/ Emit(<<closed>>) \/ Emit(<<ready>>)
        PROVE  EventInv'
    <2>1. ASSUME NEW s \in Sessions, browser # "gone" PROVE Sorted(s)' /\ Whole(s)' /\ Joined(s)'
      <3>0. Sorted(s) /\ Whole(s) /\ Joined(s)
        BY <2>1 DEF EventInv
      <3>1. LinesOrdered(s)' /\ LineNumbers(s)' = LineNumbers(s)
        BY <1>b, <1>c, <1>e, <1>f, <3>0 DEF Sorted
      <3>2. MessagesOrdered(s)' /\ MessageNumbers(s)' = MessageNumbers(s)
        BY <1>a, <1>f, <3>0 DEF Sorted
      <3> QED
        BY <1>d, <3>0, <3>1, <3>2
    <2> QED
      BY <1>0, <1>1, <2>1 DEF EventInv
  <1>2. CASE Connect \/ HandshakeBegin \/ HandshakeDone \/ ReadSend \/ ReadClose
    <2>1. /\ UNCHANGED toChild
          /\ UNCHANGED stdout \/ Emit(<<fatal>>) \/ Emit(<<ready>>)
      BY <1>2 DEF Connect, HandshakeBegin, HandshakeDone, ReadSend, ReadClose, fatal, ready
    <2> QED
      BY <1>f, <2>1
  <1>3. CASE HandshakeFailed
    <2>0. /\ phase = "handshake" /\ phase' = "ended" /\ Emit(<<fatal>>)
          /\ UNCHANGED toChild \/ toChild' = << >>
      BY <1>3 DEF HandshakeFailed, fatal
    <2>1. CASE UNCHANGED toChild
      BY <1>f, <2>0, <2>1
    <2>2. CASE toChild' = << >>
      <3>1. ASSUME NEW s \in Sessions, browser # "gone" PROVE Sorted(s)' /\ Whole(s)' /\ Joined(s)'
        <4>0. Sorted(s)
          BY <3>1 DEF EventInv
        <4>1. stdout = << >> /\ delivered[s] = << >>
          BY <2>0, <3>1 DEF Boot, Before
        <4>2. LineNumbers(s) = {}
          BY <4>1 DEF LineNumbers, EventLines
        <4>3. LinesOrdered(s)' /\ LineNumbers(s)' = {}
          BY <1>c, <1>e, <2>0, <4>0, <4>2
        <4>4. EventMessages(s)' = {}
          BY <2>2 DEF EventMessages
        <4>5. MessagesOrdered(s)' /\ MessageNumbers(s)' = {}
          BY <4>4 DEF MessagesOrdered, MessageNumbers
        <4>6. OnTheWay(s)' = {}
          BY <4>3, <4>5 DEF OnTheWay, LineNumbers, MessageNumbers
        <4> QED
          BY <1>0, <4>1, <4>3, <4>5, <4>6 DEF Sorted, Whole, Joined
      <3> QED
        BY <1>0, <1>1, <3>1 DEF EventInv
    <2> QED
      BY <2>0, <2>1, <2>2
  <1>4. CASE HandshakePoll
    <2> DEFINE m == Head(toChild)
    <2>0. Read /\ stdout' = stdout /\ phase' = phase /\ phase \in Before
      BY <1>4 DEF HandshakePoll, Read, Before
    <2>1. m \in Message
      BY <2>0, HeadTail DEF TypeOK, Read
    <2> HIDE DEF m
    <2>2. ASSUME NEW s \in Sessions, browser # "gone" PROVE Sorted(s)' /\ Whole(s)' /\ Joined(s)'
      <3>0. Sorted(s) /\ Whole(s) /\ Joined(s)
        BY <2>2 DEF EventInv
      <3>1. stdout = << >> /\ delivered[s] = << >>
        BY <2>0, <2>2 DEF Boot
      <3>2. LineNumbers(s) = {}
        BY <3>1 DEF LineNumbers, EventLines
      <3>3. LinesOrdered(s)' /\ LineNumbers(s)' = {}
        BY <1>b, <2>0, <3>0, <3>2 DEF Sorted
      <3>4. CASE EventMessage(m, s)
        <4>1. /\ MessagesOrdered(s)' /\ MessageNumbers(s) = MessageNumbers(s)' \cup {m.n}
              /\ \A a \in MessageNumbers(s)' : m.n < a
          BY <2>0, <3>0, <3>4, EventsRead DEF Sorted, m
        <4>2. m.n \in Nat
          BY <2>1, <3>4, MessageFields DEF EventMessage
        <4>3. Sorted(s)'
          BY <3>3, <4>1 DEF Sorted
        <4>4. OnTheWay(s) = OnTheWay(s)' \cup {m.n} /\ \A a \in OnTheWay(s)' : m.n < a
          BY <3>2, <3>3, <4>1 DEF OnTheWay, LineNumbers, MessageNumbers
        <4> QED
          BY <1>0, <2>0, <3>0, <3>1, <4>2, <4>3, <4>4, FlowDrop
      <3>5. CASE ~EventMessage(m, s)
        <4>1. MessagesOrdered(s)' /\ MessageNumbers(s)' = MessageNumbers(s)
          BY <2>0, <3>0, <3>5, EventsRead DEF Sorted, m
        <4> QED
          BY <1>d, <3>0, <3>2, <3>3, <4>1
      <3> QED
        BY <3>4, <3>5
    <2> QED
      BY <1>0, <1>1, <2>2 DEF EventInv
  <1>5. CASE Poll
    <2> DEFINE m == Head(toChild)
    <2>0. Read /\ Emit(LinesOf(m)) /\ phase' = phase
      BY <1>5 DEF Poll, Read
    <2>1. m \in Message
      BY <2>0, HeadTail DEF TypeOK, Read
    <2>m. m = Head(toChild)
      OBVIOUS
    <2> HIDE DEF m
    <2>2. ASSUME NEW s \in Sessions, browser # "gone" PROVE Sorted(s)' /\ Whole(s)' /\ Joined(s)'
      <3>0. Sorted(s) /\ Whole(s) /\ Joined(s)
        BY <2>2 DEF EventInv
      <3>1. CASE m.kind # "event"
        <4>1. MessagesOrdered(s)' /\ MessageNumbers(s)' = MessageNumbers(s)
          BY <2>0, <2>m, <3>0, <3>1, EventsRead DEF Sorted, EventMessage
        <4>2. LinesOrdered(s)' /\ LineNumbers(s)' = LineNumbers(s)
          <5>1. CASE LinesOf(m) = << >>
            <6>1. stdout' = stdout
              BY <2>0, <5>1 DEF Emit
            <6> QED
              BY <1>b, <3>0, <6>1 DEF Sorted
          <5>2. ASSUME NEW l \in Line, LinesOf(m) = <<l>>, l.type # "event"
                PROVE  LinesOrdered(s)' /\ LineNumbers(s)' = LineNumbers(s)
            BY <1>c, <2>0, <3>0, <5>2
          <5> QED
            BY <2>1, <3>1, <5>1, <5>2, LinesOfShape
        <4> QED
          BY <1>d, <3>0, <4>1, <4>2
      <3>2. CASE m.kind = "event" /\ m.session # s
        <4>1. MessagesOrdered(s)' /\ MessageNumbers(s)' = MessageNumbers(s)
          BY <2>0, <2>m, <3>0, <3>2, EventsRead DEF Sorted, EventMessage
        <4>2. PICK l \in Line : LinesOf(m) = <<l>> /\ l.type = "event" /\ l.session = m.session
          BY <2>1, <3>2, LinesOfShape
        <4>3. Printed(l)
          BY <2>0, <2>2, <4>2, EmitOne
        <4>4. LinesOrdered(s)' /\ LineNumbers(s)' = LineNumbers(s)
          BY <3>0, <3>2, <4>2, <4>3, LinesPrinted DEF Sorted, EventLine
        <4> QED
          BY <1>d, <3>0, <4>1, <4>4
      <3>3. CASE m.kind = "event" /\ m.session = s
        <4>1. /\ MessagesOrdered(s)' /\ MessageNumbers(s) = MessageNumbers(s)' \cup {m.n}
              /\ \A a \in MessageNumbers(s)' : m.n < a
          BY <2>0, <2>m, <3>0, <3>3, EventsRead DEF Sorted, EventMessage
        <4>2. PICK l \in Line : /\ LinesOf(m) = <<l>> /\ l.type = "event"
                                /\ l.session = m.session /\ l.n = m.n
          BY <2>1, <3>3, LinesOfShape
        <4>3. Printed(l)
          BY <2>0, <2>2, <4>2, EmitOne
        <4>4. \A a \in LineNumbers(s) : a < l.n
          BY <3>0, <4>1, <4>2 DEF Sorted
        <4>5. LinesOrdered(s)' /\ LineNumbers(s)' = LineNumbers(s) \cup {m.n}
          BY <3>0, <3>3, <4>2, <4>3, <4>4, LinesPrinted DEF Sorted, EventLine
        <4>6. Sorted(s)'
          BY <3>0, <4>1, <4>5 DEF Sorted
        <4>7. OnTheWay(s)' = OnTheWay(s)
          BY <4>1, <4>5 DEF OnTheWay, LineNumbers, MessageNumbers
        <4> QED
          BY <1>0, <3>0, <4>6, <4>7, FlowSame
      <3> QED
        BY <3>1, <3>2, <3>3
    <2> QED
      BY <1>0, <1>1, <2>2 DEF EventInv
  <1>6. CASE PollClosed
    <2>0. Read /\ Emit(<<closed>>) /\ Head(toChild).kind = "close"
      BY <1>6 DEF PollClosed, Read, closed
    <2>1. ASSUME NEW s \in Sessions, browser # "gone" PROVE Sorted(s)' /\ Whole(s)' /\ Joined(s)'
      <3>0. Sorted(s) /\ Whole(s) /\ Joined(s)
        BY <2>1 DEF EventInv
      <3>1. LinesOrdered(s)' /\ LineNumbers(s)' = LineNumbers(s)
        BY <1>c, <1>e, <2>0, <3>0
      <3>2. MessagesOrdered(s)' /\ MessageNumbers(s)' = MessageNumbers(s)
        BY <2>0, <3>0, EventsRead DEF Sorted, EventMessage
      <3> QED
        BY <1>d, <3>0, <3>1, <3>2
    <2> QED
      BY <1>0, <1>1, <2>1 DEF EventInv
  <1>7. CASE Exit
    <2>0. stdout' = stdout /\ toChild' = << >> /\ phase' = "dead"
      BY <1>7 DEF Exit
    <2>1. ASSUME NEW s \in Sessions, browser # "gone" PROVE Sorted(s)' /\ Whole(s)' /\ Joined(s)'
      <3>0. Sorted(s) /\ Whole(s) /\ Joined(s)
        BY <2>1 DEF EventInv
      <3>1. EventMessages(s)' = {}
        BY <2>0 DEF EventMessages
      <3>2. MessagesOrdered(s)' /\ MessageNumbers(s)' = {}
        BY <3>1 DEF MessagesOrdered, MessageNumbers
      <3>3. LinesOrdered(s)' /\ LineNumbers(s)' = LineNumbers(s)
        BY <1>b, <2>0, <3>0 DEF Sorted
      <3>4. Sorted(s)'
        BY <3>2, <3>3 DEF Sorted
      <3>5. OnTheWay(s) = LineNumbers(s) \cup MessageNumbers(s) /\ OnTheWay(s)' = LineNumbers(s)
        BY <3>2, <3>3 DEF OnTheWay, LineNumbers, MessageNumbers
      <3>6. OnTheWay(s) = OnTheWay(s)' \cup MessageNumbers(s)
              /\ \A a \in OnTheWay(s)', b \in MessageNumbers(s) : a < b
        BY <3>0, <3>5 DEF Sorted
      <3> QED
        BY <1>0, <2>0, <3>0, <3>4, <3>6, FlowCut
    <2> QED
      BY <1>0, <1>1, <2>1 DEF EventInv
  <1> QED
    BY <1>2, <1>3, <1>4, <1>5, <1>6, <1>7 DEF ChildNext

\* The listeners of a session get its events in the order they happened, all of them from the
\* first they get, across the socket batch, the pipe, the child's end and the session's late
\* creation; only the end of the child or of Node ends the row.
THEOREM EventsCorrect == Spec => []EventsInOrder
  <1>1. Init => EventInv
    <2> SUFFICES ASSUME Init, NEW s \in Sessions PROVE Sorted(s) /\ Whole(s) /\ Joined(s)
      BY DEF Init, EventInv
    <2>1. EventLines(s) = {} /\ EventMessages(s) = {} /\ delivered[s] = << >>
      BY DEF Init, EventLines, EventMessages
    <2> QED
      BY <2>1 DEF Sorted, Whole, Joined, LinesOrdered, MessagesOrdered, LineNumbers,
                  MessageNumbers, OnTheWay
  <1>2. TypeOK /\ Boot /\ EventInv /\ [Next]_vars => EventInv'
    BY EventNode, EventChild, EventServer DEF Next
  <1>3. EventInv => EventsInOrder
    <2>1. SUFFICES ASSUME EventInv, browser # "gone", NEW s \in Sessions
                   PROVE  /\ \A i, j \in EventLines(s) : i < j => stdout[i].n < stdout[j].n
                          /\ \A i, j \in EventMessages(s) : i < j => toChild[i].n < toChild[j].n
                          /\ \A i \in EventLines(s), j \in EventMessages(s) :
                               stdout[i].n < toChild[j].n
                          /\ delivered[s] # << >> =>
                               LET last == Last(delivered[s]) IN
                               /\ \A i \in 1 .. Len(delivered[s]) - 1 :
                                    delivered[s][i + 1] = delivered[s][i] + 1
                               /\ \A n \in OnTheWay(s) :
                                    n > last /\ (last + 1) .. n \subseteq OnTheWay(s)
                               /\ phase = "running" =>
                                    (last + 1) .. emitted[s] \subseteq OnTheWay(s)
      BY DEF EventsInOrder
    <2>2. Sorted(s) /\ Joined(s)
      BY <2>1 DEF EventInv
    <2>3. /\ \A i \in EventLines(s) : stdout[i].n \in LineNumbers(s)
          /\ \A i \in EventMessages(s) : toChild[i].n \in MessageNumbers(s)
      BY DEF LineNumbers, MessageNumbers
    <2> QED
      BY <2>2, <2>3 DEF Sorted, Joined, LinesOrdered, MessagesOrdered
  <1> QED
    BY <1>1, <1>2, <1>3, TypeCorrect, BootCorrect, PTL DEF Spec

-----------------------------------------------------------------------------
(* Where a pending call is *)

IsResult(l) == l.type \in {"result", "error"}
Sends   == {i \in DOMAIN stdin : stdin[i].op = "send"}
Replies == {i \in DOMAIN toChild : toChild[i].kind = "reply"}
Results == {i \in DOMAIN stdout : IsResult(stdout[i])}

\* The ids in each stage: bridgeIds in stdin and stdout, CDP ids at the server and in replies.
SentIds    == {stdin[i].bridgeId : i \in Sends}
ResultIds  == {stdout[i].bridgeId : i \in Results}
CommandIds == {c.id : c \in atServer}
ReplyIds   == {toChild[i].id : i \in Replies}

DistinctSends   == \A i, j \in Sends : stdin[i].bridgeId = stdin[j].bridgeId => i = j
DistinctCommands == \A c, d \in atServer : c.id = d.id => c = d
DistinctReplies == \A i, j \in Replies : toChild[i].id = toChild[j].id => i = j
DistinctResults == \A i, j \in Results : stdout[i].bridgeId = stdout[j].bridgeId => i = j

\* No id is in two places: a bridgeId is in stdin, or in the child's map, or in stdout, and a
\* CDP id is at the server or in a reply.
Unique ==
  /\ DistinctSends /\ DistinctCommands /\ DistinctReplies /\ DistinctResults
  /\ IsInjective(cdpToBridge)
  /\ \A b \in SentIds : b \notin ResultIds /\ b \notin Range(cdpToBridge)
  /\ \A b \in ResultIds : b \notin Range(cdpToBridge)
  /\ \A id \in CommandIds : id \notin ReplyIds

\* Bridge id b is in one of the stages.
Carried(b) ==
  \/ b \in SentIds \/ b \in ResultIds
  \/ \E id \in DOMAIN cdpToBridge : cdpToBridge[id] = b /\ id \in CommandIds \cup ReplyIds

\* While the connection stands, each id of a pending call is in one of the stages.
Kept ==
  phase = "running" /\ serverOpen /\ browser # "gone" =>
    \A b \in DOMAIN pending : pending[b] \in unsent \/ Carried(b)

\* Nothing is pending before connect() resolved.
NoneEarly == browser \in {"waiting", "failed"} => DOMAIN pending = {}

CarrierInv == Unique /\ Kept /\ NoneEarly

\* Ids never exceed the counters they are drawn from.
LEMMA IdsBounded ==
  ASSUME TypeOK, CallInv
  PROVE  /\ lastId \in Nat /\ lastBridgeId \in Nat
         /\ \A b \in SentIds : b \in Nat /\ b <= lastBridgeId
         /\ \A b \in ResultIds : b \in Nat /\ b <= lastBridgeId
         /\ \A b \in Range(cdpToBridge) : b \in Nat /\ b <= lastBridgeId
         /\ \A id \in DOMAIN cdpToBridge : id \in Nat /\ id <= lastId
         /\ \A id \in CommandIds : id \in Nat /\ id <= lastId
         /\ \A id \in ReplyIds : id \in Nat /\ id <= lastId
  <1>1. \A b \in SentIds : b \in Nat /\ b <= lastBridgeId
    <2>1. \A i \in Sends : stdin[i] \in Range(stdin) /\ stdin[i] \in Op /\ stdin[i].op = "send"
      BY DEF TypeOK, Sends, Range
    <2> QED
      BY <2>1, OpFields DEF SentIds, CallInv, StdinOK
  <1>2. \A b \in ResultIds : b \in Nat /\ b <= lastBridgeId
    <2>1. \A i \in Results : /\ stdout[i] \in Range(stdout) /\ stdout[i] \in Line
                             /\ stdout[i].type \in {"result", "error"}
      BY DEF TypeOK, Results, Range, IsResult
    <2> QED
      BY <2>1, LineFields DEF ResultIds, CallInv, StdoutOK
  <1>3. \A id \in ReplyIds : id \in Nat /\ id <= lastId
    <2>1. \A i \in Replies : /\ toChild[i] \in Range(toChild) /\ toChild[i] \in Message
                             /\ toChild[i].kind = "reply"
      BY DEF TypeOK, Replies, Range
    <2> QED
      BY <2>1, MessageFields DEF ReplyIds, CallInv, SocketOK, Speaks
  <1>4. \A id \in CommandIds : id \in Nat /\ id <= lastId
    BY DEF CommandIds, TypeOK, Command, CallInv, ServerOK, Speaks
  <1>5. \A id \in DOMAIN cdpToBridge : id \in Nat /\ id <= lastId
    BY DEF TypeOK, CallInv, MapOK
  <1>6. \A b \in Range(cdpToBridge) : b \in Nat /\ b <= lastBridgeId
    BY DEF TypeOK, CallInv, MapOK, Range
  <1> QED
    BY <1>1, <1>2, <1>3, <1>4, <1>5, <1>6 DEF TypeOK

LEMMA SendsAppended ==
  ASSUME TypeOK, DistinctSends, NEW o \in Op, stdin' = Append(stdin, o),
         o.op = "send" => o.bridgeId \notin SentIds
  PROVE  /\ DistinctSends'
         /\ SentIds' = IF o.op = "send" THEN SentIds \cup {o.bridgeId} ELSE SentIds
  <1>0. PICK len : len = Len(stdin)
    OBVIOUS
  <1>1. /\ len \in Nat /\ stdin'[len + 1] = o
        /\ DOMAIN stdin' = 1 .. len + 1 /\ DOMAIN stdin = 1 .. len
        /\ \A i \in 1 .. len : stdin'[i] = stdin[i]
    BY <1>0, AppendAt DEF TypeOK
  <1>2. \A i \in Sends : i \in 1 .. len /\ i \in Sends' /\ stdin'[i] = stdin[i]
    BY <1>1 DEF Sends
  <1>3. \A i \in Sends' : \/ i \in Sends /\ stdin'[i] = stdin[i]
                          \/ i = len + 1 /\ o.op = "send"
    <2>1. SUFFICES ASSUME NEW i \in Sends'
                   PROVE  \/ i \in Sends /\ stdin'[i] = stdin[i]
                          \/ i = len + 1 /\ o.op = "send"
      OBVIOUS
    <2>2. i \in 1 .. len + 1 /\ stdin'[i].op = "send"
      BY <1>1 DEF Sends
    <2>3. i = len + 1 \/ i \in 1 .. len
      BY <1>1, <2>2
    <2> QED
      BY <1>1, <2>2, <2>3 DEF Sends
  <1>4. o.op = "send" => len + 1 \in Sends'
    BY <1>1 DEF Sends
  <1>5. DistinctSends'
    <2>1. SUFFICES ASSUME NEW i \in Sends', NEW j \in Sends',
                          stdin'[i].bridgeId = stdin'[j].bridgeId
                   PROVE  i = j
      BY DEF DistinctSends
    <2>2. \A k \in Sends : stdin[k].bridgeId \in SentIds
      BY DEF SentIds
    <2> QED
      BY <1>1, <1>3, <2>1, <2>2 DEF DistinctSends
  <1>6. \A b \in SentIds : b \in SentIds'
    BY <1>2 DEF SentIds
  <1>7. o.op = "send" => o.bridgeId \in SentIds'
    BY <1>1, <1>4 DEF SentIds
  <1>8. \A b \in SentIds' : b \in SentIds \/ (o.op = "send" /\ b = o.bridgeId)
    BY <1>1, <1>3 DEF SentIds
  <1> QED
    BY <1>5, <1>6, <1>7, <1>8

LEMMA SendsRead ==
  ASSUME TypeOK, DistinctSends, stdin # << >>, stdin' = Tail(stdin)
  PROVE  /\ DistinctSends'
         /\ IF Head(stdin).op = "send"
            THEN SentIds = SentIds' \cup {Head(stdin).bridgeId} /\ Head(stdin).bridgeId \notin SentIds'
            ELSE SentIds' = SentIds
  <1>1. /\ Head(stdin) = stdin[1] /\ Len(stdin) \in Nat /\ Len(stdin) >= 1
        /\ DOMAIN stdin' = 1 .. Len(stdin) - 1 /\ DOMAIN stdin = 1 .. Len(stdin)
        /\ \A i \in 1 .. Len(stdin) - 1 : stdin'[i] = stdin[i + 1]
    BY TailAt DEF TypeOK
  <1>2. \A i \in Sends' : /\ i \in Nat /\ i >= 1 /\ i + 1 \in Sends /\ i + 1 # 1
                          /\ stdin'[i] = stdin[i + 1]
    BY <1>1 DEF Sends
  <1>3. \A i \in Sends : i \in Nat /\ (i # 1 => i - 1 \in Sends' /\ stdin'[i - 1] = stdin[i])
    BY <1>1 DEF Sends
  <1>4. 1 \in Sends <=> Head(stdin).op = "send"
    BY <1>1 DEF Sends
  <1>5. DistinctSends'
    <2>1. SUFFICES ASSUME NEW i \in Sends', NEW j \in Sends',
                          stdin'[i].bridgeId = stdin'[j].bridgeId
                   PROVE  i = j
      BY DEF DistinctSends
    <2>2. i + 1 \in Sends /\ j + 1 \in Sends /\ stdin[i + 1].bridgeId = stdin[j + 1].bridgeId
      BY <1>2, <2>1
    <2>3. i + 1 = j + 1
      BY <2>2 DEF DistinctSends
    <2> QED
      BY <1>2, <2>3
  <1>6. \A b \in SentIds' : b \in SentIds
    BY <1>2 DEF SentIds
  <1>7. \A b \in SentIds : b \in SentIds' \/ (1 \in Sends /\ b = stdin[1].bridgeId)
    BY <1>3 DEF SentIds
  <1>8. 1 \in Sends => stdin[1].bridgeId \in SentIds
    BY DEF SentIds
  <1>9. 1 \in Sends => stdin[1].bridgeId \notin SentIds'
    <2>1. SUFFICES ASSUME 1 \in Sends, NEW i \in Sends' PROVE stdin'[i].bridgeId # stdin[1].bridgeId
      BY DEF SentIds
    <2>2. i + 1 \in Sends /\ stdin'[i] = stdin[i + 1] /\ i + 1 # 1
      BY <1>2
    <2>3. stdin[i + 1].bridgeId # stdin[1].bridgeId
      BY <2>1, <2>2 DEF DistinctSends
    <2> QED
      BY <2>2, <2>3
  <1>10. CASE 1 \in Sends
    <2>1. SentIds = SentIds' \cup {stdin[1].bridgeId}
      BY <1>6, <1>7, <1>8, <1>10
    <2> QED
      BY <1>1, <1>4, <1>5, <1>9, <1>10, <2>1
  <1>11. CASE 1 \notin Sends
    <2>1. SentIds' = SentIds
      BY <1>6, <1>7, <1>11
    <2> QED
      BY <1>4, <1>5, <1>11, <2>1
  <1> QED
    BY <1>10, <1>11

LEMMA RepliesArrived ==
  ASSUME TypeOK, DistinctReplies, NEW m \in Message, Arrived(m),
         m.kind = "reply" => m.id \notin ReplyIds
  PROVE  /\ DistinctReplies'
         /\ ReplyIds' = IF m.kind = "reply" THEN ReplyIds \cup {m.id} ELSE ReplyIds
  <1>0. PICK len : len = Len(toChild)
    OBVIOUS
  <1>1. /\ len \in Nat /\ toChild'[len + 1] = m
        /\ DOMAIN toChild' = 1 .. len + 1 /\ DOMAIN toChild = 1 .. len
        /\ \A i \in 1 .. len : toChild'[i] = toChild[i]
    BY <1>0, AppendAt DEF TypeOK, Arrived
  <1>2. \A i \in Replies : i \in 1 .. len /\ i \in Replies' /\ toChild'[i] = toChild[i]
    BY <1>1 DEF Replies
  <1>3. \A i \in Replies' : \/ i \in Replies /\ toChild'[i] = toChild[i]
                            \/ i = len + 1 /\ m.kind = "reply"
    <2>1. SUFFICES ASSUME NEW i \in Replies'
                   PROVE  \/ i \in Replies /\ toChild'[i] = toChild[i]
                          \/ i = len + 1 /\ m.kind = "reply"
      OBVIOUS
    <2>2. i \in 1 .. len + 1 /\ toChild'[i].kind = "reply"
      BY <1>1 DEF Replies
    <2>3. i = len + 1 \/ i \in 1 .. len
      BY <1>1, <2>2
    <2> QED
      BY <1>1, <2>2, <2>3 DEF Replies
  <1>4. m.kind = "reply" => len + 1 \in Replies'
    BY <1>1 DEF Replies
  <1>5. DistinctReplies'
    <2>1. SUFFICES ASSUME NEW i \in Replies', NEW j \in Replies', toChild'[i].id = toChild'[j].id
                   PROVE  i = j
      BY DEF DistinctReplies
    <2>2. \A k \in Replies : toChild[k].id \in ReplyIds
      BY DEF ReplyIds
    <2> QED
      BY <1>1, <1>3, <2>1, <2>2 DEF DistinctReplies
  <1>6. \A b \in ReplyIds : b \in ReplyIds'
    BY <1>2 DEF ReplyIds
  <1>7. m.kind = "reply" => m.id \in ReplyIds'
    BY <1>1, <1>4 DEF ReplyIds
  <1>8. \A b \in ReplyIds' : b \in ReplyIds \/ (m.kind = "reply" /\ b = m.id)
    BY <1>1, <1>3 DEF ReplyIds
  <1> QED
    BY <1>5, <1>6, <1>7, <1>8

LEMMA RepliesRead ==
  ASSUME TypeOK, DistinctReplies, Read
  PROVE  /\ DistinctReplies'
         /\ IF Head(toChild).kind = "reply"
            THEN ReplyIds = ReplyIds' \cup {Head(toChild).id} /\ Head(toChild).id \notin ReplyIds'
            ELSE ReplyIds' = ReplyIds
  <1>1. /\ Head(toChild) = toChild[1] /\ Len(toChild) \in Nat /\ Len(toChild) >= 1
        /\ DOMAIN toChild' = 1 .. Len(toChild) - 1 /\ DOMAIN toChild = 1 .. Len(toChild)
        /\ \A i \in 1 .. Len(toChild) - 1 : toChild'[i] = toChild[i + 1]
    BY TailAt DEF TypeOK, Read
  <1>2. \A i \in Replies' : /\ i \in Nat /\ i >= 1 /\ i + 1 \in Replies /\ i + 1 # 1
                            /\ toChild'[i] = toChild[i + 1]
    BY <1>1 DEF Replies
  <1>3. \A i \in Replies : i \in Nat /\ (i # 1 => i - 1 \in Replies' /\ toChild'[i - 1] = toChild[i])
    BY <1>1 DEF Replies
  <1>4. 1 \in Replies <=> Head(toChild).kind = "reply"
    BY <1>1 DEF Replies
  <1>5. DistinctReplies'
    <2>1. SUFFICES ASSUME NEW i \in Replies', NEW j \in Replies', toChild'[i].id = toChild'[j].id
                   PROVE  i = j
      BY DEF DistinctReplies
    <2>2. i + 1 \in Replies /\ j + 1 \in Replies /\ toChild[i + 1].id = toChild[j + 1].id
      BY <1>2, <2>1
    <2>3. i + 1 = j + 1
      BY <2>2 DEF DistinctReplies
    <2> QED
      BY <1>2, <2>3
  <1>6. \A b \in ReplyIds' : b \in ReplyIds
    BY <1>2 DEF ReplyIds
  <1>7. \A b \in ReplyIds : b \in ReplyIds' \/ (1 \in Replies /\ b = toChild[1].id)
    BY <1>3 DEF ReplyIds
  <1>8. 1 \in Replies => toChild[1].id \in ReplyIds
    BY DEF ReplyIds
  <1>9. 1 \in Replies => toChild[1].id \notin ReplyIds'
    <2>1. SUFFICES ASSUME 1 \in Replies, NEW i \in Replies' PROVE toChild'[i].id # toChild[1].id
      BY DEF ReplyIds
    <2>2. i + 1 \in Replies /\ toChild'[i] = toChild[i + 1] /\ i + 1 # 1
      BY <1>2
    <2>3. toChild[i + 1].id # toChild[1].id
      BY <2>1, <2>2 DEF DistinctReplies
    <2> QED
      BY <2>2, <2>3
  <1>10. CASE 1 \in Replies
    <2>1. ReplyIds = ReplyIds' \cup {toChild[1].id}
      BY <1>6, <1>7, <1>8, <1>10
    <2> QED
      BY <1>1, <1>4, <1>5, <1>9, <1>10, <2>1
  <1>11. CASE 1 \notin Replies
    <2>1. ReplyIds' = ReplyIds
      BY <1>6, <1>7, <1>11
    <2> QED
      BY <1>4, <1>5, <1>11, <2>1
  <1> QED
    BY <1>10, <1>11

LEMMA ResultsPrinted ==
  ASSUME TypeOK, DistinctResults, NEW l \in Line, Printed(l),
         IsResult(l) => l.bridgeId \notin ResultIds
  PROVE  /\ DistinctResults'
         /\ ResultIds' = IF IsResult(l) THEN ResultIds \cup {l.bridgeId} ELSE ResultIds
  <1>0. PICK len : len = Len(stdout)
    OBVIOUS
  <1>1. /\ len \in Nat /\ stdout'[len + 1] = l
        /\ DOMAIN stdout' = 1 .. len + 1 /\ DOMAIN stdout = 1 .. len
        /\ \A i \in 1 .. len : stdout'[i] = stdout[i]
    BY <1>0, AppendAt DEF TypeOK, Printed
  <1>2. \A i \in Results : i \in 1 .. len /\ i \in Results' /\ stdout'[i] = stdout[i]
    BY <1>1 DEF Results
  <1>3. \A i \in Results' : \/ i \in Results /\ stdout'[i] = stdout[i]
                            \/ i = len + 1 /\ IsResult(l)
    <2>1. SUFFICES ASSUME NEW i \in Results'
                   PROVE  \/ i \in Results /\ stdout'[i] = stdout[i]
                          \/ i = len + 1 /\ IsResult(l)
      OBVIOUS
    <2>2. i \in 1 .. len + 1 /\ IsResult(stdout'[i])
      BY <1>1 DEF Results
    <2>3. i = len + 1 \/ i \in 1 .. len
      BY <1>1, <2>2
    <2> QED
      BY <1>1, <2>2, <2>3 DEF Results
  <1>4. IsResult(l) => len + 1 \in Results'
    BY <1>1 DEF Results
  <1>5. DistinctResults'
    <2>1. SUFFICES ASSUME NEW i \in Results', NEW j \in Results',
                          stdout'[i].bridgeId = stdout'[j].bridgeId
                   PROVE  i = j
      BY DEF DistinctResults
    <2>2. \A k \in Results : stdout[k].bridgeId \in ResultIds
      BY DEF ResultIds
    <2> QED
      BY <1>1, <1>3, <2>1, <2>2 DEF DistinctResults
  <1>6. \A b \in ResultIds : b \in ResultIds'
    BY <1>2 DEF ResultIds
  <1>7. IsResult(l) => l.bridgeId \in ResultIds'
    BY <1>1, <1>4 DEF ResultIds
  <1>8. \A b \in ResultIds' : b \in ResultIds \/ (IsResult(l) /\ b = l.bridgeId)
    BY <1>1, <1>3 DEF ResultIds
  <1> QED
    BY <1>5, <1>6, <1>7, <1>8

LEMMA ResultsTaken ==
  ASSUME TypeOK, DistinctResults, Taken
  PROVE  /\ DistinctResults'
         /\ IF IsResult(Head(stdout))
            THEN /\ ResultIds = ResultIds' \cup {Head(stdout).bridgeId}
                 /\ Head(stdout).bridgeId \notin ResultIds'
            ELSE ResultIds' = ResultIds
  <1>1. /\ Head(stdout) = stdout[1] /\ Len(stdout) \in Nat /\ Len(stdout) >= 1
        /\ DOMAIN stdout' = 1 .. Len(stdout) - 1 /\ DOMAIN stdout = 1 .. Len(stdout)
        /\ \A i \in 1 .. Len(stdout) - 1 : stdout'[i] = stdout[i + 1]
    BY TailAt DEF TypeOK, Taken
  <1>2. \A i \in Results' : /\ i \in Nat /\ i >= 1 /\ i + 1 \in Results /\ i + 1 # 1
                            /\ stdout'[i] = stdout[i + 1]
    BY <1>1 DEF Results
  <1>3. \A i \in Results : i \in Nat /\ (i # 1 => i - 1 \in Results' /\ stdout'[i - 1] = stdout[i])
    BY <1>1 DEF Results
  <1>4. 1 \in Results <=> IsResult(Head(stdout))
    BY <1>1 DEF Results
  <1>5. DistinctResults'
    <2>1. SUFFICES ASSUME NEW i \in Results', NEW j \in Results',
                          stdout'[i].bridgeId = stdout'[j].bridgeId
                   PROVE  i = j
      BY DEF DistinctResults
    <2>2. i + 1 \in Results /\ j + 1 \in Results /\ stdout[i + 1].bridgeId = stdout[j + 1].bridgeId
      BY <1>2, <2>1
    <2>3. i + 1 = j + 1
      BY <2>2 DEF DistinctResults
    <2> QED
      BY <1>2, <2>3
  <1>6. \A b \in ResultIds' : b \in ResultIds
    BY <1>2 DEF ResultIds
  <1>7. \A b \in ResultIds : b \in ResultIds' \/ (1 \in Results /\ b = stdout[1].bridgeId)
    BY <1>3 DEF ResultIds
  <1>8. 1 \in Results => stdout[1].bridgeId \in ResultIds
    BY DEF ResultIds
  <1>9. 1 \in Results => stdout[1].bridgeId \notin ResultIds'
    <2>1. SUFFICES ASSUME 1 \in Results, NEW i \in Results'
                   PROVE  stdout'[i].bridgeId # stdout[1].bridgeId
      BY DEF ResultIds
    <2>2. i + 1 \in Results /\ stdout'[i] = stdout[i + 1] /\ i + 1 # 1
      BY <1>2
    <2>3. stdout[i + 1].bridgeId # stdout[1].bridgeId
      BY <2>1, <2>2 DEF DistinctResults
    <2> QED
      BY <2>2, <2>3
  <1>10. CASE 1 \in Results
    <2>1. ResultIds = ResultIds' \cup {stdout[1].bridgeId}
      BY <1>6, <1>7, <1>8, <1>10
    <2> QED
      BY <1>1, <1>4, <1>5, <1>9, <1>10, <2>1
  <1>11. CASE 1 \notin Results
    <2>1. ResultIds' = ResultIds
      BY <1>6, <1>7, <1>11
    <2> QED
      BY <1>4, <1>5, <1>11, <2>1
  <1> QED
    BY <1>10, <1>11

LEMMA StdinSame ==
  ASSUME UNCHANGED stdin
  PROVE  SentIds' = SentIds /\ (DistinctSends' <=> DistinctSends)
  BY DEF Sends, SentIds, DistinctSends

LEMMA StdoutSame ==
  ASSUME UNCHANGED stdout
  PROVE  ResultIds' = ResultIds /\ (DistinctResults' <=> DistinctResults)
  BY DEF Results, ResultIds, DistinctResults

LEMMA SocketSame ==
  ASSUME UNCHANGED toChild
  PROVE  ReplyIds' = ReplyIds /\ (DistinctReplies' <=> DistinctReplies)
  BY DEF Replies, ReplyIds, DistinctReplies

\* A step that moves no id.
LEMMA StagesSame ==
  ASSUME CarrierInv, DistinctSends', DistinctReplies', DistinctResults',
         SentIds' = SentIds, ResultIds' = ResultIds, ReplyIds' = ReplyIds,
         UNCHANGED <<atServer, cdpToBridge>>,
         DOMAIN pending' \subseteq DOMAIN pending,
         \A b \in DOMAIN pending' : pending'[b] = pending[b],
         unsent' = unsent,
         phase' = "running" /\ serverOpen' /\ browser' # "gone" =>
           DOMAIN pending' = {} \/ (phase = "running" /\ serverOpen /\ browser # "gone"),
         browser' \in {"waiting", "failed"} => browser \in {"waiting", "failed"}
  PROVE  CarrierInv'
  <1>0. CommandIds' = CommandIds /\ (DistinctCommands' <=> DistinctCommands)
    BY DEF CommandIds, DistinctCommands
  <1>1. Unique'
    BY <1>0 DEF CarrierInv, Unique
  <1>2. \A b : Carried(b)' <=> Carried(b)
    BY <1>0 DEF Carried
  <1>3. Kept'
    BY <1>2 DEF CarrierInv, Kept
  <1>4. NoneEarly'
    BY DEF CarrierInv, NoneEarly
  <1> QED
    BY <1>1, <1>3, <1>4 DEF CarrierInv

LEMMA CarrierSend ==
  ASSUME TypeOK, CallInv, CarrierInv, NEW p \in Promises, Send(p)
  PROVE  CarrierInv'
  <1> USE DEF nodeVars, callVars, viewVars, childVars, wireVars, serverVars
  <1>1. PICK b \in Nat : b = lastBridgeId + 1 /\ b > lastBridgeId
    BY DEF TypeOK
  <1> DEFINE o == [op |-> "send", bridgeId |-> b, body |-> p]
  <1>2. o \in Op /\ o.op = "send" /\ o.bridgeId = b
    BY DEF Op
  <1>3. stdin' = Append(stdin, o) /\ pending' = Put(pending, b, p) /\ browser = "ready"
    BY <1>1 DEF Send
  <1> HIDE DEF o
  <1>4. b \notin SentIds /\ b \notin ResultIds /\ b \notin Range(cdpToBridge)
    BY <1>1, IdsBounded
  <1>5. DistinctSends' /\ SentIds' = SentIds \cup {b}
    BY <1>2, <1>3, <1>4, SendsAppended DEF CarrierInv, Unique
  <1>6. UNCHANGED <<stdout, toChild, atServer, cdpToBridge, unsent, phase, serverOpen, browser>>
    BY DEF Send
  <1>7. /\ ResultIds' = ResultIds /\ ReplyIds' = ReplyIds /\ CommandIds' = CommandIds
        /\ DistinctResults' /\ DistinctReplies' /\ DistinctCommands'
    BY <1>6, StdoutSame, SocketSame DEF CommandIds, DistinctCommands, CarrierInv, Unique
  <1>8. Unique'
    BY <1>4, <1>5, <1>6, <1>7 DEF CarrierInv, Unique
  <1>9. Kept'
    <2>1. \A x : Carried(x) => Carried(x)'
      BY <1>5, <1>6, <1>7 DEF Carried
    <2>2. Carried(b)'
      BY <1>5 DEF Carried
    <2>3. \A x \in DOMAIN pending' : x = b \/ (x \in DOMAIN pending /\ pending'[x] = pending[x])
      BY <1>3 DEF Put
    <2> QED
      BY <1>6, <2>1, <2>2, <2>3 DEF CarrierInv, Kept
  <1>10. NoneEarly'
    BY <1>3, <1>6 DEF NoneEarly
  <1> QED
    BY <1>8, <1>9, <1>10 DEF CarrierInv

\* A line of another kind than result and error is handled.
LEMMA CarrierTaken ==
  ASSUME TypeOK, CarrierInv, Taken, ~IsResult(Head(stdout)),
         UNCHANGED <<stdin, phase, serverOpen, cdpToBridge, toChild, atServer, unsent>>,
         DOMAIN pending' \subseteq DOMAIN pending,
         \A b \in DOMAIN pending' : pending'[b] = pending[b],
         browser # "gone", browser' \in {"waiting", "failed"} => browser \in {"waiting", "failed"}
  PROVE  CarrierInv'
  <1>1. DistinctResults' /\ ResultIds' = ResultIds
    BY ResultsTaken DEF CarrierInv, Unique
  <1>2. /\ SentIds' = SentIds /\ ReplyIds' = ReplyIds /\ CommandIds' = CommandIds
        /\ DistinctSends' /\ DistinctReplies'
    BY StdinSame, SocketSame DEF CommandIds, CarrierInv, Unique
  <1> QED
    BY <1>1, <1>2, StagesSame

\* A result or an error is handled: its id leaves stdout and is pending no more.
LEMMA CarrierSettle ==
  ASSUME TypeOK, CarrierInv, Taken, IsResult(Head(stdout)), NEW how, Settle(how),
         UNCHANGED <<stdin, phase, serverOpen, cdpToBridge, toChild, atServer, unsent, browser>>,
         browser # "gone"
  PROVE  CarrierInv'
  <1> DEFINE b == Head(stdout).bridgeId
  <1>1. DistinctResults' /\ ResultIds = ResultIds' \cup {b} /\ b \notin ResultIds'
    BY ResultsTaken DEF CarrierInv, Unique
  <1>2. /\ SentIds' = SentIds /\ ReplyIds' = ReplyIds /\ CommandIds' = CommandIds
        /\ DistinctSends' /\ DistinctCommands' /\ DistinctReplies'
    BY StdinSame, SocketSame DEF CommandIds, DistinctCommands, CarrierInv, Unique
  <1>3. /\ b \notin DOMAIN pending'
        /\ \A x \in DOMAIN pending' : x \in DOMAIN pending /\ pending'[x] = pending[x]
    BY DEF Settle, Drop, Restrict
  <1> HIDE DEF b
  <1>4. Unique'
    BY <1>1, <1>2 DEF CarrierInv, Unique
  <1>5. \A x : Carried(x) /\ x # b => Carried(x)'
    BY <1>1, <1>2 DEF Carried
  <1>6. Kept'
    BY <1>3, <1>5 DEF CarrierInv, Kept
  <1>7. NoneEarly'
    BY <1>3 DEF CarrierInv, NoneEarly
  <1> QED
    BY <1>4, <1>6, <1>7 DEF CarrierInv

LEMMA CarrierNode == TypeOK /\ CallInv /\ CarrierInv /\ NodeNext => CarrierInv'
  <1> SUFFICES ASSUME TypeOK, CallInv, CarrierInv, NodeNext PROVE CarrierInv'
    OBVIOUS
  <1> USE DEF nodeVars, callVars, viewVars, childVars, wireVars, serverVars
  <1>0. UNCHANGED <<phase, serverOpen, cdpToBridge, toChild, atServer, unsent>>
    BY DEF NodeNext, NodeHandles, TakeLine, Send, SendRefused, NewSession, Close, NodeGone,
           OnExit, HandleReady, HandleFatal, HandleResult, HandleError, HandleEvent,
           HandlePages, HandleClosed
  <1>a. /\ ReplyIds' = ReplyIds /\ CommandIds' = CommandIds
        /\ DistinctReplies' /\ DistinctCommands'
    BY <1>0, SocketSame DEF CommandIds, DistinctCommands, CarrierInv, Unique
  <1>b. ASSUME UNCHANGED <<stdin, stdout>>, DOMAIN pending' \subseteq DOMAIN pending,
               \A b \in DOMAIN pending' : pending'[b] = pending[b], browser # "gone",
               browser' \in {"waiting", "failed"} => browser \in {"waiting", "failed"}
        PROVE  CarrierInv'
    <2>1. /\ SentIds' = SentIds /\ ResultIds' = ResultIds
          /\ DistinctSends' /\ DistinctResults'
      BY <1>b, StdinSame, StdoutSame DEF CarrierInv, Unique
    <2> QED
      BY <1>0, <1>a, <1>b, <2>1, StagesSame
  <1>c. ASSUME NEW type, type \notin {"result", "error"}, TakeLine(type),
               DOMAIN pending' \subseteq DOMAIN pending,
               \A b \in DOMAIN pending' : pending'[b] = pending[b],
               browser' \in {"waiting", "failed"} => browser \in {"waiting", "failed"}
        PROVE  CarrierInv'
    <2>1. Taken /\ ~IsResult(Head(stdout)) /\ browser # "gone" /\ stdin' = stdin
      BY <1>c DEF TakeLine, Taken, IsResult
    <2> QED
      BY <1>0, <1>c, <2>1, CarrierTaken
  <1>1. ASSUME NEW p \in Promises, Send(p) PROVE CarrierInv'
    BY <1>1, CarrierSend
  <1>2. ASSUME NEW p \in Promises, SendRefused(p) PROVE CarrierInv'
    BY <1>2, <1>b DEF SendRefused
  <1>3. ASSUME NEW t \in Targets, NewSession(t) PROVE CarrierInv'
    BY <1>3, <1>b DEF NewSession
  <1>4. CASE Close
    <2>1. [op |-> "close"] \in Op /\ [op |-> "close"].op # "send"
      BY DEF Op
    <2>2. stdin' = Append(stdin, [op |-> "close"]) /\ UNCHANGED <<stdout, browser>>
            /\ DOMAIN pending' = {}
      BY <1>4 DEF Close, RejectPending
    <2>3. DistinctSends' /\ SentIds' = SentIds
      BY <2>1, <2>2, SendsAppended DEF CarrierInv, Unique
    <2>4. ResultIds' = ResultIds /\ DistinctResults'
      BY <2>2, StdoutSame DEF CarrierInv, Unique
    <2> QED
      BY <1>0, <1>a, <2>2, <2>3, <2>4, StagesSame
  <1>5. CASE NodeGone
    <2>1. stdin' = stdin /\ browser' = "gone" /\ stdout' = << >>
      BY <1>5 DEF NodeGone
    <2>2. SentIds' = SentIds /\ DistinctSends'
      BY <2>1, StdinSame DEF CarrierInv, Unique
    <2>3. Results' = {}
      BY <2>1 DEF Results
    <2>4. ResultIds' = {} /\ DistinctResults'
      BY <2>3 DEF ResultIds, DistinctResults
    <2>5. Unique'
      BY <1>0, <1>a, <2>2, <2>4 DEF CarrierInv, Unique
    <2> QED
      BY <2>1, <2>5 DEF CarrierInv, Kept, NoneEarly
  <1>6. CASE OnExit
    <2>1. /\ UNCHANGED <<stdin, stdout>> /\ browser # "gone" /\ DOMAIN pending' = {}
          /\ browser' \in {"waiting", "failed"} => browser \in {"waiting", "failed"}
      BY <1>6 DEF OnExit, RejectPending
    <2> QED
      BY <1>b, <2>1
  <1>7. CASE HandleReady
    <2>1. TakeLine("ready") /\ UNCHANGED pending
            /\ (browser' \in {"waiting", "failed"} => browser \in {"waiting", "failed"})
      BY <1>7 DEF HandleReady
    <2> QED
      BY <1>c, <2>1
  <1>8. CASE HandleFatal
    <2>1. TakeLine("fatal") /\ UNCHANGED pending
            /\ (browser' \in {"waiting", "failed"} => browser \in {"waiting", "failed"})
      BY <1>8 DEF HandleFatal
    <2> QED
      BY <1>c, <2>1
  <1>9. CASE HandleEvent
    BY <1>9, <1>c DEF HandleEvent
  <1>10. CASE HandlePages
    BY <1>10, <1>c DEF HandlePages
  <1>11. CASE HandleClosed
    <2>1. TakeLine("closed") /\ UNCHANGED browser /\ DOMAIN pending' = {}
      BY <1>11 DEF HandleClosed, RejectPending
    <2> QED
      BY <1>c, <2>1
  <1>12. CASE HandleResult
    <2>1. Taken /\ IsResult(Head(stdout)) /\ Settle("resolved") /\ UNCHANGED <<stdin, browser>>
            /\ browser # "gone"
      BY <1>12 DEF HandleResult, TakeLine, Taken, IsResult
    <2> QED
      BY <1>0, <2>1, CarrierSettle
  <1>13. CASE HandleError
    <2>1. Taken /\ IsResult(Head(stdout)) /\ Settle("rejected") /\ UNCHANGED <<stdin, browser>>
            /\ browser # "gone"
      BY <1>13 DEF HandleError, TakeLine, Taken, IsResult
    <2> QED
      BY <1>0, <2>1, CarrierSettle
  <1> QED
    BY <1>1, <1>2, <1>3, <1>4, <1>5, <1>6, <1>7, <1>8, <1>9, <1>10, <1>11, <1>12, <1>13
    DEF NodeNext, NodeHandles

\* A step that at most takes ids away from the stages.
LEMMA UniqueShrinks ==
  ASSUME Unique, DistinctSends', DistinctCommands', DistinctReplies', DistinctResults',
         IsInjective(cdpToBridge'), Range(cdpToBridge') \subseteq Range(cdpToBridge),
         SentIds' \subseteq SentIds, ResultIds' \subseteq ResultIds,
         CommandIds' \subseteq CommandIds, ReplyIds' \subseteq ReplyIds
  PROVE  Unique'
  BY DEF Unique

LEMMA CommandsSame ==
  ASSUME UNCHANGED atServer
  PROVE  CommandIds' = CommandIds /\ (DistinctCommands' <=> DistinctCommands)
  BY DEF CommandIds, DistinctCommands

\* A line about no call is printed.
LEMMA PlainLine ==
  ASSUME TypeOK, DistinctResults, NEW l \in Line, ~IsResult(l), Emit(<<l>>)
  PROVE  DistinctResults' /\ ResultIds' = ResultIds
  <1>1. UNCHANGED stdout \/ Printed(l)
    BY EmitOne
  <1> QED
    BY <1>1, ResultsPrinted, StdoutSame

\* The child is not in its loop after the step: no id is given out or moved.
LEMMA CarrierStopped ==
  ASSUME CarrierInv, phase' # "running",
         DistinctSends', DistinctCommands', DistinctReplies', DistinctResults',
         UNCHANGED <<cdpToBridge, browser, pending>>,
         SentIds' \subseteq SentIds, ResultIds' \subseteq ResultIds,
         CommandIds' \subseteq CommandIds, ReplyIds' \subseteq ReplyIds
  PROVE  CarrierInv'
  <1>1. Unique'
    BY UniqueShrinks DEF CarrierInv, Unique
  <1> QED
    BY <1>1 DEF CarrierInv, Kept, NoneEarly

\* A send op is read: its bridgeId leaves stdin for the map, under a fresh CDP id.
LEMMA CarrierReadSend ==
  ASSUME TypeOK, CallInv, CarrierInv, ReadSend
  PROVE  CarrierInv'
  <1> USE DEF nodeVars, callVars, viewVars, childVars, wireVars, serverVars
  <1> DEFINE o == Head(stdin)
  <1>1. /\ stdin # << >> /\ stdin' = Tail(stdin) /\ o.op = "send"
        /\ UNCHANGED <<stdout, toChild, pending, phase, serverOpen, browser>>
    BY DEF ReadSend
  <1>2. o \in Range(stdin) /\ o \in Op
    BY <1>1, RangeTail, HeadTail DEF TypeOK
  <1>3. PICK b, p : /\ b = o.bridgeId /\ p = o.body /\ b \in Nat /\ Stands(b, p)
    BY <1>1, <1>2, OpFields DEF CallInv, StdinOK
  <1>4. PICK n \in Nat : n = lastId + 1 /\ lastId \in Nat /\ n > lastId
    BY DEF TypeOK
  <1>5. cdpToBridge' = Put(cdpToBridge, n, b) /\ Transmit(n, p)
    BY <1>3, <1>4 DEF ReadSend
  <1>6. /\ DistinctSends' /\ SentIds = SentIds' \cup {b} /\ b \notin SentIds'
    BY <1>1, <1>3, SendsRead DEF CarrierInv, Unique
  <1> HIDE DEF o
  <1>7. /\ ResultIds' = ResultIds /\ ReplyIds' = ReplyIds /\ DistinctResults' /\ DistinctReplies'
    BY <1>1, StdoutSame, SocketSame DEF CarrierInv, Unique
  <1>8. n \notin DOMAIN cdpToBridge /\ n \notin CommandIds /\ n \notin ReplyIds
    BY <1>4, IdsBounded
  <1>9. b \notin Range(cdpToBridge) /\ b \notin ResultIds
    BY <1>6 DEF CarrierInv, Unique
  <1>10. /\ DOMAIN cdpToBridge' = DOMAIN cdpToBridge \cup {n} /\ cdpToBridge'[n] = b
         /\ \A i \in DOMAIN cdpToBridge : i # n /\ cdpToBridge'[i] = cdpToBridge[i]
    BY <1>5, <1>8 DEF Put
  <1>11. /\ IsInjective(cdpToBridge')
         /\ \A x \in Range(cdpToBridge') : x = b \/ x \in Range(cdpToBridge)
    <2>1. IsInjective(cdpToBridge)
      BY DEF CarrierInv, Unique
    <2>2. \A i \in DOMAIN cdpToBridge : cdpToBridge[i] # b
      BY <1>9 DEF Range
    <2>3. IsInjective(cdpToBridge')
      BY <1>10, <2>1, <2>2 DEF IsInjective
    <2>4. \A x \in Range(cdpToBridge') : x = b \/ x \in Range(cdpToBridge)
      BY <1>10 DEF Range
    <2> QED
      BY <2>3, <2>4
  <1> DEFINE c == [id |-> n, body |-> p]
  <1>12. c.id = n
    OBVIOUS
  <1>13. \/ atServer' = atServer \cup {c} /\ unsent' = unsent
         \/ atServer' = atServer /\ unsent' = unsent \cup {p}
    BY <1>5 DEF Transmit
  <1> HIDE DEF c
  <1>14. /\ \A x \in CommandIds' : x = n \/ x \in CommandIds
         /\ \A x \in CommandIds : x \in CommandIds'
         /\ DistinctCommands'
    <2>1. \A x \in CommandIds' : x = n \/ x \in CommandIds
      BY <1>12, <1>13 DEF CommandIds
    <2>2. \A x \in CommandIds : x \in CommandIds'
      BY <1>13 DEF CommandIds
    <2>3. \A d \in atServer : d.id # n
      BY <1>8 DEF CommandIds
    <2>4. DistinctCommands
      BY DEF CarrierInv, Unique
    <2>5. DistinctCommands'
      BY <1>12, <1>13, <2>3, <2>4 DEF DistinctCommands
    <2> QED
      BY <2>1, <2>2, <2>5
  <1>15. Unique'
    <2>1. \A x \in SentIds' : x \in SentIds /\ x # b
      BY <1>6
    <2> QED
      BY <1>6, <1>7, <1>8, <1>9, <1>11, <1>14, <2>1 DEF CarrierInv, Unique
  <1>16. Kept'
    <2>1. \A x : Carried(x) /\ x # b => Carried(x)'
      BY <1>6, <1>7, <1>10, <1>14 DEF Carried
    <2>2. b \in DOMAIN pending => pending[b] \in unsent' \/ Carried(b)'
      <3>1. CASE atServer' = atServer \cup {c}
        <4>1. n \in CommandIds'
          BY <1>12, <3>1 DEF CommandIds
        <4> QED
          BY <1>10, <4>1 DEF Carried
      <3>2. CASE unsent' = unsent \cup {p}
        BY <1>3, <3>2 DEF Stands
      <3> QED
        BY <1>13, <3>1, <3>2
    <2> QED
      BY <1>1, <1>13, <2>1, <2>2 DEF CarrierInv, Kept
  <1>17. NoneEarly'
    BY <1>1 DEF CarrierInv, NoneEarly
  <1> QED
    BY <1>15, <1>16, <1>17 DEF CarrierInv

\* A reply is taken off the socket: its CDP id is given up, in exchange for a line.
LEMMA ReplyRead ==
  ASSUME TypeOK, CarrierInv, NEW m, m = Head(toChild), m.kind = "reply", Read,
         cdpToBridge' = Drop(cdpToBridge, m.id), UNCHANGED <<stdin, atServer>>
  PROVE  /\ DistinctReplies' /\ ReplyIds = ReplyIds' \cup {m.id} /\ m.id \notin ReplyIds'
         /\ DOMAIN cdpToBridge' = DOMAIN cdpToBridge \ {m.id}
         /\ \A i \in DOMAIN cdpToBridge' : cdpToBridge'[i] = cdpToBridge[i]
         /\ IsInjective(cdpToBridge')
         /\ \A x \in Range(cdpToBridge') : x \in Range(cdpToBridge)
         /\ m.id \in DOMAIN cdpToBridge =>
              /\ cdpToBridge[m.id] \in Range(cdpToBridge)
              /\ cdpToBridge[m.id] \notin Range(cdpToBridge')
         /\ SentIds' = SentIds /\ CommandIds' = CommandIds
         /\ DistinctSends' /\ DistinctCommands'
  <1>1. DistinctReplies' /\ ReplyIds = ReplyIds' \cup {m.id} /\ m.id \notin ReplyIds'
    BY RepliesRead DEF CarrierInv, Unique
  <1>2. /\ DOMAIN cdpToBridge' = DOMAIN cdpToBridge \ {m.id}
        /\ \A i \in DOMAIN cdpToBridge' : cdpToBridge'[i] = cdpToBridge[i]
    BY DEF Drop, Restrict
  <1>3. IsInjective(cdpToBridge)
    BY DEF CarrierInv, Unique
  <1>4. IsInjective(cdpToBridge')
    BY <1>2, <1>3 DEF IsInjective
  <1>5. \A x \in Range(cdpToBridge') : x \in Range(cdpToBridge)
    BY <1>2 DEF Range
  <1>6. m.id \in DOMAIN cdpToBridge => /\ cdpToBridge[m.id] \in Range(cdpToBridge)
                                       /\ cdpToBridge[m.id] \notin Range(cdpToBridge')
    BY <1>2, <1>3 DEF Range, IsInjective
  <1>7. /\ SentIds' = SentIds /\ CommandIds' = CommandIds
        /\ DistinctSends' /\ DistinctCommands'
    BY StdinSame, CommandsSame DEF CarrierInv, Unique
  <1> QED
    BY <1>1, <1>2, <1>4, <1>5, <1>6, <1>7

LEMMA CarrierPollReply ==
  ASSUME TypeOK, CallInv, CarrierInv, Poll, Head(toChild).kind = "reply"
  PROVE  CarrierInv'
  <1> USE DEF nodeVars, callVars, viewVars, childVars, wireVars, serverVars
  <1>1. PICK m : m = Head(toChild)
    OBVIOUS
  <1>2. /\ m.kind = "reply" /\ m \in Message /\ Read /\ Emit(LinesOf(m))
        /\ cdpToBridge' = Drop(cdpToBridge, m.id)
        /\ UNCHANGED <<stdin, atServer, unsent, pending, phase, serverOpen, browser>>
    BY <1>1, TailAt DEF Poll, Route, Read, TypeOK
  <1>3. /\ DistinctReplies' /\ ReplyIds = ReplyIds' \cup {m.id} /\ m.id \notin ReplyIds'
        /\ DOMAIN cdpToBridge' = DOMAIN cdpToBridge \ {m.id}
        /\ \A i \in DOMAIN cdpToBridge' : cdpToBridge'[i] = cdpToBridge[i]
        /\ IsInjective(cdpToBridge')
        /\ \A x \in Range(cdpToBridge') : x \in Range(cdpToBridge)
        /\ SentIds' = SentIds /\ CommandIds' = CommandIds
        /\ DistinctSends' /\ DistinctCommands'
    BY <1>1, <1>2, ReplyRead
  <1>4. m.id \in DOMAIN cdpToBridge => /\ cdpToBridge[m.id] \in Range(cdpToBridge)
                                       /\ cdpToBridge[m.id] \notin Range(cdpToBridge')
    BY <1>1, <1>2, ReplyRead
  <1>5. NoneEarly'
    BY <1>2 DEF CarrierInv, NoneEarly
  <1>6. CASE m.id \notin DOMAIN cdpToBridge \/ browser = "gone"
    <2>1. UNCHANGED stdout
      BY <1>2, <1>6 DEF LinesOf, ReplyLines, Emit
    <2>2. ResultIds' = ResultIds /\ DistinctResults'
      BY <2>1, StdoutSame DEF CarrierInv, Unique
    <2>3. Unique'
      BY <1>3, <2>2, UniqueShrinks DEF CarrierInv
    <2>4. m.id \notin DOMAIN cdpToBridge => \A x : Carried(x) => Carried(x)'
      BY <1>3, <2>2 DEF Carried
    <2>5. Kept'
      BY <1>2, <1>6, <2>4 DEF CarrierInv, Kept
    <2> QED
      BY <1>5, <2>3, <2>5 DEF CarrierInv
  <1>7. CASE m.id \in DOMAIN cdpToBridge /\ browser # "gone"
    <2>1. PICK b : b = cdpToBridge[m.id]
      OBVIOUS
    <2>2. PICK l \in Line : LinesOf(m) = <<l>> /\ IsResult(l) /\ l.bridgeId = b
      <3>1. LinesOf(m) # << >>
        BY <1>2, <1>7 DEF LinesOf, ReplyLines
      <3> QED
        BY <1>2, <1>7, <2>1, <3>1, LinesOfShape DEF IsResult
    <2>3. Printed(l)
      BY <1>2, <1>7, <2>2, EmitOne
    <2>4. b \notin ResultIds /\ b \notin SentIds /\ b \notin Range(cdpToBridge')
      BY <1>4, <1>7, <2>1 DEF CarrierInv, Unique
    <2>5. DistinctResults' /\ ResultIds' = ResultIds \cup {b}
      BY <2>2, <2>3, <2>4, ResultsPrinted DEF CarrierInv, Unique
    <2>6. Unique'
      BY <1>3, <2>4, <2>5 DEF CarrierInv, Unique
    <2>7. \A x : Carried(x) => Carried(x)'
      BY <1>3, <2>1, <2>5 DEF Carried
    <2>8. Kept'
      BY <1>2, <2>7 DEF CarrierInv, Kept
    <2> QED
      BY <1>5, <2>6, <2>8 DEF CarrierInv
  <1> QED
    BY <1>6, <1>7

\* Another message is taken off the socket; what it becomes is about no call.
LEMMA CarrierPollOther ==
  ASSUME TypeOK, CallInv, CarrierInv, Poll, Head(toChild).kind # "reply"
  PROVE  CarrierInv'
  <1> USE DEF nodeVars, callVars, viewVars, childVars, wireVars, serverVars
  <1>1. PICK m : m = Head(toChild)
    OBVIOUS
  <1>2. /\ m.kind # "reply" /\ m \in Message /\ Read /\ Emit(LinesOf(m))
        /\ UNCHANGED <<stdin, atServer, cdpToBridge, unsent, pending, phase, serverOpen, browser>>
    BY <1>1, TailAt DEF Poll, Route, Read, TypeOK
  <1>3. DistinctReplies' /\ ReplyIds' = ReplyIds
    BY <1>1, <1>2, RepliesRead DEF CarrierInv, Unique
  <1>4. SentIds' = SentIds /\ DistinctSends'
    BY <1>2, StdinSame DEF CarrierInv, Unique
  <1>5. ResultIds' = ResultIds /\ DistinctResults'
    <2>1. CASE LinesOf(m) = << >>
      <3>1. UNCHANGED stdout
        BY <1>2, <2>1 DEF Emit
      <3> QED
        BY <3>1, StdoutSame DEF CarrierInv, Unique
    <2>2. ASSUME NEW l \in Line, LinesOf(m) = <<l>>, ~IsResult(l)
          PROVE  ResultIds' = ResultIds /\ DistinctResults'
      BY <1>2, <2>2, PlainLine DEF CarrierInv, Unique
    <2>3. LinesOf(m) = << >> \/ \E l \in Line : LinesOf(m) = <<l>> /\ ~IsResult(l)
      BY <1>2, LinesOfShape DEF IsResult
    <2> QED
      BY <2>1, <2>2, <2>3
  <1> QED
    BY <1>2, <1>3, <1>4, <1>5, StagesSame

LEMMA CarrierChild == TypeOK /\ CallInv /\ Boot /\ CarrierInv /\ ChildNext => CarrierInv'
  <1> SUFFICES ASSUME TypeOK, CallInv, Boot, CarrierInv, ChildNext PROVE CarrierInv'
    OBVIOUS
  <1> USE DEF nodeVars, callVars, viewVars, childVars, wireVars, serverVars
  <1>0. UNCHANGED <<browser, pending>>
    BY DEF ChildNext, Connect, HandshakeBegin, HandshakePoll, HandshakeDone, HandshakeFailed,
           ReadSend, ReadClose, Poll, PollClosed, Exit
  <1>a. /\ DistinctSends /\ DistinctCommands /\ DistinctReplies /\ DistinctResults
        /\ UNCHANGED stdin => DistinctSends' /\ SentIds' = SentIds
        /\ UNCHANGED stdout => DistinctResults' /\ ResultIds' = ResultIds
        /\ UNCHANGED toChild => DistinctReplies' /\ ReplyIds' = ReplyIds
        /\ UNCHANGED atServer => DistinctCommands' /\ CommandIds' = CommandIds
    BY StdinSame, StdoutSame, SocketSame, CommandsSame DEF CarrierInv, Unique
  <1> DEFINE fatal  == [type |-> "fatal"]
             closed == [type |-> "closed"]
             ready  == [type |-> "ready", pages |-> pages]
  <1>b. /\ fatal \in Line /\ closed \in Line /\ ready \in Line
        /\ ~IsResult(fatal) /\ ~IsResult(closed) /\ ~IsResult(ready)
    BY DEF Line, TypeOK, IsResult
  <1> HIDE DEF fatal, closed, ready
  <1>c. Emit(<<fatal>>) \/ Emit(<<closed>>) \/ Emit(<<ready>>) =>
          DistinctResults' /\ ResultIds' = ResultIds
    BY <1>a, <1>b, PlainLine
  <1>d. toChild' = << >> => DistinctReplies' /\ ReplyIds' = {}
    <2>1. toChild' = << >> => Replies' = {}
      BY DEF Replies
    <2> QED
      BY <2>1 DEF DistinctReplies, ReplyIds
  <1>1. CASE Connect
    <2>1. /\ UNCHANGED <<stdin, cdpToBridge, toChild, atServer>> /\ phase' # "running"
          /\ UNCHANGED stdout \/ Emit(<<fatal>>)
      BY <1>1 DEF Connect, fatal
    <2> QED
      BY <1>0, <1>a, <1>c, <2>1, CarrierStopped
  <1>2. CASE HandshakeBegin
    <2>1. /\ UNCHANGED <<stdin, cdpToBridge, toChild>> /\ phase' # "running"
          /\ UNCHANGED stdout \/ Emit(<<fatal>>)
      BY <1>2 DEF HandshakeBegin, fatal
    <2>2. CASE UNCHANGED atServer
      BY <1>0, <1>a, <1>c, <2>1, <2>2, CarrierStopped
    <2>3. CASE atServer' = atServer \cup {[id |-> lastId + i, body |-> NoPromise] : i \in {1, 2}}
      <3>1. lastId \in Nat
        BY DEF TypeOK
      <3>2. \A d \in atServer' : \/ d \in atServer
                                 \/ d = [id |-> lastId + 1, body |-> NoPromise]
                                 \/ d = [id |-> lastId + 2, body |-> NoPromise]
        BY <2>3
      <3>3. \A d \in atServer' : d \in atServer \/ d.id \in {lastId + 1, lastId + 2}
        BY <3>2
      <3>4. \A d \in atServer : d.id \in Nat /\ d.id <= lastId
        BY IdsBounded DEF CommandIds
      <3>5. DistinctCommands'
        BY <1>a, <3>1, <3>2, <3>4 DEF DistinctCommands
      <3>6. \A x \in CommandIds' : x \in CommandIds \/ x \in {lastId + 1, lastId + 2}
        BY <3>3 DEF CommandIds
      <3>7. \A x \in ReplyIds : x \in Nat /\ x <= lastId
        BY IdsBounded
      <3>8. \A x \in CommandIds' : x \notin ReplyIds
        BY <3>1, <3>6, <3>7 DEF CarrierInv, Unique
      <3>9. /\ DistinctSends' /\ DistinctReplies' /\ DistinctResults'
            /\ SentIds' = SentIds /\ ReplyIds' = ReplyIds /\ ResultIds' = ResultIds
        BY <1>a, <1>c, <2>1
      <3>10. Unique'
        BY <2>1, <3>5, <3>8, <3>9 DEF CarrierInv, Unique
      <3> QED
        BY <1>0, <2>1, <3>10 DEF CarrierInv, Kept, NoneEarly
    <2> QED
      BY <1>2, <2>2, <2>3 DEF HandshakeBegin
  <1>3. CASE HandshakePoll
    <2>1. PICK m : m = Head(toChild)
      OBVIOUS
    <2>2. /\ UNCHANGED <<stdin, stdout, atServer>> /\ phase' # "running" /\ Read
          /\ cdpToBridge' = IF m.kind = "reply" THEN Drop(cdpToBridge, m.id) ELSE cdpToBridge
      BY <1>3, <2>1 DEF HandshakePoll, Route, Read
    <2>3. CASE m.kind = "reply"
      <3>1. /\ DistinctReplies' /\ ReplyIds' \subseteq ReplyIds /\ IsInjective(cdpToBridge')
            /\ Range(cdpToBridge') \subseteq Range(cdpToBridge)
        BY <2>1, <2>2, <2>3, ReplyRead
      <3>2. Unique'
        BY <1>a, <2>2, <3>1, UniqueShrinks DEF CarrierInv
      <3> QED
        BY <1>0, <2>2, <3>2 DEF CarrierInv, Kept, NoneEarly
    <2>4. CASE m.kind # "reply"
      <3>1. DistinctReplies' /\ ReplyIds' = ReplyIds
        BY <1>a, <2>1, <2>2, <2>4, RepliesRead
      <3> QED
        BY <1>0, <1>a, <2>2, <2>4, <3>1, CarrierStopped
    <2> QED
      BY <2>3, <2>4
  <1>4. CASE HandshakeDone
    <2>1. UNCHANGED <<stdin, cdpToBridge, toChild, atServer>> /\ phase = "handshake" /\ Emit(<<ready>>)
      BY <1>4 DEF HandshakeDone, ready
    <2>2. /\ DistinctSends' /\ DistinctReplies' /\ DistinctResults' /\ DistinctCommands'
          /\ SentIds' = SentIds /\ ReplyIds' = ReplyIds /\ ResultIds' = ResultIds
          /\ CommandIds' = CommandIds
      BY <1>a, <1>c, <2>1
    <2>3. Unique'
      BY <2>1, <2>2 DEF CarrierInv, Unique
    <2>4. browser # "gone" => DOMAIN pending = {}
      BY <2>1 DEF Boot, Before, CarrierInv, NoneEarly
    <2>5. Kept'
      BY <1>0, <2>4 DEF Kept
    <2> QED
      BY <1>0, <2>3, <2>5 DEF CarrierInv, NoneEarly
  <1>5. CASE HandshakeFailed
    <2>1. /\ UNCHANGED <<stdin, cdpToBridge, atServer>> /\ phase' # "running"
          /\ UNCHANGED toChild \/ toChild' = << >>
          /\ Emit(<<fatal>>)
      BY <1>5 DEF HandshakeFailed, fatal
    <2> QED
      BY <1>0, <1>a, <1>c, <1>d, <2>1, CarrierStopped
  <1>6. CASE ReadSend
    BY <1>6, CarrierReadSend
  <1>7. CASE ReadClose
    <2>1. /\ UNCHANGED <<stdout, cdpToBridge, toChild, atServer>> /\ phase' # "running"
          /\ UNCHANGED stdin \/ (stdin # << >> /\ stdin' = Tail(stdin))
      BY <1>7 DEF ReadClose
    <2>2. DistinctSends' /\ SentIds' \subseteq SentIds
      BY <1>a, <2>1, SendsRead
    <2> QED
      BY <1>0, <1>a, <2>1, <2>2, CarrierStopped
  <1>8. CASE Poll
    BY <1>8, CarrierPollReply, CarrierPollOther
  <1>9. CASE PollClosed
    <2>1. /\ UNCHANGED <<stdin, cdpToBridge, atServer>> /\ phase' # "running"
          /\ Read /\ Emit(<<closed>>)
      BY <1>9 DEF PollClosed, Read, closed
    <2>2. DistinctReplies' /\ ReplyIds' \subseteq ReplyIds
      BY <1>a, <2>1, RepliesRead
    <2> QED
      BY <1>0, <1>a, <1>c, <2>1, <2>2, CarrierStopped
  <1>10. CASE Exit
    <2>1. /\ UNCHANGED <<stdin, stdout, cdpToBridge>> /\ phase' # "running"
          /\ toChild' = << >> /\ atServer' = {}
      BY <1>10 DEF Exit
    <2>2. DistinctCommands' /\ CommandIds' = {}
      BY <2>1 DEF DistinctCommands, CommandIds
    <2> QED
      BY <1>0, <1>a, <1>d, <2>1, <2>2, CarrierStopped
  <1> QED
    BY <1>1, <1>2, <1>3, <1>4, <1>5, <1>6, <1>7, <1>8, <1>9, <1>10 DEF ChildNext

LEMMA CarrierServer == TypeOK /\ CallInv /\ CarrierInv /\ ServerNext => CarrierInv'
  <1> SUFFICES ASSUME TypeOK, CallInv, CarrierInv, ServerNext PROVE CarrierInv'
    OBVIOUS
  <1>0. UNCHANGED <<browser, pending, stdin, stdout, phase, cdpToBridge, unsent>>
    BY ServerFrames
  <1>a. /\ DistinctSends' /\ DistinctResults' /\ SentIds' = SentIds /\ ResultIds' = ResultIds
    BY <1>0, StdinSame, StdoutSame DEF CarrierInv, Unique
  <1>b. ASSUME NEW m \in Message, m.kind # "reply", Arrived(m), UNCHANGED atServer,
               serverOpen' => serverOpen
        PROVE  CarrierInv'
    <2>1. DistinctReplies' /\ ReplyIds' = ReplyIds
      BY <1>b, RepliesArrived DEF CarrierInv, Unique
    <2> QED
      BY <1>0, <1>a, <1>b, <2>1, StagesSame
  <1>1. ASSUME NEW c \in atServer, Reply(c) PROVE CarrierInv'
    <2>1. PICK ok \in BOOLEAN :
            Push([kind |-> "reply", id |-> c.id, ok |-> ok, body |-> c.body])
      BY <1>1 DEF Reply
    <2> DEFINE m == [kind |-> "reply", id |-> c.id, ok |-> ok, body |-> c.body]
    <2>2. m \in Message /\ m.kind = "reply" /\ m.id = c.id
      BY DEF TypeOK, Command, Message
    <2>3. Arrived(m)
      BY <2>1 DEF Push, Arrived
    <2> HIDE DEF m
    <2>4. atServer' = atServer \ {c} /\ serverOpen' = serverOpen
      BY <1>1 DEF Reply, ServerLeaves
    <2>5. c.id \in CommandIds /\ c.id \notin ReplyIds
      <3>1. c.id \in CommandIds
        BY DEF CommandIds
      <3> QED
        BY <3>1 DEF CarrierInv, Unique
    <2>6. DistinctReplies' /\ ReplyIds' = ReplyIds \cup {c.id}
      BY <2>2, <2>3, <2>5, RepliesArrived DEF CarrierInv, Unique
    <2>7. /\ \A x \in CommandIds' : x \in CommandIds /\ x # c.id
          /\ \A x \in CommandIds : x # c.id => x \in CommandIds'
          /\ DistinctCommands'
      BY <2>4 DEF CarrierInv, Unique, DistinctCommands, CommandIds
    <2>8. Unique'
      BY <1>0, <1>a, <2>6, <2>7 DEF CarrierInv, Unique
    <2>9. \A x : Carried(x) => Carried(x)'
      BY <1>0, <1>a, <2>6, <2>7 DEF Carried
    <2>10. Kept' /\ NoneEarly'
      BY <1>0, <2>4, <2>9 DEF CarrierInv, Kept, NoneEarly
    <2> QED
      BY <2>8, <2>10 DEF CarrierInv
  <1>2. ASSUME NEW t \in Targets, NEW s \in Sessions, Attach(t, s) PROVE CarrierInv'
    <2>1. PICK page \in BOOLEAN :
            Push([kind |-> "attached", target |-> t, session |-> s, page |-> page])
      BY <1>2 DEF Attach
    <2>2. [kind |-> "attached", target |-> t, session |-> s, page |-> page] \in Message
      BY DEF Message
    <2>3. UNCHANGED <<atServer, serverOpen>>
      BY <1>2 DEF Attach, ServerLeaves
    <2> QED
      BY <1>b, <2>1, <2>2, <2>3 DEF Push, Arrived
  <1>3. ASSUME NEW t \in Targets, Detach(t) PROVE CarrierInv'
    <2>1. PICK m \in Message : m.kind # "reply" /\ Push(m)
      BY <1>3 DEF Detach, TypeOK, PageMap, Message
    <2>2. UNCHANGED <<atServer, serverOpen>>
      BY <1>3 DEF Detach, ServerLeaves
    <2> QED
      BY <1>b, <2>1, <2>2 DEF Push, Arrived
  <1>4. ASSUME NEW s \in Sessions, EmitEvent(s) PROVE CarrierInv'
    <2>1. emitted'[s] \in Nat
      BY <1>4 DEF EmitEvent, TypeOK
    <2>2. [kind |-> "event", session |-> s, n |-> emitted'[s]] \in Message
      BY <2>1 DEF Message
    <2>3. UNCHANGED <<atServer, serverOpen>>
      BY <1>4 DEF EmitEvent, ServerLeaves
    <2> QED
      BY <1>4, <1>b, <2>2, <2>3 DEF EmitEvent, Push, Arrived
  <1>5. ASSUME Hangup PROVE CarrierInv'
    <2>1. [kind |-> "close"] \in Message /\ [kind |-> "close"].kind # "reply"
      BY DEF Message
    <2>2. UNCHANGED atServer /\ ~serverOpen' /\ Arrived([kind |-> "close"])
      BY <1>5 DEF Hangup, wireVars, Arrived
    <2> QED
      BY <1>b, <2>1, <2>2
  <1> QED
    BY <1>1, <1>2, <1>3, <1>4, <1>5 DEF ServerNext

LEMMA CarrierKept ==
  TypeOK /\ CallInv /\ Boot /\ CarrierInv /\ [Next]_vars => CarrierInv'
  <1>1. CarrierInv /\ UNCHANGED vars => CarrierInv'
    <2> SUFFICES ASSUME CarrierInv, UNCHANGED vars PROVE CarrierInv'
      OBVIOUS
    <2>1. UNCHANGED <<browser, pending, stdin, stdout, phase, cdpToBridge, unsent, toChild,
                      atServer, serverOpen>>
      BY DEF vars, nodeVars, callVars, childVars, wireVars, serverVars
    <2>2. /\ DistinctSends' /\ DistinctReplies' /\ DistinctResults'
          /\ SentIds' = SentIds /\ ReplyIds' = ReplyIds /\ ResultIds' = ResultIds
      BY <2>1, StdinSame, StdoutSame, SocketSame DEF CarrierInv, Unique
    <2> QED
      BY <2>1, <2>2, StagesSame
  <1> QED
    BY <1>1, CarrierNode, CarrierChild, CarrierServer DEF Next

LEMMA CarrierCorrect == Spec => []CarrierInv
  <1>1. Init => CarrierInv
    <2> SUFFICES ASSUME Init PROVE CarrierInv
      OBVIOUS
    <2>1. Sends = {} /\ Replies = {} /\ Results = {} /\ atServer = {}
      BY DEF Init, Sends, Replies, Results
    <2>2. DOMAIN pending = {} /\ DOMAIN cdpToBridge = {} /\ phase # "running"
      BY DEF Init
    <2>3. IsInjective(cdpToBridge)
      BY <2>2 DEF IsInjective
    <2>4. SentIds = {} /\ ResultIds = {} /\ CommandIds = {} /\ ReplyIds = {}
      BY <2>1 DEF SentIds, ResultIds, CommandIds, ReplyIds
    <2>5. DistinctSends /\ DistinctCommands /\ DistinctReplies /\ DistinctResults
      BY <2>1 DEF DistinctSends, DistinctCommands, DistinctReplies, DistinctResults
    <2> QED
      BY <2>2, <2>3, <2>4, <2>5 DEF CarrierInv, Unique, Kept, NoneEarly
  <1> QED
    BY <1>1, CarrierKept, TypeCorrect, CallsCorrect, BootCorrect, PTL DEF Spec

\* What it means to be among the carriers of the call with bridge id b.
LEMMA CarriersMean ==
  ASSUME TypeOK, PendingOK, NEW p \in Promises, NEW b \in DOMAIN pending, pending[b] = p
  PROVE  /\ \A i \in Sends : stdin[i].bridgeId = b => <<"stdin", i>> \in Carriers(p)
         /\ \A id \in CommandIds \cap DOMAIN cdpToBridge :
              cdpToBridge[id] = b => <<"server", id>> \in Carriers(p)
         /\ \A i \in Replies : toChild[i].id \in DOMAIN cdpToBridge /\ cdpToBridge[toChild[i].id] = b
                                 => <<"socket", i>> \in Carriers(p)
         /\ \A i \in Results : stdout[i].bridgeId = b => <<"stdout", i>> \in Carriers(p)
         /\ \A x \in Carriers(p) :
              \/ \E i \in Sends : x = <<"stdin", i>> /\ stdin[i].bridgeId = b
              \/ \E id \in CommandIds \cap DOMAIN cdpToBridge :
                   x = <<"server", id>> /\ cdpToBridge[id] = b
              \/ \E i \in Replies : /\ x = <<"socket", i>> /\ toChild[i].id \in DOMAIN cdpToBridge
                                    /\ cdpToBridge[toChild[i].id] = b
              \/ \E i \in Results : x = <<"stdout", i>> /\ stdout[i].bridgeId = b
  <1>1. p # NoPromise
    BY NullsAssumption
  <1>2. \A x : Owner(x) = p <=> x = b
    BY <1>1 DEF Owner, PendingOK, IsInjective
  <1>3. \A id : Mapped(id) = p <=> id \in DOMAIN cdpToBridge /\ cdpToBridge[id] = b
    BY <1>1, <1>2 DEF Mapped
  <1> DEFINE A == {<<"stdin", i>> : i \in {j \in DOMAIN stdin :
                                      stdin[j].op = "send" /\ Owner(stdin[j].bridgeId) = p}}
             B == {<<"server", c.id>> : c \in {d \in atServer : Mapped(d.id) = p}}
             C == {<<"socket", i>> : i \in {j \in DOMAIN toChild :
                                      toChild[j].kind = "reply" /\ Mapped(toChild[j].id) = p}}
             D == {<<"stdout", i>> : i \in {j \in DOMAIN stdout :
                                      stdout[j].type \in {"result", "error"}
                                        /\ Owner(stdout[j].bridgeId) = p}}
  <1>4. Carriers(p) = A \cup B \cup C \cup D
    BY DEF Carriers
  <1>5. \A x : x \in A <=> \E i \in Sends : x = <<"stdin", i>> /\ stdin[i].bridgeId = b
    BY <1>2 DEF Sends
  <1>6. \A x : x \in B <=> \E id \in CommandIds \cap DOMAIN cdpToBridge :
                             x = <<"server", id>> /\ cdpToBridge[id] = b
    <2>1. \A x : x \in B <=> \E c \in atServer : x = <<"server", c.id>> /\ Mapped(c.id) = p
      OBVIOUS
    <2> QED
      BY <1>3, <2>1 DEF CommandIds
  <1>7. \A x : x \in C <=> \E i \in Replies : /\ x = <<"socket", i>>
                                              /\ toChild[i].id \in DOMAIN cdpToBridge
                                              /\ cdpToBridge[toChild[i].id] = b
    <2>1. \A x : x \in C <=> \E i \in Replies : x = <<"socket", i>> /\ Mapped(toChild[i].id) = p
      BY DEF Replies
    <2> QED
      BY <1>3, <2>1
  <1>8. \A x : x \in D <=> \E i \in Results : x = <<"stdout", i>> /\ stdout[i].bridgeId = b
    <2>1. \A x : x \in D <=> \E i \in Results : x = <<"stdout", i>> /\ Owner(stdout[i].bridgeId) = p
      BY DEF Results, IsResult
    <2> QED
      BY <1>2, <2>1
  <1> HIDE DEF A, B, C, D
  <1>9. \A x : x \in Carriers(p) <=> x \in A \/ x \in B \/ x \in C \/ x \in D
    BY <1>4
  <1> QED
    BY <1>5, <1>6, <1>7, <1>8, <1>9

\* A call has at most one carrier: its bridge id is in one stage, and there once.
LEMMA OneCarrier ==
  ASSUME TypeOK, PendingOK, CarrierInv,
         NEW p \in Promises, NEW b \in DOMAIN pending, pending[b] = p
  PROVE  \E y : Carriers(p) \subseteq {y}
  <1> DEFINE S(x) == \E i \in Sends : x = <<"stdin", i>> /\ stdin[i].bridgeId = b
             C(x) == \E id \in CommandIds \cap DOMAIN cdpToBridge :
                       x = <<"server", id>> /\ cdpToBridge[id] = b
             R(x) == \E i \in Replies : /\ x = <<"socket", i>> /\ toChild[i].id \in DOMAIN cdpToBridge
                                        /\ cdpToBridge[toChild[i].id] = b
             O(x) == \E i \in Results : x = <<"stdout", i>> /\ stdout[i].bridgeId = b
  <1>1. \A x \in Carriers(p) : S(x) \/ C(x) \/ R(x) \/ O(x)
    BY CarriersMean
  <1>2. \A x : S(x) => b \in SentIds
    BY DEF SentIds
  <1>3. \A x : O(x) => b \in ResultIds
    BY DEF ResultIds
  <1>4. \A x : C(x) \/ R(x) => b \in Range(cdpToBridge)
    BY DEF Range
  <1>5. /\ b \in SentIds => b \notin ResultIds /\ b \notin Range(cdpToBridge)
        /\ b \in ResultIds => b \notin Range(cdpToBridge)
    BY DEF CarrierInv, Unique
  <1>6. \A x, y : S(x) /\ S(y) => x = y
    BY DEF CarrierInv, Unique, DistinctSends
  <1>7. \A x, y : O(x) /\ O(y) => x = y
    BY DEF CarrierInv, Unique, DistinctResults
  <1>8. \A i, j \in DOMAIN cdpToBridge : cdpToBridge[i] = b /\ cdpToBridge[j] = b => i = j
    BY DEF CarrierInv, Unique, IsInjective
  <1>9. \A x, y : C(x) /\ C(y) => x = y
    BY <1>8
  <1>10. \A x, y : R(x) /\ R(y) => x = y
    BY <1>8 DEF CarrierInv, Unique, DistinctReplies
  <1>11. \A x, y : C(x) => ~R(y)
    <2>1. \A i \in Replies : toChild[i].id \in ReplyIds
      BY DEF ReplyIds
    <2>2. \A id \in CommandIds : id \notin ReplyIds
      BY DEF CarrierInv, Unique
    <2> QED
      BY <1>8, <2>1, <2>2
  <1> HIDE DEF S, C, R, O
  <1>12. \A x, y \in Carriers(p) : x = y
    BY <1>1, <1>2, <1>3, <1>4, <1>5, <1>6, <1>7, <1>9, <1>10, <1>11
  <1> QED
    BY <1>12

\* For any number of calls, in any order of answers: a pending call is carried by one op,
\* command, reply or line at most, and by none only if its frame was refused or the
\* connection is over.
THEOREM CarriedCorrect == Spec => []CarriedOnce
  <1>1. TypeOK /\ CallInv /\ CarrierInv => CarriedOnce
    <2> SUFFICES ASSUME TypeOK, CallInv, CarrierInv, NEW p \in Promises, outcome[p] = "pending"
                 PROVE  /\ Cardinality(Carriers(p)) <= 1
                        /\ phase = "running" /\ serverOpen /\ p \notin unsent /\ browser # "gone"
                             => Carriers(p) # {}
      BY DEF CarriedOnce
    <2>0. PendingOK
      BY DEF CallInv
    <2>1. PICK b \in DOMAIN pending : pending[b] = p
      BY <2>0 DEF PendingOK, Range
    <2>2. PICK y : Carriers(p) \subseteq {y}
      BY <2>0, <2>1, OneCarrier
    <2>3. Cardinality(Carriers(p)) <= 1
      <3>1. Carriers(p) = {} \/ Carriers(p) = {y}
        BY <2>2
      <3> QED
        BY <3>1, FS_EmptySet, FS_Singleton
    <2>4. ASSUME phase = "running", serverOpen, p \notin unsent, browser # "gone"
          PROVE  Carriers(p) # {}
      <3>1. Carried(b)
        BY <2>1, <2>4 DEF CarrierInv, Kept
      <3>2. CASE b \in SentIds
        BY <2>0, <2>1, <3>2, CarriersMean DEF SentIds
      <3>3. CASE b \in ResultIds
        BY <2>0, <2>1, <3>3, CarriersMean DEF ResultIds
      <3>4. ASSUME NEW id \in DOMAIN cdpToBridge, cdpToBridge[id] = b, id \in CommandIds
            PROVE  Carriers(p) # {}
        BY <2>0, <2>1, <3>4, CarriersMean
      <3>5. ASSUME NEW id \in DOMAIN cdpToBridge, cdpToBridge[id] = b, id \in ReplyIds
            PROVE  Carriers(p) # {}
        <4>1. PICK i \in Replies : toChild[i].id = id
          BY <3>5 DEF ReplyIds
        <4>2. <<"socket", i>> \in Carriers(p)
          BY <2>0, <2>1, <3>5, <4>1, CarriersMean
        <4> QED
          BY <4>2
      <3> QED
        BY <3>1, <3>2, <3>3, <3>4, <3>5 DEF Carried
    <2> QED
      BY <2>3, <2>4
  <1> QED
    BY <1>1, TypeCorrect, CallsCorrect, CarrierCorrect, PTL
=============================================================================

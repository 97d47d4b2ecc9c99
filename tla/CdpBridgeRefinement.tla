------------------------ MODULE CdpBridgeRefinement ------------------------
(***************************************************************************)
(* CdpBridge implements RequestReply: the closed line is the last one, and *)
(* with the call invariant every step is a step or a stutter of the        *)
(* abstract specification.                                                 *)
(***************************************************************************)
EXTENDS CdpBridgeProofs

Over == phase \in {"ended", "dead"}
ClosedIsLast ==
  \A i \in DOMAIN stdout : stdout[i].type = "closed" => i = Len(stdout) /\ Over

-----------------------------------------------------------------------------
(* The closed line *)

LEMMA EmitKeepsLast ==
  ASSUME TypeOK, ClosedIsLast, ~Over, NEW lines \in Seq(Line), Emit(lines),
         \A i \in DOMAIN lines : lines[i].type = "closed" => i = Len(lines) /\ Over'
  PROVE  ClosedIsLast'
  <1>1. stdout \in Seq(Line)
    BY DEF TypeOK
  <1>2. \A i \in DOMAIN stdout : stdout[i].type # "closed"
    BY DEF ClosedIsLast
  <1>3. CASE stdout' = stdout
    BY <1>2, <1>3 DEF ClosedIsLast
  <1>4. CASE stdout' = stdout \o lines
    <2>1. Len(stdout') = Len(stdout) + Len(lines) /\ DOMAIN stdout' = 1 .. Len(stdout')
      BY <1>1, <1>4
    <2>2. ASSUME NEW i \in DOMAIN stdout', stdout'[i].type = "closed"
          PROVE  i = Len(stdout') /\ Over'
      <3>1. i > Len(stdout) /\ stdout'[i] = lines[i - Len(stdout)]
        BY <1>1, <1>2, <1>4, <2>1, <2>2
      <3>2. i - Len(stdout) \in DOMAIN lines
        BY <1>1, <2>1, <3>1
      <3> QED
        BY <1>1, <2>1, <2>2, <3>1, <3>2
    <2> QED
      BY <2>2 DEF ClosedIsLast
  <1> QED
    BY <1>3, <1>4 DEF Emit

LEMMA TailKeepsLast ==
  ASSUME TypeOK, ClosedIsLast, NEW type, TakeLine(type)
  PROVE  ClosedIsLast' /\ (type = "closed" => Over' /\ stdout' = << >>)
  <1>1. stdout \in Seq(Line) /\ stdout # << >> /\ stdout' = Tail(stdout) /\ phase' = phase
        /\ Head(stdout) = stdout[1] /\ stdout[1].type = type
    BY DEF TypeOK, TakeLine, childVars
  <1>2. Len(stdout') = Len(stdout) - 1 /\ \A i \in DOMAIN stdout' :
          i + 1 \in DOMAIN stdout /\ stdout'[i] = stdout[i + 1]
    BY <1>1
  <1>3. ClosedIsLast'
    <2> SUFFICES ASSUME NEW i \in DOMAIN stdout', stdout'[i].type = "closed"
                 PROVE  i = Len(stdout') /\ Over'
      BY DEF ClosedIsLast
    <2>1. i + 1 = Len(stdout) /\ Over
      BY <1>2 DEF ClosedIsLast
    <2>2. i \in Nat /\ Len(stdout) \in Nat
      BY <1>1
    <2> QED
      BY <1>1, <1>2, <2>1, <2>2 DEF Over
  <1>4. ASSUME type = "closed" PROVE Over' /\ stdout' = << >>
    <2>1. 1 \in DOMAIN stdout /\ stdout[1].type = "closed"
      BY <1>1, <1>4
    <2>2. 1 = Len(stdout) /\ Over
      BY <2>1 DEF ClosedIsLast
    <2>3. Len(stdout') = 0 /\ stdout' \in Seq(Line)
      BY <1>1, <2>2
    <2>4. stdout' = << >>
      BY <2>3
    <2> QED
      BY <1>1, <2>2, <2>4 DEF Over
  <1> QED
    BY <1>3, <1>4

LEMMA LinkInit == Init => LinkInv
  BY DEF Init, LinkInv

LEMMA LinkNode == TypeOK /\ LinkInv /\ NodeNext => LinkInv'
  <1> SUFFICES ASSUME TypeOK, LinkInv, NodeNext PROVE LinkInv'
    OBVIOUS
  <1>0. /\ link = "closed" <=> nodeClosed
        /\ link = "draining" => Over /\ stdout = << >>
        /\ ClosedIsLast
        /\ link \in {"open", "draining", "closed"}
    BY DEF LinkInv, ClosedIsLast, Over, TypeOK
  <1>a. ASSUME link' = "closed" <=> nodeClosed', ClosedIsLast',
               link' = "draining" => Over' /\ stdout' = << >>
        PROVE  LinkInv'
    BY <1>a DEF LinkInv, ClosedIsLast, Over
  <1>b. ASSUME UNCHANGED <<stdout, phase>>, UNCHANGED <<link, nodeClosed>> \/ (link' = "closed" /\ nodeClosed')
        PROVE  LinkInv'
    <2>1. ClosedIsLast'
      BY <1>0, <1>b DEF ClosedIsLast, Over
    <2> QED
      BY <1>0, <1>a, <1>b, <2>1 DEF Over
  <1>c. ASSUME NEW type, TakeLine(type), UNCHANGED <<link, nodeClosed>> PROVE LinkInv'
    <2>1. ClosedIsLast' /\ link # "draining"
      BY <1>0, <1>c, TailKeepsLast DEF TakeLine
    <2> QED
      BY <1>0, <1>a, <1>c, <2>1
  <1> USE DEF nodeVars, childVars
  <1>1. ASSUME NEW p \in Promises, Send(p) \/ SendRefused(p) PROVE LinkInv'
    BY <1>1, <1>b DEF Send, SendRefused
  <1>2. ASSUME NEW t \in Targets, NewSession(t) PROVE LinkInv'
    BY <1>2, <1>b DEF NewSession
  <1>3. CASE Close
    BY <1>3, <1>b DEF Close
  <1>4. CASE NodeGone
    <2>1. ClosedIsLast' /\ Over' = Over
      BY <1>4 DEF NodeGone, ClosedIsLast, Over
    <2> QED
      BY <1>0, <1>4, <1>a, <2>1 DEF NodeGone
  <1>5. CASE OnExit
    BY <1>5, <1>b DEF OnExit
  <1>6. CASE HandleReady
    BY <1>6, <1>c DEF HandleReady
  <1>7. CASE HandleFatal
    BY <1>7, <1>c DEF HandleFatal
  <1>8. CASE HandleResult
    BY <1>8, <1>c DEF HandleResult
  <1>9. CASE HandleError
    BY <1>9, <1>c DEF HandleError
  <1>10. CASE HandleEvent
    BY <1>10, <1>c DEF HandleEvent
  <1>11. CASE HandlePages
    BY <1>11, <1>c DEF HandlePages
  <1>12. CASE HandleClosed
    <2>1. ClosedIsLast' /\ Over' /\ stdout' = << >>
      BY <1>0, <1>12, TailKeepsLast DEF HandleClosed
    <2> QED
      BY <1>0, <1>12, <1>a, <2>1 DEF HandleClosed
  <1> QED
    BY <1>1, <1>2, <1>3, <1>4, <1>5, <1>6, <1>7, <1>8, <1>9, <1>10, <1>11, <1>12
    DEF NodeNext, NodeHandles

LEMMA LinkChild == TypeOK /\ LinkInv /\ ChildNext => LinkInv'
  <1> SUFFICES ASSUME TypeOK, LinkInv, ChildNext PROVE LinkInv'
    OBVIOUS
  <1>0. /\ link = "closed" <=> nodeClosed
        /\ link = "draining" => Over /\ stdout = << >>
        /\ ClosedIsLast
        /\ UNCHANGED <<link, nodeClosed>>
    BY DEF LinkInv, ClosedIsLast, Over, ChildNext, nodeVars, Connect, HandshakeBegin,
           HandshakePoll, HandshakeDone, HandshakeFailed, ReadSend, ReadClose, Poll,
           PollClosed, Exit
  <1>a. ASSUME ~Over, ClosedIsLast' PROVE LinkInv'
    BY <1>0, <1>a DEF LinkInv, ClosedIsLast, Over
  <1>b. ASSUME UNCHANGED stdout, ~Over \/ Over' PROVE LinkInv'
    BY <1>0, <1>b DEF LinkInv, ClosedIsLast, Over
  <1>c. ASSUME ~Over, NEW l \in Line, l.type # "closed", Emit(<<l>>) PROVE LinkInv'
    <2>1. <<l>> \in Seq(Line) /\ \A i \in DOMAIN <<l>> : <<l>>[i].type # "closed"
      BY <1>c
    <2> QED
      BY <1>0, <1>a, <1>c, <2>1, EmitKeepsLast
  <1>1. CASE Connect
    BY <1>1, <1>b, <1>c DEF Connect, Over, Line
  <1>2. CASE HandshakeBegin
    BY <1>2, <1>b, <1>c DEF HandshakeBegin, Over, Line
  <1>3. CASE HandshakePoll
    BY <1>3, <1>b DEF HandshakePoll, Over
  <1>4. CASE HandshakeDone
    <2>1. [type |-> "ready", pages |-> pages] \in Line
      BY DEF TypeOK, Line
    <2> QED
      BY <1>4, <1>c, <2>1 DEF HandshakeDone, Over
  <1>5. CASE HandshakeFailed
    BY <1>5, <1>c DEF HandshakeFailed, Over, Line
  <1>6. CASE ReadSend
    BY <1>6, <1>b DEF ReadSend, Over
  <1>7. CASE ReadClose
    BY <1>7, <1>b DEF ReadClose, Over
  <1>8. CASE Poll
    <2> DEFINE m == Head(toChild)
    <2>1. m \in Message
      BY <1>8, HeadTail DEF Poll, TypeOK
    <2>2. \A i \in DOMAIN LinesOf(m) : LinesOf(m)[i].type # "closed"
      BY DEF LinesOf, ReplyLines
    <2>3. ~Over /\ Emit(LinesOf(m)) /\ LinesOf(m) \in Seq(Line)
      BY <1>8, <2>1, LinesOfType DEF Poll, Over
    <2> QED
      BY <1>0, <1>a, <2>2, <2>3, EmitKeepsLast
  <1>9. CASE PollClosed
    <2>1. ~Over /\ Over' /\ Emit(<<[type |-> "closed"]>>)
      BY <1>9 DEF PollClosed, Over
    <2>2. <<[type |-> "closed"]>> \in Seq(Line)
      BY DEF Line
    <2>3. \A i \in DOMAIN <<[type |-> "closed"]>> : i = Len(<<[type |-> "closed"]>>)
      OBVIOUS
    <2> QED
      BY <1>0, <1>a, <2>1, <2>2, <2>3, EmitKeepsLast
  <1>10. CASE Exit
    BY <1>10, <1>b DEF Exit, Over
  <1> QED
    BY <1>1, <1>2, <1>3, <1>4, <1>5, <1>6, <1>7, <1>8, <1>9, <1>10 DEF ChildNext

\* The closed line is always the last line of the child's output, and #closed, the closed
\* line and the state of the connection as callers see it agree.
THEOREM LinkCorrect == Spec => []LinkInv
  <1>1. LinkInv /\ UNCHANGED vars => LinkInv'
    BY DEF LinkInv, vars, nodeVars, childVars
  <1>2. LinkInv /\ ServerNext => LinkInv'
    <2> SUFFICES ASSUME LinkInv, ServerNext PROVE LinkInv'
      OBVIOUS
    <2>1. UNCHANGED <<link, nodeClosed, phase, stdout>>
      BY DEF ServerNext, nodeVars, childVars, ServerLeaves, Reply, Attach, Detach,
             EmitEvent, Hangup
    <2> QED
      BY <2>1 DEF LinkInv
  <1>3. TypeOK /\ LinkInv /\ [Next]_vars => LinkInv'
    BY <1>1, <1>2, LinkNode, LinkChild DEF Next
  <1> QED
    BY <1>3, LinkInit, TypeCorrect, PTL DEF Spec

-----------------------------------------------------------------------------
(* The refinement *)

LEMMA RefuseAllPending ==
  ASSUME TypeOK, PendingOK, RejectPending
  PROVE  outcome' = [p \in Promises |-> IF outcome[p] = "pending" THEN "refused" ELSE outcome[p]]
  <1>1. \A p \in Promises : p \in Range(pending) <=> outcome[p] = "pending"
    BY DEF PendingOK, Range
  <1> QED
    BY <1>1 DEF RejectPending

LEMMA SettleAnswers ==
  ASSUME TypeOK, CallInv, LinkInv, stdout # << >>, UNCHANGED link,
         NEW how \in {"resolved", "rejected"}, Settle(how)
  PROVE  UNCHANGED <<outcome, link>> \/ \E p \in Promises : Abstract!Answer(p)
  <1> DEFINE b == Head(stdout).bridgeId
  <1>1. CASE b \notin DOMAIN pending
    BY <1>1 DEF Settle
  <1>2. CASE b \in DOMAIN pending
    <2>1. PendingOK
      BY DEF CallInv
    <2>2. ~nodeClosed
      BY <1>2, <2>1 DEF PendingOK
    <2>3. link = "open"
      BY <2>2 DEF LinkInv, TypeOK
    <2>4. pending[b] \in Promises /\ outcome[pending[b]] = "pending"
      BY <1>2, <2>1 DEF PendingOK, TypeOK
    <2>5. outcome' = [outcome EXCEPT ![pending[b]] = how]
      BY <1>2 DEF Settle
    <2> QED
      BY <2>3, <2>4, <2>5 DEF Abstract!Answer
  <1> QED
    BY <1>1, <1>2

LEMMA StepRefines ==
  TypeOK /\ CallInv /\ LinkInv /\ [Next]_vars => [Abstract!Next]_<<outcome, link>>
  <1> SUFFICES ASSUME TypeOK, CallInv, LinkInv, [Next]_vars
               PROVE  [Abstract!Next]_<<outcome, link>>
    OBVIOUS
  <1>0. PendingOK /\ (link = "closed" <=> nodeClosed) /\ link \in {"open", "draining", "closed"}
    BY DEF CallInv, LinkInv, TypeOK
  <1> USE DEF nodeVars, callVars
  <1>1. CASE UNCHANGED vars
    BY <1>1 DEF vars
  <1>2. CASE ChildNext
    BY <1>2 DEF ChildNext, Connect, HandshakeBegin, HandshakePoll, HandshakeDone,
                HandshakeFailed, ReadSend, ReadClose, Poll, PollClosed, Exit
  <1>3. CASE ServerNext
    BY <1>3 DEF ServerNext, ServerLeaves, Reply, Attach, Detach, EmitEvent, Hangup
  <1>4. ASSUME NEW p \in Promises, Send(p) \/ SendRefused(p) PROVE Abstract!Next
    <2>1. Abstract!Ask(p)
      BY <1>0, <1>4 DEF Send, SendRefused, Abstract!Ask
    <2> QED
      BY <2>1 DEF Abstract!Next
  <1>5. CASE Close \/ OnExit
    <2>1. Abstract!Sever("closed")
      BY <1>0, <1>5, RefuseAllPending DEF Close, OnExit, Abstract!Sever
    <2> QED
      BY <2>1 DEF Abstract!Next
  <1>6. CASE HandleClosed
    <2>1. link # "draining"
      BY <1>6 DEF LinkInv, HandleClosed, TakeLine
    <2>2. link' = IF link = "open" THEN "draining" ELSE link
      BY <1>6 DEF HandleClosed
    <2>3. outcome' = [p \in Promises |-> IF outcome[p] = "pending" THEN "refused" ELSE outcome[p]]
      BY <1>0, <1>6, RefuseAllPending DEF HandleClosed
    <2>4. Abstract!Sever(link')
      BY <1>0, <2>1, <2>2, <2>3 DEF Abstract!Sever
    <2> QED
      BY <1>0, <2>1, <2>2, <2>4 DEF Abstract!Next
  <1>7. CASE HandleResult \/ HandleError
    BY <1>7, SettleAnswers DEF HandleResult, HandleError, TakeLine, Abstract!Next
  <1>8. ASSUME NEW t \in Targets, NewSession(t) PROVE UNCHANGED <<outcome, link>>
    BY <1>8 DEF NewSession
  <1>9. CASE NodeGone \/ HandleReady \/ HandleFatal \/ HandleEvent \/ HandlePages
    BY <1>9 DEF NodeGone, HandleReady, HandleFatal, HandleEvent, HandlePages
  <1> QED
    BY <1>1, <1>2, <1>3, <1>4, <1>5, <1>6, <1>7, <1>8, <1>9 DEF Next, NodeNext, NodeHandles

\* The pipeline of browser object, pipes, child and socket implements the abstract service:
\* answers only while the connection is open, refusals all at once.
THEOREM Refinement == Spec => ImplementsRequestReply
  <1>1. Init => Abstract!Init
    BY DEF Init, Abstract!Init
  <1> QED
    BY <1>1, StepRefines, TypeCorrect, CallsCorrect, LinkCorrect, PTL
    DEF Spec, ImplementsRequestReply, Abstract!Spec
=============================================================================

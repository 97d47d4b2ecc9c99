-------------------------- MODULE PageCommandsProofs --------------------------
(***************************************************************************)
(* PageCommands: its type invariant and its safety invariants, proved for  *)
(* every set of programs and every socket.  What a command was told, in a   *)
(* reply it took or in one on its way, is what held when the engine        *)
(* answered; each step is asked once, so what the page did since is known. *)
(***************************************************************************)
EXTENDS PageCommands, SequenceTheorems, TLAPS

(* The step that may leave the page shown, the wait for its load and the injection. *)
Away == CASE Command = "goto" -> 2 [] Command = "click" -> 5 [] OTHER -> 3
Injecting == Away + 2
Between == Command \in {"back", "forward"}

(* The command of step s is still to be handled: to be sent or on its way. *)
ToSend(s)  == exit = "running" /\ (step < s \/ (step = s /\ waiting = 0))
OnItsWay(s) == \E j \in DOMAIN toEngine : toEngine[j].step = s
Pending(s) == ToSend(s) \/ OnItsWay(s)

(* A reply that says ok to step s, on its way or taken; the url that it reports. *)
ReplyTo(m, s) == m.kind = "reply" /\ m.step = s
Good(m, s)    == ReplyTo(m, s) /\ m.ok
Answered(s)   == got[s] = "ok" \/ \E i \in DOMAIN toClient : Good(toClient[i], s)
Current(seen) == seen.entries[seen.index]
Reported(s, u) == \/ got[s] = "ok" /\ url[s] = u
                  \/ \E i \in DOMAIN toClient : Good(toClient[i], s) /\ Current(toClient[i].seen) = u

-----------------------------------------------------------------------------
(* The inductive invariant *)

Typed ==
  /\ TypeOK
  /\ \A i \in DOMAIN toClient : toClient[i].kind = "reply" =>
       toClient[i].seen.index \in DOMAIN toClient[i].seen.entries
  /\ Between /\ nav = "asked" => Known(newUrl)

(* A command or reply c under way. *)
UnderWay(c) ==
  /\ c.id \in 1 .. lastId /\ c.step \in 1 .. step /\ Script[c.step] # "load"
  /\ c.id = waiting => c.step = step
  /\ c.step = step /\ exit = "running" => c.id = waiting

Ids ==
  /\ waiting # 0 => Script[step] # "load"
  /\ exit # "running" => waiting = 0
  /\ \A j \in DOMAIN toEngine : UnderWay(toEngine[j])
  /\ \A i \in DOMAIN toClient : toClient[i].kind = "reply" => UnderWay(toClient[i])
  /\ \A i, j \in DOMAIN toEngine : i < j => toEngine[i].step < toEngine[j].step
  /\ \A i \in DOMAIN toClient : toClient[i].kind = "reply" => ~Pending(toClient[i].step)

(* The script goes on over what succeeded, or need not. *)
Progress ==
  /\ \A s \in Steps : s > step => got[s] = "none"
  /\ \A s \in Steps : s < step => got[s] # "none"
  /\ \A s \in Must : s < step => got[s] = "ok"
  /\ got[step] = "none" <=> exit = "running"
  /\ \A s \in Steps : got[s] = "ok" => ~Pending(s)
  /\ exit = "complete" => step = Len(Script) \/ (Command = "click" /\ step = 6 /\ url[6] = url[3])

(* The page is left once, by the one step that may. *)
Page ==
  /\ nav # "old" => ~Pending(Away) /\ \A j \in DOMAIN toEngine : toEngine[j].step > Away
  /\ oldLoading => nav = "old"
  /\ nav \in {"old", "asked"} => timer
  /\ closed => ~up
  /\ \A i \in DOMAIN toClient : IsClose(toClient[i]) => ~up

Still == nav \in {"old", "loaded"}

(* Whose load event it is that is on its way, or was taken. *)
Loads ==
  HasLoad =>
    /\ \A i \in DOMAIN toClient : IsLoad(toClient[i]) /\ ~oldLoaded => nav = "loaded"
    /\ loadSeen /\ ~oldLoaded => nav = "loaded"
    /\ \A i, j \in DOMAIN toClient : Good(toClient[i], Away) /\ i < j /\ IsLoad(toClient[j]) => Still
    /\ got[Away] = "ok" => \A i \in DOMAIN toClient : IsLoad(toClient[i]) => Still
Waited == got[Away + 1] = "ok" /\ (Impl = "node" => ~oldLoaded)
Alive ==
  HasLoad /\ Waited => Still /\ (Answered(Injecting) => timer)

NodeLoads ==
  Impl = "node" =>
    /\ loadRead => loadSeen
    /\ HasLoad /\ got[Away + 1] = "lost" => closed \/ ~loadRead

(* back and forward: the history, what was read of it and where that leads. *)
Histories == {<<"old", "after">>, <<"before", "old">>, <<"before", "old", "after">>,
              <<"old", "pushed">>, <<"before", "old", "pushed">>}
Latest == IF Known("pushed") THEN "pushed" ELSE "old"
Aimed ==
  Between =>
    /\ history \in Histories
    /\ nav = "old" => history[index] \in {"old", "pushed"}
    /\ step < 3 \/ Pending(3) => nav = "old" /\ history[index] = Latest
    /\ \A i \in DOMAIN toClient : ReplyTo(toClient[i], 2) => toClient[i].seen = historyRead
    /\ \/ Target(historyRead) \in {"none", "before", "after"}
       \/ Target(historyRead) = "old" /\ Known("pushed")
    /\ aim # "none" => ~Pending(2) /\ aim = Target(historyRead)
    /\ step > 2 => aim # "none"
    /\ \A j \in DOMAIN toEngine : toEngine[j].step = 3 => toEngine[j].aim = aim

Arrives ==
  Between /\ Answered(3) =>
    \/ nav = "old" /\ history[index] = aim /\ Known("pushed")
    \/ nav = "asked" /\ newUrl = aim /\ Known(aim)
    \/ nav \in {"committed", "loaded"} /\ history[index] = aim
InTime == ~Late \/ got[4] = "ok"
Settled ==
  Between /\ InTime =>
    /\ step > 4 /\ up => Still
    /\ \A u \in Urls \cup {"none"} : Reported(7, u) => u = aim

(* click: the url seen before, where the page is 300 ms after, and what was seen then. *)
Clicks ==
  Command = "click" =>
    /\ nav = "old" => history[index] \in {"old", "pushed"}
    /\ nav \in {"committed", "loaded"} => history[index] = newUrl
    /\ \A u \in Urls \cup {"none"} : Reported(3, u) => u \in {"old", "pushed"}
    /\ ~Late /\ got[5] = "ok" =>
         /\ step >= 6 /\ ~ToSend(6) => Still
         /\ nav = "loaded" => \A u \in Urls \cup {"none"} : Reported(6, u) => u = newUrl
         /\ Answered(7) => timer

Inv == Typed /\ Ids /\ Progress /\ RepliesMatch /\ Page /\ Loads /\ Alive /\ NodeLoads
       /\ Aimed /\ Arrives /\ Settled /\ Clicks

-----------------------------------------------------------------------------
(* The scripts *)

Ops == {"Page.enable", "Page.navigate", "load", "Runtime.evaluate", "addScript",
        "Page.getFrameTree", "Page.getNavigationHistory", "Page.navigateToHistoryEntry"}

LEMMA Concatenated ==
  ASSUME NEW S, NEW s \in Seq(S), NEW t \in Seq(S)
  PROVE  /\ Len(s \o t) = Len(s) + Len(t)
         /\ \A i \in 1 .. Len(s) : (s \o t)[i] = s[i]
         /\ \A i \in 1 .. Len(t) : (s \o t)[Len(s) + i] = t[i]
BY ConcatProperties

LEMMA Injected ==
  ASSUME NEW a \in Ops, NEW b \in Ops, NEW c \in Ops
  PROVE  LET r == <<a, b>> \o Inject(c) IN
         /\ Len(r) = 7 /\ r[1] = a /\ r[2] = b /\ r[3] = c
         /\ r[4] = "load" /\ r[5] = "Runtime.evaluate" /\ r[6] = "addScript" /\ r[7] = "Page.getFrameTree"
<1> DEFINE h == <<a, b>>  t == Inject(c)
<1>1. h \in Seq(Ops) /\ Len(h) = 2 /\ h[1] = a /\ h[2] = b
  OBVIOUS
<1>2. t \in Seq(Ops) /\ Len(t) = 5 /\ t[1] = c /\ t[2] = "load"
      /\ t[3] = "Runtime.evaluate" /\ t[4] = "addScript" /\ t[5] = "Page.getFrameTree"
  BY DEF Inject, Ops
<1> HIDE DEF h, t
<1>0. h \in Seq(Ops) /\ t \in Seq(Ops)
  BY <1>1, <1>2
<1>3. /\ Len(h \o t) = Len(h) + Len(t)
      /\ \A i \in 1 .. Len(h) : (h \o t)[i] = h[i]
      /\ \A i \in 1 .. Len(t) : (h \o t)[Len(h) + i] = t[i]
  BY <1>0, Concatenated
<1>4. /\ Len(h \o t) = 7 /\ (h \o t)[1] = h[1] /\ (h \o t)[2] = h[2]
      /\ (h \o t)[2 + 1] = t[1] /\ (h \o t)[2 + 2] = t[2] /\ (h \o t)[2 + 3] = t[3]
      /\ (h \o t)[2 + 4] = t[4] /\ (h \o t)[2 + 5] = t[5]
  BY <1>1, <1>2, <1>3
<1>5. /\ Len(h \o t) = 7 /\ (h \o t)[1] = a /\ (h \o t)[2] = b /\ (h \o t)[3] = c
      /\ (h \o t)[4] = "load" /\ (h \o t)[5] = "Runtime.evaluate" /\ (h \o t)[6] = "addScript"
      /\ (h \o t)[7] = "Page.getFrameTree"
  BY <1>1, <1>2, <1>4
<1>6. <<a, b>> \o Inject(c) = h \o t
  BY DEF h, t
<1> QED
  BY <1>5, <1>6

(* What the five scripts have in common, and where they differ. *)
Leaves(op) == op \in {"Page.navigate", "mouseReleased", "Page.navigateToHistoryEntry"}

LEMMA ScriptGoto ==
  ASSUME Command = "goto"
  PROVE  /\ Len(Script) = 6 /\ Script[1] = "Page.enable" /\ Script[2] = "Page.navigate"
         /\ Script[3] = "load" /\ Script[4] = "Runtime.evaluate" /\ Script[5] = "addScript"
         /\ Script[6] = "Page.getFrameTree"
BY DEF Script, Goto

LEMMA ScriptClick ==
  ASSUME Command = "click"
  PROVE  /\ Len(Script) = 8 /\ Script[1] = "DOM.enable" /\ Script[2] = "elementCenter"
         /\ Script[3] = "Page.getFrameTree" /\ Script[4] = "mousePressed" /\ Script[5] = "mouseReleased"
         /\ Script[6] = "Page.getFrameTree" /\ Script[7] = "Runtime.evaluate" /\ Script[8] = "addScript"
BY DEF Script, Click

LEMMA ScriptBetween ==
  ASSUME Between
  PROVE  /\ Len(Script) = 7 /\ Script[1] = "Page.enable" /\ Script[2] = "Page.getNavigationHistory"
         /\ Script[3] = "Page.navigateToHistoryEntry" /\ Script[4] = "load"
         /\ Script[5] = "Runtime.evaluate" /\ Script[6] = "addScript" /\ Script[7] = "Page.getFrameTree"
<1>1. Script = NavHistory
  BY DEF Script, Between
<1>2. "Page.enable" \in Ops /\ "Page.getNavigationHistory" \in Ops /\ "Page.navigateToHistoryEntry" \in Ops
  BY DEF Ops
<1>3. NavHistory = <<"Page.enable", "Page.getNavigationHistory">> \o Inject("Page.navigateToHistoryEntry")
  BY DEF NavHistory
<1> QED
  BY <1>1, <1>2, <1>3, Injected

LEMMA ScriptReload ==
  ASSUME Command = "reload"
  PROVE  /\ Len(Script) = 7 /\ Script[1] = "Page.getFrameTree" /\ Script[2] = "Page.enable"
         /\ Script[3] = "Page.navigate" /\ Script[4] = "load"
         /\ Script[5] = "Runtime.evaluate" /\ Script[6] = "addScript" /\ Script[7] = "Page.getFrameTree"
<1>1. Script = Reload
  BY DEF Script
<1>2. "Page.getFrameTree" \in Ops /\ "Page.enable" \in Ops /\ "Page.navigate" \in Ops
  BY DEF Ops
<1>3. Reload = <<"Page.getFrameTree", "Page.enable">> \o Inject("Page.navigate")
  BY DEF Reload
<1> QED
  BY <1>1, <1>2, <1>3, Injected

Loading == Away + 1

LEMMA Kinds ==
  ASSUME program \in Programs
  PROVE  /\ Command \in CommandNames /\ Impl \in {"native", "node"} /\ Late \in BOOLEAN
         /\ Impl = "node" => Command \in {"goto", "click"}
         /\ Between => Impl = "native" /\ Command # "goto" /\ Command # "click" /\ Command # "reload"
BY ParametersAssumption DEF Impl, Command, Late, CommandNames, Between

(* What the scripts have in common. *)
LEMMA Enumerated ==
  ASSUME NEW s \in Steps, Len(Script) \in {6, 7, 8}
  PROVE  /\ s = 1 \/ s = 2 \/ s = 3 \/ s = 4 \/ s = 5 \/ s = 6 \/ s = 7 \/ s = 8
         /\ s = 7 => Len(Script) # 6
         /\ s = 8 => Len(Script) = 8
<1>1. CASE Len(Script) = 6
  BY <1>1 DEF Steps
<1>2. CASE Len(Script) = 7
  BY <1>2 DEF Steps
<1>3. CASE Len(Script) = 8
  BY <1>3 DEF Steps
<1> QED
  BY <1>1, <1>2, <1>3

LEMMA Scripts ==
  ASSUME program \in Programs
  PROVE  /\ Len(Script) \in 6 .. 8 /\ Steps = 1 .. Len(Script) /\ Away \in Steps /\ Away \in 2 .. 5
         /\ \A s \in Steps : Leaves(Script[s]) <=> s = Away
         /\ \A s \in Steps : Script[s] = "load" <=> HasLoad /\ s = Loading
         /\ HasLoad => Loading \in Steps /\ Injecting \in Steps /\ Away \in Must
         /\ HasLoad => \A s \in Steps : Script[s] = "Runtime.evaluate" <=> s = Injecting
         /\ \A s \in Steps : Script[s] = "Page.getNavigationHistory" <=> Between /\ s = 2
         /\ Command = "click" => Script[3] = "Page.getFrameTree" /\ Script[6] = "Page.getFrameTree"
                                 /\ Script[7] = "Runtime.evaluate" /\ Len(Script) = 8 /\ Away = 5
         /\ Between => Script[7] = "Page.getFrameTree" /\ Len(Script) = 7 /\ Away = 3 /\ 2 \in Must
                       /\ Script[3] = "Page.navigateToHistoryEntry"
         /\ Command = "reload" => Script[1] = "Page.getFrameTree"
<1>0. /\ Command \in CommandNames /\ Impl \in {"native", "node"}
      /\ Impl = "node" => Command \in {"goto", "click"}
  BY Kinds
<1>1. CASE Command = "goto"
  <2>1. Away = 2 /\ Loading = 3 /\ Injecting = 4 /\ ~Between /\ HasLoad
    BY <1>1 DEF Away, Loading, Injecting, Between, HasLoad
  <2>2. 2 \in Must
    BY <1>0, <1>1 DEF Must
  <2>3. ASSUME NEW s \in Steps
        PROVE  /\ Leaves(Script[s]) <=> s = Away
               /\ Script[s] = "load" <=> HasLoad /\ s = Loading
               /\ HasLoad => (Script[s] = "Runtime.evaluate" <=> s = Injecting)
               /\ Script[s] = "Page.getNavigationHistory" <=> Between /\ s = 2
    BY <1>1, <2>1, Enumerated, ScriptGoto DEF Leaves
  <2>4. Steps = 1 .. 6 /\ Len(Script) = 6
    BY <1>1, ScriptGoto DEF Steps
  <2>5. Away \in Steps /\ Loading \in Steps /\ Injecting \in Steps
    BY <2>1, <2>4
  <2> QED
    BY <1>1, <2>1, <2>2, <2>3, <2>4, <2>5, ScriptGoto
<1>2. CASE Command = "click"
  <2>1. Away = 5 /\ ~Between /\ ~HasLoad
    BY <1>2 DEF Away, Between, HasLoad
  <2>3. ASSUME NEW s \in Steps
        PROVE  /\ Leaves(Script[s]) <=> s = Away
               /\ Script[s] = "load" <=> HasLoad /\ s = Loading
               /\ HasLoad => (Script[s] = "Runtime.evaluate" <=> s = Injecting)
               /\ Script[s] = "Page.getNavigationHistory" <=> Between /\ s = 2
    BY <1>2, <2>1, Enumerated, ScriptClick DEF Leaves
  <2>4. Steps = 1 .. 8 /\ Len(Script) = 8
    BY <1>2, ScriptClick DEF Steps
  <2>5. Away \in Steps
    BY <2>1, <2>4
  <2> QED
    BY <1>2, <2>1, <2>3, <2>4, <2>5, ScriptClick
<1>3. CASE Between
  <2>1. Away = 3 /\ Loading = 4 /\ Injecting = 5 /\ HasLoad /\ Command # "click" /\ Command # "reload"
    BY <1>3 DEF Away, Loading, Injecting, Between, HasLoad
  <2>2. 3 \in Must /\ 2 \in Must
    BY <1>3 DEF Must, Between
  <2>3. ASSUME NEW s \in Steps
        PROVE  /\ Leaves(Script[s]) <=> s = Away
               /\ Script[s] = "load" <=> HasLoad /\ s = Loading
               /\ HasLoad => (Script[s] = "Runtime.evaluate" <=> s = Injecting)
               /\ Script[s] = "Page.getNavigationHistory" <=> Between /\ s = 2
    BY <1>3, <2>1, Enumerated, ScriptBetween DEF Leaves
  <2>4. Steps = 1 .. 7 /\ Len(Script) = 7
    BY <1>3, ScriptBetween DEF Steps
  <2>5. Away \in Steps /\ Loading \in Steps /\ Injecting \in Steps
    BY <2>1, <2>4
  <2> QED
    BY <1>3, <2>1, <2>2, <2>3, <2>4, <2>5, ScriptBetween
<1>4. CASE Command = "reload"
  <2>1. Away = 3 /\ Loading = 4 /\ Injecting = 5 /\ HasLoad /\ ~Between /\ Command # "click"
    BY <1>4 DEF Away, Loading, Injecting, Between, HasLoad
  <2>2. 3 \in Must
    BY <1>4 DEF Must
  <2>3. ASSUME NEW s \in Steps
        PROVE  /\ Leaves(Script[s]) <=> s = Away
               /\ Script[s] = "load" <=> HasLoad /\ s = Loading
               /\ HasLoad => (Script[s] = "Runtime.evaluate" <=> s = Injecting)
               /\ Script[s] = "Page.getNavigationHistory" <=> Between /\ s = 2
    BY <1>4, <2>1, Enumerated, ScriptReload DEF Leaves
  <2>4. Steps = 1 .. 7 /\ Len(Script) = 7
    BY <1>4, ScriptReload DEF Steps
  <2>5. Away \in Steps /\ Loading \in Steps /\ Injecting \in Steps
    BY <2>1, <2>4
  <2> QED
    BY <1>4, <2>1, <2>2, <2>3, <2>4, <2>5, ScriptReload
<1> QED
  BY <1>0, <1>1, <1>2, <1>3, <1>4 DEF CommandNames, Between

LEMMA StepsAre ==
  ASSUME program \in Programs
  PROVE  /\ 1 .. 6 \subseteq Steps
         /\ Command = "click" => Steps = 1 .. 8
         /\ Between => Steps = 1 .. 7
<1>1. CASE Command = "goto"
  <2>1. Len(Script) = 6 /\ ~Between
    BY <1>1, ScriptGoto DEF Between
  <2> QED
    BY <1>1, <2>1 DEF Steps
<1>2. CASE Command = "click"
  <2>1. Len(Script) = 8 /\ ~Between
    BY <1>2, ScriptClick DEF Between
  <2> QED
    BY <1>2, <2>1 DEF Steps
<1>3. CASE Between
  <2>1. Len(Script) = 7 /\ Command # "click"
    BY <1>3, ScriptBetween DEF Between
  <2> QED
    BY <1>3, <2>1 DEF Steps
<1>4. CASE Command = "reload"
  <2>1. Len(Script) = 7 /\ ~Between
    BY <1>4, ScriptReload DEF Between
  <2> QED
    BY <1>4, <2>1 DEF Steps
<1> QED
  BY <1>1, <1>2, <1>3, <1>4, Kinds DEF CommandNames, Between

LEMMA MustSteps ==
  ASSUME program \in Programs
  PROVE  Must \subseteq Steps
<1>1. /\ Command \in CommandNames /\ Impl \in {"native", "node"}
      /\ Impl = "node" => Command \in {"goto", "click"}
  BY Kinds
<1>2. 1 .. 6 \subseteq Steps /\ (Command = "click" => Steps = 1 .. 8)
  BY StepsAre
<1>3. Must \subseteq 1 .. 6 \/ (Command = "click" /\ Must \subseteq 1 .. 7)
  <2>1. CASE Command \in {"back", "forward"}
    BY <2>1 DEF Must
  <2>2. CASE Command = "reload"
    BY <2>2 DEF Must
  <2>3. CASE Command \in {"goto", "click"}
    <3>1. CASE Impl = "native"
      BY <2>3, <3>1 DEF Must
    <3>2. CASE Impl = "node" /\ Command = "goto"
      BY <3>2 DEF Must
    <3>3. CASE Impl = "node" /\ Command = "click"
      BY <3>3 DEF Must
    <3> QED
      BY <1>1, <2>3, <3>1, <3>2, <3>3
  <2> QED
    BY <1>1, <2>1, <2>2, <2>3 DEF CommandNames
<1> QED
  BY <1>2, <1>3

LEMMA Named ==
  ASSUME program \in Programs, HasLoad
  PROVE  Step("load") = Loading /\ Step("Runtime.evaluate") = Injecting
BY Scripts DEF Step

(* The script does not change while it runs. *)
LEMMA Fixed ==
  ASSUME program' = program
  PROVE  /\ Command' = Command /\ Impl' = Impl /\ Late' = Late /\ Script' = Script /\ Steps' = Steps
         /\ Must' = Must /\ Away' = Away /\ Loading' = Loading /\ Injecting' = Injecting
         /\ Between' = Between /\ HasLoad' = HasLoad /\ Message' = Message
BY DEF Command, Impl, Late, Script, Steps, Must, Away, Loading, Injecting, Between, HasLoad, Message

-----------------------------------------------------------------------------
(* The program's steps, in one form: what they read of the socket, and what became of the
   step of the script. *)

Dropped(k) ==
  /\ k \in 0 .. Len(toClient) /\ toClient' \in Seq(Message) /\ Len(toClient') = Len(toClient) - k
  /\ \A i \in 1 .. Len(toClient) - k : toClient'[i] = toClient[i + k]

Result(m) == IF m.ok THEN "ok" ELSE "error"
Kept  == UNCHANGED <<step, exit, waiting, got, spoke, url, aim>>
Took(m)    == IsReply(m) /\ Advance(Result(m), m.step, m.seen)
LoadGot(k) == /\ Script[step] = "load" /\ Advance("ok", 0, None)
              /\ (Impl = "node" /\ loadSeen) \/ \E i \in 1 .. k : IsLoad(toClient[i])
Lost       == /\ GiveUp
              /\ Script[step] = "load" => closed' \/ Late \/ ~LoadToCome
              /\ Script[step] # "load" /\ waiting = 0 => Slept
Sent == /\ Script[step] # "load" /\ waiting = 0 /\ Slept /\ lastId' = lastId + 1 /\ waiting' = lastId'
        /\ toEngine' = Append(toEngine, [id |-> lastId', step |-> step, aim |-> aim])
        /\ UNCHANGED <<step, exit, got, spoke, url, aim>>

ProgramStep(k) ==
  /\ exit = "running" /\ Dropped(k) /\ UNCHANGED <<program, pageVars>>
  /\ {closed', loadSeen', loadRead'} \subseteq BOOLEAN
  /\ closed' => closed \/ \E i \in 1 .. k : IsClose(toClient[i])
  /\ loadSeen' => loadSeen \/ \E i \in 1 .. k : IsLoad(toClient[i])
  /\ \/ Sent
     \/ /\ UNCHANGED <<lastId, toEngine>>
        /\ Kept \/ (waiting # 0 /\ \E i \in 1 .. k : Took(toClient[i])) \/ LoadGot(k) \/ Lost

LEMMA DroppedNone ==
  ASSUME toClient \in Seq(Message), program' = program, toClient' = toClient
  PROVE  Dropped(0)
BY Fixed DEF Dropped

LEMMA DroppedOne ==
  ASSUME toClient \in Seq(Message), program' = program, toClient # << >>, toClient' = Tail(toClient)
  PROVE  Dropped(1) /\ 1 \in 1 .. Len(toClient) /\ Head(toClient) = toClient[1]
<1> DEFINE S == Message
<1>1. toClient \in Seq(S)
  OBVIOUS
<1> HIDE DEF S
<1>2. 1 \in 1 .. Len(toClient) /\ 1 \in 0 .. Len(toClient) /\ Tail(toClient) \in Seq(S) /\ Len(Tail(toClient)) = Len(toClient) - 1
      /\ \A i \in 1 .. Len(toClient) - 1 : Tail(toClient)[i] = toClient[i + 1]
  BY <1>1
<1> QED
  BY <1>1, <1>2 DEF Dropped, S

LEMMA DroppedMany ==
  ASSUME toClient \in Seq(Message), program' = program, NEW n \in 1 .. Len(toClient),
         toClient' = SubSeq(toClient, n + 1, Len(toClient))
  PROVE  Dropped(n)
<1> DEFINE S == Message
<1>1. toClient \in Seq(S)
  OBVIOUS
<1> HIDE DEF S
<1>2. n \in 0 .. Len(toClient) /\ toClient' \in Seq(S) /\ Len(toClient') = Len(toClient) - n
      /\ \A i \in 1 .. Len(toClient) - n : toClient'[i] = toClient[i + n]
  BY <1>1
<1> QED
  BY <1>1, <1>2 DEF Dropped, S

ProgramNext == Send \/ SendAndWait \/ SendTimeout \/ WaitEvent \/ LoadTimeout \/ OnMessage \/ LoadAwaited

LEMMA ProgramSteps ==
  ASSUME Typed, Ids, ProgramNext
  PROVE  \E k \in Nat : ProgramStep(k)
<1> USE DEF Kept
<1>1. /\ toClient \in Seq(Message) /\ {closed, loadSeen, loadRead} \subseteq BOOLEAN
      /\ waiting # 0 => Script[step] # "load"
      /\ \A i \in DOMAIN toClient : toClient[i].kind = "reply" => toClient[i].id # 0
  BY DEF Typed, TypeOK, Ids, UnderWay
<1>2. ASSUME Send PROVE ProgramStep(0)
  <2>1. /\ UNCHANGED <<program, closed, loadSeen, loadRead, toClient, pageVars>>
        /\ exit = "running" /\ Script[step] # "load" /\ waiting = 0
    BY <1>2 DEF Send, Running
  <2>2. Sent \/ (Lost /\ UNCHANGED <<lastId, toEngine>>)
    BY <1>2, <2>1 DEF Send, Sent, Lost
  <2> QED
    BY <1>1, <2>1, <2>2, DroppedNone DEF ProgramStep
<1>3. ASSUME SendAndWait PROVE \E k \in Nat : ProgramStep(k)
  <2>1. PICK n \in 1 .. Len(toClient) :
          LET batch == {toClient[i] : i \in 1 .. n} IN
          /\ toClient' = SubSeq(toClient, n + 1, Len(toClient))
          /\ Reads(batch)
          /\ closed' = \E m \in batch : IsClose(m)
          /\ IF closed' THEN GiveUp
             ELSE IF \E m \in batch : IsReply(m)
             THEN \E m \in batch : IsReply(m) /\ Advance(IF m.ok THEN "ok" ELSE "error", m.step, m.seen)
             ELSE Kept
    BY <1>3 DEF SendAndWait
  <2>2. /\ exit = "running" /\ waiting # 0 /\ UNCHANGED <<program, pageVars, lastId, loadSeen, toEngine>>
    BY <1>3 DEF SendAndWait, Running
  <2>3. Dropped(n) /\ n \in Nat
    BY <1>1, <2>1, <2>2, DroppedMany
  <2>4. closed' \in BOOLEAN /\ loadRead' \in BOOLEAN /\ loadSeen' \in BOOLEAN
    BY <1>1, <2>1, <2>2 DEF Reads
  <2>5. closed' => \E i \in 1 .. n : IsClose(toClient[i])
    BY <2>1
  <2>6. Kept \/ (\E i \in 1 .. n : Took(toClient[i])) \/ Lost
    BY <1>1, <2>1, <2>2 DEF Took, Result, Lost
  <2>7. ProgramStep(n)
    BY <2>2, <2>3, <2>4, <2>5, <2>6 DEF ProgramStep
  <2> QED
    BY <2>3, <2>7
<1>4. ASSUME SendTimeout PROVE ProgramStep(0)
  <2>1. /\ UNCHANGED <<program, lastId, closed, loadSeen, loadRead, toEngine, toClient, pageVars>>
        /\ exit = "running" /\ Lost
    BY <1>4 DEF SendTimeout, Running, Lost
  <2> QED
    BY <1>1, <2>1, DroppedNone DEF ProgramStep
<1>5. ASSUME WaitEvent PROVE \E k \in Nat : ProgramStep(k)
  <2>1. PICK n \in 1 .. Len(toClient) :
          LET batch == {toClient[i] : i \in 1 .. n} IN
          /\ toClient' = SubSeq(toClient, n + 1, Len(toClient))
          /\ Reads(batch)
          /\ closed' = \E m \in batch : IsClose(m)
          /\ loadSeen' = (~closed' /\ \E m \in batch : IsLoad(m))
          /\ IF closed' \/ loadSeen' THEN Advance(IF closed' THEN "lost" ELSE "ok", 0, None)
             ELSE Kept
    BY <1>5 DEF WaitEvent
  <2>2. /\ exit = "running" /\ UNCHANGED <<program, pageVars, lastId, toEngine>> /\ Script[step] = "load"
    BY <1>5 DEF WaitEvent, Running
  <2>3. Dropped(n) /\ n \in Nat
    BY <1>1, <2>1, <2>2, DroppedMany
  <2>4. closed' \in BOOLEAN /\ loadRead' \in BOOLEAN /\ loadSeen' \in BOOLEAN
    BY <1>1, <2>1, <2>2 DEF Reads
  <2>5. /\ closed' => \E i \in 1 .. n : IsClose(toClient[i])
        /\ loadSeen' => \E i \in 1 .. n : IsLoad(toClient[i])
    BY <2>1
  <2>6. Kept \/ LoadGot(n) \/ Lost
    BY <1>1, <2>1, <2>2, <2>5 DEF LoadGot, Lost, GiveUp
  <2>7. ProgramStep(n)
    BY <2>2, <2>3, <2>4, <2>5, <2>6 DEF ProgramStep
  <2> QED
    BY <2>3, <2>7
<1>6. ASSUME LoadTimeout PROVE ProgramStep(0)
  <2>1. /\ UNCHANGED <<program, lastId, closed, loadSeen, loadRead, toEngine, toClient, pageVars>>
        /\ exit = "running" /\ Lost
    BY <1>6 DEF LoadTimeout, Running, Lost
  <2> QED
    BY <1>1, <2>1, DroppedNone DEF ProgramStep
<1>7. ASSUME OnMessage PROVE ProgramStep(1)
  <2>1. /\ exit = "running" /\ toClient # << >> /\ toClient' = Tail(toClient)
        /\ UNCHANGED <<program, pageVars, lastId, toEngine>>
    BY <1>7 DEF OnMessage, Running
  <2>2. Dropped(1) /\ 1 \in 1 .. Len(toClient) /\ Head(toClient) = toClient[1]
    BY <1>1, <2>1, DroppedOne
  <2> DEFINE m == toClient[1]
  <2>3. /\ Reads({m}) /\ closed' = (closed \/ IsClose(m)) /\ loadSeen' = (loadSeen \/ IsLoad(m))
        /\ IF IsReply(m) THEN Took(m) ELSE IF IsClose(m) /\ waiting # 0 THEN GiveUp ELSE Kept
    BY <1>7, <2>2 DEF OnMessage, Took, Result
  <2>4. closed' \in BOOLEAN /\ loadRead' \in BOOLEAN /\ loadSeen' \in BOOLEAN
    BY <1>1, <2>3 DEF Reads
  <2>5. IsReply(m) => waiting # 0
    BY <1>1, <2>2 DEF IsReply
  <2> HIDE DEF m
  <2>6. Kept \/ (waiting # 0 /\ Took(m)) \/ Lost
    BY <2>3, <2>5 DEF Lost
  <2>7. /\ closed' => closed \/ \E i \in 1 .. 1 : IsClose(toClient[i])
        /\ loadSeen' => loadSeen \/ \E i \in 1 .. 1 : IsLoad(toClient[i])
    <3>1. (closed' => closed \/ IsClose(m)) /\ (loadSeen' => loadSeen \/ IsLoad(m))
      BY <2>3
    <3>2. 1 \in 1 .. 1
      OBVIOUS
    <3> QED
      BY <3>1, <3>2, Zenon DEF m
  <2>8. waiting # 0 /\ Took(m) => waiting # 0 /\ \E i \in 1 .. 1 : Took(toClient[i])
    BY DEF m
  <2>9. Kept \/ (waiting # 0 /\ \E i \in 1 .. 1 : Took(toClient[i])) \/ Lost
    BY <2>6, <2>8
  <2> HIDE DEF Kept
  <2> QED
    BY <2>1, <2>2, <2>4, <2>7, <2>9 DEF ProgramStep
<1>8. ASSUME LoadAwaited PROVE ProgramStep(0)
  <2>1. /\ UNCHANGED <<program, lastId, closed, loadSeen, loadRead, toEngine, toClient, pageVars>>
        /\ exit = "running" /\ LoadGot(0)
    BY <1>8 DEF LoadAwaited, Running, LoadGot
  <2> QED
    BY <1>1, <2>1, DroppedNone DEF ProgramStep
<1> QED
  BY <1>2, <1>3, <1>4, <1>5, <1>6, <1>7, <1>8 DEF ProgramNext

LEMMA AdvanceIs ==
  ASSUME program \in Programs, step \in Steps, exit = "running",
         NEW outcome, NEW from, NEW reported, Advance(outcome, from, reported)
  PROVE  /\ got' = [got EXCEPT ![step] = outcome] /\ spoke' = [spoke EXCEPT ![step] = from]
         /\ waiting' = 0 /\ aim' = Aim(outcome, reported)
         /\ url' = IF Script[step] = "Page.getFrameTree"
                   THEN [url EXCEPT ![step] = UrlOf(outcome, reported)] ELSE url
         /\ exit' \in {"running", "complete", "failed"} /\ step' \in Steps
         /\ exit' = "running" => step' = step + 1
         /\ exit' # "running" => step' = step
         /\ outcome # "ok" /\ step \in Must => exit' = "failed"
         /\ Between /\ step = 2 /\ aim' = "none" => exit' = "failed"
         /\ exit' = "complete" => \/ step = Len(Script)
                                  \/ Command = "click" /\ step = 6 /\ url'[6] = url[3]
<1> DEFINE failed == \/ outcome # "ok" /\ step \in Must
                     \/ Script[step] = "Page.getNavigationHistory" /\ aim' = "none"
           done   == \/ step = Len(Script)
                     \/ Command = "click" /\ step = 6 /\ url'[6] = url[3]
<1>1. /\ got' = [got EXCEPT ![step] = outcome] /\ spoke' = [spoke EXCEPT ![step] = from]
      /\ waiting' = 0 /\ aim' = Aim(outcome, reported)
      /\ url' = IF Script[step] = "Page.getFrameTree"
                THEN [url EXCEPT ![step] = UrlOf(outcome, reported)] ELSE url
  BY DEF Advance
<1>2. /\ exit' = IF failed THEN "failed" ELSE IF done THEN "complete" ELSE "running"
      /\ step' = IF failed \/ done THEN step ELSE step + 1
  BY DEF Advance
<1>3. Between /\ step = 2 => Script[step] = "Page.getNavigationHistory"
  BY Scripts
<1>4. ~done => step + 1 \in Steps
  BY Scripts
<1>5. done => \/ step = Len(Script)
              \/ Command = "click" /\ step = 6 /\ url'[6] = url[3]
  OBVIOUS
<1>6. /\ outcome # "ok" /\ step \in Must => failed
      /\ Between /\ step = 2 /\ aim' = "none" => failed
  BY <1>3
<1> HIDE DEF failed, done
<1>7. exit' \in {"running", "complete", "failed"} /\ step' \in Steps
  BY <1>2, <1>4
<1>8. /\ exit' = "running" => ~failed /\ ~done
      /\ exit' # "running" => failed \/ done
      /\ failed => exit' = "failed"
      /\ exit' = "complete" => done
  BY <1>2
<1> QED
  BY <1>1, <1>2, <1>5, <1>6, <1>7, <1>8

(* Every step that ends a step of the script, whatever came of it. *)
LEMMA Over ==
  ASSUME NEW k \in Nat, ProgramStep(k), ~Sent, ~Kept
  PROVE  \E outcome, from, reported : outcome \in {"ok", "error", "lost"} /\ Advance(outcome, from, reported)
<1>1. CASE \E i \in 1 .. k : Took(toClient[i])
  <2>1. PICK i \in 1 .. k : Took(toClient[i])
    BY <1>1
  <2>2. Result(toClient[i]) \in {"ok", "error", "lost"}
    BY DEF Result
  <2> QED
    BY <2>1, <2>2 DEF Took
<1>2. CASE LoadGot(k)
  BY <1>2 DEF LoadGot
<1>3. CASE Lost
  BY <1>3 DEF Lost, GiveUp
<1> QED
  BY <1>1, <1>2, <1>3 DEF ProgramStep

LEMMA Basics ==
  ASSUME Typed
  PROVE  /\ program \in Programs /\ step \in Steps /\ lastId \in Nat /\ waiting \in Nat
         /\ toClient \in Seq(Message) /\ DOMAIN toClient = 1 .. Len(toClient) /\ Len(toClient) \in Nat
         /\ DOMAIN toEngine = 1 .. Len(toEngine) /\ Len(toEngine) \in Nat
         /\ got \in [Steps -> {"none", "ok", "error", "lost"}]
         /\ url \in [Steps -> Urls \cup {"none"}]
         /\ Steps = 1 .. Len(Script) /\ Len(Script) \in 6 .. 8
BY Scripts DEF Typed, TypeOK

LEMMA StillPending ==
  ASSUME Typed, Ids, NEW k \in Nat, ProgramStep(k), NEW s \in Steps, Pending(s)'
  PROVE  Pending(s)
<1>0. exit = "running" /\ step \in Nat /\ s \in Nat
  BY Basics DEF ProgramStep
<1>1. CASE Sent
  <2>1. step' = step /\ waiting' # 0 /\ waiting = 0 /\ exit' = exit
    BY <1>1, Basics DEF Sent
  <2>2. CASE ToSend(s)'
    BY <2>1, <2>2, <1>0 DEF ToSend, Pending
  <2>3. CASE OnItsWay(s)'
    <3>1. toEngine' = Append(toEngine, [id |-> lastId', step |-> step, aim |-> aim])
      BY <1>1 DEF Sent
    <3>2. PICK j \in DOMAIN toEngine' : toEngine'[j].step = s
      BY <2>3 DEF OnItsWay
    <3>3. (j \in DOMAIN toEngine /\ toEngine'[j] = toEngine[j]) \/ s = step
      BY <3>1, <3>2 , Basics DEF Typed, TypeOK
    <3> QED
      BY <3>2, <3>3, <2>1, <1>0 DEF OnItsWay, Pending, ToSend
  <2> QED
    BY <2>2, <2>3 DEF Pending
<1>2. CASE Kept
  BY <1>2 DEF Kept, ProgramStep, Sent, Pending, ToSend, OnItsWay
<1>3. CASE ~Sent /\ ~Kept
  <2>1. PICK outcome, from, reported : outcome \in {"ok", "error", "lost"} /\ Advance(outcome, from, reported)
    BY <1>3, Over
  <2>2. exit' = "running" => step' = step + 1
    BY <2>1, Basics, <1>0, AdvanceIs
  <2>3. toEngine' = toEngine
    BY <1>3 DEF ProgramStep
  <2> QED
    BY <2>2, <2>3, <1>0 DEF Pending, ToSend, OnItsWay
<1> QED
  BY <1>1, <1>2, <1>3

(* A message left was there before. *)
LEMMA Older ==
  ASSUME Typed, NEW k \in Nat, Dropped(k), NEW i \in DOMAIN toClient'
  PROVE  /\ i \in Nat /\ i + k \in DOMAIN toClient /\ toClient'[i] = toClient[i + k] /\ i + k > k
BY Basics DEF Dropped

(* A reply taken is the one to the step at hand. *)
LEMMA TakenIs ==
  ASSUME Typed, Ids, NEW k \in Nat, ProgramStep(k), NEW i \in 1 .. k, Took(toClient[i]), waiting # 0
  PROVE  /\ i \in DOMAIN toClient /\ toClient[i] \in Message /\ toClient[i].kind = "reply"
         /\ toClient[i].step = step /\ Script[step] # "load" /\ toClient[i].ok \in BOOLEAN
         /\ toClient[i].seen \in Seen
         /\ toClient[i].seen.index \in DOMAIN toClient[i].seen.entries
<1>1. i \in DOMAIN toClient
  BY Basics DEF ProgramStep, Dropped
<1>2. toClient[i] \in Message
  BY <1>1, Basics
<1>3. toClient[i].kind = "reply" /\ toClient[i].id = waiting
  BY DEF Took, IsReply
<1>4. toClient[i].step = step /\ Script[step] # "load"
  BY <1>1, <1>3 DEF Ids, UnderWay
<1>5. toClient[i].ok \in BOOLEAN /\ toClient[i].seen \in Seen
  BY <1>2, <1>3 DEF Message
<1> QED
  BY <1>1, <1>2, <1>3, <1>4, <1>5 DEF Typed

(* A step is ok from the reply that it took. *)
LEMMA NewlyOk ==
  ASSUME Typed, Ids, NEW k \in Nat, ProgramStep(k), NEW s \in Steps, Script[s] # "load",
         got'[s] = "ok", got[s] # "ok"
  PROVE  \E i \in 1 .. k : i \in DOMAIN toClient /\ Good(toClient[i], s) /\ Took(toClient[i]) /\ s = step
<1>0. exit = "running" /\ program \in Programs /\ step \in Steps
      /\ got \in [Steps -> {"none", "ok", "error", "lost"}]
  BY Basics DEF ProgramStep
<1>1. ~Sent /\ ~Kept
  BY DEF Sent, Kept
<1>2. PICK outcome, from, reported : outcome \in {"ok", "error", "lost"} /\ Advance(outcome, from, reported)
  BY <1>1, Over
<1>3. s = step
  BY <1>0, <1>2, AdvanceIs
<1>4. ~LoadGot(k)
  BY <1>3 DEF LoadGot
<1>5. ~Lost
  <2>1. SUFFICES ASSUME Advance("lost", 0, None) PROVE FALSE
    BY DEF Lost, GiveUp
  <2>2. got' = [got EXCEPT ![step] = "lost"]
    BY <2>1, <1>0, AdvanceIs
  <2> QED
    BY <2>2, <1>3, <1>0
<1>6. waiting # 0 /\ \E i \in 1 .. k : Took(toClient[i])
  BY <1>1, <1>4, <1>5 DEF ProgramStep
<1>7. PICK i \in 1 .. k : Took(toClient[i])
  BY <1>6
<1>8. i \in DOMAIN toClient /\ toClient[i].kind = "reply" /\ toClient[i].step = step /\ toClient[i].ok \in BOOLEAN
  BY <1>6, <1>7, TakenIs
<1>9. got' = [got EXCEPT ![step] = Result(toClient[i])]
  BY <1>7, <1>0, AdvanceIs DEF Took
<1>10. toClient[i].ok
  BY <1>9, <1>3, <1>0 DEF Result
<1> QED
  BY <1>7, <1>8, <1>10, <1>3 DEF Good, ReplyTo

LEMMA StillAnswered ==
  ASSUME Typed, Ids, NEW k \in Nat, ProgramStep(k), NEW s \in Steps, Script[s] # "load", Answered(s)'
  PROVE  Answered(s)
<1>1. CASE \E i \in DOMAIN toClient' : Good(toClient'[i], s)
  <2>1. PICK i \in DOMAIN toClient' : Good(toClient'[i], s)
    BY <1>1
  <2>2. i + k \in DOMAIN toClient /\ Good(toClient[i + k], s)
    BY <2>1, Older DEF ProgramStep
  <2> QED
    BY <2>2 DEF Answered
<1>2. CASE got'[s] = "ok" /\ got[s] # "ok"
  BY <1>2, NewlyOk DEF Answered
<1> QED
  BY <1>1, <1>2 DEF Answered

LEMMA StillReported ==
  ASSUME Typed, Ids, Progress, NEW k \in Nat, ProgramStep(k), NEW s \in Steps, NEW u,
         Script[s] = "Page.getFrameTree", Reported(s, u)'
  PROVE  Reported(s, u)
<1>0. exit = "running" /\ Dropped(k) /\ program \in Programs /\ step \in Steps
      /\ got \in [Steps -> {"none", "ok", "error", "lost"}] /\ url \in [Steps -> Urls \cup {"none"}]
  BY Basics DEF ProgramStep
<1>1. CASE \E i \in DOMAIN toClient' : Good(toClient'[i], s) /\ Current(toClient'[i].seen) = u
  <2>1. PICK i \in DOMAIN toClient' : Good(toClient'[i], s) /\ Current(toClient'[i].seen) = u
    BY <1>1
  <2>2. i + k \in DOMAIN toClient /\ Good(toClient[i + k], s) /\ Current(toClient[i + k].seen) = u
    BY <1>0, <2>1, Older
  <2> QED
    BY <2>2 DEF Reported
<1>2. CASE got'[s] = "ok" /\ url'[s] = u /\ got[s] # "ok"
  <2>1. PICK i \in 1 .. k : i \in DOMAIN toClient /\ Good(toClient[i], s) /\ Took(toClient[i]) /\ s = step
    BY <1>2, NewlyOk
  <2>2. url' = [url EXCEPT ![step] = UrlOf(Result(toClient[i]), toClient[i].seen)]
    BY <2>1, <1>0, AdvanceIs DEF Took
  <2>3. Result(toClient[i]) = "ok"
    BY <2>1 DEF Good, Result
  <2>4. u = Current(toClient[i].seen)
    BY <1>0, <1>2, <2>1, <2>2, <2>3 DEF UrlOf, Current
  <2> QED
    BY <2>1, <2>4 DEF Reported
<1>3. CASE got'[s] = "ok" /\ url'[s] = u /\ got[s] = "ok"
  <2>1. CASE Sent \/ Kept
    BY <1>3, <2>1 DEF Sent, Kept, Reported
  <2>2. CASE ~Sent /\ ~Kept
    <3>1. PICK outcome, from, reported : outcome \in {"ok", "error", "lost"} /\ Advance(outcome, from, reported)
      BY <2>2, Over
    <3>2. url' = url \/ url' = [url EXCEPT ![step] = UrlOf(outcome, reported)]
      BY <3>1, <1>0, AdvanceIs
    <3>3. s # step
      BY <1>0, <1>3 DEF Progress
    <3> QED
      BY <3>2, <3>3, <1>0, <1>3 DEF Reported
  <2> QED
    BY <2>1, <2>2
<1> QED
  BY <1>1, <1>2, <1>3 DEF Reported

-----------------------------------------------------------------------------
(* The engine's steps *)

(* Handle, with the outcome named. *)
Reply(c, ok) == [kind |-> "reply", id |-> c.id, step |-> c.step, ok |-> ok,
                 seen |-> [entries |-> history, index |-> index]]
Handling(c, ok) ==
  /\ up /\ toEngine # << >> /\ c = Head(toEngine) /\ toEngine' = Tail(toEngine)
  /\ toClient' = Append(toClient, Reply(c, ok))
  /\ IF ok THEN Does(Script[c.step], c.aim) ELSE UNCHANGED <<nav, newUrl, index>>
  /\ historyRead' = IF Script[c.step] = "Page.getNavigationHistory"
                    THEN [entries |-> history, index |-> index] ELSE historyRead
  /\ oldLoading' = (oldLoading /\ nav' = nav)
  /\ timer' = (timer \/ (ok /\ Script[c.step] = "Runtime.evaluate"))
  /\ UNCHANGED <<programVars, history, oldLoaded, up>>

Asked == [id : Nat, step : Steps, aim : Urls \cup {"none"}]

LEMMA HandleIs ==
  ASSUME Handle
  PROVE  \E c, ok : ok \in BOOLEAN /\ Handling(c, ok)
BY DEF Handle, Handling, Push, Reply

(* The engine takes the first command. *)
LEMMA Taken ==
  ASSUME Typed, Ids, NEW c, NEW ok \in BOOLEAN, Handling(c, ok)
  PROVE  /\ 1 \in DOMAIN toEngine /\ c = toEngine[1] /\ c \in Asked /\ UnderWay(c) /\ OnItsWay(c.step)
         /\ toEngine' \in Seq(Asked) /\ DOMAIN toEngine' = 1 .. (Len(toEngine) - 1)
         /\ \A j \in DOMAIN toEngine' : j + 1 \in DOMAIN toEngine /\ toEngine'[j] = toEngine[j + 1] /\ j + 1 # 1
<1>1. toEngine \in Seq(Asked) /\ toEngine # << >> /\ c = Head(toEngine) /\ toEngine' = Tail(toEngine)
  BY DEF Typed, TypeOK, Handling, Asked
<1> DEFINE S == Asked
<1>2. toEngine \in Seq(S)
  BY <1>1
<1> HIDE DEF S
<1>3. /\ 1 \in DOMAIN toEngine /\ c = toEngine[1] /\ c \in S
      /\ toEngine' \in Seq(S) /\ DOMAIN toEngine' = 1 .. (Len(toEngine) - 1)
      /\ \A j \in DOMAIN toEngine' : j + 1 \in DOMAIN toEngine /\ toEngine'[j] = toEngine[j + 1] /\ j + 1 # 1
  BY <1>1, <1>2
<1>4. UnderWay(c)
  BY <1>3 DEF Ids
<1>5. OnItsWay(c.step)
  BY <1>3 DEF OnItsWay
<1> QED
  BY <1>3, <1>4, <1>5 DEF S

LEMMA Put ==
  ASSUME Typed, NEW m \in Message, toClient' = Append(toClient, m)
  PROVE  /\ toClient' \in Seq(Message) /\ DOMAIN toClient' = 1 .. (Len(toClient) + 1)
         /\ \A i \in DOMAIN toClient : i \in DOMAIN toClient' /\ toClient'[i] = toClient[i]
         /\ Len(toClient) + 1 \in DOMAIN toClient' /\ toClient'[Len(toClient) + 1] = m
         /\ \A i \in DOMAIN toClient' : \/ i \in DOMAIN toClient /\ toClient'[i] = toClient[i]
                                        \/ i = Len(toClient) + 1 /\ toClient'[i] = m
<1> DEFINE S == Message
<1>1. toClient \in Seq(S) /\ m \in S
  BY Basics
<1> HIDE DEF S
<1>2. /\ toClient' \in Seq(S) /\ DOMAIN toClient' = 1 .. (Len(toClient) + 1)
      /\ \A i \in DOMAIN toClient : i \in DOMAIN toClient' /\ toClient'[i] = toClient[i]
      /\ Len(toClient) + 1 \in DOMAIN toClient' /\ toClient'[Len(toClient) + 1] = m
      /\ \A i \in DOMAIN toClient' : \/ i \in DOMAIN toClient /\ toClient'[i] = toClient[i]
                                     \/ i = Len(toClient) + 1 /\ toClient'[i] = m
  BY <1>1
<1> QED
  BY <1>2 DEF S

LEMMA ReplyIs ==
  ASSUME Typed, NEW c \in Asked, NEW ok \in BOOLEAN
  PROVE  /\ Reply(c, ok) \in Message /\ Reply(c, ok).kind = "reply" /\ Reply(c, ok).id = c.id
         /\ Reply(c, ok).step = c.step /\ Reply(c, ok).ok = ok
         /\ Reply(c, ok).seen = [entries |-> history, index |-> index]
         /\ Current(Reply(c, ok).seen) = history[index]
         /\ Reply(c, ok).seen.index \in DOMAIN Reply(c, ok).seen.entries
<1>1. history \in Seq(Urls) /\ index \in DOMAIN history
  BY DEF Typed, TypeOK
<1>2. index \in Nat
  BY <1>1
<1> QED
  BY <1>1, <1>2 DEF Reply, Message, Seen, Asked, Current

(* A step is handled once. *)
LEMMA HandledOnce ==
  ASSUME Typed, Ids, NEW c, NEW ok \in BOOLEAN, Handling(c, ok)
  PROVE  /\ c.step \in Steps /\ Pending(c.step) /\ ~Pending(c.step)'
         /\ \A s \in Steps : Pending(s)' => Pending(s)
         /\ \A s \in Steps : Answered(s)' => Answered(s) \/ (s = c.step /\ ok)
         /\ \A s \in Steps : \A u : Reported(s, u)' =>
              Reported(s, u) \/ (s = c.step /\ ok /\ u = history[index])
<1>0. UNCHANGED programVars /\ program' = program
  BY DEF Handling, programVars
<1>1. c.step \in Steps /\ OnItsWay(c.step) /\ UnderWay(c)
  BY Taken DEF Asked
<1>2. \A s : ToSend(s)' = ToSend(s)
  BY <1>0 DEF ToSend, programVars
<1>3. ~ToSend(c.step)
  <2>1. c.step \in 1 .. step /\ (c.step = step /\ exit = "running" => c.id = waiting) /\ c.id \in 1 .. lastId
    BY <1>1 DEF UnderWay
  <2> QED
    BY <2>1, Basics DEF ToSend
<1>4. ~OnItsWay(c.step)'
  <2>1. SUFFICES ASSUME NEW j \in DOMAIN toEngine', toEngine'[j].step = c.step PROVE FALSE
    BY DEF OnItsWay
  <2>2. j + 1 \in DOMAIN toEngine /\ toEngine[j + 1].step = toEngine[1].step /\ 1 < j + 1 /\ 1 \in DOMAIN toEngine
    BY <2>1, Taken, Basics
  <2>3. toEngine[1].step < toEngine[j + 1].step /\ toEngine[1].step \in Nat
    BY <2>2, <1>1, Taken DEF Ids, UnderWay
  <2> QED
    BY <2>2, <2>3
<1>5. \A s : OnItsWay(s)' => OnItsWay(s)
  BY Taken DEF OnItsWay
<1>6. \A i \in DOMAIN toClient' : \/ i \in DOMAIN toClient /\ toClient'[i] = toClient[i]
                                  \/ toClient'[i] = Reply(c, ok)
  BY Taken, Put, ReplyIs DEF Handling
<1>7. \A s \in Steps : Answered(s)' => Answered(s) \/ (s = c.step /\ ok)
  <2>1. \A s : Good(Reply(c, ok), s) => s = c.step /\ ok
    BY Taken, ReplyIs DEF Good, ReplyTo
  <2> QED
    BY <1>0, <1>6, <2>1 DEF Answered, programVars
<1>8. ASSUME NEW s \in Steps, NEW u, Reported(s, u)'
      PROVE  Reported(s, u) \/ (s = c.step /\ ok /\ u = history[index])
  <2>1. Good(Reply(c, ok), s) => s = c.step /\ ok
    BY Taken, ReplyIs DEF Good, ReplyTo
  <2>2. Current(Reply(c, ok).seen) = history[index]
    BY Taken, ReplyIs
  <2>3. CASE got'[s] = "ok" /\ url'[s] = u
    BY <2>3, <1>0 DEF Reported, programVars
  <2>4. CASE \E i \in DOMAIN toClient' : Good(toClient'[i], s) /\ Current(toClient'[i].seen) = u
    BY <2>4, <2>1, <2>2, <1>6 DEF Reported
  <2> QED
    BY <1>8, <2>3, <2>4 DEF Reported
<1> QED
  BY <1>1, <1>2, <1>3, <1>4, <1>5, <1>7, <1>8 DEF Pending

LEMMA IndexOfIs ==
  ASSUME NEW u, Known(u)
  PROVE  IndexOf(u) \in DOMAIN history /\ history[IndexOf(u)] = u
BY DEF Known, IndexOf

(* Only the step that leaves the page moves it. *)
LEMMA Moves ==
  ASSUME Typed, Ids, NEW c, NEW ok \in BOOLEAN, Handling(c, ok)
  PROVE  /\ UNCHANGED <<programVars, history, oldLoaded, up>> /\ program' = program
         /\ UNCHANGED <<program, step, exit, lastId, waiting, closed, loadSeen, got, spoke, url, aim, loadRead>>
         /\ nav' \in {nav, "asked"} /\ newUrl' \in Urls /\ index' \in DOMAIN history
         /\ c.step # Away \/ ~ok => UNCHANGED <<nav, newUrl, index>>
         /\ ~Between => index' = index
         /\ Command = "click" => \/ UNCHANGED <<nav, newUrl>>
                                 \/ nav' = "asked" /\ newUrl' \in {"old", "new"}
         /\ Between /\ c.step = Away /\ ok =>
              \/ SameDocument(c.aim) /\ nav' = nav /\ newUrl' = newUrl /\ history[index'] = c.aim
              \/ nav' = "asked" /\ newUrl' = c.aim /\ Known(c.aim) /\ index' = index
<1>1. UNCHANGED <<programVars, history, oldLoaded, up>>
  BY DEF Handling
<1>2. UNCHANGED <<program, step, exit, lastId, waiting, closed, loadSeen, got, spoke, url, aim, loadRead>>
  BY <1>1 DEF programVars
<1>3. /\ newUrl \in Urls /\ index \in DOMAIN history
      /\ c.step \in Steps /\ c.aim \in Urls \cup {"none"} /\ program \in Programs
  BY Taken, Basics DEF Typed, TypeOK, Asked
<1> DEFINE op == Script[c.step]
<1>4. IF ok THEN Does(op, c.aim) ELSE UNCHANGED <<nav, newUrl, index>>
  BY DEF Handling
<1>5. /\ Leaves(op) <=> c.step = Away
      /\ Between /\ c.step = Away => op = "Page.navigateToHistoryEntry"
      /\ Command = "click" /\ c.step = Away => op = "mouseReleased"
      /\ ~Between /\ c.step = Away => op # "Page.navigateToHistoryEntry"
  <2>1. Leaves(op) <=> c.step = Away
    BY <1>3, Scripts
  <2>2. Between /\ c.step = Away => op = "Page.navigateToHistoryEntry"
    BY <1>3, Scripts
  <2>3. Command = "click" /\ c.step = Away => op = "mouseReleased"
    BY <1>3, Scripts, ScriptClick
  <2>4. ~Between /\ c.step = Away => op # "Page.navigateToHistoryEntry"
    <3>1. CASE Command = "goto"
      BY <3>1, ScriptGoto DEF Away
    <3>2. CASE Command = "click"
      BY <3>2, <2>3
    <3>3. CASE Command = "reload"
      BY <3>3, ScriptReload DEF Away
    <3> QED
      BY <3>1, <3>2, <3>3, <1>3, Kinds DEF CommandNames, Between
  <2> QED
    BY <2>1, <2>2, <2>3, <2>4
<1> HIDE DEF op
<1>6. CASE ~ok \/ c.step # Away
  <2>1. UNCHANGED <<nav, newUrl, index>>
    BY <1>4, <1>5, <1>6 DEF Does, Leaves
  <2> QED
    BY <1>1, <1>2, <1>3, <1>6, <2>1
<1>7. CASE ok /\ c.step = Away /\ op = "Page.navigate"
  <2>1. nav' = "asked" /\ newUrl' \in (IF c.aim = "none" THEN {"old"} ELSE {c.aim}) \cup {"new"} /\ index' = index
    BY <1>4, <1>7 DEF Does
  <2>2. newUrl' \in Urls
    BY <2>1, <1>3 DEF Urls
  <2> QED
    BY <1>1, <1>2, <1>3, <1>5, <1>7, <2>1, <2>2
<1>8. CASE ok /\ c.step = Away /\ op = "mouseReleased"
  <2>1. /\ index' = index
        /\ \/ nav' = "asked" /\ newUrl' \in {"old", "new"}
           \/ UNCHANGED <<nav, newUrl>>
    BY <1>4, <1>8 DEF Does
  <2>2. newUrl' \in Urls
    BY <2>1, <1>3 DEF Urls
  <2> QED
    BY <1>1, <1>2, <1>3, <1>5, <1>8, <2>1, <2>2
<1>9. CASE ok /\ c.step = Away /\ op = "Page.navigateToHistoryEntry"
  <2>1. /\ Known(c.aim)
        /\ IF SameDocument(c.aim)
           THEN index' = IndexOf(c.aim) /\ UNCHANGED <<nav, newUrl>>
           ELSE nav' = "asked" /\ newUrl' = c.aim /\ UNCHANGED index
    BY <1>4, <1>9 DEF Does
  <2>2. IndexOf(c.aim) \in DOMAIN history /\ history[IndexOf(c.aim)] = c.aim
    BY <2>1, IndexOfIs
  <2>3. c.aim \in Urls
    <3>1. PICK i \in DOMAIN history : history[i] = c.aim
      BY <2>1 DEF Known
    <3> QED
      BY <3>1 DEF Typed, TypeOK
  <2>4. Between /\ Command # "click"
    BY <1>5, <1>9
  <2>5. \/ SameDocument(c.aim) /\ nav' = nav /\ newUrl' = newUrl /\ history[index'] = c.aim
        \/ nav' = "asked" /\ newUrl' = c.aim /\ Known(c.aim) /\ index' = index
    BY <2>1, <2>2
  <2>6. nav' \in {nav, "asked"} /\ newUrl' \in Urls /\ index' \in DOMAIN history
    BY <2>1, <2>2, <2>3, <1>3
  <2> QED
    BY <1>1, <1>2, <2>4, <2>5, <2>6, <1>9
<1> QED
  BY <1>5, <1>6, <1>7, <1>8, <1>9 DEF Leaves

(* The page's own steps: they say nothing of a step of the script. *)
Aside == /\ UNCHANGED <<programVars, toEngine>>
         /\ \/ UNCHANGED toClient
            \/ \E m \in [kind : {"load", "close"}] : toClient' = Append(toClient, m)

LEMMA PageSteps ==
  ASSUME PushState \/ Commit \/ Load \/ ShutDown
  PROVE  Aside
BY DEF PushState, Commit, Load, ShutDown, Push, Aside

LEMMA AsideSays ==
  ASSUME Typed, Aside
  PROVE  /\ \A s : Pending(s)' <=> Pending(s)
         /\ \A s : Answered(s)' => Answered(s)
         /\ \A s, u : Reported(s, u)' => Reported(s, u)
         /\ UNCHANGED <<program, step, exit, lastId, waiting, closed, loadSeen, got, spoke, url, aim, loadRead>>
<1>1. UNCHANGED <<program, step, exit, lastId, waiting, closed, loadSeen, got, spoke, url, aim, loadRead, toEngine>>
  BY DEF Aside, programVars
<1>2. \A i \in DOMAIN toClient' : \/ i \in DOMAIN toClient /\ toClient'[i] = toClient[i]
                                  \/ toClient'[i].kind # "reply"
  <2>1. CASE UNCHANGED toClient
    BY <2>1
  <2>2. CASE \E m \in [kind : {"load", "close"}] : toClient' = Append(toClient, m)
    <3>1. PICK m \in [kind : {"load", "close"}] : toClient' = Append(toClient, m)
      BY <2>2
    <3>2. m \in Message /\ m.kind # "reply"
      BY DEF Message
    <3> QED
      BY <3>1, <3>2, Put
  <2> QED
    BY <2>1, <2>2 DEF Aside
<1>3. \A s : Pending(s)' <=> Pending(s)
  BY <1>1 DEF Pending, ToSend, OnItsWay
<1>4. \A s : Answered(s)' => Answered(s)
  BY <1>1, <1>2 DEF Answered, Good, ReplyTo
<1>5. \A s, u : Reported(s, u)' => Reported(s, u)
  BY <1>1, <1>2 DEF Reported, Good, ReplyTo
<1> QED
  BY <1>1, <1>3, <1>4, <1>5

-----------------------------------------------------------------------------
(* Types *)

LEMMA Tuples ==
  ASSUME NEW a \in Urls, NEW b \in Urls, NEW c \in Urls
  PROVE  /\ <<a>> \in Seq(Urls) /\ DOMAIN <<a>> = 1 .. 1 /\ Len(<<a>>) = 1 /\ <<a>>[1] = a
         /\ <<a, b>> \in Seq(Urls) /\ DOMAIN <<a, b>> = 1 .. 2 /\ Len(<<a, b>>) = 2
         /\ <<a, b>>[1] = a /\ <<a, b>>[2] = b
         /\ <<a, b, c>> \in Seq(Urls) /\ DOMAIN <<a, b, c>> = 1 .. 3 /\ Len(<<a, b, c>>) = 3
         /\ <<a, b, c>>[1] = a /\ <<a, b, c>>[2] = b /\ <<a, b, c>>[3] = c
OBVIOUS

LEMMA UrlsAre == "before" \in Urls /\ "old" \in Urls /\ "pushed" \in Urls /\ "after" \in Urls /\ "new" \in Urls
BY DEF Urls

LEMMA First ==
  ASSUME NEW h, h \in {<<"old", "after">>, <<"before", "old">>, <<"before", "old", "after">>, <<"old">>}
  PROVE  h \in Seq(Urls) /\ ((h[1] = "old" /\ 1 \in DOMAIN h) \/ (h[2] = "old" /\ 2 \in DOMAIN h))
<1>1. CASE h = <<"old", "after">>
  BY <1>1, UrlsAre, Tuples
<1>2. CASE h = <<"before", "old">>
  BY <1>2, UrlsAre, Tuples
<1>3. CASE h = <<"before", "old", "after">>
  BY <1>3, UrlsAre, Tuples
<1>4. CASE h = <<"old">>
  BY <1>4, UrlsAre, Tuples
<1> QED
  BY <1>1, <1>2, <1>3, <1>4

LEMMA InitTyped == Init => Typed
<1>1. SUFFICES ASSUME Init PROVE Typed
  OBVIOUS
<1>2. program \in Programs
  BY <1>1 DEF Init
<1>3. history \in {<<"old", "after">>, <<"before", "old">>, <<"before", "old", "after">>, <<"old">>}
  BY <1>1 DEF Init
<1>4. history \in Seq(Urls) /\ \E i \in DOMAIN history : history[i] = "old"
  BY <1>3, First
<1>5. index \in DOMAIN history
  BY <1>1, <1>4 DEF Init
<1>6. 1 \in Steps
  BY <1>2, Scripts
<1>7. None \in Seen
  BY DEF None, Seen
<1>8. << >> \in Seq(Message) /\ << >> \in Seq(Asked) /\ toClient = << >> /\ toEngine = << >>
  BY <1>1 DEF Init
<1>9. TypeOK
  BY <1>1, <1>2, <1>4, <1>5, <1>6, <1>7, <1>8, ParametersAssumption DEF Init, TypeOK, Urls, Asked
<1> QED
  BY <1>1, <1>8, <1>9 DEF Typed, Init

LEMMA AdvanceTyped ==
  ASSUME Typed, exit = "running", NEW outcome \in {"ok", "error", "lost"}, NEW from \in Steps \cup {0},
         NEW reported \in Seen, Advance(outcome, from, reported),
         outcome = "ok" /\ Script[step] # "load" => reported.index \in DOMAIN reported.entries
  PROVE  /\ step' \in Steps /\ exit' \in {"running", "complete", "failed"} /\ waiting' \in Nat
         /\ got' \in [Steps -> {"none", "ok", "error", "lost"}]
         /\ spoke' \in [Steps -> Steps \cup {0}]
         /\ url' \in [Steps -> Urls \cup {"none"}]
         /\ aim' \in Urls \cup {"none"}
<1>1. /\ program \in Programs /\ step \in Steps /\ got \in [Steps -> {"none", "ok", "error", "lost"}]
      /\ spoke \in [Steps -> Steps \cup {0}] /\ url \in [Steps -> Urls \cup {"none"}] /\ aim \in Urls \cup {"none"}
      /\ reported.entries \in Seq(Urls)
  BY DEF Typed, TypeOK, Seen
<1>2. /\ step' \in Steps /\ exit' \in {"running", "complete", "failed"} /\ waiting' = 0
      /\ got' = [got EXCEPT ![step] = outcome] /\ spoke' = [spoke EXCEPT ![step] = from]
      /\ aim' = Aim(outcome, reported)
      /\ url' = IF Script[step] = "Page.getFrameTree"
                THEN [url EXCEPT ![step] = UrlOf(outcome, reported)] ELSE url
  BY <1>1, AdvanceIs
<1>3. Command = "click" => 3 \in Steps
  BY <1>1, Scripts
<1>4. Script[step] = "Page.getFrameTree" => UrlOf(outcome, reported) \in Urls \cup {"none"}
  <2>1. CASE outcome = "ok"
    BY <1>1, <2>1 DEF UrlOf
  <2>2. CASE outcome # "ok"
    BY <1>1, <1>3, <2>2 DEF UrlOf
  <2> QED
    BY <2>1, <2>2
<1>5. Target(reported) \in Urls \cup {"none"}
  BY <1>1 DEF Target
<1>6. Command = "reload" /\ step = 1 => Script[step] = "Page.getFrameTree"
  BY <1>1, Scripts
<1>7. aim' \in Urls \cup {"none"}
  BY <1>1, <1>2, <1>4, <1>5, <1>6 DEF Aim
<1> QED
  BY <1>1, <1>2, <1>4, <1>7

(* What a program step leaves of the socket keeps its type. *)
LEMMA Under ==
  ASSUME Typed, NEW k \in Nat, ProgramStep(k)
  PROVE  /\ exit = "running" /\ Dropped(k) /\ UNCHANGED <<program, pageVars>>
         /\ UNCHANGED <<nav, newUrl, history, index, historyRead, oldLoading, oldLoaded, timer, up>>
         /\ program' = program
BY DEF ProgramStep, pageVars

LEMMA TypedProgram ==
  ASSUME Typed, Ids, NEW k \in Nat, ProgramStep(k)
  PROVE  Typed'
<1>1. /\ exit = "running" /\ Dropped(k) /\ program' = program /\ toClient' \in Seq(Message)
      /\ UNCHANGED <<nav, newUrl, history, index, historyRead, oldLoading, oldLoaded, timer, up>>
      /\ {closed', loadSeen', loadRead'} \subseteq BOOLEAN
  BY Under DEF ProgramStep, Dropped
<1>2. /\ program \in Programs
      /\ step \in Steps /\ exit \in {"running", "complete", "failed"} /\ lastId \in Nat /\ waiting \in Nat
      /\ got \in [Steps -> {"none", "ok", "error", "lost"}] /\ spoke \in [Steps -> Steps \cup {0}]
      /\ url \in [Steps -> Urls \cup {"none"}] /\ aim \in Urls \cup {"none"} /\ toEngine \in Seq(Asked)
  BY DEF Typed, TypeOK, Asked
<1>3. /\ step' \in Steps /\ exit' \in {"running", "complete", "failed"} /\ lastId' \in Nat /\ waiting' \in Nat
      /\ got' \in [Steps -> {"none", "ok", "error", "lost"}] /\ spoke' \in [Steps -> Steps \cup {0}]
      /\ url' \in [Steps -> Urls \cup {"none"}] /\ aim' \in Urls \cup {"none"} /\ toEngine' \in Seq(Asked)
  <2>1. CASE Sent
    <3>1. /\ lastId' = lastId + 1 /\ waiting' = lastId'
          /\ toEngine' = Append(toEngine, [id |-> lastId', step |-> step, aim |-> aim])
          /\ UNCHANGED <<step, exit, got, spoke, url, aim>>
      BY <2>1 DEF Sent
    <3>2. lastId' \in Nat
      BY <3>1, <1>2
    <3>3. [id |-> lastId', step |-> step, aim |-> aim] \in Asked
      BY <3>2, <1>2 DEF Asked
    <3>4. toEngine' \in Seq(Asked)
      BY <3>1, <3>3, <1>2
    <3> QED
      BY <3>1, <3>2, <3>4, <1>2
  <2>2. CASE Kept /\ UNCHANGED <<lastId, toEngine>>
    BY <2>2, <1>2 DEF Kept
  <2>3. CASE ~Sent /\ ~Kept
    <3>1. UNCHANGED <<lastId, toEngine>>
      BY <2>3 DEF ProgramStep
    <3>2. None \in Seen
      BY DEF None, Seen
    <3>3. CASE waiting # 0 /\ \E i \in 1 .. k : Took(toClient[i])
      <4>1. PICK i \in 1 .. k : Took(toClient[i])
        BY <3>3
      <4>2. /\ toClient[i].step = step /\ toClient[i].ok \in BOOLEAN /\ toClient[i].seen \in Seen
            /\ toClient[i].seen.index \in DOMAIN toClient[i].seen.entries
        BY <3>3, <4>1, TakenIs
      <4>3. Result(toClient[i]) \in {"ok", "error", "lost"}
        BY DEF Result
      <4> QED
        BY <3>1, <4>1, <4>2, <4>3, <1>1, <1>2, AdvanceTyped DEF Took
    <3>4. CASE LoadGot(k)
      BY <3>1, <3>2, <3>4, <1>1, <1>2, AdvanceTyped DEF LoadGot
    <3>5. CASE Lost
      BY <3>1, <3>2, <3>5, <1>1, <1>2, AdvanceTyped DEF Lost, GiveUp
    <3> QED
      BY <2>3, <3>3, <3>4, <3>5 DEF ProgramStep
  <2> QED
    BY <2>1, <2>2, <2>3 DEF ProgramStep
<1>4. Message' = Message /\ Steps' = Steps /\ Between' = Between
  BY <1>1, Fixed
<1>5. TypeOK'
  BY <1>1, <1>2, <1>3, <1>4 DEF Typed, TypeOK, Asked
<1>6. \A i \in DOMAIN toClient' : toClient'[i].kind = "reply" =>
        toClient'[i].seen.index \in DOMAIN toClient'[i].seen.entries
  BY <1>1, Older DEF Typed
<1>7. Between' /\ nav' = "asked" => Known(newUrl)'
  BY <1>1, <1>4 DEF Typed, Known
<1> QED
  BY <1>5, <1>6, <1>7 DEF Typed

LEMMA TypedHandle ==
  ASSUME Typed, Ids, NEW c, NEW ok \in BOOLEAN, Handling(c, ok)
  PROVE  Typed'
<1>1. /\ UNCHANGED <<program, step, exit, lastId, waiting, closed, loadSeen, got, spoke, url, aim, loadRead>>
      /\ UNCHANGED <<history, oldLoaded, up>>
      /\ nav' \in {nav, "asked"} /\ newUrl' \in Urls /\ index' \in DOMAIN history
  BY Moves
<1>2. c \in Asked /\ toEngine' \in Seq(Asked)
  BY Taken
<1>3. Reply(c, ok) \in Message /\ toClient' = Append(toClient, Reply(c, ok))
      /\ Reply(c, ok).seen.index \in DOMAIN Reply(c, ok).seen.entries
  BY <1>2, ReplyIs DEF Handling
<1>4. toClient' \in Seq(Message)
  BY <1>3, Put
<1>5. Message' = Message /\ Steps' = Steps /\ Between' = Between
  BY <1>1, Fixed
<1>6. historyRead' \in Seen /\ oldLoading' \in BOOLEAN /\ timer' \in BOOLEAN
  <2>1. history \in Seq(Urls) /\ index \in Nat /\ historyRead \in Seen /\ oldLoading \in BOOLEAN /\ timer \in BOOLEAN
    BY DEF Typed, TypeOK
  <2>2. [entries |-> history, index |-> index] \in Seen
    BY <2>1 DEF Seen
  <2> QED
    BY <2>1, <2>2 DEF Handling
<1>7. TypeOK'
  BY <1>1, <1>2, <1>4, <1>5, <1>6 DEF Typed, TypeOK, Asked
<1>8. \A i \in DOMAIN toClient' : toClient'[i].kind = "reply" =>
        toClient'[i].seen.index \in DOMAIN toClient'[i].seen.entries
  BY <1>3, Put DEF Typed
<1>9. Between /\ nav' = "asked" => Known(newUrl)'
  <2>1. SUFFICES ASSUME Between, nav' = "asked" PROVE Known(newUrl)'
    OBVIOUS
  <2>2. CASE UNCHANGED <<nav, newUrl>>
    BY <1>1, <2>1, <2>2 DEF Typed, Known
  <2>3. CASE c.step = Away /\ ok
    <3>1. CASE nav' = nav /\ newUrl' = newUrl
      BY <2>2, <3>1
    <3>2. CASE newUrl' = c.aim /\ Known(c.aim)
      BY <1>1, <3>2 DEF Known
    <3> QED
      BY <2>1, <2>3, <3>1, <3>2, Moves
  <2> QED
    BY <2>2, <2>3, Moves
<1> QED
  BY <1>5, <1>7, <1>8, <1>9 DEF Typed

(* The page's own steps, with what each changes. *)
LEMMA TypedAside ==
  ASSUME Typed, PushState \/ Commit \/ Load \/ ShutDown
  PROVE  Typed'
<1>1. UNCHANGED <<program, step, exit, lastId, waiting, closed, loadSeen, got, spoke, url, aim, loadRead>>
      /\ toEngine' = toEngine
  BY PageSteps, AsideSays DEF Aside
<1>2. Message' = Message /\ Steps' = Steps /\ Between' = Between
  BY <1>1, Fixed
<1>3. /\ toClient' \in Seq(Message)
      /\ \A i \in DOMAIN toClient' : toClient'[i].kind = "reply" =>
           toClient'[i].seen.index \in DOMAIN toClient'[i].seen.entries
  <2>1. CASE UNCHANGED toClient
    BY <2>1, Basics DEF Typed
  <2>2. CASE \E m \in [kind : {"load", "close"}] : toClient' = Append(toClient, m)
    <3>1. PICK m \in [kind : {"load", "close"}] : toClient' = Append(toClient, m)
      BY <2>2
    <3>2. m \in Message /\ m.kind # "reply"
      BY DEF Message
    <3> QED
      BY <3>1, <3>2, Put DEF Typed
  <2> QED
    BY <2>1, <2>2, PageSteps DEF Aside
<1>4. /\ nav \in {"old", "asked", "committed", "loaded"} /\ newUrl \in Urls /\ history \in Seq(Urls)
      /\ index \in DOMAIN history /\ historyRead \in Seen
      /\ {oldLoading, oldLoaded} \subseteq BOOLEAN /\ timer \in BOOLEAN /\ up \in BOOLEAN
      /\ Between /\ nav = "asked" => Known(newUrl)
  BY DEF Typed, TypeOK
<1>5. /\ nav' \in {"old", "asked", "committed", "loaded"} /\ newUrl' \in Urls /\ history' \in Seq(Urls)
      /\ index' \in DOMAIN history' /\ historyRead' \in Seen
      /\ {oldLoading', oldLoaded'} \subseteq BOOLEAN /\ timer' \in BOOLEAN /\ up' \in BOOLEAN
      /\ Between /\ nav' = "asked" => Known(newUrl)'
  <2> DEFINE Longer(u) == Append(SubSeq(history, 1, index), u)
  <2>1. ASSUME NEW u \in Urls PROVE Longer(u) \in Seq(Urls) /\ index + 1 \in DOMAIN Longer(u)
    BY <1>4
  <2> HIDE DEF Longer
  <2>2. CASE PushState
    <3>1. /\ history' = Longer("pushed") /\ index' = index + 1 /\ nav = "old"
          /\ UNCHANGED <<nav, newUrl, historyRead, oldLoading, oldLoaded, timer, up>>
      BY <2>2 DEF PushState, Longer
    <3> QED
      BY <3>1, <2>1, <1>4, UrlsAre
  <2>3. CASE Commit
    <3>1. /\ nav = "asked" /\ nav' = "committed" /\ timer' \in BOOLEAN
          /\ UNCHANGED <<newUrl, historyRead, oldLoading, oldLoaded, up>>
      BY <2>3 DEF Commit
    <3>2. CASE Between
      <4>1. index' = IndexOf(newUrl) /\ history' = history
        BY <2>3, <3>2 DEF Commit, Between
      <4> QED
        BY <3>1, <3>2, <4>1, <1>4, IndexOfIs
    <3>3. CASE ~Between
      <4>1. \/ UNCHANGED <<history, index>>
            \/ history' = Longer(newUrl) /\ index' = index + 1
        BY <2>3, <3>3 DEF Commit, Between, Longer
      <4> QED
        BY <3>1, <3>3, <4>1, <2>1, <1>4
    <3> QED
      BY <3>2, <3>3
  <2>4. CASE Load
    <3>1. /\ \/ nav' = "loaded" /\ UNCHANGED <<oldLoading, oldLoaded>>
             \/ oldLoading' = FALSE /\ oldLoaded' = TRUE /\ UNCHANGED nav
          /\ UNCHANGED <<newUrl, history, index, historyRead, timer, up>>
      BY <2>4 DEF Load
    <3> QED
      BY <3>1, <1>4 DEF Known
  <2>5. CASE ShutDown
    BY <2>5, <1>4 DEF ShutDown, Known
  <2> QED
    BY <2>2, <2>3, <2>4, <2>5
<1>6. TypeOK'
  BY <1>1, <1>2, <1>3, <1>5 DEF Typed, TypeOK
<1> QED
  BY <1>2, <1>3, <1>5, <1>6 DEF Typed

-----------------------------------------------------------------------------
(* Ids *)

LEMMA IdsProgram ==
  ASSUME Typed, Ids, NEW k \in Nat, ProgramStep(k)
  PROVE  Ids'
<1>1. /\ exit = "running" /\ Dropped(k) /\ program' = program
      /\ step \in Steps /\ step \in Nat /\ lastId \in Nat /\ waiting \in Nat /\ program \in Programs
  BY Under, Basics
<1>2. Script' = Script
  BY <1>1, Fixed
<1>3. \A i \in DOMAIN toClient' : toClient'[i].kind = "reply" =>
        UnderWay(toClient'[i]) /\ toClient'[i].step \in Steps /\ ~Pending(toClient'[i].step)
  <2>1. SUFFICES ASSUME NEW i \in DOMAIN toClient', toClient'[i].kind = "reply"
                 PROVE  UnderWay(toClient'[i]) /\ toClient'[i].step \in Steps /\ ~Pending(toClient'[i].step)
    OBVIOUS
  <2>2. i + k \in DOMAIN toClient /\ toClient'[i] = toClient[i + k]
    BY <1>1, Older
  <2>3. toClient[i + k].step \in Steps
    BY <2>1, <2>2, Basics DEF Message
  <2> QED
    BY <2>1, <2>2, <2>3 DEF Ids
<1>4. ASSUME NEW s \in Steps, ~Pending(s) PROVE ~Pending(s)'
  BY <1>4, StillPending
<1>5. CASE Sent
  <2>0. PICK new : new = [id |-> lastId', step |-> step, aim |-> aim]
    OBVIOUS
  <2>1. /\ waiting = 0 /\ lastId' = lastId + 1 /\ waiting' = lastId' /\ step' = step /\ exit' = "running"
        /\ toEngine' = Append(toEngine, new) /\ Script[step] # "load"
    BY <1>1, <1>5, <2>0 DEF Sent
  <2>2. ASSUME NEW c, UnderWay(c) PROVE UnderWay(c)' /\ c.step # step
    BY <1>1, <1>2, <2>1, <2>2 DEF UnderWay
  <2>3. UnderWay(new)'
    BY <1>1, <1>2, <2>0, <2>1, Basics DEF UnderWay
  <2>4. \A j \in DOMAIN toEngine' : \/ j \in DOMAIN toEngine /\ toEngine'[j] = toEngine[j]
                                    \/ j = Len(toEngine) + 1 /\ toEngine'[j] = new
    BY <2>1, Basics DEF Typed, TypeOK
  <2>5. \A j \in DOMAIN toEngine : toEngine[j].step # step
    BY <2>2 DEF Ids
  <2>6. new.step = step
    BY <2>0
  <2>7. \A i, j \in DOMAIN toEngine' : i < j => toEngine'[i].step < toEngine'[j].step
    <3>1. SUFFICES ASSUME NEW i \in DOMAIN toEngine', NEW j \in DOMAIN toEngine', i < j
                   PROVE  toEngine'[i].step < toEngine'[j].step
      OBVIOUS
    <3>2. i \in DOMAIN toEngine /\ toEngine'[i] = toEngine[i]
      BY <2>1, <2>4, <3>1, Basics DEF Typed, TypeOK
    <3>3. CASE j \in DOMAIN toEngine /\ toEngine'[j] = toEngine[j]
      BY <3>1, <3>2, <3>3 DEF Ids
    <3>4. CASE toEngine'[j] = new
      <4>1. toEngine[i].step \in 1 .. step /\ toEngine[i].step # step
        BY <3>2, <2>5 DEF Ids, UnderWay
      <4> QED
        BY <3>2, <3>4, <4>1, <2>6, <1>1
    <3> QED
      BY <2>4, <3>3, <3>4
  <2>8. \A j \in DOMAIN toEngine' : UnderWay(toEngine[j])'
    BY <2>2, <2>3, <2>4 DEF Ids
  <2>9. \A i \in DOMAIN toClient' : toClient'[i].kind = "reply" =>
          UnderWay(toClient[i])' /\ ~Pending(toClient[i].step)'
    BY <1>3, <1>4, <2>2
  <2> QED
    BY <1>2, <2>1, <2>7, <2>8, <2>9 DEF Ids
<1>6. CASE Kept /\ UNCHANGED <<lastId, toEngine>>
  <2>1. \A c : UnderWay(c) => UnderWay(c)'
    BY <1>2, <1>6 DEF UnderWay, Kept
  <2>2. \A i \in DOMAIN toClient' : toClient'[i].kind = "reply" =>
          UnderWay(toClient[i])' /\ ~Pending(toClient[i].step)'
    BY <1>3, <1>4, <2>1
  <2> QED
    BY <1>2, <1>6, <2>1, <2>2 DEF Ids, Kept
<1>7. CASE ~Sent /\ ~Kept
  <2>1. PICK outcome, from, reported : outcome \in {"ok", "error", "lost"} /\ Advance(outcome, from, reported)
    BY <1>7, Over
  <2>2. /\ waiting' = 0 /\ exit' = "running" => step' = step + 1
        /\ exit' # "running" => step' = step
        /\ step' \in Nat /\ waiting' = 0
    BY <2>1, <1>1, AdvanceIs, Basics
  <2>3. UNCHANGED <<lastId, toEngine>>
    BY <1>7 DEF ProgramStep
  <2>4. ASSUME NEW c, UnderWay(c) PROVE UnderWay(c)'
    <3>1. c.id \in 1 .. lastId /\ c.step \in 1 .. step /\ Script[c.step] # "load"
      BY <2>4 DEF UnderWay
    <3>2. c.id \in 1 .. lastId' /\ c.id # waiting' /\ c.step \in 1 .. step' /\ (exit' = "running" => c.step # step')
      BY <3>1, <2>2, <2>3, <1>1
    <3> QED
      BY <3>1, <3>2, <1>2 DEF UnderWay
  <2>5. \A i \in DOMAIN toClient' : toClient'[i].kind = "reply" =>
          UnderWay(toClient[i])' /\ ~Pending(toClient[i].step)'
    BY <1>3, <1>4, <2>4
  <2> QED
    BY <2>2, <2>3, <2>4, <2>5 DEF Ids
<1> QED
  BY <1>5, <1>6, <1>7 DEF ProgramStep

LEMMA IdsHandle ==
  ASSUME Typed, Ids, NEW c, NEW ok \in BOOLEAN, Handling(c, ok)
  PROVE  Ids'
<1>1. /\ UNCHANGED <<program, step, exit, lastId, waiting>>
  BY Moves
<1>2. Script' = Script
  BY <1>1, Fixed
<1>3. \A d : UnderWay(d) => UnderWay(d)'
  BY <1>1, <1>2 DEF UnderWay
<1>4. /\ c \in Asked /\ UnderWay(c)
      /\ \A j \in DOMAIN toEngine' : j + 1 \in DOMAIN toEngine /\ toEngine'[j] = toEngine[j + 1]
      /\ DOMAIN toEngine' = 1 .. (Len(toEngine) - 1) /\ Len(toEngine) \in Nat
  BY Taken, Basics
<1>5. \A j \in DOMAIN toEngine' : UnderWay(toEngine[j])'
  BY <1>3, <1>4 DEF Ids
<1>6. \A i, j \in DOMAIN toEngine' : i < j => toEngine'[i].step < toEngine'[j].step
  <2>1. SUFFICES ASSUME NEW i \in DOMAIN toEngine', NEW j \in DOMAIN toEngine', i < j
                 PROVE  toEngine'[i].step < toEngine'[j].step
    OBVIOUS
  <2>2. i + 1 < j + 1
    BY <1>4, <2>1
  <2> QED
    BY <1>4, <2>1, <2>2 DEF Ids
<1>7. ASSUME NEW i \in DOMAIN toClient', toClient'[i].kind = "reply"
      PROVE  UnderWay(toClient[i])' /\ ~Pending(toClient[i].step)'
  <2>1. CASE i \in DOMAIN toClient /\ toClient'[i] = toClient[i]
    <3>1. UnderWay(toClient[i]) /\ ~Pending(toClient[i].step)
      BY <1>7, <2>1 DEF Ids
    <3>2. toClient[i].step \in Steps
      BY <1>7, <2>1, Basics DEF Message
    <3> QED
      BY <2>1, <3>1, <3>2, <1>3, HandledOnce
  <2>2. CASE toClient'[i] = Reply(c, ok)
    <3>1. Reply(c, ok).id = c.id /\ Reply(c, ok).step = c.step
      BY <1>4, ReplyIs
    <3>2. UnderWay(Reply(c, ok))
      BY <1>4, <3>1 DEF UnderWay
    <3> QED
      BY <2>2, <3>1, <3>2, <1>3, HandledOnce
  <2> QED
    BY <2>1, <2>2, <1>4, ReplyIs, Put DEF Handling
<1> QED
  BY <1>1, <1>2, <1>5, <1>6, <1>7 DEF Ids

LEMMA IdsAside ==
  ASSUME Typed, Ids, Aside
  PROVE  Ids'
<1>1. UNCHANGED <<program, step, exit, lastId, waiting, toEngine>>
  BY AsideSays DEF Aside
<1>2. Script' = Script
  BY <1>1, Fixed
<1>3. \A d : UnderWay(d)' <=> UnderWay(d)
  BY <1>1, <1>2 DEF UnderWay
<1>4. \A i \in DOMAIN toClient' : \/ i \in DOMAIN toClient /\ toClient'[i] = toClient[i]
                                  \/ toClient'[i].kind # "reply"
  <2>1. CASE UNCHANGED toClient
    BY <2>1
  <2>2. CASE \E m \in [kind : {"load", "close"}] : toClient' = Append(toClient, m)
    <3>1. PICK m \in [kind : {"load", "close"}] : toClient' = Append(toClient, m)
      BY <2>2
    <3>2. m \in Message /\ m.kind # "reply"
      BY DEF Message
    <3> QED
      BY <3>1, <3>2, Put
  <2> QED
    BY <2>1, <2>2 DEF Aside
<1>5. ASSUME NEW i \in DOMAIN toClient', toClient'[i].kind = "reply"
      PROVE  UnderWay(toClient[i])' /\ ~Pending(toClient[i].step)'
  BY <1>3, <1>4, <1>5, AsideSays DEF Ids
<1>6. \A j \in DOMAIN toEngine' : UnderWay(toEngine[j])'
  BY <1>1, <1>3 DEF Ids
<1> QED
  BY <1>1, <1>2, <1>5, <1>6 DEF Ids

-----------------------------------------------------------------------------
(* Progress *)

LEMMA AnsweredOnce ==
  ASSUME Ids, Progress, NEW s \in Steps, Answered(s)
  PROVE  ~Pending(s)
BY DEF Ids, Progress, Answered, Good, ReplyTo

LEMMA ProgressProgram ==
  ASSUME Typed, Ids, Progress, NEW k \in Nat, ProgramStep(k)
  PROVE  Progress'
<1>1. /\ exit = "running" /\ program' = program /\ program \in Programs
      /\ step \in Steps /\ Steps = 1 .. Len(Script) /\ Len(Script) \in Nat
      /\ got \in [Steps -> {"none", "ok", "error", "lost"}]
      /\ got' \in [Steps -> {"none", "ok", "error", "lost"}] /\ step' \in Steps
  <2>1. Typed'
    BY TypedProgram
  <2>2. exit = "running" /\ program' = program
    BY Under
  <2>3. Steps' = Steps
    BY <2>2, Fixed
  <2> QED
    BY <2>1, <2>2, <2>3, Basics DEF Typed, TypeOK
<1>2. Script' = Script /\ Steps' = Steps /\ Must' = Must /\ Command' = Command
  BY <1>1, Fixed
<1>3. /\ \A s \in Steps : s > step' => got'[s] = "none"
      /\ \A s \in Steps : s < step' => got'[s] # "none"
      /\ \A s \in Must : s < step' => got'[s] = "ok"
      /\ got'[step'] = "none" <=> exit' = "running"
      /\ exit' = "complete" => step' = Len(Script) \/ (Command = "click" /\ step' = 6 /\ url'[6] = url'[3])
  <2>1. CASE Sent \/ Kept
    BY <1>1, <2>1 DEF Progress, Sent, Kept
  <2>2. CASE ~Sent /\ ~Kept
    <3>1. PICK outcome, from, reported : outcome \in {"ok", "error", "lost"} /\ Advance(outcome, from, reported)
      BY <2>2, Over
    <3>2. /\ got' = [got EXCEPT ![step] = outcome]
          /\ exit' \in {"running", "complete", "failed"}
          /\ exit' = "running" => step' = step + 1
          /\ exit' # "running" => step' = step
          /\ outcome # "ok" /\ step \in Must => exit' = "failed"
          /\ exit' = "complete" => \/ step = Len(Script)
                                   \/ Command = "click" /\ step = 6 /\ url'[6] = url[3]
      BY <3>1, <1>1, AdvanceIs
    <3>3. /\ \A s \in Steps : s # step => got'[s] = got[s]
          /\ got'[step] = outcome /\ got[step] = "none"
      BY <3>2, <1>1 DEF Progress
    <3>4. /\ \A s \in Steps : s > step => got[s] = "none"
          /\ \A s \in Steps : s < step => got[s] # "none"
          /\ \A s \in Must : s < step => got[s] = "ok"
      BY DEF Progress
    <3>5. Command = "click" /\ step = 6 => url'[3] = url[3]
      <4>1. Command = "click" => 3 \in Steps /\ 6 \in Steps
        BY <1>1, StepsAre
      <4>2. url' = url \/ url' = [url EXCEPT ![step] = UrlOf(outcome, reported)]
        BY <3>1, <1>1, AdvanceIs
      <4> QED
        BY <4>1, <4>2, Basics
    <3>6. CASE exit' = "running"
      <4>1. step' = step + 1
        BY <3>2, <3>6
      <4>2. \A s \in Steps : s > step' => got'[s] = "none"
        BY <4>1, <3>3, <3>4, <1>1
      <4>3. \A s \in Steps : s < step' => got'[s] # "none"
        <5>1. SUFFICES ASSUME NEW s \in Steps, s < step' PROVE got'[s] # "none"
          OBVIOUS
        <5>2. s = step \/ s < step
          BY <4>1, <5>1, <1>1
        <5> QED
          BY <5>2, <3>1, <3>3, <3>4
      <4>4. \A s \in Must : s < step' => got'[s] = "ok"
        <5>1. SUFFICES ASSUME NEW s \in Must, s < step' PROVE got'[s] = "ok"
          OBVIOUS
        <5>2. s \in Steps
          BY <5>1, <1>1, MustSteps
        <5>3. s = step \/ s < step
          BY <4>1, <5>1, <5>2, <1>1
        <5>4. s = step => outcome = "ok"
          BY <5>1, <3>2, <3>6
        <5> QED
          BY <5>2, <5>3, <5>4, <3>3, <3>4, <1>1
      <4>5. got'[step'] = "none"
        <5>1. step' > step
          BY <4>1, <1>1
        <5> QED
          BY <5>1, <4>1, <3>3, <3>4, <1>1
      <4> QED
        BY <3>6, <4>2, <4>3, <4>4, <4>5
    <3>7. CASE exit' # "running"
      <4>1. step' = step
        BY <3>2, <3>7
      <4>2. \A s \in Must : s < step => s # step /\ s \in Steps
        BY <1>1, MustSteps
      <4> QED
        BY <3>7, <4>1, <4>2, <3>1, <3>2, <3>3, <3>4, <3>5, <1>1
    <3> QED
      BY <3>6, <3>7
  <2> QED
    BY <2>1, <2>2
<1>4. ASSUME NEW s \in Steps, got'[s] = "ok" PROVE ~Pending(s)'
  <2>1. CASE Script[s] # "load"
    <3>1. Answered(s)'
      BY <1>4 DEF Answered
    <3>2. Answered(s)
      BY <2>1, <3>1, StillAnswered
    <3> QED
      BY <3>2, AnsweredOnce, StillPending
  <2>2. CASE Script[s] = "load"
    <3>1. ~OnItsWay(s)'
      BY <2>2, <1>2, IdsProgram DEF Ids, OnItsWay, UnderWay
    <3>2. ~ToSend(s)'
      BY <1>1, <1>3, <1>4 DEF ToSend
    <3> QED
      BY <3>1, <3>2 DEF Pending
  <2> QED
    BY <2>1, <2>2
<1> QED
  BY <1>2, <1>3, <1>4 DEF Progress

LEMMA ProgressEngine ==
  ASSUME Typed, Ids, Progress,
         UNCHANGED <<program, step, exit, got, url>>, \A s \in Steps : Pending(s)' => Pending(s)
  PROVE  Progress'
<1>1. Script' = Script /\ Steps' = Steps /\ Must' = Must /\ Command' = Command
  BY Fixed
<1> QED
  BY <1>1 DEF Progress

-----------------------------------------------------------------------------
(* RepliesMatch *)

LEMMA MatchProgram ==
  ASSUME Typed, Ids, RepliesMatch, NEW k \in Nat, ProgramStep(k)
  PROVE  RepliesMatch'
<1>1. exit = "running" /\ program' = program /\ program \in Programs /\ step \in Steps
  BY Under, Basics
<1>2. Steps' = Steps
  BY <1>1, Fixed
<1>3. CASE Sent \/ Kept
  BY <1>2, <1>3 DEF RepliesMatch, Sent, Kept
<1>4. ASSUME NEW from \in {0, step}, NEW outcome, NEW reported, Advance(outcome, from, reported)
      PROVE RepliesMatch'
  <2>1. spoke' = [spoke EXCEPT ![step] = from]
    BY <1>1, <1>4, AdvanceIs
  <2> QED
    BY <1>1, <1>2, <2>1 DEF RepliesMatch, Typed, TypeOK
<1>5. CASE waiting # 0 /\ \E i \in 1 .. k : Took(toClient[i])
  <2>1. PICK i \in 1 .. k : Took(toClient[i])
    BY <1>5
  <2>2. toClient[i].step = step
    BY <1>5, <2>1, TakenIs
  <2> QED
    BY <2>1, <2>2, <1>4 DEF Took
<1>6. CASE LoadGot(k)
  BY <1>4, <1>6 DEF LoadGot
<1>7. CASE Lost
  BY <1>4, <1>7 DEF Lost, GiveUp
<1> QED
  BY <1>3, <1>5, <1>6, <1>7 DEF ProgramStep

-----------------------------------------------------------------------------
(* The page and its load events *)

LEMMA PageProgram ==
  ASSUME Typed, Ids, Page, NEW k \in Nat, ProgramStep(k)
  PROVE  Page'
<1>1. /\ UNCHANGED <<nav, oldLoading, timer, up>> /\ program' = program /\ program \in Programs /\ Dropped(k)
      /\ closed' => closed \/ \E i \in 1 .. k : IsClose(toClient[i])
  BY Under, Basics DEF ProgramStep
<1>2. Away' = Away /\ Away \in Steps
  BY <1>1, Fixed, Scripts
<1>3. ~Pending(Away) => ~Pending(Away)'
  <2>1. PICK s : s = Away
    OBVIOUS
  <2>2. ~Pending(s) => ~Pending(s)'
    BY <1>2, <2>1, StillPending
  <2> QED
    BY <1>2, <2>1, <2>2
<1>4. 1 .. k \subseteq DOMAIN toClient
  BY <1>1, Basics DEF Dropped
<1>5. \A i \in DOMAIN toClient' : IsClose(toClient'[i]) => ~up
  BY <1>1, Older DEF Page
<1>6. nav # "old" => \A j \in DOMAIN toEngine' : toEngine'[j].step > Away
  <2>1. SUFFICES ASSUME nav # "old" PROVE \A j \in DOMAIN toEngine' : toEngine'[j].step > Away
    OBVIOUS
  <2>2. CASE Sent
    <3>1. toEngine' = Append(toEngine, [id |-> lastId', step |-> step, aim |-> aim]) /\ waiting = 0
      BY <2>2 DEF Sent
    <3>2. step > Away
      <4>1. exit = "running" /\ step \in Nat /\ Away \in Nat
        BY <1>1, Basics, Scripts DEF ProgramStep
      <4>2. ~Pending(Away)
        BY <2>1 DEF Page
      <4> QED
        BY <3>1, <4>1, <4>2 DEF Pending, ToSend
    <3>3. \A j \in DOMAIN toEngine' : \/ j \in DOMAIN toEngine /\ toEngine'[j] = toEngine[j]
                                      \/ toEngine'[j].step = step
      BY <3>1, Basics DEF Typed, TypeOK
    <3> QED
      BY <2>1, <3>2, <3>3 DEF Page
  <2>3. CASE ~Sent
    BY <2>1, <2>3 DEF ProgramStep, Page
  <2> QED
    BY <2>2, <2>3
<1> QED
  BY <1>1, <1>2, <1>3, <1>4, <1>5, <1>6 DEF Page

(* What has left the page, or was answered, stays. *)
LEMMA StaysPut ==
  ASSUME Typed, Ids, Page, NEW c, NEW ok \in BOOLEAN, Handling(c, ok), nav # "old" \/ ~Pending(Away)
  PROVE  UNCHANGED <<nav, newUrl, index>> /\ c.step # Away
<1>1. ~Pending(Away)
  BY DEF Page
<1>2. Pending(c.step)
  BY HandledOnce
<1>3. c.step # Away
  BY <1>1, <1>2
<1> QED
  BY <1>3, Moves

LEMMA PageHandle ==
  ASSUME Typed, Ids, Page, NEW c, NEW ok \in BOOLEAN, Handling(c, ok)
  PROVE  Page'
<1>1. /\ UNCHANGED <<program, closed, up>> /\ program \in Programs /\ nav' \in {nav, "asked"}
      /\ nav' # nav => c.step = Away
  BY Moves, Basics
<1>2. Away' = Away /\ Away \in Steps
  BY <1>1, Fixed, Scripts
<1>3. nav' # "old" => ~Pending(Away)'
  <2>1. PICK s : s = Away
    OBVIOUS
  <2>2. nav' # "old" => ~Pending(s)'
    <3>1. CASE nav' # nav
      BY <1>1, <2>1, <3>1, HandledOnce
    <3>2. CASE nav' = nav
      BY <1>2, <2>1, <3>2, HandledOnce DEF Page
    <3> QED
      BY <3>1, <3>2
  <2> QED
    BY <1>2, <2>1, <2>2
<1>4. /\ oldLoading' => oldLoading /\ nav' = nav
      /\ timer => timer'
  BY DEF Handling
<1>5. nav' \in {"old", "asked"} => timer'
  <2>1. CASE nav' = nav
    BY <1>4, <2>1 DEF Page
  <2>2. CASE nav' # nav
    BY <1>4, <2>2, StaysPut DEF Page
  <2> QED
    BY <2>1, <2>2
<1>6. \A i \in DOMAIN toClient' : IsClose(toClient'[i]) => ~up
  BY Taken, ReplyIs, Put DEF Page, IsClose, Handling
<1>7. nav' # "old" => \A j \in DOMAIN toEngine' : toEngine'[j].step > Away
  <2>1. SUFFICES ASSUME nav' # "old", NEW j \in DOMAIN toEngine' PROVE toEngine'[j].step > Away
    OBVIOUS
  <2>2. j + 1 \in DOMAIN toEngine /\ toEngine'[j] = toEngine[j + 1] /\ 1 \in DOMAIN toEngine /\ c = toEngine[1]
        /\ 1 < j + 1
    BY Taken, Basics
  <2>3. CASE nav' # nav
    BY <1>1, <2>2, <2>3 DEF Ids
  <2>4. CASE nav' = nav
    BY <2>1, <2>2, <2>4 DEF Page
  <2> QED
    BY <2>3, <2>4
<1> QED
  BY <1>1, <1>2, <1>3, <1>4, <1>5, <1>6, <1>7 DEF Page

LEMMA PageAside ==
  ASSUME Typed, Ids, Page, PushState \/ Commit \/ Load \/ ShutDown
  PROVE  Page'
<1>1. /\ UNCHANGED <<program, closed, toEngine>> /\ \A s : Pending(s)' <=> Pending(s)
      /\ \/ UNCHANGED toClient
         \/ \E m \in [kind : {"load", "close"}] : toClient' = Append(toClient, m)
  BY PageSteps, AsideSays DEF Aside
<1>2. Away' = Away
  BY <1>1, Fixed
<1>3. Pending(Away)' <=> Pending(Away)
  <2>1. PICK s : s = Away
    OBVIOUS
  <2> QED
    BY <1>1, <1>2, <2>1
<1>4. [kind |-> "load"] \in Message /\ [kind |-> "close"] \in Message /\ ~IsClose([kind |-> "load"])
  BY DEF Message, IsClose
<1>5. CASE PushState
  <2>1. UNCHANGED <<nav, oldLoading, timer, up, toClient>>
    BY <1>5 DEF PushState
  <2> QED
    BY <1>1, <1>2, <1>3, <2>1 DEF Page
<1>6. CASE Commit
  <2>1. nav = "asked" /\ nav' = "committed" /\ UNCHANGED <<oldLoading, up, toClient>>
    BY <1>6 DEF Commit
  <2> QED
    BY <1>1, <1>2, <1>3, <2>1 DEF Page
<1>7. CASE Load
  <2>1. /\ up' = up /\ timer' = timer /\ toClient' = Append(toClient, [kind |-> "load"])
        /\ \/ nav = "committed" /\ nav' = "loaded" /\ oldLoading' = oldLoading
           \/ oldLoading' = FALSE /\ nav' = nav
    BY <1>7 DEF Load, Push
  <2>2. \A i \in DOMAIN toClient' : IsClose(toClient'[i]) => ~up
    BY <1>4, <2>1, Put DEF Page
  <2> QED
    BY <1>1, <1>2, <1>3, <2>1, <2>2 DEF Page
<1>8. CASE ShutDown
  <2>1. UNCHANGED <<nav, oldLoading, timer>> /\ ~up'
    BY <1>8 DEF ShutDown
  <2> QED
    BY <1>1, <1>2, <1>3, <2>1 DEF Page
<1> QED
  BY <1>5, <1>6, <1>7, <1>8

LEMMA LoadsProgram ==
  ASSUME Typed, Ids, Page, Loads, NEW k \in Nat, ProgramStep(k)
  PROVE  Loads'
<1>1. /\ UNCHANGED <<nav, oldLoaded>> /\ program' = program /\ program \in Programs /\ Dropped(k)
      /\ loadSeen' => loadSeen \/ \E i \in 1 .. k : IsLoad(toClient[i])
  BY Under, Basics DEF ProgramStep
<1>2. Away' = Away /\ Away \in Steps /\ HasLoad' = HasLoad
  BY <1>1, Fixed, Scripts
<1>3. Still' <=> Still
  BY <1>1 DEF Still
<1>4. 1 .. k \subseteq DOMAIN toClient
  BY <1>1, Basics DEF Dropped
<1>5. SUFFICES ASSUME HasLoad
               PROVE
    /\ \A i \in DOMAIN toClient' : IsLoad(toClient'[i]) /\ ~oldLoaded => nav = "loaded"
    /\ loadSeen' /\ ~oldLoaded => nav = "loaded"
    /\ \A i, j \in DOMAIN toClient' : Good(toClient'[i], Away) /\ i < j /\ IsLoad(toClient'[j]) => Still
    /\ got'[Away] = "ok" => \A i \in DOMAIN toClient' : IsLoad(toClient'[i]) => Still
  BY <1>1, <1>2, <1>3 DEF Loads
<1>6. \A i \in DOMAIN toClient' : IsLoad(toClient'[i]) /\ ~oldLoaded => nav = "loaded"
  BY <1>1, <1>5, Older DEF Loads
<1>7. loadSeen' /\ ~oldLoaded => nav = "loaded"
  BY <1>1, <1>4, <1>5 DEF Loads
<1>8. ASSUME NEW i \in DOMAIN toClient', NEW j \in DOMAIN toClient', Good(toClient'[i], Away), i < j,
             IsLoad(toClient'[j])
      PROVE  Still
  <2>1. i + k \in DOMAIN toClient /\ j + k \in DOMAIN toClient /\ toClient'[i] = toClient[i + k]
        /\ toClient'[j] = toClient[j + k] /\ i \in Nat /\ j \in Nat
    BY <1>1, Older
  <2>2. i + k < j + k
    BY <1>8, <2>1
  <2> QED
    BY <1>5, <1>8, <2>1, <2>2 DEF Loads
<1>9. ASSUME got'[Away] = "ok", NEW j \in DOMAIN toClient', IsLoad(toClient'[j]) PROVE Still
  <2>1. j + k \in DOMAIN toClient /\ toClient'[j] = toClient[j + k] /\ j + k > k /\ j \in Nat
    BY <1>1, Older
  <2>2. CASE got[Away] = "ok"
    BY <1>5, <1>9, <2>1, <2>2 DEF Loads
  <2>3. CASE got[Away] # "ok"
    <3>1. Script[Away] # "load"
      BY <1>1, <1>2, Scripts DEF Leaves
    <3>2. PICK i \in 1 .. k : i \in DOMAIN toClient /\ Good(toClient[i], Away)
      BY <1>2, <1>9, <2>3, <3>1, NewlyOk
    <3>3. i < j + k
      BY <2>1, <3>2
    <3> QED
      BY <1>5, <1>9, <2>1, <3>2, <3>3 DEF Loads
  <2> QED
    BY <2>2, <2>3
<1> QED
  BY <1>6, <1>7, <1>8, <1>9

LEMMA LoadsHandle ==
  ASSUME Typed, Ids, Progress, Page, Loads, NEW c, NEW ok \in BOOLEAN, Handling(c, ok)
  PROVE  Loads'
<1>1. /\ UNCHANGED <<program, got, loadSeen, oldLoaded>> /\ program \in Programs
  BY Moves, Basics
<1>2. Away' = Away /\ Away \in Steps /\ HasLoad' = HasLoad
  BY <1>1, Fixed, Scripts
<1>3. \A i \in DOMAIN toClient' : \/ i \in DOMAIN toClient /\ toClient'[i] = toClient[i]
                                  \/ i = Len(toClient) + 1 /\ toClient'[i] = Reply(c, ok)
  BY Taken, Put, ReplyIs DEF Handling
<1>4. ~IsLoad(Reply(c, ok))
  BY Taken, ReplyIs DEF IsLoad
<1>5. SUFFICES ASSUME HasLoad
               PROVE
    /\ \A i \in DOMAIN toClient' : IsLoad(toClient'[i]) /\ ~oldLoaded => nav' = "loaded"
    /\ loadSeen /\ ~oldLoaded => nav' = "loaded"
    /\ \A i, j \in DOMAIN toClient' : Good(toClient'[i], Away) /\ i < j /\ IsLoad(toClient'[j]) => Still'
    /\ got[Away] = "ok" => \A i \in DOMAIN toClient' : IsLoad(toClient'[i]) => Still'
  BY <1>1, <1>2 DEF Loads
<1>6. nav = "loaded" => nav' = "loaded"
  BY StaysPut
<1>7. ~Pending(Away) => nav' = nav
  BY StaysPut
<1>8. ASSUME NEW i \in DOMAIN toClient', NEW j \in DOMAIN toClient', Good(toClient'[i], Away), i < j,
             IsLoad(toClient'[j])
      PROVE  Still'
  <2>1. j \in DOMAIN toClient /\ toClient'[j] = toClient[j]
    BY <1>3, <1>4, <1>8
  <2>2. i \in DOMAIN toClient /\ toClient'[i] = toClient[i]
    BY <1>3, <1>8, <2>1, Basics
  <2>3. ~Pending(Away)
    BY <1>8, <2>2 DEF Ids, Good, ReplyTo
  <2>4. Still
    BY <1>5, <1>8, <2>1, <2>2 DEF Loads
  <2> QED
    BY <1>7, <2>3, <2>4 DEF Still
<1>9. got[Away] = "ok" => \A i \in DOMAIN toClient' : IsLoad(toClient'[i]) => Still'
  <2>1. got[Away] = "ok" => ~Pending(Away)
    BY <1>2 DEF Progress
  <2> QED
    BY <1>3, <1>4, <1>5, <1>7, <2>1 DEF Loads, Still
<1>10. \A i \in DOMAIN toClient' : IsLoad(toClient'[i]) /\ ~oldLoaded => nav' = "loaded"
  BY <1>3, <1>4, <1>5, <1>6 DEF Loads
<1>11. loadSeen /\ ~oldLoaded => nav' = "loaded"
  BY <1>5, <1>6 DEF Loads
<1> QED
  BY <1>8, <1>9, <1>10, <1>11

LEMMA LoadsAside ==
  ASSUME Typed, Ids, Page, Loads, PushState \/ Commit \/ Load \/ ShutDown
  PROVE  Loads'
<1>1. UNCHANGED <<program, got, loadSeen>>
  BY PageSteps, AsideSays
<1>2. Away' = Away /\ HasLoad' = HasLoad
  BY <1>1, Fixed
<1>3. CASE PushState
  <2>1. UNCHANGED <<nav, oldLoaded, toClient>>
    BY <1>3 DEF PushState
  <2> QED
    BY <1>1, <1>2, <2>1 DEF Loads, Still
<1>4. CASE Commit
  <2>1. nav = "asked" /\ UNCHANGED <<oldLoaded, toClient>>
    BY <1>4 DEF Commit
  <2> QED
    BY <1>1, <1>2, <2>1 DEF Loads, Still
<1>5. CASE Load
  <2>1. \/ nav' = "loaded"
        \/ oldLoading /\ oldLoaded' /\ nav' = nav
    BY <1>5 DEF Load
  <2>2. Still' /\ (oldLoaded' \/ nav' = "loaded")
    BY <2>1 DEF Still, Page
  <2> QED
    BY <1>1, <1>2, <2>2 DEF Loads
<1>6. CASE ShutDown
  <2>1. UNCHANGED <<nav, oldLoaded>> /\ toClient' = Append(toClient, [kind |-> "close"])
    BY <1>6 DEF ShutDown
  <2>2. [kind |-> "close"] \in Message /\ ~IsLoad([kind |-> "close"])
    BY DEF Message, IsLoad
  <2>3. \A i \in DOMAIN toClient' : \/ i \in DOMAIN toClient /\ toClient'[i] = toClient[i]
                                    \/ i = Len(toClient) + 1 /\ ~IsLoad(toClient'[i])
    BY <2>1, <2>2, Put
  <2>4. \A i, j \in DOMAIN toClient' : i < j /\ IsLoad(toClient'[j]) =>
          i \in DOMAIN toClient /\ j \in DOMAIN toClient /\ toClient'[i] = toClient[i] /\ toClient'[j] = toClient[j]
    BY <2>3, Basics
  <2> QED
    BY <1>1, <1>2, <2>1, <2>3, <2>4 DEF Loads, Still
<1> QED
  BY <1>3, <1>4, <1>5, <1>6

(* The way to the step that waits, or past it, is through the one that leaves the page. *)
LEMMA Passed ==
  ASSUME Typed, Progress, HasLoad
  PROVE  /\ step >= Loading => got[Away] = "ok" /\ ~Pending(Away)
         /\ got[Loading] # "none" => step >= Loading
<1>1. Away \in Steps /\ Away \in 2 .. 5 /\ Away \in Must /\ Loading = Away + 1 /\ Loading \in Steps /\ step \in Nat
  BY Basics, Scripts DEF Loading
<1>2. step >= Loading => Away < step
  BY <1>1
<1>3. ~(step >= Loading) => Loading > step
  BY <1>1
<1> QED
  BY <1>1, <1>2, <1>3 DEF Progress

LEMMA AliveProgram ==
  ASSUME Typed, Ids, Progress, Page, Loads, Alive, NEW k \in Nat, ProgramStep(k)
  PROVE  Alive'
<1>1. /\ UNCHANGED <<nav, oldLoaded, timer>> /\ program' = program /\ program \in Programs /\ Dropped(k)
      /\ step \in Steps /\ got \in [Steps -> {"none", "ok", "error", "lost"}] /\ exit = "running"
  BY Under, Basics
<1>2. Away' = Away /\ Loading' = Loading /\ Injecting' = Injecting /\ HasLoad' = HasLoad /\ Impl' = Impl
  BY <1>1, Fixed
<1>3. SUFFICES ASSUME HasLoad, got'[Loading] = "ok", Impl = "node" => ~oldLoaded
               PROVE  Still /\ (Answered(Injecting)' => timer)
  BY <1>1, <1>2 DEF Alive, Waited, Still, Loading
<1>4. /\ Loading \in Steps /\ Injecting \in Steps /\ Script[Injecting] # "load" /\ Injecting > Loading
      /\ Script[Loading] = "load"
  <2>1. Loading \in Steps /\ Injecting \in Steps /\ Away \in 2 .. 5
    BY <1>1, <1>3, Scripts
  <2>2. Injecting > Loading
    BY <2>1 DEF Injecting, Loading
  <2> QED
    BY <1>1, <1>3, <2>1, <2>2, Scripts
<1>5. Answered(Injecting)' => Answered(Injecting)
  <2>1. PICK s : s = Injecting
    OBVIOUS
  <2>2. Answered(s)' => Answered(s)
    BY <1>4, <2>1, StillAnswered
  <2> QED
    BY <1>2, <2>1, <2>2
<1>6. CASE got[Loading] = "ok"
  BY <1>3, <1>5, <1>6 DEF Alive, Waited, Loading
<1>7. CASE got[Loading] # "ok"
  <2>1. ~Sent /\ ~Kept
    BY <1>3, <1>7 DEF Sent, Kept
  <2>2. PICK outcome, from, reported : outcome \in {"ok", "error", "lost"} /\ Advance(outcome, from, reported)
    BY <2>1, Over
  <2>3. step = Loading
    BY <1>1, <1>3, <1>4, <1>7, <2>2, AdvanceIs
  <2>4. waiting = 0
    BY <1>4, <2>3 DEF Ids
  <2>5. ~Lost
    <3>1. SUFFICES ASSUME Advance("lost", 0, None) PROVE FALSE
      BY DEF Lost, GiveUp
    <3>2. got' = [got EXCEPT ![step] = "lost"]
      BY <3>1, <1>1, AdvanceIs
    <3> QED
      BY <3>2, <2>3, <1>1, <1>3
  <2>6. LoadGot(k)
    BY <2>1, <2>4, <2>5 DEF ProgramStep
  <2>7. got[Away] = "ok"
    BY <1>3, <2>3, Passed, Basics
  <2>8. Still
    <3>1. CASE Impl = "node" /\ loadSeen
      BY <1>3, <3>1 DEF Loads, Still
    <3>2. CASE \E i \in 1 .. k : IsLoad(toClient[i])
      <4>1. 1 .. k \subseteq DOMAIN toClient
        BY <1>1, Basics DEF Dropped
      <4> QED
        BY <1>3, <2>7, <3>2, <4>1 DEF Loads
    <3> QED
      BY <2>6, <3>1, <3>2 DEF LoadGot
  <2>9. ~Answered(Injecting)
    <3>1. got[Injecting] = "none"
      BY <1>1, <1>4, <2>3, Basics DEF Progress
    <3>2. \A i \in DOMAIN toClient : ~Good(toClient[i], Injecting)
      <4>1. SUFFICES ASSUME NEW i \in DOMAIN toClient, Good(toClient[i], Injecting) PROVE FALSE
        OBVIOUS
      <4>2. Injecting \in 1 .. step
        BY <4>1 DEF Ids, UnderWay, Good, ReplyTo
      <4> QED
        BY <1>1, <1>4, <2>3, <4>2, Basics
    <3> QED
      BY <3>1, <3>2 DEF Answered
  <2> QED
    BY <1>5, <2>8, <2>9
<1> QED
  BY <1>6, <1>7

LEMMA AliveHandle ==
  ASSUME Typed, Ids, Progress, Page, Alive, NEW c, NEW ok \in BOOLEAN, Handling(c, ok)
  PROVE  Alive'
<1>1. /\ UNCHANGED <<program, got, oldLoaded>> /\ program \in Programs
  BY Moves, Basics
<1>2. Away' = Away /\ Loading' = Loading /\ Injecting' = Injecting /\ HasLoad' = HasLoad /\ Impl' = Impl
  BY <1>1, Fixed
<1>3. SUFFICES ASSUME HasLoad, Waited
               PROVE  Still' /\ (Answered(Injecting)' => timer')
  BY <1>1, <1>2 DEF Alive, Waited
<1>4. nav' = nav
  BY <1>3, Passed, StaysPut DEF Waited, Loading
<1>5. Injecting \in Steps /\ Script[Injecting] = "Runtime.evaluate"
  BY <1>1, <1>3, Scripts
<1>6. timer' = (timer \/ (ok /\ Script[c.step] = "Runtime.evaluate"))
  BY DEF Handling
<1>7. Answered(Injecting)' => Answered(Injecting) \/ (Injecting = c.step /\ ok)
  <2>1. PICK s : s = Injecting
    OBVIOUS
  <2>2. Answered(s)' => Answered(s) \/ (s = c.step /\ ok)
    BY <1>5, <2>1, HandledOnce
  <2> QED
    BY <1>2, <2>1, <2>2
<1> QED
  BY <1>3, <1>4, <1>5, <1>6, <1>7 DEF Alive, Still

LEMMA AliveAside ==
  ASSUME Typed, Ids, Page, Alive, PushState \/ Commit \/ Load \/ ShutDown
  PROVE  Alive'
<1>1. UNCHANGED <<program, got>> /\ \A s : Answered(s)' => Answered(s)
  BY PageSteps, AsideSays
<1>2. Away' = Away /\ Injecting' = Injecting /\ HasLoad' = HasLoad /\ Impl' = Impl
  BY <1>1, Fixed
<1>3. Answered(Injecting)' => Answered(Injecting)
  <2>1. PICK s : s = Injecting
    OBVIOUS
  <2> QED
    BY <1>1, <1>2, <2>1
<1>4. CASE PushState \/ ShutDown
  <2>1. UNCHANGED <<nav, oldLoaded, timer>>
    BY <1>4 DEF PushState, ShutDown
  <2> QED
    BY <1>1, <1>2, <1>3, <2>1 DEF Alive, Waited, Still
<1>5. CASE Commit
  <2>1. nav = "asked" /\ oldLoaded' = oldLoaded
    BY <1>5 DEF Commit
  <2> QED
    BY <1>1, <1>2, <2>1 DEF Alive, Waited, Still
<1>6. CASE Load
  <2>1. /\ timer' = timer
        /\ oldLoaded => oldLoaded'
        /\ nav' = "loaded" \/ nav' = nav
    BY <1>6 DEF Load
  <2> QED
    BY <1>1, <1>2, <1>3, <2>1 DEF Alive, Waited, Still
<1> QED
  BY <1>4, <1>5, <1>6

LEMMA NodeLoadsProgram ==
  ASSUME Typed, Ids, Progress, NodeLoads, ProgramNext
  PROVE  NodeLoads'
<1>1. PICK k \in Nat : ProgramStep(k)
  BY ProgramSteps
<1>2. /\ program' = program /\ program \in Programs /\ step \in Steps /\ exit = "running"
      /\ got \in [Steps -> {"none", "ok", "error", "lost"}]
  BY <1>1, Under, Basics
<1>3. Away' = Away /\ HasLoad' = HasLoad /\ Impl' = Impl
  BY <1>2, Fixed
<1>4. SUFFICES ASSUME Impl = "node"
               PROVE  /\ loadRead' => loadSeen'
                      /\ HasLoad /\ got'[Loading] = "lost" => closed' \/ ~loadRead'
  BY <1>3 DEF NodeLoads, Loading
<1>5. HasLoad => Loading \in Steps /\ Step("load") = Loading /\ \A s \in Steps : Script[s] = "load" <=> s = Loading
  BY <1>2, Scripts, Named
<1>6. ASSUME NEW outcome, NEW from, NEW reported, Advance(outcome, from, reported), HasLoad,
             outcome # "lost" \/ Script[step] # "load"
      PROVE  got'[Loading] = "lost" => got[Loading] = "lost"
  <2>1. got' = [got EXCEPT ![step] = outcome]
    BY <1>2, <1>6, AdvanceIs
  <2> QED
    BY <1>2, <1>5, <1>6, <2>1
<1>7. CASE Send
  <2>1. UNCHANGED <<closed, loadSeen, loadRead>> /\ Script[step] # "load"
    BY <1>7 DEF Send
  <2>2. got' = got \/ GiveUp
    BY <1>7 DEF Send
  <2> QED
    BY <1>4, <1>6, <2>1, <2>2 DEF NodeLoads, Loading, GiveUp
<1>8. CASE LoadTimeout
  <2>1. UNCHANGED <<closed, loadSeen, loadRead>> /\ ~loadSeen
    BY <1>8 DEF LoadTimeout
  <2> QED
    BY <1>4, <2>1 DEF NodeLoads
<1>9. CASE OnMessage
  <2> DEFINE m == Head(toClient)
  <2>1. /\ Reads({m}) /\ closed' = (closed \/ IsClose(m)) /\ loadSeen' = (loadSeen \/ IsLoad(m))
        /\ IF IsReply(m) THEN Advance(IF m.ok THEN "ok" ELSE "error", m.step, m.seen)
           ELSE IF IsClose(m) /\ waiting # 0 THEN GiveUp ELSE Kept
    BY <1>9 DEF OnMessage, Kept
  <2>2. loadRead' = (loadRead \/ (HasLoad /\ got[Step("load")] = "none" /\ \E x \in {m} : IsLoad(x)))
    BY <2>1 DEF Reads
  <2> HIDE DEF m
  <2>3. loadRead' => loadRead \/ (HasLoad /\ got[Step("load")] = "none" /\ IsLoad(m))
    BY <2>2
  <2>4. loadRead' => loadSeen'
    BY <1>4, <2>1, <2>3 DEF NodeLoads
  <2>5. ASSUME HasLoad, got'[Loading] = "lost" PROVE got[Loading] = "lost"
    <3>1. waiting # 0 => Script[step] # "load"
      BY DEF Ids
    <3>2. CASE IsReply(m)
      <4>1. (IF m.ok THEN "ok" ELSE "error") # "lost"
        OBVIOUS
      <4> QED
        BY <1>6, <2>1, <2>5, <3>2, <4>1
    <3>3. CASE ~IsReply(m) /\ IsClose(m) /\ waiting # 0
      BY <1>6, <2>1, <2>5, <3>1, <3>3 DEF GiveUp
    <3>4. CASE Kept
      BY <2>5, <3>4 DEF Kept
    <3> QED
      BY <2>1, <3>2, <3>3, <3>4
  <2>6. HasLoad /\ got'[Loading] = "lost" => closed' \/ ~loadRead'
    <3>1. SUFFICES ASSUME HasLoad, got'[Loading] = "lost", ~closed' PROVE ~loadRead'
      OBVIOUS
    <3>2. got[Loading] = "lost" /\ ~closed
      BY <2>1, <2>5, <3>1
    <3>3. ~loadRead
      BY <1>4, <3>1, <3>2 DEF NodeLoads, Loading
    <3> QED
      BY <1>5, <2>3, <3>1, <3>2, <3>3
  <2> QED
    BY <2>4, <2>6
<1>10. CASE LoadAwaited
  <2>1. UNCHANGED <<closed, loadSeen, loadRead>> /\ Advance("ok", 0, None)
    BY <1>10 DEF LoadAwaited
  <2>2. HasLoad /\ got'[Loading] = "lost" => got[Loading] = "lost"
    BY <1>6, <2>1
  <2> QED
    BY <1>4, <2>1, <2>2 DEF NodeLoads, Loading
<1>11. ~SendAndWait /\ ~WaitEvent
  BY <1>4 DEF SendAndWait, WaitEvent
<1>12. CASE SendTimeout
  BY <1>4, <1>12 DEF SendTimeout
<1> QED
  BY <1>7, <1>8, <1>9, <1>10, <1>11, <1>12 DEF ProgramNext

LEMMA NodeLoadsEngine ==
  ASSUME NodeLoads, UNCHANGED <<program, got, closed, loadSeen, loadRead>>
  PROVE  NodeLoads'
<1>1. Away' = Away /\ HasLoad' = HasLoad /\ Impl' = Impl
  BY Fixed
<1> QED
  BY <1>1 DEF NodeLoads

-----------------------------------------------------------------------------
(* back and forward *)

LEMMA StepOn ==
  ASSUME Typed, Ids, NEW k \in Nat, ProgramStep(k)
  PROVE  /\ step' = step \/ (step' = step + 1 /\ exit' = "running" /\ waiting' = 0)
         /\ step \in Nat /\ step' \in Nat
<1>1. exit = "running" /\ program \in Programs /\ step \in Steps /\ step \in Nat
  BY Under, Basics
<1>2. CASE Sent \/ Kept
  BY <1>1, <1>2 DEF Sent, Kept
<1>3. CASE ~Sent /\ ~Kept
  <2>1. PICK outcome, from, reported : outcome \in {"ok", "error", "lost"} /\ Advance(outcome, from, reported)
    BY <1>3, Over
  <2> QED
    BY <2>1, <1>1, AdvanceIs
<1> QED
  BY <1>2, <1>3

(* A message says nothing yet of a step to come. *)
LEMMA NotYet ==
  ASSUME Typed, Ids, Progress, NEW s \in Steps, s > step
  PROVE  ~Answered(s) /\ \A i \in DOMAIN toClient : ~ReplyTo(toClient[i], s)
<1>1. ASSUME NEW i \in DOMAIN toClient, ReplyTo(toClient[i], s) PROVE FALSE
  <2>1. s \in 1 .. step
    BY <1>1 DEF Ids, UnderWay, ReplyTo
  <2> QED
    BY <2>1, Basics
<1>2. got[s] # "ok"
  BY DEF Progress
<1> QED
  BY <1>1, <1>2 DEF Answered, Good

LEMMA ReportedIsAnswered ==
  ASSUME NEW s, NEW u, Reported(s, u)
  PROVE  Answered(s)
BY DEF Reported, Answered

LEMMA AimChanges ==
  ASSUME Typed, Ids, Progress, Between, NEW k \in Nat, ProgramStep(k), aim' # aim
  PROVE  /\ step = 2
         /\ \E i \in DOMAIN toClient : Good(toClient[i], 2) /\ aim' = Target(toClient[i].seen)
<1>1. exit = "running" /\ program \in Programs /\ step \in Steps
      /\ got \in [Steps -> {"none", "ok", "error", "lost"}]
  BY Under, Basics
<1>2. ~Sent /\ ~Kept
  BY DEF Sent, Kept
<1>3. PICK outcome, from, reported : outcome \in {"ok", "error", "lost"} /\ Advance(outcome, from, reported)
  BY <1>2, Over
<1>4. got' = [got EXCEPT ![step] = outcome] /\ aim' = Aim(outcome, reported)
  BY <1>1, <1>3, AdvanceIs
<1>5. Command # "reload"
  BY <1>1, Kinds
<1>6. outcome = "ok" /\ Script[step] = "Page.getNavigationHistory"
  BY <1>4, <1>5 DEF Aim
<1>7. step = 2
  BY <1>1, <1>6, Scripts
<1>8. got'[step] = "ok" /\ got[step] # "ok" /\ Script[step] # "load"
  BY <1>1, <1>4, <1>6 DEF Progress
<1>9. PICK i \in 1 .. k : i \in DOMAIN toClient /\ Good(toClient[i], step) /\ Took(toClient[i])
  BY <1>1, <1>8, NewlyOk
<1>10. Result(toClient[i]) = "ok"
  BY <1>9 DEF Good, Result
<1>11. aim' = Aim("ok", toClient[i].seen)
  BY <1>1, <1>9, <1>10, AdvanceIs DEF Took
<1> QED
  BY <1>6, <1>7, <1>9, <1>11 DEF Aim

LEMMA AimedProgram ==
  ASSUME Typed, Ids, Progress, Page, Aimed, NEW k \in Nat, ProgramStep(k)
  PROVE  Aimed'
<1>1. /\ UNCHANGED <<nav, history, index, historyRead>> /\ program' = program /\ program \in Programs /\ Dropped(k)
      /\ exit = "running" /\ step \in Steps
  BY Under, Basics
<1>2. Between' = Between /\ Steps' = Steps /\ Command' = Command
  BY <1>1, Fixed
<1>3. SUFFICES ASSUME Between PROVE
    /\ step' < 3 \/ Pending(3)' => nav = "old" /\ history[index] = Latest
    /\ \A i \in DOMAIN toClient' : ReplyTo(toClient'[i], 2) => toClient'[i].seen = historyRead
    /\ aim' # "none" => ~Pending(2)' /\ aim' = Target(historyRead)
    /\ step' > 2 => aim' # "none"
    /\ \A j \in DOMAIN toEngine' : toEngine'[j].step = 3 => toEngine'[j].aim = aim'
  <2>1. Latest' = Latest /\ (Known("pushed"))' = Known("pushed") /\ Target(historyRead)' = Target(historyRead)
    BY <1>1, <1>2 DEF Latest, Known, Target
  <2> QED
    BY <1>1, <1>2, <2>1 DEF Aimed
<1>4. 2 \in Steps /\ 3 \in Steps /\ 2 \in Must
  <2>1. 2 \in Must
    BY <1>1, <1>3, Scripts
  <2> QED
    BY <1>1, <1>3, <2>1, StepsAre
<1>5. step' < 3 \/ Pending(3)' => nav = "old" /\ history[index] = Latest
  <2>1. step' < 3 => step < 3
    BY StepOn
  <2>2. Pending(3)' => Pending(3)
    BY <1>4, StillPending
  <2> QED
    BY <1>3, <2>1, <2>2 DEF Aimed
<1>6. \A i \in DOMAIN toClient' : ReplyTo(toClient'[i], 2) => toClient'[i].seen = historyRead
  BY <1>1, <1>3, Older DEF Aimed
<1>7. aim' # "none" => ~Pending(2)' /\ aim' = Target(historyRead)
  <2>1. CASE aim' = aim
    BY <1>3, <1>4, <2>1, StillPending DEF Aimed
  <2>2. CASE aim' # aim
    <3>1. PICK i \in DOMAIN toClient : Good(toClient[i], 2) /\ aim' = Target(toClient[i].seen)
      BY <1>3, <2>2, AimChanges
    <3>2. toClient[i].seen = historyRead
      BY <1>3, <3>1 DEF Aimed, Good
    <3>3. ~Pending(2)
      BY <3>1 DEF Ids, Good, ReplyTo
    <3> QED
      BY <1>4, <3>1, <3>2, <3>3, StillPending
  <2> QED
    BY <2>1, <2>2
<1>8. step' > 2 => aim' # "none"
  <2>1. CASE step > 2
    <3>1. aim' = aim
      BY <1>3, <2>1, AimChanges
    <3> QED
      BY <1>3, <2>1, <3>1 DEF Aimed
  <2>2. CASE ~(step > 2) /\ step' > 2
    <3>1. step = 2 /\ step' = step + 1 /\ exit' = "running"
      BY <2>2, StepOn
    <3>2. ~Sent /\ ~Kept
      BY <3>1 DEF Sent, Kept
    <3>3. PICK outcome, from, reported : outcome \in {"ok", "error", "lost"} /\ Advance(outcome, from, reported)
      BY <3>2, Over
    <3> QED
      BY <1>1, <1>3, <3>1, <3>3, AdvanceIs
  <2> QED
    BY <2>1, <2>2
<1>9. \A j \in DOMAIN toEngine' : toEngine'[j].step = 3 => toEngine'[j].aim = aim'
  <2>1. SUFFICES ASSUME NEW j \in DOMAIN toEngine', toEngine'[j].step = 3 PROVE toEngine'[j].aim = aim'
    OBVIOUS
  <2>2. CASE Sent
    <3>1. toEngine' = Append(toEngine, [id |-> lastId', step |-> step, aim |-> aim]) /\ aim' = aim
      BY <2>2 DEF Sent
    <3>2. \/ j \in DOMAIN toEngine /\ toEngine'[j] = toEngine[j]
          \/ toEngine'[j].aim = aim
      BY <3>1, Basics DEF Typed, TypeOK
    <3> QED
      BY <1>3, <2>1, <3>1, <3>2 DEF Aimed
  <2>3. CASE ~Sent
    <3>1. toEngine' = toEngine
      BY <2>3 DEF ProgramStep
    <3>2. 3 \in 1 .. step
      BY <2>1, <3>1 DEF Ids, UnderWay
    <3>3. aim' = aim
      BY <1>3, <3>2, AimChanges
    <3> QED
      BY <1>3, <2>1, <3>1, <3>3 DEF Aimed
  <2> QED
    BY <2>2, <2>3
<1> QED
  BY <1>5, <1>6, <1>7, <1>8, <1>9

(* Next to the entry shown first, or added by its page, lies no other of that page, but the first. *)
LEMMA Beside ==
  ASSUME Typed, Between, history \in Histories, history[index] = Latest,
         NEW seen, seen = [entries |-> history, index |-> index]
  PROVE  \/ Target(seen) \in {"none", "before", "after"}
         \/ Target(seen) = "old" /\ Known("pushed")
<1>1. /\ index \in DOMAIN history /\ seen.entries = history /\ seen.index = index
  BY DEF Typed, TypeOK
<1>2. Command \in {"back", "forward"}
  BY DEF Between
<1> DEFINE at == index + (IF Command = "back" THEN -1 ELSE 1)
<1>3. Target(seen) = IF at \in DOMAIN history THEN history[at] ELSE "none"
  BY <1>1 DEF Target
<1>4. (Command = "back" => at = index - 1) /\ (Command = "forward" => at = index + 1)
  BY <1>1
<1> HIDE DEF at
<1>5. CASE history = <<"old", "after">>
  <2>1. DOMAIN history = 1 .. 2 /\ history[1] = "old" /\ history[2] = "after"
    BY <1>5, UrlsAre, Tuples
  <2> QED
    BY <1>1, <1>2, <1>3, <1>4, <2>1 DEF Latest, Known
<1>6. CASE history = <<"before", "old">>
  <2>1. DOMAIN history = 1 .. 2 /\ history[1] = "before" /\ history[2] = "old"
    BY <1>6, UrlsAre, Tuples
  <2> QED
    BY <1>1, <1>2, <1>3, <1>4, <2>1 DEF Latest, Known
<1>7. CASE history = <<"before", "old", "after">>
  <2>1. DOMAIN history = 1 .. 3 /\ history[1] = "before" /\ history[2] = "old" /\ history[3] = "after"
    BY <1>7, UrlsAre, Tuples
  <2>2. index = 2
    BY <1>1, <2>1 DEF Latest, Known
  <2> QED
    BY <1>2, <1>3, <1>4, <2>1, <2>2
<1>8. CASE history = <<"old", "pushed">>
  <2>1. DOMAIN history = 1 .. 2 /\ history[1] = "old" /\ history[2] = "pushed"
    BY <1>8, UrlsAre, Tuples
  <2>2. Known("pushed")
    BY <2>1 DEF Known
  <2>3. index = 2
    BY <1>1, <2>1, <2>2 DEF Latest
  <2> QED
    BY <1>2, <1>3, <1>4, <2>1, <2>2, <2>3
<1>9. CASE history = <<"before", "old", "pushed">>
  <2>1. DOMAIN history = 1 .. 3 /\ history[1] = "before" /\ history[2] = "old" /\ history[3] = "pushed"
    BY <1>9, UrlsAre, Tuples
  <2>2. Known("pushed")
    BY <2>1 DEF Known
  <2>3. index = 3
    BY <1>1, <2>1, <2>2 DEF Latest
  <2> QED
    BY <1>2, <1>3, <1>4, <2>1, <2>2, <2>3
<1> QED
  BY <1>5, <1>6, <1>7, <1>8, <1>9 DEF Histories

LEMMA AimedHandle ==
  ASSUME Typed, Ids, Progress, Page, Aimed, NEW c, NEW ok \in BOOLEAN, Handling(c, ok)
  PROVE  Aimed'
<1>1. /\ UNCHANGED <<program, step, aim, history>> /\ program \in Programs /\ step \in Nat
      /\ c.step \in Steps
  BY Moves, Basics, HandledOnce
<1>2. Between' = Between /\ Command' = Command
  BY <1>1, Fixed
<1>3. SUFFICES ASSUME Between PROVE
    /\ nav' = "old" => history[index'] \in {"old", "pushed"}
    /\ step < 3 \/ Pending(3)' => nav' = "old" /\ history[index'] = Latest
    /\ \A i \in DOMAIN toClient' : ReplyTo(toClient'[i], 2) => toClient'[i].seen = historyRead'
    /\ \/ Target(historyRead') \in {"none", "before", "after"}
       \/ Target(historyRead') = "old" /\ Known("pushed")
    /\ aim # "none" => ~Pending(2)' /\ aim = Target(historyRead')
    /\ \A j \in DOMAIN toEngine' : toEngine'[j].step = 3 => toEngine'[j].aim = aim
  <2>1. Latest' = Latest /\ (Known("pushed"))' = Known("pushed") /\ Target(historyRead)' = Target(historyRead')
    BY <1>1, <1>2 DEF Latest, Known, Target
  <2> QED
    BY <1>1, <1>2, <2>1 DEF Aimed
<1>4. 2 \in Steps /\ 3 \in Steps /\ 2 \in Must /\ Away = 3
      /\ (Script[c.step] = "Page.getNavigationHistory" <=> c.step = 2)
  <2>1. 2 \in Must /\ Away = 3
    BY <1>1, <1>3, Scripts
  <2>2. Script[c.step] = "Page.getNavigationHistory" <=> c.step = 2
    BY <1>1, <1>3, Scripts
  <2> QED
    BY <1>1, <1>3, <2>1, <2>2, StepsAre
<1>5. nav' = "old" => history[index'] \in {"old", "pushed"}
  <2>1. CASE UNCHANGED <<nav, index>>
    BY <1>3, <2>1 DEF Aimed
  <2>2. CASE c.step = Away /\ ok /\ SameDocument(c.aim) /\ history[index'] = c.aim
    BY <2>2 DEF SameDocument
  <2> QED
    BY <1>3, <2>1, <2>2, Moves
<1>6. step < 3 \/ Pending(3)' => nav' = "old" /\ history[index'] = Latest
  <2>1. SUFFICES ASSUME step < 3 \/ Pending(3)' PROVE nav' = "old" /\ history[index'] = Latest
    OBVIOUS
  <2>2. c.step # 3
    <3>1. CASE step < 3
      BY <1>1, <3>1, Taken DEF UnderWay
    <3>2. CASE Pending(3)'
      BY <3>2, HandledOnce
    <3> QED
      BY <2>1, <3>1, <3>2
  <2>3. step < 3 \/ Pending(3)
    BY <1>4, <2>1, HandledOnce
  <2>4. UNCHANGED <<nav, index>>
    BY <1>4, <2>2, Moves
  <2> QED
    BY <1>3, <2>3, <2>4 DEF Aimed
<1>7. historyRead' = IF c.step = 2 THEN [entries |-> history, index |-> index] ELSE historyRead
  BY <1>4 DEF Handling
<1>8. c.step = 2 => step < 3
  <2>1. SUFFICES ASSUME c.step = 2, ~(step < 3) PROVE FALSE
    OBVIOUS
  <2>2. got[2] = "ok"
    BY <1>1, <1>4, <2>1 DEF Progress
  <2>3. ~Pending(2)
    BY <1>4, <2>2 DEF Progress
  <2> QED
    BY <2>1, <2>3, HandledOnce
<1>9. \/ Target(historyRead') \in {"none", "before", "after"}
      \/ Target(historyRead') = "old" /\ Known("pushed")
  <2>1. CASE c.step = 2
    <3>1. history \in Histories /\ history[index] = Latest
      BY <1>3, <1>8, <2>1 DEF Aimed
    <3> QED
      BY <1>3, <1>7, <2>1, <3>1, Beside
  <2>2. CASE c.step # 2
    BY <1>3, <1>7, <2>2 DEF Aimed
  <2> QED
    BY <2>1, <2>2
<1>10. \A i \in DOMAIN toClient' : ReplyTo(toClient'[i], 2) => toClient'[i].seen = historyRead'
  <2>1. SUFFICES ASSUME NEW i \in DOMAIN toClient', ReplyTo(toClient'[i], 2) PROVE toClient'[i].seen = historyRead'
    OBVIOUS
  <2>2. CASE i \in DOMAIN toClient /\ toClient'[i] = toClient[i]
    <3>1. ~Pending(2)
      BY <2>1, <2>2 DEF Ids, ReplyTo
    <3>2. c.step # 2
      BY <3>1, HandledOnce
    <3> QED
      BY <1>3, <1>7, <2>1, <2>2, <3>2 DEF Aimed
  <2>3. CASE toClient'[i] = Reply(c, ok)
    <3>1. Reply(c, ok).step = c.step /\ Reply(c, ok).seen = [entries |-> history, index |-> index]
      BY Taken, ReplyIs
    <3> QED
      BY <1>7, <2>1, <2>3, <3>1 DEF ReplyTo
  <2> QED
    BY <2>2, <2>3, Taken, ReplyIs, Put DEF Handling
<1>11. aim # "none" => ~Pending(2)' /\ aim = Target(historyRead')
  <2>1. SUFFICES ASSUME aim # "none" PROVE ~Pending(2)' /\ aim = Target(historyRead')
    OBVIOUS
  <2>2. ~Pending(2) /\ aim = Target(historyRead)
    BY <1>3, <2>1 DEF Aimed
  <2>3. c.step # 2
    BY <2>2, HandledOnce
  <2> QED
    BY <1>4, <1>7, <2>2, <2>3, HandledOnce
<1>12. \A j \in DOMAIN toEngine' : toEngine'[j].step = 3 => toEngine'[j].aim = aim
  BY <1>3, Taken DEF Aimed
<1> QED
  BY <1>5, <1>6, <1>9, <1>10, <1>11, <1>12

LEMMA Lengthened ==
  ASSUME NEW h \in Seq(Urls), NEW n \in DOMAIN h, NEW u \in Urls,
         NEW l, l = Append(SubSeq(h, 1, n), u)
  PROVE  /\ l \in Seq(Urls) /\ DOMAIN l = 1 .. (n + 1) /\ Len(l) = n + 1 /\ l[n + 1] = u
         /\ \A i \in 1 .. n : l[i] = h[i]
OBVIOUS

LEMMA Same ==
  ASSUME NEW s \in Seq(Urls), NEW t \in Seq(Urls), Len(s) = Len(t), \A i \in 1 .. Len(s) : s[i] = t[i]
  PROVE  s = t
OBVIOUS

LEMMA SamePair ==
  ASSUME NEW s \in Seq(Urls), NEW t \in Seq(Urls), Len(s) = 2, Len(t) = 2, s[1] = t[1], s[2] = t[2]
  PROVE  s = t
<1>1. ASSUME NEW i \in 1 .. 2 PROVE s[i] = t[i]
  <2>1. i = 1 \/ i = 2
    OBVIOUS
  <2> QED
    BY <2>1
<1> QED
  BY <1>1, Same

LEMMA SameTriple ==
  ASSUME NEW s \in Seq(Urls), NEW t \in Seq(Urls), Len(s) = 3, Len(t) = 3,
         s[1] = t[1], s[2] = t[2], s[3] = t[3]
  PROVE  s = t
<1>1. ASSUME NEW i \in 1 .. 3 PROVE s[i] = t[i]
  <2>1. i = 1 \/ i = 2 \/ i = 3
    OBVIOUS
  <2> QED
    BY <2>1
<1> QED
  BY <1>1, Same

LEMMA Pushed ==
  ASSUME Typed, history \in Histories, ~Known("pushed"), history[index] \in {"old", "pushed"},
         NEW l, l = Append(SubSeq(history, 1, index), "pushed")
  PROVE  l \in Histories
<1>1. history \in Seq(Urls) /\ index \in DOMAIN history /\ history[index] = "old"
  BY DEF Typed, TypeOK, Known
<1>2. /\ l \in Seq(Urls) /\ Len(l) = index + 1 /\ l[index + 1] = "pushed"
      /\ \A i \in 1 .. index : l[i] = history[i]
  BY <1>1, Lengthened, UrlsAre
<1>3. ASSUME index = 1 PROVE l = <<"old", "pushed">>
  <2> DEFINE t == <<"old", "pushed">>
  <2>1. t \in Seq(Urls) /\ Len(t) = 2 /\ t[1] = "old" /\ t[2] = "pushed"
    BY UrlsAre, Tuples
  <2>2. Len(l) = 2 /\ l[2] = "pushed"
    BY <1>2, <1>3
  <2>3. l[1] = "old"
    BY <1>1, <1>2, <1>3
  <2> HIDE DEF t
  <2>4. l = t
    BY <1>2, <2>1, <2>2, <2>3, SamePair
  <2> QED
    BY <2>4 DEF t
<1>4. ASSUME index = 2, history[1] = "before" PROVE l = <<"before", "old", "pushed">>
  <2> DEFINE t == <<"before", "old", "pushed">>
  <2>1. t \in Seq(Urls) /\ Len(t) = 3 /\ t[1] = "before" /\ t[2] = "old" /\ t[3] = "pushed"
    BY UrlsAre, Tuples
  <2>2. Len(l) = 3 /\ l[3] = "pushed"
    BY <1>2, <1>4
  <2>3. l[1] = "before" /\ l[2] = "old"
    <3>1. 1 \in 1 .. index /\ 2 \in 1 .. index
      BY <1>4
    <3>2. l[1] = history[1] /\ l[2] = history[2]
      BY <1>2, <3>1
    <3> QED
      BY <1>1, <1>4, <3>2
  <2> HIDE DEF t
  <2>4. l = t
    BY <1>2, <2>1, <2>2, <2>3, SameTriple
  <2> QED
    BY <2>4 DEF t
<1>5. index = 1 \/ (index = 2 /\ history[1] = "before")
  <2>1. CASE history = <<"old", "after">>
    BY <1>1, <2>1, UrlsAre, Tuples
  <2>2. CASE history = <<"before", "old">>
    BY <1>1, <2>2, UrlsAre, Tuples
  <2>3. CASE history = <<"before", "old", "after">>
    BY <1>1, <2>3, UrlsAre, Tuples
  <2>4. CASE history = <<"old", "pushed">>
    BY <1>1, <2>4, UrlsAre, Tuples
  <2>5. CASE history = <<"before", "old", "pushed">>
    <3>1. 3 \in DOMAIN history /\ history[3] = "pushed"
      BY <2>5, UrlsAre, Tuples
    <3> QED
      BY <3>1 DEF Known
  <2> QED
    BY <2>1, <2>2, <2>3, <2>4, <2>5 DEF Histories
<1> QED
  BY <1>3, <1>4, <1>5 DEF Histories

LEMMA AimedAside ==
  ASSUME Typed, Ids, Page, Aimed, PushState \/ Commit \/ Load \/ ShutDown
  PROVE  Aimed'
<1>1. /\ UNCHANGED <<program, step, aim, toEngine>> /\ \A s : Pending(s)' <=> Pending(s)
      /\ \/ UNCHANGED toClient
         \/ \E m \in [kind : {"load", "close"}] : toClient' = Append(toClient, m)
  BY PageSteps, AsideSays DEF Aside
<1>2. Between' = Between /\ Command' = Command
  BY <1>1, Fixed
<1>3. historyRead' = historyRead /\ Target(historyRead)' = Target(historyRead)
  BY <1>2 DEF PushState, Commit, Load, ShutDown, Target
<1>4. \A i \in DOMAIN toClient' : \/ i \in DOMAIN toClient /\ toClient'[i] = toClient[i]
                                  \/ toClient'[i].kind # "reply"
  <2>1. CASE UNCHANGED toClient
    BY <2>1
  <2>2. CASE \E m \in [kind : {"load", "close"}] : toClient' = Append(toClient, m)
    <3>1. PICK m \in [kind : {"load", "close"}] : toClient' = Append(toClient, m)
      BY <2>2
    <3>2. m \in Message /\ m.kind # "reply"
      BY DEF Message
    <3> QED
      BY <3>1, <3>2, Put
  <2> QED
    BY <1>1, <2>1, <2>2
<1>5. SUFFICES ASSUME Between PROVE
    /\ history' \in Histories
    /\ nav' = "old" => history'[index'] \in {"old", "pushed"}
    /\ step < 3 \/ Pending(3) => nav' = "old" /\ history'[index'] = Latest'
    /\ Known("pushed") => Known("pushed")'
  <2>1. Between => \A i \in DOMAIN toClient : ReplyTo(toClient[i], 2) => toClient[i].seen = historyRead
    BY DEF Aimed
  <2>2. Between => \A i \in DOMAIN toClient' : ReplyTo(toClient'[i], 2) => toClient'[i].seen = historyRead
    BY <1>4, <2>1 DEF ReplyTo
  <2> QED
    BY <1>1, <1>2, <1>3, <1>5, <2>2 DEF Aimed
<1>6. CASE PushState
  <2>1. /\ nav = "old" /\ nav' = nav /\ ~Known("pushed") /\ index' = index + 1
        /\ history' = Append(SubSeq(history, 1, index), "pushed")
    BY <1>6 DEF PushState
  <2>2. history' \in Histories
    BY <1>5, <2>1, Pushed DEF Aimed
  <2>3. index + 1 \in DOMAIN history' /\ history'[index'] = "pushed"
    BY <2>1, Lengthened, UrlsAre DEF Typed, TypeOK
  <2>4. Known("pushed")'
    BY <2>1, <2>3 DEF Known
  <2> QED
    BY <2>1, <2>2, <2>3, <2>4 DEF Latest
<1>7. CASE Commit
  <2>1. nav = "asked" /\ nav' = "committed" /\ history' = history
    BY <1>5, <1>7 DEF Commit, Between
  <2> QED
    BY <1>5, <2>1 DEF Aimed, Known
<1>8. CASE Load
  <2>1. UNCHANGED <<history, index>> /\ (nav' = nav \/ (nav = "committed" /\ nav' = "loaded"))
    BY <1>8 DEF Load
  <2> QED
    BY <1>5, <2>1 DEF Aimed, Known, Latest
<1>9. CASE ShutDown
  <2>1. UNCHANGED <<history, index, nav>>
    BY <1>9 DEF ShutDown
  <2> QED
    BY <1>5, <2>1 DEF Aimed, Known, Latest
<1> QED
  BY <1>6, <1>7, <1>8, <1>9

LEMMA ArrivesProgram ==
  ASSUME Typed, Ids, Progress, Arrives, NEW k \in Nat, ProgramStep(k)
  PROVE  Arrives'
<1>1. UNCHANGED <<nav, newUrl, history, index>> /\ program' = program /\ program \in Programs
  BY Under, Basics
<1>2. Between' = Between
  BY <1>1, Fixed
<1>3. SUFFICES ASSUME Between, Answered(3)'
               PROVE  Answered(3) /\ aim' = aim
  BY <1>1, <1>2 DEF Arrives, Known
<1>4. 3 \in Steps /\ Script[3] # "load"
  BY <1>1, <1>3, StepsAre, ScriptBetween
<1>5. Answered(3)
  BY <1>3, <1>4, StillAnswered
<1>6. aim' = aim
  <2>1. SUFFICES ASSUME aim' # aim PROVE FALSE
    OBVIOUS
  <2>2. step = 2
    BY <1>3, <2>1, AimChanges
  <2> QED
    BY <1>4, <1>5, <2>2, NotYet
<1> QED
  BY <1>5, <1>6

LEMMA ArrivesHandle ==
  ASSUME Typed, Ids, Progress, Page, Aimed, Arrives, NEW c, NEW ok \in BOOLEAN, Handling(c, ok)
  PROVE  Arrives'
<1>1. UNCHANGED <<aim, history>> /\ program' = program /\ program \in Programs
  BY Moves, Basics
<1>2. Between' = Between
  BY <1>1, Fixed
<1>3. SUFFICES ASSUME Between, Answered(3)'
               PROVE  \/ nav' = "old" /\ history[index'] = aim /\ Known("pushed")
                      \/ nav' = "asked" /\ newUrl' = aim /\ Known(aim)
                      \/ nav' \in {"committed", "loaded"} /\ history[index'] = aim
  BY <1>1, <1>2 DEF Arrives, Known
<1>4. 3 \in Steps /\ Away = 3
  BY <1>1, <1>3, StepsAre, Scripts
<1>5. CASE Answered(3)
  <2>1. ~Pending(3)
    BY <1>4, <1>5, AnsweredOnce
  <2>2. UNCHANGED <<nav, newUrl, index>>
    BY <1>4, <2>1, StaysPut
  <2> QED
    BY <1>3, <1>5, <2>2 DEF Arrives
<1>6. CASE c.step = 3 /\ ok
  <2>1. c = toEngine[1] /\ 1 \in DOMAIN toEngine /\ c.step \in 1 .. step /\ step \in Nat
    BY Taken, Basics DEF UnderWay
  <2>2. c.aim = aim
    BY <1>3, <1>6, <2>1 DEF Aimed
  <2>3. step > 2
    BY <1>6, <2>1
  <2>4. aim # "none" /\ aim = Target(historyRead)
    BY <1>3, <2>3 DEF Aimed
  <2>5. aim \in {"before", "after"} \/ (aim = "old" /\ Known("pushed"))
    BY <1>3, <2>4 DEF Aimed
  <2>6. \/ SameDocument(aim) /\ nav' = nav /\ history[index'] = aim
        \/ nav' = "asked" /\ newUrl' = aim /\ Known(aim)
    BY <1>3, <1>4, <1>6, <2>2, Moves
  <2> QED
    BY <2>5, <2>6 DEF SameDocument
<1> QED
  BY <1>3, <1>4, <1>5, <1>6, HandledOnce

LEMMA ArrivesAside ==
  ASSUME Typed, Ids, Page, Arrives, PushState \/ Commit \/ Load \/ ShutDown
  PROVE  Arrives'
<1>1. UNCHANGED <<program, aim>> /\ \A s : Answered(s)' => Answered(s)
  BY PageSteps, AsideSays
<1>2. Between' = Between
  BY <1>1, Fixed
<1>3. SUFFICES ASSUME Between, Answered(3)
               PROVE  \/ nav' = "old" /\ history'[index'] = aim /\ Known("pushed")'
                      \/ nav' = "asked" /\ newUrl' = aim /\ Known(aim)'
                      \/ nav' \in {"committed", "loaded"} /\ history'[index'] = aim
  BY <1>1, <1>2 DEF Arrives, Known
<1>4. CASE PushState
  BY <1>3, <1>4 DEF PushState, Arrives
<1>5. CASE Commit
  <2>1. nav = "asked" /\ nav' = "committed" /\ history' = history /\ index' = IndexOf(newUrl)
    BY <1>3, <1>5 DEF Commit, Between
  <2>2. newUrl = aim /\ Known(aim)
    BY <1>3, <2>1 DEF Arrives
  <2> QED
    BY <2>1, <2>2, IndexOfIs
<1>6. CASE Load
  <2>1. UNCHANGED <<history, index, newUrl>> /\ (nav' = nav \/ (nav = "committed" /\ nav' = "loaded"))
    BY <1>6 DEF Load
  <2> QED
    BY <1>1, <1>3, <2>1 DEF Arrives, Known
<1>7. CASE ShutDown
  <2>1. UNCHANGED <<history, index, newUrl, nav>>
    BY <1>7 DEF ShutDown
  <2> QED
    BY <1>1, <1>3, <2>1 DEF Arrives, Known
<1> QED
  BY <1>4, <1>5, <1>6, <1>7

(* Only the step the script is at comes to an end. *)
LEMMA Elsewhere ==
  ASSUME Typed, Ids, NEW k \in Nat, ProgramStep(k), NEW s \in Steps, s # step
  PROVE  got'[s] = got[s]
<1>1. exit = "running" /\ program \in Programs /\ step \in Steps
      /\ got \in [Steps -> {"none", "ok", "error", "lost"}]
  BY Under, Basics
<1>2. CASE Sent \/ Kept
  BY <1>2 DEF Sent, Kept
<1>3. CASE ~Sent /\ ~Kept
  <2>1. PICK outcome, from, reported : outcome \in {"ok", "error", "lost"} /\ Advance(outcome, from, reported)
    BY <1>3, Over
  <2>2. got' = [got EXCEPT ![step] = outcome]
    BY <1>1, <2>1, AdvanceIs
  <2> QED
    BY <1>1, <2>2
<1> QED
  BY <1>2, <1>3

LEMMA SettledProgram ==
  ASSUME Typed, Ids, Progress, Page', Alive', Settled, NEW k \in Nat, ProgramStep(k)
  PROVE  Settled'
<1>1. /\ UNCHANGED <<nav, up>> /\ program' = program /\ program \in Programs /\ exit = "running"
      /\ step \in Steps /\ step \in Nat /\ got \in [Steps -> {"none", "ok", "error", "lost"}]
  BY Under, Basics
<1>2. Between' = Between /\ Late' = Late
  BY <1>1, Fixed
<1>3. SUFFICES ASSUME Between, ~Late \/ got'[4] = "ok"
               PROVE  /\ step' > 4 /\ up => Still
                      /\ \A u \in Urls \cup {"none"} : Reported(7, u)' => u = aim'
  BY <1>1, <1>2 DEF Settled, InTime, Still
<1>4. /\ HasLoad /\ Away = 3 /\ Loading = 4 /\ 3 \in Steps /\ 4 \in Steps /\ 7 \in Steps
      /\ Script[4] = "load" /\ Script[7] = "Page.getFrameTree" /\ Impl = "native"
  BY <1>1, <1>3, Scripts, StepsAre, ScriptBetween, Kinds DEF HasLoad, Loading
<1>5. ASSUME step > 4 PROVE InTime
  <2>1. got'[4] = got[4]
    BY <1>4, <1>5, Elsewhere
  <2> QED
    BY <1>3, <2>1 DEF InTime
<1>6. ASSUME step' > 4, up PROVE Still
  <2>1. CASE step > 4
    BY <1>3, <1>5, <1>6, <2>1 DEF Settled
  <2>2. CASE ~(step > 4)
    <3>1. step = 4 /\ step' = 5
      BY <1>1, <1>6, <2>2, StepOn
    <3>2. ~Sent /\ ~Kept /\ waiting = 0
      BY <1>4, <3>1 DEF Sent, Kept, Ids
    <3>3. CASE LoadGot(k)
      <4>1. got' = [got EXCEPT ![step] = "ok"]
        BY <1>1, <3>3, AdvanceIs DEF LoadGot
      <4>2. got'[4] = "ok"
        BY <1>1, <1>4, <3>1, <4>1
      <4>3. HasLoad' /\ Away' = 3 /\ Impl' # "node"
        BY <1>1, <1>4, Fixed
      <4>4. Waited'
        BY <4>2, <4>3 DEF Waited
      <4>5. Still'
        BY <4>3, <4>4 DEF Alive
      <4> QED
        BY <1>1, <4>5 DEF Still
    <3>4. CASE Lost
      <4>1. Advance("lost", 0, None)
        BY <3>4 DEF Lost, GiveUp
      <4>2. got' = [got EXCEPT ![step] = "lost"]
        BY <1>1, <4>1, AdvanceIs
      <4>3. got'[4] = "lost"
        BY <1>1, <1>4, <3>1, <4>2
      <4>4. ~Late
        BY <1>3, <4>3
      <4>5. closed' \/ ~LoadToCome
        BY <1>4, <3>1, <3>4, <4>4 DEF Lost
      <4>6. ~closed'
        BY <1>1, <1>6 DEF Page
      <4>7. nav \notin {"asked", "committed"}
        BY <1>6, <4>5, <4>6 DEF LoadToCome
      <4> QED
        BY <4>7 DEF Typed, TypeOK, Still
    <3> QED
      BY <3>2, <3>3, <3>4 DEF ProgramStep
  <2> QED
    BY <2>1, <2>2
<1>7. ASSUME NEW u \in Urls \cup {"none"}, Reported(7, u)' PROVE u = aim'
  <2>1. Reported(7, u)
    BY <1>4, <1>7, StillReported
  <2>2. ~(7 > step)
    BY <1>4, <2>1, ReportedIsAnswered, NotYet
  <2>3. step > 4 /\ step # 2
    BY <1>1, <2>2
  <2>4. aim' = aim
    BY <1>3, <2>3, AimChanges
  <2> QED
    BY <1>3, <1>5, <1>7, <2>1, <2>3, <2>4 DEF Settled
<1> QED
  BY <1>6, <1>7

LEMMA SettledHandle ==
  ASSUME Typed, Ids, Progress, Page, Arrives, Settled, NEW c, NEW ok \in BOOLEAN, Handling(c, ok)
  PROVE  Settled'
<1>1. UNCHANGED <<aim, history, step, got, up>> /\ program' = program /\ program \in Programs /\ up
  BY Moves, Basics DEF Handling
<1>2. Between' = Between /\ Late' = Late
  BY <1>1, Fixed
<1>3. SUFFICES ASSUME Between, InTime
               PROVE  /\ step > 4 => Still'
                      /\ \A u \in Urls \cup {"none"} : Reported(7, u)' => u = aim
  BY <1>1, <1>2 DEF Settled, InTime
<1>4. /\ HasLoad /\ Away = 3 /\ Loading = 4 /\ 3 \in Steps /\ 7 \in Steps /\ 3 \in Must /\ step \in Nat
  BY <1>1, <1>3, Scripts, StepsAre, Kinds, Basics DEF HasLoad, Loading
<1>5. ASSUME step > 4
      PROVE  Still /\ UNCHANGED <<nav, index>> /\ Answered(3)
  <2>1. got[3] = "ok" /\ ~Pending(Away)
    BY <1>4, <1>5, Passed
  <2> QED
    BY <1>1, <1>3, <1>5, <2>1, StaysPut DEF Settled, Answered
<1>6. ASSUME NEW u \in Urls \cup {"none"}, Reported(7, u)' PROVE u = aim
  <2>1. CASE Reported(7, u)
    BY <1>3, <1>6, <2>1 DEF Settled
  <2>2. CASE 7 = c.step /\ u = history[index]
    <3>1. step > 4
      BY <1>4, <2>2, Taken DEF UnderWay
    <3>2. Still /\ Answered(3)
      BY <1>5, <3>1
    <3> QED
      BY <1>3, <2>2, <3>2 DEF Arrives, Still
  <2> QED
    BY <1>4, <1>6, <2>1, <2>2, HandledOnce
<1> QED
  BY <1>5, <1>6 DEF Still

LEMMA SettledAside ==
  ASSUME Typed, Page, Settled, PushState \/ Commit \/ Load \/ ShutDown
  PROVE  Settled'
<1>1. UNCHANGED <<program, aim, step, got>> /\ \A s, u : Reported(s, u)' => Reported(s, u)
  BY PageSteps, AsideSays
<1>2. Between' = Between /\ Late' = Late
  BY <1>1, Fixed
<1>3. SUFFICES ASSUME Between, InTime, step > 4, up'
               PROVE  Still'
  BY <1>1, <1>2 DEF Settled, InTime
<1>4. CASE PushState \/ ShutDown
  BY <1>3, <1>4 DEF PushState, ShutDown, Still, Settled
<1>5. CASE Commit
  BY <1>3, <1>5 DEF Commit, Still, Settled
<1>6. CASE Load
  BY <1>3, <1>6 DEF Load, Still, Settled
<1> QED
  BY <1>4, <1>5, <1>6

-----------------------------------------------------------------------------
(* click *)

LEMMA ClicksProgram ==
  ASSUME Typed, Ids, Progress, Clicks, NEW k \in Nat, ProgramStep(k)
  PROVE  Clicks'
<1>1. /\ UNCHANGED <<nav, newUrl, history, index, timer>> /\ program' = program /\ program \in Programs
      /\ exit = "running" /\ step \in Steps /\ step \in Nat
  BY Under, Basics
<1>2. Command' = Command /\ Late' = Late
  BY <1>1, Fixed
<1>3. SUFFICES ASSUME Command = "click"
               PROVE  /\ \A u \in Urls \cup {"none"} : Reported(3, u)' => u \in {"old", "pushed"}
                      /\ ~Late /\ got'[5] = "ok" =>
                           /\ step' >= 6 /\ ~ToSend(6)' => Still
                           /\ nav = "loaded" => \A u \in Urls \cup {"none"} : Reported(6, u)' => u = newUrl
                           /\ Answered(7)' => timer
  BY <1>1, <1>2 DEF Clicks, Still
<1>4. /\ 3 \in Steps /\ 5 \in Steps /\ 6 \in Steps /\ 7 \in Steps
      /\ Script[3] = "Page.getFrameTree" /\ Script[6] = "Page.getFrameTree"
      /\ Script[5] # "load" /\ Script[6] # "load" /\ Script[7] # "load"
  BY <1>1, <1>3, StepsAre, ScriptClick
<1>5. ASSUME NEW u \in Urls \cup {"none"}, Reported(3, u)' PROVE u \in {"old", "pushed"}
  BY <1>3, <1>4, <1>5, StillReported DEF Clicks
<1>6. ASSUME ~Late, got'[5] = "ok", step >= 6
      PROVE  /\ ~ToSend(6) => Still
             /\ nav = "loaded" => \A u \in Urls \cup {"none"} : Reported(6, u) => u = newUrl
             /\ Answered(7) => timer
  <2>1. got[5] = "ok"
    BY <1>1, <1>4, <1>6, Elsewhere
  <2> QED
    BY <1>3, <1>6, <2>1 DEF Clicks
<1>7. ASSUME ~Late, got'[5] = "ok", step' >= 6, ~ToSend(6)' PROVE Still
  <2>1. step >= 6
    <3>1. ~(step' = 6 /\ exit' = "running" /\ waiting' = 0)
      BY <1>7 DEF ToSend
    <3> QED
      BY <1>1, <1>7, <3>1, StepOn
  <2>2. CASE ToSend(6)
    <3>1. step = 6 /\ waiting = 0
      BY <1>1, <2>1, <2>2 DEF ToSend
    <3>2. ~Kept
      BY <1>1, <1>7, <3>1 DEF ToSend, Kept
    <3>3. Slept
      <4>1. ~LoadGot(k)
        BY <1>4, <3>1 DEF LoadGot
      <4> QED
        BY <1>4, <3>1, <3>2, <4>1 DEF ProgramStep, Sent, Lost
    <3> QED
      BY <1>3, <1>7, <3>1, <3>3 DEF Slept, Still
  <2> QED
    BY <1>6, <1>7, <2>1, <2>2
<1>8. ASSUME ~Late, got'[5] = "ok", nav = "loaded", NEW u \in Urls \cup {"none"}, Reported(6, u)'
      PROVE  u = newUrl
  <2>1. Reported(6, u)
    BY <1>4, <1>8, StillReported
  <2>2. ~(6 > step)
    BY <1>4, <2>1, ReportedIsAnswered, NotYet
  <2> QED
    BY <1>1, <1>6, <1>8, <2>1, <2>2
<1>9. ASSUME ~Late, got'[5] = "ok", Answered(7)' PROVE timer
  <2>1. Answered(7)
    BY <1>4, <1>9, StillAnswered
  <2>2. ~(7 > step)
    BY <1>4, <2>1, NotYet
  <2> QED
    BY <1>1, <1>6, <1>9, <2>1, <2>2
<1> QED
  BY <1>5, <1>7, <1>8, <1>9

LEMMA ClicksHandle ==
  ASSUME Typed, Ids, Progress, Page, Clicks, NEW c, NEW ok \in BOOLEAN, Handling(c, ok)
  PROVE  Clicks'
<1>1. /\ UNCHANGED <<history, step, got, exit, waiting>> /\ program' = program /\ program \in Programs
      /\ timer' = (timer \/ (ok /\ Script[c.step] = "Runtime.evaluate"))
  BY Moves, Basics DEF Handling
<1>2. Command' = Command /\ Late' = Late
  BY <1>1, Fixed
<1>3. SUFFICES ASSUME Command = "click"
               PROVE  /\ nav' = "old" => history[index'] \in {"old", "pushed"}
                      /\ nav' \in {"committed", "loaded"} => history[index'] = newUrl'
                      /\ \A u \in Urls \cup {"none"} : Reported(3, u)' => u \in {"old", "pushed"}
                      /\ ~Late /\ got[5] = "ok" =>
                           /\ step >= 6 /\ ~ToSend(6) => Still'
                           /\ nav' = "loaded" => \A u \in Urls \cup {"none"} : Reported(6, u)' => u = newUrl'
                           /\ Answered(7)' => timer'
  BY <1>1, <1>2 DEF Clicks, ToSend
<1>4. /\ 3 \in Steps /\ 5 \in Steps /\ 6 \in Steps /\ 7 \in Steps /\ Away = 5 /\ ~Between
      /\ Script[7] = "Runtime.evaluate"
  BY <1>1, <1>3, StepsAre, Scripts, Kinds
<1>5. index' = index /\ (UNCHANGED <<nav, newUrl>> \/ nav' = "asked")
  BY <1>3, <1>4, Moves
<1>6. ASSUME NEW u \in Urls \cup {"none"}, Reported(3, u)' PROVE u \in {"old", "pushed"}
  <2>1. CASE Reported(3, u)
    BY <1>3, <1>6, <2>1 DEF Clicks
  <2>2. CASE 3 = c.step /\ u = history[index]
    <3>1. 1 \in DOMAIN toEngine /\ toEngine[1].step = 3
      BY <2>2, Taken
    <3>2. nav = "old"
      BY <1>4, <3>1 DEF Page
    <3> QED
      BY <1>3, <2>2, <3>2 DEF Clicks
  <2> QED
    BY <1>4, <1>6, <2>1, <2>2, HandledOnce
<1>7. ASSUME ~Late, got[5] = "ok"
      PROVE  /\ UNCHANGED <<nav, newUrl>>
             /\ step >= 6 /\ ~ToSend(6) => Still
             /\ nav = "loaded" => \A u \in Urls \cup {"none"} : Reported(6, u) => u = newUrl
             /\ Answered(7) => timer
  <2>1. ~Pending(Away)
    BY <1>4, <1>7 DEF Progress
  <2>2. UNCHANGED <<nav, newUrl>>
    BY <2>1, StaysPut
  <2> QED
    BY <1>3, <1>7, <2>2 DEF Clicks
<1>8. ASSUME ~Late, got[5] = "ok", nav' = "loaded", NEW u \in Urls \cup {"none"}, Reported(6, u)'
      PROVE  u = newUrl'
  <2>1. nav = "loaded" /\ newUrl' = newUrl
    BY <1>7, <1>8
  <2>2. CASE Reported(6, u)
    BY <1>7, <1>8, <2>1, <2>2
  <2>3. CASE 6 = c.step /\ u = history[index]
    BY <1>3, <2>1, <2>3 DEF Clicks
  <2> QED
    BY <1>4, <1>8, <2>2, <2>3, HandledOnce
<1>9. ASSUME ~Late, got[5] = "ok", Answered(7)' PROVE timer'
  <2>1. CASE Answered(7)
    BY <1>1, <1>7, <1>9, <2>1
  <2>2. CASE 7 = c.step /\ ok
    BY <1>1, <1>4, <2>2
  <2> QED
    BY <1>4, <1>9, <2>1, <2>2, HandledOnce
<1>10. /\ nav' = "old" => history[index'] \in {"old", "pushed"}
       /\ nav' \in {"committed", "loaded"} => history[index'] = newUrl'
  BY <1>3, <1>5 DEF Clicks
<1>11. ~Late /\ got[5] = "ok" => (step >= 6 /\ ~ToSend(6) => Still')
  BY <1>7 DEF Still
<1> QED
  BY <1>6, <1>8, <1>9, <1>10, <1>11

LEMMA ClicksAside ==
  ASSUME Typed, Ids, Progress, Page, Clicks, PushState \/ Commit \/ Load \/ ShutDown
  PROVE  Clicks'
<1>1. /\ UNCHANGED <<program, step, got, exit, waiting>> /\ program \in Programs /\ step \in Nat
      /\ \A s : Answered(s)' => Answered(s)
      /\ \A s, u : Reported(s, u)' => Reported(s, u)
  BY PageSteps, AsideSays, Basics
<1>2. Command' = Command /\ Late' = Late
  BY <1>1, Fixed
<1>3. SUFFICES ASSUME Command = "click"
               PROVE  /\ nav' = "old" => history'[index'] \in {"old", "pushed"}
                      /\ nav' \in {"committed", "loaded"} => history'[index'] = newUrl'
                      /\ ~Late /\ got[5] = "ok" =>
                           /\ step >= 6 /\ ~ToSend(6) => Still'
                           /\ nav' = "loaded" => \A u \in Urls \cup {"none"} : Reported(6, u) => u = newUrl'
                           /\ Answered(7) => timer'
  BY <1>1, <1>2 DEF Clicks, ToSend
<1>4. 6 \in Steps /\ 7 \in Steps
  BY <1>1, <1>3, StepsAre
<1>5. /\ nav = "old" => history[index] \in {"old", "pushed"}
      /\ nav \in {"committed", "loaded"} => history[index] = newUrl
      /\ ~Late /\ got[5] = "ok" =>
           /\ step >= 6 /\ ~ToSend(6) => Still
           /\ nav = "loaded" => \A u \in Urls \cup {"none"} : Reported(6, u) => u = newUrl
           /\ Answered(7) => timer
  BY <1>3 DEF Clicks
<1>6. /\ history \in Seq(Urls) /\ index \in DOMAIN history /\ newUrl \in Urls
  BY DEF Typed, TypeOK
<1>7. ASSUME ~Late, got[5] = "ok", Answered(6) \/ Answered(7) PROVE Still
  <2>1. step >= 6
    BY <1>1, <1>4, <1>7, NotYet
  <2>2. ~ToSend(6)
    <3>1. CASE Answered(6)
      BY <1>4, <3>1, AnsweredOnce DEF Pending
    <3>2. CASE Answered(7)
      <4>1. ~(7 > step)
        BY <1>4, <3>2, NotYet
      <4> QED
        BY <1>1, <4>1 DEF ToSend
    <3> QED
      BY <1>7, <3>1, <3>2
  <2> QED
    BY <1>5, <1>7, <2>1, <2>2
<1>8. CASE PushState
  <2>1. /\ nav = "old" /\ UNCHANGED <<nav, newUrl, timer>> /\ index' = index + 1
        /\ history' = Append(SubSeq(history, 1, index), "pushed")
    BY <1>8 DEF PushState
  <2>2. history'[index'] = "pushed"
    BY <1>6, <2>1, Lengthened, UrlsAre
  <2> QED
    BY <1>5, <2>1, <2>2 DEF Still
<1>9. CASE Commit
  <2>1. nav = "asked" /\ nav' = "committed" /\ newUrl' = newUrl
    BY <1>9 DEF Commit
  <2>2. history'[index'] = newUrl
    <3>1. \/ newUrl = history[index] /\ UNCHANGED <<history, index>>
          \/ history' = Append(SubSeq(history, 1, index), newUrl) /\ index' = index + 1
      BY <1>3, <1>9 DEF Commit
    <3>2. CASE newUrl = history[index] /\ UNCHANGED <<history, index>>
      BY <3>2
    <3>3. CASE history' = Append(SubSeq(history, 1, index), newUrl) /\ index' = index + 1
      BY <1>6, <3>3, Lengthened
    <3> QED
      BY <3>1, <3>2, <3>3
  <2> QED
    BY <1>5, <1>7, <2>1, <2>2 DEF Still
<1>10. CASE Load
  <2>1. UNCHANGED <<history, index, newUrl, timer>> /\ (nav' = nav \/ (nav = "committed" /\ nav' = "loaded"))
    BY <1>10 DEF Load
  <2>2. CASE nav' = nav
    BY <1>5, <2>1, <2>2 DEF Still
  <2>3. CASE nav = "committed" /\ nav' = "loaded"
    <3>1. ~Late /\ got[5] = "ok" => ~Answered(6)
      BY <1>7, <2>3 DEF Still
    <3>2. ~Late /\ got[5] = "ok" => \A u \in Urls \cup {"none"} : ~Reported(6, u)
      BY <3>1, ReportedIsAnswered
    <3> QED
      BY <1>5, <2>1, <2>3, <3>2 DEF Still
  <2> QED
    BY <2>1, <2>2, <2>3
<1>11. CASE ShutDown
  <2>1. UNCHANGED <<history, index, newUrl, nav, timer>>
    BY <1>11 DEF ShutDown
  <2> QED
    BY <1>5, <2>1 DEF Still
<1> QED
  BY <1>8, <1>9, <1>10, <1>11

-----------------------------------------------------------------------------
(* The invariant holds at first and is kept *)

LEMMA InitInv == Init => Inv
<1> SUFFICES ASSUME Init PROVE Inv
  OBVIOUS
<1>1. Typed
  BY InitTyped
<1>2. /\ program \in Programs /\ Steps = 1 .. Len(Script) /\ Len(Script) \in 6 .. 8 /\ 1 .. 6 \subseteq Steps
      /\ Must \subseteq Steps /\ Away \in Steps /\ (HasLoad => Loading \in Steps)
  BY <1>1, Basics, StepsAre, MustSteps, Scripts
<1>3. /\ step = 1 /\ exit = "running" /\ waiting = 0 /\ closed = FALSE /\ loadSeen = FALSE /\ loadRead = FALSE
      /\ toEngine = << >> /\ toClient = << >> /\ aim = "none" /\ historyRead = None
      /\ nav = "old" /\ timer = TRUE
      /\ \A s \in Steps : got[s] = "none" /\ spoke[s] = 0
  BY DEF Init
<1>4. DOMAIN toEngine = {} /\ DOMAIN toClient = {}
  BY <1>3
<1>5. Ids
  BY <1>3, <1>4 DEF Ids
<1>6. Progress
  BY <1>2, <1>3 DEF Progress
<1>7. RepliesMatch
  BY <1>3 DEF RepliesMatch
<1>8. Page
  BY <1>3, <1>4 DEF Page, Pending, OnItsWay
<1>9. Loads /\ Alive /\ NodeLoads
  BY <1>2, <1>3, <1>4 DEF Loads, Alive, Waited, NodeLoads, Loading
<1>10. ASSUME NEW s \in Steps PROVE ~Answered(s) /\ \A u : ~Reported(s, u)
  BY <1>3, <1>4 DEF Answered, Reported
<1>11. Aimed
  <2>1. SUFFICES ASSUME Between PROVE
          /\ history \in Histories /\ history[index] = "old" /\ ~Known("pushed")
          /\ Target(historyRead) = "none"
    BY <1>3, <1>4 DEF Aimed, Latest
  <2>2. history \in {<<"old", "after">>, <<"before", "old">>, <<"before", "old", "after">>}
    BY <2>1 DEF Init, Between
  <2>3. \E i \in DOMAIN history : history[i] = "old"
    BY <2>2, First
  <2>4. index = CHOOSE i \in DOMAIN history : history[i] = "old"
    BY DEF Init
  <2>5. history[index] = "old"
    BY <2>3, <2>4
  <2>6. ~Known("pushed")
    <3>1. CASE history = <<"old", "after">>
      BY <3>1, UrlsAre, Tuples DEF Known
    <3>2. CASE history = <<"before", "old">>
      BY <3>2, UrlsAre, Tuples DEF Known
    <3>3. CASE history = <<"before", "old", "after">>
      BY <3>3, UrlsAre, Tuples DEF Known
    <3> QED
      BY <2>2, <3>1, <3>2, <3>3
  <2>7. Target(historyRead) = "none"
    BY <1>3 DEF Target, None
  <2> QED
    BY <2>2, <2>5, <2>6, <2>7 DEF Histories
<1>12. Arrives
  BY <1>2, <1>10 DEF Arrives
<1>13. Settled
  <2>1. Between => 7 \in Steps
    BY <1>2, StepsAre
  <2> QED
    BY <1>3, <1>10, <2>1 DEF Settled
<1>14. Clicks
  <2>1. SUFFICES ASSUME Command = "click" PROVE history[index] = "old" /\ 3 \in Steps /\ 5 \in Steps
    BY <1>3, <1>10 DEF Clicks
  <2>2. history = <<"old">>
    BY <2>1 DEF Init
  <2>3. \E i \in DOMAIN history : history[i] = "old"
    BY <2>2, First
  <2>4. index = CHOOSE i \in DOMAIN history : history[i] = "old"
    BY DEF Init
  <2> QED
    BY <1>2, <2>3, <2>4
<1> QED
  BY <1>1, <1>5, <1>6, <1>7, <1>8, <1>9, <1>11, <1>12, <1>13, <1>14 DEF Inv

LEMMA ProgramKeeps ==
  ASSUME Inv, ProgramNext
  PROVE  Inv'
<1>1. PICK k \in Nat : ProgramStep(k)
  BY ProgramSteps DEF Inv
<1>2. Typed' /\ Ids' /\ Progress' /\ RepliesMatch' /\ Page'
  BY <1>1, TypedProgram, IdsProgram, ProgressProgram, MatchProgram, PageProgram DEF Inv
<1>3. Loads' /\ Alive' /\ NodeLoads'
  BY <1>1, LoadsProgram, AliveProgram, NodeLoadsProgram DEF Inv
<1>4. Aimed' /\ Arrives'
  BY <1>1, AimedProgram, ArrivesProgram DEF Inv
<1>5. Settled' /\ Clicks'
  BY <1>1, <1>2, <1>3, SettledProgram, ClicksProgram DEF Inv
<1> QED
  BY <1>2, <1>3, <1>4, <1>5 DEF Inv

LEMMA HandleKeeps ==
  ASSUME Inv, Handle
  PROVE  Inv'
<1>1. PICK c, ok : ok \in BOOLEAN /\ Handling(c, ok)
  BY HandleIs
<1>2. Typed' /\ Ids' /\ Page'
  BY <1>1, TypedHandle, IdsHandle, PageHandle DEF Inv
<1>3. UNCHANGED <<program, step, exit, got, url, spoke, closed, loadSeen, loadRead>>
  BY <1>1, Moves DEF Inv
<1>4. \A s \in Steps : Pending(s)' => Pending(s)
  BY <1>1, HandledOnce DEF Inv
<1>5. Progress' /\ NodeLoads'
  BY <1>3, <1>4, ProgressEngine, NodeLoadsEngine DEF Inv
<1>6. RepliesMatch'
  BY <1>3, Fixed DEF Inv, RepliesMatch
<1>7. Loads' /\ Alive'
  BY <1>1, LoadsHandle, AliveHandle DEF Inv
<1>8. Aimed' /\ Arrives' /\ Settled' /\ Clicks'
  BY <1>1, AimedHandle, ArrivesHandle, SettledHandle, ClicksHandle DEF Inv
<1> QED
  BY <1>2, <1>5, <1>6, <1>7, <1>8 DEF Inv

LEMMA AsideKeeps ==
  ASSUME Inv, PushState \/ Commit \/ Load \/ ShutDown
  PROVE  Inv'
<1>1. Aside
  BY PageSteps
<1>2. Typed' /\ Ids' /\ Page'
  BY <1>1, TypedAside, IdsAside, PageAside DEF Inv
<1>3. /\ UNCHANGED <<program, step, exit, got, url, spoke, closed, loadSeen, loadRead>>
      /\ \A s : Pending(s)' <=> Pending(s)
  BY <1>1, AsideSays DEF Inv
<1>4. Progress' /\ NodeLoads'
  BY <1>3, ProgressEngine, NodeLoadsEngine DEF Inv
<1>5. RepliesMatch'
  BY <1>3, Fixed DEF Inv, RepliesMatch
<1>6. Loads' /\ Alive'
  BY LoadsAside, AliveAside DEF Inv
<1>7. Aimed' /\ Arrives' /\ Settled' /\ Clicks'
  BY AimedAside, ArrivesAside, SettledAside, ClicksAside DEF Inv
<1> QED
  BY <1>2, <1>4, <1>5, <1>6, <1>7 DEF Inv

LEMMA StutterKeeps ==
  ASSUME Inv, UNCHANGED vars
  PROVE  Inv'
<1>1. /\ UNCHANGED <<program, step, exit, lastId, waiting, closed, loadSeen, got, spoke, url, aim, loadRead>>
      /\ UNCHANGED <<toEngine, toClient, nav, newUrl, history, index, historyRead, oldLoading, oldLoaded>>
      /\ UNCHANGED <<timer, up>>
  BY DEF vars, programVars, pageVars
<1>2. /\ Command' = Command /\ Impl' = Impl /\ Late' = Late /\ Script' = Script /\ Steps' = Steps
      /\ Must' = Must /\ Away' = Away /\ Between' = Between /\ HasLoad' = HasLoad /\ Message' = Message
      /\ Injecting' = Injecting
  BY <1>1, Fixed
<1>3. /\ \A s : (Pending(s)' <=> Pending(s)) /\ (Answered(s)' <=> Answered(s)) /\ (ToSend(s)' <=> ToSend(s))
      /\ \A s, u : Reported(s, u)' <=> Reported(s, u)
  BY <1>1 DEF Pending, ToSend, OnItsWay, Answered, Reported
<1>4. Typed'
  BY <1>1, <1>2 DEF Inv, Typed, TypeOK, Known
<1>5. Ids'
  BY <1>1, <1>2, <1>3 DEF Inv, Ids, UnderWay
<1>6. Progress' /\ RepliesMatch'
  BY <1>1, <1>2, <1>3 DEF Inv, Progress, RepliesMatch
<1>7. Page'
  <2>1. PICK s : s = Away
    OBVIOUS
  <2>2. Pending(s)' <=> Pending(s)
    BY <1>3
  <2> QED
    BY <1>1, <1>2, <2>1, <2>2 DEF Inv, Page
<1>8. Loads' /\ NodeLoads'
  BY <1>1, <1>2 DEF Inv, Loads, NodeLoads, Still
<1>9. Alive'
  <2>1. PICK s : s = Injecting
    OBVIOUS
  <2>2. Answered(s)' <=> Answered(s)
    BY <1>3
  <2> QED
    BY <1>1, <1>2, <2>1, <2>2 DEF Inv, Alive, Waited, Still
<1>10. Aimed' /\ Arrives'
  <2>1. /\ Known("pushed")' = Known("pushed") /\ Known(aim)' = Known(aim) /\ Latest' = Latest
        /\ Target(historyRead)' = Target(historyRead)
    BY <1>1, <1>2 DEF Known, Latest, Target
  <2>2. Aimed'
    BY <1>1, <1>2, <1>3, <2>1 DEF Inv, Aimed
  <2>3. Arrives'
    BY <1>1, <1>2, <1>3, <2>1 DEF Inv, Arrives
  <2> QED
    BY <2>2, <2>3
<1>11. Settled' /\ Clicks'
  BY <1>1, <1>2, <1>3 DEF Inv, Settled, InTime, Clicks, Still
<1> QED
  BY <1>4, <1>5, <1>6, <1>7, <1>8, <1>9, <1>10, <1>11 DEF Inv

LEMMA InvStep == Inv /\ [Next]_vars => Inv'
<1> SUFFICES ASSUME Inv, [Next]_vars PROVE Inv'
  OBVIOUS
<1>1. CASE UNCHANGED vars
  BY <1>1, StutterKeeps
<1>2. CASE ProgramNext
  BY <1>2, ProgramKeeps
<1>3. CASE Handle
  BY <1>3, HandleKeeps
<1>4. CASE PushState \/ Commit \/ Load \/ ShutDown
  BY <1>4, AsideKeeps
<1> QED
  BY <1>1, <1>2, <1>3, <1>4 DEF Next, ProgramNext

LEMMA Invariant == Spec => []Inv
<1> QED
  BY InitInv, InvStep, PTL DEF Spec

-----------------------------------------------------------------------------
(* What the commands promise *)

(* The variables keep their types: no step of the script is left, no url is read that was
   not reported. *)
THEOREM TypeCorrect == Spec => []TypeOK
<1>1. Inv => TypeOK
  BY DEF Inv, Typed
<1> QED
  BY <1>1, Invariant, PTL

(* Every reply a step takes is the reply to its own command (IsReply compares the ids), with
   whatever commands given up before it and however late their replies come. *)
THEOREM RepliesMatchCorrect == Spec => []RepliesMatch
<1>1. Inv => RepliesMatch
  BY DEF Inv
<1> QED
  BY <1>1, Invariant, PTL

(* goto, back, forward and reload: once the load event was waited for and the injection
   answered, the page shown has a pending timer and the shell does not end under the
   command. *)
THEOREM KeepsAliveCorrect == Spec => []KeepsAlive
<1>1. ASSUME Inv PROVE KeepsAlive
  <2>1. SUFFICES ASSUME HasLoad, got[Step("load")] = "ok", got[Step("Runtime.evaluate")] = "ok",
                        Impl = "node" => ~oldLoaded
                 PROVE  timer
    BY DEF KeepsAlive
  <2>2. Step("load") = Loading /\ Step("Runtime.evaluate") = Injecting
    BY <1>1, <2>1, Named, Basics DEF Inv
  <2>3. Waited /\ Answered(Injecting)
    BY <2>1, <2>2 DEF Waited, Answered, Loading
  <2> QED
    BY <1>1, <2>1, <2>3 DEF Inv, Alive
<1> QED
  BY <1>1, Invariant, PTL

(* The Node program's goto, whose listener is there before the navigation, does not wait out
   its 8 s for a load event that it has read. *)
THEOREM NodeLoadNotMissedCorrect == Spec => []NodeLoadNotMissed
<1>1. ASSUME Inv PROVE NodeLoadNotMissed
  <2>1. SUFFICES ASSUME Impl = "node", HasLoad, got[Step("load")] = "lost", ~closed
                 PROVE  ~loadRead
    BY DEF NodeLoadNotMissed, LoadNotMissed
  <2>2. Step("load") = Away + 1
    BY <1>1, <2>1, Named, Basics DEF Inv, Loading
  <2> QED
    BY <1>1, <2>1, <2>2 DEF Inv, NodeLoads
<1> QED
  BY <1>1, Invariant, PTL

(* back and forward: the url reported at the end is that of the entry next to the one shown
   when the history was read, whatever the page added to it in between. *)
THEOREM OneEntryAwayCorrect == Spec => []OneEntryAway
<1>1. ASSUME Inv PROVE OneEntryAway
  <2>1. SUFFICES ASSUME Between, exit = "complete", got[7] = "ok", InTime
                 PROVE  \E i \in DOMAIN historyRead.entries :
                          /\ historyRead.entries[i] = url[7]
                          /\ i = historyRead.index + (IF Command = "back" THEN -1 ELSE 1)
    BY DEF OneEntryAway, Between, InTime
  <2>2. 7 \in Steps /\ step \in Nat /\ url \in [Steps -> Urls \cup {"none"}]
    BY <1>1, <2>1, StepsAre, Basics DEF Inv
  <2>3. url[7] = aim
    BY <1>1, <2>1, <2>2 DEF Inv, Settled, Reported
  <2>4. step >= 7
    BY <1>1, <2>1, <2>2 DEF Inv, Progress
  <2>5. aim # "none" /\ aim = Target(historyRead)
    BY <1>1, <2>1, <2>2, <2>4 DEF Inv, Aimed
  <2> DEFINE target == historyRead.index + (IF Command = "back" THEN -1 ELSE 1)
  <2>6. target \in DOMAIN historyRead.entries /\ historyRead.entries[target] = url[7]
    BY <2>3, <2>5 DEF Target
  <2> QED
    BY <2>6
<1> QED
  BY <1>1, Invariant, PTL

(* click: when what it set off shows another url within the 300 ms, the page it leaves
   behind has a pending timer: the url read after the wait is the new one, so the script went
   on to inject. *)
THEOREM ClickReinjectsCorrect == Spec => []ClickReinjects
<1>1. ASSUME Inv PROVE ClickReinjects
  <2>1. SUFFICES ASSUME Command = "click", ~Late, exit = "complete", nav = "loaded", newUrl = "new",
                        \A s \in Steps : got[s] \in {"ok", "none"}
                 PROVE  timer
    BY DEF ClickReinjects
  <2>2. /\ Steps = 1 .. 8 /\ Len(Script) = 8 /\ step \in Steps
        /\ url \in [Steps -> Urls \cup {"none"}]
    BY <1>1, <2>1, StepsAre, ScriptClick, Basics DEF Inv
  <2>3. /\ \A s \in Steps : s < step => got[s] # "none"
        /\ got[step] # "none"
        /\ step = 8 \/ (step = 6 /\ url[6] = url[3])
    BY <1>1, <2>1, <2>2 DEF Inv, Progress
  <2>4. step = 8 \/ step = 6
    BY <2>3
  <2>5. got[3] = "ok" /\ got[5] = "ok" /\ got[6] = "ok" /\ (step = 8 => got[7] = "ok")
    <3>1. /\ 3 \in Steps /\ 3 < step /\ 5 \in Steps /\ 5 < step /\ 6 \in Steps /\ (6 < step \/ 6 = step)
          /\ 7 \in Steps /\ (step = 8 => 7 < step)
      BY <2>2, <2>4
    <3> QED
      BY <2>1, <2>3, <3>1
  <2>6. url[3] \in {"old", "pushed"} /\ url[6] = "new" /\ (Answered(7) => timer)
    <3>1. Reported(3, url[3]) /\ Reported(6, url[6]) /\ url[3] \in Urls \cup {"none"} /\ url[6] \in Urls \cup {"none"}
      BY <2>2, <2>5 DEF Reported
    <3> QED
      BY <1>1, <2>1, <2>5, <3>1 DEF Inv, Clicks
  <2>7. step = 8
    BY <2>3, <2>6
  <2> QED
    BY <2>5, <2>6, <2>7 DEF Answered
<1> QED
  BY <1>1, Invariant, PTL
=============================================================================

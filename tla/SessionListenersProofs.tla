------------------------ MODULE SessionListenersProofs ------------------------
(***************************************************************************)
(* Theorems about SessionListeners for any events, callbacks and numbers   *)
(* of registrations and emissions.                                         *)
(*                                                                         *)
(* That once() fires once and off() is final is proved of careful callers. *)
(* The argument: a callback given to once() has one registration, so that  *)
(* the wrapper remembered for it is the only one there is (Remembered) and *)
(* is what off finds; a wrapper still in a set or in the copy being walked *)
(* has not fired (Pending), and is in that copy once.                      *)
(***************************************************************************)
EXTENDS SessionListeners, SequenceTheorems, TLAPS

Has(seq, x) == \E i \in DOMAIN seq : seq[i] = x

(* The entry is in the set of the event; it is still to be called. *)
Live(e, x) == e \in DOMAIN listeners /\ Has(listeners[e], x)
Due(x)     == Has(remaining, x)
Somewhere(x) == Due(x) \/ \E e \in Events : Live(e, x)

(* The copy that is walked is that of the event, without repetition. *)
Walking ==
  /\ emitting # NoEvent => remaining # << >>
  /\ IsInjective(remaining)

Typed == TypeOK /\ Walking

(* A callback given to once() is given once. *)
OneUse ==
  \A g, h \in given : g[2] = h[2] => g = h \/ (g[3] = "on" /\ h[3] = "on")

Way(x) == IF x.reg = 0 THEN "on" ELSE "once"

Remembered ==
  /\ \A e \in Events, x \in Entry : Live(e, x) =>
       /\ <<e, x.cb, Way(x)>> \in given
       /\ x.reg # 0 => wrapperOf[x.cb] = x.reg
  /\ \A x \in Entry : Due(x) => <<emitting, x.cb, Way(x)>> \in given

Pending ==
  /\ \A x \in Entry : Somewhere(x) /\ x.reg # 0 => x.reg <= regs /\ fired[x.reg] = 0
  /\ \A x, y \in Entry : Somewhere(x) /\ Somewhere(y) /\ x.reg = y.reg /\ x.reg # 0 => x = y
  /\ \A r \in 1 .. MaxRegs : r > regs => fired[r] = 0

Gone == \A e \in Events, x \in Entry : Live(e, x) => <<e, x.cb>> \notin removed

CarefulInv == OneUse /\ Remembered /\ Pending /\ OnceFiresOnce /\ Gone

-----------------------------------------------------------------------------
(* Sets in order *)

(* What is left of a sequence without repetition when one position is taken out. *)
LEMMA RemoveAtEffect ==
  ASSUME NEW S, NEW s \in Seq(S), IsInjective(s), NEW k \in 1 .. Len(s)
  PROVE  /\ RemoveAt(s, k) \in Seq(S) /\ IsInjective(RemoveAt(s, k))
         /\ \A x : Has(RemoveAt(s, k), x) <=> x # s[k] /\ Has(s, x)
<1> DEFINE a == SubSeq(s, 1, k - 1)
           b == SubSeq(s, k + 1, Len(s))
<1>1. Len(s) \in Nat /\ DOMAIN s = 1 .. Len(s) /\ \A i \in 1 .. Len(s) : s[i] \in S
  BY ElementOfSeq, LenProperties
<1>2. a \in Seq(S) /\ Len(a) = k - 1 /\ \A i \in 1 .. k - 1 : a[i] = s[i]
  <2>1. 1 \in Int /\ k - 1 \in Int /\ \A i \in 1 .. k - 1 : s[i] \in S
    BY <1>1
  <2>2. /\ a \in Seq(S) /\ Len(a) = IF 1 <= k - 1 THEN k - 1 - 1 + 1 ELSE 0
        /\ \A i \in 1 .. k - 1 - 1 + 1 : a[i] = s[1 + i - 1]
    BY <2>1, SubSeqProperties
  <2> QED
    BY <1>1, <2>2
<1>3. b \in Seq(S) /\ Len(b) = Len(s) - k /\ \A i \in 1 .. Len(s) - k : b[i] = s[k + i]
  <2>1. k + 1 \in Int /\ Len(s) \in Int /\ \A i \in k + 1 .. Len(s) : s[i] \in S
    BY <1>1
  <2>2. /\ b \in Seq(S) /\ Len(b) = IF k + 1 <= Len(s) THEN Len(s) - (k + 1) + 1 ELSE 0
        /\ \A i \in 1 .. Len(s) - (k + 1) + 1 : b[i] = s[k + 1 + i - 1]
    BY <2>1, SubSeqProperties
  <2>3. Len(s) - (k + 1) + 1 = Len(s) - k /\ \A i \in 1 .. Len(s) - k : k + 1 + i - 1 = k + i
    BY <1>1
  <2> HIDE DEF b
  <2>4. Len(b) = Len(s) - k
    <3>1. k \in Int /\ k <= Len(s) /\ Len(s) \in Int
      BY <1>1
    <3>2. Len(b) = IF k + 1 <= Len(s) THEN Len(s) - (k + 1) + 1 ELSE 0
      BY <2>2
    <3> QED
      BY <3>1, <3>2
  <2>5. \A i \in 1 .. Len(s) - k : b[i] = s[k + i]
    <3> TAKE i \in 1 .. Len(s) - k
    <3>1. i \in 1 .. Len(s) - (k + 1) + 1 /\ k + 1 + i - 1 = k + i
      BY <2>3
    <3>2. b[i] = s[k + 1 + i - 1]
      BY <2>2, <3>1
    <3> QED
      BY <3>1, <3>2
  <2> QED
    BY <2>2, <2>4, <2>5
<1> DEFINE r == RemoveAt(s, k)
           Old(i) == IF i <= k - 1 THEN i ELSE i + 1
<1>4. /\ r \in Seq(S) /\ DOMAIN r = 1 .. Len(s) - 1
      /\ \A i \in 1 .. Len(s) - 1 : r[i] = s[Old(i)]
  <2> HIDE DEF a, b
  <2>1. r = a \o b
    BY DEF RemoveAt, a, b
  <2>2. /\ a \o b \in Seq(S) /\ Len(a \o b) = Len(a) + Len(b)
        /\ \A i \in 1 .. Len(a) + Len(b) : (a \o b)[i] = IF i <= Len(a) THEN a[i] ELSE b[i - Len(a)]
    BY <1>2, <1>3, ConcatProperties
  <2>3. Len(a) + Len(b) = Len(s) - 1
    BY <1>1, <1>2, <1>3
  <2> HIDE DEF r
  <2>4. /\ r \in Seq(S) /\ Len(r) = Len(s) - 1
        /\ \A i \in 1 .. Len(s) - 1 : r[i] = IF i <= k - 1 THEN a[i] ELSE b[i - (k - 1)]
    BY <1>2, <2>1, <2>2, <2>3
  <2>5. \A i \in 1 .. Len(s) - 1 : r[i] = s[Old(i)]
    <3> TAKE i \in 1 .. Len(s) - 1
    <3>1. CASE i <= k - 1
      <4>1. i \in 1 .. k - 1
        BY <1>1, <3>1
      <4> QED
        BY <1>2, <2>4, <3>1, <4>1
    <3>2. CASE ~(i <= k - 1)
      <4>1. i - (k - 1) \in 1 .. Len(s) - k /\ k + (i - (k - 1)) = i + 1
        BY <1>1, <3>2
      <4> QED
        BY <1>3, <2>4, <3>2, <4>1
    <3> QED
      BY <3>1, <3>2
  <2> QED
    BY <2>4, <2>5, LenProperties
<1>5. \A i \in 1 .. Len(s) - 1 : Old(i) \in DOMAIN s /\ Old(i) # k
  BY <1>1
<1>6. \A i, j \in 1 .. Len(s) - 1 : Old(i) = Old(j) => i = j
  BY <1>1
<1>7. IsInjective(r)
  BY <1>4, <1>5, <1>6 DEF IsInjective
<1>8. \A j \in DOMAIN s : j # k => Has(r, s[j])
  <2> SUFFICES ASSUME NEW j \in DOMAIN s, j # k PROVE Has(r, s[j])
    OBVIOUS
  <2> DEFINE i == IF j < k THEN j ELSE j - 1
  <2>1. i \in 1 .. Len(s) - 1 /\ Old(i) = j
    BY <1>1
  <2> QED
    BY <1>4, <2>1 DEF Has
<1>9. \A i \in DOMAIN r : r[i] # s[k] /\ \E j \in DOMAIN s : s[j] = r[i]
  BY <1>1, <1>4, <1>5 DEF IsInjective
<1> HIDE DEF r
<1>10. \A x : Has(r, x) <=> x # s[k] /\ Has(s, x)
  BY <1>8, <1>9 DEF Has
<1> QED
  BY <1>4, <1>7, <1>10 DEF r

LEMMA DeleteEffect ==
  ASSUME NEW S, NEW s \in Seq(S), IsInjective(s), NEW e
  PROVE  /\ Delete(s, e) \in Seq(S) /\ IsInjective(Delete(s, e))
         /\ \A x : Has(Delete(s, e), x) <=> x # e /\ Has(s, x)
<1>1. CASE Has(s, e)
  <2> DEFINE k == CHOOSE i \in DOMAIN s : s[i] = e
  <2>1. k \in 1 .. Len(s) /\ s[k] = e
    BY <1>1, LenProperties DEF Has
  <2>2. Delete(s, e) = RemoveAt(s, k)
    BY <1>1 DEF Delete, Has
  <2> HIDE DEF k
  <2>3. /\ RemoveAt(s, k) \in Seq(S) /\ IsInjective(RemoveAt(s, k))
        /\ \A x : Has(RemoveAt(s, k), x) <=> x # s[k] /\ Has(s, x)
    BY <2>1, RemoveAtEffect
  <2> QED
    BY <2>1, <2>2, <2>3
<1>2. CASE ~Has(s, e)
  BY <1>2 DEF Delete, Has
<1> QED
  BY <1>1, <1>2

LEMMA AppendEffect ==
  ASSUME NEW S, NEW s \in Seq(S), IsInjective(s), NEW e \in S, ~Has(s, e)
  PROVE  /\ Append(s, e) \in Seq(S) /\ IsInjective(Append(s, e))
         /\ \A x : Has(Append(s, e), x) <=> x = e \/ Has(s, x)
<1>1. /\ Append(s, e) \in Seq(S) /\ DOMAIN s = 1 .. Len(s) /\ Len(s) \in Nat
      /\ DOMAIN Append(s, e) = 1 .. Len(s) + 1 /\ Append(s, e)[Len(s) + 1] = e
      /\ \A i \in 1 .. Len(s) : Append(s, e)[i] = s[i]
  BY AppendProperties, LenProperties
<1> DEFINE t == Append(s, e)
<1> HIDE DEF t
<1>2. \A i \in DOMAIN t : (i \in DOMAIN s /\ t[i] = s[i]) \/ (i = Len(s) + 1 /\ t[i] = e)
  BY <1>1 DEF t
<1>3. DOMAIN s \subseteq DOMAIN t /\ Len(s) + 1 \in DOMAIN t /\ Len(s) + 1 \notin DOMAIN s
  BY <1>1 DEF t
<1>4. IsInjective(t)
  BY <1>2, <1>3 DEF IsInjective, Has
<1>5. \A x : Has(t, x) <=> x = e \/ Has(s, x)
  <2>1. e = t[Len(s) + 1]
    BY <1>1 DEF t
  <2>2. \A i \in DOMAIN s : t[i] = s[i]
    BY <1>1 DEF t
  <2> QED
    BY <1>2, <1>3, <2>1, <2>2 DEF Has
<1> QED
  BY <1>1, <1>4, <1>5 DEF t

LEMMA TailEffect ==
  ASSUME NEW S, NEW s \in Seq(S), s # << >>, IsInjective(s)
  PROVE  /\ Head(s) \in S /\ Tail(s) \in Seq(S) /\ IsInjective(Tail(s))
         /\ Tail(s) = << >> <=> Len(s) = 1
         /\ Has(s, Head(s))
         /\ \A x : Has(Tail(s), x) => x # Head(s) /\ Has(s, x)
<1>1. /\ Len(s) \in Nat \ {0} /\ DOMAIN s = 1 .. Len(s) /\ Head(s) = s[1] /\ Head(s) \in S
      /\ Tail(s) \in Seq(S) /\ DOMAIN Tail(s) = 1 .. Len(s) - 1
      /\ \A i \in 1 .. Len(s) - 1 : Tail(s)[i] = s[i + 1]
  <2>1. Len(s) \in Nat \ {0} /\ DOMAIN s = 1 .. Len(s)
    BY LenProperties, EmptySeq
  <2> QED
    BY <2>1, HeadTailProperties, LenProperties, ElementOfSeq
<1> DEFINE t == Tail(s)
<1> HIDE DEF t
<1>2. \A i \in DOMAIN t : i + 1 \in DOMAIN s /\ i + 1 # 1 /\ t[i] = s[i + 1]
  BY <1>1 DEF t
<1>3. IsInjective(t)
  <2> SUFFICES ASSUME NEW i \in DOMAIN t, NEW j \in DOMAIN t, t[i] = t[j] PROVE i = j
    BY DEF IsInjective
  <2>1. i + 1 = j + 1
    BY <1>2 DEF IsInjective
  <2> QED
    BY <1>1, <2>1 DEF t
<1>4. t = << >> <=> Len(s) = 1
  BY <1>1, EmptySeq, LenProperties DEF t
<1>5. \A x : Has(t, x) => x # Head(s) /\ Has(s, x)
  BY <1>1, <1>2 DEF IsInjective, Has
<1> QED
  BY <1>1, <1>3, <1>4, <1>5 DEF t, Has

-----------------------------------------------------------------------------
(* What on, once and off do to the sets *)

SetsTyped ==
  /\ DOMAIN listeners \subseteq Events
  /\ \A e \in DOMAIN listeners : listeners[e] \in Seq(Entry) /\ IsInjective(listeners[e])

LEMMA LiveIsEntry ==
  ASSUME Typed, NEW x
  PROVE  /\ \A e : Live(e, x) => e \in Events /\ x \in Entry
         /\ Due(x) => x \in Entry
BY ElementOfSeq, LenProperties DEF Typed, TypeOK, Live, Due, Has

LEMMA AddEffect ==
  ASSUME SetsTyped, NEW e \in Events, NEW entry \in Entry, Add(e, entry)
  PROVE  /\ SetsTyped'
         /\ \A f, x : Live(f, x)' <=> Live(f, x) \/ (f = e /\ x = entry)
<1> DEFINE set == IF e \in DOMAIN listeners THEN listeners[e] ELSE << >>
           new == IF Has(set, entry) THEN set ELSE Append(set, entry)
<1>1. set \in Seq(Entry) /\ IsInjective(set)
  <2>1. << >> \in Seq(Entry) /\ IsInjective(<< >>)
    BY EmptySeq DEF IsInjective
  <2> QED
    BY <2>1 DEF SetsTyped
<1>2. listeners' = [f \in DOMAIN listeners \cup {e} |-> IF f = e THEN new ELSE listeners[f]]
  BY DEF Add, Has
<1>3. \A x : Live(e, x) <=> Has(set, x)
  BY DEF Live, Has
<1> HIDE DEF set
<1>4. /\ new \in Seq(Entry) /\ IsInjective(new)
      /\ \A x : Has(new, x) <=> x = entry \/ Has(set, x)
  <2>1. CASE Has(set, entry)
    BY <1>1, <2>1
  <2>2. CASE ~Has(set, entry)
    <3>1. new = Append(set, entry)
      BY <2>2
    <3>2. /\ Append(set, entry) \in Seq(Entry) /\ IsInjective(Append(set, entry))
          /\ \A x : Has(Append(set, entry), x) <=> x = entry \/ Has(set, x)
      BY <1>1, <2>2, AppendEffect
    <3> QED
      BY <3>1, <3>2
  <2> QED
    BY <2>1, <2>2
<1> HIDE DEF new
<1>5. /\ DOMAIN listeners' = DOMAIN listeners \cup {e} /\ listeners'[e] = new
      /\ \A f \in DOMAIN listeners : f # e => listeners'[f] = listeners[f]
  BY <1>2
<1>6. SetsTyped'
  BY <1>4, <1>5 DEF SetsTyped
<1>7. \A x : Live(e, x)' <=> x = entry \/ Live(e, x)
  BY <1>3, <1>4, <1>5 DEF Live
<1>8. \A f, x : f # e => (Live(f, x)' <=> Live(f, x))
  BY <1>5 DEF Live
<1> QED
  BY <1>6, <1>7, <1>8

LEMMA DropEffect ==
  ASSUME SetsTyped, wrapperOf \in [Callbacks -> 0 .. MaxRegs], NEW e \in Events, NEW cb \in Callbacks,
         Drop(e, cb)
  PROVE  /\ SetsTyped'
         /\ wrapperOf' \in [Callbacks -> 0 .. MaxRegs]
         /\ \A d \in Callbacks : wrapperOf'[d] = wrapperOf[d] \/ d = cb
         /\ wrapperOf'[cb] \in {0, wrapperOf[cb]}
         /\ \A f, x : Live(f, x)' <=>
              /\ Live(f, x)
              /\ ~(f = e /\ x \in {[cb |-> cb, reg |-> 0], [cb |-> cb, reg |-> wrapperOf[cb]]})
<1>1. CASE e \notin DOMAIN listeners
  BY <1>1 DEF Drop, Live, SetsTyped
<1>2. CASE e \in DOMAIN listeners
  <2> DEFINE plain == [cb |-> cb, reg |-> 0]
             wrapper == [cb |-> cb, reg |-> wrapperOf[cb]]
             old == listeners[e]
             mid == Delete(old, plain)
             new == Delete(mid, wrapper)
  <2>1. listeners' = [listeners EXCEPT ![e] = new] /\ wrapperOf' = [wrapperOf EXCEPT ![cb] = 0]
    BY <1>2 DEF Drop
  <2>2. old \in Seq(Entry) /\ IsInjective(old)
    BY <1>2 DEF SetsTyped
  <2>3. \A x : Live(e, x) <=> Has(old, x)
    BY <1>2 DEF Live
  <2> HIDE DEF plain, wrapper, old
  <2>4. /\ mid \in Seq(Entry) /\ IsInjective(mid)
        /\ \A x : Has(mid, x) <=> x # plain /\ Has(old, x)
    BY <2>2, DeleteEffect
  <2> HIDE DEF mid
  <2>5. /\ new \in Seq(Entry) /\ IsInjective(new)
        /\ \A x : Has(new, x) <=> x # wrapper /\ Has(mid, x)
    BY <2>4, DeleteEffect
  <2> HIDE DEF new
  <2>6. /\ DOMAIN listeners' = DOMAIN listeners /\ listeners'[e] = new
        /\ \A f \in DOMAIN listeners : f # e => listeners'[f] = listeners[f]
    BY <1>2, <2>1
  <2>7. SetsTyped'
    BY <2>5, <2>6 DEF SetsTyped
  <2>8. \A x : Live(e, x)' <=> Live(e, x) /\ x # plain /\ x # wrapper
    BY <1>2, <2>3, <2>4, <2>5, <2>6 DEF Live
  <2>9. \A f, x : f # e => (Live(f, x)' <=> Live(f, x))
    BY <2>6 DEF Live
  <2>10. /\ wrapperOf' \in [Callbacks -> 0 .. MaxRegs] /\ wrapperOf'[cb] = 0
         /\ \A d \in Callbacks : wrapperOf'[d] = wrapperOf[d] \/ d = cb
    BY <2>1, ListenersAssumption
  <2> QED
    BY <2>7, <2>8, <2>9, <2>10 DEF plain, wrapper
<1> QED
  BY <1>1, <1>2

-----------------------------------------------------------------------------
(* Type correctness *)

LEMMA TypedParts ==
  Typed <=>
    /\ SetsTyped /\ Walking
    /\ wrapperOf \in [Callbacks -> 0 .. MaxRegs] /\ regs \in 0 .. MaxRegs
    /\ emitting \in Events \cup {NoEvent} /\ remaining \in Seq(Entry) /\ emits \in 0 .. MaxEmits
    /\ fired \in [1 .. MaxRegs -> Nat]
    /\ given \subseteq Events \X Callbacks \X {"on", "once"} /\ removed \subseteq Events \X Callbacks
BY DEF Typed, TypeOK, SetsTyped

LEMMA OnTyped ==
  ASSUME Typed, NEW e \in Events, NEW cb \in Callbacks, On(e, cb)
  PROVE  Typed'
<1>1. [cb |-> cb, reg |-> 0] \in Entry
  BY ListenersAssumption DEF Entry
<1>2. SetsTyped'
  BY <1>1, TypedParts, AddEffect DEF On
<1>3. <<e, cb, "on">> \in Events \X Callbacks \X {"on", "once"}
  OBVIOUS
<1>4. UNCHANGED <<wrapperOf, regs, emitting, remaining, emits, fired>>
  BY DEF On
<1>5. Walking'
  BY <1>4 DEF Walking, Typed, IsInjective
<1>6. given' \subseteq Events \X Callbacks \X {"on", "once"} /\ removed' \subseteq Events \X Callbacks
  BY <1>3, TypedParts DEF On
<1> QED
  BY <1>2, <1>4, <1>5, <1>6 DEF Typed, TypeOK, SetsTyped

LEMMA OnceTyped ==
  ASSUME Typed, NEW e \in Events, NEW cb \in Callbacks, Once(e, cb)
  PROVE  Typed'
<1>0. regs' = regs + 1 /\ regs < MaxRegs /\ regs \in 0 .. MaxRegs /\ MaxRegs \in Nat
  BY ListenersAssumption, TypedParts DEF Once
<1>1. regs' \in 1 .. MaxRegs /\ [cb |-> cb, reg |-> regs'] \in Entry
  <2>1. regs' \in 1 .. MaxRegs
    BY <1>0
  <2> QED
    BY <1>0, <2>1 DEF Entry
<1>2. SetsTyped'
  BY <1>1, TypedParts, AddEffect DEF Once
<1>3. <<e, cb, "once">> \in Events \X Callbacks \X {"on", "once"}
  OBVIOUS
<1>4. UNCHANGED <<emitting, remaining, emits, fired>>
  BY DEF Once
<1>5. Walking'
  BY <1>4 DEF Walking, Typed, IsInjective
<1>6. given' \subseteq Events \X Callbacks \X {"on", "once"} /\ removed' \subseteq Events \X Callbacks
  BY <1>3, TypedParts DEF Once
<1>7. wrapperOf' \in [Callbacks -> 0 .. MaxRegs]
  BY <1>1, TypedParts DEF Once
<1> QED
  BY <1>1, <1>2, <1>4, <1>5, <1>6, <1>7 DEF Typed, TypeOK, SetsTyped

LEMMA OffTyped ==
  ASSUME Typed, NEW e \in Events, NEW cb \in Callbacks, Off(e, cb)
  PROVE  Typed'
<1>1. SetsTyped' /\ wrapperOf' \in [Callbacks -> 0 .. MaxRegs]
  BY TypedParts, DropEffect DEF Off
<1>2. UNCHANGED <<regs, emitting, remaining, emits, fired, given>>
  BY DEF Off
<1>3. Walking'
  BY <1>2 DEF Walking, Typed, IsInjective
<1>4. removed' \subseteq Events \X Callbacks
  BY TypedParts DEF Off
<1> QED
  BY <1>1, <1>2, <1>3, <1>4 DEF Typed, TypeOK, SetsTyped

LEMMA EmitTyped ==
  ASSUME Typed, NEW e \in Events, Emit(e)
  PROVE  Typed'
<1>1. /\ UNCHANGED <<listeners, wrapperOf, regs, fired, given, removed>> /\ e \in DOMAIN listeners
      /\ emitting' = e /\ remaining' = listeners[e] /\ remaining' # << >> /\ emits' = emits + 1
      /\ emits < MaxEmits
  BY DEF Emit
<1>2. Walking'
  BY <1>1, TypedParts DEF Walking, SetsTyped
<1>3. emits' \in 0 .. MaxEmits
  BY <1>1, ListenersAssumption, TypedParts
<1>4. SetsTyped'
  BY <1>1, TypedParts DEF SetsTyped
<1> QED
  BY <1>1, <1>2, <1>3, <1>4 DEF Typed, TypeOK, SetsTyped

LEMMA CallTyped ==
  ASSUME Typed, Call
  PROVE  Typed'
<1>1. /\ emitting \in Events /\ remaining # << >> /\ IsInjective(remaining) /\ remaining \in Seq(Entry)
      /\ UNCHANGED <<regs, emits, given, removed>> /\ remaining' = Tail(remaining)
      /\ emitting' = IF Len(remaining) = 1 THEN NoEvent ELSE emitting
  BY DEF Typed, TypeOK, Walking, Call
<1>2. Head(remaining) \in Entry /\ remaining' \in Seq(Entry) /\ IsInjective(remaining')
      /\ (remaining' = << >> <=> Len(remaining) = 1)
  BY <1>1, TailEffect
<1>3. Walking' /\ emitting' \in Events \cup {NoEvent}
  BY <1>1, <1>2 DEF Walking
<1>4. SetsTyped' /\ wrapperOf' \in [Callbacks -> 0 .. MaxRegs] /\ fired' \in [1 .. MaxRegs -> Nat]
  <2>1. CASE Head(remaining).reg = 0
    BY <2>1, TypedParts DEF Call, SetsTyped
  <2>2. CASE Head(remaining).reg # 0
    <3>1. Head(remaining).cb \in Callbacks /\ Head(remaining).reg \in 1 .. MaxRegs
      BY <1>2, <2>2 DEF Entry
    <3>2. /\ Drop(emitting, Head(remaining).cb)
          /\ fired' = [fired EXCEPT ![Head(remaining).reg] = @ + 1]
      BY <2>2 DEF Call
    <3>3. SetsTyped' /\ wrapperOf' \in [Callbacks -> 0 .. MaxRegs]
      BY <1>1, <3>1, <3>2, TypedParts, DropEffect
    <3> QED
      BY <3>1, <3>2, <3>3, TypedParts
  <2> QED
    BY <2>1, <2>2
<1> QED
  BY <1>1, <1>2, <1>3, <1>4 DEF Typed, TypeOK, SetsTyped

LEMMA InitTyped == Init => Typed
<1> SUFFICES ASSUME Init PROVE Typed
  OBVIOUS
<1>1. << >> \in Seq(Entry) /\ IsInjective(<< >>) /\ DOMAIN << >> = {}
  BY EmptySeq DEF IsInjective
<1>2. Walking
  BY <1>1 DEF Init, Walking
<1>3. TypeOK
  BY <1>1, ListenersAssumption DEF Init, TypeOK
<1> QED
  BY <1>2, <1>3 DEF Typed

LEMMA NextTyped == Typed /\ [Next]_vars => Typed'
<1> SUFFICES ASSUME Typed, [Next]_vars PROVE Typed'
  OBVIOUS
<1>1. CASE UNCHANGED vars
  BY <1>1 DEF vars, Typed, TypeOK, Walking, IsInjective
<1> QED
  BY <1>1, OnTyped, OnceTyped, OffTyped, EmitTyped, CallTyped DEF Next

(* Every variable has its type, whatever a caller registers and takes off: no set ever holds
   a listener twice, and neither does the copy an emission walks. *)
THEOREM TypeCorrect == Spec => []TypeOK
<1>1. Typed => TypeOK
  BY DEF Typed
<1> QED
  BY <1>1, InitTyped, NextTyped, PTL DEF Spec

-----------------------------------------------------------------------------
(* Careful callers *)

LEMMA EntryParts ==
  ASSUME NEW x \in Entry
  PROVE  x.cb \in Callbacks /\ x.reg \in 0 .. MaxRegs /\ x = [cb |-> x.cb, reg |-> x.reg]
BY DEF Entry

LEMMA OnCareful ==
  ASSUME Careful, Typed, CarefulInv, NEW e \in Events, NEW cb \in Callbacks, On(e, cb)
  PROVE  CarefulInv'
<1> DEFINE new == [cb |-> cb, reg |-> 0]
<1>1. new \in Entry /\ new.reg = 0 /\ new.cb = cb
  BY ListenersAssumption DEF Entry
<1>2. \A f, x : Live(f, x)' <=> Live(f, x) \/ (f = e /\ x = new)
  BY <1>1, TypedParts, AddEffect DEF On
<1> HIDE DEF new
<1>3. /\ UNCHANGED <<wrapperOf, regs, emitting, remaining, fired>> /\ MayGive(cb)
      /\ given' = given \cup {<<e, cb, "on">>} /\ removed' = removed \ {<<e, cb>>}
  BY DEF On
<1>4. (\A x : Due(x)' <=> Due(x)) /\ \A x : Way(x)' = Way(x)
  BY <1>3 DEF Due, Has, Way
<1>5. OneUse'
  BY <1>3 DEF CarefulInv, OneUse, MayGive
<1>6. Remembered'
  <2>1. Way(new) = "on"
    BY <1>1 DEF Way
  <2> QED
    BY <1>1, <1>2, <1>3, <1>4, <2>1 DEF CarefulInv, Remembered
<1>7. Pending'
  <2>1. \A x : Somewhere(x)' => Somewhere(x) \/ x = new
    BY <1>2, <1>4 DEF Somewhere
  <2> QED
    BY <1>1, <1>3, <2>1 DEF CarefulInv, Pending
<1>8. OnceFiresOnce'
  BY <1>3 DEF CarefulInv, OnceFiresOnce
<1>9. Gone'
  BY <1>1, <1>2, <1>3 DEF CarefulInv, Gone
<1> QED
  BY <1>5, <1>6, <1>7, <1>8, <1>9 DEF CarefulInv

LEMMA OnceCareful ==
  ASSUME Careful, Typed, CarefulInv, NEW e \in Events, NEW cb \in Callbacks, Once(e, cb)
  PROVE  CarefulInv'
<1> DEFINE new == [cb |-> cb, reg |-> regs']
<1>1. /\ regs' = regs + 1 /\ regs \in 0 .. MaxRegs /\ regs' \in 1 .. MaxRegs
      /\ wrapperOf \in [Callbacks -> 0 .. MaxRegs] /\ MaxRegs \in Nat
  <2>1. regs' = regs + 1 /\ regs < MaxRegs /\ regs \in 0 .. MaxRegs /\ MaxRegs \in Nat
    BY ListenersAssumption, TypedParts DEF Once
  <2>2. wrapperOf \in [Callbacks -> 0 .. MaxRegs]
    BY TypedParts
  <2> QED
    BY <2>1, <2>2
<1>2. new \in Entry /\ new.reg = regs' /\ new.cb = cb
  BY <1>1 DEF Entry
<1>3. \A f, x : Live(f, x)' <=> Live(f, x) \/ (f = e /\ x = new)
  BY <1>2, TypedParts, AddEffect DEF Once
<1> HIDE DEF new
<1>4. /\ UNCHANGED <<emitting, remaining, fired>> /\ Fresh(cb)
      /\ wrapperOf' = [wrapperOf EXCEPT ![cb] = regs']
      /\ given' = given \cup {<<e, cb, "once">>} /\ removed' = removed \ {<<e, cb>>}
  BY DEF Once
<1>5. (\A x : Due(x)' <=> Due(x)) /\ \A x : Way(x)' = Way(x)
  BY <1>4 DEF Due, Has, Way
<1>6. OneUse'
  BY <1>4 DEF CarefulInv, OneUse, Fresh
<1>7. \A f \in Events, x \in Entry : Live(f, x) => x.cb # cb
  BY <1>4 DEF CarefulInv, Remembered, Fresh
<1>8. Remembered'
  <2>1. Way(new) = "once" /\ wrapperOf'[cb] = new.reg
    BY <1>1, <1>2, <1>4 DEF Way
  <2>2. \A d \in Callbacks : d # cb => wrapperOf'[d] = wrapperOf[d]
    BY <1>1, <1>4
  <2>3. ASSUME NEW f \in Events, NEW x \in Entry, Live(f, x)'
        PROVE  <<f, x.cb, Way(x)>> \in given' /\ (x.reg # 0 => wrapperOf'[x.cb] = x.reg)
    <3>1. CASE f = e /\ x = new
      BY <1>2, <1>4, <2>1, <3>1
    <3>2. CASE Live(f, x)
      BY <1>4, <1>7, <2>2, <3>2, EntryParts DEF CarefulInv, Remembered
    <3> QED
      BY <1>3, <2>3, <3>1, <3>2
  <2>4. ASSUME NEW x \in Entry, Due(x) PROVE <<emitting', x.cb, Way(x)>> \in given'
    BY <1>4, <2>4 DEF CarefulInv, Remembered
  <2> QED
    BY <1>5, <2>3, <2>4 DEF Remembered
<1>9. Pending'
  <2>1. \A x : Somewhere(x)' => Somewhere(x) \/ x = new
    BY <1>3, <1>5 DEF Somewhere
  <2>2. \A x \in Entry : Somewhere(x) /\ x.reg # 0 => x.reg <= regs /\ x.reg # regs' /\ fired'[x.reg] = 0
    BY <1>1, <1>4, EntryParts DEF CarefulInv, Pending
  <2>3. fired'[regs'] = 0 /\ \A r \in 1 .. MaxRegs : r > regs' => fired'[r] = 0
    BY <1>1, <1>4 DEF CarefulInv, Pending
  <2>4. ASSUME NEW x \in Entry, Somewhere(x)', x.reg # 0 PROVE x.reg <= regs' /\ fired'[x.reg] = 0
    <3>1. CASE x = new
      BY <1>1, <1>2, <2>3, <3>1
    <3>2. CASE Somewhere(x)
      BY <1>1, <2>2, <2>4, <3>2, EntryParts
    <3> QED
      BY <2>1, <2>4, <3>1, <3>2
  <2>5. \A x, y \in Entry : Somewhere(x)' /\ Somewhere(y)' /\ x.reg = y.reg /\ x.reg # 0 => x = y
    BY <1>2, <2>1, <2>2 DEF CarefulInv, Pending
  <2> QED
    BY <2>3, <2>4, <2>5 DEF Pending
<1>10. OnceFiresOnce'
  BY <1>4 DEF CarefulInv, OnceFiresOnce
<1>11. Gone'
  BY <1>2, <1>3, <1>4 DEF CarefulInv, Gone
<1> QED
  BY <1>6, <1>8, <1>9, <1>10, <1>11 DEF CarefulInv

(* A callback dropped from its one event is nowhere any more, and what is left remembers its
   wrappers. *)
LEMMA DropCareful ==
  ASSUME Typed, OneUse, Remembered, NEW e \in Events, NEW cb \in Callbacks, MayOff(e, cb), Drop(e, cb)
  PROVE  /\ \A f \in Events, x \in Entry : Live(f, x)' =>
              /\ Live(f, x) /\ ~(f = e /\ x.cb = cb)
              /\ x.reg # 0 => x.cb # cb /\ wrapperOf'[x.cb] = x.reg
<1>1. /\ \A d \in Callbacks : wrapperOf'[d] = wrapperOf[d] \/ d = cb
      /\ \A f, x : Live(f, x)' =>
           /\ Live(f, x)
           /\ ~(f = e /\ x \in {[cb |-> cb, reg |-> 0], [cb |-> cb, reg |-> wrapperOf[cb]]})
  BY TypedParts, DropEffect
<1> SUFFICES ASSUME NEW f \in Events, NEW x \in Entry, Live(f, x)'
             PROVE  /\ Live(f, x) /\ ~(f = e /\ x.cb = cb)
                    /\ x.reg # 0 => x.cb # cb /\ wrapperOf'[x.cb] = x.reg
  OBVIOUS
<1>2. /\ Live(f, x) /\ <<f, x.cb, Way(x)>> \in given /\ (x.reg # 0 => wrapperOf[x.cb] = x.reg)
      /\ x.cb \in Callbacks /\ x = [cb |-> x.cb, reg |-> x.reg]
  BY <1>1, EntryParts DEF Remembered
<1>3. ~(f = e /\ x.cb = cb)
  BY <1>1, <1>2
<1>4. ASSUME x.reg # 0, x.cb = cb PROVE FALSE
  <2>1. <<f, cb, "once">> \in given
    BY <1>2, <1>4 DEF Way
  <2>2. f = e
    BY <2>1 DEF MayOff
  <2> QED
    BY <1>3, <1>4, <2>2
<1> QED
  BY <1>1, <1>2, <1>3, <1>4

LEMMA OffCareful ==
  ASSUME Careful, Typed, CarefulInv, NEW e \in Events, NEW cb \in Callbacks, Off(e, cb)
  PROVE  CarefulInv'
<1>1. /\ MayOff(e, cb) /\ Drop(e, cb) /\ removed' = removed \cup {<<e, cb>>}
      /\ UNCHANGED <<regs, emitting, remaining, emits, fired, given>>
  BY DEF Off
<1>2. \A f \in Events, x \in Entry : Live(f, x)' =>
        /\ Live(f, x) /\ ~(f = e /\ x.cb = cb)
        /\ x.reg # 0 => wrapperOf'[x.cb] = x.reg
  BY <1>1, DropCareful DEF CarefulInv
<1>3. (\A x : Due(x)' <=> Due(x)) /\ \A x : Way(x)' = Way(x)
  BY <1>1 DEF Due, Has, Way
<1>4. OneUse' /\ OnceFiresOnce'
  BY <1>1 DEF CarefulInv, OneUse, OnceFiresOnce
<1>5. Remembered'
  BY <1>1, <1>2, <1>3 DEF CarefulInv, Remembered
<1>6. Pending'
  <2>1. \A x \in Entry : Somewhere(x)' => Somewhere(x)
    BY <1>2, <1>3 DEF Somewhere
  <2> QED
    BY <1>1, <2>1 DEF CarefulInv, Pending
<1>7. Gone'
  BY <1>1, <1>2 DEF CarefulInv, Gone
<1> QED
  BY <1>4, <1>5, <1>6, <1>7 DEF CarefulInv

LEMMA EmitCareful ==
  ASSUME Typed, CarefulInv, NEW e \in Events, Emit(e)
  PROVE  CarefulInv'
<1>1. /\ UNCHANGED <<listeners, wrapperOf, regs, fired, given, removed>> /\ e \in DOMAIN listeners
      /\ emitting' = e /\ remaining' = listeners[e]
  BY DEF Emit
<1>2. /\ \A x : Due(x)' => Live(e, x)
      /\ \A f, x : Live(f, x)' <=> Live(f, x)
      /\ \A x : Way(x)' = Way(x)
  BY <1>1 DEF Due, Live, Has, Way
<1>3. OneUse' /\ OnceFiresOnce' /\ Gone'
  BY <1>1, <1>2 DEF CarefulInv, OneUse, OnceFiresOnce, Gone
<1>4. Remembered'
  BY <1>1, <1>2 DEF CarefulInv, Remembered
<1>5. Pending'
  <2>1. \A x : Somewhere(x)' => Somewhere(x)
    BY <1>2 DEF Somewhere
  <2> QED
    BY <1>1, <2>1 DEF CarefulInv, Pending
<1> QED
  BY <1>3, <1>4, <1>5 DEF CarefulInv

(* The wrapper that runs is taken off first, and is in the copy once: it is nowhere then. *)
LEMMA CallCareful ==
  ASSUME Typed, CarefulInv, Call
  PROVE  CarefulInv'
<1> DEFINE entry == Head(remaining)
<1>1. /\ emitting \in Events /\ remaining # << >> /\ IsInjective(remaining) /\ remaining \in Seq(Entry)
      /\ UNCHANGED <<regs, emits, given, removed>> /\ remaining' = Tail(remaining)
      /\ emitting' = IF Len(remaining) = 1 THEN NoEvent ELSE emitting
  BY DEF Typed, TypeOK, Walking, Call
<1>2. /\ entry \in Entry /\ Due(entry) /\ (remaining' = << >> <=> Len(remaining) = 1)
      /\ \A x : Due(x)' => x # entry /\ Due(x)
  BY <1>1, TailEffect DEF Due
<1>3. (\A x : Due(x)' => emitting' = emitting) /\ \A x : Way(x)' = Way(x)
  BY <1>1, <1>2 DEF Due, Has, Way
<1>4. OneUse'
  BY <1>1 DEF CarefulInv, OneUse
<1>5. CASE entry.reg = 0
  <2>1. UNCHANGED <<listeners, wrapperOf, fired>>
    BY <1>5 DEF Call
  <2>2. \A f, x : Live(f, x)' <=> Live(f, x)
    BY <2>1 DEF Live, Has
  <2>3. Remembered'
    BY <1>1, <1>2, <1>3, <2>1, <2>2 DEF CarefulInv, Remembered
  <2>4. Pending'
    <3>1. \A x : Somewhere(x)' => Somewhere(x)
      BY <1>2, <2>2 DEF Somewhere
    <3> QED
      BY <1>1, <2>1, <3>1 DEF CarefulInv, Pending
  <2>5. OnceFiresOnce' /\ Gone'
    BY <1>1, <2>1, <2>2 DEF CarefulInv, OnceFiresOnce, Gone
  <2> QED
    BY <1>4, <2>3, <2>4, <2>5 DEF CarefulInv
<1>6. CASE entry.reg # 0
  <2>1. Drop(emitting, entry.cb) /\ fired' = [fired EXCEPT ![entry.reg] = @ + 1]
    BY <1>6 DEF Call
  <2>2. entry.cb \in Callbacks /\ entry.reg \in 1 .. MaxRegs /\ fired \in [1 .. MaxRegs -> Nat]
    BY <1>2, <1>6, EntryParts, TypedParts
  <2>3. <<emitting, entry.cb, "once">> \in given
    BY <1>2, <1>6 DEF CarefulInv, Remembered, Way
  <2>4. MayOff(emitting, entry.cb)
    BY <2>3 DEF CarefulInv, OneUse, MayOff
  <2>5. \A f \in Events, x \in Entry : Live(f, x)' =>
          /\ Live(f, x)
          /\ x.reg # 0 => x.cb # entry.cb /\ wrapperOf'[x.cb] = x.reg
    BY <1>1, <2>1, <2>2, <2>4, DropCareful DEF CarefulInv
  <2>6. Remembered'
    BY <1>1, <1>2, <1>3, <2>5 DEF CarefulInv, Remembered
  <2>7. fired[entry.reg] = 0 /\ Somewhere(entry)
    BY <1>2, <1>6 DEF CarefulInv, Pending, Somewhere
  <2>8. \A x \in Entry : Somewhere(x)' => Somewhere(x) /\ (x.reg = entry.reg => FALSE)
    <3>1. \A x \in Entry : Somewhere(x)' => Somewhere(x)
      BY <1>2, <2>5 DEF Somewhere
    <3>2. \A x \in Entry : x = entry => ~Somewhere(x)'
      BY <1>2, <1>6, <2>5 DEF Somewhere
    <3> QED
      BY <1>2, <1>6, <2>7, <3>1, <3>2 DEF CarefulInv, Pending
  <2>9. \A r \in 1 .. MaxRegs : fired'[r] = IF r = entry.reg THEN 1 ELSE fired[r]
    BY <2>1, <2>2, <2>7
  <2>10. Pending'
    <3>1. \A x \in Entry : Somewhere(x)' /\ x.reg # 0 => x.reg <= regs' /\ fired'[x.reg] = 0
      BY <1>1, <2>8, <2>9, EntryParts DEF CarefulInv, Pending
    <3>2. \A x, y \in Entry : Somewhere(x)' /\ Somewhere(y)' /\ x.reg = y.reg /\ x.reg # 0 => x = y
      BY <2>8 DEF CarefulInv, Pending
    <3>3. entry.reg <= regs /\ regs \in 0 .. MaxRegs
      BY <1>2, <1>6, <2>7, TypedParts DEF CarefulInv, Pending
    <3>4. \A r \in 1 .. MaxRegs : r > regs' => fired'[r] = 0
      BY <1>1, <2>2, <2>9, <3>3 DEF CarefulInv, Pending
    <3> QED
      BY <3>1, <3>2, <3>4 DEF Pending
  <2>11. OnceFiresOnce' /\ Gone'
    BY <1>1, <2>2, <2>5, <2>9 DEF CarefulInv, OnceFiresOnce, Gone
  <2> QED
    BY <1>4, <2>6, <2>10, <2>11 DEF CarefulInv
<1> QED
  BY <1>5, <1>6

LEMMA InitCareful == Init => CarefulInv
<1> SUFFICES ASSUME Init PROVE CarefulInv
  OBVIOUS
<1>1. (\A x : ~Due(x)) /\ \A e, x : ~Live(e, x)
  BY EmptySeq DEF Init, Due, Live, Has
<1>2. given = {} /\ removed = {} /\ \A r \in 1 .. MaxRegs : fired[r] = 0
  BY DEF Init
<1> QED
  BY <1>1, <1>2 DEF CarefulInv, OneUse, Remembered, Pending, Somewhere, OnceFiresOnce, Gone

LEMMA NextCareful ==
  ASSUME Careful
  PROVE  Typed /\ CarefulInv /\ [Next]_vars => Typed' /\ CarefulInv'
<1> SUFFICES ASSUME Typed, CarefulInv, [Next]_vars PROVE CarefulInv'
  BY NextTyped
<1>1. CASE UNCHANGED vars
  BY <1>1 DEF vars, CarefulInv, OneUse, Remembered, Pending, Somewhere, OnceFiresOnce, Gone, Live, Due, Has,
     Way
<1> QED
  BY <1>1, OnCareful, OnceCareful, OffCareful, EmitCareful, CallCareful DEF Next

LEMMA CarefulCorrect ==
  ASSUME Careful
  PROVE  Spec => [](Typed /\ CarefulInv)
BY InitTyped, InitCareful, NextCareful, PTL DEF Spec

(* The listener of a once() call of a careful caller runs at most once, whatever the callbacks
   called before it in the same emission register and take off. *)
THEOREM OnceFiresOnceCorrect ==
  ASSUME Careful
  PROVE  Spec => []OnceFiresOnce
<1>1. CarefulInv => OnceFiresOnce
  BY DEF CarefulInv
<1> QED
  BY <1>1, CarefulCorrect, PTL

(* A callback a careful caller takes off is in the event's set no more, neither as itself nor
   wrapped by once(), until it is registered again. *)
THEOREM RemovedStaysRemovedCorrect ==
  ASSUME Careful
  PROVE  Spec => []RemovedStaysRemoved
<1>1. Typed /\ CarefulInv => RemovedStaysRemoved
  <2> SUFFICES ASSUME Typed, Gone, NEW e \in DOMAIN listeners, NEW i \in DOMAIN listeners[e]
               PROVE  <<e, listeners[e][i].cb>> \notin removed
    BY DEF CarefulInv, RemovedStaysRemoved
  <2>1. Live(e, listeners[e][i])
    BY DEF Live, Has
  <2> QED
    BY <2>1, LiveIsEntry DEF Gone
<1> QED
  BY <1>1, CarefulCorrect, PTL
=============================================================================

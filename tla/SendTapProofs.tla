----------------------------- MODULE SendTapProofs -----------------------------
(***************************************************************************)
(* Proofs about SendTap, for any number of taps and calls, and sinks that  *)
(* do anything: the taps cannot be noticed, they report the buffered       *)
(* amount of before the send, and each reports each call once and truly.   *)
(***************************************************************************)
EXTENDS SendTap, SequenceTheorems, TLAPS

(* A frame agrees with the call it is part of: the call is still open, and *)
(* a wrapper that is past its own call of send() holds what came of it.    *)
(* The object's own method emits nothing.                                  *)
Agrees(f) ==
    /\ f.fn = Own => f.at = "calling"
    /\ f.call = 0 => f.at = "emitting"
    /\ f.call # 0 =>
          /\ f.call \in 1 .. Len(calls)
          /\ calls[f.call].seen = Unknown
          /\ f.amount = calls[f.call].amount
          /\ f.at # "calling" => f.outcome = calls[f.call].native /\ f.outcome # Unknown

FramesAgree == \A i \in 1 .. Len(stack) : Agrees(stack[i])

(* Later calls lie on top of earlier ones, on a frame whose sink runs.     *)
CallsNest ==
    /\ \A i, j \in 1 .. Len(stack) : i <= j => stack[i].call <= stack[j].call
    /\ \A i \in 1 .. Len(stack) - 1 :
          IF stack[i].call = stack[i + 1].call
            THEN stack[i].fn # Own
            ELSE stack[i].at = "emitting"

(* A call that is still on its way in has not reached the transport.       *)
WayIn == stack # <<>> /\ Top.at = "calling" => calls[Top.call].native = Unknown

EventsKnown == \A i \in 1 .. Len(events) : events[i].call \in 0 .. Len(calls)

IInv ==
    /\ TypeOK
    /\ Len(calls) <= MaxCalls
    /\ FramesAgree
    /\ CallsNest
    /\ WayIn
    /\ EventsKnown
    /\ AmountBeforeSend

-----------------------------------------------------------------------------
(* What the lengths and entries of the histories are.                      *)
LEMMA Typing ==
    ASSUME TypeOK
    PROVE  /\ stack \in Seq(Frame) /\ Len(stack) \in Nat
           /\ calls \in Seq(Call) /\ Len(calls) \in Nat
           /\ events \in Seq(Event) /\ Len(events) \in Nat
           /\ \A i \in 1 .. Len(stack) : stack[i] \in Frame
           /\ \A k \in 1 .. Len(calls) : calls[k] \in Call
           /\ \A i \in 1 .. Len(events) : events[i] \in Event
<1>1. /\ stack \in Seq(Frame) /\ calls \in Seq(Call) /\ events \in Seq(Event)
  BY DEF TypeOK
<1> HIDE DEF Frame, Call, Event
<1> QED
  BY <1>1, LenProperties, ElementOfSeq

(* The innermost open call.                                                *)
LEMMA OnTop ==
    ASSUME IInv, stack # <<>>
    PROVE  /\ Len(stack) \in 1 .. Len(stack) /\ Len(stack) \in Nat \ {0}
           /\ Top \in Frame /\ Agrees(Top)
<1>1. TypeOK
  BY DEF IInv
<1>2. stack \in Seq(Frame) /\ Len(stack) \in Nat
  BY <1>1, Typing
<1>3. Len(stack) # 0
  <2> HIDE DEF Frame
  <2> QED BY <1>2, EmptySeq
<1>4. Len(stack) \in 1 .. Len(stack)
  BY <1>2, <1>3, SMT
<1> QED
  BY <1>1, <1>2, <1>3, <1>4, Typing DEF Top, IInv, FramesAgree

(* The stack without its innermost frame.                                  *)
LEMMA Pop ==
    ASSUME IInv, stack # <<>>
    PROVE  /\ Popped \in Seq(Frame) /\ Len(Popped) = Len(stack) - 1
           /\ \A i \in 1 .. Len(stack) - 1 : Popped[i] = stack[i]
<1>1. PICK n \in Nat \ {0} : n = Len(stack)
  BY OnTop
<1>2. stack \in Seq(Frame)
  BY Typing DEF IInv
<1>3. n - 1 \in Int /\ 1 \in Int /\ \A i \in 1 .. n - 1 : i \in 1 .. n
  BY <1>1, SMT
<1>4. \A i \in 1 .. n - 1 : stack[i] \in Frame
  BY <1>1, <1>3, Typing DEF IInv
<1>5. PICK m \in Int : m = n - 1
  BY <1>3
<1>6. /\ SubSeq(stack, 1, m) \in Seq(Frame)
      /\ Len(SubSeq(stack, 1, m)) = IF 1 <= m THEN m - 1 + 1 ELSE 0
      /\ \A i \in 1 .. m - 1 + 1 : SubSeq(stack, 1, m)[i] = stack[1 + i - 1]
  <2> HIDE DEF Frame
  <2> QED BY <1>2, <1>4, <1>5, SubSeqProperties, SMT
<1>7. m - 1 + 1 = n - 1 /\ (IF 1 <= m THEN m - 1 + 1 ELSE 0) = n - 1
  BY <1>5, SMT
<1>8. \A i \in 1 .. n - 1 : 1 + i - 1 = i
  BY <1>1, SMT
<1> QED
  BY <1>1, <1>5, <1>6, <1>7, <1>8 DEF Popped

(* The end of the innermost frame, of call k: h is the history with what   *)
(* the transport did for that call.                                        *)
LEMMA EndsKeeps ==
    ASSUME IInv, stack # <<>>, NEW k \in 1 .. Len(calls), Top.call = k,
           NEW h \in Seq(Call), Len(h) = Len(calls),
           NEW outcome \in Outcome, h[k].native = outcome,
           calls[k].native \in {Unknown, outcome},
           h[k].amount = calls[k].amount, h[k].seen = Unknown,
           \A c \in 1 .. Len(calls) : c # k => h[c] = calls[c],
           Ends(outcome, h)
    PROVE  /\ stack' \in Seq(Frame) /\ calls' \in Seq(Call) /\ Len(calls') = Len(calls)
           /\ FramesAgree' /\ CallsNest' /\ WayIn'
           /\ \A c \in 1 .. Len(calls) : calls'[c].amount = calls[c].amount
<1>1. PICK n \in Nat \ {0} : n = Len(stack)
  BY OnTop
<1>2. /\ TypeOK /\ stack \in Seq(Frame) /\ calls \in Seq(Call)
      /\ Len(calls) \in Nat
      /\ \A i \in 1 .. n : stack[i] \in Frame /\ Agrees(stack[i])
  BY <1>1, Typing DEF IInv, FramesAgree
<1>3. /\ Popped \in Seq(Frame) /\ Len(Popped) = n - 1
      /\ \A i \in 1 .. n - 1 : Popped[i] = stack[i]
  BY <1>1, Pop
<1>4. /\ \A i, j \in 1 .. n : i <= j => stack[i].call <= stack[j].call
      /\ \A i \in 1 .. n - 1 : IF stack[i].call = stack[i + 1].call
                                  THEN stack[i].fn # Own
                                  ELSE stack[i].at = "emitting"
  BY <1>1 DEF IInv, CallsNest
<1>5. Top = stack[n] /\ stack[n].call = k /\ k \in Nat \ {0}
  BY <1>1, SMT DEF Top
<1>6. \A i \in 1 .. n - 1 : i \in 1 .. n /\ i <= n /\ i + 1 \in 1 .. n
  BY SMT
<1>7. \A c \in 1 .. Len(calls) : h[c] \in Call
  <2> HIDE DEF Call
  <2> QED BY ElementOfSeq
<1>8. CASE Outermost
  <2>1. stack' = Popped /\ calls' = [h EXCEPT ![k].seen = outcome]
    BY <1>8 DEF Ends
  <2>2. /\ calls' \in Seq(Call) /\ Len(calls') = Len(calls)
        /\ \A c \in 1 .. Len(calls) : c # k => calls'[c] = calls[c]
        /\ calls'[k] = [h[k] EXCEPT !.seen = outcome]
    <3>1. [h[k] EXCEPT !.seen = outcome] \in Call
      <4>1. h[k] \in Call
        BY <1>7
      <4>2. outcome \in Outcome \union {Unknown}
        OBVIOUS
      <4> QED
        BY <4>1, <4>2 DEF Call
    <3>2. PICK v \in Call : v = [h[k] EXCEPT !.seen = outcome]
      BY <3>1
    <3>3. calls' = [h EXCEPT ![k] = v]
      BY <2>1, <3>2
    <3>4. k \in 1 .. Len(h)
      OBVIOUS
    <3>5. /\ [h EXCEPT ![k] = v] \in Seq(Call) /\ Len([h EXCEPT ![k] = v]) = Len(h)
          /\ \A c \in 1 .. Len(h) : [h EXCEPT ![k] = v][c] = IF c = k THEN v ELSE h[c]
      <4> HIDE DEF Call
      <4> QED BY <3>4, ExceptSeq
    <3> QED
      BY <3>2, <3>3, <3>5
  <2>3. \A c \in 1 .. Len(calls) : calls'[c].amount = calls[c].amount
    <3>1. calls'[k].amount = h[k].amount
      BY <2>2, <1>7 DEF Call
    <3> QED
      BY <2>2, <3>1
  <2>4. \A i \in 1 .. n - 1 : stack[i].call # k /\ Popped[i] = stack[i]
    <3> SUFFICES ASSUME NEW i \in 1 .. n - 1 PROVE stack[i].call # k
      BY <1>3
    <3>1. n # 1 /\ n - 1 \in 1 .. n /\ n - 1 \in 1 .. n - 1 /\ i <= n - 1 /\ n - 1 <= n /\ i \in 1 .. n /\ n \in 1 .. n
      BY SMT
    <3>2. stack[n - 1].call # k
      BY <1>1, <1>5, <1>8, <3>1 DEF Outermost, Below
    <3>3. stack[i].call <= stack[n - 1].call /\ stack[n - 1].call <= stack[n].call
      BY <1>4, <3>1
    <3>4. stack[i].call \in Nat /\ stack[n - 1].call \in Nat
      BY <1>2, <3>1 DEF Frame
    <3> QED
      BY <1>5, <3>2, <3>3, <3>4, SMT
  <2>5. FramesAgree'
    <3> SUFFICES ASSUME NEW i \in 1 .. n - 1 PROVE Agrees(stack[i])'
      BY <1>3, <2>1, <2>4 DEF FramesAgree
    <3>1. stack'[i] = stack[i] /\ stack[i].call # k /\ Agrees(stack[i])
      BY <1>2, <1>6, <2>1, <2>4
    <3>2. stack[i].call # 0 => calls'[stack[i].call] = calls[stack[i].call]
      BY <2>2, <3>1 DEF Agrees
    <3>3. PICK f : f = stack[i]
      OBVIOUS
    <3>4. f.call # 0 => f.call \in 1 .. Len(calls) /\ calls'[f.call] = calls[f.call]
      BY <3>1, <3>2, <3>3 DEF Agrees
    <3>5. stack'[i] = f /\ Agrees(f)
      BY <3>1, <3>3
    <3>6. Agrees(f)'
      BY <2>2, <3>4, <3>5 DEF Agrees
    <3> QED
      BY <3>5, <3>6 DEF Agrees
  <2>6. CallsNest'
    <3>1. \A i \in 1 .. (n - 1) - 1 : i \in 1 .. n - 1 /\ i + 1 \in 1 .. n - 1
      BY SMT
    <3>2. \A i \in 1 .. n - 1 : stack'[i] = stack[i]
      BY <2>1, <2>4
    <3>3. \A i, j \in 1 .. n - 1 : i <= j => stack'[i].call <= stack'[j].call
      BY <1>4, <1>6, <3>2
    <3>4. ASSUME NEW i \in 1 .. (n - 1) - 1
          PROVE  IF stack'[i].call = stack'[i + 1].call
                   THEN stack'[i].fn # Own
                   ELSE stack'[i].at = "emitting"
      <4>1. i \in 1 .. n - 1 /\ stack'[i] = stack[i] /\ stack'[i + 1] = stack[i + 1]
        BY <3>1, <3>2
      <4> QED
        BY <1>4, <4>1
    <3>5. Len(stack') = n - 1
      BY <1>3, <2>1
    <3> QED
      BY <3>3, <3>4, <3>5 DEF CallsNest
  <2>7. WayIn'
    <3> SUFFICES ASSUME Popped # <<>> PROVE Top'.at # "calling"
      BY <2>1 DEF WayIn
    <3>1. n - 1 \in 1 .. n - 1 /\ (n - 1) + 1 = n /\ n \in 1 .. n
      <4>1. Len(Popped) \in Nat \ {0}
        <5> HIDE DEF Frame
        <5> QED BY <1>3, EmptySeq
      <4> QED
        BY <1>3, <4>1, SMT
    <3>2. Top' = stack[n - 1]
      BY <1>3, <2>1, <3>1 DEF Top
    <3>3. stack[n - 1].call # stack[n].call
      BY <1>5, <2>4, <3>1
    <3>4. stack[n - 1].at = "emitting"
      BY <1>4, <3>1, <3>3
    <3> QED
      BY <3>2, <3>4
  <2> QED
    BY <1>3, <2>1, <2>2, <2>3, <2>5, <2>6, <2>7
<1>9. CASE ~Outermost
  <2>1. n # 1 /\ stack[n - 1].call = k
    BY <1>1, <1>5, <1>9 DEF Outermost, Below
  <2>2. /\ n - 1 \in 1 .. n - 1 /\ n - 1 \in 1 .. n /\ (n - 1) + 1 = n
        /\ \A i \in 1 .. (n - 1) - 1 : i \in 1 .. n - 1 /\ i + 1 \in 1 .. n - 1 /\ i # n - 1
    BY <2>1, SMT
  <2>3. PICK g : g = [stack[n - 1] EXCEPT !.at = "called", !.outcome = outcome]
    OBVIOUS
  <2>4. /\ g \in Frame /\ g.call = k /\ g.at = "called" /\ g.outcome = outcome
        /\ g.amount = stack[n - 1].amount /\ g.fn = stack[n - 1].fn /\ g.fn # Own
    <3>1. stack[n - 1] \in Frame
      BY <1>2, <2>2
    <3>2. stack[n - 1].fn # Own
      BY <1>4, <1>5, <2>1, <2>2
    <3> QED
      BY <2>1, <2>3, <3>1, <3>2 DEF Frame
  <2>5. stack' = [Popped EXCEPT ![n - 1] = g] /\ calls' = h
    <3>1. Popped[n - 1] = stack[n - 1]
      BY <1>3, <2>2
    <3>2. stack' = [Popped EXCEPT ![n - 1].at = "called", ![n - 1].outcome = outcome]
      BY <1>1, <1>9 DEF Ends
    <3>3. calls' = h
      BY <1>9 DEF Ends
    <3>4. n - 1 \in DOMAIN Popped
      <4> HIDE DEF Frame
      <4> QED BY <1>3, <2>2, LenProperties
    <3> QED
      BY <2>3, <3>1, <3>2, <3>3, <3>4
  <2>6. /\ stack' \in Seq(Frame) /\ Len(stack') = n - 1
        /\ \A i \in 1 .. n - 1 : stack'[i] = IF i = n - 1 THEN g ELSE stack[i]
    <3>1. n - 1 \in 1 .. Len(Popped)
      BY <1>3, <2>2
    <3>2. /\ [Popped EXCEPT ![n - 1] = g] \in Seq(Frame)
          /\ Len([Popped EXCEPT ![n - 1] = g]) = Len(Popped)
          /\ \A i \in 1 .. Len(Popped) :
                [Popped EXCEPT ![n - 1] = g][i] = IF i = n - 1 THEN g ELSE Popped[i]
      <4> HIDE DEF Frame
      <4> QED BY <1>3, <2>4, <3>1, ExceptSeq
    <3> QED
      BY <1>3, <2>5, <3>2
  <2>7. \A i \in 1 .. n - 1 : stack'[i].call = stack[i].call /\ stack'[i].fn = stack[i].fn
    BY <2>1, <2>4, <2>6
  <2>8. FramesAgree'
    <3> SUFFICES ASSUME NEW i \in 1 .. n - 1 PROVE Agrees(stack[i])'
      BY <2>6 DEF FramesAgree
    <3>1. CASE i = n - 1
      <4>1. stack'[i] = g /\ Agrees(stack[n - 1])
        BY <1>2, <2>2, <2>6, <3>1
      <4>2. g.amount = calls'[k].amount
        BY <2>1, <2>4, <2>5, <4>1, <1>5 DEF Agrees
      <4>3. outcome # Unknown
        BY DEF Outcome, Unknown
      <4> QED
        BY <1>5, <2>4, <2>5, <4>1, <4>2, <4>3 DEF Agrees
    <3>2. CASE i # n - 1
      <4>1. stack'[i] = stack[i] /\ Agrees(stack[i])
        BY <1>2, <1>6, <2>6, <3>2
      <4>2. CASE stack[i].call # k
        <5>1. stack[i].call # 0 => calls'[stack[i].call] = calls[stack[i].call]
          BY <2>5, <4>1, <4>2 DEF Agrees
        <5> QED
          BY <2>5, <4>1, <5>1 DEF Agrees
      <4>3. CASE stack[i].call = k
        <5>1. stack[i].at # "calling" => stack[i].outcome = outcome /\ outcome # Unknown
          BY <1>5, <4>1, <4>3 DEF Agrees
        <5> QED
          BY <1>5, <2>5, <4>1, <4>3, <5>1 DEF Agrees
      <4> QED
        BY <4>2, <4>3
    <3> QED
      BY <3>1, <3>2
  <2>9. CallsNest'
    <3>1. \A i, j \in 1 .. n - 1 : i <= j => stack'[i].call <= stack'[j].call
      BY <1>4, <1>6, <2>7
    <3>2. ASSUME NEW i \in 1 .. (n - 1) - 1
          PROVE  IF stack'[i].call = stack'[i + 1].call
                   THEN stack'[i].fn # Own
                   ELSE stack'[i].at = "emitting"
      <4>1. stack'[i + 1].call = stack[i + 1].call /\ stack'[i] = stack[i]
        BY <2>2, <2>6, <2>7
      <4> QED
        BY <1>4, <2>2, <4>1
    <3> QED
      BY <2>6, <3>1, <3>2 DEF CallsNest
  <2>10. WayIn'
    <3>1. Top' = g
      BY <2>2, <2>6 DEF Top
    <3> QED
      BY <2>4, <3>1 DEF WayIn
  <2>11. \A c \in 1 .. Len(calls) : calls'[c].amount = calls[c].amount
    BY <2>5
  <2> QED
    BY <2>5, <2>6, <2>8, <2>9, <2>10, <2>11
<1> QED
  BY <1>8, <1>9

-----------------------------------------------------------------------------
(* What is known of past events stays so while no event is added and the   *)
(* amounts of the calls stay.                                              *)
LEMMA EventsStay ==
    ASSUME IInv, UNCHANGED events, Len(calls') \in Nat, Len(calls) <= Len(calls'),
           \A c \in 1 .. Len(calls) : calls'[c].amount = calls[c].amount
    PROVE  EventsKnown' /\ AmountBeforeSend'
<1>1. Len(calls) \in Nat /\ Len(events) \in Nat
  BY Typing DEF IInv
<1>2. \A i \in 1 .. Len(events) : events[i].call \in 0 .. Len(calls)
  BY DEF IInv, EventsKnown
<1>3. \A c \in 0 .. Len(calls) : c \in 0 .. Len(calls') /\ (c # 0 => c \in 1 .. Len(calls))
  BY <1>1, SMT
<1> QED
  BY <1>2, <1>3 DEF IInv, EventsKnown, AmountBeforeSend

(* A step that only rewires the object or moves its buffer.                *)
LEMMA CallsStay ==
    ASSUME IInv, UNCHANGED <<stack, calls, events>>, TypeOK'
    PROVE  IInv'
BY DEF IInv, FramesAgree, Agrees, CallsNest, WayIn, Top, EventsKnown, AmountBeforeSend

LEMMA InitInv == Init => IInv
<1> SUFFICES ASSUME Init PROVE IInv
  OBVIOUS
<1> USE DEF Init
<1>1. \A S : <<>> \in Seq(S) /\ Len(<<>>) = 0
  BY EmptySeq
<1>2. TypeOK
  <2> HIDE DEF Frame, Call, Event
  <2>1. chain \in [Tap \union {Own} -> Seq(Tap)]
    BY <1>1
  <2>2. current \in Tap \union {Own} /\ orig \in [Tap -> Tap \union {Own, None}]
    OBVIOUS
  <2>3. stack \in Seq(Frame) /\ calls \in Seq(Call) /\ events \in Seq(Event)
    BY <1>1
  <2>4. live \in Seq(Tap) /\ nested \in BOOLEAN
    BY <1>1
  <2>5. amount \in Nat
    BY SMT
  <2> QED
    BY <2>1, <2>2, <2>3, <2>4, <2>5 DEF TypeOK
<1>3. Len(calls) <= MaxCalls
  BY <1>1, TapAssumption, SMT
<1>4. Len(stack) = 0 /\ Len(events) = 0 /\ \A i \in 1 .. 0 : FALSE
  BY <1>1, SMT
<1>5. \A i \in 1 .. 0 - 1 : FALSE
  BY SMT
<1> QED
  BY <1>2, <1>3, <1>4, <1>5
     DEF IInv, FramesAgree, CallsNest, WayIn, EventsKnown, AmountBeforeSend

LEMMA InstallKeeps ==
    ASSUME IInv, NEW t \in Tap, Install(t)
    PROVE  IInv'
<1> USE DEF Install
<1>1. TypeOK
  BY DEF IInv
<1>2. current' \in Tap \union {Own} /\ orig' \in [Tap -> Tap \union {Own, None}]
  BY <1>1 DEF TypeOK
<1>3. chain' \in [Tap \union {Own} -> Seq(Tap)]
  <2>1. chain[current] \in Seq(Tap)
    BY <1>1 DEF TypeOK
  <2>2. <<t>> \in Seq(Tap)
    BY SMT
  <2>3. <<t>> \o chain[current] \in Seq(Tap)
    BY <2>1, <2>2, ConcatProperties
  <2> QED
    BY <1>1, <2>3 DEF TypeOK
<1>4. live' \in Seq(Tap) /\ nested' \in BOOLEAN
  BY <1>1, AppendProperties DEF TypeOK
<1>5. TypeOK'
  BY <1>1, <1>2, <1>3, <1>4 DEF TypeOK
<1> QED
  BY <1>5, CallsStay

LEMMA RestoreKeeps ==
    ASSUME IInv, NEW t \in Tap, Restore(t)
    PROVE  IInv'
<1> USE DEF Restore, Unwrapped
<1>1. TypeOK
  BY DEF IInv
<1>2. current' \in Tap \union {Own} /\ listening' \in SUBSET Tap
  BY <1>1 DEF TypeOK
<1>3. live' \in Seq(Tap) /\ nested' \in BOOLEAN
  <2>1. CASE Newest(t)
    <3>1. live \in Seq(Tap) /\ Len(live) \in Nat
      BY <1>1, LenProperties DEF TypeOK
    <3>2. 1 \in Int /\ Len(live) - 1 \in Int /\ \A i \in 1 .. Len(live) - 1 : i \in 1 .. Len(live)
      BY <3>1, SMT
    <3>3. \A i \in 1 .. Len(live) - 1 : live[i] \in Tap
      BY <3>1, <3>2, ElementOfSeq
    <3>4. SubSeq(live, 1, Len(live) - 1) \in Seq(Tap)
      BY <3>2, <3>3, SubSeqProperties
    <3> QED
      BY <1>1, <2>1, <3>4 DEF TypeOK
  <2>2. CASE ~Newest(t)
    BY <1>1, <2>2 DEF TypeOK
  <2> QED
    BY <2>1, <2>2
<1>4. TypeOK'
  BY <1>1, <1>2, <1>3 DEF TypeOK
<1> QED
  BY <1>4, CallsStay

LEMMA DrainKeeps == IInv /\ Drain => IInv'
<1> SUFFICES ASSUME IInv, Drain PROVE IInv'
  OBVIOUS
<1>1. TypeOK'
  <2>1. amount' \in Nat
    BY SMT DEF Drain
  <2> QED
    BY <2>1 DEF IInv, TypeOK, Drain, wiring
<1> QED
  BY <1>1, CallsStay DEF Drain

(* A sequence that is given by its entries.                                *)
LEMMA SeqOfFun ==
    ASSUME NEW S, NEW n \in Nat, NEW f \in [1 .. n -> S]
    PROVE  f \in Seq(S) /\ Len(f) = n
<1>1. f \in Seq(S)
  BY SeqDef
<1>2. Len(f) \in Nat /\ 1 .. Len(f) = 1 .. n
  BY <1>1, LenProperties
<1>3. Len(f) = n
  BY <1>2, SMT
<1> QED
  BY <1>1, <1>3

(* The frames that send() enters.                                          *)
Entered(f) == [fn |-> f, call |-> Len(calls) + 1, amount |-> amount,
               at |-> "calling", outcome |-> Unknown]

NewCall == [amount |-> amount, taps |-> chain[current], ran |-> 0,
            native |-> Unknown, seen |-> Unknown]

LEMMA SendEnters ==
    ASSUME IInv, Send
    PROVE  \E m \in Seq(Frame) :
              /\ stack' = stack \o m /\ Len(m) \in Nat \ {0}
              /\ \A i \in 1 .. Len(m) :
                    \E f \in Tap \union {Own} : m[i] = Entered(f)
              /\ \A i \in 1 .. Len(m) - 1 : m[i].fn # Own
<1> DEFINE path == Append(chain[current], Own)
           m == [i \in 1 .. Len(path) |-> Entered(path[i])]
<1>1. TypeOK /\ Len(calls) \in Nat /\ amount \in Nat
  BY Typing DEF IInv, TypeOK
<1>2. path \in Seq(Tap \union {Own}) /\ Len(path) \in Nat \ {0}
  <2>1. chain[current] \in Seq(Tap)
    BY <1>1 DEF TypeOK
  <2>2. chain[current] \in Seq(Tap \union {Own})
    BY <2>1, SeqMonotonic
  <2>3. /\ path \in Seq(Tap \union {Own}) /\ Len(path) = Len(chain[current]) + 1
        /\ Len(chain[current]) \in Nat
    BY <2>2, AppendProperties, LenProperties
  <2> QED
    BY <2>3, SMT
<1>3. \A f \in Tap \union {Own} : Entered(f) \in Frame
  <2>1. Len(calls) + 1 \in 0 .. MaxCalls
    BY <1>1, TapAssumption, SMT DEF Send
  <2> QED
    BY <1>1, <2>1 DEF Frame, Entered
<1>4. \A i \in 1 .. Len(path) : path[i] \in Tap \union {Own}
  BY <1>2, ElementOfSeq
<1>5. m \in [1 .. Len(path) -> Frame]
  BY <1>3, <1>4
<1>6. m \in Seq(Frame) /\ Len(m) = Len(path)
  <2> HIDE DEF Frame, m, path
  <2> QED BY <1>2, <1>5, SeqOfFun
<1>7. stack' = stack \o m
  BY DEF Send, Entered
<1>8. \A i \in 1 .. Len(m) : \E f \in Tap \union {Own} : m[i] = Entered(f)
  BY <1>4, <1>6
<1>9. \A i \in 1 .. Len(m) - 1 : m[i].fn # Own
  <2>1. PICK d \in Nat : d = Len(chain[current])
    BY <1>1, LenProperties DEF TypeOK
  <2>2. chain[current] \in Seq(Tap)
    BY <1>1 DEF TypeOK
  <2>3. chain[current] \in Seq(Tap \union {Own})
    BY <2>2, SeqMonotonic
  <2>4. /\ Len(path) = d + 1
        /\ \A i \in 1 .. d : path[i] = chain[current][i]
    BY <2>1, <2>3, AppendProperties
  <2>5. \A i \in 1 .. d : path[i] \in Tap
    BY <2>1, <2>2, <2>4, ElementOfSeq
  <2>6. (d + 1) - 1 = d /\ \A i \in 1 .. d : i \in 1 .. d + 1
    BY SMT
  <2>7. \A i \in 1 .. d : m[i] = Entered(path[i])
    BY <2>4, <2>6
  <2>8. \A f : Entered(f).fn = f
    BY DEF Entered
  <2>9. Len(m) - 1 = d
    <3> HIDE DEF m, path
    <3> QED BY <1>6, <2>4, <2>6
  <2>10. \A i \in 1 .. d : m[i].fn \in Tap
    <3> HIDE DEF m, path
    <3> QED BY <2>5, <2>7, <2>8
  <2> HIDE DEF m, path
  <2> QED
    BY <2>9, <2>10, TapAssumption
<1> HIDE DEF m
<1> QED
  BY <1>2, <1>6, <1>7, <1>8, <1>9

LEMMA SendCalls ==
    ASSUME IInv, Send
    PROVE  /\ calls' \in Seq(Call) /\ Len(calls') = Len(calls) + 1
           /\ \A c \in 1 .. Len(calls) : calls'[c] = calls[c]
           /\ calls'[Len(calls) + 1] = NewCall
<1>1. TypeOK /\ calls \in Seq(Call) /\ Len(calls) \in Nat /\ amount \in Nat
  BY Typing DEF IInv, TypeOK
<1>2. chain[current] \in Seq(Tap)
  BY <1>1 DEF TypeOK
<1>3. NewCall \in Call
  <2>1. 0 \in Nat
    BY SMT
  <2> QED
    BY <1>1, <1>2, <2>1 DEF Call, NewCall
<1>4. calls' = Append(calls, NewCall)
  BY DEF Send, NewCall
<1> HIDE DEF Call
<1> QED
  BY <1>1, <1>3, <1>4, AppendProperties

LEMMA SendKeeps == IInv /\ Send => IInv'
<1> SUFFICES ASSUME IInv, Send PROVE IInv'
  OBVIOUS
<1>1. /\ TypeOK /\ stack \in Seq(Frame) /\ calls \in Seq(Call)
      /\ \A i \in 1 .. Len(stack) : stack[i] \in Frame /\ Agrees(stack[i])
  BY Typing DEF IInv, FramesAgree
<1>2. PICK m \in Seq(Frame) :
          /\ stack' = stack \o m /\ Len(m) \in Nat \ {0}
          /\ \A i \in 1 .. Len(m) : \E f \in Tap \union {Own} : m[i] = Entered(f)
          /\ \A i \in 1 .. Len(m) - 1 : m[i].fn # Own
  BY SendEnters
<1>3. PICK c \in Nat : c = Len(calls)
  BY <1>1, Typing
<1>4. PICK n \in Nat : n = Len(stack)
  BY <1>1, Typing
<1>5. PICK d \in Nat \ {0} : d = Len(m)
  BY <1>2
<1>6. /\ calls' \in Seq(Call) /\ Len(calls') = c + 1
      /\ \A k \in 1 .. c : calls'[k] = calls[k]
      /\ calls'[c + 1] = NewCall
  BY <1>3, SendCalls
<1>7. /\ stack' \in Seq(Frame) /\ Len(stack') = n + d
      /\ \A i \in 1 .. n + d : stack'[i] = IF i <= n THEN stack[i] ELSE m[i - n]
  <2> HIDE DEF Frame
  <2> QED BY <1>1, <1>2, <1>4, <1>5, ConcatProperties
<1>8. \A i \in 1 .. n : stack'[i] = stack[i] /\ i \in 1 .. n + d
  <2>1. \A i \in 1 .. n : i \in 1 .. n + d /\ i <= n
    BY SMT
  <2> QED
    BY <1>7, <2>1
<1>9. \A i \in (n + 1) .. (n + d) : \E f \in Tap \union {Own} : stack'[i] = Entered(f)
  <2>1. \A i \in (n + 1) .. (n + d) : i \in 1 .. n + d /\ ~(i <= n) /\ i - n \in 1 .. d
    BY SMT
  <2> QED
    BY <1>2, <1>5, <1>7, <2>1
<1>10. \A i \in 1 .. n + d : i \in 1 .. n \/ i \in (n + 1) .. (n + d)
  BY SMT
<1>11. TypeOK'
  BY <1>1, <1>6, <1>7 DEF TypeOK, Send, wiring
<1>12. Len(calls') <= MaxCalls
  <2>1. c < MaxCalls
    BY <1>3 DEF Send
  <2>2. c + 1 <= MaxCalls
    BY <2>1, TapAssumption, SMT
  <2> QED
    BY <1>6, <2>2
<1>13. c + 1 \in 1 .. c + 1 /\ c + 1 # 0 /\ \A k \in 1 .. c : k \in 1 .. c + 1
  BY SMT
<1>14. FramesAgree'
  <2> SUFFICES ASSUME NEW i \in 1 .. n + d PROVE Agrees(stack[i])'
    BY <1>7 DEF FramesAgree
  <2>1. CASE i \in 1 .. n
    <3>1. stack'[i] = stack[i] /\ Agrees(stack[i])
      BY <1>1, <1>4, <1>8, <2>1
    <3>2. stack[i].call # 0 => /\ stack[i].call \in 1 .. c + 1
                               /\ calls'[stack[i].call] = calls[stack[i].call]
      BY <1>3, <1>6, <1>13, <3>1 DEF Agrees
    <3> QED
      BY <1>6, <3>1, <3>2 DEF Agrees
  <2>2. CASE i \in (n + 1) .. (n + d)
    <3>1. PICK f \in Tap \union {Own} : stack'[i] = Entered(f)
      BY <1>9, <2>2
    <3>2. /\ stack'[i].call = c + 1 /\ stack'[i].at = "calling"
          /\ stack'[i].amount = amount
      BY <1>3, <3>1 DEF Entered
    <3>3. calls'[c + 1].seen = Unknown /\ calls'[c + 1].amount = amount
      BY <1>6 DEF NewCall
    <3> QED
      BY <1>6, <1>13, <3>2, <3>3 DEF Agrees
  <2> QED
    BY <1>10, <2>1, <2>2
<1>15. \A i \in 1 .. n : stack[i].call \in 0 .. c
  <2>1. \A i \in 1 .. n : stack[i].call = 0 \/ stack[i].call \in 1 .. c
    BY <1>1, <1>3, <1>4 DEF Agrees
  <2> QED
    BY <2>1, SMT
<1>16. \A i \in (n + 1) .. (n + d) : stack'[i].call = c + 1
  <2>1. ASSUME NEW i \in (n + 1) .. (n + d) PROVE stack'[i].call = c + 1
    <3>1. PICK f \in Tap \union {Own} : stack'[i] = Entered(f)
      BY <1>9
    <3> QED
      BY <1>3, <3>1 DEF Entered
  <2> QED
    BY <2>1
<1>17. CallsNest'
  <2>1. ASSUME NEW i \in 1 .. n + d, NEW j \in 1 .. n + d, i <= j
        PROVE  stack'[i].call <= stack'[j].call
    <3>1. CASE j \in 1 .. n
      <4>1. i \in 1 .. n
        BY <2>1, <3>1, SMT
      <4> QED
        BY <1>4, <1>8, <2>1, <3>1, <4>1 DEF IInv, CallsNest
    <3>2. CASE j \in (n + 1) .. (n + d)
      <4>1. stack'[j].call = c + 1
        BY <1>16, <3>2
      <4>2. stack'[i].call \in 0 .. c \/ stack'[i].call = c + 1
        BY <1>8, <1>10, <1>15, <1>16
      <4> QED
        BY <4>1, <4>2, SMT
    <3> QED
      BY <1>10, <3>1, <3>2
  <2>2. ASSUME NEW i \in 1 .. (n + d) - 1
        PROVE  IF stack'[i].call = stack'[i + 1].call
                 THEN stack'[i].fn # Own
                 ELSE stack'[i].at = "emitting"
    <3>1. i \in 1 .. n - 1 \/ (n # 0 /\ i = n) \/ (i \in (n + 1) .. (n + d) /\ i + 1 \in (n + 1) .. (n + d))
      BY SMT
    <3>2. CASE i \in 1 .. n - 1
      <4>1. i \in 1 .. n /\ i + 1 \in 1 .. n
        BY <3>2, SMT
      <4> QED
        BY <1>4, <1>8, <3>2, <4>1 DEF IInv, CallsNest
    <3>3. CASE n # 0 /\ i = n
      <4>1. stack # <<>>
        BY <1>4, <3>3, EmptySeq
      <4>2. Top.at = "emitting" /\ Top = stack[n]
        BY <1>4, <4>1 DEF Send, AppRuns, Top
      <4>3. n \in 1 .. n /\ n + 1 \in (n + 1) .. (n + d)
        BY <3>3, SMT
      <4>4. stack'[n + 1].call = c + 1 /\ stack'[n].call \in 0 .. c
        BY <1>8, <1>15, <1>16, <4>3
      <4>5. stack'[n].call # stack'[n + 1].call
        BY <4>4, SMT
      <4> QED
        BY <1>8, <3>3, <4>2, <4>3, <4>5
    <3>4. CASE i \in (n + 1) .. (n + d) /\ i + 1 \in (n + 1) .. (n + d)
      <4>1. stack'[i].call = stack'[i + 1].call
        BY <1>16, <3>4
      <4>2. i - n \in 1 .. d - 1 /\ ~(i <= n) /\ i \in 1 .. n + d
        BY <3>4, SMT
      <4>3. stack'[i] = m[i - n] /\ m[i - n].fn # Own
        BY <1>2, <1>5, <1>7, <4>2
      <4> QED
        BY <4>1, <4>3
    <3> QED
      BY <3>1, <3>2, <3>3, <3>4
  <2> QED
    BY <1>7, <2>1, <2>2 DEF CallsNest
<1>18. WayIn'
  <2>1. n + d \in (n + 1) .. (n + d)
    BY SMT
  <2>2. Top'.call = c + 1
    BY <1>7, <1>16, <2>1 DEF Top
  <2> QED
    BY <1>6, <2>2 DEF WayIn, NewCall
<1>19. EventsKnown' /\ AmountBeforeSend'
  <2>1. Len(calls') \in Nat /\ Len(calls) <= Len(calls')
    BY <1>3, <1>6, SMT
  <2>2. UNCHANGED events
    BY DEF Send
  <2>3. \A k \in 1 .. Len(calls) : calls'[k].amount = calls[k].amount
    BY <1>3, <1>6
  <2> QED
    BY <2>1, <2>2, <2>3, EventsStay
<1> QED
  BY <1>11, <1>12, <1>14, <1>17, <1>18, <1>19 DEF IInv

-----------------------------------------------------------------------------
(* What the transport did is noted in the history.                         *)
Done(k, o) == [calls EXCEPT ![k].native = o, ![k].ran = @ + 1]

LEMMA OwnHistory ==
    ASSUME TypeOK, NEW k \in 1 .. Len(calls), NEW o \in {"ok", "error"}
    PROVE  /\ Done(k, o) \in Seq(Call) /\ Len(Done(k, o)) = Len(calls)
           /\ Done(k, o)[k].native = o /\ Done(k, o)[k].amount = calls[k].amount
           /\ Done(k, o)[k].seen = calls[k].seen
           /\ \A c \in 1 .. Len(calls) : c # k => Done(k, o)[c] = calls[c]
<1> DEFINE h == Done(k, o)
<1>1. calls \in Seq(Call) /\ calls[k] \in Call
  BY Typing
<1>2. PICK v : v = [calls[k] EXCEPT !.native = o, !.ran = @ + 1]
  OBVIOUS
<1>3. v \in Call /\ v.native = o /\ v.amount = calls[k].amount /\ v.seen = calls[k].seen
  <2>1. calls[k].ran + 1 \in Nat
    BY <1>1, SMT DEF Call
  <2>2. o \in Outcome \union {Unknown}
    BY DEF Outcome
  <2> QED
    BY <1>1, <1>2, <2>1, <2>2 DEF Call
<1>4. k \in DOMAIN calls
  <2> HIDE DEF Call
  <2> QED BY <1>1, LenProperties
<1>5. h = [calls EXCEPT ![k] = v]
  BY <1>2, <1>4 DEF Done
<1>6. /\ h \in Seq(Call) /\ Len(h) = Len(calls)
      /\ \A c \in 1 .. Len(calls) : h[c] = IF c = k THEN v ELSE calls[c]
  <2> HIDE DEF Call, h
  <2> QED BY <1>1, <1>3, <1>5, ExceptSeq
<1> QED
  BY <1>3, <1>6

LEMMA OwnEndsKeeps == IInv /\ OwnEnds => IInv'
<1> SUFFICES ASSUME IInv, OwnEnds PROVE IInv'
  OBVIOUS
<1> DEFINE k == Top.call
<1>1. /\ TypeOK /\ calls \in Seq(Call) /\ Len(calls) \in Nat
      /\ \A i \in 1 .. Len(calls) : calls[i] \in Call
  BY Typing DEF IInv
<1>2. stack # <<>> /\ Top.at = "calling" /\ Agrees(Top)
  BY OnTop DEF OwnEnds
<1>3. k \in 1 .. Len(calls) /\ calls[k].native = Unknown /\ calls[k].seen = Unknown
  BY <1>2 DEF IInv, Agrees, WayIn
<1>4. PICK o \in {"ok", "error"} :
          /\ Ends(o, [calls EXCEPT ![k].native = o, ![k].ran = @ + 1])
          /\ amount' = IF o = "ok" THEN amount + 1 ELSE amount
  BY DEF OwnEnds
<1>5. PICK h \in Seq(Call) :
          /\ Ends(o, h) /\ Len(h) = Len(calls)
          /\ h[k].native = o /\ h[k].amount = calls[k].amount /\ h[k].seen = Unknown
          /\ \A c \in 1 .. Len(calls) : c # k => h[c] = calls[c]
  <2>1. /\ Done(k, o) \in Seq(Call) /\ Len(Done(k, o)) = Len(calls)
        /\ Done(k, o)[k].native = o /\ Done(k, o)[k].amount = calls[k].amount
        /\ Done(k, o)[k].seen = calls[k].seen
        /\ \A c \in 1 .. Len(calls) : c # k => Done(k, o)[c] = calls[c]
    BY <1>1, <1>3, OwnHistory
  <2>2. Ends(o, Done(k, o))
    BY <1>4 DEF Done
  <2> QED
    BY <1>3, <2>1, <2>2
<1>6. o \in Outcome
  BY DEF Outcome
<1>7. /\ stack' \in Seq(Frame) /\ calls' \in Seq(Call) /\ Len(calls') = Len(calls)
      /\ FramesAgree' /\ CallsNest' /\ WayIn'
      /\ \A c \in 1 .. Len(calls) : calls'[c].amount = calls[c].amount
  BY <1>2, <1>3, <1>5, <1>6, EndsKeeps
<1>8. TypeOK'
  <2>1. amount' \in Nat
    BY <1>1, <1>4, SMT DEF TypeOK
  <2> QED
    BY <1>1, <1>7, <2>1 DEF TypeOK, OwnEnds, wiring
<1>9. EventsKnown' /\ AmountBeforeSend'
  BY <1>1, <1>7, EventsStay DEF OwnEnds
<1> QED
  BY <1>7, <1>8, <1>9 DEF IInv

(* Below an inbound event nothing but inbound events is open.              *)
LEMMA HeardEnds ==
    ASSUME IInv, stack # <<>>, Top.call = 0, stack' = Popped, UNCHANGED calls
    PROVE  stack' \in Seq(Frame) /\ FramesAgree' /\ CallsNest' /\ WayIn'
<1>1. PICK n \in Nat \ {0} : n = Len(stack)
  BY OnTop
<1>2. \A i \in 1 .. n : Agrees(stack[i])
  BY <1>1 DEF IInv, FramesAgree
<1>3. /\ stack' \in Seq(Frame) /\ Len(stack') = n - 1
      /\ \A i \in 1 .. n - 1 : stack'[i] = stack[i]
  BY <1>1, Pop
<1>4. /\ \A i \in 1 .. n - 1 : i \in 1 .. n /\ i <= n
      /\ n \in 1 .. n
      /\ \A i \in 1 .. (n - 1) - 1 : i \in 1 .. n - 1 /\ i + 1 \in 1 .. n - 1
  BY SMT
<1>5. FramesAgree'
  BY <1>2, <1>3, <1>4 DEF FramesAgree, Agrees
<1>6. CallsNest'
  <2>1. \A i, j \in 1 .. n - 1 : i <= j => stack'[i].call <= stack'[j].call
    BY <1>1, <1>3, <1>4 DEF IInv, CallsNest
  <2>2. ASSUME NEW i \in 1 .. (n - 1) - 1
        PROVE  IF stack'[i].call = stack'[i + 1].call
                 THEN stack'[i].fn # Own
                 ELSE stack'[i].at = "emitting"
    <3>1. stack'[i] = stack[i] /\ stack'[i + 1] = stack[i + 1] /\ i \in 1 .. n - 1
      BY <1>3, <1>4
    <3> QED
      BY <1>1, <3>1 DEF IInv, CallsNest
  <2> QED
    BY <1>3, <2>1, <2>2 DEF CallsNest
<1>7. WayIn'
  <2> SUFFICES ASSUME stack' # <<>> PROVE Top'.at # "calling"
    BY DEF WayIn
  <2>1. n - 1 \in 1 .. n - 1
    <3>1. Len(stack') \in Nat \ {0}
      <4> HIDE DEF Frame
      <4> QED BY <1>3, EmptySeq
    <3> QED
      BY <1>3, <3>1, SMT
  <2>2. Top' = stack[n - 1] /\ stack[n - 1] \in Frame /\ Agrees(stack[n - 1])
    BY <1>1, <1>2, <1>3, <1>4, <2>1, Typing DEF Top, IInv
  <2>3. stack[n - 1].call <= stack[n].call /\ stack[n].call = 0
    BY <1>1, <1>4, <2>1 DEF IInv, CallsNest, Top
  <2>4. stack[n - 1].call = 0
    <3>1. stack[n - 1].call \in 0 .. MaxCalls
      BY <2>2 DEF Frame
    <3> QED
      BY <2>3, <3>1, TapAssumption, SMT
  <2> QED
    BY <2>2, <2>4 DEF Agrees
<1> QED
  BY <1>3, <1>5, <1>6, <1>7

(* The wrapper of call k that has its event behind it.                     *)
LEMMA EmittedCall ==
    ASSUME IInv, stack # <<>>, Top.at # "calling", Top.call # 0
    PROVE  /\ Top.call \in 1 .. Len(calls)
           /\ Top.outcome \in Outcome
           /\ calls[Top.call].native = Top.outcome /\ calls[Top.call].seen = Unknown
<1>1. Top \in Frame /\ Agrees(Top)
  BY OnTop
<1>2. Top.outcome \in Outcome \union {Unknown}
  BY <1>1 DEF Frame
<1> QED
  BY <1>1, <1>2 DEF Agrees

LEMMA EmitEndsKeeps == IInv /\ EmitEnds => IInv'
<1> SUFFICES ASSUME IInv, EmitEnds PROVE IInv'
  OBVIOUS
<1>1. stack # <<>> /\ Top.at = "emitting" /\ calls \in Seq(Call) /\ Len(calls) \in Nat
  BY Typing DEF EmitEnds, IInv
<1>2. /\ stack' \in Seq(Frame) /\ calls' \in Seq(Call) /\ Len(calls') = Len(calls)
      /\ FramesAgree' /\ CallsNest' /\ WayIn'
      /\ \A c \in 1 .. Len(calls) : calls'[c].amount = calls[c].amount
  <2>1. CASE Top.call = 0
    BY <1>1, <2>1, HeardEnds DEF EmitEnds
  <2>2. CASE Top.call # 0
    <3>1. Ends(Top.outcome, calls)
      BY <2>2 DEF EmitEnds, emitSafe
    <3> QED
      BY <1>1, <2>2, <3>1, EmittedCall, EndsKeeps
  <2> QED
    BY <2>1, <2>2
<1>3. TypeOK'
  BY <1>2 DEF IInv, TypeOK, EmitEnds, wiring
<1>4. EventsKnown' /\ AmountBeforeSend'
  <2>1. UNCHANGED events /\ Len(calls') \in Nat /\ Len(calls) <= Len(calls')
    BY <1>1, <1>2, SMT DEF EmitEnds
  <2> QED
    BY <1>2, <2>1, EventsStay
<1> QED
  BY <1>2, <1>3, <1>4 DEF IInv

(* An event of call c that carries amount a.                               *)
LEMMA NewEvent ==
    ASSUME IInv, NEW e \in Event, UNCHANGED calls, events' = Append(events, e),
           e.call \in 0 .. Len(calls), e.call # 0 => e.amount = calls[e.call].amount
    PROVE  events' \in Seq(Event) /\ EventsKnown' /\ AmountBeforeSend'
<1>1. PICK n \in Nat : n = Len(events)
  BY Typing DEF IInv
<1>2. events \in Seq(Event)
  BY Typing DEF IInv
<1>3. /\ events' \in Seq(Event) /\ Len(events') = n + 1
      /\ \A i \in 1 .. n : events'[i] = events[i]
      /\ events'[n + 1] = e
  <2> HIDE DEF Event
  <2> QED BY <1>1, <1>2, AppendProperties
<1>4. \A i \in 1 .. n + 1 : i \in 1 .. n \/ i = n + 1
  BY SMT
<1> QED
  BY <1>1, <1>3, <1>4 DEF IInv, EventsKnown, AmountBeforeSend

LEMMA EmitKeeps == IInv /\ Emit => IInv'
<1> SUFFICES ASSUME IInv, Emit PROVE IInv'
  OBVIOUS
<1>1. PICK n \in Nat \ {0} : n = Len(stack)
  BY OnTop DEF Emit, Called
<1>2. /\ stack # <<>> /\ Top.at = "called" /\ Top \in Frame /\ Agrees(Top)
      /\ Top = stack[n] /\ stack \in Seq(Frame)
  BY <1>1, OnTop, Typing DEF Emit, Called, Top, IInv
<1>3. /\ Top.call \in 1 .. Len(calls) /\ Top.outcome # Unknown
      /\ Top.outcome = calls[Top.call].native
      /\ Top.amount = calls[Top.call].amount /\ calls[Top.call].seen = Unknown
  BY <1>2 DEF Agrees
<1>4. Top.fn \in Tap
  BY <1>2 DEF Frame, Agrees
<1>5. PICK g : g = [Top EXCEPT !.at = "emitting"]
  OBVIOUS
<1>6. /\ g \in Frame /\ g.at = "emitting" /\ g.call = Top.call
      /\ g.amount = Top.amount /\ g.outcome = Top.outcome /\ g.fn = Top.fn
  BY <1>2, <1>5 DEF Frame
<1>7. /\ stack' \in Seq(Frame) /\ Len(stack') = n
      /\ \A i \in 1 .. n : stack'[i] = IF i = n THEN g ELSE stack[i]
  <2>1. n \in 1 .. Len(stack) /\ n \in DOMAIN stack
    <3> HIDE DEF Frame
    <3> QED BY <1>1, <1>2, OnTop, LenProperties
  <2>2. stack' = [stack EXCEPT ![n] = g]
    BY <1>1, <1>2, <1>5, <2>1 DEF Emit
  <2> HIDE DEF Frame
  <2> QED
    BY <1>1, <1>2, <1>6, <2>1, <2>2, ExceptSeq
<1>8. UNCHANGED calls
  BY DEF Emit
<1>9. FramesAgree'
  <2>1. \A i \in 1 .. n : Agrees(stack[i])
    BY <1>1 DEF IInv, FramesAgree
  <2>2. Top.outcome = calls[Top.call].native /\ Top.fn # Own
    BY <1>2, <1>3 DEF Agrees
  <2> QED
    BY <1>3, <1>6, <1>7, <1>8, <2>1, <2>2 DEF FramesAgree, Agrees
<1>10. CallsNest'
  <2>1. \A i \in 1 .. n : stack'[i].call = stack[i].call /\ stack'[i].fn = stack[i].fn
    BY <1>2, <1>6, <1>7
  <2>2. \A i \in 1 .. n - 1 : i \in 1 .. n /\ i + 1 \in 1 .. n /\ i # n
    BY SMT
  <2> QED
    BY <1>1, <1>7, <2>1, <2>2 DEF IInv, CallsNest
<1>11. WayIn'
  BY <1>1, <1>6, <1>7, OnTop DEF WayIn, Top
<1>12. events' \in Seq(Event) /\ EventsKnown' /\ AmountBeforeSend'
  <2>1. PICK e : e = [tap |-> Top.fn, call |-> Top.call,
                      kind |-> EventKind(Top.outcome), amount |-> AmountOf(Top)]
    OBVIOUS
  <2>2. EventKind(Top.outcome) \in {"out", "send.error", "in"}
    BY DEF EventKind
  <2>3. e \in Event /\ e.call = Top.call /\ e.amount = Top.amount
    BY <1>2, <1>4, <2>1, <2>2 DEF Event, Frame, AmountOf
  <2>4. events' = Append(events, e)
    BY <2>1 DEF Emit
  <2>5. e.call \in 0 .. Len(calls)
    <3>1. Len(calls) \in Nat
      BY Typing DEF IInv
    <3> QED
      BY <1>3, <2>3, <3>1, SMT
  <2> HIDE DEF Event
  <2> QED
    BY <1>3, <1>8, <2>3, <2>4, <2>5, NewEvent
<1>13. TypeOK'
  BY <1>7, <1>12 DEF IInv, TypeOK, Emit, wiring
<1> QED
  BY <1>8, <1>9, <1>10, <1>11, <1>12, <1>13 DEF IInv

LEMMA HearKeeps ==
    ASSUME IInv, NEW t \in Tap, Hear(t)
    PROVE  IInv'
<1>1. PICK g : g = [fn |-> t, call |-> 0, amount |-> 0, at |-> "emitting", outcome |-> Unknown]
  OBVIOUS
<1>2. 0 \in 0 .. MaxCalls /\ 0 \in Nat
  BY TapAssumption, SMT
<1>3. g \in Frame /\ g.call = 0 /\ g.at = "emitting" /\ g.fn # Own
  BY <1>1, <1>2, TapAssumption DEF Frame
<1>4. stack' = <<g>> /\ UNCHANGED calls
  BY <1>1 DEF Hear
<1>5. stack' \in Seq(Frame) /\ Len(stack') = 1 /\ stack'[1] = g
  <2> HIDE DEF Frame
  <2> QED BY <1>3, <1>4
<1>6. FramesAgree'
  <2>1. \A i \in 1 .. 1 : i = 1
    BY SMT
  <2> QED
    BY <1>3, <1>5, <2>1 DEF FramesAgree, Agrees
<1>7. CallsNest'
  <2>1. stack'[1].call <= stack'[1].call
    BY <1>3, <1>5, SMT
  <2>2. (\A i \in 1 .. 1 : i = 1) /\ (\A i \in 1 .. 1 - 1 : FALSE)
    BY SMT
  <2> QED
    BY <1>5, <2>1, <2>2 DEF CallsNest
<1>8. WayIn'
  BY <1>3, <1>5 DEF WayIn, Top
<1>9. events' \in Seq(Event) /\ EventsKnown' /\ AmountBeforeSend'
  <2>1. PICK e : e = [tap |-> t, call |-> 0, kind |-> "in", amount |-> 0]
    OBVIOUS
  <2>2. e \in Event /\ e.call = 0
    BY <1>2, <2>1 DEF Event
  <2>3. events' = Append(events, e)
    BY <2>1 DEF Hear
  <2>4. e.call \in 0 .. Len(calls)
    <3>1. Len(calls) \in Nat
      BY Typing DEF IInv
    <3> QED
      BY <2>2, <3>1, SMT
  <2> HIDE DEF Event
  <2> QED
    BY <1>4, <2>2, <2>3, <2>4, NewEvent
<1>10. TypeOK'
  BY <1>5, <1>9 DEF IInv, TypeOK, Hear, wiring
<1> QED
  BY <1>4, <1>6, <1>7, <1>8, <1>9, <1>10 DEF IInv

THEOREM Invariance == Spec => []IInv
<1>1. IInv /\ [Next]_vars => IInv'
  <2> SUFFICES ASSUME IInv, [Next]_vars PROVE IInv'
    OBVIOUS
  <2>1. ASSUME NEW t \in Tap, Install(t) PROVE IInv'
    BY <2>1, InstallKeeps
  <2>2. ASSUME NEW t \in Tap, Restore(t) PROVE IInv'
    BY <2>2, RestoreKeeps
  <2>3. ASSUME NEW t \in Tap, Hear(t) PROVE IInv'
    BY <2>3, HearKeeps
  <2>4. CASE Send
    BY <2>4, SendKeeps
  <2>5. CASE OwnEnds
    BY <2>5, OwnEndsKeeps
  <2>6. CASE Emit
    BY <2>6, EmitKeeps
  <2>7. CASE EmitEnds
    BY <2>7, EmitEndsKeeps
  <2>8. CASE Drain
    BY <2>8, DrainKeeps
  <2>9. CASE UNCHANGED vars
    <3>1. TypeOK'
      BY <2>9 DEF IInv, TypeOK, vars, wiring
    <3> QED
      BY <2>9, <3>1, CallsStay DEF vars
  <2> QED
    BY <2>1, <2>2, <2>3, <2>4, <2>5, <2>6, <2>7, <2>8, <2>9 DEF Next
<1> QED
  BY <1>1, InitInv, PTL DEF Spec

-----------------------------------------------------------------------------
(* The variables keep their types, for any number of taps and of calls.    *)
THEOREM TypeCorrect == Spec => []TypeOK
<1>1. IInv => TypeOK
  BY DEF IInv
<1> QED
  BY <1>1, Invariance, PTL

(* An event reports the buffered amount of before its call of send(), with *)
(* any number of sinks that send on their own (webrtc.ts:10).              *)
THEOREM ReportsAmountBefore == Spec => []AmountBeforeSend
<1>1. IInv => AmountBeforeSend
  BY DEF IInv
<1> QED
  BY <1>1, Invariance, PTL

-----------------------------------------------------------------------------
(* The calls as the users of the object see them.                          *)
Seen == [k \in 1 .. Len(calls) |-> [native |-> calls[k].native, seen |-> calls[k].seen]]

HostCall == [native : Outcome \union {Unknown}, seen : Outcome \union {Unknown}]

LEMMA SeenIsSeq == TypeOK => Seen \in Seq(HostCall) /\ Len(Seen) = Len(calls)
<1> SUFFICES ASSUME TypeOK PROVE Seen \in Seq(HostCall) /\ Len(Seen) = Len(calls)
  OBVIOUS
<1>1. Len(calls) \in Nat /\ \A k \in 1 .. Len(calls) : calls[k] \in Call
  BY Typing
<1>2. Seen \in [1 .. Len(calls) -> HostCall]
  BY <1>1 DEF Seen, HostCall, Call
<1> HIDE DEF Seen, HostCall
<1> QED
  BY <1>1, <1>2, SeqOfFun

(* What the end of the innermost frame, of call k, shows.                  *)
LEMMA EndsSeen ==
    ASSUME IInv, stack # <<>>, NEW k \in 1 .. Len(calls), Top.call = k,
           NEW h \in Seq(Call), Len(h) = Len(calls),
           NEW outcome \in Outcome, h[k].native = outcome, h[k].seen = Unknown,
           \A c \in 1 .. Len(calls) : c # k => h[c] = calls[c],
           Ends(outcome, h)
    PROVE  Seen' = [Seen EXCEPT ![k] = [native |-> outcome,
                                        seen |-> IF Outermost THEN outcome ELSE Unknown]]
<1>1. k \in DOMAIN h /\ h[k] \in Call /\ k \in DOMAIN h
  <2> HIDE DEF Call
  <2> QED BY LenProperties, ElementOfSeq
<1>2. DOMAIN Seen = 1 .. Len(calls)
  BY DEF Seen
<1>3. CASE Outermost
  <2>1. calls' = [h EXCEPT ![k].seen = outcome]
    BY <1>3 DEF Ends
  <2>2. PICK v : v = [h[k] EXCEPT !.seen = outcome]
    OBVIOUS
  <2>3. v \in Call /\ v.seen = outcome /\ v.native = outcome
    <3>1. outcome \in Outcome \union {Unknown}
      OBVIOUS
    <3> QED
      BY <1>1, <2>2, <3>1 DEF Call
  <2>4. calls' = [h EXCEPT ![k] = v]
    BY <1>1, <2>1, <2>2
  <2>5. k \in 1 .. Len(h)
    OBVIOUS
  <2>6. /\ Len(calls') = Len(calls)
        /\ \A c \in 1 .. Len(calls) : calls'[c] = IF c = k THEN v ELSE calls[c]
    <3> HIDE DEF Call
    <3> QED BY <2>3, <2>4, <2>5, ExceptSeq
  <2> QED
    BY <1>2, <1>3, <2>3, <2>6 DEF Seen
<1>4. CASE ~Outermost
  <2>1. calls' = h
    BY <1>4 DEF Ends
  <2> QED
    BY <1>2, <1>4, <2>1 DEF Seen
<1> QED
  BY <1>3, <1>4

LEMMA SendIsCall == IInv /\ Send => Host!Call
<1> SUFFICES ASSUME IInv, Send PROVE Host!Call
  OBVIOUS
<1>1. TypeOK
  BY DEF IInv
<1>2. Seen \in Seq(HostCall) /\ Len(Seen) = Len(calls)
  BY <1>1, SeenIsSeq
<1>3. PICK n \in Nat : n = Len(calls)
  BY <1>1, Typing
<1>4. PICK r \in HostCall : r = [native |-> Unknown, seen |-> Unknown]
  BY DEF HostCall
<1>5. /\ Len(calls') = n + 1
      /\ \A c \in 1 .. n : calls'[c] = calls[c]
      /\ calls'[n + 1] = NewCall
  BY <1>3, SendCalls
<1>6. TypeOK'
  BY SendKeeps DEF IInv
<1>7. Seen' \in Seq(HostCall) /\ Len(Seen') = n + 1
  <2>1. (Seen \in Seq(HostCall) /\ Len(Seen) = Len(calls))'
    BY <1>6, SeenIsSeq, PTL
  <2> QED
    BY <1>5, <2>1
<1>8. /\ Append(Seen, r) \in Seq(HostCall) /\ Len(Append(Seen, r)) = n + 1
      /\ \A i \in 1 .. n : Append(Seen, r)[i] = Seen[i]
      /\ Append(Seen, r)[n + 1] = r
  <2> HIDE DEF HostCall, Seen
  <2> QED BY <1>2, <1>3, AppendProperties
<1>9. \A i \in 1 .. n + 1 : (i \in 1 .. n \/ i = n + 1) /\ (i \in 1 .. n => i \in 1 .. n + 1)
  BY SMT
<1>10. \A i \in 1 .. n + 1 : Seen'[i] = Append(Seen, r)[i]
  <2>1. \A i \in 1 .. n + 1 : Seen'[i] = [native |-> calls'[i].native, seen |-> calls'[i].seen]
    BY <1>5 DEF Seen
  <2>2. \A i \in 1 .. n : Seen[i] = [native |-> calls[i].native, seen |-> calls[i].seen]
    BY <1>3 DEF Seen
  <2>3. calls'[n + 1].native = Unknown /\ calls'[n + 1].seen = Unknown
    BY <1>5 DEF NewCall
  <2> QED
    BY <1>4, <1>5, <1>8, <1>9, <2>1, <2>2, <2>3
<1>11. Seen' = Append(Seen, r)
  <2> HIDE DEF HostCall, Seen
  <2> QED BY <1>7, <1>8, <1>10, SeqEqual
<1>12. Len(Seen) < MaxCalls /\ UNCHANGED amount
  BY <1>2 DEF Send
<1> QED
  BY <1>4, <1>11, <1>12 DEF Host!Call, Host!Unknown, Unknown, Seen

LEMMA OwnEndsIsTransmit ==
    IInv /\ OwnEnds => \E k \in 1 .. Len(Seen), o \in Host!Outcome : Host!Transmit(k, o)
<1> SUFFICES ASSUME IInv, OwnEnds
             PROVE  \E k \in 1 .. Len(Seen), o \in Host!Outcome : Host!Transmit(k, o)
  OBVIOUS
<1>1. TypeOK /\ stack # <<>> /\ Top.at = "calling" /\ Agrees(Top)
  BY OnTop DEF OwnEnds, IInv
<1>2. PICK k \in 1 .. Len(calls) : /\ Top.call = k
                                   /\ calls[k].native = Unknown /\ calls[k].seen = Unknown
  BY <1>1 DEF IInv, Agrees, WayIn
<1>3. PICK o \in {"ok", "error"} :
          /\ Ends(o, Done(k, o))
          /\ amount' = IF o = "ok" THEN amount + 1 ELSE amount
  BY <1>2 DEF OwnEnds, Done
<1>4. /\ Done(k, o) \in Seq(Call) /\ Len(Done(k, o)) = Len(calls)
      /\ Done(k, o)[k].native = o /\ Done(k, o)[k].seen = Unknown
      /\ \A c \in 1 .. Len(calls) : c # k => Done(k, o)[c] = calls[c]
  BY <1>1, <1>2, OwnHistory
<1>5. o \in Outcome
  BY DEF Outcome
<1>6. Seen' = [Seen EXCEPT ![k] = [native |-> o, seen |-> IF Outermost THEN o ELSE Unknown]]
  BY <1>1, <1>2, <1>3, <1>4, <1>5, EndsSeen
<1>7. Seen[k].native = Unknown
  BY <1>2 DEF Seen
<1>8. (IF Outermost THEN o ELSE Unknown) \in {Unknown, o}
  OBVIOUS
<1>9. Len(Seen) = Len(calls)
  BY <1>1, SeenIsSeq
<1>10. Host!Transmit(k, o)
  BY <1>3, <1>6, <1>7, <1>8 DEF Host!Transmit, Host!Unknown, Unknown, Seen
<1> QED
  BY <1>9, <1>10 DEF Host!Outcome

LEMMA EmitEndsReturns ==
    IInv /\ EmitEnds => \/ \E k \in 1 .. Len(Seen) : Host!Return(k)
                        \/ UNCHANGED <<amount, Seen>>
<1> SUFFICES ASSUME IInv, EmitEnds
             PROVE  \/ \E k \in 1 .. Len(Seen) : Host!Return(k)
                    \/ UNCHANGED <<amount, Seen>>
  OBVIOUS
<1>1. TypeOK /\ stack # <<>> /\ Top.at = "emitting" /\ UNCHANGED amount
  BY DEF EmitEnds, IInv
<1>2. CASE Top.call = 0
  BY <1>1, <1>2 DEF EmitEnds, Seen
<1>3. CASE Top.call # 0
  <2>1. PICK k \in 1 .. Len(calls) : /\ Top.call = k /\ Top.outcome \in Outcome
                                     /\ calls[k].native = Top.outcome
                                     /\ calls[k].seen = Unknown
    BY <1>1, <1>3, EmittedCall
  <2>2. Ends(Top.outcome, calls) /\ calls \in Seq(Call)
    BY <1>3, Typing DEF EmitEnds, emitSafe, IInv
  <2>3. Seen' = [Seen EXCEPT ![k] = [native |-> Top.outcome,
                                     seen |-> IF Outermost THEN Top.outcome ELSE Unknown]]
    BY <1>1, <2>1, <2>2, EndsSeen
  <2>4. k \in DOMAIN Seen /\ Seen[k] = [native |-> Top.outcome, seen |-> Unknown]
    BY <2>1 DEF Seen
  <2>5. CASE Outermost
    <3>1. Seen' = [Seen EXCEPT ![k].seen = Seen[k].native]
      <4>1. [Seen[k] EXCEPT !.seen = Seen[k].native]
               = [native |-> Top.outcome, seen |-> Top.outcome]
        BY <2>4
      <4>2. Seen' = [Seen EXCEPT ![k] = [Seen[k] EXCEPT !.seen = Seen[k].native]]
        BY <2>3, <2>5, <4>1
      <4> QED
        BY <2>4, <4>2
    <3>2. Seen[k].native # Unknown /\ Seen[k].seen = Unknown
      BY <2>1, <2>4 DEF Outcome, Unknown
    <3>3. Host!Return(k)
      BY <1>1, <3>1, <3>2 DEF Host!Return, Host!Unknown, Unknown, Seen
    <3>4. Len(Seen) = Len(calls)
      BY <1>1, SeenIsSeq
    <3> QED
      BY <3>3, <3>4
  <2>6. CASE ~Outermost
    BY <1>1, <2>3, <2>4, <2>6 DEF Seen
  <2> QED
    BY <2>5, <2>6
<1> QED
  BY <1>2, <1>3

(* No user of the object can tell it from one without taps, whatever the   *)
(* sinks do and in whatever order taps come and go (README.md, "The taps   *)
(* observe; they do not rewrite"; webrtc.ts:6-9) - while now() works.      *)
THEOREM Implementation == Spec => ImplementsHost
<1>1. Init => Host!Init
  <2> SUFFICES ASSUME Init PROVE Host!Init
    OBVIOUS
  <2>1. Len(calls) = 0 /\ 1 .. 0 = {}
    BY EmptySeq, SMT DEF Init
  <2>2. amount = 0 /\ TypeOK
    BY InitInv DEF Init, IInv
  <2>3. Seen \in Seq(HostCall) /\ Len(Seen) = 0
    BY <2>1, <2>2, SeenIsSeq
  <2>4. Seen = <<>>
    <3> HIDE DEF Seen, HostCall
    <3> QED BY <2>3, EmptySeq
  <2> QED
    BY <2>2, <2>4 DEF Host!Init, Seen
<1>2. IInv /\ [Next]_vars => [Host!Next]_Host!hostVars
  <2> SUFFICES ASSUME IInv, [Next]_vars
               PROVE  Host!Next \/ UNCHANGED <<amount, Seen>>
    BY DEF Host!hostVars, Seen
  <2>1. ASSUME NEW t \in Tap, Install(t) PROVE UNCHANGED <<amount, Seen>>
    BY <2>1 DEF Install, Seen
  <2>2. ASSUME NEW t \in Tap, Restore(t) PROVE UNCHANGED <<amount, Seen>>
    BY <2>2 DEF Restore, Seen
  <2>3. ASSUME NEW t \in Tap, Hear(t) PROVE UNCHANGED <<amount, Seen>>
    BY <2>3 DEF Hear, Seen
  <2>4. CASE Send
    BY <2>4, SendIsCall DEF Host!Next
  <2>5. CASE OwnEnds
    <3>1. PICK k \in 1 .. Len(Seen), o \in Host!Outcome : Host!Transmit(k, o)
      BY <2>5, OwnEndsIsTransmit
    <3> QED
      BY <3>1 DEF Host!Next, Seen
  <2>6. CASE Emit
    BY <2>6 DEF Emit, Seen
  <2>7. CASE EmitEnds
    BY <2>7, EmitEndsReturns DEF Host!Next, Seen
  <2>8. CASE Drain
    BY <2>8 DEF Drain, Host!Next, Host!Drain, Seen
  <2>9. CASE UNCHANGED vars
    BY <2>9 DEF vars, Seen
  <2> QED
    BY <2>1, <2>2, <2>3, <2>4, <2>5, <2>6, <2>7, <2>8, <2>9 DEF Next
<1> QED
  BY <1>1, <1>2, Invariance, PTL DEF Spec, ImplementsHost, Host!Spec

-----------------------------------------------------------------------------
(* The method that the i-th live tap found: the wrapper of the one before. *)
Prior(i) == IF i = 1 THEN Own ELSE live[i - 1]

NewestFirst(s, n) == Len(s) = n /\ \A j \in 1 .. n : s[j] = live[n + 1 - j]

(* While every restore() undid the newest tap, the live taps hang together *)
(* through what they found.                                                *)
Threaded ==
    LET n == Len(live)
    IN  /\ current = Prior(n + 1)
        /\ \A i \in 1 .. n : orig[live[i]] = Prior(i)
        /\ \A i \in 1 .. n : NewestFirst(chain[live[i]], i)
        /\ \A i, j \in 1 .. n : i # j => live[i] # live[j]
        /\ removable => listening = {live[i] : i \in 1 .. n}

WInv ==
    /\ TypeOK
    /\ chain[Own] = <<>>
    /\ nested => Threaded

LEMMA LiveTyping ==
    ASSUME TypeOK
    PROVE  live \in Seq(Tap) /\ Len(live) \in Nat /\ \A i \in 1 .. Len(live) : live[i] \in Tap
BY LenProperties, ElementOfSeq DEF TypeOK

(* A call goes through the live taps.                                      *)
LEMMA CurrentChain == WInv /\ nested => NewestFirst(chain[current], Len(live))
<1> SUFFICES ASSUME WInv, nested PROVE NewestFirst(chain[current], Len(live))
  OBVIOUS
<1>1. PICK n \in Nat : n = Len(live)
  BY LiveTyping DEF WInv
<1>2. current = Prior(n + 1) /\ chain[Own] = <<>>
  BY <1>1 DEF WInv, Threaded
<1>3. CASE n = 0
  <2>1. n + 1 = 1 /\ Len(<<>>) = 0 /\ \A j \in 1 .. n : FALSE
    BY <1>3, SMT
  <2> QED
    BY <1>1, <1>2, <1>3, <2>1 DEF Prior, NewestFirst
<1>4. CASE n # 0
  <2>1. n + 1 # 1 /\ (n + 1) - 1 = n /\ n \in 1 .. n
    BY <1>4, SMT
  <2>2. current = live[n]
    BY <1>2, <2>1 DEF Prior
  <2> QED
    BY <1>1, <2>1, <2>2 DEF WInv, Threaded
<1> QED
  BY <1>3, <1>4

LEMMA InstallThreads ==
    ASSUME WInv, NEW t \in Tap, Install(t), nested
    PROVE  Threaded'
<1>1. TypeOK /\ live \in Seq(Tap) /\ \A i \in 1 .. Len(live) : live[i] \in Tap
  BY LiveTyping DEF WInv
<1>2. PICK n \in Nat : n = Len(live)
  BY LiveTyping DEF WInv
<1>3. /\ Len(live') = n + 1
      /\ \A i \in 1 .. n : live'[i] = live[i]
      /\ live'[n + 1] = t
  BY <1>1, <1>2, AppendProperties DEF Install
<1>4. /\ \A i \in 1 .. n + 1 : i \in 1 .. n \/ i = n + 1
      /\ \A i \in 1 .. n : i \in 1 .. n + 1 /\ i # n + 1
      /\ \A i \in 1 .. n : i # 1 => i - 1 \in 1 .. n
      /\ n + 1 \in 1 .. n + 1 /\ (n + 1) - 1 = n /\ (n + 1) + 1 # 1 /\ ((n + 1) + 1) - 1 = n + 1
      /\ (n = 0 <=> n + 1 = 1) /\ (n # 0 => n \in 1 .. n)
  BY SMT
<1>5. /\ current = Prior(n + 1)
      /\ \A i \in 1 .. n : orig[live[i]] = Prior(i) /\ NewestFirst(chain[live[i]], i)
      /\ \A i, j \in 1 .. n : i # j => live[i] # live[j]
      /\ removable => listening = {live[i] : i \in 1 .. n}
  BY <1>2 DEF WInv, Threaded
<1>6. \A i \in 1 .. n : live[i] \in Tap /\ live[i] # t
  <2>1. \A i \in 1 .. n : Prior(i) \in Tap \union {Own}
    BY <1>1, <1>2, <1>4 DEF Prior
  <2> QED
    BY <1>1, <1>2, <1>5, <2>1, TapAssumption DEF Install
<1>7. \A i \in 1 .. n + 1 : Prior(i)' = Prior(i)
  BY <1>3, <1>4 DEF Prior
<1>8. (current = Prior(Len(live) + 1))'
  BY <1>3, <1>4 DEF Install, Prior
<1>9. \A i \in 1 .. n + 1 : orig'[live'[i]] = Prior(i)'
  <2>1. orig'[t] = current /\ \A f \in Tap : f # t => orig'[f] = orig[f]
    BY <1>1 DEF Install, TypeOK
  <2> QED
    BY <1>3, <1>4, <1>5, <1>6, <1>7, <2>1
<1>10. \A i \in 1 .. n + 1 : NewestFirst(chain[live[i]], i)'
  <2>1. \A f \in Tap : f # t => chain'[f] = chain[f]
    BY <1>1 DEF Install, TypeOK
  <2>2. chain'[t] = <<t>> \o chain[current]
    BY <1>1 DEF Install, TypeOK
  <2>3. NewestFirst(chain[current], n) /\ chain[current] \in Seq(Tap)
    BY <1>1, <1>2, CurrentChain DEF TypeOK
  <2>4. ASSUME NEW i \in 1 .. n
        PROVE  NewestFirst(chain[live[i]], i)'
    <3>1. chain'[live'[i]] = chain[live[i]] /\ NewestFirst(chain[live[i]], i)
      BY <1>3, <1>5, <1>6, <2>1
    <3>2. \A j \in 1 .. i : i + 1 - j \in 1 .. n
      BY SMT
    <3> QED
      BY <1>3, <3>1, <3>2 DEF NewestFirst
  <2>5. NewestFirst(chain[live[n + 1]], n + 1)'
    <3>1. <<t>> \in Seq(Tap) /\ Len(<<t>>) = 1 /\ <<t>>[1] = t
      OBVIOUS
    <3>2. PICK s \in Seq(Tap) : s = chain[current]
      BY <2>3
    <3>3. Len(s) = n /\ \A j \in 1 .. n : s[j] = live[n + 1 - j]
      BY <2>3, <3>2 DEF NewestFirst
    <3>4. PICK u \in Seq(Tap) : u = <<t>>
      BY <3>1
    <3>5. /\ Len(u \o s) = Len(u) + Len(s)
          /\ \A j \in 1 .. Len(u) + Len(s) :
                (u \o s)[j] = IF j <= Len(u) THEN u[j] ELSE s[j - Len(u)]
      BY ConcatProperties
    <3>6. Len(u) = 1 /\ u[1] = t
      BY <3>1, <3>4
    <3>7. 1 + n = n + 1 /\ n \in Nat
      BY SMT
    <3>8. Len(u \o s) = n + 1
      BY <3>3, <3>5, <3>6, <3>7
    <3>9. ASSUME NEW j \in 1 .. n + 1
          PROVE  (u \o s)[j] = live'[(n + 1) + 1 - j]
      <4>1. CASE j = 1
        <5>1. (n + 1) + 1 - j = n + 1 /\ j <= 1
          BY <4>1, SMT
        <5> QED
          BY <1>3, <3>3, <3>5, <3>6, <3>7, <4>1, <5>1
      <4>2. CASE j # 1
        <5>1. /\ ~(j <= 1) /\ j - 1 \in 1 .. n
              /\ n + 1 - (j - 1) = (n + 1) + 1 - j /\ (n + 1) + 1 - j \in 1 .. n
          BY <4>2, SMT
        <5>2. (u \o s)[j] = s[j - 1]
          BY <3>3, <3>5, <3>6, <3>7, <5>1
        <5>3. s[j - 1] = live[(n + 1) + 1 - j]
          BY <3>3, <5>1
        <5> QED
          BY <1>3, <5>1, <5>2, <5>3
      <4> QED
        BY <4>1, <4>2
    <3>10. chain'[live'[n + 1]] = u \o s
      BY <1>3, <2>2, <3>2, <3>4
    <3> QED
      BY <3>8, <3>9, <3>10 DEF NewestFirst
  <2> QED
    BY <1>4, <2>4, <2>5
<1>11. \A i, j \in 1 .. n + 1 : i # j => live'[i] # live'[j]
  BY <1>3, <1>4, <1>5, <1>6
<1>12. removable' => listening' = {live'[i] : i \in 1 .. n + 1}
  BY <1>3, <1>4, <1>5 DEF Install
<1> QED
  BY <1>3, <1>8, <1>9, <1>10, <1>11, <1>12 DEF Threaded

LEMMA RestoreThreads ==
    ASSUME WInv, NEW t \in Tap, Restore(t), nested'
    PROVE  Threaded'
<1>1. TypeOK /\ live \in Seq(Tap) /\ \A i \in 1 .. Len(live) : live[i] \in Tap
  BY LiveTyping DEF WInv
<1>2. PICK n \in Nat : n = Len(live)
  BY LiveTyping DEF WInv
<1>3. /\ Newest(t) /\ live' = SubSeq(live, 1, Len(live) - 1) /\ nested
      /\ current' = orig[t] /\ (removable => listening' = listening \ {t})
      /\ UNCHANGED <<orig, removable, chain>>
  BY DEF Restore, Unwrapped
<1>4. n # 0 /\ live[n] = t
  BY <1>1, <1>2, <1>3, EmptySeq DEF Newest
<1>5. /\ n - 1 \in Int /\ 1 \in Int /\ n \in 1 .. n /\ (n - 1) + 1 = n
      /\ \A i \in 1 .. n - 1 : i \in 1 .. n /\ i # n /\ 1 + i - 1 = i
      /\ \A i \in 1 .. n : i \in 1 .. n - 1 \/ i = n
      /\ (n - 1) - 1 + 1 = n - 1
      /\ (IF 1 <= n - 1 THEN (n - 1) - 1 + 1 ELSE 0) = n - 1
      /\ \A i \in 1 .. n : i # 1 => i - 1 \in 1 .. n - 1
  BY <1>4, SMT
<1>6. Len(live') = n - 1 /\ \A i \in 1 .. n - 1 : live'[i] = live[i]
  <2>1. PICK m \in Int : m = n - 1
    BY <1>5
  <2>2. \A i \in 1 .. m : live[i] \in Tap
    BY <1>1, <1>2, <1>5, <2>1
  <2>3. /\ Len(SubSeq(live, 1, m)) = IF 1 <= m THEN m - 1 + 1 ELSE 0
        /\ \A i \in 1 .. m - 1 + 1 : SubSeq(live, 1, m)[i] = live[1 + i - 1]
    BY <1>5, <2>2, SubSeqProperties
  <2> QED
    BY <1>2, <1>3, <1>5, <2>1, <2>3
<1>7. /\ \A i \in 1 .. n : orig[live[i]] = Prior(i) /\ NewestFirst(chain[live[i]], i)
      /\ \A i, j \in 1 .. n : i # j => live[i] # live[j]
      /\ removable => listening = {live[i] : i \in 1 .. n}
  BY <1>2, <1>3 DEF WInv, Threaded
<1>8. \A i \in 1 .. n : Prior(i)' = Prior(i)
  BY <1>5, <1>6 DEF Prior
<1>9. current' = Prior((n - 1) + 1)'
  BY <1>3, <1>4, <1>5, <1>7, <1>8
<1>10. \A i \in 1 .. n - 1 : orig'[live'[i]] = Prior(i)'
  BY <1>3, <1>5, <1>6, <1>7, <1>8
<1>11. ASSUME NEW i \in 1 .. n - 1
       PROVE  NewestFirst(chain[live[i]], i)'
  <2>1. chain'[live'[i]] = chain[live[i]] /\ NewestFirst(chain[live[i]], i)
    BY <1>3, <1>5, <1>6, <1>7
  <2>2. \A j \in 1 .. i : i + 1 - j \in 1 .. n - 1
    BY SMT
  <2> QED
    BY <1>6, <2>1, <2>2 DEF NewestFirst
<1>12. \A i, j \in 1 .. n - 1 : i # j => live'[i] # live'[j]
  BY <1>5, <1>6, <1>7
<1>13. removable' => listening' = {live'[i] : i \in 1 .. n - 1}
  <2> SUFFICES ASSUME removable PROVE listening' = {live'[i] : i \in 1 .. n - 1}
    BY <1>3
  <2>1. \A i \in 1 .. n - 1 : live'[i] = live[i] /\ live[i] # t /\ i \in 1 .. n
    BY <1>4, <1>5, <1>6, <1>7
  <2>2. \A x \in listening' : \E i \in 1 .. n - 1 : x = live'[i]
    <3> SUFFICES ASSUME NEW x \in listening' PROVE \E i \in 1 .. n - 1 : x = live'[i]
      OBVIOUS
    <3>1. PICK i \in 1 .. n : x = live[i] /\ x # t
      BY <1>3, <1>7
    <3>2. i \in 1 .. n - 1
      BY <1>4, <1>5, <3>1
    <3> QED
      BY <2>1, <3>1, <3>2
  <2>3. \A i \in 1 .. n - 1 : live'[i] \in listening'
    BY <1>3, <1>7, <2>1
  <2> QED
    BY <2>2, <2>3
<1> QED
  BY <1>6, <1>9, <1>10, <1>11, <1>12, <1>13 DEF Threaded

(* Taps that are undone in the reverse order leave the object as they      *)
(* found it, however many there are (webrtc.ts:221-226).                   *)
THEOREM Restores == Spec => []WrappedByLive
<1>1. Init => WInv
  <2> SUFFICES ASSUME Init PROVE WInv
    OBVIOUS
  <2>1. TypeOK
    BY InitInv DEF IInv
  <2>2. Len(live) = 0 /\ 0 + 1 = 1 /\ \A i \in 1 .. 0 : FALSE
    BY SMT DEF Init
  <2>3. current = Prior(Len(live) + 1) /\ listening = {live[i] : i \in 1 .. Len(live)}
    BY <2>2 DEF Init, Prior
  <2>4. Threaded
    BY <2>2, <2>3 DEF Threaded
  <2> QED
    BY <2>1, <2>4 DEF Init, WInv
<1>2. WInv /\ TypeOK' /\ [Next]_vars => WInv'
  <2> SUFFICES ASSUME WInv, TypeOK', [Next]_vars PROVE WInv'
    OBVIOUS
  <2>1. ASSUME NEW t \in Tap, Install(t) PROVE WInv'
    <3>1. chain'[Own] = chain[Own] /\ UNCHANGED nested
      BY <2>1, TapAssumption DEF Install, WInv, TypeOK
    <3> QED
      BY <2>1, <3>1, InstallThreads DEF WInv
  <2>2. ASSUME NEW t \in Tap, Restore(t) PROVE WInv'
    <3>1. UNCHANGED chain
      BY <2>2 DEF Restore
    <3> QED
      BY <2>2, <3>1, RestoreThreads DEF WInv
  <2>3. CASE UNCHANGED wiring
    <3>1. UNCHANGED <<current, orig, removable, listening, chain, live, nested>>
      BY <2>3 DEF wiring
    <3>2. \A i : Prior(i)' = Prior(i)
      BY <3>1 DEF Prior
    <3>3. \A i \in 1 .. Len(live) : NewestFirst(chain[live[i]], i)' <=> NewestFirst(chain[live[i]], i)
      BY <3>1 DEF NewestFirst
    <3>4. Threaded => Threaded'
      BY <3>1, <3>2, <3>3 DEF Threaded
    <3> QED
      BY <3>1, <3>4 DEF WInv
  <2> QED
    BY <2>1, <2>2, <2>3
       DEF Next, vars, Hear, Send, OwnEnds, Emit, EmitEnds, Drain
<1>3. WInv => WrappedByLive
  <2> SUFFICES ASSUME WInv, nested PROVE WrappedByLive
    BY DEF WrappedByLive
  <2>1. PICK n \in Nat : n = Len(live)
    BY LiveTyping DEF WInv
  <2>2. PICK s \in Seq(Tap) : s = chain[current]
    BY DEF WInv, TypeOK
  <2>3. Len(s) = n /\ \A j \in 1 .. n : s[j] = live[n + 1 - j]
    BY <2>1, <2>2, CurrentChain DEF NewestFirst
  <2>4. s \in [1 .. n -> Tap]
    BY <2>3, LenProperties
  <2>5. s = [i \in 1 .. n |-> live[n + 1 - i]]
    BY <2>3, <2>4
  <2> QED
    BY <2>1, <2>2, <2>5 DEF WrappedByLive, WInv, Threaded
<1> QED
  BY <1>1, <1>2, <1>3, TypeCorrect, PTL DEF Spec

-----------------------------------------------------------------------------
(* What the taps report. The frames of a call are the wrappers it went     *)
(* through, from the outermost in; the ones past the innermost open frame  *)
(* have reported it, and no other has.                                     *)

Distinct(c) == \A d, e \in 1 .. Len(c) : c[d] = c[e] => d = e

(* No wrapper is found twice on the way in: each tap is installed once.    *)
ChainsInstalled ==
    \A f \in Tap \union {Own} :
        Distinct(chain[f]) /\ \A d \in 1 .. Len(chain[f]) : orig[chain[f][d]] # None

(* f is the d-th method that call k goes through.                          *)
AtDepth(k, f, d) ==
    /\ d \in 1 .. Len(calls[k].taps) + 1
    /\ f = IF d = Len(calls[k].taps) + 1 THEN Own ELSE calls[k].taps[d]

Reports(k, e) == \E i \in EventsOf(k) : events[i].tap = calls[k].taps[e]

(* What has been reported of call k while a frame at depth d is innermost. *)
Behind(k, d, at) ==
    \A e \in 1 .. Len(calls[k].taps) : Reports(k, e) <=> (e > d \/ (e = d /\ at = "emitting"))

OutermostAt(i) == i = 1 \/ stack[i - 1].call # stack[i].call
InnermostAt(i) == i = Len(stack) \/ stack[i + 1].call # stack[i].call

(* The frames of a call lie one on the other, in the order of its chain.   *)
Stacked ==
    /\ \A i \in 1 .. Len(stack) :
          stack[i].call # 0 /\ OutermostAt(i) => AtDepth(stack[i].call, stack[i].fn, 1)
    /\ \A i \in 1 .. Len(stack) - 1 :
          stack[i].call # 0 /\ stack[i].call = stack[i + 1].call =>
              \E d \in Nat : /\ AtDepth(stack[i].call, stack[i].fn, d)
                             /\ AtDepth(stack[i].call, stack[i + 1].fn, d + 1)

Progressing ==
    \A i \in 1 .. Len(stack) : \A d \in Nat :
        stack[i].call # 0 /\ InnermostAt(i) /\ AtDepth(stack[i].call, stack[i].fn, d) =>
            Behind(stack[i].call, d, stack[i].at)

ReachesOwn == stack # <<>> /\ Top.at = "calling" => Top.fn = Own

Finished ==
    \A k \in 1 .. Len(calls) : calls[k].seen # Unknown =>
        \A e \in 1 .. Len(calls[k].taps) : Reports(k, e)

Truthful ==
    \A k \in 1 .. Len(calls) : \A i \in EventsOf(k) :
        /\ \E d \in 1 .. Len(calls[k].taps) : events[i].tap = calls[k].taps[d]
        /\ (events[i].kind = "out") <=> (calls[k].native = "ok")

InnerFirst ==
    \A k \in 1 .. Len(calls) : \A i, j \in EventsOf(k) : \A d, e \in 1 .. Len(calls[k].taps) :
        i < j /\ events[i].tap = calls[k].taps[d] /\ events[j].tap = calls[k].taps[e] => d > e

Told ==
    /\ \A k \in 1 .. Len(calls) : Distinct(calls[k].taps)
    /\ Stacked /\ Progressing /\ ReachesOwn /\ Finished /\ Truthful /\ InnerFirst

(* A chain with a wrapper put before it.                                   *)
LEMMA Prepended ==
    ASSUME NEW S, NEW t \in S, NEW c \in Seq(S), NEW n \in Nat, n = Len(c)
    PROVE  /\ Len(<<t>> \o c) = n + 1
           /\ \A j \in 1 .. n + 1 : (<<t>> \o c)[j] = IF j = 1 THEN t ELSE c[j - 1]
<1>1. PICK u : u = <<t>>
  OBVIOUS
<1>2. u \in Seq(S) /\ Len(u) = 1 /\ u[1] = t
  BY <1>1
<1>3. /\ Len(u \o c) = Len(u) + Len(c)
      /\ \A j \in 1 .. Len(u) + Len(c) :
            (u \o c)[j] = IF j <= Len(u) THEN u[j] ELSE c[j - Len(u)]
  BY <1>2, ConcatProperties
<1>4. Len(u) + Len(c) = n + 1
  BY <1>2, SMT
<1>5. ASSUME NEW j \in 1 .. n + 1 PROVE (u \o c)[j] = IF j = 1 THEN t ELSE c[j - 1]
  <2>1. (u \o c)[j] = IF j <= 1 THEN u[j] ELSE c[j - 1]
    BY <1>2, <1>3, <1>4
  <2>2. j <= 1 <=> j = 1
    BY SMT
  <2> QED
    BY <1>2, <2>1, <2>2
<1> QED
  BY <1>1, <1>3, <1>4, <1>5

LEMMA InstallChains ==
    ASSUME IInv, ChainsInstalled, NEW t \in Tap, Install(t)
    PROVE  ChainsInstalled'
<1>1. TypeOK /\ t # Own /\ current \in Tap \union {Own} /\ current # None
  BY TapAssumption DEF IInv, TypeOK
<1>2. /\ orig[t] = None /\ orig'[t] = current
      /\ \A x \in Tap : x # t => orig'[x] = orig[x]
      /\ chain'[t] = <<t>> \o chain[current]
      /\ \A f \in Tap \union {Own} : f # t => chain'[f] = chain[f]
  BY <1>1 DEF Install, TypeOK
<1>3. ASSUME NEW f \in Tap \union {Own}, NEW d \in 1 .. Len(chain[f])
      PROVE  chain[f][d] \in Tap /\ orig'[chain[f][d]] # None /\ chain[f][d] # t
  <2>1. chain[f] \in Seq(Tap)
    BY <1>1 DEF TypeOK
  <2>2. chain[f][d] \in Tap /\ orig[chain[f][d]] # None
    BY <2>1, ElementOfSeq DEF ChainsInstalled
  <2> QED
    BY <1>1, <1>2, <2>2
<1>4. ASSUME NEW f \in Tap \union {Own}, f # t
      PROVE  /\ Distinct(chain[f])' /\ \A d \in 1 .. Len(chain'[f]) : orig'[chain'[f][d]] # None
  BY <1>2, <1>3, <1>4 DEF ChainsInstalled, Distinct
<1>5. /\ Distinct(chain[t])' /\ \A d \in 1 .. Len(chain'[t]) : orig'[chain'[t][d]] # None
  <2>1. PICK c \in Seq(Tap) : c = chain[current]
    BY <1>1 DEF TypeOK
  <2>2. PICK n \in Nat : n = Len(c)
    BY <2>1, LenProperties
  <2>3. /\ \A j \in 1 .. n + 1 : j # 1 => j - 1 \in 1 .. n
        /\ \A i, j \in 1 .. n + 1 : i - 1 = j - 1 => i = j
    BY SMT
  <2>4. PICK l : l = <<t>> \o c
    OBVIOUS
  <2>5. l = chain'[t]
    BY <1>2, <2>1, <2>4
  <2>6. Len(l) = n + 1 /\ \A j \in 1 .. n + 1 : l[j] = IF j = 1 THEN t ELSE c[j - 1]
    BY <2>2, <2>4, Prepended
  <2>7. \A d \in 1 .. n : c[d] # t /\ orig'[c[d]] # None
    BY <1>1, <1>3, <2>1, <2>2
  <2>8. \A d, e \in 1 .. n : c[d] = c[e] => d = e
    BY <1>1, <2>1, <2>2 DEF ChainsInstalled, Distinct
  <2>9. \A d, e \in 1 .. n + 1 : l[d] = l[e] => d = e
    <3> SUFFICES ASSUME NEW d \in 1 .. n + 1, NEW e \in 1 .. n + 1, l[d] = l[e] PROVE d = e
      OBVIOUS
    <3>1. CASE d = 1 \/ e = 1
      BY <2>3, <2>6, <2>7, <3>1
    <3>2. CASE d # 1 /\ e # 1
      <4>1. d - 1 = e - 1
        BY <2>3, <2>6, <2>8, <3>2
      <4> QED
        BY <2>3, <4>1
    <3> QED
      BY <3>1, <3>2
  <2>10. \A d \in 1 .. n + 1 : orig'[l[d]] # None
    <3>1. orig'[t] # None
      BY <1>1, <1>2
    <3> SUFFICES ASSUME NEW d \in 1 .. n + 1 PROVE orig'[l[d]] # None
      OBVIOUS
    <3>2. CASE d = 1
      <4>1. l[d] = t
        BY <2>6, <3>2
      <4> QED
        BY <3>1, <4>1
    <3>3. CASE d # 1
      <4>1. l[d] = c[d - 1] /\ d - 1 \in 1 .. n
        BY <2>3, <2>6, <3>3
      <4> QED
        BY <2>7, <4>1
    <3> QED
      BY <3>2, <3>3
  <2> QED
    BY <2>5, <2>6, <2>9, <2>10 DEF Distinct
<1> QED
  BY <1>4, <1>5 DEF ChainsInstalled

LEMMA ChainsStep == IInv /\ ChainsInstalled /\ [Next]_vars => ChainsInstalled'
<1> SUFFICES ASSUME IInv, ChainsInstalled, [Next]_vars PROVE ChainsInstalled'
  OBVIOUS
<1>1. CASE UNCHANGED <<chain, orig>>
  BY <1>1 DEF ChainsInstalled, Distinct
<1>2. ASSUME NEW t \in Tap, Install(t) PROVE ChainsInstalled'
  BY <1>2, InstallChains
<1> QED
  BY <1>1, <1>2 DEF Next, vars, wiring, Restore, Hear, Send, OwnEnds, Emit, EmitEnds, Drain

-----------------------------------------------------------------------------
LEMMA CallTyping ==
    ASSUME IInv, NEW k \in 1 .. Len(calls)
    PROVE  /\ calls[k].taps \in Seq(Tap) /\ Len(calls[k].taps) \in Nat
           /\ \A d \in 1 .. Len(calls[k].taps) : calls[k].taps[d] \in Tap /\ calls[k].taps[d] # Own
<1>1. calls[k].taps \in Seq(Tap)
  BY Typing DEF IInv, Call
<1> QED
  BY <1>1, LenProperties, ElementOfSeq, TapAssumption

(* A method comes once on the way in.                                      *)
LEMMA DepthUnique ==
    ASSUME IInv, NEW k \in 1 .. Len(calls), Distinct(calls[k].taps),
           NEW f, NEW d, NEW e, AtDepth(k, f, d), AtDepth(k, f, e)
    PROVE  d = e
<1>1. PICK n \in Nat : n = Len(calls[k].taps) /\ \A x \in 1 .. n : calls[k].taps[x] # Own
  BY CallTyping
<1>2. \A x \in 1 .. n + 1 : x = n + 1 \/ x \in 1 .. n
  BY SMT
<1> QED
  BY <1>1, <1>2 DEF AtDepth, Distinct

LEMMA OpenCall ==
    ASSUME IInv, NEW i \in 1 .. Len(stack), stack[i].call # 0
    PROVE  stack[i].call \in 1 .. Len(calls) /\ calls[stack[i].call].seen = Unknown
BY DEF IInv, FramesAgree, Agrees

(* Every frame of a call has its depth.                                    *)
LEMMA FrameDepth ==
    ASSUME IInv, Told, NEW i \in 1 .. Len(stack), NEW k, k = stack[i].call, k # 0
    PROVE  \E d \in Nat : /\ AtDepth(k, stack[i].fn, d)
                          /\ OutermostAt(i) => d = 1
                          /\ ~OutermostAt(i) => AtDepth(k, stack[i - 1].fn, d - 1)
<1>1. CASE OutermostAt(i)
  BY <1>1 DEF Told, Stacked
<1>2. CASE ~OutermostAt(i)
  <2>1. Len(stack) \in Nat
    BY Typing DEF IInv
  <2>2. i - 1 \in 1 .. Len(stack) - 1 /\ (i - 1) + 1 = i
    BY <1>2, <2>1, SMT DEF OutermostAt
  <2>3. PICK j \in 1 .. Len(stack) - 1 : j = i - 1 /\ j + 1 = i
    BY <2>2
  <2>4. stack[j].call = k
    BY <1>2, <2>3 DEF OutermostAt
  <2>5. PICK d \in Nat : AtDepth(k, stack[j].fn, d) /\ AtDepth(k, stack[j + 1].fn, d + 1)
    BY <2>4, <2>3 DEF Told, Stacked
  <2>6. (d + 1) - 1 = d /\ d + 1 \in Nat
    BY SMT
  <2> QED
    BY <1>2, <2>3, <2>5, <2>6
<1> QED
  BY <1>1, <1>2

(* A call has one innermost frame.                                         *)
LEMMA OneInnermost ==
    ASSUME IInv, stack # <<>>, NEW i \in 1 .. Len(stack), InnermostAt(i), stack[i].call = Top.call
    PROVE  i = Len(stack)
<1>1. PICK n \in Nat \ {0} : n = Len(stack)
  BY OnTop
<1> SUFFICES ASSUME i # n PROVE FALSE
  BY <1>1
<1>2. i + 1 \in 1 .. n /\ n \in 1 .. n /\ i <= i + 1 /\ i + 1 <= n
  BY <1>1, SMT
<1>3. stack[i].call <= stack[i + 1].call /\ stack[i + 1].call <= stack[n].call
  BY <1>1, <1>2 DEF IInv, CallsNest
<1>4. stack[n].call = stack[i].call /\ stack[i + 1].call # stack[i].call
  BY <1>1 DEF InnermostAt, Top
<1>5. PICK a \in Nat, b \in Nat : a = stack[i].call /\ b = stack[i + 1].call
  BY <1>1, <1>2, Typing DEF IInv, Frame
<1> QED
  BY <1>3, <1>4, <1>5, SMT

(* What is told of a call that gets no event and keeps its taps.           *)
LEMMA SameStory ==
    ASSUME NEW k, (EventsOf(k))' = EventsOf(k), calls'[k].taps = calls[k].taps,
           \A i \in EventsOf(k) : events'[i] = events[i]
    PROVE  /\ \A f, d : AtDepth(k, f, d)' <=> AtDepth(k, f, d)
           /\ \A e : Reports(k, e)' <=> Reports(k, e)
           /\ \A d, at : Behind(k, d, at)' <=> Behind(k, d, at)
<1>1. \A f, d : AtDepth(k, f, d)' <=> AtDepth(k, f, d)
  BY DEF AtDepth
<1>2. \A e : Reports(k, e)' <=> Reports(k, e)
  BY DEF Reports
<1>3. \A d, at : Behind(k, d, at)' <=> Behind(k, d, at)
  BY <1>2 DEF Behind
<1> QED
  BY <1>1, <1>2, <1>3

(* A step that only rewires the object or moves its buffer.                *)
LEMMA NothingTold ==
    ASSUME Told, UNCHANGED <<stack, calls, events>>
    PROVE  Told'
<1>1. \A k : (EventsOf(k))' = EventsOf(k)
  BY DEF EventsOf
<1>2. ASSUME NEW k
      PROVE  /\ \A f, d : AtDepth(k, f, d)' <=> AtDepth(k, f, d)
             /\ \A e : Reports(k, e)' <=> Reports(k, e)
             /\ \A d, at : Behind(k, d, at)' <=> Behind(k, d, at)
  BY <1>1, SameStory
<1>3. Stacked'
  <2>1. Stacked
    BY DEF Told
  <2> QED
    BY <2>1 DEF Stacked, OutermostAt, AtDepth
<1>4. Progressing'
  <2> SUFFICES ASSUME NEW i \in 1 .. Len(stack), NEW d \in Nat,
                      stack[i].call # 0, InnermostAt(i)', AtDepth(stack[i].call, stack[i].fn, d)'
               PROVE  Behind(stack[i].call, d, stack[i].at)'
    BY DEF Progressing
  <2>1. PICK c, f, at : c = stack[i].call /\ f = stack[i].fn /\ at = stack[i].at
    OBVIOUS
  <2>2. InnermostAt(i)
    BY DEF InnermostAt
  <2>3. AtDepth(c, f, d)
    BY <2>1 DEF AtDepth
  <2>4. Behind(c, d, at)
    BY <2>1, <2>2, <2>3 DEF Told, Progressing
  <2>5. Behind(c, d, at)'
    BY <1>2, <2>4
  <2> QED
    BY <2>1, <2>5
<1>5. ReachesOwn'
  BY DEF Told, ReachesOwn, Top
<1>6. Finished'
  <2>1. Finished
    BY DEF Told
  <2> QED
    BY <1>2, <2>1 DEF Finished
<1>7. Truthful'
  BY <1>1 DEF Told, Truthful
<1>8. InnerFirst'
  BY <1>1 DEF Told, InnerFirst
<1>9. \A k \in 1 .. Len(calls') : Distinct(calls[k].taps)'
  BY DEF Told, Distinct
<1> QED
  BY <1>3, <1>4, <1>5, <1>6, <1>7, <1>8, <1>9 DEF Told

(* The frames and the history after the innermost frame ended.             *)
LEMMA EndsFrames ==
    ASSUME IInv, stack # <<>>, NEW outcome, NEW h, Ends(outcome, h),
           NEW n \in Nat \ {0}, n = Len(stack)
    PROVE  /\ Len(stack') = n - 1
           /\ \A i \in 1 .. n - 1 : stack'[i].call = stack[i].call /\ stack'[i].fn = stack[i].fn
           /\ \A i \in 1 .. n - 1 : i # n - 1 \/ Outermost => stack'[i] = stack[i]
           /\ ~Outermost => n # 1 /\ stack[n - 1].call = Top.call /\ stack'[n - 1].at = "called"
           /\ Outermost /\ n # 1 => stack[n - 1].call # Top.call
<1>1. /\ Popped \in Seq(Frame) /\ Len(Popped) = n - 1
      /\ \A i \in 1 .. n - 1 : Popped[i] = stack[i]
  BY Pop
<1>2. CASE Outermost
  BY <1>1, <1>2 DEF Ends, Outermost, Below
<1>3. CASE ~Outermost
  <2>1. n # 1 /\ stack[n - 1].call = Top.call
    BY <1>3 DEF Outermost, Below
  <2>2. n - 1 \in 1 .. n - 1 /\ n - 1 \in 1 .. n
    BY <2>1, SMT
  <2>3. stack[n - 1] \in Frame
    BY <2>2, Typing DEF IInv
  <2>4. PICK g : g = [stack[n - 1] EXCEPT !.at = "called", !.outcome = outcome]
    OBVIOUS
  <2>5. g.at = "called" /\ g.call = stack[n - 1].call /\ g.fn = stack[n - 1].fn
    BY <2>3, <2>4 DEF Frame
  <2>6. Popped \in [1 .. n - 1 -> Frame]
    <3> HIDE DEF Frame
    <3> QED BY <1>1, LenProperties
  <2>7. stack' = [Popped EXCEPT ![n - 1] = g]
    <3>1. stack' = [Popped EXCEPT ![n - 1].at = "called", ![n - 1].outcome = outcome]
      BY <1>3 DEF Ends
    <3> HIDE DEF Frame
    <3> QED
      BY <1>1, <2>2, <2>4, <2>6, <3>1
  <2>8. \A i \in 1 .. n - 1 : stack'[i] = IF i = n - 1 THEN g ELSE stack[i]
    <3> HIDE DEF Frame
    <3> QED BY <1>1, <2>6, <2>7
  <2>9. Len(stack') = n - 1
    <3>1. g \in Frame \/ TRUE
      OBVIOUS
    <3>2. DOMAIN stack' = 1 .. n - 1 /\ stack' \in [1 .. n - 1 -> Frame \union {g}]
      <4> HIDE DEF Frame
      <4> QED BY <2>6, <2>7
    <3>3. n - 1 \in Nat
      BY SMT
    <3> HIDE DEF Frame
    <3> QED
      BY <3>2, <3>3, SeqOfFun
  <2> QED
    BY <1>3, <2>1, <2>2, <2>5, <2>8, <2>9
<1> QED
  BY <1>2, <1>3

LEMMA EndsHistory ==
    ASSUME IInv, stack # <<>>, NEW k \in 1 .. Len(calls), Top.call = k,
           NEW h \in Seq(Call), Len(h) = Len(calls), NEW outcome \in Outcome, Ends(outcome, h)
    PROVE  /\ Len(calls') = Len(calls)
           /\ \A c \in 1 .. Len(calls) :
                 /\ calls'[c].taps = h[c].taps /\ calls'[c].native = h[c].native
                 /\ ~(c = k /\ Outermost) => calls'[c].seen = h[c].seen
<1>1. h[k] \in Call /\ k \in 1 .. Len(h) /\ k \in DOMAIN h
  <2> HIDE DEF Call
  <2> QED BY LenProperties, ElementOfSeq
<1>2. CASE Outermost
  <2>1. PICK v : v = [h[k] EXCEPT !.seen = outcome]
    OBVIOUS
  <2>2. v \in Call /\ v.taps = h[k].taps /\ v.native = h[k].native
    <3>1. outcome \in Outcome \union {Unknown}
      OBVIOUS
    <3> QED
      BY <1>1, <2>1, <3>1 DEF Call
  <2>3. calls' = [h EXCEPT ![k] = v]
    BY <1>1, <1>2, <2>1 DEF Ends
  <2>4. /\ Len(calls') = Len(h)
        /\ \A c \in 1 .. Len(h) : calls'[c] = IF c = k THEN v ELSE h[c]
    <3> HIDE DEF Call
    <3> QED BY <1>1, <2>2, <2>3, ExceptSeq
  <2> QED
    BY <1>2, <2>2, <2>4
<1>3. CASE ~Outermost
  BY <1>3 DEF Ends
<1> QED
  BY <1>2, <1>3

(* The end of the innermost frame: the frame below it, or nobody, is the   *)
(* next to report.                                                         *)
LEMMA EndsTells ==
    ASSUME IInv, IInv', Told, stack # <<>>, UNCHANGED events,
           NEW k \in 1 .. Len(calls), Top.call = k, Top.at \in {"calling", "emitting"},
           NEW h \in Seq(Call), Len(h) = Len(calls), NEW outcome \in Outcome,
           \A c \in 1 .. Len(calls) : h[c].taps = calls[c].taps /\ h[c].seen = calls[c].seen,
           \A c \in 1 .. Len(calls) : c # k \/ Top.at = "emitting" => h[c].native = calls[c].native,
           Ends(outcome, h)
    PROVE  Told'
<1>1. PICK n \in Nat \ {0} : n = Len(stack)
  BY OnTop
<1>2. /\ Len(stack') = n - 1
      /\ \A i \in 1 .. n - 1 : stack'[i].call = stack[i].call /\ stack'[i].fn = stack[i].fn
      /\ \A i \in 1 .. n - 1 : i # n - 1 \/ Outermost => stack'[i] = stack[i]
      /\ ~Outermost => n # 1 /\ stack[n - 1].call = k /\ stack'[n - 1].at = "called"
      /\ Outermost /\ n # 1 => stack[n - 1].call # k
  BY <1>1, EndsFrames
<1>3. /\ Len(calls') = Len(calls)
      /\ \A c \in 1 .. Len(calls) :
            /\ calls'[c].taps = calls[c].taps
            /\ c # k \/ Top.at = "emitting" => calls'[c].native = calls[c].native
            /\ ~(c = k /\ Outermost) => calls'[c].seen = calls[c].seen
  BY EndsHistory
<1>4. ASSUME NEW c \in 1 .. Len(calls)
      PROVE  /\ (EventsOf(c))' = EventsOf(c)
             /\ \A f, d : AtDepth(c, f, d)' <=> AtDepth(c, f, d)
             /\ \A e : Reports(c, e)' <=> Reports(c, e)
             /\ \A d, at : Behind(c, d, at)' <=> Behind(c, d, at)
  <2>1. (EventsOf(c))' = EventsOf(c)
    BY DEF EventsOf
  <2> QED
    BY <1>3, <2>1, SameStory
<1>5. /\ n \in 1 .. n /\ (n - 1) + 1 = n /\ k # 0 /\ Top = stack[n]
      /\ \A i \in 1 .. n - 1 : i \in 1 .. n /\ (i # n - 1 => i \in 1 .. (n - 1) - 1)
      /\ \A i \in 1 .. (n - 1) - 1 : i \in 1 .. n - 1 /\ i + 1 \in 1 .. n - 1 /\ i # n - 1
      /\ \A i \in 1 .. n - 1 : i # 1 => i - 1 \in 1 .. n - 1
  <2>1. k # 0
    BY SMT
  <2> QED
    BY <1>1, <2>1, SMT DEF Top
<1>6. PICK d \in Nat :
        /\ AtDepth(k, stack[n].fn, d) /\ (OutermostAt(n) => d = 1)
        /\ ~OutermostAt(n) => AtDepth(k, stack[n - 1].fn, d - 1)
  BY <1>1, <1>5, FrameDepth
<1>7. Behind(k, d, Top.at)
  BY <1>1, <1>5, <1>6 DEF Told, Progressing, InnermostAt
<1>8. PICK m \in Nat : m = Len(calls[k].taps)
  BY CallTyping
<1>9. Top.at = "calling" => d = m + 1
  <2> SUFFICES ASSUME Top.at = "calling" PROVE d = m + 1
    OBVIOUS
  <2>1. Top.fn = Own
    BY DEF Told, ReachesOwn
  <2>2. AtDepth(k, Own, m + 1)
    <3>1. m + 1 \in 1 .. m + 1
      BY SMT
    <3> QED
      BY <1>8, <3>1 DEF AtDepth
  <2> QED
    BY <1>5, <1>6, <2>1, <2>2, DepthUnique DEF Told
<1>10. \A e \in 1 .. m : Reports(k, e) <=> e >= d
  <2>1. \A e \in 1 .. m : Reports(k, e) <=> (e > d \/ (e = d /\ Top.at = "emitting"))
    BY <1>7, <1>8 DEF Behind
  <2>2. CASE Top.at = "emitting"
    <3>1. \A e \in 1 .. m : e >= d <=> (e > d \/ e = d)
      BY SMT
    <3> QED
      BY <2>1, <2>2, <3>1
  <2>3. CASE Top.at = "calling"
    <3>1. \A e \in 1 .. m : ~(e > m + 1) /\ ~(e >= m + 1)
      BY SMT
    <3> QED
      BY <1>9, <2>1, <2>3, <3>1
  <2> QED
    BY <2>2, <2>3
<1>11. \A c \in 1 .. Len(calls') : Distinct(calls[c].taps)'
  BY <1>3 DEF Told, Distinct
<1>12. ASSUME NEW i \in 1 .. n - 1, stack[i].call # 0
       PROVE  stack[i].call \in 1 .. Len(calls)
  BY <1>1, <1>5, <1>12, OpenCall
<1>13. Stacked'
  <2>1. ASSUME NEW i \in 1 .. n - 1, stack'[i].call # 0, OutermostAt(i)'
        PROVE  AtDepth(stack[i].call, stack[i].fn, 1)'
    <3>1. PICK c, f : c = stack[i].call /\ f = stack[i].fn
      OBVIOUS
    <3>2. c = stack'[i].call /\ f = stack'[i].fn /\ c \in 1 .. Len(calls)
      BY <1>2, <1>12, <2>1, <3>1
    <3>3. OutermostAt(i)
      BY <1>2, <1>5, <2>1 DEF OutermostAt
    <3>4. AtDepth(c, f, 1)
      BY <1>1, <1>2, <1>5, <2>1, <3>1, <3>3 DEF Told, Stacked
    <3> QED
      BY <1>4, <3>2, <3>4
  <2>2. ASSUME NEW i \in 1 .. (n - 1) - 1, stack'[i].call # 0, stack'[i].call = stack'[i + 1].call
        PROVE  \E x \in Nat : /\ AtDepth(stack[i].call, stack[i].fn, x)'
                             /\ AtDepth(stack[i].call, stack[i + 1].fn, x + 1)'
    <3>1. PICK c, f, g : c = stack[i].call /\ f = stack[i].fn /\ g = stack[i + 1].fn
      OBVIOUS
    <3>2. /\ c = stack'[i].call /\ f = stack'[i].fn /\ g = stack'[i + 1].fn
          /\ c = stack[i + 1].call /\ c \in 1 .. Len(calls) /\ c # 0
      BY <1>2, <1>5, <1>12, <2>2, <3>1
    <3>3. i \in 1 .. Len(stack) - 1 /\ stack[i].call # 0 /\ stack[i].call = stack[i + 1].call
      BY <1>1, <1>5, <3>1, <3>2
    <3>4. PICK x \in Nat : /\ AtDepth(stack[i].call, stack[i].fn, x)
                           /\ AtDepth(stack[i].call, stack[i + 1].fn, x + 1)
      <4>1. Stacked
        BY DEF Told
      <4> QED
        BY <3>3, <4>1 DEF Stacked
    <3>5. AtDepth(c, f, x) /\ AtDepth(c, g, x + 1)
      BY <3>1, <3>4
    <3>6. /\ \A w : AtDepth(c, w, x)' <=> AtDepth(c, w, x)
          /\ \A w : AtDepth(c, w, x + 1)' <=> AtDepth(c, w, x + 1)
      BY <1>4, <3>2
    <3>7. AtDepth(c, f, x)' /\ AtDepth(c, g, x + 1)'
      BY <3>5, <3>6
    <3> QED
      BY <3>2, <3>7
  <2> QED
    BY <1>2, <2>1, <2>2 DEF Stacked
<1>14. Progressing'
  <2> SUFFICES ASSUME NEW i \in 1 .. n - 1, NEW x \in Nat, NEW c, NEW f,
                      c = stack'[i].call, f = stack'[i].fn,
                      c # 0, InnermostAt(i)', AtDepth(c, f, x)'
               PROVE  Behind(c, x, stack[i].at)'
    BY <1>2 DEF Progressing
  <2>1. c = stack[i].call /\ f = stack[i].fn /\ c \in 1 .. Len(calls) /\ AtDepth(c, f, x)
    BY <1>2, <1>4, <1>12
  <2>2. CASE i = n - 1 /\ ~Outermost
    <3>1. c = k /\ stack'[i].at = "called"
      BY <1>2, <2>1, <2>2
    <3>2. ~OutermostAt(n)
      BY <1>1, <1>2, <1>5, <2>2 DEF OutermostAt
    <3>3. AtDepth(k, f, d - 1) /\ x = d - 1
      BY <1>6, <2>1, <2>2, <3>1, <3>2, DepthUnique DEF Told
    <3>4. \A e \in 1 .. m : e >= d <=> (e > x \/ (e = x /\ FALSE))
      BY <3>3, SMT
    <3>5. Behind(k, x, "called")
      BY <1>8, <1>10, <3>4 DEF Behind
    <3> QED
      BY <1>4, <3>1, <3>5
  <2>3. CASE i # n - 1 \/ Outermost
    <3>1. stack'[i] = stack[i]
      BY <1>2, <2>3
    <3>2. InnermostAt(i)
      <4>1. CASE i # n - 1
        BY <1>1, <1>2, <1>5, <4>1 DEF InnermostAt
      <4>2. CASE i = n - 1 /\ Outermost
        <5>1. n # 1
          BY <4>2, SMT
        <5> QED
          BY <1>1, <1>2, <1>5, <4>2, <5>1 DEF InnermostAt
      <4> QED
        BY <2>3, <4>1, <4>2
    <3>3. PICK at : at = stack[i].at
      OBVIOUS
    <3>4. Behind(c, x, at)
      BY <1>1, <1>5, <2>1, <3>2, <3>3 DEF Told, Progressing
    <3> QED
      BY <1>4, <2>1, <3>1, <3>3, <3>4
  <2> QED
    BY <2>2, <2>3
<1>15. ReachesOwn'
  <2> SUFFICES ASSUME stack' # <<>> PROVE Top'.at # "calling"
    BY DEF ReachesOwn
  <2>1. n # 1
    <3>1. stack' \in Seq(Frame)
      BY DEF IInv, TypeOK
    <3>2. n - 1 \in Nat \ {0}
      <4> HIDE DEF Frame
      <4> QED BY <1>2, <3>1, EmptySeq
    <3> QED
      BY <3>2, SMT
  <2>2. n - 1 \in 1 .. n - 1
    BY <2>1, SMT
  <2>3. Top' = stack'[n - 1]
    BY <1>2 DEF Top
  <2>4. CASE Outermost
    <3>1. stack[n - 1].call # stack[n].call
      BY <1>2, <1>5, <2>1, <2>4
    <3>2. stack[n - 1].at = "emitting"
      BY <1>1, <1>5, <2>2, <3>1 DEF IInv, CallsNest
    <3> QED
      BY <1>2, <2>2, <2>3, <2>4, <3>2
  <2>5. CASE ~Outermost
    BY <1>2, <2>3, <2>5
  <2> QED
    BY <2>4, <2>5
<1>16. Finished'
  <2> SUFFICES ASSUME NEW c \in 1 .. Len(calls), calls'[c].seen # Unknown,
                      NEW e \in 1 .. Len(calls[c].taps)
               PROVE  Reports(c, e)
    BY <1>3, <1>4 DEF Finished
  <2>1. CASE ~(c = k /\ Outermost)
    BY <1>3, <2>1 DEF Told, Finished
  <2>2. CASE c = k /\ Outermost
    <3>1. d = 1
      BY <1>1, <1>2, <1>5, <1>6, <2>2 DEF OutermostAt
    <3>2. e >= 1
      BY <1>8, <2>2, SMT
    <3> QED
      BY <1>8, <1>10, <2>2, <3>1, <3>2
  <2> QED
    BY <2>1, <2>2
<1>17. Truthful'
  <2> SUFFICES ASSUME NEW c \in 1 .. Len(calls), NEW i \in EventsOf(c)
               PROVE  /\ \E x \in 1 .. Len(calls[c].taps) : events[i].tap = calls[c].taps[x]
                      /\ (events[i].kind = "out") <=> (calls'[c].native = "ok")
    BY <1>3, <1>4 DEF Truthful
  <2>1. PICK x \in 1 .. Len(calls[c].taps) : events[i].tap = calls[c].taps[x]
    BY DEF Told, Truthful
  <2>2. (events[i].kind = "out") <=> (calls[c].native = "ok")
    BY DEF Told, Truthful
  <2>3. c # k \/ Top.at = "emitting"
    <3> SUFFICES ASSUME c = k, Top.at = "calling" PROVE FALSE
      OBVIOUS
    <3>1. x \in 1 .. m /\ Reports(k, x)
      BY <1>8, <2>1 DEF Reports
    <3>2. x >= m + 1
      BY <1>9, <1>10, <3>1
    <3> QED
      BY <3>1, <3>2, SMT
  <2> QED
    BY <1>3, <2>1, <2>2, <2>3
<1>18. InnerFirst'
  BY <1>3, <1>4 DEF Told, InnerFirst
<1> QED
  BY <1>11, <1>13, <1>14, <1>15, <1>16, <1>17, <1>18 DEF Told

(* The frames keep their places.                                           *)
LEMMA SameStack ==
    ASSUME IInv, Told, UNCHANGED calls, NEW n \in Nat, n = Len(stack), Len(stack') = n,
           \A i \in 1 .. n : stack'[i].call = stack[i].call /\ stack'[i].fn = stack[i].fn
    PROVE  Stacked'
<1>1. \A i \in 1 .. n - 1 : i \in 1 .. n /\ i + 1 \in 1 .. n
  BY SMT
<1>2. \A i \in 1 .. n : i # 1 => i - 1 \in 1 .. n
  BY SMT
<1>3. \A i \in 1 .. n : OutermostAt(i)' <=> OutermostAt(i)
  BY <1>2 DEF OutermostAt
<1>4. \A k, f, d : AtDepth(k, f, d)' <=> AtDepth(k, f, d)
  BY DEF AtDepth
<1>5. ASSUME NEW i \in 1 .. n, stack'[i].call # 0, OutermostAt(i)'
      PROVE  AtDepth(stack[i].call, stack[i].fn, 1)'
  <2>1. AtDepth(stack[i].call, stack[i].fn, 1)
    BY <1>3, <1>5 DEF Told, Stacked
  <2> QED
    BY <2>1 DEF AtDepth
<1>6. ASSUME NEW i \in 1 .. n - 1, stack'[i].call # 0, stack'[i].call = stack'[i + 1].call
      PROVE  \E d \in Nat : /\ AtDepth(stack[i].call, stack[i].fn, d)'
                           /\ AtDepth(stack[i].call, stack[i + 1].fn, d + 1)'
  <2>1. PICK d \in Nat : /\ AtDepth(stack[i].call, stack[i].fn, d)
                        /\ AtDepth(stack[i].call, stack[i + 1].fn, d + 1)
    BY <1>1, <1>6 DEF Told, Stacked
  <2> QED
    BY <1>1, <2>1 DEF AtDepth
<1> QED
  BY <1>5, <1>6 DEF Stacked

(* The wrapper that emits is the innermost that has not reported the call. *)
LEMMA EmitTells == IInv /\ IInv' /\ Told /\ Emit => Told'
<1> SUFFICES ASSUME IInv, IInv', Told, Emit PROVE Told'
  OBVIOUS
<1>1. PICK n \in Nat \ {0} : n = Len(stack)
  BY OnTop DEF Emit, Called
<1>2. /\ stack # <<>> /\ Top.at = "called" /\ Top \in Frame /\ Agrees(Top)
      /\ Top = stack[n] /\ stack \in Seq(Frame) /\ UNCHANGED calls
  BY <1>1, OnTop, Typing DEF Emit, Called, Top, IInv
<1>3. PICK k \in 1 .. Len(calls) : k = Top.call /\ k # 0 /\ calls[k].native = Top.outcome
  BY <1>2 DEF Agrees
<1>4. Top.fn # Own
  BY <1>2 DEF Agrees
<1>5. /\ Len(stack') = n /\ stack'[n].at = "emitting"
      /\ \A i \in 1 .. n : stack'[i].call = stack[i].call /\ stack'[i].fn = stack[i].fn
      /\ \A i \in 1 .. n : i # n => stack'[i] = stack[i]
  <2>1. PICK g : g = [Top EXCEPT !.at = "emitting"]
    OBVIOUS
  <2>2. g \in Frame /\ g.at = "emitting" /\ g.call = Top.call /\ g.fn = Top.fn
    BY <1>2, <2>1 DEF Frame
  <2>3. n \in 1 .. Len(stack) /\ n \in DOMAIN stack
    <3> HIDE DEF Frame
    <3> QED BY <1>1, <1>2, OnTop, LenProperties
  <2>4. stack' = [stack EXCEPT ![n] = g]
    BY <1>1, <1>2, <2>1, <2>3 DEF Emit
  <2>5. Len(stack') = n /\ \A i \in 1 .. n : stack'[i] = IF i = n THEN g ELSE stack[i]
    <3> HIDE DEF Frame
    <3> QED BY <1>1, <1>2, <2>2, <2>3, <2>4, ExceptSeq
  <2> QED
    BY <1>1, <1>2, <2>2, <2>3, <2>5
<1>6. PICK N \in Nat : N = Len(events)
  BY Typing DEF IInv
<1>7. PICK e : /\ e = [tap |-> Top.fn, call |-> k, kind |-> EventKind(Top.outcome), amount |-> AmountOf(Top)]
               /\ events' = Append(events, e)
  BY <1>3 DEF Emit
<1>8. e.tap = Top.fn /\ e.call = k /\ (e.kind = "out" <=> Top.outcome = "ok")
  BY <1>7 DEF EventKind
<1>9. /\ Len(events') = N + 1 /\ events'[N + 1] = e
      /\ \A i \in 1 .. N : events'[i] = events[i]
  <2>1. events' \in Seq(Event) /\ events \in Seq(Event)
    BY DEF IInv, TypeOK
  <2>2. events \in Seq(Event \union {e}) /\ e \in Event \union {e}
    <3> HIDE DEF Event
    <3> QED BY <2>1, SeqMonotonic
  <2> HIDE DEF Event
  <2> QED
    BY <1>6, <1>7, <2>2, AppendProperties
<1>10. \A i \in 1 .. N + 1 : i \in 1 .. N \/ i = N + 1
  BY SMT
<1>11. \A i \in 1 .. N : i \in 1 .. N + 1 /\ i < N + 1 /\ ~(N + 1 < i) /\ i # N + 1
  BY SMT
<1>12. ASSUME NEW c \in 1 .. Len(calls), c # k
       PROVE  /\ (EventsOf(c))' = EventsOf(c)
              /\ \A i \in EventsOf(c) : events'[i] = events[i]
              /\ \A d, at : Behind(c, d, at)' <=> Behind(c, d, at)
  <2>1. (EventsOf(c))' = EventsOf(c)
    BY <1>6, <1>8, <1>9, <1>10, <1>11, <1>12 DEF EventsOf
  <2>2. \A i \in EventsOf(c) : events'[i] = events[i]
    BY <1>6, <1>9 DEF EventsOf
  <2> QED
    BY <1>2, <2>1, <2>2, SameStory
<1>13. /\ (EventsOf(k))' = EventsOf(k) \union {N + 1}
       /\ \A i \in EventsOf(k) : events'[i] = events[i] /\ i \in 1 .. N
  <2>1. N + 1 \in 1 .. N + 1
    BY SMT
  <2> QED
    BY <1>6, <1>8, <1>9, <1>10, <1>11, <2>1 DEF EventsOf
<1>14. PICK m \in Nat : m = Len(calls[k].taps)
  BY CallTyping
<1>15. n \in 1 .. n
  BY SMT
<1>16. PICK d \in Nat : AtDepth(k, Top.fn, d)
  BY <1>1, <1>2, <1>3, <1>15, FrameDepth
<1>17. d \in 1 .. m /\ calls[k].taps[d] = Top.fn
  <2>1. \A x \in 1 .. m + 1 : x = m + 1 \/ x \in 1 .. m
    BY SMT
  <2> QED
    BY <1>4, <1>14, <1>16, <2>1 DEF AtDepth
<1>18. \A x \in 1 .. m : calls[k].taps[x] = Top.fn => x = d
  BY <1>14, <1>17 DEF Told, Distinct
<1>19. \A x \in 1 .. m : Reports(k, x) <=> x > d
  <2>1. Behind(k, d, "called")
    BY <1>1, <1>2, <1>3, <1>15, <1>16 DEF Told, Progressing, InnermostAt
  <2> QED
    BY <1>14, <2>1 DEF Behind
<1>20. \A x \in 1 .. m : Reports(k, x)' <=> x > d \/ x = d
  <2> SUFFICES ASSUME NEW x \in 1 .. m PROVE Reports(k, x)' <=> x > d \/ x = d
    OBVIOUS
  <2>1. Reports(k, x)' <=> \E i \in EventsOf(k) \union {N + 1} : events'[i].tap = calls[k].taps[x]
    BY <1>2, <1>13 DEF Reports
  <2>2. Reports(k, x) <=> \E i \in EventsOf(k) : events'[i].tap = calls[k].taps[x]
    BY <1>13 DEF Reports
  <2>3. events'[N + 1].tap = calls[k].taps[x] <=> x = d
    BY <1>8, <1>9, <1>17, <1>18
  <2> QED
    BY <1>19, <2>1, <2>2, <2>3
<1>21. Stacked'
  BY <1>1, <1>2, <1>5, SameStack
<1>22. Progressing'
  <2> SUFFICES ASSUME NEW i \in 1 .. n, NEW x \in Nat, NEW c, NEW f,
                      c = stack'[i].call, f = stack'[i].fn,
                      c # 0, InnermostAt(i)', AtDepth(c, f, x)'
               PROVE  Behind(c, x, stack[i].at)'
    BY <1>5 DEF Progressing
  <2>1. c = stack[i].call /\ f = stack[i].fn /\ c \in 1 .. Len(calls)
    BY <1>1, <1>5, OpenCall
  <2>2. AtDepth(c, f, x)
    BY <1>2 DEF AtDepth
  <2>3. InnermostAt(i)
    <3>1. i # n => i + 1 \in 1 .. n
      BY SMT
    <3> QED
      BY <1>1, <1>5, <3>1 DEF InnermostAt
  <2>4. CASE c = k
    <3>1. i = n
      BY <1>1, <1>2, <1>3, <2>1, <2>3, <2>4, OneInnermost
    <3>2. x = d
      BY <1>2, <1>16, <2>1, <2>2, <2>4, <3>1, DepthUnique DEF Told
    <3> QED
      BY <1>2, <1>5, <1>14, <1>20, <2>4, <3>1, <3>2 DEF Behind
  <2>5. CASE c # k
    <3>1. stack'[i] = stack[i]
      BY <1>2, <1>3, <1>5, <2>1, <2>5
    <3>2. PICK at : at = stack[i].at
      OBVIOUS
    <3>3. Behind(c, x, at)
      BY <1>1, <2>1, <2>2, <2>3, <3>2 DEF Told, Progressing
    <3> QED
      BY <1>12, <2>1, <2>5, <3>1, <3>2, <3>3
  <2> QED
    BY <2>4, <2>5
<1>23. ReachesOwn'
  BY <1>1, <1>5 DEF ReachesOwn, Top
<1>24. Finished'
  <2> SUFFICES ASSUME NEW c \in 1 .. Len(calls), calls[c].seen # Unknown,
                      NEW x \in 1 .. Len(calls[c].taps)
               PROVE  Reports(c, x)'
    BY <1>2 DEF Finished
  <2>1. c # k
    BY <1>2, <1>3 DEF Agrees
  <2>2. Reports(c, x)
    BY DEF Told, Finished
  <2> QED
    BY <1>2, <1>12, <2>1, <2>2 DEF Reports
<1>25. Truthful'
  <2> SUFFICES ASSUME NEW c \in 1 .. Len(calls), NEW i \in (EventsOf(c))'
               PROVE  /\ \E x \in 1 .. Len(calls[c].taps) : events'[i].tap = calls[c].taps[x]
                      /\ (events'[i].kind = "out") <=> (calls[c].native = "ok")
    BY <1>2 DEF Truthful
  <2>o. ASSUME i \in EventsOf(c), events'[i] = events[i]
        PROVE  /\ \E x \in 1 .. Len(calls[c].taps) : events'[i].tap = calls[c].taps[x]
               /\ (events'[i].kind = "out") <=> (calls[c].native = "ok")
    BY <2>o DEF Told, Truthful
  <2>1. CASE c # k
    <3>1. i \in EventsOf(c) /\ events'[i] = events[i]
      BY <1>12, <2>1
    <3> QED
      BY <2>o, <3>1
  <2>2. CASE c = k /\ i # N + 1
    <3>1. i \in EventsOf(c) /\ events'[i] = events[i]
      BY <1>13, <2>2
    <3> QED
      BY <2>o, <3>1
  <2>3. CASE c = k /\ i = N + 1
    <3>1. events'[i] = e
      BY <1>9, <2>3
    <3>2. d \in 1 .. Len(calls[c].taps) /\ events'[i].tap = calls[c].taps[d]
      BY <1>8, <1>14, <1>17, <2>3, <3>1
    <3>3. events'[i].kind = "out" <=> calls[c].native = "ok"
      BY <1>3, <1>8, <2>3, <3>1
    <3> QED
      BY <3>2, <3>3
  <2> QED
    BY <2>1, <2>2, <2>3
<1>26. InnerFirst'
  <2> SUFFICES ASSUME NEW c \in 1 .. Len(calls), NEW i \in (EventsOf(c))', NEW j \in (EventsOf(c))',
                      NEW x \in 1 .. Len(calls[c].taps), NEW y \in 1 .. Len(calls[c].taps), i < j,
                      events'[i].tap = calls[c].taps[x], events'[j].tap = calls[c].taps[y]
               PROVE  x > y
    BY <1>2 DEF InnerFirst
  <2> DEFINE Before(a, b) == /\ a \in EventsOf(c) /\ events'[a] = events[a]
                             /\ b \in EventsOf(c) /\ events'[b] = events[b]
  <2>o. ASSUME Before(i, j) PROVE x > y
    <3>1. InnerFirst
      BY DEF Told
    <3>2. events[i].tap = calls[c].taps[x] /\ events[j].tap = calls[c].taps[y]
      BY <2>o
    <3> QED
      BY <2>o, <3>1, <3>2 DEF InnerFirst
  <2>1. CASE c # k
    <3>1. Before(i, j)
      BY <1>12, <2>1
    <3> QED
      BY <2>o, <3>1
  <2>2. CASE c = k /\ i # N + 1 /\ j # N + 1
    <3>1. Before(i, j)
      BY <1>13, <2>2
    <3> QED
      BY <2>o, <3>1
  <2>3. CASE c = k /\ j = N + 1
    <3>1. i \in EventsOf(k) /\ events[i].tap = calls[k].taps[x]
      <4>1. i # N + 1
        BY <2>3, SMT
      <4> QED
        BY <1>13, <2>3, <4>1
    <3>2. y = d
      BY <1>8, <1>9, <1>14, <1>18, <2>3
    <3> QED
      BY <1>14, <1>19, <2>3, <3>1, <3>2 DEF Reports
  <2>4. CASE c = k /\ i = N + 1 /\ j # N + 1
    BY <1>11, <1>13, <2>4
  <2> QED
    BY <2>1, <2>2, <2>3, <2>4
<1>27. \A c \in 1 .. Len(calls') : Distinct(calls[c].taps)'
  BY <1>2 DEF Told, Distinct
<1> QED
  BY <1>21, <1>22, <1>23, <1>24, <1>25, <1>26, <1>27 DEF Told

(* send() enters the wrappers from the outermost in, and the own method.   *)
LEMMA SendFrames ==
    ASSUME IInv, Send, NEW n \in Nat, n = Len(stack), NEW m \in Nat, m = Len(chain[current])
    PROVE  /\ Len(stack') = n + m + 1
           /\ \A i \in 1 .. n : stack'[i] = stack[i]
           /\ \A i \in 1 .. m : stack'[n + i] = Entered(chain[current][i])
           /\ stack'[n + m + 1] = Entered(Own)
<1>1. TypeOK /\ stack \in Seq(Frame)
  BY Typing DEF IInv
<1>2. PICK p : p = Append(chain[current], Own)
  OBVIOUS
<1>3. /\ p \in Seq(Tap \union {Own}) /\ Len(p) = m + 1 /\ p[m + 1] = Own
      /\ \A i \in 1 .. m : p[i] = chain[current][i]
  <2>1. chain[current] \in Seq(Tap)
    BY <1>1 DEF TypeOK
  <2>2. chain[current] \in Seq(Tap \union {Own})
    BY <2>1, SeqMonotonic
  <2> QED
    BY <1>2, <2>2, AppendProperties
<1>4. PICK f : f = [i \in 1 .. m + 1 |-> Entered(p[i])]
  OBVIOUS
<1>5. stack' = stack \o f
  BY <1>2, <1>3, <1>4 DEF Send, Entered
<1>6. PICK S : S = Frame \union {Entered(p[i]) : i \in 1 .. m + 1}
  OBVIOUS
<1>7. stack \in Seq(S) /\ f \in Seq(S) /\ Len(f) = m + 1
  <2> HIDE DEF Frame
  <2>1. f \in [1 .. m + 1 -> S]
    BY <1>4, <1>6
  <2>2. Frame \subseteq S
    BY <1>6
  <2>3. stack \in Seq(S)
    BY <1>1, <2>2, SeqMonotonic
  <2>4. m + 1 \in Nat
    BY SMT
  <2> QED
    BY <2>1, <2>3, <2>4, SeqOfFun
<1>8. /\ Len(stack') = n + (m + 1)
      /\ \A i \in 1 .. n + (m + 1) : stack'[i] = IF i <= n THEN stack[i] ELSE f[i - n]
  <2>1. /\ Len(stack \o f) = Len(stack) + Len(f)
        /\ \A i \in 1 .. Len(stack) + Len(f) :
              (stack \o f)[i] = IF i <= Len(stack) THEN stack[i] ELSE f[i - Len(stack)]
    BY <1>7, ConcatProperties
  <2>2. Len(stack) = n /\ Len(f) = m + 1
    BY <1>7
  <2> QED
    BY <1>5, <2>1, <2>2
<1>9. /\ n + (m + 1) = n + m + 1 /\ (n + m + 1) - n = m + 1 /\ n + m + 1 \in 1 .. n + m + 1
      /\ ~(n + m + 1 <= n) /\ m + 1 \in 1 .. m + 1
      /\ \A i \in 1 .. n : i \in 1 .. n + m + 1 /\ i <= n
      /\ \A i \in 1 .. m : /\ n + i \in 1 .. n + m + 1 /\ ~(n + i <= n)
                           /\ (n + i) - n = i /\ i \in 1 .. m + 1
  BY SMT
<1>10. Len(stack') = n + m + 1
  BY <1>8, <1>9
<1>11. \A i \in 1 .. n : stack'[i] = stack[i]
  BY <1>8, <1>9
<1>12. \A i \in 1 .. m : stack'[n + i] = Entered(chain[current][i])
  <2> SUFFICES ASSUME NEW i \in 1 .. m PROVE stack'[n + i] = Entered(chain[current][i])
    OBVIOUS
  <2>1. n + i \in 1 .. n + (m + 1) /\ ~(n + i <= n) /\ (n + i) - n = i /\ i \in 1 .. m + 1
    BY <1>9
  <2>2. stack'[n + i] = f[i]
    BY <1>8, <2>1
  <2>3. f[i] = Entered(p[i])
    BY <1>4, <2>1
  <2> QED
    BY <1>3, <2>2, <2>3
<1>13. stack'[n + m + 1] = Entered(Own)
  <2>1. stack'[n + m + 1] = f[m + 1]
    BY <1>8, <1>9
  <2>2. f[m + 1] = Entered(p[m + 1])
    BY <1>4, <1>9
  <2> QED
    BY <1>3, <2>1, <2>2
<1> QED
  BY <1>10, <1>11, <1>12, <1>13

LEMMA SendTells == IInv /\ IInv' /\ ChainsInstalled /\ Told /\ Send => Told'
<1> SUFFICES ASSUME IInv, IInv', ChainsInstalled, Told, Send PROVE Told'
  OBVIOUS
<1>1. PICK n \in Nat, c \in Nat : n = Len(stack) /\ c = Len(calls)
  BY Typing DEF IInv
<1>2. PICK t \in Seq(Tap) : t = chain[current]
  BY DEF IInv, TypeOK
<1>3. PICK m \in Nat : m = Len(t)
  BY LenProperties
<1>4. Distinct(t)
  BY <1>2 DEF ChainsInstalled, IInv, TypeOK
<1>5. PICK k \in Nat : k = c + 1
  BY SMT
<1>6. /\ Len(calls') = k /\ calls'[k] = NewCall
      /\ \A x \in 1 .. c : calls'[x] = calls[x]
      /\ NewCall.taps = t /\ NewCall.seen = Unknown
  BY <1>1, <1>2, <1>5, SendCalls DEF NewCall
<1>7. /\ Len(stack') = n + m + 1
      /\ \A i \in 1 .. n : stack'[i] = stack[i]
      /\ \A i \in 1 .. m : stack'[n + i] = Entered(t[i])
      /\ stack'[n + m + 1] = Entered(Own)
  BY <1>1, <1>2, <1>3, SendFrames
<1>8. \A f : Entered(f).fn = f /\ Entered(f).call = k /\ Entered(f).at = "calling"
  BY <1>1, <1>5 DEF Entered
<1>9. /\ \A x \in 1 .. k : x \in 1 .. c \/ x = k
      /\ \A x \in 1 .. c : x \in 1 .. k /\ x # k
      /\ k \in 1 .. k /\ k # 0 /\ k \notin 0 .. c
  BY <1>5, SMT
<1>10. UNCHANGED events
  BY DEF Send
<1>11. \A x : (EventsOf(x))' = EventsOf(x)
  BY <1>10 DEF EventsOf
<1>12. EventsOf(k) = {}
  BY <1>1, <1>9 DEF EventsOf, IInv, EventsKnown
<1>13. ASSUME NEW x \in 1 .. c
       PROVE  /\ calls'[x] = calls[x]
              /\ \A f, d : AtDepth(x, f, d)' <=> AtDepth(x, f, d)
              /\ \A e : Reports(x, e)' <=> Reports(x, e)
              /\ \A d, at : Behind(x, d, at)' <=> Behind(x, d, at)
  <2>1. calls'[x] = calls[x]
    BY <1>6
  <2> QED
    BY <1>10, <1>11, <2>1, SameStory
<1>14. ASSUME NEW i \in 1 .. n
       PROVE  stack[i].call = 0 \/ stack[i].call \in 1 .. c
  BY <1>1, OpenCall
<1>15. \A i \in 1 .. n : stack'[i].call # k
  BY <1>5, <1>7, <1>9, <1>14
(* The depth of the i-th new frame is i.                                   *)
<1>16. ASSUME NEW i \in 1 .. m + 1
       PROVE  /\ stack'[n + i].call = k /\ stack'[n + i].at = "calling"
              /\ AtDepth(k, stack[n + i].fn, i)'
  <2>1. i \in 1 .. m \/ i = m + 1
    BY SMT
  <2>2. n + (m + 1) = n + m + 1 /\ \A j \in 1 .. m : j # m + 1
    BY SMT
  <2>3. PICK g : stack'[n + i] = Entered(g) /\ g = IF i = m + 1 THEN Own ELSE t[i]
    BY <1>7, <2>1, <2>2
  <2>4. stack'[n + i].call = k /\ stack'[n + i].at = "calling" /\ stack'[n + i].fn = g
    BY <1>8, <2>3
  <2>5. calls'[k].taps = t
    BY <1>6
  <2>6. AtDepth(k, g, i)'
    BY <1>3, <2>3, <2>5 DEF AtDepth
  <2> QED
    BY <2>4, <2>6
<1>17. \A i \in 1 .. n + m + 1 : i \in 1 .. n \/ (i - n \in 1 .. m + 1 /\ n + (i - n) = i)
  BY SMT
<1>18. \A x \in 1 .. Len(calls') : Distinct(calls[x].taps)'
  <2>1. ASSUME NEW x \in 1 .. c PROVE Distinct(calls[x].taps)'
    BY <1>1, <1>6 DEF Told, Distinct
  <2>2. Distinct(calls[k].taps)'
    BY <1>4, <1>6 DEF Distinct
  <2> QED
    BY <1>6, <1>9, <2>1, <2>2
<1>19. ASSUME NEW i \in 1 .. n + m + 1, stack'[i].call # 0, OutermostAt(i)'
       PROVE  AtDepth(stack[i].call, stack[i].fn, 1)'
  <2>1. CASE i \in 1 .. n
    <3>1. PICK x, f : x = stack[i].call /\ f = stack[i].fn
      OBVIOUS
    <3>2. x = stack'[i].call /\ f = stack'[i].fn /\ x \in 1 .. c
      BY <1>7, <1>14, <1>19, <2>1, <3>1
    <3>3. i # 1 => i - 1 \in 1 .. n
      BY <2>1, SMT
    <3>4. OutermostAt(i)
      BY <1>7, <1>19, <2>1, <3>3 DEF OutermostAt
    <3>5. AtDepth(x, f, 1)
      BY <1>1, <1>7, <1>19, <2>1, <3>1, <3>4 DEF Told, Stacked
    <3> QED
      BY <1>13, <3>2, <3>5
  <2>2. CASE i - n \in 1 .. m + 1 /\ n + (i - n) = i
    <3>1. stack'[i].call = k /\ AtDepth(k, stack[i].fn, i - n)'
      BY <1>16, <2>2
    <3>2. i - n = 1
      <4> SUFFICES ASSUME i - n # 1 PROVE FALSE
        OBVIOUS
      <4>1. (i - n) - 1 \in 1 .. m + 1 /\ n + ((i - n) - 1) = i - 1 /\ i # 1
        BY <2>2, SMT
      <4>2. stack'[i - 1].call = k
        BY <1>16, <4>1
      <4> QED
        BY <1>19, <3>1, <4>1, <4>2 DEF OutermostAt
    <3> QED
      BY <3>1, <3>2
  <2> QED
    BY <1>17, <2>1, <2>2
<1>20. ASSUME NEW i \in 1 .. (n + m + 1) - 1, stack'[i].call # 0, stack'[i].call = stack'[i + 1].call
       PROVE  \E d \in Nat : /\ AtDepth(stack[i].call, stack[i].fn, d)'
                            /\ AtDepth(stack[i].call, stack[i + 1].fn, d + 1)'
  <2>1. \/ i \in 1 .. n - 1 /\ i \in 1 .. n /\ i + 1 \in 1 .. n
        \/ i \in 1 .. n /\ i + 1 = n + 1 /\ 1 \in 1 .. m + 1
        \/ /\ i - n \in 1 .. m + 1 /\ n + (i - n) = i /\ i - n \in Nat
           /\ (i - n) + 1 \in 1 .. m + 1 /\ n + ((i - n) + 1) = i + 1
    BY SMT
  <2>2. CASE i \in 1 .. n - 1 /\ i \in 1 .. n /\ i + 1 \in 1 .. n
    <3>1. PICK x, f, g : x = stack[i].call /\ f = stack[i].fn /\ g = stack[i + 1].fn
      OBVIOUS
    <3>2. /\ x = stack'[i].call /\ f = stack'[i].fn /\ g = stack'[i + 1].fn
          /\ x = stack[i + 1].call /\ x \in 1 .. c /\ x # 0
      BY <1>7, <1>14, <1>20, <2>2, <3>1
    <3>3. i \in 1 .. Len(stack) - 1 /\ stack[i].call # 0 /\ stack[i].call = stack[i + 1].call
      BY <1>1, <2>2, <3>1, <3>2
    <3>4. PICK d \in Nat : /\ AtDepth(stack[i].call, stack[i].fn, d)
                           /\ AtDepth(stack[i].call, stack[i + 1].fn, d + 1)
      <4>1. Stacked
        BY DEF Told
      <4> QED
        BY <3>3, <4>1 DEF Stacked
    <3>5. AtDepth(x, f, d) /\ AtDepth(x, g, d + 1)
      BY <3>1, <3>4
    <3>6. AtDepth(x, f, d)' /\ AtDepth(x, g, d + 1)'
      BY <1>13, <3>2, <3>5
    <3> QED
      BY <3>2, <3>6
  <2>3. CASE i \in 1 .. n /\ i + 1 = n + 1 /\ 1 \in 1 .. m + 1
    BY <1>15, <1>16, <1>20, <2>3
  <2>4. CASE /\ i - n \in 1 .. m + 1 /\ n + (i - n) = i /\ i - n \in Nat
             /\ (i - n) + 1 \in 1 .. m + 1 /\ n + ((i - n) + 1) = i + 1
    <3>1. stack'[i].call = k /\ AtDepth(k, stack[i].fn, i - n)'
      BY <1>16, <2>4
    <3>2. AtDepth(k, stack[i + 1].fn, (i - n) + 1)'
      BY <1>16, <2>4
    <3> QED
      BY <2>4, <3>1, <3>2
  <2> QED
    BY <2>1, <2>2, <2>3, <2>4
<1>21. Stacked'
  BY <1>7, <1>19, <1>20 DEF Stacked
<1>22. Progressing'
  <2> SUFFICES ASSUME NEW i \in 1 .. n + m + 1, NEW d \in Nat, NEW x, NEW f,
                      x = stack'[i].call, f = stack'[i].fn,
                      x # 0, InnermostAt(i)', AtDepth(x, f, d)'
               PROVE  Behind(x, d, stack[i].at)'
    BY <1>7 DEF Progressing
  <2>1. CASE i \in 1 .. n
    <3>1. x = stack[i].call /\ f = stack[i].fn /\ x \in 1 .. c /\ AtDepth(x, f, d)
      BY <1>7, <1>13, <1>14, <2>1
    <3>2. InnermostAt(i)
      <4>1. i = n \/ (i # n /\ i # n + m + 1 /\ i + 1 \in 1 .. n)
        BY <2>1, SMT
      <4> QED
        BY <1>1, <1>7, <2>1, <4>1 DEF InnermostAt
    <3>3. PICK at : at = stack[i].at
      OBVIOUS
    <3>4. Behind(x, d, at)
      BY <1>1, <2>1, <3>1, <3>2, <3>3 DEF Told, Progressing
    <3> QED
      BY <1>7, <1>13, <2>1, <3>1, <3>3, <3>4
  <2>2. CASE i - n \in 1 .. m + 1 /\ n + (i - n) = i
    <3>1. x = k /\ stack'[i].at = "calling"
      BY <1>16, <2>2
    <3>2. i = n + m + 1
      <4> SUFFICES ASSUME i # n + m + 1 PROVE FALSE
        OBVIOUS
      <4>1. (i - n) + 1 \in 1 .. m + 1 /\ n + ((i - n) + 1) = i + 1
        BY <2>2, SMT
      <4>2. stack'[i + 1].call = k
        BY <1>16, <4>1
      <4> QED
        BY <1>7, <3>1, <4>2 DEF InnermostAt
    <3>3. f = Own
      BY <1>7, <1>8, <3>2
    <3>4. d = m + 1
      <4>1. d \in 1 .. m + 1 /\ f = IF d = m + 1 THEN Own ELSE t[d]
        BY <1>3, <1>6, <3>1 DEF AtDepth
      <4>2. d \in 1 .. m \/ d = m + 1
        BY <4>1, SMT
      <4>3. \A y \in 1 .. m : t[y] # Own
        BY <1>3, ElementOfSeq, TapAssumption
      <4> QED
        BY <3>3, <4>1, <4>2, <4>3
    <3>5. \A e \in 1 .. m : ~(e > m + 1) /\ e # m + 1
      BY SMT
    <3>6. \A e : ~Reports(k, e)'
      BY <1>11, <1>12 DEF Reports
    <3> QED
      BY <1>3, <1>6, <3>1, <3>4, <3>5, <3>6 DEF Behind
  <2> QED
    BY <1>17, <2>1, <2>2
<1>23. ReachesOwn'
  BY <1>7, <1>8 DEF ReachesOwn, Top
<1>24. Finished'
  BY <1>1, <1>6, <1>9, <1>13 DEF Told, Finished
<1>25. Truthful' /\ InnerFirst'
  <2>1. ASSUME NEW x \in 1 .. c, NEW i \in EventsOf(x)
        PROVE  /\ \E d \in 1 .. Len(calls[x].taps) : events[i].tap = calls[x].taps[d]
               /\ (events[i].kind = "out") <=> (calls[x].native = "ok")
    BY <1>1 DEF Told, Truthful
  <2>2. Truthful'
    BY <1>6, <1>9, <1>10, <1>11, <1>12, <2>1 DEF Truthful
  <2>3. InnerFirst'
    <3> SUFFICES ASSUME NEW x \in 1 .. Len(calls'),
                        NEW i \in (EventsOf(x))', NEW j \in (EventsOf(x))',
                        NEW d \in 1 .. Len(calls'[x].taps), NEW e \in 1 .. Len(calls'[x].taps),
                        i < j, events'[i].tap = calls'[x].taps[d], events'[j].tap = calls'[x].taps[e]
                 PROVE  d > e
      BY DEF InnerFirst
    <3>1. x # k /\ x \in 1 .. c
      BY <1>6, <1>9, <1>11, <1>12
    <3>2. calls'[x] = calls[x] /\ events' = events /\ (EventsOf(x))' = EventsOf(x)
      BY <1>6, <1>10, <1>11, <3>1
    <3>3. InnerFirst /\ x \in 1 .. Len(calls)
      BY <1>1, <3>1 DEF Told
    <3>4. /\ i \in EventsOf(x) /\ j \in EventsOf(x)
          /\ d \in 1 .. Len(calls[x].taps) /\ e \in 1 .. Len(calls[x].taps)
          /\ events[i].tap = calls[x].taps[d] /\ events[j].tap = calls[x].taps[e]
      BY <3>2
    <3> QED
      BY <3>3, <3>4 DEF InnerFirst
  <2> QED
    BY <2>2, <2>3
<1> QED
  BY <1>18, <1>21, <1>22, <1>23, <1>24, <1>25 DEF Told

(* While only inbound events are open, nothing new is told of the calls.   *)
LEMMA InboundTells ==
    ASSUME IInv, IInv', Told, UNCHANGED calls,
           \A x \in 1 .. Len(calls) : /\ (EventsOf(x))' = EventsOf(x)
                                      /\ \A i \in EventsOf(x) : events'[i] = events[i],
           \A i \in 1 .. Len(stack') : stack'[i].call = 0
    PROVE  Told'
<1>1. \A x \in 1 .. Len(calls) : \A e : Reports(x, e)' <=> Reports(x, e)
  BY SameStory
<1>2. Len(stack') \in Nat /\ stack' \in Seq(Frame)
  <2>1. stack' \in Seq(Frame)
    BY DEF IInv, TypeOK
  <2> HIDE DEF Frame
  <2> QED
    BY <2>1, LenProperties
<1>3. Stacked' /\ Progressing'
  <2>1. \A i \in 1 .. Len(stack') - 1 : i \in 1 .. Len(stack')
    BY <1>2, SMT
  <2> QED
    BY <2>1 DEF Stacked, Progressing
<1>4. ReachesOwn'
  <2> SUFFICES ASSUME stack' # <<>> PROVE Top'.at # "calling"
    BY DEF ReachesOwn
  <2>1. Len(stack') \in Nat \ {0}
    <3> HIDE DEF Frame
    <3> QED BY <1>2, EmptySeq
  <2>2. PICK m \in Nat \ {0} : m = Len(stack')
    BY <2>1
  <2>3. m \in 1 .. m
    BY SMT
  <2>4. Top' = stack'[m] /\ stack'[m].call = 0
    BY <2>2, <2>3 DEF Top
  <2>5. stack'[m].call = 0 => stack'[m].at = "emitting"
    BY <2>2, <2>3 DEF IInv, FramesAgree, Agrees
  <2> QED
    BY <2>4, <2>5
<1>5. Finished'
  BY <1>1 DEF Told, Finished
<1>6. Truthful' /\ InnerFirst'
  <2>1. \A x \in 1 .. Len(calls) : /\ (EventsOf(x))' = EventsOf(x)
                                   /\ \A i \in EventsOf(x) : events'[i] = events[i]
    OBVIOUS
  <2>2. UNCHANGED calls
    OBVIOUS
  <2>3. Truthful /\ InnerFirst
    BY DEF Told
  <2>4. Truthful'
    BY ONLY <2>1, <2>2, <2>3 DEF Truthful
  <2>5. InnerFirst'
    BY ONLY <2>1, <2>2, <2>3 DEF InnerFirst
  <2> QED
    BY <2>4, <2>5
<1>7. \A k \in 1 .. Len(calls') : Distinct(calls[k].taps)'
  BY DEF Told, Distinct
<1> QED
  BY <1>3, <1>4, <1>5, <1>6, <1>7 DEF Told

LEMMA HearTells ==
    ASSUME IInv, IInv', Told, NEW t \in Tap, Hear(t)
    PROVE  Told'
<1>1. PICK g, e : /\ g = [fn |-> t, call |-> 0, amount |-> 0, at |-> "emitting", outcome |-> Unknown]
                 /\ e = [tap |-> t, call |-> 0, kind |-> "in", amount |-> 0]
  OBVIOUS
<1>2. g.call = 0 /\ e.call = 0 /\ stack' = <<g>> /\ events' = Append(events, e) /\ UNCHANGED calls
  BY <1>1 DEF Hear
<1>3. PICK n \in Nat : n = Len(events)
  BY Typing DEF IInv
<1>4. /\ Len(events') = n + 1 /\ events'[n + 1] = e
      /\ \A i \in 1 .. n : events'[i] = events[i]
  <2>1. events' \in Seq(Event) /\ events \in Seq(Event)
    BY DEF IInv, TypeOK
  <2>2. events \in Seq(Event \union {e}) /\ e \in Event \union {e}
    <3> HIDE DEF Event
    <3> QED BY <2>1, SeqMonotonic
  <2> HIDE DEF Event
  <2> QED
    BY <1>2, <1>3, <2>2, AppendProperties
<1>5. \A i \in 1 .. n + 1 : i \in 1 .. n \/ i = n + 1
  BY SMT
<1>6. \A i \in 1 .. n : i \in 1 .. n + 1
  BY SMT
<1>7. ASSUME NEW x \in 1 .. Len(calls)
      PROVE  (EventsOf(x))' = EventsOf(x) /\ \A i \in EventsOf(x) : events'[i] = events[i]
  <2>1. x # 0
    BY SMT
  <2> QED
    BY <1>2, <1>3, <1>4, <1>5, <1>6, <2>1 DEF EventsOf
<1>8. \A i \in 1 .. Len(stack') : stack'[i].call = 0
  <2>1. Len(<<g>>) = 1 /\ <<g>>[1] = g /\ \A i \in 1 .. 1 : i = 1
    BY SMT
  <2> QED
    BY <1>2, <2>1
<1> QED
  BY <1>2, <1>7, <1>8, InboundTells

LEMMA EmitEndsTells == IInv /\ IInv' /\ Told /\ EmitEnds => Told'
<1> SUFFICES ASSUME IInv, IInv', Told, EmitEnds PROVE Told'
  OBVIOUS
<1>1. stack # <<>> /\ Top.at = "emitting" /\ UNCHANGED events /\ calls \in Seq(Call)
  BY Typing DEF EmitEnds, IInv
<1>2. CASE Top.call = 0
  <2>1. stack' = Popped /\ UNCHANGED calls
    BY <1>2 DEF EmitEnds
  <2>2. PICK n \in Nat \ {0} : n = Len(stack)
    BY <1>1, OnTop
  <2>3. Len(stack') = n - 1 /\ \A i \in 1 .. n - 1 : stack'[i] = stack[i]
    BY <1>1, <2>1, <2>2, Pop
  <2>4. ASSUME NEW i \in 1 .. n - 1 PROVE stack[i].call = 0
    <3>1. i \in 1 .. n /\ n \in 1 .. n /\ i <= n
      BY SMT
    <3>2. stack[i].call <= stack[n].call /\ stack[n].call = 0
      BY <1>2, <2>2, <3>1 DEF IInv, CallsNest, Top
    <3>3. stack[i].call = 0 \/ stack[i].call \in 1 .. Len(calls)
      BY <2>2, <3>1, OpenCall
    <3>4. Len(calls) \in Nat
      BY Typing DEF IInv
    <3>5. PICK c \in Nat : c = stack[i].call
      BY <3>3, <3>4, SMT
    <3> QED
      BY <3>2, <3>5, SMT
  <2>5. \A x \in 1 .. Len(calls) : /\ (EventsOf(x))' = EventsOf(x)
                                   /\ \A i \in EventsOf(x) : events'[i] = events[i]
    BY <1>1 DEF EventsOf
  <2> QED
    BY <2>1, <2>3, <2>4, <2>5, InboundTells
<1>3. CASE Top.call # 0
  <2>1. Ends(Top.outcome, calls)
    BY <1>3 DEF EmitEnds, emitSafe
  <2>2. Top.call \in 1 .. Len(calls) /\ Top.outcome \in Outcome
    BY <1>1, <1>3, EmittedCall
  <2> QED
    BY <1>1, <2>1, <2>2, EndsTells
<1> QED
  BY <1>2, <1>3

LEMMA OwnEndsTells == IInv /\ IInv' /\ Told /\ OwnEnds => Told'
<1> SUFFICES ASSUME IInv, IInv', Told, OwnEnds PROVE Told'
  OBVIOUS
<1>1. TypeOK /\ stack # <<>> /\ Top.at = "calling" /\ UNCHANGED events /\ Agrees(Top)
  BY OnTop DEF OwnEnds, IInv
<1>2. PICK k \in 1 .. Len(calls) : k = Top.call
  BY <1>1 DEF Agrees
<1>3. PICK o \in {"ok", "error"} : Ends(o, Done(k, o))
  BY <1>2 DEF OwnEnds, Done
<1>4. o \in Outcome
  BY DEF Outcome
<1>5. PICK h : h = Done(k, o)
  OBVIOUS
<1>6. /\ h \in Seq(Call) /\ Len(h) = Len(calls)
      /\ \A c \in 1 .. Len(calls) : h[c].seen = calls[c].seen
      /\ \A c \in 1 .. Len(calls) : c # k => h[c] = calls[c]
  BY <1>1, <1>5, OwnHistory
<1>7. h[k].taps = calls[k].taps
  <2>1. calls \in Seq(Call) /\ calls[k] \in Call
    BY <1>1, Typing
  <2>2. k \in DOMAIN calls
    <3> HIDE DEF Call
    <3> QED BY <2>1, LenProperties
  <2>3. PICK v : v = [calls[k] EXCEPT !.native = o, !.ran = @ + 1]
    OBVIOUS
  <2>4. v.taps = calls[k].taps
    BY <2>1, <2>3 DEF Call
  <2>5. h = [calls EXCEPT ![k] = v]
    BY <1>5, <2>2, <2>3 DEF Done
  <2>6. h[k] = v
    <3> HIDE DEF Call
    <3> QED BY <2>2, <2>5
  <2> QED
    BY <2>4, <2>6
<1>8. \A c \in 1 .. Len(calls) : h[c].taps = calls[c].taps
  BY <1>6, <1>7
<1> QED
  BY <1>1, <1>2, <1>3, <1>4, <1>5, <1>6, <1>8, EndsTells

-----------------------------------------------------------------------------
(* ReportedOnce: each tap that was on the object when a call of send()     *)
(* began reports the call once, the innermost first, with the outcome it   *)
(* had, whatever the sinks do meanwhile (webrtc.ts:162-190).               *)
THEOREM ReportsOnce == Spec => []ReportedOnce
<1>1. Init => ChainsInstalled /\ Told
  <2> SUFFICES ASSUME Init PROVE ChainsInstalled /\ Told
    OBVIOUS
  <2>1. Len(<<>>) = 0 /\ (\A i \in 1 .. 0 : FALSE) /\ (\A i \in 1 .. 0 - 1 : FALSE)
    BY SMT
  <2>2. ChainsInstalled
    BY <2>1 DEF Init, ChainsInstalled, Distinct
  <2>3. Stacked /\ Progressing /\ ReachesOwn
    BY <2>1 DEF Init, Stacked, Progressing, ReachesOwn
  <2> QED
    BY <2>1, <2>2, <2>3 DEF Init, Told, Finished, Truthful, InnerFirst
<1>2. IInv /\ IInv' /\ ChainsInstalled /\ Told /\ [Next]_vars => (ChainsInstalled /\ Told)'
  <2> SUFFICES ASSUME IInv, IInv', ChainsInstalled, Told, [Next]_vars
               PROVE  ChainsInstalled' /\ Told'
    OBVIOUS
  <2>1. CASE UNCHANGED <<stack, calls, events>>
    BY <2>1, NothingTold, ChainsStep
  <2>2. CASE \E t \in Tap : Hear(t)
    BY <2>2, HearTells, ChainsStep
  <2>3. CASE Send
    BY <2>3, SendTells, ChainsStep
  <2>4. CASE OwnEnds
    BY <2>4, OwnEndsTells, ChainsStep
  <2>5. CASE Emit
    BY <2>5, EmitTells, ChainsStep
  <2>6. CASE EmitEnds
    BY <2>6, EmitEndsTells, ChainsStep
  <2> QED
    BY <2>1, <2>2, <2>3, <2>4, <2>5, <2>6 DEF Next, vars, Install, Restore, Drain
<1>3. Told => ReportedOnce
  BY DEF Told, Finished, Truthful, InnerFirst, Reports, ReportedOnce
<1> QED
  BY <1>1, <1>2, <1>3, Invariance, PTL DEF Spec
=============================================================================

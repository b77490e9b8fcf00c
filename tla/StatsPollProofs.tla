--------------------------- MODULE StatsPollProofs ----------------------------
(***************************************************************************)
(* Proofs about StatsPoll, for any reports and any number of polls and     *)
(* connection events: each poll has one outcome, and restore() stops the   *)
(* poller. An event names the poll it answers, and a poll that an event    *)
(* names is done: so no other event can come to name it. What the adapter  *)
(* makes of a report does not depend on how the platform holds it: the     *)
(* keys of an object are ranked by KeyBefore, so its entries come in some  *)
(* order, each once; the pairs, the candidates and the lost packets found  *)
(* among them are those of the report, and a sum has no order.             *)
(***************************************************************************)
EXTENDS StatsPoll, FiniteSetTheorems, SequenceTheorems, NaturalsInduction,
        WellFoundedInduction, TLAPS

Answer == {"pending", "resolved", "broken", "rejected", "done"}
Message == [type : {"conn.state", "conn.stats", "send.error"}, poll : Nat, late : BOOLEAN]

Typed == polls \in Seq(Answer) /\ emitted \in Seq(Message)

(* The timer does not outlive restore(), nor do listeners that come off.    *)
Stopped ==
    installed = "restored" => timer = FALSE /\ (detachable => attached = FALSE)

(* The events of polls; those of the connection name none.                 *)
Answers == {i \in 1 .. Len(emitted) : emitted[i].poll # 0}

Answered ==
    \A i \in Answers : emitted[i].poll \in 1 .. Len(polls) /\ polls[emitted[i].poll] = "done"

Once == \A i, j \in Answers : emitted[i].poll = emitted[j].poll => i = j

(* A rejection that nobody handled is the end of its poll, in the place of *)
(* an event.                                                               *)
Rejected ==
    \A p \in Nat : Unhandled(p) =>
        /\ p \in 1 .. Len(polls) /\ polls[p] = "done"
        /\ \A i \in Answers : emitted[i].poll # p

Accounted ==
    \A p \in 1 .. Len(polls) :
        polls[p] = "done" => Unhandled(p) \/ \E i \in Answers : emitted[i].poll = p

IInv == Typed /\ Stopped /\ Answered /\ Once /\ Rejected /\ Accounted

-----------------------------------------------------------------------------
LEMMA Initially == PollInit => IInv
<1> SUFFICES ASSUME PollInit PROVE IInv
  OBVIOUS
<1>1. /\ polls = <<>> /\ emitted = <<>> /\ installed = "no"
      /\ Len(polls) = 0 /\ Len(emitted) = 0 /\ 1 .. 0 = {}
  BY EmptySeq, SMT DEF PollInit
<1>2. Typed
  BY <1>1, EmptySeq DEF Typed
<1>3. Answers = {}
  BY <1>1 DEF Answers
<1>4. \A p \in Nat : ~Unhandled(p)
  BY DEF PollInit, Unhandled
<1> QED
  BY <1>1, <1>2, <1>3, <1>4 DEF IInv, Stopped, Answered, Once, Rejected, Accounted

(* The only poll whose rejection an uncaught error makes unhandled is its  *)
(* own.                                                                    *)
LEMMA UncaughtStep ==
    ASSUME NEW where, NEW p, Uncaught(where, p)
    PROVE  /\ emitted' = emitted
           /\ \A q : Unhandled(q)' <=> Unhandled(q) \/ (where = "promise" /\ q = p)
<1>1. uncaught' = uncaught \union {[where |-> where, poll |-> p]} /\ emitted' = emitted
  BY DEF Uncaught
<1>2. ASSUME NEW q
      PROVE  [where |-> "promise", poll |-> q] = [where |-> where, poll |-> p]
                <=> where = "promise" /\ q = p
  OBVIOUS
<1> QED
  BY <1>1, <1>2 DEF Unhandled

(* A step that emits nothing and is done with no poll.                     *)
LEMMA SilentStep ==
    ASSUME IInv, UNCHANGED <<emitted, uncaught>>, polls' \in Seq(Answer), Stopped',
           Len(polls) \in Nat, Len(polls') \in Nat, Len(polls) <= Len(polls'),
           \A p \in 1 .. Len(polls) : polls[p] = "done" => polls'[p] = "done",
           \A p \in 1 .. Len(polls') :
               polls'[p] = "done" => p \in 1 .. Len(polls) /\ polls[p] = "done"
    PROVE  IInv'
<1>1. Typed' /\ Answers' = Answers
  BY DEF IInv, Typed, Answers
<1>2. Answered'
  <2> SUFFICES ASSUME NEW i \in Answers
               PROVE  emitted[i].poll \in 1 .. Len(polls') /\ polls'[emitted[i].poll] = "done"
    BY <1>1 DEF Answered
  <2>1. PICK p \in 1 .. Len(polls) : p = emitted[i].poll /\ polls[p] = "done"
    BY DEF IInv, Answered
  <2>2. p \in 1 .. Len(polls')
    BY <2>1, SMT
  <2> QED
    BY <2>1, <2>2
<1>3. Once'
  BY <1>1 DEF IInv, Once
<1>4. \A p : Unhandled(p)' <=> Unhandled(p)
  BY DEF Unhandled
<1>5. Accounted'
  <2> SUFFICES ASSUME NEW p \in 1 .. Len(polls'), polls'[p] = "done"
               PROVE  Unhandled(p) \/ \E i \in Answers : emitted[i].poll = p
    BY <1>1, <1>4 DEF Accounted
  <2> QED
    BY DEF IInv, Accounted
<1>6. Rejected'
  <2> SUFFICES ASSUME NEW p \in Nat, Unhandled(p)
               PROVE  /\ p \in 1 .. Len(polls') /\ polls'[p] = "done"
                      /\ \A i \in Answers : emitted[i].poll # p
    BY <1>1, <1>4 DEF Rejected
  <2>1. /\ p \in 1 .. Len(polls) /\ polls[p] = "done"
        /\ \A i \in Answers : emitted[i].poll # p
    BY DEF IInv, Rejected
  <2>2. p \in 1 .. Len(polls')
    BY <2>1, SMT
  <2> QED
    BY <2>1, <2>2
<1> QED
  BY <1>1, <1>2, <1>3, <1>5, <1>6 DEF IInv

LEMMA EmitProperties ==
    ASSUME Typed, NEW n \in Nat, n = Len(emitted), NEW e \in Message, emitted' = Append(emitted, e)
    PROVE  /\ emitted' \in Seq(Message) /\ Len(emitted') = n + 1
           /\ \A i \in 1 .. n : emitted'[i] = emitted[i]
           /\ emitted'[n + 1] = e
           /\ Answers' = IF e.poll = 0 THEN Answers ELSE Answers \union {n + 1}
<1>1. emitted \in Seq(Message)
  BY DEF Typed
<1>2. /\ emitted' \in Seq(Message) /\ Len(emitted') = n + 1
      /\ \A i \in 1 .. n : emitted'[i] = emitted[i]
      /\ emitted'[n + 1] = e
  <2> HIDE DEF Message
  <2> QED
    BY <1>1, AppendProperties
<1>3. 1 .. n + 1 = (1 .. n) \union {n + 1} /\ n + 1 \notin 1 .. n
  BY SMT
<1>4. Answers' = {i \in 1 .. n + 1 : emitted'[i].poll # 0}
  BY <1>2 DEF Answers
<1>5. Answers = {i \in 1 .. n : emitted[i].poll # 0}
  BY DEF Answers
<1> QED
  BY <1>2, <1>3, <1>4, <1>5

LEMMA EventProperties ==
    ASSUME NEW type \in {"conn.state", "conn.stats", "send.error"}, NEW p \in Nat
    PROVE  /\ PollEvent(type, p) \in Message
           /\ PollEvent(type, p).type = type /\ PollEvent(type, p).poll = p
           /\ PollEvent(type, p).late = (installed = "restored")
<1>1. PICK b \in BOOLEAN : b = (installed = "restored")
  BY Zenon
<1>2. PollEvent(type, p) = [type |-> type, poll |-> p, late |-> b]
  BY <1>1 DEF PollEvent
<1> QED
  BY <1>1, <1>2 DEF Message

LEMMA ExceptFun ==
    ASSUME NEW I, NEW A, NEW f \in [I -> A], NEW p \in I, NEW x \in A
    PROVE  /\ [f EXCEPT ![p] = x] \in [I -> A] /\ [f EXCEPT ![p] = x][p] = x
           /\ \A q \in I : q # p => [f EXCEPT ![p] = x][q] = f[q]
OBVIOUS

LEMMA SeqOfFun ==
    ASSUME NEW S, NEW n \in Nat, NEW f \in [1 .. n -> S]
    PROVE  f \in Seq(S) /\ Len(f) = n
<1>1. f \in Seq(S)
  BY SeqDef
<1>2. Len(f) \in Nat /\ 1 .. Len(f) = 1 .. n
  BY <1>1, LenProperties
<1>3. Len(f) = n
  BY <1>2, SMT
<1> QED
  BY <1>1, <1>3

(* A poll that is not done yet is, and an event says so - or none does,    *)
(* and the rejection is unhandled.                                         *)
LEMMA DoneStep ==
    ASSUME IInv, NEW p \in 1 .. Len(polls), polls[p] # "done", NEW type \in {"conn.stats", "send.error"},
           polls' = [polls EXCEPT ![p] = "done"], UNCHANGED pollWiring,
           Emits(PollEvent(type, p)) \/ Uncaught("promise", p)
    PROVE  IInv'
<1>1. Typed /\ polls \in Seq(Answer)
  BY DEF IInv, Typed
<1>2. PICK m \in Nat, n \in Nat : m = Len(polls) /\ n = Len(emitted)
  BY <1>1, LenProperties DEF Typed
<1>3. /\ polls' \in Seq(Answer) /\ Len(polls') = m
      /\ polls'[p] = "done" /\ \A q \in 1 .. m : q # p => polls'[q] = polls[q]
  <2>1. polls \in [1 .. m -> Answer] /\ "done" \in Answer
    BY <1>1, <1>2, LenProperties DEF Answer
  <2>2. polls' \in [1 .. m -> Answer] /\ polls'[p] = "done"
        /\ \A q \in 1 .. m : q # p => polls'[q] = polls[q]
    <3>1. polls' = [polls EXCEPT ![p] = "done"] /\ p \in 1 .. m
      BY <1>2
    <3> QED
      BY ONLY <2>1, <3>1, ExceptFun
  <2>3. polls' \in Seq(Answer) /\ Len(polls') = m
    BY ONLY <2>2, SeqOfFun
  <2> QED
    BY <2>2, <2>3
<1>4. p \in 1 .. m /\ p # 0 /\ p \in Nat
  BY <1>2, SMT
<1>5. \A i \in Answers : emitted[i].poll # p
  BY DEF IInv, Answered
<1>6. Stopped'
  BY DEF IInv, Stopped, pollWiring
<1>7. ~Unhandled(p)
  BY <1>4 DEF IInv, Rejected
<1>8. CASE Emits(PollEvent(type, p))
  <2>1. PICK e \in Message : e = PollEvent(type, p) /\ e.poll = p
    BY <1>4, EventProperties
  <2>2. /\ emitted' \in Seq(Message) /\ Len(emitted') = n + 1
        /\ \A i \in 1 .. n : emitted'[i] = emitted[i]
        /\ emitted'[n + 1] = e
        /\ Answers' = Answers \union {n + 1}
    BY <1>1, <1>2, <1>4, <1>8, <2>1, EmitProperties DEF Emits
  <2>3. /\ \A i \in Answers : i \in 1 .. n /\ emitted'[i].poll = emitted[i].poll
        /\ n + 1 \notin 1 .. n /\ emitted'[n + 1].poll = p
    BY <1>2, <2>1, <2>2, SMT DEF Answers
  <2>4. Answered'
    <3>1. \A i \in Answers : emitted[i].poll \in 1 .. m /\ polls[emitted[i].poll] = "done"
      BY <1>2 DEF IInv, Answered
    <3> QED
      BY <1>3, <1>4, <1>5, <2>2, <2>3, <3>1 DEF Answered
  <2>5. Once'
    <3>1. \A i, j \in Answers : emitted[i].poll = emitted[j].poll => i = j
      BY DEF IInv, Once
    <3> QED
      BY <1>5, <2>2, <2>3, <3>1 DEF Once
  <2>6. \A q : Unhandled(q)' <=> Unhandled(q)
    BY <1>8 DEF Emits, Unhandled
  <2>7. Rejected'
    <3> SUFFICES ASSUME NEW q \in Nat, Unhandled(q)
                 PROVE  /\ q \in 1 .. m /\ polls'[q] = "done"
                        /\ \A i \in Answers' : emitted'[i].poll # q
      BY <1>3, <2>6 DEF Rejected
    <3>1. /\ q \in 1 .. m /\ polls[q] = "done" /\ q # p
          /\ \A i \in Answers : emitted[i].poll # q
      BY <1>2, <1>7 DEF IInv, Rejected
    <3> QED
      BY <1>3, <2>2, <2>3, <3>1
  <2>8. Accounted'
    <3> SUFFICES ASSUME NEW q \in 1 .. m, polls'[q] = "done"
                 PROVE  Unhandled(q) \/ \E i \in Answers' : emitted'[i].poll = q
      BY <1>3, <2>6 DEF Accounted
    <3>1. CASE q = p
      BY <2>2, <2>3, <3>1
    <3>2. CASE q # p
      <4>1. Unhandled(q) \/ \E i \in Answers : emitted[i].poll = q
        BY <1>2, <1>3, <3>2 DEF IInv, Accounted
      <4> QED
        BY <2>2, <2>3, <4>1
    <3> QED
      BY <3>1, <3>2
  <2> QED
    BY <1>3, <1>6, <2>2, <2>4, <2>5, <2>8, <2>7 DEF IInv, Typed
<1>9. CASE Uncaught("promise", p)
  <2>1. emitted' = emitted /\ \A q : Unhandled(q)' <=> Unhandled(q) \/ q = p
    BY <1>9, UncaughtStep
  <2>2. emitted' = emitted /\ Answers' = Answers
    BY <2>1 DEF Answers
  <2>3. Answered'
    <3>1. \A i \in Answers : emitted[i].poll \in 1 .. m /\ polls[emitted[i].poll] = "done"
      BY <1>2 DEF IInv, Answered
    <3> QED
      BY <1>3, <1>5, <2>2, <3>1 DEF Answered
  <2>4. Once'
    BY <2>2 DEF IInv, Once
  <2>5. Accounted'
    <3> SUFFICES ASSUME NEW q \in 1 .. m, polls'[q] = "done", q # p
                 PROVE  Unhandled(q) \/ \E i \in Answers : emitted[i].poll = q
      BY <1>3, <2>2, <2>1 DEF Accounted
    <3> QED
      BY <1>2, <1>3 DEF IInv, Accounted
  <2>6. Rejected'
    <3> SUFFICES ASSUME NEW q \in Nat, Unhandled(q) \/ q = p
                 PROVE  /\ q \in 1 .. m /\ polls'[q] = "done"
                        /\ \A i \in Answers : emitted[i].poll # q
      BY <1>3, <2>2, <2>1 DEF Rejected
    <3>1. CASE q = p
      BY <1>3, <1>4, <1>5, <3>1
    <3>2. CASE q # p
      <4>1. /\ q \in 1 .. m /\ polls[q] = "done"
            /\ \A i \in Answers : emitted[i].poll # q
        BY <1>2, <3>2 DEF IInv, Rejected
      <4> QED
        BY <1>3, <3>2, <4>1
    <3> QED
      BY <3>1, <3>2
  <2> QED
    BY <1>1, <1>3, <1>6, <2>2, <2>3, <2>4, <2>5, <2>6 DEF IInv, Typed
<1> QED
  BY <1>8, <1>9

LEMMA InductiveStep == IInv /\ [PollNext]_pollVars => IInv'
<1> SUFFICES ASSUME IInv, [PollNext]_pollVars PROVE IInv'
  OBVIOUS
<1>1. Typed /\ polls \in Seq(Answer) /\ Stopped
  BY DEF IInv, Typed
<1>2. PICK m \in Nat, n \in Nat : m = Len(polls) /\ n = Len(emitted)
  BY <1>1, LenProperties DEF Typed
<1>3. ASSUME UNCHANGED <<polls, emitted, uncaught>>, Stopped' PROVE IInv'
  BY <1>1, <1>2, <1>3, SilentStep, SMT
<1>4. ASSUME UNCHANGED polls, Stopped', NEW where \in {"listener", "timer"}, Uncaught(where, 0)
       PROVE  IInv'
  <2>1. /\ emitted' = emitted /\ Answers' = Answers /\ polls' = polls
        /\ \A p : Unhandled(p)' <=> Unhandled(p)
    BY <1>4, UncaughtStep DEF Answers
  <2>2. Typed /\ Answered /\ Once /\ Rejected /\ Accounted
    BY DEF IInv
  <2>3. Typed' /\ Answered' /\ Once'
    BY ONLY <2>1, <2>2 DEF Typed, Answered, Once
  <2>4. Rejected' /\ Accounted'
    BY ONLY <2>1, <2>2 DEF Rejected, Accounted
  <2> QED
    BY <1>4, <2>3, <2>4 DEF IInv
<1>5. CASE UNCHANGED pollVars
  BY <1>1, <1>3, <1>5 DEF pollVars, pollWiring, Stopped
<1>6. CASE Instrument
  BY <1>3, <1>6 DEF Instrument, Stopped
<1>7. CASE RestorePoll
  BY <1>3, <1>7 DEF RestorePoll, ClearInterval, Stopped
<1>8. CASE Change
  <2>1. PICK e \in Message : e = PollEvent("conn.state", 0) /\ e.poll = 0
    BY EventProperties
  <2>2. polls' = polls /\ Stopped'
    BY <1>1, <1>8 DEF Change, Stopped, pollWiring
  <2>3. CASE Emits(PollEvent("conn.state", 0))
    <3>1. emitted' = Append(emitted, e) /\ uncaught' = uncaught
      BY <2>1, <2>3 DEF Emits
    <3>2. /\ emitted' \in Seq(Message) /\ Answers' = Answers
          /\ \A i \in 1 .. n : emitted'[i] = emitted[i]
      BY <1>1, <1>2, <2>1, <3>1, EmitProperties
    <3>3. \A i \in Answers : emitted'[i] = emitted[i]
      BY <1>2, <3>2 DEF Answers
    <3>4. Answered' /\ Once'
      BY <2>2, <3>2, <3>3 DEF IInv, Answered, Once
    <3>5. Accounted' /\ Rejected'
      <4>1. /\ \A i \in Answers : emitted'[i] = emitted[i]
            /\ Answers' = Answers
        BY <3>2, <3>3
      <4>2. polls' = polls /\ Accounted /\ Rejected
        BY <2>2 DEF IInv
      <4>3. \A p : Unhandled(p)' <=> Unhandled(p)
        BY <3>1 DEF Unhandled
      <4>4. Accounted'
        BY ONLY <4>1, <4>2, <4>3 DEF Accounted
      <4>5. Rejected'
        BY ONLY <4>1, <4>2, <4>3 DEF Rejected
      <4> QED
        BY <4>4, <4>5
    <3> QED
      BY <1>1, <2>2, <3>2, <3>4, <3>5 DEF IInv, Typed
  <2>4. CASE Uncaught("listener", 0)
    BY <2>2, <2>4, <1>4
  <2> QED
    BY <1>8, <2>3, <2>4 DEF Change
<1>9. CASE Poll
  <2>1. Stopped'
    BY <1>1, <1>9 DEF Poll, Stopped, pollWiring
  <2>2. CASE polls' = Append(polls, "pending") /\ UNCHANGED <<emitted, uncaught>>
    <3>1. /\ polls' \in Seq(Answer) /\ Len(polls') = m + 1
          /\ \A q \in 1 .. m : polls'[q] = polls[q]
          /\ polls'[m + 1] = "pending"
      <4>1. "pending" \in Answer
        BY DEF Answer
      <4> HIDE DEF Answer
      <4> QED
        BY <1>1, <1>2, <2>2, <4>1, AppendProperties
    <3>2. 1 .. m + 1 = (1 .. m) \union {m + 1} /\ m <= m + 1 /\ m + 1 \in Nat
      BY SMT
    <3>3. \A q \in 1 .. m + 1 : polls'[q] = "done" => q \in 1 .. m /\ polls[q] = "done"
      BY <3>1, <3>2
    <3>4. \A q \in 1 .. m : polls[q] = "done" => polls'[q] = "done"
      BY <3>1
    <3> QED
      BY <1>2, <2>1, <2>2, <3>1, <3>2, <3>3, <3>4, SilentStep
  <2>3. CASE Uncaught("timer", 0) /\ UNCHANGED polls
    BY <1>4, <2>1, <2>3
  <2> QED
    BY <1>9, <2>2, <2>3 DEF Poll
<1>10. ASSUME NEW p \in 1 .. Len(polls), NEW answer \in Answer \ {"done"}, polls[p] # "done",
             polls' = [polls EXCEPT ![p] = answer], UNCHANGED <<pollWiring, emitted, uncaught>>
      PROVE  IInv'
  <2>1. polls \in [1 .. m -> Answer]
    BY <1>1, <1>2, LenProperties
  <2>2. polls' \in [1 .. m -> Answer] /\ polls'[p] = answer
        /\ \A q \in 1 .. m : q # p => polls'[q] = polls[q]
    BY <1>2, <1>10, <2>1
  <2>3. polls' \in Seq(Answer)
    BY <2>2, SeqDef
  <2>4. Len(polls') = m
    BY <2>2, <2>3, LenProperties, SMT
  <2>5. Stopped'
    BY <1>1, <1>10 DEF Stopped, pollWiring
  <2>6. \A q \in 1 .. m : polls'[q] = "done" <=> polls[q] = "done"
    BY <1>10, <2>2
  <2> QED
    BY <1>2, <1>10, <2>3, <2>4, <2>5, <2>6, SilentStep
<1>11. ASSUME NEW p \in 1 .. Len(polls), Settle(p) PROVE IInv'
  BY <1>10, <1>11 DEF Settle, Answer
<1>12. ASSUME NEW p \in 1 .. Len(polls), OnStats(p) PROVE IInv'
  <2>1. polls[p] # "done" /\ pollWiring' = pollWiring
    BY <1>12 DEF OnStats
  <2>2. CASE polls' = [polls EXCEPT ![p] = "rejected"] /\ UNCHANGED <<emitted, uncaught>>
    BY <1>10, <2>1, <2>2 DEF Answer
  <2>3. CASE polls' = [polls EXCEPT ![p] = "done"] /\ Emits(PollEvent("conn.stats", p))
    BY <2>1, <2>3, DoneStep
  <2> QED
    BY <1>12, <2>2, <2>3 DEF OnStats, emitSafely
<1>13. ASSUME NEW p \in 1 .. Len(polls), OnError(p) PROVE IInv'
  BY <1>13, DoneStep DEF OnError
<1> QED
  BY <1>5, <1>6, <1>7, <1>8, <1>9, <1>11, <1>12, <1>13 DEF PollNext

LEMMA Invariance == PollSpec => []IInv
BY Initially, InductiveStep, PTL DEF PollSpec

(* OneOutcomePerPoll: however polls overlap and answers are reordered, a   *)
(* poll has one event once both its handlers are done, or else its own     *)
(* rejection is unhandled (webrtc.ts:279-293).                             *)
THEOREM OneOutcome == PollSpec => []OneOutcomePerPoll
<1>1. ASSUME IInv PROVE OneOutcomePerPoll
  <2> SUFFICES ASSUME NEW p \in 1 .. Len(polls)
               PROVE  /\ Cardinality(EventsOfPoll(p)) <= 1
                      /\ EventsOfPoll(p) # {} => ~Unhandled(p)
                      /\ polls[p] = "done" <=> EventsOfPoll(p) # {} \/ Unhandled(p)
    BY DEF OneOutcomePerPoll
  <2>1. p # 0
    BY SMT
  <2>2. EventsOfPoll(p) = {i \in Answers : emitted[i].poll = p}
    BY <2>1 DEF EventsOfPoll, Answers
  <2>3. \A i, j \in EventsOfPoll(p) : i = j
    BY <1>1, <2>2 DEF IInv, Once
  <2>4. Cardinality(EventsOfPoll(p)) <= 1
    <3>1. CASE EventsOfPoll(p) = {}
      BY <3>1, FS_EmptySet, SMT
    <3>2. CASE EventsOfPoll(p) # {}
      <4>1. PICK i : EventsOfPoll(p) = {i}
        BY <2>3, <3>2
      <4>2. Cardinality(EventsOfPoll(p)) = 1
        BY <4>1, FS_Singleton
      <4> QED
        BY <4>2, SMT
    <3> QED
      BY <3>1, <3>2
  <2>5. EventsOfPoll(p) # {} => polls[p] = "done"
    BY <1>1, <2>2 DEF IInv, Answered
  <2>6. polls[p] = "done" => EventsOfPoll(p) # {} \/ Unhandled(p)
    BY <1>1, <2>2 DEF IInv, Accounted
  <2>7. Unhandled(p) => polls[p] = "done" /\ EventsOfPoll(p) = {}
    <3>1. p \in Nat
      BY SMT
    <3> QED
      BY <1>1, <2>2, <3>1 DEF IInv, Rejected
  <2> QED
    BY <2>4, <2>5, <2>6, <2>7
<1> QED
  BY <1>1, Invariance, PTL

(* QuietAfterRestore: what is emitted after restore() answers a poll that  *)
(* was under way by then, unless it is an event of a connection whose      *)
(* listeners do not come off, and no poll is begun (webrtc.ts:296-299).    *)
THEOREM Quiet == PollSpec => QuietAfterRestore
<1>1. ASSUME IInv, IInv', [PollNext]_pollVars, installed = "restored"
      PROVE  AnswersOnly
  <2>1. timer = FALSE /\ (detachable => attached = FALSE)
    BY <1>1 DEF IInv, Stopped
  <2>2. PICK m \in Nat, n \in Nat : m = Len(polls) /\ n = Len(emitted)
    BY <1>1, LenProperties DEF IInv, Typed
  <2>3. polls \in Seq(Answer) /\ Typed
    BY <1>1 DEF IInv, Typed
  <2>4. ~Instrument /\ ~Poll /\ (Change => ~detachable)
    BY <1>1, <2>1 DEF Instrument, Change, Poll
  <2>5. ASSUME UNCHANGED <<polls, emitted>> PROVE AnswersOnly
    <3>1. Len(emitted) + 1 .. Len(emitted') = {}
      BY <2>2, <2>5, SMT
    <3> QED
      BY <2>5, <3>1 DEF AnswersOnly
  <2>6. ASSUME NEW p \in 1 .. Len(polls), NEW answer, polls' = [polls EXCEPT ![p] = answer]
        PROVE  Len(polls') = m
    <3>1. polls \in [1 .. m -> Answer]
      BY <2>2, <2>3, LenProperties
    <3>2. DOMAIN polls' = 1 .. m /\ polls' \in Seq(Answer)
      BY <1>1, <2>6, <3>1 DEF IInv, Typed
    <3> QED
      BY <3>2, LenProperties, SMT
  <2>7. ASSUME NEW p \in 1 .. Len(polls), NEW answer, polls' = [polls EXCEPT ![p] = answer],
               UNCHANGED emitted
        PROVE  AnswersOnly
    <3>1. Len(emitted) + 1 .. Len(emitted') = {}
      BY <2>2, <2>7, SMT
    <3> QED
      BY <2>2, <2>6, <2>7, <3>1 DEF AnswersOnly
  <2>8. ASSUME NEW p \in 1 .. Len(polls), NEW answer, polls' = [polls EXCEPT ![p] = answer],
               NEW type \in {"conn.stats", "send.error"}, Emits(PollEvent(type, p)), polls[p] # "done"
        PROVE  AnswersOnly
    <3>1. p \in Nat
      BY SMT
    <3>2. PICK e \in Message : /\ e = PollEvent(type, p) /\ e.poll = p
                               /\ e.type = type /\ e.late = (installed = "restored")
      BY <3>1, EventProperties
    <3>3. Len(emitted') = n + 1 /\ emitted'[n + 1] = e
      BY <2>2, <2>3, <2>8, <3>2, EmitProperties DEF Emits
    <3>4. n + 1 .. n + 1 = {n + 1}
      BY SMT
    <3>5. e.late /\ e.type # "conn.state" /\ polls[e.poll] # "done"
      BY <1>1, <2>8, <3>2, Zenon
    <3> QED
      BY <2>2, <2>6, <2>8, <3>3, <3>4, <3>5 DEF AnswersOnly
  <2>9. CASE UNCHANGED pollVars
    BY <1>1, <2>5, <2>9 DEF pollVars
  <2>10. CASE RestorePoll
    BY <1>1, <2>5, <2>10 DEF RestorePoll
  <2>11. ASSUME NEW p \in 1 .. Len(polls), Settle(p) PROVE AnswersOnly
    BY <2>7, <2>11 DEF Settle
  <2>12. ASSUME NEW p \in 1 .. Len(polls), OnStats(p) PROVE AnswersOnly
    BY <2>7, <2>8, <2>12 DEF OnStats, emitSafely
  <2>13. ASSUME NEW p \in 1 .. Len(polls), OnError(p) PROVE AnswersOnly
    BY <2>7, <2>8, <2>13 DEF OnError, Uncaught
  <2>14. CASE \E p \in 1 .. Len(polls) : Settle(p) \/ OnStats(p) \/ OnError(p)
    BY <2>11, <2>12, <2>13, <2>14
  <2>15. CASE Change
    <3>1. polls' = polls /\ ~detachable
      BY <2>4, <2>15 DEF Change
    <3>2. CASE Uncaught("listener", 0)
      BY <2>5, <3>1, <3>2 DEF Uncaught
    <3>3. CASE Emits(PollEvent("conn.state", 0))
      <4>1. PICK e \in Message : /\ e = PollEvent("conn.state", 0)
                                 /\ e.type = "conn.state" /\ e.late = (installed = "restored")
        BY EventProperties
      <4>2. Len(emitted') = n + 1 /\ emitted'[n + 1] = e
        BY <2>2, <2>3, <3>3, <4>1, EmitProperties DEF Emits
      <4>3. n + 1 .. n + 1 = {n + 1}
        BY SMT
      <4>4. e.late /\ e.type = "conn.state"
        BY <1>1, <4>1, Zenon
      <4> QED
        BY <2>2, <3>1, <4>2, <4>3, <4>4 DEF AnswersOnly
    <3> QED
      BY <2>15, <3>2, <3>3 DEF Change
  <2> QED
    BY <1>1, <2>4, <2>9, <2>10, <2>14, <2>15 DEF PollNext
<1>2. IInv /\ IInv' /\ [PollNext]_pollVars => [installed = "restored" => AnswersOnly]_pollVars
  BY <1>1
<1> QED
  BY <1>2, Invariance, PTL DEF PollSpec, QuietAfterRestore

-----------------------------------------------------------------------------
-----------------------------------------------------------------------------
(* Sums over a finite set: a fold takes the elements of each set one by    *)
(* one, beginning with pick[s]. The sum does not depend on the order.      *)
Picks(pick, D) == \A s \in SUBSET D : s # {} => pick[s] \in s

Sums(total, term, pick, D) ==
    /\ IsFiniteSet(D) /\ term \in [D -> Int] /\ Picks(pick, D)
    /\ total[{}] = 0
    /\ \A s \in SUBSET D : s # {} =>
          \/ total[s] = term[pick[s]] + total[s \ {pick[s]}]
          \/ total[s] = total[s \ {pick[s]}] + term[pick[s]]

AddsUp(total, term, D) ==
    \A s \in SUBSET D : \A x \in s : total[s] = term[x] + total[s \ {x}]

LEMMA LeastOf == \A T : T \subseteq Nat /\ T # {} => \E m \in T : \A k \in T : m <= k
<1> SUFFICES ASSUME NEW T, T \subseteq Nat, T # {} PROVE \E m \in T : \A k \in T : m <= k
  OBVIOUS
<1>1. PICK m \in T : \A k \in T : <<k, m>> \notin OpToRel(<, Nat)
  BY NatLessThanWellFounded, WFMin, Zenon
<1>2. \A k \in T : ~(k < m)
  BY <1>1, Zenon DEF OpToRel
<1>3. \A k \in T : m <= k
  BY <1>2, SMT
<1> QED
  BY <1>3

(* Among subsets of a finite set one has no smaller one beside it.         *)
LEMMA SmallestSubset ==
    ASSUME NEW D, IsFiniteSet(D), NEW some, some \subseteq SUBSET D, some # {}
    PROVE  \E s \in some : \A x \in s : s \ {x} \notin some
<1>1. IsWellFoundedOn(StrictSubsetOrdering(D), SUBSET D)
  BY FS_StrictSubsetOrderingWellFounded, FS_FiniteSubsetsOfFinite
<1>2. PICK s \in some : \A t \in some : <<t, s>> \notin StrictSubsetOrdering(D)
  BY <1>1, WFMin, Zenon
<1>3. ASSUME NEW x \in s PROVE s \ {x} \notin some
  <2>1. s \ {x} \in SUBSET D /\ s \in SUBSET D /\ s \ {x} \subseteq s /\ s \ {x} # s
    BY <1>3
  <2>2. <<s \ {x}, s>> \in StrictSubsetOrdering(D)
    BY <2>1 DEF StrictSubsetOrdering
  <2> QED
    BY <1>2, <2>2
<1> QED
  BY <1>3

(* The sum of numbers is a number ...                                      *)
LEMMA SumIsANumber ==
    ASSUME NEW D, NEW term, NEW pick, NEW total, Sums(total, term, pick, D)
    PROVE  \A s \in SUBSET D : total[s] \in Int
<1> DEFINE wrong == {s \in SUBSET D : total[s] \notin Int}
<1>1. ASSUME wrong # {} PROVE FALSE
  <2>1. PICK s \in wrong : \A x \in s : s \ {x} \notin wrong
    BY <1>1, SmallestSubset DEF Sums
  <2>2. s \in SUBSET D /\ total[s] \notin Int
    BY <2>1
  <2>3. s # {}
    <3>1. total[{}] \in Int
      BY DEF Sums
    <3> QED
      BY <2>2, <3>1
  <2>4. PICK p : p = pick[s] /\ p \in s /\ p \in D
    BY <2>2, <2>3 DEF Sums, Picks
  <2>5. PICK a \in Int, b \in Int : a = term[p] /\ b = total[s \ {p}]
    BY <2>1, <2>2, <2>4 DEF Sums
  <2>6. total[s] = a + b \/ total[s] = b + a
    BY <2>2, <2>4, <2>5, <2>3 DEF Sums
  <2> QED
    BY <2>2, <2>6
<1> QED
  BY <1>1

(* ... in which any term may come first.                                   *)
LEMMA AnyTermFirst ==
    ASSUME NEW D, NEW term, NEW pick, NEW total, Sums(total, term, pick, D)
    PROVE  AddsUp(total, term, D)
<1> DEFINE wrong == {s \in SUBSET D : \E x \in s : total[s] # term[x] + total[s \ {x}]}
<1>1. \A s \in SUBSET D : total[s] \in Int
  BY SumIsANumber
<1>2. ASSUME wrong # {} PROVE FALSE
  <2>1. PICK s \in wrong : \A x \in s : s \ {x} \notin wrong
    BY <1>2, SmallestSubset DEF Sums
  <2>2. PICK x \in s : total[s] # term[x] + total[s \ {x}]
    BY <2>1
  <2>3. s \in SUBSET D /\ s # {}
    BY <2>1, <2>2
  <2>4. PICK p : p = pick[s] /\ p \in s /\ p \in D /\ x \in D
    BY <2>2, <2>3 DEF Sums, Picks
  <2>5. /\ s \ {p} \in SUBSET D /\ s \ {x} \in SUBSET D
        /\ (s \ {p}) \ {x} = (s \ {x}) \ {p} /\ (s \ {x}) \ {p} \in SUBSET D
    BY <2>3
  <2>6. PICK a \in Int, b \in Int, all \in Int, noP \in Int, noX \in Int, neither \in Int :
          /\ a = term[p] /\ b = term[x] /\ all = total[s] /\ noP = total[s \ {p}]
          /\ noX = total[s \ {x}] /\ neither = total[(s \ {x}) \ {p}]
    BY <1>1, <2>3, <2>4, <2>5 DEF Sums
  <2>7. all = a + noP
    <3>1. all = a + noP \/ all = noP + a
      BY <2>3, <2>4, <2>6 DEF Sums
    <3> QED
      BY <3>1
  <2>8. x # p
    BY <2>2, <2>6, <2>7
  <2>9. noP = b + neither
    <3>1. x \in s \ {p} /\ s \ {p} \notin wrong
      BY <2>1, <2>4, <2>8
    <3>2. total[s \ {p}] = term[x] + total[(s \ {p}) \ {x}]
      BY <2>5, <3>1
    <3> QED
      BY <2>5, <2>6, <3>2
  <2>10. noX = a + neither
    <3>1. p \in s \ {x} /\ s \ {x} \notin wrong
      BY <2>1, <2>4, <2>8
    <3>2. total[s \ {x}] = term[p] + total[(s \ {x}) \ {p}]
      BY <2>5, <3>1
    <3> QED
      BY <2>6, <3>2
  <2>11. all = b + noX
    BY <2>7, <2>9, <2>10
  <2> QED
    BY <2>2, <2>6, <2>11
<1> QED
  BY <1>2 DEF AddsUp

(* A sum over A is one over B when each term of A is the one of its image  *)
(* in B, or 0 without an image, and no two have the same.                  *)
LEMMA SumsAgree ==
    ASSUME NEW A, NEW termA, NEW pickA, NEW totalA, Sums(totalA, termA, pickA, A),
           NEW B, NEW termB, NEW pickB, NEW totalB, Sums(totalB, termB, pickB, B),
           NEW image,
           \A x, y \in A : image[x] = image[y] => x = y,
           \A y \in B : \E x \in A : image[x] = y,
           \A x \in A : termA[x] = IF image[x] \in B THEN termB[image[x]] ELSE 0
    PROVE  totalA[A] = totalB[B]
<1> DEFINE Images(s) == {y \in B : \E x \in s : image[x] = y}
           wrong == {s \in SUBSET A : totalA[s] # totalB[Images(s)]}
<1>1. AddsUp(totalA, termA, A) /\ AddsUp(totalB, termB, B)
  BY AnyTermFirst
<1>2. /\ \A s \in SUBSET A : totalA[s] \in Int
      /\ \A s \in SUBSET B : totalB[s] \in Int
  <2>1. \A s \in SUBSET A : totalA[s] \in Int
    BY SumIsANumber, Zenon
  <2>2. \A s \in SUBSET B : totalB[s] \in Int
    BY SumIsANumber, Zenon
  <2> QED
    BY <2>1, <2>2
<1>3. ASSUME wrong # {} PROVE FALSE
  <2>1. PICK s \in wrong : \A x \in s : s \ {x} \notin wrong
    BY <1>3, SmallestSubset DEF Sums
  <2>2. s \in SUBSET A /\ totalA[s] # totalB[Images(s)] /\ Images(s) \in SUBSET B
    BY <2>1
  <2>3. s # {}
    BY <2>2 DEF Sums
  <2>4. PICK x \in s : x \in A
    BY <2>2, <2>3
  <2>5. s \ {x} \in SUBSET A /\ totalA[s \ {x}] = totalB[Images(s \ {x})]
    BY <2>1, <2>2, <2>4
  <2>6. CASE image[x] \in B
    <3>1. image[x] \in Images(s) /\ Images(s \ {x}) = Images(s) \ {image[x]}
      BY <2>2, <2>4, <2>6
    <3>2. totalB[Images(s)] = termB[image[x]] + totalB[Images(s \ {x})]
      <4>1. PICK I, y : I = Images(s) /\ y = image[x]
        OBVIOUS
      <4>2. I \in SUBSET B /\ y \in I /\ Images(s \ {x}) = I \ {y}
        BY <2>2, <3>1, <4>1
      <4>3. totalB[I] = termB[y] + totalB[I \ {y}]
        BY <1>1, <4>2, Zenon DEF AddsUp
      <4> HIDE DEF Images
      <4> QED
        BY <4>1, <4>2, <4>3
    <3> QED
      BY <1>1, <2>2, <2>4, <2>5, <2>6, <3>2 DEF AddsUp
  <2>7. CASE image[x] \notin B
    <3>1. Images(s \ {x}) = Images(s)
      BY <2>2, <2>4, <2>7
    <3>2. termA[x] = 0
      BY <2>4, <2>7
    <3>3. totalA[s] = termA[x] + totalA[s \ {x}]
      BY <1>1, <2>2, <2>4 DEF AddsUp
    <3>4. totalA[s] = totalA[s \ {x}]
      BY <1>2, <2>5, <3>2, <3>3
    <3> QED
      BY <2>2, <2>5, <3>1, <3>4
  <2> QED
    BY <2>6, <2>7
<1>4. A \in SUBSET A /\ Images(A) = B
  OBVIOUS
<1> QED
  BY <1>3, <1>4


(* There is such a sum: so the recursive function of a fold is one.        *)
TakesFirst(total, term, pick, D) ==
    \A s \in SUBSET D :
        total[s] = IF s = {} THEN 0 ELSE term[pick[s]] + total[s \ {pick[s]}]

LEMMA SumExists ==
    ASSUME NEW D, IsFiniteSet(D), NEW term \in [D -> Int], NEW pick, Picks(pick, D)
    PROVE  \E total \in [SUBSET D -> Int] : TakesFirst(total, term, pick, D)
<1> DEFINE UpTo(total, n) == \A s \in SUBSET D : Cardinality(s) <= n =>
                total[s] = IF s = {} THEN 0 ELSE term[pick[s]] + total[s \ {pick[s]}]
           short == {n \in Nat : ~\E total \in [SUBSET D -> Int] : UpTo(total, n)}
<1>1. \A s \in SUBSET D : /\ IsFiniteSet(s) /\ Cardinality(s) \in Nat
                          /\ Cardinality(s) <= Cardinality(D)
                          /\ Cardinality(s) = 0 <=> s = {}
  BY FS_Subset, FS_CardinalityType, FS_EmptySet
<1>2. \A s \in SUBSET D : s # {} =>
          /\ pick[s] \in s /\ pick[s] \in D /\ s \ {pick[s]} \in SUBSET D
          /\ Cardinality(s \ {pick[s]}) = Cardinality(s) - 1
  BY <1>1, FS_RemoveElement DEF Picks
<1>3. ASSUME short # {} PROVE FALSE
  <2>1. short \subseteq Nat
    OBVIOUS
  <2> HIDE DEF short
  <2>2. PICK n \in short : \A k \in short : n <= k
    BY <1>3, <2>1, LeastOf
  <2>3. n \in Nat /\ ~\E total \in [SUBSET D -> Int] : UpTo(total, n)
    BY <2>2 DEF short
  <2>4. n # 0
    <3>1. [s \in SUBSET D |-> 0] \in [SUBSET D -> Int]
      OBVIOUS
    <3>2. UpTo([s \in SUBSET D |-> 0], 0)
      <4>1. ASSUME NEW s \in SUBSET D, Cardinality(s) <= 0 PROVE s = {}
        BY <1>1, <4>1
      <4> QED
        BY <4>1
    <3> HIDE DEF UpTo
    <3> QED
      BY <2>3, <3>1, <3>2
  <2>5. PICK m \in Nat : n = m + 1 /\ m \notin short
    <3>1. n - 1 \in Nat /\ n = (n - 1) + 1 /\ ~(n <= n - 1)
      BY <2>3, <2>4
    <3> QED
      BY <2>2, <3>1
  <2>6. PICK old \in [SUBSET D -> Int] : UpTo(old, m)
    BY <2>5 DEF short
  <2> DEFINE new == [s \in SUBSET D |->
                IF Cardinality(s) = n THEN term[pick[s]] + old[s \ {pick[s]}] ELSE old[s]]
  <2>7. \A s \in SUBSET D : Cardinality(s) # n => new[s] = old[s]
    OBVIOUS
  <2>8. \A s \in SUBSET D : Cardinality(s) = n =>
            s # {} /\ new[s] = term[pick[s]] + old[s \ {pick[s]}]
    BY <1>1, <2>4
  <2>9. new \in [SUBSET D -> Int]
    <3>1. ASSUME NEW s \in SUBSET D PROVE new[s] \in Int
      <4>1. CASE Cardinality(s) = n
        <5>1. term[pick[s]] \in Int /\ old[s \ {pick[s]}] \in Int
          BY <1>2, <2>8, <4>1
        <5> QED
          BY <2>8, <4>1, <5>1
      <4>2. CASE Cardinality(s) # n
        BY <2>7, <4>2
      <4> QED
        BY <4>1, <4>2
    <3> QED
      BY <3>1
  <2> HIDE DEF new
  <2>10. ASSUME NEW s \in SUBSET D, Cardinality(s) <= n
         PROVE  new[s] = IF s = {} THEN 0 ELSE term[pick[s]] + new[s \ {pick[s]}]
    <3>1. CASE s = {}
      <4>1. Cardinality(s) = 0 /\ 0 # n /\ 0 <= m
        BY <1>1, <2>4, <2>5, <3>1
      <4> QED
        BY <2>6, <2>7, <3>1, <4>1
    <3>2. CASE s # {}
      <4>1. PICK c \in Nat, r \in SUBSET D : /\ c = Cardinality(s) /\ r = s \ {pick[s]}
                                             /\ Cardinality(r) = c - 1
        BY <1>1, <1>2, <3>2
      <4>2. c - 1 # n
        BY <2>3, <2>10, <4>1
      <4>3. new[r] = old[r]
        BY <2>7, <4>1, <4>2
      <4>4. CASE c = n
        BY <2>8, <3>2, <4>1, <4>3, <4>4
      <4>5. CASE c # n
        <5>1. c <= m /\ new[s] = old[s]
          BY <2>5, <2>7, <2>10, <4>1, <4>5
        <5>2. old[s] = term[pick[s]] + old[r]
          BY <2>6, <3>2, <4>1, <5>1
        <5> QED
          BY <3>2, <4>1, <4>3, <5>1, <5>2
      <4> QED
        BY <4>4, <4>5
    <3> QED
      BY <3>1, <3>2
  <2> QED
    BY <2>3, <2>9, <2>10
<1>4. PICK n \in Nat : n = Cardinality(D)
  BY FS_CardinalityType
<1>5. PICK total \in [SUBSET D -> Int] : UpTo(total, n)
  BY <1>3
<1>6. \A s \in SUBSET D : Cardinality(s) <= n
  BY <1>1, <1>4
<1> QED
  BY <1>5, <1>6 DEF TakesFirst


LEMMA GreatestOf ==
    ASSUME NEW n \in Nat, NEW s \in SUBSET (1 .. n), s # {}
    PROVE  Max(s) \in s
<1> DEFINE above == {k \in Nat : \A i \in s : i <= k}
<1>1. n \in above
  OBVIOUS
<1>2. above \subseteq Nat /\ above # {}
  BY <1>1
<1>3. PICK m \in above : \A k \in above : m <= k
  <2> HIDE DEF above
  <2> QED
    BY <1>2, LeastOf
<1>4. m \in s
  <2>1. ASSUME m \notin s PROVE FALSE
    <3>1. PICK i \in s : i \in 1 .. n
      OBVIOUS
    <3>2. \A j \in s : j \in Nat /\ j <= m /\ j # m
      BY <1>3, <2>1
    <3>3. m - 1 \in Nat /\ m \in Nat
      BY <1>3, <3>1, <3>2
    <3>4. \A j \in s : j <= m - 1
      BY <3>2, <3>3
    <3>5. m - 1 \in above /\ ~(m <= m - 1)
      BY <3>3, <3>4
    <3> QED
      BY <1>3, <3>5
  <2> QED
    BY <2>1
<1>5. \A y \in s : m >= y
  BY <1>3
<1> QED
  BY <1>4, <1>5 DEF Max

(* The loop over the entries adds up their losses ...                      *)
LEMMA LoopSums ==
    ASSUME NEW entries, NEW n \in Nat, DOMAIN entries = 1 .. n,
           \A i \in 1 .. n : LossOf(entries[i]) \in Int
    PROVE  \E total, pick : /\ Sums(total, [i \in 1 .. n |-> LossOf(entries[i])], pick, 1 .. n)
                            /\ TotalLoss(entries) = total[1 .. n]
<1> DEFINE D == 1 .. n
           term == [i \in D |-> LossOf(entries[i])]
           pick == [s \in SUBSET D |-> Max(s)]
           Loop(f) == f = [s \in SUBSET D |->
                             IF s = {} THEN 0 ELSE f[s \ {Max(s)}] + LossOf(entries[Max(s)])]
           total == CHOOSE f : Loop(f)
<1>1. TotalLoss(entries) = total[D]
  BY Zenon DEF TotalLoss, FoldLeft, MapThenFoldSet
<1>2. IsFiniteSet(D) /\ term \in [D -> Int]
  BY FS_Interval
<1>3. Picks(pick, D)
  BY GreatestOf DEF Picks
<1>4. PICK f \in [SUBSET D -> Int] : TakesFirst(f, term, pick, D)
  <2> HIDE DEF D, term, pick
  <2> QED
    BY <1>2, <1>3, SumExists, Zenon
<1>5. Loop(f)
  <2>1. ASSUME NEW s \in SUBSET D
        PROVE  f[s] = IF s = {} THEN 0 ELSE f[s \ {Max(s)}] + LossOf(entries[Max(s)])
    <3>1. CASE s = {}
      BY <1>4, <3>1 DEF TakesFirst
    <3>2. CASE s # {}
      <4>1. PICK m : m = Max(s) /\ m \in s /\ m \in D
        BY <3>2, GreatestOf
      <4>2. pick[s] = m /\ term[m] = LossOf(entries[m]) /\ term[m] \in Int
        BY <1>2, <4>1
      <4>3. f[s] = term[m] + f[s \ {m}] /\ f[s \ {m}] \in Int
        BY <1>4, <3>2, <4>2 DEF TakesFirst
      <4> QED
        BY <3>2, <4>1, <4>2, <4>3
    <3> QED
      BY <3>1, <3>2
  <2> QED
    BY <1>4, <2>1
<1>6. Loop(total)
  <2> HIDE DEF Loop
  <2> QED
    BY <1>5, Zenon
<1>7. Sums(total, term, pick, D)
  <2>1. \A s \in SUBSET D :
          total[s] = IF s = {} THEN 0 ELSE total[s \ {Max(s)}] + LossOf(entries[Max(s)])
    <3> HIDE DEF total, D
    <3> QED
      BY <1>6
  <2>2. total[{}] = 0
    BY <2>1, Zenon
  <2>3. ASSUME NEW s \in SUBSET D, s # {} PROVE total[s] = total[s \ {pick[s]}] + term[pick[s]]
    <3>1. PICK m : m = Max(s) /\ m \in s /\ m \in D
      BY <2>3, GreatestOf
    <3>2. pick[s] = m /\ term[m] = LossOf(entries[m])
      BY <3>1
    <3>3. total[s] = total[s \ {m}] + LossOf(entries[m])
      <4> HIDE DEF total
      <4> QED
        BY <2>1, <2>3, <3>1
    <3> HIDE DEF total, pick, term
    <3> QED
      BY <3>2, <3>3
  <2> HIDE DEF total, pick, term, D
  <2> QED
    BY <1>2, <1>3, <2>2, <2>3 DEF Sums
<1> QED
  <2> HIDE DEF total, pick
  <2> QED
    BY <1>1, <1>7

(* ... and so does a sum over the entries that have one.                   *)
LEMMA SetSums ==
    ASSUME NEW S, IsFiniteSet(S), \A e \in S : LossOf(e) \in Int
    PROVE  \E total, pick : /\ Sums(total, [e \in S |-> LossOf(e)], pick, S)
                            /\ MapThenSumSet(LossOf, S) = total[S]
<1> DEFINE One(s) == CHOOSE e \in s : TRUE
           term == [e \in S |-> LossOf(e)]
           pick == [s \in SUBSET S |-> One(s)]
           Loop(f) == f = [s \in SUBSET S |->
                             IF s = {} THEN 0 ELSE LossOf(One(s)) + f[s \ {One(s)}]]
           total == CHOOSE f : Loop(f)
<1>1. MapThenSumSet(LossOf, S) = total[S]
  BY Zenon DEF MapThenSumSet, MapThenFoldSet
<1>2. IsFiniteSet(S) /\ term \in [S -> Int]
  OBVIOUS
<1>3. Picks(pick, S)
  BY DEF Picks
<1>4. PICK f \in [SUBSET S -> Int] : TakesFirst(f, term, pick, S)
  <2> HIDE DEF term, pick
  <2> QED
    BY <1>2, <1>3, SumExists, Zenon
<1>5. ASSUME NEW s \in SUBSET S, s # {} PROVE pick[s] = One(s) /\ term[pick[s]] = LossOf(One(s))
  <2>1. One(s) \in S
    BY <1>5
  <2>2. pick[s] = One(s)
    OBVIOUS
  <2> HIDE DEF pick, One
  <2> QED
    BY <2>1, <2>2
<1>6. Loop(f)
  <2> HIDE DEF term, pick, One
  <2> QED
    BY <1>4, <1>5 DEF TakesFirst
<1>7. Loop(total)
  <2> HIDE DEF Loop
  <2> QED
    BY <1>6, Zenon
<1>8. Sums(total, term, pick, S)
  <2>1. \A s \in SUBSET S :
          total[s] = IF s = {} THEN 0 ELSE LossOf(One(s)) + total[s \ {One(s)}]
    <3> HIDE DEF total, One
    <3> QED
      BY <1>7
  <2>2. total[{}] = 0
    BY <2>1, Zenon
  <2> HIDE DEF total, pick, term, One
  <2> QED
    BY <1>2, <1>3, <1>5, <2>1, <2>2 DEF Sums
<1> QED
  <2> HIDE DEF total, pick
  <2> QED
    BY <1>1, <1>8


-----------------------------------------------------------------------------
(* Whatever the container, each entry of the report is listed once: the    *)
(* keys of an object have an order, in which no two have the same rank.    *)
Lists(entries, report, n) ==
    /\ DOMAIN entries = 1 .. n /\ Len(entries) = n
    /\ \A i, j \in 1 .. n : entries[i] = entries[j] => i = j
    /\ ToSet(entries) = ToSet(report)

LEMMA KeysInOrder ==
    ASSUME NEW report \in Reports, NEW i \in DOMAIN report, NEW j \in DOMAIN report, NEW k \in DOMAIN report
    PROVE  /\ ~KeyBefore(report[i], report[i], i < i)
           /\ i # j => KeyBefore(report[i], report[j], i < j) \/ KeyBefore(report[j], report[i], j < i)
           /\ KeyBefore(report[i], report[j], i < j) /\ KeyBefore(report[j], report[k], j < k) =>
                  KeyBefore(report[i], report[k], i < k)
<1> DEFINE like(x) == report[x].id \in DOMAIN IntegerValue
           value(x) == IntegerValue[report[x].id]
           before(x, y) == KeyBefore(report[x], report[y], x < y)
<1>1. i \in Nat /\ j \in Nat /\ k \in Nat
  BY PollAssumption
<1>2. \A x \in {i, j, k} : like(x) => value(x) \in Nat
  BY PollAssumption DEF Range
<1>3. \A x, y \in {i, j, k} : like(x) /\ like(y) /\ value(x) = value(y) => x = y
  <2>1. ASSUME NEW x \in {i, j, k}, NEW y \in {i, j, k}, like(x), like(y), value(x) = value(y)
        PROVE  x = y
    <3>1. report[x].id = report[y].id
      BY <2>1, PollAssumption DEF IsInjective
    <3> QED
      BY <3>1, PollAssumption
  <2> QED
    BY <2>1
<1>4. \A x, y \in {i, j, k} :
        before(x, y) <=> \/ like(x) /\ like(y) /\ value(x) < value(y)
                         \/ like(x) /\ ~like(y)
                         \/ ~like(x) /\ ~like(y) /\ x < y
  BY DEF KeyBefore
<1> HIDE DEF like, value, before
<1>5. ~before(i, i)
  BY <1>1, <1>2, <1>4
<1>6. i # j => before(i, j) \/ before(j, i)
  BY <1>1, <1>2, <1>3, <1>4
<1>7. before(i, j) /\ before(j, k) => before(i, k)
  BY <1>1, <1>2, <1>4
<1> QED
  BY <1>5, <1>6, <1>7 DEF before

LEMMA RanksDiffer ==
    ASSUME NEW report \in Reports, NEW n \in Nat, n = Len(report)
    PROVE  /\ \A i \in 1 .. n : Rank(report, i) \in 1 .. n
           /\ \A i, j \in 1 .. n : Rank(report, i) = Rank(report, j) => i = j
<1> DEFINE D == 1 .. n
           Below(i) == {j \in D : KeyBefore(report[j], report[i], j < i)}
<1>1. DOMAIN report = D
  BY PollAssumption
<1>2. \A i \in D : Rank(report, i) = Cardinality(Below(i)) + 1
  BY <1>1 DEF Rank
<1>3. IsFiniteSet(D) /\ Cardinality(D) = n
  <2>1. 1 \in Int /\ n \in Int
    OBVIOUS
  <2>2. IsFiniteSet(1 .. n) /\ Cardinality(1 .. n) = IF 1 > n THEN 0 ELSE n - 1 + 1
    BY <2>1, FS_Interval, Zenon
  <2> QED
    BY <2>2
<1>4. ASSUME NEW i \in D
      PROVE  /\ IsFiniteSet(Below(i)) /\ Cardinality(Below(i)) \in Nat
             /\ i \notin Below(i) /\ Cardinality(Below(i)) <= n - 1
  <2>1. i \notin Below(i)
    BY <1>1, <1>4, KeysInOrder
  <2>2. Below(i) \in SUBSET (D \ {i})
    BY <2>1
  <2>3. IsFiniteSet(D \ {i}) /\ Cardinality(D \ {i}) = n - 1
    BY <1>3, <1>4, FS_RemoveElement
  <2> HIDE DEF Below, D
  <2> QED
    BY <2>1, <2>2, <2>3, FS_Subset, FS_CardinalityType
<1>5. ASSUME NEW i \in D, NEW j \in D, KeyBefore(report[i], report[j], i < j)
      PROVE  Cardinality(Below(i)) # Cardinality(Below(j))
  <2>1. Below(i) \subseteq Below(j)
    <3>1. ASSUME NEW k \in Below(i) PROVE k \in Below(j)
      <4>1. k \in D /\ KeyBefore(report[k], report[i], k < i)
        OBVIOUS
      <4>2. KeyBefore(report[k], report[j], k < j)
        BY <1>1, <1>5, <4>1, KeysInOrder
      <4> QED
        BY <4>1, <4>2
    <3> QED
      BY <3>1
  <2>2. i \in Below(j)
    BY <1>5
  <2>3. Below(i) # Below(j)
    BY <1>4, <2>2
  <2> HIDE DEF Below
  <2> QED
    BY <1>4, <2>1, <2>3, FS_Subset
<1>6. ASSUME NEW i \in D, NEW j \in D, Rank(report, i) = Rank(report, j) PROVE i = j
  <2>1. Cardinality(Below(i)) = Cardinality(Below(j))
    <3> HIDE DEF Below, D
    <3> QED
      BY <1>2, <1>4, <1>6
  <2>2. i # j => KeyBefore(report[i], report[j], i < j) \/ KeyBefore(report[j], report[i], j < i)
    BY <1>1, KeysInOrder
  <2> HIDE DEF Below, D
  <2> QED
    BY <1>5, <2>1, <2>2
<1>7. ASSUME NEW i \in D PROVE Rank(report, i) \in D
  <2>1. PICK c \in Nat : c = Cardinality(Below(i)) /\ c <= n - 1
    BY <1>4
  <2>2. Rank(report, i) = c + 1
    BY <1>2, <2>1
  <2> QED
    BY <2>1, <2>2
<1> QED
  BY <1>6, <1>7

LEMMA Listing ==
    ASSUME NEW report \in Reports, NEW container
    PROVE  \E n \in Nat : n = Len(report) /\ Lists(toEntries(report, container), report, n)
<1>1. PICK n \in Nat : n = Len(report) /\ DOMAIN report = 1 .. n
  BY PollAssumption
<1>2. \A i, j \in 1 .. n : report[i] = report[j] => i = j
  BY <1>1, PollAssumption
<1>3. CASE container # "object"
  <2>1. toEntries(report, container) = report
    BY <1>3 DEF toEntries
  <2> QED
    BY <1>1, <1>2, <2>1 DEF Lists
<1>4. CASE container = "object"
  <2> DEFINE D == DOMAIN report
             rank == [i \in D |-> Rank(report, i)]
             at(k) == CHOOSE i \in D : Rank(report, i) = k
  <2>1. rank \in [D -> D] /\ \A i, j \in D : rank[i] = rank[j] => i = j
    BY <1>1, RanksDiffer
  <2>2. IsFiniteSet(D)
    BY <1>1, FS_Interval
  <2>3. \A k \in D : \E i \in D : rank[i] = k
    <3> HIDE DEF D, rank
    <3>1. rank \in Injection(D, D)
      BY <2>1 DEF Injection, IsInjective
    <3>2. rank \in Surjection(D, D)
      BY <2>2, <3>1, FS_Injection
    <3> QED
      BY <3>2 DEF Surjection
  <2>4. \A k \in D : at(k) \in D /\ Rank(report, at(k)) = k
    BY <2>3
  <2>5. \A i \in D : Rank(report, i) \in D /\ at(Rank(report, i)) = i
    <3>1. \A i \in D : Rank(report, i) \in D
      BY <2>1
    <3>2. \A i, j \in D : Rank(report, i) = Rank(report, j) => i = j
      BY <2>1
    <3> HIDE DEF at, D
    <3> QED
      BY <2>4, <3>1, <3>2
  <2>6. PICK entries : entries = [k \in D |-> report[at(k)]] /\ entries = toEntries(report, container)
    <3>1. toEntries(report, container) = [k \in D |-> report[at(k)]]
      BY <1>4, Zenon DEF toEntries
    <3> HIDE DEF at, D
    <3> QED
      BY <3>1
  <2> HIDE DEF at
  <2>7. Len(entries) = n
    BY <1>1, <2>6
  <2>8. \A i, j \in D : entries[i] = entries[j] => i = j
    <3>1. ASSUME NEW i \in D, NEW j \in D, entries[i] = entries[j] PROVE i = j
      <4>1. at(i) \in 1 .. n /\ at(j) \in 1 .. n
        BY <1>1, <2>4
      <4>2. report[at(i)] = report[at(j)]
        BY <2>6, <3>1
      <4>3. at(i) = at(j)
        BY <1>2, <4>1, <4>2
      <4> QED
        BY <2>4, <4>3
    <3> QED
      BY <3>1
  <2>9. ToSet(entries) = ToSet(report)
    <3>1. \A k \in D : entries[k] = report[at(k)] /\ at(k) \in D
      BY <2>4, <2>6
    <3>2. \A i \in D : Rank(report, i) \in D /\ entries[Rank(report, i)] = report[i]
      BY <2>5, <2>6
    <3>3. DOMAIN entries = D /\ DOMAIN report = D
      BY <1>1, <2>6
    <3> HIDE DEF D
    <3> QED
      BY <3>1, <3>2, <3>3 DEF ToSet
  <2> QED
    BY <1>1, <2>6, <2>7, <2>8, <2>9 DEF Lists
<1> QED
  BY <1>3, <1>4


-----------------------------------------------------------------------------
(* find() finds one of the wanted entries, if there is any.                *)
LEMMA Found ==
    ASSUME NEW entries, NEW n \in Nat, DOMAIN entries = 1 .. n, Len(entries) = n, NEW wanted,
           wanted \subseteq ToSet(entries)
    PROVE  IF wanted = {} THEN find(entries, wanted) = {}
                          ELSE \E e \in wanted : find(entries, wanted) = {e}
<1> DEFINE I == {i \in 1 .. Len(entries) : entries[i] \in wanted}
           first == IF I # {} THEN Min(I) ELSE 0
<1>1. find(entries, wanted) = IF first = 0 THEN {} ELSE {entries[first]}
  BY DEF find, SelectInSeq
<1>2. CASE wanted = {}
  BY <1>1, <1>2
<1>3. CASE wanted # {}
  <2>1. PICK i \in 1 .. n : entries[i] \in wanted
    BY <1>3 DEF ToSet
  <2>2. I \subseteq Nat /\ I # {} /\ 0 \notin I
    BY <2>1
  <2> HIDE DEF I
  <2>3. \E m \in I : \A k \in I : m <= k
    BY <2>2, LeastOf
  <2>4. Min(I) \in I
    <3>1. \E m \in I : \A k \in I : m =< k
      BY <2>3
    <3> QED
      BY <3>1, Zenon DEF Min
  <2>5. first \in I /\ first # 0
    BY <2>2, <2>4
  <2>6. find(entries, wanted) = {entries[first]}
    BY <1>1, <2>5
  <2>7. entries[first] \in wanted
    BY <2>5 DEF I
  <2> QED
    BY <1>3, <2>6, <2>7
<1> QED
  BY <1>2, <1>3

LEMMA FiniteReport == \A report \in Reports : IsFiniteSet(ToSet(report))
<1> SUFFICES ASSUME NEW report \in Reports PROVE IsFiniteSet(ToSet(report))
  OBVIOUS
<1> DEFINE list == [i \in DOMAIN report |-> report[i]]
<1>1. IsFiniteSet(DOMAIN report)
  <2>1. PICK n \in Nat : DOMAIN report = 1 .. n
    BY PollAssumption
  <2> QED
    BY <2>1, FS_Interval
<1>2. list \in Surjection(DOMAIN report, ToSet(report))
  BY DEF Surjection, ToSet
<1> HIDE DEF list
<1> QED
  BY <1>1, <1>2, FS_Surjection

(* The total of the losses does not depend on how they are listed.         *)
LEMMA SameTotal ==
    ASSUME NEW report \in Reports, NEW entries, NEW n \in Nat, n = Len(report),
           Lists(entries, report, n)
    PROVE  TotalLoss(entries) = MapThenSumSet(LossOf, {e \in ToSet(report) : CountsLoss(e)})
<1> DEFINE lossy == {e \in ToSet(report) : CountsLoss(e)}
<1>1. /\ DOMAIN entries = 1 .. n /\ ToSet(entries) = ToSet(report)
      /\ \A i, j \in 1 .. n : entries[i] = entries[j] => i = j
  BY DEF Lists
<1>2. \A e \in ToSet(report) : LossOf(e) \in Int
  <2> SUFFICES ASSUME NEW i \in DOMAIN report PROVE LossOf(report[i]) \in Int
    BY DEF ToSet
  <2>1. CASE CountsLoss(report[i])
    <3>1. PICK m \in Int : report[i].packetsLost = {m}
      BY <2>1, PollAssumption
    <3>2. (CHOOSE l \in report[i].packetsLost : TRUE) = m
      BY <3>1
    <3> QED
      BY <2>1, <3>2 DEF LossOf
  <2>2. CASE ~CountsLoss(report[i])
    BY <2>2 DEF LossOf
  <2> QED
    BY <2>1, <2>2
<1>3. \A i \in 1 .. n : entries[i] \in ToSet(report)
  BY <1>1 DEF ToSet
<1>4. IsFiniteSet(lossy)
  <2>1. lossy \in SUBSET ToSet(report)
    OBVIOUS
  <2> HIDE DEF lossy
  <2> QED
    BY <2>1, FiniteReport, FS_Subset
<1>5. PICK totalA, pickA :
        /\ Sums(totalA, [i \in 1 .. n |-> LossOf(entries[i])], pickA, 1 .. n)
        /\ TotalLoss(entries) = totalA[1 .. n]
  BY <1>1, <1>2, <1>3, LoopSums
<1>6. PICK totalB, pickB :
        /\ Sums(totalB, [e \in lossy |-> LossOf(e)], pickB, lossy)
        /\ MapThenSumSet(LossOf, lossy) = totalB[lossy]
  <2>1. \A e \in lossy : LossOf(e) \in Int
    BY <1>2
  <2> HIDE DEF lossy
  <2> QED
    BY <1>4, <2>1, SetSums
<1> DEFINE A == 1 .. n
           termA == [i \in A |-> LossOf(entries[i])]
           termB == [e \in lossy |-> LossOf(e)]
<1>7. \A e \in lossy : \E i \in A : entries[i] = e
  BY <1>1 DEF ToSet
<1>8. \A i \in A : termA[i] = IF entries[i] \in lossy THEN termB[entries[i]] ELSE 0
  <2>1. ASSUME NEW i \in A PROVE termA[i] = IF entries[i] \in lossy THEN termB[entries[i]] ELSE 0
    <3>1. CASE CountsLoss(entries[i])
      BY <1>3, <2>1, <3>1
    <3>2. CASE ~CountsLoss(entries[i])
      BY <2>1, <3>2 DEF LossOf
    <3> QED
      BY <3>1, <3>2
  <2> QED
    BY <2>1
<1>9. totalA[A] = totalB[lossy]
  <2> HIDE DEF lossy, A, termA, termB
  <2>1. Sums(totalA, termA, pickA, A) /\ Sums(totalB, termB, pickB, lossy)
    BY <1>5, <1>6 DEF A, termA, termB
  <2>2. \A i, j \in A : entries[i] = entries[j] => i = j
    BY <1>1 DEF A
  <2> QED
    BY <1>7, <1>8, <2>1, <2>2, SumsAgree
<1> QED
  BY <1>5, <1>6, <1>9


(* The candidate that is looked up is the one with the pair's id.          *)
LEMMA SameRoute ==
    ASSUME NEW report \in Reports, NEW entries, NEW n \in Nat, Lists(entries, report, n), NEW pair
    PROVE  localCandidateType(entries, pair) = "relay" <=> ViaRelay(report, pair)
<1> DEFINE L == Locals(report, pair)
           said == {c.candidateType : c \in find(entries, L)} \ {"none"}
<1>1. Locals(entries, pair) = L /\ L \subseteq ToSet(entries)
  BY DEF Lists, Locals
<1>2. \A e, f \in L : e = f
  <2>1. ASSUME NEW i \in DOMAIN report, NEW j \in DOMAIN report, report[i].id = report[j].id
        PROVE  report[i] = report[j]
    BY <2>1, PollAssumption
  <2> QED
    BY <2>1 DEF Locals, ToSet
<1>3. localCandidateType(entries, pair) =
        IF said = {} THEN pair.localCandidateType ELSE CHOOSE type \in said : TRUE
  BY <1>1 DEF localCandidateType
<1>4. IF L = {} THEN find(entries, L) = {} ELSE \E e \in L : find(entries, L) = {e}
  <2> HIDE DEF L
  <2> QED
    BY <1>1, Found DEF Lists
<1> DEFINE own == {e \in L : e.candidateType # "none"}
<1>5. ViaRelay(report, pair) =
        IF own = {} THEN pair.localCandidateType = "relay" ELSE \E e \in own : e.candidateType = "relay"
  BY Zenon DEF ViaRelay
<1>6. CASE L = {}
  <2>1. said = {} /\ own = {}
    BY <1>4, <1>6
  <2> HIDE DEF said, own
  <2> QED
    BY <1>3, <1>5, <2>1
<1>7. CASE L # {}
  <2>1. PICK c : L = {c} /\ find(entries, L) = {c}
    BY <1>2, <1>4, <1>7
  <2> HIDE DEF L
  <2>2. CASE c.candidateType = "none"
    <3>1. said = {} /\ own = {}
      BY <2>1, <2>2
    <3> HIDE DEF said, own
    <3> QED
      BY <1>3, <1>5, <3>1
  <2>3. CASE c.candidateType # "none"
    <3>1. said = {c.candidateType} /\ own = {c}
      BY <2>1, <2>3
    <3>2. (CHOOSE type \in said : TRUE) = c.candidateType
      BY <3>1
    <3> HIDE DEF said, own
    <3> QED
      BY <1>3, <1>5, <3>1, <3>2
  <2> QED
    BY <2>2, <2>3
<1> QED
  BY <1>6, <1>7

(* If the report says which pair is in use, it is the one that is picked.  *)
LEMMA PicksInUse ==
    ASSUME NEW report \in Reports, NEW entries, NEW n \in Nat, Lists(entries, report, n),
           NEW pair, InUse(report) = {pair}
    PROVE  pickCandidatePair(entries) = {pair}
<1> DEFINE selected == {e \in Pairs(report) : e.selected}
           succeeded == {e \in Pairs(report) : NominatedSucceeded(e)}
<1>1. Pairs(entries) = Pairs(report) /\ Pairs(report) \subseteq ToSet(entries)
  BY DEF Lists, Pairs
<1>2. InUse(report) =
        IF selected # {} THEN selected ELSE IF succeeded # {} THEN succeeded ELSE Pairs(report)
  BY DEF InUse, NominatedSucceeded
<1>3. pickCandidatePair(entries) =
        IF find(entries, selected) # {} THEN find(entries, selected)
        ELSE IF find(entries, succeeded) # {} THEN find(entries, succeeded)
        ELSE find(entries, Pairs(report))
  BY <1>1 DEF pickCandidatePair
<1>4. selected \subseteq ToSet(entries) /\ succeeded \subseteq ToSet(entries)
  BY <1>1
<1> HIDE DEF selected, succeeded
<1>5. ASSUME NEW wanted, wanted \subseteq ToSet(entries)
      PROVE  /\ wanted = {} => find(entries, wanted) = {}
             /\ wanted # {} => find(entries, wanted) # {}
             /\ wanted = {pair} => find(entries, wanted) = {pair}
  <2>1. IF wanted = {} THEN find(entries, wanted) = {}
                       ELSE \E e \in wanted : find(entries, wanted) = {e}
    BY <1>5, Found DEF Lists
  <2> QED
    BY <2>1
<1>6. CASE selected # {}
  BY <1>2, <1>3, <1>4, <1>5, <1>6
<1>7. CASE selected = {} /\ succeeded # {}
  BY <1>2, <1>3, <1>4, <1>5, <1>7
<1>8. CASE selected = {} /\ succeeded = {}
  BY <1>1, <1>2, <1>3, <1>4, <1>5, <1>8
<1> QED
  BY <1>6, <1>7, <1>8

(* StatsTellTheRoute: extractRelevant() names the pair in use, tells       *)
(* whether it is relayed, and adds up the losses of all streams, for any   *)
(* reports, in any order and in any of the three containers (webrtc.ts:    *)
(* 340-419).                                                               *)
THEOREM Normalised == PollSpec => []StatsTellTheRoute
<1> DEFINE Shows == shown # <<>> => \E report \in Reports, container \in Container :
                        shown = <<report, extractRelevant(toEntries(report, container))>>
<1>1. PollInit => Shows
  BY DEF PollInit
<1>2. Shows /\ [PollNext]_pollVars => Shows'
  <2> SUFFICES ASSUME Shows, [PollNext]_pollVars PROVE Shows'
    OBVIOUS
  <2>1. shown' = shown \/ \E report \in Reports, container \in Container :
                             shown' = <<report, extractRelevant(toEntries(report, container))>>
    BY DEF PollNext, pollVars, Instrument, RestorePoll, Change, Poll, Settle, OnStats, OnError
  <2> QED
    BY <2>1
<1>3. ASSUME NEW report \in Reports, NEW container \in Container,
             shown = <<report, extractRelevant(toEntries(report, container))>>
      PROVE  StatsTellTheRoute
  <2>1. PICK entries : entries = toEntries(report, container)
    OBVIOUS
  <2>2. PICK n \in Nat : n = Len(report) /\ Lists(entries, report, n)
    BY <2>1, Listing
  <2>3. PICK stats : stats = extractRelevant(entries)
    OBVIOUS
  <2>4. shown[1] = report /\ shown[2] = stats
    BY <1>3, <2>1, <2>3
  <2>5. /\ stats.pair = {p.id : p \in pickCandidatePair(entries)}
        /\ stats.relayed = \E p \in pickCandidatePair(entries) :
                              localCandidateType(entries, p) = "relay"
        /\ stats.packetsLost = IF \E e \in ToSet(entries) : CountsLoss(e)
                                 THEN {TotalLoss(entries)} ELSE {}
    BY <2>3 DEF extractRelevant
  <2> DEFINE lossy == {e \in ToSet(report) : CountsLoss(e)}
  <2>6. stats.packetsLost = IF lossy = {} THEN {} ELSE {MapThenSumSet(LossOf, lossy)}
    <3>1. TotalLoss(entries) = MapThenSumSet(LossOf, lossy)
      BY <2>2, SameTotal
    <3>2. lossy = {} <=> ~\E e \in ToSet(entries) : CountsLoss(e)
      BY <2>2 DEF Lists
    <3> HIDE DEF lossy
    <3> QED
      BY <2>5, <3>1, <3>2
  <2>7. ASSUME Cardinality(InUse(report)) = 1
        PROVE  /\ stats.pair = {e.id : e \in InUse(report)}
               /\ stats.relayed <=> \E e \in InUse(report) : ViaRelay(report, e)
    <3>1. InUse(report) \in SUBSET ToSet(report)
      BY DEF InUse, Pairs
    <3>2. IsFiniteSet(InUse(report))
      BY <3>1, FiniteReport, FS_Subset
    <3>3. PICK pair : InUse(report) = {pair}
      BY <2>7, <3>2, FS_Singleton
    <3>4. pickCandidatePair(entries) = {pair}
      BY <2>2, <3>3, PicksInUse
    <3>5. localCandidateType(entries, pair) = "relay" <=> ViaRelay(report, pair)
      BY <2>2, SameRoute
    <3> QED
      BY <2>5, <3>3, <3>4, <3>5
  <2> HIDE DEF lossy
  <2> QED
    BY <2>4, <2>6, <2>7, Zenon DEF StatsTellTheRoute, lossy
<1>4. Shows => StatsTellTheRoute
  <2>1. shown = <<>> => StatsTellTheRoute
    BY Zenon DEF StatsTellTheRoute
  <2> QED
    BY <1>3, <2>1, Zenon
<1> QED
  <2> HIDE DEF Shows
  <2> QED
    BY <1>1, <1>2, <1>4, PTL DEF PollSpec
=============================================================================

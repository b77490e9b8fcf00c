------------------------------- MODULE SendTap --------------------------------
(***************************************************************************)
(* The outbound taps of the adapters: instrumentDataChannel (webrtc.ts),   *)
(* instrumentHyperswarmStream (hyperswarm.ts) and the send() that an       *)
(* InstrumentedWebSocket gives its instances (websocket.ts) replace a      *)
(* method of one object by a wrapper that calls the method it found there, *)
(* emits an event and returns what that method returned. restore() puts    *)
(* back what the tap found, and takes the tap's listeners off an object    *)
(* that has the method for it.                                             *)
(*                                                                         *)
(* Taps stack up on one object, and each sink may throw or use the object  *)
(* itself - send, instrument, restore - before emit() ends. So a call of   *)
(* send() is a run of frames on a stack, the wrappers from the outermost   *)
(* in and the object's own method last, and an open emit() may put further *)
(* calls on top.                                                           *)
(*                                                                         *)
(* `enabled: false` and the build-time switch make instrument() return     *)
(* without touching anything: no step at all. decodeEnvelope and           *)
(* byteLength only read, and what they throw is swallowed.                 *)
(***************************************************************************)
EXTENDS Integers, Sequences, FiniteSets

CONSTANTS
    Tap,            \* the calls of instrument...(), each with its restore()
    Own,            \* the method the object came with
    None,
    InsideTry,      \* does the wrapper emit inside the `try` that rethrows
                    \* (webrtc.ts, websocket.ts) or after it (hyperswarm.ts)?
    MaxCalls,       \* bound: calls of send()
    MaxHeard        \* bound: inbound events

ASSUME TapAssumption ==
    /\ IsFiniteSet(Tap) /\ Own \notin Tap /\ None \notin Tap \union {Own}
    /\ InsideTry \in BOOLEAN
    /\ MaxCalls \in Nat /\ MaxHeard \in Nat

VARIABLES
    current,    \* the object's `send` (`write`)
    orig,       \* orig[t]: `origSend` of tap t
    removable,  \* has the object a removeEventListener() or removeListener()?
    listening,  \* the taps whose listeners are attached
    amount,     \* `bufferedAmount` (`writableLength`)
    stack,      \* the open calls, innermost last
    calls,      \* history: every call of send()
    events,     \* history: every event emitted to a sink
    chain,      \* history: the wrappers a call of f goes through, outermost first
    nested,     \* history: did each restore() undo the newest live tap?
    live        \* history: if so, the taps not restored yet, oldest first

wiring == <<current, orig, removable, listening, chain, live, nested>>
vars == <<wiring, amount, stack, calls, events>>

Outcome == {"ok", "error", "probe"}     \* "probe": an error of the probe's own
Unknown == "unknown"

(* A frame: fn's part in call k (0: an inbound event), the amount it read  *)
(* when it was entered, and how far it is.                                 *)
Frame == [fn : Tap \union {Own}, call : 0 .. MaxCalls, amount : Nat,
          at : {"calling", "called", "emitting"}, outcome : Outcome \union {Unknown}]

(* Of a call: the amount and the taps when it began, how often the own     *)
(* method ran for it and what came of it, and what the caller saw.         *)
Call == [amount : Nat, taps : Seq(Tap), ran : Nat,
         native : Outcome \union {Unknown}, seen : Outcome \union {Unknown}]

Event == [tap : Tap, call : 0 .. MaxCalls, kind : {"out", "send.error", "in"}, amount : Nat]

Init ==
    /\ current = Own
    /\ orig = [t \in Tap |-> None]
    /\ removable \in BOOLEAN
    /\ listening = {}
    /\ amount = 0
    /\ stack = <<>> /\ calls = <<>> /\ events = <<>>
    /\ chain = [f \in Tap \union {Own} |-> <<>>]
    /\ live = <<>> /\ nested = TRUE

Top == stack[Len(stack)]
Below == stack[Len(stack) - 1]
Popped == SubSeq(stack, 1, Len(stack) - 1)

(* Application code runs when no call is open, or as a sink.               *)
AppRuns == stack # <<>> => Top.at = "emitting"

-----------------------------------------------------------------------------
(* Mutants: ways the definitions below could be wrong. *)

AmountNow(frame) == amount

EmitUnsafe(outcome, sinkThrows) == IF sinkThrows THEN "probe" ELSE outcome

EventKindBlind(outcome) == "out"

UnwrapToNothing(t) == None

UnwrapToOwn(t) == Own

-----------------------------------------------------------------------------
(* instrument...(): the wrapper takes the place of what it found.          *)
Install(t) ==
    /\ AppRuns
    /\ orig[t] = None
    /\ orig' = [orig EXCEPT ![t] = current]
    /\ current' = t
    /\ chain' = [chain EXCEPT ![t] = <<t>> \o chain[current]]
    /\ listening' = listening \union {t}
    /\ live' = Append(live, t)
    /\ UNCHANGED <<removable, nested, amount, stack, calls, events>>

(* What restore() leaves in the place of the wrapper.                      *)
Unwrapped(t) == orig[t]

Newest(t) == live # <<>> /\ live[Len(live)] = t

(* restore(), in any order, and again if somebody calls it again.          *)
Restore(t) ==
    /\ AppRuns
    /\ orig[t] # None
    /\ current' = Unwrapped(t)
    /\ listening' = IF removable THEN listening \ {t} ELSE listening
    /\ IF Newest(t)
         THEN live' = SubSeq(live, 1, Len(live) - 1) /\ UNCHANGED nested
         ELSE nested' = FALSE /\ UNCHANGED live
    /\ UNCHANGED <<orig, removable, chain, amount, stack, calls, events>>

(* A call of send(): every wrapper reads the buffered amount and calls the *)
(* method it found, down to the object's own.                              *)
Send ==
    /\ AppRuns
    /\ Len(calls) < MaxCalls
    /\ LET path == Append(chain[current], Own)
           Entered(f) == [fn |-> f, call |-> Len(calls) + 1, amount |-> amount,
                          at |-> "calling", outcome |-> Unknown]
       IN  stack' = stack \o [i \in 1 .. Len(path) |-> Entered(path[i])]
    /\ calls' = Append(calls, [amount |-> amount, taps |-> chain[current], ran |-> 0,
                               native |-> Unknown, seen |-> Unknown])
    /\ UNCHANGED <<wiring, amount, events>>

(* The innermost frame ends: the wrapper below it, or the caller of the    *)
(* whole call, gets its result or its error.                               *)
Outermost == Len(stack) = 1 \/ Below.call # Top.call

Ends(outcome, history) ==
    IF Outermost
      THEN /\ stack' = Popped
           /\ calls' = [history EXCEPT ![Top.call].seen = outcome]
      ELSE /\ stack' = [Popped EXCEPT ![Len(stack) - 1].at = "called",
                                      ![Len(stack) - 1].outcome = outcome]
           /\ calls' = history

(* The object's own method, the last one that is called, works or throws.  *)
OwnEnds ==
    /\ stack # <<>>
    /\ Top.at = "calling"
    /\ \E outcome \in {"ok", "error"} :
          /\ Ends(outcome, [calls EXCEPT ![Top.call].native = outcome, ![Top.call].ran = @ + 1])
          /\ amount' = IF outcome = "ok" THEN amount + 1 ELSE amount
    /\ UNCHANGED <<wiring, events>>

(* The event of a wrapper whose method returned or threw.                  *)
EventKind(outcome) == IF outcome = "ok" THEN "out" ELSE "send.error"

AmountOf(frame) == frame.amount

Called == stack # <<>> /\ Top.at = "called"

(* now() returns, and sink.emit() is called.                               *)
Emit ==
    /\ Called
    /\ events' = Append(events, [tap |-> Top.fn, call |-> Top.call,
                                 kind |-> EventKind(Top.outcome), amount |-> AmountOf(Top)])
    /\ stack' = [stack EXCEPT ![Len(stack)].at = "emitting"]
    /\ UNCHANGED <<wiring, amount, calls>>

(* now() throws inside the rethrowing `try`: its catch takes the probe's   *)
(* error for one of send(), and calls now() again for the event.           *)
ThrowsInsideTry ==
    /\ InsideTry
    /\ Top.outcome = "ok"
    /\ stack' = [stack EXCEPT ![Len(stack)].outcome = "probe"]
    /\ UNCHANGED calls

(* now() throws where nothing catches it: after the `try`, or in its catch.*)
ThrowsUncaught ==
    /\ ~(InsideTry /\ Top.outcome = "ok")
    /\ Ends("probe", calls)

NowThrows ==
    /\ Called
    /\ ThrowsInsideTry \/ ThrowsUncaught
    /\ UNCHANGED <<wiring, amount, events>>

(* emitSafe(): whatever the sink throws is swallowed.                      *)
emitSafe(outcome, sinkThrows) == outcome

(* The sink's emit() ends; for an event of a call, so does the wrapper.    *)
EmitEnds ==
    /\ stack # <<>>
    /\ Top.at = "emitting"
    /\ IF Top.call = 0
         THEN stack' = Popped /\ UNCHANGED calls
         ELSE \E sinkThrows \in BOOLEAN : Ends(emitSafe(Top.outcome, sinkThrows), calls)
    /\ UNCHANGED <<wiring, amount, events>>

(* A message comes in, and the listener of t emits.                        *)
Hear(t) ==
    /\ stack = <<>>
    /\ t \in listening
    /\ Len(SelectSeq(events, LAMBDA e : e.kind = "in")) < MaxHeard
    /\ events' = Append(events, [tap |-> t, call |-> 0, kind |-> "in", amount |-> 0])
    /\ stack' = <<[fn |-> t, call |-> 0, amount |-> 0, at |-> "emitting", outcome |-> Unknown]>>
    /\ UNCHANGED <<wiring, amount, calls>>

(* The transport sends what it buffered.                                   *)
Drain ==
    /\ stack = <<>>
    /\ amount' = 0
    /\ UNCHANGED <<wiring, stack, calls, events>>

Next ==
    \/ \E t \in Tap : Install(t) \/ Restore(t) \/ Hear(t)
    \/ Send \/ OwnEnds \/ Emit \/ EmitEnds \/ Drain

(* The clock that was passed in works, as the default one does.            *)
Spec == Init /\ [][Next]_vars

(* It may throw.                                                           *)
FaultySpec == Init /\ [][Next \/ NowThrows]_vars

-----------------------------------------------------------------------------
TypeOK ==
    /\ current \in Tap \union {Own}
    /\ orig \in [Tap -> Tap \union {Own, None}]
    /\ removable \in BOOLEAN /\ listening \in SUBSET Tap
    /\ amount \in Nat
    /\ stack \in Seq(Frame)
    /\ calls \in Seq(Call)
    /\ events \in Seq(Event)
    /\ chain \in [Tap \union {Own} -> Seq(Tap)]
    /\ live \in Seq(Tap) /\ nested \in BOOLEAN

(* "Never throw from the probe: every emit path is wrapped" (webrtc.ts:8). *)
(* A call that was seen to end sent the data once, and its caller got the  *)
(* result or the error of the transport, whatever the taps did.            *)
Transparent ==
    \A k \in 1 .. Len(calls) : calls[k].seen # Unknown =>
        calls[k].ran = 1 /\ calls[k].seen = calls[k].native

EventsOf(k) == {i \in 1 .. Len(events) : events[i].call = k}

(* Each tap that was on the object when the call began reports it once,    *)
(* the innermost first, with the outcome it had, and no other tap does -   *)
(* also when taps come and go while it is under way.                       *)
ReportedOnce ==
    \A k \in 1 .. Len(calls) : calls[k].seen # Unknown =>
        LET taps == calls[k].taps
        IN  /\ \A d \in 1 .. Len(taps) : \E i \in EventsOf(k) : events[i].tap = taps[d]
            /\ \A i \in EventsOf(k) :
                  /\ \E d \in 1 .. Len(taps) : events[i].tap = taps[d]
                  /\ (events[i].kind = "out") <=> (calls[k].native = "ok")
            /\ \A i, j \in EventsOf(k) : \A d, e \in 1 .. Len(taps) :
                  i < j /\ events[i].tap = taps[d] /\ events[j].tap = taps[e] => d > e

(* The amount in an event is the one before the send (invariant 4,         *)
(* webrtc.ts:10), though sinks of inner taps may have sent more by then.   *)
AmountBeforeSend ==
    \A i \in 1 .. Len(events) :
        events[i].call # 0 => events[i].amount = calls[events[i].call].amount

(* While taps are undone in the reverse order, they leave the object as    *)
(* they found it: what a call goes through is exactly the live taps, the   *)
(* newest first, and none listens that was restored, if listeners come     *)
(* off. Of taps that are undone in any other order it says nothing:        *)
(* restore() then brings back a method that is no longer wanted.           *)
WrappedByLive ==
    LET n == Len(live)
    IN  nested => /\ chain[current] = [i \in 1 .. n |-> live[n + 1 - i]]
                  /\ removable => listening = {live[i] : i \in 1 .. n}

(* The users of the object notice nothing of the taps.                     *)
Host == INSTANCE HostObject WITH
            calls <- [k \in 1 .. Len(calls) |-> [native |-> calls[k].native, seen |-> calls[k].seen]]
ImplementsHost == Host!Spec
=============================================================================

------------------------------ MODULE HostObject ------------------------------
(***************************************************************************)
(* The object that is tapped, as its users know it without a probe: a data *)
(* channel, a Noise stream or a WebSocket, with a send() that works or     *)
(* throws. Of send() they see what it did, once, and nothing else; that is *)
(* the promise of README.md, "The taps observe; they do not rewrite", and  *)
(* of webrtc.ts:6-9.                                                       *)
(***************************************************************************)
EXTENDS Naturals, Sequences

CONSTANT MaxCalls   \* bound: calls of send()

VARIABLES
    amount,     \* `bufferedAmount` or `writableLength`
    calls       \* every call: what the transport did, and what the caller saw

hostVars == <<amount, calls>>

Outcome == {"ok", "error"}
Unknown == "unknown"

Init == amount = 0 /\ calls = <<>>

Call ==
    /\ Len(calls) < MaxCalls
    /\ calls' = Append(calls, [native |-> Unknown, seen |-> Unknown])
    /\ UNCHANGED amount

(* The transport takes the data of call k or refuses it; the caller may    *)
(* learn of it at once.                                                    *)
Transmit(k, outcome) ==
    /\ calls[k].native = Unknown
    /\ \E seen \in {Unknown, outcome} :
          calls' = [calls EXCEPT ![k] = [native |-> outcome, seen |-> seen]]
    /\ amount' = IF outcome = "ok" THEN amount + 1 ELSE amount

Return(k) ==
    /\ calls[k].native # Unknown
    /\ calls[k].seen = Unknown
    /\ calls' = [calls EXCEPT ![k].seen = calls[k].native]
    /\ UNCHANGED amount

Drain == amount' = 0 /\ UNCHANGED calls

Next ==
    \/ Call
    \/ \E k \in 1 .. Len(calls) : Return(k) \/ \E outcome \in Outcome : Transmit(k, outcome)
    \/ Drain

Spec == Init /\ [][Next]_hostVars
=============================================================================

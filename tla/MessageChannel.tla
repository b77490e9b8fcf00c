---------------------------- MODULE MessageChannel ----------------------------
(***************************************************************************)
(* What transport/framing.ts promises on top of a byte stream: "arbitrary  *)
(* chunk boundaries [...] reassemble into exactly the original messages,   *)
(* in order" (lines 13-15). A queue of whole messages: each one that was   *)
(* sent is received at most once, unchanged, and none is overtaken.        *)
(***************************************************************************)
EXTENDS Naturals, Sequences

CONSTANTS
    Payload,    \* the messages
    MaxSent     \* bound: how many are sent

VARIABLES
    sent,       \* every message sent
    received    \* every message received

channelVars == <<sent, received>>

Init == sent = <<>> /\ received = <<>>

Send(m) ==
    /\ Len(sent) < MaxSent
    /\ sent' = Append(sent, m)
    /\ UNCHANGED received

Receive ==
    /\ Len(received) < Len(sent)
    /\ received' = Append(received, sent[Len(received) + 1])
    /\ UNCHANGED sent

Next == Receive \/ \E m \in Payload : Send(m)

Spec == Init /\ [][Next]_channelVars
=============================================================================

----------------------------- MODULE StreamFramer -----------------------------
(***************************************************************************)
(* transport/framing.ts: messages over a byte stream. Each is written with *)
(* its length in front; the stream may hand the bytes over in chunks of    *)
(* any size, cut anywhere, also inside a length; StreamFramer.push()       *)
(* collects them and calls onMessage once per complete frame.              *)
(*                                                                         *)
(* onMessage is the application's: it may return, throw, or push() further *)
(* chunks itself before it does either. So a call of it is open for a      *)
(* while, and calls nest.                                                  *)
(*                                                                         *)
(* The writer is the exporter's encodeFrame() on one end of the same       *)
(* stream (exporters/hyperswarm.ts); the stream is reliable and ordered,   *)
(* as a Noise stream is. PassthroughFramer keeps no state: each chunk is a *)
(* message.                                                                *)
(***************************************************************************)
EXTENDS Integers, Sequences

CONSTANTS
    Base,           \* a byte is 0 .. Base - 1 (256 in the code)
    PrefixBytes,    \* LENGTH_PREFIX_BYTES
    Payload,        \* the messages, as sequences of bytes
    MaxSent,        \* bound: messages written
    MaxDepth        \* bound: nested calls of onMessage

Byte == 0 .. Base - 1
MaxLength == Base ^ PrefixBytes - 1

(* DataView.setUint32 and getUint32, big-endian.                           *)
SetUint(n) == [i \in 1 .. PrefixBytes |-> (n \div Base ^ (PrefixBytes - i)) % Base]

GetUint(b) ==
    LET v[i \in 0 .. PrefixBytes] == IF i = 0 THEN 0 ELSE v[i - 1] * Base + b[i]
    IN  v[PrefixBytes]

ASSUME FramerAssumption ==
    /\ Base \in Nat /\ PrefixBytes \in Nat \ {0} /\ MaxSent \in Nat /\ MaxDepth \in Nat
    /\ Payload \subseteq Seq(Byte)
    /\ \A m \in Payload : Len(m) \in 0 .. MaxLength

(* What is written by setUint32 is read by getUint32.                      *)
ASSUME DataViewAssumption ==
    \A n \in 0 .. MaxLength : SetUint(n) \in [1 .. PrefixBytes -> Byte] /\ GetUint(SetUint(n)) = n

VARIABLES
    stream,     \* every byte ever written, in order
    arrived,    \* how many of them were handed over in chunks
    buffer,     \* `buffer`
    open,       \* how many calls of onMessage are open
    sent,       \* history: the messages written
    ends,       \* history: where the frame of each of them ends in `stream`
    received,   \* history: the messages onMessage was called with
    threw       \* history: has onMessage thrown since push() last ran its loop?

wire == <<stream, sent, ends>>
vars == <<wire, arrived, buffer, open, received, threw>>

Init ==
    /\ stream = <<>> /\ arrived = 0
    /\ buffer = <<>> /\ open = 0
    /\ sent = <<>> /\ ends = <<>> /\ received = <<>>
    /\ threw = FALSE

-----------------------------------------------------------------------------
(* Mutants: ways the definitions below could be wrong. *)

CompleteStrictly(b) ==
    Len(b) >= PrefixBytes /\ Len(b) > PrefixBytes + GetUint(SubSeq(b, 1, PrefixBytes))

RestAfterPayloadLength(b) ==
    SubSeq(b, GetUint(SubSeq(b, 1, PrefixBytes)) + 1, Len(b))

MessageWithPrefix(b) ==
    SubSeq(b, 1, PrefixBytes + GetUint(SubSeq(b, 1, PrefixBytes)))

-----------------------------------------------------------------------------
encodeFrame(m) == SetUint(Len(m)) \o m

(* The length of the first frame in b, and the two guards of the loop.     *)
Total(b) == PrefixBytes + GetUint(SubSeq(b, 1, PrefixBytes))

Complete(b) == Len(b) >= PrefixBytes /\ Len(b) >= Total(b)

Message(b) == SubSeq(b, PrefixBytes + 1, Total(b))

Rest(b) == SubSeq(b, Total(b) + 1, Len(b))

(* A turn of push()'s loop over the buffer b, with `below` calls of        *)
(* onMessage still open beneath this one: it ends in the next call of      *)
(* onMessage, or push() returns. The buffer is cut before the call.        *)
Run(b, below) ==
    /\ threw' = FALSE
    /\ IF Complete(b)
         THEN /\ buffer' = Rest(b)
              /\ open' = below + 1
              /\ received' = Append(received, Message(b))
         ELSE /\ buffer' = b
              /\ open' = below
              /\ UNCHANGED received

(* push() of the next n bytes: from the transport, or from within          *)
(* onMessage.                                                              *)
Push(n) ==
    /\ open < MaxDepth
    /\ arrived + n <= Len(stream)
    /\ arrived' = arrived + n
    /\ Run(buffer \o SubSeq(stream, arrived + 1, arrived + n), open)
    /\ UNCHANGED wire

(* onMessage returns to the push() that called it, which goes on with what *)
(* is in the buffer by now.                                                *)
OnMessageReturns ==
    /\ open > 0
    /\ Run(buffer, open - 1)
    /\ UNCHANGED <<wire, arrived>>

(* onMessage throws, and push() with it.                                   *)
OnMessageThrows ==
    /\ open > 0
    /\ open' = open - 1
    /\ threw' = TRUE
    /\ UNCHANGED <<wire, arrived, buffer, received>>

(* The other end writes the frame of m.                                    *)
Write(m) ==
    /\ Len(sent) < MaxSent
    /\ stream' = stream \o encodeFrame(m)
    /\ ends' = Append(ends, Len(stream'))
    /\ sent' = Append(sent, m)
    /\ UNCHANGED <<arrived, buffer, open, received, threw>>

Next ==
    \/ \E m \in Payload : Write(m)
    \/ \E n \in 0 .. Len(stream) - arrived : Push(n)
    \/ OnMessageReturns
    \/ OnMessageThrows

Spec == Init /\ [][Next]_vars

(* The transport hands over what was written, and onMessage, synchronous   *)
(* code, ends one way or the other. Nobody has to write.                   *)
Arrival == \E n \in 1 .. Len(stream) - arrived : Push(n)
FairSpec == Spec /\ WF_vars(Arrival) /\ WF_vars(OnMessageReturns \/ OnMessageThrows)

-----------------------------------------------------------------------------
TypeOK ==
    /\ stream \in Seq(Byte) /\ arrived \in 0 .. Len(stream)
    /\ buffer \in Seq(Byte) /\ open \in Nat
    /\ sent \in Seq(Payload) /\ received \in Seq(Payload)
    /\ ends \in Seq(Nat) /\ Len(ends) = Len(sent)
    /\ threw \in BOOLEAN

(* Where the first n messages end in the stream.                           *)
EndOf(n) == IF n = 0 THEN 0 ELSE ends[n]

(* However the stream was cut and whatever onMessage did, the buffer holds *)
(* exactly what arrived after the last message that was handed over: the   *)
(* next length is read where a length was written (lines 15-20).           *)
Aligned ==
    /\ Len(received) <= Len(sent)
    /\ EndOf(Len(received)) <= arrived
    /\ buffer = SubSeq(stream, EndOf(Len(received)) + 1, arrived)

(* While no push() is running, every message that arrived in full has been *)
(* handed over, unless onMessage threw: then the rest waits for the next   *)
(* chunk (lines 74-85).                                                      *)
NothingHeldBack ==
    open = 0 /\ ~threw => \A n \in 1 .. Len(sent) : ends[n] <= arrived => n <= Len(received)

(* The framer implements the message channel (lines 13-15).                *)
Channel == INSTANCE MessageChannel
ImplementsChannel == Channel!Spec

(* Every message written is handed over in the end, unless onMessage       *)
(* throws.                                                                 *)
EveryMessageDelivered ==
    \A n \in 1 .. MaxSent : n <= Len(sent) ~> n <= Len(received) \/ threw
=============================================================================

---------------------------- MODULE CollectorSink ----------------------------
(***************************************************************************)
(* core/sink.ts: the L1 -> L2 seam. Lifecycle events arrive one at a time  *)
(* from the adapters and the instrumented application; the sink turns them *)
(* into calls of the Collector, and the owner calls sweep() now and then.  *)
(*                                                                         *)
(* An event that carries no corrId, or of a type the sink does not         *)
(* correlate, leaves everything unchanged. A request.start names one peer  *)
(* or none; a broadcast emits one per target, as it dispatches to it, and  *)
(* nothing orders those against the answers that already come back.        *)
(*                                                                         *)
(* The `peers` of a req row (history) grow here with every target that is  *)
(* announced for the live request; its `n`, the fanout, is what the code   *)
(* wrote and stays.                                                        *)
(***************************************************************************)
EXTENDS Collector

CONSTANT None       \* an absent peerId

ASSUME NoneAssumption == None \notin Peer

EventType == {"request.start", "request.end", "message.in", "send.error", "message.out"}
Event == [type : EventType, corrId : CorrId, peerId : Peer \union {None}]

-----------------------------------------------------------------------------
(* Mutants: ways the definitions below could be wrong. *)

ExtendReplacing(e) ==
    /\ Idle
    /\ pending' = [pending EXCEPT ![e.corrId].awaiting = {e.peerId},
                                  ![e.corrId].t = clock]
    /\ rows' = [rows EXCEPT ![pending[e.corrId].row].peers = @ \union {e.peerId}]
    /\ UNCHANGED <<clock, settled, counters, sweeping, fates>>

RequestStartAnew(e) ==
    /\ e.type = "request.start"
    /\ Request(e.corrId, IF e.peerId = None THEN {} ELSE {e.peerId})

-----------------------------------------------------------------------------
Asked(e) == IF e.peerId = None THEN {} ELSE {e.peerId}

(* A further request.start of a live request adds its target.              *)
Extend(e) ==
    /\ Idle
    /\ pending' = [pending EXCEPT ![e.corrId].awaiting = @ \union Asked(e)]
    /\ rows' = [rows EXCEPT ![pending[e.corrId].row].peers = @ \union Asked(e)]
    /\ UNCHANGED <<clock, settled, counters, sweeping, fates>>

RequestStart(e) ==
    /\ e.type = "request.start"
    /\ IF e.corrId \in DOMAIN pending THEN Extend(e) ELSE Request(e.corrId, Asked(e))

IsAnswer(e) == e.type \in {"request.end", "message.in", "send.error"}

PeerAnswered(e) ==
    /\ IsAnswer(e)
    /\ e.peerId # None
    /\ Response(e.corrId, e.peerId)

(* emit(event); every other event falls through without effect.            *)
Emit(e) == RequestStart(e) \/ PeerAnswered(e)

SinkNext ==
    \/ \E e \in Event : Emit(e)
    \/ Sweep
    \/ Tick

SinkSpec == Init /\ [][SinkNext]_vars

(***************************************************************************)
(* Fairness. The file leaves sweeping to "the caller invoking `sweep`"     *)
(* (line 43); its promise that unanswered requests surface is worth        *)
(* nothing unless that caller keeps calling, so WF on starting a sweep     *)
(* states the caller's duty. A sweep is a synchronous loop and runs to its *)
(* end once started. Time passes however often sweeps run: SF, since a     *)
(* running sweep disables Tick. Events are owed nothing: no peer has to    *)
(* answer, and no application has to send.                                 *)
(***************************************************************************)
FairSpec == SinkSpec /\ SF_vars(Tick) /\ WF_vars(Sweep)

-----------------------------------------------------------------------------
(* The deadline of the requests and the horizon of the clock: a request    *)
(* that is registered too late to expire before MaxTime proves nothing.    *)
Expirable(c) == c \in DOMAIN pending /\ pending[c].t + TimeoutMs < MaxTime

(* Invariant #3 of the header: no request stays unaccounted for. Whatever  *)
(* the peers do, a request is eventually answered, timed out or evicted.   *)
NoRequestHangs ==
    \A c \in CorrId : \A r \in 1 .. MaxRows :
        Expirable(c) /\ pending[c].row = r ~> ~Open(r)

(* Through the seam every request is accounted for, and none is ever       *)
(* overwritten by a second announcement of the same corrId: it is extended *)
(* (sink.ts:64-69).                                                        *)
NothingOverwritten ==
    /\ EveryRequestAccounted
    /\ replaced = {}

(* `pending` is in order of age, so that the victim of the in-flight cap   *)
(* (correlator.ts:103-107) is the request that has waited longest, and     *)
(* never one that was just sent.                                           *)
PendingInAgeOrder ==
    \A c, d \in DOMAIN pending :
        /\ pending[c].pos = pending[c].row
        /\ pending[c].pos < pending[d].pos => pending[c].t <= pending[d].t

(* Who stays silent is named: a timeout row leaves out no peer that was    *)
(* announced for its request and never answered, and names none that was   *)
(* never announced (lines 32-36), whatever the order of announcements and  *)
(* answers. It may name a peer that did answer, before it was announced.   *)
SilenceIsNamed ==
    \A j \in 1 .. Len(rows) : rows[j].kind = "timeout" =>
        LET asked == rows[rows[j].of].peers
        IN  /\ asked \ Responders(rows[j].of) \subseteq rows[j].peers
            /\ rows[j].peers \subseteq asked

(* The peers of the fan-out of req row r that answered before its deadline.*)
InTime(r) ==
    {peer \in rows[r].peers : \E i \in RowsOf(r, "res") :
        peer \in rows[i].peers /\ rows[i].t - rows[r].t <= TimeoutMs}

(* What correlator.ts says of a timeout row: `unanswered` are the "peers   *)
(* that never answered" (line 27), and `partial` is "how many of the       *)
(* fan-out DID answer before the deadline" (line 29). No row is wrong on   *)
(* both counts. It does not hold: a peer that answers after the deadline,  *)
(* but before the sweep and before it is announced, is named as silent and *)
(* counted as in time.                                                     *)
TimeoutRowHalfRight ==
    \A j \in 1 .. Len(rows) : rows[j].kind = "timeout" =>
        LET r == rows[j].of
        IN  \/ rows[j].peers = rows[r].peers \ Responders(r)
            \/ rows[j].n = Cardinality(InTime(r))
=============================================================================

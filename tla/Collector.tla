------------------------------ MODULE Collector ------------------------------
(***************************************************************************)
(* core/correlator.ts: requests and responses are paired by corrId. Every  *)
(* request that leaves `pending` leaves it answered, as a timeout row that *)
(* names its silent peers, or counted as dropped.                          *)
(*                                                                         *)
(* This module models the class as its public methods are called directly: *)
(* request() with all its peers at once, even for a corrId that is still   *)
(* pending. CollectorSink adds the event seam in front of it.              *)
(*                                                                         *)
(* Times are in the collector's clock domain, which is monotone by default *)
(* (the probe's now()). The rows are those pushed into `events`; RingBuffer*)
(* says which of them a reader still finds there.                          *)
(***************************************************************************)
EXTENDS Integers, Sequences, FiniteSets, InsertionOrder

CONSTANTS
    CorrId,
    Peer,
    MaxPending,     \* `maxPending`
    MaxSettled,     \* `maxSettled`
    TimeoutMs,      \* `timeoutMs`
    MaxTime,        \* bound: the clock stops here
    MaxRows         \* bound: rows written by requests and responses, and late responses

ASSUME PeerAssumption == IsFiniteSet(Peer) /\ IsFiniteSet(CorrId)
ASSUME LimitAssumption ==
    /\ MaxPending \in Nat /\ MaxSettled \in Nat /\ TimeoutMs \in Nat
    /\ MaxTime \in Nat /\ MaxRows \in Nat

VARIABLES
    clock,
    pending,            \* Map corrId -> live request, in insertion order
    settled,            \* Set of corrIds, in insertion order
    rows,               \* every row pushed into `events`, oldest first
    pendingDropped,
    timedOut,
    lateAfterTimeout,
    sweeping,           \* the running sweep(): [on, now, at], `at` its place in the map
    evicted,            \* history: req rows of requests evicted from `pending`
    replaced            \* history: req rows of requests overwritten in `pending`

counters == <<pendingDropped, timedOut, lateAfterTimeout>>
fates == <<evicted, replaced>>
vars == <<clock, pending, settled, rows, counters, sweeping, fates>>

(* A row: `of` (history) is the index of the req row of its request.       *)
(*   req:     peers asked,        n = fanout                               *)
(*   res:     the one peer,       n = rtt                                  *)
(*   timeout: the silent peers,   n = partial                              *)
Row == [kind : {"req", "res", "timeout"}, corrId : CorrId, t : Nat,
        of : Nat, peers : SUBSET Peer, n : Nat]

(* `responses` keeps only the array's length: nothing reads its entries.   *)
PendingRequest == [pos : Nat, row : Nat, t : Nat,
                   awaiting : SUBSET Peer, responses : Nat]

Empty == [k \in {} |-> 0]

NotSweeping == [on |-> FALSE, now |-> 0, at |-> 0]

Init ==
    /\ clock = 0
    /\ pending = Empty
    /\ settled = Empty
    /\ rows = <<>>
    /\ pendingDropped = 0 /\ timedOut = 0 /\ lateAfterTimeout = 0
    /\ sweeping = NotSweeping
    /\ evicted = {}
    /\ replaced = {}

Idle == ~sweeping.on

(* Positions in both maps are row numbers: each insertion writes a row.    *)
Here == Len(rows) + 1

-----------------------------------------------------------------------------
(* Mutants: ways the definitions below could be wrong. *)

EvictNothing(full) == full

RttSwapped(p) == p.t - clock

SettleForgets(c) == UNCHANGED <<pending, settled>>

StillAwaitedNone(p, peer) == {}

UnansweredAtStart(p) == rows[p.row].peers

VisitedSkipsNext(c) ==
    LET later == KeysAfter(pending, pending[c].pos)
    IN  IF later = {} THEN pending[c].pos ELSE pending[NextKey(pending, pending[c].pos)].pos

-----------------------------------------------------------------------------
(* markSettled(corrId). Adding a member again does not move it, and since  *)
(* each call adds one id, the eviction loop turns at most once.            *)
MarkSettled(c) ==
    LET grown == IF c \in DOMAIN settled THEN settled ELSE Put(settled, c, [pos |-> Here])
    IN  IF Cardinality(DOMAIN grown) > MaxSettled THEN Delete(grown, Oldest(grown)) ELSE grown

(* request() gives up the oldest key once `pending` outgrows its cap.      *)
Evict(full) ==
    IF Cardinality(DOMAIN full) > MaxPending THEN Delete(full, Oldest(full)) ELSE full

(* request(corrId, method, peers, t). A corrId that is still pending keeps *)
(* its place in the map and loses its old entry.                           *)
Request(c, peers) ==
    LET old == c \in DOMAIN pending
        full == Put(pending, c, [pos |-> IF old THEN pending[c].pos ELSE Here,
                                 row |-> Here, t |-> clock,
                                 awaiting |-> peers, responses |-> 0])
    IN  /\ Idle
        /\ Len(rows) + lateAfterTimeout < MaxRows
        /\ pending' = Evict(full)
        /\ rows' = Append(rows, [kind |-> "req", corrId |-> c, t |-> clock, of |-> Here,
                                 peers |-> peers, n |-> Cardinality(peers)])
        /\ IF pending' = full
             THEN UNCHANGED <<pendingDropped, evicted>>
             ELSE /\ pendingDropped' = pendingDropped + 1
                  /\ evicted' = evicted \union {full[Oldest(full)].row}
        /\ replaced' = IF old THEN replaced \union {pending[c].row} ELSE replaced
        /\ UNCHANGED <<clock, settled, timedOut, lateAfterTimeout, sweeping>>

(* How a request leaves `pending` for good.                                *)
Settle(c) ==
    /\ pending' = Delete(pending, c)
    /\ settled' = MarkSettled(c)

StillAwaited(p, peer) == p.awaiting \ {peer}

Rtt(p) == clock - p.t

(* response(corrId, peer, t) to a live request: the last awaited answer    *)
(* settles it.                                                             *)
Answer(c, peer) ==
    /\ c \in DOMAIN pending
    /\ LET p == pending[c]
            awaiting == StillAwaited(p, peer)
       IN  /\ rows' = Append(rows, [kind |-> "res", corrId |-> c, t |-> clock, of |-> p.row,
                                    peers |-> {peer}, n |-> Rtt(p)])
           /\ IF awaiting = {}
                THEN Settle(c)
                ELSE /\ pending' = [pending EXCEPT ![c].awaiting = awaiting,
                                                   ![c].responses = @ + 1]
                     /\ UNCHANGED settled
    /\ UNCHANGED lateAfterTimeout

(* response() to a request that is not live: counted if it is remembered,  *)
(* otherwise ignored.                                                      *)
Late(c) ==
    /\ c \notin DOMAIN pending
    /\ lateAfterTimeout' = lateAfterTimeout + (IF c \in DOMAIN settled THEN 1 ELSE 0)
    /\ UNCHANGED <<pending, settled, rows>>

Response(c, peer) ==
    /\ Idle
    /\ Len(rows) + lateAfterTimeout < MaxRows
    /\ Answer(c, peer) \/ Late(c)
    /\ UNCHANGED <<clock, pendingDropped, timedOut, sweeping, fates>>

(* sweep(now), one step per turn of its loop. The loop is synchronous, so  *)
(* every other action waits until it is over.                              *)
SweepStart ==
    /\ Idle
    /\ sweeping' = [on |-> TRUE, now |-> clock, at |-> 0]
    /\ UNCHANGED <<clock, pending, settled, rows, counters, fates>>

Expired(p) == sweeping.now - p.t > TimeoutMs

Unanswered(p) == p.awaiting

(* Where the map's iteration stands after key c.                           *)
Visited(c) == pending[c].pos

SweepVisit ==
    /\ sweeping.on
    /\ KeysAfter(pending, sweeping.at) # {}
    /\ LET c == NextKey(pending, sweeping.at)
            p == pending[c]
       IN  /\ sweeping' = [sweeping EXCEPT !.at = Visited(c)]
           /\ IF Expired(p)
                THEN /\ rows' = Append(rows, [kind |-> "timeout", corrId |-> c,
                                              t |-> sweeping.now, of |-> p.row,
                                              peers |-> Unanswered(p), n |-> p.responses])
                     /\ Settle(c)
                     /\ timedOut' = timedOut + 1
                ELSE UNCHANGED <<rows, pending, settled, timedOut>>
    /\ UNCHANGED <<clock, pendingDropped, lateAfterTimeout, fates>>

SweepEnd ==
    /\ sweeping.on
    /\ KeysAfter(pending, sweeping.at) = {}
    /\ sweeping' = NotSweeping
    /\ UNCHANGED <<clock, pending, settled, rows, counters, fates>>

Tick ==
    /\ Idle
    /\ clock < MaxTime
    /\ clock' = clock + 1
    /\ UNCHANGED <<pending, settled, rows, counters, sweeping, fates>>

Sweep == SweepStart \/ SweepVisit \/ SweepEnd

Next ==
    \/ \E c \in CorrId, peers \in SUBSET Peer : Request(c, peers)
    \/ \E c \in CorrId, peer \in Peer : Response(c, peer)
    \/ Sweep
    \/ Tick

Spec == Init /\ [][Next]_vars

-----------------------------------------------------------------------------
TypeOK ==
    /\ clock \in Nat
    /\ \E S \in SUBSET CorrId : pending \in [S -> PendingRequest]
    /\ \E S \in SUBSET CorrId : settled \in [S -> [pos : Nat]]
    /\ rows \in Seq(Row)
    /\ pendingDropped \in Nat /\ timedOut \in Nat /\ lateAfterTimeout \in Nat
    /\ sweeping \in [on : BOOLEAN, now : Nat, at : Nat]
    /\ evicted \in SUBSET Nat
    /\ replaced \in SUBSET Nat

(* Both maps stay within their caps (lines 45, 49-55): invariant #1.       *)
MemoryBounded ==
    /\ Cardinality(DOMAIN pending) <= MaxPending
    /\ Cardinality(DOMAIN settled) <= MaxSettled

IsRow(i, kind) == i \in 1 .. Len(rows) /\ rows[i].kind = kind

RowsOf(r, kind) == {i \in 1 .. Len(rows) : rows[i].kind = kind /\ rows[i].of = r}

(* The peers whose answer to the request of req row r was recorded.        *)
Responders(r) == {peer \in Peer : \E i \in RowsOf(r, "res") : peer \in rows[i].peers}

Open(r) == \E c \in DOMAIN pending : pending[c].row = r

Answered(r) == Responders(r) # {} /\ rows[r].peers \subseteq Responders(r)

(* A request that vanishes does not vanish from the rows (lines 1-3): one  *)
(* that is no longer pending has all its answers, one timeout row, or is   *)
(* counted among the dropped; a replaced one was overwritten by the caller.*)
(* And only one of these: nothing is reported twice.                       *)
EveryRequestAccounted ==
    /\ \A r \in 1 .. Len(rows) : rows[r].kind = "req" =>
          \/ Open(r)
          \/ Answered(r)
          \/ RowsOf(r, "timeout") # {}
          \/ r \in evicted \union replaced
    /\ \A r \in 1 .. Len(rows) :
          /\ Open(r) => RowsOf(r, "timeout") = {} /\ r \notin evicted \union replaced
          /\ r \in evicted \union replaced => RowsOf(r, "timeout") = {}
    /\ evicted \intersect replaced = {}
    /\ pendingDropped = Cardinality(evicted)
    /\ timedOut = Cardinality({i \in 1 .. Len(rows) : rows[i].kind = "timeout"})

(* Called directly, the collector names in a timeout row exactly the peers *)
(* that never answered (line 27), and none before the deadline (line 133). *)
(* Its `partial` agrees with the rows a reader finds: it is their number,  *)
(* which is not what line 29 says of it (TimeoutRowHalfRight of the seam). *)
TimeoutNamesSilent ==
    \A j \in 1 .. Len(rows) : rows[j].kind = "timeout" =>
        /\ rows[j].peers = rows[rows[j].of].peers \ Responders(rows[j].of)
        /\ rows[j].n = Cardinality(RowsOf(rows[j].of, "res"))
        /\ rows[j].t - rows[rows[j].of].t > TimeoutMs

(* A reader who pairs rows by corrId alone reads them right: a res or      *)
(* timeout row belongs to the latest req row of its corrId, and after a    *)
(* timeout row nothing more is written about that request - a late answer  *)
(* neither resurrects the row nor counts twice (lines 3-5).                *)
RowsReadable ==
    \A j \in 1 .. Len(rows) :
        \E r \in 1 .. j :
            /\ rows[j].of = r /\ rows[r].kind = "req" /\ rows[r].corrId = rows[j].corrId
            /\ \A i \in r + 1 .. j : rows[i].corrId = rows[j].corrId => rows[i].kind # "req"
            /\ rows[j].kind = "timeout" =>
                 \A i \in j + 1 .. Len(rows) : rows[i].of # r

(* A sweep leaves no request behind that was overdue when it began, though *)
(* it deletes entries of the map it is iterating over (lines 131-147).     *)
SweepComplete ==
    [][sweeping.on /\ ~sweeping'.on =>
         \A c \in DOMAIN pending' : sweeping.now - pending'[c].t <= TimeoutMs]_vars
=============================================================================

--------------------------- MODULE CollectorProofs ----------------------------
(***************************************************************************)
(* Proofs about Collector and about CollectorSink in front of it, for any  *)
(* corrIds, peers, caps, timeout and order of calls. One invariant serves  *)
(* both: it says what a live request and the rows know of each other       *)
(* (Live): its req row is the last of its corrId, it awaits every peer no  *)
(* res row names and no stranger, and no row and no counter has closed it. *)
(* Called directly the collector also awaits nobody who has answered       *)
(* (Exact); behind the seam it need not, but overwrites nothing (Seam).    *)
(***************************************************************************)
EXTENDS CollectorSink, FiniteSetTheorems, SequenceTheorems, NaturalsInduction,
        WellFoundedInduction, TLAPS

LEMMA LeastOf == \A T : T \subseteq Nat /\ T # {} => \E m \in T : \A k \in T : m <= k
<1> SUFFICES ASSUME NEW T, T \subseteq Nat, T # {} PROVE \E m \in T : \A k \in T : m <= k
  OBVIOUS
<1>1. PICK m \in T : \A k \in T : <<k, m>> \notin OpToRel(<, Nat)
  BY NatLessThanWellFounded, WFMin, Zenon
<1>2. \A k \in T : ~(k < m)
  BY <1>1, Zenon DEF OpToRel
<1>3. \A k \in T : m <= k
  BY <1>2, SMT
<1> QED
  BY <1>3

(* What NextKey chooses is a key that was not visited, the first of them.  *)
LEMMA NextKeyFacts ==
    ASSUME NEW m, NEW p, \A k \in DOMAIN m : m[k].pos \in Nat, KeysAfter(m, p) # {}
    PROVE  /\ NextKey(m, p) \in KeysAfter(m, p)
           /\ \A l \in KeysAfter(m, p) : m[NextKey(m, p)].pos <= m[l].pos
<1> DEFINE places == {m[k].pos : k \in KeysAfter(m, p)}
<1>1. KeysAfter(m, p) \subseteq DOMAIN m
  BY DEF KeysAfter
<1>2. places \subseteq Nat /\ places # {}
  BY <1>1
<1>3. PICK x \in places : \A y \in places : x <= y
  BY <1>2, LeastOf
<1>4. \E k \in KeysAfter(m, p) : \A l \in KeysAfter(m, p) : m[k].pos <= m[l].pos
  BY <1>3
<1> QED
  BY <1>4 DEF NextKey

(* Evict() and the end of markSettled(): the oldest key goes when there    *)
(* are too many.                                                           *)
LEMMA OldestGoes ==
    ASSUME NEW m, NEW max \in Nat, IsFiniteSet(DOMAIN m),
           \A k \in DOMAIN m : m[k].pos \in Nat \ {0},
           Cardinality(DOMAIN m) > max
    PROVE  /\ Oldest(m) \in DOMAIN m
           /\ DOMAIN Delete(m, Oldest(m)) = DOMAIN m \ {Oldest(m)}
           /\ IsFiniteSet(DOMAIN m \ {Oldest(m)})
           /\ Cardinality(DOMAIN m \ {Oldest(m)}) = Cardinality(DOMAIN m) - 1
           /\ Delete(m, Oldest(m)) # m
<1>1. DOMAIN m # {}
  <2>1. Cardinality(DOMAIN m) # 0
    <3>1. Cardinality(DOMAIN m) \in Nat
      BY FS_CardinalityType
    <3> QED
      BY <3>1, SMT
  <2> QED
    BY <2>1, FS_EmptySet
<1>2. KeysAfter(m, 0) = DOMAIN m
  <2>1. \A x \in Nat \ {0} : x > 0
    BY SMT
  <2> QED
    BY <2>1 DEF KeysAfter
<1>3. Oldest(m) \in DOMAIN m
  BY <1>1, <1>2, NextKeyFacts DEF Oldest
<1>4. DOMAIN Delete(m, Oldest(m)) = DOMAIN m \ {Oldest(m)}
  BY DEF Delete
<1>5. Delete(m, Oldest(m)) # m
  BY <1>3, <1>4
<1> QED
  BY <1>3, <1>4, <1>5, FS_RemoveElement

(* A map of corrIds, with positions.                                       *)
Kept(m) ==
    /\ DOMAIN m \subseteq CorrId /\ m \in [DOMAIN m -> [pos : Nat]]
    /\ \A k \in DOMAIN m : m[k].pos # 0
    /\ Cardinality(DOMAIN m) <= MaxSettled

LEMMA MarkSettledKeeps ==
    ASSUME Kept(settled), Len(rows) \in Nat, NEW k \in CorrId
    PROVE  Kept(MarkSettled(k))
<1> DEFINE grown == IF k \in DOMAIN settled THEN settled ELSE Put(settled, k, [pos |-> Here])
<1>1. MarkSettled(k) = IF Cardinality(DOMAIN grown) > MaxSettled
                         THEN Delete(grown, Oldest(grown)) ELSE grown
  BY DEF MarkSettled
<1>2. Here \in Nat \ {0}
  <2> DEFINE n == Len(rows)
  <2>1. n \in Nat
    OBVIOUS
  <2> HIDE DEF n
  <2>2. n + 1 \in Nat \ {0}
    BY <2>1, SMT
  <2> QED
    BY <2>2 DEF Here, n
<1>3. /\ DOMAIN grown = DOMAIN settled \union {k} /\ grown \in [DOMAIN grown -> [pos : Nat]]
      /\ \A l \in DOMAIN grown : grown[l].pos # 0 /\ grown[l].pos \in Nat
  <2>1. CASE k \in DOMAIN settled
    BY <2>1 DEF Kept
  <2>2. CASE k \notin DOMAIN settled
    BY <1>2, <2>2 DEF Kept, Put
  <2> QED
    BY <2>1, <2>2
<1>4. /\ IsFiniteSet(DOMAIN settled) /\ IsFiniteSet(DOMAIN grown)
      /\ Cardinality(DOMAIN grown) <= Cardinality(DOMAIN settled) + 1
      /\ Cardinality(DOMAIN settled) \in Nat /\ Cardinality(DOMAIN grown) \in Nat
      /\ DOMAIN grown \subseteq CorrId
  <2>1. IsFiniteSet(DOMAIN settled)
    BY PeerAssumption, FS_Subset DEF Kept
  <2>2. /\ IsFiniteSet(DOMAIN settled \union {k})
        /\ Cardinality(DOMAIN settled \union {k})
             = IF k \in DOMAIN settled THEN Cardinality(DOMAIN settled)
               ELSE Cardinality(DOMAIN settled) + 1
    BY <2>1, FS_AddElement
  <2>3. Cardinality(DOMAIN settled) \in Nat
    BY <2>1, FS_CardinalityType
  <2>4. Cardinality(DOMAIN settled \union {k}) <= Cardinality(DOMAIN settled) + 1
    BY <2>2, <2>3, SMT
  <2>5. Cardinality(DOMAIN settled \union {k}) \in Nat
    BY <2>2, FS_CardinalityType
  <2> QED
    BY <1>3, <2>1, <2>2, <2>3, <2>4, <2>5 DEF Kept
<1> HIDE DEF grown
<1>5. CASE Cardinality(DOMAIN grown) > MaxSettled
  <2>1. \A l \in DOMAIN grown : grown[l].pos \in Nat \ {0}
    BY <1>3
  <2>2. /\ DOMAIN Delete(grown, Oldest(grown)) = DOMAIN grown \ {Oldest(grown)}
        /\ Cardinality(DOMAIN grown \ {Oldest(grown)}) = Cardinality(DOMAIN grown) - 1
    BY <1>4, <1>5, <2>1, LimitAssumption, OldestGoes
  <2>3. Cardinality(DOMAIN grown) - 1 <= MaxSettled
    BY <1>4, LimitAssumption, SMT DEF Kept
  <2>4. Delete(grown, Oldest(grown)) = [l \in DOMAIN grown \ {Oldest(grown)} |-> grown[l]]
    BY DEF Delete
  <2> DEFINE shrunk == [l \in DOMAIN grown \ {Oldest(grown)} |-> grown[l]]
  <2>5. MarkSettled(k) = shrunk
    BY <1>1, <1>5, <2>4
  <2>6. /\ DOMAIN shrunk = DOMAIN grown \ {Oldest(grown)}
        /\ shrunk \in [DOMAIN shrunk -> [pos : Nat]]
        /\ \A l \in DOMAIN shrunk : shrunk[l].pos # 0
    BY <1>3
  <2>7. Cardinality(DOMAIN shrunk) <= MaxSettled
    BY <2>2, <2>3, <2>6
  <2> HIDE DEF shrunk
  <2> QED
    BY <1>4, <2>5, <2>6, <2>7 DEF Kept
<1>6. CASE ~(Cardinality(DOMAIN grown) > MaxSettled)
  <2>1. Cardinality(DOMAIN grown) <= MaxSettled
    BY <1>4, <1>6, LimitAssumption, SMT
  <2> QED
    BY <1>1, <1>3, <1>4, <1>6, <2>1 DEF Kept
<1> QED
  BY <1>5, <1>6

-----------------------------------------------------------------------------
(* What a live request p of corrId k and the rows know of each other.      *)
Live(k, p) ==
    /\ p \in PendingRequest /\ p.pos # 0 /\ p.pos <= Len(rows) /\ p.t <= clock
    /\ IsRow(p.row, "req") /\ rows[p.row].corrId = k /\ rows[p.row].t = p.t
    /\ \A i \in p.row + 1 .. Len(rows) : rows[i].corrId = k => rows[i].kind # "req"
    /\ RowsOf(p.row, "timeout") = {}
    /\ p.row \notin evicted \union replaced
    /\ rows[p.row].peers \ Responders(p.row) \subseteq p.awaiting
    /\ p.awaiting \subseteq rows[p.row].peers
    /\ p.responses = Cardinality(RowsOf(p.row, "res"))

PendingOK ==
    /\ DOMAIN pending \subseteq CorrId /\ pending = [k \in DOMAIN pending |-> pending[k]]
    /\ Cardinality(DOMAIN pending) <= MaxPending
    /\ \A k \in DOMAIN pending : Live(k, pending[k])
    /\ \A j, k \in DOMAIN pending : pending[j].pos = pending[k].pos => j = k

FatesOK == IsFiniteSet(evicted) /\ \A r \in evicted \union replaced : IsRow(r, "req")

(* What a running sweep() has passed is not overdue.                       *)
SweepOK ==
    sweeping.on => \A k \in DOMAIN pending :
                       pending[k].pos <= sweeping.at => ~Expired(pending[k])

(* How the request of req row r was closed.                                *)
Gone(r) ==
    Answered(r) \/ RowsOf(r, "timeout") # {} \/ r \in evicted \union replaced

Fated ==
    /\ \A r \in 1 .. Len(rows) : rows[r].kind = "req" => Open(r) \/ Gone(r)
    /\ \A r \in evicted \union replaced : RowsOf(r, "timeout") = {}

Timeouts == {i \in 1 .. Len(rows) : rows[i].kind = "timeout"}

(* What a timeout row tells of its request.                                *)
TimeoutsOK ==
    \A j \in 1 .. Len(rows) : rows[j].kind = "timeout" =>
        /\ rows[rows[j].of].peers \ Responders(rows[j].of) \subseteq rows[j].peers
        /\ rows[j].peers \subseteq rows[rows[j].of].peers
        /\ rows[j].n = Cardinality(RowsOf(rows[j].of, "res"))
        /\ rows[j].t - rows[rows[j].of].t > TimeoutMs

Counted ==
    /\ evicted \intersect replaced = {}
    /\ pendingDropped = Cardinality(evicted)
    /\ timedOut = Cardinality(Timeouts)

Scalars ==
    /\ clock \in Nat /\ rows \in Seq(Row)
    /\ pendingDropped \in Nat /\ timedOut \in Nat /\ lateAfterTimeout \in Nat
    /\ sweeping \in [on : BOOLEAN, now : Nat, at : Nat]

IInv ==
    /\ Scalars /\ Kept(settled) /\ PendingOK /\ FatesOK /\ SweepOK
    /\ RowsReadable /\ TimeoutsOK /\ Fated /\ Counted

(* Called directly, the collector awaits nobody who answered: all peers of *)
(* a request are known from its start.                                     *)
AwaitsExactly ==
    \A k \in DOMAIN pending : pending[k].awaiting \intersect Responders(pending[k].row) = {}

NamesExactly ==
    \A j \in 1 .. Len(rows) : rows[j].kind = "timeout" =>
        rows[j].peers \intersect Responders(rows[j].of) = {}

Exact == AwaitsExactly /\ NamesExactly

(* Behind the event seam a peer may answer before it is announced, and is  *)
(* then awaited again; but requests are only extended, never overwritten.  *)
Seam == PendingInAgeOrder /\ replaced = {}

-----------------------------------------------------------------------------
LEMMA RowFields ==
    ASSUME rows \in Seq(Row)
    PROVE  /\ Len(rows) \in Nat
           /\ \A i \in 1 .. Len(rows) :
                /\ rows[i] \in Row /\ rows[i].kind \in {"req", "res", "timeout"}
                /\ rows[i].corrId \in CorrId /\ rows[i].t \in Nat /\ rows[i].of \in Nat
                /\ rows[i].peers \subseteq Peer /\ rows[i].n \in Nat
<1>1. Len(rows) \in Nat /\ \A i \in 1 .. Len(rows) : rows[i] \in Row
  <2> HIDE DEF Row
  <2> QED
    BY LenProperties, ElementOfSeq
<1> QED
  BY <1>1 DEF Row

(* A row is pushed.                                                        *)
Pushes(e) == rows \in Seq(Row) /\ e \in Row /\ rows' = Append(rows, e)

LEMMA Pushed ==
    ASSUME NEW e, Pushes(e), NEW n \in Nat, n = Len(rows)
    PROVE  /\ rows' \in Seq(Row) /\ Len(rows') = n + 1 /\ rows'[n + 1] = e
           /\ \A i \in 1 .. n : rows'[i] = rows[i]
           /\ 1 .. n + 1 = (1 .. n) \union {n + 1} /\ n + 1 \notin 1 .. n
<1>1. /\ rows' \in Seq(Row) /\ Len(rows') = n + 1 /\ rows'[n + 1] = e
      /\ \A i \in 1 .. n : rows'[i] = rows[i]
  <2> HIDE DEF Row
  <2> QED
    BY AppendProperties DEF Pushes
<1>2. 1 .. n + 1 = (1 .. n) \union {n + 1} /\ n + 1 \notin 1 .. n
  BY SMT
<1> QED
  BY <1>1, <1>2

LEMMA GrownRows ==
    ASSUME NEW e, Pushes(e), NEW n \in Nat, n = Len(rows), NEW r, NEW kind
    PROVE  RowsOf(r, kind)'
             = RowsOf(r, kind) \union (IF e.kind = kind /\ e.of = r THEN {n + 1} ELSE {})
<1>1. /\ Len(rows') = n + 1 /\ rows'[n + 1] = e
      /\ \A i \in 1 .. n : rows'[i] = rows[i]
      /\ 1 .. n + 1 = (1 .. n) \union {n + 1} /\ n + 1 \notin 1 .. n
  BY Pushed
<1>2. RowsOf(r, kind)' = {i \in 1 .. n + 1 : rows'[i].kind = kind /\ rows'[i].of = r}
  BY <1>1 DEF RowsOf
<1>3. RowsOf(r, kind) = {i \in 1 .. n : rows[i].kind = kind /\ rows[i].of = r}
  BY DEF RowsOf
<1> QED
  BY <1>1, <1>2, <1>3

LEMMA Grown ==
    ASSUME NEW e, Pushes(e), NEW n \in Nat, n = Len(rows)
    PROVE  /\ rows' \in Seq(Row) /\ Len(rows') = n + 1 /\ rows'[n + 1] = e
           /\ \A i \in 1 .. n : rows'[i] = rows[i]
           /\ 1 .. n + 1 = (1 .. n) \union {n + 1} /\ n + 1 \notin 1 .. n
           /\ \A r, kind : RowsOf(r, kind)'
                = RowsOf(r, kind) \union (IF e.kind = kind /\ e.of = r THEN {n + 1} ELSE {})
           /\ \A r : Responders(r)'
                = Responders(r) \union (IF e.kind = "res" /\ e.of = r THEN e.peers ELSE {})
           /\ \A r, kind : IsFiniteSet(RowsOf(r, kind)) /\ n + 1 \notin RowsOf(r, kind)
<1>1. /\ rows' \in Seq(Row) /\ Len(rows') = n + 1 /\ rows'[n + 1] = e
      /\ \A i \in 1 .. n : rows'[i] = rows[i]
  BY Pushed
<1>2. 1 .. n + 1 = (1 .. n) \union {n + 1} /\ n + 1 \notin 1 .. n
  BY Pushed
<1>3. ASSUME NEW r, NEW kind
      PROVE  RowsOf(r, kind)'
               = RowsOf(r, kind) \union (IF e.kind = kind /\ e.of = r THEN {n + 1} ELSE {})
  BY GrownRows
<1>4. ASSUME NEW r
      PROVE  Responders(r)' = Responders(r) \union (IF e.kind = "res" /\ e.of = r THEN e.peers ELSE {})
  <2>1. Responders(r)' = {peer \in Peer : \E i \in RowsOf(r, "res")' : peer \in rows'[i].peers}
    BY DEF Responders
  <2>2. Responders(r) = {peer \in Peer : \E i \in RowsOf(r, "res") : peer \in rows[i].peers}
    BY DEF Responders
  <2>3. \A i \in RowsOf(r, "res") : rows'[i] = rows[i]
    BY <1>1 DEF RowsOf
  <2>4. e.peers \subseteq Peer
    BY DEF Pushes, Row
  <2>5. CASE e.kind = "res" /\ e.of = r
    <3>1. RowsOf(r, "res")' = RowsOf(r, "res") \union {n + 1}
      BY <1>3, <2>5
    <3> QED
      BY <1>1, <2>1, <2>2, <2>3, <2>4, <2>5, <3>1
  <2>6. CASE ~(e.kind = "res" /\ e.of = r)
    <3>1. RowsOf(r, "res")' = RowsOf(r, "res")
      BY <1>3, <2>6
    <3> QED
      BY <2>1, <2>2, <2>3, <2>6, <3>1
  <2> QED
    BY <2>5, <2>6
<1>5. ASSUME NEW r, NEW kind
      PROVE  IsFiniteSet(RowsOf(r, kind)) /\ n + 1 \notin RowsOf(r, kind)
  <2>1. IsFiniteSet(1 .. n)
    BY FS_Interval
  <2>2. RowsOf(r, kind) \subseteq 1 .. n
    BY DEF RowsOf
  <2> QED
    BY <1>2, <2>1, <2>2, FS_Subset
<1> QED
  BY <1>1, <1>2, <1>3, <1>4, <1>5

LEMMA LiveFields ==
    ASSUME NEW k, NEW p, Live(k, p)
    PROVE  /\ p.pos \in Nat \ {0} /\ p.row \in 1 .. Len(rows) /\ p.t \in Nat
           /\ p.awaiting \subseteq Peer /\ p.responses \in Nat
           /\ rows[p.row].kind = "req" /\ rows[p.row].corrId = k
BY DEF Live, PendingRequest, IsRow

(* A request stays live when a row of another one is pushed.               *)
LEMMA StaysLive ==
    ASSUME NEW k, NEW p, Live(k, p), NEW e, Pushes(e),
           e.kind = "req" => e.corrId # k, e.of # p.row,
           clock' = clock, p.row \notin (evicted \union replaced)'
    PROVE  Live(k, p)'
<1>1. PICK n \in Nat : n = Len(rows)
  BY RowFields DEF Pushes
<1>2. /\ Len(rows') = n + 1 /\ rows'[n + 1] = e
      /\ \A i \in 1 .. n : rows'[i] = rows[i]
      /\ 1 .. n + 1 = (1 .. n) \union {n + 1}
      /\ RowsOf(p.row, "timeout")' = RowsOf(p.row, "timeout")
      /\ RowsOf(p.row, "res")' = RowsOf(p.row, "res")
      /\ Responders(p.row)' = Responders(p.row)
  <2>1. /\ Len(rows') = n + 1 /\ rows'[n + 1] = e
        /\ \A i \in 1 .. n : rows'[i] = rows[i]
        /\ 1 .. n + 1 = (1 .. n) \union {n + 1}
    BY <1>1, Grown
  <2>2. \A r, kind : RowsOf(r, kind)'
           = RowsOf(r, kind) \union (IF e.kind = kind /\ e.of = r THEN {n + 1} ELSE {})
    BY <1>1, Grown
  <2>3. \A r : Responders(r)'
           = Responders(r) \union (IF e.kind = "res" /\ e.of = r THEN e.peers ELSE {})
    BY <1>1, Grown
  <2>4. \A r, kind : e.of # r => RowsOf(r, kind)' = RowsOf(r, kind)
    BY <2>2
  <2>5. \A r : e.of # r => Responders(r)' = Responders(r)
    BY <2>3
  <2> QED
    BY <2>1, <2>4, <2>5
<1>3. p.pos \in Nat /\ p.row \in 1 .. n
  BY <1>1, LiveFields
<1>4. /\ p.pos <= n => p.pos <= n + 1
      /\ \A i \in p.row + 1 .. n + 1 : i = n + 1 \/ i \in p.row + 1 .. n
      /\ \A i \in p.row + 1 .. n : i \in 1 .. n
      /\ p.row \in 1 .. n + 1
  BY <1>3, SMT
<1>5. \A i \in p.row + 1 .. n + 1 : rows'[i].corrId = k => rows'[i].kind # "req"
  BY <1>1, <1>2, <1>4 DEF Live
<1> QED
  BY <1>1, <1>2, <1>3, <1>4, <1>5 DEF Live, IsRow

(* ... and when none is.                                                   *)
LEMMA LiveSame ==
    ASSUME NEW k, NEW p, Live(k, p), rows' = rows, clock' \in Nat, clock \in Nat, clock <= clock',
           p.row \notin (evicted \union replaced)'
    PROVE  Live(k, p)'
<1>1. p.t \in Nat /\ p.t <= clock
  BY LiveFields DEF Live
<1>2. p.t <= clock'
  BY <1>1, SMT
<1>3. RowsOf(p.row, "timeout")' = RowsOf(p.row, "timeout") /\ RowsOf(p.row, "res")' = RowsOf(p.row, "res")
  BY DEF RowsOf
<1>4. Responders(p.row)' = Responders(p.row)
  BY <1>3 DEF Responders
<1> QED
  BY <1>2, <1>3, <1>4 DEF Live, IsRow

(* What a row may be that is pushed: a req row of its own, or one of a     *)
(* request that is live.                                                   *)
Fits(e) ==
    IF e.kind = "req"
      THEN e.of = Len(rows) + 1
      ELSE /\ IsRow(e.of, "req") /\ rows[e.of].corrId = e.corrId
           /\ \A i \in e.of + 1 .. Len(rows) : rows[i].corrId = e.corrId => rows[i].kind # "req"
           /\ RowsOf(e.of, "timeout") = {}

LEMMA Between ==
    \A n \in Nat : \A r \in 1 .. n :
        /\ r \in 1 .. n + 1 /\ r <= n + 1 /\ r # n + 1
        /\ \A i \in r + 1 .. n + 1 : i = n + 1 \/ (i \in r + 1 .. n /\ i \in 1 .. n)
        /\ \A j \in 1 .. n : \A i \in r + 1 .. j : i \in 1 .. n
        /\ \A i \in 1 .. r : i \in 1 .. n
BY SMT

LEMMA StaysReadable ==
    ASSUME RowsReadable, NEW e, Pushes(e), Fits(e)
    PROVE  RowsReadable'
<1>1. PICK n \in Nat : n = Len(rows)
  BY RowFields DEF Pushes
<1>2. /\ Len(rows') = n + 1 /\ rows'[n + 1] = e
      /\ \A i \in 1 .. n : rows'[i] = rows[i]
      /\ 1 .. n + 1 = (1 .. n) \union {n + 1}
  BY <1>1, Grown
<1>3. /\ e.kind \in {"req", "res", "timeout"} /\ e.of \in Nat
      /\ \A j \in 1 .. n : rows[j].of \in Nat
  BY <1>1, RowFields DEF Pushes, Row
<1>n. /\ 1 .. Len(rows)' = 1 .. n + 1 /\ n + 1 \in 1 .. n + 1
      /\ n + 1 <= n + 1 /\ (n + 1) + 1 .. n + 1 = {}
  BY <1>2, SMT
<1> DEFINE Reads(j, r) ==
             /\ rows'[j].of = r /\ rows'[r].kind = "req" /\ rows'[r].corrId = rows'[j].corrId
             /\ \A i \in r + 1 .. j : rows'[i].corrId = rows'[j].corrId => rows'[i].kind # "req"
             /\ rows'[j].kind = "timeout" => \A i \in j + 1 .. n + 1 : rows'[i].of # r
<1> SUFFICES ASSUME NEW j \in 1 .. n + 1 PROVE \E r \in 1 .. j : Reads(j, r)
  BY <1>2 DEF RowsReadable
<1>4. CASE j \in 1 .. n
  <2>1. PICK r \in 1 .. j :
          /\ rows[j].of = r /\ rows[r].kind = "req" /\ rows[r].corrId = rows[j].corrId
          /\ \A i \in r + 1 .. j : rows[i].corrId = rows[j].corrId => rows[i].kind # "req"
          /\ rows[j].kind = "timeout" => \A i \in j + 1 .. n : rows[i].of # r
    BY <1>1, <1>4 DEF RowsReadable
  <2>2. rows'[j] = rows[j] /\ r \in 1 .. n
    BY <1>2, <1>4, Between
  <2>3. /\ \A i \in r + 1 .. j : i \in 1 .. n
        /\ \A i \in j + 1 .. n + 1 : i = n + 1 \/ (i \in j + 1 .. n /\ i \in 1 .. n)
    BY <1>4, <2>2, Between, Zenon
  <2>4. ASSUME rows[j].kind = "timeout" PROVE e.of # r
    <3>1. j \in RowsOf(r, "timeout")
      BY <1>1, <1>4, <2>1, <2>4 DEF RowsOf
    <3>2. r # n + 1
      BY <2>2, Between, Zenon
    <3> QED
      BY <1>1, <3>1, <3>2 DEF Fits
  <2>5. Reads(j, r)
    BY <1>2, <2>1, <2>2, <2>3, <2>4
  <2> QED
    BY <2>5
<1>5. CASE j = n + 1 /\ e.kind = "req"
  <2>1. e.of = n + 1
    BY <1>1, <1>5 DEF Fits
  <2>2. n + 1 \in 1 .. n + 1
    BY SMT
  <2>3. Reads(n + 1, n + 1)
    BY <1>2, <1>n, <1>5, <2>1, <2>2
  <2> QED
    BY <1>5, <2>2, <2>3
<1>6. CASE j = n + 1 /\ e.kind # "req"
  <2>1. PICK r \in 1 .. n :
          /\ r = e.of /\ rows[r].kind = "req" /\ rows[r].corrId = e.corrId
          /\ \A i \in r + 1 .. n : rows[i].corrId = e.corrId => rows[i].kind # "req"
    BY <1>1, <1>6 DEF Fits, IsRow
  <2>2. /\ r \in 1 .. n + 1 /\ j + 1 .. n + 1 = {}
        /\ \A i \in r + 1 .. j : i = n + 1 \/ (i \in r + 1 .. n /\ i \in 1 .. n)
    BY <1>6, <1>n, Between, Zenon
  <2>3. \A i \in r + 1 .. j : rows'[i].corrId = e.corrId => rows'[i].kind # "req"
    BY <1>2, <1>6, <2>1, <2>2
  <2>4. Reads(j, r)
    BY <1>2, <1>6, <2>1, <2>2, <2>3
  <2> QED
    BY <1>6, <2>2, <2>4
<1> QED
  BY <1>2, <1>4, <1>5, <1>6

LEMMA StaysNamed ==
    ASSUME RowsReadable, TimeoutsOK, NEW e, Pushes(e), Fits(e),
           e.kind = "timeout" =>
               /\ rows[e.of].peers \ Responders(e.of) \subseteq e.peers
               /\ e.peers \subseteq rows[e.of].peers
               /\ e.n = Cardinality(RowsOf(e.of, "res"))
               /\ e.t - rows[e.of].t > TimeoutMs
    PROVE  TimeoutsOK'
<1>1. PICK n \in Nat : n = Len(rows)
  BY RowFields DEF Pushes
<1>2. /\ Len(rows') = n + 1 /\ rows'[n + 1] = e
      /\ \A i \in 1 .. n : rows'[i] = rows[i]
      /\ 1 .. n + 1 = (1 .. n) \union {n + 1}
  BY <1>1, Grown
<1>3. /\ \A r : (e.kind = "res" => e.of # r) => RowsOf(r, "res")' = RowsOf(r, "res")
      /\ \A r : (e.kind = "res" => e.of # r) => Responders(r)' = Responders(r)
  <2>1. \A r, kind : RowsOf(r, kind)'
           = RowsOf(r, kind) \union (IF e.kind = kind /\ e.of = r THEN {n + 1} ELSE {})
    BY <1>1, Grown
  <2>2. \A r : Responders(r)'
           = Responders(r) \union (IF e.kind = "res" /\ e.of = r THEN e.peers ELSE {})
    BY <1>1, Grown
  <2> QED
    BY <2>1, <2>2
<1> SUFFICES ASSUME NEW j \in 1 .. n + 1, NEW r, r = rows'[j].of, rows'[j].kind = "timeout"
    PROVE  /\ rows'[r].peers \ Responders(r)' \subseteq rows'[j].peers
           /\ rows'[j].peers \subseteq rows'[r].peers
           /\ rows'[j].n = Cardinality(RowsOf(r, "res")')
           /\ rows'[j].t - rows'[r].t > TimeoutMs
  BY <1>2 DEF TimeoutsOK
<1>4. CASE j \in 1 .. n
  <2>1. r = rows[j].of /\ rows'[j] = rows[j] /\ rows[j].kind = "timeout"
    BY <1>2, <1>4
  <2>2. r \in 1 .. n
    <3>1. r \in 1 .. j
      BY <1>1, <1>4, <2>1 DEF RowsReadable
    <3> QED
      BY <1>4, <3>1, Between
  <2>3. e.kind = "res" => e.of # r
    <3>1. j \in RowsOf(r, "timeout")
      BY <1>1, <1>4, <2>1 DEF RowsOf
    <3> QED
      BY <3>1 DEF Fits
  <2> QED
    BY <1>1, <1>2, <1>3, <1>4, <2>1, <2>2, <2>3 DEF TimeoutsOK
<1>5. CASE j = n + 1
  <2>1. r = e.of /\ e.kind = "timeout" /\ r \in 1 .. n
    BY <1>1, <1>2, <1>5 DEF Fits, IsRow
  <2> QED
    BY <1>2, <1>3, <1>5, <2>1
<1> QED
  BY <1>2, <1>4, <1>5

LEMMA GoneStays ==
    ASSUME NEW r \in 1 .. Len(rows), Gone(r), NEW e, Pushes(e),
           evicted \subseteq evicted', replaced \subseteq replaced'
    PROVE  Gone(r)'
<1>1. PICK n \in Nat : n = Len(rows)
  BY RowFields DEF Pushes
<1>2. rows'[r] = rows[r]
  BY <1>1, Grown
<1>3. Responders(r) \subseteq Responders(r)'
  <2>1. Responders(r)'
          = Responders(r) \union (IF e.kind = "res" /\ e.of = r THEN e.peers ELSE {})
    BY <1>1, Grown
  <2> QED
    BY <2>1
<1>4. RowsOf(r, "timeout") \subseteq RowsOf(r, "timeout")'
  <2>1. RowsOf(r, "timeout")'
          = RowsOf(r, "timeout") \union (IF e.kind = "timeout" /\ e.of = r THEN {n + 1} ELSE {})
    BY <1>1, GrownRows
  <2> QED
    BY <2>1
<1>5. Answered(r) => Answered(r)'
  BY <1>2, <1>3 DEF Answered
<1> QED
  BY <1>4, <1>5 DEF Gone

LEMMA TimeoutsGrow ==
    ASSUME NEW e, Pushes(e)
    PROVE  /\ Cardinality(Timeouts) \in Nat
           /\ Cardinality(Timeouts') = Cardinality(Timeouts) + (IF e.kind = "timeout" THEN 1 ELSE 0)
<1>1. PICK n \in Nat : n = Len(rows)
  BY RowFields DEF Pushes
<1>2. /\ Len(rows') = n + 1 /\ rows'[n + 1] = e
      /\ \A i \in 1 .. n : rows'[i] = rows[i]
      /\ 1 .. n + 1 = (1 .. n) \union {n + 1} /\ n + 1 \notin 1 .. n
  BY <1>1, Grown
<1>3. Timeouts' = Timeouts \union (IF e.kind = "timeout" THEN {n + 1} ELSE {})
  BY <1>1, <1>2 DEF Timeouts
<1>4. n + 1 \notin Timeouts /\ IsFiniteSet(Timeouts)
  <2>1. Timeouts \subseteq 1 .. n
    BY <1>1 DEF Timeouts
  <2>2. IsFiniteSet(1 .. n)
    BY <1>1, FS_Interval
  <2>3. IsFiniteSet(Timeouts)
    BY <2>1, <2>2, FS_Subset
  <2> QED
    BY <1>2, <2>1, <2>3
<1>5. Cardinality(Timeouts) \in Nat
  BY <1>4, FS_CardinalityType
<1>6. CASE e.kind = "timeout"
  <2>1. Cardinality(Timeouts \union {n + 1}) = Cardinality(Timeouts) + 1
    BY <1>4, FS_AddElement
  <2> QED
    BY <1>3, <1>5, <1>6, <2>1
<1>7. CASE e.kind # "timeout"
  BY <1>3, <1>5, <1>7
<1> QED
  BY <1>6, <1>7

(* response() to a request that waits for more.                            *)
LEMMA LiveAnswered ==
    ASSUME NEW k, NEW p, Live(k, p), NEW e, Pushes(e), NEW peer, NEW q \in PendingRequest,
           e.kind = "res", e.of = p.row, e.peers = {peer},
           q.pos = p.pos, q.row = p.row, q.t = p.t,
           q.awaiting = p.awaiting \ {peer}, q.responses = p.responses + 1,
           clock' = clock, evicted' = evicted, replaced' = replaced
    PROVE  Live(k, q)'
<1>1. PICK n \in Nat : n = Len(rows)
  BY RowFields DEF Pushes
<1>2. /\ Len(rows') = n + 1 /\ rows'[n + 1] = e
      /\ \A i \in 1 .. n : rows'[i] = rows[i]
      /\ 1 .. n + 1 = (1 .. n) \union {n + 1}
  BY <1>1, Grown
<1>3. p.pos \in Nat /\ p.row \in 1 .. n /\ p.awaiting \subseteq Peer /\ p.responses \in Nat
  BY <1>1, LiveFields
<1>4. /\ RowsOf(p.row, "timeout")' = RowsOf(p.row, "timeout")
      /\ RowsOf(p.row, "res")' = RowsOf(p.row, "res") \union {n + 1}
      /\ Responders(p.row)' = Responders(p.row) \union {peer}
  <2>1. \A r, kind : RowsOf(r, kind)'
           = RowsOf(r, kind) \union (IF e.kind = kind /\ e.of = r THEN {n + 1} ELSE {})
    BY <1>1, Grown
  <2>2. \A r : Responders(r)'
           = Responders(r) \union (IF e.kind = "res" /\ e.of = r THEN e.peers ELSE {})
    BY <1>1, Grown
  <2> QED
    BY <2>1, <2>2
<1>5. q.responses = Cardinality(RowsOf(p.row, "res")')
  <2>1. IsFiniteSet(RowsOf(p.row, "res")) /\ n + 1 \notin RowsOf(p.row, "res")
    BY <1>1, Grown
  <2>2. Cardinality(RowsOf(p.row, "res") \union {n + 1}) = Cardinality(RowsOf(p.row, "res")) + 1
    BY <2>1, FS_AddElement
  <2> QED
    BY <1>4, <2>2 DEF Live
<1>6. p.pos <= n => p.pos <= n + 1
  BY <1>3, SMT
<1>7. \A i \in p.row + 1 .. n + 1 : rows'[i].corrId = k => rows'[i].kind # "req"
  BY <1>1, <1>2, <1>3, Between DEF Live
<1>8. p.row \in 1 .. n + 1
  BY <1>3, Between
<1> QED
  BY <1>1, <1>2, <1>3, <1>4, <1>5, <1>6, <1>7, <1>8 DEF Live, IsRow

(* request(): the new entry.                                               *)
LEMMA LiveFromNow ==
    ASSUME RowsReadable, NEW k, NEW e, Pushes(e), NEW q \in PendingRequest,
           NEW n \in Nat, n = Len(rows),
           e.kind = "req", e.corrId = k, e.of = n + 1, e.t = clock,
           q.pos # 0, q.pos <= n + 1, q.row = n + 1, q.t = clock,
           q.awaiting = e.peers, q.responses = 0,
           clock \in Nat, clock' = clock, n + 1 \notin (evicted \union replaced)'
    PROVE  Live(k, q)'
<1>1. /\ Len(rows') = n + 1 /\ rows'[n + 1] = e
      /\ 1 .. n + 1 = (1 .. n) \union {n + 1} /\ n + 1 \notin 1 .. n
  BY Grown
<1>2. \A kind : RowsOf(n + 1, kind) = {}
  <2>1. \A j \in 1 .. n : rows[j].of \in 1 .. n
    BY Between DEF RowsReadable
  <2> QED
    BY <1>1, <2>1 DEF RowsOf
<1>3. /\ \A kind : kind # "req" => RowsOf(n + 1, kind)' = {}
      /\ Responders(n + 1)' = {}
  <2>1. \A r, kind : RowsOf(r, kind)'
           = RowsOf(r, kind) \union (IF e.kind = kind /\ e.of = r THEN {n + 1} ELSE {})
    BY Grown
  <2>2. \A r : Responders(r)'
           = Responders(r) \union (IF e.kind = "res" /\ e.of = r THEN e.peers ELSE {})
    BY Grown
  <2>3. Responders(n + 1) = {}
    BY <1>2 DEF Responders
  <2> QED
    BY <1>2, <2>1, <2>2, <2>3
<1>4. n + 1 \in 1 .. n + 1 /\ (n + 1) + 1 .. n + 1 = {} /\ clock <= clock'
  BY SMT
<1>5. q.responses = Cardinality(RowsOf(n + 1, "res")')
  BY <1>3, FS_EmptySet
<1> QED
  BY <1>1, <1>3, <1>4, <1>5 DEF Live, IsRow

-----------------------------------------------------------------------------
LEMMA InitHolds == Init => IInv
<1> SUFFICES ASSUME Init PROVE IInv
  OBVIOUS
<1> USE DEF Init
<1>1. /\ pending = Empty /\ settled = Empty /\ DOMAIN Empty = {}
      /\ Cardinality({}) = 0 /\ IsFiniteSet({}) /\ MaxPending \in Nat /\ MaxSettled \in Nat
  BY LimitAssumption, FS_EmptySet DEF Empty
<1>2. rows \in Seq(Row) /\ Len(rows) = 0 /\ 1 .. Len(rows) = {}
  <2> HIDE DEF Row
  <2>1. <<>> \in Seq(Row) /\ Len(<<>>) = 0
    BY EmptySeq
  <2>2. 1 .. 0 = {}
    BY SMT
  <2> QED
    BY <2>1, <2>2
<1>3. Scalars
  BY <1>2 DEF Scalars, NotSweeping
<1>4. Kept(settled)
  BY <1>1 DEF Kept
<1>5. PendingOK
  BY <1>1 DEF PendingOK
<1>6. FatesOK
  BY <1>1 DEF FatesOK
<1>7. SweepOK
  BY DEF SweepOK, NotSweeping
<1>8. RowsReadable /\ TimeoutsOK /\ Fated
  BY <1>2 DEF RowsReadable, TimeoutsOK, Fated
<1>9. Counted
  <2>1. Timeouts = {}
    BY <1>2 DEF Timeouts
  <2> QED
    BY <1>1, <2>1 DEF Counted
<1> QED
  BY <1>3, <1>4, <1>5, <1>6, <1>7, <1>8, <1>9 DEF IInv

(* Which properties the invariant stands for.                              *)
LEMMA Typed == IInv => TypeOK
<1> SUFFICES ASSUME IInv PROVE TypeOK
  OBVIOUS
<1>1. Scalars /\ Kept(settled) /\ PendingOK /\ FatesOK
  BY DEF IInv
<1>2. \E S \in SUBSET CorrId : pending \in [S -> PendingRequest]
  <2>1. \A k \in DOMAIN pending : pending[k] \in PendingRequest
    BY <1>1 DEF PendingOK, Live
  <2>2. DOMAIN pending \in SUBSET CorrId /\ pending = [k \in DOMAIN pending |-> pending[k]]
    BY <1>1 DEF PendingOK
  <2>3. pending \in [DOMAIN pending -> PendingRequest]
    BY <2>1, <2>2
  <2> QED
    BY <2>2, <2>3
<1>3. \E S \in SUBSET CorrId : settled \in [S -> [pos : Nat]]
  BY <1>1 DEF Kept
<1>4. evicted \in SUBSET Nat /\ replaced \in SUBSET Nat
  <2>1. \A r : IsRow(r, "req") => r \in Nat
    BY DEF IsRow
  <2> QED
    BY <1>1, <2>1 DEF FatesOK
<1> QED
  BY <1>1, <1>2, <1>3, <1>4 DEF TypeOK, Scalars

LEMMA Bounded == IInv => MemoryBounded
BY DEF IInv, PendingOK, Kept, MemoryBounded

LEMMA Accounted == IInv => EveryRequestAccounted
<1> SUFFICES ASSUME IInv PROVE EveryRequestAccounted
  OBVIOUS
<1>1. Fated /\ Counted /\ PendingOK
  BY DEF IInv
<1>2. \A r : Open(r) => RowsOf(r, "timeout") = {} /\ r \notin evicted \union replaced
  BY <1>1 DEF PendingOK, Live, Open
<1>3. \A r \in 1 .. Len(rows) : rows[r].kind = "req" =>
          Open(r) \/ Answered(r) \/ RowsOf(r, "timeout") # {} \/ r \in evicted \union replaced
  BY <1>1 DEF Fated, Gone
<1>4. /\ evicted \intersect replaced = {} /\ pendingDropped = Cardinality(evicted)
      /\ timedOut = Cardinality({i \in 1 .. Len(rows) : rows[i].kind = "timeout"})
  BY <1>1 DEF Counted, Timeouts
<1>5. \A r \in 1 .. Len(rows) : r \in evicted \union replaced => RowsOf(r, "timeout") = {}
  BY <1>1 DEF Fated
<1> QED
  BY <1>2, <1>3, <1>4, <1>5 DEF EveryRequestAccounted

-----------------------------------------------------------------------------
(* Steps that push no row and keep the requests.                           *)
LEMMA QuietStep ==
    ASSUME IInv, UNCHANGED <<rows, pending, evicted, replaced, pendingDropped, timedOut>>,
           clock' \in Nat, clock <= clock'
    PROVE  PendingOK' /\ FatesOK' /\ RowsReadable' /\ TimeoutsOK' /\ Fated' /\ Counted'
<1>1. /\ rows' = rows /\ pending' = pending /\ evicted' = evicted /\ replaced' = replaced
      /\ pendingDropped' = pendingDropped /\ timedOut' = timedOut
  OBVIOUS
<1>2. PendingOK /\ clock \in Nat
  BY DEF IInv, Scalars
<1>3. ASSUME NEW k \in DOMAIN pending PROVE Live(k, pending[k])'
  <2>1. PICK p : p = pending[k]
    OBVIOUS
  <2>2. Live(k, p)
    BY <1>2, <2>1 DEF PendingOK
  <2>3. p.row \notin (evicted \union replaced)'
    BY <1>1, <2>2 DEF Live
  <2>4. Live(k, p)'
    BY <1>1, <1>2, <2>2, <2>3, LiveSame
  <2>5. pending'[k] = p
    BY <1>1, <2>1
  <2> QED
    BY <2>4, <2>5
<1>4. PendingOK'
  BY <1>1, <1>2, <1>3 DEF PendingOK
<1>5. FatesOK'
  BY <1>1 DEF IInv, FatesOK, IsRow
<1>6. RowsReadable' /\ TimeoutsOK'
  <2>1. RowsReadable'
    BY <1>1 DEF IInv, RowsReadable
  <2>2. TimeoutsOK'
    <3>1. \A r : RowsOf(r, "res")' = RowsOf(r, "res") /\ Responders(r)' = Responders(r)
      BY <1>1 DEF RowsOf, Responders
    <3>2. TimeoutsOK
      BY DEF IInv
    <3> QED
      BY <1>1, <3>1, <3>2 DEF TimeoutsOK
  <2> QED
    BY <2>1, <2>2
<1>7. Fated'
  BY <1>1 DEF IInv, Fated, Gone, Answered, Open, RowsOf, Responders
<1>8. Counted'
  BY <1>1 DEF IInv, Counted, Timeouts
<1> QED
  BY <1>4, <1>5, <1>6, <1>7, <1>8

LEMMA StutterStep == IInv /\ UNCHANGED vars => IInv'
<1> SUFFICES ASSUME IInv, UNCHANGED vars PROVE IInv'
  OBVIOUS
<1>1. /\ UNCHANGED <<rows, pending, evicted, replaced, pendingDropped, timedOut>>
      /\ clock' = clock /\ settled' = settled /\ sweeping' = sweeping
      /\ lateAfterTimeout' = lateAfterTimeout
  BY DEF vars, counters, fates
<1>2. clock \in Nat
  BY DEF IInv, Scalars
<1>3. clock <= clock' /\ clock' \in Nat
  BY <1>1, <1>2
<1>4. PendingOK' /\ FatesOK' /\ RowsReadable' /\ TimeoutsOK' /\ Fated' /\ Counted'
  BY <1>1, <1>3, QuietStep
<1>5. Scalars' /\ Kept(settled)' /\ SweepOK'
  BY <1>1 DEF IInv, Scalars, Kept, SweepOK, Expired
<1> QED
  BY <1>4, <1>5 DEF IInv

LEMMA TickStep == IInv /\ Tick => IInv'
<1> SUFFICES ASSUME IInv, Tick PROVE IInv'
  OBVIOUS
<1>1. /\ UNCHANGED <<rows, pending, evicted, replaced, pendingDropped, timedOut>>
      /\ clock' = clock + 1 /\ settled' = settled /\ sweeping' = sweeping
      /\ lateAfterTimeout' = lateAfterTimeout /\ ~sweeping.on
  BY DEF Tick, Idle, counters, fates
<1>2. clock \in Nat
  BY DEF IInv, Scalars
<1>3. clock <= clock' /\ clock' \in Nat
  BY <1>1, <1>2
<1>4. PendingOK' /\ FatesOK' /\ RowsReadable' /\ TimeoutsOK' /\ Fated' /\ Counted'
  BY <1>1, <1>3, QuietStep
<1>5. Scalars' /\ Kept(settled)' /\ SweepOK'
  BY <1>1, <1>3 DEF IInv, Scalars, Kept, SweepOK
<1> QED
  BY <1>4, <1>5 DEF IInv

LEMMA SweepStartStep == IInv /\ SweepStart => IInv'
<1> SUFFICES ASSUME IInv, SweepStart PROVE IInv'
  OBVIOUS
<1>1. /\ UNCHANGED <<rows, pending, evicted, replaced, pendingDropped, timedOut>>
      /\ clock' = clock /\ settled' = settled /\ sweeping' = [on |-> TRUE, now |-> clock, at |-> 0]
      /\ lateAfterTimeout' = lateAfterTimeout
  BY DEF SweepStart, counters, fates
<1>2. clock \in Nat
  BY DEF IInv, Scalars
<1>3. clock <= clock' /\ clock' \in Nat
  BY <1>1, <1>2
<1>4. PendingOK' /\ FatesOK' /\ RowsReadable' /\ TimeoutsOK' /\ Fated' /\ Counted'
  BY <1>1, <1>3, QuietStep
<1>5. Scalars' /\ Kept(settled)'
  BY <1>1, <1>2 DEF IInv, Scalars, Kept
<1>6. SweepOK'
  <2>1. ASSUME NEW k \in DOMAIN pending PROVE ~(pending[k].pos <= 0)
    <3>1. Live(k, pending[k])
      BY DEF IInv, PendingOK
    <3>2. pending[k].pos \in Nat \ {0}
      BY <3>1, LiveFields
    <3> QED
      BY <3>2, SMT
  <2>2. sweeping'.at = 0 /\ pending' = pending
    BY <1>1
  <2> QED
    BY <2>1, <2>2 DEF SweepOK
<1> QED
  BY <1>4, <1>5, <1>6 DEF IInv

LEMMA SweepEndStep == IInv /\ SweepEnd => IInv'
<1> SUFFICES ASSUME IInv, SweepEnd PROVE IInv'
  OBVIOUS
<1>1. /\ UNCHANGED <<rows, pending, evicted, replaced, pendingDropped, timedOut>>
      /\ clock' = clock /\ settled' = settled /\ sweeping' = NotSweeping
      /\ lateAfterTimeout' = lateAfterTimeout
  BY DEF SweepEnd, counters, fates
<1>2. clock \in Nat
  BY DEF IInv, Scalars
<1>3. clock <= clock' /\ clock' \in Nat
  BY <1>1, <1>2
<1>4. PendingOK' /\ FatesOK' /\ RowsReadable' /\ TimeoutsOK' /\ Fated' /\ Counted'
  BY <1>1, <1>3, QuietStep
<1>5. Scalars' /\ Kept(settled)' /\ SweepOK'
  BY <1>1, <1>2 DEF IInv, Scalars, Kept, SweepOK, NotSweeping
<1> QED
  BY <1>4, <1>5 DEF IInv

LEMMA LateStep == ASSUME IInv, NEW k, Idle, Late(k),
                         UNCHANGED <<clock, pendingDropped, timedOut, sweeping, fates>>
                  PROVE  IInv'
<1>1. /\ UNCHANGED <<rows, pending, evicted, replaced, pendingDropped, timedOut>>
      /\ clock' = clock /\ settled' = settled /\ sweeping' = sweeping /\ ~sweeping.on
      /\ lateAfterTimeout' = lateAfterTimeout + (IF k \in DOMAIN settled THEN 1 ELSE 0)
  BY DEF Late, Idle, fates
<1>2. clock \in Nat /\ lateAfterTimeout \in Nat
  BY DEF IInv, Scalars
<1>3. clock <= clock' /\ clock' \in Nat /\ lateAfterTimeout' \in Nat
  BY <1>1, <1>2
<1>4. PendingOK' /\ FatesOK' /\ RowsReadable' /\ TimeoutsOK' /\ Fated' /\ Counted'
  BY <1>1, <1>3, QuietStep
<1>5. Scalars' /\ Kept(settled)' /\ SweepOK'
  BY <1>1, <1>3 DEF IInv, Scalars, Kept, SweepOK
<1> QED
  BY <1>4, <1>5 DEF IInv

-----------------------------------------------------------------------------
(* A res or timeout row is pushed for the live request p of corrId k.      *)
Reports(e, k, p) ==
    /\ k \in DOMAIN pending /\ pending[k] = p
    /\ Pushes(e) /\ e.kind \in {"res", "timeout"} /\ e.of = p.row /\ e.corrId = k
    /\ e.kind = "timeout" =>
          e.peers = p.awaiting /\ e.n = p.responses /\ e.t - p.t > TimeoutMs
    /\ clock' = clock /\ evicted' = evicted /\ replaced' = replaced

LEMMA RowStep ==
    ASSUME IInv, NEW e, NEW k, NEW p, Reports(e, k, p)
    PROVE  RowsReadable' /\ TimeoutsOK' /\ FatesOK'
<1>1. Live(k, p) /\ RowsReadable /\ TimeoutsOK /\ FatesOK
  BY DEF IInv, PendingOK, Reports
<1>2. Pushes(e) /\ e.kind # "req" /\ e.of = p.row /\ e.corrId = k
  BY DEF Reports
<1>3. Fits(e)
  BY <1>1, <1>2 DEF Fits, Live
<1>4. RowsReadable'
  BY <1>1, <1>2, <1>3, StaysReadable
<1>5. e.kind = "timeout" =>
        /\ rows[e.of].peers \ Responders(e.of) \subseteq e.peers
        /\ e.peers \subseteq rows[e.of].peers
        /\ e.n = Cardinality(RowsOf(e.of, "res"))
        /\ e.t - rows[e.of].t > TimeoutMs
  BY <1>1 DEF Live, Reports
<1>6. TimeoutsOK'
  BY <1>1, <1>2, <1>3, <1>5, StaysNamed
<1>7. FatesOK'
  <2>1. PICK n \in Nat : n = Len(rows)
    BY <1>2, RowFields DEF Pushes
  <2>2. /\ Len(rows') = n + 1 /\ \A i \in 1 .. n : rows'[i] = rows[i]
        /\ 1 .. n + 1 = (1 .. n) \union {n + 1}
    BY <1>2, <2>1, Grown
  <2>3. \A r : IsRow(r, "req") => IsRow(r, "req")'
    BY <2>1, <2>2 DEF IsRow
  <2> QED
    BY <1>1, <2>3 DEF FatesOK, Reports
<1> QED
  BY <1>4, <1>6, <1>7

LEMMA OthersStep ==
    ASSUME IInv, NEW e, NEW k, NEW p, Reports(e, k, p)
    PROVE  /\ \A j, q : j \in DOMAIN pending \ {k} /\ q = pending[j] => Live(j, q)'
           /\ \A r \in (evicted \union replaced)' : RowsOf(r, "timeout")' = {}
           /\ \A r \in 1 .. Len(rows) : Gone(r) => Gone(r)'
           /\ \A r \in 1 .. Len(rows)' : rows'[r].kind = "req" =>
                  r \in 1 .. Len(rows) /\ rows[r].kind = "req"
<1>1. Live(k, p) /\ PendingOK /\ Fated
  BY DEF IInv, PendingOK, Reports
<1>2. /\ Pushes(e) /\ e.kind # "req" /\ e.of = p.row
      /\ clock' = clock /\ evicted' = evicted /\ replaced' = replaced
  BY DEF Reports
<1>3. PICK n \in Nat : n = Len(rows)
  BY <1>2, RowFields DEF Pushes
<1>4. /\ Len(rows') = n + 1 /\ rows'[n + 1] = e
      /\ \A i \in 1 .. n : rows'[i] = rows[i]
      /\ 1 .. n + 1 = (1 .. n) \union {n + 1}
  BY <1>2, <1>3, Grown
<1>5. ASSUME NEW j, NEW q, j \in DOMAIN pending \ {k}, q = pending[j]
      PROVE  Live(j, q)'
  <2>1. Live(j, q)
    BY <1>1, <1>5 DEF PendingOK
  <2>2. q.row # p.row
    BY <1>1, <1>5, <2>1 DEF Live
  <2>3. q.row \notin (evicted \union replaced)'
    BY <1>2, <2>1 DEF Live
  <2> QED
    BY <1>2, <2>1, <2>2, <2>3, StaysLive
<1>6. ASSUME NEW r \in (evicted \union replaced)' PROVE RowsOf(r, "timeout")' = {}
  <2>1. \A s, kind : RowsOf(s, kind)'
           = RowsOf(s, kind) \union (IF e.kind = kind /\ e.of = s THEN {n + 1} ELSE {})
    BY <1>2, <1>3, Grown
  <2>2. r \in evicted \union replaced
    BY <1>2
  <2>3. RowsOf(r, "timeout") = {} /\ r # p.row
    BY <1>1, <2>2 DEF Fated, Live
  <2> QED
    BY <1>2, <2>1, <2>3
<1>7. \A r \in 1 .. Len(rows) : Gone(r) => Gone(r)'
  BY <1>2, GoneStays
<1>8. \A r \in 1 .. Len(rows)' : rows'[r].kind = "req" =>
          r \in 1 .. Len(rows) /\ rows[r].kind = "req"
  BY <1>2, <1>3, <1>4
<1> QED
  BY <1>5, <1>6, <1>7, <1>8

(* The request is settled with it.                                         *)
LEMMA SettleStep ==
    ASSUME IInv, NEW e, NEW k, NEW p, Reports(e, k, p), Settle(k), Gone(p.row)'
    PROVE  PendingOK' /\ Fated' /\ Kept(settled)'
<1>1. PendingOK /\ Fated /\ Kept(settled) /\ k \in DOMAIN pending /\ pending[k] = p
  BY DEF IInv, Reports
<1>2. /\ DOMAIN pending' = DOMAIN pending \ {k}
      /\ \A j \in DOMAIN pending \ {k} : pending'[j] = pending[j]
      /\ pending' = [j \in DOMAIN pending' |-> pending'[j]]
  BY DEF Settle, Delete
<1>3. Cardinality(DOMAIN pending') <= MaxPending
  <2>1. IsFiniteSet(DOMAIN pending)
    BY <1>1, PeerAssumption, FS_Subset DEF PendingOK
  <2>2. Cardinality(DOMAIN pending \ {k}) = Cardinality(DOMAIN pending) - 1
    BY <1>1, <2>1, FS_RemoveElement
  <2>3. Cardinality(DOMAIN pending) \in Nat
    BY <2>1, FS_CardinalityType
  <2> QED
    BY <1>1, <1>2, <2>2, <2>3, LimitAssumption DEF PendingOK
<1>4. ASSUME NEW j \in DOMAIN pending' PROVE Live(j, pending[j])'
  <2>1. PICK q : q = pending[j]
    OBVIOUS
  <2>2. Live(j, q)'
    BY <1>2, <2>1, OthersStep
  <2>3. pending'[j] = q
    BY <1>2, <2>1
  <2> QED
    BY <2>2, <2>3
<1>5. PendingOK'
  BY <1>1, <1>2, <1>3, <1>4 DEF PendingOK
<1>6. Kept(settled)'
  <2>1. Len(rows) \in Nat
    BY RowFields DEF IInv, Scalars
  <2>2. Kept(MarkSettled(k))
    BY <1>1, <2>1, MarkSettledKeeps DEF PendingOK
  <2>3. settled' = MarkSettled(k)
    BY DEF Settle
  <2> QED
    BY <2>2, <2>3 DEF Kept
<1>7. Fated'
  <2>1. ASSUME NEW r \in 1 .. Len(rows)', rows'[r].kind = "req"
        PROVE  Open(r)' \/ Gone(r)'
    <3>1. r \in 1 .. Len(rows) /\ rows[r].kind = "req"
      BY <2>1, OthersStep
    <3>2. CASE Gone(r)
      BY <3>1, <3>2, OthersStep
    <3>3. CASE Open(r)
      <4>1. PICK j \in DOMAIN pending : pending[j].row = r
        BY <3>3 DEF Open
      <4>2. CASE j = k
        BY <1>1, <4>1, <4>2
      <4>3. CASE j # k
        BY <1>2, <4>1, <4>3 DEF Open
      <4> QED
        BY <4>2, <4>3
    <3> QED
      BY <1>1, <3>1, <3>2, <3>3 DEF Fated
  <2>2. \A r \in (evicted \union replaced)' : RowsOf(r, "timeout")' = {}
    BY OthersStep
  <2> QED
    BY <2>1, <2>2 DEF Fated
<1> QED
  BY <1>5, <1>6, <1>7

LEMMA RowIsRow ==
    \A kind \in {"req", "res", "timeout"}, k \in CorrId, t \in Nat, of \in Nat,
       peers \in SUBSET Peer, n \in Nat :
          [kind |-> kind, corrId |-> k, t |-> t, of |-> of, peers |-> peers, n |-> n] \in Row
BY DEF Row

LEMMA AnswerStep ==
    ASSUME IInv, NEW c \in CorrId, NEW peer \in Peer, Idle, Answer(c, peer),
           UNCHANGED <<clock, pendingDropped, timedOut, sweeping, fates>>
    PROVE  IInv'
<1>1. PICK p : p = pending[c]
  OBVIOUS
<1> DEFINE e == [kind |-> "res", corrId |-> c, t |-> clock, of |-> p.row,
                 peers |-> {peer}, n |-> Rtt(p)]
           awaiting == StillAwaited(p, peer)
<1>2. /\ c \in DOMAIN pending /\ rows' = Append(rows, e)
      /\ clock' = clock /\ evicted' = evicted /\ replaced' = replaced
      /\ sweeping' = sweeping /\ ~sweeping.on /\ pendingDropped' = pendingDropped
      /\ timedOut' = timedOut /\ lateAfterTimeout' = lateAfterTimeout
  BY <1>1 DEF Answer, Idle, fates
<1>3. IF awaiting = {}
        THEN Settle(c)
        ELSE /\ pending' = [pending EXCEPT ![c].awaiting = awaiting, ![c].responses = @ + 1]
             /\ settled' = settled
  BY <1>1 DEF Answer
<1>4. Live(c, p) /\ clock \in Nat /\ rows \in Seq(Row) /\ Counted /\ Kept(settled) /\ Scalars
      /\ PendingOK /\ Fated
  BY <1>1, <1>2 DEF IInv, PendingOK, Scalars
<1>5. Pushes(e)
  <2>1. p.row \in Nat
    BY <1>4, LiveFields
  <2>2. Rtt(p) \in Nat
    <3>1. p.t \in Nat /\ p.t <= clock
      BY <1>4, LiveFields DEF Live
    <3> QED
      BY <1>4, <3>1, SMT DEF Rtt
  <2>3. e \in Row
    BY <1>4, <2>1, <2>2, RowIsRow
  <2> QED
    BY <1>2, <1>4, <2>3 DEF Pushes
<1>6. Reports(e, c, p) /\ e.kind = "res" /\ e.of = p.row /\ e.peers = {peer}
  BY <1>1, <1>2, <1>5 DEF Reports
<1> HIDE DEF e
<1>7. RowsReadable' /\ TimeoutsOK' /\ FatesOK'
  BY <1>6, RowStep
<1>8. Counted'
  <2>1. Cardinality(Timeouts') = Cardinality(Timeouts)
    BY <1>5, <1>6, TimeoutsGrow
  <2> QED
    BY <1>2, <1>4, <2>1 DEF Counted
<1>9. Scalars' /\ SweepOK'
  <2>1. rows' \in Seq(Row)
    <3>1. PICK n \in Nat : n = Len(rows)
      BY <1>4, RowFields
    <3> QED
      BY <1>5, <3>1, Grown
  <2> QED
    BY <1>2, <1>4, <2>1 DEF Scalars, SweepOK
<1>10. CASE awaiting = {}
  <2>1. Settle(c)
    BY <1>3, <1>10
  <2>2. Gone(p.row)'
    <3>1. PICK n \in Nat : n = Len(rows)
      BY <1>4, RowFields
    <3>2. p.row \in 1 .. n /\ rows[p.row].peers \ Responders(p.row) \subseteq p.awaiting
      BY <1>4, <3>1, LiveFields DEF Live
    <3>3. Responders(p.row)' = Responders(p.row) \union {peer} /\ rows'[p.row] = rows[p.row]
      <4>1. \A r : Responders(r)'
               = Responders(r) \union (IF e.kind = "res" /\ e.of = r THEN e.peers ELSE {})
        BY <1>5, <3>1, Grown
      <4>2. \A i \in 1 .. n : rows'[i] = rows[i]
        BY <1>5, <3>1, Grown
      <4> QED
        BY <1>6, <3>2, <4>1, <4>2
    <3>4. p.awaiting \subseteq {peer}
      BY <1>10 DEF StillAwaited
    <3> QED
      BY <3>2, <3>3, <3>4 DEF Gone, Answered
  <2>3. PendingOK' /\ Fated' /\ Kept(settled)'
    BY <1>6, <2>1, <2>2, SettleStep
  <2> QED
    BY <1>7, <1>8, <1>9, <2>3 DEF IInv
<1>11. CASE awaiting # {}
  <2>1. PICK q : q = pending'[c]
    OBVIOUS
  <2>2. p \in PendingRequest /\ p.responses \in Nat /\ p.awaiting \subseteq Peer
    BY <1>4, LiveFields DEF Live
  <2>3. /\ DOMAIN pending' = DOMAIN pending /\ settled' = settled
        /\ \A j \in DOMAIN pending \ {c} : pending'[j] = pending[j]
        /\ pending' = [j \in DOMAIN pending' |-> pending'[j]]
    BY <1>3, <1>11, Zenon
  <2>4. /\ q \in PendingRequest /\ q.pos = p.pos /\ q.row = p.row /\ q.t = p.t
        /\ q.awaiting = p.awaiting \ {peer} /\ q.responses = p.responses + 1
    <3>1. awaiting \in SUBSET Peer /\ p.responses + 1 \in Nat
      BY <2>2 DEF StillAwaited
    <3>2. awaiting = p.awaiting \ {peer}
      BY DEF StillAwaited
    <3> HIDE DEF awaiting
    <3>3. pending' = [pending EXCEPT ![c].awaiting = awaiting, ![c].responses = @ + 1]
      BY <1>3, <1>11
    <3>4. q = [[p EXCEPT !.awaiting = awaiting] EXCEPT !.responses = p.responses + 1]
      BY <1>1, <1>2, <2>1, <2>2, <3>3 DEF PendingRequest
    <3> QED
      BY <2>2, <3>1, <3>2, <3>4 DEF PendingRequest
  <2>5. Live(c, q)'
    BY <1>2, <1>4, <1>5, <1>6, <2>4, LiveAnswered
  <2>6. ASSUME NEW j \in DOMAIN pending' PROVE Live(j, pending[j])'
    <3>1. PICK o : o = pending'[j]
      OBVIOUS
    <3>2. Live(j, o)'
      <4>1. CASE j = c
        BY <2>1, <2>5, <3>1, <4>1
      <4>2. CASE j # c
        BY <1>6, <2>3, <3>1, <4>2, OthersStep
      <4> QED
        BY <4>1, <4>2
    <3> QED
      BY <3>1, <3>2
  <2>7. \A j \in DOMAIN pending : pending'[j].pos = pending[j].pos /\ pending'[j].row = pending[j].row
    BY <1>1, <2>1, <2>3, <2>4
  <2>8. PendingOK'
    BY <1>4, <2>3, <2>6, <2>7 DEF PendingOK
  <2>9. Fated'
    <3>1. \A r : Open(r) => Open(r)'
      BY <2>3, <2>7 DEF Open
    <3>2. /\ \A r \in (evicted \union replaced)' : RowsOf(r, "timeout")' = {}
          /\ \A r \in 1 .. Len(rows) : Gone(r) => Gone(r)'
          /\ \A r \in 1 .. Len(rows)' : rows'[r].kind = "req" =>
                r \in 1 .. Len(rows) /\ rows[r].kind = "req"
      BY <1>6, OthersStep
    <3> QED
      BY <1>4, <3>1, <3>2 DEF Fated
  <2>10. Kept(settled)'
    BY <1>4, <2>3 DEF Kept
  <2> QED
    BY <1>7, <1>8, <1>9, <2>8, <2>9, <2>10 DEF IInv
<1> QED
  BY <1>10, <1>11

(* sweep() is past a request that was not overdue.                         *)
LEMMA PassedStep ==
    ASSUME IInv, NEW c, sweeping.on, c \in KeysAfter(pending, sweeping.at),
           \A k \in KeysAfter(pending, sweeping.at) : pending[c].pos <= pending[k].pos
    PROVE  \A k \in DOMAIN pending \ {c} : pending[k].pos <= pending[c].pos => ~Expired(pending[k])
<1> SUFFICES ASSUME NEW k \in DOMAIN pending \ {c}, pending[k].pos <= pending[c].pos
             PROVE  ~Expired(pending[k])
  OBVIOUS
<1>1. PendingOK /\ SweepOK /\ sweeping.at \in Nat /\ c \in DOMAIN pending
  BY DEF IInv, Scalars, KeysAfter
<1>2. pending[k].pos \in Nat /\ pending[c].pos \in Nat /\ pending[k].pos # pending[c].pos
  BY <1>1, LiveFields DEF PendingOK
<1>3. k \notin KeysAfter(pending, sweeping.at)
  BY <1>2
<1>4. pending[k].pos <= sweeping.at
  <2>1. ~(pending[k].pos > sweeping.at)
    BY <1>3 DEF KeysAfter
  <2> QED
    BY <1>1, <1>2, <2>1, SMT
<1> QED
  BY <1>1, <1>4 DEF SweepOK

LEMMA SweepVisitStep == IInv /\ SweepVisit => IInv'
<1> SUFFICES ASSUME IInv, SweepVisit PROVE IInv'
  OBVIOUS
<1>1. PICK c : c = NextKey(pending, sweeping.at)
  OBVIOUS
<1>2. PICK p : p = pending[c]
  OBVIOUS
<1>3. PendingOK /\ FatesOK /\ SweepOK /\ Kept(settled) /\ Scalars /\ Counted
  BY DEF IInv
<1>4. /\ sweeping.on /\ clock' = clock /\ evicted' = evicted /\ replaced' = replaced
      /\ pendingDropped' = pendingDropped /\ lateAfterTimeout' = lateAfterTimeout
      /\ sweeping' = [sweeping EXCEPT !.at = p.pos]
  BY <1>1, <1>2 DEF SweepVisit, fates, Visited
<1> DEFINE e == [kind |-> "timeout", corrId |-> c, t |-> sweeping.now, of |-> p.row,
                 peers |-> Unanswered(p), n |-> p.responses]
<1>5. IF Expired(p)
        THEN rows' = Append(rows, e) /\ Settle(c) /\ timedOut' = timedOut + 1
        ELSE rows' = rows /\ pending' = pending /\ settled' = settled /\ timedOut' = timedOut
  BY <1>1, <1>2 DEF SweepVisit
<1>6. /\ c \in KeysAfter(pending, sweeping.at) /\ c \in DOMAIN pending
      /\ \A k \in KeysAfter(pending, sweeping.at) : pending[c].pos <= pending[k].pos
  <2>1. \A k \in DOMAIN pending : pending[k].pos \in Nat
    BY <1>3, LiveFields DEF PendingOK
  <2>2. KeysAfter(pending, sweeping.at) # {}
    BY DEF SweepVisit
  <2> QED
    BY <1>1, <2>1, <2>2, NextKeyFacts DEF KeysAfter
<1>7. Live(c, p) /\ p.pos \in Nat /\ c \in CorrId
  BY <1>2, <1>3, <1>6, LiveFields DEF PendingOK
<1>8. /\ sweeping \in [on : BOOLEAN, now : Nat, at : Nat] /\ clock \in Nat
      /\ sweeping' \in [on : BOOLEAN, now : Nat, at : Nat]
      /\ sweeping'.at = p.pos /\ sweeping'.now = sweeping.now
  BY <1>3, <1>4, <1>7 DEF Scalars
<1>9. \A k \in DOMAIN pending \ {c} : pending[k].pos <= p.pos => ~Expired(pending[k])
  BY <1>2, <1>4, <1>6, PassedStep
<1>10. CASE Expired(p)
  <2>1. rows' = Append(rows, e) /\ Settle(c) /\ timedOut' = timedOut + 1
    BY <1>5, <1>10
  <2>2. Pushes(e)
    <3>1. p.row \in Nat /\ p.responses \in Nat /\ Unanswered(p) \in SUBSET Peer
      BY <1>7, LiveFields DEF Unanswered
    <3>2. e \in Row
      BY <1>7, <1>8, <3>1, RowIsRow
    <3> QED
      BY <1>3, <2>1, <3>2 DEF Pushes, Scalars
  <2>3. Reports(e, c, p) /\ e.kind = "timeout" /\ e.of = p.row
    BY <1>2, <1>4, <1>6, <1>10, <2>2 DEF Reports, Expired, Unanswered
  <2> HIDE DEF e
  <2>4. PICK n \in Nat : n = Len(rows)
    BY <1>3, RowFields DEF Scalars
  <2>5. Gone(p.row)'
    <3>1. \A s, kind : RowsOf(s, kind)'
             = RowsOf(s, kind) \union (IF e.kind = kind /\ e.of = s THEN {n + 1} ELSE {})
      BY <2>2, <2>4, Grown
    <3>2. RowsOf(p.row, "timeout")' # {}
      BY <2>3, <3>1
    <3> QED
      BY <3>2 DEF Gone
  <2>6. RowsReadable' /\ TimeoutsOK' /\ FatesOK'
    BY <2>3, RowStep
  <2>7. PendingOK' /\ Fated' /\ Kept(settled)'
    BY <2>1, <2>3, <2>5, SettleStep
  <2>8. Counted'
    <3>1. Cardinality(Timeouts') = Cardinality(Timeouts) + 1
      BY <2>2, <2>3, TimeoutsGrow
    <3> QED
      BY <1>3, <1>4, <2>1, <3>1 DEF Counted
  <2>9. Scalars'
    <3>1. rows' \in Seq(Row)
      BY <2>2, <2>4, Grown
    <3>2. timedOut \in Nat
      BY <1>3 DEF Scalars
    <3>3. timedOut' \in Nat
      BY <2>1, <3>2
    <3> QED
      BY <1>3, <1>4, <1>8, <3>1, <3>3 DEF Scalars
  <2>10. SweepOK'
    <3>1. \A k \in DOMAIN pending' : k \in DOMAIN pending \ {c} /\ pending'[k] = pending[k]
      BY <2>1 DEF Settle, Delete
    <3> QED
      BY <1>8, <1>9, <3>1 DEF SweepOK, Expired
  <2> QED
    BY <2>6, <2>7, <2>8, <2>9, <2>10 DEF IInv
<1>11. CASE ~Expired(p)
  <2>1. rows' = rows /\ pending' = pending /\ settled' = settled /\ timedOut' = timedOut
    BY <1>5, <1>11
  <2>2. clock <= clock' /\ clock' \in Nat
    BY <1>4, <1>8
  <2>3. PendingOK' /\ FatesOK' /\ RowsReadable' /\ TimeoutsOK' /\ Fated' /\ Counted'
    BY <1>4, <2>1, <2>2, QuietStep
  <2>4. Scalars' /\ Kept(settled)'
    BY <1>3, <1>4, <1>8, <2>1 DEF Scalars, Kept
  <2>5. SweepOK'
    BY <1>2, <1>8, <1>9, <1>11, <2>1 DEF SweepOK, Expired
  <2> QED
    BY <2>3, <2>4, <2>5 DEF IInv
<1> QED
  BY <1>10, <1>11

-----------------------------------------------------------------------------
(* request(), apart from what it gives up: row e is pushed, entry q made.  *)
Asks(e, q, c, n) ==
    /\ Pushes(e) /\ e.kind = "req" /\ e.corrId = c /\ e.of = n + 1 /\ e.t = clock
    /\ q \in PendingRequest /\ q.pos # 0 /\ q.pos <= n + 1 /\ q.row = n + 1 /\ q.t = clock
    /\ q.awaiting = e.peers /\ q.responses = 0
    /\ q.pos = IF c \in DOMAIN pending THEN pending[c].pos ELSE n + 1

(* What becomes of `pending`: at most one request is replaced or evicted.  *)
Keeps(q, c) ==
    /\ DOMAIN pending' \subseteq DOMAIN pending \union {c}
    /\ pending' = [j \in DOMAIN pending' |-> pending'[j]]
    /\ \A j \in DOMAIN pending' \ {c} : pending'[j] = pending[j]
    /\ c \in DOMAIN pending' => pending'[c] = q
    /\ Cardinality(DOMAIN pending') <= MaxPending

GivesUp(c, n) ==
    /\ evicted \subseteq evicted' /\ replaced \subseteq replaced'
    /\ \A r \in evicted' \union replaced' :
          \/ r \in evicted \union replaced
          \/ r = n + 1 /\ c \notin DOMAIN pending'
          \/ \E j \in DOMAIN pending : pending[j].row = r /\ (j \notin DOMAIN pending' \/ j = c)
    /\ \A j \in DOMAIN pending :
          j \in DOMAIN pending' \ {c} \/ pending[j].row \in evicted' \union replaced'
    /\ c \in DOMAIN pending' \/ n + 1 \in evicted'
    /\ evicted' \intersect replaced' = {}
    /\ IsFiniteSet(evicted') /\ pendingDropped' = Cardinality(evicted')

LEMMA RequestShape ==
    ASSUME IInv, NEW c \in CorrId, NEW peers \in SUBSET Peer, Request(c, peers),
           NEW n \in Nat, n = Len(rows)
    PROVE  \E e, q : Asks(e, q, c, n) /\ Keeps(q, c) /\ GivesUp(c, n)
<1> DEFINE old == c \in DOMAIN pending
           e == [kind |-> "req", corrId |-> c, t |-> clock, of |-> Here,
                 peers |-> peers, n |-> Cardinality(peers)]
           q == [pos |-> IF old THEN pending[c].pos ELSE Here, row |-> Here, t |-> clock,
                 awaiting |-> peers, responses |-> 0]
           full == Put(pending, c, q)
<1>1. PendingOK /\ FatesOK /\ Counted /\ Scalars
  BY DEF IInv
<1>2. /\ pending' = Evict(full) /\ rows' = Append(rows, e)
      /\ IF pending' = full
           THEN pendingDropped' = pendingDropped /\ evicted' = evicted
           ELSE /\ pendingDropped' = pendingDropped + 1
                /\ evicted' = evicted \union {full[Oldest(full)].row}
      /\ replaced' = IF old THEN replaced \union {pending[c].row} ELSE replaced
  BY DEF Request
<1>3. Here = n + 1 /\ n + 1 \in Nat /\ n + 1 # 0 /\ n + 1 <= n + 1 /\ n + 1 \notin 1 .. n
  BY SMT DEF Here
<1>4. \A j \in DOMAIN pending :
        /\ pending[j].pos \in Nat \ {0} /\ pending[j].pos <= n /\ pending[j].row \in 1 .. n
        /\ pending[j].pos <= n + 1
  <2> SUFFICES ASSUME NEW j \in DOMAIN pending
               PROVE  /\ pending[j].pos \in Nat \ {0} /\ pending[j].pos <= n
                      /\ pending[j].row \in 1 .. n /\ pending[j].pos <= n + 1
    OBVIOUS
  <2>1. Live(j, pending[j])
    BY <1>1 DEF PendingOK
  <2>2. pending[j].pos \in Nat \ {0} /\ pending[j].pos <= n /\ pending[j].row \in 1 .. n
    BY <2>1, LiveFields DEF Live
  <2> QED
    BY <2>2, SMT
<1>5. Asks(e, q, c, n)
  <2>1. Cardinality(peers) \in Nat
    BY PeerAssumption, FS_Subset, FS_CardinalityType
  <2>2. clock \in Nat /\ rows \in Seq(Row)
    BY <1>1 DEF Scalars
  <2>3. e \in Row
    BY <1>3, <2>1, <2>2, RowIsRow
  <2>4. Pushes(e)
    BY <1>2, <2>2, <2>3 DEF Pushes
  <2>5. q \in PendingRequest /\ q.pos # 0 /\ q.pos <= n + 1
    BY <1>3, <1>4, <2>2 DEF PendingRequest
  <2>6. /\ e.kind = "req" /\ e.corrId = c /\ e.of = n + 1 /\ e.t = clock
        /\ q.row = n + 1 /\ q.t = clock /\ q.awaiting = e.peers /\ q.responses = 0
        /\ q.pos = IF old THEN pending[c].pos ELSE n + 1
    BY <1>3
  <2> HIDE DEF e, q
  <2> QED
    BY <2>4, <2>5, <2>6 DEF Asks
<1>6. q.row = n + 1 /\ q.pos \in Nat \ {0}
  BY <1>3, <1>4
<1> HIDE DEF e, q
<1>7. /\ DOMAIN full = DOMAIN pending \union {c}
      /\ \A j \in DOMAIN pending \ {c} : full[j] = pending[j]
      /\ full[c] = q /\ full = [j \in DOMAIN full |-> full[j]]
  BY DEF Put
<1> HIDE DEF full
<1>8. /\ IsFiniteSet(DOMAIN full) /\ Cardinality(DOMAIN full) \in Nat
      /\ old => Cardinality(DOMAIN full) <= MaxPending
      /\ Cardinality(DOMAIN full) - 1 <= MaxPending
  <2>1. IsFiniteSet(DOMAIN pending)
    BY <1>1, PeerAssumption, FS_Subset DEF PendingOK
  <2>2. /\ IsFiniteSet(DOMAIN pending \union {c})
        /\ Cardinality(DOMAIN pending \union {c})
             = IF old THEN Cardinality(DOMAIN pending) ELSE Cardinality(DOMAIN pending) + 1
    BY <2>1, FS_AddElement
  <2>3. Cardinality(DOMAIN pending) \in Nat /\ Cardinality(DOMAIN pending) <= MaxPending
    BY <1>1, <2>1, FS_CardinalityType DEF PendingOK
  <2>4. Cardinality(DOMAIN full) \in Nat
    BY <1>7, <2>2, FS_CardinalityType
  <2>5. Cardinality(DOMAIN full)
             = IF old THEN Cardinality(DOMAIN pending) ELSE Cardinality(DOMAIN pending) + 1
    BY <1>7, <2>2
  <2>6. old => Cardinality(DOMAIN full) <= MaxPending
    BY <2>3, <2>5
  <2>7. Cardinality(DOMAIN full) - 1 <= MaxPending
    BY <2>3, <2>5, LimitAssumption
  <2> QED
    BY <1>7, <2>2, <2>4, <2>6, <2>7
<1>9. /\ IsFiniteSet(evicted) /\ evicted \union replaced \subseteq 1 .. n
      /\ evicted \intersect replaced = {} /\ pendingDropped = Cardinality(evicted)
      /\ \A j \in DOMAIN pending : pending[j].row \notin evicted \union replaced
  BY <1>1 DEF FatesOK, IsRow, Counted, PendingOK, Live
<1>10. CASE ~(Cardinality(DOMAIN full) > MaxPending)
  <2>1. pending' = full /\ Cardinality(DOMAIN full) <= MaxPending
    BY <1>2, <1>8, <1>10, LimitAssumption DEF Evict
  <2>2. evicted' = evicted /\ pendingDropped' = pendingDropped
    BY <1>2, <2>1
  <2>3. Keeps(q, c)
    BY <1>7, <2>1 DEF Keeps
  <2>4. GivesUp(c, n)
    <3>1. replaced' = IF old THEN replaced \union {pending[c].row} ELSE replaced
      BY <1>2
    <3>2. DOMAIN pending' = DOMAIN pending \union {c}
      BY <1>7, <2>1
    <3> QED
      BY <1>9, <2>2, <3>1, <3>2 DEF GivesUp
  <2> QED
    BY <1>5, <2>3, <2>4
<1>11. CASE Cardinality(DOMAIN full) > MaxPending
  <2>1. PICK o : o = Oldest(full)
    OBVIOUS
  <2>2. \A j \in DOMAIN full : full[j].pos \in Nat \ {0}
    BY <1>4, <1>6, <1>7
  <2>3. /\ o \in DOMAIN full /\ DOMAIN Delete(full, o) = DOMAIN full \ {o}
        /\ Cardinality(DOMAIN full \ {o}) = Cardinality(DOMAIN full) - 1
        /\ Delete(full, o) # full
    BY <1>8, <1>11, <2>1, <2>2, LimitAssumption, OldestGoes
  <2>4. pending' = Delete(full, o)
    BY <1>2, <1>11, <2>1 DEF Evict
  <2>5. ~old
    BY <1>8, <1>11, LimitAssumption
  <2>6. /\ pendingDropped' = pendingDropped + 1 /\ evicted' = evicted \union {full[o].row}
        /\ replaced' = replaced
    BY <1>2, <2>1, <2>3, <2>4, <2>5
  <2>7. /\ DOMAIN pending' = (DOMAIN pending \union {c}) \ {o}
        /\ \A j \in DOMAIN pending' : pending'[j] = full[j]
        /\ pending' = [j \in DOMAIN pending' |-> pending'[j]]
    BY <1>7, <2>3, <2>4 DEF Delete
  <2>8. Keeps(q, c)
    <3>1. Cardinality(DOMAIN pending') <= MaxPending
      BY <1>7, <1>8, <2>3, <2>7
    <3> QED
      BY <1>7, <2>7, <3>1 DEF Keeps
  <2>9. full[o].row \notin evicted \union replaced
    BY <1>3, <1>6, <1>7, <1>9, <2>3
  <2>10. IsFiniteSet(evicted') /\ pendingDropped' = Cardinality(evicted')
    BY <1>9, <2>6, <2>9, FS_AddElement
  <2>11. o = c \/ o \in DOMAIN pending \ {c}
    BY <1>7, <2>3
  <2>12. IF o = c THEN full[o].row = n + 1 ELSE full[o].row = pending[o].row
    BY <1>6, <1>7, <2>11
  <2>13. GivesUp(c, n)
    BY <1>9, <2>5, <2>6, <2>7, <2>9, <2>10, <2>11, <2>12 DEF GivesUp
  <2> QED
    BY <1>5, <2>8, <2>13
<1> QED
  BY <1>10, <1>11

LEMMA RequestPending ==
    ASSUME IInv, NEW c \in CorrId, NEW e, NEW q, NEW n \in Nat, n = Len(rows), clock' = clock,
           Asks(e, q, c, n), Keeps(q, c), GivesUp(c, n)
    PROVE  PendingOK'
<1>1. PendingOK /\ RowsReadable /\ FatesOK /\ clock \in Nat
  BY DEF IInv, Scalars
<1>2. \A j \in DOMAIN pending : pending[j].row \in 1 .. n /\ pending[j].pos \in Nat /\ pending[j].pos <= n
  <2> SUFFICES ASSUME NEW j \in DOMAIN pending
               PROVE  pending[j].row \in 1 .. n /\ pending[j].pos \in Nat /\ pending[j].pos <= n
    OBVIOUS
  <2>1. Live(j, pending[j])
    BY <1>1 DEF PendingOK
  <2> QED
    BY <2>1, LiveFields DEF Live
<1>3. n + 1 \notin 1 .. n /\ \A i \in 1 .. n : i # n + 1
  BY SMT
<1>4. ASSUME NEW j \in DOMAIN pending' \ {c} PROVE Live(j, pending[j])'
  <2>1. PICK p : p = pending[j]
    OBVIOUS
  <2>2. j \in DOMAIN pending /\ pending'[j] = p
    BY <2>1 DEF Keeps
  <2>3. Live(j, p)
    BY <1>1, <2>1, <2>2 DEF PendingOK
  <2>4. p.row \notin (evicted \union replaced)'
    <3>1. \A k \in DOMAIN pending : pending[k].row = p.row => k = j
      BY <1>1, <2>3 DEF PendingOK, Live
    <3>2. p.row # n + 1 /\ p.row \notin evicted \union replaced
      BY <1>2, <1>3, <2>1, <2>2, <2>3 DEF Live
    <3> QED
      BY <3>1, <3>2 DEF GivesUp
  <2>5. Pushes(e) /\ (e.kind = "req" => e.corrId # j) /\ e.of # p.row
    BY <1>2, <1>3, <2>1, <2>2 DEF Asks
  <2>6. Live(j, p)'
    BY <2>3, <2>4, <2>5, StaysLive
  <2> QED
    BY <2>2, <2>6
<1>5. ASSUME c \in DOMAIN pending' PROVE Live(c, pending[c])'
  <2>1. n + 1 \notin (evicted \union replaced)'
    <3>1. \A k \in DOMAIN pending : pending[k].row # n + 1
      BY <1>2, <1>3
    <3>2. n + 1 \notin evicted \union replaced
      BY <1>1, <1>3 DEF FatesOK, IsRow
    <3> QED
      BY <1>5, <3>1, <3>2 DEF GivesUp
  <2>2. Live(c, q)'
    BY <1>1, <2>1, LiveFromNow DEF Asks
  <2>3. pending'[c] = q
    BY <1>5 DEF Keeps
  <2> QED
    BY <2>2, <2>3
<1>6. \A j, k \in DOMAIN pending' : pending'[j].pos = pending'[k].pos => j = k
  <2>1. \A i \in Nat : i <= n => i # n + 1
    BY SMT
  <2>2. \A j \in DOMAIN pending' \ {c} :
          j \in DOMAIN pending /\ pending'[j].pos = pending[j].pos /\ pending[j].pos # n + 1
    BY <1>2, <2>1 DEF Keeps
  <2>3. c \in DOMAIN pending' =>
          pending'[c].pos = IF c \in DOMAIN pending THEN pending[c].pos ELSE n + 1
    BY DEF Keeps, Asks
  <2>4. \A j, k \in DOMAIN pending : pending[j].pos = pending[k].pos => j = k
    BY <1>1 DEF PendingOK
  <2> QED
    BY <2>2, <2>3, <2>4
<1>7. DOMAIN pending' \subseteq CorrId /\ pending' = [j \in DOMAIN pending' |-> pending'[j]]
      /\ Cardinality(DOMAIN pending') <= MaxPending
  BY <1>1 DEF PendingOK, Keeps
<1> QED
  BY <1>4, <1>5, <1>6, <1>7 DEF PendingOK

LEMMA RequestFates ==
    ASSUME IInv, NEW c \in CorrId, NEW e, NEW q, NEW n \in Nat, n = Len(rows), timedOut' = timedOut,
           Asks(e, q, c, n), Keeps(q, c), GivesUp(c, n)
    PROVE  FatesOK' /\ Fated' /\ Counted' /\ RowsReadable' /\ TimeoutsOK'
<1>1. PendingOK /\ RowsReadable /\ TimeoutsOK /\ FatesOK /\ Fated /\ Counted
  BY DEF IInv
<1>2. Pushes(e) /\ e.kind = "req" /\ e.of = n + 1 /\ q.row = n + 1
  BY DEF Asks
<1>3. Fits(e)
  BY <1>2 DEF Fits
<1>4. RowsReadable' /\ TimeoutsOK'
  BY <1>1, <1>2, <1>3, StaysReadable, StaysNamed
<1>5. /\ Len(rows') = n + 1 /\ rows'[n + 1] = e /\ \A i \in 1 .. n : rows'[i] = rows[i]
      /\ 1 .. n + 1 = (1 .. n) \union {n + 1} /\ n + 1 \notin 1 .. n
  BY <1>2, Grown
<1>6. \A j \in DOMAIN pending :
        /\ pending[j].row \in 1 .. n /\ rows[pending[j].row].kind = "req"
        /\ RowsOf(pending[j].row, "timeout") = {}
  <2> SUFFICES ASSUME NEW j \in DOMAIN pending
               PROVE  /\ pending[j].row \in 1 .. n /\ rows[pending[j].row].kind = "req"
                      /\ RowsOf(pending[j].row, "timeout") = {}
    OBVIOUS
  <2>1. Live(j, pending[j])
    BY <1>1 DEF PendingOK
  <2> QED
    BY <2>1, LiveFields DEF Live
<1>7. FatesOK'
  <2>1. \A r : r \in 1 .. n /\ rows[r].kind = "req" => IsRow(r, "req")'
    BY <1>5 DEF IsRow
  <2>2. IsRow(n + 1, "req")'
    BY <1>2, <1>5 DEF IsRow
  <2>3. \A r \in evicted \union replaced : r \in 1 .. n /\ rows[r].kind = "req"
    BY <1>1 DEF FatesOK, IsRow
  <2>4. \A r \in (evicted \union replaced)' : IsRow(r, "req")'
    <3>1. \A r \in (evicted \union replaced)' :
            r = n + 1 \/ (r \in 1 .. n /\ rows[r].kind = "req")
      BY <1>6, <2>3 DEF GivesUp
    <3> QED
      BY <2>1, <2>2, <3>1
  <2> QED
    BY <2>4 DEF FatesOK, GivesUp
<1>8. Counted'
  <2>1. Cardinality(Timeouts') = Cardinality(Timeouts)
    BY <1>2, TimeoutsGrow
  <2> QED
    BY <1>1, <2>1 DEF Counted, GivesUp
<1>9. ASSUME NEW r \in (evicted \union replaced)' PROVE RowsOf(r, "timeout")' = {}
  <2>1. \A s, kind : RowsOf(s, kind)'
           = RowsOf(s, kind) \union (IF e.kind = kind /\ e.of = s THEN {n + 1} ELSE {})
    BY <1>2, Grown
  <2>2. RowsOf(n + 1, "timeout") = {}
    <3>1. \A j \in 1 .. n : rows[j].of \in 1 .. n
      BY <1>1, Between DEF RowsReadable
    <3> QED
      BY <1>5, <3>1 DEF RowsOf
  <2>3. RowsOf(r, "timeout") = {}
    BY <1>1, <1>6, <1>9, <2>2 DEF GivesUp, Fated
  <2> QED
    BY <1>2, <2>1, <2>3
<1>10. ASSUME NEW r \in 1 .. n + 1, rows'[r].kind = "req"
       PROVE  Open(r)' \/ Gone(r)'
  <2>1. CASE r = n + 1
    <3>1. CASE c \in DOMAIN pending'
      <4>1. pending'[c].row = r
        BY <1>2, <2>1, <3>1 DEF Keeps
      <4> QED
        BY <3>1, <4>1 DEF Open
    <3>2. CASE c \notin DOMAIN pending'
      BY <2>1, <3>2 DEF GivesUp, Gone
    <3> QED
      BY <3>1, <3>2
  <2>2. CASE r \in 1 .. n /\ Gone(r)
    BY <1>2, <2>2, GoneStays DEF GivesUp
  <2>3. CASE r \in 1 .. n /\ Open(r)
    <3>1. PICK j \in DOMAIN pending : pending[j].row = r
      BY <2>3 DEF Open
    <3>2. CASE j \in DOMAIN pending' \ {c}
      <4>1. pending'[j].row = r
        BY <3>1, <3>2 DEF Keeps
      <4> QED
        BY <3>2, <4>1 DEF Open
    <3>3. CASE j \notin DOMAIN pending' \ {c}
      BY <3>1, <3>3 DEF GivesUp, Gone
    <3> QED
      BY <3>2, <3>3
  <2>4. r \in 1 .. n => rows[r].kind = "req"
    BY <1>5, <1>10
  <2> QED
    BY <1>1, <1>5, <2>1, <2>2, <2>3, <2>4 DEF Fated
<1>11. Fated'
  BY <1>5, <1>9, <1>10 DEF Fated
<1> QED
  BY <1>4, <1>7, <1>8, <1>11

LEMMA RequestStep ==
    ASSUME IInv, NEW c \in CorrId, NEW peers \in SUBSET Peer, Request(c, peers)
    PROVE  IInv'
<1>1. Scalars /\ Kept(settled) /\ rows \in Seq(Row)
  BY DEF IInv, Scalars
<1>2. PICK n \in Nat : n = Len(rows)
  BY <1>1, RowFields
<1>3. PICK e, q : Asks(e, q, c, n) /\ Keeps(q, c) /\ GivesUp(c, n)
  BY <1>2, RequestShape
<1>4. /\ clock' = clock /\ timedOut' = timedOut /\ lateAfterTimeout' = lateAfterTimeout
      /\ settled' = settled /\ sweeping' = sweeping /\ ~sweeping.on
  BY DEF Request, Idle
<1>5. PendingOK'
  BY <1>2, <1>3, <1>4, RequestPending
<1>6. FatesOK' /\ Fated' /\ Counted' /\ RowsReadable' /\ TimeoutsOK'
  BY <1>2, <1>3, <1>4, RequestFates
<1>7. Scalars' /\ Kept(settled)' /\ SweepOK'
  <2>1. rows' \in Seq(Row)
    BY <1>2, <1>3, Grown DEF Asks
  <2>2. pendingDropped' \in Nat
    BY <1>3, FS_CardinalityType DEF GivesUp
  <2> QED
    BY <1>1, <1>4, <2>1, <2>2 DEF Scalars, Kept, SweepOK
<1> QED
  BY <1>5, <1>6, <1>7 DEF IInv

LEMMA NextStep == IInv /\ [Next]_vars => IInv'
<1> SUFFICES ASSUME IInv, [Next]_vars PROVE IInv'
  OBVIOUS
<1>1. CASE \E c \in CorrId, peers \in SUBSET Peer : Request(c, peers)
  BY <1>1, RequestStep
<1>2. ASSUME NEW c \in CorrId, NEW peer \in Peer, Response(c, peer) PROVE IInv'
  <2>1. Idle /\ UNCHANGED <<clock, pendingDropped, timedOut, sweeping, fates>>
    BY <1>2 DEF Response
  <2>2. CASE Answer(c, peer)
    BY <2>1, <2>2, AnswerStep
  <2>3. CASE Late(c)
    BY <2>1, <2>3, LateStep
  <2> QED
    BY <1>2, <2>2, <2>3 DEF Response
<1>3. CASE Sweep
  BY <1>3, SweepStartStep, SweepVisitStep, SweepEndStep DEF Sweep
<1>4. CASE Tick
  BY <1>4, TickStep
<1>5. CASE UNCHANGED vars
  BY <1>5, StutterStep
<1> QED
  BY <1>1, <1>2, <1>3, <1>4, <1>5 DEF Next

LEMMA Inductive == Spec => []IInv
BY InitHolds, NextStep, PTL DEF Spec

-----------------------------------------------------------------------------
(* Called directly: who answered is neither awaited nor named.             *)
LEMMA NamesStay ==
    ASSUME IInv, NamesExactly, NEW e, Pushes(e),
           e.kind = "timeout" => e.peers \intersect Responders(e.of) = {},
           e.kind = "res" => RowsOf(e.of, "timeout") = {}
    PROVE  NamesExactly'
<1>1. PICK n \in Nat : n = Len(rows)
  BY RowFields DEF Pushes
<1>2. /\ Len(rows') = n + 1 /\ rows'[n + 1] = e
      /\ \A i \in 1 .. n : rows'[i] = rows[i]
      /\ 1 .. n + 1 = (1 .. n) \union {n + 1}
  BY <1>1, Grown
<1>3. \A r : (e.kind = "res" => e.of # r) => Responders(r)' = Responders(r)
  <2>1. \A r : Responders(r)'
           = Responders(r) \union (IF e.kind = "res" /\ e.of = r THEN e.peers ELSE {})
    BY <1>1, Grown
  <2> QED
    BY <2>1
<1> SUFFICES ASSUME NEW j \in 1 .. n + 1, NEW r, r = rows'[j].of, rows'[j].kind = "timeout"
    PROVE  rows'[j].peers \intersect Responders(r)' = {}
  BY <1>2 DEF NamesExactly
<1>4. CASE j \in 1 .. n
  <2>1. r = rows[j].of /\ rows'[j] = rows[j] /\ j \in RowsOf(r, "timeout")
    BY <1>1, <1>2, <1>4 DEF RowsOf
  <2>2. Responders(r)' = Responders(r)
    BY <1>3, <2>1
  <2>3. rows[j].peers \intersect Responders(r) = {}
    BY <1>1, <1>2, <1>4, <2>1 DEF NamesExactly
  <2> QED
    BY <2>1, <2>2, <2>3
<1>5. CASE j = n + 1
  BY <1>2, <1>3, <1>5
<1> QED
  BY <1>2, <1>4, <1>5

(* Requests whose entries and answers are as they were.                    *)
LEMMA AwaitsStay ==
    ASSUME AwaitsExactly, NEW k \in DOMAIN pending, NEW r, r = pending[k].row,
           k \in DOMAIN pending', pending'[k] = pending[k], Responders(r)' = Responders(r)
    PROVE  \A p : p = pending'[k] => p.awaiting \intersect Responders(p.row)' = {}
<1>1. PICK p : p = pending'[k]
  OBVIOUS
<1>2. p.row = r /\ p.awaiting \intersect Responders(r) = {}
  BY <1>1 DEF AwaitsExactly
<1> QED
  BY <1>1, <1>2

LEMMA NothingYet ==
    ASSUME RowsReadable, NEW n \in Nat, n = Len(rows)
    PROVE  Responders(n + 1) = {}
<1>1. \A j \in 1 .. n : rows[j].of \in 1 .. n
  BY Between DEF RowsReadable
<1>2. n + 1 \notin 1 .. n
  BY SMT
<1>3. RowsOf(n + 1, "res") = {}
  BY <1>1, <1>2 DEF RowsOf
<1> QED
  BY <1>3 DEF Responders

LEMMA ExactRequest ==
    ASSUME IInv, Exact, NEW c \in CorrId, NEW peers \in SUBSET Peer, Request(c, peers)
    PROVE  Exact'
<1>1. AwaitsExactly /\ NamesExactly /\ RowsReadable /\ rows \in Seq(Row)
  BY DEF Exact, IInv, Scalars
<1>2. PICK n \in Nat : n = Len(rows)
  BY <1>1, RowFields
<1>3. PICK e, q : Asks(e, q, c, n) /\ Keeps(q, c) /\ GivesUp(c, n)
  BY <1>2, RequestShape
<1>4. Pushes(e) /\ e.kind = "req"
  BY <1>3 DEF Asks
<1>5. NamesExactly'
  BY <1>1, <1>4, NamesStay
<1>6. \A r : Responders(r)' = Responders(r)
  <2>1. \A r : Responders(r)'
           = Responders(r) \union (IF e.kind = "res" /\ e.of = r THEN e.peers ELSE {})
    BY <1>2, <1>4, Grown
  <2> QED
    BY <1>4, <2>1
<1>7. ASSUME NEW k \in DOMAIN pending', NEW p, p = pending'[k]
      PROVE  p.awaiting \intersect Responders(p.row)' = {}
  <2>1. CASE k = c
    <3>1. p.row = n + 1
      BY <1>3, <1>7, <2>1 DEF Keeps, Asks
    <3>2. Responders(n + 1) = {}
      BY <1>1, <1>2, NothingYet
    <3> QED
      BY <1>6, <3>1, <3>2
  <2>2. CASE k # c
    <3>1. k \in DOMAIN pending /\ pending'[k] = pending[k]
      BY <1>3, <1>7, <2>2 DEF Keeps
    <3>2. PICK r : r = pending[k].row
      OBVIOUS
    <3>3. Responders(r)' = Responders(r)
      BY <1>6
    <3> QED
      BY <1>1, <1>7, <3>1, <3>2, <3>3, AwaitsStay
  <2> QED
    BY <2>1, <2>2
<1>8. AwaitsExactly'
  BY <1>7 DEF AwaitsExactly
<1> QED
  BY <1>5, <1>8 DEF Exact

(* What `pending` keeps of request p of corrId k, once row e is written.   *)
Remains(e, k, p) ==
    /\ DOMAIN pending' \subseteq DOMAIN pending
    /\ \A j \in DOMAIN pending' \ {k} : pending'[j] = pending[j]
    /\ k \in DOMAIN pending' =>
          /\ e.kind = "res" /\ pending'[k].awaiting = p.awaiting \ e.peers
          /\ pending'[k].row = p.row /\ pending'[k].pos = p.pos /\ pending'[k].t = p.t

LEMMA AnswerShape ==
    ASSUME IInv, NEW c \in CorrId, NEW peer \in Peer, Answer(c, peer), UNCHANGED <<clock, fates>>
    PROVE  \E e, p : Reports(e, c, p) /\ Remains(e, c, p)
<1>1. PICK p : p = pending[c]
  OBVIOUS
<1> DEFINE e == [kind |-> "res", corrId |-> c, t |-> clock, of |-> p.row,
                 peers |-> {peer}, n |-> Rtt(p)]
           awaiting == StillAwaited(p, peer)
<1>2. /\ c \in DOMAIN pending /\ rows' = Append(rows, e)
      /\ clock' = clock /\ evicted' = evicted /\ replaced' = replaced
      /\ IF awaiting = {}
           THEN Settle(c)
           ELSE pending' = [pending EXCEPT ![c].awaiting = awaiting, ![c].responses = @ + 1]
  BY <1>1 DEF Answer, fates
<1>3. Live(c, p) /\ clock \in Nat /\ rows \in Seq(Row)
  BY <1>1, <1>2 DEF IInv, PendingOK, Scalars
<1>4. e \in Row
  <2>1. p.row \in Nat /\ p.t \in Nat /\ p.t <= clock
    BY <1>3, LiveFields DEF Live
  <2>2. Rtt(p) \in Nat
    BY <1>3, <2>1, SMT DEF Rtt
  <2> QED
    BY <1>3, <2>1, <2>2, RowIsRow
<1>5. Reports(e, c, p) /\ e.kind = "res" /\ e.peers = {peer}
  BY <1>1, <1>2, <1>3, <1>4 DEF Reports, Pushes
<1>6. awaiting = p.awaiting \ {peer} /\ p \in PendingRequest
  BY <1>3 DEF StillAwaited, Live
<1> HIDE DEF e, awaiting
<1>7. CASE awaiting = {}
  BY <1>2, <1>5, <1>7 DEF Settle, Delete, Remains
<1>8. CASE awaiting # {}
  <2>1. pending' = [pending EXCEPT ![c].awaiting = awaiting, ![c].responses = @ + 1]
    BY <1>2, <1>8
  <2>2. /\ DOMAIN pending' = DOMAIN pending
        /\ \A j \in DOMAIN pending \ {c} : pending'[j] = pending[j]
    BY <2>1, Zenon
  <2>3. pending'[c] = [[p EXCEPT !.awaiting = awaiting] EXCEPT !.responses = p.responses + 1]
    BY <1>1, <1>2, <1>6, <2>1 DEF PendingRequest
  <2>4. /\ pending'[c].awaiting = awaiting /\ pending'[c].row = p.row
        /\ pending'[c].pos = p.pos /\ pending'[c].t = p.t
    BY <1>6, <2>3 DEF PendingRequest
  <2> QED
    BY <1>5, <1>6, <2>2, <2>4 DEF Remains
<1> QED
  BY <1>7, <1>8

LEMMA VisitShape ==
    ASSUME IInv, SweepVisit
    PROVE  \/ rows' = rows /\ pending' = pending
           \/ \E e, c, p : Reports(e, c, p) /\ Remains(e, c, p)
<1>1. PICK c : c = NextKey(pending, sweeping.at)
  OBVIOUS
<1>2. PICK p : p = pending[c]
  OBVIOUS
<1> DEFINE e == [kind |-> "timeout", corrId |-> c, t |-> sweeping.now, of |-> p.row,
                 peers |-> Unanswered(p), n |-> p.responses]
<1>3. /\ clock' = clock /\ evicted' = evicted /\ replaced' = replaced
      /\ IF Expired(p)
           THEN rows' = Append(rows, e) /\ Settle(c)
           ELSE rows' = rows /\ pending' = pending
  BY <1>1, <1>2 DEF SweepVisit, fates
<1>4. CASE Expired(p)
  <2>1. PendingOK /\ rows \in Seq(Row) /\ sweeping.now \in Nat
    BY DEF IInv, Scalars
  <2>2. c \in DOMAIN pending
    <3>1. \A k \in DOMAIN pending : pending[k].pos \in Nat
      BY <2>1, LiveFields DEF PendingOK
    <3>2. KeysAfter(pending, sweeping.at) # {}
      BY DEF SweepVisit
    <3> QED
      BY <1>1, <3>1, <3>2, NextKeyFacts DEF KeysAfter
  <2>3. Live(c, p) /\ c \in CorrId
    BY <1>2, <2>1, <2>2 DEF PendingOK
  <2>4. p.row \in Nat /\ p.responses \in Nat /\ Unanswered(p) \in SUBSET Peer
    BY <2>3, LiveFields DEF Unanswered
  <2>5. e \in Row
    BY <2>1, <2>3, <2>4, RowIsRow
  <2>6. Reports(e, c, p)
    BY <1>2, <1>3, <1>4, <2>1, <2>2, <2>5 DEF Reports, Pushes, Expired, Unanswered
  <2> HIDE DEF e
  <2>7. Remains(e, c, p)
    BY <1>3, <1>4 DEF Settle, Delete, Remains
  <2> QED
    BY <2>6, <2>7
<1> QED
  BY <1>3, <1>4

LEMMA ExactReport ==
    ASSUME IInv, Exact, NEW e, NEW k, NEW p, Reports(e, k, p), Remains(e, k, p)
    PROVE  Exact'
<1>1. AwaitsExactly /\ NamesExactly /\ PendingOK
  BY DEF Exact, IInv
<1>2. /\ Pushes(e) /\ e.of = p.row /\ e.kind \in {"res", "timeout"} /\ k \in DOMAIN pending
      /\ p = pending[k]
  BY DEF Reports
<1>3. Live(k, p)
  BY <1>1, <1>2 DEF PendingOK
<1>4. PICK n \in Nat : n = Len(rows)
  BY <1>2, RowFields DEF Pushes
<1>5. \A r : Responders(r)'
         = Responders(r) \union (IF e.kind = "res" /\ e.of = r THEN e.peers ELSE {})
  BY <1>2, <1>4, Grown
<1>6. p.awaiting \intersect Responders(p.row) = {}
  BY <1>1, <1>2 DEF AwaitsExactly
<1>7. NamesExactly'
  <2>1. e.kind = "timeout" => e.peers \intersect Responders(e.of) = {}
    BY <1>2, <1>6 DEF Reports
  <2>2. e.kind = "res" => RowsOf(e.of, "timeout") = {}
    BY <1>2, <1>3 DEF Live
  <2> QED
    BY <1>1, <1>2, <2>1, <2>2, NamesStay
<1>8. ASSUME NEW j \in DOMAIN pending', NEW q, q = pending'[j]
      PROVE  q.awaiting \intersect Responders(q.row)' = {}
  <2>1. CASE j = k
    <3>1. /\ q.row = p.row /\ q.awaiting = p.awaiting \ e.peers
          /\ Responders(p.row)' = Responders(p.row) \union e.peers
      BY <1>2, <1>5, <1>8, <2>1 DEF Remains
    <3> QED
      BY <1>6, <3>1
  <2>2. CASE j # k
    <3>1. j \in DOMAIN pending /\ pending'[j] = pending[j]
      BY <2>2 DEF Remains
    <3>2. PICK r : r = pending[j].row
      OBVIOUS
    <3>3. r # p.row
      <4>1. PICK o : o = pending[j]
        OBVIOUS
      <4>2. Live(j, o)
        BY <1>1, <3>1, <4>1 DEF PendingOK
      <4> QED
        BY <1>3, <2>2, <3>2, <4>1, <4>2 DEF Live
    <3>4. Responders(r)' = Responders(r)
      BY <1>2, <1>5, <3>3
    <3> QED
      BY <1>1, <1>8, <3>1, <3>2, <3>4, AwaitsStay
  <2> QED
    BY <2>1, <2>2
<1>9. AwaitsExactly'
  BY <1>8 DEF AwaitsExactly
<1> QED
  BY <1>7, <1>9 DEF Exact

LEMMA ExactQuiet == ASSUME Exact, rows' = rows, pending' = pending PROVE Exact'
<1>1. \A r : Responders(r)' = Responders(r)
  BY DEF RowsOf, Responders
<1>2. AwaitsExactly'
  BY <1>1 DEF Exact, AwaitsExactly
<1>3. NamesExactly'
  BY <1>1 DEF Exact, NamesExactly
<1> QED
  BY <1>2, <1>3 DEF Exact

LEMMA ExactStep == ASSUME IInv, Exact, [Next]_vars PROVE Exact'
<1>1. CASE \E c \in CorrId, peers \in SUBSET Peer : Request(c, peers)
  BY <1>1, ExactRequest
<1>2. ASSUME NEW c \in CorrId, NEW peer \in Peer, Response(c, peer) PROVE Exact'
  <2>1. UNCHANGED <<clock, fates>>
    BY <1>2 DEF Response
  <2>2. CASE Answer(c, peer)
    BY <2>1, <2>2, AnswerShape, ExactReport
  <2>3. CASE Late(c)
    BY <2>3, ExactQuiet DEF Late
  <2> QED
    BY <1>2, <2>2, <2>3 DEF Response
<1>3. CASE SweepVisit
  BY <1>3, VisitShape, ExactReport, ExactQuiet
<1>4. CASE SweepStart \/ SweepEnd \/ Tick \/ UNCHANGED vars
  BY <1>4, ExactQuiet DEF SweepStart, SweepEnd, Tick, vars
<1> QED
  BY <1>1, <1>2, <1>3, <1>4 DEF Next, Sweep

LEMMA ExactAtFirst == Init => Exact
<1> SUFFICES ASSUME Init PROVE Exact
  OBVIOUS
<1>1. 1 .. Len(rows) = {}
  <2>1. Len(<<>>) = 0 /\ 1 .. 0 = {}
    BY SMT
  <2> QED
    BY <2>1 DEF Init
<1>2. DOMAIN pending = {}
  BY DEF Init, Empty
<1> QED
  BY <1>1, <1>2 DEF Exact, AwaitsExactly, NamesExactly

LEMMA ExactAlways == Spec => [](IInv /\ Exact)
<1>1. Init => IInv /\ Exact
  BY InitHolds, ExactAtFirst
<1>2. IInv /\ Exact /\ [Next]_vars => (IInv /\ Exact)'
  BY NextStep, ExactStep
<1> QED
  BY <1>1, <1>2, PTL DEF Spec

-----------------------------------------------------------------------------
(* The maps, the rows and the counters keep their types.                   *)
THEOREM TypeCorrect == Spec => []TypeOK
<1>1. IInv => TypeOK
  BY Typed
<1> QED
  BY <1>1, Inductive, PTL

(* Both maps stay within their caps (correlator.ts:45, 49-55), for any     *)
(* caps, zero among them.                                                  *)
THEOREM Memory == Spec => []MemoryBounded
<1>1. IInv => MemoryBounded
  BY Bounded
<1> QED
  BY <1>1, Inductive, PTL

(* Every request has exactly one fate (correlator.ts:1-3): open, answered  *)
(* in full, timed out, counted as dropped, or overwritten by its caller.   *)
THEOREM Accounting == Spec => []EveryRequestAccounted
<1>1. IInv => EveryRequestAccounted
  BY Accounted
<1> QED
  BY <1>1, Inductive, PTL

(* A timeout row names exactly the peers that never answered, and is not   *)
(* early (correlator.ts:27-30, 133-141).                                   *)
THEOREM Naming == Spec => []TimeoutNamesSilent
<1>1. IInv /\ Exact => TimeoutNamesSilent
  BY DEF IInv, Exact, TimeoutsOK, NamesExactly, TimeoutNamesSilent
<1> QED
  BY <1>1, ExactAlways, PTL

(* Rows can be paired by corrId alone, although corrIds are used again,    *)
(* and nothing follows a timeout row (correlator.ts:3-5).                  *)
THEOREM Pairing == Spec => []RowsReadable
<1>1. IInv => RowsReadable
  BY DEF IInv
<1> QED
  BY <1>1, Inductive, PTL

(* A sweep that ends has passed every request that is left.                *)
LEMMA NothingOverdue ==
    ASSUME IInv, SweepEnd, NEW c \in DOMAIN pending'
    PROVE  sweeping.now - pending'[c].t <= TimeoutMs
<1>1. pending' = pending /\ KeysAfter(pending, sweeping.at) = {} /\ c \in DOMAIN pending
      /\ sweeping.on
  BY DEF SweepEnd
<1>2. Live(c, pending[c]) /\ SweepOK /\ sweeping.at \in Nat /\ sweeping.now \in Nat
  BY <1>1 DEF IInv, PendingOK, Scalars
<1>3. pending[c].pos \in Nat /\ pending[c].t \in Nat
  BY <1>2, LiveFields
<1>4. pending[c].pos <= sweeping.at
  <2>1. ~(pending[c].pos > sweeping.at)
    BY <1>1 DEF KeysAfter
  <2> QED
    BY <1>2, <1>3, <2>1, SMT
<1>5. ~(sweeping.now - pending[c].t > TimeoutMs)
  BY <1>1, <1>2, <1>4 DEF SweepOK, Expired
<1>6. sweeping.now - pending[c].t <= TimeoutMs
  BY <1>2, <1>3, <1>5, LimitAssumption, SMT
<1> QED
  BY <1>1, <1>6

LEMMA VisitGoesOn == IInv /\ SweepVisit => sweeping'.on = sweeping.on
BY DEF SweepVisit, IInv, Scalars

(* A sweep misses no overdue request, though it deletes from the map it is *)
(* walking (correlator.ts:131-147).                                        *)
THEOREM Sweeping == Spec => SweepComplete
<1> DEFINE Ends == sweeping.on /\ ~sweeping'.on =>
                      \A c \in DOMAIN pending' : sweeping.now - pending'[c].t <= TimeoutMs
<1>1. IInv /\ [Next]_vars => [Ends]_vars
  <2> SUFFICES ASSUME IInv, Next, sweeping.on, ~sweeping'.on PROVE SweepEnd
    BY NothingOverdue
  <2> QED
    BY VisitGoesOn DEF Next, Request, Response, Sweep, SweepStart, Tick, Idle
<1> QED
  BY <1>1, Inductive, PTL DEF Spec, SweepComplete

-----------------------------------------------------------------------------
(* Behind the event seam. A further request.start widens a request in      *)
(* place: its entry in `pending` and the peers of its req row.             *)
Widens(k, p, asked) ==
    /\ k \in DOMAIN pending /\ p = pending[k] /\ asked \subseteq Peer
    /\ pending' = [pending EXCEPT ![k].awaiting = @ \union asked]
    /\ rows' = [rows EXCEPT ![p.row].peers = @ \union asked]
    /\ clock' = clock /\ settled' = settled /\ sweeping' = sweeping /\ ~sweeping.on
    /\ evicted' = evicted /\ replaced' = replaced
    /\ pendingDropped' = pendingDropped /\ timedOut' = timedOut
    /\ lateAfterTimeout' = lateAfterTimeout

LEMMA ExtendShape ==
    ASSUME NEW e \in Event, e.corrId \in DOMAIN pending, Extend(e)
    PROVE  Widens(e.corrId, pending[e.corrId], Asked(e))
<1>1. Asked(e) \subseteq Peer
  BY DEF Event, Asked
<1>2. /\ pending' = [pending EXCEPT ![e.corrId].awaiting = @ \union Asked(e)]
      /\ rows' = [rows EXCEPT ![pending[e.corrId].row].peers = @ \union Asked(e)]
  BY DEF Extend
<1>3. /\ clock' = clock /\ settled' = settled /\ sweeping' = sweeping /\ ~sweeping.on
      /\ evicted' = evicted /\ replaced' = replaced
      /\ pendingDropped' = pendingDropped /\ timedOut' = timedOut
      /\ lateAfterTimeout' = lateAfterTimeout
  BY DEF Extend, Idle, fates, counters
<1> QED
  BY <1>1, <1>2, <1>3 DEF Widens

(* Nothing else of the rows changes, and nobody has answered more.         *)
LEMMA WidenedRows ==
    ASSUME IInv, NEW k, NEW p, NEW asked, Widens(k, p, asked), NEW n \in Nat, n = Len(rows)
    PROVE  /\ rows' \in Seq(Row) /\ Len(rows') = n /\ p.row \in 1 .. n /\ rows[p.row].kind = "req"
           /\ \A i \in 1 .. n :
                /\ rows'[i].kind = rows[i].kind /\ rows'[i].corrId = rows[i].corrId
                /\ rows'[i].t = rows[i].t /\ rows'[i].of = rows[i].of /\ rows'[i].n = rows[i].n
                /\ i # p.row => rows'[i].peers = rows[i].peers
           /\ rows'[p.row].peers = rows[p.row].peers \union asked
           /\ \A r, kind : RowsOf(r, kind)' = RowsOf(r, kind)
           /\ \A r : Responders(r)' = Responders(r)
           /\ \A r, kind : IsRow(r, kind)' <=> IsRow(r, kind)
<1>1. rows \in Seq(Row) /\ Live(k, p)
  BY DEF IInv, Scalars, PendingOK, Widens
<1>2. p.row \in 1 .. n /\ rows[p.row].kind = "req"
  BY <1>1, LiveFields
<1> DEFINE o == rows[p.row]
           w == [rows[p.row] EXCEPT !.peers = @ \union asked]
<1>3. o \in Row /\ o.peers \in SUBSET Peer /\ asked \in SUBSET Peer
  BY <1>1, <1>2, RowFields DEF Widens
<1>4. /\ w \in Row /\ w.kind = o.kind /\ w.corrId = o.corrId /\ w.t = o.t /\ w.of = o.of
      /\ w.n = o.n /\ w.peers = o.peers \union asked
  BY <1>3 DEF Row
<1> HIDE DEF w
<1>5. rows' = [rows EXCEPT ![p.row] = w]
  BY DEF Widens, w
<1>6. /\ rows' \in Seq(Row) /\ Len(rows') = n /\ rows'[p.row] = w
      /\ \A i \in 1 .. n : i # p.row => rows'[i] = rows[i]
  <2> HIDE DEF Row
  <2> QED
    BY <1>1, <1>2, <1>4, <1>5, ExceptSeq
<1>7. \A i \in 1 .. n :
        /\ rows'[i].kind = rows[i].kind /\ rows'[i].corrId = rows[i].corrId
        /\ rows'[i].t = rows[i].t /\ rows'[i].of = rows[i].of /\ rows'[i].n = rows[i].n
        /\ i # p.row => rows'[i].peers = rows[i].peers
  BY <1>2, <1>4, <1>6
<1>8. \A r, kind : RowsOf(r, kind)' = RowsOf(r, kind)
  BY <1>6, <1>7 DEF RowsOf
<1>9. \A r : Responders(r)' = Responders(r)
  <2> SUFFICES ASSUME NEW r PROVE Responders(r)' = Responders(r)
    OBVIOUS
  <2>1. \A i \in RowsOf(r, "res") : rows'[i].peers = rows[i].peers
    BY <1>2, <1>7 DEF RowsOf
  <2>2. RowsOf(r, "res")' = RowsOf(r, "res")
    BY <1>8
  <2> QED
    BY <2>1, <2>2 DEF Responders
<1>10. \A r, kind : IsRow(r, kind)' <=> IsRow(r, kind)
  BY <1>6, <1>7 DEF IsRow
<1> QED
  BY <1>2, <1>4, <1>6, <1>7, <1>8, <1>9, <1>10

LEMMA WidenedPending ==
    ASSUME IInv, NEW k, NEW p, NEW asked, Widens(k, p, asked)
    PROVE  /\ DOMAIN pending' = DOMAIN pending
           /\ pending' = [j \in DOMAIN pending' |-> pending'[j]]
           /\ \A j \in DOMAIN pending \ {k} : pending'[j] = pending[j]
           /\ pending'[k] \in PendingRequest
           /\ pending'[k].pos = p.pos /\ pending'[k].row = p.row /\ pending'[k].t = p.t
           /\ pending'[k].responses = p.responses
           /\ pending'[k].awaiting = p.awaiting \union asked
<1>1. Live(k, p) /\ k \in DOMAIN pending /\ p = pending[k] /\ asked \subseteq Peer
      /\ pending' = [pending EXCEPT ![k].awaiting = @ \union asked]
  BY DEF IInv, PendingOK, Widens
<1>2. p \in PendingRequest
  BY <1>1 DEF Live
<1> DEFINE w == [pending[k] EXCEPT !.awaiting = @ \union asked]
<1>3. /\ w \in PendingRequest /\ w.pos = p.pos /\ w.row = p.row /\ w.t = p.t
      /\ w.responses = p.responses /\ w.awaiting = p.awaiting \union asked
  BY <1>1, <1>2 DEF PendingRequest
<1> HIDE DEF w
<1>4. pending' = [pending EXCEPT ![k] = w]
  BY <1>1 DEF w
<1>5. /\ DOMAIN pending' = DOMAIN pending
      /\ pending' = [j \in DOMAIN pending' |-> pending'[j]]
      /\ \A j \in DOMAIN pending \ {k} : pending'[j] = pending[j]
      /\ pending'[k] = w
  BY <1>1, <1>4, Zenon
<1> QED
  BY <1>3, <1>5

LEMMA WidenedLive ==
    ASSUME IInv, NEW k, NEW p, NEW asked, Widens(k, p, asked),
           NEW j, NEW o, Live(j, o), NEW q \in PendingRequest,
           q.pos = o.pos, q.row = o.row, q.t = o.t, q.responses = o.responses,
           q.awaiting = o.awaiting \union (IF o.row = p.row THEN asked ELSE {})
    PROVE  Live(j, q)'
<1>1. PICK n \in Nat : n = Len(rows)
  BY RowFields DEF IInv, Scalars
<1>2. /\ Len(rows') = n
      /\ \A i \in 1 .. n :
           /\ rows'[i].kind = rows[i].kind /\ rows'[i].corrId = rows[i].corrId
           /\ rows'[i].t = rows[i].t
           /\ i # p.row => rows'[i].peers = rows[i].peers
      /\ rows'[p.row].peers = rows[p.row].peers \union asked
      /\ RowsOf(o.row, "timeout")' = RowsOf(o.row, "timeout")
      /\ RowsOf(o.row, "res")' = RowsOf(o.row, "res")
      /\ Responders(o.row)' = Responders(o.row)
      /\ IsRow(o.row, "req")'
  BY <1>1, WidenedRows DEF Live
<1>3. o.row \in 1 .. n /\ clock' = clock /\ evicted' = evicted /\ replaced' = replaced
  BY <1>1, LiveFields DEF Widens
<1>4. /\ rows'[o.row].peers \ Responders(o.row)' \subseteq q.awaiting
      /\ q.awaiting \subseteq rows'[o.row].peers
  BY <1>2, <1>3 DEF Live
<1>5. \A i \in o.row + 1 .. n : rows'[i].corrId = j => rows'[i].kind # "req"
  <2>1. \A i \in o.row + 1 .. n : i \in 1 .. n
    BY <1>3, SMT
  <2> QED
    BY <1>1, <1>2, <2>1 DEF Live
<1>6. q.pos # 0 /\ q.pos <= n /\ q.t <= clock'
  BY <1>1, <1>3 DEF Live
<1>7. rows'[o.row].corrId = j /\ rows'[o.row].t = q.t
  BY <1>2, <1>3 DEF Live
<1>8. /\ q.row \notin (evicted \union replaced)'
      /\ RowsOf(o.row, "timeout")' = {} /\ q.responses = Cardinality(RowsOf(o.row, "res")')
  BY <1>2, <1>3 DEF Live
<1> QED
  BY <1>2, <1>4, <1>5, <1>6, <1>7, <1>8 DEF Live

LEMMA ExtendStep ==
    ASSUME IInv, NEW k, NEW p, NEW asked, Widens(k, p, asked)
    PROVE  IInv'
<1>1. /\ Scalars /\ Kept(settled) /\ PendingOK /\ FatesOK /\ SweepOK /\ RowsReadable /\ TimeoutsOK
      /\ Fated /\ Counted
  BY DEF IInv
<1>2. PICK n \in Nat : n = Len(rows)
  BY <1>1, RowFields DEF Scalars
<1>3. /\ rows' \in Seq(Row) /\ Len(rows') = n
      /\ \A i \in 1 .. n :
           /\ rows'[i].kind = rows[i].kind /\ rows'[i].corrId = rows[i].corrId
           /\ rows'[i].t = rows[i].t /\ rows'[i].of = rows[i].of /\ rows'[i].n = rows[i].n
           /\ i # p.row => rows'[i].peers = rows[i].peers
      /\ \A r, kind : RowsOf(r, kind)' = RowsOf(r, kind)
      /\ \A r : Responders(r)' = Responders(r)
      /\ \A r, kind : IsRow(r, kind)' <=> IsRow(r, kind)
  BY <1>2, WidenedRows
<1>4. /\ k \in DOMAIN pending /\ p = pending[k]
      /\ clock' = clock /\ settled' = settled /\ sweeping' = sweeping /\ ~sweeping.on
      /\ evicted' = evicted /\ replaced' = replaced
      /\ pendingDropped' = pendingDropped /\ timedOut' = timedOut
      /\ lateAfterTimeout' = lateAfterTimeout
  BY DEF Widens
<1>5. Live(k, p)
  BY <1>1, <1>4 DEF PendingOK
<1>6. Scalars' /\ Kept(settled)' /\ SweepOK'
  BY <1>1, <1>3, <1>4 DEF Scalars, Kept, SweepOK
<1>7. FatesOK'
  BY <1>1, <1>3, <1>4 DEF FatesOK
<1>8. RowsReadable'
  <2> SUFFICES ASSUME NEW j \in 1 .. n
               PROVE  \E r \in 1 .. j :
                        /\ rows'[j].of = r /\ rows'[r].kind = "req"
                        /\ rows'[r].corrId = rows'[j].corrId
                        /\ \A i \in r + 1 .. j : rows'[i].corrId = rows'[j].corrId => rows'[i].kind # "req"
                        /\ rows'[j].kind = "timeout" => \A i \in j + 1 .. n : rows'[i].of # r
    BY <1>3 DEF RowsReadable
  <2>1. PICK r \in 1 .. j :
          /\ rows[j].of = r /\ rows[r].kind = "req" /\ rows[r].corrId = rows[j].corrId
          /\ \A i \in r + 1 .. j : rows[i].corrId = rows[j].corrId => rows[i].kind # "req"
          /\ rows[j].kind = "timeout" => \A i \in j + 1 .. n : rows[i].of # r
    BY <1>1, <1>2 DEF RowsReadable
  <2>2. /\ r \in 1 .. n /\ \A i \in r + 1 .. j : i \in 1 .. n
        /\ \A i \in j + 1 .. n : i \in 1 .. n
    BY SMT
  <2> QED
    BY <1>3, <2>1, <2>2
<1>9. TimeoutsOK'
  <2> SUFFICES ASSUME NEW j \in 1 .. n, NEW r, r = rows'[j].of, rows'[j].kind = "timeout"
               PROVE  /\ rows'[r].peers \ Responders(r)' \subseteq rows'[j].peers
                      /\ rows'[j].peers \subseteq rows'[r].peers
                      /\ rows'[j].n = Cardinality(RowsOf(r, "res")')
                      /\ rows'[j].t - rows'[r].t > TimeoutMs
    BY <1>3 DEF TimeoutsOK
  <2>1. r = rows[j].of /\ rows[j].kind = "timeout" /\ rows'[j].n = rows[j].n /\ rows'[j].t = rows[j].t
    BY <1>3
  <2>2. r \in 1 .. n /\ rows[r].kind = "req"
    <3>1. r \in 1 .. j /\ rows[r].kind = "req"
      BY <1>1, <1>2, <2>1 DEF RowsReadable
    <3> QED
      BY <3>1, Between
  <2>3. r # p.row
    <3>1. j \in RowsOf(r, "timeout")
      BY <1>2, <2>1 DEF RowsOf
    <3> QED
      BY <1>5, <3>1 DEF Live
  <2>4. j # p.row
    BY <1>5, <2>1, LiveFields
  <2>5. /\ rows'[r].peers = rows[r].peers /\ rows'[r].t = rows[r].t /\ rows'[j].peers = rows[j].peers
        /\ Responders(r)' = Responders(r) /\ RowsOf(r, "res")' = RowsOf(r, "res")
    BY <1>3, <2>2, <2>3, <2>4
  <2> QED
    BY <1>1, <1>2, <2>1, <2>5 DEF TimeoutsOK
<1>10. PendingOK'
  <2>1. /\ DOMAIN pending' = DOMAIN pending
        /\ pending' = [j \in DOMAIN pending' |-> pending'[j]]
        /\ \A j \in DOMAIN pending \ {k} : pending'[j] = pending[j]
        /\ pending'[k] \in PendingRequest
        /\ pending'[k].pos = p.pos /\ pending'[k].row = p.row /\ pending'[k].t = p.t
        /\ pending'[k].responses = p.responses
        /\ pending'[k].awaiting = p.awaiting \union asked
    BY WidenedPending
  <2>2. ASSUME NEW j \in DOMAIN pending' PROVE Live(j, pending[j])'
    <3>1. PICK q : q = pending'[j]
      OBVIOUS
    <3>2. PICK o : o = pending[j]
      OBVIOUS
    <3>3. Live(j, o)
      BY <1>1, <2>1, <3>2 DEF PendingOK
    <3>4. CASE j = k
      <4>1. Live(k, q)'
        BY <1>4, <1>5, <2>1, <3>1, <3>4, WidenedLive
      <4> QED
        BY <3>1, <3>4, <4>1
    <3>5. CASE j # k
      <4>1. o.row # p.row
        BY <1>5, <3>3, <3>5 DEF Live
      <4>2. q = o /\ q \in PendingRequest
        BY <2>1, <3>1, <3>2, <3>3, <3>5 DEF Live
      <4>3. q.awaiting = o.awaiting \union {}
        BY <4>2
      <4>4. Live(j, q)'
        BY <3>3, <4>1, <4>2, <4>3, WidenedLive
      <4> QED
        BY <3>1, <4>4
    <3> QED
      BY <3>4, <3>5
  <2>3. \A j \in DOMAIN pending : pending'[j].pos = pending[j].pos
    BY <1>4, <2>1
  <2> QED
    BY <1>1, <2>1, <2>2, <2>3 DEF PendingOK
<1>11. Fated'
  <2>1. ASSUME NEW r \in 1 .. n, rows'[r].kind = "req" PROVE Open(r)' \/ Gone(r)'
    <3>1. rows[r].kind = "req"
      BY <1>3, <2>1
    <3>2. CASE Open(r)
      <4>1. PICK j \in DOMAIN pending : pending[j].row = r
        BY <3>2 DEF Open
      <4>2. j \in DOMAIN pending' /\ pending'[j].row = r
        BY <1>4, <4>1, WidenedPending
      <4> QED
        BY <4>2 DEF Open
    <3>3. CASE Gone(r) /\ ~Open(r)
      <4>1. r # p.row
        BY <1>4, <3>3 DEF Open
      <4>2. rows'[r].peers = rows[r].peers
        BY <1>3, <4>1
      <4> QED
        BY <1>3, <1>4, <3>3, <4>2 DEF Gone, Answered
    <3> QED
      BY <1>1, <1>2, <3>1, <3>2, <3>3 DEF Fated
  <2> QED
    BY <1>1, <1>3, <1>4, <2>1 DEF Fated
<1>12. Counted'
  <2>1. Timeouts' = Timeouts
    BY <1>2, <1>3 DEF Timeouts
  <2> QED
    BY <1>1, <1>4, <2>1 DEF Counted
<1> QED
  BY <1>6, <1>7, <1>8, <1>9, <1>10, <1>11, <1>12 DEF IInv

(* The requests that stay keep their places and times.                     *)
LEMMA OrderStays ==
    ASSUME PendingInAgeOrder, DOMAIN pending' \subseteq DOMAIN pending,
           \A j \in DOMAIN pending' :
              /\ pending'[j].pos = pending[j].pos /\ pending'[j].row = pending[j].row
              /\ pending'[j].t = pending[j].t
    PROVE  PendingInAgeOrder'
BY DEF PendingInAgeOrder

LEMMA OrderRemains ==
    ASSUME PendingInAgeOrder, NEW e, NEW k, NEW p, Reports(e, k, p), Remains(e, k, p)
    PROVE  PendingInAgeOrder'
<1>1. \A j \in DOMAIN pending' :
        /\ pending'[j].pos = pending[j].pos /\ pending'[j].row = pending[j].row
        /\ pending'[j].t = pending[j].t
  BY DEF Reports, Remains
<1>2. DOMAIN pending' \subseteq DOMAIN pending
  BY DEF Remains
<1> QED
  BY <1>1, <1>2, OrderStays

(* A request that is new goes last, and none is older in `pending` by its  *)
(* place and younger by its time.                                          *)
LEMMA SeamRequest ==
    ASSUME IInv, Seam, NEW c \in CorrId, NEW peers \in SUBSET Peer, Request(c, peers),
           c \notin DOMAIN pending
    PROVE  Seam'
<1>1. PendingOK /\ PendingInAgeOrder /\ replaced = {} /\ clock \in Nat
  BY DEF IInv, Seam, Scalars
<1>2. PICK n \in Nat : n = Len(rows)
  BY RowFields DEF IInv, Scalars
<1>3. PICK e, q : Asks(e, q, c, n) /\ Keeps(q, c) /\ GivesUp(c, n)
  BY <1>2, RequestShape
<1>4. replaced' = {}
  BY <1>1 DEF Request
<1>5. q.pos = n + 1 /\ q.row = n + 1 /\ q.t = clock
  BY <1>3 DEF Asks
<1>6. \A j \in DOMAIN pending' :
        \/ j = c /\ pending'[j] = q
        \/ j \in DOMAIN pending /\ pending'[j] = pending[j]
  BY <1>3 DEF Keeps
<1>7. \A j \in DOMAIN pending :
        /\ pending[j].pos \in Nat /\ pending[j].pos <= n
        /\ pending[j].t \in Nat /\ pending[j].t <= clock
  <2> SUFFICES ASSUME NEW j \in DOMAIN pending
               PROVE  /\ pending[j].pos \in Nat /\ pending[j].pos <= n
                      /\ pending[j].t \in Nat /\ pending[j].t <= clock
    OBVIOUS
  <2>1. Live(j, pending[j])
    BY <1>1 DEF PendingOK
  <2> QED
    BY <1>2, <2>1, LiveFields DEF Live
<1>8. ASSUME NEW j \in DOMAIN pending', NEW k \in DOMAIN pending'
      PROVE  /\ pending'[j].pos = pending'[j].row
             /\ pending'[j].pos < pending'[k].pos => pending'[j].t <= pending'[k].t
  <2>1. pending'[j].pos = pending'[j].row
    BY <1>1, <1>5, <1>6 DEF PendingInAgeOrder
  <2>2. CASE pending'[j] = q
    <3>1. ~(pending'[j].pos < pending'[k].pos)
      BY <1>5, <1>6, <1>7, <2>2, SMT
    <3> QED
      BY <2>1, <3>1
  <2>3. CASE pending'[k] = q /\ pending'[j] # q
    <3>1. pending'[j].t <= pending'[k].t
      BY <1>5, <1>6, <1>7, <2>3
    <3> QED
      BY <2>1, <3>1
  <2>4. CASE pending'[k] # q /\ pending'[j] # q
    BY <1>1, <1>6, <2>1, <2>4 DEF PendingInAgeOrder
  <2> QED
    BY <2>2, <2>3, <2>4
<1>9. PendingInAgeOrder'
  BY <1>8 DEF PendingInAgeOrder
<1> QED
  BY <1>4, <1>9 DEF Seam

LEMMA SinkStep == ASSUME IInv, Seam, [SinkNext]_vars PROVE IInv' /\ Seam'
<1>1. PendingInAgeOrder /\ replaced = {}
  BY DEF Seam
<1>2. ASSUME NEW e \in Event, RequestStart(e) PROVE IInv' /\ Seam'
  <2>1. e.corrId \in CorrId /\ Asked(e) \in SUBSET Peer
    BY DEF Event, Asked
  <2>2. CASE e.corrId \in DOMAIN pending
    <3>1. PICK k, p, asked : k = e.corrId /\ p = pending[k] /\ asked = Asked(e)
      OBVIOUS
    <3>2. Widens(k, p, asked)
      BY <1>2, <2>2, <3>1, ExtendShape DEF RequestStart
    <3>3. IInv'
      BY <3>2, ExtendStep
    <3>4. /\ DOMAIN pending' = DOMAIN pending
          /\ \A j \in DOMAIN pending \ {k} : pending'[j] = pending[j]
          /\ pending'[k].pos = p.pos /\ pending'[k].row = p.row /\ pending'[k].t = p.t
      BY <3>2, WidenedPending
    <3>5. PendingInAgeOrder'
      BY <1>1, <3>1, <3>4, OrderStays
    <3>6. replaced' = {}
      BY <1>1, <3>2 DEF Widens
    <3> QED
      BY <3>3, <3>5, <3>6 DEF Seam
  <2>3. CASE e.corrId \notin DOMAIN pending
    <3>1. Request(e.corrId, Asked(e))
      BY <1>2, <2>3 DEF RequestStart
    <3> QED
      BY <2>1, <2>3, <3>1, RequestStep, SeamRequest
  <2> QED
    BY <2>2, <2>3
<1>3. ASSUME NEW c \in CorrId, NEW peer \in Peer, Response(c, peer) PROVE IInv' /\ Seam'
  <2>1. /\ Idle /\ UNCHANGED <<clock, pendingDropped, timedOut, sweeping, fates>>
        /\ UNCHANGED <<clock, fates>> /\ replaced' = {}
    BY <1>1, <1>3 DEF Response, fates
  <2>2. CASE Answer(c, peer)
    <3>1. IInv'
      BY <2>1, <2>2, AnswerStep
    <3>2. PendingInAgeOrder'
      BY <1>1, <2>1, <2>2, AnswerShape, OrderRemains
    <3> QED
      BY <2>1, <3>1, <3>2 DEF Seam
  <2>3. CASE Late(c)
    <3>1. IInv'
      BY <2>1, <2>3, LateStep
    <3>2. PendingInAgeOrder'
      BY <1>1, <2>3, OrderStays DEF Late
    <3> QED
      BY <2>1, <3>1, <3>2 DEF Seam
  <2> QED
    BY <1>3, <2>2, <2>3 DEF Response
<1>4. ASSUME NEW e \in Event, PeerAnswered(e) PROVE IInv' /\ Seam'
  <2>1. e.corrId \in CorrId /\ e.peerId \in Peer /\ Response(e.corrId, e.peerId)
    BY <1>4 DEF PeerAnswered, Event
  <2> QED
    BY <1>3, <2>1
<1>5. CASE SweepVisit
  <2>1. IInv'
    BY <1>5, SweepVisitStep
  <2>2. PendingInAgeOrder'
    <3>1. CASE pending' = pending
      BY <1>1, <3>1, OrderStays
    <3>2. CASE pending' # pending
      BY <1>1, <1>5, <3>2, VisitShape, OrderRemains
    <3> QED
      BY <3>1, <3>2
  <2>3. replaced' = {}
    BY <1>1, <1>5 DEF SweepVisit, fates
  <2> QED
    BY <2>1, <2>2, <2>3 DEF Seam
<1>6. CASE SweepStart \/ SweepEnd \/ Tick \/ UNCHANGED vars
  <2>1. pending' = pending /\ replaced' = {}
    BY <1>1, <1>6 DEF SweepStart, SweepEnd, Tick, vars, fates
  <2>2. IInv'
    BY <1>6, SweepStartStep, SweepEndStep, TickStep, StutterStep
  <2>3. PendingInAgeOrder'
    BY <1>1, <2>1, OrderStays
  <2> QED
    BY <2>1, <2>2, <2>3 DEF Seam
<1> QED
  BY <1>2, <1>4, <1>5, <1>6 DEF SinkNext, Emit, Sweep

LEMMA SinkInductive == SinkSpec => [](IInv /\ Seam)
<1>1. Init => IInv /\ Seam
  <2>1. Init => Seam
    BY DEF Init, Empty, Seam, PendingInAgeOrder
  <2> QED
    BY <2>1, InitHolds
<1>2. IInv /\ Seam /\ [SinkNext]_vars => (IInv /\ Seam)'
  BY SinkStep
<1> QED
  BY <1>1, <1>2, PTL DEF SinkSpec

(* Through the seam every request has exactly one fate, and none of them   *)
(* is to be overwritten by a second announcement (sink.ts:64-69).          *)
THEOREM SeamAccounting == SinkSpec => []NothingOverwritten
<1>1. IInv /\ Seam => NothingOverwritten
  BY Accounted DEF Seam, NothingOverwritten
<1> QED
  BY <1>1, SinkInductive, PTL

(* `pending` is in order of age, so that the in-flight cap gives up the    *)
(* request that has waited longest (correlator.ts:103-107).                *)
THEOREM SeamOrder == SinkSpec => []PendingInAgeOrder
<1>1. IInv /\ Seam => PendingInAgeOrder
  BY DEF Seam
<1> QED
  BY <1>1, SinkInductive, PTL

(* A peer that was announced and never answered is named by the timeout    *)
(* row, and no stranger is, though targets are announced one by one while  *)
(* others already answer (sink.ts:32-36).                                  *)
THEOREM SeamNaming == SinkSpec => []SilenceIsNamed
<1>1. IInv /\ Seam => SilenceIsNamed
  BY DEF IInv, TimeoutsOK, SilenceIsNamed
<1> QED
  BY <1>1, SinkInductive, PTL

(* What holds of the collector however it is called holds behind the seam: *)
(* the types, the caps of both maps, and rows that pair by corrId alone.   *)
THEOREM SeamKeeps == SinkSpec => [](TypeOK /\ MemoryBounded /\ RowsReadable)
<1>1. IInv /\ Seam => TypeOK /\ MemoryBounded /\ RowsReadable
  BY Typed, Bounded DEF IInv
<1> QED
  BY <1>1, SinkInductive, PTL

(* Nor does a sweep behind the seam miss an overdue request.               *)
THEOREM SeamSweeping == SinkSpec => SweepComplete
<1> DEFINE Ends == sweeping.on /\ ~sweeping'.on =>
                      \A c \in DOMAIN pending' : sweeping.now - pending'[c].t <= TimeoutMs
<1>1. IInv /\ [SinkNext]_vars => [Ends]_vars
  <2> SUFFICES ASSUME IInv, SinkNext, sweeping.on, ~sweeping'.on PROVE SweepEnd
    BY NothingOverdue
  <2>1. \A e : ~Emit(e)
    BY DEF Emit, RequestStart, PeerAnswered, Extend, Request, Response, Idle
  <2> QED
    BY <2>1, VisitGoesOn DEF SinkNext, Sweep, SweepStart, Tick, Idle
<1> QED
  BY <1>1, SinkInductive, PTL DEF SinkSpec, SweepComplete
=============================================================================

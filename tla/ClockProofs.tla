----------------------------- MODULE ClockProofs ------------------------------
(***************************************************************************)
(* Proofs about the two clocks of clock/, HybridClock and OffsetEstimator. *)
(*                                                                         *)
(* HybridClock, for any number of nodes, any wall clocks and any loss,     *)
(* duplication and reordering of messages: an event's stamp is above those *)
(* of its causal past and takes its physical part from there.              *)
(*                                                                         *)
(* OffsetEstimator, for any delays, window, thresholds and steps of the    *)
(* clocks: a sample is wrong by at most half its round-trip time, so the   *)
(* estimate that is one sample is, too. A median lies between the least    *)
(* and the greatest offset of its window, so every estimate is within      *)
(* twice the spread of each sample it was made of.                         *)
(***************************************************************************)
EXTENDS HybridClock, OffsetEstimator, FiniteSetTheorems, SequenceTheorems, NaturalsInduction,
        WellFoundedInduction, TLAPS


(* An event is not later than a clock that reads lv, cv.                   *)
UpTo(x, lv, cv) == x.l < lv \/ (x.l = lv /\ x.c <= cv)

(* An event's past was logged before it.                                   *)
PastEarlier == \A j \in 1 .. Len(log) : log[j].past \subseteq 1 .. j - 1

(* No event is later than its node's clock ...                             *)
NodeAhead == \A i \in 1 .. Len(log) : UpTo(log[i], l[log[i].id], c[log[i].id])

(* ... whose physical component one of them had, unless it is untouched.   *)
NodeObserved == \A n \in Node : l[n] = 0 \/ \E i \in EventsAt(n) : log[i].l = l[n]

HlcInv ==
    /\ HlcTypeOK
    /\ PastEarlier
    /\ NodeAhead
    /\ NodeObserved
    /\ CausalOrder
    /\ StampsUnique
    /\ PhysicalIsObserved

-----------------------------------------------------------------------------
LEMMA EventFields ==
    ASSUME HlcTypeOK
    PROVE  /\ \A i \in 1 .. Len(log) : log[i] \in HlcEvent
           /\ \A e \in HlcEvent :
                /\ e.l \in Nat /\ e.c \in Nat /\ e.id \in Node /\ e.id \in Nat
                /\ e.now \in WallClock /\ e.now \in Nat
                /\ e.past \subseteq 1 .. MaxEvents
<1>1. \A i \in 1 .. Len(log) : log[i] \in HlcEvent
  <2> HIDE DEF HlcEvent
  <2> QED BY ElementOfSeq DEF HlcTypeOK
<1>2. \A e \in HlcEvent :
        /\ e.l \in Nat /\ e.c \in Nat /\ e.id \in Node
        /\ e.now \in WallClock /\ e.past \subseteq 1 .. MaxEvents
  BY DEF HlcEvent
<1> QED
  BY <1>1, <1>2, HlcAssumption

LEMMA BeforeTransitive ==
    ASSUME NEW x, NEW y, NEW z,
           x.l \in Nat, y.l \in Nat, z.l \in Nat,
           x.c \in Nat, y.c \in Nat, z.c \in Nat,
           x.id \in Nat, y.id \in Nat, z.id \in Nat,
           Before(x, y), Before(y, z)
    PROVE  Before(x, z)
BY SMT DEF Before

(* What a node knows of is earlier than any later reading of its clock,    *)
(* and its clock owes its physical component to a wall clock among it.     *)
LEMMA KnownEvents ==
    ASSUME HlcInv, NEW n \in Node, NEW i \in Known(n)
    PROVE  /\ i \in 1 .. Len(log)
           /\ log[i].now <= l[n]
           /\ \A e : /\ e.l \in Nat /\ e.c \in Nat /\ e.id \in Nat
                     /\ l[n] < e.l \/ (l[n] = e.l /\ c[n] < e.c)
                     => Before(log[i], e)
<1>1. HlcTypeOK /\ PastEarlier /\ NodeAhead /\ CausalOrder /\ PhysicalIsObserved
  BY DEF HlcInv
<1>2. \A k \in 1 .. Len(log) :
         /\ log[k].l \in Nat /\ log[k].c \in Nat /\ log[k].id \in Nat
         /\ log[k].now \in Nat /\ log[k].id \in Node
  BY <1>1, EventFields
<1>3. l[n] \in Nat /\ c[n] \in Nat /\ Len(log) \in Nat
  BY <1>1, LenProperties DEF HlcTypeOK
<1>4. PICK k \in EventsAt(n) : i = k \/ i \in log[k].past
  BY DEF Known
<1>5. k \in 1 .. Len(log) /\ UpTo(log[k], l[n], c[n])
  BY <1>1, <1>4 DEF EventsAt, NodeAhead
<1>6. i \in 1 .. Len(log)
  <2>1. log[k].past \subseteq 1 .. k - 1
    BY <1>1, <1>5 DEF PastEarlier
  <2> QED
    BY <1>3, <1>4, <1>5, <2>1, SMT
<1>7. log[i].now <= log[k].l
  BY <1>1, <1>4, <1>5 DEF PhysicalIsObserved
<1>8. log[i].now <= l[n]
  BY <1>2, <1>3, <1>5, <1>6, <1>7, SMT DEF UpTo
<1>9. ASSUME NEW e, e.l \in Nat, e.c \in Nat, e.id \in Nat,
             l[n] < e.l \/ (l[n] = e.l /\ c[n] < e.c)
      PROVE  Before(log[i], e)
  <2>1. Before(log[k], e)
    BY <1>2, <1>3, <1>5, <1>9, SMT DEF UpTo, Before
  <2>2. CASE i = k
    BY <2>1, <2>2
  <2>3. CASE i \in log[k].past
    <3>1. Before(log[i], log[k])
      BY <1>1, <1>5, <2>3 DEF CausalOrder
    <3> QED
      BY <1>2, <1>5, <1>6, <1>9, <2>1, <3>1, BeforeTransitive
  <2> QED
    BY <1>4, <2>2, <2>3
<1> QED
  BY <1>6, <1>8, <1>9

LEMMA KnownWallClock ==
    ASSUME HlcInv, NEW n \in Node, l[n] # 0
    PROVE  \E i \in Known(n) : log[i].now = l[n]
<1>1. PICK i \in EventsAt(n) : log[i].l = l[n]
  BY DEF HlcInv, NodeObserved
<1>2. i \in 1 .. Len(log)
  BY <1>1 DEF EventsAt
<1>3. \E k \in log[i].past \union {i} : log[k].now = log[i].l
  BY <1>1, <1>2 DEF HlcInv, PhysicalIsObserved
<1> QED
  BY <1>1, <1>3 DEF Known

-----------------------------------------------------------------------------
(* An event whose stamp is later than its node's clock and its past, and   *)
(* whose physical component is the latest wall clock read by then, keeps   *)
(* the invariant.                                                          *)
LEMMA StampStep ==
    ASSUME HlcInv, NEW n \in Node, NEW kind \in {"send", "update", "recv"},
           NEW lNew \in Nat, NEW cNew \in Nat, NEW now \in WallClock,
           NEW past \in SUBSET (1 .. Len(log)),
           Len(log) < MaxEvents,
           Stamp(n, kind, lNew, cNew, now, past),
           Known(n) \subseteq past,
           l[n] < lNew \/ (l[n] = lNew /\ c[n] < cNew),
           \A i \in past : Before(log[i], [l |-> lNew, c |-> cNew, id |-> n]),
           \A i \in past : log[i].now <= lNew,
           now <= lNew,
           lNew = 0 \/ now = lNew \/ \E i \in past : log[i].now = lNew
    PROVE  HlcInv'
<1> DEFINE e == [kind |-> kind, l |-> lNew, c |-> cNew, id |-> n, now |-> now, past |-> past]
           N == Len(log)
<1>1. /\ HlcTypeOK /\ PastEarlier /\ NodeAhead /\ NodeObserved
      /\ CausalOrder /\ StampsUnique /\ PhysicalIsObserved
  BY DEF HlcInv
<1>2. N \in Nat /\ N < MaxEvents /\ MaxEvents \in Nat
  BY <1>1, LenProperties, HlcAssumption DEF HlcTypeOK
<1>3. e \in HlcEvent
  <2>1. past \in SUBSET (1 .. MaxEvents)
    BY <1>2, SMT
  <2> QED
    BY <2>1 DEF HlcEvent
<1>4. /\ e.l = lNew /\ e.c = cNew /\ e.id = n /\ e.now = now /\ e.past = past
      /\ n \in Nat /\ now \in Nat
  BY HlcAssumption
<1>5. /\ log' = Append(log, e)
      /\ l' = [l EXCEPT ![n] = lNew]
      /\ c' = [c EXCEPT ![n] = cNew]
  BY DEF Stamp
<1> HIDE DEF e
<1>6. /\ log' \in Seq(HlcEvent) /\ Len(log') = N + 1
      /\ \A i \in 1 .. N : log'[i] = log[i]
      /\ log'[N + 1] = e
  <2> HIDE DEF HlcEvent
  <2> QED
    BY <1>1, <1>3, <1>5, AppendProperties DEF HlcTypeOK
<1>7. /\ l' \in [Node -> Nat] /\ c' \in [Node -> Nat]
      /\ l'[n] = lNew /\ c'[n] = cNew
      /\ \A m \in Node : m # n => l'[m] = l[m] /\ c'[m] = c[m]
  BY <1>1, <1>5 DEF HlcTypeOK
<1>8. \A i \in 1 .. N :
        /\ log[i].l \in Nat /\ log[i].c \in Nat /\ log[i].id \in Node /\ log[i].id \in Nat
        /\ log[i].now \in Nat
  BY <1>1, EventFields
<1>9. /\ l \in [Node -> Nat] /\ c \in [Node -> Nat]
  BY <1>1 DEF HlcTypeOK
<1> HIDE DEF N
<1>10. \A i \in 1 .. N + 1 : i \in 1 .. N \/ i = N + 1
  BY <1>2, SMT
<1>11. \A i \in past : i \in 1 .. N
  BY DEF N
<1>12. 1 .. N \subseteq 1 .. N + 1 /\ N + 1 \in 1 .. N + 1 /\ N + 1 \notin 1 .. N
  BY <1>2, SMT
<1>13. HlcTypeOK'
  BY <1>6, <1>7 DEF HlcTypeOK
<1>14. PastEarlier'
  <2>1. ASSUME NEW j \in 1 .. N + 1 PROVE log'[j].past \subseteq 1 .. j - 1
    <3>1. CASE j \in 1 .. N
      BY <1>1, <1>6, <3>1 DEF PastEarlier, N
    <3>2. CASE j = N + 1
      <4>1. j - 1 = N
        BY <1>2, <3>2, SMT
      <4> QED
        BY <1>4, <1>6, <1>11, <3>2, <4>1
    <3> QED
      BY <1>10, <3>1, <3>2
  <2> QED
    BY <1>6, <2>1 DEF PastEarlier
<1>15. NodeAhead'
  <2>1. ASSUME NEW i \in 1 .. N + 1 PROVE UpTo(log'[i], l'[log'[i].id], c'[log'[i].id])
    <3>1. CASE i \in 1 .. N
      <4>1. UpTo(log[i], l[log[i].id], c[log[i].id])
        BY <1>1, <3>1 DEF NodeAhead, N
      <4>2. CASE log[i].id = n
        <5>1. l[n] \in Nat /\ c[n] \in Nat
          BY <1>9
        <5>2. UpTo(log[i], lNew, cNew)
          BY <1>8, <3>1, <4>1, <4>2, <5>1, SMT DEF UpTo
        <5> QED
          BY <1>6, <1>7, <3>1, <4>2, <5>2
      <4>3. CASE log[i].id # n
        BY <1>6, <1>7, <1>8, <3>1, <4>1, <4>3
      <4> QED
        BY <4>2, <4>3
    <3>2. CASE i = N + 1
      BY <1>4, <1>6, <1>7, <3>2, SMT DEF UpTo
    <3> QED
      BY <1>10, <3>1, <3>2
  <2> QED
    BY <1>6, <2>1 DEF NodeAhead
<1>16. NodeObserved'
  <2>1. ASSUME NEW m \in Node, l'[m] # 0
        PROVE  \E i \in (EventsAt(m))' : log'[i].l = l'[m]
    <3>1. CASE m = n
      <4>1. N + 1 \in (EventsAt(m))'
        BY <1>4, <1>6, <1>12, <3>1 DEF EventsAt
      <4> QED
        BY <1>4, <1>6, <1>7, <3>1, <4>1
    <3>2. CASE m # n
      <4>1. PICK i \in EventsAt(m) : log[i].l = l[m]
        BY <1>1, <1>7, <2>1, <3>2 DEF NodeObserved
      <4>2. i \in 1 .. N /\ log[i].id = m
        BY <4>1 DEF EventsAt, N
      <4>3. i \in (EventsAt(m))'
        BY <1>6, <1>12, <4>2 DEF EventsAt
      <4> QED
        BY <1>6, <1>7, <3>2, <4>1, <4>2, <4>3
    <3> QED
      BY <3>1, <3>2
  <2> QED
    BY <2>1 DEF NodeObserved
<1>17. \A i \in past : Before(log[i], e)
  BY <1>4 DEF Before
<1>18. CausalOrder'
  <2>1. ASSUME NEW j \in 1 .. N + 1, NEW i \in log'[j].past
        PROVE  Before(log'[i], log'[j])
    <3>1. CASE j \in 1 .. N
      <4>1. log'[j] = log[j] /\ i \in log[j].past
        BY <1>6, <2>1, <3>1
      <4>2. i \in 1 .. N
        <5>1. log[j].past \subseteq 1 .. j - 1
          BY <1>1, <3>1 DEF PastEarlier, N
        <5> QED
          BY <1>2, <3>1, <4>1, <5>1, SMT
      <4> QED
        BY <1>1, <1>6, <3>1, <4>1, <4>2 DEF CausalOrder, N
    <3>2. CASE j = N + 1
      BY <1>4, <1>6, <1>11, <1>17, <2>1, <3>2
    <3> QED
      BY <1>10, <3>1, <3>2
  <2> QED
    BY <1>6, <2>1 DEF CausalOrder
<1>19. \A i \in 1 .. N : Before(log[i], e) \/ Before(e, log[i])
  <2>1. ASSUME NEW i \in 1 .. N PROVE Before(log[i], e) \/ Before(e, log[i])
    <3>1. CASE log[i].id = n
      <4>1. i \in Known(n)
        BY <3>1 DEF Known, EventsAt, N
      <4> QED
        BY <1>17, <4>1
    <3>2. CASE log[i].id # n
      BY <1>4, <1>8, <3>2, SMT DEF Before
    <3> QED
      BY <3>1, <3>2
  <2> QED
    BY <2>1
<1>20. StampsUnique'
  <2>1. ASSUME NEW i \in 1 .. N + 1, NEW j \in 1 .. N + 1, i # j
        PROVE  Before(log'[i], log'[j]) \/ Before(log'[j], log'[i])
    <3>1. CASE i \in 1 .. N /\ j \in 1 .. N
      BY <1>1, <1>6, <2>1, <3>1 DEF StampsUnique, N
    <3>2. CASE i = N + 1
      BY <1>6, <1>10, <1>19, <2>1, <3>2
    <3>3. CASE j = N + 1
      BY <1>6, <1>10, <1>19, <2>1, <3>3
    <3> QED
      BY <1>10, <3>1, <3>2, <3>3
  <2> QED
    BY <1>6, <2>1 DEF StampsUnique
<1>21. PhysicalIsObserved'
  <2>1. ASSUME NEW j \in 1 .. N + 1
        PROVE  /\ \A i \in log'[j].past \union {j} : log'[i].now <= log'[j].l
               /\ log'[j].l = 0 \/ \E i \in log'[j].past \union {j} : log'[i].now = log'[j].l
    <3>1. CASE j \in 1 .. N
      <4>1. /\ \A i \in log[j].past \union {j} : log[i].now <= log[j].l
            /\ log[j].l = 0 \/ \E i \in log[j].past \union {j} : log[i].now = log[j].l
        BY <1>1, <3>1 DEF PhysicalIsObserved, N
      <4>2. \A i \in log[j].past \union {j} : log'[i] = log[i]
        <5>1. log[j].past \subseteq 1 .. j - 1
          BY <1>1, <3>1 DEF PastEarlier, N
        <5>2. \A i \in log[j].past \union {j} : i \in 1 .. N
          BY <1>2, <3>1, <5>1, SMT
        <5> QED
          BY <1>6, <5>2
      <4> QED
        BY <1>6, <3>1, <4>1, <4>2
    <3>2. CASE j = N + 1
      <4>1. \A i \in past : log'[i] = log[i]
        BY <1>6, <1>11
      <4>2. log'[j] = e
        BY <1>6, <3>2
      <4> QED
        BY <1>4, <4>1, <4>2
    <3> QED
      BY <1>10, <3>1, <3>2
  <2> QED
    BY <1>6, <2>1 DEF PhysicalIsObserved
<1> QED
  BY <1>13, <1>14, <1>15, <1>16, <1>18, <1>20, <1>21 DEF HlcInv

-----------------------------------------------------------------------------
LEMMA ClockFields ==
    ASSUME HlcInv, NEW n \in Node
    PROVE  /\ l[n] \in Nat /\ c[n] \in Nat /\ n \in Nat
           /\ Known(n) \subseteq 1 .. Len(log)
<1>1. l[n] \in Nat /\ c[n] \in Nat /\ n \in Nat
  BY HlcAssumption DEF HlcInv, HlcTypeOK
<1> QED
  BY <1>1, KnownEvents

(* send() and update(): the past is what the node knows of.                *)
LEMMA LocalStep ==
    ASSUME HlcInv, NEW n \in Node, NEW kind \in {"send", "update"}, Local(n, kind)
    PROVE  HlcInv'
<1>1. PICK now \in WallClock :
        Stamp(n, kind, Advance(l[n], now),
              CounterAfterSend(l[n], Advance(l[n], now), c[n]), now, Known(n))
  BY DEF Local
<1> DEFINE lNew == Advance(l[n], now)
           cNew == CounterAfterSend(l[n], lNew, c[n])
           new == [l |-> lNew, c |-> cNew, id |-> n]
<1>2. l[n] \in Nat /\ c[n] \in Nat /\ n \in Nat /\ now \in Nat
  BY ClockFields, HlcAssumption
<1>3. /\ lNew \in Nat /\ cNew \in Nat
      /\ now <= lNew /\ l[n] <= lNew
      /\ lNew = l[n] \/ lNew = now
      /\ l[n] < lNew \/ (l[n] = lNew /\ c[n] < cNew)
  BY <1>2, SMT DEF Advance, Greatest, CounterAfterSend
<1>4. Stamp(n, kind, lNew, cNew, now, Known(n)) /\ Len(log) < MaxEvents
  BY <1>1 DEF Local
<1> HIDE DEF lNew, cNew
<1>5. new.l = lNew /\ new.c = cNew /\ new.id = n
  OBVIOUS
<1>6. ASSUME NEW i \in Known(n)
      PROVE  Before(log[i], new) /\ log[i].now <= lNew
  <2>1. log[i].now <= l[n] /\ Before(log[i], new)
    BY <1>2, <1>3, <1>5, KnownEvents
  <2>2. log[i].now \in Nat
    BY ClockFields, EventFields DEF HlcInv
  <2> QED
    BY <1>2, <1>3, <2>1, <2>2, SMT
<1>7. lNew = 0 \/ now = lNew \/ \E i \in Known(n) : log[i].now = lNew
  BY <1>3, KnownWallClock
<1> QED
  BY <1>3, <1>4, <1>6, <1>7, ClockFields, StampStep

(* The clock (ln, cn) is later than (lp, cp) and than the stamp m, and ln  *)
(* is no later than it has to be.                                          *)
Later(ln, cn, lp, cp, m, now) ==
    /\ ln \in Nat /\ cn \in Nat
    /\ now <= ln /\ lp <= ln /\ m.l <= ln
    /\ ln = lp \/ ln = now \/ ln = m.l
    /\ lp < ln \/ (lp = ln /\ cp < cn)
    /\ m.l < ln \/ (m.l = ln /\ m.c < cn)

(* What recv() computes is later than both of its inputs.                  *)
LEMMA ReceivedIsLater ==
    \A lp, cp, now \in Nat : \A m, ln, cn :
        /\ m.l \in Nat /\ m.c \in Nat
        /\ ln = Advance(Advance(lp, m.l), now)
        /\ cn = CounterAfterRecv(lp, ln, cp, m)
        => Later(ln, cn, lp, cp, m, now)
<1> SUFFICES ASSUME NEW lp \in Nat, NEW cp \in Nat, NEW now \in Nat, NEW m, NEW ln, NEW cn,
                    m.l \in Nat, m.c \in Nat,
                    ln = Advance(Advance(lp, m.l), now),
                    cn = CounterAfterRecv(lp, ln, cp, m)
             PROVE  Later(ln, cn, lp, cp, m, now)
  OBVIOUS
<1> DEFINE ml == m.l
           mc == m.c
<1>1. ml \in Nat /\ mc \in Nat
  OBVIOUS
<1>2. cn = CASE ln = lp /\ ln = ml -> Greatest(cp, mc) + 1
             [] ln = lp /\ ln # ml -> cp + 1
             [] ln # lp /\ ln = ml -> mc + 1
             [] OTHER -> 0
  BY DEF CounterAfterRecv
<1>3. ln = Greatest(Greatest(lp, ml), now)
  BY DEF Advance
<1> HIDE DEF ml, mc
<1>4. /\ ln \in Nat /\ now <= ln /\ lp <= ln /\ ml <= ln
      /\ ln = lp \/ ln = now \/ ln = ml
  BY <1>1, <1>3, SMT DEF Greatest
<1>5. /\ cn \in Nat
      /\ lp < ln \/ (lp = ln /\ cp < cn)
      /\ ml < ln \/ (ml = ln /\ mc < cn)
  <2>1. CASE ln = lp /\ ln = ml
    <3>1. cn = Greatest(cp, mc) + 1
      BY <1>2, <2>1
    <3> QED
      BY <1>1, <2>1, <3>1, SMT DEF Greatest
  <2>2. CASE ln = lp /\ ln # ml
    <3>1. cn = cp + 1
      BY <1>2, <2>2
    <3> QED
      BY <1>1, <1>4, <2>2, <3>1, SMT
  <2>3. CASE ln # lp /\ ln = ml
    <3>1. cn = mc + 1
      BY <1>2, <2>3
    <3> QED
      BY <1>1, <1>4, <2>3, <3>1, SMT
  <2>4. CASE ln # lp /\ ln # ml
    <3>1. cn = 0
      BY <1>2, <2>4
    <3> QED
      BY <1>1, <1>4, <2>4, <3>1, SMT
  <2> QED
    BY <2>1, <2>2, <2>3, <2>4
<1> QED
  BY <1>4, <1>5 DEF ml, mc, Later

(* recv(): the message and its past are added.                             *)
LEMMA RecvStep ==
    ASSUME HlcInv, NEW n \in Node, NEW k \in 1 .. Len(log), HlcRecv(n, k)
    PROVE  HlcInv'
<1> DEFINE m == log[k]
           lNew(now) == Advance(Advance(l[n], m.l), now)
           cNew(now) == CounterAfterRecv(l[n], lNew(now), c[n], m)
           past == Known(n) \union {k} \union m.past
<1>1. PICK now \in WallClock :
        Stamp(n, "recv", lNew(now), cNew(now), now, past)
  BY DEF HlcRecv
<1> DEFINE ln == lNew(now)
           cn == cNew(now)
           new == [l |-> ln, c |-> cn, id |-> n]
<1>2. /\ l[n] \in Nat /\ c[n] \in Nat /\ n \in Nat /\ now \in Nat
      /\ m.l \in Nat /\ m.c \in Nat /\ m.id \in Nat /\ m.now \in Nat
      /\ Len(log) \in Nat
  BY ClockFields, HlcAssumption, EventFields, LenProperties DEF HlcInv, HlcTypeOK
<1>3. /\ ln = Advance(Advance(l[n], m.l), now)
      /\ cn = CounterAfterRecv(l[n], ln, c[n], m)
  OBVIOUS
<1>4. Stamp(n, "recv", ln, cn, now, past) /\ Len(log) < MaxEvents
  BY <1>1 DEF HlcRecv
<1>5. m.past \subseteq 1 .. k - 1
  BY DEF HlcInv, PastEarlier
<1> HIDE DEF ln, cn
<1>6. /\ ln \in Nat /\ cn \in Nat
      /\ now <= ln /\ l[n] <= ln /\ m.l <= ln
      /\ ln = l[n] \/ ln = now \/ ln = m.l
      /\ l[n] < ln \/ (l[n] = ln /\ c[n] < cn)
      /\ m.l < ln \/ (m.l = ln /\ m.c < cn)
  <2> HIDE DEF m
  <2>1. Later(ln, cn, l[n], c[n], m, now)
    BY <1>2, <1>3, ReceivedIsLater, Zenon
  <2> QED
    BY <2>1 DEF Later
<1>7. new.l = ln /\ new.c = cn /\ new.id = n
  OBVIOUS
<1> HIDE DEF m
<1>8. past \in SUBSET (1 .. Len(log)) /\ Known(n) \subseteq past
  BY <1>2, <1>5, ClockFields, SMT
<1>9. \A i \in 1 .. Len(log) :
        /\ log[i].l \in Nat /\ log[i].c \in Nat /\ log[i].id \in Nat /\ log[i].now \in Nat
  BY EventFields DEF HlcInv
<1>10. Before(m, new)
  BY <1>2, <1>6, <1>7, SMT DEF Before
<1>11. \A i \in m.past \union {k} : log[i].now <= m.l
  BY DEF m, HlcInv, PhysicalIsObserved
<1>12. ASSUME NEW i \in past
       PROVE  Before(log[i], new) /\ log[i].now <= ln
  <2>1. i \in 1 .. Len(log)
    BY <1>8
  <2>2. CASE i \in Known(n)
    <3>1. log[i].now <= l[n] /\ Before(log[i], new)
      BY <1>2, <1>6, <1>7, <2>2, KnownEvents
    <3> QED
      BY <1>2, <1>6, <1>9, <2>1, <3>1, SMT
  <2>3. CASE i \in m.past \union {k}
    <3>1. log[i].now <= ln
      BY <1>2, <1>6, <1>9, <1>11, <2>1, <2>3, SMT
    <3>2. CASE i = k
      BY <1>10, <3>1, <3>2 DEF m
    <3>3. CASE i \in m.past
      <4>1. Before(log[i], m)
        BY <3>3 DEF m, HlcInv, CausalOrder
      <4> QED
        BY <1>2, <1>6, <1>7, <1>9, <1>10, <2>1, <3>1, <4>1, BeforeTransitive
    <3> QED
      BY <2>3, <3>2, <3>3
  <2> QED
    BY <2>2, <2>3
<1>13. ln = 0 \/ now = ln \/ \E i \in past : log[i].now = ln
  <2>1. CASE ln = l[n]
    BY <2>1, KnownWallClock
  <2>2. CASE ln = m.l
    <3>1. m.l = 0 \/ \E i \in m.past \union {k} : log[i].now = m.l
      BY DEF m, HlcInv, PhysicalIsObserved
    <3> QED
      BY <2>2, <3>1
  <2> QED
    BY <1>6, <2>1, <2>2
<1> HIDE DEF past
<1> QED
  BY <1>6, <1>4, <1>8, <1>12, <1>13, StampStep

-----------------------------------------------------------------------------
LEMMA HlcInitially == HlcInit => HlcInv
<1> SUFFICES ASSUME HlcInit PROVE HlcInv
  OBVIOUS
<1>1. log = <<>> /\ Len(log) = 0 /\ 1 .. Len(log) = {}
  BY DEF HlcInit
<1>2. HlcTypeOK
  BY EmptySeq DEF HlcInit, HlcTypeOK
<1>3. \A n \in Node : l[n] = 0
  BY DEF HlcInit
<1> QED
  BY <1>1, <1>2, <1>3
     DEF HlcInv, PastEarlier, NodeAhead, NodeObserved, CausalOrder, StampsUnique, PhysicalIsObserved

LEMMA Stuttering == ASSUME HlcInv, UNCHANGED hlcVars PROVE HlcInv'
<1>1. l' = l /\ c' = c /\ log' = log
  BY DEF hlcVars
<1>2. HlcTypeOK'
  BY <1>1 DEF HlcInv, HlcTypeOK
<1>3. PastEarlier'
  BY <1>1 DEF HlcInv, PastEarlier
<1>4. NodeAhead'
  BY <1>1 DEF HlcInv, NodeAhead, EventsAt
<1>5. NodeObserved'
  BY <1>1 DEF HlcInv, NodeObserved, UpTo, EventsAt
<1>6. CausalOrder'
  BY <1>1 DEF HlcInv, CausalOrder
<1>7. StampsUnique'
  BY <1>1 DEF HlcInv, StampsUnique
<1>8. PhysicalIsObserved'
  BY <1>1 DEF HlcInv, PhysicalIsObserved
<1> QED
  BY <1>2, <1>3, <1>4, <1>5, <1>6, <1>7, <1>8 DEF HlcInv

LEMMA HlcInductiveStep == HlcInv /\ [HlcNext]_hlcVars => HlcInv'
<1> SUFFICES ASSUME HlcInv, [HlcNext]_hlcVars PROVE HlcInv'
  OBVIOUS
<1>1. CASE \E n \in Node : HlcSend(n) \/ HlcUpdate(n)
  BY <1>1, LocalStep DEF HlcSend, HlcUpdate
<1>2. CASE \E n \in Node : \E i \in 1 .. Len(log) : HlcRecv(n, i)
  BY <1>2, RecvStep
<1>3. CASE UNCHANGED hlcVars
  BY <1>3, Stuttering
<1> QED
  BY <1>1, <1>2, <1>3 DEF HlcNext

LEMMA Invariance == HlcSpec => []HlcInv
BY HlcInitially, HlcInductiveStep, PTL DEF HlcSpec

-----------------------------------------------------------------------------
(* HlcTypeOK: clocks and stamps are natural numbers, and stamps those of   *)
(* known nodes (hlc.ts:8-17).                                              *)
THEOREM HlcTyped == HlcSpec => []HlcTypeOK
<1>1. HlcInv => HlcTypeOK
  BY DEF HlcInv
<1> QED
  BY <1>1, Invariance, PTL

(* CausalOrder: sorted by their stamps, events follow everything that      *)
(* caused them (hlc.ts:3-6), for any nodes, wall clocks and deliveries.    *)
THEOREM Causality == HlcSpec => []CausalOrder
<1>1. HlcInv => CausalOrder
  BY DEF HlcInv
<1> QED
  BY <1>1, Invariance, PTL

(* StampsUnique: compareHlc orders any two events (hlc.ts:18, 47-51).      *)
THEOREM TotalOrder == HlcSpec => []StampsUnique
<1>1. HlcInv => StampsUnique
  BY DEF HlcInv
<1> QED
  BY <1>1, Invariance, PTL

(* PhysicalIsObserved: a stamp's physical component is the latest wall     *)
(* clock in its past, "a monotonic ceiling over observed clocks"           *)
(* (hlc.ts:14).                                                            *)
THEOREM ObservedCeiling == HlcSpec => []PhysicalIsObserved
<1>1. HlcInv => PhysicalIsObserved
  BY DEF HlcInv
<1> QED
  BY <1>1, Invariance, PTL

-----------------------------------------------------------------------------
(* A sample of one exchange.                                               *)
Honest(s) ==
    /\ s.offset \in Int /\ s.truth \in Int /\ s.rtt \in Nat
    /\ 2 * Distance(s.offset, s.truth) <= s.rtt
    /\ s.offset % 2 = 0 /\ s.rtt % 2 = 0

Measured == [offset : Int, rtt : Int, truth : Int]

(* An estimate is of the samples at hand until another one is added.       *)
Current == fresh => window # <<>> /\ cached = EstimateOf(window)

IInv ==
    /\ truth \in TrueOffset /\ truth \in truths
    /\ window \in Seq(Measured)
    /\ \A i \in 1 .. Len(window) : Honest(window[i]) /\ window[i].truth \in truths
    /\ LowestRttContains
    /\ Current

-----------------------------------------------------------------------------
(* The NTP formula is wrong by half the difference of the two legs.        *)
LEMMA ExchangeIsHonest ==
    ASSUME truth \in TrueOffset, NEW leg \in Leg, NEW processing \in Processing
    PROVE  /\ Honest(Exchange(leg[1], processing, leg[2]))
           /\ Exchange(leg[1], processing, leg[2]).truth = truth
           /\ Exchange(leg[1], processing, leg[2]) \in Measured
<1>1. /\ leg[1] \in Nat /\ leg[2] \in Nat /\ leg[1] % 4 = 0 /\ leg[2] % 4 = 0
      /\ processing \in Nat /\ truth \in Int /\ truth % 4 = 0
  BY EstimatorAssumption DEF Quarters
<1>2. PICK there \in Nat, back \in Nat, o \in Int, p \in Nat :
        there = leg[1] /\ back = leg[2] /\ o = truth /\ p = processing
  BY <1>1
<1>3. there % 4 = 0 /\ back % 4 = 0 /\ o % 4 = 0
  BY <1>1, <1>2
<1> DEFINE t1 == there + o
           t2 == t1 + p
           t3 == there + p + back
           e == [offset |-> OffsetOf(0, t1, t2, t3), rtt |-> RoundTrip(0, t1, t2, t3), truth |-> o]
<1>4. Exchange(leg[1], processing, leg[2]) = e
  BY <1>2 DEF Exchange
<1>5. RoundTrip(0, t1, t2, t3) = there + back
  BY <1>2, SMT DEF RoundTrip
<1>6. OffsetOf(0, t1, t2, t3) = (there + 2 * o - back) \div 2
  <2>1. (t1 - 0) + (t2 - t3) = there + 2 * o - back
    BY <1>2, SMT
  <2> QED
    BY <2>1 DEF OffsetOf
<1>7. /\ (there + 2 * o - back) \div 2 \in Int
      /\ 2 * ((there + 2 * o - back) \div 2) = there + 2 * o - back
  BY <1>2, <1>3, SMT
<1>8. PICK x \in Int : x = (there + 2 * o - back) \div 2 /\ 2 * x = there + 2 * o - back
  BY <1>7
<1>9. 2 * Distance(x, o) <= there + back
  BY <1>2, <1>8, SMT DEF Distance
<1>10. there + back \in Nat
  BY <1>2, SMT
<1>12. x % 2 = 0 /\ (there + back) % 2 = 0
  <2>1. /\ there = 4 * (there \div 4) /\ there \div 4 \in Int
        /\ back = 4 * (back \div 4) /\ back \div 4 \in Int
        /\ o = 4 * (o \div 4) /\ o \div 4 \in Int
    BY <1>2, <1>3, SMT
  <2>2. PICK a \in Int, b \in Int, d \in Int : there = 4 * a /\ back = 4 * b /\ o = 4 * d
    BY <2>1
  <2>3. x = 2 * (a + 2 * d - b) /\ there + back = 2 * (2 * a + 2 * b)
    BY <1>8, <2>2, SMT
  <2> QED
    BY <2>2, <2>3, SMT
<1>11. e = [offset |-> x, rtt |-> there + back, truth |-> o]
  BY <1>5, <1>6, <1>8
<1> QED
  BY <1>2, <1>4, <1>9, <1>10, <1>11, <1>12 DEF Honest, Measured

LEMMA LeastOf == \A T : T \subseteq Nat /\ T # {} => \E m \in T : \A k \in T : m <= k
<1> SUFFICES ASSUME NEW T, T \subseteq Nat, T # {} PROVE \E m \in T : \A k \in T : m <= k
  OBVIOUS
<1>1. PICK m \in T : \A k \in T : <<k, m>> \notin OpToRel(<, Nat)
  BY NatLessThanWellFounded, WFMin, Zenon
<1>2. \A k \in T : ~(k < m)
  BY <1>1, Zenon DEF OpToRel
<1>3. \A k \in T : m <= k
  BY <1>2, SMT
<1> QED
  BY <1>3

(* reestimate() finds a sample with the lowest round-trip time.            *)
LEMMA BestIsSample ==
    ASSUME NEW w, Len(w) \in Nat \ {0}, \A i \in 1 .. Len(w) : w[i].rtt \in Nat
    PROVE  \E i \in 1 .. Len(w) : Best(w) = w[i]
<1>1. PICK n \in Nat \ {0} : n = Len(w)
  OBVIOUS
<1> DEFINE rtts == {w[i].rtt : i \in 1 .. n}
<1>2. 1 \in 1 .. n
  BY SMT
<1>3. rtts \subseteq Nat /\ rtts # {}
  BY <1>1, <1>2
<1>4. PICK m \in rtts : \A k \in rtts : m <= k
  BY <1>3, LeastOf
<1> DEFINE firsts == {i \in 1 .. n : w[i].rtt = m}
<1>5. firsts \subseteq Nat /\ firsts # {}
  <2>1. 1 .. n \subseteq Nat
    BY SMT
  <2> QED
    BY <1>4, <2>1
<1>6. PICK i \in firsts : \A k \in firsts : i <= k
  BY <1>5, LeastOf
<1>7. \A j \in 1 .. n : w[i].rtt <= w[j].rtt
  BY <1>4, <1>6
<1>8. \A j \in 1 .. i - 1 : w[i].rtt < w[j].rtt
  <2> SUFFICES ASSUME NEW j \in 1 .. i - 1 PROVE w[i].rtt < w[j].rtt
    OBVIOUS
  <2>1. j \in 1 .. n /\ ~(i <= j) /\ i \in 1 .. n
    BY <1>6, SMT
  <2>2. w[j].rtt # m /\ w[i].rtt = m
    BY <1>6, <2>1
  <2>3. PICK x \in Nat, y \in Nat : x = w[i].rtt /\ y = w[j].rtt
    BY <1>1, <2>1
  <2>4. x <= y /\ x # y
    BY <1>7, <2>1, <2>2, <2>3
  <2> QED
    BY <2>3, <2>4, SMT
<1>9. \E k \in 1 .. Len(w) :
        /\ \A j \in 1 .. Len(w) : w[k].rtt <= w[j].rtt
        /\ \A j \in 1 .. k - 1 : w[k].rtt < w[j].rtt
  BY <1>1, <1>6, <1>7, <1>8
<1> QED
  BY <1>9 DEF Best

(* Among finitely many indices one has the least value, and one the most.  *)
LEMMA SmallestOf ==
    \A n \in Nat : \A f \in [1 .. n -> Int] : \A I \in SUBSET (1 .. n) :
        I # {} => \E i \in I : \A j \in I : f[i] <= f[j]
<1> DEFINE Has(n) == \A f \in [1 .. n -> Int] : \A I \in SUBSET (1 .. n) :
                        I # {} => \E i \in I : \A j \in I : f[i] <= f[j]
           wrong == {n \in Nat : ~Has(n)}
<1>1. ASSUME wrong # {} PROVE FALSE
  <2>1. PICK m \in wrong : \A k \in wrong : m <= k
    BY <1>1, LeastOf
  <2>2. PICK f \in [1 .. m -> Int], I \in SUBSET (1 .. m) :
          I # {} /\ ~\E i \in I : \A j \in I : f[i] <= f[j]
    BY <2>1
  <2>3. m \in Nat \ {0}
    <3>1. m # 0
      <4>1. 1 .. 0 = {}
        BY SMT
      <4> QED
        BY <2>2, <4>1
    <3> QED
      BY <2>1, <3>1
  <2>4. m - 1 \in Nat /\ ~(m <= m - 1) /\ m \in 1 .. m
        /\ 1 .. m - 1 = (1 .. m) \ {m}
    BY <2>3, SMT
  <2>5. Has(m - 1)
    <3> HIDE DEF Has
    <3> QED
      BY <2>1, <2>4
  <2> DEFINE g == [i \in 1 .. m - 1 |-> f[i]]
             J == I \ {m}
  <2>6. g \in [1 .. m - 1 -> Int] /\ J \in SUBSET (1 .. m - 1) /\ \A i \in J : g[i] = f[i]
    BY <2>4
  <2>7. J # {} => \E i \in J : \A j \in J : f[i] <= f[j]
    <3> HIDE DEF g, J
    <3>1. J # {} => \E i \in J : \A j \in J : g[i] <= g[j]
      BY <2>5, <2>6
    <3> QED
      BY <2>6, <3>1
  <2>8. CASE m \notin I
    BY <2>2, <2>7, <2>8
  <2>9. CASE m \in I /\ J = {}
    <3>1. I = {m} /\ f[m] \in Int
      BY <2>4, <2>9
    <3>2. f[m] <= f[m]
      BY <3>1
    <3> QED
      BY <2>2, <3>1, <3>2
  <2>10. CASE m \in I /\ J # {}
    <3>1. PICK i \in J : \A j \in J : f[i] <= f[j]
      BY <2>7, <2>10
    <3>2. \A j \in I : f[j] \in Int /\ (j = m \/ j \in J)
      BY <2>2
    <3>3. f[i] \in Int /\ f[m] \in Int /\ i \in I
      BY <2>10, <3>1, <3>2
    <3>4. CASE f[i] <= f[m]
      BY <2>2, <3>1, <3>2, <3>4
    <3>5. CASE ~(f[i] <= f[m])
      <4>1. \A j \in I : f[m] <= f[j]
        BY <3>1, <3>2, <3>3, <3>5
      <4> QED
        BY <2>2, <2>10, <4>1
    <3> QED
      BY <3>4, <3>5
  <2> QED
    BY <2>8, <2>9, <2>10
<1> QED
  BY <1>1

LEMMA LargestOf ==
    \A n \in Nat : \A f \in [1 .. n -> Int] : \A I \in SUBSET (1 .. n) :
        I # {} => \E i \in I : \A j \in I : f[j] <= f[i]
<1> SUFFICES ASSUME NEW n \in Nat, NEW f \in [1 .. n -> Int], NEW I \in SUBSET (1 .. n), I # {}
             PROVE  \E i \in I : \A j \in I : f[j] <= f[i]
  OBVIOUS
<1> DEFINE g == [i \in 1 .. n |-> - f[i]]
<1>1. g \in [1 .. n -> Int] /\ \A i \in I : f[i] \in Int /\ g[i] = - f[i]
  BY SMT
<1> HIDE DEF g
<1>2. PICK i \in I : \A j \in I : g[i] <= g[j]
  BY <1>1, SmallestOf
<1>3. \A j \in I : f[j] <= f[i]
  BY <1>1, <1>2, SMT
<1> QED
  BY <1>3

(* Sequences of integers, as the offsets and round-trip times are.         *)
Numbers(xs, n) == n \in Nat \ {0} /\ xs \in [1 .. n -> Int] /\ Len(xs) = n

LEMMA Extremes ==
    ASSUME NEW xs, NEW n, Numbers(xs, n)
    PROVE  /\ \E i \in 1 .. n : Min(Range(xs)) = xs[i]
           /\ \E i \in 1 .. n : Max(Range(xs)) = xs[i]
           /\ \A i \in 1 .. n : Min(Range(xs)) <= xs[i] /\ xs[i] <= Max(Range(xs))
<1>1. /\ n \in Nat /\ xs \in [1 .. n -> Int] /\ 1 .. n \in SUBSET (1 .. n) /\ 1 .. n # {}
      /\ Range(xs) = {xs[i] : i \in 1 .. n}
  <2>1. 1 \in 1 .. n
    BY SMT DEF Numbers
  <2> QED
    BY <2>1 DEF Numbers, Range
<1>2. PICK a \in 1 .. n : \A j \in 1 .. n : xs[a] <= xs[j]
  BY <1>1, SmallestOf
<1>3. PICK b \in 1 .. n : \A j \in 1 .. n : xs[j] <= xs[b]
  BY <1>1, LargestOf
<1>4. \E x \in Range(xs) : \A y \in Range(xs) : x <= y
  BY <1>1, <1>2
<1>5. \E x \in Range(xs) : \A y \in Range(xs) : x >= y
  <2>1. \A j \in 1 .. n : xs[b] >= xs[j]
    BY <1>1, <1>3, SMT
  <2> QED
    BY <1>1, <2>1
<1>6. Min(Range(xs)) \in Range(xs) /\ \A y \in Range(xs) : Min(Range(xs)) <= y
  BY <1>4 DEF Min
<1>7. Max(Range(xs)) \in Range(xs) /\ \A y \in Range(xs) : Max(Range(xs)) >= y
  BY <1>5 DEF Max
<1>8. Range(xs) \subseteq Int
  BY <1>1
<1>9. \A y \in Range(xs) : y <= Max(Range(xs))
  BY <1>7, <1>8, SMT
<1> QED
  BY <1>1, <1>6, <1>7, <1>9

(* There is a k-th smallest, so Ranked() is one of the numbers.            *)
LEMMA RankedIsOne ==
    ASSUME NEW xs, NEW n, Numbers(xs, n), NEW k \in 1 .. n
    PROVE  \E i \in 1 .. n : Ranked(xs, k) = xs[i]
<1>1. /\ n \in Nat /\ xs \in [1 .. n -> Int] /\ DOMAIN xs = 1 .. n
      /\ Range(xs) = {xs[i] : i \in 1 .. n} /\ IsFiniteSet(1 .. n) /\ Cardinality(1 .. n) = n
      /\ n \in 1 .. n
  <2>1. Cardinality(1 .. n) = n /\ IsFiniteSet(1 .. n)
    <3>1. n \in Nat /\ 1 \in Int /\ n \in Int
      BY DEF Numbers
    <3>2. Cardinality(1 .. n) = IF 1 <= n THEN n - 1 + 1 ELSE 0
      BY <3>1, FS_Interval
    <3>3. 1 <= n /\ n - 1 + 1 = n
      BY SMT DEF Numbers
    <3> QED
      BY <3>1, <3>2, <3>3, FS_Interval
  <2>2. n \in 1 .. n
    BY SMT DEF Numbers
  <2> QED
    BY <2>1, <2>2 DEF Numbers, Range
<1> DEFINE AtMost(x) == {i \in 1 .. n : xs[i] <= x}
           Under(x) == {i \in 1 .. n : xs[i] < x}
           enough == {i \in 1 .. n : Cardinality(AtMost(xs[i])) >= k}
<1>2. enough # {}
  <2>1. PICK b \in 1 .. n : \A j \in 1 .. n : xs[j] <= xs[b]
    BY <1>1, LargestOf
  <2>2. AtMost(xs[b]) = 1 .. n
    BY <2>1
  <2>3. Cardinality(AtMost(xs[b])) = n
    BY <1>1, <2>2
  <2>4. n >= k
    BY <1>1, SMT
  <2>5. b \in enough
    BY <2>3, <2>4
  <2> QED
    BY <2>5
<1>3. PICK a \in enough : \A j \in enough : xs[a] <= xs[j]
  <2>1. enough \in SUBSET (1 .. n)
    OBVIOUS
  <2> HIDE DEF enough
  <2> QED
    BY <1>1, <1>2, <2>1, SmallestOf
<1>4. Cardinality(Under(xs[a])) < k
  <2>1. CASE Under(xs[a]) = {}
    <3>1. Cardinality(Under(xs[a])) = 0
      BY <2>1, FS_EmptySet
    <3>2. 0 < k
      BY <1>1, SMT
    <3> QED
      BY <3>1, <3>2
  <2>2. CASE Under(xs[a]) # {}
    <3>1. PICK y \in Under(xs[a]) : \A j \in Under(xs[a]) : xs[j] <= xs[y]
      <4>1. Under(xs[a]) \in SUBSET (1 .. n)
        OBVIOUS
      <4> HIDE DEF Under
      <4> QED
        BY <1>1, <2>2, <4>1, LargestOf
    <3>2. xs[a] \in Int /\ y \in 1 .. n /\ xs[y] \in Int /\ xs[y] < xs[a]
      BY <1>1, <1>3, <3>1
    <3>3. \A j \in 1 .. n : xs[j] \in Int
      BY <1>1
    <3>4. Under(xs[a]) = AtMost(xs[y])
      <4>1. \A j \in Under(xs[a]) : j \in AtMost(xs[y])
        BY <3>1
      <4>2. \A j \in AtMost(xs[y]) : j \in Under(xs[a])
        BY <3>2, <3>3, SMT
      <4> QED
        BY <4>1, <4>2
    <3>5. y \notin enough
      BY <1>3, <3>2, SMT
    <3>6. ~(Cardinality(AtMost(xs[y])) >= k)
      BY <3>2, <3>5
    <3>7. Cardinality(AtMost(xs[y])) \in Nat
      <4>1. AtMost(xs[y]) \subseteq 1 .. n
        OBVIOUS
      <4> HIDE DEF AtMost
      <4> QED
        BY <1>1, <4>1, FS_Subset, FS_CardinalityType
    <3> HIDE DEF AtMost, Under
    <3> QED
      BY <1>1, <3>4, <3>6, <3>7, SMT
  <2> QED
    BY <2>1, <2>2
<1>5. \E x \in Range(xs) :
        /\ Cardinality({i \in DOMAIN xs : xs[i] < x}) < k
        /\ Cardinality({i \in DOMAIN xs : xs[i] <= x}) >= k
  <2>1. xs[a] \in Range(xs) /\ Cardinality(AtMost(xs[a])) >= k
    BY <1>1, <1>3
  <2> QED
    BY <1>1, <1>4, <2>1
<1>6. Ranked(xs, k) \in Range(xs)
  BY <1>5 DEF Ranked
<1> QED
  BY <1>1, <1>6

LEMMA Halving ==
    \A n \in Nat \ {0} :
        /\ n % 2 = 1 => (n \div 2) + 1 \in 1 .. n
        /\ n % 2 # 1 => n \div 2 \in 1 .. n /\ (n \div 2) + 1 \in 1 .. n
BY SMT

LEMMA Averaging ==
    \A lo, hi, a, b \in Int :
        lo <= a /\ a <= hi /\ lo <= b /\ b <= hi =>
            (a + b) \div 2 \in Int /\ lo <= (a + b) \div 2 /\ (a + b) \div 2 <= hi
BY SMT

(* The median lies between the least and the greatest number.              *)
LEMMA MedianWithin ==
    ASSUME NEW xs, NEW n, Numbers(xs, n), NEW lo \in Int, NEW hi \in Int,
           \A i \in 1 .. n : lo <= xs[i] /\ xs[i] <= hi
    PROVE  Median(xs) \in Int /\ lo <= Median(xs) /\ Median(xs) <= hi
<1>1. n \in Nat \ {0} /\ Len(xs) = n /\ \A i \in 1 .. n : xs[i] \in Int
  BY DEF Numbers
<1>2. ASSUME NEW k \in 1 .. n
      PROVE  Ranked(xs, k) \in Int /\ lo <= Ranked(xs, k) /\ Ranked(xs, k) <= hi
  BY <1>1, RankedIsOne
<1> DEFINE m == n \div 2
<1>3. CASE n % 2 = 1
  <2>1. m + 1 \in 1 .. n
    BY <1>1, <1>3, Halving
  <2>2. Median(xs) = Ranked(xs, m + 1)
    BY <1>1, <1>3 DEF Median
  <2> QED
    BY <1>2, <2>1, <2>2
<1>4. CASE n % 2 # 1
  <2>1. m \in 1 .. n /\ m + 1 \in 1 .. n
    BY <1>1, <1>4, Halving
  <2>2. PICK a, b : a = Ranked(xs, m) /\ b = Ranked(xs, m + 1)
    OBVIOUS
  <2>3. /\ a \in Int /\ lo <= a /\ a <= hi
        /\ b \in Int /\ lo <= b /\ b <= hi
    BY <1>2, <2>1, <2>2
  <2>4. Median(xs) = (a + b) \div 2
    BY <1>1, <1>4, <2>2 DEF Median
  <2> QED
    BY <2>3, <2>4, Averaging
<1> QED
  BY <1>3, <1>4

LEMMA EvenDistance ==
    \A lo, hi \in Int :
        lo <= hi /\ lo % 2 = 0 /\ hi % 2 = 0 =>
            (hi - lo) \div 2 \in Nat /\ 2 * ((hi - lo) \div 2) = hi - lo
BY SMT

(* The floor is half of the least round-trip time, that of some sample.    *)
LEMMA FloorIsASample ==
    ASSUME NEW e, NEW w, NEW n \in Nat \ {0}, w \in Seq(Measured), Len(w) = n,
           \A i \in 1 .. n : Honest(w[i])
    PROVE  /\ Floor(e, w) \in Nat
           /\ \E i \in 1 .. n : w[i].rtt = 2 * Floor(e, w)
<1> DEFINE xs == Rtts(w)
<1>1. \A i \in 1 .. n : w[i].rtt \in Nat /\ w[i].rtt % 2 = 0
  BY DEF Honest
<1>2. Numbers(xs, n) /\ \A i \in 1 .. n : xs[i] = w[i].rtt
  <2>1. xs = [i \in 1 .. n |-> w[i].rtt]
    BY DEF Rtts
  <2>2. xs \in [1 .. n -> Int]
    BY <1>1, <2>1
  <2>3. Len(xs) = n
    BY <2>1, <2>2, LenProperties, SMT
  <2> QED
    BY <2>1, <2>2, <2>3 DEF Numbers
<1>3. Floor(e, w) = Min(Range(xs)) \div 2
  <2>1. w # <<>>
    BY EmptySeq
  <2> QED
    BY <2>1 DEF Floor
<1> HIDE DEF xs
<1>4. PICK i \in 1 .. n : Min(Range(xs)) = xs[i]
  BY <1>2, Extremes
<1>5. PICK r \in Nat : r = w[i].rtt /\ r % 2 = 0 /\ Floor(e, w) = r \div 2
  BY <1>1, <1>2, <1>3, <1>4
<1>6. r \div 2 \in Nat /\ 2 * (r \div 2) = r
  BY <1>5, SMT
<1> QED
  BY <1>5, <1>6

(* Two numbers in an interval are no further apart than its ends.          *)
LEMMA Between ==
    ASSUME NEW lo \in Int, NEW hi \in Int, NEW e \in Int, NEW x \in Int,
           lo <= e, e <= hi, lo <= x, x <= hi
    PROVE  Distance(e, x) <= hi - lo
BY SMT DEF Distance

(* How far an estimate of these samples may be from each of them.          *)
LEMMA Reach ==
    ASSUME NEW w, NEW n \in Nat \ {0}, w \in Seq(Measured), Len(w) = n,
           \A i \in 1 .. n : Honest(w[i])
    PROVE  /\ EstimateOf(w).offset \in Int /\ Spread(w) \in Nat
           /\ \A i \in 1 .. n : Distance(EstimateOf(w).offset, w[i].offset) <= 2 * Spread(w)
<1> DEFINE xs == Offsets(w)
<1>1. \A i \in 1 .. n : w[i].offset \in Int /\ w[i].rtt \in Nat /\ w[i].offset % 2 = 0
  BY DEF Honest
<1>2. Numbers(xs, n) /\ \A i \in 1 .. n : xs[i] = w[i].offset
  <2>1. xs = [i \in 1 .. n |-> w[i].offset]
    BY DEF Offsets
  <2>2. xs \in [1 .. n -> Int]
    BY <1>1, <2>1
  <2>3. Len(xs) = n
    BY <2>1, <2>2, LenProperties, SMT
  <2> QED
    BY <2>1, <2>2, <2>3 DEF Numbers
<1> HIDE DEF xs
<1>3. PICK a \in 1 .. n, b \in 1 .. n : Min(Range(xs)) = xs[a] /\ Max(Range(xs)) = xs[b]
  BY <1>2, Extremes
<1>4. PICK lo \in Int, hi \in Int :
        lo = Min(Range(xs)) /\ hi = Max(Range(xs)) /\ lo = w[a].offset /\ hi = w[b].offset
  BY <1>1, <1>2, <1>3
<1>5. /\ \A i \in 1 .. n : lo <= w[i].offset /\ w[i].offset <= hi
      /\ \A i \in 1 .. n : lo <= xs[i] /\ xs[i] <= hi
      /\ lo <= hi /\ lo % 2 = 0 /\ hi % 2 = 0
  <2>1. \A i \in 1 .. n : lo <= xs[i] /\ xs[i] <= hi
    BY <1>2, <1>4, Extremes
  <2>2. lo <= hi
    BY <1>2, <1>4, <2>1
  <2> QED
    BY <1>1, <1>2, <1>4, <2>1, <2>2
<1>6. PICK e \in Int : e = EstimateOf(w).offset /\ lo <= e /\ e <= hi
  <2>1. CASE LowVariance(Rtts(w))
    <3>1. EstimateOf(w).offset = Median(xs)
      BY <2>1 DEF EstimateOf, xs
    <3> QED
      BY <1>2, <1>4, <1>5, <3>1, MedianWithin
  <2>2. CASE ~LowVariance(Rtts(w))
    <3>1. PICK i \in 1 .. n : Best(w) = w[i]
      BY <1>1, BestIsSample
    <3>2. EstimateOf(w).offset = w[i].offset
      BY <2>2, <3>1 DEF EstimateOf
    <3> QED
      BY <1>1, <1>5, <3>2
  <2> QED
    BY <2>1, <2>2
<1>7. PICK spread \in Nat : spread = Spread(w) /\ 2 * spread = hi - lo
  <2>1. CASE n = 1
    <3>1. a = 1 /\ b = 1
      BY <2>1, SMT
    <3>2. hi - lo = 0 /\ Spread(w) = 0
      BY <1>4, <2>1, <3>1, SMT DEF Spread
    <3> QED
      BY <3>2
  <2>2. CASE n > 1
    <3>1. Spread(w) = (hi - lo) \div 2
      BY <1>4, <2>2 DEF Spread, xs
    <3>2. (hi - lo) \div 2 \in Nat /\ 2 * ((hi - lo) \div 2) = hi - lo
      BY <1>4, <1>5, EvenDistance
    <3> QED
      BY <3>1, <3>2
  <2> QED
    BY <2>1, <2>2
<1>8. ASSUME NEW i \in 1 .. n PROVE Distance(e, w[i].offset) <= 2 * spread
  <2>1. PICK x \in Int : x = w[i].offset /\ lo <= x /\ x <= hi
    BY <1>1, <1>5
  <2>2. Distance(e, x) <= hi - lo
    BY <1>4, <1>6, <2>1, Between
  <2> QED
    BY <1>7, <2>1, <2>2
<1> QED
  BY <1>6, <1>7, <1>8

-----------------------------------------------------------------------------
LEMMA Initially == Init => IInv
<1> SUFFICES ASSUME Init PROVE IInv
  OBVIOUS
<1>1. window = <<>> /\ cached = None /\ truths = {truth} /\ truth \in TrueOffset
  BY DEF Init
<1>2. window \in Seq(Measured) /\ Len(window) = 0 /\ 1 .. 0 = {}
  BY <1>1, EmptySeq, SMT
<1>3. Current
  BY DEF Init, Current
<1> QED
  BY <1>1, <1>2, <1>3 DEF IInv, LowestRttContains

(* addSample() appends one sample and drops the oldest.                    *)
LEMMA ProbeStep == ASSUME IInv, Probe PROVE IInv'
<1>1. PICK leg \in Leg, processing \in Processing :
        AddSample(Exchange(leg[1], processing, leg[2]))
  BY DEF Probe
<1>2. PICK s \in Measured : s = Exchange(leg[1], processing, leg[2]) /\ Honest(s) /\ s.truth = truth
  BY ExchangeIsHonest DEF IInv
<1> DEFINE longer == Append(window, s)
<1>3. /\ window' = Slid(longer)
      /\ truth' = truth /\ truths' = truths /\ cached' = cached
      /\ Current'
  BY <1>1, <1>2 DEF AddSample, clocks, Current
<1>4. window \in Seq(Measured) /\ truth \in truths
  BY DEF IInv
<1>5. PICK n \in Nat : n = Len(window)
  BY <1>4, LenProperties
<1>6. /\ longer \in Seq(Measured) /\ longer # <<>> /\ Len(longer) = n + 1
      /\ \A i \in 1 .. n : longer[i] = window[i]
      /\ longer[n + 1] = s
  <2> HIDE DEF Measured
  <2> QED
    BY <1>4, <1>5, AppendProperties
<1>7. \A i \in 1 .. n + 1 : Honest(longer[i]) /\ longer[i].truth \in truths
  <2>1. 1 .. n + 1 = (1 .. n) \union {n + 1}
    BY SMT
  <2>2. \A i \in 1 .. n : Honest(window[i]) /\ window[i].truth \in truths
    BY <1>5 DEF IInv
  <2> QED
    BY <1>2, <1>4, <1>6, <2>1, <2>2
<1> HIDE DEF longer
<1>8. CASE window' = longer
  <2>1. LowestRttContains'
    BY <1>3 DEF IInv, LowestRttContains
  <2> QED
    BY <1>3, <1>6, <1>7, <1>8, <2>1 DEF IInv
<1>9. CASE window' = Tail(longer)
  <2>1. /\ Tail(longer) \in Seq(Measured) /\ Len(Tail(longer)) = n
        /\ \A i \in 1 .. n : Tail(longer)[i] = longer[i + 1]
    <3> HIDE DEF Measured
    <3>1. /\ Tail(longer) \in Seq(Measured) /\ Len(Tail(longer)) = Len(longer) - 1
          /\ \A i \in 1 .. Len(Tail(longer)) : Tail(longer)[i] = longer[i + 1]
      BY <1>6, HeadTailProperties
    <3>2. n + 1 - 1 = n
      BY SMT
    <3> QED
      BY <1>6, <3>1, <3>2
  <2>2. \A i \in 1 .. n : i + 1 \in 1 .. n + 1
    BY SMT
  <2>3. LowestRttContains'
    BY <1>3 DEF IInv, LowestRttContains
  <2> QED
    BY <1>3, <1>7, <1>9, <2>1, <2>2, <2>3 DEF IInv
<1> QED
  BY <1>3, <1>8, <1>9 DEF Slid

(* reestimate(): the estimate is a sample, or a median.                    *)
LEMMA ReestimateStep == ASSUME IInv, Reestimate PROVE IInv'
<1>1. /\ window # <<>> /\ cached' = EstimateOf(window)
      /\ window' = window /\ truth' = truth /\ truths' = truths
  BY DEF Reestimate, clocks
<1>2. /\ truth \in TrueOffset /\ truth \in truths /\ window \in Seq(Measured)
      /\ \A i \in 1 .. Len(window) : Honest(window[i]) /\ window[i].truth \in truths
  BY DEF IInv
<1>3. Len(window) \in Nat \ {0}
  <2> HIDE DEF Measured
  <2> QED
    BY <1>1, <1>2, EmptySeq
<1>4. LowestRttContains'
  <2>1. CASE LowVariance(Rtts(window))
    <3>1. cached'.method = "median"
      BY <1>1, <2>1 DEF EstimateOf
    <3> QED
      BY <3>1 DEF LowestRttContains
  <2>2. CASE ~LowVariance(Rtts(window))
    <3>1. PICK i \in 1 .. Len(window) : Best(window) = window[i]
      <4>1. \A i \in 1 .. Len(window) : window[i].rtt \in Nat
        BY <1>2 DEF Honest
      <4> QED
        BY <1>3, <4>1, BestIsSample
    <3>2. cached'.offset = window[i].offset /\ cached'.rttMs = window[i].rtt
      BY <1>1, <2>2, <3>1 DEF EstimateOf
    <3>3. window[i].truth \in truths /\ 2 * Distance(window[i].offset, window[i].truth) <= window[i].rtt
      BY <1>2 DEF Honest
    <3> QED
      BY <1>1, <3>2, <3>3 DEF LowestRttContains
  <2> QED
    BY <2>1, <2>2
<1>5. Current'
  BY <1>1 DEF Current, Reestimate
<1> QED
  BY <1>1, <1>2, <1>4, <1>5 DEF IInv

(* Steps that only move the clocks; what was true stays recorded.          *)
LEMMA ClockStep ==
    ASSUME IInv, UNCHANGED <<window, cached, fresh>>, truth' \in TrueOffset, truth' \in truths',
           truths \subseteq truths'
    PROVE  IInv'
<1>1. LowestRttContains'
  BY DEF IInv, LowestRttContains
<1>2. Current'
  BY DEF IInv, Current
<1> QED
  BY <1>1, <1>2 DEF IInv

LEMMA InductiveStep == IInv /\ [Next]_vars => IInv'
<1> SUFFICES ASSUME IInv, [Next]_vars PROVE IInv'
  OBVIOUS
<1>1. truth \in TrueOffset /\ truth \in truths
  BY DEF IInv
<1>2. CASE Probe
  BY <1>2, ProbeStep
<1>3. CASE Reestimate \/ Serve
  BY <1>3, ReestimateStep DEF Serve
<1>4. CASE Tick \/ SetBack \/ UNCHANGED vars
  BY <1>1, <1>4, ClockStep DEF Tick, SetBack, vars, clocks
<1>5. CASE PeerSteps
  BY <1>5, ClockStep DEF PeerSteps
<1> QED
  BY <1>2, <1>3, <1>4, <1>5 DEF Next

(* LowestRttContains: an estimate made of the lowest-RTT sample            *)
(* (offset.ts:136-147) is within half its round-trip time of an offset the *)
(* peer's clock had, for any delays, window, interval and clock steps.     *)
THEOREM Containment == Spec => []LowestRttContains
<1>1. IInv => LowestRttContains
  BY DEF IInv
<1> QED
  BY <1>1, Initially, InductiveStep, PTL DEF Spec

LEMMA Widening ==
    \A m \in Int : \A r, spread, floor, k \in Nat :
        2 * m <= r + 4 * spread /\ floor + spread <= k => 2 * m <= r + 4 * k
BY SMT

LEMMA Triangle ==
    \A e, x, t \in Int : \A s, r \in Nat :
        Distance(e, x) <= 2 * s /\ 2 * Distance(x, t) <= r => 2 * Distance(t - e, 0) <= r + 4 * s
BY SMT DEF Distance

(* What a sample that is true of the peer's clock says of the estimate     *)
(* that is served with it.                                                 *)
LEMMA NearASample ==
    ASSUME IInv, fresh, NEW n \in Nat \ {0}, n = Len(window),
           NEW i \in 1 .. n, window[i].truth = truth
    PROVE  2 * Misplaced(cached) <= window[i].rtt + 4 * Spread(window)
<1>1. /\ window \in Seq(Measured) /\ cached = EstimateOf(window)
      /\ \A j \in 1 .. n : Honest(window[j])
  BY DEF IInv, Current
<1>2. /\ EstimateOf(window).offset \in Int /\ Spread(window) \in Nat
      /\ Distance(EstimateOf(window).offset, window[i].offset) <= 2 * Spread(window)
  BY <1>1, Reach
<1>3. PICK e \in Int, s \in Nat, x \in Int, t \in Int, r \in Nat :
        /\ e = cached.offset /\ s = Spread(window) /\ x = window[i].offset
        /\ t = truth /\ r = window[i].rtt
        /\ Distance(e, x) <= 2 * s /\ 2 * Distance(x, t) <= r
  BY <1>1, <1>2 DEF Honest
<1>4. 2 * Distance(t - e, 0) <= r + 4 * s
  BY <1>3, Triangle
<1>5. Misplaced(cached) = Distance(t - e, 0)
  BY <1>3 DEF Misplaced, Normalized
<1> QED
  BY <1>3, <1>4, <1>5

LEMMA MisplacedByANumber ==
    ASSUME IInv, fresh, NEW n \in Nat \ {0}, n = Len(window)
    PROVE  Misplaced(cached) \in Int
<1>1. cached.offset \in Int
  BY Reach DEF IInv, Current
<1>2. truth \in Int
  BY EstimatorAssumption DEF IInv, Quarters
<1> QED
  BY <1>1, <1>2, SMT DEF Misplaced, Normalized, Distance

LEMMA WindowInUse ==
    ASSUME IInv, fresh
    PROVE  /\ Len(window) \in Nat \ {0} /\ window \in Seq(Measured)
           /\ \A i \in 1 .. Len(window) : Honest(window[i])
<1>1. window \in Seq(Measured) /\ window # <<>>
  BY DEF IInv, Current
<1>2. Len(window) \in Nat \ {0}
  <2> HIDE DEF Measured
  <2> QED
    BY <1>1, EmptySeq
<1> QED
  BY <1>1, <1>2 DEF IInv

(* PlacedWithin: an estimate of samples that are all true of the peer's    *)
(* clock puts an event within floor + 2 * spread of its place (skew.ts     *)
(* 11-21), whichever method made it and however the legs compare.          *)
THEOREM Placement == Spec => []PlacedWithin
<1>1. ASSUME IInv, fresh, \A i \in 1 .. Len(window) : window[i].truth = truth
      PROVE  Misplaced(cached) <= Floor(cached, window) + 2 * Spread(window)
  <2>1. PICK n \in Nat \ {0} : n = Len(window)
    BY <1>1, WindowInUse
  <2>2. window \in Seq(Measured) /\ \A i \in 1 .. n : Honest(window[i])
    BY <1>1, <2>1, WindowInUse
  <2>3. PICK i \in 1 .. n, floor \in Nat :
          floor = Floor(cached, window) /\ window[i].rtt = 2 * floor
    BY <2>1, <2>2, FloorIsASample
  <2>4. 2 * Misplaced(cached) <= window[i].rtt + 4 * Spread(window)
    BY <1>1, <2>1, NearASample
  <2>5. Misplaced(cached) \in Int /\ Spread(window) \in Nat
    BY <1>1, <2>1, <2>2, MisplacedByANumber, Reach
  <2> QED
    BY <2>3, <2>4, <2>5, SMT
<1>2. IInv => PlacedWithin
  BY <1>1 DEF PlacedWithin
<1> QED
  BY <1>2, Initially, InductiveStep, PTL DEF Spec

(* PreciseLaneIsNear: a lane drawn as a precise bar is misplaced by no     *)
(* more than the uncertainty of any sample taken since the peer's clock    *)
(* stepped and twice the width its confidence stands for (skew.ts:6).      *)
THEOREM Precision == Spec => []PreciseLaneIsNear
<1> DEFINE width == IF Confidence(cached, window) = "good" THEN GoodThreshold ELSE HatchThreshold
<1>1. ASSUME IInv, NEW i \in 1 .. Len(window),
             fresh, ~Hatched(cached, window), window[i].truth = truth
      PROVE  2 * Misplaced(cached) <= window[i].rtt + 4 * width
  <2>1. PICK n \in Nat \ {0} : n = Len(window)
    BY <1>1, WindowInUse
  <2>2. window \in Seq(Measured) /\ \A j \in 1 .. n : Honest(window[j])
    BY <1>1, <2>1, WindowInUse
  <2>3. PICK spread \in Nat, floor \in Nat :
          spread = Spread(window) /\ floor = Floor(cached, window)
    BY <2>1, <2>2, Reach, FloorIsASample
  <2>4. HalfWidth(cached, window) = floor + spread
    BY <2>3 DEF HalfWidth
  <2>5. Confidence(cached, window) = "good" => HalfWidth(cached, window) <= GoodThreshold
    BY Zenon DEF Confidence
  <2>6. ~(floor + spread > HatchThreshold)
    BY <1>1, <2>4 DEF Hatched
  <2>7. floor + spread <= width /\ width \in Nat
    BY <2>3, <2>4, <2>5, <2>6, EstimatorAssumption
  <2>8. 2 * Misplaced(cached) <= window[i].rtt + 4 * spread
    BY <1>1, <2>1, <2>3, NearASample
  <2>9. Misplaced(cached) \in Int /\ window[i].rtt \in Nat
    BY <1>1, <2>1, <2>2, MisplacedByANumber DEF Honest
  <2> HIDE DEF width
  <2>10. PICK m \in Int, r \in Nat, k \in Nat :
          m = Misplaced(cached) /\ r = window[i].rtt /\ k = width
    BY <2>7, <2>9
  <2>11. 2 * m <= r + 4 * spread /\ floor + spread <= k
    BY <2>7, <2>8, <2>10
  <2>12. 2 * m <= r + 4 * k
    BY <2>3, <2>10, <2>11, Widening
  <2> QED
    BY <2>10, <2>12
<1>2. IInv => PreciseLaneIsNear
  BY <1>1 DEF PreciseLaneIsNear
<1> QED
  BY <1>2, Initially, InductiveStep, PTL DEF Spec

-----------------------------------------------------------------------------
(* The round-trip times of a window are numbers, and so is their median.   *)
LEMMA EstimateTyped ==
    ASSUME NEW w, NEW n \in Nat \ {0}, w \in Seq(Measured), Len(w) = n,
           \A i \in 1 .. n : Honest(w[i])
    PROVE  EstimateOf(w) \in Estimate
<1> DEFINE ys == Rtts(w)
<1>1. \A i \in 1 .. n : w[i].rtt \in Nat
  BY DEF Honest
<1>2. Numbers(ys, n)
  <2>1. ys = [i \in 1 .. n |-> w[i].rtt]
    BY DEF Rtts
  <2>2. ys \in [1 .. n -> Int]
    BY <1>1, <2>1
  <2>3. Len(ys) = n
    BY <2>1, <2>2, LenProperties, SMT
  <2> QED
    BY <2>2, <2>3 DEF Numbers
<1> HIDE DEF ys
<1>3. PICK a \in 1 .. n, b \in 1 .. n : Min(Range(ys)) = ys[a] /\ Max(Range(ys)) = ys[b]
  BY <1>2, Extremes
<1>4. PICK lo \in Int, hi \in Int : lo = Min(Range(ys)) /\ hi = Max(Range(ys))
  BY <1>2, <1>3 DEF Numbers
<1>5. \A i \in 1 .. n : lo <= ys[i] /\ ys[i] <= hi
  BY <1>2, <1>4, Extremes
<1>6. Median(ys) \in Int
  BY <1>2, <1>5, MedianWithin
<1>7. EstimateOf(w).offset \in Int
  BY Reach
<1>8. CASE LowVariance(Rtts(w))
  <2>1. EstimateOf(w) = [offset |-> EstimateOf(w).offset, method |-> "median", rttMs |-> Median(ys)]
    BY <1>8 DEF EstimateOf, ys
  <2> QED
    BY <1>6, <1>7, <2>1 DEF Estimate
<1>9. CASE ~LowVariance(Rtts(w))
  <2>1. PICK i \in 1 .. n : Best(w) = w[i]
    BY <1>1, BestIsSample
  <2>2. EstimateOf(w) = [offset |-> EstimateOf(w).offset, method |-> "lowest-rtt", rttMs |-> w[i].rtt]
    BY <1>9, <2>1 DEF EstimateOf
  <2>3. w[i].rtt \in Int
    BY <1>1
  <2> QED
    BY <1>7, <2>2, <2>3 DEF Estimate
<1> QED
  BY <1>8, <1>9

(* One more sample, and one less if there are too many now.                *)
LEMMA WindowSlides ==
    ASSUME TypeOK, NEW s \in Sample
    PROVE  Slid(Append(window, s)) \in Seq(Sample) /\ Len(Slid(Append(window, s))) <= WindowN
<1> HIDE DEF Sample
<1> DEFINE longer == Append(window, s)
<1>1. PICK n \in Nat : n = Len(window) /\ n <= WindowN
  BY LenProperties DEF TypeOK
<1>2. longer \in Seq(Sample) /\ longer # <<>> /\ Len(longer) = n + 1
  BY <1>1, AppendProperties DEF TypeOK
<1> HIDE DEF longer
<1>3. WindowN \in Nat
  BY EstimatorAssumption
<1>4. CASE Len(longer) > WindowN
  <2>1. Tail(longer) \in Seq(Sample) /\ Len(Tail(longer)) = Len(longer) - 1
    BY <1>2, HeadTailProperties
  <2>2. Len(Tail(longer)) <= WindowN
    BY <1>1, <1>2, <1>3, <2>1, SMT
  <2>3. Slid(longer) = Tail(longer)
    BY <1>4 DEF Slid
  <2> QED
    BY <2>1, <2>2, <2>3 DEF longer
<1>5. CASE ~(Len(longer) > WindowN)
  <2>1. Len(longer) <= WindowN
    BY <1>2, <1>3, <1>5, SMT
  <2>2. Slid(longer) = longer
    BY <1>5 DEF Slid
  <2> QED
    BY <1>2, <2>1, <2>2 DEF longer
<1> QED
  BY <1>4, <1>5

(* TypeOK: the window never outgrows `windowN` (offset.ts:111-114),        *)
(* and an estimate is a number by one of the two methods, for any delays   *)
(* and steps of the clocks.                                                *)
THEOREM EstimatorTyped == Spec => []TypeOK
<1>1. Init => TypeOK
  <2> SUFFICES ASSUME Init PROVE TypeOK
    OBVIOUS
  <2>1. window \in Seq(Sample) /\ Len(window) = 0
    <3> HIDE DEF Sample
    <3> QED
      BY EmptySeq DEF Init
  <2>2. Len(window) <= WindowN
    BY <2>1, EstimatorAssumption, SMT
  <2>3. /\ truth \in TrueOffset /\ truths = {truth} /\ cached = None
        /\ age = 0 /\ setBack = 0 /\ fresh = FALSE
    BY DEF Init
  <2>4. truths \subseteq TrueOffset /\ truth \in truths /\ age \in Int /\ setBack \in Nat
    BY <2>3
  <2> HIDE DEF Sample, Estimate
  <2> QED
    BY <2>1, <2>2, <2>3, <2>4 DEF TypeOK
<1>2. ASSUME IInv, TypeOK, [Next]_vars PROVE TypeOK'
  <2>1. CASE Probe
    <3>1. PICK leg \in Leg, processing \in Processing :
            AddSample(Exchange(leg[1], processing, leg[2]))
      BY <2>1 DEF Probe
    <3>2. PICK s : s = Exchange(leg[1], processing, leg[2])
      OBVIOUS
    <3>3. s \in Measured /\ s.truth = truth /\ truth \in TrueOffset
      BY <1>2, <3>2, ExchangeIsHonest DEF IInv
    <3>4. s \in Sample
      BY <3>3 DEF Measured, Sample
    <3>5. /\ window' = Slid(Append(window, s)) /\ fresh' = FALSE
          /\ truth' = truth /\ truths' = truths /\ setBack' = setBack
          /\ cached' = cached /\ age' = age
      BY <3>1, <3>2 DEF AddSample, clocks
    <3>6. window' \in Seq(Sample) /\ Len(window') <= WindowN
      BY <1>2, <3>4, <3>5, WindowSlides
    <3> HIDE DEF Sample, Estimate
    <3> QED
      BY <1>2, <3>5, <3>6 DEF TypeOK
  <2>2. CASE Reestimate \/ Serve
    <3>1. /\ window # <<>> /\ cached' = EstimateOf(window) /\ age' = 0 /\ fresh' = TRUE
          /\ truth' = truth /\ truths' = truths /\ setBack' = setBack /\ window' = window
      BY <2>2 DEF Serve, Reestimate, clocks
    <3>2. window \in Seq(Measured) /\ \A i \in 1 .. Len(window) : Honest(window[i])
      BY <1>2 DEF IInv
    <3>3. PICK n \in Nat \ {0} : n = Len(window)
      <4> HIDE DEF Measured
      <4> QED
        BY <3>1, <3>2, EmptySeq
    <3>4. cached' \in Estimate
      BY <3>1, <3>2, <3>3, EstimateTyped
    <3> HIDE DEF Sample, Estimate
    <3> QED
      BY <1>2, <3>1, <3>4 DEF TypeOK
  <2>3. CASE Tick \/ SetBack \/ PeerSteps \/ UNCHANGED vars
    <3>1. /\ window' = window /\ cached' = cached /\ fresh' = fresh
      BY <2>3 DEF Tick, SetBack, PeerSteps, vars, clocks
    <3>2. truth' \in TrueOffset /\ truths' \subseteq TrueOffset /\ truth' \in truths'
      BY <1>2, <2>3 DEF Tick, SetBack, PeerSteps, vars, clocks, TypeOK
    <3>3. age' \in Int /\ setBack' \in Nat
      BY <1>2, <2>3 DEF Tick, SetBack, PeerSteps, vars, clocks, TypeOK
    <3> HIDE DEF Sample, Estimate
    <3> QED
      BY <1>2, <3>1, <3>2, <3>3 DEF TypeOK
  <2> QED
    BY <1>2, <2>1, <2>2, <2>3 DEF Next
<1> QED
  BY <1>1, <1>2, Initially, InductiveStep, PTL DEF Spec
=============================================================================

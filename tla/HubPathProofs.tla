---------------------------- MODULE HubPathProofs -----------------------------
(***************************************************************************)
(* Proofs about BatchFlusher and HubPath, for every cap, number of rows    *)
(* and nesting of onFlush. The flusher hands its rows over in the order of *)
(* their numbers, so a batch is an interval of them; the open calls, the   *)
(* delivered and the failed batches partition what was handed over, and    *)
(* each counter is the size of its part.                                   *)
(*                                                                         *)
(* Every step of the hub path is a step of the flusher or leaves it alone, *)
(* so what is proved of the flusher holds there. Beyond that: the rows on  *)
(* the wire, the rows that failed and those still to come are apart, and   *)
(* with the rows of failed batches they are all that was handed over.      *)
(***************************************************************************)
EXTENDS HubPath, FiniteSetTheorems, SequenceTheorems, TLAPS

(* Rows are handed over, and staged, in the order of the adds.             *)
Numbered ==
    /\ \A i \in 1 .. Len(handed) : handed[i] = i
    /\ \A i \in 1 .. Len(batch) : batch[i] = Len(handed) + i

(* A batch is a nonempty interval of what was handed over.                 *)
Whole(b, n) ==
    /\ b \in Seq(Number) /\ Len(b) \in Nat \ {0}
    /\ \E k \in Nat : k + Len(b) <= n /\ \A i \in 1 .. Len(b) : b[i] = k + i

Intervals ==
    /\ \A d \in 1 .. Len(calls) : Whole(calls[d], Len(handed))
    /\ \A b \in delivered \union failed : Whole(b, Len(handed))

Apart ==
    /\ \A d, e \in 1 .. Len(calls) : d # e => Rows(calls[d]) \intersect Rows(calls[e]) = {}
    /\ \A d \in 1 .. Len(calls) :
         Rows(calls[d]) \intersect (InBatches(delivered) \union InBatches(failed)) = {}
    /\ InBatches(delivered) \intersect InBatches(failed) = {}

Covered == 1 .. Len(handed) = InHandler \union InBatches(delivered) \union InBatches(failed)

Counted ==
    /\ IsFiniteSet(delivered) /\ IsFiniteSet(failed) /\ IsFiniteSet(InBatches(failed))
    /\ droppedRows = Cardinality(InBatches(failed))
    /\ droppedBatches = Cardinality(failed)
    /\ flushCount = Cardinality(delivered) + Cardinality(failed) + Len(calls)

IInv == TypeOK /\ Numbered /\ StagingBounded /\ Intervals /\ Apart /\ Covered /\ Counted

-----------------------------------------------------------------------------
LEMMA Lengths ==
    ASSUME TypeOK
    PROVE  /\ Len(batch) \in Nat /\ Len(handed) \in Nat /\ Len(calls) \in Nat
           /\ \A d \in 1 .. Len(calls) : calls[d] \in Seq(Number)
<1>1. Len(batch) \in Nat /\ Len(handed) \in Nat /\ Len(calls) \in Nat
  BY LenProperties DEF TypeOK
<1>2. \A d \in 1 .. Len(calls) : calls[d] \in Seq(Number)
  <2> DEFINE S == Seq(Number)
  <2>1. calls \in Seq(S)
    BY DEF TypeOK
  <2> HIDE DEF S
  <2>2. \A d \in 1 .. Len(calls) : calls[d] \in S
    BY <2>1, ElementOfSeq
  <2> QED
    BY <2>2 DEF S
<1> QED
  BY <1>1, <1>2

LEMMA InBatchesUnion ==
    \A S, b : InBatches(S \union {b}) = InBatches(S) \union Rows(b)
BY DEF InBatches

LEMMA WholeGrows ==
    \A b, n, m : n \in Nat /\ m \in Nat /\ n <= m /\ Whole(b, n) => Whole(b, m)
<1> SUFFICES ASSUME NEW b, NEW n \in Nat, NEW m \in Nat, n <= m, Whole(b, n)
             PROVE  Whole(b, m)
  OBVIOUS
<1>1. PICK k \in Nat : k + Len(b) <= n /\ \A i \in 1 .. Len(b) : b[i] = k + i
  BY DEF Whole
<1>2. Len(b) \in Nat /\ b \in Seq(Number) /\ Len(b) \in Nat \ {0}
  BY DEF Whole
<1>3. k + Len(b) <= m
  BY <1>1, <1>2, SMT
<1> QED
  BY <1>1, <1>2, <1>3 DEF Whole

(* The rows of a batch are as many as it is long.                          *)
LEMMA WholeRows ==
    ASSUME NEW b, NEW n \in Nat, Whole(b, n)
    PROVE  /\ Rows(b) \subseteq 1 .. n
           /\ Rows(b) # {}
           /\ IsFiniteSet(Rows(b)) /\ Cardinality(Rows(b)) = Len(b)
           /\ Len(b) \in Nat
<1>1. PICK k \in Nat : k + Len(b) <= n /\ \A i \in 1 .. Len(b) : b[i] = k + i
  BY DEF Whole
<1>2. Len(b) \in Nat \ {0}
  BY DEF Whole
<1> DEFINE s == Len(b)
<1>3. \A x \in Rows(b) : \E i \in 1 .. s : x = k + i
  BY <1>1 DEF Rows
<1>4. \A i \in 1 .. s : k + i \in Rows(b)
  BY <1>1 DEF Rows
<1>5. s \in Nat \ {0} /\ k + s <= n
  BY <1>1, <1>2
<1> HIDE DEF s
<1>6. PICK first, last \in Int : first = k + 1 /\ last = k + s
  BY <1>5, SMT
<1>7. /\ \A x \in first .. last : x - k \in 1 .. s /\ x = k + (x - k)
      /\ \A i \in 1 .. s : k + i \in first .. last /\ k + i \in 1 .. n
      /\ first \in first .. last
      /\ (IF first > last THEN 0 ELSE last - first + 1) = s
  BY <1>5, <1>6, SMT
<1>8. Rows(b) = first .. last /\ Rows(b) \subseteq 1 .. n
  <2>1. ASSUME NEW x \in Rows(b) PROVE x \in first .. last /\ x \in 1 .. n
    <3>1. PICK i \in 1 .. s : x = k + i
      BY <1>3
    <3> QED
      BY <1>7, <3>1
  <2>2. ASSUME NEW x \in first .. last PROVE x \in Rows(b)
    <3>1. PICK i \in 1 .. s : x = k + i
      BY <1>7
    <3> QED
      BY <1>4, <3>1
  <2> QED
    BY <2>1, <2>2
<1>9. /\ IsFiniteSet(first .. last)
      /\ Cardinality(first .. last) = IF first > last THEN 0 ELSE last - first + 1
  BY FS_Interval
<1> QED
  BY <1>5, <1>7, <1>8, <1>9 DEF s

-----------------------------------------------------------------------------
LEMMA Initially == Init => IInv
<1> SUFFICES ASSUME Init PROVE IInv
  OBVIOUS
<1>1. Len(handed) = 0 /\ Len(batch) = 0 /\ Len(calls) = 0
  BY EmptySeq DEF Init
<1>2. 1 .. 0 = {}
  BY SMT
<1>3. TypeOK
  <2>1. added <= MaxAdded
    BY <1>1, FlusherAssumption, SMT DEF added
  <2>2. batch \in Seq(Number) /\ handed \in Seq(Number) /\ calls \in Seq(Seq(Number))
    BY EmptySeq DEF Init
  <2> QED
    BY <2>1, <2>2 DEF Init, TypeOK
<1>4. delivered = {} /\ failed = {}
  BY DEF Init
<1>5. InHandler = {} /\ InBatches(delivered) = {} /\ InBatches(failed) = {}
  BY <1>1, <1>2, <1>4 DEF InHandler, InBatches
<1>6. Numbered /\ Intervals /\ Apart /\ Covered
  BY <1>1, <1>2, <1>4, <1>5 DEF Numbered, Intervals, Apart, Covered
<1>7. StagingBounded
  BY <1>1, FlusherAssumption, SMT DEF StagingBounded
<1>8. Counted
  BY <1>1, <1>4, <1>5, FS_EmptySet DEF Counted, Init
<1> QED
  BY <1>3, <1>6, <1>7, <1>8 DEF IInv

(* Steps that move no row: the timer is started, or nothing is staged.     *)
LEMMA RowsStay ==
    ASSUME IInv, UNCHANGED <<batch, calls, handed, counters, outcomes>>,
           handle' \in BOOLEAN, stops' \in Nat
    PROVE  IInv'
<1>1. /\ batch' = batch /\ calls' = calls /\ handed' = handed
      /\ flushCount' = flushCount /\ droppedBatches' = droppedBatches
      /\ droppedRows' = droppedRows /\ delivered' = delivered /\ failed' = failed
  BY DEF counters, outcomes
<1>2. TypeOK'
  BY <1>1 DEF IInv, TypeOK, added
<1>3. Numbered'
  BY <1>1 DEF IInv, Numbered
<1>4. StagingBounded'
  BY <1>1 DEF IInv, StagingBounded
<1>5. Intervals'
  BY <1>1 DEF IInv, Intervals
<1>6. /\ InHandler' = InHandler
      /\ InBatches(delivered)' = InBatches(delivered) /\ InBatches(failed)' = InBatches(failed)
  BY <1>1 DEF InHandler
<1>7. Apart' /\ Covered' /\ Counted'
  BY <1>1, <1>6 DEF IInv, Apart, Covered, Counted
<1> QED
  BY <1>2, <1>3, <1>4, <1>5, <1>7 DEF IInv

(* flushNow() hands over what is staged.                                   *)
LEMMA HandOverStep ==
    ASSUME IInv, NEW staged \in Seq(Number), staged # <<>>,
           \A i \in 1 .. Len(staged) : staged[i] = Len(handed) + i,
           Len(handed) + Len(staged) <= MaxAdded,
           HandOver(staged), UNCHANGED <<droppedBatches, droppedRows, outcomes>>,
           handle' \in BOOLEAN, stops' \in Nat
    PROVE  IInv'
<1> DEFINE n == Len(handed)
           s == Len(staged)
           depth == Len(calls)
<1>1. /\ batch' = <<>> /\ calls' = Append(calls, staged) /\ handed' = handed \o staged
      /\ flushCount' = flushCount + 1
      /\ droppedBatches' = droppedBatches /\ droppedRows' = droppedRows
      /\ delivered' = delivered /\ failed' = failed
  BY DEF HandOver, outcomes
<1>2. TypeOK
  BY DEF IInv
<1>3. n \in Nat /\ s \in Nat \ {0} /\ depth \in Nat /\ n + s <= MaxAdded /\ MaxAdded \in Nat
  BY <1>2, Lengths, EmptySeq, FlusherAssumption
<1>4. /\ handed' \in Seq(Number) /\ Len(handed') = n + s
      /\ \A i \in 1 .. n + s : handed'[i] = IF i <= n THEN handed[i] ELSE staged[i - n]
  BY <1>1, <1>2, ConcatProperties DEF TypeOK
<1>5. /\ calls' \in Seq(Seq(Number)) /\ Len(calls') = depth + 1
      /\ \A d \in 1 .. depth : calls'[d] = calls[d]
      /\ calls'[depth + 1] = staged
  <2> DEFINE S == Seq(Number)
  <2>1. calls \in Seq(S) /\ staged \in S
    BY <1>2 DEF TypeOK
  <2> HIDE DEF S
  <2>2. /\ calls' \in Seq(S) /\ Len(calls') = depth + 1
        /\ \A d \in 1 .. depth : calls'[d] = calls[d]
        /\ calls'[depth + 1] = staged
    BY <1>1, <2>1, AppendProperties
  <2> QED
    BY <2>2 DEF S
<1>6. Len(batch') = 0 /\ batch' \in Seq(Number)
  BY <1>1, EmptySeq
<1> HIDE DEF n, s, depth
<1>7. /\ 1 .. depth + 1 = (1 .. depth) \union {depth + 1}
      /\ 1 .. n + s = (1 .. n) \union (n + 1 .. n + s)
      /\ (1 .. n) \intersect (n + 1 .. n + s) = {}
      /\ 1 .. 0 = {}
  BY <1>3, SMT
<1>8. Whole(staged, n + s)
  <2>1. n + Len(staged) <= n + s /\ Len(staged) \in Nat \ {0} /\ n \in Nat
    BY <1>3, SMT DEF s
  <2>2. \A i \in 1 .. Len(staged) : staged[i] = n + i
    BY DEF n
  <2> QED
    BY <2>1, <2>2 DEF Whole
<1>9. Rows(staged) = n + 1 .. n + s
  <2>1. \A x \in Rows(staged) : \E i \in 1 .. s : x = n + i
    BY DEF Rows, n, s
  <2>2. \A i \in 1 .. s : n + i \in Rows(staged)
    BY DEF Rows, n, s
  <2>3. \A x \in n + 1 .. n + s : x - n \in 1 .. s /\ x = n + (x - n)
    BY <1>3, SMT
  <2>4. \A i \in 1 .. s : n + i \in n + 1 .. n + s
    BY <1>3, SMT
  <2> QED
    BY <2>1, <2>2, <2>3, <2>4
<1>10. TypeOK'
  <2>1. (flushCount + 1 \in Nat) /\ (n + s + 0 <= MaxAdded)
    BY <1>2, <1>3, SMT DEF TypeOK
  <2>2. (added <= MaxAdded)'
    BY <1>4, <1>6, <2>1 DEF added
  <2> QED
    BY <1>1, <1>2, <1>4, <1>5, <1>6, <2>1, <2>2 DEF TypeOK
<1>11. Numbered'
  <2>1. \A i \in 1 .. n + s : handed'[i] = i
    <3> SUFFICES ASSUME NEW i \in 1 .. n + s PROVE handed'[i] = i
      OBVIOUS
    <3>1. CASE i <= n
      <4>1. i \in 1 .. n
        BY <1>3, <3>1, SMT
      <4> QED
        BY <1>4, <3>1, <4>1 DEF IInv, Numbered, n
    <3>2. CASE ~(i <= n)
      <4>1. i - n \in 1 .. s /\ n + (i - n) = i
        BY <1>3, <3>2, SMT
      <4> QED
        BY <1>4, <3>2, <4>1 DEF n, s
    <3> QED
      BY <3>1, <3>2
  <2> QED
    BY <1>4, <1>6, <1>7, <2>1 DEF Numbered
<1>12. StagingBounded'
  BY <1>6, FlusherAssumption, SMT DEF StagingBounded
<1>13. Intervals'
  <2>1. \A b : Whole(b, n) => Whole(b, n + s)
    <3>1. n + s \in Nat /\ n <= n + s
      BY <1>3, SMT
    <3> QED
      BY <1>3, <3>1, WholeGrows
  <2>2. \A d \in 1 .. depth : Whole(calls[d], n)
    BY DEF IInv, Intervals, n, depth
  <2>3. \A b \in delivered \union failed : Whole(b, n)
    BY DEF IInv, Intervals, n
  <2> QED
    BY <1>1, <1>4, <1>5, <1>7, <1>8, <2>1, <2>2, <2>3 DEF Intervals
<1>14. /\ \A d \in 1 .. depth : Rows(calls[d]) \subseteq 1 .. n
       /\ InBatches(delivered) \union InBatches(failed) \subseteq 1 .. n
  <2>1. \A d \in 1 .. depth : Rows(calls[d]) \subseteq InHandler
    BY DEF InHandler, depth
  <2> QED
    BY <2>1 DEF IInv, Covered, n
<1>15. InHandler' = InHandler \union Rows(staged)
  <2>1. \A x : x \in InHandler' <=> \E d \in 1 .. depth + 1 : x \in Rows(calls'[d])
    BY <1>5 DEF InHandler
  <2>2. \A x : x \in InHandler <=> \E d \in 1 .. depth : x \in Rows(calls[d])
    BY DEF InHandler, depth
  <2>3. Rows(calls'[depth + 1]) = Rows(staged)
    BY <1>5
  <2>4. \A d \in 1 .. depth : Rows(calls'[d]) = Rows(calls[d])
    BY <1>5
  <2>5. \A x : x \in InHandler' <=> x \in InHandler \/ x \in Rows(staged)
    BY <1>7, <2>1, <2>2, <2>3, <2>4
  <2> QED
    BY <2>5
<1>16. /\ InBatches(delivered)' = InBatches(delivered)
       /\ InBatches(failed)' = InBatches(failed)
  BY <1>1
<1>17. Apart'
  <2>1. \A d \in 1 .. depth : Rows(calls[d]) \intersect Rows(staged) = {}
    BY <1>7, <1>9, <1>14
  <2>2. Rows(staged) \intersect (InBatches(delivered) \union InBatches(failed)) = {}
    BY <1>7, <1>9, <1>14
  <2>3. \A d, e \in 1 .. depth : d # e => Rows(calls[d]) \intersect Rows(calls[e]) = {}
    BY DEF IInv, Apart, depth
  <2>4. \A d \in 1 .. depth :
          Rows(calls[d]) \intersect (InBatches(delivered) \union InBatches(failed)) = {}
    BY DEF IInv, Apart, depth
  <2>5. InBatches(delivered) \intersect InBatches(failed) = {}
    BY DEF IInv, Apart
  <2>6. \A d, e \in 1 .. depth + 1 : d # e => Rows(calls'[d]) \intersect Rows(calls'[e]) = {}
    BY <1>5, <1>7, <2>1, <2>3
  <2>7. \A d \in 1 .. depth + 1 :
          Rows(calls'[d]) \intersect (InBatches(delivered) \union InBatches(failed)) = {}
    BY <1>5, <1>7, <2>2, <2>4
  <2> QED
    BY <1>5, <1>16, <2>5, <2>6, <2>7 DEF Apart
<1>18. Covered'
  <2>1. 1 .. n = InHandler \union InBatches(delivered) \union InBatches(failed)
    BY DEF IInv, Covered, n
  <2> QED
    BY <1>4, <1>7, <1>9, <1>15, <1>16, <2>1 DEF Covered
<1>19. Counted'
  <2>1. /\ IsFiniteSet(delivered) /\ IsFiniteSet(failed) /\ IsFiniteSet(InBatches(failed))
        /\ droppedRows = Cardinality(InBatches(failed))
        /\ droppedBatches = Cardinality(failed)
        /\ flushCount = Cardinality(delivered) + Cardinality(failed) + depth
    BY DEF IInv, Counted, depth
  <2>2. Cardinality(delivered) \in Nat /\ Cardinality(failed) \in Nat
    BY <2>1, FS_CardinalityType
  <2>3. flushCount + 1 = Cardinality(delivered) + Cardinality(failed) + (depth + 1)
    BY <1>3, <2>1, <2>2, SMT
  <2> QED
    BY <1>1, <1>5, <1>16, <2>1, <2>3 DEF Counted
<1> QED
  BY <1>10, <1>11, <1>12, <1>13, <1>17, <1>18, <1>19 DEF IInv

(* flushNow(), with the row of an add() perhaps.                           *)
LEMMA FlushStep ==
    ASSUME IInv, NEW staged \in Seq(Number),
           \A i \in 1 .. Len(staged) : staged[i] = Len(handed) + i,
           Len(handed) + Len(staged) <= MaxAdded,
           FlushNow(staged), handle' \in BOOLEAN, stops' \in Nat
    PROVE  IInv'
<1>1. CASE staged = <<>>
  BY <1>1, RowsStay DEF FlushNow, counters
<1>2. CASE staged # <<>>
  BY <1>2, HandOverStep DEF FlushNow
<1> QED
  BY <1>1, <1>2

LEMMA StagedBatch ==
    ASSUME IInv
    PROVE  /\ batch \in Seq(Number)
           /\ \A i \in 1 .. Len(batch) : batch[i] = Len(handed) + i
           /\ Len(handed) + Len(batch) <= MaxAdded
BY DEF IInv, TypeOK, Numbered, added

LEMMA AddStep == ASSUME IInv, Add PROVE IInv'
<1> DEFINE staged == Append(batch, added + 1)
           n == Len(handed)
           s == Len(batch)
<1>1. /\ handle' = handle /\ stops' = stops
      /\ added < MaxAdded
      /\ IF Full(staged)
           THEN FlushNow(staged)
           ELSE /\ batch' = staged
                /\ UNCHANGED <<calls, handed, counters, outcomes>>
  BY DEF Add
<1>2. handle' \in BOOLEAN /\ stops' \in Nat
  BY <1>1 DEF IInv, TypeOK
<1>3. n \in Nat /\ s \in Nat /\ MaxAdded \in Nat /\ added = n + s
  BY Lengths, FlusherAssumption DEF IInv, added
<1>4. added + 1 \in Number /\ n + (s + 1) <= MaxAdded /\ n + (s + 1) = added + 1
  BY <1>1, <1>3, SMT DEF Number
<1>5. /\ staged \in Seq(Number) /\ Len(staged) = s + 1
      /\ \A i \in 1 .. s : staged[i] = batch[i]
      /\ staged[s + 1] = added + 1
  BY <1>4, StagedBatch, AppendProperties
<1>6. \A i \in 1 .. Len(staged) : staged[i] = n + i
  <2>1. \A i \in 1 .. s + 1 : i \in 1 .. s \/ i = s + 1
    BY <1>3, SMT
  <2> QED
    BY <1>4, <1>5, <2>1, StagedBatch
<1> HIDE DEF staged
<1>7. CASE Full(staged)
  BY <1>1, <1>2, <1>4, <1>5, <1>6, <1>7, FlushStep
<1>8. CASE ~Full(staged)
  <2>1. /\ batch' = staged /\ calls' = calls /\ handed' = handed
        /\ flushCount' = flushCount /\ droppedBatches' = droppedBatches
        /\ droppedRows' = droppedRows /\ delivered' = delivered /\ failed' = failed
    BY <1>1, <1>8 DEF counters, outcomes
  <2>2. TypeOK'
    <3>1. (added <= MaxAdded)'
      BY <1>4, <1>5, <2>1 DEF added
    <3> QED
      BY <1>2, <1>5, <2>1, <3>1 DEF IInv, TypeOK
  <2>3. Numbered'
    BY <1>6, <2>1 DEF IInv, Numbered
  <2>4. StagingBounded'
    BY <1>3, <1>5, <1>8, <2>1, FlusherAssumption, SMT DEF StagingBounded, Full
  <2>5. Intervals'
    BY <2>1 DEF IInv, Intervals
  <2>6. /\ InHandler' = InHandler
        /\ InBatches(delivered)' = InBatches(delivered)
        /\ InBatches(failed)' = InBatches(failed)
    BY <2>1 DEF InHandler
  <2>7. Apart' /\ Covered' /\ Counted'
    BY <2>1, <2>6 DEF IInv, Apart, Covered, Counted
  <2> QED
    BY <2>2, <2>3, <2>4, <2>5, <2>7 DEF IInv
<1> QED
  BY <1>7, <1>8

-----------------------------------------------------------------------------
(* The batch of the innermost open call.                                   *)
Top == calls[Len(calls)]

(* onFlush ends: its batch goes from the open calls to the delivered or to *)
(* the failed ones.                                                        *)
LEMMA TopCall ==
    ASSUME IInv, CallEnds
    PROVE  /\ Len(calls) \in Nat \ {0}
           /\ calls' \in Seq(Seq(Number)) /\ Len(calls') = Len(calls) - 1
           /\ \A d \in 1 .. Len(calls) - 1 : calls'[d] = calls[d]
           /\ Whole(Top, Len(handed)) /\ Top \in Seq(Number)
           /\ InHandler = InHandler' \union Rows(Top)
           /\ Rows(Top) \intersect (InBatches(delivered) \union InBatches(failed)) = {}
           /\ \A d \in 1 .. Len(calls) - 1 : Rows(calls[d]) \intersect Rows(Top) = {}
<1> DEFINE depth == Len(calls)
<1>1. TypeOK /\ calls # <<>> /\ calls' = SubSeq(calls, 1, depth - 1)
  BY DEF IInv, CallEnds
<1>2. depth \in Nat \ {0}
  <2> DEFINE S == Seq(Number)
  <2>1. calls \in Seq(S)
    BY <1>1 DEF TypeOK
  <2> HIDE DEF S
  <2> QED
    BY <1>1, <2>1, EmptySeq
<1>3. \A d \in 1 .. depth : calls[d] \in Seq(Number)
  BY <1>1, Lengths
<1> HIDE DEF depth
<1>4. /\ 1 .. depth = (1 .. depth - 1) \union {depth}
      /\ \A d \in 1 .. depth - 1 : d \in 1 .. depth /\ d # depth
      /\ depth \in 1 .. depth /\ depth - 1 \in Int /\ 1 \in Int
  BY <1>2, SMT
<1>5. /\ calls' \in Seq(Seq(Number)) /\ Len(calls') = depth - 1
      /\ \A d \in 1 .. depth - 1 : calls'[d] = calls[d]
  <2> DEFINE S == Seq(Number)
  <2>1. \A d \in 1 .. depth - 1 : calls[d] \in S
    BY <1>3, <1>4
  <2> HIDE DEF S
  <2>2. /\ SubSeq(calls, 1, depth - 1) \in Seq(S)
        /\ Len(SubSeq(calls, 1, depth - 1)) = (IF 1 <= depth - 1 THEN depth - 1 - 1 + 1 ELSE 0)
        /\ \A d \in 1 .. depth - 1 - 1 + 1 : SubSeq(calls, 1, depth - 1)[d] = calls[1 + d - 1]
    BY <1>4, <2>1, SubSeqProperties
  <2>3. /\ depth - 1 - 1 + 1 = depth - 1
        /\ (IF 1 <= depth - 1 THEN depth - 1 - 1 + 1 ELSE 0) = depth - 1
        /\ \A d \in 1 .. depth - 1 : 1 + d - 1 = d
    BY <1>2, SMT
  <2> QED
    BY <1>1, <2>2, <2>3 DEF S
<1>6. Whole(Top, Len(handed)) /\ Top \in Seq(Number)
  BY <1>3, <1>4 DEF IInv, Intervals, depth, Top
<1>7. InHandler = InHandler' \union Rows(Top)
  <2>1. InHandler = UNION {Rows(calls[d]) : d \in 1 .. depth}
    BY DEF InHandler, depth
  <2>2. InHandler' = UNION {Rows(calls[d]) : d \in 1 .. depth - 1}
    BY <1>5 DEF InHandler
  <2> QED
    BY <1>4, <2>1, <2>2 DEF Top, depth
<1>8. /\ Rows(Top) \intersect (InBatches(delivered) \union InBatches(failed)) = {}
      /\ \A d \in 1 .. depth - 1 : Rows(calls[d]) \intersect Rows(Top) = {}
  BY <1>4 DEF IInv, Apart, depth, Top
<1> QED
  BY <1>2, <1>5, <1>6, <1>7, <1>8 DEF depth

(* onFlush returns or throws.                                              *)
LEMMA CallEndsStep ==
    ASSUME IInv, CallEnds, Return \/ Throw
    PROVE  IInv'
<1> DEFINE n == Len(handed)
           depth == Len(calls)
           del == InBatches(delivered)
           lost == InBatches(failed)
<1>1. /\ batch' = batch /\ handle' = handle /\ handed' = handed /\ stops' = stops
  BY DEF CallEnds
<1>2. /\ n \in Nat /\ depth \in Nat \ {0} /\ depth - 1 \in Nat
      /\ \A d \in 1 .. depth - 1 : d \in 1 .. depth
  <2>1. n \in Nat
    BY Lengths DEF IInv
  <2>2. depth \in Nat \ {0}
    BY TopCall
  <2> HIDE DEF depth
  <2> QED
    BY <2>1, <2>2, SMT
<1>3. /\ calls' \in Seq(Seq(Number)) /\ Len(calls') = depth - 1
      /\ \A d \in 1 .. depth - 1 : calls'[d] = calls[d]
  BY TopCall
<1>4. /\ Whole(Top, n) /\ Top \in Seq(Number)
      /\ InHandler = InHandler' \union Rows(Top)
      /\ Rows(Top) \intersect (del \union lost) = {}
      /\ \A d \in 1 .. depth - 1 : Rows(calls[d]) \intersect Rows(Top) = {}
  BY TopCall
<1>5. /\ Rows(Top) # {} /\ IsFiniteSet(Rows(Top))
      /\ Cardinality(Rows(Top)) = Len(Top) /\ Len(Top) \in Nat
  BY <1>2, <1>4, WholeRows
<1>6. Top \notin delivered /\ Top \notin failed
  BY <1>4, <1>5 DEF InBatches
<1>7. Numbered' /\ StagingBounded'
  BY <1>1 DEF IInv, Numbered, StagingBounded
<1>8. (added <= MaxAdded)'
  BY <1>1 DEF IInv, TypeOK, added
<1>9. /\ \A d \in 1 .. depth - 1 : Whole(calls'[d], n)
      /\ \A b \in delivered \union failed : Whole(b, n)
  BY <1>2, <1>3 DEF IInv, Intervals
<1>10. /\ \A d, e \in 1 .. depth - 1 : d # e => Rows(calls'[d]) \intersect Rows(calls'[e]) = {}
       /\ \A d \in 1 .. depth - 1 :
            Rows(calls'[d]) \intersect (del \union lost \union Rows(Top)) = {}
       /\ del \intersect lost = {}
  <2>1. \A d, e \in 1 .. depth : d # e => Rows(calls[d]) \intersect Rows(calls[e]) = {}
    BY DEF IInv, Apart
  <2>2. \A d \in 1 .. depth : Rows(calls[d]) \intersect (del \union lost) = {}
    BY DEF IInv, Apart
  <2>3. del \intersect lost = {}
    BY DEF IInv, Apart
  <2> QED
    BY <1>2, <1>3, <1>4, <2>1, <2>2, <2>3
<1>11. 1 .. n = InHandler' \union del \union lost \union Rows(Top)
  BY <1>4 DEF IInv, Covered
<1>12. /\ IsFiniteSet(delivered) /\ IsFiniteSet(failed) /\ IsFiniteSet(lost)
       /\ droppedRows = Cardinality(lost)
       /\ droppedBatches = Cardinality(failed)
       /\ flushCount = Cardinality(delivered) + Cardinality(failed) + depth
       /\ Cardinality(delivered) \in Nat /\ Cardinality(failed) \in Nat
       /\ Cardinality(lost) \in Nat
  BY FS_CardinalityType DEF IInv, Counted
<1>13. /\ flushCount \in Nat /\ droppedBatches \in Nat /\ droppedRows \in Nat
       /\ batch \in Seq(Number) /\ handed \in Seq(Number) /\ handle \in BOOLEAN /\ stops \in Nat
       /\ delivered \in SUBSET Seq(Number) /\ failed \in SUBSET Seq(Number)
  BY DEF IInv, TypeOK
<1> HIDE DEF del, lost
<1>14. CASE Return
  <2>1. /\ delivered' = delivered \union {Top} /\ failed' = failed
        /\ flushCount' = flushCount /\ droppedBatches' = droppedBatches
        /\ droppedRows' = droppedRows
    BY <1>14 DEF Return, Top, counters
  <2>2. InBatches(delivered)' = del \union Rows(Top) /\ InBatches(failed)' = lost
    BY <2>1, InBatchesUnion DEF del, lost
  <2>3. TypeOK'
    BY <1>1, <1>3, <1>4, <1>8, <1>13, <2>1 DEF TypeOK
  <2>4. Intervals'
    BY <1>1, <1>3, <1>4, <1>9, <2>1 DEF Intervals
  <2>5. Apart'
    BY <1>3, <1>4, <1>10, <2>2 DEF Apart
  <2>6. Covered'
    BY <1>1, <1>11, <2>2 DEF Covered
  <2>7. Counted'
    <3>1. IsFiniteSet(delivered') /\ Cardinality(delivered') = Cardinality(delivered) + 1
      BY <1>6, <1>12, <2>1, FS_AddElement
    <3>2. flushCount = (Cardinality(delivered) + 1) + Cardinality(failed) + (depth - 1)
      BY <1>2, <1>12, SMT
    <3> QED
      BY <1>3, <1>12, <2>1, <2>2, <3>1, <3>2 DEF Counted
  <2> QED
    BY <1>7, <2>3, <2>4, <2>5, <2>6, <2>7 DEF IInv
<1>15. CASE Throw
  <2>1. /\ failed' = failed \union {Top} /\ delivered' = delivered
        /\ flushCount' = flushCount /\ droppedBatches' = droppedBatches + 1
        /\ droppedRows' = droppedRows + Len(Top)
    BY <1>15 DEF Throw, Top
  <2>2. InBatches(failed)' = lost \union Rows(Top) /\ InBatches(delivered)' = del
    BY <2>1, InBatchesUnion DEF del, lost
  <2>3. TypeOK'
    <3>1. droppedBatches' \in Nat /\ droppedRows' \in Nat
      BY <1>5, <1>13, <2>1, SMT
    <3> QED
      BY <1>1, <1>3, <1>4, <1>8, <1>13, <2>1, <3>1 DEF TypeOK
  <2>4. Intervals'
    BY <1>1, <1>3, <1>4, <1>9, <2>1 DEF Intervals
  <2>5. Apart'
    BY <1>3, <1>4, <1>10, <2>2 DEF Apart
  <2>6. Covered'
    BY <1>1, <1>11, <2>2 DEF Covered
  <2>7. Counted'
    <3>1. IsFiniteSet(failed') /\ Cardinality(failed') = Cardinality(failed) + 1
      BY <1>6, <1>12, <2>1, FS_AddElement
    <3>2. flushCount = Cardinality(delivered) + (Cardinality(failed) + 1) + (depth - 1)
      BY <1>2, <1>12, SMT
    <3>3. /\ IsFiniteSet(lost \union Rows(Top))
          /\ Cardinality(lost \union Rows(Top))
               = Cardinality(lost) + Cardinality(Rows(Top)) - Cardinality(lost \intersect Rows(Top))
      BY <1>5, <1>12, FS_Union
    <3>4. lost \intersect Rows(Top) = {} /\ Cardinality(lost \intersect Rows(Top)) = 0
      BY <1>4, FS_EmptySet
    <3>5. Cardinality(lost \union Rows(Top)) = Cardinality(lost) + Len(Top)
      BY <1>5, <1>12, <3>3, <3>4, SMT
    <3> QED
      BY <1>3, <1>12, <2>1, <2>2, <3>1, <3>2, <3>3, <3>5 DEF Counted
  <2> QED
    BY <1>7, <2>3, <2>4, <2>5, <2>6, <2>7 DEF IInv
<1> QED
  BY <1>14, <1>15

-----------------------------------------------------------------------------
LEMMA InductiveStep == IInv /\ [Next]_vars => IInv'
<1> SUFFICES ASSUME IInv, [Next]_vars PROVE IInv'
  OBVIOUS
<1> USE DEF counters, outcomes
<1>1. handle \in BOOLEAN /\ stops \in Nat
  BY DEF IInv, TypeOK
<1>2. CASE Add
  BY <1>2, AddStep
<1>3. CASE Manual
  BY <1>1, <1>3, StagedBatch, FlushStep DEF Manual
<1>4. CASE Tick
  BY <1>1, <1>4, StagedBatch, FlushStep DEF Tick
<1>5. CASE Start
  BY <1>1, <1>5, RowsStay DEF Start
<1>6. CASE Stop
  <2>1. stops' = stops + 1 /\ handle' = FALSE
    BY <1>6 DEF Stop
  <2>2. stops + 1 \in Nat
    BY <1>1, SMT
  <2> QED
    BY <1>6, <2>1, <2>2, StagedBatch, FlushStep DEF Stop
<1>7. CASE OnFlushEnds
  BY <1>7, CallEndsStep DEF OnFlushEnds
<1>8. CASE UNCHANGED vars
  BY <1>1, <1>8, RowsStay DEF vars
<1> QED
  BY <1>2, <1>3, <1>4, <1>5, <1>6, <1>7, <1>8 DEF Next

LEMMA Invariance == Spec => []IInv
BY Initially, InductiveStep, PTL DEF Spec

LEMMA NumbersInOrder == IInv => HandedOnceInOrder
<1> SUFFICES ASSUME IInv PROVE HandedOnceInOrder
  OBVIOUS
<1> DEFINE n == Len(handed)
           s == Len(batch)
<1>1. n \in Nat /\ s \in Nat /\ added = n + s
  BY Lengths DEF IInv, added
<1>2. \A i \in 1 .. n + s : (handed \o batch)[i] = IF i <= n THEN handed[i] ELSE batch[i - n]
  BY ConcatProperties DEF IInv, TypeOK
<1>3. \A i \in 1 .. n : handed[i] = i
  BY DEF IInv, Numbered
<1>4. \A i \in 1 .. s : batch[i] = n + i
  BY DEF IInv, Numbered
<1> HIDE DEF n, s
<1>5. ASSUME NEW i \in 1 .. n + s PROVE (handed \o batch)[i] = i
  <2>1. CASE i <= n
    <3>1. i \in 1 .. n
      BY <1>1, <2>1, SMT
    <3> QED
      BY <1>2, <1>3, <2>1, <3>1
  <2>2. CASE ~(i <= n)
    <3>1. i - n \in 1 .. s /\ n + (i - n) = i
      BY <1>1, <2>2, SMT
    <3> QED
      BY <1>2, <1>4, <2>2, <3>1
  <2> QED
    BY <2>1, <2>2
<1> QED
  BY <1>1, <1>5 DEF HandedOnceInOrder

LEMMA CountersTell == IInv => NoSilentLoss
<1> SUFFICES ASSUME IInv PROVE NoSilentLoss
  OBVIOUS
<1>1. InHandler \intersect (InBatches(delivered) \union InBatches(failed)) = {}
  BY DEF IInv, Apart, InHandler
<1> QED
  BY <1>1 DEF IInv, Apart, Covered, Counted, NoSilentLoss

(* HandedOnceInOrder: add() and flushNow() (flush.ts:53-92) hand every row *)
(* over once and in order, for any cap, nesting and failures of onFlush.   *)
THEOREM Ordering == Spec => []HandedOnceInOrder
BY Invariance, NumbersInOrder, PTL

(* NoSilentLoss: the counters (flush.ts:40-43) tell the truth about what   *)
(* was lost, for any sizes of the batches that failed.                     *)
THEOREM Accounting == Spec => []NoSilentLoss
BY Invariance, CountersTell, PTL

(* StagingBounded: add() keeps the staging buffer below its cap (flush.ts  *)
(* 24-28, 53-56).                                                          *)
THEOREM Staging == Spec => []StagingBounded
<1>1. IInv => StagingBounded
  BY DEF IInv
<1> QED
  BY <1>1, Invariance, PTL

-----------------------------------------------------------------------------
(* The hub path: the flusher with its handler. *)

(* The rows of the d-th open call whose turn is still to come.             *)
Turn(d) == IF at[d].phase \in {"written", "onError"} THEN at[d].next + 1 ELSE at[d].next
Rest(d) == {calls[d][i] : i \in Turn(d) .. Len(calls[d])}

(* The same for the calls below the innermost one.                         *)
Below == UNION {Rest(d) : d \in 1 .. Len(calls) - 1}

Typed ==
    /\ at \in Seq(Progress) /\ Len(at) = Len(calls)
    /\ \A d \in 1 .. Len(at) : at[d].phase = "redact" => at[d].next = 1
    /\ wire \in Seq(Number)

Placed ==
    /\ IsInjective(wire)
    /\ Range(wire) \union Lost \subseteq 1 .. Len(handed)
    /\ Range(wire) \intersect Lost = {}
    /\ (Range(wire) \union Lost) \intersect ToCome = {}

Found == 1 .. Len(handed) \ InBatches(failed) \subseteq Range(wire) \union Lost \union ToCome

HInv == IInv /\ Typed /\ Placed /\ Found /\ refused \subseteq failed /\ RefusedStaysHere

-----------------------------------------------------------------------------
LEMMA ToComeIsRest == ToCome = UNION {Rest(d) : d \in 1 .. Len(calls)}
BY DEF ToCome, Rest, Turn

LEMMA ProgressFields ==
    ASSUME Typed
    PROVE  /\ \A d \in 1 .. Len(at) :
                /\ at[d] \in Progress
                /\ at[d].next \in Nat \ {0} /\ Turn(d) \in Nat \ {0}
           /\ Len(at) \in Nat
<1>1. at \in Seq(Progress)
  BY DEF Typed
<1>2. Len(at) \in Nat /\ \A d \in 1 .. Len(at) : at[d] \in Progress
  <2> HIDE DEF Progress
  <2> QED
    BY <1>1, LenProperties, ElementOfSeq
<1>3. \A d \in 1 .. Len(at) : at[d].next \in Nat \ {0}
  BY <1>2 DEF Progress
<1>4. \A d \in 1 .. Len(at) : Turn(d) \in Nat \ {0}
  <2>1. \A x \in Nat \ {0} : x + 1 \in Nat \ {0}
    BY SMT
  <2> QED
    BY <1>3, <2>1 DEF Turn
<1> QED
  BY <1>2, <1>3, <1>4

LEMMA RestInBatch ==
    ASSUME IInv, Typed
    PROVE  /\ \A d \in 1 .. Len(calls) : Rest(d) \subseteq Rows(calls[d])
           /\ ToCome \subseteq InHandler /\ InHandler \subseteq 1 .. Len(handed)
           /\ Len(handed) \in Nat /\ Len(calls) \in Nat
<1>1. ASSUME NEW d \in 1 .. Len(calls) PROVE Rest(d) \subseteq Rows(calls[d])
  <2>1. Turn(d) \in Nat \ {0}
    BY ProgressFields DEF Typed
  <2>2. \A i \in Turn(d) .. Len(calls[d]) : i \in 1 .. Len(calls[d])
    <3> DEFINE t == Turn(d)
               s == Len(calls[d])
    <3>1. s \in Nat
      BY Lengths, LenProperties DEF IInv
    <3> HIDE DEF t, s
    <3> QED
      BY <2>1, <3>1, SMT DEF t, s
  <2> QED
    BY <2>2 DEF Rest, Rows
<1>2. InHandler \subseteq 1 .. Len(handed)
  BY DEF IInv, Covered
<1> QED
  BY <1>1, <1>2, ToComeIsRest, Lengths DEF InHandler, IInv

(* Where the innermost call stands.                                        *)
LEMMA Innermost ==
    ASSUME IInv, Typed, Busy
    PROVE  /\ Len(calls) \in Nat \ {0} /\ Len(calls) \in 1 .. Len(calls)
           /\ Len(calls) - 1 \in Nat
           /\ 1 .. Len(calls) = (1 .. Len(calls) - 1) \union {Len(calls)}
           /\ \A d \in 1 .. Len(calls) - 1 : d \in 1 .. Len(calls) /\ d # Len(calls)
           /\ Len(at) = Len(calls)
           /\ ToCome = Below \union Rest(Len(calls))
           /\ Below \intersect Rows(Batch) = {}
           /\ Rest(Len(calls)) \subseteq Rows(Batch)
           /\ Batch \in Seq(Number) /\ Len(Batch) \in Nat
           /\ Rows(Batch) \subseteq 1 .. Len(handed)
           /\ Now \in Progress /\ Now.next \in Nat \ {0}
<1> DEFINE depth == Len(calls)
<1>1. depth \in Nat \ {0}
  <2> DEFINE S == Seq(Number)
  <2>1. calls \in Seq(S) /\ calls # <<>>
    BY DEF IInv, TypeOK, Busy
  <2> HIDE DEF S
  <2> QED
    BY <2>1, EmptySeq
<1>2. Len(at) = depth
  BY DEF Typed
<1>3. \A d \in 1 .. depth : Rest(d) \subseteq Rows(calls[d])
  BY RestInBatch
<1>4. ToCome = UNION {Rest(d) : d \in 1 .. depth}
  BY ToComeIsRest
<1>5. \A d, e \in 1 .. depth : d # e => Rows(calls[d]) \intersect Rows(calls[e]) = {}
  BY DEF IInv, Apart
<1>6. Below = UNION {Rest(d) : d \in 1 .. depth - 1}
  BY DEF Below
<1>7. Batch = calls[depth]
  BY DEF Batch
<1>8. \A d \in 1 .. depth : calls[d] \in Seq(Number)
  BY Lengths DEF IInv
<1>9. \A d \in 1 .. depth : Rows(calls[d]) \subseteq InHandler
  BY DEF InHandler
<1> HIDE DEF depth
<1>10. /\ depth \in 1 .. depth /\ depth - 1 \in Nat
       /\ 1 .. depth = (1 .. depth - 1) \union {depth}
       /\ \A d \in 1 .. depth - 1 : d \in 1 .. depth /\ d # depth
  BY <1>1, SMT
<1>11. ToCome = Below \union Rest(depth)
  BY <1>4, <1>6, <1>10
<1>12. Below \intersect Rows(Batch) = {}
  <2>1. \A d \in 1 .. depth - 1 : Rest(d) \intersect Rows(calls[depth]) = {}
    BY <1>3, <1>5, <1>10
  <2> QED
    BY <1>6, <1>7, <2>1
<1>13. Batch \in Seq(Number) /\ Len(Batch) \in Nat
  BY <1>7, <1>8, <1>10, LenProperties
<1>14. Rows(Batch) \subseteq 1 .. Len(handed)
  BY <1>7, <1>9, <1>10, RestInBatch
<1>15. Now = at[depth]
  BY <1>2 DEF Now
<1>16. Now \in Progress /\ Now.next \in Nat \ {0}
  BY <1>2, <1>10, <1>15, ProgressFields
<1> QED
  BY <1>1, <1>2, <1>3, <1>7, <1>10, <1>11, <1>12, <1>13, <1>14, <1>16 DEF depth

-----------------------------------------------------------------------------
(* Every step is a step of the flusher, or none of its concern.            *)
LEMMA HubStepIsFlusherStep == [HubNext]_hubVars => [Next]_vars
<1> SUFFICES ASSUME [HubNext]_hubVars PROVE [Next]_vars
  OBVIOUS
<1>1. CASE AppStep
  BY <1>1 DEF AppStep, FlusherStep, Next
<1>2. CASE HubTick
  BY <1>2 DEF HubTick, FlusherStep, Next
<1>3. CASE Redact
  BY <1>3 DEF Redact, Redacts, RedactThrows, Next, OnFlushEnds
<1>4. CASE ExportRow
  BY <1>4 DEF ExportRow, Writes, Fails
<1>5. CASE RowDone
  BY <1>5 DEF RowDone
<1>6. CASE OnErrorThrows
  BY <1>6 DEF OnErrorThrows, Next, OnFlushEnds
<1>7. CASE ExportEnds
  BY <1>7 DEF ExportEnds, Next, OnFlushEnds
<1>8. CASE UNCHANGED hubVars
  BY <1>8 DEF hubVars
<1> QED
  BY <1>1, <1>2, <1>3, <1>4, <1>5, <1>6, <1>7, <1>8 DEF HubNext, HandlerStep

(* The hub path is a flusher: its handler is one of those that flush.ts    *)
(* allows for.                                                             *)
THEOREM Implementation == HubSpec => Spec
<1>1. HubInit => Init
  BY DEF HubInit
<1> QED
  BY <1>1, HubStepIsFlusherStep, PTL DEF HubSpec, Spec

-----------------------------------------------------------------------------
(* The rows to come of the innermost call, once it stands at q.            *)
RestAt(q) ==
    {Batch[i] : i \in (IF q.phase \in {"written", "onError"} THEN q.next + 1 ELSE q.next)
                        .. Len(Batch)}

LEMMA PhaseStep ==
    ASSUME IInv, Typed, Busy, NEW q \in Progress, q.phase = "redact" => q.next = 1,
           at' = [at EXCEPT ![Len(at)] = q], UNCHANGED vars, wire' \in Seq(Number)
    PROVE  Typed' /\ ToCome' = Below \union RestAt(q)
<1>0. PICK depth \in Nat : depth = Len(calls)
  BY Innermost
<1>1. calls' = calls
  BY DEF vars
<1>2. /\ Len(at) = depth /\ at \in Seq(Progress)
      /\ \A d \in 1 .. depth : at[d].phase = "redact" => at[d].next = 1
  BY <1>0 DEF Typed
<1>3. /\ depth \in Nat \ {0} /\ depth \in 1 .. depth
      /\ 1 .. depth = (1 .. depth - 1) \union {depth}
      /\ \A d \in 1 .. depth - 1 : d \in 1 .. depth /\ d # depth
  BY <1>0, Innermost
<1>4. /\ at' \in Seq(Progress) /\ Len(at') = depth /\ at'[depth] = q
      /\ \A d \in 1 .. depth : d # depth => at'[d] = at[d]
  <2> HIDE DEF Progress
  <2>1. at \in [1 .. depth -> Progress]
    BY <1>2, LenProperties
  <2>2. at' \in [1 .. depth -> Progress]
    BY <1>2, <2>1
  <2>3. at' \in Seq(Progress) /\ Len(at') = depth
    BY <1>2, <1>3, <2>1, <2>2, SMT
  <2> QED
    BY <1>2, <1>3, <2>1, <2>3
<1>5. Typed'
  BY <1>0, <1>1, <1>2, <1>4 DEF Typed
<1>6. ToCome' = UNION {Rest(d)' : d \in 1 .. depth}
  BY <1>0, <1>1 DEF ToCome, Rest, Turn
<1>7. \A d \in 1 .. depth - 1 : Rest(d)' = Rest(d)
  BY <1>1, <1>3, <1>4 DEF Rest, Turn
<1>8. Rest(depth)' = RestAt(q)
  BY <1>0, <1>1, <1>4 DEF Rest, Turn, RestAt, Batch
<1>9. Below = UNION {Rest(d) : d \in 1 .. depth - 1}
  BY <1>0 DEF Below
<1>10. UNION {Rest(d)' : d \in 1 .. depth - 1} = Below
  BY <1>7, <1>9
<1>11. \A x : x \in ToCome' <=> \E d \in 1 .. depth : x \in Rest(d)'
  BY <1>6
<1>12. \A x : x \in Below <=> \E d \in 1 .. depth - 1 : x \in Rest(d)'
  BY <1>10
<1>13. \A x : x \in ToCome' <=> x \in Below \/ x \in Rest(depth)'
  BY <1>3, <1>11, <1>12
<1>14. ToCome' = Below \union RestAt(q)
  BY <1>8, <1>13
<1> QED
  BY <1>5, <1>14

LEMMA PopStep ==
    ASSUME IInv, Typed, Busy, CallEnds, Leave, wire' = wire
    PROVE  Typed' /\ ToCome' = Below
<1> DEFINE depth == Len(calls)
<1>1. /\ Len(at) = depth /\ at \in Seq(Progress) /\ wire \in Seq(Number)
      /\ \A d \in 1 .. depth : at[d].phase = "redact" => at[d].next = 1
  BY DEF Typed
<1>2. Len(calls') = depth - 1 /\ \A d \in 1 .. depth - 1 : calls'[d] = calls[d]
  BY TopCall
<1>3. /\ depth \in Nat \ {0} /\ \A d \in 1 .. depth - 1 : d \in 1 .. depth
  BY Innermost
<1>4. \A d \in 1 .. depth : at[d] \in Progress
  BY <1>1, ProgressFields
<1>5. at' = SubSeq(at, 1, depth - 1)
  BY <1>1 DEF Leave
<1> HIDE DEF depth
<1>6. /\ at' \in Seq(Progress) /\ Len(at') = depth - 1
      /\ \A d \in 1 .. depth - 1 : at'[d] = at[d]
  <2> HIDE DEF Progress
  <2>1. 1 \in Int /\ depth - 1 \in Int
    BY <1>3, SMT
  <2>2. \A d \in 1 .. depth - 1 : at[d] \in Progress
    BY <1>3, <1>4
  <2>3. /\ at' \in Seq(Progress)
        /\ Len(at') = (IF 1 <= depth - 1 THEN depth - 1 - 1 + 1 ELSE 0)
        /\ \A d \in 1 .. depth - 1 - 1 + 1 : at'[d] = at[1 + d - 1]
    BY <1>5, <2>1, <2>2, SubSeqProperties
  <2>4. /\ depth - 1 - 1 + 1 = depth - 1
        /\ (IF 1 <= depth - 1 THEN depth - 1 - 1 + 1 ELSE 0) = depth - 1
        /\ \A d \in 1 .. depth - 1 : 1 + d - 1 = d
    BY <1>3, SMT
  <2> QED
    BY <2>3, <2>4
<1>7. Typed'
  BY <1>1, <1>2, <1>3, <1>6 DEF Typed
<1>8. ToCome' = UNION {Rest(d)' : d \in 1 .. depth - 1}
  BY <1>2 DEF ToCome, Rest, Turn
<1>9. \A d \in 1 .. depth - 1 : Rest(d)' = Rest(d)
  BY <1>2, <1>6 DEF Rest, Turn
<1>10. Below = UNION {Rest(d) : d \in 1 .. depth - 1}
  BY DEF Below, depth
<1> QED
  BY <1>7, <1>8, <1>9, <1>10

(* An onFlush begins: all the rows of its batch are to come.               *)
Pushes(staged) ==
    /\ calls' = Append(calls, staged) /\ handed' = handed \o staged
    /\ at' = IF Len(calls') > Len(calls) THEN Append(at, [phase |-> "redact", next |-> 1]) ELSE at
    /\ UNCHANGED sent

LEMMA PushStep ==
    ASSUME IInv, IInv', Typed, NEW staged \in Seq(Number), Pushes(staged)
    PROVE  /\ Typed' /\ ToCome' = ToCome \union Rows(staged)
           /\ Len(handed') = Len(handed) + Len(staged) /\ Len(staged) \in Nat
           /\ Rows(staged) = Len(handed) + 1 .. Len(handed) + Len(staged)
<1> DEFINE start == [phase |-> "redact", next |-> 1]
<1>0. PICK depth \in Nat, n \in Nat, s \in Nat :
        depth = Len(calls) /\ n = Len(handed) /\ s = Len(staged)
  BY Lengths, LenProperties DEF IInv
<1>p. /\ calls' = Append(calls, staged) /\ handed' = handed \o staged /\ wire' = wire
      /\ at' = IF Len(calls') > Len(calls) THEN Append(at, start) ELSE at
  BY DEF Pushes, sent, fates
<1>1. /\ Len(at) = depth /\ at \in Seq(Progress) /\ wire \in Seq(Number)
      /\ \A d \in 1 .. depth : at[d].phase = "redact" => at[d].next = 1
  BY <1>0 DEF Typed
<1>2. /\ depth \in Nat /\ n \in Nat /\ s \in Nat
  BY <1>0
<1>3. /\ Len(calls') = depth + 1
      /\ \A d \in 1 .. depth : calls'[d] = calls[d]
      /\ calls'[depth + 1] = staged
  <2> DEFINE S == Seq(Number)
  <2>1. calls \in Seq(S) /\ staged \in S
    BY DEF IInv, TypeOK
  <2> HIDE DEF S
  <2> QED
    BY <1>0, <1>p, <2>1, AppendProperties
<1>4. Len(calls') > Len(calls)
  <2>1. depth + 1 > depth
    BY <1>2, SMT
  <2> QED
    BY <1>0, <1>3, <2>1
<1>5. at' = Append(at, start)
  BY <1>4, <1>p
<1>6. start \in Progress /\ start.phase = "redact" /\ start.next = 1
  BY SMT DEF Progress
<1>7. /\ at' \in Seq(Progress) /\ Len(at') = depth + 1 /\ at'[depth + 1] = start
      /\ \A d \in 1 .. depth : at'[d] = at[d]
  <2> HIDE DEF Progress, start
  <2> QED
    BY <1>1, <1>5, <1>6, AppendProperties
<1> HIDE DEF start
<1>8. 1 .. depth + 1 = (1 .. depth) \union {depth + 1}
  BY <1>2, SMT
<1>9. wire' = wire
  BY <1>p
<1>10. Typed'
  BY <1>1, <1>3, <1>6, <1>7, <1>8, <1>9 DEF Typed
<1>11. ToCome' = UNION {Rest(d)' : d \in 1 .. depth + 1}
  BY <1>3 DEF ToCome, Rest, Turn
<1>12. \A d \in 1 .. depth : Rest(d)' = Rest(d)
  BY <1>3, <1>7 DEF Rest, Turn
<1>13. Rest(depth + 1)' = Rows(staged)
  <2>1. Turn(depth + 1)' = 1
    BY <1>6, <1>7 DEF Turn
  <2> QED
    BY <1>0, <1>3, <2>1 DEF Rest, Rows
<1>14. ToCome = UNION {Rest(d) : d \in 1 .. depth}
  BY <1>0, ToComeIsRest
<1>15. UNION {Rest(d)' : d \in 1 .. depth} = ToCome
  BY <1>12, <1>14
<1>16. ToCome' = ToCome \union Rows(staged)
  <2>1. \A x : x \in ToCome' <=> \E d \in 1 .. depth + 1 : x \in Rest(d)'
    BY <1>11
  <2>2. \A x : x \in ToCome <=> \E d \in 1 .. depth : x \in Rest(d)'
    BY <1>15
  <2>3. \A x : x \in ToCome' <=> x \in ToCome \/ x \in Rest(depth + 1)'
    BY <1>8, <2>1, <2>2
  <2> QED
    BY <1>13, <2>3
<1>17. /\ Len(handed') = n + s
       /\ \A i \in 1 .. n + s : handed'[i] = IF i <= n THEN handed[i] ELSE staged[i - n]
  BY <1>0, <1>p, ConcatProperties DEF IInv, TypeOK
<1>18. \A i \in 1 .. n + s : handed'[i] = i
  BY <1>17 DEF IInv, Numbered
<1>19. \A i \in 1 .. s : staged[i] = n + i
  <2> SUFFICES ASSUME NEW i \in 1 .. s PROVE staged[i] = n + i
    OBVIOUS
  <2>1. n + i \in 1 .. n + s /\ ~(n + i <= n) /\ (n + i) - n = i
    BY <1>2, SMT
  <2> QED
    BY <1>17, <1>18, <2>1
<1>20. Rows(staged) = n + 1 .. n + s
  <2>1. \A x \in Rows(staged) : \E i \in 1 .. s : x = n + i
    BY <1>0, <1>19 DEF Rows
  <2>2. \A i \in 1 .. s : n + i \in Rows(staged)
    BY <1>0, <1>19 DEF Rows
  <2>3. \A x \in n + 1 .. n + s : x - n \in 1 .. s /\ x = n + (x - n)
    BY <1>2, SMT
  <2>4. \A i \in 1 .. s : n + i \in n + 1 .. n + s
    BY <1>2, SMT
  <2> QED
    BY <2>1, <2>2, <2>3, <2>4
<1> QED
  BY <1>0, <1>10, <1>16, <1>17, <1>20

-----------------------------------------------------------------------------
(* What the flusher's own steps do to the batches.                         *)
LEMMA FlusherMoves ==
    ASSUME IInv, Add \/ Manual \/ Start \/ Stop \/ Tick
    PROVE  /\ failed' = failed
           /\ \/ calls' = calls /\ handed' = handed
              \/ \E staged \in Seq(Number) :
                   calls' = Append(calls, staged) /\ handed' = handed \o staged
<1>1. ASSUME NEW staged \in Seq(Number), FlushNow(staged)
      PROVE  /\ failed' = failed
             /\ \/ calls' = calls /\ handed' = handed
                \/ calls' = Append(calls, staged) /\ handed' = handed \o staged
  BY <1>1 DEF FlushNow, HandOver, outcomes
<1>2. batch \in Seq(Number)
  BY StagedBatch
<1>3. CASE Add
  <2>1. CASE ~Full(Append(batch, added + 1))
    BY <1>3, <2>1 DEF Add, outcomes
  <2>2. CASE Full(Append(batch, added + 1))
    <3>1. FlushNow(Append(batch, added + 1)) /\ added < MaxAdded
      BY <1>3, <2>2 DEF Add
    <3>2. added + 1 \in Number
      BY <3>1, Lengths, FlusherAssumption, SMT DEF IInv, added, Number
    <3>3. Append(batch, added + 1) \in Seq(Number)
      BY <1>2, <3>2, AppendProperties
    <3> QED
      BY <1>1, <3>1, <3>3
  <2> QED
    BY <2>1, <2>2
<1>4. CASE Manual \/ Stop \/ Tick
  BY <1>1, <1>2, <1>4 DEF Manual, Stop, Tick
<1>5. CASE Start
  BY <1>5 DEF Start, outcomes
<1> QED
  BY <1>3, <1>4, <1>5

LEMMA AppendedRow ==
    ASSUME NEW w \in Seq(Number), IsInjective(w), NEW r \in Number, r \notin Range(w)
    PROVE  /\ Append(w, r) \in Seq(Number) /\ IsInjective(Append(w, r))
           /\ Range(Append(w, r)) = Range(w) \union {r}
<1>1. PICK n \in Nat : n = Len(w)
  BY LenProperties
<1>2. /\ Append(w, r) \in Seq(Number) /\ Len(Append(w, r)) = n + 1
      /\ \A i \in 1 .. n : Append(w, r)[i] = w[i]
      /\ Append(w, r)[n + 1] = r
  BY <1>1, AppendProperties
<1>3. DOMAIN Append(w, r) = 1 .. n + 1 /\ DOMAIN w = 1 .. n
  BY <1>1, <1>2, LenProperties
<1>4. 1 .. n + 1 = (1 .. n) \union {n + 1}
  BY SMT
<1>5. Range(w) = {w[i] : i \in 1 .. n}
  BY <1>3 DEF Range
<1>6. Range(Append(w, r)) = {Append(w, r)[i] : i \in 1 .. n + 1}
  BY <1>3 DEF Range
<1>7. Range(Append(w, r)) = Range(w) \union {r}
  BY <1>2, <1>4, <1>5, <1>6
<1>8. IsInjective(Append(w, r))
  <2>1. \A i, j \in 1 .. n : w[i] = w[j] => i = j
    BY <1>3 DEF IsInjective
  <2>2. \A i \in 1 .. n : w[i] # r
    BY <1>5
  <2>3. \A i, j \in 1 .. n + 1 : Append(w, r)[i] = Append(w, r)[j] => i = j
    BY <1>2, <1>4, <2>1, <2>2
  <2> QED
    BY <1>3, <2>3 DEF IsInjective
<1> QED
  BY <1>2, <1>7, <1>8

(* The row that is up, and those after it.                                 *)
LEMMA RowUp ==
    ASSUME IInv, Typed, Busy, Now.phase = "export", Now.next <= Len(Batch),
           NEW q, RestAt(q) = {Batch[i] : i \in Now.next + 1 .. Len(Batch)}
    PROVE  /\ Rest(Len(calls)) = {Batch[Now.next]} \union RestAt(q)
           /\ Batch[Now.next] \notin RestAt(q)
           /\ Batch[Now.next] \in Rows(Batch) /\ Batch[Now.next] \in Number
<1>1. PICK n \in Nat \ {0}, s \in Nat : n = Now.next /\ s = Len(Batch)
  BY Innermost
<1>2. Batch = calls[Len(calls)] /\ Now = at[Len(calls)]
  BY DEF Batch, Now, Typed
<1>3. Rest(Len(calls)) = {Batch[i] : i \in n .. s}
  BY <1>1, <1>2 DEF Rest, Turn
<1>4. RestAt(q) = {Batch[i] : i \in n + 1 .. s}
  BY <1>1
<1>5. n <= s
  BY <1>1
<1>6. /\ n .. s = {n} \union (n + 1 .. s) /\ n \in 1 .. s
      /\ \A i \in n + 1 .. s : i # n /\ i \in 1 .. s /\ i \in Nat
  BY <1>5, SMT
<1>7. PICK k \in Nat : \A i \in 1 .. s : Batch[i] = k + i
  <2>1. Whole(Batch, Len(handed))
    BY <1>2, Innermost DEF IInv, Intervals
  <2> QED
    BY <1>1, <2>1 DEF Whole
<1>8. \A i \in n + 1 .. s : k + i # k + n
  BY <1>6, SMT
<1>9. Batch[n] \notin RestAt(q)
  <2>1. \A i \in n + 1 .. s : Batch[i] # Batch[n]
    BY <1>6, <1>7, <1>8
  <2> QED
    BY <1>4, <2>1
<1>10. Batch[n] \in Rows(Batch)
  BY <1>1, <1>6 DEF Rows
<1>11. Batch[n] \in Number
  <2>1. Batch \in Seq(Number)
    BY Innermost
  <2> QED
    BY <1>1, <1>6, <2>1, ElementOfSeq
<1>12. Rest(Len(calls)) = {Batch[n]} \union RestAt(q)
  BY <1>3, <1>4, <1>6
<1> QED
  BY <1>1, <1>9, <1>10, <1>11, <1>12

LEMMA Standing ==
    ASSUME IInv, Typed, Busy
    PROVE  Rest(Len(calls)) = RestAt(Now)
BY DEF Rest, RestAt, Turn, Batch, Now, Typed

-----------------------------------------------------------------------------
LEMMA GrowKeeps ==
    ASSUME HInv, IInv', FlusherStep(Add \/ Manual \/ Start \/ Stop) \/ FlusherStep(Tick)
    PROVE  HInv'
<1>1. /\ Add \/ Manual \/ Start \/ Stop \/ Tick
      /\ at' = IF Len(calls') > Len(calls) THEN Append(at, [phase |-> "redact", next |-> 1]) ELSE at
      /\ UNCHANGED sent
  BY DEF FlusherStep
<1>2. IInv /\ Typed /\ Placed /\ Found /\ refused \subseteq failed /\ RefusedStaysHere
  BY DEF HInv
<1>3. wire' = wire /\ Lost' = Lost /\ refused' = refused /\ failed' = failed
  BY <1>1, <1>2, FlusherMoves DEF sent, fates, Lost
<1>4. CASE calls' = calls /\ handed' = handed
  <2>1. at' = at
    <3> DEFINE depth == Len(calls)
    <3>1. depth \in Nat
      BY <1>2, Lengths DEF IInv
    <3> HIDE DEF depth
    <3>2. ~(depth > depth)
      BY <3>1, SMT
    <3> QED
      BY <1>1, <1>4, <3>2 DEF depth
  <2>2. ToCome' = ToCome
    BY <1>4, <2>1 DEF ToCome
  <2>3. Typed'
    BY <1>2, <1>3, <1>4, <2>1 DEF Typed
  <2>4. Placed' /\ Found' /\ RefusedStaysHere'
    BY <1>2, <1>3, <1>4, <2>2 DEF Placed, Found, RefusedStaysHere
  <2> QED
    BY <1>2, <1>3, <2>3, <2>4 DEF HInv
<1>5. CASE \E staged \in Seq(Number) :
            calls' = Append(calls, staged) /\ handed' = handed \o staged
  <2>1. PICK staged \in Seq(Number) : Pushes(staged)
    BY <1>1, <1>5 DEF Pushes
  <2>2. PICK n \in Nat, s \in Nat : n = Len(handed) /\ s = Len(staged)
    BY <1>2, RestInBatch, LenProperties
  <2>3. /\ Typed' /\ ToCome' = ToCome \union Rows(staged)
        /\ Len(handed') = n + s /\ Rows(staged) = n + 1 .. n + s
    BY <1>2, <2>1, <2>2, PushStep
  <2>4. /\ 1 .. n + s = (1 .. n) \union (n + 1 .. n + s)
        /\ (1 .. n) \intersect (n + 1 .. n + s) = {}
    BY SMT
  <2>5. /\ IsInjective(wire)
        /\ Range(wire) \union Lost \subseteq 1 .. n
        /\ Range(wire) \intersect Lost = {}
        /\ (Range(wire) \union Lost) \intersect ToCome = {}
    BY <1>2, <2>2 DEF Placed
  <2>6. Placed'
    BY <1>3, <2>3, <2>4, <2>5 DEF Placed
  <2>7. Found'
    BY <1>2, <1>3, <2>2, <2>3, <2>4 DEF Found
  <2>8. InBatches(refused) \subseteq 1 .. n
    <3>1. InBatches(failed) \subseteq 1 .. n
      BY <1>2, <2>2 DEF IInv, Covered
    <3>2. InBatches(refused) \subseteq InBatches(failed)
      BY <1>2 DEF InBatches
    <3> QED
      BY <3>1, <3>2
  <2>9. RefusedStaysHere'
    BY <1>2, <1>3, <2>3, <2>4, <2>8 DEF RefusedStaysHere
  <2> QED
    BY <1>2, <1>3, <2>3, <2>6, <2>7, <2>9 DEF HInv
<1> QED
  BY <1>1, <1>2, <1>4, <1>5, FlusherMoves

(* Steps within a call that leave what is to come as it is.                *)
LEMMA StayKeeps ==
    ASSUME HInv, IInv', Busy, NEW q \in Progress, q.phase = "redact" => q.next = 1,
           at' = [at EXCEPT ![Len(at)] = q], UNCHANGED vars, UNCHANGED sent,
           RestAt(q) = RestAt(Now)
    PROVE  HInv'
<1>1. IInv /\ Typed /\ Placed /\ Found /\ refused \subseteq failed /\ RefusedStaysHere
  BY DEF HInv
<1>2. wire' = wire /\ Lost' = Lost /\ refused' = refused
      /\ failed' = failed /\ handed' = handed
  BY DEF sent, fates, Lost, vars, outcomes
<1>3. wire' \in Seq(Number)
  BY <1>1, <1>2 DEF Typed
<1>4. Typed' /\ ToCome' = Below \union RestAt(q)
  BY <1>1, <1>3, PhaseStep
<1>5. ToCome = Below \union RestAt(Now)
  BY <1>1, Innermost, Standing
<1>6. ToCome' = ToCome
  BY <1>4, <1>5
<1>7. Placed' /\ Found' /\ RefusedStaysHere'
  BY <1>1, <1>2, <1>6 DEF Placed, Found, RefusedStaysHere
<1> QED
  BY <1>1, <1>2, <1>4, <1>7 DEF HInv

LEMMA RedactsKeeps == ASSUME HInv, IInv', Busy, Now.phase = "redact", Redacts PROVE HInv'
<1> DEFINE q == [phase |-> "export", next |-> Now.next]
<1>1. Now \in Progress
  BY Innermost DEF HInv
<1>2. q \in Progress /\ q.phase = "export" /\ q.next = Now.next
  BY <1>1 DEF Progress
<1>3. at' = [at EXCEPT ![Len(at)] = q]
  <2>1. [Now EXCEPT !.phase = "export"] = q
    BY <1>1 DEF Progress
  <2> QED
    BY <2>1 DEF Redacts, Enter, Now
<1> HIDE DEF q
<1>4. RestAt(q) = RestAt(Now)
  BY <1>2 DEF RestAt
<1> QED
  BY <1>2, <1>3, <1>4, StayKeeps DEF Redacts

LEMMA RowDoneKeeps == ASSUME HInv, IInv', RowDone PROVE HInv'
<1> DEFINE q == [phase |-> "export", next |-> Now.next + 1]
<1>1. Busy /\ Now.phase \in {"written", "onError"} /\ UNCHANGED vars /\ UNCHANGED sent
  BY DEF RowDone
<1>2. Now \in Progress /\ Now.next \in Nat \ {0}
  BY <1>1, Innermost DEF HInv
<1>3. q \in Progress /\ q.phase = "export" /\ q.next = Now.next + 1
  <2>1. Now.next + 1 \in Nat \ {0}
    BY <1>2, SMT
  <2> QED
    BY <2>1 DEF Progress
<1>4. at' = [at EXCEPT ![Len(at)] = q]
  BY DEF RowDone, NextUp, Now
<1> HIDE DEF q
<1>5. RestAt(q) = RestAt(Now)
  BY <1>1, <1>3 DEF RestAt
<1> QED
  BY <1>1, <1>3, <1>4, <1>5, StayKeeps

(* The row that is up is written, or lost.                                 *)
LEMMA ExportRowKeeps == ASSUME HInv, IInv', ExportRow PROVE HInv'
<1> DEFINE row == Batch[Now.next]
<1>1. IInv /\ Typed /\ Placed /\ Found /\ refused \subseteq failed /\ RefusedStaysHere
  BY DEF HInv
<1>2. /\ Busy /\ Now.phase = "export" /\ Now.next <= Len(Batch) /\ UNCHANGED vars
      /\ refused' = refused
      /\ \/ wire' = Append(wire, row) /\ Lost' = Lost
         \/ wire' = wire /\ Lost' = Lost \union {row}
      /\ (\E phase \in {"written", "onError"} : Enter(phase)) \/ NextUp
  BY DEF ExportRow, Writes, Fails, Lost
<1>3. Now \in Progress /\ Now.next \in Nat \ {0} /\ Rows(Batch) \subseteq 1 .. Len(handed)
  BY <1>1, <1>2, Innermost
<1>4. Now.next + 1 \in Nat \ {0}
  BY <1>3, SMT
<1>5. PICK q \in Progress :
         /\ q.phase # "redact" /\ at' = [at EXCEPT ![Len(at)] = q]
         /\ RestAt(q) = {Batch[i] : i \in Now.next + 1 .. Len(Batch)}
  <2>1. ASSUME NEW phase \in {"written", "onError"}, Enter(phase)
        PROVE  \E q \in Progress :
                  /\ q.phase # "redact" /\ at' = [at EXCEPT ![Len(at)] = q]
                  /\ RestAt(q) = {Batch[i] : i \in Now.next + 1 .. Len(Batch)}
    <3>1. PICK q \in Progress : q = [phase |-> phase, next |-> Now.next]
                                /\ q.phase = phase /\ q.next = Now.next
      <4>1. [phase |-> phase, next |-> Now.next] \in Progress
        BY <1>3 DEF Progress
      <4> QED
        BY <4>1
    <3>2. [Now EXCEPT !.phase = phase] = q
      BY <1>3, <3>1 DEF Progress
    <3>3. at' = [at EXCEPT ![Len(at)] = q]
      BY <2>1, <3>2 DEF Enter, Now
    <3> QED
      BY <3>1, <3>3 DEF RestAt
  <2>2. ASSUME NextUp
        PROVE  \E q \in Progress :
                  /\ q.phase # "redact" /\ at' = [at EXCEPT ![Len(at)] = q]
                  /\ RestAt(q) = {Batch[i] : i \in Now.next + 1 .. Len(Batch)}
    <3>1. PICK q \in Progress : q = [phase |-> "export", next |-> Now.next + 1]
                                /\ q.phase = "export" /\ q.next = Now.next + 1
      <4>1. [phase |-> "export", next |-> Now.next + 1] \in Progress
        BY <1>4 DEF Progress
      <4> QED
        BY <4>1
    <3>2. at' = [at EXCEPT ![Len(at)] = q]
      BY <2>2, <3>1 DEF NextUp, Now
    <3> QED
      BY <3>1, <3>2 DEF RestAt
  <2> QED
    BY <1>2, <2>1, <2>2
<1>6. /\ Rest(Len(calls)) = {row} \union RestAt(q)
      /\ row \notin RestAt(q) /\ row \in Rows(Batch) /\ row \in Number
  BY <1>1, <1>2, <1>5, RowUp
<1>7. ToCome = Below \union {row} \union RestAt(q) /\ row \notin Below
  BY <1>1, <1>2, <1>6, Innermost
<1> HIDE DEF row
<1>8. failed' = failed /\ handed' = handed
  BY <1>2 DEF vars, outcomes
<1>9. /\ IsInjective(wire) /\ wire \in Seq(Number)
       /\ Range(wire) \union Lost \subseteq 1 .. Len(handed)
       /\ Range(wire) \intersect Lost = {}
       /\ (Range(wire) \union Lost) \intersect ToCome = {}
  BY <1>1 DEF Placed, Typed
<1>10. row \notin Range(wire) /\ row \notin Lost /\ row \in 1 .. Len(handed)
  BY <1>3, <1>6, <1>7, <1>9
<1>11. /\ wire' \in Seq(Number) /\ IsInjective(wire')
       /\ \/ Range(wire') = Range(wire) \union {row} /\ Lost' = Lost
          \/ Range(wire') = Range(wire) /\ Lost' = Lost \union {row}
  BY <1>2, <1>6, <1>9, <1>10, AppendedRow
<1>12. Typed' /\ ToCome' = Below \union RestAt(q)
  BY <1>1, <1>2, <1>5, <1>11, PhaseStep
<1>13. Range(wire)' = Range(wire')
  BY DEF Range
<1>14. Placed'
  BY <1>6, <1>7, <1>8, <1>9, <1>10, <1>11, <1>12 DEF Placed
<1>15. Found'
  BY <1>1, <1>7, <1>8, <1>11, <1>12 DEF Found
<1>16. RefusedStaysHere'
  BY <1>1, <1>2, <1>7, <1>11, <1>12 DEF RefusedStaysHere
<1> QED
  BY <1>1, <1>2, <1>8, <1>12, <1>14, <1>15, <1>16 DEF HInv

(* The export ran to its end: nothing of the batch was still to come.      *)
LEMMA ExportEndsKeeps == ASSUME HInv, IInv', ExportEnds PROVE HInv'
<1>1. IInv /\ Typed /\ Placed /\ Found /\ refused \subseteq failed /\ RefusedStaysHere
  BY DEF HInv
<1>2. /\ Busy /\ Now.phase = "export" /\ Now.next > Len(Batch)
      /\ CallEnds /\ Leave /\ failed' = failed /\ handed' = handed
      /\ wire' = wire /\ Lost' = Lost /\ refused' = refused
  BY DEF ExportEnds, Return, CallEnds, sent, fates, Lost
<1>3. Typed' /\ ToCome' = Below
  BY <1>1, <1>2, PopStep
<1>4. ToCome = Below \union RestAt(Now)
  BY <1>1, <1>2, Innermost, Standing
<1>5. RestAt(Now) = {}
  <2>1. PICK n \in Nat, s \in Nat : n = Now.next /\ s = Len(Batch)
    BY <1>1, <1>2, Innermost
  <2>2. n .. s = {}
    BY <1>2, <2>1, SMT
  <2> QED
    BY <1>2, <2>1, <2>2 DEF RestAt
<1>6. ToCome' = ToCome
  BY <1>3, <1>4, <1>5
<1>7. Placed' /\ Found' /\ RefusedStaysHere'
  BY <1>1, <1>2, <1>6 DEF Placed, Found, RefusedStaysHere
<1> QED
  BY <1>1, <1>2, <1>3, <1>7 DEF HInv

(* onFlush throws: the batch is counted, and none of its rows is to come.  *)
LEMMA ThrowKeeps ==
    ASSUME HInv, IInv', Busy, Throw, CallEnds, Leave, UNCHANGED fates,
           \/ refused' = refused
           \/ refused' = refused \union {Batch} /\ Now.phase = "redact"
    PROVE  HInv'
<1>1. IInv /\ Typed /\ Placed /\ Found /\ refused \subseteq failed /\ RefusedStaysHere
  BY DEF HInv
<1>2. failed' = failed \union {Batch} /\ handed' = handed /\ wire' = wire /\ Lost' = Lost
  BY DEF Throw, CallEnds, Batch, fates, Lost
<1>3. Typed' /\ ToCome' = Below
  BY <1>1, <1>2, PopStep
<1>4. /\ ToCome = Below \union Rest(Len(calls)) /\ Below \intersect Rows(Batch) = {}
      /\ Rest(Len(calls)) \subseteq Rows(Batch)
  BY <1>1, Innermost
<1>5. InBatches(failed)' = InBatches(failed) \union Rows(Batch)
  BY <1>2, InBatchesUnion
<1>6. Placed'
  BY <1>1, <1>2, <1>3, <1>4 DEF Placed
<1>7. Found'
  BY <1>1, <1>2, <1>3, <1>4, <1>5 DEF Found
<1>8. refused' \subseteq failed'
  BY <1>1, <1>2
<1>9. CASE refused' = refused
  <2>1. RefusedStaysHere'
    BY <1>1, <1>2, <1>3, <1>4, <1>9 DEF RefusedStaysHere
  <2> QED
    BY <1>3, <1>6, <1>7, <1>8, <2>1 DEF HInv
<1>10. CASE refused' = refused \union {Batch} /\ Now.phase = "redact"
  <2>1. Now.next = 1
    BY <1>1, <1>10, Innermost DEF Typed, Now
  <2>2. Rest(Len(calls)) = Rows(Batch)
    BY <1>1, <1>10, <2>1, Standing DEF RestAt, Rows
  <2>3. InBatches(refused)' = InBatches(refused) \union Rows(Batch)
    BY <1>10, InBatchesUnion
  <2>4. (Range(wire) \union Lost) \intersect Rows(Batch) = {}
    BY <1>1, <1>4, <2>2 DEF Placed
  <2>5. RefusedStaysHere'
    BY <1>1, <1>2, <1>3, <1>4, <2>3, <2>4 DEF RefusedStaysHere
  <2> QED
    BY <1>3, <1>6, <1>7, <1>8, <2>5 DEF HInv
<1> QED
  BY <1>9, <1>10

-----------------------------------------------------------------------------
LEMMA HubInitially == HubInit => HInv
<1> SUFFICES ASSUME HubInit PROVE HInv
  OBVIOUS
<1>1. IInv
  BY Initially DEF HubInit
<1>2. /\ at = <<>> /\ calls = <<>> /\ handed = <<>> /\ wire = <<>>
      /\ Lost = {} /\ refused = {} /\ failed = {}
  BY DEF HubInit, Init, Lost
<1>3. 1 .. 0 = {}
  BY SMT
<1>4. Len(at) = 0 /\ Len(calls) = 0 /\ Len(handed) = 0 /\ DOMAIN wire = {}
  <2>1. DOMAIN wire = 1 .. 0
    BY <1>2, EmptySeq, LenProperties
  <2> QED
    BY <1>2, <1>3, <2>1, EmptySeq
<1>5. Typed
  BY <1>2, <1>3, <1>4, EmptySeq DEF Typed
<1>6. Range(wire) = {} /\ IsInjective(wire)
  BY <1>4 DEF Range, IsInjective
<1>7. ToCome = {}
  BY <1>3, <1>4 DEF ToCome
<1>8. Placed /\ Found
  BY <1>2, <1>3, <1>4, <1>6, <1>7 DEF Placed, Found
<1>9. RefusedStaysHere
  BY <1>2, <1>6, <1>7 DEF RefusedStaysHere
<1> QED
  BY <1>1, <1>2, <1>5, <1>8, <1>9 DEF HInv

LEMMA HubInductive == HInv /\ [HubNext]_hubVars => HInv'
<1> SUFFICES ASSUME HInv, [HubNext]_hubVars PROVE HInv'
  OBVIOUS
<1>1. IInv'
  BY HubStepIsFlusherStep, InductiveStep DEF HInv
<1>2. CASE AppStep \/ HubTick
  BY <1>1, <1>2, GrowKeeps DEF AppStep, HubTick
<1>3. CASE Redact
  <2>1. CASE Redacts
    BY <1>1, <1>3, <2>1, RedactsKeeps DEF Redact
  <2>2. CASE RedactThrows
    BY <1>1, <1>3, <2>2, ThrowKeeps DEF Redact, RedactThrows
  <2> QED
    BY <1>3, <2>1, <2>2 DEF Redact
<1>4. CASE ExportRow
  BY <1>1, <1>4, ExportRowKeeps
<1>5. CASE RowDone
  BY <1>1, <1>5, RowDoneKeeps
<1>6. CASE OnErrorThrows
  BY <1>1, <1>6, ThrowKeeps DEF OnErrorThrows, sent
<1>7. CASE ExportEnds
  BY <1>1, <1>7, ExportEndsKeeps
<1>8. CASE UNCHANGED hubVars
  <2>1. calls' = calls /\ at' = at /\ handed' = handed /\ failed' = failed
        /\ wire' = wire /\ Lost' = Lost /\ refused' = refused
    BY <1>8 DEF hubVars, vars, outcomes, sent, fates, Lost
  <2>2. ToCome' = ToCome
    BY <2>1 DEF ToCome
  <2>3. Typed'
    BY <2>1 DEF HInv, Typed
  <2>4. Placed' /\ Found' /\ RefusedStaysHere'
    BY <2>1, <2>2 DEF HInv, Placed, Found, RefusedStaysHere
  <2> QED
    BY <1>1, <2>1, <2>3, <2>4 DEF HInv
<1> QED
  BY <1>2, <1>3, <1>4, <1>5, <1>6, <1>7, <1>8 DEF HubNext, HandlerStep

LEMMA HubInvariance == HubSpec => []HInv
BY HubInitially, HubInductive, PTL DEF HubSpec

LEMMA HolesCounted ==
    ASSUME HInv
    PROVE  /\ IsInjective(wire)
           /\ Range(wire) \intersect (Lost \union ToCome) = {}
           /\ 1 .. Len(handed) \ InBatches(failed) \subseteq Range(wire) \union Lost \union ToCome
           /\ droppedRows >= Cardinality(1 .. Len(handed) \ (Range(wire) \union Lost \union ToCome))
<1> DEFINE missing == 1 .. Len(handed) \ (Range(wire) \union Lost \union ToCome)
           lost == InBatches(failed)
<1>1. IsFiniteSet(lost) /\ droppedRows = Cardinality(lost) /\ droppedRows \in Nat
  BY DEF HInv, IInv, Counted, TypeOK
<1>2. missing \subseteq lost
  BY DEF HInv, Found
<1>3. Cardinality(missing) <= Cardinality(lost) /\ IsFiniteSet(missing)
  BY <1>1, <1>2, FS_Subset
<1>4. Cardinality(missing) \in Nat
  BY <1>3, FS_CardinalityType
<1>5. droppedRows >= Cardinality(missing)
  <2> HIDE DEF missing, lost
  <2> QED
    BY <1>1, <1>3, <1>4, SMT
<1> QED
  BY <1>5 DEF HInv, Placed, Found

(* With an onError, no error of a row goes nowhere.                        *)
LEMMA ErrorsHeard == HubSpec => [](hook => unseen = {})
<1>1. HubInit => (hook => unseen = {})
  BY DEF HubInit
<1>2. (hook => unseen = {}) /\ [HubNext]_hubVars => (hook => unseen = {})'
  <2> SUFFICES ASSUME hook => unseen = {}, [HubNext]_hubVars PROVE (hook => unseen = {})'
    OBVIOUS
  <2>1. CASE ExportRow
    BY <2>1 DEF ExportRow, Writes, Fails
  <2>2. CASE UNCHANGED <<hook, unseen>>
    BY <2>2
  <2> QED
    BY <2>1, <2>2 DEF HubNext, AppStep, HubTick, FlusherStep, HandlerStep, Redact, Redacts,
       RedactThrows, RowDone, OnErrorThrows, ExportEnds, hubVars, sent, fates
<1> QED
  BY <1>1, <1>2, PTL DEF HubSpec

(* FailureCostsItsRow: of what is handed over, export() and the flusher    *)
(* (hyperswarm.ts:49-57, flush.ts:84-91) lose the rows that fail and what  *)
(* droppedRows counts, no other, and write none twice, for any cap, number *)
(* of rows, failures and nesting; every row that fails is reported if      *)
(* there is an onError, which a caller may leave out.                      *)
THEOREM Isolation == HubSpec => []FailureCostsItsRow
<1>1. HInv /\ (hook => unseen = {}) => FailureCostsItsRow
  BY HolesCounted DEF FailureCostsItsRow
<1> QED
  BY <1>1, HubInvariance, ErrorsHeard, PTL

(* RefusedStaysHere: no row of a batch whose redaction threw reaches the   *)
(* hub (flush.ts:74-75).                                                   *)
THEOREM Refusal == HubSpec => []RefusedStaysHere
<1>1. HInv => RefusedStaysHere
  BY DEF HInv
<1> QED
  BY <1>1, HubInvariance, PTL

(* What the flusher promises holds on the hub path.                        *)
THEOREM FlusherPromises == HubSpec => [](HandedOnceInOrder /\ NoSilentLoss /\ StagingBounded)
BY Implementation, Ordering, Accounting, Staging, PTL
=============================================================================

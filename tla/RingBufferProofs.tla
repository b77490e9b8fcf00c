-------------------------- MODULE RingBufferProofs ---------------------------
(***************************************************************************)
(* Proofs about RingBuffer, for every capacity: its invariants, and that   *)
(* it implements DropOldestLog.                                            *)
(***************************************************************************)
EXTENDS RingBuffer, SequenceTheorems, TLAPS

(* What the iterator's progress owes to the ring: everything yielded so    *)
(* far is older than the item at the generator's current position.         *)
IterBehind ==
    /\ Len(yielded) <= iter.i
    /\ \A k \in 1 .. Len(yielded) : yielded[k] < pushed - count + 1 + iter.i

IInv ==
    /\ RingTypeOK
    /\ LiveSlots
    /\ NothingLostSilently
    /\ DrainedInOrder
    /\ IterBehind
    /\ IterationMonotone

-----------------------------------------------------------------------------
(* Slot arithmetic: an index wraps at most once, so the remainder is a     *)
(* subtraction.                                                            *)
LEMMA ModOnce ==
    ASSUME NEW x \in Nat, x < 2 * Capacity
    PROVE  x % Capacity = IF x < Capacity THEN x ELSE x - Capacity
<1>1. CASE x < Capacity
  BY <1>1, CapacityAssumption, SMT
<1>2. CASE x >= Capacity
  BY <1>2, CapacityAssumption, SMT
<1> QED
  BY <1>1, <1>2, CapacityAssumption, SMT

LEMMA WrapOnce ==
    ASSUME NEW h \in Slots, NEW i \in 0 .. Capacity
    PROVE  (h + i) % Capacity = IF h + i < Capacity THEN h + i ELSE h + i - Capacity
<1>1. \A x \in Nat : x < 2 * Capacity =>
        x % Capacity = IF x < Capacity THEN x ELSE x - Capacity
  BY ModOnce
<1>2. PICK x \in Nat : x = h + i /\ x < 2 * Capacity
  BY CapacityAssumption, SMT DEF Slots
<1>3. x % Capacity = IF x < Capacity THEN x ELSE x - Capacity
  BY <1>1, <1>2
<1> QED
  BY <1>2, <1>3, CapacityAssumption, SMT DEF Slots

(* Distinct offsets below the capacity name distinct slots, and every      *)
(* offset names a slot.                                                    *)
LEMMA SlotsDistinct ==
    ASSUME NEW h \in Slots
    PROVE  /\ \A i \in 0 .. Capacity : (h + i) % Capacity \in Slots
           /\ \A i, j \in 0 .. Capacity - 1 :
                 i # j => (h + i) % Capacity # (h + j) % Capacity
<1>1. \A i \in 0 .. Capacity :
        (h + i) % Capacity = IF h + i < Capacity THEN h + i ELSE h + i - Capacity
  BY WrapOnce
<1>2. \A i \in 0 .. Capacity : (h + i) % Capacity \in Slots
  BY <1>1, CapacityAssumption, SMT DEF Slots
<1>3. ASSUME NEW i \in 0 .. Capacity - 1, NEW j \in 0 .. Capacity - 1, i # j
      PROVE  (h + i) % Capacity # (h + j) % Capacity
  <2>1. /\ (h + i) % Capacity = IF h + i < Capacity THEN h + i ELSE h + i - Capacity
        /\ (h + j) % Capacity = IF h + j < Capacity THEN h + j ELSE h + j - Capacity
    BY <1>1, CapacityAssumption, SMT
  <2> QED
    BY <2>1, <1>3, CapacityAssumption, SMT DEF Slots
<1> QED
  BY <1>2, <1>3

(* Advancing head by one renumbers the offsets by one. *)
LEMMA SlotsRotate ==
    ASSUME NEW h \in Slots, NEW i \in 0 .. Capacity - 1
    PROVE  /\ (((h + 1) % Capacity) + i) % Capacity = (h + (i + 1)) % Capacity
           /\ (h + 1) % Capacity \in Slots
           /\ (h + Capacity) % Capacity = h
           /\ (h + 0) % Capacity = h
<1> DEFINE g == (h + 1) % Capacity
<1>1. g = IF h + 1 < Capacity THEN h + 1 ELSE h + 1 - Capacity
  BY WrapOnce, CapacityAssumption, SMT
<1>2. g \in Slots
  BY <1>1, CapacityAssumption, SMT DEF Slots
<1>3. (g + i) % Capacity = IF g + i < Capacity THEN g + i ELSE g + i - Capacity
  <2> HIDE DEF g
  <2> QED BY <1>2, WrapOnce, CapacityAssumption, SMT
<1>4. (h + (i + 1)) % Capacity =
        IF h + (i + 1) < Capacity THEN h + (i + 1) ELSE h + (i + 1) - Capacity
  BY WrapOnce, CapacityAssumption, SMT
<1>5. /\ (h + Capacity) % Capacity = h
      /\ (h + 0) % Capacity = h
  <2>1. /\ (h + Capacity) % Capacity =
             IF h + Capacity < Capacity THEN h + Capacity ELSE h + Capacity - Capacity
        /\ (h + 0) % Capacity = IF h + 0 < Capacity THEN h + 0 ELSE h + 0 - Capacity
    BY WrapOnce, CapacityAssumption, SMT
  <2> QED
    BY <2>1, CapacityAssumption, SMT DEF Slots
<1>6. (g + i) % Capacity = (h + (i + 1)) % Capacity
  <2> HIDE DEF g
  <2> QED BY <1>1, <1>3, <1>4, CapacityAssumption, SMT DEF Slots
<1> QED
  BY <1>2, <1>5, <1>6

-----------------------------------------------------------------------------
(* Items are ordinals, so a sequence of items is a sequence of numbers.    *)
LEMMA ItemsAreNumbers ==
    ASSUME NEW q \in Seq(Item)
    PROVE  \A k \in 1 .. Len(q) : q[k] \in Nat
<1>1. \A k \in 1 .. Len(q) : q[k] \in Item
  BY ElementOfSeq
<1> QED
  BY <1>1, MaxPushAssumption, SMT DEF Item

(* The contents toArray() copies out, as the invariant describes them.     *)
LEMMA ToArrayContents ==
    ASSUME RingTypeOK, LiveSlots, NothingLostSilently
    PROVE  /\ ToArray \in Seq(Item)
           /\ Len(ToArray) = count
           /\ \A k \in 1 .. count : ToArray[k] = pushed - count + k
<1>1. \A k \in 1 .. count : buf[Slot(k - 1)] = pushed - count + k
  BY SMT DEF RingTypeOK, LiveSlots
<1>2. \A k \in 1 .. count : buf[Slot(k - 1)] \in Item
  <2> SUFFICES ASSUME NEW k \in 1 .. count
               PROVE  buf[Slot(k - 1)] \in Item
    OBVIOUS
  <2>1. Slot(k - 1) \in Slots
    BY SlotsDistinct, CapacityAssumption, SMT DEF RingTypeOK, Slot
  <2>2. buf[Slot(k - 1)] \in Item \union {Undefined}
    BY <2>1 DEF RingTypeOK
  <2>3. pushed - count + k # 0
    BY CapacityAssumption, LenProperties, SMT DEF RingTypeOK, NothingLostSilently
  <2> QED
    BY <1>1, <2>2, <2>3 DEF Undefined
<1>3. \A k \in 1 .. count : ToArray[k] = buf[Slot(k - 1)]
  BY DEF ToArray
<1>4. ToArray \in [1 .. count -> Item]
  BY <1>2 DEF ToArray
<1>5. count \in Nat
  BY CapacityAssumption, SMT DEF RingTypeOK
<1> QED
  BY <1>1, <1>3, <1>4, <1>5, SMT

-----------------------------------------------------------------------------
(* Each operation preserves the inductive invariant. *)

LEMMA InitIInv == RingInit => IInv
<1> SUFFICES ASSUME RingInit PROVE IInv
  OBVIOUS
<1> USE CapacityAssumption, MaxPushAssumption DEF RingInit
<1>1. RingTypeOK
  BY EmptySeq, SMT DEF RingTypeOK, Slots
<1>2. LiveSlots
  BY SlotsDistinct, SMT DEF LiveSlots, Slot, Slots
<1>3. NothingLostSilently /\ DrainedInOrder /\ IterBehind /\ IterationMonotone
  BY SMT DEF NothingLostSilently, DrainedInOrder, IterBehind, IterationMonotone
<1> QED
  BY <1>1, <1>2, <1>3 DEF IInv

LEMMA OverwriteRing ==
    ASSUME RingTypeOK, LiveSlots, pushed < MaxPush, pushed' = pushed + 1, Overwrite
    PROVE  /\ buf' \in [Slots -> Item \union {Undefined}]
           /\ head' \in Slots
           /\ count' = count
           /\ LiveSlots'
<1>1. /\ head \in Slots
      /\ count = Capacity
      /\ pushed \in 0 .. MaxPush
  BY DEF RingTypeOK, Overwrite
<1>2. buf' \in [Slots -> Item \union {Undefined}]
  BY <1>1, MaxPushAssumption, SMT DEF RingTypeOK, Overwrite, Item
<1>3. head' = (head + 1) % Capacity /\ head' \in Slots
  BY <1>1, SlotsRotate, CapacityAssumption, SMT DEF Overwrite, Slot
<1>4. count' = Capacity
  BY <1>1 DEF Overwrite
<1>5. ASSUME NEW i \in 0 .. Capacity - 1
      PROVE  buf'[Slot(i)'] = pushed' - count' + 1 + i
  <2>1. Slot(i)' = (head + (i + 1)) % Capacity
    BY <1>1, <1>3, SlotsRotate DEF Slot
  <2>2. CASE i = Capacity - 1
    <3>1. Slot(i)' = head
      BY <1>1, <2>1, <2>2, SlotsRotate, CapacityAssumption, SMT
    <3> QED
      BY <1>1, <1>4, <2>2, <3>1, CapacityAssumption, SMT DEF RingTypeOK, Overwrite
  <2>3. CASE i # Capacity - 1
    <3>1. i + 1 \in 0 .. Capacity - 1 /\ 0 \in 0 .. Capacity - 1 /\ i + 1 # 0
      BY <2>3, CapacityAssumption, SMT
    <3>2. (head + 0) % Capacity = head
      BY <1>1, <1>5, SlotsRotate
    <3>3. Slot(i)' # head /\ Slot(i)' \in Slots
      BY <1>1, <2>1, <3>1, <3>2, SlotsDistinct, CapacityAssumption, SMT
    <3>4. buf'[Slot(i)'] = buf[Slot(i + 1)]
      BY <2>1, <3>3 DEF Overwrite, RingTypeOK, Slot
    <3>5. buf[Slot(i + 1)] = pushed - count + 1 + (i + 1)
      BY <1>1, <3>1 DEF LiveSlots
    <3> QED
      BY <1>1, <1>4, <3>4, <3>5, CapacityAssumption, SMT
  <2> QED
    BY <2>2, <2>3
<1>6. LiveSlots'
  BY <1>4, <1>5, CapacityAssumption, SMT DEF LiveSlots
<1> QED
  BY <1>1, <1>2, <1>3, <1>4, <1>6

LEMMA FillRing ==
    ASSUME RingTypeOK, LiveSlots, pushed < MaxPush, pushed' = pushed + 1, Fill
    PROVE  /\ buf' \in [Slots -> Item \union {Undefined}]
           /\ head' \in Slots
           /\ count' \in 0 .. Capacity
           /\ LiveSlots'
<1>1. /\ head \in Slots /\ head' = head
      /\ count \in 0 .. Capacity - 1
      /\ count' = count + 1
      /\ pushed \in 0 .. MaxPush
  BY CapacityAssumption, SMT DEF RingTypeOK, Fill
<1>2. Slot(count) \in Slots
  BY <1>1, SlotsDistinct, CapacityAssumption, SMT DEF Slot
<1>3. buf' \in [Slots -> Item \union {Undefined}]
  BY <1>1, <1>2, MaxPushAssumption, SMT DEF RingTypeOK, Fill, Item
<1>4. \A i \in 0 .. Capacity - 1 : i # count =>
        buf'[Slot(i)'] = buf[Slot(i)]
  <2> SUFFICES ASSUME NEW i \in 0 .. Capacity - 1, i # count
               PROVE  buf'[Slot(i)'] = buf[Slot(i)]
    OBVIOUS
  <2>1. Slot(i)' = Slot(i) /\ Slot(i) # Slot(count) /\ Slot(i) \in Slots
    BY <1>1, SlotsDistinct, CapacityAssumption, SMT DEF Slot
  <2> QED
    BY <1>2, <2>1 DEF Fill, RingTypeOK
<1>5. buf'[Slot(count)] = pushed + 1
  BY <1>2 DEF Fill, RingTypeOK
<1>6. LiveSlots'
  <2>1. ASSUME NEW i \in 0 .. count' - 1
        PROVE  buf'[Slot(i)'] = pushed' - count' + 1 + i
    <3>1. CASE i = count
      <4>1. Slot(i)' = Slot(count)
        BY <1>1, <3>1 DEF Slot
      <4> QED
        BY <1>1, <1>5, <3>1, <4>1, SMT
    <3>2. CASE i # count
      BY <1>1, <1>4, <2>1, <3>2, CapacityAssumption, SMT DEF LiveSlots
    <3> QED
      BY <3>1, <3>2
  <2>2. ASSUME NEW i \in count' .. Capacity - 1
        PROVE  buf'[Slot(i)'] = Undefined
    BY <1>1, <1>4, <2>2, CapacityAssumption, SMT DEF LiveSlots
  <2> QED
    BY <2>1, <2>2 DEF LiveSlots
<1> QED
  BY <1>1, <1>3, <1>6, CapacityAssumption, SMT

LEMMA PushIInv == IInv /\ Push => IInv'
<1> SUFFICES ASSUME IInv, Push PROVE IInv'
  OBVIOUS
<1>1. /\ RingTypeOK /\ LiveSlots /\ NothingLostSilently
      /\ DrainedInOrder /\ IterBehind /\ IterationMonotone
  BY DEF IInv
<1>2. /\ pushed < MaxPush /\ pushed' = pushed + 1
      /\ UNCHANGED <<discarded, drained, iter, yielded>>
  BY DEF Push, historyVars, readerVars
<1>3. /\ buf' \in [Slots -> Item \union {Undefined}]
      /\ head' \in Slots
      /\ count' \in 0 .. Capacity
      /\ LiveSlots'
  <2>1. CASE Overwrite
    BY <1>1, <1>2, <2>1, OverwriteRing DEF RingTypeOK
  <2>2. CASE Fill
    BY <1>1, <1>2, <2>2, FillRing
  <2> QED
    BY <2>1, <2>2 DEF Push
<1>4. \/ count' = count /\ dropped' = dropped + 1
      \/ count' = count + 1 /\ dropped' = dropped
  BY DEF Push, Overwrite, Fill
<1>5. RingTypeOK'
  BY <1>1, <1>2, <1>3, <1>4, MaxPushAssumption, SMT DEF RingTypeOK
<1>6. NothingLostSilently'
  BY <1>1, <1>2, <1>4, LenProperties, CapacityAssumption, MaxPushAssumption, SMT
     DEF RingTypeOK, NothingLostSilently
<1>7. pushed' - count' >= pushed - count /\ pushed' - count' \in Int
  BY <1>1, <1>2, <1>4, CapacityAssumption, MaxPushAssumption, SMT DEF RingTypeOK
<1>8. DrainedInOrder'
  <2>1. \A k \in 1 .. Len(drained) : drained[k] \in Nat
    BY <1>1, ItemsAreNumbers DEF RingTypeOK
  <2> QED
    BY <1>1, <1>2, <1>7, <2>1, CapacityAssumption, MaxPushAssumption, SMT
       DEF RingTypeOK, DrainedInOrder
<1>9. IterBehind' /\ IterationMonotone'
  <2>1. \A k \in 1 .. Len(yielded) : yielded[k] \in Nat
    BY <1>1, ItemsAreNumbers DEF RingTypeOK
  <2> QED
    BY <1>1, <1>2, <1>7, <2>1, CapacityAssumption, MaxPushAssumption, SMT
       DEF RingTypeOK, IterBehind, IterationMonotone
<1> QED
  BY <1>3, <1>5, <1>6, <1>8, <1>9 DEF IInv

(* What clear() leaves behind, whoever calls it. *)
LEMMA ResetRing ==
    ASSUME RingTypeOK, LiveSlots, Reset
    PROVE  /\ buf' = [s \in Slots |-> Undefined]
           /\ LiveSlots'
<1>1. head \in Slots /\ count \in 0 .. Capacity
  BY DEF RingTypeOK
<1>2. ASSUME NEW s \in Slots
      PROVE  buf'[s] = Undefined
  <2>1. PICK i \in 0 .. Capacity - 1 :
          s = IF head + i < Capacity THEN head + i ELSE head + i - Capacity
    <3>1. CASE s >= head
      <4>1. PICK i \in 0 .. Capacity - 1 : i = s - head
        BY <1>1, <3>1, CapacityAssumption, SMT DEF Slots
      <4>2. s = head + i /\ head + i < Capacity
        BY <1>1, <4>1, CapacityAssumption, SMT DEF Slots
      <4> QED
        BY <4>2
    <3>2. CASE s < head
      <4>1. PICK i \in 0 .. Capacity - 1 : i = s - head + Capacity
        BY <1>1, <3>2, CapacityAssumption, SMT DEF Slots
      <4>2. s = head + i - Capacity /\ ~(head + i < Capacity)
        BY <1>1, <3>2, <4>1, CapacityAssumption, SMT DEF Slots
      <4> QED
        BY <4>2
    <3> QED
      BY <1>1, <3>1, <3>2, CapacityAssumption, SMT DEF Slots
  <2>2. s = Slot(i)
    <3>1. i \in 0 .. Capacity
      BY CapacityAssumption, SMT
    <3> QED
      BY <1>1, <2>1, <3>1, WrapOnce DEF Slot
  <2>3. CASE i < count
    BY <1>1, <2>2, <2>3, CapacityAssumption, SMT DEF Reset
  <2>4. CASE ~(i < count)
    <3>1. buf[s] = Undefined
      BY <1>1, <2>2, <2>4, CapacityAssumption, SMT DEF LiveSlots
    <3> QED
      BY <3>1 DEF Reset
  <2> QED
    BY <2>3, <2>4
<1>3. buf' = [s \in Slots |-> Undefined]
  BY <1>2 DEF Reset
<1>4. head' \in Slots /\ head' = 0 /\ count' = 0
  BY CapacityAssumption, SMT DEF Reset, Slots
<1>5. \A i \in 0 .. Capacity - 1 : Slot(i)' \in Slots
  BY <1>4, SlotsDistinct, CapacityAssumption, SMT DEF Slot
<1>6. LiveSlots'
  BY <1>3, <1>4, <1>5, CapacityAssumption, SMT DEF LiveSlots
<1> QED
  BY <1>3, <1>6

LEMMA ClearIInv == IInv /\ Clear => IInv'
<1> SUFFICES ASSUME IInv, Clear PROVE IInv'
  OBVIOUS
<1>1. /\ RingTypeOK /\ LiveSlots /\ NothingLostSilently
      /\ DrainedInOrder /\ IterBehind /\ IterationMonotone
  BY DEF IInv
<1>2. /\ head' = 0 /\ count' = 0
      /\ discarded' = discarded + count
      /\ UNCHANGED <<dropped, pushed, drained, iter, yielded>>
  BY DEF Clear, Reset, readerVars
<1>3. buf' = [s \in Slots |-> Undefined] /\ LiveSlots'
  BY <1>1, ResetRing DEF Clear
<1>4. RingTypeOK'
  BY <1>1, <1>2, <1>3, CapacityAssumption, MaxPushAssumption, SMT DEF RingTypeOK, Slots
<1>5. NothingLostSilently'
  BY <1>1, <1>2, LenProperties, CapacityAssumption, MaxPushAssumption, SMT
     DEF RingTypeOK, NothingLostSilently
<1>6. DrainedInOrder'
  <2>1. \A k \in 1 .. Len(drained) : drained[k] \in Nat
    BY <1>1, ItemsAreNumbers DEF RingTypeOK
  <2> QED
    BY <1>1, <1>2, <2>1, CapacityAssumption, MaxPushAssumption, SMT
       DEF RingTypeOK, DrainedInOrder
<1>7. IterBehind' /\ IterationMonotone'
  <2>1. \A k \in 1 .. Len(yielded) : yielded[k] \in Nat
    BY <1>1, ItemsAreNumbers DEF RingTypeOK
  <2> QED
    BY <1>1, <1>2, <2>1, CapacityAssumption, MaxPushAssumption, SMT
       DEF RingTypeOK, IterBehind, IterationMonotone
<1> QED
  BY <1>3, <1>4, <1>5, <1>6, <1>7 DEF IInv

LEMMA DrainIInv == IInv /\ Drain => IInv'
<1> SUFFICES ASSUME IInv, Drain PROVE IInv'
  OBVIOUS
<1>1. /\ RingTypeOK /\ LiveSlots /\ NothingLostSilently
      /\ DrainedInOrder /\ IterBehind /\ IterationMonotone
  BY DEF IInv
<1>2. /\ head' = 0 /\ count' = 0
      /\ drained' = drained \o ToArray
      /\ UNCHANGED <<dropped, pushed, discarded, iter, yielded>>
  BY DEF Drain, Reset, readerVars
<1>3. buf' = [s \in Slots |-> Undefined] /\ LiveSlots'
  BY <1>1, ResetRing DEF Drain
<1>4. /\ ToArray \in Seq(Item)
      /\ Len(ToArray) = count
      /\ \A k \in 1 .. count : ToArray[k] = pushed - count + k
  BY <1>1, ToArrayContents
<1>5. /\ drained \in Seq(Item) /\ Len(drained) \in Nat
      /\ count \in 0 .. Capacity /\ pushed \in 0 .. MaxPush
  BY <1>1, LenProperties DEF RingTypeOK
<1>6. /\ drained' \in Seq(Item)
      /\ Len(drained') = Len(drained) + count
      /\ \A k \in 1 .. Len(drained) + count :
            drained'[k] = IF k <= Len(drained)
                            THEN drained[k]
                            ELSE pushed - count + (k - Len(drained))
  <2>1. /\ drained' \in Seq(Item)
        /\ Len(drained') = Len(drained) + count
        /\ \A k \in 1 .. Len(drained) + count :
              drained'[k] = IF k <= Len(drained)
                              THEN drained[k] ELSE ToArray[k - Len(drained)]
    BY <1>2, <1>4, <1>5, ConcatProperties
  <2>2. ASSUME NEW k \in 1 .. Len(drained) + count, ~(k <= Len(drained))
        PROVE  ToArray[k - Len(drained)] = pushed - count + (k - Len(drained))
    <3>1. PICK j \in 1 .. count : j = k - Len(drained)
      BY <1>5, <2>2, CapacityAssumption, SMT
    <3> QED
      BY <1>4, <3>1
  <2> QED
    BY <2>1, <2>2
<1>7. RingTypeOK'
  BY <1>1, <1>2, <1>3, <1>6, CapacityAssumption, MaxPushAssumption, SMT
     DEF RingTypeOK, Slots
<1>8. NothingLostSilently'
  BY <1>1, <1>2, <1>5, <1>6, CapacityAssumption, MaxPushAssumption, SMT
     DEF RingTypeOK, NothingLostSilently
<1>9. DrainedInOrder'
  <2>1. \A k \in 1 .. Len(drained) : drained[k] \in Nat
    BY <1>5, ItemsAreNumbers
  <2>2. PICK L \in Nat, b \in Int : L = Len(drained) /\ b = pushed - count
    BY <1>5, CapacityAssumption, MaxPushAssumption, SMT
  <2>3. PICK m \in Nat : m = count
    BY <1>5, CapacityAssumption
  <2>4. /\ \A k, l \in 1 .. L : k < l => drained[k] < drained[l]
        /\ \A k \in 1 .. L : drained[k] <= b
    BY <1>1, <2>2 DEF DrainedInOrder
  <2>5. \A k \in 1 .. L + m : drained'[k] = IF k <= L THEN drained[k] ELSE b + (k - L)
    BY <1>6, <2>2, <2>3
  <2>6. \A k, l \in 1 .. L + m : k < l => drained'[k] < drained'[l]
    BY <2>1, <2>2, <2>4, <2>5, SMT
  <2>7. \A k \in 1 .. L + m : drained'[k] <= b + m
    BY <2>1, <2>2, <2>4, <2>5, SMT
  <2>8. Len(drained') = L + m /\ pushed' - count' = b + m
    <3>1. pushed' = pushed /\ count' = 0 /\ pushed \in Nat /\ count \in Nat
      BY <1>2, <1>5, CapacityAssumption, MaxPushAssumption, SMT
    <3> QED
      BY <1>6, <2>2, <2>3, <3>1, SMT
  <2> QED
    BY <2>6, <2>7, <2>8 DEF DrainedInOrder
<1>10. IterBehind' /\ IterationMonotone'
  <2>1. \A k \in 1 .. Len(yielded) : yielded[k] \in Nat
    BY <1>1, ItemsAreNumbers DEF RingTypeOK
  <2> QED
    BY <1>1, <1>2, <2>1, CapacityAssumption, MaxPushAssumption, SMT
       DEF RingTypeOK, IterBehind, IterationMonotone
<1> QED
  BY <1>3, <1>7, <1>8, <1>9, <1>10 DEF IInv

LEMMA IterIInv == IInv /\ (IterOpen \/ IterYield \/ IterEnd) => IInv'
<1> SUFFICES ASSUME IInv, IterOpen \/ IterYield \/ IterEnd PROVE IInv'
  OBVIOUS
<1>1. /\ RingTypeOK /\ LiveSlots /\ NothingLostSilently
      /\ DrainedInOrder /\ IterBehind /\ IterationMonotone
  BY DEF IInv
<1>2. UNCHANGED <<buf, head, count, dropped, pushed, discarded, drained>>
  BY DEF IterOpen, IterYield, IterEnd, historyVars
<1>3. LiveSlots' /\ NothingLostSilently' /\ DrainedInOrder'
  <2>1. \A i : Slot(i)' = Slot(i)
    BY <1>2 DEF Slot
  <2> QED
    BY <1>1, <1>2, <2>1 DEF LiveSlots, NothingLostSilently, DrainedInOrder
<1>4. CASE IterOpen
  <2>1. yielded' = <<>> /\ iter' = [open |-> TRUE, i |-> 0]
    BY <1>4 DEF IterOpen
  <2> QED
    BY <1>1, <1>2, <1>3, <2>1, EmptySeq, CapacityAssumption, SMT
       DEF IInv, RingTypeOK, IterBehind, IterationMonotone
<1>5. CASE IterEnd
  <2>1. yielded' = yielded /\ iter'.i = iter.i /\ iter' \in [open : BOOLEAN, i : 0 .. Capacity]
    BY <1>1, <1>5 DEF IterEnd, RingTypeOK
  <2> QED
    BY <1>1, <1>2, <1>3, <2>1 DEF IInv, RingTypeOK, IterBehind, IterationMonotone
<1>6. CASE IterYield
  <2>1. /\ iter.i \in 0 .. Capacity /\ iter.i < count /\ count \in 0 .. Capacity
        /\ pushed \in 0 .. MaxPush /\ yielded \in Seq(Item) /\ Len(yielded) \in Nat
    BY <1>1, <1>6, LenProperties DEF IterYield, IterHasNext, RingTypeOK
  <2>2. /\ iter'.i = iter.i + 1
        /\ iter' \in [open : BOOLEAN, i : 0 .. Capacity]
    <3>1. iter.i + 1 \in 0 .. Capacity
      BY <2>1, CapacityAssumption, SMT
    <3> QED
      BY <1>1, <1>6, <3>1 DEF IterYield, RingTypeOK
  <2> DEFINE y == buf[Slot(iter.i)]
  <2>3. y = pushed - count + 1 + iter.i /\ pushed >= count
    BY <1>1, <2>1, CapacityAssumption, SMT DEF LiveSlots, NothingLostSilently, RingTypeOK
  <2>4. y \in Item
    BY <2>1, <2>3, CapacityAssumption, MaxPushAssumption, SMT DEF Item
  <2>5. yielded' = Append(yielded, y)
    BY <1>6 DEF IterYield
  <2> HIDE DEF y
  <2>6. /\ yielded' \in Seq(Item)
        /\ Len(yielded') = Len(yielded) + 1
        /\ \A k \in 1 .. Len(yielded) : yielded'[k] = yielded[k]
        /\ yielded'[Len(yielded) + 1] = y
    BY <2>1, <2>4, <2>5, AppendProperties
  <2>7. \A k \in 1 .. Len(yielded) : yielded[k] \in Nat
    BY <2>1, ItemsAreNumbers
  <2>8. RingTypeOK'
    BY <1>1, <1>2, <2>2, <2>6 DEF RingTypeOK
  <2>9. IterBehind'
    <3>1. Len(yielded') <= iter'.i
      BY <1>1, <2>1, <2>2, <2>6, CapacityAssumption, SMT DEF IterBehind
    <3>2. ASSUME NEW k \in 1 .. Len(yielded')
          PROVE  yielded'[k] < pushed - count + 1 + (iter.i + 1)
      <4>1. CASE k = Len(yielded) + 1
        BY <2>1, <2>3, <2>6, <4>1, CapacityAssumption, MaxPushAssumption, SMT
      <4>2. CASE k \in 1 .. Len(yielded)
        BY <1>1, <2>1, <2>6, <2>7, <4>2, CapacityAssumption, MaxPushAssumption, SMT
           DEF IterBehind
      <4> QED
        BY <2>1, <2>6, <4>1, <4>2, SMT
    <3> QED
      BY <1>2, <2>2, <3>1, <3>2 DEF IterBehind
  <2>10. IterationMonotone'
    <3>1. Len(yielded') <= Capacity
      BY <1>1, <2>1, <2>6, CapacityAssumption, SMT DEF IterBehind
    <3>2. \A k \in 1 .. Len(yielded') : yielded'[k] # Undefined
      BY <1>1, <2>1, <2>3, <2>6, CapacityAssumption, SMT
         DEF IterationMonotone, Undefined
    <3>3. \A k, l \in 1 .. Len(yielded') : k < l => yielded'[k] < yielded'[l]
      <4> SUFFICES ASSUME NEW k \in 1 .. Len(yielded'), NEW l \in 1 .. Len(yielded'), k < l
                   PROVE  yielded'[k] < yielded'[l]
        OBVIOUS
      <4>1. k \in 1 .. Len(yielded) /\ yielded'[k] = yielded[k] /\ yielded[k] \in Nat
        BY <2>1, <2>6, <2>7, SMT
      <4>2. CASE l = Len(yielded) + 1
        BY <1>1, <2>1, <2>3, <2>6, <4>1, <4>2, CapacityAssumption, SMT DEF IterBehind
      <4>3. CASE l # Len(yielded) + 1
        <5>1. l \in 1 .. Len(yielded)
          BY <2>1, <2>6, <4>3, SMT
        <5> QED
          BY <1>1, <2>6, <4>1, <5>1 DEF IterationMonotone
      <4> QED
        BY <4>2, <4>3
    <3> QED
      BY <3>1, <3>2, <3>3 DEF IterationMonotone
  <2> QED
    BY <1>3, <2>8, <2>9, <2>10 DEF IInv
<1> QED
  BY <1>4, <1>5, <1>6

LEMMA StutterIInv == IInv /\ UNCHANGED ringVars => IInv'
BY DEF ringVars, IInv, RingTypeOK, LiveSlots, Slot, NothingLostSilently, DrainedInOrder,
       IterBehind, IterationMonotone

-----------------------------------------------------------------------------
(* The inductive invariant holds in every reachable state of every ring,   *)
(* whatever its capacity.                                                  *)
THEOREM Invariance == RingSpec => []IInv
<1>1. IInv /\ [RingNext]_ringVars => IInv'
  BY PushIInv, ClearIInv, DrainIInv, IterIInv, StutterIInv DEF RingNext
<1> QED
  BY InitIInv, <1>1, PTL DEF RingSpec

(* RingTypeOK: head stays inside the array and count inside 0..capacity        *)
(* whatever the sequence of pushes, drains, clears and iterations.         *)
THEOREM TypeCorrect == RingSpec => []RingTypeOK
<1>1. IInv => RingTypeOK
  BY DEF IInv
<1> QED
  BY Invariance, <1>1, PTL

(* NothingLostSilently: every pushed item is live, handed out, cleared or  *)
(* counted as dropped (ring-buffer.ts:3-4).                                *)
THEOREM Accounting == RingSpec => []NothingLostSilently
<1>1. IInv => NothingLostSilently
  BY DEF IInv
<1> QED
  BY Invariance, <1>1, PTL

(* IterationMonotone: a loop whose body changes the ring yields distinct   *)
(* items in push order, never an emptied slot, in at most Capacity steps   *)
(* (ring-buffer.ts:50-55).                                                 *)
THEOREM Iteration == RingSpec => []IterationMonotone
<1>1. IInv => IterationMonotone
  BY DEF IInv
<1> QED
  BY Invariance, <1>1, PTL

(* DrainedInOrder: drain() never repeats or reorders items                 *)
(* (ring-buffer.ts:76-81).                                                 *)
THEOREM Draining == RingSpec => []DrainedInOrder
<1>1. IInv => DrainedInOrder
  BY DEF IInv
<1> QED
  BY Invariance, <1>1, PTL

-----------------------------------------------------------------------------
(* Refinement: each step of the ring is a step of the bounded log, or      *)
(* leaves it unchanged.                                                    *)

LEMMA PushImplements == IInv /\ IInv' /\ Push => Log!Push
<1> SUFFICES ASSUME IInv, IInv', Push PROVE Log!Push
  OBVIOUS
<1>1. /\ ToArray \in Seq(Item) /\ Len(ToArray) = count
      /\ \A k \in 1 .. count : ToArray[k] = pushed - count + k
  BY ToArrayContents DEF IInv
<1>2. /\ ToArray' \in Seq(Item) /\ Len(ToArray') = count'
      /\ \A k \in 1 .. count' : (ToArray')[k] = pushed' - count' + k
  <2>1. RingTypeOK' /\ LiveSlots' /\ NothingLostSilently'
    BY DEF IInv
  <2>2. (RingTypeOK /\ LiveSlots /\ NothingLostSilently
           => /\ ToArray \in Seq(Item) /\ Len(ToArray) = count
              /\ \A k \in 1 .. count : ToArray[k] = pushed - count + k)'
    BY ToArrayContents, PTL
  <2> QED
    BY <2>1, <2>2
<1>3. /\ pushed < MaxPush /\ pushed' = pushed + 1
      /\ pushed \in Nat /\ count \in 0 .. Capacity /\ pushed + 1 \in Item
  BY MaxPushAssumption, SMT DEF Push, IInv, RingTypeOK, Item
<1> DEFINE old == ToArray
           new == ToArray'
<1> HIDE DEF old, new
<1>4. CASE Overwrite
  <2>1. count = Capacity /\ count' = Capacity /\ dropped' = dropped + 1
    BY <1>4 DEF Overwrite
  <2>2. old # <<>>
    BY <1>1, <2>1, CapacityAssumption, EmptySeq, SMT DEF old
  <2>3. /\ Tail(old) \in Seq(Item) /\ Len(Tail(old)) = count - 1
        /\ \A k \in 1 .. count - 1 : Tail(old)[k] = old[k + 1]
    BY <1>1, <2>2, HeadTailProperties DEF old
  <2>4. /\ Append(Tail(old), pushed + 1) \in Seq(Item)
        /\ Len(Append(Tail(old), pushed + 1)) = count
        /\ \A k \in 1 .. count - 1 : Append(Tail(old), pushed + 1)[k] = old[k + 1]
        /\ Append(Tail(old), pushed + 1)[count] = pushed + 1
    BY <1>3, <2>1, <2>3, AppendProperties, CapacityAssumption, SMT
  <2>5. \A k \in 1 .. count : new[k] = Append(Tail(old), pushed + 1)[k]
    BY <1>1, <1>2, <1>3, <2>1, <2>4, CapacityAssumption, SMT DEF old, new
  <2>6. new = Append(Tail(old), pushed + 1)
    BY <1>2, <2>1, <2>4, <2>5, SeqEqual DEF new
  <2> QED
    BY <1>1, <1>3, <2>1, <2>6 DEF Log!Push, old, new
<1>5. CASE Fill
  <2>1. count # Capacity /\ count' = count + 1 /\ dropped' = dropped
    BY <1>5 DEF Fill
  <2>2. /\ Append(old, pushed + 1) \in Seq(Item)
        /\ Len(Append(old, pushed + 1)) = count + 1
        /\ \A k \in 1 .. count : Append(old, pushed + 1)[k] = old[k]
        /\ Append(old, pushed + 1)[count + 1] = pushed + 1
    BY <1>1, <1>3, AppendProperties DEF old
  <2>3. \A k \in 1 .. count + 1 : new[k] = Append(old, pushed + 1)[k]
    BY <1>1, <1>2, <1>3, <2>1, <2>2, CapacityAssumption, SMT DEF old, new
  <2>4. new = Append(old, pushed + 1)
    BY <1>2, <2>1, <2>2, <2>3, SeqEqual DEF new
  <2> QED
    BY <1>1, <1>3, <2>1, <2>4 DEF Log!Push, old, new
<1> QED
  BY <1>4, <1>5 DEF Push

LEMMA EmptyImplements == (Clear \/ Drain) => Log!Empty
<1> SUFFICES ASSUME Clear \/ Drain PROVE Log!Empty
  OBVIOUS
<1>1. count' = 0 /\ UNCHANGED <<dropped, pushed>>
  BY DEF Clear, Drain, Reset
<1>2. ToArray' = <<>>
  BY <1>1, SMT DEF ToArray
<1> QED
  BY <1>1, <1>2 DEF Log!Empty

LEMMA ReaderStutters ==
    UNCHANGED <<buf, head, count, dropped, pushed>> => UNCHANGED Log!logVars
BY DEF Log!logVars, ToArray, Slot

(* ImplementsLog: the ring implements the bounded drop-oldest log.         *)
THEOREM Implementation == RingSpec => ImplementsLog
<1>1. RingInit => Log!Init
  <2> SUFFICES ASSUME RingInit PROVE Log!Init
    OBVIOUS
  <2>1. ToArray = <<>>
    BY SMT DEF RingInit, ToArray
  <2> QED
    BY <2>1 DEF RingInit, Log!Init
<1>2. IInv /\ IInv' /\ [RingNext]_ringVars => [Log!Next]_(Log!logVars)
  <2> SUFFICES ASSUME IInv, IInv', [RingNext]_ringVars PROVE [Log!Next]_(Log!logVars)
    OBVIOUS
  <2>1. CASE Push
    BY <2>1, PushImplements DEF Log!Next
  <2>2. CASE Clear \/ Drain
    BY <2>2, EmptyImplements DEF Log!Next
  <2>3. CASE IterOpen \/ IterYield \/ IterEnd
    BY <2>3, ReaderStutters DEF IterOpen, IterYield, IterEnd, historyVars
  <2>4. CASE UNCHANGED ringVars
    BY <2>4, ReaderStutters DEF ringVars
  <2> QED
    BY <2>1, <2>2, <2>3, <2>4 DEF RingNext
<1> QED
  BY <1>1, <1>2, Invariance, PTL DEF RingSpec, Log!Spec, ImplementsLog
=============================================================================

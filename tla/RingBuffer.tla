----------------------------- MODULE RingBuffer ------------------------------
(***************************************************************************)
(* core/ring-buffer.ts: a fixed-size ring over a pre-allocated array, with *)
(* one lazily advanced iterator (the generator behind `for ... of`, which  *)
(* reads the LIVE head and count at every resumption, so the loop body may *)
(* push, drain or clear between two of its steps).                         *)
(*                                                                         *)
(* Items are push ordinals, as in DropOldestLog. Several iterators do not  *)
(* affect each other (they only read), so one stands for all.              *)
(***************************************************************************)
EXTENDS Integers, Sequences

CONSTANTS
    Capacity,   \* `capacity`: slots of the backing array
    MaxPush     \* bound: the number of pushes explored

(* The constructor throws a RangeError for anything else (lines 23-25). *)
ASSUME CapacityAssumption == Capacity \in Nat \ {0}
ASSUME MaxPushAssumption == MaxPush \in Nat

VARIABLES
    buf,        \* the backing array, indexed from 0
    head,       \* index of the oldest live item
    count,      \* number of live items
    dropped,    \* items overwritten because the ring was full
    pushed,     \* history: how many items were ever pushed
    discarded,  \* history: how many items clear() threw away
    drained,    \* history: the items drain() handed out, in that order
    iter,       \* the generator: [open, i], i its local loop counter
    yielded     \* history: what the current generator yielded, in order

ringVars == <<buf, head, count, dropped, pushed, discarded, drained, iter, yielded>>

readerVars == <<iter, yielded>>
historyVars == <<discarded, drained>>

Undefined == 0
Item == 1 .. MaxPush
Slots == 0 .. Capacity - 1

Slot(i) == (head + i) % Capacity

(* toArray(): a copy of the live items, oldest to newest. *)
ToArray == [k \in 1 .. count |-> buf[Slot(k - 1)]]

RingInit ==
    /\ buf = [s \in Slots |-> Undefined]
    /\ head = 0
    /\ count = 0
    /\ dropped = 0
    /\ pushed = 0
    /\ discarded = 0
    /\ drained = <<>>
    /\ iter = [open |-> FALSE, i |-> 0]
    /\ yielded = <<>>

-----------------------------------------------------------------------------
(* Mutants: ways the operations below could be wrong. *)

OverwriteKeepsHead ==
    /\ count = Capacity
    /\ buf' = [buf EXCEPT ![head] = pushed + 1]
    /\ dropped' = dropped + 1
    /\ UNCHANGED <<head, count>>

OverwriteSilently ==
    /\ count = Capacity
    /\ buf' = [buf EXCEPT ![head] = pushed + 1]
    /\ head' = Slot(1)
    /\ UNCHANGED <<dropped, count>>

FillWhenFull ==
    /\ buf' = [buf EXCEPT ![Slot(count)] = pushed + 1]
    /\ count' = count + 1
    /\ UNCHANGED <<head, dropped>>

IterHasNextEverySlot == iter.i < Capacity

-----------------------------------------------------------------------------
(* push(item) on a full ring overwrites the oldest item and counts it. *)
Overwrite ==
    /\ count = Capacity
    /\ buf' = [buf EXCEPT ![head] = pushed + 1]
    /\ head' = Slot(1)
    /\ dropped' = dropped + 1
    /\ UNCHANGED count

(* push(item) with room left. *)
Fill ==
    /\ count # Capacity
    /\ buf' = [buf EXCEPT ![Slot(count)] = pushed + 1]
    /\ count' = count + 1
    /\ UNCHANGED <<head, dropped>>

Push ==
    /\ pushed < MaxPush
    /\ pushed' = pushed + 1
    /\ Overwrite \/ Fill
    /\ UNCHANGED <<historyVars, readerVars>>

(* The effect of clear() on the ring itself. *)
Reset ==
    /\ buf' = [s \in Slots |->
                 IF \E i \in 0 .. count - 1 : s = Slot(i) THEN Undefined ELSE buf[s]]
    /\ head' = 0
    /\ count' = 0
    /\ UNCHANGED <<dropped, pushed, readerVars>>

Clear ==
    /\ Reset
    /\ discarded' = discarded + count
    /\ UNCHANGED drained

Drain ==
    /\ drained' = drained \o ToArray
    /\ Reset
    /\ UNCHANGED discarded

(* [Symbol.iterator]() hands out a fresh generator; nothing is read yet. *)
IterOpen ==
    /\ ~iter.open
    /\ iter' = [open |-> TRUE, i |-> 0]
    /\ yielded' = <<>>
    /\ UNCHANGED <<buf, head, count, dropped, pushed, historyVars>>

(* The loop test, on the live count. *)
IterHasNext == iter.i < count

(* next(): re-reads head and count and yields one item. *)
IterYield ==
    /\ iter.open
    /\ IterHasNext
    /\ yielded' = Append(yielded, buf[Slot(iter.i)])
    /\ iter' = [iter EXCEPT !.i = @ + 1]
    /\ UNCHANGED <<buf, head, count, dropped, pushed, historyVars>>

(* The generator ends: its loop is over, or the consumer left early, as    *)
(* find() does at the first match.                                         *)
IterEnd ==
    /\ iter.open
    /\ iter' = [iter EXCEPT !.open = FALSE]
    /\ UNCHANGED <<buf, head, count, dropped, pushed, historyVars, yielded>>

RingNext == Push \/ Clear \/ Drain \/ IterOpen \/ IterYield \/ IterEnd

RingSpec == RingInit /\ [][RingNext]_ringVars

-----------------------------------------------------------------------------
RingTypeOK ==
    /\ buf \in [Slots -> Item \union {Undefined}]
    /\ head \in Slots
    /\ count \in 0 .. Capacity
    /\ dropped \in Nat
    /\ pushed \in 0 .. MaxPush
    /\ discarded \in Nat
    /\ drained \in Seq(Item)
    /\ iter \in [open : BOOLEAN, i : 0 .. Capacity]
    /\ yielded \in Seq(Item)

(* The live slots hold exactly the `count` most recent items, oldest at    *)
(* head; every other slot was cleared, so the ring pins no dead item.      *)
LiveSlots ==
    /\ \A i \in 0 .. count - 1 : buf[Slot(i)] = pushed - count + 1 + i
    /\ \A i \in count .. Capacity - 1 : buf[Slot(i)] = Undefined

(* Every item ever pushed is live, was handed out by drain, thrown away by *)
(* clear, or counted in `dropped`: nothing disappears uncounted            *)
(* (invariant #2 of the header, lines 3-4).                                *)
NothingLostSilently ==
    pushed = count + dropped + discarded + Len(drained)

(* drain() hands out items in push order and never the same item twice,    *)
(* across any number of drains, wrap-arounds and evictions (lines 77-81).  *)
DrainedInOrder ==
    /\ \A k, l \in 1 .. Len(drained) : k < l => drained[k] < drained[l]
    /\ \A k \in 1 .. Len(drained) : drained[k] <= pushed - count

(* A loop over the ring (lines 51-55) whose body pushes, drains or clears  *)
(* still sees items oldest-to-newest: it may skip items, but never repeats *)
(* one, goes back to an older one, or sees an emptied slot, and it ends    *)
(* after at most `capacity` steps even if every step pushes.               *)
IterationMonotone ==
    /\ Len(yielded) <= Capacity
    /\ \A k \in 1 .. Len(yielded) : yielded[k] # Undefined
    /\ \A k, l \in 1 .. Len(yielded) : k < l => yielded[k] < yielded[l]

(* The ring implements the bounded log: its live slots, read from head,    *)
(* are the log, and `dropped` counts the same items.                       *)
Log == INSTANCE DropOldestLog WITH kept <- ToArray

ImplementsLog == Log!Spec
=============================================================================

----------------------------- MODULE BatchFlusher ----------------------------
(***************************************************************************)
(* core/flush.ts: rows are staged by add() and handed to `onFlush` in      *)
(* batches - by the interval timer, by hand, by stop(), or early when the  *)
(* staging buffer reaches `maxBatch`.                                      *)
(*                                                                         *)
(* onFlush is the application's: it may return, throw, or call back into   *)
(* the flusher before it does either (an exporter whose own traffic is     *)
(* probed adds rows while it ships). So a call of onFlush is a frame on a  *)
(* stack, and everything but the timer may happen while it is open.        *)
(* Rows are named by the order in which they were added.                   *)
(***************************************************************************)
EXTENDS Naturals, Sequences, FiniteSets

CONSTANTS
    MaxBatch,   \* `maxBatch`; more than MaxAdded stands for Infinity
    MaxAdded,   \* bound: rows added
    MaxDepth,   \* bound: nested calls of onFlush
    MaxStops    \* bound: calls of stop() that stop a running timer

ASSUME FlusherAssumption ==
    /\ MaxBatch \in Nat \ {0} /\ MaxAdded \in Nat /\ MaxDepth \in Nat /\ MaxStops \in Nat

VARIABLES
    batch,          \* the staged rows
    handle,         \* is the interval timer set?
    flushCount,
    droppedBatches,
    droppedRows,
    calls,          \* open calls of onFlush, innermost last; each is its batch
    handed,         \* history: every row passed to onFlush, in that order
    delivered,      \* history: the batches whose onFlush returned
    failed,         \* history: the batches whose onFlush threw
    stops           \* history: how often the timer was stopped

counters == <<flushCount, droppedBatches, droppedRows>>
outcomes == <<delivered, failed>>
vars == <<batch, handle, counters, calls, handed, outcomes, stops>>

added == Len(handed) + Len(batch)

Init ==
    /\ batch = <<>>
    /\ handle = FALSE
    /\ flushCount = 0 /\ droppedBatches = 0 /\ droppedRows = 0
    /\ calls = <<>>
    /\ handed = <<>>
    /\ delivered = {} /\ failed = {}
    /\ stops = 0

-----------------------------------------------------------------------------
(* Mutants: ways the definitions below could be wrong. *)

(* the buffer is emptied only once onFlush has returned *)
HandOverKeepsBatch(staged) ==
    /\ batch' = staged
    /\ calls' = Append(calls, staged)
    /\ handed' = handed \o staged
    /\ flushCount' = flushCount + 1

FullTooLate(staged) == Len(staged) > MaxBatch

ThrowUncounted ==
    /\ failed' = failed \union {calls[Len(calls)]}
    /\ UNCHANGED <<delivered, flushCount, droppedBatches, droppedRows>>

StopWithoutFlush ==
    /\ handle
    /\ stops < MaxStops
    /\ handle' = FALSE
    /\ stops' = stops + 1
    /\ UNCHANGED <<batch, calls, handed, flushCount, droppedBatches, droppedRows, outcomes>>

-----------------------------------------------------------------------------
(* flushNow() up to its call of onFlush: the buffer is swapped first, so   *)
(* what the handler adds goes into the next batch.                         *)
HandOver(staged) ==
    /\ batch' = <<>>
    /\ calls' = Append(calls, staged)
    /\ handed' = handed \o staged
    /\ flushCount' = flushCount + 1

FlushNow(staged) ==
    /\ IF staged = <<>>
         THEN UNCHANGED <<batch, calls, handed, flushCount>>
         ELSE HandOver(staged)
    /\ UNCHANGED <<droppedBatches, droppedRows, outcomes>>

(* Can another onFlush be called within the bound on nesting?              *)
MayNest == Len(calls) < MaxDepth

Full(staged) == Len(staged) >= MaxBatch

(* add(item); addAll(items) is a sequence of these.                        *)
Add ==
    /\ added < MaxAdded
    /\ MayNest
    /\ LET staged == Append(batch, added + 1)
       IN  IF Full(staged)
             THEN FlushNow(staged)
             ELSE /\ batch' = staged
                  /\ UNCHANGED <<calls, handed, counters, outcomes>>
    /\ UNCHANGED <<handle, stops>>

(* flushNow() by hand, perhaps from within onFlush.                        *)
Manual ==
    /\ MayNest
    /\ FlushNow(batch)
    /\ UNCHANGED <<handle, stops>>

(* The interval timer fires: never while a handler is running.             *)
Tick ==
    /\ handle
    /\ calls = <<>>
    /\ FlushNow(batch)
    /\ UNCHANGED <<handle, stops>>

Start ==
    /\ ~handle
    /\ handle' = TRUE
    /\ UNCHANGED <<batch, calls, handed, counters, outcomes, stops>>

(* stop() clears the timer and flushes what is left; it does nothing when  *)
(* the timer is not running.                                               *)
Stop ==
    /\ handle
    /\ stops < MaxStops
    /\ MayNest
    /\ handle' = FALSE
    /\ stops' = stops + 1
    /\ FlushNow(batch)

Throw ==
    /\ failed' = failed \union {calls[Len(calls)]}
    /\ droppedBatches' = droppedBatches + 1
    /\ droppedRows' = droppedRows + Len(calls[Len(calls)])
    /\ UNCHANGED <<delivered, flushCount>>

Return ==
    /\ delivered' = delivered \union {calls[Len(calls)]}
    /\ UNCHANGED <<failed, counters>>

(* The innermost onFlush ends, and flushNow() with it.                     *)
CallEnds ==
    /\ calls # <<>>
    /\ calls' = SubSeq(calls, 1, Len(calls) - 1)
    /\ UNCHANGED <<batch, handle, handed, stops>>

OnFlushEnds == CallEnds /\ (Return \/ Throw)

Next == Add \/ Manual \/ Tick \/ Start \/ Stop \/ OnFlushEnds

Spec == Init /\ [][Next]_vars

(* The timer keeps firing while it is set, and onFlush, synchronous code,  *)
(* ends. Nobody has to add, start, stop or flush by hand.                  *)
FairSpec == Spec /\ WF_vars(Tick) /\ WF_vars(OnFlushEnds)

-----------------------------------------------------------------------------
Rows(b) == {b[i] : i \in 1 .. Len(b)}
InBatches(batches) == UNION {Rows(b) : b \in batches}
InHandler == UNION {Rows(calls[i]) : i \in 1 .. Len(calls)}

Number == 1 .. MaxAdded

TypeOK ==
    /\ batch \in Seq(Number)
    /\ handle \in BOOLEAN
    /\ flushCount \in Nat /\ droppedBatches \in Nat /\ droppedRows \in Nat
    /\ calls \in Seq(Seq(Number))
    /\ handed \in Seq(Number)
    /\ delivered \in SUBSET Seq(Number) /\ failed \in SUBSET Seq(Number)
    /\ stops \in Nat
    /\ added <= MaxAdded

(* onFlush is handed every row once and in the order of the adds, even     *)
(* when it calls back into the flusher or throws (lines 77-91): what it    *)
(* got, followed by what is staged, is what was added.                     *)
HandedOnceInOrder ==
    \A i \in 1 .. added : (handed \o batch)[i] = i

(* The counters tell the truth about the holes in the timeline (lines      *)
(* 40-43): a row that was handed over is in an open call, in a batch that  *)
(* was delivered, or in one counted as dropped, and in only one of them.   *)
NoSilentLoss ==
    LET lost == InBatches(failed)
        kept == InHandler \union InBatches(delivered)
    IN  /\ 1 .. Len(handed) = kept \union lost
        /\ kept \intersect lost = {} /\ InHandler \intersect InBatches(delivered) = {}
        /\ droppedRows = Cardinality(lost)
        /\ droppedBatches = Cardinality(failed)
        /\ flushCount = Cardinality(delivered) + Cardinality(failed) + Len(calls)

(* The staging buffer stays below its cap (lines 24-28), whatever the      *)
(* handler adds while it runs.                                             *)
StagingBounded == Len(batch) < MaxBatch

(* Every row that is staged while the timer runs reaches onFlush, also     *)
(* when the timer is stopped in the meantime (lines 98-111).               *)
RunningFlushes ==
    \A n \in Number : (Len(handed) < n /\ n <= added /\ handle) ~> n <= Len(handed)
=============================================================================

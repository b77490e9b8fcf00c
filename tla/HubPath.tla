------------------------------- MODULE HubPath --------------------------------
(***************************************************************************)
(* The way of a row to the hub (exporters/hyperswarm.ts): a BatchFlusher   *)
(* whose onFlush redacts the batch (Redactor.redactBatch) and exports it   *)
(* row by row, each row encoded, framed and written to the stream.         *)
(*                                                                         *)
(* Redaction may throw, and with it onFlush. A row that fails to encode or *)
(* to be written goes to `onError`, if the exporter was given one, and the *)
(* next row follows; but onError itself may throw, out of export() and of  *)
(* onFlush. The stream may be probed and onError may log, so both may call *)
(* the flusher while an export is under way.                               *)
(***************************************************************************)
EXTENDS BatchFlusher, Functions

VARIABLES
    at,         \* at[d]: how far the d-th open call of onFlush is
    hook,       \* was the exporter given an `onError`?
    wire,       \* history: the rows written to the stream, in that order
    reported,   \* history: the rows whose error was passed to onError
    unseen,     \* history: the rows whose error went nowhere
    refused     \* history: the batches whose redaction threw

fates == <<hook, wire, reported, unseen>>
sent == <<fates, refused>>
hubVars == <<vars, at, sent>>

(* "redact": not redacted yet; "export": row `next` is up; "written" and   *)
(* "onError": within stream.write() or onError() of that row.              *)
Progress == [phase : {"redact", "export", "written", "onError"}, next : Nat \ {0}]

HubInit ==
    /\ Init
    /\ at = <<>>
    /\ hook \in BOOLEAN
    /\ wire = <<>> /\ reported = {} /\ unseen = {} /\ refused = {}

Busy == calls # <<>>
Now == at[Len(at)]
Batch == calls[Len(calls)]

Enter(phase) == at' = [at EXCEPT ![Len(at)].phase = phase]
Leave == at' = SubSeq(at, 1, Len(at) - 1)
NextUp == at' = [at EXCEPT ![Len(at)] = [phase |-> "export", next |-> @.next + 1]]

-----------------------------------------------------------------------------
(* Mutants: ways the definitions below could be wrong. *)

RedactThrowsExportsAnyway ==
    /\ refused' = refused \union {Batch}
    /\ Enter("export")
    /\ UNCHANGED <<vars, fates>>

FailsEndsExport ==
    /\ Return /\ CallEnds
    /\ Leave
    /\ UNCHANGED sent

-----------------------------------------------------------------------------
(* The application runs when nothing does, and as the stream or onError.   *)
AppRuns == Busy => Now.phase \in {"written", "onError"}

(* A step of the flusher; if it calls onFlush, that begins with redaction. *)
FlusherStep(A) ==
    /\ A
    /\ at' = IF Len(calls') > Len(calls) THEN Append(at, [phase |-> "redact", next |-> 1]) ELSE at
    /\ UNCHANGED sent

AppStep == AppRuns /\ FlusherStep(Add \/ Manual \/ Start \/ Stop)

HubTick == FlusherStep(Tick)

(* redactBatch(): all rows or, when one throws, none.                      *)
Redacts ==
    /\ Enter("export")
    /\ UNCHANGED <<vars, sent>>

RedactThrows ==
    /\ refused' = refused \union {Batch}
    /\ Throw /\ CallEnds
    /\ Leave
    /\ UNCHANGED fates

Redact ==
    /\ Busy /\ Now.phase = "redact"
    /\ Redacts \/ RedactThrows

(* One turn of the loop of export(): write() takes the frame ...           *)
Writes ==
    /\ wire' = Append(wire, Batch[Now.next])
    /\ Enter("written")
    /\ UNCHANGED <<vars, hook, reported, unseen, refused>>

(* ... or encode() or write() throws: `onError?.(err)` calls what is there. *)
Fails ==
    /\ IF hook
         THEN reported' = reported \union {Batch[Now.next]} /\ Enter("onError") /\ UNCHANGED unseen
         ELSE unseen' = unseen \union {Batch[Now.next]} /\ NextUp /\ UNCHANGED reported
    /\ UNCHANGED <<vars, hook, wire, refused>>

ExportRow ==
    /\ Busy /\ Now.phase = "export" /\ Now.next <= Len(Batch)
    /\ Writes \/ Fails

(* write() or onError() returns, and the next row is up.                   *)
RowDone ==
    /\ Busy /\ Now.phase \in {"written", "onError"}
    /\ NextUp
    /\ UNCHANGED <<vars, sent>>

(* Nothing catches what onError() throws but flushNow().                   *)
OnErrorThrows ==
    /\ Busy /\ Now.phase = "onError"
    /\ Throw /\ CallEnds
    /\ Leave
    /\ UNCHANGED sent

ExportEnds ==
    /\ Busy /\ Now.phase = "export" /\ Now.next > Len(Batch)
    /\ Return /\ CallEnds
    /\ Leave
    /\ UNCHANGED sent

HandlerStep == Redact \/ ExportRow \/ RowDone \/ OnErrorThrows \/ ExportEnds

HubNext == AppStep \/ HubTick \/ HandlerStep

(* The timer fires while it is set, and onFlush, synchronous code, goes on.*)
HubSpec == HubInit /\ [][HubNext]_hubVars /\ WF_hubVars(HubTick) /\ WF_hubVars(HandlerStep)

-----------------------------------------------------------------------------
(* The rows of the open calls whose turn is still to come.                 *)
ToCome ==
    UNION {{calls[d][i] : i \in (IF at[d].phase \in {"written", "onError"} THEN at[d].next + 1
                                 ELSE at[d].next) .. Len(calls[d])} : d \in 1 .. Len(calls)}

(* The rows that failed, heard of or not.                                  *)
Lost == reported \union unseen

(* One failing row costs the hub that row and no other (hyperswarm.ts:     *)
(* 49-57), however exports are nested: a row that was handed over is       *)
(* written once, failed itself, is still to come, or is in a batch that    *)
(* droppedRows counts. Every error of a row is passed to onError if there  *)
(* is one; if not - the default (hyperswarm.ts:27, 44, 55) - the row is    *)
(* missing at the hub and nothing tells.                                   *)
FailureCostsItsRow ==
    /\ IsInjective(wire)
    /\ Range(wire) \intersect (Lost \union ToCome) = {}
    /\ 1 .. Len(handed) \ InBatches(failed) \subseteq Range(wire) \union Lost \union ToCome
    /\ droppedRows >= Cardinality(1 .. Len(handed) \ (Range(wire) \union Lost \union ToCome))
    /\ hook => unseen = {}

(* "continuing past a failure would export an unredacted batch" (flush.ts  *)
(* 74-75): of a batch whose redaction threw, no row ever reaches the hub.  *)
RefusedStaysHere ==
    InBatches(refused) \intersect (Range(wire) \union Lost \union ToCome) = {}
=============================================================================

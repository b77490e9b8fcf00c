# A verification of hrpc-inspector-probe

TLA+ models of the probe's collector and redactor (`core/`), its clocks
(`clock/`), its framing (`transport/`), its hub path (`exporters/`), the taps
and polls of its adapters (`adapters/`) and the invariants their comments
promise, checked with TLC on small instances; and TLAPS proofs of what matters
most, for every value of the parameters. Each definition names what it models
in `PROJECT.json` ("map": source file and lines).

## 1. The system

The probe observes a peer-to-peer application from inside it. Adapters tap the
transports (L1) and emit events; the collector (L2) turns events into rows of a
timeline; a flusher ships rows in batches; an exporter frames each row and
writes it to a hub, whose framer takes the stream apart again. Everything runs
on one JavaScript thread. What interleaves is callbacks: timers, transport
events, and application code (`onFlush`, `onMessage`, a loop body over the
ring) that calls back into the object that called it.

| Component (file) | State | Operations | Hard part | What makes it correct |
| --- | --- | --- | --- | --- |
| Row ring (`core/ring-buffer.ts`) | `buf`, `head`, `count`, `dropped` | push, drain, clear, toArray, iterator, find | wrap-around; an iterator that re-reads live state while its loop body changes the ring | no row disappears uncounted; loops see each row once, in order |
| Correlator (`core/correlator.ts`) | `pending` (map), `settled` (set), ring of rows, counters | request, response, sweep | two caps that evict; answers late, duplicated or from strangers; a sweep deleting from the map it walks | every request has exactly one fate; a timeout row leaves out no peer that stayed silent |
| Event seam (`core/sink.ts`) | the correlator's | emit, sweep | a broadcast is announced target by target while answers come back | no announcement overwrites a live request; no request hangs |
| Flusher (`core/flush.ts`) | staged `batch`, timer `handle`, counters | add, flushNow, start, stop | `onFlush` throws or calls back; timer against stop; cap | each row shipped once in order, or counted as lost |
| Framer (`transport/framing.ts`) | `buffer` | encodeFrame, push | chunks cut anywhere; `onMessage` throws or pushes | messages come out whole, once, in order, at once |
| Hybrid clock (`clock/hlc.ts`) | physical part and counter per node | send, update, recv, compare | wall clocks that jump; messages lost, duplicated, reordered | the order is total, causal, and not ahead of every clock |
| Offset and skew (`clock/offset.ts`, `clock/skew.ts`) | window of samples, cached estimate | addSample, estimate, normalize, skewConfidence | cache against live window; median against lowest-RTT sample; clocks that step | what is drawn as precise is near its place; a step is caught up with |
| Exporter (`exporters/hyperswarm.ts`) | the batch under way | export | one row fails; `onError` throws; a probed stream calls the flusher back | a failing row costs no other row; an `onError`, if there is one, hears of it; nothing is written twice |
| Adapters (`adapters/*.ts`, `src/sink.ts`) | wrapped methods, listeners, the stats timer | instrument, restore, taps, poll | taps stacked and restored in any order; re-entrant sinks; polls that overlap and outlive `restore()` | the application sees what it would have seen without them; each poll has one outcome of its own |
| Redactor (`core/redactor.ts`) | the lists of fields and methods | redact, redactBatch | a name in several lists; values that are cyclic, shared, deep, or throw when read | no listed string leaves whole but an allowed body or a broadcast; hashing a body fits the stack |
| Sampler (`core/sampler.ts`) | a rate | keep | none | a pure function of the row |
| Native probes (`native/`) | pending-send metadata by id | registerOutgoing, tapSend | metadata that arrives after its send, or never | bounded; each send gets its own metadata |

Interactions: adapters -> `CollectorSink.emit` -> `Collector.request/response`
-> ring; the owner's timer -> `sweep`; rows -> `BatchFlusher.add` -> `onFlush`
-> redactor -> exporter -> `encodeFrame` -> stream -> `StreamFramer.push` on
the other end. The `hazards` of `PROJECT.json` list, line by line, what can go
wrong in this that a unit test would hardly reach, and which property is on
guard.

## 2. Modules

    DropOldestLog <-- implements -- RingBuffer <-- RingBufferProofs
    InsertionOrder <-- Collector <-- CollectorSink
    CollectorSink <-- CollectorProofs
    BatchFlusher <-- HubPath <-- HubPathProofs
    HybridClock, OffsetEstimator <-- ClockProofs
    Redactor <-- RedactorProofs
    StatsPoll <-- StatsPollProofs
    MessageChannel <-- implements -- StreamFramer <-- StreamFramerProofs
    HostObject <-- implements -- SendTap <-- SendTapProofs

`MC*` modules and their `.cfg` files give the constants their values for TLC.
Definitions under the heading "Mutants" are wrong versions of an operation, each
one bug: with it in place of the real one, some property must fail. They are no
part of the models.

`MCCore` and `MCEdge` put specifications that share nothing side by side, three
each: a variable `part` says which of them a behaviour runs, and the others stay
in one initial state. A run of such a module checks its parts one after the
other, and no interaction: there is none.

**RingBuffer.** `buf`, `head`, `count`, `dropped` are the class's fields.
`Overwrite` and `Fill` are the two branches of `push`; `Drain`, `Clear` the
methods. The generator behind `for ... of` is lazy, so `IterOpen`, `IterYield`
and `IterEnd` are steps of their own, between which the loop body may do
anything to the ring; `find()` is an iteration left early. Items are push
ordinals: a ring never looks inside an item. `DropOldestLog` is the promise: a
sequence that loses its oldest item when full, and counts it.

**Collector.** `pending` and `settled` are a JavaScript Map and Set: records
with an insertion position (`InsertionOrder`), because eviction and iteration
order depend on it and re-insertion keeps its place. `Request`, `Response` (its
branches `Answer` and `Late`) and `sweep` are the methods; `sweep` takes one
step per turn of its loop (`SweepVisit`), because it deletes from the map it is
walking. It is synchronous, so other operations wait (`Idle`). `rows` is every
row pushed, `RingBuffer` says which of them are retained. `evicted` and
`replaced` record fates the code only counts, or not even that.

**CollectorSink.** `emit()` over the same state: `RequestStart` registers or
extends a request, `PeerAnswered` passes on an answer, everything else falls
through. An event may name no peer. Nothing orders the announcements of a
broadcast against its answers: a peer announced after it answered is awaited
again, or opens the request anew if its answer had settled it.

**BatchFlusher.** `onFlush` is the application's, so a call of it is an entry
of the stack `calls` for as long as it is open. While it is, `Add`, `Manual`,
`Start` and `Stop` may happen (it called them); `Tick` may not (one thread).
`OnFlushEnds` returns or throws.

**HubPath.** The flusher with the `onFlush` it has in a deployment: redact the
batch, then export it row by row. The flusher's own actions are reused
(`FlusherStep`), and each open call has its progress in `at`: `Redact`,
`ExportRow`, `RowDone`, `OnErrorThrows`, `ExportEnds` are the steps of the
handler. A row may fail to encode or to be written, `onError` may be absent
(`hook`) or throw, and both it and the stream may call the flusher back
(`AppRuns`), so exports nest. `wire`, `reported` and `refused` are what an
observer of the stream, of `onError` and of the redactor would have noted;
`unseen` are the rows that failed with no `onError` to tell. In place of an abstract
specification of its own, the hub path implements that of the flusher.

**OffsetEstimator.** `Probe` is one exchange: a sample is wrong by half the
difference of its legs. `Reestimate` and `Serve` are `reestimate()` and
`estimate()`; the local clock, which may be set back (`SetBack`), counts only
as the age of the cached estimate. `PeerSteps` is an adjustment of the clock to
be estimated. The rest are functions: `EstimateOf` (lowest-RTT sample or
median), `HalfWidth`, `Confidence` and `Hatched` of `skewConfidence`.

**Redactor.** The initial states are all ways to list a field's name in the
option sets, with all kinds of value; `Claim` is the order in which `redact()`
asks for the sets. A body or ciphertext is hashed over a canonical form, for
which `sortDeep()` walks an object that belongs to the application. That walk is
the rest of the module, one call or return per step (`Walk`, `Member`, `Leave`,
`GetterThrows`); what an object holds is decided when it is first read, so all
graphs are covered, with cycles and shared objects. The same steps are those of
`redactPeerValue()` on the arrays of a peer's field; there nothing is `Cut`, and
the engine's stack, of `StackLimit` calls, may `Overflow`.

**StatsPoll.** `instrumentPeerConnection()`: `Instrument`, `RestorePoll`,
connection events (`Change`), the timer's `Poll`, and the answers, which come in
any order, late or never. A connection without a `removeEventListener`
(`detachable`) keeps its listeners. `uncaught` lists the errors that nothing
caught, each with the poll whose promise rejected. `shown` relates a
`conn.stats` event to the report it was made of; the choice of the candidate
pair and its route (`extractRelevant`) are functions of the report's entries in
the order its container yields them.

**HybridClock.** `Local` is `send()` and `update()`, `HlcRecv` is `recv()`. A
message is a stamp in the log that may be received at any time, any number of
times, or never, which covers loss, duplication and reordering. `now()` returns
anything at each call. Its specification is `HlcSpec`, so that one module can
extend both clocks.

**StreamFramer.** Bytes are numbers below `Base`, the prefix is `PrefixBytes`
of them, big-endian, so a payload can look like a length. `Push(n)` takes the
next n bytes, n = 0 included; `Run` is one turn of the loop of `push()` and
ends in a call of `onMessage` (which then is open, as in the flusher) or in the
return of `push()`. `OnMessageReturns` resumes the outer loop with whatever the
buffer holds by then. `MessageChannel` is the promise: a queue of whole
messages.

**SendTap.** What the outbound taps of the three adapters have in common: a
wrapper takes the place of an object's `send` (`write`), calls what it found
there, emits an event and returns what it got. `orig` is each tap's `origSend`.
A call of `send()` enters one frame of `stack` per wrapper, the object's own
method last. `OwnEnds` lets that method work or throw; its result passes out
through the wrappers, each of which emits (`Emit`) before it returns
(`EmitEnds`). Nothing but reads happens on the way in, so `Send` enters all
frames in one step. While an `emit()` is open, its sink may send, instrument and
restore (`AppRuns`), which puts further calls on top of the stack. `chain`,
`calls` and `events` are history; `live` and `nested` say whether every restore
undid the newest tap, `removable` whether the object gives its listeners back.
Where they differ, the adapters appear side by side: the catch of `webrtc.ts`
and `websocket.ts` can take an error of the probe for one of `send()`, the one
of `hyperswarm.ts` cannot (`InsideTry`). That matters only if `now()` throws:
`Spec` is for a clock that works, `FaultySpec` for one that may not. A
WebSocket's instances keep the wrapper they were constructed with: one tap per
object, the case of a single `Install`. `HostObject` is the promise: the object
without taps.

## 3. What the runs show

| Run | Instance | Properties |
| --- | --- | --- |
| `core` | three parts: | |
| - ring | 3 slots, 7 pushes | `NothingLostSilently`; `IterationMonotone`: a loop sees distinct items in push order; refinement `ImplementsLog` |
| - collector | 3 corrIds, 2 peers, 2 pending, 1 settled, 4 rows | types; `MemoryBounded`; `EveryRequestAccounted`: open, answered, timed out, evicted or replaced, and never reported twice; `TimeoutNamesSilent`: a timeout row names the peers with no answer on record and counts the answers on record; `RowsReadable`: a reader who pairs rows by corrId reads them right, and nothing follows a timeout row; `SweepComplete` |
| - redactor | 4 objects with 2 members, depth limit 3, a stack of 4 calls | `WalksEveryWay`: every way to an object is walked once, up to a cycle or the limit; `AllowlistOpensBodiesOnly`: what leaves as it is; `StackSuffices`: only a peer's arrays can overflow the stack |
| `sink` | the same with 3 rows | `NothingOverwritten`; `PendingInAgeOrder`: the cap evicts the request that waited longest; `SilenceIsNamed`; liveness `NoRequestHangs` |
| `hub` | cap 3, 5 rows, nesting 2, 2 stops | `HandedOnceInOrder`; `NoSilentLoss`: delivered, in hand or counted as dropped; `StagingBounded`; `FailureCostsItsRow`: what the hub lacks failed itself or is in `droppedRows`, and an `onError` hears of each that failed; `RefusedStaysHere`; liveness `RunningFlushes` |
| `framer` | binary bytes, 2-byte prefix, payloads of 0 to 2 bytes, 4 messages, nesting 3 | `Aligned`: the buffer starts where a frame starts; `NothingHeldBack`; refinement `ImplementsChannel`; liveness `EveryMessageDelivered` |
| `estimator` | window of 3, 4 pairs of legs, a step of 100 ms | `LowestRttContains`; `PlacedWithin`: an estimate misplaces an event by at most the floor and twice the spread; `PreciseLaneIsNear`: the same for a lane drawn as precise while half the window is from before a step; liveness `Recovers` |
| `edge` | three parts: | |
| - taps | 2 taps, 3 sends, 1 inbound message | `ReportedOnce`: each tap reports each send once, with its outcome, innermost first; `AmountBeforeSend`; `WrappedByLive`: while taps are undone newest first, a send goes through the live taps and no other; refinement `ImplementsHost` |
| - poller | 2 polls, 1 connection event | `OneOutcomePerPoll`: each poll that is done has one event or an unhandled rejection of its own, never both; `StatsTellTheRoute`: the event names the pair in use, its route and the total loss, whatever the order of the entries; `QuietAfterRestore`: what comes after `restore()` are answers to polls already made, and connection events if the listeners do not come off |
| - clocks | 2 nodes, 3 clock values, 5 events | `CausalOrder`; `StampsUnique`; `PhysicalIsObserved`: no stamp is ahead of every clock in its past |

**Bounds.** Seven pushes take a ring of three twice around, with drains and
clears at every offset. Three corrIds against two pending and one settled place
make both caps evict, and re-use an id that was evicted, forgotten or is still
live; two peers are enough for a fan-out that is half answered, and a second
answer of either stands for a stranger. A timeout of 0 ticks makes a request
overdue one tick after it was sent, so a horizon of two ticks has fresh and
overdue requests side by side, and rows before and after a sweep. Five rows with
a cap of three are one batch shipped early and one by hand or timer, or many
shipped in between, one inside another; two nested exports are enough for the
rows of one to pass those of the other. In the framer, `<<0, 1>>` is a payload
that reads as a length, and four messages let one chunk end inside a prefix
while several complete frames lie before it. Two taps nest, cross and are undone
in either order, also from inside a sink; three sends let a sink's own send be
tapped and its sink send again. Five events give a message received twice, out
of order and across a node that answers it. The legs of the estimator are fast
and even, or slow one way or the other; its step is larger than any distortion,
so samples from before and after it disagree; a window of three holds a majority
of either. Four objects give two ways to the same one, cycles of every length up
to four, and chains of four that are no cycles: with a depth limit of three, a
cycle through one or two is cut by `seen` before the limit is reached, and the
limit alone cuts the chains. A stack of four calls is the smallest that leaves
`sortDeep()` room; a peer's arrays overrun it in cycles of every length. Every
graph is walked for three fields (a ciphertext, a body, a peer); for the other
listings, whose walk is the same, the value has no object inside but itself. Two
polls overlap, and are answered in either order around `restore()`. Each bound
is named in the module's CONSTANTS and sits in the guard of the action it stops.
`core` and `edge` switch deadlock checking off: `redact()` returns, and the
actions of the clocks end with `MaxEvents`.

**Fairness.** `HubPath` and `StreamFramer` assume that synchronous code goes on
(a callback ends, an export takes its next step), that a set timer fires, and
that a reliable stream hands over what was written. Nobody has to add, write,
flush, start or stop. `Recovers` is for a caller who keeps probing and keeps
asking for estimates while time passes: nothing in `clock/offset.ts` does so
itself. For the sink, `core/sink.ts:43` leaves calling `sweep` to its owner;
`NoRequestHangs` is stated for an owner who keeps calling it (weak fairness)
while time passes (strong fairness, since a running sweep disables the tick). No
peer ever has to answer.

### Where comments and code differ

Each is a run that must end in a violation, of a property that states the comment.

- `interval_finding`: the half-width of `skewConfidence` is half the lowest
  round-trip time plus half the spread (`clock/skew.ts:67`), but an estimate of
  low variance is a median, which may come from a slower sample; the true offset
  is then outside the interval in which `clock/skew.ts:12-13` places it. What
  does hold is `PlacedWithin`, with the whole spread on either side.
- `probe_throws_finding`: `now()` is evaluated inside the try that rethrows, and
  again in its catch (`adapters/webrtc.ts:173`), so a clock that throws makes
  `send()` throw the probe's error after the data was sent;
  `adapters/webrtc.ts:8` says "Never throw from the probe: every emit path is
  wrapped". The run uses `FaultySpec`.
- `rejection_finding`: the handler of `catch()` calls `now()` outside of
  `emitSafe()` (`adapters/webrtc.ts:290`): when `getStats()` rejects and `now()`
  throws there, the rejection is nobody's, and the host's process gets it. The
  same line 8 says otherwise, and so does `README.md:24` ("Never throw into the
  host app").
- `timeout_row_finding`: `core/correlator.ts:27` calls the peers of a timeout row
  "peers that never answered", line 29 its `partial` "how many of the fan-out DID
  answer before the deadline". But an announcement after its peer's answer puts
  the peer back into the awaited set (`core/sink.ts:66`, whose header, lines
  33-36, says that announcing target by target "builds the correct awaited set"),
  and `partial` counts what is recorded when the sweep comes: late answers,
  repeated ones, strangers. `TimeoutRowHalfRight` asks only that a row be right
  on one count; the run has a row that is wrong on both. What does hold is
  `TimeoutNamesSilent` (called directly) and `SilenceIsNamed` (behind the seam).
- `allowlist_finding`: `core/redactor.ts:274` says "bodies OFF by default. Present
  in full ONLY for an allowlisted method". A field listed as a peer and as a body
  is a peer's (line 258), and an object there leaves as it is (line 287).
- `overflow_finding`: `redactPeerValue()` goes through nested arrays with no limit
  (`core/redactor.ts:285`), so a peer field whose array contains itself makes
  `redact()` throw a RangeError. `test/flush-guard.test.mjs:103` asserts "a CYCLIC
  payload no longer throws (was RangeError)", of a body, for which it holds
  (`StackSuffices`).

Three more things hold of the code and contradict no comment. An exporter without
`onError`, which is the default (`exporters/hyperswarm.ts:27,44,55`), loses a
failing row with no report and no counter; `FailureCostsItsRow` promises no more.
A request is settled by the last answer it awaits so far, so a broadcast whose
first targets answer before the others are announced is settled and opened again.
And the settled set forgets its oldest ids: a late answer to one of those is
dropped like a stranger's.

## 4. What is proved

The proof modules show `Init => IInv` and `IInv /\ [Next]_vars => IInv'` for an
inductive invariant `IInv`, one lemma per action, and take the theorems from it.

**RingBufferProofs**, for every `Capacity >= 1` and every bound on pushes:
`TypeCorrect`, `Accounting` (`NothingLostSilently`), `Draining`
(`DrainedInOrder`), `Iteration` (`IterationMonotone`) and `Implementation`
(`ImplementsLog`). `IInv` joins these with `LiveSlots`, without which the order
of drained items says nothing about the next drain, and with `IterBehind`: what
the open iterator has yielded is older than what lies at its position, which is
what makes order survive a push between two of its steps. The arithmetic rests
on one lemma, that `x % Capacity` is x or x - Capacity below twice the capacity.

**CollectorProofs**, for any corrIds, peers, caps, timeout and order of calls,
of the collector called directly (`Spec`): `TypeCorrect` (`TypeOK`), `Memory`
(`MemoryBounded`), `Accounting` (`EveryRequestAccounted`), `Naming`
(`TimeoutNamesSilent`), `Pairing` (`RowsReadable`) and `Sweeping`
(`SweepComplete`). Assumed: that there are finitely many corrIds and peers. The
heart of `IInv` is `Live`, what a pending request and the rows know of each
other: its req row is the last of its corrId, it awaits every peer that no res
row of it names, and no stranger, it has counted those rows, and neither a
timeout row nor a counter has closed it. That makes a timeout row agree with the
rows before it, and two live requests never share a req row. `SweepOK` says that
what a running sweep has passed is not overdue; it survives the deletions
because positions in the map are distinct and the next key is the nearest
(`NextKeyFacts`).

The same invariant serves the event seam (`SinkSpec`): `SeamAccounting`
(`NothingOverwritten`), `SeamOrder` (`PendingInAgeOrder`), `SeamNaming`
(`SilenceIsNamed`), `SeamKeeps` (`TypeOK`, `MemoryBounded`, `RowsReadable`) and
`SeamSweeping` (`SweepComplete`). What differs is kept apart: called directly, a
request never awaits a peer that has answered (`Exact`); behind the seam it may,
since a peer can answer before it is announced; but nothing is replaced, and
positions in the map are row numbers and in order of age (`Seam`).

**StreamFramerProofs**, for every byte size, prefix width, set of messages,
way to cut the stream and behaviour of `onMessage`: `TypeCorrect`, `Alignment`
(`Aligned`), `HoldsNothingBack` (`NothingHeldBack`) and `Implementation`
(`ImplementsChannel`). Assumed (`DataViewAssumption`): what `setUint32` writes
of a length that fits the prefix, `getUint32` reads back; `framer` evaluates it for
its instance. `IInv` adds to these properties that the frames lie in the stream
end to end, each made of the length and the payload of its message (`Frames`,
`Ascending`), and that what was received is a prefix of what was sent
(`InOrder`). From there: a buffer that holds the stream from the end of message
r on, if it is complete, begins with the frame of message r + 1 (`FirstFrame`),
and cutting that frame off leaves it aligned (`CutOff`, `Turn`).

**SendTapProofs**, for any number of taps, calls and open sinks: `TypeCorrect`,
`ReportsOnce` (`ReportedOnce`), `ReportsAmountBefore` (`AmountBeforeSend`),
`Restores` (`WrappedByLive`) and `Implementation` (`ImplementsHost`), all of
`Spec`, that is, while the clock works. `IInv` says that a frame agrees with its
call (`FramesAgree`: the call has not returned, and a wrapper past its own call
holds what came of it), that later calls lie above earlier ones, on a frame
whose sink runs (`CallsNest`), and that a call on its way in has not reached the
transport (`WayIn`). So the end of a frame ends its call exactly if the frame
below belongs to another one. `ReportsOnce` adds what the histories know of a
call (`Told`): the open frames of a call lie one on the other in the order of
its taps, down to the object's own method (`Stacked`, `ReachesOwn`); the taps
inside of the innermost open one have reported, inner ones first (`Progressing`,
`InnerFirst`), with the outcome the call had (`Truthful`), and all have once it
has ended (`Finished`). `Restores` has an invariant of its own, `WInv`: while
restores are nested, each live tap has found the one before it (`Threaded`), and
the listeners are those of the live taps, where they can be removed.

**ClockProofs**, of `HybridClock`, for any set of nodes and clock values and any
deliveries: `HlcTyped` (`HlcTypeOK`), `Causality` (`CausalOrder`), `TotalOrder`
(`StampsUnique`) and `ObservedCeiling` (`PhysicalIsObserved`). `HlcInv` says
that a node is not behind any event in its past (`NodeAhead`), that its physical
part is the latest clock it has heard of (`NodeObserved`), and that an event's
past are events before it (`PastEarlier`).

Of `OffsetEstimator`, for any delays, window, thresholds and steps:
`EstimatorTyped` (`TypeOK`, with the bound on the window), `Containment`
(`LowestRttContains`), `Placement` (`PlacedWithin`) and `Precision`
(`PreciseLaneIsNear`). The offset of a sample is wrong by at most half its
round-trip time, every sample in the window is one of a real offset, and a
window that is not empty has a first sample of lowest round-trip time. For the
median, `RankedIsOne` says that each rank belongs to some sample of the window,
which puts the median between its smallest and largest offset (`MedianWithin`);
so no estimate is further from a sample than twice the spread (`Reach`).
`Current` ties the cached estimate to the window it was made of, until the next
sample.

**HubPathProofs**, first of the flusher alone, for every cap, nesting and
behaviour of `onFlush`: `Ordering` (`HandedOnceInOrder`), `Accounting`
(`NoSilentLoss`) and `Staging` (`StagingBounded`). `IInv`: rows are numbered, a
batch is an interval of them, the open calls, the delivered and the failed
batches have no row in common and together are what was handed over, and the
counters are the sizes of these sets.

Then of the hub path, for any failures and nesting on the way to the hub:
`Implementation` (`HubSpec` implies the flusher's `Spec`, so the flusher's
theorems hold of the hub path), `Isolation` (`FailureCostsItsRow`) and `Refusal`
(`RefusedStaysHere`). The added invariant keeps the rows written, reported,
lost with no `onError`, in refused batches and still to come apart, across all
open exports.

**RedactorProofs**, for any objects, any number of members and any depth limit:
`Walking` (`WalksEveryWay`), `Bounded` (`StackBounded`: the depth limit holds),
`Sufficing` (`StackSuffices`) and `Opening` (`AllowlistOpensBodiesOnly`). The
stack spells a way from the root that meets no object twice (`Path`), which is
why nothing else is walked. That nothing is missed is `NothingMissed`: a way not
walked yet is ahead of the stack, that is, it leaves one of the open calls by a
member that has not been up. When an object is read for the first time, the ways
that lead on from it become known; they are ahead because the way to that object
was (`StillMissed`). A member that is cut lies on no way (`AtTopLeads`). For a
peer's arrays there is an invariant of their own (`PeerInv`), by which the open
calls are a chain of arrays, each a member of the one before; a body overflows
nothing because the depth limit is below the stack's. `Opening` rests on the
order of the sets alone (`Claims`).

**StatsPollProofs**, for any reports, polls and connection events: `OneOutcome`
(`OneOutcomePerPoll`) and `Quiet` (`QuietAfterRestore`, an action property). An
event that names a poll finds it done, no two events name the same one
(`Answered`, `Once`); a poll whose rejection nobody handled is done and has no
event (`Rejected`); and the timer does not outlive `restore()`, the listeners
only where they cannot be taken off (`Stopped`). `Normalised`
(`StatsTellTheRoute`) is about what `extractRelevant()` computes. Assumed
(`PollAssumption`): no report names an entry twice, a loss is a number, and ids
that look like integers have different values; `edge` evaluates it for its
reports. The keys of an object are ranked, and the ranks of n entries are the
numbers 1 to n (`RanksDiffer`, `Listing`): so all containers list the same
entries, each once. A pair or candidate that is the only one wanted is then
found in each order (`Found`). That the loop over the entries adds up what a sum
over their set does is shown by least counterexamples over the subsets of a
finite set: such sums exist (`SumExists`), the community modules' fold is one
(`SetSums`), and any two of them agree (`SumsAgree`), since any term can be
taken first (`AnyTermFirst`).

Only model-checked: all liveness (`NoRequestHangs`, `RunningFlushes`,
`EveryMessageDelivered`, `Recovers`), since tlapm does not reason about
fairness or ENABLED. Every safety property, action property and refinement that a
passing run checks is a theorem.

## 5. Not modelled

- Of the adapters: the class chain that `websocket.ts` puts on the global, and
  sockets made before `restore()` and used after it. `SendTap` has the tap of one
  socket.
- Of the redactor: the hash functions, and the registry behind `resolvePeer()`.
- The sampler is a disjunction of two tests on its arguments, and nothing calls it.
- Native probes: `native/bridge.ts` passes one callback on; the native sides are
  marked as never built or run.
- `adapters/env.ts`, `transport/capabilities.ts`, `transport/contract.ts`, the
  index files and the build script hold no state: lookups, types, re-exports.
- `PassthroughFramer` and `createFramer` keep none either: each chunk is a message.
- Row contents other than those the correlator reads; the text of HLC stamps
  (three fields that `parse` restores); strings and `ArrayBuffer`s given to the
  framer (converted to bytes first). Payloads of 2^32 bytes and more, whose
  length `setUint32` would truncate, are excluded by `FramerAssumption`.
- The hub itself: the repository ends at the stream. `framer` shows that what was
  written comes out of a `StreamFramer` on the other side.

## 6. Plan

1. The class chain of `websocket.ts`: several installs on one global, restored in
   any order, and the sockets they leave behind.
2. Proofs of what the caches of the estimator promise beyond one window, and of a
   variant for `sortDeep()`: each step of the walk lowers what lies ahead.

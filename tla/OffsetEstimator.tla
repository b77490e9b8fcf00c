--------------------------- MODULE OffsetEstimator ----------------------------
(***************************************************************************)
(* clock/offset.ts and clock/skew.ts: how far a peer's clock is from ours, *)
(* estimated from probe exchanges, and how sure of it the timeline may     *)
(* look. A sample is wrong by half the difference of the delays of its two *)
(* legs; the estimator keeps the last `windowN` samples, picks one offset  *)
(* from them and serves it until `reestimateIntervalMs` have passed.       *)
(*                                                                         *)
(* Here the peer's clock may step (an NTP correction), the local clock may *)
(* be set back, and the legs are as slow as they like. Times are in        *)
(* quarters of a millisecond, so that the code's halves are exact; the     *)
(* local clock counts only as the age of the cached estimate, in ticks of  *)
(* which Interval make up the re-estimation interval.                      *)
(***************************************************************************)
EXTENDS Integers, Sequences, FiniteSetsExt, SequencesExt

CONSTANTS
    Leg,                \* pairs <<there, back>> of delays of an exchange
    Processing,         \* how long the peer takes to answer
    TrueOffset,         \* (peer clock - local clock), what is to be estimated
    WindowN,            \* `windowN`
    Interval,           \* `reestimateIntervalMs`, in ticks
    StddevThreshold,    \* `rttStddevThresholdMs`
    GoodThreshold, HatchThreshold,
    None,               \* no estimate
    MaxBack             \* bound: ticks by which the local clock is set back

(* Whole milliseconds.                                                     *)
Quarters == {t \in Int : t % 4 = 0}

ASSUME EstimatorAssumption ==
    /\ Leg \subseteq (Quarters \intersect Nat) \X (Quarters \intersect Nat) /\ Leg # {}
    /\ Processing \subseteq Quarters \intersect Nat
    /\ TrueOffset \subseteq Quarters
    /\ WindowN \in Nat \ {0} /\ Interval \in Nat \ {0}
    /\ StddevThreshold \in Nat /\ GoodThreshold \in Nat /\ HatchThreshold \in Nat
    /\ MaxBack \in Nat

VARIABLES
    truth,      \* the peer's offset now
    truths,     \* history: every offset the peer's clock has had
    window,     \* the rolling window of samples, most recent last
    cached,     \* the cached estimate, or None
    age,        \* `now - cached.computedAt`; above Interval all is one
    setBack,    \* by how much the local clock was set back so far
    fresh       \* history: no sample was added since the estimate was made

clocks == <<truth, truths, setBack>>
vars == <<clocks, window, cached, age, fresh>>

(* A sample, with the offset that was true when it was taken.              *)
Sample == [offset : Int, rtt : Int, truth : TrueOffset]
Estimate == [offset : Int, method : {"median", "lowest-rtt"}, rttMs : Int]

Init ==
    /\ truth \in TrueOffset
    /\ truths = {truth}
    /\ window = <<>>
    /\ cached = None
    /\ age = 0 /\ setBack = 0
    /\ fresh = FALSE

Offsets(w) == [i \in 1 .. Len(w) |-> w[i].offset]
Rtts(w) == [i \in 1 .. Len(w) |-> w[i].rtt]
Total(xs) == FoldLeft(+, 0, xs)

-----------------------------------------------------------------------------
(* Mutants: ways the definitions below could be wrong. *)

OffsetOfSameSign(t0, t1, t2, t3) == ((t1 - t0) + (t3 - t2)) \div 2

StaleNever == cached = None

SpreadIgnored(w) == 0

-----------------------------------------------------------------------------
(* offsetFromTimestamps(): the four-timestamp exchange of NTP.             *)
OffsetOf(t0, t1, t2, t3) == ((t1 - t0) + (t2 - t3)) \div 2

RoundTrip(t0, t1, t2, t3) == (t3 - t0) - (t2 - t1)

Exchange(there, processing, back) ==
    LET t1 == there + truth
        t2 == t1 + processing
        t3 == there + processing + back
    IN  [offset |-> OffsetOf(0, t1, t2, t3), rtt |-> RoundTrip(0, t1, t2, t3), truth |-> truth]

(* The k-th smallest of xs, and the median.                                *)
Ranked(xs, k) ==
    CHOOSE x \in Range(xs) :
        /\ Cardinality({i \in DOMAIN xs : xs[i] < x}) < k
        /\ Cardinality({i \in DOMAIN xs : xs[i] <= x}) >= k

Median(xs) ==
    LET m == Len(xs) \div 2
    IN  IF Len(xs) % 2 = 1
          THEN Ranked(xs, m + 1)
          ELSE (Ranked(xs, m) + Ranked(xs, m + 1)) \div 2

(* stddev(xs) <= rttStddevThresholdMs, squared.                            *)
LowVariance(xs) ==
    LET n == Len(xs)
        sum == Total(xs)
        sumSq == Total([i \in 1 .. n |-> xs[i] * xs[i]])
    IN  n * sumSq - sum * sum <= (n * StddevThreshold) * (n * StddevThreshold)

(* The first of the samples with the lowest round-trip time.               *)
Best(w) ==
    w[CHOOSE i \in 1 .. Len(w) :
        /\ \A j \in 1 .. Len(w) : w[i].rtt <= w[j].rtt
        /\ \A j \in 1 .. i - 1 : w[i].rtt < w[j].rtt]

EstimateOf(w) ==
    IF LowVariance(Rtts(w))
      THEN [offset |-> Median(Offsets(w)), method |-> "median", rttMs |-> Median(Rtts(w))]
      ELSE [offset |-> Best(w).offset, method |-> "lowest-rtt", rttMs |-> Best(w).rtt]

(* addSample(): the oldest is evicted past windowN.                        *)
Slid(w) == IF Len(w) > WindowN THEN Tail(w) ELSE w

AddSample(sample) ==
    /\ window' = Slid(Append(window, sample))
    /\ fresh' = FALSE
    /\ UNCHANGED <<clocks, cached, age>>

Probe ==
    \E leg \in Leg, processing \in Processing : AddSample(Exchange(leg[1], processing, leg[2]))

(* reestimate(now): throws when there are no samples.                      *)
Reestimate ==
    /\ window # <<>>
    /\ cached' = EstimateOf(window)
    /\ age' = 0
    /\ fresh' = TRUE
    /\ UNCHANGED <<clocks, window>>

(* estimate(now), and normalize(ts, now) with it: the cached one unless    *)
(* the interval has elapsed.                                               *)
Stale == cached = None \/ age >= Interval

Serve == Stale /\ Reestimate

(* The local clock goes on, or is set back; the peer's steps.              *)
Tick ==
    /\ cached # None
    /\ age < Interval
    /\ age' = age + 1
    /\ UNCHANGED <<clocks, window, cached, fresh>>

SetBack ==
    /\ cached # None
    /\ setBack < MaxBack
    /\ setBack' = setBack + 1
    /\ age' = age - 1
    /\ UNCHANGED <<truth, truths, window, cached, fresh>>

PeerSteps ==
    /\ truth' \in TrueOffset \ truths
    /\ truths' = truths \union {truth'}
    /\ UNCHANGED <<setBack, window, cached, age, fresh>>

Next == Probe \/ Reestimate \/ Serve \/ Tick \/ SetBack \/ PeerSteps

Spec == Init /\ [][Next]_vars

(* Time passes, the caller keeps probing and keeps asking for estimates.   *)
FairSpec == Spec /\ WF_vars(Tick) /\ WF_vars(Probe) /\ WF_vars(Serve)

-----------------------------------------------------------------------------
(* skewConfidence(estimate, window).                                       *)
Floor(estimate, w) ==
    (IF w = <<>> THEN estimate.rttMs ELSE Min(Range(Rtts(w)))) \div 2

Spread(w) ==
    IF Len(w) > 1 THEN (Max(Range(Offsets(w))) - Min(Range(Offsets(w)))) \div 2 ELSE 0

HalfWidth(estimate, w) == Floor(estimate, w) + Spread(w)

Confidence(estimate, w) ==
    CASE HalfWidth(estimate, w) <= GoodThreshold -> "good"
      [] HalfWidth(estimate, w) \in GoodThreshold + 1 .. HatchThreshold -> "fair"
      [] OTHER -> "poor"

(* Mutant: the lane is hatched for slow paths only.                        *)
HatchedByFloor(estimate, w) == Floor(estimate, w) > HatchThreshold

Hatched(estimate, w) == HalfWidth(estimate, w) > HatchThreshold

(* normalize(ts): the raw time of the peer on the local timeline.          *)
Normalized(ts, estimate) == ts - estimate.offset

Distance(a, b) == IF a < b THEN b - a ELSE a - b

(* How far from its place on the local timeline something lands that the   *)
(* peer stamps now, at the local time 0.                                   *)
Misplaced(estimate) == Distance(Normalized(truth, estimate), 0)

TypeOK ==
    /\ truth \in TrueOffset /\ truths \subseteq TrueOffset /\ truth \in truths
    /\ window \in Seq(Sample) /\ Len(window) <= WindowN
    /\ cached \in Estimate \union {None}
    /\ age \in Int /\ setBack \in Nat
    /\ fresh \in BOOLEAN

(* "the lowest-RTT sample suffers the least asymmetry distortion"          *)
(* (offset.ts:138): such an estimate is within half its round-trip time of *)
(* an offset the peer's clock really had, however the legs compare and     *)
(* however old the estimate is.                                            *)
LowestRttContains ==
    cached # None /\ cached.method = "lowest-rtt" =>
        \E o \in truths : 2 * Distance(cached.offset, o) <= cached.rttMs

(* An estimate of the samples at hand, all taken since the peer's clock    *)
(* last stepped, puts an event within floor + 2 * spread of its place,     *)
(* whichever method made it (skew.ts:11-21): the median may be at the far  *)
(* end of the spread from the sample that the floor is about.              *)
PlacedWithin ==
    fresh /\ (\A i \in 1 .. Len(window) : window[i].truth = truth) =>
        Misplaced(cached) <= Floor(cached, window) + 2 * Spread(window)

(* "A timeline that admits it is unsure beats one that lies" (skew.ts:6):  *)
(* with one sample taken since the peer's clock stepped, a lane that is    *)
(* drawn as a precise bar is misplaced by no more than that sample's own   *)
(* uncertainty and twice the width its confidence stands for - also while  *)
(* the rest of the window is from before the step.                         *)
PreciseLaneIsNear ==
    LET width == IF Confidence(cached, window) = "good" THEN GoodThreshold ELSE HatchThreshold
    IN  \A i \in 1 .. Len(window) :
            fresh /\ ~Hatched(cached, window) /\ window[i].truth = truth =>
                2 * Misplaced(cached) <= window[i].rtt + 4 * width

(* The worst a single sample can be wrong by.                              *)
Distortion == Max({Distance(leg[1], leg[2]) : leg \in Leg}) \div 2

(* What is served catches up with a step of the peer's clock (offset.ts    *)
(* 111-114, 158-166), though the samples of before the step were better    *)
(* and the local clock was set back.                                       *)
Recovers == <>[](cached # None /\ Misplaced(cached) <= Distortion)

(* "With no knowledge of path asymmetry the true offset can sit anywhere   *)
(* within +-rtt/2 of the estimate; the lowest RTT gives the tightest       *)
(* floor" (skew.ts:12-13): the interval contains the true offset.          *)
IntervalContainsTruth ==
    fresh /\ (\A i \in 1 .. Len(window) : window[i].truth = truth) =>
        Distance(cached.offset, truth) <= HalfWidth(cached, window)
=============================================================================

------------------------------ MODULE StatsPoll -------------------------------
(***************************************************************************)
(* instrumentPeerConnection() (adapters/webrtc.ts): listeners for the four *)
(* connection events, and a timer that calls pc.getStats() and emits what  *)
(* extractRelevant() makes of the answer. A poll may take longer than the  *)
(* interval, so polls overlap and are answered in any order, also after    *)
(* restore(), or never. getStats() may throw or reject, the report may be  *)
(* broken, and now() may throw at every event. restore() takes the         *)
(* listeners off if the connection has a removeEventListener().            *)
(*                                                                         *)
(* A report lists statistics entries, as a Map, an array, or a plain       *)
(* object, whose keys that look like integers come first. What an entry    *)
(* leaves open is "none".                                                  *)
(***************************************************************************)
EXTENDS Integers, FiniteSets, SequencesExt, FiniteSetsExt

CONSTANTS
    Reports,        \* the lists of entries that getStats() may answer with
    IntegerValue,   \* the values of the ids that look like integers
    MaxPolls,       \* bound: polls
    MaxChanges      \* bound: connection events

Container == {"map", "array", "object"}

(* The loss is a number or missing, {}; a report names no entry twice.     *)
CountsLoss(e) == e.type = "inbound-rtp" /\ e.packetsLost # {}

ASSUME PollAssumption ==
    /\ MaxPolls \in Nat /\ MaxChanges \in Nat
    /\ IsInjective(IntegerValue) /\ Range(IntegerValue) \subseteq Nat
    /\ \A report \in Reports :
          /\ DOMAIN report = 1 .. Len(report) /\ Len(report) \in Nat
          /\ \A i, j \in DOMAIN report : report[i].id = report[j].id => i = j
          /\ \A i \in DOMAIN report :
                CountsLoss(report[i]) =>
                    \E n \in report[i].packetsLost : n \in Int /\ report[i].packetsLost = {n}

VARIABLES
    installed,  \* "no", "yes" or "restored"
    timer,      \* is the interval timer set?
    detachable, \* has the connection a removeEventListener()?
    attached,   \* are the listeners attached?
    polls,      \* polls[p]: its promise is "pending", "resolved" with a report or with
                \* a "broken" one, "rejected", or "done", both handlers having run
    emitted,    \* history: what was emitted
    shown,      \* history: the report of the latest conn.stats event, and its stats
    uncaught,   \* history: the errors that nothing caught: where, and of which poll
    changes     \* history: connection events so far

pollWiring == <<installed, timer, detachable, attached>>
pollVars == <<pollWiring, polls, emitted, shown, uncaught, changes>>

PollInit ==
    /\ installed = "no" /\ timer = FALSE /\ attached = FALSE
    /\ detachable \in BOOLEAN
    /\ polls = <<>> /\ emitted = <<>>
    /\ shown = <<>>
    /\ uncaught = {}
    /\ changes = 0

-----------------------------------------------------------------------------
(* Mutants: ways the definitions below could be wrong. *)

EmitUnsafely(p, sinkThrows) == polls' = [polls EXCEPT ![p] = IF sinkThrows THEN "rejected" ELSE "done"]

ClearNothing == timer' = timer

NominatedAtAll(e) == e.nominated

-----------------------------------------------------------------------------
(* Object.values(): the keys that look like integers, ascending, and then  *)
(* the others, as they were added.                                         *)
KeyBefore(a, b, added) ==
    \/ a.id \in DOMAIN IntegerValue /\ b.id \in DOMAIN IntegerValue
          /\ IntegerValue[a.id] < IntegerValue[b.id]
    \/ a.id \in DOMAIN IntegerValue /\ b.id \notin DOMAIN IntegerValue
    \/ a.id \notin DOMAIN IntegerValue /\ b.id \notin DOMAIN IntegerValue /\ added

Rank(report, i) ==
    Cardinality({j \in DOMAIN report : KeyBefore(report[j], report[i], j < i)}) + 1

(* toEntries(): the entries in the order the container gives them in.      *)
toEntries(report, container) ==
    IF container = "object"
      THEN [k \in DOMAIN report |-> report[CHOOSE i \in DOMAIN report : Rank(report, i) = k]]
      ELSE report

(* Array.prototype.find(): the first of the wanted entries, if any.        *)
find(entries, wanted) ==
    LET i == SelectInSeq(entries, LAMBDA e : e \in wanted) IN IF i = 0 THEN {} ELSE {entries[i]}

NominatedSucceeded(e) == e.nominated /\ e.state \in {"succeeded", "completed"}

Pairs(entries) == {e \in ToSet(entries) : e.type = "candidate-pair"}

(* pickCandidatePair(): none, or the one in use.                           *)
pickCandidatePair(entries) ==
    LET selected == find(entries, {e \in Pairs(entries) : e.selected})
        succeeded == find(entries, {e \in Pairs(entries) : NominatedSucceeded(e)})
    IN  IF selected # {} THEN selected
        ELSE IF succeeded # {} THEN succeeded
        ELSE find(entries, Pairs(entries))

Locals(entries, pair) ==
    {e \in ToSet(entries) : e.type = "local-candidate" /\ e.id = pair.localCandidateId}

(* The local candidate's type, from its entry or else from the pair.       *)
localCandidateType(entries, pair) ==
    LET said == {c.candidateType : c \in find(entries, Locals(entries, pair))} \ {"none"}
    IN  IF said = {} THEN pair.localCandidateType ELSE CHOOSE type \in said : TRUE

LossOf(e) == IF CountsLoss(e) THEN CHOOSE n \in e.packetsLost : TRUE ELSE 0

TotalLoss(entries) == FoldLeft(LAMBDA sum, e : sum + LossOf(e), 0, entries)

(* extractRelevant(): the pair, whether it is relayed, and the total loss. *)
extractRelevant(entries) ==
    [pair |-> {p.id : p \in pickCandidatePair(entries)},
     relayed |-> \E p \in pickCandidatePair(entries) : localCandidateType(entries, p) = "relay",
     packetsLost |-> IF \E e \in ToSet(entries) : CountsLoss(e)
                       THEN {TotalLoss(entries)}
                       ELSE {}]

-----------------------------------------------------------------------------
Instrument ==
    /\ installed = "no"
    /\ installed' = "yes" /\ timer' = TRUE /\ attached' = TRUE
    /\ UNCHANGED <<detachable, polls, emitted, shown, uncaught, changes>>

ClearInterval == timer' = FALSE

RestorePoll ==
    /\ installed # "no"
    /\ installed' = "restored"
    /\ attached' = (attached /\ ~detachable)
    /\ ClearInterval
    /\ UNCHANGED <<detachable, polls, emitted, shown, uncaught, changes>>

Emits(event) == emitted' = Append(emitted, event) /\ UNCHANGED uncaught

(* now() throws where nothing catches it.                                  *)
Uncaught(where, p) ==
    /\ uncaught' = uncaught \union {[where |-> where, poll |-> p]}
    /\ UNCHANGED emitted

PollEvent(type, poll) == [type |-> type, poll |-> poll, late |-> installed = "restored"]

(* A connection event; one that comes while nobody listens is not seen.    *)
Change ==
    /\ changes < MaxChanges
    /\ attached
    /\ changes' = changes + 1
    /\ Emits(PollEvent("conn.state", 0)) \/ Uncaught("listener", 0)
    /\ UNCHANGED <<pollWiring, polls, shown>>

(* The timer fires: getStats() returns a promise, or throws.               *)
Poll ==
    /\ timer
    /\ \/ /\ Len(polls) < MaxPolls
          /\ polls' = Append(polls, "pending")
          /\ UNCHANGED <<emitted, uncaught>>
       \/ Uncaught("timer", 0) /\ UNCHANGED polls
    /\ UNCHANGED <<pollWiring, shown, changes>>

(* The answer comes.                                                       *)
Settle(p) ==
    /\ polls[p] = "pending"
    /\ \E answer \in {"resolved", "broken", "rejected"} : polls' = [polls EXCEPT ![p] = answer]
    /\ UNCHANGED <<pollWiring, emitted, shown, uncaught, changes>>

(* emitSafe(): what the sink throws is swallowed, and the handler returns. *)
emitSafely(p, sinkThrows) == polls' = [polls EXCEPT ![p] = "done"]

(* The handler of then(): extractRelevant(), now() and emitSafe(), the     *)
(* errors of the first two of which make the chained promise reject.       *)
OnStats(p) ==
    /\ polls[p] \in {"resolved", "broken"}
    /\ \/ /\ polls[p] = "resolved"
          /\ \E report \in Reports, container \in Container, sinkThrows \in BOOLEAN :
                /\ Emits(PollEvent("conn.stats", p))
                /\ shown' = <<report, extractRelevant(toEntries(report, container))>>
                /\ emitSafely(p, sinkThrows)
       \/ polls' = [polls EXCEPT ![p] = "rejected"] /\ UNCHANGED <<emitted, shown, uncaught>>
    /\ UNCHANGED <<pollWiring, changes>>

(* The handler of catch().                                                 *)
OnError(p) ==
    /\ polls[p] = "rejected"
    /\ polls' = [polls EXCEPT ![p] = "done"]
    /\ Emits(PollEvent("send.error", p)) \/ Uncaught("promise", p)
    /\ UNCHANGED <<pollWiring, shown, changes>>

PollNext ==
    \/ Instrument \/ RestorePoll \/ Change \/ Poll
    \/ \E p \in 1 .. Len(polls) : Settle(p) \/ OnStats(p) \/ OnError(p)

PollSpec == PollInit /\ [][PollNext]_pollVars

-----------------------------------------------------------------------------
EventsOfPoll(p) == {i \in 1 .. Len(emitted) : emitted[i].poll = p}

Unhandled(p) == [where |-> "promise", poll |-> p] \in uncaught

(* However polls overlap and answers are reordered, each poll has one      *)
(* outcome (webrtc.ts:279-293), once both handlers are done with it and    *)
(* not before: one event, or an unhandled rejection of its own, and never  *)
(* both. The rejection takes an error of getStats(), of the report or of   *)
(* now(), and then one of now() in the handler of catch().                 *)
OneOutcomePerPoll ==
    \A p \in 1 .. Len(polls) :
        /\ Cardinality(EventsOfPoll(p)) <= 1
        /\ EventsOfPoll(p) # {} => ~Unhandled(p)
        /\ polls[p] = "done" <=> EventsOfPoll(p) # {} \/ Unhandled(p)

(* "Never throw from the probe: every emit path is wrapped" (webrtc.ts:8): *)
(* no promise of the probe's rejects with nobody to handle it. It does not *)
(* hold: the handler of catch() calls now() outside of emitSafe().         *)
RejectionsHandled == \A error \in uncaught : error.where # "promise"

(* A step that begins no poll and whose event answers one that is open, or *)
(* is one of the connection's, if the listeners could not be taken off.    *)
AnswersOnly ==
    /\ Len(polls') = Len(polls)
    /\ \A i \in Len(emitted) + 1 .. Len(emitted') :
          /\ emitted'[i].late
          /\ IF emitted'[i].type = "conn.state"
               THEN ~detachable
               ELSE polls[emitted'[i].poll] # "done"

(* restore() stops the poller and, if it can, the listeners (webrtc.ts:    *)
(* 296-299): what else is emitted later answers a poll that was under way  *)
(* by then, and a poll that is not is never begun.                         *)
QuietAfterRestore == [][installed = "restored" => AnswersOnly]_pollVars

(* What a report says, read as a set: the pair in use, if it says so ...   *)
InUse(report) ==
    LET selected == {e \in Pairs(report) : e.selected}
        succeeded == {e \in Pairs(report) : e.nominated /\ e.state \in {"succeeded", "completed"}}
    IN  IF selected # {} THEN selected ELSE IF succeeded # {} THEN succeeded ELSE Pairs(report)

(* ... and what that runs over: its candidate's word, or else its own.     *)
ViaRelay(report, pair) ==
    LET own == {e \in Locals(report, pair) : e.candidateType # "none"}
    IN  IF own = {} THEN pair.localCandidateType = "relay" ELSE \E e \in own : e.candidateType = "relay"

(* "Normalise a getStats() result into the shape the UI consumes,          *)
(* regardless of platform" (webrtc.ts:371): when a report says which pair  *)
(* is in use, the event names it and tells whether it is relayed, and the  *)
(* loss is the total of all streams, whatever the order of the entries and *)
(* the container they come in.                                             *)
StatsTellTheRoute ==
    shown # <<>> =>
        LET report == shown[1]
            stats == shown[2]
            lossy == {e \in ToSet(report) : CountsLoss(e)}
        IN  /\ Cardinality(InUse(report)) = 1 =>
                  /\ stats.pair = {e.id : e \in InUse(report)}
                  /\ stats.relayed <=> \E e \in InUse(report) : ViaRelay(report, e)
            /\ stats.packetsLost = IF lossy = {} THEN {} ELSE {MapThenSumSet(LossOf, lossy)}
=============================================================================

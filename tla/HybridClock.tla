----------------------------- MODULE HybridClock -----------------------------
(***************************************************************************)
(* clock/hlc.ts: hybrid logical clocks, one per node, ordering the events  *)
(* of the multi-peer timeline.                                             *)
(*                                                                         *)
(* now() may return anything at every call: wall clocks differ by seconds, *)
(* stand still and jump backwards. Messages may be lost, duplicated and    *)
(* reordered: any stamp that was ever sent may be received at any time,    *)
(* any number of times. A stamp travels as "phys:ctr:node"; it is parsed   *)
(* back to the same three fields, and is a record here.                    *)
(***************************************************************************)
EXTENDS Integers, Sequences

CONSTANTS
    Node,       \* the node ids; numbers, for their order as strings
    WallClock,  \* what now() may return
    MaxEvents   \* bound: events in all

ASSUME HlcAssumption ==
    /\ Node \subseteq Nat /\ WallClock \subseteq Nat /\ MaxEvents \in Nat

VARIABLES
    l,      \* l[n]: the physical component of n's clock
    c,      \* c[n]: its logical counter
    log     \* history: every event, with the stamp it got

hlcVars == <<l, c, log>>

(* An event: its stamp (l, c, id), what now() returned for it, and the     *)
(* events in its causal past. Messages are the stamps of "send" events.    *)
HlcEvent == [kind : {"send", "update", "recv"}, l : Nat, c : Nat, id : Node,
             now : WallClock, past : SUBSET (1 .. MaxEvents)]

(* compareHlc(x, y) < 0 *)
Before(x, y) ==
    \/ x.l < y.l
    \/ x.l = y.l /\ x.c < y.c
    \/ x.l = y.l /\ x.c = y.c /\ x.id < y.id

HlcInit ==
    /\ l = [n \in Node |-> 0]
    /\ c = [n \in Node |-> 0]
    /\ log = <<>>

EventsAt(n) == {i \in 1 .. Len(log) : log[i].id = n}

(* What n knows of: its own events and, through the messages it received,  *)
(* their pasts.                                                            *)
Known(n) == EventsAt(n) \union UNION {log[i].past : i \in EventsAt(n)}

Greatest(x, y) == IF x >= y THEN x ELSE y

-----------------------------------------------------------------------------
(* Mutants: ways the definitions below could be wrong. *)

CounterAfterSendReset(lPrev, lNew, cPrev) == 0

CounterAfterSendDown(lPrev, lNew, cPrev) == IF lNew = lPrev THEN cPrev - 1 ELSE 0

CounterAfterRecvIgnoresRemote(lPrev, lNew, cPrev, m) ==
    IF lNew = lPrev THEN cPrev + 1 ELSE 0

AdvancePastWallClock(lPrev, now) == Greatest(lPrev, now) + 1

-----------------------------------------------------------------------------
Advance(lPrev, now) == Greatest(lPrev, now)

CounterAfterSend(lPrev, lNew, cPrev) == IF lNew = lPrev THEN cPrev + 1 ELSE 0

CounterAfterRecv(lPrev, lNew, cPrev, m) ==
    CASE lNew = lPrev /\ lNew = m.l -> Greatest(cPrev, m.c) + 1
      [] lNew = lPrev /\ lNew # m.l -> cPrev + 1
      [] lNew # lPrev /\ lNew = m.l -> m.c + 1
      [] OTHER -> 0

(* The clock of n takes its new value, and the event is stamped with it.   *)
Stamp(n, kind, lNew, cNew, now, past) ==
    /\ l' = [l EXCEPT ![n] = lNew]
    /\ c' = [c EXCEPT ![n] = cNew]
    /\ log' = Append(log, [kind |-> kind, l |-> lNew, c |-> cNew, id |-> n,
                           now |-> now, past |-> past])

(* send(), or update() for an event without a message.                     *)
Local(n, kind) ==
    /\ Len(log) < MaxEvents
    /\ \E now \in WallClock :
         LET lNew == Advance(l[n], now)
         IN  Stamp(n, kind, lNew, CounterAfterSend(l[n], lNew, c[n]), now, Known(n))

HlcSend(n) == Local(n, "send")
HlcUpdate(n) == Local(n, "update")

(* recv(remote) of any message ever sent.                                  *)
HlcRecv(n, i) ==
    /\ Len(log) < MaxEvents
    /\ log[i].kind = "send"
    /\ \E now \in WallClock :
         LET m == log[i]
             lNew == Advance(Advance(l[n], m.l), now)
         IN  Stamp(n, "recv", lNew, CounterAfterRecv(l[n], lNew, c[n], m), now,
                   Known(n) \union {i} \union m.past)

HlcNext ==
    \E n \in Node :
        \/ HlcSend(n) \/ HlcUpdate(n)
        \/ \E i \in 1 .. Len(log) : HlcRecv(n, i)

HlcSpec == HlcInit /\ [][HlcNext]_hlcVars

-----------------------------------------------------------------------------
HlcTypeOK ==
    /\ l \in [Node -> Nat]
    /\ c \in [Node -> Nat]
    /\ log \in Seq(HlcEvent)

(* The order of the stamps respects causality (lines 3-6): an event comes  *)
(* after everything in its past, so no response is shown before its        *)
(* request, whatever the wall clocks say and however messages arrive.      *)
CausalOrder ==
    \A j \in 1 .. Len(log) : \A i \in log[j].past : Before(log[i], log[j])

(* The order is total (line 18): no two events have the same stamp, also   *)
(* when messages are duplicated, so sorting by it is deterministic.        *)
StampsUnique ==
    \A i, j \in 1 .. Len(log) : i # j => Before(log[i], log[j]) \/ Before(log[j], log[i])

(* "a monotonic ceiling over observed clocks" (line 14), and no more: the  *)
(* physical component is the latest wall clock read in the event's past,   *)
(* so it never runs ahead of the fastest clock it heard of.                *)
PhysicalIsObserved ==
    \A j \in 1 .. Len(log) :
        LET seen == log[j].past \union {j}
        IN  /\ \A i \in seen : log[i].now <= log[j].l
            /\ log[j].l = 0 \/ \E i \in seen : log[i].now = log[j].l
=============================================================================

---------------------------- MODULE DropOldestLog ----------------------------
(***************************************************************************)
(* What the storage primitive of core/ring-buffer.ts promises its users,   *)
(* whatever the layout behind it: a bounded log that keeps the newest      *)
(* items in the order they were pushed, and counts every item it had to    *)
(* give up ("a silent drop makes the tool lie").                           *)
(*                                                                         *)
(* Items are named by their push ordinal: the n-th item ever pushed is n.  *)
(* The code never looks inside an item, so nothing else about it matters.  *)
(***************************************************************************)
EXTENDS Naturals, Sequences

CONSTANTS
    Capacity,   \* the most items the log retains
    MaxPush     \* bound: the number of pushes explored

VARIABLES
    pushed,     \* how many items were ever pushed
    kept,       \* the retained items, oldest first
    dropped     \* how many items were given up because the log was full

logVars == <<pushed, kept, dropped>>

Init ==
    /\ pushed = 0
    /\ kept = <<>>
    /\ dropped = 0

(* A full log gives up its oldest item, and says so. *)
Push ==
    /\ pushed < MaxPush
    /\ pushed' = pushed + 1
    /\ IF Len(kept) = Capacity
         THEN /\ kept' = Append(Tail(kept), pushed + 1)
              /\ dropped' = dropped + 1
         ELSE /\ kept' = Append(kept, pushed + 1)
              /\ UNCHANGED dropped

(* The reader takes everything (or the owner discards everything). *)
Empty ==
    /\ kept' = <<>>
    /\ UNCHANGED <<pushed, dropped>>

Next == Push \/ Empty

Spec == Init /\ [][Next]_logVars
=============================================================================

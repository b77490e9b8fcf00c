-------------------------------- MODULE MCEdge --------------------------------
(* What runs beside the application at a peer, each on a small instance: two *)
(* taps on one object, whose sinks throw and use the object; the stats       *)
(* poller; and the hybrid clocks of two nodes, whose wall clocks may differ  *)
(* or jump back at every reading. They share no state, and what one does     *)
(* tells nothing of the others: a behaviour runs one of them, and the others *)
(* stay as they began.                                                       *)
EXTENDS SendTap, MCStatsPoll, HybridClock

VARIABLE part       \* the one that runs

edgeVars == <<part, vars, pollVars, hlcVars>>

EdgeInit ==
    /\ part \in {"taps", "poller", "clocks"}
    /\ Init /\ PollInit /\ HlcInit
    /\ part # "taps" => removable
    /\ part # "poller" => detachable

EdgeNext ==
    \/ part = "taps" /\ Next /\ UNCHANGED <<part, pollVars, hlcVars>>
    \/ part = "poller" /\ PollNext /\ UNCHANGED <<part, vars, hlcVars>>
    \/ part = "clocks" /\ HlcNext /\ UNCHANGED <<part, vars, pollVars>>

EdgeSpec == EdgeInit /\ [][EdgeNext]_edgeVars
=============================================================================

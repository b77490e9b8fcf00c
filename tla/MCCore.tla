-------------------------------- MODULE MCCore --------------------------------
(* The ring, the collector as its public methods are called, and the        *)
(* redactor, each on a small instance: a ring that wraps twice around, and  *)
(* every graph of four objects with at most two members each, so that there *)
(* are ways too long that meet no object twice. They share no state, and    *)
(* what one does tells nothing of the others: a behaviour runs one of them, *)
(* and the others stay as they began.                                       *)
EXTENDS RingBuffer, Collector, Redactor, TLC

VARIABLE part       \* the one that runs

(* The fields whose values are any graph. The walk of the others is one of  *)
(* these three: their values have no object inside, or just themselves.     *)
AnyGraph ==
    {<<{"ciphertext"}, "object", FALSE>>, <<{"body"}, "object", FALSE>>, <<{"peer"}, "peers", FALSE>>}

coreVars == <<part, ringVars, vars, redactVars>>

CoreInit ==
    /\ part \in {"ring", "collector", "redactor"}
    /\ RingInit /\ Init /\ RedactInit
    /\ part # "redactor" => classes = {} /\ value = "undefined" /\ ~allowed

CoreNext ==
    \/ part = "ring" /\ RingNext /\ UNCHANGED <<part, vars, redactVars>>
    \/ part = "collector" /\ Next /\ UNCHANGED <<part, ringVars, redactVars>>
    \/ /\ part = "redactor" /\ RedactNext /\ UNCHANGED <<part, ringVars, vars>>
       /\ DOMAIN graph' \subseteq {Root} \/ field \in AnyGraph

CoreSpec == CoreInit /\ [][CoreNext]_coreVars

Symmetry == Permutations(CorrId) \union Permutations(Peer) \union Permutations(Object \ {Root})
=============================================================================

--------------------------- MODULE InsertionOrder ----------------------------
(***************************************************************************)
(* JavaScript's Map and Set, as far as core/correlator.ts relies on them:  *)
(* they remember the order in which keys were first inserted. A map is a   *)
(* function from its keys to records with a field `pos`, the position at   *)
(* which the key was inserted; positions only grow, and are never reused.  *)
(***************************************************************************)
EXTENDS Naturals

(* m.set(k, v) for a key that is new at position v.pos, or that keeps it.  *)
Put(m, k, v) == [l \in DOMAIN m \union {k} |-> IF l = k THEN v ELSE m[l]]

(* m.delete(k) *)
Delete(m, k) == [l \in DOMAIN m \ {k} |-> m[l]]

(* The keys an iteration over m has not visited once it is past `p`.       *)
KeysAfter(m, p) == {k \in DOMAIN m : m[k].pos > p}

(* The next key an iteration visits; with p = 0, m.keys().next().value.    *)
NextKey(m, p) ==
    CHOOSE k \in KeysAfter(m, p) : \A l \in KeysAfter(m, p) : m[k].pos <= m[l].pos

Oldest(m) == NextKey(m, 0)
=============================================================================

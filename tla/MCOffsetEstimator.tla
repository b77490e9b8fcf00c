-------------------------- MODULE MCOffsetEstimator ---------------------------
(* Legs that are symmetric and fast, symmetric and slow, and asymmetric in  *)
(* both directions; a peer whose clock steps once by 100 ms.                *)
EXTENDS OffsetEstimator

Ms(t) == 4 * t
MCLeg == {<<Ms(1), Ms(1)>>, <<Ms(10), Ms(0)>>, <<Ms(18), Ms(0)>>, <<Ms(3), Ms(27)>>}
MCProcessing == {Ms(0), Ms(7)}
MCTrueOffset == {Ms(0), Ms(100)}
=============================================================================

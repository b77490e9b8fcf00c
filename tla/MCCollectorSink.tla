--------------------------- MODULE MCCollectorSink ---------------------------
(* The collector behind its event seam, on a small instance. *)
EXTENDS CollectorSink
=============================================================================

------------------------------ MODULE MCHubPath -------------------------------
(* A small cap, redaction and writes that fail, an onError that throws, and *)
(* a stream and an onError that call the flusher back.                      *)
EXTENDS HubPath
=============================================================================

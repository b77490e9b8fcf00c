---------------------------- MODULE MCStreamFramer ----------------------------
(* Two-byte lengths over a binary alphabet: payloads that are empty, and   *)
(* payloads that read like lengths themselves.                             *)
EXTENDS StreamFramer

MCPayload == {<<>>, <<1>>, <<0, 1>>}
=============================================================================

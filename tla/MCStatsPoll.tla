------------------------------ MODULE MCStatsPoll -----------------------------
(* Reports in every order of their entries: a pair that was selected, one   *)
(* that is nominated and works, one that is nominated only; a relay, a host *)
(* candidate and one of no type; two streams, one of which counts no        *)
(* losses.                                                                  *)
EXTENDS StatsPoll

Pair(id, selected, nominated, state, candidate, type) ==
    [type |-> "candidate-pair", id |-> id, selected |-> selected, nominated |-> nominated,
     state |-> state, localCandidateId |-> candidate, localCandidateType |-> type]
Candidate(id, type) == [type |-> "local-candidate", id |-> id, candidateType |-> type]
Stream(id, lost) == [type |-> "inbound-rtp", id |-> id, packetsLost |-> lost]

Working == Pair("7", FALSE, TRUE, "succeeded", "relayed", "host")
Selected == Pair("p", TRUE, FALSE, "in-progress", "direct", "none")
Failed == Pair("q", FALSE, TRUE, "failed", "gone", "relay")
Relay == Candidate("relayed", "relay")
Direct == Candidate("direct", "host")

Vague == Candidate("gone", "none")

MCIntegerValue == [id \in {"3", "4", "7"} |-> CASE id = "3" -> 3 [] id = "4" -> 4 [] id = "7" -> 7]
MCReports ==
    UNION {SetToSeqs(S) : S \in
        {{}, {Working, Selected, Direct}, {Working, Failed, Relay}, {Failed, Direct}, {Failed, Vague},
         {Working, Stream("3", {2}), Stream("4", {}), Stream("r", {5})}}}
=============================================================================

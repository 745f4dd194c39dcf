----------------------------- MODULE MCSessions -----------------------------
(* What several parties bring about together, in one run: sessions over a  *)
(* network, the evidence that is exchanged as it is judged in several ways,*)
(* and the streams of one user of the private memory service.  They share  *)
(* nothing; a behaviour is one of them, and the variables of the others    *)
(* stay as they are.                                                       *)
EXTENDS MCSession, MCEvidence, MemoryService

VARIABLE scenario

NoEvidence == now = 0 /\ input = Nil /\ cache = Nil /\ verdict = Nil

MCInit ==
    /\ scenario \in {"session", "evidence", "service"}
    /\ Init /\ (scenario = "session" \/ c3 \in Parties)
    /\ ServiceInit /\ (scenario = "service" \/ key_blob = Null)
    /\ IF scenario = "evidence" THEN EvidenceInit ELSE NoEvidence
MCNext ==
    /\ \/ scenario = "session" /\ Next /\ UNCHANGED <<evidenceVars, serviceVars>>
       \/ scenario = "evidence" /\ EvidenceNext /\ UNCHANGED <<vars, serviceVars>>
       \/ scenario = "service" /\ ServiceNext /\ UNCHANGED <<vars, evidenceVars>>
    /\ UNCHANGED scenario

MCSpec == MCInit /\ [][MCNext]_<<vars, evidenceVars, serviceVars, scenario>>
=============================================================================

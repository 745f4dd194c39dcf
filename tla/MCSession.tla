----------------------------- MODULE MCSession -----------------------------
(* Instances of Session for TLC.  Sessions of the host "good" attest       *)
(* truthfully, those of "bad" present evidence that does not verify.       *)
EXTENDS Session

CONSTANTS c1, c2, c3, s1, s2, s3, a, big

MCHost == [p \in Sessions |-> IF p \in {c2, s2} THEN "bad" ELSE "good"]
MCTrustedHosts == {"good"}
MCNoisePeers == Clients \X Servers
Plaintexts == {a, big}
Oversized == {big}

Unattested ==
    [type |-> "Unattested", attesters |-> {}, endorsers |-> {},
     generators |-> {}, binders |-> {}, verifiers |-> {},
     assertion_verifiers |-> {}, aggregator |-> "Empty"]

(* Attesting with evidence and a binder, or with an assertion.             *)
Evidence(cfg) ==
    [cfg EXCEPT !.attesters = {"ev"}, !.endorsers = {"ev"}, !.binders = {"ev"}]
Assertion(cfg) == [cfg EXCEPT !.generators = {"as"}]
VerifyEvidence(cfg) == [cfg EXCEPT !.verifiers = {"ev"}]
VerifyAssertion(cfg) ==
    [cfg EXCEPT !.assertion_verifiers = {"as"}, !.aggregator = "All"]

As(type, cfg) == [cfg EXCEPT !.type = type]

(* Attested servers and clients that verify them, by evidence or by        *)
(* assertion; the other way round; both at once; and evidence that the     *)
(* server has no verifier for.                                             *)
Pairs ==
    {<<As("PeerUnidirectional", VerifyEvidence(Unattested)),
       As("SelfUnidirectional", Evidence(Unattested))>>,
     <<As("PeerUnidirectional", VerifyAssertion(Unattested)),
       As("SelfUnidirectional", Assertion(Unattested))>>,
     <<As("SelfUnidirectional", Evidence(Unattested)),
       As("PeerUnidirectional", VerifyEvidence(Unattested))>>,
     <<As("SelfUnidirectional", Assertion(Unattested)),
       As("PeerUnidirectional", VerifyAssertion(Unattested))>>,
     <<As("Bidirectional", VerifyEvidence(Assertion(Unattested))),
       As("Bidirectional", VerifyAssertion(Evidence(Unattested)))>>,
     <<As("SelfUnidirectional", Evidence(Unattested)), Unattested>>}

Assign(pair, parties) ==
    [p \in parties |-> IF p \in Clients THEN pair[1] ELSE pair[2]]

(* A client between a trusted and an untrusted server, a server between a  *)
(* trusted and an untrusted client, and a pair that exchanges data.        *)
Triangles == {{c1, s1, s2}, {c1, c2, s1}}

MCConfigs ==
    {Assign(pair, t) : pair \in Pairs, t \in Triangles}
      \cup {Assign(<<Unattested, Unattested>>, {c3, s3})}
=============================================================================

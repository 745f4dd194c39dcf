------------------------- MODULE AttestationVerdict -------------------------
(***************************************************************************)
(* The attestation decision over every small configuration and everything  *)
(* a peer may present: a verifier side is configured once, then the peer's *)
(* presentation grows piece by piece, so that verdicts on related          *)
(* presentations can be compared.                                          *)
(***************************************************************************)
EXTENDS Attestation

CONSTANT Ids            \* attestation and assertion IDs

VARIABLES verifiers, assertion_verifiers, aggregator,   \* configuration
          evidence, assertions                          \* presented so far

verdictVars == <<verifiers, assertion_verifiers, aggregator, evidence, assertions>>

Legacy == CombineAttestationResults(verifiers, evidence)
Assertion == CombineAssertionResults(assertion_verifiers, assertions)
Passed == AttestationPassed(Legacy, aggregator, Assertion)

VerdictInit ==
    /\ verifiers \in SUBSET Ids
    /\ assertion_verifiers \in SUBSET Ids
    /\ aggregator \in AggregatorKind
    /\ IsCompatibleWithConfiguration(aggregator, assertion_verifiers)
    /\ evidence = << >>
    /\ assertions = << >>

With(presented, id, q) ==
    [x \in DOMAIN presented \cup {id} |-> IF x = id THEN q ELSE presented[x]]

PresentEvidence(id, q) ==
    /\ id \notin DOMAIN evidence
    /\ evidence' = With(evidence, id, q)
    /\ UNCHANGED <<verifiers, assertion_verifiers, aggregator, assertions>>

PresentAssertion(id, q) ==
    /\ id \notin DOMAIN assertions
    /\ assertions' = With(assertions, id, q)
    /\ UNCHANGED <<verifiers, assertion_verifiers, aggregator, evidence>>

VerdictNext ==
    \/ \E id \in Ids, q \in EvidenceQuality : PresentEvidence(id, q)
    \/ \E id \in Ids, q \in AssertionQuality : PresentAssertion(id, q)

VerdictSpec == VerdictInit /\ [][VerdictNext]_verdictVars
-----------------------------------------------------------------------------
(* A side that configured any verifier never passes a peer without having  *)
(* verified something: at least one presented piece was checked by its     *)
(* verifier and found good, for every aggregator.                          *)
PassedMeansVerified ==
    Passed /\ verifiers \cup assertion_verifiers # {} =>
        \/ \E id \in verifiers \cap DOMAIN evidence : evidence[id] = "good"
        \/ \E id \in assertion_verifiers \cap DOMAIN assertions :
               assertions[id] = "good"

(* No peer passes while one of its pieces of evidence that has a verifier  *)
(* is bad or incomplete.                                                   *)
PassedMeansNothingRefuted ==
    Passed => \A id \in verifiers \cap DOMAIN evidence : evidence[id] = "good"

(* All: a side that requires every assertion verifier never passes a peer  *)
(* that left one out.                                                      *)
AllMeansAll ==
    aggregator = "All" /\ Passed =>
        \A id \in assertion_verifiers :
            id \in DOMAIN assertions /\ assertions[id] = "good"

(* A peer that passes has earned it, under every aggregator.               *)
PassIsEarned == PassedMeansVerified /\ PassedMeansNothingRefuted /\ AllMeansAll

(* Evidence and assertions nobody configured a verifier for cannot change  *)
(* the verdict in either direction, so a peer may be upgraded before its   *)
(* verifiers.  Of a side without any assertion verifier, whose aggregator  *)
(* is Empty, this is said of evidence only; see EmptyMeansNone.            *)
UnverifiedIsNeutral ==
    [][/\ DOMAIN evidence' \cap verifiers = DOMAIN evidence \cap verifiers
       /\ DOMAIN assertions' \cap assertion_verifiers
            = DOMAIN assertions \cap assertion_verifiers
       /\ aggregator = "Empty" => assertions' = assertions
       => (Passed' <=> Passed)]_verdictVars

(* What the comment of Empty says: it "will only succeed if there are no   *)
(* assertion verification results to process".                             *)
EmptyMeansNone == aggregator = "Empty" /\ Passed => DOMAIN Assertion = {}
=============================================================================

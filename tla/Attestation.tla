---------------------------- MODULE Attestation ----------------------------
(***************************************************************************)
(* The decision an endpoint takes about its peer in the attestation phase  *)
(* (oak_session/src/attestation.rs, aggregators.rs, config.rs): joining    *)
(* the configured verifiers with what the peer presents, aggregating the   *)
(* results and deciding whether session bindings are due.                  *)
(*                                                                         *)
(* A map from attestation IDs to results is a function whose domain is the *)
(* set of IDs.  Of a piece of evidence only its quality for the verifier   *)
(* of its ID matters: "good" (verifies), "bad" (does not, or the verifier  *)
(* fails) or "partial" (evidence or endorsements are absent).              *)
(***************************************************************************)
EXTENDS Naturals, FiniteSets

EvidenceQuality  == {"good", "bad", "partial"}
AssertionQuality == {"good", "bad"}
VerifierResult   == {"Success", "Failure", "Missing", "Unverified"}
AggregatorKind   == {"Any", "All", "PassThrough", "Empty"}
AttestationType  == {"Bidirectional", "SelfUnidirectional",
                     "PeerUnidirectional", "Unattested"}

(* IDs whose result is one of the given ones.                              *)
IdsWith(results, kinds) == {id \in DOMAIN results : results[id] \in kinds}

-----------------------------------------------------------------------------
(* Variants used to test the properties, each a mistake the code avoids.   *)
MutUnverifiedIsFailure(verifiers, presented) ==
    [id \in verifiers \cup DOMAIN presented |->
        IF id \notin DOMAIN presented THEN "Missing"
        ELSE IF id \in verifiers /\ presented[id] = "good" THEN "Success"
        ELSE "Failure"]

MutDefaultNoMatchCheck(results) == IdsWith(results, {"Failure"}) = {}

MutAlwaysBindings(legacy, assertion) == TRUE

(* combine_attestation_results: a merge join on the ID.  A verifier        *)
(* without evidence is Missing, evidence without a verifier Unverified.    *)
CombineAttestationResults(verifiers, presented) ==
    [id \in verifiers \cup DOMAIN presented |->
        IF id \notin DOMAIN presented THEN "Missing"
        ELSE IF id \notin verifiers THEN "Unverified"
        ELSE IF presented[id] = "good" THEN "Success"
        ELSE "Failure"]

(* combine_assertion_results: the same join over assertions.               *)
CombineAssertionResults(verifiers, presented) ==
    [id \in verifiers \cup DOMAIN presented |->
        IF id \notin DOMAIN presented THEN "Missing"
        ELSE IF id \notin verifiers THEN "Unverified"
        ELSE IF presented[id] = "good" THEN "Success"
        ELSE "Failure"]

(* DefaultLegacyVerifierResultsAggregator::process_assertion_results.      *)
DefaultLegacyAggregate(results) ==
    LET has_configured_verifier ==
            IdsWith(results, {"Success", "Failure", "Missing"}) # {}
        has_match == IdsWith(results, {"Success", "Failure"}) # {}
    IN  /\ has_configured_verifier => has_match
        /\ IdsWith(results, {"Failure"}) = {}

(* Any, All, PassThrough and Empty: process_assertion_results.             *)
AnyAggregate(results) == IdsWith(results, {"Success"}) # {}

AllAggregate(results) == IdsWith(results, {"Failure", "Missing"}) = {}

PassThroughAggregate(results) ==
    LET configured == IdsWith(results, {"Success", "Failure", "Missing"})
    IN  /\ Cardinality(configured) = 1
        /\ \A id \in configured : results[id] = "Success"

EmptyAggregate(results) == IdsWith(results, {"Unverified"}) = DOMAIN results

AssertionAggregate(kind, results) ==
    CASE kind = "Any"         -> AnyAggregate(results)
      [] kind = "All"         -> AllAggregate(results)
      [] kind = "PassThrough" -> PassThroughAggregate(results)
      [] kind = "Empty"       -> EmptyAggregate(results)

(* combine_legacy_and_assertion_aggregated_verification: passes only when  *)
(* both aggregators do.                                                    *)
AttestationPassed(legacy, kind, assertion) ==
    /\ DefaultLegacyAggregate(legacy)
    /\ AssertionAggregate(kind, assertion)

(* PeerAttestationVerdict::needs_session_bindings.                         *)
NeedsSessionBindings(legacy, assertion) ==
    \/ IdsWith(assertion, {"Success", "Failure", "Unverified"}) # {}
    \/ IdsWith(legacy, {"Success", "Failure", "Unverified"}) # {}

-----------------------------------------------------------------------------
(* is_compatible_with_configuration.                                       *)
IsCompatibleWithConfiguration(kind, assertion_verifiers) ==
    (kind = "Empty") <=> (assertion_verifiers = {})

(* The assertions of SessionConfigBuilder: which parts each                *)
(* AttestationType admits, and build's check of the aggregator.            *)
SelfPartsAdmitted(cfg) ==
    \/ cfg.type \in {"Bidirectional", "SelfUnidirectional"}
    \/ /\ cfg.attesters = {} /\ cfg.endorsers = {}
       /\ cfg.generators = {}

BindersAdmitted(cfg) ==
    cfg.type \in {"Bidirectional", "SelfUnidirectional"} \/ cfg.binders = {}

VerifiersAdmitted(cfg) ==
    cfg.type \in {"Bidirectional", "PeerUnidirectional"} \/ cfg.verifiers = {}

AssertionVerifiersAdmitted(cfg) ==
    \/ cfg.type \in {"Bidirectional", "PeerUnidirectional"}
    \/ cfg.assertion_verifiers = {}

ValidConfig(cfg) ==
    /\ SelfPartsAdmitted(cfg) /\ BindersAdmitted(cfg)
    /\ VerifiersAdmitted(cfg) /\ AssertionVerifiersAdmitted(cfg)
    /\ IsCompatibleWithConfiguration(cfg.aggregator, cfg.assertion_verifiers)
=============================================================================

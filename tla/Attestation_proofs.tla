------------------------- MODULE Attestation_proofs -------------------------
(***************************************************************************)
(* Proofs about attestation: the decision on what a peer presents          *)
(* (AttestationVerdict) and the verification of evidence                   *)
(* (EvidenceVerification).                                                 *)
(*                                                                         *)
(* The decision, for any set of attestation IDs, any configuration and     *)
(* anything a peer presents.  PassIsEarned follows from the definitions of *)
(* the join and of the aggregators as soon as the configuration is a valid *)
(* one; that the verdict ignores what nobody verifies, from the fact that  *)
(* the aggregators look only at the results of configured verifiers.       *)
(*                                                                         *)
(* Evidence, for any inputs and times.  What is kept was derived from the  *)
(* input at hand, and the time decides only whether values are expected,   *)
(* never which; values are joined from events and claims that verified     *)
(* certificates carry; and an endorsement of the same statements verifies  *)
(* alike in both forms of messages.                                        *)
(***************************************************************************)
EXTENDS AttestationVerdict, EvidenceVerification, SequenceTheorems, TLAPS

(* What SessionConfigBuilder::build guarantees, and no step changes.       *)
ConfigOK ==
    /\ verifiers \subseteq Ids /\ assertion_verifiers \subseteq Ids
    /\ aggregator \in AggregatorKind
    /\ IsCompatibleWithConfiguration(aggregator, assertion_verifiers)

Configured == {"Success", "Failure", "Missing"}

-----------------------------------------------------------------------------
(* The join: which IDs have which result.                                  *)
JoinedResults(results, vs, presented) ==
    /\ DOMAIN results = vs \cup DOMAIN presented
    /\ IdsWith(results, Configured) = vs
    /\ IdsWith(results, {"Success", "Failure"}) = vs \cap DOMAIN presented
    /\ \A id : id \in IdsWith(results, {"Success"}) <=>
           id \in vs \cap DOMAIN presented /\ presented[id] = "good"
    /\ \A id : id \in IdsWith(results, {"Failure"}) <=>
           id \in vs \cap DOMAIN presented /\ presented[id] # "good"
    /\ \A id : id \in IdsWith(results, {"Failure", "Missing"}) <=>
           id \in vs /\ (id \in DOMAIN presented => presented[id] # "good")
    /\ IdsWith(results, {"Unverified"}) = DOMAIN presented \ vs
    /\ \A id \in vs : results[id] = "Success" <=>
           id \in DOMAIN presented /\ presented[id] = "good"

(* How presented evidence and configured verifiers are joined.             *)
LEMMA JoinedAttestations ==
    ASSUME NEW vs, NEW presented
    PROVE  JoinedResults(CombineAttestationResults(vs, presented), vs, presented)
  BY DEF JoinedResults, CombineAttestationResults, IdsWith, Configured

(* Assertions are joined the same way.                                     *)
LEMMA JoinedAssertions ==
    ASSUME NEW vs, NEW presented
    PROVE  CombineAssertionResults(vs, presented) = CombineAttestationResults(vs, presented)
  BY DEF CombineAssertionResults, CombineAttestationResults

-----------------------------------------------------------------------------
(* What each aggregator amounts to for a verifier side.                    *)
LEMMA LegacyAggregation ==
    ASSUME NEW vs, NEW presented
    PROVE  DefaultLegacyAggregate(CombineAttestationResults(vs, presented)) <=>
               /\ vs # {} => vs \cap DOMAIN presented # {}
               /\ \A id \in vs \cap DOMAIN presented : presented[id] = "good"
<1>. DEFINE results == CombineAttestationResults(vs, presented)
<1>1. /\ IdsWith(results, Configured) = vs
      /\ IdsWith(results, {"Success", "Failure"}) = vs \cap DOMAIN presented
      /\ \A id : id \in IdsWith(results, {"Failure"}) <=>
                   id \in vs \cap DOMAIN presented /\ presented[id] # "good"
  <2>1. JoinedResults(results, vs, presented)
    BY JoinedAttestations
  <2>. HIDE DEF results
  <2>. QED  BY <2>1 DEF JoinedResults
<1>. HIDE DEF results
<1>2. DefaultLegacyAggregate(results) <=>
          /\ IdsWith(results, Configured) # {} => IdsWith(results, {"Success", "Failure"}) # {}
          /\ IdsWith(results, {"Failure"}) = {}
  BY DEF DefaultLegacyAggregate, Configured
<1>. QED  BY <1>1, <1>2 DEF results

(* The same for the aggregators of assertions.                             *)
LEMMA AssertionAggregation ==
    ASSUME NEW vs, NEW presented, NEW kind \in AggregatorKind
    PROVE  AssertionAggregate(kind, CombineAssertionResults(vs, presented)) <=>
               \/ kind = "Any" /\ \E id \in vs \cap DOMAIN presented : presented[id] = "good"
               \/ kind = "All" /\ \A id \in vs : id \in DOMAIN presented /\ presented[id] = "good"
               \/ /\ kind = "PassThrough" /\ Cardinality(vs) = 1
                  /\ \A id \in vs : id \in DOMAIN presented /\ presented[id] = "good"
               \/ kind = "Empty" /\ vs \subseteq {}
<1>. DEFINE results == CombineAttestationResults(vs, presented)
<1>1. /\ DOMAIN results = vs \cup DOMAIN presented
      /\ IdsWith(results, Configured) = vs
      /\ \A id : id \in IdsWith(results, {"Success"}) <=>
                   id \in vs \cap DOMAIN presented /\ presented[id] = "good"
      /\ \A id : id \in IdsWith(results, {"Failure", "Missing"}) <=>
                   id \in vs /\ (id \in DOMAIN presented => presented[id] # "good")
      /\ IdsWith(results, {"Unverified"}) = DOMAIN presented \ vs
      /\ \A id \in vs : results[id] = "Success" <=>
                            id \in DOMAIN presented /\ presented[id] = "good"
  <2>1. JoinedResults(results, vs, presented)
    BY JoinedAttestations
  <2>. HIDE DEF results
  <2>. QED  BY <2>1 DEF JoinedResults
<1>2. CombineAssertionResults(vs, presented) = results
  BY JoinedAssertions
<1>. HIDE DEF results
<1>3. CASE kind = "Any"
  BY <1>1, <1>2, <1>3 DEF AssertionAggregate, AnyAggregate
<1>4. CASE kind = "All"
  BY <1>1, <1>2, <1>4 DEF AssertionAggregate, AllAggregate
<1>5. CASE kind = "PassThrough"
  <2>1. AssertionAggregate(kind, results) <=>
            /\ Cardinality(IdsWith(results, Configured)) = 1
            /\ \A id \in IdsWith(results, Configured) : results[id] = "Success"
    BY <1>5 DEF AssertionAggregate, PassThroughAggregate, Configured
  <2>. QED  BY <1>1, <1>2, <1>5, <2>1
<1>6. CASE kind = "Empty"
  BY <1>1, <1>2, <1>6 DEF AssertionAggregate, EmptyAggregate
<1>. QED  BY <1>3, <1>4, <1>5, <1>6 DEF AggregatorKind

-----------------------------------------------------------------------------
(* The configuration stays what it was made to be.                         *)
LEMMA ConfigInvariance == VerdictSpec => []ConfigOK
<1>1. VerdictInit => ConfigOK
  BY DEF VerdictInit, ConfigOK
<1>2. ConfigOK /\ [VerdictNext]_verdictVars => ConfigOK'
  BY DEF ConfigOK, VerdictNext, PresentEvidence, PresentAssertion, verdictVars
<1>. QED  BY <1>1, <1>2, PTL DEF VerdictSpec

(* A peer that passes has earned it under every aggregator: something was  *)
(* verified if there was a verifier, nothing was refuted, and All means    *)
(* all of them.                                                            *)
THEOREM PassesAreEarned == VerdictSpec => []PassIsEarned
<1>1. ConfigOK => PassIsEarned
  <2>. SUFFICES ASSUME ConfigOK PROVE PassIsEarned
    OBVIOUS
  <2>1. Passed <=>
           /\ DefaultLegacyAggregate(CombineAttestationResults(verifiers, evidence))
           /\ AssertionAggregate(aggregator,
                                 CombineAssertionResults(assertion_verifiers, assertions))
    BY DEF Passed, Legacy, Assertion, AttestationPassed
  <2>2. /\ aggregator \in AggregatorKind
        /\ (aggregator = "Empty") <=> (assertion_verifiers = {})
    BY DEF ConfigOK, IsCompatibleWithConfiguration
  <2>3. Passed =>
           /\ verifiers # {} => verifiers \cap DOMAIN evidence # {}
           /\ \A id \in verifiers \cap DOMAIN evidence : evidence[id] = "good"
    BY <2>1, LegacyAggregation
  <2>4. Passed =>
           \/ aggregator = "Any" /\ \E id \in assertion_verifiers \cap DOMAIN assertions :
                                        assertions[id] = "good"
           \/ /\ aggregator \in {"All", "PassThrough"}
              /\ \A id \in assertion_verifiers :
                    id \in DOMAIN assertions /\ assertions[id] = "good"
           \/ aggregator = "Empty"
    BY <2>1, <2>2, AssertionAggregation
  <2>5. PassedMeansVerified
    BY <2>2, <2>3, <2>4 DEF PassedMeansVerified
  <2>6. PassedMeansNothingRefuted
    BY <2>3 DEF PassedMeansNothingRefuted
  <2>7. AllMeansAll
    BY <2>4 DEF AllMeansAll
  <2>. QED  BY <2>5, <2>6, <2>7 DEF PassIsEarned
<1>. QED  BY <1>1, ConfigInvariance, PTL

(* Presenting a piece that no verifier is configured for leaves the verdict*)
(* as it is, in both directions, unless it is an assertion and there is no *)
(* assertion verifier at all.                                              *)
THEOREM NeutralWithoutVerifier == VerdictSpec => UnverifiedIsNeutral
<1>. DEFINE A == /\ DOMAIN evidence' \cap verifiers = DOMAIN evidence \cap verifiers
                 /\ DOMAIN assertions' \cap assertion_verifiers
                      = DOMAIN assertions \cap assertion_verifiers
                 /\ aggregator = "Empty" => assertions' = assertions
                 => (Passed' <=> Passed)
<1>1. ConfigOK /\ [VerdictNext]_verdictVars => [A]_verdictVars
  <2>. SUFFICES ASSUME ConfigOK, VerdictNext,
                       DOMAIN evidence' \cap verifiers = DOMAIN evidence \cap verifiers,
                       DOMAIN assertions' \cap assertion_verifiers
                           = DOMAIN assertions \cap assertion_verifiers
                PROVE  Passed' <=> Passed
    OBVIOUS
  <2>1. /\ UNCHANGED <<verifiers, assertion_verifiers, aggregator>>
        /\ \A id \in DOMAIN evidence : id \in DOMAIN evidence' /\ evidence'[id] = evidence[id]
        /\ \A id \in DOMAIN assertions :
              id \in DOMAIN assertions' /\ assertions'[id] = assertions[id]
    <3>1. CASE \E id \in Ids, q \in EvidenceQuality : PresentEvidence(id, q)
      BY <3>1 DEF PresentEvidence, With
    <3>2. CASE \E id \in Ids, q \in AssertionQuality : PresentAssertion(id, q)
      BY <3>2 DEF PresentAssertion, With
    <3>. QED  BY <3>1, <3>2 DEF VerdictNext
  <2>2. aggregator \in AggregatorKind
    BY DEF ConfigOK
  <2>3. Passed <=>
           /\ DefaultLegacyAggregate(CombineAttestationResults(verifiers, evidence))
           /\ AssertionAggregate(aggregator,
                                 CombineAssertionResults(assertion_verifiers, assertions))
    BY DEF Passed, Legacy, Assertion, AttestationPassed
  <2>4. Passed' <=>
           /\ DefaultLegacyAggregate(CombineAttestationResults(verifiers, evidence'))
           /\ AssertionAggregate(aggregator,
                                 CombineAssertionResults(assertion_verifiers, assertions'))
    BY <2>1 DEF Passed, Legacy, Assertion, AttestationPassed
  <2>5. DefaultLegacyAggregate(CombineAttestationResults(verifiers, evidence')) <=>
        DefaultLegacyAggregate(CombineAttestationResults(verifiers, evidence))
    BY <2>1, LegacyAggregation
  <2>6. AssertionAggregate(aggregator, CombineAssertionResults(assertion_verifiers, assertions'))
        <=>
        AssertionAggregate(aggregator, CombineAssertionResults(assertion_verifiers, assertions))
    BY <2>1, <2>2, AssertionAggregation
  <2>. QED  BY <2>3, <2>4, <2>5, <2>6
<1>2. VerdictSpec => [][A]_verdictVars
  BY <1>1, ConfigInvariance, PTL DEF VerdictSpec
<1>. QED  BY <1>2 DEF UnverifiedIsNeutral

-----------------------------------------------------------------------------
(* The ways to come to a verdict on evidence.                              *)
Verifications == {"all", "amd", "insecure", "tdx", "cached"}

(* The inductive invariant: what is kept was derived from the input at hand*)
(* at some time, and a verdict is that of its verification now.            *)
EvidenceInv ==
    /\ now \in 0..MaxTime
    /\ input \in Cases
    /\ cache # Nil =>
          \E t : cache = GetExpectedValues(t, input.endorsements, input.reference) /\ cache # Err
    /\ verdict # Nil =>
          /\ verdict.by \in Verifications
          /\ verdict.by = "cached" => cache # Nil
          /\ verdict.ok <=>
                IF verdict.by = "cached"
                THEN VerifyWithExpectedValues(now, input.evidence, input.endorsements, cache)
                ELSE Accepts(verdict.by, now, input)

(* Every verdict is the one its way of verification gives now, and values  *)
(* that are kept are those get_expected_values derived from the input.     *)
THEOREM EvidenceInvariance == EvidenceSpec => []EvidenceInv
<1>1. EvidenceInit => EvidenceInv
  BY TimeAssumption DEF EvidenceInit, EvidenceInv
<1>2. EvidenceInv /\ [EvidenceNext]_evidenceVars => EvidenceInv'
  <2>. SUFFICES ASSUME EvidenceInv, [EvidenceNext]_evidenceVars PROVE EvidenceInv'
    OBVIOUS
  <2>1. CASE Pass
    BY <2>1, TimeAssumption DEF Pass, EvidenceInv
  <2>2. CASE KeepExpectedValues
    BY <2>2 DEF KeepExpectedValues, EvidenceInv
  <2>3. ASSUME NEW by \in {"all", "amd", "insecure", "tdx"}, Verify(by) PROVE EvidenceInv'
    BY <2>3 DEF Verify, EvidenceInv, Verifications
  <2>4. CASE VerifyCached
    BY <2>4 DEF VerifyCached, EvidenceInv, Verifications
  <2>5. CASE UNCHANGED evidenceVars
    BY <2>5 DEF evidenceVars, EvidenceInv
  <2>. QED  BY <2>1, <2>2, <2>3, <2>4, <2>5 DEF EvidenceNext
<1>. QED  BY <1>1, <1>2, PTL DEF EvidenceSpec

-----------------------------------------------------------------------------
(* Components and their fields.                                            *)
LEMMA KnownComponents ==
    ASSUME NEW type \in {"RestrictedKernel", "Containers"}
    PROVE  /\ Components(type) \subseteq KernelComponents \cup
                  {"system_image", "binary", "configuration"}
           /\ LayersOf(type) \in Seq(SUBSET Components(type))
           /\ \A c \in Components(type) : \E i \in 1..Len(LayersOf(type)) : c \in LayersOf(type)[i]
<1>1. CASE type = "RestrictedKernel"
  <2>. DEFINE A == KernelComponents
              B == {"binary", "configuration"}
  <2>1. LayersOf(type) = <<A, B>>
    BY <1>1 DEF LayersOf
  <2>. HIDE DEF A
  <2>2. Components(type) = A \cup B
    BY <2>1 DEF Components
  <2>. HIDE DEF B
  <2>3. /\ <<A, B>> \in Seq(SUBSET (A \cup B)) /\ Len(<<A, B>>) = 2
        /\ <<A, B>>[1] = A /\ <<A, B>>[2] = B /\ 1 \in 1..2 /\ 2 \in 1..2
    OBVIOUS
  <2>. QED  BY <2>1, <2>2, <2>3 DEF A, B
<1>2. CASE type = "Containers"
  <2>. DEFINE A == KernelComponents
              B == {"system_image"}
              C == {"binary", "configuration"}
  <2>1. LayersOf(type) = <<A, B, C>>
    BY <1>2 DEF LayersOf
  <2>. HIDE DEF A, B
  <2>2. Components(type) = A \cup B \cup C
    BY <2>1 DEF Components
  <2>. HIDE DEF C
  <2>3. /\ <<A, B, C>> \in Seq(SUBSET (A \cup B \cup C)) /\ Len(<<A, B, C>>) = 3
        /\ <<A, B, C>>[1] = A /\ <<A, B, C>>[2] = B /\ <<A, B, C>>[3] = C
        /\ 1 \in 1..3 /\ 2 \in 1..3 /\ 3 \in 1..3
    OBVIOUS
  <2>. QED  BY <2>1, <2>2, <2>3 DEF A, B, C
<1>. QED  BY <1>1, <1>2

(* A field belongs to one component.                                       *)
LEMMA OneOwner ==
    ASSUME NEW c, NEW d, NEW f, f \in FieldsOf(c), f \in FieldsOf(d),
           c \notin {"kernel_image", "kernel_setup_data"},
           d \notin {"kernel_image", "kernel_setup_data"}
    PROVE  c = d
  BY DEF FieldsOf

(* What is expected of a component that is not skipped is not Skipped.     *)
LEMMA NotSkipped ==
    ASSUME NEW t, NEW c, NEW e, NEW ref, NEW newer, ref # Nil => ReferenceOK(ref),
           ExpectedFor(t, c, e, ref, newer) # Err, ref.type # "Skip", NEW f \in FieldsOf(c)
    PROVE  ExpectedFor(t, c, e, ref, newer)[f].type # "Skipped"
<1>1. ref # Nil
  BY DEF ExpectedFor
<1>2. CASE ref.type = "Digests"
  BY <1>1, <1>2 DEF ExpectedFor, Digests
<1>3. CASE ref.type = "Text"
  BY <1>1, <1>3 DEF ExpectedFor, Text
<1>4. CASE ref.type = "Endorsement"
  <2>1. ExpectedFor(t, c, e, ref, newer) = Endorsed(c, e, newer)
    BY <1>1, <1>4 DEF ExpectedFor
  <2>2. Endorsed(c, e, newer)[f].type \in {"Digests", "Text"}
    BY DEF Endorsed, Digests, Text, FieldsOf
  <2>. QED  BY <2>1, <2>2
<1>. QED  BY <1>1, <1>2, <1>3, <1>4 DEF ReferenceOK, ReferenceKinds

(* Expected values of all components at once are those of each.            *)
EachExpected(t, ends, ref, c) ==
    /\ GetExpectedValues(t, ends, ref).type = ref.type
    /\ ExpectedFor(t, c, ends.of[c], ref.of[c], FALSE) # Err
    /\ \A f \in FieldsOf(c) : GetExpectedValues(t, ends, ref).values[f]
                                = ExpectedFor(t, c, ends.of[c], ref.of[c], FALSE)[f]

(* Values are expected only if those of every judged component are.        *)
LEMMA ExpectedOfEach ==
    ASSUME NEW t, NEW ends, NEW ref, ref.type \in {"RestrictedKernel", "Containers"},
           GetExpectedValues(t, ends, ref) # Err,
           NEW c \in Judged(ref)
    PROVE  EachExpected(t, ends, ref, c)
<1>. DEFINE judged == Judged(ref)
            of == [d \in judged |-> ExpectedFor(t, d, ends.of[d], ref.of[d], FALSE)]
            Owner(f) == CHOOSE d \in judged : f \in FieldsOf(d)
            values == [f \in UNION {FieldsOf(d) : d \in judged} |-> of[Owner(f)][f]]
<1>1. \A d \in judged : d \notin {"kernel_image", "kernel_setup_data"}
  BY KnownComponents DEF KernelComponents, Judged
<1>2. c \in judged
  OBVIOUS
<1>3. GetExpectedValues(t, ends, ref) =
          IF ends.type # ref.type \/ \E d \in judged : of[d] = Err THEN Err
          ELSE [type |-> ref.type, amd_sev |-> ref.amd_sev, insecure |-> ref.insecure,
                values |-> values]
  BY DEF GetExpectedValues, Judged
<1>4. of[c] = ExpectedFor(t, c, ends.of[c], ref.of[c], FALSE)
  OBVIOUS
<1>5. ASSUME NEW f \in FieldsOf(c) PROVE values[f] = of[c][f]
  <2>1. Owner(f) \in judged /\ f \in FieldsOf(Owner(f))
    BY <1>2, <1>5
  <2>. HIDE DEF judged
  <2>2. Owner(f) = c
    BY <1>1, <1>2, <1>5, <2>1, OneOwner
  <2>. QED  BY <1>2, <1>5, <2>2
<1>. HIDE DEF judged, of, values
<1>6. /\ of[c] # Err
      /\ GetExpectedValues(t, ends, ref).type = ref.type
      /\ GetExpectedValues(t, ends, ref).values = values
  BY <1>2, <1>3
<1>. QED  BY <1>4, <1>5, <1>6 DEF EachExpected

(* A field that matches was extracted, and nothing else decides it.        *)
LEMMA MatchesNeedsField ==
    ASSUME NEW f, NEW values, NEW e, FieldMatches(f, values, e), e.type # "Skipped"
    PROVE  /\ f \in DOMAIN values
           /\ \A other : f \in DOMAIN other /\ other[f] = values[f] => FieldMatches(f, other, e)
  BY DEF FieldMatches

-----------------------------------------------------------------------------
(* A joined value comes from one of the sources.                           *)
LEMMA JoinedFrom ==
    ASSUME NEW s, NEW f \in DOMAIN Joined(s)
    PROVE  \E i \in DOMAIN s : f \in DOMAIN s[i].values /\ Joined(s)[f] = s[i].values[f]
  BY DEF Joined

Claims(ev) == Append([i \in 1..Len(ev.layers) |-> ev.layers[i].claims], ev.application_keys.claims)

(* Values are extracted from the event log or, without one, from claims.   *)
LEMMA ExtractedFrom ==
    ASSUME NEW ev, NEW type \in {"RestrictedKernel", "Containers"},
           Extract(ev) # Err, Extract(ev).type = type
    PROVE  \/ ev.event_log # Nil /\ Extract(ev).values = Joined(ev.event_log)
           \/ /\ \A i \in DOMAIN Claims(ev) : Claims(ev)[i] # Nil
              /\ Extract(ev).values = Joined(Claims(ev))
<1>. DEFINE log == ev.event_log
            types == [i \in 1..Len(log) |-> log[i].type]
            final == ev.application_keys.claims
            From(t, s) == [type |-> t, values |-> Joined(s)]
            Known(s) == \A i \in DOMAIN s : s[i] # Nil
            Kinds(s) == [i \in DOMAIN s |-> s[i].type]
            cb == [type |-> "Cb"]
            claims == Claims(ev)
            current == types \in {EventTypes("Containers"), LegacyContainers}
            fromlog == CASE current -> From("Containers", log)
                         [] types = EventTypes("RestrictedKernel") -> From("RestrictedKernel", log)
                         [] ~current /\ Len(log) >= 3 -> cb
                         [] OTHER -> Err
            fromclaims ==
                CASE final # Nil /\ final.type = "Container" ->
                        IF Known(claims) /\ Kinds(claims) = <<"Kernel", "System", "Container">>
                        THEN From("Containers", claims) ELSE Err
                  [] final # Nil /\ final.type = "Application" ->
                        IF Known(claims) /\ Kinds(claims) = <<"Kernel", "Application">>
                        THEN From("RestrictedKernel", claims) ELSE Err
                  [] OTHER ->
                        IF \A i \in 1..Len(ev.layers) : ev.layers[i].event # Nil
                        THEN cb ELSE Err
<1>1. Extract(ev) = CASE ~ev.report.valid -> Err
                      [] ev.report.valid /\ log # Nil /\ log # << >> -> fromlog
                      [] OTHER -> fromclaims
  BY Zenon DEF Extract, Claims
<1>. HIDE DEF Claims
<1>2. fromlog \in {From("Containers", log), From("RestrictedKernel", log), cb, Err}
  <2>. HIDE DEF current, From, cb, types
  <2>. QED  OBVIOUS
<1>3. \/ fromclaims \in {cb, Err}
      \/ Known(claims) /\ fromclaims \in {From("Containers", claims),
                                           From("RestrictedKernel", claims)}
  <2>. HIDE DEF From, cb, Known, Kinds, final
  <2>. QED  OBVIOUS
<1>4. cb.type # type
  OBVIOUS
<1>5. \A t, s : From(t, s).values = Joined(s)
  OBVIOUS
<1>. HIDE DEF fromlog, fromclaims, cb, From
<1>6. CASE ev.report.valid /\ log # Nil /\ log # << >>
  BY <1>1, <1>2, <1>4, <1>5, <1>6
<1>7. CASE ~(ev.report.valid /\ log # Nil /\ log # << >>)
  BY <1>1, <1>3, <1>4, <1>5, <1>7
<1>. QED  BY <1>6, <1>7

-----------------------------------------------------------------------------
(* When the chain verifies from the key in the report, the platform vouches*)
(* for what every certificate says.                                        *)
LEMMA LayersVouched ==
    ASSUME NEW ev, NEW by, IsSeq(ev.layers), ev.platform # "IntelTdx",
           ev.report.report_data = ev.eca_public_key, ChainVerified(ev)
    PROVE  /\ \A i \in 1..Len(ev.layers) :
                 ev.layers[i].event \in Vouched(ev, by) /\ ev.layers[i].claims \in Vouched(ev, by)
           /\ /\ ev.application_keys # Nil
              /\ by \in {"all", "cached"} => ev.application_keys.encryption_signer = LastKey(ev)
              => {ev.application_keys.event, ev.application_keys.claims} \subseteq Vouched(ev, by)
<1>. DEFINE n == Len(ev.layers)
            Above(i) == IF i = 1 THEN ev.report.report_data ELSE ev.layers[i - 1].key
            rooted == {i \in 0..n : \A j \in 1..i : ev.layers[j].signer = Above(j)}
            keys == ev.application_keys
            said == UNION {{ev.layers[i].event, ev.layers[i].claims} : i \in rooted \ {0}}
            final == IF /\ keys # Nil
                        /\ by \in {"all", "cached"} =>
                              n \in rooted /\ keys.encryption_signer = Above(n + 1)
                     THEN {keys.event, keys.claims} ELSE {}
<1>1. Vouched(ev, by) = said \cup final
  BY Zenon DEF Vouched
<1>2. n \in Nat
  BY DEF IsSeq
<1>3. \A i : KeyAbove(ev, i) = Above(i)
  BY DEF KeyAbove
<1>4. \A i \in 0..n : i \in rooted
  <2>1. \A j \in 1..n : ev.layers[j].signer = Above(j)
    BY <1>3 DEF ChainVerified
  <2>. HIDE DEF n, Above
  <2>. QED  BY <1>2, <2>1
<1>5. LastKey(ev) = Above(n + 1)
  BY Zenon, <1>3 DEF LastKey
<1>. HIDE DEF n, Above, rooted
<1>6. \A i \in 1..n : ev.layers[i].event \in said /\ ev.layers[i].claims \in said
  <2>1. \A i \in 1..n : i \in rooted \ {0}
    BY <1>2, <1>4
  <2>2. ASSUME NEW i \in 1..n
        PROVE  ev.layers[i].event \in said /\ ev.layers[i].claims \in said
    BY <2>1
  <2>. QED  BY <2>2
<1>7. n \in rooted
  BY <1>2, <1>4
<1>8. /\ keys # Nil
      /\ by \in {"all", "cached"} => keys.encryption_signer = LastKey(ev)
      => {keys.event, keys.claims} \subseteq final
  BY <1>5, <1>7
<1>. HIDE DEF said, final
<1>. QED  BY <1>1, <1>6, <1>8 DEF n

(* The events of the log are among them, as validate_events_and_layers     *)
(* finds each in its certificate.                                          *)
LEMMA LogVouched ==
    ASSUME NEW ev, NEW by, IsSeq(ev.layers), ev.platform # "IntelTdx",
           ev.report.report_data = ev.eca_public_key, ChainVerified(ev),
           by \in {"all", "cached"} => ApplicationKeysVerified(ev),
           IsSeq(ev.event_log), EventsCaptured(ev)
    PROVE  \A i \in DOMAIN ev.event_log : ev.event_log[i] \in Vouched(ev, by)
<1>. DEFINE log == ev.event_log
            n == Len(ev.layers)
<1>1. \A i \in 1..n : ev.layers[i].event \in Vouched(ev, by)
  BY LayersVouched
<1>2. ev.application_keys # Nil => ev.application_keys.event \in Vouched(ev, by)
  BY LayersVouched DEF ApplicationKeysVerified
<1>3. DOMAIN log = 1..Len(log) /\ n \in Nat
  BY DEF IsSeq
<1>4. CASE n = 1 /\ Len(log) = 2
  <2>1. /\ ev.application_keys # Nil /\ ev.application_keys.event = log[2]
        /\ ev.layers[1].event = log[1]
    BY <1>4 DEF EventsCaptured
  <2>2. \A i \in 1..2 : i = 1 \/ i = 2
    OBVIOUS
  <2>3. 1 \in 1..n
    BY <1>4
  <2>. HIDE DEF log, n
  <2>. QED  BY <1>1, <1>2, <1>3, <1>4, <2>1, <2>2, <2>3 DEF log
<1>5. CASE ~(n = 1 /\ Len(log) = 2)
  <2>1. n = Len(log) /\ \A i \in 1..n : ev.layers[i].event = log[i]
    BY <1>5 DEF EventsCaptured
  <2>. HIDE DEF log, n
  <2>. QED  BY <1>1, <1>3, <2>1 DEF log
<1>. QED  BY <1>4, <1>5

(* The claims too, with the application key's certificate verified.        *)
LEMMA ClaimsVouched ==
    ASSUME NEW ev, NEW by, IsSeq(ev.layers), ev.platform # "IntelTdx",
           ev.report.report_data = ev.eca_public_key, ChainVerified(ev),
           ApplicationKeysVerified(ev)
    PROVE  \A i \in DOMAIN Claims(ev) : Claims(ev)[i] \in Vouched(ev, by)
<1>. DEFINE n == Len(ev.layers)
            s == [i \in 1..n |-> ev.layers[i].claims]
            final == ev.application_keys.claims
            V == Vouched(ev, by)
<1>1. n \in Nat /\ \A i \in 1..n : ev.layers[i].claims \in V
  <2>1. n \in Nat
    BY DEF IsSeq
  <2>2. \A i \in 1..n : ev.layers[i].claims \in V
    BY LayersVouched
  <2>. QED  BY <2>1, <2>2
<1>2. final \in V
  BY LayersVouched DEF ApplicationKeysVerified
<1>3. Claims(ev) = Append(s, final)
  BY DEF Claims
<1>. HIDE DEF n, V, final
<1>4. s \in Seq(V) /\ Len(s) = n
  BY <1>1
<1>. HIDE DEF s
<1>5. Append(s, final) \in Seq(V)
  BY <1>2, <1>4
<1>. QED  BY <1>3, <1>5, ElementOfSeq DEF V

-----------------------------------------------------------------------------
(* A field that matches in joined values matches in one of their sources.  *)
LEMMA MatchedFrom ==
    ASSUME NEW s, NEW V, NEW f, NEW e, \A i \in DOMAIN s : s[i] # Nil /\ s[i] \in V,
           FieldMatches(f, Joined(s), e), e.type # "Skipped"
    PROVE  \E x \in V : x # Nil /\ FieldMatches(f, x.values, e)
<1>1. f \in DOMAIN Joined(s)
  BY MatchesNeedsField
<1>2. PICK i \in DOMAIN s : f \in DOMAIN s[i].values /\ Joined(s)[f] = s[i].values[f]
  BY <1>1, JoinedFrom
<1>3. FieldMatches(f, s[i].values, e)
  BY <1>2, MatchesNeedsField
<1>. QED  BY <1>2, <1>3

(* verify and verify_with_expected_values.                                 *)
LEMMA CustodyAtOnce ==
    ASSUME NEW in \in Cases, NEW t, NEW t0, NEW by \in {"all", "cached"}, NEW expected,
           expected = GetExpectedValues(t0, in.endorsements, in.reference), expected # Err,
           VerifyWithExpectedValues(t, in.evidence, in.endorsements, expected),
           NEW c \in Components(in.reference.type), in.reference.of[c].type # "Skip",
           NEW f \in FieldsOf(c)
    PROVE  \E x \in Vouched(in.evidence, by) :
               x # Nil /\ FieldMatches(f, x.values, expected.values[f])
<1>. DEFINE ev == in.evidence
            ref == in.reference
            e == expected.values[f]
<1>1. /\ ref.type \in {"RestrictedKernel", "Containers"}
      /\ ref.of[c] # Nil => ReferenceOK(ref.of[c])
      /\ IsSeq(ev.layers)
      /\ ev.event_log # Nil =>
            IsSeq(ev.event_log) /\ \A i \in DOMAIN ev.event_log : ev.event_log[i] # Nil
  BY CasesAssumption
<1>2. /\ expected.type = ref.type
      /\ ExpectedFor(t0, c, in.endorsements.of[c], ref.of[c], FALSE) # Err
      /\ e = ExpectedFor(t0, c, in.endorsements.of[c], ref.of[c], FALSE)[f]
  <2>. DEFINE ends == in.endorsements
  <2>1. /\ expected = GetExpectedValues(t0, ends, ref) /\ GetExpectedValues(t0, ends, ref) # Err
        /\ c \in Judged(ref) /\ ref.type \in {"RestrictedKernel", "Containers"}
    BY <1>1 DEF Judged
  <2>. HIDE DEF ends, ref
  <2>2. EachExpected(t0, ends, ref, c)
    BY <2>1, ExpectedOfEach
  <2>. QED  BY <2>1, <2>2 DEF ends, EachExpected
<1>3. e.type # "Skipped"
  BY <1>1, <1>2, NotSkipped
<1>4. /\ ev.platform \in {"AmdSevSnp", "None"} /\ ev.report.report_data = ev.eca_public_key
      /\ ChainVerified(ev) /\ ApplicationKeysVerified(ev)
      /\ ev.event_log # Nil => EventsCaptured(ev)
      /\ Extract(ev) # Err /\ Extract(ev).type = expected.type
      /\ FieldMatches(f, Extract(ev).values, e)
  BY <1>2 DEF VerifyWithExpectedValues, RootSignatureVerified
<1>. HIDE DEF ev, ref, e
<1>5. CASE ev.event_log # Nil /\ Extract(ev).values = Joined(ev.event_log)
  <2>1. \A i \in DOMAIN ev.event_log : ev.event_log[i] \in Vouched(ev, by)
    BY <1>1, <1>4, <1>5, LogVouched
  <2>2. \E x \in Vouched(ev, by) : x # Nil /\ FieldMatches(f, x.values, e)
    BY <1>1, <1>3, <1>4, <1>5, <2>1, MatchedFrom
  <2>. QED  BY <2>2 DEF ev, e
<1>6. CASE /\ \A i \in DOMAIN Claims(ev) : Claims(ev)[i] # Nil
           /\ Extract(ev).values = Joined(Claims(ev))
  <2>1. \A i \in DOMAIN Claims(ev) : Claims(ev)[i] \in Vouched(ev, by)
    BY <1>1, <1>4, ClaimsVouched
  <2>2. \E x \in Vouched(ev, by) : x # Nil /\ FieldMatches(f, x.values, e)
    BY <1>3, <1>4, <1>6, <2>1, MatchedFrom
  <2>. QED  BY <2>2 DEF ev, e
<1>. QED  BY <1>1, <1>2, <1>4, <1>5, <1>6, ExtractedFrom

(* The verifiers made of policies.                                         *)
LEMMA CustodyByPolicies ==
    ASSUME NEW in \in Cases, NEW t, NEW V, in.evidence.event_log # Nil,
           \A i \in DOMAIN in.evidence.event_log : in.evidence.event_log[i] \in V,
           VerifyEventLog(t, in),
           NEW c \in Components(in.reference.type), in.reference.of[c].type # "Skip",
           NEW f \in FieldsOf(c)
    PROVE  \E x \in V : x # Nil /\ FieldMatches(f, x.values,
               ExpectedFor(t, c, in.endorsements.of[c], in.reference.of[c], TRUE)[f])
<1>. DEFINE log == in.evidence.event_log
            layers == LayersOf(in.reference.type)
            sent == in.endorsements.events
            Empty(i) == i > Len(sent) \/ sent[i] = "Empty"
            ref == in.reference.of[c]
            e == in.endorsements.of[c]
            Sent(i) == IF Empty(i) THEN Nil ELSE e
<1>1. /\ in.reference.type \in {"RestrictedKernel", "Containers"}
      /\ ref # Nil => ReferenceOK(ref)
      /\ IsSeq(log) /\ \A i \in DOMAIN log : log[i] # Nil
  BY CasesAssumption
<1>2. DOMAIN log = 1..Len(log)
  BY <1>1 DEF IsSeq
<1>3. PICK i \in 1..Len(layers) : c \in layers[i]
  BY <1>1, KnownComponents
<1>4. Len(layers) = Len(log) /\ PolicyAccepts(t, c, Sent(i), ref, log[i].values)
  BY <1>3 DEF VerifyEventLog
<1>5. /\ ExpectedFor(t, c, Sent(i), ref, TRUE) # Err
      /\ FieldMatches(f, log[i].values, ExpectedFor(t, c, Sent(i), ref, TRUE)[f])
  BY <1>4 DEF PolicyAccepts
<1>6. ExpectedFor(t, c, Sent(i), ref, TRUE) = ExpectedFor(t, c, e, ref, TRUE)
  <2>. DEFINE d == Sent(i)
  <2>1. d \in {Nil, e}
    OBVIOUS
  <2>. HIDE DEF d, ref, e
  <2>2. CASE ref.type = "Endorsement"
    BY <1>1, <1>5, <2>1, <2>2 DEF ExpectedFor, d
  <2>3. CASE ref.type # "Endorsement"
    BY <1>1, <2>3 DEF ExpectedFor, ReferenceOK, ReferenceKinds
  <2>. QED  BY <2>2, <2>3 DEF d
<1>. QED  BY <1>1, <1>2, <1>3, <1>4, <1>5, <1>6

(* Nothing is accepted on the word of the event log: for every input, at   *)
(* any time and by each way of verification, the platform vouches for a    *)
(* measurement among the expected ones of every component that is judged.  *)
THEOREM Custody == EvidenceSpec => []ChainOfCustody
<1>1. EvidenceInv => ChainOfCustody
  <2>. SUFFICES ASSUME EvidenceInv, verdict # Nil, verdict.ok,
                       NEW c \in Components(input.reference.type),
                       input.reference.of[c].type # "Skip", NEW f \in FieldsOf(c)
                PROVE  \E x \in Vouched(input.evidence, verdict.by) :
                           x # Nil /\ FieldMatches(f, x.values,
                               (IF verdict.by = "cached"
                                THEN [g \in FieldsOf(c) |-> cache.values[g]]
                                ELSE ExpectedFor(now, c, input.endorsements.of[c],
                                                 input.reference.of[c], verdict.by # "all"))[f])
    BY Zenon DEF ChainOfCustody
  <2>. DEFINE ev == input.evidence
  <2>1. /\ input \in Cases /\ IsSeq(ev.layers)
        /\ ev.event_log # Nil => IsSeq(ev.event_log)
        /\ input.reference.type \in {"RestrictedKernel", "Containers"}
    BY CasesAssumption DEF EvidenceInv
  <2>2. CASE verdict.by = "cached"
    <3>1. /\ VerifyWithExpectedValues(now, ev, input.endorsements, cache)
          /\ \E t : cache = GetExpectedValues(t, input.endorsements, input.reference)
                     /\ cache # Err
      BY <2>2 DEF EvidenceInv
    <3>2. \E x \in Vouched(ev, "cached") : x # Nil /\ FieldMatches(f, x.values, cache.values[f])
      BY <2>1, <3>1, CustodyAtOnce
    <3>. QED  BY <2>2, <3>2
  <2>3. CASE verdict.by = "all"
    <3>. DEFINE expected == GetExpectedValues(now, input.endorsements, input.reference)
    <3>1. expected # Err /\ VerifyWithExpectedValues(now, ev, input.endorsements, expected)
      BY <2>3 DEF EvidenceInv, Accepts, VerifyAtOnce
    <3>2. \E x \in Vouched(ev, "all") : x # Nil /\ FieldMatches(f, x.values, expected.values[f])
      BY <2>1, <3>1, CustodyAtOnce
    <3>3. expected.values[f] = ExpectedFor(now, c, input.endorsements.of[c],
                                           input.reference.of[c], FALSE)[f]
      <4>. DEFINE ends == input.endorsements
                  ref == input.reference
      <4>1. /\ expected = GetExpectedValues(now, ends, ref)
            /\ GetExpectedValues(now, ends, ref) # Err
            /\ c \in Judged(ref) /\ ref.type \in {"RestrictedKernel", "Containers"}
        BY <2>1, <3>1 DEF Judged
      <4>. HIDE DEF ends, ref, expected
      <4>2. EachExpected(now, ends, ref, c)
        BY <4>1, ExpectedOfEach
      <4>. QED  BY <4>1, <4>2 DEF ends, ref, EachExpected
    <3>. HIDE DEF expected
    <3>. QED  BY <2>3, <3>2, <3>3
  <2>4. CASE verdict.by \in {"amd", "insecure"}
    <3>1. /\ ev.platform # "IntelTdx" /\ ev.report.report_data = ev.eca_public_key
          /\ DiceChainVerified(ev) /\ VerifyEventLog(now, input)
      BY <2>4 DEF EvidenceInv, Accepts, VerifyAmd, VerifyInsecure, RootSignatureVerified
    <3>2. ev.event_log # Nil /\ \A i \in DOMAIN ev.event_log :
                                    ev.event_log[i] \in Vouched(ev, verdict.by)
      BY <2>1, <2>4, <3>1, LogVouched DEF DiceChainVerified
    <3>. QED  BY <2>1, <2>4, <3>1, <3>2, CustodyByPolicies
  <2>5. CASE verdict.by = "tdx"
    <3>1. /\ ev.platform = "IntelTdx" /\ ev.event_log # Nil /\ ev.report.rtmr_2 = ev.event_log
          /\ VerifyEventLog(now, input)
      BY <2>5 DEF EvidenceInv, Accepts, VerifyTdx
    <3>2. \A i \in DOMAIN ev.event_log : ev.event_log[i] \in Vouched(ev, verdict.by)
      BY <3>1 DEF Vouched
    <3>. QED  BY <2>1, <2>5, <3>1, <3>2, CustodyByPolicies
  <2>. QED  BY <2>2, <2>3, <2>4, <2>5 DEF EvidenceInv, Verifications
<1>. QED  BY <1>1, EvidenceInvariance, PTL

-----------------------------------------------------------------------------
(* The time decides whether values are expected, never which.              *)
LEMMA SameExpected ==
    ASSUME NEW t, NEW u, NEW c, NEW e, NEW ref, NEW newer, ref # Nil => ReferenceOK(ref),
           ExpectedFor(t, c, e, ref, newer) # Err, ExpectedFor(u, c, e, ref, newer) # Err
    PROVE  ExpectedFor(t, c, e, ref, newer) = ExpectedFor(u, c, e, ref, newer)
<1>1. ref # Nil
  BY DEF ExpectedFor
<1>2. CASE ref.type = "Endorsement"
  BY <1>1, <1>2 DEF ExpectedFor
<1>3. CASE ref.type # "Endorsement"
  BY <1>1, <1>3 DEF ExpectedFor, ReferenceOK, ReferenceKinds
<1>. QED  BY <1>2, <1>3

ReferencesOK(ref) ==
    /\ ref.type \in {"RestrictedKernel", "Containers"}
    /\ \A c \in Components(ref.type) \cup {"stage0"} : ref.of[c] # Nil => ReferenceOK(ref.of[c])

(* GetExpectedValues: all or nothing.                                      *)
ExpectedOf(t, ends, ref, c) == ExpectedFor(t, c, ends.of[c], ref.of[c], FALSE)
ExpectedByAll(t, ends, ref) == [c \in Judged(ref) |-> ExpectedOf(t, ends, ref, c)]
AllExpected(t, ends, ref) ==
    ends.type = ref.type /\ \A c \in Judged(ref) : ExpectedOf(t, ends, ref, c) # Err
AtOnce(ref, of) ==
    [type |-> ref.type, amd_sev |-> ref.amd_sev, insecure |-> ref.insecure,
     values |-> [f \in UNION {FieldsOf(c) : c \in Judged(ref)} |->
                    of[CHOOSE c \in Judged(ref) : f \in FieldsOf(c)][f]]]

(* get_expected_values, component by component.                            *)
LEMMA GetExpected ==
    ASSUME NEW t, NEW ends, NEW ref
    PROVE  GetExpectedValues(t, ends, ref) =
               IF AllExpected(t, ends, ref) THEN AtOnce(ref, ExpectedByAll(t, ends, ref)) ELSE Err
<1>. DEFINE judged == Judged(ref)
            of == ExpectedByAll(t, ends, ref)
<1>1. GetExpectedValues(t, ends, ref) =
          IF ends.type # ref.type \/ \E d \in judged : of[d] = Err THEN Err ELSE AtOnce(ref, of)
  BY DEF GetExpectedValues, Judged, ExpectedByAll, ExpectedOf, AtOnce
<1>2. \A d \in judged : of[d] = ExpectedOf(t, ends, ref, d)
  BY DEF ExpectedByAll
<1>. HIDE DEF judged, of
<1>3. AllExpected(t, ends, ref) <=> ~(ends.type # ref.type \/ \E d \in judged : of[d] = Err)
  BY <1>2 DEF AllExpected, judged
<1>. QED  BY <1>1, <1>3 DEF of

(* So it is for all the expected values of an input.                       *)
LEMMA SameExpectedValues ==
    ASSUME NEW t, NEW u, NEW ends, NEW ref, ReferencesOK(ref),
           AllExpected(t, ends, ref), AllExpected(u, ends, ref)
    PROVE  GetExpectedValues(t, ends, ref) = GetExpectedValues(u, ends, ref)
<1>1. ASSUME NEW c \in Judged(ref)
      PROVE  ExpectedOf(t, ends, ref, c) = ExpectedOf(u, ends, ref, c)
  <2>1. ref.of[c] # Nil => ReferenceOK(ref.of[c])
    BY DEF Judged, ReferencesOK
  <2>2. ExpectedOf(t, ends, ref, c) # Err /\ ExpectedOf(u, ends, ref, c) # Err
    BY DEF AllExpected
  <2>. DEFINE e == ends.of[c]
              r == ref.of[c]
  <2>. PICK older \in BOOLEAN : older = FALSE
    BY Zenon
  <2>3. /\ ExpectedOf(t, ends, ref, c) = ExpectedFor(t, c, e, r, older)
        /\ ExpectedOf(u, ends, ref, c) = ExpectedFor(u, c, e, r, older)
    BY Zenon DEF ExpectedOf
  <2>. HIDE DEF e, r
  <2>4. ExpectedFor(t, c, e, r, older) # Err /\ ExpectedFor(u, c, e, r, older) # Err
    BY <2>2, <2>3
  <2>5. ExpectedFor(t, c, e, r, older) = ExpectedFor(u, c, e, r, older)
    BY <2>1, <2>4, SameExpected DEF r
  <2>. QED  BY <2>3, <2>5
<1>2. ExpectedByAll(t, ends, ref) = ExpectedByAll(u, ends, ref)
  BY <1>1 DEF ExpectedByAll
<1>. QED  BY <1>2, GetExpected

(* An endorsement that verified verifies as long as its statement is valid,*)
(* when no age of a log entry is limited.                                  *)
LEMMA StillEndorsed ==
    ASSUME NEW t, NEW u, NEW c, NEW e, NEW ref, ref # Nil, ReferenceOK(ref),
           ref.type = "Endorsement", ref.tlog.rekor # Nil => ref.tlog.rekor.max_age = Nil,
           e.statement.not_before <= u, u <= e.statement.not_after,
           ExpectedFor(t, c, e, ref, FALSE) # Err
    PROVE  ExpectedFor(u, c, e, ref, FALSE) # Err
<1>1. e # Nil /\ VerifyEndorsementWrapper(t, e, ref) /\ AttachmentVerified(c, e)
  BY DEF ExpectedFor
<1>2. PICK i \in 1..Len(ref.keys) :
          VerifyEndorsement(t, [key_id |-> ref.keys[i].key_id, signer |-> e.signer, subject |-> Nil,
                                statement |-> e.statement, rekor |-> e.rekor,
                                c2sp |-> FALSE, pes |-> FALSE], ref)
  BY <1>1 DEF VerifyEndorsementWrapper
<1>. DEFINE d == [key_id |-> ref.keys[i].key_id, signer |-> e.signer, subject |-> Nil,
                  statement |-> e.statement, rekor |-> e.rekor, c2sp |-> FALSE, pes |-> FALSE]
<1>3. /\ d.statement = e.statement /\ d.subject = Nil /\ VerifyEndorsement(t, d, ref)
  BY <1>2
<1>. HIDE DEF d
<1>4. StatementValid(t, d.statement, d.subject, ref.claims) =>
          StatementValid(u, d.statement, d.subject, ref.claims)
  BY <1>3 DEF StatementValid
<1>5. ASSUME NEW key, VerifyTlog(t, d, ref.tlog, key) PROVE VerifyTlog(u, d, ref.tlog, key)
  <2>1. ref.tlog.rekor # Nil =>
            (VerifyRekor(t, d, ref.tlog.rekor, key) <=> VerifyRekor(u, d, ref.tlog.rekor, key))
    BY DEF VerifyRekor, TimestampVerified
  <2>. QED  BY <1>5, <2>1 DEF VerifyTlog, ReferenceOK
<1>6. VerifyEndorsement(u, d, ref)
  BY <1>3, <1>4, <1>5 DEF VerifyEndorsement
<1>7. VerifyEndorsementWrapper(u, e, ref)
  BY <1>6 DEF VerifyEndorsementWrapper, d
<1>8. ExpectedFor(u, c, e, ref, FALSE) = Endorsed(c, e, FALSE)
  BY <1>1, <1>7 DEF ExpectedFor
<1>9. ExpectedFor(t, c, e, ref, FALSE) = Endorsed(c, e, FALSE)
  BY <1>1 DEF ExpectedFor
<1>. QED  BY <1>8, <1>9

(* A value that lists digests by an endorsement keeps its validity.        *)
LEMMA KeepsValidity ==
    ASSUME NEW c, NEW e, NEW newer, c # "kernel_cmd_line", NEW f \in FieldsOf(c)
    PROVE  /\ Endorsed(c, e, newer)[f].type = "Digests"
           /\ Endorsed(c, e, newer)[f].valid = ClaimValidity(e)
  BY DEF Endorsed, Digests, FieldsOf

(* Values that were kept and say they are valid are those expected now.    *)
LEMMA StillExpected ==
    ASSUME NEW in \in Cases, NEW t, NEW kept,
           kept = GetExpectedValues(t, in.endorsements, in.reference), kept # Err,
           StillValid(kept.values), ~EndsUnnoticed(in.reference)
    PROVE  AllExpected(now, in.endorsements, in.reference)
<1>. DEFINE ends == in.endorsements
            ref == in.reference
<1>1. /\ ReferencesOK(ref)
      /\ \A c \in Components(ref.type) \cup {"stage0"} :
            ends.of[c] # Nil => ClaimValidity(ends.of[c]) # Nil
  BY CasesAssumption DEF ReferencesOK, ClaimValidity
<1>. HIDE DEF ends, ref
<1>2. AllExpected(t, ends, ref) /\ kept = AtOnce(ref, ExpectedByAll(t, ends, ref))
  BY GetExpected DEF ends, ref
<1>3. ASSUME NEW c \in Judged(ref) PROVE ExpectedOf(now, ends, ref, c) # Err
  <2>. DEFINE e == ends.of[c]
              r == ref.of[c]
  <2>. PICK older \in BOOLEAN : older = FALSE
    BY Zenon
  <2>1. /\ ExpectedOf(t, ends, ref, c) = ExpectedFor(t, c, e, r, older)
        /\ ExpectedOf(now, ends, ref, c) = ExpectedFor(now, c, e, r, older)
    BY Zenon DEF ExpectedOf
  <2>2. ExpectedFor(t, c, e, r, older) # Err
    BY <1>2, <2>1 DEF AllExpected
  <2>3. r # Nil
    BY <2>2 DEF ExpectedFor
  <2>4. /\ c \in Components(ref.type) \cup {"stage0"}
        /\ c \notin {"kernel_image", "kernel_setup_data"}
        /\ \A d \in Judged(ref) : d \notin {"kernel_image", "kernel_setup_data"}
    BY <1>1, KnownComponents DEF Judged, ReferencesOK, KernelComponents
  <2>5. ReferenceOK(r)
    BY <1>1, <2>3, <2>4 DEF ReferencesOK
  <2>6. CASE r.type # "Endorsement"
    <3>. HIDE DEF e, r
    <3>1. ExpectedFor(now, c, e, r, older) = ExpectedFor(t, c, e, r, older)
      BY <2>3, <2>5, <2>6 DEF ExpectedFor, ReferenceOK, ReferenceKinds
    <3>. QED  BY <2>1, <2>2, <3>1
  <2>7. CASE r.type = "Endorsement"
    <3>1. Endorses(ref, c)
      BY <2>3, <2>7 DEF Endorses
    <3>2. /\ c # "kernel_cmd_line"
          /\ r.tlog.rekor # Nil => r.tlog.rekor.max_age = Nil
      BY <2>4, <3>1 DEF EndsUnnoticed, ref
    <3>. HIDE DEF e, r
    <3>3. e # Nil /\ ExpectedFor(t, c, e, r, older) = Endorsed(c, e, older)
      BY <2>2, <2>3, <2>7 DEF ExpectedFor
    <3>4. PICK f : f \in FieldsOf(c)
      BY DEF FieldsOf
    <3>5. f \in DOMAIN kept.values /\ kept.values[f] = Endorsed(c, e, older)[f]
      <4>. DEFINE owner == CHOOSE d \in Judged(ref) : f \in FieldsOf(d)
      <4>1. owner \in Judged(ref) /\ f \in FieldsOf(owner)
        BY <3>4
      <4>2. owner = c
        BY <2>4, <3>4, <4>1, OneOwner
      <4>3. ExpectedByAll(t, ends, ref)[c] = Endorsed(c, e, older)
        BY <2>1, <3>3 DEF ExpectedByAll
      <4>4. f \in DOMAIN kept.values /\ kept.values[f] = ExpectedByAll(t, ends, ref)[owner][f]
        BY <1>2, <3>4 DEF AtOnce
      <4>. QED  BY <4>2, <4>3, <4>4
    <3>6. kept.values[f].type = "Digests" /\ kept.values[f].valid = ClaimValidity(e)
      BY <3>2, <3>4, <3>5, KeepsValidity
    <3>7. ClaimValidity(e) # Nil
      BY <1>1, <2>4, <3>3 DEF e
    <3>8. e.statement.not_before <= now /\ now <= e.statement.not_after
      <4>1. kept.values[f].valid[1] <= now /\ now <= kept.values[f].valid[2]
        BY Zenon, <3>5, <3>6, <3>7 DEF StillValid
      <4>2. /\ kept.values[f].valid[1] = e.statement.not_before
            /\ kept.values[f].valid[2] = e.statement.not_after
        BY <3>6 DEF ClaimValidity
      <4>. QED  BY Zenon, <4>1, <4>2
    <3>9. ExpectedFor(now, c, e, r, FALSE) # Err
      <4>1. ExpectedFor(t, c, e, r, FALSE) # Err
        BY <2>2
      <4>. QED  BY <2>3, <2>5, <2>7, <3>2, <3>8, <4>1, StillEndorsed
    <3>. QED  BY Zenon, <2>1, <3>9
  <2>. QED  BY <2>6, <2>7
<1>4. ends.type = ref.type
  BY <1>2 DEF AllExpected
<1>. QED  BY <1>3, <1>4 DEF AllExpected, ends, ref

(* Both ways of verify.                                                    *)
LEMMA CachedAgrees ==
    ASSUME NEW in \in Cases, NEW t, NEW kept,
           kept = GetExpectedValues(t, in.endorsements, in.reference), kept # Err
    PROVE  LET ok == VerifyWithExpectedValues(now, in.evidence, in.endorsements, kept)
           IN  /\ VerifyAtOnce(now, in) => ok
               /\ ok /\ StillValid(kept.values) /\ ~EndsUnnoticed(in.reference)
                     => VerifyAtOnce(now, in)
<1>. DEFINE ends == in.endorsements
            ref == in.reference
            fresh == GetExpectedValues(now, ends, ref)
<1>1. ReferencesOK(ref)
  BY CasesAssumption DEF ReferencesOK
<1>2. AllExpected(t, ends, ref) /\ (fresh # Err => AllExpected(now, ends, ref))
  BY GetExpected
<1>3. AllExpected(now, ends, ref) => fresh = kept
  BY <1>1, <1>2, SameExpectedValues
<1>4. VerifyAtOnce(now, in) <=>
          fresh # Err /\ VerifyWithExpectedValues(now, in.evidence, ends, fresh)
  BY DEF VerifyAtOnce
<1>5. StillValid(kept.values) /\ ~EndsUnnoticed(ref) => AllExpected(now, ends, ref)
  BY StillExpected
<1>. HIDE DEF ends, ref, fresh
<1>. QED  BY <1>2, <1>3, <1>4, <1>5 DEF ends, ref

-----------------------------------------------------------------------------
(* The policies and verify.  An endorsement in either form of messages.    *)
LEMMA EndorsementsAgree ==
    ASSUME NEW t, NEW e, NEW ref, ReferenceOK(ref), ref.type = "Endorsement",
           SameEndorsement(e, ref)
    PROVE  VerifyEndorsementWrapper(t, e, ref) <=> VerifyEndorsement(t, e, ref)
<1>. DEFINE Old(i) == [key_id |-> ref.keys[i].key_id, signer |-> e.signer, subject |-> Nil,
                       statement |-> e.statement, rekor |-> e.rekor, c2sp |-> FALSE, pes |-> FALSE]
            First(k, id) == ref.keys[k].key_id = id /\ \A j \in 1..(k - 1) : ref.keys[j].key_id # id
<1>1. DOMAIN ref.keys = 1..Len(ref.keys)
  BY DEF ReferenceOK, IsSeq
<1>2. \A k \in 1..Len(ref.keys) : ref.keys[k].key_id = e.key_id <=> ref.keys[k].key = e.signer
  BY <1>1 DEF SameEndorsement
<1>3. \A i : /\ Old(i).key_id = ref.keys[i].key_id /\ Old(i).signer = e.signer
             /\ Old(i).subject = Nil /\ Old(i).statement = e.statement /\ Old(i).rekor = e.rekor
  OBVIOUS
<1>. HIDE DEF Old
<1>4. \A i : StatementValid(t, Old(i).statement, Old(i).subject, ref.claims) <=>
                StatementValid(t, e.statement, e.subject, ref.claims)
  BY <1>3 DEF StatementValid, SameEndorsement
<1>5. \A i, key : VerifyTlog(t, Old(i), ref.tlog, key) <=> VerifyTlog(t, e, ref.tlog, key)
  <2>1. \A i, key : VerifyRekor(t, Old(i), ref.tlog.rekor, key) <=>
                       VerifyRekor(t, e, ref.tlog.rekor, key)
    BY <1>3 DEF VerifyRekor
  <2>. QED  BY <2>1 DEF VerifyTlog, SameEndorsement, ReferenceOK
<1>6. ASSUME VerifyEndorsementWrapper(t, e, ref) PROVE VerifyEndorsement(t, e, ref)
  <2>1. PICK i \in 1..Len(ref.keys) : VerifyEndorsement(t, Old(i), ref)
    BY <1>6 DEF VerifyEndorsementWrapper, Old
  <2>2. PICK k \in 1..Len(ref.keys) :
            /\ First(k, Old(i).key_id) /\ ref.keys[k].key = Old(i).signer
            /\ StatementValid(t, Old(i).statement, Old(i).subject, ref.claims)
            /\ VerifyTlog(t, Old(i), ref.tlog, ref.keys[k].key)
    BY <2>1 DEF VerifyEndorsement
  <2>3. Old(i).key_id = e.key_id /\ ref.keys[k].key = e.signer
    BY <1>2, <1>3, <2>2
  <2>. QED  BY <1>4, <1>5, <2>2, <2>3 DEF VerifyEndorsement
<1>7. ASSUME VerifyEndorsement(t, e, ref) PROVE VerifyEndorsementWrapper(t, e, ref)
  <2>1. PICK k \in 1..Len(ref.keys) :
            /\ First(k, e.key_id) /\ ref.keys[k].key = e.signer
            /\ StatementValid(t, e.statement, e.subject, ref.claims)
            /\ VerifyTlog(t, e, ref.tlog, ref.keys[k].key)
    BY <1>7 DEF VerifyEndorsement
  <2>2. Old(k).key_id = e.key_id /\ Old(k).signer = e.signer
    BY <1>3, <2>1
  <2>3. VerifyEndorsement(t, Old(k), ref)
    BY <1>4, <1>5, <2>1, <2>2 DEF VerifyEndorsement
  <2>. QED  BY <2>3 DEF VerifyEndorsementWrapper, Old
<1>. QED  BY <1>6, <1>7

(* What is expected by either; of the firmware only the newer messages know*)
(* a TDX measurement.                                                      *)
NewlyExpected(t, ends, ref, c) == ExpectedFor(t, c, ends.of[c], ref.of[c], TRUE)

(* Every other component is expected alike by either.                      *)
LEMMA ExpectedAgrees ==
    ASSUME NEW t, NEW c, NEW e, NEW ref, ref # Nil => ReferenceOK(ref), c # "stage0",
           ref # Nil /\ ref.type = "Endorsement" /\ e # Nil => SameEndorsement(e, ref)
    PROVE  ExpectedFor(t, c, e, ref, TRUE) = ExpectedFor(t, c, e, ref, FALSE)
<1>. PICK older \in BOOLEAN, newer \in BOOLEAN : older = FALSE /\ newer = TRUE
  BY Zenon
<1>1. CASE ref # Nil /\ ref.type = "Endorsement" /\ e # Nil
  <2>1. VerifyEndorsementWrapper(t, e, ref) <=> VerifyEndorsement(t, e, ref)
    BY <1>1, EndorsementsAgree
  <2>2. Endorsed(c, e, newer) = Endorsed(c, e, older)
    BY DEF Endorsed
  <2>3. ExpectedFor(t, c, e, ref, newer) = ExpectedFor(t, c, e, ref, older)
    BY <1>1, <2>1, <2>2 DEF ExpectedFor
  <2>. QED  BY Zenon, <2>3
<1>2. CASE ~(ref # Nil /\ ref.type = "Endorsement" /\ e # Nil)
  <2>1. ExpectedFor(t, c, e, ref, newer) = ExpectedFor(t, c, e, ref, older)
    BY <1>2 DEF ExpectedFor, ReferenceOK, ReferenceKinds
  <2>. QED  BY Zenon, <2>1
<1>. QED  BY <1>1, <1>2

(* The firmware too, but for its TDX measurement.                          *)
LEMMA FirmwareAgrees ==
    ASSUME NEW t, NEW in \in Cases, NEW m,
           Endorses(in.reference, "stage0") /\ in.endorsements.of["stage0"] # Nil =>
               SameEndorsement(in.endorsements.of["stage0"], in.reference.of["stage0"])
    PROVE  LET old == ExpectedOf(t, in.endorsements, in.reference, "stage0")
               new == NewlyExpected(t, in.endorsements, in.reference, "stage0")
           IN  /\ new = Err <=> old = Err
               /\ new # Err /\ m = in.evidence.report.measurement /\ ~MeasuredForTdx(in)
                  => (FirmwareMatches(m, new) <=> FirmwareMatches(m, old))
<1>. DEFINE c == "stage0"
            e == in.endorsements.of[c]
            ref == in.reference.of[c]
            old == ExpectedOf(t, in.endorsements, in.reference, c)
            new == NewlyExpected(t, in.endorsements, in.reference, c)
<1>1. /\ ref # Nil => ReferenceOK(ref)
      /\ e # Nil /\ AttachmentVerified(c, e) =>
            Endorsed(c, e, TRUE) # Err /\ Endorsed(c, e, FALSE) # Err
  <2>1. ref # Nil => ReferenceOK(ref)
    BY CasesAssumption
  <2>2. e # Nil /\ AttachmentVerified(c, e) => \A newer \in BOOLEAN : Endorsed(c, e, newer) # Err
    BY ErrAssumption
  <2>. QED  BY Zenon, <2>1, <2>2
<1>2. PICK older \in BOOLEAN, newer \in BOOLEAN : older = FALSE /\ newer = TRUE
  BY Zenon
<1>3. old = ExpectedFor(t, c, e, ref, older) /\ new = ExpectedFor(t, c, e, ref, newer)
  BY Zenon, <1>2 DEF ExpectedOf, NewlyExpected
<1>4. CASE ref # Nil /\ ref.type = "Endorsement" /\ e # Nil
  <2>1. VerifyEndorsementWrapper(t, e, ref) <=> VerifyEndorsement(t, e, ref)
    BY <1>1, <1>4, EndorsementsAgree DEF Endorses
  <2>2. e # Nil /\ AttachmentVerified(c, e) =>
            Endorsed(c, e, newer) # Err /\ Endorsed(c, e, older) # Err
    BY Zenon, <1>1, <1>2
  <2>. DEFINE good == VerifyEndorsement(t, e, ref) /\ AttachmentVerified(c, e)
  <2>3. /\ old = IF good THEN Endorsed(c, e, older) ELSE Err
        /\ new = IF good THEN Endorsed(c, e, newer) ELSE Err
    <3>. HIDE DEF e, ref, old, new
    <3>. QED  BY <1>2, <1>3, <1>4, <2>1 DEF ExpectedFor
  <2>4. new = Err <=> old = Err
    BY <1>4, <2>2, <2>3
  <2>5. ASSUME new # Err, m = in.evidence.report.measurement, ~MeasuredForTdx(in)
        PROVE  FirmwareMatches(m, new) <=> FirmwareMatches(m, old)
    <3>. DEFINE firmware == Decoded[e.subject]
                tdx == {firmware.tdx_measurement} \ {Nil}
                x == [sha2_384 |-> m]
    <3>1. good /\ new = Endorsed(c, e, newer) /\ old = Endorsed(c, e, older)
      BY <2>3, <2>5
    <3>2. /\ new["stage0"] = Digests(firmware.configs \cup tdx, ClaimValidity(e))
          /\ old["stage0"] = Digests(firmware.configs, ClaimValidity(e))
      <4>. HIDE DEF e, ref, old, new
      <4>. QED  BY <1>2, <3>1 DEF Endorsed
    <3>3. e.subject \in DOMAIN Decoded
      BY <3>1 DEF AttachmentVerified
    <3>4. \A d \in tdx : ~DigestsMatch(x, d)
      <4>1. Endorses(in.reference, "stage0")
        BY <1>4 DEF Endorses
      <4>. QED  BY Zenon, <1>4, <2>5, <3>3, <4>1 DEF MeasuredForTdx
    <3>. HIDE DEF tdx, firmware, x, old, new
    <3>5. \A D, v, val : val["stage0"] = Digests(D, v) =>
              (FirmwareMatches(m, val) <=> \E d \in D : DigestsMatch(x, d))
      BY DEF FirmwareMatches, FieldMatches, Digests, x
    <3>. QED  BY <3>2, <3>4, <3>5
  <2>. QED  BY <2>4, <2>5
<1>5. CASE ~(ref # Nil /\ ref.type = "Endorsement" /\ e # Nil)
  <2>1. old = new
    <3>. HIDE DEF e, ref, old, new
    <3>. QED  BY <1>1, <1>3, <1>5 DEF ExpectedFor, ReferenceOK, ReferenceKinds
  <2>. QED  BY <2>1
<1>. QED  BY <1>4, <1>5

-----------------------------------------------------------------------------
(* The events of a log and the types that make it one of a kind.           *)
TypesOf(log) == [i \in 1..Len(log) |-> log[i].type]

(* Each layer has an event of one type and components of its own.          *)
LEMMA KnownTypes ==
    ASSUME NEW type \in {"RestrictedKernel", "Containers"}
    PROVE  /\ Len(EventTypes(type)) = Len(LayersOf(type))
           /\ DOMAIN EventTypes(type) = 1..Len(LayersOf(type))
           /\ EventTypes(type) = [i \in DOMAIN EventTypes(type) |-> EventTypes(type)[i]]
           /\ Len(LayersOf(type)) \in {2, 3}
           /\ \A i \in 1..Len(LayersOf(type)) : EventTypes(type)[i] # "Empty"
           /\ EventTypes("RestrictedKernel") # EventTypes("Containers")
           /\ EventTypes("RestrictedKernel") # LegacyContainers
           /\ \A i, j \in 1..Len(LayersOf(type)) :
                 LayersOf(type)[i] \cap LayersOf(type)[j] # {} => i = j
<1>1. EventTypes("RestrictedKernel") # EventTypes("Containers")
  BY DEF EventTypes
<1>2. EventTypes("RestrictedKernel") # LegacyContainers
  BY DEF EventTypes, LegacyContainers
<1>3. CASE type = "RestrictedKernel"
  <2>1. LayersOf(type) = <<KernelComponents, {"binary", "configuration"}>>
    BY <1>3 DEF LayersOf
  <2>2. EventTypes(type) = <<"Stage0Measurements", "ApplicationLayerData">>
    BY <1>3 DEF EventTypes
  <2>3. KernelComponents \cap {"binary", "configuration"} = {}
    BY DEF KernelComponents
  <2>4. /\ Len(EventTypes(type)) = 2 /\ DOMAIN EventTypes(type) = 1..2
        /\ EventTypes(type) = [i \in DOMAIN EventTypes(type) |-> EventTypes(type)[i]]
        /\ \A i \in 1..2 : EventTypes(type)[i] # "Empty"
    BY <2>2
  <2>5. Len(LayersOf(type)) = 2 /\ \A i, j \in 1..2 :
                 LayersOf(type)[i] \cap LayersOf(type)[j] # {} => i = j
    BY <2>1, <2>3
  <2>. QED  BY <1>1, <1>2, <2>4, <2>5
<1>4. CASE type = "Containers"
  <2>1. LayersOf(type) = <<KernelComponents, {"system_image"}, {"binary", "configuration"}>>
    BY <1>4 DEF LayersOf
  <2>2. EventTypes(type) = <<"Stage0Measurements", "SystemLayerData", "ContainerLayerData">>
    BY <1>4 DEF EventTypes
  <2>3. /\ KernelComponents \cap {"binary", "configuration"} = {}
        /\ KernelComponents \cap {"system_image"} = {}
        /\ {"system_image"} \cap {"binary", "configuration"} = {}
    BY DEF KernelComponents
  <2>4. /\ Len(EventTypes(type)) = 3 /\ DOMAIN EventTypes(type) = 1..3
        /\ EventTypes(type) = [i \in DOMAIN EventTypes(type) |-> EventTypes(type)[i]]
        /\ \A i \in 1..3 : EventTypes(type)[i] # "Empty"
    BY <2>2
  <2>5. Len(LayersOf(type)) = 3 /\ \A i, j \in 1..3 :
                 LayersOf(type)[i] \cap LayersOf(type)[j] # {} => i = j
    BY <2>1, <2>3
  <2>. QED  BY <1>1, <1>2, <2>4, <2>5
<1>. QED  BY <1>3, <1>4

(* A log that certificates vouch for is extracted by its types.            *)
LEMMA ExtractedByTypes ==
    ASSUME NEW in \in Cases, NEW type \in {"RestrictedKernel", "Containers"},
           in.evidence.event_log # Nil, in.evidence.report.valid, EventsCaptured(in.evidence),
           TypesOf(in.evidence.event_log) # LegacyContainers
    PROVE  /\ Extract(in.evidence) # Err /\ Extract(in.evidence).type = type
                 <=> TypesOf(in.evidence.event_log) = EventTypes(type)
           /\ TypesOf(in.evidence.event_log) = EventTypes(type) =>
                 Extract(in.evidence).values = Joined(in.evidence.event_log)
<1>. DEFINE ev == in.evidence
            log == ev.event_log
            types == TypesOf(log)
            final == ev.application_keys.claims
            From(t, s) == [type |-> t, values |-> Joined(s)]
            Known(s) == \A i \in DOMAIN s : s[i] # Nil
            Kinds(s) == [i \in DOMAIN s |-> s[i].type]
            cb == [type |-> "Cb"]
            claims == Claims(ev)
            current == types \in {EventTypes("Containers"), LegacyContainers}
            fromlog == CASE current -> From("Containers", log)
                         [] types = EventTypes("RestrictedKernel") -> From("RestrictedKernel", log)
                         [] ~current /\ Len(log) >= 3 -> cb
                         [] OTHER -> Err
            fromclaims ==
                CASE final # Nil /\ final.type = "Container" ->
                        IF Known(claims) /\ Kinds(claims) = <<"Kernel", "System", "Container">>
                        THEN From("Containers", claims) ELSE Err
                  [] final # Nil /\ final.type = "Application" ->
                        IF Known(claims) /\ Kinds(claims) = <<"Kernel", "Application">>
                        THEN From("RestrictedKernel", claims) ELSE Err
                  [] OTHER ->
                        IF \A i \in 1..Len(ev.layers) : ev.layers[i].event # Nil
                        THEN cb ELSE Err
<1>1. Extract(ev) = CASE ~ev.report.valid -> Err
                      [] ev.report.valid /\ log # Nil /\ log # << >> -> fromlog
                      [] OTHER -> fromclaims
  BY Zenon DEF Extract, Claims, TypesOf
<1>. HIDE DEF Claims
<1>2. /\ IsSeq(log) /\ IsSeq(ev.layers)
      /\ From("RestrictedKernel", log) # Err /\ From("Containers", log) # Err
  BY CasesAssumption, ErrAssumption
<1>3. /\ cb.type \notin {"RestrictedKernel", "Containers"}
      /\ \A t, s : From(t, s).type = t /\ From(t, s).values = Joined(s)
  OBVIOUS
<1>4. CASE log # << >>
  <2>1. Extract(ev) = fromlog
    <3>. HIDE DEF fromlog, fromclaims
    <3>. QED  BY <1>1, <1>4
  <2>. HIDE DEF From, cb, types
  <2>2. types # LegacyContainers /\ EventTypes("RestrictedKernel") # EventTypes("Containers")
    BY KnownTypes DEF types
  <2>3. /\ types = EventTypes("Containers") => fromlog = From("Containers", log)
        /\ types = EventTypes("RestrictedKernel") => fromlog = From("RestrictedKernel", log)
        /\ types \notin {EventTypes("Containers"), EventTypes("RestrictedKernel")} =>
              fromlog \in {cb, Err}
    <3>1. types = EventTypes("Containers") => current
      OBVIOUS
    <3>2. current => types = EventTypes("Containers")
      BY <2>2
    <3>. HIDE DEF current
    <3>3. CASE current
      <4>1. types = EventTypes("Containers") /\ types # EventTypes("RestrictedKernel")
        BY <2>2, <3>2, <3>3
      <4>2. fromlog = From("Containers", log)
        BY <3>3, <4>1
      <4>. HIDE DEF fromlog
      <4>. QED  BY <4>1, <4>2
    <3>4. CASE ~current /\ types = EventTypes("RestrictedKernel")
      <4>2. ~(Len(log) >= 3)
        <5>1. EventTypes("RestrictedKernel") = <<"Stage0Measurements", "ApplicationLayerData">>
          BY DEF EventTypes
        <5>2. DOMAIN types = 1..2
          BY <3>4, <5>1
        <5>3. DOMAIN types = 1..Len(log) /\ Len(log) \in Nat
          BY <1>2 DEF types, TypesOf, IsSeq
        <5>. HIDE DEF types, log
        <5>. QED  BY <5>2, <5>3
      <4>1. fromlog = From("RestrictedKernel", log)
        BY <3>4, <4>2
      <4>. HIDE DEF fromlog
      <4>. QED  BY <2>2, <3>1, <3>4, <4>1
    <3>5. CASE ~current /\ types # EventTypes("RestrictedKernel")
      <4>1. fromlog \in {cb, Err}
        BY <3>5
      <4>. HIDE DEF fromlog
      <4>. QED  BY <3>1, <3>5, <4>1
    <3>. QED  BY <3>3, <3>4, <3>5
  <2>. HIDE DEF fromlog
  <2>4. CASE types = EventTypes("Containers")
    BY <1>2, <1>3, <2>1, <2>2, <2>3, <2>4 DEF types
  <2>5. CASE types = EventTypes("RestrictedKernel")
    BY <1>2, <1>3, <2>1, <2>2, <2>3, <2>5 DEF types
  <2>6. CASE types \notin {EventTypes("Containers"), EventTypes("RestrictedKernel")}
    <3>1. types # EventTypes(type) /\ Extract(ev) \in {cb, Err}
      BY <2>1, <2>3, <2>6
    <3>. QED  BY <1>3, <3>1 DEF types
  <2>. QED  BY <2>4, <2>5, <2>6
<1>5. CASE log = << >>
  <2>1. types # EventTypes(type)
    <3>1. 1 \in DOMAIN EventTypes(type)
      BY KnownTypes
    <3>2. 1 \notin DOMAIN types
      BY <1>5 DEF TypesOf
    <3>3. 1 \in DOMAIN EventTypes(type) /\ 1 \notin DOMAIN types
      BY <3>1, <3>2
    <3>. QED  BY <3>3
  <2>2. Extract(ev) = fromclaims
    <3>. HIDE DEF fromlog, fromclaims
    <3>. QED  BY <1>1, <1>5
  <2>3. Len(ev.layers) = 0
    BY <1>5 DEF EventsCaptured
  <2>4. DOMAIN claims = 1..1
    <3>. DEFINE s == [i \in 1..Len(ev.layers) |-> ev.layers[i].claims]
    <3>1. s = << >>
      BY <2>3
    <3>. HIDE DEF s, final
    <3>2. claims = Append(s, final)
      BY DEF Claims, s, final
    <3>. QED  BY <3>1, <3>2
  <2>5. DOMAIN Kinds(claims) = 1..1
    BY <2>4
  <2>6. /\ Kinds(claims) # <<"Kernel", "System", "Container">>
        /\ Kinds(claims) # <<"Kernel", "Application">>
    <3>1. /\ 2 \in DOMAIN <<"Kernel", "System", "Container">>
          /\ 2 \in DOMAIN <<"Kernel", "Application">> /\ 2 \notin 1..1
      OBVIOUS
    <3>. HIDE DEF Kinds
    <3>. QED  BY <2>5, <3>1
  <2>7. fromclaims \in {cb, Err}
    <3>. HIDE DEF Kinds, Known, From, cb, final
    <3>. QED  BY <2>6
  <2>. HIDE DEF cb, fromclaims, types
  <2>. QED  BY <1>3, <2>1, <2>2, <2>7 DEF types
<1>. QED  BY <1>4, <1>5

(* A field of a layer's component is measured by that layer's event.       *)
LEMMA JoinedAgrees ==
    ASSUME NEW log, NEW type \in {"RestrictedKernel", "Containers"}, IsSeq(log), FieldsByType(log),
           TypesOf(log) = EventTypes(type),
           NEW i \in 1..Len(LayersOf(type)), NEW c \in LayersOf(type)[i], NEW f \in FieldsOf(c),
           NEW x
    PROVE  FieldMatches(f, Joined(log), x) <=> FieldMatches(f, log[i].values, x)
<1>. DEFINE layers == LayersOf(type)
<1>1. DOMAIN log = 1..Len(log) /\ Len(log) \in Nat
  BY DEF IsSeq
<1>2. 1..Len(log) = 1..Len(layers)
  <2>1. DOMAIN TypesOf(log) = 1..Len(log)
    BY DEF TypesOf
  <2>2. DOMAIN EventTypes(type) = 1..Len(layers)
    BY KnownTypes
  <2>. QED  BY <2>1, <2>2
<1>3. \A j \in 1..Len(log) : DOMAIN log[j].values \subseteq UNION {FieldsOf(d) : d \in layers[j]}
  BY DEF FieldsByType, TypesOf
<1>4. \A j \in 1..Len(layers) : \A d \in layers[j] : d \notin {"kernel_image", "kernel_setup_data"}
  <2>1. \A d \in Components(type) : d \notin {"kernel_image", "kernel_setup_data"}
    BY KnownComponents DEF KernelComponents
  <2>2. layers \in Seq(SUBSET Components(type))
    BY KnownComponents
  <2>. HIDE DEF layers
  <2>3. \A j \in 1..Len(layers) : layers[j] \in SUBSET Components(type)
    BY <2>2
  <2>. QED  BY <2>1, <2>3
<1>5. ASSUME NEW j \in DOMAIN log, f \in DOMAIN log[j].values PROVE j = i
  <2>1. PICK d \in layers[j] : f \in FieldsOf(d)
    BY <1>1, <1>3, <1>5
  <2>2. j \in 1..Len(layers)
    BY <1>1, <1>2
  <2>3. d = c
    BY <1>4, <2>1, <2>2, OneOwner
  <2>4. layers[i] \cap layers[j] # {}
    BY <2>1, <2>3
  <2>. QED  BY <2>2, <2>4, KnownTypes
<1>6. i \in DOMAIN log
  BY <1>1, <1>2
<1>7. f \in DOMAIN Joined(log) <=> f \in DOMAIN log[i].values
  <2>1. f \in DOMAIN Joined(log) <=> \E j \in DOMAIN log : f \in DOMAIN log[j].values
    BY DEF Joined
  <2>. QED  BY <1>5, <1>6, <2>1
<1>8. f \in DOMAIN Joined(log) => Joined(log)[f] = log[i].values[f]
  BY <1>5, JoinedFrom
<1>. QED  BY <1>7, <1>8 DEF FieldMatches

(* verify_event_log accepts what verify accepts of a log of these types.   *)
LEMMA EventLogAgrees ==
    ASSUME NEW t, NEW in \in Cases, Common(in)
    PROVE  VerifyEventLog(t, in) <=>
               /\ TypesOf(in.evidence.event_log) = EventTypes(in.reference.type)
               /\ \A c \in Components(in.reference.type) :
                     /\ ExpectedOf(t, in.endorsements, in.reference, c) # Err
                     /\ \A f \in FieldsOf(c) :
                           FieldMatches(f, Joined(in.evidence.event_log),
                                        ExpectedOf(t, in.endorsements, in.reference, c)[f])
<1>. DEFINE log == in.evidence.event_log
            ends == in.endorsements
            ref == in.reference
            type == ref.type
            layers == LayersOf(type)
            sent == ends.events
            Empty(i) == i > Len(sent) \/ sent[i] = "Empty"
            Good(c) == /\ ExpectedOf(t, ends, ref, c) # Err
                       /\ \A f \in FieldsOf(c) :
                             FieldMatches(f, Joined(log), ExpectedOf(t, ends, ref, c)[f])
<1>1. /\ type \in {"RestrictedKernel", "Containers"} /\ IsSeq(log) /\ FieldsByType(log)
      /\ sent = EventTypes(type)
  BY CasesAssumption DEF Common
<1>2. /\ Len(sent) = Len(layers) /\ DOMAIN EventTypes(type) = 1..Len(layers)
      /\ Len(layers) \in Nat
      /\ EventTypes(type) = [i \in DOMAIN EventTypes(type) |-> EventTypes(type)[i]]
      /\ \A i \in 1..Len(layers) : ~Empty(i)
  BY <1>1, KnownTypes
<1>3. /\ \A c \in Components(type) : \E i \in 1..Len(layers) : c \in layers[i]
      /\ \A i \in 1..Len(layers) : layers[i] \subseteq Components(type)
      /\ \A c \in Components(type) : c # "stage0"
  <2>1. /\ layers \in Seq(SUBSET Components(type))
        /\ \A c \in Components(type) : \E i \in 1..Len(layers) : c \in layers[i]
    BY <1>1, KnownComponents
  <2>2. \A c \in Components(type) : c # "stage0"
    BY <1>1, KnownComponents DEF KernelComponents
  <2>. HIDE DEF layers, type
  <2>3. \A i \in 1..Len(layers) : layers[i] \in SUBSET Components(type)
    BY <2>1
  <2>. QED  BY <2>1, <2>2, <2>3
<1>4. ASSUME NEW c \in Components(type)
      PROVE  NewlyExpected(t, ends, ref, c) = ExpectedOf(t, ends, ref, c)
  <2>. DEFINE e == ends.of[c]
              r == ref.of[c]
  <2>1. /\ r # Nil => ReferenceOK(r)
        /\ r # Nil /\ r.type = "Endorsement" /\ e # Nil => SameEndorsement(e, r)
    BY CasesAssumption DEF Common, Endorses
  <2>. HIDE DEF e, r
  <2>2. ExpectedFor(t, c, e, r, TRUE) = ExpectedFor(t, c, e, r, FALSE)
    BY <1>3, <2>1, ExpectedAgrees
  <2>. QED  BY Zenon, <2>2 DEF NewlyExpected, ExpectedOf, e, r
<1>5. VerifyEventLog(t, in) <=>
          /\ Len(layers) = Len(log)
          /\ Len(sent) <= Len(log)
          /\ \A i \in 1..Len(log) :
                /\ log[i].type = EventTypes(type)[i]
                /\ Empty(i) \/ sent[i] = log[i].type
                /\ \A c \in layers[i] :
                      PolicyAccepts(t, c, IF Empty(i) THEN Nil ELSE ends.of[c], ref.of[c],
                                    log[i].values)
  BY Zenon DEF VerifyEventLog
<1>6. ASSUME NEW i \in 1..Len(layers), NEW c \in layers[i], TypesOf(log) = EventTypes(type)
      PROVE  PolicyAccepts(t, c, IF Empty(i) THEN Nil ELSE ends.of[c], ref.of[c], log[i].values)
                 <=> Good(c)
  <2>. DEFINE x == NewlyExpected(t, ends, ref, c)
  <2>1. ~Empty(i) /\ c \in Components(type)
    BY <1>2, <1>3, <1>6
  <2>2. (IF Empty(i) THEN Nil ELSE ends.of[c]) = ends.of[c]
    BY Zenon, <2>1
  <2>3. PolicyAccepts(t, c, ends.of[c], ref.of[c], log[i].values) <=>
            x # Err /\ \A f \in FieldsOf(c) : FieldMatches(f, log[i].values, x[f])
    BY Zenon DEF PolicyAccepts, NewlyExpected
  <2>4. x = ExpectedOf(t, ends, ref, c)
    BY <1>4, <2>1
  <2>5. \A f \in FieldsOf(c) : FieldMatches(f, Joined(log), x[f])
                                <=> FieldMatches(f, log[i].values, x[f])
    BY <1>1, <1>6, JoinedAgrees
  <2>. HIDE DEF x, log, layers, Empty, ends, ref
  <2>. QED  BY <2>2, <2>3, <2>4, <2>5
<1>7. Len(layers) = Len(log) /\ (\A i \in 1..Len(log) : log[i].type = EventTypes(type)[i])
          <=> TypesOf(log) = EventTypes(type)
  <2>1. DOMAIN TypesOf(log) = 1..Len(log) /\ Len(log) \in Nat
    BY <1>1 DEF TypesOf, IsSeq
  <2>. HIDE DEF log, layers, type
  <2>2. ASSUME Len(layers) = Len(log), \A i \in 1..Len(log) : log[i].type = EventTypes(type)[i]
        PROVE  TypesOf(log) = EventTypes(type)
    BY <1>2, <2>2 DEF TypesOf
  <2>3. ASSUME TypesOf(log) = EventTypes(type)
        PROVE  Len(layers) = Len(log) /\ \A i \in 1..Len(log) : log[i].type = EventTypes(type)[i]
    <3>1. 1..Len(log) = 1..Len(layers)
      BY <1>2, <2>1, <2>3
    <3>2. Len(layers) = Len(log)
      BY <1>2, <2>1, <3>1
    <3>3. \A i \in 1..Len(log) : log[i].type = TypesOf(log)[i]
      BY DEF TypesOf
    <3>. QED  BY <2>3, <3>2, <3>3
  <2>. QED  BY <2>2, <2>3
<1>. HIDE DEF log, ends, layers, sent, Empty, Good, type
<1>8. ASSUME VerifyEventLog(t, in)
      PROVE  TypesOf(log) = EventTypes(type) /\ \A c \in Components(type) : Good(c)
  <2>1. TypesOf(log) = EventTypes(type)
    BY <1>5, <1>7, <1>8
  <2>2. ASSUME NEW c \in Components(type) PROVE Good(c)
    <3>1. PICK i \in 1..Len(layers) : c \in layers[i]
      BY <1>3
    <3>2. PolicyAccepts(t, c, IF Empty(i) THEN Nil ELSE ends.of[c], ref.of[c], log[i].values)
      BY <1>5, <1>8, <3>1
    <3>. QED  BY <1>6, <2>1, <3>1, <3>2
  <2>. QED  BY <2>1, <2>2
<1>9. ASSUME TypesOf(log) = EventTypes(type), \A c \in Components(type) : Good(c)
      PROVE  VerifyEventLog(t, in)
  <2>1. Len(layers) = Len(log) /\ \A i \in 1..Len(log) : log[i].type = EventTypes(type)[i]
    BY <1>7, <1>9
  <2>2. Len(sent) <= Len(log)
    BY <1>2, <2>1
  <2>3. \A i \in 1..Len(log) : sent[i] = log[i].type
    BY <1>1, <2>1
  <2>4. \A i \in 1..Len(log) : \A c \in layers[i] :
            PolicyAccepts(t, c, IF Empty(i) THEN Nil ELSE ends.of[c], ref.of[c], log[i].values)
    BY <1>3, <1>6, <1>9, <2>1
  <2>. QED  BY <1>5, <2>1, <2>2, <2>3, <2>4
<1>10. VerifyEventLog(t, in) <=>
           TypesOf(log) = EventTypes(type) /\ \A c \in Components(type) : Good(c)
  BY <1>8, <1>9
<1>. QED  BY Zenon, <1>10 DEF log, ends, type, Good

(* verify, put as the policies put it.                                     *)
LEMMA AtOnceAgrees ==
    ASSUME NEW t \in 0..MaxTime, NEW in \in Cases, Common(in), in.evidence.report.valid
    PROVE  LET ev == in.evidence
               amd == in.reference.amd_sev
               firmware == ExpectedOf(t, in.endorsements, in.reference, "stage0")
           IN  VerifyAtOnce(t, in) <=>
                 /\ RootSignatureVerified(t, ev, in.endorsements.tee_certificate,
                                          amd # Nil /\ amd.check_vcek_cert_expiry)
                 /\ DiceChainVerified(ev)
                 /\ amd # Nil => firmware # Err
                 /\ IF ev.platform = "AmdSevSnp" /\ amd # Nil
                    THEN /\ FirmwareMatches(ev.report.measurement, firmware)
                         /\ ReportValuesVerified(ev.report, amd)
                    ELSE in.reference.insecure
                 /\ VerifyEventLog(t, in)
<1>. DEFINE ev == in.evidence
            ends == in.endorsements
            ref == in.reference
            amd == ref.amd_sev
            type == ref.type
            cert == ends.tee_certificate
            firmware == ExpectedOf(t, ends, ref, "stage0")
            m == ev.report.measurement
            expected == GetExpectedValues(t, ends, ref)
            Root == RootSignatureVerified(t, ev, cert, amd # Nil /\ amd.check_vcek_cert_expiry)
            Fields == \A c \in Components(type) : \A f \in FieldsOf(c) :
                          FieldMatches(f, Joined(ev.event_log), ExpectedOf(t, ends, ref, c)[f])
            Types == TypesOf(ev.event_log) = EventTypes(type)
            Firm == IF ev.platform = "AmdSevSnp" /\ amd # Nil
                    THEN FirmwareMatches(m, firmware) /\ ReportValuesVerified(ev.report, amd)
                    ELSE ref.insecure
<1>1. /\ type \in {"RestrictedKernel", "Containers"} /\ ev.event_log # Nil /\ IsSeq(ev.event_log)
      /\ ends.type = type /\ ApplicationKeysVerified(ev)
  BY CasesAssumption DEF Common
<1>2. TypesOf(ev.event_log) # LegacyContainers
  <2>1. DOMAIN ev.event_log = 1..Len(ev.event_log)
    BY <1>1 DEF IsSeq
  <2>. QED  BY <2>1 DEF Common, TypesOf
<1>3. VerifyEventLog(t, in) <=>
          Types /\ Fields /\ \A c \in Components(type) : ExpectedOf(t, ends, ref, c) # Err
  BY EventLogAgrees
<1>4. AllExpected(t, ends, ref) <=>
          /\ \A c \in Components(type) : ExpectedOf(t, ends, ref, c) # Err
          /\ amd # Nil => firmware # Err
  BY <1>1 DEF AllExpected, Judged
<1>5. expected # Err => AllExpected(t, ends, ref)
  BY GetExpected
<1>6. ASSUME expected # Err
      PROVE  VerifyWithExpectedValues(t, ev, ends, expected) <=>
                 Root /\ DiceChainVerified(ev) /\ Firm /\ Types /\ Fields
  <2>1. /\ expected.type = type /\ expected.amd_sev = amd /\ expected.insecure = ref.insecure
        /\ \A c \in Judged(ref) : \A f \in FieldsOf(c) :
              expected.values[f] = ExpectedOf(t, ends, ref, c)[f]
    <3>1. expected = AtOnce(ref, ExpectedByAll(t, ends, ref))
      BY <1>6, GetExpected
    <3>2. expected.amd_sev = amd /\ expected.insecure = ref.insecure /\ expected.type = type
      BY <3>1 DEF AtOnce
    <3>3. ASSUME NEW c \in Judged(ref)
          PROVE  \A f \in FieldsOf(c) : expected.values[f] = ExpectedOf(t, ends, ref, c)[f]
      <4>. HIDE DEF expected, ends, ref
      <4>1. GetExpectedValues(t, ends, ref) # Err /\ ref.type \in {"RestrictedKernel", "Containers"}
        BY <1>1, <1>6 DEF expected
      <4>2. EachExpected(t, ends, ref, c)
        BY <3>3, <4>1, ExpectedOfEach
      <4>. QED  BY <4>2 DEF EachExpected, ExpectedOf, expected
    <3>. HIDE DEF expected
    <3>. QED  BY <3>2, <3>3
  <2>. HIDE DEF expected
  <2>2. RootSignatureVerified(t, ev, cert, expected.amd_sev # Nil /\
                                           expected.amd_sev.check_vcek_cert_expiry) <=> Root
    BY <2>1
  <2>3. RootMatches(ev, expected) <=> Firm
    <3>1. CASE ev.platform = "AmdSevSnp" /\ amd # Nil
      <4>1. "stage0" \in Judged(ref) /\ "stage0" \in FieldsOf("stage0")
        BY <3>1 DEF Judged, FieldsOf
      <4>2. expected.values["stage0"] = firmware["stage0"]
        BY <2>1, <4>1
      <4>3. FirmwareMatches(m, expected.values) <=> FirmwareMatches(m, firmware)
        BY <4>2 DEF FirmwareMatches
      <4>. HIDE DEF firmware, m
      <4>. QED  BY <2>1, <3>1, <4>3 DEF RootMatches, m
    <3>2. CASE ~(ev.platform = "AmdSevSnp" /\ amd # Nil)
      BY <2>1, <3>2 DEF RootMatches
    <3>. QED  BY <3>1, <3>2
  <2>4. EventsCaptured(ev) =>
            /\ Extract(ev) # Err /\ Extract(ev).type = expected.type <=> Types
            /\ Types => Extract(ev).values = Joined(ev.event_log)
    BY <1>1, <1>2, <2>1, ExtractedByTypes
  <2>5. (\A c \in Components(expected.type) : \A f \in FieldsOf(c) :
             FieldMatches(f, Joined(ev.event_log), expected.values[f])) <=> Fields
    BY <2>1 DEF Judged
  <2>. HIDE DEF ev, ends, ref, amd, cert, firmware, m, Root, Types, Firm, Fields, type
  <2>6. VerifyWithExpectedValues(t, ev, ends, expected) <=>
            /\ Root /\ ChainVerified(ev) /\ EventsCaptured(ev) /\ Firm
            /\ Extract(ev) # Err /\ Extract(ev).type = expected.type
            /\ \A c \in Components(expected.type) : \A f \in FieldsOf(c) :
                  FieldMatches(f, Extract(ev).values, expected.values[f])
    BY <1>1, <2>2, <2>3 DEF VerifyWithExpectedValues, cert
  <2>7. DiceChainVerified(ev) <=> ChainVerified(ev) /\ EventsCaptured(ev)
    BY <1>1 DEF DiceChainVerified
  <2>. QED  BY <2>4, <2>5, <2>6, <2>7
<1>7. VerifyAtOnce(t, in) <=> expected # Err /\ VerifyWithExpectedValues(t, ev, ends, expected)
  BY DEF VerifyAtOnce
<1>8. AllExpected(t, ends, ref) => expected # Err
  BY ErrAssumption DEF AllExpected, ExpectedOf
<1>9. VerifyAtOnce(t, in) <=>
          Root /\ DiceChainVerified(ev) /\ (amd # Nil => firmware # Err) /\ Firm
          /\ VerifyEventLog(t, in)
  <2>. HIDE DEF ev, ends, ref, amd, firmware, Root, Types, Firm, Fields, type, expected
  <2>. QED  BY <1>3, <1>4, <1>5, <1>6, <1>7, <1>8
<1>. QED  BY Zenon, <1>9

(* The verifier for AMD SEV-SNP agrees with verify.                        *)
LEMMA AmdAgrees ==
    ASSUME NEW t \in 0..MaxTime, NEW in \in Cases, Common(in),
           in.evidence.platform = "AmdSevSnp", in.reference.amd_sev # Nil, ~MeasuredForTdx(in)
    PROVE  VerifyAmd(t, in) <=> VerifyAtOnce(t, in)
<1>. DEFINE ev == in.evidence
            amd == in.reference.amd_sev
            cert == in.endorsements.tee_certificate
            old == ExpectedOf(t, in.endorsements, in.reference, "stage0")
            new == NewlyExpected(t, in.endorsements, in.reference, "stage0")
            m == ev.report.measurement
            Root == RootSignatureVerified(t, ev, cert, amd.check_vcek_cert_expiry)
<1>1. CASE ~ev.report.valid
  BY <1>1 DEF VerifyAmd, VerifyAtOnce, VerifyWithExpectedValues, RootSignatureVerified
<1>2. CASE ev.report.valid
  <2>1. /\ new = Err <=> old = Err
        /\ new # Err => (FirmwareMatches(m, new) <=> FirmwareMatches(m, old))
    <3>1. Endorses(in.reference, "stage0") /\ in.endorsements.of["stage0"] # Nil =>
              SameEndorsement(in.endorsements.of["stage0"], in.reference.of["stage0"])
      BY DEF Common
    <3>. QED  BY <3>1, FirmwareAgrees
  <2>2. FirmwareAccepted(t, in) <=> new # Err /\ FirmwareMatches(m, new)
    BY Zenon DEF FirmwareAccepted, NewlyExpected, Common
  <2>3. RootSignatureVerified(t, ev, cert, amd # Nil /\ amd.check_vcek_cert_expiry) <=> Root
    BY DEF RootSignatureVerified
  <2>4. VerifyAtOnce(t, in) <=>
            /\ RootSignatureVerified(t, ev, cert, amd # Nil /\ amd.check_vcek_cert_expiry)
            /\ DiceChainVerified(ev) /\ (amd # Nil => old # Err)
            /\ IF ev.platform = "AmdSevSnp" /\ amd # Nil
               THEN FirmwareMatches(m, old) /\ ReportValuesVerified(ev.report, amd)
               ELSE in.reference.insecure
            /\ VerifyEventLog(t, in)
    BY Zenon, <1>2, AtOnceAgrees
  <2>5. VerifyAmd(t, in) <=>
            /\ Root /\ ReportValuesVerified(ev.report, amd) /\ DiceChainVerified(ev)
            /\ FirmwareAccepted(t, in) /\ VerifyEventLog(t, in)
    BY DEF VerifyAmd, Common
  <2>. HIDE DEF Root, old, new, m
  <2>. QED  BY <2>1, <2>2, <2>3, <2>4, <2>5
<1>. QED  BY <1>1, <1>2

(* So does the insecure one, where it is asked the same.                   *)
LEMMA InsecureAgrees ==
    ASSUME NEW t \in 0..MaxTime, NEW in \in Cases, Common(in), in.evidence.report.valid,
           in.evidence.platform \in {"AmdSevSnp", "None"},
           in.evidence.platform = "None" \/ in.reference.amd_sev = Nil, ~FirmwareUnendorsed(t, in)
    PROVE  VerifyInsecure(t, in) <=> VerifyAtOnce(t, in)
<1>. DEFINE ev == in.evidence
            amd == in.reference.amd_sev
            cert == in.endorsements.tee_certificate
            old == ExpectedOf(t, in.endorsements, in.reference, "stage0")
            m == ev.report.measurement
<1>1. VerifyAtOnce(t, in) <=>
          /\ RootSignatureVerified(t, ev, cert, amd # Nil /\ amd.check_vcek_cert_expiry)
          /\ DiceChainVerified(ev) /\ (amd # Nil => old # Err)
          /\ IF ev.platform = "AmdSevSnp" /\ amd # Nil
             THEN FirmwareMatches(m, old) /\ ReportValuesVerified(ev.report, amd)
             ELSE in.reference.insecure
          /\ VerifyEventLog(t, in)
  BY Zenon, AtOnceAgrees
<1>2. RootSignatureVerified(t, ev, cert, amd # Nil /\ amd.check_vcek_cert_expiry) <=>
          RootSignatureVerified(t, ev, cert, FALSE)
  BY DEF RootSignatureVerified
<1>3. amd # Nil => old # Err
  BY Zenon DEF FirmwareUnendorsed, ExpectedOf
<1>4. ~(ev.platform = "AmdSevSnp" /\ amd # Nil)
  OBVIOUS
<1>5. VerifyInsecure(t, in) <=>
          /\ in.reference.insecure /\ RootSignatureVerified(t, ev, cert, FALSE)
          /\ DiceChainVerified(ev) /\ VerifyEventLog(t, in)
  BY DEF VerifyInsecure, Common
<1>. HIDE DEF old, m, cert
<1>. QED  BY <1>1, <1>2, <1>3, <1>4, <1>5

(* However the verdict comes about, it is the same: with expected values   *)
(* that were kept as with fresh ones while they say they are valid, and by *)
(* policies as by verify where both know what they are asked.              *)
THEOREM Agreement == EvidenceSpec => []VerdictsAgree
<1>1. EvidenceInv => VerdictsAgree
  <2>. SUFFICES ASSUME EvidenceInv, verdict # Nil
                PROVE  /\ verdict.by = "cached" =>
                             /\ VerifyAtOnce(now, input) => verdict.ok
                             /\ /\ verdict.ok /\ StillValid(cache.values)
                                /\ ~EndsUnnoticed(input.reference)
                                => VerifyAtOnce(now, input)
                       /\ SameQuestion(verdict.by, input) /\ Common(input) =>
                             (verdict.ok <=> VerifyAtOnce(now, input))
    BY Zenon DEF VerdictsAgree
  <2>1. input \in Cases /\ now \in 0..MaxTime
    BY DEF EvidenceInv
  <2>2. CASE verdict.by = "cached"
    <3>1. PICK t : cache = GetExpectedValues(t, input.endorsements, input.reference) /\ cache # Err
      BY <2>2 DEF EvidenceInv
    <3>2. verdict.ok <=> VerifyWithExpectedValues(now, input.evidence, input.endorsements, cache)
      BY <2>2 DEF EvidenceInv
    <3>3. LET ok == VerifyWithExpectedValues(now, input.evidence, input.endorsements, cache)
          IN  /\ VerifyAtOnce(now, input) => ok
              /\ ok /\ StillValid(cache.values) /\ ~EndsUnnoticed(input.reference)
                    => VerifyAtOnce(now, input)
      BY <2>1, <3>1, CachedAgrees
    <3>4. ~SameQuestion(verdict.by, input)
      BY <2>2 DEF SameQuestion
    <3>. QED  BY <3>2, <3>3, <3>4
  <2>3. CASE verdict.by # "cached"
    <3>1. verdict.ok <=> Accepts(verdict.by, now, input)
      BY <2>3 DEF EvidenceInv
    <3>. SUFFICES ASSUME SameQuestion(verdict.by, input), Common(input)
                  PROVE  verdict.ok <=> VerifyAtOnce(now, input)
      BY <2>3
    <3>2. CASE verdict.by = "amd"
      <4>1. Accepts(verdict.by, now, input) <=> VerifyAmd(now, input)
        BY <3>2 DEF Accepts
      <4>2. /\ input.evidence.platform = "AmdSevSnp" /\ input.reference.amd_sev # Nil
            /\ ~MeasuredForTdx(input)
        BY <3>2 DEF SameQuestion
      <4>. QED  BY <2>1, <3>1, <4>1, <4>2, AmdAgrees
    <3>3. CASE verdict.by = "insecure"
      <4>1. Accepts(verdict.by, now, input) <=> VerifyInsecure(now, input)
        BY <3>3 DEF Accepts
      <4>2. /\ input.evidence.platform \in {"AmdSevSnp", "None"} /\ input.evidence.report.valid
            /\ input.evidence.platform = "None" \/ input.reference.amd_sev = Nil
            /\ ~FirmwareUnendorsed(now, input)
        BY <3>3 DEF SameQuestion
      <4>. QED  BY <2>1, <3>1, <4>1, <4>2, InsecureAgrees
    <3>. QED  BY <3>2, <3>3 DEF SameQuestion
  <2>. QED  BY <2>2, <2>3
<1>. QED  BY <1>1, EvidenceInvariance, PTL
=============================================================================

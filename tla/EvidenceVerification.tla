------------------------ MODULE EvidenceVerification ------------------------
(***************************************************************************)
(* Verification of attestation evidence (oak_attestation_verification):    *)
(* verify and verify_with_expected_values of verifier.rs, which take all   *)
(* values at once and may reuse expected values, and the verifiers made of *)
(* policies in verifiers.rs.                                               *)
(*                                                                         *)
(* A client judges one piece of evidence again and again, in either way,   *)
(* while time passes.  Keys, measurements and hashes are symbolic: a       *)
(* certificate names its signer, a hash is what was hashed.  Endorsements  *)
(* are sent in an older and a newer form that carry the same statements.   *)
(***************************************************************************)
EXTENDS Endorsements

CONSTANTS Cases,        \* the inputs: [evidence, endorsements, reference]
          MaxTime,
          LongCmdLines  \* command lines of 256 bytes or more

VARIABLES now,          \* the clock
          input,        \* the evidence, endorsements and reference values at hand
          cache,        \* expected values that the client kept, or Nil
          verdict       \* the last verdict at this time: [by, ok], or Nil

evidenceVars == <<now, input, cache, verdict>>

KernelComponents == {"kernel", "kernel_cmd_line", "init_ram_fs", "memory_map", "acpi"}

(* The components that each event of an evidence type measures, and the    *)
(* types of its events.                                                    *)
LayersOf(type) ==
    CASE type = "RestrictedKernel" -> <<KernelComponents, {"binary", "configuration"}>>
      [] type = "Containers" ->
            <<KernelComponents, {"system_image"}, {"binary", "configuration"}>>

EventTypes(type) ==
    CASE type = "RestrictedKernel" -> <<"Stage0Measurements", "ApplicationLayerData">>
      [] type = "Containers" -> <<"Stage0Measurements", "SystemLayerData", "ContainerLayerData">>

LegacyContainers == <<"Stage0Measurements", "Stage1Measurements", "OrchestratorMeasurements">>

Components(type) == LET layers == LayersOf(type) IN UNION {layers[i] : i \in DOMAIN layers}

-----------------------------------------------------------------------------
(* A variant used to test the properties: pairing layers with events until *)
(* one of them runs out.                                                   *)
MutZipsOnly(ev) ==
    \A i \in 1..Len(ev.event_log) :
        i <= Len(ev.layers) => ev.layers[i].event = ev.event_log[i]

(* check_certificate_validity.                                             *)
CertificateValid(t, cert) == cert.not_before <= t /\ t <= cert.not_after

(* verify_attestation_report_signature: the certificate is that of the     *)
(* reporting chip at its reported version, and its key signed the report.  *)
ReportSigned(report, cert) ==
    /\ report.chip_id = cert.chip_id
    /\ report.reported_tcb = cert.tcb
    /\ report.signer = cert.key

(* verify_root_attestation_signature: the report is signed by the key in   *)
(* the certificate, the certificate by the product's ASK, and the report   *)
(* names the key that starts the chain.  Without a TEE only the latter.    *)
RootSignatureVerified(t, ev, cert, check_expiry) ==
    /\ ev.platform \in {"AmdSevSnp", "None"}
    /\ ev.platform = "AmdSevSnp" =>
          /\ cert # Nil
          /\ cert.product # "Unsupported"
          /\ check_expiry => CertificateValid(t, cert)
          /\ cert.ask = cert.product
          /\ ev.report.valid
          /\ ReportSigned(ev.report, cert)
    /\ ev.report.report_data = ev.eca_public_key

AtLeast(actual, minimum) == \A i \in DOMAIN minimum : minimum[i] <= actual[i]

(* verify_amd_sev_attestation_report_values; the older minimum has its way.*)
ReportValuesVerified(report, amd) ==
    /\ report.vmpl = 0
    /\ report.debug => amd.allow_debug
    /\ IF amd.min_tcb_version # Nil THEN AtLeast(report.reported_tcb, amd.min_tcb_version)
       ELSE /\ report.product \in DOMAIN amd.tcb
            /\ \/ amd.tcb[report.product].type = "Skip"
               \/ AtLeast(report.reported_tcb, amd.tcb[report.product].minimum)

(* The signatures of the DICE chain, and the key at its end.               *)
KeyAbove(ev, i) == IF i = 1 THEN ev.eca_public_key ELSE ev.layers[i - 1].key
ChainVerified(ev) == \A i \in 1..Len(ev.layers) : ev.layers[i].signer = KeyAbove(ev, i)
LastKey(ev) == KeyAbove(ev, Len(ev.layers) + 1)

(* validate_events_and_layers: one event for each layer, or the restricted *)
(* kernel's second event in the certificate of the application's key.      *)
EventsCaptured(ev) ==
    LET log == ev.event_log
        n == Len(ev.layers)
    IN  IF n = 1 /\ Len(log) = 2
        THEN /\ ev.application_keys # Nil /\ ev.application_keys.event = log[2]
             /\ ev.layers[1].event = log[1]
        ELSE n = Len(log) /\ \A i \in 1..n : ev.layers[i].event = log[i]

(* The certificates of the application's keys, signed by the last layer.   *)
ApplicationKeysVerified(ev) ==
    /\ ev.application_keys # Nil
    /\ ev.application_keys.encryption_signer = LastKey(ev)
    /\ ev.application_keys.signing_signer = LastKey(ev)

-----------------------------------------------------------------------------
(* All measurements of a sequence of events or claims in one function.     *)
Joined(s) ==
    [f \in UNION {DOMAIN s[i].values : i \in DOMAIN s} |->
        s[CHOOSE i \in DOMAIN s : f \in DOMAIN s[i].values].values[f]]

(* extract_evidence_values: the type of evidence and its measurements, from*)
(* the event log or, without one, from claims of the certificates.         *)
Extract(ev) ==
    LET log == ev.event_log
        types == [i \in 1..Len(log) |-> log[i].type]
        final == ev.application_keys.claims
        claims == Append([i \in 1..Len(ev.layers) |-> ev.layers[i].claims], final)
        From(type, s) == [type |-> type, values |-> Joined(s)]
        Known(s) == \A i \in DOMAIN s : s[i] # Nil
        Kinds(s) == [i \in DOMAIN s |-> s[i].type]
    IN  CASE ~ev.report.valid -> Err
          [] ev.report.valid /\ log # Nil /\ log # << >> ->
                CASE types \in {EventTypes("Containers"), LegacyContainers} ->
                        From("Containers", log)
                  [] types = EventTypes("RestrictedKernel") -> From("RestrictedKernel", log)
                  [] types \notin {EventTypes("Containers"), LegacyContainers} /\ Len(log) >= 3 ->
                        [type |-> "Cb"]
                  [] OTHER -> Err
          [] OTHER ->
                CASE final # Nil /\ final.type = "Container" ->
                        IF Known(claims) /\ Kinds(claims) = <<"Kernel", "System", "Container">>
                        THEN From("Containers", claims) ELSE Err
                  [] final # Nil /\ final.type = "Application" ->
                        IF Known(claims) /\ Kinds(claims) = <<"Kernel", "Application">>
                        THEN From("RestrictedKernel", claims) ELSE Err
                  [] OTHER ->
                        IF \A i \in 1..Len(ev.layers) : ev.layers[i].event # Nil
                        THEN [type |-> "Cb"] ELSE Err

(* compare_measurement_digest and the treatment of the command line: a     *)
(* value is needed even when its comparison is skipped, except for that.   *)
FieldMatches(f, values, expected) ==
    IF f = "kernel_cmd_line"
    THEN \/ expected.type = "Skipped"
         \/ f \in DOMAIN values /\ values[f] \notin LongCmdLines /\ values[f] \in expected.texts
    ELSE /\ f \in DOMAIN values
         /\ \/ expected.type = "Skipped"
            \/ expected.type = "Digests" /\ \E d \in expected.digests : DigestsMatch(values[f], d)

FirmwareMatches(measurement, expected) ==
    FieldMatches("stage0", [stage0 |-> [sha2_384 |-> measurement]], expected["stage0"])

(* The firmware is judged with reference values for its platform.          *)
Judged(ref) == Components(ref.type) \cup IF ref.amd_sev # Nil THEN {"stage0"} ELSE {}

(* get_expected_values: whatever fails to verify fails the whole.          *)
GetExpectedValues(t, ends, ref) ==
    LET judged == Judged(ref)
        of == [c \in judged |-> ExpectedFor(t, c, ends.of[c], ref.of[c], FALSE)]
        Owner(f) == CHOOSE c \in judged : f \in FieldsOf(c)
    IN  IF ends.type # ref.type \/ \E c \in judged : of[c] = Err THEN Err
        ELSE [type |-> ref.type, amd_sev |-> ref.amd_sev, insecure |-> ref.insecure,
              values |-> [f \in UNION {FieldsOf(c) : c \in judged} |-> of[Owner(f)][f]]]

(* compare_root_layer_measurement_digests.                                 *)
RootMatches(ev, expected) ==
    IF ev.platform = "AmdSevSnp" /\ expected.amd_sev # Nil
    THEN /\ FirmwareMatches(ev.report.measurement, expected.values)
         /\ ReportValuesVerified(ev.report, expected.amd_sev)
    ELSE expected.insecure

VerifyWithExpectedValues(t, ev, ends, expected) ==
    /\ RootSignatureVerified(t, ev, ends.tee_certificate,
           expected.amd_sev # Nil /\ expected.amd_sev.check_vcek_cert_expiry)
    /\ ChainVerified(ev)
    /\ ApplicationKeysVerified(ev)
    /\ ev.event_log # Nil => EventsCaptured(ev)
    /\ LET extracted == Extract(ev)
       IN  /\ extracted # Err
           /\ extracted.type = expected.type
           /\ RootMatches(ev, expected)
           /\ \A c \in Components(expected.type) : \A f \in FieldsOf(c) :
                 FieldMatches(f, extracted.values, expected.values[f])

VerifyAtOnce(t, in) ==
    LET expected == GetExpectedValues(t, in.endorsements, in.reference)
    IN  expected # Err /\ VerifyWithExpectedValues(t, in.evidence, in.endorsements, expected)

-----------------------------------------------------------------------------
(* A policy: the endorsement that goes with the event, or none, gives the  *)
(* expected values at once.                                                *)
PolicyAccepts(t, c, e, ref, values) ==
    LET expected == ExpectedFor(t, c, e, ref, TRUE)
    IN  expected # Err /\ \A f \in FieldsOf(c) : FieldMatches(f, values, expected[f])

(* verify_event_log: policies, events and endorsements are matched by their*)
(* order; endorsements may be missing, and each must be of its event's kind*)
VerifyEventLog(t, in) ==
    LET log == in.evidence.event_log
        layers == LayersOf(in.reference.type)
        sent == in.endorsements.events
        Empty(i) == i > Len(sent) \/ sent[i] = "Empty"
    IN  /\ Len(layers) = Len(log)
        /\ Len(sent) <= Len(log)
        /\ \A i \in 1..Len(log) :
              /\ log[i].type = EventTypes(in.reference.type)[i]
              /\ Empty(i) \/ sent[i] = log[i].type
              /\ \A c \in layers[i] :
                    PolicyAccepts(t, c, IF Empty(i) THEN Nil ELSE in.endorsements.of[c],
                                  in.reference.of[c], log[i].values)

FirmwareAccepted(t, in) ==
    /\ in.endorsements.initial
    /\ LET expected == ExpectedFor(t, "stage0", in.endorsements.of["stage0"],
                                   in.reference.of["stage0"], TRUE)
       IN  expected # Err /\ FirmwareMatches(in.evidence.report.measurement, expected)

DiceChainVerified(ev) == ChainVerified(ev) /\ ev.event_log # Nil /\ EventsCaptured(ev)

VerifyAmd(t, in) ==
    LET amd == in.reference.amd_sev
    IN  /\ amd # Nil
        /\ in.endorsements.platform
        /\ in.evidence.platform = "AmdSevSnp"
        /\ RootSignatureVerified(t, in.evidence, in.endorsements.tee_certificate,
                                 amd.check_vcek_cert_expiry)
        /\ ReportValuesVerified(in.evidence.report, amd)
        /\ DiceChainVerified(in.evidence)
        /\ FirmwareAccepted(t, in)
        /\ VerifyEventLog(t, in)

VerifyInsecure(t, in) ==
    /\ in.reference.insecure
    /\ in.endorsements.platform
    /\ RootSignatureVerified(t, in.evidence, in.endorsements.tee_certificate, FALSE)
    /\ DiceChainVerified(in.evidence)
    /\ VerifyEventLog(t, in)

(* verify_intel_tdx_quote_validity: the quote's certificates are valid, and*)
(* its signatures good.                                                    *)
QuoteValid(t, quote) == quote.signed /\ CertificateValid(t, quote)

(* verify_intel_tdx_attestation_quote.                                     *)
QuoteValuesVerified(quote, tdx) ==
    /\ quote.debug => tdx.allow_debug
    /\ tdx.tcb.type = "Skip" \/ AtLeast(quote.tee_tcb_svn, tdx.tcb.minimum)

(* The quote is good, and the events replay to the register it reports (the*)
(* digest that RtmrEmulator computes stands for what extended it).         *)
VerifyTdx(t, in) ==
    LET tdx == in.reference.intel_tdx
        quote == in.evidence.report
    IN  /\ tdx # Nil
        /\ in.reference.type = "Containers"
        /\ in.endorsements.platform
        /\ in.evidence.platform = "IntelTdx"
        /\ QuoteValid(t, quote)
        /\ QuoteValuesVerified(quote, tdx)
        /\ FirmwareAccepted(t, in)
        /\ in.evidence.event_log # Nil
        /\ quote.rtmr_2 = in.evidence.event_log
        /\ VerifyEventLog(t, in)

Accepts(by, t, in) ==
    CASE by = "all" -> VerifyAtOnce(t, in)
      [] by = "amd" -> VerifyAmd(t, in)
      [] by = "insecure" -> VerifyInsecure(t, in)
      [] by = "tdx" -> VerifyTdx(t, in)

-----------------------------------------------------------------------------
(* The inputs are messages as their types have them: each is there or Nil, *)
(* repeated fields are sequences of messages that are there, a reference   *)
(* value is of one of the kinds, and an event has the fields of its type.  *)
IsSeq(s) == s \in Seq({s[i] : i \in DOMAIN s})
ReferenceKinds == {"Skip", "Digests", "Text", "Endorsement"}

ReferenceOK(ref) ==
    /\ ref.type \in ReferenceKinds
    /\ ref.type = "Endorsement" => IsSeq(ref.keys) /\ ref.tlog.strategy \in {"Skip", "All", "Any"}
FieldsByType(log) ==
    \A type \in {"RestrictedKernel", "Containers"} :
        [i \in 1..Len(log) |-> log[i].type] = EventTypes(type) =>
            \A i \in 1..Len(log) :
                DOMAIN log[i].values \subseteq UNION {FieldsOf(c) : c \in LayersOf(type)[i]}

ASSUME CasesAssumption ==
    \A in \in Cases :
        LET ev == in.evidence
            ends == in.endorsements
            ref == in.reference
        IN  /\ ref.type \in {"RestrictedKernel", "Containers"}
            /\ \A c \in Components(ref.type) \cup {"stage0"} :
                  /\ ref.of[c] # Nil => ReferenceOK(ref.of[c])
                  /\ LET statement == ends.of[c].statement
                     IN  ends.of[c] # Nil => <<statement.not_before, statement.not_after>> # Nil
            /\ IsSeq(ev.layers)
            /\ ev.event_log # Nil =>
                  IsSeq(ev.event_log) /\ \A i \in DOMAIN ev.event_log : ev.event_log[i] # Nil
            /\ ev.event_log # Nil => FieldsByType(ev.event_log)

ASSUME TimeAssumption == MaxTime \in Nat

(* What a successful call returns is not Err.                              *)
ASSUME ErrAssumption ==
    \A in \in Cases :
        LET e == in.endorsements.of["stage0"]
            log == in.evidence.event_log
            ref == in.reference
        IN  /\ e # Nil /\ AttachmentVerified("stage0", e) =>
                  \A newer \in BOOLEAN : Endorsed("stage0", e, newer) # Err
            /\ log # Nil => \A type \in {"RestrictedKernel", "Containers"} :
                  [type |-> type, values |-> Joined(log)] # Err
            /\ \A t \in 0..MaxTime :
                  /\ in.endorsements.type = ref.type
                  /\ \A c \in Judged(ref) :
                        ExpectedFor(t, c, in.endorsements.of[c], ref.of[c], FALSE) # Err
                  => GetExpectedValues(t, in.endorsements, ref) # Err

-----------------------------------------------------------------------------
EvidenceInit ==
    /\ now = 0
    /\ input \in Cases
    /\ cache = Nil
    /\ verdict = Nil

Pass ==
    /\ now < MaxTime
    /\ now' = now + 1
    /\ verdict' = Nil
    /\ UNCHANGED <<input, cache>>

(* get_expected_values; a failure leaves what the client kept.             *)
KeepExpectedValues ==
    /\ LET expected == GetExpectedValues(now, input.endorsements, input.reference)
       IN  cache' = IF expected = Err THEN cache ELSE expected
    /\ verdict' = Nil
    /\ UNCHANGED <<now, input>>

Verify(by) ==
    /\ verdict' = [by |-> by, ok |-> Accepts(by, now, input)]
    /\ UNCHANGED <<now, input, cache>>

VerifyCached ==
    /\ cache # Nil
    /\ verdict' = [by |-> "cached",
                   ok |-> VerifyWithExpectedValues(now, input.evidence, input.endorsements, cache)]
    /\ UNCHANGED <<now, input, cache>>

EvidenceNext ==
    \/ Pass
    \/ KeepExpectedValues
    \/ \E by \in {"all", "amd", "insecure", "tdx"} : Verify(by)
    \/ VerifyCached

EvidenceSpec == EvidenceInit /\ [][EvidenceNext]_evidenceVars
-----------------------------------------------------------------------------
(* Whether the expected values that were kept say they may still be used.  *)
StillValid(values) ==
    \A f \in DOMAIN values :
        values[f].type = "Digests" /\ values[f].valid # Nil =>
            values[f].valid[1] <= now /\ now <= values[f].valid[2]

Endorses(ref, c) == ref.of[c] # Nil /\ ref.of[c].type = "Endorsement"

(* Two things can end unnoticed by the values kept: the validity of an     *)
(* endorsed command line, and the age that is allowed of a log entry.      *)
EndsUnnoticed(ref) ==
    \/ Endorses(ref, "kernel_cmd_line")
    \/ \E c \in Components(ref.type) \cup {"stage0"} :
          Endorses(ref, c) /\ ref.of[c].tlog.rekor # Nil /\ ref.of[c].tlog.rekor.max_age # Nil

(* An endorsement that is signed with the key it names, of the subject it  *)
(* carries, and judged by no newer kind of proof.                          *)
SameEndorsement(e, ref) ==
    /\ \A i \in DOMAIN ref.keys : ref.keys[i].key_id = e.key_id <=> ref.keys[i].key = e.signer
    /\ e.subject # Nil => DigestsMatch(DigestOf(e.subject), e.statement.digest)
    /\ ~ref.tlog.c2sp /\ ~ref.tlog.pes

(* An input without what only one of the two ways of verification knows:   *)
(* evidence as current hosts make it, the same endorsements in both forms, *)
(* signed with the key they name, and no newer kind of proof.              *)
Common(in) ==
    LET ev == in.evidence
        ends == in.endorsements
        ref == in.reference
    IN  /\ ends.type = ref.type
        /\ ends.platform /\ ends.initial
        /\ ends.events = EventTypes(ref.type)
        /\ ev.event_log # Nil
        /\ [i \in DOMAIN ev.event_log |-> ev.event_log[i].type] # LegacyContainers
        /\ ApplicationKeysVerified(ev)
        /\ \A c \in Components(ref.type) \cup {"stage0"} :
              Endorses(ref, c) /\ ends.of[c] # Nil => SameEndorsement(ends.of[c], ref.of[c])

(* Only the newer messages know the firmware's TDX measurement, and its    *)
(* policy compares it on every platform.                                   *)
MeasuredForTdx(in) ==
    LET e == in.endorsements.of["stage0"]
    IN  /\ Endorses(in.reference, "stage0") /\ e # Nil /\ e.subject \in DOMAIN Decoded
        /\ \E tdx \in {Decoded[e.subject].tdx_measurement} \ {Nil} :
              DigestsMatch([sha2_384 |-> in.evidence.report.measurement], tdx)

(* verify wants the firmware to be endorsed also where no TEE measures it. *)
FirmwareUnendorsed(t, in) ==
    /\ in.reference.amd_sev # Nil
    /\ LET e == in.endorsements.of["stage0"]
       IN  ExpectedFor(t, "stage0", e, in.reference.of["stage0"], FALSE) = Err

(* Which of the newer verifiers answers the question that verify answers.  *)
SameQuestion(by, in) ==
    \/ /\ by = "amd" /\ in.evidence.platform = "AmdSevSnp" /\ in.reference.amd_sev # Nil
       /\ ~MeasuredForTdx(in)
    \/ /\ by = "insecure" /\ in.evidence.platform \in {"AmdSevSnp", "None"}
       /\ in.evidence.platform = "None" \/ in.reference.amd_sev = Nil
       /\ in.evidence.report.valid
       /\ ~FirmwareUnendorsed(now, in)

(* However the verdict comes about, it is the same.  With expected values  *)
(* that were kept, nothing is refused that verify accepts, and nothing     *)
(* accepted that it refuses while they say that they are valid, except for *)
(* what ends unnoticed.  Policies and verify agree on what both know.      *)
VerdictsAgree ==
    verdict # Nil =>
        LET fresh == VerifyAtOnce(now, input)
        IN  /\ verdict.by = "cached" =>
                  /\ fresh => verdict.ok
                  /\ verdict.ok /\ StillValid(cache.values) /\ ~EndsUnnoticed(input.reference)
                        => fresh
            /\ SameQuestion(verdict.by, input) /\ Common(input) => (verdict.ok <=> fresh)

(* What the platform vouches for: events and claims in certificates that   *)
(* lead back to the key in its report, or the events in its register.  The *)
(* verifiers made of policies take the application key's certificate for   *)
(* what it says and leave its signature to others.                         *)
Vouched(ev, by) ==
    IF ev.platform = "IntelTdx" THEN {ev.report.rtmr_2[i] : i \in DOMAIN ev.report.rtmr_2}
    ELSE LET Above(i) == IF i = 1 THEN ev.report.report_data ELSE ev.layers[i - 1].key
             rooted == {i \in 0..Len(ev.layers) : \A j \in 1..i : ev.layers[j].signer = Above(j)}
             keys == ev.application_keys
         IN  (UNION {{ev.layers[i].event, ev.layers[i].claims} : i \in rooted \ {0}})
             \cup IF /\ keys # Nil
                     /\ by \in {"all", "cached"} =>
                           /\ Len(ev.layers) \in rooted
                           /\ keys.encryption_signer = Above(Len(ev.layers) + 1)
                  THEN {keys.event, keys.claims} ELSE {}

(* Nothing is accepted on the word of the event log: for every component   *)
(* that is not skipped, the platform vouches for a measurement that is     *)
(* among the expected ones.                                                *)
ChainOfCustody ==
    verdict # Nil /\ verdict.ok =>
        LET by == verdict.by
            ref == input.reference
            Expected(c) == IF by = "cached" THEN [f \in FieldsOf(c) |-> cache.values[f]]
                           ELSE ExpectedFor(now, c, input.endorsements.of[c], ref.of[c], by # "all")
        IN  \A c \in Components(ref.type) : ref.of[c].type # "Skip" =>
                \A f \in FieldsOf(c) : \E x \in Vouched(input.evidence, by) :
                    x # Nil /\ FieldMatches(f, x.values, Expected(c)[f])
=============================================================================

---------------------------- MODULE Endorsements ----------------------------
(***************************************************************************)
(* Signed endorsements of binaries and what a verifier derives from them:  *)
(* verify_endorsement (tr/verify_endorsement) and the expected values of   *)
(* oak_attestation_verification/src/expect.rs.                             *)
(*                                                                         *)
(* A reference value says how a component is to be judged: not at all, by  *)
(* a list, or by an endorsement.  Verifying an endorsement takes the time; *)
(* the expected values that result can be kept and used later.  Contents   *)
(* of files are names; a digest maps hash algorithms to the contents.      *)
(***************************************************************************)
EXTENDS Naturals, Sequences

CONSTANTS Nil,          \* an absent message
          Err,          \* a failed call
          Decoded       \* what a subject decodes to, if it decodes: [kind, ...]

(* The measurements of a component: a kernel has two.                      *)
FieldsOf(c) == IF c = "kernel" THEN {"kernel_image", "kernel_setup_data"} ELSE {c}

DigestOf(contents) == [sha2_256 |-> contents, sha2_384 |-> contents]

(* is_raw_digest_match: an algorithm both have, and none they disagree on. *)
DigestsMatch(d, e) ==
    LET common == DOMAIN d \cap DOMAIN e
    IN  common # {} /\ \A h \in common : d[h] = e[h]

Skipped == [type |-> "Skipped"]
Digests(digests, valid) == [type |-> "Digests", digests |-> digests, valid |-> valid]
Text(texts) == [type |-> "Text", texts |-> texts]

-----------------------------------------------------------------------------
(* A variant used to test the properties: expected values without the time *)
(* until which they may be kept.                                           *)
MutForgetsValidity(e) == Nil

(* verify_timestamp: not before a date, and not too old (max_age stands for*)
(* not_before_relative, which is negative).                                *)
TimestampVerified(t, timestamp, rekor) ==
    /\ rekor.not_before_absolute # Nil => rekor.not_before_absolute <= timestamp
    /\ rekor.max_age # Nil => t <= timestamp + rekor.max_age

(* verify_rekor_log_entry and compare_endorser_public_key.                 *)
VerifyRekor(t, e, rekor, key) ==
    /\ e.rekor # Nil
    /\ e.rekor.signer \in rekor.keys
    /\ TimestampVerified(t, e.rekor.integrated_time, rekor)
    /\ e.rekor.artifact = e.statement
    /\ e.rekor.endorser = key

(* verify_tlog: every populated verification passes, or one of them does.  *)
(* The deprecated rekor reference value is "All" with Rekor only.          *)
VerifyTlog(t, e, tlog, key) ==
    LET rekor == VerifyRekor(t, e, tlog.rekor, key)
    IN  CASE tlog.strategy = "Skip" -> TRUE
          [] tlog.strategy = "All" ->
                /\ tlog.rekor # Nil => rekor
                /\ tlog.c2sp => e.c2sp
                /\ tlog.pes => e.pes
          [] tlog.strategy = "Any" ->
                \/ tlog.rekor # Nil /\ rekor
                \/ tlog.c2sp /\ e.c2sp
                \/ tlog.pes /\ e.pes

(* DefaultStatement::validate: the subject's digest, if there is one, the  *)
(* validity and the claims that are required.                              *)
StatementValid(t, statement, subject, claims) ==
    /\ subject # Nil => DigestsMatch(DigestOf(subject), statement.digest)
    /\ statement.not_before <= t /\ t <= statement.not_after
    /\ claims \subseteq statement.claims

(* verify_endorsement at time t: the key the signature names, the          *)
(* signature, the statement, the logs.                                     *)
VerifyEndorsement(t, e, ref) ==
    \E i \in 1..Len(ref.keys) :
        /\ ref.keys[i].key_id = e.key_id
        /\ \A j \in 1..(i - 1) : ref.keys[j].key_id # e.key_id
        /\ ref.keys[i].key = e.signer
        /\ StatementValid(t, e.statement, e.subject, ref.claims)
        /\ VerifyTlog(t, e, ref.tlog, ref.keys[i].key)

(* verify_endorsement_wrapper, for the older messages, which name no key   *)
(* and carry no proof but Rekor's: every key is tried.                     *)
VerifyEndorsementWrapper(t, e, ref) ==
    \E i \in 1..Len(ref.keys) :
        VerifyEndorsement(t, [key_id |-> ref.keys[i].key_id, signer |-> e.signer, subject |-> Nil,
                              statement |-> e.statement, rekor |-> e.rekor,
                              c2sp |-> FALSE, pes |-> FALSE], ref)

-----------------------------------------------------------------------------
(* The subject of firmware, kernels and command lines is itself decoded,   *)
(* after its digest and the claim for its type.                            *)
AttachmentVerified(c, e) ==
    c \in {"stage0", "kernel", "kernel_cmd_line"} =>
        /\ c = "stage0" => "firmware" \in e.statement.claims
        /\ c = "kernel" => "kernel" \in e.statement.claims
        /\ DigestsMatch(DigestOf(e.subject), e.statement.digest)
        /\ e.subject \in DOMAIN Decoded /\ Decoded[e.subject].kind = c

ClaimValidity(e) == <<e.statement.not_before, e.statement.not_after>>

(* What a verified endorsement e of component c expects of each field.     *)
(* Only the newer messages know the firmware's TDX measurement.  A text    *)
(* keeps no validity.                                                      *)
Endorsed(c, e, newer) ==
    CASE c = "stage0" ->
            LET firmware == Decoded[e.subject]
                tdx == {firmware.tdx_measurement} \ {Nil}
            IN  [f \in {c} |-> Digests(firmware.configs \cup IF newer THEN tdx ELSE {},
                                       ClaimValidity(e))]
      [] c = "kernel" ->
            [f \in FieldsOf(c) |-> Digests({Decoded[e.subject][f]}, ClaimValidity(e))]
      [] c = "kernel_cmd_line" -> [f \in {c} |-> Text(Decoded[e.subject].regex)]
      [] OTHER -> [f \in {c} |-> Digests({e.statement.digest}, ClaimValidity(e))]

(* get_* and acquire_*_expected_values of one component.                   *)
ExpectedFor(t, c, e, ref, newer) ==
    CASE ref = Nil -> Err
      [] ref # Nil /\ ref.type = "Skip" -> [f \in FieldsOf(c) |-> Skipped]
      [] ref # Nil /\ ref.type = "Digests" ->
            [f \in FieldsOf(c) |-> Digests(ref.digests[f], Nil)]
      [] ref # Nil /\ ref.type = "Text" -> [f \in FieldsOf(c) |-> Text(ref.texts)]
      [] ref # Nil /\ ref.type = "Endorsement" ->
            IF /\ e # Nil
               /\ IF newer THEN VerifyEndorsement(t, e, ref)
                  ELSE VerifyEndorsementWrapper(t, e, ref)
               /\ AttachmentVerified(c, e)
            THEN Endorsed(c, e, newer) ELSE Err
=============================================================================

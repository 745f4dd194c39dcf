----------------------------- MODULE NoiseAead -----------------------------
(***************************************************************************)
(* What both Noise crypters share (oak_crypto/src/noise_handshake/mod.rs): *)
(* the counter nonce and AES-256-GCM.  A ciphertext is the pair of the     *)
(* nonce and the plaintext it was sealed with: it opens under exactly that *)
(* nonce, and a damaged one under none.                                    *)
(***************************************************************************)
EXTENDS Naturals

CONSTANTS Plaintext,    \* application payloads
          TooLarge,     \* the payloads longer than 2^28 bytes
          Damaged,      \* a ciphertext that no key holder produced
          MaxSequence,  \* MAX_SEQUENCE, the last nonce that may be used
          U32Max        \* the largest u32

Message == [nonce : 0..MaxSequence, data : Plaintext]

ASSUME NonceAssumption ==
    /\ MaxSequence \in Nat
    /\ U32Max \in Nat
    /\ MaxSequence < U32Max

ASSUME PayloadAssumption ==
    /\ TooLarge \subseteq Plaintext
    /\ Damaged \notin Message

-----------------------------------------------------------------------------
(* Variants used to test the properties, each a mistake the code avoids.   *)
MutNonceUnbounded(n) == TRUE

(* Nonce::next_nonce: a nonce above MAX_SEQUENCE is refused.  The counter  *)
(* itself may therefore reach MAX_SEQUENCE + 1, which u32 holds.           *)
NonceAvailable(n) == n <= MaxSequence

(* aes_gcm_256_encrypt: fails on an oversized payload, after the caller    *)
(* has already consumed the nonce.                                         *)
Sealable(d) == d \notin TooLarge

Seal(n, d) == [nonce |-> n, data |-> d]

(* aes_gcm_256_decrypt: the tag checks only under the nonce (and key) the  *)
(* ciphertext was sealed with.                                             *)
Opens(n, c) == c # Damaged /\ c.nonce = n
=============================================================================

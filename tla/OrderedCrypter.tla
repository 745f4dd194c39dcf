--------------------------- MODULE OrderedCrypter ---------------------------
(***************************************************************************)
(* One direction of a session that uses OrderedCrypter                     *)
(* (oak_crypto/src/noise_handshake/mod.rs): the writer's write_nonce, the  *)
(* reader's read_nonce, and a transport that may lose, duplicate, reorder  *)
(* and damage messages.  The nonce is implicit: decrypt always uses        *)
(* read_nonce, and consumes it even when the ciphertext does not open.     *)
(***************************************************************************)
EXTENDS NoiseAead, Sequences

VARIABLES write_nonce,  \* the writer's Nonce
          read_nonce,   \* the reader's Nonce
          sent,         \* every ciphertext ever produced
          delivered,    \* the plaintexts the reader returned, in order
          failed        \* history: the nonces decrypt consumed in vain

vars == <<write_nonce, read_nonce, sent, delivered, failed>>

TypeOK ==
    /\ write_nonce \in 0..(MaxSequence + 1)
    /\ read_nonce \in 0..(MaxSequence + 1)
    /\ sent \subseteq Message
    /\ delivered \in Seq(Message)
    /\ failed \subseteq 0..MaxSequence

Init ==
    /\ write_nonce = 0
    /\ read_nonce = 0
    /\ sent = {}
    /\ delivered = << >>
    /\ failed = {}

-----------------------------------------------------------------------------
(* A variant used to test the properties, a mistake the code avoids: a     *)
(* failed decrypt consumes two nonces.                                     *)
MutDecryptSkips(c) ==
    /\ NonceAvailable(read_nonce)
    /\ read_nonce' = IF Opens(read_nonce, c) THEN read_nonce + 1
                                              ELSE read_nonce + 2
    /\ IF Opens(read_nonce, c)
       THEN /\ delivered' = Append(delivered, c)
            /\ UNCHANGED failed
       ELSE /\ failed' = failed \cup {read_nonce}
            /\ UNCHANGED delivered
    /\ UNCHANGED <<write_nonce, sent>>

(* OrderedCrypter::encrypt.  The nonce is consumed even when the payload   *)
(* is too large to be sealed; the reader then waits at a nonce for which   *)
(* no ciphertext exists.                                                   *)
Encrypt(d) ==
    /\ NonceAvailable(write_nonce)
    /\ write_nonce' = write_nonce + 1
    /\ sent' = IF Sealable(d) THEN sent \cup {Seal(write_nonce, d)} ELSE sent
    /\ UNCHANGED <<read_nonce, delivered, failed>>

(* OrderedCrypter::decrypt of ciphertext c.                                *)
Decrypt(c) ==
    /\ NonceAvailable(read_nonce)
    /\ read_nonce' = read_nonce + 1
    /\ IF Opens(read_nonce, c)
       THEN /\ delivered' = Append(delivered, c)
            /\ UNCHANGED failed
       ELSE /\ failed' = failed \cup {read_nonce}
            /\ UNCHANGED delivered
    /\ UNCHANGED <<write_nonce, sent>>

Next ==
    \/ \E d \in Plaintext : Encrypt(d)
    \/ \E c \in sent \cup {Damaged} : Decrypt(c)

Spec == Init /\ [][Next]_vars
-----------------------------------------------------------------------------
(* Messages reach the reader in the order they were encrypted, none twice, *)
(* although the transport reorders and duplicates.                         *)
InOrder ==
    \A i, j \in 1..Len(delivered) :
        i < j => delivered[i].nonce < delivered[j].nonce

(* Every gap in what the reader saw is one it was told of: a nonce below   *)
(* read_nonce was either delivered or reported as a decryption error.      *)
NoSilentGap ==
    \A n \in 0..MaxSequence :
        n < read_nonce =>
            \/ n \in failed
            \/ \E i \in 1..Len(delivered) : delivered[i].nonce = n

(* The reader counts the same messages as the writer: while no call has    *)
(* failed, the i-th plaintext delivered is the one sealed under nonce      *)
(* i - 1, so the reader has seen a gap-free prefix.                        *)
PrefixUntilFailure ==
    failed = {} =>
        /\ Len(delivered) = read_nonce
        /\ \A i \in 1..Len(delivered) : delivered[i].nonce = i - 1

(* decrypt hands over messages in order and at most once, and tells of all *)
(* it does not hand over: no gap is silent, and before the first failure   *)
(* there is none.                                                          *)
FaithfulDelivery == InOrder /\ NoSilentGap /\ PrefixUntilFailure

(* encrypt never seals two payloads under one nonce.                       *)
NonceUnique ==
    \A m1, m2 \in sent : m1.nonce = m2.nonce => m1 = m2

(* The crypter implements at-most-once delivery.                           *)
Abstract == INSTANCE AtMostOnce
AbstractSpec == Abstract!Spec
=============================================================================

-------------------------- MODULE UnorderedCrypter --------------------------
(***************************************************************************)
(* One direction of a session that uses UnorderedCrypter                   *)
(* (oak_crypto/src/noise_handshake/mod.rs): the writer's write_nonce, the  *)
(* reader's sliding window, and between them a transport that may lose,    *)
(* duplicate, reorder and damage what it carries.                          *)
(*                                                                         *)
(* decrypt moves the window and burns the nonce BEFORE the ciphertext is   *)
(* authenticated, so a damaged message changes the reader's state too.     *)
(***************************************************************************)
EXTENDS NoiseAead, Sequences

CONSTANT WindowSize     \* window_size

(* WindowSize = 0 is left out: with it the u32 sum in                      *)
(* get_lowest_acceptable_read_nonce overflows at furthest_read_nonce =     *)
(* u32::MAX.                                                               *)
ASSUME WindowAssumption == WindowSize \in 1..U32Max

VARIABLES write_nonce,          \* the writer's Nonce
          furthest_read_nonce,  \* the reader's window ...
          buffered_read_nonces, \* ... and the nonces burnt in it
          sent,                 \* every ciphertext ever produced
          delivered,            \* the plaintexts the reader returned, in order
          tried                 \* history: every nonce that reached the AEAD

crypterVars == <<write_nonce, furthest_read_nonce, buffered_read_nonces, sent,
                 delivered, tried>>

U32 == 0..U32Max

TypeOK ==
    /\ write_nonce \in 1..(MaxSequence + 1)
    /\ furthest_read_nonce \in U32
    /\ buffered_read_nonces \subseteq U32
    /\ sent \subseteq Message
    /\ delivered \in Seq(Message)
    /\ tried \subseteq U32

CrypterInit ==
    /\ write_nonce = 1
    /\ furthest_read_nonce = 0
    /\ buffered_read_nonces = {}
    /\ sent = {}
    /\ delivered = << >>
    /\ tried = {}

-----------------------------------------------------------------------------
(* get_lowest_acceptable_read_nonce, for a given furthest_read_nonce.      *)
LowestAcceptable(furthest) ==
    IF furthest > WindowSize THEN furthest - WindowSize + 1 ELSE 1

(* Variants used to test the properties, each a mistake the code avoids:   *)
(* a window without the replay check, and one that forgets all or nothing  *)
(* when it moves.                                                          *)

MutBurnUnchecked(n) ==
    /\ n >= LowestAcceptable(furthest_read_nonce)
    /\ n <= furthest_read_nonce
    /\ Len(delivered) < MaxSequence
    /\ buffered_read_nonces' = buffered_read_nonces \cup {n}
    /\ UNCHANGED furthest_read_nonce

MutAdvanceForgetsAll(n) ==
    /\ n > furthest_read_nonce
    /\ furthest_read_nonce' = n
    /\ buffered_read_nonces' = {n}

MutAdvanceRetainsAll(n) ==
    /\ n > furthest_read_nonce
    /\ furthest_read_nonce' = n
    /\ buffered_read_nonces' = buffered_read_nonces \cup {n}

(* UnorderedCrypter::encrypt.  The nonce is consumed even when the payload *)
(* is too large to be sealed.                                              *)
Encrypt(d) ==
    /\ NonceAvailable(write_nonce)
    /\ write_nonce' = write_nonce + 1
    /\ sent' = IF Sealable(d) THEN sent \cup {Seal(write_nonce, d)} ELSE sent
    /\ UNCHANGED <<furthest_read_nonce, buffered_read_nonces, delivered, tried>>

(* The window update of decrypt for a nonce inside the window.             *)
BurnInWindow(n) ==
    /\ n >= LowestAcceptable(furthest_read_nonce)
    /\ n <= furthest_read_nonce
    /\ n \notin buffered_read_nonces
    /\ buffered_read_nonces' = buffered_read_nonces \cup {n}
    /\ UNCHANGED furthest_read_nonce

(* The window update of decrypt for a nonce beyond the window.             *)
AdvanceWindow(n) ==
    /\ n >= LowestAcceptable(furthest_read_nonce)
    /\ n > furthest_read_nonce
    /\ furthest_read_nonce' = n
    /\ buffered_read_nonces' =
         {m \in buffered_read_nonces : m >= LowestAcceptable(n)} \cup {n}

(* UnorderedCrypter::decrypt of ciphertext c under the header nonce n.  A  *)
(* nonce below the window (InvalidNonce) or already burnt (ReplayedNonce)  *)
(* is refused without any change, so those calls are stuttering steps.     *)
Decrypt(n, c) ==
    /\ BurnInWindow(n) \/ AdvanceWindow(n)
    /\ delivered' = IF Opens(n, c) THEN Append(delivered, c) ELSE delivered
    /\ tried' = tried \cup {n}
    /\ UNCHANGED <<write_nonce, sent>>

(* The transport hands over any ciphertext it has ever seen, or a damaged  *)
(* one, with any header nonce.                                             *)
CrypterNext ==
    \/ \E d \in Plaintext : Encrypt(d)
    \/ \E n \in U32, c \in sent \cup {Damaged} : Decrypt(n, c)

CrypterSpec == CrypterInit /\ [][CrypterNext]_crypterVars
-----------------------------------------------------------------------------
(* No ciphertext is handed to the reader twice, however often and in       *)
(* whatever order decrypt is called with copies of it.                     *)
NoReplay ==
    \A i, j \in 1..Len(delivered) :
        delivered[i].nonce = delivered[j].nonce => i = j

(* The set of buffered nonces stays within the window that decrypt still   *)
(* accepts, so it never holds more than window_size entries: the retain in *)
(* decrypt really forgets what fell out.                                   *)
BufferBounded ==
    buffered_read_nonces
      \subseteq LowestAcceptable(furthest_read_nonce)..furthest_read_nonce

(* The window is exact: a nonce decrypt still accepts is buffered if and   *)
(* only if it reached the AEAD before.  Too few would admit a replay, too  *)
(* many would refuse a fresh message.                                      *)
WindowExact ==
    \A n \in LowestAcceptable(furthest_read_nonce)..furthest_read_nonce :
        n \in buffered_read_nonces <=> n \in tried

(* The buffer is the part of the window that was tried, and nothing else.  *)
WindowSound == WindowExact /\ BufferBounded

(* encrypt never seals two payloads under one nonce (a GCM requirement).   *)
NonceUnique ==
    \A m1, m2 \in sent : m1.nonce = m2.nonce => m1 = m2

(* A nonce the reader has refused as too old or already used stays         *)
(* refused: no later step makes decrypt accept it again.                   *)
NonceRefused(n) ==
    \/ n < LowestAcceptable(furthest_read_nonce)
    \/ n \in buffered_read_nonces

RefusalIsFinal == [][\A n \in U32 : NonceRefused(n) => NonceRefused(n)']_crypterVars

(* The crypter implements at-most-once delivery.                           *)
Abstract == INSTANCE AtMostOnce
AbstractSpec == Abstract!Spec
=============================================================================

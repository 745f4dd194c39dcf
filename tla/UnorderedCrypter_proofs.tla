----------------------- MODULE UnorderedCrypter_proofs -----------------------
(***************************************************************************)
(* Proofs about UnorderedCrypter for every window size, nonce limit and    *)
(* set of payloads.  NoReplay is not inductive: that a nonce the window    *)
(* accepts was never tried before follows only from WindowExact together   *)
(* with the fact that no nonce beyond furthest_read_nonce was ever tried.  *)
(***************************************************************************)
EXTENDS UnorderedCrypter, TLAPS

(* No nonce beyond the furthest one ever reached the AEAD.                 *)
TriedBelow == \A n \in tried : n <= furthest_read_nonce

(* Everything sent was sealed under a nonce already consumed.              *)
SentBelow == \A m \in sent : m.nonce < write_nonce

(* What was delivered was sent, and its nonce is recorded as tried.        *)
DeliveredTried ==
    \A i \in 1..Len(delivered) :
        delivered[i] \in sent /\ delivered[i].nonce \in tried

(* The inductive invariant.                                                *)
IInv ==
    /\ TypeOK
    /\ TriedBelow
    /\ SentBelow
    /\ DeliveredTried
    /\ BufferBounded
    /\ WindowExact
    /\ NonceUnique
    /\ NoReplay

-----------------------------------------------------------------------------
(* get_lowest_acceptable_read_nonce: at least 1, at most the furthest      *)
(* nonce once there is one, and it never moves back.                       *)
LEMMA LowestFacts ==
    ASSUME NEW f \in U32, NEW g \in U32, f <= g
    PROVE  /\ LowestAcceptable(f) \in Nat
           /\ 1 <= LowestAcceptable(f)
           /\ f > 0 => LowestAcceptable(f) <= f
           /\ f = 0 => LowestAcceptable(f) = 1
           /\ LowestAcceptable(f) <= LowestAcceptable(g)
  BY WindowAssumption, NonceAssumption DEF LowestAcceptable, U32

(* A nonce that the window accepts never reached the AEAD before.          *)
LEMMA FreshNonce ==
    ASSUME IInv, NEW n \in U32, BurnInWindow(n) \/ AdvanceWindow(n)
    PROVE  n \notin tried
<1>1. CASE BurnInWindow(n)
  <2>1. n \in LowestAcceptable(furthest_read_nonce)..furthest_read_nonce
    BY <1>1, LowestFacts, NonceAssumption DEF IInv, TypeOK, BurnInWindow, U32
  <2>. QED  BY <1>1, <2>1 DEF IInv, WindowExact, BurnInWindow
<1>2. CASE AdvanceWindow(n)
  BY <1>2, NonceAssumption DEF IInv, TypeOK, TriedBelow, AdvanceWindow, U32
<1>. QED  BY <1>1, <1>2

(* A sealed payload is a message under a nonce nobody used.                *)
LEMMA SealFresh ==
    ASSUME IInv, NEW d \in Plaintext, NonceAvailable(write_nonce)
    PROVE  /\ Seal(write_nonce, d) \in Message
           /\ Seal(write_nonce, d) \notin sent
           /\ Seal(write_nonce, d).nonce = write_nonce
           /\ write_nonce \in Nat
           /\ write_nonce + 1 \in 1..(MaxSequence + 1)
  BY NonceAssumption DEF IInv, TypeOK, SentBelow, Seal, Message, NonceAvailable

-----------------------------------------------------------------------------
(* A fresh pair has used no nonce and its window is empty.                 *)
LEMMA InitIInv == CrypterInit => IInv
  BY NonceAssumption, WindowAssumption
  DEF CrypterInit, IInv, TypeOK, TriedBelow, SentBelow, DeliveredTried, BufferBounded,
      WindowExact, NonceUnique, NoReplay, LowestAcceptable, U32

(* encrypt takes a nonce that no ciphertext has.                           *)
LEMMA EncryptIInv ==
    ASSUME IInv, NEW d \in Plaintext, Encrypt(d)
    PROVE  IInv'
<1>. DEFINE m == Seal(write_nonce, d)
<1>1. /\ m \in Message
      /\ m \notin sent
      /\ m.nonce = write_nonce
      /\ write_nonce \in Nat
      /\ write_nonce + 1 \in 1..(MaxSequence + 1)
  BY SealFresh DEF Encrypt
<1>2. /\ write_nonce' = write_nonce + 1
      /\ sent' = sent \cup {m} \/ sent' = sent
      /\ UNCHANGED <<furthest_read_nonce, buffered_read_nonces, delivered, tried>>
  BY DEF Encrypt
<1>. HIDE DEF m
<1>3. TypeOK'
  BY <1>1, <1>2 DEF IInv, TypeOK
<1>4. SentBelow' /\ NonceUnique'
  <2>1. \A x \in sent : x.nonce \in Nat
    BY NonceAssumption DEF IInv, TypeOK, Message
  <2>. QED  BY <1>1, <1>2, <2>1 DEF IInv, SentBelow, NonceUnique
<1>5. DeliveredTried' /\ NoReplay'
  BY <1>2 DEF IInv, DeliveredTried, NoReplay
<1>6. TriedBelow' /\ BufferBounded' /\ WindowExact'
  BY <1>2 DEF IInv, TriedBelow, BufferBounded, WindowExact, LowestAcceptable
<1>. QED  BY <1>3, <1>4, <1>5, <1>6 DEF IInv

(* The reader's window after either kind of update.                        *)
LEMMA WindowIInv ==
    ASSUME IInv, NEW n \in U32, BurnInWindow(n) \/ AdvanceWindow(n),
           tried' = tried \cup {n}
    PROVE  /\ furthest_read_nonce' \in U32
           /\ buffered_read_nonces' \subseteq U32
           /\ TriedBelow'
           /\ BufferBounded'
           /\ WindowExact'
<1>. USE NonceAssumption DEF U32
<1>1. CASE BurnInWindow(n)
  BY <1>1, LowestFacts
  DEF IInv, TypeOK, BurnInWindow, TriedBelow, BufferBounded, WindowExact,
      LowestAcceptable
<1>2. CASE AdvanceWindow(n)
  <2>1. /\ furthest_read_nonce \in U32
        /\ n > furthest_read_nonce
        /\ furthest_read_nonce' = n
        /\ buffered_read_nonces' =
             {k \in buffered_read_nonces : k >= LowestAcceptable(n)} \cup {n}
        /\ LowestAcceptable(furthest_read_nonce)' = LowestAcceptable(n)
    BY <1>2 DEF IInv, TypeOK, AdvanceWindow, LowestAcceptable
  <2>2. /\ LowestAcceptable(n) \in Nat
        /\ LowestAcceptable(n) <= n
        /\ LowestAcceptable(furthest_read_nonce) \in Nat
        /\ LowestAcceptable(furthest_read_nonce) <= LowestAcceptable(n)
    BY <2>1, LowestFacts
  <2>3. TriedBelow'
    BY <2>1 DEF IInv, TypeOK, TriedBelow
  <2>4. BufferBounded'
    <3>1. \A k \in buffered_read_nonces : k \in Nat /\ k <= furthest_read_nonce
      BY <2>1 DEF IInv, TypeOK, BufferBounded
    <3>2. buffered_read_nonces' \subseteq LowestAcceptable(n)..n
      BY <2>1, <2>2, <3>1
    <3>. QED  BY <2>1, <3>2 DEF BufferBounded
  <2>5. WindowExact'
    <3>. SUFFICES ASSUME NEW k \in LowestAcceptable(n)..n
                  PROVE  k \in buffered_read_nonces' <=> k \in tried'
      BY <2>1 DEF WindowExact
    <3>1. CASE k <= furthest_read_nonce
      <4>1. k \in LowestAcceptable(furthest_read_nonce)..furthest_read_nonce
        BY <2>1, <2>2, <3>1
      <4>2. k \in buffered_read_nonces <=> k \in tried
        BY <4>1 DEF IInv, WindowExact
      <4>. QED  BY <2>1, <2>2, <4>2
    <3>2. CASE k > furthest_read_nonce
      <4>1. k \notin tried /\ k \notin buffered_read_nonces
        BY <2>1, <2>2, <3>2 DEF IInv, TypeOK, TriedBelow, BufferBounded
      <4>. QED  BY <2>1, <4>1
    <3>. QED  BY <2>1, <2>2, <3>1, <3>2
  <2>. QED  BY <2>1, <2>3, <2>4, <2>5 DEF IInv, TypeOK
<1>. QED  BY <1>1, <1>2

(* decrypt accepts a nonce within its window and only once.                *)
LEMMA DecryptIInv ==
    ASSUME IInv, NEW n \in U32, NEW c \in sent \cup {Damaged}, Decrypt(n, c)
    PROVE  IInv'
<1>1. /\ BurnInWindow(n) \/ AdvanceWindow(n)
      /\ tried' = tried \cup {n}
      /\ UNCHANGED <<write_nonce, sent>>
      /\ \/ delivered' = delivered
         \/ Opens(n, c) /\ delivered' = Append(delivered, c)
  BY DEF Decrypt
<1>2. /\ furthest_read_nonce' \in U32
      /\ buffered_read_nonces' \subseteq U32
      /\ TriedBelow'
      /\ BufferBounded'
      /\ WindowExact'
  BY <1>1, WindowIInv
<1>3. n \notin tried
  BY <1>1, FreshNonce
<1>4. SentBelow' /\ NonceUnique'
  BY <1>1 DEF IInv, SentBelow, NonceUnique
<1>5. CASE delivered' = delivered
  <2>1. TypeOK'
    BY <1>1, <1>2, <1>5 DEF IInv, TypeOK
  <2>2. DeliveredTried' /\ NoReplay'
    BY <1>1, <1>5 DEF IInv, DeliveredTried, NoReplay
  <2>. QED  BY <1>2, <1>4, <2>1, <2>2 DEF IInv
<1>6. CASE Opens(n, c) /\ delivered' = Append(delivered, c)
  <2>1. c \in sent /\ c \in Message /\ c.nonce = n
    BY <1>6 DEF Opens, IInv, TypeOK
  <2>2. delivered \in Seq(Message) /\ sent \subseteq Message
    BY DEF IInv, TypeOK
  <2>3. TypeOK'
    BY <1>1, <1>2, <1>6, <2>1, <2>2 DEF IInv, TypeOK
  <2>4. /\ Len(delivered') = Len(delivered) + 1
        /\ Len(delivered) \in Nat
        /\ \A i \in 1..Len(delivered) : delivered'[i] = delivered[i]
        /\ delivered'[Len(delivered) + 1] = c
    BY <1>6, <2>1, <2>2
  <2>5. DeliveredTried'
    BY <1>1, <2>1, <2>4 DEF IInv, DeliveredTried
  <2>6. NoReplay'
    BY <1>3, <2>1, <2>4 DEF IInv, DeliveredTried, NoReplay
  <2>. QED  BY <1>2, <1>4, <2>3, <2>5, <2>6 DEF IInv
<1>. QED  BY <1>1, <1>5, <1>6

(* The inductive invariant holds of every behaviour of the crypter.        *)
THEOREM Invariance == CrypterSpec => []IInv
<1>1. IInv /\ [CrypterNext]_crypterVars => IInv'
  <2>. SUFFICES ASSUME IInv, [CrypterNext]_crypterVars PROVE IInv'
    OBVIOUS
  <2>1. CASE \E d \in Plaintext : Encrypt(d)
    BY <2>1, EncryptIInv
  <2>2. CASE \E n \in U32, c \in sent \cup {Damaged} : Decrypt(n, c)
    BY <2>2, DecryptIInv
  <2>3. CASE UNCHANGED crypterVars
    BY <2>3 DEF crypterVars, IInv, TypeOK, TriedBelow, SentBelow, DeliveredTried,
                BufferBounded, WindowExact, NonceUnique, NoReplay,
                LowestAcceptable
  <2>. QED  BY <2>1, <2>2, <2>3 DEF CrypterNext
<1>. QED  BY InitIInv, <1>1, PTL DEF CrypterSpec

(* Type correctness: in particular write_nonce never exceeds MAX_SEQUENCE  *)
(* + 1, so the u32 counter in next_nonce cannot wrap.                      *)
THEOREM TypeCorrect == CrypterSpec => []TypeOK
  BY Invariance, PTL DEF IInv

(* decrypt never returns the same message twice, for every window size and *)
(* every schedule of lost, duplicated, reordered and damaged messages.     *)
THEOREM ReplaySafety == CrypterSpec => []NoReplay
  BY Invariance, PTL DEF IInv

(* The buffered nonces are exactly the tried ones of the window, and never *)
(* anything outside it.                                                    *)
THEOREM WindowSafety == CrypterSpec => []WindowSound
<1>1. IInv => WindowSound
  BY DEF IInv, WindowSound
<1>. QED  BY Invariance, <1>1, PTL

(* encrypt never uses a nonce twice.                                       *)
THEOREM NonceSafety == CrypterSpec => []NonceUnique
  BY Invariance, PTL DEF IInv

(* What decrypt refuses once it refuses for ever.                          *)
THEOREM RefusalFinal == CrypterSpec => RefusalIsFinal
<1>1. IInv /\ [CrypterNext]_crypterVars =>
          [\A n \in U32 : NonceRefused(n) => NonceRefused(n)']_crypterVars
  <2>. SUFFICES ASSUME IInv, CrypterNext, NEW k \in U32, NonceRefused(k)
                PROVE  NonceRefused(k)'
    OBVIOUS
  <2>1. CASE \E d \in Plaintext : Encrypt(d)
    BY <2>1 DEF Encrypt, NonceRefused, LowestAcceptable
  <2>2. ASSUME NEW n \in U32, NEW c \in sent \cup {Damaged}, Decrypt(n, c)
        PROVE  NonceRefused(k)'
    <3>. USE NonceAssumption DEF U32
    <3>1. CASE BurnInWindow(n)
      BY <3>1 DEF BurnInWindow, NonceRefused, LowestAcceptable
    <3>2. CASE AdvanceWindow(n)
      <4>1. /\ furthest_read_nonce \in U32
            /\ furthest_read_nonce < n
            /\ furthest_read_nonce' = n
            /\ LowestAcceptable(furthest_read_nonce)' = LowestAcceptable(n)
        BY <3>2 DEF AdvanceWindow, LowestAcceptable, IInv, TypeOK
      <4>2. /\ LowestAcceptable(furthest_read_nonce) \in Nat
            /\ LowestAcceptable(n) \in Nat
            /\ LowestAcceptable(furthest_read_nonce) <= LowestAcceptable(n)
        BY <4>1, LowestFacts
      <4>. QED  BY <3>2, <4>1, <4>2 DEF AdvanceWindow, NonceRefused
    <3>. QED  BY <2>2, <3>1, <3>2 DEF Decrypt
  <2>. QED  BY <2>1, <2>2 DEF CrypterNext
<1>. QED  BY Invariance, <1>1, PTL DEF CrypterSpec, RefusalIsFinal

(* The crypter implements at-most-once delivery: every encrypt is a Send   *)
(* or a stutter, every decrypt a Deliver or a stutter.                     *)
THEOREM Refinement == CrypterSpec => AbstractSpec
<1>1. CrypterInit => Abstract!Init
  BY DEF CrypterInit, Abstract!Init
<1>2. IInv /\ [CrypterNext]_crypterVars => [Abstract!Next]_(Abstract!vars)
  <2>. SUFFICES ASSUME IInv, [CrypterNext]_crypterVars
                PROVE  Abstract!Next \/ UNCHANGED <<sent, delivered>>
    BY DEF Abstract!vars
  <2>1. ASSUME NEW d \in Plaintext, Encrypt(d)
        PROVE  Abstract!Next \/ UNCHANGED <<sent, delivered>>
    <3>1. NonceAvailable(write_nonce)
      BY <2>1 DEF Encrypt
    <3>2. CASE Sealable(d)
      <4>1. Abstract!Send(Seal(write_nonce, d))
        BY <2>1, <3>1, <3>2, SealFresh DEF Encrypt, Abstract!Send
      <4>. QED  BY <3>1, <4>1, SealFresh DEF Abstract!Next
    <3>3. CASE ~Sealable(d)
      BY <2>1, <3>3 DEF Encrypt
    <3>. QED  BY <3>2, <3>3
  <2>2. ASSUME NEW n \in U32, NEW c \in sent \cup {Damaged}, Decrypt(n, c)
        PROVE  Abstract!Next \/ UNCHANGED <<sent, delivered>>
    <3>1. CASE Opens(n, c)
      <4>1. c \in sent /\ c \in Message /\ c.nonce = n
        BY <3>1 DEF Opens, IInv, TypeOK
      <4>2. n \notin tried
        BY <2>2, FreshNonce DEF Decrypt
      <4>3. \A i \in 1..Len(delivered) : delivered[i] # c
        BY <4>1, <4>2 DEF IInv, DeliveredTried
      <4>4. Abstract!Deliver(c)
        BY <2>2, <3>1, <4>1, <4>3 DEF Decrypt, Abstract!Deliver
      <4>. QED  BY <4>1, <4>4 DEF Abstract!Next
    <3>2. CASE ~Opens(n, c)
      BY <2>2, <3>2 DEF Decrypt
    <3>. QED  BY <3>1, <3>2
  <2>3. CASE UNCHANGED crypterVars
    BY <2>3 DEF crypterVars
  <2>. QED  BY <2>1, <2>2, <2>3 DEF CrypterNext
<1>. QED  BY Invariance, <1>1, <1>2, PTL DEF CrypterSpec, AbstractSpec, Abstract!Spec
=============================================================================

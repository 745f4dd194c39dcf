-------------------------- MODULE Transport_proofs --------------------------
(***************************************************************************)
(* Proofs about two ways to carry messages, which share nothing: the       *)
(* ordered crypter and a pair of proxies.                                  *)
(*                                                                         *)
(* OrderedCrypter, for every nonce limit and set of payloads.  The         *)
(* strengthening is that everything delivered carries a nonce below        *)
(* read_nonce, and everything sent one below write_nonce.                  *)
(*                                                                         *)
(* OakProxy, for any number of chunks, pings and messages in transit,      *)
(* whatever breaks: the tunnel is faithful and the two loops never take    *)
(* each other's messages for a violation of the protocol.  The invariant   *)
(* is stated about values, not variables: s and r are the local variables  *)
(* of a sending and a receiving loop, a and b their applications, w the    *)
(* messages on their way from s to r.                                      *)
(***************************************************************************)
EXTENDS OrderedCrypter, OakProxy, SequenceTheorems, TLAPS

(* Everything sent was sealed under a nonce already consumed.              *)
SentBelow == \A m \in sent : m.nonce < write_nonce

(* What was delivered was sent, under a nonce decrypt already consumed.    *)
DeliveredBelow ==
    \A i \in 1..Len(delivered) :
        delivered[i] \in sent /\ delivered[i].nonce < read_nonce

(* The inductive invariant.                                                *)
IInv ==
    /\ TypeOK
    /\ SentBelow
    /\ DeliveredBelow
    /\ InOrder
    /\ NoSilentGap
    /\ PrefixUntilFailure
    /\ NonceUnique

-----------------------------------------------------------------------------
(* A sealed payload is a message under a nonce nobody used.                *)
LEMMA SealFresh ==
    ASSUME IInv, NEW d \in Plaintext, NonceAvailable(write_nonce)
    PROVE  /\ Seal(write_nonce, d) \in Message
           /\ Seal(write_nonce, d) \notin sent
           /\ Seal(write_nonce, d).nonce = write_nonce
           /\ write_nonce \in Nat
           /\ write_nonce + 1 \in 0..(MaxSequence + 1)
  BY NonceAssumption DEF IInv, TypeOK, SentBelow, Seal, Message, NonceAvailable

(* A fresh pair of crypters has used no nonce.                             *)
LEMMA InitIInv == Init => IInv
  BY NonceAssumption
  DEF Init, IInv, TypeOK, SentBelow, DeliveredBelow, InOrder, NoSilentGap,
      PrefixUntilFailure, NonceUnique

(* encrypt takes the next nonce of its direction.                          *)
LEMMA EncryptIInv ==
    ASSUME IInv, NEW d \in Plaintext, Encrypt(d)
    PROVE  IInv'
<1>. DEFINE m == Seal(write_nonce, d)
<1>1. /\ m \in Message
      /\ m \notin sent
      /\ m.nonce = write_nonce
      /\ write_nonce \in Nat
      /\ write_nonce + 1 \in 0..(MaxSequence + 1)
  BY SealFresh DEF Encrypt
<1>2. /\ write_nonce' = write_nonce + 1
      /\ sent' = sent \cup {m} \/ sent' = sent
      /\ UNCHANGED <<read_nonce, delivered, failed>>
  BY DEF Encrypt
<1>. HIDE DEF m
<1>3. TypeOK'
  BY <1>1, <1>2 DEF IInv, TypeOK
<1>4. SentBelow' /\ NonceUnique'
  <2>1. \A x \in sent : x.nonce \in Nat
    BY NonceAssumption DEF IInv, TypeOK, Message
  <2>. QED  BY <1>1, <1>2, <2>1 DEF IInv, SentBelow, NonceUnique
<1>5. DeliveredBelow' /\ InOrder' /\ NoSilentGap' /\ PrefixUntilFailure'
  BY <1>2
  DEF IInv, DeliveredBelow, InOrder, NoSilentGap, PrefixUntilFailure
<1>. QED  BY <1>3, <1>4, <1>5 DEF IInv

(* decrypt accepts the next nonce of its direction and no other.           *)
LEMMA DecryptIInv ==
    ASSUME IInv, NEW c \in sent \cup {Damaged}, Decrypt(c)
    PROVE  IInv'
<1>. USE NonceAssumption
<1>1. /\ read_nonce \in 0..MaxSequence
      /\ read_nonce' = read_nonce + 1
      /\ read_nonce' \in 0..(MaxSequence + 1)
      /\ UNCHANGED <<write_nonce, sent>>
  BY DEF Decrypt, NonceAvailable, IInv, TypeOK
<1>2. SentBelow' /\ NonceUnique'
  BY <1>1 DEF IInv, SentBelow, NonceUnique
<1>3. delivered \in Seq(Message) /\ sent \subseteq Message
  BY DEF IInv, TypeOK
<1>4. \A i \in 1..Len(delivered) :
        /\ delivered[i] \in sent
        /\ delivered[i].nonce \in Nat
        /\ delivered[i].nonce < read_nonce
  BY <1>3 DEF IInv, DeliveredBelow, Message
<1>5. CASE Opens(read_nonce, c)
  <2>1. /\ delivered' = Append(delivered, c)
        /\ failed' = failed
    BY <1>5 DEF Decrypt
  <2>2. c \in sent /\ c \in Message /\ c.nonce = read_nonce
    BY <1>3, <1>5 DEF Opens
  <2>3. TypeOK'
    BY <1>1, <1>3, <2>1, <2>2 DEF IInv, TypeOK
  <2>4. /\ Len(delivered') = Len(delivered) + 1
        /\ Len(delivered) \in Nat
        /\ \A i \in 1..Len(delivered) : delivered'[i] = delivered[i]
        /\ delivered'[Len(delivered) + 1] = c
    BY <1>3, <2>1, <2>2
  <2>5. DeliveredBelow'
    BY <1>1, <1>4, <2>2, <2>4 DEF DeliveredBelow
  <2>6. InOrder'
    BY <1>4, <2>2, <2>4 DEF IInv, InOrder
  <2>7. NoSilentGap'
    <3>. SUFFICES ASSUME NEW n \in 0..MaxSequence, n < read_nonce'
                  PROVE  \/ n \in failed'
                         \/ \E i \in 1..Len(delivered') : delivered'[i].nonce = n
      BY DEF NoSilentGap
    <3>1. CASE n = read_nonce
      BY <2>2, <2>4, <3>1
    <3>2. CASE n < read_nonce
      BY <2>1, <2>4, <3>2 DEF IInv, NoSilentGap
    <3>. QED  BY <1>1, <3>1, <3>2
  <2>8. PrefixUntilFailure'
    BY <1>1, <2>1, <2>2, <2>4 DEF IInv, PrefixUntilFailure
  <2>. QED  BY <1>2, <2>3, <2>5, <2>6, <2>7, <2>8 DEF IInv
<1>6. CASE ~Opens(read_nonce, c)
  <2>1. /\ failed' = failed \cup {read_nonce}
        /\ delivered' = delivered
    BY <1>6 DEF Decrypt
  <2>2. TypeOK'
    BY <1>1, <2>1 DEF IInv, TypeOK
  <2>3. DeliveredBelow' /\ InOrder'
    BY <1>1, <1>4, <2>1 DEF IInv, DeliveredBelow, InOrder
  <2>4. NoSilentGap' /\ PrefixUntilFailure'
    BY <1>1, <2>1 DEF IInv, NoSilentGap, PrefixUntilFailure
  <2>. QED  BY <1>2, <2>2, <2>3, <2>4 DEF IInv
<1>. QED  BY <1>5, <1>6

(* The inductive invariant holds of every behaviour of the crypter.        *)
THEOREM Invariance == Spec => []IInv
<1>1. IInv /\ [Next]_vars => IInv'
  <2>. SUFFICES ASSUME IInv, [Next]_vars PROVE IInv'
    OBVIOUS
  <2>1. CASE \E d \in Plaintext : Encrypt(d)
    BY <2>1, EncryptIInv
  <2>2. CASE \E c \in sent \cup {Damaged} : Decrypt(c)
    BY <2>2, DecryptIInv
  <2>3. CASE UNCHANGED vars
    BY <2>3 DEF vars, IInv, TypeOK, SentBelow, DeliveredBelow, InOrder,
                NoSilentGap, PrefixUntilFailure, NonceUnique
  <2>. QED  BY <2>1, <2>2, <2>3 DEF Next
<1>. QED  BY InitIInv, <1>1, PTL DEF Spec

(* Type correctness: neither u32 counter passes MAX_SEQUENCE + 1.          *)
THEOREM TypeCorrect == Spec => []TypeOK
  BY Invariance, PTL DEF IInv

(* decrypt returns messages in the order encrypt sealed them, none twice;  *)
(* a gap in what was delivered is always one that decrypt reported, and    *)
(* before the first report the reader holds an exact prefix.               *)
THEOREM DeliverySafety == Spec => []FaithfulDelivery
<1>1. IInv => FaithfulDelivery
  BY DEF IInv, FaithfulDelivery
<1>. QED  BY Invariance, <1>1, PTL

(* encrypt never uses a nonce twice.                                       *)
THEOREM NonceSafety == Spec => []NonceUnique
  BY Invariance, PTL DEF IInv

(* The crypter implements at-most-once delivery.                           *)
THEOREM Refinement == Spec => AbstractSpec
<1>1. Init => Abstract!Init
  BY DEF Init, Abstract!Init
<1>2. IInv /\ [Next]_vars => [Abstract!Next]_(Abstract!vars)
  <2>. SUFFICES ASSUME IInv, [Next]_vars
                PROVE  Abstract!Next \/ UNCHANGED <<sent, delivered>>
    BY DEF Abstract!vars
  <2>1. ASSUME NEW d \in Plaintext, Encrypt(d)
        PROVE  Abstract!Next \/ UNCHANGED <<sent, delivered>>
    <3>1. NonceAvailable(write_nonce)
      BY <2>1 DEF Encrypt
    <3>2. CASE Sealable(d)
      <4>1. Abstract!Send(Seal(write_nonce, d))
        BY <2>1, <3>1, <3>2, SealFresh DEF Encrypt, Abstract!Send
      <4>. QED  BY <3>1, <4>1, SealFresh DEF Abstract!Next
    <3>3. CASE ~Sealable(d)
      BY <2>1, <3>3 DEF Encrypt
    <3>. QED  BY <3>2, <3>3
  <2>2. ASSUME NEW c \in sent \cup {Damaged}, Decrypt(c)
        PROVE  Abstract!Next \/ UNCHANGED <<sent, delivered>>
    <3>1. CASE Opens(read_nonce, c)
      <4>1. c \in sent /\ c \in Message /\ c.nonce = read_nonce
        BY <3>1 DEF Opens, IInv, TypeOK
      <4>2. \A i \in 1..Len(delivered) : delivered[i] # c
        BY <4>1, NonceAssumption DEF IInv, TypeOK, DeliveredBelow
      <4>3. Abstract!Deliver(c)
        BY <2>2, <3>1, <4>1, <4>2 DEF Decrypt, Abstract!Deliver
      <4>. QED  BY <4>1, <4>3 DEF Abstract!Next
    <3>2. CASE ~Opens(read_nonce, c)
      BY <2>2, <3>2 DEF Decrypt
    <3>. QED  BY <3>1, <3>2
  <2>3. CASE UNCHANGED vars
    BY <2>3 DEF vars
  <2>. QED  BY <2>1, <2>2, <2>3 DEF Next
<1>. QED  BY Invariance, <1>1, <1>2, PTL DEF Spec, AbstractSpec, Abstract!Spec

-----------------------------------------------------------------------------
(* Proxies.                                                                *)
Messages ==
    [type : {"Binary"}, chunk : Nat] \cup [type : {"Ping", "Pong"}, payload : PingPayloads]
        \cup [type : {"Close"}]
Loops ==
    [at : {"setup", "select", "send", "write", "done", "failed"}, out : Messages, in : Nat,
     ping_queue : Seq(PingPayloads), application_done : BOOLEAN, peer_done : BOOLEAN]
Applications ==
    [state : {"open", "closed", "reset"}, written : Nat, read : Nat, got : Seq(Nat),
     eof : BOOLEAN]

Data(m) == m.type = "Binary" /\ m.chunk # 0
Half(m) == m.type = "Binary" /\ m.chunk = 0
Over(s) == s.at \in {"done", "failed", "protocol_error"}
SendsData(s) == s.at = "send" /\ Data(s.out)
SendsHalf(s) == s.at = "send" /\ Half(s.out)
WritesData(r) == r.at = "write" /\ r.in # 0

(* One loop and its application.                                           *)
LoopOK(s, a) ==
    /\ s \in Loops /\ a \in Applications
    /\ s.at = "setup" => ~s.application_done
    /\ s.at = "select" => ~(s.application_done /\ s.peer_done)
    /\ s.at = "send" /\ s.out.type = "Close" => s.application_done /\ s.peer_done
    /\ SendsHalf(s) => s.application_done
    /\ SendsData(s) => ~s.application_done /\ s.out.chunk = a.read
    /\ s.at = "write" => (s.in = 0 <=> s.peer_done)
    /\ s.application_done => a.state # "open" /\ a.read = a.written
    /\ a.read <= a.written
    /\ \A i \in 1..Len(a.got) : a.got[i] = i
    /\ a.eof /\ ~Over(s) => s.peer_done

(* The half-close is the last of s's data, is sent once, and precedes its  *)
(* Close; Close is sent when both directions are done.                     *)
HasHalf(w) == \E i \in 1..Len(w) : Half(w[i])
ClosingOK(s, r, a, lost, w) ==
    /\ Over(r) => w = << >>
    /\ r.peer_done => \A i \in 1..Len(w) : w[i].type # "Binary"
    /\ \A i, j \in 1..Len(w) : i < j /\ Half(w[i]) => w[j].type # "Binary"
    /\ r.peer_done \/ HasHalf(w) =>
          /\ a.state # "open" /\ a.read = a.written
          /\ Over(s) \/ (s.application_done /\ ~SendsHalf(s))
    /\ \A i \in 1..Len(w) : w[i].type = "Close" =>
          /\ r.application_done
          /\ r.peer_done \/ \E j \in 1..Len(w) : j < i /\ Half(w[j])
    /\ ~lost /\ ~Over(s) /\ ~Over(r) /\ s.application_done /\ ~SendsHalf(s) =>
          r.peer_done \/ HasHalf(w)

(* The chunks on their way continue what the application got, without gaps:*)
(* base is the last one that left w.                                       *)
Base(r, b) == Len(b.got) + (IF WritesData(r) THEN 1 ELSE 0)
HasChunk(w, n, c) == \E j \in 1..Len(w) : j < n /\ Data(w[j]) /\ w[j].chunk = c
Unsent(s, a) == IF SendsData(s) THEN a.read - 1 ELSE a.read
Consecutive(w, base) ==
    /\ \A i \in 1..Len(w) : Data(w[i]) =>
          /\ w[i].chunk > base
          /\ w[i].chunk = base + 1 \/ HasChunk(w, i, w[i].chunk - 1)
    /\ \A i, j \in 1..Len(w) : i < j /\ Data(w[i]) /\ Data(w[j]) => w[i].chunk < w[j].chunk
ChunksOK(s, r, a, b, lost, w) ==
    LET base == Base(r, b)
    IN  /\ base <= a.read
        /\ WritesData(r) => r.in = base
        /\ Consecutive(w, base)
        /\ \A i \in 1..Len(w) : Data(w[i]) => w[i].chunk <= Unsent(s, a)
        /\ \A i \in 1..Len(w) : Half(w[i]) => a.written = base \/ HasChunk(w, i, a.written)
        /\ r.peer_done => base = a.written
        /\ ~lost /\ ~Over(s) /\ ~Over(r) =>
              Unsent(s, a) = base \/ HasChunk(w, Len(w) + 1, Unsent(s, a))

(* The direction from s to r.  What an application that was reset would    *)
(* have got no longer matters.                                             *)
FlowOK(s, r, a, b, lost, w) ==
    /\ w \in Seq(Messages)
    /\ ClosingOK(s, r, a, lost, w)
    /\ Len(b.got) <= a.read
    /\ b.eof => a.state # "open" /\ (b.state = "reset" \/ Len(b.got) = a.written)
    /\ b.state # "reset" => ChunksOK(s, r, a, b, lost, w)

(* s has at most one ping that was not answered, which is about to be sent,*)
(* on its way in w, about to be answered by r, or answered in v.           *)
SendsPing(s) == s.at = "send" /\ s.out.type = "Ping"
SendsPong(r) == r.at = "send" /\ r.out.type = "Pong"
At(w, type) == {i \in 1..Len(w) : w[i].type = type}
PingOK(s, r, w, v) ==
    ~Over(s) =>
        /\ s.ping_queue = << >> \/ \E x \in PingPayloads : s.ping_queue = <<x>>
        /\ SendsPing(s) => /\ s.ping_queue = <<s.out.payload>>
                           /\ At(w, "Ping") = {} /\ ~SendsPong(r) /\ At(v, "Pong") = {}
        /\ \A i \in At(w, "Ping") : /\ s.ping_queue = <<w[i].payload>>
                                    /\ ~SendsPong(r) /\ At(v, "Pong") = {}
                                    /\ \A j \in At(w, "Ping") : i = j
        /\ SendsPong(r) => s.ping_queue = <<r.out.payload>> /\ At(v, "Pong") = {}
        /\ \A i \in At(v, "Pong") : /\ s.ping_queue = <<v[i].payload>>
                                    /\ \A j \in At(v, "Pong") : i = j

(* The inductive invariant, with the two loops and their state seen from   *)
(* either end.                                                             *)
PairOK(s, r, a, b, lost, w, v) ==
    /\ LoopOK(s, a) /\ LoopOK(r, b) /\ lost \in BOOLEAN
    /\ FlowOK(s, r, a, b, lost, w) /\ FlowOK(r, s, b, a, lost, v)
    /\ PingOK(s, r, w, v) /\ PingOK(r, s, v, w)
Two(p, x, y) == [e \in Ends |-> IF e = p THEN x ELSE y]
Are(p, s, r, a, b, lost, w, v) ==
    /\ proxy = Two(p, s, r) /\ app = Two(p, a, b) /\ wire = Two(p, w, v) /\ broken = lost
ProxyInv ==
    /\ proxy = [e \in Ends |-> proxy[e]]
    /\ app = [e \in Ends |-> app[e]]
    /\ wire = [e \in Ends |-> wire[e]]
    /\ PairOK(proxy["Client"], proxy["Server"], app["Client"], app["Server"], broken,
              wire["Client"], wire["Server"])

-----------------------------------------------------------------------------
(* Messages.                                                               *)
LEMMA MessageKinds ==
    ASSUME NEW m \in Messages
    PROVE  /\ m.type \in {"Binary", "Ping", "Pong", "Close"}
           /\ m.type = "Binary" => m.chunk \in Nat /\ m = Binary(m.chunk)
           /\ m.type = "Ping" => m.payload \in PingPayloads /\ m = Ping(m.payload)
           /\ m.type = "Pong" => m.payload \in PingPayloads /\ m = Pong(m.payload)
           /\ m.type = "Close" <=> m = Close
           /\ Half(m) <=> m = HalfClose
<1>1. CASE m \in [type : {"Binary"}, chunk : Nat]
  <2>1. m.type = "Binary" /\ m.chunk \in Nat /\ m = [type |-> "Binary", chunk |-> m.chunk]
    BY <1>1
  <2>2. Close.type = "Close" /\ HalfClose.type = "Binary" /\ HalfClose.chunk = 0
    BY DEF Close, HalfClose
  <2>3. m # Close
    BY <2>1, <2>2
  <2>4. m.chunk = 0 => m = HalfClose
    BY <2>1 DEF HalfClose
  <2>. QED  BY <2>1, <2>2, <2>3, <2>4 DEF Binary, Half
<1>2. CASE m \in [type : {"Ping", "Pong"}, payload : PingPayloads]
  <2>1. /\ m.type \in {"Ping", "Pong"} /\ m.payload \in PingPayloads
        /\ m = [type |-> m.type, payload |-> m.payload]
    BY <1>2
  <2>2. Close.type = "Close" /\ HalfClose.type = "Binary"
    BY DEF Close, HalfClose
  <2>3. m # Close /\ m # HalfClose
    BY <2>1, <2>2
  <2>. QED  BY <2>1, <2>2, <2>3 DEF Ping, Pong, Half
<1>3. CASE m \in [type : {"Close"}]
  <2>1. m.type = "Close" /\ m = [type |-> "Close"]
    BY <1>3
  <2>2. HalfClose.type = "Binary"
    BY DEF HalfClose
  <2>3. m # HalfClose
    BY <2>1, <2>2
  <2>. QED  BY <2>1, <2>2, <2>3 DEF Close, Half
<1>. QED  BY <1>1, <1>2, <1>3 DEF Messages

(* The messages that the proxies send.                                     *)
LEMMA MessagesMade ==
    /\ Close \in Messages /\ Close.type = "Close"
    /\ HalfClose \in Messages /\ HalfClose.type = "Binary" /\ HalfClose.chunk = 0
    /\ \A c \in Nat : /\ Binary(c) \in Messages /\ Binary(c).type = "Binary"
                      /\ Binary(c).chunk = c
    /\ \A x \in PingPayloads : /\ Ping(x) \in Messages /\ Ping(x).type = "Ping"
                               /\ Ping(x).payload = x
                               /\ Pong(x) \in Messages /\ Pong(x).type = "Pong"
                               /\ Pong(x).payload = x
<1>1. Close \in Messages /\ Close.type = "Close"
  BY DEF Close, Messages
<1>2. HalfClose \in Messages /\ HalfClose.type = "Binary" /\ HalfClose.chunk = 0
  BY DEF HalfClose, Messages
<1>3. ASSUME NEW c \in Nat
      PROVE  Binary(c) \in Messages /\ Binary(c).type = "Binary" /\ Binary(c).chunk = c
  BY DEF Binary, Messages
<1>4. ASSUME NEW x \in PingPayloads
      PROVE  /\ Ping(x) \in Messages /\ Ping(x).type = "Ping" /\ Ping(x).payload = x
             /\ Pong(x) \in Messages /\ Pong(x).type = "Pong" /\ Pong(x).payload = x
  BY DEF Ping, Pong, Messages
<1>. QED  BY <1>1, <1>2, <1>3, <1>4

(* There are two ends.                                                     *)
LEMMA Ends2 ==
    ASSUME NEW p \in Ends
    PROVE  /\ Other(p) \in Ends /\ Other(p) # p /\ Other(Other(p)) = p
           /\ \A q \in Ends : q = p \/ q = Other(p)
  BY DEF Ends, Other

(* The fields of a loop's and an application's variables after the changes *)
(* that the arms make.                                                     *)
LEMMA LoopTopFields ==
    ASSUME NEW s \in Loops
    PROVE  LET t == LoopTop(s)
           IN  /\ t \in Loops /\ t.application_done = s.application_done
               /\ t.peer_done = s.peer_done /\ t.ping_queue = s.ping_queue
               /\ s.application_done /\ s.peer_done => t.at = "send" /\ t.out = Close
               /\ ~(s.application_done /\ s.peer_done) => t.at = "select"
  BY MessagesMade DEF LoopTop, Loops

-----------------------------------------------------------------------------
(* One direction, seen from its two ends: what a flow depends on.          *)
LEMMA SenderSame ==
    ASSUME NEW s, NEW t, NEW r, NEW a, NEW c, NEW b, NEW lost, NEW w, FlowOK(s, r, a, b, lost, w),
           Over(t) <=> Over(s), t.application_done = s.application_done,
           SendsHalf(t) <=> SendsHalf(s), SendsData(t) <=> SendsData(s),
           c.read = a.read, c.written = a.written, a.state # "open" => c.state # "open"
    PROVE  FlowOK(t, r, c, b, lost, w)
<1>1. Unsent(t, c) = Unsent(s, a)
  BY DEF Unsent
<1>2. ClosingOK(t, r, c, lost, w)
  BY DEF FlowOK, ClosingOK
<1>3. ChunksOK(s, r, a, b, lost, w) => ChunksOK(t, r, c, b, lost, w)
  BY <1>1 DEF ChunksOK
<1>. QED  BY <1>2, <1>3 DEF FlowOK

(* A flow does not see what its receiver does elsewhere.                   *)
LEMMA ReceiverSame ==
    ASSUME NEW s, NEW r, NEW t, NEW a, NEW b, NEW c, NEW lost, NEW w, FlowOK(s, r, a, b, lost, w),
           Over(t) <=> Over(r), t.peer_done = r.peer_done,
           r.application_done => t.application_done,
           WritesData(t) <=> WritesData(r), WritesData(r) => t.in = r.in,
           c.got = b.got, c.eof = b.eof, b.state = "reset" => c.state = "reset"
    PROVE  FlowOK(s, t, a, c, lost, w)
<1>1. Base(t, c) = Base(r, b)
  BY DEF Base
<1>2. ClosingOK(s, t, a, lost, w)
  BY DEF FlowOK, ClosingOK
<1>3. ChunksOK(s, r, a, b, lost, w) => ChunksOK(s, t, a, c, lost, w)
  BY <1>1 DEF ChunksOK
<1>. QED  BY <1>2, <1>3 DEF FlowOK

(* Messages at the end are lost, and no more are sent.                     *)
Prefix(u, w) == u \in Seq(Messages) /\ Len(u) <= Len(w) /\ \A i \in 1..Len(u) : u[i] = w[i]

(* The first messages of a wire are a prefix of it.                        *)
LEMMA SubSeqPrefix ==
    ASSUME NEW w \in Seq(Messages), NEW k \in 0..Len(w) PROVE Prefix(SubSeq(w, 1, k), w)
<1>1. Len(w) \in Nat /\ k \in Nat /\ k <= Len(w) /\ \A i \in 1..k : w[i] \in Messages
  OBVIOUS
<1>. DEFINE u == SubSeq(w, 1, k)
<1>2. /\ u \in Seq(Messages) /\ Len(u) = (IF 1 <= k THEN k - 1 + 1 ELSE 0)
      /\ \A i \in 1..(k - 1 + 1) : u[i] = w[1 + i - 1]
  BY <1>1, SubSeqProperties
<1>. HIDE DEF u
<1>3. Len(u) = k
  BY <1>1, <1>2
<1>4. \A i \in 1..Len(u) : u[i] = w[i]
  <2>1. k - 1 + 1 = k /\ \A i \in 1..k : 1 + i - 1 = i
    BY <1>1
  <2>. QED  BY <1>2, <1>3, <2>1
<1>. QED  BY <1>1, <1>2, <1>3, <1>4 DEF Prefix, u

(* Messages at the end of a wire are lost only with the connection.        *)
LEMMA FlowTruncated ==
    ASSUME NEW s, NEW t, NEW r, NEW a \in Applications, NEW b, NEW lost, NEW lost2, NEW w, NEW u,
           FlowOK(s, r, a, b, lost, w), Prefix(u, w),
           (Over(t) /\ ~SendsData(t)) \/ (t = s /\ lost2)
    PROVE  FlowOK(t, r, a, b, lost2, u)
<1>1. /\ w \in Seq(Messages) /\ u \in Seq(Messages) /\ Len(w) \in Nat /\ Len(u) \in Nat
      /\ \A i \in 1..Len(u) : i \in 1..Len(w) /\ u[i] = w[i]
  BY DEF FlowOK, Prefix
<1>2. HasHalf(u) => HasHalf(w)
  BY <1>1 DEF HasHalf
<1>3. ASSUME NEW i \in 1..Len(u), NEW j \in 1..Len(w), j < i PROVE j \in 1..Len(u) /\ u[j] = w[j]
  BY <1>1, <1>3
<1>4. ASSUME NEW i \in 1..Len(u), NEW n, HasChunk(w, i, n) PROVE HasChunk(u, i, n)
  BY <1>3, <1>4 DEF HasChunk
<1>5. ClosingOK(t, r, a, lost2, u)
  <2>1. Over(r) => u = << >>
    <3>1. Over(r) => Len(w) = 0
      BY DEF FlowOK, ClosingOK
    <3>2. Len(w) = 0 => Len(u) = 0
      BY <1>1 DEF Prefix
    <3>3. Len(u) = 0 => u = << >>
      BY <1>1, EmptySeq
    <3>. QED  BY <3>1, <3>2, <3>3
  <2>2. /\ r.peer_done => \A i \in 1..Len(u) : u[i].type # "Binary"
        /\ \A i, j \in 1..Len(u) : i < j /\ Half(u[i]) => u[j].type # "Binary"
    BY <1>1 DEF FlowOK, ClosingOK
  <2>3. r.peer_done \/ HasHalf(u) =>
          /\ a.state # "open" /\ a.read = a.written
          /\ Over(t) \/ (t.application_done /\ ~SendsHalf(t))
    BY <1>2 DEF FlowOK, ClosingOK
  <2>4. ASSUME NEW i \in 1..Len(u), u[i].type = "Close"
        PROVE  r.application_done /\ (r.peer_done \/ \E j \in 1..Len(u) : j < i /\ Half(u[j]))
    <3>1. r.application_done /\ (r.peer_done \/ \E j \in 1..Len(w) : j < i /\ Half(w[j]))
      BY <1>1, <2>4 DEF FlowOK, ClosingOK
    <3>. QED  BY <1>3, <3>1
  <2>. QED  BY <2>1, <2>2, <2>3, <2>4 DEF ClosingOK
<1>6. ASSUME ChunksOK(s, r, a, b, lost, w) PROVE ChunksOK(t, r, a, b, lost2, u)
  <2>. DEFINE base == Base(r, b)
  <2>1. /\ base <= a.read /\ (WritesData(r) => r.in = base) /\ Consecutive(w, base)
        /\ \A i \in 1..Len(w) : Data(w[i]) => w[i].chunk <= Unsent(s, a)
        /\ \A i \in 1..Len(w) : Half(w[i]) => a.written = base \/ HasChunk(w, i, a.written)
        /\ r.peer_done => base = a.written
    BY <1>6 DEF ChunksOK
  <2>. HIDE DEF base
  <2>2. Consecutive(u, base)
    BY <1>1, <1>4, <2>1 DEF Consecutive
  <2>3. \A i \in 1..Len(u) : Data(u[i]) => u[i].chunk <= Unsent(t, a)
    <3>1. ASSUME NEW i \in 1..Len(u), Data(u[i]) PROVE u[i].chunk <= Unsent(t, a)
      <4>1. u[i].chunk <= Unsent(s, a) /\ u[i].chunk \in Nat /\ a.read \in Nat
        BY <1>1, <2>1, <3>1, MessageKinds DEF Data, Applications
      <4>. QED  BY <4>1 DEF Unsent
    <3>. QED  BY <3>1
  <2>4. \A i \in 1..Len(u) : Half(u[i]) => a.written = base \/ HasChunk(u, i, a.written)
    BY <1>1, <1>4, <2>1
  <2>5. ~lost2 /\ ~Over(t) /\ ~Over(r) => FALSE
    OBVIOUS
  <2>. QED  BY <2>1, <2>2, <2>3, <2>4, <2>5 DEF ChunksOK, base
<1>. QED  BY <1>1, <1>5, <1>6 DEF FlowOK

(* The receiver returns.                                                   *)
LEMMA ReceiverReturns ==
    ASSUME NEW s, NEW r, NEW t, NEW a \in Applications, NEW b \in Applications, NEW lost, NEW w,
           FlowOK(s, r, a, b, lost, w), Over(t), ~t.peer_done
    PROVE  FlowOK(s, t, a, b, lost, << >>)
<1>1. Len(<< >>) = 0 /\ << >> \in Seq(Messages) /\ \A i \in 1..0 : FALSE
  OBVIOUS
<1>2. ClosingOK(s, t, a, lost, << >>)
  BY <1>1 DEF ClosingOK, HasHalf
<1>3. ChunksOK(s, t, a, b, lost, << >>)
  <2>1. ~WritesData(t) /\ Base(t, b) = Len(b.got)
    BY DEF Over, WritesData, Base, Applications
  <2>. QED  BY <1>1, <2>1 DEF ChunksOK, FlowOK, Consecutive
<1>. QED  BY <1>1, <1>2, <1>3 DEF FlowOK
(* The sender sends a message, and does not send data next.                *)
LEMMA Appended ==
    ASSUME NEW w \in Seq(Messages), NEW m \in Messages
    PROVE  /\ Append(w, m) \in Seq(Messages) /\ Len(Append(w, m)) = Len(w) + 1
           /\ Len(w) \in Nat /\ Len(w) + 1 \in 1..Len(Append(w, m))
           /\ \A i \in 1..Len(w) : i \in 1..Len(Append(w, m)) /\ Append(w, m)[i] = w[i]
           /\ Append(w, m)[Len(w) + 1] = m
           /\ \A i \in 1..Len(Append(w, m)) : i \in 1..Len(w) \/ i = Len(w) + 1
<1>1. Len(w) \in Nat
  OBVIOUS
<1>2. /\ Append(w, m) \in Seq(Messages) /\ Len(Append(w, m)) = Len(w) + 1
      /\ \A i \in 1..Len(w) : Append(w, m)[i] = w[i]
      /\ Append(w, m)[Len(w) + 1] = m
  BY AppendProperties
<1>. QED  BY <1>1, <1>2

(* A flow when its sender sends.                                           *)
LEMMA SendFlow ==
    ASSUME NEW s, NEW t, NEW r, NEW a, NEW b \in Applications, NEW lost, NEW w, NEW v,
           LoopOK(s, a), FlowOK(s, r, a, b, lost, w), FlowOK(r, s, b, a, lost, v),
           s.at = "send", ~lost, ~Over(r), ~Over(t),
           t.application_done = s.application_done, ~SendsData(t), ~SendsHalf(t)
    PROVE  FlowOK(t, r, a, b, lost, Append(w, s.out))
<1>1. PICK m \in Messages : m = s.out
  BY DEF LoopOK, Loops
<1>2. w \in Seq(Messages)
  BY DEF FlowOK
<1>3. PICK u : u = Append(w, m)
  OBVIOUS
<1>4. PICK n \in Nat : n = Len(w)
  BY <1>2
<1>5. /\ u \in Seq(Messages) /\ Len(u) = n + 1 /\ u[n + 1] = m /\ n + 1 \in 1..Len(u)
      /\ \A i \in 1..n : i \in 1..Len(u) /\ u[i] = w[i]
      /\ \A i \in 1..Len(u) : i \in 1..n \/ i = n + 1
  BY <1>2, <1>3, <1>4, Appended
<1>6. /\ SendsData(s) <=> Data(m)
      /\ SendsHalf(s) <=> Half(m)
      /\ m.type = "Binary" => Data(m) \/ Half(m)
      /\ ~Over(s)
  BY <1>1 DEF SendsData, SendsHalf, Data, Half, Over
<1>7. /\ m.type = "Close" => s.application_done /\ s.peer_done
      /\ Half(m) => s.application_done
      /\ Data(m) => ~s.application_done /\ m.chunk = a.read
      /\ s.application_done => a.state # "open" /\ a.read = a.written
      /\ a.read \in Nat /\ a.written \in Nat
  BY <1>1, <1>6 DEF LoopOK, Applications
<1>8. HasHalf(u) <=> HasHalf(w) \/ Half(m)
  BY <1>4, <1>5 DEF HasHalf
<1>9. r.peer_done \/ HasHalf(w) => s.application_done /\ ~Half(m)
  BY <1>6 DEF FlowOK, ClosingOK
<1>10. r.peer_done \/ HasHalf(w) => m.type # "Binary"
  BY <1>6, <1>7, <1>9
<1>11. ClosingOK(t, r, a, lost, u)
  <2>1. r.peer_done => \A i \in 1..Len(u) : u[i].type # "Binary"
    BY <1>4, <1>5, <1>10 DEF FlowOK, ClosingOK
  <2>2. ASSUME NEW i \in 1..Len(u), NEW j \in 1..Len(u), i < j, Half(u[i])
        PROVE  u[j].type # "Binary"
    <3>1. i \in 1..n
      BY <1>5, <2>2
    <3>2. HasHalf(w)
      BY <1>4, <1>5, <2>2, <3>1 DEF HasHalf
    <3>3. \A k, l \in 1..Len(w) : k < l /\ Half(w[k]) => w[l].type # "Binary"
      BY DEF FlowOK, ClosingOK
    <3>. QED  BY <1>4, <1>5, <1>10, <2>2, <3>1, <3>2, <3>3
  <2>3. r.peer_done \/ HasHalf(u) =>
          /\ a.state # "open" /\ a.read = a.written
          /\ Over(t) \/ (t.application_done /\ ~SendsHalf(t))
    BY <1>7, <1>8, <1>9
  <2>4. ASSUME NEW i \in 1..Len(u), u[i].type = "Close"
        PROVE  r.application_done /\ (r.peer_done \/ \E j \in 1..Len(u) : j < i /\ Half(u[j]))
    <3>1. CASE i \in 1..n
      <4>1. r.application_done /\ (r.peer_done \/ \E j \in 1..Len(w) : j < i /\ Half(w[j]))
        BY <1>4, <1>5, <2>4, <3>1 DEF FlowOK, ClosingOK
      <4>. QED  BY <1>4, <1>5, <4>1
    <3>2. CASE i = n + 1
      <4>1. m.type = "Close"
        BY <1>5, <2>4, <3>2
      <4>2. s.application_done /\ s.peer_done /\ ~SendsHalf(s)
        BY <1>6, <1>7, <4>1 DEF Half
      <4>3. r.application_done
        BY <4>2 DEF FlowOK, ClosingOK
      <4>4. r.peer_done \/ HasHalf(w)
        BY <1>6, <4>2 DEF FlowOK, ClosingOK
      <4>5. \A j \in 1..n : j < i
        BY <3>2
      <4>. QED  BY <1>4, <1>5, <4>3, <4>4, <4>5 DEF HasHalf
    <3>. QED  BY <1>5, <3>1, <3>2
  <2>5. s.application_done => r.peer_done \/ HasHalf(u)
    BY <1>6, <1>8 DEF FlowOK, ClosingOK
  <2>. QED  BY <2>1, <2>2, <2>3, <2>4, <2>5 DEF ClosingOK
<1>12. ASSUME ChunksOK(s, r, a, b, lost, w) PROVE ChunksOK(t, r, a, b, lost, u)
  <2>. DEFINE base == Base(r, b)
  <2>1. /\ base <= a.read /\ (WritesData(r) => r.in = base) /\ Consecutive(w, base)
        /\ \A i \in 1..n : Data(w[i]) => w[i].chunk <= Unsent(s, a)
        /\ \A i \in 1..n : Half(w[i]) => a.written = base \/ HasChunk(w, i, a.written)
        /\ r.peer_done => base = a.written
        /\ Unsent(s, a) = base \/ HasChunk(w, n + 1, Unsent(s, a))
    BY <1>4, <1>6, <1>12 DEF ChunksOK
  <2>2. base \in Nat
    BY DEF Base, Applications
  <2>. HIDE DEF base
  <2>3. /\ Unsent(t, a) = a.read
        /\ Data(m) => Unsent(s, a) = a.read - 1
        /\ ~Data(m) => Unsent(s, a) = a.read
    BY <1>6 DEF Unsent
  <2>4. ASSUME NEW i \in 1..n + 1, NEW c, HasChunk(w, i, c) PROVE HasChunk(u, i, c)
    BY <1>4, <1>5, <2>4 DEF HasChunk
  <2>5. \A i \in 1..n : Data(w[i]) => w[i].chunk \in Nat
    BY <1>2, <1>4, MessageKinds DEF Data
  <2>6. Data(m) => a.read > base
    <3>1. HasChunk(w, n + 1, a.read - 1) => a.read - 1 > base
      BY <1>4, <2>1, <2>5 DEF HasChunk, Consecutive
    <3>. QED  BY <1>7, <2>1, <2>2, <2>3, <3>1
  <2>7. Data(m) => a.read = base + 1 \/ HasChunk(u, n + 1, a.read - 1)
    BY <1>4, <1>7, <2>1, <2>2, <2>3, <2>4
  <2>8. Consecutive(u, base)
    <3>1. ASSUME NEW i \in 1..Len(u), Data(u[i])
          PROVE  /\ u[i].chunk > base
                 /\ u[i].chunk = base + 1 \/ HasChunk(u, i, u[i].chunk - 1)
      <4>1. CASE i \in 1..n
        <5>1. i \in 1..n + 1 /\ u[i] = w[i] /\ i \in 1..Len(w)
          BY <1>4, <1>5, <4>1
        <5>2. w[i].chunk > base /\ (w[i].chunk = base + 1 \/ HasChunk(w, i, w[i].chunk - 1))
          BY <2>1, <3>1, <5>1 DEF Consecutive
        <5>. QED  BY <2>4, <5>1, <5>2
      <4>2. CASE i = n + 1
        BY <1>5, <1>7, <2>6, <2>7, <3>1, <4>2
      <4>. QED  BY <1>5, <4>1, <4>2
    <3>2. ASSUME NEW i \in 1..Len(u), NEW j \in 1..Len(u), i < j, Data(u[i]), Data(u[j])
          PROVE  u[i].chunk < u[j].chunk
      <4>1. i \in 1..n /\ u[i] = w[i]
        BY <1>5, <3>2
      <4>2. CASE j \in 1..n
        BY <1>4, <1>5, <2>1, <3>2, <4>1, <4>2 DEF Consecutive
      <4>3. CASE j = n + 1
        <5>1. u[i].chunk \in Nat /\ u[i].chunk <= a.read - 1
          BY <1>5, <2>1, <2>3, <2>5, <3>2, <4>1, <4>3
        <5>. QED  BY <1>5, <1>7, <3>2, <4>3, <5>1
      <4>. QED  BY <1>5, <4>2, <4>3
    <3>. QED  BY <3>1, <3>2 DEF Consecutive
  <2>9. ASSUME NEW i \in 1..Len(u), Data(u[i]) PROVE u[i].chunk <= Unsent(t, a)
    <3>1. CASE i \in 1..n
      <4>1. u[i] = w[i] /\ w[i].chunk <= Unsent(s, a) /\ w[i].chunk \in Nat
        BY <1>5, <2>1, <2>5, <2>9, <3>1
      <4>2. Unsent(s, a) = a.read - 1 \/ Unsent(s, a) = a.read
        BY <2>3
      <4>. QED  BY <1>7, <2>3, <4>1, <4>2
    <3>2. CASE i = n + 1
      BY <1>5, <1>7, <2>3, <2>9, <3>2
    <3>. QED  BY <1>5, <3>1, <3>2
  <2>10. ASSUME NEW i \in 1..Len(u), Half(u[i])
         PROVE  a.written = base \/ HasChunk(u, i, a.written)
    <3>1. CASE i \in 1..n
      <4>1. i \in 1..n + 1
        BY <3>1
      <4>. QED  BY <1>5, <2>1, <2>4, <2>10, <3>1, <4>1
    <3>2. CASE i = n + 1
      <4>1. Half(m) /\ ~Data(m)
        BY <1>5, <2>10, <3>2 DEF Half, Data
      <4>. QED  BY <1>7, <2>1, <2>3, <2>4, <3>2, <4>1
    <3>. QED  BY <1>5, <3>1, <3>2
  <2>11. Unsent(t, a) = base \/ HasChunk(u, Len(u) + 1, Unsent(t, a))
    <3>1. CASE Data(m)
      <4>1. HasChunk(u, Len(u) + 1, a.read)
        BY <1>5, <1>7, <3>1 DEF HasChunk
      <4>. QED  BY <2>3, <4>1
    <3>2. CASE ~Data(m)
      <4>1. a.read = base \/ HasChunk(w, n + 1, a.read)
        BY <2>1, <2>3, <3>2
      <4>2. HasChunk(w, n + 1, a.read) => HasChunk(u, Len(u) + 1, a.read)
        BY <1>4, <1>5 DEF HasChunk
      <4>. QED  BY <2>3, <4>1, <4>2
    <3>. QED  BY <3>1, <3>2
  <2>. QED  BY <2>1, <2>8, <2>9, <2>10, <2>11 DEF ChunksOK, base
<1>. QED  BY <1>1, <1>3, <1>5, <1>11, <1>12 DEF FlowOK
(* What is sent to an end that is gone vanishes.                           *)
LEMMA SendVanishes ==
    ASSUME NEW s, NEW t, NEW r, NEW a \in Applications, NEW b, NEW lost, NEW w,
           FlowOK(s, r, a, b, lost, w), lost \/ Over(r), ~Over(s),
           t.application_done = s.application_done, ~SendsData(t), ~SendsHalf(t)
    PROVE  FlowOK(t, r, a, b, lost, w)
<1>1. ClosingOK(t, r, a, lost, w)
  BY DEF FlowOK, ClosingOK
<1>2. ASSUME ChunksOK(s, r, a, b, lost, w) PROVE ChunksOK(t, r, a, b, lost, w)
  <2>1. ASSUME NEW i \in 1..Len(w), Data(w[i]) PROVE w[i].chunk <= Unsent(t, a)
    <3>1. w[i].chunk <= Unsent(s, a) /\ w[i].chunk \in Nat /\ a.read \in Nat
      BY <1>2, <2>1, MessageKinds DEF FlowOK, ChunksOK, Data, Applications
    <3>. QED  BY <3>1 DEF Unsent
  <2>. QED  BY <1>2, <2>1 DEF ChunksOK
<1>. QED  BY <1>1, <1>2 DEF FlowOK

(* The receiver, having nothing to write, takes the first message.         *)
LEMMA TakeHead ==
    ASSUME NEW s, NEW r, NEW t, NEW a, NEW b \in Applications, NEW lost, NEW w, NEW h, NEW u,
           LoopOK(s, a), FlowOK(s, r, a, b, lost, w), w # << >>, h = Head(w), u = Tail(w),
           ~Over(r), ~Over(t), ~WritesData(r),
           t.application_done = r.application_done,
           t.peer_done <=> r.peer_done \/ Half(h),
           WritesData(t) <=> Data(h), WritesData(t) => t.in = h.chunk
    PROVE  FlowOK(s, t, a, b, lost, u)
<1>1. PICK n \in Nat : n = Len(w)
  BY DEF FlowOK
<1>2. w \in Seq(Messages) /\ h \in Messages /\ h = w[1] /\ n > 0 /\ 1 \in 1..n
  BY <1>1, EmptySeq, HeadTailProperties DEF FlowOK
<1>3. u \in Seq(Messages) /\ Len(u) = n - 1 /\ \A i \in 1..n - 1 : u[i] = w[i + 1] /\ i + 1 \in 1..n
  BY <1>1, <1>2, HeadTailProperties
<1>4. \A i \in 1..n : i = 1 \/ (i - 1 \in 1..n - 1 /\ u[i - 1] = w[i])
  <2>1. ASSUME NEW i \in 1..n, i # 1 PROVE i - 1 \in 1..n - 1 /\ (i - 1) + 1 = i
    BY <2>1
  <2>. QED  BY <1>3, <2>1
<1>5. HasHalf(w) <=> Half(h) \/ HasHalf(u)
  <2>1. HasHalf(w) => Half(h) \/ HasHalf(u)
    BY <1>1, <1>2, <1>3, <1>4 DEF HasHalf
  <2>2. HasHalf(u) => HasHalf(w)
    BY <1>1, <1>3 DEF HasHalf
  <2>3. Half(h) => HasHalf(w)
    BY <1>1, <1>2 DEF HasHalf
  <2>. QED  BY <2>1, <2>2, <2>3
<1>6. ClosingOK(s, t, a, lost, u)
  <2>1. /\ r.peer_done => \A i \in 1..n : w[i].type # "Binary"
        /\ \A i, j \in 1..n : i < j /\ Half(w[i]) => w[j].type # "Binary"
        /\ \A i \in 1..n : w[i].type = "Close" =>
              /\ r.application_done
              /\ r.peer_done \/ \E j \in 1..n : j < i /\ Half(w[j])
    BY <1>1 DEF FlowOK, ClosingOK
  <2>2. ASSUME t.peer_done, NEW i \in 1..Len(u) PROVE u[i].type # "Binary"
    <3>1. i + 1 \in 1..n /\ u[i] = w[i + 1] /\ 1 < i + 1
      BY <1>3
    <3>. QED  BY <1>2, <2>1, <2>2, <3>1
  <2>3. ASSUME NEW i \in 1..Len(u), NEW j \in 1..Len(u), i < j, Half(u[i])
        PROVE  u[j].type # "Binary"
    <3>1. i + 1 \in 1..n /\ j + 1 \in 1..n /\ i + 1 < j + 1 /\ u[i] = w[i + 1] /\ u[j] = w[j + 1]
      BY <1>3, <2>3
    <3>. QED  BY <2>1, <2>3, <3>1
  <2>4. t.peer_done \/ HasHalf(u) =>
          /\ a.state # "open" /\ a.read = a.written
          /\ Over(s) \/ (s.application_done /\ ~SendsHalf(s))
    BY <1>5 DEF FlowOK, ClosingOK
  <2>5. ASSUME NEW i \in 1..Len(u), u[i].type = "Close"
        PROVE  t.application_done /\ (t.peer_done \/ \E j \in 1..Len(u) : j < i /\ Half(u[j]))
    <3>1. i + 1 \in 1..n /\ u[i] = w[i + 1]
      BY <1>3
    <3>2. r.application_done /\ (r.peer_done \/ \E j \in 1..n : j < i + 1 /\ Half(w[j]))
      BY <2>1, <2>5, <3>1
    <3>3. ASSUME NEW j \in 1..n, j < i + 1, Half(w[j])
          PROVE  Half(h) \/ \E k \in 1..Len(u) : k < i /\ Half(u[k])
      <4>1. j = 1 \/ (j - 1 \in 1..n - 1 /\ u[j - 1] = w[j] /\ j - 1 < i)
        BY <1>4, <3>3
      <4>. QED  BY <1>2, <1>3, <3>3, <4>1
    <3>. QED  BY <3>2, <3>3
  <2>6. ~lost /\ ~Over(s) /\ s.application_done /\ ~SendsHalf(s) => t.peer_done \/ HasHalf(u)
    BY <1>5 DEF FlowOK, ClosingOK
  <2>. QED  BY <2>2, <2>3, <2>4, <2>5, <2>6 DEF ClosingOK
<1>7. ASSUME ChunksOK(s, r, a, b, lost, w) PROVE ChunksOK(s, t, a, b, lost, u)
  <2>. DEFINE base == Base(r, b)
              new == Base(t, b)
  <2>1. /\ base <= a.read /\ Consecutive(w, base)
        /\ \A i \in 1..n : Data(w[i]) => w[i].chunk <= Unsent(s, a)
        /\ \A i \in 1..n : Half(w[i]) => a.written = base \/ HasChunk(w, i, a.written)
        /\ r.peer_done => base = a.written
        /\ ~lost /\ ~Over(s) => Unsent(s, a) = base \/ HasChunk(w, n + 1, Unsent(s, a))
    BY <1>1, <1>7 DEF ChunksOK
  <2>2. /\ base \in Nat /\ new \in Nat
        /\ Data(h) => new = base + 1
        /\ ~Data(h) => new = base
    BY DEF Base, Applications
  <2>. HIDE DEF base, new
  <2>3. \A i \in 1..n : Data(w[i]) => w[i].chunk \in Nat
    BY <1>1, <1>2, MessageKinds DEF Data
  <2>4. /\ a.read \in Nat /\ a.written \in Nat /\ a.read <= a.written
        /\ Unsent(s, a) \in Int /\ Unsent(s, a) <= a.read
    BY DEF LoopOK, Applications, Unsent
  <2>5. ASSUME NEW c PROVE ~HasChunk(w, 1, c)
    BY DEF HasChunk
  <2>6. Data(h) => h.chunk = new /\ new <= Unsent(s, a)
    <3>1. Data(h) => h.chunk = base + 1 \/ HasChunk(w, 1, h.chunk - 1)
      BY <1>1, <1>2, <2>1 DEF Consecutive
    <3>. QED  BY <1>2, <2>1, <2>2, <2>5, <3>1
  <2>7. ASSUME NEW i \in 1..n, NEW c, HasChunk(w, i + 1, c)
        PROVE  (Data(h) /\ c = new) \/ HasChunk(u, i, c)
    <3>1. PICK j \in 1..n : j < i + 1 /\ Data(w[j]) /\ w[j].chunk = c
      BY <1>1, <2>7 DEF HasChunk
    <3>2. CASE j = 1
      BY <1>2, <2>6, <3>1, <3>2
    <3>3. CASE j # 1
      <4>1. j - 1 \in 1..n - 1 /\ u[j - 1] = w[j]
        BY <1>4, <3>3
      <4>2. j - 1 < i
        BY <3>1
      <4>. QED  BY <1>3, <3>1, <4>1, <4>2 DEF HasChunk
    <3>. QED  BY <3>2, <3>3
  <2>8. new <= a.read
    BY <2>1, <2>2, <2>4, <2>6
  <2>9. WritesData(t) => t.in = new
    BY <2>6
  <2>10. ASSUME NEW i \in 1..Len(u), Data(u[i])
         PROVE  /\ u[i].chunk > new
                /\ u[i].chunk = new + 1 \/ HasChunk(u, i, u[i].chunk - 1)
    <3>1. i + 1 \in 1..n /\ u[i] = w[i + 1] /\ i \in 1..n /\ 1 < i + 1
      BY <1>3
    <3>2. PICK c \in Nat : c = u[i].chunk
      BY <2>3, <2>10, <3>1
    <3>3. c > base /\ (c = base + 1 \/ HasChunk(w, i + 1, c - 1)) /\ (Data(h) => new < c)
      BY <1>1, <1>2, <2>1, <2>6, <2>10, <3>1, <3>2 DEF Consecutive
    <3>4. c > new
      BY <2>2, <3>3
    <3>5. HasChunk(w, i + 1, c - 1) => (Data(h) /\ c - 1 = new) \/ HasChunk(u, i, c - 1)
      BY <2>7, <3>1
    <3>6. c = new + 1 \/ HasChunk(u, i, c - 1)
      BY <2>2, <3>3, <3>4, <3>5
    <3>. QED  BY <3>2, <3>4, <3>6
  <2>11. ASSUME NEW i \in 1..Len(u), NEW j \in 1..Len(u), i < j, Data(u[i]), Data(u[j])
         PROVE  u[i].chunk < u[j].chunk
    <3>1. i + 1 \in 1..n /\ j + 1 \in 1..n /\ i + 1 < j + 1 /\ u[i] = w[i + 1] /\ u[j] = w[j + 1]
      BY <1>3, <2>11
    <3>. QED  BY <1>1, <2>1, <2>11, <3>1 DEF Consecutive
  <2>12. ASSUME NEW i \in 1..Len(u), Data(u[i]) PROVE u[i].chunk <= Unsent(s, a)
    BY <1>3, <2>1, <2>12
  <2>13. ASSUME NEW i \in 1..Len(u), Half(u[i]) PROVE a.written = new \/ HasChunk(u, i, a.written)
    <3>1. i + 1 \in 1..n /\ u[i] = w[i + 1] /\ i \in 1..n
      BY <1>3
    <3>2. a.written = base \/ HasChunk(w, i + 1, a.written)
      BY <2>1, <2>13, <3>1
    <3>3. a.written = base => new = base
      BY <2>2, <2>4, <2>8
    <3>. QED  BY <2>7, <3>1, <3>2, <3>3
  <2>14. t.peer_done => new = a.written
    <3>1. Half(h) => base = a.written /\ ~Data(h)
      BY <1>2, <2>1, <2>5 DEF Half, Data
    <3>2. r.peer_done => ~Data(h)
      BY <1>1, <1>2 DEF FlowOK, ClosingOK, Data
    <3>. QED  BY <2>1, <2>2, <3>1, <3>2
  <2>15. ~lost /\ ~Over(s) => Unsent(s, a) = new \/ HasChunk(u, Len(u) + 1, Unsent(s, a))
    <3>1. Unsent(s, a) = base => new = base
      BY <2>2, <2>4, <2>6
    <3>2. n \in 1..n /\ Len(u) + 1 = n
      BY <1>2, <1>3
    <3>. QED  BY <2>1, <2>7, <3>1, <3>2
  <2>16. Consecutive(u, new)
    BY <2>10, <2>11 DEF Consecutive
  <2>. QED  BY <2>8, <2>9, <2>12, <2>13, <2>14, <2>15, <2>16 DEF ChunksOK, new
<1>. QED  BY <1>3, <1>6, <1>7 DEF FlowOK
(* The receiver writes what it took; a reset application gets none of it.  *)
LEMMA WriteFlow ==
    ASSUME NEW s, NEW r, NEW t, NEW a, NEW b, NEW c, NEW lost, NEW w,
           LoopOK(s, a), LoopOK(r, b), FlowOK(s, r, a, b, lost, w), r.at = "write",
           ~Over(t), t.application_done = r.application_done, t.peer_done = r.peer_done,
           ~WritesData(t), c.state = b.state,
           \/ b.state = "reset" /\ c = b
           \/ b.state # "reset" /\ r.in = 0 /\ c.got = b.got /\ c.eof
           \/ b.state # "reset" /\ r.in # 0 /\ c.eof = b.eof /\ Len(c.got) = Len(b.got) + 1
    PROVE  FlowOK(s, t, a, c, lost, w)
<1>1. /\ ~Over(r) /\ a.read \in Nat /\ a.written \in Nat /\ a.read <= a.written
      /\ Len(b.got) \in Nat
      /\ r.in = 0 <=> r.peer_done
  BY DEF Over, LoopOK, Applications
<1>2. ClosingOK(s, t, a, lost, w)
  BY <1>1 DEF FlowOK, ClosingOK
<1>3. CASE b.state = "reset"
  BY <1>2, <1>3 DEF FlowOK
<1>4. CASE b.state # "reset"
  <2>1. ChunksOK(s, r, a, b, lost, w)
    BY <1>4 DEF FlowOK
  <2>2. /\ Base(r, b) <= a.read /\ (r.peer_done => Base(r, b) = a.written)
    BY <2>1 DEF ChunksOK
  <2>3. Base(t, c) = Base(r, b) /\ Base(r, b) = Len(c.got)
    <3>1. Base(t, c) = Len(c.got) + 0
      BY DEF Base
    <3>2. /\ WritesData(r) <=> r.in # 0
          /\ Base(r, b) = Len(b.got) + (IF r.in # 0 THEN 1 ELSE 0)
      BY DEF Base, WritesData
    <3>3. CASE r.in = 0
      <4>1. Len(c.got) = Len(b.got)
        BY <1>4, <3>3
      <4>. QED  BY <1>1, <3>1, <3>2, <3>3, <4>1
    <3>4. CASE r.in # 0
      <4>1. Len(c.got) = Len(b.got) + 1
        BY <1>4, <3>4
      <4>. QED  BY <1>1, <3>1, <3>2, <3>4, <4>1
    <3>. QED  BY <3>3, <3>4
  <2>4. ChunksOK(s, t, a, c, lost, w)
    BY <1>1, <2>1, <2>3 DEF ChunksOK
  <2>5. c.eof => a.state # "open" /\ Len(c.got) = a.written
    <3>1. CASE r.in = 0
      BY <1>1, <2>2, <2>3, <3>1 DEF FlowOK, ClosingOK
    <3>2. CASE r.in # 0
      BY <1>1, <1>4, <3>2 DEF LoopOK
    <3>. QED  BY <3>1, <3>2
  <2>. QED  BY <1>2, <2>2, <2>3, <2>4, <2>5 DEF FlowOK
<1>. QED  BY <1>3, <1>4

(* The sender reads the end of its application's stream, or a chunk.       *)
LEMMA ReadFlow ==
    ASSUME NEW s, NEW t, NEW r, NEW a \in Applications, NEW b \in Applications, NEW c,
           NEW lost, NEW w,
           FlowOK(s, r, a, b, lost, w), ~Over(s), ~Over(t), ~s.application_done, ~SendsData(s),
           c.written = a.written, c.state = a.state,
           \/ SendsHalf(t) /\ ~SendsData(t) /\ c.read = a.read
           \/ SendsData(t) /\ ~t.application_done /\ c.read = a.read + 1
    PROVE  FlowOK(t, r, c, b, lost, w)
<1>1. a.read \in Nat /\ Len(b.got) \in Nat /\ Base(r, b) \in Nat
  BY DEF Applications, Base
<1>2. Unsent(t, c) = Unsent(s, a)
  BY <1>1 DEF Unsent
<1>3. ~r.peer_done /\ ~HasHalf(w)
  BY DEF FlowOK, ClosingOK
<1>4. ClosingOK(t, r, c, lost, w)
  BY <1>3 DEF FlowOK, ClosingOK
<1>5. ASSUME ChunksOK(s, r, a, b, lost, w) PROVE ChunksOK(t, r, c, b, lost, w)
  <2>1. Base(r, b) <= c.read
    BY <1>1, <1>5 DEF ChunksOK
  <2>. QED  BY <1>2, <1>5, <2>1 DEF ChunksOK
<1>. QED  BY <1>1, <1>4, <1>5 DEF FlowOK
-----------------------------------------------------------------------------
(* Pings and pongs, seen from the loop s that pings.                       *)
Fewer(u, w, type) == \E k \in Nat : \A i \in At(u, type) : i + k \in At(w, type) /\ u[i] = w[i + k]

(* Ways in which messages of a type become fewer.                          *)
LEMMA FewerBy ==
    ASSUME NEW w \in Seq(Messages), NEW type
    PROVE  /\ Fewer(w, w, type) /\ Fewer(<< >>, w, type)
           /\ \A u : Prefix(u, w) => Fewer(u, w, type)
           /\ w # << >> => Fewer(Tail(w), w, type)
           /\ \A m \in Messages : m.type # type => Fewer(Append(w, m), w, type)
<1>1. PICK n \in Nat : n = Len(w)
  OBVIOUS
<1>2. ASSUME NEW u, NEW k \in Nat, \A i \in At(u, type) : i + k \in 1..n /\ u[i] = w[i + k]
      PROVE  Fewer(u, w, type)
  BY <1>1, <1>2 DEF Fewer, At
<1>3. ASSUME NEW u, Prefix(u, w) PROVE Fewer(u, w, type)
  <2>1. PICK l \in Nat : l = Len(u)
    BY <1>3 DEF Prefix
  <2>2. ASSUME NEW i \in At(u, type) PROVE i + 0 \in 1..n /\ u[i] = w[i + 0]
    <3>1. i \in 1..l /\ l <= n /\ u[i] = w[i]
      BY <1>1, <1>3, <2>1 DEF Prefix, At
    <3>2. i + 0 = i /\ i \in 1..n
      BY <3>1
    <3>. QED  BY <3>1, <3>2
  <2>. QED  BY <1>2, <2>2
<1>4. Prefix(w, w) /\ Prefix(<< >>, w)
  BY DEF Prefix
<1>5. ASSUME w # << >> PROVE Fewer(Tail(w), w, type)
  <2>1. n > 0 /\ Tail(w) \in Seq(Messages) /\ Len(Tail(w)) = n - 1
        /\ \A i \in 1..n - 1 : Tail(w)[i] = w[i + 1]
    BY <1>1, <1>5, EmptySeq, HeadTailProperties
  <2>2. \A i \in At(Tail(w), type) : i + 1 \in 1..n /\ Tail(w)[i] = w[i + 1]
    BY <2>1 DEF At
  <2>. QED  BY <1>2, <2>2
<1>6. ASSUME NEW m \in Messages, m.type # type PROVE Fewer(Append(w, m), w, type)
  <2>1. PICK u : u = Append(w, m)
    OBVIOUS
  <2>2. /\ u[n + 1] = m /\ \A i \in 1..n : u[i] = w[i]
        /\ \A i \in 1..Len(u) : i \in 1..n \/ i = n + 1
    BY <1>1, <2>1, Appended
  <2>3. ASSUME NEW i \in At(u, type) PROVE i + 0 \in 1..n /\ u[i] = w[i + 0]
    <3>1. i \in 1..n /\ u[i] = w[i]
      BY <1>6, <2>2 DEF At
    <3>2. i + 0 = i
      BY <3>1
    <3>. QED  BY <3>1, <3>2
  <2>. QED  BY <1>2, <2>1, <2>3
<1>. QED  BY <1>3, <1>4, <1>5, <1>6

(* Pings and pongs may be lost with everything else.                       *)
LEMMA PingFewer ==
    ASSUME NEW s, NEW t, NEW r, NEW q, NEW w, NEW u, NEW v, NEW x, PingOK(s, r, w, v),
           Over(s) => Over(t), t.ping_queue = s.ping_queue,
           SendsPing(t) => SendsPing(s) /\ t.out = s.out,
           SendsPong(q) => SendsPong(r) /\ q.out = r.out,
           Fewer(u, w, "Ping"), Fewer(x, v, "Pong")
    PROVE  PingOK(t, q, u, x)
<1>. SUFFICES ASSUME ~Over(t) PROVE PingOK(t, q, u, x)
  BY DEF PingOK
<1>1. /\ s.ping_queue = << >> \/ \E y \in PingPayloads : s.ping_queue = <<y>>
      /\ SendsPing(s) => /\ s.ping_queue = <<s.out.payload>>
                         /\ At(w, "Ping") = {} /\ ~SendsPong(r) /\ At(v, "Pong") = {}
      /\ \A i \in At(w, "Ping") : /\ s.ping_queue = <<w[i].payload>>
                                  /\ ~SendsPong(r) /\ At(v, "Pong") = {}
                                  /\ \A j \in At(w, "Ping") : i = j
      /\ SendsPong(r) => s.ping_queue = <<r.out.payload>> /\ At(v, "Pong") = {}
      /\ \A i \in At(v, "Pong") : /\ s.ping_queue = <<v[i].payload>>
                                  /\ \A j \in At(v, "Pong") : i = j
  BY DEF PingOK
<1>2. PICK k \in Nat : \A i \in At(u, "Ping") : i + k \in At(w, "Ping") /\ u[i] = w[i + k]
  BY DEF Fewer
<1>3. PICK l \in Nat : \A i \in At(x, "Pong") : i + l \in At(v, "Pong") /\ x[i] = v[i + l]
  BY DEF Fewer
<1>4. /\ At(w, "Ping") = {} => At(u, "Ping") = {}
      /\ At(v, "Pong") = {} => At(x, "Pong") = {}
  BY <1>2, <1>3
<1>5. At(u, "Ping") \subseteq Int /\ At(x, "Pong") \subseteq Int
  BY DEF At
<1>6. ASSUME NEW i \in At(u, "Ping")
      PROVE  /\ t.ping_queue = <<u[i].payload>> /\ ~SendsPong(q) /\ At(x, "Pong") = {}
             /\ \A j \in At(u, "Ping") : i = j
  <2>1. i + k \in At(w, "Ping") /\ u[i] = w[i + k]
    BY <1>2
  <2>2. \A j \in At(u, "Ping") : i + k = j + k
    BY <1>1, <1>2, <2>1
  <2>3. ASSUME NEW j \in At(u, "Ping") PROVE i = j
    <3>1. i \in Int /\ j \in Int /\ i + k = j + k
      BY <1>5, <2>2
    <3>. QED  BY <3>1
  <2>. QED  BY <1>1, <1>4, <2>1, <2>3
<1>7. ASSUME NEW i \in At(x, "Pong")
      PROVE  t.ping_queue = <<x[i].payload>> /\ \A j \in At(x, "Pong") : i = j
  <2>1. i + l \in At(v, "Pong") /\ x[i] = v[i + l]
    BY <1>3
  <2>2. \A j \in At(x, "Pong") : i + l = j + l
    BY <1>1, <1>3, <2>1
  <2>3. ASSUME NEW j \in At(x, "Pong") PROVE i = j
    <3>1. i \in Int /\ j \in Int /\ i + l = j + l
      BY <1>5, <2>2
    <3>. QED  BY <3>1
  <2>. QED  BY <1>1, <2>1, <2>3
<1>. QED  BY <1>1, <1>4, <1>6, <1>7 DEF PingOK
(* A ping when none is unanswered.                                         *)
LEMMA PingMade ==
    ASSUME NEW s, NEW t, NEW r, NEW w, NEW v, NEW x \in PingPayloads, PingOK(s, r, w, v),
           ~Over(s), s.ping_queue = << >>, t.ping_queue = <<x>>, t.out = Ping(x)
    PROVE  PingOK(t, r, w, v)
<1>1. \A y : s.ping_queue # <<y>>
  OBVIOUS
<1>2. At(w, "Ping") = {} /\ ~SendsPong(r) /\ At(v, "Pong") = {}
  BY <1>1 DEF PingOK
<1>3. t.out.payload = x
  BY MessagesMade
<1>. QED  BY <1>2, <1>3 DEF PingOK

(* The first message of its type on a wire is the only one.                *)
LEMMA AtAppend ==
    ASSUME NEW w \in Seq(Messages), NEW m \in Messages, NEW type, m.type = type, At(w, type) = {}
    PROVE  \A i \in At(Append(w, m), type) : i = Len(w) + 1 /\ Append(w, m)[i] = m
<1>1. PICK n \in Nat : n = Len(w)
  OBVIOUS
<1>2. PICK u : u = Append(w, m)
  OBVIOUS
<1>3. /\ u[n + 1] = m /\ \A i \in 1..n : u[i] = w[i]
      /\ \A i \in 1..Len(u) : i \in 1..n \/ i = n + 1
  BY <1>1, <1>2, Appended
<1>4. \A i \in 1..n : w[i].type # type
  BY <1>1 DEF At
<1>5. \A i \in At(u, type) : i = n + 1 /\ u[i] = m
  BY <1>3, <1>4 DEF At
<1>. QED  BY <1>1, <1>2, <1>5

(* A ping is sent,                                                         *)
LEMMA PingSent ==
    ASSUME NEW s \in Loops, NEW t, NEW r, NEW w \in Seq(Messages), NEW v, PingOK(s, r, w, v),
           SendsPing(s), t.ping_queue = s.ping_queue, ~SendsPing(t)
    PROVE  PingOK(t, r, Append(w, s.out), v)
<1>1. PICK m \in Messages : m = s.out
  BY DEF Loops
<1>2. m.type = "Ping" /\ ~Over(s)
  BY <1>1 DEF SendsPing, Over
<1>3. /\ s.ping_queue = <<m.payload>> /\ At(w, "Ping") = {} /\ ~SendsPong(r)
      /\ At(v, "Pong") = {}
  BY <1>1, <1>2 DEF PingOK
<1>4. PICK u : u = Append(w, m)
  OBVIOUS
<1>5. \A i \in At(u, "Ping") : i = Len(w) + 1 /\ u[i] = m
  BY <1>2, <1>3, <1>4, AtAppend
<1>6. PICK y \in PingPayloads : y = m.payload
  BY <1>2, MessageKinds
<1>7. PingOK(t, r, u, v)
  BY <1>3, <1>5, <1>6 DEF PingOK
<1>. QED  BY <1>1, <1>4, <1>7

(* A ping is taken, and answered.                                          *)
LEMMA PingTaken ==
    ASSUME NEW s, NEW r, NEW q, NEW w \in Seq(Messages), NEW v, PingOK(s, r, w, v), w # << >>,
           NEW h, h = Head(w), h.type = "Ping", q.out = Pong(h.payload)
    PROVE  PingOK(s, q, Tail(w), v)
<1>. SUFFICES ASSUME ~Over(s) PROVE PingOK(s, q, Tail(w), v)
  BY DEF PingOK
<1>1. PICK n \in Nat : n = Len(w)
  OBVIOUS
<1>2. PICK u : u = Tail(w)
  OBVIOUS
<1>3. /\ h \in Messages /\ h = w[1] /\ n > 0 /\ u \in Seq(Messages) /\ Len(u) = n - 1
      /\ \A i \in 1..n - 1 : u[i] = w[i + 1]
  BY <1>1, <1>2, EmptySeq, HeadTailProperties
<1>4. 1 \in At(w, "Ping")
  BY <1>1, <1>3 DEF At
<1>5. /\ s.ping_queue = <<h.payload>> /\ ~SendsPong(r) /\ At(v, "Pong") = {}
      /\ \A j \in At(w, "Ping") : 1 = j
      /\ ~SendsPing(s)
  BY <1>3, <1>4 DEF PingOK
<1>6. At(u, "Ping") = {}
  <2>1. ASSUME NEW i \in At(u, "Ping") PROVE FALSE
    <3>1. i \in 1..n - 1 /\ u[i].type = "Ping" /\ i + 1 \in 1..n /\ i + 1 # 1
      BY <1>3 DEF At
    <3>2. i + 1 \in At(w, "Ping")
      BY <1>1, <1>3, <3>1 DEF At
    <3>. QED  BY <1>5, <3>1, <3>2
  <2>. QED  BY <2>1
<1>7. PICK y \in PingPayloads : y = h.payload
  BY <1>3, MessageKinds
<1>8. q.out.payload = y
  BY <1>7, MessagesMade
<1>9. PingOK(s, q, u, v)
  BY <1>5, <1>6, <1>7, <1>8 DEF PingOK
<1>. QED  BY <1>2, <1>9

(* it is answered,                                                         *)
LEMMA PongSent ==
    ASSUME NEW s, NEW r \in Loops, NEW q, NEW w, NEW v \in Seq(Messages), PingOK(s, r, w, v),
           SendsPong(r), ~SendsPong(q)
    PROVE  PingOK(s, q, w, Append(v, r.out))
<1>. SUFFICES ASSUME ~Over(s) PROVE PingOK(s, q, w, Append(v, r.out))
  BY DEF PingOK
<1>1. PICK m \in Messages : m = r.out
  BY DEF Loops
<1>2. m.type = "Pong"
  BY <1>1 DEF SendsPong
<1>3. /\ s.ping_queue = <<m.payload>> /\ At(v, "Pong") = {} /\ At(w, "Ping") = {}
      /\ ~SendsPing(s)
  BY <1>1 DEF PingOK
<1>4. PICK u : u = Append(v, m)
  OBVIOUS
<1>5. \A i \in At(u, "Pong") : i = Len(v) + 1 /\ u[i] = m
  BY <1>2, <1>3, <1>4, AtAppend
<1>6. PICK y \in PingPayloads : y = m.payload
  BY <1>2, MessageKinds
<1>7. PingOK(s, q, w, u)
  BY <1>3, <1>5, <1>6 DEF PingOK
<1>. QED  BY <1>1, <1>4, <1>7

(* A pong is the answer to the ping its reader waits for.                  *)
LEMMA PongExpected ==
    ASSUME NEW s, NEW r, NEW w, NEW v \in Seq(Messages), PingOK(s, r, w, v), ~Over(s),
           v # << >>, Head(v).type = "Pong"
    PROVE  /\ s.ping_queue = <<Head(v).payload>> /\ At(w, "Ping") = {} /\ ~SendsPong(r)
           /\ At(Tail(v), "Pong") = {}
<1>1. PICK n \in Nat : n = Len(v)
  OBVIOUS
<1>2. PICK u : u = Tail(v)
  OBVIOUS
<1>3. /\ Head(v) = v[1] /\ n > 0 /\ u \in Seq(Messages) /\ Len(u) = n - 1
      /\ \A i \in 1..n - 1 : u[i] = v[i + 1]
  BY <1>1, <1>2, EmptySeq, HeadTailProperties
<1>4. 1 \in At(v, "Pong")
  BY <1>1, <1>3 DEF At
<1>5. /\ s.ping_queue = <<v[1].payload>> /\ ~SendsPong(r) /\ At(w, "Ping") = {}
      /\ \A j \in At(v, "Pong") : 1 = j
  BY <1>4 DEF PingOK
<1>6. At(u, "Pong") = {}
  <2>1. ASSUME NEW i \in At(u, "Pong") PROVE FALSE
    <3>1. i \in 1..n - 1 /\ u[i].type = "Pong" /\ i + 1 \in 1..n /\ i + 1 # 1
      BY <1>3 DEF At
    <3>2. i + 1 \in At(v, "Pong")
      BY <1>1, <1>3, <3>1 DEF At
    <3>. QED  BY <1>5, <3>1, <3>2
  <2>. QED  BY <2>1
<1>. QED  BY <1>2, <1>3, <1>5, <1>6

(* and the answer empties the queue.                                       *)
LEMMA PongTaken ==
    ASSUME NEW s, NEW t, NEW r, NEW w, NEW v \in Seq(Messages), PingOK(s, r, w, v), ~Over(s),
           v # << >>, Head(v).type = "Pong", t.ping_queue = << >>, ~SendsPing(t)
    PROVE  PingOK(t, r, w, Tail(v))
  BY PongExpected DEF PingOK
-----------------------------------------------------------------------------
(* The two ends.                                                           *)
LEMMA TwoIs ==
    ASSUME NEW p \in Ends, NEW x, NEW y, NEW z
    PROVE  /\ Two(p, x, y)[p] = x /\ Two(p, x, y)[Other(p)] = y
           /\ [Two(p, x, y) EXCEPT ![p] = z] = Two(p, z, y)
           /\ [Two(p, x, y) EXCEPT ![Other(p)] = z] = Two(p, x, z)
           /\ Two(p, x, y) = Two(Other(p), y, x)
  BY Ends2 DEF Two

(* The invariant as one end sees it before its step,                       *)
LEMMA Before ==
    ASSUME ProxyInv, NEW p \in Ends
    PROVE  \E s, r, a, b, lost, w, v :
              Are(p, s, r, a, b, lost, w, v) /\ PairOK(s, r, a, b, lost, w, v)
<1>. DEFINE q == Other(p)
<1>1. PairOK(proxy[p], proxy[q], app[p], app[q], broken, wire[p], wire[q])
  <2>1. (p = "Client" /\ q = "Server") \/ (p = "Server" /\ q = "Client")
    BY DEF Ends, Other
  <2>. QED  BY <2>1 DEF ProxyInv, PairOK
<1>2. proxy = Two(p, proxy[p], proxy[q])
  BY DEF ProxyInv, Two, Ends, Other
<1>3. app = Two(p, app[p], app[q])
  BY DEF ProxyInv, Two, Ends, Other
<1>4. wire = Two(p, wire[p], wire[q])
  BY DEF ProxyInv, Two, Ends, Other
<1>5. Are(p, proxy[p], proxy[q], app[p], app[q], broken, wire[p], wire[q])
  BY <1>2, <1>3, <1>4 DEF Are
<1>. HIDE DEF q
<1>. QED  BY <1>1, <1>5

(* and after it.                                                           *)
LEMMA After ==
    ASSUME NEW p \in Ends, NEW s, NEW r, NEW a, NEW b, NEW lost, NEW w, NEW v,
           PairOK(s, r, a, b, lost, w, v),
           proxy' = Two(p, s, r), app' = Two(p, a, b), wire' = Two(p, w, v), broken' = lost
    PROVE  ProxyInv'
<1>1. CASE p = "Client"
  <2>1. /\ proxy' = [e \in Ends |-> proxy'[e]] /\ proxy'["Client"] = s /\ proxy'["Server"] = r
    BY <1>1 DEF Two, Ends
  <2>2. /\ app' = [e \in Ends |-> app'[e]] /\ app'["Client"] = a /\ app'["Server"] = b
    BY <1>1 DEF Two, Ends
  <2>3. /\ wire' = [e \in Ends |-> wire'[e]] /\ wire'["Client"] = w /\ wire'["Server"] = v
    BY <1>1 DEF Two, Ends
  <2>. QED  BY <2>1, <2>2, <2>3 DEF ProxyInv
<1>2. CASE p = "Server"
  <2>1. /\ proxy' = [e \in Ends |-> proxy'[e]] /\ proxy'["Client"] = r /\ proxy'["Server"] = s
    BY <1>2 DEF Two, Ends
  <2>2. /\ app' = [e \in Ends |-> app'[e]] /\ app'["Client"] = b /\ app'["Server"] = a
    BY <1>2 DEF Two, Ends
  <2>3. /\ wire' = [e \in Ends |-> wire'[e]] /\ wire'["Client"] = v /\ wire'["Server"] = w
    BY <1>2 DEF Two, Ends
  <2>4. PairOK(r, s, b, a, lost, v, w)
    BY DEF PairOK
  <2>. QED  BY <2>1, <2>2, <2>3, <2>4 DEF ProxyInv
<1>. QED  BY <1>1, <1>2 DEF Ends

(* A loop returns, having left the messages in put on the connection.      *)
LEMMA IdleIs ==
    ASSUME NEW how \in {"setup", "select", "send", "write", "done", "failed"}, NEW t,
           t = [NewProxy EXCEPT !.at = how]
    PROVE  /\ t \in Loops /\ t.at = how /\ t.ping_queue = << >> /\ t.out = Close /\ t.in = 0
           /\ ~t.application_done /\ ~t.peer_done
<1>1. t = [at |-> how, out |-> Close, in |-> 0, ping_queue |-> << >>,
           application_done |-> FALSE, peer_done |-> FALSE]
  BY DEF NewProxy
<1>2. << >> \in Seq(PingPayloads) /\ Close \in Messages
  BY MessagesMade
<1>3. PICK no \in BOOLEAN : no = FALSE
  BY Zenon
<1>4. [at |-> how, out |-> Close, in |-> 0, ping_queue |-> << >>,
       application_done |-> no, peer_done |-> no] \in Loops
  BY <1>2 DEF Loops
<1>5. t \in Loops
  BY <1>1, <1>3, <1>4, Zenon
<1>. QED  BY <1>1, <1>5

(* A proxy that returns.                                                   *)
LEMMA ReturnPair ==
    ASSUME NEW s, NEW r, NEW a, NEW b, NEW lost, NEW w, NEW v, NEW put, NEW u, NEW t,
           NEW how \in {"done", "failed"},
           PairOK(s, r, a, b, lost, w, v), FlowOK(s, r, a, b, lost, put), PingOK(r, s, v, put),
           Prefix(u, put), t = [NewProxy EXCEPT !.at = how]
    PROVE  PairOK(t, r, a, b, lost, u, << >>)
<1>1. /\ t \in Loops /\ Over(t) /\ ~t.application_done /\ ~t.peer_done /\ t.ping_queue = << >>
      /\ t.at = how
  BY IdleIs DEF Over
<1>2. /\ ~SendsData(t) /\ ~SendsHalf(t) /\ ~SendsPing(t) /\ ~SendsPong(t)
  BY <1>1 DEF SendsData, SendsHalf, SendsPing, SendsPong
<1>3. /\ a \in Applications /\ b \in Applications /\ put \in Seq(Messages)
      /\ v \in Seq(Messages)
  BY DEF PairOK, LoopOK, FlowOK
<1>4. LoopOK(t, a)
  BY <1>1, <1>2 DEF PairOK, LoopOK
<1>5. FlowOK(t, r, a, b, lost, u)
  BY <1>1, <1>2, <1>3, FlowTruncated
<1>6. FlowOK(r, t, b, a, lost, << >>)
  BY <1>1, <1>3, ReceiverReturns DEF PairOK
<1>7. PingOK(t, r, u, << >>)
  BY <1>1 DEF PingOK
<1>8. PingOK(r, t, << >>, u)
  <2>1. Fewer(<< >>, v, "Ping") /\ Fewer(u, put, "Pong")
    BY <1>3, FewerBy
  <2>. QED  BY <1>2, <2>1, PingFewer
<1>. QED  BY <1>4, <1>5, <1>6, <1>7, <1>8 DEF PairOK

(* Such a step keeps the invariant,                                        *)
LEMMA Returns ==
    ASSUME NEW p \in Ends, NEW s, NEW r, NEW a, NEW b, NEW lost, NEW w, NEW v, NEW put,
           NEW how \in {"done", "failed"}, Are(p, s, r, a, b, lost, w, v),
           PairOK(s, r, a, b, lost, w, v), FlowOK(s, r, a, b, lost, put), PingOK(r, s, v, put),
           Return(p, how, put)
    PROVE  ProxyInv'
<1>1. PICK t : t = [NewProxy EXCEPT !.at = how]
  OBVIOUS
<1>2. proxy' = Two(p, t, r) /\ app' = Two(p, a, b) /\ broken' = lost
  <2>1. proxy' = [Two(p, s, r) EXCEPT ![p] = t] /\ app' = app /\ broken' = broken
    BY <1>1 DEF Are, Return
  <2>2. [Two(p, s, r) EXCEPT ![p] = t] = Two(p, t, r)
    BY TwoIs
  <2>. QED  BY <2>1, <2>2 DEF Are
<1>3. PICK k \in 0..Len(put) : wire' = [wire EXCEPT ![p] = SubSeq(put, 1, k), ![Other(p)] = << >>]
  <2>1. put \in Seq(Messages)
    BY DEF FlowOK
  <2>2. Len(put) \in 0..Len(put)
    BY <2>1
  <2>. QED  BY <2>2 DEF Return
<1>4. PICK u : u = SubSeq(put, 1, k)
  OBVIOUS
<1>5. wire' = Two(p, u, << >>)
  <2>1. wire' = [[wire EXCEPT ![p] = u] EXCEPT ![Other(p)] = << >>]
    BY <1>3, <1>4
  <2>2. [Two(p, w, v) EXCEPT ![p] = u] = Two(p, u, v)
    BY TwoIs
  <2>3. [Two(p, u, v) EXCEPT ![Other(p)] = << >>] = Two(p, u, << >>)
    BY TwoIs
  <2>. QED  BY <2>1, <2>2, <2>3 DEF Are
<1>6. Prefix(u, put)
  BY <1>4, SubSeqPrefix DEF FlowOK
<1>7. PairOK(t, r, a, b, lost, u, << >>)
  BY <1>1, <1>6, ReturnPair
<1>. QED  BY <1>2, <1>5, <1>7, After

(* and so does one that returns an error.                                  *)
LEMMA Fails ==
    ASSUME ProxyInv, NEW p \in Ends, Fail(p)
    PROVE  ProxyInv'
<1>1. PICK s, r, a, b, lost, w, v :
          Are(p, s, r, a, b, lost, w, v) /\ PairOK(s, r, a, b, lost, w, v)
  BY Before
<1>2. FlowOK(s, r, a, b, lost, w) /\ PingOK(r, s, v, w)
  BY <1>1 DEF PairOK
<1>3. Return(p, "failed", w)
  BY <1>1, TwoIs DEF Fail, Are
<1>. QED  BY <1>1, <1>2, <1>3, Returns
-----------------------------------------------------------------------------
(* Steps that neither move a message nor data.                             *)
LEMMA QuietPair ==
    ASSUME NEW s, NEW t, NEW r, NEW a, NEW c, NEW b, NEW lost, NEW w, NEW v,
           PairOK(s, r, a, b, lost, w, v), LoopOK(t, c), Over(t) <=> Over(s),
           t.application_done = s.application_done, t.peer_done = s.peer_done,
           t.ping_queue = s.ping_queue, t.out = s.out, t.in = s.in,
           t.at = "send" <=> s.at = "send", t.at = "write" <=> s.at = "write",
           c.read = a.read, c.written = a.written, c.got = a.got, c.eof = a.eof,
           a.state # "open" => c.state # "open", a.state = "reset" => c.state = "reset"
    PROVE  PairOK(t, r, c, b, lost, w, v)
<1>1. /\ SendsHalf(t) <=> SendsHalf(s)
      /\ SendsData(t) <=> SendsData(s)
      /\ WritesData(t) <=> WritesData(s)
      /\ SendsPing(t) => SendsPing(s) /\ t.out = s.out
      /\ SendsPong(t) => SendsPong(s) /\ t.out = s.out
  BY DEF SendsHalf, SendsData, WritesData, SendsPing, SendsPong
<1>2. FlowOK(t, r, c, b, lost, w)
  BY <1>1, SenderSame DEF PairOK
<1>3. FlowOK(r, t, b, c, lost, v)
  BY <1>1, ReceiverSame DEF PairOK
<1>4. Fewer(w, w, "Ping") /\ Fewer(w, w, "Pong") /\ Fewer(v, v, "Ping") /\ Fewer(v, v, "Pong")
  BY FewerBy DEF PairOK, FlowOK
<1>5. PingOK(t, r, w, v) /\ PingOK(r, t, v, w)
  BY <1>1, <1>4, PingFewer DEF PairOK
<1>. QED  BY <1>2, <1>3, <1>5 DEF PairOK

(* Each action keeps the invariant: the session is established,            *)
LEMMA EstablishedKeeps ==
    ASSUME ProxyInv, NEW p \in Ends, Established(p)
    PROVE  ProxyInv'
<1>1. PICK s, r, a, b, lost, w, v :
          Are(p, s, r, a, b, lost, w, v) /\ PairOK(s, r, a, b, lost, w, v)
  BY Before
<1>2. LoopOK(s, a) /\ s \in Loops /\ s.at = "setup"
  BY <1>1, TwoIs DEF PairOK, LoopOK, Are, Established
<1>3. PICK t : t = [s EXCEPT !.at = "select"]
  OBVIOUS
<1>4. proxy' = Two(p, t, r) /\ app' = app /\ wire' = wire /\ broken' = broken
  <2>1. proxy' = [Two(p, s, r) EXCEPT ![p].at = "select"]
    BY <1>1 DEF Are, Established
  <2>2. proxy' = Two(p, t, r)
    BY <1>3, <2>1 DEF Two
  <2>. QED  BY <2>2 DEF Established
<1>5. /\ t \in Loops /\ t.at = "select" /\ t.application_done = s.application_done
      /\ t.peer_done = s.peer_done /\ t.ping_queue = s.ping_queue /\ t.out = s.out /\ t.in = s.in
  BY <1>2, <1>3 DEF Loops
<1>6. LoopOK(t, a)
  BY <1>2, <1>5 DEF LoopOK, SendsHalf, SendsData, Over
<1>7. PairOK(t, r, a, b, lost, w, v)
  <2>1. Over(t) <=> Over(s)
    BY <1>2, <1>5 DEF Over
  <2>. QED  BY <1>1, <1>2, <1>5, <1>6, <2>1, QuietPair
<1>. QED  BY <1>1, <1>4, <1>7, After DEF Are

(* an application leaves,                                                  *)
LEMMA LeavesKeeps ==
    ASSUME ProxyInv, NEW p \in Ends, ApplicationLeaves(p)
    PROVE  ProxyInv'
<1>1. PICK s, r, a, b, lost, w, v :
          Are(p, s, r, a, b, lost, w, v) /\ PairOK(s, r, a, b, lost, w, v)
  BY Before
<1>2. LoopOK(s, a) /\ a \in Applications
  BY <1>1 DEF PairOK, LoopOK
<1>3. PICK state \in {"closed", "reset"} :
          /\ app' = [app EXCEPT ![p].state = state]
          /\ a.state = "open" \/ state = "reset"
  BY <1>1, TwoIs DEF ApplicationLeaves, Are
<1>4. PICK c : c = [a EXCEPT !.state = state]
  OBVIOUS
<1>5. app' = Two(p, c, b) /\ proxy' = proxy /\ wire' = wire /\ broken' = broken
  <2>1. app' = [Two(p, a, b) EXCEPT ![p].state = state]
    BY <1>1, <1>3 DEF Are
  <2>2. app' = Two(p, c, b)
    BY <1>4, <2>1 DEF Two
  <2>. QED  BY <2>2 DEF ApplicationLeaves
<1>6. /\ c \in Applications /\ c.state = state /\ c.read = a.read /\ c.written = a.written
      /\ c.got = a.got /\ c.eof = a.eof
  BY <1>2, <1>4 DEF Applications
<1>7. LoopOK(s, c)
  BY <1>2, <1>6 DEF LoopOK
<1>8. PairOK(s, r, c, b, lost, w, v)
  BY <1>1, <1>3, <1>6, <1>7, QuietPair
<1>. QED  BY <1>1, <1>5, <1>8, After DEF Are

(* the connection between the proxies breaks,                              *)
LEMMA BreakKeeps ==
    ASSUME ProxyInv, Break
    PROVE  ProxyInv'
<1>. DEFINE p == "Client"
<1>1. p \in Ends /\ Other(p) \in Ends
  BY DEF Ends, Other
<1>2. PICK s, r, a, b, lost, w, v :
          Are(p, s, r, a, b, lost, w, v) /\ PairOK(s, r, a, b, lost, w, v)
  BY <1>1, Before
<1>3. PICK k \in [Ends -> 0..Capacity] :
          /\ \A e \in Ends : k[e] <= Len(wire[e])
          /\ wire' = [e \in Ends |-> SubSeq(wire[e], 1, k[e])]
  BY DEF Break
<1>4. PICK u, x : u = SubSeq(w, 1, k[p]) /\ x = SubSeq(v, 1, k[Other(p)])
  OBVIOUS
<1>5. wire' = Two(p, u, x)
  BY <1>1, <1>2, <1>3, <1>4, TwoIs DEF Are, Two, Ends, Other
<1>6. w \in Seq(Messages) /\ v \in Seq(Messages) /\ a \in Applications /\ b \in Applications
  BY <1>2 DEF PairOK, FlowOK, LoopOK
<1>7. Prefix(u, w) /\ Prefix(x, v)
  <2>1. wire[p] = w /\ wire[Other(p)] = v
    BY <1>1, <1>2, TwoIs DEF Are
  <2>2. k[p] \in 0..Len(w) /\ k[Other(p)] \in 0..Len(v)
    BY <1>1, <1>3, <1>6, <2>1, ProxyAssumption
  <2>. QED  BY <1>4, <1>6, <2>2, SubSeqPrefix
<1>8. FlowOK(s, r, a, b, TRUE, u) /\ FlowOK(r, s, b, a, TRUE, x)
  BY <1>2, <1>6, <1>7, FlowTruncated DEF PairOK
<1>9. PingOK(s, r, u, x) /\ PingOK(r, s, x, u)
  <2>1. Fewer(u, w, "Ping") /\ Fewer(u, w, "Pong") /\ Fewer(x, v, "Ping") /\ Fewer(x, v, "Pong")
    BY <1>6, <1>7, FewerBy
  <2>. QED  BY <1>2, <2>1, PingFewer DEF PairOK
<1>10. PairOK(s, r, a, b, TRUE, u, x)
  BY <1>2, <1>8, <1>9 DEF PairOK
<1>11. proxy' = Two(p, s, r) /\ app' = Two(p, a, b) /\ broken' = TRUE
  BY <1>2 DEF Are, Break
<1>. HIDE DEF p
<1>. QED  BY <1>1, <1>5, <1>10, <1>11, After
-----------------------------------------------------------------------------
(* The arms of select!.  A loop that starts to send does not change what   *)
(* arrives, nor the other one's pings.                                     *)
LEMMA StartsToSend ==
    ASSUME NEW s, NEW t, NEW r, NEW a, NEW c, NEW b, NEW lost, NEW w, NEW v,
           PairOK(s, r, a, b, lost, w, v), LoopOK(t, c), s.at = "select", t.at = "send",
           FlowOK(t, r, c, b, lost, w), PingOK(t, r, w, v),
           s.application_done => t.application_done, t.peer_done = s.peer_done,
           t.out.type # "Pong", c.got = a.got, c.eof = a.eof, c.state = a.state
    PROVE  PairOK(t, r, c, b, lost, w, v)
<1>1. ~Over(s) /\ ~Over(t) /\ ~WritesData(s) /\ ~WritesData(t) /\ ~SendsPong(t)
  BY DEF Over, WritesData, SendsPong
<1>2. FlowOK(r, t, b, c, lost, v)
  BY <1>1, ReceiverSame DEF PairOK
<1>3. Fewer(w, w, "Pong") /\ Fewer(v, v, "Ping")
  BY FewerBy DEF PairOK, FlowOK
<1>4. PingOK(r, t, v, w)
  BY <1>1, <1>3, PingFewer DEF PairOK
<1>. QED  BY <1>2, <1>4 DEF PairOK

(* a chunk or the end is read from the application,                        *)
LEMMA ReadPlaintextKeeps ==
    ASSUME ProxyInv, NEW p \in Ends, ReadPlaintext(p)
    PROVE  ProxyInv'
<1>1. PICK s, r, a, b, lost, w, v :
          Are(p, s, r, a, b, lost, w, v) /\ PairOK(s, r, a, b, lost, w, v)
  BY Before
<1>2. /\ LoopOK(s, a) /\ s \in Loops /\ a \in Applications /\ b \in Applications
      /\ w \in Seq(Messages) /\ v \in Seq(Messages)
  BY <1>1 DEF PairOK, LoopOK, FlowOK
<1>3. proxy = Two(p, s, r) /\ app = Two(p, a, b) /\ proxy[p] = s /\ app[p] = a
  BY <1>1, TwoIs DEF Are
<1>4. s.at = "select" /\ ~s.application_done /\ wire' = wire /\ broken' = broken
  BY <1>3 DEF ReadPlaintext, Selecting
<1>5. ~Over(s) /\ ~SendsData(s) /\ ~SendsPing(s)
  BY <1>4 DEF Over, SendsData, SendsPing
<1>6. Fewer(w, w, "Ping") /\ Fewer(v, v, "Pong")
  BY <1>2, FewerBy
<1>7. CASE /\ AtEof(p)
           /\ proxy' = [proxy EXCEPT ![p].application_done = TRUE,
                                     ![p].at = "send", ![p].out = HalfClose]
           /\ UNCHANGED app
  <2>1. a.state # "open" /\ a.read = a.written
    BY <1>3, <1>7 DEF AtEof
  <2>2. PICK t : t = [s EXCEPT !.application_done = TRUE, !.at = "send", !.out = HalfClose]
    OBVIOUS
  <2>3. proxy' = Two(p, t, r)
    BY <1>3, <1>7, <2>2 DEF Two
  <2>4. /\ t \in Loops /\ t.at = "send" /\ t.out = HalfClose /\ t.application_done
        /\ t.peer_done = s.peer_done /\ t.ping_queue = s.ping_queue
    BY <1>2, <2>2, MessagesMade DEF Loops
  <2>5. /\ t.out.type = "Binary" /\ t.out.chunk = 0
        /\ SendsHalf(t) /\ ~SendsData(t) /\ ~SendsPing(t) /\ ~Over(t)
    BY <2>4, MessagesMade DEF SendsHalf, SendsData, SendsPing, Half, Data, Over
  <2>6. LoopOK(t, a)
    BY <1>2, <1>4, <1>5, <2>1, <2>4, <2>5 DEF LoopOK
  <2>7. FlowOK(t, r, a, b, lost, w)
    BY <1>1, <1>2, <1>4, <1>5, <2>5, ReadFlow DEF PairOK
  <2>8. PingOK(t, r, w, v)
    BY <1>1, <1>5, <1>6, <2>4, <2>5, PingFewer DEF PairOK
  <2>9. PairOK(t, r, a, b, lost, w, v)
    BY <1>1, <1>4, <2>4, <2>5, <2>6, <2>7, <2>8, StartsToSend
  <2>. QED  BY <1>1, <1>4, <1>7, <2>3, <2>9, After DEF Are
<1>8. CASE /\ app[p].read < app[p].written
           /\ proxy' = [proxy EXCEPT ![p].at = "send", ![p].out = Binary(app[p].read + 1)]
           /\ app' = [app EXCEPT ![p].read = @ + 1]
  <2>1. PICK n \in Nat : n = a.read /\ n < a.written
    BY <1>2, <1>3, <1>8 DEF Applications
  <2>2. PICK t : t = [s EXCEPT !.at = "send", !.out = Binary(n + 1)]
    OBVIOUS
  <2>3. PICK c : c = [a EXCEPT !.read = n + 1]
    OBVIOUS
  <2>4. proxy' = Two(p, t, r)
    BY <1>3, <1>8, <2>1, <2>2 DEF Two
  <2>5. app' = Two(p, c, b)
    BY <1>3, <1>8, <2>1, <2>3 DEF Two
  <2>6. Binary(n + 1) \in Messages /\ Binary(n + 1).type = "Binary" /\ Binary(n + 1).chunk = n + 1
    BY MessagesMade
  <2>7. /\ t \in Loops /\ t.at = "send" /\ t.out = Binary(n + 1)
        /\ t.application_done = s.application_done
        /\ t.peer_done = s.peer_done /\ t.ping_queue = s.ping_queue
    BY <1>2, <2>2, <2>6 DEF Loops
  <2>8. /\ SendsData(t) /\ ~SendsHalf(t) /\ ~SendsPing(t) /\ ~Over(t)
        /\ t.out.type = "Binary" /\ t.out.chunk = n + 1
    BY <2>6, <2>7 DEF SendsData, SendsHalf, SendsPing, Data, Half, Over
  <2>9. /\ c \in Applications /\ c.read = n + 1 /\ c.written = a.written /\ c.state = a.state
        /\ c.got = a.got /\ c.eof = a.eof
    <3>1. PICK k \in Nat : k = n + 1
      OBVIOUS
    <3>2. c = [a EXCEPT !.read = k]
      BY <2>3, <3>1
    <3>3. /\ c \in Applications /\ c.read = k /\ c.written = a.written /\ c.state = a.state
          /\ c.got = a.got /\ c.eof = a.eof
      BY <1>2, <3>2 DEF Applications
    <3>. QED  BY <3>1, <3>3
  <2>10. c.read <= c.written
    BY <1>2, <2>1, <2>9 DEF Applications
  <2>11. LoopOK(t, c)
    BY <1>2, <1>4, <1>5, <2>7, <2>8, <2>9, <2>10 DEF LoopOK
  <2>12. FlowOK(t, r, c, b, lost, w)
    BY <1>1, <1>2, <1>4, <1>5, <2>1, <2>7, <2>8, <2>9, ReadFlow DEF PairOK
  <2>13. PingOK(t, r, w, v)
    BY <1>1, <1>5, <1>6, <2>7, <2>8, PingFewer DEF PairOK
  <2>14. PairOK(t, r, c, b, lost, w, v)
    BY <1>1, <1>4, <2>7, <2>8, <2>9, <2>11, <2>12, <2>13, StartsToSend
  <2>. QED  BY <1>1, <1>4, <2>4, <2>5, <2>14, After DEF Are
<1>. QED  BY <1>7, <1>8 DEF ReadPlaintext

(* it is time for a ping,                                                  *)
LEMMA TickKeeps ==
    ASSUME ProxyInv, NEW p \in Ends, Tick(p)
    PROVE  ProxyInv'
<1>1. PICK s, r, a, b, lost, w, v :
          Are(p, s, r, a, b, lost, w, v) /\ PairOK(s, r, a, b, lost, w, v)
  BY Before
<1>2. /\ LoopOK(s, a) /\ s \in Loops /\ proxy = Two(p, s, r) /\ proxy[p] = s
  BY <1>1, TwoIs DEF PairOK, LoopOK, Are
<1>3. CASE Fail(p)
  BY <1>3, Fails
<1>4. CASE s.ping_queue = << >>
  <2>1. PICK x \in PingPayloads :
            proxy' = [proxy EXCEPT ![p].at = "send", ![p].out = Ping(x), ![p].ping_queue = <<x>>]
    BY <1>2, <1>4 DEF Tick, Overdue
  <2>2. s.at = "select" /\ wire' = wire /\ app' = app /\ broken' = broken
    BY <1>2, <1>4 DEF Tick, Overdue, Selecting
  <2>3. PICK t : t = [s EXCEPT !.at = "send", !.out = Ping(x), !.ping_queue = <<x>>]
    OBVIOUS
  <2>4. proxy' = Two(p, t, r)
    BY <1>2, <2>1, <2>3 DEF Two
  <2>5. Ping(x) \in Messages /\ Ping(x).type = "Ping" /\ <<x>> \in Seq(PingPayloads)
    BY MessagesMade
  <2>6. /\ t \in Loops /\ t.at = "send" /\ t.out = Ping(x) /\ t.ping_queue = <<x>>
        /\ t.application_done = s.application_done /\ t.peer_done = s.peer_done
    BY <1>2, <2>3, <2>5 DEF Loops
  <2>7. /\ ~SendsData(t) /\ ~SendsHalf(t) /\ ~Over(t) /\ t.out.type = "Ping"
        /\ ~SendsData(s) /\ ~SendsHalf(s) /\ ~Over(s)
    BY <2>2, <2>5, <2>6 DEF SendsData, SendsHalf, Data, Half, Over
  <2>8. LoopOK(t, a)
    BY <1>2, <2>6, <2>7 DEF LoopOK
  <2>9. FlowOK(t, r, a, b, lost, w)
    BY <1>1, <2>6, <2>7, SenderSame DEF PairOK
  <2>10. PingOK(t, r, w, v)
    BY <1>1, <1>4, <2>6, <2>7, PingMade DEF PairOK
  <2>11. PairOK(t, r, a, b, lost, w, v)
    BY <1>1, <2>2, <2>6, <2>7, <2>8, <2>9, <2>10, StartsToSend
  <2>. QED  BY <1>1, <2>2, <2>4, <2>11, After DEF Are
<1>. QED  BY <1>2, <1>3, <1>4 DEF Tick

(* a chunk is written to the application.                                  *)
LEMMA WritePlaintextKeeps ==
    ASSUME ProxyInv, NEW p \in Ends, WritePlaintext(p)
    PROVE  ProxyInv'
<1>1. PICK s, r, a, b, lost, w, v :
          Are(p, s, r, a, b, lost, w, v) /\ PairOK(s, r, a, b, lost, w, v)
  BY Before
<1>2. /\ LoopOK(s, a) /\ LoopOK(r, b) /\ s \in Loops /\ a \in Applications
      /\ w \in Seq(Messages) /\ v \in Seq(Messages)
  BY <1>1 DEF PairOK, LoopOK, FlowOK
<1>3. proxy = Two(p, s, r) /\ app = Two(p, a, b) /\ proxy[p] = s /\ app[p] = a
  BY <1>1, TwoIs DEF Are
<1>4. CASE Fail(p)
  BY <1>4, Fails
<1>5. CASE /\ proxy' = [proxy EXCEPT ![p] = LoopTop(@)]
           /\ app' = IF app[p].state = "reset" THEN app
                     ELSE IF proxy[p].in = 0 THEN [app EXCEPT ![p].eof = TRUE]
                     ELSE [app EXCEPT ![p].got = Append(@, proxy[p].in)]
           /\ UNCHANGED <<wire, broken>>
  <2>1. s.at = "write"
    BY <1>3 DEF WritePlaintext
  <2>2. PICK t : t = LoopTop(s)
    OBVIOUS
  <2>3. proxy' = Two(p, t, r)
    <3>1. proxy' = [Two(p, s, r) EXCEPT ![p] = t]
      BY <1>3, <1>5, <2>2
    <3>. QED  BY <3>1, TwoIs
  <2>4. /\ t \in Loops /\ t.application_done = s.application_done
        /\ t.peer_done = s.peer_done /\ t.ping_queue = s.ping_queue
        /\ s.application_done /\ s.peer_done => t.at = "send" /\ t.out = Close
        /\ ~(s.application_done /\ s.peer_done) => t.at = "select"
    BY <1>2, <2>2, LoopTopFields
  <2>5. /\ ~Over(t) /\ ~SendsData(t) /\ ~SendsHalf(t) /\ ~SendsPing(t) /\ ~SendsPong(t)
        /\ ~WritesData(t)
    BY <2>4, MessagesMade
       DEF Over, SendsData, SendsHalf, Data, Half, SendsPing, SendsPong, WritesData
  <2>6. ~Over(s) /\ ~SendsData(s) /\ ~SendsHalf(s) /\ ~SendsPing(s) /\ ~SendsPong(s)
    BY <2>1 DEF Over, SendsData, SendsHalf, SendsPing, SendsPong
  <2>7. Fewer(w, w, "Ping") /\ Fewer(w, w, "Pong") /\ Fewer(v, v, "Ping") /\ Fewer(v, v, "Pong")
    BY <1>2, FewerBy
  <2>8. PingOK(t, r, w, v) /\ PingOK(r, t, v, w)
    BY <1>1, <2>4, <2>5, <2>6, <2>7, PingFewer DEF PairOK
  <2>9. ASSUME NEW c \in Applications, app' = Two(p, c, b), LoopOK(t, c),
               c.read = a.read, c.written = a.written, c.state = a.state,
               \/ a.state = "reset" /\ c = a
               \/ a.state # "reset" /\ s.in = 0 /\ c.got = a.got /\ c.eof
               \/ a.state # "reset" /\ s.in # 0 /\ c.eof = a.eof /\ Len(c.got) = Len(a.got) + 1
        PROVE  ProxyInv'
    <3>1. FlowOK(t, r, c, b, lost, w)
      BY <1>1, <2>4, <2>5, <2>6, <2>9, SenderSame DEF PairOK
    <3>2. FlowOK(r, t, b, c, lost, v)
      BY <1>1, <1>2, <2>1, <2>4, <2>5, <2>9, WriteFlow DEF PairOK
    <3>3. PairOK(t, r, c, b, lost, w, v)
      BY <1>1, <2>8, <2>9, <3>1, <3>2 DEF PairOK
    <3>4. wire' = Two(p, w, v) /\ broken' = lost
      BY <1>1, <1>5 DEF Are
    <3>. QED  BY <2>3, <2>9, <3>3, <3>4, After
  <2>10. ASSUME NEW c \in Applications, c.read = a.read, c.written = a.written,
                c.state = a.state, \A i \in 1..Len(c.got) : c.got[i] = i,
                c.eof => s.peer_done
         PROVE  LoopOK(t, c)
    <3>1. t.at = "send" /\ t.out.type = "Close" => t.application_done /\ t.peer_done
      BY <2>4
    <3>. QED  BY <1>2, <2>4, <2>5, <2>10, <3>1 DEF LoopOK
  <2>11. a.eof => s.peer_done
    BY <1>2, <2>6 DEF LoopOK
  <2>12. CASE a.state = "reset"
    <3>1. app' = Two(p, a, b)
      BY <1>3, <1>5, <2>12
    <3>2. LoopOK(t, a)
      BY <1>2, <2>10, <2>11 DEF LoopOK
    <3>. QED  BY <1>2, <2>9, <2>12, <3>1, <3>2
  <2>13. CASE a.state # "reset" /\ s.in = 0
    <3>1. PICK yes \in BOOLEAN : yes = TRUE
      BY Zenon
    <3>2. PICK c : c = [a EXCEPT !.eof = yes]
      OBVIOUS
    <3>3. app' = Two(p, c, b)
      <4>1. app' = [Two(p, a, b) EXCEPT ![p].eof = yes]
        BY <1>3, <1>5, <2>13, <3>1
      <4>. QED  BY <3>2, <4>1 DEF Two
    <3>4. /\ c \in Applications /\ c.read = a.read /\ c.written = a.written
          /\ c.state = a.state /\ c.got = a.got /\ c.eof = yes
      BY <1>2, <3>2 DEF Applications
    <3>5. c.eof
      BY <3>1, <3>4
    <3>6. s.peer_done
      BY <1>2, <2>1, <2>13 DEF LoopOK
    <3>7. LoopOK(t, c)
      BY <1>2, <2>10, <3>4, <3>6 DEF LoopOK
    <3>. QED  BY <2>9, <2>13, <3>3, <3>4, <3>5, <3>7
  <2>14. CASE a.state # "reset" /\ s.in # 0
    <3>1. PICK got : got = Append(a.got, s.in)
      OBVIOUS
    <3>2. PICK old \in Seq(Nat), n \in Nat : old = a.got /\ n = Len(a.got)
      BY <1>2 DEF Applications
    <3>3. s.in \in Nat
      BY <1>2 DEF Loops
    <3>4. /\ got \in Seq(Nat) /\ Len(got) = n + 1 /\ got[n + 1] = s.in
          /\ \A i \in 1..n : got[i] = old[i]
      BY <3>1, <3>2, <3>3, AppendProperties
    <3>5. s.in = n + 1
      <4>1. WritesData(s)
        BY <2>1, <2>14 DEF WritesData
      <4>2. ChunksOK(r, s, b, a, lost, v)
        BY <1>1, <2>14 DEF PairOK, FlowOK
      <4>. QED  BY <3>2, <4>1, <4>2 DEF ChunksOK, Base
    <3>6. \A i \in 1..Len(got) : got[i] = i
      <4>1. \A i \in 1..n : old[i] = i
        BY <1>2, <3>2 DEF LoopOK
      <4>. QED  BY <3>4, <3>5, <4>1
    <3>7. PICK c : c = [a EXCEPT !.got = got]
      OBVIOUS
    <3>8. app' = Two(p, c, b)
      <4>1. app' = [Two(p, a, b) EXCEPT ![p].got = got]
        BY <1>3, <1>5, <2>14, <3>1
      <4>. QED  BY <3>7, <4>1 DEF Two
    <3>9. /\ c \in Applications /\ c.read = a.read /\ c.written = a.written
          /\ c.state = a.state /\ c.got = got /\ c.eof = a.eof
      BY <1>2, <3>4, <3>7 DEF Applications
    <3>10. LoopOK(t, c)
      BY <2>10, <2>11, <3>6, <3>9
    <3>. QED  BY <2>9, <2>14, <3>2, <3>4, <3>8, <3>9, <3>10
  <2>. QED  BY <2>12, <2>13, <2>14
<1>. QED  BY <1>4, <1>5 DEF WritePlaintext

(* The loop goes on or ends.                                               *)
LEMMA LoopTopOK ==
    ASSUME NEW s, NEW a, LoopOK(s, a), ~Over(s), NEW t, t = LoopTop(s)
    PROVE  /\ LoopOK(t, a) /\ t.application_done = s.application_done
           /\ t.peer_done = s.peer_done /\ t.ping_queue = s.ping_queue
           /\ ~Over(t) /\ ~SendsData(t) /\ ~SendsHalf(t) /\ ~SendsPing(t) /\ ~SendsPong(t)
           /\ ~WritesData(t)
<1>1. /\ t \in Loops /\ t.application_done = s.application_done
      /\ t.peer_done = s.peer_done /\ t.ping_queue = s.ping_queue
      /\ s.application_done /\ s.peer_done => t.at = "send" /\ t.out = Close
      /\ ~(s.application_done /\ s.peer_done) => t.at = "select"
  BY LoopTopFields DEF LoopOK
<1>2. /\ ~Over(t) /\ ~SendsData(t) /\ ~SendsHalf(t) /\ ~SendsPing(t) /\ ~SendsPong(t)
      /\ ~WritesData(t)
  BY <1>1, MessagesMade
     DEF Over, SendsData, SendsHalf, Data, Half, SendsPing, SendsPong, WritesData
<1>3. LoopOK(t, a)
  BY <1>1, <1>2 DEF LoopOK
<1>. QED  BY <1>1, <1>2, <1>3

(* A message is sent to the other proxy,                                   *)
LEMMA SendEncryptedKeeps ==
    ASSUME ProxyInv, NEW p \in Ends, SendEncrypted(p)
    PROVE  ProxyInv'
<1>1. PICK s, r, a, b, lost, w, v :
          Are(p, s, r, a, b, lost, w, v) /\ PairOK(s, r, a, b, lost, w, v)
  BY Before
<1>2. /\ LoopOK(s, a) /\ s \in Loops /\ a \in Applications /\ b \in Applications
      /\ w \in Seq(Messages) /\ v \in Seq(Messages)
  BY <1>1 DEF PairOK, LoopOK, FlowOK
<1>3. /\ proxy = Two(p, s, r) /\ wire = Two(p, w, v) /\ broken = lost
      /\ proxy[p] = s /\ wire[p] = w /\ proxy[Other(p)] = r
  BY <1>1, TwoIs DEF Are
<1>4. PICK m \in Messages : m = s.out
  BY <1>2 DEF Loops
<1>5. s.at = "send" /\ ~Over(s) /\ ~WritesData(s)
  BY <1>3 DEF SendEncrypted, Over, WritesData
<1>6. PICK put : put = IF lost \/ Over(r) THEN w ELSE Append(w, m)
  OBVIOUS
<1>7. \/ Fail(p)
      \/ m = Close /\ Return(p, "done", put)
      \/ /\ m # Close /\ UNCHANGED <<app, broken>>
         /\ proxy' = [proxy EXCEPT ![p] = LoopTop(@)]
         /\ wire' = [wire EXCEPT ![p] = put]
  <2>1. (broken \/ Ended(Other(p))) <=> (lost \/ Over(r))
    BY <1>3 DEF Ended, Over
  <2>. QED  BY <1>3, <1>4, <1>6, <2>1 DEF SendEncrypted
<1>8. CASE Fail(p)
  BY <1>8, Fails
<1>9. CASE m = Close /\ Return(p, "done", put)
  <2>1. m.type = "Close" /\ ~SendsData(s) /\ ~SendsHalf(s)
    BY <1>4, <1>9, MessagesMade DEF SendsData, SendsHalf, Data, Half
  <2>2. FlowOK(s, r, a, b, lost, put)
    <3>1. CASE lost \/ Over(r)
      BY <1>1, <1>6, <3>1 DEF PairOK
    <3>2. CASE ~(lost \/ Over(r))
      <4>1. FlowOK(s, r, a, b, lost, Append(w, s.out))
        BY <1>1, <1>2, <1>5, <2>1, <3>2, SendFlow DEF PairOK
      <4>. QED  BY <1>4, <1>6, <3>2, <4>1
    <3>. QED  BY <3>1, <3>2
  <2>3. PingOK(r, s, v, put)
    <3>1. Fewer(w, w, "Pong") /\ Fewer(Append(w, m), w, "Pong") /\ Fewer(v, v, "Ping")
      BY <1>2, <2>1, FewerBy
    <3>2. Fewer(put, w, "Pong")
      BY <1>6, <3>1
    <3>. QED  BY <1>1, <3>1, <3>2, PingFewer DEF PairOK
  <2>. QED  BY <1>1, <1>9, <2>2, <2>3, Returns
<1>10. CASE /\ m # Close /\ UNCHANGED <<app, broken>>
            /\ proxy' = [proxy EXCEPT ![p] = LoopTop(@)]
            /\ wire' = [wire EXCEPT ![p] = put]
  <2>1. PICK t : t = LoopTop(s)
    OBVIOUS
  <2>2. proxy' = Two(p, t, r) /\ wire' = Two(p, put, v)
    <3>1. proxy' = [Two(p, s, r) EXCEPT ![p] = t] /\ wire' = [Two(p, w, v) EXCEPT ![p] = put]
      BY <1>3, <1>10, <2>1
    <3>2. [Two(p, s, r) EXCEPT ![p] = t] = Two(p, t, r)
      BY TwoIs
    <3>3. [Two(p, w, v) EXCEPT ![p] = put] = Two(p, put, v)
      BY TwoIs
    <3>. QED  BY <3>1, <3>2, <3>3
  <2>3. /\ LoopOK(t, a) /\ t.application_done = s.application_done
        /\ t.peer_done = s.peer_done /\ t.ping_queue = s.ping_queue
        /\ ~Over(t) /\ ~SendsData(t) /\ ~SendsHalf(t) /\ ~SendsPing(t) /\ ~SendsPong(t)
        /\ ~WritesData(t)
    BY <1>2, <1>5, <2>1, LoopTopOK
  <2>4. FlowOK(t, r, a, b, lost, put)
    <3>1. CASE lost \/ Over(r)
      BY <1>1, <1>2, <1>5, <1>6, <2>3, <3>1, SendVanishes DEF PairOK
    <3>2. CASE ~(lost \/ Over(r))
      <4>1. FlowOK(t, r, a, b, lost, Append(w, s.out))
        BY <1>1, <1>2, <1>5, <2>3, <3>2, SendFlow DEF PairOK
      <4>. QED  BY <1>4, <1>6, <3>2, <4>1
    <3>. QED  BY <3>1, <3>2
  <2>5. FlowOK(r, t, b, a, lost, v)
    BY <1>1, <1>5, <2>3, ReceiverSame DEF PairOK
  <2>6. Fewer(w, w, "Ping") /\ Fewer(w, w, "Pong") /\ Fewer(v, v, "Ping") /\ Fewer(v, v, "Pong")
    BY <1>2, FewerBy
  <2>7. /\ m.type # "Ping" => Fewer(Append(w, m), w, "Ping")
        /\ m.type # "Pong" => Fewer(Append(w, m), w, "Pong")
    BY <1>2, FewerBy
  <2>8. PingOK(t, r, put, v)
    <3>1. CASE SendsPing(s) /\ ~(lost \/ Over(r))
      <4>1. PingOK(t, r, Append(w, s.out), v)
        BY <1>1, <1>2, <2>3, <3>1, PingSent DEF PairOK
      <4>. QED  BY <1>4, <1>6, <3>1, <4>1
    <3>2. CASE ~SendsPing(s) \/ lost \/ Over(r)
      <4>1. Fewer(put, w, "Ping")
        BY <1>4, <1>5, <1>6, <2>6, <2>7, <3>2 DEF SendsPing
      <4>. QED  BY <1>1, <1>5, <2>3, <2>6, <4>1, PingFewer DEF PairOK
    <3>. QED  BY <3>1, <3>2
  <2>9. PingOK(r, t, v, put)
    <3>1. CASE SendsPong(s) /\ ~(lost \/ Over(r))
      <4>1. PingOK(r, t, v, Append(w, s.out))
        BY <1>1, <1>2, <2>3, <3>1, PongSent DEF PairOK
      <4>. QED  BY <1>4, <1>6, <3>1, <4>1
    <3>2. CASE ~SendsPong(s) \/ lost \/ Over(r)
      <4>1. Fewer(put, w, "Pong")
        BY <1>4, <1>5, <1>6, <2>6, <2>7, <3>2 DEF SendsPong
      <4>. QED  BY <1>1, <2>3, <2>6, <4>1, PingFewer DEF PairOK
    <3>. QED  BY <3>1, <3>2
  <2>10. PairOK(t, r, a, b, lost, put, v)
    BY <1>1, <2>3, <2>4, <2>5, <2>8, <2>9 DEF PairOK
  <2>. QED  BY <1>1, <1>10, <2>2, <2>10, After DEF Are
<1>. QED  BY <1>7, <1>8, <1>9, <1>10

(* A message is taken: what the loop's state t has to satisfy.             *)
LEMMA Takes ==
    ASSUME NEW p \in Ends, NEW s, NEW r, NEW a, NEW b, NEW lost, NEW w, NEW v, NEW t, NEW h,
           Are(p, s, r, a, b, lost, w, v), PairOK(s, r, a, b, lost, w, v),
           v # << >>, h = Head(v), s.at = "select",
           LoopOK(t, a), ~Over(t), ~SendsData(t), ~SendsHalf(t),
           t.application_done = s.application_done, t.peer_done <=> s.peer_done \/ Half(h),
           WritesData(t) <=> Data(h), WritesData(t) => t.in = h.chunk,
           PingOK(t, r, w, Tail(v)), PingOK(r, t, Tail(v), w),
           proxy' = [proxy EXCEPT ![p] = t], wire' = [wire EXCEPT ![Other(p)] = Tail(@)],
           UNCHANGED <<app, broken>>
    PROVE  ProxyInv'
<1>1. /\ ~Over(s) /\ ~WritesData(s) /\ ~SendsData(s) /\ ~SendsHalf(s)
      /\ LoopOK(r, b) /\ a \in Applications
  BY DEF Over, WritesData, SendsData, SendsHalf, PairOK, LoopOK
<1>2. PICK u : u = Tail(v)
  OBVIOUS
<1>3. FlowOK(t, r, a, b, lost, w)
  BY <1>1, SenderSame DEF PairOK
<1>4. FlowOK(r, t, b, a, lost, u)
  BY <1>1, <1>2, TakeHead DEF PairOK
<1>5. PairOK(t, r, a, b, lost, w, u)
  BY <1>2, <1>3, <1>4 DEF PairOK
<1>6. proxy' = Two(p, t, r)
  <2>1. [Two(p, s, r) EXCEPT ![p] = t] = Two(p, t, r)
    BY TwoIs
  <2>. QED  BY <2>1 DEF Are
<1>7. wire' = Two(p, w, u)
  <2>1. wire[Other(p)] = v /\ wire = Two(p, w, v)
    BY TwoIs DEF Are
  <2>2. wire' = [Two(p, w, v) EXCEPT ![Other(p)] = u]
    BY <1>2, <2>1
  <2>3. [Two(p, w, v) EXCEPT ![Other(p)] = u] = Two(p, w, u)
    BY TwoIs
  <2>. QED  BY <2>2, <2>3
<1>. QED  BY <1>5, <1>6, <1>7, After DEF Are

(* or one is read.                                                         *)
LEMMA ReadEncryptedKeeps ==
    ASSUME ProxyInv, NEW p \in Ends, ReadEncrypted(p)
    PROVE  ProxyInv'
<1>1. PICK s, r, a, b, lost, w, v :
          Are(p, s, r, a, b, lost, w, v) /\ PairOK(s, r, a, b, lost, w, v)
  BY Before
<1>2. /\ LoopOK(s, a) /\ s \in Loops /\ a \in Applications /\ b \in Applications
      /\ w \in Seq(Messages) /\ v \in Seq(Messages)
  BY <1>1 DEF PairOK, LoopOK, FlowOK
<1>3. proxy[p] = s /\ wire[Other(p)] = v
  BY <1>1, TwoIs DEF Are
<1>4. s.at = "select" /\ v # << >>
  BY <1>3 DEF ReadEncrypted, Selecting
<1>5. PICK h \in Messages : h = Head(v)
  BY <1>2, <1>4, EmptySeq, HeadTailProperties
<1>6. h = v[1] /\ 1 \in 1..Len(v)
  BY <1>2, <1>4, <1>5, EmptySeq, HeadTailProperties
<1>7. /\ ~Over(s) /\ ~SendsPing(s) /\ ~SendsPong(s)
      /\ Fewer(w, w, "Ping") /\ Fewer(w, w, "Pong")
      /\ Fewer(Tail(v), v, "Ping") /\ Fewer(Tail(v), v, "Pong")
  BY <1>2, <1>4, FewerBy DEF Over, SendsPing, SendsPong
<1>. DEFINE Continue(t) == /\ proxy' = [proxy EXCEPT ![p] = t]
                           /\ wire' = [wire EXCEPT ![Other(p)] = Tail(@)]
                           /\ UNCHANGED <<app, broken>>
            mine == [s EXCEPT !.ping_queue = SubSeq(@, 1, Len(@) - 1)]
<1>8. CASE /\ h.type = "Binary" /\ ~s.peer_done
           /\ Continue([s EXCEPT !.at = "write", !.in = h.chunk, !.peer_done = h = HalfClose])
  <2>1. PICK half \in BOOLEAN : half = (h = HalfClose)
    BY Zenon
  <2>2. PICK c \in Nat : c = h.chunk
    BY <1>8, MessageKinds
  <2>3. PICK t : t = [s EXCEPT !.at = "write", !.in = c, !.peer_done = half]
    OBVIOUS
  <2>4. Continue(t)
    BY <1>8, <2>1, <2>2, <2>3
  <2>5. /\ t \in Loops /\ t.at = "write" /\ t.in = c /\ t.out = s.out /\ t.peer_done = half
        /\ t.application_done = s.application_done /\ t.ping_queue = s.ping_queue
    BY <1>2, <2>3 DEF Loops
  <2>6. /\ half <=> Half(h)
        /\ Half(h) <=> c = 0
        /\ Data(h) <=> c # 0
    BY <1>8, <2>1, <2>2, MessageKinds DEF Half, Data
  <2>7. /\ ~Over(t) /\ ~SendsData(t) /\ ~SendsHalf(t) /\ ~SendsPing(t) /\ ~SendsPong(t)
        /\ WritesData(t) <=> Data(h)
    BY <2>5, <2>6 DEF Over, SendsData, SendsHalf, SendsPing, SendsPong, WritesData
  <2>8. t.peer_done <=> s.peer_done \/ Half(h)
    BY <1>8, <2>5, <2>6
  <2>9. LoopOK(t, a)
    <3>1. t.in = 0 <=> t.peer_done
      BY <2>5, <2>6
    <3>2. ~a.eof
      BY <1>2, <1>7, <1>8 DEF LoopOK
    <3>. QED  BY <1>2, <2>5, <2>7, <3>1, <3>2 DEF LoopOK
  <2>10. PingOK(t, r, w, Tail(v)) /\ PingOK(r, t, Tail(v), w)
    BY <1>1, <1>7, <2>5, <2>7, PingFewer DEF PairOK
  <2>. QED  BY <1>1, <1>4, <1>5, <2>2, <2>4, <2>5, <2>7, <2>8, <2>9, <2>10, Takes
<1>9. CASE /\ h.type = "Ping"
           /\ Continue([s EXCEPT !.at = "send", !.out = Pong(h.payload)])
  <2>1. PICK x \in PingPayloads : x = h.payload
    BY <1>9, MessageKinds
  <2>2. PICK t : t = [s EXCEPT !.at = "send", !.out = Pong(x)]
    OBVIOUS
  <2>3. Continue(t)
    BY <1>9, <2>1, <2>2
  <2>4. Pong(x) \in Messages /\ Pong(x).type = "Pong"
    BY MessagesMade
  <2>5. /\ t \in Loops /\ t.at = "send" /\ t.out = Pong(x) /\ t.peer_done = s.peer_done
        /\ t.application_done = s.application_done /\ t.ping_queue = s.ping_queue
    BY <1>2, <2>2, <2>4 DEF Loops
  <2>6. /\ ~Over(t) /\ ~SendsData(t) /\ ~SendsHalf(t) /\ ~SendsPing(t) /\ ~WritesData(t)
        /\ ~Data(h) /\ ~Half(h) /\ t.out.type = "Pong"
    BY <1>9, <2>4, <2>5 DEF Over, SendsData, SendsHalf, SendsPing, WritesData, Data, Half
  <2>7. LoopOK(t, a)
    BY <1>2, <1>4, <1>7, <2>5, <2>6 DEF LoopOK
  <2>8. PingOK(t, r, w, Tail(v))
    BY <1>1, <1>7, <2>5, <2>6, PingFewer DEF PairOK
  <2>9. PingOK(r, t, Tail(v), w)
    BY <1>1, <1>2, <1>4, <1>5, <1>9, <2>1, <2>5, PingTaken DEF PairOK
  <2>. QED  BY <1>1, <1>4, <1>5, <2>3, <2>5, <2>6, <2>7, <2>8, <2>9, Takes
<1>10. h.type = "Pong" => s.ping_queue = <<h.payload>>
  BY <1>1, <1>2, <1>4, <1>5, <1>7, PongExpected DEF PairOK
<1>11. CASE h.type = "Pong" /\ Continue(LoopTop(mine))
  <2>1. PICK x \in PingPayloads : x = h.payload
    BY <1>11, MessageKinds
  <2>2. SubSeq(<<x>>, 1, Len(<<x>>) - 1) = << >>
    OBVIOUS
  <2>3. mine = [s EXCEPT !.ping_queue = << >>]
    BY <1>10, <1>11, <2>1, <2>2
  <2>. HIDE DEF mine
  <2>4. /\ mine \in Loops /\ mine.ping_queue = << >> /\ mine.at = s.at
        /\ mine.application_done = s.application_done /\ mine.peer_done = s.peer_done
    <3>1. << >> \in Seq(PingPayloads)
      OBVIOUS
    <3>2. PICK none \in Seq(PingPayloads) : none = << >>
      BY <3>1, Zenon
    <3>3. mine = [s EXCEPT !.ping_queue = none]
      BY <2>3, <3>2
    <3>4. /\ mine \in Loops /\ mine.ping_queue = none /\ mine.at = s.at
          /\ mine.application_done = s.application_done /\ mine.peer_done = s.peer_done
      BY <1>2, <3>3 DEF Loops
    <3>. QED  BY <3>2, <3>4
  <2>5. LoopOK(mine, a) /\ ~Over(mine)
    BY <1>2, <1>4, <1>7, <2>4 DEF LoopOK, SendsData, SendsHalf, Over
  <2>6. PICK t : t = LoopTop(mine)
    OBVIOUS
  <2>7. /\ LoopOK(t, a) /\ t.application_done = s.application_done
        /\ t.peer_done = s.peer_done /\ t.ping_queue = << >>
        /\ ~Over(t) /\ ~SendsData(t) /\ ~SendsHalf(t) /\ ~SendsPing(t) /\ ~SendsPong(t)
        /\ ~WritesData(t)
    BY <2>4, <2>5, <2>6, LoopTopOK
  <2>8. Continue(t) /\ ~Data(h) /\ ~Half(h)
    BY <1>11, <2>6 DEF Data, Half
  <2>9. PingOK(t, r, w, Tail(v))
    BY <1>1, <1>2, <1>4, <1>5, <1>7, <1>11, <2>7, PongTaken DEF PairOK
  <2>10. PingOK(r, t, Tail(v), w)
    BY <1>1, <1>7, <2>7, PingFewer DEF PairOK
  <2>. QED  BY <1>1, <1>4, <1>5, <2>7, <2>8, <2>9, <2>10, Takes
<1>12. ~(h.type = "Binary" /\ s.peer_done)
  BY <1>1, <1>6 DEF PairOK, FlowOK, ClosingOK
<1>13. h.type # "Close"
  <2>1. h.type = "Close" => s.application_done /\ s.peer_done
    BY <1>1, <1>6 DEF PairOK, FlowOK, ClosingOK
  <2>. QED  BY <1>2, <1>4, <2>1 DEF LoopOK
<1>14. h.type = "Pong" => s.ping_queue # << >> /\ s.ping_queue[Len(s.ping_queue)] = h.payload
  <2>1. PICK x : x = h.payload
    OBVIOUS
  <2>2. <<x>> # << >> /\ <<x>>[Len(<<x>>)] = x
    OBVIOUS
  <2>. QED  BY <1>10, <2>1, <2>2
<1>. HIDE DEF mine
<1>. QED  BY <1>3, <1>5, <1>8, <1>9, <1>11, <1>12, <1>13, <1>14 DEF ReadEncrypted, mine

-----------------------------------------------------------------------------
(* The invariant holds at first.                                           *)
LEMMA ProxyStarts ==
    ASSUME ProxyInit
    PROVE  ProxyInv
<1>. DEFINE s == [NewProxy EXCEPT !.at = "setup"]
<1>1. /\ s \in Loops /\ s.at = "setup" /\ s.ping_queue = << >>
      /\ ~s.application_done /\ ~s.peer_done
  BY IdleIs
<1>. HIDE DEF s
<1>2. PICK chunks \in [Ends -> Nat] : app = [p \in Ends |-> Application(chunks[p])]
  BY ProxyAssumption DEF ProxyInit
<1>3. PICK m \in Nat, n \in Nat : m = chunks["Client"] /\ n = chunks["Server"]
  BY DEF Ends
<1>4. PICK a, b : a = Application(m) /\ b = Application(n)
  OBVIOUS
<1>5. ASSUME NEW c \in Nat
      PROVE  /\ Application(c) \in Applications /\ Application(c).written = c
             /\ Application(c).read = 0 /\ Application(c).got = << >> /\ ~Application(c).eof
             /\ Application(c).state = "open"
  <2>1. PICK no \in BOOLEAN : no = FALSE
    BY Zenon
  <2>2. << >> \in Seq(Nat)
    OBVIOUS
  <2>3. [state |-> "open", written |-> c, read |-> 0, got |-> << >>, eof |-> no] \in Applications
    BY <2>2 DEF Applications
  <2>4. Application(c) \in Applications
    BY <2>1, <2>3, Zenon DEF Application
  <2>. QED  BY <2>4 DEF Application
<1>6. ASSUME NEW c, NEW k \in Nat, c = Application(k) PROVE LoopOK(s, c)
  <2>1. c \in Applications /\ c.read = 0 /\ c.written = k /\ c.got = << >> /\ ~c.eof
    BY <1>5, <1>6
  <2>2. c.read <= c.written /\ \A i \in 1..Len(c.got) : c.got[i] = i
    BY <2>1
  <2>. QED  BY <1>1, <2>1, <2>2 DEF LoopOK, SendsHalf, SendsData
<1>7. ASSUME NEW c, NEW d, NEW k \in Nat, NEW l \in Nat, c = Application(k), d = Application(l)
      PROVE  FlowOK(s, s, c, d, FALSE, << >>)
  <2>1. c.read = 0 /\ Len(d.got) = 0 /\ ~d.eof
    BY <1>5, <1>7
  <2>2. << >> \in Seq(Messages) /\ Len(<< >>) = 0 /\ \A i \in 1..0 : FALSE
    OBVIOUS
  <2>3. ~Over(s) /\ ~WritesData(s) /\ ~SendsData(s)
    BY <1>1 DEF Over, WritesData, SendsData
  <2>4. Base(s, d) = 0 /\ Unsent(s, c) = 0
    BY <2>1, <2>3 DEF Base, Unsent
  <2>5. ClosingOK(s, s, c, FALSE, << >>)
    BY <1>1, <2>2, <2>3 DEF ClosingOK, HasHalf
  <2>6. ChunksOK(s, s, c, d, FALSE, << >>)
    BY <1>1, <2>1, <2>2, <2>3, <2>4 DEF ChunksOK, Consecutive
  <2>7. Len(d.got) <= c.read
    BY <2>1
  <2>. QED  BY <2>1, <2>2, <2>5, <2>6, <2>7 DEF FlowOK
<1>8. PingOK(s, s, << >>, << >>)
  <2>1. At(<< >>, "Ping") = {} /\ At(<< >>, "Pong") = {}
    BY DEF At
  <2>. QED  BY <1>1, <2>1 DEF PingOK, SendsPing, SendsPong
<1>9. PairOK(s, s, a, b, FALSE, << >>, << >>)
  BY <1>3, <1>4, <1>6, <1>7, <1>8 DEF PairOK
<1>10. /\ proxy = [e \in Ends |-> proxy[e]] /\ proxy["Client"] = s /\ proxy["Server"] = s
  BY DEF ProxyInit, Ends, s
<1>11. /\ app = [e \in Ends |-> app[e]] /\ app["Client"] = a /\ app["Server"] = b
  BY <1>2, <1>3, <1>4 DEF Ends
<1>12. /\ wire = [e \in Ends |-> wire[e]] /\ wire["Client"] = << >> /\ wire["Server"] = << >>
       /\ broken = FALSE
  BY DEF ProxyInit, Ends
<1>. QED  BY <1>9, <1>10, <1>11, <1>12 DEF ProxyInv

(* Every step keeps it.                                                    *)
LEMMA ProxyKeeps ==
    ASSUME ProxyInv, [ProxyNext]_proxyVars
    PROVE  ProxyInv'
<1>1. CASE UNCHANGED proxyVars
  BY <1>1 DEF proxyVars, ProxyInv
<1>2. ASSUME NEW p \in Ends, SetupFails(p) \/ ReadFails(p) PROVE ProxyInv'
  BY <1>2, Fails DEF SetupFails, ReadFails
<1>. QED  BY <1>1, <1>2, EstablishedKeeps, ReadPlaintextKeeps, ReadEncryptedKeeps, TickKeeps,
             SendEncryptedKeeps, WritePlaintextKeeps, LeavesKeeps, BreakKeeps DEF ProxyNext

(* The invariant says that the tunnel is sound.                            *)
LEMMA InvariantSuffices ==
    ASSUME ProxyInv
    PROVE  TunnelSound
<1>1. ASSUME NEW p \in Ends
      PROVE  /\ Len(app[p].got) <= app[Other(p)].written
             /\ \A i \in 1..Len(app[p].got) : app[p].got[i] = i
             /\ app[p].eof => /\ app[Other(p)].state # "open"
                              /\ app[p].state = "reset" \/ Len(app[p].got) = app[Other(p)].written
             /\ proxy[p].at # "protocol_error"
  <2>1. PICK s, r, a, b, lost, w, v :
            Are(p, s, r, a, b, lost, w, v) /\ PairOK(s, r, a, b, lost, w, v)
    BY Before
  <2>2. app[p] = a /\ app[Other(p)] = b /\ proxy[p] = s
    BY <2>1, TwoIs DEF Are
  <2>3. LoopOK(s, a) /\ LoopOK(r, b) /\ FlowOK(r, s, b, a, lost, v)
    BY <2>1 DEF PairOK
  <2>4. /\ s.at # "protocol_error" /\ \A i \in 1..Len(a.got) : a.got[i] = i
        /\ b.read <= b.written /\ b.read \in Nat /\ b.written \in Nat /\ Len(a.got) \in Nat
    BY <2>3 DEF LoopOK, Loops, Applications
  <2>5. /\ Len(a.got) <= b.read
        /\ a.eof => b.state # "open" /\ (a.state = "reset" \/ Len(a.got) = b.written)
    BY <2>3 DEF FlowOK
  <2>. QED  BY <2>2, <2>4, <2>5
<1>. QED  BY <1>1 DEF TunnelSound, TunnelFaithful, NoProtocolError

(* For every number of chunks, pings and messages in transit, and whatever *)
(* breaks: what proxy() writes to an application is what the other one     *)
(* wrote, in order and complete before its end, and no loop takes what the *)
(* other one sends for a violation of the protocol.                        *)
THEOREM TunnelIsSound == ProxySpec => []TunnelSound
<1>1. ProxyInit => ProxyInv
  BY ProxyStarts
<1>2. ProxyInv /\ [ProxyNext]_proxyVars => ProxyInv'
  BY ProxyKeeps
<1>3. ProxyInv => TunnelSound
  BY InvariantSuffices
<1>. QED  BY <1>1, <1>2, <1>3, PTL DEF ProxySpec
=============================================================================

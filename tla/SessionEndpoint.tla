--------------------------- MODULE SessionEndpoint ---------------------------
(***************************************************************************)
(* One endpoint of an Oak session (oak_session/src/session.rs, with its    *)
(* attestation.rs and handshake.rs handlers), as operators on a session    *)
(* record.  Each public method of ClientSession and ServerSession is an    *)
(* operator that yields the SET of its possible outcomes                   *)
(*     [s |-> session afterwards, out |-> message or None, ok |-> BOOLEAN] *)
(* because injected providers may fail; ok is FALSE where the method       *)
(* returns Err.  Modules Session and SessionInit compose endpoints.        *)
(*                                                                         *)
(* Cryptography is symbolic.  A Noise handshake hash is the pair <<client  *)
(* session, server session>> whose ephemeral keys went into it.  Evidence  *)
(* and session binders belong to the Host a session runs on; assertions    *)
(* are generated per session.  A binding is the message that carries it:   *)
(* its sender, the hash and the attestation token it was made over.        *)
(***************************************************************************)
EXTENDS Attestation, NoiseAead, Sequences

CONSTANTS Clients, Servers,     \* session identifiers
          Host,                 \* [Clients \cup Servers -> hosts]
          TrustedHosts,         \* hosts whose evidence and assertions verify
          NoisePeers,           \* <<c, s>>: s can decrypt c's first message
          ProvidersMayFail,     \* whether injected providers may return Err
          MaxQueue,             \* DEFAULT_MAX_MESSAGE_QUEUE_LEN
          None                  \* Option::None

Sessions == Clients \cup Servers

ASSUME EndpointAssumption ==
    /\ Clients \cap Servers = {}
    /\ NoisePeers \subseteq Clients \X Servers
    /\ ProvidersMayFail \in BOOLEAN
    /\ MaxQueue \in Nat \ {0}

Outcome(session, message, success) ==
    [s |-> session, out |-> message, ok |-> success]

(* The results a call to an injected provider may have.                    *)
ProviderOk == IF ProvidersMayFail THEN {TRUE, FALSE} ELSE {TRUE}

-----------------------------------------------------------------------------
(* ClientSession::create and ServerSession::create, with the attestation   *)
(* handler they build; the handshake fields are filled in by Step::next.   *)
NewSession(p, config) ==
    [id             |-> p,
     cfg            |-> config,
     step           |-> "Attestation",
     attest_message |-> TRUE,    \* attest_request / attest_response is Some
     verdict        |-> None,    \* attestation_result
     token          |-> << >>,   \* attestation_binding_token
     initial        |-> FALSE,   \* initial_message is Some
     spoiled        |-> FALSE,   \* HandshakeInitiator failed half-way
     followup       |-> None,    \* followup_message
     expect_binding |-> FALSE,   \* client_binding_expected
     noise_response |-> None,    \* the server's Noise state, by its hash
     response       |-> None,    \* handshake_response
     result         |-> None,    \* handshake_result
     hash           |-> None,    \* handshake_binding_token of an open session
     read_nonce     |-> 0,
     write_nonce    |-> 0,
     outgoing       |-> << >>,
     incoming       |-> << >>,
     published      |-> 0]       \* calls of the AttestationPublisher

(* Messages.  The attest messages carry what the sender's configuration    *)
(* yields; endorsements without evidence are not sent.                     *)
AttestMessage(s) ==
    [type       |-> "Attest",
     from       |-> s.id,
     evidence   |-> s.cfg.attesters,
     endorsed   |-> s.cfg.attesters \cap s.cfg.endorsers,
     assertions |-> s.cfg.generators]

InitialMessage(s) ==
    [type |-> "Handshake", from |-> s.id, noise |-> TRUE, hash |-> None,
     bindings |-> {}, assertion_bindings |-> {}, token |-> << >>]

(* The bindings of a party: each binder signs the hash, each assertion the *)
(* hash together with the attestation token (create_session_binding_token) *)
BindingMessage(s, has_noise, h) ==
    [type |-> "Handshake", from |-> s.id, noise |-> has_noise, hash |-> h,
     bindings |-> s.cfg.binders, assertion_bindings |-> s.cfg.generators,
     token |-> s.token]

EncryptedMessage(s, d) ==
    [type |-> "Encrypted", from |-> s.id, hash |-> s.hash,
     sealed |-> Seal(s.write_nonce, d)]

-----------------------------------------------------------------------------
(*                        The attestation handlers                         *)

(* serialize_assertions appended to the token; no assertions, no bytes.    *)
ExtendToken(s, owner, assertions) ==
    IF assertions = {} THEN s ELSE [s EXCEPT !.token = Append(@, owner)]

(* get_outgoing_message of either handler: the token is extended on every  *)
(* call, also when the message was already taken.                          *)
AttesterTake(s) ==
    [ExtendToken(s, s.id, s.cfg.generators) EXCEPT !.attest_message = FALSE]

Quality(m) == IF Host[m.from] \in TrustedHosts THEN "good" ELSE "bad"

Verdict(cfg, m) ==
    LET legacy == CombineAttestationResults(cfg.verifiers,
                     [id \in m.evidence |->
                        IF id \in m.endorsed THEN Quality(m) ELSE "partial"])
        assertion == CombineAssertionResults(cfg.assertion_verifiers,
                        [id \in m.assertions |-> Quality(m)])
    IN  [legacy    |-> legacy,
         assertion |-> assertion,
         passed    |-> AttestationPassed(legacy, cfg.aggregator, assertion),
         peer      |-> m.from]

(* put_incoming_message of either handler: the token is extended before    *)
(* the check whether a message is still expected.                          *)
AttesterPut(s, m) ==
    LET extended == ExtendToken(s, m.from, m.assertions)
    IN  IF s.verdict # None
        THEN Outcome(extended, None, FALSE)
        ELSE Outcome([extended EXCEPT !.verdict = Verdict(s.cfg, m)], None, TRUE)

-----------------------------------------------------------------------------
(*                              Step::next                                 *)

(* Variants used to test the properties, each a mistake the code avoids.   *)
MutNoSessionBinding(s) == TRUE
MutNoAssertionBinding(s) == TRUE

(* verify_session_binding: every ID verified successfully needs a binding  *)
(* made by that evidence's host over this session's hash.                  *)
SessionBindingVerified(s) ==
    \A id \in IdsWith(s.verdict.legacy, {"Success"}) :
        LET b == s.result.from_peer
        IN  /\ b # None
            /\ id \in b.bindings
            /\ Host[b.from] = Host[s.verdict.peer]
            /\ b.hash = s.result.hash

(* verify_assertion_session_binding: likewise for assertions, whose        *)
(* bindings also cover everything exchanged in the attestation phase.      *)
AssertionBindingVerified(s) ==
    \A id \in IdsWith(s.verdict.assertion, {"Success"}) :
        LET b == s.result.from_peer
        IN  /\ b # None
            /\ id \in b.assertion_bindings
            /\ b.from = s.verdict.peer
            /\ b.hash = s.result.hash
            /\ b.token = s.token

Failed(s) == [s EXCEPT !.step = "Error"]
Publish(s) == [s EXCEPT !.published = @ + 1]

MutIgnoreVerdict(s) ==
    {Outcome([s EXCEPT !.step = "Handshake",
                       !.initial = s.id \in Clients,
                       !.expect_binding = NeedsSessionBindings(
                           s.verdict.legacy, s.verdict.assertion)], None, TRUE)}

MutPublishesEarly(s) ==
    IF s.verdict = None \/ ~s.verdict.passed
    THEN {Outcome(Failed(Publish(s)), None, FALSE)}
    ELSE MutIgnoreVerdict(Publish(s))

(* From Attestation.  take_attestation_state fails without a verdict or    *)
(* when a binding verifier cannot be created; building the handshake       *)
(* handler may fail too.  The handshake handler starts with the initial    *)
(* message prepared (client) or knowing whether bindings are expected.     *)
NextFromAttestation(s) ==
    IF s.verdict = None THEN {Outcome(Failed(s), None, FALSE)}
    ELSE {Outcome(Failed(s), None, FALSE) : ok \in ProviderOk \ {TRUE}} \cup
         IF ~s.verdict.passed
         THEN {Outcome(Failed(Publish(s)), None, FALSE)}
         ELSE {Outcome([s EXCEPT !.step = "Handshake",
                                 !.initial = s.id \in Clients,
                                 !.expect_binding = NeedsSessionBindings(
                                     s.verdict.legacy, s.verdict.assertion)],
                       None, TRUE)}

(* From Handshake.  The result is present: every caller has checked        *)
(* is_handshake_complete.  An encryptor provider that fails leaves the     *)
(* temporary Invalid step behind.                                          *)
NextFromHandshake(s) ==
    IF ~SessionBindingVerified(s) \/ ~AssertionBindingVerified(s)
    THEN {Outcome(Failed(Publish(s)), None, FALSE)}
    ELSE {Outcome([Publish(s) EXCEPT
                     !.step = IF ok THEN "Open" ELSE "Invalid",
                     !.hash = IF ok THEN s.result.hash ELSE None], None, ok)
            : ok \in ProviderOk}

-----------------------------------------------------------------------------
(*                        get_outgoing_message                             *)

Rejects(s) == {Outcome(s, None, FALSE)}

(* The outcomes of Step::next, the message handed over when it succeeds    *)
(* and lost when it fails.                                                 *)
ThenNext(outcomes, m) ==
    {[o EXCEPT !.out = IF o.ok THEN m ELSE None] : o \in outcomes}

(* Pops the queue of encrypted messages; an empty queue is Ok(None).       *)
PopOutgoing(s) ==
    IF s.outgoing = << >>
    THEN {Outcome(s, None, TRUE)}
    ELSE {Outcome([s EXCEPT !.outgoing = Tail(@)], Head(s.outgoing), TRUE)}

ClientGetOutgoing(s) ==
    CASE s.step = "Attestation" ->
            IF s.attest_message
            THEN {Outcome(AttesterTake(s), AttestMessage(s), TRUE)}
            ELSE Rejects(AttesterTake(s))
      [] s.step = "Handshake" /\ s.initial ->
            {Outcome([s EXCEPT !.initial = FALSE], InitialMessage(s), TRUE)}
      [] s.step = "Handshake" /\ ~s.initial /\ s.followup # None ->
            ThenNext(NextFromHandshake([s EXCEPT !.followup = None]), s.followup)
      [] s.step = "Handshake" /\ ~s.initial /\ s.followup = None ->
            PopOutgoing(s)
      [] s.step = "Open" -> PopOutgoing(s)
      [] s.step \in {"Invalid", "Error"} -> Rejects(s)

MutServerNeverOpens(s) ==
    CASE s.step = "Attestation" ->
            IF s.attest_message
            THEN ThenNext(NextFromAttestation(AttesterTake(s)), AttestMessage(s))
            ELSE Rejects(AttesterTake(s))
      [] s.step = "Handshake" ->
            {Outcome([s EXCEPT !.response = None], s.response, TRUE)}
      [] s.step = "Open" -> PopOutgoing(s)
      [] s.step \in {"Invalid", "Error"} -> Rejects(s)

(* The server leaves Attestation by handing out its response, also when    *)
(* no request has arrived: it then has no verdict and fails.               *)
ServerGetOutgoing(s) ==
    CASE s.step = "Attestation" ->
            IF s.attest_message
            THEN ThenNext(NextFromAttestation(AttesterTake(s)), AttestMessage(s))
            ELSE Rejects(AttesterTake(s))
      [] s.step = "Handshake" ->
            LET taken == [s EXCEPT !.response = None]
            IN  IF s.result # None
                THEN ThenNext(NextFromHandshake(taken), s.response)
                ELSE {Outcome(taken, s.response, TRUE)}
      [] s.step = "Open" -> PopOutgoing(s)
      [] s.step \in {"Invalid", "Error"} -> Rejects(s)

-----------------------------------------------------------------------------
(*                        put_incoming_message                             *)

(* An encrypted message is queued, not opened, and refused when the queue  *)
(* is full.                                                                *)
PutEncrypted(s, m) ==
    IF Len(s.incoming) < MaxQueue
    THEN {Outcome([s EXCEPT !.incoming = Append(@, m)], None, TRUE)}
    ELSE Rejects(s)

(* ClientHandshakeHandler::put_incoming_message.  process_response mixes   *)
(* the peer's key into the Noise state before the tag is checked, so a     *)
(* response that fails spoils every later one, unless its key could not    *)
(* even be parsed.  A failing assertion binder comes after that, too.      *)
ClientPutHandshake(s, m) ==
    IF s.result # None THEN Rejects(s)
    ELSE IF s.spoiled \/ m.hash # <<s.id, m.from>>
    THEN Rejects([s EXCEPT !.spoiled = TRUE])
           \cup (IF m.hash = None THEN Rejects(s) ELSE {})
    ELSE LET binds  == s.cfg.binders # {} \/ s.cfg.generators # {}
             taken  == [s EXCEPT
                          !.spoiled  = TRUE,
                          !.followup = IF binds
                                       THEN BindingMessage(s, FALSE, m.hash)
                                       ELSE None,
                          !.result   = [hash |-> m.hash, from_peer |-> m]]
         IN  (IF binds THEN {Outcome(taken, None, TRUE)}
                       ELSE NextFromHandshake(taken))
               \cup {Outcome([s EXCEPT !.spoiled = TRUE], None, FALSE)
                        : ok \in IF s.cfg.generators = {} THEN {}
                                 ELSE ProviderOk \ {TRUE}}

ClientPut(s, m) ==
    CASE m.type = "Attest" /\ s.step = "Attestation" ->
            LET put == AttesterPut(s, m)
            IN  IF put.ok THEN NextFromAttestation(put.s) ELSE {put}
      [] m.type = "Handshake" /\ s.step = "Handshake" -> ClientPutHandshake(s, m)
      [] m.type = "Encrypted" /\ s.step = "Open" -> PutEncrypted(s, m)
      [] OTHER -> Rejects(s)

(* A variant used to test the properties: a first message that comes while *)
(* a follow-up is expected is answered, in place of the one before it.     *)
MutAnswersAgain(s, m) ==
    IF s.result # None THEN Rejects(s)
    ELSE IF m.noise /\ <<m.from, s.id>> \in NoisePeers
    THEN LET h == <<m.from, s.id>>
             answered == [s EXCEPT !.response = BindingMessage(s, TRUE, h)]
         IN  {Outcome(IF s.expect_binding
                      THEN [answered EXCEPT !.noise_response = h]
                      ELSE [answered EXCEPT
                              !.result = [hash |-> h, from_peer |-> None]],
                      None, TRUE)}
    ELSE IF s.noise_response = None THEN Rejects(s)
    ELSE {Outcome([s EXCEPT !.noise_response = None,
                            !.result = [hash |-> s.noise_response,
                                        from_peer |-> m]], None, TRUE)}

(* ServerHandshakeHandler::put_incoming_message.  While a follow-up is     *)
(* expected, whatever handshake request comes next is taken for it, a      *)
(* repeated first message included.  A request that fails changes nothing. *)
ServerPutHandshake(s, m) ==
    IF s.result # None THEN Rejects(s)
    ELSE IF s.noise_response # None
    THEN {Outcome([s EXCEPT !.noise_response = None,
                            !.result = [hash |-> s.noise_response,
                                        from_peer |-> m]], None, TRUE)}
    ELSE IF ~m.noise \/ <<m.from, s.id>> \notin NoisePeers THEN Rejects(s)
    ELSE LET h == <<m.from, s.id>>
             answered == [s EXCEPT !.response = BindingMessage(s, TRUE, h)]
         IN  {Outcome(IF s.expect_binding
                      THEN [answered EXCEPT !.noise_response = h]
                      ELSE [answered EXCEPT
                              !.result = [hash |-> h, from_peer |-> None]],
                      None, TRUE)}
               \cup {Outcome(s, None, FALSE)
                        : ok \in IF s.cfg.generators = {} THEN {}
                                 ELSE ProviderOk \ {TRUE}}

MutServerPutAnyStep(s, m) ==
    CASE m.type = "Attest" -> {AttesterPut(s, m)}
      [] m.type = "Handshake" /\ s.step = "Handshake" -> ServerPutHandshake(s, m)
      [] m.type = "Encrypted" /\ s.step = "Open" -> PutEncrypted(s, m)
      [] OTHER -> Rejects(s)

(* The server does not leave Attestation or Handshake here: both wait for  *)
(* the next call of get_outgoing_message.                                  *)
ServerPut(s, m) ==
    CASE m.type = "Attest" /\ s.step = "Attestation" -> {AttesterPut(s, m)}
      [] m.type = "Handshake" /\ s.step = "Handshake" -> ServerPutHandshake(s, m)
      [] m.type = "Encrypted" /\ s.step = "Open" -> PutEncrypted(s, m)
      [] OTHER -> Rejects(s)

-----------------------------------------------------------------------------
(*                    write and read, over an OrderedCrypter               *)

MutWriteUsesNextNonce(s, d) ==
    IF s.step # "Open" \/ Len(s.outgoing) >= MaxQueue THEN Rejects(s)
    ELSE LET used == [s EXCEPT !.write_nonce = @ + 1]
         IN  {Outcome([used EXCEPT !.outgoing = Append(@, EncryptedMessage(used, d))],
                      None, TRUE)}

Write(s, d) ==
    IF \/ s.step # "Open"
       \/ Len(s.outgoing) >= MaxQueue
       \/ ~NonceAvailable(s.write_nonce)
    THEN Rejects(s)
    ELSE LET used == [s EXCEPT !.write_nonce = @ + 1]
         IN  IF Sealable(d)
             THEN {Outcome([used EXCEPT
                              !.outgoing = Append(@, EncryptedMessage(s, d))],
                           None, TRUE)}
             ELSE Rejects(used)

MutReadUnchecked(s) ==
    IF s.step # "Open" THEN Rejects(s)
    ELSE IF s.incoming = << >> THEN {Outcome(s, None, TRUE)}
    ELSE LET m == Head(s.incoming)
         IN  IF m.hash = s.hash
             THEN {Outcome([s EXCEPT !.incoming = Tail(@)], m.sealed, TRUE)}
             ELSE Rejects([s EXCEPT !.incoming = Tail(@)])

(* out is the opened ciphertext, its nonce kept for the properties.  A     *)
(* message is gone from the queue, and the nonce consumed, even when it    *)
(* does not open.                                                          *)
Read(s) ==
    IF s.step # "Open" THEN Rejects(s)
    ELSE IF s.incoming = << >> THEN {Outcome(s, None, TRUE)}
    ELSE LET m      == Head(s.incoming)
             popped == [s EXCEPT !.incoming = Tail(@)]
             used   == [popped EXCEPT !.read_nonce = @ + 1]
         IN  IF ~NonceAvailable(s.read_nonce) THEN Rejects(popped)
             ELSE IF m.hash = s.hash /\ Opens(s.read_nonce, m.sealed)
             THEN {Outcome(used, m.sealed, TRUE)}
             ELSE Rejects(used)

-----------------------------------------------------------------------------
(* The role of a session decides which of the two types it is.             *)
GetOutgoing(s) ==
    IF s.id \in Clients THEN ClientGetOutgoing(s) ELSE ServerGetOutgoing(s)

PutIncoming(s, m) ==
    IF s.id \in Clients THEN ClientPut(s, m) ELSE ServerPut(s, m)

(* Messages cross between the roles only: requests go to servers.          *)
Addressed(m, p) == (m.from \in Clients) = (p \in Servers)

(* Damage on the way: what the message's keys protect no longer verifies.  *)
Corrupt(m) == IF m.type = "Attest" THEN m ELSE [m EXCEPT !.hash = None]
=============================================================================

--------------------------- MODULE Session_proofs ---------------------------
(***************************************************************************)
(* Proofs about Session, for every set of sessions, hosts, configurations  *)
(* and payloads and whatever the network does.                             *)
(*                                                                         *)
(* Two things make the invariant inductive.  What a session has put on the *)
(* network binds it: a binding shows a hash that its maker is committed to *)
(* and the token its maker will keep, an encrypted message the keys of an  *)
(* open session (NetOK).  And what a session records of the network is     *)
(* either damaged or was really sent (Local).  Each method of a session    *)
(* keeps Local and Evolves, whatever arrives, and the rest follows.        *)
(***************************************************************************)
EXTENDS Session, SequenceTheorems, TLAPS

SessionFields ==
    {"id", "cfg", "step", "attest_message", "verdict", "token", "initial", "spoiled",
     "followup", "expect_binding", "noise_response", "response", "result", "hash",
     "read_nonce", "write_nonce", "outgoing", "incoming", "published"}

EncryptedMessages ==
    [type : {"Encrypted"}, from : Sessions, hash : NoisePeers \cup {None}, sealed : Message]

(* The session is at its own end of a handshake.                           *)
OwnEnd(s, h) ==
    h \in NoisePeers /\ (s.id \in Clients => h[1] = s.id) /\ (s.id \in Servers => h[2] = s.id)

(* The session can open with no other hash.                                *)
Committed(s, h) == s.noise_response = h \/ (s.result # None /\ s.result.hash = h)

MadeBy(s, m) ==
    /\ m \in HandshakeMessages
    /\ m.from = s.id
    /\ m.hash # None => /\ OwnEnd(s, m.hash)
                        /\ s.step # "Attestation"
                        /\ m.token = s.token
                        /\ Committed(s, m.hash)

(* A message that p was handed when N had been sent.                       *)
Arrived(p, m, N) == Addressed(m, p) /\ (m.hash = None \/ m \in N)

Deliverable(p, m, N) ==
    /\ m.from \in Sessions /\ Addressed(m, p)
    /\ \/ m.type = "Attest"
       \/ m \in HandshakeMessages \cup EncryptedMessages /\ Arrived(p, m, N)

-----------------------------------------------------------------------------
(* What holds of one session s, N being what was sent on the network.      *)
LocalType(s) ==
    /\ DOMAIN s = SessionFields
    /\ s.id \in Sessions
    /\ s.step \in Steps
    /\ ValidConfig(s.cfg) /\ s.cfg.aggregator \in AggregatorKind
    /\ s.cfg.binders \subseteq BindingIds /\ s.cfg.generators \subseteq BindingIds
    /\ s.token \in Seq(Sessions)
    /\ s.read_nonce \in Nat /\ s.write_nonce \in Nat

LocalPublished(s) ==
    /\ s.published \in {0, 1}
    /\ s.step \in {"Attestation", "Handshake"} => s.published = 0
    /\ s.step = "Open" => s.published = 1

(* A verdict that passed rests on evidence or assertions of a trusted host.*)
Vouched(v) ==
    IdsWith(v.legacy, {"Success"}) # {} \/ IdsWith(v.assertion, {"Success"}) # {}
LocalVerdict(s) ==
    /\ s.verdict # None =>
          /\ Vouched(s.verdict) => Host[s.verdict.peer] \in TrustedHosts
          /\ s.verdict.passed /\ s.cfg.verifiers \cup s.cfg.assertion_verifiers # {} =>
                Vouched(s.verdict)
    /\ s.step \in {"Handshake", "Open"} => s.verdict # None /\ s.verdict.passed

LocalHandshake(s, N) ==
    /\ s.noise_response # None =>
          s.id \in Servers /\ s.result = None /\ OwnEnd(s, s.noise_response)
    /\ s.followup # None => MadeBy(s, s.followup) /\ s.result # None
    /\ s.response # None => MadeBy(s, s.response)
    /\ s.result # None =>
          /\ s.result \in HandshakeResults
          /\ OwnEnd(s, s.result.hash)
          /\ s.result.from_peer # None => Arrived(s.id, s.result.from_peer, N)
          /\ s.id \in Clients => /\ s.result.from_peer \in HandshakeMessages \cap N
                                 /\ s.result.from_peer.hash = s.result.hash
                                 /\ s.result.from_peer.from = s.result.hash[2]

LocalOpen(s) ==
    s.step = "Open" =>
        /\ s.result # None /\ s.hash = s.result.hash
        /\ SessionBindingVerified(s) /\ AssertionBindingVerified(s)

LocalQueues(s, N) ==
    /\ s.outgoing \in Seq(EncryptedMessages) /\ s.incoming \in Seq(EncryptedMessages)
    /\ s.outgoing # << >> => s.step = "Open"
    /\ \A i \in 1..Len(s.outgoing) : s.outgoing[i].from = s.id /\ s.outgoing[i].hash = s.hash
    /\ \A i \in 1..Len(s.incoming) : Arrived(s.id, s.incoming[i], N)

Local(s, N) ==
    /\ LocalType(s) /\ LocalPublished(s) /\ LocalVerdict(s)
    /\ LocalHandshake(s, N) /\ LocalOpen(s) /\ LocalQueues(s, N)

(* What no method of a session undoes.                                     *)
Decided == {"Open", "Error", "Invalid"}
Evolves(s, t) ==
    /\ t.id = s.id
    /\ s.step # "Attestation" =>
          t.step # "Attestation" /\ t.token = s.token /\ t.verdict = s.verdict
    /\ s.step \in Decided =>
          /\ t.step = s.step /\ t.hash = s.hash
          /\ t.token = s.token /\ t.verdict = s.verdict
    /\ \A h \in NoisePeers : Committed(s, h) => Committed(t, h)

(* A method that neither seals nor opens anything.                         *)
Keeps(s, t, N) ==
    /\ Local(t, N) /\ Evolves(s, t)
    /\ t.read_nonce = s.read_nonce /\ t.write_nonce = s.write_nonce
    /\ t.outgoing = s.outgoing

(* get_outgoing_message: it may take a message off the queue, and hands out*)
(* that one, an attest message or one the session is bound by.             *)
Takes(s, t, N) ==
    /\ Local(t, N) /\ Evolves(s, t)
    /\ t.read_nonce = s.read_nonce /\ t.write_nonce = s.write_nonce
    /\ t.outgoing = s.outgoing \/ (s.outgoing # << >> /\ t.outgoing = Tail(s.outgoing))
HandsOut(s, t, m) ==
    m # None => /\ m.from = s.id
                /\ \/ m.type = "Attest"
                   \/ MadeBy(t, m)
                   \/ s.outgoing # << >> /\ m = Head(s.outgoing)

-----------------------------------------------------------------------------
(* An encrypted message holds what its sender wrote under its nonce.       *)
Written(m) ==
    /\ m.sealed.nonce < Len(written[m.from])
    /\ written[m.from][m.sealed.nonce + 1] = m.sealed.data

Sent(m) ==
    /\ m.from \in Parties
    /\ \/ m.type = "Attest"
       \/ MadeBy(session[m.from], m)
       \/ /\ m \in EncryptedMessages
          /\ session[m.from].step = "Open" /\ m.hash = session[m.from].hash
          /\ Written(m)

NetOK == \A m \in net : Sent(m)

SessionsOK ==
    /\ Parties \subseteq Sessions
    /\ \A p \in Parties : session[p].id = p /\ Local(session[p], net)

WrittenOK ==
    /\ DOMAIN written = Parties
    /\ \A p \in Parties :
          /\ written[p] \in Seq(Plaintext \cup {None})
          /\ Len(written[p]) = session[p].write_nonce
          /\ \A i \in 1..Len(session[p].outgoing) : Written(session[p].outgoing[i])

DeliveredOK ==
    /\ DOMAIN delivered = Parties
    /\ \A p \in Parties :
          /\ delivered[p] \in Seq(Message)
          /\ delivered[p] # << >> => session[p].step = "Open" /\ Peer(p) \in Parties
          /\ \A i \in 1..Len(delivered[p]) : delivered[p][i].nonce < session[p].read_nonce

(* The inductive invariant.                                                *)
IInv == NetOK /\ SessionsOK /\ WrittenOK /\ DeliveredOK /\ AuthenticInOrder

-----------------------------------------------------------------------------
(* PassedMeansVerified of AttestationVerdict, for any results: a side that *)
(* has verifiers passes nobody without a success.                          *)
LEMMA PassedIsVouched ==
    ASSUME NEW verifiers, NEW avs, NEW kind \in AggregatorKind, NEW ev, NEW as,
           IsCompatibleWithConfiguration(kind, avs),
           verifiers \cup avs # {},
           AttestationPassed(CombineAttestationResults(verifiers, ev), kind,
                             CombineAssertionResults(avs, as))
    PROVE  \/ IdsWith(CombineAttestationResults(verifiers, ev), {"Success"}) # {}
           \/ IdsWith(CombineAssertionResults(avs, as), {"Success"}) # {}
<1>. DEFINE legacy == CombineAttestationResults(verifiers, ev)
            assertion == CombineAssertionResults(avs, as)
<1>1. DefaultLegacyAggregate(legacy) /\ AssertionAggregate(kind, assertion)
  BY DEF AttestationPassed
<1>2. CASE verifiers # {}
  <2>1. PICK v \in verifiers : TRUE
    BY <1>2
  <2>2. v \in IdsWith(legacy, {"Success", "Failure", "Missing"})
    BY <2>1 DEF IdsWith, CombineAttestationResults
  <2>3. /\ IdsWith(legacy, {"Success", "Failure"}) # {}
        /\ IdsWith(legacy, {"Failure"}) = {}
    BY <1>1, <2>2 DEF DefaultLegacyAggregate
  <2>. QED  BY <2>3 DEF IdsWith
<1>3. CASE avs # {}
  <2>1. PICK v \in avs : TRUE
    BY <1>3
  <2>2. v \in IdsWith(assertion, {"Success", "Failure", "Missing"})
    BY <2>1 DEF IdsWith, CombineAssertionResults
  <2>3. kind \in {"Any", "All", "PassThrough"}
    BY <1>3 DEF IsCompatibleWithConfiguration, AggregatorKind
  <2>4. CASE kind = "Any"
    BY <1>1, <2>4 DEF AssertionAggregate, AnyAggregate
  <2>5. CASE kind = "All"
    BY <1>1, <2>2, <2>5 DEF AssertionAggregate, AllAggregate, IdsWith
  <2>6. CASE kind = "PassThrough"
    <3>1. \A id \in IdsWith(assertion, {"Success", "Failure", "Missing"}) :
             assertion[id] = "Success"
      BY <1>1, <2>6 DEF AssertionAggregate, PassThroughAggregate
    <3>. QED  BY <2>2, <3>1 DEF IdsWith
  <2>. QED  BY <2>3, <2>4, <2>5, <2>6
<1>. QED  BY <1>2, <1>3

(* A verdict on a message is one that LocalVerdict admits.                 *)
LEMMA VerdictVouched ==
    ASSUME NEW cfg, NEW m, ValidConfig(cfg), cfg.aggregator \in AggregatorKind
    PROVE  LET v == Verdict(cfg, m)
           IN  /\ Vouched(v) => Host[v.peer] \in TrustedHosts
               /\ v.passed /\ cfg.verifiers \cup cfg.assertion_verifiers # {} => Vouched(v)
<1>. DEFINE ev == [id \in m.evidence |-> IF id \in m.endorsed THEN Quality(m) ELSE "partial"]
            as == [id \in m.assertions |-> Quality(m)]
            legacy == CombineAttestationResults(cfg.verifiers, ev)
            assertion == CombineAssertionResults(cfg.assertion_verifiers, as)
            v == Verdict(cfg, m)
<1>1. /\ v.legacy = legacy /\ v.assertion = assertion /\ v.peer = m.from
      /\ v.passed = AttestationPassed(legacy, cfg.aggregator, assertion)
  BY DEF Verdict
<1>2. \A id \in IdsWith(legacy, {"Success"}) : Quality(m) = "good"
  BY DEF IdsWith, CombineAttestationResults
<1>3. \A id \in IdsWith(assertion, {"Success"}) : Quality(m) = "good"
  BY DEF IdsWith, CombineAssertionResults
<1>4. Vouched(v) => Host[v.peer] \in TrustedHosts
  BY <1>1, <1>2, <1>3 DEF Vouched, Quality
<1>5. v.passed /\ cfg.verifiers \cup cfg.assertion_verifiers # {} => Vouched(v)
  BY <1>1, PassedIsVouched DEF Vouched, ValidConfig
<1>. QED  BY <1>4, <1>5

-----------------------------------------------------------------------------
(* More messages on the network falsify nothing a session relies on.       *)
LEMMA LocalMonotonic ==
    ASSUME NEW s, NEW N, NEW M, N \subseteq M, Local(s, N)
    PROVE  Local(s, M)
  BY DEF Local, LocalHandshake, LocalQueues, Arrived

(* What LocalHandshake says is about these fields.                         *)
LEMMA SameHandshake ==
    ASSUME NEW s, NEW u, NEW N, LocalHandshake(s, N),
           u.id = s.id, u.step = s.step, u.token = s.token, u.result = s.result,
           u.noise_response = s.noise_response, u.followup = s.followup,
           u.response = s.response
    PROVE  LocalHandshake(u, N)
  BY DEF LocalHandshake, MadeBy, OwnEnd, Committed

(* Steps that keep a session compose.                                      *)
LEMMA KeepsTransitive ==
    ASSUME NEW s, NEW t, NEW u, NEW N, Keeps(s, t, N), Keeps(t, u, N)
    PROVE  Keeps(s, u, N)
  BY DEF Keeps, Evolves, Decided

(* A session that is left alone is kept.                                   *)
LEMMA KeepsItself == ASSUME NEW s, NEW N, Local(s, N) PROVE Keeps(s, s, N)
  BY DEF Keeps, Evolves

(* A session that goes to Error, with or without being published.          *)
LEMMA FailedKeeps ==
    ASSUME NEW s, NEW N, Local(s, N), s.step \in {"Attestation", "Handshake"}
    PROVE  Keeps(s, Failed(s), N) /\ Keeps(s, Failed(Publish(s)), N)
<1>. USE DEF Failed, Publish, SessionFields, Local, LocalType
<1>1. LocalType(Failed(s)) /\ LocalType(Failed(Publish(s)))
  BY DEF Steps
<1>2. LocalPublished(Failed(s)) /\ LocalPublished(Failed(Publish(s)))
  BY DEF LocalPublished
<1>3. LocalVerdict(Failed(s)) /\ LocalVerdict(Failed(Publish(s)))
  BY DEF LocalVerdict
<1>4. LocalHandshake(Failed(s), N) /\ LocalHandshake(Failed(Publish(s)), N)
  BY DEF LocalHandshake, MadeBy, OwnEnd, Committed
<1>5. LocalOpen(Failed(s)) /\ LocalOpen(Failed(Publish(s)))
  BY DEF LocalOpen
<1>6. LocalQueues(Failed(s), N) /\ LocalQueues(Failed(Publish(s)), N)
  BY DEF LocalQueues
<1>7. Evolves(s, Failed(s)) /\ Evolves(s, Failed(Publish(s)))
  BY DEF Evolves, Committed, Decided
<1>. QED  BY <1>1, <1>2, <1>3, <1>4, <1>5, <1>6, <1>7 DEF Keeps

(* The attestation handlers: extending the token, taking the message, and  *)
(* putting one in.                                                         *)
LEMMA ExtendTokenKeeps ==
    ASSUME NEW s, NEW N, NEW owner \in Sessions, NEW assertions,
           Local(s, N), s.step = "Attestation"
    PROVE  LET x == ExtendToken(s, owner, assertions)
           IN  Keeps(s, x, N) /\ x.step = "Attestation" /\ x.cfg = s.cfg
<1>1. CASE assertions = {}
  BY <1>1, KeepsItself DEF ExtendToken
<1>2. CASE assertions # {}
  <2>. DEFINE x == [s EXCEPT !.token = Append(@, owner)]
  <2>. USE DEF SessionFields, Local, LocalType
  <2>1. Append(s.token, owner) \in Seq(Sessions)
    OBVIOUS
  <2>2. LocalType(x) /\ x.step = "Attestation" /\ x.cfg = s.cfg
    BY <2>1
  <2>3. LocalPublished(x) /\ LocalVerdict(x) /\ LocalOpen(x) /\ LocalQueues(x, N)
    BY DEF LocalPublished, LocalVerdict, LocalOpen, LocalQueues
  <2>4. LocalHandshake(x, N)
    BY DEF LocalHandshake, MadeBy, OwnEnd, Committed
  <2>5. Evolves(s, x)
    BY DEF Evolves, Committed, Decided
  <2>. QED  BY <1>2, <2>2, <2>3, <2>4, <2>5 DEF Keeps, ExtendToken
<1>. QED  BY <1>1, <1>2

(* get_outgoing_message of the attestation step.                           *)
LEMMA AttesterTakeKeeps ==
    ASSUME NEW s, NEW N, Local(s, N), s.step = "Attestation"
    PROVE  Keeps(s, AttesterTake(s), N) /\ AttesterTake(s).step = "Attestation"
<1>. DEFINE x == ExtendToken(s, s.id, s.cfg.generators)
            t == [x EXCEPT !.attest_message = FALSE]
<1>1. Keeps(s, x, N) /\ x.step = "Attestation"
  BY ExtendTokenKeeps DEF Local, LocalType
<1>. HIDE DEF x
<1>. USE DEF SessionFields, Local, LocalType
<1>2. Local(x, N)
  BY <1>1 DEF Keeps
<1>3. LocalType(t) /\ t.step = "Attestation"
  BY <1>1, <1>2
<1>4. LocalPublished(t) /\ LocalVerdict(t) /\ LocalOpen(t) /\ LocalQueues(t, N)
  BY <1>1, <1>2 DEF LocalPublished, LocalVerdict, LocalOpen, LocalQueues
<1>5. LocalHandshake(t, N)
  BY <1>1, <1>2 DEF LocalHandshake, MadeBy, OwnEnd, Committed
<1>6. Evolves(x, t)
  BY <1>1, <1>2 DEF Evolves, Committed, Decided
<1>7. Keeps(x, t, N)
  BY <1>2, <1>3, <1>4, <1>5, <1>6 DEF Keeps
<1>8. t = AttesterTake(s)
  BY DEF x, AttesterTake
<1>. QED  BY <1>1, <1>3, <1>7, <1>8, KeepsTransitive

(* put_incoming_message of the attestation step.                           *)
LEMMA AttesterPutKeeps ==
    ASSUME NEW s, NEW N, NEW m, Local(s, N), s.step = "Attestation", m.from \in Sessions
    PROVE  /\ Keeps(s, AttesterPut(s, m).s, N)
           /\ AttesterPut(s, m).s.step = "Attestation"
           /\ AttesterPut(s, m).out = None
<1>. DEFINE x == ExtendToken(s, m.from, m.assertions)
            t == [x EXCEPT !.verdict = Verdict(s.cfg, m)]
<1>1. Keeps(s, x, N) /\ x.step = "Attestation" /\ x.cfg = s.cfg
  BY ExtendTokenKeeps
<1>2. AttesterPut(s, m) = IF s.verdict # None THEN Outcome(x, None, FALSE)
                          ELSE Outcome(t, None, TRUE)
  BY DEF AttesterPut
<1>. HIDE DEF x
<1>. USE DEF SessionFields, Local, LocalType
<1>3. Local(x, N)
  BY <1>1 DEF Keeps
<1>4. LocalType(t) /\ t.step = "Attestation"
  BY <1>1, <1>3
<1>5. LocalPublished(t) /\ LocalOpen(t) /\ LocalQueues(t, N)
  BY <1>1, <1>3 DEF LocalPublished, LocalOpen, LocalQueues
<1>6. LocalVerdict(t)
  <2>1. t.verdict = Verdict(s.cfg, m) /\ t.cfg = s.cfg /\ t.step = "Attestation"
    BY <1>1, <1>3
  <2>. QED  BY <2>1, VerdictVouched DEF LocalVerdict
<1>7. LocalHandshake(t, N)
  BY <1>1, <1>3 DEF LocalHandshake, MadeBy, OwnEnd, Committed
<1>8. Evolves(x, t)
  BY <1>1, <1>3 DEF Evolves, Committed, Decided
<1>9. Keeps(x, t, N)
  BY <1>3, <1>4, <1>5, <1>6, <1>7, <1>8 DEF Keeps
<1>10. Keeps(s, t, N)
  BY <1>1, <1>9, KeepsTransitive
<1>. HIDE DEF t
<1>. QED  BY <1>1, <1>2, <1>4, <1>10 DEF Outcome

(* Step::next from Attestation.                                            *)
LEMMA NextFromAttestationKeeps ==
    ASSUME NEW s, NEW N, Local(s, N), s.step = "Attestation",
           NEW o \in NextFromAttestation(s)
    PROVE  Keeps(s, o.s, N) /\ o.out = None /\ DOMAIN o = {"s", "out", "ok"}
<1>. DEFINE t == [s EXCEPT !.step = "Handshake", !.initial = s.id \in Clients,
                           !.expect_binding = NeedsSessionBindings(
                                s.verdict.legacy, s.verdict.assertion)]
<1>1. /\ \/ o.s = Failed(s) \/ o.s = Failed(Publish(s))
         \/ o.s = t /\ s.verdict # None /\ s.verdict.passed
      /\ o.out = None /\ DOMAIN o = {"s", "out", "ok"}
  <2>1. \/ o = Outcome(Failed(s), None, FALSE)
        \/ o = Outcome(Failed(Publish(s)), None, FALSE)
        \/ o = Outcome(t, None, TRUE) /\ s.verdict # None /\ s.verdict.passed
    BY Zenon DEF NextFromAttestation
  <2>. HIDE DEF t
  <2>. QED  BY <2>1 DEF Outcome
<1>2. ASSUME o.s = t, s.verdict # None, s.verdict.passed
      PROVE  Keeps(s, o.s, N)
  <2>. USE DEF SessionFields, Local, LocalType
  <2>1. LocalType(t)
    BY DEF Steps
  <2>2. LocalPublished(t) /\ LocalOpen(t) /\ LocalQueues(t, N)
    BY DEF LocalPublished, LocalOpen, LocalQueues
  <2>3. LocalVerdict(t)
    BY <1>2 DEF LocalVerdict
  <2>4. LocalHandshake(t, N)
    BY DEF LocalHandshake, MadeBy, OwnEnd, Committed
  <2>5. Evolves(s, t)
    BY DEF Evolves, Committed, Decided
  <2>. QED  BY <1>2, <2>1, <2>2, <2>3, <2>4, <2>5 DEF Keeps
<1>. QED  BY <1>1, <1>2, FailedKeeps

(* Step::next from Handshake: it opens only with both bindings verified.   *)
LEMMA NextFromHandshakeKeeps ==
    ASSUME NEW s, NEW N, Local(s, N), s.step = "Handshake", s.result # None,
           NEW o \in NextFromHandshake(s)
    PROVE  Keeps(s, o.s, N) /\ o.out = None /\ DOMAIN o = {"s", "out", "ok"}
<1>. DEFINE t(ok) == [Publish(s) EXCEPT !.step = IF ok THEN "Open" ELSE "Invalid",
                                        !.hash = IF ok THEN s.result.hash ELSE None]
<1>1. /\ \/ o.s = Failed(Publish(s))
         \/ /\ \E ok \in BOOLEAN : o.s = t(ok)
            /\ SessionBindingVerified(s) /\ AssertionBindingVerified(s)
      /\ o.out = None /\ DOMAIN o = {"s", "out", "ok"}
  <2>1. \/ o = Outcome(Failed(Publish(s)), None, FALSE)
        \/ /\ \E ok \in ProviderOk : o = Outcome(t(ok), None, ok)
           /\ SessionBindingVerified(s) /\ AssertionBindingVerified(s)
    BY Zenon DEF NextFromHandshake
  <2>2. ProviderOk \subseteq BOOLEAN
    BY DEF ProviderOk
  <2>. HIDE DEF t
  <2>. QED  BY <2>1, <2>2 DEF Outcome
<1>2. ASSUME NEW ok \in BOOLEAN, o.s = t(ok),
             SessionBindingVerified(s), AssertionBindingVerified(s)
      PROVE  Keeps(s, o.s, N)
  <2>. USE DEF Publish, SessionFields, Local, LocalType
  <2>1. LocalType(t(ok))
    BY DEF Steps
  <2>2. LocalPublished(t(ok))
    BY DEF LocalPublished
  <2>3. LocalVerdict(t(ok))
    BY DEF LocalVerdict
  <2>4. LocalHandshake(t(ok), N)
    BY DEF LocalHandshake, MadeBy, OwnEnd, Committed
  <2>5. LocalOpen(t(ok))
    BY <1>2 DEF LocalOpen, SessionBindingVerified, AssertionBindingVerified
  <2>6. LocalQueues(t(ok), N)
    BY DEF LocalQueues
  <2>7. Evolves(s, t(ok))
    BY DEF Evolves, Committed, Decided
  <2>. QED  BY <1>2, <2>1, <2>2, <2>3, <2>4, <2>5, <2>6, <2>7 DEF Keeps
<1>. QED  BY <1>1, <1>2, FailedKeeps

-----------------------------------------------------------------------------
(* What a session has made stays its own.                                  *)
LEMMA MadeByEvolves ==
    ASSUME NEW s, NEW t, NEW m, MadeBy(s, m), Evolves(s, t)
    PROVE  MadeBy(t, m)
  BY DEF MadeBy, Evolves, OwnEnd

(* Keeping is a way of taking nothing.                                     *)
LEMMA KeepsTakes == ASSUME NEW s, NEW t, NEW N, Keeps(s, t, N) PROVE Takes(s, t, N)
  BY DEF Keeps, Takes

(* The message that comes with the outcomes of Step::next.                 *)
LEMMA ThenNextOutcome ==
    ASSUME NEW outcomes, NEW m, NEW o \in ThenNext(outcomes, m)
    PROVE  \E x \in outcomes :
               DOMAIN x = {"s", "out", "ok"} => o.s = x.s /\ (o.out = m \/ o.out = None)
<1>1. PICK x \in outcomes : o = [x EXCEPT !.out = IF x.ok THEN m ELSE None]
  BY Zenon DEF ThenNext
<1>2. DOMAIN x = {"s", "out", "ok"} => o.s = x.s /\ o.out = IF x.ok THEN m ELSE None
  BY <1>1
<1>. QED  BY <1>1, <1>2, Zenon

(* A message is handed out once it is queued, in order.                    *)
LEMMA PopOutgoingTakes ==
    ASSUME NEW s, NEW N, Local(s, N), NEW o \in PopOutgoing(s)
    PROVE  Takes(s, o.s, N) /\ HandsOut(s, o.s, o.out)
<1>1. CASE s.outgoing = << >>
  <2>1. o.s = s /\ o.out = None
    BY <1>1 DEF PopOutgoing, Outcome
  <2>. QED  BY <2>1, KeepsItself, KeepsTakes DEF HandsOut
<1>2. CASE s.outgoing # << >>
  <2>. DEFINE t == [s EXCEPT !.outgoing = Tail(@)]
  <2>1. o.s = t /\ o.out = Head(s.outgoing)
    BY <1>2 DEF PopOutgoing, Outcome
  <2>. USE DEF SessionFields, Local, LocalType
  <2>2. LocalType(t) /\ LocalPublished(t) /\ LocalVerdict(t)
    BY DEF LocalPublished, LocalVerdict
  <2>3. LocalHandshake(t, N)
    BY DEF LocalHandshake, MadeBy, OwnEnd, Committed
  <2>4. LocalOpen(t)
    BY DEF LocalOpen, SessionBindingVerified, AssertionBindingVerified
  <2>5. /\ Tail(s.outgoing) \in Seq(EncryptedMessages)
        /\ Len(Tail(s.outgoing)) = Len(s.outgoing) - 1
        /\ \A i \in 1..Len(Tail(s.outgoing)) : Tail(s.outgoing)[i] = s.outgoing[i + 1]
        /\ Head(s.outgoing) = s.outgoing[1] /\ Len(s.outgoing) \in Nat \ {0}
    BY <1>2 DEF LocalQueues
  <2>6. LocalQueues(t, N)
    <3>1. /\ t.outgoing = Tail(s.outgoing) /\ t.incoming = s.incoming
          /\ t.step = s.step /\ t.id = s.id /\ t.hash = s.hash
      OBVIOUS
    <3>. HIDE DEF t
    <3>. QED  BY <1>2, <2>5, <3>1 DEF LocalQueues
  <2>7. Evolves(s, t)
    BY DEF Evolves, Committed, Decided
  <2>8. HandsOut(s, t, Head(s.outgoing))
    BY <1>2, <2>5 DEF HandsOut, LocalQueues
  <2>. QED  BY <1>2, <2>1, <2>2, <2>3, <2>4, <2>6, <2>7, <2>8 DEF Takes
<1>. QED  BY <1>1, <1>2

(* Giving out a prepared message.                                          *)
LEMMA PreparedKeeps ==
    ASSUME NEW s, NEW N, Local(s, N)
    PROVE  /\ Keeps(s, [s EXCEPT !.initial = FALSE], N)
           /\ Keeps(s, [s EXCEPT !.followup = None], N)
           /\ Keeps(s, [s EXCEPT !.response = None], N)
<1>. DEFINE t1 == [s EXCEPT !.initial = FALSE]
            t2 == [s EXCEPT !.followup = None]
            t3 == [s EXCEPT !.response = None]
<1>. USE DEF SessionFields, Local, LocalType
<1>1. LocalType(t1) /\ LocalType(t2) /\ LocalType(t3)
  OBVIOUS
<1>2. LocalPublished(t1) /\ LocalPublished(t2) /\ LocalPublished(t3)
  BY DEF LocalPublished
<1>3. LocalVerdict(t1) /\ LocalVerdict(t2) /\ LocalVerdict(t3)
  BY DEF LocalVerdict
<1>4. LocalHandshake(t1, N) /\ LocalHandshake(t2, N) /\ LocalHandshake(t3, N)
  BY DEF LocalHandshake, MadeBy, OwnEnd, Committed
<1>5. LocalOpen(t1) /\ LocalOpen(t2) /\ LocalOpen(t3)
  BY DEF LocalOpen, SessionBindingVerified, AssertionBindingVerified
<1>6. LocalQueues(t1, N) /\ LocalQueues(t2, N) /\ LocalQueues(t3, N)
  BY DEF LocalQueues
<1>7. Evolves(s, t1) /\ Evolves(s, t2) /\ Evolves(s, t3)
  BY DEF Evolves, Committed, Decided
<1>. QED  BY <1>1, <1>2, <1>3, <1>4, <1>5, <1>6, <1>7 DEF Keeps

(* An error hands out nothing.                                             *)
LEMMA ErrKeeps ==
    ASSUME NEW s, NEW N, Local(s, N), NEW o \in Rejects(s)
    PROVE  Keeps(s, o.s, N) /\ o.out = None
  BY KeepsItself DEF Rejects, Outcome

(* get_outgoing_message of the client.                                     *)
LEMMA ClientGetOutgoingTakes ==
    ASSUME NEW s, NEW N, Local(s, N), s.id \in Clients, NEW o \in ClientGetOutgoing(s)
    PROVE  Takes(s, o.s, N) /\ HandsOut(s, o.s, o.out)
<1>1. CASE s.step = "Attestation"
  <2>1. \/ o = Outcome(AttesterTake(s), AttestMessage(s), TRUE)
        \/ o = Outcome(AttesterTake(s), None, FALSE)
    BY <1>1 DEF ClientGetOutgoing, Rejects
  <2>2. o.s = AttesterTake(s) /\ o.out \in {AttestMessage(s), None}
    BY <2>1 DEF Outcome
  <2>3. AttestMessage(s).from = s.id /\ AttestMessage(s).type = "Attest"
    BY DEF AttestMessage
  <2>. QED  BY <1>1, <2>2, <2>3, AttesterTakeKeeps, KeepsTakes DEF HandsOut
<1>2. CASE s.step = "Handshake" /\ s.initial
  <2>. DEFINE t == [s EXCEPT !.initial = FALSE]
  <2>1. o = Outcome(t, InitialMessage(s), TRUE)
    BY <1>2 DEF ClientGetOutgoing
  <2>2. Keeps(s, t, N)
    BY PreparedKeeps
  <2>3. t.id = s.id
    BY <2>2 DEF Keeps, Evolves
  <2>4. InitialMessage(s) \in HandshakeMessages /\ InitialMessage(s).from = s.id
    BY DEF InitialMessage, HandshakeMessages, Local, LocalType
  <2>5. InitialMessage(s).hash = None
    BY DEF InitialMessage
  <2>. HIDE DEF t
  <2>. QED  BY <2>1, <2>2, <2>3, <2>4, <2>5, KeepsTakes DEF HandsOut, MadeBy, Outcome
<1>3. CASE s.step = "Handshake" /\ ~s.initial /\ s.followup # None
  <2>. DEFINE t == [s EXCEPT !.followup = None]
  <2>1. o \in ThenNext(NextFromHandshake(t), s.followup)
    BY <1>3 DEF ClientGetOutgoing
  <2>2. Keeps(s, t, N)
    BY PreparedKeeps
  <2>3. Local(t, N) /\ t.step = "Handshake" /\ t.result # None
    BY <1>3, <2>2 DEF Keeps, Local, LocalType, LocalHandshake, SessionFields
  <2>. HIDE DEF t
  <2>4. Keeps(t, o.s, N) /\ (o.out = s.followup \/ o.out = None)
    <3>1. \A x \in NextFromHandshake(t) :
             Keeps(t, x.s, N) /\ x.out = None /\ DOMAIN x = {"s", "out", "ok"}
      BY <2>3, NextFromHandshakeKeeps
    <3>. QED  BY <2>1, <3>1, ThenNextOutcome
  <2>5. Keeps(s, o.s, N)
    BY <2>2, <2>4, KeepsTransitive
  <2>6. MadeBy(o.s, s.followup) /\ s.followup.from = s.id
    BY <1>3, <2>5, MadeByEvolves DEF Keeps, Local, LocalHandshake, MadeBy
  <2>. QED  BY <2>4, <2>5, <2>6, KeepsTakes DEF HandsOut
<1>4. CASE s.step = "Open" \/ (s.step = "Handshake" /\ ~s.initial /\ s.followup = None)
  <2>1. o \in PopOutgoing(s)
    BY <1>4 DEF ClientGetOutgoing
  <2>. QED  BY <2>1, PopOutgoingTakes
<1>5. CASE s.step \in {"Invalid", "Error"}
  <2>1. o \in Rejects(s)
    BY <1>5 DEF ClientGetOutgoing
  <2>. QED  BY <2>1, ErrKeeps, KeepsTakes DEF HandsOut
<1>. QED  BY <1>1, <1>2, <1>3, <1>4, <1>5 DEF Local, LocalType, Steps

(* get_outgoing_message of the server.                                     *)
LEMMA ServerGetOutgoingTakes ==
    ASSUME NEW s, NEW N, Local(s, N), s.id \notin Clients, NEW o \in ServerGetOutgoing(s)
    PROVE  Takes(s, o.s, N) /\ HandsOut(s, o.s, o.out)
<1>1. CASE s.step = "Attestation"
  <2>. DEFINE t == AttesterTake(s)
  <2>1. \/ o \in ThenNext(NextFromAttestation(t), AttestMessage(s))
        \/ o \in Rejects(t)
    BY <1>1 DEF ServerGetOutgoing
  <2>2. Keeps(s, t, N) /\ t.step = "Attestation"
    BY <1>1, AttesterTakeKeeps
  <2>3. AttestMessage(s).from = s.id /\ AttestMessage(s).type = "Attest"
    BY DEF AttestMessage
  <2>. HIDE DEF t
  <2>4. Local(t, N)
    BY <2>2 DEF Keeps
  <2>5. Keeps(t, o.s, N) /\ (o.out = AttestMessage(s) \/ o.out = None)
    <3>1. \A x \in NextFromAttestation(t) :
             Keeps(t, x.s, N) /\ x.out = None /\ DOMAIN x = {"s", "out", "ok"}
      BY <2>2, <2>4, NextFromAttestationKeeps
    <3>2. CASE o \in ThenNext(NextFromAttestation(t), AttestMessage(s))
      BY <3>1, <3>2, ThenNextOutcome
    <3>. QED  BY <2>1, <2>4, <3>2, ErrKeeps
  <2>. QED  BY <2>2, <2>3, <2>5, KeepsTransitive, KeepsTakes DEF HandsOut
<1>2. CASE s.step = "Handshake"
  <2>. DEFINE t == [s EXCEPT !.response = None]
  <2>1. \/ o \in ThenNext(NextFromHandshake(t), s.response) /\ s.result # None
        \/ o = Outcome(t, s.response, TRUE)
    BY <1>2 DEF ServerGetOutgoing
  <2>2. Keeps(s, t, N)
    BY PreparedKeeps
  <2>3. Local(t, N) /\ t.step = "Handshake" /\ t.result = s.result
    BY <1>2, <2>2 DEF Keeps, Local, LocalType, SessionFields
  <2>. HIDE DEF t
  <2>4. Keeps(t, o.s, N) /\ (o.out = s.response \/ o.out = None)
    <3>1. CASE o \in ThenNext(NextFromHandshake(t), s.response) /\ s.result # None
      <4>1. \A x \in NextFromHandshake(t) :
               Keeps(t, x.s, N) /\ x.out = None /\ DOMAIN x = {"s", "out", "ok"}
        BY <2>3, <3>1, NextFromHandshakeKeeps
      <4>. QED  BY <3>1, <4>1, ThenNextOutcome
    <3>2. CASE o = Outcome(t, s.response, TRUE)
      BY <2>3, <3>2, KeepsItself DEF Outcome
    <3>. QED  BY <2>1, <3>1, <3>2
  <2>5. Keeps(s, o.s, N)
    BY <2>2, <2>4, KeepsTransitive
  <2>6. s.response # None => MadeBy(o.s, s.response) /\ s.response.from = s.id
    BY <2>5, MadeByEvolves DEF Keeps, Local, LocalHandshake, MadeBy
  <2>. QED  BY <2>4, <2>5, <2>6, KeepsTakes DEF HandsOut
<1>3. CASE s.step = "Open"
  <2>1. o \in PopOutgoing(s)
    BY <1>3 DEF ServerGetOutgoing
  <2>. QED  BY <2>1, PopOutgoingTakes
<1>4. CASE s.step \in {"Invalid", "Error"}
  <2>1. o \in Rejects(s)
    BY <1>4 DEF ServerGetOutgoing
  <2>. QED  BY <2>1, ErrKeeps, KeepsTakes DEF HandsOut
<1>. QED  BY <1>1, <1>2, <1>3, <1>4 DEF Local, LocalType, Steps

-----------------------------------------------------------------------------
(* An encrypted message is queued.                                         *)
LEMMA PutEncryptedKeeps ==
    ASSUME NEW s, NEW N, Local(s, N), NEW m \in EncryptedMessages, Arrived(s.id, m, N),
           s.step = "Open", NEW o \in PutEncrypted(s, m)
    PROVE  Keeps(s, o.s, N)
<1>. DEFINE t == [s EXCEPT !.incoming = Append(@, m)]
<1>1. o \in Rejects(s) \/ o = Outcome(t, None, TRUE)
  BY DEF PutEncrypted
<1>2. CASE o = Outcome(t, None, TRUE)
  <2>. USE DEF SessionFields, Local, LocalType
  <2>1. LocalType(t) /\ LocalPublished(t) /\ LocalVerdict(t)
    BY DEF LocalPublished, LocalVerdict
  <2>2. LocalHandshake(t, N)
    BY DEF LocalHandshake, MadeBy, OwnEnd, Committed
  <2>3. LocalOpen(t)
    BY DEF LocalOpen, SessionBindingVerified, AssertionBindingVerified
  <2>4. LocalQueues(t, N)
    <3>1. /\ t.outgoing = s.outgoing /\ t.incoming = Append(s.incoming, m)
          /\ t.step = s.step /\ t.id = s.id /\ t.hash = s.hash
      OBVIOUS
    <3>2. /\ t.incoming \in Seq(EncryptedMessages) /\ Len(t.incoming) = Len(s.incoming) + 1
          /\ \A i \in 1..Len(t.incoming) :
                 t.incoming[i] = IF i = Len(s.incoming) + 1 THEN m ELSE s.incoming[i]
          /\ Len(s.incoming) \in Nat
      BY <3>1 DEF LocalQueues
    <3>. HIDE DEF t
    <3>. QED  BY <3>1, <3>2 DEF LocalQueues
  <2>5. Evolves(s, t)
    BY DEF Evolves, Committed, Decided
  <2>6. Keeps(s, t, N)
    BY <2>1, <2>2, <2>3, <2>4, <2>5 DEF Keeps
  <2>. HIDE DEF t
  <2>. QED  BY <1>2, <2>6 DEF Outcome
<1>. QED  BY <1>1, <1>2, ErrKeeps

(* A step that is lost by an error keeps the rest.                         *)
LEMMA SpoiledKeeps ==
    ASSUME NEW s, NEW N, Local(s, N)
    PROVE  Keeps(s, [s EXCEPT !.spoiled = TRUE], N)
<1>. DEFINE t == [s EXCEPT !.spoiled = TRUE]
<1>. USE DEF SessionFields, Local, LocalType
<1>1. LocalType(t) /\ LocalPublished(t) /\ LocalVerdict(t) /\ LocalQueues(t, N)
  BY DEF LocalPublished, LocalVerdict, LocalQueues
<1>2. LocalHandshake(t, N)
  BY DEF LocalHandshake, MadeBy, OwnEnd, Committed
<1>3. LocalOpen(t)
  BY DEF LocalOpen, SessionBindingVerified, AssertionBindingVerified
<1>4. Evolves(s, t)
  BY DEF Evolves, Committed, Decided
<1>. QED  BY <1>1, <1>2, <1>3, <1>4 DEF Keeps

(* A binding of a session over a handshake of its own.                     *)
LEMMA BindingMessageType ==
    ASSUME NEW s, NEW N, Local(s, N), NEW b \in BOOLEAN, NEW h \in NoisePeers
    PROVE  /\ BindingMessage(s, b, h) \in HandshakeMessages
           /\ BindingMessage(s, b, h).from = s.id
           /\ BindingMessage(s, b, h).hash = h
           /\ BindingMessage(s, b, h).token = s.token
  BY DEF BindingMessage, HandshakeMessages, Local, LocalType

(* The client takes the server's response to its first message: from then  *)
(* on it is committed to that server.                                      *)
LEMMA ClientTakenKeeps ==
    ASSUME NEW s, NEW N, Local(s, N), s.id \in Clients, s.step = "Handshake",
           s.result = None, s.noise_response = None,
           NEW m \in HandshakeMessages, Arrived(s.id, m, N), m.hash = <<s.id, m.from>>,
           NEW binds \in BOOLEAN
    PROVE  LET taken == [s EXCEPT
                           !.spoiled  = TRUE,
                           !.followup = IF binds THEN BindingMessage(s, FALSE, m.hash) ELSE None,
                           !.result   = [hash |-> m.hash, from_peer |-> m]]
           IN  Keeps(s, taken, N) /\ taken.step = "Handshake" /\ taken.result # None
<1>. DEFINE b == BindingMessage(s, FALSE, m.hash)
            r == [hash |-> m.hash, from_peer |-> m]
            t == [s EXCEPT !.spoiled = TRUE, !.followup = IF binds THEN b ELSE None, !.result = r]
<1>1. m.from \in Servers
  BY EndpointAssumption DEF Arrived, Addressed, HandshakeMessages, Sessions
<1>2. m.hash # None /\ m.hash \in NoisePeers /\ m \in N /\ m.hash[1] = s.id /\ m.hash[2] = m.from
  BY <1>1, NoneAssumption DEF Arrived, HandshakeMessages
<1>3. r \in HandshakeResults /\ r # None /\ r.hash = m.hash /\ r.from_peer = m
  BY <1>2, NoneAssumption DEF HandshakeResults
<1>4. b \in HandshakeMessages /\ b.from = s.id /\ b.hash = m.hash /\ b.token = s.token
  BY <1>2, BindingMessageType
<1>5. s.id \notin Servers
  BY EndpointAssumption
<1>. HIDE DEF b, r
<1>. USE DEF SessionFields, Local, LocalType
<1>6. /\ t.id = s.id /\ t.step = s.step /\ t.token = s.token /\ t.noise_response = None
      /\ t.result = r /\ t.followup = IF binds THEN b ELSE None
      /\ t.response = s.response
  OBVIOUS
<1>7. LocalType(t) /\ LocalPublished(t) /\ LocalVerdict(t) /\ LocalQueues(t, N) /\ LocalOpen(t)
  BY DEF LocalPublished, LocalVerdict, LocalQueues, LocalOpen
<1>8. Evolves(s, t)
  <2>1. \A h \in NoisePeers : ~Committed(s, h)
    BY NoneAssumption, EndpointAssumption DEF Committed
  <2>. QED  BY <2>1 DEF Evolves, Decided
<1>. HIDE DEF t
<1>9. LocalHandshake(t, N)
  <2>1. OwnEnd(t, m.hash) /\ Committed(t, m.hash)
    BY <1>2, <1>3, <1>5, <1>6 DEF OwnEnd, Committed
  <2>2. MadeBy(t, b)
    BY <1>4, <1>6, <2>1 DEF MadeBy
  <2>3. s.response # None => MadeBy(t, s.response)
    BY <1>8, MadeByEvolves DEF LocalHandshake
  <2>. QED  BY <1>2, <1>3, <1>6, <2>1, <2>2, <2>3 DEF LocalHandshake
<1>10. t.read_nonce = s.read_nonce /\ t.write_nonce = s.write_nonce /\ t.outgoing = s.outgoing
  BY DEF t
<1>11. Keeps(s, t, N) /\ t.step = "Handshake" /\ t.result # None
  BY <1>3, <1>6, <1>7, <1>8, <1>9, <1>10 DEF Keeps
<1>. QED  BY <1>11 DEF t, b, r

(* The response of the handshake at the client.                            *)
LEMMA ClientPutHandshakeKeeps ==
    ASSUME NEW s, NEW N, Local(s, N), s.id \in Clients, s.step = "Handshake",
           NEW m \in HandshakeMessages, Arrived(s.id, m, N), NEW o \in ClientPutHandshake(s, m)
    PROVE  Keeps(s, o.s, N)
<1>. DEFINE spoilt == [s EXCEPT !.spoiled = TRUE]
            binds == s.cfg.binders # {} \/ s.cfg.generators # {}
            taken == [s EXCEPT
                        !.spoiled  = TRUE,
                        !.followup = IF binds THEN BindingMessage(s, FALSE, m.hash) ELSE None,
                        !.result   = [hash |-> m.hash, from_peer |-> m]]
<1>1. \/ o \in Rejects(s) \/ o \in Rejects(spoilt) \/ o = Outcome(spoilt, None, FALSE)
      \/ /\ s.result = None /\ m.hash = <<s.id, m.from>>
         /\ o = Outcome(taken, None, TRUE) \/ o \in NextFromHandshake(taken)
  BY Zenon DEF ClientPutHandshake
<1>2. Keeps(s, spoilt, N)
  BY SpoiledKeeps
<1>3. CASE o \in Rejects(s) \/ o \in Rejects(spoilt) \/ o = Outcome(spoilt, None, FALSE)
  <2>. HIDE DEF spoilt
  <2>. QED  BY <1>2, <1>3, KeepsItself DEF Rejects, Outcome
<1>4. CASE /\ s.result = None /\ m.hash = <<s.id, m.from>>
           /\ o = Outcome(taken, None, TRUE) \/ o \in NextFromHandshake(taken)
  <2>1. s.noise_response = None
    BY EndpointAssumption DEF Local, LocalHandshake
  <2>2. binds \in BOOLEAN
    OBVIOUS
  <2>. HIDE DEF binds
  <2>3. Keeps(s, taken, N) /\ taken.step = "Handshake" /\ taken.result # None
    BY ZenonT(30), <1>4, <2>1, <2>2, ClientTakenKeeps
  <2>. HIDE DEF taken
  <2>4. Local(taken, N)
    BY <2>3 DEF Keeps
  <2>5. CASE o = Outcome(taken, None, TRUE)
    BY <2>3, <2>5 DEF Outcome
  <2>6. CASE o \in NextFromHandshake(taken)
    BY <2>3, <2>4, <2>6, NextFromHandshakeKeeps, KeepsTransitive
  <2>. QED  BY <1>4, <2>5, <2>6
<1>. QED  BY <1>1, <1>3, <1>4

(* The server answers a first message, and is committed to that client; or *)
(* takes the request that it waits for, and keeps its commitment.          *)
LEMMA ServerPutHandshakeKeeps ==
    ASSUME NEW s, NEW N, Local(s, N), s.id \notin Clients, s.step = "Handshake",
           NEW m \in HandshakeMessages, Arrived(s.id, m, N), NEW o \in ServerPutHandshake(s, m)
    PROVE  Keeps(s, o.s, N)
<1>. USE DEF SessionFields, Local, LocalType
<1>1. s.id \in Servers
  BY DEF Sessions
<1>. DEFINE h == <<m.from, s.id>>
            b == BindingMessage(s, TRUE, h)
            r == [hash |-> h, from_peer |-> None]
            f == [hash |-> s.noise_response, from_peer |-> m]
            answered == [s EXCEPT !.response = b]
            t1 == [s EXCEPT !.noise_response = None, !.result = f]
            t2 == [answered EXCEPT !.noise_response = h]
            t3 == [answered EXCEPT !.result = r]
<1>2. \/ o \in Rejects(s) \/ o = Outcome(s, None, FALSE)
      \/ /\ s.result = None /\ s.noise_response # None
         /\ o = Outcome(t1, None, TRUE)
      \/ /\ s.result = None /\ s.noise_response = None /\ h \in NoisePeers
         /\ o = Outcome(t2, None, TRUE) \/ o = Outcome(t3, None, TRUE)
  BY Zenon DEF ServerPutHandshake
<1>3. CASE o \in Rejects(s) \/ o = Outcome(s, None, FALSE)
  BY <1>3, KeepsItself DEF Rejects, Outcome
<1>4. CASE s.result = None /\ s.noise_response # None /\ o = Outcome(t1, None, TRUE)
  <2>1. OwnEnd(s, s.noise_response)
    BY <1>4 DEF LocalHandshake
  <2>2. /\ f \in HandshakeResults /\ f # None
        /\ f.hash = s.noise_response /\ f.from_peer = m
    BY <2>1, NoneAssumption DEF HandshakeResults, OwnEnd
  <2>. HIDE DEF f
  <2>3. /\ t1.id = s.id /\ t1.step = s.step /\ t1.token = s.token /\ t1.noise_response = None
        /\ t1.result = f /\ t1.followup = s.followup /\ t1.response = s.response
        /\ t1.verdict = s.verdict
    OBVIOUS
  <2>4. /\ LocalType(t1) /\ LocalPublished(t1) /\ LocalVerdict(t1) /\ LocalQueues(t1, N)
        /\ LocalOpen(t1)
        /\ t1.read_nonce = s.read_nonce /\ t1.write_nonce = s.write_nonce
        /\ t1.outgoing = s.outgoing
    BY DEF LocalPublished, LocalVerdict, LocalQueues, LocalOpen
  <2>. HIDE DEF t1
  <2>5. Evolves(s, t1)
    BY <1>4, <2>2, <2>3 DEF Evolves, Committed, Decided
  <2>6. LocalHandshake(t1, N)
    <3>1. /\ s.followup # None => MadeBy(t1, s.followup)
          /\ s.response # None => MadeBy(t1, s.response)
      BY <2>5, MadeByEvolves DEF LocalHandshake
    <3>2. OwnEnd(t1, f.hash)
      BY <2>1, <2>2, <2>3 DEF OwnEnd
    <3>. QED  BY <1>1, <2>2, <2>3, <3>1, <3>2, EndpointAssumption DEF LocalHandshake
  <2>7. Keeps(s, t1, N)
    BY <2>4, <2>5, <2>6 DEF Keeps
  <2>. QED  BY <1>4, <2>7 DEF Outcome
<1>5. CASE /\ s.result = None /\ s.noise_response = None /\ h \in NoisePeers
           /\ o = Outcome(t2, None, TRUE) \/ o = Outcome(t3, None, TRUE)
  <2>1. h # None /\ h[1] = m.from /\ h[2] = s.id
    BY <1>5, NoneAssumption, EndpointAssumption
  <2>2. r \in HandshakeResults /\ r # None /\ r.hash = h /\ r.from_peer = None
    BY <1>5, NoneAssumption DEF HandshakeResults
  <2>3. b \in HandshakeMessages /\ b.from = s.id /\ b.hash = h /\ b.token = s.token
    BY <1>5, BindingMessageType
  <2>. HIDE DEF h, b, r
  <2>4. ASSUME NEW t, t = t2 \/ t = t3
        PROVE  Keeps(s, t, N)
    <3>1. /\ t.id = s.id /\ t.step = s.step /\ t.token = s.token
          /\ \/ t.noise_response = h /\ t.result = None
             \/ t.noise_response = None /\ t.result = r
          /\ t.followup = s.followup /\ t.response = b /\ t.verdict = s.verdict
      BY <1>5, <2>4
    <3>2. /\ LocalType(t) /\ LocalPublished(t) /\ LocalVerdict(t) /\ LocalQueues(t, N)
          /\ LocalOpen(t)
          /\ t.read_nonce = s.read_nonce /\ t.write_nonce = s.write_nonce
          /\ t.outgoing = s.outgoing
      BY ZenonT(30), <2>4 DEF LocalPublished, LocalVerdict, LocalQueues, LocalOpen
    <3>. HIDE DEF t2, t3
    <3>3. Evolves(s, t)
      <4>1. \A x \in NoisePeers : ~Committed(s, x)
        BY <1>5, NoneAssumption, EndpointAssumption DEF Committed
      <4>. QED  BY <3>1, <4>1 DEF Evolves, Decided
    <3>4. LocalHandshake(t, N)
      <4>1. OwnEnd(t, h) /\ Committed(t, h)
        BY <1>1, <1>5, <2>1, <2>2, <3>1, EndpointAssumption DEF OwnEnd, Committed
      <4>2. MadeBy(t, b)
        BY <2>3, <3>1, <4>1 DEF MadeBy
      <4>3. s.followup = None
        BY <1>5 DEF LocalHandshake
      <4>. QED  BY <1>1, <2>1, <2>2, <3>1, <4>1, <4>2, <4>3, EndpointAssumption
                DEF LocalHandshake
    <3>. QED  BY <3>2, <3>3, <3>4 DEF Keeps
  <2>5. Keeps(s, t2, N) /\ Keeps(s, t3, N)
    BY <2>4
  <2>. HIDE DEF t2, t3
  <2>. QED  BY <1>5, <2>5 DEF Outcome
<1>. QED  BY <1>2, <1>3, <1>4, <1>5

(* put_incoming_message, whatever the message.                             *)
LEMMA PutIncomingKeeps ==
    ASSUME NEW s, NEW N, NEW m, Local(s, N), Deliverable(s.id, m, N),
           NEW o \in PutIncoming(s, m)
    PROVE  Keeps(s, o.s, N)
<1>1. /\ m.type = "Handshake" => m \in HandshakeMessages /\ Arrived(s.id, m, N)
      /\ m.type = "Encrypted" => m \in EncryptedMessages /\ Arrived(s.id, m, N)
  BY DEF Deliverable, HandshakeMessages, EncryptedMessages
<1>2. CASE m.type = "Attest" /\ s.step = "Attestation"
  <2>. DEFINE put == AttesterPut(s, m)
  <2>1. Keeps(s, put.s, N) /\ put.s.step = "Attestation"
    BY <1>2, AttesterPutKeeps DEF Deliverable
  <2>2. o = put \/ o \in NextFromAttestation(put.s)
    BY <1>2 DEF PutIncoming, ClientPut, ServerPut
  <2>. HIDE DEF put
  <2>3. Local(put.s, N)
    BY <2>1 DEF Keeps
  <2>. QED  BY <2>1, <2>2, <2>3, NextFromAttestationKeeps, KeepsTransitive
<1>3. CASE m.type = "Handshake" /\ s.step = "Handshake"
  <2>1. o \in IF s.id \in Clients THEN ClientPutHandshake(s, m) ELSE ServerPutHandshake(s, m)
    BY <1>3 DEF PutIncoming, ClientPut, ServerPut
  <2>. QED  BY <1>1, <1>3, <2>1, ClientPutHandshakeKeeps, ServerPutHandshakeKeeps
<1>4. CASE m.type = "Encrypted" /\ s.step = "Open"
  <2>1. o \in PutEncrypted(s, m)
    BY <1>4 DEF PutIncoming, ClientPut, ServerPut
  <2>. QED  BY <1>1, <1>4, <2>1, PutEncryptedKeeps
<1>5. CASE /\ ~(m.type = "Attest" /\ s.step = "Attestation")
           /\ ~(m.type = "Handshake" /\ s.step = "Handshake")
           /\ ~(m.type = "Encrypted" /\ s.step = "Open")
  <2>1. o \in Rejects(s)
    BY <1>5 DEF PutIncoming, ClientPut, ServerPut
  <2>. QED  BY <2>1, ErrKeeps
<1>. QED  BY <1>2, <1>3, <1>4, <1>5

(* get_outgoing_message of either.                                         *)
LEMMA GetOutgoingTakes ==
    ASSUME NEW s, NEW N, Local(s, N), NEW o \in GetOutgoing(s)
    PROVE  Takes(s, o.s, N) /\ HandsOut(s, o.s, o.out)
  BY ClientGetOutgoingTakes, ServerGetOutgoingTakes DEF GetOutgoing

(* write: a nonce is used up with every attempt to seal.                   *)
LEMMA WriteSeals ==
    ASSUME NEW s, NEW N, Local(s, N), NEW d \in Plaintext, NEW o \in Write(s, d)
    PROVE  /\ Local(o.s, N) /\ Evolves(s, o.s) /\ o.s.read_nonce = s.read_nonce
           /\ \/ o.s.write_nonce = s.write_nonce /\ o.s.outgoing = s.outgoing
              \/ /\ s.step = "Open" /\ o.s.write_nonce = s.write_nonce + 1
                 /\ \/ ~o.ok /\ o.s.outgoing = s.outgoing
                    \/ o.ok /\ o.s.outgoing = Append(s.outgoing, EncryptedMessage(s, d))
           /\ s.step = "Open" => EncryptedMessage(s, d).from = s.id
           /\ EncryptedMessage(s, d).sealed = [nonce |-> s.write_nonce, data |-> d]
<1>. DEFINE used == [s EXCEPT !.write_nonce = @ + 1]
            e == EncryptedMessage(s, d)
            t == [used EXCEPT !.outgoing = Append(@, e)]
<1>1. /\ e.from = s.id /\ e.hash = s.hash
      /\ e.sealed = [nonce |-> s.write_nonce, data |-> d]
  BY DEF EncryptedMessage, Seal
<1>2. \/ o \in Rejects(s)
      \/ /\ s.step = "Open" /\ NonceAvailable(s.write_nonce)
         /\ o \in Rejects(used) \/ o = Outcome(t, None, TRUE)
  BY Zenon DEF Write
<1>3. CASE o \in Rejects(s)
  BY <1>1, <1>3, ErrKeeps DEF Keeps
<1>4. ASSUME s.step = "Open", NonceAvailable(s.write_nonce),
             o \in Rejects(used) \/ o = Outcome(t, None, TRUE)
      PROVE  /\ Local(o.s, N) /\ Evolves(s, o.s) /\ o.s.read_nonce = s.read_nonce
             /\ o.s.write_nonce = s.write_nonce + 1
             /\ \/ ~o.ok /\ o.s.outgoing = s.outgoing
                \/ o.ok /\ o.s.outgoing = Append(s.outgoing, e)
  <2>. USE DEF SessionFields, Local, LocalType
  <2>1. e \in EncryptedMessages
    <3>1. s.hash \in NoisePeers
      BY <1>4 DEF LocalOpen, LocalHandshake, OwnEnd
    <3>2. [nonce |-> s.write_nonce, data |-> d] \in Message
      BY <1>4, NonceAssumption DEF NonceAvailable, Message
    <3>. QED  BY <3>1, <3>2 DEF EncryptedMessages, EncryptedMessage, Seal
  <2>. HIDE DEF e
  <2>2. ASSUME NEW u, u = used \/ u = t
        PROVE  /\ Local(u, N) /\ Evolves(s, u)
               /\ u.read_nonce = s.read_nonce /\ u.write_nonce = s.write_nonce + 1
               /\ u = used => u.outgoing = s.outgoing
               /\ u = t => u.outgoing = Append(s.outgoing, e)
    <3>1. s.write_nonce + 1 \in Nat /\ LocalType(s)
      OBVIOUS
    <3>2. LocalType(u) /\ LocalPublished(u) /\ LocalVerdict(u)
      <4>1. CASE u = used
        BY <3>1, <4>1 DEF LocalPublished, LocalVerdict
      <4>2. CASE u = t
        BY <3>1, <4>2 DEF LocalPublished, LocalVerdict
      <4>. QED  BY <2>2, <4>1, <4>2
    <3>3. LocalHandshake(u, N)
      BY <2>2, SameHandshake
    <3>4. LocalOpen(u)
      BY <2>2 DEF LocalOpen, SessionBindingVerified, AssertionBindingVerified
    <3>5. /\ u.read_nonce = s.read_nonce /\ u.write_nonce = s.write_nonce + 1
          /\ u.incoming = s.incoming /\ u.step = s.step /\ u.id = s.id /\ u.hash = s.hash
          /\ u = used => u.outgoing = s.outgoing
          /\ u = t => u.outgoing = Append(s.outgoing, e)
      BY <2>2
    <3>6. Evolves(s, u)
      BY <2>2 DEF Evolves, Committed, Decided
    <3>. HIDE DEF used, t
    <3>7. LocalQueues(u, N)
      <4>1. CASE u = used
        BY <3>5, <4>1 DEF LocalQueues
      <4>2. CASE u = t
        <5>1. /\ u.outgoing \in Seq(EncryptedMessages)
              /\ Len(u.outgoing) = Len(s.outgoing) + 1 /\ Len(s.outgoing) \in Nat
              /\ \A i \in 1..Len(u.outgoing) :
                     u.outgoing[i] = IF i = Len(s.outgoing) + 1 THEN e ELSE s.outgoing[i]
          <6>1. s.outgoing \in Seq(EncryptedMessages) /\ u.outgoing = Append(s.outgoing, e)
            BY <3>5, <4>2 DEF LocalQueues
          <6>. QED  BY <2>1, <6>1, AppendProperties
        <5>2. e.from = s.id /\ e.hash = s.hash
          BY <1>1 DEF e
        <5>. QED  BY <1>4, <3>5, <5>1, <5>2 DEF LocalQueues
      <4>. QED  BY <2>2, <4>1, <4>2
    <3>. QED  BY <3>2, <3>3, <3>4, <3>5, <3>6, <3>7
  <2>. HIDE DEF used, t
  <2>. QED  BY <1>4, <2>2 DEF Rejects, Outcome
<1>. QED  BY <1>1, <1>2, <1>3, <1>4

(* read: a message that is returned is the oldest in the queue, and was    *)
(* sealed with this session's keys and the nonce that is next.             *)
LEMMA ReadOpens ==
    ASSUME NEW s, NEW N, Local(s, N), NEW o \in Read(s)
    PROVE  /\ Local(o.s, N) /\ Evolves(s, o.s)
           /\ o.s.write_nonce = s.write_nonce /\ o.s.outgoing = s.outgoing
           /\ s.read_nonce <= o.s.read_nonce
           /\ o.out # None =>
                 /\ s.step = "Open" /\ o.s.read_nonce = s.read_nonce + 1
                 /\ \E m \in EncryptedMessages :
                        /\ Arrived(s.id, m, N) /\ m.hash = s.hash
                        /\ o.out = m.sealed /\ m.sealed.nonce = s.read_nonce
<1>. DEFINE m == Head(s.incoming)
            popped == [s EXCEPT !.incoming = Tail(@)]
            used == [popped EXCEPT !.read_nonce = @ + 1]
<1>1. \/ o \in Rejects(s) \/ o = Outcome(s, None, TRUE)
      \/ /\ s.step = "Open" /\ s.incoming # << >>
         /\ \/ o \in Rejects(popped) \/ o \in Rejects(used)
            \/ /\ o = Outcome(used, m.sealed, TRUE)
               /\ m.hash = s.hash /\ Opens(s.read_nonce, m.sealed)
  BY Zenon DEF Read
<1>2. CASE o \in Rejects(s) \/ o = Outcome(s, None, TRUE)
  <2>1. o.s = s /\ o.out = None
    BY <1>2 DEF Rejects, Outcome
  <2>. QED  BY <2>1, KeepsItself DEF Keeps, Local, LocalType
<1>3. ASSUME s.step = "Open", s.incoming # << >>,
             \/ o \in Rejects(popped) \/ o \in Rejects(used)
             \/ /\ o = Outcome(used, m.sealed, TRUE)
                /\ m.hash = s.hash /\ Opens(s.read_nonce, m.sealed)
      PROVE  /\ Local(o.s, N) /\ Evolves(s, o.s)
             /\ o.s.write_nonce = s.write_nonce /\ o.s.outgoing = s.outgoing
             /\ s.read_nonce <= o.s.read_nonce
             /\ o.out # None =>
                   /\ o.s.read_nonce = s.read_nonce + 1
                   /\ m.hash = s.hash /\ o.out = m.sealed /\ m.sealed.nonce = s.read_nonce
  <2>. USE DEF SessionFields, Local, LocalType
  <2>1. ASSUME NEW u, u = popped \/ u = used
        PROVE  /\ Local(u, N) /\ Evolves(s, u)
               /\ u.write_nonce = s.write_nonce /\ u.outgoing = s.outgoing
               /\ s.read_nonce <= u.read_nonce
               /\ u = used => u.read_nonce = s.read_nonce + 1
    <3>1. s.read_nonce + 1 \in Nat /\ s.read_nonce <= s.read_nonce + 1 /\ LocalType(s)
      OBVIOUS
    <3>2. LocalType(u) /\ LocalPublished(u) /\ LocalVerdict(u)
      <4>1. CASE u = popped
        BY <4>1 DEF LocalPublished, LocalVerdict
      <4>2. CASE u = used
        BY <3>1, <4>2 DEF LocalPublished, LocalVerdict
      <4>. QED  BY <2>1, <4>1, <4>2
    <3>3. LocalHandshake(u, N)
      BY <2>1, SameHandshake
    <3>4. LocalOpen(u)
      BY <2>1 DEF LocalOpen, SessionBindingVerified, AssertionBindingVerified
    <3>5. /\ u.write_nonce = s.write_nonce /\ u.outgoing = s.outgoing
          /\ s.read_nonce <= u.read_nonce /\ u.incoming = Tail(s.incoming)
          /\ u.step = s.step /\ u.id = s.id /\ u.hash = s.hash
          /\ u = used => u.read_nonce = s.read_nonce + 1
      <4>1. CASE u = popped
        <5>1. popped # used
          <6>1. popped.read_nonce = s.read_nonce /\ used.read_nonce = s.read_nonce + 1
            OBVIOUS
          <6>. HIDE DEF popped, used
          <6>. QED  BY <3>1, <6>1
        <5>. QED  BY <4>1, <5>1
      <4>2. CASE u = used
        BY <3>1, <4>2
      <4>. QED  BY <2>1, <4>1, <4>2
    <3>6. Evolves(s, u)
      BY <2>1 DEF Evolves, Committed, Decided
    <3>. HIDE DEF used, popped
    <3>7. LocalQueues(u, N)
      <4>1. /\ Tail(s.incoming) \in Seq(EncryptedMessages)
            /\ Len(Tail(s.incoming)) = Len(s.incoming) - 1 /\ Len(s.incoming) \in Nat \ {0}
            /\ \A i \in 1..Len(Tail(s.incoming)) : Tail(s.incoming)[i] = s.incoming[i + 1]
        BY <1>3 DEF LocalQueues
      <4>. QED  BY <3>5, <4>1 DEF LocalQueues
    <3>. QED  BY <3>2, <3>3, <3>4, <3>5, <3>6, <3>7
  <2>. HIDE DEF used, popped, m
  <2>. QED  BY <1>3, <2>1 DEF Rejects, Outcome, Opens
<1>4. s.incoming # << >> => m \in EncryptedMessages /\ Arrived(s.id, m, N)
  <2>1. s.incoming # << >> =>
            m = s.incoming[1] /\ m \in EncryptedMessages /\ 1 \in 1..Len(s.incoming)
    BY DEF Local, LocalQueues
  <2>. QED  BY <2>1 DEF Local, LocalQueues
<1>. HIDE DEF m
<1>. QED  BY <1>1, <1>2, <1>3, <1>4

-----------------------------------------------------------------------------
(* What a step of session p to t leaves true of everything that was sent   *)
(* and of the other sessions, when what was written only grows.            *)
Extends(p, t) ==
    /\ session' = [session EXCEPT ![p] = t]
    /\ net \subseteq net'
    /\ Local(t, net') /\ Evolves(session[p], t)
    /\ DOMAIN written' = DOMAIN written
    /\ \A q \in Parties :
          /\ written'[q] \in Seq(Plaintext \cup {None})
          /\ Len(written[q]) <= Len(written'[q])
          /\ \A i \in 1..Len(written[q]) : written'[q][i] = written[q][i]

(* A party that changes its session leaves the others alone.               *)
LEMMA ExtendsSessions ==
    ASSUME IInv, NEW p \in Parties, NEW t, Extends(p, t)
    PROVE  /\ Parties' = Parties
           /\ \A q \in Parties : session'[q] = IF q = p THEN t ELSE session[q]
           /\ \A q \in Parties : Evolves(session[q], session'[q])
           /\ SessionsOK'
<1>1. Parties' = Parties
  BY DEF Extends, Parties
<1>2. \A q \in Parties : session'[q] = IF q = p THEN t ELSE session[q]
  BY DEF Extends, Parties
<1>3. \A q \in Parties : Evolves(session[q], session'[q])
  BY <1>2 DEF Extends, Evolves
<1>4. \A q \in Parties : Local(session'[q], net')
  BY <1>2, LocalMonotonic DEF Extends, IInv, SessionsOK
<1>5. \A q \in Parties : session'[q].id = q
  BY <1>3 DEF Evolves, IInv, SessionsOK
<1>. QED  BY <1>1, <1>2, <1>3, <1>4, <1>5 DEF IInv, SessionsOK

(* What was sent stays sent.                                               *)
LEMMA ExtendsSent ==
    ASSUME IInv, NEW p \in Parties, NEW t, Extends(p, t), NEW m, Sent(m)
    PROVE  Sent(m)'
<1>. DEFINE q == m.from
<1>1. /\ q \in Parties /\ q \in Parties'
      /\ Evolves(session[q], session'[q])
  BY ExtendsSessions DEF Sent
<1>2. CASE m.type = "Attest"
  BY <1>1, <1>2 DEF Sent
<1>3. CASE MadeBy(session[q], m)
  BY <1>1, <1>3, MadeByEvolves DEF Sent
<1>4. CASE /\ m \in EncryptedMessages
           /\ session[q].step = "Open" /\ m.hash = session[q].hash
           /\ Written(m)
  <2>1. session'[q].step = "Open" /\ m.hash = session'[q].hash
    BY <1>1, <1>4 DEF Evolves, Decided
  <2>2. Written(m)'
    <3>1. /\ m.sealed.nonce \in Nat
          /\ written[q] \in Seq(Plaintext \cup {None})
          /\ written'[q] \in Seq(Plaintext \cup {None})
      BY <1>1, <1>4, NonceAssumption
      DEF EncryptedMessages, Message, IInv, WrittenOK, Extends
    <3>2. m.sealed.nonce + 1 \in 1..Len(written[q])
      BY <1>4, <3>1 DEF Written
    <3>3. Len(written[q]) <= Len(written'[q])
          /\ written'[q][m.sealed.nonce + 1] = written[q][m.sealed.nonce + 1]
      BY <1>1, <3>2 DEF Extends
    <3>. QED  BY <1>4, <3>1, <3>2, <3>3 DEF Written
  <2>. QED  BY <1>1, <1>4, <2>1, <2>2 DEF Sent
<1>. QED  BY <1>2, <1>3, <1>4 DEF Sent

(* What was delivered stays authentic and in order.                        *)
LEMMA ExtendsDelivered ==
    ASSUME IInv, NEW p \in Parties, NEW t, Extends(p, t),
           session[p].read_nonce <= t.read_nonce,
           UNCHANGED delivered
    PROVE  DeliveredOK' /\ AuthenticInOrder'
<1>1. /\ Parties' = Parties
      /\ \A q \in Parties : session'[q] = IF q = p THEN t ELSE session[q]
      /\ \A q \in Parties : Evolves(session[q], session'[q])
  BY ExtendsSessions
<1>2. \A q \in Parties : session[q].step = "Open" =>
         session'[q].step = "Open" /\ session'[q].hash = session[q].hash
  BY <1>1 DEF Evolves, Decided
<1>3. \A q \in Parties : delivered[q] # << >> =>
         session'[q].step = "Open" /\ Peer(q)' = Peer(q) /\ Peer(q) \in Parties
  BY <1>2 DEF IInv, DeliveredOK, Peer
<1>4. \A q \in Parties : session[q].read_nonce \in Nat /\ session'[q].read_nonce \in Nat
                          /\ session[q].read_nonce <= session'[q].read_nonce
  BY <1>1 DEF IInv, SessionsOK, Extends, Local, LocalType
<1>5. \A q \in Parties : \A i \in 1..Len(delivered[q]) :
         delivered[q][i] \in Message /\ delivered[q][i].nonce \in Nat
  <2>1. \A x \in Message : x.nonce \in Nat
    BY NonceAssumption DEF Message
  <2>. QED  BY <2>1 DEF IInv, DeliveredOK
<1>6. DeliveredOK'
  BY <1>1, <1>3, <1>4, <1>5 DEF IInv, DeliveredOK
<1>7. ASSUME NEW q \in Parties, NEW i \in 1..Len(delivered[q])
      PROVE  LET c == delivered[q][i]
             IN  /\ c.nonce < Len(written'[Peer(q)'])
                 /\ written'[Peer(q)'][c.nonce + 1] = c.data
                 /\ \A j \in 1..(i - 1) : delivered[q][j].nonce < c.nonce
  <2>. DEFINE c == delivered[q][i]
  <2>1. delivered[q] # << >>
    BY <1>7 DEF IInv, DeliveredOK
  <2>2. Peer(q)' = Peer(q) /\ Peer(q) \in Parties
    BY <1>3, <2>1
  <2>3. /\ c.nonce < Len(written[Peer(q)])
        /\ written[Peer(q)][c.nonce + 1] = c.data
        /\ \A j \in 1..(i - 1) : delivered[q][j].nonce < c.nonce
    BY DEF IInv, AuthenticInOrder
  <2>4. /\ written[Peer(q)] \in Seq(Plaintext \cup {None})
        /\ written'[Peer(q)] \in Seq(Plaintext \cup {None})
        /\ Len(written[Peer(q)]) <= Len(written'[Peer(q)])
        /\ c.nonce \in Nat
    BY <1>5, <2>2 DEF IInv, WrittenOK, Extends
  <2>5. c.nonce + 1 \in 1..Len(written[Peer(q)])
    BY <2>3, <2>4
  <2>6. written'[Peer(q)][c.nonce + 1] = written[Peer(q)][c.nonce + 1]
    BY <2>2, <2>5 DEF Extends
  <2>. HIDE DEF c
  <2>7. c.nonce < Len(written'[Peer(q)])
    BY <2>3, <2>4
  <2>. QED  BY <2>2, <2>3, <2>6, <2>7 DEF c
<1>. QED  BY <1>1, <1>6, <1>7 DEF AuthenticInOrder

(* Each action keeps the invariant: handing out a message,                 *)
LEMMA GetOutgoingIInv ==
    ASSUME IInv, NEW p \in Parties, GetOutgoingMessage(p)
    PROVE  IInv'
<1>1. PICK o \in GetOutgoing(session[p]) :
         /\ session' = [session EXCEPT ![p] = o.s]
         /\ net' = IF o.out = None THEN net ELSE net \cup {o.out}
         /\ UNCHANGED <<written, delivered>>
  BY DEF GetOutgoingMessage, Step
<1>. DEFINE s == session[p]
            t == o.s
<1>2. Local(s, net) /\ s.id = p
  BY DEF IInv, SessionsOK
<1>3. Takes(s, t, net) /\ HandsOut(s, t, o.out)
  BY <1>1, <1>2, GetOutgoingTakes
<1>4. Extends(p, t)
  BY <1>1, <1>3, LocalMonotonic DEF Takes, Extends, IInv, WrittenOK
<1>5. /\ Parties' = Parties /\ SessionsOK'
      /\ \A q \in Parties : session'[q] = IF q = p THEN t ELSE session[q]
  BY <1>4, ExtendsSessions
<1>6. s.outgoing # << >> =>
         /\ s.outgoing \in Seq(EncryptedMessages)
         /\ Head(s.outgoing) = s.outgoing[1] /\ 1 \in 1..Len(s.outgoing)
         /\ Len(Tail(s.outgoing)) = Len(s.outgoing) - 1
         /\ \A i \in 1..Len(Tail(s.outgoing)) : Tail(s.outgoing)[i] = s.outgoing[i + 1]
         /\ Len(s.outgoing) \in Nat
  BY <1>2 DEF Local, LocalQueues
<1>7. o.out # None => Sent(o.out)'
  <2>1. CASE o.out # None /\ s.outgoing # << >> /\ o.out = Head(s.outgoing)
    <3>1. /\ o.out \in EncryptedMessages /\ o.out.from = p
          /\ s.step = "Open" /\ o.out.hash = s.hash
      BY <1>2, <1>6, <2>1 DEF Local, LocalQueues
    <3>2. Written(o.out)
      BY <1>6, <2>1 DEF IInv, WrittenOK
    <3>3. Sent(o.out)
      BY <3>1, <3>2 DEF Sent
    <3>. QED  BY <1>4, <3>3, ExtendsSent
  <2>2. CASE o.out # None /\ o.out.from = p /\ o.out.type = "Attest"
    BY <1>5, <2>2 DEF Sent
  <2>3. CASE o.out # None /\ o.out.from = p /\ MadeBy(t, o.out)
    BY <1>5, <2>3 DEF Sent
  <2>. QED  BY <1>2, <1>3, <2>1, <2>2, <2>3 DEF HandsOut
<1>8. NetOK'
  <2>1. \A m \in net : Sent(m)'
    BY <1>4, ExtendsSent DEF IInv, NetOK
  <2>. QED  BY <1>1, <1>7, <2>1 DEF NetOK
<1>9. WrittenOK'
  <2>1. \A i \in 1..Len(t.outgoing) : Written(t.outgoing[i])
    <3>1. CASE t.outgoing = s.outgoing
      BY <3>1 DEF IInv, WrittenOK
    <3>2. CASE s.outgoing # << >> /\ t.outgoing = Tail(s.outgoing)
      <4>1. \A i \in 1..Len(s.outgoing) : Written(s.outgoing[i])
        BY DEF IInv, WrittenOK
      <4>2. \A i \in 1..Len(t.outgoing) : i + 1 \in 1..Len(s.outgoing)
                                         /\ t.outgoing[i] = s.outgoing[i + 1]
        BY <1>6, <3>2
      <4>. QED  BY <4>1, <4>2
    <3>. QED  BY <1>3, <3>1, <3>2 DEF Takes
  <2>2. \A m : Written(m)' <=> Written(m)
    BY <1>1 DEF Written
  <2>3. t.write_nonce = s.write_nonce
    BY <1>3 DEF Takes
  <2>. QED  BY <1>1, <1>5, <2>1, <2>2, <2>3 DEF IInv, WrittenOK
<1>10. DeliveredOK' /\ AuthenticInOrder'
  <2>1. s.read_nonce <= t.read_nonce
    BY <1>2, <1>3 DEF Takes, Local, LocalType
  <2>. QED  BY <1>1, <1>4, <2>1, ExtendsDelivered
<1>. QED  BY <1>5, <1>8, <1>9, <1>10 DEF IInv

(* Whatever the network hands over, damaged or not, was sent by somebody.  *)
LEMMA NetDeliverable ==
    ASSUME IInv, NEW p \in Parties, NEW m \in net
    PROVE  /\ Addressed(m, p) => Deliverable(p, m, net)
           /\ Addressed(Corrupt(m), p) => Deliverable(p, Corrupt(m), net)
<1>1. Sent(m) /\ m.from \in Sessions
  BY DEF IInv, NetOK, Sent, SessionsOK
<1>2. Addressed(m, p) => Deliverable(p, m, net)
  BY <1>1 DEF Sent, MadeBy, Deliverable, Arrived
<1>3. CASE m.type = "Attest"
  BY <1>2, <1>3 DEF Corrupt
<1>4. CASE m.type # "Attest"
  <2>1. m \in HandshakeMessages \cup EncryptedMessages
    BY <1>1, <1>4 DEF Sent, MadeBy
  <2>2. Corrupt(m) = [m EXCEPT !.hash = None]
    BY <1>4 DEF Corrupt
  <2>3. /\ Corrupt(m) \in HandshakeMessages \cup EncryptedMessages
        /\ Corrupt(m).hash = None /\ Corrupt(m).from = m.from
    BY <2>1, <2>2 DEF HandshakeMessages, EncryptedMessages
  <2>. QED  BY <1>1, <1>2, <2>3 DEF Deliverable, Arrived
<1>. QED  BY <1>2, <1>3, <1>4

(* taking one in,                                                          *)
LEMMA PutIncomingIInv ==
    ASSUME IInv, NEW p \in Parties, NEW m, Deliverable(p, m, net), PutIncomingMessage(p, m)
    PROVE  IInv'
<1>1. PICK o \in PutIncoming(session[p], m) :
         /\ session' = [session EXCEPT ![p] = o.s]
         /\ UNCHANGED <<net, written, delivered>>
  BY DEF PutIncomingMessage, Step
<1>. DEFINE s == session[p]
            t == o.s
<1>2. Local(s, net) /\ s.id = p
  BY DEF IInv, SessionsOK
<1>3. Keeps(s, t, net)
  BY <1>1, <1>2, PutIncomingKeeps
<1>4. Extends(p, t)
  BY <1>1, <1>3 DEF Keeps, Extends, IInv, WrittenOK
<1>5. /\ Parties' = Parties /\ SessionsOK'
      /\ \A q \in Parties : session'[q] = IF q = p THEN t ELSE session[q]
  BY <1>4, ExtendsSessions
<1>6. NetOK'
  BY <1>1, <1>4, ExtendsSent DEF IInv, NetOK
<1>7. WrittenOK'
  <2>1. \A x : Written(x)' <=> Written(x)
    BY <1>1 DEF Written
  <2>2. t.write_nonce = s.write_nonce /\ t.outgoing = s.outgoing
    BY <1>3 DEF Keeps
  <2>. QED  BY <1>1, <1>5, <2>1, <2>2 DEF IInv, WrittenOK
<1>8. DeliveredOK' /\ AuthenticInOrder'
  <2>1. s.read_nonce <= t.read_nonce
    BY <1>2, <1>3 DEF Keeps, Local, LocalType
  <2>. QED  BY <1>1, <1>4, <2>1, ExtendsDelivered
<1>. QED  BY <1>5, <1>6, <1>7, <1>8 DEF IInv

(* encrypting a plaintext,                                                 *)
LEMMA WriteIInv ==
    ASSUME IInv, NEW p \in Parties, NEW d \in Plaintext, WriteMessage(p, d)
    PROVE  IInv'
<1>1. PICK o \in Write(session[p], d) :
         /\ session' = [session EXCEPT ![p] = o.s]
         /\ written' = IF o.s.write_nonce = session[p].write_nonce
                       THEN written
                       ELSE [written EXCEPT ![p] = Append(@, IF o.ok THEN d ELSE None)]
         /\ UNCHANGED <<net, delivered>>
  BY DEF WriteMessage, Step
<1>. DEFINE s == session[p]
            t == o.s
            e == EncryptedMessage(s, d)
            w == Append(written[p], IF o.ok THEN d ELSE None)
<1>2. Local(s, net) /\ s.id = p /\ s.write_nonce \in Nat
  BY DEF IInv, SessionsOK, Local, LocalType
<1>3. /\ Local(t, net) /\ Evolves(s, t) /\ t.read_nonce = s.read_nonce
      /\ \/ t.write_nonce = s.write_nonce /\ t.outgoing = s.outgoing
         \/ /\ s.step = "Open" /\ t.write_nonce = s.write_nonce + 1
            /\ \/ ~o.ok /\ t.outgoing = s.outgoing
               \/ o.ok /\ t.outgoing = Append(s.outgoing, e)
      /\ s.step = "Open" => e.from = s.id
      /\ e.sealed = [nonce |-> s.write_nonce, data |-> d]
  BY <1>1, <1>2, WriteSeals
<1>4. /\ written[p] \in Seq(Plaintext \cup {None}) /\ Len(written[p]) = s.write_nonce
      /\ DOMAIN written = Parties
  BY DEF IInv, WrittenOK
<1>5. /\ w \in Seq(Plaintext \cup {None}) /\ Len(w) = s.write_nonce + 1
      /\ \A i \in 1..Len(written[p]) : w[i] = written[p][i]
      /\ w[s.write_nonce + 1] = IF o.ok THEN d ELSE None
  <2>. DEFINE x == IF o.ok THEN d ELSE None
  <2>1. x \in Plaintext \cup {None}
    OBVIOUS
  <2>. HIDE DEF x
  <2>2. /\ Append(written[p], x) \in Seq(Plaintext \cup {None})
        /\ Len(Append(written[p], x)) = Len(written[p]) + 1
        /\ \A i \in 1..Len(written[p]) : Append(written[p], x)[i] = written[p][i]
        /\ Append(written[p], x)[Len(written[p]) + 1] = x
    BY <1>4, <2>1, AppendProperties
  <2>. QED  BY <1>4, <2>2 DEF x
<1>. HIDE DEF w, e
<1>6. /\ DOMAIN written' = DOMAIN written
      /\ \A q \in Parties : q # p => written'[q] = written[q]
      /\ written'[p] = IF t.write_nonce = s.write_nonce THEN written[p] ELSE w
  BY <1>1, <1>4 DEF w
<1>7. Extends(p, t)
  <2>1. \A q \in Parties : written[q] \in Seq(Plaintext \cup {None}) /\ Len(written[q]) \in Nat
    BY DEF IInv, WrittenOK
  <2>2. /\ written'[p] \in Seq(Plaintext \cup {None}) /\ Len(written[p]) <= Len(written'[p])
        /\ \A i \in 1..Len(written[p]) : written'[p][i] = written[p][i]
    BY <1>2, <1>4, <1>5, <1>6
  <2>3. \A q \in Parties :
          /\ written'[q] \in Seq(Plaintext \cup {None})
          /\ Len(written[q]) <= Len(written'[q])
          /\ \A i \in 1..Len(written[q]) : written'[q][i] = written[q][i]
    BY <1>6, <2>1, <2>2
  <2>. QED  BY <1>1, <1>3, <1>6, <2>3 DEF Extends
<1>8. /\ Parties' = Parties /\ SessionsOK'
      /\ \A q \in Parties : session'[q] = IF q = p THEN t ELSE session[q]
  BY <1>7, ExtendsSessions
<1>9. NetOK'
  BY <1>1, <1>7, ExtendsSent DEF IInv, NetOK
<1>10. WrittenOK'
  <2>1. ASSUME NEW q \in Parties, NEW i \in 1..Len(session[q].outgoing),
               NEW m, m = session[q].outgoing[i]
        PROVE  Written(m)'
    <3>1. m \in EncryptedMessages /\ m.from = q /\ Written(m) /\ session[q].step = "Open"
          /\ m.hash = session[q].hash
      <4>1. Local(session[q], net) /\ session[q].id = q
        BY DEF IInv, SessionsOK
      <4>2. m \in EncryptedMessages /\ session[q].outgoing # << >>
        BY <2>1, <4>1 DEF Local, LocalQueues
      <4>3. m.from = q /\ session[q].step = "Open" /\ m.hash = session[q].hash
        BY <2>1, <4>1, <4>2 DEF Local, LocalQueues
      <4>4. Written(m)
        BY <2>1 DEF IInv, WrittenOK
      <4>. QED  BY <4>2, <4>3, <4>4
    <3>2. m.sealed.nonce \in Nat
      BY <3>1, NonceAssumption DEF EncryptedMessages, Message
    <3>3. m.sealed.nonce + 1 \in 1..Len(written[q]) /\ written[q] \in Seq(Plaintext \cup {None})
          /\ written'[q] \in Seq(Plaintext \cup {None})
      <4>1. written[q] \in Seq(Plaintext \cup {None}) /\ m.sealed.nonce < Len(written[q])
        BY <3>1 DEF Written, IInv, WrittenOK
      <4>2. written'[q] \in Seq(Plaintext \cup {None})
        BY <1>7 DEF Extends
      <4>3. Len(written[q]) \in Nat
        BY <4>1
      <4>. QED  BY <3>2, <4>1, <4>2, <4>3
    <3>4. Len(written[q]) <= Len(written'[q])
          /\ written'[q][m.sealed.nonce + 1] = written[q][m.sealed.nonce + 1]
      BY <1>7, <3>3 DEF Extends
    <3>5. m.sealed.nonce < Len(written'[q])
      BY <3>2, <3>3, <3>4
    <3>. QED  BY <3>1, <3>4, <3>5 DEF Written
  <2>2. \A q \in Parties : Len(written'[q]) = session'[q].write_nonce
    BY ZenonT(30), <1>2, <1>3, <1>4, <1>5, <1>6, <1>8 DEF IInv, WrittenOK
  <2>3. ASSUME NEW i \in 1..Len(t.outgoing)
        PROVE  Written(t.outgoing[i])'
    <3>1. CASE t.outgoing = s.outgoing
      BY <2>1, <2>3, <3>1
    <3>2. CASE /\ s.step = "Open" /\ t.write_nonce = s.write_nonce + 1
               /\ o.ok /\ t.outgoing = Append(s.outgoing, e)
      <4>1. s.outgoing \in Seq(EncryptedMessages) /\ Len(s.outgoing) \in Nat
            /\ t.outgoing \in Seq(EncryptedMessages)
        BY <1>2, <1>3 DEF Local, LocalQueues
      <4>2. Len(t.outgoing) = Len(s.outgoing) + 1
            /\ (i <= Len(s.outgoing) => t.outgoing[i] = s.outgoing[i])
            /\ (i = Len(s.outgoing) + 1 => t.outgoing[i] = e)
        BY <2>3, <3>2, <4>1
      <4>3. CASE i <= Len(s.outgoing)
        BY <2>1, <2>3, <4>1, <4>2, <4>3, i \in 1..Len(s.outgoing)
      <4>4. CASE i = Len(s.outgoing) + 1
        <5>1. written'[p] = w /\ s.write_nonce < Len(w) /\ w[s.write_nonce + 1] = d
          BY <1>2, <1>5, <1>6, <3>2
        <5>2. PICK x : x = e
          OBVIOUS
        <5>3. x.from = p /\ x.sealed.nonce = s.write_nonce /\ x.sealed.data = d
          BY <1>2, <1>3, <3>2, <5>2
        <5>4. Written(x)'
          BY <5>1, <5>3 DEF Written
        <5>. QED  BY <4>2, <4>4, <5>2, <5>4
      <4>. QED  BY <2>3, <4>1, <4>2, <4>3, <4>4
    <3>. QED  BY <1>3, <3>1, <3>2
  <2>. QED  BY <1>6, <1>7, <1>8, <2>1, <2>2, <2>3 DEF IInv, WrittenOK, Extends
<1>11. DeliveredOK' /\ AuthenticInOrder'
  <2>1. s.read_nonce <= t.read_nonce
    BY <1>2, <1>3 DEF Local, LocalType
  <2>. QED  BY <1>1, <1>7, <2>1, ExtendsDelivered
<1>. QED  BY <1>8, <1>9, <1>10, <1>11 DEF IInv

(* A handshake message that shows a hash was made by the session at the    *)
(* other end of it, which is committed to that hash.                       *)
LEMMA ArrivedBinding ==
    ASSUME IInv, NEW p \in Parties, NEW m, m \in HandshakeMessages,
           Arrived(p, m, net), m.hash \in NoisePeers, OwnEnd(session[p], m.hash)
    PROVE  LET q == IF p \in Clients THEN m.hash[2] ELSE m.hash[1]
           IN  /\ q \in Parties /\ m.from = q
               /\ session[q].step # "Attestation" /\ session[q].token = m.token
               /\ Committed(session[q], m.hash) /\ OwnEnd(session[q], m.hash)
               /\ session[q].id = q
<1>1. m.hash # None
  BY NoneAssumption, EndpointAssumption
<1>2. Sent(m) /\ Addressed(m, p)
  BY <1>1 DEF Arrived, IInv, NetOK
<1>3. MadeBy(session[m.from], m) /\ m.from \in Parties
  BY <1>2 DEF Sent, HandshakeMessages, EncryptedMessages
<1>4. session[m.from].id = m.from /\ session[p].id = p /\ m.from \in Sessions /\ p \in Sessions
  BY <1>3 DEF IInv, SessionsOK
<1>5. OwnEnd(session[m.from], m.hash) /\ m.token = session[m.from].token
      /\ session[m.from].step # "Attestation" /\ Committed(session[m.from], m.hash)
  BY <1>1, <1>3 DEF MadeBy
<1>6. m.from = IF p \in Clients THEN m.hash[2] ELSE m.hash[1]
  BY <1>2, <1>4, <1>5, EndpointAssumption DEF OwnEnd, Addressed, Sessions
<1>. QED  BY <1>3, <1>4, <1>5, <1>6

(* and returning one that was decrypted.                                   *)
LEMMA ReadIInv ==
    ASSUME IInv, NEW p \in Parties, ReadMessage(p)
    PROVE  IInv'
<1>1. PICK o \in Read(session[p]) :
         /\ session' = [session EXCEPT ![p] = o.s]
         /\ delivered' = IF o.out = None THEN delivered
                         ELSE [delivered EXCEPT ![p] = Append(@, o.out)]
         /\ UNCHANGED <<net, written>>
  BY DEF ReadMessage, Step
<1>. DEFINE s == session[p]
            t == o.s
<1>2. Local(s, net) /\ s.id = p /\ s.read_nonce \in Nat
  BY DEF IInv, SessionsOK, Local, LocalType
<1>3. /\ Local(t, net) /\ Evolves(s, t)
      /\ t.write_nonce = s.write_nonce /\ t.outgoing = s.outgoing
      /\ s.read_nonce <= t.read_nonce
      /\ o.out # None =>
            /\ s.step = "Open" /\ t.read_nonce = s.read_nonce + 1
            /\ \E m \in EncryptedMessages :
                   /\ Arrived(s.id, m, net) /\ m.hash = s.hash
                   /\ o.out = m.sealed /\ m.sealed.nonce = s.read_nonce
  BY <1>1, <1>2, ReadOpens
<1>4. Extends(p, t)
  BY <1>1, <1>3 DEF Extends, IInv, WrittenOK
<1>5. /\ Parties' = Parties /\ SessionsOK'
      /\ \A q \in Parties : session'[q] = IF q = p THEN t ELSE session[q]
      /\ \A q \in Parties : Evolves(session[q], session'[q])
  BY <1>4, ExtendsSessions
<1>6. NetOK'
  BY <1>1, <1>4, ExtendsSent DEF IInv, NetOK
<1>7. WrittenOK'
  <2>1. \A x : Written(x)' <=> Written(x)
    BY <1>1 DEF Written
  <2>. QED  BY <1>1, <1>3, <1>5, <2>1 DEF IInv, WrittenOK
<1>8. CASE o.out = None
  <2>1. DeliveredOK' /\ AuthenticInOrder'
    BY <1>1, <1>3, <1>4, <1>8, ExtendsDelivered
  <2>. QED  BY <1>5, <1>6, <1>7, <2>1 DEF IInv
<1>9. CASE o.out # None
  <2>. DEFINE d == delivered[p]
              e == Append(d, o.out)
  <2>1. PICK m \in EncryptedMessages :
            /\ Arrived(s.id, m, net) /\ m.hash = s.hash
            /\ o.out = m.sealed /\ m.sealed.nonce = s.read_nonce
    BY <1>3, <1>9
  <2>2. /\ s.step = "Open" /\ t.step = "Open" /\ t.hash = s.hash
        /\ t.read_nonce = s.read_nonce + 1
    BY <1>3, <1>9 DEF Evolves, Decided
  (* The message is the peer's, so the peer wrote it under this nonce.     *)
  <2>3. /\ Peer(p) \in Parties /\ o.out \in Message /\ o.out.nonce = s.read_nonce
        /\ o.out.nonce < Len(written[Peer(p)])
        /\ written[Peer(p)][o.out.nonce + 1] = o.out.data
    <3>1. s.hash \in NoisePeers /\ OwnEnd(s, s.hash)
      BY <1>2, <2>2 DEF Local, LocalOpen, LocalHandshake, OwnEnd
    <3>2. m \in net /\ Addressed(m, p)
      BY <1>2, <2>1, <3>1, NoneAssumption, EndpointAssumption DEF Arrived
    <3>3. /\ m.from \in Parties /\ Written(m)
          /\ session[m.from].step = "Open" /\ m.hash = session[m.from].hash
      BY <2>1, <3>2 DEF IInv, NetOK, Sent, MadeBy, HandshakeMessages, EncryptedMessages
    <3>4. /\ session[m.from].id = m.from /\ m.from \in Sessions /\ p \in Sessions
          /\ OwnEnd(session[m.from], m.hash)
      BY <3>3 DEF IInv, SessionsOK, Local, LocalOpen, LocalHandshake
    <3>5. m.from = Peer(p)
      BY <1>2, <2>1, <3>1, <3>2, <3>4, EndpointAssumption DEF OwnEnd, Addressed, Sessions, Peer
    <3>6. m.sealed \in Message
      BY <2>1 DEF EncryptedMessages
    <3>. QED  BY <2>1, <3>3, <3>5, <3>6 DEF Written
  <2>4. DOMAIN delivered = Parties /\ d \in Seq(Message)
    BY DEF IInv, DeliveredOK
  <2>5. /\ e \in Seq(Message) /\ Len(e) = Len(d) + 1 /\ Len(d) \in Nat
        /\ \A i \in 1..Len(d) : e[i] = d[i]
        /\ e[Len(d) + 1] = o.out
    BY <2>3, <2>4, AppendProperties
  <2>. HIDE DEF e
  <2>5a. \A i \in 1..Len(e) : /\ i \in 1..Len(d) \/ i = Len(d) + 1
                             /\ \A j \in 1..(i - 1) : j \in 1..Len(d) /\ e[j] = d[j]
    <3>. HIDE DEF d
    <3>. QED  BY <2>5
  <2>6. /\ DOMAIN delivered' = Parties /\ delivered'[p] = e
        /\ \A q \in Parties : q # p => delivered'[q] = delivered[q]
    BY <1>1, <1>9, <2>4 DEF e
  <2>7. \A q \in Parties : session[q].step = "Open" => Peer(q)' = Peer(q)
    BY <1>5 DEF Evolves, Decided, Peer
  <2>8. \A i \in 1..Len(d) : d[i] \in Message /\ d[i].nonce \in Nat /\ d[i].nonce < s.read_nonce
    <3>1. \A x \in Message : x.nonce \in Nat
      BY NonceAssumption DEF Message
    <3>. QED  BY <3>1 DEF IInv, DeliveredOK
  <2>9. DeliveredOK'
    <3>1. \A q \in Parties \ {p} :
             /\ delivered'[q] \in Seq(Message) /\ session'[q] = session[q]
             /\ delivered'[q] # << >> => session'[q].step = "Open" /\ Peer(q)' \in Parties
             /\ \A i \in 1..Len(delivered'[q]) :
                    delivered'[q][i].nonce < session'[q].read_nonce
      BY <1>5, <2>6, <2>7 DEF IInv, DeliveredOK
    <3>2. \A i \in 1..Len(e) : e[i].nonce < t.read_nonce
      <4>1. ASSUME NEW i \in 1..Len(e) PROVE e[i].nonce < s.read_nonce + 1
        <5>1. CASE i \in 1..Len(d)
          BY SMTT(30), <1>2, <2>5, <2>8, <5>1
        <5>2. CASE i = Len(d) + 1
          BY <1>2, <2>3, <2>5, <5>2
        <5>. QED  BY <2>5a, <5>1, <5>2
      <4>. QED  BY <2>2, <4>1
    <3>3. session'[p].step = "Open" /\ Peer(p)' \in Parties
      BY <1>5, <2>2, <2>3, <2>7
    <3>. QED  BY <1>5, <2>5, <2>6, <3>1, <3>2, <3>3 DEF DeliveredOK
  <2>10. AuthenticInOrder'
    <3>1. ASSUME NEW q \in Parties, q # p, NEW i \in 1..Len(delivered[q])
          PROVE  LET c == delivered[q][i]
                 IN  /\ c.nonce < Len(written[Peer(q)'])
                     /\ written[Peer(q)'][c.nonce + 1] = c.data
                     /\ \A j \in 1..(i - 1) : delivered[q][j].nonce < c.nonce
      <4>1. delivered[q] # << >>
        BY <3>1 DEF IInv, DeliveredOK
      <4>2. Peer(q)' = Peer(q)
        BY <2>7, <4>1 DEF IInv, DeliveredOK
      <4>. QED  BY <3>1, <4>2 DEF IInv, AuthenticInOrder
    <3>2. ASSUME NEW i \in 1..Len(e)
          PROVE  /\ e[i].nonce < Len(written[Peer(p)])
                 /\ written[Peer(p)][e[i].nonce + 1] = e[i].data
                 /\ \A j \in 1..(i - 1) : e[j].nonce < e[i].nonce
      <4>1. CASE i = Len(d) + 1
        BY <2>3, <2>5, <2>8, <2>5a, <4>1
      <4>2. CASE i \in 1..Len(d)
        <5>1. /\ d[i].nonce < Len(written[Peer(p)])
              /\ written[Peer(p)][d[i].nonce + 1] = d[i].data
              /\ \A j \in 1..(i - 1) : d[j].nonce < d[i].nonce
          BY <4>2 DEF IInv, AuthenticInOrder
        <5>. QED  BY <2>5, <2>5a, <4>2, <5>1
      <4>. QED  BY <2>5a, <4>1, <4>2
    <3>3. Peer(p)' = Peer(p)
      BY <2>2, <2>7
    <3>4. ASSUME NEW q \in Parties, NEW i \in 1..Len(delivered'[q])
          PROVE  LET c == delivered'[q][i]
                 IN  /\ c.nonce < Len(written'[Peer(q)'])
                     /\ written'[Peer(q)'][c.nonce + 1] = c.data
                     /\ \A j \in 1..(i - 1) : delivered'[q][j].nonce < c.nonce
      <4>1. CASE q = p
        BY <1>1, <2>6, <3>2, <3>3, <3>4, <4>1
      <4>2. CASE q # p
        BY <1>1, <2>6, <3>1, <3>4, <4>2
      <4>. QED  BY <4>1, <4>2
    <3>. QED  BY <1>5, <3>4 DEF AuthenticInOrder
  <2>. QED  BY <1>5, <1>6, <1>7, <2>9, <2>10 DEF IInv
<1>. QED  BY <1>8, <1>9

-----------------------------------------------------------------------------
(* A session as its builder makes it.                                      *)
LEMMA NewSessionLocal ==
    ASSUME NEW config \in Configs, NEW p \in DOMAIN config
    PROVE  LET s == NewSession(p, config[p])
           IN  Local(s, {}) /\ s.id = p /\ s.outgoing = << >> /\ s.write_nonce = 0
<1>. DEFINE s == NewSession(p, config[p])
<1>1. /\ DOMAIN s = SessionFields /\ s.id = p /\ s.cfg = config[p] /\ s.step = "Attestation"
      /\ s.verdict = None /\ s.token = << >> /\ s.followup = None
      /\ s.noise_response = None /\ s.response = None /\ s.result = None
      /\ s.read_nonce = 0 /\ s.write_nonce = 0 /\ s.outgoing = << >> /\ s.incoming = << >>
      /\ s.published = 0
  BY DEF NewSession, SessionFields
<1>. HIDE DEF s
<1>2. LocalType(s)
  <2>1. /\ ValidConfig(config[p]) /\ config[p].aggregator \in AggregatorKind
        /\ p \in Sessions
    BY ConfigsAssumption
  <2>2. config[p].binders \subseteq BindingIds /\ config[p].generators \subseteq BindingIds
    BY DEF BindingIds
  <2>. QED  BY <1>1, <2>1, <2>2 DEF LocalType, Steps
<1>3. LocalPublished(s) /\ LocalVerdict(s) /\ LocalOpen(s)
  BY <1>1 DEF LocalPublished, LocalVerdict, LocalOpen
<1>4. LocalHandshake(s, {})
  BY <1>1 DEF LocalHandshake
<1>5. LocalQueues(s, {})
  BY <1>1 DEF LocalQueues
<1>. QED  BY <1>1, <1>2, <1>3, <1>4, <1>5 DEF Local, s

(* The invariant holds at first.                                           *)
LEMMA InitIInv == Init => IInv
<1>. SUFFICES ASSUME Init PROVE IInv
  OBVIOUS
<1>1. PICK config \in Configs :
         /\ session = [p \in DOMAIN config |-> NewSession(p, config[p])]
         /\ written = [p \in DOMAIN config |-> << >>]
         /\ delivered = [p \in DOMAIN config |-> << >>]
  BY DEF Init
<1>2. net = {} /\ Parties = DOMAIN config /\ DOMAIN config \subseteq Sessions
  BY <1>1, ConfigsAssumption DEF Init, Parties
<1>3. \A p \in Parties : /\ session[p].id = p /\ Local(session[p], {})
                         /\ session[p].outgoing = << >> /\ session[p].write_nonce = 0
  BY <1>1, <1>2, NewSessionLocal
<1>4. \A p \in Parties : written[p] = << >> /\ delivered[p] = << >>
  BY <1>1, <1>2
<1>5. NetOK /\ SessionsOK
  BY <1>2, <1>3 DEF NetOK, SessionsOK
<1>6. WrittenOK
  BY <1>1, <1>2, <1>3, <1>4 DEF WrittenOK
<1>7. DeliveredOK /\ AuthenticInOrder
  BY <1>1, <1>2, <1>4 DEF DeliveredOK, AuthenticInOrder
<1>. QED  BY <1>5, <1>6, <1>7 DEF IInv

(* Every step keeps it.                                                    *)
LEMMA NextIInv == IInv /\ [Next]_vars => IInv'
<1>. SUFFICES ASSUME IInv, [Next]_vars PROVE IInv'
  OBVIOUS
<1>1. ASSUME NEW p \in Parties, GetOutgoingMessage(p) PROVE IInv'
  BY <1>1, GetOutgoingIInv
<1>2. ASSUME NEW p \in Parties, NEW m \in net, PutIncomingMessage(p, m) PROVE IInv'
  <2>1. Deliverable(p, m, net)
    BY <1>2, NetDeliverable DEF PutIncomingMessage
  <2>. QED  BY <1>2, <2>1, PutIncomingIInv
<1>3. ASSUME NEW p \in Parties, NEW m \in net, PutIncomingMessage(p, Corrupt(m)) PROVE IInv'
  <2>1. Deliverable(p, Corrupt(m), net)
    BY <1>3, NetDeliverable DEF PutIncomingMessage
  <2>. QED  BY <1>3, <2>1, PutIncomingIInv
<1>4. ASSUME NEW p \in Parties, NEW d \in Plaintext, WriteMessage(p, d) PROVE IInv'
  BY <1>4, WriteIInv
<1>5. ASSUME NEW p \in Parties, ReadMessage(p) PROVE IInv'
  BY <1>5, ReadIInv
<1>6. CASE UNCHANGED vars
  <2>1. UNCHANGED <<session, net, written, delivered>>
    BY <1>6 DEF vars
  <2>2. Parties' = Parties /\ \A p : Peer(p)' = Peer(p)
    BY <2>1 DEF Parties, Peer
  <2>3. \A m : Written(m)' = Written(m)
    BY <2>1, <2>2 DEF Written
  <2>4. \A m : Sent(m)' = Sent(m)
    BY <2>1, <2>2, <2>3 DEF Sent
  <2>5. NetOK'
    BY <2>1, <2>4 DEF IInv, NetOK
  <2>6. SessionsOK'
    BY <2>1, <2>2 DEF IInv, SessionsOK
  <2>7. WrittenOK'
    BY <2>1, <2>2, <2>3 DEF IInv, WrittenOK
  <2>8. DeliveredOK'
    BY <2>1, <2>2 DEF IInv, DeliveredOK
  <2>9. AuthenticInOrder'
    BY <2>1, <2>2 DEF IInv, AuthenticInOrder
  <2>. QED  BY <2>5, <2>6, <2>7, <2>8, <2>9 DEF IInv
<1>. QED  BY <1>1, <1>2, <1>3, <1>4, <1>5, <1>6 DEF Next

(* Whatever the network does to the messages, everything a session holds   *)
(* of its peer was really sent or is recognisably damaged, and everything  *)
(* that was sent still binds its sender.                                   *)
THEOREM Invariance == Spec => []IInv
  BY InitIInv, NextIInv, PTL DEF Spec

-----------------------------------------------------------------------------
(* An open session and the one at the other end of its keys.               *)
LEMMA OpenEnds ==
    ASSUME IInv, NEW p \in Parties, session[p].step = "Open"
    PROVE  /\ session[p].hash \in NoisePeers /\ OwnEnd(session[p], session[p].hash)
           /\ session[p].result # None /\ session[p].result.hash = session[p].hash
           /\ session[p].id = p /\ p \in Sessions
           /\ session[p].verdict # None /\ session[p].verdict.passed
  BY DEF IInv, SessionsOK, Local, LocalOpen, LocalHandshake, LocalVerdict, OwnEnd

(* A binding over the hash of an open session comes from its peer, which   *)
(* can open with no other hash.                                            *)
LEMMA BoundPeer ==
    ASSUME IInv, NEW p \in Parties, session[p].step = "Open",
           session[p].result.from_peer # None,
           session[p].result.from_peer.hash = session[p].hash
    PROVE  LET b == session[p].result.from_peer
           IN  /\ b.from = Peer(p) /\ Peer(p) \in Parties
               /\ session[Peer(p)].token = b.token
               /\ session[Peer(p)].step = "Open" => Peer(Peer(p)) = p
<1>. DEFINE s == session[p]
            b == s.result.from_peer
            q == Peer(p)
<1>1. /\ s.hash \in NoisePeers /\ OwnEnd(s, s.hash) /\ s.id = p /\ p \in Sessions
      /\ s.result # None
  BY OpenEnds
<1>2. s.result \in HandshakeResults /\ Arrived(p, b, net)
  BY <1>1 DEF IInv, SessionsOK, Local, LocalHandshake
<1>3. b \in HandshakeMessages
  BY <1>2 DEF HandshakeResults
<1>4. /\ q \in Parties /\ b.from = q /\ session[q].token = b.token
      /\ Committed(session[q], b.hash) /\ OwnEnd(session[q], b.hash) /\ session[q].id = q
  BY <1>1, <1>2, <1>3, ArrivedBinding DEF Peer
<1>5. ASSUME session[q].step = "Open" PROVE Peer(q) = p
  <2>1. /\ session[q].result # None /\ session[q].result.hash = session[q].hash
        /\ q \in Sessions
    BY <1>4, <1>5, OpenEnds
  <2>2. session[q].noise_response # None => session[q].result = None
    BY <1>4 DEF IInv, SessionsOK, Local, LocalHandshake
  <2>3. session[q].hash = s.hash
    BY <1>1, <1>4, <2>1, <2>2, NoneAssumption, EndpointAssumption DEF Committed
  <2>4. (q \in Clients) = (p \in Servers)
    BY <1>2, <1>4 DEF Arrived, Addressed
  <2>. QED  BY <1>1, <2>1, <2>3, <2>4, EndpointAssumption DEF OwnEnd, Peer, Sessions
<1>. QED  BY <1>4, <1>5

(* A session that verifies its peer has a success in its verdict once it   *)
(* is open, and so a binding of its peer over the hash it opened with.     *)
LEMMA VerifiedBinding ==
    ASSUME IInv, NEW p \in Parties, session[p].step = "Open", Verifies(p)
    PROVE  LET b == session[p].result.from_peer
           IN  /\ b # None /\ b.hash = session[p].hash
               /\ Host[b.from] \in TrustedHosts
<1>. DEFINE s == session[p]
            b == s.result.from_peer
<1>1. /\ s.verdict # None /\ s.verdict.passed /\ s.result.hash = s.hash
  BY OpenEnds
<1>2. Vouched(s.verdict) /\ Host[s.verdict.peer] \in TrustedHosts
  BY <1>1 DEF IInv, SessionsOK, Local, LocalVerdict, Verifies
<1>3. SessionBindingVerified(s) /\ AssertionBindingVerified(s)
  BY DEF IInv, SessionsOK, Local, LocalOpen
<1>4. CASE IdsWith(s.verdict.legacy, {"Success"}) # {}
  BY <1>1, <1>2, <1>3, <1>4 DEF SessionBindingVerified
<1>5. CASE IdsWith(s.verdict.assertion, {"Success"}) # {}
  BY <1>1, <1>2, <1>3, <1>5 DEF AssertionBindingVerified
<1>. QED  BY <1>2, <1>4, <1>5 DEF Vouched

(* What the invariant says of a session that is open.                      *)
LEMMA IInvOpenPeerVerified == IInv => OpenPeerVerified
  BY VerifiedBinding, BoundPeer DEF OpenPeerVerified

(* A session that verifies its peer shares its keys with a session on a    *)
(* host it trusts, however the attestations and handshakes of several      *)
(* sessions are mixed on the way: the bindings tie the verdict to the keys.*)
THEOREM PeerVerified == Spec => []OpenPeerVerified
  BY Invariance, IInvOpenPeerVerified, PTL

(* What it says of the transcripts of two sessions.                        *)
LEMMA IInvTranscriptAgreement == IInv => TranscriptAgreement
<1>. SUFFICES ASSUME IInv, NEW p \in Parties, session[p].step = "Open",
                     IdsWith(session[p].verdict.assertion, {"Success"}) # {}
              PROVE  session[Peer(p)].token = session[p].token
  BY DEF TranscriptAgreement
<1>. DEFINE b == session[p].result.from_peer
<1>1. AssertionBindingVerified(session[p]) /\ session[p].result.hash = session[p].hash
  BY OpenEnds DEF IInv, SessionsOK, Local, LocalOpen
<1>2. b # None /\ b.hash = session[p].hash /\ b.token = session[p].token
  BY <1>1 DEF AssertionBindingVerified
<1>. QED  BY <1>2, BoundPeer

(* An open session that verified an assertion saw the attestation phase    *)
(* exactly as its peer did.                                                *)
THEOREM SameTranscript == Spec => []TranscriptAgreement
  BY Invariance, IInvTranscriptAgreement, PTL

(* What it says of their keys.                                             *)
LEMMA IInvKeyAgreement == IInv => KeyAgreement
<1>. SUFFICES ASSUME IInv, NEW p \in Parties, session[p].step = "Open",
                     p \in Clients \/ Verifies(p), session[Peer(p)].step = "Open"
              PROVE  Peer(Peer(p)) = p
  BY DEF KeyAgreement
<1>. DEFINE b == session[p].result.from_peer
<1>1. b # None /\ b.hash = session[p].hash
  <2>1. CASE Verifies(p)
    BY <2>1, VerifiedBinding
  <2>2. CASE p \in Clients
    <3>1. /\ session[p].id = p /\ session[p].result # None
          /\ session[p].result.hash = session[p].hash
      BY OpenEnds
    <3>2. /\ session[p].result \in HandshakeResults /\ b \in HandshakeMessages \cap net
          /\ b.hash = session[p].hash
      BY <2>2, <3>1 DEF IInv, SessionsOK, Local, LocalHandshake
    <3>3. b # None
      BY <3>2, NoneAssumption
    <3>. QED  BY <3>2, <3>3
  <2>. QED  BY <2>1, <2>2
<1>. QED  BY <1>1, BoundPeer

(* A client, or a server that verifies its clients, is bound to a session  *)
(* that is bound to it in turn.                                            *)
THEOREM KeysAgree == Spec => []KeyAgreement
  BY Invariance, IInvKeyAgreement, PTL

(* The publisher hears of a session at most once, and of an open one       *)
(* exactly once.                                                           *)
THEOREM PublishesOnce == Spec => []PublishedOnce
<1>1. IInv => PublishedOnce
  BY DEF IInv, SessionsOK, Local, LocalPublished, PublishedOnce
<1>. QED  BY <1>1, Invariance, PTL

(* read returns what the peer wrote, in the order of writing, each message *)
(* at most once, over a network that loses, repeats, reorders and damages. *)
THEOREM ReadsAreAuthentic == Spec => []AuthenticInOrder
<1>1. IInv => AuthenticInOrder
  BY DEF IInv
<1>. QED  BY <1>1, Invariance, PTL

(* Every step takes one session along Evolves and leaves the others alone. *)
LEMMA NextEvolves ==
    ASSUME IInv, Next, NEW q \in Parties
    PROVE  Evolves(session[q], session'[q])
<1>1. \A p \in Parties : Local(session[p], net)
  BY DEF IInv, SessionsOK
<1>2. ASSUME NEW p \in Parties, GetOutgoingMessage(p)
      PROVE  \E t : session' = [session EXCEPT ![p] = t] /\ Evolves(session[p], t)
  <2>1. PICK o \in GetOutgoing(session[p]) : session' = [session EXCEPT ![p] = o.s]
    BY <1>2 DEF GetOutgoingMessage, Step
  <2>. QED  BY <1>1, <2>1, GetOutgoingTakes DEF Takes
<1>3. ASSUME NEW p \in Parties, NEW m, Deliverable(p, m, net), PutIncomingMessage(p, m)
      PROVE  \E t : session' = [session EXCEPT ![p] = t] /\ Evolves(session[p], t)
  <2>1. PICK o \in PutIncoming(session[p], m) : session' = [session EXCEPT ![p] = o.s]
    BY <1>3 DEF PutIncomingMessage, Step
  <2>2. Deliverable(session[p].id, m, net)
    BY <1>3 DEF IInv, SessionsOK
  <2>. QED  BY <1>1, <2>1, <2>2, PutIncomingKeeps DEF Keeps
<1>4. ASSUME NEW p \in Parties, NEW d \in Plaintext, WriteMessage(p, d)
      PROVE  \E t : session' = [session EXCEPT ![p] = t] /\ Evolves(session[p], t)
  <2>1. PICK o \in Write(session[p], d) : session' = [session EXCEPT ![p] = o.s]
    BY <1>4 DEF WriteMessage, Step
  <2>. QED  BY ZenonT(30), <1>1, <2>1, WriteSeals
<1>5. ASSUME NEW p \in Parties, ReadMessage(p)
      PROVE  \E t : session' = [session EXCEPT ![p] = t] /\ Evolves(session[p], t)
  <2>1. PICK o \in Read(session[p]) : session' = [session EXCEPT ![p] = o.s]
    BY <1>5 DEF ReadMessage, Step
  <2>. QED  BY <1>1, <2>1, ReadOpens
<1>6. ASSUME NEW p \in Parties, NEW m, m \in net,
             PutIncomingMessage(p, m) \/ PutIncomingMessage(p, Corrupt(m))
      PROVE  \E t : session' = [session EXCEPT ![p] = t] /\ Evolves(session[p], t)
  BY <1>3, <1>6, NetDeliverable DEF PutIncomingMessage
<1>7. PICK p \in Parties : \E t : session' = [session EXCEPT ![p] = t] /\ Evolves(session[p], t)
  BY <1>2, <1>4, <1>5, <1>6 DEF Next
<1>. QED  BY <1>7 DEF Evolves, Parties

(* Once a session is open or has failed, no message and no call changes    *)
(* its step, its keys, its verdict or its transcript.                      *)
THEOREM Decisive == Spec => NoRenegotiation
<1>. DEFINE A == \A p \in Parties :
                    session[p].step \in {"Open", "Error", "Invalid"} =>
                        /\ session'[p].step = session[p].step
                        /\ session'[p].hash = session[p].hash
                        /\ session'[p].verdict = session[p].verdict
                        /\ session'[p].token = session[p].token
<1>1. IInv /\ [Next]_vars => [A]_vars
  BY NextEvolves DEF Evolves, Decided
<1>2. Spec => [][A]_vars
  BY <1>1, Invariance, PTL DEF Spec
<1>. QED  BY <1>2 DEF NoRenegotiation
=============================================================================

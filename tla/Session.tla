------------------------------ MODULE Session ------------------------------
(***************************************************************************)
(* Client and server sessions that talk over an unreliable network: the    *)
(* owners of the sessions call get_outgoing_message, put_incoming_message, *)
(* write and read in any order, and whatever was sent once may be lost,    *)
(* repeated, reordered, damaged or handed to another session.  Sessions on *)
(* hosts that are not trusted follow the protocol too, but their evidence  *)
(* does not verify.                                                        *)
(***************************************************************************)
EXTENDS SessionEndpoint

CONSTANTS Configs,      \* who takes part: configurations of some Sessions
          Writers,      \* the sessions whose owners have data to send
          MayDamage,    \* whether the network may damage messages
          MaxToken      \* bound: extensions of an attestation_binding_token

ASSUME ConfigsAssumption ==
    \A config \in Configs :
        /\ DOMAIN config \subseteq Sessions
        /\ \A p \in DOMAIN config :
              ValidConfig(config[p]) /\ config[p].aggregator \in AggregatorKind

(* What a handshake message may carry, and what a handler makes of it.     *)
BindingIds ==
    UNION {UNION {config[p].binders \cup config[p].generators : p \in DOMAIN config} :
              config \in Configs}
HandshakeMessages ==
    [type : {"Handshake"}, from : Sessions, noise : BOOLEAN, hash : NoisePeers \cup {None},
     bindings : SUBSET BindingIds, assertion_bindings : SUBSET BindingIds,
     token : Seq(Sessions)]
HandshakeResults == [hash : NoisePeers, from_peer : HandshakeMessages \cup {None}]

(* An absent hash, message or result is told from every present one.       *)
ASSUME NoneAssumption ==
    /\ None \notin Clients \X Servers
    /\ None \notin HandshakeMessages
    /\ None \notin HandshakeResults

VARIABLES session,      \* [Parties -> session record]
          net,          \* every message ever sent
          written,      \* history: payload per nonce used, None if not sealed
          delivered     \* history: what read returned, with its nonce

vars == <<session, net, written, delivered>>

Init ==
    /\ \E config \in Configs :
          /\ session = [p \in DOMAIN config |-> NewSession(p, config[p])]
          /\ written = [p \in DOMAIN config |-> << >>]
          /\ delivered = [p \in DOMAIN config |-> << >>]
    /\ net = {}

Parties == DOMAIN session

(* The session at the other end of an open session's keys.                 *)
Peer(p) ==
    IF p \in Clients THEN session[p].hash[2] ELSE session[p].hash[1]

Step(p, o) ==
    /\ Len(o.s.token) <= MaxToken
    /\ session' = [session EXCEPT ![p] = o.s]

-----------------------------------------------------------------------------
GetOutgoingMessage(p) ==
    \E o \in GetOutgoing(session[p]) :
        /\ Step(p, o)
        /\ net' = IF o.out = None THEN net ELSE net \cup {o.out}
        /\ UNCHANGED <<written, delivered>>

PutIncomingMessage(p, m) ==
    /\ Addressed(m, p)
    /\ \E o \in PutIncoming(session[p], m) : Step(p, o)
    /\ UNCHANGED <<net, written, delivered>>

WriteMessage(p, d) ==
    /\ p \in Writers
    /\ \E o \in Write(session[p], d) :
          /\ Step(p, o)
          /\ written' = IF o.s.write_nonce = session[p].write_nonce
                        THEN written
                        ELSE [written EXCEPT ![p] =
                                Append(@, IF o.ok THEN d ELSE None)]
    /\ UNCHANGED <<net, delivered>>

ReadMessage(p) ==
    \E o \in Read(session[p]) :
        /\ Step(p, o)
        /\ delivered' = IF o.out = None
                        THEN delivered
                        ELSE [delivered EXCEPT ![p] = Append(@, o.out)]
        /\ UNCHANGED <<net, written>>

Next ==
    \E p \in Parties :
        \/ GetOutgoingMessage(p)
        \/ \E m \in net :
              \/ PutIncomingMessage(p, m)
              \/ MayDamage /\ PutIncomingMessage(p, Corrupt(m))
        \/ \E d \in Plaintext : WriteMessage(p, d)
        \/ ReadMessage(p)

Spec == Init /\ [][Next]_vars

-----------------------------------------------------------------------------
Steps == {"Attestation", "Handshake", "Open", "Error", "Invalid"}

Verifies(p) ==
    \/ session[p].cfg.verifiers # {}
    \/ session[p].cfg.assertion_verifiers # {}

(* An open session that is configured to verify its peer shares its keys   *)
(* with a session on a trusted host: the attestation cannot be that of one *)
(* session and the key exchange that of another.                           *)
OpenPeerVerified ==
    \A p \in Parties :
        session[p].step = "Open" /\ Verifies(p) => Host[Peer(p)] \in TrustedHosts

(* When an open session has verified an assertion of its peer, both saw    *)
(* the same attestation transcript, although messages may be repeated or   *)
(* come from another session, and each call extends the token.             *)
TranscriptAgreement ==
    \A p \in Parties :
        /\ session[p].step = "Open"
        /\ IdsWith(session[p].verdict.assertion, {"Success"}) # {}
        => session[Peer(p)].token = session[p].token

(* A client, and a server that verifies its clients, shares its keys with  *)
(* a session that is bound to it in turn: if that one is open, it is open  *)
(* with this one.  (A server that verifies nothing may open for a client   *)
(* whose first message also reached the server the client went on with.)   *)
KeyAgreement ==
    \A p \in Parties :
        /\ session[p].step = "Open"
        /\ p \in Clients \/ Verifies(p)
        => \/ session[Peer(p)].step # "Open"
           \/ Peer(Peer(p)) = p

(* The attestation publisher hears of a session exactly once by the time   *)
(* the session opens, and never more than once.                            *)
PublishedOnce ==
    \A p \in Parties :
        /\ session[p].published <= 1
        /\ session[p].step = "Open" => session[p].published = 1

(* What read returns was written by the peer under those very keys, in the *)
(* order of writing and without repetition, whatever the network does.     *)
AuthenticInOrder ==
    \A p \in Parties : \A i \in 1..Len(delivered[p]) :
        LET c == delivered[p][i]
        IN  /\ c.nonce < Len(written[Peer(p)])
            /\ written[Peer(p)][c.nonce + 1] = c.data
            /\ \A j \in 1..(i - 1) : delivered[p][j].nonce < c.nonce

(* No message reopens a decided session: once a session is open or failed, *)
(* late and repeated attestation and handshake messages change neither its *)
(* step nor its keys, its verdict or its transcript.                       *)
NoRenegotiation ==
    [][\A p \in Parties :
          session[p].step \in {"Open", "Error", "Invalid"} =>
              /\ session'[p].step = session[p].step
              /\ session'[p].hash = session[p].hash
              /\ session'[p].verdict = session[p].verdict
              /\ session'[p].token = session[p].token]_vars
=============================================================================

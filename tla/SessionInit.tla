---------------------------- MODULE SessionInit ----------------------------
(***************************************************************************)
(* Pairs of sessions that are opened with the loops SessionInitializer     *)
(* documents (oak_session/src/channel.rs) over a stream that delivers in   *)
(* order, and are then used through SessionChannel.  A loop that meets an  *)
(* error returns, which closes its end of the stream.                      *)
(***************************************************************************)
EXTENDS SessionEndpoint

CONSTANTS Configs,      \* the assignments of configurations to sessions
          Partner       \* the session at the other end of the stream

ASSUME PartnerAssumption ==
    \A p \in Sessions : Addressed([from |-> p], Partner[p]) /\ Partner[Partner[p]] = p

ASSUME ConfigsAssumption ==
    \A config \in Configs : \A p \in Sessions : ValidConfig(config[p])

VARIABLES session,      \* [Sessions -> session record]
          loop,         \* where each session's owner is
          stream,       \* [Sessions -> messages on their way to it]
          written,      \* history: payloads encrypted
          delivered     \* history: payloads decrypted

vars == <<session, loop, stream, written, delivered>>

Loop == {"send", "recv", "done", "failed", "broken"}

Init ==
    /\ \E config \in Configs :
          session = [p \in Sessions |-> NewSession(p, config[p])]
    /\ loop = [p \in Sessions |-> IF p \in Clients THEN "send" ELSE "recv"]
    /\ stream = [p \in Sessions |-> << >>]
    /\ written = [p \in Sessions |-> << >>]
    /\ delivered = [p \in Sessions |-> << >>]

SendTo(p, m) == stream' = [stream EXCEPT ![p] = Append(@, m)]
Received(p) == stream' = [stream EXCEPT ![p] = Tail(@)]
Continue(p, where) == loop' = [loop EXCEPT ![p] = where]

-----------------------------------------------------------------------------
(* next_init_message and the send after it; Ok(None) is an error here.     *)
NextInitMessage(p) ==
    /\ loop[p] = "send"
    /\ \E o \in GetOutgoing(session[p]) :
          /\ session' = [session EXCEPT ![p] = o.s]
          /\ IF o.ok /\ o.out # None
             THEN /\ SendTo(Partner[p], o.out)
                  /\ Continue(p, IF o.s.step = "Open" THEN "done" ELSE "recv")
             ELSE Continue(p, "failed") /\ UNCHANGED stream
    /\ UNCHANGED <<written, delivered>>

(* Reading from the stream and handle_init_message.                        *)
HandleInitMessage(p) ==
    /\ loop[p] = "recv"
    /\ stream[p] # << >>
    /\ Received(p)
    /\ \E o \in PutIncoming(session[p], Head(stream[p])) :
          /\ session' = [session EXCEPT ![p] = o.s]
          /\ Continue(p, IF ~o.ok THEN "failed"
                         ELSE IF o.s.step = "Open" THEN "done" ELSE "send")
    /\ UNCHANGED <<written, delivered>>

(* The read fails once the partner has given up.                           *)
StreamClosed(p) ==
    /\ loop[p] = "recv"
    /\ stream[p] = << >>
    /\ loop[Partner[p]] = "failed"
    /\ Continue(p, "failed")
    /\ UNCHANGED <<session, stream, written, delivered>>

(* SessionChannel::encrypt, that is write and get_outgoing_message, and    *)
(* the send after it.                                                      *)
Encrypt(p, d) ==
    /\ loop[p] = "done"
    /\ NonceAvailable(session[p].write_nonce)
    /\ \E w \in Write(session[p], d) :
          IF w.ok
          THEN \E o \in GetOutgoing(w.s) :
                  /\ session' = [session EXCEPT ![p] = o.s]
                  /\ SendTo(Partner[p], o.out)
                  /\ written' = [written EXCEPT ![p] = Append(@, d)]
          ELSE /\ session' = [session EXCEPT ![p] = w.s]
               /\ UNCHANGED <<stream, written>>
    /\ UNCHANGED <<loop, delivered>>

(* SessionChannel::decrypt, that is put_incoming_message and read; its     *)
(* owner gives up on an error.                                             *)
Decrypt(p) ==
    /\ loop[p] = "done"
    /\ stream[p] # << >>
    /\ Received(p)
    /\ \E o \in PutIncoming(session[p], Head(stream[p])) :
          IF o.ok
          THEN \E r \in Read(o.s) :
                  /\ session' = [session EXCEPT ![p] = r.s]
                  /\ IF r.ok /\ r.out # None
                     THEN /\ delivered' = [delivered EXCEPT ![p] =
                                              Append(@, r.out.data)]
                          /\ UNCHANGED loop
                     ELSE Continue(p, "broken") /\ UNCHANGED delivered
          ELSE /\ session' = [session EXCEPT ![p] = o.s]
               /\ Continue(p, "broken")
               /\ UNCHANGED delivered
    /\ UNCHANGED written

Progress(p) ==
    \/ NextInitMessage(p)
    \/ HandleInitMessage(p)
    \/ StreamClosed(p)
    \/ Decrypt(p)

Next == \E p \in Sessions : Progress(p) \/ \E d \in Plaintext : Encrypt(p, d)

(* The loops run on: a loop that can take its next step takes it.  Nobody  *)
(* is obliged to encrypt.                                                  *)
Fairness == \A p \in Sessions : WF_vars(Progress(p))

Spec == Init /\ [][Next]_vars /\ Fairness

-----------------------------------------------------------------------------
(* Each end presents what the other verifies, and can bind it.             *)
Presents(q, p) ==
    /\ session[p].cfg.verifiers \subseteq session[q].cfg.attesters
    /\ session[p].cfg.assertion_verifiers \subseteq session[q].cfg.generators
    /\ session[q].cfg.attesters \subseteq session[q].cfg.endorsers
    /\ session[q].cfg.attesters = session[q].cfg.binders

Matched ==
    \A p \in Sessions : Presents(Partner[p], p) /\ Host[p] \in TrustedHosts

OneWay == \A p \in Clients :
    session[p].cfg.attesters = {} /\ session[p].cfg.generators = {}

AllDone == \A p \in Sessions : loop[p] = "done"

(* Initialisation never hangs: whether the configurations match or not,    *)
(* each of the two loops ends, with an open session or with an error.      *)
InitDecides == []<>(\A p \in Sessions : loop[p] \notin {"send", "recv"})

(* With matching configurations and a client that does not attest itself,  *)
(* both loops end with an open session, and the channel stays in use.      *)
InitCompletes == []<>(Matched /\ OneWay => AllDone)

(* The same whichever side attests, as the loops documented in channel.rs  *)
(* suggest.                                                                *)
MutualInitCompletes == Matched => <>AllDone

(* What an end encrypts is decrypted by the other, in order, if that one   *)
(* opens its session, be it earlier or later: again and again, nothing is  *)
(* missing.                                                                *)
ChannelDelivers ==
    \A p \in Sessions :
        []<>(loop[Partner[p]] \in {"done", "broken"} => delivered[Partner[p]] = written[p])
=============================================================================

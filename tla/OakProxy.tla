------------------------------ MODULE OakProxy ------------------------------
(***************************************************************************)
(* A tunnel of two proxies (oak_proxy): each runs the loop of proxy.rs     *)
(* between its application's TCP stream and a WebSocket to the other.  An  *)
(* arm of the loop's select! that sends or writes waits until it can; no   *)
(* other arm runs meanwhile.  The session between them is open (SessionInit*)
(* and Session are about opening it) and shows here as messages that arrive*)
(* in order.  Applications write a bounded number of chunks, read whatever *)
(* arrives, and close or reset their connection when they like.            *)
(***************************************************************************)
EXTENDS Naturals, Sequences

CONSTANTS Capacity,     \* messages that fit between two proxies, per direction
          ChunkPlans,   \* how many chunks each application writes: [Ends -> Nat]
          PingPayloads, \* the random payloads of pings
          MayBreak      \* whether connections, between proxies or to applications, may break

Ends == {"Client", "Server"}
Other(p) == IF p = "Client" THEN "Server" ELSE "Client"

ASSUME ProxyAssumption ==
    /\ Capacity \in Nat
    /\ ChunkPlans \subseteq [Ends -> Nat]
    /\ MayBreak \in BOOLEAN

VARIABLES proxy,        \* [Ends -> the local variables of proxy()]
          wire,         \* [Ends -> messages sent and not yet read by the other]
          app,          \* [Ends -> the application and what it wrote and read]
          broken        \* whether the connection between the proxies is lost

proxyVars == <<proxy, wire, app, broken>>

Binary(chunk) == [type |-> "Binary", chunk |-> chunk]
HalfClose == [type |-> "Binary", chunk |-> 0]       \* the empty message
Ping(x) == [type |-> "Ping", payload |-> x]
Pong(x) == [type |-> "Pong", payload |-> x]
Close == [type |-> "Close"]

(* The local variables at the start of the loop; out and in are what an arm*)
(* is sending or writing.                                                  *)
NewProxy == [at |-> "select", out |-> Close, in |-> 0, ping_queue |-> << >>,
             application_done |-> FALSE, peer_done |-> FALSE]

(* An application, how many chunks it wrote and how many of them were read,*)
(* what it received, and whether it was told of the end.                   *)
Application(chunks) ==
    [state |-> "open", written |-> chunks, read |-> 0, got |-> << >>, eof |-> FALSE]

ProxyInit ==
    /\ proxy = [p \in Ends |-> [NewProxy EXCEPT !.at = "setup"]]
    /\ wire = [p \in Ends |-> << >>]
    /\ \E chunks \in ChunkPlans : app = [p \in Ends |-> Application(chunks[p])]
    /\ broken = FALSE

Ended(p) == proxy[p].at \in {"done", "failed", "protocol_error"}
Selecting(p) == proxy[p].at = "select"

-----------------------------------------------------------------------------
(* Variants used to test the properties, each a mistake the code avoids:   *)
(* closing when only its own direction is done, and waiting for a pong     *)
(* without end.                                                            *)
MutOwnDone(s) ==
    IF s.application_done THEN [s EXCEPT !.at = "send", !.out = Close]
    ELSE [s EXCEPT !.at = "select", !.out = Close, !.in = 0]

MutNeverOverdue(p) == FALSE

(* The top of the loop: when both directions are done, Close is sent.      *)
LoopTop(s) ==
    IF s.application_done /\ s.peer_done THEN [s EXCEPT !.at = "send", !.out = Close]
    ELSE [s EXCEPT !.at = "select", !.out = Close, !.in = 0]

(* proxy() returns, having put the messages sent on the connection, and    *)
(* drops both streams.  Messages it has not read make the kernel reset the *)
(* connection: what the other end has not received yet may then be lost.   *)
Return(p, how, sent) ==
    /\ proxy' = [proxy EXCEPT ![p] = [NewProxy EXCEPT !.at = how]]
    /\ \E k \in (IF wire[Other(p)] = << >> THEN {Len(sent)} ELSE 0..Len(sent)) :
          wire' = [wire EXCEPT ![p] = SubSeq(sent, 1, k), ![Other(p)] = << >>]
    /\ UNCHANGED <<app, broken>>

Fail(p) == Return(p, "failed", wire[p])

(* run_proxy before the loop: the session is established and, at the       *)
(* server, the backend answers; or one of them fails.                      *)
Established(p) ==
    /\ proxy[p].at = "setup"
    /\ proxy' = [proxy EXCEPT ![p].at = "select"]
    /\ UNCHANGED <<wire, app, broken>>

SetupFails(p) == proxy[p].at = "setup" /\ Fail(p)

(* Whether read returns 0: the stream has ended and its data were read.    *)
AtEof(p) == app[p].state # "open" /\ app[p].read = app[p].written

(* The arm of plaintext_reader.read.  A reset connection makes read fail   *)
(* once, which only disables the arm, and then looks like a closed one.    *)
ReadPlaintext(p) ==
    /\ Selecting(p)
    /\ ~proxy[p].application_done
    /\ \/ /\ AtEof(p)
          /\ proxy' = [proxy EXCEPT ![p].application_done = TRUE,
                                    ![p].at = "send", ![p].out = HalfClose]
          /\ UNCHANGED app
       \/ /\ ~AtEof(p)
          /\ app[p].read < app[p].written
          /\ proxy' = [proxy EXCEPT ![p].at = "send", ![p].out = Binary(app[p].read + 1)]
          /\ app' = [app EXCEPT ![p].read = @ + 1]
    /\ UNCHANGED <<wire, broken>>

(* The arm of encrypted_reader.next, by type of message.                   *)
ReadEncrypted(p) ==
    /\ Selecting(p)
    /\ wire[Other(p)] # << >>
    /\ LET m == Head(wire[Other(p)])
           mine == proxy[p]
           Continue(t) == /\ proxy' = [proxy EXCEPT ![p] = t]
                          /\ wire' = [wire EXCEPT ![Other(p)] = Tail(@)]
                          /\ UNCHANGED <<app, broken>>
       IN  \/ /\ m.type = "Binary" /\ ~mine.peer_done
              /\ Continue([mine EXCEPT !.at = "write", !.in = m.chunk, !.peer_done = m = HalfClose])
           \/ /\ m.type = "Ping"
              /\ Continue([mine EXCEPT !.at = "send", !.out = Pong(m.payload)])
           \/ /\ m.type = "Pong" /\ mine.ping_queue # << >>
              /\ mine.ping_queue[Len(mine.ping_queue)] = m.payload
              /\ Continue(LoopTop([mine EXCEPT !.ping_queue = SubSeq(@, 1, Len(@) - 1)]))
           \/ /\ \/ m.type = "Binary" /\ mine.peer_done
                 \/ m.type = "Pong" /\ mine.ping_queue = << >>
                 \/ m.type = "Pong" /\ mine.ping_queue # << >>
                                    /\ mine.ping_queue[Len(mine.ping_queue)] # m.payload
                 \/ m.type = "Close"
              /\ Return(p, "protocol_error", wire[p])

(* The stream from the other proxy ends without Close, or breaks.          *)
ReadFails(p) ==
    /\ Selecting(p)
    /\ wire[Other(p)] = << >>
    /\ Ended(Other(p)) \/ broken
    /\ Fail(p)

(* The arm of keep_alive.tick: a ping unless one is unanswered.            *)
Overdue(p) == proxy[p].ping_queue # << >>

Tick(p) ==
    /\ Selecting(p)
    /\ \/ /\ proxy[p].ping_queue = << >>
          /\ \E x \in PingPayloads :
                proxy' = [proxy EXCEPT ![p].at = "send", ![p].out = Ping(x),
                                       ![p].ping_queue = <<x>>]
          /\ UNCHANGED <<wire, app, broken>>
       \/ Overdue(p) /\ Fail(p)

(* encrypted_writer.send(..).await: it waits for room on the connection.   *)
(* Towards an end that is gone it fails, or the message vanishes.          *)
SendEncrypted(p) ==
    /\ proxy[p].at = "send"
    /\ LET gone == broken \/ Ended(Other(p))
           sent == IF gone THEN wire[p] ELSE Append(wire[p], proxy[p].out)
       IN  \/ /\ gone \/ Len(wire[p]) < Capacity
              /\ IF proxy[p].out = Close THEN Return(p, "done", sent)
                 ELSE /\ proxy' = [proxy EXCEPT ![p] = LoopTop(@)]
                      /\ wire' = [wire EXCEPT ![p] = sent]
                      /\ UNCHANGED <<app, broken>>
           \/ gone /\ Fail(p)

(* plaintext_writer.write_all or shutdown; on a reset connection it fails, *)
(* or what was written is lost.                                            *)
WritePlaintext(p) ==
    /\ proxy[p].at = "write"
    /\ \/ /\ proxy' = [proxy EXCEPT ![p] = LoopTop(@)]
          /\ app' = IF app[p].state = "reset" THEN app
                    ELSE IF proxy[p].in = 0 THEN [app EXCEPT ![p].eof = TRUE]
                    ELSE [app EXCEPT ![p].got = Append(@, proxy[p].in)]
          /\ UNCHANGED <<wire, broken>>
       \/ app[p].state = "reset" /\ Fail(p)

-----------------------------------------------------------------------------
(* The applications and the network.                                       *)
ApplicationLeaves(p) ==
    /\ ~Ended(p)
    /\ \/ app[p].state = "open" /\ app' = [app EXCEPT ![p].state = "closed"]
       \/ MayBreak /\ app[p].state # "reset" /\ app' = [app EXCEPT ![p].state = "reset"]
    /\ UNCHANGED <<proxy, wire, broken>>

Break ==
    /\ MayBreak /\ ~broken
    /\ broken' = TRUE
    /\ \E k \in [Ends -> 0..Capacity] :
          /\ \A p \in Ends : k[p] <= Len(wire[p])
          /\ wire' = [p \in Ends |-> SubSeq(wire[p], 1, k[p])]
    /\ UNCHANGED <<proxy, app>>

ProxyNext ==
    \/ \E p \in Ends :
          \/ Established(p) \/ SetupFails(p) \/ ReadPlaintext(p) \/ ReadEncrypted(p)
          \/ ReadFails(p) \/ Tick(p) \/ SendEncrypted(p) \/ WritePlaintext(p)
          \/ ApplicationLeaves(p)
    \/ Break

(* Setup ends, a send or write that can finish does, and select! picks its *)
(* ready arms at random: one that is ready again and again gets its turn.  *)
ProxyFairness ==
    \A p \in Ends :
        /\ WF_proxyVars(Established(p) \/ SetupFails(p) \/ SendEncrypted(p) \/ WritePlaintext(p))
        /\ SF_proxyVars(ReadPlaintext(p)) /\ SF_proxyVars(ReadEncrypted(p)) /\ SF_proxyVars(Tick(p))

ProxySpec == ProxyInit /\ [][ProxyNext]_proxyVars /\ ProxyFairness

-----------------------------------------------------------------------------
(* An application receives what the other one wrote, in order and without  *)
(* gaps; when it is told of the end, the other one has closed, and it has  *)
(* received everything.                                                    *)
TunnelFaithful ==
    \A p \in Ends :
        /\ Len(app[p].got) <= app[Other(p)].written
        /\ \A i \in 1..Len(app[p].got) : app[p].got[i] = i
        /\ app[p].eof => /\ app[Other(p)].state # "open"
                         /\ app[p].state = "reset" \/ Len(app[p].got) = app[Other(p)].written

(* Whatever breaks, and in whatever order the two loops end, a proxy is    *)
(* never sent what it takes for a violation of the protocol: data after    *)
(* half-close, a pong it does not wait for, a Close it has to read.        *)
NoProtocolError == \A p \in Ends : proxy[p].at # "protocol_error"

(* The tunnel neither loses nor invents data, nor does one loop of proxy() *)
(* make the other one fail.                                                *)
TunnelSound == TunnelFaithful /\ NoProtocolError

(* Both loops wait in send, each for the other one to read.                *)
BothBlocked ==
    ~broken /\ \A p \in Ends : proxy[p].at = "send" /\ Len(wire[p]) = Capacity

(* When both applications have left, or one proxy has ended, neither of    *)
(* which is ever undone, then both proxies end, unless each is blocked by  *)
(* the other.                                                              *)
TunnelEnds ==
    []<>((\A p \in Ends : app[p].state # "open") \/ (\E p \in Ends : Ended(p))
             => (\A p \in Ends : Ended(p)) \/ BothBlocked)

(* "The interval between pings, and also the timeout for their             *)
(* corresponding pong": a ping is answered, or its sender gives up.        *)
PongTimesOut ==
    \A p \in Ends : proxy[p].ping_queue # << >> ~> (proxy[p].ping_queue = << >> \/ Ended(p))
=============================================================================

--------------------------- MODULE MCSessionInit ---------------------------
(* Two questions about what becomes of a connection, which share nothing:  *)
(* one client and one server that open a session, and a pair of proxies    *)
(* whose connections last.                                                 *)
EXTENDS SessionInit, OakProxy

CONSTANTS c, s, hello, bye, Scenarios
VARIABLE scenario

MCHost == [p \in Sessions |-> "good"]
MCPartner == [p \in Sessions |-> IF p = c THEN s ELSE c]
MCNoisePeers == {<<c, s>>}

Plain ==
    [type |-> "Unattested", attesters |-> {}, endorsers |-> {},
     generators |-> {}, binders |-> {}, verifiers |-> {},
     assertion_verifiers |-> {}, aggregator |-> "Empty"]

(* An end that attests with evidence and an assertion, in part or fully.   *)
Attesting ==
    {[Plain EXCEPT !.type = "SelfUnidirectional", !.attesters = e,
                   !.endorsers = e, !.binders = e, !.generators = g]
        : e \in SUBSET {"ev"}, g \in SUBSET {"as"}}

(* An end that verifies evidence, assertions, both or none.                *)
Verifying ==
    {[Plain EXCEPT !.type = "PeerUnidirectional", !.verifiers = v,
                   !.assertion_verifiers = w,
                   !.aggregator = IF w = {} THEN "Empty" ELSE "All"]
        : v \in SUBSET {"ev"}, w \in SUBSET {"as"}}

Pair(client, server) == [p \in Sessions |-> IF p = c THEN client ELSE server]

OneWayConfigs ==
    {Pair(v, e) : v \in Verifying \cup {Plain}, e \in Attesting \cup {Plain}}
MutualConfigs == {Pair(e, v) : v \in Verifying, e \in Attesting}
AllConfigs == OneWayConfigs \cup MutualConfigs

(* Each application writes so much.                                        *)
MCOneChunk == {[p \in Ends |-> 1]}
MCTwoChunks == {[p \in Ends |-> 2]}

(* Of the component that is not the scenario, nothing is ever enabled.     *)
ProxiesOver ==
    /\ proxy = [p \in Ends |-> [NewProxy EXCEPT !.at = "done"]]
    /\ wire = [p \in Ends |-> << >>]
    /\ app = [p \in Ends |-> Application(0)]
    /\ broken = FALSE
SessionsOver ==
    /\ session = [p \in Sessions |-> NewSession(p, Plain)]
    /\ loop = [p \in Sessions |-> "done"]
    /\ stream = [p \in Sessions |-> << >>]
    /\ written = [p \in Sessions |-> << >>]
    /\ delivered = [p \in Sessions |-> << >>]

MCInit ==
    /\ scenario \in Scenarios
    /\ \/ scenario = "init" /\ Init /\ ProxiesOver
       \/ scenario = "proxy" /\ ProxyInit /\ SessionsOver
MCNext ==
    /\ \/ scenario = "init" /\ Next /\ UNCHANGED proxyVars
       \/ scenario = "proxy" /\ ProxyNext /\ UNCHANGED vars
    /\ UNCHANGED scenario
MCSpec ==
    MCInit /\ [][MCNext]_<<vars, proxyVars, scenario>> /\ Fairness /\ ProxyFairness
=============================================================================

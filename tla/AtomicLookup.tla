---------------------------- MODULE AtomicLookup ----------------------------
(***************************************************************************)
(* What Oak Functions promises of key/value lookups                        *)
(* (oak_functions_service/README.md, "Consistent view on lookup data"):    *)
(* lookup data is replaced as a whole, and every answer within a request   *)
(* comes from the data that was current when the request arrived.          *)
(***************************************************************************)
CONSTANTS Keys, Values, None, Requests
VARIABLES served,   \* the current lookup data
          view,     \* the data a request sees; None: no such request
          answers   \* the lookups of a request with what they returned

Tables == [Keys -> Values \cup {None}]
Nothing == [k \in Keys |-> None]

Init ==
    /\ served = Nothing
    /\ view = [r \in Requests |-> None]
    /\ answers = [r \in Requests |-> {}]

Replace ==
    /\ served' \in Tables
    /\ UNCHANGED <<view, answers>>

Arrive(r) ==
    /\ view[r] = None
    /\ view' = [view EXCEPT ![r] = served]
    /\ UNCHANGED <<served, answers>>

Answer(r, k) ==
    /\ view[r] # None
    /\ answers' = [answers EXCEPT ![r] = @ \cup {<<k, view[r][k]>>}]
    /\ UNCHANGED <<served, view>>

Leave(r) ==
    /\ view[r] # None
    /\ view' = [view EXCEPT ![r] = None]
    /\ answers' = [answers EXCEPT ![r] = {}]
    /\ UNCHANGED served

Next ==
    \/ Replace
    \/ \E r \in Requests :
          Arrive(r) \/ Leave(r) \/ \E k \in Keys : Answer(r, k)

Spec == Init /\ [][Next]_<<served, view, answers>>
=============================================================================

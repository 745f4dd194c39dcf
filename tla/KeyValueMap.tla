---------------------------- MODULE KeyValueMap ----------------------------
(***************************************************************************)
(* What a table of lookup data promises: a finite map from keys to values  *)
(* in which every key has at most one value, the one inserted last         *)
(* (oak_functions_service/README.md, "At most one value").                 *)
(***************************************************************************)
CONSTANTS Keys, Values, None
VARIABLE content

Init == content = [k \in Keys |-> None]

Put(k, v) == content' = [content EXCEPT ![k] = v]

Next == \E k \in Keys, v \in Values : Put(k, v)

Spec == Init /\ [][Next]_content
=============================================================================

----------------------------- MODULE AddressMap -----------------------------
(* What a memory map promises: whoever claims a range gets all of it and   *)
(* nothing else, so the addresses in it have the claimed type and no other *)
(* one, and the addresses outside of it keep what they had.                *)
EXTENDS Integers

CONSTANTS Addresses, Types
VARIABLES types,   \* per address: the types of the entries that hold it
          claim    \* the range claimed last

(* A claim of type "none" frees its range.                                 *)
Claims == [addr : Nat, end : Nat, type : Types \cup {"none"}]

Claimed(c) == [a \in Addresses |->
                  IF ~(c.addr <= a /\ a < c.end) THEN types[a]
                  ELSE IF c.type = "none" THEN {} ELSE {c.type}]

Init == types \in [Addresses -> SUBSET Types]
Claim == claim' \in Claims /\ types' = Claimed(claim')
Spec == Init /\ [][Claim]_<<types, claim>>
=============================================================================

----------------------------- MODULE AtMostOnce -----------------------------
(***************************************************************************)
(* The promise of one direction of an encrypted Oak session, whichever     *)
(* crypter carries it: the reader is handed only messages that the writer  *)
(* really encrypted, and each of them at most once.  Messages may be lost  *)
(* and, at this level, may overtake one another.  OrderedCrypter and       *)
(* UnorderedCrypter are both shown to implement it.                        *)
(***************************************************************************)
EXTENDS Naturals, Sequences

CONSTANT Message

VARIABLES sent,         \* the messages encrypted so far
          delivered     \* the log of messages handed to the reader

vars == <<sent, delivered>>

Init ==
    /\ sent = {}
    /\ delivered = << >>

Send(m) ==
    /\ m \notin sent
    /\ sent' = sent \cup {m}
    /\ UNCHANGED delivered

Deliver(m) ==
    /\ m \in sent
    /\ \A i \in 1..Len(delivered) : delivered[i] # m
    /\ delivered' = Append(delivered, m)
    /\ UNCHANGED sent

Next == \E m \in Message : Send(m) \/ Deliver(m)

Spec == Init /\ [][Next]_vars
=============================================================================

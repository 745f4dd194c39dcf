------------------------------ MODULE MCMemory ------------------------------
(* Two instances of PrivateMemory in one run: two memories, names and      *)
(* restarts over a store that answers, and a store that fails, clients that*)
(* leave and an index that outgrows its limit.  The store starts empty.    *)
EXTENDS PrivateMemory

CONSTANTS s1, s2, m1, m2, n1
VARIABLE scenario

Failing == INSTANCE PrivateMemory WITH
               Names <- {}, MaxSize <- 1, MaxLog <- 2,
               StoreMayFail <- TRUE, MayDisconnect <- TRUE, KeepChoices <- {TRUE, FALSE}

MCInit == Init /\ scenario \in {"rebase", "failures"}
MCNext ==
    /\ \/ scenario = "rebase" /\ Next
       \/ scenario = "failures" /\ Failing!Next
    /\ UNCHANGED scenario
MCSpec == MCInit /\ [][MCNext]_<<vars, scenario>>

(* Where every reply arrives, every memory of the stored index has its     *)
(* blob, whatever conflicts, rebases and restarts there were (after a lost *)
(* reply a stored mutation may be replayed, and may bring back a memory    *)
(* whose blob was deleted since).                                          *)
IndexSound == scenario = "rebase" => NoDangling

(* The sessions differ in nothing but their names.                         *)
SessionSymmetry == Permutations(Sessions)
=============================================================================

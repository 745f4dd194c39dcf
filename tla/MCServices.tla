----------------------------- MODULE MCServices -----------------------------
(* The servers that applications talk to, in one run: Oak Functions, the   *)
(* streams of the private memory service, and the sessions of one of its   *)
(* users that overtake each other without end, or whose index turns out to *)
(* have no room although the estimate admitted what was added, over a store*)
(* that fails; and the crypter that such servers may use.  They share      *)
(* nothing; the variables of those that are not the scenario stay.         *)
EXTENDS MCFunctions, MemoryService, PrivateMemory, UnorderedCrypter

Outgrown == INSTANCE PrivateMemory WITH
                MaxSize <- 0, StoreMayFail <- TRUE, MayDisconnect <- TRUE

MCInit ==
    /\ scenario \in FunctionsScenarios \cup {"service", "overtaken", "outgrown", "crypter"}
    /\ FunctionsInit /\ ChannelInit /\ ServiceInit /\ Init /\ CrypterInit
    /\ scenario = "service" \/ key_blob = Null

Syncing(A) == A /\ UNCHANGED <<MCFunctionsVars, serviceVars, crypterVars>>
MCNext ==
    \/ MCFunctionsNext /\ UNCHANGED <<serviceVars, vars, crypterVars>>
    \/ scenario = "service" /\ ServiceNext /\ UNCHANGED <<MCFunctionsVars, vars, crypterVars>>
    \/ Syncing(\/ scenario = "overtaken" /\ Next
               \/ scenario = "outgrown" /\ Outgrown!Next)
    \/ scenario = "crypter" /\ CrypterNext /\ UNCHANGED <<MCFunctionsVars, serviceVars, vars>>

(* Of the components that are not the scenario, nothing is ever enabled.   *)
MCSpec ==
    /\ MCInit
    /\ [][MCNext]_<<MCFunctionsVars, serviceVars, vars, crypterVars>>
    /\ FunctionsFairness /\ ChannelFairness /\ ServiceFairness
    /\ \A s \in Sessions :
          WF_vars(Syncing(\/ scenario = "overtaken" /\ Progress(s)
                          \/ scenario = "outgrown" /\ Outgrown!Progress(s)))
=============================================================================

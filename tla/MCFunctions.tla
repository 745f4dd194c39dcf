---------------------------- MODULE MCFunctions ----------------------------
(* Oak Functions' lookup data and the channel to an enclave for TLC.  A    *)
(* behaviour is of one scenario: two loaders without users, one loader with*)
(* users, the channel with whole frames, or fewer calls with torn ones.    *)
EXTENDS OakFunctions, OakChannel, TLC

CONSTANTS other, r1, k1, k2, v1, v2, sh1, sh2
VARIABLE scenario

MCShardOf == k1 :> sh1 @@ k2 :> sh2
MCFiles == {k1 :> v1 @@ k2 :> NoValue, k1 :> v2 @@ k2 :> v1}

Tearing == INSTANCE OakChannel WITH MaxCalls <- 2

FunctionsScenarios == {"load", "serve", "channel", "torn"}
MCFunctionsVars == <<functionsVars, channelVars, scenario>>
MCFunctionsInit == scenario \in FunctionsScenarios /\ FunctionsInit /\ ChannelInit

MCFunctionsNext ==
    /\ \/ /\ scenario = "load" /\ FunctionsNext
          /\ UNCHANGED <<snapshot, answered, channelVars>>
       \/ /\ scenario = "serve" /\ FunctionsNext
          /\ job'[other] = Idle /\ UNCHANGED channelVars
       \/ scenario = "channel" /\ ChannelNext /\ torn' = 0 /\ UNCHANGED functionsVars
       \/ scenario = "torn" /\ Tearing!ChannelNext /\ UNCHANGED functionsVars
    /\ UNCHANGED scenario

(* Of the component that is not the scenario, nothing is ever enabled.     *)
MCFunctionsSpec ==
    /\ MCFunctionsInit
    /\ [][MCFunctionsNext]_MCFunctionsVars
    /\ FunctionsFairness /\ ChannelFairness
=============================================================================

---------------------------- MODULE OakFunctions ----------------------------
(***************************************************************************)
(* Oak Functions: the service that keeps sharded lookup data and answers   *)
(* requests from it (oak_functions_service, oak_functions_containers_app,  *)
(* oak_functions_enclave_service), and the launcher that loads the data,   *)
(* once before it serves and then again and again (oak_functions_launcher, *)
(* oak_functions_containers_launcher).                                     *)
(*                                                                         *)
(* Each shard is a map (see LookupHtbl).  An extend inserts entry by entry *)
(* under the shard's mutex; a chunk holds the read lock of data_builder    *)
(* meanwhile, length-delimited entries take it for each entry.  Which      *)
(* entries go into which chunk is arbitrary.                               *)
(***************************************************************************)
EXTENDS FiniteSets

CONSTANTS LKeys, LValues, NoValue,
          Shards, ShardOf,   \* hash(key, 0) % S
          Files,             \* the lookup data the launcher may find on disk
          Loaders,           \* clients that update the lookup data
          Launcher,          \* the one whose first update precedes serving
          EntryLoaders,      \* those that send length-delimited entries
          Requests,
          LostRpcs           \* the calls whose request or answer may be lost

ASSUME FunctionsAssumption ==
    /\ ShardOf \in [LKeys -> Shards]
    /\ Files \subseteq [LKeys -> LValues \cup {NoValue}]
    /\ Launcher \in Loaders
    /\ EntryLoaders \subseteq Loaders \ {Launcher}
    /\ NoValue \notin LValues \cup [LKeys -> LValues \cup {NoValue}]
    /\ NoValue \notin [Shards -> [LKeys -> LValues \cup {NoValue}]]
    /\ "broken" \notin Loaders
    /\ LostRpcs \subseteq {"extend", "finish"}

VARIABLES data,        \* LookupDataManager::data, per shard
          builder,     \* LookupDataManager::data_builder, per shard
          job,         \* what each loader is doing
          initialized, \* OnceCell: the instance exists
          serving,     \* create returned and the launcher's server runs
          snapshot,    \* the LookupData of a request
          answered,    \* its lookups with what they returned
          writers,     \* history: the loads with entries in the builder
          loaded       \* history: the launcher's first update took effect

functionsVars == <<data, builder, job, initialized, serving, snapshot, answered,
                   writers, loaded>>

EntriesOf(f) == {<<k, f[k]>> : k \in {x \in LKeys : f[x] # NoValue}}
EmptyShard == [k \in LKeys |-> NoValue]
EmptyData == [s \in Shards |-> EmptyShard]
Idle == [pc |-> "idle"]

(* LookupData::get looks into the shard that insert chose.                 *)
GetLookup(d, k) == d[ShardOf[k]][k]
Flatten(d) == [k \in LKeys |-> GetLookup(d, k)]

(* History only: loads of us that lost their place in the builder leave a  *)
(* builder that is no longer one load's.                                   *)
Broken(ws, us) == IF ws \cap us = {} THEN ws ELSE (ws \ us) \cup {"broken"}

(* The read lock of data_builder is held while a chunk is inserted.        *)
ReadLocked == \E u \in Loaders : job[u].pc = "inserting" /\ u \notin EntryLoaders

-----------------------------------------------------------------------------
FunctionsInit ==
    /\ data = EmptyData
    /\ builder = EmptyData
    /\ job = [u \in Loaders |-> Idle]
    /\ initialized = FALSE
    /\ serving = FALSE
    /\ snapshot = [r \in Requests |-> NoValue]
    /\ answered = [r \in Requests |-> {}]
    /\ writers = {}
    /\ loaded = FALSE

(* initialize: once; a second call is refused.                             *)
Initialize ==
    /\ ~initialized
    /\ initialized' = TRUE
    /\ UNCHANGED <<data, builder, job, serving, snapshot, answered, writers, loaded>>

(* A loader reads its file and cuts it into chunks; get_instance refuses   *)
(* updates before initialize.                                              *)
StartUpdate(u) ==
    /\ initialized
    /\ job[u] = Idle
    /\ \E f \in Files :
          job' = [job EXCEPT ![u] = [pc |-> "update", file |-> f, todo |-> EntriesOf(f)]]
    /\ UNCHANGED <<data, builder, initialized, serving, snapshot, answered, writers, loaded>>

(* extend_next_lookup_data with the next chunk.                            *)
ExtendNextLookupData(u) ==
    /\ job[u].pc = "update"
    /\ job[u].todo # {}
    /\ \E entries \in (SUBSET job[u].todo) \ {{}} :
          job' = [job EXCEPT ![u] =
              [pc |-> "inserting", file |-> job[u].file, todo |-> job[u].todo \ entries,
               entries |-> entries]]
    /\ UNCHANGED <<data, builder, initialized, serving, snapshot, answered, writers, loaded>>

(* One entry, under the mutex of its shard.                                *)
InsertEntry(u) ==
    /\ job[u].pc = "inserting"
    /\ \E e \in job[u].entries :
          /\ builder' = [builder EXCEPT ![ShardOf[e[1]]][e[1]] = e[2]]
          /\ job' = [job EXCEPT ![u].entries = @ \ {e}]
    /\ writers' = writers \cup {u}
    /\ UNCHANGED <<data, initialized, serving, snapshot, answered, loaded>>

MutStartsOver(u) ==
    /\ job[u].pc = "inserting"
    /\ job[u].entries = {}
    /\ job' = [job EXCEPT ![u] =
                  [pc |-> "update", file |-> job[u].file, todo |-> EntriesOf(job[u].file)]]
    /\ UNCHANGED <<data, builder, initialized, serving, snapshot, answered, writers, loaded>>

(* The answer to the extend reaches the loader.                            *)
ExtendReturns(u) ==
    /\ job[u].pc = "inserting"
    /\ job[u].entries = {}
    /\ job' = [job EXCEPT ![u] =
                  [pc |-> "update", file |-> job[u].file, todo |-> job[u].todo]]
    /\ UNCHANGED <<data, builder, initialized, serving, snapshot, answered, writers, loaded>>

(* The extend, its answer or the stream of chunks is lost: the update ends *)
(* with an error and what it has inserted stays in the builder.  The first *)
(* update's error ends the launcher, a later one is ignored.               *)
ExtendFails(u) ==
    /\ "extend" \in LostRpcs
    /\ \/ job[u].pc = "update" /\ job[u].todo # {}
       \/ job[u].pc = "inserting" /\ job[u].entries = {}
    /\ job' = [job EXCEPT ![u] = IF u = Launcher /\ ~serving
                                 THEN [pc |-> "exited"] ELSE Idle]
    /\ writers' = Broken(writers, {u})
    /\ UNCHANGED <<data, builder, initialized, serving, snapshot, answered, loaded>>

-----------------------------------------------------------------------------
(* The loader is done; create returns after the launcher's first update.   *)
UpdateDone(u) ==
    /\ job' = [job EXCEPT ![u] = Idle]
    /\ serving' = (serving \/ u = Launcher)

MutFinishKeepsBuilder(u) ==
    /\ job[u].pc = "update"
    /\ job[u].todo = {}
    /\ ~ReadLocked
    /\ data' = builder
    /\ UpdateDone(u)
    /\ writers' = Broken({v \in Loaders \ {u} : job[v] # Idle}, Loaders)
    /\ loaded' = (loaded \/ u = Launcher)
    /\ UNCHANGED <<builder, initialized, snapshot, answered>>

(* finish_next_lookup_data: under both write locks, every shard of the     *)
(* builder is taken out and becomes the current data.                      *)
FinishNextLookupData(u) ==
    /\ job[u].pc = "update"
    /\ job[u].todo = {}
    /\ ~ReadLocked
    /\ data' = builder
    /\ builder' = EmptyData
    /\ UpdateDone(u)
    /\ writers' = Broken({v \in Loaders \ {u} : job[v] # Idle}, Loaders)
    /\ loaded' = (loaded \/ u = Launcher)
    /\ UNCHANGED <<initialized, snapshot, answered>>

(* The finish is lost on the way; UpdateClient::finish drops the error.    *)
FinishFails(u) ==
    /\ "finish" \in LostRpcs
    /\ job[u].pc = "update"
    /\ job[u].todo = {}
    /\ UpdateDone(u)
    /\ writers' = Broken(writers, {u})
    /\ UNCHANGED <<data, builder, initialized, snapshot, answered, loaded>>

(* abort_next_lookup_data, which any client may call.                      *)
AbortNextLookupData ==
    /\ initialized
    /\ ~ReadLocked
    /\ builder' = EmptyData
    /\ writers' = Broken({v \in Loaders : job[v] # Idle}, Loaders)
    /\ UNCHANGED <<data, job, initialized, serving, snapshot, answered, loaded>>

-----------------------------------------------------------------------------
(* handle_user_request: create_lookup_data clones the reference to the     *)
(* current data for the request's Wasm instance.                           *)
HandleUserRequest(r) ==
    /\ serving
    /\ snapshot[r] = NoValue
    /\ snapshot' = [snapshot EXCEPT ![r] = data]
    /\ UNCHANGED <<data, builder, job, initialized, serving, answered, writers, loaded>>

MutLooksUpCurrent(r, k) ==
    /\ snapshot[r] # NoValue
    /\ answered' = [answered EXCEPT ![r] = @ \cup {<<k, GetLookup(data, k)>>}]
    /\ UNCHANGED <<data, builder, job, initialized, serving, snapshot, writers, loaded>>

(* The Wasm module asks for one key (lookup_data, or one of those of       *)
(* lookup_data_multi).                                                     *)
LookupData(r, k) ==
    /\ snapshot[r] # NoValue
    /\ answered' = [answered EXCEPT ![r] = @ \cup {<<k, GetLookup(snapshot[r], k)>>}]
    /\ UNCHANGED <<data, builder, job, initialized, serving, snapshot, writers, loaded>>

(* main returns and the response is sent; the Arc is released.             *)
Respond(r) ==
    /\ snapshot[r] # NoValue
    /\ snapshot' = [snapshot EXCEPT ![r] = NoValue]
    /\ answered' = [answered EXCEPT ![r] = {}]
    /\ UNCHANGED <<data, builder, job, initialized, serving, writers, loaded>>

-----------------------------------------------------------------------------
Load(u) == ExtendNextLookupData(u) \/ InsertEntry(u) \/ ExtendReturns(u)

FunctionsNext ==
    \/ Initialize
    \/ AbortNextLookupData
    \/ \E u \in Loaders : \/ StartUpdate(u) \/ Load(u) \/ ExtendFails(u)
                          \/ FinishNextLookupData(u) \/ FinishFails(u)
    \/ \E r \in Requests : \/ HandleUserRequest(r) \/ Respond(r)
                           \/ \E k \in LKeys : LookupData(r, k)

(* A call that is not lost is executed, and the lock of data_builder is    *)
(* fair to writers (parking_lot); files and users come as they like.       *)
FunctionsFairness ==
    \A u \in Loaders : WF_functionsVars(Load(u)) /\ SF_functionsVars(FinishNextLookupData(u))

FunctionsSpec == FunctionsInit /\ [][FunctionsNext]_functionsVars /\ FunctionsFairness

-----------------------------------------------------------------------------
(* README.md, "Consistent view on lookup data": all that a request looks   *)
(* up comes from the data that was current when it arrived, whatever the   *)
(* loaders do meanwhile, and data is replaced as a whole.                  *)
Atomic == INSTANCE AtomicLookup WITH
              Keys <- LKeys, Values <- LValues, None <- NoValue,
              served <- Flatten(data),
              view <- [r \in Requests |-> IF snapshot[r] = NoValue THEN NoValue
                                          ELSE Flatten(snapshot[r])],
              answers <- answered
ConsistentView == Atomic!Spec

(* README.md, "Fully loaded lookup data": no request is served before the  *)
(* launcher's first update took effect.                                    *)
FullyLoaded == serving => loaded

(* An update that had the builder to itself replaces the lookup data by    *)
(* exactly the contents of its file: build leaves nothing behind for the   *)
(* next one, and no entry is dropped or put into another shard.            *)
UpdateIsExact ==
    [][\A u \in Loaders :
           FinishNextLookupData(u) /\ writers \subseteq {u}
           => Flatten(data') = job[u].file]_functionsVars

(* A loader that has begun an update ends it, although other loaders keep  *)
(* taking the lock that its finish waits for.                              *)
UpdateEnds ==
    \A u \in Loaders : []<>(job[u].pc \in {"idle", "exited"})
=============================================================================

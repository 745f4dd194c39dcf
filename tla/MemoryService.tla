---------------------------- MODULE MemoryService ----------------------------
(***************************************************************************)
(* The streams of the private memory service and the users behind them     *)
(* (oak_private_memory/app: service.rs, and registration and key sync in   *)
(* handler.rs).  A stream of invoke or start_session handles one request   *)
(* at a time; invoke_async and start_tls_session spawn a task for each and *)
(* answer in the order of the requests.  All streams are of one user, whose*)
(* key blob and metadata blob are in the external store.                   *)
(*                                                                         *)
(* What a session does to its copy of the index and how that is persisted  *)
(* is PrivateMemory's; here a memory is the request that added it, and     *)
(* persisting is one step (disable_persistence_on_close is PrivateMemory's *)
(* too).  A request is its number; a fresh data encryption key is the      *)
(* number of the registration that made it.                                *)
(***************************************************************************)
EXTENDS Naturals, FiniteSets, SequencesExt

CONSTANTS Streams,
          Concurrent,     \* those that run_concurrent_dispatch serves
          ClientKeys,     \* key encryption keys that clients send
          GrpcErrors,     \* streams whose errors are gRPC statuses
          Null,
          MaxRequests     \* bound: on the requests of all streams

ASSUME ServiceAssumption ==
    /\ Concurrent \subseteq Streams
    /\ GrpcErrors \subseteq Streams
    /\ MaxRequests \in Nat

(* What the variables below hold where they do not hold Null.              *)
KeyBlobs == [key : ClientKeys \cup {Null}, dek : Nat]
MetadataBlobs == [dek : Nat, memories : SUBSET Nat]
Contexts == [by : Nat, dek : Nat, pending : SUBSET Nat]

ASSUME NullAssumption ==
    /\ Null \notin Nat
    /\ Null \notin KeyBlobs /\ Null \notin MetadataBlobs /\ Null \notin Contexts

VARIABLES key_blob,   \* PlainTextUserInfo: the wrapped key, or Null
          metadata,   \* the metadata blob: its key and contents, or Null
          task,       \* the requests that were received, in order
          stream,     \* per stream: the loop that serves it
          context,    \* per stream: its UserSessionContext or Null
          unsaved     \* the memories of contexts the worker failed to persist

serviceVars == <<key_blob, metadata, task, stream, context, unsaved>>

Kinds == {"register", "key_sync", "add", "sync"}
Running(s) ==
    {t \in DOMAIN task : task[t].stream = s /\ task[t].pc \notin {"ok", "error", "dropped"}}
MoveTo(t, pc) == task' = [task EXCEPT ![t].pc = pc]
Has(t, kind, pc) == task[t].kind = kind /\ task[t].pc = pc

-----------------------------------------------------------------------------
(* The user is new, or was registered before, perhaps under a key that     *)
(* these clients do not have.                                              *)
ServiceInit ==
    /\ key_blob \in {Null} \cup [key : ClientKeys \cup {Null}, dek : {0}]
    /\ metadata = Null
    /\ task = << >>
    /\ stream = [s \in Streams |-> [open |-> TRUE, left |-> FALSE,
                                    in_flight |-> << >>, sent |-> << >>]]
    /\ context = [s \in Streams |-> Null]
    /\ unsaved = {}

(* A request is decrypted and its handler started.                         *)
Receive(s) ==
    /\ stream[s].open
    /\ s \in Concurrent \/ stream[s].in_flight = << >>
    /\ Len(task) < MaxRequests
    /\ \E kind \in Kinds, key \in ClientKeys \cup {Null} :
       /\ (key = Null) = (kind \in {"add", "sync"})
       /\ task' = Append(task, [stream |-> s, kind |-> kind, key |-> key, pc |-> "start",
                                dek |-> Null, under |-> Null])
    /\ stream' = [stream EXCEPT ![s].in_flight = Append(@, Len(task) + 1)]
    /\ UNCHANGED <<key_blob, metadata, context, unsaved>>

(* The loop ends: the client closed its side and all that was in flight is *)
(* answered, or, where requests are read while others are in flight, one   *)
(* cannot be decrypted.                                                    *)
LoopEnds(s) ==
    /\ stream[s].open
    /\ s \in Concurrent \/ stream[s].in_flight = << >>
    /\ stream' = [stream EXCEPT ![s].open = FALSE, ![s].in_flight = << >>]
    /\ UNCHANGED <<key_blob, metadata, task, context, unsaved>>

(* The receiver of the answers is gone.  A sequential stream is dropped    *)
(* with the request it is working on; spawned tasks run on.                *)
ClientLeaves(s) ==
    /\ stream[s].open /\ ~stream[s].left
    /\ IF s \in Concurrent
       THEN stream' = [stream EXCEPT ![s].left = TRUE] /\ UNCHANGED task
       ELSE /\ stream' = [stream EXCEPT ![s].open = FALSE, ![s].in_flight = << >>]
            /\ task' = [t \in DOMAIN task |-> IF t \in Running(s)
                            THEN [task[t] EXCEPT !.pc = "dropped"] ELSE task[t]]
    /\ UNCHANGED <<key_blob, metadata, context, unsaved>>

MutForwardsAny(s) ==
    \E i \in 1..Len(stream[s].in_flight) :
        /\ stream[s].open
        /\ task[stream[s].in_flight[i]].pc \in {"ok", "error"}
        /\ stream' = [stream EXCEPT ![s].in_flight = RemoveAt(@, i),
                                    ![s].sent = Append(@, stream[s].in_flight[i])]
        /\ UNCHANGED <<key_blob, metadata, task, context, unsaved>>

(* The oldest request in flight is done: its answer is encrypted and sent. *)
(* A gRPC error, or a client that has left, ends the loop.                 *)
Forward(s) ==
    LET t == Head(stream[s].in_flight)
        breaks == stream[s].left \/ (s \in GrpcErrors /\ task[t].pc = "error")
    IN  /\ stream[s].open
        /\ stream[s].in_flight # << >>
        /\ task[t].pc \in {"ok", "error"}
        /\ stream' = [stream EXCEPT ![s].open = ~breaks,
                                    ![s].in_flight = IF breaks THEN << >> ELSE Tail(@),
                                    ![s].sent = IF stream[s].left THEN @ ELSE Append(@, t)]
        /\ UNCHANGED <<key_blob, metadata, task, context, unsaved>>

-----------------------------------------------------------------------------
(* user_registration_handler: looks for the key blob, ...                  *)
RegisterCheck(t) ==
    /\ Has(t, "register", "start")
    /\ MoveTo(t, IF key_blob = Null THEN "absent" ELSE "ok")
    /\ UNCHANGED <<key_blob, metadata, stream, context, unsaved>>

(* ... and adds one with a fresh key, without a condition.  The store's    *)
(* answer may be lost.                                                     *)
RegisterWrite(t) ==
    /\ Has(t, "register", "absent")
    /\ key_blob' = [key |-> task[t].key, dek |-> t]
    /\ \E pc \in {"ok", "error"} : task' = [task EXCEPT ![t].pc = pc, ![t].dek = t]
    /\ UNCHANGED <<metadata, stream, context, unsaved>>

MutFreshKey(t) ==
    /\ Has(t, "key_sync", "start")
    /\ task' = [task EXCEPT ![t].pc = "unwrapped",
                            ![t].dek = IF key_blob = Null THEN t ELSE key_blob.dek]
    /\ UNCHANGED <<key_blob, metadata, stream, context, unsaved>>

(* key_sync_handler: unwraps the key; an unknown user and a wrong key are  *)
(* answers, not errors.                                                    *)
KeySyncUnwrap(t) ==
    /\ Has(t, "key_sync", "start")
    /\ task' = IF key_blob = Null \/ key_blob.key # task[t].key
               THEN [task EXCEPT ![t].pc = "ok"]
               ELSE [task EXCEPT ![t].pc = "unwrapped", ![t].dek = key_blob.dek]
    /\ UNCHANGED <<key_blob, metadata, stream, context, unsaved>>

(* get_or_create_db: a blob under another key cannot be decrypted.         *)
KeySyncLoad(t) ==
    /\ Has(t, "key_sync", "unwrapped")
    /\ task' = IF metadata # Null /\ metadata.dek # task[t].dek
               THEN [task EXCEPT ![t].pc = "error", ![t].dek = Null]
               ELSE [task EXCEPT ![t].pc = "loaded"]
    /\ UNCHANGED <<key_blob, metadata, stream, context, unsaved>>

(* setup_user_session_context: takes the lock and replaces the context.    *)
KeySyncInstall(t) ==
    /\ Has(t, "key_sync", "loaded")
    /\ LET s == task[t].stream
       IN  /\ context' = [context EXCEPT ![s] = [by |-> t, dek |-> task[t].dek, pending |-> {}]]
           /\ task' = [task EXCEPT ![t].pc = "ok",
                         ![t].under = IF context[s] = Null THEN Null ELSE context[s].by]
    /\ UNCHANGED <<key_blob, metadata, stream, unsaved>>

(* add_memory_handler and the other requests that need the context.        *)
Add(t) ==
    /\ Has(t, "add", "start")
    /\ LET s == task[t].stream
       IN  IF context[s] = Null THEN MoveTo(t, "error") /\ UNCHANGED context
           ELSE /\ context' = [context EXCEPT ![s].pending = @ \cup {t}]
                /\ task' = [task EXCEPT ![t].pc = "ok", ![t].under = context[s].by]
    /\ UNCHANGED <<key_blob, metadata, stream, unsaved>>

(* A metadata blob under another key cannot be decrypted.                  *)
Decrypts(c) == metadata # Null => metadata.dek = c.dek
Stored(c) ==
    IF c.pending = {} THEN metadata
    ELSE [dek |-> c.dek,
          memories |-> c.pending \cup (IF metadata = Null THEN {} ELSE metadata.memories)]

(* persist_database fails: the store does not answer, the index is too     *)
(* large, others win every attempt, or the blob it has to be rebased on is *)
(* under another key.  The write of an answer that was lost is in effect.  *)
PersistFails(c) == metadata' = metadata \/ (Decrypts(c) /\ metadata' = Stored(c))

(* sync_persist_database: pulls the blob and pushes the changes.           *)
SyncDatabase(t) ==
    /\ Has(t, "sync", "start")
    /\ LET s == task[t].stream
       IN  \/ context[s] = Null /\ MoveTo(t, "error") /\ UNCHANGED <<metadata, context>>
           \/ /\ context[s] # Null
              /\ PersistFails(context[s])
              /\ MoveTo(t, "error") /\ UNCHANGED context
           \/ /\ context[s] # Null /\ Decrypts(context[s])
              /\ metadata' = Stored(context[s])
              /\ context' = [context EXCEPT ![s].pending = {}]
              /\ MoveTo(t, "ok")
    /\ UNCHANGED <<key_blob, stream, unsaved>>

(* A call to the store fails, and the request with it.                     *)
StoreFails(t) ==
    /\ task[t].kind \in {"register", "key_sync"}
    /\ task[t].pc \in {"start", "absent", "unwrapped"}
    /\ task' = [task EXCEPT ![t].pc = "error", ![t].dek = Null]
    /\ UNCHANGED <<key_blob, metadata, stream, context, unsaved>>

MutReleaseDiscards(s) ==
    /\ ~stream[s].open
    /\ Running(s) = {}
    /\ context[s] # Null
    /\ context' = [context EXCEPT ![s] = Null]
    /\ UNCHANGED <<key_blob, metadata, task, stream, unsaved>>

MutReleaseIfAnswered(s) ==
    /\ ~stream[s].open /\ ~stream[s].left
    /\ Running(s) = {}
    /\ context[s] # Null
    /\ metadata' = IF Decrypts(context[s]) THEN Stored(context[s]) ELSE metadata
    /\ context' = [context EXCEPT ![s] = Null]
    /\ UNCHANGED <<key_blob, task, stream, unsaved>>

(* The handler is dropped with its last user, and the worker persists the  *)
(* context, once: when that fails the failure is counted and the context is*)
(* dropped all the same.  An index without changes is not persisted.       *)
Release(s) ==
    /\ ~stream[s].open
    /\ Running(s) = {}
    /\ context[s] # Null
    /\ \/ /\ context[s].pending = {} \/ Decrypts(context[s])
          /\ metadata' = Stored(context[s]) /\ UNCHANGED unsaved
       \/ /\ context[s].pending # {}
          /\ PersistFails(context[s])
          /\ unsaved' = unsaved \cup context[s].pending
    /\ context' = [context EXCEPT ![s] = Null]
    /\ UNCHANGED <<key_blob, task, stream>>

-----------------------------------------------------------------------------
Handle(t) ==
    \/ RegisterCheck(t) \/ RegisterWrite(t) \/ KeySyncUnwrap(t) \/ KeySyncLoad(t)
    \/ KeySyncInstall(t) \/ Add(t) \/ SyncDatabase(t)

ServiceNext ==
    \/ \E s \in Streams : \/ Receive(s) \/ LoopEnds(s)
                          \/ ClientLeaves(s) \/ Forward(s) \/ Release(s)
    \/ \E t \in DOMAIN task : Handle(t) \/ StoreFails(t)

(* Tasks, loops and the worker run; clients do as they like.               *)
ServiceFairness ==
    /\ WF_serviceVars(\E t \in DOMAIN task : Handle(t))
    /\ WF_serviceVars(\E s \in Streams : Forward(s))
    /\ WF_serviceVars(\E s \in Streams : Release(s))

ServiceSpec == ServiceInit /\ [][ServiceNext]_serviceVars /\ ServiceFairness

-----------------------------------------------------------------------------
Before(s, t) == {u \in DOMAIN task : task[u].stream = s /\ u < t}

(* The answers of a stream are those to its first requests, in their order,*)
(* however the tasks overtake each other (run_concurrent_dispatch:         *)
(* "preserving the original request order"): the answer to a request leaves*)
(* once, and after those to all requests of its stream before it.          *)
AnswersInOrder ==
    \A s \in Streams : LET sent == stream[s].sent
                       IN  \A i \in 1..Len(sent) :
                              /\ sent[i] \in DOMAIN task /\ task[sent[i]].stream = s
                              /\ {sent[j] : j \in 1..(i - 1)} = Before(s, sent[i])

Registrations == {t \in DOMAIN task : task[t].kind = "register" /\ task[t].dek # Null}

(* A user's data stays under the user's key unless two registrations wrote *)
(* a key: two that overlap may, and then the first one's data is out of    *)
(* reach.                                                                  *)
DataMatchesKey ==
    metadata # Null /\ Cardinality(Registrations) <= 1 =>
        key_blob # Null /\ metadata.dek = key_blob.dek

(* A memory that was accepted is stored or still to be stored, unless      *)
(* another key sync replaced the context that it was in.  The only other   *)
(* loss is the one that the worker counts (inc_db_persist_failures): a     *)
(* context that it takes over is never dropped silently.                   *)
AcceptedMemoriesKept ==
    \A t \in DOMAIN task :
        LET s == task[t].stream
        IN  Has(t, "add", "ok") =>
               \/ metadata # Null /\ t \in metadata.memories
               \/ context[s] # Null /\ t \in context[s].pending
               \/ t \in unsaved
               \/ \E u \in DOMAIN task : Has(u, "key_sync", "ok") /\ task[u].under = task[t].under

(* Every request that was received is carried through, and the context of  *)
(* every stream that has ended is handed to the worker, also after an error*)
(* or when the client has left.                                            *)
StreamsDrain ==
    /\ []<>(\A s \in Streams : Running(s) = {})
    /\ []<>(\A s \in Streams : stream[s].open \/ context[s] = Null)
=============================================================================

--------------------------- MODULE PrivateMemory ---------------------------
(***************************************************************************)
(* Sessions of one user of the private memory service                      *)
(* (oak_private_memory/app: handler.rs and persistence_worker.rs): each    *)
(* works on its own copy of the metadata index and writes it back with an  *)
(* optimistic version check, rebasing on a conflict.  Memory contents are  *)
(* blobs in the same external store.  Every RPC to that store is a step of *)
(* its own; the requests of one session exclude each other by its lock.    *)
(* A size is a number of documents.  Expiry is a choice made at key sync.  *)
(***************************************************************************)
EXTENDS MemoryIndex, FiniteSets

CONSTANTS Sessions,         \* handlers, reused once they are done
          MemoryIds, Names, \* Names is without None
          MaxBatch,         \* memories in one request
          MaxSize,          \* max_database_size_bytes, in documents
          MaxRetryAttempts, \* MAX_RETRY_ATTEMPTS
          StoreMayFail,     \* whether an RPC may fail without an effect
          MayDisconnect,    \* whether a request may be cut short: its future is
                            \* dropped at an await, or its last reply is lost
          KeepChoices,      \* ~disable_persistence_on_close, as clients ask
          MayCrash,         \* whether the server may restart
          VersionsRecur,    \* see NewVersion
          MaxBlobs, MaxVersion, MaxLog      \* bounds of the exploration

ASSUME MemoryAssumption ==
    /\ MaxBatch \in Nat \ {0}
    /\ MaxRetryAttempts \in Nat \ {0, 1}
    /\ {StoreMayFail, MayDisconnect, MayCrash, VersionsRecur} \subseteq BOOLEAN
    /\ KeepChoices \subseteq BOOLEAN
    /\ None \notin Names

VARIABLES remote,       \* the stored metadata blob; version 0: there is none
          blobs,        \* the stored memory blobs
          next_blob,    \* blob ids are random, here: never used before
          ctx,          \* each session's UserSessionContext or None
          pc,           \* where each session's request is
          attempt,      \* persist_database's counter
          queue,        \* the persistence worker's channel
          ops           \* history: mutations accepted since the last persist

vars == <<remote, blobs, next_blob, ctx, pc, attempt, queue, ops>>
store == <<remote, blobs, next_blob>>

Init ==
    /\ remote = [version |-> 0, docs |-> {}]
    /\ blobs = {}
    /\ next_blob = 1
    /\ ctx = [s \in Sessions |-> None]
    /\ pc = [s \in Sessions |-> "idle"]
    /\ attempt = [s \in Sessions |-> 0]
    /\ queue = << >>
    /\ ops = [s \in Sessions |-> << >>]

Working(s) == pc[s] = "idle" /\ ctx[s] # None
Goto(s, where) == pc' = [pc EXCEPT ![s] = where]
Since(new, old) == SubSeq(new, Len(old) + 1, Len(new))

(* A request that only changes the session's own index.                    *)
Mutate(s, db, size) ==
    /\ Len(db.log) <= MaxLog
    /\ Len(ops[s]) + Len(db.log) - Len(ctx[s].log) <= MaxLog
    /\ ctx' = [ctx EXCEPT ![s].docs = db.docs, ![s].log = db.log, ![s].size = size]
    /\ ops' = [ops EXCEPT ![s] = @ \o Since(db.log, ctx[s].log)]

-----------------------------------------------------------------------------
(* get_or_create_db: the stored index, or a new one.                       *)
GetOrCreateDb ==
    IF remote.version = 0 THEN NewIndex ELSE Import(remote.docs)

(* setup_user_session_context, for an index that was made of the stored    *)
(* one.                                                                    *)
UserSessionContext(db, keep) ==
    [version |-> remote.version, docs |-> db.docs, log |-> db.log,
     size |-> Cardinality(remote.docs), keep |-> keep]

(* key_sync_handler: reads the metadata blob, installs a context made of   *)
(* it, and deletes the memories that have expired.  A context the session  *)
(* had is replaced, and its log is not persisted.                          *)
KeySync(s) ==
    /\ pc[s] = "idle"
    /\ \E expired \in SUBSET {d.id : d \in remote.docs}, keep \in KeepChoices :
          LET db == DeleteMemories(GetOrCreateDb, expired)
          IN  /\ ctx' = [ctx EXCEPT ![s] = UserSessionContext(db, keep)]
              /\ ops' = [ops EXCEPT ![s] = db.log]
    /\ UNCHANGED <<store, pc, attempt, queue>>

(* validate_single_memory: a name that is taken must be this memory's; the *)
(* existing memory is read, so its blob has to be there.                   *)
ValidateSingleMemory(c, m) ==
    m.name # None =>
        /\ Cardinality(WithName(c, m.name)) <= 1
        /\ \A d \in WithName(c, m.name) : d.id = m.id /\ d.blob \in blobs

(* prepare_memory, which does not see the other memories of its batch.     *)
PrepareMemory(c) == c.size + 1 <= MaxSize

(* index_memory for each memory of a batch.                                *)
IndexMemories(c, docs) ==
    FoldLeft(AddMemory, [docs |-> c.docs, log |-> c.log], docs)

(* add_memory_handler and add_memories_handler: every memory is checked    *)
(* before any is added, the blobs are written, then they are indexed.  The *)
(* batch is that of the memories that pass; the others are only reported.  *)
AddMemories(s, batch) ==
    LET c    == ctx[s]
        docs == [i \in 1..Len(batch) |->
                   [id |-> batch[i].id, name |-> batch[i].name,
                    blob |-> next_blob + i - 1]]
    IN  /\ Working(s)
        /\ \A i \in 1..Len(batch) : ValidateSingleMemory(c, batch[i]) /\ PrepareMemory(c)
        /\ next_blob + Len(batch) <= MaxBlobs + 1
        /\ next_blob' = next_blob + Len(batch)
        /\ blobs' = blobs \cup {docs[i].blob : i \in 1..Len(docs)}
        /\ Mutate(s, IndexMemories(c, docs), c.size + Len(batch))
        /\ UNCHANGED <<remote, pc, attempt, queue>>

(* The same, when the blob was written but its RPC fails: the request      *)
(* fails before the memory is indexed.                                     *)
AddMemoryFails(s) ==
    /\ StoreMayFail
    /\ Working(s)
    /\ next_blob <= MaxBlobs
    /\ next_blob' = next_blob + 1
    /\ blobs' = blobs \cup {next_blob}
    /\ UNCHANGED <<remote, ctx, pc, attempt, queue, ops>>

(* A variant used to test the properties: the blob is deleted at once.     *)
MutDeletesAtOnce(s, id) ==
    /\ Working(s)
    /\ Mutate(s, DeleteMemory([docs |-> ctx[s].docs, log |-> ctx[s].log], id),
              ctx[s].size)
    /\ blobs' = blobs \ {d.blob : d \in WithId(ctx[s], id)}
    /\ UNCHANGED <<remote, next_blob, pc, attempt, queue>>

(* delete_memory_handler; the blob itself is deleted once the index is     *)
(* stored.                                                                 *)
DeleteMemoryRequest(s, id) ==
    /\ Working(s)
    /\ Mutate(s, DeleteMemory([docs |-> ctx[s].docs, log |-> ctx[s].log], id),
              ctx[s].size)
    /\ UNCHANGED <<store, pc, attempt, queue>>

(* reset_memory_handler.                                                   *)
ResetMemoryRequest(s) ==
    /\ Working(s)
    /\ Mutate(s, ResetMemory([docs |-> ctx[s].docs, log |-> ctx[s].log]), 0)
    /\ UNCHANGED <<store, pc, attempt, queue>>

-----------------------------------------------------------------------------
(* A variant used to test the properties: the new version is taken over    *)
(* and the new base is not.                                                *)
MutRebaseVersionOnly(c) == [c EXCEPT !.version = remote.version]

(* Database::rebase and the version update of pull_and_rebase.             *)
Rebased(c) ==
    LET db == ImportWithChanges(remote.docs, c.log)
    IN  [c EXCEPT !.version = remote.version, !.docs = db.docs, !.log = db.log,
                  !.size = Cardinality(db.docs)]

(* pull_and_rebase; that a missing blob is an error after a conflict plays *)
(* no part, since a blob that was in conflict exists.                      *)
PullAndRebase(s) ==
    ctx' = [ctx EXCEPT ![s] =
              IF remote.version \in {0, @.version} THEN @ ELSE Rebased(@)]

(* A request or the worker is done with s, whether it succeeded or not;    *)
(* the worker drops the context in either case.                            *)
Finish(s) ==
    /\ Goto(s, "idle")
    /\ attempt' = [attempt EXCEPT ![s] = 0]
Served(s) == queue # << >> /\ Head(queue) = s
DropServed(s, c) ==
    /\ queue' = IF Served(s) THEN Tail(queue) ELSE queue
    /\ ctx' = [c EXCEPT ![s] = IF Served(s) THEN None ELSE @]

(* The error returns of persist_database: the log stays as it is.          *)
Fail(s, c) ==
    /\ Finish(s)
    /\ DropServed(s, c)
    /\ ops' = [ops EXCEPT ![s] = IF Served(s) THEN << >> ELSE @]

(* A write by s and by each session under way still fits in MaxVersion.    *)
Room(s) ==
    VersionsRecur \/
    remote.version + Cardinality({r \in Sessions : pc[r] # "idle"} \cup {s})
        <= MaxVersion

-----------------------------------------------------------------------------
(* sync_database_handler, which holds the session's lock until it is done. *)
Sync(s) ==
    /\ Working(s)
    /\ Room(s)
    /\ Goto(s, "pull")
    /\ UNCHANGED <<store, ctx, attempt, queue, ops>>

(* Entering persist_database.                                              *)
Pull(s) ==
    /\ pc[s] = "pull"
    /\ PullAndRebase(s)
    /\ Goto(s, "write")
    /\ attempt' = [attempt EXCEPT ![s] = 1]
    /\ UNCHANGED <<store, queue, ops>>

(* try_persist_database with an unchanged index.                           *)
NothingToPersist(s) ==
    /\ pc[s] = "write"
    /\ ctx[s].log = << >>
    /\ Goto(s, "flush")
    /\ UNCHANGED <<store, ctx, attempt, queue, ops>>

IndexTooLarge(s) ==
    /\ pc[s] = "write"
    /\ ctx[s].log # << >>
    /\ Cardinality(ctx[s].docs) > MaxSize
    /\ Fail(s, ctx)
    /\ UNCHANGED store

Writing(s) ==
    /\ pc[s] = "write"
    /\ ctx[s].log # << >>
    /\ Cardinality(ctx[s].docs) <= MaxSize

(* The store refuses a write over a blob of another version.               *)
VersionConflict(s) == remote.version \notin {0, ctx[s].version}

(* Versions are opaque strings that are only compared for equality.  They  *)
(* count up to a bound or, with VersionsRecur, one that no session holds   *)
(* any more may serve again, so that there is no end to the writes.        *)
NewVersion ==
    LET held == {remote.version} \cup
                {ctx[r].version : r \in {q \in Sessions : ctx[q] # None}}
    IN  IF VersionsRecur THEN Min((1..MaxVersion) \ held)
                         ELSE remote.version + 1

(* The write is accepted; the session keeps the version it had.            *)
Persist(s) ==
    /\ Writing(s)
    /\ ~VersionConflict(s)
    /\ remote' = [version |-> NewVersion, docs |-> ctx[s].docs]
    /\ Goto(s, "flush")
    /\ UNCHANGED <<blobs, next_blob, ctx, attempt, queue, ops>>

(* A variant used to test the properties: the attempt is not counted.      *)
MutConflictUncounted(s) ==
    /\ Writing(s)
    /\ VersionConflict(s)
    /\ Goto(s, "repull")
    /\ UNCHANGED <<store, ctx, attempt, queue, ops>>

(* RetryNeeded.                                                            *)
Conflict(s) ==
    /\ Writing(s)
    /\ VersionConflict(s)
    /\ Goto(s, "repull")
    /\ attempt' = [attempt EXCEPT ![s] = @ + 1]
    /\ UNCHANGED <<store, ctx, queue, ops>>

(* The rest of the loop's body and its condition.                          *)
Repull(s) ==
    /\ pc[s] = "repull"
    /\ attempt[s] < MaxRetryAttempts
    /\ PullAndRebase(s)
    /\ Goto(s, "write")
    /\ UNCHANGED <<store, attempt, queue, ops>>

GiveUp(s) ==
    /\ pc[s] = "repull"
    /\ attempt[s] >= MaxRetryAttempts
    /\ Finish(s)
    /\ LET c == [ctx EXCEPT ![s] =
                   IF remote.version \in {0, @.version} THEN @ ELSE Rebased(@)]
       IN  DropServed(s, c)
    /\ ops' = [ops EXCEPT ![s] = IF Served(s) THEN << >> ELSE @]
    /\ UNCHANGED store

(* flush_pending_blob_deletes: the store may delete some and then fail.    *)
FlushPendingBlobDeletes(log) ==
    \E gone \in SUBSET PendingBlobDeletes(log) :
        /\ StoreMayFail \/ gone = PendingBlobDeletes(log)
        /\ blobs' = blobs \ gone

(* After a success, written or not: the blobs of removed memories go, a    *)
(* failure there being only counted, and mark_persisted clears the log.    *)
Flush(s) ==
    /\ pc[s] = "flush"
    /\ FlushPendingBlobDeletes(ctx[s].log)
    /\ Finish(s)
    /\ DropServed(s, [ctx EXCEPT ![s].log = << >>])
    /\ ops' = [ops EXCEPT ![s] = << >>]
    /\ UNCHANGED <<remote, next_blob>>

(* An RPC of a pull or of a write fails and changes nothing.               *)
RpcFails(s) ==
    /\ StoreMayFail
    /\ pc[s] \in {"pull", "repull"} \/ Writing(s)
    /\ Fail(s, ctx)
    /\ UNCHANGED store

-----------------------------------------------------------------------------
(* The handler is dropped, between two requests or in the middle of one:   *)
(* its context goes to the persistence worker unless that was disabled.    *)
Close(s) ==
    /\ ctx[s] # None
    /\ ~Contains(queue, s)
    /\ Room(s)
    /\ pc[s] = "idle" \/ MayDisconnect
    /\ attempt' = [attempt EXCEPT ![s] = 0]
    /\ IF ctx[s].keep
       THEN /\ queue' = Append(queue, s)
            /\ Goto(s, "queued")
            /\ UNCHANGED <<ctx, ops>>
       ELSE /\ ctx' = [ctx EXCEPT ![s] = None]
            /\ ops' = [ops EXCEPT ![s] = << >>]
            /\ Goto(s, "idle")
            /\ UNCHANGED queue
    /\ UNCHANGED store

(* run_persistence_service: one context at a time, without a first pull.   *)
WorkerTake(s) ==
    /\ pc[s] = "queued"
    /\ Served(s)
    /\ Goto(s, "write")
    /\ attempt' = [attempt EXCEPT ![s] = 1]
    /\ UNCHANGED <<store, ctx, queue, ops>>

(* The server restarts; what it had in memory is gone.                     *)
Crash ==
    /\ MayCrash
    /\ ctx' = [s \in Sessions |-> None]
    /\ pc' = [s \in Sessions |-> "idle"]
    /\ attempt' = [s \in Sessions |-> 0]
    /\ queue' = << >>
    /\ ops' = [s \in Sessions |-> << >>]
    /\ UNCHANGED store

-----------------------------------------------------------------------------
Memories == [id : MemoryIds, name : Names \cup {None}]
Batches == UNION {[1..n -> Memories] : n \in 1..MaxBatch}

Request(s) ==
    \/ KeySync(s)
    \/ \E batch \in Batches : AddMemories(s, batch)
    \/ AddMemoryFails(s)
    \/ \E id \in MemoryIds : DeleteMemoryRequest(s, id)
    \/ ResetMemoryRequest(s)
    \/ Sync(s)
    \/ Close(s)

Progress(s) ==
    \/ Pull(s) \/ NothingToPersist(s) \/ IndexTooLarge(s) \/ Persist(s)
    \/ Conflict(s) \/ Repull(s) \/ GiveUp(s) \/ Flush(s) \/ WorkerTake(s)

Next == (\E s \in Sessions : Request(s) \/ Progress(s) \/ RpcFails(s)) \/ Crash

(* Every RPC returns and tokio polls the request's or the worker's future; *)
(* the users, the failures and the restarts are free.                      *)
Fairness == \A s \in Sessions : WF_vars(Progress(s))

Spec == Init /\ [][Next]_vars /\ Fairness

-----------------------------------------------------------------------------
(* Every memory of the stored index has its blob: a blob is deleted only   *)
(* after an index without it was stored (flush_pending_blob_deletes), and  *)
(* no session's replay brings the memory back.                             *)
NoDangling == \A d \in remote.docs : d.blob \in blobs

(* After a session's index was stored, none of its additions is still in   *)
(* the log that the next rebase replays (mark_persisted: "Without this,    *)
(* stale operations would be replayed on subsequent rebases").             *)
NothingStoredIsPending ==
    \A s \in Sessions :
        ctx[s] # None /\ pc[s] # "flush" =>
            \A i \in 1..Len(ctx[s].log) :
                LET e == ctx[s].log[i]
                IN  e.op = "AddMemory" =>
                      [id |-> e.id, name |-> e.name, blob |-> e.blob] \notin remote.docs

(* A name identifies at most one memory of the stored index, as the        *)
(* comment of import_with_changes says of the handlers ("the handler-level *)
(* semantics where a name identifies a unique memory").  They check every  *)
(* memory of a batch before they add the first.                            *)
NamesUnique ==
    \A d, e \in remote.docs : d.name = e.name /\ d.name # None => d = e

(* The writer's log accounts for a memory that its write removes.          *)
Accounts(log, d) ==
    \E i \in 1..Len(log) :
        \/ log[i].op = "Reset"
        \/ log[i].op \in {"AddMemory", "Remove"} /\ log[i].id = d.id
        \/ log[i].op = "AddMemory" /\ log[i].name = d.name /\ d.name # None

(* No write undoes another session's: a memory leaves the stored index     *)
(* only if the session that writes was asked to remove or to replace it.   *)
NoLostUpdate ==
    [][\A s \in Sessions, d \in remote.docs \ remote'.docs :
           pc[s] = "write" /\ pc'[s] = "flush" => Accounts(ops[s], d)]_vars

(* The mutation i of a history is not undone by a later one.               *)
Stands(h, i) ==
    \A j \in (i + 1)..Len(h) :
        /\ h[j].op # "Reset"
        /\ h[j].id # h[i].id
        /\ h[j].op = "AddMemory" /\ h[i].op = "AddMemory" =>
               h[j].name = None \/ h[j].name # h[i].name

(* When persist_database succeeds, each memory that the session was asked  *)
(* to add since it last did is in the stored index, however often it was   *)
(* rebased.  A removal that the log records is done then, and when the log *)
(* is replayed: import_with_changes does not record it again only if there *)
(* is nothing left to remove, and a memory that another session adds later *)
(* under the same id is a new one.                                         *)
PersistedMeansDurable ==
    [][\A s \in Sessions :
           /\ pc[s] = "write" /\ pc'[s] = "flush" =>
                 \A i \in 1..Len(ops[s]) :
                     LET e == ops[s][i]
                     IN  e.op = "AddMemory" /\ Stands(ops[s], i) =>
                           [id |-> e.id, name |-> e.name, blob |-> e.blob] \in remote'.docs
           /\ /\ pc[s] \in {"pull", "write", "repull"}
              /\ pc'[s] \in {"write", "flush"} \ {pc[s]}
              => \A i \in 1..Len(ctx[s].log) :
                     LET e == ctx[s].log[i]
                     IN  e.op = "Remove" /\ Stands(ctx[s].log, i) =>
                           \A d \in IF pc'[s] = "flush" THEN remote'.docs ELSE ctx'[s].docs :
                               d.id # e.id]_vars

(* Every sync and every context handed to the worker is done with, however *)
(* many conflicts the other sessions cause: each session is idle again and *)
(* again.                                                                  *)
SyncTerminates == \A s \in Sessions : []<>(pc[s] = "idle")
=============================================================================

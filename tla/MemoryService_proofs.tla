------------------------ MODULE MemoryService_proofs ------------------------
(***************************************************************************)
(* Proofs about MemoryService, for any streams, clients and number of      *)
(* requests: the answers of a stream leave in order, data stays under the  *)
(* user's key, and an accepted memory is not lost silently.                *)
(***************************************************************************)
EXTENDS MemoryService, FiniteSetTheorems, SequenceTheorems, TLAPS

Finished == {"ok", "error", "dropped"}
Requests == [stream : Streams, kind : Kinds, key : ClientKeys \cup {Null},
             pc : Finished \cup {"start", "absent", "unwrapped", "loaded"},
             dek : Nat \cup {Null}, under : Nat \cup {Null}]
Loops == [open : BOOLEAN, left : BOOLEAN, in_flight : Seq(Nat), sent : Seq(Nat)]

TypesOK ==
    /\ key_blob \in KeyBlobs \cup {Null}
    /\ metadata \in MetadataBlobs \cup {Null}
    /\ task \in Seq(Requests)
    /\ stream \in [Streams -> Loops]
    /\ context \in [Streams -> Contexts \cup {Null}]

(* A key sync that got past the key has a data key; a registration that    *)
(* wrote one is over.                                                      *)
TasksOK ==
    \A t \in DOMAIN task :
        /\ task[t].pc \in {"unwrapped", "loaded"} => task[t].dek # Null
        /\ task[t].kind = "register" /\ task[t].dek # Null => task[t].pc \in Finished

(* The answers that were sent and the requests in flight of stream s are   *)
(* its requests in order; while its loop runs they are all of them.        *)
Ordered(q) == \A i, j \in 1..Len(q) : i < j => q[i] < q[j]
Own(s, q) == \A i \in 1..Len(q) : q[i] \in DOMAIN task /\ task[q[i]].stream = s
Among(t, q) == \E i \in 1..Len(q) : q[i] = t
Beyond(t, q) == \A i \in 1..Len(q) : q[i] < t
Orderly(s, q, f, open) ==
    /\ Own(s, q) /\ Own(s, f) /\ Ordered(q) /\ Ordered(f)
    /\ \A i \in 1..Len(f) : Beyond(f[i], q)
    /\ \A t \in DOMAIN task : task[t].stream = s =>
          /\ Among(t, q) \/ Beyond(t, q)
          /\ open => Among(t, q) \/ Among(t, f)
StreamOK(s) == Orderly(s, stream[s].sent, stream[s].in_flight, stream[s].open)
OrderOK == \A s \in Streams : StreamOK(s)

(* A data key that some request can have come by: the current one, or one  *)
(* that a registration wrote.                                              *)
Known(dek) == key_blob # Null /\ (dek = key_blob.dek \/ dek \in Registrations)
KeysOK ==
    /\ key_blob = Null => Registrations = {}
    /\ key_blob # Null => \/ key_blob.dek \in Registrations
                         \/ /\ Registrations = {}
                            /\ \A t \in DOMAIN task : ~Has(t, "register", "absent")
    /\ \A t \in DOMAIN task : task[t].kind = "key_sync" /\ task[t].dek # Null => Known(task[t].dek)
    /\ \A s \in Streams : context[s] # Null => Known(context[s].dek)
    /\ metadata # Null => Known(metadata.dek)

(* What is pending in a context was accepted under it.                     *)
PendingOK ==
    \A s \in Streams : context[s] # Null =>
        \A t \in context[s].pending :
            t \in DOMAIN task /\ Has(t, "add", "ok") /\ task[t].under = context[s].by

(* Two registrations wrote a key.                                          *)
Twice == \E t, u \in Registrations : t # u
Kept(t) ==
    \/ metadata # Null /\ t \in metadata.memories
    \/ context[task[t].stream] # Null /\ t \in context[task[t].stream].pending
    \/ t \in unsaved
    \/ \E u \in DOMAIN task : Has(u, "key_sync", "ok") /\ task[u].under = task[t].under
KeptOK == \A t \in DOMAIN task : Has(t, "add", "ok") => Kept(t)

(* The inductive invariant.                                                *)
ServiceInv == TypesOK /\ TasksOK /\ OrderOK /\ KeysOK /\ PendingOK /\ KeptOK

-----------------------------------------------------------------------------
(* No step takes a request back, changes whose it is or what it asks for,  *)
(* or touches one that is over.                                            *)
Evolves ==
    /\ DOMAIN task \subseteq DOMAIN task'
    /\ \A t \in DOMAIN task :
          /\ task'[t].stream = task[t].stream /\ task'[t].kind = task[t].kind
          /\ task[t].pc \in Finished => task'[t] = task[t]

(* Request t, which is not over, becomes r.                                *)
Updates(t, r) ==
    /\ t \in DOMAIN task /\ task[t].pc \notin Finished
    /\ r \in Requests /\ r.stream = task[t].stream /\ r.kind = task[t].kind
    /\ task' = [task EXCEPT ![t] = r]

(* Tasks are numbered from one.                                            *)
LEMMA TaskDomain == TypesOK => DOMAIN task = 1..Len(task) /\ Len(task) \in Nat
  BY DEF TypesOK

(* A task that changes itself leaves the others alone.                     *)
LEMMA UpdateEffect ==
    ASSUME TypesOK, NEW t, NEW r, Updates(t, r)
    PROVE  /\ Evolves /\ DOMAIN task' = DOMAIN task /\ task' \in Seq(Requests)
           /\ task'[t] = r /\ \A u \in DOMAIN task : u # t => task'[u] = task[u]
<1>1. DOMAIN task = 1..Len(task) /\ t \in 1..Len(task) /\ task \in Seq(Requests)
  BY TaskDomain DEF TypesOK, Updates
<1>2. task' \in Seq(Requests) /\ Len(task') = Len(task) /\ DOMAIN task' = DOMAIN task
  BY <1>1, ExceptSeq DEF Updates
<1>3. task'[t] = r /\ \A u \in DOMAIN task : u # t => task'[u] = task[u]
  BY <1>1 DEF Updates
<1>4. Evolves
  BY <1>2, <1>3 DEF Evolves, Updates
<1>. QED  BY <1>2, <1>3, <1>4

(* The order of answers depends on streams only.                           *)
LEMMA OrderUntouched ==
    ASSUME OrderOK, Evolves, DOMAIN task' = DOMAIN task, stream' = stream
    PROVE  OrderOK'
<1>1. \A u \in DOMAIN task : task'[u].stream = task[u].stream
  BY DEF Evolves
<1>2. ASSUME NEW s \in Streams PROVE StreamOK(s)'
  <2>1. StreamOK(s) /\ stream'[s] = stream[s]
    BY DEF OrderOK
  <2>2. Orderly(s, stream[s].sent, stream[s].in_flight, stream[s].open)
    BY <2>1 DEF StreamOK
  <2>3. ASSUME NEW q, Own(s, q) PROVE Own(s, q)'
    BY <1>1, <2>3 DEF Own
  <2>4. Orderly(s, stream[s].sent, stream[s].in_flight, stream[s].open)'
    BY <1>1, <2>1, <2>2, <2>3 DEF Orderly, Ordered, Among, Beyond
  <2>. QED  BY <2>4 DEF StreamOK
<1>. QED  BY <1>2 DEF OrderOK

(* The parts of the invariant that depend on the requests and the order of *)
(* answers, for a step that updates a request and is not a registration's  *)
(* write.                                                                  *)
LEMMA HandlerStep ==
    ASSUME ServiceInv, NEW t, NEW r, Updates(t, r), stream' = stream, key_blob' = key_blob,
           r.kind = "register" => r.dek = task[t].dek,
           r.pc \in {"unwrapped", "loaded"} => r.dek # Null,
           r.kind = "register" /\ r.pc = "absent" => key_blob = Null,
           r.kind = "key_sync" /\ r.dek # Null => Known(r.dek),
           \A s \in Streams : context'[s] # Null => Known(context'[s].dek),
           metadata' # Null => Known(metadata'.dek)
    PROVE  TasksOK' /\ OrderOK' /\ KeysOK' /\ Registrations' = Registrations
<1>1. /\ TypesOK /\ TasksOK /\ OrderOK /\ KeysOK
      /\ r.kind = task[t].kind /\ t \in DOMAIN task /\ task[t].pc \notin Finished
  BY DEF ServiceInv, Updates
<1>2. /\ Evolves /\ DOMAIN task' = DOMAIN task /\ task' \in Seq(Requests)
      /\ task'[t] = r /\ \A u \in DOMAIN task : u # t => task'[u] = task[u]
  BY <1>1, UpdateEffect
<1>3. r.kind = "register" => r.dek = Null
  BY <1>1 DEF TasksOK
<1>4. TasksOK'
  BY <1>1, <1>2, <1>3 DEF TasksOK
<1>5. Registrations' = Registrations
  <2>1. \A u \in DOMAIN task : task'[u].kind = task[u].kind
                             /\ (task[u].kind = "register" => task'[u].dek = task[u].dek)
    BY <1>1, <1>2 DEF Evolves
  <2>. QED  BY <1>2, <2>1 DEF Registrations
<1>6. OrderOK'
  BY <1>1, <1>2, OrderUntouched
<1>7. KeysOK'
  <2>1. key_blob # Null /\ key_blob.dek \notin Registrations =>
           \A u \in DOMAIN task : ~Has(u, "register", "absent")'
    <3>1. SUFFICES ASSUME key_blob # Null, key_blob.dek \notin Registrations,
                          NEW u \in DOMAIN task
                   PROVE  ~(task'[u].kind = "register" /\ task'[u].pc = "absent")
      BY DEF Has
    <3>2. ~(task[u].kind = "register" /\ task[u].pc = "absent")
      BY <1>1, <3>1 DEF KeysOK, Has
    <3>. QED  BY <1>2, <3>1, <3>2
  <2>2. ASSUME NEW u \in DOMAIN task', task'[u].kind = "key_sync", task'[u].dek # Null
        PROVE  Known(task'[u].dek)
    <3>1. CASE u = t
      BY <1>2, <2>2, <3>1
    <3>2. CASE u # t
      <4>1. task'[u] = task[u] /\ u \in DOMAIN task
        BY <1>2, <2>2, <3>2
      <4>. QED  BY <1>1, <2>2, <4>1 DEF KeysOK
    <3>. QED  BY <3>1, <3>2
  <2>3. \A u \in DOMAIN task' :
           task'[u].kind = "key_sync" /\ task'[u].dek # Null => Known(task'[u].dek)
    BY <2>2
  <2>4. /\ key_blob = Null => Registrations = {}
        /\ key_blob # Null /\ key_blob.dek \notin Registrations => Registrations = {}
    BY <1>1 DEF KeysOK
  <2>5. /\ key_blob' = key_blob /\ Registrations' = Registrations /\ DOMAIN task' = DOMAIN task
        /\ \A s \in Streams : context'[s] # Null => Known(context'[s].dek)
        /\ metadata' # Null => Known(metadata'.dek)
    BY <1>2, <1>5
  <2>. QED  BY <2>1, <2>3, <2>4, <2>5 DEF KeysOK, Known, Has
<1>. QED  BY <1>4, <1>5, <1>6, <1>7

(* An accepted memory that is kept stays kept if the store keeps it and if *)
(* a context that loses it does so for one of the accepted reasons.        *)
LEMMA KeptStays ==
    ASSUME Evolves, NEW t \in DOMAIN task, Has(t, "add", "ok"), Kept(t),
           unsaved \subseteq unsaved',
           metadata # Null /\ t \in metadata.memories =>
               metadata' # Null /\ t \in metadata'.memories,
           context[task[t].stream] # Null /\ t \in context[task[t].stream].pending => Kept(t)'
    PROVE  Kept(t)' /\ Has(t, "add", "ok")'
<1>1. task'[t] = task[t] /\ t \in DOMAIN task'
  BY DEF Evolves, Finished, Has
<1>2. CASE metadata # Null /\ t \in metadata.memories
  BY <1>1, <1>2 DEF Kept, Has
<1>3. CASE context[task[t].stream] # Null /\ t \in context[task[t].stream].pending
  BY <1>1, <1>3 DEF Has
<1>4. CASE \E u \in DOMAIN task : Has(u, "key_sync", "ok") /\ task[u].under = task[t].under
  <2>1. PICK u \in DOMAIN task : Has(u, "key_sync", "ok") /\ task[u].under = task[t].under
    BY <1>4
  <2>2. u \in DOMAIN task' /\ task'[u] = task[u]
    BY <2>1 DEF Evolves, Finished, Has
  <2>. QED  BY <1>1, <2>1, <2>2 DEF Kept, Has
<1>5. CASE t \in unsaved
  BY <1>1, <1>5 DEF Kept, Has
<1>. QED  BY <1>2, <1>3, <1>4, <1>5 DEF Kept

(* A handler that neither adds a memory nor touches contexts or the store. *)
LEMMA MemoriesUntouched ==
    ASSUME ServiceInv, NEW t, NEW r, Updates(t, r), unsaved' = unsaved,
           metadata' = metadata, context' = context, ~(r.kind = "add" /\ r.pc = "ok")
    PROVE  PendingOK' /\ KeptOK'
<1>1. TypesOK /\ PendingOK /\ KeptOK
  BY DEF ServiceInv
<1>2. /\ Evolves /\ DOMAIN task' = DOMAIN task /\ task' \in Seq(Requests)
      /\ task'[t] = r /\ \A u \in DOMAIN task : u # t => task'[u] = task[u]
  BY <1>1, UpdateEffect
<1>3. \A u \in DOMAIN task : Has(u, "add", "ok") => task'[u] = task[u]
  BY <1>2 DEF Evolves, Finished, Has
<1>4. PendingOK'
  BY <1>1, <1>2, <1>3 DEF PendingOK, Has
<1>5. KeptOK'
  <2>1. ASSUME NEW u \in DOMAIN task', Has(u, "add", "ok")' PROVE Kept(u)'
    <3>1. u \in DOMAIN task /\ Has(u, "add", "ok")
      BY <1>2, <2>1 DEF Has
    <3>2. Kept(u)
      BY <1>1, <3>1 DEF KeptOK
    <3>3. task'[u] = task[u]
      BY <1>3, <3>1
    <3>4. context[task[u].stream] # Null /\ u \in context[task[u].stream].pending => Kept(u)'
      BY <3>3 DEF Kept
    <3>. QED  BY <1>2, <3>1, <3>2, <3>4, KeptStays
  <2>. QED  BY <2>1 DEF KeptOK
<1>. QED  BY <1>4, <1>5

-----------------------------------------------------------------------------
(* Initially nothing was received, and a key of an earlier registration is *)
(* one that no request made.                                               *)
LEMMA ServiceInitOK == ServiceInit => ServiceInv
<1>. SUFFICES ASSUME ServiceInit PROVE ServiceInv
  OBVIOUS
<1>1. /\ task = << >> /\ metadata = Null /\ context = [s \in Streams |-> Null]
      /\ stream = [s \in Streams |-> [open |-> TRUE, left |-> FALSE,
                                      in_flight |-> << >>, sent |-> << >>]]
  BY DEF ServiceInit
<1>2. key_blob \in KeyBlobs \cup {Null}
  BY DEF ServiceInit, KeyBlobs
<1>3. DOMAIN task = {} /\ Registrations = {}
  <2>1. DOMAIN task = {}
    BY <1>1
  <2>. QED  BY <2>1 DEF Registrations
<1>4. TypesOK
  <2>1. [open |-> TRUE, left |-> FALSE, in_flight |-> << >>, sent |-> << >>] \in Loops
    BY DEF Loops
  <2>. QED  BY <1>1, <1>2, <2>1 DEF TypesOK
<1>5. TasksOK /\ KeysOK /\ PendingOK /\ KeptOK
  BY <1>1, <1>3 DEF TasksOK, KeysOK, PendingOK, KeptOK
<1>6. OrderOK
  <2>1. ASSUME NEW s \in Streams PROVE StreamOK(s)
    <3>1. stream[s].sent = << >> /\ stream[s].in_flight = << >>
      BY <1>1
    <3>. QED  BY <1>3, <3>1 DEF StreamOK, Orderly, Own, Ordered
  <2>. QED  BY <2>1 DEF OrderOK
<1>. QED  BY <1>4, <1>5, <1>6 DEF ServiceInv

(* A handler's step that changes only its request.                         *)
LEMMA RequestOnly ==
    ASSUME ServiceInv, NEW t, NEW r, Updates(t, r),
           UNCHANGED <<key_blob, metadata, stream, context, unsaved>>,
           r.kind = "register" => r.dek = task[t].dek,
           r.pc \in {"unwrapped", "loaded"} => r.dek # Null,
           r.kind = "register" /\ r.pc = "absent" => key_blob = Null,
           r.kind = "key_sync" /\ r.dek # Null => Known(r.dek),
           ~(r.kind = "add" /\ r.pc = "ok")
    PROVE  ServiceInv'
<1>1. /\ \A s \in Streams : context'[s] # Null => Known(context'[s].dek)
      /\ metadata' # Null => Known(metadata'.dek)
      /\ TypesOK /\ task' \in Seq(Requests)
  BY UpdateEffect DEF ServiceInv, KeysOK
<1>2. TasksOK' /\ OrderOK' /\ KeysOK' /\ Registrations' = Registrations
  BY <1>1, HandlerStep
<1>3. PendingOK' /\ KeptOK'
  BY <1>2, MemoriesUntouched
<1>4. TypesOK'
  BY <1>1 DEF TypesOK
<1>. QED  BY <1>2, <1>3, <1>4 DEF ServiceInv

(* The parts of a task.                                                    *)
LEMMA RequestFields ==
    ASSUME TypesOK, NEW t \in DOMAIN task
    PROVE  /\ task[t] \in Requests /\ task[t].stream \in Streams
           /\ DOMAIN task[t] = {"stream", "kind", "key", "pc", "dek", "under"}
<1>1. task[t] \in Requests
  BY TaskDomain DEF TypesOK
<1>. QED  BY <1>1 DEF Requests

(* RegisterCheck, KeySyncUnwrap, KeySyncLoad and StoreFails.               *)
LEMMA RegisterCheckOK ==
    ASSUME ServiceInv, NEW t \in DOMAIN task, RegisterCheck(t) PROVE ServiceInv'
<1>. DEFINE r == [task[t] EXCEPT !.pc = IF key_blob = Null THEN "absent" ELSE "ok"]
<1>1. task[t] \in Requests /\ task[t].kind = "register" /\ task[t].pc = "start"
  BY RequestFields DEF ServiceInv, RegisterCheck, Has
<1>2. /\ r \in Requests /\ r.stream = task[t].stream /\ r.kind = "register"
      /\ r.dek = task[t].dek /\ r.pc = IF key_blob = Null THEN "absent" ELSE "ok"
  BY <1>1 DEF Requests, Finished
<1>3. task' = [task EXCEPT ![t] = r]
  BY DEF RegisterCheck, MoveTo
<1>. HIDE DEF r
<1>4. Updates(t, r)
  BY <1>1, <1>2, <1>3 DEF Updates, Finished
<1>. QED  BY <1>2, <1>4, RequestOnly DEF RegisterCheck

(* A key sync whose key cannot be unwrapped, or can.                       *)
LEMMA KeySyncUnwrapOK ==
    ASSUME ServiceInv, NEW t \in DOMAIN task, KeySyncUnwrap(t) PROVE ServiceInv'
<1>. DEFINE ok == [task[t] EXCEPT !.pc = "ok"]
            found == [task[t] EXCEPT !.pc = "unwrapped", !.dek = key_blob.dek]
            Absent == key_blob = Null \/ key_blob.key # task[t].key
<1>1. /\ task[t] \in Requests /\ task[t].kind = "key_sync" /\ task[t].pc = "start"
      /\ TypesOK /\ KeysOK
  BY RequestFields DEF ServiceInv, KeySyncUnwrap, Has
<1>2. CASE Absent
  <2>1. /\ ok \in Requests /\ ok.stream = task[t].stream /\ ok.kind = "key_sync"
        /\ ok.dek = task[t].dek /\ ok.pc = "ok"
    BY <1>1 DEF Requests, Finished
  <2>2. task' = [task EXCEPT ![t] = ok]
    BY <1>2 DEF KeySyncUnwrap
  <2>. HIDE DEF ok
  <2>3. Updates(t, ok)
    BY <1>1, <2>1, <2>2 DEF Updates, Finished
  <2>4. ok.dek # Null => Known(ok.dek)
    BY <1>1, <2>1 DEF KeysOK
  <2>. QED  BY <2>1, <2>3, <2>4, RequestOnly DEF KeySyncUnwrap
<1>3. CASE ~Absent
  <2>1. key_blob \in KeyBlobs /\ key_blob # Null /\ key_blob.dek \in Nat /\ key_blob.dek # Null
    BY <1>1, <1>3, NullAssumption DEF TypesOK, KeyBlobs
  <2>2. /\ found \in Requests /\ found.stream = task[t].stream /\ found.kind = "key_sync"
        /\ found.dek = key_blob.dek /\ found.pc = "unwrapped"
    BY <1>1, <2>1 DEF Requests, Finished
  <2>3. task' = [task EXCEPT ![t] = found]
    BY <1>3 DEF KeySyncUnwrap
  <2>. HIDE DEF found
  <2>4. Updates(t, found)
    BY <1>1, <2>2, <2>3 DEF Updates, Finished
  <2>5. Known(found.dek)
    BY <2>1, <2>2 DEF Known
  <2>. QED  BY <2>1, <2>2, <2>4, <2>5, RequestOnly DEF KeySyncUnwrap
<1>. QED  BY <1>2, <1>3

(* A key sync that finds the database in the store, or none.               *)
LEMMA KeySyncLoadOK ==
    ASSUME ServiceInv, NEW t \in DOMAIN task, KeySyncLoad(t) PROVE ServiceInv'
<1>. DEFINE failed == [task[t] EXCEPT !.pc = "error", !.dek = Null]
            loaded == [task[t] EXCEPT !.pc = "loaded"]
            Wrong == metadata # Null /\ metadata.dek # task[t].dek
<1>1. /\ task[t] \in Requests /\ task[t].kind = "key_sync" /\ task[t].pc = "unwrapped"
      /\ task[t].dek # Null /\ Known(task[t].dek)
  BY RequestFields DEF ServiceInv, KeySyncLoad, Has, TasksOK, KeysOK
<1>2. CASE Wrong
  <2>1. /\ failed \in Requests /\ failed.stream = task[t].stream /\ failed.kind = "key_sync"
        /\ failed.dek = Null /\ failed.pc = "error"
    BY <1>1 DEF Requests, Finished
  <2>2. task' = [task EXCEPT ![t] = failed]
    BY <1>2 DEF KeySyncLoad
  <2>. HIDE DEF failed
  <2>3. Updates(t, failed)
    BY <1>1, <2>1, <2>2 DEF Updates, Finished
  <2>. QED  BY <2>1, <2>3, RequestOnly DEF KeySyncLoad
<1>3. CASE ~Wrong
  <2>1. /\ loaded \in Requests /\ loaded.stream = task[t].stream /\ loaded.kind = "key_sync"
        /\ loaded.dek = task[t].dek /\ loaded.pc = "loaded"
    BY <1>1 DEF Requests, Finished
  <2>2. task' = [task EXCEPT ![t] = loaded]
    BY <1>3 DEF KeySyncLoad
  <2>. HIDE DEF loaded
  <2>3. Updates(t, loaded)
    BY <1>1, <2>1, <2>2 DEF Updates, Finished
  <2>. QED  BY <1>1, <2>1, <2>3, RequestOnly DEF KeySyncLoad
<1>. QED  BY <1>2, <1>3

(* A call of the store that fails.                                         *)
LEMMA StoreFailsOK ==
    ASSUME ServiceInv, NEW t \in DOMAIN task, StoreFails(t) PROVE ServiceInv'
<1>. DEFINE r == [task[t] EXCEPT !.pc = "error", !.dek = Null]
<1>1. /\ task[t] \in Requests /\ task[t].kind \in {"register", "key_sync"}
      /\ task[t].pc \in {"start", "absent", "unwrapped"}
  BY RequestFields DEF ServiceInv, StoreFails
<1>2. /\ r \in Requests /\ r.stream = task[t].stream /\ r.kind = task[t].kind
      /\ r.dek = Null /\ r.pc = "error"
  BY <1>1 DEF Requests, Finished
<1>3. task' = [task EXCEPT ![t] = r]
  BY DEF StoreFails
<1>. HIDE DEF r
<1>4. Updates(t, r)
  BY <1>1, <1>2, <1>3 DEF Updates, Finished
<1>5. r.kind = "register" => task[t].dek = Null
  BY <1>1, <1>2 DEF ServiceInv, TasksOK, Finished
<1>. QED  BY <1>1, <1>2, <1>4, <1>5, RequestOnly DEF StoreFails

-----------------------------------------------------------------------------
(* Two data keys in circulation are the same unless two registrations      *)
(* wrote one.                                                              *)
LEMMA KnownUnique ==
    ASSUME KeysOK, NEW a, NEW b, Known(a), Known(b), a # b PROVE Twice
  BY DEF KeysOK, Known, Twice

(* The write of a registration.                                            *)
LEMMA RegisterWriteOK ==
    ASSUME ServiceInv, NEW t \in DOMAIN task, RegisterWrite(t) PROVE ServiceInv'
<1>1. /\ TypesOK /\ TasksOK /\ OrderOK /\ KeysOK
      /\ task[t] \in Requests /\ task[t].kind = "register" /\ task[t].pc = "absent"
  BY RequestFields DEF ServiceInv, RegisterWrite, Has
<1>2. PICK pc \in {"ok", "error"} : task' = [task EXCEPT ![t].pc = pc, ![t].dek = t]
  BY DEF RegisterWrite
<1>3. t \in Nat /\ t # Null
  BY <1>1, TaskDomain, NullAssumption
<1>. DEFINE r == [task[t] EXCEPT !.pc = pc, !.dek = t]
<1>4. /\ r \in Requests /\ r.stream = task[t].stream /\ r.kind = "register"
      /\ r.dek = t /\ r.pc = pc
  BY <1>1, <1>2, <1>3 DEF Requests, Finished
<1>5. task' = [task EXCEPT ![t] = r]
  BY <1>2
<1>. HIDE DEF r
<1>6. Updates(t, r)
  BY <1>1, <1>4, <1>5 DEF Updates, Finished
<1>7. /\ Evolves /\ DOMAIN task' = DOMAIN task /\ task' \in Seq(Requests)
      /\ task'[t] = r /\ \A u \in DOMAIN task : u # t => task'[u] = task[u]
  BY <1>1, <1>6, UpdateEffect
<1>8. /\ UNCHANGED <<metadata, stream, context, unsaved>>
      /\ key_blob' = [key |-> task[t].key, dek |-> t]
  BY DEF RegisterWrite
<1>9. key_blob' \in KeyBlobs /\ key_blob' # Null /\ key_blob'.dek = t
  <2>1. task[t].key \in ClientKeys \cup {Null}
    BY <1>1 DEF Requests
  <2>. QED  BY <1>3, <1>8, <2>1, NullAssumption DEF KeyBlobs
<1>10. TypesOK'
  BY <1>1, <1>7, <1>8, <1>9 DEF TypesOK
<1>11. TasksOK'
  BY <1>1, <1>2, <1>4, <1>7 DEF TasksOK, Finished
<1>12. OrderOK'
  BY <1>1, <1>7, <1>8, OrderUntouched
<1>13. t \in Registrations' /\ Registrations \subseteq Registrations'
  <2>1. t \in Registrations'
    BY <1>3, <1>4, <1>7 DEF Registrations
  <2>2. ASSUME NEW u \in Registrations, u # t PROVE u \in Registrations'
    BY <1>7, <2>2 DEF Registrations
  <2>. QED  BY <2>1, <2>2
<1>14. PendingOK' /\ KeptOK'
  BY <1>4, <1>6, <1>8, MemoriesUntouched
<1>15. KeysOK'
  <2>1. key_blob # Null => key_blob.dek \in Registrations
    BY <1>1 DEF KeysOK, Has
  <2>2. \A d : Known(d) => d \in Registrations'
    BY <1>13, <2>1 DEF Known
  <2>3. \A u \in DOMAIN task' : task'[u].kind = "key_sync" /\ task'[u].dek # Null
                              => task'[u].dek \in Registrations'
    <3>1. ASSUME NEW u \in DOMAIN task', task'[u].kind = "key_sync", task'[u].dek # Null
          PROVE  task'[u].dek \in Registrations'
      <4>1. u # t /\ u \in DOMAIN task /\ task'[u] = task[u]
        BY <1>4, <1>7, <3>1
      <4>. QED  BY <1>1, <2>2, <3>1, <4>1 DEF KeysOK
    <3>. QED  BY <3>1
  <2>4. /\ \A s \in Streams : context'[s] # Null => context'[s].dek \in Registrations'
        /\ metadata' # Null => metadata'.dek \in Registrations'
    BY <1>1, <1>8, <2>2 DEF KeysOK
  <2>. QED  BY <1>9, <1>13, <2>3, <2>4 DEF KeysOK, Known
<1>. QED  BY <1>10, <1>11, <1>12, <1>14, <1>15 DEF ServiceInv

(* A key sync replaces the context and is the reason for what it loses.    *)
LEMMA KeySyncInstallOK ==
    ASSUME ServiceInv, NEW t \in DOMAIN task, KeySyncInstall(t) PROVE ServiceInv'
<1>. DEFINE s == task[t].stream
            under == IF context[s] = Null THEN Null ELSE context[s].by
            r == [task[t] EXCEPT !.pc = "ok", !.under = under]
            c == [by |-> t, dek |-> task[t].dek, pending |-> {}]
<1>1. /\ TypesOK /\ TasksOK /\ KeysOK /\ PendingOK /\ KeptOK /\ s \in Streams
      /\ task[t] \in Requests /\ task[t].kind = "key_sync" /\ task[t].pc = "loaded"
  BY RequestFields DEF ServiceInv, KeySyncInstall, Has
<1>2. under \in Nat \cup {Null}
  BY <1>1 DEF TypesOK, Contexts
<1>3. /\ task' = [task EXCEPT ![t] = r] /\ context' = [context EXCEPT ![s] = c]
      /\ UNCHANGED <<key_blob, metadata, stream, unsaved>>
  BY DEF KeySyncInstall
<1>4. task[t].dek # Null /\ Known(task[t].dek) /\ task[t].dek \in Nat
  BY <1>1 DEF TasksOK, KeysOK, Requests
<1>5. t \in Nat
  BY <1>1, TaskDomain
<1>6. c \in Contexts /\ c # Null /\ c.dek = task[t].dek /\ c.pending = {}
  BY <1>4, <1>5, NullAssumption DEF Contexts
<1>. HIDE DEF under
<1>7. /\ r \in Requests /\ r.stream = s /\ r.kind = "key_sync"
      /\ r.dek = task[t].dek /\ r.pc = "ok" /\ r.under = under
  BY <1>1, <1>2 DEF Requests, Finished
<1>. HIDE DEF r, c
<1>8. Updates(t, r)
  BY <1>1, <1>3, <1>7 DEF Updates, Finished
<1>9. /\ Evolves /\ DOMAIN task' = DOMAIN task /\ task' \in Seq(Requests)
      /\ task'[t] = r /\ \A u \in DOMAIN task : u # t => task'[u] = task[u]
  BY <1>1, <1>8, UpdateEffect
<1>10. context'[s] = c /\ \A p \in Streams : p # s => context'[p] = context[p]
  BY <1>1, <1>3 DEF TypesOK
<1>11. TypesOK'
  BY <1>1, <1>3, <1>6, <1>9 DEF TypesOK
<1>12. /\ \A p \in Streams : context'[p] # Null => Known(context'[p].dek)
       /\ metadata' # Null => Known(metadata'.dek)
  BY <1>1, <1>3, <1>4, <1>6, <1>10 DEF KeysOK
<1>13. TasksOK' /\ OrderOK' /\ KeysOK' /\ Registrations' = Registrations
  BY <1>3, <1>4, <1>7, <1>8, <1>12, HandlerStep
<1>14. \A u \in DOMAIN task : Has(u, "add", "ok") => task'[u] = task[u]
  BY <1>9 DEF Evolves, Finished, Has
<1>15. PendingOK'
  <2>1. ASSUME NEW p \in Streams, context'[p] # Null, NEW u \in context'[p].pending
        PROVE  u \in DOMAIN task' /\ Has(u, "add", "ok")' /\ task'[u].under = context'[p].by
    <3>1. p # s /\ context'[p] = context[p]
      BY <1>6, <1>10, <2>1
    <3>2. u \in DOMAIN task /\ Has(u, "add", "ok") /\ task[u].under = context[p].by
      BY <1>1, <2>1, <3>1 DEF PendingOK
    <3>. QED  BY <1>9, <1>14, <3>1, <3>2 DEF Has
  <2>. QED  BY <2>1 DEF PendingOK
<1>16. KeptOK'
  <2>1. ASSUME NEW u \in DOMAIN task', Has(u, "add", "ok")' PROVE Kept(u)'
    <3>1. u \in DOMAIN task /\ Has(u, "add", "ok")
      BY <1>7, <1>9, <2>1 DEF Has
    <3>2. Kept(u) /\ task'[u] = task[u] /\ task[u].stream \in Streams
      BY <1>1, <1>14, <3>1, RequestFields DEF KeptOK
    <3>3. ASSUME context[task[u].stream] # Null, u \in context[task[u].stream].pending
          PROVE  Kept(u)'
      <4>1. CASE task[u].stream = s
        <5>1. task[u].under = context[s].by /\ under = context[s].by
          BY <1>1, <3>2, <3>3, <4>1 DEF PendingOK, under
        <5>2. t \in DOMAIN task' /\ Has(t, "key_sync", "ok")' /\ task'[t].under = task'[u].under
          BY <1>7, <1>9, <3>2, <5>1 DEF Has
        <5>. QED  BY <5>2 DEF Kept
      <4>2. CASE task[u].stream # s
        <5>1. context'[task[u].stream] = context[task[u].stream]
          BY <1>10, <3>2, <4>2
        <5>. QED  BY <3>2, <3>3, <5>1 DEF Kept
      <4>. QED  BY <4>1, <4>2
    <3>. QED  BY <1>3, <1>9, <1>13, <3>1, <3>2, <3>3, KeptStays
  <2>. QED  BY <2>1 DEF KeptOK
<1>. QED  BY <1>11, <1>13, <1>15, <1>16 DEF ServiceInv

(* An accepted memory is pending in the context that accepted it.          *)
LEMMA AddOK ==
    ASSUME ServiceInv, NEW t \in DOMAIN task, Add(t) PROVE ServiceInv'
<1>. DEFINE s == task[t].stream
            failed == [task[t] EXCEPT !.pc = "error"]
            r == [task[t] EXCEPT !.pc = "ok", !.under = context[s].by]
            c == [context[s] EXCEPT !.pending = @ \cup {t}]
<1>1. /\ TypesOK /\ TasksOK /\ KeysOK /\ PendingOK /\ KeptOK /\ s \in Streams
      /\ task[t] \in Requests /\ task[t].kind = "add" /\ task[t].pc = "start" /\ t \in Nat
  BY RequestFields, TaskDomain DEF ServiceInv, Add, Has
<1>2. CASE context[s] = Null
  <2>1. /\ failed \in Requests /\ failed.stream = s /\ failed.kind = "add"
        /\ failed.dek = task[t].dek /\ failed.pc = "error"
    BY <1>1 DEF Requests, Finished
  <2>2. /\ task' = [task EXCEPT ![t] = failed]
        /\ UNCHANGED <<key_blob, metadata, stream, context, unsaved>>
    BY <1>2 DEF Add, MoveTo
  <2>. HIDE DEF failed
  <2>3. Updates(t, failed)
    BY <1>1, <2>1, <2>2 DEF Updates, Finished
  <2>. QED  BY <2>1, <2>2, <2>3, RequestOnly
<1>3. CASE context[s] # Null
  <2>1. context[s] \in Contexts
    BY <1>1, <1>3 DEF TypesOK
  <2>2. /\ c \in Contexts /\ c # Null /\ c.by = context[s].by /\ c.dek = context[s].dek
        /\ c.pending = context[s].pending \cup {t}
    BY <1>1, <2>1, NullAssumption DEF Contexts
  <2>3. /\ r \in Requests /\ r.stream = s /\ r.kind = "add"
        /\ r.dek = task[t].dek /\ r.pc = "ok" /\ r.under = context[s].by
    BY <1>1, <2>1 DEF Requests, Finished, Contexts
  <2>4. /\ task' = [task EXCEPT ![t] = r] /\ context' = [context EXCEPT ![s] = c]
        /\ UNCHANGED <<key_blob, metadata, stream, unsaved>>
    BY <1>3 DEF Add
  <2>. HIDE DEF r, c
  <2>5. Updates(t, r)
    BY <1>1, <2>3, <2>4 DEF Updates, Finished
  <2>6. /\ Evolves /\ DOMAIN task' = DOMAIN task /\ task' \in Seq(Requests)
        /\ task'[t] = r /\ \A u \in DOMAIN task : u # t => task'[u] = task[u]
    BY <1>1, <2>5, UpdateEffect
  <2>7. context'[s] = c /\ \A p \in Streams : p # s => context'[p] = context[p]
    BY <1>1, <2>4 DEF TypesOK
  <2>8. TypesOK'
    BY <1>1, <2>2, <2>4, <2>6 DEF TypesOK
  <2>9. /\ \A p \in Streams : context'[p] # Null => Known(context'[p].dek)
        /\ metadata' # Null => Known(metadata'.dek)
    BY <1>1, <1>3, <2>2, <2>4, <2>7 DEF KeysOK
  <2>10. TasksOK' /\ OrderOK' /\ KeysOK' /\ Registrations' = Registrations
    BY <2>3, <2>4, <2>5, <2>9, HandlerStep
  <2>11. \A u \in DOMAIN task : Has(u, "add", "ok") => task'[u] = task[u] /\ u # t
    BY <1>1, <2>6 DEF Evolves, Finished, Has
  <2>12. PendingOK'
    <3>1. ASSUME NEW p \in Streams, context'[p] # Null, NEW u \in context'[p].pending
          PROVE  u \in DOMAIN task' /\ Has(u, "add", "ok")' /\ task'[u].under = context'[p].by
      <4>1. CASE p = s /\ u = t
        BY <2>2, <2>3, <2>6, <2>7, <4>1 DEF Has
      <4>2. CASE ~(p = s /\ u = t)
        <5>1. context[p] # Null /\ u \in context[p].pending /\ context'[p].by = context[p].by
          BY <1>3, <2>2, <2>7, <3>1, <4>2
        <5>2. u \in DOMAIN task /\ Has(u, "add", "ok") /\ task[u].under = context[p].by
          BY <1>1, <5>1 DEF PendingOK
        <5>. QED  BY <2>6, <2>11, <5>1, <5>2 DEF Has
      <4>. QED  BY <4>1, <4>2
    <3>. QED  BY <3>1 DEF PendingOK
  <2>13. KeptOK'
    <3>1. ASSUME NEW u \in DOMAIN task', Has(u, "add", "ok")' PROVE Kept(u)'
      <4>1. CASE u = t
        <5>1. task'[u].stream = s /\ context'[s] # Null /\ u \in context'[s].pending
          BY <2>2, <2>3, <2>6, <2>7, <4>1
        <5>. QED  BY <5>1 DEF Kept
      <4>2. CASE u # t
        <5>1. u \in DOMAIN task /\ task'[u] = task[u] /\ Has(u, "add", "ok")
          BY <2>6, <3>1, <4>2 DEF Has
        <5>2. Kept(u) /\ task[u].stream \in Streams
          BY <1>1, <5>1, RequestFields DEF KeptOK
        <5>3. ASSUME context[task[u].stream] # Null, u \in context[task[u].stream].pending
              PROVE  Kept(u)'
          <6>1. context'[task[u].stream] # Null /\ u \in context'[task[u].stream].pending
            BY <2>2, <2>7, <5>2, <5>3
          <6>. QED  BY <5>1, <6>1 DEF Kept
        <5>. QED  BY <2>4, <2>6, <2>10, <5>1, <5>2, <5>3, KeptStays
      <4>. QED  BY <4>1, <4>2
    <3>. QED  BY <3>1 DEF KeptOK
  <2>. QED  BY <2>8, <2>10, <2>12, <2>13 DEF ServiceInv
<1>. QED  BY <1>2, <1>3

(* What persist_database leaves in the store.                              *)
LEMMA StoredKeeps ==
    ASSUME NEW c \in Contexts, TypesOK, KeysOK, Known(c.dek)
    PROVE  LET m == Stored(c)
           IN  /\ m \in MetadataBlobs \cup {Null} /\ (m # Null => Known(m.dek))
               /\ metadata # Null => m # Null /\ metadata.memories \subseteq m.memories
               /\ c.pending # {} => m # Null /\ c.pending \subseteq m.memories
<1>1. metadata \in MetadataBlobs \cup {Null} /\ (metadata # Null => Known(metadata.dek))
  BY DEF TypesOK, KeysOK
<1>2. CASE c.pending = {}
  <2>1. Stored(c) = metadata
    BY <1>2 DEF Stored
  <2>. QED  BY <1>1, <1>2, <2>1
<1>3. CASE c.pending # {}
  <2>. DEFINE old == IF metadata = Null THEN {} ELSE metadata.memories
  <2>1. old \subseteq Nat /\ (metadata # Null => old = metadata.memories)
    BY <1>1 DEF MetadataBlobs
  <2>2. Stored(c) = [dek |-> c.dek, memories |-> c.pending \cup old]
    BY <1>3 DEF Stored
  <2>. HIDE DEF old
  <2>3. Stored(c) \in MetadataBlobs /\ Stored(c) # Null
    <3>1. c.dek \in Nat /\ c.pending \cup old \in SUBSET Nat
      BY <2>1 DEF Contexts
    <3>2. Stored(c) \in MetadataBlobs
      BY <2>2, <3>1 DEF MetadataBlobs
    <3>. QED  BY <3>2, NullAssumption
  <2>4. Stored(c).dek = c.dek /\ Stored(c).memories = c.pending \cup old
    BY <2>2
  <2>. QED  BY <2>1, <2>3, <2>4
<1>. QED  BY <1>2, <1>3

(* It grows also when the caller is told of a failure.                     *)
LEMMA FailureKeeps ==
    ASSUME NEW c \in Contexts, TypesOK, KeysOK, Known(c.dek), PersistFails(c)
    PROVE  /\ metadata' \in MetadataBlobs \cup {Null} /\ (metadata' # Null => Known(metadata'.dek))
           /\ metadata # Null => metadata' # Null /\ metadata.memories \subseteq metadata'.memories
<1>1. CASE metadata' = metadata
  BY <1>1 DEF TypesOK, KeysOK
<1>2. CASE metadata' = Stored(c)
  BY <1>2, StoredKeeps
<1>. QED  BY <1>1, <1>2 DEF PersistFails

(* A sync stores what is pending, or fails and leaves it pending.          *)
LEMMA SyncOK ==
    ASSUME ServiceInv, NEW t \in DOMAIN task, SyncDatabase(t) PROVE ServiceInv'
<1>. DEFINE s == task[t].stream
            failed == [task[t] EXCEPT !.pc = "error"]
            pushed == [context[s] EXCEPT !.pending = {}]
<1>1. /\ TypesOK /\ TasksOK /\ KeysOK /\ PendingOK /\ KeptOK /\ s \in Streams
      /\ task[t] \in Requests /\ task[t].kind = "sync" /\ task[t].pc = "start"
  BY RequestFields DEF ServiceInv, SyncDatabase, Has
<1>2. CASE context[s] = Null
  <2>1. /\ failed \in Requests /\ failed.stream = s /\ failed.kind = "sync"
        /\ failed.dek = task[t].dek /\ failed.pc = "error"
    BY <1>1 DEF Requests, Finished
  <2>2. /\ task' = [task EXCEPT ![t] = failed]
        /\ UNCHANGED <<key_blob, metadata, stream, context, unsaved>>
    BY <1>2 DEF SyncDatabase, MoveTo
  <2>. HIDE DEF failed
  <2>3. Updates(t, failed)
    BY <1>1, <2>1, <2>2 DEF Updates, Finished
  <2>. QED  BY <2>1, <2>2, <2>3, RequestOnly
<1>3. CASE context[s] # Null
  <2>1. context[s] \in Contexts /\ context[s] # Null /\ Known(context[s].dek)
    BY <1>1, <1>3 DEF TypesOK, KeysOK
  <2>2. PICK pc \in {"ok", "error"}, c \in {context[s], pushed} :
           /\ MoveTo(t, pc) /\ context' = [context EXCEPT ![s] = c]
           /\ UNCHANGED <<key_blob, stream, unsaved>>
           /\ \/ PersistFails(context[s]) /\ c = context[s]
              \/ metadata' = Stored(context[s])
    <3>1. context = [context EXCEPT ![s] = context[s]]
      BY <1>1 DEF TypesOK
    <3>. QED  BY <1>3, <3>1 DEF SyncDatabase
  <2>3. /\ c \in Contexts /\ c # Null /\ c.by = context[s].by /\ c.dek = context[s].dek
        /\ c.pending = {} \/ c = context[s]
    BY <2>1, NullAssumption DEF Contexts
  <2>. DEFINE r == [task[t] EXCEPT !.pc = pc]
  <2>4. /\ r \in Requests /\ r.stream = s /\ r.kind = "sync" /\ r.dek = task[t].dek /\ r.pc = pc
    BY <1>1 DEF Requests, Finished
  <2>5. task' = [task EXCEPT ![t] = r]
    BY <2>2 DEF MoveTo
  <2>. HIDE DEF r
  <2>6. /\ metadata' \in MetadataBlobs \cup {Null} /\ (metadata' # Null => Known(metadata'.dek))
        /\ metadata # Null => metadata' # Null /\ metadata.memories \subseteq metadata'.memories
        /\ c = context[s] \/ (context[s].pending # {} =>
              metadata' # Null /\ context[s].pending \subseteq metadata'.memories)
    BY <1>1, <2>1, <2>2, StoredKeeps, FailureKeeps
  <2>7. Updates(t, r)
    BY <1>1, <2>4, <2>5 DEF Updates, Finished
  <2>8. /\ Evolves /\ DOMAIN task' = DOMAIN task /\ task' \in Seq(Requests)
        /\ task'[t] = r /\ \A u \in DOMAIN task : u # t => task'[u] = task[u]
    BY <1>1, <2>7, UpdateEffect
  <2>9. context'[s] = c /\ \A p \in Streams : p # s => context'[p] = context[p]
    BY <1>1, <2>2 DEF TypesOK
  <2>10. TypesOK'
    BY <1>1, <2>2, <2>3, <2>6, <2>8 DEF TypesOK
  <2>11. \A p \in Streams : context'[p] # Null => Known(context'[p].dek)
    BY <1>1, <2>1, <2>3, <2>9 DEF KeysOK
  <2>12. TasksOK' /\ OrderOK' /\ KeysOK' /\ Registrations' = Registrations
    BY <2>2, <2>4, <2>6, <2>7, <2>11, HandlerStep
  <2>13. \A u \in DOMAIN task : Has(u, "add", "ok") => task'[u] = task[u]
    BY <2>8 DEF Evolves, Finished, Has
  <2>14. PendingOK'
    <3>1. ASSUME NEW p \in Streams, context'[p] # Null, NEW u \in context'[p].pending
          PROVE  u \in DOMAIN task' /\ Has(u, "add", "ok")' /\ task'[u].under = context'[p].by
      <4>1. context'[p] = context[p]
        BY <2>3, <2>9, <3>1
      <4>2. u \in DOMAIN task /\ Has(u, "add", "ok") /\ task[u].under = context[p].by
        BY <1>1, <3>1, <4>1 DEF PendingOK
      <4>. QED  BY <2>8, <2>13, <4>1, <4>2 DEF Has
    <3>. QED  BY <3>1 DEF PendingOK
  <2>15. KeptOK'
    <3>1. ASSUME NEW u \in DOMAIN task', Has(u, "add", "ok")' PROVE Kept(u)'
      <4>1. u \in DOMAIN task /\ Has(u, "add", "ok") /\ task'[u] = task[u]
        BY <2>4, <2>8, <3>1 DEF Has
      <4>2. Kept(u) /\ task[u].stream \in Streams
        BY <1>1, <4>1, RequestFields DEF KeptOK
      <4>3. ASSUME context[task[u].stream] # Null, u \in context[task[u].stream].pending
            PROVE  Kept(u)'
        <5>1. CASE task[u].stream = s /\ c # context[s]
          <6>1. metadata' # Null /\ u \in metadata'.memories
            BY <2>6, <4>3, <5>1
          <6>. QED  BY <6>1 DEF Kept
        <5>2. CASE ~(task[u].stream = s /\ c # context[s])
          <6>1. context'[task[u].stream] = context[task[u].stream]
            BY <2>9, <4>2, <5>2
          <6>. QED  BY <4>1, <4>3, <6>1 DEF Kept
        <5>. QED  BY <5>1, <5>2
      <4>. QED  BY <2>2, <2>6, <2>8, <4>1, <4>2, <4>3, KeptStays
    <3>. QED  BY <3>1 DEF KeptOK
  <2>. QED  BY <2>10, <2>12, <2>14, <2>15 DEF ServiceInv
<1>. QED  BY <1>2, <1>3

(* The worker persists a context, or counts what it drops.                 *)
LEMMA ReleaseOK ==
    ASSUME ServiceInv, NEW s \in Streams, Release(s) PROVE ServiceInv'
<1>1. /\ TypesOK /\ TasksOK /\ OrderOK /\ KeysOK /\ PendingOK /\ KeptOK
      /\ context[s] # Null /\ context[s] \in Contexts /\ Known(context[s].dek)
  BY DEF ServiceInv, Release, TypesOK, KeysOK
<1>2. /\ context' = [context EXCEPT ![s] = Null] /\ UNCHANGED <<key_blob, task, stream>>
      /\ \/ metadata' = Stored(context[s]) /\ unsaved' = unsaved
         \/ PersistFails(context[s]) /\ unsaved' = unsaved \cup context[s].pending
  BY DEF Release
<1>3. /\ metadata' \in MetadataBlobs \cup {Null} /\ (metadata' # Null => Known(metadata'.dek))
      /\ metadata # Null => metadata' # Null /\ metadata.memories \subseteq metadata'.memories
      /\ \A u \in context[s].pending :
            u \in unsaved' \/ (metadata' # Null /\ u \in metadata'.memories)
      /\ unsaved \subseteq unsaved'
  <2>1. CASE metadata' = Stored(context[s]) /\ unsaved' = unsaved
    BY <1>1, <2>1, StoredKeeps
  <2>2. CASE PersistFails(context[s]) /\ unsaved' = unsaved \cup context[s].pending
    BY <1>1, <2>2, FailureKeeps
  <2>. QED  BY <1>2, <2>1, <2>2
<1>4. context'[s] = Null /\ \A p \in Streams : p # s => context'[p] = context[p]
  BY <1>1, <1>2 DEF TypesOK
<1>5. TypesOK'
  BY <1>1, <1>2, <1>3 DEF TypesOK
<1>6. Evolves /\ DOMAIN task' = DOMAIN task /\ Registrations' = Registrations
  BY <1>2 DEF Evolves, Registrations
<1>7. TasksOK' /\ OrderOK'
  BY <1>1, <1>2, <1>6, OrderUntouched DEF TasksOK
<1>8. KeysOK'
  <2>1. \A p \in Streams : context'[p] # Null => Known(context'[p].dek)
    BY <1>1, <1>4 DEF KeysOK
  <2>. QED  BY <1>1, <1>2, <1>3, <1>6, <2>1 DEF KeysOK, Known, Has
<1>9. PendingOK'
  BY <1>1, <1>2, <1>4 DEF PendingOK, Has
<1>10. KeptOK'
  <2>1. ASSUME NEW u \in DOMAIN task', Has(u, "add", "ok")' PROVE Kept(u)'
    <3>1. u \in DOMAIN task /\ Has(u, "add", "ok") /\ task'[u] = task[u]
      BY <1>2, <2>1 DEF Has
    <3>2. Kept(u) /\ task[u].stream \in Streams
      BY <1>1, <3>1, RequestFields DEF KeptOK
    <3>3. ASSUME context[task[u].stream] # Null, u \in context[task[u].stream].pending
          PROVE  Kept(u)'
      <4>1. CASE task[u].stream = s
        <5>1. u \in unsaved' \/ (metadata' # Null /\ u \in metadata'.memories)
          BY <1>3, <3>3, <4>1
        <5>. QED  BY <5>1 DEF Kept
      <4>2. CASE task[u].stream # s
        <5>1. context'[task[u].stream] = context[task[u].stream]
          BY <1>4, <3>2, <4>2
        <5>. QED  BY <3>1, <3>3, <5>1 DEF Kept
      <4>. QED  BY <4>1, <4>2
    <3>. QED  BY <1>3, <1>6, <3>1, <3>2, <3>3, KeptStays
  <2>. QED  BY <2>1 DEF KeptOK
<1>. QED  BY <1>5, <1>7, <1>8, <1>9, <1>10 DEF ServiceInv

-----------------------------------------------------------------------------
(* The loops of the streams: requests come in, or are dropped; no handler  *)
(* runs.                                                                   *)
Quiet ==
    /\ Evolves /\ UNCHANGED <<key_blob, metadata, context, unsaved>>
    /\ \A u \in DOMAIN task' :
          \/ /\ u \in DOMAIN task /\ task'[u].dek = task[u].dek
             /\ task'[u].pc = task[u].pc \/ task'[u].pc = "dropped"
          \/ u \notin DOMAIN task /\ task'[u].dek = Null /\ task'[u].pc = "start"

(* A step of a stream alone keeps what is known of tasks and data.         *)
LEMMA QuietStep ==
    ASSUME ServiceInv, Quiet PROVE TasksOK' /\ KeysOK' /\ PendingOK' /\ KeptOK'
<1>1. /\ TypesOK /\ TasksOK /\ KeysOK /\ PendingOK /\ KeptOK
      /\ Evolves /\ UNCHANGED <<key_blob, metadata, context, unsaved>>
  BY DEF ServiceInv, Quiet
<1>2. \A u \in DOMAIN task' :
         \/ /\ u \in DOMAIN task /\ task'[u].dek = task[u].dek /\ task'[u].kind = task[u].kind
            /\ task'[u].pc = task[u].pc \/ task'[u].pc = "dropped"
            /\ task[u].pc \in Finished => task'[u] = task[u]
         \/ u \notin DOMAIN task /\ task'[u].dek = Null /\ task'[u].pc = "start"
  BY DEF Quiet, Evolves
<1>3. TasksOK'
  BY <1>1, <1>2 DEF TasksOK, Finished
<1>4. Registrations' = Registrations
  <2>1. \A u \in Registrations : u \in DOMAIN task' /\ task'[u].kind = "register"
                               /\ task'[u].dek = task[u].dek
    BY <1>1, <1>2 DEF Registrations, Evolves
  <2>. QED  BY <1>2, <2>1 DEF Registrations
<1>5. KeysOK'
  <2>1. \A u \in DOMAIN task' : task'[u].kind = "key_sync" /\ task'[u].dek # Null
                              => Known(task'[u].dek)
    BY <1>1, <1>2 DEF KeysOK
  <2>2. key_blob # Null /\ key_blob.dek \notin Registrations =>
           /\ Registrations = {}
           /\ \A u \in DOMAIN task' : ~(task'[u].kind = "register" /\ task'[u].pc = "absent")
    BY <1>1, <1>2 DEF KeysOK, Has
  <2>. QED  BY <1>1, <1>4, <2>1, <2>2 DEF KeysOK, Known, Has
<1>6. \A u \in DOMAIN task : Has(u, "add", "ok") => u \in DOMAIN task' /\ task'[u] = task[u]
  BY <1>1 DEF Evolves, Finished, Has
<1>7. PendingOK'
  BY <1>1, <1>6 DEF PendingOK, Has
<1>8. KeptOK'
  <2>1. ASSUME NEW u \in DOMAIN task', Has(u, "add", "ok")' PROVE Kept(u)'
    <3>1. u \in DOMAIN task /\ Has(u, "add", "ok")
      BY <1>2, <2>1 DEF Has
    <3>2. Kept(u) /\ task'[u] = task[u]
      BY <1>1, <1>6, <3>1 DEF KeptOK
    <3>3. context[task[u].stream] # Null /\ u \in context[task[u].stream].pending => Kept(u)'
      BY <1>1, <3>2 DEF Kept
    <3>. QED  BY <1>1, <1>4, <3>1, <3>2, <3>3, KeptStays
  <2>. QED  BY <2>1 DEF KeptOK
<1>. QED  BY <1>3, <1>5, <1>7, <1>8

(* The order of a stream whose own loop does nothing.                      *)
LEMMA OtherStream ==
    ASSUME NEW p \in Streams, StreamOK(p), Evolves, stream'[p] = stream[p],
           \A u \in DOMAIN task' : u \in DOMAIN task \/ task'[u].stream # p
    PROVE  StreamOK(p)'
<1>1. \A u \in DOMAIN task : u \in DOMAIN task' /\ task'[u].stream = task[u].stream
  BY DEF Evolves
<1>. QED  BY <1>1 DEF StreamOK, Orderly, Own, Ordered, Among, Beyond

(* A loop that ends, or a client that leaves a sequential stream.          *)
LEMMA LoopDone ==
    ASSUME NEW s \in Streams, StreamOK(s), Evolves, DOMAIN task' = DOMAIN task,
           stream'[s].sent = stream[s].sent, stream'[s].in_flight = << >>, ~stream'[s].open
    PROVE  StreamOK(s)'
<1>1. \A u \in DOMAIN task : task'[u].stream = task[u].stream
  BY DEF Evolves
<1>. QED  BY <1>1 DEF StreamOK, Orderly, Own, Ordered, Among, Beyond

(* A loop that has ended.                                                  *)
LEMMA LoopEnded ==
    ASSUME NEW l \in Loops
    PROVE  LET m == [l EXCEPT !.open = FALSE, !.in_flight = << >>]
           IN  m \in Loops /\ m.open = FALSE /\ m.in_flight = << >> /\ m.sent = l.sent
<1>1. PICK no \in BOOLEAN : no = FALSE
  BY Zenon
<1>2. PICK none \in Seq(Nat) : none = << >>
  <2>1. << >> \in Seq(Nat)
    OBVIOUS
  <2>. QED  BY <2>1, Zenon
<1>. DEFINE m == [l EXCEPT !.open = no, !.in_flight = none]
<1>3. m \in Loops /\ m.open = no /\ m.in_flight = none /\ m.sent = l.sent
  BY DEF Loops
<1>. QED  BY <1>1, <1>2, <1>3, Zenon

(* A request is read from the stream,                                      *)
LEMMA ReceiveOK ==
    ASSUME ServiceInv, NEW s \in Streams, Receive(s) PROVE ServiceInv'
<1>1. /\ TypesOK /\ OrderOK /\ StreamOK(s) /\ stream[s] \in Loops /\ stream[s].open
      /\ task \in Seq(Requests) /\ DOMAIN task = 1..Len(task) /\ Len(task) \in Nat
  BY TaskDomain DEF ServiceInv, Receive, TypesOK, OrderOK
<1>2. PICK kind \in Kinds, key \in ClientKeys \cup {Null} :
         task' = Append(task, [stream |-> s, kind |-> kind, key |-> key, pc |-> "start",
                               dek |-> Null, under |-> Null])
  BY DEF Receive
<1>. DEFINE n == Len(task) + 1
            r == [stream |-> s, kind |-> kind, key |-> key, pc |-> "start",
                  dek |-> Null, under |-> Null]
<1>3. r \in Requests /\ r.stream = s /\ r.dek = Null /\ r.pc = "start"
  BY <1>2 DEF Requests, Finished
<1>4. task' = Append(task, r)
  BY <1>2
<1>. HIDE DEF r
<1>5. /\ task' \in Seq(Requests) /\ Len(task') = n
      /\ (\A i \in 1..Len(task) : task'[i] = task[i]) /\ task'[n] = r
  BY <1>1, <1>3, <1>4, AppendProperties
<1>6. DOMAIN task' = DOMAIN task \cup {n} /\ n \notin DOMAIN task /\ \A t \in DOMAIN task : t < n
  <2>1. DOMAIN task' = 1..n
    BY <1>5
  <2>. QED  BY <1>1, <2>1
<1>7. Evolves
  BY <1>1, <1>5, <1>6 DEF Evolves
<1>8. Quiet
  <2>1. UNCHANGED <<key_blob, metadata, context, unsaved>>
    BY DEF Receive
  <2>. QED  BY <1>1, <1>3, <1>5, <1>6, <1>7, <2>1 DEF Quiet
<1>9. PICK q \in Seq(Nat), f \in Seq(Nat) : q = stream[s].sent /\ f = stream[s].in_flight
  BY <1>1 DEF Loops
<1>10. n \in Nat /\ Len(f) \in Nat /\ Len(q) \in Nat
  BY <1>1
<1>11. PICK g : g = Append(f, n)
  OBVIOUS
<1>12. /\ g \in Seq(Nat) /\ Len(g) = Len(f) + 1
       /\ (\A i \in 1..Len(f) : g[i] = f[i]) /\ g[Len(f) + 1] = n
  BY <1>10, <1>11, AppendProperties
<1>13. stream' = [stream EXCEPT ![s] = [stream[s] EXCEPT !.in_flight = g]]
  BY <1>9, <1>11 DEF Receive
<1>14. /\ stream'[s] = [stream[s] EXCEPT !.in_flight = g]
       /\ \A p \in Streams : p # s => stream'[p] = stream[p]
  BY <1>1, <1>13 DEF TypesOK
<1>15. stream'[s] \in Loops /\ stream'[s].sent = q /\ stream'[s].in_flight = g
  <2>1. g \in Seq(Nat)
    BY <1>12
  <2>2. /\ [stream[s] EXCEPT !.in_flight = g] \in Loops
        /\ [stream[s] EXCEPT !.in_flight = g].sent = stream[s].sent
        /\ [stream[s] EXCEPT !.in_flight = g].in_flight = g
    BY <1>1, <2>1 DEF Loops
  <2>. QED  BY <1>9, <1>14, <2>2
<1>16. TypesOK'
  <2>1. stream' \in [Streams -> Loops]
    BY <1>1, <1>13, <1>14, <1>15 DEF TypesOK
  <2>. QED  BY <1>1, <1>5, <2>1 DEF TypesOK, Receive
<1>17. StreamOK(s)'
  <2>1. /\ Own(s, q) /\ Own(s, f) /\ Ordered(q) /\ Ordered(f)
        /\ \A i \in 1..Len(f) : Beyond(f[i], q)
        /\ \A t \in DOMAIN task : task[t].stream = s =>
              (Among(t, q) \/ Beyond(t, q)) /\ (Among(t, q) \/ Among(t, f))
    BY <1>1, <1>9 DEF StreamOK, Orderly
  <2>2. (\A i \in 1..Len(q) : q[i] < n) /\ (\A i \in 1..Len(f) : f[i] < n)
    BY <1>6, <2>1 DEF Own
  <2>3. \A i \in 1..Len(g) : i \in 1..Len(f) \/ i = Len(f) + 1
    BY <1>10, <1>12
  <2>4. Own(s, q)' /\ Own(s, g)'
    <3>1. \A i \in 1..Len(q) : q[i] \in DOMAIN task' /\ task'[q[i]].stream = s
      BY <1>6, <1>7, <2>1 DEF Own, Evolves
    <3>2. \A i \in 1..Len(f) : f[i] \in DOMAIN task' /\ task'[f[i]].stream = s
      BY <1>6, <1>7, <2>1 DEF Own, Evolves
    <3>3. \A i \in 1..Len(g) : g[i] \in DOMAIN task' /\ task'[g[i]].stream = s
      BY <1>3, <1>5, <1>6, <1>12, <2>3, <3>2
    <3>. QED  BY <3>1, <3>3 DEF Own
  <2>5. Ordered(g)
    <3>1. ASSUME NEW i \in 1..Len(g), NEW j \in 1..Len(g), i < j PROVE g[i] < g[j]
      <4>1. i \in 1..Len(f)
        BY <1>10, <1>12, <3>1
      <4>2. CASE j \in 1..Len(f)
        BY <1>12, <2>1, <3>1, <4>1, <4>2 DEF Ordered
      <4>3. CASE j = Len(f) + 1
        BY <1>12, <2>2, <4>1, <4>3
      <4>. QED  BY <2>3, <4>2, <4>3
    <3>. QED  BY <3>1 DEF Ordered
  <2>6. \A i \in 1..Len(g) : Beyond(g[i], q)
    BY <1>12, <2>1, <2>2, <2>3 DEF Beyond
  <2>7. ASSUME NEW t \in DOMAIN task', task'[t].stream = s
        PROVE  (Among(t, q) \/ Beyond(t, q)) /\ (Among(t, q) \/ Among(t, g))
    <3>1. CASE t = n
      <4>1. Among(t, g)
        <5>1. Len(f) + 1 \in 1..Len(g)
          BY <1>10, <1>12
        <5>. QED  BY <1>12, <3>1, <5>1 DEF Among
      <4>2. Beyond(t, q)
        BY <2>2, <3>1 DEF Beyond
      <4>. QED  BY <4>1, <4>2
    <3>2. CASE t \in DOMAIN task
      <4>1. (Among(t, q) \/ Beyond(t, q)) /\ (Among(t, q) \/ Among(t, f))
        BY <1>7, <2>1, <2>7, <3>2 DEF Evolves
      <4>2. Among(t, f) => Among(t, g)
        <5>1. \A i \in 1..Len(f) : i \in 1..Len(g)
          BY <1>10, <1>12
        <5>. QED  BY <1>12, <5>1 DEF Among
      <4>. QED  BY <4>1, <4>2
    <3>. QED  BY <1>6, <3>1, <3>2
  <2>8. \A t \in DOMAIN task' : task'[t].stream = s =>
           (Among(t, q) \/ Beyond(t, q)) /\ (Among(t, q) \/ Among(t, g))
    BY <2>7
  <2>9. Orderly(s, q, g, TRUE)'
    BY <2>1, <2>4, <2>5, <2>6, <2>8 DEF Orderly, Ordered, Among, Beyond
  <2>10. \A open : Orderly(s, q, g, open)'
    BY <2>9 DEF Orderly
  <2>. QED  BY <1>15, <2>10 DEF StreamOK
<1>18. OrderOK'
  <2>1. ASSUME NEW p \in Streams, p # s PROVE StreamOK(p)'
    <3>1. \A u \in DOMAIN task' : u \in DOMAIN task \/ task'[u].stream # p
      BY <1>3, <1>5, <1>6, <2>1
    <3>2. StreamOK(p) /\ stream'[p] = stream[p]
      BY <1>1, <1>14, <2>1 DEF OrderOK
    <3>. QED  BY <1>7, <3>1, <3>2, OtherStream
  <2>. QED  BY <1>17, <2>1 DEF OrderOK
<1>. QED  BY <1>8, <1>16, <1>18, QuietStep DEF ServiceInv

(* A step of stream s's loop that leaves the requests as they are or drops *)
(* those of s.                                                             *)
LEMMA LoopStep ==
    ASSUME ServiceInv, NEW s \in Streams, Quiet, DOMAIN task' = DOMAIN task,
           task' \in Seq(Requests), stream' \in [Streams -> Loops],
           \A p \in Streams : p # s => stream'[p] = stream[p], StreamOK(s)'
    PROVE  ServiceInv'
<1>1. TypesOK' /\ OrderOK /\ Evolves
  BY DEF ServiceInv, TypesOK, Quiet
<1>2. ASSUME NEW p \in Streams, p # s PROVE StreamOK(p)'
  <2>1. StreamOK(p) /\ stream'[p] = stream[p]
    BY <1>1, <1>2 DEF OrderOK
  <2>. QED  BY <1>1, <2>1, OtherStream
<1>3. OrderOK'
  BY <1>2 DEF OrderOK
<1>. QED  BY <1>1, <1>3, QuietStep DEF ServiceInv

(* the loop of a stream ends,                                              *)
LEMMA LoopEndsOK ==
    ASSUME ServiceInv, NEW s \in Streams, LoopEnds(s) PROVE ServiceInv'
<1>. DEFINE l == [stream[s] EXCEPT !.open = FALSE, !.in_flight = << >>]
<1>1. TypesOK /\ StreamOK(s) /\ stream[s] \in Loops
  BY DEF ServiceInv, TypesOK, OrderOK
<1>2. l \in Loops /\ ~l.open /\ l.in_flight = << >> /\ l.sent = stream[s].sent
  BY <1>1, LoopEnded
<1>3. stream' = [stream EXCEPT ![s] = l] /\ UNCHANGED <<key_blob, metadata, task, context, unsaved>>
  BY DEF LoopEnds
<1>. HIDE DEF l
<1>4. /\ stream'[s] = l /\ (\A p \in Streams : p # s => stream'[p] = stream[p])
      /\ stream' \in [Streams -> Loops]
  BY <1>1, <1>2, <1>3 DEF TypesOK
<1>5. Quiet /\ Evolves
  BY <1>3 DEF Quiet, Evolves
<1>6. StreamOK(s)'
  BY <1>1, <1>2, <1>3, <1>4, <1>5, LoopDone
<1>. QED  BY <1>1, <1>3, <1>4, <1>5, <1>6, LoopStep DEF TypesOK

(* a client goes away.                                                     *)
LEMMA ClientLeavesOK ==
    ASSUME ServiceInv, NEW s \in Streams, ClientLeaves(s) PROVE ServiceInv'
<1>1. /\ TypesOK /\ StreamOK(s) /\ stream[s] \in Loops /\ task \in Seq(Requests)
      /\ UNCHANGED <<key_blob, metadata, context, unsaved>>
      /\ DOMAIN task = 1..Len(task) /\ Len(task) \in Nat
  BY TaskDomain DEF ServiceInv, TypesOK, OrderOK, ClientLeaves
<1>2. CASE s \in Concurrent
  <2>. DEFINE l == [stream[s] EXCEPT !.left = TRUE]
  <2>1. /\ l \in Loops /\ l.open = stream[s].open /\ l.in_flight = stream[s].in_flight
        /\ l.sent = stream[s].sent
    BY <1>1 DEF Loops
  <2>2. stream' = [stream EXCEPT ![s] = l] /\ task' = task
    BY <1>2 DEF ClientLeaves
  <2>. HIDE DEF l
  <2>3. /\ stream'[s] = l /\ (\A p \in Streams : p # s => stream'[p] = stream[p])
        /\ stream' \in [Streams -> Loops]
    BY <1>1, <2>1, <2>2 DEF TypesOK
  <2>4. Quiet
    BY <1>1, <2>2 DEF Quiet, Evolves
  <2>5. StreamOK(s)'
    <3>1. PICK q, f, o : stream[s].sent = q /\ stream[s].in_flight = f /\ stream[s].open = o
      OBVIOUS
    <3>2. stream'[s].sent = q /\ stream'[s].in_flight = f /\ stream'[s].open = o
      BY <2>1, <2>3, <3>1
    <3>3. Orderly(s, q, f, o)'
      BY <1>1, <2>2, <3>1 DEF StreamOK, Orderly, Own
    <3>. QED  BY <3>2, <3>3 DEF StreamOK
  <2>. QED  BY <1>1, <2>2, <2>3, <2>4, <2>5, LoopStep
<1>3. CASE s \notin Concurrent
  <2>. DEFINE l == [stream[s] EXCEPT !.open = FALSE, !.in_flight = << >>]
              next(t) == IF t \in Running(s) THEN [task[t] EXCEPT !.pc = "dropped"] ELSE task[t]
  <2>1. l \in Loops /\ ~l.open /\ l.in_flight = << >> /\ l.sent = stream[s].sent
    BY <1>1, LoopEnded
  <2>2. stream' = [stream EXCEPT ![s] = l] /\ task' = [t \in DOMAIN task |-> next(t)]
    BY <1>3 DEF ClientLeaves
  <2>. HIDE DEF l
  <2>3. /\ stream'[s] = l /\ (\A p \in Streams : p # s => stream'[p] = stream[p])
        /\ stream' \in [Streams -> Loops]
    BY <1>1, <2>1, <2>2 DEF TypesOK
  <2>4. ASSUME NEW t \in DOMAIN task
        PROVE  /\ next(t) \in Requests /\ next(t).stream = task[t].stream
               /\ next(t).kind = task[t].kind /\ next(t).dek = task[t].dek
               /\ next(t).pc = task[t].pc \/ next(t).pc = "dropped"
               /\ task[t].pc \in Finished => next(t) = task[t]
    <3>1. task[t] \in Requests
      BY <1>1, RequestFields
    <3>2. task[t].pc \in Finished => t \notin Running(s)
      BY DEF Running, Finished
    <3>3. CASE t \in Running(s)
      BY <3>1, <3>2, <3>3 DEF Requests, Finished
    <3>4. CASE t \notin Running(s)
      BY <3>1, <3>4
    <3>. QED  BY <3>3, <3>4
  <2>. HIDE DEF next
  <2>5. DOMAIN task' = DOMAIN task /\ \A t \in DOMAIN task : task'[t] = next(t)
    BY <2>2
  <2>6. task' \in Seq(Requests)
    <3>1. task' \in [1..Len(task) -> Requests]
      BY <1>1, <2>2, <2>4
    <3>. QED  BY <1>1, <3>1
  <2>7. Evolves
    BY <2>4, <2>5 DEF Evolves
  <2>8. Quiet
    BY <1>1, <2>4, <2>5, <2>7 DEF Quiet
  <2>9. StreamOK(s)'
    BY <1>1, <2>1, <2>3, <2>5, <2>7, LoopDone
  <2>. QED  BY <2>3, <2>5, <2>6, <2>8, <2>9, LoopStep
<1>. QED  BY <1>2, <1>3

(* The oldest request in flight of an orderly stream is the next to answer.*)
LEMMA ForwardOrder ==
    ASSUME NEW s, NEW q \in Seq(Nat), NEW f \in Seq(Nat), f # << >>, Orderly(s, q, f, TRUE)
    PROVE  Orderly(s, Append(q, Head(f)), Tail(f), TRUE)
<1>1. PICK h \in Nat, g \in Seq(Nat), a \in Seq(Nat) :
         h = Head(f) /\ g = Tail(f) /\ a = Append(q, h)
  BY HeadTailProperties, AppendProperties
<1>2. /\ Len(f) \in Nat /\ Len(f) >= 1 /\ h = f[1] /\ Len(g) = Len(f) - 1
      /\ \A i \in 1..Len(g) : g[i] = f[i + 1]
  BY <1>1, HeadTailProperties
<1>3. /\ Len(q) \in Nat /\ Len(a) = Len(q) + 1 /\ a[Len(q) + 1] = h
      /\ \A i \in 1..Len(q) : a[i] = q[i]
  BY <1>1, AppendProperties
<1>4. /\ Own(s, q) /\ Own(s, f) /\ Ordered(q) /\ Ordered(f)
      /\ \A i \in 1..Len(f) : Beyond(f[i], q)
      /\ \A t \in DOMAIN task : task[t].stream = s => Among(t, q) \/ Among(t, f)
  BY DEF Orderly
<1>5. \A i \in 1..Len(a) : i \in 1..Len(q) \/ i = Len(q) + 1
  BY <1>3
<1>6. 1 \in 1..Len(f) /\ \A i \in 1..Len(g) : i + 1 \in 1..Len(f) /\ 1 < i + 1
  BY <1>2
<1>7. Own(s, a) /\ Own(s, g)
  <2>1. ASSUME NEW i \in 1..Len(a) PROVE a[i] \in DOMAIN task /\ task[a[i]].stream = s
    <3>1. CASE i \in 1..Len(q)
      BY <1>3, <1>4, <3>1 DEF Own
    <3>2. CASE i = Len(q) + 1
      BY <1>2, <1>3, <1>4, <1>6, <3>2 DEF Own
    <3>. QED  BY <1>5, <3>1, <3>2
  <2>2. ASSUME NEW i \in 1..Len(g) PROVE g[i] \in DOMAIN task /\ task[g[i]].stream = s
    BY <1>2, <1>4, <1>6 DEF Own
  <2>. QED  BY <2>1, <2>2 DEF Own
<1>8. Ordered(a)
  <2>1. ASSUME NEW i \in 1..Len(a), NEW j \in 1..Len(a), i < j PROVE a[i] < a[j]
    <3>1. i \in 1..Len(q)
      BY <1>3, <2>1
    <3>2. CASE j \in 1..Len(q)
      BY <1>3, <1>4, <2>1, <3>1, <3>2 DEF Ordered
    <3>3. CASE j = Len(q) + 1
      BY <1>2, <1>3, <1>4, <1>6, <3>1, <3>3 DEF Beyond
    <3>. QED  BY <1>5, <3>2, <3>3
  <2>. QED  BY <2>1 DEF Ordered
<1>9. Ordered(g)
  <2>1. \A i, j \in 1..Len(g) : i < j => i + 1 < j + 1
    BY <1>2
  <2>. QED  BY <1>2, <1>4, <1>6, <2>1 DEF Ordered
<1>10. \A i \in 2..Len(f) : Beyond(f[i], a)
  <2>1. ASSUME NEW i \in 2..Len(f), NEW k \in 1..Len(a) PROVE a[k] < f[i]
    <3>1. i \in 1..Len(f) /\ 1 < i
      BY <1>2
    <3>2. CASE k \in 1..Len(q)
      BY <1>3, <1>4, <3>1, <3>2 DEF Beyond
    <3>3. CASE k = Len(q) + 1
      BY <1>2, <1>3, <1>4, <1>6, <3>1, <3>3 DEF Ordered
    <3>. QED  BY <1>5, <3>2, <3>3
  <2>. QED  BY <2>1 DEF Beyond
<1>11. \A i \in 1..Len(g) : Beyond(g[i], a)
  <2>1. \A i \in 1..Len(g) : i + 1 \in 2..Len(f)
    BY <1>2
  <2>. QED  BY <1>2, <1>10, <2>1
<1>12. ASSUME NEW t \in DOMAIN task, task[t].stream = s
       PROVE  (Among(t, a) \/ Beyond(t, a)) /\ (Among(t, a) \/ Among(t, g))
  <2>1. CASE Among(t, q)
    <3>1. \A i \in 1..Len(q) : i \in 1..Len(a)
      BY <1>3
    <3>. QED  BY <1>3, <2>1, <3>1 DEF Among
  <2>2. CASE Among(t, f)
    <3>1. PICK i \in 1..Len(f) : f[i] = t
      BY <2>2 DEF Among
    <3>2. CASE i = 1
      <4>1. Len(q) + 1 \in 1..Len(a)
        BY <1>3
      <4>2. Among(t, a)
        BY <1>2, <1>3, <3>1, <3>2, <4>1 DEF Among
      <4>. QED  BY <4>2
    <3>3. CASE i # 1
      <4>1. i \in 2..Len(f) /\ i - 1 \in 1..Len(g) /\ (i - 1) + 1 = i
        BY <1>2, <3>3
      <4>2. Beyond(t, a)
        BY <1>10, <3>1, <4>1
      <4>3. g[i - 1] = t
        BY <1>2, <3>1, <4>1
      <4>4. Among(t, g)
        BY <4>1, <4>3 DEF Among
      <4>. QED  BY <4>2, <4>4
    <3>. QED  BY <3>2, <3>3
  <2>. QED  BY <1>4, <1>12, <2>1, <2>2
<1>13. Orderly(s, a, g, TRUE)
  BY <1>7, <1>8, <1>9, <1>11, <1>12 DEF Orderly
<1>. QED  BY <1>1, <1>13

(* An answer is sent in the order of its request.                          *)
LEMMA ForwardOK ==
    ASSUME ServiceInv, NEW s \in Streams, Forward(s) PROVE ServiceInv'
<1>1. /\ TypesOK /\ StreamOK(s) /\ stream[s] \in Loops /\ stream[s].in_flight # << >>
      /\ stream[s].open /\ UNCHANGED <<key_blob, metadata, task, context, unsaved>>
  BY DEF ServiceInv, TypesOK, OrderOK, Forward
<1>2. PICK q \in Seq(Nat), f \in Seq(Nat) : q = stream[s].sent /\ f = stream[s].in_flight
  BY <1>1 DEF Loops
<1>3. Orderly(s, q, f, TRUE)
  BY <1>1, <1>2 DEF StreamOK, Orderly
<1>4. PICK h \in Nat, g \in Seq(Nat), a \in Seq(Nat) :
         h = Head(f) /\ g = Tail(f) /\ a = Append(q, h)
  BY <1>1, <1>2, HeadTailProperties, AppendProperties
<1>5. Orderly(s, a, g, TRUE)
  BY <1>1, <1>2, <1>3, <1>4, ForwardOrder
<1>6. PICK breaks \in BOOLEAN :
         breaks = (stream[s].left \/ (s \in GrpcErrors /\ task[h].pc = "error"))
  BY Zenon
<1>7. PICK no \in BOOLEAN, rest \in Seq(Nat), sent \in Seq(Nat) :
         /\ no = ~breaks /\ rest = (IF breaks THEN << >> ELSE g)
         /\ sent = IF stream[s].left THEN q ELSE a
  <2>1. PICK no \in BOOLEAN : no = ~breaks
    BY Zenon
  <2>2. PICK rest \in Seq(Nat) : rest = IF breaks THEN << >> ELSE g
    <3>1. << >> \in Seq(Nat)
      OBVIOUS
    <3>. QED  BY <3>1, Zenon
  <2>3. PICK sent \in Seq(Nat) : sent = IF stream[s].left THEN q ELSE a
    BY Zenon
  <2>. QED  BY <2>1, <2>2, <2>3, Zenon
<1>. DEFINE l == [stream[s] EXCEPT !.open = no, !.in_flight = rest, !.sent = sent]
<1>8. stream' = [stream EXCEPT ![s] = l]
  BY <1>2, <1>4, <1>6, <1>7 DEF Forward
<1>9. l \in Loops /\ l.open = no /\ l.in_flight = rest /\ l.sent = sent
  BY <1>1 DEF Loops
<1>. HIDE DEF l
<1>10. /\ stream'[s] = l /\ (\A p \in Streams : p # s => stream'[p] = stream[p])
       /\ stream' \in [Streams -> Loops]
  BY <1>1, <1>8, <1>9 DEF TypesOK
<1>11. Quiet
  BY <1>1 DEF Quiet, Evolves
<1>12. Orderly(s, sent, rest, no)
  <2>1. CASE stream[s].left
    <3>1. sent = q /\ rest = << >> /\ no = FALSE
      BY <1>6, <1>7, <2>1, Zenon
    <3>2. Orderly(s, q, << >>, FALSE)
      BY <1>3 DEF Orderly, Own, Ordered
    <3>. QED  BY <3>1, <3>2, Zenon
  <2>2. CASE ~stream[s].left
    <3>1. sent = a
      BY <1>7, <2>2
    <3>2. CASE breaks
      <4>1. rest = << >> /\ no = FALSE
        BY <1>7, <3>2, Zenon
      <4>2. Orderly(s, a, << >>, FALSE)
        BY <1>5 DEF Orderly, Own, Ordered
      <4>. QED  BY <3>1, <4>1, <4>2, Zenon
    <3>3. CASE ~breaks
      <4>1. rest = g /\ no = TRUE
        BY <1>7, <3>3, Zenon
      <4>. QED  BY <1>5, <3>1, <4>1, Zenon
    <3>. QED  BY <3>2, <3>3
  <2>. QED  BY <2>1, <2>2
<1>13. StreamOK(s)'
  <2>1. Orderly(s, sent, rest, no)'
    BY <1>1, <1>12 DEF Orderly, Own
  <2>2. stream'[s].sent = sent /\ stream'[s].in_flight = rest /\ stream'[s].open = no
    BY <1>9, <1>10
  <2>. QED  BY <2>1, <2>2, Zenon DEF StreamOK
<1>. QED  BY <1>1, <1>10, <1>11, <1>13, LoopStep DEF TypesOK

-----------------------------------------------------------------------------
(* Every reachable state satisfies the invariant.                          *)
THEOREM ServiceInvariance == ServiceSpec => []ServiceInv
<1>1. ServiceInv /\ [ServiceNext]_serviceVars => ServiceInv'
  <2>. SUFFICES ASSUME ServiceInv, [ServiceNext]_serviceVars PROVE ServiceInv'
    OBVIOUS
  <2>1. ASSUME NEW s \in Streams,
               Receive(s) \/ LoopEnds(s) \/ ClientLeaves(s) \/ Forward(s) \/ Release(s)
        PROVE  ServiceInv'
    BY <2>1, ReceiveOK, LoopEndsOK, ClientLeavesOK, ForwardOK, ReleaseOK
  <2>2. ASSUME NEW t \in DOMAIN task, Handle(t) \/ StoreFails(t) PROVE ServiceInv'
    BY <2>2, RegisterCheckOK, RegisterWriteOK, KeySyncUnwrapOK, KeySyncLoadOK,
       KeySyncInstallOK, AddOK, SyncOK, StoreFailsOK DEF Handle
  <2>3. CASE UNCHANGED serviceVars
    <3>1. Quiet /\ task' = task /\ stream' = stream /\ TypesOK'
      BY <2>3 DEF serviceVars, Quiet, Evolves, ServiceInv, TypesOK
    <3>2. OrderOK'
      BY <3>1, OrderUntouched DEF ServiceInv, Quiet
    <3>. QED  BY <3>1, <3>2, QuietStep DEF ServiceInv
  <2>. QED  BY <2>1, <2>2, <2>3 DEF ServiceNext
<1>. QED  BY <1>1, ServiceInitOK, PTL DEF ServiceSpec

(* AnswersInOrder: on every stream, however its requests' tasks overtake   *)
(* each other, answers leave once each and in the order of the requests.   *)
THEOREM InOrder == ServiceSpec => []AnswersInOrder
<1>1. ServiceInv => AnswersInOrder
  <2>. SUFFICES ASSUME ServiceInv, NEW s \in Streams, NEW i \in 1..Len(stream[s].sent)
                PROVE  LET sent == stream[s].sent
                       IN  /\ sent[i] \in DOMAIN task /\ task[sent[i]].stream = s
                           /\ {sent[j] : j \in 1..(i - 1)} = Before(s, sent[i])
    BY DEF AnswersInOrder
  <2>1. PICK q \in Seq(Nat) : q = stream[s].sent
    BY DEF ServiceInv, TypesOK, Loops
  <2>2. /\ Own(s, q) /\ Ordered(q)
        /\ \A t \in DOMAIN task : task[t].stream = s => Among(t, q) \/ Beyond(t, q)
    BY <2>1 DEF ServiceInv, OrderOK, StreamOK, Orderly
  <2>3. i \in 1..Len(q) /\ Len(q) \in Nat /\ DOMAIN task \subseteq Nat
    BY <2>1, TaskDomain DEF ServiceInv
  <2>4. ASSUME NEW j \in 1..(i - 1) PROVE q[j] \in Before(s, q[i])
    <3>1. j \in 1..Len(q) /\ j < i
      BY <2>3
    <3>. QED  BY <2>2, <2>3, <3>1 DEF Own, Ordered, Before
  <2>5. ASSUME NEW t \in Before(s, q[i]) PROVE \E j \in 1..(i - 1) : q[j] = t
    <3>1. t \in DOMAIN task /\ task[t].stream = s /\ t < q[i] /\ t \in Nat /\ q[i] \in Nat
      BY <2>3 DEF Before
    <3>2. ~Beyond(t, q)
      BY <2>3, <3>1 DEF Beyond
    <3>3. PICK j \in 1..Len(q) : q[j] = t
      BY <2>2, <3>1, <3>2 DEF Among
    <3>4. ~(i < j) /\ i # j
      BY <2>2, <2>3, <3>1, <3>3 DEF Ordered
    <3>5. j \in 1..(i - 1)
      BY <2>3, <3>4
    <3>. QED  BY <3>3, <3>5
  <2>6. {q[j] : j \in 1..(i - 1)} = Before(s, q[i])
    BY <2>4, <2>5
  <2>7. q[i] \in DOMAIN task /\ task[q[i]].stream = s
    BY <2>2, <2>3 DEF Own
  <2>. QED  BY <2>1, <2>6, <2>7
<1>. QED  BY <1>1, ServiceInvariance, PTL

(* Counting registrations is asking whether there are two.                 *)
LEMMA CountRegistrations ==
    TypesOK => (Cardinality(Registrations) <= 1 <=> ~Twice)
<1>. SUFFICES ASSUME TypesOK PROVE Cardinality(Registrations) <= 1 <=> ~Twice
  OBVIOUS
<1>1. PICK R : R = Registrations
  OBVIOUS
<1>2. IsFiniteSet(R)
  <2>1. IsFiniteSet(1..Len(task)) /\ R \in SUBSET (1..Len(task))
    BY <1>1, TaskDomain, FS_Interval DEF Registrations
  <2>. QED  BY <2>1, FS_Subset
<1>3. Cardinality(R) \in Nat
  BY <1>2, FS_CardinalityType
<1>4. Cardinality(R) <= 1 <=> Cardinality(R) = 0 \/ Cardinality(R) = 1
  BY <1>3
<1>5. (Cardinality(R) = 0 <=> R = {}) /\ (Cardinality(R) = 1 <=> \E x : R = {x})
  BY <1>2, FS_EmptySet, FS_Singleton
<1>6. ~Twice <=> R = {} \/ \E x : R = {x}
  <2>1. ASSUME ~Twice, R # {} PROVE \E x : R = {x}
    <3>1. PICK x \in R : TRUE
      BY <2>1
    <3>2. \A y \in R : y = x
      BY <1>1, <2>1, <3>1 DEF Twice
    <3>3. R = {x}
      BY <3>1, <3>2
    <3>. QED  BY <3>3
  <2>2. ASSUME NEW x, R = {x} PROVE ~Twice
    BY <1>1, <2>2 DEF Twice
  <2>3. R = {} => ~Twice
    BY <1>1 DEF Twice
  <2>. QED  BY <2>1, <2>2, <2>3
<1>. QED  BY <1>1, <1>4, <1>5, <1>6

(* DataMatchesKey: unless two registrations overlapped, what is stored for *)
(* the user is under the key of the current key blob, so that a later key  *)
(* sync can decrypt it.                                                    *)
THEOREM DataUnderKey == ServiceSpec => []DataMatchesKey
<1>1. ServiceInv => DataMatchesKey
  <2>. SUFFICES ASSUME ServiceInv, metadata # Null, Cardinality(Registrations) <= 1
                PROVE  key_blob # Null /\ metadata.dek = key_blob.dek
    BY DEF DataMatchesKey
  <2>1. ~Twice /\ KeysOK
    BY CountRegistrations DEF ServiceInv
  <2>2. Known(metadata.dek)
    BY <2>1 DEF KeysOK
  <2>3. key_blob # Null /\ Known(key_blob.dek)
    BY <2>2 DEF Known
  <2>. QED  BY <2>1, <2>2, <2>3, KnownUnique
<1>. QED  BY <1>1, ServiceInvariance, PTL

(* AcceptedMemoriesKept: a memory that add_memory_handler accepted is      *)
(* stored, or pending in the context of its stream, unless another key sync*)
(* replaced that context or the worker failed to persist it.               *)
THEOREM MemoriesKept == ServiceSpec => []AcceptedMemoriesKept
<1>1. ServiceInv => AcceptedMemoriesKept
  BY DEF ServiceInv, KeptOK, Kept, AcceptedMemoriesKept
<1>. QED  BY <1>1, ServiceInvariance, PTL
=============================================================================

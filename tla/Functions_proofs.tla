-------------------------- MODULE Functions_proofs --------------------------
(***************************************************************************)
(* Proofs about Oak Functions: its lookup data (OakFunctions) and the      *)
(* channel through which the launcher calls the enclave (OakChannel).      *)
(*                                                                         *)
(* Lookup data, for any number of loaders, shards, entries and requests:   *)
(* what a loader has not sent yet is of its file, and as long as no other  *)
(* load has put entries into the builder it holds exactly what the loader  *)
(* has sent.                                                               *)
(*                                                                         *)
(* The channel, for any number of frames per message, with and without     *)
(* timeouts and callers that leave: the frames on their way to the         *)
(* launcher, those the connector has read and those the enclave has still  *)
(* to write form one stream in which every message is whole from its first *)
(* frame that is left on.  A call that gives up leaves the rest of an      *)
(* answer behind, and the next call refuses a rest because it does not     *)
(* begin with START.                                                       *)
(*                                                                         *)
(* The table of lookup data (LookupHtbl), for any keys, hashes and sizes:  *)
(* lookup of a key in use ends at its entry, because the slots before it   *)
(* are in use by other keys and stay so.  Entries are never freed, and a   *)
(* slot that is filled is where lookup of the new key ended, so no lookup  *)
(* of another key passed it.                                               *)
(***************************************************************************)
EXTENDS OakFunctions, OakChannel, LookupHtbl, FiniteSetTheorems, SequenceTheorems,
        NaturalsInduction, WellFoundedInduction, TLAPS

ShardTables == [LKeys -> LValues \cup {NoValue}]
LookupTables == [Shards -> ShardTables]
Jobs ==
    [pc : {"idle", "exited"}]
      \cup [pc : {"update"}, file : Files, todo : SUBSET (LKeys \X LValues)]
      \cup [pc : {"inserting"}, file : Files, todo : SUBSET (LKeys \X LValues),
            entries : SUBSET (LKeys \X LValues)]

(* What a loader has still to send or is sending is of its file.           *)
Loading(j) == j.pc \in {"update", "inserting"}
Unsent(j) == IF j.pc = "inserting" THEN j.todo \cup j.entries ELSE j.todo
JobOK(j) ==
    /\ Loading(j) => Unsent(j) \subseteq EntriesOf(j.file)
    /\ j.pc = "inserting" => j.todo \cap j.entries = {}

(* The builder d holds what a load that has it for itself has sent.        *)
BuilderOK(d, j) ==
    \A k \in LKeys :
        GetLookup(d, k) = IF j.file[k] # NoValue /\ <<k, j.file[k]>> \notin Unsent(j)
                          THEN j.file[k] ELSE NoValue

(* The inductive invariant.                                                *)
FunctionsInv ==
    /\ data \in LookupTables /\ builder \in LookupTables
    /\ job \in [Loaders -> Jobs]
    /\ snapshot \in [Requests -> LookupTables \cup {NoValue}]
    /\ DOMAIN answered = Requests
    /\ \A u \in Loaders : JobOK(job[u])
    /\ \A u \in writers : u = "broken" \/ (u \in Loaders /\ Loading(job[u]))
    /\ \A u \in Loaders : Loading(job[u]) /\ writers \subseteq {u} => BuilderOK(builder, job[u])
    /\ writers = {} => \A k \in LKeys : GetLookup(builder, k) = NoValue

-----------------------------------------------------------------------------
(* The entries of a file.                                                  *)
LEMMA EntriesTyped ==
    ASSUME NEW f \in Files
    PROVE  /\ f \in ShardTables
           /\ EntriesOf(f) \subseteq LKeys \X LValues
           /\ \A e \in EntriesOf(f) : e[1] \in LKeys /\ e[2] = f[e[1]] /\ e[2] # NoValue
                                      /\ e = <<e[1], e[2]>>
  BY FunctionsAssumption DEF EntriesOf, ShardTables

(* Looking up a key finds a value or nothing.                              *)
LEMMA LookupTyped ==
    ASSUME NEW d \in LookupTables
    PROVE  /\ \A k \in LKeys : ShardOf[k] \in Shards /\ GetLookup(d, k) \in LValues \cup {NoValue}
           /\ Flatten(d) \in ShardTables /\ d # NoValue /\ Flatten(d) # NoValue
<1>1. ASSUME NEW k \in LKeys
      PROVE  ShardOf[k] \in Shards /\ GetLookup(d, k) \in LValues \cup {NoValue}
  BY FunctionsAssumption DEF LookupTables, ShardTables, GetLookup
<1>2. Flatten(d) \in ShardTables
  BY <1>1 DEF Flatten, ShardTables
<1>. QED  BY <1>1, <1>2, FunctionsAssumption DEF LookupTables, ShardTables

(* Nothing is found in empty data.                                         *)
LEMMA EmptyTyped ==
    EmptyData \in LookupTables /\ \A k \in LKeys : GetLookup(EmptyData, k) = NoValue
  BY FunctionsAssumption DEF EmptyData, EmptyShard, LookupTables, ShardTables, GetLookup

(* What each loader may be doing.                                          *)
LEMMA JobKinds ==
    ASSUME NEW j \in Jobs
    PROVE  /\ j.pc \in {"idle", "exited", "update", "inserting"}
           /\ Loading(j) => j.file \in Files /\ j.todo \in SUBSET (LKeys \X LValues)
           /\ j.pc = "inserting" => j.entries \in SUBSET (LKeys \X LValues)
           /\ j.pc = "idle" <=> j = Idle
           /\ j.pc = "exited" => j = [pc |-> "exited"]
  BY DEF Jobs, Loading, Idle

(* Steps that change one loader's job and leave the builder alone.         *)
LEMMA JobStep ==
    ASSUME FunctionsInv, NEW u \in Loaders, NEW j \in Jobs, JobOK(j),
           job' = [job EXCEPT ![u] = j],
           UNCHANGED <<builder, snapshot, answered>>,
           data' \in LookupTables,
           writers' = IF u \in writers /\ ~Loading(j) THEN (writers \ {u}) \cup {"broken"}
                      ELSE writers,
           Loading(j) => \/ /\ Loading(job[u]) /\ j.file = job[u].file
                            /\ Unsent(j) = Unsent(job[u])
                         \/ ~Loading(job[u]) /\ Unsent(j) = EntriesOf(j.file)
    PROVE  FunctionsInv'
<1>1. job' \in [Loaders -> Jobs] /\ job'[u] = j /\ \A v \in Loaders : v # u => job'[v] = job[v]
  BY DEF FunctionsInv
<1>2. \A v \in Loaders : JobOK(job'[v])
  BY <1>1 DEF FunctionsInv
<1>3. \A v \in writers' : v = "broken" \/ (v \in Loaders /\ Loading(job'[v]))
  BY <1>1 DEF FunctionsInv
<1>4. ASSUME NEW v \in Loaders, Loading(job'[v]), writers' \subseteq {v}
      PROVE  BuilderOK(builder, job'[v])
  <2>1. v # "broken"
    BY FunctionsAssumption
  <2>2. writers' = writers
    BY <1>4, <2>1
  <2>3. CASE v # u
    BY <1>1, <1>4, <2>2, <2>3 DEF FunctionsInv
  <2>4. CASE v = u /\ Loading(job[u])
    BY <1>1, <1>4, <2>2, <2>4 DEF FunctionsInv, BuilderOK
  <2>5. CASE v = u /\ ~Loading(job[u])
    <3>1. writers = {}
      <4>1. u \notin writers
        BY <2>1, <2>5 DEF FunctionsInv
      <4>. QED  BY <1>4, <2>2, <2>5, <4>1
    <3>2. Unsent(j) = EntriesOf(j.file)
      BY <1>1, <1>4, <2>5
    <3>3. \A k \in LKeys : j.file[k] # NoValue => <<k, j.file[k]>> \in EntriesOf(j.file)
      BY DEF EntriesOf
    <3>4. BuilderOK(builder, j)
      BY <3>1, <3>2, <3>3 DEF FunctionsInv, BuilderOK
    <3>. QED  BY <1>1, <2>5, <3>4
  <2>. QED  BY <2>3, <2>4, <2>5
<1>5. writers' = {} => writers = {}
  OBVIOUS
<1>. QED  BY <1>1, <1>2, <1>3, <1>4, <1>5 DEF FunctionsInv, BuilderOK, GetLookup

(* Each action keeps the invariant: an update starts,                      *)
LEMMA StartKeeps ==
    ASSUME FunctionsInv, NEW u \in Loaders, StartUpdate(u)
    PROVE  FunctionsInv'
<1>1. PICK f \in Files :
          job' = [job EXCEPT ![u] = [pc |-> "update", file |-> f, todo |-> EntriesOf(f)]]
  BY DEF StartUpdate
<1>2. PICK j : j = [pc |-> "update", file |-> f, todo |-> EntriesOf(f)]
  OBVIOUS
<1>3. j \in Jobs /\ JobOK(j) /\ Unsent(j) = EntriesOf(j.file) /\ Loading(j)
  BY <1>2, EntriesTyped DEF Jobs, JobOK, Unsent, Loading
<1>4. ~Loading(job[u])
  BY DEF StartUpdate, Idle, Loading
<1>. QED  BY <1>1, <1>2, <1>3, <1>4, JobStep DEF StartUpdate, FunctionsInv

(* entries are received,                                                   *)
LEMMA ExtendKeeps ==
    ASSUME FunctionsInv, NEW u \in Loaders, ExtendNextLookupData(u)
    PROVE  FunctionsInv'
<1>1. PICK entries \in SUBSET job[u].todo :
          job' = [job EXCEPT ![u] =
              [pc |-> "inserting", file |-> job[u].file, todo |-> job[u].todo \ entries,
               entries |-> entries]]
  BY DEF ExtendNextLookupData
<1>2. /\ job[u] \in Jobs /\ job[u].pc = "update" /\ Loading(job[u])
      /\ job[u].file \in Files /\ job[u].todo \in SUBSET (LKeys \X LValues)
      /\ job[u].todo \subseteq EntriesOf(job[u].file)
  BY JobKinds DEF ExtendNextLookupData, FunctionsInv, Loading, JobOK, Unsent
<1>3. PICK j : j = [pc |-> "inserting", file |-> job[u].file, todo |-> job[u].todo \ entries,
                    entries |-> entries]
  OBVIOUS
<1>4. /\ j \in Jobs /\ j.pc = "inserting" /\ j.file = job[u].file
      /\ j.todo = job[u].todo \ entries /\ j.entries = entries
  BY <1>2, <1>3 DEF Jobs
<1>5. Unsent(j) = Unsent(job[u]) /\ JobOK(j)
  BY <1>2, <1>4 DEF Unsent, JobOK
<1>6. Loading(j)
  BY <1>4 DEF Loading
<1>. QED  BY <1>1, <1>2, <1>3, <1>4, <1>5, <1>6, JobStep
          DEF ExtendNextLookupData, FunctionsInv

(* extend_next_lookup_data returns,                                        *)
LEMMA ReturnKeeps ==
    ASSUME FunctionsInv, NEW u \in Loaders, ExtendReturns(u)
    PROVE  FunctionsInv'
<1>1. PICK j : j = [pc |-> "update", file |-> job[u].file, todo |-> job[u].todo]
  OBVIOUS
<1>2. /\ job[u] \in Jobs /\ job[u].pc = "inserting" /\ Loading(job[u])
      /\ job[u].file \in Files /\ job[u].todo \in SUBSET (LKeys \X LValues)
      /\ job[u].entries = {} /\ job[u].todo \subseteq EntriesOf(job[u].file)
  BY JobKinds DEF ExtendReturns, FunctionsInv, Loading, JobOK, Unsent
<1>3. j \in Jobs /\ j.pc = "update" /\ j.file = job[u].file /\ j.todo = job[u].todo
  BY <1>1, <1>2 DEF Jobs
<1>4. Unsent(j) = Unsent(job[u]) /\ JobOK(j) /\ Loading(j)
  BY <1>2, <1>3 DEF Unsent, JobOK, Loading
<1>. QED  BY <1>1, <1>2, <1>3, <1>4, JobStep DEF ExtendReturns, FunctionsInv

(* a call fails,                                                           *)
LEMMA FailKeeps ==
    ASSUME FunctionsInv, NEW u \in Loaders, ExtendFails(u) \/ FinishFails(u)
    PROVE  FunctionsInv'
<1>1. PICK j \in {Idle, [pc |-> "exited"]} : job' = [job EXCEPT ![u] = j]
  BY DEF ExtendFails, FinishFails, UpdateDone
<1>2. j \in Jobs /\ ~Loading(j) /\ JobOK(j)
  BY DEF Jobs, Idle, Loading, JobOK
<1>3. /\ writers' = IF u \in writers THEN (writers \ {u}) \cup {"broken"} ELSE writers
      /\ data' = data /\ UNCHANGED <<builder, snapshot, answered>>
  BY DEF ExtendFails, FinishFails, Broken
<1>. QED  BY <1>1, <1>2, <1>3, JobStep DEF FunctionsInv

(* The builder is emptied; every load that goes on has lost its place.     *)
LEMMA EmptyKeeps ==
    ASSUME FunctionsInv, data' \in LookupTables, builder' = EmptyData, NEW idle \in SUBSET Loaders,
           job' = [v \in Loaders |-> IF v \in idle THEN Idle ELSE job[v]],
           writers' = Broken({v \in Loaders \ idle : job[v] # Idle}, Loaders),
           UNCHANGED <<snapshot, answered>>
    PROVE  FunctionsInv'
<1>1. Idle \in Jobs /\ ~Loading(Idle) /\ JobOK(Idle)
  BY DEF Jobs, Idle, Loading, JobOK
<1>2. job' \in [Loaders -> Jobs] /\ \A v \in Loaders : JobOK(job'[v])
  BY <1>1 DEF FunctionsInv
<1>3. writers' \subseteq {"broken"} /\ (writers' = {} => \A v \in Loaders : job'[v] = Idle)
  BY DEF Broken
<1>4. ASSUME NEW v \in Loaders, Loading(job'[v]), writers' \subseteq {v} PROVE FALSE
  <2>1. v # "broken"
    BY FunctionsAssumption
  <2>2. writers' = {}
    BY <1>3, <1>4, <2>1
  <2>. QED  BY <1>1, <1>3, <1>4, <2>2
<1>. QED  BY <1>2, <1>3, <1>4, EmptyTyped DEF FunctionsInv

(* the next data become the current,                                       *)
LEMMA FinishKeeps ==
    ASSUME FunctionsInv, NEW u \in Loaders, FinishNextLookupData(u)
    PROVE  FunctionsInv'
<1>1. job' = [v \in Loaders |-> IF v \in {u} THEN Idle ELSE job[v]]
  BY DEF FinishNextLookupData, UpdateDone, FunctionsInv
<1>2. {u} \in SUBSET Loaders
  OBVIOUS
<1>. QED  BY <1>1, <1>2, EmptyKeeps DEF FinishNextLookupData, FunctionsInv

(* the update is abandoned,                                                *)
LEMMA AbortKeeps ==
    ASSUME FunctionsInv, AbortNextLookupData
    PROVE  FunctionsInv'
<1>1. job' = [v \in Loaders |-> IF v \in {} THEN Idle ELSE job[v]]
  BY DEF AbortNextLookupData, FunctionsInv
<1>2. {v \in Loaders \ {} : job[v] # Idle} = {v \in Loaders : job[v] # Idle}
  OBVIOUS
<1>3. {} \in SUBSET Loaders
  OBVIOUS
<1>. QED  BY <1>1, <1>2, <1>3, EmptyKeeps DEF AbortNextLookupData, FunctionsInv

(* an entry is inserted.                                                   *)
LEMMA InsertKeeps ==
    ASSUME FunctionsInv, NEW u \in Loaders, InsertEntry(u)
    PROVE  FunctionsInv'
<1>1. PICK e \in job[u].entries :
          /\ builder' = [builder EXCEPT ![ShardOf[e[1]]][e[1]] = e[2]]
          /\ job' = [job EXCEPT ![u].entries = @ \ {e}]
  BY DEF InsertEntry
<1>2. PICK j \in Jobs : j = job[u]
  BY DEF FunctionsInv
<1>3. /\ j.pc = "inserting" /\ j.file \in Files /\ j.todo \in SUBSET (LKeys \X LValues)
      /\ j.entries \in SUBSET (LKeys \X LValues) /\ Loading(j)
      /\ j.todo \cap j.entries = {} /\ j.todo \cup j.entries \subseteq EntriesOf(j.file)
  BY <1>2, JobKinds DEF InsertEntry, Loading, FunctionsInv, JobOK, Unsent
<1>4. PICK i : i = [j EXCEPT !.entries = @ \ {e}]
  OBVIOUS
<1>5. /\ i \in Jobs /\ i.pc = "inserting" /\ i.file = j.file /\ i.todo = j.todo
      /\ i.entries = j.entries \ {e}
  <2>1. j \in [pc : {"inserting"}, file : Files, todo : SUBSET (LKeys \X LValues),
               entries : SUBSET (LKeys \X LValues)]
    BY <1>3 DEF Jobs
  <2>2. j.entries \ {e} \in SUBSET (LKeys \X LValues)
    BY <1>3
  <2>3. /\ i \in [pc : {"inserting"}, file : Files, todo : SUBSET (LKeys \X LValues),
                  entries : SUBSET (LKeys \X LValues)]
        /\ i.pc = "inserting" /\ i.file = j.file /\ i.todo = j.todo /\ i.entries = j.entries \ {e}
    BY <1>4, <2>1, <2>2
  <2>. QED  BY <2>3 DEF Jobs
<1>6. /\ job' \in [Loaders -> Jobs] /\ job'[u] = i
      /\ \A v \in Loaders : v # u => job'[v] = job[v]
  <2>1. job' = [job EXCEPT ![u] = i]
    BY <1>1, <1>2, <1>4
  <2>. QED  BY <1>5, <2>1 DEF FunctionsInv
<1>7. /\ e \in EntriesOf(j.file) /\ e[1] \in LKeys /\ e[2] \in LValues /\ e[2] = j.file[e[1]]
      /\ e[2] # NoValue /\ e = <<e[1], e[2]>> /\ ShardOf[e[1]] \in Shards
  BY <1>1, <1>2, <1>3, EntriesTyped, FunctionsAssumption
<1>8. /\ builder' \in LookupTables
      /\ GetLookup(builder', e[1]) = e[2]
      /\ \A k \in LKeys : k # e[1] => GetLookup(builder', k) = GetLookup(builder, k)
  <2>1. builder \in [Shards -> [LKeys -> LValues \cup {NoValue}]]
    BY DEF FunctionsInv, LookupTables, ShardTables
  <2>2. /\ builder' \in [Shards -> [LKeys -> LValues \cup {NoValue}]]
        /\ builder'[ShardOf[e[1]]][e[1]] = e[2]
        /\ \A s \in Shards, k \in LKeys : k # e[1] => builder'[s][k] = builder[s][k]
    BY <1>1, <1>7, <2>1
  <2>. QED  BY <2>2, FunctionsAssumption DEF LookupTables, ShardTables, GetLookup
<1>9. JobOK(i) /\ Loading(i) /\ Unsent(i) = Unsent(j) \ {e} /\ Unsent(j) = j.todo \cup j.entries
  BY <1>1, <1>2, <1>3, <1>5 DEF JobOK, Loading, Unsent
<1>10. ASSUME NEW v \in Loaders, Loading(job'[v]), writers' \subseteq {v}
       PROVE  BuilderOK(builder', job'[v])
  <2>1. v = u /\ writers \subseteq {u}
    BY <1>10 DEF InsertEntry
  <2>2. BuilderOK(builder, j)
    BY <1>2, <1>3, <2>1 DEF FunctionsInv
  <2>3. ASSUME NEW k \in LKeys
        PROVE  GetLookup(builder', k) = IF i.file[k] # NoValue /\ <<k, i.file[k]>> \notin Unsent(i)
                                        THEN i.file[k] ELSE NoValue
    <3>1. CASE k = e[1]
      BY <1>5, <1>7, <1>8, <1>9, <3>1
    <3>2. CASE k # e[1]
      <4>1. <<k, j.file[k]>> # e
        BY <1>7, <3>2
      <4>. QED  BY <1>5, <1>8, <1>9, <2>2, <3>2, <4>1 DEF BuilderOK
    <3>. QED  BY <3>1, <3>2
  <2>. QED  BY <1>6, <2>1, <2>3 DEF BuilderOK
<1>11. \A v \in Loaders : JobOK(job'[v])
  BY <1>6, <1>9 DEF FunctionsInv
<1>12. /\ writers' # {}
       /\ \A v \in writers' : v = "broken" \/ (v \in Loaders /\ Loading(job'[v]))
  BY <1>6, <1>9 DEF FunctionsInv, InsertEntry
<1>. QED  BY <1>6, <1>8, <1>10, <1>11, <1>12 DEF FunctionsInv, InsertEntry

(* Every step keeps it.                                                    *)
LEMMA FunctionsKeeps ==
    ASSUME FunctionsInv, [FunctionsNext]_functionsVars
    PROVE  FunctionsInv'
<1>1. ASSUME UNCHANGED <<data, builder, job, writers>>,
             snapshot' \in [Requests -> LookupTables \cup {NoValue}], DOMAIN answered' = Requests
      PROVE  FunctionsInv'
  BY <1>1 DEF FunctionsInv, BuilderOK, GetLookup
<1>2. CASE UNCHANGED functionsVars \/ Initialize
  BY <1>1, <1>2 DEF FunctionsInv, functionsVars, Initialize
<1>3. ASSUME NEW r \in Requests,
             HandleUserRequest(r) \/ Respond(r) \/ \E k \in LKeys : LookupData(r, k)
      PROVE  FunctionsInv'
  BY <1>1, <1>3 DEF FunctionsInv, HandleUserRequest, Respond, LookupData
<1>. QED  BY <1>2, <1>3, StartKeeps, ExtendKeeps, InsertKeeps, ReturnKeeps, FailKeeps, FinishKeeps,
             AbortKeeps DEF FunctionsNext, Load

(* The invariant holds at first.                                           *)
LEMMA FunctionsStarts ==
    ASSUME FunctionsInit
    PROVE  FunctionsInv
<1>1. Idle \in Jobs /\ ~Loading(Idle) /\ JobOK(Idle)
  BY DEF Jobs, Idle, Loading, JobOK
<1>. QED  BY <1>1, EmptyTyped DEF FunctionsInit, FunctionsInv

(* The builder holds what its loader inserted as long as no other one has  *)
(* written to it, and nothing when nobody has.                             *)
THEOREM FunctionsInvariance == FunctionsSpec => []FunctionsInv
<1>1. FunctionsInit => FunctionsInv
  BY FunctionsStarts
<1>2. FunctionsInv /\ [FunctionsNext]_functionsVars => FunctionsInv'
  BY FunctionsKeeps
<1>. QED  BY <1>1, <1>2, PTL DEF FunctionsSpec

(* finish_next_lookup_data serves exactly the file of a load that had the  *)
(* builder to itself, for any number of loaders and entries.               *)
THEOREM UpdatesAreExact == FunctionsSpec => UpdateIsExact
<1>1. ASSUME FunctionsInv, NEW u \in Loaders, FinishNextLookupData(u), writers \subseteq {u}
      PROVE  Flatten(data') = job[u].file
  <2>1. job[u] \in Jobs /\ job[u].pc = "update" /\ job[u].todo = {} /\ Loading(job[u])
        /\ job[u].file \in Files
    BY <1>1, JobKinds DEF FinishNextLookupData, FunctionsInv, Loading
  <2>2. BuilderOK(builder, job[u]) /\ Unsent(job[u]) = {}
    BY <1>1, <2>1 DEF FunctionsInv, Unsent
  <2>3. \A k \in LKeys : GetLookup(builder, k) = job[u].file[k]
    BY <2>2 DEF BuilderOK
  <2>4. job[u].file \in ShardTables
    BY <2>1, EntriesTyped
  <2>. QED  BY <1>1, <2>3, <2>4 DEF FinishNextLookupData, Flatten, ShardTables
<1>2. FunctionsInv => [\A u \in Loaders : FinishNextLookupData(u) /\ writers \subseteq {u}
                          => Flatten(data') = job[u].file]_functionsVars
  BY <1>1
<1>. QED  BY <1>2, FunctionsInvariance, PTL DEF UpdateIsExact

-----------------------------------------------------------------------------
(* Consistent view: the refinement of AtomicLookup.                        *)
LookupView ==
    [r \in Requests |-> IF snapshot[r] = NoValue THEN NoValue ELSE Flatten(snapshot[r])]

(* The atomic lookup starts as the detailed one.                           *)
LEMMA ViewStarts ==
    ASSUME FunctionsInit
    PROVE  Atomic!Init
<1>1. Flatten(data) = [k \in LKeys |-> NoValue]
  BY EmptyTyped DEF FunctionsInit, Flatten
<1>. QED  BY <1>1 DEF FunctionsInit, Atomic!Init, Atomic!Nothing

(* Every step of Oak Functions is a step of AtomicLookup or leaves what it *)
(* shows alone.                                                            *)
LEMMA ViewSteps ==
    ASSUME FunctionsInv, [FunctionsNext]_functionsVars
    PROVE  [Atomic!Next]_<<Flatten(data), LookupView, answered>>
<1>1. ASSUME UNCHANGED <<data, snapshot, answered>>
      PROVE  UNCHANGED <<Flatten(data), LookupView, answered>>
  BY <1>1 DEF Flatten, GetLookup, LookupView
<1>2. ASSUME NEW u \in Loaders, FinishNextLookupData(u)
      PROVE  Atomic!Replace
  <2>1. Flatten(builder) \in ShardTables
    BY LookupTyped DEF FunctionsInv
  <2>2. Flatten(data') \in ShardTables
    BY <1>2, <2>1 DEF FinishNextLookupData
  <2>. QED  BY <1>2, <2>2 DEF FinishNextLookupData, Atomic!Replace, Atomic!Tables, ShardTables,
                              LookupView
<1>3. ASSUME NEW r \in Requests, HandleUserRequest(r)
      PROVE  Atomic!Arrive(r)
  <2>1. data # NoValue
    BY LookupTyped DEF FunctionsInv
  <2>2. /\ snapshot \in [Requests -> LookupTables \cup {NoValue}] /\ snapshot[r] = NoValue
        /\ snapshot' = [snapshot EXCEPT ![r] = data] /\ data' = data /\ answered' = answered
    BY <1>3 DEF HandleUserRequest, FunctionsInv
  <2>3. LookupView[r] = NoValue /\ LookupView' = [LookupView EXCEPT ![r] = Flatten(data)]
    BY <2>1, <2>2 DEF LookupView
  <2>. QED  BY <2>2, <2>3 DEF Atomic!Arrive, LookupView, Flatten, GetLookup
<1>4. ASSUME NEW r \in Requests, NEW k \in LKeys, LookupData(r, k)
      PROVE  Atomic!Answer(r, k)
  <2>1. /\ snapshot[r] \in LookupTables /\ snapshot[r] # NoValue
        /\ snapshot' = snapshot /\ data' = data
        /\ answered' = [answered EXCEPT ![r] = @ \cup {<<k, GetLookup(snapshot[r], k)>>}]
    BY <1>4 DEF LookupData, FunctionsInv
  <2>2. /\ LookupView[r] # NoValue /\ LookupView[r][k] = GetLookup(snapshot[r], k)
    BY <2>1, LookupTyped DEF LookupView, Flatten
  <2>. QED  BY <2>1, <2>2 DEF Atomic!Answer, LookupView, Flatten, GetLookup
<1>5. ASSUME NEW r \in Requests, Respond(r)
      PROVE  Atomic!Leave(r)
  <2>1. /\ snapshot[r] \in LookupTables /\ snapshot[r] # NoValue
        /\ snapshot \in [Requests -> LookupTables \cup {NoValue}]
        /\ snapshot' = [snapshot EXCEPT ![r] = NoValue] /\ data' = data
        /\ answered' = [answered EXCEPT ![r] = {}]
    BY <1>5 DEF Respond, FunctionsInv
  <2>2. LookupView[r] # NoValue /\ LookupView' = [LookupView EXCEPT ![r] = NoValue]
    BY <2>1, LookupTyped DEF LookupView
  <2>. QED  BY <2>1, <2>2 DEF Atomic!Leave, LookupView, Flatten, GetLookup
<1>6. CASE UNCHANGED functionsVars \/ Initialize \/ AbortNextLookupData
  BY <1>1, <1>6 DEF functionsVars, Initialize, AbortNextLookupData
<1>7. ASSUME NEW u \in Loaders, StartUpdate(u) \/ Load(u) \/ ExtendFails(u) \/ FinishFails(u)
      PROVE  UNCHANGED <<data, snapshot, answered>>
  BY <1>7 DEF StartUpdate, Load, ExtendNextLookupData, InsertEntry, ExtendReturns, ExtendFails,
              FinishFails
<1>. QED  BY <1>1, <1>2, <1>3, <1>4, <1>5, <1>6, <1>7 DEF FunctionsNext, Atomic!Next

(* oak_functions_service's README promises a consistent view of the lookup *)
(* data: whatever the loaders do, for any number of requests, what Oak     *)
(* Functions shows is a behaviour of AtomicLookup.                         *)
THEOREM LookupsAreConsistent == FunctionsSpec => ConsistentView
<1>1. FunctionsInit => Atomic!Init
  BY ViewStarts
<1>2. FunctionsInv /\ [FunctionsNext]_functionsVars
      => [Atomic!Next]_<<Flatten(data), LookupView, answered>>
  BY ViewSteps
<1>. QED  BY <1>1, <1>2, FunctionsInvariance, PTL
          DEF FunctionsSpec, ConsistentView, Atomic!Spec, LookupView

-----------------------------------------------------------------------------
(* The channel, as long as no frame was torn.                              *)
Frames == [start : BOOLEAN, end : BOOLEAN, message : 1..MaxCalls, part : Nat \ {0}]
FrameSeq == {s \in Seq(Frames) : \A i \in 1..Len(s) : s[i].start = (s[i].part = 1)}

(* Frame g may come right after frame f.                                   *)
Follows(f, g) ==
    IF f.end THEN g.part = 1 ELSE g.message = f.message /\ g.part = f.part + 1
Chain(s) == \A i \in 1..(Len(s) - 1) : Follows(s[i], s[i + 1])
Link(s, t) == s # << >> /\ t # << >> => Follows(s[Len(s)], t[1])
End(s) == s # << >> => s[Len(s)].end

(* What was read, what is on the way and what is to be written.            *)
Stream(r, h, g) ==
    /\ Chain(h) /\ Chain(g)
    /\ Link(r, h) /\ Link(h, g) /\ (h = << >> => Link(r, g))
    /\ End(g)
    /\ g = << >> => End(h)
    /\ g = << >> /\ h = << >> => End(r)

(* The frames of one message from its first on; only the last may end it.  *)
Prefix(r) ==
    \A i \in 1..Len(r) : /\ r[i].message = r[1].message /\ r[i].part = i
                         /\ i < Len(r) => ~r[i].end

Outcomes == {Waiting, Left, Error} \cup [state : {"answered"}, frames : Seq(Frames)]

ConnectorRead == IF connector.pc = "read" THEN connector.read ELSE << >>
GuestFrames == IF guest.pc = "write" THEN guest.frames ELSE << >>

ConnectorOK ==
    \/ connector = Free \/ connector = Dead
    \/ /\ connector \in [pc : {"write"}, call : 1..MaxCalls, id : Nat, frames : Seq(Frames)]
       /\ connector.frames \in FrameSeq /\ connector.frames # << >>
       /\ connector.id = InvocationId(connector.call)
    \/ /\ connector \in [pc : {"read"}, call : 1..MaxCalls, id : Nat, read : Seq(Frames)]
       /\ connector.read \in FrameSeq /\ Prefix(connector.read)
       /\ connector.id = InvocationId(connector.call)

GuestOK ==
    \/ guest = Dead
    \/ guest \in [pc : {"read"}, read : Seq(Frames)] /\ guest.read \in FrameSeq
    \/ /\ guest \in [pc : {"write"}, frames : Seq(Frames)]
       /\ guest.frames \in FrameSeq /\ guest.frames # << >>

OutcomesOK ==
    outcome \in Seq(Outcomes) /\ Len(outcome) <= MaxCalls /\ calls \in Seq(1..MaxCalls)

(* Every answer is the call's own.                                         *)
AllOwn ==
    \A n \in DOMAIN outcome :
        outcome[n].state = "answered" =>
            outcome[n].frames = IntoFrames(n, Len(outcome[n].frames))

(* The invariant of streams whose frames are whole.                        *)
WholeInv ==
    /\ OutcomesOK /\ ConnectorOK /\ GuestOK
    /\ to_guest \in FrameSeq /\ to_host \in FrameSeq
    /\ Stream(ConnectorRead, to_host, GuestFrames)
    /\ AllOwn

-----------------------------------------------------------------------------
(* Sequences of frames, first and last ones.                               *)
LEMMA FrameTail ==
    ASSUME NEW s \in FrameSeq, s # << >>
    PROVE  /\ s \in Seq(Frames) /\ Len(s) \in Nat \ {0} /\ s[1] = Head(s)
           /\ Head(s) \in Frames /\ Head(s).start = (Head(s).part = 1)
           /\ Tail(s) \in FrameSeq /\ Len(Tail(s)) = Len(s) - 1
           /\ \A i \in 1..Len(Tail(s)) : Tail(s)[i] = s[i + 1]
           /\ Tail(s) = << >> <=> Len(s) = 1
<1>1. s \in Seq(Frames) /\ Len(s) \in Nat \ {0} /\ s[1] = Head(s) /\ Head(s) \in Frames
  BY DEF FrameSeq
<1>2. Head(s).start = (Head(s).part = 1)
  BY <1>1 DEF FrameSeq
<1>3. /\ Tail(s) \in Seq(Frames) /\ Len(Tail(s)) = Len(s) - 1
      /\ \A i \in 1..Len(Tail(s)) : Tail(s)[i] = s[i + 1]
      /\ Tail(s) = << >> <=> Len(s) = 1
  <2>1. /\ Tail(s) \in Seq(Frames) /\ Len(Tail(s)) = Len(s) - 1
        /\ \A i \in 1..Len(Tail(s)) : Tail(s)[i] = s[i + 1]
    BY <1>1, HeadTailProperties
  <2>2. Tail(s) = << >> <=> Len(Tail(s)) = 0
    BY <2>1, EmptySeq
  <2>. QED  BY <1>1, <2>1, <2>2
<1>4. Tail(s) \in FrameSeq
  <2>1. \A i \in 1..Len(Tail(s)) : i + 1 \in 1..Len(s)
    BY <1>1, <1>3
  <2>. QED  BY <1>3, <2>1 DEF FrameSeq
<1>. QED  BY <1>1, <1>2, <1>3, <1>4

(* One frame more.                                                         *)
LEMMA FrameAppend ==
    ASSUME NEW s \in FrameSeq, NEW f \in Frames, f.start = (f.part = 1)
    PROVE  LET t == Append(s, f)
           IN  /\ t \in FrameSeq /\ Len(t) = Len(s) + 1 /\ Len(s) \in Nat /\ t # << >>
               /\ \A i \in 1..Len(s) : t[i] = s[i]
               /\ t[Len(s) + 1] = f
<1>. DEFINE t == Append(s, f)
<1>1. s \in Seq(Frames)
  BY DEF FrameSeq
<1>2. /\ t \in Seq(Frames) /\ Len(t) = Len(s) + 1 /\ Len(s) \in Nat /\ t # << >>
      /\ \A i \in 1..Len(s) : t[i] = s[i]
      /\ t[Len(s) + 1] = f
  BY <1>1, AppendProperties
<1>. HIDE DEF t
<1>3. \A i \in 1..Len(t) : t[i].start = (t[i].part = 1)
  <2>1. ASSUME NEW i \in 1..Len(t) PROVE i \in 1..Len(s) \/ i = Len(s) + 1
    BY <1>2
  <2>. QED  BY <1>2, <2>1 DEF FrameSeq
<1>. QED  BY <1>2, <1>3 DEF FrameSeq, t

(* The frames of a message chain from its start to its end.                *)
LEMMA FramesOfMessage ==
    ASSUME NEW n \in 1..MaxCalls, NEW k \in Nat \ {0}
    PROVE  LET s == IntoFrames(n, k)
           IN  /\ s \in FrameSeq /\ s # << >> /\ s[1].part = 1
               /\ Chain(s) /\ s[Len(s)].end
<1>. DEFINE s == IntoFrames(n, k)
<1>1. /\ s \in Seq(Frames) /\ Len(s) = k
      /\ \A i \in 1..k : s[i] = [start |-> i = 1, end |-> i = k, message |-> n, part |-> i]
  BY DEF IntoFrames, Frames
<1>. HIDE DEF s
<1>2. s \in FrameSeq
  BY <1>1 DEF FrameSeq
<1>3. \A i \in 1..k : s[i].end = (i = k) /\ s[i].message = n /\ s[i].part = i
  BY <1>1
<1>4. s # << >> /\ s[1].part = 1 /\ s[Len(s)].end
  <2>1. 1 \in 1..k /\ k \in 1..k /\ s # << >>
    BY <1>1
  <2>2. s[1].part = 1
    BY <1>3, <2>1
  <2>3. s[k].end = TRUE
    BY <1>3, <2>1
  <2>. QED  BY <1>1, <2>1, <2>2, <2>3
<1>5. Chain(s)
  <2>1. ASSUME NEW i \in 1..(Len(s) - 1) PROVE Follows(s[i], s[i + 1])
    <3>1. i \in 1..k /\ i + 1 \in 1..k /\ i # k
      BY <1>1
    <3>2. s[i].end = FALSE
      BY <1>3, <3>1
    <3>. QED  BY <1>3, <3>1, <3>2 DEF Follows
  <2>. QED  BY <2>1 DEF Chain
<1>. QED  BY <1>2, <1>4, <1>5 DEF s

-----------------------------------------------------------------------------
(* How the stream moves: a call gives up, a frame is read, a frame is      *)
(* written, an answer begins.                                              *)
LEMMA StreamForgotten ==
    ASSUME NEW r, NEW h, NEW g, Stream(r, h, g)
    PROVE  Stream(<< >>, h, g)
  BY DEF Stream, Link, End

(* A frame is read,                                                        *)
LEMMA StreamRead ==
    ASSUME NEW r \in FrameSeq, NEW h \in FrameSeq, NEW g \in FrameSeq,
           Stream(r, h, g), h # << >>
    PROVE  Stream(Append(r, Head(h)), Tail(h), g)
<1>. DEFINE t == Tail(h)
            u == Append(r, Head(h))
<1>1. /\ Len(h) \in Nat \ {0} /\ h[1] = Head(h) /\ Len(t) = Len(h) - 1 /\ t \in FrameSeq
      /\ \A i \in 1..Len(t) : t[i] = h[i + 1]
      /\ t = << >> <=> Len(h) = 1
      /\ Head(h) \in Frames /\ Head(h).start = (Head(h).part = 1)
  BY FrameTail
<1>2. u # << >> /\ u[Len(u)] = h[1]
  BY <1>1, FrameAppend
<1>. HIDE DEF t, u
<1>3. Chain(t)
  BY <1>1 DEF Chain, Stream
<1>4. Link(u, t)
  <2>1. t # << >> => Follows(h[1], h[2]) /\ t[1] = h[2]
    BY <1>1 DEF Stream, Chain
  <2>. QED  BY <1>2, <2>1 DEF Link
<1>5. t # << >> => t[Len(t)] = h[Len(h)]
  BY <1>1
<1>6. t = << >> => u[Len(u)] = h[Len(h)]
  BY <1>1, <1>2
<1>. QED  BY <1>2, <1>3, <1>4, <1>5, <1>6 DEF Stream, Link, End, t, u

(* a frame is written,                                                     *)
LEMMA StreamWritten ==
    ASSUME NEW r \in FrameSeq, NEW h \in FrameSeq, NEW g \in FrameSeq,
           Stream(r, h, g), g # << >>
    PROVE  Stream(r, Append(h, Head(g)), Tail(g))
<1>. DEFINE t == Tail(g)
            u == Append(h, Head(g))
<1>1. /\ Len(g) \in Nat \ {0} /\ g[1] = Head(g) /\ Len(t) = Len(g) - 1 /\ t \in FrameSeq
      /\ \A i \in 1..Len(t) : t[i] = g[i + 1]
      /\ t = << >> <=> Len(g) = 1
      /\ Head(g) \in Frames /\ Head(g).start = (Head(g).part = 1)
  BY FrameTail
<1>2. /\ Len(u) = Len(h) + 1 /\ Len(h) \in Nat /\ u # << >>
      /\ \A i \in 1..Len(h) : u[i] = h[i]
      /\ u[Len(h) + 1] = g[1]
  BY <1>1, FrameAppend
<1>. HIDE DEF t, u
<1>3. Chain(t)
  BY <1>1 DEF Chain, Stream
<1>4. h # << >> => Len(h) > 0 /\ Follows(h[Len(h)], g[1])
  BY <1>1 DEF Stream, Link, FrameSeq
<1>5. Chain(u)
  <2>1. ASSUME NEW i \in 1..(Len(u) - 1) PROVE Follows(u[i], u[i + 1])
    <3>1. CASE i = Len(h)
      BY <1>2, <1>4, <3>1
    <3>2. CASE i < Len(h)
      BY <1>2, <3>2 DEF Stream, Chain
    <3>. QED  BY <1>2, <3>1, <3>2
  <2>. QED  BY <2>1 DEF Chain
<1>6. Link(r, u)
  <2>1. CASE h = << >>
    BY <1>1, <1>2, <2>1 DEF Stream, Link
  <2>2. CASE h # << >>
    BY <1>2, <1>4, <2>2 DEF Stream, Link
  <2>. QED  BY <2>1, <2>2
<1>7. Link(u, t)
  <2>1. t # << >> => Follows(g[1], g[2]) /\ t[1] = g[2]
    BY <1>1 DEF Stream, Chain
  <2>. QED  BY <1>2, <2>1 DEF Link
<1>8. End(t)
  BY <1>1 DEF Stream, End
<1>9. t = << >> => End(u)
  BY <1>1, <1>2 DEF Stream, End
<1>. QED  BY <1>2, <1>3, <1>5, <1>6, <1>7, <1>8, <1>9 DEF Stream, t, u

(* and the frames of a next message follow.                                *)
LEMMA StreamBegun ==
    ASSUME NEW r, NEW h, NEW g, Stream(r, h, << >>),
           g # << >>, Chain(g), g[1].part = 1, g[Len(g)].end
    PROVE  Stream(r, h, g)
  BY DEF Stream, Link, End, Follows

-----------------------------------------------------------------------------
(* A task that ends, or that answers one call, leaves the outcomes in      *)
(* order and forgets what it has read.                                     *)
LEMMA PanicOutcomes ==
    ASSUME OutcomesOK, AllOwn, Panic
    PROVE  OutcomesOK' /\ AllOwn' /\ connector' = Dead
<1>1. /\ outcome \in Seq(Outcomes) /\ Len(outcome) \in Nat /\ DOMAIN outcome = 1..Len(outcome)
  BY DEF OutcomesOK
<1>2. Error \in Outcomes /\ Error.state # "answered"
  BY DEF Error, Outcomes
<1>3. /\ outcome' = [n \in 1..Len(outcome) |-> IF outcome[n] = Waiting THEN Error ELSE outcome[n]]
      /\ calls' = << >> /\ connector' = Dead
  BY <1>1 DEF Panic
<1>. HIDE DEF Outcomes
<1>4. outcome' \in Seq(Outcomes) /\ Len(outcome') = Len(outcome)
  BY <1>1, <1>2, <1>3
<1>5. AllOwn'
  BY <1>1, <1>2, <1>3 DEF AllOwn, Error
<1>. QED  BY <1>3, <1>4, <1>5 DEF OutcomesOK

(* A call is answered once.                                                *)
LEMMA AnswerOutcomes ==
    ASSUME OutcomesOK, AllOwn, NEW n, NEW result \in Outcomes,
           result.state = "answered" => result.frames = IntoFrames(n, Len(result.frames)),
           Answer(n, result)
    PROVE  OutcomesOK' /\ AllOwn' /\ (connector' = Free \/ connector' = Dead)
<1>1. CASE outcome[n] = Left
  BY <1>1, PanicOutcomes DEF Answer
<1>2. CASE outcome[n] # Left
  <2>1. outcome' = [outcome EXCEPT ![n] = result] /\ connector' = Free /\ calls' = calls
    BY <1>2 DEF Answer
  <2>2. outcome' \in Seq(Outcomes) /\ Len(outcome') = Len(outcome)
    <3>1. outcome \in Seq(Outcomes) /\ Len(outcome) \in Nat
      BY DEF OutcomesOK
    <3>2. CASE n \in 1..Len(outcome)
      BY <2>1, <3>1, <3>2, ExceptSeq
    <3>3. CASE n \notin 1..Len(outcome)
      <4>1. outcome' = outcome
        BY <2>1, <3>1, <3>3
      <4>. QED  BY <3>1, <4>1
    <3>. QED  BY <3>2, <3>3
  <2>3. AllOwn'
    BY <2>1 DEF AllOwn
  <2>. QED  BY <2>1, <2>2, <2>3 DEF OutcomesOK
<1>. QED  BY <1>1, <1>2

(* A step that ends the connector's call and leaves the frames alone.      *)
LEMMA CallEnds ==
    ASSUME WholeInv, OutcomesOK', AllOwn', connector' = Free \/ connector' = Dead,
           UNCHANGED <<to_guest, guest>>,
           to_host' = to_host \/ (to_host # << >> /\ to_host' = Tail(to_host))
    PROVE  WholeInv'
<1>1. ConnectorOK' /\ ConnectorRead' = << >>
  BY DEF ConnectorOK, ConnectorRead, Free, Dead
<1>2. GuestFrames' = GuestFrames /\ GuestOK'
  BY DEF GuestFrames, WholeInv, GuestOK
<1>3. GuestFrames \in FrameSeq /\ ConnectorRead \in FrameSeq
  BY DEF GuestFrames, ConnectorRead, WholeInv, GuestOK, ConnectorOK, FrameSeq, Dead, Free
<1>4. Stream(ConnectorRead, to_host, GuestFrames) /\ to_host \in FrameSeq /\ to_guest \in FrameSeq
  BY DEF WholeInv
<1>5. CASE to_host' = to_host
  BY <1>1, <1>2, <1>4, <1>5, StreamForgotten DEF WholeInv
<1>6. CASE to_host # << >> /\ to_host' = Tail(to_host)
  <2>1. to_host' \in FrameSeq
    BY <1>4, <1>6, FrameTail
  <2>2. Stream(Append(ConnectorRead, Head(to_host)), Tail(to_host), GuestFrames)
    BY <1>3, <1>4, <1>6, StreamRead
  <2>3. Stream(<< >>, Tail(to_host), GuestFrames)
    BY <2>2, StreamForgotten
  <2>. QED  BY <1>1, <1>2, <1>4, <1>6, <2>1, <2>3 DEF WholeInv
<1>. QED  BY <1>5, <1>6

-----------------------------------------------------------------------------
(* Each action keeps the invariant: a call,                                *)
LEMMA InvokeInv == ASSUME WholeInv, Invoke PROVE WholeInv'
<1>1. /\ Error \in Outcomes /\ Error.state # "answered"
      /\ Waiting \in Outcomes /\ Waiting.state # "answered"
  BY DEF Error, Waiting, Outcomes
<1>2. PICK r \in {Error, Waiting} : outcome' = Append(outcome, r)
  BY DEF Invoke, streamVars
<1>3. outcome \in Seq(Outcomes) /\ Len(outcome) \in Nat /\ Len(outcome) < MaxCalls
  BY DEF WholeInv, OutcomesOK, Invoke
<1>4. /\ outcome' \in Seq(Outcomes) /\ Len(outcome') = Len(outcome) + 1
      /\ \A i \in 1..Len(outcome) : outcome'[i] = outcome[i]
      /\ outcome'[Len(outcome) + 1] = r
      /\ DOMAIN outcome' = 1..(Len(outcome) + 1) /\ DOMAIN outcome = 1..Len(outcome)
  <2>. HIDE DEF Outcomes
  <2>. QED  BY <1>1, <1>2, <1>3, AppendProperties
<1>5. calls' \in Seq(1..MaxCalls)
  <2>1. calls \in Seq(1..MaxCalls) /\ Len(outcome) + 1 \in 1..MaxCalls
    BY <1>3, ChannelAssumption DEF WholeInv, OutcomesOK
  <2>2. CASE calls' = calls
    BY <2>1, <2>2
  <2>3. CASE calls' = Append(calls, Len(outcome) + 1)
    BY <2>1, <2>3, AppendProperties
  <2>. QED  BY <2>2, <2>3 DEF Invoke, streamVars
<1>6. OutcomesOK'
  BY <1>3, <1>4, <1>5, ChannelAssumption DEF OutcomesOK
<1>7. AllOwn'
  BY <1>1, <1>2, <1>3, <1>4 DEF WholeInv, AllOwn
<1>. QED  BY <1>6, <1>7
          DEF Invoke, streamVars, WholeInv, ConnectorOK, GuestOK, ConnectorRead, GuestFrames

(* a caller that leaves,                                                   *)
LEMMA LeaveInv == ASSUME WholeInv, NEW n \in DOMAIN outcome, Leave(n) PROVE WholeInv'
<1>1. Left \in Outcomes /\ Left.state # "answered"
  BY DEF Left, Outcomes
<1>2. OutcomesOK'
  <2>. HIDE DEF Outcomes
  <2>. QED  BY <1>1 DEF Leave, streamVars, WholeInv, OutcomesOK
<1>3. AllOwn'
  BY <1>1 DEF Leave, streamVars, WholeInv, AllOwn
<1>. QED  BY <1>2, <1>3
          DEF Leave, streamVars, WholeInv, ConnectorOK, GuestOK, ConnectorRead, GuestFrames

(* the connector that takes a request,                                     *)
LEMMA TakeRequestInv == ASSUME WholeInv, TakeRequest PROVE WholeInv'
<1>1. PICK k \in FrameCounts :
         connector' = [pc |-> "write", call |-> Head(calls), id |-> InvocationId(Head(calls)),
                       frames |-> IntoFrames(Head(calls), k)]
  BY DEF TakeRequest, streamVars
<1>2. calls \in Seq(1..MaxCalls) /\ calls # << >> /\ Head(calls) \in 1..MaxCalls
      /\ Tail(calls) \in Seq(1..MaxCalls)
  <2>1. calls \in Seq(1..MaxCalls) /\ calls # << >>
    BY DEF TakeRequest, streamVars, WholeInv, OutcomesOK
  <2>. QED  BY <2>1, HeadTailProperties
<1>3. IntoFrames(Head(calls), k) \in FrameSeq /\ IntoFrames(Head(calls), k) # << >>
  BY <1>2, FramesOfMessage, ChannelAssumption
<1>4. InvocationId(Head(calls)) \in Nat
  BY <1>2, ChannelAssumption DEF InvocationId
<1>5. ConnectorOK' /\ ConnectorRead' = << >> /\ ConnectorRead = << >>
  BY <1>1, <1>2, <1>3, <1>4 DEF ConnectorOK, ConnectorRead, TakeRequest, Free, FrameSeq
<1>6. OutcomesOK' /\ AllOwn'
  BY <1>2 DEF TakeRequest, streamVars, WholeInv, OutcomesOK, AllOwn
<1>. QED  BY <1>5, <1>6 DEF TakeRequest, streamVars, WholeInv, GuestOK, GuestFrames

(* writes it,                                                              *)
LEMMA WriteFrameInv == ASSUME WholeInv, WriteFrame PROVE WholeInv'
<1>1. /\ connector \in [pc : {"write"}, call : 1..MaxCalls, id : Nat, frames : Seq(Frames)]
      /\ connector.frames \in FrameSeq /\ connector.frames # << >>
      /\ connector.id = InvocationId(connector.call)
  BY DEF WriteFrame, WholeInv, ConnectorOK, Free, Dead
<1>. DEFINE fs == connector.frames
<1>2. /\ Len(fs) \in Nat \ {0} /\ Head(fs) \in Frames /\ Head(fs).start = (Head(fs).part = 1)
      /\ Tail(fs) \in FrameSeq /\ (Tail(fs) = << >> <=> Len(fs) = 1)
  BY <1>1, FrameTail
<1>3. to_guest' \in FrameSeq
  BY <1>2, FrameAppend DEF WriteFrame, WholeInv
<1>4. ConnectorOK' /\ ConnectorRead' = << >> /\ ConnectorRead = << >>
  <2>1. CASE Len(fs) > 1
    <3>1. connector' = [connector EXCEPT !.frames = Tail(fs)]
      BY <2>1 DEF WriteFrame
    <3>2. Tail(fs) \in Seq(Frames) /\ Tail(fs) # << >>
      <4>1. PICK l \in Nat : l = Len(fs)
        BY <1>2
      <4>. HIDE DEF fs
      <4>2. Len(fs) # 1
        BY <2>1, <4>1
      <4>. QED  BY <1>2, <4>2 DEF FrameSeq
    <3>. QED  BY <1>1, <1>2, <3>1, <3>2 DEF ConnectorOK, ConnectorRead
  <2>2. CASE ~(Len(fs) > 1)
    <3>1. connector' = [pc |-> "read", call |-> connector.call, id |-> connector.id, read |-> << >>]
      BY <2>2 DEF WriteFrame
    <3>2. << >> \in FrameSeq /\ Prefix(<< >>) /\ << >> \in Seq(Frames)
      BY DEF FrameSeq, Prefix
    <3>. QED  BY <1>1, <3>1, <3>2 DEF ConnectorOK, ConnectorRead
  <2>. QED  BY <2>1, <2>2
<1>. QED  BY <1>3, <1>4 DEF WriteFrame, WholeInv, OutcomesOK, GuestOK, GuestFrames, AllOwn

(* reads a frame,                                                          *)
LEMMA ReadFrameInv == ASSUME WholeInv, ReadFrame PROVE WholeInv'
<1>1. /\ connector \in [pc : {"read"}, call : 1..MaxCalls, id : Nat, read : Seq(Frames)]
      /\ connector.read \in FrameSeq /\ Prefix(connector.read)
      /\ connector.id = InvocationId(connector.call)
  BY DEF ReadFrame, TakeFrame, Whole, WholeInv, ConnectorOK, Free, Dead
<1>. DEFINE r == connector.read
            f == Head(to_host)
<1>2. to_host \in FrameSeq /\ to_host # << >> /\ to_host' = Tail(to_host)
      /\ UNCHANGED <<to_guest, guest>> /\ ~Complete(r)
  BY DEF ReadFrame, TakeFrame, Whole, WholeInv
<1>3. /\ f \in Frames /\ f.start = (f.part = 1) /\ to_host[1] = f /\ Tail(to_host) \in FrameSeq
  BY <1>2, FrameTail
<1>4. CASE Refused(r, f)
  <2>1. Answer(connector.call, Error) /\ Error \in Outcomes /\ Error.state # "answered"
    BY <1>4 DEF ReadFrame, TakeFrame, Whole, Error, Outcomes
  <2>2. OutcomesOK' /\ AllOwn' /\ (connector' = Free \/ connector' = Dead)
    BY <2>1, AnswerOutcomes DEF WholeInv
  <2>. QED  BY <1>2, <2>2, CallEnds
<1>5. CASE ~Refused(r, f)
  <2>. DEFINE t == Append(r, f)
  <2>1. connector' = [connector EXCEPT !.read = t] /\ UNCHANGED <<calls, outcome>>
    BY <1>5 DEF ReadFrame, TakeFrame, Whole
  <2>2. /\ t \in FrameSeq /\ Len(t) = Len(r) + 1 /\ Len(r) \in Nat /\ t # << >>
        /\ \A i \in 1..Len(r) : t[i] = r[i]
        /\ t[Len(r) + 1] = f
    BY <1>1, <1>3, FrameAppend
  <2>3. Stream(r, to_host, GuestFrames) /\ GuestFrames \in FrameSeq
    BY <1>1 DEF WholeInv, ConnectorRead, GuestFrames, GuestOK, Dead, FrameSeq
  <2>4. Stream(t, Tail(to_host), GuestFrames)
    BY <1>1, <1>2, <2>3, StreamRead
  (* The frame begins a message, or goes on with the one being read.       *)
  <2>5. r = << >> => f.part = 1
    BY <1>3, <1>5 DEF Refused
  <2>6. r # << >> => Len(r) \in 1..Len(r) /\ ~r[Len(r)].end
    BY <1>1, <1>2 DEF Complete, FrameSeq
  <2>7. r # << >> => f.message = r[Len(r)].message /\ f.part = r[Len(r)].part + 1
    BY <1>2, <1>3, <2>3, <2>6 DEF Stream, Link, Follows
  <2>. HIDE DEF t
  <2>8. Prefix(t)
    <3>1. CASE r = << >>
      <4>1. Len(t) = 1 /\ t[1] = f
        BY <2>2, <3>1
      <4>. QED  BY <2>5, <3>1, <4>1 DEF Prefix
    <3>2. CASE r # << >>
      <4>1. /\ r[Len(r)].message = r[1].message /\ r[Len(r)].part = Len(r)
            /\ Len(r) > 0
        BY <1>1, <2>6, <3>2 DEF Prefix
      <4>2. t[1] = r[1]
        BY <2>2, <4>1
      <4>3. ASSUME NEW i \in 1..Len(t)
            PROVE  /\ t[i].message = t[1].message /\ t[i].part = i
                   /\ i < Len(t) => ~t[i].end
        <5>1. CASE i = Len(r) + 1
          BY <2>2, <2>7, <3>2, <4>1, <4>2, <5>1
        <5>2. CASE i \in 1..Len(r)
          <6>1. t[i] = r[i] /\ r[i].message = r[1].message /\ r[i].part = i
            BY <1>1, <2>2, <5>2 DEF Prefix
          <6>2. ~r[i].end
            BY <1>1, <2>2, <2>6, <3>2, <5>2 DEF Prefix
          <6>. QED  BY <4>2, <6>1, <6>2
        <5>. QED  BY <2>2, <5>1, <5>2
      <4>. QED  BY <4>3 DEF Prefix
    <3>. QED  BY <3>1, <3>2
  <2>9. ConnectorOK' /\ ConnectorRead' = t
    <3>1. t \in Seq(Frames)
      BY <2>2 DEF FrameSeq
    <3>2. /\ connector' \in [pc : {"read"}, call : 1..MaxCalls, id : Nat, read : Seq(Frames)]
          /\ connector'.read = t /\ connector'.pc = "read"
          /\ connector'.id = connector.id /\ connector'.call = connector.call
      BY <1>1, <2>1, <3>1
    <3>. QED  BY <1>1, <2>2, <2>8, <3>2 DEF ConnectorOK, ConnectorRead
  <2>10. GuestFrames' = GuestFrames /\ GuestOK'
    BY <1>2 DEF GuestFrames, GuestOK, WholeInv
  <2>11. OutcomesOK' /\ AllOwn'
    BY <2>1 DEF WholeInv, OutcomesOK, AllOwn
  <2>. QED  BY <1>2, <1>3, <2>4, <2>9, <2>10, <2>11 DEF WholeInv
<1>. QED  BY <1>4, <1>5

(* As long as no id has been used twice, an id tells the calls apart.      *)
LEMMA IdsDiffer ==
    ASSUME MaxCalls <= IdModulus, NEW n \in 1..MaxCalls, NEW k \in 1..MaxCalls,
           InvocationId(n) = InvocationId(k)
    PROVE  n = k
<1>1. \A x \in 1..IdModulus : x % IdModulus = IF x = IdModulus THEN 0 ELSE x
  BY ChannelAssumption
<1>. QED  BY <1>1, ChannelAssumption DEF InvocationId

(* and has the whole response;                                             *)
LEMMA TakeResponseInv ==
    ASSUME MaxCalls <= IdModulus, WholeInv, TakeResponse
    PROVE  WholeInv'
<1>1. /\ connector \in [pc : {"read"}, call : 1..MaxCalls, id : Nat, read : Seq(Frames)]
      /\ connector.read \in FrameSeq /\ Prefix(connector.read)
      /\ connector.id = InvocationId(connector.call)
  BY DEF TakeResponse, streamVars, WholeInv, ConnectorOK, Free, Dead
<1>. DEFINE r == connector.read
            n == connector.call
<1>2. UNCHANGED <<to_guest, to_host, guest>> /\ Complete(r)
  BY DEF TakeResponse, streamVars
<1>3. CASE InvocationId(r[1].message) # connector.id
  <2>1. Panic
    BY <1>3 DEF TakeResponse, streamVars
  <2>2. OutcomesOK' /\ AllOwn' /\ connector' = Dead
    BY <2>1, PanicOutcomes DEF WholeInv
  <2>. QED  BY <1>2, <2>2, CallEnds
<1>4. CASE InvocationId(r[1].message) = connector.id
  <2>1. r \in Seq(Frames) /\ Len(r) \in Nat \ {0} /\ 1 \in 1..Len(r) /\ r[Len(r)].end
    BY <1>1, <1>2 DEF Complete, FrameSeq
  <2>2. r[1].message = n
    <3>1. r[1] \in Frames
      BY <2>1
    <3>2. r[1].message \in 1..MaxCalls
      BY <3>1 DEF Frames
    <3>. QED  BY <1>1, <1>4, <3>2, IdsDiffer
  <2>3. r = IntoFrames(n, Len(r))
    <3>1. ASSUME NEW i \in 1..Len(r)
          PROVE  r[i] = [start |-> i = 1, end |-> i = Len(r), message |-> n, part |-> i]
      <4>1. r[i] \in Frames /\ r[i].message = n /\ r[i].part = i
        BY <1>1, <2>1, <2>2 DEF Prefix
      <4>2. r[i].start = (i = 1)
        BY <1>1, <4>1 DEF FrameSeq
      <4>3. r[i].end = (i = Len(r))
        <5>1. i # Len(r) => ~r[i].end
          BY <1>1, <2>1 DEF Prefix
        <5>2. r[i].end \in BOOLEAN
          BY <4>1 DEF Frames
        <5>. QED  BY <2>1, <5>1, <5>2
      <4>. QED  BY <4>1, <4>2, <4>3 DEF Frames
    <3>. QED  BY <2>1, <3>1 DEF IntoFrames
  <2>4. /\ Answer(n, Answered(r)) /\ Answered(r) \in Outcomes
        /\ Answered(r).frames = r
    BY <1>1, <1>4 DEF TakeResponse, streamVars, Answered, Outcomes
  <2>5. OutcomesOK' /\ AllOwn' /\ (connector' = Free \/ connector' = Dead)
    BY <2>3, <2>4, AnswerOutcomes DEF WholeInv
  <2>. QED  BY <1>2, <2>5, CallEnds
<1>. QED  BY <1>3, <1>4

(* a socket that fails;                                                    *)
LEMMA SocketFailsInv == ASSUME WholeInv, SocketFails PROVE WholeInv'
<1>1. Answer(connector.call, Error) /\ Error \in Outcomes /\ Error.state # "answered"
  BY DEF SocketFails, streamVars, Error, Outcomes
<1>2. OutcomesOK' /\ AllOwn' /\ (connector' = Free \/ connector' = Dead)
  BY <1>1, AnswerOutcomes DEF WholeInv
<1>. QED  BY <1>2, CallEnds DEF SocketFails, streamVars

(* the enclave that reads a frame                                          *)
LEMMA GuestReadFrameInv == ASSUME WholeInv, GuestReadFrame PROVE WholeInv'
<1>1. guest \in [pc : {"read"}, read : Seq(Frames)] /\ guest.read \in FrameSeq
  BY DEF GuestReadFrame, GuestTakesFrame, Whole, WholeInv, GuestOK, Dead
<1>. DEFINE f == Head(to_guest)
            t == Append(guest.read, f)
<1>2. /\ to_guest \in FrameSeq /\ to_guest # << >> /\ to_guest' = Tail(to_guest)
      /\ UNCHANGED <<calls, outcome, connector, to_host>>
  BY DEF GuestReadFrame, GuestTakesFrame, Whole, WholeInv
<1>3. f \in Frames /\ f.start = (f.part = 1) /\ Tail(to_guest) \in FrameSeq
  BY <1>2, FrameTail
<1>4. /\ t \in FrameSeq /\ t \in Seq(Frames) /\ t # << >>
  BY <1>1, <1>3, FrameAppend DEF FrameSeq
<1>5. \/ guest' = Dead \/ guest' = [guest EXCEPT !.read = t]
      \/ \E k \in FrameCounts : guest' = [pc |-> "write", frames |-> IntoFrames(t[1].message, k)]
  BY DEF GuestReadFrame, GuestTakesFrame, Whole
<1>6. GuestFrames = << >> /\ Stream(ConnectorRead, to_host, << >>)
  BY <1>1 DEF GuestFrames, WholeInv
<1>7. GuestOK' /\ Stream(ConnectorRead, to_host, GuestFrames')
  <2>1. CASE guest' = Dead
    BY <1>6, <2>1 DEF GuestOK, GuestFrames, Dead
  <2>2. CASE guest' = [guest EXCEPT !.read = t]
    <3>. HIDE DEF t
    <3>. QED  BY <1>1, <1>4, <1>6, <2>2 DEF GuestOK, GuestFrames
  <2>3. ASSUME NEW k \in FrameCounts,
               guest' = [pc |-> "write", frames |-> IntoFrames(t[1].message, k)]
        PROVE  GuestOK' /\ Stream(ConnectorRead, to_host, GuestFrames')
    <3>. HIDE DEF t
    <3>1. t[1] \in Frames
      BY <1>4
    <3>2. t[1].message \in 1..MaxCalls /\ k \in Nat \ {0}
      BY <3>1, ChannelAssumption DEF Frames
    <3>. DEFINE g == IntoFrames(t[1].message, k)
    <3>3. g \in FrameSeq /\ g # << >> /\ g[1].part = 1 /\ Chain(g) /\ g[Len(g)].end
      BY <3>2, FramesOfMessage
    <3>. HIDE DEF g
    <3>4. Stream(ConnectorRead, to_host, g)
      BY <1>6, <3>3, StreamBegun
    <3>5. guest' = [pc |-> "write", frames |-> g]
      BY <2>3 DEF g
    <3>6. GuestOK' /\ GuestFrames' = g
      BY <3>3, <3>5 DEF GuestOK, GuestFrames, FrameSeq
    <3>. QED  BY <3>4, <3>6
  <2>. QED  BY <1>5, <2>1, <2>2, <2>3
<1>8. OutcomesOK' /\ AllOwn' /\ ConnectorOK' /\ ConnectorRead' = ConnectorRead
  BY <1>2 DEF WholeInv, OutcomesOK, AllOwn, ConnectorOK, ConnectorRead
<1>. QED  BY <1>2, <1>3, <1>7, <1>8 DEF WholeInv

(* and writes one.                                                         *)
LEMMA GuestWriteFrameInv == ASSUME WholeInv, GuestWriteFrame PROVE WholeInv'
<1>1. /\ guest \in [pc : {"write"}, frames : Seq(Frames)]
      /\ guest.frames \in FrameSeq /\ guest.frames # << >>
  BY DEF GuestWriteFrame, WholeInv, GuestOK, Dead
<1>. DEFINE g == guest.frames
<1>2. /\ to_host' = Append(to_host, Head(g)) /\ to_host \in FrameSeq
      /\ UNCHANGED <<calls, outcome, connector, to_guest>>
      /\ guest' = IF Len(g) > 1 THEN [guest EXCEPT !.frames = Tail(g)]
                  ELSE [pc |-> "read", read |-> << >>]
  BY DEF GuestWriteFrame, WholeInv
<1>3. /\ Len(g) \in Nat \ {0} /\ Head(g) \in Frames /\ Head(g).start = (Head(g).part = 1)
      /\ Tail(g) \in FrameSeq /\ (Tail(g) = << >> <=> Len(g) = 1)
  BY <1>1, FrameTail
<1>4. to_host' \in FrameSeq
  BY <1>2, <1>3, FrameAppend
<1>5. ConnectorRead \in FrameSeq /\ GuestFrames = g
  BY <1>1 DEF ConnectorRead, GuestFrames, WholeInv, ConnectorOK, Dead, Free, FrameSeq
<1>6. Stream(ConnectorRead, to_host', Tail(g))
  BY <1>1, <1>2, <1>5, StreamWritten DEF WholeInv
<1>7. GuestOK' /\ GuestFrames' = Tail(g)
  <2>1. PICK l \in Nat \ {0} : l = Len(g)
    BY <1>3
  <2>2. CASE Len(g) > 1
    <3>1. guest' = [guest EXCEPT !.frames = Tail(g)] /\ Tail(g) \in Seq(Frames)
      BY <1>2, <1>3, <2>2 DEF FrameSeq
    <3>2. Tail(g) # << >>
      <4>. HIDE DEF g
      <4>1. Len(g) # 1
        BY <2>1, <2>2
      <4>. QED  BY <1>3, <4>1
    <3>. QED  BY <1>1, <1>3, <3>1, <3>2 DEF GuestOK, GuestFrames
  <2>3. CASE ~(Len(g) > 1)
    <3>1. guest' = [pc |-> "read", read |-> << >>]
      BY <1>2, <2>3
    <3>2. Tail(g) = << >>
      <4>. HIDE DEF g
      <4>1. Len(g) = 1
        BY <2>1, <2>3
      <4>. QED  BY <1>3, <4>1
    <3>. QED  BY <3>1, <3>2 DEF GuestOK, GuestFrames, FrameSeq
  <2>. QED  BY <2>2, <2>3
<1>8. OutcomesOK' /\ AllOwn' /\ ConnectorOK' /\ ConnectorRead' = ConnectorRead
  BY <1>2 DEF WholeInv, OutcomesOK, AllOwn, ConnectorOK, ConnectorRead
<1>. QED  BY <1>2, <1>4, <1>6, <1>7, <1>8 DEF WholeInv

(* Whole frames are not taken for the rest of a torn one.                  *)
LEMMA NothingTorn ==
    ASSUME WholeInv PROVE ~ReadGarbled /\ ~GuestReadGarbled
<1>1. ASSUME NEW s \in FrameSeq, s # << >> PROVE Head(s) # Torn
  <2>1. Head(s) \in Frames
    BY <1>1, FrameTail
  <2>. QED  BY <2>1 DEF Frames, Torn
<1>. QED  BY <1>1 DEF WholeInv, ReadGarbled, GuestReadGarbled, Whole

-----------------------------------------------------------------------------
(* The queue, also when frames are torn: calls are numbered as they are    *)
(* made and taken in that order, so those taken after the call that tore a *)
(* frame have higher numbers.                                              *)
Busy == connector.pc \in {"read", "write"}
Taken == Len(outcome) - Len(calls)
ConnectorForm ==
    \/ connector = Free \/ connector = Dead
    \/ \E n, id, fs : connector = [pc |-> "write", call |-> n, id |-> id, frames |-> fs]
    \/ \E n, id, fs : connector = [pc |-> "read", call |-> n, id |-> id, read |-> fs]
QueueOK ==
    /\ \E S : outcome \in Seq(S)
    /\ calls \in Seq(Nat)
    /\ Len(calls) <= Len(outcome)
    /\ \A i \in 1..Len(calls) : calls[i] = Taken + i
    /\ Busy => connector.call = Taken
    /\ connector = Dead => calls = << >>
TornOK == torn \in Nat /\ torn <= Taken /\ (Busy => torn < Taken)

(* The inductive invariant.                                                *)
ChannelInv ==
    /\ ConnectorForm /\ QueueOK /\ TornOK
    /\ torn = 0 => WholeInv
    /\ AnswerIsOwn

(* Answers to calls that came after the torn frame, and no other, may be   *)
(* changed.                                                                *)
OwnStays ==
    \A n \in DOMAIN outcome' :
        outcome'[n].state = "answered" =>
            (n \in DOMAIN outcome /\ outcome'[n] = outcome[n]) \/ torn < n

(* A panic ends the queue,                                                 *)
LEMMA PanicQueue ==
    ASSUME ChannelInv, Panic
    PROVE  /\ ConnectorForm' /\ QueueOK' /\ OwnStays
           /\ Taken' >= Taken /\ Taken' \in Nat /\ ~Busy'
<1>1. PICK S : outcome \in Seq(S)
  BY DEF ChannelInv, QueueOK
<1>2. Len(outcome) \in Nat /\ DOMAIN outcome = 1..Len(outcome)
  BY <1>1
<1>3. /\ outcome' = [n \in 1..Len(outcome) |-> IF outcome[n] = Waiting THEN Error ELSE outcome[n]]
      /\ calls' = << >> /\ connector' = Dead
  BY <1>2 DEF Panic
<1>4. /\ outcome' \in Seq(S \cup {Error}) /\ Len(outcome') = Len(outcome)
      /\ DOMAIN outcome' = DOMAIN outcome
  BY <1>1, <1>2, <1>3
<1>5. OwnStays
  BY <1>2, <1>3 DEF OwnStays, Error
<1>6. Len(calls) \in Nat /\ Len(calls) <= Len(outcome)
  BY DEF ChannelInv, QueueOK
<1>7. Taken' = Len(outcome) /\ Taken = Len(outcome) - Len(calls)
  BY <1>3, <1>4 DEF Taken
<1>8. ConnectorForm' /\ ~Busy'
  BY <1>3 DEF ConnectorForm, Busy, Dead
<1>9. QueueOK'
  <2>1. calls' \in Seq(Nat) /\ Len(calls') = 0
    BY <1>3
  <2>. QED  BY <1>2, <1>4, <1>8, <2>1 DEF QueueOK
<1>. QED  BY <1>2, <1>5, <1>6, <1>7, <1>8, <1>9

(* an answer goes to the call that was taken last,                         *)
LEMMA AnswerQueue ==
    ASSUME ChannelInv, NEW result, Busy, Answer(connector.call, result)
    PROVE  /\ ConnectorForm' /\ QueueOK' /\ OwnStays
           /\ Taken' >= Taken /\ Taken' \in Nat /\ ~Busy'
<1>1. CASE outcome[connector.call] = Left
  BY <1>1, PanicQueue DEF Answer
<1>2. CASE outcome[connector.call] # Left
  <2>1. PICK S : outcome \in Seq(S)
    BY DEF ChannelInv, QueueOK
  <2>2. /\ Len(outcome) \in Nat /\ Len(calls) \in Nat /\ calls \in Seq(Nat)
        /\ Len(calls) <= Len(outcome) /\ connector.call = Taken /\ torn < Taken /\ torn \in Nat
    BY <2>1 DEF ChannelInv, QueueOK, TornOK
  <2>3. Taken \in 1..Len(outcome)
    BY <2>2 DEF Taken
  <2>4. outcome' = [outcome EXCEPT ![Taken] = result] /\ connector' = Free /\ calls' = calls
    BY <1>2, <2>2 DEF Answer
  <2>5. outcome' \in Seq(S \cup {result}) /\ Len(outcome') = Len(outcome)
    <3>1. outcome \in Seq(S \cup {result}) /\ result \in S \cup {result}
      BY <2>1
    <3>. QED  BY <2>3, <2>4, <3>1, ExceptSeq
  <2>6. OwnStays
    BY <2>1, <2>2, <2>3, <2>4 DEF OwnStays
  <2>7. Taken' = Taken /\ ConnectorForm' /\ ~Busy'
    BY <2>4, <2>5 DEF Taken, ConnectorForm, Busy, Free
  <2>8. QueueOK'
    <3>1. \A i \in 1..Len(calls') : calls'[i] = Taken' + i
      BY <2>4, <2>7 DEF ChannelInv, QueueOK
    <3>. QED  BY <2>2, <2>4, <2>5, <2>7, <3>1 DEF QueueOK, Free, Dead
  <2>. QED  BY <2>2, <2>3, <2>6, <2>7, <2>8
<1>. QED  BY <1>1, <1>2

(* and so does every other step.                                           *)
LEMMA QueueStep ==
    ASSUME ChannelInv, ChannelNext
    PROVE  /\ ConnectorForm' /\ QueueOK' /\ OwnStays
           /\ Taken' >= Taken /\ Taken' \in Nat /\ (Busy' => Busy \/ Taken' > Taken)
<1>1. PICK S : outcome \in Seq(S)
  BY DEF ChannelInv, QueueOK
<1>2. /\ Len(outcome) \in Nat /\ Len(calls) \in Nat /\ calls \in Seq(Nat)
      /\ DOMAIN outcome = 1..Len(outcome) /\ Len(calls) <= Len(outcome)
      /\ Taken = Len(outcome) - Len(calls) /\ Taken \in Nat
      /\ \A i \in 1..Len(calls) : calls[i] = Taken + i
      /\ ConnectorForm /\ (Busy => connector.call = Taken) /\ (connector = Dead => calls = << >>)
  BY <1>1 DEF ChannelInv, QueueOK, Taken
(* The connector neither answers nor takes a call.                         *)
<1>3. ASSUME calls' = calls, outcome' = outcome, ConnectorForm',
             connector' = Dead => connector = Dead,
             Busy' => Busy /\ connector'.call = connector.call
      PROVE  /\ ConnectorForm' /\ QueueOK' /\ OwnStays
             /\ Taken' >= Taken /\ Taken' \in Nat /\ (Busy' => Busy \/ Taken' > Taken)
  <2>1. Taken' = Taken
    BY <1>3 DEF Taken
  <2>. QED  BY <1>1, <1>2, <1>3, <2>1 DEF QueueOK, OwnStays
<1>4. ASSUME NEW frame, TakeFrame(frame), connector.pc = "read"
      PROVE  /\ ConnectorForm' /\ QueueOK' /\ OwnStays
             /\ Taken' >= Taken /\ Taken' \in Nat /\ (Busy' => Busy \/ Taken' > Taken)
  <2>1. Busy
    BY <1>4 DEF Busy
  <2>2. CASE Refused(connector.read, frame)
    BY <1>4, <2>1, <2>2, AnswerQueue DEF TakeFrame
  <2>3. CASE ~Refused(connector.read, frame)
    <3>1. PICK n, id, fs : connector = [pc |-> "read", call |-> n, id |-> id, read |-> fs]
      BY <1>2, <1>4 DEF ConnectorForm, Free, Dead
    <3>2. connector' = [pc |-> "read", call |-> n, id |-> id, read |-> Append(fs, frame)]
      BY <1>4, <2>3, <3>1 DEF TakeFrame
    <3>3. ConnectorForm' /\ connector'.call = connector.call /\ connector' # Dead
      BY <3>1, <3>2 DEF ConnectorForm, Dead
    <3>. QED  BY <1>3, <1>4, <2>1, <2>3, <3>3 DEF TakeFrame
  <2>. QED  BY <2>2, <2>3
<1>5. CASE Invoke
  <2>1. PICK r \in {Error, Waiting} :
           /\ outcome' = Append(outcome, r) /\ r.state # "answered"
           /\ connector' = connector
           /\ \/ connector = Dead /\ calls' = calls
              \/ connector # Dead /\ calls' = Append(calls, Len(outcome) + 1)
    BY <1>5 DEF Invoke, Error, Waiting
  <2>2. /\ outcome' \in Seq(S \cup {r}) /\ Len(outcome') = Len(outcome) + 1
        /\ DOMAIN outcome' = 1..(Len(outcome) + 1)
        /\ \A i \in 1..Len(outcome) : outcome'[i] = outcome[i]
        /\ outcome'[Len(outcome) + 1] = r
    <3>1. outcome \in Seq(S \cup {r})
      BY <1>1
    <3>. QED  BY <1>2, <2>1, <3>1, AppendProperties
  <2>3. OwnStays
    BY <1>2, <2>1, <2>2 DEF OwnStays
  <2>4. ConnectorForm' /\ (Busy' <=> Busy) /\ connector'.call = connector.call
    BY <1>2, <2>1 DEF ConnectorForm, Busy
  <2>5. CASE connector # Dead /\ calls' = Append(calls, Len(outcome) + 1)
    <3>1. /\ calls' \in Seq(Nat) /\ Len(calls') = Len(calls) + 1
          /\ \A i \in 1..Len(calls) : calls'[i] = calls[i]
          /\ calls'[Len(calls) + 1] = Len(outcome) + 1
      BY <1>2, <2>5, AppendProperties
    <3>2. Taken' = Taken
      BY <1>2, <2>2, <3>1 DEF Taken
    <3>3. \A i \in 1..Len(calls') : calls'[i] = Taken + i
      <4>1. ASSUME NEW i \in 1..Len(calls') PROVE calls'[i] = Taken + i
        <5>1. CASE i \in 1..Len(calls)
          BY <1>2, <3>1, <5>1
        <5>2. CASE i = Len(calls) + 1
          <6>1. Taken + i = Len(outcome) + 1
            BY <1>2, <5>2
          <6>. QED  BY <3>1, <5>2, <6>1
        <5>. QED  BY <1>2, <3>1, <5>1, <5>2
      <4>. QED  BY <4>1
    <3>4. connector' # Dead
      BY <2>1, <2>5
    <3>. QED  BY <1>2, <2>2, <2>3, <2>4, <3>1, <3>2, <3>3, <3>4 DEF QueueOK
  <2>6. CASE connector = Dead /\ calls' = calls
    <3>1. ~Busy
      BY <2>6 DEF Busy, Dead
    <3>2. calls = << >>
      BY <2>6 DEF ChannelInv, QueueOK
    <3>. QED  BY <1>2, <2>2, <2>3, <2>4, <2>6, <3>1, <3>2 DEF QueueOK, Taken
  <2>. QED  BY <2>1, <2>5, <2>6
<1>6. CASE TakeRequest
  <2>1. PICK k : connector' = [pc |-> "write", call |-> Head(calls),
                               id |-> InvocationId(Head(calls)),
                               frames |-> IntoFrames(Head(calls), k)]
    BY <1>6 DEF TakeRequest
  <2>2. calls # << >> /\ calls' = Tail(calls) /\ outcome' = outcome
    BY <1>6 DEF TakeRequest
  <2>3. /\ Len(calls) \in Nat \ {0} /\ Head(calls) = calls[1]
        /\ calls' \in Seq(Nat) /\ Len(calls') = Len(calls) - 1
        /\ \A i \in 1..Len(calls') : calls'[i] = calls[i + 1]
    BY <1>2, <2>2, HeadTailProperties
  <2>4. Taken' = Taken + 1 /\ calls[1] = Taken + 1
    BY <1>2, <2>2, <2>3 DEF Taken
  <2>5. \A i \in 1..Len(calls') : calls'[i] = Taken' + i
    BY <1>2, <2>3, <2>4
  <2>6. ConnectorForm' /\ connector'.call = Taken' /\ connector' # Dead
    BY <2>1, <2>3, <2>4 DEF ConnectorForm, Dead
  <2>. QED  BY <1>1, <1>2, <2>2, <2>3, <2>4, <2>5, <2>6 DEF QueueOK, OwnStays
<1>7. CASE WriteFrame
  <2>1. PICK n, id, fs : connector = [pc |-> "write", call |-> n, id |-> id, frames |-> fs]
    BY <1>2, <1>7 DEF WriteFrame, ConnectorForm, Free, Dead
  <2>2. \/ connector' = [pc |-> "write", call |-> n, id |-> id, frames |-> Tail(fs)]
        \/ connector' = [pc |-> "read", call |-> n, id |-> id, read |-> << >>]
    BY <1>7, <2>1 DEF WriteFrame
  <2>3. ConnectorForm' /\ Busy /\ connector'.call = connector.call /\ connector' # Dead
    BY <2>1, <2>2 DEF ConnectorForm, Busy, Dead
  <2>. QED  BY <1>3, <1>7, <2>3 DEF WriteFrame
<1>8. CASE TakeResponse
  BY <1>8, PanicQueue, AnswerQueue DEF TakeResponse, Busy
<1>9. CASE SocketFails \/ FrameTorn
  BY <1>9, AnswerQueue DEF SocketFails, FrameTorn, UsesSocket, Busy
<1>10. CASE ReadFrame
  BY <1>4, <1>10 DEF ReadFrame
<1>11. CASE ReadGarbled
  BY <1>4, <1>11, PanicQueue, AnswerQueue DEF ReadGarbled, Busy
<1>12. CASE GuestReadFrame \/ GuestWriteFrame \/ GuestReadGarbled
  BY <1>2, <1>3, <1>12 DEF GuestReadFrame, GuestWriteFrame, GuestReadGarbled, ConnectorForm, Busy
<1>13. ASSUME NEW n \in DOMAIN outcome, Leave(n)
       PROVE  /\ ConnectorForm' /\ QueueOK' /\ OwnStays
              /\ Taken' >= Taken /\ Taken' \in Nat /\ (Busy' => Busy \/ Taken' > Taken)
  <2>1. outcome' = [outcome EXCEPT ![n] = Left] /\ calls' = calls /\ connector' = connector
    BY <1>13 DEF Leave
  <2>2. outcome' \in Seq(S \cup {Left}) /\ Len(outcome') = Len(outcome)
    <3>1. outcome \in Seq(S \cup {Left}) /\ Left \in S \cup {Left} /\ n \in 1..Len(outcome)
      BY <1>1, <1>2, <1>13
    <3>. QED  BY <2>1, <3>1, ExceptSeq
  <2>3. Taken' = Taken /\ ConnectorForm' /\ (Busy' <=> Busy)
    BY <1>2, <2>1, <2>2 DEF Taken, ConnectorForm, Busy
  <2>4. OwnStays
    BY <1>2, <2>1 DEF OwnStays, Left
  <2>. QED  BY <1>2, <2>1, <2>2, <2>3, <2>4 DEF QueueOK
<1>. QED  BY <1>5, <1>6, <1>7, <1>8, <1>9, <1>10, <1>11, <1>12, <1>13
          DEF ChannelNext, ConnectorStep, GuestStep

-----------------------------------------------------------------------------
(* The invariant holds at first.                                           *)
LEMMA InitChannelInv == ChannelInit => ChannelInv
<1>. SUFFICES ASSUME ChannelInit PROVE ChannelInv
  OBVIOUS
<1>1. WholeInv
  BY ChannelAssumption
  DEF ChannelInit, WholeInv, OutcomesOK, ConnectorOK, GuestOK, FrameSeq, Free, Stream, Chain,
      Link, End, ConnectorRead, GuestFrames, AllOwn
<1>2. outcome = << >> /\ calls = << >> /\ connector = Free /\ torn = 0
  BY DEF ChannelInit
<1>3. outcome \in Seq({}) /\ Len(outcome) = 0 /\ Len(calls) = 0 /\ calls \in Seq(Nat)
  BY <1>2
<1>. QED  BY <1>1, <1>2, <1>3
          DEF ChannelInv, ConnectorForm, QueueOK, TornOK, Taken, Busy, Free, AnswerIsOwn

(* Every step keeps it.                                                    *)
LEMMA NextChannelInv ==
    ASSUME MaxCalls <= IdModulus, ChannelInv, [ChannelNext]_channelVars
    PROVE  ChannelInv'
<1>1. CASE UNCHANGED channelVars
  BY <1>1 DEF channelVars, streamVars, ChannelInv, WholeInv, OutcomesOK, ConnectorOK, GuestOK,
              ConnectorRead, GuestFrames, AllOwn, ConnectorForm, QueueOK, TornOK, Taken, Busy,
              AnswerIsOwn
<1>2. CASE ChannelNext
  <2>1. /\ ConnectorForm' /\ QueueOK' /\ OwnStays
        /\ Taken' >= Taken /\ Taken' \in Nat /\ (Busy' => Busy \/ Taken' > Taken)
    BY <1>2, QueueStep
  <2>2. /\ torn \in Nat /\ torn <= Taken /\ (Busy => torn < Taken) /\ Taken \in Nat
        /\ (Busy => connector.call = Taken) /\ AnswerIsOwn /\ (torn = 0 => WholeInv)
    <3>1. Len(outcome) \in Nat /\ Len(calls) \in Nat
      BY DEF ChannelInv, QueueOK
    <3>. QED  BY <3>1 DEF ChannelInv, QueueOK, TornOK, Taken
  <2>3. CASE torn' = torn
    <3>1. TornOK'
      BY <2>1, <2>2, <2>3 DEF TornOK
    <3>2. ASSUME torn = 0 PROVE WholeInv'
      <4>1. WholeInv
        BY <2>2, <3>2
      <4>2. ~FrameTorn
        <5>1. FrameTorn => Busy
          BY DEF FrameTorn, UsesSocket, Busy
        <5>. QED  BY <2>2, <2>3, <3>2, <5>1 DEF FrameTorn
      <4>3. ASSUME NEW n \in DOMAIN outcome, Leave(n) PROVE WholeInv'
        BY <4>1, <4>3, LeaveInv
      <4>. QED  BY <1>2, <4>1, <4>2, <4>3, NothingTorn, InvokeInv, TakeRequestInv, WriteFrameInv,
                   ReadFrameInv, TakeResponseInv, SocketFailsInv, GuestReadFrameInv,
                   GuestWriteFrameInv DEF ChannelNext, ConnectorStep, GuestStep
    <3>3. AnswerIsOwn'
      <4>1. CASE torn = 0
        BY <2>3, <3>2, <4>1 DEF WholeInv, AllOwn, AnswerIsOwn
      <4>2. CASE torn # 0
        <5>1. ASSUME NEW n \in DOMAIN outcome', outcome'[n].state = "answered"
              PROVE  \/ outcome'[n].frames = IntoFrames(n, Len(outcome'[n].frames))
                     \/ torn' \in 1..(n - 1)
          <6>1. n \in Nat
            BY <2>1 DEF QueueOK
          <6>2. CASE n \in DOMAIN outcome /\ outcome'[n] = outcome[n]
            BY <2>2, <2>3, <5>1, <6>2 DEF AnswerIsOwn
          <6>3. CASE torn < n
            BY <2>2, <2>3, <4>2, <6>1, <6>3
          <6>. QED  BY <2>1, <5>1, <6>2, <6>3 DEF OwnStays
        <5>. QED  BY <5>1 DEF AnswerIsOwn
      <4>. QED  BY <4>1, <4>2
    <3>. QED  BY <2>1, <2>3, <3>1, <3>2, <3>3 DEF ChannelInv
  <2>4. CASE torn' # torn
    <3>1. FrameTorn
      <4>1. ASSUME NEW n \in DOMAIN outcome, Leave(n) PROVE torn' = torn
        BY <4>1 DEF Leave, streamVars
      <4>. QED  BY <1>2, <2>4, <4>1
                DEF ChannelNext, ConnectorStep, GuestStep, Invoke, TakeRequest, WriteFrame,
                    ReadFrame, TakeResponse, SocketFails, GuestReadFrame, GuestWriteFrame,
                    ReadGarbled, GuestReadGarbled, streamVars
    <3>2. Busy /\ torn = 0 /\ torn' = Taken /\ Answer(connector.call, Error)
      BY <2>2, <2>4, <3>1 DEF FrameTorn, UsesSocket, Busy
    <3>3. ~Busy'
      BY <3>2, AnswerQueue
    <3>4. AllOwn'
      <4>1. Error \in Outcomes /\ Error.state # "answered" /\ OutcomesOK /\ AllOwn
        BY <2>2, <3>2 DEF Error, Outcomes, WholeInv
      <4>. QED  BY <3>2, <4>1, AnswerOutcomes
    <3>5. AnswerIsOwn'
      BY <3>4 DEF AllOwn, AnswerIsOwn
    <3>6. TornOK' /\ torn' # 0
      BY <2>1, <2>2, <3>2, <3>3 DEF TornOK
    <3>. QED  BY <2>1, <3>5, <3>6 DEF ChannelInv
  <2>. QED  BY <2>3, <2>4
<1>. QED  BY <1>1, <1>2

(* As long as no invocation id has come round, a caller gets the whole     *)
(* answer to its own request or none, although calls that time out leave   *)
(* requests and answers, or parts of them, on the channel; only calls after*)
(* one that timed out inside a frame may get something else.               *)
THEOREM OwnAnswers == MaxCalls <= IdModulus => (ChannelSpec => []AnswerIsOwn)
<1>. SUFFICES ASSUME MaxCalls <= IdModulus PROVE ChannelSpec => []AnswerIsOwn
  OBVIOUS
<1>1. ChannelInv /\ [ChannelNext]_channelVars => ChannelInv'
  BY NextChannelInv
<1>2. ChannelInv => AnswerIsOwn
  BY DEF ChannelInv
<1>. QED  BY <1>1, <1>2, InitChannelInv, PTL DEF ChannelSpec

-----------------------------------------------------------------------------
(* The table of lookup data.                                               *)

(* A set of numbers has a least one.                                       *)
LEMMA LeastNumber ==
    ASSUME NEW S \in SUBSET Nat, S # {}
    PROVE  \E m \in S : \A k \in S : m <= k
<1>1. \E x \in S : \A y \in S : ~(<<y, x>> \in OpToRel(<, Nat))
  BY NatLessThanWellFounded, WFMin
<1>2. PICK x \in S : \A y \in S : ~(<<y, x>> \in OpToRel(<, Nat))
  BY <1>1
<1>3. ASSUME NEW y \in S PROVE x <= y
  <2>1. ~(y < x)
    BY <1>2 DEF OpToRel
  <2>. QED  BY <2>1
<1>. QED  BY <1>3

(* The first n numbers.                                                    *)
LEMMA UpTo ==
    ASSUME NEW n \in Nat
    PROVE  IsFiniteSet(0..(n - 1)) /\ Cardinality(0..(n - 1)) = n
<1>. DEFINE b == n - 1
<1>1. b \in Int /\ n = b + 1
  OBVIOUS
<1>. HIDE DEF b
<1>2. IsFiniteSet(0..b) /\ Cardinality(0..b) = IF 0 > b THEN 0 ELSE b - 0 + 1
  BY <1>1, FS_Interval
<1>3. Cardinality(0..b) = n
  BY <1>1, <1>2
<1>. QED  BY <1>2, <1>3 DEF b

-----------------------------------------------------------------------------
(* A quotient and a rest determine each other.                             *)
LEMMA Quotient ==
    ASSUME NEW x \in Nat, NEW n \in Nat \ {0}, NEW q \in Nat, NEW r \in 0..(n - 1),
           x = q * n + r
    PROVE  x \div n = q /\ x % n = r
<1>. DEFINE Q == x \div n
            R == x % n
<1>1. Q \in Int /\ R \in 0..(n - 1) /\ x = n * Q + R
  OBVIOUS
<1>. HIDE DEF Q, R
<1>. DEFINE p == q - Q
<1>2. p \in Int /\ p * n = R - r
  <2>1. p * n = q * n - Q * n
    BY <1>1
  <2>2. Q * n = n * Q
    BY <1>1
  <2>3. q * n \in Int /\ n * Q \in Int
    BY <1>1
  <2>. QED  BY <1>1, <2>1, <2>2, <2>3
<1>3. p = 0
  <2>. HIDE DEF p
  <2>1. ~(p >= 1)
    <3>1. p >= 1 => p * n >= n
      BY <1>2
    <3>. QED  BY <1>1, <1>2, <3>1
  <2>2. ~(p <= -1)
    <3>1. p <= -1 => p * n <= -n
      BY <1>2
    <3>. QED  BY <1>1, <1>2, <3>1
  <2>. QED  BY <1>2, <2>1, <2>2
<1>4. Q = q /\ R = r
  BY <1>1, <1>2, <1>3
<1>. QED  BY <1>4 DEF Q, R

(* Around a table of n slots every slot is met in n steps, from anywhere.  *)
LEMMA AroundTable ==
    ASSUME NEW a \in Nat, NEW n \in Nat \ {0}, NEW j \in 0..(n - 1)
    PROVE  \E d \in 0..(n - 1) : (a + d) % n = j
<1>. DEFINE q == a \div n
            r == a % n
<1>1. q \in Nat /\ r \in 0..(n - 1) /\ a = n * q + r
  OBVIOUS
<1>. HIDE DEF q, r
<1>2. n * q = q * n /\ q * n \in Nat /\ (q + 1) * n = q * n + n
  BY <1>1
<1>3. CASE j >= r
  <2>1. a + (j - r) = q * n + j /\ j - r \in 0..(n - 1) /\ a + (j - r) \in Nat
    BY <1>1, <1>2, <1>3
  <2>2. (a + (j - r)) % n = j
    BY <1>1, <2>1, Quotient
  <2>. QED  BY <2>1, <2>2
<1>4. CASE j < r
  <2>1. /\ a + (j - r + n) = (q + 1) * n + j /\ j - r + n \in 0..(n - 1)
        /\ a + (j - r + n) \in Nat /\ q + 1 \in Nat
    BY <1>1, <1>2, <1>4
  <2>2. (a + (j - r + n)) % n = j
    BY <1>1, <2>1, Quotient
  <2>. QED  BY <2>1, <2>2
<1>. QED  BY <1>1, <1>3, <1>4

-----------------------------------------------------------------------------
(* The fields of a table, and a hash function.                             *)
IsHtbl(h) ==
    /\ h = [table |-> h.table, max_entries |-> h.max_entries, used_entries |-> h.used_entries,
            used_data |-> h.used_data, chunks |-> h.chunks, stored |-> h.stored,
            hash |-> h.hash]
    /\ h.hash \in Hashes

(* lookup of a key may end at slot i, and it ends after d slots.           *)
Ends(h, k, i) == i \notin InUse(h) \/ KeyAt(h, i) = k
EndsAfter(h, k, d) ==
    /\ Ends(h, k, Slot(h, k, d))
    /\ \A e \in 0..(d - 1) : ~Ends(h, k, Slot(h, k, e))

(* A table of n slots: a free entry is blank; one in use has the hash byte *)
(* of its key, which no other has, and lookup of the key ends at it.       *)
EntriesOK(h, n) ==
    /\ n \in Nat /\ DOMAIN h.table = 0..(n - 1)
    /\ \A i \in 0..(n - 1) : i \notin InUse(h) => h.table[i] = FreeEntry
    /\ \A i \in InUse(h) : /\ h.table[i].data_index \in DOMAIN h.stored
                           /\ KeyAt(h, i) \in HKeys
                           /\ h.table[i].hash_byte = h.hash[KeyAt(h, i)].byte
    /\ \A i, j \in InUse(h) : KeyAt(h, i) = KeyAt(h, j) => i = j
    /\ \A i \in InUse(h) :
           \E d \in 0..(n - 1) : EndsAfter(h, KeyAt(h, i), d) /\ i = Slot(h, KeyAt(h, i), d)

(* A hash is a number below HashTop.                                       *)
LEMMA HashTyped ==
    ASSUME NEW h, IsHtbl(h), NEW k \in HKeys
    PROVE  HashTop \in Nat \ {0} /\ h.hash[k].top \in Nat
<1>1. HashTop \in Nat \ {0}
  BY HtblAssumption
<1>2. h.hash[k] \in [top : 0..(HashTop - 1), byte : HashBytes]
  BY DEF IsHtbl, Hashes
<1>3. h.hash[k].top \in 0..(HashTop - 1)
  BY <1>2
<1>. QED  BY <1>1, <1>3

(* The number of slots, and the slots of a key.                            *)
LEMMA SlotsOfTable ==
    ASSUME NEW h, NEW n \in Nat \ {0}, IsHtbl(h), DOMAIN h.table = 0..(n - 1), NEW k \in HKeys
    PROVE  /\ TableLen(h) = n
           /\ \A d \in Nat : Slot(h, k, d) \in 0..(n - 1)
           /\ \A j \in 0..(n - 1) : \E d \in 0..(n - 1) : Slot(h, k, d) = j
<1>1. TableLen(h) = n
  BY FS_Interval DEF TableLen
<1>. DEFINE a == (h.hash[k].top * n) \div HashTop
<1>2. a \in Nat
  <2>1. h.hash[k].top \in Nat
    BY HashTyped
  <2>2. h.hash[k].top * n \in Nat
    BY <2>1
  <2>. DEFINE x == h.hash[k].top * n
  <2>3. x \in Nat
    BY <2>2
  <2>. HIDE DEF x
  <2>4. x \div HashTop \in Nat
    BY <2>3, HashTyped
  <2>. QED  BY <2>4 DEF x
<1>3. \A d : Slot(h, k, d) = (a + d) % n
  BY <1>1 DEF Slot
<1>. HIDE DEF a
<1>4. ASSUME NEW d \in Nat PROVE (a + d) % n \in 0..(n - 1)
  <2>. DEFINE x == a + d
  <2>1. x \in Nat
    BY <1>2
  <2>. HIDE DEF x
  <2>2. x % n \in 0..(n - 1)
    BY <2>1
  <2>. QED  BY <2>2 DEF x
<1>5. ASSUME NEW j \in 0..(n - 1) PROVE \E d \in 0..(n - 1) : Slot(h, k, d) = j
  <2>1. \E d \in 0..(n - 1) : (a + d) % n = j
    BY <1>2, AroundTable
  <2>. QED  BY <1>3, <2>1
<1>6. \A d \in Nat : Slot(h, k, d) \in 0..(n - 1)
  BY <1>3, <1>4
<1>. QED  BY <1>1, <1>5, <1>6

(* lookup ends at the first slot it may end at.                            *)
LEMMA LookupEnds ==
    ASSUME NEW h, NEW n \in Nat \ {0}, IsHtbl(h), EntriesOK(h, n), NEW k \in HKeys,
           NEW d \in 0..(n - 1), EndsAfter(h, k, d)
    PROVE  Lookup(h, k) = Slot(h, k, d)
<1>1. TableLen(h) = n /\ \A e \in 0..(n - 1) : Slot(h, k, e) \in 0..(n - 1)
  <2>1. DOMAIN h.table = 0..(n - 1)
    BY DEF EntriesOK
  <2>2. TableLen(h) = n /\ \A e \in Nat : Slot(h, k, e) \in 0..(n - 1)
    BY <2>1, SlotsOfTable
  <2>. QED  BY <2>2
<1>2. ASSUME NEW i \in 0..(n - 1) PROVE Stops(h, k, h.table[i]) <=> Ends(h, k, i)
  <2>1. CASE i \notin InUse(h)
    <3>1. h.table[i] = FreeEntry
      BY <2>1 DEF EntriesOK
    <3>. QED  BY <2>1, <3>1 DEF Stops, Ends, FreeEntry
  <2>2. CASE i \in InUse(h)
    <3>1. h.table[i].data_index # 0
      BY <2>2 DEF InUse
    <3>2. h.table[i].hash_byte = h.hash[KeyAt(h, i)].byte
      BY <2>2 DEF EntriesOK
    <3>. QED  BY <2>2, <3>1, <3>2 DEF Stops, Ends, KeyAt
  <2>. QED  BY <2>1, <2>2
<1>. DEFINE S == {e \in 0..(n - 1) : Stops(h, k, h.table[Slot(h, k, e)])}
<1>3. \A e \in S : Ends(h, k, Slot(h, k, e)) /\ e >= d
  BY <1>1, <1>2 DEF EndsAfter
<1>4. d \in S
  BY <1>1, <1>2 DEF EndsAfter
<1>5. Min(S) = d
  <2>1. S \subseteq Int
    OBVIOUS
  <2>. HIDE DEF S
  <2>2. \A x \in S : (\A y \in S : x =< y) => x = d
    BY <1>3, <1>4, <2>1
  <2>3. \A y \in S : d =< y
    BY <1>3, <2>1
  <2>. QED  BY <1>4, <2>2, <2>3 DEF Min
<1>. QED  BY <1>1, <1>5 DEF Lookup

(* It ends in a table with a free entry.                                   *)
LEMMA LookupTerminates ==
    ASSUME NEW h, NEW n \in Nat \ {0}, IsHtbl(h), EntriesOK(h, n), NEW k \in HKeys,
           \E j \in 0..(n - 1) : j \notin InUse(h)
    PROVE  \E d \in 0..(n - 1) : EndsAfter(h, k, d)
<1>. DEFINE S == {d \in 0..(n - 1) : Ends(h, k, Slot(h, k, d))}
<1>1. S # {}
  <2>1. DOMAIN h.table = 0..(n - 1)
    BY DEF EntriesOK
  <2>2. \A j \in 0..(n - 1) : \E d \in 0..(n - 1) : Slot(h, k, d) = j
    BY <2>1, SlotsOfTable
  <2>. QED  BY <2>2 DEF Ends
<1>2. PICK m \in S : \A d \in S : m <= d
  <2>1. S \in SUBSET Nat
    OBVIOUS
  <2>. HIDE DEF S
  <2>. QED  BY <1>1, <2>1, LeastNumber
<1>. QED  BY <1>2 DEF EndsAfter

(* Where it ends is the entry of the key, or free if the key has none.     *)
LEMMA LookupResult ==
    ASSUME NEW h, NEW n \in Nat \ {0}, IsHtbl(h), EntriesOK(h, n), NEW k \in HKeys,
           \E j \in 0..(n - 1) : j \notin InUse(h)
    PROVE  /\ Lookup(h, k) \in 0..(n - 1)
           /\ Lookup(h, k) \in InUse(h) => KeyAt(h, Lookup(h, k)) = k
           /\ Lookup(h, k) \notin InUse(h) => \A i \in InUse(h) : KeyAt(h, i) # k
<1>1. PICK d \in 0..(n - 1) : EndsAfter(h, k, d)
  BY LookupTerminates
<1>2. Lookup(h, k) = Slot(h, k, d)
  BY <1>1, LookupEnds
<1>3. Slot(h, k, d) \in 0..(n - 1)
  <2>1. DOMAIN h.table = 0..(n - 1)
    BY DEF EntriesOK
  <2>2. \A e \in Nat : Slot(h, k, e) \in 0..(n - 1)
    BY <2>1, SlotsOfTable
  <2>. QED  BY <2>2
<1>4. ASSUME NEW i \in InUse(h), KeyAt(h, i) = k PROVE Lookup(h, k) = i
  <2>1. PICK e \in 0..(n - 1) : EndsAfter(h, k, e) /\ i = Slot(h, k, e)
    BY <1>4 DEF EntriesOK
  <2>. QED  BY <2>1, LookupEnds
<1>. QED  BY <1>1, <1>2, <1>3, <1>4 DEF EndsAfter, Ends

-----------------------------------------------------------------------------
(* What PutEntry does to the fields.                                       *)
LEMMA PutFields ==
    ASSUME NEW h, NEW n \in Nat \ {0}, IsHtbl(h), DOMAIN h.table = 0..(n - 1), NEW k, NEW x,
           Lookup(h, k) \in 0..(n - 1), NEW g, g = PutEntry(h, k, x)
    PROVE  /\ IsHtbl(g) /\ DOMAIN g.table = 0..(n - 1)
           /\ g.table[Lookup(h, k)] = [hash_byte |-> h.hash[k].byte, data_index |-> x]
           /\ \A j \in 0..(n - 1) : j # Lookup(h, k) => g.table[j] = h.table[j]
           /\ g.max_entries = h.max_entries /\ g.used_entries = h.used_entries
           /\ g.used_data = h.used_data /\ g.chunks = h.chunks
           /\ g.stored = h.stored /\ g.hash = h.hash
<1>. DEFINE t == [h.table EXCEPT ![Lookup(h, k)] =
                     [hash_byte |-> h.hash[k].byte, data_index |-> x]]
<1>1. g = [h EXCEPT !.table = t]
  BY DEF PutEntry
<1>2. /\ DOMAIN t = 0..(n - 1)
      /\ t[Lookup(h, k)] = [hash_byte |-> h.hash[k].byte, data_index |-> x]
      /\ \A j \in 0..(n - 1) : j # Lookup(h, k) => t[j] = h.table[j]
  OBVIOUS
<1>. HIDE DEF t
<1>3. g = [table |-> t, max_entries |-> h.max_entries, used_entries |-> h.used_entries,
           used_data |-> h.used_data, chunks |-> h.chunks, stored |-> h.stored,
           hash |-> h.hash]
  BY <1>1 DEF IsHtbl
<1>4. h.hash \in Hashes
  BY DEF IsHtbl
<1>. QED  BY <1>2, <1>3, <1>4 DEF IsHtbl

(* Pointing the entry of a key to a pair of it keeps a table in order: the *)
(* key had this entry, or it was free and is now the key's.                *)
LEMMA PutKeepsOrder ==
    ASSUME NEW h, NEW n \in Nat \ {0}, IsHtbl(h), EntriesOK(h, n), NEW k \in HKeys,
           \E j \in 0..(n - 1) : j \notin InUse(h),
           NEW x \in DOMAIN h.stored, x # 0, h.stored[x].key = k,
           NEW g, g = PutEntry(h, k, x), NEW i, i = Lookup(h, k)
    PROVE  /\ EntriesOK(g, n)
           /\ InUse(g) = InUse(h) \cup {i}
           /\ KeyAt(g, i) = k
           /\ \A j \in InUse(h) \ {i} : g.table[j] = h.table[j] /\ KeyAt(g, j) = KeyAt(h, j)
                                        /\ KeyAt(g, j) # k
<1>0. DOMAIN h.table = 0..(n - 1)
  BY DEF EntriesOK
<1>1. /\ i \in 0..(n - 1)
      /\ i \in InUse(h) => KeyAt(h, i) = k
      /\ i \notin InUse(h) => \A j \in InUse(h) : KeyAt(h, j) # k
  BY LookupResult
<1>2. /\ IsHtbl(g) /\ DOMAIN g.table = 0..(n - 1)
      /\ g.table[i] = [hash_byte |-> h.hash[k].byte, data_index |-> x]
      /\ \A j \in 0..(n - 1) : j # i => g.table[j] = h.table[j]
      /\ g.stored = h.stored /\ g.hash = h.hash
  BY <1>0, <1>1, PutFields
<1>3. InUse(g) = InUse(h) \cup {i}
  BY <1>0, <1>1, <1>2 DEF InUse
<1>4. KeyAt(g, i) = k
  BY <1>2 DEF KeyAt
<1>5. InUse(h) \subseteq 0..(n - 1)
  BY <1>0 DEF InUse
<1>6. \A j \in 0..(n - 1) : j # i => KeyAt(g, j) = KeyAt(h, j)
  BY <1>2 DEF KeyAt
<1>7. \A j \in InUse(h) \ {i} : KeyAt(h, j) # k
  <2>1. \A a, b \in InUse(h) : KeyAt(h, a) = KeyAt(h, b) => a = b
    BY DEF EntriesOK
  <2>. QED  BY <1>1, <2>1
<1>8. \A l \in HKeys : \A d : Slot(g, l, d) = Slot(h, l, d)
  BY <1>0, <1>2 DEF Slot, TableLen
<1>9. \A l \in HKeys, j \in 0..(n - 1) :
          Ends(g, l, j) <=> IF j = i THEN l = k ELSE Ends(h, l, j)
  BY <1>3, <1>4, <1>6 DEF Ends
<1>10. \A l \in HKeys, d \in 0..(n - 1) : Slot(h, l, d) \in 0..(n - 1)
  <2>1. ASSUME NEW l \in HKeys PROVE \A d \in Nat : Slot(h, l, d) \in 0..(n - 1)
    BY <1>0, SlotsOfTable
  <2>. QED  BY <2>1
<1>11. ASSUME NEW j \in InUse(g)
       PROVE  \E d \in 0..(n - 1) : EndsAfter(g, KeyAt(g, j), d) /\ j = Slot(g, KeyAt(g, j), d)
  <2>1. CASE j = i
    <3>1. PICK d \in 0..(n - 1) : EndsAfter(h, k, d)
      BY LookupTerminates
    <3>2. i = Slot(h, k, d)
      BY <3>1, LookupEnds
    <3>3. \A e \in 0..(d - 1) : e \in 0..(n - 1) /\ ~Ends(h, k, Slot(h, k, e))
      BY <3>1 DEF EndsAfter
    <3>4. Ends(h, k, i)
      BY <3>1, <3>2 DEF EndsAfter
    <3>5. \A e \in 0..(d - 1) : ~Ends(g, k, Slot(g, k, e))
      BY <1>8, <1>9, <1>10, <3>3, <3>4
    <3>6. Ends(g, k, i)
      BY <1>1, <1>9
    <3>7. i = Slot(g, k, d)
      BY <1>8, <3>2
    <3>. QED  BY <1>4, <2>1, <3>5, <3>6, <3>7 DEF EndsAfter
  <2>2. CASE j # i
    <3>. DEFINE l == KeyAt(h, j)
    <3>1. j \in InUse(h) /\ j \in 0..(n - 1)
      BY <1>3, <1>5, <2>2
    <3>2. l \in HKeys /\ l # k /\ KeyAt(g, j) = l
      BY <1>6, <1>7, <2>2, <3>1 DEF EntriesOK
    <3>3. PICK d \in 0..(n - 1) : EndsAfter(h, l, d) /\ j = Slot(h, l, d)
      BY <3>1 DEF EntriesOK
    <3>. HIDE DEF l
    <3>4. \A e \in 0..(d - 1) : e \in 0..(n - 1) /\ ~Ends(h, l, Slot(h, l, e))
      BY <3>3 DEF EndsAfter
    <3>5. \A e \in 0..(d - 1) : ~Ends(g, l, Slot(g, l, e))
      BY <1>8, <1>9, <1>10, <3>2, <3>4
    <3>6. Ends(g, l, j) /\ j = Slot(g, l, d)
      BY <1>8, <3>2, <3>3 DEF Ends
    <3>. QED  BY <3>2, <3>5, <3>6 DEF EndsAfter
  <2>. QED  BY <2>1, <2>2
<1>12. ASSUME NEW j \in 0..(n - 1), j \notin InUse(g) PROVE g.table[j] = FreeEntry
  <2>1. j # i /\ j \notin InUse(h)
    BY <1>3, <1>12
  <2>. QED  BY <1>2, <2>1 DEF EntriesOK
<1>13. ASSUME NEW j \in InUse(g)
       PROVE  /\ g.table[j].data_index \in DOMAIN g.stored
              /\ KeyAt(g, j) \in HKeys
              /\ g.table[j].hash_byte = g.hash[KeyAt(g, j)].byte
  <2>1. CASE j = i
    BY <1>2, <1>4, <2>1
  <2>2. CASE j # i
    <3>1. j \in InUse(h) /\ j \in 0..(n - 1)
      BY <1>3, <1>5, <2>2
    <3>2. g.table[j] = h.table[j] /\ KeyAt(g, j) = KeyAt(h, j)
      BY <1>2, <1>6, <2>2, <3>1
    <3>. QED  BY <1>2, <3>1, <3>2 DEF EntriesOK
  <2>. QED  BY <2>1, <2>2
<1>14. \A a, b \in InUse(g) : KeyAt(g, a) = KeyAt(g, b) => a = b
  <2>1. \A a, b \in InUse(h) : KeyAt(h, a) = KeyAt(h, b) => a = b
    BY DEF EntriesOK
  <2>. QED  BY <1>3, <1>4, <1>5, <1>6, <1>7, <2>1
<1>15. EntriesOK(g, n)
  BY <1>2, <1>11, <1>12, <1>13, <1>14 DEF EntriesOK
<1>. QED  BY <1>2, <1>3, <1>4, <1>5, <1>6, <1>7, <1>15

(* A table with fewer entries in use than slots has a free one.            *)
LEMMA FreeSlot ==
    ASSUME NEW h, NEW n \in Nat \ {0}, DOMAIN h.table = 0..(n - 1)
    PROVE  /\ IsFiniteSet(InUse(h)) /\ Cardinality(InUse(h)) \in Nat
           /\ Cardinality(InUse(h)) < n => \E j \in 0..(n - 1) : j \notin InUse(h)
<1>1. InUse(h) \in SUBSET (0..(n - 1))
  BY DEF InUse
<1>2. IsFiniteSet(0..(n - 1)) /\ Cardinality(0..(n - 1)) = n
  BY FS_Interval
<1>3. IsFiniteSet(InUse(h)) /\ Cardinality(InUse(h)) \in Nat
  BY <1>1, <1>2, FS_Subset, FS_CardinalityType
<1>4. ASSUME Cardinality(InUse(h)) < n, ~ \E j \in 0..(n - 1) : j \notin InUse(h) PROVE FALSE
  <2>1. InUse(h) = 0..(n - 1)
    BY <1>1, <1>4
  <2>. QED  BY <1>2, <1>4, <2>1
<1>. QED  BY <1>3, <1>4

-----------------------------------------------------------------------------
(* The table of twice the size, and the course of grow_table: f[i] is the  *)
(* table after i entries of the old one.                                   *)
Larger(h) ==
    [h EXCEPT !.table = [i \in 0..(2 * TableLen(h) - 1) |-> FreeEntry], !.max_entries = 2 * @]
Moves(h, f, n) ==
    f = [i \in 0..n |->
            IF i = 0 THEN Larger(h)
            ELSE IF i - 1 \notin InUse(h) THEN f[i - 1]
            ELSE PutEntry(f[i - 1], KeyAt(h, i - 1), h.table[i - 1].data_index)]

(* The loop runs over any number of entries.                               *)
LEMMA MovesExist ==
    ASSUME NEW h, NEW n \in Nat
    PROVE  \E f : Moves(h, f, n)
<1>. DEFINE Bad == {m \in Nat : ~ \E f : Moves(h, f, m)}
<1>. SUFFICES ASSUME Bad # {} PROVE FALSE
  OBVIOUS
<1>1. PICK m \in Bad : \A l \in Bad : m <= l
  <2>1. Bad \in SUBSET Nat
    OBVIOUS
  <2>. HIDE DEF Bad
  <2>. QED  BY <2>1, LeastNumber
<1>2. CASE m = 0
  <2>. DEFINE f == [i \in 0..0 |-> Larger(h)]
  <2>1. \A i \in 0..0 : i = 0
    OBVIOUS
  <2>2. Moves(h, f, 0)
    BY <2>1 DEF Moves
  <2>. QED  BY <1>2, <2>2
<1>3. CASE m # 0
  <2>1. m - 1 \in Nat /\ m - 1 \notin Bad
    BY <1>1, <1>3
  <2>2. PICK f : Moves(h, f, m - 1)
    BY <2>1
  <2>. DEFINE last == IF m - 1 \notin InUse(h) THEN f[m - 1]
                      ELSE PutEntry(f[m - 1], KeyAt(h, m - 1), h.table[m - 1].data_index)
              g == [i \in 0..m |-> IF i = m THEN last ELSE f[i]]
  <2>3. \A i \in 0..(m - 1) :
            f[i] = IF i = 0 THEN Larger(h)
                   ELSE IF i - 1 \notin InUse(h) THEN f[i - 1]
                   ELSE PutEntry(f[i - 1], KeyAt(h, i - 1), h.table[i - 1].data_index)
    BY <2>2 DEF Moves
  <2>4. g[m] = last /\ \A i \in 0..(m - 1) : g[i] = f[i]
    OBVIOUS
  <2>5. g = [i \in 0..m |-> g[i]]
    OBVIOUS
  <2>. HIDE DEF g
  <2>6. ASSUME NEW i \in 0..m
        PROVE  g[i] = IF i = 0 THEN Larger(h)
                      ELSE IF i - 1 \notin InUse(h) THEN g[i - 1]
                      ELSE PutEntry(g[i - 1], KeyAt(h, i - 1), h.table[i - 1].data_index)
    <3>1. CASE i = m
      <4>1. g[m - 1] = f[m - 1]
        BY <2>1, <2>4
      <4>. QED  BY <1>3, <2>4, <3>1, <4>1
    <3>2. CASE i # m
      <4>1. i \in 0..(m - 1) /\ (i # 0 => i - 1 \in 0..(m - 1))
        BY <3>2
      <4>2. g[i] = f[i] /\ (i # 0 => g[i - 1] = f[i - 1])
        BY <2>4, <4>1
      <4>. QED  BY <2>3, <4>1, <4>2
    <3>. QED  BY <3>1, <3>2
  <2>7. Moves(h, g, m)
    BY <2>5, <2>6 DEF Moves
  <2>. QED  BY <2>7
<1>. QED  BY <1>2, <1>3

(* The table after the entries of h before i have been moved to g.         *)
Moved(h, n, g, i) ==
    LET done == InUse(h) \cap 0..(i - 1)
    IN  /\ IsHtbl(g) /\ EntriesOK(g, 2 * n)
        /\ g.max_entries = 2 * h.max_entries /\ g.used_entries = h.used_entries
        /\ g.used_data = h.used_data /\ g.chunks = h.chunks
        /\ g.stored = h.stored /\ g.hash = h.hash
        /\ \A j \in InUse(g) : \E l \in done : g.table[j].data_index = h.table[l].data_index
        /\ \A l \in done : \E j \in InUse(g) : g.table[j].data_index = h.table[l].data_index
        /\ Cardinality(InUse(g)) = Cardinality(done)

(* None has been moved to the larger table.                                *)
LEMMA MovedNone ==
    ASSUME NEW h, NEW n \in Nat \ {0}, IsHtbl(h), EntriesOK(h, n)
    PROVE  Moved(h, n, Larger(h), 0)
<1>. DEFINE g == Larger(h)
            t == [i \in 0..(2 * n - 1) |-> FreeEntry]
<1>1. TableLen(h) = n
  BY FS_Interval DEF TableLen, EntriesOK
<1>2. g = [h EXCEPT !.table = t, !.max_entries = 2 * h.max_entries]
  BY <1>1 DEF Larger
<1>3. DOMAIN t = 0..(2 * n - 1) /\ \A i \in 0..(2 * n - 1) : t[i] = FreeEntry
  OBVIOUS
<1>. HIDE DEF g, t
<1>4. g = [table |-> t, max_entries |-> 2 * h.max_entries, used_entries |-> h.used_entries,
           used_data |-> h.used_data, chunks |-> h.chunks, stored |-> h.stored,
           hash |-> h.hash]
  BY <1>2 DEF IsHtbl
<1>5. IsHtbl(g) /\ g.table = t
  BY <1>4 DEF IsHtbl
<1>6. InUse(g) = {}
  BY <1>3, <1>5 DEF InUse, FreeEntry
<1>7. EntriesOK(g, 2 * n)
  BY <1>3, <1>5, <1>6 DEF EntriesOK
<1>8. InUse(h) \cap 0..(0 - 1) = {}
  OBVIOUS
<1>9. /\ g.max_entries = 2 * h.max_entries /\ g.used_entries = h.used_entries
      /\ g.used_data = h.used_data /\ g.chunks = h.chunks
      /\ g.stored = h.stored /\ g.hash = h.hash
  BY <1>4
<1>10. Moved(h, n, g, 0)
  BY <1>5, <1>6, <1>7, <1>8, <1>9 DEF Moved
<1>. QED  BY <1>10 DEF g

(* One more entry is moved.  lookup ends at a free slot, so the panic of   *)
(* grow_table for a key that is there already is out of reach.             *)
LEMMA MovedNext ==
    ASSUME NEW h, NEW n \in Nat \ {0}, IsHtbl(h), EntriesOK(h, n),
           \A x \in DOMAIN h.stored : x # 0,
           NEW i \in 0..(n - 1), NEW g, Moved(h, n, g, i)
    PROVE  /\ i \notin InUse(h) => Moved(h, n, g, i + 1)
           /\ i \in InUse(h) =>
                  /\ Lookup(g, KeyAt(h, i)) \notin InUse(g)
                  /\ Moved(h, n, PutEntry(g, KeyAt(h, i), h.table[i].data_index), i + 1)
<1>. DEFINE done == InUse(h) \cap 0..(i - 1)
            next == InUse(h) \cap 0..((i + 1) - 1)
<1>0. /\ IsHtbl(g) /\ EntriesOK(g, 2 * n)
      /\ g.max_entries = 2 * h.max_entries /\ g.used_entries = h.used_entries
      /\ g.used_data = h.used_data /\ g.chunks = h.chunks
      /\ g.stored = h.stored /\ g.hash = h.hash
      /\ \A j \in InUse(g) : \E l \in done : g.table[j].data_index = h.table[l].data_index
      /\ \A l \in done : \E j \in InUse(g) : g.table[j].data_index = h.table[l].data_index
      /\ Cardinality(InUse(g)) = Cardinality(done)
  BY DEF Moved
<1>1. CASE i \notin InUse(h)
  <2>1. next = done
    BY <1>1
  <2>. QED  BY <1>0, <1>1, <2>1 DEF Moved
<1>2. CASE i \in InUse(h)
  <2>. DEFINE k == KeyAt(h, i)
              x == h.table[i].data_index
              p == PutEntry(g, k, x)
              s == Lookup(g, k)
  <2>1. next = done \cup {i} /\ i \notin done
    BY <1>2
  <2>2. /\ k \in HKeys /\ x \in DOMAIN g.stored /\ x # 0 /\ g.stored[x].key = k
    BY <1>0, <1>2 DEF EntriesOK, KeyAt
  <2>3. DOMAIN g.table = 0..(2 * n - 1) /\ 2 * n \in Nat \ {0}
    BY <1>0 DEF EntriesOK
  <2>4. IsFiniteSet(done) /\ Cardinality(done) \in Nat /\ Cardinality(done) <= i
    <3>1. IsFiniteSet(0..(i - 1)) /\ Cardinality(0..(i - 1)) = i
      BY UpTo
    <3>2. done \in SUBSET (0..(i - 1))
      OBVIOUS
    <3>. HIDE DEF done
    <3>3. IsFiniteSet(done) /\ Cardinality(done) <= Cardinality(0..(i - 1))
      BY <3>1, <3>2, FS_Subset
    <3>4. Cardinality(done) \in Nat
      BY <3>3, FS_CardinalityType
    <3>. QED  BY <3>1, <3>3, <3>4
  <2>5. \E j \in 0..(2 * n - 1) : j \notin InUse(g)
    <3>1. Cardinality(InUse(g)) < 2 * n
      BY <1>0, <2>4
    <3>. QED  BY <2>3, <3>1, FreeSlot
  <2>6. \A j \in InUse(g) : KeyAt(g, j) # k
    <3>. SUFFICES ASSUME NEW j \in InUse(g), KeyAt(g, j) = k PROVE FALSE
      OBVIOUS
    <3>1. PICK l \in done : g.table[j].data_index = h.table[l].data_index
      BY <1>0
    <3>2. KeyAt(h, l) = KeyAt(h, i)
      BY <1>0, <3>1 DEF KeyAt
    <3>3. l = i
      BY <1>2, <3>1, <3>2 DEF EntriesOK
    <3>. QED  BY <2>1, <3>1, <3>3
  <2>. HIDE DEF k, x, p, s
  <2>7. s \in 0..(2 * n - 1) /\ s \notin InUse(g)
    <3>1. s \in 0..(2 * n - 1) /\ (s \in InUse(g) => KeyAt(g, s) = k)
      BY <1>0, <2>2, <2>3, <2>5, LookupResult DEF s
    <3>. QED  BY <2>6, <3>1
  <2>8. /\ EntriesOK(p, 2 * n) /\ InUse(p) = InUse(g) \cup {s}
        /\ \A j \in InUse(g) \ {s} : p.table[j] = g.table[j]
    BY <1>0, <2>2, <2>3, <2>5, PutKeepsOrder DEF p, s
  <2>9. /\ IsHtbl(p) /\ p.table[s].data_index = x
        /\ p.max_entries = g.max_entries /\ p.used_entries = g.used_entries
        /\ p.used_data = g.used_data /\ p.chunks = g.chunks
        /\ p.stored = g.stored /\ p.hash = g.hash
    <3>1. /\ IsHtbl(p)
          /\ p.table[s] = [hash_byte |-> g.hash[k].byte, data_index |-> x]
          /\ p.max_entries = g.max_entries /\ p.used_entries = g.used_entries
          /\ p.used_data = g.used_data /\ p.chunks = g.chunks
          /\ p.stored = g.stored /\ p.hash = g.hash
      BY <1>0, <2>3, <2>7, PutFields DEF p, s
    <3>. QED  BY <3>1
  <2>10. Cardinality(InUse(p)) = Cardinality(next)
    <3>1. IsFiniteSet(InUse(g))
      BY <2>3, FreeSlot
    <3>2. Cardinality(InUse(g) \cup {s}) = Cardinality(InUse(g)) + 1
      BY <2>7, <3>1, FS_AddElement
    <3>. HIDE DEF done, next
    <3>3. Cardinality(done \cup {i}) = Cardinality(done) + 1
      BY <2>1, <2>4, FS_AddElement
    <3>. QED  BY <1>0, <2>1, <2>8, <3>2, <3>3
  <2>11. x = h.table[i].data_index
    BY DEF x
  <2>12. ASSUME NEW j \in InUse(p)
         PROVE  \E l \in next : p.table[j].data_index = h.table[l].data_index
    <3>1. CASE j = s
      BY <2>1, <2>9, <2>11, <3>1
    <3>2. CASE j # s
      <4>1. j \in InUse(g) /\ p.table[j] = g.table[j]
        BY <2>8, <3>2
      <4>2. PICK l \in done : g.table[j].data_index = h.table[l].data_index
        BY <1>0, <4>1
      <4>3. l \in next
        BY <2>1
      <4>. QED  BY <4>1, <4>2, <4>3
    <3>. QED  BY <3>1, <3>2
  <2>13. ASSUME NEW l \in next
         PROVE  \E j \in InUse(p) : p.table[j].data_index = h.table[l].data_index
    <3>1. CASE l = i
      <4>1. s \in InUse(p)
        BY <2>8
      <4>. QED  BY <2>9, <2>11, <3>1, <4>1
    <3>2. CASE l # i
      <4>1. l \in done
        BY <2>1, <3>2
      <4>2. PICK j \in InUse(g) : g.table[j].data_index = h.table[l].data_index
        BY <1>0, <4>1
      <4>3. j \in InUse(p) /\ p.table[j] = g.table[j]
        BY <2>7, <2>8
      <4>. QED  BY <4>2, <4>3
    <3>. QED  BY <3>1, <3>2
  <2>14. Moved(h, n, p, i + 1)
    BY <1>0, <2>8, <2>9, <2>10, <2>12, <2>13 DEF Moved
  <2>. QED  BY <1>2, <2>7, <2>14 DEF p, k, x, s
<1>. QED  BY <1>1, <1>2

(* grow_table moves every entry.                                           *)
LEMMA GrownMovesAll ==
    ASSUME NEW h, NEW n \in Nat \ {0}, IsHtbl(h), EntriesOK(h, n),
           \A x \in DOMAIN h.stored : x # 0
    PROVE  Moved(h, n, Grown(h), n)
<1>1. TableLen(h) = n
  BY FS_Interval DEF TableLen, EntriesOK
<1>. DEFINE f == CHOOSE f : Moves(h, f, n)
<1>2. Grown(h) = f[n]
  BY <1>1 DEF Grown, Moves, Larger
<1>3. Moves(h, f, n)
  BY MovesExist
<1>. HIDE DEF f
<1>4. \A i \in 0..n :
          f[i] = IF i = 0 THEN Larger(h)
                 ELSE IF i - 1 \notin InUse(h) THEN f[i - 1]
                 ELSE PutEntry(f[i - 1], KeyAt(h, i - 1), h.table[i - 1].data_index)
  BY <1>3 DEF Moves
<1>. DEFINE Bad == {i \in 0..n : ~Moved(h, n, f[i], i)}
<1>5. Bad = {}
  <2>. SUFFICES ASSUME Bad # {} PROVE FALSE
    OBVIOUS
  <2>1. PICK m \in Bad : \A l \in Bad : m <= l
    <3>1. Bad \in SUBSET Nat
      OBVIOUS
    <3>. HIDE DEF Bad
    <3>. QED  BY <3>1, LeastNumber
  <2>2. m # 0
    BY <1>4, <2>1, MovedNone
  <2>. DEFINE i == m - 1
  <2>3. i \in 0..(n - 1) /\ i \in 0..n /\ m = i + 1 /\ i \notin Bad
    BY <2>1, <2>2
  <2>4. Moved(h, n, f[i], i)
    BY <2>3
  <2>5. f[m] = IF i \notin InUse(h) THEN f[i]
               ELSE PutEntry(f[i], KeyAt(h, i), h.table[i].data_index)
    BY <1>4, <2>1, <2>2
  <2>. HIDE DEF i
  <2>6. Moved(h, n, f[m], i + 1)
    BY <2>3, <2>4, <2>5, MovedNext
  <2>7. ~Moved(h, n, f[m], m)
    BY <2>1
  <2>. QED  BY <2>3, <2>6, <2>7
<1>. QED  BY <1>2, <1>5

-----------------------------------------------------------------------------
(* get returns the value of the pair that the entry of a key points to.    *)
LEMMA GetFinds ==
    ASSUME NEW h, NEW n \in Nat, IsHtbl(h), EntriesOK(h, n),
           Cardinality(InUse(h)) = h.used_entries, n # 0 => h.used_entries < n
    PROVE  /\ \A i \in InUse(h) :
                  Get(h, KeyAt(h, i)) = h.stored[h.table[i].data_index].value
           /\ \A k \in HKeys : (\A i \in InUse(h) : KeyAt(h, i) # k) => Get(h, k) = Absent
<1>0. DOMAIN h.table = 0..(n - 1)
  BY DEF EntriesOK
<1>1. CASE n = 0
  <2>1. InUse(h) = {}
    BY <1>0, <1>1 DEF InUse
  <2>2. h.used_entries = 0
    BY <2>1, FS_EmptySet
  <2>. QED  BY <2>1, <2>2 DEF Get
<1>2. CASE n # 0
  <2>1. n \in Nat \ {0} /\ IsFiniteSet(InUse(h)) /\ \E j \in 0..(n - 1) : j \notin InUse(h)
    BY <1>0, <1>2, FreeSlot
  <2>2. ASSUME NEW i \in InUse(h)
        PROVE  Get(h, KeyAt(h, i)) = h.stored[h.table[i].data_index].value
    <3>1. h.used_entries # 0
      BY <2>1, FS_EmptySet
    <3>2. KeyAt(h, i) \in HKeys
      BY DEF EntriesOK
    <3>3. Lookup(h, KeyAt(h, i)) = i
      <4>1. /\ Lookup(h, KeyAt(h, i)) \in InUse(h)
            /\ KeyAt(h, Lookup(h, KeyAt(h, i))) = KeyAt(h, i)
        BY <2>1, <3>2, LookupResult
      <4>. QED  BY <4>1 DEF EntriesOK
    <3>4. h.table[i].data_index # 0
      BY DEF InUse
    <3>. QED  BY <3>1, <3>3, <3>4 DEF Get
  <2>3. ASSUME NEW k \in HKeys, \A i \in InUse(h) : KeyAt(h, i) # k PROVE Get(h, k) = Absent
    <3>1. Lookup(h, k) \in 0..(n - 1) /\ Lookup(h, k) \notin InUse(h)
      BY <2>1, <2>3, LookupResult
    <3>2. h.table[Lookup(h, k)].data_index = 0
      BY <1>0, <3>1 DEF InUse
    <3>. QED  BY <3>2 DEF Get
  <2>. QED  BY <2>2, <2>3
<1>. QED  BY <1>1, <1>2

(* A table whose entries are those of h, over pairs that include its own.  *)
LEMMA SameEntries ==
    ASSUME NEW h, NEW g, NEW n, EntriesOK(h, n), g.table = h.table, g.hash = h.hash,
           \A x \in DOMAIN h.stored : x \in DOMAIN g.stored /\ g.stored[x] = h.stored[x]
    PROVE  /\ EntriesOK(g, n) /\ InUse(g) = InUse(h)
           /\ \A i \in InUse(h) : KeyAt(g, i) = KeyAt(h, i)
<1>1. InUse(g) = InUse(h)
  BY DEF InUse
<1>2. \A i \in InUse(h) : KeyAt(g, i) = KeyAt(h, i)
  BY DEF KeyAt, EntriesOK
<1>3. \A k, d : Slot(g, k, d) = Slot(h, k, d)
  BY DEF Slot, TableLen
<1>4. \A k, i : Ends(g, k, i) <=> Ends(h, k, i)
  BY <1>1, <1>2 DEF Ends
<1>5. \A k, d : EndsAfter(g, k, d) <=> EndsAfter(h, k, d)
  BY <1>3, <1>4 DEF EndsAfter
<1>6. /\ n \in Nat /\ DOMAIN g.table = 0..(n - 1)
      /\ \A i \in 0..(n - 1) : i \notin InUse(g) => g.table[i] = FreeEntry
  BY <1>1 DEF EntriesOK
<1>7. \A i \in InUse(g) : /\ g.table[i].data_index \in DOMAIN g.stored
                          /\ KeyAt(g, i) \in HKeys
                          /\ g.table[i].hash_byte = g.hash[KeyAt(g, i)].byte
  BY <1>1, <1>2 DEF EntriesOK
<1>8. \A i, j \in InUse(g) : KeyAt(g, i) = KeyAt(g, j) => i = j
  BY <1>1, <1>2 DEF EntriesOK
<1>9. \A i \in InUse(g) :
          \E d \in 0..(n - 1) : EndsAfter(g, KeyAt(g, i), d) /\ i = Slot(g, KeyAt(g, i), d)
  BY <1>1, <1>2, <1>3, <1>5 DEF EntriesOK
<1>. QED  BY <1>1, <1>2, <1>6, <1>7, <1>8, <1>9 DEF EntriesOK

-----------------------------------------------------------------------------
(* The pair at i ends before chunk c does.                                 *)
InChunk(i, v, c) == c * ChunkSize <= i /\ i + PairSize(v) <= c * ChunkSize + ChunkSize

(* The pairs lie behind each other in the chunks, and used_data behind     *)
(* them in the last one.                                                   *)
DataOK(h) ==
    /\ h.chunks \in Nat /\ h.used_data \in Nat
    /\ h.chunks = 0 => DOMAIN h.stored = {}
    /\ h.chunks # 0 => /\ h.used_data # 0
                       /\ (h.chunks - 1) * ChunkSize <= h.used_data
                       /\ h.used_data < (h.chunks - 1) * ChunkSize + ChunkSize
    /\ \A i \in DOMAIN h.stored :
           /\ i \in Nat \ {0}
           /\ PairSize(h.stored[i].value) \in Nat \ {0}
           /\ i + PairSize(h.stored[i].value) <= h.used_data
           /\ \E c \in 0..(h.chunks - 1) : InChunk(i, h.stored[i].value, c)
    /\ \A i, j \in DOMAIN h.stored : i < j => i + PairSize(h.stored[i].value) <= j

(* The sizes of a pair that new_data accepts.                              *)
LEMMA PairSizes ==
    ASSUME NEW v \in ValueLens
    PROVE  /\ v \in Nat /\ KeyLen \in Nat /\ ChunkSize \in Nat \ {0}
           /\ Additional(v) \in Nat /\ PairSize(v) \in Nat \ {0}
           /\ PairSize(v) < Additional(v)
<1>1. v \in Nat /\ KeyLen \in Nat /\ ChunkSize \in Nat \ {0}
  BY HtblAssumption
<1>2. \A l \in Nat : LenSize(l) \in 1..4
  BY DEF LenSize
<1>3. LenSize(v) \in 1..4 /\ LenSize(KeyLen) \in 1..4
  BY <1>1, <1>2
<1>. QED  BY <1>1, <1>3 DEF Additional, PairSize, INDEX_SIZE

(* The bounds of a quotient.                                               *)
LEMMA QuotientBounds ==
    ASSUME NEW x \in Nat, NEW n \in Nat \ {0}
    PROVE  /\ x \div n \in Nat
           /\ (x \div n) * n \in Nat
           /\ (x \div n) * n <= x
           /\ x < (x \div n) * n + n
<1>. DEFINE q == x \div n
            r == x % n
<1>1. q \in Nat /\ r \in 0..(n - 1) /\ x = n * q + r
  OBVIOUS
<1>. HIDE DEF q, r
<1>2. n * q = q * n /\ q * n \in Nat
  BY <1>1
<1>3. q \in Nat /\ q * n \in Nat /\ q * n <= x /\ x < q * n + n
  BY <1>1, <1>2
<1>. QED  BY <1>3 DEF q

(* They determine it.                                                      *)
LEMMA QuotientIs ==
    ASSUME NEW x \in Nat, NEW n \in Nat \ {0}, NEW q \in Nat,
           q * n <= x, x < q * n + n
    PROVE  x \div n = q
<1>1. q * n \in Nat
  OBVIOUS
<1>. DEFINE r == x - q * n
<1>2. r \in 0..(n - 1) /\ x = q * n + r
  BY <1>1
<1>. HIDE DEF r
<1>. QED  BY <1>2, Quotient

(* A pair that new_data accepts is written behind the others, in a chunk.  *)
LEMMA DataPlaced ==
    ASSUME NEW h, DataOK(h), h.chunks = 0 => h.used_data = 1,
           NEW v \in ValueLens, ~DataFails(h, v),
           NEW x, x = DataIndex(h, v),
           NEW c, c = IF h.chunks > ChunkIndex(h, v) THEN h.chunks ELSE h.chunks + 1
    PROVE  /\ x \in Nat \ {0} /\ c \in Nat \ {0} /\ h.chunks <= c
           /\ \A i \in DOMAIN h.stored : i + PairSize(h.stored[i].value) <= x
           /\ InChunk(x, v, c - 1)
           /\ (c - 1) * ChunkSize <= x + PairSize(v)
           /\ x + PairSize(v) < (c - 1) * ChunkSize + ChunkSize
<1>. DEFINE u == h.used_data
            a == Additional(v)
            p == PairSize(v)
            q == ChunkIndex(h, v)
            n == ChunkSize
<1>1. /\ n \in Nat \ {0} /\ a \in Nat /\ p \in Nat \ {0} /\ p < a /\ u \in Nat
      /\ h.chunks \in Nat
  BY PairSizes DEF DataOK
<1>2. a < n /\ h.chunks >= q
  <2>1. ~(a >= n) /\ ~(h.chunks < q)
    BY DEF DataFails
  <2>2. q \in Nat
    BY <1>1, QuotientBounds DEF ChunkIndex
  <2>. QED  BY <1>1, <2>1, <2>2
<1>3. q \in Nat /\ q * n \in Nat /\ q * n <= u + a /\ u + a < q * n + n
  <2>1. u + a \in Nat /\ q = (u + a) \div n
    BY <1>1 DEF ChunkIndex
  <2>. HIDE DEF u, a, q, n
  <2>. QED  BY <1>1, <2>1, QuotientBounds
<1>4. /\ \A i \in DOMAIN h.stored :
             /\ i \in Nat /\ PairSize(h.stored[i].value) \in Nat
             /\ i + PairSize(h.stored[i].value) <= u
      /\ h.chunks = 0 => DOMAIN h.stored = {}
      /\ h.chunks # 0 => /\ u # 0 /\ (h.chunks - 1) * n <= u
                         /\ u < (h.chunks - 1) * n + n
  BY DEF DataOK
<1>5. /\ x = IF h.chunks > q THEN u ELSE IF q = 0 THEN 1 ELSE n * q
      /\ c = IF h.chunks > q THEN h.chunks ELSE h.chunks + 1
  BY DEF DataIndex
<1>6. InChunk(x, v, c - 1) <=> (c - 1) * n <= x /\ x + p <= (c - 1) * n + n
  BY DEF InChunk
<1>7. n * q = q * n
  BY <1>1, <1>3
<1>8. h.chunks = 0 => u = 1
  OBVIOUS
<1>. HIDE DEF u, a, p, q, n
<1>. DEFINE m == h.chunks - 1
<1>9. CASE h.chunks > q
  <2>1. m \in Nat /\ m >= q /\ h.chunks = m + 1 /\ c - 1 = m /\ x = u /\ c = h.chunks
    BY <1>1, <1>3, <1>5, <1>9
  <2>2. m * n <= u /\ u < m * n + n
    BY <1>4, <2>1
  <2>. HIDE DEF m
  <2>3. m = q
    <3>1. m >= q + 1 => m * n >= (q + 1) * n
      BY <1>1, <1>3, <2>1
    <3>2. (q + 1) * n = q * n + n /\ m * n \in Nat
      BY <1>1, <1>3, <2>1
    <3>. QED  BY <1>1, <1>3, <2>1, <2>2, <3>1, <3>2
  <2>4. x + p < (c - 1) * n + n
    BY <1>1, <1>3, <2>1, <2>3
  <2>5. (c - 1) * n <= x /\ (c - 1) * n \in Nat
    BY <1>3, <2>1, <2>2, <2>3
  <2>6. x # 0 /\ \A i \in DOMAIN h.stored : i + PairSize(h.stored[i].value) <= x
    BY <1>4, <2>1
  <2>7. (c - 1) * n <= x + p /\ x + p <= (c - 1) * n + n
    BY <1>1, <2>1, <2>4, <2>5
  <2>8. x \in Nat \ {0} /\ c \in Nat \ {0} /\ h.chunks <= c
    BY <1>1, <2>1, <2>6
  <2>. QED  BY <1>6, <2>4, <2>5, <2>6, <2>7, <2>8 DEF p, n
<1>10. CASE ~(h.chunks > q)
  <2>1. h.chunks = q /\ c - 1 = q /\ c \in Nat \ {0} /\ h.chunks <= c
    BY <1>1, <1>2, <1>3, <1>5, <1>10
  <2>2. CASE q = 0
    <3>1. x = 1 /\ u = 1 /\ DOMAIN h.stored = {} /\ q * n = 0
      BY <1>1, <1>4, <1>5, <1>8, <1>10, <2>1, <2>2
    <3>2. 0 * n = 0
      BY <1>1
    <3>3. x + p < q * n + n /\ q * n <= x /\ q * n <= x + p /\ x + p <= q * n + n
      BY <1>1, <1>3, <3>1
    <3>. QED  BY <1>6, <2>1, <3>1, <3>3 DEF p, n
  <2>3. CASE q # 0
    <3>1. x = q * n
      BY <1>5, <1>7, <1>10, <2>3
    <3>2. q * n >= n
      BY <1>1, <1>3, <2>3
    <3>3. x \in Nat \ {0} /\ x + p < q * n + n /\ q * n <= x /\ q * n <= x + p
          /\ x + p <= q * n + n
      BY <1>1, <1>2, <1>3, <3>1, <3>2
    <3>4. u < x
      <4>1. u < m * n + n /\ m \in Nat /\ m + 1 = q
        BY <1>1, <1>4, <2>1, <2>3
      <4>. HIDE DEF m
      <4>2. (m + 1) * n = m * n + n
        BY <1>1, <4>1
      <4>. QED  BY <1>1, <3>1, <4>1, <4>2
    <3>5. \A i \in DOMAIN h.stored : i + PairSize(h.stored[i].value) <= x
      <4>1. ASSUME NEW i \in DOMAIN h.stored PROVE i + PairSize(h.stored[i].value) <= x
        <5>1. /\ i \in Nat /\ PairSize(h.stored[i].value) \in Nat
              /\ i + PairSize(h.stored[i].value) <= u
          BY <1>4
        <5>. QED  BY <1>1, <3>3, <3>4, <5>1
      <4>. QED  BY <4>1
    <3>. QED  BY <1>6, <2>1, <3>3, <3>5 DEF p, n
  <2>. QED  BY <2>2, <2>3
<1>. QED  BY <1>9, <1>10

(* The fields of a table to which a pair has been added.                   *)
Added(h, k, v, new) == [NewData(h, k, v) EXCEPT !.used_entries = @ + new]
LEMMA AddedFields ==
    ASSUME NEW h, IsHtbl(h), NEW k, NEW v, NEW new,
           NEW x, x = DataIndex(h, v), NEW g, g = Added(h, k, v, new)
    PROVE  /\ IsHtbl(g)
           /\ g.table = h.table /\ g.max_entries = h.max_entries
           /\ g.used_entries = h.used_entries + new /\ g.hash = h.hash
           /\ g.used_data = x + PairSize(v)
           /\ g.chunks = IF h.chunks > ChunkIndex(h, v) THEN h.chunks ELSE h.chunks + 1
           /\ DOMAIN g.stored = DOMAIN h.stored \cup {x}
           /\ g.stored[x] = [key |-> k, value |-> v]
           /\ \A i \in DOMAIN h.stored : i # x => g.stored[i] = h.stored[i]
<1>. DEFINE st == [i \in DOMAIN h.stored \cup {x} |->
                     IF i = x THEN [key |-> k, value |-> v] ELSE h.stored[i]]
            ch == IF h.chunks > ChunkIndex(h, v) THEN h.chunks ELSE h.chunks + 1
            y == NewData(h, k, v)
<1>1. y = [h EXCEPT !.chunks = ch, !.used_data = x + PairSize(v), !.stored = st]
  BY DEF NewData
<1>2. /\ DOMAIN st = DOMAIN h.stored \cup {x}
      /\ st[x] = [key |-> k, value |-> v]
      /\ \A i \in DOMAIN h.stored : i # x => st[i] = h.stored[i]
  OBVIOUS
<1>. HIDE DEF st, ch, y
<1>3. h = [table |-> h.table, max_entries |-> h.max_entries, used_entries |-> h.used_entries,
           used_data |-> h.used_data, chunks |-> h.chunks, stored |-> h.stored,
           hash |-> h.hash] /\ h.hash \in Hashes
  BY DEF IsHtbl
<1>4. y = [table |-> h.table, max_entries |-> h.max_entries, used_entries |-> h.used_entries,
           used_data |-> x + PairSize(v), chunks |-> ch, stored |-> st, hash |-> h.hash]
  BY <1>1, <1>3
<1>5. g = [table |-> h.table, max_entries |-> h.max_entries,
           used_entries |-> h.used_entries + new,
           used_data |-> x + PairSize(v), chunks |-> ch, stored |-> st, hash |-> h.hash]
  BY <1>4 DEF Added, y
<1>6. IsHtbl(g)
  BY <1>3, <1>5 DEF IsHtbl
<1>. QED  BY <1>2, <1>5, <1>6 DEF ch

(* The pairs are in order after it.                                        *)
LEMMA AddedInOrder ==
    ASSUME NEW h, IsHtbl(h), DataOK(h), h.chunks = 0 => h.used_data = 1,
           NEW k, NEW v \in ValueLens, ~DataFails(h, v), NEW new,
           NEW g, g = Added(h, k, v, new)
    PROVE  /\ DataOK(g) /\ g.chunks # 0
           /\ DataIndex(h, v) \notin DOMAIN h.stored
<1>. DEFINE x == DataIndex(h, v)
<1>1. /\ IsHtbl(g)
      /\ g.used_data = x + PairSize(v)
      /\ g.chunks = IF h.chunks > ChunkIndex(h, v) THEN h.chunks ELSE h.chunks + 1
      /\ DOMAIN g.stored = DOMAIN h.stored \cup {x}
      /\ g.stored[x] = [key |-> k, value |-> v]
      /\ \A i \in DOMAIN h.stored : i # x => g.stored[i] = h.stored[i]
  BY AddedFields
<1>. HIDE DEF x
<1>2. /\ x \in Nat \ {0} /\ g.chunks \in Nat \ {0} /\ h.chunks <= g.chunks
      /\ \A i \in DOMAIN h.stored : i + PairSize(h.stored[i].value) <= x
      /\ InChunk(x, v, g.chunks - 1)
      /\ (g.chunks - 1) * ChunkSize <= x + PairSize(v)
      /\ x + PairSize(v) < (g.chunks - 1) * ChunkSize + ChunkSize
  BY <1>1, DataPlaced DEF x
<1>3. PairSize(v) \in Nat \ {0}
  BY PairSizes
<1>4. /\ h.chunks \in Nat
      /\ \A i \in DOMAIN h.stored :
             /\ i \in Nat \ {0}
             /\ PairSize(h.stored[i].value) \in Nat \ {0}
             /\ \E c \in 0..(h.chunks - 1) : InChunk(i, h.stored[i].value, c)
      /\ \A i, j \in DOMAIN h.stored : i < j => i + PairSize(h.stored[i].value) <= j
  BY DEF DataOK
<1>5. \A i \in DOMAIN h.stored : i < x
  <2>1. ASSUME NEW i \in DOMAIN h.stored PROVE i < x
    <3>1. i \in Nat /\ PairSize(h.stored[i].value) \in Nat \ {0}
          /\ i + PairSize(h.stored[i].value) <= x
      BY <1>2, <1>4
    <3>. QED  BY <1>2, <3>1
  <2>. QED  BY <2>1
<1>6. x \notin DOMAIN h.stored
  BY <1>2, <1>5
<1>7. \A i \in DOMAIN h.stored : g.stored[i] = h.stored[i]
  BY <1>1, <1>6
<1>8. g.stored[x].value = v
  BY <1>1
<1>9. ASSUME NEW i \in DOMAIN g.stored
      PROVE  /\ i \in Nat \ {0}
             /\ PairSize(g.stored[i].value) \in Nat \ {0}
             /\ i + PairSize(g.stored[i].value) <= g.used_data
             /\ \E c \in 0..(g.chunks - 1) : InChunk(i, g.stored[i].value, c)
  <2>1. CASE i = x
    <3>1. g.chunks - 1 \in 0..(g.chunks - 1)
      BY <1>2
    <3>2. x + PairSize(v) <= g.used_data
      BY <1>1, <1>2, <1>3
    <3>. QED  BY <1>2, <1>3, <1>8, <2>1, <3>1, <3>2
  <2>2. CASE i # x
    <3>1. i \in DOMAIN h.stored /\ g.stored[i] = h.stored[i]
      BY <1>1, <1>7, <2>2
    <3>2. PICK c \in 0..(h.chunks - 1) : InChunk(i, h.stored[i].value, c)
      BY <1>4, <3>1
    <3>3. c \in 0..(g.chunks - 1)
      BY <1>2, <1>4
    <3>4. i \in Nat \ {0} /\ PairSize(h.stored[i].value) \in Nat \ {0}
          /\ i + PairSize(h.stored[i].value) <= x
      BY <1>2, <1>4, <3>1
    <3>5. i + PairSize(h.stored[i].value) <= g.used_data
      BY <1>1, <1>2, <1>3, <3>4
    <3>. QED  BY <3>1, <3>2, <3>3, <3>4, <3>5
  <2>. QED  BY <2>1, <2>2
<1>10. ASSUME NEW i \in DOMAIN g.stored, NEW j \in DOMAIN g.stored, i < j
       PROVE  i + PairSize(g.stored[i].value) <= j
  <2>1. CASE i \in DOMAIN h.stored /\ j \in DOMAIN h.stored
    BY <1>4, <1>7, <1>10, <2>1
  <2>2. CASE i \in DOMAIN h.stored /\ j = x
    BY <1>2, <1>7, <2>2
  <2>3. CASE i = x
    <3>1. j <= x
      BY <1>1, <1>2, <1>5, <1>4
    <3>2. j \in Nat /\ x \in Nat
      BY <1>2, <1>9
    <3>. QED  BY <1>10, <2>3, <3>1, <3>2
  <2>. QED  BY <1>1, <2>1, <2>2, <2>3
<1>11. g.used_data \in Nat /\ g.used_data # 0
  BY <1>1, <1>2, <1>3
<1>12. DataOK(g)
  BY <1>1, <1>2, <1>9, <1>10, <1>11 DEF DataOK
<1>. QED  BY <1>2, <1>6, <1>12 DEF x

-----------------------------------------------------------------------------
(* A table of n slots as its operations leave it.                          *)
HtblOK(h, n) ==
    /\ IsHtbl(h) /\ EntriesOK(h, n) /\ DataOK(h)
    /\ Cardinality(InUse(h)) = h.used_entries
    /\ n # 0 => /\ h.max_entries \in Nat \ {0}
                /\ h.used_entries <= h.max_entries /\ h.max_entries < n
                /\ h.chunks = 0 => h.used_data = 1

(* The number of entries in use of such a table.                           *)
LEMMA UsedEntries ==
    ASSUME NEW h, NEW n \in Nat, HtblOK(h, n)
    PROVE  /\ h.used_entries \in Nat /\ IsFiniteSet(InUse(h))
           /\ n # 0 => h.used_entries < n
           /\ n # 0 => \E j \in 0..(n - 1) : j \notin InUse(h)
<1>1. DOMAIN h.table = 0..(n - 1)
  BY DEF HtblOK, EntriesOK
<1>2. CASE n = 0
  <2>1. InUse(h) = {}
    BY <1>1, <1>2 DEF InUse
  <2>. QED  BY <1>2, <2>1, FS_EmptySet DEF HtblOK
<1>3. CASE n # 0
  <2>1. IsFiniteSet(InUse(h)) /\ Cardinality(InUse(h)) \in Nat
    BY <1>1, <1>3, FreeSlot
  <2>2. Cardinality(InUse(h)) = h.used_entries
    BY DEF HtblOK
  <2>3. h.used_entries <= h.max_entries /\ h.max_entries < n /\ h.max_entries \in Nat
    BY <1>3 DEF HtblOK
  <2>4. h.used_entries < n
    BY <2>1, <2>2, <2>3
  <2>5. \E j \in 0..(n - 1) : j \notin InUse(h)
    BY <1>1, <1>3, <2>2, <2>4, FreeSlot
  <2>. QED  BY <2>1, <2>2, <2>4, <2>5
<1>. QED  BY <1>2, <1>3

(* insert into a table with room: the key has the new value and the others *)
(* have theirs.                                                            *)
LEMMA InsertedOK ==
    ASSUME NEW h, NEW n \in Nat \ {0}, HtblOK(h, n), h.used_entries < h.max_entries,
           NEW k \in HKeys, NEW v \in ValueLens, ~DataFails(h, v),
           NEW g, g = Inserted(h, k, v)
    PROVE  /\ HtblOK(g, n)
           /\ Get(g, k) = v
           /\ \A l \in HKeys \ {k} : Get(g, l) = Get(h, l)
<1>. DEFINE x == DataIndex(h, v)
            new == IF h.table[Lookup(h, k)].data_index = 0 THEN 1 ELSE 0
            y == Added(h, k, v, new)
            i == Lookup(y, k)
<1>1. g = PutEntry(y, k, x)
  BY DEF Inserted, Added
<1>2. /\ IsHtbl(h) /\ EntriesOK(h, n) /\ DataOK(h)
      /\ Cardinality(InUse(h)) = h.used_entries
      /\ h.max_entries \in Nat \ {0}
      /\ h.used_entries <= h.max_entries /\ h.max_entries < n
      /\ h.chunks = 0 => h.used_data = 1
  BY DEF HtblOK
<1>3. h.used_entries \in Nat /\ IsFiniteSet(InUse(h)) /\ h.used_entries < n
      /\ \E j \in 0..(n - 1) : j \notin InUse(h)
  BY UsedEntries
<1>4. /\ IsHtbl(y)
      /\ y.table = h.table /\ y.max_entries = h.max_entries
      /\ y.used_entries = h.used_entries + new /\ y.hash = h.hash
      /\ DOMAIN y.stored = DOMAIN h.stored \cup {x}
      /\ y.stored[x] = [key |-> k, value |-> v]
      /\ \A j \in DOMAIN h.stored : j # x => y.stored[j] = h.stored[j]
  BY <1>2, AddedFields
<1>5. DataOK(y) /\ y.chunks # 0 /\ x \notin DOMAIN h.stored
  BY <1>2, AddedInOrder
<1>6. new = IF Lookup(h, k) \in InUse(h) THEN 0 ELSE 1
  <2>1. Lookup(h, k) \in DOMAIN h.table
    BY <1>2, <1>3, LookupResult DEF EntriesOK
  <2>. QED  BY <2>1 DEF InUse
<1>. HIDE DEF x, new, y, i
<1>7. \A j \in DOMAIN h.stored : j \in DOMAIN y.stored /\ y.stored[j] = h.stored[j]
  BY <1>4, <1>5
<1>8. /\ EntriesOK(y, n) /\ InUse(y) = InUse(h)
      /\ \A j \in InUse(h) : KeyAt(y, j) = KeyAt(h, j)
  BY <1>2, <1>4, <1>7, SameEntries
<1>9. x \in DOMAIN y.stored /\ x # 0 /\ y.stored[x].key = k /\ y.stored[x].value = v
  BY <1>4, <1>5 DEF DataOK
<1>10. \E j \in 0..(n - 1) : j \notin InUse(y)
  BY <1>3, <1>8
<1>11. /\ i \in 0..(n - 1)
       /\ i \in InUse(y) => KeyAt(y, i) = k
       /\ i \notin InUse(y) => \A j \in InUse(y) : KeyAt(y, j) # k
  BY <1>4, <1>8, <1>10, LookupResult DEF i
<1>12. Lookup(h, k) \in InUse(h) <=> i \in InUse(h)
  <2>1. /\ Lookup(h, k) \in InUse(h) => KeyAt(h, Lookup(h, k)) = k
        /\ Lookup(h, k) \notin InUse(h) => \A j \in InUse(h) : KeyAt(h, j) # k
    BY <1>2, <1>3, LookupResult
  <2>. QED  BY <1>8, <1>11, <2>1
<1>13. /\ EntriesOK(g, n)
       /\ InUse(g) = InUse(h) \cup {i}
       /\ KeyAt(g, i) = k
       /\ \A j \in InUse(h) \ {i} : g.table[j] = h.table[j] /\ KeyAt(g, j) = KeyAt(h, j)
                                    /\ KeyAt(g, j) # k
  <2>1. /\ EntriesOK(g, n)
        /\ InUse(g) = InUse(y) \cup {i}
        /\ KeyAt(g, i) = k
        /\ \A j \in InUse(y) \ {i} : g.table[j] = y.table[j] /\ KeyAt(g, j) = KeyAt(y, j)
                                     /\ KeyAt(g, j) # k
    BY <1>1, <1>4, <1>8, <1>9, <1>10, PutKeepsOrder DEF i
  <2>. QED  BY <1>4, <1>8, <2>1
<1>14. DOMAIN y.table = 0..(n - 1)
  BY <1>8 DEF EntriesOK
<1>15. /\ IsHtbl(g) /\ g.table[i] = [hash_byte |-> y.hash[k].byte, data_index |-> x]
       /\ g.max_entries = h.max_entries /\ g.used_entries = h.used_entries + new
       /\ g.used_data = y.used_data /\ g.chunks = y.chunks /\ g.stored = y.stored
  <2>1. /\ IsHtbl(g) /\ g.table[i] = [hash_byte |-> y.hash[k].byte, data_index |-> x]
        /\ g.max_entries = y.max_entries /\ g.used_entries = y.used_entries
        /\ g.used_data = y.used_data /\ g.chunks = y.chunks /\ g.stored = y.stored
    BY <1>1, <1>4, <1>11, <1>14, PutFields DEF i
  <2>. QED  BY <1>4, <2>1
<1>16. Cardinality(InUse(g)) = g.used_entries
  <2>1. Cardinality(InUse(h) \cup {i}) =
            IF i \in InUse(h) THEN Cardinality(InUse(h)) ELSE Cardinality(InUse(h)) + 1
    BY <1>3, FS_AddElement
  <2>. QED  BY <1>2, <1>3, <1>6, <1>12, <1>13, <1>15, <2>1
<1>17. DataOK(g)
  BY <1>5, <1>15 DEF DataOK
<1>18. g.used_entries <= g.max_entries /\ g.used_entries < n
  <2>1. new \in {0, 1}
    BY <1>6
  <2>. QED  BY <1>2, <1>3, <1>15, <2>1
<1>19. HtblOK(g, n)
  BY <1>2, <1>5, <1>13, <1>15, <1>16, <1>17, <1>18 DEF HtblOK
<1>20. /\ \A j \in InUse(g) : Get(g, KeyAt(g, j)) = g.stored[g.table[j].data_index].value
       /\ \A l \in HKeys : (\A j \in InUse(g) : KeyAt(g, j) # l) => Get(g, l) = Absent
  <2>1. /\ IsHtbl(g) /\ EntriesOK(g, n) /\ n \in Nat
        /\ Cardinality(InUse(g)) = g.used_entries /\ g.used_entries < n
    BY <1>13, <1>15, <1>16, <1>18
  <2>. QED  BY <2>1, GetFinds
<1>21. /\ \A j \in InUse(h) : Get(h, KeyAt(h, j)) = h.stored[h.table[j].data_index].value
       /\ \A l \in HKeys : (\A j \in InUse(h) : KeyAt(h, j) # l) => Get(h, l) = Absent
  <2>1. /\ IsHtbl(h) /\ EntriesOK(h, n) /\ n \in Nat
        /\ Cardinality(InUse(h)) = h.used_entries /\ h.used_entries < n
    BY <1>2, <1>3
  <2>. QED  BY <2>1, GetFinds
<1>22. Get(g, k) = v
  <2>1. g.table[i].data_index = x
    BY <1>15
  <2>2. i \in InUse(g)
    BY <1>13
  <2>. QED  BY <1>9, <1>13, <1>15, <1>20, <2>1, <2>2
<1>23. ASSUME NEW l \in HKeys \ {k} PROVE Get(g, l) = Get(h, l)
  <2>1. CASE \E j \in InUse(h) : KeyAt(h, j) = l
    <3>1. PICK j \in InUse(h) : KeyAt(h, j) = l
      BY <2>1
    <3>2. j # i
      BY <1>8, <1>11, <3>1
    <3>3. j \in InUse(g) /\ g.table[j] = h.table[j] /\ KeyAt(g, j) = l
      BY <1>13, <3>1, <3>2
    <3>4. h.table[j].data_index \in DOMAIN h.stored
      BY <1>2 DEF EntriesOK
    <3>5. g.stored[h.table[j].data_index] = h.stored[h.table[j].data_index]
      BY <1>7, <1>15, <3>4
    <3>6. Get(h, l) = h.stored[h.table[j].data_index].value
      BY <1>21, <3>1
    <3>7. Get(g, l) = g.stored[g.table[j].data_index].value
      BY <1>20, <3>3
    <3>. QED  BY <3>3, <3>5, <3>6, <3>7
  <2>2. CASE ~ \E j \in InUse(h) : KeyAt(h, j) = l
    <3>1. \A j \in InUse(g) : KeyAt(g, j) # l
      BY <1>13, <2>2
    <3>. QED  BY <1>20, <1>21, <2>2, <3>1
  <2>. QED  BY <2>1, <2>2
<1>. QED  BY <1>19, <1>22, <1>23

(* grow_table keeps the pairs and their keys' values.                      *)
LEMMA GrownOK ==
    ASSUME NEW h, NEW n \in Nat \ {0}, HtblOK(h, n), NEW g, g = Grown(h)
    PROVE  /\ HtblOK(g, 2 * n) /\ 2 * n \in Nat \ {0}
           /\ g.max_entries = 2 * h.max_entries /\ g.used_entries = h.used_entries
           /\ h.used_entries < g.max_entries
           /\ \A k \in HKeys : Get(g, k) = Get(h, k)
<1>1. /\ IsHtbl(h) /\ EntriesOK(h, n) /\ DataOK(h)
      /\ Cardinality(InUse(h)) = h.used_entries
      /\ h.max_entries \in Nat \ {0}
      /\ h.used_entries <= h.max_entries /\ h.max_entries < n
      /\ h.chunks = 0 => h.used_data = 1
  BY DEF HtblOK
<1>2. h.used_entries \in Nat /\ h.used_entries < n
  BY UsedEntries
<1>3. \A x \in DOMAIN h.stored : x # 0
  BY <1>1 DEF DataOK
<1>4. InUse(h) \cap 0..(n - 1) = InUse(h)
  BY <1>1 DEF InUse, EntriesOK
<1>5. /\ IsHtbl(g) /\ EntriesOK(g, 2 * n)
      /\ g.max_entries = 2 * h.max_entries /\ g.used_entries = h.used_entries
      /\ g.used_data = h.used_data /\ g.chunks = h.chunks
      /\ g.stored = h.stored /\ g.hash = h.hash
      /\ \A j \in InUse(g) : \E l \in InUse(h) : g.table[j].data_index = h.table[l].data_index
      /\ \A l \in InUse(h) : \E j \in InUse(g) : g.table[j].data_index = h.table[l].data_index
      /\ Cardinality(InUse(g)) = Cardinality(InUse(h))
  <2>1. Moved(h, n, g, n)
    BY <1>1, <1>3, GrownMovesAll
  <2>. QED  BY <1>4, <2>1 DEF Moved
<1>6. DataOK(g)
  BY <1>1, <1>5 DEF DataOK
<1>7. /\ 2 * n \in Nat \ {0} /\ g.max_entries \in Nat \ {0} /\ g.max_entries < 2 * n
      /\ g.used_entries < g.max_entries /\ g.used_entries < 2 * n
      /\ g.used_entries <= g.max_entries
  BY <1>1, <1>2, <1>5
<1>8. HtblOK(g, 2 * n)
  BY <1>1, <1>5, <1>6, <1>7 DEF HtblOK
<1>9. /\ \A j \in InUse(g) : Get(g, KeyAt(g, j)) = g.stored[g.table[j].data_index].value
      /\ \A l \in HKeys : (\A j \in InUse(g) : KeyAt(g, j) # l) => Get(g, l) = Absent
  <2>1. /\ IsHtbl(g) /\ EntriesOK(g, 2 * n) /\ 2 * n \in Nat
        /\ Cardinality(InUse(g)) = g.used_entries /\ g.used_entries < 2 * n
    BY <1>1, <1>5, <1>7
  <2>. QED  BY <2>1, GetFinds
<1>10. /\ \A j \in InUse(h) : Get(h, KeyAt(h, j)) = h.stored[h.table[j].data_index].value
       /\ \A l \in HKeys : (\A j \in InUse(h) : KeyAt(h, j) # l) => Get(h, l) = Absent
  <2>1. /\ IsHtbl(h) /\ EntriesOK(h, n) /\ n \in Nat
        /\ Cardinality(InUse(h)) = h.used_entries /\ h.used_entries < n
    BY <1>1, <1>2
  <2>. QED  BY <2>1, GetFinds
<1>11. ASSUME NEW k \in HKeys PROVE Get(g, k) = Get(h, k)
  <2>1. CASE \E l \in InUse(h) : KeyAt(h, l) = k
    <3>1. PICK l \in InUse(h) : KeyAt(h, l) = k
      BY <2>1
    <3>2. PICK j \in InUse(g) : g.table[j].data_index = h.table[l].data_index
      BY <1>5
    <3>3. KeyAt(g, j) = k
      BY <1>5, <3>1, <3>2 DEF KeyAt
    <3>4. Get(g, k) = g.stored[g.table[j].data_index].value
      BY <1>9, <3>3
    <3>5. Get(h, k) = h.stored[h.table[l].data_index].value
      BY <1>10, <3>1
    <3>. QED  BY <1>5, <3>2, <3>4, <3>5
  <2>2. CASE ~ \E l \in InUse(h) : KeyAt(h, l) = k
    <3>1. ASSUME NEW j \in InUse(g) PROVE KeyAt(g, j) # k
      <4>1. PICK l \in InUse(h) : g.table[j].data_index = h.table[l].data_index
        BY <1>5
      <4>2. KeyAt(g, j) = KeyAt(h, l)
        BY <1>5, <4>1 DEF KeyAt
      <4>. QED  BY <2>2, <4>2
    <3>2. \A l \in InUse(h) : KeyAt(h, l) # k
      BY <2>2
    <3>. QED  BY <1>9, <1>10, <3>1, <3>2
  <2>. QED  BY <2>1, <2>2
<1>. QED  BY <1>5, <1>7, <1>8, <1>11

(* A table without entries, as reserve leaves it.                          *)
LEMMA ReservedOK ==
    ASSUME NEW m \in Nat, NEW hash \in Hashes, NEW h, h = Reserved(m, hash)
    PROVE  /\ HtblOK(h, (5 * m + 1) \div 3) /\ (5 * m + 1) \div 3 \in Nat
           /\ m # 0 => (5 * m + 1) \div 3 # 0
           /\ h.max_entries = m /\ h.used_entries = 0
<1>. DEFINE n == (5 * m + 1) \div 3
            t == [i \in 0..(n - 1) |-> FreeEntry]
<1>1. n \in Nat /\ (m = 0 => n = 0) /\ (m # 0 => m < n)
  OBVIOUS
<1>2. h = [table |-> t, max_entries |-> m, used_entries |-> 0, used_data |-> 1,
           chunks |-> 0, stored |-> << >>, hash |-> hash]
  BY DEF Reserved
<1>3. DOMAIN t = 0..(n - 1) /\ \A i \in 0..(n - 1) : t[i] = FreeEntry
  OBVIOUS
<1>. HIDE DEF n, t
<1>4. /\ h.table = t /\ h.max_entries = m /\ h.used_entries = 0 /\ h.used_data = 1
      /\ h.chunks = 0 /\ h.stored = << >> /\ h.hash = hash /\ IsHtbl(h)
  BY <1>2 DEF IsHtbl
<1>5. InUse(h) = {}
  BY <1>3, <1>4 DEF InUse, FreeEntry
<1>6. EntriesOK(h, n)
  BY <1>1, <1>3, <1>4, <1>5 DEF EntriesOK
<1>7. DOMAIN h.stored = {}
  BY <1>4
<1>8. DataOK(h)
  BY <1>4, <1>7 DEF DataOK
<1>9. Cardinality(InUse(h)) = h.used_entries
  BY <1>4, <1>5, FS_EmptySet
<1>10. HtblOK(h, n)
  BY <1>1, <1>4, <1>6, <1>8, <1>9 DEF HtblOK
<1>. QED  BY <1>1, <1>4, <1>10 DEF n

(* The inductive invariant.                                                *)
HtblInv == \E n \in Nat : HtblOK(htbl, n)

(* What insert does to a table with room, or to one that it has just made. *)
LEMMA InsertStep ==
    ASSUME NEW h, NEW n \in Nat \ {0}, HtblOK(h, n), h.used_entries < h.max_entries,
           NEW k \in HKeys, NEW v \in ValueLens, InsertInto(h, k, v), HtblInv,
           \A l \in HKeys : Get(h, l) = Get(htbl, l)
    PROVE  /\ HtblInv'
           /\ \/ UNCHANGED htbl
              \/ \A l \in HKeys : Get(htbl', l) = IF l = k THEN v ELSE Get(htbl, l)
<1>1. CASE DataFails(h, v)
  <2>1. UNCHANGED htbl
    BY <1>1 DEF InsertInto
  <2>. QED  BY <2>1 DEF HtblInv
<1>2. CASE ~DataFails(h, v)
  <2>1. htbl' = Inserted(h, k, v)
    BY <1>2 DEF InsertInto
  <2>2. /\ HtblOK(htbl', n)
        /\ Get(htbl', k) = v
        /\ \A l \in HKeys \ {k} : Get(htbl', l) = Get(h, l)
    BY <1>2, <2>1, InsertedOK
  <2>3. HtblInv'
    BY <2>2 DEF HtblInv
  <2>. QED  BY <2>2, <2>3
<1>. QED  BY <1>1, <1>2

(* A step keeps the invariant, and changes the map as Put does or not.     *)
LEMMA HtblStep ==
    ASSUME HtblInv, [HtblNext]_htblVars
    PROVE  /\ HtblInv'
           /\ \/ \A l \in HKeys : Get(htbl', l) = Get(htbl, l)
              \/ \E k \in HKeys, v \in ValueLens :
                     \A l \in HKeys : Get(htbl', l) = IF l = k THEN v ELSE Get(htbl, l)
<1>1. CASE UNCHANGED htblVars
  BY <1>1 DEF HtblInv, htblVars
<1>2. ASSUME NEW m \in Reservations, Reserve(m)
      PROVE  HtblInv' /\ \A l \in HKeys : Get(htbl', l) = Get(htbl, l)
  <2>1. PICK hash \in Hashes : htbl' = Reserved(m, hash)
    BY <1>2 DEF Reserve
  <2>2. m \in Nat /\ htbl.used_entries = 0
    BY <1>2, HtblAssumption DEF Reserve
  <2>3. /\ HtblOK(htbl', (5 * m + 1) \div 3) /\ (5 * m + 1) \div 3 \in Nat
        /\ htbl'.used_entries = 0
    BY <2>1, <2>2, ReservedOK
  <2>4. HtblInv'
    BY <2>3 DEF HtblInv
  <2>. QED  BY <2>2, <2>3, <2>4 DEF Get
<1>3. ASSUME NEW k \in HKeys, NEW v \in ValueLens, Insert(k, v)
      PROVE  /\ HtblInv'
             /\ \/ UNCHANGED htbl
                \/ \A l \in HKeys : Get(htbl', l) = IF l = k THEN v ELSE Get(htbl, l)
  <2>1. PICK n \in Nat : HtblOK(htbl, n)
    BY DEF HtblInv
  <2>2. DOMAIN htbl.table = 0..(n - 1)
    BY <2>1 DEF HtblOK, EntriesOK
  <2>3. CASE n = 0
    <3>1. DOMAIN htbl.table = {}
      BY <2>2, <2>3
    <3>2. PICK hash \in Hashes : InsertInto(Reserved(1, hash), k, v)
      BY <1>3, <3>1 DEF Insert
    <3>. DEFINE h == Reserved(1, hash)
                m == (5 * 1 + 1) \div 3
    <3>3. HtblOK(h, m) /\ m \in Nat \ {0} /\ h.max_entries = 1 /\ h.used_entries = 0
      BY ReservedOK
    <3>4. htbl.used_entries = 0
      <4>1. InUse(htbl) = {}
        BY <3>1 DEF InUse
      <4>. QED  BY <2>1, <4>1, FS_EmptySet DEF HtblOK
    <3>5. \A l \in HKeys : Get(h, l) = Get(htbl, l)
      BY <3>3, <3>4 DEF Get
    <3>6. InsertInto(h, k, v)
      BY <3>2
    <3>. HIDE DEF h, m
    <3>. QED  BY <3>3, <3>5, <3>6, InsertStep
  <2>4. CASE n # 0
    <3>1. DOMAIN htbl.table # {}
      <4>1. 0 \in 0..(n - 1)
        BY <2>4
      <4>. QED  BY <2>2, <4>1
    <3>2. InsertInto(IF htbl.used_entries >= htbl.max_entries THEN Grown(htbl) ELSE htbl, k, v)
      BY <1>3, <3>1 DEF Insert
    <3>3. CASE htbl.used_entries >= htbl.max_entries
      <4>. DEFINE h == Grown(htbl)
      <4>1. /\ HtblOK(h, 2 * n) /\ 2 * n \in Nat \ {0}
            /\ h.used_entries < h.max_entries
            /\ \A l \in HKeys : Get(h, l) = Get(htbl, l)
        BY <2>1, <2>4, GrownOK
      <4>2. InsertInto(h, k, v)
        BY <3>2, <3>3
      <4>. HIDE DEF h
      <4>. QED  BY <4>1, <4>2, InsertStep
    <3>4. CASE ~(htbl.used_entries >= htbl.max_entries)
      <4>1. htbl.used_entries < htbl.max_entries
        <5>1. htbl.used_entries \in Nat /\ htbl.max_entries \in Nat
          BY <2>1, <2>4, UsedEntries DEF HtblOK
        <5>. QED  BY <3>4, <5>1
      <4>2. InsertInto(htbl, k, v)
        BY <3>2, <3>4
      <4>. QED  BY <2>1, <2>4, <4>1, <4>2, InsertStep
    <3>. QED  BY <3>3, <3>4
  <2>. QED  BY <2>3, <2>4
<1>4. CASE HtblNext
  <2>1. CASE \E m \in Reservations : Reserve(m)
    BY <1>2, <2>1
  <2>2. CASE \E k \in HKeys, v \in ValueLens : Insert(k, v)
    BY <1>3, <2>2
  <2>. QED  BY <1>4, <2>1, <2>2 DEF HtblNext
<1>. QED  BY <1>1, <1>4

(* The table at the start.                                                 *)
LEMMA HtblStart ==
    ASSUME HtblInit
    PROVE  HtblInv /\ \A l \in HKeys : Get(htbl, l) = Absent
<1>1. /\ IsHtbl(htbl) /\ htbl.table = << >> /\ htbl.stored = << >>
      /\ htbl.used_entries = 0 /\ htbl.used_data = 0 /\ htbl.chunks = 0
  <2>1. [k \in HKeys |-> [top |-> 0, byte |-> 0]] \in Hashes
    <3>1. 0 \in 0..(HashTop - 1) /\ 0 \in HashBytes
      BY HtblAssumption
    <3>. QED  BY <3>1 DEF Hashes
  <2>. QED  BY <2>1 DEF HtblInit, IsHtbl
<1>2. DOMAIN htbl.table = 0..(0 - 1) /\ DOMAIN htbl.stored = {}
  BY <1>1
<1>3. InUse(htbl) = {}
  BY <1>2 DEF InUse
<1>4. EntriesOK(htbl, 0)
  BY <1>2, <1>3 DEF EntriesOK
<1>5. DataOK(htbl)
  BY <1>1, <1>2 DEF DataOK
<1>6. HtblOK(htbl, 0)
  BY <1>1, <1>3, <1>4, <1>5, FS_EmptySet DEF HtblOK
<1>. QED  BY <1>1, <1>6 DEF HtblInv, Get

(* The invariant gives what read_entry, iter and lookup rely on.           *)
LEMMA HtblSound ==
    ASSUME HtblInv
    PROVE  TableSound
<1>1. PICK n \in Nat : HtblOK(htbl, n)
  BY DEF HtblInv
<1>2. IsHtbl(htbl) /\ EntriesOK(htbl, n) /\ DataOK(htbl)
      /\ Cardinality(InUse(htbl)) = htbl.used_entries
  BY <1>1 DEF HtblOK
<1>3. TableHasRoom
  <2>. SUFFICES ASSUME DOMAIN htbl.table # {}
                PROVE  /\ htbl.used_entries <= htbl.max_entries
                       /\ \E i \in DOMAIN htbl.table : htbl.table[i] = FreeEntry
    BY DEF TableHasRoom
  <2>1. n # 0 /\ DOMAIN htbl.table = 0..(n - 1)
    BY <1>2 DEF EntriesOK
  <2>2. PICK j \in 0..(n - 1) : j \notin InUse(htbl)
    BY <1>1, <2>1, UsedEntries
  <2>. QED  BY <1>1, <1>2, <2>1, <2>2 DEF EntriesOK, HtblOK
<1>4. AtMostOneValue
  BY <1>2 DEF AtMostOneValue, EntriesOK
<1>5. PairsApart
  <2>. DEFINE last(i) == i + PairSize(htbl.stored[i].value) - 1
  <2>. SUFFICES ASSUME NEW i \in DOMAIN htbl.stored
                PROVE  /\ i \div ChunkSize = last(i) \div ChunkSize
                       /\ i \div ChunkSize < htbl.chunks
                       /\ \A j \in DOMAIN htbl.stored : i < j => last(i) < j
    BY DEF PairsApart
  <2>. DEFINE p == PairSize(htbl.stored[i].value)
              z == last(i)
  <2>1. /\ i \in Nat \ {0} /\ p \in Nat \ {0} /\ htbl.chunks \in Nat
        /\ \A j \in DOMAIN htbl.stored : j \in Nat /\ (i < j => i + p <= j)
    BY <1>2 DEF DataOK
  <2>2. PICK c \in 0..(htbl.chunks - 1) : InChunk(i, htbl.stored[i].value, c)
    BY <1>2 DEF DataOK
  <2>3. ChunkSize \in Nat \ {0}
    BY HtblAssumption
  <2>4. c \in Nat /\ c < htbl.chunks /\ c * ChunkSize \in Nat
    BY <2>1, <2>3
  <2>5. c * ChunkSize <= i /\ i + p <= c * ChunkSize + ChunkSize
    BY <2>2 DEF InChunk
  <2>6. z = i + p - 1
    OBVIOUS
  <2>. HIDE DEF p, z
  <2>7. /\ i < c * ChunkSize + ChunkSize /\ z \in Nat
        /\ c * ChunkSize <= z /\ z < c * ChunkSize + ChunkSize
    BY <2>1, <2>3, <2>4, <2>5, <2>6
  <2>8. i \div ChunkSize = c /\ z \div ChunkSize = c
    BY <2>1, <2>3, <2>4, <2>5, <2>7, QuotientIs
  <2>9. \A j \in DOMAIN htbl.stored : i < j => z < j
    BY <2>1, <2>6
  <2>. QED  BY <2>4, <2>8, <2>9 DEF z
<1>. QED  BY <1>3, <1>4, <1>5 DEF TableSound

-----------------------------------------------------------------------------
(* In every state one entry of the table is free, so lookup ends; iter     *)
(* yields each key once; and the bytes of the pairs do not overlap and lie *)
(* in chunks that exist.                                                   *)
THEOREM TableIsSound == HtblSpec => []TableSound
<1>1. HtblInit => HtblInv
  BY HtblStart
<1>2. HtblInv /\ [HtblNext]_htblVars => HtblInv'
  BY HtblStep
<1>3. HtblInv => TableSound
  BY HtblSound
<1>. QED  BY <1>1, <1>2, <1>3, PTL DEF HtblSpec

(* The table is a map: get returns the value inserted last, whatever keys  *)
(* collide and whenever the table grows.                                   *)
THEOREM TableIsAMap == HtblSpec => MapSpec
<1>. DEFINE content == [k \in HKeys |-> Get(htbl, k)]
<1>1. HtblInit => HtblInv /\ Map!Init
  BY HtblStart DEF Map!Init
<1>2. HtblInv /\ [HtblNext]_htblVars => HtblInv' /\ [Map!Next]_content
  <2>. SUFFICES ASSUME HtblInv, [HtblNext]_htblVars PROVE HtblInv' /\ [Map!Next]_content
    OBVIOUS
  <2>1. HtblInv'
    BY HtblStep
  <2>2. CASE \A l \in HKeys : Get(htbl', l) = Get(htbl, l)
    BY <2>1, <2>2
  <2>3. ASSUME NEW k \in HKeys, NEW v \in ValueLens,
               \A l \in HKeys : Get(htbl', l) = IF l = k THEN v ELSE Get(htbl, l)
        PROVE  Map!Next
    <3>1. content' = [content EXCEPT ![k] = v]
      BY <2>3
    <3>2. Map!Put(k, v)
      BY <3>1 DEF Map!Put
    <3>. QED  BY <3>2 DEF Map!Next
  <2>. QED  BY <2>1, <2>2, <2>3, HtblStep
<1>. QED  BY <1>1, <1>2, PTL DEF HtblSpec, MapSpec, Map!Spec
=============================================================================

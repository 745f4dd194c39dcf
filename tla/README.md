# TLA+ models of Oak

Oak is a collection of Rust crates for running code in trusted execution
environments and proving to a remote party what is running there. This
directory holds formal models of the parts of it whose correctness depends on
the *order* in which things happen, or on arithmetic at a boundary that no test
reaches: the encrypted session protocol and what is carried over it, the private
memory service, Oak Functions and its channel to the enclave, the memory
management of the restricted kernel and of stage 0, and the verification of
attestation evidence, whose verdict depends on when it is asked for. The modules are
checked with TLC on small instances; most of the safety properties are also proved, for all
parameters, with TLAPS (section 4). `PROJECT.json` lists components, runs, mutants, the
mapping from definitions to source lines, findings, hazards and theorems.

Run from this directory:

    tlc -config MCSessions.cfg MCSessions        # model-check
    tlapm UnorderedCrypter_proofs.tla            # check the proofs

## 1. Inventory

| Component | State | Operations | Hard behaviour | What makes it correct |
|---|---|---|---|---|
| Noise transport crypters (`oak_crypto/src/noise_handshake/mod.rs`) | write nonce; read nonce, or furthest nonce and buffered nonces | encrypt, decrypt | lost, repeated, late, damaged messages; last nonce | at-most-once delivery, order, no nonce reuse, a bounded and exact window |
| Attestation decision (`oak_session/src/attestation.rs`, `aggregators.rs`, `config.rs`) | verifiers, aggregator | join, aggregate, combine, decide on bindings | many combinations of configured, missing, partial and unverified pieces | passing means something was verified and nothing refuted |
| Session endpoints (`session.rs`, `attestation.rs`, `handshake.rs`) | the `Step`, verdict, attestation token, handshake messages and result, queues, nonces | create, get/put of messages, write, read | messages of several peers mixed; calls in any order; failing providers | an open session is with the attested peer, both ends agree |
| Session channel and init loops (`channel.rs`) | two loops and a stream | next/handle init message, encrypt, decrypt | who speaks next; an end that opens earlier | initialisation ends; data is delivered |
| Proxies (`oak_proxy`) | two directions, half-closes, pending pings, what is under way | a `select!` loop: read either side, ping, forward | half-closes that cross, blocking sends, resets, lost connections | the tunnel is a TCP connection to its applications, and it ends |
| Private memory sessions (`oak_private_memory/app`) | a context per session, the worker's channel, the stored index and blobs | key sync, add, delete, reset, sync, close, background persist | optimistic concurrency, rebase, partial failure, disconnect, restart | no lost update, a reported success is durable, no index entry without its blob |
| Metadata index (`database/icing.rs`, `database.rs`) | documents and mutation log | add, delete, reset, import, replay of the log | replay on another base | the log explains the index |
| Streams and users (`service.rs`, `handler.rs`) | tasks of a stream, the queue of answers, the session context, the user's wrapped key | the four stream loops; register, key sync, add | tasks overtake each other; check, await, then write; a loop that breaks out | answers in order; data under the user's key; no accepted memory dropped unnoticed |
| Oak Functions lookup data (`oak_functions_service`, its enclave and container services, its launchers) | the data served, the builder, snapshots of requests | start, extend, finish, abort an update; request, lookup; first and periodic load | several loaders share a builder; lost replies; readers starve a writer | a request sees one whole table; an update is exact and ends |
| Lookup table (`lookup_htbl.rs`) | entries, chunks of data | insert, grow, get, iterate | colliding hashes, wrap around, full chunks | it is a map |
| Oak channel (`oak_channel`, `oak_launcher_utils/src/channel.rs`, the kernel SDK's server) | invocation ids, frames under way, the connector's queue | call, write, read, serve | timeouts between and inside of frames, late answers, callers that leave | every caller gets its own answer or an error, and every call ends |
| Restricted kernel: memory and processes (`oak_restricted_kernel/src`) | bitmaps of frames, mappings, processes | boot stages, mmap, create and switch process | memory maps that do not align; allocators at their limit | no frame has two owners; mappings stay |
| Restricted kernel: descriptors (`syscall/dice_data.rs`, `key.rs`, `event_log.rs`) | data of layers 0 and 1, cursors, the event log | read, write | buffers of any size, any order | stage 0's secrets are read once, layer 1 is handed over whole |
| Stage 0: memory (`stage0/src`, `stage0_sev`) | the E820 table, what is accepted, what is placed | claim a range, accept RAM, place kernel, ACPI tables, RAM disk | tables the hypervisor made up | a claim covers exactly its range; what is loaded does not overlap |
| Evidence verification (`oak_attestation_verification`) | none, but expected values that a client keeps | verify; get expected values and verify with them; verifiers made of policies | two implementations, kept values that age, events matched by position | one verdict however it is asked for; nothing accepted on the log's word |
| Endorsements (`tr/verify_endorsement`, `tr/rekor`, `tr/intoto`) | none | verify an endorsement | key IDs, validity, required claims, strategies for transparency logs | part of the above |

The making of evidence, DICE certificates, cryptographic primitives, device
drivers, TDX guests, Oak Containers, the tools of transparent release and the
language bindings are listed in `PROJECT.json` with the reason why they are left
out (section 7).

How they interact: a server's owner and a client's owner each hold a session
and carry its messages over some stream (a gRPC stream, a proxy's WebSocket).
`SessionChannel` wraps an open session. A session owns one encryptor, which
owns one crypter. The private memory service keeps one handler per connection;
all handlers of a user meet only in the external store, and hand their contexts
to a single background task when they are dropped. An Oak Functions launcher
loads lookup data into its enclave through the channel, whose other end runs on
the restricted kernel, which stage 0 has measured and started.

## 2. Modules

    AtMostOnce                what one direction of a session promises
    NoiseAead                 nonces and AEAD, shared
    OrderedCrypter            refines AtMostOnce         -> Transport_proofs
    UnorderedCrypter          refines AtMostOnce         -> UnorderedCrypter_proofs
    Attestation               the decision, as operators
    AttestationVerdict        the decision over growing presentations
                                                         -> Attestation_proofs
    SessionEndpoint           ClientSession and ServerSession, as operators
    Session                   endpoints on an unreliable network
                                                         -> Session_proofs
    SessionInit               endpoints driven by the documented loops
    OakProxy                  a pair of proxies between two applications
                                                         -> Transport_proofs
    MemoryIndex               the metadata index and its log
    PrivateMemory             sessions, store and worker over MemoryIndex
                                                         -> PrivateMemory_proofs
    MemoryService             streams, registration and key sync of one user
                                                         -> MemoryService_proofs
    KeyValueMap               what a lookup table promises
    LookupHtbl                refines KeyValueMap        -> Functions_proofs
    AtomicLookup              what Oak Functions promises of lookups
    OakFunctions              refines AtomicLookup       -> Functions_proofs
    OakChannel                calls through frames to the enclave
                                                         -> Functions_proofs
    KernelMemory              frames, mappings and processes
                                                         -> Kernel_proofs
    KernelDescriptors         attestation data handed between applications
                                                         -> Kernel_proofs
    AddressMap                what a memory map promises
    Stage0Memory              refines AddressMap         -> Kernel_proofs
    Endorsements              endorsements and expected values, as operators
    EvidenceVerification      evidence judged again and again as time passes
                                                         -> Attestation_proofs

`MC*` modules give TLC its instances. Small components that share nothing are
checked in one run: a behaviour belongs to one `scenario`, and the variables of
the others stay as they are. `MCSession`, `MCEvidence` and `MCFunctions` hold the
instances of sessions, evidence and Oak Functions; `MCSessions` and `MCServices`
put them and others into a run; a module that needs no instance is run as it is. Operators named `Mut...` are deliberately wrong
variants of the definition that follows them; the specifications never use them.
They are listed under `mutants` and show that each property notices the mistake
it is there for.

**NoiseAead, OrderedCrypter, UnorderedCrypter.** One direction of traffic: a
writer, a reader, and the set `sent` of all ciphertexts, of which the transport
may hand over any, any number of times, or a damaged one. A ciphertext is the
record of its nonce and plaintext; it opens under that nonce only. `Encrypt`
and `Decrypt` follow the code's order of effects: a nonce is consumed before an
oversized payload is refused, `OrderedCrypter::decrypt` consumes the read nonce
before the tag is checked, and `UnorderedCrypter::decrypt` records the header
nonce before it is. `failed` and `tried` are history variables.

**Attestation, AttestationVerdict.** Maps from IDs to results are functions.
The join, the five aggregators, the combination and `needs_session_bindings`
are operators of the same names. `AttestationVerdict` starts in every admitted
configuration and lets a peer present one piece after another, so verdicts
before and after can be compared. A piece of evidence is *good*, *bad* or
*partial* (endorsements missing).

**SessionEndpoint.** A session is a record with the fields of the code's
structures. Each method is an operator from a session (and a message) to the
set of its possible outcomes: the session afterwards, the message returned and
whether the call succeeded. There is more than one outcome where an injected
provider (binder, encryptor provider, verifier) can fail. The operators keep
the order of the code's effects: the attestation token grows on every call, also
on one that is then refused; a bad handshake response spoils the initiator; a
server that awaits a follow-up takes any handshake request for it; `Step::next`
leaves `Error` or `Invalid` behind. Cryptography is symbolic: a handshake hash
is the pair of sessions whose ephemeral keys it covers, a binding is the message
that carries it, and it verifies when its signer, hash and token are the
expected ones.

**Session.** Any number of endpoints; anyone may call any method at any time;
`net` only grows, so a message can be lost (never delivered), repeated,
reordered, damaged (`Corrupt`) or delivered to a session it was not meant for.
A configuration's domain is the set of sessions that take part.

**SessionInit.** One client and one server running the loops of
`SessionInitializer`'s documentation over an ordered stream, followed by
`SessionChannel::encrypt` and `decrypt`.

**OakProxy.** Two proxies, an application behind each, and a connection with a
bounded number of messages per direction. An action is one arm of the `select!`
loop up to its next await: an arm that has to send or write leaves the loop in
`send` or `write`, where neither the reader nor the timer is polled, exactly as
in the code. Establishing the session is one step that may fail. An application
may reset instead of closing, and the connection may break at any time; a proxy
that returns drops its streams, and an unread message may then cost the peer the
tail of what was on its way.

**MemoryIndex, PrivateMemory.** The index is a set of documents
`[id, name, blob]` and a log. `PrivateMemory` has one action per request and one
per await point of a sync, because other sessions run in between: pull, write
(accepted, or refused for its version), pull again, and the deletion of blobs.
`Close` is the handler's `drop`; with `MayDisconnect` it can happen in the middle
of a request, as it does when the client's stream ends and the future is
dropped. A handler that was dropped gets its context persisted by the worker
(`WorkerTake`, then the same actions), after which the session identifier may be
used for a new handler. The external store is modelled from the client's use of
it: a versioned metadata blob and a set of memory blobs.

**MemoryService.** Streams of one user. `invoke` and `start_session` handle one
request at a time, `invoke_async` and `start_tls_session` spawn a task for each
and answer in order. Registration and key sync are cut at their awaits (read the
key blob; write it; load the index; install the context), because tasks of other
streams run in between. A memory is the request that added it; persisting is one
step here, and many in `PrivateMemory`. It may fail whenever it is tried
(`PersistFails`: no answer, an index that is too large, no retry left, a blob under
another key), in a sync, which reports it, and in the worker, which counts it and
drops the context all the same (`Release`). `unsaved` is a history variable: the
memories that were lost that way.

**LookupHtbl.** Entries `(hash byte, data index)`, probing from `reduce` of an
arbitrary hash with wrap around, pairs appended to chunks of bounded size, growth
when the table is full. The refinement mapping to `KeyValueMap` is `get`.

**OakFunctions.** The launcher and further loaders call start, extend and finish
of the service, by chunk or entry by entry; replies can be lost. Requests take a
snapshot and look keys up in it. `data_builder`'s reader-writer lock is part of
the state: an extend of a chunk holds it while it inserts.

**OakChannel.** Callers, the connector task with its queue of calls, frames in
both directions, and the enclave's blocking server. A read or a write of the
launcher can time out between two frames (`SocketFails`) or inside of one
(`FrameTorn`), since padding, length, flags and body are transferred one by one. What
is left of a torn frame is `Torn` bytes on the stream; they are read as a frame with
any flags and any message (`Garbled`), as an error or a panic, and may swallow the
beginning of what follows, which is then torn as well (`AfterGarbled`). Invocation ids
wrap around. `torn` is a history variable.

**KernelMemory.** The boot stages of `start_kernel` in their order (memory map,
image and RAM disk marked, page tables, heaps) and the system calls that take
memory. Frames are those of 2 MiB; how many 4 KiB frames a mapping needs for page
tables is arbitrary. The heap grows by `ExtendHeap` at any time once it is there,
also while `load_application` copies the RAM disk, which is still in use then
(`HeapHoldsCopy` is the condition under which the copy has room). A panic ends the
system.

**KernelDescriptors.** Bytes of layer 0 are numbered, so that a repeated secret
would be seen; reads and writes take buffers of any length within the bound.

**Stage0Memory.** `insert_e820_entry`, `ensure_e820_gap` and the claims of
`rust64_start` in order, the acceptance of RAM, and the three placement rules.
Acceptance rounds an entry's start up and its end down to pages (`First`, `Limit`);
`find_suitable_dma_address` rounds the address it finds down. `ragged` holds the pages
that a bound of the hypervisor's table is inside of.
The loops over the table are recursive functions, one turn of each an operator
(`AbsorbNext`, `Trimmed`). The refinement mapping to `AddressMap` gives every
address the types of the entries that hold it.

**Endorsements, EvidenceVerification.** A client holds one piece of evidence, its
endorsements and its reference values, and a clock advances. It may verify all at
once (`verify`), keep expected values (`get_expected_values`) and verify with them
later, or use the verifiers that `create_amd_verifier`, `create_insecure_verifier`
and `create_intel_tdx_verifier` put together from policies. Checks are
conjunctions in which the order of the code's early returns is immaterial, since
they have no effects; what a component is to be compared with is a function from
its measurements to expected values. A reference value skips, lists digests or
texts, or names endorsers. Cryptography is symbolic: a certificate names its
signer, a report the chip that signed it, a digest what was hashed, and a TDX
register the events that extended it. Kernels, firmware and command lines are
endorsed through a subject that is decoded (`Decoded`), everything else through
the digest in the statement. The older endorsements name no key, so
`VerifyEndorsementWrapper` tries each one; the newer ones name it.

## 3. Runs

| Run | Shows |
|---|---|
| `sessions` | three scenarios. Sessions: an open session's peer is on the attested host; transcripts and keys agree; the publisher is called once; no renegotiation; what `read` returns was written by the peer, in order, once, also when queues are full and refuse. Evidence: kept expected values give the verdict of a fresh verification for as long as they say they are valid, and policies and `verify` agree (`VerdictsAgree`); every component that is not skipped has an expected measurement in a certificate that leads back to the platform's report (`ChainOfCustody`). Streams of one user that register, sync keys, add and sync: answers in order, data under the user's key, no accepted memory dropped unnoticed |
| `services` | eight scenarios. Oak Functions (two loaders; a loader and a request): requests see one whole table, updates are exact and end. Channel (whole frames; torn frames): callers get their own answer, unless an earlier call tore a frame, and every call ends. Streams: every request is carried through and every context released. Private memory (overtaken; outgrown): every sync and every context given to the worker is finished, although other sessions may go on writing for ever, or the index outgrows its limit while the store fails and clients leave. Unordered crypter: the window accepts each nonce at most once, is exact and bounded, a refusal is final, refinement of `AtMostOnce` |
| `components` | one scenario each. Ordered crypter: delivery in order and at most once, every gap reported. Attestation decision: a pass is earned, pieces without a verifier are neutral. Lookup table: refinement of `KeyValueMap`, sound entries. Kernel: frames apart, only free RAM handed out while the RAM disk is in use and besides it only the RAM disk's frames later, switch targets saved, mappings stay; secrets read once, layer 1 handed over. Stage 0: refinement of `AddressMap`, loaded parts accepted and apart. Proxies: the tunnel is faithful, no peer is taken to violate the protocol |
| `session_init` | both loops end; they succeed when only the server attests; the channel then delivers. In a scenario of its own: a pair of proxies ends once its applications have closed, unless each waits for the other to read |
| `memory` | two scenarios. With conflicts, rebases and restarts: no lost update, durable successes, no entry without its blob. With failing RPCs, disconnects, restarts and indexes that outgrow their limit: no lost update and durable successes |

Seven runs are expected to fail; each checks a sentence of the documentation, of a
comment or of a test that the code does not keep (section 6).

### Bounds, and why they are enough

* Crypters: 5 nonces for the unordered and 4 for the ordered one, a window of 2,
  so a message can be inside the window, just below it and far ahead of it, and
  the last nonce is reached. The theorems remove these bounds.
* Attestation decision: two IDs distinguish *any* from *all* and let one piece be
  good while another is missing; all verifier sets, aggregators and presentations
  are enumerated.
* Evidence: some 4500 inputs: a restricted kernel, containers in their current, former
  and log-less form, and TDX, each with one thing changed (a signature, a key, a
  version, an event too many or too few, a claim) against 17 kinds of reference
  values; the unchanged evidence with one thing changed about its endorsements; and
  firmware that is endorsed or not, measured by SEV-SNP, by nobody, or with the
  digest that is endorsed for TDX.
  Four points in time, before, during and after the statements' validity.
* Lookup table: two keys with arbitrary hashes (so they collide or not, in slot
  and in hash byte), values of which one fills a chunk of 128 bytes and one does
  not, two reservations, so growth, wrap around and overwriting occur.
* Kernel: a bitmap of 18 frames and five memory maps in halves of a frame: RAM
  that ends before and at the end of the bitmap, RAM too small to boot, RAM disks that
  begin or end inside a frame, one that shares a frame with the kernel image and one
  that reaches beyond RAM; RAM disks for which the heap has to grow before they are
  copied. Page tables take none, one or two of the five 4 KiB frames that are left, so
  these run out exactly or half way; up to two processes, one program that overlaps
  itself, mmaps of one and two pages.
* Descriptors: six calls with buffers of at most two bytes over layers of two and
  three bytes, so reads end within, at and after the data.
* Stage 0: all sorted tables of up to three entries with bounds before, at and
  after every range that stage 0 claims, some of them inside of a page (of two
  addresses), an empty and an overlapping one, and one in which the room for the small
  RAM disk begins inside of a page behind a reserved one; kernels
  and RAM disks that fit, nearly fit and do not, and a RAM disk that is smaller than
  the low memory and is placed there where nothing else has room. Sizes keep the order that the
  code's have (the gap begins below `HIGH_MEM_SIZE`, the heap above 1 MiB).
* Proxies: two messages per direction, an application that can fill them, pings
  and pongs with two payloads; a connection that breaks in `components`, one that
  lasts in `session_init`.
* Sessions: three of them, one on an untrusted host, in both
  arrangements: enough for one session's attestation to meet another's
  handshake. Six pairs of configurations (evidence, assertion, either side, both,
  evidence nobody verifies). `MaxToken` = 3 allows a repeated or foreign
  attestation message to extend a token that two messages fill in a regular run.
  A further pair of sessions, the only `Writers`, exchanges data with two nonces,
  queues of one message and a payload that is too large.
* `session_init`: every small configuration of one pair, matching or not.
* Private memory: two sessions (a conflict needs two), two memories, one name,
  two blobs, batches of one or two memories, of one name or not, three versions (a
  session can be overtaken twice), logs of two or
  three entries. `MaxRetryAttempts` is 3, so both a retry and giving up occur.
  `Room` keeps a sync from starting when the version bound could cut it short, so
  the bound never blocks one halfway. Sessions are interchangeable: symmetry is
  used where only safety is checked. Where the number of writes is bounded, every
  retry loop would end by itself; `services` therefore has
  `VersionsRecur`: a version nobody holds any more is used again, which the code
  cannot notice, and sessions can go on overtaking each other for ever. It makes
  up for that with a single memory and short logs. Its scenario `overtaken` has
  no failures, so that nothing but the limit on retries ends a sync; `outgrown` has
  failures of the store, clients that leave and no room in the index.
* Streams: two, one of which runs its requests concurrently. Safety (`sessions`) is
  checked with three requests: two registrations and an add, or a registration, a key
  sync and an add, in any distribution over the streams; a user may be registered
  from the start. Liveness (`services`) is checked with two.
* Oak Functions: two keys in two shards, two files that differ, two loaders (by
  chunk, by entry), one request; lost extends and finishes. The channel serves
  four calls with ids modulo 4, so ids do not come back (section 4 says why),
  and messages of one or two frames, so an old answer may still be under way, whole
  or in part, when a later call reads. The scenario `torn` adds timeouts inside of
  frames, each of which leaves bytes for one or two reads.

Deadlock checking is off where the system may stop: crypters out of nonces,
everything presented, loops that ended with nothing left to send, a kernel that
panicked, bounded calls and requests that ran out.

### Fairness

* `SessionInit`: weak fairness per session on its loop (send, receive, notice a
  closed stream, decrypt). The code blocks only on the stream, and the stream
  is reliable. Nobody is obliged to encrypt.
* `OakProxy`: weak fairness on establishing the session and on pending sends and
  writes (TCP makes progress while the other side reads, and applications read
  what arrives), strong fairness on each arm of `select!`, since tokio polls the
  arms in random order and so cannot neglect one that is ready again and again.
  Nothing obliges an application to write, close or reset.
* `PrivateMemory`: weak fairness per session on the steps of a persist that is
  under way. Every RPC returns, with an answer or an error, and tokio polls the
  request's or the worker's future. Users, failures, disconnects and restarts
  are not fair.
* `MemoryService`: weak fairness on handling tasks, forwarding answers and
  releasing a stream's context; requests are not fair.
* `OakFunctions`: weak fairness on a load under way, strong fairness on finish,
  which waits for the write lock: parking_lot lets no new reader overtake a
  waiting writer for ever. Requests are not fair.
* `OakChannel`: weak fairness on the connector and on the enclave's server, and on
  the socket's error once the enclave is dead or a frame was torn: the latter takes a
  socket with a timeout, and then no read lasts for ever. Other timeouts and callers
  are not fair, and neither is a read inside of a torn frame, whose bytes may never
  come.

Liveness properties that say that something ends are written `[]<>P` where `P` is
that nothing is under way (`UpdateEnds`, `CallsEnd`, `StreamsDrain`,
`SyncTerminates`, `TunnelEnds`, `InitDecides`, `InitCompletes`, `ChannelDelivers`).

The other specifications have only safety properties and no fairness.

## 4. Proofs

Each `*_proofs` module proves an inductive invariant of its component and derives
the properties that the runs check, for every value of the constants. An
invariant is named `IInv` or after its component, is a conjunction of named
parts, has one lemma per action, and is combined by `PTL` in the theorem at the
end. `PROJECT.json` lists the theorems; the argument of each module:

* `UnorderedCrypter_proofs`: `TypeCorrect`, `ReplaySafety`, `WindowSafety`,
  `NonceSafety`, `RefusalFinal`, `Refinement`. No-replay is not inductive: that
  an accepted nonce is fresh needs `WindowExact` (in the window, buffered if and
  only if tried) for nonces inside the window and `TriedBelow` (nothing beyond
  the furthest nonce was tried) for those ahead of it. `DeliveredTried` links
  deliveries to tried nonces, `SentBelow` makes sealing fresh. The lemma
  `FreshNonce` is the heart of the argument; `RefusalFinal` and `Refinement`
  follow from it and from the monotonicity of the window's lower end
  (`LowestFacts`).
* `Transport_proofs` of the ordered crypter: `TypeCorrect`, `DeliverySafety` (order,
  no silent gap, a gap-free prefix until the first failure), `NonceSafety`,
  `Refinement`. The invariant adds that everything delivered was sent and lies below the read
  nonce, and everything sent lies below the write nonce. In both crypters,
  `Refinement` shows `Encrypt` to be a `Send` or a stutter (oversized payload)
  and `Decrypt` a `Deliver` or a stutter (message does not open), with `sent`
  and `delivered` mapped to themselves.
* `Session_proofs`: `PeerVerified`, `SameTranscript`, `KeysAgree`,
  `PublishesOnce`, `ReadsAreAuthentic`, `Decisive`, for any configurations,
  sessions and hosts and a network that does what it likes. `Local(s, N)` says
  what one session may be in, given that it has seen messages of `N` only: what
  its step, token, verdict and handshake have to do with each other. Every
  operator of `SessionEndpoint` keeps it (`Keeps`, and `Takes` where a message is
  handed out). `NetOK` says that a message on the network was sent by a session
  that is still as the message tells (`Sent`), which is what a verified binding
  appeals to; `WrittenOK` and `DeliveredOK` relate nonces of the two ends for
  `AuthenticInOrder`.
* `Attestation_proofs`: `PassesAreEarned` and `NeutralWithoutVerifier`, from
  lemmas about the join of verifiers and pieces and about each aggregator. Of
  `EvidenceVerification`: `Custody` and `Agreement`. The state is simple
  (`EvidenceInv`: what is kept was derived from this input at some time, and a
  verdict is that of its way of verification now); the arguments are about the
  operators. For `Custody`: if the chain verifies, the report vouches for every
  certificate (`LayersVouched`), the log's events are found in them
  (`LogVouched`), and a joined value comes from one of its sources
  (`MatchedFrom`). For `Agreement`: time decides *whether* values are expected,
  never *which* (`SameExpected`), so values that are kept equal the fresh ones
  or those have ceased to exist; an endorsement is judged alike in both forms of
  messages when it is signed with the key it names (`EndorsementsAgree`); and a
  log of known types makes policy by policy the same comparison as the joined
  values (`AmdAgrees`, `InsecureAgrees`).
* `MemoryService_proofs`: `InOrder`, `DataUnderKey`, `MemoriesKept`. `OrderOK`
  says that what was sent, followed by what is in flight, are the requests of a
  stream in their order; `KeysOK` that a key which a task has read and not yet
  used is the stored one unless two registrations wrote; `PendingOK` and `KeptOK`
  where an accepted memory is at each point of a task, or that the worker has failed
  to persist it.
* `PrivateMemory_proofs`: `NoUpdateIsLost` and `SuccessIsDurable`, for any number of
  sessions and whatever fails, if the store gives no version twice
  (`~VersionsRecur`, which only the liveness run gives up). `Sound(B, docs, log, o)`
  relates a session's documents and log to its base and to what its client asked
  for; a session of the stored version is sound for the stored documents, any
  other for no base, and a session that has written and not yet cleared its log is
  of an older version than its own write. `Recorded` says what one log entry tells
  of a change; each operation of the index is a sequence of recorded changes
  (`DeleteRecorded`, `PutRecorded`, `ResetRecorded`) and each step of a replay is
  one or has nothing to do (`ReplayRecorded`). Replays, batches and deletions are
  folds: `IterExists` and `IterCourse` unfold `FoldLeft` into the states it goes
  through, and an invariant of those is proved at the first state where it would
  fail (`LeastNumber`), which stands in for the induction that the prover has not.
  `IndexIsSound` is `NoBlobIsMissing` of the run's first scenario, stated of `MCSpec`
  so that it is the property that the run checks. A blob is owned: `BlobInv` says
  that a blob which a session has added and not yet stored exists, is not in the
  stored index and is neither added nor about to be deleted by another session
  (`AddedBy`), and that what a session deletes once its write was accepted is not in
  the stored index (`DeletedBy`), so the flush
  after a write deletes nothing that is needed. `Owned` relates a session's
  documents to those of its base in this way, `Clean` says that what is to be
  deleted is not in the documents, and each operation of the index keeps both
  (`DeleteOwned`, `AddOwned`, `ResetOwned`, `ImportOwned`).
  `NamesInv` has unique names in the stored index and in each session's. Both hold
  when calls of the store fail. `NoBlobIsMissing` needs `~MayDisconnect`: a client
  that leaves between write and flush keeps a stored mutation on the log, and its
  replay may bring back a memory whose blob is gone. `NamesStayUnique` does
  not, but has the hypothesis `[][AddsApart]_vars`: no step adds two memories of one
  name. A request with such a batch is such a step, since every memory of it is
  validated before any is added, and run `memory_names` shows that `NamesUnique` then
  fails.
* `Transport_proofs` of the proxies: `TunnelIsSound`. The invariant `PairOK` is stated of a
  sender, a receiver, their applications and the wire between them and holds in
  both directions: `LoopOK` of one loop, `ClosingOK` of half-close and `Close` on
  the wire, `ChunksOK` (the chunks on the wire continue what was delivered
  without a gap, unless the connection is lost) and `PingOK` (at most one ping or
  its answer is anywhere, with the payload that is awaited), which is why no
  healthy peer is taken to violate the protocol.
* `Functions_proofs`: `UpdatesAreExact`, from `BuilderOK` (a loader that has the
  builder to itself has put there exactly what it has sent); `LookupsAreConsistent`,
  which shows every step of `OakFunctions` to be a step of `AtomicLookup` or a
  stutter; and `OwnAnswers` of the channel, whose `Stream` says that the frames
  read, on the way and still to be written make up whole messages, in order, as long
  as no frame was torn; afterwards `TornOK` is all that is left: calls up to the one
  that tore it keep what they have got.
  `OwnAnswers` has the hypothesis `MaxCalls <= IdModulus`: invocation ids are not
  used twice. It is needed: with one call more, TLC finds a late answer that is
  taken for that of a later call with the same id. The code's ids are u32, so it
  takes 2^32 calls between the one that gave up and the one that is deceived.
  Of the lookup table: `TableIsSound` and `TableIsAMap`, which shows every step of
  `LookupHtbl` to be a `Put` of `KeyValueMap` or a stutter. `EntriesOK` says that
  lookup of each key in use ends at its own entry (`EndsAfter`). `PutKeepsOrder` is
  the heart of the argument: lookup of another key cannot have passed the slot that
  is filled, since it was free and would have ended it. `AroundTable` shows that
  probing meets every slot, so lookup ends as long as one is free; `MovedNext` is
  one turn of `grow_table`'s loop and shows its panic for a key that is there
  already to be out of reach. `DataPlaced` shows that a pair is written behind the
  others and inside of one chunk.
* `Kernel_proofs`: `KernelIsSound` and `PagesStayMapped`. `FramesApart` is stated
  through the set `Uses` of all triples of owner, place and frame: no frame has
  two uses, and the allocated frames are those in use. `MinIsLeast` and the lemmas
  on the allocators give what `allocate_frame` and `allocate_contiguous` return.
  `OnlyFreeRam` is stated for any memory map: until the RAM disk has been copied, only
  frames that are RAM and that neither image nor RAM disk touches are in use; later
  also those that the RAM disk touched, which are released whole, whatever else is in
  them.
  `HandsOver` of the descriptors: what was read is a prefix of what was accepted,
  and a cursor is where the last call left it.
  Of stage 0: `MemoryMapKept`, which shows every step to be a `Claim` or a
  `Remove` of `AddressMap` or a stutter, and `ImagesApart`. Both rest on what the
  loops over the table compute. `Absorbed` is the invariant of
  `insert_e820_entry`'s loop: what was kept so far and the entry, which may have
  grown, hold the addresses of the entries seen so far and of the new one, the new
  one's with its type, and lie in order; `KeptOutside` is that of
  `ensure_e820_gap`'s. `InsertIsMap` and `EnsuresGap` state the results for any
  ordered table. `ImagesApart` needs the inductive invariant `Stage0Inv`: the table
  is ordered at every step, holds no RAM at the gap's start, and RAM above it was
  accepted, but for ragged pages (`TableInv`); what is loaded lies in accepted or
  ragged pages, the ACPI tables above the low memory and where the table has no RAM
  (`LoadedInv`). `RamDiskInv` adds that a RAM disk above the low memory lies in RAM, but
  for ragged pages, so that the boot data, reserved last, cannot meet it, and that
  one larger than the low memory is above it.

### Assumptions

Constants are constrained by named assumptions, which TLC evaluates in every run.
`NonceAssumption` (`MaxSequence` is below the largest u32), `PayloadAssumption`
(a damaged ciphertext equals no genuine one: AES-GCM's integrity) and
`WindowAssumption` (a window of at least 1) are about the crypters;
`ServiceAssumption`, `ChannelAssumption`, `FunctionsAssumption`,
`ProxyAssumption`, `KernelAssumption` and `DescriptorsAssumption` give constants
their types, and `HtblAssumption` also says that chunks are at most 1 GiB, which
they are next to a table of up to 2^30 entries; the bound `MaxData` stands for
the 1 TiB that a 5-byte data index can address. `NoneAssumption`, `NilAssumption`, `NullAssumption` and parts of the others
say that the value for "nothing" is none of the values. `ErrAssumption` says the
same of what `get_expected_values` and the extraction return. `CasesAssumption`
says that inputs are messages of their protobuf types: repeated fields are
sequences, a `oneof` is one of its kinds, an event has the fields of its type.
`TablesAssumption` says that the hypervisor's table is a sequence of entries that
do not end before they begin, and `LayoutAssumption` what `layout.ld` and the
constants of stage 0 say: BOOT_ALLOC and EBDA lie below 0xA0000, which is less than
`HIGH_MEM_SIZE`, and gap, SMBIOS area, 1 MiB and kernel follow each other.
`ProgramsAssumption` says that the pages of a program are a sequence of page
numbers; it follows from `Layout`'s definition by an induction over segments,
which is not carried out.

### What the proofs found

Most invariants were strengthened until they were inductive and changed nothing
else. Four attempts failed because a property was false, and TLC confirmed each
once an input was added to the run or a bound raised:

* the newer firmware policy compares the measurement endorsed for TDX on every
  platform (`expect.rs:749`), so it accepts an AMD SEV-SNP report with that
  measurement, and `verify` does not;
* with reference values for SEV-SNP, `verify` wants the firmware to be endorsed
  also where no TEE measures it, and the insecure verifier does not;
* `PersistedMeansDurable` claimed of every removal that was asked for that the
  memory is not in the index stored next. With four versions another session can
  remove the memory as well, so that a rebase has nothing to record, and add it
  again before the write. That memory is a new one, and keeping it is right; the
  property now speaks of the removals that the log records;
* the RAM disk is not always apart from the boot data: `find_suitable_dma_address`
  (`fw_cfg.rs:460`) takes the highest RAM with room for it and knows no lower bound,
  so where the kernel and the ACPI tables leave too little RAM above 1 MiB, a RAM disk
  of at most 640 KiB goes to the low memory, where the boot data lies. `LoadedApart`
  says so: of a RAM disk in the low memory it only claims that it was accepted and is
  apart from the kernel and the ACPI tables. The run has such a RAM disk.

The proof of `MemoryMapKept` also showed that the model trimmed an empty entry at
the gap's very start, which the code leaves alone; `Trimmed` now follows the code.

`VerdictsAgree` excludes the first two as different questions (`MeasuredForTdx`,
`FirmwareUnendorsed`).

### Only model-checked

* Liveness under fairness (`InitDecides`, `InitCompletes`, `ChannelDelivers`,
  `TunnelEnds`, `SyncTerminates`, `StreamsDrain`, `UpdateEnds`, `CallsEnd`) is out
  of the prover's reach.
* Every invariant of the passing runs and every action property has a theorem.

## 5. Properties worth a comment

* `KeyAgreement` exempts servers that verify nothing. Such a server may be open
  for a client that went on with another server, since the client's first
  handshake message suffices; it can only never exchange data.
* `TranscriptAgreement` is what assertion bindings buy over session bindings,
  which sign only the handshake hash.
* `IndexSound` (`NoDangling` of the scenario without failures) holds when requests
  run to their end, restarts included; `NothingStoredIsPending` fails with
  `MayDisconnect`, and `NamesUnique` with batches of two (next section).
* `PersistedMeansDurable` speaks of the moment the write is accepted, and of each
  rebase. A removal that found nothing to remove in a new base is off the log, and
  nothing is claimed of a memory that another session adds under that id later.
* `DataMatchesKey` exempts two registrations that overlap: both may find no key
  blob, and the second write replaces the first one's key.
* `AcceptedMemoriesKept` allows the two losses that the code has: a second key sync
  replaces a context with what is pending in it, and a context that the worker fails
  to persist is dropped. The latter is counted as a failure (`unsaved`); nothing is
  dropped without a trace.
* `UpdateIsExact` is about a load that has the builder to itself and an empty one to
  begin with; after an extend or a finish that failed, the entries of the failed
  update stay in the builder and end up in the next one's data.
* `LoadedApart` leaves out *ragged* pages, which a bound of the hypervisor's table
  is inside of. Acceptance leaves such a page out, but `find_suitable_dma_address`
  does not: the address it aligns down may lie before the unaligned start of the RAM
  it chose, over what is reserved there, and the kernel's last page may be one.
* `UnverifiedIsNeutral` speaks of evidence only when the aggregator is `Empty`, whose
  documentation and code differ (next section).
* `DescriptorsSound` says of the event log that reads return it from its start as far
  as it was kept: a write that does not fit fails and keeps the part that fits.
* `AnswerIsOwn` allows a call to fail. As long as timeouts fall between frames, a
  call never gets the answer to another one, because what is left of an answer that was
  given up does not begin with a START frame or carries another id. After a timeout
  inside of a frame this does not hold any more: the next call reads the rest of a body
  as a header, nobody looks at the padding, and any bytes may pass for a frame with
  START, END and the id that is expected. The property therefore excepts the calls after
  the first one that tore a frame, and only those.
* `TunnelSound` is `TunnelFaithful` and `NoProtocolError`. The former speaks of an end of stream that the application sees while its
  proxy still runs; a proxy that fails drops its streams, and the application
  cannot tell that from an ordinary end.
* `TunnelEnds` excepts the state in which both proxies wait in `send` (next
  section).
* `VerdictsAgree` compares where both sides answer the same question (`Common`,
  `SameQuestion`): the older verification knows evidence without an event log and
  former event types, and checks the application keys' certificates, which the
  policies leave to other code; the newer one knows C2SP and PES proofs, and
  endorsements whose key is named. Expected values that are kept say until when
  digests may be used; an expected command line carries no validity, and the age
  that is allowed of a Rekor entry is looked at only when they are made, so these
  two are excepted (`EndsUnnoticed`).

## 6. Where documentation and code disagree

* `MutualInitCompletes` (run `mutual_init`): when the client binds its own
  attestation, the server's documented loop
  (`while !server_session.is_open()`) asks for a message after the follow-up,
  and `next_init_message` turns the empty answer into an error, although the
  session has just opened.
* `NothingStoredIsPending` (run `memory_disconnect`): a request dropped after the
  store has taken its write, in the write's own await or while
  the blobs are being deleted, leaves its stored operations in the log, and the
  worker replays them. If another session deleted such a memory in the meantime
  it comes back, without its blob.
* `FullyLoaded` (run `functions_loaded`): "No requests are served until the
  initial lookup data is completely loaded". The launcher ignores the result of
  `finish_next_lookup_data`, so it serves from an empty table when that call
  fails.
* `PongTimesOut` (run `proxy_keep_alive`): "The interval between pings, and also
  the timeout for their corresponding pong". A proxy that waits in `send` polls
  neither its reader nor its timer; when both applications send enough, both
  proxies wait for the other to read, no ping is answered and none times out.

* `NamesUnique` (run `memory_names`): "a name identifies a unique memory". A request
  may add two memories of one name: `add_memories_handler` validates all of them before
  it adds the first.
* `LogReadFirst` (run `event_log_unread`): "Attempt to write before reading everything
  should fail", says a test of `event_log.rs`. The code clears the log and takes the
  write, so the log that stage 0 handed over is gone. Another test expects that a write
  which exceeds the limit returns what fits, and the next one ENOSPC; the code keeps
  what fits and returns EINVAL.
* `EmptyMeansNone` (run `empty_aggregator`): "It will only succeed if there are no
  assertion verification results to process". The code also succeeds when all results
  are unverified, as every one is on a side without assertion verifiers.

Seen while modelling and not given a run:

* the default aggregator's comment says that an empty set of results fails (it
  passes; `aggregators.rs:76`), and `persist_database`
  reports one attempt more than it makes (`persistence_worker.rs:172`);
* "Messages within the allowed window will be decrypted in any order": a damaged
  copy that arrives first uses up the nonce, and the genuine message is then
  refused as a replay;
* the largest pair that a chunk admits panics when it is the first one
  (`lookup_htbl.rs`);
* `allocate_contiguous` panics on the window at the bitmap's end, despite its
  comment (`bitmap_frame_allocator.rs:150`); an mmap that fails half way keeps the
  pages mapped so far and loses a frame; `create_process` without a free pid leaks
  its frames;
* the connector task panics when the caller it answers has left, and with it goes
  every later call (`oak_launcher_utils/src/channel.rs:53`);
* stage 0 validates RAM that begins off a 2 MiB boundary and ends before the next
  one twice (`accept_memory.rs:399` and `:427`); a kernel near the end of RAM may
  overlap the ACPI area, a large RAM disk may reach the heap; merged neighbours of
  type RESERVED make the SMBIOS lookup panic;
* proxies forward a reset application as a clean half-close; a proxy that exits
  with an unread ping may reset the connection and lose its tail; after a long
  block the interval's burst of ticks can fail a healthy peer.

## 7. Not modelled

Within the modelled parts: the encoding of evidence and certificates, CB and
transparent event logs, the software-rooted and the event log verifier, the keys
that a verdict hands on; sizes of messages other than the crypters' limit,
session caching, logging and metrics;
the search engine's schemas, queries, embeddings, paging and optimisation;
encryption of the index; expiry of the metadata blob in the store (a stored
blob stays); and requests of private memory that only read. What a Wasm module
computes is data. Contents of pages and formats of page tables; the copy of the
setup header, measurements and tables' contents in stage 0. A window of size 0 is
excluded by assumption. The unordered encryptor is checked on its own and not
inside `Session`, which uses the ordered one, as the default provider does. The
proxies' session setup is one step, since `SessionInit` covers it, and the TLS
session's internals are the TLS library's.

Whole components: the making of DICE certificates is encoding, and the
cryptographic primitives compute; neither keeps state between calls. C2SP proofs
and PES confirmations are modelled by whether they verify. Device drivers, PCI, ACPI table loading and TDX are
straight-line hardware access. The C++ and Java bindings forward to the Rust
session. Oak Containers' orchestration is left for later (section 8).

## 8. Plan

1. Proofs: `ProgramsAssumption` from `Layout`.
2. An abstract specification of a user's memory as one atomic index, and
   `PrivateMemory` without disconnects refining it.
3. Sessions with the unordered encryptor.
4. Oak Containers: the launcher, the orchestrator and the agent's key
   provisioning.
5. The making of evidence layer by layer (stage 0, stage 1, orchestrator), composed
   with its verification.

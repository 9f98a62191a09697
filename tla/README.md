# RunnelMoE: TLA+ models, checks and proofs

RunnelMoE runs mixture-of-experts models whose weights stay on disk as
authenticated pages. This directory models its storage data plane
(`crates/runnel-store`), artifact format (`runnel-format`), cache-policy simulator
(`runnel-sim`), the control of its runtime (`runnel-runtime`), and the BF16
conversion and the benchmark harness of its kernels (`runnel-kernels`). TLC checks
the models; TLAPS proves their main invariants. Paths below are relative to the
repository root.

## 1. The system

| Component | State | Operations | What is hard |
|---|---|---|---|
| Page cache (`runnel-store/src/cache.rs`) | entry table (loading, resident, retiring), byte and slot ledger, generation / waiter / access clocks, shutdown flag | `get`, `prefetch`, `invalidate`, `shutdown`, completion of a load, withdrawal of a waiter, drop of a lease | many request tasks, worker threads and a shutdown caller around one mutex; results delivered outside it; futures dropped half-way; cancellation against publication; four limits at once |
| Asynchronous reader (`async_io.rs`) | bounded request queue, fixed worker threads, accepting flag, sender slot | `submit`, `close`, worker loop, final drop | submission racing `close`; draining; a worker that drops the last owner must not join itself |
| Synchronous page reader (`page.rs`, `fs.rs`, `source.rs`) | an open descriptor, a buffer | validate the specification, read in chunks, hash, verify | cancellation between chunks; nothing unverified may be returned |
| Cancellation and deadlines (`control.rs`) | an atomic flag, a deadline | `cancel`, `check` | cooperative: observed only at checkpoints |
| Content-addressed store (`cas.rs`, `layout.rs`, `stage.rs`) | stage files, digest-named blobs, a lock file, the disk below them | `import`, resumption of a stage, `open_artifact`, `gc` | a crash between any two system calls; durability of names and contents; two processes and one lock |
| Disk budget (`budget.rs`) | reserve and capacity | preflight | partial stages already counted, overflow |
| Trace sink (`trace.rs`) | bounded queue, sequence counter, drop counter | `record`, `drain` | non-blocking: events dropped under contention; out-of-order insertion |
| Metrics (`metrics.rs`) | saturating counters, live gauges with maxima | increments, snapshot | gauges read while they change |
| Cache-policy simulator (`runnel-sim`) | residents, policy state (SLRU segments, TinyLFU sketch, router signals), metrics | replay of demands and router signals; Belady and an exact oracle | atomic victim plans, per-signal budgets, conservation of prefetch accounting, optimality claims |
| Artifact format (`runnel-format`) | a manifest, page tables | parse, canonical form, page arithmetic, tensor coverage | bounds and overflow on page and tensor ranges |
| Runtime (`runnel-runtime`) | model weights, per-sequence key/value state | loading, `forward_token`, `run_tokens`, `generate_greedy`, stable top-k, tokenizer | a step that fails half-way; states that are cloned and handed to another model; context limit |
| Kernels (`runnel-kernels`) | none | bf16 rounding, matrix-vector product, dispatch | overflow of rounding; numerics; foreign-function boundary |
| Kernel benchmark (`runnel-kernels/src/bin/runnel-kernel-bench.rs`) | a plan of batches, two workers and three barriers, MXCSR | `run_cell` | threads that fail between barriers; what the timed interval contains |
| Fixture, CLI, oracle and scripts | files | build fixtures, demonstrations, experiments | - |

How they interact. `PageCache::get` and `prefetch` reserve everything a load
needs (pool bytes, in-flight bytes, a load slot, a waiter slot and a
prospective lease) under the cache's mutex and submit the load to
`AsyncReader` with a completion closure. A worker thread dequeues it, runs
`SyncReader::read_observed` with the load's cancellation token and calls
`complete_load`, which takes the mutex, publishes or discards, unlocks and
answers one oneshot channel per waiter. `PageLease::drop` calls back into the
cache. `shutdown` drains the waiters under the mutex, fails them outside it
and closes the reader, which keeps running what it had admitted. The store is
below all that: `SyncReader` opens objects that `import` has published.

What makes each part correct:

* Page cache: the ledger is exact and within its limits at every instant; one
  physical load per page; a lease is backed by a page until it is dropped;
  every waiting `get` is answered; a cancellation that comes first prevents
  publication; replacement follows the order of the requests; every prefetch is
  counted useful or wasted exactly once; shutdown returns every charge.
* Reader: what is admitted completes exactly once, also when `close` races
  `submit`; the final drop terminates and leaves no worker behind.
* Store: a published name always denotes complete, verified, durable content;
  a crash leaves a state from which the same import finishes; collection removes
  nothing a retained manifest reaches.
* Readers and loaders: what is returned is the content the manifest declares,
  whatever happens to the files meanwhile; cancellation is obeyed.
* Format: an accepted manifest is tiled by its tensors and can be read page by
  page; a document has one spelling.
* Disk budget: one decision before the first write is enough for all of them.
* Simulator: resident bytes never exceed the capacity; hits, misses, admissions
  and prefetches add up; the exact oracle is the minimum, and Belady's replay
  reaches it on uniform pages.
* Runtime: a failed step leaves no trace; a state never mixes two models; the
  context limit is met before the first step or never.
* Benchmark: an `ok` row hides nothing; no thread is left at a barrier.

## 2. Modules

| Module | Models | Kind |
|---|---|---|
| `PageCharges` | the byte charge of pages, in 64-byte quanta | operators |
| `PageLifecycle` | what the cache promises about one page: absent, loading, resident, retiring, and who may read it | abstract specification |
| `PageCache` | the cache and the reader queue and workers it drives | specification, properties |
| `MCPageCache` | instances of `PageCache` | TLC |
| `PageCacheLemmas`, `PageCacheTypeProofs`, `PageCacheBudgetProofs`, `PageCacheFlightProofs` | what its operators do; types; the budget; the requests in flight | lemmas |
| `PageCacheProofs` | the theorems about `PageCache` and the refinement of `PageLifecycle` | theorems |
| `ReadService` | what the reader promises: admit while open, complete once, never reopen | abstract specification |
| `AsyncReader` | the reader's construction, queue, workers, close and final drop | specification, properties |
| `ReaderProofs` | exactly-once, the final drop and the refinement of `ReadService`; what `PageReader` delivers | theorems |
| `TraceSink` | the bounded trace queue | specification |
| `MCQueues` | the two queues, reader and trace | TLC |
| `FileSystem` | names, files, syncs and crashes below the store (external) | operators |
| `ArtifactCatalog` | which artifacts are visible, durable and acknowledged | abstract specification |
| `BlobStore` | import, retry, resumption and collection, call by call | specification, properties |
| `DiskBudget` | the bytes of an import: preflight, chunks, aliases, leftovers | specification |
| `MCBlobStore`, `MCStore` | one artifact by itself; two that share an object, with and without bytes, and the reading of a page | TLC |
| `BlobStoreProofs` | what a crash may leave behind a name, and the refinement of `ArtifactCatalog` | theorems |
| `JsonReader` | the JSON visitors and the canonical writer | specification |
| `ManifestFormat`, `ManifestParser` | the manifest validator | operators; specification |
| `PageGeometry`, `PageReader` | page arithmetic; `SyncReader` on a file that changes | operators; specification |
| `ArtifactFiles` | the files of an artifact and the other processes that change them | operators, actions |
| `ArtifactLoader` | the eager `Artifact::open` and `from_bytes` | specification |
| `StoredArtifact` | opening below retained descriptors | specification |
| `MCArtifact` | parsing, loading and opening an artifact, one part at a time | TLC |
| `TraceFormat` | the rules of simulator traces | operators |
| `TraceGenerator` | synthetic traces | specification |
| `CachePolicy`, `TinyLfu`, `CacheSim` | the policies, the frequency sketch, and the replay kernel | operators; specification |
| `SimOracle` | the exact dynamic program and Belady's replay | specification |
| `MCSimulator` | generation or parsing, replay and oracles in sequence | TLC |
| `ModelLoader` | from manifest and tensors to a model and a backend | specification |
| `TinyModel` | forward steps and generation over sequence states | specification |
| `Bf16` | the BF16 word | operators |
| `MCRuntime` | building models and running them | TLC |
| `SequentialProofs` | states, atomicity, the context limit, generation, BF16 rounding, the frequency sketch | theorems |
| `BenchCell`, `MCBenchCell` | one benchmark cell with its threads | specification; TLC |

An operator with a suffix (`Live_ObjectsOnly`, `Seen_Never`) is a deliberately
wrong variant of the definition that follows it. No specification uses it; it is
there to show that a property fails when the code has that bug.

### PageCache

`entries` is a total function from keys to records: a key without an entry maps
to `Absent`, and a field that a variant of `EntryState` does not have keeps its
value in `Absent`. `ledger` is `Ledger` field by field. The clocks are
`generation`, `waiter` and `tick`. `cancelled` holds the generations whose
`CancellationToken` is cancelled; a token dies with its request. `queue`,
`workers` and `reader_open` are the reader. `tasks` are the callers of `get`, one
call at a time each, with the oneshot channel the call polls. `failing` are the
completions the shutdown caller has taken from the table and not yet answered.
`metrics` has the two prefetch counters and one history counter (speculative
admissions); `requested` is a history variable, the tick of the last admitted
access of each entry.

An action is one critical section, or one visible step outside it:

| Code | Actions |
|---|---|
| `get`, first critical section | `GetHit`, `GetJoin`, `GetMiss`, `GetUnwound`, `GetDenied`, `GetRefused` |
| `get`, after it | `MarkPrefetchUse`, `CountUse`, `Poll`, `Withdraw`, `DropReceiver` |
| the future of `get` dropped while it waits | `Abandon`, `WithdrawAbandoned` |
| `PageLease::drop` | `DropLease`, `DropPayload` |
| `prefetch` | `PrefetchCoalesce`, `PrefetchStart`, `PrefetchUnwound`, `PrefetchDropped` |
| `invalidate`, `shutdown` | `Invalidate`, `Shutdown`, `FailWaiter`, `CloseReader` |
| worker | `Dequeue`, `Read`, `Complete`, `Send`, `DropReturned` |

`reserve_load` is `LoadSlot` and `VictimPlans`: the victims are the least prefix
of the unleased residents, ordered by last touch and key, that makes room; when
the whole list does not, nothing is evicted. `Read` returns an error for a
cancelled token and either outcome otherwise, so every I/O and integrity error of
the reader is covered. A specification that conflicts with an entry's
(`validate_identity`) only advances the clock and is part of `GetRefused`. The
identity check of `complete_load` on a page that the reader has verified ends
like a failed read.

`PageLifecycle` forgets queues, workers, waiters, clocks and the order of
replacement. `ImplementsLifecycle` says that each step of `PageCache` is a step
of it, or changes nothing it sees.

### AsyncReader

`PageCache` has the reader's queue and workers as far as the cache depends on
them; `AsyncReader` has the reader by itself, with the interleavings inside
`submit`, `close` and `Drop`.

| Code | Actions |
|---|---|
| `AsyncReader::new` | `Spawn`, `SpawnFails`, `NewReturnsError` |
| `read_observed`, `submit_observed`, `submit` | `BeginSubmit` (the flag), then `Admit` or `Refuse` (under the sender's mutex); `Abandon` when the future is dropped |
| `Inner::close` | `BeginClose` (the flag), `TakeSender` |
| drop of a clone, `Inner::drop` | `DropClone`, `DropInner`, `ClientJoined`; on a worker `DropInnerOnWorker`, `WorkerJoined` |
| `worker_loop` | `LockReceiver`, `Recv`, `Disconnected`, `SendResult`, `BeginCompletion`, `EndCompletion` |

`clients` are threads or tasks that own a clone. A detached completion upgrades a
weak reference (`CacheInner::submit_load`), so that a worker may be the last owner
and run the joining drop itself. `accepting` and `sender` are the two things
`close` changes, one after the other; `receiver` is the holder of the mutex a
worker keeps while it blocks in `recv`. A request whose `control.check` fails is
never submitted and is no step.

`TraceSink` has the two atomic counters, `try_lock`, the sort and the wait of
`drain` as separate steps.

### BlobStore and FileSystem

`FileSystem` states what the store relies on and cannot enforce: a name is
durable once its directory is synced and a file's content once the file is; a name
that was not synced survives a crash or not, independently of the others; a rename
reaches the disk as a whole; content that was never synced may come back partial
or wrong, and what a restart has found stays. `dir` is what processes see, `disk`
what a crash leaves for certain.

`tx` is the one transaction the local mutex and the lock file admit, with the
system call it is at. Every action is one call that changes a name or makes it
durable; reading and verification are guards.

| Code | Actions |
|---|---|
| `import_with_resumes`, manifest there | `ImportCommitted`, `Clean`, `CleanFails`, `CleanDone`, `SyncCommitted` |
| `import_with_resumes`, otherwise | `Import`, then `ensure_blob` for tables, objects and the manifest in turn |
| `ensure_blob`, digest name there | `Reuse`, `Clean`, `CleanFails`, `CleanDone`, `ConfirmStaging` |
| `create_stage`, resumption, `copy_and_rehash` | `CreateStage`, `SyncCreated`, `SyncCreatedFails`, `Resume`, `Copy`, `CopyFails`, `CopyRefused`, `SyncStageFile` |
| publication | `RenameStage`, `ConfirmRename`; `RenameUnsupported`, `LinkStage`, `ConfirmLink`, `UnlinkAlias`, `UnlinkAliasFails`; `PublishAmbiguous`, `Resolve` |
| `gc` | `Gc`, `SweepDigest`, `SweepStage`, `SweepStops`, `SweepDone`, `SyncSwept` |
| a failed sync, a cancellation, the death of the process | `Stop` |
| the machine stops | `MachineCrash` |

A blob is the unit of size; `DiskBudget` has bytes. `preflight_import` is a guard of
`Import`: what is stored (`Occupied`) and what is still `Missing` must find `Room`,
and a stage that a token resumes is credited to its blob (`Required`). A complete
stage takes a blob's room, a partial one anything up to it: `MayFit` charges only the
complete files and says when an import is not certain to be refused, `Fits` charges
all of them and says when it is certain to be admitted. A
dry run and every refusal before the first change are no steps. The
branches of `ensure_blob` that find another file behind a digest name after a
failed rename need a writer outside the lock and are not reached.
`ArtifactCatalog` forgets blobs and stages: `ImplementsCatalog` says that a visible
artifact stays visible unless the machine stops before it is durable, and that a
receipt is given only for a durable one.

### DiskBudget

The same imports as in `BlobStore`, with bytes in place of durability. `files` and
their names are charged as `Layout::usage` charges them, by inode and by allocation
unit. `Import` is the whole of `preflight_import`, which is asked once; `CreateStage`,
`Resume`, `Write` (a copy buffer at a time), `Rename`, `Link` and `UnlinkAlias` then
write without asking again. `Stop` cuts an import short anywhere; `Gc` collects.
`OthersWrite` and `OthersFree` are other programs on the file system: they may use
what the budget does not promise, so that the properties are about the import's own
writes.

### Reading and loading

`PageReader`: `Request` is `read_observed` up to the descriptor, `Read` each step of
the chunk loop (checkpoint, `pread` that may be short or interrupted, hash, final
check and comparison of the fingerprint). `ChangeFile`, `Cancel` and `Expire`
interleave with it. The digest is the content itself, which takes SHA-256 to have no
collisions.

`ArtifactFiles` is what two loaders share: trees of files that other processes
rewrite, replace and remove, and a path that may come to name another tree.
`ArtifactLoader` opens every file by its path (`OpenManifest`, `OpenRegular`,
`Stat`, `ReadSome`, `TakeManifest`, `TakeTable`, `TakeObject`) or takes bytes from
the caller (`FromBytes`) and verifies them record by record (`VerifyRecord`,
`FinishLoading`). `StoredArtifact` opens the root once and the rest below
descriptors that it keeps; only the tables are read, with a checkpoint before each
step.

### Format

`ManifestParser` is the validator as a loop over records: `ParseSchema`,
`ParseObject`, `EndObjects`, `ParseTensor`, `EndTensors`; the rules are in
`ManifestFormat`. The properties are stated over whole documents (the tensors of an
accepted manifest tile its objects) and not over the checks of the loop.
`JsonReader` has the recursive visitors as a stack of open collections, one action
per kind of token; `AcceptsExactly` compares them with a definition over the whole
document.

### Simulator

The rules of `validate_events` are in `TraceFormat`, which `CacheSim` and
`TraceGenerator` use, so that the replay sees exactly the traces the validator
accepts. `CacheSim`: `Extend` and `Start` build a trace and choose a policy and a capacity; `Demand`, `IgnoreSignal`, `RecordSignal`,
`RedundantGroup`, `DropGroup`, `AdmitGroup`, `EndSignal` and `Finish` are the replay.
The six policies are operators of `CachePolicy`. An internal error of the kernel is
the stage `failed`. `TinyLfu` has the sketch by itself under an arbitrary hash.
`SimOracle` runs the exact dynamic program (`ExactStep`) and then Belady
(`BeladyStep`) over the same demands, and compares them with a minimum over every
schedule. `TraceGenerator` makes a draw of the pseudo-random generator a choice.

### Runtime

`ModelLoader`: `LoadArtifact` checks adapter, tokenizer and geometry; `Supply`
decodes a tensor; `EndTensors` or `FromCatalog` checks the catalog; `Build` reads the
weights and fixes the backend.

`TinyModel` keeps the control of `forward_token` and abstracts its numbers to the
order of scores and logits and to whether they are finite. `BeginForward`, `Attend`,
`Route`, `RunExpert` and `Emit` are the parts of one step, each of which may end it
with an error; they work on `pending`, which becomes the caller's state only in
`Emit`. `Caller` starts calls, resets and clones states and hands them to any model.
`Deliver` returns from a call. `StableTopK` and `GreedyToken` are defined as the code
computes them and compared with what they should return.

### Kernels

`Bf16` works on the 31 bits beside the sign, in integers. `BenchCell` is `run_cell`:
`Begin`, then for each batch of the plan `RunVariant`, `Setup`, `Measure`, `Call`,
`Stop`, `Check`, `Finalize`, and `Note` or `Emit`; with two workers the three
barriers are `PassReady`, `PassStart` and `PassFinish` of each thread. An output is
the word that the sink folds. MXCSR is its control bits and its sticky flags; a call,
in the preflight or in the timed part, may raise a flag, change the control bits, fail or
leave the register alone. A worker's record has MXCSR and the CPU before the timed
calls and after them, where `Check` may find the thread on the other CPU or fail to read it.
Nothing in a worker's path panics, so a thread that dies between two barriers is not
modelled. Nor is a thread that cannot be spawned: `CellEnds` takes both workers to
have started. If `scope.spawn` (line 1685) panicked on the second, the first would wait
at the ready barrier, which counts three, the scope would wait for the first, and the
cell would not end.

## 3. Runs

A `MC` module that holds several parts (`MCQueues`, `MCStore`, `MCArtifact`,
`MCRuntime`) shows one of them per behaviour: they share no state in the code, and
one run is enough for their questions. `MCSimulator` runs its parts one after the
other, as the experiments do.

| Run | Instance | Checks |
|---|---|---|
| `cache_safety` | two pages of 1 and 2 quanta, pool of 2, two tasks, one worker, queue of 1, three accesses | `ChargesExact`, `CapacityRespected`, `SlotsExact`, `LeasesBacked`, `SingleFlight`, `PrefetchAccounted`, `PublicationRule`, `ImplementsLifecycle` |
| `cache_replacement` | three pages, pool of 3, loads that are published, four accesses | `EvictionOrder` |
| `cache_liveness` | one page, two tasks, fairness | `WaiterAnswered`, `ShutdownDrains` |
| `cache_memory_ceiling` | two pages of 1, pool of 1, one task | `PayloadsFitPool`, violated: see Findings |
| `queues` | reader: three clients, two workers, two requests, queue of 1; trace: two producers, two consumers, queue of 2, three records | `EachRequestOnce`, `DropLeavesNoWork`, `ImplementsService`, `AdmittedCompletes`, `JoinsReturn`; `EveryRecordAccounted` |
| `store_crash` | one artifact, five files, room for four blobs, two faults, fairness | `FinalNamesComplete`, `AliasesOutlastPublication`, `ImplementsCatalog`, `RetrySucceeds` |
| `store_shared` | two artifacts with a common object; seven files and one fault, or four files on 16 units of disk; an object of seven cells in pages of four and chunks of two, with two changes of its file | `CommittedClosed`; `WithinBudget`; `DeliveredIsAuthentic` |
| `store_retry_aliases` | one artifact, four files, two faults | `AliasesOutlastImport`, violated: see Findings |
| `simulator` | four pages, up to five demands or four demands and signals, six policies, three capacities; six experts in the generated traces | `LedgerExact`, `NeverUnderestimates`, `GroupIsAtomic`, `OraclesOptimal`, `GeneratedIsAccepted` |
| `artifact` | nine tokens to depth 2; two objects and three tensors; one tree with one change, then two trees at one path with two | `AcceptsExactly`; `ManifestCovers`; `LoadedIsDeclared`; `OneTree` |
| `inference` | right and faulty manifests and catalogs; two models, two states and their clones, a context of 3 | `LoadedIsComplete`; `OneModelPerState`, `FailureKeepsState`, `LimitIsCheckedFirst`, `GenerationIsWellFormed` |
| `bench` | one thread with two calls, or two workers with one | `SuccessIsComplete`, `CellEnds` |

What the properties say is with their definitions. Those that could be mistaken for
less than they are:

* `SlotsExact` counts, for every page, the callers that really wait and the leases
  that really exist, in tasks, in channels and in the hands of workers, and compares
  them with the slots of the ledger.
* `LeasesBacked` says that a lease in anybody's hands is one its page counts and that
  the page is of the generation it was given for.
* `PrefetchAccounted` is a conservation law: every speculative admission has been
  counted useful or wasted, is about to be counted by the task that used it, or is
  on a page still marked as unused.
* `EveryRecordAccounted` is that law for the trace, with drops and the order of
  delivery; `LedgerExact` for the counters of the simulator.
* `ManifestCovers` is stated over the accepted document and not over the checks of
  the loop, `AcceptsExactly` over the whole token sequence, and `OraclesOptimal`
  against a minimum over every schedule.

Bounds. `MaxTick` caps the accesses of a behaviour (the code's clock is a
saturating `u64`). Three accesses are enough for a load, a second request that
joins, hits or replaces it, and a third that meets the outcome. A pool of two
quanta with pages of one and two makes both admission without eviction and
refusal happen; two tasks and two leases make a shared page, a full lease table
and the last lease of a retiring page happen. The replacement run needs three
pages, so that a victim is chosen among several; it keeps to behaviours whose loads
are published (`EveryLoadPublished`), because the order of replacement is decided
among residents and failures only shrink that set. Tasks and workers are
interchangeable, which `Symmetry` uses in the runs without temporal properties
under fairness. Deadlock is not checked: with the accesses spent and no lease held
the cache rests.

For the reader, two workers make one block in `recv` while another reads; three
clients make one submit, one close and one drop at the same time; two requests fill
a queue of one while the other is read, or find it closed. The trace queue holds two
of three records, so that one drain takes several and one record is dropped for lack
of room. For the store, two faults are a failed call
and the crash that follows it, in any two places; an artifact of one object has
each kind of blob once. Five files leave two for further stages of a
blob, and a file without a name is used again. The artifact has three blobs and the
budget room for four: with one stage left over a retry without tokens is admitted, with two
it may be refused until it resumes them or they are collected. `store_shared` keeps to one fault,
since what it adds is the interplay of two artifacts. Three faults on one artifact
are more states than a run of a few minutes covers; the theorems of
`BlobStoreProofs` have no such bound. Deadlock
is not checked for the reader, which stops when the last owner is gone, nor for
the store: with every file of the bound in use, an import finds no file for its
next stage.

The disk of `store_shared` is so small that every one of the budget, the reserve and
the capacity refuses some import and admits another, and the lengths are not
multiples of the allocation unit or of the copy buffer. The object of `PageReader`
ends in a short page, and a page takes several chunks, so that a change, a cancellation or a
deadline can fall between two of them. The two trees of `StoredArtifact` have
different manifests, so that a mixture would show; the eager loader keeps nothing
open, so that one change between two of its opens is the case to see. The traces of
the simulator are all valid traces of their length over a few demands and signals,
chosen so that groups, ties of recency and evictions of several pages happen. A sample of four and a sketch of two columns let
it age and collide. The generator's fixed sizes (experts, periods, thresholds) are
constants and are scaled down together; the families that draw
from all the experts are generated and judged, but not replayed. A context of three
tokens, with prompts and generations up to one more, has each side of the limit.
Runs whose program ends (a parse, a replay, a load, a cell) do not check deadlock.

Fairness. Worker threads run, the shutdown caller finishes its loop, and a task
polls, marks a use and frees what it no longer needs. Nothing obliges a task to
drop a lease, to cancel or to make a request, and nothing obliges anybody to call
`shutdown` or `invalidate`. The reader's fairness is that of its threads: a worker
that can step does, and a client that has begun to submit, close or drop finishes; weak
fairness is enough for the receiver's mutex, because once the sender is gone every
worker that gets it gives it up and either reads or exits. The store's fairness is that a transaction
nothing stops goes on, and, an assumption on the caller and not on the code, that
an import is tried again, without tokens, as often as the budget is certain to admit it, and that
`gc` with stages is run as often as it is not: without that second assumption
`RetrySucceeds` is violated, since stages that are left over may refuse every retry. `BenchCell` is fair in each of
its threads, including a barrier that all have reached.

## 4. Proofs

TLC checks small instances. The theorems below hold for every value of the
constants that the named assumptions admit. Those that a module assumes are evaluated
by TLC in the runs; `ObjectValid` and `SketchValid` are hypotheses of their theorems.
The shape is always the same: an inductive invariant, one lemma for each action or
group of actions that keeps it, and a temporal step that combines them.

### The page cache

For every set of pages and sizes, tasks and workers, and every configuration that
`CacheConfig::validate` accepts (`PagesAssumption`, `CacheConfigValid`):

| Theorem | States |
|---|---|
| `TypeCorrect` | `Spec => []TypeOK` |
| `ChargesCorrect` | `Spec => []ChargesExact` |
| `CapacityCorrect` | `Spec => []CapacityRespected` |
| `FlightsCorrect` | `Spec => []SingleFlight` |
| `PublicationCorrect` | `Spec => PublicationRule`, an action property |
| `CacheImplementsLifecycle` | `Spec => ImplementsLifecycle`, the refinement |

The invariant has two layers.

* `Inv == Typed /\ Budget /\ QueueBounded`. `Typed` adds to `TypeOK` that waiter
  lists are finite, without which their cardinality would not be a number. `Budget`
  joins exactness with the ceilings, because neither is inductive alone: a
  reservation keeps the pool within its capacity only if evicting a victim returns
  what the victim was charged, which is exactness. That `complete_load` and
  `release_lease` check the generation and the state of the entry they find makes
  `Budget` inductive without any knowledge of which requests are in flight.
* `FlightInv` says which requests those are: each queued or running request is for
  the load of its generation, no two are for one page, and every load has one. It
  also ties tokens to loads and says that a page not in memory has no lease.
  `SingleFlight` counts what it says.

The refinement proof shows action by action that a critical section changes the
states of pages as one step of `PageLifecycle`: a miss with its evictions is one
`Start`, a refused miss one `Discard` of its victims, and so on; bytes are within the
pool by `Budget`.

`PageCacheLemmas` has the facts about operators, `PageCacheTypeProofs` the types,
`PageCacheBudgetProofs` the budget and the queue, `PageCacheFlightProofs` the flight
invariant, and `PageCacheProofs` combines them.

### The readers

For every set of clients, workers and requests and every queue capacity
(`ReaderConfigValid`), in `ReaderProofs`:

* `ReaderTypeCorrect`: `Spec => []TypeOK`, with the bound on the queue;
* `ReaderExactlyOnce`: `Spec => []EachRequestOnce`;
* `DropCorrect`: `Spec => []DropLeavesNoWork`;
* `ReaderImplementsService`: `Spec => ImplementsService`.

`ReaderInv == TypeOK /\ Placement /\ EachRequestOnce`. `Placement` says that a
request under submission is nowhere else and that exactly the reading workers hold
one; with it, a step that moves a request takes it from one place. The refinement
maps a request to the place it is in, so that `Admit` and the two completions are the
only steps that change its status, and `TakeSender`, the drops and a failed
construction the only ones that close. `DropInv` adds that only a
completion makes a worker an owner, that a worker exits from a channel that is
disconnected and drained for good, and that the joins of the last owner, once over,
have left at most the worker that ran them, without a request unless it is the only
worker.

In the same module, for every object, page size and chunk size (`ObjectValid`) and any
number of changes and interruptions: `PagesAuthentic`, that `PageReader` satisfies
`DeliveredIsAuthentic`. `PageInv` says that a page under way is one of the object and
that a verified one was hashed to its end and matched. The fingerprint was taken from
the object, so that a match gives the cells whatever the file was in between; the
two checks of its length play no part in this.

### The store

For every set of artifacts and objects, every number of files and every sequence of
faults (`StoreAssumption`), in `BlobStoreProofs`:

* `StoreNamesComplete`: `Spec => []FinalNamesComplete`;
* `StoreClosed`: `Spec => []CommittedClosed`;
* `StoreKeepsAliases`: `Spec => AliasesOutlastPublication`, an action property;
* `StoreImplementsCatalog`: `Spec => ImplementsCatalog`;
* `ReceiptsAreHonoured`: every blob of an acknowledged artifact has, in memory and on
  disk, a synced file with its full content behind its name.

`StoreInv` joins the domain of the transaction record and `Filed` (names denote files
of the right blob) with `FinalNamesComplete` and `Closed` (a committed manifest has
its blobs, on disk too), and says what the transaction knows at each call:
`ImportKnows` which blobs are there and durable and what the stage holds,
`RetryKnows` that the manifest is there, `GcKnows` that what is about to be swept is
needed by nobody. The steps are sorted by what they do to final names: nothing
(`Aside`), make them durable (`Flush`), publish, sweep, crash; each class keeps the
closure once and for all. The bound on faults that the runs need is not in the
theorems.

### The runtime, BF16 and the sketch

For every set of model instances and states, every context length, vocabulary and
score (`TinyModelAssumption`), in `SequentialProofs`:

* `StatesBelongToOneModel`: `Spec => []OneModelPerState`;
* `ForwardIsAtomic`: `Spec => FailureKeepsState`, an action property;
* `LimitCheckSuffices`: `Spec => LimitIsCheckedFirst`, an action property;
* `GenerationCorrect`: `Spec => []GenerationIsWellFormed`.

`Inv == CallInv /\ BoundInv /\ RoomInv`. `BoundInv` says that every state, the pending
one too, holds cells of the model it is bound to and of no other, and that the pending
one is the caller's with one cell more; without the part about the pending state the
commit in `Emit` would prove nothing. `RoomInv` says that the cells a call holds and
those it still has to add fit the context, counting the last generated token, which
is never fed back, as none: this is what makes the single check of `run_tokens` and
`generate_greedy` enough. `GenInv` adds for `generate_greedy` that what was fed
and what is still to be fed are the prompt followed by the tokens generated so far,
none of which is EOS while the call goes on, and that the local state has a cell for
every token that was fed.

For every f32 magnitude, from no assumption: `RoundingCorrect`, `NanCorrect` and
`ThresholdCorrect`, the rounding of the BF16 conversion, its treatment of NaN and the
exact threshold of overflow. The argument is integer arithmetic: the code adds 32767
plus the low bit of the word and truncates, which is compared with the two
neighbours. `Bf16` is in no run, since the theorems leave nothing for one to check.

For every set of pages, hash, number of columns and sample and at least one row
(`SketchValid`): `SketchCorrect`, that the sketch satisfies `NeverUnderestimates`.
`SketchInv` says of every row, not only of the least one, that its counter, with the
doorkeeper's one, is no less than what has to be remembered; conservative update
raises only the counters at the minimum, and those above it cover one observation
more already. That the minimum over the rows exists is the well-foundedness of the
natural numbers, the one place where the proofs use it.

### Only model-checked

* Liveness (`WaiterAnswered`, `ShutdownDrains`, `AdmittedCompletes`, `JoinsReturn`,
  `RetrySucceeds`, `CellEnds`) needs fairness and `ENABLED`, which the prover does not
  handle.
* `EveryRecordAccounted`, `OraclesOptimal`, `AcceptsExactly`, `ManifestCovers` and
  `LedgerExact` are about what recursive definitions or folds compute for every
  sequence, which needs induction over data.
* `LeasesBacked` and `SlotsExact` need an invariant that follows each waiter from its
  registration to the delivery of its lease, in tasks, channels, workers and the
  shutdown caller at once, and counts them; `PrefetchAccounted` needs in addition how
  many pages carry the unused mark. They hold in the runs and are not proved.
  `EvictionOrder` compares the least prefix of a sorted list with the order of the
  requests, a fact about sorting all lists.
* `WithinBudget` sums allocation units over the files of a directory, a sum over a
  set that every call changes.
* `GroupIsAtomic`, `GeneratedIsAccepted`, `LoadedIsDeclared`, `OneTree`,
  `LoadedIsComplete` and `SuccessIsComplete` have no proof yet and are within reach of
  one.

## 5. Findings

`PageLease::drop` releases the lease, and with it possibly the page's charge,
before the payload the lease refers to is freed. For a moment the charge can
already belong to another load whose buffer is allocated while the first is alive.
The ledger is exact all along; the memory it stands for exceeds the pool by the
pages in that state. `docs/adr/0004-verified-data-plane.md` (lines 212-215) rejects
designs for just that.

The retry of an import whose manifest is already visible removes the stages of the
artifact (`cleanup_committed_stages`) before it syncs the digest directories
(`confirm_committed_durability`). A manifest that was linked and whose destination
sync failed then loses its stage alias while its digest name is not durable; the
syncs that follow make the loss of the alias durable before the name. The
same ADR says (lines 156-158) that "every crash point has at least one durable
name", and `ensure_blob` takes care of just this order (`cas.rs`, lines 845-848).
No receipt has been given by then, and `ImplementsCatalog` and `ReceiptsAreHonoured`
hold: what a crash can cost is the copy, not an acknowledged artifact.

One observation is not a finding. The comment at `async_io.rs`, lines 116-121, says
that joining keeps the final drop from outliving the inputs of requests, and that a
worker on which that drop runs exits after the callback. A disconnected channel is
drained first: if that worker is the only one, it still reads what was queued after
the drop has returned. `DropLeavesNoWork` allows requests in that one case.

## 6. Not modelled

* The numbers of inference and of the kernels (`ffi.rs`, the C intrinsics, the
  scalar loops of `lib.rs`, the arithmetic of `forward_token`): neither tool has
  floating point. `TinyModel` keeps which values are finite and how scores compare.
* The tokenizer (`tokenizer.rs`): a table of characters and a filter without state.
* Hashes and the pseudo-random generator: SHA-256 is taken to tell contents apart, a
  draw is any value it can return, and the digests of decisions and routes are left
  out.
* Metrics other than the two prefetch counters: saturating counters that nothing in
  the code reads back.
* Of the store: the bytes that collection reports as reclaimed, the encoding of
  resume tokens, owners and permissions of directories, and a writer that ignores the
  lock. Of `StoredArtifact`: `from_retained`.
* Of the benchmark: reading and validating its request, the generated data, the
  `cases` and `correctness` commands and the platform probes, which are single
  system calls or generation of floating-point data.
* Error types (wording and classification), the command lines, the fixture builder
  and `runnel-m4-model-check`: sequential glue over parts that are modelled.
* The Python oracle and the scripts: the oracle is an independent second
  implementation that the tests compare with; the modules follow the Rust source.

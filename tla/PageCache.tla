------------------------------ MODULE PageCache ------------------------------
(***************************************************************************)
(* The verified-page cache of runnel-store (cache.rs) together with the    *)
(* part of the asynchronous reader (async_io.rs) it drives: a bounded      *)
(* request queue and a fixed set of worker threads.                        *)
(*                                                                         *)
(* The cache is a state machine linearised by one mutex.  One action is    *)
(* one critical section; everything the code does after it unlocks and     *)
(* before it locks again (delivering a result, marking a prefetch as used, *)
(* freeing a payload) is an action of its own, so every interleaving of    *)
(* request tasks, reader workers and the shutdown caller is a behaviour.   *)
(*                                                                         *)
(* Byte counts are in units of the 64-byte quantum (see PageCharges).      *)
(***************************************************************************)
EXTENDS PageCharges, Sequences

CONSTANTS
  Tasks,              \* request tasks, each with at most one get in progress
  Workers,            \* reader worker threads
  PagePoolCapacity,   \* CacheConfig: page_pool_capacity
  MaxInflightBytes,   \* CacheConfig: max_inflight_bytes
  MaxEntries,         \* CacheConfig: max_entries
  MaxLoads,           \* CacheConfig: max_loads
  MaxWaiters,         \* CacheConfig: max_waiters
  MaxWaitersPerPage,  \* CacheConfig: max_waiters_per_page
  MaxLeases,          \* CacheConfig: max_leases
  QueueCapacity,      \* AsyncReaderConfig: queue_capacity
  MaxTick             \* bound on the accesses of a behaviour (u64::MAX in the code)

(* What CacheConfig::validate, AsyncReaderConfig::new and validate_spec     *)
(* establish before any state changes.                                      *)
ASSUME CacheConfigValid ==
  /\ IsFiniteSet(Tasks) /\ IsFiniteSet(Workers)
  /\ {PagePoolCapacity, MaxInflightBytes, MaxEntries, MaxLoads, MaxWaiters,
      MaxWaitersPerPage, MaxLeases, QueueCapacity} \subseteq Nat \ {0}
  /\ \A k \in Keys : Allocation[k] <= MaxInflightBytes
  /\ MaxInflightBytes <= PagePoolCapacity
  /\ MaxLoads <= MaxEntries
  /\ MaxWaitersPerPage <= MaxWaiters
  /\ MaxTick \in Nat

VARIABLES
  entries,     \* CacheState.entries, a total function: Absent where there is no entry
  ledger,      \* CacheState.ledger
  generation,  \* CacheState.generation, the last generation issued
  waiter,      \* CacheState.waiter, the last waiter identity issued
  tick,        \* CacheState.tick, the logical access clock
  shutdown,    \* CacheState.shutdown
  cancelled,   \* generations of the live CancellationTokens that are cancelled
  queue,       \* the bounded channel of the reader: requests not yet dequeued
  reader_open, \* the reader accepts submissions
  workers,     \* what each worker thread is doing
  tasks,       \* what each request task is doing, with its oneshot channel
  failing,     \* waiters the shutdown caller has drained but not yet failed
  metrics,     \* CacheMetrics: useful and wasted prefetches; history: speculative admissions
  requested    \* history: the tick of the last admitted access of each entry

cacheVars  == <<entries, ledger, generation, waiter, tick, shutdown, cancelled>>
readerVars == <<queue, reader_open, workers>>
vars == <<cacheVars, readerVars, tasks, failing, metrics, requested>>

-----------------------------------------------------------------------------
(* Entries.  One record type covers the three variants of EntryState; a     *)
(* field a variant does not have keeps its value in Absent.                 *)
Entry ==
  [st : {"absent", "loading", "resident", "retiring"}, generation : Nat,
   waiters : SUBSET Nat, origin : {"none", "demand", "prefetch"},
   prefetch_interest : BOOLEAN, accepting_waiters : BOOLEAN,
   last_touch : Nat, leases : Nat, prefetched_unused : BOOLEAN]

Absent ==
  [st |-> "absent", generation |-> 0, waiters |-> {}, origin |-> "none",
   prefetch_interest |-> FALSE, accepting_waiters |-> FALSE,
   last_touch |-> 0, leases |-> 0, prefetched_unused |-> FALSE]

LoadingEntry(g, ws, o, t) ==
  [Absent EXCEPT !.st = "loading", !.generation = g, !.waiters = ws, !.origin = o,
                 !.prefetch_interest = (o = "prefetch"),
                 !.accepting_waiters = TRUE, !.last_touch = t]

(* Mutants: a demand that joined a prefetch does not count as its use;      *)
(* recency is that of the completion.                                       *)
ResidentEntry_JoinedUnused(e) ==
  [Absent EXCEPT !.st = "resident", !.generation = e.generation,
                 !.leases = Cardinality(e.waiters), !.last_touch = e.last_touch,
                 !.prefetched_unused = e.prefetch_interest]
ResidentEntry_CompletionOrder(e) ==
  [Absent EXCEPT !.st = "resident", !.generation = e.generation,
                 !.leases = Cardinality(e.waiters), !.last_touch = tick,
                 !.prefetched_unused = e.prefetch_interest /\ e.waiters = {}]

(* The entry complete_load installs: one lease per waiter, and the recency  *)
(* the requests gave it while it was loading.                               *)
ResidentEntry(e) ==
  [Absent EXCEPT !.st = "resident", !.generation = e.generation,
                 !.leases = Cardinality(e.waiters), !.last_touch = e.last_touch,
                 !.prefetched_unused = e.prefetch_interest /\ e.waiters = {}]

(* What invalidate and shutdown make of a leased resident.                  *)
RetiringEntry(e) ==
  [Absent EXCEPT !.st = "retiring", !.generation = e.generation,
                 !.leases = e.leases, !.prefetched_unused = e.prefetched_unused]

(* A lease more, by a request at tick t; a lease less; a waiter more; a      *)
(* waiter less, the last interest closing the load to further waiters.      *)
Leased(e, t)    == [e EXCEPT !.last_touch = t, !.leases = @ + 1]
Released(e)     == [e EXCEPT !.leases = @ - 1]
Joined(e, i, t) == [e EXCEPT !.waiters = @ \cup {i}, !.last_touch = t]
Left(e, i)      == [e EXCEPT !.waiters = @ \ {i},
                             !.accepting_waiters = @ /\ (e.waiters # {i} \/ e.prefetch_interest)]

Ledger ==
  [page_pool_bytes : Int, inflight_bytes : Int, resident_bytes : Int,
   retiring_bytes : Int, active_loads : Int, waiters : Int,
   lease_reservations : Int, leases : Int]

InState(s) == {k \in Keys : entries[k].st = s}
Present    == {k \in Keys : entries[k].st # "absent"}

-----------------------------------------------------------------------------
(* Tasks and workers.                                                       *)
Idle == [st |-> "idle", key |-> 0, generation |-> 0, waiter |-> 0, channel |-> "empty"]

(* idle; hit: get found the page resident and has not yet marked its use;   *)
(* marked: it has, and is about to count it; waiting: polling its oneshot   *)
(* channel; withdrawn: registration withdrawn, channel not yet dropped;     *)
(* abandoned: the other way round; holding: owns a lease; dropping: the     *)
(* lease has been released, its payload reference is about to be dropped.   *)
Task ==
  {Idle} \cup
  [st : {"hit", "marked", "waiting", "withdrawn", "abandoned", "holding", "dropping"},
   key : Keys, generation : Nat, waiter : Nat, channel : {"empty", "lease", "error"}]

Parked == [st |-> "parked", key |-> 0, generation |-> 0, ok |-> FALSE, out |-> {}]

(* parked: in recv; reading: in SyncReader::read_observed; read: the result *)
(* is known, the completion has not run; sending: complete_load has         *)
(* unlocked and delivers to out; dropping: a delivery failed and the lease  *)
(* it carried has been released.                                            *)
Worker ==
  {Parked} \cup
  [st : {"reading", "read", "sending", "dropping"},
   key : Keys, generation : Nat, ok : BOOLEAN, out : SUBSET Nat]

Job == [key : Keys, generation : Nat]

Init ==
  /\ entries = [k \in Keys |-> Absent]
  /\ ledger = [page_pool_bytes |-> 0, inflight_bytes |-> 0, resident_bytes |-> 0,
               retiring_bytes |-> 0, active_loads |-> 0, waiters |-> 0,
               lease_reservations |-> 0, leases |-> 0]
  /\ generation = 0 /\ waiter = 0 /\ tick = 0
  /\ shutdown = FALSE
  /\ cancelled = {}
  /\ queue = <<>> /\ reader_open = TRUE
  /\ workers = [w \in Workers |-> Parked]
  /\ tasks = [t \in Tasks |-> Idle]
  /\ failing = {}
  /\ metrics = [speculative |-> 0, useful_prefetch |-> 0, wasted_prefetch |-> 0]
  /\ requested = [k \in Keys |-> 0]

-----------------------------------------------------------------------------
(* Reservations.                                                            *)

(* reserve_waiter: a get that has to wait needs a global waiter slot, a     *)
(* slot on its page and a prospective lease.                                *)
WaiterSlot(e) ==
  /\ ledger.waiters < MaxWaiters
  /\ Cardinality(e.waiters) < MaxWaitersPerPage
  /\ ledger.leases + ledger.lease_reservations < MaxLeases

(* reserve_load, first half: room under the in-flight and load-slot limits. *)
LoadSlot(k) ==
  /\ ledger.inflight_bytes <= MaxInflightBytes - Allocation[k]
  /\ ledger.active_loads < MaxLoads

(* reserve_load, second half: unleased residents are evicted in the order   *)
(* of (last_touch, key) until the pool and the entry table have room; when  *)
(* evicting all of them is not enough nothing is evicted.                   *)
Candidates == {k \in InState("resident") : entries[k].leases = 0}

EvictedBefore(i, j) ==
  \/ entries[i].last_touch < entries[j].last_touch
  \/ entries[i].last_touch = entries[j].last_touch /\ i < j

Prefixes ==
  {V \in SUBSET Candidates :
     \A v \in V, c \in Candidates : EvictedBefore(c, v) => c \in V}

(* Mutant: the pool is checked before the charge of the new page is added.  *)
Fits_BeforeCharge(k, V) ==
  /\ ledger.page_pool_bytes - ChargeOf(V) <= PagePoolCapacity
  /\ Cardinality(Present) - Cardinality(V) < MaxEntries

Fits(k, V) ==
  /\ ledger.page_pool_bytes - ChargeOf(V) <= PagePoolCapacity - Allocation[k]
  /\ Cardinality(Present) - Cardinality(V) < MaxEntries

VictimPlans(k) ==
  IF LoadSlot(k)
  THEN {V \in Prefixes : Fits(k, V) /\ \A W \in Prefixes : Fits(k, W) => V \subseteq W}
  ELSE {}

(* try_send on the bounded channel of an open reader succeeds.              *)
QueueAccepts == reader_open /\ Len(queue) < QueueCapacity

Unused(S) == Cardinality({k \in S : entries[k].prefetched_unused})

(* The history variable: k's access was admitted at this step's tick; an    *)
(* entry that is gone has no recency.                                       *)
Access(k) ==
  requested' = [j \in Keys |-> IF entries'[j].st = "absent" THEN 0
                               ELSE IF j = k THEN tick' ELSE requested[j]]
NoAccess == Access(0)

(* reserve_load, insertion of the loading entry and a successful submit:    *)
(* the effect of a miss that starts a load for waiters ws.                  *)
StartLoad(k, V, ws, o) ==
  /\ QueueAccepts
  /\ generation' = generation + 1
  /\ tick' = tick + 1
  /\ entries' = [j \in Keys |-> IF j = k THEN LoadingEntry(generation', ws, o, tick')
                                ELSE IF j \in V THEN Absent ELSE entries[j]]
  /\ ledger' = [ledger EXCEPT
                  !.page_pool_bytes = @ - ChargeOf(V) + Allocation[k],
                  !.inflight_bytes = @ + Allocation[k],
                  !.resident_bytes = @ - ChargeOf(V),
                  !.active_loads = @ + 1,
                  !.waiters = @ + Cardinality(ws),
                  !.lease_reservations = @ + Cardinality(ws)]
  /\ queue' = Append(queue, [key |-> k, generation |-> generation'])
  /\ metrics' = [metrics EXCEPT !.wasted_prefetch = @ + Unused(V)]
  /\ Access(k)
  /\ UNCHANGED <<shutdown, cancelled, reader_open, workers, failing>>

(* The same miss when submit_load fails (queue full, or the reader closed   *)
(* by another owner): unwind_unsubmitted_load takes the loading entry and   *)
(* its charges back; the evictions reserve_load made stay.                  *)
UnwindLoad(k, V) ==
  /\ ~QueueAccepts
  /\ generation' = generation + 1
  /\ tick' = tick + 1
  /\ entries' = [j \in Keys |-> IF j \in V THEN Absent ELSE entries[j]]
  /\ ledger' = [ledger EXCEPT !.page_pool_bytes = @ - ChargeOf(V),
                              !.resident_bytes = @ - ChargeOf(V)]
  /\ metrics' = [metrics EXCEPT !.wasted_prefetch = @ + Unused(V)]
  /\ NoAccess
  /\ UNCHANGED <<shutdown, cancelled, readerVars, tasks, failing>>

-----------------------------------------------------------------------------
(* PageCache::get.                                                          *)

CanAccess == ~shutdown /\ tick < MaxTick

(* The page is resident: a lease is taken at once.  The use of a prefetched *)
(* page is marked later, under a second acquisition of the lock.            *)
GetHit(t, k) ==
  /\ CanAccess /\ tasks[t].st = "idle"
  /\ entries[k].st = "resident"
  /\ ledger.leases + ledger.lease_reservations < MaxLeases
  /\ tick' = tick + 1
  /\ entries' = [entries EXCEPT ![k] = Leased(@, tick')]
  /\ ledger' = [ledger EXCEPT !.leases = @ + 1]
  /\ tasks' = [tasks EXCEPT ![t] = [Idle EXCEPT !.st = "hit", !.key = k,
                                       !.generation = entries[k].generation]]
  /\ Access(k)
  /\ UNCHANGED <<generation, waiter, shutdown, cancelled, readerVars, failing, metrics>>

(* The page is loading: the get joins its waiters.                          *)
GetJoin(t, k) ==
  /\ CanAccess /\ tasks[t].st = "idle"
  /\ entries[k].st = "loading" /\ entries[k].accepting_waiters
  /\ WaiterSlot(entries[k])
  /\ tick' = tick + 1
  /\ waiter' = waiter + 1
  /\ entries' = [entries EXCEPT ![k] = Joined(@, waiter', tick')]
  /\ ledger' = [ledger EXCEPT !.waiters = @ + 1, !.lease_reservations = @ + 1]
  /\ tasks' = [tasks EXCEPT ![t] = [Idle EXCEPT !.st = "waiting", !.key = k,
                                       !.generation = entries[k].generation,
                                       !.waiter = waiter']]
  /\ Access(k)
  /\ UNCHANGED <<generation, shutdown, cancelled, readerVars, failing, metrics>>

(* The page is absent: the get starts a load and waits for it ...           *)
GetMiss(t, k) ==
  /\ CanAccess /\ tasks[t].st = "idle"
  /\ entries[k].st = "absent" /\ WaiterSlot(entries[k])
  /\ waiter' = waiter + 1
  /\ \E V \in VictimPlans(k) : StartLoad(k, V, {waiter'}, "demand")
  /\ tasks' = [tasks EXCEPT ![t] = [Idle EXCEPT !.st = "waiting", !.key = k,
                                       !.generation = generation', !.waiter = waiter']]

(* ... or fails because the reader refuses the request ...                  *)
GetUnwound(k) ==
  /\ CanAccess
  /\ entries[k].st = "absent" /\ WaiterSlot(entries[k])
  /\ waiter' = waiter + 1
  /\ \E V \in VictimPlans(k) : UnwindLoad(k, V)

(* ... or because reserve_load finds no room: the identities it drew are    *)
(* spent, nothing is evicted.                                               *)
GetDenied(k) ==
  /\ CanAccess
  /\ entries[k].st = "absent" /\ WaiterSlot(entries[k])
  /\ VictimPlans(k) = {}
  /\ tick' = tick + 1 /\ generation' = generation + 1 /\ waiter' = waiter + 1
  /\ UNCHANGED <<entries, ledger, shutdown, cancelled, readerVars, tasks, failing,
                 metrics, requested>>

(* A get that fails after the clock advanced and before anything else does: *)
(* the specification differs from the entry's, no lease or waiter slot is   *)
(* left, the load is being cancelled, the page is retiring, or a miss finds *)
(* no runtime.                                                              *)
GetRefused ==
  /\ CanAccess
  /\ tick' = tick + 1
  /\ UNCHANGED <<entries, ledger, generation, waiter, shutdown, cancelled, readerVars,
                 tasks, failing, metrics, requested>>

-----------------------------------------------------------------------------
(* PageCache::prefetch.  A hint for a page that is resident, already hinted *)
(* or being cancelled changes no state the cache decides on.                *)

PrefetchCoalesce(k) ==
  /\ ~shutdown
  /\ entries[k].st = "loading" /\ entries[k].accepting_waiters
  /\ entries[k].origin = "demand" /\ ~entries[k].prefetch_interest
  /\ entries' = [entries EXCEPT ![k].prefetch_interest = TRUE]
  /\ UNCHANGED <<ledger, generation, waiter, tick, shutdown, cancelled, readerVars,
                 tasks, failing, metrics, requested>>

PrefetchStart(k) ==
  /\ CanAccess /\ entries[k].st = "absent"
  /\ \E V \in VictimPlans(k) : StartLoad(k, V, {}, "prefetch")
  /\ UNCHANGED <<waiter, tasks>>

PrefetchUnwound(k) ==
  /\ CanAccess /\ entries[k].st = "absent"
  /\ \E V \in VictimPlans(k) : UnwindLoad(k, V)
  /\ UNCHANGED waiter

PrefetchDropped(k) ==
  /\ CanAccess /\ entries[k].st = "absent"
  /\ VictimPlans(k) = {}
  /\ tick' = tick + 1 /\ generation' = generation + 1
  /\ UNCHANGED <<entries, ledger, waiter, shutdown, cancelled, readerVars, tasks,
                 failing, metrics, requested>>

-----------------------------------------------------------------------------
(* Releasing a lease, withdrawing a waiter, marking a use.                  *)

(* Mutant: the first lease to go takes a retiring page with it.             *)
LastLease_First(e) == e.st = "retiring"

LastLease(e) == e.st = "retiring" /\ e.leases = 1

(* release_lease: the last lease of a retiring page gives its charge back.  *)
ReleaseLease(k, g) ==
  LET e == entries[k]
      live == e.generation = g /\ e.st \in {"resident", "retiring"} /\ e.leases > 0
  IN  /\ IF ~live
         THEN UNCHANGED <<entries, ledger, metrics>>
         ELSE IF LastLease(e)
         THEN /\ entries' = [entries EXCEPT ![k] = Absent]
              /\ ledger' = [ledger EXCEPT !.leases = @ - 1,
                                          !.page_pool_bytes = @ - Allocation[k],
                                          !.retiring_bytes = @ - Allocation[k]]
              /\ metrics' = [metrics EXCEPT !.wasted_prefetch = @ + Unused({k})]
         ELSE /\ entries' = [entries EXCEPT ![k] = Released(@)]
              /\ ledger' = [ledger EXCEPT !.leases = @ - 1]
              /\ UNCHANGED metrics
      /\ NoAccess

(* PageLease::drop: the lease is released first, the payload reference it   *)
(* holds is dropped after.                                                  *)
DropLease(t) ==
  /\ tasks[t].st = "holding"
  /\ ReleaseLease(tasks[t].key, tasks[t].generation)
  /\ tasks' = [tasks EXCEPT ![t].st = "dropping"]
  /\ UNCHANGED <<generation, waiter, tick, shutdown, cancelled, readerVars, failing>>

DropPayload(t) ==
  /\ tasks[t].st = "dropping"
  /\ tasks' = [tasks EXCEPT ![t] = Idle]
  /\ UNCHANGED <<cacheVars, readerVars, failing, metrics, requested>>

(* mark_prefetch_use, the second critical section of a hit; the first use   *)
(* of a prefetched page is counted after it.                                *)
MarkPrefetchUse(t) ==
  LET k == tasks[t].key
      mine == entries[k].generation = tasks[t].generation
              /\ entries[k].st \in {"resident", "retiring"}
  IN  /\ tasks[t].st = "hit"
      /\ tasks' = [tasks EXCEPT ![t].st = IF mine /\ entries[k].prefetched_unused
                                          THEN "marked" ELSE "holding"]
      /\ entries' = IF mine THEN [entries EXCEPT ![k].prefetched_unused = FALSE] ELSE entries
      /\ UNCHANGED <<ledger, generation, waiter, tick, shutdown, cancelled, readerVars,
                     failing, metrics, requested>>

CountUse(t) ==
  /\ tasks[t].st = "marked"
  /\ tasks' = [tasks EXCEPT ![t].st = "holding"]
  /\ metrics' = [metrics EXCEPT !.useful_prefetch = @ + 1]
  /\ UNCHANGED <<cacheVars, readerVars, failing, requested>>

(* get's wait loop: the channel holds a result.                             *)
Poll(t) ==
  /\ tasks[t].st = "waiting" /\ tasks[t].channel # "empty"
  /\ tasks' = [tasks EXCEPT ![t] =
                 IF @.channel = "lease"
                 THEN [@ EXCEPT !.st = "holding", !.waiter = 0, !.channel = "empty"]
                 ELSE Idle]
  /\ UNCHANGED <<cacheVars, readerVars, failing, metrics, requested>>

(* withdraw_waiter.  The last interest in a load cancels it.                *)
WithdrawWaiter(k, g, i) ==
  LET e == entries[k]
      listed == e.generation = g /\ e.st = "loading" /\ i \in e.waiters
      final == e.waiters = {i} /\ ~e.prefetch_interest
  IN  /\ IF listed
         THEN /\ entries' = [entries EXCEPT ![k] = Left(@, i)]
              /\ ledger' = [ledger EXCEPT !.waiters = @ - 1, !.lease_reservations = @ - 1]
              /\ cancelled' = IF final THEN cancelled \cup {g} ELSE cancelled
         ELSE UNCHANGED <<entries, ledger, cancelled>>
      /\ UNCHANGED <<generation, waiter, tick, shutdown, readerVars, failing, metrics,
                     requested>>

(* The channel is dropped with whatever it holds.                           *)
DropChannel(t, next) ==
  /\ IF tasks[t].channel = "lease"
     THEN /\ ReleaseLease(tasks[t].key, tasks[t].generation)
          /\ tasks' = [tasks EXCEPT ![t] = [@ EXCEPT !.st = "dropping", !.waiter = 0,
                                                     !.channel = "empty"]]
     ELSE /\ tasks' = [tasks EXCEPT ![t] = next]
          /\ UNCHANGED <<entries, ledger, metrics, requested>>
  /\ UNCHANGED <<generation, waiter, tick, shutdown, cancelled, readerVars, failing>>

(* get sees its control cancelled or past its deadline: it withdraws its    *)
(* registration, then returns and drops the channel.                        *)
Withdraw(t) ==
  /\ tasks[t].st = "waiting"
  /\ WithdrawWaiter(tasks[t].key, tasks[t].generation, tasks[t].waiter)
  /\ tasks' = [tasks EXCEPT ![t].st = "withdrawn"]

DropReceiver(t) ==
  /\ tasks[t].st = "withdrawn"
  /\ DropChannel(t, Idle)

(* The future of get is dropped while it waits.  Its locals go in reverse   *)
(* order: the channel first, the registration after.  A lease found in the  *)
(* channel means the load has completed, so that its withdrawal is void.    *)
Abandon(t) ==
  /\ tasks[t].st = "waiting"
  /\ DropChannel(t, [tasks[t] EXCEPT !.st = "abandoned", !.channel = "empty"])

WithdrawAbandoned(t) ==
  /\ tasks[t].st = "abandoned"
  /\ WithdrawWaiter(tasks[t].key, tasks[t].generation, tasks[t].waiter)
  /\ tasks' = [tasks EXCEPT ![t] = Idle]

-----------------------------------------------------------------------------
(* PageCache::invalidate and PageCache::shutdown.                           *)

(* Mutant: a load is forgotten instead of being forbidden to publish.       *)
Invalidated_DropsLoad(e) ==
  IF e.st = "resident" /\ e.leases > 0 THEN RetiringEntry(e)
  ELSE IF e.st = "retiring" THEN e ELSE Absent

(* A load is forbidden to publish, an unleased resident goes, a leased one  *)
(* retires.                                                                 *)
Invalidated(e) ==
  IF e.st = "loading" THEN [e EXCEPT !.accepting_waiters = FALSE]
  ELSE IF e.st = "resident" THEN IF e.leases = 0 THEN Absent ELSE RetiringEntry(e)
  ELSE e

(* The waiters of a load stay with it; a retiring page keeps its charge.    *)
Invalidate(k) ==
  LET e == entries[k]
      a == Allocation[k]
  IN  /\ entries' = [entries EXCEPT ![k] = Invalidated(@)]
      /\ \/ /\ e.st = "loading"
            /\ cancelled' = cancelled \cup {e.generation}
            /\ UNCHANGED <<ledger, metrics>>
         \/ /\ e.st = "resident" /\ e.leases = 0
            /\ ledger' = [ledger EXCEPT !.page_pool_bytes = @ - a, !.resident_bytes = @ - a]
            /\ metrics' = [metrics EXCEPT !.wasted_prefetch = @ + Unused({k})]
            /\ UNCHANGED cancelled
         \/ /\ e.st = "resident" /\ e.leases > 0
            /\ ledger' = [ledger EXCEPT !.resident_bytes = @ - a, !.retiring_bytes = @ + a]
            /\ UNCHANGED <<cancelled, metrics>>
      /\ NoAccess
      /\ UNCHANGED <<generation, waiter, tick, shutdown, readerVars, tasks, failing>>

(* Mutant: the waiters of loads already invalidated are not collected.      *)
Drained_AcceptingLoads ==
  UNION {entries[k].waiters : k \in {j \in InState("loading") : entries[j].accepting_waiters}}

(* The waiters shutdown takes from the loads in progress.                   *)
Drained == UNION {entries[k].waiters : k \in InState("loading")}

(* Loads lose their waiters and are cancelled, but keep their charge until  *)
(* a worker acknowledges them.                                              *)
Shutdown ==
  LET leased == InState("resident") \ Candidates
  IN  /\ ~shutdown
      /\ shutdown' = TRUE
      /\ entries' = [k \in Keys |-> [Invalidated(entries[k]) EXCEPT !.waiters = {}]]
      /\ ledger' = [ledger EXCEPT
                      !.page_pool_bytes = @ - ChargeOf(Candidates),
                      !.resident_bytes = @ - ChargeOf(InState("resident")),
                      !.retiring_bytes = @ + ChargeOf(leased),
                      !.waiters = @ - Cardinality(Drained),
                      !.lease_reservations = @ - Cardinality(Drained)]
      /\ cancelled' = cancelled \cup {entries[k].generation : k \in InState("loading")}
      /\ failing' = Drained
      /\ metrics' = [metrics EXCEPT !.wasted_prefetch = @ + Unused(Candidates)]
      /\ NoAccess
      /\ UNCHANGED <<generation, waiter, tick, readerVars, tasks>>

(* The task whose receiver for waiter identity i is still alive.            *)
Receiver(i) == {t \in Tasks : tasks[t].waiter = i /\ tasks[t].st \in {"waiting", "withdrawn"}}

Deliver(i, what) ==
  tasks' = [t \in Tasks |-> IF t \in Receiver(i) THEN [tasks[t] EXCEPT !.channel = what]
                            ELSE tasks[t]]

(* After unlocking, the shutdown caller fails the waiters it drained ...    *)
FailWaiter(i) ==
  /\ i \in failing
  /\ failing' = failing \ {i}
  /\ Deliver(i, "error")
  /\ UNCHANGED <<cacheVars, readerVars, metrics, requested>>

(* ... and closes the reader, which any other owner of the reader may also  *)
(* do at any time.  Requests already queued still run.                      *)
CloseReader ==
  /\ reader_open
  /\ reader_open' = FALSE
  /\ UNCHANGED <<cacheVars, queue, workers, tasks, failing, metrics, requested>>

-----------------------------------------------------------------------------
(* Reader workers.                                                          *)

Dequeue(w) ==
  /\ workers[w].st = "parked" /\ queue # <<>>
  /\ workers' = [workers EXCEPT ![w] = [Parked EXCEPT !.st = "reading",
                    !.key = Head(queue).key, !.generation = Head(queue).generation]]
  /\ queue' = Tail(queue)
  /\ UNCHANGED <<cacheVars, reader_open, tasks, failing, metrics, requested>>

(* SyncReader::read_observed: a cancelled token always ends in an error; a  *)
(* live one in a verified page or in an I/O or integrity error.             *)
Read(w) ==
  /\ workers[w].st = "reading"
  /\ \E ok \in IF workers[w].generation \in cancelled THEN {FALSE} ELSE BOOLEAN :
       workers' = [workers EXCEPT ![w].st = "read", ![w].ok = ok]
  /\ UNCHANGED <<cacheVars, queue, reader_open, tasks, failing, metrics, requested>>

(* Mutant: whatever was read is published.                                  *)
Publishes_Unconditionally(e, ok) == ok

(* complete_load, under the lock.  The page is published only while its     *)
(* load still accepts waiters.  The request goes, and its token with it.    *)
Publishes(e, ok) == ok /\ e.accepting_waiters /\ ~shutdown

(* Mutant: the in-flight charge is never given back.                        *)
Settled_KeepsInflight(k, n) ==
  [ledger EXCEPT !.active_loads = @ - 1, !.waiters = @ - n, !.lease_reservations = @ - n]

(* The load slot, the in-flight charge and the n waiters of k's load end.   *)
Settled(k, n) ==
  [ledger EXCEPT !.active_loads = @ - 1, !.inflight_bytes = @ - Allocation[k],
                 !.waiters = @ - n, !.lease_reservations = @ - n]

Complete(w) ==
  LET k == workers[w].key
      e == entries[k]
      n == Cardinality(e.waiters)
      mine == e.st = "loading" /\ e.generation = workers[w].generation
      publish == Publishes(e, workers[w].ok)
      r == ResidentEntry(e)
  IN  /\ workers[w].st = "read"
      /\ IF ~mine
         THEN UNCHANGED <<entries, ledger, metrics>>
         ELSE IF publish
         THEN /\ entries' = [entries EXCEPT ![k] = r]
              /\ ledger' = [Settled(k, n) EXCEPT !.resident_bytes = @ + Allocation[k],
                                                 !.leases = @ + n]
              /\ metrics' = IF r.prefetched_unused
                            THEN [metrics EXCEPT !.speculative = @ + 1] ELSE metrics
         ELSE /\ entries' = [entries EXCEPT ![k] = Absent]
              /\ ledger' = [Settled(k, n) EXCEPT !.page_pool_bytes = @ - Allocation[k]]
              /\ UNCHANGED metrics
      /\ workers' = [workers EXCEPT ![w] =
                       IF mine /\ e.waiters # {}
                       THEN [@ EXCEPT !.st = "sending", !.ok = publish, !.out = e.waiters]
                       ELSE Parked]
      /\ cancelled' = cancelled \ {workers[w].generation}
      /\ NoAccess
      /\ UNCHANGED <<generation, waiter, tick, shutdown, queue, reader_open, tasks, failing>>

(* Still in complete_load, after unlocking: one send per waiter.  A send to *)
(* a dropped receiver returns the lease, whose drop releases it.            *)
Send(w, i) ==
  LET rest == workers[w].out \ {i}
      next == IF rest = {} THEN Parked ELSE [workers[w] EXCEPT !.out = rest]
      returned == workers[w].ok /\ Receiver(i) = {}
  IN  /\ workers[w].st = "sending" /\ i \in workers[w].out
      /\ Deliver(i, IF workers[w].ok THEN "lease" ELSE "error")
      /\ IF returned
         THEN /\ ReleaseLease(workers[w].key, workers[w].generation)
              /\ workers' = [workers EXCEPT ![w].st = "dropping", ![w].out = rest]
         ELSE /\ workers' = [workers EXCEPT ![w] = next]
              /\ UNCHANGED <<entries, ledger, metrics, requested>>
      /\ UNCHANGED <<generation, waiter, tick, shutdown, cancelled, queue, reader_open,
                     failing>>

DropReturned(w) ==
  /\ workers[w].st = "dropping"
  /\ workers' = [workers EXCEPT ![w] = IF @.out = {} THEN Parked
                                       ELSE [@ EXCEPT !.st = "sending"]]
  /\ UNCHANGED <<cacheVars, queue, reader_open, tasks, failing, metrics, requested>>

-----------------------------------------------------------------------------
GetStep      == \/ \E k \in Keys : \/ \E t \in Tasks : GetHit(t, k) \/ GetJoin(t, k) \/ GetMiss(t, k)
                                   \/ GetUnwound(k) \/ GetDenied(k)
                \/ GetRefused
PrefetchStep == \E k \in Keys : PrefetchCoalesce(k) \/ PrefetchStart(k) \/ PrefetchUnwound(k)
                                \/ PrefetchDropped(k)
TaskStep(t)  == \/ MarkPrefetchUse(t) \/ CountUse(t) \/ Poll(t) \/ Withdraw(t) \/ DropReceiver(t)
                \/ Abandon(t) \/ WithdrawAbandoned(t) \/ DropLease(t) \/ DropPayload(t)
WorkerStep(w) == \/ Dequeue(w) \/ Read(w) \/ Complete(w) \/ DropReturned(w)
                 \/ \E i \in workers[w].out : Send(w, i)
ShutdownStep == Shutdown \/ \E i \in failing : FailWaiter(i)

Next ==
  \/ GetStep
  \/ PrefetchStep
  \/ \E t \in Tasks : TaskStep(t)
  \/ \E k \in Keys : Invalidate(k)
  \/ ShutdownStep
  \/ CloseReader
  \/ \E w \in Workers : WorkerStep(w)

Spec == Init /\ [][Next]_vars

(* The worker threads and the shutdown caller run; a request task polls,    *)
(* marks and frees when the executor schedules it, but nothing obliges it   *)
(* to give a lease back.                                                    *)
Fairness ==
  /\ \A w \in Workers : WF_vars(WorkerStep(w))
  /\ WF_vars(\E i \in failing : FailWaiter(i))
  /\ \A t \in Tasks : WF_vars(MarkPrefetchUse(t) \/ CountUse(t) \/ Poll(t)
                              \/ DropReceiver(t) \/ WithdrawAbandoned(t) \/ DropPayload(t))

FairSpec == Spec /\ Fairness

-----------------------------------------------------------------------------
TypeOK ==
  /\ entries \in [Keys -> Entry]
  /\ ledger \in Ledger
  /\ generation \in Nat /\ waiter \in Nat /\ tick \in Nat
  /\ shutdown \in BOOLEAN /\ reader_open \in BOOLEAN
  /\ cancelled \subseteq Nat
  /\ queue \in Seq(Job)
  /\ workers \in [Workers -> Worker]
  /\ tasks \in [Tasks -> Task]
  /\ failing \subseteq Nat
  /\ metrics \in [speculative : Nat, useful_prefetch : Nat, wasted_prefetch : Nat]
  /\ requested \in [Keys -> Nat]

(* The leases that exist outside the cache: with a task, in the channel of  *)
(* a task, or in the delivery list of a worker.                             *)
HasLease(t)   == tasks[t].st \in {"hit", "marked", "holding"} \/ tasks[t].channel = "lease"
TaskLeases(k) == {t \in Tasks : HasLease(t) /\ tasks[t].key = k}
SentLeases(k) == UNION {{w} \X workers[w].out : w \in {v \in Workers : workers[v].ok
                          /\ workers[v].st \in {"sending", "dropping"} /\ workers[v].key = k}}

Running(w) == workers[w].st \in {"reading", "read"}
Waiting    == UNION {entries[k].waiters : k \in Keys}

(* The byte ledger is exact: page_pool_bytes is the charge of the loading,  *)
(* resident and retiring pages together, each charged once in its own       *)
(* state, through every load, eviction, retirement and unwound submission   *)
(* (the equation update_live_metrics asserts).                              *)
ChargesExact ==
  /\ ledger.inflight_bytes = ChargeOf(InState("loading"))
  /\ ledger.resident_bytes = ChargeOf(InState("resident"))
  /\ ledger.retiring_bytes = ChargeOf(InState("retiring"))
  /\ ledger.page_pool_bytes =
       ledger.inflight_bytes + ledger.resident_bytes + ledger.retiring_bytes
  /\ ledger.active_loads = Cardinality(InState("loading"))

(* The configured ceilings hold at every instant: no order of reservations, *)
(* evictions and completions oversubscribes the pool, the in-flight cap,    *)
(* the entry table, the load slots or the reader queue.                     *)
CapacityRespected ==
  /\ ledger.page_pool_bytes <= PagePoolCapacity
  /\ ledger.inflight_bytes <= MaxInflightBytes
  /\ ledger.active_loads <= MaxLoads
  /\ Cardinality(Present) <= MaxEntries
  /\ Len(queue) <= QueueCapacity

(* Waiter and lease slots are exact and bounded: every registered waiter    *)
(* holds one waiter slot and one prospective lease, every live lease one    *)
(* lease slot, and turning reservations into leases on completion can       *)
(* never exceed max_leases.                                                 *)
SlotsExact ==
  /\ ledger.waiters = Cardinality(Waiting)
  /\ ledger.lease_reservations = ledger.waiters
  /\ ledger.leases = Cardinality({t \in Tasks : HasLease(t)})
                     + Cardinality(UNION {SentLeases(k) : k \in Keys})
  /\ ledger.waiters <= MaxWaiters
  /\ ledger.leases + ledger.lease_reservations <= MaxLeases
  /\ \A k \in Keys : Cardinality(entries[k].waiters) <= MaxWaitersPerPage

(* Storage outlives its consumers: whoever holds a lease, or has one in a   *)
(* channel or on its way to one, the cache still has that generation        *)
(* resident or retiring and counts exactly those leases on it.              *)
LeasesBacked ==
  \A k \in Keys :
    /\ entries[k].leases = Cardinality(TaskLeases(k)) + Cardinality(SentLeases(k))
    /\ \A t \in TaskLeases(k) : entries[k].generation = tasks[t].generation
    /\ \A s \in SentLeases(k) : entries[k].generation = workers[s[1]].generation
    /\ entries[k].st = "retiring" => entries[k].leases > 0

(* One physical load per loading page, and no other: each loading entry has *)
(* exactly one request in the reader, and every queued or running request   *)
(* is for the current generation of a loading entry, so that complete_load  *)
(* never meets a stale generation and no charge is ever left without the    *)
(* worker that will return it.                                              *)
SingleFlight ==
  /\ \A k \in InState("loading") :
       Cardinality({i \in DOMAIN queue : queue[i].key = k})
       + Cardinality({w \in Workers : Running(w) /\ workers[w].key = k}) = 1
  /\ \A i \in DOMAIN queue : LET e == entries[queue[i].key]
                             IN  e.st = "loading" /\ e.generation = queue[i].generation
  /\ \A w \in Workers : Running(w) =>
       LET e == entries[workers[w].key]
       IN  e.st = "loading" /\ e.generation = workers[w].generation

(* Every speculative admission is accounted for once: it is still unused,   *)
(* or it was counted useful or is about to be, or it was counted wasted.    *)
(* And a page that a demand has read is never counted as wasted: get takes  *)
(* its lease and marks the use in two critical sections, and while a page   *)
(* still counts as unused every lease on it belongs to a task between the   *)
(* two.                                                                     *)
PrefetchAccounted ==
  /\ metrics.speculative =
       metrics.useful_prefetch + metrics.wasted_prefetch + Unused(Present)
       + Cardinality({t \in Tasks : tasks[t].st = "marked"})
  /\ \A k \in Keys : entries[k].prefetched_unused =>
       /\ \A t \in TaskLeases(k) : tasks[t].st = "hit"
       /\ SentLeases(k) = {}

(* Replacement follows the order of the requests, whatever the order in     *)
(* which workers complete: when an access evicts a page, every unleased     *)
(* resident it spares was requested after it.                               *)
EvictionOrder ==
  [][\A v, j \in Candidates :
       tick' # tick /\ entries'[v].st = "absent" /\ entries'[j].st = "resident"
       => requested[v] < requested[j]]_vars

(* A cancellation that takes the lock first prevents publication: a page    *)
(* becomes resident only from a load whose token is live and before         *)
(* shutdown, and a leased page leaves the resident state only to retire.    *)
PublicationRule ==
  [][\A k \in Keys :
       /\ entries'[k].st = "resident" /\ entries[k].st # "resident" =>
            entries[k].st = "loading" /\ entries[k].generation \notin cancelled /\ ~shutdown
       /\ entries[k].st = "resident" /\ entries[k].leases > 0
          /\ entries'[k].st # "resident" => entries'[k].st = "retiring"]_vars

(* The cache implements PageLifecycle: seen through the state, the leases   *)
(* and the charge of each page, every step of a task, a worker or the       *)
(* shutdown caller is one step of that machine or changes nothing.          *)
Abstract == INSTANCE PageLifecycle WITH
  Capacity <- PagePoolCapacity, InFlight <- MaxInflightBytes,
  phase <- [k \in Keys |-> entries[k].st], leases <- [k \in Keys |-> entries[k].leases],
  closed <- shutdown
ImplementsLifecycle == Abstract!Lifecycle

(* Every get that waits is answered: the load it joined completes, fails or *)
(* is cancelled by shutdown, and its channel is served.                     *)
WaiterAnswered ==
  \A t \in Tasks : (tasks[t].st = "waiting" /\ tasks[t].channel = "empty")
                   ~> (tasks[t].st # "waiting" \/ tasks[t].channel # "empty")

(* After shutdown the cache drains: in-flight charges come back as workers  *)
(* acknowledge, nothing becomes resident again, and in the end only pages   *)
(* someone still leases are charged.                                        *)
ShutdownDrains ==
  shutdown ~> [](/\ ledger.inflight_bytes = 0 /\ ledger.resident_bytes = 0
                 /\ ledger.waiters = 0 /\ ledger.active_loads = 0
                 /\ (ledger.leases = 0 => ledger.page_pool_bytes = 0))

(* The payload buffers that exist, by key and generation: read buffers of   *)
(* workers, pages in the cache, and pages a lease still refers to.          *)
LivePayloads ==
  {<<workers[w].key, workers[w].generation>> : w \in
     {v \in Workers : workers[v].st = "reading" \/ workers[v].ok}}
  \cup {<<k, entries[k].generation>> : k \in InState("resident") \cup InState("retiring")}
  \cup {<<tasks[t].key, tasks[t].generation>> : t \in
          {u \in Tasks : HasLease(u) \/ tasks[u].st = "dropping"}}

(* The memory ceiling as the design states it: the payload buffers alive at *)
(* any instant fit in page_pool_capacity.                                   *)
PayloadsFitPool ==
  Cardinality(UNION {{p} \X (1 .. Allocation[p[1]]) : p \in LivePayloads}) <= PagePoolCapacity
=============================================================================

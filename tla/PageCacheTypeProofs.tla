------------------------- MODULE PageCacheTypeProofs -------------------------
(* Every action of PageCache preserves the types of its variables.          *)
EXTENDS PageCacheLemmas

(* release_lease.                                                           *)
LEMMA ReleaseType ==
  ASSUME Typed, NEW k \in Keys, NEW g, ReleaseLease(k, g), tick' \in Nat
  PROVE  /\ entries' \in [Keys -> Entry] /\ WaitersFinite'
         /\ ledger' \in Ledger
         /\ metrics' \in [speculative : Nat, useful_prefetch : Nat, wasted_prefetch : Nat]
         /\ requested' \in [Keys -> Nat]
<1>1. /\ entries \in [Keys -> Entry] /\ WaitersFinite
      /\ ledger \in Ledger /\ Allocation[k] \in Int
      /\ metrics \in [speculative : Nat, useful_prefetch : Nat, wasted_prefetch : Nat]
      /\ entries[k] \in Entry /\ IsFiniteSet(entries[k].waiters)
      /\ Unused({k}) \in Nat
  BY PagesAssumption, UnusedType DEF Typed, TypeOK, WaitersFinite
<1>2. requested' \in [Keys -> Nat]
  BY AccessType DEF ReleaseLease, NoAccess
<1>3. CASE UNCHANGED <<entries, ledger, metrics>>
  BY <1>1, <1>2, <1>3 DEF WaitersFinite
<1>4. CASE /\ entries' = [entries EXCEPT ![k] = Absent]
           /\ ledger' = [ledger EXCEPT !.leases = @ - 1, !.page_pool_bytes = @ - Allocation[k],
                                       !.retiring_bytes = @ - Allocation[k]]
           /\ metrics' = [metrics EXCEPT !.wasted_prefetch = @ + Unused({k})]
  <2>1. entries' \in [Keys -> Entry] /\ WaitersFinite'
    BY <1>4, EntriesUpdate, EntryTypes, Zenon
  <2>2. ledger' \in Ledger
    <3>1. /\ ledger.leases - 1 \in Int /\ ledger.page_pool_bytes - Allocation[k] \in Int
          /\ ledger.retiring_bytes - Allocation[k] \in Int
      BY <1>1 DEF Ledger
    <3> QED BY <1>1, <1>4, <3>1, Zenon DEF Ledger
  <2> QED BY <1>1, <1>2, <1>4, <2>1, <2>2, SMTT(30)
<1>5. CASE /\ entries[k].leases > 0
           /\ entries' = [entries EXCEPT ![k] = Released(entries[k])]
           /\ ledger' = [ledger EXCEPT !.leases = @ - 1]
           /\ UNCHANGED metrics
  <2>1. Released(entries[k]) \in Entry /\ IsFiniteSet(Released(entries[k]).waiters)
    BY <1>1, <1>5, ReleasedType
  <2>2. entries' \in [Keys -> Entry] /\ WaitersFinite'
    BY <1>5, <2>1, EntriesUpdate, Zenon
  <2>3. ledger' \in Ledger
    BY <1>1, <1>5 DEF Ledger
  <2> QED BY <1>1, <1>2, <1>5, <2>2, <2>3
<1> QED BY <1>3, <1>4, <1>5, ReleaseCases, Zenon

(* withdraw_waiter.                                                         *)
LEMMA WithdrawType ==
  ASSUME Typed, NEW k \in Keys, NEW g \in Nat, NEW i \in Nat, WithdrawWaiter(k, g, i)
  PROVE  /\ entries' \in [Keys -> Entry] /\ WaitersFinite'
         /\ ledger' \in Ledger
         /\ cancelled' \subseteq Nat
<1>1. /\ entries \in [Keys -> Entry] /\ WaitersFinite
      /\ ledger \in Ledger /\ cancelled \subseteq Nat
      /\ entries[k] \in Entry /\ IsFiniteSet(entries[k].waiters)
  BY DEF Typed, TypeOK, WaitersFinite
<1>2. CASE UNCHANGED <<entries, ledger, cancelled>>
  BY <1>1, <1>2 DEF WaitersFinite
<1>3. CASE /\ entries' = [entries EXCEPT ![k] = Left(entries[k], i)]
           /\ ledger' = [ledger EXCEPT !.waiters = @ - 1, !.lease_reservations = @ - 1]
           /\ cancelled' = cancelled \/ cancelled' = cancelled \cup {g}
  <2>1. Left(entries[k], i) \in Entry /\ IsFiniteSet(Left(entries[k], i).waiters)
    BY <1>1, LeftType
  <2>2. entries' \in [Keys -> Entry] /\ WaitersFinite'
    BY <1>3, <2>1, EntriesUpdate, Zenon
  <2>3. ledger' \in Ledger
    <3>1. ledger.waiters - 1 \in Int /\ ledger.lease_reservations - 1 \in Int
      BY <1>1 DEF Ledger
    <3> QED BY <1>1, <1>3, <3>1, Zenon DEF Ledger
  <2> QED BY <1>1, <1>3, <2>2, <2>3
<1> QED BY <1>2, <1>3, Zenon DEF WithdrawWaiter

(* A load that starts.                                                      *)
LEMMA StartType ==
  ASSUME Typed, NEW k \in Keys, NEW V \in VictimPlans(k), NEW ws \in SUBSET Nat,
         IsFiniteSet(ws), NEW o \in {"demand", "prefetch"}, StartLoad(k, V, ws, o)
  PROVE  /\ entries' \in [Keys -> Entry] /\ WaitersFinite'
         /\ ledger' \in Ledger /\ generation' \in Nat /\ tick' \in Nat
         /\ queue' \in Seq(Job)
         /\ metrics' \in [speculative : Nat, useful_prefetch : Nat, wasted_prefetch : Nat]
         /\ requested' \in [Keys -> Nat]
<1>1. /\ entries \in [Keys -> Entry] /\ WaitersFinite /\ ledger \in Ledger
      /\ metrics \in [speculative : Nat, useful_prefetch : Nat, wasted_prefetch : Nat]
      /\ queue \in Seq(Job)
  BY DEF Typed, TypeOK
<1>2. generation' \in Nat /\ tick' \in Nat
  BY SMTT(30) DEF Typed, TypeOK, StartLoad
<1>3. V \in SUBSET Keys
  BY PlanCandidates
<1>4. entries' \in [Keys -> Entry] /\ WaitersFinite'
  <2>1. /\ LoadingEntry(generation', ws, o, tick') \in Entry
        /\ LoadingEntry(generation', ws, o, tick').waiters = ws
    BY <1>2, LoadingType
  <2>2. IsFiniteSet(LoadingEntry(generation', ws, o, tick').waiters)
    BY <2>1, Zenon
  <2>3. entries' = [j \in Keys |-> IF j = k THEN LoadingEntry(generation', ws, o, tick')
                                   ELSE IF j \in V THEN Absent ELSE entries[j]]
    BY DEF StartLoad
  <2> QED BY <1>1, <2>1, <2>2, <2>3, EntryTypes DEF WaitersFinite
<1>5. ledger' \in Ledger
  <2>1. ChargeOf(V) \in Int /\ Allocation[k] \in Int /\ Cardinality(ws) \in Int
    BY <1>3, ChargeType, FS_CardinalityType, PagesAssumption, SMTT(30)
  <2>2. /\ ledger.page_pool_bytes - ChargeOf(V) + Allocation[k] \in Int
        /\ ledger.inflight_bytes + Allocation[k] \in Int
        /\ ledger.resident_bytes - ChargeOf(V) \in Int
        /\ ledger.active_loads + 1 \in Int
        /\ ledger.waiters + Cardinality(ws) \in Int
        /\ ledger.lease_reservations + Cardinality(ws) \in Int
    <3>1. /\ ledger.page_pool_bytes \in Int /\ ledger.inflight_bytes \in Int
          /\ ledger.resident_bytes \in Int /\ ledger.active_loads \in Int
          /\ ledger.waiters \in Int /\ ledger.lease_reservations \in Int
      BY <1>1 DEF Ledger
    <3> QED BY <2>1, <3>1
  <2>3. ledger' = [ledger EXCEPT
                  !.page_pool_bytes = @ - ChargeOf(V) + Allocation[k],
                  !.inflight_bytes = @ + Allocation[k],
                  !.resident_bytes = @ - ChargeOf(V),
                  !.active_loads = @ + 1,
                  !.waiters = @ + Cardinality(ws),
                  !.lease_reservations = @ + Cardinality(ws)]
    BY DEF StartLoad
  <2> QED BY <1>1, <2>2, <2>3, Zenon DEF Ledger
<1>6. queue' \in Seq(Job)
  <2>1. [key |-> k, generation |-> generation'] \in Job
    BY <1>2 DEF Job
  <2> QED BY <1>1, <2>1 DEF StartLoad
<1>7. metrics' \in [speculative : Nat, useful_prefetch : Nat, wasted_prefetch : Nat]
  <2>1. Unused(V) \in Nat
    BY <1>3, UnusedType
  <2> QED BY <1>1, <2>1, SMTT(30) DEF StartLoad
<1>8. requested' \in [Keys -> Nat]
  BY <1>2, AccessType DEF StartLoad
<1> QED BY <1>2, <1>4, <1>5, <1>6, <1>7, <1>8, SMTT(30)

(* A load whose submission is refused.                                      *)
LEMMA UnwindType ==
  ASSUME Typed, NEW k \in Keys, NEW V \in VictimPlans(k), UnwindLoad(k, V), waiter' \in Nat
  PROVE  Typed'
<1>1. /\ entries \in [Keys -> Entry] /\ WaitersFinite /\ ledger \in Ledger
      /\ metrics \in [speculative : Nat, useful_prefetch : Nat, wasted_prefetch : Nat]
  BY DEF Typed, TypeOK
<1>2. generation' \in Nat /\ tick' \in Nat
  BY SMTT(30) DEF Typed, TypeOK, UnwindLoad
<1>3. V \in SUBSET Keys
  BY PlanCandidates
<1>4. entries' \in [Keys -> Entry] /\ WaitersFinite'
  <2>1. entries' = [j \in Keys |-> IF j \in V THEN Absent ELSE entries[j]]
    BY DEF UnwindLoad
  <2> QED BY <1>1, <2>1, EntryTypes DEF WaitersFinite
<1>5. ledger' \in Ledger
  <2>1. ChargeOf(V) \in Int
    BY <1>3, ChargeType
  <2>2. ledger.page_pool_bytes - ChargeOf(V) \in Int /\ ledger.resident_bytes - ChargeOf(V) \in Int
    BY <1>1, <2>1 DEF Ledger
  <2>3. ledger' = [ledger EXCEPT !.page_pool_bytes = @ - ChargeOf(V),
                                 !.resident_bytes = @ - ChargeOf(V)]
    BY DEF UnwindLoad
  <2> QED BY <1>1, <2>2, <2>3, Zenon DEF Ledger
<1>6. metrics' \in [speculative : Nat, useful_prefetch : Nat, wasted_prefetch : Nat]
  <2>1. Unused(V) \in Nat
    BY <1>3, UnusedType
  <2> QED BY <1>1, <2>1 DEF UnwindLoad
<1>7. requested' \in [Keys -> Nat]
  BY <1>2, AccessType DEF UnwindLoad, NoAccess
<1> QED BY <1>2, <1>4, <1>5, <1>6, <1>7, Zenon DEF Typed, TypeOK, UnwindLoad, readerVars

(* The waiters shutdown collects are finitely many natural numbers.         *)
LEMMA DrainedFinite ==
  ASSUME Typed
  PROVE  IsFiniteSet(Drained) /\ Drained \subseteq Nat
<1> DEFINE S == InState("loading")
           f == [k \in S |-> entries[k].waiters]
           T == {entries[k].waiters : k \in S}
<1>1. S \in SUBSET Keys
  BY DEF InState
<1>2. IsFiniteSet(S)
  BY <1>1, FS_Subset, PagesAssumption
<1>3. f \in Surjection(S, T)
  BY DEF Surjection
<1>4. IsFiniteSet(T)
  BY <1>2, <1>3, FS_Surjection
<1>5. \A t \in T : IsFiniteSet(t) /\ t \subseteq Nat
  BY <1>1 DEF Typed, TypeOK, WaitersFinite, Entry
<1>6. IsFiniteSet(UNION T)
  BY <1>4, <1>5, FS_UNION, Zenon
<1> QED BY <1>5, <1>6, Zenon DEF Drained

(* PageCache::shutdown.                                                     *)
LEMMA ShutdownType ==
  ASSUME Typed, Shutdown
  PROVE  Typed'
<1>1. /\ entries \in [Keys -> Entry] /\ WaitersFinite /\ ledger \in Ledger
      /\ metrics \in [speculative : Nat, useful_prefetch : Nat, wasted_prefetch : Nat]
      /\ Candidates \in SUBSET Keys /\ InState("resident") \in SUBSET Keys
      /\ tick' \in Nat
  BY DEF Typed, TypeOK, Candidates, InState, Shutdown
<1>2. entries' \in [Keys -> Entry] /\ WaitersFinite'
  <2>1. ASSUME NEW e \in Entry PROVE [e EXCEPT !.waiters = {}] \in Entry
                                     /\ [e EXCEPT !.waiters = {}].waiters = {}
    BY DEF Entry
  <2>2. \A k \in Keys : Invalidated(entries[k]) \in Entry
    BY <1>1, EntryTypes DEF WaitersFinite
  <2>3. entries' = [k \in Keys |-> [Invalidated(entries[k]) EXCEPT !.waiters = {}]]
    BY DEF Shutdown
  <2>4. entries' \in [Keys -> Entry]
    BY <2>1, <2>2, <2>3
  <2>5. \A k \in Keys : entries'[k].waiters = {}
    BY <2>1, <2>2, <2>3, Zenon
  <2> QED BY <2>4, <2>5, FS_EmptySet DEF WaitersFinite
<1>3. ledger' \in Ledger
  <2> DEFINE leased == InState("resident") \ Candidates
  <2>1. /\ ChargeOf(Candidates) \in Int /\ ChargeOf(InState("resident")) \in Int
        /\ ChargeOf(leased) \in Int /\ Cardinality(Drained) \in Int
    BY <1>1, ChargeType, DrainedFinite, FS_CardinalityType
  <2>2. /\ ledger.page_pool_bytes \in Int /\ ledger.resident_bytes \in Int
        /\ ledger.retiring_bytes \in Int /\ ledger.waiters \in Int
        /\ ledger.lease_reservations \in Int
    BY <1>1 DEF Ledger
  <2>3. /\ ledger.page_pool_bytes - ChargeOf(Candidates) \in Int
        /\ ledger.resident_bytes - ChargeOf(InState("resident")) \in Int
        /\ ledger.retiring_bytes + ChargeOf(leased) \in Int
        /\ ledger.waiters - Cardinality(Drained) \in Int
        /\ ledger.lease_reservations - Cardinality(Drained) \in Int
    BY <2>1, <2>2
  <2>4. ledger' = [ledger EXCEPT
                      !.page_pool_bytes = @ - ChargeOf(Candidates),
                      !.resident_bytes = @ - ChargeOf(InState("resident")),
                      !.retiring_bytes = @ + ChargeOf(leased),
                      !.waiters = @ - Cardinality(Drained),
                      !.lease_reservations = @ - Cardinality(Drained)]
    BY DEF Shutdown
  <2> HIDE DEF leased
  <2> QED BY <1>1, <2>3, <2>4, Zenon DEF Ledger
<1>4. cancelled' \subseteq Nat /\ failing' \subseteq Nat
  BY <1>1, DrainedFinite DEF Typed, TypeOK, Shutdown, InState, Entry
<1>5. metrics' \in [speculative : Nat, useful_prefetch : Nat, wasted_prefetch : Nat]
  <2>1. Unused(Candidates) \in Nat
    BY <1>1, UnusedType
  <2> QED BY <1>1, <2>1 DEF Shutdown
<1>6. requested' \in [Keys -> Nat]
  BY <1>1, AccessType DEF Shutdown, NoAccess
<1> QED BY <1>2, <1>3, <1>4, <1>5, <1>6, SMTT(30) DEF Typed, TypeOK, Shutdown, readerVars

(* PageCache::invalidate.                                                   *)
LEMMA InvalidateType ==
  ASSUME Typed, NEW k \in Keys, Invalidate(k)
  PROVE  Typed'
<1>1. /\ entries[k] \in Entry /\ IsFiniteSet(entries[k].waiters) /\ ledger \in Ledger
      /\ metrics \in [speculative : Nat, useful_prefetch : Nat, wasted_prefetch : Nat]
      /\ tick' \in Nat
  BY DEF Typed, TypeOK, WaitersFinite, Invalidate
<1>2. entries' \in [Keys -> Entry] /\ WaitersFinite'
  <2>1. Invalidated(entries[k]) \in Entry /\ IsFiniteSet(Invalidated(entries[k]).waiters)
    BY <1>1, EntryTypes
  <2>2. entries' = [entries EXCEPT ![k] = Invalidated(entries[k])]
    BY DEF Invalidate
  <2> QED BY <2>1, <2>2, EntriesUpdate, Zenon
<1>3. ledger' \in Ledger
  <2>1. /\ ledger.page_pool_bytes - Allocation[k] \in Int
        /\ ledger.resident_bytes - Allocation[k] \in Int
        /\ ledger.retiring_bytes + Allocation[k] \in Int
    BY <1>1, PagesAssumption DEF Ledger
  <2>2. \/ ledger' = ledger
        \/ ledger' = [ledger EXCEPT !.page_pool_bytes = @ - Allocation[k],
                                    !.resident_bytes = @ - Allocation[k]]
        \/ ledger' = [ledger EXCEPT !.resident_bytes = @ - Allocation[k],
                                    !.retiring_bytes = @ + Allocation[k]]
    BY Zenon DEF Invalidate
  <2> QED BY <1>1, <2>1, <2>2, Zenon DEF Ledger
<1>4. cancelled' \subseteq Nat
  BY <1>1, SMTT(30) DEF Typed, TypeOK, Invalidate, Entry
<1>5. metrics' \in [speculative : Nat, useful_prefetch : Nat, wasted_prefetch : Nat]
  <2>1. Unused({k}) \in Nat
    BY UnusedType
  <2> QED BY <1>1, <2>1 DEF Invalidate
<1>6. requested' \in [Keys -> Nat]
  BY <1>1, AccessType, SMTT(30) DEF Invalidate, NoAccess
<1> QED BY <1>2, <1>3, <1>4, <1>5, <1>6, SMTT(30) DEF Typed, TypeOK, Invalidate, readerVars

(* complete_load.                                                           *)
LEMMA CompleteType ==
  ASSUME Typed, NEW w \in Workers, Complete(w)
  PROVE  Typed'
<1> DEFINE k == workers[w].key
           e == entries[k]
           n == Cardinality(e.waiters)
<1>1. workers[w] \in Worker /\ workers[w] # Parked
  <2>1. workers \in [Workers -> Worker]
    BY DEF Typed, TypeOK
  <2>2. workers[w].st = "read"
    BY ZenonT(60) DEF Complete
  <2>3. Parked.st = "parked"
    BY DEF Parked
  <2> QED BY <2>1, <2>2, <2>3
<1>2. k \in Keys
  BY <1>1 DEF Worker
<1>3. /\ e \in Entry /\ IsFiniteSet(e.waiters) /\ ledger \in Ledger
      /\ entries \in [Keys -> Entry] /\ WaitersFinite
      /\ metrics \in [speculative : Nat, useful_prefetch : Nat, wasted_prefetch : Nat]
      /\ n \in Int /\ Allocation[k] \in Int /\ tick' \in Nat
  <2>1. /\ entries \in [Keys -> Entry] /\ WaitersFinite /\ ledger \in Ledger
        /\ metrics \in [speculative : Nat, useful_prefetch : Nat, wasted_prefetch : Nat]
        /\ tick \in Nat
    BY DEF Typed, TypeOK
  <2>2. e \in Entry /\ IsFiniteSet(e.waiters)
    BY <1>2, <2>1 DEF WaitersFinite
  <2>3. n \in Int
    BY <2>2, FS_CardinalityType
  <2>4. Allocation[k] \in Int
    <3> HIDE DEF k
    <3> QED BY <1>2, PagesAssumption, SMTT(30)
  <2>5. tick' \in Nat
    BY <2>1 DEF Complete
  <2> QED BY <2>1, <2>2, <2>3, <2>4, <2>5
<1>4. Settled(k, n) \in Ledger
  <2>1. /\ ledger.active_loads - 1 \in Int /\ ledger.inflight_bytes - Allocation[k] \in Int
        /\ ledger.waiters - n \in Int /\ ledger.lease_reservations - n \in Int
    BY <1>3 DEF Ledger
  <2> HIDE DEF n, k
  <2> QED BY <1>3, <2>1, ZenonT(60) DEF Settled, Ledger
<1>5. \/ UNCHANGED <<entries, ledger, metrics>>
      \/ /\ entries' = [entries EXCEPT ![k] = ResidentEntry(e)]
         /\ ledger' = [Settled(k, n) EXCEPT !.resident_bytes = @ + Allocation[k],
                                            !.leases = @ + n]
         /\ \/ metrics' = metrics
            \/ metrics' = [metrics EXCEPT !.speculative = @ + 1]
      \/ /\ entries' = [entries EXCEPT ![k] = Absent]
         /\ ledger' = [Settled(k, n) EXCEPT !.page_pool_bytes = @ - Allocation[k]]
         /\ metrics' = metrics
  BY ZenonT(60) DEF Complete
<1>6. entries' \in [Keys -> Entry] /\ WaitersFinite'
  <2>1. ResidentEntry(e) \in Entry /\ IsFiniteSet(ResidentEntry(e).waiters)
    BY <1>3, EntryTypes, SMTT(30)
  <2>2. CASE entries' = entries
    BY <1>3, <2>2 DEF WaitersFinite
  <2>3. CASE entries' = [entries EXCEPT ![k] = ResidentEntry(e)]
    BY <1>2, <2>1, <2>3, EntriesUpdate, Zenon
  <2>4. CASE entries' = [entries EXCEPT ![k] = Absent]
    BY <1>2, <2>4, EntryTypes, EntriesUpdate, ZenonT(60)
  <2> QED BY <1>5, <2>2, <2>3, <2>4, SMTT(30)
<1>7. ledger' \in Ledger
  <2> DEFINE s == Settled(k, n)
  <2>1. s \in Ledger
    BY <1>4
  <2>2. \/ ledger' = ledger
        \/ ledger' = [s EXCEPT !.resident_bytes = @ + Allocation[k], !.leases = @ + n]
        \/ ledger' = [s EXCEPT !.page_pool_bytes = @ - Allocation[k]]
    BY <1>5, Zenon
  <2> HIDE DEF s, n, k
  <2>3. /\ s.resident_bytes + Allocation[k] \in Int /\ s.leases + n \in Int
        /\ s.page_pool_bytes - Allocation[k] \in Int
    BY <1>3, <2>1 DEF Ledger
  <2>4. CASE ledger' = [s EXCEPT !.resident_bytes = @ + Allocation[k], !.leases = @ + n]
    BY <2>1, <2>3, <2>4, Zenon DEF Ledger
  <2>5. CASE ledger' = [s EXCEPT !.page_pool_bytes = @ - Allocation[k]]
    BY <2>1, <2>3, <2>5 DEF Ledger
  <2> QED BY <1>3, <2>2, <2>4, <2>5, SMTT(30)
<1>8. metrics' \in [speculative : Nat, useful_prefetch : Nat, wasted_prefetch : Nat]
  <2>1. metrics' = metrics \/ metrics' = [metrics EXCEPT !.speculative = @ + 1]
    BY <1>5, Zenon
  <2>2. metrics \in [speculative : Nat, useful_prefetch : Nat, wasted_prefetch : Nat]
    BY <1>3, Zenon
  <2> HIDE DEF e, n, k
  <2> QED BY <2>1, <2>2
<1>9. workers' \in [Workers -> Worker]
  <2>1. [workers[w] EXCEPT !.st = "sending", !.ok = Publishes(e, workers[w].ok), !.out = e.waiters] \in Worker
    BY <1>1, <1>2, <1>3, ZenonT(60) DEF Worker, Publishes, Entry, Typed, TypeOK
  <2>2. Parked \in Worker
    BY DEF Worker
  <2>3. \/ workers' = [workers EXCEPT ![w] = Parked]
        \/ workers' = [workers EXCEPT ![w] = [workers[w] EXCEPT !.st = "sending", !.ok = Publishes(e, workers[w].ok), !.out = e.waiters]]
    BY ZenonT(60) DEF Complete
  <2> QED BY <2>1, <2>2, <2>3, Zenon DEF Typed, TypeOK
<1>10. requested' \in [Keys -> Nat]
  BY <1>3, AccessType, ZenonT(60) DEF Complete, NoAccess
<1>11. cancelled' \subseteq Nat
  BY DEF Typed, TypeOK, Complete
<1> QED BY <1>6, <1>7, <1>8, <1>9, <1>10, <1>11, SMTT(30) DEF Typed, TypeOK, Complete

(* A task that is not idle and moves on stays a task.                       *)
LEMMA TaskMoves ==
  ASSUME NEW t \in Task, t.st # "idle",
         NEW s \in {"hit", "marked", "waiting", "withdrawn", "abandoned", "holding", "dropping"},
         NEW c \in {"empty", "lease", "error"}
  PROVE  /\ [t EXCEPT !.st = s] \in Task /\ [t EXCEPT !.channel = c] \in Task
         /\ [t EXCEPT !.st = s, !.channel = c] \in Task
         /\ [t EXCEPT !.st = s, !.waiter = 0, !.channel = c] \in Task
<1> DEFINE Busy == [st : {"hit", "marked", "waiting", "withdrawn", "abandoned", "holding",
                          "dropping"},
                    key : Keys, generation : Nat, waiter : Nat,
                    channel : {"empty", "lease", "error"}]
<1>1. t \in Busy /\ Busy \subseteq Task
  BY DEF Task, Idle
<1>2. [t EXCEPT !.st = s] \in Busy /\ [t EXCEPT !.channel = c] \in Busy
  BY <1>1
<1>3. [t EXCEPT !.st = s, !.channel = c] \in Busy
  BY <1>1, Zenon
<1>4. [t EXCEPT !.st = s, !.waiter = 0, !.channel = c] \in Busy
  BY <1>1, Zenon
<1> QED BY <1>1, <1>2, <1>3, <1>4, Zenon

(* Dropping a channel with what it holds.                                   *)
LEMMA DropChannelType ==
  ASSUME Typed, NEW t \in Tasks, tasks[t].st # "idle", NEW next \in Task, DropChannel(t, next)
  PROVE  Typed'
<1>1. tasks[t] \in Task /\ tasks[t].key \in Keys /\ tick' \in Nat
  BY ActorTypes DEF Typed, TypeOK, DropChannel
<1>2. tasks' \in [Tasks -> Task]
  <2>1. [tasks[t] EXCEPT !.st = "dropping", !.waiter = 0, !.channel = "empty"] \in Task
    BY <1>1, TaskMoves, Zenon
  <2>2. \/ tasks' = [tasks EXCEPT ![t] = next]
        \/ tasks' = [tasks EXCEPT ![t] = [tasks[t] EXCEPT !.st = "dropping", !.waiter = 0, !.channel = "empty"]]
    BY DEF DropChannel
  <2> QED BY <2>1, <2>2, SMTT(30) DEF Typed, TypeOK
<1>3. CASE UNCHANGED <<entries, ledger, metrics, requested>>
  BY <1>2, <1>3 DEF Typed, TypeOK, WaitersFinite, DropChannel, readerVars
<1>4. CASE ReleaseLease(tasks[t].key, tasks[t].generation)
  BY <1>1, <1>2, <1>4, ReleaseType, Zenon DEF Typed, TypeOK, DropChannel, readerVars
<1> QED BY <1>3, <1>4 DEF DropChannel

(* A delivery changes only the channel of a task that waits.                *)
LEMMA DeliverType ==
  ASSUME Typed, NEW i, NEW what \in {"lease", "error"}, Deliver(i, what)
  PROVE  tasks' \in [Tasks -> Task]
<1>1. \A t \in Receiver(i) : [tasks[t] EXCEPT !.channel = what] \in Task
  <2> TAKE t \in Receiver(i)
  <2>1. tasks[t] \in Task /\ tasks[t].st # "idle"
    BY DEF Receiver, Typed, TypeOK
  <2> QED BY <2>1, TaskMoves, Zenon
<1> QED BY <1>1 DEF Deliver, Typed, TypeOK

(* A waiter's completion is sent.                                           *)
LEMMA SendType ==
  ASSUME Typed, NEW w \in Workers, NEW i \in workers[w].out, Send(w, i)
  PROVE  Typed'
<1> DEFINE rest == workers[w].out \ {i}
<1>1. workers[w] \in Worker /\ workers[w].st # "parked" /\ tick' \in Nat
  BY DEF Typed, TypeOK, Send
<1>2. workers[w].key \in Keys /\ workers[w].out \subseteq Nat
  BY <1>1, ActorTypes
<1>3. tasks' \in [Tasks -> Task]
  BY DeliverType DEF Send
<1>4. workers' \in [Workers -> Worker]
  <2>1. /\ [workers[w] EXCEPT !.out = rest] \in Worker
        /\ [workers[w] EXCEPT !.st = "dropping", !.out = rest] \in Worker
        /\ Parked \in Worker
    <3> DEFINE Busy == [st : {"reading", "read", "sending", "dropping"}, key : Keys,
                        generation : Nat, ok : BOOLEAN, out : SUBSET Nat]
    <3>1. workers[w] \in Busy /\ Busy \subseteq Worker /\ Parked \in Worker
      BY <1>1 DEF Worker, Parked
    <3>2. rest \in SUBSET Nat
      BY <1>2
    <3>3. [workers[w] EXCEPT !.out = rest] \in Busy
      BY <3>1, <3>2
    <3>4. [workers[w] EXCEPT !.st = "dropping", !.out = rest] \in Busy
      BY <3>1, <3>2, Zenon
    <3> QED BY <3>1, <3>3, <3>4, Zenon
  <2>2. \/ workers' = [workers EXCEPT ![w] = [workers[w] EXCEPT !.st = "dropping", !.out = rest]]
        \/ workers' = [workers EXCEPT ![w] = [workers[w] EXCEPT !.out = rest]]
        \/ workers' = [workers EXCEPT ![w] = Parked]
    BY Zenon DEF Send
  <2> QED BY <2>1, <2>2, Zenon DEF Typed, TypeOK
<1>5. CASE UNCHANGED <<entries, ledger, metrics, requested>>
  BY <1>3, <1>4, <1>5 DEF Typed, TypeOK, WaitersFinite, Send
<1>6. CASE ReleaseLease(workers[w].key, workers[w].generation)
  BY <1>1, <1>2, <1>3, <1>4, <1>6, ReleaseType, Zenon DEF Typed, TypeOK, Send
<1> QED BY <1>5, <1>6 DEF Send

(* Every action preserves the types.                                        *)
LEMMA TypeStep == Typed /\ [Next]_vars => Typed'
<1> SUFFICES ASSUME Typed, [Next]_vars PROVE Typed'
  OBVIOUS
<1>0. /\ entries \in [Keys -> Entry] /\ WaitersFinite /\ ledger \in Ledger
      /\ generation \in Nat /\ waiter \in Nat /\ tick \in Nat
      /\ queue \in Seq(Job) /\ workers \in [Workers -> Worker] /\ tasks \in [Tasks -> Task]
      /\ metrics \in [speculative : Nat, useful_prefetch : Nat, wasted_prefetch : Nat]
      /\ Idle \in Task /\ Parked \in Worker
  BY ActorTypes DEF Typed, TypeOK
<1>1. ASSUME NEW t \in Tasks, NEW k \in Keys, GetHit(t, k) PROVE Typed'
  <2>1. entries[k] \in Entry /\ IsFiniteSet(entries[k].waiters) /\ tick' \in Nat
    BY <1>0, <1>1 DEF WaitersFinite, GetHit
  <2>2. Leased(entries[k], tick') \in Entry /\ IsFiniteSet(Leased(entries[k], tick').waiters)
    BY <2>1, LeasedType
  <2>3. entries' \in [Keys -> Entry] /\ WaitersFinite'
    BY <1>1, <2>2, EntriesUpdate, Zenon DEF GetHit
  <2>4. ledger' \in Ledger
    <3>1. ledger' = [ledger EXCEPT !.leases = @ + 1] /\ ledger \in Ledger
      BY <1>0, <1>1 DEF GetHit
    <3> QED BY <3>1 DEF Ledger
  <2>5. tasks' \in [Tasks -> Task]
    <3>1. entries[k].generation \in Nat
      BY <2>1 DEF Entry
    <3>2. [Idle EXCEPT !.st = "hit", !.key = k, !.generation = entries[k].generation] \in Task
      BY <3>1, ZenonT(60) DEF Task, Idle
    <3> QED BY <1>0, <1>1, <3>2 DEF GetHit
  <2>6. requested' \in [Keys -> Nat]
    BY <1>1, <2>1, AccessType, SMTT(30) DEF GetHit
  <2> QED BY <1>1, <2>1, <2>3, <2>4, <2>5, <2>6, SMTT(30) DEF Typed, TypeOK, GetHit, readerVars
<1>2. ASSUME NEW t \in Tasks, NEW k \in Keys, GetJoin(t, k) PROVE Typed'
  <2>1. /\ entries[k] \in Entry /\ IsFiniteSet(entries[k].waiters)
        /\ tick' \in Nat /\ waiter' \in Nat
    BY <1>0, <1>2 DEF WaitersFinite, GetJoin
  <2>2. /\ Joined(entries[k], waiter', tick') \in Entry
        /\ IsFiniteSet(Joined(entries[k], waiter', tick').waiters)
    BY <2>1, JoinedType
  <2>3. entries' \in [Keys -> Entry] /\ WaitersFinite'
    BY <1>2, <2>2, EntriesUpdate, Zenon DEF GetJoin
  <2>4. ledger' \in Ledger
    <3>1. ledger.waiters + 1 \in Int /\ ledger.lease_reservations + 1 \in Int
      BY <1>0 DEF Ledger
    <3>2. ledger' = [ledger EXCEPT !.waiters = @ + 1, !.lease_reservations = @ + 1]
      BY <1>2 DEF GetJoin
    <3> QED BY <1>0, <3>1, <3>2, Zenon DEF Ledger
  <2>5. tasks' \in [Tasks -> Task]
    <3>1. entries[k].generation \in Nat
      BY <2>1 DEF Entry
    <3>2. [Idle EXCEPT !.st = "waiting", !.key = k, !.generation = entries[k].generation,
                       !.waiter = waiter'] \in Task
      BY <2>1, <3>1, Zenon DEF Task, Idle
    <3> QED BY <1>0, <1>2, <3>2 DEF GetJoin
  <2>6. requested' \in [Keys -> Nat]
    BY <1>2, <2>1, AccessType DEF GetJoin
  <2> QED BY <1>2, <2>1, <2>3, <2>4, <2>5, <2>6, SMTT(30) DEF Typed, TypeOK, GetJoin, readerVars
<1>3. ASSUME NEW t \in Tasks, NEW k \in Keys, GetMiss(t, k) PROVE Typed'
  <2>1. PICK V \in VictimPlans(k) : StartLoad(k, V, {waiter'}, "demand")
    BY <1>3 DEF GetMiss
  <2>2. waiter' \in Nat /\ IsFiniteSet({waiter'}) /\ {waiter'} \in SUBSET Nat
    <3>1. waiter' \in Nat
      BY <1>0, <1>3 DEF GetMiss
    <3> QED BY <3>1, FS_Singleton, Zenon
  <2>3. /\ entries' \in [Keys -> Entry] /\ WaitersFinite'
        /\ ledger' \in Ledger /\ generation' \in Nat /\ tick' \in Nat
        /\ queue' \in Seq(Job)
        /\ metrics' \in [speculative : Nat, useful_prefetch : Nat, wasted_prefetch : Nat]
        /\ requested' \in [Keys -> Nat]
    BY <2>1, <2>2, StartType
  <2>4. tasks' \in [Tasks -> Task]
    <3>1. [Idle EXCEPT !.st = "waiting", !.key = k, !.generation = generation',
                       !.waiter = waiter'] \in Task
      BY <2>2, <2>3, Zenon DEF Task, Idle
    <3> QED BY <1>0, <1>3, <3>1 DEF GetMiss
  <2> QED BY <2>1, <2>2, <2>3, <2>4, Zenon DEF Typed, TypeOK, StartLoad
<1>4. ASSUME NEW k \in Keys, GetUnwound(k) \/ PrefetchUnwound(k) PROVE Typed'
  <2>1. PICK V \in VictimPlans(k) : UnwindLoad(k, V)
    BY <1>4 DEF GetUnwound, PrefetchUnwound
  <2>2. waiter' \in Nat
    BY <1>0, <1>4 DEF GetUnwound, PrefetchUnwound
  <2> QED BY <2>1, <2>2, UnwindType
<1>5. ASSUME GetRefused \/ \E k \in Keys : GetDenied(k) \/ PrefetchDropped(k) PROVE Typed'
  <2>1. generation' \in Nat /\ waiter' \in Nat /\ tick' \in Nat
    BY <1>0, <1>5, SMTT(30) DEF GetDenied, GetRefused, PrefetchDropped
  <2>2. UNCHANGED <<entries, ledger, shutdown, cancelled, readerVars, tasks, failing, metrics,
                    requested>>
    BY <1>5 DEF GetDenied, GetRefused, PrefetchDropped
  <2> QED BY <2>1, <2>2 DEF Typed, TypeOK, WaitersFinite, readerVars
<1>6. ASSUME NEW k \in Keys, PrefetchCoalesce(k) PROVE Typed'
  <2>1. entries[k] \in Entry /\ IsFiniteSet(entries[k].waiters)
    BY <1>0 DEF WaitersFinite
  <2>2. /\ [entries[k] EXCEPT !.prefetch_interest = TRUE] \in Entry
        /\ [entries[k] EXCEPT !.prefetch_interest = TRUE].waiters = entries[k].waiters
    BY <2>1, Zenon DEF Entry
  <2>3. IsFiniteSet([entries[k] EXCEPT !.prefetch_interest = TRUE].waiters)
    BY <2>1, <2>2, Zenon
  <2>4. entries' = [entries EXCEPT ![k] = [entries[k] EXCEPT !.prefetch_interest = TRUE]]
    BY <1>0, <1>6 DEF PrefetchCoalesce
  <2>5. entries' \in [Keys -> Entry] /\ WaitersFinite'
    BY <2>2, <2>3, <2>4, EntriesUpdate, Zenon
  <2> QED BY <1>6, <2>5 DEF Typed, TypeOK, PrefetchCoalesce, readerVars
<1>7. ASSUME NEW k \in Keys, PrefetchStart(k) PROVE Typed'
  <2>1. PICK V \in VictimPlans(k) : StartLoad(k, V, {}, "prefetch")
    BY <1>7 DEF PrefetchStart
  <2>2. /\ entries' \in [Keys -> Entry] /\ WaitersFinite'
        /\ ledger' \in Ledger /\ generation' \in Nat /\ tick' \in Nat
        /\ queue' \in Seq(Job)
        /\ metrics' \in [speculative : Nat, useful_prefetch : Nat, wasted_prefetch : Nat]
        /\ requested' \in [Keys -> Nat]
    BY <2>1, FS_EmptySet, StartType, SMTT(30)
  <2> QED BY <1>7, <2>1, <2>2, Zenon DEF Typed, TypeOK, StartLoad, PrefetchStart
<1>8. ASSUME NEW t \in Tasks, MarkPrefetchUse(t) PROVE Typed'
  <2> DEFINE k == tasks[t].key
  <2>1. tasks[t] \in Task /\ tasks[t].st # "idle" /\ k \in Keys
    BY <1>0, <1>8, ActorTypes DEF MarkPrefetchUse
  <2>2. [tasks[t] EXCEPT !.st = "marked"] \in Task /\ [tasks[t] EXCEPT !.st = "holding"] \in Task
    BY <2>1, TaskMoves, Zenon
  <2>3. \/ tasks' = [tasks EXCEPT ![t] = [tasks[t] EXCEPT !.st = "marked"]]
        \/ tasks' = [tasks EXCEPT ![t] = [tasks[t] EXCEPT !.st = "holding"]]
    BY <1>0, <1>8, Zenon DEF MarkPrefetchUse
  <2>4. tasks' \in [Tasks -> Task]
    BY <1>0, <2>2, <2>3
  <2>5. entries[k] \in Entry /\ IsFiniteSet(entries[k].waiters)
    BY <1>0, <2>1 DEF WaitersFinite
  <2>6. /\ [entries[k] EXCEPT !.prefetched_unused = FALSE] \in Entry
        /\ [entries[k] EXCEPT !.prefetched_unused = FALSE].waiters = entries[k].waiters
    BY <2>5, Zenon DEF Entry
  <2>7. IsFiniteSet([entries[k] EXCEPT !.prefetched_unused = FALSE].waiters)
    BY <2>5, <2>6, Zenon
  <2>8. \/ entries' = entries
        \/ entries' = [entries EXCEPT ![k] = [entries[k] EXCEPT !.prefetched_unused = FALSE]]
    BY <1>0, <1>8, <2>1, SMTT(30) DEF MarkPrefetchUse
  <2>9. entries' \in [Keys -> Entry] /\ WaitersFinite'
    <3>1. CASE entries' = entries
      BY <1>0, <3>1, SMTT(30) DEF WaitersFinite
    <3>2. CASE entries' = [entries EXCEPT ![k] = [entries[k] EXCEPT !.prefetched_unused = FALSE]]
      BY <2>1, <2>6, <2>7, <3>2, EntriesUpdate, Zenon
    <3> QED BY <2>8, <3>1, <3>2
  <2> QED BY <1>8, <2>4, <2>9, SMTT(30) DEF Typed, TypeOK, MarkPrefetchUse, readerVars
<1>9. ASSUME NEW t \in Tasks, CountUse(t) PROVE Typed'
  <2>1. tasks[t] \in Task /\ tasks[t].st # "idle"
    BY <1>0, <1>9 DEF CountUse
  <2>2. [tasks[t] EXCEPT !.st = "holding"] \in Task
    BY <2>1, TaskMoves, Zenon
  <2>3. tasks' \in [Tasks -> Task]
    BY <1>0, <1>9, <2>2 DEF CountUse
  <2>4. metrics' \in [speculative : Nat, useful_prefetch : Nat, wasted_prefetch : Nat]
    <3>1. /\ metrics \in [speculative : Nat, useful_prefetch : Nat, wasted_prefetch : Nat]
          /\ metrics' = [metrics EXCEPT !.useful_prefetch = @ + 1]
      BY <1>0, <1>9 DEF CountUse
    <3> QED BY <3>1
  <2> QED BY <1>9, <2>3, <2>4, SMTT(30) DEF Typed, TypeOK, WaitersFinite, CountUse, cacheVars, readerVars
<1>10. ASSUME NEW t \in Tasks, Poll(t) PROVE Typed'
  <2>1. tasks[t] \in Task /\ tasks[t].st # "idle"
    BY <1>0, <1>10 DEF Poll
  <2>2. [tasks[t] EXCEPT !.st = "holding", !.waiter = 0, !.channel = "empty"] \in Task
    BY <2>1, TaskMoves, Zenon
  <2>3. tasks' \in [Tasks -> Task]
    BY <1>0, <1>10, <2>2, SMTT(30) DEF Poll
  <2> QED BY <1>10, <2>3 DEF Typed, TypeOK, WaitersFinite, Poll, cacheVars, readerVars
<1>11. ASSUME NEW t \in Tasks, Withdraw(t) \/ WithdrawAbandoned(t) PROVE Typed'
  <2>1. tasks[t] \in Task /\ tasks[t].st # "idle"
    BY <1>0, <1>11 DEF Withdraw, WithdrawAbandoned
  <2>2. tasks[t].key \in Keys /\ tasks[t].generation \in Nat /\ tasks[t].waiter \in Nat
    BY <2>1, ActorTypes
  <2>3. WithdrawWaiter(tasks[t].key, tasks[t].generation, tasks[t].waiter)
    BY <1>11 DEF Withdraw, WithdrawAbandoned
  <2>4. /\ entries' \in [Keys -> Entry] /\ WaitersFinite'
        /\ ledger' \in Ledger /\ cancelled' \subseteq Nat
    BY <2>2, <2>3, WithdrawType
  <2>5. [tasks[t] EXCEPT !.st = "withdrawn"] \in Task
    BY <2>1, TaskMoves, Zenon
  <2>6. tasks' \in [Tasks -> Task]
    BY <1>0, <1>11, <2>5, SMTT(30) DEF Withdraw, WithdrawAbandoned
  <2> QED BY <2>3, <2>4, <2>6 DEF Typed, TypeOK, WithdrawWaiter, readerVars
<1>12. ASSUME NEW t \in Tasks, DropReceiver(t) PROVE Typed'
  BY <1>0, <1>12, DropChannelType DEF DropReceiver
<1>13. ASSUME NEW t \in Tasks, Abandon(t) PROVE Typed'
  <2>1. tasks[t] \in Task /\ tasks[t].st # "idle"
    BY <1>0, <1>13 DEF Abandon
  <2>2. [tasks[t] EXCEPT !.st = "abandoned", !.channel = "empty"] \in Task
    BY <2>1, TaskMoves, Zenon
  <2> QED BY <1>13, <2>1, <2>2, DropChannelType DEF Abandon
<1>14. ASSUME NEW t \in Tasks, DropLease(t) PROVE Typed'
  <2>1. tasks[t] \in Task /\ tasks[t].st # "idle" /\ tick' \in Nat
    BY <1>0, <1>14 DEF DropLease
  <2>2. tasks[t].key \in Keys /\ [tasks[t] EXCEPT !.st = "dropping"] \in Task
    BY <2>1, ActorTypes, TaskMoves, Zenon
  <2>3. tasks' \in [Tasks -> Task]
    BY <1>0, <1>14, <2>2 DEF DropLease
  <2>4. ReleaseLease(tasks[t].key, tasks[t].generation)
    BY <1>14 DEF DropLease
  <2>5. /\ entries' \in [Keys -> Entry] /\ WaitersFinite'
        /\ ledger' \in Ledger
        /\ metrics' \in [speculative : Nat, useful_prefetch : Nat, wasted_prefetch : Nat]
        /\ requested' \in [Keys -> Nat]
    BY <2>1, <2>2, <2>4, ReleaseType, SMTT(30)
  <2> QED BY <1>14, <2>3, <2>5, SMTT(30) DEF Typed, TypeOK, DropLease, readerVars
<1>15. ASSUME NEW t \in Tasks, DropPayload(t) PROVE Typed'
  BY <1>0, <1>15, SMTT(30) DEF Typed, TypeOK, WaitersFinite, DropPayload, cacheVars, readerVars
<1>16. ASSUME NEW i \in failing, FailWaiter(i) PROVE Typed'
  <2>1. tasks' \in [Tasks -> Task]
    BY <1>16, DeliverType DEF FailWaiter
  <2> QED BY <1>16, <2>1 DEF Typed, TypeOK, WaitersFinite, FailWaiter, cacheVars, readerVars
<1>17. ASSUME CloseReader PROVE Typed'
  BY <1>17, Zenon DEF Typed, TypeOK, WaitersFinite, CloseReader, cacheVars
<1>18. ASSUME NEW w \in Workers, Dequeue(w) PROVE Typed'
  <2>1. Head(queue) \in Job /\ Tail(queue) \in Seq(Job)
    BY <1>0, <1>18 DEF Dequeue
  <2>2. [Parked EXCEPT !.st = "reading", !.key = Head(queue).key,
                       !.generation = Head(queue).generation] \in Worker
    BY <2>1, Zenon DEF Job, Worker, Parked
  <2>3. workers' \in [Workers -> Worker] /\ queue' \in Seq(Job)
    BY <1>0, <1>18, <2>1, <2>2, SMTT(30) DEF Dequeue
  <2> QED BY <1>18, <2>3 DEF Typed, TypeOK, WaitersFinite, Dequeue, cacheVars
<1>19. ASSUME NEW w \in Workers, Read(w) PROVE Typed'
  <2>1. PICK ok \in BOOLEAN : workers' = [workers EXCEPT ![w].st = "read", ![w].ok = ok]
    BY <1>19, Zenon DEF Read
  <2>2. workers[w] \in Worker /\ workers[w].st = "reading"
    BY <1>0, <1>19 DEF Read
  <2>3. [workers[w] EXCEPT !.st = "read", !.ok = ok] \in Worker
    <3> DEFINE Busy == [st : {"reading", "read", "sending", "dropping"}, key : Keys,
                        generation : Nat, ok : BOOLEAN, out : SUBSET Nat]
    <3>1. workers[w] \in Busy /\ Busy \subseteq Worker
      BY <2>2 DEF Worker, Parked
    <3>2. [workers[w] EXCEPT !.st = "read", !.ok = ok] \in Busy
      BY <3>1, Zenon
    <3> QED BY <3>1, <3>2, Zenon
  <2>4. workers' = [workers EXCEPT ![w] = [workers[w] EXCEPT !.st = "read", !.ok = ok]]
    BY <1>0, <2>1, ZenonT(60)
  <2>5. workers' \in [Workers -> Worker]
    BY <1>0, <2>3, <2>4
  <2> QED BY <1>19, <2>5 DEF Typed, TypeOK, WaitersFinite, Read, cacheVars
<1>20. ASSUME NEW w \in Workers, DropReturned(w) PROVE Typed'
  <2>1. workers[w] \in Worker /\ workers[w].st = "dropping"
    BY <1>0, <1>20 DEF DropReturned
  <2>2. [workers[w] EXCEPT !.st = "sending"] \in Worker
    BY <2>1 DEF Worker, Parked
  <2>3. workers' \in [Workers -> Worker]
    BY <1>0, <1>20, <2>2, SMTT(30) DEF DropReturned
  <2> QED BY <1>20, <2>3 DEF Typed, TypeOK, WaitersFinite, DropReturned, cacheVars
<1>21. ASSUME UNCHANGED vars PROVE Typed'
  BY <1>21 DEF Typed, TypeOK, WaitersFinite, vars, cacheVars, readerVars
<1>22. CASE GetStep
  BY <1>1, <1>2, <1>3, <1>4, <1>5, <1>22, SMTT(30) DEF GetStep
<1>23. CASE PrefetchStep
  BY <1>4, <1>5, <1>6, <1>7, <1>23, SMTT(30) DEF PrefetchStep
<1>24. ASSUME NEW t \in Tasks, TaskStep(t) PROVE Typed'
  BY <1>8, <1>9, <1>10, <1>11, <1>12, <1>13, <1>14, <1>15, <1>24, SMTT(30) DEF TaskStep
<1>25. CASE ShutdownStep
  BY <1>16, <1>25, ShutdownType, SMTT(30) DEF ShutdownStep
<1>26. ASSUME NEW w \in Workers, WorkerStep(w) PROVE Typed'
  BY <1>18, <1>19, <1>20, <1>26, CompleteType, SendType, SMTT(30) DEF WorkerStep
<1> QED BY <1>17, <1>21, <1>22, <1>23, <1>24, <1>25, <1>26, InvalidateType, SMTT(30) DEF Next
==============================================================================

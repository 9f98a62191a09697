--------------------------- MODULE PageCacheProofs ---------------------------
(* What holds of the page cache in every configuration.                     *)
EXTENDS PageCacheTypeProofs, PageCacheBudgetProofs, PageCacheFlightProofs

(* The inductive invariant.                                                 *)
Inv == Typed /\ Budget /\ QueueBounded

(* The empty cache satisfies the invariant.                                 *)
LEMMA InitInv == Init => Inv
<1> SUFFICES ASSUME Init PROVE Inv
  OBVIOUS
<1>1. Absent \in Entry /\ Absent.waiters = {} /\ Absent.st = "absent"
  BY DEF Absent, Entry
<1>2. entries \in [Keys -> Entry] /\ WaitersFinite
  BY <1>1, FS_EmptySet, Zenon DEF Init, WaitersFinite
<1>3. workers \in [Workers -> Worker] /\ tasks \in [Tasks -> Task]
  BY SMTT(30) DEF Init, Worker, Task
<1>4. Typed
  <2>1. ledger \in Ledger
    BY SMTT(30) DEF Init, Ledger
  <2>2. queue \in Seq(Job) /\ requested \in [Keys -> Nat]
    BY DEF Init
  <2> QED BY <1>2, <1>3, <2>1, <2>2, Zenon DEF Init, Typed, TypeOK
<1>5. /\ InState("loading") = {} /\ InState("resident") = {} /\ InState("retiring") = {}
      /\ Present = {}
  BY <1>1 DEF Init, InState, Present
<1>6. /\ ChargeOf(InState("loading")) = 0 /\ ChargeOf(InState("resident")) = 0
      /\ ChargeOf(InState("retiring")) = 0 /\ Cardinality(InState("loading")) = 0
      /\ Cardinality(Present) = 0
  BY <1>5, ChargeEmpty, FS_EmptySet, Zenon
<1>7. Budget
  BY <1>6, CacheConfigValid, SMTT(30) DEF Init, Budget, ChargesExact
<1>8. QueueBounded
  BY CacheConfigValid, SMTT(30) DEF Init, QueueBounded
<1> QED BY <1>4, <1>7, <1>8, SMTT(30) DEF Inv

(* The invariant holds of every behaviour.                                  *)
LEMMA InvHolds == Spec => []Inv
<1>1. Inv /\ [Next]_vars => Inv'
  BY TypeStep, BudgetStep, QueueStep DEF Inv
<1> QED BY <1>1, InitInv, PTL DEF Spec

(* PageCache: every variable keeps its type: whatever get, prefetch,        *)
(* withdrawals, completions and shutdown do in whatever order, in           *)
(* particular no lease count and no prefetch counter becomes negative.      *)
THEOREM TypeCorrect == Spec => []TypeOK
<1>1. Inv => TypeOK
  BY DEF Inv, Typed
<1> QED BY <1>1, InvHolds, PTL

(* PageCache: the byte ledger is exact.                                     *)
THEOREM ChargesCorrect == Spec => []ChargesExact
<1>1. Inv => ChargesExact
  BY SMTT(30) DEF Inv, Budget
<1> QED BY <1>1, InvHolds, PTL

(* PageCache: no configured ceiling is ever exceeded.                       *)
THEOREM CapacityCorrect == Spec => []CapacityRespected
<1>1. Inv => CapacityRespected
  BY SMTT(30) DEF Inv, Budget, QueueBounded, CapacityRespected
<1> QED BY <1>1, InvHolds, PTL
-----------------------------------------------------------------------------
(* The inductive invariant of the second part: entries, requests and tokens  *)
(* agree.                                                                    *)

(* The budget invariant and the flight invariant are preserved together.     *)
LEMMA FlightHolds == Spec => [](Inv /\ FlightInv)
<1>1. (Inv /\ FlightInv) /\ [Next]_vars => (Inv /\ FlightInv)'
  BY TypeStep, BudgetStep, QueueStep, FlightStep, SMTT(30) DEF Inv
<1> QED  BY <1>1, InitInv, InitFlight, PTL DEF Spec

(* One request per load, counted.                                            *)
LEMMA FlightCounted ==
  ASSUME Typed, Flight
  PROVE  SingleFlight
<1>1. ASSUME NEW k \in InState("loading")
      PROVE  Cardinality({i \in DOMAIN queue : queue[i].key = k})
             + Cardinality({w \in Workers : Running(w) /\ workers[w].key = k}) = 1
  <2> DEFINE Q == {i \in DOMAIN queue : queue[i].key = k}
             R == {w \in Workers : Running(w) /\ workers[w].key = k}
  <2>1. k \in Keys /\ entries[k].st = "loading"
    BY <1>1 DEF InState
  <2>2. Cardinality({}) = 0
    BY FS_EmptySet
  <2>a. Cardinality(Q) = 1 /\ Cardinality(R) = 0 => Cardinality(Q) + Cardinality(R) = 1
    OBVIOUS
  <2>b. Cardinality(R) = 1 /\ Cardinality(Q) = 0 => Cardinality(Q) + Cardinality(R) = 1
    OBVIOUS
  <2>3. CASE \E i \in DOMAIN queue : queue[i].key = k
    <3>1. PICK i \in DOMAIN queue : queue[i].key = k
      BY <2>3
    <3>2. Q = {i} /\ R = {}
      BY <3>1 DEF Flight
    <3>3. Cardinality({i}) = 1
      BY FS_Singleton, Zenon
    <3> QED  BY <2>a, <2>2, <3>2, <3>3, Zenon
  <2>4. CASE \E w \in Workers : Running(w) /\ workers[w].key = k
    <3>1. PICK w \in Workers : Running(w) /\ workers[w].key = k
      BY <2>4
    <3>2. R = {w} /\ Q = {}
      BY <3>1 DEF Flight
    <3>3. Cardinality({w}) = 1
      BY FS_Singleton, ZenonT(60)
    <3> QED  BY <2>b, <2>2, <3>2, <3>3, Zenon
  <2> QED  BY <2>1, <2>3, <2>4 DEF Flight
<1> QED  BY <1>1 DEF SingleFlight, Flight, LoadOf

(* PageCache: one physical load per loading page and no other: complete_load *)
(* always finds the entry and the generation its request was submitted for.  *)
THEOREM FlightsCorrect == Spec => []SingleFlight
<1>1. Inv /\ FlightInv => SingleFlight
  BY FlightCounted DEF Inv, FlightInv
<1> QED  BY <1>1, FlightHolds, PTL

-----------------------------------------------------------------------------
(* The steps of PageLifecycle, page by page.                                 *)

PagesKept(S) ==
  \A k \in Keys \ S : /\ entries'[k].st = entries[k].st
                      /\ entries'[k].leases = entries[k].leases

(* A step that changes no state and no count of leases is a stutter.         *)
LEMMA QuietStep ==
  ASSUME PagesKept({}), shutdown' = shutdown
  PROVE  UNCHANGED Abstract!lifecycleVars
BY DEF PagesKept, Abstract!lifecycleVars

(* Unleased residents that go are one Discard.                               *)
LEMMA DiscardStep ==
  ASSUME NEW V \in SUBSET Keys, PagesKept(V), shutdown' = shutdown,
         \A k \in V : /\ entries[k].st = "resident" /\ entries[k].leases = 0
                      /\ entries'[k].st = "absent" /\ entries'[k].leases = 0
  PROVE  Abstract!NextLifecycle
<1>1. Abstract!Discard(V)
  BY DEF PagesKept, Abstract!Discard, Abstract!Unleased, Abstract!In
<1> QED  BY <1>1 DEF Abstract!NextLifecycle

(* A step on one page: publication, failure, lease, release or retirement.   *)
LEMMA OnePageStep ==
  ASSUME NEW k \in Keys, PagesKept({k}), shutdown' = shutdown,
         \/ /\ ~shutdown /\ entries[k].st = "loading" /\ entries'[k].st = "resident"
            /\ entries'[k].leases \in Nat
         \/ /\ entries[k].st = "loading" /\ entries'[k].st = "absent"
            /\ entries'[k].leases = entries[k].leases
         \/ /\ ~shutdown /\ entries[k].st = "resident" /\ entries'[k].st = "resident"
            /\ entries'[k].leases = entries[k].leases + 1
         \/ /\ entries[k].leases > 0 /\ entries'[k].leases = entries[k].leases - 1
            /\ entries'[k].st = IF entries[k].st = "retiring" /\ entries[k].leases = 1
                                THEN "absent" ELSE entries[k].st
         \/ /\ entries[k].st = "resident" /\ entries[k].leases > 0
            /\ entries'[k].st = "retiring" /\ entries'[k].leases = entries[k].leases
  PROVE  Abstract!NextLifecycle
<1>1. CASE /\ ~shutdown /\ entries[k].st = "loading" /\ entries'[k].st = "resident"
           /\ entries'[k].leases \in Nat
  <2>1. Abstract!Publish(k)
    BY <1>1, Zenon DEF PagesKept, Abstract!Publish
  <2> QED  BY <2>1 DEF Abstract!NextLifecycle
<1>2. CASE /\ entries[k].st = "loading" /\ entries'[k].st = "absent"
           /\ entries'[k].leases = entries[k].leases
  <2>1. Abstract!Fail(k)
    BY <1>2, ZenonT(60) DEF PagesKept, Abstract!Fail
  <2> QED  BY <2>1 DEF Abstract!NextLifecycle
<1>3. CASE /\ ~shutdown /\ entries[k].st = "resident" /\ entries'[k].st = "resident"
           /\ entries'[k].leases = entries[k].leases + 1
  <2>1. Abstract!Lease(k)
    BY <1>3, Zenon DEF PagesKept, Abstract!Lease
  <2> QED  BY <2>1 DEF Abstract!NextLifecycle
<1>4. CASE /\ entries[k].leases > 0 /\ entries'[k].leases = entries[k].leases - 1
           /\ entries'[k].st = IF entries[k].st = "retiring" /\ entries[k].leases = 1
                               THEN "absent" ELSE entries[k].st
  <2>1. Abstract!Release(k)
    BY <1>4, Zenon DEF PagesKept, Abstract!Release
  <2> QED  BY <2>1 DEF Abstract!NextLifecycle
<1>5. CASE /\ entries[k].st = "resident" /\ entries[k].leases > 0
           /\ entries'[k].st = "retiring" /\ entries'[k].leases = entries[k].leases
  <2>1. Abstract!Retire(k)
    BY <1>5, ZenonT(60) DEF PagesKept, Abstract!Retire
  <2> QED  BY <2>1 DEF Abstract!NextLifecycle
<1> QED  BY <1>1, <1>2, <1>3, <1>4, <1>5, SMTT(30)

(* The pages of all states together are charged what the ledger says.        *)
LEMMA PresentCharge ==
  ASSUME Typed', ChargesExact'
  PROVE  /\ ChargeOf(Present') = ledger'.page_pool_bytes
         /\ ChargeOf(InState("loading")') = ledger'.inflight_bytes
<1> DEFINE L == InState("loading")'
           R == InState("resident")'
           T == InState("retiring")'
<1>1. /\ L \in SUBSET Keys /\ R \in SUBSET Keys /\ T \in SUBSET Keys
      /\ L \cap R = {} /\ (L \cup R) \cap T = {}
  BY DEF InState
<1>2. Present' = (L \cup R) \cup T
  <2>1. \A k \in Keys : entries'[k].st \in {"absent", "loading", "resident", "retiring"}
    BY DEF Typed, TypeOK, Entry
  <2> QED  BY <2>1 DEF Present, InState
<1>3. /\ ledger'.inflight_bytes = ChargeOf(L) /\ ledger'.resident_bytes = ChargeOf(R)
      /\ ledger'.retiring_bytes = ChargeOf(T)
      /\ ledger'.page_pool_bytes = ledger'.inflight_bytes + ledger'.resident_bytes
                                   + ledger'.retiring_bytes
  BY DEF ChargesExact
<1> HIDE DEF L, R, T
<1>4. ChargeOf(L \cup R) = ChargeOf(L) + ChargeOf(R)
  BY <1>1, ChargeUnion
<1>5. ChargeOf((L \cup R) \cup T) = ChargeOf(L \cup R) + ChargeOf(T)
  <2>1. L \cup R \in SUBSET Keys
    BY <1>1
  <2> QED  BY <1>1, <2>1, ChargeUnion
<1>6. ChargeOf(L \cup R) + ChargeOf(T) = ledger'.page_pool_bytes
  BY <1>3, <1>4
<1>7. ChargeOf(Present') = ledger'.page_pool_bytes
  BY <1>2, <1>5, <1>6
<1> QED  BY <1>3, <1>7 DEF L

(* A miss that starts a load, with its evictions, is one Start.              *)
LEMMA StartStep ==
  ASSUME Inv, Inv', FlightInv, ~shutdown, NEW k \in Keys, entries[k].st = "absent",
         NEW V \in VictimPlans(k), NEW ws, NEW o, StartLoad(k, V, ws, o)
  PROVE  Abstract!NextLifecycle
<1>1. \A j \in Keys : IF j = k THEN entries'[j] = LoadingEntry(generation', ws, o, tick')
                       ELSE IF j \in V THEN entries'[j] = Absent ELSE entries'[j] = entries[j]
  BY DEF StartLoad
<1>2. V \in SUBSET Keys /\ \A j \in V : entries[j].st = "resident" /\ entries[j].leases = 0
  BY PlanCandidates DEF Candidates, InState
<1>3. /\ Absent.st = "absent" /\ Absent.leases = 0
      /\ LoadingEntry(generation', ws, o, tick').st = "loading"
      /\ LoadingEntry(generation', ws, o, tick').leases = 0
  BY DEF Absent, LoadingEntry
<1>4. entries[k].leases = 0 /\ shutdown' = shutdown
  BY DEF FlightInv, Unheld, StartLoad
<1>5. \A j \in Keys : /\ entries'[j].st = IF j = k THEN "loading"
                                          ELSE IF j \in V THEN "absent" ELSE entries[j].st
                      /\ entries'[j].leases = entries[j].leases
  BY <1>1, <1>2, <1>3, <1>4, SMTT(30)
<1>6. /\ Abstract!ChargeOf(Abstract!Charged') <= PagePoolCapacity
      /\ Abstract!ChargeOf(Abstract!In("loading")') <= MaxInflightBytes
  <2>1. Abstract!Charged' = Present'
    BY DEF Abstract!Charged, Present
  <2>2. Abstract!In("loading")' = InState("loading")'
    BY DEF Abstract!In, InState
  <2>3. \A S : Abstract!ChargeOf(S) = ChargeOf(S)
    BY Zenon DEF Abstract!ChargeOf, Abstract!Quanta, Abstract!Cardinality, ChargeOf, Quanta, Cardinality
  <2>4. /\ ChargeOf(Present') = ledger'.page_pool_bytes
        /\ ChargeOf(InState("loading")') = ledger'.inflight_bytes
    BY PresentCharge DEF Inv, Budget
  <2>5. ledger'.page_pool_bytes <= PagePoolCapacity /\ ledger'.inflight_bytes <= MaxInflightBytes
    BY DEF Inv, Budget
  <2> QED  BY <2>1, <2>2, <2>3, <2>4, <2>5, SMTT(30)
<1>7. Abstract!Start(k, V)
  BY <1>2, <1>4, <1>5, <1>6, SMTT(30) DEF Abstract!Start, Abstract!Unleased, Abstract!In
<1> QED  BY <1>2, <1>7 DEF Abstract!NextLifecycle

(* A miss the reader refuses leaves only its evictions.                      *)
LEMMA UnwindStep ==
  ASSUME NEW k \in Keys, NEW V \in VictimPlans(k), UnwindLoad(k, V)
  PROVE  Abstract!NextLifecycle
<1>1. \A j \in Keys : IF j \in V THEN entries'[j] = Absent ELSE entries'[j] = entries[j]
  BY DEF UnwindLoad
<1>2. V \in SUBSET Keys /\ \A j \in V : entries[j].st = "resident" /\ entries[j].leases = 0
  BY PlanCandidates DEF Candidates, InState
<1>3. Absent.st = "absent" /\ Absent.leases = 0
  BY DEF Absent
<1>4. PagesKept(V) /\ shutdown' = shutdown
  BY <1>1 DEF PagesKept, UnwindLoad
<1> QED  BY <1>1, <1>2, <1>3, <1>4, DiscardStep, SMTT(30)

(* release_lease releases, or finds nothing to release.                      *)
LEMMA ReleaseStep ==
  ASSUME Typed, NEW k \in Keys, NEW g, ReleaseLease(k, g), shutdown' = shutdown
  PROVE  [Abstract!NextLifecycle]_(Abstract!lifecycleVars)
<1> DEFINE e == entries[k]
<1>0. e \in Entry /\ entries \in [Keys -> Entry] /\ e.leases \in Nat
  BY DEF Typed, TypeOK, Entry
<1>1. CASE UNCHANGED entries
  BY <1>1, QuietStep DEF PagesKept
<1>2. CASE e.st = "retiring" /\ e.leases = 1 /\ entries' = [entries EXCEPT ![k] = Absent]
  <2>1. Absent.st = "absent" /\ Absent.leases = 0
    BY DEF Absent
  <2>2. entries'[k] = Absent /\ PagesKept({k})
    BY <1>0, <1>2, SMTT(30) DEF PagesKept
  <2> QED  BY <1>2, <2>1, <2>2, OnePageStep, SMTT(30)
<1>3. CASE /\ e.leases > 0 /\ ~(e.st = "retiring" /\ e.leases = 1)
           /\ entries' = [entries EXCEPT ![k] = Released(e)]
  <2>1. Released(e).st = e.st /\ Released(e).leases = e.leases - 1
    BY <1>0, ReleasedFields DEF SameLoad
  <2>2. entries'[k] = Released(e) /\ PagesKept({k})
    BY <1>0, <1>3 DEF PagesKept
  <2> QED  BY <1>3, <2>1, <2>2, OnePageStep, SMTT(30)
<1> QED  BY <1>1, <1>2, <1>3, Zenon DEF ReleaseLease, LastLease

(* withdraw_waiter touches waiters only.                                     *)
LEMMA WithdrawStep ==
  ASSUME Typed, NEW k \in Keys, NEW g, NEW i, WithdrawWaiter(k, g, i)
  PROVE  UNCHANGED Abstract!lifecycleVars
<1>0. entries[k] \in Entry /\ entries \in [Keys -> Entry]
  BY DEF Typed, TypeOK
<1>1. \/ UNCHANGED entries
      \/ entries' = [entries EXCEPT ![k] = Left(entries[k], i)]
  BY Zenon DEF WithdrawWaiter
<1>2. Left(entries[k], i).st = entries[k].st /\ Left(entries[k], i).leases = entries[k].leases
  BY <1>0, LeftFields
<1>3. PagesKept({})
  BY <1>0, <1>1, <1>2 DEF PagesKept
<1> QED  BY <1>3, QuietStep DEF WithdrawWaiter

(* A step that touches no entry.                                             *)
LEMMA SkipStep ==
  ASSUME UNCHANGED <<entries, shutdown>>
  PROVE  UNCHANGED Abstract!lifecycleVars
BY QuietStep DEF PagesKept

(* A step that updates one entry in place.                                   *)
LEMMA TouchStep ==
  ASSUME Typed, NEW k \in Keys, NEW e, SameLoad(entries[k], e), e.leases = entries[k].leases,
         entries' = [entries EXCEPT ![k] = e], shutdown' = shutdown
  PROVE  UNCHANGED Abstract!lifecycleVars
<1>1. PagesKept({})
  BY DEF PagesKept, SameLoad, Typed, TypeOK
<1> QED  BY <1>1, QuietStep

(* The critical sections of get, ...                                         *)
LEMMA GetLifecycle ==
  ASSUME Inv, Inv', FlightInv, GetStep
  PROVE  [Abstract!NextLifecycle]_(Abstract!lifecycleVars)
<1>0. /\ Typed /\ entries \in [Keys -> Entry]
      /\ \A k \in Keys : entries[k] \in Entry
  BY SMTT(30) DEF Inv, Typed, TypeOK
<1>1. ASSUME NEW t \in Tasks, NEW k \in Keys, GetHit(t, k)
      PROVE  Abstract!NextLifecycle
  <2> DEFINE e == Leased(entries[k], tick')
  <2>1. /\ entries' = [entries EXCEPT ![k] = e] /\ entries[k].st = "resident"
        /\ ~shutdown /\ shutdown' = shutdown
    BY <1>1 DEF GetHit, CanAccess
  <2>2. e.st = entries[k].st /\ e.leases = entries[k].leases + 1
    BY <1>0, LeasedFields DEF SameLoad
  <2> HIDE DEF e
  <2>3. entries'[k] = e /\ PagesKept({k})
    BY <1>0, <2>1 DEF PagesKept
  <2> QED  BY <2>1, <2>2, <2>3, OnePageStep
<1>2. ASSUME NEW t \in Tasks, NEW k \in Keys, GetJoin(t, k)
      PROVE  UNCHANGED Abstract!lifecycleVars
  <2> DEFINE e == Joined(entries[k], waiter', tick')
  <2>1. entries' = [entries EXCEPT ![k] = e] /\ shutdown' = shutdown
    BY <1>2 DEF GetJoin
  <2>2. SameLoad(entries[k], e) /\ e.leases = entries[k].leases
    BY <1>0, JoinedFields
  <2> HIDE DEF e
  <2> QED  BY <1>0, <2>1, <2>2, TouchStep, ZenonT(60)
<1>3. ASSUME NEW t \in Tasks, NEW k \in Keys, GetMiss(t, k)
      PROVE  Abstract!NextLifecycle
  <2>1. PICK V \in VictimPlans(k) : StartLoad(k, V, {waiter'}, "demand")
    BY <1>3 DEF GetMiss
  <2>2. ~shutdown /\ entries[k].st = "absent"
    BY <1>3 DEF GetMiss, CanAccess
  <2> QED  BY <2>1, <2>2, StartStep
<1>4. ASSUME NEW k \in Keys, GetUnwound(k)
      PROVE  Abstract!NextLifecycle
  BY <1>4, UnwindStep DEF GetUnwound
<1>5. ASSUME NEW k \in Keys, GetDenied(k)
      PROVE  UNCHANGED Abstract!lifecycleVars
  BY <1>5, SkipStep DEF GetDenied
<1>6. CASE GetRefused
  BY <1>6, SkipStep DEF GetRefused
<1> QED  BY <1>1, <1>2, <1>3, <1>4, <1>5, <1>6, SMTT(30) DEF GetStep

(* ... of prefetch, ...                                                      *)
LEMMA PrefetchLifecycle ==
  ASSUME Inv, Inv', FlightInv, PrefetchStep
  PROVE  [Abstract!NextLifecycle]_(Abstract!lifecycleVars)
<1>0. /\ Typed /\ entries \in [Keys -> Entry]
      /\ \A k \in Keys : entries[k] \in Entry
  BY DEF Inv, Typed, TypeOK
<1>1. ASSUME NEW k \in Keys, PrefetchCoalesce(k)
      PROVE  UNCHANGED Abstract!lifecycleVars
  <2> DEFINE e == [entries[k] EXCEPT !.prefetch_interest = TRUE]
  <2>1. entries' = [entries EXCEPT ![k] = e] /\ shutdown' = shutdown
    BY <1>0, <1>1 DEF PrefetchCoalesce
  <2>2. SameLoad(entries[k], e) /\ e.leases = entries[k].leases
    BY <1>0, HintedFields
  <2> HIDE DEF e
  <2> QED  BY <1>0, <2>1, <2>2, TouchStep, ZenonT(60)
<1>2. ASSUME NEW k \in Keys, PrefetchStart(k)
      PROVE  Abstract!NextLifecycle
  <2>1. PICK V \in VictimPlans(k) : StartLoad(k, V, {}, "prefetch")
    BY <1>2 DEF PrefetchStart
  <2>2. ~shutdown /\ entries[k].st = "absent"
    BY <1>2 DEF PrefetchStart, CanAccess
  <2> QED  BY <2>1, <2>2, StartStep, SMTT(30)
<1>3. ASSUME NEW k \in Keys, PrefetchUnwound(k)
      PROVE  Abstract!NextLifecycle
  BY <1>3, UnwindStep DEF PrefetchUnwound
<1>4. ASSUME NEW k \in Keys, PrefetchDropped(k)
      PROVE  UNCHANGED Abstract!lifecycleVars
  BY <1>4, SkipStep DEF PrefetchDropped
<1> QED  BY <1>1, <1>2, <1>3, <1>4, SMTT(30) DEF PrefetchStep

(* ... of the rest of a request task, ...                                    *)
LEMMA TaskLifecycle ==
  ASSUME Typed, NEW t \in Tasks, TaskStep(t)
  PROVE  [Abstract!NextLifecycle]_(Abstract!lifecycleVars)
<1>0. /\ entries \in [Keys -> Entry] /\ tasks[t] \in Task
      /\ \A k \in Keys : entries[k] \in Entry
  BY DEF Typed, TypeOK
<1>a. tasks[t].st # "idle" => tasks[t].key \in Keys
  BY <1>0, ActorTypes
<1>1. CASE MarkPrefetchUse(t)
  <2> DEFINE k == tasks[t].key
             e == [entries[k] EXCEPT !.prefetched_unused = FALSE]
  <2>1. k \in Keys /\ shutdown' = shutdown
    BY <1>a, <1>1 DEF MarkPrefetchUse
  <2>2. UNCHANGED entries \/ entries' = [entries EXCEPT ![k] = e]
    BY <1>1, <1>0, Zenon DEF MarkPrefetchUse
  <2>3. SameLoad(entries[k], e) /\ e.leases = entries[k].leases
    BY <1>0, <2>1, UsedFields, ZenonT(60)
  <2> HIDE DEF e
  <2>4. CASE UNCHANGED entries
    BY <2>1, <2>4, SkipStep
  <2>5. CASE entries' = [entries EXCEPT ![k] = e]
    BY <2>1, <2>3, <2>5, TouchStep, ZenonT(60)
  <2> QED  BY <2>2, <2>4, <2>5, SMTT(30)
<1>2. CASE CountUse(t) \/ Poll(t) \/ DropPayload(t)
  BY <1>2, SkipStep DEF CountUse, Poll, DropPayload, cacheVars
<1>3. CASE Withdraw(t) \/ WithdrawAbandoned(t)
  BY <1>3, <1>a, WithdrawStep DEF Withdraw, WithdrawAbandoned
<1>4. ASSUME NEW next, DropChannel(t, next), tasks[t].st # "idle"
      PROVE  [Abstract!NextLifecycle]_(Abstract!lifecycleVars)
  <2>1. /\ shutdown' = shutdown
        /\ ReleaseLease(tasks[t].key, tasks[t].generation) \/ UNCHANGED entries
    BY <1>4 DEF DropChannel
  <2> QED  BY <1>4, <1>a, <2>1, ReleaseStep, SkipStep, SMTT(30)
<1>5. CASE DropReceiver(t) \/ Abandon(t)
  BY <1>4, <1>5 DEF DropReceiver, Abandon
<1>6. CASE DropLease(t)
  BY <1>6, <1>a, ReleaseStep DEF DropLease
<1> QED  BY <1>1, <1>2, <1>3, <1>5, <1>6, SMTT(30) DEF TaskStep

(* ... of a reader worker, ...                                               *)
LEMMA WorkerLifecycle ==
  ASSUME Typed, FlightInv, NEW w \in Workers, WorkerStep(w)
  PROVE  [Abstract!NextLifecycle]_(Abstract!lifecycleVars)
<1>0. /\ entries \in [Keys -> Entry] /\ workers[w] \in Worker
      /\ \A k \in Keys : entries[k] \in Entry
  BY DEF Typed, TypeOK
<1>a. workers[w].st # "parked" => workers[w].key \in Keys
  BY <1>0, ActorTypes
<1>1. CASE Dequeue(w) \/ Read(w) \/ DropReturned(w)
  BY <1>1, SkipStep, ZenonT(60) DEF Dequeue, Read, DropReturned, cacheVars
<1>2. CASE Complete(w)
  <2> DEFINE k == workers[w].key
             e == entries[k]
  <2>1. k \in Keys /\ e \in Entry /\ Running(w) /\ shutdown' = shutdown
    BY <1>0, <1>a, <1>2, SMTT(30) DEF Complete, Running
  <2>2. e.st = "loading" /\ e.generation = workers[w].generation /\ e.leases = 0
    BY <2>1 DEF FlightInv, Flight, LoadOf, Unheld
  <2>3. \/ Publishes(e, workers[w].ok) /\ entries' = [entries EXCEPT ![k] = ResidentEntry(e)]
        \/ entries' = [entries EXCEPT ![k] = Absent]
    BY <1>2, <2>2, ZenonT(60) DEF Complete
  <2>4. /\ ResidentEntry(e).st = "resident" /\ ResidentEntry(e).leases \in Nat
        /\ Absent.st = "absent" /\ Absent.leases = 0
    <3>1. ResidentEntry(e) \in Entry
      BY <2>1, EntryTypes DEF Typed, WaitersFinite
    <3>2. ResidentEntry(e).st = "resident"
      BY ResidentFields
    <3>3. ResidentEntry(e).leases \in Nat
      BY <3>1 DEF Entry
    <3> QED  BY <3>2, <3>3, AbsentFields
  <2>5. PagesKept({k})
    BY <1>0, <2>3, SMTT(30) DEF PagesKept
  <2>6. CASE Publishes(e, workers[w].ok) /\ entries' = [entries EXCEPT ![k] = ResidentEntry(e)]
    <3>1. ~shutdown /\ entries'[k] = ResidentEntry(e)
      BY <1>0, <2>1, <2>6, SMTT(30) DEF Publishes
    <3> QED  BY <2>1, <2>2, <2>4, <2>5, <3>1, OnePageStep, SMTT(30)
  <2>7. CASE entries' = [entries EXCEPT ![k] = Absent]
    <3>1. entries'[k] = Absent
      BY <1>0, <2>1, <2>7, SMTT(30)
    <3> QED  BY <2>1, <2>2, <2>4, <2>5, <3>1, OnePageStep, SMTT(30)
  <2> QED  BY <2>3, <2>6, <2>7, SMTT(30)
<1>3. ASSUME NEW i, Send(w, i)
      PROVE  [Abstract!NextLifecycle]_(Abstract!lifecycleVars)
  <2>1. /\ shutdown' = shutdown /\ workers[w].st # "parked"
        /\ ReleaseLease(workers[w].key, workers[w].generation) \/ UNCHANGED entries
    BY <1>3 DEF Send
  <2> QED  BY <1>a, <2>1, ReleaseStep, SkipStep, SMTT(30)
<1> QED  BY <1>1, <1>2, <1>3 DEF WorkerStep

(* ... of invalidate ...                                                     *)
LEMMA InvalidateLifecycle ==
  ASSUME Typed, FlightInv, NEW k \in Keys, Invalidate(k)
  PROVE  [Abstract!NextLifecycle]_(Abstract!lifecycleVars)
<1>0. entries[k] \in Entry /\ entries \in [Keys -> Entry] /\ entries[k].leases \in Nat
  BY DEF Typed, TypeOK, Entry
<1>1. /\ entries'[k] = Invalidated(entries[k]) /\ PagesKept({k}) /\ shutdown' = shutdown
      /\ entries[k].st \in {"loading", "resident"}
  BY <1>0 DEF Invalidate, PagesKept
<1> DEFINE f == Invalidated(entries[k])
<1>2. /\ f.leases = entries[k].leases
      /\ entries[k].st = "loading" => f.st = "loading"
      /\ entries[k].st = "resident" /\ entries[k].leases = 0 => f.st = "absent"
      /\ entries[k].st = "resident" /\ entries[k].leases # 0 => f.st = "retiring"
  BY <1>0, InvalidatedFields, ZenonT(60)
<1> HIDE DEF f
<1>3. CASE entries[k].st = "loading"
  <2>1. PagesKept({})
    BY <1>1, <1>2, <1>3, SMTT(30) DEF PagesKept, f
  <2> QED  BY <1>1, <2>1, QuietStep, SMTT(30)
<1>4. CASE entries[k].st = "resident" /\ entries[k].leases = 0
  <2>1. entries'[k].st = "absent" /\ entries'[k].leases = 0
    BY <1>1, <1>2, <1>4, SMTT(30) DEF f
  <2> QED  BY <1>1, <1>4, <2>1, DiscardStep, SMTT(30)
<1>5. CASE entries[k].st = "resident" /\ entries[k].leases # 0
  <2>1. entries'[k].st = "retiring" /\ entries'[k].leases = entries[k].leases
    BY <1>1, <1>2, <1>5 DEF f
  <2> QED  BY <1>0, <1>1, <1>5, <2>1, OnePageStep, SMTT(30)
<1> QED  BY <1>1, <1>3, <1>4, <1>5, SMTT(30)

(* ... and of shutdown.                                                      *)
LEMMA ShutdownLifecycle ==
  ASSUME Typed, Shutdown
  PROVE  Abstract!NextLifecycle
<1>1. \A k \in Keys : entries'[k] = [Invalidated(entries[k]) EXCEPT !.waiters = {}]
  BY DEF Shutdown
<1>2. ASSUME NEW k \in Keys
      PROVE  /\ entries'[k].leases = entries[k].leases
             /\ entries'[k].st = IF entries[k].st = "resident" /\ entries[k].leases = 0
                                 THEN "absent"
                                 ELSE IF entries[k].st = "resident" THEN "retiring"
                                 ELSE entries[k].st
  <2>1. entries[k] \in Entry
    BY SMTT(30) DEF Typed, TypeOK
  <2>2. entries[k].st \in {"absent", "loading", "resident", "retiring"}
    BY <2>1 DEF Entry
  <2>3. /\ entries'[k].leases = entries[k].leases
        /\ entries[k].st = "absent" => entries'[k].st = "absent"
        /\ entries[k].st = "loading" => entries'[k].st = "loading"
        /\ entries[k].st = "resident" /\ entries[k].leases = 0 => entries'[k].st = "absent"
        /\ entries[k].st = "resident" /\ entries[k].leases # 0 => entries'[k].st = "retiring"
        /\ entries[k].st = "retiring" => entries'[k].st = "retiring"
    BY <1>1, <2>1, InvalidatedFields, ZenonT(60)
  <2> QED  BY <2>2, <2>3
<1>3. Abstract!Close
  <2>1. ~shutdown /\ shutdown' = TRUE
    BY DEF Shutdown
  <2> QED  BY <1>2, <2>1 DEF Abstract!Close, Abstract!Unleased, Abstract!In
<1> QED  BY <1>3 DEF Abstract!NextLifecycle

(* Every step of the cache is a step of the machine or a stutter.            *)
LEMMA LifecycleStep ==
  ASSUME Inv, Inv', FlightInv, [Next]_vars
  PROVE  [Abstract!NextLifecycle]_(Abstract!lifecycleVars)
<1>1. Typed
  BY DEF Inv
<1>2. CASE UNCHANGED vars \/ CloseReader \/ \E i \in failing : FailWaiter(i)
  BY <1>2, SkipStep DEF vars, CloseReader, FailWaiter, cacheVars
<1> QED  BY <1>1, <1>2, GetLifecycle, PrefetchLifecycle, TaskLifecycle, WorkerLifecycle,
            InvalidateLifecycle, ShutdownLifecycle, SMTT(30) DEF Next, ShutdownStep

(* PageCache implements PageLifecycle: whatever the queue, the workers, the  *)
(* waiters and the order of replacement, every critical section of cache.rs  *)
(* is one step of the four-state machine of a page or leaves it alone.       *)
THEOREM CacheImplementsLifecycle == Spec => ImplementsLifecycle
<1>1. Init => Abstract!InitLifecycle
  <2>1. Absent.st = "absent" /\ Absent.leases = 0
    BY DEF Absent
  <2> QED  BY <2>1 DEF Init, Abstract!InitLifecycle
<1>2. Inv /\ Inv' /\ FlightInv /\ [Next]_vars => [Abstract!NextLifecycle]_(Abstract!lifecycleVars)
  BY LifecycleStep, SMTT(30)
<1> QED  BY <1>1, <1>2, FlightHolds, PTL DEF Spec, ImplementsLifecycle, Abstract!Lifecycle

-----------------------------------------------------------------------------
(* Publication.                                                              *)

(* Only complete_load makes a page resident, and only while its load accepts *)
(* waiters.                                                                  *)
LEMMA PublishedByComplete ==
  ASSUME Typed, FlightInv, [Next]_vars, NEW k \in Keys,
         entries'[k].st = "resident", entries[k].st # "resident"
  PROVE  entries[k].st = "loading" /\ entries[k].accepting_waiters /\ ~shutdown
<1>0. /\ entries \in [Keys -> Entry] /\ \A j \in Keys : entries[j] \in Entry
      /\ \A t \in Tasks : tasks[t].st # "idle" => tasks[t].key \in Keys
      /\ \A w \in Workers : workers[w].st # "parked" => workers[w].key \in Keys
  <2>1. /\ \A t \in Tasks : tasks[t] \in Task
        /\ \A w \in Workers : workers[w] \in Worker
    BY DEF Typed, TypeOK
  <2>2. entries \in [Keys -> Entry] /\ \A j \in Keys : entries[j] \in Entry
    BY DEF Typed, TypeOK
  <2> QED  BY <2>1, <2>2, ActorTypes, SMTT(30)
<1>1. ASSUME NEW j \in Keys, NEW e, entries' = [entries EXCEPT ![j] = e], e.st = entries[j].st
      PROVE  FALSE
  BY <1>0, <1>1
<1>2. ASSUME NEW j \in Keys, NEW g, ReleaseLease(j, g)
      PROVE  FALSE
  <2>1. \/ UNCHANGED entries
        \/ entries' = [entries EXCEPT ![j] = Absent]
        \/ entries' = [entries EXCEPT ![j] = Released(entries[j])]
    BY <1>2, Zenon DEF ReleaseLease
  <2>2. Absent.st = "absent" /\ Released(entries[j]).st = entries[j].st
    BY <1>0, ReleasedFields DEF SameLoad, Absent
  <2> QED  BY <1>0, <2>1, <2>2, SMTT(30)
<1>3. ASSUME NEW j \in Keys, NEW V \in VictimPlans(j), NEW ws, NEW o,
             StartLoad(j, V, ws, o) \/ UnwindLoad(j, V)
      PROVE  FALSE
  <2>1. entries'[k] \in {LoadingEntry(generation', ws, o, tick'), Absent, entries[k]}
    BY <1>3 DEF StartLoad, UnwindLoad
  <2>2. Absent.st = "absent" /\ LoadingEntry(generation', ws, o, tick').st = "loading"
    BY DEF Absent, LoadingEntry
  <2> QED  BY <2>1, <2>2
<1>4. ~GetStep
  <2>1. ASSUME NEW t \in Tasks, NEW j \in Keys, GetHit(t, j)
        PROVE  FALSE
    <3>1. /\ entries' = [entries EXCEPT ![j] = Leased(entries[j], tick')]
          /\ Leased(entries[j], tick').st = entries[j].st
      BY <1>0, <2>1, LeasedFields, SMTT(30) DEF GetHit, SameLoad
    <3> QED  BY <3>1, <1>1
  <2>2. ASSUME NEW t \in Tasks, NEW j \in Keys, GetJoin(t, j)
        PROVE  FALSE
    <3>1. /\ entries' = [entries EXCEPT ![j] = Joined(entries[j], waiter', tick')]
          /\ Joined(entries[j], waiter', tick').st = entries[j].st
      BY <1>0, <2>2, JoinedFields DEF GetJoin, SameLoad
    <3> QED  BY <3>1, <1>1
  <2>3. ASSUME NEW t \in Tasks, NEW j \in Keys, GetMiss(t, j)
        PROVE  FALSE
    BY <2>3, <1>3, SMTT(30) DEF GetMiss
  <2>4. ASSUME NEW j \in Keys, GetUnwound(j)
        PROVE  FALSE
    BY <2>4, <1>3, SMTT(30) DEF GetUnwound
  <2> QED  BY <2>1, <2>2, <2>3, <2>4, SMTT(30) DEF GetStep, GetDenied, GetRefused
<1>5. ~PrefetchStep
  <2>1. ASSUME NEW j \in Keys, PrefetchCoalesce(j)
        PROVE  FALSE
    <3>1. /\ entries' = [entries EXCEPT ![j] = [entries[j] EXCEPT !.prefetch_interest = TRUE]]
          /\ [entries[j] EXCEPT !.prefetch_interest = TRUE].st = entries[j].st
      BY <1>0, <2>1, HintedFields, SMTT(30) DEF PrefetchCoalesce, SameLoad
    <3> QED  BY <3>1, <1>1
  <2> QED  BY <2>1, <1>3 DEF PrefetchStep, PrefetchStart, PrefetchUnwound, PrefetchDropped
<1>6. ASSUME NEW t \in Tasks, TaskStep(t)
      PROVE  FALSE
  <2>1. CASE MarkPrefetchUse(t)
    <3> DEFINE j == tasks[t].key
               e == [entries[j] EXCEPT !.prefetched_unused = FALSE]
    <3>1. j \in Keys /\ (UNCHANGED entries \/ entries' = [entries EXCEPT ![j] = e])
      BY <2>1, <1>0, Zenon DEF MarkPrefetchUse
    <3>2. e.st = entries[j].st
      BY <1>0, <3>1, UsedFields, SMTT(30) DEF SameLoad
    <3> HIDE DEF e
    <3> QED  BY <1>1, <3>1, <3>2, SMTT(30)
  <2>2. CASE CountUse(t) \/ Poll(t) \/ DropPayload(t)
    BY <2>2 DEF CountUse, Poll, DropPayload, cacheVars
  <2>3. CASE Withdraw(t) \/ WithdrawAbandoned(t)
    <3> DEFINE j == tasks[t].key
    <3>1. /\ j \in Keys
          /\ UNCHANGED entries
             \/ entries' = [entries EXCEPT ![j] = Left(entries[j], tasks[t].waiter)]
      BY <2>3, <1>0, ZenonT(60) DEF Withdraw, WithdrawAbandoned, WithdrawWaiter
    <3>2. Left(entries[j], tasks[t].waiter).st = entries[j].st
      BY <1>0, <3>1, LeftFields
    <3> QED  BY <1>1, <3>1, <3>2, SMTT(30)
  <2>4. CASE DropReceiver(t) \/ Abandon(t) \/ DropLease(t)
    BY <2>4, <1>0, <1>2, SMTT(30) DEF DropReceiver, Abandon, DropChannel, DropLease
  <2> QED  BY <1>6, <2>1, <2>2, <2>3, <2>4, SMTT(30) DEF TaskStep
<1>7. ASSUME NEW j \in Keys, entries'[j] = Invalidated(entries[j])
                             \/ entries'[j] = [Invalidated(entries[j]) EXCEPT !.waiters = {}]
      PROVE  entries'[j].st # "resident"
  <2>1. entries[j].st \in {"absent", "loading", "resident", "retiring"}
    BY <1>0 DEF Entry
  <2> QED  BY <1>0, <1>7, <2>1, InvalidatedFields, ZenonT(60)
<1>8. ASSUME NEW j \in Keys, Invalidate(j)
      PROVE  FALSE
  <2>1. entries'[j] = Invalidated(entries[j]) /\ \A i \in Keys \ {j} : entries'[i] = entries[i]
    BY <1>0, <1>8 DEF Invalidate
  <2> QED  BY <2>1, <1>7, ZenonT(60)
<1>9. ~ShutdownStep
  <2>1. ~Shutdown
    BY <1>7, SMTT(30) DEF Shutdown
  <2> QED  BY <2>1 DEF ShutdownStep, FailWaiter, cacheVars
<1>10. ASSUME NEW w \in Workers, WorkerStep(w)
       PROVE  entries[k].st = "loading" /\ entries[k].accepting_waiters /\ ~shutdown
  <2>1. CASE Dequeue(w) \/ Read(w) \/ DropReturned(w)
    BY <2>1, ZenonT(60) DEF Dequeue, Read, DropReturned, cacheVars
  <2>2. ASSUME NEW i, Send(w, i)
        PROVE  FALSE
    BY <2>2, <1>0, <1>2, SMTT(30) DEF Send
  <2>3. CASE Complete(w)
    <3> DEFINE j == workers[w].key
               e == entries[j]
    <3>1. j \in Keys /\ Running(w)
      BY <1>0, <2>3 DEF Complete, Running
    <3>2. \/ UNCHANGED entries
          \/ /\ e.st = "loading" /\ Publishes(e, workers[w].ok)
             /\ entries' = [entries EXCEPT ![j] = ResidentEntry(e)]
          \/ entries' = [entries EXCEPT ![j] = Absent]
      BY <2>3, ZenonT(60) DEF Complete
    <3>3. Absent.st = "absent"
      BY SMTT(30) DEF Absent
    <3>4. k = j /\ e.st = "loading" /\ Publishes(e, workers[w].ok)
      BY <1>0, <3>1, <3>2, <3>3, SMTT(30)
    <3> QED  BY <3>4, SMTT(30) DEF Publishes
  <2> QED  BY <1>10, <2>1, <2>2, <2>3, SMTT(30) DEF WorkerStep
<1> QED  BY <1>4, <1>5, <1>6, <1>8, <1>9, <1>10, SMTT(30) DEF Next, vars, CloseReader, cacheVars

(* PageCache: a cancellation that takes the lock first prevents publication, *)
(* and a leased page leaves the resident state only to retire.               *)
THEOREM PublicationCorrect == Spec => PublicationRule
<1>1. ASSUME Inv, Inv', FlightInv, [Next]_vars, NEW k \in Keys
      PROVE  /\ entries'[k].st = "resident" /\ entries[k].st # "resident" =>
                  entries[k].st = "loading" /\ entries[k].generation \notin cancelled /\ ~shutdown
             /\ entries[k].st = "resident" /\ entries[k].leases > 0
                /\ entries'[k].st # "resident" => entries'[k].st = "retiring"
  <2>1. ASSUME entries'[k].st = "resident", entries[k].st # "resident"
        PROVE  entries[k].st = "loading" /\ entries[k].generation \notin cancelled /\ ~shutdown
    <3>1. entries[k].st = "loading" /\ entries[k].accepting_waiters /\ ~shutdown
      BY <1>1, <2>1, PublishedByComplete, SMTT(30) DEF Inv
    <3> QED  BY <1>1, <3>1 DEF FlightInv, Tokens
  <2>2. ASSUME entries[k].st = "resident", entries[k].leases > 0, entries'[k].st # "resident"
        PROVE  entries'[k].st = "retiring"
    <3>1. [Abstract!NextLifecycle]_(Abstract!lifecycleVars)
      BY <1>1, LifecycleStep
    <3>2. entries[k].leases # 0
      BY <2>2
    <3> DEFINE phase == [j \in Keys |-> entries[j].st]
    <3>3. ~UNCHANGED Abstract!lifecycleVars
      <4>1. UNCHANGED Abstract!lifecycleVars => phase' = phase
        BY DEF Abstract!lifecycleVars
      <4>2. phase[k] = "resident" /\ phase'[k] # "resident"
        BY <2>2
      <4> QED  BY <4>1, <4>2
    <3> QED  BY <3>1, <3>2, <3>3, <2>2, ZenonT(60)
         DEF Abstract!NextLifecycle, Abstract!Close, Abstract!Discard, Abstract!Start,
             Abstract!Publish, Abstract!Fail, Abstract!Lease, Abstract!Release, Abstract!Retire,
             Abstract!Unleased, Abstract!In
  <2> QED  BY <2>1, <2>2, SMTT(30)
<1>2. Inv /\ Inv' /\ FlightInv /\ [Next]_vars =>
        [\A k \in Keys :
           /\ entries'[k].st = "resident" /\ entries[k].st # "resident" =>
                entries[k].st = "loading" /\ entries[k].generation \notin cancelled /\ ~shutdown
           /\ entries[k].st = "resident" /\ entries[k].leases > 0
              /\ entries'[k].st # "resident" => entries'[k].st = "retiring"]_vars
  BY <1>1
<1> QED  BY <1>2, FlightHolds, PTL DEF Spec, PublicationRule
==============================================================================

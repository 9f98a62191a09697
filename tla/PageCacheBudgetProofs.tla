------------------------ MODULE PageCacheBudgetProofs ------------------------
(* Every action of PageCache preserves the byte budget and the bound on the *)
(* reader queue.                                                            *)
EXTENDS PageCacheLemmas

(* The byte budget: what ChargesExact and CapacityRespected say of pages.   *)
Budget ==
  /\ ChargesExact
  /\ ledger.page_pool_bytes <= PagePoolCapacity
  /\ ledger.inflight_bytes <= MaxInflightBytes
  /\ ledger.active_loads <= MaxLoads
  /\ Cardinality(Present) <= MaxEntries

(* The numbers the budget compares.                                         *)
LedgerInts ==
  /\ ledger.page_pool_bytes \in Int /\ ledger.inflight_bytes \in Int
  /\ ledger.resident_bytes \in Int /\ ledger.retiring_bytes \in Int
  /\ ledger.active_loads \in Int
ConfigNats ==
  /\ PagePoolCapacity \in Nat /\ MaxInflightBytes \in Nat
  /\ MaxEntries \in Nat /\ MaxLoads \in Nat /\ QueueCapacity \in Nat

(* They are integers.                                                       *)
LEMMA Numbers ==
  ASSUME ledger \in Ledger
  PROVE  LedgerInts /\ ConfigNats
<1>1. LedgerInts
  BY DEF Ledger, LedgerInts
<1>2. ConfigNats
  BY CacheConfigValid DEF ConfigNats
<1> QED BY <1>1, <1>2

(* The sets of pages by state are finite sets of pages.                     *)
LEMMA StateSets ==
  /\ \A s : InState(s) \in SUBSET Keys /\ IsFiniteSet(InState(s)) /\ ChargeOf(InState(s)) \in Nat
            /\ Cardinality(InState(s)) \in Nat
  /\ Present \in SUBSET Keys /\ IsFiniteSet(Present) /\ Cardinality(Present) \in Nat
  /\ Cardinality(Present') \in Nat
<1>1. \A s : InState(s) \in SUBSET Keys
  BY DEF InState
<1>2. Present \in SUBSET Keys
  BY DEF Present
<1>3. Present' \in SUBSET Keys
  BY DEF Present
<1> QED BY <1>1, <1>2, <1>3, FS_Subset, FS_CardinalityType, ChargeType, PagesAssumption, Zenon

(* A step in which no page changes its state.                               *)
LEMMA BudgetSame ==
  ASSUME Budget, \A k \in Keys : entries'[k].st = entries[k].st,
         ledger'.page_pool_bytes = ledger.page_pool_bytes,
         ledger'.inflight_bytes = ledger.inflight_bytes,
         ledger'.resident_bytes = ledger.resident_bytes,
         ledger'.retiring_bytes = ledger.retiring_bytes,
         ledger'.active_loads = ledger.active_loads
  PROVE  Budget'
<1>1. /\ InState("loading")' = InState("loading") /\ InState("resident")' = InState("resident")
      /\ InState("retiring")' = InState("retiring") /\ Present' = Present
  BY DEF InState, Present
<1>2. /\ ChargeOf(InState("loading")') = ChargeOf(InState("loading"))
      /\ ChargeOf(InState("resident")') = ChargeOf(InState("resident"))
      /\ ChargeOf(InState("retiring")') = ChargeOf(InState("retiring"))
      /\ Cardinality(InState("loading")') = Cardinality(InState("loading"))
      /\ Cardinality(Present') = Cardinality(Present)
  BY <1>1, Zenon
<1> QED BY <1>2 DEF Budget, ChargesExact

(* One page moves from its state to another.                                *)
LEMMA OneMoves ==
  ASSUME entries \in [Keys -> Entry], NEW k \in Keys, NEW e, e.st # entries[k].st,
         entries' = [entries EXCEPT ![k] = e]
  PROVE  /\ \A s : ChargeOf(InState(s)') = IF s = entries[k].st THEN ChargeOf(InState(s)) - Allocation[k]
                                           ELSE IF s = e.st THEN ChargeOf(InState(s)) + Allocation[k]
                                           ELSE ChargeOf(InState(s))
         /\ e.st # "loading" =>
              Cardinality(InState("loading")') =
                IF entries[k].st = "loading" THEN Cardinality(InState("loading")) - 1
                ELSE Cardinality(InState("loading"))
         /\ entries[k].st # "absent" => Cardinality(Present') <= Cardinality(Present)
<1>1. ASSUME NEW s, s = entries[k].st PROVE k \in InState(s) /\ InState(s)' = InState(s) \ {k}
  BY <1>1 DEF InState
<1>2. ASSUME NEW s, s = e.st PROVE k \notin InState(s) /\ InState(s)' = InState(s) \cup {k}
  BY <1>2 DEF InState
<1>3. ASSUME NEW s, s # entries[k].st, s # e.st PROVE InState(s)' = InState(s)
  BY <1>3 DEF InState
<1>4. ASSUME NEW s, s = entries[k].st
      PROVE  ChargeOf(InState(s)') = ChargeOf(InState(s)) - Allocation[k]
  <2>1. ChargeOf(InState(s) \ {k}) = ChargeOf(InState(s)) - Allocation[k]
    BY <1>1, <1>4, StateSets, ChargeRemove
  <2> QED BY <1>1, <1>4, <2>1, Zenon
<1>5. ASSUME NEW s, s = e.st
      PROVE  ChargeOf(InState(s)') = ChargeOf(InState(s)) + Allocation[k]
  <2>1. ChargeOf(InState(s) \cup {k}) = ChargeOf(InState(s)) + Allocation[k]
    BY <1>2, <1>5, StateSets, ChargeAdd
  <2> QED BY <1>2, <1>5, <2>1, Zenon
<1>6. ASSUME NEW s, s # entries[k].st, s # e.st
      PROVE  /\ ChargeOf(InState(s)') = ChargeOf(InState(s))
             /\ Cardinality(InState(s)') = Cardinality(InState(s))
  BY <1>3, <1>6, Zenon
<1>7. ASSUME entries[k].st = "loading"
      PROVE  Cardinality(InState("loading")') = Cardinality(InState("loading")) - 1
  <2>1. Cardinality(InState("loading") \ {k}) = Cardinality(InState("loading")) - 1
    BY <1>1, <1>7, StateSets, FS_RemoveElement, Zenon
  <2> QED BY <1>1, <1>7, <2>1, Zenon
<1>8. ASSUME entries[k].st # "absent" PROVE Cardinality(Present') <= Cardinality(Present)
  <2>1. Present' \in SUBSET Present
    BY <1>8 DEF Present
  <2> QED BY <2>1, StateSets, FS_Subset
<1> QED BY <1>4, <1>5, <1>6, <1>7, <1>8

(* A set of unleased residents leaves.                                      *)
LEMMA VictimsLeave ==
  ASSUME NEW V \in SUBSET Candidates
  PROVE  /\ V \in SUBSET InState("resident") /\ V \in SUBSET Present
         /\ ChargeOf(V) \in Nat /\ Cardinality(V) \in Nat
         /\ ChargeOf(InState("resident") \ V) = ChargeOf(InState("resident")) - ChargeOf(V)
         /\ Cardinality(Present \ V) = Cardinality(Present) - Cardinality(V)
         /\ IsFiniteSet(Present \ V)
<1>1. V \in SUBSET InState("resident") /\ V \in SUBSET Present /\ V \in SUBSET Keys
  BY DEF Candidates, InState, Present
<1>2. ChargeOf(V) \in Nat /\ IsFiniteSet(V) /\ Cardinality(V) \in Nat
  BY <1>1, ChargeType, FS_Subset, FS_CardinalityType, PagesAssumption, Zenon
<1>3. ChargeOf(InState("resident") \ V) = ChargeOf(InState("resident")) - ChargeOf(V)
  BY <1>1, StateSets, ChargeDifference
<1>4. IsFiniteSet(Present \ V) /\ Cardinality(Present \ V) = Cardinality(Present) - Cardinality(V)
  <2>1. Present \cap V = V
    BY <1>1
  <2>2. IsFiniteSet(Present \ V)
        /\ Cardinality(Present \ V) = Cardinality(Present) - Cardinality(Present \cap V)
    BY StateSets, FS_Difference, Zenon
  <2>3. Cardinality(Present \cap V) = Cardinality(V)
    BY <2>1, Zenon
  <2> QED BY <2>2, <2>3
<1> QED BY <1>1, <1>2, <1>3, <1>4

(* A load starts within the budget.                                         *)
LEMMA BudgetStart ==
  ASSUME Typed, Budget, NEW k \in Keys, entries[k].st = "absent", NEW V \in VictimPlans(k),
         NEW ws \in SUBSET Nat, NEW o \in {"demand", "prefetch"}, StartLoad(k, V, ws, o)
  PROVE  Budget'
<1>1. /\ V \in SUBSET Candidates /\ LoadSlot(k) /\ Fits(k, V)
      /\ ledger \in Ledger /\ Allocation[k] \in Nat \ {0}
      /\ generation' \in Nat /\ tick' \in Nat
  <2>1. ledger \in Ledger /\ generation \in Nat /\ tick \in Nat
    BY DEF Typed, TypeOK
  <2>2. V \in SUBSET Candidates /\ LoadSlot(k) /\ Fits(k, V)
    BY PlanCandidates
  <2>3. Allocation[k] \in Nat \ {0}
    BY PagesAssumption
  <2>4. generation' = generation + 1 /\ tick' = tick + 1
    BY DEF StartLoad
  <2> QED BY <2>1, <2>2, <2>3, <2>4
<1>2. LoadingEntry(generation', ws, o, tick').st = "loading"
  BY DEF LoadingEntry, Absent
<1>3. entries' = [j \in Keys |-> IF j = k THEN LoadingEntry(generation', ws, o, tick')
                                 ELSE IF j \in V THEN Absent ELSE entries[j]]
  BY DEF StartLoad
<1>4. Absent.st = "absent" /\ V \in SUBSET InState("resident")
  BY <1>1, VictimsLeave, Zenon DEF Absent
<1>5. /\ InState("loading")' = InState("loading") \cup {k} /\ k \notin InState("loading")
      /\ InState("resident")' = InState("resident") \ V
      /\ InState("retiring")' = InState("retiring")
      /\ Present' = (Present \ V) \cup {k} /\ k \notin Present \ V
  BY <1>2, <1>3, <1>4 DEF InState, Present
<1>6. /\ ChargeOf(InState("loading")') = ChargeOf(InState("loading")) + Allocation[k]
      /\ Cardinality(InState("loading")') = Cardinality(InState("loading")) + 1
  <2>1. ChargeOf(InState("loading") \cup {k}) = ChargeOf(InState("loading")) + Allocation[k]
    BY <1>5, StateSets, ChargeAdd
  <2>2. Cardinality(InState("loading") \cup {k}) = Cardinality(InState("loading")) + 1
    BY <1>5, StateSets, FS_AddElement, Zenon
  <2> QED BY <1>5, <2>1, <2>2, Zenon
<1>7. ChargeOf(InState("resident")') = ChargeOf(InState("resident")) - ChargeOf(V)
  BY <1>1, <1>5, VictimsLeave, Zenon
<1>8. ChargeOf(InState("retiring")') = ChargeOf(InState("retiring"))
  BY <1>5, Zenon
<1>9. Cardinality(Present') = Cardinality(Present) - Cardinality(V) + 1
  <2>1. Cardinality((Present \ V) \cup {k}) = Cardinality(Present \ V) + 1
    BY <1>1, <1>5, VictimsLeave, FS_AddElement, Zenon
  <2>2. Cardinality(Present') = Cardinality(Present \ V) + 1
    BY <1>5, <2>1, Zenon
  <2> QED BY <1>1, <2>2, VictimsLeave, Zenon
<1>10. /\ ledger'.page_pool_bytes = ledger.page_pool_bytes - ChargeOf(V) + Allocation[k]
       /\ ledger'.inflight_bytes = ledger.inflight_bytes + Allocation[k]
       /\ ledger'.resident_bytes = ledger.resident_bytes - ChargeOf(V)
       /\ ledger'.retiring_bytes = ledger.retiring_bytes
       /\ ledger'.active_loads = ledger.active_loads + 1
  <2>1. ledger' = [ledger EXCEPT
                     !.page_pool_bytes = @ - ChargeOf(V) + Allocation[k],
                     !.inflight_bytes = @ + Allocation[k],
                     !.resident_bytes = @ - ChargeOf(V),
                     !.active_loads = @ + 1,
                     !.waiters = @ + Cardinality(ws),
                     !.lease_reservations = @ + Cardinality(ws)]
    BY DEF StartLoad
  <2> QED BY <1>1, <2>1 DEF Ledger
<1>11. /\ LedgerInts /\ ConfigNats
       /\ ChargeOf(V) \in Nat /\ Cardinality(V) \in Nat /\ Cardinality(Present) \in Nat
  BY <1>1, VictimsLeave, StateSets, Numbers, Zenon
<1>12. ChargesExact'
  BY <1>1, <1>6, <1>7, <1>8, <1>10, <1>11, SMTT(30) DEF Budget, ChargesExact, LedgerInts
<1>13. /\ ledger'.page_pool_bytes <= PagePoolCapacity
       /\ ledger'.inflight_bytes <= MaxInflightBytes
       /\ ledger'.active_loads <= MaxLoads
       /\ Cardinality(Present') <= MaxEntries
  BY <1>1, <1>9, <1>10, <1>11 DEF LoadSlot, Fits, LedgerInts, ConfigNats
<1> QED BY <1>12, <1>13 DEF Budget

(* A load whose submission is refused leaves the victims evicted.           *)
LEMMA BudgetUnwind ==
  ASSUME Typed, Budget, NEW k \in Keys, NEW V \in VictimPlans(k), UnwindLoad(k, V)
  PROVE  Budget'
<1>1. V \in SUBSET Candidates /\ ledger \in Ledger
  BY PlanCandidates DEF Typed, TypeOK
<1>2. entries' = [j \in Keys |-> IF j \in V THEN Absent ELSE entries[j]]
  BY DEF UnwindLoad
<1>3. Absent.st = "absent" /\ V \in SUBSET InState("resident")
  BY <1>1, VictimsLeave, Zenon DEF Absent
<1>4. /\ InState("loading")' = InState("loading")
      /\ InState("resident")' = InState("resident") \ V
      /\ InState("retiring")' = InState("retiring")
      /\ Present' = Present \ V
  BY <1>2, <1>3 DEF InState, Present
<1>5. /\ ChargeOf(InState("loading")') = ChargeOf(InState("loading"))
      /\ Cardinality(InState("loading")') = Cardinality(InState("loading"))
      /\ ChargeOf(InState("resident")') = ChargeOf(InState("resident")) - ChargeOf(V)
      /\ ChargeOf(InState("retiring")') = ChargeOf(InState("retiring"))
      /\ Cardinality(Present') = Cardinality(Present) - Cardinality(V)
  BY <1>1, <1>4, VictimsLeave, Zenon
<1>6. /\ ledger'.page_pool_bytes = ledger.page_pool_bytes - ChargeOf(V)
      /\ ledger'.inflight_bytes = ledger.inflight_bytes
      /\ ledger'.resident_bytes = ledger.resident_bytes - ChargeOf(V)
      /\ ledger'.retiring_bytes = ledger.retiring_bytes
      /\ ledger'.active_loads = ledger.active_loads
  <2>1. ledger' = [ledger EXCEPT !.page_pool_bytes = @ - ChargeOf(V),
                                 !.resident_bytes = @ - ChargeOf(V)]
    BY DEF UnwindLoad
  <2> QED BY <1>1, <2>1 DEF Ledger
<1>7. /\ LedgerInts /\ ConfigNats
      /\ ChargeOf(V) \in Nat /\ Cardinality(V) \in Nat /\ Cardinality(Present) \in Nat
  BY <1>1, VictimsLeave, StateSets, Numbers, ZenonT(60)
<1> QED BY <1>5, <1>6, <1>7 DEF Budget, ChargesExact, LedgerInts, ConfigNats

(* The lease of a retiring page is the last: its charge goes with it.       *)
LEMMA BudgetRelease ==
  ASSUME Typed, Budget, NEW k \in Keys, NEW g, ReleaseLease(k, g)
  PROVE  Budget'
<1>1. ledger \in Ledger /\ entries \in [Keys -> Entry] /\ Allocation[k] \in Nat
      /\ entries[k] \in Entry
  BY PagesAssumption DEF Typed, TypeOK
<1>2. CASE UNCHANGED <<entries, ledger, metrics>>
  BY <1>2, BudgetSame
<1>3. CASE /\ entries[k].st = "retiring"
           /\ entries' = [entries EXCEPT ![k] = Absent]
           /\ ledger' = [ledger EXCEPT !.leases = @ - 1, !.page_pool_bytes = @ - Allocation[k],
                                       !.retiring_bytes = @ - Allocation[k]]
  <2>1. /\ ChargeOf(InState("retiring")') = ChargeOf(InState("retiring")) - Allocation[k]
        /\ ChargeOf(InState("loading")') = ChargeOf(InState("loading"))
        /\ Cardinality(InState("loading")') = Cardinality(InState("loading"))
        /\ ChargeOf(InState("resident")') = ChargeOf(InState("resident"))
        /\ Cardinality(Present') <= Cardinality(Present)
    <3>1. Absent.st = "absent"
      BY DEF Absent
    <3> QED BY <1>1, <1>3, <3>1, OneMoves, ZenonT(60)
  <2>2. /\ ledger'.page_pool_bytes = ledger.page_pool_bytes - Allocation[k]
        /\ ledger'.inflight_bytes = ledger.inflight_bytes
        /\ ledger'.resident_bytes = ledger.resident_bytes
        /\ ledger'.retiring_bytes = ledger.retiring_bytes - Allocation[k]
        /\ ledger'.active_loads = ledger.active_loads
    BY <1>1, <1>3 DEF Ledger
  <2>3. /\ LedgerInts /\ ConfigNats
        /\ Cardinality(Present) \in Nat /\ Cardinality(Present') \in Nat
    BY <1>1, StateSets, Numbers
  <2> QED BY <1>1, <2>1, <2>2, <2>3 DEF Budget, ChargesExact, LedgerInts, ConfigNats
<1>4. CASE /\ entries' = [entries EXCEPT ![k] = Released(entries[k])]
           /\ ledger' = [ledger EXCEPT !.leases = @ - 1]
  <2>1. Released(entries[k]).st = entries[k].st
    BY <1>1, ReleasedType
  <2> QED BY <1>1, <1>4, <2>1, BudgetSame DEF Ledger
<1> QED BY <1>2, <1>3, <1>4, ReleaseCases, Zenon

(* Withdrawing a waiter moves no page.                                      *)
LEMMA BudgetWithdraw ==
  ASSUME Typed, Budget, NEW k \in Keys, NEW g, NEW i, WithdrawWaiter(k, g, i)
  PROVE  Budget'
<1>1. ledger \in Ledger /\ entries \in [Keys -> Entry] /\ entries[k] \in Entry
      /\ IsFiniteSet(entries[k].waiters)
  BY DEF Typed, TypeOK, WaitersFinite
<1>2. CASE UNCHANGED <<entries, ledger, cancelled>>
  BY <1>2, BudgetSame
<1>3. CASE /\ entries' = [entries EXCEPT ![k] = Left(entries[k], i)]
           /\ ledger' = [ledger EXCEPT !.waiters = @ - 1, !.lease_reservations = @ - 1]
  <2>1. Left(entries[k], i).st = entries[k].st
    BY <1>1, LeftType
  <2> QED BY <1>1, <1>3, <2>1, BudgetSame DEF Ledger
<1> QED BY <1>2, <1>3, Zenon DEF WithdrawWaiter

(* invalidate: a load keeps its charge, an unleased resident gives it back, *)
(* a leased one takes it into retirement.                                   *)
LEMMA BudgetInvalidate ==
  ASSUME Typed, Budget, NEW k \in Keys, Invalidate(k)
  PROVE  Budget'
<1>1. ledger \in Ledger /\ entries \in [Keys -> Entry] /\ Allocation[k] \in Nat
      /\ entries[k] \in Entry
  BY PagesAssumption DEF Typed, TypeOK
<1>2. entries' = [entries EXCEPT ![k] = Invalidated(entries[k])]
  BY DEF Invalidate
<1>3. /\ LedgerInts /\ ConfigNats
      /\ Cardinality(Present) \in Nat /\ Cardinality(Present') \in Nat
  BY <1>1, StateSets, Numbers
<1>4. CASE entries[k].st = "loading" /\ ledger' = ledger
  <2>1. Invalidated(entries[k]).st = entries[k].st
    BY <1>1, <1>4 DEF Invalidated, Entry
  <2> QED BY <1>1, <1>2, <1>4, <2>1, BudgetSame
<1>5. CASE /\ entries[k].st = "resident" /\ entries[k].leases = 0
           /\ ledger' = [ledger EXCEPT !.page_pool_bytes = @ - Allocation[k],
                                       !.resident_bytes = @ - Allocation[k]]
  <2>1. Invalidated(entries[k]).st = "absent"
    BY <1>5 DEF Invalidated, Absent
  <2>2. /\ ChargeOf(InState("resident")') = ChargeOf(InState("resident")) - Allocation[k]
        /\ ChargeOf(InState("loading")') = ChargeOf(InState("loading"))
        /\ Cardinality(InState("loading")') = Cardinality(InState("loading"))
        /\ ChargeOf(InState("retiring")') = ChargeOf(InState("retiring"))
        /\ Cardinality(Present') <= Cardinality(Present)
    BY <1>1, <1>2, <1>5, <2>1, OneMoves, Zenon
  <2>3. /\ ledger'.page_pool_bytes = ledger.page_pool_bytes - Allocation[k]
        /\ ledger'.inflight_bytes = ledger.inflight_bytes
        /\ ledger'.resident_bytes = ledger.resident_bytes - Allocation[k]
        /\ ledger'.retiring_bytes = ledger.retiring_bytes
        /\ ledger'.active_loads = ledger.active_loads
    BY <1>1, <1>5 DEF Ledger
  <2> QED BY <1>1, <1>3, <2>2, <2>3 DEF Budget, ChargesExact, LedgerInts, ConfigNats
<1>6. CASE /\ entries[k].st = "resident" /\ entries[k].leases > 0
           /\ ledger' = [ledger EXCEPT !.resident_bytes = @ - Allocation[k],
                                       !.retiring_bytes = @ + Allocation[k]]
  <2>1. Invalidated(entries[k]).st = "retiring"
    BY <1>1, <1>6 DEF Invalidated, RetiringEntry, Absent, Entry
  <2>2. /\ ChargeOf(InState("resident")') = ChargeOf(InState("resident")) - Allocation[k]
        /\ ChargeOf(InState("retiring")') = ChargeOf(InState("retiring")) + Allocation[k]
        /\ ChargeOf(InState("loading")') = ChargeOf(InState("loading"))
        /\ Cardinality(InState("loading")') = Cardinality(InState("loading"))
        /\ Cardinality(Present') <= Cardinality(Present)
    <3> DEFINE e == Invalidated(entries[k])
    <3>1. e.st # entries[k].st /\ e.st = "retiring" /\ entries' = [entries EXCEPT ![k] = e]
      BY <1>2, <1>6, <2>1, SMTT(30)
    <3> HIDE DEF e
    <3>2. /\ \A s : ChargeOf(InState(s)') = IF s = entries[k].st THEN ChargeOf(InState(s)) - Allocation[k]
                                            ELSE IF s = e.st THEN ChargeOf(InState(s)) + Allocation[k]
                                            ELSE ChargeOf(InState(s))
          /\ e.st # "loading" =>
               Cardinality(InState("loading")') =
                 IF entries[k].st = "loading" THEN Cardinality(InState("loading")) - 1
                 ELSE Cardinality(InState("loading"))
          /\ entries[k].st # "absent" => Cardinality(Present') <= Cardinality(Present)
      BY <1>1, <3>1, OneMoves, ZenonT(60)
    <3> QED BY <1>6, <3>1, <3>2
  <2>3. /\ ledger'.page_pool_bytes = ledger.page_pool_bytes
        /\ ledger'.inflight_bytes = ledger.inflight_bytes
        /\ ledger'.resident_bytes = ledger.resident_bytes - Allocation[k]
        /\ ledger'.retiring_bytes = ledger.retiring_bytes + Allocation[k]
        /\ ledger'.active_loads = ledger.active_loads
    BY <1>1, <1>6 DEF Ledger
  <2>4. ChargesExact'
    BY <1>1, <1>3, <2>2, <2>3 DEF Budget, ChargesExact, LedgerInts
  <2> QED BY <1>1, <1>3, <2>2, <2>3, <2>4 DEF Budget, LedgerInts, ConfigNats
<1> QED BY <1>4, <1>5, <1>6, Zenon DEF Invalidate

(* complete_load: the in-flight charge becomes a resident one, or goes.     *)
LEMMA BudgetComplete ==
  ASSUME Typed, Budget, NEW w \in Workers, Complete(w)
  PROVE  Budget'
<1> DEFINE k == workers[w].key
           e == entries[k]
           n == Cardinality(e.waiters)
           s == Settled(k, n)
<1>1. workers[w] \in Worker /\ workers[w].st # "parked"
  BY DEF Typed, TypeOK, Complete
<1>2. k \in Keys
  BY <1>1, ActorTypes
<1>3. /\ ledger \in Ledger /\ entries \in [Keys -> Entry] /\ Allocation[k] \in Nat
      /\ e \in Entry
  BY <1>2, PagesAssumption, ZenonT(60) DEF Typed, TypeOK
<1>4. /\ LedgerInts /\ ConfigNats
      /\ Cardinality(Present) \in Nat /\ Cardinality(Present') \in Nat
      /\ Cardinality(InState("loading")) \in Nat
  BY <1>3, StateSets, Numbers
<1>5. /\ s.page_pool_bytes = ledger.page_pool_bytes
      /\ s.inflight_bytes = ledger.inflight_bytes - Allocation[k]
      /\ s.resident_bytes = ledger.resident_bytes
      /\ s.retiring_bytes = ledger.retiring_bytes
      /\ s.active_loads = ledger.active_loads - 1
      /\ DOMAIN s = {"page_pool_bytes", "inflight_bytes", "resident_bytes", "retiring_bytes",
                     "active_loads", "waiters", "lease_reservations", "leases"}
  <2> HIDE DEF n, k
  <2> QED BY <1>3 DEF Settled, Ledger
<1>6. CASE UNCHANGED <<entries, ledger>>
  BY <1>6, BudgetSame
<1>7. CASE /\ e.st = "loading"
           /\ entries' = [entries EXCEPT ![k] = ResidentEntry(e)]
           /\ ledger' = [s EXCEPT !.resident_bytes = @ + Allocation[k], !.leases = @ + n]
  <2>1. ResidentEntry(e).st = "resident"
    BY DEF ResidentEntry, Absent
  <2>2. /\ ChargeOf(InState("loading")') = ChargeOf(InState("loading")) - Allocation[k]
        /\ ChargeOf(InState("resident")') = ChargeOf(InState("resident")) + Allocation[k]
        /\ ChargeOf(InState("retiring")') = ChargeOf(InState("retiring"))
        /\ Cardinality(InState("loading")') = Cardinality(InState("loading")) - 1
        /\ Cardinality(Present') <= Cardinality(Present)
    <3> HIDE DEF k
    <3> QED BY <1>2, <1>3, <1>7, <2>1, OneMoves, ZenonT(60)
  <2>3. /\ ledger'.page_pool_bytes = ledger.page_pool_bytes
        /\ ledger'.inflight_bytes = ledger.inflight_bytes - Allocation[k]
        /\ ledger'.resident_bytes = ledger.resident_bytes + Allocation[k]
        /\ ledger'.retiring_bytes = ledger.retiring_bytes
        /\ ledger'.active_loads = ledger.active_loads - 1
    <3> HIDE DEF s, k, n
    <3> QED BY <1>5, <1>7
  <2> HIDE DEF k, s
  <2> QED BY <1>3, <1>4, <2>2, <2>3 DEF Budget, ChargesExact, LedgerInts, ConfigNats
<1>8. CASE /\ e.st = "loading"
           /\ entries' = [entries EXCEPT ![k] = Absent]
           /\ ledger' = [s EXCEPT !.page_pool_bytes = @ - Allocation[k]]
  <2>1. Absent.st = "absent"
    BY DEF Absent
  <2>2. /\ ChargeOf(InState("loading")') = ChargeOf(InState("loading")) - Allocation[k]
        /\ ChargeOf(InState("resident")') = ChargeOf(InState("resident"))
        /\ ChargeOf(InState("retiring")') = ChargeOf(InState("retiring"))
        /\ Cardinality(InState("loading")') = Cardinality(InState("loading")) - 1
        /\ Cardinality(Present') <= Cardinality(Present)
    <3> HIDE DEF k
    <3> QED BY <1>2, <1>3, <1>8, <2>1, OneMoves, Zenon
  <2>3. /\ ledger'.page_pool_bytes = ledger.page_pool_bytes - Allocation[k]
        /\ ledger'.inflight_bytes = ledger.inflight_bytes - Allocation[k]
        /\ ledger'.resident_bytes = ledger.resident_bytes
        /\ ledger'.retiring_bytes = ledger.retiring_bytes
        /\ ledger'.active_loads = ledger.active_loads - 1
    <3> HIDE DEF s, k, n
    <3> QED BY <1>5, <1>8
  <2> HIDE DEF k, s
  <2> QED BY <1>3, <1>4, <2>2, <2>3 DEF Budget, ChargesExact, LedgerInts, ConfigNats
<1> QED BY <1>6, <1>7, <1>8, Zenon DEF Complete

(* shutdown: unleased residents give their charge back, leased ones retire. *)
LEMMA BudgetShutdown ==
  ASSUME Typed, Budget, Shutdown
  PROVE  Budget'
<1> DEFINE leased == InState("resident") \ Candidates
<1>1. ledger \in Ledger /\ entries \in [Keys -> Entry] /\ WaitersFinite
  BY DEF Typed, TypeOK
<1>2. /\ LedgerInts /\ ConfigNats
      /\ Cardinality(Present) \in Nat /\ Cardinality(Present') \in Nat
      /\ ChargeOf(InState("resident")) \in Nat /\ ChargeOf(InState("retiring")) \in Nat
  BY <1>1, StateSets, Numbers
<1>3. /\ Candidates \in SUBSET InState("resident") /\ leased \in SUBSET Keys
      /\ Candidates \in SUBSET Keys
  BY DEF Candidates, InState
<1>4. ASSUME NEW k \in Keys
      PROVE  entries'[k].st = IF k \in Candidates THEN "absent"
                              ELSE IF k \in leased THEN "retiring" ELSE entries[k].st
  <2>1. entries' = [j \in Keys |-> [Invalidated(entries[j]) EXCEPT !.waiters = {}]]
    BY DEF Shutdown
  <2>2. Invalidated(entries[k]) \in Entry
    BY <1>1, EntryTypes DEF WaitersFinite
  <2>3. [Invalidated(entries[k]) EXCEPT !.waiters = {}].st = Invalidated(entries[k]).st
    BY <2>2 DEF Entry
  <2>4. entries'[k].st = Invalidated(entries[k]).st
    BY <2>1, <2>3, Zenon
  <2>5. Invalidated(entries[k]).st = IF k \in Candidates THEN "absent"
                                     ELSE IF k \in leased THEN "retiring" ELSE entries[k].st
    <3>1. entries[k] \in Entry /\ entries[k].leases \in Nat
      BY <1>1 DEF Entry
    <3>2. CASE entries[k].st = "loading"
      BY <3>1, <3>2 DEF Invalidated, Entry, Candidates, InState
    <3>3. CASE entries[k].st = "resident"
      BY <3>1, <3>3 DEF Invalidated, RetiringEntry, Absent, Candidates, InState
    <3>4. CASE entries[k].st \notin {"loading", "resident"}
      BY <3>1, <3>4 DEF Invalidated, Candidates, InState
    <3> QED BY <3>2, <3>3, <3>4
  <2> QED BY <2>4, <2>5
<1>5. /\ InState("loading")' = InState("loading") /\ InState("resident")' = {}
      /\ InState("retiring")' = InState("retiring") \cup leased
      /\ InState("retiring") \cap leased = {}
      /\ Present' \in SUBSET Present
  <2>1. InState("loading")' = InState("loading")
    BY <1>3, <1>4 DEF InState, Candidates
  <2>2. InState("resident")' = {}
    BY <1>3, <1>4, SMTT(30) DEF InState, Candidates
  <2>3. InState("retiring")' = InState("retiring") \cup leased
    BY <1>3, <1>4 DEF InState, Candidates
  <2>4. InState("retiring") \cap leased = {}
    BY DEF InState
  <2>5. Present' \in SUBSET Present
    BY <1>3, <1>4 DEF Present, InState, Candidates
  <2> QED BY <2>1, <2>2, <2>3, <2>4, <2>5, SMTT(30)
<1>6. /\ ChargeOf(InState("loading")') = ChargeOf(InState("loading"))
      /\ Cardinality(InState("loading")') = Cardinality(InState("loading"))
      /\ ChargeOf(InState("resident")') = 0
  BY <1>5, ChargeEmpty, Zenon
<1>7. ChargeOf(InState("retiring")') = ChargeOf(InState("retiring")) + ChargeOf(leased)
  <2>1. ChargeOf(InState("retiring") \cup leased) = ChargeOf(InState("retiring")) + ChargeOf(leased)
    BY <1>3, <1>5, StateSets, ChargeUnion, SMTT(30)
  <2> QED BY <1>5, <2>1, Zenon
<1>8. Cardinality(Present') <= Cardinality(Present)
  BY <1>5, StateSets, FS_Subset, SMTT(30)
<1>9. ChargeOf(leased) = ChargeOf(InState("resident")) - ChargeOf(Candidates)
  BY <1>3, StateSets, ChargeDifference
<1>10. ChargeOf(leased) \in Nat /\ ChargeOf(Candidates) \in Nat
  BY <1>3, ChargeType
<1>11. /\ ledger'.page_pool_bytes = ledger.page_pool_bytes - ChargeOf(Candidates)
       /\ ledger'.inflight_bytes = ledger.inflight_bytes
       /\ ledger'.resident_bytes = ledger.resident_bytes - ChargeOf(InState("resident"))
       /\ ledger'.retiring_bytes = ledger.retiring_bytes + ChargeOf(leased)
       /\ ledger'.active_loads = ledger.active_loads
  <2>1. ledger' = [ledger EXCEPT
                      !.page_pool_bytes = @ - ChargeOf(Candidates),
                      !.resident_bytes = @ - ChargeOf(InState("resident")),
                      !.retiring_bytes = @ + ChargeOf(leased),
                      !.waiters = @ - Cardinality(Drained),
                      !.lease_reservations = @ - Cardinality(Drained)]
    BY DEF Shutdown
  <2> HIDE DEF leased
  <2> QED BY <1>1, <2>1 DEF Ledger
<1> HIDE DEF leased
<1>12. ChargesExact'
  BY <1>2, <1>6, <1>7, <1>9, <1>10, <1>11, SMTT(30) DEF Budget, ChargesExact, LedgerInts
<1> QED BY <1>2, <1>8, <1>10, <1>11, <1>12 DEF Budget, LedgerInts, ConfigNats

(* Whoever drops a channel releases at most one lease.                      *)
LEMMA BudgetDropChannel ==
  ASSUME Typed, Budget, NEW t \in Tasks, tasks[t].st # "idle", NEW next, DropChannel(t, next)
  PROVE  Budget'
<1>1. tasks[t].key \in Keys
  BY ActorTypes DEF Typed, TypeOK
<1>2. CASE ReleaseLease(tasks[t].key, tasks[t].generation)
  BY <1>1, <1>2, BudgetRelease
<1>3. CASE UNCHANGED <<entries, ledger>>
  BY <1>3, BudgetSame
<1> QED BY <1>2, <1>3, Zenon DEF DropChannel

(* Every action preserves the byte budget.                                  *)
LEMMA BudgetStep == Typed /\ Budget /\ [Next]_vars => Budget'
<1> SUFFICES ASSUME Typed, Budget, [Next]_vars PROVE Budget'
  OBVIOUS
<1>0. /\ entries \in [Keys -> Entry] /\ ledger \in Ledger /\ WaitersFinite
      /\ workers \in [Workers -> Worker] /\ tasks \in [Tasks -> Task] /\ waiter \in Nat
  BY DEF Typed, TypeOK
<1>1. ASSUME UNCHANGED <<entries, ledger>> PROVE Budget'
  BY <1>1, BudgetSame
<1>2. ASSUME NEW t \in Tasks, NEW k \in Keys, GetHit(t, k) PROVE Budget'
  <2>1. /\ entries' = [entries EXCEPT ![k] = Leased(entries[k], tick')]
        /\ ledger' = [ledger EXCEPT !.leases = @ + 1]
    BY <1>2 DEF GetHit
  <2>2. Leased(entries[k], tick').st = entries[k].st
    BY <1>0 DEF Leased, Entry
  <2>3. \A j \in Keys : entries'[j].st = entries[j].st
    BY <1>0, <2>1, <2>2
  <2> QED BY <1>0, <2>1, <2>3, BudgetSame, SMTT(30) DEF Ledger
<1>3. ASSUME NEW t \in Tasks, NEW k \in Keys, GetJoin(t, k) PROVE Budget'
  <2>1. /\ entries' = [entries EXCEPT ![k] = Joined(entries[k], waiter', tick')]
        /\ ledger' = [ledger EXCEPT !.waiters = @ + 1, !.lease_reservations = @ + 1]
    BY <1>3 DEF GetJoin
  <2>2. Joined(entries[k], waiter', tick').st = entries[k].st
    BY <1>0 DEF Joined, Entry
  <2>3. \A j \in Keys : entries'[j].st = entries[j].st
    BY <1>0, <2>1, <2>2
  <2> QED BY <1>0, <2>1, <2>3, BudgetSame, SMTT(30) DEF Ledger
<1>4. ASSUME NEW t \in Tasks, NEW k \in Keys, GetMiss(t, k) PROVE Budget'
  <2>1. PICK V \in VictimPlans(k) : StartLoad(k, V, {waiter'}, "demand")
    BY <1>4 DEF GetMiss
  <2>2. entries[k].st = "absent" /\ {waiter'} \in SUBSET Nat
    BY <1>0, <1>4 DEF GetMiss
  <2> QED BY <2>1, <2>2, BudgetStart
<1>5. ASSUME NEW k \in Keys, PrefetchStart(k) PROVE Budget'
  <2>1. PICK V \in VictimPlans(k) : StartLoad(k, V, {}, "prefetch")
    BY <1>5 DEF PrefetchStart
  <2>2. entries[k].st = "absent" /\ {} \in SUBSET Nat
    BY <1>5 DEF PrefetchStart
  <2> QED BY <2>1, <2>2, BudgetStart
<1>6. ASSUME NEW k \in Keys, GetUnwound(k) \/ PrefetchUnwound(k) PROVE Budget'
  BY <1>6, BudgetUnwind DEF GetUnwound, PrefetchUnwound
<1>7. ASSUME NEW k \in Keys, PrefetchCoalesce(k) PROVE Budget'
  <2>1. UNCHANGED ledger /\ \A j \in Keys : entries'[j].st = entries[j].st
    BY <1>0, <1>7 DEF PrefetchCoalesce, Entry
  <2> QED BY <2>1, BudgetSame
<1>8. ASSUME NEW t \in Tasks, MarkPrefetchUse(t) PROVE Budget'
  <2> DEFINE k == tasks[t].key
  <2>1. tasks[t] \in Task /\ tasks[t].st # "idle" /\ UNCHANGED ledger
    BY <1>0, <1>8 DEF MarkPrefetchUse
  <2>2. k \in Keys
    BY <2>1, ActorTypes, SMTT(30)
  <2>3. \/ entries' = entries
        \/ entries' = [entries EXCEPT ![k] = [entries[k] EXCEPT !.prefetched_unused = FALSE]]
    BY <1>0, <1>8, <2>2, SMTT(30) DEF MarkPrefetchUse
  <2>4. [entries[k] EXCEPT !.prefetched_unused = FALSE].st = entries[k].st
    BY <1>0, <2>2 DEF Entry
  <2>5. \A j \in Keys : entries'[j].st = entries[j].st
    <3> HIDE DEF k
    <3> QED BY <1>0, <2>2, <2>3, <2>4, Zenon
  <2> QED BY <2>1, <2>5, BudgetSame, SMTT(30)
<1>9. ASSUME NEW t \in Tasks, Withdraw(t) \/ WithdrawAbandoned(t) PROVE Budget'
  <2>1. tasks[t] \in Task /\ tasks[t].st # "idle"
    BY <1>0, <1>9 DEF Withdraw, WithdrawAbandoned
  <2>2. tasks[t].key \in Keys
    BY <2>1, ActorTypes
  <2> QED BY <1>9, <2>2, BudgetWithdraw, SMTT(30) DEF Withdraw, WithdrawAbandoned
<1>10. ASSUME NEW t \in Tasks, DropReceiver(t) \/ Abandon(t) PROVE Budget'
  BY <1>10, BudgetDropChannel DEF DropReceiver, Abandon
<1>11. ASSUME NEW t \in Tasks, DropLease(t) PROVE Budget'
  <2>1. tasks[t] \in Task /\ tasks[t].st # "idle"
    BY <1>0, <1>11, SMTT(30) DEF DropLease
  <2>2. tasks[t].key \in Keys
    BY <2>1, ActorTypes
  <2> QED BY <1>11, <2>2, BudgetRelease DEF DropLease
<1>12. ASSUME NEW w \in Workers, NEW i, Send(w, i) PROVE Budget'
  <2>1. workers[w] \in Worker /\ workers[w].st # "parked"
    BY <1>0, <1>12, SMTT(30) DEF Send
  <2>2. workers[w].key \in Keys
    BY <2>1, ActorTypes
  <2>3. ReleaseLease(workers[w].key, workers[w].generation) \/ UNCHANGED <<entries, ledger>>
    BY <1>12, Zenon DEF Send
  <2> QED BY <1>1, <2>2, <2>3, BudgetRelease, SMTT(30)
<1>13. CASE GetStep
  <2>1. ASSUME GetRefused \/ \E k \in Keys : GetDenied(k) PROVE Budget'
    BY <1>1, <2>1 DEF GetDenied, GetRefused
  <2> QED BY <1>2, <1>3, <1>4, <1>6, <1>13, <2>1, SMTT(30) DEF GetStep
<1>14. CASE PrefetchStep
  <2>1. ASSUME NEW k \in Keys, PrefetchDropped(k) PROVE Budget'
    BY <1>1, <2>1, SMTT(30) DEF PrefetchDropped
  <2> QED BY <1>5, <1>6, <1>7, <1>14, <2>1, SMTT(30) DEF PrefetchStep
<1>15. ASSUME NEW t \in Tasks, TaskStep(t) PROVE Budget'
  <2>1. ASSUME CountUse(t) \/ Poll(t) \/ DropPayload(t) PROVE Budget'
    BY <1>1, <2>1 DEF CountUse, Poll, DropPayload, cacheVars
  <2> QED BY <1>8, <1>9, <1>10, <1>11, <1>15, <2>1, SMTT(30) DEF TaskStep
<1>16. CASE ShutdownStep
  <2>1. ASSUME NEW i \in failing, FailWaiter(i) PROVE Budget'
    BY <1>1, <2>1, SMTT(30) DEF FailWaiter, cacheVars
  <2> QED BY <1>16, <2>1, BudgetShutdown, SMTT(30) DEF ShutdownStep
<1>17. ASSUME NEW w \in Workers, WorkerStep(w) PROVE Budget'
  <2>1. ASSUME Dequeue(w) \/ Read(w) \/ DropReturned(w) PROVE Budget'
    BY <1>1, <2>1, ZenonT(60) DEF Dequeue, Read, DropReturned, cacheVars
  <2> QED BY <1>12, <1>17, <2>1, BudgetComplete, SMTT(30) DEF WorkerStep
<1>18. CASE CloseReader \/ UNCHANGED vars
  BY <1>1, <1>18, SMTT(30) DEF CloseReader, vars, cacheVars
<1> QED BY <1>13, <1>14, <1>15, <1>16, <1>17, <1>18, BudgetInvalidate, SMTT(30) DEF Next

(* The queue is never longer than the channel's capacity.                   *)
QueueBounded == Len(queue) <= QueueCapacity

(* The reader queue stays within queue_capacity.                            *)
LEMMA QueueStep == Typed /\ QueueBounded /\ [Next]_vars => QueueBounded'
<1> SUFFICES ASSUME Typed, QueueBounded, [Next]_vars PROVE QueueBounded'
  OBVIOUS
<1>0. queue \in Seq(Job) /\ QueueCapacity \in Nat
  BY CacheConfigValid DEF Typed, TypeOK
<1>1. ASSUME UNCHANGED queue PROVE QueueBounded'
  BY <1>1 DEF QueueBounded
<1>2. ASSUME NEW k, NEW V, NEW ws, NEW o, StartLoad(k, V, ws, o) PROVE QueueBounded'
  <2>1. Len(queue) < QueueCapacity /\ \E j : queue' = Append(queue, j)
    BY <1>2 DEF StartLoad, QueueAccepts
  <2>2. Len(queue') = Len(queue) + 1 /\ Len(queue) \in Nat
    BY <1>0, <2>1
  <2> QED BY <1>0, <2>1, <2>2, SMTT(30) DEF QueueBounded
<1>3. ASSUME NEW w \in Workers, Dequeue(w) PROVE QueueBounded'
  <2>1. queue # <<>> /\ queue' = Tail(queue)
    BY <1>3 DEF Dequeue
  <2>2. Len(queue') = Len(queue) - 1 /\ Len(queue) \in Nat
    BY <1>0, <2>1
  <2> QED BY <1>0, <2>2 DEF QueueBounded
<1>4. CASE GetStep
  <2>1. ASSUME GetRefused \/ \E k \in Keys : GetUnwound(k) \/ GetDenied(k) PROVE QueueBounded'
    BY <1>1, <2>1, Zenon DEF GetUnwound, GetDenied, GetRefused, UnwindLoad, readerVars
  <2>2. ASSUME NEW t \in Tasks, NEW k \in Keys, GetHit(t, k) \/ GetJoin(t, k) PROVE QueueBounded'
    BY <1>1, <2>2 DEF GetHit, GetJoin, readerVars
  <2>3. ASSUME NEW t \in Tasks, NEW k \in Keys, GetMiss(t, k) PROVE QueueBounded'
    BY <1>2, <2>3, SMTT(30) DEF GetMiss
  <2> QED BY <1>4, <2>1, <2>2, <2>3 DEF GetStep
<1>5. CASE PrefetchStep
  <2>1. ASSUME NEW k \in Keys, PrefetchCoalesce(k) \/ PrefetchUnwound(k) \/ PrefetchDropped(k)
        PROVE  QueueBounded'
    BY <1>1, <2>1, Zenon DEF PrefetchCoalesce, PrefetchUnwound, PrefetchDropped, UnwindLoad, readerVars
  <2>2. ASSUME NEW k \in Keys, PrefetchStart(k) PROVE QueueBounded'
    BY <1>2, <2>2 DEF PrefetchStart
  <2> QED BY <1>5, <2>1, <2>2, SMTT(30) DEF PrefetchStep
<1>6. ASSUME NEW t \in Tasks, TaskStep(t) PROVE QueueBounded'
  BY <1>1, <1>6, Zenon DEF TaskStep, MarkPrefetchUse, CountUse, Poll, Withdraw, WithdrawAbandoned,
                    DropReceiver, Abandon, DropChannel, WithdrawWaiter, DropLease, DropPayload,
                    readerVars
<1>7. CASE ShutdownStep \/ CloseReader \/ UNCHANGED vars
  BY <1>1, <1>7 DEF ShutdownStep, Shutdown, FailWaiter, CloseReader, vars, readerVars
<1>8. ASSUME NEW k \in Keys, Invalidate(k) PROVE QueueBounded'
  BY <1>1, <1>8 DEF Invalidate, readerVars
<1>9. ASSUME NEW w \in Workers, WorkerStep(w) PROVE QueueBounded'
  BY <1>1, <1>3, <1>9, Zenon DEF WorkerStep, Read, Complete, DropReturned, Send
<1> QED BY <1>4, <1>5, <1>6, <1>7, <1>8, <1>9, SMTT(30) DEF Next
==============================================================================

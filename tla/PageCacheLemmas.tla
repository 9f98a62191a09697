--------------------------- MODULE PageCacheLemmas ---------------------------
(* Facts about the definitions of PageCharges and PageCache that the proofs *)
(* share.                                                                   *)
EXTENDS PageCache, FiniteSetTheorems, TLAPS

-----------------------------------------------------------------------------
(* Arithmetic of the byte charge: it is a natural number, and adding or     *)
(* removing pages adds or removes exactly their allocations.                *)

(* The quanta of one page, and of a set of pages, are finite.               *)
LEMMA QuantaFinite ==
  ASSUME NEW S \in SUBSET Keys
  PROVE  IsFiniteSet(Quanta(S))
<1> DEFINE f == [k \in S |-> {k} \X (1 .. Allocation[k])]
           T == {{k} \X (1 .. Allocation[k]) : k \in S}
<1>1. IsFiniteSet(S)
  BY FS_Subset, PagesAssumption, Zenon
<1>2. \A k \in S : IsFiniteSet({k} \X (1 .. Allocation[k]))
  <2> TAKE k \in S
  <2>1. Allocation[k] \in Int
    BY PagesAssumption
  <2>2. IsFiniteSet(1 .. Allocation[k])
    BY <2>1, FS_Interval
  <2> QED BY <2>2, FS_Singleton, FS_Product, Zenon
<1>3. f \in Surjection(S, T)
  BY Zenon DEF Surjection
<1>4. IsFiniteSet(T)
  BY <1>1, <1>3, FS_Surjection
<1>5. \A t \in T : IsFiniteSet(t)
  BY <1>2
<1> QED BY <1>4, <1>5, FS_UNION, Zenon DEF Quanta

(* The charge of a set of pages is a natural number.                        *)
LEMMA ChargeType ==
  ASSUME NEW S \in SUBSET Keys
  PROVE  ChargeOf(S) \in Nat
BY QuantaFinite, FS_CardinalityType DEF ChargeOf

(* No page, no charge.                                                      *)
LEMMA ChargeEmpty == ChargeOf({}) = 0
<1>1. Quanta({}) = {}
  BY DEF Quanta
<1> QED BY <1>1, FS_EmptySet DEF ChargeOf

(* One page is charged its allocation.                                      *)
LEMMA ChargeOne ==
  ASSUME NEW k \in Keys
  PROVE  ChargeOf({k}) = Allocation[k]
<1>1. Allocation[k] \in Nat \ {0}
  BY PagesAssumption
<1>2. ChargeOf({k}) = Cardinality({k} \X (1 .. Allocation[k]))
  <2>1. Quanta({k}) = {k} \X (1 .. Allocation[k])
    BY DEF Quanta
  <2> QED BY <2>1, Zenon DEF ChargeOf
<1>3. IsFiniteSet(1 .. Allocation[k]) /\ Cardinality(1 .. Allocation[k]) = Allocation[k]
  <2>1. 1 \in Int /\ Allocation[k] \in Int /\ ~(1 > Allocation[k])
    BY <1>1
  <2>2. /\ IsFiniteSet(1 .. Allocation[k])
        /\ Cardinality(1 .. Allocation[k]) = Allocation[k] - 1 + 1
    BY <2>1, FS_Interval, Zenon
  <2> QED BY <2>1, <2>2
<1>4. IsFiniteSet({k}) /\ Cardinality({k}) = 1
  BY FS_Singleton
<1>5. Cardinality({k} \X (1 .. Allocation[k])) = Cardinality({k}) * Cardinality(1 .. Allocation[k])
  BY <1>3, <1>4, FS_Product, Zenon
<1> QED BY <1>1, <1>2, <1>3, <1>4, <1>5, SMTT(30)

(* Disjoint sets of pages are charged separately.                           *)
LEMMA ChargeUnion ==
  ASSUME NEW S \in SUBSET Keys, NEW V \in SUBSET Keys, S \cap V = {}
  PROVE  ChargeOf(S \cup V) = ChargeOf(S) + ChargeOf(V)
<1>1. ChargeOf(S \cup V) = Cardinality(Quanta(S) \cup Quanta(V))
  <2>1. Quanta(S \cup V) = Quanta(S) \cup Quanta(V)
    BY DEF Quanta
  <2> QED BY <2>1, Zenon DEF ChargeOf
<1>2. Quanta(S) \cap Quanta(V) = {}
  BY DEF Quanta
<1>3. IsFiniteSet(Quanta(S)) /\ IsFiniteSet(Quanta(V))
  BY QuantaFinite
<1>4. Cardinality(Quanta(S) \cup Quanta(V))
        = Cardinality(Quanta(S)) + Cardinality(Quanta(V)) - Cardinality({})
  BY <1>2, <1>3, FS_Union
<1>5. Cardinality(Quanta(S)) \in Nat /\ Cardinality(Quanta(V)) \in Nat
  BY <1>3, FS_CardinalityType
<1> QED BY <1>1, <1>4, <1>5, FS_EmptySet DEF ChargeOf

(* Taking pages out of a set takes their charge out of its charge.          *)
LEMMA ChargeDifference ==
  ASSUME NEW S \in SUBSET Keys, NEW V \in SUBSET S
  PROVE  ChargeOf(S \ V) = ChargeOf(S) - ChargeOf(V)
<1>1. ChargeOf((S \ V) \cup V) = ChargeOf(S \ V) + ChargeOf(V)
  BY ChargeUnion
<1>2. ChargeOf((S \ V) \cup V) = ChargeOf(S)
  <2>1. (S \ V) \cup V = S
    OBVIOUS
  <2> QED BY <2>1, Zenon
<1>3. ChargeOf(S \ V) \in Nat /\ ChargeOf(V) \in Nat
  BY ChargeType
<1> QED BY <1>1, <1>2, <1>3

(* Adding one page adds its allocation.                                     *)
LEMMA ChargeAdd ==
  ASSUME NEW S \in SUBSET Keys, NEW k \in Keys \ S
  PROVE  ChargeOf(S \cup {k}) = ChargeOf(S) + Allocation[k]
<1>1. S \cap {k} = {}
  OBVIOUS
<1> QED BY <1>1, ChargeUnion, ChargeOne, Zenon

(* Removing one page removes its allocation.                                *)
LEMMA ChargeRemove ==
  ASSUME NEW S \in SUBSET Keys, NEW k \in S
  PROVE  ChargeOf(S \ {k}) = ChargeOf(S) - Allocation[k]
BY ChargeDifference, ChargeOne, Zenon

-----------------------------------------------------------------------------
(* The waiter lists of the loads are finite, so that they can be counted.   *)
WaitersFinite == \A k \in Keys : IsFiniteSet(entries[k].waiters)

Typed == TypeOK /\ WaitersFinite

-----------------------------------------------------------------------------
(* The entries the code builds are entries, and their waiters are finite.   *)
LEMMA EntryTypes ==
  /\ Absent \in Entry /\ IsFiniteSet(Absent.waiters)
  /\ \A e \in Entry : IsFiniteSet(e.waiters) =>
       /\ ResidentEntry(e) \in Entry /\ IsFiniteSet(ResidentEntry(e).waiters)
       /\ RetiringEntry(e) \in Entry /\ IsFiniteSet(RetiringEntry(e).waiters)
       /\ Invalidated(e) \in Entry /\ IsFiniteSet(Invalidated(e).waiters)
<1>1. Absent \in Entry /\ IsFiniteSet(Absent.waiters)
  BY FS_EmptySet DEF Absent, Entry
<1>2. ASSUME NEW e \in Entry, IsFiniteSet(e.waiters)
      PROVE  ResidentEntry(e) \in Entry /\ IsFiniteSet(ResidentEntry(e).waiters)
  <2>1. Cardinality(e.waiters) \in Nat
    BY <1>2, FS_CardinalityType
  <2> DEFINE n == Cardinality(e.waiters)
             b == e.prefetch_interest /\ e.waiters = {}
             r == [st |-> "resident", generation |-> e.generation, waiters |-> {},
                   origin |-> "none", prefetch_interest |-> FALSE,
                   accepting_waiters |-> FALSE, last_touch |-> e.last_touch,
                   leases |-> n, prefetched_unused |-> b]
  <2>2. ResidentEntry(e) = r
    <3>1. ResidentEntry(e) = [Absent EXCEPT !.st = "resident",
                                !.generation = e.generation, !.leases = n,
                                !.last_touch = e.last_touch, !.prefetched_unused = b]
      BY Zenon DEF ResidentEntry
    <3> HIDE DEF n, b
    <3> QED BY <3>1, Zenon DEF Absent
  <2>3. n \in Nat /\ b \in BOOLEAN /\ e.generation \in Nat /\ e.last_touch \in Nat
    BY <2>1, <1>2 DEF Entry
  <2>4. r \in Entry /\ r.waiters = {}
    <3> HIDE DEF n, b
    <3> QED BY <2>3 DEF Entry
  <2> HIDE DEF r
  <2> QED BY <2>2, <2>4, FS_EmptySet
<1>3. ASSUME NEW e \in Entry, IsFiniteSet(e.waiters)
      PROVE  RetiringEntry(e) \in Entry /\ IsFiniteSet(RetiringEntry(e).waiters)
  BY <1>3, FS_EmptySet, ZenonT(60) DEF RetiringEntry, Absent, Entry
<1>4. ASSUME NEW e \in Entry, IsFiniteSet(e.waiters)
      PROVE  Invalidated(e) \in Entry /\ IsFiniteSet(Invalidated(e).waiters)
  <2>1. CASE e.st = "loading"
    BY <2>1, <1>4, Zenon DEF Invalidated, Entry
  <2>2. CASE e.st # "loading"
    BY <2>2, <1>1, <1>3, <1>4 DEF Invalidated
  <2> QED BY <2>1, <2>2
<1> QED BY <1>1, <1>2, <1>3, <1>4

(* A loading entry is an entry with the waiters it is given.                *)
LEMMA LoadingType ==
  ASSUME NEW g \in Nat, NEW t \in Nat, NEW ws \in SUBSET Nat,
         NEW o \in {"demand", "prefetch"}
  PROVE  /\ LoadingEntry(g, ws, o, t) \in Entry
         /\ LoadingEntry(g, ws, o, t).waiters = ws
         /\ LoadingEntry(g, ws, o, t).st = "loading"
BY DEF LoadingEntry, Absent, Entry

(* Updating an entry keeps it an entry in the same state: a lease more, ... *)
LEMMA LeasedType ==
  ASSUME NEW e \in Entry, NEW t \in Nat
  PROVE  Leased(e, t) \in Entry /\ Leased(e, t).waiters = e.waiters /\ Leased(e, t).st = e.st
<1>1. e.leases + 1 \in Nat
  BY DEF Entry
<1>2. [e EXCEPT !.last_touch = t] \in Entry
  BY DEF Entry
<1> QED BY <1>1, <1>2, Zenon DEF Leased, Entry

(* ... a lease less, ...                                                    *)
LEMMA ReleasedType ==
  ASSUME NEW e \in Entry
  PROVE  /\ e.leases > 0 => Released(e) \in Entry
         /\ Released(e).waiters = e.waiters /\ Released(e).st = e.st
BY DEF Released, Entry

(* ... a waiter more, ...                                                   *)
LEMMA JoinedType ==
  ASSUME NEW e \in Entry, NEW i \in Nat, NEW t \in Nat, IsFiniteSet(e.waiters)
  PROVE  /\ Joined(e, i, t) \in Entry /\ Joined(e, i, t).st = e.st
         /\ IsFiniteSet(Joined(e, i, t).waiters)
<1>1. /\ Joined(e, i, t) \in Entry /\ Joined(e, i, t).st = e.st
      /\ Joined(e, i, t).waiters = e.waiters \cup {i}
  BY Zenon DEF Joined, Entry
<1>2. IsFiniteSet(e.waiters \cup {i})
  BY FS_AddElement
<1> QED BY <1>1, <1>2, Zenon

(* ... a waiter less.                                                       *)
LEMMA LeftType ==
  ASSUME NEW e \in Entry, NEW i, IsFiniteSet(e.waiters)
  PROVE  Left(e, i) \in Entry /\ Left(e, i).st = e.st /\ IsFiniteSet(Left(e, i).waiters)
<1>1. Left(e, i) \in Entry /\ Left(e, i).st = e.st /\ Left(e, i).waiters = e.waiters \ {i}
  BY Zenon DEF Left, Entry
<1>2. IsFiniteSet(e.waiters \ {i})
  BY FS_RemoveElement
<1> QED BY <1>1, <1>2, Zenon

-----------------------------------------------------------------------------
(* What the helpers the actions share do to the types.                      *)

(* The history of accesses stays a function to the natural numbers.         *)
LEMMA AccessType ==
  ASSUME Typed, tick' \in Nat, NEW k, Access(k)
  PROVE  requested' \in [Keys -> Nat]
BY DEF Typed, TypeOK, Access

(* Counting the unused prefetches of a set of pages.                        *)
LEMMA UnusedType ==
  ASSUME NEW V \in SUBSET Keys
  PROVE  Unused(V) \in Nat
<1>1. {k \in V : entries[k].prefetched_unused} \in SUBSET Keys
  OBVIOUS
<1> QED BY <1>1, FS_Subset, FS_CardinalityType, PagesAssumption DEF Unused

(* Victims are unleased residents.                                          *)
LEMMA PlanCandidates ==
  ASSUME NEW k, NEW V \in VictimPlans(k)
  PROVE  /\ V \subseteq Candidates /\ V \in SUBSET Keys
         /\ LoadSlot(k) /\ Fits(k, V)
BY DEF VictimPlans, Prefixes, Candidates, InState

(* Replacing one entry by a typed one with finite waiters.                  *)
LEMMA EntriesUpdate ==
  ASSUME Typed, NEW k \in Keys, NEW e \in Entry, IsFiniteSet(e.waiters),
         entries' = [entries EXCEPT ![k] = e]
  PROVE  entries' \in [Keys -> Entry] /\ WaitersFinite'
BY DEF Typed, TypeOK, WaitersFinite

(* The cases of release_lease.                                              *)
LEMMA ReleaseCases ==
  ASSUME NEW k, NEW g, ReleaseLease(k, g)
  PROVE  \/ UNCHANGED <<entries, ledger, metrics>>
         \/ /\ entries[k].st = "retiring"
            /\ entries' = [entries EXCEPT ![k] = Absent]
            /\ ledger' = [ledger EXCEPT !.leases = @ - 1, !.page_pool_bytes = @ - Allocation[k],
                                        !.retiring_bytes = @ - Allocation[k]]
            /\ metrics' = [metrics EXCEPT !.wasted_prefetch = @ + Unused({k})]
         \/ /\ entries[k].leases > 0
            /\ entries' = [entries EXCEPT ![k] = Released(entries[k])]
            /\ ledger' = [ledger EXCEPT !.leases = @ - 1]
            /\ UNCHANGED metrics
BY Zenon DEF ReleaseLease, LastLease

(* Records of tasks and workers.                                            *)
LEMMA ActorTypes ==
  /\ Idle \in Task /\ Parked \in Worker
  /\ \A t \in Task : t.st # "idle" =>
       /\ t.key \in Keys /\ t.generation \in Nat /\ t.waiter \in Nat
       /\ t.channel \in {"empty", "lease", "error"}
  /\ \A w \in Worker : w.st # "parked" => w.key \in Keys /\ w.out \subseteq Nat
BY DEF Task, Worker, Idle, Parked
==============================================================================

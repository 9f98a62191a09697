------------------------------ MODULE CacheSim ------------------------------
(* The simulator kernel (runnel-sim/src/engine.rs): a validated trace is    *)
(* replayed under one policy and one capacity.  The trace is built event by *)
(* event, as validate_events accepts it; a replay is then sequential, one   *)
(* action per demand, per signal and per expert group of a signal.          *)
(* Counters are 64-bit checked sums in the code; no replay of a bounded     *)
(* trace comes near their limit.                                            *)
EXTENDS CachePolicy

CONSTANTS
  EventRecords,     \* events of a trace, without their sequence number
  Policies,         \* the policy settings replayed
  Capacities,       \* the page-pool capacities
  Hashes,           \* the hash maps of the TinyLFU sketch
  SketchRows, SketchColumns, SketchSamples

VARIABLES
  stage,      \* loading, replay, group, done, failed
  events,     \* the trace
  checked,    \* the state of validate_events while the trace is built
  spec, capacity,
  position,   \* how many events have been taken from the trace
  cache,      \* [residents, resident_bytes, peak, touch, failure]
  metrics,    \* SimulationMetrics
  active,     \* the live router signals
  metadata,   \* [current, peak, recorded, limit], the router's byte ledger
  selected,   \* the predictions of the signal still to be prefetched
  budget,     \* [pages, bytes] left to the signal
  column, sample, counters, door, observed, seen

sketch == <<column, sample, counters, door, observed, seen>>
vars == <<stage, events, checked, spec, capacity, position, cache, metrics, active,
          metadata, selected, budget, sketch>>

Tiny == INSTANCE TinyLfu WITH Pages <- PageIds, Rows <- SketchRows, Columns <- SketchColumns,
                              Samples <- SketchSamples

-----------------------------------------------------------------------------
(* SimulationMetrics: counters that go with a byte counter, and the others. *)
Tallied == {"demand", "ordinary_hit", "useful_hit", "miss", "load", "offered", "admitted",
            "useful", "wasted", "redundant", "dropped"}
NoMetrics == [tally |-> [t \in Tallied |-> [n |-> 0, bytes |-> 0]],
              admissions |-> 0, bypasses |-> 0, evictions |-> 0, evicted_charge |-> 0]

(* SimulationMetrics::add for the pages of S, in one tally.                 *)
Tally(m, t, S) ==
  [m EXCEPT !.tally[t] = [n |-> @.n + Cardinality(S), bytes |-> @.bytes + LogicalBytes(S)]]

N(t) == metrics.tally[t].n
B(t) == metrics.tally[t].bytes

NoPolicy == [name |-> "none", protected_fraction_ppm |-> 0, minimum_score_ppm |-> 0,
             max_experts_per_signal |-> 0, max_pages_per_signal |-> 0,
             max_prefetch_bytes_per_signal |-> 0]
EmptyCache == [residents |-> <<>>, resident_bytes |-> 0, peak |-> 0, touch |-> 0, failure |-> "none"]
NoBudget   == [pages |-> 0, bytes |-> 0]

Init ==
  /\ stage = "loading" /\ events = <<>> /\ checked = Unchecked
  /\ spec = NoPolicy /\ capacity = 0 /\ position = 0
  /\ cache = EmptyCache /\ metrics = NoMetrics
  /\ active = {} /\ metadata = [current |-> 0, peak |-> 0, recorded |-> 0, limit |-> 0]
  /\ selected = {} /\ budget = NoBudget
  /\ Tiny!Init

-----------------------------------------------------------------------------
(* The next event of a trace the parser will accept.                        *)
Extend(e) ==
  LET numbered == [e EXCEPT !.sequence = Len(events)]
      next == CheckEvent(Catalog, checked, numbered)
  IN  /\ stage = "loading" /\ Len(events) < MaxEvents
      /\ next.ok
      /\ events' = Append(events, numbered)
      /\ checked' = next
      /\ UNCHANGED <<stage, spec, capacity, position, cache, metrics, active, metadata,
                     selected, budget, sketch>>

(* Among the predictions that reach the threshold, the best scores first    *)
(* and then the lowest experts, up to the limit: the selection of signal.   *)
Better(p, q) == Precedes(<<q.score_ppm, p.expert>>, <<p.score_ppm, q.expert>>)
Selected(s, predictions) ==
  LET reaching == {p \in ToSet(predictions) : p.score_ppm >= s.minimum_score_ppm}
  IN  {p \in reaching : Cardinality({q \in reaching : Better(q, p)}) < s.max_experts_per_signal}

Recorded(s, e) ==
  [request |-> e.request, target_step |-> e.target_step, layer |-> e.layer,
   scores |-> [x \in {p.expert : p \in Selected(s, e.predictions)} |->
                 (CHOOSE p \in Selected(s, e.predictions) : p.expert = x).score_ppm]]

(* router_metadata_limit counts each signal by itself: the predictions over *)
(* the threshold, at most max_experts_per_signal of them.                   *)
RouterMetadataLimit(s, trace) ==
  LET count(e) == Min({Cardinality({i \in DOMAIN e.predictions :
                                      e.predictions[i].score_ppm >= s.minimum_score_ppm}),
                       s.max_experts_per_signal})
      charge(e) == IF e.kind = "signal" /\ count(e) > 0 THEN 24 + 8 * count(e) ELSE 0
  IN  IF Router(s) THEN FoldLeft(LAMBDA sum, e : sum + charge(e), 0, trace) ELSE 0

(* Kernel::new.                                                             *)
Start(s, c) ==
  /\ stage = "loading" /\ TargetsRealized(checked)
  /\ stage' = "replay"
  /\ checked' = Unchecked
  /\ spec' = s /\ capacity' = c
  /\ metadata' = [metadata EXCEPT !.limit = RouterMetadataLimit(s, events)]
  /\ UNCHANGED <<events, position, cache, metrics, active, selected, budget, sketch>>

-----------------------------------------------------------------------------
Fail(c, why) == IF c.failure = "none" THEN [c EXCEPT !.failure = why] ELSE c
Unread(c, S) == {p \in S : p \in DOMAIN c.residents /\ c.residents[p].prefetched_unused}

(* evict, for every victim of a plan.                                       *)
Evict_KeepBytes(c, V) ==
  IF ~(V \subseteq DOMAIN c.residents) THEN Fail(c, "nonresident victim")
  ELSE [c EXCEPT !.residents = Restrict(@, DOMAIN @ \ V)]
Evict(c, V) ==
  IF ~(V \subseteq DOMAIN c.residents) THEN Fail(c, "nonresident victim")
  ELSE IF ChargeBytes(V) > c.resident_bytes THEN Fail(c, "resident underflow")
  ELSE [c EXCEPT !.residents = Restrict(@, DOMAIN @ \ V), !.resident_bytes = @ - ChargeBytes(V)]

EvictedMetrics(m, c, V) ==
  [Tally(m, "wasted", Unread(c, V)) EXCEPT !.evictions = @ + Cardinality(V),
                                           !.evicted_charge = @ + ChargeBytes(V)]

(* insert.                                                                  *)
Entry(touch, unused) ==
  [last_touch |-> touch, segment |-> InitialSegment(spec), prefetched_unused |-> unused]
Insert(c, p, touch, unused) ==
  LET bytes == c.resident_bytes + Charge(p)
  IN  IF bytes > capacity THEN Fail(c, "plan did not free enough")
      ELSE IF p \in DOMAIN c.residents THEN Fail(c, "already resident")
      ELSE [c EXCEPT !.residents = [q \in DOMAIN @ \cup {p} |-> IF q = p THEN Entry(touch, unused) ELSE @[q]],
                     !.resident_bytes = bytes,
                     !.peak = Max({@, bytes}),
                     !.touch = touch]

Upcoming(kind) == /\ stage = "replay" /\ position < Len(events)
                  /\ events[position + 1].kind = kind

(* Any failure ends the replay.                                             *)
Settle(c, then) ==
  /\ cache' = c
  /\ stage' = IF c.failure = "none" THEN then ELSE "failed"

-----------------------------------------------------------------------------
(* demand begins with enter_demand_step and the observation of the page.    *)
Gone(e) == Retired(active, e.request, e.step)
EnterDemandStep(e) ==
  /\ active' = active \ Gone(e)
  /\ metadata' = [metadata EXCEPT !.current = @ - MetadataBytes(Gone(e))]

Entered(e, c) ==
  IF MetadataBytes(Gone(e)) > metadata.current THEN Fail(c, "metadata underflow") ELSE c

ObserveDemand(p) == IF spec.name = "tiny-lfu" THEN Tiny!Observe(p) ELSE UNCHANGED sketch

Estimates == [p \in PageIds |-> Tiny!Estimate(p)]

DemandPlan(e) ==
  PlanDemandVictims(spec, capacity, cache.residents, cache.resident_bytes, active', Estimates',
                    e.page, e.request, e.step)

Demanded(p, t) == Tally(Tally(metrics, "demand", {p}), t, {p})

(* demand: the first demand of a prefetched page.                           *)
UsefulHit(e, p) ==
  /\ p \in DOMAIN cache.residents /\ cache.residents[p].prefetched_unused
  /\ Settle(Entered(e, [cache EXCEPT
                !.touch = @ + 1,
                !.residents = OnHit(spec, capacity, [@ EXCEPT ![p].prefetched_unused = FALSE],
                                    p, cache.touch + 1)]), "replay")
  /\ metrics' = Tally(Demanded(p, "useful_hit"), "useful", {p})

(* demand: any other hit.                                                   *)
OrdinaryHit(e, p) ==
  /\ p \in DOMAIN cache.residents /\ ~cache.residents[p].prefetched_unused
  /\ Settle(Entered(e, [cache EXCEPT
                !.touch = @ + 1,
                !.residents = OnHit(spec, capacity, @, p, cache.touch + 1)]), "replay")
  /\ metrics' = Demanded(p, "ordinary_hit")

Missed(p) == Tally(Demanded(p, "miss"), "load", {p})

(* demand: a miss served without retaining the page.                        *)
BypassMiss(e) ==
  /\ e.page \notin DOMAIN cache.residents
  /\ ~DemandPlan(e).ok
  /\ Settle(Entered(e, [cache EXCEPT !.touch = @ + 1]), "replay")
  /\ metrics' = [Missed(e.page) EXCEPT !.bypasses = @ + 1]

(* demand: a miss that evicts the planned victims and inserts the page.     *)
AdmitMiss(e) ==
  LET plan == DemandPlan(e)
  IN  /\ e.page \notin DOMAIN cache.residents
      /\ plan.ok
      /\ Settle(Entered(e, Insert(Evict(cache, plan.victims), e.page, cache.touch + 1, FALSE)), "replay")
      /\ metrics' = [EvictedMetrics(Missed(e.page), cache, plan.victims) EXCEPT !.admissions = @ + 1]

Demand ==
  LET e == events[position + 1]
  IN  /\ Upcoming("demand")
      /\ EnterDemandStep(e)
      /\ ObserveDemand(e.page)
      /\ UsefulHit(e, e.page) \/ OrdinaryHit(e, e.page) \/ BypassMiss(e) \/ AdmitMiss(e)
      /\ position' = position + 1
      /\ UNCHANGED <<events, checked, spec, capacity, selected, budget>>
-----------------------------------------------------------------------------
(* signal: not a router, or nothing reaches the threshold.                  *)
IgnoreSignal ==
  /\ Upcoming("signal")
  /\ \/ ~Router(spec)
     \/ Selected(spec, events[position + 1].predictions) = {}
  /\ position' = position + 1
  /\ UNCHANGED <<stage, events, checked, spec, capacity, cache, metrics, active, metadata,
                 selected, budget, sketch>>

(* record_signal.                                                           *)
Targeted(e) == {s \in active : /\ s.request = e.request /\ s.target_step = e.target_step
                               /\ s.layer = e.layer}
RecordFailure(e, chosen) ==
  LET charge == SignalBytes(Recorded(spec, e))
  IN  IF Cardinality({p.expert : p \in chosen}) # Cardinality(chosen) THEN "duplicate experts"
      ELSE IF Targeted(e) # {} THEN "target recorded twice"
      ELSE IF \/ metadata.current + charge > metadata.limit
              \/ metadata.recorded + charge > metadata.limit THEN "metadata over its ceiling"
      ELSE "none"

RecordMetadata(charge) ==
  [metadata EXCEPT !.current = @ + charge, !.recorded = @ + charge,
                   !.peak = Max({@, metadata.current + charge})]

(* signal: the selection is recorded; with prefetch, its groups follow.     *)
RecordSignal ==
  LET e == events[position + 1]
      chosen == Selected(spec, e.predictions)
      failure == RecordFailure(e, chosen)
      prefetch == spec.name = "router-prefetch"
  IN  /\ Upcoming("signal")
      /\ Router(spec) /\ chosen # {}
      /\ active' = active \cup {Recorded(spec, e)}
      /\ metadata' = RecordMetadata(SignalBytes(Recorded(spec, e)))
      /\ Settle(IF failure = "none" THEN cache ELSE Fail(cache, failure),
                IF prefetch THEN "group" ELSE "replay")
      /\ selected' = IF prefetch THEN chosen ELSE {}
      /\ budget' = IF prefetch THEN [pages |-> spec.max_pages_per_signal,
                                     bytes |-> spec.max_prefetch_bytes_per_signal] ELSE NoBudget
      /\ position' = position + 1
      /\ UNCHANGED <<events, checked, spec, capacity, metrics, sketch>>

-----------------------------------------------------------------------------
Chosen  == CHOOSE p \in selected : \A q \in selected \ {p} : Better(p, q)
Group   == Groups[<<events[position].layer, Chosen.expert>>]
AbsentOf(c, g) == SelectSeq(g, LAMBDA p : p \notin DOMAIN c.residents)
Absent  == ToSet(AbsentOf(cache, Group))

(* Every page of the group is offered, the resident ones are redundant.     *)
Offered == Tally(Tally(metrics, "offered", ToSet(Group)), "redundant", ToSet(Group) \ Absent)

TakeGroup ==
  /\ stage = "group" /\ selected # {} /\ budget.pages > 0
  /\ selected' = selected \ {Chosen}
  /\ UNCHANGED <<events, checked, spec, capacity, position, active, metadata, sketch>>

PrefetchPlan ==
  PlanPrefetchVictims(capacity, cache.residents, cache.resident_bytes, active, Absent,
                      events[position].request, events[position].target_step, Chosen.score_ppm)

(* The three checks before anything is loaded.                              *)
Affordable ==
  /\ Cardinality(Absent) <= budget.pages
  /\ LogicalBytes(Absent) <= budget.bytes

(* prefetch_group: the group is resident.                                   *)
RedundantGroup ==
  /\ TakeGroup /\ Absent = {}
  /\ metrics' = Offered
  /\ UNCHANGED <<stage, cache, budget>>

(* prefetch_group: over the page limit, over the byte limit, or without a   *)
(* victim plan; drop_prefetches counts the absent pages.                    *)
DropGroup ==
  /\ TakeGroup /\ Absent # {}
  /\ ~Affordable \/ ~PrefetchPlan.ok
  /\ metrics' = Tally(Offered, "dropped", Absent)
  /\ UNCHANGED <<stage, cache, budget>>

(* prefetch_group: the victims go and every absent page comes in.           *)
Prefetched(c, g) == FoldLeft(LAMBDA d, p : Insert(d, p, d.touch + 1, TRUE), c, g)
Spend(b, S) == [pages |-> b.pages - Cardinality(S), bytes |-> b.bytes - LogicalBytes(S)]
AdmitGroup ==
  /\ TakeGroup /\ Absent # {}
  /\ Affordable /\ PrefetchPlan.ok
  /\ Settle(Prefetched(Evict(cache, PrefetchPlan.victims), AbsentOf(cache, Group)), "group")
  /\ metrics' = [Tally(EvictedMetrics(Offered, cache, PrefetchPlan.victims), "admitted", Absent)
                   EXCEPT !.admissions = @ + Cardinality(Absent)]
  /\ budget' = Spend(budget, Absent)

(* The loop of signal ends: no prediction or no page is left.               *)
EndSignal ==
  /\ stage = "group"
  /\ selected = {} \/ budget.pages = 0
  /\ stage' = "replay" /\ selected' = {} /\ budget' = NoBudget
  /\ UNCHANGED <<events, checked, spec, capacity, position, cache, metrics, active, metadata, sketch>>

-----------------------------------------------------------------------------
(* finish_metadata and SimulationMetrics::finish.                           *)
MetadataBalanced ==
  Router(spec) =>
    /\ \A s \in active : DOMAIN s.scores # {}
    /\ MetadataBytes(active) = metadata.current
    /\ metadata.current <= metadata.peak /\ metadata.peak <= metadata.limit
    /\ metadata.recorded = metadata.limit

Balanced(m) ==
  LET n(t) == m.tally[t].n
      b(t) == m.tally[t].bytes
  IN  /\ n("ordinary_hit") + n("useful_hit") + n("miss") = n("demand")
      /\ b("ordinary_hit") + b("useful_hit") + b("miss") = b("demand")
      /\ b("load") = b("miss")
      /\ n("admitted") + n("redundant") + n("dropped") = n("offered")
      /\ b("admitted") + b("redundant") + b("dropped") = b("offered")
      /\ n("useful") + n("wasted") = n("admitted")
      /\ b("useful") + b("wasted") = b("admitted")

(* The end of run: the unread prefetches are wasted, the sums must agree.   *)
Finish ==
  LET final == Tally(metrics, "wasted", Unread(cache, DOMAIN cache.residents))
  IN  /\ stage = "replay" /\ position = Len(events)
      /\ metrics' = final
      /\ Settle(IF ~MetadataBalanced THEN Fail(cache, "metadata ledger")
                ELSE IF ~Balanced(final) THEN Fail(cache, "accounting identity") ELSE cache, "done")
      /\ UNCHANGED <<events, checked, spec, capacity, position, active, metadata, selected,
                     budget, sketch>>

Next ==
  \/ \E e \in EventRecords : Extend(e)
  \/ \E s \in Policies, c \in Capacities : Start(s, c)
  \/ Demand
  \/ IgnoreSignal \/ RecordSignal
  \/ RedundantGroup \/ DropGroup \/ AdmitGroup \/ EndSignal
  \/ Finish

-----------------------------------------------------------------------------
(* Whatever the accepted trace, the policy and the capacity, the kernel's   *)
(* books are exact after every step, between the groups of a signal too:    *)
(* the resident bytes are the charge of the residents and within the        *)
(* capacity, every admitted prefetch is useful once, wasted once or still   *)
(* unread, and none of the checks the kernel makes of its own work fails    *)
(* (victims that are gone, plans that free too little, a router ledger that *)
(* does not meet its precomputed ceiling, the identities of finish).        *)
LedgerExact ==
  LET unread == IF stage = "done" THEN {} ELSE Unread(cache, DOMAIN cache.residents)
  IN  /\ stage # "failed"
      /\ cache.resident_bytes = ChargeBytes(DOMAIN cache.residents)
      /\ cache.resident_bytes <= cache.peak /\ cache.peak <= capacity
      /\ N("admitted") = N("useful") + N("wasted") + Cardinality(unread)
      /\ B("admitted") = B("useful") + B("wasted") + LogicalBytes(unread)

(* The live signals are those given so far whose step the request has not   *)
(* left behind: a score outlasts every demand of its own step, and none is  *)
(* overwritten by another layer or target.                                  *)
Given == {i \in 1..position : /\ events[i].kind = "signal"
                              /\ Selected(spec, events[i].predictions) # {}}
Passed(i) == \E j \in 1..position : /\ events[j].kind = "demand"
                                    /\ events[j].request = events[i].request
                                    /\ events[j].step > events[i].target_step
ActiveExact ==
  stage # "loading" =>
    active = IF Router(spec) THEN {Recorded(spec, events[i]) : i \in {j \in Given : ~Passed(j)}} ELSE {}

(* An expert group comes in whole or not at all, and displaces no protected *)
(* page.                                                                    *)
GroupStep ==
  stage = "group" /\ selected # {} /\ cache' # cache =>
    /\ Absent \subseteq DOMAIN cache'.residents
    /\ DOMAIN cache.residents \ DOMAIN cache'.residents \subseteq
         DOMAIN cache.residents \ Protected(cache.residents)
=============================================================================

---------------------------- MODULE CachePolicy ----------------------------
(* The replacement and admission decisions of the cache simulator           *)
(* (runnel-sim/src/policy/mod.rs), over the residents of the kernel.        *)
(*   residents  a function from the resident pages to their entries         *)
(*              [last_touch, segment, prefetched_unused]; the bytes of a    *)
(*              page are the catalog's                                      *)
(*   active     the live router signals [request, target_step, layer,       *)
(*              scores]                                                     *)
(*   spec       the policy setting [name, protected_fraction_ppm,           *)
(*              minimum_score_ppm, max_experts_per_signal,                  *)
(*              max_pages_per_signal, max_prefetch_bytes_per_signal]        *)
EXTENDS TraceFormat, Integers, FiniteSetsExt, Functions

CONSTANT Catalog      \* the validated page catalog, a sequence of pages

PageIds     == {p.id : p \in ToSet(Catalog)}
PageOf(p)   == Catalog[p + 1]
Logical(p)  == PageOf(p).logical_bytes
Charge(p)   == PageOf(p).charge_bytes
LogicalBytes(S) == MapThenSumSet(Logical, S)
ChargeBytes(S)  == MapThenSumSet(Charge, S)

(* PageCatalog::expert_pages, tabulated.                                    *)
Groups ==
  [g \in {<<p.class[1], p.class[2]>> : p \in {q \in ToSet(Catalog) : q.class # Shared}} |->
     ExpertPages(Catalog, g[1], g[2])]

Segmented(spec) == spec.name \in {"slru", "router-admit", "router-prefetch"}
Router(spec)    == spec.name \in {"router-admit", "router-prefetch"}

(* PolicyState::new: fraction_target.                                       *)
ProtectedTarget(spec, capacity) == (capacity * spec.protected_fraction_ppm) \div ScoreScale

InitialSegment(spec) == IF Segmented(spec) THEN "probation" ELSE "lru"

(* router_signal_metadata_bytes.                                            *)
SignalBytes(signal) == 24 + 8 * Cardinality(DOMAIN signal.scores)
MetadataBytes(S)    == MapThenSumSet(SignalBytes, S)

-----------------------------------------------------------------------------
(* enter_demand_step: the signals of the request whose step has passed.     *)
Retired(active, request, step) ==
  {s \in active : s.request = request /\ s.target_step < step}

(* active_score.                                                            *)
ActiveScore(active, request, step, p) ==
  LET class == PageOf(p).class
      mine == {s \in active : /\ s.request = request /\ s.target_step = step
                              /\ class # Shared /\ s.layer = class[1]
                              /\ class[2] \in DOMAIN s.scores}
  IN  IF mine = {} THEN 0 ELSE (CHOOSE s \in mine : TRUE).scores[class[2]]

ScoreOf(active, request, step, S) ==
  LET Score(p) == ActiveScore(active, request, step, p) IN MapThenSumSet(Score, S)

-----------------------------------------------------------------------------
Precedes(a, b) == \E i \in DOMAIN a : a[i] < b[i] /\ \A j \in 1..(i - 1) : a[j] = b[j]

(* rebalance_protected demotes the least recently touched protected page    *)
(* until the rest fits the target: each protected page whose own and more   *)
(* recent protected bytes exceed it.  The demoted pages share the touch.    *)
Protected(residents) == {p \in DOMAIN residents : residents[p].segment = "protected"}
Demoted(residents, target) ==
  LET recent(p) == {q \in Protected(residents) :
                      ~Precedes(<<residents[q].last_touch, q>>, <<residents[p].last_touch, p>>)}
  IN  {p \in Protected(residents) : ChargeBytes(recent(p)) > target}
Rebalanced(residents, target, touch) ==
  [p \in DOMAIN residents |->
     IF p \in Demoted(residents, target)
     THEN [residents[p] EXCEPT !.segment = "probation", !.last_touch = touch] ELSE residents[p]]

(* on_hit: a probation hit is promoted, which may demote others.            *)
Promotes(spec, capacity, residents, p) ==
  /\ Segmented(spec) /\ residents[p].segment = "probation"
  /\ ProtectedTarget(spec, capacity) > 0
  /\ Charge(p) <= ProtectedTarget(spec, capacity)
OnHit(spec, capacity, residents, p, touch) ==
  LET touched == [residents EXCEPT ![p].last_touch = touch]
  IN  IF Promotes(spec, capacity, residents, p)
      THEN Rebalanced([touched EXCEPT ![p].segment = "protected"],
                      ProtectedTarget(spec, capacity), touch)
      ELSE touched

-----------------------------------------------------------------------------
(* A plan is complete before anything changes: the victims, or none at all. *)
NoPlan      == [ok |-> FALSE, victims |-> {}]
Plan(V)     == [ok |-> TRUE, victims |-> V]

(* The charge that is missing in the pool; none or less: there is room.     *)
Needed(required, capacity, resident_bytes) == required - (capacity - resident_bytes)

(* The shortest run of the ordered pages that frees the needed bytes.       *)
Shortest(S, Key(_), needed) ==
  {p \in S : ChargeBytes({q \in S : Precedes(Key(q), Key(p))}) < needed}

SegmentRank(spec, entry) == IF Segmented(spec) /\ entry.segment = "protected" THEN 1 ELSE 0

(* admit_demand: frequency density under TinyLFU, score density under a     *)
(* router with live signals; estimate is the sketch's, after the            *)
(* observation of this demand.                                              *)
AdmitDemand(spec, active, estimate, p, victims, request, step) ==
  LET Estimate(q) == estimate[q]
      score == ActiveScore(active, request, step, p)
      victim_score == ScoreOf(active, request, step, victims)
      victim_charge == ChargeBytes(victims)
  IN  CASE spec.name = "tiny-lfu" /\ victims # {} ->
             estimate[p] * victim_charge > MapThenSumSet(Estimate, victims) * Charge(p)
        [] Router(spec) /\ active # {} ->
             \/ score = 0 /\ victim_score = 0
             \/ score * victim_charge > victim_score * Charge(p)
        [] OTHER -> TRUE

(* plan_demand_victims: probation before protected, then score, then age.   *)
PlanDemandVictims(spec, capacity, residents, resident_bytes, active, estimate, p, request, step) ==
  LET Key(q) == <<SegmentRank(spec, residents[q]), ActiveScore(active, request, step, q),
                  residents[q].last_touch, q>>
      needed == Needed(Charge(p), capacity, resident_bytes)
      victims == Shortest(DOMAIN residents, Key, needed)
  IN  IF Charge(p) > capacity \/ spec.name = "no-cache" THEN NoPlan
      ELSE IF needed <= 0 THEN Plan({})
      ELSE IF ChargeBytes(DOMAIN residents) < needed THEN NoPlan
      ELSE IF AdmitDemand(spec, active, estimate, p, victims, request, step) THEN Plan(victims)
      ELSE NoPlan

(* plan_prefetch_victims: only probation pages, worth less than the group.  *)
Displaceable_Any(residents) == DOMAIN residents
Displaceable(residents) == {p \in DOMAIN residents : residents[p].segment = "probation"}

PlanPrefetchVictims(capacity, residents, resident_bytes, active, absent, request, step, score) ==
  LET Score(q) == ActiveScore(active, request, step, q)
      Key(q) == <<Score(q), residents[q].last_touch, q>>
      required == ChargeBytes(absent)
      needed == Needed(required, capacity, resident_bytes)
      probation == Displaceable(residents)
      victims == Shortest(probation, Key, needed)
      Weight(q) == Score(q) * Charge(q)
      worth == MapThenSumSet(Weight, victims)
  IN  IF required > capacity THEN NoPlan
      ELSE IF needed <= 0 THEN Plan({})
      ELSE IF ChargeBytes(probation) < needed THEN NoPlan
      ELSE IF worth > 0 /\ score * required <= worth THEN NoPlan
      ELSE Plan(victims)
=============================================================================

----------------------------- MODULE SimOracle -----------------------------
(* The offline references of the simulator (runnel-sim/src/oracle/mod.rs):  *)
(* the dynamic program of exact_variable_byte_cost and the Belady replay of *)
(* simulate_belady, run one after the other over the demands of a trace.    *)
(* Signals are skipped by both and left out.  The trace, its catalog and    *)
(* the capacity are given by the module that runs the oracles.              *)
EXTENDS Naturals, Sequences, FiniteSets, FiniteSetsExt, SequencesExt

CONSTANTS
  MaxDemands,      \* MAX_EXACT_DEMANDS
  MaxDistinct,     \* MAX_EXACT_PAGES
  MaxStates        \* SimLimits::max_exact_oracle_states

VARIABLES
  stage,           \* ready, exact, belady, done
  catalog,         \* from the pages to [logical, charge]
  capacity,
  demands,         \* the demanded pages of the trace
  position,        \* demands processed by the running algorithm
  exact,           \* [frontier, explored, verdict] of the dynamic program
  possible,        \* ghost: <<residents, cost>> of every schedule so far
  belady           \* [residents, charge, peak, cost, verdict] of the replay

vars == <<stage, catalog, capacity, demands, position, exact, possible, belady>>

Pages == DOMAIN catalog
Charge(p)  == catalog[p].charge
Logical(p) == catalog[p].logical

(* subset_charge.                                                           *)
SubsetCharge(S) == MapThenSumSet(Charge, S)

Init ==
  /\ stage = "ready" /\ position = 0
  /\ exact = [frontier |-> ({} :> 0), explored |-> 1, verdict |-> "none"]
  /\ possible = {<<{}, 0>>}
  /\ belady = [residents |-> {}, charge |-> 0, peak |-> 0, cost |-> 0, verdict |-> "none"]

-----------------------------------------------------------------------------
(* exact_variable_byte_cost: the limits, and the trace without a demand.    *)
ExactVerdict ==
  IF MaxStates = 0 \/ Len(demands) > MaxDemands \/ Cardinality(ToSet(demands)) > MaxDistinct
  THEN "limit" ELSE "none"

StartExact ==
  /\ stage = "ready"
  /\ exact' = [exact EXCEPT !.verdict = ExactVerdict]
  /\ stage' = IF ExactVerdict = "limit" THEN "belady" ELSE "exact"
  /\ UNCHANGED <<catalog, capacity, demands, position, possible, belady>>

(* The states after a miss of p: bypass, or any retained part that fits.    *)
Retained(state, p) ==
  {state} \cup {s \cup {p} : s \in {t \in SUBSET state : SubsetCharge(t) + Charge(p) <= capacity}}

Succeeding(state, p) == IF p \in state THEN {state} ELSE Retained(state, p)
MissCost(state, p)   == IF p \in state THEN 0 ELSE Logical(p)

(* insert_minimum, over the frontier.                                       *)
NextFrontier_Dearest(frontier, p) ==
  [s \in UNION {Succeeding(t, p) : t \in DOMAIN frontier} |->
     Max({frontier[t] + MissCost(t, p) : t \in {u \in DOMAIN frontier : s \in Succeeding(u, p)}})]
NextFrontier(frontier, p) ==
  [s \in UNION {Succeeding(t, p) : t \in DOMAIN frontier} |->
     Min({frontier[t] + MissCost(t, p) : t \in {u \in DOMAIN frontier : s \in Succeeding(u, p)}})]

(* consume_state_budget: one for a hit or a bypass, one per submask.        *)
Consumed(frontier, p) ==
  LET Uses(s) == IF p \in s THEN 1
                 ELSE 1 + IF Charge(p) <= capacity THEN 2 ^ Cardinality(s) ELSE 0
  IN  MapThenSumSet(Uses, DOMAIN frontier)

(* Every schedule: a miss is paid for, and any part of the residents, with  *)
(* or without the page, may be kept after each demand.                      *)
Scheduled(p) ==
  UNION {{<<s, run[2] + MissCost(run[1], p)>> :
            s \in {t \in SUBSET (run[1] \cup {p}) : SubsetCharge(t) <= capacity}} : run \in possible}

ExactStep ==
  LET p == demands[position + 1]
      explored == exact.explored + Consumed(exact.frontier, p)
  IN  /\ stage = "exact" /\ position < Len(demands)
      /\ IF explored > MaxStates
         THEN /\ exact' = [exact EXCEPT !.verdict = "limit"]
              /\ stage' = "belady" /\ position' = 0
         ELSE /\ exact' = [exact EXCEPT !.frontier = NextFrontier(@, p), !.explored = explored]
              /\ stage' = stage /\ position' = position + 1
      /\ possible' = Scheduled(p)
      /\ UNCHANGED <<catalog, capacity, demands, belady>>

ExactCost == Min({exact.frontier[s] : s \in DOMAIN exact.frontier})

ExactEnd ==
  /\ stage = "exact" /\ position = Len(demands)
  /\ exact' = [exact EXCEPT !.verdict = "exact"]
  /\ stage' = "belady" /\ position' = 0
  /\ UNCHANGED <<catalog, capacity, demands, possible, belady>>

-----------------------------------------------------------------------------
(* uniform_geometry.                                                        *)
Uniform == \A p, q \in Pages : catalog[p] = catalog[q]
SlotCapacity ==
  Min({capacity \div Charge(CHOOSE p \in Pages : TRUE), Cardinality(Pages)})

(* The front of future_demands once the current demand is popped.           *)
NextUse(p) ==
  LET later == {i \in (position + 2)..Len(demands) : demands[i] = p}
  IN  IF later = {} THEN Len(demands) + 1 ELSE Min(later)

(* farthest_victim: the latest next use, the candidate first, then the      *)
(* greatest identifier.                                                     *)
Farther(p, q, candidate) ==
  \/ NextUse(p) > NextUse(q)
  \/ NextUse(p) = NextUse(q) /\ p = candidate
  \/ NextUse(p) = NextUse(q) /\ q # candidate /\ p > q
FarthestVictim(residents, candidate) ==
  CHOOSE p \in residents \cup {candidate} :
    \A q \in (residents \cup {candidate}) \ {p} : Farther(p, q, candidate)

(* admit, after the victims left.                                           *)
Admit(b, p, victims) ==
  LET charge == (b.charge - SubsetCharge(victims)) + Charge(p)
  IN  [b EXCEPT !.residents = (@ \ victims) \cup {p}, !.charge = charge, !.peak = Max({@, charge})]

(* The replay of one demand: hit, bypass, admission, or replacement.        *)
Replayed(b, p) ==
  LET miss == [b EXCEPT !.cost = @ + Logical(p)]
      victim == FarthestVictim(b.residents, p)
  IN  CASE p \in b.residents -> b
        [] p \notin b.residents /\ SlotCapacity = 0 -> miss
        [] p \notin b.residents /\ Cardinality(b.residents) < SlotCapacity -> Admit(miss, p, {})
        [] OTHER -> IF victim = p THEN miss ELSE Admit(miss, p, {victim})

BeladyStep ==
  LET b == Replayed(belady, demands[position + 1])
  IN  /\ stage = "belady" /\ Uniform /\ position < Len(demands)
      /\ belady' = IF b.charge > capacity THEN [b EXCEPT !.verdict = "over capacity"] ELSE b
      /\ stage' = IF b.charge > capacity THEN "done" ELSE stage
      /\ position' = position + 1
      /\ UNCHANGED <<catalog, capacity, demands, exact, possible>>

BeladyEnd ==
  /\ stage = "belady"
  /\ \/ ~Uniform /\ belady' = [belady EXCEPT !.verdict = "unsupported geometry"]
     \/ Uniform /\ position = Len(demands) /\ belady' = [belady EXCEPT !.verdict = "optimal"]
  /\ stage' = "done"
  /\ UNCHANGED <<catalog, capacity, demands, position, exact, possible>>

Next ==
  \/ StartExact \/ ExactStep \/ ExactEnd \/ BeladyStep \/ BeladyEnd

-----------------------------------------------------------------------------
(* The dynamic program keeps one cost per resident set and never evicts on  *)
(* a hit; what it returns is still the least cost of all schedules, and a   *)
(* bound it runs into yields no cost at all.  On uniform pages the Belady   *)
(* replay, which looks at one victim at a time, costs as little: its        *)
(* oracle_optimal flag is true, and it stays within the pool.               *)
LeastCost == Min({run[2] : run \in possible})
OraclesOptimal ==
  /\ exact.verdict = "exact" => ExactCost = LeastCost
  /\ exact.verdict = "exact" /\ belady.verdict = "optimal" => belady.cost = LeastCost
  /\ belady.verdict # "over capacity"
=============================================================================

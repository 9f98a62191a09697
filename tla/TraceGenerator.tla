--------------------------- MODULE TraceGenerator ---------------------------
(* generate_trace (runnel-sim/src/generator.rs): routes of two experts are  *)
(* drawn per step, a causal predictor learns from them, and demands and     *)
(* router signals are emitted.  A draw of the random generator is an        *)
(* arbitrary choice; the digests of the routes are left out.  The sizes the *)
(* code fixes are constants here.                                           *)
EXTENDS TraceFormat, Functions

CONSTANTS
  ExpertCount, PagesPerExpert, BurnIn,
  AgeInterval, MinSupport, MinScore,     \* the predictor's settings
  CountMax,                              \* u16::MAX, where counts saturate
  HotSize, ClusterSize,                  \* 16 and 8 experts
  PhaseSteps, ScanPeriod, ScanStart,     \* 256, 64 and 48 steps
  Lengths,                               \* <<family, measured_steps>> generated
  Shuffles                           \* shuffles of the experts considered

VARIABLES
  stage,         \* burn_in, measure, rejected, generated
  family, measured_steps,
  permutation, cluster,
  step,          \* absolute_step of the next route
  previous,      \* the previous route, or NoRoute
  transitions, observed_routes,
  events

vars == <<stage, family, measured_steps, permutation, cluster, step, previous, transitions,
          observed_routes, events>>

Experts == 0..(ExpertCount - 1)
NoRoute == <<>>

Init ==
  /\ stage = "burn_in"
  /\ \E l \in Lengths : family = l[1] /\ measured_steps = l[2]
  /\ permutation \in Shuffles
  /\ cluster \in IF family = "markov" THEN 0..(ExpertCount \div ClusterSize - 1) ELSE {0}
  /\ step = 0 /\ previous = NoRoute
  /\ transitions = [s \in Experts |-> [d \in Experts |-> 0]] /\ observed_routes = 0
  /\ events = <<>>

-----------------------------------------------------------------------------
(* harmonic_pair over draw_harmonic: every weight is positive, so each rank *)
(* but the excluded one can be drawn.                                       *)
HarmonicPairs(start, count) ==
  {<<start + a, start + b>> : <<a, b>> \in {p \in (0..(count - 1)) \X (0..(count - 1)) : p[1] # p[2]}}

(* uniform_pair draws the second rank among one less and skips the first.   *)
UniformPairs(count) ==
  {<<a, IF b >= a THEN b + 1 ELSE b>> : a \in 0..(count - 1), b \in 0..(count - 2)}

(* scan_pollution: the cold experts in turn, two at a time.                 *)
ScanPairs(t) ==
  LET phase == t % ScanPeriod
      cold == ExpertCount - HotSize
      at == ((t \div ScanPeriod) * 2 * (ScanPeriod - ScanStart) + (phase - ScanStart) * 2) % cold
  IN  IF phase < ScanStart THEN HarmonicPairs(0, HotSize)
      ELSE {<<HotSize + at, HotSize + ((at + 1) % cold)>>}

(* markov_pair: the cluster stays, moves on by one, or jumps further.       *)
NextClusters(t) ==
  LET clusters == ExpertCount \div ClusterSize
  IN  IF t = 0 \/ family # "markov" THEN {cluster}
      ELSE {cluster, (cluster + 1) % clusters}
             \cup {(cluster + 2 + other) % clusters : other \in 0..(clusters - 3)}

(* next_route, before the permutation.                                      *)
Ranks(t, c) ==
  CASE family = "stationary_zipf" -> HarmonicPairs(0, ExpertCount)
    [] family = "scan_pollution" -> ScanPairs(t)
    [] family = "phase_shift" ->
         HarmonicPairs(((t \div PhaseSteps) % (ExpertCount \div HotSize)) * HotSize, HotSize)
    [] family = "cyclic_pressure" ->
         LET offset == (t * 2) % ExpertCount IN {<<offset, (offset + 1) % ExpertCount>>}
    [] family = "markov" -> HarmonicPairs(c * ClusterSize, ClusterSize)
    [] family = "iid_uniform" -> UniformPairs(ExpertCount)

-----------------------------------------------------------------------------
(* CausalPredictor::observe: the four transitions saturate, and every count *)
(* is halved, rounding up, at the age interval.                             *)
Bump(n) == IF n < CountMax THEN n + 1 ELSE n
Age(n)  == (n + 1) \div 2
Observed(prior, route) ==
  LET twice(x, r) == IF r[1] = x THEN IF r[2] = x THEN 2 ELSE 1 ELSE IF r[2] = x THEN 1 ELSE 0
      hits(s, d) == twice(s, prior) * twice(d, route)
      counted(s, d) == CASE hits(s, d) = 0 -> transitions[s][d]
                         [] hits(s, d) = 1 -> Bump(transitions[s][d])
                         [] hits(s, d) = 2 -> Bump(Bump(transitions[s][d]))
                         [] OTHER -> Bump(Bump(Bump(Bump(transitions[s][d]))))
      aging == (observed_routes + 1) % AgeInterval = 0
  IN  [s \in Experts |-> [d \in Experts |->
         IF aging THEN Age(counted(s, d)) ELSE counted(s, d)]]

(* CausalPredictor::predict: the two strongest successors, if the support   *)
(* is enough, then those that reach the score.                              *)
Predict(t, route) ==
  LET count == [d \in Experts |-> t[route[1]][d] + t[route[2]][d]]
      total == SumFunction(count)
      ahead(d) == {e \in Experts : count[e] > count[d] \/ (count[e] = count[d] /\ e < d)}
      ranked == SetToSortSeq({d \in Experts : count[d] # 0 /\ Cardinality(ahead(d)) < 2},
                             LAMBDA d, e : Cardinality(ahead(d)) < Cardinality(ahead(e)))
      score(d) == (count[d] * ScoreScale) \div total
      scored == SelectSeq(ranked, LAMBDA d : score(d) >= MinScore)
  IN  IF total < MinSupport THEN <<>>
      ELSE [i \in DOMAIN scored |-> [expert |-> scored[i], score_ppm |-> score(scored[i])]]

(* page_catalog.                                                            *)
Catalog ==
  [i \in 1..(ExpertCount * PagesPerExpert) |->
     [id |-> i - 1, logical_bytes |-> 1, charge_bytes |-> 1,
      class |-> <<0, (i - 1) \div PagesPerExpert, (i - 1) % PagesPerExpert>>]]

(* push_signal.                                                             *)
Signalled(es, target, predictions) ==
  Append(es, [kind |-> "signal", sequence |-> Len(es), request |-> 0, target_step |-> target,
              layer |-> 0, predictions |-> predictions])

(* push_demands: the pages of both experts.                                 *)
Demanded(es, t, route) ==
  LET page(i) == route[1 + (i - 1) \div PagesPerExpert] * PagesPerExpert + ((i - 1) % PagesPerExpert)
  IN  es \o [i \in 1..(2 * PagesPerExpert) |->
               [kind |-> "demand", sequence |-> Len(es) + i - 1, request |-> 0, step |-> t,
                page |-> page(i)]]

-----------------------------------------------------------------------------
(* The predictor sees a route together with the one before it.              *)
Learn(prior, route) ==
  /\ transitions' = Observed(prior, route)
  /\ observed_routes' = observed_routes + 1

(* One turn of the burn-in loop; after the last, the first signal is given. *)
BurnInRoute(ranks, c) ==
  LET route == [i \in 1..2 |-> permutation[ranks[i]]]
      prediction == Predict(transitions', route)
      last == step + 1 = BurnIn
  IN  /\ stage = "burn_in"
      /\ cluster' = c
      /\ IF previous = NoRoute THEN UNCHANGED <<transitions, observed_routes>>
                               ELSE Learn(previous, route)
      /\ previous' = route /\ step' = step + 1
      /\ events' = IF last /\ prediction # <<>> THEN Signalled(<<>>, 0, prediction) ELSE events
      /\ stage' = IF last THEN "measure" ELSE stage
      /\ UNCHANGED <<family, measured_steps, permutation>>

(* One turn of the measured loop: demands, learning, and a signal for the   *)
(* next step if there is one.                                               *)
Announced_Always(t) == TRUE
Announced(t) == t + 1 < measured_steps

MeasureRoute(ranks, c) ==
  LET route == [i \in 1..2 |-> permutation[ranks[i]]]
      measured == step - BurnIn
      demanded == Demanded(events, measured, route)
      prediction == Predict(transitions', route)
  IN  /\ stage = "measure" /\ step < BurnIn + measured_steps
      /\ cluster' = c
      /\ Learn(previous, route)
      /\ previous' = route /\ step' = step + 1
      /\ events' = IF Announced(measured) /\ prediction # <<>>
                   THEN Signalled(demanded, measured + 1, prediction) ELSE demanded
      /\ UNCHANGED <<stage, family, measured_steps, permutation>>

(* serialize_trace: the declared counts are those of the content, and the   *)
(* text it writes is parsed again.                                          *)
Serializable(header) ==
  /\ ValidHeader(header)
  /\ \A i \in DOMAIN events : events[i].kind = "signal" => Len(events[i].predictions) <= MaxPredictions
  /\ ValidPages(header.charge_quantum, Catalog)
  /\ ValidEvents(Catalog, events)

Serialize ==
  LET header == [literals |-> TRUE, page_count |-> Len(Catalog), event_count |-> Len(events),
                 charge_quantum |-> 1]
  IN  /\ stage = "measure" /\ step = BurnIn + measured_steps
      /\ stage' = IF Serializable(header) THEN "generated" ELSE "rejected"
      /\ UNCHANGED <<family, measured_steps, permutation, cluster, step, previous, transitions,
                     observed_routes, events>>

Next ==
  \/ \E c \in NextClusters(step) : \E ranks \in Ranks(step, c) : BurnInRoute(ranks, c)
  \/ \E c \in NextClusters(step) : \E ranks \in Ranks(step, c) : MeasureRoute(ranks, c)
  \/ Serialize

-----------------------------------------------------------------------------
(* Whatever is drawn, the generated trace passes the parser's own causality *)
(* and score rules, so that generate_trace never fails on its own output,   *)
(* and a step demands each page at most once: the experts of a route differ *)
(* in every family, at the wrap of a scan, a cycle or a cluster too.        *)
GeneratedIsAccepted ==
  /\ stage # "rejected"
  /\ \A i, j \in DOMAIN events :
       /\ events[i].kind = "demand" /\ events[j].kind = "demand"
       /\ events[i].step = events[j].step /\ events[i].page = events[j].page
       => i = j
=============================================================================

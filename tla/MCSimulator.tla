---------------------------- MODULE MCSimulator ----------------------------
(* The simulator as its experiments run it: a trace is parsed or generated, *)
(* replayed under one policy and one capacity, and then given, with the     *)
(* same catalog and capacity, to the two offline oracles.  Each source of   *)
(* traces has its own catalog, policies and bounds.                         *)
EXTENDS Naturals, Sequences, SequencesExt

VARIABLES
  source,       \* online, routed, uniform: parsed; generated
  (* TraceGenerator                                                         *)
  generation, family, measured_steps, permutation, cluster, step, previous, transitions,
  observed_routes,
  (* CacheSim                                                               *)
  stage, events, checked, spec, capacity, position, cache, metrics, active, metadata, selected,
  budget, column, sample, counters, door, observed, seen,
  (* SimOracle                                                              *)
  phase, demand, exact, possible, belady

generator == <<generation, family, measured_steps, permutation, cluster, step, previous,
               transitions, observed_routes>>
kernel == <<stage, events, checked, spec, capacity, position, cache, metrics, active, metadata,
            selected, budget, column, sample, counters, door, observed, seen>>
oracle == <<phase, demand, exact, possible, belady>>
simVars == <<source, generator, kernel, oracle>>

-----------------------------------------------------------------------------
(* Two experts of one layer, one of two pages, and a shared page, of one or *)
(* two charged bytes; the pools hold one, two or three of them.             *)
Page(i, l, c, class) == [id |-> i, logical_bytes |-> l, charge_bytes |-> c, class |-> class]
MCCatalog == <<Page(0, 1, 1, <<0, 0, 0>>), Page(1, 1, 2, <<0, 0, 1>>),
               Page(2, 2, 2, <<0, 1, 0>>), Page(3, 1, 1, <<>>)>>
MCUniform == [i \in 1..4 |-> Page(i - 1, 1, 2, <<>>)]

DemandOf(r, t, p) == [kind |-> "demand", sequence |-> 0, request |-> r, step |-> t, page |-> p]
SignalOf(r, t, ps) ==
  [kind |-> "signal", sequence |-> 0, request |-> r, target_step |-> t, layer |-> 0, predictions |-> ps]
Score(e, n) == [expert |-> e, score_ppm |-> n]

(* Demands only, of one step.                                               *)
MCDemands == {DemandOf(0, 0, p) : p \in 0..3}

(* Two steps and two requests, and signals for both steps.                  *)
MCRouted ==
  {DemandOf(0, 0, 0), DemandOf(0, 0, 2), DemandOf(1, 0, 2)} \cup {DemandOf(0, 1, p) : p \in {0, 1, 3}}
    \cup {SignalOf(0, t, ps) : t \in 0..1,
            ps \in {<<Score(0, 600000)>>, <<Score(0, 300000), Score(1, 300000)>>}}
    \cup {SignalOf(0, 1, <<Score(0, 50000)>>), SignalOf(1, 0, <<Score(1, 900000), Score(0, 100000)>>)}

Setting(name, fraction, pages, bytes) ==
  [name |-> name, protected_fraction_ppm |-> fraction, minimum_score_ppm |-> 100000,
   max_experts_per_signal |-> 2, max_pages_per_signal |-> pages,
   max_prefetch_bytes_per_signal |-> bytes]
MCOnline == {Setting("no-cache", 0, 1, 0), Setting("lru", 0, 1, 0), Setting("slru", 750000, 1, 0),
             Setting("slru", 500000, 1, 0), Setting("tiny-lfu", 0, 1, 0)}
MCRouters == {Setting("router-admit", 750000, 3, 4), Setting("router-prefetch", 500000, 3, 3)}
MCPrefetch == {Setting("router-prefetch", 500000, 3, 3)}

MCHashes == {[p \in 0..3 |-> [r \in {0, 1} |-> IF r = 0 THEN p % 2 ELSE p \div 2]]}
MCNoHash(pages) == {[p \in pages |-> [r \in {0} |-> 0]]}

(* Six experts of two pages in three clusters, two of them hot; short       *)
(* phases, so that every family wraps around.  The families that draw from  *)
(* all the experts are not replayed, for the number of their traces.        *)
MCLengths == {<<"stationary_zipf", 1>>, <<"iid_uniform", 1>>, <<"scan_pollution", 4>>,
              <<"phase_shift", 4>>, <<"cyclic_pressure", 5>>, <<"markov", 2>>}
MCReplayed == {"scan_pollution", "phase_shift", "cyclic_pressure", "markov"}
MCShuffles == {[x \in 0..5 |-> (5 * x + 2) % 6]}

-----------------------------------------------------------------------------
Online == INSTANCE CacheSim
  WITH MaxPages <- 4, MaxEvents <- 5, MaxPredictions <- 2, Catalog <- MCCatalog,
       EventRecords <- MCDemands, Policies <- MCOnline, Capacities <- {3, 4},
       Hashes <- MCHashes, SketchRows <- {0, 1}, SketchColumns <- {0, 1}, SketchSamples <- {4}

Routed == INSTANCE CacheSim
  WITH MaxPages <- 4, MaxEvents <- 4, MaxPredictions <- 2, Catalog <- MCCatalog,
       EventRecords <- MCRouted, Policies <- MCRouters, Capacities <- {3, 4},
       Hashes <- MCNoHash(0..3), SketchRows <- {0}, SketchColumns <- {0}, SketchSamples <- {4}

Uniform == INSTANCE CacheSim
  WITH MaxPages <- 4, MaxEvents <- 5, MaxPredictions <- 2, Catalog <- MCUniform,
       EventRecords <- MCDemands, Policies <- {Setting("lru", 0, 1, 0)}, Capacities <- {4},
       Hashes <- MCNoHash(0..3), SketchRows <- {0}, SketchColumns <- {0}, SketchSamples <- {4}

Generator == INSTANCE TraceGenerator
  WITH MaxPages <- 12, MaxEvents <- 25, MaxPredictions <- 2, ExpertCount <- 6, PagesPerExpert <- 2,
       BurnIn <- 2, AgeInterval <- 3, MinSupport <- 4, MinScore <- 200000, CountMax <- 2,
       HotSize <- 2, ClusterSize <- 2, PhaseSteps <- 2, ScanPeriod <- 3, ScanStart <- 1,
       Lengths <- MCLengths, Shuffles <- MCShuffles, stage <- generation

Generated == INSTANCE CacheSim
  WITH MaxPages <- 12, MaxEvents <- 25, MaxPredictions <- 2, Catalog <- Generator!Catalog,
       EventRecords <- {}, Policies <- MCPrefetch, Capacities <- {4},
       Hashes <- MCNoHash(0..11), SketchRows <- {0}, SketchColumns <- {0}, SketchSamples <- {4}

-----------------------------------------------------------------------------
(* What the oracles are given: the demands of the trace and its catalog.    *)
CatalogOf == CASE source = "uniform" -> MCUniform
               [] source = "generated" -> Generator!Catalog
               [] OTHER -> MCCatalog
Sizes == [p \in 0..(Len(CatalogOf) - 1) |->
            [logical |-> CatalogOf[p + 1].logical_bytes, charge |-> CatalogOf[p + 1].charge_bytes]]
Demands == LET only == SelectSeq(events, LAMBDA e : e.kind = "demand")
           IN  [i \in DOMAIN only |-> only[i].page]

Oracle == INSTANCE SimOracle
  WITH MaxDemands <- 6, MaxDistinct <- 4, MaxStates <- 60, stage <- phase, catalog <- Sizes,
       demands <- Demands, position <- demand

NoGenerator ==
  /\ generation = "none" /\ family = "none" /\ measured_steps = 0 /\ permutation = <<>> /\ cluster = 0
  /\ step = 0 /\ previous = <<>> /\ transitions = <<>> /\ observed_routes = 0

SimInit ==
  /\ \/ source = "online" /\ Online!Init /\ NoGenerator
     \/ source = "routed" /\ Routed!Init /\ NoGenerator
     \/ source = "uniform" /\ Uniform!Init /\ NoGenerator
     \/ source = "generated" /\ Generated!Init /\ Generator!Init
  /\ Oracle!Init

Replay ==
  /\ \/ source = "online" /\ Online!Next
     \/ source = "routed" /\ Routed!Next
     \/ source = "uniform" /\ Uniform!Next
     \/ /\ source = "generated" /\ generation = "generated" /\ family \in MCReplayed
        /\ Generated!Next
  /\ UNCHANGED <<source, generator, oracle>>

Generate ==
  /\ source = "generated" /\ Generator!Next
  /\ UNCHANGED <<source, stage, checked, spec, capacity, position, cache, metrics, active, metadata,
                 selected, budget, column, sample, counters, door, observed, seen, oracle>>

Judge ==
  /\ stage = "done"
  /\ UNCHANGED <<source, generator, kernel>>
  /\ Oracle!Next

SimNext == Replay \/ Generate \/ Judge
SimSpec == SimInit /\ [][SimNext]_simVars

-----------------------------------------------------------------------------
(* The kernel's books are exact after every step, and none of its own       *)
(* checks fails; a router's live signals are those given so far whose step  *)
(* has not passed.                                                          *)
LedgerExact ==
  /\ IF source = "generated" THEN Generated!LedgerExact
     ELSE IF source = "uniform" THEN Uniform!LedgerExact ELSE Online!LedgerExact
  /\ Routed!ActiveExact

(* An expert group is prefetched whole or not at all, and displaces no      *)
(* protected page.                                                          *)
GroupIsAtomic == [][source = "routed" => Routed!GroupStep]_simVars

(* The sketch never takes a page for rarer than it is.                      *)
NeverUnderestimates == source = "online" => Online!Tiny!NeverUnderestimates

(* The dynamic program returns the least cost of all schedules, the Belady  *)
(* replay of uniform pages meets it, and no online policy loads fewer       *)
(* bytes, whether it loads them for demands or for prefetches.              *)
OraclesOptimal ==
  /\ Oracle!OraclesOptimal
  /\ exact.verdict = "exact" => Oracle!ExactCost <= Online!B("load") + Online!B("admitted")

(* generate_trace never fails on its own output.                            *)
GeneratedIsAccepted == source = "generated" => Generator!GeneratedIsAccepted
=============================================================================

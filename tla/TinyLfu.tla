------------------------------ MODULE TinyLfu ------------------------------
(* The TinyLFU frequency sketch of the cache simulator                      *)
(* (runnel-sim/src/policy/mod.rs): a count-min sketch with conservative     *)
(* update behind a doorkeeper, aged every sample_accesses observations.     *)
(* The hash is an arbitrary map from pages and rows to columns.             *)
EXTENDS Naturals

CONSTANTS
  Pages,      \* page identifiers
  Rows,       \* rows of the sketch: sketch_depth of them
  Columns,    \* columns of a row, and bits of the doorkeeper: sketch_width
  Hashes,     \* the hashes considered: maps from pages and rows to columns
  Samples     \* the sample_accesses settings considered

CounterMax == 15      \* SKETCH_COUNTER_MAX

VARIABLES
  column,     \* column[p][r]: where page p counts in row r
  sample,     \* sample_accesses
  counters,   \* counters[r][c]
  door,       \* doorkeeper: the columns whose bit is set
  observed,   \* observations since the last aging, halved by it
  seen        \* ghost: the frequency of a page the sketch has to remember

vars == <<column, sample, counters, door, observed, seen>>

-----------------------------------------------------------------------------
DoorContains(p) == \A r \in Rows : column[p][r] \in door

(* The minimum over the rows that estimate and observe take.                *)
IsMinimum(p, m) ==
  /\ \E r \in Rows : counters[r][column[p][r]] = m
  /\ \A r \in Rows : m <= counters[r][column[p][r]]
Minimum(p) == CHOOSE m \in 0..CounterMax : IsMinimum(p, m)

Estimate(p) == Minimum(p) + (IF DoorContains(p) THEN 1 ELSE 0)

(* TinyLfu::new.                                                            *)
Init ==
  /\ column \in Hashes /\ sample \in Samples
  /\ counters = [r \in Rows |-> [c \in Columns |-> 0]]
  /\ door = {}
  /\ observed = 0
  /\ seen = [p \in Pages |-> 0]

-----------------------------------------------------------------------------
(* The counters after a page that passed the doorkeeper was observed: only  *)
(* the smallest of its counters grow, and they saturate.                    *)
Bumped(p) ==
  [r \in Rows |-> [c \in Columns |->
     IF c = column[p][r] /\ counters[r][c] = Minimum(p) /\ counters[r][c] < CounterMax
     THEN counters[r][c] + 1 ELSE counters[r][c]]]

Counted_NextOnly(p) ==
  IF DoorContains(p) /\ Minimum(p) > 0 THEN Bumped(p) ELSE counters
Counted(p)  == IF DoorContains(p) THEN Bumped(p) ELSE counters
Admitted(p) == IF DoorContains(p) THEN door ELSE door \cup {column[p][r] : r \in Rows}

(* Aging halves every counter and empties the doorkeeper.                   *)
Halved(t) == [r \in Rows |-> [c \in Columns |-> t[r][c] \div 2]]

(* What the sketch must remember of a page: each observation counts, up to  *)
(* the saturated estimate; aging forgets the doorkeeper's one and half.     *)
Grown(n) == IF n <= CounterMax THEN n + 1 ELSE n
Aged(n)  == IF n = 0 THEN 0 ELSE (n - 1) \div 2

Due(n) == n >= sample

Observe(p) ==
  LET aging == Due(observed + 1)
      known == [seen EXCEPT ![p] = Grown(@)]
  IN  /\ counters' = IF aging THEN Halved(Counted(p)) ELSE Counted(p)
      /\ door' = IF aging THEN {} ELSE Admitted(p)
      /\ observed' = IF aging THEN (observed + 1) \div 2 ELSE observed + 1
      /\ seen' = IF aging THEN [q \in Pages |-> Aged(known[q])] ELSE known
      /\ UNCHANGED <<column, sample>>

-----------------------------------------------------------------------------
(* estimate never falls below the frequency of the page: whatever collides  *)
(* in the sketch or in the doorkeeper, and through saturation and aging, a  *)
(* demanded page is never thought rarer than it is.                         *)
NeverUnderestimates == \A p \in Pages : Estimate(p) >= seen[p]
=============================================================================

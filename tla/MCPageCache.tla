----------------------------- MODULE MCPageCache -----------------------------
(* Instances of PageCache for TLC.                                          *)
EXTENDS PageCache, TLC

(* Three pages, one of them twice the size of the others.                   *)
MCAllocation == [k \in Keys |-> IF k = 3 THEN 2 ELSE 1]

(* Tasks are interchangeable, and so are workers.                           *)
Symmetry == Permutations(Tasks) \cup Permutations(Workers)

(* For the run on replacement order: every load that starts is published.   *)
EveryLoadPublished ==
  /\ ~shutdown' /\ reader_open'
  /\ \A w \in Workers : workers'[w].st = "read" => workers'[w].ok
  /\ \A k \in InState("loading") : \/ entries'[k].st = "resident"
                                   \/ entries'[k].st = "loading" /\ entries'[k].accepting_waiters
=============================================================================

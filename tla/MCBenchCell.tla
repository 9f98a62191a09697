---------------------------- MODULE MCBenchCell -----------------------------
(* A cell on one thread, with a warm-up pair and a measured pair of two     *)
(* calls each, or one on two workers with a measured pair of one call,      *)
(* which has no other call to differ from.                                  *)
EXTENDS BenchCell

MCCells ==
  {[threads |-> 1, calls |-> 2, comparison |-> "avx2", warmups |-> <<"cb">>, orders |-> <<"bc">>,
    words |-> {Right, 1}],
   [threads |-> 2, calls |-> 1, comparison |-> "avx2", warmups |-> <<>>, orders |-> <<"bc">>,
    words |-> {Right}]}
=============================================================================

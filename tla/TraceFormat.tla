---------------------------- MODULE TraceFormat ----------------------------
(* The cache traces of runnel-sim: the page catalog, the event stream and   *)
(* what trace.rs accepts of them.                                           *)
(*   page   [id, logical_bytes, charge_bytes, class]; the class is          *)
(*          <<layer, expert, ordinal>>, or Shared                           *)
(*   demand [kind, sequence, request, step, page]                           *)
(*   signal [kind, sequence, request, target_step, layer, predictions], the *)
(*          predictions a sequence of [expert, score_ppm]                   *)
EXTENDS Naturals, Sequences, FiniteSets, SequencesExt

CONSTANTS MaxPages, MaxEvents, MaxPredictions      \* SimLimits

Shared     == <<>>
ScoreScale == 1000000      \* SCORE_SCALE_PPM

-----------------------------------------------------------------------------
(* validate_header: one flag for the literals and the identifier, whose     *)
(* text is left out.                                                        *)
ValidHeader(h) ==
  /\ h.literals
  /\ h.page_count <= MaxPages
  /\ h.event_count <= MaxEvents
  /\ h.charge_quantum # 0

(* validate_pages: dense identifiers, byte geometry, and no expert page     *)
(* listed twice.                                                            *)
ValidPages(quantum, pages) ==
  \A i \in DOMAIN pages :
    /\ pages[i].id = i - 1
    /\ pages[i].logical_bytes # 0 /\ pages[i].charge_bytes # 0
    /\ pages[i].logical_bytes <= pages[i].charge_bytes
    /\ pages[i].charge_bytes % quantum = 0
    /\ pages[i].class # Shared => \A j \in 1..(i - 1) : pages[j].class # pages[i].class

(* The expert_pages index: the pages of an expert by ordinal.               *)
ExpertPages(pages, layer, expert) ==
  LET mine == {p \in ToSet(pages) : p.class # Shared /\ p.class[1] = layer /\ p.class[2] = expert}
      order == SetToSortSeq(mine, LAMBDA p, q : p.class[3] < q.class[3])
  IN  [i \in DOMAIN order |-> order[i].id]

ExpertsOf(pages, layer) ==
  {p.class[2] : p \in {q \in ToSet(pages) : q.class # Shared /\ q.class[1] = layer}}

(* validate_predictions.                                                    *)
ValidPredictions(pages, layer, predictions) ==
  /\ Len(predictions) <= MaxPredictions
  /\ FoldLeft(LAMBDA sum, p : sum + p.score_ppm, 0, predictions) <= ScoreScale
  /\ \A i, j \in DOMAIN predictions : predictions[i].expert = predictions[j].expert => i = j
  /\ \A i \in DOMAIN predictions : predictions[i].expert \in ExpertsOf(pages, layer)

-----------------------------------------------------------------------------
(* validate_events keeps the latest realized step of each request that has  *)
(* one, the realized steps and the targets of the signals so far.           *)
Unchecked == [count |-> 0, latest |-> <<>>, realized_steps |-> {}, signal_targets |-> {}, ok |-> TRUE]

Latest(c, request) == {c.latest[r] : r \in {r \in DOMAIN c.latest : r = request}}

CheckDemand(pages, c, e) ==
  [c EXCEPT !.latest = [r \in DOMAIN @ \cup {e.request} |-> IF r = e.request THEN e.step ELSE @[r]],
            !.realized_steps = @ \cup {<<e.request, e.step>>},
            !.ok = /\ @ /\ e.page \in {p.id : p \in ToSet(pages)}
                   /\ \A latest \in Latest(c, e.request) : e.step >= latest]

CheckSignal(pages, c, e) ==
  LET target == <<e.request, e.target_step, e.layer>>
  IN  [c EXCEPT !.signal_targets = @ \cup {target},
                !.ok = /\ @ /\ \A latest \in Latest(c, e.request) : e.target_step > latest
                       /\ target \notin c.signal_targets
                       /\ ValidPredictions(pages, e.layer, e.predictions)]

(* One turn of the loop.                                                    *)
CheckEvent(pages, c, e) ==
  LET d == IF e.kind = "demand" THEN CheckDemand(pages, c, e) ELSE CheckSignal(pages, c, e)
  IN  [d EXCEPT !.count = @ + 1, !.ok = @ /\ e.sequence = c.count]

(* After the loop: every target is realized.                                *)
TargetsRealized(c) == \A t \in c.signal_targets : <<t[1], t[2]>> \in c.realized_steps

ValidEvents(pages, events) ==
  LET c == FoldLeft(LAMBDA d, e : CheckEvent(pages, d, e), Unchecked, events)
  IN  c.ok /\ TargetsRealized(c)
=============================================================================

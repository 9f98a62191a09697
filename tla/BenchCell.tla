----------------------------- MODULE BenchCell ------------------------------
(* One cell of runnel-kernels/src/bin/runnel-kernel-bench.rs: warm-up and   *)
(* measured batches of timed kernel calls, on the main thread or on workers *)
(* that meet it at three barriers.  An output is abstracted to the word     *)
(* that the sink folds, the sink to the sequence of these words, MXCSR to   *)
(* its control bits and whether a sticky flag is up, and the CPU a thread   *)
(* finds itself on to whether it is the one it is bound to.  That a thread  *)
(* cannot be spawned is left out.                                           *)
EXTENDS Naturals, Sequences, FiniteSets, FiniteSetsExt

CONSTANTS
  Main, Pair,   \* the main thread, and those it spawns for a cell on two
  Cells         \* the cells that may be asked for:
                \*   threads, calls_per_worker; what the candidate is, "avx2" or "staged";
                \*   the pair orders of the warm-up and of the measured pairs;
                \*   the words a call may give

Right == 0              \* the word the reference accepts

ASSUME CellAssumption ==
  /\ Main \notin Pair
  /\ \A c \in Cells : /\ c.calls \in Nat \ {0} /\ Right \in c.words
                      /\ c.threads = 1 \/ (c.threads = Cardinality(Pair) /\ c.comparison = "avx2")

VARIABLES
  spec,         \* the cell
  avx2,         \* whether the machine has it
  cell, at,     \* "new", "running", "ok" or "error"; the batch of Plan at work
  pc, arrived,  \* where each thread is; who waits at, or passed, each barrier
  mxcsr, output,        \* of each thread that calls the kernel
  work,         \* what two_worker_thread or run_single_worker collects
  interval,     \* IntervalMeasurements
  outcome, warm, rows   \* of the batch; statuses of a warm-up pair; rows flushed to the stream

vars == <<spec, avx2, cell, at, pc, arrived, mxcsr, output, work, interval, outcome, warm, rows>>

Single == spec.threads = 1
Workers == IF Single THEN {Main} ELSE Pair
Threads == Workers \cup {Main}
Everyone == Pair \cup {Main}
Calls == spec.calls
Barriers == {"ready", "start", "finish"}
Words == spec.words
Clear == [control |-> "rn", sticky |-> FALSE]
NoMetadata == [mxcsr |-> Clear, cpu |-> "none"]
NoWork == [setup |-> "none", before |-> NoMetadata, after |-> NoMetadata, sink |-> <<>>, failures |-> {}]
NoInterval == [started |-> "none", finished |-> "none", before_usage |-> "none", after_usage |-> "none"]
NoOutcome == [status |-> "none", executed |-> 0, elapsed |-> FALSE, usage |-> FALSE, workers |-> {}]
NoStatuses == [baseline |-> "none", candidate |-> "none"]

Variants(order) == IF order = "bc" THEN <<"baseline", "candidate">> ELSE <<"candidate", "baseline">>
Batches(kind, orders) ==
  [i \in 1..(2 * Len(orders)) |->
     LET pair == (i + 1) \div 2
     IN  [kind |-> kind, pair |-> pair, variant |-> Variants(orders[pair])[2 - (i % 2)]]]
Plan == Batches("warmup", spec.warmups) \o Batches("measured", spec.orders)
Unsupported(variant) == variant = "candidate" /\ spec.comparison = "avx2" /\ ~avx2

Init ==
  /\ spec \in Cells /\ avx2 \in BOOLEAN
  /\ cell = "new" /\ at = 1
  /\ pc = [t \in Everyone |-> "idle"] /\ arrived = [b \in Barriers |-> {}]
  /\ mxcsr = [w \in Everyone |-> Clear] /\ output = [w \in Everyone |-> Right]
  /\ work = [w \in Everyone |-> NoWork] /\ interval = NoInterval
  /\ outcome = NoOutcome /\ warm = NoStatuses /\ rows = <<>>

Goto(t, stage) == pc' = [pc EXCEPT ![t] = stage]
Reach(t, barrier) == Goto(t, barrier) /\ arrived' = [arrived EXCEPT ![barrier] = @ \cup {t}]
Released(barrier) == arrived[barrier] = Threads
End(how) == outcome' = how /\ Goto(Main, "emit")
BeforeStart == [NoOutcome EXCEPT !.status = "kernel error"]

-----------------------------------------------------------------------------
(* run_cell up to the first batch: affinity, cores, buffers.                *)
Begin(fails) ==
  /\ cell = "new" /\ cell' = IF fails THEN "error" ELSE "running"
  /\ UNCHANGED <<spec, avx2, at, pc, arrived, mxcsr, output, work, interval, outcome, warm, rows>>

(* run_variant: on this thread, or three new barriers and new threads,      *)
(* which inherit the register of the main one.                              *)
RunVariant ==
  /\ cell = "running" /\ pc[Main] = "idle" /\ at <= Len(Plan)
  /\ IF Unsupported(Plan[at].variant)
     THEN End([NoOutcome EXCEPT !.status = "unsupported"]) /\ UNCHANGED arrived
     ELSE /\ pc' = [t \in Everyone |-> IF t \in Workers THEN "setup" ELSE IF t = Main THEN "ready" ELSE "idle"]
          /\ arrived' = [arrived EXCEPT !["ready"] = {Main} \ Workers]
          /\ UNCHANGED outcome
  /\ UNCHANGED <<spec, avx2, cell, at, mxcsr, output, work, interval, warm, rows>>

(* What a call of the kernel may do to the register besides nothing: raise  *)
(* a sticky flag, or change the control bits.                               *)
After(register, event) ==
  [control |-> IF event = "control" THEN "other" ELSE register.control,
   sticky |-> register.sticky \/ event = "flags"]

(* preflight runs the kernel, and leaves its output and its flags behind    *)
(* when its result is refused.                                              *)
Preflight(w, event, word) ==
  /\ mxcsr' = [mxcsr EXCEPT ![w] = After(@, event)]
  /\ output' = [output EXCEPT ![w] = word]

(* The checks before timing; one fails before the preflight or after it,    *)
(* where the register and the CPU are read.                                 *)
Prepared(w, event, word) ==
  LET runs == event # "early" /\ mxcsr[w].control = "rn"
      ok == runs /\ event # "late" /\ mxcsr'[w].control = "rn" /\ word = Right
  IN  /\ IF runs THEN Preflight(w, event, word) ELSE UNCHANGED <<mxcsr, output>>
      /\ work' = [work EXCEPT ![w].setup = IF ok THEN "ok" ELSE "failed",
                              ![w].before = IF ok THEN [mxcsr |-> mxcsr'[w], cpu |-> "bound"] ELSE NoMetadata]

Setup_Returns(w, event, word) ==
  /\ pc[w] = "setup"
  /\ Prepared(w, event, word)
  /\ IF work'[w].setup = "failed" THEN Goto(w, "ended") /\ UNCHANGED <<outcome, arrived>>
     ELSE Reach(w, "ready") /\ UNCHANGED outcome
  /\ UNCHANGED <<spec, avx2, cell, at, interval, warm, rows>>
Setup(w, event, word) ==
  /\ pc[w] = "setup"
  /\ Prepared(w, event, word)
  /\ IF ~Single THEN Reach(w, "ready") /\ UNCHANGED outcome
     ELSE IF work'[w].setup = "failed" THEN End(BeforeStart) /\ UNCHANGED arrived
     ELSE Goto(w, "measure") /\ UNCHANGED <<arrived, outcome>>
  /\ UNCHANGED <<spec, avx2, cell, at, interval, warm, rows>>

-----------------------------------------------------------------------------
(* Barrier::wait of each thread, and what it does up to its next wait.      *)
PassReady(t) ==
  /\ pc[t] = "ready" /\ Released("ready")
  /\ IF t = Main THEN Goto(t, "measure") /\ UNCHANGED arrived ELSE Reach(t, "start")
  /\ UNCHANGED <<spec, avx2, cell, at, mxcsr, output, work, interval, outcome, warm, rows>>
PassStart(t) ==
  /\ pc[t] = "start" /\ Released("start")
  /\ IF t = Main THEN Reach(t, "finish") /\ UNCHANGED work
     ELSE IF work[t].setup = "ok" THEN Goto(t, "calls") /\ UNCHANGED <<arrived, work>>
     ELSE Reach(t, "finish") /\ work' = [work EXCEPT ![t].failures = {"setup"}]
  /\ UNCHANGED <<spec, avx2, cell, at, mxcsr, output, interval, outcome, warm, rows>>
PassFinish(t) ==
  /\ pc[t] = "finish" /\ Released("finish")
  /\ Goto(t, IF t = Main THEN "stop" ELSE IF work[t].setup = "ok" THEN "check" ELSE "ended")
  /\ UNCHANGED <<spec, avx2, cell, at, arrived, mxcsr, output, work, interval, outcome, warm, rows>>

(* The two readings before the start barrier; alone, an error ends the      *)
(* batch before it started.                                                 *)
Measure(usage, clock) ==
  /\ pc[Main] = "measure"
  /\ interval' = [interval EXCEPT !.before_usage = usage, !.started = clock]
  /\ IF ~Single THEN Reach(Main, "start") /\ UNCHANGED outcome
     ELSE IF usage = "ok" /\ clock = "ok" THEN Goto(Main, "calls") /\ UNCHANGED <<arrived, outcome>>
     ELSE End(BeforeStart) /\ UNCHANGED arrived
  /\ UNCHANGED <<spec, avx2, cell, at, mxcsr, output, work, warm, rows>>

(* One turn of run_prepared_calls or run_staged_calls; an error ends them.  *)
Call(w, event, word) ==
  LET fails == event = "error"
      called == IF fails THEN [work EXCEPT ![w].failures = {"call"}] ELSE [work EXCEPT ![w].sink = Append(@, word)]
  IN  /\ pc[w] = "calls"
      /\ work' = called
      /\ output' = IF fails THEN output ELSE [output EXCEPT ![w] = word]
      /\ mxcsr' = [mxcsr EXCEPT ![w] = After(@, event)]
      /\ IF ~fails /\ Len(called[w].sink) < Calls THEN UNCHANGED <<pc, arrived>>
         ELSE IF Single THEN Goto(w, "stop") /\ UNCHANGED arrived
         ELSE Reach(w, "finish")
      /\ UNCHANGED <<spec, avx2, cell, at, interval, outcome, warm, rows>>

Stop(clock, usage) ==
  /\ pc[Main] = "stop"
  /\ interval' = [interval EXCEPT !.finished = clock, !.after_usage = usage]
  /\ Goto(Main, IF Single THEN "check" ELSE "join")
  /\ UNCHANGED <<spec, avx2, cell, at, arrived, mxcsr, output, work, outcome, warm, rows>>

(* finalize_thread_batch, and its part of finalize_single_batch: the CPU,   *)
(* and MXCSR as a whole, are as they were before the timed calls.           *)
Core(w) ==
  IF Len(work[w].sink) # Calls THEN {"calls"}
  ELSE IF \E i \in 1..Calls : work[w].sink[i] # output[w] THEN {"sink"}
  ELSE {}
Changed_NotCpu(before, after) == IF after.mxcsr # before.mxcsr THEN {"mxcsr"} ELSE {}
Changed(before, after) ==
  (IF after.cpu # before.cpu THEN {"migrated"} ELSE {})
    \cup (IF after.mxcsr # before.mxcsr THEN {"mxcsr"} ELSE {})
Check(w, cpu) ==
  /\ pc[w] = "check"
  /\ LET after == IF cpu = "error" THEN NoMetadata ELSE [mxcsr |-> mxcsr[w], cpu |-> cpu]
         found == IF cpu = "error" THEN {"cpu"} ELSE Changed(work[w].before, after)
     IN  work' = [work EXCEPT ![w].failures = @ \cup Core(w) \cup found, ![w].after = after]
  /\ Goto(w, IF Single THEN "join" ELSE "ended")
  /\ UNCHANGED <<spec, avx2, cell, at, arrived, mxcsr, output, interval, outcome, warm, rows>>

(* finalize_single_batch and finalize_two_worker_batch: every failure that  *)
(* was retained refuses the batch.                                          *)
Executed == MapThenSumSet(LAMBDA w : Len(work[w].sink), Workers)
Retained == {w \in Workers : work[w].after # NoMetadata}
Faultless(elapsed, usage) == (\A w \in Workers : work[w].failures = {}) /\ elapsed /\ usage
Finalize(positive, delta) ==
  LET elapsed == interval.started = "ok" /\ interval.finished = "ok" /\ positive
      usage == interval.before_usage = "ok" /\ interval.after_usage = "ok" /\ delta
      ok == Faultless(elapsed, usage) /\ (Single \/ (Executed = Calls * Cardinality(Workers) /\ Retained = Workers))
  IN  /\ pc[Main] = "join" /\ \A w \in Workers \ {Main} : pc[w] = "ended"
      /\ End([status |-> IF ok THEN "ok" ELSE "kernel error", executed |-> Executed,
              elapsed |-> elapsed, usage |-> usage, workers |-> Retained])
      /\ UNCHANGED <<spec, avx2, cell, at, arrived, mxcsr, output, work, interval, warm, rows>>

-----------------------------------------------------------------------------
(* run_cell after a batch: a measured one is a row at once, a warm-up pair  *)
(* when it is complete.  emit writes nothing past its limit, and a write    *)
(* may fail.                                                                *)
Noted(batch) == [warm EXCEPT ![batch.variant] = outcome.status]
Row(batch) ==
  IF batch.kind = "warmup" THEN [kind |-> "warmup", pair |-> batch.pair, statuses |-> Noted(batch)]
  ELSE [kind |-> "measured", pair |-> batch.pair, variant |-> batch.variant, status |-> outcome.status]
NextBatch ==            \* the batch's locals are gone, and its threads with their registers
  /\ at' = at + 1 /\ pc' = [t \in Everyone |-> "idle"] /\ arrived' = [b \in Barriers |-> {}]
  /\ mxcsr' = IF Single THEN mxcsr ELSE [w \in Everyone |-> Clear]
  /\ work' = [w \in Everyone |-> NoWork] /\ interval' = NoInterval /\ outcome' = NoOutcome
Note ==
  /\ pc[Main] = "emit" /\ cell = "running" /\ Plan[at].kind = "warmup" /\ at % 2 = 1
  /\ warm' = Noted(Plan[at]) /\ NextBatch
  /\ UNCHANGED <<spec, avx2, cell, output, rows>>
Emit(fails) ==
  /\ pc[Main] = "emit" /\ cell = "running" /\ (Plan[at].kind = "warmup" => at % 2 = 0)
  /\ IF fails THEN cell' = "error" /\ UNCHANGED <<at, pc, arrived, mxcsr, work, interval, outcome, warm, rows>>
     ELSE rows' = Append(rows, Row(Plan[at])) /\ warm' = NoStatuses /\ NextBatch /\ UNCHANGED cell
  /\ UNCHANGED <<spec, avx2, output>>
Finish ==
  /\ cell = "running" /\ pc[Main] = "idle" /\ at > Len(Plan) /\ cell' = "ok"
  /\ UNCHANGED <<spec, avx2, at, pc, arrived, mxcsr, output, work, interval, outcome, warm, rows>>

-----------------------------------------------------------------------------
Probe == {"ok", "error"}
MainStep ==
  \/ RunVariant \/ Note \/ Finish
  \/ \E fails \in BOOLEAN : Begin(fails) \/ Emit(fails)
  \/ \E a, b \in Probe : Measure(a, b) \/ Stop(a, b)
  \/ \E positive, delta \in BOOLEAN : Finalize(positive, delta)
WorkerStep(w) ==
  \/ \E event \in {"none", "flags", "control", "early", "late"}, word \in Words : Setup(w, event, word)
  \/ \E event \in {"none", "flags", "control", "error"}, word \in Words : Call(w, event, word)
  \/ \E cpu \in {"bound", "other", "error"} : Check(w, cpu)
BarrierStep(t) == PassReady(t) \/ PassStart(t) \/ PassFinish(t)
Next == MainStep \/ (\E w \in Everyone : WorkerStep(w) \/ BarrierStep(w))

(* Every thread that can run does.                                          *)
Fairness == /\ WF_vars(MainStep)
            /\ \A w \in Everyone : WF_vars(WorkerStep(w) \/ BarrierStep(w))
Spec == Init /\ [][Next]_vars /\ Fairness

-----------------------------------------------------------------------------
(* The timed interval excludes every worker's setup and contains every      *)
(* timed call, whoever is late at a barrier and whichever setup failed.     *)
IntervalCoversCalls ==
  /\ interval.started # "none" => \A w \in Workers : pc[w] # "setup"
  /\ interval.started = "none" => \A w \in Workers : pc[w] # "calls" /\ work[w].sink = <<>>
  /\ interval.finished # "none" => \A w \in Workers : pc[w] # "calls"

(* A batch counts as ok only when nothing happened to any worker: all calls *)
(* were made and gave the reported output, inside the timed interval; each  *)
(* worker is found, after the calls, on the CPU it was bound to and with    *)
(* the very MXCSR it had before them, rounding to nearest, sticky flags     *)
(* included; and every measurement is there to be reported.                 *)
SuccessIsComplete ==
  /\ IntervalCoversCalls
  /\ outcome.status = "ok" =>
       /\ outcome.elapsed /\ outcome.usage /\ outcome.workers = Workers
       /\ outcome.executed = Calls * Cardinality(Workers)
       /\ \A w \in Workers :
            /\ \A i \in 1..Calls : work[w].sink[i] = output[w]
            /\ work[w].after = work[w].before
            /\ work[w].after.cpu = "bound" /\ work[w].after.mxcsr = mxcsr[w]
            /\ mxcsr[w].control = "rn"

(* Every cell ends: a setup, a clock or a call that fails still brings all  *)
(* threads to all barriers.  Both workers are taken to have been spawned.   *)
CellEnds == <>(cell \in {"ok", "error"})
=============================================================================

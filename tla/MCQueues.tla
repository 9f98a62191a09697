----------------------------- MODULE MCQueues -------------------------------
(* The two bounded queues of the data plane, that of the asynchronous       *)
(* reader and that of the trace, which share nothing: a behaviour is one of *)
(* the one or of the other.                                                 *)
EXTENDS AsyncReader

CONSTANTS Producers, Consumers, TraceCapacity, MaxRecords, MaxDrains

VARIABLES which, next_sequence, dropped, lock, events, pc, sequence, taken, drained

sinkVars == <<next_sequence, dropped, lock, events, pc, sequence, taken, drained>>

Sink == INSTANCE TraceSink WITH Capacity <- TraceCapacity

QueuesInit == Init /\ Sink!Init /\ which \in {"reader", "trace"}
QueuesNext ==
  \/ which = "reader" /\ Next /\ UNCHANGED <<which, sinkVars>>
  \/ which = "trace" /\ Sink!Next /\ UNCHANGED <<which, vars>>
QueuesSpec == QueuesInit /\ [][QueuesNext]_<<which, vars, sinkVars>> /\ Fairness

(* Whatever producers and consumers do, a trace event is delivered once or  *)
(* counted as dropped: see TraceSink.                                       *)
EveryRecordAccounted == Sink!EveryRecordAccounted
=============================================================================

----------------------------- MODULE TraceSink ------------------------------
(* The bounded trace queue of runnel-store/src/trace.rs.  Cache threads     *)
(* record without ever waiting; consumers drain.  Nothing panics while the  *)
(* queue is locked, so it is never poisoned.                                *)
EXTENDS Naturals, Sequences, SequencesExt, FiniteSets

CONSTANTS
  Producers, Consumers, None,
  Capacity,     \* after the clamp to MAX_CAPACITY
  MaxRecords, MaxDrains         \* bounds on the calls of record, and on the batches when drain is called

VARIABLES
  next_sequence, dropped,       \* the two atomic counters
  lock,         \* who holds the mutex of events, or None
  events,       \* sequence numbers in the queue, in the order they were pushed
  pc, sequence, \* where each caller is, and the number a producer reserved
  taken,        \* what a consumer took out and has not returned yet
  drained       \* the batches that drain returned

vars == <<next_sequence, dropped, lock, events, pc, sequence, taken, drained>>

Callers == Producers \cup Consumers

Init ==
  /\ next_sequence = 0 /\ dropped = 0 /\ lock = None /\ events = <<>>
  /\ pc = [c \in Callers |-> "idle"]
  /\ sequence = [p \in Producers |-> 0]
  /\ taken = [c \in Consumers |-> <<>>] /\ drained = <<>>

Goto(c, step) == pc' = [pc EXCEPT ![c] = step]

-----------------------------------------------------------------------------
(* record: the number first, then a try_lock.                               *)
Reserve(p) ==
  /\ pc[p] = "idle" /\ next_sequence < MaxRecords
  /\ sequence' = [sequence EXCEPT ![p] = next_sequence]
  /\ next_sequence' = next_sequence + 1
  /\ Goto(p, "try")
  /\ UNCHANGED <<dropped, lock, events, taken, drained>>

TryLock(p) ==
  /\ pc[p] = "try"
  /\ IF lock = None THEN lock' = p /\ Goto(p, "locked") ELSE Goto(p, "drop") /\ UNCHANGED lock
  /\ UNCHANGED <<next_sequence, dropped, events, sequence, taken, drained>>

Push(p) ==
  /\ pc[p] = "locked" /\ Len(events) < Capacity
  /\ events' = Append(events, sequence[p]) /\ lock' = None /\ Goto(p, "idle")
  /\ UNCHANGED <<next_sequence, dropped, sequence, taken, drained>>
Full(p) ==
  /\ pc[p] = "locked" /\ Len(events) >= Capacity
  /\ Goto(p, "drop")
  /\ UNCHANGED <<next_sequence, dropped, lock, events, sequence, taken, drained>>

(* The arm that counts a drop; a full queue stays locked until its end.     *)
Drop_Uncounted(p) ==
  /\ pc[p] = "drop"
  /\ dropped' = IF lock = p THEN dropped + 1 ELSE dropped
  /\ lock' = (IF lock = p THEN None ELSE lock) /\ Goto(p, "idle")
  /\ UNCHANGED <<next_sequence, events, sequence, taken, drained>>
Drop(p) ==
  /\ pc[p] = "drop"
  /\ dropped' = dropped + 1
  /\ lock' = (IF lock = p THEN None ELSE lock) /\ Goto(p, "idle")
  /\ UNCHANGED <<next_sequence, events, sequence, taken, drained>>

-----------------------------------------------------------------------------
(* drain: lock, take everything, unlock, sort.                              *)
Lock(c) ==
  /\ pc[c] = "idle" /\ lock = None /\ Len(drained) < MaxDrains
  /\ lock' = c /\ Goto(c, "draining")
  /\ UNCHANGED <<next_sequence, dropped, events, sequence, taken, drained>>
Take(c) ==
  /\ pc[c] = "draining"
  /\ taken' = [taken EXCEPT ![c] = events] /\ events' = <<>>
  /\ lock' = None /\ Goto(c, "sorting")
  /\ UNCHANGED <<next_sequence, dropped, sequence, drained>>
InOrder(batch) == SetToSortSeq(ToSet(batch), <)
Return(c) ==
  /\ pc[c] = "sorting"
  /\ drained' = Append(drained, InOrder(taken[c]))
  /\ taken' = [taken EXCEPT ![c] = <<>>] /\ Goto(c, "idle")
  /\ UNCHANGED <<next_sequence, dropped, lock, events, sequence>>

Record(p) == TryLock(p) \/ Push(p) \/ Full(p) \/ Drop(p)
Drain(c) == Lock(c) \/ Take(c) \/ Return(c)
Next == (\E p \in Producers : Reserve(p) \/ Record(p)) \/ (\E c \in Consumers : Drain(c))

-----------------------------------------------------------------------------
InFlight == {p \in Producers : pc[p] # "idle"}
Gathered == events \o FlattenSeq(drained) \o FlattenSeq(SetToSeq({taken[c] : c \in Consumers} \ {<<>>}))

(* Every number that was reserved is, at any moment, dropped and counted,   *)
(* in the queue, with a consumer, returned, or in the hands of one record.  *)
(* None is delivered twice, to one consumer or to two, and each batch is in *)
(* the order of the numbers, although producers push in another order than  *)
(* they reserved.                                                           *)
EveryRecordAccounted ==
  /\ next_sequence = dropped + Len(Gathered) + Cardinality(InFlight)
  /\ Cardinality(ToSet(Gathered)) = Len(Gathered)
  /\ \A b \in DOMAIN drained : \A i, j \in DOMAIN drained[b] : i < j => drained[b][i] < drained[b][j]
=============================================================================

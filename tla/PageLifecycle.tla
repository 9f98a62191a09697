---------------------------- MODULE PageLifecycle ----------------------------
(***************************************************************************)
(* What the page cache promises its callers, without queues, workers,      *)
(* waiters or an order of replacement: the four states of a page, who may  *)
(* still read it, and the pool it is charged to.  PageCache implements it. *)
(***************************************************************************)
EXTENDS PageCharges

CONSTANTS
  Capacity,  \* quanta the pages of all states may occupy together
  InFlight   \* quanta the loading pages may occupy

VARIABLES
  phase,     \* absent, loading, resident or retiring, for each page
  leases,    \* how many leases refer to each page
  closed     \* the cache has been shut down

lifecycleVars == <<phase, leases, closed>>

In(p)     == {k \in Keys : phase[k] = p}
Unleased  == {k \in In("resident") : leases[k] = 0}
Charged   == {k \in Keys : phase[k] # "absent"}

InitLifecycle ==
  /\ phase = [k \in Keys |-> "absent"]
  /\ leases = [k \in Keys |-> 0]
  /\ closed = FALSE

(* Pages nobody reads make room for a load, which fits when they are gone.  *)
Start(k, V) ==
  /\ ~closed /\ phase[k] = "absent" /\ V \subseteq Unleased
  /\ phase' = [j \in Keys |-> IF j = k THEN "loading"
                              ELSE IF j \in V THEN "absent" ELSE phase[j]]
  /\ ChargeOf(Charged') <= Capacity /\ ChargeOf(In("loading")') <= InFlight
  /\ UNCHANGED <<leases, closed>>

(* A load ends once: it is published with the leases of those who waited    *)
(* for it, or it leaves no trace.                                           *)
Publish(k) ==
  /\ ~closed /\ phase[k] = "loading"
  /\ phase' = [phase EXCEPT ![k] = "resident"]
  /\ leases'[k] \in Nat /\ leases' = [leases EXCEPT ![k] = leases'[k]]
  /\ UNCHANGED closed

Fail(k) ==
  /\ phase[k] = "loading"
  /\ phase' = [phase EXCEPT ![k] = "absent"]
  /\ UNCHANGED <<leases, closed>>

Lease(k) ==
  /\ ~closed /\ phase[k] = "resident"
  /\ leases' = [leases EXCEPT ![k] = @ + 1]
  /\ UNCHANGED <<phase, closed>>

(* A retiring page lives exactly as long as its leases.                     *)
Release(k) ==
  /\ leases[k] > 0
  /\ leases' = [leases EXCEPT ![k] = @ - 1]
  /\ phase' = [phase EXCEPT ![k] = IF @ = "retiring" /\ leases[k] = 1 THEN "absent" ELSE @]
  /\ UNCHANGED closed

Retire(k) ==
  /\ phase[k] = "resident" /\ leases[k] > 0
  /\ phase' = [phase EXCEPT ![k] = "retiring"]
  /\ UNCHANGED <<leases, closed>>

Discard(V) ==
  /\ V \subseteq Unleased
  /\ phase' = [k \in Keys |-> IF k \in V THEN "absent" ELSE phase[k]]
  /\ UNCHANGED <<leases, closed>>

Close ==
  /\ ~closed /\ closed' = TRUE
  /\ phase' = [k \in Keys |-> IF k \in Unleased THEN "absent"
                              ELSE IF phase[k] = "resident" THEN "retiring" ELSE phase[k]]
  /\ UNCHANGED leases

NextLifecycle ==
  \/ Close
  \/ \E V \in SUBSET Keys : Discard(V) \/ \E k \in Keys : Start(k, V)
  \/ \E k \in Keys : Publish(k) \/ Fail(k) \/ Lease(k) \/ Release(k) \/ Retire(k)

Lifecycle == InitLifecycle /\ [][NextLifecycle]_lifecycleVars
=============================================================================

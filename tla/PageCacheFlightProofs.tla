------------------------ MODULE PageCacheFlightProofs ------------------------
(* Every action of PageCache preserves what ties the entries of the cache to *)
(* the requests in the reader and to the tokens of their loads.              *)
EXTENDS PageCacheLemmas

(* A page that is not in memory has no leases.                               *)
Unheld == \A k \in Keys : entries[k].st \in {"absent", "loading"} => entries[k].leases = 0

(* SingleFlight without counting: a request in the reader is for the load of *)
(* its generation, no two are for the same page, and every load has one.     *)
LoadOf(k, g) == entries[k].st = "loading" /\ entries[k].generation = g

Flight ==
  /\ \A i \in DOMAIN queue : LoadOf(queue[i].key, queue[i].generation)
  /\ \A w \in Workers : Running(w) => LoadOf(workers[w].key, workers[w].generation)
  /\ \A i, j \in DOMAIN queue : queue[i].key = queue[j].key => i = j
  /\ \A w, v \in Workers : Running(w) /\ Running(v) /\ workers[w].key = workers[v].key => w = v
  /\ \A i \in DOMAIN queue, w \in Workers : Running(w) => queue[i].key # workers[w].key
  /\ \A k \in Keys : entries[k].st = "loading" =>
       \/ \E i \in DOMAIN queue : queue[i].key = k
       \/ \E w \in Workers : Running(w) /\ workers[w].key = k

(* Generations are issued once, and the token of a load that may still be    *)
(* published is not cancelled.                                               *)
Tokens ==
  /\ \A k \in Keys : entries[k].generation <= generation
  /\ \A g \in cancelled : g <= generation
  /\ \A j, k \in Keys : entries[j].st # "absent" /\ entries[k].st # "absent"
                        /\ entries[j].generation = entries[k].generation => j = k
  /\ \A k \in Keys : entries[k].st = "loading" /\ entries[k].accepting_waiters =>
       entries[k].generation \notin cancelled /\ ~shutdown

FlightInv == Unheld /\ Flight /\ Tokens

-----------------------------------------------------------------------------
(* Steps that leave the loads and the reader alone.                          *)

(* No load starts or ends.                                                   *)
LoadsKept ==
  \A k \in Keys : /\ entries'[k].st = "loading" <=> entries[k].st = "loading"
                  /\ entries'[k].st = "loading" => entries'[k].generation = entries[k].generation

(* The running requests are the same.                                        *)
ReaderKept ==
  /\ queue' = queue
  /\ \A w \in Workers : /\ Running(w)' <=> Running(w)
                        /\ Running(w) => /\ workers'[w].key = workers[w].key
                                         /\ workers'[w].generation = workers[w].generation

(* Entries change in place or go; none starts to accept waiters again.       *)
EntriesShrink ==
  \A k \in Keys :
    \/ entries'[k].st = "absent" /\ entries'[k].generation = 0
    \/ /\ entries[k].st # "absent" \/ entries'[k].st = "absent"
       /\ entries'[k].generation = entries[k].generation
       /\ entries'[k].st = "loading" /\ entries'[k].accepting_waiters =>
            entries[k].st = "loading" /\ entries[k].accepting_waiters

(* Requests and loads still agree when neither changes.                      *)
LEMMA FlightKept ==
  ASSUME Typed, Flight, LoadsKept, ReaderKept
  PROVE  Flight'
<1>1. /\ \A i \in DOMAIN queue : queue[i].key \in Keys
      /\ \A w \in Workers : Running(w) => workers[w].key \in Keys
  <2>1. \A i \in DOMAIN queue : queue[i] \in Job
    BY DEF Typed, TypeOK
  <2>2. \A w \in Workers : workers[w] \in Worker
    BY DEF Typed, TypeOK
  <2> QED  BY <2>1, <2>2, ActorTypes DEF Job, Running
<1>2. \A i \in DOMAIN queue' : LoadOf(queue[i].key, queue[i].generation)'
  BY <1>1 DEF Flight, LoadOf, LoadsKept, ReaderKept
<1>3. \A w \in Workers : Running(w)' => LoadOf(workers[w].key, workers[w].generation)'
  BY <1>1 DEF Flight, LoadOf, LoadsKept, ReaderKept
<1>4. \A w, v \in Workers : Running(w)' /\ Running(v)' /\ workers'[w].key = workers'[v].key => w = v
  BY DEF Flight, ReaderKept
<1>5. \A i \in DOMAIN queue, w \in Workers : Running(w)' => queue[i].key # workers'[w].key
  BY DEF Flight, ReaderKept
<1>6. \A k \in Keys : entries'[k].st = "loading" =>
       \/ \E i \in DOMAIN queue : queue[i].key = k
       \/ \E w \in Workers : Running(w)' /\ workers'[w].key = k
  BY DEF Flight, LoadsKept, ReaderKept
<1> QED  BY <1>2, <1>3, <1>4, <1>5, <1>6 DEF Flight, ReaderKept

(* Generations and tokens still agree when entries only change in place or go.*)
LEMMA TokensKept ==
  ASSUME Typed, Tokens, EntriesShrink, generation' \in Nat, generation' >= generation,
         cancelled' \subseteq cancelled, shutdown' = shutdown
  PROVE  Tokens'
<1>1. /\ generation \in Nat /\ cancelled \subseteq Nat
      /\ \A k \in Keys : entries[k] \in Entry /\ entries[k].generation \in Nat
  BY DEF Typed, TypeOK, Entry
<1>3. \A k \in Keys : entries'[k].generation <= generation'
  BY <1>1 DEF Tokens, EntriesShrink
<1>4. \A g \in cancelled' : g <= generation'
  <2> TAKE g \in cancelled'
  <2>1. g \in Nat /\ g <= generation
    BY <1>1, Zenon DEF Tokens
  <2> QED  BY <1>1, <2>1, SMTT(30)
<1>5. \A j, k \in Keys : entries'[j].st # "absent" /\ entries'[k].st # "absent"
                         /\ entries'[j].generation = entries'[k].generation => j = k
  BY DEF Tokens, EntriesShrink
<1>6. \A k \in Keys : entries'[k].st = "loading" /\ entries'[k].accepting_waiters =>
        entries'[k].generation \notin cancelled' /\ ~shutdown'
  BY DEF Tokens, EntriesShrink
<1> QED  BY <1>3, <1>4, <1>5, <1>6 DEF Tokens

-----------------------------------------------------------------------------
(* What the updates of an entry leave alone.                                 *)
SameLoad(e, f) ==
  f.st = e.st /\ f.generation = e.generation /\ f.accepting_waiters = e.accepting_waiters

(* A lease more, ...                                                         *)
LEMMA LeasedFields ==
  ASSUME NEW e \in Entry, NEW t
  PROVE  /\ SameLoad(e, Leased(e, t))
         /\ Leased(e, t).leases = e.leases + 1
         /\ Leased(e, t).waiters = e.waiters
         /\ Leased(e, t).prefetched_unused = e.prefetched_unused
<1>1. SameLoad(e, Leased(e, t))
  BY DEF SameLoad, Leased, Entry
<1>2. Leased(e, t).leases = e.leases + 1
  BY DEF SameLoad, Leased, Entry
<1>3. Leased(e, t).waiters = e.waiters
  BY DEF SameLoad, Leased, Entry
<1>4. Leased(e, t).prefetched_unused = e.prefetched_unused
  BY DEF SameLoad, Leased, Entry
<1> QED  BY <1>1, <1>2, <1>3, <1>4, Zenon

(* ... a lease less, ...                                                     *)
LEMMA ReleasedFields ==
  ASSUME NEW e \in Entry
  PROVE  /\ SameLoad(e, Released(e))
         /\ Released(e).leases = e.leases - 1
         /\ Released(e).waiters = e.waiters
         /\ Released(e).prefetched_unused = e.prefetched_unused
<1>1. SameLoad(e, Released(e))
  BY DEF SameLoad, Released, Entry
<1>2. Released(e).leases = e.leases - 1
  BY DEF SameLoad, Released, Entry
<1>3. Released(e).waiters = e.waiters
  BY DEF SameLoad, Released, Entry
<1>4. Released(e).prefetched_unused = e.prefetched_unused
  BY DEF SameLoad, Released, Entry
<1> QED  BY <1>1, <1>2, <1>3, <1>4, Zenon

(* ... a waiter more, ...                                                    *)
LEMMA JoinedFields ==
  ASSUME NEW e \in Entry, NEW i, NEW t
  PROVE  /\ SameLoad(e, Joined(e, i, t))
         /\ Joined(e, i, t).leases = e.leases
         /\ Joined(e, i, t).waiters = e.waiters \cup {i}
         /\ Joined(e, i, t).prefetched_unused = e.prefetched_unused
<1>1. SameLoad(e, Joined(e, i, t))
  BY DEF SameLoad, Joined, Entry
<1>2. Joined(e, i, t).leases = e.leases
  BY DEF SameLoad, Joined, Entry
<1>3. Joined(e, i, t).waiters = e.waiters \cup {i}
  BY DEF SameLoad, Joined, Entry
<1>4. Joined(e, i, t).prefetched_unused = e.prefetched_unused
  BY DEF SameLoad, Joined, Entry
<1> QED  BY <1>1, <1>2, <1>3, <1>4, Zenon

(* ... a prefetch hint, ...                                                  *)
LEMMA HintedFields ==
  ASSUME NEW e \in Entry, NEW b
  PROVE  /\ SameLoad(e, [e EXCEPT !.prefetch_interest = b])
         /\ [e EXCEPT !.prefetch_interest = b].leases = e.leases
         /\ [e EXCEPT !.prefetch_interest = b].waiters = e.waiters
         /\ [e EXCEPT !.prefetch_interest = b].prefetched_unused = e.prefetched_unused
<1>1. SameLoad(e, [e EXCEPT !.prefetch_interest = b])
  BY DEF SameLoad, Entry
<1>2. [e EXCEPT !.prefetch_interest = b].leases = e.leases
  BY DEF SameLoad, Entry
<1>3. [e EXCEPT !.prefetch_interest = b].waiters = e.waiters
  BY DEF SameLoad, Entry
<1>4. [e EXCEPT !.prefetch_interest = b].prefetched_unused = e.prefetched_unused
  BY DEF SameLoad, Entry
<1> QED  BY <1>1, <1>2, <1>3, <1>4, Zenon

(* ... a use marked.                                                         *)
LEMMA UsedFields ==
  ASSUME NEW e \in Entry, NEW b
  PROVE  /\ SameLoad(e, [e EXCEPT !.prefetched_unused = b])
         /\ [e EXCEPT !.prefetched_unused = b].leases = e.leases
         /\ [e EXCEPT !.prefetched_unused = b].waiters = e.waiters
         /\ [e EXCEPT !.prefetched_unused = b].prefetched_unused = b
<1>1. SameLoad(e, [e EXCEPT !.prefetched_unused = b])
  BY DEF SameLoad, Entry
<1>2. [e EXCEPT !.prefetched_unused = b].leases = e.leases
  BY DEF SameLoad, Entry
<1>3. [e EXCEPT !.prefetched_unused = b].waiters = e.waiters
  BY DEF SameLoad, Entry
<1>4. [e EXCEPT !.prefetched_unused = b].prefetched_unused = b
  BY DEF SameLoad, Entry
<1> QED  BY <1>1, <1>2, <1>3, <1>4, Zenon

(* What the entries the code builds are: none, ...                           *)
LEMMA AbsentFields ==
  /\ Absent.st = "absent" /\ Absent.generation = 0 /\ Absent.leases = 0
  /\ Absent.waiters = {} /\ Absent.prefetched_unused = FALSE
<1>1. Absent.st = "absent" /\ Absent.generation = 0 /\ Absent.leases = 0
  BY DEF Absent
<1>2. Absent.waiters = {} /\ Absent.prefetched_unused = FALSE
  BY DEF Absent
<1> QED  BY <1>1, <1>2, Zenon

(* ... a load that starts, ...                                               *)
LEMMA LoadingFields ==
  ASSUME NEW g, NEW ws, NEW o, NEW t
  PROVE  /\ LoadingEntry(g, ws, o, t).st = "loading" /\ LoadingEntry(g, ws, o, t).generation = g
         /\ LoadingEntry(g, ws, o, t).leases = 0 /\ LoadingEntry(g, ws, o, t).waiters = ws
         /\ LoadingEntry(g, ws, o, t).prefetched_unused = FALSE
<1>1. LoadingEntry(g, ws, o, t).st = "loading" /\ LoadingEntry(g, ws, o, t).generation = g
  BY DEF LoadingEntry, Absent
<1>2. LoadingEntry(g, ws, o, t).leases = 0 /\ LoadingEntry(g, ws, o, t).waiters = ws
  BY DEF LoadingEntry, Absent
<1>3. LoadingEntry(g, ws, o, t).prefetched_unused = FALSE
  BY DEF LoadingEntry, Absent
<1> QED  BY <1>1, <1>2, <1>3, Zenon

(* ... a page that is published, ...                                         *)
LEMMA ResidentFields ==
  ASSUME NEW e
  PROVE  /\ ResidentEntry(e).st = "resident" /\ ResidentEntry(e).generation = e.generation
         /\ ResidentEntry(e).leases = Cardinality(e.waiters) /\ ResidentEntry(e).waiters = {}
         /\ ResidentEntry(e).prefetched_unused = (e.prefetch_interest /\ e.waiters = {})
<1>1. ResidentEntry(e).st = "resident" /\ ResidentEntry(e).generation = e.generation
  BY DEF ResidentEntry, Absent
<1>2. ResidentEntry(e).leases = Cardinality(e.waiters) /\ ResidentEntry(e).waiters = {}
  BY DEF ResidentEntry, Absent
<1>3. ResidentEntry(e).prefetched_unused = (e.prefetch_interest /\ e.waiters = {})
  BY DEF ResidentEntry, Absent
<1> QED  BY <1>1, <1>2, <1>3, Zenon

(* ... a leased page that is invalidated, ...                                *)
LEMMA RetiringFields ==
  ASSUME NEW e
  PROVE  /\ RetiringEntry(e).st = "retiring" /\ RetiringEntry(e).generation = e.generation
         /\ RetiringEntry(e).leases = e.leases /\ RetiringEntry(e).waiters = {}
         /\ RetiringEntry(e).prefetched_unused = e.prefetched_unused
<1>1. RetiringEntry(e).st = "retiring" /\ RetiringEntry(e).generation = e.generation
  BY DEF RetiringEntry, Absent
<1>2. RetiringEntry(e).leases = e.leases /\ RetiringEntry(e).waiters = {}
  BY DEF RetiringEntry, Absent
<1>3. RetiringEntry(e).prefetched_unused = e.prefetched_unused
  BY DEF RetiringEntry, Absent
<1> QED  BY <1>1, <1>2, <1>3, Zenon

(* ... and a load that a waiter has left.                                    *)
LEMMA LeftFields ==
  ASSUME NEW e \in Entry, NEW i
  PROVE  /\ Left(e, i).st = e.st /\ Left(e, i).generation = e.generation
         /\ Left(e, i).leases = e.leases /\ Left(e, i).waiters = e.waiters \ {i}
         /\ Left(e, i).accepting_waiters =
              (e.accepting_waiters /\ (e.waiters # {i} \/ e.prefetch_interest))
         /\ Left(e, i).prefetched_unused = e.prefetched_unused
<1>1. Left(e, i).st = e.st /\ Left(e, i).generation = e.generation
  BY DEF Left, Entry
<1>2. Left(e, i).leases = e.leases /\ Left(e, i).waiters = e.waiters \ {i}
  BY DEF Left, Entry
<1>3. Left(e, i).accepting_waiters =
       (e.accepting_waiters /\ (e.waiters # {i} \/ e.prefetch_interest))
  BY DEF Left, Entry
<1>4. Left(e, i).prefetched_unused = e.prefetched_unused
  BY DEF Left, Entry
<1> QED  BY <1>1, <1>2, <1>3, <1>4, Zenon

(* What invalidate and shutdown make of an entry, the waiters apart.         *)
LEMMA InvalidatedFields ==
  ASSUME NEW e \in Entry, NEW f, f = Invalidated(e) \/ f = [Invalidated(e) EXCEPT !.waiters = {}]
  PROVE  /\ f.leases = e.leases
         /\ e.st = "absent" => f.st = "absent" /\ f.generation = e.generation
         /\ e.st = "loading" => /\ f.st = "loading" /\ f.generation = e.generation
                                /\ f.accepting_waiters = FALSE
         /\ e.st = "resident" /\ e.leases = 0 => f.st = "absent" /\ f.generation = 0
         /\ e.st = "resident" /\ e.leases # 0 => f.st = "retiring" /\ f.generation = e.generation
         /\ e.st = "retiring" => f.st = "retiring" /\ f.generation = e.generation
<1>1. CASE e.st = "loading"
  BY <1>1, Zenon DEF Invalidated, Entry
<1>2. CASE e.st = "resident" /\ e.leases = 0
  BY <1>2 DEF Invalidated, Absent
<1>3. CASE e.st = "resident" /\ e.leases # 0
  BY <1>3, Zenon DEF Invalidated, RetiringEntry, Absent
<1>4. CASE e.st \in {"absent", "retiring"}
  BY <1>4 DEF Invalidated, Entry
<1> QED  BY <1>1, <1>2, <1>3, <1>4, Zenon DEF Entry

-----------------------------------------------------------------------------
(* Steps that change one entry in place.                                     *)

(* One entry is updated, its load and the reader are left alone.             *)
LEMMA TouchFlight ==
  ASSUME Typed, FlightInv, NEW k \in Keys, NEW e \in Entry, SameLoad(entries[k], e),
         e.leases = entries[k].leases \/ entries[k].st \in {"resident", "retiring"},
         entries' = [entries EXCEPT ![k] = e],
         UNCHANGED <<generation, shutdown, cancelled>>, ReaderKept
  PROVE  FlightInv'
<1>1. \A j \in Keys : IF j = k THEN entries'[j] = e ELSE entries'[j] = entries[j]
  BY DEF Typed, TypeOK
<1>2. Unheld'
  BY <1>1 DEF FlightInv, Unheld, SameLoad
<1>3. LoadsKept
  BY <1>1 DEF LoadsKept, SameLoad
<1>4. EntriesShrink
  BY <1>1 DEF EntriesShrink, SameLoad
<1>5. Flight'
  BY <1>3, FlightKept DEF FlightInv
<1>6. generation' \in Nat /\ generation' >= generation
  BY DEF Typed, TypeOK
<1>7. Tokens'
  BY <1>4, <1>6, TokensKept DEF FlightInv
<1> QED  BY <1>2, <1>5, <1>7 DEF FlightInv

(* Nothing changes but the identities drawn.                                 *)
LEMMA SkipFlight ==
  ASSUME Typed, FlightInv, generation' \in {generation, generation + 1},
         UNCHANGED <<entries, shutdown, cancelled>>, ReaderKept
  PROVE  FlightInv'
<1>1. LoadsKept /\ EntriesShrink
  BY DEF LoadsKept, EntriesShrink
<1>2. Flight'
  BY <1>1, FlightKept DEF FlightInv
<1>3. generation' \in Nat /\ generation' >= generation
  BY DEF Typed, TypeOK
<1>4. Tokens'
  BY <1>1, <1>3, TokensKept DEF FlightInv
<1> QED  BY <1>2, <1>4 DEF FlightInv, Unheld

(* The reader is left alone.                                                 *)
LEMMA ReaderUnchanged ==
  ASSUME UNCHANGED <<queue, workers>>
  PROVE  ReaderKept
BY DEF ReaderKept, Running

(* release_lease.                                                            *)
LEMMA ReleaseFlight ==
  ASSUME Typed, FlightInv, NEW k \in Keys, NEW g, ReleaseLease(k, g),
         UNCHANGED <<generation, shutdown, cancelled>>, ReaderKept
  PROVE  FlightInv'
<1> DEFINE e == entries[k]
<1>0. e \in Entry /\ entries \in [Keys -> Entry]
  BY DEF Typed, TypeOK
<1>1. CASE UNCHANGED entries
  BY <1>1, SkipFlight
<1>2. CASE e.st = "retiring" /\ entries' = [entries EXCEPT ![k] = Absent]
  <2>1. \A j \in Keys : IF j = k THEN entries'[j] = Absent ELSE entries'[j] = entries[j]
    BY <1>2, <1>0
  <2>2. Absent.st = "absent" /\ Absent.generation = 0 /\ Absent.leases = 0
    BY DEF Absent
  <2>3. Unheld'
    BY <2>1, <2>2 DEF FlightInv, Unheld
  <2>4. LoadsKept
    BY <2>1, <2>2, <1>2 DEF LoadsKept
  <2>5. EntriesShrink
    BY <2>1, <2>2 DEF EntriesShrink
  <2>6. generation' \in Nat /\ generation' >= generation
    BY DEF Typed, TypeOK
  <2> QED  BY <2>3, <2>4, <2>5, <2>6, FlightKept, TokensKept DEF FlightInv
<1>3. CASE /\ e.leases > 0 /\ e.st \in {"resident", "retiring"}
           /\ entries' = [entries EXCEPT ![k] = Released(e)]
  <2>1. Released(e) \in Entry
    BY <1>0, <1>3, ReleasedType
  <2>2. SameLoad(e, Released(e))
    BY <1>0, ReleasedFields, SMTT(30)
  <2> QED  BY <1>3, <2>1, <2>2, TouchFlight, Zenon
<1> QED  BY <1>1, <1>2, <1>3, Zenon DEF ReleaseLease, LastLease

(* withdraw_waiter: the last interest closes the load and cancels its token. *)
LEMMA WithdrawFlight ==
  ASSUME Typed, FlightInv, NEW k \in Keys, NEW g \in Nat, NEW i, WithdrawWaiter(k, g, i)
  PROVE  FlightInv'
<1> DEFINE e == entries[k]
<1>0. e \in Entry /\ entries \in [Keys -> Entry] /\ generation \in Nat
  BY DEF Typed, TypeOK
<1>1. ReaderKept /\ UNCHANGED <<generation, shutdown>>
  BY ReaderUnchanged DEF WithdrawWaiter, readerVars
<1>2. CASE UNCHANGED <<entries, cancelled>>
  BY <1>1, <1>2, SkipFlight
<1>3. CASE /\ e.generation = g /\ e.st = "loading"
           /\ entries' = [entries EXCEPT ![k] = Left(e, i)]
           /\ cancelled' = IF e.waiters = {i} /\ ~e.prefetch_interest
                           THEN cancelled \cup {g} ELSE cancelled
  <2>1. \A j \in Keys : IF j = k THEN entries'[j] = Left(e, i) ELSE entries'[j] = entries[j]
    BY <1>3, <1>0
  <2>2. /\ Left(e, i).st = e.st /\ Left(e, i).generation = e.generation
        /\ Left(e, i).leases = e.leases
        /\ Left(e, i).accepting_waiters =
              (e.accepting_waiters /\ (e.waiters # {i} \/ e.prefetch_interest))
    BY <1>0, LeftFields
  <2>3. Unheld'
    BY <2>1, <2>2 DEF FlightInv, Unheld
  <2>4. LoadsKept
    BY <2>1, <2>2 DEF LoadsKept
  <2>5. Flight'
    BY <1>1, <2>4, FlightKept DEF FlightInv
  <2>6. \A j \in Keys : /\ entries'[j].st = entries[j].st
                        /\ entries'[j].generation = entries[j].generation
    BY <2>1, <2>2
  <2>7. /\ \A j \in Keys : entries'[j].generation <= generation'
        /\ \A j, l \in Keys : entries'[j].st # "absent" /\ entries'[l].st # "absent"
                         /\ entries'[j].generation = entries'[l].generation => j = l
    BY <1>1, <2>6 DEF FlightInv, Tokens
  <2>8. \A h \in cancelled' : h <= generation'
    BY <1>0, <1>1, <1>3 DEF FlightInv, Tokens
  <2>9. ASSUME NEW j \in Keys, entries'[j].st = "loading", entries'[j].accepting_waiters
        PROVE  entries'[j].generation \notin cancelled' /\ ~shutdown'
    <3>1. CASE j = k
      <4>1. cancelled' = cancelled /\ e.accepting_waiters
        BY <1>3, <2>1, <2>2, <2>9, <3>1, Zenon
      <4> QED  BY <4>1, <1>1, <1>3, <2>6, <3>1 DEF FlightInv, Tokens
    <3>2. CASE j # k
      <4>1. entries'[j] = entries[j]
        BY <2>1, <3>2
      <4>2. entries[j].generation # g
        BY <4>1, <1>3, <2>9, <3>2 DEF FlightInv, Tokens
      <4> QED  BY <4>1, <4>2, <1>1, <1>3, <2>9 DEF FlightInv, Tokens
    <3> QED  BY <3>1, <3>2
  <2>10. Tokens'
    BY <2>7, <2>8, <2>9 DEF Tokens
  <2> QED  BY <2>3, <2>5, <2>10 DEF FlightInv
<1> QED  BY <1>2, <1>3, Zenon DEF WithdrawWaiter

-----------------------------------------------------------------------------
(* Misses.                                                                   *)

(* Victims give way.                                                         *)
LEMMA UnwindFlight ==
  ASSUME Typed, FlightInv, NEW k \in Keys, NEW V \in VictimPlans(k), UnwindLoad(k, V)
  PROVE  FlightInv'
<1>1. \A j \in Keys : IF j \in V THEN entries'[j] = Absent ELSE entries'[j] = entries[j]
  BY DEF UnwindLoad
<1>2. \A j \in V : j \in Keys /\ entries[j].st = "resident"
  BY PlanCandidates DEF Candidates, InState
<1>3. Absent.st = "absent" /\ Absent.generation = 0 /\ Absent.leases = 0
  BY DEF Absent
<1>4. ReaderKept /\ UNCHANGED <<shutdown, cancelled>>
  BY ReaderUnchanged DEF UnwindLoad, readerVars
<1>5. Unheld'
  BY <1>1, <1>3 DEF FlightInv, Unheld
<1>6. LoadsKept
  BY <1>1, <1>2, <1>3 DEF LoadsKept
<1>7. EntriesShrink
  BY <1>1, <1>3 DEF EntriesShrink
<1>8. generation' \in Nat /\ generation' >= generation
  BY DEF Typed, TypeOK, UnwindLoad
<1> QED  BY <1>4, <1>5, <1>6, <1>7, <1>8, FlightKept, TokensKept DEF FlightInv

(* A load starts: its page had none, its generation is new.                  *)
LEMMA StartFlight ==
  ASSUME Typed, FlightInv, ~shutdown, NEW k \in Keys, entries[k].st = "absent",
         NEW V \in VictimPlans(k), NEW ws, NEW o, StartLoad(k, V, ws, o)
  PROVE  FlightInv'
<1> DEFINE g == generation + 1
           l == LoadingEntry(generation', ws, o, tick')
           job == [key |-> k, generation |-> generation']
<1>1. \A j \in Keys : IF j = k THEN entries'[j] = l
                       ELSE IF j \in V THEN entries'[j] = Absent ELSE entries'[j] = entries[j]
  BY DEF StartLoad
<1>2. \A j \in V : j \in Keys /\ entries[j].st = "resident"
  BY PlanCandidates DEF Candidates, InState
<1>3. /\ Absent.st = "absent" /\ Absent.generation = 0 /\ Absent.leases = 0
      /\ l.st = "loading" /\ l.generation = g /\ l.leases = 0
  BY DEF Absent, LoadingEntry, StartLoad
<1>4. /\ generation \in Nat /\ generation' = g /\ g \in Nat /\ g > generation
      /\ \A j \in Keys : entries[j].generation \in Nat
      /\ cancelled \subseteq Nat /\ UNCHANGED <<shutdown, cancelled, workers>>
  BY SMTT(30) DEF Typed, TypeOK, StartLoad, Entry
<1> HIDE DEF l, g
<1>5. Unheld'
  BY <1>1, <1>3 DEF FlightInv, Unheld
<1>6. Tokens'
  <2>1. \A j \in Keys : entries'[j].generation <= generation'
    BY <1>1, <1>3, <1>4 DEF FlightInv, Tokens
  <2>2. \A h \in cancelled' : h <= generation'
    BY <1>4 DEF FlightInv, Tokens
  <2>3. \A j \in Keys : entries'[j].st # "absent" /\ j # k =>
           entries'[j] = entries[j] /\ entries'[j].generation # g
    BY <1>1, <1>3, <1>4 DEF FlightInv, Tokens
  <2>4. entries'[k].generation = g
    BY <1>1, <1>3
  <2>5. \A i, j \in Keys : entries'[i].st # "absent" /\ entries'[j].st # "absent"
                          /\ entries'[i].generation = entries'[j].generation => i = j
    BY <2>3, <2>4 DEF FlightInv, Tokens
  <2>6. g \notin cancelled
    BY <1>4 DEF FlightInv, Tokens
  <2>7. \A j \in Keys : entries'[j].st = "loading" /\ entries'[j].accepting_waiters =>
           entries'[j].generation \notin cancelled' /\ ~shutdown'
    BY <2>3, <2>4, <2>6, <1>4 DEF FlightInv, Tokens
  <2> QED  BY <2>1, <2>2, <2>5, <2>7 DEF Tokens
<1>7. /\ queue \in Seq(Job) /\ job \in Job /\ queue' = Append(queue, job)
      /\ job.key = k /\ job.generation = g
  BY <1>4 DEF Typed, TypeOK, StartLoad, Job
<1> HIDE DEF job
<1>8. /\ DOMAIN queue = 1 .. Len(queue) /\ Len(queue) \in Nat
      /\ DOMAIN queue' = 1 .. Len(queue) + 1
      /\ \A i \in 1 .. Len(queue) : queue'[i] = queue[i]
      /\ queue'[Len(queue) + 1] = job
  BY <1>7
<1>9. \A i \in DOMAIN queue' : \/ i \in DOMAIN queue /\ queue'[i] = queue[i]
                               \/ i = Len(queue) + 1 /\ queue'[i] = job /\ i \notin DOMAIN queue
  BY <1>8, SMTT(30)
<1>10. /\ \A i \in DOMAIN queue : queue[i].key \in Keys /\ queue[i].key # k
       /\ \A w \in Workers : Running(w) => workers[w].key \in Keys /\ workers[w].key # k
  <2>1. \A i \in DOMAIN queue : queue[i] \in Job
    BY DEF Typed, TypeOK
  <2>2. \A w \in Workers : workers[w] \in Worker
    BY DEF Typed, TypeOK
  <2>3. /\ \A i \in DOMAIN queue : queue[i].key \in Keys
        /\ \A w \in Workers : Running(w) => workers[w].key \in Keys
    BY <2>1, <2>2, ActorTypes DEF Job, Running
  <2> QED  BY <2>3 DEF FlightInv, Flight, LoadOf
<1>11. \A j \in Keys : entries[j].st = "loading" => entries'[j] = entries[j]
  BY <1>1, <1>2
<1>12. \A w \in Workers : Running(w)' <=> Running(w)
  BY <1>4 DEF Running
<1>13. \A i \in DOMAIN queue' : LoadOf(queue[i].key, queue[i].generation)'
  <2>1. \A i \in DOMAIN queue : LoadOf(queue[i].key, queue[i].generation)
    BY DEF FlightInv, Flight
  <2>2. entries'[k].st = "loading" /\ entries'[k].generation = g
    BY <1>1, <1>3, SMTT(30)
  <2> QED  BY <2>1, <2>2, <1>7, <1>9, <1>10, <1>11, SMTT(30) DEF LoadOf
<1>14. \A w \in Workers : Running(w)' => LoadOf(workers[w].key, workers[w].generation)'
  <2>1. \A w \in Workers : Running(w) => LoadOf(workers[w].key, workers[w].generation)
    BY SMTT(30) DEF FlightInv, Flight
  <2> QED  BY <2>1, <1>4, <1>10, <1>11, <1>12, SMTT(30) DEF LoadOf
<1>15. \A i, j \in DOMAIN queue' : queue'[i].key = queue'[j].key => i = j
  BY <1>7, <1>9, <1>10, SMTT(30) DEF FlightInv, Flight
<1>16. \A w, v \in Workers : Running(w)' /\ Running(v)' /\ workers'[w].key = workers'[v].key => w = v
  BY <1>4, <1>12, SMTT(30) DEF FlightInv, Flight
<1>17. \A i \in DOMAIN queue', w \in Workers : Running(w)' => queue'[i].key # workers'[w].key
  BY <1>4, <1>7, <1>9, <1>10, <1>12, SMTT(30) DEF FlightInv, Flight
<1>18. ASSUME NEW j \in Keys, entries'[j].st = "loading"
       PROVE  \/ \E i \in DOMAIN queue' : queue'[i].key = j
              \/ \E w \in Workers : Running(w)' /\ workers'[w].key = j
  <2>1. CASE j = k
    BY <2>1, <1>7, <1>8, SMTT(30)
  <2>2. CASE j # k
    <3>1. entries[j].st = "loading"
      BY <2>2, <1>1, <1>3, <1>18, SMTT(30)
    <3>2. \/ \E i \in DOMAIN queue : queue[i].key = j
          \/ \E w \in Workers : Running(w) /\ workers[w].key = j
      BY <3>1, SMTT(30) DEF FlightInv, Flight
    <3> QED  BY <3>2, <1>4, <1>8, <1>12
  <2> QED  BY <2>1, <2>2
<1>19. Flight'
  BY <1>13, <1>14, <1>15, <1>16, <1>17, <1>18, SMTT(30) DEF Flight
<1> QED  BY <1>5, <1>6, <1>19 DEF FlightInv

-----------------------------------------------------------------------------
(* invalidate and shutdown.                                                  *)

(* An entry for which a load may no longer publish.                          *)
InvalidatedPage(k) ==
  /\ entries'[k].leases = entries[k].leases
  /\ entries'[k].st = "loading" <=> entries[k].st = "loading"
  /\ entries[k].st = "loading" => ~entries'[k].accepting_waiters
  /\ entries[k].st = "absent" => entries'[k].st = "absent"
  /\ \/ entries'[k].generation = entries[k].generation
     \/ entries'[k].st = "absent" /\ entries'[k].generation = 0
  /\ entries'[k].st = "absent" => entries'[k].leases = 0

(* The state of an invalidated page.                                         *)
LEMMA InvalidatedIs ==
  ASSUME Typed, Unheld, NEW k \in Keys, 
         \/ entries'[k] = Invalidated(entries[k])
         \/ entries'[k] = [Invalidated(entries[k]) EXCEPT !.waiters = {}]
  PROVE  InvalidatedPage(k)
<1>1. entries[k] \in Entry
  BY DEF Typed, TypeOK
<1>2. entries[k].st \in {"absent", "loading", "resident", "retiring"}
  BY <1>1 DEF Entry
<1>3. /\ entries'[k].leases = entries[k].leases
      /\ entries[k].st = "absent" => /\ entries'[k].st = "absent"
                                     /\ entries'[k].generation = entries[k].generation
      /\ entries[k].st = "loading" => /\ entries'[k].st = "loading"
                                      /\ entries'[k].generation = entries[k].generation
                                      /\ entries'[k].accepting_waiters = FALSE
      /\ entries[k].st = "resident" /\ entries[k].leases = 0 =>
           entries'[k].st = "absent" /\ entries'[k].generation = 0
      /\ entries[k].st = "resident" /\ entries[k].leases # 0 =>
           entries'[k].st = "retiring" /\ entries'[k].generation = entries[k].generation
      /\ entries[k].st = "retiring" =>
           entries'[k].st = "retiring" /\ entries'[k].generation = entries[k].generation
  BY <1>1, InvalidatedFields, Zenon
<1> QED  BY <1>2, <1>3 DEF InvalidatedPage, Unheld

(* invalidate cancels the token of a load and keeps its request.             *)
LEMMA InvalidateFlight ==
  ASSUME Typed, FlightInv, NEW k \in Keys, Invalidate(k)
  PROVE  FlightInv'
<1>0. entries[k] \in Entry /\ entries \in [Keys -> Entry] /\ generation \in Nat
  BY DEF Typed, TypeOK
<1>1. \A j \in Keys \ {k} : entries'[j] = entries[j]
  BY <1>0 DEF Invalidate
<1>2. InvalidatedPage(k)
  <2>1. entries'[k] = Invalidated(entries[k])
    BY <1>0 DEF Invalidate
  <2> QED  BY <2>1, InvalidatedIs, Zenon DEF FlightInv
<1>3. ReaderKept /\ UNCHANGED <<generation, shutdown>>
  BY ReaderUnchanged DEF Invalidate, readerVars
<1>4. /\ cancelled' \subseteq cancelled \cup {entries[k].generation}
      /\ entries[k].st # "loading" => cancelled' = cancelled
      /\ entries[k].st # "absent"
  BY DEF Invalidate
<1>5. Unheld'
  BY <1>1, <1>2 DEF FlightInv, Unheld, InvalidatedPage
<1>6. LoadsKept
  <2>1. \A j \in Keys : j = k \/ entries'[j] = entries[j]
    BY <1>1
  <2>2. entries'[k].st = "loading" => entries'[k].generation = entries[k].generation
    BY <1>2 DEF InvalidatedPage
  <2> QED  BY <2>1, <2>2, <1>2 DEF LoadsKept, InvalidatedPage
<1>7. Flight'
  BY <1>3, <1>6, FlightKept DEF FlightInv
<1>8. \A j \in Keys : entries'[j].generation <= generation'
  BY <1>0, <1>1, <1>2, <1>3, SMTT(30) DEF FlightInv, Tokens, InvalidatedPage
<1>9. \A h \in cancelled' : h <= generation'
  BY <1>3, <1>4 DEF FlightInv, Tokens
<1>10. \A j \in Keys : entries'[j].st # "absent" =>
          entries[j].st # "absent" /\ entries'[j].generation = entries[j].generation
  BY <1>1, <1>2 DEF InvalidatedPage
<1>11. \A i, j \in Keys : entries'[i].st # "absent" /\ entries'[j].st # "absent"
                          /\ entries'[i].generation = entries'[j].generation => i = j
  BY <1>10 DEF FlightInv, Tokens
<1>12. ASSUME NEW j \in Keys, entries'[j].st = "loading", entries'[j].accepting_waiters
       PROVE  entries'[j].generation \notin cancelled' /\ ~shutdown'
  <2>1. j # k
    BY <1>2, <1>12 DEF InvalidatedPage
  <2>2. entries'[j] = entries[j]
    BY <2>1, <1>1
  <2>3. entries[j].generation # entries[k].generation
    BY <2>1, <2>2, <1>4, <1>12 DEF FlightInv, Tokens
  <2> QED  BY <2>2, <2>3, <1>3, <1>4, <1>12, SMTT(30) DEF FlightInv, Tokens
<1>13. Tokens'
  BY <1>8, <1>9, <1>11, <1>12 DEF Tokens
<1> QED  BY <1>5, <1>7, <1>13 DEF FlightInv

(* shutdown does so for every load.                                          *)
LEMMA ShutdownFlight ==
  ASSUME Typed, FlightInv, Shutdown
  PROVE  FlightInv'
<1>0. generation \in Nat
  BY DEF Typed, TypeOK
<1>1. \A k \in Keys : InvalidatedPage(k)
  <2>1. \A k \in Keys : entries'[k] = [Invalidated(entries[k]) EXCEPT !.waiters = {}]
    BY DEF Shutdown
  <2> QED  BY <2>1, InvalidatedIs, Zenon DEF FlightInv
<1>2. ReaderKept /\ generation' = generation
  BY ReaderUnchanged DEF Shutdown, readerVars
<1>3. cancelled' = cancelled \cup {entries[k].generation : k \in InState("loading")}
  BY DEF Shutdown
<1>4. Unheld'
  BY <1>1 DEF FlightInv, Unheld, InvalidatedPage
<1>5. LoadsKept
  BY <1>1 DEF LoadsKept, InvalidatedPage
<1>6. Flight'
  BY <1>2, <1>5, FlightKept DEF FlightInv
<1>7. \A j \in Keys : entries'[j].generation <= generation'
  BY <1>0, <1>1, <1>2 DEF FlightInv, Tokens, InvalidatedPage
<1>8. \A h \in cancelled' : h <= generation'
  BY <1>2, <1>3 DEF FlightInv, Tokens, InState
<1>9. \A j \in Keys : entries'[j].st # "absent" =>
          entries[j].st # "absent" /\ entries'[j].generation = entries[j].generation
  BY <1>1 DEF InvalidatedPage
<1>10. \A i, j \in Keys : entries'[i].st # "absent" /\ entries'[j].st # "absent"
                          /\ entries'[i].generation = entries'[j].generation => i = j
  BY <1>9 DEF FlightInv, Tokens
<1>11. \A j \in Keys : entries'[j].st = "loading" => ~entries'[j].accepting_waiters
  BY <1>1 DEF InvalidatedPage
<1>12. Tokens'
  BY <1>7, <1>8, <1>10, <1>11 DEF Tokens
<1> QED  BY <1>4, <1>6, <1>12 DEF FlightInv

-----------------------------------------------------------------------------
(* Reader workers.                                                           *)

(* A request moves from the queue to a worker.                               *)
LEMMA DequeueFlight ==
  ASSUME Typed, FlightInv, NEW w \in Workers, Dequeue(w)
  PROVE  FlightInv'
<1>1. /\ queue \in Seq(Job) /\ queue # <<>> /\ queue' = Tail(queue)
      /\ workers \in [Workers -> Worker]
      /\ UNCHANGED <<entries, generation, shutdown, cancelled>>
  BY DEF Typed, TypeOK, Dequeue, cacheVars
<1>2. /\ DOMAIN queue = 1 .. Len(queue) /\ Len(queue) \in Nat /\ Len(queue) >= 1
      /\ Head(queue) = queue[1]
  BY <1>1
<1>3. /\ DOMAIN queue' = 1 .. Len(queue) - 1
      /\ \A i \in 1 .. Len(queue) - 1 : queue'[i] = queue[i + 1]
  BY <1>1, <1>2
<1>4. /\ 1 \in DOMAIN queue
      /\ \A i \in DOMAIN queue' : i + 1 \in DOMAIN queue /\ queue'[i] = queue[i + 1] /\ i + 1 # 1
      /\ \A i \in DOMAIN queue : i = 1 \/ (i - 1 \in DOMAIN queue' /\ queue'[i - 1] = queue[i])
      /\ \A i, j \in DOMAIN queue' : i + 1 = j + 1 => i = j
  BY <1>2, <1>3
<1>5. /\ workers'[w].st = "reading" /\ workers'[w].key = queue[1].key
      /\ workers'[w].generation = queue[1].generation
      /\ \A v \in Workers \ {w} : workers'[v] = workers[v]
  BY <1>1, <1>2 DEF Dequeue, Parked
<1>6. Running(w)' /\ ~Running(w) /\ \A v \in Workers \ {w} : Running(v)' <=> Running(v)
  BY <1>5 DEF Running, Dequeue
<1>7. \A i \in DOMAIN queue' : LoadOf(queue[i].key, queue[i].generation)'
  BY <1>1, <1>4, SMTT(30) DEF FlightInv, Flight, LoadOf
<1>8. \A v \in Workers : Running(v)' => LoadOf(workers[v].key, workers[v].generation)'
  BY <1>1, <1>4, <1>5, <1>6, SMTT(30) DEF FlightInv, Flight, LoadOf
<1>9. \A i, j \in DOMAIN queue' : queue'[i].key = queue'[j].key => i = j
  BY <1>4 DEF FlightInv, Flight
<1>10. \A u, v \in Workers : Running(u)' /\ Running(v)' /\ workers'[u].key = workers'[v].key => u = v
  BY <1>4, <1>5, <1>6, SMTT(30) DEF FlightInv, Flight
<1>11. \A i \in DOMAIN queue', v \in Workers : Running(v)' => queue'[i].key # workers'[v].key
  BY <1>4, <1>5, <1>6 DEF FlightInv, Flight
<1>12. ASSUME NEW k \in Keys, entries'[k].st = "loading"
       PROVE  \/ \E i \in DOMAIN queue' : queue'[i].key = k
              \/ \E v \in Workers : Running(v)' /\ workers'[v].key = k
  <2>1. \/ \E i \in DOMAIN queue : queue[i].key = k
        \/ \E v \in Workers : Running(v) /\ workers[v].key = k
    BY <1>1, <1>12, SMTT(30) DEF FlightInv, Flight
  <2>2. CASE \E i \in DOMAIN queue : queue[i].key = k
    <3>1. PICK i \in DOMAIN queue : queue[i].key = k
      BY <2>2
    <3> QED  BY <3>1, <1>4, <1>5, <1>6
  <2>3. CASE \E v \in Workers : Running(v) /\ workers[v].key = k
    BY <2>3, <1>5, <1>6, SMTT(30)
  <2> QED  BY <2>1, <2>2, <2>3, SMTT(30)
<1>13. Flight'
  BY <1>7, <1>8, <1>9, <1>10, <1>11, <1>12, SMTT(30) DEF Flight
<1>14. Unheld' /\ Tokens'
  BY <1>1 DEF FlightInv, Unheld, Tokens
<1> QED  BY <1>13, <1>14 DEF FlightInv

(* complete_load finds the load it was submitted for, and ends it.           *)
LEMMA CompleteFlight ==
  ASSUME Typed, FlightInv, NEW w \in Workers, Complete(w)
  PROVE  FlightInv'
<1> DEFINE k == workers[w].key
           e == entries[k]
<1>0. /\ workers \in [Workers -> Worker] /\ entries \in [Keys -> Entry]
      /\ Running(w) /\ workers[w].st # "parked"
      /\ UNCHANGED <<generation, shutdown, queue>>
  BY DEF Typed, TypeOK, Complete, Running
<1>1. k \in Keys /\ e \in Entry
  BY <1>0, ActorTypes, SMTT(30)
<1>2. e.st = "loading" /\ e.generation = workers[w].generation
  BY <1>0 DEF FlightInv, Flight, LoadOf
<1>3. \/ entries' = [entries EXCEPT ![k] = ResidentEntry(e)]
      \/ entries' = [entries EXCEPT ![k] = Absent]
  BY <1>2, ZenonT(60) DEF Complete
<1>4. /\ entries'[k].st # "loading"
      /\ \/ entries'[k].st = "absent" /\ entries'[k].generation = 0 /\ entries'[k].leases = 0
         \/ entries'[k].st = "resident" /\ entries'[k].generation = e.generation
      /\ \A j \in Keys \ {k} : entries'[j] = entries[j]
  <2>1. entries'[k] = ResidentEntry(e) \/ entries'[k] = Absent
    BY <1>0, <1>1, <1>3
  <2>2. \A j \in Keys \ {k} : entries'[j] = entries[j]
    BY <1>0, <1>3
  <2>3. ResidentEntry(e).st = "resident" /\ ResidentEntry(e).generation = e.generation
    BY ResidentFields
  <2> QED  BY <2>1, <2>2, <2>3, AbsentFields
<1>5. ~Running(w)' /\ \A v \in Workers \ {w} : workers'[v] = workers[v]
  <2>1. \/ workers' = [workers EXCEPT ![w] = Parked]
        \/ workers' = [workers EXCEPT ![w] = [workers[w] EXCEPT !.st = "sending",
                                               !.ok = Publishes(e, workers[w].ok),
                                               !.out = e.waiters]]
    BY Zenon DEF Complete
  <2>2. [workers[w] EXCEPT !.st = "sending", !.ok = Publishes(e, workers[w].ok),
                           !.out = e.waiters].st = "sending"
    BY <1>0 DEF Worker, Parked
  <2>3. workers'[w].st \in {"parked", "sending"}
    <3>1. CASE workers' = [workers EXCEPT ![w] = Parked]
      BY <1>0, <3>1 DEF Parked
    <3>2. CASE workers' # [workers EXCEPT ![w] = Parked]
      BY <1>0, <2>1, <2>2, <3>2, ZenonT(60)
    <3> QED  BY <3>1, <3>2, SMTT(30)
  <2>4. \A v \in Workers \ {w} : workers'[v] = workers[v]
    BY <1>0, <2>1, SMTT(30)
  <2> QED  BY <2>3, <2>4, SMTT(30) DEF Running
<1>6. \A v \in Workers \ {w} : Running(v)' <=> Running(v)
  BY <1>5, SMTT(30) DEF Running
<1>7. Unheld'
  BY <1>4, SMTT(30) DEF FlightInv, Unheld
<1>8. EntriesShrink
  BY <1>2, <1>4 DEF EntriesShrink
<1>9. Tokens'
  <2>1. generation' \in Nat /\ generation' >= generation /\ cancelled' \subseteq cancelled
    BY <1>0, SMTT(30) DEF Typed, TypeOK, Complete
  <2> QED  BY <1>0, <1>8, <2>1, TokensKept, SMTT(30) DEF FlightInv
<1>10. /\ \A i \in DOMAIN queue : queue[i].key \in Keys /\ queue[i].key # k
       /\ \A v \in Workers \ {w} : Running(v) => workers[v].key \in Keys /\ workers[v].key # k
  <2>1. \A i \in DOMAIN queue : queue[i] \in Job
    BY DEF Typed, TypeOK
  <2>2. /\ \A i \in DOMAIN queue : queue[i].key \in Keys
        /\ \A v \in Workers : Running(v) => workers[v].key \in Keys
    BY <2>1, <1>0, ActorTypes, SMTT(30) DEF Job, Running
  <2> QED  BY <2>2, <1>0 DEF FlightInv, Flight
<1> HIDE DEF k, e
<1>11. \A i \in DOMAIN queue' : LoadOf(queue[i].key, queue[i].generation)'
  BY <1>0, <1>4, <1>10, SMTT(30) DEF FlightInv, Flight, LoadOf
<1>12. \A v \in Workers : Running(v)' => LoadOf(workers[v].key, workers[v].generation)'
  BY <1>4, <1>5, <1>6, <1>10, SMTT(30) DEF FlightInv, Flight, LoadOf
<1>13. \A u, v \in Workers : Running(u)' /\ Running(v)' /\ workers'[u].key = workers'[v].key => u = v
  BY <1>5, <1>6, SMTT(30) DEF FlightInv, Flight
<1>14. \A i \in DOMAIN queue', v \in Workers : Running(v)' => queue'[i].key # workers'[v].key
  BY <1>0, <1>5, <1>6, SMTT(30) DEF FlightInv, Flight
<1>15. ASSUME NEW j \in Keys, entries'[j].st = "loading"
       PROVE  \/ \E i \in DOMAIN queue' : queue'[i].key = j
              \/ \E v \in Workers : Running(v)' /\ workers'[v].key = j
  <2>1. j # k /\ entries[j].st = "loading"
    BY <1>4, <1>15, SMTT(30)
  <2>2. \/ \E i \in DOMAIN queue : queue[i].key = j
        \/ \E v \in Workers : Running(v) /\ workers[v].key = j
    BY <2>1 DEF FlightInv, Flight
  <2>3. \A v \in Workers : workers[v].key = j => v # w
    BY <2>1, SMTT(30) DEF k
  <2> QED  BY <2>2, <2>3, <1>0, <1>5, <1>6, SMTT(30)
<1>16. Flight'
  BY <1>0, <1>11, <1>12, <1>13, <1>14, <1>15, SMTT(30) DEF FlightInv, Flight
<1> QED  BY <1>7, <1>9, <1>16, SMTT(30) DEF FlightInv

(* A read takes no request and completes none, ...                           *)
LEMMA ReadKeeps ==
  ASSUME Typed, NEW w \in Workers, Read(w)
  PROVE  ReaderKept
<1>1. workers \in [Workers -> Worker] /\ queue' = queue /\ workers[w] \in Worker
  BY DEF Typed, TypeOK, Read
<1>2. PICK ok \in BOOLEAN : workers' = [workers EXCEPT ![w].st = "read", ![w].ok = ok]
  BY Zenon DEF Read
<1>3. /\ \A v \in Workers \ {w} : workers'[v] = workers[v]
      /\ workers'[w] = [workers[w] EXCEPT !.st = "read", !.ok = ok]
  BY <1>1, <1>2
<1>4. /\ workers'[w].st = "read" /\ workers'[w].key = workers[w].key
      /\ workers'[w].generation = workers[w].generation
  BY <1>1, <1>3 DEF Worker, Parked
<1>5. workers[w].st = "reading"
  BY DEF Read
<1> QED  BY <1>1, <1>3, <1>4, <1>5, Zenon DEF ReaderKept, Running

(* ... and neither does a step of a worker that has completed one.           *)
LEMMA AfterKeeps ==
  ASSUME NEW w \in Workers, queue' = queue, ~Running(w), ~Running(w)',
         \A v \in Workers \ {w} : workers'[v] = workers[v]
  PROVE  ReaderKept
BY DEF ReaderKept, Running

(* A delivery leaves the loads alone.                                        *)
LEMMA SendFlight ==
  ASSUME Typed, FlightInv, NEW w \in Workers, NEW i, Send(w, i)
  PROVE  FlightInv'
<1>1. /\ workers \in [Workers -> Worker] /\ workers[w] \in Worker /\ workers[w].st = "sending"
      /\ UNCHANGED <<generation, shutdown, cancelled, queue>>
  BY DEF Typed, TypeOK, Send
<1>2. workers[w].key \in Keys
  BY <1>1, ActorTypes
<1> DEFINE rest == workers[w].out \ {i}
<1>3. \/ /\ workers' = [workers EXCEPT ![w].st = "dropping", ![w].out = rest]
         /\ ReleaseLease(workers[w].key, workers[w].generation)
      \/ /\ \/ workers' = [workers EXCEPT ![w] = Parked]
            \/ workers' = [workers EXCEPT ![w] = [workers[w] EXCEPT !.out = rest]]
         /\ UNCHANGED entries
  BY Zenon DEF Send
<1>4. ReaderKept
  <2>1. /\ [workers[w] EXCEPT !.st = "dropping", !.out = rest].st = "dropping"
        /\ [workers[w] EXCEPT !.out = rest].st = "sending" /\ Parked.st = "parked"
    BY <1>1 DEF Worker, Parked
  <2>2. /\ \A v \in Workers \ {w} : workers'[v] = workers[v]
        /\ workers'[w] \in {[workers[w] EXCEPT !.st = "dropping", !.out = rest], Parked,
                            [workers[w] EXCEPT !.out = rest]}
    BY <1>1, <1>3, Zenon
  <2>3. ~Running(w) /\ ~Running(w)'
    BY <1>1, <2>1, <2>2, Zenon DEF Running
  <2> QED  BY <1>1, <2>2, <2>3, AfterKeeps
<1>5. CASE ReleaseLease(workers[w].key, workers[w].generation)
  BY <1>1, <1>2, <1>4, <1>5, ReleaseFlight
<1>6. CASE UNCHANGED entries
  BY <1>1, <1>4, <1>6, SkipFlight
<1> QED  BY <1>3, <1>5, <1>6

-----------------------------------------------------------------------------
(* Every step.                                                               *)

(* The actions of get, ...                                                   *)
LEMMA GetFlight ==
  ASSUME Typed, FlightInv, GetStep
  PROVE  FlightInv'
<1>0. /\ entries \in [Keys -> Entry] /\ tick \in Nat /\ waiter \in Nat
      /\ \A k \in Keys : entries[k] \in Entry /\ IsFiniteSet(entries[k].waiters)
  BY DEF Typed, TypeOK, WaitersFinite
<1>1. ASSUME NEW t \in Tasks, NEW k \in Keys, GetHit(t, k)
      PROVE  FlightInv'
  <2>1. /\ entries' = [entries EXCEPT ![k] = Leased(entries[k], tick + 1)]
        /\ entries[k].st = "resident"
        /\ UNCHANGED <<generation, shutdown, cancelled, queue, workers>>
    BY <1>1 DEF GetHit, readerVars
  <2>2. Leased(entries[k], tick + 1) \in Entry /\ SameLoad(entries[k], Leased(entries[k], tick + 1))
    <3>1. Leased(entries[k], tick + 1) \in Entry
      BY <1>0, LeasedType, SMTT(30)
    <3>2. SameLoad(entries[k], Leased(entries[k], tick + 1))
      BY <1>0, LeasedFields, SMTT(30)
    <3> QED  BY <3>1, <3>2, SMTT(30)
  <2>3. ReaderKept
    BY <2>1, ReaderUnchanged
  <2> QED  BY <2>1, <2>2, <2>3, TouchFlight, Zenon
<1>2. ASSUME NEW t \in Tasks, NEW k \in Keys, GetJoin(t, k)
      PROVE  FlightInv'
  <2> DEFINE e == Joined(entries[k], waiter + 1, tick + 1)
  <2>1. /\ entries' = [entries EXCEPT ![k] = e]
        /\ UNCHANGED <<generation, shutdown, cancelled, queue, workers>>
    BY <1>2 DEF GetJoin, readerVars
  <2>2. e \in Entry /\ SameLoad(entries[k], e) /\ e.leases = entries[k].leases
    <3>1. e \in Entry
      BY <1>0, JoinedType, SMTT(30)
    <3>2. SameLoad(entries[k], e) /\ e.leases = entries[k].leases
      BY <1>0, JoinedFields, SMTT(30)
    <3> QED  BY <3>1, <3>2, SMTT(30)
  <2>3. ReaderKept
    BY <2>1, ReaderUnchanged
  <2> HIDE DEF e
  <2> QED  BY <2>1, <2>2, <2>3, TouchFlight, Zenon
<1>3. ASSUME NEW t \in Tasks, NEW k \in Keys, GetMiss(t, k)
      PROVE  FlightInv'
  <2>1. PICK V \in VictimPlans(k) : StartLoad(k, V, {waiter'}, "demand")
    BY <1>3 DEF GetMiss
  <2>2. ~shutdown /\ entries[k].st = "absent"
    BY <1>3 DEF GetMiss, CanAccess
  <2> QED  BY <2>1, <2>2, StartFlight
<1>4. ASSUME NEW k \in Keys, GetUnwound(k)
      PROVE  FlightInv'
  BY <1>4, UnwindFlight DEF GetUnwound
<1>5. ASSUME NEW k \in Keys, GetDenied(k)
      PROVE  FlightInv'
  <2>1. UNCHANGED <<queue, workers, entries, shutdown, cancelled>> /\ generation' = generation + 1
    BY <1>5 DEF GetDenied, readerVars
  <2> QED  BY <2>1, ReaderUnchanged, SkipFlight, SMTT(30)
<1>6. CASE GetRefused
  <2>1. UNCHANGED <<queue, workers, entries, shutdown, cancelled, generation>>
    BY <1>6 DEF GetRefused, readerVars
  <2> QED  BY <2>1, ReaderUnchanged, SkipFlight
<1> QED  BY <1>1, <1>2, <1>3, <1>4, <1>5, <1>6, SMTT(30) DEF GetStep

(* ... of prefetch, ...                                                      *)
LEMMA PrefetchFlight ==
  ASSUME Typed, FlightInv, PrefetchStep
  PROVE  FlightInv'
<1>0. entries \in [Keys -> Entry] /\ \A k \in Keys : entries[k] \in Entry
  BY DEF Typed, TypeOK
<1>1. ASSUME NEW k \in Keys, PrefetchCoalesce(k)
      PROVE  FlightInv'
  <2> DEFINE e == [entries[k] EXCEPT !.prefetch_interest = TRUE]
  <2>1. /\ entries' = [entries EXCEPT ![k] = e]
        /\ UNCHANGED <<generation, shutdown, cancelled, queue, workers>>
    BY <1>0, <1>1 DEF PrefetchCoalesce, readerVars
  <2>2. e \in Entry
    BY <1>0, Zenon DEF Entry
  <2>3. SameLoad(entries[k], e) /\ e.leases = entries[k].leases
    BY <1>0, HintedFields, SMTT(30)
  <2>4. ReaderKept
    BY <2>1, ReaderUnchanged
  <2> HIDE DEF e
  <2> QED  BY <2>1, <2>2, <2>3, <2>4, TouchFlight, Zenon
<1>2. ASSUME NEW k \in Keys, PrefetchStart(k)
      PROVE  FlightInv'
  <2>1. PICK V \in VictimPlans(k) : StartLoad(k, V, {}, "prefetch")
    BY <1>2 DEF PrefetchStart
  <2>2. ~shutdown /\ entries[k].st = "absent"
    BY <1>2 DEF PrefetchStart, CanAccess
  <2> QED  BY <2>1, <2>2, StartFlight
<1>3. ASSUME NEW k \in Keys, PrefetchUnwound(k)
      PROVE  FlightInv'
  BY <1>3, UnwindFlight, SMTT(30) DEF PrefetchUnwound
<1>4. ASSUME NEW k \in Keys, PrefetchDropped(k)
      PROVE  FlightInv'
  <2>1. UNCHANGED <<queue, workers, entries, shutdown, cancelled>> /\ generation' = generation + 1
    BY <1>4 DEF PrefetchDropped, readerVars
  <2> QED  BY <2>1, ReaderUnchanged, SkipFlight
<1> QED  BY <1>1, <1>2, <1>3, <1>4, SMTT(30) DEF PrefetchStep

(* ... of a request task ...                                                 *)
LEMMA TaskFlight ==
  ASSUME Typed, FlightInv, NEW t \in Tasks, TaskStep(t)
  PROVE  FlightInv'
<1>0. /\ entries \in [Keys -> Entry] /\ tasks[t] \in Task
      /\ \A k \in Keys : entries[k] \in Entry
  BY DEF Typed, TypeOK
<1>a. tasks[t].st # "idle" => tasks[t].key \in Keys /\ tasks[t].generation \in Nat
  BY <1>0, ActorTypes
<1>1. CASE MarkPrefetchUse(t)
  <2> DEFINE k == tasks[t].key
             e == [entries[k] EXCEPT !.prefetched_unused = FALSE]
  <2>1. k \in Keys /\ UNCHANGED <<generation, shutdown, cancelled, queue, workers>>
    BY <1>a, <1>1 DEF MarkPrefetchUse, readerVars
  <2>2. ReaderKept
    BY <2>1, ReaderUnchanged
  <2>3. \/ UNCHANGED entries
        \/ entries' = [entries EXCEPT ![k] = e]
    BY <1>1, <1>0, Zenon DEF MarkPrefetchUse
  <2>4. e \in Entry
    BY <1>0, <2>1, Zenon DEF Entry
  <2>5. SameLoad(entries[k], e) /\ e.leases = entries[k].leases
    BY <1>0, <2>1, UsedFields, ZenonT(60)
  <2> HIDE DEF e
  <2>6. CASE UNCHANGED entries
    BY <2>1, <2>2, <2>6, SkipFlight
  <2>7. CASE entries' = [entries EXCEPT ![k] = e]
    BY <2>1, <2>2, <2>4, <2>5, <2>7, TouchFlight, Zenon
  <2> QED  BY <2>3, <2>6, <2>7, SMTT(30)
<1>2. CASE CountUse(t) \/ Poll(t) \/ DropPayload(t)
  <2>1. UNCHANGED <<queue, workers, entries, shutdown, cancelled, generation>>
    BY <1>2 DEF CountUse, Poll, DropPayload, cacheVars, readerVars
  <2> QED  BY <2>1, ReaderUnchanged, SkipFlight
<1>3. CASE Withdraw(t) \/ WithdrawAbandoned(t)
  <2>1. /\ WithdrawWaiter(tasks[t].key, tasks[t].generation, tasks[t].waiter)
        /\ tasks[t].st # "idle"
    BY <1>3 DEF Withdraw, WithdrawAbandoned
  <2> QED  BY <2>1, <1>a, WithdrawFlight
<1>4. ASSUME NEW next, DropChannel(t, next), tasks[t].st # "idle"
      PROVE  FlightInv'
  <2>1. UNCHANGED <<generation, shutdown, cancelled, queue, workers>>
    BY <1>4 DEF DropChannel, readerVars
  <2>2. \/ ReleaseLease(tasks[t].key, tasks[t].generation)
        \/ UNCHANGED entries
    BY <1>4 DEF DropChannel
  <2>3. ReaderKept
    BY <2>1, ReaderUnchanged
  <2>4. CASE ReleaseLease(tasks[t].key, tasks[t].generation)
    BY <1>a, <1>4, <2>1, <2>3, <2>4, ReleaseFlight, SMTT(30)
  <2>5. CASE UNCHANGED entries
    BY <2>1, <2>3, <2>5, SkipFlight
  <2> QED  BY <2>2, <2>4, <2>5
<1>5. CASE DropReceiver(t) \/ Abandon(t)
  BY <1>4, <1>5 DEF DropReceiver, Abandon
<1>6. CASE DropLease(t)
  <2>1. /\ UNCHANGED <<generation, shutdown, cancelled, queue, workers>>
        /\ ReleaseLease(tasks[t].key, tasks[t].generation) /\ tasks[t].key \in Keys
    BY <1>6, <1>a, SMTT(30) DEF DropLease, readerVars
  <2> QED  BY <2>1, ReaderUnchanged, ReleaseFlight
<1> QED  BY <1>1, <1>2, <1>3, <1>5, <1>6, SMTT(30) DEF TaskStep

(* ... and of a worker preserve the invariant.                               *)
LEMMA WorkerFlight ==
  ASSUME Typed, FlightInv, NEW w \in Workers, WorkerStep(w)
  PROVE  FlightInv'
<1>1. CASE Read(w)
  <2>1. UNCHANGED <<entries, shutdown, cancelled, generation>>
    BY <1>1 DEF Read, cacheVars
  <2> QED  BY <1>1, <2>1, ReadKeeps, SkipFlight
<1>2. CASE DropReturned(w)
  <2>1. /\ UNCHANGED <<queue, entries, shutdown, cancelled, generation>>
        /\ workers \in [Workers -> Worker] /\ workers[w] \in Worker
        /\ workers[w].st = "dropping"
    BY <1>2 DEF DropReturned, cacheVars, Typed, TypeOK
  <2>2. workers'[w] = Parked \/ workers'[w] = [workers[w] EXCEPT !.st = "sending"]
    BY <1>2, <2>1 DEF DropReturned
  <2>3. /\ [workers[w] EXCEPT !.st = "sending"].st = "sending" /\ Parked.st = "parked"
        /\ \A v \in Workers \ {w} : workers'[v] = workers[v]
    BY <1>2, <2>1 DEF DropReturned, Worker, Parked
  <2>4. ~Running(w) /\ ~Running(w)'
    BY <2>1, <2>2, <2>3, Zenon DEF Running
  <2> QED  BY <2>1, <2>3, <2>4, AfterKeeps, SkipFlight, SMTT(30)
<1> QED  BY <1>1, <1>2, DequeueFlight, CompleteFlight, SendFlight, SMTT(30) DEF WorkerStep

(* No step breaks the ties between entries, requests and tokens.             *)
LEMMA FlightStep ==
  ASSUME Typed, FlightInv, [Next]_vars
  PROVE  FlightInv'
<1>1. ASSUME UNCHANGED <<queue, workers, entries, shutdown, cancelled, generation>>
      PROVE  FlightInv'
  BY <1>1, ReaderUnchanged, SkipFlight, SMTT(30)
<1>2. CASE UNCHANGED vars \/ CloseReader \/ \E i \in failing : FailWaiter(i)
  BY <1>1, <1>2, SMTT(30) DEF vars, CloseReader, FailWaiter, cacheVars, readerVars
<1> QED  BY <1>2, GetFlight, PrefetchFlight, TaskFlight, WorkerFlight, InvalidateFlight,
            ShutdownFlight, SMTT(30) DEF Next, ShutdownStep

(* It holds initially.                                                       *)
LEMMA InitFlight == Init => FlightInv
<1> SUFFICES ASSUME Init PROVE FlightInv
  OBVIOUS
<1>1. Absent.st = "absent" /\ Absent.generation = 0 /\ Absent.leases = 0
  BY DEF Absent
<1>2. \A k \in Keys : entries[k] = Absent
  BY DEF Init
<1>3. queue = <<>> /\ DOMAIN queue = {} /\ generation = 0 /\ cancelled = {}
  BY DEF Init
<1>4. \A w \in Workers : ~Running(w)
  BY DEF Init, Running, Parked
<1> QED  BY <1>1, <1>2, <1>3, <1>4 DEF FlightInv, Unheld, Flight, Tokens

==============================================================================

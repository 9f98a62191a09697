---------------------------- MODULE AsyncReader ----------------------------
(***************************************************************************)
(* AsyncReader of runnel-store/src/async_io.rs: construction of the worker *)
(* threads, submission through a bounded channel, close, and the drop of   *)
(* the last owner, which joins the workers.                                *)
(*                                                                         *)
(* An owner is a strong reference to Inner.  Each client holds one (a      *)
(* clone of the PageCache that holds the reader), and a detached           *)
(* completion takes one for as long as it runs, if one is left to take     *)
(* (CacheInner::submit_load).  The read itself is a step that ends.        *)
(***************************************************************************)
EXTENDS Naturals, Sequences, FiniteSets

CONSTANTS Clients,        \* threads or tasks that own a clone of the reader
          Workers,        \* the threads runnel-page-reader-<i>
          Requests,       \* identities of requests, each submitted at most once
          QueueCapacity,  \* AsyncReaderConfig::queue_capacity
          None            \* no request, no holder

ASSUME ReaderConfigValid ==
  /\ IsFiniteSet(Workers) /\ Workers # {}
  /\ Clients # {}        \* new returns the first owner
  /\ QueueCapacity \in Nat \ {0}
  /\ None \notin Requests \cup Workers

VARIABLES accepting,  \* Inner::accepting
          sender,     \* Inner::sender is Some: the channel is connected
          queue,      \* the bounded channel
          receiver,   \* the worker that holds the receiver's mutex, or None
          building,   \* AsyncReader::new: "spawning", "done", "failed", "aborted"
          clients,    \* where each client is, and the request it submits
          workers,    \* where each worker is, its request, and whether it owns
          completed,  \* how often each request was completed (history)
          closed      \* a call of shutdown has returned (history)

vars == <<accepting, sender, queue, receiver, building, clients, workers,
          completed, closed>>

Client == [at : {"idle", "admitting", "awaiting", "closing", "joining", "gone"},
           request : Requests \cup {None},
           detached : BOOLEAN]

Worker == [at : {"unspawned", "locking", "receiving", "reading", "completing",
                 "joining", "exited"},
           request : Requests \cup {None},
           detached : BOOLEAN,
           owner : BOOLEAN]

Request == [id : Requests, detached : BOOLEAN]

At(c) == [at |-> c, request |-> None, detached |-> FALSE]
WorkerAt(w) == [at |-> w, request |-> None, detached |-> FALSE, owner |-> FALSE]

Init ==
  /\ accepting = TRUE
  /\ sender = TRUE
  /\ queue = <<>>
  /\ receiver = None
  /\ building = "spawning"
  /\ clients = [c \in Clients |-> At("idle")]
  /\ workers = [w \in Workers |-> WorkerAt("unspawned")]
  /\ completed = [r \in Requests |-> 0]
  /\ closed = FALSE

-----------------------------------------------------------------------------
(* Owners of Inner, and the places a request can be. *)

Owners == {c \in Clients : clients[c].at \notin {"joining", "gone"}}
            \cup {w \in Workers : workers[w].owner}

Submitting == {clients[c].request : c \in {d \in Clients : clients[d].at = "admitting"}}
Queued == {queue[i].id : i \in DOMAIN queue}
Held == {workers[w].request : w \in Workers} \ {None}
Done == {r \in Requests : completed[r] > 0}

\* Refused requests are forgotten: their identity may be used again.
Fresh == Requests \ (Submitting \cup Queued \cup Held \cup Done)

Running == {w \in Workers : workers[w].at \notin {"unspawned", "exited"}}

-----------------------------------------------------------------------------
(* AsyncReader::new spawns one worker at a time.  When a spawn fails, it     *)
(* drops the sender and joins those it has started.                          *)

Spawn(w) ==
  /\ building = "spawning"
  /\ workers[w].at = "unspawned"
  /\ workers' = [workers EXCEPT ![w] = WorkerAt("locking")]
  /\ building' = IF \A v \in Workers \ {w} : workers[v].at # "unspawned"
                   THEN "done" ELSE "spawning"
  /\ UNCHANGED <<accepting, sender, queue, receiver, clients, completed, closed>>

SpawnFails ==
  /\ building = "spawning"
  /\ building' = "failed"
  /\ sender' = FALSE
  /\ clients' = [c \in Clients |-> At("gone")]
  /\ UNCHANGED <<accepting, queue, receiver, workers, completed, closed>>

NewReturnsError ==
  /\ building = "failed"
  /\ Running = {}
  /\ building' = "aborted"
  /\ UNCHANGED <<accepting, sender, queue, receiver, clients, workers,
                 completed, closed>>

-----------------------------------------------------------------------------
(* submit: the flag is read before the sender's mutex is taken, so that      *)
(* another client can close in between.                                      *)

BeginSubmit(c, r, detached) ==
  /\ building = "done"
  /\ clients[c].at = "idle"
  /\ accepting
  /\ clients' = [clients EXCEPT
                   ![c] = [at |-> "admitting", request |-> r, detached |-> detached]]
  /\ UNCHANGED <<accepting, sender, queue, receiver, building, workers,
                 completed, closed>>

\* try_send under the mutex: refused when the sender is gone or the queue full.
Refused == ~sender \/ Len(queue) >= QueueCapacity

Admit(c) ==
  /\ clients[c].at = "admitting"
  /\ ~Refused
  /\ queue' = Append(queue, [id |-> clients[c].request,
                             detached |-> clients[c].detached])
  /\ clients' = [clients EXCEPT
                   ![c] = IF clients[c].detached THEN At("idle")
                          ELSE [clients[c] EXCEPT !.at = "awaiting"]]
  /\ UNCHANGED <<accepting, sender, receiver, building, workers, completed, closed>>

Refuse(c) ==
  /\ clients[c].at = "admitting"
  /\ Refused
  /\ clients' = [clients EXCEPT ![c] = At("idle")]
  /\ UNCHANGED <<accepting, sender, queue, receiver, building, workers,
                 completed, closed>>

\* The future of read_observed is dropped before its answer; the worker goes on.
Abandon(c) ==
  /\ clients[c].at = "awaiting"
  /\ clients' = [clients EXCEPT ![c] = At("idle")]
  /\ UNCHANGED <<accepting, sender, queue, receiver, building, workers,
                 completed, closed>>

-----------------------------------------------------------------------------
(* close, and the drop of a clone.                                           *)

BeginClose(c) ==
  /\ building = "done"
  /\ clients[c].at = "idle"
  /\ accepting' = FALSE
  /\ clients' = [clients EXCEPT ![c] = At("closing")]
  /\ UNCHANGED <<sender, queue, receiver, building, workers, completed, closed>>

\* Mutant: close discards what was admitted.
TakeSender_Discards(c) ==
  /\ clients[c].at = "closing"
  /\ sender' = FALSE
  /\ closed' = TRUE
  /\ queue' = <<>>
  /\ clients' = [clients EXCEPT ![c] = At("idle")]
  /\ UNCHANGED <<accepting, receiver, building, workers, completed>>

TakeSender(c) ==
  /\ clients[c].at = "closing"
  /\ sender' = FALSE
  /\ closed' = TRUE
  /\ clients' = [clients EXCEPT ![c] = At("idle")]
  /\ UNCHANGED <<accepting, queue, receiver, building, workers, completed>>

\* Only the last owner runs Inner::drop.
DropClone(c) ==
  /\ building = "done"
  /\ clients[c].at = "idle"
  /\ Owners # {c}
  /\ clients' = [clients EXCEPT ![c] = At("gone")]
  /\ UNCHANGED <<accepting, sender, queue, receiver, building, workers,
                 completed, closed>>

DropInner(c) ==
  /\ building = "done"
  /\ clients[c].at = "idle"
  /\ Owners = {c}
  /\ accepting' = FALSE
  /\ sender' = FALSE
  /\ clients' = [clients EXCEPT ![c] = At("joining")]
  /\ UNCHANGED <<queue, receiver, building, workers, completed, closed>>

\* Mutant: the threads are detached instead of joined.
ClientJoined_Detaches(c) ==
  /\ clients[c].at = "joining"
  /\ clients' = [clients EXCEPT ![c] = At("gone")]
  /\ UNCHANGED <<accepting, sender, queue, receiver, building, workers,
                 completed, closed>>

\* join returns once its thread has exited.
ClientJoined(c) ==
  /\ clients[c].at = "joining"
  /\ \A w \in Workers : workers[w].at = "exited"
  /\ clients' = [clients EXCEPT ![c] = At("gone")]
  /\ UNCHANGED <<accepting, sender, queue, receiver, building, workers,
                 completed, closed>>

-----------------------------------------------------------------------------
(* worker_loop: the receiver's mutex is held through recv, also while recv   *)
(* blocks, and released before the read.                                     *)

LockReceiver(w) ==
  /\ workers[w].at = "locking"
  /\ receiver = None
  /\ receiver' = w
  /\ workers' = [workers EXCEPT ![w].at = "receiving"]
  /\ UNCHANGED <<accepting, sender, queue, building, clients, completed, closed>>

\* Mutant: the head is read and left in the queue.
Recv_Peeks(w) ==
  /\ workers[w].at = "receiving"
  /\ queue # <<>>
  /\ receiver' = None
  /\ workers' = [workers EXCEPT
                   ![w] = [at |-> "reading", request |-> Head(queue).id,
                           detached |-> Head(queue).detached, owner |-> FALSE]]
  /\ UNCHANGED <<accepting, sender, queue, building, clients, completed, closed>>

Recv(w) ==
  /\ workers[w].at = "receiving"
  /\ queue # <<>>
  /\ queue' = Tail(queue)
  /\ receiver' = None
  /\ workers' = [workers EXCEPT
                   ![w] = [at |-> "reading", request |-> Head(queue).id,
                           detached |-> Head(queue).detached, owner |-> FALSE]]
  /\ UNCHANGED <<accepting, sender, building, clients, completed, closed>>

\* Mutant: a worker leaves as soon as the channel is disconnected.
Disconnected_Eager(w) ==
  /\ workers[w].at = "receiving"
  /\ ~sender
  /\ receiver' = None
  /\ workers' = [workers EXCEPT ![w] = WorkerAt("exited")]
  /\ UNCHANGED <<accepting, sender, queue, building, clients, completed, closed>>

\* recv fails only when the channel is disconnected and drained.
Disconnected(w) ==
  /\ workers[w].at = "receiving"
  /\ queue = <<>>
  /\ ~sender
  /\ receiver' = None
  /\ workers' = [workers EXCEPT ![w] = WorkerAt("exited")]
  /\ UNCHANGED <<accepting, sender, queue, building, clients, completed, closed>>

\* Completion::Await: the answer goes to the client that still waits for it.
SendResult(w) ==
  LET r == workers[w].request IN
  /\ workers[w].at = "reading"
  /\ ~workers[w].detached
  /\ completed' = [completed EXCEPT ![r] = @ + 1]
  /\ clients' = [c \in Clients |->
                   IF clients[c].at = "awaiting" /\ clients[c].request = r
                     THEN At("idle") ELSE clients[c]]
  /\ workers' = [workers EXCEPT ![w] = WorkerAt("locking")]
  /\ UNCHANGED <<accepting, sender, queue, receiver, building, closed>>

\* Completion::Detached: the closure upgrades its weak reference first.
BeginCompletion(w) ==
  /\ workers[w].at = "reading"
  /\ workers[w].detached
  /\ workers' = [workers EXCEPT
                   ![w] = [WorkerAt("completing") EXCEPT !.owner = (Owners # {})]]
  /\ completed' = [completed EXCEPT ![workers[w].request] = @ + 1]
  /\ UNCHANGED <<accepting, sender, queue, receiver, building, clients, closed>>

EndCompletion(w) ==
  /\ workers[w].at = "completing"
  /\ Owners # {w}
  /\ workers' = [workers EXCEPT ![w] = WorkerAt("locking")]
  /\ UNCHANGED <<accepting, sender, queue, receiver, building, clients,
                 completed, closed>>

\* The completion releases the last owner: Inner::drop runs on the worker.
DropInnerOnWorker(w) ==
  /\ workers[w].at = "completing"
  /\ Owners = {w}
  /\ accepting' = FALSE
  /\ sender' = FALSE
  /\ workers' = [workers EXCEPT ![w] = WorkerAt("joining")]
  /\ UNCHANGED <<queue, receiver, building, clients, completed, closed>>

\* Mutant: a worker joins itself as well.
WorkerJoined_Itself(w) ==
  /\ workers[w].at = "joining"
  /\ \A v \in Workers : workers[v].at = "exited"
  /\ workers' = [workers EXCEPT ![w] = WorkerAt("locking")]
  /\ UNCHANGED <<accepting, sender, queue, receiver, building, clients,
                 completed, closed>>

\* A worker joins every worker but itself and returns to its loop.
WorkerJoined(w) ==
  /\ workers[w].at = "joining"
  /\ \A v \in Workers \ {w} : workers[v].at = "exited"
  /\ workers' = [workers EXCEPT ![w] = WorkerAt("locking")]
  /\ UNCHANGED <<accepting, sender, queue, receiver, building, clients,
                 completed, closed>>

-----------------------------------------------------------------------------
ClientStep ==
  \E c \in Clients :
    \/ \E r \in Fresh, detached \in BOOLEAN : BeginSubmit(c, r, detached)
    \/ Admit(c) \/ Refuse(c) \/ Abandon(c)
    \/ BeginClose(c) \/ TakeSender(c)
    \/ DropClone(c) \/ DropInner(c) \/ ClientJoined(c)

WorkerStep(w) ==
  \/ LockReceiver(w) \/ Recv(w) \/ Disconnected(w)
  \/ SendResult(w) \/ BeginCompletion(w) \/ EndCompletion(w)
  \/ DropInnerOnWorker(w) \/ WorkerJoined(w)

Next ==
  \/ \E w \in Workers : Spawn(w)
  \/ SpawnFails \/ NewReturnsError
  \/ ClientStep
  \/ \E w \in Workers : WorkerStep(w)

Spec == Init /\ [][Next]_vars

\* The scheduler runs every worker thread, the constructor, and a call that is
\* past its last await; nothing obliges a client to start a call or to drop.
Fairness ==
  /\ WF_vars(NewReturnsError)
  /\ \A w \in Workers : WF_vars(WorkerStep(w))
  /\ \A c \in Clients : WF_vars(Admit(c) \/ Refuse(c) \/ TakeSender(c) \/ ClientJoined(c))

FairSpec == Spec /\ Fairness

-----------------------------------------------------------------------------
\* Every variable has its type, and the channel its bound.
TypeOK ==
  /\ accepting \in BOOLEAN /\ sender \in BOOLEAN /\ closed \in BOOLEAN
  /\ queue \in Seq(Request) /\ Len(queue) <= QueueCapacity
  /\ receiver \in Workers \cup {None}
  /\ building \in {"spawning", "done", "failed", "aborted"}
  /\ clients \in [Clients -> Client]
  /\ workers \in [Workers -> Worker]
  /\ completed \in [Requests -> Nat]

\* A request the reader has admitted is in the queue, with one worker, or
\* completed once, and never in two of these places: no interleaving of
\* submit, close and drop duplicates a completion.
EachRequestOnce ==
  /\ \A i, j \in DOMAIN queue : queue[i].id = queue[j].id => i = j
  /\ \A v, w \in Workers :
       workers[v].request = workers[w].request /\ workers[v].request # None => v = w
  /\ Queued \cap Held = {}
  /\ Done \cap (Queued \cup Held) = {}
  /\ \A r \in Requests : completed[r] <= 1

\* When the last drop of Inner has returned, or a failed construction, no thread
\* of the reader is left but the one that ran the drop, and nothing is queued or
\* held: "the final reader drop cannot outlive them".  The exception is a drop that
\* ran on the only worker: what is queued then is drained by that worker.
DropLeavesNoWork ==
  /\ building = "done" /\ Owners = {}
       /\ (\A c \in Clients : clients[c].at = "gone")
       /\ (\A w \in Workers : workers[w].at # "joining")
     => /\ \A v, w \in Running : v = w
        /\ Running # Workers => Held = {} /\ queue = <<>>
  /\ building = "aborted" => Running = {}

\* Every admitted read completes, whether or not the reader is closed or dropped
\* meanwhile ("Already admitted reads run to completion"), and whoever awaits one is
\* answered: "async reader worker lost a completion" is never the answer.
AdmittedCompletes ==
  /\ \A r \in Requests : r \in Queued ~> r \in Done
  /\ \A c \in Clients : clients[c].at = "awaiting" ~> clients[c].at # "awaiting"

\* The thread that drops the last owner gets through its joins, also when it is a
\* worker; so does a failed construction; and after a shutdown every worker exits.
JoinsReturn ==
  /\ \A c \in Clients : clients[c].at = "joining" ~> clients[c].at = "gone"
  /\ \A w \in Workers : workers[w].at = "joining" ~> workers[w].at = "exited"
  /\ building = "failed" ~> building = "aborted"
  /\ closed ~> Running = {}

\* The reader implements the service its callers rely on: the sender's mutex is
\* the point at which a request is admitted and at which the service closes.
Service == INSTANCE ReadService WITH
  open <- sender,
  status <- [r \in Requests |-> IF r \in Done THEN "completed"
                                ELSE IF r \in Queued \cup Held THEN "admitted"
                                ELSE "new"]

ImplementsService == Service!Spec
=============================================================================

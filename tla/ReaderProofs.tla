----------------------------- MODULE ReaderProofs ---------------------------
(***************************************************************************)
(* The page reader and the threads that run it.  AsyncReader:              *)
(* EachRequestOnce, DropLeavesNoWork and the implementation of ReadService *)
(* for every set of clients, workers and requests and every queue capacity.*)
(* PageReader: a delivered page is authentic, for every object, page size  *)
(* and chunk size.                                                         *)
(***************************************************************************)
EXTENDS AsyncReader, Integers, TLAPS

\* What a client is about to submit is nowhere else, and a worker holds a
\* request exactly while it reads.
Placement ==
  /\ \A c \in Clients : clients[c].at = "admitting" =>
       /\ clients[c].request \in Requests
       /\ clients[c].request \notin Queued \cup Held \cup Done
       /\ \A d \in Clients \ {c} :
            clients[d].at = "admitting" => clients[d].request # clients[c].request
  /\ \A w \in Workers : workers[w].at = "reading" <=> workers[w].request # None

ReaderInv == TypeOK /\ Placement /\ EachRequestOnce

\* The records that the actions assign are clients and workers.
LEMMA Records ==
  /\ \A x \in {"idle", "admitting", "awaiting", "closing", "joining", "gone"} :
       At(x) \in Client /\ At(x).at = x
  /\ \A x \in {"unspawned", "locking", "receiving", "reading", "completing",
               "joining", "exited"} :
       WorkerAt(x) \in Worker /\ WorkerAt(x).at = x /\ WorkerAt(x).request = None
  BY DEF At, WorkerAt, Client, Worker

\* Moving a client or a worker on leaves its other fields alone.
LEMMA RecordUpdates ==
  /\ \A r \in Client : [r EXCEPT !.at = "awaiting"] \in Client
  /\ \A r \in Worker : LET n == [r EXCEPT !.at = "receiving"] IN
       n \in Worker /\ n.at = "receiving" /\ n.request = r.request
<1>1. ASSUME NEW r \in Client PROVE [r EXCEPT !.at = "awaiting"] \in Client
  BY DEF Client
<1>2. ASSUME NEW r \in Worker
      PROVE  LET n == [r EXCEPT !.at = "receiving"] IN
               n \in Worker /\ n.at = "receiving" /\ n.request = r.request
  BY DEF Worker
<1> QED BY <1>1, <1>2

\* The initial state satisfies the invariant: nothing is submitted yet.
LEMMA ReaderInit == Init => ReaderInv
<1> SUFFICES ASSUME Init PROVE ReaderInv
  OBVIOUS
<1>1. clients \in [Clients -> Client] /\ workers \in [Workers -> Worker]
  BY Records DEF Init
<1>2. queue \in Seq(Request) /\ Len(queue) <= QueueCapacity
  BY ReaderConfigValid DEF Init
<1>3. TypeOK
  BY <1>1, <1>2, Zenon DEF Init, TypeOK
<1>4. /\ \A c \in Clients : clients[c].at = "idle"
      /\ \A w \in Workers : workers[w].at = "unspawned" /\ workers[w].request = None
  BY Records DEF Init
<1>5. DOMAIN queue = {} /\ \A r \in Requests : completed[r] = 0
  BY DEF Init
<1>6. Queued = {} /\ Held = {} /\ Done = {}
  BY <1>4, <1>5 DEF Queued, Held, Done
<1> QED
  BY <1>3, <1>4, <1>5, <1>6 DEF ReaderInv, Placement, EachRequestOnce

\* Each step of AsyncReader keeps the variables in their types.
LEMMA ReaderTypeStep == TypeOK /\ Placement /\ [Next]_vars => TypeOK'
<1> SUFFICES ASSUME TypeOK, Placement, [Next]_vars PROVE TypeOK'
  OBVIOUS
<1> USE ReaderConfigValid, Records DEF TypeOK
<1>1. CASE \E w \in Workers : Spawn(w)
  BY <1>1 DEF Spawn
<1>2. CASE SpawnFails
  BY <1>2, Zenon DEF SpawnFails
<1>3. CASE NewReturnsError
  BY <1>3 DEF NewReturnsError
<1>4. CASE \E c \in Clients : \E r \in Fresh, detached \in BOOLEAN :
             BeginSubmit(c, r, detached)
  <2>1. PICK c \in Clients, r \in Fresh, detached \in BOOLEAN :
               BeginSubmit(c, r, detached)
    BY <1>4
  <2>2. [at |-> "admitting", request |-> r, detached |-> detached] \in Client
    BY DEF Fresh, Client
  <2> QED BY <2>1, <2>2 DEF BeginSubmit
<1>5. CASE \E c \in Clients : Admit(c)
  <2>1. PICK c \in Clients : Admit(c)
    BY <1>5
  <2>2. [id |-> clients[c].request, detached |-> clients[c].detached] \in Request
    BY <2>1 DEF Admit, Placement, Client, Request
  <2>3. queue' \in Seq(Request) /\ Len(queue') = Len(queue) + 1
    BY <2>1, <2>2 DEF Admit
  <2>4. Len(queue') <= QueueCapacity
    BY <2>1, <2>3 DEF Admit, Refused
  <2>5. [clients[c] EXCEPT !.at = "awaiting"] \in Client
    BY RecordUpdates
  <2>6. clients' \in [Clients -> Client]
    BY <2>1, <2>5 DEF Admit
  <2> QED BY <2>1, <2>3, <2>4, <2>6 DEF Admit
<1>6. CASE \E c \in Clients : Refuse(c) \/ Abandon(c) \/ BeginClose(c)
             \/ TakeSender(c) \/ DropClone(c) \/ DropInner(c) \/ ClientJoined(c)
  <2>1. PICK c \in Clients : Refuse(c) \/ Abandon(c) \/ BeginClose(c)
             \/ TakeSender(c) \/ DropClone(c) \/ DropInner(c) \/ ClientJoined(c)
    BY <1>6
  <2>2. \E x \in {"idle", "closing", "gone", "joining"} :
           clients' = [clients EXCEPT ![c] = At(x)]
    BY <2>1 DEF Refuse, Abandon, BeginClose, TakeSender, DropClone, DropInner,
                ClientJoined
  <2>3. clients' \in [Clients -> Client]
    BY <2>2
  <2>4. /\ UNCHANGED <<queue, receiver, building, workers, completed>>
        /\ accepting' \in BOOLEAN /\ sender' \in BOOLEAN /\ closed' \in BOOLEAN
    BY <2>1, Zenon DEF Refuse, Abandon, BeginClose, TakeSender, DropClone, DropInner,
                ClientJoined
  <2> QED BY <2>3, <2>4
<1>7. CASE \E w \in Workers : Recv(w)
  <2>1. PICK w \in Workers : Recv(w)
    BY <1>7
  <2>2. queue' \in Seq(Request) /\ Len(queue') <= QueueCapacity
    BY <2>1 DEF Recv
  <2>3. Head(queue) \in Request
    BY <2>1 DEF Recv
  <2>4. [at |-> "reading", request |-> Head(queue).id,
         detached |-> Head(queue).detached, owner |-> FALSE] \in Worker
    BY <2>3 DEF Request, Worker
  <2> QED BY <2>1, <2>2, <2>4 DEF Recv
<1>8. CASE \E w \in Workers : SendResult(w)
  <2>1. PICK w \in Workers : SendResult(w)
    BY <1>8
  <2>2. workers[w].request \in Requests
    BY <2>1 DEF SendResult, Placement, Worker
  <2>3. completed' \in [Requests -> Nat]
    BY <2>1, <2>2 DEF SendResult
  <2> QED BY <2>1, <2>3 DEF SendResult
<1>9. CASE \E w \in Workers : BeginCompletion(w)
  <2>1. PICK w \in Workers : BeginCompletion(w)
    BY <1>9
  <2>2. workers[w].request \in Requests
    BY <2>1 DEF BeginCompletion, Placement, Worker
  <2>3. [WorkerAt("completing") EXCEPT !.owner = (Owners # {})] \in Worker
    BY Zenon DEF Worker, WorkerAt
  <2>4. completed' \in [Requests -> Nat]
    BY <2>1, <2>2 DEF BeginCompletion
  <2> QED BY <2>1, <2>3, <2>4 DEF BeginCompletion
<1>10. CASE \E w \in Workers : LockReceiver(w)
  <2>1. PICK w \in Workers : LockReceiver(w)
    BY <1>10
  <2>2. [workers[w] EXCEPT !.at = "receiving"] \in Worker
    BY RecordUpdates
  <2> QED BY <2>1, <2>2 DEF LockReceiver
<1>11. CASE \E w \in Workers : Disconnected(w) \/ EndCompletion(w)
             \/ DropInnerOnWorker(w) \/ WorkerJoined(w)
  <2>1. PICK w \in Workers : Disconnected(w) \/ EndCompletion(w)
             \/ DropInnerOnWorker(w) \/ WorkerJoined(w)
    BY <1>11
  <2>2. \E x \in {"exited", "locking", "joining"} :
           workers' = [workers EXCEPT ![w] = WorkerAt(x)]
    BY <2>1 DEF Disconnected, EndCompletion, DropInnerOnWorker, WorkerJoined
  <2>3. workers' \in [Workers -> Worker]
    BY <2>2
  <2>4. /\ UNCHANGED <<queue, building, clients, completed, closed>>
        /\ accepting' \in BOOLEAN /\ sender' \in BOOLEAN
        /\ receiver' \in Workers \cup {None}
    BY <2>1, Zenon DEF Disconnected, EndCompletion, DropInnerOnWorker, WorkerJoined
  <2> QED BY <2>3, <2>4
<1>12. CASE UNCHANGED vars
  BY <1>12 DEF vars
<1> QED
  BY <1>1, <1>2, <1>3, <1>4, <1>5, <1>6, <1>7, <1>8, <1>9, <1>10, <1>11, <1>12
  DEF Next, ClientStep, WorkerStep

-----------------------------------------------------------------------------
\* A step that moves no request: the queue, what workers hold and what is
\* completed stay, and at most a client gives up what it was about to submit.
Quiet ==
  /\ queue' = queue
  /\ completed' = completed
  /\ \A w \in Workers : /\ workers'[w].request = workers[w].request
                        /\ workers'[w].at = "reading" <=> workers[w].at = "reading"
  /\ \A c \in Clients : clients'[c].at = "admitting" =>
       /\ clients[c].at = "admitting"
       /\ clients'[c].request = clients[c].request

\* Construction, closing, dropping, joining and the locking of the receiver move
\* no request.
LEMMA QuietSteps ==
  ASSUME TypeOK, Placement,
         \/ SpawnFails \/ NewReturnsError
         \/ \E c \in Clients : Refuse(c) \/ Abandon(c) \/ BeginClose(c)
              \/ TakeSender(c) \/ DropClone(c) \/ DropInner(c) \/ ClientJoined(c)
         \/ \E w \in Workers : Spawn(w) \/ LockReceiver(w) \/ Disconnected(w)
              \/ EndCompletion(w) \/ DropInnerOnWorker(w) \/ WorkerJoined(w)
         \/ UNCHANGED vars
  PROVE  Quiet
<1> USE Records DEF TypeOK, Placement
<1>1. CASE SpawnFails
  BY <1>1 DEF SpawnFails, Quiet
<1>2. CASE NewReturnsError
  BY <1>2 DEF NewReturnsError, Quiet
<1>3. CASE \E c \in Clients : Refuse(c) \/ Abandon(c) \/ BeginClose(c)
             \/ TakeSender(c) \/ DropClone(c) \/ DropInner(c) \/ ClientJoined(c)
  <2>1. PICK c \in Clients : Refuse(c) \/ Abandon(c) \/ BeginClose(c)
             \/ TakeSender(c) \/ DropClone(c) \/ DropInner(c) \/ ClientJoined(c)
    BY <1>3
  <2>2. \E x \in {"idle", "closing", "gone", "joining"} :
           clients' = [clients EXCEPT ![c] = At(x)]
    BY <2>1 DEF Refuse, Abandon, BeginClose, TakeSender, DropClone, DropInner,
                ClientJoined
  <2>3. clients'[c].at # "admitting" /\ \A d \in Clients \ {c} : clients'[d] = clients[d]
    BY <2>2, SMTT(30)
  <2>4. UNCHANGED <<queue, workers, completed>>
    BY <2>1 DEF Refuse, Abandon, BeginClose, TakeSender, DropClone, DropInner,
                ClientJoined
  <2> QED BY <2>3, <2>4, SMTT(30) DEF Quiet
<1>4. CASE \E w \in Workers : Spawn(w) \/ Disconnected(w) \/ EndCompletion(w)
             \/ DropInnerOnWorker(w) \/ WorkerJoined(w)
  <2>1. PICK w \in Workers : Spawn(w) \/ Disconnected(w) \/ EndCompletion(w)
             \/ DropInnerOnWorker(w) \/ WorkerJoined(w)
    BY <1>4
  <2>2. \E x \in {"exited", "locking", "joining"} :
           workers' = [workers EXCEPT ![w] = WorkerAt(x)]
    BY <2>1 DEF Spawn, Disconnected, EndCompletion, DropInnerOnWorker, WorkerJoined
  <2>3. workers[w].at # "reading" /\ workers[w].request = None
    BY <2>1 DEF Spawn, Disconnected, EndCompletion, DropInnerOnWorker, WorkerJoined
  <2>4. /\ workers'[w].at # "reading" /\ workers'[w].request = None
        /\ \A v \in Workers \ {w} : workers'[v] = workers[v]
    BY <2>2
  <2>5. UNCHANGED <<queue, clients, completed>>
    BY <2>1 DEF Spawn, Disconnected, EndCompletion, DropInnerOnWorker, WorkerJoined
  <2> QED BY <2>3, <2>4, <2>5, ZenonT(60) DEF Quiet
<1>5. CASE \E w \in Workers : LockReceiver(w)
  <2>1. PICK w \in Workers : LockReceiver(w)
    BY <1>5
  <2>2. /\ workers'[w].at = "receiving" /\ workers'[w].request = workers[w].request
        /\ \A v \in Workers \ {w} : workers'[v] = workers[v]
    BY <2>1, RecordUpdates DEF LockReceiver
  <2> QED BY <2>1, <2>2 DEF LockReceiver, Quiet
<1>6. CASE UNCHANGED vars
  BY <1>6 DEF vars, Quiet
<1> QED BY <1>1, <1>2, <1>3, <1>4, <1>5, <1>6

\* Such a step leaves every request where it is.
LEMMA QuietPlaces ==
  ASSUME Quiet
  PROVE  Queued' = Queued /\ Held' = Held /\ Done' = Done
<1>1. Queued' = Queued
  BY DEF Quiet, Queued
<1>2. Held' = Held
  BY DEF Quiet, Held
<1>3. Done' = Done
  BY DEF Quiet, Done
<1> QED BY <1>1, <1>2, <1>3

\* BeginSubmit picks a request that is nowhere.
LEMMA SubmitPlaces ==
  ASSUME TypeOK, NEW c \in Clients, NEW r \in Fresh, NEW detached \in BOOLEAN,
         BeginSubmit(c, r, detached)
  PROVE  /\ Queued' = Queued /\ Held' = Held /\ Done' = Done
         /\ r \in Requests /\ r \notin Queued \cup Held \cup Done
         /\ \A d \in Clients : clients[d].at = "admitting" => clients[d].request # r
<1>1. queue' = queue /\ workers' = workers /\ completed' = completed
  BY DEF BeginSubmit
<1>2. Queued' = Queued /\ Held' = Held /\ Done' = Done
  BY <1>1 DEF Queued, Held, Done
<1>3. r \in Requests /\ r \notin Queued \cup Held \cup Done /\ r \notin Submitting
  BY DEF Fresh
<1>4. \A d \in Clients : clients[d].at = "admitting" => clients[d].request # r
  BY <1>3 DEF Submitting
<1> QED BY <1>2, <1>3, <1>4

\* Admit moves the client's request to the end of the queue.
LEMMA AdmitPlaces ==
  ASSUME TypeOK, Placement, NEW c \in Clients, Admit(c)
  PROVE  /\ Queued' = Queued \cup {clients[c].request} /\ Held' = Held /\ Done' = Done
         /\ Len(queue') = Len(queue) + 1
         /\ \A i \in 1..Len(queue) : queue'[i] = queue[i]
         /\ queue'[Len(queue) + 1].id = clients[c].request
<1> DEFINE q == [id |-> clients[c].request, detached |-> clients[c].detached]
<1>1. q \in Request /\ queue \in Seq(Request) /\ queue' = Append(queue, q)
  BY DEF Admit, Placement, TypeOK, Request, Client
<1>2. /\ Len(queue') = Len(queue) + 1 /\ Len(queue) \in Nat
      /\ \A i \in 1..Len(queue) : queue'[i] = queue[i]
      /\ queue'[Len(queue) + 1] = q
      /\ DOMAIN queue' = 1..(Len(queue) + 1) /\ DOMAIN queue = 1..Len(queue)
  BY <1>1
<1>3. Queued' = {queue'[i].id : i \in 1..(Len(queue) + 1)}
  BY <1>2 DEF Queued
<1>4. Queued = {queue[i].id : i \in 1..Len(queue)}
  BY <1>2 DEF Queued
<1>5. Queued' = Queued \cup {clients[c].request}
  BY <1>2, <1>3, <1>4
<1>6. Held' = Held /\ Done' = Done
  BY DEF Admit, Held, Done
<1> QED BY <1>2, <1>5, <1>6

\* Recv moves the head of the queue to the worker.
LEMMA RecvPlaces ==
  ASSUME TypeOK, Placement, EachRequestOnce, NEW w \in Workers, Recv(w)
  PROVE  /\ workers[w].request = None
         /\ queue[1].id \in Requests /\ queue[1].id \in Queued
         /\ Queued' = Queued \ {queue[1].id}
         /\ Held' = Held \cup {queue[1].id} /\ Done' = Done
         /\ workers'[w].request = queue[1].id /\ workers'[w].at = "reading"
         /\ \A v \in Workers \ {w} : workers'[v] = workers[v]
         /\ Len(queue') = Len(queue) - 1 /\ Len(queue) \in Nat
         /\ \A i \in 1..Len(queue') : queue'[i] = queue[i + 1]
<1>1. /\ queue \in Seq(Request) /\ queue # <<>> /\ queue' = Tail(queue)
  BY DEF Recv, TypeOK
<1>2. /\ Len(queue) \in Nat \ {0} /\ Len(queue') = Len(queue) - 1
      /\ \A i \in 1..Len(queue') : queue'[i] = queue[i + 1]
      /\ DOMAIN queue' = 1..Len(queue') /\ DOMAIN queue = 1..Len(queue)
      /\ Head(queue) = queue[1] /\ queue[1] \in Request
  BY <1>1
<1>3. queue[1].id \in Requests /\ queue[1].id \in Queued
  BY <1>2 DEF Request, Queued
<1>4. Queued' = Queued \ {queue[1].id}
  <2>1. Queued' = {queue'[i].id : i \in 1..Len(queue')}
    BY <1>2 DEF Queued
  <2>2. ASSUME NEW x \in Queued' PROVE x \in Queued \ {queue[1].id}
    <3>1. PICK i \in 1..Len(queue') : x = queue'[i].id
      BY <2>1
    <3>2. i + 1 \in 1..Len(queue) /\ i + 1 # 1 /\ 1 \in 1..Len(queue)
          /\ x = queue[i + 1].id
      BY <3>1, <1>2
    <3>3. x # queue[1].id
      BY <3>2, <1>2, SMTT(30) DEF EachRequestOnce
    <3> QED BY <3>2, <3>3, <1>2, SMTT(30) DEF Queued
  <2>3. ASSUME NEW x \in Queued, x # queue[1].id PROVE x \in Queued'
    <3>1. PICK i \in 1..Len(queue) : x = queue[i].id
      BY <1>2 DEF Queued
    <3>2. i - 1 \in 1..Len(queue') /\ queue'[i - 1] = queue[i]
      BY <3>1, <2>3, <1>2
    <3> QED BY <3>1, <3>2, <2>1
  <2> QED BY <2>2, <2>3
<1>5. /\ workers'[w].request = queue[1].id /\ workers'[w].at = "reading"
      /\ \A v \in Workers \ {w} : workers'[v] = workers[v]
  BY <1>2 DEF Recv, TypeOK
<1>6. workers[w].request = None
  BY DEF Recv, Placement
<1>7. Held' = Held \cup {queue[1].id}
  BY <1>3, <1>5, <1>6, ReaderConfigValid, SMTT(30) DEF Held
<1>8. Done' = Done
  BY DEF Recv, Done
<1> QED BY <1>2, <1>3, <1>4, <1>5, <1>6, <1>7, <1>8

\* A completion moves the worker's request to the completed ones.
LEMMA CompletePlaces ==
  ASSUME TypeOK, Placement, EachRequestOnce, NEW w \in Workers,
         SendResult(w) \/ BeginCompletion(w)
  PROVE  /\ workers[w].request \in Requests /\ workers[w].request \in Held
         /\ Queued' = Queued /\ Held' = Held \ {workers[w].request}
         /\ Done' = Done \cup {workers[w].request}
         /\ workers'[w].request = None /\ workers'[w].at # "reading"
         /\ \A v \in Workers \ {w} : workers'[v] = workers[v]
         /\ completed[workers[w].request] = 0 /\ completed'[workers[w].request] = 1
         /\ \A r \in Requests \ {workers[w].request} : completed'[r] = completed[r]
<1> DEFINE r == workers[w].request
<1>1. workers[w].at = "reading" /\ r # None /\ r \in Requests
  BY DEF SendResult, BeginCompletion, Placement, TypeOK, Worker
<1>2. r \in Held
  BY <1>1 DEF Held
<1>3. completed[r] = 0
  BY <1>1, <1>2 DEF EachRequestOnce, Done, TypeOK
<1>4. completed' = [completed EXCEPT ![r] = @ + 1] /\ queue' = queue
  BY DEF SendResult, BeginCompletion
<1>5. completed'[r] = 1 /\ \A q \in Requests \ {r} : completed'[q] = completed[q]
  BY <1>1, <1>3, <1>4 DEF TypeOK
<1>6. Queued' = Queued
  BY <1>4 DEF Queued
<1>7. Done' = Done \cup {r}
  BY <1>1, <1>5 DEF Done
<1>8. /\ workers'[w].request = None /\ workers'[w].at # "reading"
      /\ \A v \in Workers \ {w} : workers'[v] = workers[v]
  <2>1. \E x : workers' = [workers EXCEPT ![w] = x] /\ x.request = None
                 /\ x.at # "reading"
    <3>1. CASE SendResult(w)
      <4>1. WorkerAt("locking").request = None /\ WorkerAt("locking").at # "reading"
        BY DEF WorkerAt
      <4> QED BY <3>1, <4>1, Zenon DEF SendResult
    <3>2. CASE BeginCompletion(w)
      <4> DEFINE x == [WorkerAt("completing") EXCEPT !.owner = (Owners # {})]
      <4>1. x.request = None /\ x.at # "reading"
        BY DEF WorkerAt
      <4>2. workers' = [workers EXCEPT ![w] = x]
        BY <3>2 DEF BeginCompletion
      <4> HIDE DEF x
      <4> QED BY <4>1, <4>2, Zenon
    <3> QED BY <3>1, <3>2
  <2>2. DOMAIN workers = Workers
    BY DEF TypeOK
  <2> QED BY <2>1, <2>2
<1>9. Held' = Held \ {r}
  <2>1. \A v \in Workers \ {w} : workers[v].request # r
    BY <1>1 DEF EachRequestOnce
  <2>2. ASSUME NEW x \in Held' PROVE x \in Held \ {r}
    <3>1. PICK v \in Workers : workers'[v].request = x /\ x # None
      BY <2>2 DEF Held
    <3>2. v # w /\ workers'[v] = workers[v]
      BY <3>1, <1>8
    <3> QED BY <3>1, <3>2, <2>1 DEF Held
  <2>3. ASSUME NEW x \in Held \ {r} PROVE x \in Held'
    <3>1. PICK v \in Workers : workers[v].request = x /\ x # None
      BY <2>3 DEF Held
    <3>2. v # w /\ workers'[v] = workers[v]
      BY <3>1, <1>8, <2>3
    <3> QED BY <3>1, <3>2 DEF Held
  <2> QED BY <2>2, <2>3
<1> QED BY <1>1, <1>2, <1>3, <1>5, <1>6, <1>7, <1>8, <1>9

-----------------------------------------------------------------------------
\* Every step keeps each request in one place.
LEMMA ReaderStep == ReaderInv /\ [Next]_vars => ReaderInv'
<1> SUFFICES ASSUME TypeOK, Placement, EachRequestOnce, [Next]_vars
             PROVE  (Placement /\ EachRequestOnce)'
  BY ReaderTypeStep DEF ReaderInv
<1>1. CASE Quiet
  <2>1. Queued' = Queued /\ Held' = Held /\ Done' = Done
    BY <1>1, QuietPlaces
  <2>2. Placement'
    BY <1>1, <2>1 DEF Quiet, Placement
  <2>3. EachRequestOnce'
    BY <1>1, <2>1 DEF Quiet, EachRequestOnce
  <2> QED BY <2>2, <2>3
<1>2. ASSUME NEW c \in Clients, NEW r \in Fresh, NEW detached \in BOOLEAN,
             BeginSubmit(c, r, detached)
      PROVE  (Placement /\ EachRequestOnce)'
  <2>1. /\ Queued' = Queued /\ Held' = Held /\ Done' = Done
        /\ r \in Requests /\ r \notin Queued \cup Held \cup Done
        /\ \A d \in Clients : clients[d].at = "admitting" => clients[d].request # r
    BY <1>2, SubmitPlaces
  <2>2. /\ clients'[c].request = r /\ clients'[c].at = "admitting"
        /\ \A d \in Clients \ {c} : clients'[d] = clients[d]
        /\ UNCHANGED <<queue, workers, completed>>
    BY <1>2 DEF BeginSubmit, TypeOK
  <2>3. Placement'
    BY <2>1, <2>2 DEF Placement
  <2>4. EachRequestOnce'
    BY <2>1, <2>2 DEF EachRequestOnce
  <2> QED BY <2>3, <2>4
<1>3. ASSUME NEW c \in Clients, Admit(c)
      PROVE  (Placement /\ EachRequestOnce)'
  <2>1. /\ Queued' = Queued \cup {clients[c].request} /\ Held' = Held /\ Done' = Done
        /\ Len(queue') = Len(queue) + 1
        /\ \A i \in 1..Len(queue) : queue'[i] = queue[i]
        /\ queue'[Len(queue) + 1].id = clients[c].request
    BY <1>3, AdmitPlaces
  <2>2. /\ clients[c].request \in Requests
        /\ clients[c].request \notin Queued \cup Held \cup Done
        /\ clients'[c].at # "admitting"
        /\ \A d \in Clients \ {c} : clients'[d] = clients[d]
        /\ UNCHANGED <<workers, completed>>
    BY <1>3, Records, RecordUpdates DEF Admit, TypeOK, Placement, At, Client
  <2>3. clients[c].at = "admitting"
    BY <1>3 DEF Admit
  <2>4. Placement'
    BY <2>1, <2>2, <2>3, SMTT(30) DEF Placement
  <2>5. /\ Len(queue) \in Nat /\ DOMAIN queue = 1..Len(queue)
        /\ DOMAIN queue' = 1..(Len(queue) + 1)
    BY <1>3, <2>1, ReaderTypeStep DEF TypeOK
  <2>6. \A i \in 1..Len(queue) : queue[i].id # clients[c].request
    BY <2>2, <2>5 DEF Queued
  <2>7. \A i, j \in DOMAIN queue' : queue'[i].id = queue'[j].id => i = j
    BY <2>1, <2>5, <2>6 DEF EachRequestOnce
  <2>8. EachRequestOnce'
    BY <2>1, <2>2, <2>7, SMTT(30) DEF EachRequestOnce
  <2> QED BY <2>4, <2>8
<1>4. ASSUME NEW w \in Workers, Recv(w)
      PROVE  (Placement /\ EachRequestOnce)'
  <2>1. /\ workers[w].request = None
        /\ queue[1].id \in Requests /\ queue[1].id \in Queued
        /\ Queued' = Queued \ {queue[1].id}
        /\ Held' = Held \cup {queue[1].id} /\ Done' = Done
        /\ workers'[w].request = queue[1].id /\ workers'[w].at = "reading"
        /\ \A v \in Workers \ {w} : workers'[v] = workers[v]
        /\ Len(queue') = Len(queue) - 1 /\ Len(queue) \in Nat
        /\ \A i \in 1..Len(queue') : queue'[i] = queue[i + 1]
    BY <1>4, RecvPlaces
  <2>2. UNCHANGED <<clients, completed>>
    BY <1>4, SMTT(30) DEF Recv
  <2>3. queue[1].id # None
    BY <2>1, ReaderConfigValid, SMTT(30)
  <2>4. Placement'
    BY <2>1, <2>2, <2>3, SMTT(30) DEF Placement
  <2>5. DOMAIN queue = 1..Len(queue) /\ DOMAIN queue' = 1..Len(queue')
    BY ReaderTypeStep DEF TypeOK
  <2>6. ASSUME NEW i \in DOMAIN queue', NEW j \in DOMAIN queue',
               queue'[i].id = queue'[j].id
        PROVE  i = j
    <3>1. i + 1 \in DOMAIN queue /\ j + 1 \in DOMAIN queue /\ i \in Nat /\ j \in Nat
      BY <2>1, <2>5
    <3>2. queue[i + 1].id = queue[j + 1].id
      BY <2>1, <2>5, <2>6
    <3>3. i + 1 = j + 1
      BY <3>1, <3>2 DEF EachRequestOnce
    <3> QED BY <3>1, <3>3
  <2>7. \A v \in Workers \ {w} : workers[v].request # queue[1].id
    BY <2>1, <2>3 DEF EachRequestOnce, Held
  <2>8. EachRequestOnce'
    <3>1. ASSUME NEW u \in Workers, NEW v \in Workers,
                 workers'[u].request = workers'[v].request,
                 workers'[u].request # None
          PROVE  u = v
      <4>1. CASE u # w /\ v # w
        <5>1. workers'[u] = workers[u] /\ workers'[v] = workers[v]
          BY <2>1, <4>1, SMTT(30)
        <5> QED BY <3>1, <5>1 DEF EachRequestOnce
      <4>2. CASE u = w \/ v = w
        BY <2>1, <2>7, <3>1, <4>2
      <4> QED BY <4>1, <4>2
    <3>2. Queued' \cap Held' = {}
      BY <2>1, SMTT(30) DEF EachRequestOnce
    <3>3. Done' \cap (Queued' \cup Held') = {}
      BY <2>1 DEF EachRequestOnce
    <3>4. \A q \in Requests : completed'[q] <= 1
      BY <2>2 DEF EachRequestOnce
    <3> QED BY <2>6, <3>1, <3>2, <3>3, <3>4 DEF EachRequestOnce
  <2> QED BY <2>4, <2>8
<1>5. ASSUME NEW w \in Workers, SendResult(w) \/ BeginCompletion(w)
      PROVE  (Placement /\ EachRequestOnce)'
  <2> DEFINE r == workers[w].request
  <2>1. /\ r \in Requests /\ r \in Held
        /\ Queued' = Queued /\ Held' = Held \ {r} /\ Done' = Done \cup {r}
        /\ workers'[w].request = None /\ workers'[w].at # "reading"
        /\ \A v \in Workers \ {w} : workers'[v] = workers[v]
        /\ completed[r] = 0 /\ completed'[r] = 1
        /\ \A q \in Requests \ {r} : completed'[q] = completed[q]
    BY <1>5, CompletePlaces
  <2>2. \A c \in Clients : clients'[c].at = "admitting" => clients'[c] = clients[c]
    BY <1>5, Records DEF SendResult, BeginCompletion
  <2> HIDE DEF r
  <2>3. Placement'
    BY <2>1, <2>2, SMTT(30) DEF Placement
  <2>4. queue' = queue
    BY <1>5 DEF SendResult, BeginCompletion
  <2>5. \A q \in Requests : completed'[q] <= 1
    BY <2>1, SMTT(30) DEF EachRequestOnce
  <2>6. EachRequestOnce'
    BY <2>1, <2>4, <2>5, SMTT(30) DEF EachRequestOnce
  <2> QED BY <2>3, <2>6
<1> QED
  BY <1>1, <1>2, <1>3, <1>4, <1>5, QuietSteps DEF Next, ClientStep, WorkerStep

\* The invariant holds in every behaviour of the reader.
LEMMA ReaderInvariant == Spec => []ReaderInv
  BY ReaderInit, ReaderStep, PTL DEF Spec

\* Every variable of the reader keeps its type and the channel its bound, whatever
\* the numbers of clients and workers.
THEOREM ReaderTypeCorrect == Spec => []TypeOK
<1>1. ReaderInv => TypeOK
  BY DEF ReaderInv
<1> QED BY <1>1, ReaderInvariant, PTL

\* However submit, close, drop and the workers interleave, a request is in one
\* place only and its completion runs at most once.
THEOREM ReaderExactlyOnce == Spec => []EachRequestOnce
<1>1. ReaderInv => EachRequestOnce
  BY SMTT(30) DEF ReaderInv
<1> QED BY <1>1, ReaderInvariant, PTL

-----------------------------------------------------------------------------
(* What the joins of Inner::drop leave behind. *)

NobodyJoins ==
  /\ \A c \in Clients : clients[c].at # "joining"
  /\ \A w \in Workers : workers[w].at # "joining"

\* The joins are over: only the worker that ran them may be left, and it has no
\* request, unless it is the only one.
Joined ==
  \E w \in Workers :
    /\ \A v \in Workers \ {w} : workers[v].at = "exited"
    /\ Workers # {w} => workers[w].at \in {"locking", "receiving", "exited"}

\* A completion alone makes a worker an owner; a worker exits from a channel that
\* is disconnected and drained for good; and when the last owner is gone and its
\* joins are over, they have left what Joined says.
DropInv ==
  /\ building = "spawning" => \A c \in Clients : clients[c].at = "idle"
  /\ \A w \in Workers : workers[w].owner => workers[w].at = "completing"
  /\ \A w \in Workers : workers[w].at = "exited" => ~sender /\ queue = <<>>
  /\ building = "done" /\ Owners = {} /\ NobodyJoins => Joined
  /\ building = "done" => \A w \in Workers : workers[w].at # "unspawned"
  /\ building = "aborted" => Running = {}

\* Only the record of a completion makes an owner.
LEMMA OwnerFields ==
  /\ \A x : WorkerAt(x).owner = FALSE /\ WorkerAt(x).at = x
  /\ \A x : At(x).at = x
  BY DEF WorkerAt, At

\* The client that constructs the reader owns it.
LEMMA DropInit == Init => DropInv
<1> SUFFICES ASSUME Init PROVE DropInv
  OBVIOUS
<1>1. /\ \A c \in Clients : clients[c].at = "idle"
      /\ \A w \in Workers : workers[w].at = "unspawned" /\ workers[w].owner = FALSE
      /\ building = "spawning"
  BY OwnerFields DEF Init
<1> QED BY <1>1 DEF DropInv

\* A worker at work when the joins are over is the only one: another would have
\* been joined, or would have left a drained channel behind.
LEMMA OnlyWorker ==
  ASSUME DropInv, Joined, NEW w \in Workers,
         \/ workers[w].at \notin {"locking", "receiving", "exited"}
         \/ queue # <<>> /\ workers[w].at # "exited"
  PROVE  Workers = {w}
<1>1. PICK u \in Workers :
        /\ \A v \in Workers \ {u} : workers[v].at = "exited"
        /\ Workers # {u} => workers[u].at \in {"locking", "receiving", "exited"}
  BY DEF Joined
<1>2. u = w
  BY <1>1
<1>3. ASSUME NEW v \in Workers \ {w} PROVE FALSE
  <2>1. workers[v].at = "exited"
    BY <1>1, <1>2
  <2>2. queue = <<>>
    BY <2>1 DEF DropInv
  <2>3. Workers # {w}
    OBVIOUS
  <2> QED BY <1>1, <1>2, <2>2, <2>3
<1> QED BY <1>3

\* Steps of a client that is an owner before and after.
LEMMA OwnerSteps ==
  ASSUME ReaderInv, DropInv, NEW c \in Clients,
         \/ \E r \in Fresh, detached \in BOOLEAN : BeginSubmit(c, r, detached)
         \/ Admit(c) \/ Refuse(c) \/ Abandon(c) \/ BeginClose(c) \/ TakeSender(c)
  PROVE  DropInv'
<1> USE DEF ReaderInv, TypeOK
<1>1. /\ clients'[c].at \notin {"joining", "gone"}
      /\ clients[c].at # "idle" \/ building = "done"
      /\ \A d \in Clients \ {c} : clients'[d] = clients[d]
      /\ UNCHANGED <<building, workers>>
      /\ sender' => sender
      /\ queue' # queue => sender
  <2>1. CASE \E r \in Fresh, detached \in BOOLEAN : BeginSubmit(c, r, detached)
    BY <2>1 DEF BeginSubmit
  <2>2. CASE Admit(c)
    <3>1. [clients[c] EXCEPT !.at = "awaiting"].at = "awaiting"
      BY DEF Client
    <3> QED BY <2>2, <3>1, OwnerFields DEF Admit, Refused
  <2>3. CASE Refuse(c) \/ Abandon(c) \/ BeginClose(c) \/ TakeSender(c)
    BY <2>3, OwnerFields, SMTT(30) DEF Refuse, Abandon, BeginClose, TakeSender
  <2> QED BY <2>1, <2>2, <2>3
<1>2. building # "spawning"
  BY <1>1, Zenon DEF DropInv
<1>3. c \in Owners'
  BY <1>1, Zenon DEF Owners
<1>4. \A w \in Workers : workers[w].at = "exited" => ~sender' /\ queue' = <<>>
  BY <1>1, ZenonT(60) DEF DropInv
<1> QED BY <1>1, <1>2, <1>3, <1>4 DEF DropInv, Running

\* A clone is dropped, or the last one and its joins.
LEMMA DropSteps ==
  ASSUME ReaderInv, DropInv, NEW c \in Clients, DropClone(c) \/ DropInner(c) \/ ClientJoined(c)
  PROVE  DropInv'
<1> USE DEF ReaderInv, TypeOK
<1>1. /\ UNCHANGED <<building, workers, queue>> /\ (sender' => sender)
      /\ building = "done" \/ clients[c].at = "joining"
  BY DEF DropClone, DropInner, ClientJoined
<1>2. building # "spawning"
  BY <1>1 DEF DropInv
<1>3. building = "done" /\ Owners' = {} /\ NobodyJoins' => Joined'
  <2>1. CASE DropClone(c)
    <3>1. c \in Owners /\ Owners # {c}
      BY <2>1 DEF DropClone, Owners
    <3>2. PICK o \in Owners : o # c
      BY <3>1
    <3>3. o \in Owners'
      BY <2>1, <3>2 DEF DropClone, Owners
    <3> QED BY <3>3
  <2>2. CASE DropInner(c)
    <3>1. clients'[c].at = "joining"
      BY <2>2, OwnerFields DEF DropInner
    <3> QED BY <3>1 DEF NobodyJoins
  <2>3. CASE ClientJoined(c)
    BY <2>3, ReaderConfigValid DEF ClientJoined, Joined
  <2> QED BY <2>1, <2>2, <2>3
<1> QED BY <1>1, <1>2, <1>3 DEF DropInv, Running

\* A worker waits for the receiver, or leaves the drained channel.
LEMMA WaitingSteps ==
  ASSUME ReaderInv, DropInv, NEW w \in Workers, LockReceiver(w) \/ Disconnected(w)
  PROVE  DropInv'
<1> USE DEF ReaderInv, TypeOK
<1>1. /\ UNCHANGED <<building, clients, sender, queue>>
      /\ workers[w].at \in {"locking", "receiving"}
      /\ workers'[w].at \in {"receiving", "exited"} /\ workers'[w].owner = workers[w].owner
      /\ workers'[w].at = "exited" => ~sender /\ queue = <<>>
      /\ \A v \in Workers \ {w} : workers'[v] = workers[v]
  <2>1. CASE LockReceiver(w)
    <3>1. LET n == [workers[w] EXCEPT !.at = "receiving"] IN n.at = "receiving" /\ n.owner = workers[w].owner
      BY DEF Worker
    <3> QED BY <2>1, <3>1 DEF LockReceiver
  <2>2. CASE Disconnected(w)
    <3>1. ~workers[w].owner /\ workers[w].owner \in BOOLEAN
      BY <2>2 DEF Disconnected, DropInv, Worker
    <3> QED BY <2>2, <3>1, OwnerFields, Zenon DEF Disconnected
  <2> QED BY <2>1, <2>2
<1>2. ~workers[w].owner
  BY <1>1 DEF DropInv
<1>3. Owners' = Owners
  BY <1>1, <1>2 DEF Owners
<1>4. NobodyJoins' => NobodyJoins
  BY <1>1 DEF NobodyJoins
<1>5. Joined => Joined'
  BY <1>1 DEF Joined
<1>6. Running' \subseteq Running
  BY <1>1 DEF Running
<1> QED BY <1>1, <1>2, <1>3, <1>4, <1>5, <1>6, SMTT(30) DEF DropInv

\* A worker takes a request, reads it and completes it.
LEMMA WorkingSteps ==
  ASSUME ReaderInv, DropInv, NEW w \in Workers,
         Recv(w) \/ SendResult(w) \/ BeginCompletion(w) \/ EndCompletion(w)
  PROVE  DropInv'
<1> USE DEF ReaderInv, TypeOK
<1>1. /\ UNCHANGED <<building, sender>>
      /\ \A c \in Clients :
           clients'[c] # clients[c] => clients[c].at = "awaiting" /\ clients'[c].at = "idle"
      /\ \A v \in Workers \ {w} : workers'[v] = workers[v]
      /\ queue = <<>> => queue' = <<>>
      /\ workers'[w].at \in {"locking", "reading", "completing"}
      /\ workers'[w].owner => workers'[w].at = "completing" /\ Owners # {}
      /\ workers[w].at # "unspawned" /\ workers[w].at # "exited"
      /\ \/ workers[w].at \notin {"locking", "receiving", "exited"}
         \/ queue # <<>>
  <2>1. CASE Recv(w)
    BY <2>1, ZenonT(30) DEF Recv
  <2>2. CASE SendResult(w)
    BY <2>2, OwnerFields DEF SendResult
  <2>3. CASE BeginCompletion(w)
    <3>1. LET n == [WorkerAt("completing") EXCEPT !.owner = (Owners # {})]
          IN  n.at = "completing" /\ n.owner = (Owners # {})
      BY Zenon DEF WorkerAt
    <3> QED BY <2>3, <3>1, Zenon DEF BeginCompletion
  <2>4. CASE EndCompletion(w)
    BY <2>4, OwnerFields DEF EndCompletion
  <2> QED BY <2>1, <2>2, <2>3, <2>4, Zenon
<1>2. Owners' = {} => Owners = {}
  <2> SUFFICES ASSUME Owners' = {}, Owners # {} PROVE FALSE
    OBVIOUS
  <2>1. PICK o \in Owners : o # w \/ ~workers[w].owner \/ ~EndCompletion(w)
    BY DEF EndCompletion, Owners
  <2>2. CASE o \in Clients /\ clients[o].at \notin {"joining", "gone"}
    BY <1>1, <2>2, SMTT(30) DEF Owners
  <2>3. CASE o \in Workers /\ workers[o].owner
    <3>1. workers[o].at = "completing"
      BY <2>3 DEF DropInv
    <3>2. CASE o # w
      BY <1>1, <2>3, <3>2 DEF Owners
    <3>3. CASE o = w
      BY <2>1, <2>3, <3>1, <3>3 DEF Recv, SendResult, BeginCompletion
    <3> QED BY <3>2, <3>3
  <2> QED BY <2>2, <2>3 DEF Owners
<1>3. NobodyJoins' => NobodyJoins
  <2>1. workers[w].at # "joining"
    BY DEF Recv, SendResult, BeginCompletion, EndCompletion
  <2> QED BY <1>1, <2>1 DEF NobodyJoins
<1>4. Joined => Joined'
  <2>1. Joined => Workers = {w}
    BY <1>1, OnlyWorker
  <2> QED BY <2>1 DEF Joined
<1>5. Running # {}
  BY <1>1 DEF Running
<1>6. building = "spawning" => \A c \in Clients : clients'[c].at = "idle"
  BY <1>1 DEF DropInv
<1>7. \A v \in Workers : workers'[v].at = "exited" => ~sender' /\ queue' = <<>>
  BY <1>1 DEF DropInv
<1>8. \A v \in Workers : workers'[v].owner => workers'[v].at = "completing"
  BY <1>1, ZenonT(30) DEF DropInv
<1> QED BY <1>1, <1>2, <1>3, <1>4, <1>5, <1>6, <1>7, <1>8, SMTT(30) DEF DropInv

\* The last owner is released on a worker, which joins the others.
LEMMA JoiningSteps ==
  ASSUME ReaderInv, DropInv, NEW w \in Workers, DropInnerOnWorker(w) \/ WorkerJoined(w)
  PROVE  DropInv'
<1> USE DEF ReaderInv, TypeOK
<1>1. /\ UNCHANGED <<building, clients, queue>> /\ (sender' => sender)
      /\ \A v \in Workers \ {w} : workers'[v] = workers[v]
      /\ workers'[w].at \in {"joining", "locking"} /\ ~workers'[w].owner
      /\ w \in Running
  BY OwnerFields DEF DropInnerOnWorker, WorkerJoined, Running
<1>2. building = "done" /\ Owners' = {} /\ NobodyJoins' => Joined'
  <2>1. CASE DropInnerOnWorker(w)
    <3>1. workers'[w].at = "joining"
      BY <2>1, OwnerFields DEF DropInnerOnWorker
    <3> QED BY <3>1 DEF NobodyJoins
  <2>2. CASE WorkerJoined(w)
    <3>1. workers'[w].at = "locking"
      BY <2>2, OwnerFields DEF WorkerJoined
    <3> QED BY <1>1, <2>2, <3>1 DEF WorkerJoined, Joined
  <2> QED BY <2>1, <2>2
<1>3. \A v \in Workers : workers'[v].at = "exited" => ~sender' /\ queue' = <<>>
  BY <1>1 DEF DropInv
<1>4. \A v \in Workers : workers'[v].owner => workers'[v].at = "completing"
  BY <1>1 DEF DropInv
<1> QED BY <1>1, <1>2, <1>3, <1>4 DEF DropInv

\* The construction: nobody has dropped the reader before it is there.
LEMMA BuildingSteps ==
  ASSUME ReaderInv, DropInv, (\E w \in Workers : Spawn(w)) \/ SpawnFails \/ NewReturnsError
  PROVE  DropInv'
<1> USE DEF ReaderInv, TypeOK
<1>1. ASSUME NEW w \in Workers, Spawn(w) PROVE DropInv'
  <2>1. /\ \A c \in Clients : clients'[c].at = "idle"
        /\ building' \in {"done", "spawning"} /\ UNCHANGED <<sender, queue>>
        /\ \A v \in Workers \ {w} : workers'[v] = workers[v]
        /\ workers'[w].at = "locking" /\ ~workers'[w].owner
    BY <1>1, OwnerFields DEF Spawn, DropInv
  <2>2. Owners' # {}
    BY <2>1, ReaderConfigValid DEF Owners
  <2>3. \A v \in Workers : workers'[v].at = "exited" => ~sender' /\ queue' = <<>>
    BY <2>1 DEF DropInv
  <2>4. \A v \in Workers : workers'[v].owner => workers'[v].at = "completing"
    BY <2>1 DEF DropInv
  <2>5. building' = "done" => \A v \in Workers : workers'[v].at # "unspawned"
    BY <1>1, <2>1 DEF Spawn
  <2> QED BY <2>1, <2>2, <2>3, <2>4, <2>5 DEF DropInv
<1>2. CASE SpawnFails
  BY <1>2 DEF SpawnFails, DropInv
<1>3. CASE NewReturnsError
  BY <1>3 DEF NewReturnsError, DropInv, Running
<1> QED BY <1>1, <1>2, <1>3

\* Every step of the reader keeps DropInv.
LEMMA DropStep == ReaderInv /\ DropInv /\ [Next]_vars => DropInv'
<1> SUFFICES ASSUME ReaderInv, DropInv, [Next]_vars PROVE DropInv'
  OBVIOUS
<1>1. CASE UNCHANGED vars
  BY <1>1 DEF vars, DropInv, Owners, NobodyJoins, Joined, Running
<1>2. CASE ClientStep
  BY <1>2, OwnerSteps, DropSteps, Zenon DEF ClientStep
<1>3. CASE \E w \in Workers : WorkerStep(w)
  BY <1>3, WaitingSteps, WorkingSteps, JoiningSteps, Zenon DEF WorkerStep
<1>4. CASE (\E w \in Workers : Spawn(w)) \/ SpawnFails \/ NewReturnsError
  BY <1>4, BuildingSteps, Zenon
<1> QED BY <1>1, <1>2, <1>3, <1>4 DEF Next

\* The drop of the last owner, on whichever thread it runs, leaves no thread but
\* its own, and, unless that is the only worker, no request: what Inner::drop
\* promises by joining, for every number of clients and workers.
THEOREM DropCorrect == Spec => []DropLeavesNoWork
<1>1. ReaderInv /\ DropInv => DropLeavesNoWork
  <2> SUFFICES ASSUME ReaderInv, DropInv, building = "done", Owners = {},
                      \A c \in Clients : clients[c].at = "gone",
                      \A w \in Workers : workers[w].at # "joining"
               PROVE  /\ \A v, w \in Running : v = w
                      /\ Running # Workers => Held = {} /\ queue = <<>>
    BY DEF DropLeavesNoWork, DropInv
  <2>1. PICK u \in Workers :
          /\ \A v \in Workers \ {u} : workers[v].at = "exited"
          /\ Workers # {u} => workers[u].at \in {"locking", "receiving", "exited"}
    BY DEF DropInv, NobodyJoins, Joined
  <2>2. \A v \in Running : v = u
    BY <2>1 DEF Running
  <2>3. ASSUME Running # Workers PROVE Held = {} /\ queue = <<>>
    <3>1. PICK v \in Workers : workers[v].at = "exited"
      BY <2>3 DEF Running, DropInv
    <3>2. \A v2 \in Workers : workers[v2].at # "reading"
      BY <2>1, <3>1
    <3>3. Held = {}
      BY <3>2 DEF ReaderInv, Placement, Held
    <3> QED BY <2>1, <3>1, <3>3 DEF DropInv
  <2> QED BY <2>2, <2>3
<1>2. Spec => []DropInv
  BY DropInit, DropStep, ReaderInvariant, PTL DEF Spec
<1> QED BY <1>1, <1>2, ReaderInvariant, PTL

-----------------------------------------------------------------------------
(* The reader implements ReadService. *)

Status(r) == IF r \in Done THEN "completed"
             ELSE IF r \in Queued \cup Held THEN "admitted" ELSE "new"

\* The sender is taken and never put back.
LEMMA SenderStep == [Next]_vars => sender' \in {sender, FALSE}
  BY Zenon DEF Next, vars, ClientStep, WorkerStep, Spawn, SpawnFails, NewReturnsError,
         BeginSubmit, Admit, Refuse, Abandon, BeginClose, TakeSender, DropClone,
         DropInner, ClientJoined, LockReceiver, Recv, Disconnected, SendResult,
         BeginCompletion, EndCompletion, DropInnerOnWorker, WorkerJoined

\* A step that leaves every request where it is closes the service or stutters.
LEMMA UnmovedService ==
  ASSUME sender \in BOOLEAN, sender' \in {sender, FALSE},
         Queued' \cup Held' = Queued \cup Held, Done' = Done
  PROVE  [Service!Next]_(Service!vars)
<1>1. [r \in Requests |-> Status(r)]' = [r \in Requests |-> Status(r)]
  BY DEF Status
<1>2. CASE sender' = sender
  BY <1>1, <1>2 DEF Service!vars, Status
<1>3. CASE sender /\ sender' = FALSE
  BY <1>1, <1>3 DEF Service!Next, Service!Close, Status
<1> QED BY <1>2, <1>3, Zenon

\* A step of the reader is a step of the service or leaves it as it is.
LEMMA ServiceStep == ReaderInv /\ [Next]_vars => [Service!Next]_(Service!vars)
<1> SUFFICES ASSUME TypeOK, Placement, EachRequestOnce, [Next]_vars
             PROVE  [Service!Next]_(Service!vars)
  BY DEF ReaderInv
<1>0. sender \in BOOLEAN /\ sender' \in {sender, FALSE}
  BY SenderStep, Zenon DEF TypeOK
<1>1. CASE Quiet
  BY <1>0, <1>1, QuietPlaces, UnmovedService, Zenon
<1>2. ASSUME NEW c \in Clients, NEW r \in Fresh, NEW detached \in BOOLEAN,
             BeginSubmit(c, r, detached)
      PROVE  [Service!Next]_(Service!vars)
  BY <1>0, <1>2, SubmitPlaces, UnmovedService, Zenon
<1>3. ASSUME NEW c \in Clients, Admit(c)
      PROVE  [Service!Next]_(Service!vars)
  <2>0. PICK r \in Requests : r = clients[c].request
    BY <1>3 DEF Admit, Placement
  <2>1. Queued' = Queued \cup {r} /\ Held' = Held /\ Done' = Done
    BY <1>3, <2>0, AdmitPlaces
  <2>2. r \in Requests /\ r \notin Queued \cup Held \cup Done
    BY <1>3, <2>0 DEF Admit, Placement
  <2>3. sender /\ sender' = sender
    BY <1>0, <1>3 DEF Admit, Refused
  <2>4. Status(r) = "new"
    BY <2>2 DEF Status
  <2>5. [q \in Requests |-> Status(q)]'
          = [[q \in Requests |-> Status(q)] EXCEPT ![r] = "admitted"]
    BY <2>1, <2>2, Zenon DEF Status
  <2>6. Service!Admit(r)
    BY <2>2, <2>3, <2>4, <2>5 DEF Service!Admit, Status
  <2> QED BY <2>2, <2>6 DEF Service!Next
<1>4. ASSUME NEW w \in Workers, Recv(w)
      PROVE  [Service!Next]_(Service!vars)
  <2>1. Queued' \cup Held' = Queued \cup Held /\ Done' = Done
    BY <1>4, RecvPlaces
  <2> QED BY <1>0, <2>1, UnmovedService, Zenon
<1>5. ASSUME NEW w \in Workers, SendResult(w) \/ BeginCompletion(w)
      PROVE  [Service!Next]_(Service!vars)
  <2>0. PICK r \in Requests : r = workers[w].request
    BY <1>5, CompletePlaces
  <2>1. /\ r \in Requests /\ r \in Held /\ completed[r] = 0
        /\ Queued' = Queued /\ Held' = Held \ {r} /\ Done' = Done \cup {r}
    BY <1>5, <2>0, CompletePlaces
  <2>2. sender' = sender
    BY <1>5 DEF SendResult, BeginCompletion
  <2>3. Status(r) = "admitted"
    BY <2>1 DEF Status, Done
  <2>4. [q \in Requests |-> Status(q)]'
          = [[q \in Requests |-> Status(q)] EXCEPT ![r] = "completed"]
    BY <2>1, Zenon DEF Status
  <2>5. Service!Complete(r)
    BY <2>1, <2>2, <2>3, <2>4 DEF Service!Complete, Status
  <2> QED BY <2>1, <2>5 DEF Service!Next
<1> QED
  BY <1>1, <1>2, <1>3, <1>4, <1>5, QuietSteps DEF Next, ClientStep, WorkerStep

\* Whatever the interleaving, callers see a service that admits while the sender is
\* there, completes each admitted request once and never opens again.
THEOREM ReaderImplementsService == Spec => ImplementsService
<1>1. Init => Service!Init
  <2> SUFFICES ASSUME Init PROVE Service!Init
    OBVIOUS
  <2>1. DOMAIN queue = {} /\ (\A w \in Workers : workers[w].request = None)
        /\ (\A r \in Requests : completed[r] = 0) /\ sender = TRUE
    BY Records DEF Init
  <2>2. Queued = {} /\ Held = {} /\ Done = {}
    BY <2>1 DEF Queued, Held, Done
  <2> QED BY <2>1, <2>2 DEF Service!Init
<1> QED
  BY <1>1, ReaderInvariant, ServiceStep, PTL DEF Spec, ImplementsService, Service!Spec

-----------------------------------------------------------------------------
\* PageReader, the SyncReader that every worker calls.
CONSTANTS Cells, PageSize, ChunkCells, Garbage, MaxChanges, MaxInterrupts
VARIABLES file, cancelled, expired, pc, page, buffer, hashed, outcome, physical, interrupts, changes

Page == INSTANCE PageReader

(* An object is a sequence of cells, cut into pages that are read in chunks.*)
ObjectValid ==
  /\ Cells \in Seq(Nat) /\ Garbage \in Nat
  /\ PageSize \in Nat \ {0} /\ ChunkCells \in Nat \ {0}

(* While a page is read it is one of the object, and nothing is reported.   *)
(* A page that is reported as verified is one of the object, was hashed to  *)
(* its end and has the fingerprint of the page table.                       *)
Requested == page.index \in Page!Pages /\ page = Page!ForObject(page.index)
Authenticated == Requested /\ hashed = Len(buffer) /\ Page!Matches
PageInv ==
  /\ file \in Seq(Nat) /\ buffer \in Seq(Nat)
  /\ pc # "idle" => Requested /\ outcome = "none"
  /\ outcome = "verified" => Authenticated

(* Whatever is done to the file, it stays a sequence of cells.              *)
LEMMA FileTypes ==
  ASSUME ObjectValid, file \in Seq(Nat)
  PROVE  Page!Contents \subseteq Seq(Nat)
<1>1. ASSUME NEW i \in DOMAIN file, NEW c \in Nat  PROVE  [file EXCEPT ![i] = c] \in Seq(Nat)
  OBVIOUS
<1>2. \A i \in DOMAIN file \cap DOMAIN Cells : Cells[i] \in Nat
  BY DEF ObjectValid
<1>3. \A n \in 0 .. Len(file) : SubSeq(file, 1, n) \in Seq(Nat)
  OBVIOUS
<1>4. Append(file, Garbage) \in Seq(Nat)
  BY DEF ObjectValid
<1>5. \A f \in Page!Contents :
        \/ \E i \in DOMAIN file, c \in {Garbage} : f = [file EXCEPT ![i] = c]
        \/ \E i \in DOMAIN file \cap DOMAIN Cells : f = [file EXCEPT ![i] = Cells[i]]
        \/ \E n \in 0 .. Len(file) : f = SubSeq(file, 1, n)
        \/ f = Append(file, Garbage)
  BY DEF Page!Contents
<1>6. \A i \in DOMAIN file, c \in {Garbage} : [file EXCEPT ![i] = c] \in Seq(Nat)
  BY <1>1 DEF ObjectValid
<1>7. \A i \in DOMAIN file \cap DOMAIN Cells : [file EXCEPT ![i] = Cells[i]] \in Seq(Nat)
  BY <1>1, <1>2
<1> SUFFICES ASSUME NEW f \in Page!Contents  PROVE  f \in Seq(Nat)
  OBVIOUS
<1>8. CASE \E i \in DOMAIN file, c \in {Garbage} : f = [file EXCEPT ![i] = c]
  BY <1>6, <1>8
<1>9. CASE \E i \in DOMAIN file \cap DOMAIN Cells : f = [file EXCEPT ![i] = Cells[i]]
  BY <1>7, <1>9
<1>10. CASE \E n \in 0 .. Len(file) : f = SubSeq(file, 1, n)
  BY <1>3, <1>10, Zenon
<1> QED  BY <1>4, <1>5, <1>8, <1>9, <1>10, Zenon

(* Where a page of the object begins and ends.                              *)
LEMMA PageFacts ==
  ASSUME ObjectValid, Requested
  PROVE  /\ page.index \in Nat
         /\ page.offset = PageSize * page.index /\ page.offset \in Nat
         /\ page.length \in Int
         /\ page.offset + page.length =
              Page!Minimum(PageSize * page.index + PageSize, Len(Cells))
         /\ page.fingerprint = SubSeq(Cells, page.offset + 1, page.offset + page.length)
<1> DEFINE i == page.index
           o == PageSize * i
           n == IF Len(Cells) - o < PageSize THEN Len(Cells) - o ELSE PageSize
<1>1. i \in Nat
  BY DEF Requested, Page!Pages
<1>2. o \in Nat
  BY <1>1 DEF ObjectValid
<1>3. page = [index |-> i, offset |-> o, length |-> n, fingerprint |-> SubSeq(Cells, o + 1, o + n)]
  BY DEF Requested, Page!ForObject, Page!PageOffset, Page!PageLength
<1>4. Len(Cells) \in Nat
  BY DEF ObjectValid
<1> HIDE DEF o, i
<1>5. n \in Int /\ o + n = Page!Minimum(o + PageSize, Len(Cells))
  BY <1>2, <1>4 DEF Page!Minimum, ObjectValid
<1> HIDE DEF n
<1>6. page.offset = o /\ page.length = n /\ page.fingerprint = SubSeq(Cells, o + 1, o + n)
  BY <1>3, Zenon
<1> QED  BY <1>1, <1>2, <1>5, <1>6 DEF o, i

(* What pread adds to the buffer are cells of the file.                     *)
LEMMA PreadTypes ==
  ASSUME PageInv, ObjectValid, Page!Pread
  PROVE  buffer' \in Seq(Nat)
<1> DEFINE p == Page!Position
           w == Page!Wanted
<1>1. Requested /\ Len(buffer) \in Nat /\ Len(file) \in Nat
  BY DEF PageInv, Page!Pread
<1>2. p \in Nat /\ w \in Int
  <2>1. page.offset \in Nat /\ page.length \in Int
    BY <1>1, PageFacts, Zenon
  <2>2. p \in Nat
    BY <1>1, <2>1 DEF Page!Position
  <2>3. w \in Int
    BY <1>1, <2>1 DEF Page!Wanted, Page!Minimum, ObjectValid
  <2> QED  BY <2>2, <2>3
<1>3. PICK count \in 1 .. Page!Minimum(w, Len(file) - p) :
        buffer' = buffer \o SubSeq(file, p + 1, p + count)
  BY Zenon DEF Page!Pread
<1> HIDE DEF p, w
<1>4. p + count <= Len(file)
  BY <1>1, <1>2, <1>3 DEF Page!Minimum
<1>5. SubSeq(file, p + 1, p + count) \in Seq(Nat)
  BY <1>2, <1>3, <1>4 DEF PageInv
<1> QED  BY <1>3, <1>5 DEF PageInv

(* Every step of the reader, of the caller, of those who change the file    *)
(* and of the clock keeps the invariant.                                    *)
LEMMA PageStep ==
  ASSUME PageInv, ObjectValid, [Page!Next]_(Page!vars)
  PROVE  PageInv'
<1> USE DEF Page!environment, Page!Return, Page!Continue, PageInv
<1>1. CASE UNCHANGED Page!vars
  BY <1>1, Zenon DEF Page!vars, Requested, Authenticated, Page!Matches
<1>2. ASSUME NEW i \in 0 .. Page!PageCount(Len(Cells), PageSize), Page!Request(i)
      PROVE  PageInv'
  <2>1. file' = file /\ buffer' = <<>> /\ outcome' # "verified"
    BY <1>2 DEF Page!Request
  <2>2. pc' # "idle" => i \in Page!Pages /\ page' = Page!ForObject(i) /\ outcome' = "none"
    BY <1>2 DEF Page!Request
  <2>3. Page!ForObject(i).index = i
    BY DEF Page!ForObject
  <2> QED  BY <2>1, <2>2, <2>3 DEF Requested
<1>3. ASSUME NEW why \in {"cancelled", "deadline exceeded", "ok", "integrity", "length mismatch", "io"},
             Page!Return(why)
      PROVE  PageInv'
  BY <1>3
<1>4. ASSUME NEW next, Page!Continue(next), pc # "idle"
      PROVE  PageInv'
  BY <1>4 DEF Requested
<1>5. Page!Check \in {"cancelled", "deadline exceeded", "ok"}
  BY DEF Page!Check
<1>6. CASE Page!Begin \/ Page!InitialLength \/ Page!EnterRead \/ Page!Turn
  <2> HIDE DEF Page!Return, Page!Continue, PageInv
  <2> QED  BY <1>3, <1>4, <1>5, <1>6
              DEF Page!Begin, Page!InitialLength, Page!EnterRead, Page!Turn
<1>7. CASE Page!PreadEnd \/ Page!PreadFails \/ Page!Filled \/ Page!FinalLength
  <2> HIDE DEF Page!Return, Page!Continue, PageInv
  <2> QED  BY <1>3, <1>4, <1>5, <1>7
              DEF Page!PreadEnd, Page!PreadFails, Page!Filled, Page!FinalLength
<1>8. CASE Page!Pread
  <2>1. buffer' \in Seq(Nat)
    BY <1>8, PreadTypes
  <2> QED  BY <1>8, <2>1 DEF Page!Pread, Requested
<1>9. CASE Page!PreadInterrupted
  BY <1>5, <1>9 DEF Page!PreadInterrupted, Requested
<1>10. CASE Page!Hash
  <2>1. CASE Page!Check = "ok"
    BY <1>10, <2>1 DEF Page!Hash, Requested
  <2>2. CASE Page!Check # "ok"
    BY <1>3, <1>5, <1>10, <2>2 DEF Page!Hash
  <2> QED  BY <2>1, <2>2
<1>11. CASE Page!Verify
  <2>1. Requested /\ hashed = Len(buffer)
    BY <1>11 DEF Page!Verify
  <2>2. CASE Page!Return("verified") /\ Page!Matches
    BY <2>1, <2>2 DEF Authenticated, Requested, Page!Matches
  <2>3. CASE Page!Return("integrity") \/ Page!Return(Page!Check)
    BY <1>3, <1>5, <2>3
  <2> HIDE DEF Page!Return
  <2> QED  BY <1>11, <2>2, <2>3 DEF Page!Verify
<1>12. CASE Page!ChangeFile
  <2>1. file' \in Seq(Nat)
    BY <1>12, FileTypes DEF Page!ChangeFile
  <2> QED  BY <1>12, <2>1 DEF Page!ChangeFile, Requested, Authenticated, Page!Matches
<1>13. CASE Page!Cancel \/ Page!Expire
  BY <1>13 DEF Page!Cancel, Page!Expire, Requested, Authenticated, Page!Matches
<1> HIDE DEF PageInv
<1> QED  BY <1>1, <1>2, <1>6, <1>7, <1>8, <1>9, <1>10, <1>11, <1>12, <1>13, Zenon DEF Page!Next, Page!Read

(* Unverified bytes never appear in the result: whatever was done to the    *)
(* file during the read, however short its reads were and whenever the      *)
(* request was interrupted, a page that read_observed returns is the page   *)
(* of the object, for every object, page size and chunk size.               *)
THEOREM PagesAuthentic ==
  ASSUME ObjectValid
  PROVE  Page!Init /\ [][Page!Next]_(Page!vars) => []Page!DeliveredIsAuthentic
<1>1. Page!Init => PageInv
  BY DEF Page!Init, PageInv, ObjectValid
<1>2. PageInv => Page!DeliveredIsAuthentic
  <2> SUFFICES ASSUME PageInv, outcome = "verified"  PROVE  Page!DeliveredIsAuthentic
    BY DEF Page!DeliveredIsAuthentic
  <2>1. Authenticated /\ buffer \in Seq(Nat)
    BY DEF PageInv
  <2>2. buffer = page.fingerprint
    BY <2>1 DEF Authenticated, Page!Matches
  <2>3. PageSize * page.index = page.index * PageSize
    BY <2>1, PageFacts DEF ObjectValid, Authenticated
  <2> QED  BY <2>1, <2>2, <2>3, PageFacts, Zenon DEF Authenticated, Page!DeliveredIsAuthentic
<1> QED  BY <1>1, <1>2, PageStep, PTL
=============================================================================

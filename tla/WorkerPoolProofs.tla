-------------------------- MODULE WorkerPoolProofs --------------------------
(***************************************************************************)
(* DomainWorkerPool keeps the promise of TaskPool, for any number of       *)
(* threads, clients, tasks and domains.                                    *)
(***************************************************************************)
EXTENDS WorkerPool, SequenceTheorems, FiniteSetTheorems, TLAPS

Holds(w, t) == worker[w].pc \in {"begin", "route", "run"} /\ worker[w].task = t

\* state_ and the owner's place go together.
OwnerInv ==
  /\ state = "idle" <=> owner.pc = "idle"
  /\ state = "running" <=> owner.pc \in {"create", "started"}
  /\ stopAsked # {} => state = "stopped"

\* How far the owner's loops are; and a worker exits when the pool was stopped and no
\* early task is queued any more.
ExitInv ==
  /\ state = "idle" => \A w \in Worker : worker[w].pc = "none"
  /\ \A w \in Worker : worker[w].pc = "exited" => state = "stopped" /\ Queued \cap early = {}
  /\ owner.pc = "create" => \A w \in Worker : w >= owner.at => worker[w].pc = "none"
  /\ owner.pc = "join" => \A w \in Worker : w < owner.at => worker[w].pc = "exited"
  /\ owner.pc = "returned" => \A w \in Worker : worker[w].pc = "exited"

\* The queue and the workers hold each task that is accepted or started, once.
QueueInv ==
  /\ \A i \in 1..Len(taskQueue) : fate[taskQueue[i]] = "accepted"
  /\ \A i, j \in 1..Len(taskQueue) : taskQueue[i] = taskQueue[j] => i = j
  /\ \A t \in early : fate[t] # "new"

HoldInv ==
  /\ \A w \in Worker : worker[w].pc \in {"begin", "route", "run"} => worker[w].task \in Task
  /\ \A w \in Worker : worker[w].pc = "begin" =>
        fate[worker[w].task] = "accepted" /\ worker[w].task \notin Queued
  /\ \A w \in Worker : worker[w].pc \in {"route", "run"} => fate[worker[w].task] = "started"
  /\ \A v, w \in Worker : \A t \in Task : Holds(v, t) /\ Holds(w, t) => v = w

KeptInv ==
  \A t \in Task :
    /\ fate[t] = "accepted" => t \in Queued \/ \E w \in Worker : Holds(w, t)
    /\ fate[t] = "started" => \E w \in Worker : Holds(w, t)

\* What a client is about to push is new and nobody else's.
ClientInv ==
  \A c \in Client : client[c].pc = "push" =>
     /\ client[c].task \in Task /\ ClientOf[client[c].task] = c
     /\ fate[client[c].task] = "new"
     /\ state # "idle"

PoolInv == TypeOK /\ OwnerInv /\ ExitInv /\ QueueInv /\ HoldInv /\ KeptInv /\ ClientInv

-----------------------------------------------------------------------------
LEMMA QueuedPlaces ==
  ASSUME taskQueue \in Seq(Task)
  PROVE  /\ \A t : t \in Queued <=> \E i \in 1..Len(taskQueue) : taskQueue[i] = t
         /\ Queued \subseteq Task
BY LenProperties, ElementOfSeq DEF Queued

LEMMA InitPool == Init => PoolInv
<1> SUFFICES ASSUME Init PROVE PoolInv
  OBVIOUS
<1>1. TypeOK
  BY ThreadsAssumption DEF Init, TypeOK, Worker
<1>2. Queued = {} /\ Len(taskQueue) = 0
  BY DEF Init, Queued
<1>3. OwnerInv /\ ExitInv /\ QueueInv /\ HoldInv /\ KeptInv /\ ClientInv
  BY <1>2 DEF Init, OwnerInv, ExitInv, QueueInv, HoldInv, KeptInv, ClientInv, Holds
<1> QED
  BY <1>1, <1>3 DEF PoolInv

\* The pieces of the actions keep the types.
LEMMA LoopType ==
  ASSUME TypeOK, NEW here, NEW next, Loop(here, next),
         next \in {"started", "notify", "returned"}
  PROVE  /\ owner' \in [pc : {"idle", "create", "started", "ask", "notify", "join", "returned"},
                        at : Worker]
         /\ owner.at \in Worker
<1>1. owner.at \in 1..NumThreads /\ NumThreads \in Nat /\ 1 \in Worker
  BY ThreadsAssumption DEF TypeOK, Worker
<1>2. CASE owner.at < NumThreads
  BY <1>1, <1>2 DEF Loop, TypeOK, Worker
<1>3. CASE ~(owner.at < NumThreads)
  BY <1>1, <1>3 DEF Loop, TypeOK, Worker
<1> QED
  BY <1>2, <1>3, <1>1 DEF Worker

WorkerType ==
  [Worker -> [pc : {"none", "lock", "block", "waiting", "begin", "route", "run", "exited"},
              task : Task \cup {None}]]

LEMMA WokenType ==
  ASSUME TypeOK, NEW ws
  PROVE  Woken(ws) \in WorkerType
BY DEF TypeOK, Woken, WorkerType

LEMMA GoesToType ==
  ASSUME TypeOK, NEW w \in Worker, NEW pc, NEW t \in Task \cup {None}, GoesTo(w, pc, t),
         pc \in {"lock", "block", "waiting", "begin", "route", "run", "exited"}
  PROVE  worker' \in WorkerType
BY DEF TypeOK, GoesTo, WorkerType

LEMMA OwnerType ==
  ASSUME TypeOK, Owner
  PROVE  TypeOK'
<1>1. CASE Start \/ Stop
  <2>1. owner'.at = 1 /\ 1 \in Worker
    BY <1>1, ThreadsAssumption DEF Start, Stop, Worker
  <2>2. owner' \in [pc : {"idle", "create", "started", "ask", "notify", "join", "returned"},
                    at : Worker]
    BY <1>1, <2>1 DEF Start, Stop
  <2> QED
    BY <1>1, <2>2 DEF Start, Stop, TypeOK, histVars
<1>2. CASE CreateThread
  <2>1. owner' \in [pc : {"idle", "create", "started", "ask", "notify", "join", "returned"},
                    at : Worker]
    BY <1>2, LoopType DEF CreateThread
  <2>2. worker' \in WorkerType
    BY <1>2 DEF CreateThread, TypeOK, WorkerType
  <2> QED
    BY <1>2, <2>1, <2>2 DEF CreateThread, TypeOK, WorkerType, histVars
<1>3. CASE RequestStop
  <2>1. owner' \in [pc : {"idle", "create", "started", "ask", "notify", "join", "returned"},
                    at : Worker] /\ owner.at \in Worker
    BY <1>3, LoopType DEF RequestStop
  <2> QED
    BY <1>3, <2>1 DEF RequestStop, TypeOK, histVars
<1>4. CASE NotifyAll
  <2>1. worker' \in WorkerType
    BY <1>4, WokenType DEF NotifyAll
  <2>2. owner' \in [pc : {"idle", "create", "started", "ask", "notify", "join", "returned"},
                    at : Worker]
    BY <1>4, ThreadsAssumption DEF NotifyAll, Worker
  <2> QED
    BY <1>4, <2>1, <2>2 DEF NotifyAll, TypeOK, WorkerType, histVars
<1>5. CASE Join
  <2>1. owner' \in [pc : {"idle", "create", "started", "ask", "notify", "join", "returned"},
                    at : Worker]
    BY <1>5, LoopType DEF Join
  <2> QED
    BY <1>5, <2>1 DEF Join, TypeOK, histVars
<1> QED
  BY <1>1, <1>2, <1>3, <1>4, <1>5 DEF Owner

LEMMA ClientType ==
  ASSUME TypeOK, NEW c \in Client, ClientInv,
         \/ Calls(c) \/ \E t \in Task : Refuse(c, t) \/ Submit(c, t)
  PROVE  TypeOK'
<1>1. ASSUME NEW t \in Task, Refuse(c, t)
      PROVE  TypeOK'
  BY <1>1 DEF Refuse, TypeOK, poolVars
<1>2. ASSUME NEW t \in Task, Submit(c, t)
      PROVE  TypeOK'
  BY <1>2 DEF Submit, TypeOK, poolVars, histVars
<1>3. CASE Push(c)
  <2>1. client[c].task \in Task /\ Append(taskQueue, client[c].task) \in Seq(Task)
    BY <1>3, AppendProperties DEF Push, ClientInv, TypeOK
  <2>2. client' \in [Client -> [pc : {"idle", "push", "notify"}, task : Task \cup {None}]]
    BY <1>3 DEF Push, TypeOK
  <2>3. fate' \in [Task -> {"new", "refused", "accepted", "started", "finished"}]
        /\ early' \subseteq Task
    BY <1>3, <2>1 DEF Push, TypeOK
  <2> QED
    BY <1>3, <2>1, <2>2, <2>3 DEF Push, TypeOK, poolVars
<1>4. CASE NotifyOne(c)
  <2>1. worker' \in WorkerType
    BY <1>4, WokenType DEF NotifyOne
  <2>2. client' \in [Client -> [pc : {"idle", "push", "notify"}, task : Task \cup {None}]]
    BY <1>4 DEF NotifyOne, TypeOK
  <2> QED
    BY <1>4, <2>1, <2>2 DEF NotifyOne, TypeOK, WorkerType, poolVars, histVars
<1> QED
  BY <1>1, <1>2, <1>3, <1>4 DEF Calls

LEMMA WorkType ==
  ASSUME TypeOK, HoldInv, NEW w \in Worker, Works(w) \/ WakeUp(w)
  PROVE  TypeOK'
<1>1. worker' \in WorkerType
  <2>1. CASE Take(w)
    <3>1. Head(taskQueue) \in Task
      BY <2>1, HeadTailProperties DEF Take, TypeOK
    <3> QED
      BY <2>1, <3>1, GoesToType DEF Take
  <2>2. CASE Leave(w) \/ FindNothing(w) \/ Block(w) \/ Unrouted(w) \/ Handle(w) \/ WakeUp(w)
    BY <2>2, GoesToType DEF Leave, FindNothing, Block, Unrouted, Handle, WakeUp
  <2>3. CASE Begin(w) \/ Route(w)
    BY <2>3, GoesToType DEF Begin, Route, HoldInv
  <2> QED
    BY <2>1, <2>2, <2>3 DEF Works
<1>2. taskQueue' \in Seq(Task) /\ spurious' \in Nat
  <2>1. CASE Take(w)
    BY <2>1, HeadTailProperties DEF Take, TypeOK
  <2>2. CASE ~Take(w)
    BY <2>2 DEF TypeOK, Works, Leave, FindNothing, Block, Begin, Unrouted, Route, Handle, WakeUp
  <2> QED
    BY <2>1, <2>2
<1>3. fate' \in [Task -> {"new", "refused", "accepted", "started", "finished"}]
  BY DEF TypeOK, Works, Take, Leave, FindNothing, Block, Begin, Unrouted, Route, Handle, WakeUp,
     histVars
<1>4. UNCHANGED <<poolVars, handlers, client, early>>
  BY DEF Works, Take, Leave, FindNothing, Block, Begin, Unrouted, Route, Handle, WakeUp, histVars
<1> QED
  BY <1>1, <1>2, <1>3, <1>4 DEF TypeOK, WorkerType, poolVars

LEMMA TypeStep ==
  ASSUME TypeOK, HoldInv, ClientInv, [Next]_vars
  PROVE  TypeOK'
<1>1. ASSUME NEW d \in Domain, Register(d) \/ Unregister(d)
      PROVE  TypeOK'
  BY <1>1 DEF Register, Unregister, TypeOK, poolVars, histVars
<1>2. CASE UNCHANGED vars
  BY <1>2 DEF vars, TypeOK, poolVars, histVars
<1> QED
  BY <1>1, <1>2, OwnerType, ClientType, WorkType DEF Next

-----------------------------------------------------------------------------
(* The other parts of the invariant.                                       *)

LEMMA OwnerStep ==
  ASSUME TypeOK, OwnerInv, [Next]_vars
  PROVE  OwnerInv'
<1>1. CASE Owner
  BY <1>1 DEF Owner, OwnerInv, TypeOK, Start, CreateThread, Stop, RequestStop, NotifyAll, Join, Loop
<1>2. CASE UNCHANGED poolVars
  BY <1>2 DEF OwnerInv, poolVars
<1>3. Owner \/ UNCHANGED poolVars
  BY DEF Next, vars, Calls, Refuse, Submit, Push, NotifyOne, Register, Unregister, Works, Take, Leave,
     FindNothing, Block, Begin, Unrouted, Route, Handle, WakeUp
<1> QED
  BY <1>1, <1>2, <1>3

\* Steps that change no task's fate, nor the queue, nor a worker that holds a task.
Idling ==
  /\ UNCHANGED <<taskQueue, histVars>>
  /\ \A w \in Worker : \/ worker'[w] = worker[w]
                       \/ {worker[w].pc, worker'[w].pc} \cap {"begin", "route", "run"} = {}

LEMMA IdlingKeeps ==
  ASSUME TypeOK, QueueInv, HoldInv, KeptInv, Idling
  PROVE  QueueInv' /\ HoldInv' /\ KeptInv'
<1>1. \A w \in Worker, t \in Task : Holds(w, t)' <=> Holds(w, t)
  BY DEF Idling, Holds
<1>2. QueueInv' /\ Queued' = Queued
  BY DEF Idling, QueueInv, Queued, histVars
<1>3. HoldInv'
  BY <1>1, <1>2 DEF Idling, HoldInv, histVars
<1>4. KeptInv'
  BY <1>1, <1>2 DEF Idling, KeptInv, histVars
<1> QED
  BY <1>2, <1>3, <1>4

LEMMA OwnerIdles ==
  ASSUME TypeOK, ExitInv, Owner
  PROVE  Idling
<1>1. CASE CreateThread
  <2>1. worker[owner.at].pc = "none"
    BY <1>1 DEF CreateThread, Loop, ExitInv, TypeOK, Worker
  <2> QED
    BY <1>1, <2>1 DEF CreateThread, Idling, TypeOK
<1>2. CASE NotifyAll
  BY <1>2 DEF NotifyAll, Idling, Woken, Waiting
<1>3. CASE Start \/ Stop \/ RequestStop \/ Join
  BY <1>3 DEF Start, Stop, RequestStop, Join, Idling
<1> QED
  BY <1>1, <1>2, <1>3 DEF Owner

LEMMA OwnerExits ==
  ASSUME TypeOK, OwnerInv, ExitInv, Owner
  PROVE  ExitInv'
<1> USE DEF ExitInv, OwnerInv
<1>1. owner.at \in 1..NumThreads /\ NumThreads \in Nat /\ Queued' = Queued /\ early' = early
  <2>1. UNCHANGED <<taskQueue, early>>
    BY OwnerIdles DEF Idling, histVars
  <2> QED
    BY <2>1, ThreadsAssumption DEF TypeOK, Worker, Queued
<1>2. CASE Start
  BY <1>1, <1>2 DEF Start, Worker
<1>3. CASE CreateThread
  BY <1>1, <1>3 DEF CreateThread, Loop, TypeOK, Worker
<1>4. CASE Stop
  BY <1>1, <1>4 DEF Stop
<1>5. CASE RequestStop
  BY <1>1, <1>5 DEF RequestStop, Loop
<1>6. CASE NotifyAll
  BY <1>1, <1>6 DEF NotifyAll, Woken, Waiting, TypeOK, Worker
<1>7. CASE Join
  BY <1>1, <1>7 DEF Join, Loop, Worker
<1> QED
  BY <1>2, <1>3, <1>4, <1>5, <1>6, <1>7 DEF Owner

\* A push appends a new task.
LEMMA PushQueue ==
  ASSUME PoolInv, NEW c \in Client, Push(c)
  PROVE  LET t == client[c].task IN
         /\ t \in Task /\ fate[t] = "new" /\ t \notin early /\ t \notin Queued
         /\ Queued' = Queued \cup {t}
         /\ QueueInv'
<1> DEFINE t == client[c].task
<1> USE DEF PoolInv
<1>1. t \in Task /\ fate[t] = "new" /\ t \notin early /\ taskQueue \in Seq(Task) /\ state # "idle"
  BY DEF Push, ClientInv, QueueInv, TypeOK
<1>2. t \notin Queued
  BY <1>1, QueuedPlaces DEF QueueInv
<1>3. /\ taskQueue' = Append(taskQueue, t) /\ taskQueue' \in Seq(Task)
      /\ Len(taskQueue') = Len(taskQueue) + 1 /\ Len(taskQueue) \in Nat
      /\ \A i \in 1..Len(taskQueue) : taskQueue'[i] = taskQueue[i]
      /\ taskQueue'[Len(taskQueue) + 1] = t
  BY <1>1, AppendProperties, LenProperties DEF Push
<1>4. Queued' = {taskQueue'[i] : i \in 1..Len(taskQueue')} /\ Queued = {taskQueue[i] : i \in 1..Len(taskQueue)}
  BY <1>1, <1>3, LenProperties DEF Queued
<1>5. Queued' = Queued \cup {t}
  BY <1>3, <1>4
<1>6. fate' = [fate EXCEPT ![t] = "accepted"] /\ early' \subseteq early \cup {t}
  BY DEF Push
<1>7. \A i \in 1..Len(taskQueue) : taskQueue[i] # t
  BY <1>2, <1>4
<1>8. QueueInv'
  <2>1. \A i \in 1..Len(taskQueue') : fate'[taskQueue'[i]] = "accepted"
    BY <1>1, <1>3, <1>6, <1>7, ElementOfSeq DEF QueueInv, TypeOK
  <2>2. \A i, j \in 1..Len(taskQueue') : taskQueue'[i] = taskQueue'[j] => i = j
    BY <1>3, <1>7 DEF QueueInv
  <2>3. \A u \in early' : fate'[u] # "new"
    BY <1>1, <1>6 DEF QueueInv, TypeOK
  <2> QED
    BY <2>1, <2>2, <2>3 DEF QueueInv
<1> QED
  BY <1>1, <1>2, <1>5, <1>8

\* A worker takes the first task of the queue.
LEMMA TakeQueue ==
  ASSUME PoolInv, NEW w \in Worker, Take(w)
  PROVE  LET t == Head(taskQueue) IN
         /\ t \in Task /\ fate[t] = "accepted" /\ t \notin Queued'
         /\ Queued = Queued' \cup {t}
         /\ QueueInv'
<1> DEFINE t == Head(taskQueue)
<1>1. /\ taskQueue \in Seq(Task) /\ taskQueue # <<>> /\ t \in Task /\ t = taskQueue[1]
      /\ taskQueue' = Tail(taskQueue) /\ taskQueue' \in Seq(Task)
      /\ Len(taskQueue') = Len(taskQueue) - 1 /\ Len(taskQueue) \in Nat \ {0}
      /\ \A i \in 1..Len(taskQueue') : taskQueue'[i] = taskQueue[i + 1]
  BY HeadTailProperties, LenProperties DEF PoolInv, TypeOK, Take
<1>2. Queued' = {taskQueue'[i] : i \in 1..Len(taskQueue')} /\ Queued = {taskQueue[i] : i \in 1..Len(taskQueue)}
  BY <1>1, LenProperties DEF Queued
<1>3. \A i, j \in 1..Len(taskQueue) : taskQueue[i] = taskQueue[j] => i = j
  BY DEF PoolInv, QueueInv
<1>4. t \notin Queued'
  BY <1>1, <1>2, <1>3
<1>5. \A i \in 1..Len(taskQueue) : i = 1 \/ (i - 1 \in 1..Len(taskQueue') /\ taskQueue[i] = taskQueue'[i - 1])
  BY <1>1
<1>6. Queued = Queued' \cup {t}
  BY <1>1, <1>2, <1>5
<1>7. QueueInv'
  BY <1>1, <1>3 DEF PoolInv, QueueInv, Take, histVars
<1>8. fate[t] = "accepted"
  BY <1>1 DEF PoolInv, QueueInv
<1> QED
  BY <1>1, <1>4, <1>6, <1>7, <1>8
\* What a step of a client does to the workers, the queue and the tasks.
LEMMA ClientStep ==
  ASSUME PoolInv, TypeOK', OwnerInv', NEW c \in Client,
         \/ Calls(c) \/ \E t \in Task : Refuse(c, t) \/ Submit(c, t)
  PROVE  PoolInv'
<1> USE DEF PoolInv
<1>1. CASE Push(c)
  <2> DEFINE t == client[c].task
  <2>1. /\ t \in Task /\ fate[t] = "new" /\ t \notin early /\ Queued' = Queued \cup {t} /\ QueueInv'
        /\ ClientOf[t] = c
    BY <1>1, PushQueue DEF Push, ClientInv
  <2>2. /\ fate' = [fate EXCEPT ![t] = "accepted"]
        /\ early' = IF state = "running" THEN early \cup {t} ELSE early
        /\ client' = [client EXCEPT ![c] = [pc |-> "notify", task |-> None]]
        /\ UNCHANGED <<state, owner, stopAsked, worker>>
    BY <1>1 DEF Push, poolVars
  <2> HIDE DEF t
  <2>3. ExitInv'
    BY <2>1, <2>2 DEF ExitInv
  <2>4. HoldInv'
    BY <2>1, <2>2 DEF HoldInv, Holds, TypeOK
  <2>5. KeptInv'
    BY <2>1, <2>2 DEF KeptInv, Holds, TypeOK
  <2>6. ClientInv'
    <3> SUFFICES ASSUME NEW d \in Client, client'[d].pc = "push"
                 PROVE  /\ client'[d].task \in Task /\ ClientOf[client'[d].task] = d
                        /\ fate'[client'[d].task] = "new" /\ state' # "idle"
      BY DEF ClientInv
    <3>1. d # c /\ client'[d] = client[d]
      BY <2>2 DEF TypeOK
    <3>2. /\ client[d].task \in Task /\ ClientOf[client[d].task] = d /\ fate[client[d].task] = "new"
          /\ state # "idle"
      BY <3>1 DEF ClientInv
    <3> QED
      BY <2>1, <2>2, <3>1, <3>2 DEF TypeOK
  <2> QED
    BY <2>1, <2>3, <2>4, <2>5, <2>6
<1>2. CASE NotifyOne(c)
  <2>1. Idling /\ ExitInv'
    <3>1. PICK ws \in Wakes : worker' = Woken(ws)
      BY <1>2 DEF NotifyOne
    <3>2. ws \subseteq Waiting
      BY <3>1 DEF Wakes
    <3>3. \A w \in Worker : \/ worker'[w] = worker[w]
                            \/ worker[w].pc = "waiting" /\ worker'[w].pc = "lock"
      BY <3>1, <3>2 DEF Woken, Waiting
    <3>4. Idling
      BY <1>2, <3>3 DEF NotifyOne, Idling
    <3>5. UNCHANGED <<state, owner, early>> /\ Queued' = Queued
      BY <1>2 DEF NotifyOne, poolVars, histVars, Queued
    <3> QED
      BY <3>3, <3>4, <3>5 DEF ExitInv
  <2>2. ClientInv'
    BY <1>2 DEF NotifyOne, ClientInv, TypeOK, poolVars, histVars
  <2> QED
    BY <2>1, <2>2, IdlingKeeps
<1>3. ASSUME NEW t \in Task, Submit(c, t)
      PROVE  PoolInv'
  <2>1. Idling /\ ExitInv'
    BY <1>3 DEF Submit, Idling, ExitInv, Queued, poolVars, histVars
  <2>2. ClientInv'
    <3> SUFFICES ASSUME NEW d \in Client, client'[d].pc = "push"
                 PROVE  /\ client'[d].task \in Task /\ ClientOf[client'[d].task] = d
                        /\ fate'[client'[d].task] = "new" /\ state' # "idle"
      BY DEF ClientInv
    <3>1. CASE d = c
      BY <1>3, <3>1 DEF Submit, Calling, Accepting, TypeOK, poolVars, histVars
    <3>2. CASE d # c
      BY <1>3, <3>2 DEF Submit, ClientInv, TypeOK, poolVars, histVars
    <3> QED
      BY <3>1, <3>2
  <2> QED
    BY <2>1, <2>2, IdlingKeeps
<1>4. ASSUME NEW t \in Task, Refuse(c, t)
      PROVE  PoolInv'
  <2>1. /\ fate[t] = "new" /\ fate' = [fate EXCEPT ![t] = "refused"] /\ ClientOf[t] = c
        /\ client[c].pc = "idle"
        /\ UNCHANGED <<state, owner, stopAsked, taskQueue, worker, client, early>>
    BY <1>4 DEF Refuse, Calling, poolVars
  <2>2. QueueInv' /\ HoldInv' /\ KeptInv' /\ ExitInv'
    <3>1. Queued' = Queued
      BY <2>1 DEF Queued
    <3>2. QueueInv'
      BY <2>1, ElementOfSeq, LenProperties DEF QueueInv, TypeOK
    <3>3. HoldInv' /\ KeptInv' /\ ExitInv'
      BY <2>1, <3>1 DEF HoldInv, KeptInv, ExitInv, Holds, TypeOK
    <3> QED
      BY <3>2, <3>3
  <2>3. ClientInv'
    BY <2>1 DEF ClientInv, TypeOK
  <2> QED
    BY <2>2, <2>3
<1> QED
  BY <1>1, <1>2, <1>3, <1>4 DEF Calls

\* A worker moves from one place to another and leaves every client alone.
LEMMA WorkerMoves ==
  ASSUME PoolInv, NEW w \in Worker, Works(w) \/ WakeUp(w)
  PROVE  /\ UNCHANGED <<state, owner, stopAsked, client, early>>
         /\ worker[w].pc \notin {"none", "exited"}
         /\ \A v \in Worker : v # w => worker'[v] = worker[v]
         /\ worker'[w].pc = "exited" => Leave(w)
         /\ state # "idle"
<1> USE DEF PoolInv
<1>1. /\ UNCHANGED <<state, owner, stopAsked, client, early>>
      /\ worker[w].pc \notin {"none", "exited"}
  BY DEF Works, Take, Leave, FindNothing, Block, Begin, Unrouted, Route, Handle, WakeUp, Leaving,
     Locks, poolVars, histVars
<1>2. \E pc, t : GoesTo(w, pc, t) /\ (pc = "exited" => Leave(w))
  BY DEF Works, Take, Leave, FindNothing, Block, Begin, Unrouted, Route, Handle, WakeUp
<1>3. \A v \in Worker : v # w => worker'[v] = worker[v]
  BY <1>2 DEF GoesTo, TypeOK
<1>4. worker'[w].pc = "exited" => Leave(w)
  BY <1>2 DEF GoesTo, TypeOK
<1> QED
  BY <1>1, <1>3, <1>4 DEF ExitInv

LEMMA WorkerStep ==
  ASSUME PoolInv, TypeOK', OwnerInv', NEW w \in Worker, Works(w) \/ WakeUp(w)
  PROVE  PoolInv'
<1> USE DEF PoolInv
<1>1. /\ UNCHANGED <<state, owner, stopAsked, client, early>>
      /\ worker[w].pc \notin {"none", "exited"}
      /\ \A v \in Worker : v # w => worker'[v] = worker[v]
      /\ worker'[w].pc = "exited" => Leave(w)
  BY WorkerMoves
<1>2. QueueInv' /\ HoldInv' /\ KeptInv' /\ Queued' \subseteq Queued
      /\ \A t \in Task : fate'[t] = "new" <=> fate[t] = "new"
  <2>1. CASE Leave(w) \/ FindNothing(w) \/ Block(w) \/ WakeUp(w)
    <3>1. worker'[w].pc \notin {"begin", "route", "run"} /\ worker[w].pc \notin {"begin", "route", "run"}
      BY <2>1 DEF Leave, Leaving, FindNothing, Block, WakeUp, Locks, GoesTo, TypeOK
    <3>2. Idling
      BY <1>1, <2>1, <3>1 DEF Idling, Leave, FindNothing, Block, WakeUp
    <3> QED
      BY <3>2, IdlingKeeps DEF Idling, Queued, histVars
  <2>2. CASE Take(w)
    <3> DEFINE t == Head(taskQueue)
    <3>1. t \in Task /\ fate[t] = "accepted" /\ t \notin Queued' /\ Queued = Queued' \cup {t} /\ QueueInv'
      BY <2>2, TakeQueue
    <3>2. worker' = [worker EXCEPT ![w] = [pc |-> "begin", task |-> t]] /\ fate' = fate
          /\ worker[w].pc = "lock"
      BY <2>2 DEF Take, GoesTo, Locks, histVars
    <3> HIDE DEF t
    <3>3. worker'[w].pc = "begin" /\ worker'[w].task = t
      BY <3>2 DEF TypeOK
    <3>4. \A v \in Worker : Holds(v, t) => FALSE
      BY <3>1 DEF HoldInv, Holds
    <3>5. HoldInv'
      <4>1. \A v \in Worker, u \in Task : Holds(v, u)' <=> (Holds(v, u) \/ (v = w /\ u = t))
        BY <1>1, <3>2, <3>3 DEF Holds
      <4>2. \A u, v \in Worker : \A x \in Task : Holds(u, x)' /\ Holds(v, x)' => u = v
        BY <3>4, <4>1 DEF HoldInv
      <4>3. \A v \in Worker : /\ worker'[v].pc \in {"begin", "route", "run"} => worker'[v].task \in Task
                              /\ worker'[v].pc = "begin" =>
                                   fate'[worker'[v].task] = "accepted" /\ worker'[v].task \notin Queued'
                              /\ worker'[v].pc \in {"route", "run"} => fate'[worker'[v].task] = "started"
        BY <1>1, <3>1, <3>2, <3>3 DEF HoldInv
      <4> QED
        BY <4>2, <4>3 DEF HoldInv
    <3>6. KeptInv'
      <4>1. \A v \in Worker, u \in Task : Holds(v, u) => Holds(v, u)'
        BY <1>1, <3>2, <3>3 DEF Holds
      <4>2. \A u \in Task : u = t => Holds(w, u)'
        BY <3>3 DEF Holds
      <4> QED
        BY <3>1, <3>2, <4>1, <4>2 DEF KeptInv
    <3> QED
      BY <3>1, <3>2, <3>5, <3>6
  <2>3. CASE Begin(w)
    <3> DEFINE t == worker[w].task
    <3>1. t \in Task /\ fate[t] = "accepted" /\ t \notin Queued /\ Holds(w, t)
      BY <2>3 DEF Begin, HoldInv, Holds
    <3>2. worker' = [worker EXCEPT ![w] = [pc |-> "route", task |-> t]]
          /\ fate' = [fate EXCEPT ![t] = "started"] /\ taskQueue' = taskQueue
      BY <2>3 DEF Begin, GoesTo
    <3>3. worker'[w].pc = "route" /\ worker'[w].task = t /\ Queued' = Queued
      BY <3>2 DEF TypeOK, Queued
    <3> HIDE DEF t
    <3>4. \A v \in Worker, u \in Task : Holds(v, u)' <=> Holds(v, u)
      BY <1>1, <3>1, <3>3 DEF Holds
    <3>5. QueueInv'
      BY <1>1, <3>1, <3>2, QueuedPlaces, ElementOfSeq DEF QueueInv, TypeOK
    <3>6. \A v \in Worker : v # w /\ worker[v].pc \in {"begin", "route", "run"} => worker[v].task # t
      BY <3>1 DEF HoldInv, Holds
    <3>7. HoldInv'
      BY <1>1, <3>1, <3>2, <3>3, <3>4, <3>6 DEF HoldInv, TypeOK
    <3>8. KeptInv'
      BY <3>1, <3>2, <3>3, <3>4 DEF KeptInv, TypeOK
    <3> QED
      BY <3>1, <3>2, <3>3, <3>5, <3>7, <3>8 DEF TypeOK
  <2>4. CASE Route(w)
    <3> DEFINE t == worker[w].task
    <3>1. worker' = [worker EXCEPT ![w] = [pc |-> "run", task |-> t]] /\ worker[w].pc = "route"
          /\ fate' = fate /\ taskQueue' = taskQueue
      BY <2>4 DEF Route, GoesTo, histVars
    <3>2. worker'[w].pc = "run" /\ worker'[w].task = t /\ Queued' = Queued
      BY <3>1 DEF TypeOK, Queued
    <3>3. \A v \in Worker, u \in Task : Holds(v, u)' <=> Holds(v, u)
      BY <1>1, <3>1, <3>2 DEF Holds
    <3>4. HoldInv'
      BY <1>1, <3>1, <3>2, <3>3 DEF HoldInv
    <3> QED
      BY <1>1, <3>1, <3>2, <3>3, <3>4 DEF KeptInv, QueueInv
  <2>5. CASE Unrouted(w) \/ Handle(w)
    <3> DEFINE t == worker[w].task
    <3>1. worker' = [worker EXCEPT ![w] = [pc |-> "lock", task |-> None]]
          /\ fate' = [fate EXCEPT ![t] = "finished"] /\ taskQueue' = taskQueue
          /\ worker[w].pc \in {"route", "run"}
      BY <2>5 DEF Unrouted, Handle, GoesTo
    <3>2. t \in Task /\ fate[t] = "started" /\ Holds(w, t)
      BY <3>1 DEF HoldInv, Holds
    <3>3. worker'[w].pc = "lock" /\ Queued' = Queued
      BY <3>1 DEF TypeOK, Queued
    <3> HIDE DEF t
    <3>4. \A v \in Worker, u \in Task : Holds(v, u)' <=> (Holds(v, u) /\ v # w)
      BY <1>1, <3>1, <3>3 DEF Holds
    <3>5. \A v \in Worker : v # w /\ worker[v].pc \in {"begin", "route", "run"} => worker[v].task # t
      BY <3>2 DEF HoldInv, Holds
    <3>6. QueueInv'
      BY <1>1, <3>1, <3>2, ElementOfSeq DEF QueueInv, TypeOK
    <3>7. HoldInv'
      BY <1>1, <3>1, <3>2, <3>3, <3>4, <3>5 DEF HoldInv, TypeOK
    <3>8. KeptInv'
      <4>1. \A u \in Task : u # t => ~Holds(w, u)
        BY DEF Holds, t
      <4> QED
        BY <3>1, <3>2, <3>3, <3>4, <4>1 DEF KeptInv, TypeOK
    <3> QED
      BY <3>1, <3>2, <3>3, <3>6, <3>7, <3>8 DEF TypeOK
  <2> QED
    BY <2>1, <2>2, <2>3, <2>4, <2>5 DEF Works
<1>3. ExitInv'
  <2>1. worker'[w].pc = "exited" => state = "stopped" /\ Queued' = {}
    BY <1>1 DEF Leave, Leaving, OwnerInv, Queued
  <2>2. state # "idle" /\ owner.pc # "returned"
    BY <1>1, WorkerMoves DEF ExitInv
  <2>3. owner.pc = "create" => w < owner.at
    BY <1>1 DEF ExitInv, TypeOK, Worker
  <2>4. owner.pc = "join" => w >= owner.at
    BY <1>1 DEF ExitInv, TypeOK, Worker
  <2> QED
    BY <1>1, <1>2, <2>1, <2>2, <2>3, <2>4 DEF ExitInv, TypeOK, Worker
<1>4. ClientInv'
  BY <1>1, <1>2 DEF ClientInv
<1> QED
  BY <1>2, <1>3, <1>4

LEMMA NextPool == PoolInv /\ [Next]_vars => PoolInv'
<1> SUFFICES ASSUME PoolInv, [Next]_vars PROVE PoolInv'
  OBVIOUS
<1>1. TypeOK' /\ OwnerInv'
  BY TypeStep, OwnerStep DEF PoolInv
<1>2. CASE Owner
  <2>1. ExitInv' /\ QueueInv' /\ HoldInv' /\ KeptInv'
    BY <1>2, OwnerExits, OwnerIdles, IdlingKeeps DEF PoolInv
  <2>2. UNCHANGED <<client, fate>> /\ (state # "idle" => state' # "idle")
    BY <1>2 DEF Owner, Start, CreateThread, Stop, RequestStop, NotifyAll, Join, histVars
  <2>3. ClientInv'
    BY <2>2 DEF PoolInv, ClientInv
  <2> QED
    BY <1>1, <2>1, <2>3 DEF PoolInv
<1>3. ASSUME NEW d \in Domain, Register(d) \/ Unregister(d)
      PROVE  PoolInv'
  <2>1. UNCHANGED <<state, owner, stopAsked, taskQueue, worker, client, fate, early>>
    BY <1>3 DEF Register, Unregister, poolVars, histVars
  <2>2. Idling /\ ExitInv' /\ ClientInv'
    BY <2>1 DEF Idling, histVars, PoolInv, ExitInv, Queued, ClientInv
  <2> QED
    BY <1>1, <2>2, IdlingKeeps DEF PoolInv
<1>4. CASE UNCHANGED vars
  <2>1. UNCHANGED <<state, owner, stopAsked, taskQueue, worker, client, fate, early>>
    BY <1>4 DEF vars, poolVars, histVars
  <2>2. Idling /\ ExitInv' /\ ClientInv'
    BY <2>1 DEF Idling, histVars, PoolInv, ExitInv, Queued, ClientInv
  <2> QED
    BY <1>1, <2>2, IdlingKeeps DEF PoolInv
<1> QED
  BY <1>1, <1>2, <1>3, <1>4, ClientStep, WorkerStep DEF Next

-----------------------------------------------------------------------------
(* The refinement.                                                         *)

LEMMA InitRefines == Init => Pool!Init
BY DEF Init, Pool!Init, Phase

LEMMA NextRefines == PoolInv /\ [Next]_vars => [Pool!Next]_Pool!vars
<1> SUFFICES ASSUME PoolInv, [Next]_vars PROVE Pool!Next \/ UNCHANGED <<Phase, fate, early>>
  BY DEF Pool!vars
<1> USE DEF PoolInv
<1>1. CASE Start
  <2>1. Pool!Open
    BY <1>1 DEF Start, Phase, Pool!Open, histVars
  <2> QED
    BY <2>1 DEF Pool!Next
<1>2. CASE Stop
  <2>1. Pool!Close
    BY <1>2 DEF Stop, Phase, Pool!Close, histVars
  <2> QED
    BY <2>1 DEF Pool!Next
<1>3. CASE CreateThread \/ RequestStop \/ NotifyAll
  BY <1>3 DEF CreateThread, RequestStop, NotifyAll, Loop, Phase, OwnerInv, histVars
<1>4. CASE Join
  <2>1. CASE owner.at < NumThreads
    BY <1>4, <2>1 DEF Join, Loop, Phase, histVars
  <2>2. CASE ~(owner.at < NumThreads)
    <3>1. /\ state = "stopped" /\ state' = state /\ owner.pc = "join" /\ owner'.pc = "returned"
          /\ UNCHANGED <<fate, early>>
      BY <1>4, <2>2 DEF Join, Loop, OwnerInv, TypeOK, histVars
    <3>2. \A w \in Worker : worker[w].pc = "exited"
      BY <1>4, <2>2, ThreadsAssumption DEF Join, Loop, ExitInv, TypeOK, Worker
    <3>3. Queued \cap early = {}
      BY <3>2, ThreadsAssumption DEF ExitInv, Worker
    <3>4. \A t \in Task : ~Pool!Pending(t)
      BY <3>2, <3>3 DEF Pool!Pending, KeptInv, Holds
    <3>5. Pool!Closed
      BY <3>1, <3>4 DEF Pool!Closed, Phase
    <3> QED
      BY <3>5 DEF Pool!Next
  <2> QED
    BY <2>1, <2>2
<1>5. ASSUME NEW c \in Client, NEW t \in Task, Refuse(c, t)
      PROVE  Pool!Next
  <2>1. Pool!Refuse(t)
    BY <1>5 DEF Refuse, Calling, Accepting, Phase, Pool!Refuse, poolVars
  <2> QED
    BY <2>1 DEF Pool!Next
<1>6. ASSUME NEW c \in Client, Push(c)
      PROVE  Pool!Next
  <2>1. client[c].task \in Task /\ Pool!Accept(client[c].task)
    BY <1>6 DEF Push, ClientInv, Phase, Pool!Accept, poolVars, TypeOK
  <2> QED
    BY <2>1 DEF Pool!Next
<1>7. ASSUME NEW w \in Worker, Begin(w) \/ Unrouted(w) \/ Handle(w)
      PROVE  Pool!Next
  <2>1. worker[w].task \in Task /\ state # "idle" /\ owner.pc # "returned"
    BY <1>7 DEF Begin, Unrouted, Handle, HoldInv, ExitInv
  <2>2. Phase \in {"open", "closing"} /\ Phase' = Phase
    BY <1>7, <2>1 DEF Begin, Unrouted, Handle, Phase, poolVars
  <2>3. Pool!Start(worker[w].task) \/ Pool!Finish(worker[w].task)
    BY <1>7, <2>2 DEF Begin, Unrouted, Handle, HoldInv, Pool!Start, Pool!Finish
  <2> QED
    BY <2>1, <2>3 DEF Pool!Next
<1>8. ASSUME NEW w \in Worker,
             Take(w) \/ Leave(w) \/ FindNothing(w) \/ Block(w) \/ Route(w) \/ WakeUp(w)
      PROVE  UNCHANGED <<Phase, fate, early>>
  BY <1>8 DEF Take, Leave, FindNothing, Block, Route, WakeUp, Phase, poolVars, histVars
<1>9. ASSUME NEW c \in Client, NotifyOne(c) \/ \E t \in Task : Submit(c, t)
      PROVE  UNCHANGED <<Phase, fate, early>>
  BY <1>9 DEF NotifyOne, Submit, Phase, poolVars, histVars
<1>10. ASSUME NEW d \in Domain, Register(d) \/ Unregister(d)
       PROVE  UNCHANGED <<Phase, fate, early>>
  BY <1>10 DEF Register, Unregister, Phase, poolVars, histVars
<1>11. CASE UNCHANGED vars
  BY <1>11 DEF vars, Phase, poolVars, histVars
<1> QED
  BY <1>1, <1>2, <1>3, <1>4, <1>5, <1>6, <1>7, <1>8, <1>9, <1>10, <1>11 DEF Next, Owner, Calls, Works

(* Whatever the number of threads, clients and tasks: an accepted task is  *)
(* started and finished at most once, nothing runs after stop returned,    *)
(* and when it returns every task queued while the pool was running is     *)
(* finished.                                                               *)
THEOREM PoolImplemented == Spec => ImplementsPool
<1> QED
  BY InitPool, NextPool, InitRefines, NextRefines, PTL DEF Spec, ImplementsPool, Pool!Spec
(* Every member of the pool has a value of its type; in particular a       *)
(* worker never handles a task that nobody submitted.                      *)
THEOREM PoolTypes == Spec => []TypeOK
<1>1. PoolInv => TypeOK
  BY DEF PoolInv
<1> QED
  BY <1>1, InitPool, NextPool, PTL DEF Spec

-----------------------------------------------------------------------------
(* What is left in the queue.                                              *)

Pushing == {c \in Client : client[c].pc = "push"}

\* Once a worker has found the queue empty and left, whoever is about to push already was when
\* it left.
LeftInv ==
  (\E w \in Worker : worker[w].pc = "exited") =>
    Len(taskQueue) + Cardinality(Pushing) <= Cardinality(Client)

LEMMA PushingFinite ==
  /\ IsFiniteSet(Pushing) /\ Cardinality(Pushing) \in Nat
  /\ Cardinality(Client) \in Nat /\ Cardinality(Pushing) <= Cardinality(Client)
<1>1. Pushing \subseteq Client
  BY DEF Pushing
<1> QED
  BY <1>1, ClientsAssumption, FS_Subset, FS_CardinalityType

LEMMA PushLeaves ==
  ASSUME TypeOK, LeftInv, NEW c \in Client, Push(c)
  PROVE  LeftInv'
<1>1. Pushing' = Pushing \ {c} /\ c \in Pushing
  BY DEF Push, Pushing, TypeOK
<1>2. Cardinality(Pushing \ {c}) = Cardinality(Pushing) - 1
  BY <1>1, PushingFinite, FS_RemoveElement
<1>3. Cardinality(Pushing') = Cardinality(Pushing) - 1
  BY <1>1, <1>2
<1>4. Len(taskQueue') = Len(taskQueue) + 1 /\ Len(taskQueue) \in Nat /\ worker' = worker
  BY DEF Push, TypeOK
<1>5. PICK n \in Nat : n = Cardinality(Pushing)
  BY PushingFinite
<1>6. PICK m \in Nat : m = Cardinality(Client)
  BY PushingFinite
<1>7. Cardinality(Pushing)' = n - 1
  BY <1>3, <1>5
<1> QED
  BY <1>4, <1>5, <1>6, <1>7 DEF LeftInv

LEMMA WorkLeaves ==
  ASSUME TypeOK, LeftInv, NEW w \in Worker, Works(w) \/ WakeUp(w)
  PROVE  LeftInv'
<1>1. Pushing' = Pushing
  BY DEF Works, WakeUp, Take, Leave, FindNothing, Block, Begin, Unrouted, Route, Handle, Pushing
<1>2. PICK n \in Nat : n = Cardinality(Pushing)
  BY PushingFinite
<1>3. PICK m \in Nat : m = Cardinality(Client) /\ n <= m
  BY <1>2, PushingFinite
<1>4. Cardinality(Pushing)' = n
  BY <1>1, <1>2
<1>5. CASE Leave(w)
  <2>1. Len(taskQueue') = 0
    BY <1>5 DEF Leave, Leaving
  <2> QED
    BY <1>3, <1>4, <2>1 DEF LeftInv
<1>6. CASE ~Leave(w)
  <2>1. \A v \in Worker : worker'[v].pc = "exited" => worker[v].pc = "exited"
    BY <1>6 DEF Works, WakeUp, Take, FindNothing, Block, Begin, Unrouted, Route, Handle,
                GoesTo, TypeOK
  <2>2. Len(taskQueue') <= Len(taskQueue) /\ Len(taskQueue') \in Nat /\ Len(taskQueue) \in Nat
    <3>1. CASE Take(w)
      BY <3>1 DEF Take, TypeOK
    <3>2. CASE ~Take(w)
      BY <1>6, <3>2 DEF Works, WakeUp, FindNothing, Block, Begin, Unrouted, Route, Handle, TypeOK
    <3> QED
      BY <3>1, <3>2
  <2> QED
    BY <1>2, <1>3, <1>4, <2>1, <2>2 DEF LeftInv
<1> QED
  BY <1>5, <1>6

LEMMA OthersLeave ==
  ASSUME PoolInv, LeftInv,
         \/ Owner
         \/ \E c \in Client : NotifyOne(c) \/ \E t \in Task : Refuse(c, t) \/ Submit(c, t)
         \/ \E d \in Domain : Register(d) \/ Unregister(d)
         \/ UNCHANGED vars
  PROVE  LeftInv'
<1>1. taskQueue' = taskQueue
  BY DEF Owner, Start, CreateThread, Stop, RequestStop, NotifyAll, Join, NotifyOne, Refuse, Submit,
         Register, Unregister, vars
<1>2. \A w \in Worker : worker'[w].pc = "exited" => worker[w].pc = "exited"
  <2>1. CASE UNCHANGED worker
    BY <2>1
  <2>2. CASE CreateThread
    BY <2>2 DEF CreateThread, PoolInv, TypeOK
  <2>3. CASE \E ws : worker' = Woken(ws)
    BY <2>3 DEF Woken
  <2> QED
    BY <2>1, <2>2, <2>3 DEF Owner, Start, CreateThread, Stop, RequestStop, NotifyAll, Join,
       NotifyOne, Refuse, Submit, Register, Unregister, vars
<1>3. CASE \E c \in Client, t \in Task : Submit(c, t)
  <2>1. \A w \in Worker : worker[w].pc # "exited"
    BY <1>3 DEF Submit, Accepting, PoolInv, ExitInv
  <2> QED
    BY <1>2, <2>1 DEF LeftInv
<1>4. CASE ~\E c \in Client, t \in Task : Submit(c, t)
  <2>1. Pushing' = Pushing
    <3>1. CASE UNCHANGED client
      BY <3>1 DEF Pushing
    <3>2. CASE \E c \in Client : NotifyOne(c)
      BY <3>2 DEF NotifyOne, Pushing, PoolInv, TypeOK
    <3> QED
      BY <1>4, <3>1, <3>2 DEF Owner, Start, CreateThread, Stop, RequestStop, NotifyAll, Join,
         Refuse, Register, Unregister, vars
  <2>2. Cardinality(Pushing)' = Cardinality(Pushing)
    BY <2>1
  <2> QED
    BY <1>1, <1>2, <2>2 DEF LeftInv
<1> QED
  BY <1>3, <1>4

LEMMA NextLeaves == PoolInv /\ LeftInv /\ [Next]_vars => LeftInv'
<1> SUFFICES ASSUME PoolInv, LeftInv, [Next]_vars PROVE LeftInv'
  OBVIOUS
<1>1. TypeOK
  BY DEF PoolInv
<1>2. CASE \E c \in Client : Push(c)
  BY <1>1, <1>2, PushLeaves
<1>3. CASE \E w \in Worker : Works(w) \/ WakeUp(w)
  BY <1>1, <1>3, WorkLeaves
<1> QED
  BY <1>2, <1>3, OthersLeave DEF Next, Calls

LEMMA LeftFew ==
  ASSUME PoolInv, LeftInv
  PROVE  FewLeftBehind
<1> SUFFICES ASSUME owner.pc = "returned" PROVE Len(taskQueue) <= Cardinality(Client)
  BY DEF FewLeftBehind
<1>1. 1 \in Worker /\ worker[1].pc = "exited"
  BY ThreadsAssumption DEF Worker, PoolInv, ExitInv
<1>2. PICK n \in Nat, m \in Nat : n = Cardinality(Pushing) /\ m = Cardinality(Client)
  BY PushingFinite
<1>3. Len(taskQueue) \in Nat
  BY DEF PoolInv, TypeOK
<1> QED
  BY <1>1, <1>2, <1>3 DEF LeftInv

(* Whatever the clients do, a pool that has stopped keeps at most one task  *)
(* of each of them.                                                         *)
THEOREM LittleLeft == Spec => []FewLeftBehind
<1>1. Init => PoolInv /\ LeftInv
  <2>1. Init => PoolInv
    BY InitPool
  <2>2. Init => LeftInv
    BY DEF Init, LeftInv
  <2> QED
    BY <2>1, <2>2
<1>2. PoolInv /\ LeftInv /\ [Next]_vars => (PoolInv /\ LeftInv)'
  BY NextPool, NextLeaves
<1>3. PoolInv /\ LeftInv => FewLeftBehind
  BY LeftFew
<1> QED
  BY <1>1, <1>2, <1>3, PTL DEF Spec
=============================================================================

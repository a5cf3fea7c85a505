----------------------------- MODULE WorkerPool -----------------------------
(***************************************************************************)
(* DomainWorkerPool (src/modules/cognitive/domain_worker_pool.cpp): worker *)
(* threads around one FIFO of tasks, a mutex and a condition variable.     *)
(*                                                                         *)
(* One owner constructs, starts and stops the pool (the destructor of a    *)
(* running pool calls stop); clients submit tasks meanwhile and anyone     *)
(* registers and unregisters handlers.  A second call of start throws and  *)
(* a second call of stop returns at once: neither changes anything.        *)
(***************************************************************************)
EXTENDS Integers, Sequences, FiniteSets

CONSTANTS
  NumThreads,   \* num_threads_
  Client,       \* threads that submit tasks
  Task,         \* each is submitted at most once
  ClientOf,     \* by this client
  Domain,
  DomainOf,     \* DomainTask::domain
  None,         \* no task
  MaxSpurious   \* bound on the spurious wake-ups

ASSUME ThreadsAssumption == NumThreads \in Nat \ {0}  \* the constructor throws otherwise
ASSUME TasksAssumption ==
  DomainOf \in [Task -> Domain] /\ ClientOf \in [Task -> Client] /\ None \notin Task
ASSUME ClientsAssumption == IsFiniteSet(Client)
ASSUME SpuriousAssumption == MaxSpurious \in Nat

Worker == 1..NumThreads

VARIABLES
  state,      \* state_
  owner,      \* where the owner is, and at which thread of its loop
  stopAsked,  \* the threads whose stop_token was requested
  taskQueue,  \* task_queue_
  handlers,   \* the domains in handlers_
  worker,     \* where each worker thread is, and the task it holds
  client,     \* where each client is, and the task it submits
  spurious,   \* spurious wake-ups so far
  fate,       \* history: what became of each task
  early       \* history: the tasks queued while state_ was running

poolVars == <<state, owner, stopAsked>>
histVars == <<fate, early>>
vars == <<poolVars, taskQueue, handlers, worker, client, spurious, histVars>>

Queued == {taskQueue[i] : i \in DOMAIN taskQueue}

\* A worker that found nothing to do holds queue_mutex_ until it blocks.
MutexFree == \A w \in Worker : worker[w].pc # "block"
Waiting == {w \in Worker : worker[w].pc = "waiting"}

Init ==
  /\ state = "idle"
  /\ owner = [pc |-> "idle", at |-> 1]
  /\ stopAsked = {}
  /\ taskQueue = <<>>
  /\ handlers = {}
  /\ worker = [w \in Worker |-> [pc |-> "none", task |-> None]]
  /\ client = [c \in Client |-> [pc |-> "idle", task |-> None]]
  /\ spurious = 0
  /\ fate = [t \in Task |-> "new"]
  /\ early = {}

-----------------------------------------------------------------------------
(* The owner.                                                              *)

Start ==
  /\ state = "idle"
  /\ state' = "running"
  /\ owner' = [pc |-> "create", at |-> 1]
  /\ UNCHANGED <<stopAsked, taskQueue, handlers, worker, client, spurious, histVars>>

\* Mutant of Loop: one step too many.
LoopPastEnd(here, next) ==
  /\ owner.pc = here
  /\ owner' = IF owner.at <= NumThreads THEN [pc |-> here, at |-> owner.at + 1]
              ELSE [pc |-> next, at |-> 1]

\* One step of a loop over threads_, and where the owner goes after the last one.
Loop(here, next) ==
  /\ owner.pc = here
  /\ owner' = IF owner.at < NumThreads THEN [pc |-> here, at |-> owner.at + 1]
              ELSE [pc |-> next, at |-> 1]

CreateThread ==
  /\ Loop("create", "started")
  /\ worker' = [worker EXCEPT ![owner.at] = [pc |-> "lock", task |-> None]]
  /\ UNCHANGED <<state, stopAsked, taskQueue, handlers, client, spurious, histVars>>

Stop ==
  /\ owner.pc = "started" /\ state = "running"
  /\ state' = "stopped"
  /\ owner' = [pc |-> "ask", at |-> 1]
  /\ UNCHANGED <<stopAsked, taskQueue, handlers, worker, client, spurious, histVars>>

RequestStop ==
  /\ Loop("ask", "notify")
  /\ stopAsked' = stopAsked \cup {owner.at}
  /\ UNCHANGED <<state, taskQueue, handlers, worker, client, spurious, histVars>>

\* Those who wait go on to take the mutex again.
Woken(ws) == [w \in Worker |-> IF w \in ws THEN [pc |-> "lock", task |-> None] ELSE worker[w]]

\* notify_all, without queue_mutex_.
NotifyAll ==
  /\ owner.pc = "notify"
  /\ worker' = Woken(Waiting)
  /\ owner' = [pc |-> "join", at |-> 1]
  /\ UNCHANGED <<state, stopAsked, taskQueue, handlers, client, spurious, histVars>>

Join ==
  /\ Loop("join", "returned")
  /\ worker[owner.at].pc = "exited"
  /\ UNCHANGED <<state, stopAsked, taskQueue, handlers, worker, client, spurious, histVars>>

-----------------------------------------------------------------------------
(* The clients: submit_task looks at state_, pushes under the mutex and    *)
(* notifies one worker without it.                                         *)

\* Mutant of Accepting: only a pool that was never started refuses.
AcceptingOnceStarted == state # "idle"

Accepting == state = "running"

\* The client is about to call submit_task(t).
Calling(c, t) == c = ClientOf[t] /\ fate[t] = "new" /\ client[c].pc = "idle"

Refuse(c, t) ==
  /\ Calling(c, t) /\ ~Accepting
  /\ fate' = [fate EXCEPT ![t] = "refused"]
  /\ UNCHANGED <<poolVars, taskQueue, handlers, worker, client, spurious, early>>

Submit(c, t) ==
  /\ Calling(c, t) /\ Accepting
  /\ client' = [client EXCEPT ![c] = [pc |-> "push", task |-> t]]
  /\ UNCHANGED <<poolVars, taskQueue, handlers, worker, spurious, histVars>>

Push(c) ==
  /\ client[c].pc = "push" /\ MutexFree
  /\ LET t == client[c].task
     IN  /\ taskQueue' = Append(taskQueue, t)
         /\ fate' = [fate EXCEPT ![t] = "accepted"]
         /\ early' = IF state = "running" THEN early \cup {t} ELSE early
  /\ client' = [client EXCEPT ![c] = [pc |-> "notify", task |-> None]]
  /\ UNCHANGED <<poolVars, handlers, worker, spurious>>

\* Mutant of Wakes: with more than one worker waiting, none is woken.
WakesOnlyOne == IF Cardinality(Waiting) = 1 THEN {Waiting} ELSE {{}}

\* Whom notify_one can wake.
Wakes == IF Waiting = {} THEN {{}} ELSE {{w} : w \in Waiting}

NotifyOne(c) ==
  /\ client[c].pc = "notify"
  /\ \E ws \in Wakes : worker' = Woken(ws)
  /\ client' = [client EXCEPT ![c] = [pc |-> "idle", task |-> None]]
  /\ UNCHANGED <<poolVars, taskQueue, handlers, spurious, histVars>>

Register(d) ==
  /\ d \notin handlers
  /\ handlers' = handlers \cup {d}
  /\ UNCHANGED <<poolVars, taskQueue, worker, client, spurious, histVars>>

Unregister(d) ==
  /\ d \in handlers
  /\ handlers' = handlers \ {d}
  /\ UNCHANGED <<poolVars, taskQueue, worker, client, spurious, histVars>>

-----------------------------------------------------------------------------
(* The workers: worker_loop and process_task.                              *)

GoesTo(w, pc, t) == worker' = [worker EXCEPT ![w] = [pc |-> pc, task |-> t]]
Locks(w) == worker[w].pc = "lock" /\ MutexFree

Take(w) ==
  /\ Locks(w) /\ taskQueue # <<>>
  /\ GoesTo(w, "begin", Head(taskQueue))
  /\ taskQueue' = Tail(taskQueue)
  /\ UNCHANGED <<poolVars, handlers, client, spurious, histVars>>

\* Mutant of Leaving: a worker asked to stop leaves the queue as it is.
LeavingAtOnce(w) == worker[w].pc = "lock" /\ MutexFree /\ w \in stopAsked

Leaving(w) == Locks(w) /\ taskQueue = <<>> /\ w \in stopAsked

Leave(w) ==
  /\ Leaving(w)
  /\ GoesTo(w, "exited", None)
  /\ UNCHANGED <<poolVars, taskQueue, handlers, client, spurious, histVars>>

\* The predicate of the wait is false: the worker is about to block and still has the mutex.
FindNothing(w) ==
  /\ Locks(w) /\ taskQueue = <<>> /\ w \notin stopAsked
  /\ GoesTo(w, "block", None)
  /\ UNCHANGED <<poolVars, taskQueue, handlers, client, spurious, histVars>>

Block(w) ==
  /\ worker[w].pc = "block"
  /\ GoesTo(w, "waiting", None)
  /\ UNCHANGED <<poolVars, taskQueue, handlers, client, spurious, histVars>>

WakeUp(w) ==
  /\ worker[w].pc = "waiting" /\ spurious < MaxSpurious
  /\ GoesTo(w, "lock", None)
  /\ spurious' = spurious + 1
  /\ UNCHANGED <<poolVars, taskQueue, handlers, client, histVars>>

\* domain.task.started is emitted.
Begin(w) ==
  /\ worker[w].pc = "begin"
  /\ fate' = [fate EXCEPT ![worker[w].task] = "started"]
  /\ GoesTo(w, "route", worker[w].task)
  /\ UNCHANGED <<poolVars, taskQueue, handlers, client, spurious, early>>

\* No handler for the domain: domain.task.failed.
Unrouted(w) ==
  /\ worker[w].pc = "route" /\ DomainOf[worker[w].task] \notin handlers
  /\ fate' = [fate EXCEPT ![worker[w].task] = "finished"]
  /\ GoesTo(w, "lock", None)
  /\ UNCHANGED <<poolVars, taskQueue, handlers, client, spurious, early>>

\* The handler is copied: unregistering it does not stop the call.
Route(w) ==
  /\ worker[w].pc = "route" /\ DomainOf[worker[w].task] \in handlers
  /\ GoesTo(w, "run", worker[w].task)
  /\ UNCHANGED <<poolVars, taskQueue, handlers, client, spurious, histVars>>

\* The handler returns or throws: domain.task.completed or domain.task.failed.
Handle(w) ==
  /\ worker[w].pc = "run"
  /\ fate' = [fate EXCEPT ![worker[w].task] = "finished"]
  /\ GoesTo(w, "lock", None)
  /\ UNCHANGED <<poolVars, taskQueue, handlers, client, spurious, early>>

-----------------------------------------------------------------------------
Owner == Start \/ CreateThread \/ Stop \/ RequestStop \/ NotifyAll \/ Join
Calls(c) == Push(c) \/ NotifyOne(c)
Works(w) == \/ Take(w) \/ Leave(w) \/ FindNothing(w) \/ Block(w)
            \/ Begin(w) \/ Unrouted(w) \/ Route(w) \/ Handle(w)

Next ==
  \/ Owner
  \/ \E c \in Client : Calls(c) \/ \E t \in Task : Refuse(c, t) \/ Submit(c, t)
  \/ \E d \in Domain : Register(d) \/ Unregister(d)
  \/ \E w \in Worker : Works(w) \/ WakeUp(w)

Spec == Init /\ [][Next]_vars

\* Threads run and handlers return.  Nobody has to call start, stop or submit_task.
FairSpec ==
  /\ Spec
  /\ WF_vars(CreateThread \/ RequestStop \/ NotifyAll \/ Join)
  /\ \A c \in Client : WF_vars(Calls(c))
  /\ \A w \in Worker : WF_vars(Works(w))

-----------------------------------------------------------------------------
(* Properties.                                                             *)

TypeOK ==
  /\ state \in {"idle", "running", "stopped"}
  /\ owner \in [pc : {"idle", "create", "started", "ask", "notify", "join", "returned"},
                at : Worker]
  /\ stopAsked \subseteq Worker
  /\ taskQueue \in Seq(Task)
  /\ handlers \subseteq Domain
  /\ worker \in [Worker -> [pc : {"none", "lock", "block", "waiting", "begin", "route", "run",
                                  "exited"},
                            task : Task \cup {None}]]
  /\ client \in [Client -> [pc : {"idle", "push", "notify"}, task : Task \cup {None}]]
  /\ spurious \in Nat
  /\ fate \in [Task -> {"new", "refused", "accepted", "started", "finished"}]
  /\ early \subseteq Task

\* The pool as its users see it.
Phase ==
  IF state = "idle" THEN "idle"
  ELSE IF state = "running" THEN "open"
       ELSE IF owner.pc = "returned" THEN "closed" ELSE "closing"
Pool == INSTANCE TaskPool WITH phase <- Phase

(* Each accepted task is started and finished at most once, and when stop  *)
(* returns none is being worked on and those queued while the pool was     *)
(* running are all finished, whoever submits and registers meanwhile.      *)
ImplementsPool == Pool!Spec

(* What submit_task queued while the pool was running gets done, stopping  *)
(* or not: no worker sleeps through the last wake-up while a task waits.   *)
EarlyTasksFinish == \A t \in Task : t \in early ~> fate[t] = "finished"

(* A client that raced with stop leaves at most one task in the queue for  *)
(* good: submit_task refuses all that come after.                          *)
FewLeftBehind == owner.pc = "returned" => Len(taskQueue) <= Cardinality(Client)

(* A stop that was called returns, with all threads joined.                *)
StopReturns == state = "stopped" ~> owner.pc = "returned"
=============================================================================

--------------------------- MODULE CognitiveWorker ---------------------------
(***************************************************************************)
(* CognitiveWorker (src/modules/cognitive/cognitive_worker.cpp): one       *)
(* thread that takes tasks from a queue and tells the bus of each.  Its    *)
(* owner starts and stops it (the destructor of a running one calls stop), *)
(* and clients submit tasks meanwhile.  A second start throws and a second *)
(* stop returns at once: neither changes anything.                         *)
(*                                                                         *)
(* The task itself, a round of SimpleCognitiveOrchestrator that turns      *)
(* every exception into a result, is one step, and so is its evaluation.   *)
(***************************************************************************)
EXTENDS Bus

CONSTANTS
  Client,     \* threads that submit tasks
  NoTask,     \* what the events of the agent carry, which are of no task
  Jobs        \* whether there is a worker, whether it has an evaluator, and the tasks of each
              \* client, each submitted once

Spawned == "agent.spawned"
Terminated == "agent.terminated"
TaskStarted == "cognitive.task.started"
TaskCompleted == "cognitive.task.completed"
Evaluated == "evaluation.result"
WorkerTopics == {Spawned, Terminated, TaskStarted, TaskCompleted, Evaluated}

ASSUME JobsAssumption ==
  /\ WorkerTopics \subseteq Topic /\ NoTask \in Body
  /\ \A j \in Jobs : j.on \in BOOLEAN /\ j.evaluates \in BOOLEAN /\ j.tasks \in [Client -> Seq(Body)]

VARIABLES
  job,          \* one of Jobs
  workerState,  \* state_
  taskQueue,    \* task_queue_
  thread,       \* worker_thread_: where it is in worker_loop, and its task
  keeper,       \* where the owner is in start or stop
  submitter,    \* where each client is in submit_task, and how many tasks it has submitted
  accepted,     \* history: the tasks that were queued, in their order
  saidOf        \* history: the events of the worker, by topic and task

cogVars == <<job, workerState, taskQueue, thread, keeper, submitter, accepted, saidOf>>

InLoop(pc) == [pc |-> pc, task |-> None]

WorkerInit ==
  /\ job \in Jobs
  /\ workerState = "idle"
  /\ taskQueue = <<>>
  /\ thread = InLoop("none")
  /\ keeper = IF job.on THEN "idle" ELSE "away"
  /\ submitter = [c \in Client |-> [pc |-> "idle", at |-> 1]]
  /\ accepted = <<>> /\ saidOf = <<>>

\* A thread that is about to block holds queue_mutex_.
QueueFree == thread.pc # "block"

Says(topic, task) ==
  /\ Emit(topic, task)
  /\ saidOf' = Append(saidOf, [topic |-> topic, task |-> task])

-----------------------------------------------------------------------------
(* The owner.                                                              *)

KeeperStarts ==
  /\ keeper = "idle" /\ workerState = "idle"
  /\ workerState' = "running"
  /\ keeper' = "create"
  /\ UNCHANGED <<busVars, job, taskQueue, thread, submitter, accepted, saidOf>>

\* The thread runs before its birth is told.
KeeperCreates ==
  /\ keeper = "create"
  /\ thread' = InLoop("top")
  /\ keeper' = "spawned"
  /\ UNCHANGED <<busVars, job, workerState, taskQueue, submitter, accepted, saidOf>>

KeeperTells ==
  /\ keeper \in {"spawned", "joined"}
  /\ Says(IF keeper = "spawned" THEN Spawned ELSE Terminated, NoTask)
  /\ keeper' = IF keeper = "spawned" THEN "up" ELSE "over"
  /\ UNCHANGED <<job, workerState, taskQueue, thread, submitter, accepted>>

KeeperStops ==
  /\ keeper = "up" /\ workerState = "running"
  /\ workerState' = "stopped"
  /\ keeper' = "notify"
  /\ UNCHANGED <<busVars, job, taskQueue, thread, submitter, accepted, saidOf>>

\* Mutant of Awake: nobody is notified.
AwakeNot == thread

\* One who waits looks again, which takes the mutex.
Awake == IF thread.pc = "waiting" THEN InLoop("look") ELSE thread

\* Without queue_mutex_: a thread that is about to block misses it.
KeeperNotifies ==
  /\ keeper = "notify"
  /\ thread' = Awake
  /\ keeper' = "join"
  /\ UNCHANGED <<busVars, job, workerState, taskQueue, submitter, accepted, saidOf>>

\* Mutant of Joinable: the thread is not waited for.
JoinableAlways == keeper = "join"

Joinable == keeper = "join" /\ thread.pc = "exited"

KeeperJoins ==
  /\ Joinable
  /\ keeper' = "joined"
  /\ UNCHANGED <<busVars, job, workerState, taskQueue, thread, submitter, accepted, saidOf>>

-----------------------------------------------------------------------------
(* submit_task looks at the state, pushes under the mutex, and notifies.   *)

Submission(c) == job.tasks[c][submitter[c].at]
ClientAt(c, pc) == submitter' = [submitter EXCEPT ![c].pc = pc]
ClientDone(c) == submitter' = [submitter EXCEPT ![c] = [pc |-> "idle", at |-> @.at + 1]]

\* A worker that does not run makes submit_task throw.
ClientSubmits(c) ==
  /\ job.on /\ submitter[c].pc = "idle" /\ submitter[c].at \in DOMAIN job.tasks[c]
  /\ IF workerState = "running" THEN ClientAt(c, "push") ELSE ClientDone(c)
  /\ UNCHANGED <<busVars, job, workerState, taskQueue, thread, keeper, accepted, saidOf>>

ClientPushes(c) ==
  /\ submitter[c].pc = "push" /\ QueueFree
  /\ taskQueue' = Append(taskQueue, Submission(c))
  /\ accepted' = Append(accepted, Submission(c))
  /\ ClientAt(c, "notify")
  /\ UNCHANGED <<busVars, job, workerState, thread, keeper, saidOf>>

ClientNotifies(c) ==
  /\ submitter[c].pc = "notify"
  /\ thread' = Awake
  /\ ClientDone(c)
  /\ UNCHANGED <<busVars, job, workerState, taskQueue, keeper, accepted, saidOf>>

-----------------------------------------------------------------------------
(* worker_loop.                                                            *)

LoopFrame == UNCHANGED <<job, workerState, keeper, submitter, accepted>>

\* The head of the loop, without the mutex.
LoopLooks ==
  /\ thread.pc = "top"
  /\ thread' = InLoop(IF workerState = "running" THEN "look" ELSE "exited")
  /\ UNCHANGED <<busVars, taskQueue, saidOf>> /\ LoopFrame

\* Under the mutex: a stop goes before what is queued.
LoopTakes ==
  /\ thread.pc = "look"
  /\ IF workerState # "running"
       THEN thread' = InLoop("exited") /\ UNCHANGED taskQueue
       ELSE /\ taskQueue # <<>>
            /\ thread' = [pc |-> "begin", task |-> Head(taskQueue)]
            /\ taskQueue' = Tail(taskQueue)
  /\ UNCHANGED <<busVars, saidOf>> /\ LoopFrame

LoopFindsNothing ==
  /\ thread.pc = "look" /\ workerState = "running" /\ taskQueue = <<>>
  /\ thread' = InLoop("block")
  /\ UNCHANGED <<busVars, taskQueue, saidOf>> /\ LoopFrame

LoopBlocks ==
  /\ thread.pc = "block"
  /\ thread' = InLoop("waiting")
  /\ UNCHANGED <<busVars, taskQueue, saidOf>> /\ LoopFrame

LoopBegins ==
  /\ thread.pc = "begin"
  /\ Says(TaskStarted, thread.task)
  /\ thread' = [thread EXCEPT !.pc = "process"]
  /\ UNCHANGED taskQueue /\ LoopFrame

LoopCompletes ==
  /\ thread.pc = "process"
  /\ Says(TaskCompleted, thread.task)
  /\ thread' = IF job.evaluates THEN [thread EXCEPT !.pc = "evaluate"] ELSE InLoop("top")
  /\ UNCHANGED taskQueue /\ LoopFrame

\* An exception of the evaluator leaves out the event.
LoopEvaluates ==
  /\ thread.pc = "evaluate"
  /\ Says(Evaluated, thread.task) \/ UNCHANGED <<busVars, saidOf>>
  /\ thread' = InLoop("top")
  /\ UNCHANGED taskQueue /\ LoopFrame

-----------------------------------------------------------------------------
Keeper == KeeperStarts \/ KeeperCreates \/ KeeperTells \/ KeeperStops \/ KeeperNotifies \/ KeeperJoins
\* What the owner does without being asked to.
KeeperGoesOn == Keeper /\ keeper \notin {"idle", "up"}
Clients == \E c \in Client : ClientSubmits(c) \/ ClientPushes(c) \/ ClientNotifies(c)
ClientsGoOn == \E c \in Client : ClientPushes(c) \/ ClientNotifies(c)
ThreadSteps == \/ LoopLooks \/ LoopTakes \/ LoopFindsNothing \/ LoopBlocks
               \/ LoopBegins \/ LoopCompletes \/ LoopEvaluates

CognitiveNext == Keeper \/ Clients \/ ThreadSteps

-----------------------------------------------------------------------------
(* Properties.                                                             *)

\* The events of a topic, by their places among all that was said, and the number of one among them.
SaidOf(topic) == {i \in DOMAIN saidOf : saidOf[i].topic = topic}
Nth(i) == Cardinality({k \in SaidOf(saidOf[i].topic) : k <= i})
Count(topic) == Cardinality(SaidOf(topic))
Held == IF thread.pc \in {"begin", "process"} THEN <<thread.task>> ELSE <<>>
Ended == keeper = "over"

(* Whatever clients submit while the worker is stopped, each task that was *)
(* queued is told of as started and then as completed, once and in the     *)
(* order of the queue, or of it nothing at all is told; what is evaluated  *)
(* was completed just before.  When stop has returned no task is half told,*)
(* nothing follows the end of the agent, and the tasks that are left are   *)
(* those behind the last one completed.                                    *)
TasksInTurn ==
  /\ \A topic \in {TaskStarted, TaskCompleted} : \A i \in SaidOf(topic) :
       Nth(i) \in DOMAIN accepted /\ saidOf[i].task = accepted[Nth(i)]
  /\ Held \o taskQueue = SubSeq(accepted, Count(TaskCompleted) + 1, Len(accepted))
  /\ Count(TaskStarted) = Count(TaskCompleted) + IF thread.pc = "process" THEN 1 ELSE 0
  /\ \A i \in SaidOf(Evaluated) : \E k \in SaidOf(TaskCompleted) :
       /\ k < i /\ saidOf[k].task = saidOf[i].task
       /\ \A m \in (k + 1)..(i - 1) : saidOf[m].topic \in {Spawned, Terminated}
  /\ Ended => /\ saidOf # <<>> /\ saidOf[Len(saidOf)].topic = Terminated
              /\ Held = <<>> /\ Count(TaskStarted) = Count(TaskCompleted)

\* The stop's one notification came when the thread had looked and not yet blocked.
StopMissed == keeper = "join" /\ thread.pc = "waiting"

(* A task that was queued while the worker runs is completed, unless the   *)
(* worker is stopped; and a stop returns, unless its notification is       *)
(* missed and no client notifies later.                                    *)
WorkerServes ==
  /\ taskQueue # <<>> ~> workerState = "stopped" \/ taskQueue = <<>>
  /\ thread.pc = "begin" ~> thread.pc \notin {"begin", "process"}
  /\ keeper = "notify" ~> keeper = "over" \/ StopMissed
==============================================================================

# HydraForge: models, checks and proofs

HydraForge (AgenticDSL) runs programs written as graphs of nodes: a scheduler
walks the graph, nodes read and write a JSON context, call tools and language
models, fork and join, and generate new subgraphs while they run. Around the
scheduler stand worker pools, an event bus, timers, session logs on disk and a
registry of versioned genomes. This directory models those parts in TLA+, checks
them with TLC on small instances and proves theorems about them with TLAPS.

`PROJECT.json` lists the components, the runs, the mutants of each property, the
source lines behind each definition, the hazards of the code and the theorems.

## 1. The system

Paths below are relative to `src/src/` of the repository.

| Component | State | Operations | What is hard |
|---|---|---|---|
| Scheduler `modules/scheduler/topo_scheduler.cpp` | node map, in-degrees, FIFO of ready nodes, executed set, current fork, dynamic graphs | execute, resume_yield, execute_parallel | bookkeeping that must release every node exactly once while forks, branches, rebuilds, requeues and resumes all touch it |
| Execution session `modules/scheduler/execution_session.cpp`, node executor `modules/executor/`, context engine `modules/context/context_engine.cpp` | snapshots, budget, pending yield; none; snapshot store | execute_node; one per node type; merge, save / get snapshot | errors of a node, merge conflicts, a full snapshot store |
| Domain worker pool and cognitive worker `modules/cognitive/` | task queue, state, handlers, threads | start, submit, stop, register, unregister | condition variable, stop against submit, draining or dropping what is queued |
| Interaction bus `common/contract/inmemory_bus.cpp` | clock, queue, subscriptions, dispatcher | emit, subscribe, unsubscribe, wait_for_drain | callbacks after unsubscribe, order of events, the dispatcher's copy of the callbacks |
| Event log and session writer `core/event_log.cpp`, `core/session_writer.cpp` | buffer, file, flusher thread | on_bus_event, flush_loop, flush_sync, rotate, stop | two flushers, order in the file, what stop loses |
| Agent loops `include/agenticdsl/pdk/agent_loops/` | results of branches | run | telling its own events from others', termination |
| Session store `core/session_manager.cpp` | the records of a JSONL file, branches, leaf | open, append, fork, append_to_branch, compact, rename | crash and reload, ids, branches after compaction |
| Timer service `common/utils/timer_service.cpp`; callback channel and Temporal backend `pdk/temporal_agent` | timers, callbacks to fire; polls in flight; workflows with their signals and streamed status | register, cancel; start_polling, stop; start, poll, signal, query, stream | a callback copied before its cancellation; a signal or a change told twice or to nobody |
| Serialising provider `common/llm/serializing_decorator.cpp` | count of callers | generate, generate_stream, available_models | cancellation and exceptions under a count; a query of the models beside a call |
| Skill interpreter `modules/skill_interpreter/` | child, pipes, deadline, budget | run, dispatch, destructor | a child process that dies, hangs or is killed at any point of the conversation |
| Chat session `pdk/chat_session/` and loop agent `pdk/loop_agent/` with `common/io/stdin_input_source.cpp` and the loop of `examples/pdk_chat_demo/main.cpp` | two queues and their counter, input thread, timer, id and source of the turn, shutdown flag, history and its file, records | pop_next_input, chat, request_stop, destructor | a line queued while the loop gives up, a stop that arrives between two turns, a destructor with a reader and a callback under way, a kill between save and record |
| Genome registry `core/genome/` | version directories with document and signature | commit, load, fork | several writes that are not one, failures, crashes, two processes |
| Mutation governor `common/governance/` | audit events | propose, commit, revert | commit does not check what was proposed |
| Tool coordinator `common/tools/` with policies, layers and approval | tools, hooks, nesting stack | execute | order of checks, hooks, approval and events; calls inside calls |
| HarnessRSI `evolution/harness_rsi.cpp` and GEPALoop `modules/cognitive/gepa_loop.cpp` | prompt and tools of an agent; iteration | apply / undo a mutation; reflect_and_commit | several steps of which one may fail, memory against store |
| Session registry, budget counters, stream handle | see PROJECT.json | | not modelled |
| PluginLoader `modules/plugin/plugin_loader.cpp`, `DSLEngine::load_plugin` | the open files and the list of plugins | load, load all, unload, create a provider, destroy | a load that fails half-way; code that goes while something points into it |
| Parser, engine wiring, trace export, prompts, distillation, search, process back ends | | | text, numerics and I/O: not modelled |

How they interact: `DSLEngine` parses a program, builds a scheduler and calls
`execute`; the scheduler owns an execution session, which owns the node executor,
the context engine and the budget; nodes call the tool registry and the language
model; a node of type `generate_subgraph` calls back into the scheduler
(`append_dynamic_graphs`). Worker pools, the bus and the timers run threads of
their own and meet the rest through queues, callbacks and events; the session
store, the event log and the genome registry meet it through files. A fork-join
loop drives a pool and hears of its results over the bus, which the log writers
hear too; a skill interpreter shares its timer with other users, a chat session among them,
and its provider with agents, behind the serialising decorator; the chat session appends each
turn to the session store; mutations of an agent and the
reflection loop write to one genome registry, and the coordinator stands between
an agent and its tools.

## 2. Modules

| Module | What it is |
|---|---|
| `TopoScheduler` | one run of `TopoScheduler::execute`, with resumes; 20 actions |
| `MCTopoScheduler` | the program graphs TLC runs it on |
| `TopoSchedulerProofs` | edges, ranks and queues; the inductive invariants of in-degrees, of what has run, of the values and of the results of branches: `TypeCorrect`, `UnmetStuck`, `RunAtMostOnce`, `DependenciesRunFirst`, `BranchesIsolated`, `JoinsLoseNothing` |
| `TaskPool` | what a pool promises: accepted tasks, each done at most once, nothing after `stop` returned |
| `WorkerPool` | `DomainWorkerPool` with its mutex, condition variable and threads; implements `TaskPool` |
| `MCWorkerPool` | a pool of two threads and two clients for TLC |
| `WorkerPoolProofs` | `PoolTypes`, `PoolImplemented`, `LittleLeft` |
| `SessionStore` | `SessionManager` and the file under it, with the calls of `ChatSession` |
| `MCSessionStore` | the chat, one command thread and three records for TLC |
| `SessionStoreProofs` | `StoreTypes`, `RecordsSurvive`, `ParentsKnown`, `IndexAgrees` |
| `Bus` | `InMemoryBus`: operations that the modules of its users conjoin with their own steps |
| `LogWriter` | `EventLogWriter` and `SessionWriter` on the bus (extends `Bus`) |
| `ForkJoin` | `ForkJoinLoop::run` over the bus and over `TaskPool` (extends `LogWriter`) |
| `CognitiveWorker` | `CognitiveWorker` with its thread, its owner and its clients (extends `Bus`) |
| `EventProgram` | a loop with its surroundings and a worker on one bus (extends the two) |
| `MCForkJoin` | lists of branches, a writer and foreign events, and a worker with two clients, for TLC |
| `TimerService`, `CallbackChannel` | the timers, and a user of them that polls (extends the first) |
| `SerializingDecorator` | one call at a time through to a provider |
| `SkillInterpreter` | host and child of a skill, with the timers and the provider they share with others |
| `ChatStore` | what a chat keeps: history, its file, its records |
| `ChatSession` | the chat's reader, queues, loop, turns, cancellation and destructor, its kill and its next launch (extends `TimerService` and the above) |
| `HostProgram` | a program with skills, a channel and a chat on one timer service (extends the channel, the interpreter and the chat) |
| `TemporalBackend` | `InMemoryTemporalBackend`: workflows, and the agents, drivers and streams that use them |
| `TemporalProgram` | `HostProgram` with the backend its channel polls (extends both) |
| `MCSkill` | skills of up to three lines, chats and backends of up to four lines or calls, in the surroundings each case needs |
| `SkillProofs` | of the whole program the provider (`OneCall`), the channel (`PollsEnd`), the capability (`GrantsBounded`) and the end of a run (`HostDiesOnlyThen`, `RunsLeaveNothing`, `CodesAreTrue`, `StrandedOnlyThen`); with `WorldIsProgram` all of them beside a backend, and the backend (`BackendIsTold`) |
| `ChatProofs` | the chat in that program: `StopReachesItsTurn`, `GoneMeansQuiet`, `NoneIsOverlooked`, `AnswersOutlive`, and the four beside a backend |
| `ForkJoinProofs` | a fork-join run, alone (`SuccessComplete`) and beside a worker (`CompleteBesideWorker`); the writers (`LogLosesNothing`, `LogInOrder`, `OneCallIsLate`); the worker (`ToldInTurn`) |
| `GenomeRegistry` | commit by commit, the files of the versions of a genome |
| `MutationGovernor` | the answers and events of the governor |
| `ToolCoordinator` | `execute` with all that it consults |
| `PluginLoader` | the loader of plugins, on the coordinator's registry |
| `Evolution` | an agent that calls tools and changes itself, and a reflection loop, over the three modules above |
| `EvolutionSession` | the demo's session over several contexts, as one more host of `Evolution` |
| `MCEvolution` | the agents, mutations and calls TLC runs it on |
| `EvolutionProofs` | registry, coordinator, plugins and the agent: `CommitsKept`, `ToolsChecked`, `CodeStays`, `AgentIsStored`, `TrailIsTrue`; with `SessionIsEvolution` all five for every session (`SessionKeeps`), and of the session `RecordsAreOfTheirContexts` |
| `SequenceLemmas` | facts on sequences, counts and folds the proof modules share |

### TopoScheduler

State: `allNodes` is `all_nodes_` with `node_map_`; `inDegree`, `readyQueue`,
`executed` are the members of the same names; `fork` is
`is_executing_fork_branches_` and the `current_fork_*` members; `branch` holds the
locals of `execute_single_branch`; `context` is the context of the main loop,
`snapshots` the store of the context engine, `pendingYield` the session's
`pending_yield_`, `dynamic` the scheduler's `dynamic_graphs_`; `pc` and `outcome`
say where `execute` is and how it came back; `runs` is history.

Actions: one for each thing an iteration of `run_main_loop` can do with the head
of the queue (`UnknownNode`, `SkipExecuted`, `Requeue`, `BadWait`, `RunFork`,
`RunJoin`, `JoinThrows`, `NodeFails`, `AssertJumps`, `NodeYields`, `NodePauses`,
`NodeCompletes`), `Rebuild` (rebuild_dynamic_graph), `Finalize`, the branch steps
(`SnapshotMissing`, `StartBranch`, `BranchRuns`, `BranchFails`, `BranchDone`) and
`Resume` (resume_yield). A successful node is one step: everything from the pop to
the release of its successors happens on one thread with no callback in between.

What is abstracted:

* A value in the context is the name of the node that wrote it, so two writers
  always write different values; keys are scalars or arrays (`ArrayKey`).
  Nested objects, `array_concat`, `array_merge_unique` and the size limit of the
  snapshot store in KB are left out.
* Templates, tools, the language model and the budget of a node are one choice:
  the node fails or succeeds.
* `needs_snapshot` is modelled for the node types that always need one, not for
  the metadata flags that ask for more.
* The nodes under `/__system__/` and branches given as a path prefix rather than a
  node path are left out; generated nodes have fresh paths.
* Serialising the queue, the in-degrees and the executed set at a yield and
  restoring them at resume gives the same values. `state.ready_queue` is a copy the
  loop never pops: the loop ends when dispatching returns nothing.
* `pending_dynamic_deps_` is declared and never filled; it has no counterpart.

An assertion that fails does not reach its `on_failure` node, though `docs/specs/dsl.md:413` has it jump
("失败则跳转"): the target travels in the text of an exception, and `process_jump`
(`topo_scheduler.cpp:815`) keeps the blank after the colon, so the path it queues is no node's.
`JumpTarget` is therefore `BadPath`, and the run ends there, as `AssertJumps` has it.

### WorkerPool and TaskPool

State: `state`, `taskQueue` and `handlers` are `state_`, `task_queue_` and the domains of
the registered handlers; `worker` is where each thread is in `worker_loop` and
`process_task` and the task it holds, `client` the same for each caller of
`submit_task`; `owner` is where `start` and `stop` are in their loops over the threads,
`stopAsked` the threads whose stop was requested; `fate` and `early` are history. A thread
waits in two steps, as a condition variable does: it evaluates the predicate under the
mutex and finds nothing (`FindNothing`), then lets go of the mutex and blocks (`Block`); a
`notify_all` in between is lost, exactly where the code can lose it. `WakeUp` is a spurious
wake-up.

`TaskPool` knows the fate of each task, whether the pool is idle, open, closing or closed,
and which tasks were accepted while it was open; it may only close when those are done.
`WorkerPool` implements it with `Phase` read off `state` and `owner`.

What is abstracted: one owner starts and stops the pool, and stops it after `start`
returned (a second `stop` is no step); what a handler returns or throws is the same to
the pool; a handler that calls back into the pool, the evaluator and the payloads of
events are left out.

### SessionStore

State: `nodes`, `children`, `branches`, `current`, `nodeCounter`, `branchCounter` are the
members of those names; `writer` is who holds `write_mutex_`; `call` is where each thread
is in its call and the record it writes; `snap` holds the locals of `compact`; `chat` is
`last_node_id_` and `current_branch_id_` of the chat session. The file is `file`, the
records its synced lines give, and `tail`, its last line when that is something else:
`whole` (written, not synced), `torn` (a part of a line), `open` (a line that lacks its
newline since before this process), `short` (the same, left by a call of this process that
threw) or `glued` (written behind a line without newline). `acked`, `lost`, `dropped` and
`loaded` are history.

Actions: an append is `AppendTurn` or `AppendToBranch`, `Number`, `Write` or `WriteFails`,
`Sync`, `Index`; a fork is `ForkCheck`, `ForkIndex`, then `Write`, `Sync`, `ForkReturns`; a
compaction is `CompactCollect`, `CompactRename` or `CompactFails`, `CompactReindex`;
`Rename` and `SwitchBranch` are one step each up to the write; `Resume` is
`hydrate_from_resume`; `Crash` ends the process and opens the file in a new one. The steps
are those between which another thread can run: `index_mutex_` is held within one step,
`write_mutex_` across several.

What is abstracted:

* An id is the counter it is printed from, `uid` stands for the content: records of
  one id and different content are told apart.
* The file is a set: what a load gives depends on the order of lines only for records
  of one id, and `Land` says which of them wins.
* A load is one step: it takes the file and the last line as they are at one moment, a
  line being written included. In the code it reads line by line without `write_mutex_`;
  a load that is overtaken by an append or a compaction halfway is not modelled (only
  `fork` on an empty index loads while others may write).
* A `::write` that falls short leaves nothing, a part of the line or all of it but the newline
  (`FailsToWrite`). A load takes the last for the line it is, so the file then gives a record whose
  call threw and which the index lacks: `MemoryMatchesFile` allows for that one, and
  `CompactKeepsBranch` does not ask a compaction to keep it.
* `fsync` and `rename` are taken to be durable. A failing `fsync`, which the code
  ignores, is not modelled.
* Left out: `migrate_legacy_json`, opening a second session in one process, the
  `.backup` copy, the event on the bus, the read-only queries. `rename_session` reads
  `current_branch_` without `index_mutex_`; the model reads a branch that was current.
* A resume token names a node whose append had returned.

### Bus, LogWriter, ForkJoin, CognitiveWorker and EventProgram

State of `Bus`: `clock`, `queue`, `exact` and `wild` are `causal_clock_`, `queue_` and the two
maps of subscribers; `dispatch` is where the dispatch thread is, the event it has popped and
the callbacks it has copied and still has to call; `drainer` is a thread in `wait_for_drain`.
An operation is an action without what its caller does besides: `Emit` is conjoined with the
emitter's step, `Calls(s)` with what the callback of `s` does.

State of `LogWriter`: `buffer`, `open`, `running` are `buffer_`, `file_.is_open()` and
`running_`; `lines` the events in the file and the files rotated away; `flusher`, `syncer`
and `closer` are where `flush_loop`, a caller of `flush_sync` and the caller of `stop` are,
each with its snapshot of the buffer. The two classes are one machine but for the topics
they take and for `stop` (`StopDrain` and `StopTake` of the event log, `StopClose` of the
session writer, which drops what it holds).

State of `ForkJoin`: `results`, `anyFailed` are those of the `Tracker`, `loop` is where `run`
is, `awake` whether it has been notified since it found its predicate false. The pool is
`TaskPool`, which `WorkerPool` implements: `RunStarts`, `RunSubmits`, `RunStopsPool`,
`RunJoins` and the workers are its actions, each conjoined with the step of `run` or with the
event the worker emits.

State of `CognitiveWorker`: `workerState` and `taskQueue` are `state_` and `task_queue_`, `thread`
is where `worker_thread_` is in `worker_loop` and its task, `keeper` where the owner is in `start`
or `stop`, `submitter` where each client is in `submit_task`; `accepted` and `saidOf` are history.
The thread finds nothing and blocks in two steps, as in `WorkerPool`, and every event is told with
the mutex released. What the code does and the properties allow for: the thread runs before
`agent.spawned` is told, so a task may be told of first; `stop` drops what is queued without an
event; it notifies without the mutex, so the thread may miss it and `join` wait for ever
(`StopMissed`; the comment at `cognitive_worker.cpp:95` has it return in every case); and an
exception of the evaluator leaves out its event. A task is one step, for the orchestrator turns
every exception into a result, and so is its evaluation.

`EventProgram` puts the loop and the worker on one bus: the worker's events are those of another
pool for the loop.

What is abstracted:

* `try_pop`, which only tests call, and the destructor of the bus are left out. `emit(type,
  content)`, which ticks the clock twice, is taken as one tick. A callback does not call
  `wait_for_drain`: it would wait for itself.
* A batch is written and flushed in one step under `file_mutex_`; a file that cannot be
  opened at all is left out. `flush_loop` reads `is_open()` without that mutex and drops its
  batch when it does so in the middle of a rotation: `NothingLost` says exactly what may be
  missing. The comment at `core/event_log.h:93` promises more of
  `flush_sync` than it keeps.
* The handler of a branch cannot fail, so `domain.task.failed` comes from other pools only.
  `ForkJoinLoop` takes any pool's event for one of its own (`crosstalk`), and waits for as
  many keys as there are positions, so that a list with a duplicate hangs. One loop runs
  once: a second `run` throws while it registers the handler and leaves two subscriptions.
  `merge` reads the results without the lock; by then both callbacks have been unsubscribed
  and the one that may still come (`OneLateCallback`) is the only writer.

### SkillInterpreter with TimerService, CallbackChannel and SerializingDecorator

State: `host` is where `run`, `ipc_loop_and_wait` or `dispatch` is, with `steps_used`, the
request in hand, its answer and the code decided on; `deadlineExceeded`, `timerId`,
`budgetUsed`, `childPid` and `stopInput` are the members of `Impl` of those names; `child`,
`request` and `response` are the child and the line in each pipe, per run, for a child may
outlive its run; `timers` and `toFire` are the map of the timer service and the callbacks its
thread has copied; `periodicId` and `inFlight` are those of the channel; `concurrent` and
`call` the count of the decorator and where each caller is, in `generate` or in `available_models`.

Actions: `Spawn` up to the loop; `LoopTop`, `Poll`, `LookReaps`, `LookLeaves`, `LookReads` are
one iteration of it; `Serve...`, `LlmAnswers`, `LlmTimesOut` are `dispatch`; `Write`,
`WriteSkipped`, `WriteFails` the answer; `Finish`, `Reap`, `Leaves` the end; `Destroy`,
`Destroyed` the destructor. The child starts, computes, asks, goes on and dies on its own;
`OutsideKill` is a kill by the system.

What the models have on purpose, as the code has it: `stop_input_thread_` is never reset, so
a later run skips its answers and may wait for ever for a child that waits for it
(`StrandedOnlyBy`); a line longer than one read is taken for the end of the file; a status
that `waitpid(WNOHANG)` took is lost and what is read instead is anything; a killed child
makes the answer to it a SIGPIPE; an exception of the provider leaves child and pipes
behind; a negative `consume_budget` gives budget back; the decorator's count stays 1 after
an exception; neither the decorator's nor the channel's wait is notified by what stops it.

`available_models` calls the provider with the mutex held and does not look at the count, while `generate`
has let go of the mutex when it calls: the comment at `serializing_decorator.cpp:85` ("必须持锁防止与
generate/generate_stream 并发") wants the two kept apart, and they are not. `Models`,
`ModelsReturn` and `Unlocked` have it as it is: a query may be inside beside one generation, and while
it is nobody comes to the count or leaves it. `OneInside` says what is left: never two generations, nor two
queries, and a true count. A caller asks for the models at most once, before it generates.

What is abstracted: a pipe holds one line; a tool is one step and returns; the 1 MB
truncation is unreachable behind the first read; `setrlimit` is called in the parent and its
effect on the host is left out, and so is the destructor's second close of descriptors. The
destructor of the timer service, which runs after its users, is left out, and whoever injects
a timer is assumed to see that none of the skill's callbacks is under way when the interpreter
is destroyed.

### TemporalBackend and TemporalProgram

State: `workflows` and `runCounter` are `workflows_` and `run_counter_`, each workflow with its
run, status, number of events, `pending_signals` and `last_streamed_status`; `place`, `phase` and
`held` are where each thread is in its list of calls, whether it waits, looks or tells, and for
what; `handlers` are those of the channel; `returned`, `emitted`, `changes`, `told` and `ended`
are history. In `TemporalProgram`, `poll` and `signals` are where `poll_once` is and the signals
it has taken.

Actions: `Starts`, `Polls`, `Signals` and `Queries` are the calls of agents, `StopsWaiting` the
last look of one that waits with the mutex released between its looks; `Changes` and `EmitsSignal`
bring a workflow on; `StreamBegins` to `StreamTells` are `stream_workflow_events`, whose callback
runs without the mutex. `Takes` and `Hands` are `poll_once`, between the moments at which
`CallbackChannel` has a poll begin and end (`ProgramStep`). A step of the program is a step of
`HostProgram` or changes none of its variables (`WorldIsProgram`).

What the code does and `ToldOnce` allows for: a start of a name that is taken, a blocking one too,
returns at once with the status there is; a workflow that has ended can be changed and signalled;
`last_streamed_status` belongs to the workflow, so of two streams one tells a change and the
other may end without telling it, and callbacks of two streams may run in another order than the
changes; a signal nobody handles is gone. A signal sent to a workflow (`signal`) only counts as an event
of it, the ones the channel polls for come from `emit_signal`.

What is abstracted: payloads, queues, names of types and the events the client tells the bus after
a call. In a build without gRPC, the default, `GrpcTemporalBackend` forwards every call to this
backend; with gRPC its calls throw, for they are not written yet. Argument checks are errors without
effect.

### ChatSession and HostProgram

State: `steering`, `followUp` and `pending` are the two queues and `pending_input_count_`;
`reader` is where `input_thread_` is, with the line it has read, the id of the timer it has
registered and whether its guard knows of it; `loop` is where `main` is in its loop, in
`pop_next_input`, in `chat` and at last in the destructor; `shutdown`, `chatTimer`, `callbacks`
and `currentId` are `stop_input_thread_`, `periodic_id_`, `in_flight_callbacks_` and
`current_cancellation_id_`; `sources` is the map of the `CancellationRegistry`, `asker` a thread
in `request_stop`, `stdin` the pipe or terminal with the part of it that lies in stdio's buffer.

Actions: `ReaderStarts` to `ReaderExits` are one pass of the input thread: it registers its
timer, stores the id, polls, reads, pushes, counts. `MainLooks`, `PopSteering`, `PopFollowUp`,
`WaitForInput`, `AfterWait`, `NothingCame` are the loop and `pop_next_input`, each queue under its
own lock, the counter outside both; `TurnBegins` to `TurnClears` are `chat` around its tool, of
which `AgentAnswersItself`, `AgentLooks`, `AgentRuns` are `loop/run` of the loop agent;
`SaveWrites` and `SaveRenames` are `save_to_disk`, `RecordUser` and `RecordAnswer` `persist_turn`;
`AskStop`, `ResolveSource`, `StopSource` the three steps of `request_stop`; `DestroyCancels` to
`DestroyJoins` the destructor, and `CallbackEnters`, `CallbackLeaves` the timer's callback it
waits for. `BeginLine`, `EndLine`, `CloseStdin` are whoever types. `Kill` ends the process anywhere;
`Relaunch` is a launch with the id of its session: `cleanup_stale`, which may remove the file, then
`load_from_disk`.

State of `ChatStore`: `messages` is the member of that name, `tmp` and `file` the temporary file and
`<id>.json`, each whole or short; `ours` says that `session_id_` names that file: a session whose
file could not be loaded keeps its fresh id, and its saves go elsewhere. `records` are the lines of
`<id>.jsonl` that can be read, `torn` a last line without its end; `indexed` is what `nodes_` of the
`SessionManager` has of them, and `onMain` says that its current branch is still the one the session
records on. History are `reported` (every answer a save ever claimed to keep), `since` and `cut` (the last turn
of earlier launches, and the last one a compaction was not to keep) and `mishaps` (kills, and lines cut short).

Three of the commands change something the module has. `/cancel` stops the turn whose id it finds. `/compact`
(`Compacts`) calls `SessionManager::compact`, which writes the records anew from the index: the program opens
its session without loading it, so those of earlier launches go. `/fork` (`ForksBranch`) makes a new branch
current in the manager, while the session goes on recording on `main`, so that a later `/compact` keeps none of its
records. The argument of `/fork` is never set, so it forks at the leaf of the current branch: once in a
launch, and only after something was recorded. `/clone` copies the file of records to another name; `/model`,
`/tree` and `/help` change nothing of this.

`HostProgram` interleaves the skills, the channel and the chat; the timers and their one thread
are theirs together, so a callback of one owner holds up those of the others.

What is abstracted: a line is its number and its kind; a wait with a time limit may end at any
time, so a notification, or a wake-up of the reader, only makes haste. The demo injects no timer, the tests do, and the model
has both. As in the demo there are a directory for the histories and a session manager. Text is valid
UTF-8, what the bus hears of a turn is left out, and which ids and branches its records get is
`SessionStore`'s. Whoever calls `request_stop` sees to it that the session is not being destroyed.

Where the code is weaker than one may think:

* `/cancel` runs on the loop's thread, between turns: it cannot stop a turn in flight.
* An exception of the turn's tool skips the clean-up: its source and its id stay, and a stop
  that comes before the next turn goes to the turn that is over (`StopsItsTurn` allows for
  nothing worse: never to a later one).
* The destructor may take `periodic_id_` before the reader has stored it: the timer then
  outlives the session, or the reader calls through the null `timer_` (`raced`, `ReaderCrashes`).
* `in_flight_callbacks_` counts callbacks that have begun, not those the timer has copied
  (`GoneIsQuiet` allows one), and is notified outside the mutex: a destructor about to block
  misses the only notification (`Missed`).
* The stream of the saved file is checked when it is opened and not after it is written: a short
  file is renamed over a good one and the save reported (`AnswersSurvive` speaks of a file that is
  whole: what was ever reported must be in it). Records are appended for a turn that failed as for one that was answered, and do not tell
  which; an exception of the append leaves `chat` and ends `main`.
* A line that is begun and not ended holds the reader in `getline`, and the destructor in its
  join, until the other end of stdin does something: `CallsEnd` speaks of a stdin that closes.
* Lines that lie in stdio's buffer are not seen by `poll`: they are read when more comes.
* At the end of input a line queued between the loop's last look and its test of `shutdown` is
  left (`NothingOverlooked` speaks of those it could see).

### GenomeRegistry, MutationGovernor, ToolCoordinator, PluginLoader, Evolution and EvolutionSession

State of `GenomeRegistry`: `files` are the document, the signature and their temporary files of
each version directory, `commit` where the commit of each writer is and what it has chosen,
`holder` who holds `commit_mutex_` of each process; `committed`, `contested` and `crashed` are
history. A commit is `CommitLock`, `CommitScan`, `CommitMkdir`, then `CommitWrites` and
`CommitRenames` for each of the two files, `Unlock`; `CommitAborts` is its clean-up. A
signature is the genome it signs: a version loads when both files are there and agree, and its
lineage can be walked. `commit_mutex_` belongs to one registry object, and an
`EvolutionSession` without a hermetic home puts its registry into a directory all processes share
(`evolution_session.cpp:274`), so two processes on one root are real; they can choose the same
version. `contested` are the versions so chosen, and
those chosen while one existed not above them; `CommittedLoads` says nothing of what comes
after one.

`MutationGovernor` has no state but `trail`, the events each caller has caused; its operators
are the answers of `propose`, `commit` and `revert`, with evaluator, human and regression gate
as their parameters.

State of `ToolCoordinator`: `registered` are the names in the registry, `config` how the
coordinator is set up, `stack` the thread-local nesting guard, `calls` (history) each call with
its answer and its events. `Execute` is `execute` up to the call of the tool, `ToolEnds` the
rest of it, `ToolEscapes` an exception that is no `std::exception`; between them the tool may
call `execute` again. An argument is the set of what can be wrong with it.

State of `PluginLoader`: `loaded` is `loaded_`, `scan` what `load_all` has still to look at,
`handles` how often each file is open (`dlopen` and `dlclose` count), `mapped` the number of its
mapping, `code` the mapping each tool of the registry points into, `providers` those that callers
hold. `LoadSo` is `load_so`: `TurnedAway` is every return before the registration, `Put` what
`pdk_register_tools` registers before a taken name makes it throw, `Outcome` how it ends. The
class comment (`plugin_loader.h:10`) has init come before the registration; the code has it
after, so an init that refuses closes a file whose tools stay. `ScanNext` is one file of
`load_all`, which an exception leaves. `Destroy` is the end of a `DSLEngine`: its registry first,
then its loader (`engine.h:230`). Whatever calls or destroys code that is not mapped ends the
process (`HostFalls`); `PointsIntoCode` says when that can be: after an unload, after an init that
refused, or for a provider kept beyond the engine, and never by a failed or repeated load alone.

State of `Evolution`: `live` and `applied` are the prompt and tools of the agent and the
`AppliedMutation` of its last success, `base` the version it takes as parent, `host` and `gepa`
where `apply_harness_mutation` and `reflect_and_commit` are. Neither changes anything of the
agent before `fork` has returned, so `HostMutates` begins a commit and `HostApplies` or
`HostGivesUp` is what follows it.

State of `EvolutionSession`: `phase` and `context` are where `run_6_phase_demo` is, `baseline` and
`rerun` its `last_baseline_exec_` and `last_rerun_exec_`, `outputs` and `verdicts` the two lists of
its contexts. A turn is represented by the context it is of and the prompt it ran with, a verdict by
the two turns it compares, an output by the turn whose response it is. `Mutate` is one `HostMutates` with the version of the last commit as
parent, so `SessionSpec` implies `Spec` (`SessionIsEvolution`), and a run without contexts is
`Evolution` itself. The seed of a session is taken to become version 1 (`FirstVersion`): in a root that other
processes have used already it gets a later one.

Of the outputs `evolution_session.h:155` says "baseline or rerun response", but a first turn's never gets there: `response`
is moved into the event of the trace (`evolution_session.cpp:314`) before it is taken for the output, the
last baseline response and the trace to compare (:326 to :332), and is empty then. So `Baseline` appends
no turn, and only `Reload` puts a response in its place. The comparison of the two turns looks at their success
only and is not disturbed. `RecordsFit` states what a record's output is: the response of its own context's second
turn, or empty.

Of the verdicts `RecordsFit` says less than `evolution_session.h:156` would have it ("index-aligned
with contexts_"): a context that ends before there is a second turn pushes no verdict, so that
later verdicts move up to its place, and `last_rerun_exec_` is never reset, so a context whose
version could not be loaded is compared with the second turn of an earlier one. What does hold is that with a second
turn in every context the verdicts are of their own contexts, and that no verdict is moved to a later one.

What is abstracted:

* A write of a temporary file, a `remove_all` and a load are one step each.
  `kMaxLineageDepth` is not reached. Key files and canonical YAML are the identity of what is
  signed. The race on creating the key gives a spurious I/O error, which is one of the
  failures.
* Missing collaborators and an empty genome name are folded into the gates that answer
  alike. `SecureToolRegistry` and tools backed by a model are left out.
* `include/agenticdsl/contract/registry.h:91` wants the writes of the tool registry
  synchronised by its user, so one thread calls tools and mutates.
* A plugin's functions run to their end on the thread that loads; its manifest, its version and
  the directories are what they make `load_so` answer. The events of the loader change nothing.
* The nesting guard is thread-local; a tool that dispatches to another thread is outside it.

Where the code is weaker than one may think: hooks that change arguments are meant to change the call
(ADR-0069), but `apply_pre_hooks` ends with `Continue`, and the coordinator takes changed arguments only with
`ModifyArgs`, so they never reach the tool, and a later hook judges what the tool does not get
(`HooksChangeArgs`, which the run `tool_hooks` refutes; `ChecksBeforeTool` asks of a hook that refuses only
what no earlier hook has scrubbed). A value outside its enum passes in the modes
Strict and Ignore; a path is checked only with a schema. `GEPALoop`'s regression test compares
a fingerprint with itself, and its ids repeat over calls with the same trace. `execute_axis6`
commits without evaluation, which the governor always denies. `undo_applied_mutation` does not
register again what the mutation removed (`undone`), and a tool listed twice leaves a copy
that cannot be called (`doubled`).

## 3. Runs

| Run | Expect | What it checks |
|---|---|---|
| `topo` | pass | `TypeOK`, `RunsOnce`, `DependenciesFirst`, `UnmetIsStuck`, `BranchIsolation`, `JoinLosesNothing`, `Returns` |
| `topo_revert` | violation | `JoinNeverReverts`: a `last_write_wins` join restores values from before the fork |
| `topo_growth` | violation | `GrowthKeepsOrder`: after a subgraph was generated, ready nodes are lost |
| `pool` | pass | `TypeOK`, `FewLeftBehind`, `ImplementsPool`, `EarlyTasksFinish` |
| `pool_stop` | violation | `StopReturns`: `stop` misses a worker that is about to block and joins forever |
| `session` | pass | `TypeOK`, `AckedSurvives`, `NoOrphans`, `MemoryMatchesFile` |
| `session_ids` | violation | `IdsAreUnique`: a new process numbers its nodes from 1 again |
| `session_compact` | violation | `CompactKeepsBranch`: compacting a file that was not loaded drops the active branch |
| `events` | pass | of the writers `NothingLost`, `WrittenOnceInOrder`; of the loop `SuccessIsComplete`, `OneLateCallback`; of the worker `TasksInTurn`; of all `WaitsEnd` |
| `skill` | pass | of the skill `HostSurvives`, `NothingLeft`, `CodesTellWhy`, `StrandedOnlyBy`, `WithinCapability`; of the provider `OneInside`; of the channel `OneLatePoll`; of the chat `NothingOverlooked`, `StopsItsTurn`, `GoneIsQuiet`, `AnswersSurvive`; of skill and chat `CallsEnd`; of the backend `ToldOnce` |
| `harness` | pass | `CommittedLoads`, `LivePersisted`, `PointsIntoCode`, `ChecksBeforeTool`, `TrailTellsOutcome`, `RecordsFit` |
| `tool_hooks` | violation | `HooksChangeArgs`: arguments that a hook has changed never reach the tool |

Bounds. `topo` starts from some 9,400 programs: all graphs of `next` edges on four
nodes (cycles included); all acyclic graphs on four nodes with `next`, `wait_for`
or both; one fork of up to two branches and one join with every wiring of their
neighbours; all choices of who writes which of two keys under both strategies;
every node type before the fork, in a branch and after the join; two forks or two
joins; entry points, a missing one included; templates in `wait_for`; growing
programs. `MaxSnapshots = 2` fills the store as soon as a fork and two assertions
or generators meet; `MaxResumes = 1` lets a yield be resumed and yield again. Four
nodes are enough for a diamond, a shortcut past it and a cycle with a tail, the
shapes in which an in-degree can be lowered twice, too early or never.
The graphs leave out two things the code does not handle: a branch listed twice
in one fork (it runs twice, `RunsOnce` does not hold of it) and a template that
waits for a node nothing will execute (the loop then requeues forever and
`Returns` does not hold).

`pool` has two threads, two clients, three tasks of which one is the second
client's, one domain whose handler comes and goes, and one spurious wake-up. Two
threads are what a missed or misdirected notification needs; two clients, for one to
submit while the other's task is drained; three tasks, for the queue to hold more than
the threads took. `session` has the chat and one command thread, three records, two
crashes and one failed write: a torn line needs one failure or crash, a line glued to it
one more record, a repeated id a crash and two records, and a second crash shows what the
next load makes of it. Four records with two crashes (30 million states) and two command
threads (14 million) were run once and pass too.

`events` has no branch, one, two or one named twice, each with the writer (the event log, the
session writer or none) and the foreign events that can disturb it: three events give a batch
in the flusher's hands, one in the caller's and one in the buffer. Its cognitive worker has an
evaluator and two clients with a task each, and is alone on the bus: what it shares with a loop is
proved (`CompleteBesideWorker`). Two tasks are what a queue with one task in hand needs, and for one
client to push what it was let in with while the other's is dropped. `skill` has one or two
skills of at most three lines, a kill from outside, a cancellation, and a timer, an agent or an
ignored SIGPIPE where they matter; two runs are what a flag, a timer or a child that outlives
its run needs. Its chats have up to four lines: three on queues of one place, so that one
is refused; a terminal, where lines come one by one, with an exit before the last; two turns that
may throw, with a `/cancel` between them and two stops from another thread; a signal with a timer
running; a turn without its agent and a turn on a disk that fails, each with a kill and another
launch; a turn and a compaction with a launch between or after, and a turn, a fork and a compaction on a disk that fails; a `main` that leaves before its loop, with the timer its own and shared with a channel.
Two turns are what a stop that arrives late needs, one place what a full queue needs; a kill between
two steps of a turn and one launch after it show what a save, a torn record and a load make of it.
Its backends have three threads: one workflow with four signals of two names, of which one gets its
handler late, beside the channel that polls for them; two threads that start one workflow, blocking
or not, while a third completes it and fails it; two streams of one workflow that ends, goes on and
ends otherwise. `harness` has four versions, two mutations and an undo, two reflections, one
crash, at most four calls of tools nested at most twice and one post-hook; two writers, in one
process or two, are what a lost or mixed version needs. A session of two contexts is the least in
which a verdict can be another context's. Its plugins are two files of one name, one
that shares a tool with the first and one that is turned away, with four requests to the loader
and a mutation that removes their tools: load, remove, load again and unload is what a file that
is open twice needs. The three have 318,000, 565,000 and 1,444,000 distinct states.

Fairness. `execute` runs on its caller's thread and no step waits for anyone, so
the loop is weakly fair; `Resume` belongs to the caller and is not, and neither is
a template that fails to render: a node that waits must not be helped by it. Each
thread of the pool is weakly fair, as a scheduled thread whose handlers return is; nobody has to start or stop
the pool, submit to it or register a handler. In `events` the dispatcher with its
callbacks, each thread of the writer, the loop and the workers are weakly fair: they are
threads that run; nobody has to stop or flush the writer, to cancel or to emit. So are the thread of the
cognitive worker, a `submit_task` that has let its client in, and a `start` or `stop` that has begun;
nobody has to call them. In `skill` the
host's steps, the exit of a child that was answered after its return, the death of a child
that was killed, and time are fair: the child, the provider and the timer may do nothing for
ever. Of a chat the reader, the loop with the turn's tool, a `request_stop` that has begun, the
destructor and the timer's call of it are: they are threads that run and a tool that returns;
nobody has to type, to end a line, to stop a turn or to signal, and the threads of the backend may
stop anywhere. `SessionStore` and `Evolution` state no liveness: all their calls are finite, and what
matters is what they leave behind.

`CHECK_DEADLOCK FALSE`: a run ends, and a yield may never be resumed; a stopped pool
with no client left does nothing, and so does a pool whose `stop` hangs; the records of
the store, the events, the skills and the mutations run out.

Deviations of the code from its documents, shown by the violation runs: see
"findings" in PROJECT.json.

## 4. Proofs

Each theorem is for every value of the constants under the assumptions its modules name: for
the scheduler every set `Graphs` of programs (`KeysAssumption`, `GraphsAssumption`,
`NamesAssumption`, `BoundsAssumption`, `FiniteAssumption`), for a skill every set of setups
(`SkillAssumption`), for a loop every list of branches (`LoopAssumption`, with those of the bus
and the writer), for a session every list of its contexts whose seed is the prompt the agent has
(`RunsAssumption`), and so on. Every invariant below was checked by TLC on a run's instance
before it was proved.

**Scheduler.** `TypeCorrect == Spec => []TypeOK`. The invariant is `TypeInv`: the types, and that
a branch that has emptied its queue has run a node (`BranchDone` reports
`branch.last`). The work is in `Targets`, a sequence built from the ranks of
edges: a finite set of edges with distinct places is numbered 1 to its size
without gaps (`RankRange`, `RankInjective`, `RankOnto`).

`UnmetStuck == Spec => []UnmetIsStuck`. `UnmetIsStuck` does not mention
in-degrees; the inductive invariant `StuckInv` does. As long as no subgraph was
generated and the run can still go on: the in-degree of a node is at most the
number of its edges from nodes not yet executed plus its fork edges
(`DegreeBound`), and a node that was not executed and whose in-degree is used up
is in the queue, unless a failed assertion emptied it (`NoneForgotten`). "At most"
and not "equal": a node that runs twice (a branch, a resumed yield) lowers its
successors twice. `Released` shows that a target whose in-degree passes 0 is
queued by the very edge that takes it there.

`RunAtMostOnce`, `DependenciesRunFirst` and `BranchesIsolated` are about the programs that are
`Proper`: a branch starts at a node where no other branch starts; nothing leads to the entry point;
a generated subgraph leads only to nodes that come with it. Nothing in the code demands any of the
three, and without any one of them TLC has a program of four nodes in which a node runs twice: a
fork that lists a branch twice; an entry point that a branch leads back to; a subgraph that gives a
waiting node one more way to be released. The invariant `RunInv` says, besides what is
registered (`Grown`): an in-degree is at least the number of edges nobody has walked, fork edges
included (`Floor`, here "at least": a node must not be released early); what is in the queue is
ready (`QueuedReady`), that is the entry point, or no first node of a branch and all that lead to it
are in `executed_`; a branch has run its first node and then only nodes of which a
predecessor ran in it (`BranchKnown`). The difficulty is that `executed_` learns of the last node of
a branch only. `Old` are the nodes that branches now over have run, `Lost` those of them
`executed_` does not know: `OldStays` says that each waits for ever, the first node of a branch because its
fork is executed, any other because one of its predecessors is in `Lost`. With `Counted` a ready node
that was not executed has run only as often as the run was resumed. `DependenciesFirst` follows from the same
invariant: what is taken from the queue is ready, what is taken in a branch is ready there. For
`BranchIsolation` the invariant `Apart` adds who wrote what: the author of a value has run, so the
snapshot of a fork holds no value of a first node of its branches, which run only afterwards, and a branch starts
from that snapshot and writes its own.

`JoinsLoseNothing == Spec => JoinLosesNothing` holds of every program. `ResultsTold`: there are as many
results as branches that are over, and each has the values the branch's first node writes.
A merge that found no conflict then has one version of each key at most, and keeps it (`MergedKeeps`).

**Worker pool.** `PoolTypes == Spec => []TypeOK` and `PoolImplemented == Spec => ImplementsPool`, for any
number of threads, clients, tasks and domains. `PoolInv` adds to the types: `state_` and the
owner's place go together (`OwnerInv`), a thread that left did so after the stop and with
no early task in the queue (`ExitInv`), the queue holds accepted tasks, each once
(`QueueInv`), two threads never hold one task and none is held and queued (`HoldInv`), an
accepted or started task is in the queue or with a thread (`KeptInv`), and what a client
is about to push is new (`ClientInv`). Each step then maps to one of `TaskPool` or to a stutter.

`LittleLeft == Spec => []FewLeftBehind`: from the moment a worker has found the queue empty
and left, the tasks in the queue and the clients about to push one are together no more than
there are clients (`LeftInv`), for nobody new gets past the test of `state_`.

**Session store.** `StoreTypes`, `RecordsSurvive == Spec => []AckedSurvives`, `ParentsKnown == Spec =>
[]NoOrphans` and `IndexAgrees == Spec => []MemoryMatchesFile`, for any number of command
threads, records, crashes and failures. The invariant `StoreInv` rests on two sets: what
no crash can take away (`Stable`: synced, spoilt, compacted away, or complete but for its
newline) and what a load could give now (`Known`: that, the line being written, and the one
of a call that threw with only the newline missing, `Refused`). `Stable` never shrinks, every acknowledged record is in it (`WrittenInv`), and a record of
`Known` has its parent in `Stable` (`ParentInv`), which is what a crash needs. The rest
ties the threads to it: one thread holds `write_mutex_` (`LockInv`), a line that is not
synced is that of the thread at `sync` (`LineInv`), node ids are unique within the index
and within a file (`KeyInv`), the index holds nothing the disk does not (`MemInv`), and
what `compact` collected is still what the index has of that branch (`SnapInv`).
`RenameKeeps` is the heart of it: whatever a compaction leaves out, it was allowed to.

**Fork-join, log writers, cognitive worker.** `ForkJoinProofs` proves `SuccessIsComplete` without
looking at who is subscribed to what.
`LoopInv` says that every event on its way with `from = "loop"` has the key of a branch
(`EventsKnown`), that each position is accepted while the pool is open before `run` waits and
is finished when the pool has closed (`TasksGiven`), and that from the wait to the merge a
branch has failed or there are as many keys as positions (`ResultsCounted`). `CountedAll` is
the counting argument: a subset of the branches' names with as many members as there are
positions is all of them, and the names differ. `CompleteBesideWorker == EventSpec =>
[]SuccessIsComplete` adds the cognitive worker: it emits only events of others
(`WorkerEmitsOthers`), of which the invariant says nothing, and leaves the rest alone.

`LogLosesNothing`, `LogInOrder` and `OneCallIsLate` come from one invariant, `LogInv`. Who is subscribed is
a function of where `run` is (`Subscribed`), so the dispatcher has copied at most one call of the
loop and has the writer last. The clock numbers the events and the queue has the last of them
(`Numbered`); an event log has received exactly those numbered up to `Handled`
(`Received`). What was received lies in exactly one of six places, once: the file, the
buffer, the hands of the flusher, of `flush_sync` and of `stop`, or what a closed file dropped
(`Apart`, `HandsEmpty`). When the drain of `stop` has ended with nothing left, `Handled` has reached what had
been emitted when it began (`Drains`); and as long as nobody calls `flush_sync` the places are in order
of time (`InTurn`).

`ToldInTurn == EventSpec => []TasksInTurn`: the nth event of a topic is of the nth task queued
(`InTheirTurn`), because those completed, the one in hand and those queued are together the list of
the accepted (`Waiting`); an evaluation follows the completion of its own task with nothing but a spawn or a
termination between (`Judged`); and the thread lives from its creation to its join (`Lives`), which makes the termination the
last word.

**Skills, timers and provider.** `SkillProofs` has invariants of `HostProgram`, one for each part of the composition, and
needs of the other parts only that they leave its variables alone (`NextProvider`, `NextChannel`,
`AroundKeeps`), and of the chat that it registers and cancels timers of its own (`ChatTimers`). `ProviderInv`: the count is 0 and no call counts, or it is 1 and one caller's
does; one caller at most holds the mutex to ask for the models; being notified (`NotifyCounts`) counts nobody. `ChannelInv`: the channel has one timer,
and that only while it is up; of its calls one is copied at most; and the counter is 1 exactly
while a poll is in progress. That the set of timers is finite is part of it, so that the calls
copied in one round are a sequence (`CollectKeeps`), and an enabled `Collect` cannot copy two
calls of one timer, for the ids ascend. `CapabilityInv`: the requests granted to the current
run are at most the steps counted, fewer while one is served, and runs to come have been
granted nothing; each grant is one the skill may ask for (`MayAsk`), and a call of the model is under
way only for a skill that may use it. `RespondKeeps` is the one step that grants.

`SkillInv` is that with what host and child know of each other. `Dialogue`: a request is in the pipe, in
the host's hands or answered, and while its child lives it is the statement the child is at.
`Closing`: who killed a child by the time the host decides, and what a flag of this run, a lost
status and the code decided on tell of it. `LeftOver`: a child of an earlier run was reaped, unless
that run threw. `Deadlines`: a copied callback that is not of this run's timer is of an earlier one, or the run
has expired. `HostSurvives`, `CodesTellWhy` and `StrandedOnlyBy` are conjuncts of it and `NothingLeft`
follows (`HostDiesOnlyThen`, `CodesAreTrue`, `StrandedOnlyThen`, `RunsLeaveNothing`).
`WorldIsProgram == WorldSpec => Spec` maps each step of a program with a backend to one of the
program or a stutter, so that all seven hold of it (`WorldKeeps`).

**Backend.** `BackendIsTold == WorldSpec => []ToldOnce`, for any threads, calls and names. `BackendInv`: no two
workflows have one run (`OneRun`); an answer is not newer than its workflow, and of the same age is the same
(`AnswersFit`); the signals looked at, those the poll has taken and those pending are together the
emitted ones in their order (`InLine`), and one that was expected has its handler while it waits; of the changes that a
stream saw, the last of a workflow is its `last_streamed_status` and equal ones have another between them
(`Seen`); and each is told, or one thread is about to tell it (`ToldOnceEach`).

**Chat.** `ChatStands` is the invariant of the chat in `HostProgram`, `ChatInv`, in four parts that need
nothing of each other. A stop (`AskerKnows`): the id it found is that of a turn not later than
its own, and what it then finds or misses is settled by where that turn is. The timer (`ChatTimed`):
the chat's one timer is the one its reader registered, the destructor has seen its id unless
it raced, and of its calls one is under way, before or after the destructor looked. The lines
(`QueueInv`): each line read is blank, done, dropped, in its queue, or in the hands of the reader or the
loop (`Somewhere`); the queues ascend (`Ordered`), so all lines of its kind before one that is handled are
done (`InTurn`); the counter is the two lengths, less one while the reader is between push and count
(`LinesCounted`). What it keeps (`StoreInv`): the answered turns of memory and of the file that the
records lack, not counting the one under way nor those up to `cut`, are at most two for each mishap, one fewer while a
record is torn (`Affordable`); what this launch recorded and has not lost is in the index, and on the main
branch a compaction is to blame for no turn of this launch (`IndexKnows`), so that what `Compacts` leaves out
is what `cut` counts; the file is a prefix of memory, and memory, the temporary file and the file, if whole, answer
all that was reported (`Filed`). Each property follows from its part, and
`WorldChats` has them beside a backend.

**Genomes, coordinator, plugins, agent, session.** `CommitsKept == Spec => []CommittedLoads`, for any writers, processes and number of versions.
`RegistryInv` says: one writer of a process is in the critical
section; what a commit has made so far are exactly the files of the directory it has chosen,
if no other process has chosen it; what was reported is stored, document and signature; and a
document names an older version as its parent. A version below which nothing is contested is
touched by no one but the commit that chose it, and the lineage of a stored version, followed
downwards (`LeastExists`), is stored.

`ToolsChecked == Spec => []ChecksBeforeTool`, for any tools, coordinators and calls.
`CoordinatorInv` adds to the property that the stack holds positions of calls and that `calls`
have their types; the proof turns "no check refused" (`FirstRefusal` is 0) into each of the
conditions (`ChecksHold`) and shows that nothing else of an agent touches a call.

`CodeStays == Spec => []PointsIntoCode`, for any plugins. `PluginInv` says that an entry of the list
names the mapping its file has now, and that there are as many handles as entries, or more, then
with a leak; so an entry is mapped (`ListedIsOpen`), a load gives a file that is open its old
mapping (`LoadSoStep`), and a mapping is undone only by the close that takes the last handle, which
belongs to an entry (`FinishHolds`, from `EntriesAppend` and `EntriesRemove`, which count). Nobody
falls without such a step (`FallStep`).

`AgentIsStored == Spec => []LivePersisted`, for any mutations and agents. `HarnessInv`: what waits for its commit is what
the mutation will make of the agent (`MutationWaits`), which no other step changes meanwhile; what a
commit reported is in the history (`Reported`); so after a success the version reported holds the prompt and
tools of the agent (`AgentIs`), and the snapshot for the undo is the agent before it. A listed tool can be
called unless it was taken by a mutation that was undone or stood in the list twice (`Callable`). The tools a mutation
leaves are a fold of erasures, and what such a fold removes and keeps is shown by induction over the
positions of the list (`IterationExists`, `LeastExists`), without a library theorem that takes an operator.

`TrailIsTrue == Spec => []TrailTellsOutcome`, for any setups, whitelist and number of iterations.
`TrailInv` says which topics a reflection has left: the events of one reflection stand together
(`Tells`), those of each that is over have the topics of one of four lists (`WithoutSuccess`), and
those of the last are what the place of the loop says (`ReflectionsTell`). A step of the loop appends
to the last only (`ReflectionGrows`), and what `GepaCommits` reports is stored because the commit of its
fork has reported it (`Reported`). What the governor answers to the others follows from its
gates (`GovernorAnswers`). `CallsTell` adds that a call on the stack is still running: the calls on the
stack are of different tools, so the one that ends stands on it once (`EndTells`).

`SessionIsEvolution == SessionSpec => Spec` carries these five properties over to sessions
(`SessionKeeps`). `RecordsAreOfTheirContexts == SessionSpec => []RecordsFit`: `SessionInv` counts. By
`phase`, there are as many outputs as contexts begun (`TurnsFit`); each is empty or of its own context, and is empty
until the second turn comes, whose response it then is (`OutputsFit`); the verdicts are
no more than the contexts compared and none is of a context before its place (`VerdictsFit`), and with
nothing contested the version in `base` stores the prompt the agent has (`BaseFits`), so that a second
turn runs with it (`PromptsFit`).

**Model-checked only.** Liveness (`Returns`, `EarlyTasksFinish`, `WaitsEnd` and `CallsEnd`),
which is out of the prover's reach, and ENABLED with it. Every safety property the runs check is proved.
The violated properties are refuted by TLC.

## 5. Not modelled

* `TopoScheduler::execute_parallel` and `execute_dag_loop`: a second engine whose threads share
  plain containers without locks. What it does is undefined as soon as two nodes of a wave
  finish together, so there is no safety property for a model of it to keep.
* The session registry, whose `destroy` can delete a session in use: what follows is a use after
  deletion, which no state of a model describes.
* `CallbackStreamHandle`, `RateLimitDecorator` and the budget counters: the first two are a wait
  and a counter over wall-clock time of a kind other modules show, the last are compared with
  limits and nothing else.
* The tree search: sequential and numeric; of its dealings with the governor `Evolution` has the
  answers. The compiler of skills and the materializer produce text.
* Parser, the rest of the engine, prompts, distillation, trajectory export, trace export, the
  loader of the library, process back ends, adapters of language models, command-line examples: text,
  I/O and calls in sequence. What the parser can produce is the constant `Graphs` of
  `TopoScheduler`.
* Of `chat_session.cpp` turns, persistence, input, cancellation and the end are modelled; the rest
  prints and forwards calls. `session_manager.cpp` has `migrate_legacy_json` and the opening of a second session in
  one process besides.
* Most of the repository's lines are declarations in headers, comments, the making of text and JSON,
  command-line programs and adapters to operating system and network. The modules cover the parts
  whose state several threads, processes or launches share, which is a small share of the lines.

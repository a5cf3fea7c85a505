------------------------------ MODULE ForkJoin ------------------------------
(***************************************************************************)
(* ForkJoinLoop::run (include/agenticdsl/pdk/agent_loops/fork_join_loop.h) *)
(* on a bus that a log writer and other pools share: it subscribes to the  *)
(* events of its worker pool, submits one task per branch, waits on a      *)
(* condition variable until the callbacks have stored enough results, and  *)
(* merges them.                                                            *)
(*                                                                         *)
(* The pool is what TaskPool promises of it, which WorkerPool is shown to  *)
(* implement; its tasks are the positions in the list of branches.  The    *)
(* handler of a branch cannot fail.  One loop runs once (a second run      *)
(* throws while it registers the handler).                                 *)
(***************************************************************************)
EXTENDS LogWriter

CONSTANTS
  Branch,       \* the names of branches, which are the output keys of their tasks
  Setups        \* what to start from: whether run is called, its list of branches, the writer
                \* on the bus and, a bound, the events that others emit

Started == "domain.task.started"
Completed == "domain.task.completed"
Failed == "domain.task.failed"
Spoken == "conversation.user_message"

ASSUME LoopAssumption ==
  /\ {Started, Completed, Failed, Spoken} \subseteq Topic
  /\ Setups # {} /\ Setups \subseteq
       [runs : BOOLEAN, branches : Seq(Branch), kind : Kind,
        others : Seq([topic : Topic, key : Branch])]
  /\ Body = [from : {"loop", "other"}, key : Branch]
  /\ Subscriber = {Writer, "on_completed", "on_failed"}
  /\ Writer \notin {"on_completed", "on_failed"}

VARIABLES
  branches,   \* the argument of run
  loop,       \* where run is and the position it is at
  cancelled,  \* token.stop_requested()
  results,    \* Tracker::results: what came last for each key
  anyFailed,  \* Tracker::any_failed
  awake,      \* whether run has been notified since it found the predicate of its wait false
  result,     \* of run: success, and what it merged for each branch
  phase, fate, early,  \* of the pool
  others,     \* the events that others still emit
  crosstalk   \* history: the tracker took an event of another pool

loopVars == <<branches, loop, cancelled, results, anyFailed, awake, result>>
poolVars == <<phase, fate, early>>
allVars == <<vars, loopVars, poolVars, others, crosstalk>>

Task == DOMAIN branches
Positions == UNION {DOMAIN s.branches : s \in Setups}
Pool == INSTANCE TaskPool WITH Task <- Positions

Nothing == [x \in {} |-> None]
At(pc) == [pc |-> pc, at |-> 1]

Init ==
  /\ BusInit /\ LogInit
  /\ Pool!Init
  /\ \E s \in Setups : /\ branches = s.branches /\ kind = s.kind /\ others = s.others
                      /\ loop = At(IF s.runs THEN "called" ELSE "done")
  /\ cancelled = FALSE
  /\ results = Nothing
  /\ anyFailed = FALSE
  /\ awake = TRUE
  /\ result = [success |-> FALSE, merged |-> Nothing]
  /\ crosstalk = FALSE

\* The constructor of the writer, which comes first, subscribes it to "*".
Attached == kind = "off" \/ wild = <<Writer>>
SubscribeWriter ==
  /\ ~Attached
  /\ SubscribeAll(Writer)
  /\ UNCHANGED <<logVars, loopVars, poolVars, others, crosstalk>>

-----------------------------------------------------------------------------
(* Those who use the bus besides: other pools and the conversation.        *)

OtherEmits ==
  /\ Attached /\ others # <<>>
  /\ Emit(Head(others).topic, [from |-> "other", key |-> Head(others).key])
  /\ others' = Tail(others)
  /\ UNCHANGED <<logVars, loopVars, poolVars, crosstalk>>

Cancel ==
  /\ loop.pc # "done" /\ ~cancelled
  /\ cancelled' = TRUE
  /\ UNCHANGED <<vars, branches, loop, results, anyFailed, awake, result, poolVars, others,
                 crosstalk>>

-----------------------------------------------------------------------------
(* The workers of the pool.                                                *)

WorkerStarts(t) ==
  /\ Pool!Start(t)
  /\ Emit(Started, [from |-> "loop", key |-> branches[t]])
  /\ UNCHANGED <<logVars, loopVars, others, crosstalk>>

WorkerFinishes(t) ==
  /\ Pool!Finish(t)
  /\ Emit(Completed, [from |-> "loop", key |-> branches[t]])
  /\ UNCHANGED <<logVars, loopVars, others, crosstalk>>

Workers == \E t \in Task : WorkerStarts(t) \/ WorkerFinishes(t)

-----------------------------------------------------------------------------
(* The callbacks.                                                          *)

\* The tracker's map with the result under the key.
WithResult(key, r) ==
  [k \in DOMAIN results \cup {key} |-> IF k = key THEN r ELSE results[k]]

\* The event is stored under its key, and run is notified.
Store(topic) ==
  /\ LET e == dispatch.event
     IN  /\ results' = WithResult(e.body.key, [topic |-> topic, from |-> e.body.from])
         /\ crosstalk' = (crosstalk \/ e.body.from = "other")
  /\ awake' = TRUE
  /\ UNCHANGED <<logVars, branches, loop, cancelled, result, poolVars, others>>

OnCompleted ==
  /\ Calls("on_completed")
  /\ Store(Completed)
  /\ UNCHANGED anyFailed

OnFailed ==
  /\ Calls("on_failed")
  /\ Store(Failed)
  /\ anyFailed' = TRUE

-----------------------------------------------------------------------------
(* run.                                                                    *)

Goes(pc) == loop' = At(pc)
Quiet == UNCHANGED <<branches, cancelled, results, anyFailed>>

\* An empty list, or a token already stopped.
RunRefused ==
  /\ loop.pc = "called" /\ Attached
  /\ branches = <<>> \/ cancelled
  /\ Goes("done")
  /\ Quiet
  /\ UNCHANGED <<vars, awake, result, poolVars, others, crosstalk>>

RunSubscribes ==
  /\ loop.pc = "called" /\ Attached
  /\ branches # <<>> /\ ~cancelled
  /\ Subscribe("on_completed", Completed)
  /\ Goes("subscribe")
  /\ Quiet
  /\ UNCHANGED <<logVars, awake, result, poolVars, others, crosstalk>>

RunSubscribesFailed ==
  /\ loop.pc = "subscribe"
  /\ Subscribe("on_failed", Failed)
  /\ Goes("start")
  /\ Quiet
  /\ UNCHANGED <<logVars, awake, result, poolVars, others, crosstalk>>

RunStarts ==
  /\ loop.pc = "start"
  /\ Pool!Open
  /\ Goes("submit")
  /\ Quiet
  /\ UNCHANGED <<vars, awake, result, others, crosstalk>>

RunSubmits ==
  /\ loop.pc = "submit"
  /\ Pool!Accept(loop.at)
  /\ loop' = IF loop.at < Len(branches) THEN [loop EXCEPT !.at = @ + 1] ELSE At("wait")
  /\ Quiet
  /\ UNCHANGED <<vars, awake, result, others, crosstalk>>

\* The predicate of the wait.
Enough == Cardinality(DOMAIN results) >= Len(branches) \/ anyFailed \/ cancelled

\* Nobody notifies when the token is stopped.
RunSleeps ==
  /\ loop.pc = "wait" /\ awake /\ ~Enough
  /\ awake' = FALSE
  /\ UNCHANGED <<vars, branches, loop, cancelled, results, anyFailed, result, poolVars, others,
                 crosstalk>>

\* Out of the wait, the token is looked at again: it decides whether there is a merge.
RunWakes ==
  /\ loop.pc = "wait" /\ awake /\ Enough
  /\ \/ ~cancelled /\ Goes("stop")
     \/ cancelled /\ Goes("abandon")
  /\ Quiet
  /\ UNCHANGED <<vars, awake, result, poolVars, others, crosstalk>>

\* pool_->stop() asks the threads to stop and joins them.
RunStopsPool ==
  /\ loop.pc \in {"stop", "abandon"}
  /\ Pool!Close
  /\ Goes(IF loop.pc = "stop" THEN "join" ELSE "abandoned")
  /\ Quiet
  /\ UNCHANGED <<vars, awake, result, others, crosstalk>>

\* Mutant of RunJoins: the workers are not waited for.
RunJoinsNot ==
  /\ loop.pc \in {"join", "abandoned"}
  /\ Goes(IF loop.pc = "join" THEN "unsubscribe" ELSE "leave")
  /\ Quiet
  /\ UNCHANGED <<vars, awake, result, poolVars, others, crosstalk>>

RunJoins ==
  /\ loop.pc \in {"join", "abandoned"}
  /\ Pool!Closed
  /\ Goes(IF loop.pc = "join" THEN "unsubscribe" ELSE "leave")
  /\ Quiet
  /\ UNCHANGED <<vars, awake, result, others, crosstalk>>

RunUnsubscribes ==
  /\ loop.pc \in {"unsubscribe", "leave"}
  /\ Unsubscribe("on_completed")
  /\ Goes(IF loop.pc = "unsubscribe" THEN "unsubscribe_failed" ELSE "leave_failed")
  /\ Quiet
  /\ UNCHANGED <<logVars, awake, result, poolVars, others, crosstalk>>

RunUnsubscribesFailed ==
  /\ loop.pc \in {"unsubscribe_failed", "leave_failed"}
  /\ Unsubscribe("on_failed")
  /\ Goes(IF loop.pc = "unsubscribe_failed" THEN "merge" ELSE "done")
  /\ Quiet
  /\ UNCHANGED <<logVars, awake, result, poolVars, others, crosstalk>>

\* The branches whose last event is a success.
MergedKeys ==
  {k \in {branches[t] : t \in Task} \cap DOMAIN results : results[k].topic = Completed}

\* In the order of the list; a key that comes twice has one result.
RunMerges ==
  /\ loop.pc = "merge"
  /\ result' = [success |-> ~anyFailed, merged |-> [k \in MergedKeys |-> results[k].from]]
  /\ Goes("done")
  /\ Quiet
  /\ UNCHANGED <<vars, awake, poolVars, others, crosstalk>>

Run == \/ RunRefused \/ RunSubscribes \/ RunSubscribesFailed \/ RunStarts \/ RunSubmits
       \/ RunSleeps \/ RunWakes \/ RunStopsPool \/ RunJoins \/ RunUnsubscribes
       \/ RunUnsubscribesFailed \/ RunMerges

-----------------------------------------------------------------------------
BusSteps == Dispatcher /\ UNCHANGED <<logVars, loopVars, poolVars, others, crosstalk>>
DrainSteps == DrainCheck /\ UNCHANGED <<logVars, loopVars, poolVars, others, crosstalk>>
Callbacks == \/ OnBusEvent /\ UNCHANGED <<loopVars, poolVars, others, crosstalk>>
             \/ OnCompleted \/ OnFailed
FlushSteps == Flusher /\ UNCHANGED <<loopVars, poolVars, others, crosstalk>>
SyncSteps == Syncer /\ UNCHANGED <<loopVars, poolVars, others, crosstalk>>
CloseSteps == Closer /\ UNCHANGED <<loopVars, poolVars, others, crosstalk>>
UserSteps == /\ Attached /\ kind # "off"
             /\ SyncTake \/ SyncRotate \/ StopCall
             /\ UNCHANGED <<loopVars, poolVars, others, crosstalk>>

Next ==
  \/ SubscribeWriter
  \/ BusSteps \/ DrainSteps \/ Callbacks
  \/ FlushSteps \/ SyncSteps \/ CloseSteps \/ UserSteps
  \/ OtherEmits \/ Cancel \/ Run \/ Workers

Spec == Init /\ [][Next]_allVars

\* Threads run.  Nobody has to call stop or flush_sync, to cancel or to emit anything else.
Fairness ==
  /\ WF_allVars(BusSteps \/ Callbacks) /\ WF_allVars(DrainSteps)
  /\ WF_allVars(FlushSteps) /\ WF_allVars(SyncSteps) /\ WF_allVars(CloseSteps)
  /\ WF_allVars(SubscribeWriter \/ Run)
  /\ WF_allVars(Workers)

-----------------------------------------------------------------------------
(* Properties.                                                             *)

(* A run that reports success has merged the result of every branch, each   *)
(* from its own task, and has left no task unfinished -- unless another     *)
(* pool on the same bus emitted a task event that the tracker took for one  *)
(* of its own: the number of results is all that run waits for.  The        *)
(* results are counted by key: a list that names a branch twice succeeds    *)
(* by such an event only.                                                   *)
SuccessIsComplete ==
  loop.pc = "done" /\ result.success =>
    /\ \A t \in Task : fate[t] = "finished"
    /\ \/ crosstalk
       \/ /\ IsInjective(branches)
          /\ \A t \in Task : /\ branches[t] \in DOMAIN result.merged
                            /\ result.merged[branches[t]] = "loop"

Mine == {"on_completed", "on_failed"}

(* When run has returned neither callback is subscribed, and at most one    *)
(* call is still to come: that of the event which was being dispatched      *)
(* while run unsubscribed.                                                  *)
OneLateCallback ==
  loop.pc = "done" =>
    /\ \A t \in Topic : ToSet(exact[t]) \cap Mine = {}
    /\ Cardinality({i \in DOMAIN dispatch.calls : dispatch.calls[i] \in Mine}) <= 1

(* Both calls that wait for others return.  A run that waits does: the last *)
(* completion wakes it, whatever it was doing when the events came, and a   *)
(* cancellation is noticed at the latest then.  (Not one whose list names a *)
(* branch twice: it waits for as many keys as there are positions.)  And a  *)
(* stop of the writer does, beside it on the same bus.                      *)
CallsReturn ==
  /\ loop.pc = "wait" /\ IsInjective(branches) ~> loop.pc = "done"
  /\ StopReturns
=============================================================================

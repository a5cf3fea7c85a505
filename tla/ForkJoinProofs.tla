--------------------------- MODULE ForkJoinProofs ---------------------------
(***************************************************************************)
(* What a fork-join loop promises with its success, and a log writer with  *)
(* its stop, for any branches, any writer on the bus, anything that others *)
(* emit and any cognitive worker beside them.                              *)
(*                                                                         *)
(* The loop: the argument does not look at who is subscribed to what.  A   *)
(* success has counted as many keys as there are positions, every key that *)
(* came from the loop's own pool is the name of a branch, and the pool has *)
(* closed (LoopInv).                                                       *)
(*                                                                         *)
(* The writer: the events have consecutive causal times, so that what the  *)
(* dispatcher has handled is a number, Handled.  What was received is in   *)
(* one place of six, and who holds something is told by where the three    *)
(* threads are; a drain that ends has let Handled come up to the clock of  *)
(* the call of stop (LogInv).                                              *)
(*                                                                         *)
(* The worker: what it says is told apart by topic, and the nth event of a *)
(* topic is of the nth task that was queued (TurnInv).                     *)
(***************************************************************************)
EXTENDS EventProgram, SequenceLemmas, FiniteSetTheorems

Keys == {branches[t] : t \in Task}
Known(e) == e \in Event /\ (e.body.from = "loop" => e.body.key \in Keys)

Typed ==
  /\ branches \in Seq(Branch) /\ Task \subseteq Positions
  /\ clock \in Nat /\ others \in Seq([topic : Topic, key : Branch])
  /\ queue \in Seq(Event)

EventsKnown ==
  /\ \A i \in 1..Len(queue) : Known(queue[i])
  /\ DOMAIN dispatch = {"pc", "event", "calls"}
  /\ dispatch.pc # "wait" => Known(dispatch.event)

\* Accepted while the pool was open.
Given(t) == fate[t] \in {"accepted", "started", "finished"} /\ t \in early

TasksGiven ==
  /\ DOMAIN loop = {"pc", "at"}
  /\ fate \in [Positions -> {"new", "refused", "accepted", "started", "finished"}]
  /\ loop.pc \in {"subscribe", "start"} => branches # <<>>
  /\ loop.pc = "submit" => /\ phase = "open" /\ loop.at \in Task
                           /\ \A t \in Task : t < loop.at => Given(t)
  /\ loop.pc \in {"wait", "stop", "join"} => \A t \in Task : Given(t)
  /\ loop.pc \in {"unsubscribe", "unsubscribe_failed", "merge"} =>
       \A t \in Task : fate[t] = "finished"

\* What the loop counts are the keys of its own branches, unless another pool's event came.
ResultsCounted ==
  /\ IsFiniteSet(DOMAIN results)
  /\ ~crosstalk => /\ DOMAIN results \subseteq Keys
                   /\ \A k \in DOMAIN results : results[k].from = "loop"
  /\ ~anyFailed => \A k \in DOMAIN results : results[k].topic = Completed
  /\ loop.pc \in {"stop", "join", "unsubscribe", "unsubscribe_failed", "merge"} =>
       anyFailed \/ Cardinality(DOMAIN results) >= Len(branches)

LoopInv ==
  /\ Typed /\ EventsKnown /\ TasksGiven /\ ResultsCounted
  /\ loop.pc # "done" => ~result.success
  /\ SuccessIsComplete

-----------------------------------------------------------------------------
\* An event more in the queue.
LEMMA EmitKnown ==
  ASSUME Typed, EventsKnown, UNCHANGED branches,
         NEW topic \in Topic, NEW body \in Body, Emit(topic, body),
         body.from = "loop" => body.key \in Keys
  PROVE  clock' \in Nat /\ queue' \in Seq(Event) /\ EventsKnown'
<1>1. PICK e : e = [topic |-> topic, body |-> body, time |-> clock + 1]
  OBVIOUS
<1>2. e \in Event /\ Known(e) /\ Keys' = Keys
  BY <1>1 DEF Typed, Event, Known, Keys, Task
<1>3. queue' = Append(queue, e) /\ clock' = clock + 1 /\ dispatch' = dispatch
  BY <1>1 DEF Emit
<1>4. queue \in Seq(Event) /\ clock \in Nat
  BY DEF Typed
<1>5. /\ queue' \in Seq(Event) /\ Len(queue') = Len(queue) + 1
      /\ \A i \in 1..Len(queue) : queue'[i] = queue[i]
      /\ queue'[Len(queue) + 1] = e
  BY <1>2, <1>3, <1>4, AppendProperties
<1>6. ASSUME NEW i \in 1..Len(queue')
      PROVE  Known(queue'[i])
  <2>1. i \in 1..Len(queue) \/ i = Len(queue) + 1
    BY <1>4, <1>5
  <2> QED
    BY <1>2, <1>5, <2>1 DEF EventsKnown
<1>7. \A x : Known(x)' <=> Known(x)
  BY <1>2 DEF Known
<1> QED
  BY <1>2, <1>3, <1>4, <1>5, <1>6, <1>7 DEF EventsKnown, Known

\* The dispatcher and the subscriptions make no events.
LEMMA BusKnown ==
  ASSUME Typed, EventsKnown, UNCHANGED <<branches, clock>>,
         \/ UNCHANGED <<queue, dispatch>>
         \/ DispatchTake
         \/ UNCHANGED queue /\ \E calls : dispatch' = [pc |-> "call", event |-> dispatch.event, calls |-> calls]
                            /\ dispatch.pc # "wait"
         \/ UNCHANGED queue /\ \E calls : dispatch' = [dispatch EXCEPT !.calls = calls]
         \/ UNCHANGED queue /\ DispatchDone
  PROVE  clock' \in Nat /\ queue' \in Seq(Event) /\ EventsKnown'
<1>1. Keys' = Keys /\ clock' \in Nat /\ queue \in Seq(Event)
  BY DEF Typed, Keys, Task
<1>2. CASE UNCHANGED <<queue, dispatch>>
  BY <1>1, <1>2 DEF EventsKnown, Known
<1>3. CASE DispatchTake
  <2>1. /\ dispatch' = [pc |-> "copy", event |-> Head(queue), calls |-> <<>>]
        /\ queue' = Tail(queue) /\ queue # <<>>
    BY <1>3 DEF DispatchTake
  <2>2. /\ queue' \in Seq(Event) /\ Len(queue') = Len(queue) - 1 /\ Len(queue) \in Nat \ {0}
        /\ \A i \in 1..Len(queue') : queue'[i] = queue[i+1]
        /\ Head(queue) = queue[1]
    BY <1>1, <2>1, HeadTailProperties
  <2>3. \A i \in 1..Len(queue') : i + 1 \in 1..Len(queue)
    BY <2>2
  <2>4. \A i \in 1..Len(queue') : Known(queue'[i])
    BY <2>2, <2>3 DEF EventsKnown
  <2>5. Known(Head(queue))
    BY <2>2 DEF EventsKnown
  <2>6. DOMAIN dispatch' = {"pc", "event", "calls"} /\ dispatch'.event = Head(queue)
    BY <2>1
  <2> QED
    BY <1>1, <2>2, <2>4, <2>5, <2>6 DEF EventsKnown, Known
<1>4. ASSUME UNCHANGED queue, NEW calls, dispatch.pc # "wait",
             dispatch' = [pc |-> "call", event |-> dispatch.event, calls |-> calls]
      PROVE  EventsKnown'
  BY <1>1, <1>4 DEF EventsKnown, Known
<1>5. ASSUME UNCHANGED queue, NEW calls, dispatch' = [dispatch EXCEPT !.calls = calls]
      PROVE  EventsKnown'
  <2>1. DOMAIN dispatch' = DOMAIN dispatch /\ dispatch'.event = dispatch.event /\ dispatch'.pc = dispatch.pc
    BY <1>5 DEF EventsKnown
  <2> QED
    BY <1>1, <1>5, <2>1 DEF EventsKnown, Known
<1>6. CASE UNCHANGED queue /\ DispatchDone
  BY <1>1, <1>6 DEF EventsKnown, Known, DispatchDone
<1> QED
  BY <1>1, <1>2, <1>3, <1>4, <1>5, <1>6

\* A step of the bus or of the writer: run, the tracker and the pool are as they were.
LEMMA OutsideKeeps ==
  ASSUME LoopInv, clock' \in Nat, queue' \in Seq(Event), EventsKnown',
         others' \in Seq([topic : Topic, key : Branch]),
         UNCHANGED <<branches, loop, results, anyFailed, result, phase, fate, early, crosstalk>>
  PROVE  LoopInv'
<1>1. Task' = Task /\ Keys' = Keys
  BY DEF Task, Keys
<1>2. Typed' /\ TasksGiven' /\ ResultsCounted'
  BY <1>1 DEF LoopInv, Typed, TasksGiven, Given, ResultsCounted
<1>3. SuccessIsComplete'
  BY <1>1 DEF LoopInv, SuccessIsComplete
<1> QED
  BY <1>2, <1>3 DEF LoopInv

LEMMA AroundKeeps ==
  ASSUME LoopInv,
         \/ SubscribeWriter \/ BusSteps \/ DrainSteps
         \/ OnBusEvent /\ UNCHANGED <<loopVars, poolVars, others, crosstalk>>
         \/ FlushSteps \/ SyncSteps \/ CloseSteps \/ UserSteps
         \/ OtherEmits \/ Cancel \/ UNCHANGED allVars
  PROVE  LoopInv'
<1>1. UNCHANGED <<branches, loop, results, anyFailed, result, phase, fate, early, crosstalk>>
  BY DEF SubscribeWriter, BusSteps, DrainSteps, FlushSteps, SyncSteps, CloseSteps, UserSteps,
         OtherEmits, Cancel, allVars, loopVars, poolVars
<1>2. Typed /\ EventsKnown
  BY DEF LoopInv
<1>3. CASE OtherEmits
  <2>1. PICK e : e = Head(others)
    OBVIOUS
  <2>2. /\ e \in [topic : Topic, key : Branch]
        /\ others' \in Seq([topic : Topic, key : Branch])
    BY <1>2, <1>3, <2>1, HeadTailProperties DEF OtherEmits, Typed
  <2>3. PICK body : body = [from |-> "other", key |-> e.key]
    OBVIOUS
  <2>4. body \in Body /\ body.from # "loop" /\ e.topic \in Topic
    BY <2>2, <2>3, LoopAssumption
  <2>5. Emit(e.topic, body)
    BY <1>3, <2>1, <2>3 DEF OtherEmits
  <2> QED
    BY <1>1, <1>2, <2>2, <2>4, <2>5, EmitKnown, OutsideKeeps
<1>4. CASE \/ SubscribeWriter \/ BusSteps \/ DrainSteps
           \/ OnBusEvent /\ UNCHANGED <<loopVars, poolVars, others, crosstalk>>
           \/ FlushSteps \/ SyncSteps \/ CloseSteps \/ UserSteps \/ Cancel \/ UNCHANGED allVars
  <2>1. clock' = clock /\ others' = others
    BY <1>4 DEF SubscribeWriter, SubscribeAll, BusSteps, Dispatcher, DispatchTake, DispatchCopy,
         DispatchDone, DrainSteps, DrainCheck, OnBusEvent, Calls, FlushSteps, Flusher, FlushEnter,
         FlushTake, FlushCheck, FlushWrite, SyncSteps, Syncer, SyncNothing, SyncWrite, SyncReopen,
         CloseSteps, Closer, StopJoin, StopDrain, DrainCall, StopTake, StopWrite, StopClose,
         UserSteps, SyncTake, SyncRotate, StopCall, Cancel, allVars, vars, busVars
  <2>2. \/ UNCHANGED <<queue, dispatch>>
        \/ BusSteps
        \/ OnBusEvent
    BY <1>4 DEF SubscribeWriter, SubscribeAll, DrainSteps, DrainCheck, FlushSteps, Flusher,
         FlushEnter, FlushTake, FlushCheck, FlushWrite, SyncSteps, Syncer, SyncNothing, SyncWrite,
         SyncReopen, CloseSteps, Closer, StopJoin, StopDrain, DrainCall, StopTake, StopWrite,
         StopClose, UserSteps, SyncTake, SyncRotate, StopCall, Cancel, allVars, vars, busVars
  <2>3. CASE BusSteps
    BY <1>1, <1>2, <2>1, <2>3, BusKnown, OutsideKeeps DEF BusSteps, Dispatcher, DispatchCopy,
       DispatchDone, LoopInv, Typed
  <2>4. CASE OnBusEvent
    BY <1>1, <1>2, <2>1, <2>4, BusKnown, OutsideKeeps DEF OnBusEvent, Calls, LoopInv, Typed
  <2>5. CASE UNCHANGED <<queue, dispatch>>
    BY <1>1, <1>2, <2>1, <2>5, BusKnown, OutsideKeeps DEF LoopInv, Typed
  <2> QED
    BY <2>2, <2>3, <2>4, <2>5
<1> QED
  BY <1>3, <1>4

-----------------------------------------------------------------------------
LEMMA WorkersKeep ==
  ASSUME LoopInv, Workers
  PROVE  LoopInv'
<1>1. PICK t \in Task : WorkerStarts(t) \/ WorkerFinishes(t)
  BY DEF Workers
<1>2. UNCHANGED <<branches, loop, results, anyFailed, result, early, crosstalk, others, phase>>
  BY <1>1 DEF WorkerStarts, WorkerFinishes, loopVars, Pool!Start, Pool!Finish
<1>3. Task' = Task /\ Keys' = Keys /\ t \in Positions
  BY <1>2 DEF Task, Keys, LoopInv, Typed
<1>4. clock' \in Nat /\ queue' \in Seq(Event) /\ EventsKnown'
  <2>1. PICK body : body = [from |-> "loop", key |-> branches[t]]
    OBVIOUS
  <2>2. branches[t] \in Branch
    BY DEF LoopInv, Typed, Task
  <2>3. body \in Body /\ body.key \in Keys /\ Started \in Topic /\ Completed \in Topic
    BY <2>1, <2>2, LoopAssumption DEF Keys
  <2>4. Emit(Started, body) \/ Emit(Completed, body)
    BY <1>1, <2>1 DEF WorkerStarts, WorkerFinishes
  <2> QED
    BY <1>2, <2>3, <2>4, EmitKnown DEF LoopInv
<1>5. \/ fate[t] = "accepted" /\ fate' = [fate EXCEPT ![t] = "started"]
      \/ fate[t] = "started" /\ fate' = [fate EXCEPT ![t] = "finished"]
  BY <1>1 DEF WorkerStarts, WorkerFinishes, Pool!Start, Pool!Finish
<1>6. /\ fate' \in [Positions -> {"new", "refused", "accepted", "started", "finished"}]
      /\ \A u \in Task : Given(u) => Given(u)'
      /\ \A u \in Task : fate[u] = "finished" => fate'[u] = "finished"
  BY <1>2, <1>3, <1>5 DEF LoopInv, TasksGiven, Typed, Given
<1>7. TasksGiven'
  BY <1>2, <1>3, <1>6 DEF LoopInv, TasksGiven
<1>8. Typed' /\ ResultsCounted'
  BY <1>2, <1>3, <1>4 DEF LoopInv, Typed, ResultsCounted
<1>9. SuccessIsComplete'
  BY <1>2, <1>3, <1>6 DEF LoopInv, SuccessIsComplete
<1> QED
  BY <1>2, <1>4, <1>7, <1>8, <1>9 DEF LoopInv

\* A callback stores what it is given: a key of the loop's own, or one from elsewhere.
LEMMA CallbacksKeep ==
  ASSUME LoopInv, OnCompleted \/ OnFailed
  PROVE  LoopInv'
<1>1. PICK topic \in {Completed, Failed} :
        /\ Store(topic)
        /\ topic = Completed => anyFailed' = anyFailed
        /\ topic = Failed => anyFailed'
  BY DEF OnCompleted, OnFailed, Completed, Failed
<1>2. UNCHANGED <<branches, loop, result, phase, fate, early, others>>
  BY <1>1 DEF Store, poolVars
<1>3. dispatch.pc = "call" /\ UNCHANGED <<clock, queue>>
      /\ \E calls : dispatch' = [dispatch EXCEPT !.calls = calls]
  BY DEF OnCompleted, OnFailed, Calls
<1>4. Task' = Task /\ Keys' = Keys
  BY <1>2 DEF Task, Keys
<1>5. clock' \in Nat /\ queue' \in Seq(Event) /\ EventsKnown'
  BY <1>2, <1>3, BusKnown DEF LoopInv, Typed
<1>6. PICK body : body = dispatch.event.body
  OBVIOUS
<1>7. body.from \in {"loop", "other"} /\ (body.from = "loop" => body.key \in Keys)
  BY <1>3, <1>6, LoopAssumption DEF LoopInv, EventsKnown, Known, Event
<1>8. PICK stored : stored = [topic |-> topic, from |-> body.from]
  OBVIOUS
<1>9. /\ results' = WithResult(body.key, stored)
      /\ crosstalk' = (crosstalk \/ body.from = "other")
  BY <1>1, <1>6, <1>8 DEF Store
<1>10. /\ DOMAIN results' = DOMAIN results \cup {body.key}
       /\ results'[body.key] = stored
       /\ \A k \in DOMAIN results : k # body.key => results'[k] = results[k]
  BY <1>9 DEF WithResult
<1>11. Typed' /\ TasksGiven'
  BY <1>2, <1>4, <1>5 DEF LoopInv, Typed, TasksGiven, Given
<1>12. ResultsCounted'
  <2>1. /\ IsFiniteSet(DOMAIN results) /\ Cardinality(DOMAIN results) \in Nat
        /\ IsFiniteSet(DOMAIN results') /\ Cardinality(DOMAIN results') \in Nat
        /\ Cardinality(DOMAIN results) <= Cardinality(DOMAIN results')
    <3>1. IsFiniteSet(DOMAIN results)
      BY DEF LoopInv, ResultsCounted
    <3>2. IsFiniteSet(DOMAIN results')
      BY <1>10, <3>1, FS_AddElement
    <3>3. DOMAIN results \subseteq DOMAIN results'
      BY <1>10
    <3> QED
      BY <3>1, <3>2, <3>3, FS_Subset, FS_CardinalityType
  <2>2. ~crosstalk' => /\ DOMAIN results' \subseteq Keys'
                       /\ \A k \in DOMAIN results' : results'[k].from = "loop"
    <3> SUFFICES ASSUME ~crosstalk'
                 PROVE  /\ DOMAIN results' \subseteq Keys'
                        /\ \A k \in DOMAIN results' : results'[k].from = "loop"
      OBVIOUS
    <3>1. body.from = "loop" /\ ~crosstalk
      BY <1>7, <1>9
    <3>2. stored.from = "loop" /\ body.key \in Keys
      BY <1>7, <1>8, <3>1
    <3>3. DOMAIN results \subseteq Keys /\ \A k \in DOMAIN results : results[k].from = "loop"
      BY <3>1 DEF LoopInv, ResultsCounted
    <3> QED
      BY <1>4, <1>10, <3>2, <3>3
  <2>3. ~anyFailed' => \A k \in DOMAIN results' : results'[k].topic = Completed
    <3> SUFFICES ASSUME ~anyFailed'
                 PROVE  \A k \in DOMAIN results' : results'[k].topic = Completed
      OBVIOUS
    <3>1. topic = Completed /\ ~anyFailed
      BY <1>1
    <3>2. stored.topic = Completed /\ \A k \in DOMAIN results : results[k].topic = Completed
      BY <1>8, <3>1 DEF LoopInv, ResultsCounted
    <3> QED
      BY <1>10, <3>2
  <2>4. anyFailed => anyFailed'
    BY <1>1
  <2>5. Len(branches') = Len(branches) /\ Len(branches) \in Nat
    BY <1>2 DEF LoopInv, Typed
  <2>6. loop.pc \in {"stop", "join", "unsubscribe", "unsubscribe_failed", "merge"} =>
          anyFailed' \/ Cardinality(DOMAIN results') >= Len(branches)
    BY <2>1, <2>4, <2>5 DEF LoopInv, ResultsCounted
  <2> QED
    BY <1>2, <2>1, <2>2, <2>3, <2>5, <2>6 DEF ResultsCounted
<1>13. SuccessIsComplete'
  BY <1>2, <1>4, <1>9 DEF LoopInv, SuccessIsComplete
<1> QED
  BY <1>2, <1>5, <1>11, <1>12, <1>13 DEF LoopInv

-----------------------------------------------------------------------------
(* run.                                                                    *)

\* A step of run that submits nothing, and counts nothing but what Enough has seen.
LEMMA GoesKeeps ==
  ASSUME LoopInv,
         UNCHANGED <<branches, cancelled, results, anyFailed, result, fate, early, others, crosstalk>>,
         clock' \in Nat, queue' \in Seq(Event), EventsKnown',
         NEW pc, Goes(pc), loop.pc # "done", pc # "submit",
         pc \in {"subscribe", "start"} => branches # <<>>,
         pc \in {"wait", "stop", "join"} => \A t \in Task : Given(t),
         pc \in {"unsubscribe", "unsubscribe_failed", "merge"} => \A t \in Task : fate[t] = "finished",
         pc \in {"stop", "join", "unsubscribe", "unsubscribe_failed", "merge"} =>
           anyFailed \/ Cardinality(DOMAIN results) >= Len(branches)
  PROVE  LoopInv'
<1>1. Task' = Task /\ Keys' = Keys
  BY DEF Task, Keys
<1>2. DOMAIN loop' = {"pc", "at"} /\ loop'.pc = pc
  BY DEF Goes, At
<1>3. Typed' /\ TasksGiven'
  BY <1>1, <1>2 DEF LoopInv, Typed, TasksGiven, Given
<1>4. ResultsCounted'
  BY <1>1, <1>2 DEF LoopInv, ResultsCounted
<1>5. ~result.success /\ ~result'.success
  BY DEF LoopInv
<1> QED
  BY <1>3, <1>4, <1>5 DEF LoopInv, SuccessIsComplete

\* A step of run outside the bus.
LEMMA QuietKnown ==
  ASSUME LoopInv, UNCHANGED vars, UNCHANGED branches
  PROVE  clock' \in Nat /\ queue' \in Seq(Event) /\ EventsKnown'
BY BusKnown DEF LoopInv, Typed, vars, busVars

\* A subscription or its end.
LEMMA SubscribeKnown ==
  ASSUME LoopInv, UNCHANGED <<branches, clock, queue, dispatch>>
  PROVE  clock' \in Nat /\ queue' \in Seq(Event) /\ EventsKnown'
BY BusKnown DEF LoopInv, Typed

LEMMA RunKeeps ==
  ASSUME LoopInv, Run, loop.pc # "merge"
  PROVE  LoopInv'
<1>1. CASE RunRefused
  BY <1>1, QuietKnown, GoesKeeps DEF RunRefused, Quiet, poolVars
<1>2. CASE RunSubscribes \/ RunSubscribesFailed
  <2>1. UNCHANGED <<clock, queue, dispatch, branches>>
    BY <1>2 DEF RunSubscribes, RunSubscribesFailed, Subscribe, Quiet
  <2>2. /\ UNCHANGED <<branches, cancelled, results, anyFailed, result, fate, early, others, crosstalk>>
        /\ \/ loop.pc = "called" /\ Goes("subscribe")
           \/ loop.pc = "subscribe" /\ Goes("start")
    BY <1>2 DEF RunSubscribes, RunSubscribesFailed, Quiet, poolVars
  <2>3. branches # <<>>
    BY <1>2 DEF RunSubscribes, RunSubscribesFailed, LoopInv, TasksGiven
  <2> QED
    BY <2>1, <2>2, <2>3, SubscribeKnown, GoesKeeps
<1>3. CASE RunStarts
  <2>1. /\ UNCHANGED vars /\ UNCHANGED <<branches, results, anyFailed, result, fate, early, others, crosstalk>>
        /\ phase' = "open" /\ loop' = At("submit") /\ loop.pc = "start"
    BY <1>3 DEF RunStarts, Goes, Quiet, Pool!Open
  <2>2. clock' \in Nat /\ queue' \in Seq(Event) /\ EventsKnown'
    BY <2>1, QuietKnown
  <2>3. Task' = Task /\ Keys' = Keys
    BY <2>1 DEF Task, Keys
  <2>4. DOMAIN loop' = {"pc", "at"} /\ loop'.pc = "submit" /\ loop'.at = 1
    BY <2>1 DEF At
  <2>5. Typed' /\ ResultsCounted'
    BY <2>1, <2>2, <2>3, <2>4 DEF LoopInv, Typed, ResultsCounted
  <2>6. Task = 1..Len(branches) /\ Len(branches) \in Nat /\ Len(branches) # 0
    <3>1. branches \in Seq(Branch) /\ branches # <<>>
      BY <2>1 DEF LoopInv, Typed, TasksGiven
    <3> QED
      BY <3>1, EmptySeq DEF Task
  <2>7. TasksGiven'
    BY <2>1, <2>3, <2>4, <2>6 DEF LoopInv, TasksGiven
  <2> QED
    BY <2>1, <2>2, <2>4, <2>5, <2>7 DEF LoopInv, SuccessIsComplete
<1>4. CASE RunSubmits
  <2>1. /\ UNCHANGED vars /\ UNCHANGED <<branches, results, anyFailed, result, others, crosstalk, phase>>
        /\ fate' = [fate EXCEPT ![loop.at] = "accepted"] /\ fate[loop.at] = "new"
        /\ early' = IF phase = "open" THEN early \cup {loop.at} ELSE early
        /\ loop' = IF loop.at < Len(branches) THEN [loop EXCEPT !.at = loop.at + 1] ELSE At("wait")
        /\ loop.pc = "submit"
    BY <1>4 DEF RunSubmits, Quiet, Pool!Accept
  <2>2. clock' \in Nat /\ queue' \in Seq(Event) /\ EventsKnown'
    BY <2>1, QuietKnown
  <2>3. Task' = Task /\ Keys' = Keys
    BY <2>1 DEF Task, Keys
  <2>4. /\ phase = "open" /\ loop.at \in Task /\ \A t \in Task : t < loop.at => Given(t)
        /\ Task = 1..Len(branches) /\ Len(branches) \in Nat /\ Task \subseteq Positions
    <3>1. branches \in Seq(Branch)
      BY DEF LoopInv, Typed
    <3> QED
      BY <2>1, <3>1 DEF LoopInv, TasksGiven, Typed, Task
  <2>5. /\ fate' \in [Positions -> {"new", "refused", "accepted", "started", "finished"}]
        /\ \A t \in Task : Given(t) \/ t = loop.at => Given(t)'
    BY <2>1, <2>4 DEF LoopInv, TasksGiven, Given
  <2>6. Typed'
    BY <2>1, <2>2, <2>3 DEF LoopInv, Typed
  <2>7. CASE loop.at < Len(branches)
    <3>1. DOMAIN loop' = {"pc", "at"} /\ loop'.pc = "submit" /\ loop'.at = loop.at + 1
      BY <2>1, <2>7 DEF LoopInv, TasksGiven
    <3>2. loop'.at \in Task /\ \A t \in Task : t < loop'.at => t < loop.at \/ t = loop.at
      BY <2>4, <2>7, <3>1
    <3>3. TasksGiven'
      BY <2>1, <2>3, <2>4, <2>5, <3>1, <3>2 DEF TasksGiven
    <3>4. ResultsCounted'
      BY <2>1, <2>3, <3>1 DEF LoopInv, ResultsCounted
    <3> QED
      BY <2>1, <2>2, <2>6, <3>1, <3>3, <3>4 DEF LoopInv, SuccessIsComplete
  <2>8. CASE ~(loop.at < Len(branches))
    <3>1. DOMAIN loop' = {"pc", "at"} /\ loop'.pc = "wait"
      BY <2>1, <2>8 DEF At
    <3>2. \A t \in Task : t < loop.at \/ t = loop.at
      BY <2>4, <2>8
    <3>3. TasksGiven'
      BY <2>3, <2>4, <2>5, <3>1, <3>2 DEF TasksGiven
    <3>4. ResultsCounted'
      BY <2>1, <2>3, <3>1 DEF LoopInv, ResultsCounted
    <3> QED
      BY <2>1, <2>2, <2>6, <3>1, <3>3, <3>4 DEF LoopInv, SuccessIsComplete
  <2> QED
    BY <2>7, <2>8
<1>5. CASE RunSleeps
  <2>1. /\ UNCHANGED <<branches, loop, results, anyFailed, result, phase, fate, early, crosstalk, others>>
        /\ UNCHANGED vars
    BY <1>5 DEF RunSleeps, poolVars
  <2> QED
    BY <2>1, QuietKnown, OutsideKeeps DEF LoopInv, Typed
<1>6. CASE RunWakes
  <2>1. /\ UNCHANGED <<vars, branches, cancelled, results, anyFailed, result, fate, early, others, crosstalk>>
        /\ loop.pc = "wait"
        /\ Goes("abandon") \/ (Goes("stop") /\ (anyFailed \/ Cardinality(DOMAIN results) >= Len(branches)))
    BY <1>6 DEF RunWakes, Enough, Quiet, poolVars
  <2>2. \A t \in Task : Given(t)
    BY <2>1 DEF LoopInv, TasksGiven
  <2> QED
    BY <2>1, <2>2, QuietKnown, GoesKeeps
<1>7. CASE RunStopsPool
  <2>1. /\ UNCHANGED <<vars, branches, cancelled, results, anyFailed, result, fate, early, others, crosstalk>>
        /\ \/ loop.pc = "stop" /\ Goes("join")
           \/ loop.pc = "abandon" /\ Goes("abandoned")
    BY <1>7 DEF RunStopsPool, Quiet, Pool!Close
  <2>2. loop.pc = "stop" => /\ \A t \in Task : Given(t)
                            /\ anyFailed \/ Cardinality(DOMAIN results) >= Len(branches)
    BY DEF LoopInv, TasksGiven, ResultsCounted
  <2> QED
    BY <2>1, <2>2, QuietKnown, GoesKeeps
<1>8. CASE RunJoins
  <2>1. /\ UNCHANGED <<vars, branches, cancelled, results, anyFailed, result, fate, early, others, crosstalk>>
        /\ \/ loop.pc = "join" /\ Goes("unsubscribe")
           \/ loop.pc = "abandoned" /\ Goes("leave")
        /\ \A t \in Positions : ~Pool!Pending(t)
    BY <1>8 DEF RunJoins, Quiet, Pool!Closed
  <2>2. loop.pc = "join" => /\ \A t \in Task : fate[t] = "finished"
                            /\ anyFailed \/ Cardinality(DOMAIN results) >= Len(branches)
    BY <2>1 DEF LoopInv, TasksGiven, ResultsCounted, Given, Typed, Pool!Pending
  <2> QED
    BY <2>1, <2>2, QuietKnown, GoesKeeps
<1>9. CASE RunUnsubscribes \/ RunUnsubscribesFailed
  <2>1. /\ UNCHANGED <<clock, queue, dispatch>>
        /\ UNCHANGED <<branches, cancelled, results, anyFailed, result, fate, early, others, crosstalk>>
        /\ \/ loop.pc = "unsubscribe" /\ Goes("unsubscribe_failed")
           \/ loop.pc = "unsubscribe_failed" /\ Goes("merge")
           \/ loop.pc = "leave" /\ Goes("leave_failed")
           \/ loop.pc = "leave_failed" /\ Goes("done")
    BY <1>9 DEF RunUnsubscribes, RunUnsubscribesFailed, Unsubscribe, Quiet, poolVars
  <2>2. loop.pc \in {"unsubscribe", "unsubscribe_failed"} =>
          /\ \A t \in Task : fate[t] = "finished"
          /\ anyFailed \/ Cardinality(DOMAIN results) >= Len(branches)
    BY DEF LoopInv, TasksGiven, ResultsCounted
  <2> QED
    BY <2>1, <2>2, SubscribeKnown, GoesKeeps
<1> QED
  BY <1>1, <1>2, <1>3, <1>4, <1>5, <1>6, <1>7, <1>8, <1>9 DEF Run, RunMerges

\* As many keys as positions: every branch has a name of its own and a result.
LEMMA CountedAll ==
  ASSUME branches \in Seq(Branch), NEW done, done \subseteq Keys, IsFiniteSet(done),
         Cardinality(done) >= Len(branches)
  PROVE  done = Keys /\ IsInjective(branches)
<1>1. Task = 1..Len(branches) /\ Len(branches) \in Nat
  BY DEF Task
<1>2. IsFiniteSet(Task) /\ Cardinality(Task) = Len(branches)
  <2>1. IsFiniteSet(1..Len(branches)) /\ Cardinality(1..Len(branches)) = Len(branches)
    BY <1>1, FS_Interval
  <2> QED
    BY <1>1, <2>1
<1>3. branches \in Surjection(Task, Keys)
  BY <1>1 DEF Surjection, Keys
<1>4. /\ IsFiniteSet(Keys) /\ Cardinality(Keys) <= Cardinality(Task)
      /\ Cardinality(Keys) = Cardinality(Task) <=> branches \in Injection(Task, Keys)
  BY <1>2, <1>3, FS_Surjection
<1>5. /\ Cardinality(done) <= Cardinality(Keys)
      /\ Cardinality(done) = Cardinality(Keys) => done = Keys
  BY <1>4, FS_Subset
<1>6. Cardinality(done) \in Nat /\ Cardinality(Keys) \in Nat
  BY <1>4, FS_CardinalityType
<1>7. Cardinality(done) = Cardinality(Keys) /\ Cardinality(Keys) = Cardinality(Task)
  BY <1>1, <1>2, <1>4, <1>5, <1>6
<1>8. branches \in Injection(Task, Keys)
  BY <1>4, <1>7
<1>9. DOMAIN branches = Task
  BY DEF Task
<1> QED
  BY <1>5, <1>7, <1>8, <1>9 DEF Injection, IsInjective

LEMMA MergeKeeps ==
  ASSUME LoopInv, RunMerges
  PROVE  LoopInv'
<1>1. /\ UNCHANGED vars /\ UNCHANGED <<branches, results, anyFailed, fate, early, phase, others, crosstalk>>
      /\ loop.pc = "merge" /\ loop' = At("done")
      /\ result' = [success |-> ~anyFailed, merged |-> [k \in MergedKeys |-> results[k].from]]
  BY DEF RunMerges, Quiet, Goes, poolVars
<1>2. clock' \in Nat /\ queue' \in Seq(Event) /\ EventsKnown'
  BY <1>1, QuietKnown
<1>3. Task' = Task /\ Keys' = Keys
  BY <1>1 DEF Task, Keys
<1>4. DOMAIN loop' = {"pc", "at"} /\ loop'.pc = "done"
  BY <1>1 DEF At
<1>5. Typed' /\ TasksGiven' /\ ResultsCounted'
  BY <1>1, <1>2, <1>3, <1>4 DEF LoopInv, Typed, TasksGiven, ResultsCounted
<1>6. (result'.success <=> ~anyFailed) /\ result'.merged = [k \in MergedKeys |-> results[k].from]
  BY <1>1, Zenon
<1>7. \A t \in Task : fate[t] = "finished"
  BY <1>1 DEF LoopInv, TasksGiven
<1>8. ASSUME ~anyFailed, ~crosstalk
      PROVE  /\ IsInjective(branches)
             /\ \A t \in Task : branches[t] \in DOMAIN result'.merged
                                /\ result'.merged[branches[t]] = "loop"
  <2>1. /\ DOMAIN results \subseteq Keys /\ IsFiniteSet(DOMAIN results)
        /\ Cardinality(DOMAIN results) >= Len(branches)
        /\ \A k \in DOMAIN results : results[k].from = "loop" /\ results[k].topic = Completed
    BY <1>1, <1>8 DEF LoopInv, ResultsCounted
  <2>2. branches \in Seq(Branch)
    BY DEF LoopInv, Typed
  <2>3. DOMAIN results = Keys /\ IsInjective(branches)
    BY <2>1, <2>2, CountedAll
  <2>4. \A t \in Task : branches[t] \in MergedKeys /\ results[branches[t]].from = "loop"
    BY <2>1, <2>3 DEF MergedKeys, Keys
  <2> QED
    BY <1>6, <2>3, <2>4
<1>9. SuccessIsComplete'
  BY <1>1, <1>3, <1>6, <1>7, <1>8 DEF SuccessIsComplete
<1> QED
  BY <1>2, <1>4, <1>5, <1>9 DEF LoopInv

-----------------------------------------------------------------------------
LEMMA LoopInvStarts ==
  ASSUME Init
  PROVE  LoopInv
<1>1. PICK s \in Setups : /\ branches = s.branches /\ kind = s.kind /\ others = s.others
                          /\ loop = At(IF s.runs THEN "called" ELSE "done")
  BY DEF Init
<1>2. /\ s.branches \in Seq(Branch) /\ s.others \in Seq([topic : Topic, key : Branch])
      /\ DOMAIN s.branches \subseteq Positions
  BY LoopAssumption DEF Positions
<1>3. Typed
  BY <1>1, <1>2 DEF Typed, Task, Init, BusInit
<1>4. EventsKnown
  BY DEF EventsKnown, Init, BusInit
<1>5. TasksGiven
  BY <1>1 DEF TasksGiven, Init, At, Pool!Init
<1>6. ResultsCounted
  <2>1. DOMAIN results = {} /\ loop.pc \in {"called", "done"}
    BY <1>1 DEF Init, Nothing, At
  <2> QED
    BY <2>1, FS_EmptySet DEF ResultsCounted
<1>7. ~result.success
  BY DEF Init
<1> QED
  BY <1>3, <1>4, <1>5, <1>6, <1>7 DEF LoopInv, SuccessIsComplete

LEMMA LoopStepKeeps ==
  ASSUME LoopInv, [Next]_allVars
  PROVE  LoopInv'
<1>1. CASE Run
  <2>1. loop.pc = "merge" => RunMerges
    BY <1>1 DEF Run, RunRefused, RunSubscribes, RunSubscribesFailed, RunStarts, RunSubmits,
       RunSleeps, RunWakes, RunStopsPool, RunJoins, RunUnsubscribes, RunUnsubscribesFailed
  <2> QED
    BY <1>1, <2>1, RunKeeps, MergeKeeps
<1> QED
  BY <1>1, AroundKeeps, WorkersKeep, CallbacksKeep DEF Next, Callbacks

(* A run that reports success has the result of every branch from its own   *)
(* task and has left no task unfinished, unless it took an event of another *)
(* pool for one of its own.                                                 *)
THEOREM SuccessComplete == Spec => []SuccessIsComplete
<1>1. Init => LoopInv
  BY LoopInvStarts
<1>2. LoopInv /\ [Next]_allVars => LoopInv'
  BY LoopStepKeeps
<1>3. LoopInv => SuccessIsComplete
  BY DEF LoopInv
<1> QED
  BY <1>1, <1>2, <1>3, PTL DEF Spec

-----------------------------------------------------------------------------
(* A cognitive worker on the same bus.                                      *)

\* What it holds and is given is of others than the loop's pool.
GivenOthers ==
  /\ job \in Jobs /\ taskQueue \in Seq(OfOthers)
  /\ DOMAIN thread = {"pc", "task"}
  /\ thread.pc \in {"begin", "process", "evaluate"} => thread.task \in OfOthers
  /\ submitter \in [Client -> [pc : {"idle", "push", "notify"}, at : Nat]]
  /\ \A c \in Client : submitter[c].pc = "push" => submitter[c].at \in DOMAIN job.tasks[c]

EventInv == LoopInv /\ GivenOthers

\* The worker's steps keep what it holds of others, and emit nothing else.
LEMMA WorkerEmitsOthers ==
  ASSUME GivenOthers, CognitiveNext
  PROVE  /\ GivenOthers'
         /\ \/ UNCHANGED busVars
            \/ \E topic \in Topic, body \in OfOthers : Emit(topic, body)
<1>1. CASE Keeper
  <2>1. GivenOthers'
    BY <1>1 DEF Keeper, KeeperStarts, KeeperCreates, KeeperTells, KeeperStops, KeeperNotifies,
       KeeperJoins, GivenOthers, InLoop, Awake
  <2>2. \/ UNCHANGED busVars
        \/ Emit(Spawned, NoTask) \/ Emit(Terminated, NoTask)
    BY <1>1 DEF Keeper, KeeperStarts, KeeperCreates, KeeperTells, KeeperStops, KeeperNotifies,
       KeeperJoins, Says
  <2> QED
    BY <2>1, <2>2, JobsAssumption, EventWorldsAssumption DEF WorkerTopics
<1>2. CASE Clients
  <2>1. PICK c \in Client : ClientSubmits(c) \/ ClientPushes(c) \/ ClientNotifies(c)
    BY <1>2 DEF Clients
  <2>2. submitter[c] \in [pc : {"idle", "push", "notify"}, at : Nat]
    BY DEF GivenOthers
  <2>3. CASE ClientSubmits(c)
    BY <2>2, <2>3 DEF ClientSubmits, ClientAt, ClientDone, GivenOthers
  <2>4. CASE ClientPushes(c)
    <3>1. Submission(c) \in OfOthers
      BY <2>4, EventWorldsAssumption DEF ClientPushes, Submission, GivenOthers
    <3>2. taskQueue' \in Seq(OfOthers)
      BY <2>4, <3>1, AppendProperties DEF ClientPushes, GivenOthers
    <3> QED
      BY <2>2, <2>4, <3>2 DEF ClientPushes, ClientAt, GivenOthers
  <2>5. CASE ClientNotifies(c)
    BY <2>2, <2>5 DEF ClientNotifies, ClientDone, GivenOthers, Awake, InLoop
  <2> QED
    BY <2>1, <2>3, <2>4, <2>5
<1>3. CASE ThreadSteps
  <2>1. CASE LoopLooks \/ LoopFindsNothing \/ LoopBlocks
    BY <2>1 DEF LoopLooks, LoopFindsNothing, LoopBlocks, LoopFrame, GivenOthers, InLoop
  <2>2. CASE LoopTakes
    <3>1. CASE workerState # "running"
      BY <2>2, <3>1 DEF LoopTakes, LoopFrame, GivenOthers, InLoop
    <3>2. CASE workerState = "running"
      <4>1. /\ taskQueue # <<>> /\ taskQueue' = Tail(taskQueue)
            /\ thread' = [pc |-> "begin", task |-> Head(taskQueue)]
        BY <2>2, <3>2 DEF LoopTakes
      <4>2. Head(taskQueue) \in OfOthers /\ taskQueue' \in Seq(OfOthers)
        BY <4>1, HeadTailProperties DEF GivenOthers
      <4> QED
        BY <2>2, <4>1, <4>2 DEF LoopTakes, LoopFrame, GivenOthers
    <3> QED
      BY <3>1, <3>2
  <2>3. CASE LoopBegins \/ LoopCompletes \/ LoopEvaluates
    <3>1. thread.task \in OfOthers
      BY <2>3 DEF LoopBegins, LoopCompletes, LoopEvaluates, GivenOthers
    <3>2. GivenOthers'
      BY <2>3, <3>1 DEF LoopBegins, LoopCompletes, LoopEvaluates, LoopFrame, GivenOthers, InLoop
    <3>3. \/ UNCHANGED busVars \/ Emit(TaskStarted, thread.task)
          \/ Emit(TaskCompleted, thread.task) \/ Emit(Evaluated, thread.task)
      BY <2>3 DEF LoopBegins, LoopCompletes, LoopEvaluates, Says
    <3> QED
      BY <3>1, <3>2, <3>3, JobsAssumption DEF WorkerTopics
  <2> QED
    BY <1>3, <2>1, <2>2, <2>3 DEF ThreadSteps
<1> QED
  BY <1>1, <1>2, <1>3 DEF CognitiveNext

\* Both hold in the beginning and after a step of either.
LEMMA EventInvStarts ==
  EventInit => EventInv
<1> SUFFICES ASSUME EventInit PROVE EventInv
  OBVIOUS
<1>1. LoopInv
  BY LoopInvStarts DEF EventInit
<1>2. GivenOthers
  BY DEF EventInit, WorkerInit, GivenOthers, InLoop
<1> QED
  BY <1>1, <1>2 DEF EventInv

LEMMA EventStepKeeps ==
  EventInv /\ [EventNext]_eventVars => EventInv'
<1> SUFFICES ASSUME EventInv, [EventNext]_eventVars PROVE EventInv'
  OBVIOUS
<1>1. CASE Next /\ UNCHANGED cogVars
  BY <1>1, LoopStepKeeps DEF EventInv, GivenOthers, cogVars
<1>2. CASE WorkerStep(CognitiveNext)
  <2>1. /\ CognitiveNext /\ GivenOthers /\ LoopInv
        /\ UNCHANGED <<branches, loop, results, anyFailed, result, phase, fate, early, crosstalk,
                       others>>
    BY <1>2 DEF WorkerStep, EventInv, loopVars, poolVars
  <2>2. GivenOthers' /\ (UNCHANGED busVars \/ \E topic \in Topic, body \in OfOthers : Emit(topic, body))
    BY <2>1, WorkerEmitsOthers
  <2>3. Typed /\ EventsKnown
    BY <2>1 DEF LoopInv
  <2>4. CASE UNCHANGED busVars
    BY <2>1, <2>3, <2>4, BusKnown, OutsideKeeps, <2>2 DEF busVars, EventInv, Typed
  <2>5. ASSUME NEW topic \in Topic, NEW body \in OfOthers, Emit(topic, body)
        PROVE  LoopInv'
    <3>1. body \in Body /\ body.from # "loop"
      BY DEF OfOthers
    <3>2. clock' \in Nat /\ queue' \in Seq(Event) /\ EventsKnown'
      BY <2>1, <2>3, <2>5, <3>1, EmitKnown
    <3> QED
      BY <2>1, <2>3, <3>2, OutsideKeeps DEF Typed
  <2> QED
    BY <2>2, <2>4, <2>5 DEF EventInv
<1>3. CASE UNCHANGED eventVars
  BY <1>3, LoopStepKeeps DEF eventVars, cogVars, EventInv, GivenOthers
<1> QED
  BY <1>1, <1>2, <1>3 DEF EventNext

(* A run that reports success is complete also beside a cognitive worker,  *)
(* whose events go over the same bus.                                      *)
THEOREM CompleteBesideWorker == EventSpec => []SuccessIsComplete
<1>1. EventInit => EventInv
  BY EventInvStarts
<1>2. EventInv /\ [EventNext]_eventVars => EventInv'
  BY EventStepKeeps
<1>3. EventInv => SuccessIsComplete
  BY DEF EventInv, LoopInv
<1> QED
  BY <1>1, <1>2, <1>3, PTL DEF EventSpec

-----------------------------------------------------------------------------
(* Who is subscribed, and whom the dispatcher still calls.                 *)

\* Where run is while each of its callbacks is subscribed.
CompletedPc == {"subscribe", "start", "submit", "wait", "stop", "abandon", "join", "abandoned",
                "unsubscribe", "leave"}
FailedPc == (CompletedPc \ {"subscribe"}) \cup {"unsubscribe_failed", "leave_failed"}

\* What the dispatcher may have copied, with the writer to be called in the end and without.
OfWriter == {<<Writer>>, <<"on_completed", Writer>>, <<"on_failed", Writer>>}
OfLoop == {<<>>, <<"on_completed">>, <<"on_failed">>}

CalledAt(pc) ==
  [t \in Topic |-> IF t = Completed /\ pc \in CompletedPc THEN <<"on_completed">>
                   ELSE IF t = Failed /\ pc \in FailedPc THEN <<"on_failed">>
                   ELSE <<>>]

\* No event and no step of run comes before the writer is subscribed.
Subscribed ==
  /\ wild \in {<<>>, <<Writer>>}
  /\ ~Attached => clock = 0 /\ phase = "idle" /\ loop.pc \in {"called", "done"}
  /\ kind = "off" => wild = <<>>
  /\ exact = CalledAt(loop.pc)
  /\ phase # "idle" => loop.pc # "called"
  /\ dispatch.pc \in {"wait", "copy", "call"}
  /\ dispatch.calls \in OfWriter \cup OfLoop
  /\ dispatch.pc # "call" => dispatch.calls = <<>>

-----------------------------------------------------------------------------
(* What the writer has been given.                                         *)

\* The event in the dispatcher's hands has not been given to the writer yet.
Undelivered == dispatch.pc = "copy" \/ dispatch.calls \in OfWriter
Handled == clock - Len(queue) - (IF Undelivered THEN 1 ELSE 0)

\* The clock numbers the events; the queue has the last of them.
Numbered ==
  /\ Len(queue) <= clock
  /\ \A i \in 1..Len(queue) : queue[i].time = clock - Len(queue) + i
  /\ dispatch.pc # "wait" => Len(queue) < clock /\ dispatch.event.time = clock - Len(queue)

\* An EventLogWriter is given every event that was handled.
Received ==
  /\ received \subseteq Event
  /\ \A e \in received : e.time \in 1..Handled
  /\ \A e, f \in received : e.time = f.time => e = f
  /\ EventLog => \A n \in 1..Handled : \E e \in received : e.time = n

\* Where the events that were received are.
Kept == [lines |-> ToSet(lines), dropped |-> dropped, buffer |-> ToSet(buffer),
         flusher |-> ToSet(flusher.batch), syncer |-> ToSet(syncer.batch),
         closer |-> ToSet(closer.batch)]
Place == {"lines", "dropped", "buffer", "flusher", "syncer", "closer"}

\* The three that empty the buffer, and what they hold.
Hand == {"flusher", "syncer", "closer"}
Batch == [flusher |-> flusher.batch, syncer |-> syncer.batch, closer |-> closer.batch]

LogTypes ==
  /\ lines \in Seq(Event) /\ buffer \in Seq(Event)
  /\ flusher \in [pc : {"top", "wait", "check", "write", "exited"}, batch : Seq(Event)]
  /\ syncer \in [pc : {"idle", "lock", "rotate", "returned"}, batch : Seq(Event), seen : SUBSET Event]
  /\ closer \in [pc : {"none", "join", "drain", "draining", "write", "close", "stopped"},
                 batch : Seq(Event)]
  /\ kind \in Kind /\ before \in Nat

\* Each event that was received is in one place, and there once.
Apart ==
  /\ \A p, q \in Place : p # q => Kept[p] \cap Kept[q] = {}
  /\ UNION {Kept[p] : p \in Place} = received
  /\ IsInjective(lines) /\ IsInjective(buffer) /\ \A h \in Hand : IsInjective(Batch[h])

\* Who holds something, and when the file is closed.
HandsEmpty ==
  /\ flusher.pc \in {"top", "wait", "exited"} => flusher.batch = <<>>
  /\ syncer.pc # "lock" => syncer.batch = <<>>
  /\ closer.pc # "write" => closer.batch = <<>>
  /\ closer.pc \notin {"none", "join"} => flusher.pc = "exited"
  /\ kind = "session" => closer.pc \in {"none", "join", "close", "stopped"}
  /\ kind = "off" => flusher.pc = "exited" /\ closer.pc = "none" /\ syncer.pc = "idle" /\ ~running
  /\ ~open => kind = "off" \/ syncer.pc = "rotate" \/ closer.pc = "stopped"
  /\ syncer.pc = "idle" => dropped = {}

\* What the drain of stop and the callers of flush_sync have waited for.
Drains ==
  /\ closer.pc \in {"none", "join", "drain"} => drainer = "none"
  /\ before <= clock
  /\ EventLog /\ drainer = "drained" => before <= Handled
  /\ EventLog /\ closer.pc \in {"write", "close", "stopped"} =>
       \A n \in 1..before : \E e \in received \ Kept.buffer : e.time = n
  /\ syncer.pc # "idle" => syncer.seen \subseteq received \ Kept.buffer

\* The order, while nobody calls flush_sync.
Earlier(S, T) == \A e \in S, f \in T : e.time < f.time
Ascends(s) == \A i, j \in DOMAIN s : i < j => s[i].time < s[j].time
InTurn ==
  syncer.pc = "idle" =>
    /\ Ascends(lines) /\ Ascends(flusher.batch) /\ Ascends(closer.batch) /\ Ascends(buffer)
    /\ Earlier(Kept.lines, Kept.flusher \cup Kept.closer \cup Kept.buffer)
    /\ Earlier(Kept.flusher \cup Kept.closer, Kept.buffer)

LogInv == /\ LogTypes /\ Subscribed /\ Numbered /\ Received /\ Apart /\ HandsEmpty /\ Drains /\ InTurn

\* The writer is called last.
LEMMA CallsOneByOne ==
  ASSUME NEW c \in OfWriter \cup OfLoop, c # <<>>
  PROVE  /\ Tail(c) \in OfWriter \cup OfLoop
         /\ Head(c) = Writer => c = <<Writer>> /\ Tail(c) = <<>>
         /\ Head(c) # Writer => (Tail(c) \in OfWriter <=> c \in OfWriter)
<1>1. PICK x \in {"on_completed", "on_failed", Writer} :
        c = <<x>> \/ (c = <<x, Writer>> /\ x # Writer)
  <2>1. c \in {<<Writer>>, <<"on_completed">>, <<"on_failed">>}
        \/ c \in {<<"on_completed", Writer>>, <<"on_failed", Writer>>}
    BY DEF OfWriter, OfLoop
  <2>2. Writer \notin {"on_completed", "on_failed"}
    BY LoopAssumption
  <2> QED
    BY <2>1, <2>2
<1>2. CASE c = <<x>>
  <2>1. Head(c) = x /\ Tail(c) = <<>>
    BY <1>2
  <2> QED
    BY <1>1, <1>2, <2>1, LoopAssumption DEF OfWriter, OfLoop
<1>3. CASE c = <<x, Writer>> /\ x # Writer
  <2>1. Head(c) = x /\ Tail(c) = <<Writer>>
    BY <1>3
  <2> QED
    BY <1>1, <1>3, <2>1, LoopAssumption DEF OfWriter, OfLoop
<1> QED
  BY <1>1, <1>2, <1>3

-----------------------------------------------------------------------------
(* Steps that are not the writer's.                                        *)

LEMMA HandledInt ==
  ASSUME Typed
  PROVE  Handled \in Int /\ Len(queue) \in Nat /\ clock \in Nat
<1>1. Len(queue) \in Nat /\ clock \in Nat
  BY LenProperties DEF Typed
<1> QED
  BY <1>1 DEF Handled

\* A waiter of wait_for_drain is told, or looks itself.
Roused == \/ UNCHANGED drainer
          \/ drainer = "asleep" /\ drainer' = "awake"
          \/ DrainCheck

\* A step that leaves the writer alone: the dispatcher may have got on meanwhile.
LEMMA BesideWriter ==
  ASSUME LogInv, Typed, Typed', UNCHANGED logVars, Subscribed', Numbered', clock <= clock',
         Handled <= Handled', EventLog => Handled' = Handled, Roused
  PROVE  LogInv'
<1>1. /\ Handled \in Int /\ Handled' \in Int /\ clock \in Nat /\ clock' \in Nat
      /\ Len(queue) \in Nat
  <2>1. Handled \in Int /\ clock \in Nat /\ Len(queue) \in Nat
    BY HandledInt
  <2>2. clock' \in Nat /\ Len(queue') \in Nat
    BY DEF Typed
  <2> QED
    BY <2>1, <2>2 DEF Handled
<1>2. Kept' = Kept /\ Batch' = Batch /\ (EventLog' <=> EventLog)
  BY DEF logVars, Kept, Batch, EventLog
<1>3. LogTypes' /\ Apart' /\ HandsEmpty' /\ InTurn'
  BY <1>2 DEF logVars, LogInv, LogTypes, Apart, HandsEmpty, InTurn, EventLog, Ascends
<1>4. Received'
  <2>1. received' = received
    BY DEF logVars
  <2>2. \A e \in received : e.time \in 1..Handled'
    BY <1>1 DEF LogInv, Received
  <2>3. EventLog => \A n \in 1..Handled' : \E e \in received : e.time = n
    BY DEF LogInv, Received
  <2> QED
    BY <1>2, <2>1, <2>2, <2>3 DEF LogInv, Received
<1>5. Drains'
  <2>1. UNCHANGED <<closer, before, received, syncer>>
    BY DEF logVars
  <2>2. closer.pc \in {"none", "join", "drain"} => drainer' = "none"
    BY DEF LogInv, Drains, Roused, DrainCheck
  <2>3. before <= clock'
    BY <1>1 DEF LogInv, Drains, LogTypes
  <2>4. ASSUME EventLog, drainer' = "drained"
        PROVE  before <= Handled'
    <3>1. CASE drainer = "drained"
      BY <1>1, <2>4, <3>1 DEF LogInv, Drains
    <3>2. CASE drainer # "drained"
      <4>1. DrainCheck /\ Drained
        BY <2>4, <3>2 DEF Roused, DrainCheck
      <4>2. queue = <<>> /\ dispatch.pc = "wait" /\ dispatch.calls = <<>>
        BY <4>1 DEF Drained, InFlight, LogInv, Subscribed
      <4>3. ~Undelivered /\ Len(queue) = 0
        BY <4>2 DEF Undelivered, OfWriter
      <4>4. Handled = clock
        BY <1>1, <4>3 DEF Handled
      <4> QED
        BY <1>1, <2>4, <4>4 DEF LogInv, Drains
    <3> QED
      BY <3>1, <3>2
  <2> QED
    BY <1>2, <2>1, <2>2, <2>3, <2>4 DEF LogInv, Drains
<1> QED
  BY <1>3, <1>4, <1>5 DEF LogInv

\* Neither the subscriptions nor what they go by change.
SameTopics == UNCHANGED <<exact, wild, loop, phase, kind>>

\* An event more, of anybody.
LEMMA EmitBeside ==
  ASSUME LogInv, Typed, Typed', Attached, UNCHANGED logVars,
         NEW topic, NEW body, Emit(topic, body), UNCHANGED loop, phase # "idle" \/ UNCHANGED phase
  PROVE  LogInv'
<1>1. /\ clock' = clock + 1 /\ UNCHANGED <<exact, wild, dispatch>> /\ drainer' = Notified
      /\ queue' = Append(queue, [topic |-> topic, body |-> body, time |-> clock + 1])
  BY DEF Emit
<1>2. PICK e : e = [topic |-> topic, body |-> body, time |-> clock + 1]
  OBVIOUS
<1>3. /\ Len(queue') = Len(queue) + 1 /\ queue'[Len(queue) + 1] = e
      /\ \A i \in 1..Len(queue) : queue'[i] = queue[i]
      /\ Len(queue) \in Nat /\ clock \in Nat
  BY <1>1, <1>2 DEF Typed
<1>4. Undelivered' <=> Undelivered
  BY <1>1 DEF Undelivered, OfWriter
<1>5. Handled' = Handled
  BY <1>1, <1>3, <1>4 DEF Handled
<1>6. Subscribed'
  <2>1. Attached'
    BY <1>1 DEF Attached, logVars
  <2>2. phase' # "idle" => loop.pc # "called"
    BY DEF LogInv, Subscribed
  <2> QED
    BY <1>1, <2>1, <2>2 DEF LogInv, Subscribed, logVars, OfWriter, OfLoop
<1>7. Numbered'
  <2>1. \A i \in 1..Len(queue') : i \in 1..Len(queue) \/ i = Len(queue) + 1
    BY <1>3
  <2>2. e.time = clock + 1
    BY <1>2
  <2>3. Len(queue) <= clock
    BY DEF LogInv, Numbered
  <2>4. \A i \in 1..Len(queue') : queue'[i].time = clock' - Len(queue') + i
    BY <1>1, <1>3, <2>1, <2>2, <2>3 DEF LogInv, Numbered
  <2> QED
    BY <1>1, <1>3, <2>3, <2>4 DEF LogInv, Numbered
<1>8. Roused
  BY <1>1 DEF Roused, Notified
<1>9. clock <= clock' /\ Handled <= Handled'
  BY <1>1, <1>3, <1>5, HandledInt
<1> QED
  BY <1>5, <1>6, <1>7, <1>8, <1>9, BesideWriter

\* The dispatcher goes from one event to the next.
LEMMA DispatcherBeside ==
  ASSUME LogInv, Typed, Typed', EventsKnown, UNCHANGED logVars, SameTopics, Dispatcher
  PROVE  LogInv'
<1>0. Len(queue) \in Nat /\ clock \in Nat /\ Handled \in Int /\ Len(queue) <= clock
  BY HandledInt DEF LogInv, Numbered
<1>1. clock' = clock /\ Roused
  BY DEF Dispatcher, DispatchTake, DispatchCopy, DispatchDone, Roused, Notified
<1>a. kind' = kind /\ Attached' = Attached
  BY DEF SameTopics, Attached
<1>2. CASE DispatchTake
  <2>1. /\ dispatch.pc = "wait" /\ queue # <<>> /\ queue' = Tail(queue)
        /\ dispatch' = [pc |-> "copy", event |-> Head(queue), calls |-> <<>>]
    BY <1>2 DEF DispatchTake
  <2>2. /\ Len(queue') = Len(queue) - 1 /\ Head(queue) = queue[1] /\ 1 \in 1..Len(queue)
        /\ \A i \in 1..Len(queue') : queue'[i] = queue[i + 1] /\ i + 1 \in 1..Len(queue)
    BY <2>1 DEF Typed
  <2>3. dispatch'.pc = "copy" /\ dispatch'.event = queue[1] /\ dispatch'.calls = <<>>
    BY <2>1, <2>2
  <2>4. ~Undelivered /\ Undelivered'
    <3>1. dispatch.calls = <<>>
      BY <2>1 DEF LogInv, Subscribed
    <3> QED
      BY <2>1, <2>3, <3>1 DEF Undelivered, OfWriter
  <2>5. Handled' = Handled
    BY <1>0, <1>1, <2>2, <2>4 DEF Handled
  <2>6. Subscribed'
    BY <1>1, <1>a, <2>3 DEF LogInv, Subscribed, SameTopics, OfWriter, OfLoop
  <2>7. Numbered'
    <3>1. queue[1].time = clock - Len(queue) + 1
      BY <2>2 DEF LogInv, Numbered
    <3>2. \A i \in 1..Len(queue') : queue'[i].time = clock' - Len(queue') + i
      <4> TAKE i \in 1..Len(queue')
      <4>1. queue'[i] = queue[i + 1] /\ queue[i + 1].time = clock - Len(queue) + (i + 1)
        BY <2>2 DEF LogInv, Numbered
      <4> QED
        BY <1>0, <1>1, <2>2, <4>1
    <3>3. Len(queue') < clock' /\ Len(queue') <= clock'
      BY <1>0, <1>1, <2>2
    <3>4. dispatch'.event.time = clock' - Len(queue')
      BY <1>0, <1>1, <2>2, <2>3, <3>1
    <3> QED
      BY <3>2, <3>3, <3>4 DEF Numbered
  <2> QED
    BY <1>0, <1>1, <2>5, <2>6, <2>7, BesideWriter
<1>3. CASE DispatchCopy
  <2> DEFINE e == dispatch.event
  <2>1. /\ dispatch.pc = "copy" /\ UNCHANGED <<queue, exact, wild>>
        /\ dispatch' = [pc |-> "call", event |-> e, calls |-> exact[e.topic] \o wild]
    BY <1>3 DEF DispatchCopy
  <2>2. e \in Event /\ e.topic \in Topic
    BY <2>1 DEF EventsKnown, Known, Event
  <2>3. exact[e.topic] \in OfLoop
    BY <2>2 DEF LogInv, Subscribed, CalledAt, OfLoop
  <2>4. dispatch'.calls \in OfWriter \cup OfLoop /\ (wild = <<Writer>> => dispatch'.calls \in OfWriter)
    <3>1. dispatch'.calls = exact[e.topic] \o wild
      BY <2>1
    <3>2. CASE wild = <<>>
      <4>1. exact[e.topic] \o <<>> = exact[e.topic]
        BY <2>3 DEF OfLoop
      <4> QED
        BY <2>3, <3>1, <3>2, <4>1
    <3>3. CASE wild = <<Writer>>
      <4>1. /\ <<>> \o <<Writer>> = <<Writer>>
            /\ \A x : <<x>> \o <<Writer>> = <<x, Writer>>
        BY OneAndOne
      <4> QED
        BY <2>3, <3>1, <3>3, <4>1 DEF OfLoop, OfWriter
    <3> QED
      BY <3>2, <3>3 DEF LogInv, Subscribed
  <2>5. Undelivered
    BY <2>1 DEF Undelivered
  <2>6. dispatch'.pc = "call" /\ dispatch'.event = e
    BY <2>1
  <2>7. EventLog => wild = <<Writer>>
    <3>1. clock # 0
      BY <1>0, <2>1 DEF LogInv, Numbered
    <3>2. Attached
      BY <3>1 DEF LogInv, Subscribed
    <3> QED
      BY <3>2 DEF Attached, EventLog
  <2>8. EventLog => Undelivered'
    BY <2>4, <2>7 DEF Undelivered
  <2>9. Handled <= Handled' /\ (EventLog => Handled' = Handled)
    BY <1>0, <1>1, <2>1, <2>5, <2>8 DEF Handled
  <2>10. Subscribed'
    BY <1>1, <1>a, <2>4, <2>6 DEF LogInv, Subscribed, SameTopics
  <2>11. Numbered'
    BY <1>1, <2>1, <2>6 DEF LogInv, Numbered
  <2> QED
    BY <1>0, <1>1, <2>9, <2>10, <2>11, BesideWriter
<1>4. CASE DispatchDone
  <2>1. /\ dispatch.pc = "call" /\ dispatch.calls = <<>> /\ queue' = queue
        /\ dispatch'.pc = "wait" /\ dispatch'.calls = <<>>
    BY <1>4 DEF DispatchDone
  <2>2. ~Undelivered /\ ~Undelivered'
    BY <2>1 DEF Undelivered, OfWriter
  <2>3. Handled' = Handled
    BY <1>1, <2>1, <2>2 DEF Handled
  <2>4. Subscribed'
    BY <1>1, <1>a, <2>1 DEF LogInv, Subscribed, SameTopics, OfLoop
  <2>5. Numbered'
    BY <1>1, <2>1 DEF LogInv, Numbered
  <2> QED
    BY <1>0, <1>1, <2>3, <2>4, <2>5, BesideWriter
<1> QED
  BY <1>2, <1>3, <1>4 DEF Dispatcher

\* A callback of the loop's: the writer is still called after it.
LEMMA CallbackBeside ==
  ASSUME LogInv, Typed, Typed', EventsKnown, UNCHANGED logVars, SameTopics,
         Calls("on_completed") \/ Calls("on_failed")
  PROVE  LogInv'
<1>0. Len(queue) \in Nat /\ clock \in Nat /\ Handled \in Int /\ Len(queue) <= clock
  BY HandledInt DEF LogInv, Numbered
<1>1. /\ dispatch.pc = "call" /\ dispatch.calls # <<>> /\ Head(dispatch.calls) # Writer
      /\ dispatch' = [dispatch EXCEPT !.calls = Tail(dispatch.calls)]
      /\ UNCHANGED <<clock, queue, exact, wild, drainer>>
  BY LoopAssumption DEF Calls
<1>2. dispatch'.pc = "call" /\ dispatch'.event = dispatch.event /\ dispatch'.calls = Tail(dispatch.calls)
  BY <1>1 DEF EventsKnown
<1>3. /\ dispatch'.calls \in OfWriter \cup OfLoop
      /\ dispatch'.calls \in OfWriter <=> dispatch.calls \in OfWriter
  BY <1>1, <1>2, CallsOneByOne DEF LogInv, Subscribed
<1>4. Undelivered' <=> Undelivered
  BY <1>1, <1>2, <1>3 DEF Undelivered, OfWriter
<1>5. Handled' = Handled
  BY <1>1, <1>4 DEF Handled
<1>6. Subscribed'
  BY <1>1, <1>2, <1>3 DEF LogInv, Subscribed, SameTopics, Attached
<1>7. Numbered'
  BY <1>1, <1>2 DEF LogInv, Numbered
<1> QED
  BY <1>0, <1>1, <1>5, <1>6, <1>7, BesideWriter DEF Roused

-----------------------------------------------------------------------------
(* What the writer's threads do with what they hold.                       *)

LEMMA AscendsOn ==
  ASSUME NEW s \in Seq(Event), NEW t \in Seq(Event), Ascends(s), Ascends(t),
         Earlier(ToSet(s), ToSet(t))
  PROVE  Ascends(s \o t)
<1>1. /\ Len(s) \in Nat /\ Len(t) \in Nat /\ Len(s \o t) = Len(s) + Len(t)
      /\ \A i \in 1..Len(s)+Len(t) : (s \o t)[i] = IF i <= Len(s) THEN s[i] ELSE t[i - Len(s)]
      /\ DOMAIN (s \o t) = 1..Len(s)+Len(t) /\ DOMAIN s = 1..Len(s) /\ DOMAIN t = 1..Len(t)
  BY ConcatProperties, LenProperties
<1>2. \A i \in DOMAIN s, j \in DOMAIN t : s[i].time < t[j].time
  BY DEF Earlier, ToSet
<1>3. ASSUME NEW i \in 1..Len(s)+Len(t), NEW j \in 1..Len(s)+Len(t), i < j
      PROVE  (s \o t)[i].time < (s \o t)[j].time
  <2>1. CASE j <= Len(s)
    <3>1. (s \o t)[i] = s[i] /\ (s \o t)[j] = s[j] /\ i \in DOMAIN s /\ j \in DOMAIN s
      BY <1>1, <1>3, <2>1
    <3> QED
      BY <1>3, <3>1 DEF Ascends
  <2>2. CASE i <= Len(s) /\ ~(j <= Len(s))
    <3>1. (s \o t)[i] = s[i] /\ (s \o t)[j] = t[j - Len(s)] /\ i \in DOMAIN s /\ j - Len(s) \in DOMAIN t
      BY <1>1, <1>3, <2>2
    <3> QED
      BY <1>2, <3>1
  <2>3. CASE ~(i <= Len(s))
    <3>1. /\ (s \o t)[i] = t[i - Len(s)] /\ (s \o t)[j] = t[j - Len(s)] /\ i - Len(s) < j - Len(s)
          /\ i - Len(s) \in DOMAIN t /\ j - Len(s) \in DOMAIN t
      BY <1>1, <1>3, <2>3
    <3> QED
      BY <3>1 DEF Ascends
  <2> QED
    BY <1>1, <1>3, <2>1, <2>2, <2>3
<1> QED
  BY <1>1, <1>3 DEF Ascends

LEMMA HandsHold ==
  ASSUME LogTypes
  PROVE  \A h \in Hand : Batch[h] \in Seq(Event) /\ Kept[h] = ToSet(Batch[h])
  BY DEF LogTypes, Hand, Batch, Kept

\* The events move from one place to another.
LEMMA MoveApart ==
  ASSUME Apart, NEW p \in Place, NEW q \in Place, p # q, received' = received,
         \A r \in Place : Kept'[r] = IF r = p THEN {} ELSE IF r = q THEN Kept[q] \cup Kept[p] ELSE Kept[r]
  PROVE  /\ \A x, y \in Place : x # y => Kept'[x] \cap Kept'[y] = {}
         /\ UNION {Kept'[x] : x \in Place} = received'
<1>1. \A x, y \in Place : x # y => Kept[x] \cap Kept[y] = {}
  BY DEF Apart
<1>2. \A e : e \in received <=> \E x \in Place : e \in Kept[x]
  BY DEF Apart
<1>3. \A x, y \in Place : x # y => Kept'[x] \cap Kept'[y] = {}
  BY <1>1
<1>4. \A e : e \in received <=> \E x \in Place : e \in Kept'[x]
  BY <1>2
<1> QED
  BY <1>3, <1>4

\* One hand takes what is in the buffer.
LEMMA TakesKeep ==
  ASSUME LogInv, NEW h \in Hand, Batch[h] = <<>>, buffer' = <<>>,
         UNCHANGED <<lines, dropped, received>>,
         LogTypes', Batch' = [Batch EXCEPT ![h] = buffer], syncer'.pc = "idle" => syncer.pc = "idle"
  PROVE  Apart' /\ InTurn' /\ Kept'.buffer = {}
<1>1. /\ \A g \in Hand : Batch[g] \in Seq(Event) /\ Kept[g] = ToSet(Batch[g])
      /\ \A g \in Hand : Batch'[g] \in Seq(Event) /\ Kept'[g] = ToSet(Batch'[g])
  BY HandsHold DEF LogInv, LogTypes, Hand, Batch, Kept
<1>2. Batch'[h] = buffer /\ \A g \in Hand : g # h => Batch'[g] = Batch[g]
  BY DEF Batch, Hand
<1>3. /\ Kept.lines = ToSet(lines) /\ Kept'.lines = Kept.lines
      /\ Kept.dropped = dropped /\ Kept'.dropped = dropped
      /\ Kept.buffer = ToSet(buffer) /\ Kept'.buffer = {}
  BY DEF Kept, ToSet
<1>4. Kept[h] = {}
  BY <1>1 DEF ToSet
<1>5. \A r \in Place : Kept'[r] = IF r = "buffer" THEN {}
                                  ELSE IF r = h THEN Kept[h] \cup Kept["buffer"] ELSE Kept[r]
  BY <1>1, <1>2, <1>3, <1>4 DEF Place, Hand
<1>6. /\ \A x, y \in Place : x # y => Kept'[x] \cap Kept'[y] = {}
      /\ UNION {Kept'[x] : x \in Place} = received'
  BY <1>5, MoveApart DEF LogInv, Place, Hand
<1>7. IsInjective(buffer') /\ IsInjective(lines') /\ \A g \in Hand : IsInjective(Batch'[g])
  BY <1>2 DEF LogInv, Apart, IsInjective
<1>8. Apart'
  BY <1>6, <1>7 DEF Apart
<1>9. InTurn'
  <2> SUFFICES ASSUME syncer'.pc = "idle"
               PROVE  /\ Ascends(lines') /\ Ascends(flusher'.batch) /\ Ascends(closer'.batch)
                      /\ Ascends(buffer')
                      /\ Earlier(Kept'.lines, Kept'.flusher \cup Kept'.closer \cup Kept'.buffer)
                      /\ Earlier(Kept'.flusher \cup Kept'.closer, Kept'.buffer)
    BY DEF InTurn, Ascends, Earlier
  <2>1. /\ Ascends(lines) /\ Ascends(flusher.batch) /\ Ascends(closer.batch) /\ Ascends(buffer)
        /\ Earlier(Kept.lines, Kept.flusher \cup Kept.closer \cup Kept.buffer)
    BY DEF LogInv, InTurn
  <2>2. flusher'.batch \in {flusher.batch, buffer} /\ closer'.batch \in {closer.batch, buffer}
    BY <1>2 DEF Batch, Hand
  <2>3. Ascends(buffer')
    BY DEF Ascends
  <2>4. Kept'.flusher \cup Kept'.closer \subseteq Kept.flusher \cup Kept.closer \cup Kept.buffer
    BY <1>5 DEF Place, Hand
  <2>5. Earlier(Kept'.lines, Kept'.flusher \cup Kept'.closer \cup Kept'.buffer)
    BY <1>3, <2>1, <2>4 DEF Earlier
  <2> QED
    BY <1>3, <2>1, <2>2, <2>3, <2>5 DEF Earlier, Ascends
<1> QED
  BY <1>3, <1>8, <1>9

\* One hand writes what it holds; the flush thread and stop never hold something at once.
LEMMA WritesKeep ==
  ASSUME LogInv, NEW h \in Hand, lines' = lines \o Batch[h],
         UNCHANGED <<buffer, dropped, received>>,
         LogTypes', Batch' = [Batch EXCEPT ![h] = <<>>], syncer'.pc = "idle" => syncer.pc = "idle" /\ h # "syncer",
         flusher.batch = <<>> \/ closer.batch = <<>>
  PROVE  Apart' /\ InTurn' /\ Kept'.buffer = Kept.buffer
<1>1. /\ \A g \in Hand : Batch[g] \in Seq(Event) /\ Kept[g] = ToSet(Batch[g])
      /\ \A g \in Hand : Batch'[g] \in Seq(Event) /\ Kept'[g] = ToSet(Batch'[g])
      /\ lines \in Seq(Event)
  BY HandsHold DEF LogInv, LogTypes, Hand, Batch, Kept
<1>2. Batch'[h] = <<>> /\ \A g \in Hand : g # h => Batch'[g] = Batch[g]
  BY DEF Batch, Hand
<1>3. /\ Kept.lines = ToSet(lines) /\ Kept'.lines = ToSet(lines')
      /\ Kept'.dropped = Kept.dropped /\ Kept'.buffer = Kept.buffer
  BY DEF Kept
<1>4. /\ \A x, y \in Place : x # y => Kept[x] \cap Kept[y] = {}
      /\ "lines" # h /\ "lines" \in Place /\ h \in Place
  BY DEF LogInv, Apart, Place, Hand
<1>5. /\ ToSet(lines') = ToSet(lines) \cup ToSet(Batch[h])
      /\ IsInjective(lines')
  <2>1. ToSet(lines) \cap ToSet(Batch[h]) = {}
    BY <1>1, <1>3, <1>4
  <2> QED
    BY <1>1, <2>1, ToSetOfConcat DEF LogInv, Apart
<1>6. \A r \in Place : Kept'[r] = IF r = h THEN {}
                                  ELSE IF r = "lines" THEN Kept["lines"] \cup Kept[h] ELSE Kept[r]
  <2>1. Kept'[h] = {}
    BY <1>1, <1>2 DEF ToSet
  <2> QED
    BY <1>1, <1>2, <1>3, <1>5, <2>1 DEF Place, Hand
<1>7. /\ \A x, y \in Place : x # y => Kept'[x] \cap Kept'[y] = {}
      /\ UNION {Kept'[x] : x \in Place} = received'
  BY <1>4, <1>6, MoveApart DEF LogInv
<1>8. IsInjective(buffer') /\ \A g \in Hand : IsInjective(Batch'[g])
  BY <1>2 DEF LogInv, Apart, IsInjective
<1>9. Apart'
  BY <1>5, <1>7, <1>8 DEF Apart
<1>10. InTurn'
  <2> SUFFICES ASSUME syncer'.pc = "idle"
               PROVE  /\ Ascends(lines') /\ Ascends(flusher'.batch) /\ Ascends(closer'.batch)
                      /\ Ascends(buffer')
                      /\ Earlier(Kept'.lines, Kept'.flusher \cup Kept'.closer \cup Kept'.buffer)
                      /\ Earlier(Kept'.flusher \cup Kept'.closer, Kept'.buffer)
    BY DEF InTurn, Ascends, Earlier
  <2>1. /\ Ascends(lines) /\ Ascends(flusher.batch) /\ Ascends(closer.batch) /\ Ascends(buffer)
        /\ Earlier(Kept.lines, Kept.flusher \cup Kept.closer \cup Kept.buffer)
        /\ Earlier(Kept.flusher \cup Kept.closer, Kept.buffer)
        /\ h \in {"flusher", "closer"}
    BY DEF LogInv, InTurn, Hand
  <2>2. Kept[h] \subseteq Kept.flusher \cup Kept.closer /\ Ascends(Batch[h])
    BY <2>1 DEF Batch
  <2>3. Ascends(lines')
    <3>1. Earlier(ToSet(lines), ToSet(Batch[h]))
      BY <1>1, <1>3, <2>1, <2>2 DEF Earlier
    <3> QED
      BY <1>1, <2>1, <2>2, <3>1, AscendsOn
  <2>4. flusher'.batch \in {flusher.batch, <<>>} /\ closer'.batch \in {closer.batch, <<>>}
    BY <1>2 DEF Batch, Hand
  <2>5. Ascends(flusher'.batch) /\ Ascends(closer'.batch)
    <3>1. Ascends(<<>>)
      BY DEF Ascends
    <3> QED
      BY <2>1, <2>4, <3>1
  <2>6. Ascends(buffer')
    BY <2>1 DEF Ascends
  <2>7. Kept'.flusher \subseteq Kept.flusher /\ Kept'.closer \subseteq Kept.closer
        /\ Kept'.lines = Kept.lines \cup Kept[h]
    BY <1>4, <1>6 DEF Place
  <2>8. Kept[h] = {} \/ Kept'.flusher \cup Kept'.closer = {}
    <3>1. ToSet(<<>>) = {}
      BY DEF ToSet
    <3>2. Kept["flusher"] = {} \/ Kept["closer"] = {}
      BY <1>1, <3>1 DEF Batch, Hand
    <3> QED
      BY <1>6, <2>1, <3>2 DEF Place
  <2>9. Earlier(Kept'.lines, Kept'.flusher \cup Kept'.closer \cup Kept'.buffer)
    BY <1>3, <2>1, <2>2, <2>7, <2>8 DEF Earlier
  <2>10. Earlier(Kept'.flusher \cup Kept'.closer, Kept'.buffer)
    BY <1>3, <2>1, <2>7 DEF Earlier
  <2> QED
    BY <2>3, <2>5, <2>6, <2>9, <2>10
<1> QED
  BY <1>3, <1>9, <1>10

\* One hand throws away what it holds.
LEMMA DropsKeep ==
  ASSUME LogInv, NEW h \in Hand, dropped' = dropped \cup ToSet(Batch[h]),
         UNCHANGED <<buffer, lines, received>>,
         LogTypes', Batch' = [Batch EXCEPT ![h] = <<>>], syncer'.pc = "idle" => syncer.pc = "idle"
  PROVE  Apart' /\ InTurn' /\ Kept'.buffer = Kept.buffer
<1>1. /\ \A g \in Hand : Batch[g] \in Seq(Event) /\ Kept[g] = ToSet(Batch[g])
      /\ \A g \in Hand : Batch'[g] \in Seq(Event) /\ Kept'[g] = ToSet(Batch'[g])
  BY HandsHold DEF LogInv, LogTypes, Hand, Batch, Kept
<1>2. Batch'[h] = <<>> /\ \A g \in Hand : g # h => Batch'[g] = Batch[g]
  BY DEF Batch, Hand
<1>3. /\ Kept'.lines = Kept.lines /\ Kept'.buffer = Kept.buffer
      /\ Kept.dropped = dropped /\ Kept'.dropped = dropped'
  BY DEF Kept
<1>4. "dropped" # h /\ "dropped" \in Place /\ h \in Place
  BY DEF Place, Hand
<1>5. \A r \in Place : Kept'[r] = IF r = h THEN {}
                                  ELSE IF r = "dropped" THEN Kept["dropped"] \cup Kept[h] ELSE Kept[r]
  <2>1. Kept'[h] = {}
    BY <1>1, <1>2 DEF ToSet
  <2> QED
    BY <1>1, <1>2, <1>3, <2>1 DEF Place, Hand
<1>6. /\ \A x, y \in Place : x # y => Kept'[x] \cap Kept'[y] = {}
      /\ UNION {Kept'[x] : x \in Place} = received'
  BY <1>4, <1>5, MoveApart DEF LogInv
<1>7. IsInjective(buffer') /\ IsInjective(lines') /\ \A g \in Hand : IsInjective(Batch'[g])
  BY <1>2 DEF LogInv, Apart, IsInjective
<1>8. Apart'
  BY <1>6, <1>7 DEF Apart
<1>9. InTurn'
  <2> SUFFICES ASSUME syncer'.pc = "idle"
               PROVE  /\ Ascends(lines') /\ Ascends(flusher'.batch) /\ Ascends(closer'.batch)
                      /\ Ascends(buffer')
                      /\ Earlier(Kept'.lines, Kept'.flusher \cup Kept'.closer \cup Kept'.buffer)
                      /\ Earlier(Kept'.flusher \cup Kept'.closer, Kept'.buffer)
    BY DEF InTurn, Ascends, Earlier
  <2>1. /\ Ascends(lines) /\ Ascends(flusher.batch) /\ Ascends(closer.batch) /\ Ascends(buffer)
        /\ Earlier(Kept.lines, Kept.flusher \cup Kept.closer \cup Kept.buffer)
        /\ Earlier(Kept.flusher \cup Kept.closer, Kept.buffer)
    BY DEF LogInv, InTurn
  <2>2. flusher'.batch \in {flusher.batch, <<>>} /\ closer'.batch \in {closer.batch, <<>>}
    BY <1>2 DEF Batch, Hand
  <2>3. Kept'.flusher \subseteq Kept.flusher /\ Kept'.closer \subseteq Kept.closer
    BY <1>5 DEF Place
  <2>4. Ascends(<<>>)
    BY DEF Ascends
  <2>5. Ascends(lines') /\ Ascends(buffer')
    BY <2>1 DEF Ascends
  <2>6. Earlier(Kept'.lines, Kept'.flusher \cup Kept'.closer \cup Kept'.buffer)
    BY <1>3, <2>1, <2>3 DEF Earlier
  <2>7. Earlier(Kept'.flusher \cup Kept'.closer, Kept'.buffer)
    BY <1>3, <2>1, <2>3 DEF Earlier
  <2> QED
    BY <2>1, <2>2, <2>4, <2>5, <2>6, <2>7
<1> QED
  BY <1>3, <1>8, <1>9

-----------------------------------------------------------------------------
(* The writer's steps.                                                     *)

\* The bus is left alone, and so is what has been received.
OnlyWriter ==
  UNCHANGED <<clock, queue, exact, wild, dispatch, kind, received, loop, phase>>

\* A step of the writer: what is left to show.
LEMMA WriterStill ==
  ASSUME LogInv, OnlyWriter, LogTypes', Apart', InTurn', HandsEmpty', Drains'
  PROVE  LogInv'
<1>1. Subscribed' /\ Numbered'
  BY DEF LogInv, OnlyWriter, Subscribed, Numbered, Attached
<1>2. Handled' = Handled /\ (EventLog' <=> EventLog)
  BY DEF OnlyWriter, Handled, Undelivered, EventLog, OfWriter
<1>3. Received'
  BY <1>2 DEF LogInv, OnlyWriter, Received
<1> QED
  BY <1>1, <1>3 DEF LogInv

\* Nothing moves.
LEMMA NothingMoves ==
  ASSUME LogInv, LogTypes', Batch' = Batch, UNCHANGED <<buffer, lines, dropped, received>>,
         syncer'.pc = "idle" => syncer.pc = "idle"
  PROVE  Apart' /\ InTurn' /\ Kept'.buffer = Kept.buffer
<1>1. Kept' = Kept
  BY DEF Kept, Batch
<1>2. flusher'.batch = flusher.batch /\ closer'.batch = closer.batch
  BY DEF Batch
<1>3. Apart'
  BY <1>1 DEF LogInv, Apart
<1>4. InTurn'
  BY <1>1, <1>2 DEF LogInv, InTurn, Ascends
<1> QED
  BY <1>1, <1>3, <1>4

\* Neither the drain nor a call of flush_sync begins or ends, or all is taken from the buffer.
LEMMA DrainsStill ==
  ASSUME LogInv, OnlyWriter, Kept'.buffer \subseteq Kept.buffer,
         UNCHANGED <<before, drainer>>,
         closer'.pc \in {"none", "join", "drain"} => closer.pc \in {"none", "join", "drain"},
         EventLog /\ closer'.pc \in {"write", "close", "stopped"} =>
           closer.pc \in {"write", "close", "stopped"},
         syncer'.pc # "idle" => \/ syncer.pc # "idle" /\ syncer'.seen = syncer.seen
                                \/ Kept'.buffer = {} /\ syncer'.seen = received
  PROVE  Drains'
<1>1. Handled' = Handled /\ (EventLog' <=> EventLog) /\ received' = received /\ clock' = clock
  BY DEF OnlyWriter, Handled, Undelivered, EventLog, OfWriter
<1>2. closer'.pc \in {"none", "join", "drain"} => drainer' = "none"
  BY DEF LogInv, Drains
<1>4. EventLog /\ closer'.pc \in {"write", "close", "stopped"} =>
        \A n \in 1..before : \E e \in received \ Kept'.buffer : e.time = n
  BY DEF LogInv, Drains
<1>5. syncer'.pc # "idle" => syncer'.seen \subseteq received \ Kept'.buffer
  BY DEF LogInv, Drains
<1> QED
  BY <1>1, <1>2, <1>4, <1>5 DEF LogInv, Drains

\* flush_loop.
LEMMA FlusherKeeps ==
  ASSUME LogInv, Flusher, UNCHANGED <<loop, phase>>
  PROVE  LogInv'
<1>1. /\ OnlyWriter
      /\ UNCHANGED <<kind, running, open, syncer, closer, before, drainer>>
      /\ kind' = kind /\ received' = received
  BY DEF Flusher, FlushEnter, FlushTake, FlushCheck, FlushWrite, OnlyWriter, busVars
<1>2. LogTypes /\ HandsEmpty
  BY DEF LogInv
<1>3. flusher \in [pc : {"top", "wait", "check", "write", "exited"}, batch : Seq(Event)]
  BY <1>2 DEF LogTypes
<1>4. flusher.pc # "exited" => kind # "off" /\ closer.pc \in {"none", "join"} /\ closer.batch = <<>>
  BY <1>2 DEF HandsEmpty
<1>5. Kept'.buffer \subseteq Kept.buffer => Drains'
  <2> SUFFICES ASSUME Kept'.buffer \subseteq Kept.buffer
               PROVE  Drains'
    OBVIOUS
  <2>1. closer'.pc = closer.pc /\ syncer'.pc = syncer.pc /\ syncer'.seen = syncer.seen
    BY <1>1
  <2>2. /\ OnlyWriter /\ UNCHANGED <<before, drainer>>
        /\ closer'.pc \in {"none", "join", "drain"} => closer.pc \in {"none", "join", "drain"}
    BY <1>1
  <2>3. syncer'.pc # "idle" => \/ syncer.pc # "idle" /\ syncer'.seen = syncer.seen
                               \/ Kept'.buffer = {} /\ syncer'.seen = received
    BY <2>1
  <2> QED
    BY <2>1, <2>2, <2>3, DrainsStill
<1>6. CASE FlushEnter
  <2>1. /\ flusher.pc = "top" /\ flusher.batch = <<>>
        /\ flusher' = [pc |-> IF running THEN "wait" ELSE "exited", batch |-> <<>>]
        /\ UNCHANGED <<buffer, lines, dropped>>
    BY <1>2, <1>6 DEF FlushEnter, HandsEmpty, Idle
  <2>2. flusher'.batch = <<>> /\ flusher'.pc \in {"wait", "exited"}
        /\ flusher' \in [pc : {"top", "wait", "check", "write", "exited"}, batch : Seq(Event)]
    BY <2>1
  <2>3. LogTypes' /\ Batch' = Batch
    BY <1>1, <1>2, <2>1, <2>2 DEF LogTypes, Batch
  <2>4. HandsEmpty'
    BY <1>1, <1>2, <1>4, <2>1, <2>2 DEF HandsEmpty
  <2> QED
    BY <1>1, <1>5, <2>1, <2>3, <2>4, NothingMoves, WriterStill
<1>7. CASE FlushTake
  <2>1. /\ flusher.pc = "wait" /\ flusher.batch = <<>>
        /\ flusher' = [pc |-> "check", batch |-> buffer] /\ buffer' = <<>>
        /\ UNCHANGED <<lines, dropped>>
    BY <1>2, <1>7 DEF FlushTake, HandsEmpty
  <2>2. LogTypes' /\ Batch["flusher"] = <<>> /\ Batch' = [Batch EXCEPT !["flusher"] = buffer]
    BY <1>1, <1>2, <2>1 DEF LogTypes, Batch
  <2>3. HandsEmpty'
    BY <1>1, <1>2, <1>4, <2>1 DEF HandsEmpty
  <2> QED
    BY <1>1, <1>5, <2>1, <2>2, <2>3, TakesKeep, WriterStill DEF Hand
<1>8. CASE FlushCheck
  <2>1. CASE open /\ flusher.batch # <<>>
    <3>1. /\ flusher.pc = "check" /\ flusher' = [flusher EXCEPT !.pc = "write"]
          /\ UNCHANGED <<buffer, lines, dropped>>
      BY <1>8, <2>1 DEF FlushCheck
    <3>2. flusher'.pc = "write" /\ flusher'.batch = flusher.batch
          /\ flusher' \in [pc : {"top", "wait", "check", "write", "exited"}, batch : Seq(Event)]
      BY <1>3, <3>1
    <3>3. LogTypes' /\ Batch' = Batch
      BY <1>1, <1>2, <3>1, <3>2 DEF LogTypes, Batch
    <3>4. HandsEmpty'
      BY <1>1, <1>2, <1>4, <3>1, <3>2 DEF HandsEmpty
    <3> QED
      BY <1>1, <1>5, <3>1, <3>3, <3>4, NothingMoves, WriterStill
  <2>2. CASE ~(open /\ flusher.batch # <<>>)
    <3>1. /\ flusher.pc = "check" /\ flusher' = Idle("top")
          /\ dropped' = dropped \cup ToSet(flusher.batch)
          /\ UNCHANGED <<buffer, lines>>
      BY <1>8, <2>2 DEF FlushCheck
    <3>2. flusher'.pc = "top" /\ flusher'.batch = <<>>
          /\ flusher' \in [pc : {"top", "wait", "check", "write", "exited"}, batch : Seq(Event)]
      BY <3>1 DEF Idle
    <3>3. LogTypes' /\ Batch["flusher"] = flusher.batch /\ Batch' = [Batch EXCEPT !["flusher"] = <<>>]
      BY <1>1, <1>2, <3>1, <3>2 DEF LogTypes, Batch
    <3>4. syncer.pc = "idle" => dropped' = {}
      <4>1. syncer.pc = "idle" => open
        BY <1>2, <1>4, <3>1 DEF HandsEmpty
      <4>2. syncer.pc = "idle" => ToSet(flusher.batch) = {} /\ dropped = {}
        BY <1>2, <2>2, <4>1 DEF HandsEmpty, ToSet
      <4> QED
        BY <3>1, <4>2
    <3>5. HandsEmpty'
      BY <1>1, <1>2, <1>4, <3>1, <3>2, <3>4 DEF HandsEmpty
    <3> QED
      BY <1>1, <1>5, <3>1, <3>3, <3>5, DropsKeep, WriterStill DEF Hand
  <2> QED
    BY <2>1, <2>2
<1>9. CASE FlushWrite
  <2>1. /\ flusher.pc = "write" /\ flusher' = Idle("top") /\ lines' = lines \o flusher.batch
        /\ UNCHANGED <<buffer, dropped>>
    BY <1>9 DEF FlushWrite
  <2>2. flusher'.pc = "top" /\ flusher'.batch = <<>>
        /\ flusher' \in [pc : {"top", "wait", "check", "write", "exited"}, batch : Seq(Event)]
    BY <2>1 DEF Idle
  <2>3. lines' \in Seq(Event)
    BY <1>2, <2>1, ToSetOfConcat DEF LogTypes
  <2>4. LogTypes' /\ Batch["flusher"] = flusher.batch /\ Batch' = [Batch EXCEPT !["flusher"] = <<>>]
    <3>1. LogTypes'
      BY <1>1, <1>2, <2>1, <2>2, <2>3 DEF LogTypes
    <3> QED
      BY <1>1, <2>2, <3>1 DEF Batch
  <2>5. HandsEmpty'
    BY <1>1, <1>2, <1>4, <2>1, <2>2 DEF HandsEmpty
  <2> QED
    BY <1>1, <1>4, <1>5, <2>1, <2>4, <2>5, WritesKeep, WriterStill DEF Hand
<1> QED
  BY <1>6, <1>7, <1>8, <1>9 DEF Flusher

\* The record of a caller of flush_sync that has written or thrown away.
LEMMA SyncerLeaves ==
  ASSUME syncer \in [pc : {"idle", "lock", "rotate", "returned"}, batch : Seq(Event), seen : SUBSET Event],
         NEW pc \in {"rotate", "returned"}, syncer' = [syncer EXCEPT !.pc = pc, !.batch = <<>>]
  PROVE  /\ syncer'.pc = pc /\ syncer'.batch = <<>> /\ syncer'.seen = syncer.seen
         /\ syncer' \in [pc : {"idle", "lock", "rotate", "returned"}, batch : Seq(Event), seen : SUBSET Event]
<1>1. syncer' = [pc |-> pc, batch |-> <<>>, seen |-> syncer.seen]
  OBVIOUS
<1>2. <<>> \in Seq(Event) /\ syncer.seen \in SUBSET Event
  OBVIOUS
<1>3. syncer'.pc = pc /\ syncer'.batch = <<>> /\ syncer'.seen = syncer.seen
  BY <1>1
<1> QED
  BY <1>1, <1>2, <1>3

\* flush_sync, and rotations in it.
LEMMA SyncerKeeps ==
  ASSUME LogInv, SyncTake \/ SyncRotate \/ Syncer, kind # "off", UNCHANGED <<loop, phase>>
  PROVE  LogInv'
<1>1. /\ OnlyWriter
      /\ UNCHANGED <<running, flusher, closer, before, drainer>>
      /\ kind' = kind /\ received' = received
  BY DEF Syncer, SyncTake, SyncNothing, SyncWrite, SyncRotate, SyncReopen, OnlyWriter, busVars
<1>2. LogTypes /\ HandsEmpty
  BY DEF LogInv
<1>3. syncer \in [pc : {"idle", "lock", "rotate", "returned"}, batch : Seq(Event), seen : SUBSET Event]
  BY <1>2 DEF LogTypes
<1>4. flusher.batch = <<>> \/ closer.batch = <<>>
  BY <1>2 DEF HandsEmpty
<1>5. ASSUME Kept'.buffer \subseteq Kept.buffer, syncer'.seen = syncer.seen, syncer.pc # "idle"
      PROVE  Drains'
  BY <1>1, <1>5, DrainsStill
<1>6. CASE SyncTake
  <2>1. /\ syncer.pc \in {"idle", "returned"} /\ syncer.batch = <<>>
        /\ syncer' = [pc |-> "lock", batch |-> buffer, seen |-> received] /\ buffer' = <<>>
        /\ UNCHANGED <<lines, dropped, open>>
    BY <1>2, <1>6 DEF SyncTake, HandsEmpty
  <2>2. LogTypes'
    BY <1>1, <1>2, <2>1 DEF LogTypes, LogInv, Received
  <2>3. Batch["syncer"] = <<>> /\ Batch' = [Batch EXCEPT !["syncer"] = buffer] /\ syncer'.pc = "lock"
    BY <1>1, <2>1 DEF Batch
  <2>4. HandsEmpty'
    BY <1>1, <1>2, <2>1, <2>3 DEF HandsEmpty
  <2>5. Apart' /\ InTurn' /\ Kept'.buffer = {}
    BY <1>1, <2>1, <2>2, <2>3, TakesKeep DEF Hand
  <2>6. Drains'
    <3>1. syncer'.seen = received
      BY <2>1
    <3> QED
      BY <1>1, <2>5, <3>1, DrainsStill
  <2> QED
    BY <1>1, <2>2, <2>4, <2>5, <2>6, WriterStill
<1>7. CASE SyncNothing
  <2>1. /\ syncer.pc = "lock" /\ syncer' = [syncer EXCEPT !.pc = "returned", !.batch = <<>>]
        /\ dropped' = dropped \cup ToSet(syncer.batch) /\ UNCHANGED <<buffer, lines, open>>
    BY <1>7 DEF SyncNothing
  <2>2. /\ syncer'.pc = "returned" /\ syncer'.batch = <<>> /\ syncer'.seen = syncer.seen
        /\ syncer' \in [pc : {"idle", "lock", "rotate", "returned"}, batch : Seq(Event), seen : SUBSET Event]
    BY <1>3, <2>1, SyncerLeaves
  <2>3. LogTypes'
    BY <1>1, <1>2, <2>1, <2>2 DEF LogTypes
  <2>4. Batch["syncer"] = syncer.batch /\ Batch' = [Batch EXCEPT !["syncer"] = <<>>]
    BY <1>1, <2>2 DEF Batch
  <2>5. HandsEmpty'
    BY <1>1, <1>2, <2>1, <2>2 DEF HandsEmpty
  <2>6. Apart' /\ InTurn' /\ Kept'.buffer = Kept.buffer
    BY <1>1, <2>1, <2>2, <2>3, <2>4, DropsKeep DEF Hand
  <2> QED
    BY <1>1, <1>5, <2>1, <2>2, <2>3, <2>5, <2>6, WriterStill
<1>8. CASE SyncWrite \/ SyncRotate
  <2>1. /\ syncer.pc = "lock" /\ lines' = lines \o syncer.batch /\ UNCHANGED <<buffer, dropped>>
        /\ \/ open' = open /\ syncer' = [syncer EXCEPT !.pc = "returned", !.batch = <<>>]
           \/ syncer' = [syncer EXCEPT !.pc = "rotate", !.batch = <<>>]
    BY <1>8 DEF SyncWrite, SyncRotate
  <2>2. /\ syncer'.batch = <<>> /\ syncer'.seen = syncer.seen
        /\ (syncer'.pc = "returned" /\ open' = open) \/ syncer'.pc = "rotate"
        /\ syncer' \in [pc : {"idle", "lock", "rotate", "returned"}, batch : Seq(Event), seen : SUBSET Event]
    BY <1>3, <2>1, SyncerLeaves
  <2>3. lines' \in Seq(Event)
    BY <1>2, <2>1, ToSetOfConcat DEF LogTypes
  <2>4. LogTypes'
    BY <1>1, <1>2, <2>1, <2>2, <2>3 DEF LogTypes
  <2>5. Batch["syncer"] = syncer.batch /\ Batch' = [Batch EXCEPT !["syncer"] = <<>>]
    BY <1>1, <2>2 DEF Batch
  <2>6. HandsEmpty'
    BY <1>1, <1>2, <2>1, <2>2 DEF HandsEmpty
  <2>7. Apart' /\ InTurn' /\ Kept'.buffer = Kept.buffer
    BY <1>1, <1>4, <2>1, <2>2, <2>4, <2>5, WritesKeep DEF Hand
  <2> QED
    BY <1>1, <1>5, <2>1, <2>2, <2>4, <2>6, <2>7, WriterStill
<1>9. CASE SyncReopen
  <2>1. /\ syncer.pc = "rotate" /\ syncer' = [syncer EXCEPT !.pc = "returned"] /\ open' = TRUE
        /\ UNCHANGED <<buffer, lines, dropped>>
    BY <1>9 DEF SyncReopen
  <2>2. /\ syncer'.pc = "returned" /\ syncer'.batch = syncer.batch /\ syncer'.seen = syncer.seen
        /\ syncer' \in [pc : {"idle", "lock", "rotate", "returned"}, batch : Seq(Event), seen : SUBSET Event]
    BY <1>3, <2>1
  <2>3. LogTypes' /\ Batch' = Batch
    BY <1>1, <1>2, <2>1, <2>2 DEF LogTypes, Batch
  <2>4. HandsEmpty'
    BY <1>1, <1>2, <2>1, <2>2 DEF HandsEmpty
  <2>5. Apart' /\ InTurn' /\ Kept'.buffer = Kept.buffer
    BY <1>1, <2>1, <2>2, <2>3, NothingMoves
  <2> QED
    BY <1>1, <1>5, <2>1, <2>2, <2>3, <2>4, <2>5, WriterStill
<1> QED
  BY <1>6, <1>7, <1>8, <1>9 DEF Syncer

\* stop.
LEMMA CloserKeeps ==
  ASSUME LogInv, Typed, StopCall \/ Closer, kind # "off", UNCHANGED <<loop, phase>>
  PROVE  LogInv'
<1>1. /\ OnlyWriter
      /\ UNCHANGED <<flusher, syncer, dropped>>
      /\ kind' = kind /\ received' = received
      /\ clock' = clock /\ clock \in Nat
  BY DEF Closer, StopCall, StopJoin, StopDrain, DrainCall, StopTake, StopWrite, StopClose, OnlyWriter,
         busVars, Typed
<1>2. LogTypes /\ HandsEmpty
  BY DEF LogInv
<1> DEFINE Pcs == {"none", "join", "drain", "draining", "write", "close", "stopped"}
<1>3. closer \in [pc : Pcs, batch : Seq(Event)] /\ kind \in {"event_log", "session"}
  BY <1>2 DEF LogTypes, Kind
<1>4. ASSUME UNCHANGED <<before, drainer>>, Kept'.buffer \subseteq Kept.buffer,
             closer'.pc \in {"none", "join", "drain"} => closer.pc \in {"none", "join", "drain"},
             EventLog /\ closer'.pc \in {"write", "close", "stopped"} =>
               closer.pc \in {"write", "close", "stopped"}
      PROVE  Drains'
  BY <1>1, <1>4, DrainsStill
<1>5. Handled' = Handled /\ (EventLog' <=> EventLog)
  BY <1>1 DEF OnlyWriter, Handled, Undelivered, EventLog, OfWriter
<1>6. CASE StopCall
  <2>1. /\ closer.pc = "none" /\ closer' = [pc |-> "join", batch |-> <<>>] /\ before' = clock
        /\ UNCHANGED <<buffer, open, lines, drainer>> /\ closer.batch = <<>>
    BY <1>2, <1>6 DEF StopCall, busVars, Idle, HandsEmpty
  <2>2. LogTypes' /\ Batch' = Batch
    BY <1>1, <1>2, <2>1 DEF LogTypes, Batch
  <2>3. HandsEmpty'
    BY <1>1, <1>2, <1>3, <2>1 DEF HandsEmpty
  <2>4. Apart' /\ InTurn' /\ Kept'.buffer = Kept.buffer
    BY <1>1, <2>1, <2>2, NothingMoves
  <2>5. Drains'
    <3>1. drainer = "none" /\ closer'.pc = "join"
      BY <2>1 DEF LogInv, Drains
    <3> QED
      BY <1>1, <1>5, <2>1, <2>4, <3>1 DEF LogInv, Drains
  <2> QED
    BY <1>1, <2>2, <2>3, <2>4, <2>5, WriterStill
<1>7. CASE StopJoin
  <2>1. /\ closer.pc = "join" /\ flusher.pc = "exited" /\ closer.batch = <<>>
        /\ closer' = [pc |-> IF EventLog THEN "drain" ELSE "close", batch |-> <<>>]
        /\ UNCHANGED <<running, buffer, open, lines, before, drainer>>
    BY <1>2, <1>7 DEF StopJoin, busVars, Idle, HandsEmpty
  <2>2. closer'.pc = (IF EventLog THEN "drain" ELSE "close") /\ closer'.batch = <<>>
        /\ closer' \in [pc : Pcs, batch : Seq(Event)]
    BY <2>1
  <2>3. LogTypes' /\ Batch' = Batch
    BY <1>1, <1>2, <2>1, <2>2 DEF LogTypes, Batch
  <2>4. HandsEmpty'
    BY <1>1, <1>2, <1>3, <2>1, <2>2 DEF HandsEmpty, EventLog
  <2>5. Apart' /\ InTurn' /\ Kept'.buffer = Kept.buffer
    BY <1>1, <2>1, <2>3, NothingMoves
  <2>6. Drains'
    BY <1>4, <2>1, <2>2, <2>5
  <2> QED
    BY <1>1, <2>3, <2>4, <2>5, <2>6, WriterStill
<1>8. CASE StopDrain
  <2>1. /\ closer.pc = "drain" /\ flusher.pc = "exited" /\ closer.batch = <<>>
        /\ closer' = [pc |-> "draining", batch |-> <<>>] /\ drainer' = "awake"
        /\ UNCHANGED <<running, buffer, open, lines, before>>
    BY <1>2, <1>8 DEF StopDrain, DrainCall, Idle, HandsEmpty
  <2>2. LogTypes' /\ Batch' = Batch
    BY <1>1, <1>2, <2>1 DEF LogTypes, Batch
  <2>3. HandsEmpty'
    BY <1>1, <1>2, <1>3, <2>1 DEF HandsEmpty
  <2>4. Apart' /\ InTurn' /\ Kept'.buffer = Kept.buffer
    BY <1>1, <2>1, <2>2, NothingMoves
  <2>5. Drains'
    BY <1>1, <1>5, <2>1, <2>4 DEF LogInv, Drains
  <2> QED
    BY <1>1, <2>2, <2>3, <2>4, <2>5, WriterStill
<1>9. CASE StopTake
  <2>1. /\ closer.pc = "draining" /\ drainer = "drained" /\ flusher.pc = "exited" /\ closer.batch = <<>>
        /\ closer' = [pc |-> "write", batch |-> buffer] /\ buffer' = <<>>
        /\ UNCHANGED <<running, open, lines, before, drainer>>
    BY <1>2, <1>9 DEF StopTake, busVars, HandsEmpty
  <2>2. LogTypes'
    BY <1>1, <1>2, <2>1 DEF LogTypes
  <2>3. Batch["closer"] = <<>> /\ Batch' = [Batch EXCEPT !["closer"] = buffer] /\ closer'.pc = "write"
    BY <1>1, <2>1 DEF Batch
  <2>4. HandsEmpty'
    BY <1>1, <1>2, <1>3, <2>1, <2>3 DEF HandsEmpty
  <2>5. Apart' /\ InTurn' /\ Kept'.buffer = {}
    BY <1>1, <2>1, <2>2, <2>3, TakesKeep DEF Hand
  <2>6. EventLog => \A n \in 1..before : \E e \in received : e.time = n
    <3> SUFFICES ASSUME EventLog
                 PROVE  \A n \in 1..before : \E e \in received : e.time = n
      OBVIOUS
    <3>1. before <= Handled /\ before \in Nat /\ Handled \in Int
      BY <1>2, <2>1, HandledInt DEF LogInv, Drains, LogTypes
    <3>2. \A n \in 1..Handled : \E e \in received : e.time = n
      BY DEF LogInv, Received
    <3> QED
      BY <3>1, <3>2
  <2>7. Drains'
    BY <1>1, <1>5, <2>1, <2>3, <2>5, <2>6 DEF LogInv, Drains
  <2> QED
    BY <1>1, <2>2, <2>4, <2>5, <2>7, WriterStill
<1>10. CASE StopWrite
  <2>1. /\ closer.pc = "write" /\ closer' = [pc |-> "close", batch |-> <<>>]
        /\ lines' = lines \o closer.batch
        /\ UNCHANGED <<running, buffer, open, before, drainer>>
    BY <1>10 DEF StopWrite, busVars, Idle
  <2>2. flusher.pc = "exited" /\ flusher.batch = <<>> /\ kind # "session"
    BY <1>2, <2>1 DEF HandsEmpty
  <2>3. lines' \in Seq(Event)
    BY <1>2, <2>1, ToSetOfConcat DEF LogTypes
  <2>4. LogTypes'
    BY <1>1, <1>2, <2>1, <2>3 DEF LogTypes
  <2>5. Batch["closer"] = closer.batch /\ Batch' = [Batch EXCEPT !["closer"] = <<>>] /\ closer'.pc = "close"
    BY <1>1, <2>1 DEF Batch
  <2>6. HandsEmpty'
    BY <1>1, <1>2, <1>3, <2>1, <2>2, <2>5 DEF HandsEmpty
  <2>7. Apart' /\ InTurn' /\ Kept'.buffer = Kept.buffer
    BY <1>1, <2>1, <2>2, <2>4, <2>5, WritesKeep DEF Hand
  <2>8. Drains'
    BY <1>4, <2>1, <2>5, <2>7
  <2> QED
    BY <1>1, <2>4, <2>6, <2>7, <2>8, WriterStill
<1>11. CASE StopClose
  <2>1. /\ closer.pc = "close" /\ closer' = [pc |-> "stopped", batch |-> <<>>] /\ closer.batch = <<>>
        /\ UNCHANGED <<running, buffer, lines, before, drainer>>
    BY <1>2, <1>11 DEF StopClose, busVars, Idle, HandsEmpty
  <2>2. LogTypes' /\ Batch' = Batch
    BY <1>1, <1>2, <2>1 DEF LogTypes, Batch
  <2>3. HandsEmpty'
    BY <1>1, <1>2, <1>3, <2>1 DEF HandsEmpty
  <2>4. Apart' /\ InTurn' /\ Kept'.buffer = Kept.buffer
    BY <1>1, <2>1, <2>2, NothingMoves
  <2>5. Drains'
    BY <1>4, <2>1, <2>4
  <2> QED
    BY <1>1, <2>2, <2>3, <2>4, <2>5, WriterStill
<1> QED
  BY <1>6, <1>7, <1>8, <1>9, <1>10, <1>11 DEF Closer

\* The callback: the event has the next causal time, so that it is new.
LEMMA ReceivesKeep ==
  ASSUME LogInv, Typed, EventsKnown, OnBusEvent, UNCHANGED <<loop, phase>>
  PROVE  LogInv'
<1>a. PICK e : e = dispatch.event
  OBVIOUS
<1>0. Len(queue) \in Nat /\ clock \in Nat /\ Handled \in Int
  BY HandledInt
<1>1. /\ dispatch.pc = "call" /\ dispatch.calls # <<>> /\ Head(dispatch.calls) = Writer
      /\ dispatch' = [dispatch EXCEPT !.calls = Tail(dispatch.calls)]
      /\ UNCHANGED <<clock, queue, exact, wild, drainer, kind, running, open, lines, flusher, syncer,
                     closer, dropped, before>>
  BY DEF OnBusEvent, Calls
<1>2. /\ dispatch'.pc = "call" /\ dispatch'.event = e /\ dispatch'.calls = <<>>
      /\ dispatch.calls \in OfWriter
  <2>1. dispatch.calls = <<Writer>> /\ Tail(dispatch.calls) = <<>>
    BY <1>1, CallsOneByOne DEF LogInv, Subscribed
  <2> QED
    BY <1>a, <1>1, <2>1 DEF EventsKnown, OfWriter
<1>3. Undelivered /\ ~Undelivered'
  BY <1>1, <1>2 DEF Undelivered, OfWriter
<1>4. /\ Handled' = Handled + 1 /\ e.time = Handled'
      /\ e \in Event
  BY <1>a, <1>0, <1>1, <1>3 DEF Handled, LogInv, Numbered, EventsKnown, Known
<1>5. \A f \in received : f.time \in 1..Handled
  BY DEF LogInv, Received
<1>6. e \notin received /\ \A f \in received : f.time < e.time
  BY <1>0, <1>4, <1>5
<1>7. Subscribed' /\ Numbered'
  BY <1>1, <1>2 DEF LogInv, Subscribed, Numbered, Attached, OfLoop
<1>8. Batch' = Batch /\ (EventLog' <=> EventLog)
  BY <1>1 DEF Batch, EventLog
<1>9. CASE Takes(e)
  <2>1. received' = received \cup {e} /\ buffer' = Append(buffer, e)
    BY <1>a, <1>9 DEF OnBusEvent
  <2>2. buffer \in Seq(Event) /\ LogTypes
    BY DEF LogInv, LogTypes
  <2>3. buffer' = buffer \o <<e>> /\ <<e>> \in Seq(Event) /\ ToSet(<<e>>) = {e} /\ IsInjective(<<e>>)
    BY <1>4, <2>1, <2>2, ToSetOfOne
  <2>4. /\ Kept'.buffer = Kept.buffer \cup {e} /\ buffer' \in Seq(Event)
        /\ \A p \in Place : p # "buffer" => Kept'[p] = Kept[p]
    <3>1. ToSet(buffer') = ToSet(buffer) \cup {e} /\ buffer' \in Seq(Event)
      <4>1. PICK t : t = <<e>>
        OBVIOUS
      <4>2. t \in Seq(Event) /\ ToSet(t) = {e} /\ buffer' = buffer \o t
        BY <2>3, <4>1
      <4>3. buffer \o t \in Seq(Event) /\ ToSet(buffer \o t) = ToSet(buffer) \cup ToSet(t)
        BY <2>2, <4>2, ToSetOfConcat
      <4> QED
        BY <4>2, <4>3
    <3> QED
      BY <1>1, <3>1 DEF Kept, Place
  <2>5. \A p \in Place : e \notin Kept[p]
    BY <1>6 DEF LogInv, Apart
  <2>6. LogTypes'
    BY <1>1, <2>2, <2>4 DEF LogTypes
  <2>7. Apart'
    <3>1. IsInjective(buffer')
      <4>1. ToSet(buffer) \cap ToSet(<<e>>) = {}
        BY <2>3, <2>5 DEF Kept, Place
      <4> QED
        BY <2>2, <2>3, <4>1, ToSetOfConcat DEF LogInv, Apart
    <3>2. \A p, q \in Place : p # q => Kept'[p] \cap Kept'[q] = {}
      BY <2>4, <2>5 DEF LogInv, Apart
    <3>3. UNION {Kept'[p] : p \in Place} = received'
      <4>1. \A f : f \in received <=> \E p \in Place : f \in Kept[p]
        BY DEF LogInv, Apart
      <4>2. \A f : f \in received' <=> \E p \in Place : f \in Kept'[p]
        <5>1. Kept'["buffer"] = Kept["buffer"] \cup {e} /\ "buffer" \in Place
          BY <2>4 DEF Place
        <5> QED
          BY <2>1, <2>4, <4>1, <5>1
      <4> QED
        BY <4>2
    <3> QED
      BY <1>1, <1>8, <3>1, <3>2, <3>3 DEF LogInv, Apart
  <2>8. HandsEmpty'
    BY <1>1 DEF LogInv, HandsEmpty
  <2>9. InTurn'
    <3> SUFFICES ASSUME syncer.pc = "idle"
                 PROVE  /\ Ascends(lines) /\ Ascends(flusher.batch) /\ Ascends(closer.batch)
                        /\ Ascends(buffer')
                        /\ Earlier(Kept'.lines, Kept'.flusher \cup Kept'.closer \cup Kept'.buffer)
                        /\ Earlier(Kept'.flusher \cup Kept'.closer, Kept'.buffer)
      BY <1>1 DEF InTurn, Ascends, Earlier
    <3>1. /\ Ascends(lines) /\ Ascends(flusher.batch) /\ Ascends(closer.batch) /\ Ascends(buffer)
          /\ Earlier(Kept.lines, Kept.flusher \cup Kept.closer \cup Kept.buffer)
          /\ Earlier(Kept.flusher \cup Kept.closer, Kept.buffer)
      BY DEF LogInv, InTurn
    <3>2. \A p \in Place : \A f \in Kept[p] : f.time < e.time
      BY <1>6 DEF LogInv, Apart
    <3>3. Ascends(buffer')
      <4>1. Ascends(<<e>>)
        BY DEF Ascends
      <4>2. Earlier(ToSet(buffer), ToSet(<<e>>))
        BY <2>3, <3>2 DEF Earlier, Kept, Place
      <4> QED
        BY <2>2, <2>3, <3>1, <4>1, <4>2, AscendsOn
    <3>4. Kept'.lines = Kept.lines /\ Kept'.flusher = Kept.flusher /\ Kept'.closer = Kept.closer
      BY <2>4 DEF Place
    <3>5. \A f \in Kept.lines \cup Kept.flusher \cup Kept.closer : f.time < e.time
      BY <3>2 DEF Place
    <3> QED
      BY <2>4, <3>1, <3>3, <3>4, <3>5 DEF Earlier
  <2>10. Received'
    <3>1. received' \subseteq Event
      BY <1>4, <2>1 DEF LogInv, Received
    <3>2. Handled >= 0
      BY <1>0, <1>1, <1>3 DEF Handled, LogInv, Numbered
    <3>3. \A f \in received' : f.time \in 1..Handled'
      BY <1>0, <1>4, <1>5, <2>1, <3>2
    <3>4. \A f, g \in received' : f.time = g.time => f = g
      <4>1. \A f \in received : f.time # e.time
        BY <1>0, <1>4, <1>5
      <4>2. \A f, g \in received : f.time = g.time => f = g
        BY DEF LogInv, Received
      <4> QED
        BY <2>1, <4>1, <4>2
    <3>5. EventLog => \A n \in 1..Handled' : \E f \in received' : f.time = n
      <4> SUFFICES ASSUME EventLog, NEW n \in 1..Handled'
                   PROVE  \E f \in received' : f.time = n
        OBVIOUS
      <4>1. n \in 1..Handled \/ n = e.time
        BY <1>0, <1>4
      <4>2. \A m \in 1..Handled : \E f \in received : f.time = m
        BY DEF LogInv, Received
      <4> QED
        BY <2>1, <4>1, <4>2
    <3> QED
      BY <1>8, <3>1, <3>3, <3>4, <3>5 DEF Received
  <2>11. Drains'
    <3>1. received \ Kept.buffer \subseteq received' \ Kept'.buffer
      BY <1>6, <2>1, <2>4
    <3>2. before \in Nat /\ (EventLog /\ drainer = "drained" => before <= Handled')
      BY <1>0, <1>4, <2>2 DEF LogInv, Drains, LogTypes
    <3>3. EventLog /\ closer.pc \in {"write", "close", "stopped"} =>
            \A n \in 1..before : \E f \in received' \ Kept'.buffer : f.time = n
      BY <3>1 DEF LogInv, Drains
    <3>4. syncer.pc # "idle" => syncer.seen \subseteq received' \ Kept'.buffer
      BY <3>1 DEF LogInv, Drains
    <3> QED
      BY <1>1, <1>8, <3>2, <3>3, <3>4 DEF LogInv, Drains
  <2> QED
    BY <1>7, <2>6, <2>7, <2>8, <2>9, <2>10, <2>11 DEF LogInv
<1>10. CASE ~Takes(e)
  <2>1. UNCHANGED <<received, buffer>> /\ ~EventLog
    BY <1>a, <1>10 DEF OnBusEvent, Takes
  <2>2. UNCHANGED logVars
    BY <1>1, <2>1 DEF logVars
  <2>3. Kept' = Kept
    BY <1>1, <2>1 DEF Kept
  <2>4. LogTypes' /\ Apart' /\ HandsEmpty' /\ InTurn'
    BY <1>1, <1>8, <2>1, <2>3 DEF LogInv, LogTypes, Apart, HandsEmpty, InTurn, Ascends
  <2>5. Received'
    BY <1>0, <1>4, <1>8, <2>1 DEF LogInv, Received
  <2>6. Drains'
    BY <1>1, <1>8, <2>1, <2>3 DEF LogInv, Drains
  <2> QED
    BY <1>7, <2>4, <2>5, <2>6 DEF LogInv
<1> QED
  BY <1>9, <1>10

-----------------------------------------------------------------------------
(* run, which subscribes and unsubscribes.                                 *)

LEMMA CalledAlike ==
  ASSUME NEW a, NEW b, a \in CompletedPc <=> b \in CompletedPc, a \in FailedPc <=> b \in FailedPc
  PROVE  CalledAt(a) = CalledAt(b)
BY DEF CalledAt

LEMMA RunBeside ==
  ASSUME LogInv, Typed, Typed', TasksGiven, Run
  PROVE  LogInv'
<1>1. UNCHANGED <<logVars, clock, queue, dispatch, drainer>>
  BY DEF Run, RunRefused, RunSubscribes, RunSubscribesFailed, RunStarts, RunSubmits, RunSleeps,
         RunWakes, RunStopsPool, RunJoins, RunUnsubscribes, RunUnsubscribesFailed, RunMerges,
         Subscribe, Unsubscribe, vars, busVars
<1>2. Numbered' /\ Handled' = Handled /\ clock' = clock
  BY <1>1 DEF LogInv, Numbered, Handled, Undelivered, OfWriter
<1>3. Attached
  <2>1. loop.pc = "called" => Attached
    BY DEF Run, RunRefused, RunSubscribes, RunSubscribesFailed, RunStarts, RunSubmits, RunSleeps,
       RunWakes, RunStopsPool, RunJoins, RunUnsubscribes, RunUnsubscribesFailed, RunMerges
  <2>2. loop.pc # "done"
    BY DEF Run, RunRefused, RunSubscribes, RunSubscribesFailed, RunStarts, RunSubmits, RunSleeps,
       RunWakes, RunStopsPool, RunJoins, RunUnsubscribes, RunUnsubscribesFailed, RunMerges
  <2> QED
    BY <2>1, <2>2 DEF LogInv, Subscribed
<1>4. exact = CalledAt(loop.pc) /\ wild \in {<<>>, <<Writer>>}
  BY DEF LogInv, Subscribed
<1>5. ASSUME wild' = wild, exact' = CalledAt(loop'.pc), phase' # "idle" => loop'.pc # "called"
      PROVE  LogInv'
  <2>1. Attached' /\ kind' = kind
    BY <1>1, <1>3, <1>5 DEF Attached, logVars
  <2>2. Subscribed'
    BY <1>1, <1>5, <2>1 DEF LogInv, Subscribed, OfWriter, OfLoop
  <2>3. Handled <= Handled' /\ clock <= clock' /\ Roused
    BY <1>1, <1>2, HandledInt DEF Roused
  <2> QED
    BY <1>1, <1>2, <2>2, <2>3, BesideWriter
<1>6. \A pc : Goes(pc) => loop'.pc = pc
  BY DEF Goes, At
<1>7. CASE RunSubscribes
  <2>1. /\ loop.pc = "called" /\ loop'.pc = "subscribe" /\ wild' = wild /\ phase' = phase
        /\ exact' = [exact EXCEPT ![Completed] = Append(exact[Completed], "on_completed")]
    BY <1>6, <1>7 DEF RunSubscribes, Subscribe, poolVars
  <2>2. Append(<<>>, "on_completed") = <<"on_completed">>
    OBVIOUS
  <2>3. exact' = CalledAt("subscribe")
    BY <1>4, <2>1, <2>2, LoopAssumption DEF CalledAt, CompletedPc, FailedPc, Completed, Failed
  <2> QED
    BY <1>5, <2>1, <2>3
<1>8. CASE RunSubscribesFailed
  <2>1. /\ loop.pc = "subscribe" /\ loop'.pc = "start" /\ wild' = wild /\ phase' = phase
        /\ exact' = [exact EXCEPT ![Failed] = Append(exact[Failed], "on_failed")]
    BY <1>6, <1>8 DEF RunSubscribesFailed, Subscribe, poolVars
  <2>2. Append(<<>>, "on_failed") = <<"on_failed">>
    OBVIOUS
  <2>3. exact' = CalledAt("start")
    BY <1>4, <2>1, <2>2, LoopAssumption DEF CalledAt, CompletedPc, FailedPc, Completed, Failed
  <2> QED
    BY <1>5, <2>1, <2>3
<1>9. CASE RunUnsubscribes \/ RunUnsubscribesFailed
  <2>1. PICK s \in {"on_completed", "on_failed"} :
          /\ Unsubscribe(s) /\ phase' = phase
          /\ \/ s = "on_completed" /\ loop.pc = "unsubscribe" /\ loop'.pc = "unsubscribe_failed"
             \/ s = "on_completed" /\ loop.pc = "leave" /\ loop'.pc = "leave_failed"
             \/ s = "on_failed" /\ loop.pc = "unsubscribe_failed" /\ loop'.pc = "merge"
             \/ s = "on_failed" /\ loop.pc = "leave_failed" /\ loop'.pc = "done"
    BY <1>6, <1>9 DEF RunUnsubscribes, RunUnsubscribesFailed, poolVars
  <2>2. /\ RemoveFirst(<<>>, s) = <<>> /\ \A x : RemoveFirst(<<x>>, s) = IF x = s THEN <<>> ELSE <<x>>
    BY NoneInside, OneRemoved
  <2>3. wild' = wild
    BY <1>4, <2>1, <2>2, LoopAssumption DEF Unsubscribe
  <2>4. \A t \in Topic : CalledAt(loop'.pc)[t] = RemoveFirst(exact[t], s)
    <3> TAKE t \in Topic
    <3>1. CalledAt(loop.pc)[t] \in OfLoop
      BY DEF CalledAt, OfLoop
    <3>2. RemoveFirst(exact[t], s) = IF exact[t] = <<s>> THEN <<>> ELSE exact[t]
      BY <1>4, <2>2, <3>1 DEF OfLoop
    <3> QED
      BY <1>4, <2>1, <3>2 DEF CalledAt, CompletedPc, FailedPc, Completed, Failed
  <2>5. exact' = CalledAt(loop'.pc)
    BY <2>1, <2>4 DEF Unsubscribe, CalledAt
  <2> QED
    BY <1>5, <2>1, <2>3, <2>5
<1>10. CASE \/ RunRefused \/ RunStarts \/ RunSubmits \/ RunSleeps \/ RunWakes \/ RunStopsPool
            \/ RunJoins \/ RunMerges
  <2>1. wild' = wild /\ exact' = exact
    BY <1>10 DEF RunRefused, RunStarts, RunSubmits, RunSleeps, RunWakes, RunStopsPool, RunJoins,
       RunMerges, vars, busVars
  <2>2. \/ loop.pc = "called" /\ loop'.pc = "done"
        \/ loop.pc = "start" /\ loop'.pc = "submit"
        \/ loop.pc = "submit" /\ loop'.pc \in {"submit", "wait"}
        \/ loop.pc = "wait" /\ loop'.pc \in {"wait", "stop", "abandon"}
        \/ loop.pc \in {"stop", "abandon"} /\ loop'.pc \in {"join", "abandoned"}
        \/ loop.pc \in {"join", "abandoned"} /\ loop'.pc \in {"unsubscribe", "leave"}
        \/ loop.pc = "merge" /\ loop'.pc = "done"
    <3>1. CASE RunSubmits
      <4>1. loop' = (IF loop.at < Len(branches) THEN [loop EXCEPT !.at = loop.at + 1] ELSE At("wait"))
            /\ loop.pc = "submit" /\ DOMAIN loop = {"pc", "at"}
        BY <3>1 DEF RunSubmits, TasksGiven
      <4>2. loop'.pc \in {"submit", "wait"}
        BY <4>1 DEF At
      <4> QED
        BY <4>1, <4>2
    <3>2. CASE RunRefused \/ RunStarts \/ RunSleeps \/ RunWakes \/ RunStopsPool \/ RunJoins \/ RunMerges
      BY <1>6, <3>2 DEF RunRefused, RunStarts, RunSleeps, RunWakes, RunStopsPool, RunJoins, RunMerges
    <3> QED
      BY <1>10, <3>1, <3>2
  <2>3. CalledAt(loop'.pc) = CalledAt(loop.pc)
    BY <2>2, CalledAlike DEF CompletedPc, FailedPc
  <2>4. loop'.pc # "called"
    BY <2>2
  <2> QED
    BY <1>4, <1>5, <2>1, <2>3, <2>4
<1> QED
  BY <1>7, <1>8, <1>9, <1>10 DEF Run

-----------------------------------------------------------------------------
LEMMA LogInvStarts ==
  ASSUME Init
  PROVE  LogInv
<1>1. /\ clock = 0 /\ queue = <<>> /\ exact = [t \in Topic |-> <<>>] /\ wild = <<>> /\ drainer = "none"
      /\ dispatch.pc = "wait" /\ dispatch.calls = <<>> /\ phase = "idle" /\ loop.pc \in {"called", "done"}
  BY DEF Init, BusInit, At, Pool!Init
<1>2. /\ kind \in Kind /\ running = (kind # "off") /\ open = (kind # "off")
      /\ buffer = <<>> /\ lines = <<>> /\ received = {} /\ dropped = {} /\ before = 0
      /\ flusher = [pc |-> IF kind = "off" THEN "exited" ELSE "top", batch |-> <<>>]
      /\ syncer = [pc |-> "idle", batch |-> <<>>, seen |-> {}]
      /\ closer = [pc |-> "none", batch |-> <<>>]
  BY DEF Init, LogInit, Idle, NoSync
<1>3. /\ flusher.pc = (IF kind = "off" THEN "exited" ELSE "top") /\ flusher.batch = <<>>
      /\ syncer.pc = "idle" /\ syncer.batch = <<>> /\ closer.pc = "none" /\ closer.batch = <<>>
  BY <1>2
<1>4. LogTypes
  BY <1>2 DEF LogTypes
<1>5. CalledAt(loop.pc) = [t \in Topic |-> <<>>]
  BY <1>1 DEF CalledAt, CompletedPc, FailedPc
<1>6. Subscribed
  BY <1>1, <1>5 DEF Subscribed, OfLoop
<1>7. Len(queue) = 0 /\ Handled = 0
  <2>1. ~Undelivered
    BY <1>1 DEF Undelivered, OfWriter
  <2>2. Len(queue) = 0
    BY <1>1
  <2>3. Handled = clock - Len(queue) - 0
    BY <2>1 DEF Handled
  <2> QED
    BY <1>1, <2>2, <2>3
<1>8. Numbered /\ Received
  BY <1>1, <1>2, <1>7 DEF Numbered, Received
<1>9. \A p \in Place : Kept[p] = {}
  BY <1>2, <1>3 DEF Kept, Place, ToSet
<1>10. Apart
  <2>1. IsInjective(<<>>)
    BY DEF IsInjective
  <2>2. \A h \in Hand : Batch[h] = <<>>
    BY <1>3 DEF Hand, Batch
  <2>3. UNION {Kept[p] : p \in Place} = {}
    BY <1>9
  <2> QED
    BY <1>2, <1>9, <2>1, <2>2, <2>3 DEF Apart
<1>11. HandsEmpty /\ Drains
  <2>1. (running <=> kind # "off") /\ (open <=> kind # "off")
    BY <1>2, Zenon
  <2> QED
    BY <1>1, <1>2, <1>3, <2>1 DEF HandsEmpty, Drains
<1>12. InTurn
  <2>1. Kept.lines = {} /\ Kept.flusher = {} /\ Kept.closer = {} /\ Kept.buffer = {}
    BY <1>9 DEF Place
  <2> QED
    BY <1>2, <1>3, <2>1 DEF InTurn, Ascends, Earlier
<1> QED
  BY <1>4, <1>6, <1>8, <1>10, <1>11, <1>12 DEF LogInv

LEMMA LogStepKeeps ==
  ASSUME LoopInv, LoopInv', LogInv, [Next]_allVars
  PROVE  LogInv'
<1>0. Typed /\ Typed' /\ EventsKnown /\ TasksGiven
  BY DEF LoopInv
<1>1. CASE SubscribeWriter \/ DrainSteps \/ Cancel \/ UNCHANGED allVars
  <2>1. /\ UNCHANGED <<logVars, loop, phase, clock, queue, exact, dispatch>>
        /\ \/ wild' = wild
           \/ ~Attached /\ wild' = Append(wild, Writer)
        /\ UNCHANGED drainer \/ DrainCheck
    BY <1>1 DEF SubscribeWriter, SubscribeAll, DrainSteps, DrainCheck, Cancel, allVars, vars, busVars,
       loopVars, poolVars
  <2>2. Numbered' /\ Handled' = Handled /\ clock' = clock /\ kind' = kind
    BY <2>1 DEF LogInv, Numbered, Handled, Undelivered, OfWriter, logVars
  <2>3. CASE wild' = wild
    <3>1. Subscribed'
      BY <2>1, <2>2, <2>3 DEF LogInv, Subscribed, Attached, OfWriter, OfLoop
    <3> QED
      BY <1>0, <2>1, <2>2, <3>1, BesideWriter, HandledInt DEF Roused
  <2>4. CASE ~Attached /\ wild' = Append(wild, Writer)
    <3>1. wild = <<>> /\ kind # "off"
      BY <2>4 DEF LogInv, Subscribed, Attached
    <3>2. wild' = <<Writer>>
      BY <2>4, <3>1
    <3>3. Subscribed'
      BY <2>1, <2>2, <3>1, <3>2 DEF LogInv, Subscribed, Attached, OfWriter, OfLoop
    <3> QED
      BY <1>0, <2>1, <2>2, <3>3, BesideWriter, HandledInt DEF Roused
  <2> QED
    BY <2>1, <2>3, <2>4
<1>2. CASE BusSteps
  BY <1>0, <1>2, DispatcherBeside DEF BusSteps, SameTopics, Dispatcher, DispatchTake, DispatchCopy,
     DispatchDone, loopVars, poolVars, logVars
<1>3. CASE Callbacks
  <2>1. CASE OnBusEvent /\ UNCHANGED <<loopVars, poolVars, others, crosstalk>>
    BY <1>0, <2>1, ReceivesKeep DEF loopVars, poolVars
  <2>2. CASE OnCompleted \/ OnFailed
    BY <1>0, <2>2, CallbackBeside DEF OnCompleted, OnFailed, Store, SameTopics, Calls, poolVars, logVars
  <2> QED
    BY <1>3, <2>1, <2>2 DEF Callbacks
<1>4. CASE FlushSteps
  BY <1>4, FlusherKeeps DEF FlushSteps, loopVars, poolVars
<1>5. CASE SyncSteps \/ CloseSteps \/ UserSteps
  <2>1. UNCHANGED <<loop, phase>> /\ (Syncer \/ Closer \/ SyncTake \/ SyncRotate \/ StopCall)
    BY <1>5 DEF SyncSteps, CloseSteps, UserSteps, loopVars, poolVars
  <2>2. kind # "off"
    BY <1>5 DEF SyncSteps, CloseSteps, UserSteps, LogInv, HandsEmpty, Syncer, SyncNothing, SyncWrite,
       SyncReopen, Closer, StopJoin, StopDrain, StopTake, StopWrite, StopClose
  <2> QED
    BY <1>0, <2>1, <2>2, SyncerKeeps, CloserKeeps
<1>6. CASE OtherEmits
  BY <1>0, <1>6, EmitBeside DEF OtherEmits, loopVars, poolVars
<1>7. CASE Run
  BY <1>0, <1>7, RunBeside
<1>8. CASE Workers
  <2>1. PICK t \in Task : WorkerStarts(t) \/ WorkerFinishes(t)
    BY <1>8 DEF Workers
  <2>2. /\ UNCHANGED logVars /\ UNCHANGED <<loop, phase>> /\ phase # "idle"
        /\ \E topic, body : Emit(topic, body)
    BY <2>1 DEF WorkerStarts, WorkerFinishes, Pool!Start, Pool!Finish, loopVars
  <2>3. Attached
    BY <2>2 DEF LogInv, Subscribed
  <2> QED
    BY <1>0, <2>2, <2>3, EmitBeside
<1> QED
  BY <1>1, <1>2, <1>3, <1>4, <1>5, <1>6, <1>7, <1>8 DEF Next

-----------------------------------------------------------------------------
(* What follows.                                                           *)

LEMMA LogInvTells ==
  ASSUME LogInv
  PROVE  NothingLost /\ WrittenOnceInOrder /\ OneLateCallback
<1>1. \A e : e \in received => \/ e \in ToSet(lines) \/ e \in dropped \/ e \in ToSet(buffer)
                               \/ e \in ToSet(flusher.batch) \/ e \in ToSet(syncer.batch)
                               \/ e \in ToSet(closer.batch)
  <2>1. \A e : e \in received => \E p \in Place : e \in Kept[p]
    BY DEF LogInv, Apart
  <2> QED
    BY <2>1 DEF Kept, Place
<1>2. ToSet(<<>>) = {}
  BY DEF ToSet
<1>3. /\ flusher.pc = "exited" => ToSet(flusher.batch) = {}
      /\ closer.pc # "write" => ToSet(closer.batch) = {}
      /\ syncer.pc # "lock" => ToSet(syncer.batch) = {}
      /\ syncer.pc = "idle" => dropped = {}
      /\ closer.pc = "stopped" => flusher.pc = "exited"
  BY <1>2 DEF LogInv, HandsEmpty
<1>4. NothingLost
  <2>1. closer.pc = "stopped" => \A e \in received : e \in ToSet(lines) \cup LostBySync \cup ToSet(buffer)
    BY <1>1, <1>3 DEF LostBySync
  <2>2. ASSUME EventLog, closer.pc = "stopped", NEW n \in 1..before
        PROVE  n \in Times(ToSet(lines) \cup LostBySync)
    <3>1. PICK e \in received \ Kept.buffer : e.time = n
      BY <2>2 DEF LogInv, Drains
    <3>2. e \in ToSet(lines) \cup LostBySync
      BY <2>1, <2>2, <3>1 DEF Kept
    <3> QED
      BY <3>1, <3>2 DEF Times
  <2>3. syncer.pc = "returned" =>
          syncer.seen \subseteq ToSet(lines) \cup dropped \cup ToSet(flusher.batch) \cup ToSet(closer.batch)
    <3> SUFFICES ASSUME syncer.pc = "returned", NEW e \in syncer.seen
                 PROVE  e \in ToSet(lines) \cup dropped \cup ToSet(flusher.batch) \cup ToSet(closer.batch)
      OBVIOUS
    <3>1. e \in received /\ e \notin ToSet(buffer)
      BY DEF LogInv, Drains, Kept
    <3> QED
      BY <1>1, <1>3, <3>1
  <2> QED
    BY <2>1, <2>2, <2>3 DEF NothingLost
<1>5. WrittenOnceInOrder
  <2>1. Kept["lines"] \cap Kept["dropped"] = {}
    BY DEF LogInv, Apart, Place
  <2>2. ToSet(lines) \cap dropped = {}
    BY <2>1 DEF Kept
  <2> QED
    BY <2>2 DEF LogInv, Apart, InTurn, Ascends, WrittenOnceInOrder
<1>6. OneLateCallback
  <2> SUFFICES ASSUME loop.pc = "done"
               PROVE  /\ \A t \in Topic : ToSet(exact[t]) \cap Mine = {}
                      /\ Cardinality({i \in DOMAIN dispatch.calls : dispatch.calls[i] \in Mine}) <= 1
    BY DEF OneLateCallback
  <2>1. \A t \in Topic : exact[t] = <<>>
    BY DEF LogInv, Subscribed, CalledAt, CompletedPc, FailedPc
  <2>2. \A i \in DOMAIN dispatch.calls : dispatch.calls[i] \in Mine => i = 1
    <3>1. PICK c : c = dispatch.calls
      OBVIOUS
    <3>2. c \in OfWriter \cup OfLoop
      BY <3>1 DEF LogInv, Subscribed
    <3>3. c \in {<<>>, <<Writer>>, <<"on_completed">>, <<"on_failed">>} => \A i \in DOMAIN c : i = 1
      OBVIOUS
    <3>4. \A x : c = <<x, Writer>> => \A i \in DOMAIN c : i = 1 \/ c[i] = Writer
      OBVIOUS
    <3> QED
      BY <3>1, <3>2, <3>3, <3>4, LoopAssumption DEF OfWriter, OfLoop, Mine
  <2>3. {i \in DOMAIN dispatch.calls : dispatch.calls[i] \in Mine} \subseteq {1}
    BY <2>2
  <2>4. IsFiniteSet({1}) /\ Cardinality({1}) = 1
    BY FS_Singleton
  <2>5. Cardinality({i \in DOMAIN dispatch.calls : dispatch.calls[i] \in Mine}) <= 1
    BY <2>3, <2>4, FS_Subset
  <2> QED
    BY <1>2, <2>1, <2>5
<1> QED
  BY <1>4, <1>5, <1>6

LEMMA LogInvAlways == EventSpec => [](EventInv /\ LogInv)
<1>1. EventInit => EventInv /\ LogInv
  BY EventInvStarts, LogInvStarts DEF EventInit
<1>2. EventInv /\ LogInv /\ [EventNext]_eventVars => (EventInv /\ LogInv)'
  <2> SUFFICES ASSUME EventInv, LogInv, [EventNext]_eventVars
               PROVE  EventInv' /\ LogInv'
    OBVIOUS
  <2>1. EventInv'
    BY EventStepKeeps
  <2>2. LoopInv /\ LoopInv' /\ Typed /\ Typed'
    BY <2>1 DEF EventInv, LoopInv
  <2>3. CASE Next \/ UNCHANGED allVars
    BY <2>1, <2>2, <2>3, LogStepKeeps
  <2>4. CASE WorkerStep(CognitiveNext)
    <3>1. /\ Attached /\ UNCHANGED logVars /\ UNCHANGED <<loop, phase, loopVars, poolVars, others, crosstalk>>
          /\ CognitiveNext
      BY <2>4 DEF WorkerStep, loopVars, poolVars
    <3>2. UNCHANGED busVars \/ \E topic \in Topic, body \in OfOthers : Emit(topic, body)
      BY <3>1, WorkerEmitsOthers DEF EventInv
    <3>3. CASE UNCHANGED busVars
      <4>1. Subscribed' /\ Numbered' /\ Handled' = Handled /\ UNCHANGED <<clock, drainer>>
        BY <3>1, <3>3 DEF busVars, logVars, LogInv, Subscribed, Numbered, Attached, Handled,
           Undelivered, OfWriter, OfLoop
      <4> QED
        BY <2>1, <2>2, <3>1, <4>1, BesideWriter, HandledInt DEF Roused
    <3> QED
      BY <2>1, <2>2, <3>1, <3>2, <3>3, EmitBeside
  <2> QED
    BY <2>1, <2>3, <2>4 DEF EventNext, eventVars
<1> QED
  BY <1>1, <1>2, PTL DEF EventSpec

(* When the stop of an EventLogWriter has returned the log has every event  *)
(* emitted before stop was called, and what a flush_sync or the stop of a   *)
(* SessionWriter leaves out is where NothingLost says, whatever is emitted, *)
(* subscribed, rotated and stopped meanwhile.                               *)
THEOREM LogLosesNothing == EventSpec => []NothingLost
BY LogInvAlways, LogInvTells, PTL

(* No event is written twice or both written and thrown away, and without   *)
(* a call of flush_sync the lines are in causal order.                      *)
THEOREM LogInOrder == EventSpec => []WrittenOnceInOrder
BY LogInvAlways, LogInvTells, PTL

(* When run has returned its callbacks are not subscribed any more and at   *)
(* most one call of them is still to come.                                  *)
THEOREM OneCallIsLate == EventSpec => []OneLateCallback
BY LogInvAlways, LogInvTells, PTL

-----------------------------------------------------------------------------
(* Places in what was said.                                                 *)

Said == [topic : WorkerTopics, task : Body]
PlacesOf(s, topic) == {i \in DOMAIN s : s[i].topic = topic}
NthIn(s, i) == Cardinality({k \in PlacesOf(s, s[i].topic) : k <= i})

LEMMA TopicsDiffer ==
  /\ Spawned # Terminated /\ Spawned # TaskStarted /\ Spawned # TaskCompleted /\ Spawned # Evaluated
  /\ Terminated # TaskStarted /\ Terminated # TaskCompleted /\ Terminated # Evaluated
  /\ TaskStarted # TaskCompleted /\ TaskStarted # Evaluated /\ TaskCompleted # Evaluated
BY DEF Spawned, Terminated, TaskStarted, TaskCompleted, Evaluated

\* What one more event changes: it is the last of its topic, and no other's place is another.
Grown(s, r, e) ==
  /\ Len(r) = Len(s) + 1 /\ r[Len(s) + 1] = e
  /\ \A i \in DOMAIN s : i \in DOMAIN r /\ r[i] = s[i] /\ NthIn(r, i) = NthIn(s, i)
  /\ PlacesOf(r, e.topic) = PlacesOf(s, e.topic) \cup {Len(s) + 1}
  /\ \A topic : topic # e.topic => PlacesOf(r, topic) = PlacesOf(s, topic)
  /\ \A topic : Cardinality(PlacesOf(s, topic)) \in Nat
  /\ Cardinality(PlacesOf(r, e.topic)) = Cardinality(PlacesOf(s, e.topic)) + 1
  /\ NthIn(r, Len(s) + 1) = Cardinality(PlacesOf(s, e.topic)) + 1

LEMMA OneMoreSaid ==
  ASSUME NEW S, NEW s \in Seq(S), NEW e \in S, NEW r, r = Append(s, e)
  PROVE  r \in Seq(S) /\ Grown(s, r, e)
<1>1. /\ r \in Seq(S) /\ Len(s) \in Nat /\ Len(r) = Len(s) + 1 /\ r[Len(s) + 1] = e
      /\ DOMAIN s = 1..Len(s) /\ DOMAIN r = 1..Len(s) + 1 /\ \A i \in 1..Len(s) : r[i] = s[i]
  BY AppendProperties
<1>2. /\ PlacesOf(r, e.topic) = PlacesOf(s, e.topic) \cup {Len(s) + 1}
      /\ \A topic : topic # e.topic => PlacesOf(r, topic) = PlacesOf(s, topic)
      /\ \A topic : PlacesOf(s, topic) \subseteq 1..Len(s)
  BY <1>1 DEF PlacesOf
<1>3. ASSUME NEW topic
      PROVE  IsFiniteSet(PlacesOf(s, topic)) /\ Cardinality(PlacesOf(s, topic)) \in Nat
  <2>1. IsFiniteSet(1..Len(s))
    BY <1>1, FS_Interval
  <2> QED
    BY <1>2, <2>1, FS_Subset, FS_CardinalityType
<1>4. Len(s) + 1 \notin PlacesOf(s, e.topic)
  BY <1>1, <1>2
<1>5. Cardinality(PlacesOf(r, e.topic)) = Cardinality(PlacesOf(s, e.topic)) + 1
  BY <1>2, <1>3, <1>4, FS_AddElement
<1>6. \A i \in DOMAIN s : NthIn(r, i) = NthIn(s, i)
  <2> SUFFICES ASSUME NEW i \in DOMAIN s
               PROVE  {k \in PlacesOf(r, r[i].topic) : k <= i} = {k \in PlacesOf(s, s[i].topic) : k <= i}
    BY DEF NthIn
  <2>1. r[i] = s[i] /\ i \in 1..Len(s)
    BY <1>1
  <2> QED
    BY <1>1, <2>1 DEF PlacesOf
<1>7. NthIn(r, Len(s) + 1) = Cardinality(PlacesOf(s, e.topic)) + 1
  <2>1. {k \in PlacesOf(r, e.topic) : k <= Len(s) + 1} = PlacesOf(r, e.topic)
    BY <1>1 DEF PlacesOf
  <2> QED
    BY <1>1, <1>5, <2>1 DEF NthIn
<1> QED
  BY <1>1, <1>2, <1>3, <1>5, <1>6, <1>7 DEF Grown

-----------------------------------------------------------------------------
(* Where the owner, the thread and the tasks are.                           *)

\* The thread lives from its creation until it is joined.
Lives ==
  /\ keeper \in {"away", "idle", "create"} => thread.pc = "none"
  /\ keeper \in {"joined", "over"} => thread.pc = "exited"

Taken == IF thread.pc \in {"begin", "process"} THEN 1 ELSE 0

\* The tasks are told of in the order they were queued.
TaskAt(r, accepts, i) == NthIn(r, i) \in DOMAIN accepts /\ r[i].task = accepts[NthIn(r, i)]
InTheirTurn ==
  \A topic \in {TaskStarted, TaskCompleted} : \A i \in PlacesOf(saidOf, topic) : TaskAt(saidOf, accepted, i)

\* What is in the thread's hands and in the queue comes behind those completed.
Waiting ==
  /\ Count(TaskCompleted) + Taken + Len(taskQueue) = Len(accepted)
  /\ Taken = 1 => thread.task = accepted[Count(TaskCompleted) + 1]
  /\ \A i \in 1..Len(taskQueue) : taskQueue[i] = accepted[Count(TaskCompleted) + Taken + i]
  /\ Count(TaskStarted) = Count(TaskCompleted) + IF thread.pc = "process" THEN 1 ELSE 0

\* The event at k completes the task, and of no task anything was said from then to n.
JustCompleted(s, task, n) ==
  \E k \in PlacesOf(s, TaskCompleted) :
    /\ k <= n /\ s[k].task = task
    /\ \A m \in (k + 1)..n : s[m].topic \in {Spawned, Terminated}
Judged ==
  /\ \A i \in PlacesOf(saidOf, Evaluated) : JustCompleted(saidOf, saidOf[i].task, i - 1)
  /\ thread.pc = "evaluate" => JustCompleted(saidOf, thread.task, Len(saidOf))

LastWord == keeper = "over" => saidOf # <<>> /\ saidOf[Len(saidOf)].topic = Terminated

TurnInv ==
  /\ saidOf \in Seq(Said) /\ accepted \in Seq(Body)
  /\ Lives /\ InTheirTurn /\ Waiting /\ Judged /\ LastWord

LEMMA TurnsTell == GivenOthers /\ TurnInv => TasksInTurn
<1> SUFFICES ASSUME GivenOthers, TurnInv PROVE TasksInTurn
  OBVIOUS
<1>1. \A topic : SaidOf(topic) = PlacesOf(saidOf, topic) /\ \A i : Nth(i) = NthIn(saidOf, i)
  BY DEF SaidOf, PlacesOf, Nth, NthIn
<1>2. \A topic \in {TaskStarted, TaskCompleted} : \A i \in SaidOf(topic) :
        Nth(i) \in DOMAIN accepted /\ saidOf[i].task = accepted[Nth(i)]
  BY <1>1 DEF TurnInv, InTheirTurn, TaskAt
<1>3. Count(TaskCompleted) \in Nat /\ Len(taskQueue) \in Nat /\ Len(accepted) \in Nat
  <2>1. SaidOf(TaskCompleted) \subseteq 1..Len(saidOf) /\ Len(saidOf) \in Nat
    BY DEF TurnInv, SaidOf
  <2>2. IsFiniteSet(1..Len(saidOf))
    BY <2>1, FS_Interval
  <2>3. IsFiniteSet(SaidOf(TaskCompleted))
    BY <2>1, <2>2, FS_Subset
  <2> QED
    BY <2>3, FS_CardinalityType DEF Count, GivenOthers, TurnInv
<1>4. Held \o taskQueue = SubSeq(accepted, Count(TaskCompleted) + 1, Len(accepted))
  <2>1. PICK c, n : c = Count(TaskCompleted) /\ n = Len(accepted)
    OBVIOUS
  <2>2. /\ c \in Nat /\ n \in Nat /\ accepted \in Seq(Body) /\ taskQueue \in Seq(Body)
        /\ c + Taken + Len(taskQueue) = n
    BY <1>3, <2>1 DEF TurnInv, Waiting, GivenOthers, OfOthers
  <2>3. PICK b : b = SubSeq(accepted, c + 1, n)
    OBVIOUS
  <2>4. /\ b \in Seq(Body) /\ Len(b) = n - c
        /\ \A i \in 1..n - c : b[i] = accepted[c + i]
    <3>1. c <= n
      BY <2>2 DEF Taken
    <3>2. \A i \in c + 1..n : accepted[i] \in Body
      BY <2>1, <2>2
    <3> QED
      BY <2>1, <2>2, <2>3, <3>1, <3>2, SubSeqProperties
  <2>5. CASE Taken = 0
    <3>1. Held = <<>> /\ Held \o taskQueue = taskQueue
      BY <2>2, <2>5 DEF Held, Taken
    <3>2. Len(taskQueue) = Len(b) /\ \A i \in 1..Len(taskQueue) : taskQueue[i] = b[i]
      <4>1. Len(taskQueue) \in Nat /\ Len(taskQueue) = n - c /\ Len(taskQueue) = Len(b)
        BY ONLY <2>2, <2>4, <2>5
      <4>2. ASSUME NEW i \in 1..Len(taskQueue) PROVE taskQueue[i] = b[i]
        <5>1. taskQueue[i] = accepted[c + Taken + i]
          BY ONLY <2>1, <4>2, TurnInv DEF TurnInv, Waiting
        <5>2. c + Taken + i = c + i /\ i \in 1..n - c
          BY ONLY <2>2, <2>5, <4>1, <4>2
        <5> QED
          BY ONLY <2>4, <5>1, <5>2
      <4> QED
        BY ONLY <4>1, <4>2
    <3> QED
      BY <2>1, <2>2, <2>3, <2>4, <3>1, <3>2, SeqEqual
  <2>6. CASE Taken = 1
    <3>1. Held = <<thread.task>> /\ thread.task = accepted[c + 1] /\ thread.task \in Body
      BY <2>1, <2>6 DEF Held, Taken, TurnInv, Waiting, GivenOthers, OfOthers
    <3>2. PICK h : h = <<thread.task>> \o taskQueue
      OBVIOUS
    <3>3. /\ h \in Seq(Body) /\ Len(h) = 1 + Len(taskQueue) /\ h[1] = thread.task
          /\ \A i \in 2..Len(h) : h[i] = taskQueue[i - 1]
      <4>1. PICK one : one = <<thread.task>>
        OBVIOUS
      <4>2. one \in Seq(Body) /\ Len(one) = 1 /\ one[1] = thread.task
        BY <3>1, <4>1
      <4> QED
        BY <2>2, <3>2, <4>1, <4>2, ConcatProperties
    <3>4. Len(h) = Len(b)
      BY <2>2, <2>4, <2>6, <3>3
    <3>5. ASSUME NEW i \in 1..Len(h) PROVE h[i] = b[i]
      <4>1. CASE i = 1
        BY <2>2, <2>4, <2>6, <3>1, <3>3, <4>1
      <4>2. CASE i # 1
        <5>1. i - 1 \in 1..Len(taskQueue) /\ h[i] = taskQueue[i - 1]
          BY <3>3, <4>2, <2>2
        <5>2. taskQueue[i - 1] = accepted[c + 1 + (i - 1)]
          BY <2>1, <2>6, <5>1 DEF TurnInv, Waiting
        <5>3. c + 1 + (i - 1) = c + i /\ i \in 1..n - c
          BY <2>2, <2>4, <3>4, <5>1
        <5> QED
          BY <2>4, <5>1, <5>2, <5>3
      <4> QED
        BY <4>1, <4>2
    <3> QED
      BY <2>1, <2>3, <2>4, <3>1, <3>2, <3>3, <3>4, <3>5, SeqEqual
  <2> QED
    BY <2>5, <2>6 DEF Taken
<1>5. Count(TaskStarted) = Count(TaskCompleted) + IF thread.pc = "process" THEN 1 ELSE 0
  BY DEF TurnInv, Waiting
<1>6. ASSUME NEW i \in SaidOf(Evaluated)
      PROVE  \E k \in SaidOf(TaskCompleted) :
               /\ k < i /\ saidOf[k].task = saidOf[i].task
               /\ \A m \in (k + 1)..(i - 1) : saidOf[m].topic \in {Spawned, Terminated}
  <2>1. i \in Nat /\ i \in PlacesOf(saidOf, Evaluated)
    BY <1>1 DEF SaidOf, TurnInv
  <2>2. PICK k \in PlacesOf(saidOf, TaskCompleted) :
          /\ k <= i - 1 /\ saidOf[k].task = saidOf[i].task
          /\ \A m \in (k + 1)..(i - 1) : saidOf[m].topic \in {Spawned, Terminated}
    BY <2>1 DEF TurnInv, Judged, JustCompleted
  <2>3. k \in Nat
    BY DEF PlacesOf, TurnInv
  <2> QED
    BY <1>1, <2>1, <2>2, <2>3
<1>7. Ended => /\ saidOf # <<>> /\ saidOf[Len(saidOf)].topic = Terminated
               /\ Held = <<>> /\ Count(TaskStarted) = Count(TaskCompleted)
  <2> SUFFICES ASSUME Ended
               PROVE  /\ saidOf # <<>> /\ saidOf[Len(saidOf)].topic = Terminated
                      /\ Held = <<>> /\ Count(TaskStarted) = Count(TaskCompleted)
    OBVIOUS
  <2>1. thread.pc = "exited"
    BY DEF Ended, TurnInv, Lives
  <2> QED
    BY <1>3, <1>5, <2>1 DEF Ended, TurnInv, LastWord, Held
<1> QED
  BY <1>2, <1>4, <1>5, <1>6, <1>7 DEF TasksInTurn
-----------------------------------------------------------------------------
(* The steps of the worker.                                                 *)

\* Nothing is said, queued or taken, and where the thread is differs for no task.
QuietStep ==
  /\ UNCHANGED <<saidOf, accepted, taskQueue>>
  /\ \/ UNCHANGED thread
     \/ thread.pc \notin {"begin", "process", "evaluate"} /\ thread'.pc \notin {"begin", "process", "evaluate"}

LEMMA QuietKeeps ==
  ASSUME TurnInv, QuietStep, Lives', keeper' = "over" => keeper = "over"
  PROVE  TurnInv'
<1>1. Count(TaskCompleted)' = Count(TaskCompleted) /\ Count(TaskStarted)' = Count(TaskStarted)
  BY DEF QuietStep, Count, SaidOf
<1>2. Taken' = Taken /\ (Taken = 1 => thread' = thread)
  BY DEF QuietStep, Taken
<1>3. (thread'.pc = "process") = (thread.pc = "process")
  BY DEF QuietStep
<1>4. Waiting'
  BY <1>1, <1>2, <1>3 DEF QuietStep, TurnInv, Waiting
<1>5. InTheirTurn' /\ Judged' /\ LastWord'
  BY DEF QuietStep, TurnInv, InTheirTurn, Judged, LastWord, PlacesOf, TaskAt, NthIn, JustCompleted
<1> QED
  BY <1>4, <1>5 DEF QuietStep, TurnInv

LEMMA PushKeeps ==
  ASSUME GivenOthers, TurnInv, NEW task \in Body,
         taskQueue' = Append(taskQueue, task), accepted' = Append(accepted, task),
         UNCHANGED <<saidOf, thread, keeper>>
  PROVE  TurnInv'
<1>1. /\ taskQueue \in Seq(Body) /\ accepted \in Seq(Body)
      /\ Len(taskQueue) \in Nat /\ Len(accepted) \in Nat
  BY DEF GivenOthers, OfOthers, TurnInv
<1>2. /\ Len(taskQueue') = Len(taskQueue) + 1 /\ taskQueue'[Len(taskQueue) + 1] = task
      /\ \A i \in 1..Len(taskQueue) : taskQueue'[i] = taskQueue[i]
  BY <1>1, AppendProperties
<1>3. /\ accepted' \in Seq(Body) /\ Len(accepted') = Len(accepted) + 1
      /\ accepted'[Len(accepted) + 1] = task
      /\ \A i \in 1..Len(accepted) : accepted'[i] = accepted[i]
  BY <1>1, AppendProperties
<1>4. PICK c, t, q : c = Count(TaskCompleted) /\ t = Taken /\ q = Len(taskQueue)
  OBVIOUS
<1>5. /\ c \in Nat /\ t \in {0, 1} /\ q \in Nat /\ c + t + q = Len(accepted)
      /\ Count(TaskCompleted)' = c /\ Taken' = t /\ Count(TaskStarted)' = Count(TaskStarted)
  <2>1. SaidOf(TaskCompleted) \subseteq 1..Len(saidOf) /\ Len(saidOf) \in Nat
    BY DEF TurnInv, SaidOf
  <2>2. IsFiniteSet(1..Len(saidOf))
    BY <2>1, FS_Interval
  <2>3. Count(TaskCompleted) \in Nat
    BY <2>1, <2>2, FS_Subset, FS_CardinalityType DEF Count
  <2>4. /\ Count(TaskCompleted)' = Count(TaskCompleted) /\ Count(TaskStarted)' = Count(TaskStarted)
        /\ Taken' = Taken /\ Taken \in {0, 1}
    BY DEF Count, SaidOf, Taken
  <2> QED
    BY <1>1, <1>4, <2>3, <2>4 DEF TurnInv, Waiting
<1>6. Waiting'
  <2>1. Taken' = 1 => thread'.task = accepted'[c + 1]
    <3>1. t = 1 => thread.task = accepted[c + 1] /\ c + 1 \in 1..Len(accepted)
      BY <1>1, <1>4, <1>5 DEF TurnInv, Waiting
    <3> QED
      BY <1>3, <1>5, <3>1
  <2>2. ASSUME NEW i \in 1..Len(taskQueue')
        PROVE  taskQueue'[i] = accepted'[c + t + i]
    <3>1. CASE i \in 1..q
      <4>1. taskQueue[i] = accepted[c + t + i] /\ c + t + i \in 1..Len(accepted)
        BY <1>1, <1>4, <1>5, <3>1 DEF TurnInv, Waiting
      <4> QED
        BY <1>2, <1>3, <1>4, <3>1, <4>1
    <3>2. CASE i = q + 1
      <4>1. c + t + i = Len(accepted) + 1
        BY <1>1, <1>5, <3>2
      <4> QED
        BY <1>2, <1>3, <1>4, <3>2, <4>1
    <3>3. i \in 1..q \/ i = q + 1
      BY <1>2, <1>4, <1>5
    <3> QED
      BY <3>1, <3>2, <3>3
  <2>3. c + t + Len(taskQueue') = Len(accepted')
    BY <1>1, <1>2, <1>3, <1>4, <1>5
  <2>4. Count(TaskStarted)' = Count(TaskCompleted)' + IF thread'.pc = "process" THEN 1 ELSE 0
    BY <1>4, <1>5 DEF TurnInv, Waiting
  <2> QED
    BY <1>5, <2>1, <2>2, <2>3, <2>4 DEF Waiting
<1>7. InTheirTurn'
  <2> SUFFICES ASSUME NEW topic \in {TaskStarted, TaskCompleted}, NEW i \in PlacesOf(saidOf, topic)
               PROVE  TaskAt(saidOf, accepted', i)
    BY DEF InTheirTurn
  <2>1. NthIn(saidOf, i) \in 1..Len(accepted) /\ saidOf[i].task = accepted[NthIn(saidOf, i)]
    BY <1>1 DEF TurnInv, InTheirTurn, TaskAt
  <2> QED
    BY <1>1, <1>3, <2>1 DEF TaskAt
<1> QED
  BY <1>3, <1>6, <1>7 DEF TurnInv, Lives, Judged, LastWord

LEMMA TakeKeeps ==
  ASSUME GivenOthers, TurnInv, taskQueue # <<>>, thread.pc = "look",
         thread' = [pc |-> "begin", task |-> Head(taskQueue)], taskQueue' = Tail(taskQueue),
         UNCHANGED <<saidOf, accepted, keeper>>
  PROVE  TurnInv'
<1>1. /\ Taken = 0 /\ Taken' = 1 /\ thread'.task = taskQueue[1] /\ thread'.pc = "begin"
      /\ Len(taskQueue') = Len(taskQueue) - 1 /\ Len(taskQueue) \in Nat /\ Len(taskQueue) > 0
      /\ \A i \in 1..Len(taskQueue') : taskQueue'[i] = taskQueue[i + 1]
  BY HeadTailProperties, EmptySeq DEF Taken, GivenOthers
<1>2. PICK c, q : c = Count(TaskCompleted) /\ q = Len(taskQueue)
  OBVIOUS
<1>3. /\ c \in Nat /\ Count(TaskCompleted)' = c /\ Count(TaskStarted)' = Count(TaskStarted)
  <2>1. SaidOf(TaskCompleted) \subseteq 1..Len(saidOf) /\ Len(saidOf) \in Nat
    BY DEF TurnInv, SaidOf
  <2>2. IsFiniteSet(1..Len(saidOf))
    BY <2>1, FS_Interval
  <2> QED
    BY <1>2, <2>1, <2>2, FS_Subset, FS_CardinalityType DEF Count, SaidOf
<1>4. Waiting'
  <2>1. c + 1 + Len(taskQueue') = Len(accepted)
    BY <1>1, <1>2, <1>3 DEF TurnInv, Waiting
  <2>2. thread'.task = accepted[c + 1]
    BY <1>1, <1>2, <1>3 DEF TurnInv, Waiting
  <2>3. ASSUME NEW i \in 1..Len(taskQueue') PROVE taskQueue'[i] = accepted[c + 1 + i]
    <3>1. taskQueue'[i] = taskQueue[i + 1] /\ i + 1 \in 1..Len(taskQueue)
      BY <1>1
    <3>2. taskQueue[i + 1] = accepted[c + 0 + (i + 1)]
      BY <1>1, <1>2, <3>1 DEF TurnInv, Waiting
    <3> QED
      BY <1>3, <3>1, <3>2
  <2>4. Count(TaskStarted)' = Count(TaskCompleted)'
    BY <1>3, <1>2 DEF TurnInv, Waiting
  <2> QED
    BY <1>1, <1>3, <2>1, <2>2, <2>3, <2>4 DEF Waiting
<1> QED
  BY <1>1, <1>4 DEF TurnInv, Lives, InTheirTurn, Judged, LastWord

-----------------------------------------------------------------------------
(* What is said.                                                            *)

\* What the lemma on one more event says of what the worker says.
LEMMA SaidMore ==
  ASSUME TurnInv, NEW topic \in WorkerTopics, NEW task \in Body, Says(topic, task)
  PROVE  LET n == Len(saidOf) + 1 IN
         /\ saidOf' \in Seq(Said) /\ n \in Nat /\ n > 0 /\ Len(saidOf') = n
         /\ saidOf'[n].topic = topic /\ saidOf'[n].task = task
         /\ \A i \in 1..n - 1 : saidOf'[i] = saidOf[i] /\ NthIn(saidOf', i) = NthIn(saidOf, i)
         /\ \A t : PlacesOf(saidOf, t) \subseteq 1..n - 1
         /\ PlacesOf(saidOf', topic) = PlacesOf(saidOf, topic) \cup {n}
         /\ \A t : t # topic => PlacesOf(saidOf', t) = PlacesOf(saidOf, t)
         /\ \A t : Count(t) \in Nat
         /\ Count(topic)' = Count(topic) + 1 /\ (\A t : t # topic => Count(t)' = Count(t))
         /\ NthIn(saidOf', n) = Count(topic) + 1
<1>1. PICK e : e = [topic |-> topic, task |-> task]
  OBVIOUS
<1>2. e \in Said /\ e.topic = topic /\ e.task = task /\ saidOf' = Append(saidOf, e) /\ saidOf \in Seq(Said)
  BY <1>1 DEF Said, Says, TurnInv
<1>3. /\ \A t : Count(t) = Cardinality(PlacesOf(saidOf, t))
      /\ \A t : Count(t)' = Cardinality(PlacesOf(saidOf', t))
  BY DEF Count, SaidOf, PlacesOf
<1>4. \A t : PlacesOf(saidOf, t) \subseteq DOMAIN saidOf
  BY DEF PlacesOf
<1>5. PICK n, r : n = Len(saidOf) + 1 /\ r = saidOf'
  OBVIOUS
<1>6. n \in Nat /\ n > 0 /\ Len(saidOf) = n - 1 /\ DOMAIN saidOf = 1..n - 1
  BY <1>2, <1>5
<1>7. /\ r \in Seq(Said) /\ Len(r) = n /\ r[n] = e
      /\ \A i \in 1..n - 1 : r[i] = saidOf[i] /\ NthIn(r, i) = NthIn(saidOf, i)
      /\ PlacesOf(r, topic) = PlacesOf(saidOf, topic) \cup {n}
      /\ \A t : t # topic => PlacesOf(r, t) = PlacesOf(saidOf, t)
      /\ \A t : Count(t) \in Nat
      /\ Cardinality(PlacesOf(r, topic)) = Count(topic) + 1
      /\ NthIn(r, n) = Count(topic) + 1
  <2>1. r = Append(saidOf, e)
    BY <1>2, <1>5
  <2>2. r \in Seq(Said) /\ Grown(saidOf, r, e)
    BY <1>2, <2>1, OneMoreSaid
  <2> QED
    BY <1>2, <1>3, <1>5, <1>6, <2>2 DEF Grown
<1>8. Count(topic)' = Count(topic) + 1 /\ \A t : t # topic => Count(t)' = Count(t)
  BY <1>3, <1>5, <1>7
<1> QED
  BY <1>2, <1>4, <1>5, <1>6, <1>7, <1>8

\* What is said of no task, at a time when nothing is half told.
LEMMA AgentKeeps ==
  ASSUME TurnInv, NEW topic \in {Spawned, Terminated}, NoTask \in Body, Says(topic, NoTask),
         UNCHANGED <<accepted, taskQueue, thread>>,
         Lives', keeper' = "over" => topic = Terminated
  PROVE  TurnInv'
<1>1. topic \in WorkerTopics /\ topic \notin {TaskStarted, TaskCompleted, Evaluated}
  BY TopicsDiffer DEF WorkerTopics
<1>2. PICK n : n = Len(saidOf) + 1
  OBVIOUS
<1>3. /\ saidOf' \in Seq(Said) /\ n \in Nat /\ n > 0 /\ Len(saidOf') = n
      /\ saidOf'[n].topic = topic
      /\ \A i \in 1..n - 1 : saidOf'[i] = saidOf[i] /\ NthIn(saidOf', i) = NthIn(saidOf, i)
      /\ \A t : PlacesOf(saidOf, t) \subseteq 1..n - 1
      /\ \A t : t # topic => PlacesOf(saidOf', t) = PlacesOf(saidOf, t)
      /\ \A t : t # topic => Count(t)' = Count(t)
  BY <1>1, <1>2, SaidMore
<1>4. InTheirTurn'
  BY <1>1, <1>3 DEF TurnInv, InTheirTurn, TaskAt
<1>5. Waiting'
  <2>1. Count(TaskCompleted)' = Count(TaskCompleted) /\ Count(TaskStarted)' = Count(TaskStarted)
    BY <1>1, <1>3
  <2> QED
    BY <2>1 DEF TurnInv, Waiting, Taken
<1>6. Judged'
  <2>1. ASSUME NEW i \in PlacesOf(saidOf', Evaluated) PROVE JustCompleted(saidOf', saidOf'[i].task, i - 1)
    <3>1. i \in PlacesOf(saidOf, Evaluated) /\ i \in 1..n - 1 /\ saidOf'[i] = saidOf[i]
      BY <1>1, <1>3
    <3>2. PICK k \in PlacesOf(saidOf, TaskCompleted) :
            /\ k <= i - 1 /\ saidOf[k].task = saidOf[i].task
            /\ \A m \in (k + 1)..(i - 1) : saidOf[m].topic \in {Spawned, Terminated}
      BY <3>1 DEF TurnInv, Judged, JustCompleted
    <3>3. k \in PlacesOf(saidOf', TaskCompleted) /\ k \in 1..n - 1
      BY <1>1, <1>3
    <3>4. \A m \in (k + 1)..(i - 1) : m \in 1..n - 1
      BY <1>3, <3>1, <3>3
    <3> QED
      BY <1>3, <3>1, <3>2, <3>3, <3>4 DEF JustCompleted
  <2>2. ASSUME thread'.pc = "evaluate" PROVE JustCompleted(saidOf', thread'.task, Len(saidOf'))
    <3>1. PICK k \in PlacesOf(saidOf, TaskCompleted) :
            /\ k <= Len(saidOf) /\ saidOf[k].task = thread.task
            /\ \A m \in (k + 1)..Len(saidOf) : saidOf[m].topic \in {Spawned, Terminated}
      BY <2>2 DEF TurnInv, Judged, JustCompleted
    <3>2. k \in PlacesOf(saidOf', TaskCompleted) /\ k \in 1..n - 1
      BY <1>1, <1>3
    <3>3. ASSUME NEW m \in (k + 1)..n PROVE saidOf'[m].topic \in {Spawned, Terminated}
      <4>1. m = n \/ (m \in 1..n - 1 /\ m \in (k + 1)..Len(saidOf))
        BY <1>2, <1>3, <3>2
      <4> QED
        BY <1>3, <3>1, <4>1
    <3> QED
      BY <1>3, <3>1, <3>2, <3>3 DEF JustCompleted
  <2> QED
    BY <2>1, <2>2 DEF Judged
<1>7. LastWord'
  BY <1>3 DEF LastWord
<1> QED
  BY <1>3, <1>4, <1>5, <1>6, <1>7 DEF TurnInv
\* An event that was judged stays so when more is said.
LEMMA JudgedBefore ==
  ASSUME TurnInv, NEW n \in Nat, n = Len(saidOf) + 1,
         \A i \in 1..n - 1 : saidOf'[i] = saidOf[i],
         PlacesOf(saidOf, TaskCompleted) \subseteq PlacesOf(saidOf', TaskCompleted),
         NEW i \in PlacesOf(saidOf, Evaluated)
  PROVE  JustCompleted(saidOf', saidOf'[i].task, i - 1)
<1>1. /\ Len(saidOf) = n - 1
      /\ PlacesOf(saidOf, Evaluated) \subseteq 1..n - 1 /\ PlacesOf(saidOf, TaskCompleted) \subseteq 1..n - 1
  BY DEF TurnInv, PlacesOf
<1>2. PICK k \in PlacesOf(saidOf, TaskCompleted) :
        /\ k <= i - 1 /\ saidOf[k].task = saidOf[i].task
        /\ \A m \in (k + 1)..(i - 1) : saidOf[m].topic \in {Spawned, Terminated}
  BY DEF TurnInv, Judged, JustCompleted
<1>3. i \in 1..n - 1 /\ k \in 1..n - 1 /\ \A m \in (k + 1)..(i - 1) : m \in 1..n - 1
  BY <1>1
<1> QED
  BY <1>2, <1>3 DEF JustCompleted

\* So all are judged still when nothing is evaluated.
LEMMA EarlierJudged ==
  ASSUME TurnInv, NEW n \in Nat, n = Len(saidOf) + 1,
         \A i \in 1..n - 1 : saidOf'[i] = saidOf[i],
         PlacesOf(saidOf, TaskCompleted) \subseteq PlacesOf(saidOf', TaskCompleted),
         PlacesOf(saidOf', Evaluated) = PlacesOf(saidOf, Evaluated),
         thread'.pc = "evaluate" => JustCompleted(saidOf', thread'.task, Len(saidOf'))
  PROVE  Judged'
BY JudgedBefore DEF Judged

LEMMA BeginKeeps ==
  ASSUME GivenOthers, TurnInv, LoopBegins
  PROVE  TurnInv'
<1>1. /\ thread.task \in Body /\ Says(TaskStarted, thread.task) /\ TaskStarted \in WorkerTopics
      /\ thread'.task = thread.task /\ thread'.pc = "process" /\ thread.pc = "begin"
      /\ Taken = 1 /\ Taken' = 1 /\ UNCHANGED <<accepted, taskQueue, keeper>>
  BY DEF LoopBegins, LoopFrame, GivenOthers, OfOthers, Taken, WorkerTopics
<1>2. PICK n, c : n = Len(saidOf) + 1 /\ c = Count(TaskCompleted)
  OBVIOUS
<1>3. /\ saidOf' \in Seq(Said) /\ n \in Nat /\ n > 0
      /\ saidOf'[n].topic = TaskStarted /\ saidOf'[n].task = thread.task
      /\ \A i \in 1..n - 1 : saidOf'[i] = saidOf[i] /\ NthIn(saidOf', i) = NthIn(saidOf, i)
      /\ \A t : PlacesOf(saidOf, t) \subseteq 1..n - 1
      /\ PlacesOf(saidOf', TaskStarted) = PlacesOf(saidOf, TaskStarted) \cup {n}
      /\ PlacesOf(saidOf', TaskCompleted) = PlacesOf(saidOf, TaskCompleted)
      /\ PlacesOf(saidOf', Evaluated) = PlacesOf(saidOf, Evaluated)
      /\ Count(TaskStarted) \in Nat /\ c \in Nat
      /\ Count(TaskStarted)' = Count(TaskStarted) + 1 /\ Count(TaskCompleted)' = c
      /\ NthIn(saidOf', n) = Count(TaskStarted) + 1
  BY <1>1, <1>2, SaidMore, TopicsDiffer
<1>4. /\ Count(TaskStarted) = c /\ thread.task = accepted[c + 1]
      /\ Len(taskQueue) \in Nat /\ Len(accepted) \in Nat /\ c + 1 + Len(taskQueue) = Len(accepted)
      /\ \A i \in 1..Len(taskQueue) : taskQueue[i] = accepted[c + 1 + i]
  BY <1>1, <1>2, <1>3 DEF TurnInv, Waiting, GivenOthers
<1>5. InTheirTurn'
  <2> SUFFICES ASSUME NEW topic \in {TaskStarted, TaskCompleted}, NEW i \in PlacesOf(saidOf', topic)
               PROVE  TaskAt(saidOf', accepted, i)
    BY <1>1 DEF InTheirTurn
  <2>1. CASE i = n
    <3>1. NthIn(saidOf', i) = c + 1 /\ c + 1 \in 1..Len(accepted)
      BY <1>3, <1>4, <2>1
    <3>2. DOMAIN accepted = 1..Len(accepted)
      BY DEF TurnInv
    <3> QED
      BY <1>3, <1>4, <2>1, <3>1, <3>2 DEF TaskAt
  <2>2. CASE i # n
    <3>1. i \in PlacesOf(saidOf, topic) /\ i \in 1..n - 1
      BY <1>3, <2>2
    <3> QED
      BY <1>3, <3>1 DEF TaskAt, TurnInv, InTheirTurn
  <2> QED
    BY <2>1, <2>2
<1>6. Waiting'
  BY <1>1, <1>3, <1>4 DEF Waiting
<1>7. Judged'
  BY <1>1, <1>2, <1>3, EarlierJudged
<1> QED
  BY <1>1, <1>3, <1>5, <1>6, <1>7 DEF TurnInv, Lives, LastWord

LEMMA CompleteKeeps ==
  ASSUME GivenOthers, TurnInv, LoopCompletes
  PROVE  TurnInv'
<1>1. /\ thread.task \in Body /\ Says(TaskCompleted, thread.task) /\ TaskCompleted \in WorkerTopics
      /\ thread.pc = "process" /\ thread'.pc \in {"evaluate", "top"}
      /\ thread'.pc = "evaluate" => thread'.task = thread.task
      /\ Taken = 1 /\ Taken' = 0 /\ UNCHANGED <<accepted, taskQueue, keeper>>
  BY DEF LoopCompletes, LoopFrame, GivenOthers, OfOthers, Taken, WorkerTopics, InLoop
<1>2. PICK n, c : n = Len(saidOf) + 1 /\ c = Count(TaskCompleted)
  OBVIOUS
<1>3. /\ saidOf' \in Seq(Said) /\ n \in Nat /\ n > 0 /\ Len(saidOf') = n
      /\ saidOf'[n].topic = TaskCompleted /\ saidOf'[n].task = thread.task
      /\ \A i \in 1..n - 1 : saidOf'[i] = saidOf[i] /\ NthIn(saidOf', i) = NthIn(saidOf, i)
      /\ \A t : PlacesOf(saidOf, t) \subseteq 1..n - 1
      /\ PlacesOf(saidOf', TaskCompleted) = PlacesOf(saidOf, TaskCompleted) \cup {n}
      /\ PlacesOf(saidOf', TaskStarted) = PlacesOf(saidOf, TaskStarted)
      /\ PlacesOf(saidOf', Evaluated) = PlacesOf(saidOf, Evaluated)
      /\ c \in Nat /\ Count(TaskStarted)' = Count(TaskStarted) /\ Count(TaskCompleted)' = c + 1
      /\ NthIn(saidOf', n) = c + 1
  BY <1>1, <1>2, SaidMore, TopicsDiffer
<1>4. /\ Count(TaskStarted) = c + 1 /\ thread.task = accepted[c + 1]
      /\ Len(taskQueue) \in Nat /\ Len(accepted) \in Nat /\ c + 1 + Len(taskQueue) = Len(accepted)
      /\ \A i \in 1..Len(taskQueue) : taskQueue[i] = accepted[c + 1 + i]
  BY <1>1, <1>2, <1>3 DEF TurnInv, Waiting, GivenOthers
<1>5. InTheirTurn'
  <2> SUFFICES ASSUME NEW topic \in {TaskStarted, TaskCompleted}, NEW i \in PlacesOf(saidOf', topic)
               PROVE  TaskAt(saidOf', accepted, i)
    BY <1>1 DEF InTheirTurn
  <2>1. CASE i = n
    <3>1. NthIn(saidOf', i) = c + 1 /\ c + 1 \in 1..Len(accepted)
      BY <1>3, <1>4, <2>1
    <3>2. DOMAIN accepted = 1..Len(accepted)
      BY DEF TurnInv
    <3> QED
      BY <1>3, <1>4, <2>1, <3>1, <3>2 DEF TaskAt
  <2>2. CASE i # n
    <3>1. i \in PlacesOf(saidOf, topic) /\ i \in 1..n - 1
      BY <1>3, <2>2
    <3> QED
      BY <1>3, <3>1 DEF TaskAt, TurnInv, InTheirTurn
  <2> QED
    BY <2>1, <2>2
<1>6. Waiting'
  <2>1. \A i \in 1..Len(taskQueue) : taskQueue[i] = accepted[c + 1 + 0 + i]
    BY <1>3, <1>4
  <2> QED
    BY <1>1, <1>3, <1>4, <2>1 DEF Waiting
<1>7. Judged'
  <2>1. ASSUME thread'.pc = "evaluate" PROVE JustCompleted(saidOf', thread'.task, Len(saidOf'))
    BY <1>1, <1>3, <2>1 DEF JustCompleted
  <2> QED
    BY <1>1, <1>2, <1>3, <2>1, EarlierJudged
<1> QED
  BY <1>1, <1>3, <1>5, <1>6, <1>7 DEF TurnInv, Lives, LastWord

LEMMA EvaluateKeeps ==
  ASSUME GivenOthers, TurnInv, LoopEvaluates
  PROVE  TurnInv'
<1>1. CASE UNCHANGED <<busVars, saidOf>>
  <2>1. /\ UNCHANGED <<saidOf, accepted, taskQueue, keeper>> /\ thread.pc = "evaluate" /\ thread'.pc = "top"
    BY <1>1 DEF LoopEvaluates, LoopFrame, InLoop
  <2>2. Taken' = 0 /\ Taken = 0 /\ Count(TaskCompleted)' = Count(TaskCompleted)
        /\ Count(TaskStarted)' = Count(TaskStarted)
    BY <2>1 DEF Taken, Count, SaidOf
  <2>3. Waiting'
    BY <2>1, <2>2 DEF TurnInv, Waiting
  <2>4. InTheirTurn' /\ Judged' /\ LastWord' /\ Lives'
    BY <2>1 DEF TurnInv, InTheirTurn, Judged, LastWord, Lives
  <2> QED
    BY <2>1, <2>3, <2>4 DEF TurnInv
<1>2. CASE Says(Evaluated, thread.task)
  <2>1. /\ thread.task \in Body /\ Evaluated \in WorkerTopics
        /\ thread.pc = "evaluate" /\ thread'.pc = "top"
        /\ Taken = 0 /\ Taken' = 0 /\ UNCHANGED <<accepted, taskQueue, keeper>>
    BY DEF LoopEvaluates, LoopFrame, GivenOthers, OfOthers, Taken, WorkerTopics, InLoop
  <2>2. PICK n : n = Len(saidOf) + 1
    OBVIOUS
  <2>3. /\ saidOf' \in Seq(Said) /\ n \in Nat /\ n > 0 /\ Len(saidOf') = n
        /\ saidOf'[n].topic = Evaluated /\ saidOf'[n].task = thread.task
        /\ \A i \in 1..n - 1 : saidOf'[i] = saidOf[i] /\ NthIn(saidOf', i) = NthIn(saidOf, i)
        /\ \A t : PlacesOf(saidOf, t) \subseteq 1..n - 1
        /\ PlacesOf(saidOf', Evaluated) = PlacesOf(saidOf, Evaluated) \cup {n}
        /\ PlacesOf(saidOf', TaskStarted) = PlacesOf(saidOf, TaskStarted)
        /\ PlacesOf(saidOf', TaskCompleted) = PlacesOf(saidOf, TaskCompleted)
        /\ Count(TaskStarted)' = Count(TaskStarted) /\ Count(TaskCompleted)' = Count(TaskCompleted)
    BY <1>2, <2>1, <2>2, SaidMore, TopicsDiffer
  <2>4. InTheirTurn'
    <3> SUFFICES ASSUME NEW topic \in {TaskStarted, TaskCompleted}, NEW i \in PlacesOf(saidOf', topic)
                 PROVE  TaskAt(saidOf', accepted, i)
      BY <2>1 DEF InTheirTurn
    <3>1. i \in PlacesOf(saidOf, topic) /\ i \in 1..n - 1
      BY <2>3
    <3> QED
      BY <2>3, <3>1 DEF TaskAt, TurnInv, InTheirTurn
  <2>5. Waiting'
    BY <2>1, <2>3 DEF TurnInv, Waiting
  <2>6. Judged'
    <3>1. ASSUME NEW i \in PlacesOf(saidOf', Evaluated) PROVE JustCompleted(saidOf', saidOf'[i].task, i - 1)
      <4>1. CASE i = n
        <5>1. JustCompleted(saidOf, thread.task, n - 1)
          <6>1. Len(saidOf) = n - 1
            BY <2>2 DEF TurnInv
          <6> QED
            BY <2>1, <6>1 DEF TurnInv, Judged
        <5>2. PICK k \in PlacesOf(saidOf, TaskCompleted) :
                /\ k <= n - 1 /\ saidOf[k].task = thread.task
                /\ \A m \in (k + 1)..(n - 1) : saidOf[m].topic \in {Spawned, Terminated}
          BY <5>1 DEF JustCompleted
        <5>3. k \in PlacesOf(saidOf', TaskCompleted) /\ k \in 1..n - 1
          BY <2>3
        <5>4. \A m \in (k + 1)..(n - 1) : m \in 1..n - 1
          BY <2>3, <5>3
        <5> QED
          BY <2>3, <4>1, <5>2, <5>3, <5>4 DEF JustCompleted
      <4>2. CASE i # n
        <5>1. i \in PlacesOf(saidOf, Evaluated)
          BY <2>3, <4>2
        <5> QED
          BY <2>2, <2>3, <5>1, JudgedBefore
      <4> QED
        BY <4>1, <4>2
    <3> QED
      BY <2>1, <3>1 DEF Judged
  <2> QED
    BY <2>1, <2>3, <2>4, <2>5, <2>6 DEF TurnInv, Lives, LastWord
<1> QED
  BY <1>1, <1>2 DEF LoopEvaluates

-----------------------------------------------------------------------------
LEMMA TurnStarts == EventInit => TurnInv
<1> SUFFICES ASSUME EventInit PROVE TurnInv
  OBVIOUS
<1>1. /\ saidOf = <<>> /\ accepted = <<>> /\ taskQueue = <<>> /\ keeper \in {"idle", "away"}
      /\ thread.pc = "none"
  BY DEF EventInit, WorkerInit, InLoop
<1>2. \A t : PlacesOf(saidOf, t) = {} /\ SaidOf(t) = {}
  BY <1>1 DEF PlacesOf, SaidOf
<1>3. \A t : Count(t) = 0
  BY <1>2, FS_EmptySet DEF Count
<1>4. Waiting
  BY <1>1, <1>3 DEF Waiting, Taken
<1> QED
  BY <1>1, <1>2, <1>4 DEF TurnInv, Lives, InTheirTurn, Judged, LastWord

LEMMA TurnKeeps ==
  ASSUME GivenOthers, TurnInv, CognitiveNext
  PROVE  TurnInv'
<1>1. CASE KeeperStarts \/ KeeperCreates \/ KeeperStops
  BY <1>1, QuietKeeps DEF KeeperStarts, KeeperCreates, KeeperStops, InLoop, QuietStep, TurnInv, Lives
<1>2. CASE KeeperNotifies \/ KeeperJoins
  BY <1>2, QuietKeeps DEF KeeperNotifies, KeeperJoins, Joinable, Awake, InLoop, QuietStep, TurnInv, Lives
<1>3. CASE KeeperTells
  <2>1. NoTask \in Body
    BY JobsAssumption
  <2>2. CASE keeper = "spawned"
    <3>1. /\ Says(Spawned, NoTask) /\ UNCHANGED <<accepted, taskQueue, thread>> /\ keeper' = "up"
      BY <1>3, <2>2 DEF KeeperTells
    <3> QED
      BY <2>1, <3>1, AgentKeeps DEF Lives
  <2>3. CASE keeper = "joined"
    <3>1. /\ Says(Terminated, NoTask) /\ UNCHANGED <<accepted, taskQueue, thread>> /\ keeper' = "over"
      BY <1>3, <2>3 DEF KeeperTells
    <3>2. Lives'
      BY <2>3, <3>1 DEF TurnInv, Lives
    <3> QED
      BY <2>1, <3>1, <3>2, AgentKeeps
  <2> QED
    BY <1>3, <2>2, <2>3 DEF KeeperTells
<1>4. CASE Clients
  <2>1. PICK c \in Client : ClientSubmits(c) \/ ClientPushes(c) \/ ClientNotifies(c)
    BY <1>4 DEF Clients
  <2>2. CASE ClientSubmits(c)
    BY <2>2, QuietKeeps DEF ClientSubmits, QuietStep, TurnInv, Lives
  <2>3. CASE ClientPushes(c)
    <3>1. submitter[c].at \in DOMAIN job.tasks[c] /\ job.tasks[c] \in Seq(OfOthers)
      BY <2>3, EventWorldsAssumption DEF ClientPushes, GivenOthers
    <3>2. Submission(c) \in Body
      BY <3>1 DEF Submission, OfOthers
    <3> QED
      BY <2>3, <3>2, PushKeeps DEF ClientPushes
  <2>4. CASE ClientNotifies(c)
    BY <2>4, QuietKeeps DEF ClientNotifies, Awake, InLoop, QuietStep, TurnInv, Lives
  <2> QED
    BY <2>1, <2>2, <2>3, <2>4
<1>5. CASE LoopLooks \/ LoopFindsNothing \/ LoopBlocks
  BY <1>5, QuietKeeps DEF LoopLooks, LoopFindsNothing, LoopBlocks, LoopFrame, InLoop, QuietStep, TurnInv, Lives
<1>6. CASE LoopTakes
  <2>1. CASE workerState # "running"
    BY <1>6, <2>1, QuietKeeps DEF LoopTakes, LoopFrame, InLoop, QuietStep, TurnInv, Lives
  <2>2. CASE workerState = "running"
    BY <1>6, <2>2, TakeKeeps DEF LoopTakes, LoopFrame
  <2> QED
    BY <2>1, <2>2
<1> QED
  BY <1>1, <1>2, <1>3, <1>4, <1>5, <1>6, BeginKeeps, CompleteKeeps, EvaluateKeeps
     DEF CognitiveNext, Keeper, ThreadSteps

LEMMA TurnsStand ==
  ASSUME TurnInv, UNCHANGED cogVars
  PROVE  TurnInv'
<1>1. UNCHANGED <<saidOf, accepted, taskQueue, thread, keeper>>
  BY DEF cogVars
<1>2. Taken' = Taken /\ Count(TaskCompleted)' = Count(TaskCompleted)
      /\ Count(TaskStarted)' = Count(TaskStarted)
  BY <1>1 DEF Taken, Count, SaidOf
<1>3. Waiting'
  BY <1>1, <1>2 DEF TurnInv, Waiting
<1>4. Lives' /\ InTheirTurn' /\ Judged' /\ LastWord'
  BY <1>1 DEF TurnInv, Lives, InTheirTurn, Judged, LastWord
<1> QED
  BY <1>1, <1>3, <1>4 DEF TurnInv

(* Of every task that was queued the worker tells in its turn, as started   *)
(* and then as completed, or nothing at all, and what it has evaluated was  *)
(* completed just before: whatever clients submit while it is stopped, and  *)
(* whatever else is on the bus.                                             *)
THEOREM ToldInTurn == EventSpec => []TasksInTurn
<1>1. EventInit => EventInv /\ TurnInv
  BY EventInvStarts, TurnStarts
<1>2. EventInv /\ TurnInv /\ [EventNext]_eventVars => (EventInv /\ TurnInv)'
  <2> SUFFICES ASSUME EventInv, TurnInv, [EventNext]_eventVars PROVE EventInv' /\ TurnInv'
    OBVIOUS
  <2>1. EventInv'
    BY EventStepKeeps
  <2>2. CASE WorkerStep(CognitiveNext)
    <3>1. TurnInv'
      BY <2>2, TurnKeeps DEF WorkerStep, EventInv
    <3> QED
      BY <2>1, <3>1
  <2>3. CASE UNCHANGED cogVars
    <3>1. TurnInv'
      BY <2>3, TurnsStand
    <3> QED
      BY <2>1, <3>1
  <2> QED
    BY <2>2, <2>3 DEF EventNext, eventVars
<1>3. EventInv /\ TurnInv => TasksInTurn
  BY TurnsTell DEF EventInv
<1> QED
  BY <1>1, <1>2, <1>3, PTL DEF EventSpec
==============================================================================

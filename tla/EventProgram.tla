----------------------------- MODULE EventProgram -----------------------------
(***************************************************************************)
(* A program with a fork-join loop or a cognitive worker, or both, on one  *)
(* bus, of which a log writer may hear them.                               *)
(***************************************************************************)
EXTENDS ForkJoin, CognitiveWorker

CONSTANT EventWorlds   \* a loop with its surroundings, and a worker

\* What the worker tells the bus is not of the loop's pool.
OfOthers == {b \in Body : b.from = "other"}

ASSUME EventWorldsAssumption ==
  /\ EventWorlds \subseteq Setups \X Jobs
  /\ NoTask \in OfOthers /\ \A j \in Jobs : j.tasks \in [Client -> Seq(OfOthers)]

eventVars == <<allVars, cogVars>>

EventInit ==
  /\ Init /\ WorkerInit
  /\ \E w \in EventWorlds :
       /\ w[2] = job
       /\ w[1] = [runs |-> loop.pc # "done", branches |-> branches, kind |-> kind, others |-> others]

WorkerStep(A) == Attached /\ A /\ UNCHANGED <<logVars, loopVars, poolVars, others, crosstalk>>
EventNext ==
  \/ Next /\ UNCHANGED cogVars
  \/ WorkerStep(CognitiveNext)

EventSpec == EventInit /\ [][EventNext]_eventVars

\* Threads run; nobody has to start or stop the worker or to submit to it.
FairEvents ==
  /\ EventSpec /\ Fairness
  /\ WF_eventVars(WorkerStep(KeeperGoesOn)) /\ WF_eventVars(WorkerStep(ThreadSteps))
  /\ WF_eventVars(WorkerStep(ClientsGoOn))

(* Every call that waits for others returns: the run of the loop, the stop *)
(* of the writer, and the stop of the worker but in the one case; and a    *)
(* task that was queued is taken.                                          *)
WaitsEnd == CallsReturn /\ WorkerServes
==============================================================================

--------------------------- MODULE TemporalBackend ---------------------------
(***************************************************************************)
(* InMemoryTemporalBackend (pdk/temporal_agent/src/temporal_client.cpp),   *)
(* as the client and the tools reach it: workflows under one mutex, which  *)
(* a call that waits releases between its looks.                           *)
(*                                                                         *)
(*   agents    start workflows, blocking or not, poll, signal and query    *)
(*   drivers   bring workflows on and emit their signals                   *)
(*   streams   report the changes of a status, until it is a last one      *)
(*                                                                         *)
(* A thread makes the calls of its list, and every timeout may come at any *)
(* look.  The events that the client emits after a call are output.        *)
(***************************************************************************)
EXTENDS Integers, Sequences, FiniteSets

CONSTANTS
  Thread,
  Services      \* whether there is a backend, the calls of each thread, the workflow that the
                \* channel watches, and the signals it handles from the start

\* A workflow has the name its caller gives it, or one that is made of a number.
Unnamed == <<>>
Made(n) == <<"wf", n>>
LastStatus == {"completed", "failed", "cancelled", "timed_out", "terminated"}
FlowStatus == {"running"} \cup LastStatus
Operation == {"start", "poll", "signal", "query", "change", "emit", "handle", "stream"}

ASSUME ServicesAssumption ==
  \A s \in Services :
    /\ s.on \in BOOLEAN /\ s.handlers \subseteq STRING
    /\ \A t \in Thread : \A i \in DOMAIN s.calls[t] :
         LET ask == s.calls[t][i] IN
         /\ ask.op \in Operation
         /\ ask.op = "change" => ask.status \in FlowStatus
         /\ ask.op \in {"emit", "handle"} => ask.name \in STRING

VARIABLES
  service,      \* one of Services
  workflows,    \* workflows_, by id: the run, the status, the number of events, pending_signals
                \* and last_streamed_status
  runCounter,   \* run_counter_
  place,        \* where each thread is in its list
  phase,        \* and in that call: ready, waits, looks, tells
  held,         \* the workflow it waits for, or the number of the change it is to tell
  handlers,     \* handlers_ of the channel
  returned,     \* history: the results of each thread's calls
  emitted,      \* history: the signals of the workflow that is watched
  changes,      \* history: the changes of status that streams saw, in their order
  told,         \* history: the changes that were told, in the order of the callbacks
  ended         \* history: the workflows and last statuses of the streams that have returned

historyVars == <<returned, emitted, changes, told, ended>>
flowVars == <<workflows, runCounter>>
temporalVars == <<service, flowVars, place, phase, held, handlers, historyVars>>

TemporalInit ==
  /\ service \in Services
  /\ workflows = [w \in {} |-> Unnamed]
  /\ runCounter = 0
  /\ place = [t \in Thread |-> 1]
  /\ phase = [t \in Thread |-> "ready"]
  /\ held = [t \in Thread |-> Unnamed]
  /\ handlers = service.handlers
  /\ returned = [t \in Thread |-> <<>>]
  /\ emitted = <<>> /\ changes = <<>> /\ told = <<>> /\ ended = {}

Known(w) == w \in DOMAIN workflows
Asked(t) == service.calls[t][place[t]]
Calls(t, op) ==
  /\ service.on /\ phase[t] = "ready"
  /\ place[t] \in DOMAIN service.calls[t] /\ Asked(t).op = op

-----------------------------------------------------------------------------
(* How a call ends or waits.                                               *)

GoesOn(t) == place' = [place EXCEPT ![t] = @ + 1] /\ phase' = [phase EXCEPT ![t] = "ready"]

ResultOf(w, flow) == [id |-> w, run |-> flow.run, status |-> flow.status, events |-> flow.events]

Gives(t, w, flow) ==
  /\ returned' = [returned EXCEPT ![t] = Append(@, ResultOf(w, flow))]
  /\ GoesOn(t)
  /\ UNCHANGED held

Waits(t, w) ==
  /\ phase' = [phase EXCEPT ![t] = "waits"]
  /\ held' = [held EXCEPT ![t] = w]
  /\ UNCHANGED <<place, returned>>

\* find_or_throw: the tool's answer is an error.
NotFound(t) ==
  /\ GoesOn(t)
  /\ UNCHANGED <<flowVars, held, handlers, historyVars>>

Rest == UNCHANGED <<handlers, emitted, changes, told, ended>>

-----------------------------------------------------------------------------
(* Calls of agents.                                                        *)

Fresh(n) == [run |-> n, status |-> "running", events |-> 1, pending |-> <<>>, streamed |-> "unknown"]

\* Mutant of Existing: a start with a name that is taken makes a new run.
ExistingNot(w) == FALSE

Existing(w) == Known(w)

\* A name that is taken gives what is there, also to a blocking start.
Starts(t) ==
  /\ Calls(t, "start")
  /\ LET made == IF Asked(t).id = Unnamed THEN 1 ELSE 0
         w == IF made = 1 THEN Made(runCounter + 1) ELSE Asked(t).id
         flow == Fresh(runCounter + made + 1)
     IN IF Existing(w)
          THEN Gives(t, w, workflows[w]) /\ UNCHANGED flowVars
          ELSE /\ runCounter' = runCounter + made + 1
               /\ workflows' = [v \in DOMAIN workflows \cup {w} |-> IF v = w THEN flow ELSE workflows[v]]
               /\ IF Asked(t).blocking THEN Waits(t, w) ELSE Gives(t, w, flow)
  /\ Rest

Polls(t) ==
  /\ Calls(t, "poll")
  /\ IF Known(Asked(t).id)
       THEN Waits(t, Asked(t).id) /\ UNCHANGED flowVars /\ Rest
       ELSE NotFound(t)

\* The last look of a start or a poll: the status is another, or the time is up.
StopsWaiting(t) ==
  /\ phase[t] = "waits"
  /\ Gives(t, held[t], workflows[held[t]])
  /\ UNCHANGED flowVars /\ Rest

\* A signal to the workflow is an event of it and no more.
Signals(t) ==
  /\ Calls(t, "signal")
  /\ IF Known(Asked(t).id)
       THEN /\ workflows' = [workflows EXCEPT ![Asked(t).id].events = @ + 1]
            /\ GoesOn(t)
            /\ UNCHANGED <<runCounter, held, returned>> /\ Rest
       ELSE NotFound(t)

Queries(t) ==
  /\ Calls(t, "query")
  /\ IF Known(Asked(t).id)
       THEN Gives(t, Asked(t).id, workflows[Asked(t).id]) /\ UNCHANGED flowVars /\ Rest
       ELSE NotFound(t)

-----------------------------------------------------------------------------
(* Drivers, and the handlers of the channel.                               *)

\* complete_workflow, fail_workflow and advance_workflow: from any status to any.
Changes(t) ==
  /\ Calls(t, "change")
  /\ IF Known(Asked(t).id)
       THEN /\ workflows' = [workflows EXCEPT ![Asked(t).id].status = Asked(t).status,
                                              ![Asked(t).id].events = @ + 1]
            /\ GoesOn(t)
            /\ UNCHANGED <<runCounter, held, returned>> /\ Rest
       ELSE NotFound(t)

\* A signal of the workflow, for whoever consumes it.
EmitsSignal(t) ==
  /\ Calls(t, "emit")
  /\ LET w == Asked(t).id
         watched == w = service.watched
         signal == [name |-> Asked(t).name, number |-> Len(emitted) + 1]
     IN IF Known(w)
          THEN /\ workflows' = [workflows EXCEPT ![w].pending = Append(@, signal)]
               /\ emitted' = IF watched
                               THEN Append(emitted, [name |-> signal.name,
                                                     expected |-> signal.name \in handlers])
                               ELSE emitted
               /\ GoesOn(t)
               /\ UNCHANGED <<runCounter, held, returned, handlers, changes, told, ended>>
          ELSE NotFound(t)

OnSignal(t) ==
  /\ Calls(t, "handle")
  /\ handlers' = handlers \cup {Asked(t).name}
  /\ GoesOn(t)
  /\ UNCHANGED <<flowVars, held, historyVars>>

\* Mutant of Emptied: the signals that were taken stay.
EmptiedNot(flow) == flow

Emptied(flow) == [flow EXCEPT !.pending = <<>>]

\* consume_signals: what is pending, and nothing is pending any more.
Consumed(w) == IF Known(w) THEN workflows[w].pending ELSE <<>>
Consumes(w) == workflows' = IF Known(w) THEN [workflows EXCEPT ![w] = Emptied(@)] ELSE workflows

-----------------------------------------------------------------------------
(* Streams.                                                                *)

StreamFrame == UNCHANGED <<runCounter, handlers, returned, emitted>>

StreamBegins(t) ==
  /\ Calls(t, "stream")
  /\ phase' = [phase EXCEPT ![t] = "looks"]
  /\ UNCHANGED <<workflows, place, held, changes, told, ended>> /\ StreamFrame

\* The stop flag, or no such workflow.
StreamStops(t) ==
  /\ phase[t] = "looks"
  /\ Asked(t).stops \/ ~Known(Asked(t).id)
  /\ GoesOn(t)
  /\ UNCHANGED <<workflows, held, changes, told, ended>> /\ StreamFrame

\* A look remembers the status for all streams; only one that found another tells it.  A last status
\* ends a stream, told or not.
StreamLooks(t) ==
  /\ phase[t] = "looks" /\ Known(Asked(t).id)
  /\ LET w == Asked(t).id
         status == workflows[w].status
     IN /\ workflows' = [workflows EXCEPT ![w].streamed = status]
        /\ IF status # workflows[w].streamed
             THEN /\ changes' = Append(changes, [id |-> w, status |-> status])
                  /\ held' = [held EXCEPT ![t] = Len(changes) + 1]
                  /\ phase' = [phase EXCEPT ![t] = "tells"]
                  /\ UNCHANGED <<place, ended>>
             ELSE /\ status \in LastStatus
                  /\ ended' = ended \cup {[id |-> w, status |-> status]}
                  /\ GoesOn(t)
                  /\ UNCHANGED <<held, changes>>
  /\ UNCHANGED told /\ StreamFrame

\* The callback runs without the mutex.
StreamTells(t) ==
  /\ phase[t] = "tells"
  /\ told' = Append(told, held[t])
  /\ LET change == changes[held[t]] IN
       IF change.status \in LastStatus
         THEN ended' = ended \cup {change} /\ GoesOn(t)
         ELSE phase' = [phase EXCEPT ![t] = "looks"] /\ UNCHANGED <<place, ended>>
  /\ UNCHANGED <<workflows, held, changes>> /\ StreamFrame

-----------------------------------------------------------------------------

TemporalNext ==
  /\ \E t \in Thread :
       \/ Starts(t) \/ Polls(t) \/ StopsWaiting(t) \/ Signals(t) \/ Queries(t)
       \/ Changes(t) \/ EmitsSignal(t) \/ OnSignal(t)
       \/ StreamBegins(t) \/ StreamStops(t) \/ StreamLooks(t) \/ StreamTells(t)
  /\ UNCHANGED service
==============================================================================

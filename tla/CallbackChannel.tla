--------------------------- MODULE CallbackChannel ---------------------------
(***************************************************************************)
(* WorkflowCallbackChannel (pdk/temporal_agent/src/                        *)
(* workflow_callback_channel.cpp): it polls a backend from a periodic      *)
(* timer, and its stop cancels the timer and waits until no poll is in     *)
(* progress.  TemporalProgram adds the signals that a poll takes and hands  *)
(* to the handlers.                                                        *)
(***************************************************************************)
EXTENDS TimerService

VARIABLES
  periodicId,   \* periodic_id_, 0 when there is none
  inFlight,     \* in_flight_callbacks_
  polling,      \* the timer's thread is in poll_once, and whether it came before stop returned
  stopper       \* the thread that starts and stops the channel (running_ from "up" on)

channelVars == <<periodicId, inFlight, polling, stopper>>

ChannelInit ==
  /\ periodicId = 0
  /\ inFlight = 0
  /\ polling = "no"
  /\ stopper = "idle"

StartPolling ==
  /\ stopper = "idle"
  /\ Register("channel", TRUE)
  /\ periodicId' = nextId
  /\ stopper' = "up"
  /\ UNCHANGED <<inFlight, polling>>

\* The callback counts itself before it polls ...
TickEnters ==
  /\ Firing("channel") /\ polling = "no"
  /\ inFlight' = inFlight + 1
  /\ polling' = IF stopper = "stopped" THEN "late" ELSE "timely"
  /\ UNCHANGED <<timerVars, periodicId, stopper>>

\* ... and, when it is done, notifies without the mutex: a stop that has not blocked yet misses it.
TickLeaves ==
  /\ Firing("channel") /\ polling # "no"
  /\ Fired
  /\ inFlight' = inFlight - 1
  /\ polling' = "no"
  /\ stopper' = IF stopper = "asleep" THEN "barrier" ELSE stopper
  /\ UNCHANGED periodicId

StopPolling ==
  /\ stopper = "up"
  /\ CancelTimer(periodicId)
  /\ periodicId' = 0
  /\ stopper' = "barrier"
  /\ UNCHANGED <<inFlight, polling>>

\* Mutant of BarrierOpen: the poll in progress is not waited for.
BarrierOpenAlways == TRUE

BarrierOpen == inFlight = 0

BarrierCheck ==
  /\ stopper = "barrier"
  /\ stopper' = IF BarrierOpen THEN "stopped" ELSE "blocking"
  /\ UNCHANGED <<timerVars, periodicId, inFlight, polling>>

BarrierBlocks ==
  /\ stopper = "blocking"
  /\ stopper' = "asleep"
  /\ UNCHANGED <<timerVars, periodicId, inFlight, polling>>

Channel == StartPolling \/ StopPolling \/ BarrierCheck \/ BarrierBlocks
Tick == TickEnters \/ TickLeaves

(* When stop has returned the timer is gone and every poll that had begun   *)
(* is over; at most one is still to come, the call that the timer's thread  *)
(* had copied and not begun when stop looked at the counter.                *)
OneLatePoll ==
  stopper = "stopped" =>
    /\ polling # "timely"
    /\ \A t \in timers : t.owner # "channel"
    /\ Cardinality({i \in DOMAIN toFire : toFire[i].owner = "channel"}) <= 1
=============================================================================

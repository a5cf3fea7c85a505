--------------------------- MODULE TemporalProgram ---------------------------
(***************************************************************************)
(* HostProgram with what its channel polls: each poll of the channel takes *)
(* the signals that are pending for its workflow and hands them, one after *)
(* another, to their handlers, while agents, drivers and streams use the   *)
(* same backend (poll_once in pdk/temporal_agent/src/                      *)
(* workflow_callback_channel.cpp).                                         *)
(***************************************************************************)
EXTENDS HostProgram, TemporalBackend

CONSTANT Worlds   \* the skills and the chat of a program, and its backend

ASSUME WorldsAssumption == Worlds \subseteq Programs \X Services

VARIABLES
  poll,     \* where poll_once is: no, take, hand
  signals,  \* the signals it has taken and not looked at yet
  past      \* history: those it has looked at, and whether there was a handler

pollVars == <<poll, signals, past>>
worldVars == <<programVars, temporalVars, pollVars>>

WorldInit ==
  /\ ProgramInit /\ TemporalInit
  /\ <<<<setup, chat>>, service>> \in Worlds
  /\ poll = "no" /\ signals = <<>> /\ past = <<>>

Going == host.pc # "dead" /\ loop.pc # "crashed"

\* A poll begins with the callback of the timer and is over before that returns.
Entering == polling = "no" /\ polling' # "no"
Leaving == polling # "no" /\ polling' = "no"
ProgramStep ==
  /\ Next
  /\ service.on /\ Leaving => poll = "hand" /\ signals = <<>>
  /\ poll' = IF service.on /\ Entering THEN "take"
             ELSE IF service.on /\ Leaving THEN "no"
             ELSE poll
  /\ UNCHANGED <<temporalVars, signals, past>>

Takes ==
  /\ Going /\ poll = "take"
  /\ signals' = Consumed(service.watched)
  /\ Consumes(service.watched)
  /\ poll' = "hand"
  /\ UNCHANGED <<programVars, service, runCounter, place, phase, held, handlers, historyVars, past>>

\* A handler's exception is swallowed; a signal without one is gone.
Hands ==
  /\ Going /\ poll = "hand" /\ signals # <<>>
  /\ past' = Append(past, [number |-> Head(signals).number,
                           handled |-> Head(signals).name \in handlers])
  /\ signals' = Tail(signals)
  /\ UNCHANGED <<programVars, temporalVars, poll>>

BackendStep == Going /\ TemporalNext /\ UNCHANGED <<programVars, pollVars>>

WorldNext == ProgramStep \/ Takes \/ Hands \/ BackendStep

WorldSpec == WorldInit /\ [][WorldNext]_worldVars

FairWorld == WorldSpec /\ Fairness

-----------------------------------------------------------------------------

Results == UNION {ToSet(returned[t]) : t \in Thread}
Pending == IF Known(service.watched) THEN workflows[service.watched].pending ELSE <<>>
OnTheWay(i) == \E t \in Thread : phase[t] = "tells" /\ held[t] = i

(* However many threads start a workflow, it has one run, and no two have  *)
(* the same; what a thread is told of it never gets older, and the same    *)
(* number of events is the same status for all.  The signals of the        *)
(* workflow that is watched are looked at once, in the order they were     *)
(* emitted, and each that had a handler when it was emitted is handled     *)
(* then, across polls and a stop.  Each change that a stream sees is told, *)
(* once, though not always by the stream that ends on it, nor in order.    *)
ToldOnce ==
  /\ \A r, s \in Results : r.id = s.id <=> r.run = s.run
  /\ \A r, s \in Results : r.id = s.id /\ r.events = s.events => r.status = s.status
  /\ \A t \in Thread : \A i, j \in DOMAIN returned[t] :
       i < j /\ returned[t][i].id = returned[t][j].id => returned[t][i].events <= returned[t][j].events
  /\ [i \in DOMAIN past |-> past[i].number] \o [i \in DOMAIN signals |-> signals[i].number]
       \o [i \in DOMAIN Pending |-> Pending[i].number] = [i \in DOMAIN emitted |-> i]
  /\ \A i \in DOMAIN past : emitted[i].expected => past[i].handled
  /\ \A i, j \in DOMAIN changes :
       i < j /\ changes[i] = changes[j] =>
         \E k \in i..j : changes[k].id = changes[i].id /\ changes[k] # changes[i]
  /\ IsInjective(told)
  /\ \A i \in DOMAIN changes : i \in ToSet(told) \/ OnTheWay(i)
  /\ \A e \in ended : e \in ToSet(changes)
==============================================================================

-------------------------------- MODULE Bus --------------------------------
(***************************************************************************)
(* InMemoryBus (src/common/contract/inmemory_bus.cpp): a FIFO of events    *)
(* under one mutex, one dispatch thread, callbacks called without the      *)
(* mutex.                                                                  *)
(*                                                                         *)
(* An operation is an action here without what its caller does: a module   *)
(* that extends this one conjoins it with the emitter's step, or the call  *)
(* of a callback with what that callback does.  A callback is named by its *)
(* subscriber; a subscriber subscribes once, so its name is its token.     *)
(* Every wildcard subscription of the modules built on this one is "*".    *)
(***************************************************************************)
EXTENDS Integers, Sequences, FiniteSets, SequencesExt

CONSTANTS
  Topic,
  Body,         \* what an event carries besides its topic
  Subscriber,
  None          \* no event

ASSUME BusAssumption == Topic # {} /\ Body # {} /\ None \notin Body

VARIABLES
  clock,     \* causal_clock_
  queue,     \* queue_
  exact,     \* exact_subscribers_
  wild,      \* wildcard_subscribers_
  dispatch,  \* dispatch_thread_: where it is, its event and the callbacks it has copied
  drainer    \* the thread in wait_for_drain

busVars == <<clock, queue, exact, wild, dispatch, drainer>>

\* An event is known by its causal time.
Event == [topic : Topic, body : Body, time : Nat]

BusInit ==
  /\ clock = 0
  /\ queue = <<>>
  /\ exact = [t \in Topic |-> <<>>]
  /\ wild = <<>>
  /\ dispatch = [pc |-> "wait", event |-> None, calls |-> <<>>]
  /\ drainer = "none"

\* in_flight_callbacks_ is 1 from the pop of an event to the end of its callbacks.
InFlight == dispatch.pc \in {"copy", "call"}

\* cv_.notify_all: a thread that sleeps in wait_for_drain looks again.
Notified == IF drainer = "asleep" THEN "awake" ELSE drainer

\* The clock ticks under the lock that covers the push.
Emit(topic, body) ==
  /\ clock' = clock + 1
  /\ queue' = Append(queue, [topic |-> topic, body |-> body, time |-> clock + 1])
  /\ drainer' = Notified
  /\ UNCHANGED <<exact, wild, dispatch>>

Subscribe(s, topic) ==
  /\ exact' = [exact EXCEPT ![topic] = Append(@, s)]
  /\ UNCHANGED <<clock, queue, wild, dispatch, drainer>>

SubscribeAll(s) ==
  /\ wild' = Append(wild, s)
  /\ UNCHANGED <<clock, queue, exact, dispatch, drainer>>

\* Mutant of Unsubscribe: the entry stays.
UnsubscribeKeeps(s) == UNCHANGED busVars

\* A dispatch that has copied the callback still calls it.
Unsubscribe(s) ==
  /\ exact' = [t \in Topic |-> RemoveFirst(exact[t], s)]
  /\ wild' = RemoveFirst(wild, s)
  /\ UNCHANGED <<clock, queue, dispatch, drainer>>

-----------------------------------------------------------------------------
(* dispatch_loop.                                                          *)

DispatchTake ==
  /\ dispatch.pc = "wait" /\ queue # <<>>
  /\ dispatch' = [pc |-> "copy", event |-> Head(queue), calls |-> <<>>]
  /\ queue' = Tail(queue)
  /\ UNCHANGED <<clock, exact, wild, drainer>>

\* The exact subscribers first, then those of a pattern.
DispatchCopy ==
  /\ dispatch.pc = "copy"
  /\ dispatch' = [pc |-> "call", event |-> dispatch.event,
                  calls |-> exact[dispatch.event.topic] \o wild]
  /\ UNCHANGED <<clock, queue, exact, wild, drainer>>

\* The next callback is s's; its effect is the subscriber's.
Calls(s) ==
  /\ dispatch.pc = "call" /\ dispatch.calls # <<>> /\ Head(dispatch.calls) = s
  /\ dispatch' = [dispatch EXCEPT !.calls = Tail(@)]
  /\ UNCHANGED <<clock, queue, exact, wild, drainer>>

\* Mutant of DispatchDone: nobody is notified.
DispatchDoneSilently ==
  /\ dispatch.pc = "call" /\ dispatch.calls = <<>>
  /\ dispatch' = [pc |-> "wait", event |-> None, calls |-> <<>>]
  /\ UNCHANGED <<clock, queue, exact, wild, drainer>>

DispatchDone ==
  /\ dispatch.pc = "call" /\ dispatch.calls = <<>>
  /\ dispatch' = [pc |-> "wait", event |-> None, calls |-> <<>>]
  /\ drainer' = Notified
  /\ UNCHANGED <<clock, queue, exact, wild>>

Dispatcher == DispatchTake \/ DispatchCopy \/ DispatchDone

-----------------------------------------------------------------------------
(* wait_for_drain, called by one thread at a time.                         *)

DrainCall ==
  /\ drainer = "none"
  /\ drainer' = "awake"
  /\ UNCHANGED <<clock, queue, exact, wild, dispatch>>

\* Mutant of Drained: the event in the dispatcher's hands is forgotten.
DrainedQueue == queue = <<>>

Drained == queue = <<>> /\ ~InFlight

\* The predicate of the wait, evaluated under the mutex.
DrainCheck ==
  /\ drainer = "awake"
  /\ drainer' = IF Drained THEN "drained" ELSE "asleep"
  /\ UNCHANGED <<clock, queue, exact, wild, dispatch>>

=============================================================================

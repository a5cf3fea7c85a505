---------------------------- MODULE TimerService ----------------------------
(***************************************************************************)
(* TimerService (src/common/utils/timer_service.cpp): timers in a map under*)
(* one mutex and a thread that copies the callbacks that are due out of it *)
(* and calls them without the mutex.                                       *)
(*                                                                         *)
(* Operations are actions that the module of a user conjoins with its own  *)
(* step; a callback is named by its owner, and what it does is the owner's.*)
(* Time is the order in which timers become due.  The destructor, which    *)
(* runs after every user is gone, is left out.                             *)
(***************************************************************************)
EXTENDS Integers, Sequences, FiniteSets

CONSTANT Owner

VARIABLES
  nextId,    \* next_id_
  timers,    \* timers_; due: the deadline has passed
  toFire     \* the callbacks the thread has copied and not finished, in the order of their ids

timerVars == <<nextId, timers, toFire>>

Timer == [id : Nat \ {0}, owner : Owner, periodic : BOOLEAN, due : BOOLEAN]
Callback == [id : Nat \ {0}, owner : Owner]

TimerInit ==
  /\ nextId = 1
  /\ timers = {}
  /\ toFire = <<>>

\* register_oneshot and register_periodic; the id is the value of nextId.
Register(owner, periodic) ==
  /\ timers' = timers \cup {[id |-> nextId, owner |-> owner, periodic |-> periodic, due |-> FALSE]}
  /\ nextId' = nextId + 1
  /\ UNCHANGED toFire

Cancelled(id) == {t \in timers : t.id # id}

\* A callback that was copied is called all the same.
CancelTimer(id) ==
  /\ timers' = Cancelled(id)
  /\ UNCHANGED <<nextId, toFire>>

\* The deadline of a timer of the owner passes.
Elapse(owner) ==
  /\ \E t \in timers : /\ t.owner = owner /\ ~t.due
                       /\ timers' = (timers \ {t}) \cup {[t EXCEPT !.due = TRUE]}
  /\ UNCHANGED <<nextId, toFire>>

\* What is due is copied, in the order of the ids; a oneshot goes, a periodic one gets its next
\* deadline.
Collect ==
  /\ toFire = <<>> /\ \E t \in timers : t.due
  /\ LET due == {t \in timers : t.due}
         next == {[t EXCEPT !.due = FALSE] : t \in {u \in due : u.periodic}}
     IN  /\ \E inOrder \in [1..Cardinality(due) -> due] :
              /\ \A i, j \in DOMAIN inOrder : i < j => inOrder[i].id < inOrder[j].id
              /\ toFire' = [i \in DOMAIN inOrder |-> [id |-> inOrder[i].id, owner |-> inOrder[i].owner]]
         /\ timers' = (timers \ due) \cup next
  /\ UNCHANGED nextId

\* The thread is in, or about to make, a call of the owner's.
Firing(owner) == toFire # <<>> /\ Head(toFire).owner = owner

\* The call returns; an exception is swallowed.
Fired ==
  /\ toFire' = Tail(toFire)
  /\ UNCHANGED <<nextId, timers>>

=============================================================================

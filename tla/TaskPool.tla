------------------------------ MODULE TaskPool ------------------------------
(***************************************************************************)
(* What a pool of workers promises about the tasks given to it: each is    *)
(* refused or accepted, an accepted one is started and finished at most    *)
(* once, and a pool that has closed is done with every task it accepted    *)
(* while it was open.                                                      *)
(***************************************************************************)
CONSTANT Task

VARIABLES
  phase,   \* of the pool
  fate,    \* of each task
  early    \* the tasks accepted while the pool was open

vars == <<phase, fate, early>>

Init == phase = "idle" /\ fate = [t \in Task |-> "new"] /\ early = {}

Open == phase = "idle" /\ phase' = "open" /\ UNCHANGED <<fate, early>>

Refuse(t) ==
  /\ phase # "open" /\ fate[t] = "new"
  /\ fate' = [fate EXCEPT ![t] = "refused"]
  /\ UNCHANGED <<phase, early>>

\* A submission that met the open pool may be accepted after it closed: it is not early.
Accept(t) ==
  /\ phase # "idle" /\ fate[t] = "new"
  /\ fate' = [fate EXCEPT ![t] = "accepted"]
  /\ early' = IF phase = "open" THEN early \cup {t} ELSE early
  /\ UNCHANGED phase

Start(t) ==
  /\ phase \in {"open", "closing"} /\ fate[t] = "accepted"
  /\ fate' = [fate EXCEPT ![t] = "started"]
  /\ UNCHANGED <<phase, early>>

Finish(t) ==
  /\ phase \in {"open", "closing"} /\ fate[t] = "started"
  /\ fate' = [fate EXCEPT ![t] = "finished"]
  /\ UNCHANGED <<phase, early>>

Close == phase = "open" /\ phase' = "closing" /\ UNCHANGED <<fate, early>>

Pending(t) == fate[t] = "started" \/ (fate[t] = "accepted" /\ t \in early)

Closed ==
  /\ phase = "closing" /\ \A t \in Task : ~Pending(t)
  /\ phase' = "closed"
  /\ UNCHANGED <<fate, early>>

Next ==
  \/ Open \/ Close \/ Closed
  \/ \E t \in Task : Refuse(t) \/ Accept(t) \/ Start(t) \/ Finish(t)

Spec == Init /\ [][Next]_vars
=============================================================================

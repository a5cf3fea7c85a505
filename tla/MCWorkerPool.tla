---------------------------- MODULE MCWorkerPool ----------------------------
(***************************************************************************)
(* Small worker pools for model checking: two threads, two clients, three  *)
(* tasks of one domain, whose handler comes and goes.                      *)
(***************************************************************************)
EXTENDS WorkerPool

CONSTANTS c1, c2, t3
MCDomainOf == [t \in Task |-> CHOOSE d \in Domain : TRUE]
MCClientOf == [t \in Task |-> IF t = t3 THEN c2 ELSE c1]
=============================================================================

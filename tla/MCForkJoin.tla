----------------------------- MODULE MCForkJoin -----------------------------
(***************************************************************************)
(* A fork-join loop of no branch, of one, of two or of one named twice, a  *)
(* log writer and events from elsewhere on one bus; or a cognitive worker  *)
(* with two clients, alone on the bus.                                     *)
(***************************************************************************)
EXTENDS EventProgram

CONSTANTS b1, b2

MCBranch == {b1, b2}
MCTopic == {Started, Completed, Failed, Spoken} \cup WorkerTopics
MCRecorded == {Spoken}
MCBody == [from : {"loop", "other"}, key : MCBranch]
MCSubscriber == {"writer", "on_completed", "on_failed"}
Setup(list, writer, events) == [runs |-> TRUE, branches |-> list, kind |-> writer, others |-> events]
Speaks(topic, key) == [topic |-> topic, key |-> key]
Speech == [i \in 1..3 |-> Speaks(Spoken, b1)]
MCSetups ==
  {Setup(<<>>, "event_log", Speech), Setup(<<b1>>, "event_log", <<>>),
   Setup(<<>>, "session", <<Speaks(Failed, b1)>> \o SubSeq(Speech, 1, 2))}
  \cup {Setup(<<b1, b2>>, "off", <<Speaks(t, k)>>) : t \in {Completed, Failed}, k \in MCBranch}
  \cup {Setup(<<b1, b1>>, "off", <<>>), Setup(<<b1, b1>>, "off", <<Speaks(Completed, b2)>>)}

MCClient == {"one", "two"}
Told(key) == [from |-> "other", key |-> key]
MCNoTask == Told(b1)
Job(evaluates, first, second) ==
  [on |-> TRUE, evaluates |-> evaluates,
   tasks |-> [c \in MCClient |-> IF c = "one" THEN first ELSE second]]
MCNoJob == [Job(FALSE, <<>>, <<>>) EXCEPT !.on = FALSE]
MCJob(evaluates) == Job(evaluates, <<Told(b1)>>, <<Told(b2)>>)
MCAlone(writer) == [Setup(<<>>, writer, <<>>) EXCEPT !.runs = FALSE]
MCEventWorlds ==
  (MCSetups \X {MCNoJob})
  \cup {<<MCAlone("off"), MCJob(TRUE)>>}
MCAllSetups == MCSetups \cup {MCAlone("off")}
MCAllJobs == {w[2] : w \in MCEventWorlds}
=============================================================================

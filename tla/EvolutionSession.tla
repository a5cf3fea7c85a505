--------------------------- MODULE EvolutionSession ---------------------------
(***************************************************************************)
(* EvolutionSession (examples/pdk_chat_demo_evolution/                     *)
(* evolution_session.cpp): the host of Evolution as a program that takes   *)
(* one context after another: a turn with the prompt it started with, a    *)
(* mutation of the prompt, a turn with the genome as it was stored, and a  *)
(* comparison of the two; at the end it writes a record of each context.   *)
(*                                                                         *)
(* A turn is the context it is of, the prompt it ran with, whether it      *)
(* succeeded, and as history the prompt the agent had; records take outputs*)
(* and verdicts by their position in two lists.                            *)
(***************************************************************************)
EXTENDS Evolution

CONSTANT Runs   \* the setups of Evolution, and with each the number of contexts (0: no session)
                \* and whether the capture mode is Training

ASSUME RunsAssumption ==
  /\ Runs \subseteq [setup : Setups, contexts : Nat, training : BOOLEAN]
  \* A session commits its own prompt as the seed.
  /\ \A r \in Runs : r.contexts > 0 => r.setup.seed.spec.harness = r.setup.live.prompt

VARIABLES
  run,        \* one of Runs
  phase,      \* where run_6_phase_demo is
  context,    \* the context it is at
  seeded,     \* the first commit succeeded: last_committed_genome_version_ is base, else 0
  baseline,   \* last_baseline_exec_
  rerun,      \* last_rerun_exec_
  outputs,    \* context_outputs_: the turns whose response they are, NoTurn for an empty string
  verdicts,   \* context_verdicts_: the comparisons they are of
  records,    \* the records that were written
  skipped     \* history: the contexts without a second turn

sessionVars == <<run, phase, context, seeded, baseline, rerun, outputs, verdicts, records, skipped>>
runVars == <<allVars, sessionVars>>

NoTurn == [of |-> 0, prompt |-> <<>>, ok |-> FALSE, had |-> <<>>]
NotAttempted == [before |-> NoTurn, after |-> NoTurn, equal |-> FALSE]

\* Phases 0 and 1, up to the commit of the seed, which may fail.
SessionInit ==
  /\ Init
  /\ run \in {r \in Runs : r.setup = setup}
  /\ phase = IF run.contexts = 0 THEN "off" ELSE "baseline"
  /\ context = 1
  /\ seeded \in IF run.contexts = 0 THEN {TRUE} ELSE BOOLEAN
  /\ baseline = NoTurn /\ rerun = NoTurn
  /\ outputs = <<>> /\ verdicts = <<>> /\ records = <<>> /\ skipped = {}

PhaseIs(p) == Alive(Host) /\ engine = "up" /\ phase = p
LastCommitted == IF seeded THEN base ELSE 0
Turn(prompt, ok) == [of |-> context, prompt |-> prompt, ok |-> ok, had |-> live.prompt]
FirstVersion == IF seeded THEN 1 ELSE 0

\* Phase 2: the chat that keeps the prompt of the start.  A response is moved into the event of the
\* trace before it is taken for the output, and what a move leaves is empty, as is the output of a
\* failed turn.
Baseline ==
  /\ PhaseIs("baseline")
  /\ \E ok \in BOOLEAN : baseline' = Turn(setup.live.prompt, ok)
  /\ outputs' = Append(outputs, NoTurn)
  /\ phase' = "mutation"
  /\ UNCHANGED <<allVars, run, context, seeded, rerun, verdicts, records, skipped>>

\* Phase 3, to its end or to the commit of a fork.
Mutate ==
  /\ PhaseIs("mutation")
  /\ HostMutatesFrom(LastCommitted)
  /\ phase' = IF host'.pc = "free" THEN "reload" ELSE "committing"
  /\ UNCHANGED <<run, context, seeded, baseline, rerun, outputs, verdicts, records, skipped>>

MutationEnds ==
  /\ PhaseIs("committing")
  /\ HostApplies \/ HostGivesUp
  /\ phase' = "reload"
  /\ UNCHANGED <<run, context, seeded, baseline, rerun, outputs, verdicts, records, skipped>>

\* Mutant of Reruns: the second chat has the prompt of the first.
RerunsUnchanged == setup.live.prompt

\* The prompt of the genome that is loaded.
Reruns == files[base][Yaml].spec.harness

\* Phase 4: once there has been a mutation, and if its version can be loaded.
Reload ==
  /\ PhaseIs("reload")
  /\ \/ /\ LastCommitted > FirstVersion /\ CanFork(LastCommitted)
        /\ \E ok \in BOOLEAN :
             LET turn == Turn(Reruns, ok) IN
               /\ rerun' = turn
               /\ outputs' = IF ok THEN [outputs EXCEPT ![Len(outputs)] = turn] ELSE outputs
        /\ UNCHANGED skipped
     \/ /\ skipped' = skipped \cup {context}
        /\ UNCHANGED <<rerun, outputs>>
  /\ phase' = "compare"
  /\ UNCHANGED <<allVars, run, context, seeded, baseline, verdicts, records>>

\* Phase 5: without a second turn, of this or of an earlier context, there is nothing to compare.
Compare ==
  /\ PhaseIs("compare")
  /\ \/ rerun = NoTurn /\ UNCHANGED verdicts
     \/ /\ rerun # NoTurn
        /\ \E equal \in {TRUE, baseline.ok = rerun.ok} :
             verdicts' = Append(verdicts, [before |-> baseline, after |-> rerun, equal |-> equal])
  /\ IF context < run.contexts THEN context' = context + 1 /\ phase' = "baseline"
                               ELSE UNCHANGED context /\ phase' = "emit"
  /\ UNCHANGED <<allVars, run, seeded, baseline, rerun, outputs, records, skipped>>

\* Mutant of VerdictAt: the next context's.
VerdictNext(i) == IF i + 1 \in DOMAIN verdicts THEN verdicts[i + 1] ELSE NotAttempted

VerdictAt(i) == IF i \in DOMAIN verdicts THEN verdicts[i] ELSE NotAttempted

\* Phase 6, record by record; a write that fails ends the session with an exception.
Emit ==
  /\ PhaseIs("emit")
  /\ LET i == Len(records) + 1 IN
     \/ /\ run.training /\ i <= run.contexts
        /\ records' = Append(records, [input |-> i, output |-> outputs[i], verdict |-> VerdictAt(i)])
        /\ UNCHANGED phase
     \/ /\ run.training => i > run.contexts
        /\ phase' = "done" /\ UNCHANGED records
     \/ run.training /\ phase' = "thrown" /\ UNCHANGED records
  /\ UNCHANGED <<allVars, run, context, seeded, baseline, rerun, outputs, verdicts, skipped>>

Session == Baseline \/ Mutate \/ MutationEnds \/ Reload \/ Compare \/ Emit

\* With a session the host does nothing else.
HostElse ==
  \/ HostMutates \/ HostApplies \/ HostGivesUp \/ HostUndoes
  \/ HostCalls \/ ToolReturns \/ ToolLeaves \/ HostRegisters
  \/ HostLoads \/ HostLoadsAll \/ LoadAllGoesOn \/ HostUnloads \/ HostCreates \/ HostEnds \/ HostFalls
Elsewhere ==
  \/ GepaProposes \/ GepaGenerates \/ GepaCommits \/ GepaCannotStore
  \/ OthersPropose \/ OthersCommit \/ OthersRevert
  \/ Committing \/ Crashes

SessionNext ==
  \/ Session
  \/ (phase = "off" /\ HostElse) /\ UNCHANGED sessionVars
  \/ Elsewhere /\ UNCHANGED sessionVars

SessionSpec == SessionInit /\ [][SessionNext]_runVars

-----------------------------------------------------------------------------

(* A record tells of its own context.  Its output is the response of that  *)
(* context's own second turn, or empty when that turn failed or there was  *)
(* none: never a first turn's, and never another context's, whichever      *)
(* verdict that turn was compared for.  As long as each context had a      *)
(* second turn, its verdict compares its two turns; but contexts without   *)
(* one before the first that has one leave their places to the verdicts    *)
(* after them, and those after it are compared with an older second turn:  *)
(* never is a verdict that of an earlier context.  The second turn ran with*)
(* the prompt that the agent had then, though it was read from the         *)
(* registry.                                                               *)
Response(turn) == IF turn.ok THEN turn ELSE NoTurn
RecordsFit ==
  \A i \in DOMAIN records :
    LET r == records[i] IN
      /\ r.output # NoTurn => r.output.of = i /\ i \notin skipped
      /\ \A j \in DOMAIN records :
           records[j].verdict.after.of = i => r.output = Response(records[j].verdict.after)
      /\ skipped = {} => /\ r.verdict # NotAttempted
                         /\ r.verdict.before.of = i /\ r.verdict.after.of = i
      /\ r.verdict # NotAttempted => /\ r.verdict.before.of >= i
                                     /\ r.verdict.after.of <= r.verdict.before.of
                                     /\ r.verdict.before.of # i => 1 \in skipped
                                     /\ contested = {} =>
                                          r.verdict.after.prompt = r.verdict.after.had
=============================================================================

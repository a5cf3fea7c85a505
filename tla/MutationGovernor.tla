--------------------------- MODULE MutationGovernor ---------------------------
(***************************************************************************)
(* MutationGovernor (src/common/governance/mutation_governor.cpp): whether *)
(* a mutation may be proposed, committed or reverted.  It keeps no state   *)
(* of its own: each answer leaves one event on the bus, here at the end of *)
(* the trail of the caller, whose own events stand in the same trail.      *)
(*                                                                         *)
(* The evaluator, the human and the regression gate are the environment:   *)
(* their answers are arguments.                                            *)
(***************************************************************************)
EXTENDS Naturals, Sequences

CONSTANTS
  Caller,       \* those who ask the governor
  Whitelist,    \* the sources it trusts
  Reviewed      \* whether it was built with an approval handler

VARIABLES
  trail         \* the events of each caller, and those the governor emits for it

Event(topic, id) == [topic |-> topic, id |-> id]
Emits(c, events) == trail' = [trail EXCEPT ![c] = @ \o events]

\* A MutationContext: its id, where it comes from, its kind, its mode, and whether it names an
\* evaluation.
Mode == {"Plan", "Agent", "Yolo"}
Kind == {"L1_prompt", "L2_dsl", "L3_skill", "L4_weight", "unknown"}
Context == [id : Nat, source : STRING, kind : Kind, mode : Mode, evaluated : BOOLEAN]

\* Which kinds each mode allows, before any review.
Allows(mode, kind) ==
  \/ kind = "L1_prompt"
  \/ kind = "L2_dsl" /\ mode # "Yolo"
  \/ kind = "L3_skill" /\ mode = "Agent"

\* propose: the gates, and "thrown" for a change of weights, which is denied on the bus first.
ProposeAnswer(ctx, human, poor, regressed) ==
  CASE ctx.source \notin Whitelist -> "denied"
    [] ctx.source \in Whitelist /\ ctx.kind = "L4_weight" -> "thrown"
    [] OTHER -> IF /\ Allows(ctx.mode, ctx.kind)
                   /\ ctx.kind = "L3_skill" => Reviewed /\ human
                   /\ ~poor
                   /\ ~regressed
                  THEN "approved" ELSE "denied"
ProposeEvent(ctx, answer) ==
  Event(IF answer = "approved" THEN "mutation.proposed" ELSE "mutation.denied", ctx.id)

\* commit does not ask whether the mutation was proposed.
CommitAnswer(ctx) == IF ctx.source \in Whitelist /\ ctx.evaluated THEN "approved" ELSE "denied"
CommitEvent(ctx) ==
  Event(IF CommitAnswer(ctx) = "approved" THEN "mutation.committed" ELSE "mutation.denied", ctx.id)

\* revert only leaves an event: it restores nothing.
RevertEvent(ctx) ==
  Event(IF ctx.source \in Whitelist THEN "mutation.reverted" ELSE "mutation.denied", ctx.id)
=============================================================================

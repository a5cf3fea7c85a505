----------------------------- MODULE HostProgram -----------------------------
(***************************************************************************)
(* A program with a skill interpreter, a callback channel and a chat       *)
(* session, which share one TimerService: its thread calls one owner back  *)
(* after another.  A crash of the chat's thread, like the death of the     *)
(* host, is the end of the program.                                        *)
(***************************************************************************)
EXTENDS SkillInterpreter, ChatSession

CONSTANT Programs   \* what a program has: skills with their surroundings, and a chat

ASSUME ProgramAssumption == Programs \subseteq Setups \X ChatSetups

skillVars == <<channelVars, providerVars, setup, hostVars, childVars, envVars, late>>
programVars == <<vars, chatVars>>

ProgramInit ==
  /\ Init /\ ChatInit
  /\ <<setup, chat>> \in Programs

OfSkills(A) == loop.pc # "crashed" /\ A /\ UNCHANGED chatVars
OfChat(A) == host.pc # "dead" /\ A /\ UNCHANGED skillVars

Next ==
  \/ loop.pc # "crashed" /\ SkillNext /\ UNCHANGED chatVars
  \/ host.pc # "dead" /\ ChatNext /\ UNCHANGED skillVars

Spec == ProgramInit /\ [][Next]_programVars

\* Of the skills: a child that was answered after its return exits, one that was killed dies, and
\* time passes; nothing else is asked of a skill or of the provider.  Of the chat: its threads go
\* on, a tool that was called comes back, and so does the timer's call of the chat.
ChildReturns == \E r \in Runs : /\ ~child[r].killed /\ Statement(r).op = "return" /\ ChildGoesOn(r)
                                /\ UNCHANGED Others
Fairness ==
  /\ WF_programVars(OfSkills(HostSteps)) /\ WF_programVars(OfSkills(ChildReturns))
  /\ WF_programVars(OfSkills(ChildEnds)) /\ WF_programVars(OfSkills(Expire))
  /\ WF_programVars(OfChat(Reader)) /\ WF_programVars(OfChat(Main))
  /\ WF_programVars(OfChat(ResolveSource \/ StopSource))
  /\ WF_programVars(OfChat(Destructor)) /\ WF_programVars(OfChat(ChatCallback))

-----------------------------------------------------------------------------
(* Whatever the child and the provider do, a run ends, unless it is        *)
(* stranded or the program is dead, and so does the destructor.            *)
RunReturns ==
  InRun \/ host.pc = "destroy" ~>
    host.pc \in {"idle", "gone", "dead"} \/ Stranded \/ loop.pc = "crashed"

(* Both sides end: no call waits for ever for the child, the model, the    *)
(* reader or a callback but those that are named.                          *)
CallsEnd == RunReturns /\ ChatGoes
==============================================================================

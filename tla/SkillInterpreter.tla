--------------------------- MODULE SkillInterpreter ---------------------------
(***************************************************************************)
(* SkillInterpreter (src/modules/skill_interpreter/skill_interpreter.cpp), *)
(* the host that runs a skill in a child process and serves its requests,  *)
(* and the child (skill_child_main.cpp), which interprets the skill.  They *)
(* talk over two pipes, one line a message: a request is answered before   *)
(* the next is sent, so that a pipe holds one message at most.             *)
(*                                                                         *)
(* One interpreter runs one skill after another.  It may be given a timer, *)
(* which it then shares with a callback channel, and a provider behind a   *)
(* SerializingDecorator, which it shares with an agent.  What a tool or an *)
(* event does and the values of variables are left out, and so is stderr.  *)
(***************************************************************************)
EXTENDS CallbackChannel, SerializingDecorator

CONSTANTS
  Tool,
  Setups   \* the skills to run with their capabilities, and what there is around them

\* A line of a skill, after parsing; "bad" is a template that throws when it is rendered, and the
\* request of a long one is more than a read of the host takes.
Line == [op : {"blank", "malformed", "assign", "bad", "call_tool", "emit_event", "llm_generate",
               "consume_budget", "return"}, tool : Tool, amount : Int, long : BOOLEAN]

Skill == [front : BOOLEAN,             \* the front matter is there, with a name
          lines : Seq(Line),
          starts : {"well", "threads", "prctl", "seccomp"},   \* what stops the child on its way
          allowed : SUBSET Tool, topics : BOOLEAN, llm : BOOLEAN,
          maxSteps : Nat, budget : Nat]

ASSUME SkillAssumption ==
  /\ {"skill", "channel"} \subseteq Owner
  /\ \A s \in Setups : /\ s.skills \in Seq(Skill)
                       /\ s.timer \in BOOLEAN       \* a timer is injected
                       /\ s.ignoresPipe \in BOOLEAN \* somebody made the host ignore SIGPIPE
                       /\ s.channel \in BOOLEAN     \* there is a channel on the timer
                       /\ s.agent \in BOOLEAN       \* an agent uses the provider
                       /\ s.kills \in Nat           \* bound on kills from outside
                       /\ s.cancels \in Nat         \* bound on the runs that are cancelled
                       /\ s.fails \in BOOLEAN       \* pipe2, posix_spawn and poll may fail
                       /\ DOMAIN s.skills \subseteq Caller /\ 0 \in Caller

VARIABLES
  setup,
  run,         \* the number of the current run, or of the last one
  host,        \* pc; steps_used; the request in hand; its answer; the code decided on; whether
               \* the skill returned a value
  expired,     \* the runs whose timeout_ms have passed
  cancelled,   \* the runs whose token was stopped
  deadlineExceeded, timerId, budgetUsed, childPid,   \* members of Impl
  stopInput,   \* stop_input_thread_: 0, or the run that set it, for it is never reset
  child,       \* per run: pc; the next statement; SIGKILL was sent; the exit status
  request,     \* per run: the line in the pipe to the host
  response,    \* per run: the line in the pipe to the child
  result,      \* per run: what run returned, its code and whether with a value
  kills,       \* history: how many children were killed from outside
  lost,        \* history: the runs whose status was never read (waitpid found no child)
  late,        \* history: the runs in which the timer of an earlier run fired
  served       \* history: per run, the requests that were granted

hostVars == <<run, host, deadlineExceeded, stopInput, timerId, budgetUsed, childPid, result, lost,
              served>>
childVars == <<child, request, response>>
envVars == <<expired, cancelled, kills>>
vars == <<timerVars, channelVars, providerVars, setup, hostVars, childVars, envVars, late>>

Runs == 1..Len(setup.skills)
Cap == setup.skills[run]
None == "none"
Return == [op |-> "return", tool |-> CHOOSE t \in Tool : TRUE, amount |-> 0, long |-> FALSE]
NoLine == [Return EXCEPT !.op = None]
HostAt(pc) == [pc |-> pc, steps |-> 0, req |-> NoLine, answer |-> None, code |-> None, output |-> FALSE]

Init ==
  /\ TimerInit /\ ChannelInit /\ ProviderInit
  /\ setup \in Setups
  /\ run = 0
  /\ host = HostAt("idle")
  /\ expired = {} /\ cancelled = {}
  /\ deadlineExceeded = FALSE /\ stopInput = 0
  /\ timerId = 0 /\ budgetUsed = 0 /\ childPid = 0
  /\ child = [r \in Runs |-> [pc |-> None, at |-> 1, killed |-> FALSE, status |-> None]]
  /\ request = [r \in Runs |-> NoLine]
  /\ response = [r \in Runs |-> None]
  /\ result = [r \in Runs |-> [code |-> None, output |-> FALSE]]
  /\ kills = 0
  /\ lost = {} /\ late = {}
  /\ served = [r \in Runs |-> <<>>]

-----------------------------------------------------------------------------
(* The child.                                                              *)

\* parse_skill_file: what is not a statement is skipped, what is no statement at all is refused.
Parses(skill) == skill.front /\ \A i \in DOMAIN skill.lines : skill.lines[i].op # "malformed"
IsStatement(skill, i) == skill.lines[i].op # "blank"

\* The lines that hold the n-th statement: one or none.
Nth(skill, n) == {i \in DOMAIN skill.lines :
                    /\ IsStatement(skill, i)
                    /\ Cardinality({j \in 1..i : IsStatement(skill, j)}) = n}

\* A skill without a return ends with one.
Statement(r) ==
  LET next == Nth(setup.skills[r], child[r].at)
  IN  IF next = {} THEN Return ELSE setup.skills[r].lines[CHOOSE i \in next : TRUE]

Ends(r, status) == child' = [child EXCEPT ![r].pc = "zombie", ![r].status = status]

\* Where the child stops before it interprets anything, and with which exit code.
StartUp(skill) ==
  CASE skill.starts = "threads" -> "exit73"
    [] skill.starts # "threads" /\ ~Parses(skill) -> "exit64"
    [] skill.starts = "prctl" /\ Parses(skill) -> "exit71"
    [] skill.starts = "seccomp" /\ Parses(skill) -> "exit72"
    [] skill.starts = "well" /\ Parses(skill) -> "exit0"

ChildStarts(r) ==
  /\ child[r].pc = "start"
  /\ LET code == StartUp(setup.skills[r])
     IN  IF code = "exit0" THEN child' = [child EXCEPT ![r].pc = "run"] ELSE Ends(r, code)
  /\ UNCHANGED <<request, response>>

\* assign; a template that cannot be rendered ends in abort, a system call the filter forbids.
ChildComputes(r) ==
  /\ child[r].pc = "run"
  /\ \/ Statement(r).op = "assign" /\ child' = [child EXCEPT ![r].at = @ + 1]
     \/ Statement(r).op = "bad" /\ Ends(r, "SIGSYS")
  /\ UNCHANGED <<request, response>>

ChildAsks(r) ==
  /\ child[r].pc = "run" /\ Statement(r).op \notin {"assign", "bad"}
  /\ request' = [request EXCEPT ![r] = Statement(r)]
  /\ child' = [child EXCEPT ![r].pc = "asked"]
  /\ UNCHANGED response

\* A request that was refused is only noted, but for consume_budget.
ChildGoesOn(r) ==
  /\ child[r].pc = "asked" /\ response[r] # None
  /\ response' = [response EXCEPT ![r] = None]
  /\ IF \/ Statement(r).op = "return"
        \/ Statement(r).op = "consume_budget" /\ response[r] # "ok"
     THEN Ends(r, "exit0")
     ELSE child' = [child EXCEPT ![r].pc = "run", ![r].at = @ + 1]
  /\ UNCHANGED request

Lives(r) == child[r].pc \notin {None, "zombie", "reaped"}

\* A process dies some time after SIGKILL was sent.
ChildDies(r) ==
  /\ Lives(r) /\ child[r].killed
  /\ Ends(r, "SIGKILL")
  /\ UNCHANGED <<request, response>>

Others == <<timerVars, channelVars, providerVars, setup, hostVars, envVars, late>>
ChildRuns == \E r \in Runs : /\ ~child[r].killed
                             /\ ChildStarts(r) \/ ChildComputes(r) \/ ChildAsks(r) \/ ChildGoesOn(r)
                             /\ UNCHANGED Others
ChildEnds == \E r \in Runs : ChildDies(r) /\ UNCHANGED Others

\* The system kills a child, for its memory say.
OutsideKill ==
  /\ kills < setup.kills
  /\ \E r \in Runs : Lives(r) /\ ~child[r].killed /\ Ends(r, "SIGKILL")
  /\ kills' = kills + 1
  /\ UNCHANGED <<timerVars, channelVars, providerVars, setup, hostVars, request, response, expired,
                 cancelled, late>>

-----------------------------------------------------------------------------
(* run, up to ipc_loop_and_wait.                                           *)

Quiet == UNCHANGED <<channelVars, setup, envVars, late>>

\* Mutant of FreshDeadline: the flag of the run before is kept.
DeadlineKept == deadlineExceeded

FreshDeadline == FALSE

Spawn ==
  /\ host.pc = "idle" /\ run < Len(setup.skills)
  /\ run' = run + 1
  /\ child' = [child EXCEPT ![run + 1].pc = "start"]
  /\ childPid' = run + 1
  /\ budgetUsed' = 0 /\ deadlineExceeded' = FreshDeadline
  /\ \/ setup.timer /\ Register("skill", FALSE) /\ timerId' = nextId
     \/ ~setup.timer /\ UNCHANGED <<timerVars, timerId>>
  /\ host' = HostAt("top")
  /\ Quiet
  /\ UNCHANGED <<providerVars, stopInput, request, response, result, lost, served>>

\* A pipe or a process is not to be had.
SpawnFails ==
  /\ setup.fails
  /\ host.pc = "idle" /\ run < Len(setup.skills)
  /\ run' = run + 1
  /\ result' = [result EXCEPT ![run + 1].code = "exhausted"]
  /\ budgetUsed' = 0
  /\ Quiet
  /\ UNCHANGED <<timerVars, providerVars, host, deadlineExceeded, stopInput, timerId, childPid,
                 childVars, lost, served>>

-----------------------------------------------------------------------------
(* ipc_loop_and_wait.                                                      *)

Still == /\ Quiet
         /\ UNCHANGED <<timerVars, providerVars, run, deadlineExceeded, timerId, budgetUsed,
                        childPid, result, served>>
GoTo(pc) == host' = [host EXCEPT !.pc = pc]
Killed(r) == IF Lives(r) THEN [child EXCEPT ![r].killed = TRUE] ELSE child

\* Mutant of KillFor: the child is not waited for.
KillForNow(code) ==
  /\ child' = Killed(run)
  /\ host' = [host EXCEPT !.pc = "cancel", !.code = code]

\* SIGKILL, then waitpid.
KillFor(code) ==
  /\ child' = Killed(run)
  /\ host' = [host EXCEPT !.pc = "reap", !.code = code]

Late == deadlineExceeded \/ run \in expired

LoopTop ==
  /\ host.pc = "top"
  /\ \/ run \in cancelled /\ KillFor("abort")
     \/ run \notin cancelled /\ Late /\ KillFor("timeout")
     \/ run \notin cancelled /\ ~Late /\ GoTo("poll") /\ UNCHANGED child
  /\ Still /\ UNCHANGED <<request, response, stopInput, lost>>

\* After 100 ms without an event, with a request, or at the end of the child.
Poll ==
  /\ host.pc = "poll"
  /\ \/ request[run] = NoLine /\ Lives(run) /\ GoTo("top")
     \/ request[run] # NoLine /\ GoTo("look")
     \/ request[run] = NoLine /\ ~Lives(run) /\ GoTo("final")
  /\ Still /\ UNCHANGED <<childVars, stopInput, lost>>

PollFails ==
  /\ setup.fails
  /\ host.pc = "poll"
  /\ KillFor("exhausted")
  /\ Still /\ UNCHANGED <<request, response, stopInput, lost>>

\* waitpid(WNOHANG) takes the status of a child that is dead, and nobody keeps it.
LookReaps ==
  /\ host.pc = "look" /\ ~Lives(run)
  /\ child' = [child EXCEPT ![run].pc = "reaped"]
  /\ lost' = lost \cup {run}
  /\ GoTo("final")
  /\ Still /\ UNCHANGED <<request, response, stopInput>>

\* The first read of a long line gets a part of it, which looks like the end of the file.
LookLeaves ==
  /\ host.pc = "look" /\ Lives(run)
  /\ stopInput # 0 \/ request[run].long
  /\ host' = [host EXCEPT !.pc = "final", !.req = request[run]]
  /\ Still /\ UNCHANGED <<childVars, stopInput, lost>>

\* Mutant of Exceeds: one step too many.
ExceedsLate(steps) == steps > Cap.maxSteps + 1

Exceeds(steps) == steps > Cap.maxSteps

LookReads ==
  /\ host.pc = "look" /\ Lives(run)
  /\ stopInput = 0 /\ ~request[run].long
  /\ request' = [request EXCEPT ![run] = NoLine]
  /\ \/ Exceeds(host.steps + 1) /\ KillFor("steps")
     \/ /\ ~Exceeds(host.steps + 1)
        /\ host' = [host EXCEPT !.pc = "serve", !.steps = @ + 1, !.req = request[run]]
        /\ UNCHANGED child
  /\ Still /\ UNCHANGED <<response, stopInput, lost>>

-----------------------------------------------------------------------------
(* dispatch.                                                               *)

Serving(op) == host.pc = "serve" /\ host.req.op = op
Respond(answer) ==
  /\ host' = [host EXCEPT !.pc = "respond", !.answer = answer]
  /\ served' = [served EXCEPT ![run] = IF answer = "ok" THEN Append(@, host.req) ELSE @]
Calm == /\ Quiet
        /\ UNCHANGED <<timerVars, run, deadlineExceeded, timerId, childPid, request, response,
                       result, lost>>

\* An empty list allows every tool.
Allowed(tool) == Cap.allowed = {} \/ tool \in Cap.allowed

ServeTool ==
  /\ Serving("call_tool")
  /\ \/ Allowed(host.req.tool) /\ Respond("ok")
     \/ Respond("refused")      \* not allowed, or the tool threw
  /\ Calm /\ UNCHANGED <<providerVars, stopInput, budgetUsed, child>>

ServeEvent ==
  /\ Serving("emit_event")
  /\ Respond(IF Cap.topics THEN "ok" ELSE "refused")
  /\ Calm /\ UNCHANGED <<providerVars, stopInput, budgetUsed, child>>

\* The amount is not looked at: a negative one gives budget back.
ServeBudget ==
  /\ Serving("consume_budget")
  /\ LET used == budgetUsed + host.req.amount
     IN  IF used > Cap.budget
         THEN child' = Killed(run) /\ Respond("terminate") /\ UNCHANGED budgetUsed
         ELSE budgetUsed' = used /\ Respond("ok") /\ UNCHANGED child
  /\ Calm /\ UNCHANGED <<providerVars, stopInput>>

ServeReturn ==
  /\ Serving("return")
  /\ Respond("ok")
  /\ Calm /\ UNCHANGED <<providerVars, stopInput, budgetUsed, child>>

\* A thread is created for the call.
ServeLlm ==
  /\ Serving("llm_generate")
  /\ IF Cap.llm /\ run \notin cancelled
     THEN Generate(run) /\ GoTo("llm") /\ UNCHANGED served
     ELSE Respond("refused") /\ UNCHANGED providerVars
  /\ Calm /\ UNCHANGED <<stopInput, budgetUsed, child>>

\* The thread is joined; its exception goes through run, which leaves everything as it is.
LlmAnswers ==
  /\ host.pc = "llm" /\ Answered(run)
  /\ IF call[run] = "threw"
     THEN host' = [host EXCEPT !.pc = "cancel", !.code = "threw"] /\ UNCHANGED served
     ELSE Respond(IF call[run] = "result" THEN "ok" ELSE "refused")
  /\ Calm /\ UNCHANGED <<providerVars, stopInput, budgetUsed, child>>

\* Mutant of GivenUp: the child is left waiting for the answer.
GivenUpAlive(r) == child

GivenUp(r) == Killed(r)

\* timeout_ms have passed since the call began; the thread is detached.
LlmTimesOut ==
  /\ host.pc = "llm" /\ ~Answered(run) /\ run \in expired
  /\ child' = GivenUp(run)
  /\ stopInput' = run
  /\ Respond("refused")
  /\ Calm /\ UNCHANGED <<providerVars, budgetUsed>>

Serve == \/ ServeTool \/ ServeEvent \/ ServeBudget \/ ServeReturn \/ ServeLlm \/ LlmAnswers
         \/ LlmTimesOut

-----------------------------------------------------------------------------
(* The answer, and the end.                                                *)

\* Mutant of Writes: the flag is not looked at.
WritesAlways == host.pc = "respond"

Writes == host.pc = "respond" /\ stopInput = 0

WriteSkipped ==
  /\ host.pc = "respond" /\ ~Writes
  /\ GoTo("final")
  /\ Still /\ UNCHANGED <<childVars, stopInput, lost>>

\* SIGPIPE ends the host; where it is ignored, waitpid(WNOHANG) may take the status again.
WriteFails ==
  /\ Writes /\ ~Lives(run)
  /\ \/ setup.ignoresPipe /\ GoTo("final") /\ lost' = lost \cup {run}
        /\ child' = [child EXCEPT ![run].pc = "reaped"]
     \/ setup.ignoresPipe /\ GoTo("final") /\ UNCHANGED <<child, lost>>
     \/ ~setup.ignoresPipe /\ GoTo("dead") /\ UNCHANGED <<child, lost>>
  /\ Still /\ UNCHANGED <<request, response, stopInput>>

Write ==
  /\ Writes /\ Lives(run)
  /\ response' = [response EXCEPT ![run] = host.answer]
  /\ host' = IF host.req.op = "return" THEN [host EXCEPT !.pc = "final", !.output = TRUE]
             ELSE IF host.answer = "terminate" THEN [host EXCEPT !.pc = "reap", !.code = "budget"]
             ELSE [host EXCEPT !.pc = "top"]
  /\ Still /\ UNCHANGED <<child, request, stopInput, lost>>

\* What the exit status says; a status that was never read says anything.
Status == {"exit0", "exit64", "exit71", "exit72", "exit73", "SIGSYS", "SIGKILL"}
Verdict(status) ==
  CASE status = "exit0" -> "success"
    [] status = "exit64" -> "invalid"
    [] status = "exit71" -> "unsupported"
    [] status \in {"exit72", "SIGSYS"} -> "sandbox"
    [] status = "exit73" -> "crash"
    [] status = "SIGKILL" -> IF stopInput # 0 THEN "abort" ELSE "crash"

\* The last waitpid has no time limit.
Finish ==
  /\ host.pc = "final" /\ ~Lives(run)
  /\ child' = [child EXCEPT ![run].pc = "reaped"]
  /\ \E code \in IF run \in lost THEN {Verdict(s) : s \in Status} \cup {"unknown"}
                 ELSE {Verdict(child[run].status)} :
       host' = [host EXCEPT !.pc = "cancel", !.code = code]
  /\ Still /\ UNCHANGED <<request, response, stopInput, lost>>

Reap ==
  /\ host.pc = "reap" /\ ~Lives(run)
  /\ child' = [child EXCEPT ![run].pc = "reaped"]
  /\ GoTo("cancel")
  /\ Still /\ UNCHANGED <<request, response, stopInput, lost>>

\* The guard cancels the deadline's timer; the pipes are closed unless run is left by an exception.
Leaves ==
  /\ host.pc = "cancel"
  /\ IF timerId # 0 THEN CancelTimer(timerId) ELSE UNCHANGED timerVars
  /\ timerId' = 0
  /\ childPid' = IF host.code = "threw" THEN childPid ELSE 0
  /\ result' = [result EXCEPT ![run] = [code |-> host.code, output |-> host.output]]
  /\ host' = HostAt("idle")
  /\ Quiet
  /\ UNCHANGED <<providerVars, run, deadlineExceeded, stopInput, budgetUsed, childVars, lost,
                 served>>

\* The destructor, where there is an interpreter.  Who injects a timer must see that none of its
\* calls is under way.
Destroy ==
  /\ Runs # {} /\ host.pc = "idle" /\ \A i \in DOMAIN toFire : toFire[i].owner # "skill"
  /\ child' = IF childPid = 0 THEN child ELSE Killed(childPid)
  /\ GoTo("destroy")
  /\ Still /\ UNCHANGED <<request, response, stopInput, lost>>

Destroyed ==
  /\ host.pc = "destroy" /\ \A r \in Runs \cap {childPid} : ~Lives(r)
  /\ child' = IF childPid = 0 THEN child ELSE [child EXCEPT ![childPid].pc = "reaped"]
  /\ GoTo("gone")
  /\ Still /\ UNCHANGED <<request, response, stopInput, lost>>

\* SpawnFails, PollFails and Destroy need not happen.
HostSteps ==
  \/ LoopTop \/ Poll \/ LookReaps \/ LookLeaves \/ LookReads \/ Serve
  \/ WriteSkipped \/ WriteFails \/ Write \/ Finish \/ Reap \/ Leaves \/ Destroyed

-----------------------------------------------------------------------------
(* What goes on around.                                                    *)

AllButTimers == <<providerVars, setup, run, host, stopInput, timerId, budgetUsed, childPid, result,
                  lost, served, childVars, envVars>>

InRun == host.pc \notin {"idle", "destroy", "gone", "dead"}

SkillFires ==
  /\ Firing("skill")
  /\ Fired
  /\ deadlineExceeded' = TRUE
  /\ late' = IF InRun /\ Head(toFire).id # timerId THEN late \cup {run} ELSE late
  /\ UNCHANGED <<channelVars, AllButTimers>>

\* The timer's deadline comes after the one that the loop looks at.
TimeOfTimers ==
  /\ \/ run \in expired /\ Elapse("skill")
     \/ Elapse("channel")
     \/ Collect
  /\ UNCHANGED <<channelVars, AllButTimers, deadlineExceeded, late>>

ChannelSteps == (Channel \/ Tick) /\ setup.timer /\ setup.channel
                /\ UNCHANGED <<AllButTimers, deadlineExceeded, late>>

\* timeout_ms pass.
Expire ==
  /\ InRun /\ run \notin expired
  /\ expired' = expired \cup {run}
  /\ UNCHANGED <<timerVars, channelVars, providerVars, setup, hostVars, childVars, cancelled, kills,
                 late>>

Cancel ==
  /\ InRun /\ run \notin cancelled /\ Cardinality(cancelled) < setup.cancels
  /\ cancelled' = cancelled \cup {run}
  /\ UNCHANGED <<timerVars, channelVars, providerVars, setup, hostVars, childVars, expired, kills,
                 late>>

\* The agent, caller 0, and the threads the host created.
CallSteps ==
  /\ \/ setup.agent /\ (Models(0) \/ Generate(0))
     \/ \E c \in Caller : \/ ModelsReturn(c) \/ Check(c, c \in cancelled)
                          \/ InnerReturns(c) \/ InnerThrows(c) \/ Leave(c)
  /\ UNCHANGED <<timerVars, channelVars, setup, hostVars, childVars, envVars, late>>

SkillNext ==
  \/ Spawn \/ SpawnFails \/ PollFails \/ Destroy \/ HostSteps
  \/ ChildRuns \/ ChildEnds \/ OutsideKill
  \/ SkillFires \/ TimeOfTimers \/ ChannelSteps
  \/ Expire \/ Cancel \/ CallSteps

-----------------------------------------------------------------------------
(* Properties.                                                             *)

Stranded == /\ host.pc = "final" /\ Lives(run) /\ ~child[run].killed
            /\ child[run].pc = "asked" /\ response[run] = None

(* The host dies of an answer only when the child it answers was killed    *)
(* for its budget, or from outside, and nobody ignores SIGPIPE: never of   *)
(* the answer to a call of the model that took too long.                   *)
HostSurvives ==
  host.pc = "dead" => /\ ~setup.ignoresPipe
                      /\ host.answer = "terminate" \/ kills > 0

(* Between runs no child is left, running or as a zombie, and no timer,    *)
(* but for the child of a run that a provider's exception ended; the       *)
(* destructor reaps that one if no other run came after it.                *)
NothingLeft ==
  host.pc \in {"idle", "gone"} =>
    /\ \A t \in timers : t.owner # "skill"
    /\ \A r \in Runs :
         child[r].pc \notin {None, "reaped"} =>
           result[r].code = "threw" /\ (host.pc = "gone" => r < run)

(* What run returns tells what happened.  A success has returned its value *)
(* (no exit that the host takes for one comes before the answer to its     *)
(* return), unless the status was lost and what is read is not a status; a *)
(* timeout had its time, or the timer of an earlier run fired into it; an  *)
(* abort was cancelled, had a call of the model that outlasted it, or was  *)
(* killed from outside.                                                    *)
CodesTellWhy ==
  \A r \in Runs : /\ result[r].code = "success" => result[r].output \/ r \in lost
                  /\ result[r].code = "timeout" => r \in expired \cup late
                  /\ result[r].code = "abort" => r \in cancelled \cup expired \/ kills > 0

(* The host waits for a child that waits for the host only when the flag   *)
(* of an earlier run's overlong call is still set, or when a request took  *)
(* more than one read.                                                     *)
StrandedOnlyBy == Stranded => stopInput \notin {0, run} \/ host.req.long

MayAsk(skill, req) ==
  /\ req.op = "call_tool" => skill.allowed = {} \/ req.tool \in skill.allowed
  /\ req.op = "emit_event" => skill.topics
  /\ req.op = "llm_generate" => skill.llm

(* What was granted to a skill stays within its capability: the number of  *)
(* requests, the tools, the events and the budget; and a model is called   *)
(* for it, whatever became of the call, only if it may use one.            *)
WithinCapability ==
  /\ \A r \in Runs :
       /\ Len(served[r]) <= setup.skills[r].maxSteps
       /\ \A i \in DOMAIN served[r] : MayAsk(setup.skills[r], served[r][i])
       /\ call[r] # "none" => setup.skills[r].llm
  /\ run > 0 => budgetUsed <= Cap.budget
=============================================================================

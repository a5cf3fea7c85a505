--------------------------- MODULE ToolCoordinator ---------------------------
(***************************************************************************)
(* ToolCoordinator::execute (src/common/tools/tool_coordinator.cpp) with   *)
(* the registry of tools, the hooks, the layers and the policy of approval *)
(* it consults, on one thread.  A tool may call execute again while it     *)
(* runs: the guard is a stack of the names of the thread.                  *)
(*                                                                         *)
(* Arguments are the set of what may be wrong with them:                   *)
(*   fatal          breaks the schema in a way that no mode tolerates      *)
(*   coercible      text that converts to the type of its field            *)
(*   unconvertible  text that does not                                     *)
(*   foreign        a value that is not in its enum                        *)
(*   missing        a required field is absent                             *)
(*   dangerous, outside   a command or a path the rules forbid             *)
(***************************************************************************)
EXTENDS Naturals, Sequences, SequencesExt

CONSTANTS
  Tool,
  Meta,         \* of each tool: category, force (force_approval_always), inAgent
                \* (requires_approval_in_agent), schema (whether it has one), validation
  Configs       \* how a coordinator is set up: mode (of its policy), callback (whether it has
                \* one), hooked (whether it has hooks), pre (the list of pre-hooks), post (the
                \* only post-hook)

Category == {"ReadOnly", "StateModify", "Execute", "Network"}
Validation == {"Strict", "Warn", "Ignore"}
Fault == {"fatal", "coercible", "unconvertible", "foreign", "missing", "dangerous", "outside"}
Layer == {"workflow", "thinking", "cognitive", "other"}
PreHook == {"continue", "deny", "throw closed", "throw open", "refuse dangerous", "scrub"}
PostHook == {"keep", "spoil", "mend", "throw closed", "throw open"}

ASSUME CoordinatorAssumption ==
  /\ Meta \in [Tool -> [category : Category, force : BOOLEAN, inAgent : BOOLEAN,
                        schema : BOOLEAN, validation : Validation]]
  /\ Configs \subseteq [mode : {"plan", "agent", "yolo", "none"}, callback : BOOLEAN,
                        hooked : BOOLEAN, pre : Seq(PreHook), post : PostHook]

VARIABLES
  registered,   \* tools_ of the registry
  config,
  stack,        \* tls_active_call_stack, as positions in calls
  calls         \* history: each call of execute, with what became of it and its events

coordinatorVars == <<registered, config, stack, calls>>

CoordinatorInit(tools, how) ==
  /\ registered = tools
  /\ config = how
  /\ stack = <<>>
  /\ calls = <<>>

\* register_tool_function throws for a name that is taken.  That every tool that changes
\* something asks for approval is its business too.
Register(t) ==
  /\ t \notin registered
  /\ registered' = registered \cup {t}

-----------------------------------------------------------------------------
(* The checks, in their order.                                             *)

Active == {calls[stack[i]].tool : i \in DOMAIN stack}

\* The guard throws, in the middle of the tool that calls.
GuardThrows(t) == t \in Active \/ Len(stack) >= 2

\* What hook i is given: the hooks before it have changed it.
Seen(i, args) ==
  IF \E j \in 1..(i-1) : config.pre[j] = "scrub" THEN args \ {"dangerous"} ELSE args

\* apply_pre_hooks: the first that denies, or that throws and is closed, decides.
PreHooksDeny(args) ==
  config.hooked /\ \E i \in DOMAIN config.pre :
    \/ config.pre[i] \in {"deny", "throw closed"}
    \/ config.pre[i] = "refuse dangerous" /\ "dangerous" \in Seen(i, args)

\* What the coordinator goes on with: apply_pre_hooks answers Continue when the hooks have run,
\* and the arguments they have changed are taken only when it answers ModifyArgs.
AfterPreHooks(args) == args

\* The steps 1 to 3, of a tool with a schema.
SchemaRejects(m, args) ==
  /\ m.schema
  /\ \/ args \cap {"fatal", "missing"} # {}
     \/ m.validation = "Strict" /\ args \cap {"coercible", "unconvertible"} # {}
     \/ m.validation = "Warn" /\ args \cap {"unconvertible", "foreign"} # {}

\* Step 4, of a tool that executes; a path is known by the schema only.
RulesReject(m, args) ==
  /\ m.category = "Execute"
  /\ "dangerous" \in args \/ (m.schema /\ "outside" \in args)

Coerced(m, args) == IF m.schema /\ m.validation = "Warn" THEN args \ {"coercible"} ELSE args

LayerAllows(layer, category) ==
  layer = "workflow" \/ (layer = "thinking" /\ category = "ReadOnly")

CanSkipForced(m) ==
  config.mode = "yolo" \/ (config.mode = "agent" /\ m.category = "ReadOnly")

\* can_skip and requires_approval of the three policies.
CanSkip(m) ==
  /\ ~m.force
  /\ config.mode = "yolo" \/ (config.mode = "agent" /\ m.category = "ReadOnly")
RequiresApproval(m) == m.force \/ (config.mode = "agent" /\ m.inAgent)
ShouldExecute == config.mode \in {"agent", "yolo"}

\* ApprovalHandler::process_request asks the human only when it must.
Asks(m) == ShouldExecute /\ ~CanSkip(m) /\ RequiresApproval(m) /\ config.callback
Approved(m, human) ==
  /\ ShouldExecute
  /\ \/ CanSkip(m) \/ ~RequiresApproval(m)
     \/ config.callback /\ human

-----------------------------------------------------------------------------
(* A call.                                                                 *)

Start == "tool.execution.start"
End == "tool.execution.end"
Denied == "tool.audit.denied"
Invoked == "tool.audit.invoked"
Completed == "tool.audit.completed"
Cycle == "tool.coordinator.cycle_detected"

\* The first check that refuses decides on the answer and on what is on the bus by then.
Refusals(t, layer, args, cancelled, human) ==
  LET m == Meta[t]
      given == AfterPreHooks(args)
      check(refuses, answer, events) == [refuses |-> refuses, answer |-> answer, events |-> events]
  IN <<check(GuardThrows(t), "thrown", IF t \in Active THEN <<Cycle>> ELSE <<>>),
       check(cancelled, "PermissionDenied", <<Denied>>),
       check(PreHooksDeny(args), "PermissionDenied", <<Denied>>),
       check(SchemaRejects(m, given), "InvalidParams", <<Denied>>),
       check(RulesReject(m, Coerced(m, given)), "InvalidParams", <<Denied>>),
       check(layer = "other", "Unknown", <<Start>>),
       check(~LayerAllows(layer, m.category), "PermissionDenied", <<Start, Denied>>),
       check(~Approved(m, human), "PermissionDenied", <<Start, Denied>>)>>

\* Its position, or 0: no check refuses.
FirstRefusal(t, layer, args, cancelled, human) ==
  SelectInSeq(Refusals(t, layer, args, cancelled, human), LAMBDA c : c.refuses)

\* execute up to the call of the tool.  A tool that is not registered yields an error there.
Execute(t, layer, args, cancelled, human) ==
  LET refusals == Refusals(t, layer, args, cancelled, human)
      first == FirstRefusal(t, layer, args, cancelled, human)
      log(answer, events, ran) ==
        calls' = Append(calls,
          [tool |-> t, layer |-> layer, given |-> args,
           args |-> Coerced(Meta[t], AfterPreHooks(args)),
           yes |-> first = 0 /\ Asks(Meta[t]) /\ human,
           answer |-> answer, events |-> events, ran |-> ran])
  IN /\ IF first # 0
          THEN /\ log(refusals[first].answer, refusals[first].events, FALSE)
               /\ UNCHANGED stack
          ELSE /\ log("running", <<Start, Invoked>>, t \in registered)
               /\ stack' = Append(stack, Len(calls) + 1)
     /\ UNCHANGED <<registered, config>>

\* apply_post_hooks on the result of the tool.
AfterPostHooks(ok) ==
  IF ~config.hooked THEN ok
  ELSE CASE config.post = "mend" -> TRUE
         [] config.post \in {"spoil", "throw closed"} -> FALSE
         [] OTHER -> ok

\* The tool ends, well or with an error (an exception is one); the rest of execute.
ToolEnds(ok) ==
  LET now == Last(stack)
      good == AfterPostHooks(ok)
      events == IF config.hooked /\ ~good THEN <<Denied>> ELSE <<Completed, End>>
  IN /\ stack # <<>>
     /\ ok => calls[now].ran
     /\ calls' = [calls EXCEPT ![now].answer = IF good THEN "ok" ELSE "error",
                               ![now].events = @ \o events]
     /\ stack' = Front(stack)
     /\ UNCHANGED <<registered, config>>

\* An exception that call_tool does not catch, because it is no std::exception, leaves execute:
\* only the guard is undone.
ToolEscapes ==
  /\ stack # <<>>
  /\ calls[Last(stack)].ran
  /\ calls' = [calls EXCEPT ![Last(stack)].answer = "thrown"]
  /\ stack' = Front(stack)
  /\ UNCHANGED <<registered, config>>

-----------------------------------------------------------------------------

Call ==
  [tool : Tool, layer : Layer, given : SUBSET Fault, args : SUBSET Fault, yes : BOOLEAN, ran : BOOLEAN,
   answer : {"running", "ok", "error", "thrown", "PermissionDenied", "InvalidParams", "Unknown"},
   events : Seq({Start, End, Denied, Invoked, Completed, Cycle})]

\* Whatever calls it and however deep, a tool runs only
\*   - where its layer may use it, and never in plan mode or without a policy;
\*   - once the human has said yes, if it is to be approved always, whatever the mode, and in
\*     agent mode if it asks for it and changes something;
\*   - with arguments that have every required field and no fault the schema cannot tolerate;
\*     in Warn mode all of the schema holds after the conversion, in Strict mode the types;
\*   - and, if it executes, with a command that is not dangerous;
\*   - and with no pre-hook against it: none that denies or closes with an exception, and none
\*     that would refuse what it was given, by its caller as the hooks before it have changed it.
\* Whether what the hooks changed reaches the tool is another question: HooksChangeArgs.
\* A value outside its enum is not refused in the modes Strict and Ignore.
ChecksBeforeTool ==
  /\ Len(stack) <= 2
  /\ \A i, j \in DOMAIN stack : calls[stack[i]].tool = calls[stack[j]].tool => i = j
  /\ \A i \in DOMAIN calls : calls[i].ran =>
       LET c == calls[i]
           m == Meta[c.tool]
       IN /\ c.layer \in (IF m.category = "ReadOnly" THEN {"workflow", "thinking"} ELSE {"workflow"})
          /\ config.mode \in {"agent", "yolo"}
          /\ m.force \/ (config.mode = "agent" /\ m.inAgent /\ m.category # "ReadOnly")
               => c.yes
          /\ m.schema => c.args \cap
               ({"fatal", "missing"}
                  \cup (IF m.validation = "Ignore" THEN {} ELSE {"coercible", "unconvertible"})
                  \cup (IF m.validation = "Warn" THEN {"foreign"} ELSE {})) = {}
          /\ m.category = "Execute" => "dangerous" \notin c.args
          /\ config.hooked => \A k \in DOMAIN config.pre :
               /\ config.pre[k] \notin {"deny", "throw closed"}
               /\ config.pre[k] = "refuse dangerous" /\ "dangerous" \in c.given =>
                    \E j \in 1..(k-1) : config.pre[j] = "scrub"

\* A pre-hook changes the arguments a tool runs with, as docs/adr/adr-0069-tool-coordinator-hooks.md
\* has it (:50 "pre-hook (拦截/修改参数/拒绝)", :73 "可改 args / 可 deny", :91 "modified_args;  //
\* ModifyArgs 时生效": it intercepts, changes the arguments or refuses): where one takes away what
\* is dangerous, no tool runs with it.  apply_pre_hooks hands on the changed arguments with the
\* action Continue, and execute takes them with ModifyArgs only.
HooksChangeArgs ==
  \A i \in DOMAIN calls :
    calls[i].ran /\ config.hooked /\ (\E k \in DOMAIN config.pre : config.pre[k] = "scrub")
      => "dangerous" \notin calls[i].args

\* What a finished call has left on the bus tells its answer: a call that ran its tool has
\* announced it, and ends with completed and end, except that with hooks an error ends with
\* denied; a call that was refused never announced a tool, and left a denial unless it threw or
\* named an unknown layer.
CallTrail(c) ==
  CASE c.answer = "running" -> c.events = <<Start, Invoked>>
    [] c.answer = "ok" -> c.events = <<Start, Invoked, Completed, End>>
    [] c.answer = "error" -> c.events = IF config.hooked THEN <<Start, Invoked, Denied>>
                                        ELSE <<Start, Invoked, Completed, End>>
    [] c.answer = "thrown" -> c.events = <<Start, Invoked>> <=> c.ran
    [] c.answer = "Unknown" -> ~c.ran /\ c.events = <<Start>>
    [] OTHER -> ~c.ran /\ c.events \in {<<Denied>>, <<Start, Denied>>}
=============================================================================

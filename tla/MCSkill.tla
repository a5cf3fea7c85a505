------------------------------- MODULE MCSkill -------------------------------
(* Small instances of HostProgram: one or two skills of a few lines, each  *)
(* setup with the surroundings that its case needs, and no chat; or a chat *)
(* of a few lines, with the channel on its timer in one of them; or a      *)
(* backend with a channel or without.                                      *)
EXTENDS TemporalProgram

CONSTANTS a, b   \* tools

L(op, tool, amount, long) == [op |-> op, tool |-> tool, amount |-> amount, long |-> long]
MCTool(t) == L("call_tool", t, 0, FALSE)
MCReturn == L("return", a, 0, FALSE)
MCLlm == L("llm_generate", a, 0, FALSE)
MCEvent == L("emit_event", a, 0, FALSE)
MCBudget(n) == L("consume_budget", a, n, FALSE)
MCOther(op) == L(op, a, 0, FALSE)

S(lines, starts, allowed, topics, steps) ==
  [front |-> TRUE, lines |-> lines, starts |-> starts, allowed |-> allowed, topics |-> topics,
   llm |-> TRUE, maxSteps |-> steps, budget |-> 1]
Plain(lines) == S(lines, "well", {}, TRUE, 2)

With(skills, timer, agent, ignores, k, stops, fails) ==
  [skills |-> skills, timer |-> timer, channel |-> timer, agent |-> agent,
   ignoresPipe |-> ignores, kills |-> k, cancels |-> stops, fails |-> fails]

MCSetups ==
  \* what a skill may do, and what stops it before it does anything
  {With(<<s>>, FALSE, FALSE, FALSE, 0, 1, TRUE) :
     s \in {[Plain(<<MCReturn>>) EXCEPT !.front = FALSE],
            Plain(<<MCOther("blank"), MCOther("malformed")>>),
            Plain(<<MCOther("assign"), MCOther("bad")>>),
            [Plain(<<MCLlm, MCReturn>>) EXCEPT !.llm = FALSE],
            S(<<MCEvent>>, "well", {}, FALSE, 2),
            S(<<MCReturn>>, "threads", {}, TRUE, 2),
            S(<<MCReturn>>, "prctl", {}, TRUE, 2),
            S(<<MCReturn>>, "seccomp", {}, TRUE, 2),
            Plain(<<MCTool(a), MCEvent, MCTool(b), MCReturn>>)}}
  \* the tools of a skill and a SIGPIPE, its budget, a line too long
  \cup {With(<<S(<<MCTool(a), MCTool(b), MCReturn>>, "well", {a}, TRUE, 3), Plain(<<MCReturn>>)>>,
             FALSE, FALSE, i, 1, 0, FALSE) : i \in BOOLEAN}
  \cup {With(<<Plain(<<MCBudget(1), MCBudget(1)>>), Plain(<<MCBudget(-1), MCBudget(2)>>)>>,
             FALSE, FALSE, i, 0, 0, FALSE) : i \in BOOLEAN}
  \cup {With(<<Plain(<<L("call_tool", a, 0, TRUE), MCReturn>>)>>, FALSE, FALSE, FALSE, 0, 1, TRUE)}
  \* a slow model, and the run after it; a model shared with an agent
  \cup {With(<<Plain(<<MCLlm>>), Plain(<<MCLlm, MCReturn>>)>>, FALSE, FALSE, FALSE, 1, 1, FALSE),
        With(<<Plain(<<MCLlm>>), Plain(<<MCLlm>>)>>, FALSE, TRUE, FALSE, 0, 1, FALSE)}
  \* the timers of two runs and of a channel
  \cup {With(<<Plain(<<MCReturn>>), Plain(<<MCReturn>>)>>, TRUE, FALSE, FALSE, 0, 0, FALSE)}

MCWithout(channel) == With(<<>>, channel, FALSE, FALSE, 0, 0, FALSE)

Chat(lines) == [on |-> TRUE, lines |-> lines, tty |-> FALSE, timer |-> FALSE, leaves |-> FALSE,
                throws |-> FALSE, agent |-> "mock", disk |-> FALSE, kills |-> 0, launches |-> 0,
                capacity |-> 1, stops |-> 0, signal |-> FALSE]
MCNoChat == [Chat(<<>>) EXCEPT !.on = FALSE]
MCChats ==
  \* a full queue; a terminal and an exit; the stop of a turn that throws; a signal
  {Chat(<<"text", "command", "text">>),
   [Chat(<<"blank", "text", "exit", "text">>) EXCEPT !.tty = TRUE, !.capacity = 2],
   [Chat(<<"text", "cancel", "text">>) EXCEPT !.capacity = 2, !.throws = TRUE, !.stops = 1,
                                       !.agent = "real"],
   \* no agent, and a kill; a disk that fails; both launched again; the records compacted by a
   \* later launch, and after a fork
   [Chat(<<"text">>) EXCEPT !.agent = "none", !.kills = 1, !.launches = 1],
   [Chat(<<"text">>) EXCEPT !.disk = TRUE, !.kills = 1, !.launches = 1],
   [Chat(<<"text", "compact">>) EXCEPT !.launches = 1],
   [Chat(<<"text", "fork", "compact">>) EXCEPT !.capacity = 2, !.disk = TRUE],
   [Chat(<<"text">>) EXCEPT !.timer = TRUE, !.signal = TRUE]}
MCLeaves == [Chat(<<>>) EXCEPT !.timer = TRUE, !.leaves = TRUE]

MCAllSetups == MCSetups \cup {MCWithout(c) : c \in BOOLEAN}
MCAllChats == MCChats \cup {MCLeaves, MCNoChat}
MCPrograms ==
  (MCSetups \X {MCNoChat}) \cup ({MCWithout(FALSE)} \X MCChats)
  \cup {<<MCWithout(c), MCLeaves>> : c \in BOOLEAN} \cup {<<MCWithout(c), MCNoChat>> : c \in BOOLEAN}

MCCaller == 0..2
MCOwner == {"skill", "channel", "chat"}

\* Backends.  The signals of a workflow, of which one has its handler later; starts of one
\* workflow by several, and polls while it is brought on; two streams of one.
MCThread == {"agent", "driver", "third"}
Order == <<"order">>
Ask(op, w) == [op |-> op, id |-> w]
Start(w, blocking) == [op |-> "start", id |-> w, blocking |-> blocking]
Change(status) == [op |-> "change", id |-> Order, status |-> status]
EmitS(name) == [op |-> "emit", id |-> Order, name |-> name]
Handle(name) == [op |-> "handle", name |-> name]
Stream(stops) == [op |-> "stream", id |-> Order, stops |-> stops]

Backend(agent, driver, third) ==
  [on |-> TRUE, watched |-> Order, handlers |-> {"ready"},
   calls |-> [t \in MCThread |-> CASE t = "agent" -> agent [] t = "driver" -> driver [] OTHER -> third]]
MCNoBackend == [Backend(<<>>, <<>>, <<>>) EXCEPT !.on = FALSE]
MCSignals ==
  Backend(<<Start(Order, FALSE), Ask("signal", Order), Ask("query", Order)>>,
          <<EmitS("ready"), EmitS("cancel"), EmitS("ready"), EmitS("cancel")>>, <<Handle("cancel")>>)
MCStarts ==
  {Backend(<<Start(Order, TRUE), Start(Unnamed, FALSE), Ask("poll", Order)>>,
           <<Change("completed"), Change("failed"), EmitS("ready"), Ask("query", Order)>>,
           <<Start(Order, b1), Ask("signal", Order), Ask("poll", Order)>>) : b1 \in BOOLEAN}
MCStreams ==
  {Backend(<<Start(Order, FALSE), Stream(stops), Stream(FALSE)>>,
           <<Change("completed"), Change("running"), Change("timed_out")>>,
           <<Stream(FALSE), Stream(FALSE)>>) : stops \in BOOLEAN}
MCServices == {MCNoBackend, MCSignals} \cup MCStarts \cup MCStreams
MCWorlds ==
  ({p \in MCPrograms : p[1].skills # <<>> \/ p[2].on} \X {MCNoBackend})
  \cup {<<<<MCWithout(TRUE), MCNoChat>>, MCSignals>>}
  \cup ({<<MCWithout(FALSE), MCNoChat>>} \X (MCStarts \cup MCStreams))
==============================================================================

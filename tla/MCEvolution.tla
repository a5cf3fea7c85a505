----------------------------- MODULE MCEvolution -----------------------------
(***************************************************************************)
(* Small agents: one that mutates while a reflection loop in its process   *)
(* or in another commits to the same genome, one that calls tools between  *)
(* mutations, and one that only calls, with every kind of argument, hook   *)
(* and policy.                                                             *)
(***************************************************************************)
EXTENDS EvolutionSession

MCTool == {"read", "edit", "run", "send"}
Metadata(category, force, inAgent, schema, validation) ==
  [category |-> category, force |-> force, inAgent |-> inAgent, schema |-> schema,
   validation |-> validation]
MCMeta == [t \in MCTool |->
  CASE t = "read" -> Metadata("ReadOnly", FALSE, FALSE, TRUE, "Ignore")
    [] t = "edit" -> Metadata("StateModify", FALSE, TRUE, TRUE, "Strict")
    [] t = "run"  -> Metadata("Execute", FALSE, TRUE, FALSE, "Strict")
    [] t = "send" -> Metadata("Execute", TRUE, FALSE, TRUE, "Warn")]

Config(mode, callback, hooked, pre, post) ==
  [mode |-> mode, callback |-> callback, hooked |-> hooked, pre |-> pre, post |-> post]
Plain == Config("agent", TRUE, FALSE, <<>>, "keep")
MCConfigs ==
  {Config(m, c, FALSE, <<>>, "keep") : m \in {"plan", "agent", "yolo", "none"}, c \in BOOLEAN}
    \cup {Config("agent", TRUE, TRUE, pre, "keep") :
            pre \in {<<>>, <<"continue">>, <<"scrub", "refuse dangerous">>, <<"refuse dangerous">>,
                     <<"throw open", "throw closed">>, <<"continue", "deny">>}}
    \cup {Config("agent", TRUE, TRUE, <<"continue">>, post) : post \in PostHook}

Spec0(text, tools) == [harness |-> text, tools |-> tools]
Deltas == UNION {[1..n -> {"delta"}] : n \in 0..2}
Texts == {<<"skill">>} \cup Deltas \cup {<<"seed">> \o d : d \in Deltas}
Lists == UNION {[1..n -> MCTool] : n \in 0..4}
MCGenome == [parent : 0..4, spec : [harness : Texts, tools : Lists]]
Seed == [parent |-> 0, spec |-> Spec0(<<"seed">>, <<"read", "edit">>)]

Mutation(prompt, add, remove, workflow) ==
  [prompt |-> prompt, add |-> add, remove |-> remove, workflow |-> workflow]
Offers ==
  {Mutation(<<"delta">>, <<>>, <<"edit">>, FALSE), Mutation(<<>>, <<"edit">>, <<>>, FALSE),
   Mutation(<<>>, <<>>, <<"edit", "read">>, FALSE)}
BadOffers ==
  {Mutation(<<>>, <<>>, <<>>, FALSE), Mutation(<<>>, <<"read">>, <<"read">>, FALSE),
   Mutation(<<"delta">>, <<>>, <<>>, TRUE), Mutation(<<>>, <<"send">>, <<>>, FALSE),
   Mutation(<<"delta">>, <<>>, <<"run">>, FALSE)}

Request(tool, layer, args) == [tool |-> tool, layer |-> layer, args |-> args]
Ask(id, source, kind, mode, evaluated) ==
  [id |-> id, source |-> source, kind |-> kind, mode |-> mode, evaluated |-> evaluated]

\* An agent that does nothing; the setups say what differs.
Still ==
  [place |-> [w \in Writer |-> "p1"], seed |-> Seed,
   live |-> [prompt |-> <<"seed">>, tools |-> <<"read", "edit">>],
   keeps |-> TRUE, gepaKeeps |-> TRUE, denied |-> {"run"}, config |-> Plain,
   mutations |-> 0, undos |-> 0, offers |-> {}, requests |-> {}, many |-> 0,
   iterations |-> 0, asks |-> {}, answers |-> 0, crashes |-> 0, loads |-> 0, scans |-> {}]

\* Two writers in one process, or in two, and one crash.
Together ==
  {[Still EXCEPT !.place = place, !.mutations = 2, !.offers = Offers, !.iterations = 2, !.crashes = 1] :
     place \in {[w \in Writer |-> "p1"], (Host :> "p1" @@ Gepa :> "p2")}}

\* Mutations of every kind with undos and calls in between, with a registry or without.
Changing ==
  {[Still EXCEPT !.keeps = keeps, !.gepaKeeps = keeps, !.live = had, !.mutations = 2, !.undos = 1,
                 !.offers = Offers \cup BadOffers, !.many = 2,
                 !.requests = {Request("edit", "workflow", {})}] :
     keeps \in BOOLEAN,
     had \in {Still.live, [prompt |-> <<>>, tools |-> <<"read", "edit">>]}}

\* Reflection without a registry, beside others who ask the governor.
Asking ==
  {[Still EXCEPT !.gepaKeeps = FALSE, !.iterations = 2, !.answers = 2,
                 !.asks = {Ask(1, "gepa", "L1_prompt", "Yolo", TRUE), Ask(2, "gepa", "L2_dsl", "Yolo", FALSE),
                           Ask(3, "gepa", "L2_dsl", "Plan", TRUE), Ask(4, "gepa", "L3_skill", "Agent", TRUE),
                           Ask(5, "gepa", "L3_skill", "Plan", TRUE), Ask(6, "gepa", "L4_weight", "Agent", TRUE),
                           Ask(7, "stranger", "L1_prompt", "Yolo", TRUE), Ask(8, "gepa", "unknown", "Agent", TRUE)}]}

\* Calls alone: every layer, fault and setup of the coordinator, and calls within calls.
AllTools == [Still.live EXCEPT !.tools = <<"read", "edit", "run", "send">>]
Calling ==
  {[Still EXCEPT !.live = AllTools, !.config = c, !.many = 2,
                 !.requests = {Request(t, l, {}) : t \in MCTool, l \in Layer}
                    \cup {Request(t, "workflow", {f}) : t \in MCTool, f \in Fault}
                    \cup {Request("send", "workflow", {"coercible", f}) : f \in Fault}] : c \in MCConfigs}
  \cup {[Still EXCEPT !.live = AllTools, !.config = [Plain EXCEPT !.mode = "yolo"], !.many = 4,
                      !.requests = {Request(t, "workflow", {}) : t \in MCTool}]}

\* Two files of one plugin, in two directories, one of another that shares a name with the
\* first, and one that is not of this runtime.
PluginFile(name, manifest, abi, tools, optional) ==
  [name |-> name, manifest |-> manifest, listed |-> TRUE, opens |-> TRUE, info |-> TRUE,
   registers |-> TRUE, abi |-> abi, tools |-> tools,
   init |-> "init" \in optional, fini |-> "fini" \in optional, provider |-> "provider" \in optional]
MCPlugin == {"code.so", "home/code.so", "web.so", "old.so"}
MCExports == [f \in MCPlugin |->
  CASE f = "code.so"      -> PluginFile("code", "valid", TRUE, <<"run", "send">>, {"init", "fini", "provider"})
    [] f = "home/code.so" -> PluginFile("code", "none", TRUE, <<"run">>, {})
    [] f = "web.so"       -> PluginFile("web", "none", TRUE, <<"send">>, {"fini"})
    [] f = "old.so"       -> PluginFile("old", "invalid", FALSE, <<>>, {})]

\* Plugins that are loaded, unloaded and scanned for between calls and a mutation that removes
\* their tools.
Plugging ==
  {[Still EXCEPT !.keeps = keeps, !.denied = {}, !.mutations = 1, !.many = 1,
                 !.loads = IF keeps THEN 2 ELSE 4,
                 !.offers = {Mutation(<<>>, <<>>, <<"run", "send">>, FALSE)},
                 !.requests = {Request("run", "workflow", {})},
                 !.scans = {<<"code.so", "web.so">>, <<"old.so", "web.so", "home/code.so">>}] :
     keeps \in BOOLEAN}

\* A session with its contexts; alone, or beside a reflection loop of another process.
Refine == Mutation(<<"delta">>, <<>>, <<>>, FALSE)
Sessions ==
  {[setup |-> [Still EXCEPT !.mutations = 2, !.offers = {Refine}, !.crashes = 1, !.denied = {}],
    contexts |-> 2, training |-> TRUE],
   [setup |-> [Still EXCEPT !.place = (Host :> "p1" @@ Gepa :> "p2"), !.mutations = 1,
                            !.offers = {Refine}, !.iterations = 1, !.denied = {}],
    contexts |-> 1, training |-> TRUE],
   [setup |-> [Still EXCEPT !.mutations = 1, !.offers = {Refine}, !.denied = {}],
    contexts |-> 1, training |-> FALSE]}

MCAlone == Together \cup Changing \cup Asking \cup Calling \cup Plugging
MCSetups == MCAlone \cup {r.setup : r \in Sessions}
MCRuns == {[setup |-> s, contexts |-> 0, training |-> FALSE] : s \in MCAlone} \cup Sessions
=============================================================================

------------------------------ MODULE Evolution ------------------------------
(***************************************************************************)
(* How the harness of an agent changes while it is used.                   *)
(*                                                                         *)
(*   host   the thread of an agent: it calls tools through the             *)
(*          coordinator and between calls applies mutations to its prompt  *)
(*          and its tools (src/evolution/harness_rsi.cpp), or undoes one,  *)
(*          and loads and unloads plugins                                  *)
(*   gepa   a reflection loop (src/modules/cognitive/gepa_loop.cpp) that   *)
(*          commits what the model proposes for the same genome            *)
(*   others whoever else asks the governor                                 *)
(*                                                                         *)
(* Both write to the genome registry, from one process or from two.  The   *)
(* contract of the tool registry wants its changes apart from the calls    *)
(* (include/agenticdsl/contract/registry.h), so one thread does both.      *)
(***************************************************************************)
EXTENDS GenomeRegistry, MutationGovernor, PluginLoader, TLC

CONSTANT
  Setups        \* what to start from: place (the process of each writer), seed (the genome of
                \* version 1), live (the prompt and tools), keeps and gepaKeeps (whether host and
                \* gepa have a genome registry), denied (the tools no mutation may touch),
                \* config (the coordinator's), iterations (max_iterations of gepa) and, as
                \* bounds: mutations and undos of host, offers (what it may apply), requests
                \* (the calls it may make) and how many of them, asks (what others put to the
                \* governor) and how many answers, crashes, loads (what it asks of the loader) and
                \* scans (what load_all may find)

Host == "host"
Gepa == "gepa"
Others == "others"

ASSUME EvolutionAssumption ==
  /\ Writer = {Host, Gepa}
  /\ Caller = {Host, Gepa, Others}
Text == Seq({"seed", "delta", "skill"})
Harness == [prompt : Text, tools : Seq(Tool)]
Mutations == [prompt : Text, add : Seq(Tool), remove : Seq(Tool), workflow : BOOLEAN]
Requests == [tool : Tool, layer : Layer, args : SUBSET Fault]

ASSUME SetupsAssumption ==
  /\ Setups \subseteq
       [place : [Writer -> Process], seed : Genome, live : Harness, keeps : BOOLEAN,
        gepaKeeps : BOOLEAN, denied : SUBSET Tool, config : Configs, mutations : Nat, undos : Nat,
        offers : SUBSET Mutations, requests : SUBSET Requests, many : Nat, iterations : Nat,
        asks : SUBSET Context, answers : Nat, crashes : Nat, loads : Nat, scans : SUBSET Seq(Plugin)]
  /\ \A s \in Setups : s.seed.parent = 0

VARIABLES
  setup,
  live,         \* the prompt (the list of its parts) and the tools of the agent
  applied,      \* the AppliedMutation of the last success, or None
  host,         \* whether a mutation waits for its commit, the mutation, how the last ended, and
                \* as history what the agent was before it and before the last that succeeded
  base,         \* the version the host takes as parent
  gepa,         \* where the loop is, its iteration, and the version it has stored
  undone,       \* history: the tools removed by a mutation that was undone
  doubled       \* history: the tools that stood twice in a list

evolutionVars == <<setup, live, applied, host, base, gepa, undone, doubled>>
allVars == <<registryVars, trail, coordinatorVars, pluginVars, evolutionVars>>

\* The tools that stand twice in a list.
ListedTwice(tools) ==
  {t \in ToSet(tools) : \E i, j \in DOMAIN tools : i < j /\ tools[i] = t /\ tools[j] = t}

Init ==
  /\ setup \in Setups
  /\ RegistryInit(setup.place, setup.seed)
  /\ trail = [c \in Caller |-> <<>>]
  /\ CoordinatorInit(ToSet(setup.live.tools), setup.config)
  /\ PluginInit
  /\ live = setup.live
  /\ applied = None
  /\ host = [pc |-> "free", mutation |-> None, last |-> "none",
             before |-> setup.live, origin |-> setup.live]
  /\ base = 1
  /\ gepa = [pc |-> "reflect", iteration |-> 0, version |-> 0]
  /\ undone = {}
  /\ doubled = ListedTwice(live.tools)

-----------------------------------------------------------------------------
(* fork: load the parent, merge the spec into its own, commit.             *)

MergedTools(parent, spec) ==
  [harness |-> parent.harness,
   tools |-> IF spec.tools = <<>> THEN parent.tools ELSE spec.tools]

\* deep_merge_spec: what is empty is the parent's.
Merged(parent, spec) ==
  [harness |-> IF spec.harness = <<>> THEN parent.harness ELSE spec.harness,
   tools |-> IF spec.tools = <<>> THEN parent.tools ELSE spec.tools]

\* The parent can be read (a file system error aside).
CanFork(v) == v \in Version /\ Loads(v, files[v][Yaml])
Child(v, spec) == [parent |-> v, spec |-> Merged(files[v][Yaml].spec, spec)]

-----------------------------------------------------------------------------
(* apply_harness_mutation and undo_applied_mutation.                       *)

\* The list without the first occurrence of each tool of a list of different ones.
Erase(tools, t) ==
  LET first == SelectInSeq(tools, LAMBDA u : u = t)
  IN IF first = 0 THEN tools ELSE RemoveAt(tools, first)
FinalTools(m) == FoldLeft(Erase, live.tools \o m.add, m.remove)
Final(m) == [prompt |-> live.prompt \o m.prompt, tools |-> FinalTools(m)]

\* The gates before anything is written; Gate 1 is readiness, an answer of the environment.
Gates(m, parent, ready) ==
  LET gate(refuses, error) == [refuses |-> refuses, error |-> error]
      touched == ToSet(m.add) \cup ToSet(m.remove)
  IN <<gate(touched = {} /\ m.prompt = <<>> /\ ~m.workflow, "InvalidMutation"),
       gate(ToSet(m.add) \cap ToSet(m.remove) # {}, "InvalidMutation"),
       gate(m.workflow, "UnsupportedVariant"),
       gate(setup.keeps /\ parent = 0, "InvalidMutation"),
       gate(~ready, "NotReady"),
       gate(touched \cap setup.denied # {}, "GovernanceDenied"),
       gate(~(ToSet(m.add) \subseteq registered), "RegistryRejected"),
       gate(setup.keeps /\ FinalTools(m) = <<>>, "InvalidMutation")>>

\* The prompt and the tools, and the registry, where what is removed is destroyed.
Apply(m, version) ==
  /\ \A t \in ToSet(m.remove) : Intact(t)
  /\ live' = Final(m)
  /\ registered' = registered \ ToSet(m.remove)
  /\ applied' = [prompt |-> live.prompt, tools |-> live.tools, version |-> version,
                 removed |-> ToSet(m.remove)]
  /\ doubled' = doubled \cup ListedTwice(live.tools \o m.add)

\* Mutations and undos come between calls of tools.
HostIsFree == Alive(Host) /\ host.pc = "free" /\ stack = <<>> /\ scan = <<>> /\ engine = "up"

HostMutatesFrom(parent) ==
  /\ HostIsFree /\ setup.mutations > 0
  /\ setup' = [setup EXCEPT !.mutations = @ - 1]
  /\ \E m \in setup.offers, ready \in BOOLEAN, ioError \in BOOLEAN :
       LET gates == Gates(m, parent, ready)
           first == SelectInSeq(gates, LAMBDA g : g.refuses)
           spec == [harness |-> Final(m).prompt, tools |-> Final(m).tools]
           refuse(error, events) ==
             /\ host' = [host EXCEPT !.last = error, !.before = live] /\ Emits(Host, events)
             /\ UNCHANGED <<registryVars, registered, live, applied, doubled>>
       IN IF first # 0
            THEN refuse(gates[first].error,
                        IF gates[first].error = "NotReady"
                          THEN <<Event("evolution.readiness.denied", 0)>> ELSE <<>>)
          ELSE IF ~setup.keeps
            THEN /\ Apply(m, 0)
                 /\ host' = [host EXCEPT !.last = "applied", !.before = live, !.origin = live]
                 /\ UNCHANGED <<registryVars, trail>>
          ELSE IF ioError \/ ~CanFork(parent)
            THEN refuse("RegistryRejected", <<Event("genome.persist_failed", 0)>>)
            ELSE /\ CommitCall(Host, Child(parent, spec))
                 /\ host' = [host EXCEPT !.pc = "commits", !.mutation = m, !.before = live]
                 /\ UNCHANGED <<trail, registered, live, applied, doubled>>
  /\ UNCHANGED <<config, stack, calls, pluginVars, base, gepa, undone>>

HostMutates == \E parent \in {0, base} : HostMutatesFrom(parent)

\* fork has returned: only now does anything of the agent change.
HostApplies ==
  /\ host.pc = "commits" /\ At(Host, "done")
  /\ LET version == commit[Host].version IN
       /\ Emits(Host, <<Event("genome.committed", version)>>)
       /\ Apply(host.mutation, version)
       /\ base' = version
  /\ host' = [host EXCEPT !.pc = "free", !.mutation = None, !.last = "applied", !.origin = host.before]
  /\ CommitReturns(Host)
  /\ UNCHANGED <<home, crashed, diskVars, holder, committed, contested,
                 config, stack, calls, pluginVars, setup, gepa, undone>>

HostGivesUp ==
  /\ host.pc = "commits" /\ At(Host, "failed")
  /\ Emits(Host, <<Event("genome.persist_failed", 0)>>)
  /\ host' = [host EXCEPT !.pc = "free", !.mutation = None, !.last = "RegistryRejected"]
  /\ CommitReturns(Host)
  /\ UNCHANGED <<home, crashed, diskVars, holder, committed, contested,
                 coordinatorVars, pluginVars, setup, live, applied, base, gepa, undone, doubled>>

\* The snapshot comes back; the registry is not asked, so a tool that was removed stays removed.
HostUndoes ==
  /\ HostIsFree /\ applied # None /\ setup.undos > 0
  /\ setup' = [setup EXCEPT !.undos = @ - 1]
  /\ live' = [prompt |-> applied.prompt, tools |-> applied.tools]
  /\ undone' = undone \cup applied.removed
  /\ applied' = None
  /\ host' = [host EXCEPT !.last = "undone"]
  /\ UNCHANGED <<registryVars, trail, coordinatorVars, pluginVars, base, gepa, doubled>>

-----------------------------------------------------------------------------
(* GEPALoop::reflect_and_commit.                                           *)

ReflectionId == gepa.iteration
Proposal == [id |-> ReflectionId, source |-> Gepa, kind |-> "L1_prompt", mode |-> "Yolo",
             evaluated |-> TRUE]
GepaSays(events) == Emits(Gepa, [i \in DOMAIN events |-> Event(events[i], ReflectionId)])
Failure == <<"gepa.reflection.failed", "gepa.commit.denied">>

\* The next iteration, or the end without success.
NextIteration ==
  gepa' = [gepa EXCEPT !.iteration = @ + 1,
                       !.pc = IF gepa.iteration + 1 < setup.iterations THEN "reflect" ELSE "failed"]

GepaFrame == UNCHANGED <<coordinatorVars, pluginVars, setup, live, applied, host, base, undone, doubled>>
GepaAt(pc) == Alive(Gepa) /\ gepa.pc = pc

\* The budget, then the proposal.
GepaProposes ==
  /\ GepaAt("reflect") /\ gepa.iteration < setup.iterations
  /\ \E affordable, poor, regressed \in BOOLEAN :
       LET answer == ProposeAnswer(Proposal, FALSE, poor, regressed)
           first == <<"gepa.reflection.started", ProposeEvent(Proposal, answer).topic,
                      "gepa.commit.proposed">>
       IN IF ~affordable
            THEN /\ GepaSays(<<"gepa.reflection.failed">>)
                 /\ gepa' = [gepa EXCEPT !.pc = "failed"]
          ELSE IF answer = "approved"
            THEN GepaSays(first) /\ gepa' = [gepa EXCEPT !.pc = "generate"]
            ELSE GepaSays(first \o Failure) /\ NextIteration
  /\ UNCHANGED registryVars
  /\ GepaFrame

\* The model answers, the answer is compiled and evaluated; what is better is stored before it
\* is committed.  (The regression test compares a fingerprint with itself and never fails.)
GepaGenerates ==
  /\ GepaAt("generate")
  /\ \E outcome \in {"failed", "unimproved", "better"}, ioError \in BOOLEAN :
       CASE outcome = "failed" -> /\ GepaSays(Failure) /\ NextIteration
                                  /\ UNCHANGED registryVars
         [] outcome = "unimproved" ->
              /\ GepaSays(<<"gepa.reflection.completed", "gepa.commit.denied">>) /\ NextIteration
              /\ UNCHANGED registryVars
         [] OTHER ->
              IF setup.gepaKeeps /\ (ioError \/ ~CanFork(1))
                THEN GepaSays(Failure) /\ NextIteration /\ UNCHANGED registryVars
                ELSE /\ gepa' = [gepa EXCEPT !.pc = "commits"]
                     /\ UNCHANGED trail
                     /\ IF setup.gepaKeeps
                          THEN CommitCall(Gepa, Child(1, [harness |-> <<"skill">>, tools |-> <<>>]))
                          ELSE UNCHANGED registryVars
  /\ GepaFrame

GepaCommitsAnyway ==
  /\ GepaAt("commits")
  /\ setup.gepaKeeps => commit[Gepa].pc \in {"done", "failed"}
  /\ GepaSays(<<CommitEvent(Proposal).topic>> \o
       IF CommitAnswer(Proposal) = "approved"
         THEN <<"gepa.reflection.completed", "gepa.commit.committed">> ELSE Failure)
  /\ IF CommitAnswer(Proposal) = "approved"
       THEN gepa' = [gepa EXCEPT !.pc = "succeeded", !.version = commit[Gepa].version]
       ELSE NextIteration
  /\ CommitReturns(Gepa)
  /\ UNCHANGED <<home, crashed, diskVars, holder, committed, contested>>
  /\ GepaFrame

\* fork has returned, or there is no registry: the governor commits.
GepaCommits ==
  /\ GepaAt("commits")
  /\ setup.gepaKeeps => commit[Gepa].pc = "done"
  /\ GepaSays(<<CommitEvent(Proposal).topic>> \o
       IF CommitAnswer(Proposal) = "approved"
         THEN <<"gepa.reflection.completed", "gepa.commit.committed">> ELSE Failure)
  /\ IF CommitAnswer(Proposal) = "approved"
       THEN gepa' = [gepa EXCEPT !.pc = "succeeded", !.version = commit[Gepa].version]
       ELSE NextIteration
  /\ CommitReturns(Gepa)
  /\ UNCHANGED <<home, crashed, diskVars, holder, committed, contested>>
  /\ GepaFrame

GepaCannotStore ==
  /\ GepaAt("commits") /\ commit[Gepa].pc = "failed"
  /\ GepaSays(Failure)
  /\ NextIteration
  /\ CommitReturns(Gepa)
  /\ UNCHANGED <<home, crashed, diskVars, holder, committed, contested>>
  /\ GepaFrame

-----------------------------------------------------------------------------
(* Whoever else asks the governor, the calls of the host, and crashes.     *)

OthersHear(event) ==
  /\ Len(trail[Others]) < setup.answers
  /\ Emits(Others, <<event>>)
  /\ UNCHANGED <<registryVars, coordinatorVars, pluginVars, evolutionVars>>

OthersPropose ==
  \E ask \in setup.asks, human, poor, regressed \in BOOLEAN :
    OthersHear(ProposeEvent(ask, ProposeAnswer(ask, human, poor, regressed)))
OthersCommit == \E ask \in setup.asks : OthersHear(CommitEvent(ask))
OthersRevert == \E ask \in setup.asks : OthersHear(RevertEvent(ask))

CallsFrame == UNCHANGED <<registryVars, trail, pluginVars, evolutionVars>>

HostMayCall ==
  /\ Alive(Host) /\ host.pc = "free" /\ scan = <<>> /\ engine = "up"
  /\ Len(calls) < setup.many

\* The host calls a tool, or a tool that runs does.
HostCalls ==
  /\ HostMayCall
  /\ \E r \in setup.requests, cancelled, human \in BOOLEAN :
       /\ FirstRefusal(r.tool, r.layer, r.args, cancelled, human) = 0 => Intact(r.tool)
       /\ Execute(r.tool, r.layer, r.args, cancelled, human)
  /\ CallsFrame
ToolReturns == Alive(Host) /\ (\E ok \in BOOLEAN : ToolEnds(ok)) /\ CallsFrame
ToolLeaves == Alive(Host) /\ ToolEscapes /\ CallsFrame

\* The agent gets a tool back.
HostRegisters ==
  /\ HostIsFree /\ host.last = "undone"
  /\ \E t \in Tool : /\ t \in ToSet(live.tools)
                     /\ Register(t)
                     /\ code' = [code EXCEPT ![t] = BuiltIn]
  /\ UNCHANGED <<registryVars, trail, config, stack, calls, loaded, handles, mapped, scan,
                 providers, started, leaked, dropped, engine, evolutionVars>>

\* What the host asks of the loader, between calls.
LoaderFrame ==
  UNCHANGED <<registryVars, trail, config, stack, calls, live, applied, host, base, gepa, undone, doubled>>
HostAsksLoader ==
  /\ HostIsFree /\ setup.loads > 0
  /\ setup' = [setup EXCEPT !.loads = @ - 1]
  /\ LoaderFrame
HostLoads ==
  /\ HostAsksLoader
  /\ \E f \in Plugin, strict, require \in BOOLEAN : \E init \in Inits(f) : Load(f, strict, require, init)
HostLoadsAll == HostAsksLoader /\ \E found \in setup.scans : LoadAll(found)
HostUnloads == HostAsksLoader /\ \E f \in Plugin : Unload(Exports[f].name)
HostCreates == HostAsksLoader /\ \E f \in Plugin : CreateProvider(Exports[f].name)
LoadAllGoesOn ==
  /\ Alive(Host)
  /\ \E f \in Plugin : \E init \in Inits(f) : scan # <<>> /\ f = Head(scan) /\ ScanNext(init)
  /\ UNCHANGED setup /\ LoaderFrame
HostEnds == HostIsFree /\ Destroy /\ UNCHANGED setup /\ LoaderFrame

\* The host comes upon code that is gone: it calls a tool, removes one, destroys the engine with
\* one in its registry, or uses a provider.
HostFalls ==
  /\ \/ HostIsFree /\ \E t \in registered : ~Intact(t)
     \/ HostMayCall /\ \E r \in setup.requests, human \in BOOLEAN :
          FirstRefusal(r.tool, r.layer, r.args, FALSE, human) = 0 /\ ~Intact(r.tool)
     \/ host.pc = "commits" /\ At(Host, "done") /\ \E t \in ToSet(host.mutation.remove) : ~Intact(t)
     \/ Alive(Host) /\ stack = <<>> /\ \E p \in providers : ~IsMapped(p)
  /\ \E p \in Process : p = home[Host] /\ Crash(p)
  /\ engine' = "fallen"
  /\ UNCHANGED <<loadVars, scan, providers, trail, config, stack, calls, evolutionVars>>

Committing ==
  \E w \in Writer : Commit(w) /\ UNCHANGED <<trail, coordinatorVars, pluginVars, evolutionVars>>
Crashes ==
  /\ setup.crashes > Cardinality(crashed)
  /\ \E p \in Process : Crash(p)
  /\ UNCHANGED <<trail, coordinatorVars, pluginVars, evolutionVars>>

Next ==
  \/ HostMutates \/ HostApplies \/ HostGivesUp \/ HostUndoes
  \/ HostCalls \/ ToolReturns \/ ToolLeaves \/ HostRegisters
  \/ HostLoads \/ HostLoadsAll \/ LoadAllGoesOn \/ HostUnloads \/ HostCreates \/ HostEnds \/ HostFalls
  \/ GepaProposes \/ GepaGenerates \/ GepaCommits \/ GepaCannotStore
  \/ OthersPropose \/ OthersCommit \/ OthersRevert
  \/ Committing \/ Crashes

Spec == Init /\ [][Next]_allVars

-----------------------------------------------------------------------------

\* What the agent has in memory and what is stored agree.  After a mutation that succeeded, the
\* version it reports was committed with the prompt and the tools the agent now has (with an
\* empty prompt, the parent's); after one that failed, or an undo, the agent is what it was.
\* A tool the agent still lists though it cannot be called was removed by a mutation that was
\* undone, or was listed twice; or the engine is gone.
LivePersisted ==
  /\ host.last = "applied" /\ setup.keeps /\ host.pc = "free" =>
       \E c \in committed :
         /\ c.version = applied.version /\ c.by = home[Host]
         /\ c.genome.spec.tools = live.tools
         /\ live.prompt # <<>> => c.genome.spec.harness = live.prompt
  /\ host.last = "undone" /\ host.pc = "free" => live = host.origin
  /\ host.last \notin {"applied", "undone"} \/ host.pc = "commits" => live = host.before
  /\ ToSet(live.tools) \subseteq registered \cup undone \cup doubled \/ engine # "up"

\* The places of the events of one reflection, and their topics.
Reflection(i) == {k \in DOMAIN trail[Gepa] : trail[Gepa][k].id = i}
Topics(i) == {trail[Gepa][k].topic : k \in Reflection(i)}

\* The bus tells what happened.  Each reflection that has ended has said either completed or
\* failed, and each candidate is either committed or denied, once; the governor hears of a commit
\* only after it has agreed to the proposal, and by then the version is stored; the loop has
\* succeeded exactly if its last word is a commit.  Of what others ask, nothing is agreed to for a source that is not
\* trusted, no change of weights is proposed, and nothing without an evaluation is committed.  A
\* call of a tool leaves what CallTrail says.
TrailTellsOutcome ==
  /\ \A i \in 0..gepa.iteration :
       LET topics == Topics(i)
           ended == i < gepa.iteration \/ gepa.pc \in {"failed", "succeeded"}
       IN /\ \A k, l \in Reflection(i) : trail[Gepa][k].topic = trail[Gepa][l].topic => k = l
          /\ ended /\ "gepa.reflection.started" \in topics =>
               /\ "gepa.reflection.completed" \in topics <=> "gepa.reflection.failed" \notin topics
               /\ "gepa.commit.committed" \in topics <=> "gepa.commit.denied" \notin topics
          /\ "gepa.commit.committed" \in topics =>
               /\ \E k, l \in Reflection(i) : k < l /\ trail[Gepa][k].topic = "mutation.proposed"
                                                    /\ trail[Gepa][l].topic = "mutation.committed"
               /\ setup.gepaKeeps => \E c \in committed :
                    c.version = gepa.version /\ c.by = home[Gepa]
  /\ \A i \in DOMAIN trail[Others] : trail[Others][i].topic # "mutation.denied" =>
       \E ask \in setup.asks :
         /\ ask.id = trail[Others][i].id /\ ask.source \in Whitelist
         /\ trail[Others][i].topic = "mutation.committed" => ask.evaluated
         /\ trail[Others][i].topic = "mutation.proposed" => ask.kind \notin {"L4_weight", "unknown"}
  /\ gepa.pc = "succeeded" <=>
       trail[Gepa] # <<>> /\ Last(trail[Gepa]).topic = "gepa.commit.committed"
  /\ \A i \in DOMAIN calls : CallTrail(calls[i])
=============================================================================

----------------------------- MODULE PluginLoader -----------------------------
(***************************************************************************)
(* PluginLoader (src/modules/plugin/plugin_loader.cpp): files with code    *)
(* that is mapped while the file is open, and that puts tools into the     *)
(* registry of the engine.  The registry keeps pointers into that code and *)
(* knows nothing of the files.                                             *)
(*                                                                         *)
(* dlopen and dlclose count: a file that is opened twice is unmapped by    *)
(* the second close.  A mapping is numbered, for what pointed into an old  *)
(* one does not point into the next.  Who runs code that is not mapped, or *)
(* destroys a tool that has some there, falls.                             *)
(***************************************************************************)
EXTENDS ToolCoordinator, FiniteSets

CONSTANTS
  Plugin,       \* the files
  Exports       \* of each: name; manifest, listed (in a directory of the whitelist), opens, info
                \* and registers (whether it has the symbols), abi (whether it is supported),
                \* tools (what pdk_register_tools registers, in order), init, fini and provider
                \* (whether it has the optional symbols)

ASSUME PluginAssumption ==
  \A f \in Plugin : /\ Exports[f].tools \in Seq(Tool)
                    /\ IsInjective(Exports[f].tools)

VARIABLES
  loaded,       \* loaded_: the file and the mapping of each entry
  handles,      \* how often each file is open
  mapped,       \* the number of the mapping each file has, or had last
  code,         \* where the function of each tool is: built in, or a mapping
  scan,         \* the files load_all has still to look at
  providers,    \* the mappings whose providers the callers of create_llm_provider hold
  started,        \* history: how often each file was initialised and not yet finished
  leaked,       \* history: the files whose handle an exception of load_so has left open
  dropped,      \* history: the mappings undone by an unload, by an init that refused, or at the end
  engine        \* up, gone, or fallen

pluginVars == <<loaded, handles, mapped, code, scan, providers, started, leaked, dropped, engine>>
\* What one load may change.
loadVars == <<registered, loaded, handles, mapped, code, started, leaked, dropped>>

BuiltIn == [file |-> "built in", number |-> 0]
Mapping(f, n) == [file |-> f, number |-> n]

PluginInit ==
  /\ loaded = <<>> /\ scan = <<>>
  /\ handles = [f \in Plugin |-> 0]
  /\ mapped = [f \in Plugin |-> 0]
  /\ started = [f \in Plugin |-> 0]
  /\ code = [t \in Tool |-> BuiltIn]
  /\ providers = {} /\ leaked = {} /\ dropped = {}
  /\ engine = "up"

IsMapped(m) == m # BuiltIn => handles[m.file] > 0 /\ mapped[m.file] = m.number

\* The tool can be called, and destroyed.
Intact(t) == t \in registered => IsMapped(code[t])

FirstNamed(name) == SelectInSeq(loaded, LAMBDA e : Exports[e.file].name = name)

-----------------------------------------------------------------------------
(* load_so.                                                                *)

\* What sends it back before it registers anything, with the file closed again.
TurnedAway(f, strict, require) ==
  LET e == Exports[f]
  IN \/ e.manifest = "invalid"
     \/ e.manifest = "none" /\ require
     \/ ~e.listed \/ ~e.opens \/ ~e.info
     \/ ~e.abi /\ strict
     \/ ~e.registers

\* The mapping dlopen returns: the one the file has, or a new one.
Opened(f) == Mapping(f, IF handles[f] > 0 THEN mapped[f] ELSE mapped[f] + 1)

\* register_tools stops with an exception at the first name that is taken; the tools before it
\* stay.
Taken(f) == SelectInSeq(Exports[f].tools, LAMBDA t : t \in registered)
Put(f) == ToSet(IF Taken(f) = 0 THEN Exports[f].tools ELSE SubSeq(Exports[f].tools, 1, Taken(f) - 1))

Inits(f) == IF Exports[f].init THEN {"true", "false", "throws"} ELSE {"true"}

\* How load_so ends once it has begun to register.
Outcome(f, init) ==
  IF Taken(f) # 0 \/ init = "throws" THEN "thrown"
  ELSE IF init = "false" THEN "refused" ELSE "loaded"

\* The handle is closed again only where init refuses, and then the tools stay; an exception
\* leaves it open.
ClosesOnThrow(outcome) == outcome # "loaded"
ClosesAgain(outcome) == outcome = "refused"

LoadSo(f, strict, require, init) ==
  IF TurnedAway(f, strict, require)
    THEN UNCHANGED loadVars
    ELSE LET outcome == Outcome(f, init)
         IN /\ registered' = registered \cup Put(f)
            /\ code' = [t \in Tool |-> IF t \in Put(f) THEN Opened(f) ELSE code[t]]
            /\ mapped' = [mapped EXCEPT ![f] = Opened(f).number]
            /\ handles' = [handles EXCEPT ![f] = IF ClosesAgain(outcome) THEN @ ELSE @ + 1]
            /\ dropped' = IF outcome = "refused" /\ handles[f] = 0 THEN dropped \cup {Opened(f)} ELSE dropped
            /\ leaked' = IF outcome = "thrown" THEN leaked \cup {f} ELSE leaked
            /\ loaded' = IF outcome = "loaded" THEN Append(loaded, Opened(f)) ELSE loaded
            /\ started' = [started EXCEPT ![f] = IF outcome = "loaded" THEN @ + 1 ELSE @]

Load(f, strict, require, init) ==
  /\ scan = <<>>
  /\ LoadSo(f, strict, require, init)
  /\ UNCHANGED <<scan, providers, engine>>

-----------------------------------------------------------------------------
(* The other operations.                                                   *)

\* load_all looks at the files one after the other, in the order of the directories.  (That a
\* dependency is missing or circular is only written to the log.)
LoadAll(found) ==
  /\ scan = <<>>
  /\ scan' = found
  /\ UNCHANGED <<loadVars, providers, engine>>

\* An exception leaves load_all, with the rest of the files not looked at.
ScanNext(init) ==
  LET f == Head(scan)
      throws == ~TurnedAway(f, TRUE, FALSE) /\ Outcome(f, init) = "thrown"
  IN /\ scan # <<>>
     /\ LoadSo(f, TRUE, FALSE, init)
     /\ scan' = IF throws THEN <<>> ELSE Tail(scan)
     /\ UNCHANGED <<providers, engine>>

\* fini, where the file has one, and the close of one handle of each of a set of entries.
Finish(entries) ==
  LET of(f) == Cardinality({i \in entries : loaded[i].file = f})
  IN /\ handles' = [f \in Plugin |-> handles[f] - of(f)]
     /\ started' = [f \in Plugin |-> IF Exports[f].fini THEN started[f] - of(f) ELSE started[f]]
     /\ dropped' = dropped \cup {loaded[i] : i \in {j \in entries :
                                   handles[loaded[j].file] = of(loaded[j].file)}}

\* unload_plugin: the first entry of that name.  The registry is not told.
Unload(name) ==
  /\ scan = <<>> /\ FirstNamed(name) # 0
  /\ Finish({FirstNamed(name)})
  /\ loaded' = RemoveAt(loaded, FirstNamed(name))
  /\ UNCHANGED <<registered, mapped, code, leaked, scan, providers, engine>>

\* create_llm_provider, where the first entry of that name has the symbol: the caller owns what
\* it gets, and the loader keeps a reference that does not count.  (Otherwise it gets nothing,
\* or an exception.)
CreateProvider(name) ==
  /\ scan = <<>> /\ FirstNamed(name) # 0
  /\ Exports[loaded[FirstNamed(name)].file].provider
  /\ providers' = providers \cup {loaded[FirstNamed(name)]}
  /\ UNCHANGED <<loadVars, scan, engine>>

\* The engine goes: first the registry with the functions of its tools, then the loader.
Destroy ==
  /\ scan = <<>> /\ engine = "up"
  /\ \A t \in registered : Intact(t)
  /\ engine' = "gone"
  /\ registered' = {}
  /\ Finish(DOMAIN loaded)
  /\ loaded' = <<>>
  /\ UNCHANGED <<mapped, code, leaked, scan, providers>>

-----------------------------------------------------------------------------

Mappings == [file : Plugin, number : Nat \ {0}]

\* What points into the code of a plugin finds it there.  Until somebody unloads a plugin, an init
\* refuses or the engine goes, every tool can be called and destroyed, every provider that was
\* handed out can be used, and the process does not fall, whichever loads failed or were repeated
\* and whichever tools a mutation has removed; and what does dangle then belongs to a mapping
\* such a step has undone.  An entry of the list is mapped, and finished once; a file is open
\* more often than it is listed only if an exception has left load_so.
PointsIntoCode ==
  /\ \A t \in registered : Intact(t) \/ code[t] \in dropped
  /\ \A p \in providers : IsMapped(p) \/ p \in dropped
  /\ \A i \in DOMAIN loaded : IsMapped(loaded[i])
  /\ \A f \in Plugin :
       LET entries == Cardinality({i \in DOMAIN loaded : loaded[i].file = f})
       IN /\ handles[f] >= entries
          /\ handles[f] > entries => f \in leaked
          /\ Exports[f].fini => started[f] = entries
  /\ engine = "fallen" => dropped # {}
=============================================================================

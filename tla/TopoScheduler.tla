--------------------------- MODULE TopoScheduler ---------------------------
(***************************************************************************)
(* One run of TopoScheduler::execute over one program graph                *)
(* (src/modules/scheduler/topo_scheduler.cpp): the FIFO of ready nodes,    *)
(* the in-degree bookkeeping, FORK branches run one after the other on     *)
(* copies of the fork's context snapshot, JOIN merges, dynamic subgraphs,  *)
(* YIELD / resume and every way the run can end.                           *)
(*                                                                         *)
(* The graph is data of the run: Init picks it from Graphs and no step     *)
(* changes it.  A context maps each key to whoever wrote it last, so two   *)
(* different writers always write two different values.                    *)
(***************************************************************************)
EXTENDS Integers, Sequences, FiniteSets

CONSTANTS
  Node,          \* node paths, generated ones included
  Key,           \* context keys
  ArrayKey,      \* those whose values are arrays
  None,          \* no node, no value
  Caller,        \* the caller of resume_yield, as a writer of keys
  BadPath,       \* a path no node is registered under
  Graphs,        \* the programs to run
  MaxSnapshots,  \* ContextEngine::max_snapshots_
  MaxResumes     \* bound on the calls of resume_yield

Types == {"plain", "dsl", "gen", "assert", "yield", "end", "fork", "join"}
Strategies == {"error_on_conflict", "last_write_wins"}
Writer == Node \cup {Caller}
Context == [Key -> Writer \cup {None}]

\* A program: its nodes in registration order and what each node declares.
Graph == [ order    : Seq(Node),            \* all_nodes_ when execute() starts
           entry    : Node \cup {None},     \* entry_point of /__meta__ or /main
           type     : [Node -> Types],
           next     : [Node -> Seq(Node)],
           waitFor  : [Node -> Seq(Node)],  \* wait_for given as a list
           dynWait  : [Node -> SUBSET Node],\* wait_for given as a template
           branches : [Node -> Seq(Node)],  \* of a FORK
           strategy : [Node -> Strategies], \* of a JOIN
           hard     : [Node -> BOOLEAN],    \* termination_mode of an END
           subgraph : [Node -> Seq(Node)],  \* what a GENERATE_SUBGRAPH adds
           onFailure: [Node -> Node \cup {None}], \* jump target of an ASSERT
           writes   : [Node -> SUBSET Key], \* keys the node assigns
           autonomous : BOOLEAN ]           \* ExecutionFlags of the session

ASSUME KeysAssumption == ArrayKey \subseteq Key
ASSUME GraphsAssumption == Graphs \subseteq Graph
ASSUME NamesAssumption == {None, Caller, BadPath} \cap Node = {} /\ None # Caller
ASSUME BoundsAssumption == MaxSnapshots \in Nat /\ MaxResumes \in Nat
ASSUME FiniteAssumption == IsFiniteSet(Node)

VARIABLES
  graph,       \* the program of this run
  allNodes,    \* all_nodes_ / node_map_, in registration order
  inDegree,    \* in_degree_
  readyQueue,  \* ready_queue_
  executed,    \* executed_
  fork,        \* is_executing_fork_branches_ and the current_fork_* members
  branch,      \* the locals of execute_single_branch
  context,     \* the context of the main loop
  snapshots,   \* ContextEngine::snapshots_
  pendingYield,\* pending_yield_ of the session holds a value
  dynamic,     \* dynamic_graphs_: present, and the nodes not yet moved out
  pc,          \* where the scheduler is
  outcome,     \* how execute() returned or threw
  resumes,     \* calls of resume_yield so far
  runs         \* history: how often each node was handed to execution

dagVars  == <<allNodes, inDegree, readyQueue, executed>>
sessVars == <<context, snapshots, pendingYield, dynamic>>
vars == <<graph, dagVars, fork, branch, sessVars, pc, outcome, resumes, runs>>

Registered(order) == {order[p] : p \in DOMAIN order}

-----------------------------------------------------------------------------
(* The edges.  An edge is <<source, block, index, target>>: the next list  *)
(* of the source is block 0 and the wait_for list of the p-th registered   *)
(* node is block p, so (block, index) is the order in which                *)
(* update_successors walks the edges that leave one node.                  *)

NextEdges(order) ==
  UNION {{<<order[p], 0, i, graph.next[order[p]][i]>> :
             i \in DOMAIN graph.next[order[p]]} : p \in DOMAIN order}

WaitEdges(order) ==
  UNION {{<<graph.waitFor[order[p]][i], p, i, order[p]>> :
             i \in DOMAIN graph.waitFor[order[p]]} : p \in DOMAIN order}

Edges(order) == NextEdges(order) \cup WaitEdges(order)

\* fork -> branch edges, counted in the branch's in-degree and in no successor list.
ForkEdges(order) ==
  UNION {{<<p, i, graph.branches[order[p]][i]>> : i \in DOMAIN graph.branches[order[p]]} :
            p \in {q \in DOMAIN order : graph.type[order[q]] = "fork"}}

EdgesFrom(edges, m) == {e \in edges : e[1] = m}
EdgesTo(edges, n) == {e \in edges : e[4] = n}
ForkEdgesTo(order, n) == {e \in ForkEdges(order) : e[3] = n}

\* build_dag throws unless every path a registered node names is registered.
BuildOk(order) ==
  /\ \A e \in Edges(order) : {e[1], e[4]} \subseteq Registered(order)
  /\ \A e \in ForkEdges(order) : e[3] \in Registered(order)

\* Mutant of BuiltInDegree: the wait_for lists are not counted.
BuiltInDegreeOfNext(order) ==
  [n \in Node |-> Cardinality(EdgesTo(NextEdges(order), n)) + Cardinality(ForkEdgesTo(order, n))]

\* in_degree_ as parse_node_wait_for_deps computes it.
BuiltInDegree(order) ==
  [n \in Node |-> Cardinality(EdgesTo(Edges(order), n)) + Cardinality(ForkEdgesTo(order, n))]

(* update_successors and the successor loop of execute_single_branch: each *)
(* edge of out lowers the in-degree of its target by one, and a target     *)
(* whose in-degree gets to 0 on the way joins the queue at that point.     *)
NotAfter(e, f) == e[2] < f[2] \/ (e[2] = f[2] /\ e[3] <= f[3])

\* The targets of a set of edges, in the order of the edges.
Targets(edges) ==
  [k \in 1..Cardinality(edges) |->
     (CHOOSE e \in edges : Cardinality({f \in edges : NotAfter(f, e)}) = k)[4]]

Lowered(deg, out) == [n \in Node |-> deg[n] - Cardinality(EdgesTo(out, n))]

\* Mutant of Releasing: the in-degree is looked at before it is lowered.
ReleasingLate(deg, out) ==
  {e \in out : deg[e[4]] = Cardinality({f \in EdgesTo(out, e[4]) : NotAfter(f, e)}) - 1}

Releasing(deg, out) ==
  {e \in out : deg[e[4]] = Cardinality({f \in EdgesTo(out, e[4]) : NotAfter(f, e)})}

\* seed_initial_ready_queue: the nodes of in-degree 0, in registration order.
Roots(order, deg) ==
  Targets({<<order[p], 0, p, order[p]>> : p \in {r \in DOMAIN order : deg[order[r]] = 0}})

-----------------------------------------------------------------------------
(* Contexts and snapshots.                                                 *)

Wrote(c, n) == [k \in Key |-> IF k \in graph.writes[n] THEN n ELSE c[k]]

\* save_snapshot: a full store keeps what it has and drops the new snapshot, in silence.
Saved(snaps, key, c) ==
  IF Cardinality(DOMAIN snaps) >= MaxSnapshots THEN snaps
  ELSE [n \in DOMAIN snaps \cup {key} |-> IF n = key THEN c ELSE snaps[n]]

\* needs_snapshot: the node types that always trigger one.
SnapshotIfNeeded(snaps, n, c) ==
  IF graph.type[n] \in {"gen", "assert"} THEN Saved(snaps, n, c) ELSE snaps

\* What JOIN merges: the contexts of the branches, in order, into the main one.
Versions(k, results, c) ==
  ({results[i][k] : i \in DOMAIN results} \cup {c[k]}) \ {None}
\* Mutant of Conflict: what the main loop wrote meanwhile is not compared.
ConflictOfBranches(results, c) ==
  \E k \in Key : Cardinality(Versions(k, results, [c EXCEPT ![k] = None])) > 1

\* Under error_on_conflict two values that differ are a conflict, and so are two arrays.
Holders(k, results, c) ==
  {i \in DOMAIN results : results[i][k] # None} \cup (IF c[k] = None THEN {} ELSE {0})
Conflict(results, c) ==
  \E k \in Key : \/ Cardinality(Versions(k, results, c)) > 1
                 \/ k \in ArrayKey /\ Cardinality(Holders(k, results, c)) > 1
Merged(results, c) ==
  [k \in Key |->
     LET writers == {i \in DOMAIN results : results[i][k] # None}
     IN  IF writers = {} THEN c[k]
         ELSE results[CHOOSE i \in writers : \A j \in writers : j <= i][k]]

NoBranch == [queue |-> <<>>, done |-> {}, inDegree |-> [n \in Node |-> 0],
             context |-> [k \in Key |-> None], last |-> None]
NoFork == [on |-> FALSE, node |-> None, branches |-> <<>>, index |-> 0, results |-> <<>>]

Return(verdict) == outcome' = verdict /\ pc' = "done"
Ran(n) == runs' = [runs EXCEPT ![n] = @ + 1]

\* The engine builds the DAG before execute() does it again: without an entry point the roots
\* are there twice.  prepare_dag_state puts the entry point in their place or gives up.
Seeded(roots) ==
  IF graph.entry = None THEN roots \o roots
  ELSE IF graph.entry \in Registered(graph.order) THEN <<graph.entry>> \o roots ELSE <<>>

Init ==
  /\ graph \in Graphs
  /\ allNodes = graph.order
  /\ BuildOk(graph.order)
  /\ inDegree = BuiltInDegree(allNodes)
  /\ readyQueue = Seeded(Roots(allNodes, inDegree))
  /\ executed = {}
  /\ fork = NoFork
  /\ branch = NoBranch
  /\ context = [k \in Key |-> None]
  /\ snapshots = [n \in {} |-> context]
  /\ pendingYield = FALSE
  /\ dynamic = [present |-> FALSE, nodes |-> <<>>]
  /\ IF graph.entry \in Registered(graph.order) \cup {None}
     THEN pc = "loop" /\ outcome = "running"
     ELSE pc = "done" /\ outcome = "no_entry"
  /\ resumes = 0
  /\ runs = [n \in Node |-> 0]

-----------------------------------------------------------------------------
(* The main loop (run_main_loop).  While branches of the fork are left it  *)
(* runs them; otherwise it looks at the head of the queue.                 *)

BranchesLeft == fork.on /\ fork.index < Len(fork.branches)
Dispatching == pc = "loop" /\ ~BranchesLeft /\ readyQueue # <<>>
Rest == Tail(readyQueue)

\* dispatch_ready_nodes pops a path that no node has.
UnknownNode ==
  /\ Dispatching
  /\ Head(readyQueue) \notin Registered(allNodes)
  /\ readyQueue' = Rest
  /\ Return("unknown_node")
  /\ UNCHANGED <<graph, allNodes, inDegree, executed, fork, branch, sessVars, resumes, runs>>

SkipExecuted ==
  /\ Dispatching
  /\ Head(readyQueue) \in executed
  /\ readyQueue' = Rest
  /\ UNCHANGED <<graph, allNodes, inDegree, executed, fork, branch, sessVars, pc, outcome,
                 resumes, runs>>

\* Mutant of AtHead: duplicates in the queue are not told from first entries.
AtHeadAgain(n) == Dispatching /\ n = Head(readyQueue) /\ n \in Registered(allNodes)

AtHead(n) ==
  /\ Dispatching
  /\ n = Head(readyQueue)
  /\ n \in Registered(allNodes) \ executed

\* Mutant of Waiting: dependencies that were met stay pending.
WaitingOn(n) == graph.dynWait[n] # {}

\* resolve_dynamic_waits: an unmet dependency sends the node to the back of the queue.
Waiting(n) == \E d \in graph.dynWait[n] : d \notin executed

Requeue(n) ==
  /\ AtHead(n) /\ Waiting(n)
  /\ readyQueue' = Append(Rest, n)
  /\ UNCHANGED <<graph, allNodes, inDegree, executed, fork, branch, sessVars, pc, outcome,
                 resumes, runs>>

\* The template of a dynamic wait_for does not render or parse.
BadWait(n) ==
  /\ AtHead(n) /\ graph.dynWait[n] # {}
  /\ readyQueue' = Rest
  /\ Return("bad_wait")
  /\ UNCHANGED <<graph, allNodes, inDegree, executed, fork, branch, sessVars, resumes, runs>>

Dispatched(n, types) == AtHead(n) /\ ~Waiting(n) /\ graph.type[n] \in types

\* executed_.insert and update_successors, over the queue q the node was taken from.
Completes(n, q) ==
  LET out == EdgesFrom(Edges(allNodes), n)
  IN  /\ executed' = executed \cup {n}
      /\ inDegree' = Lowered(inDegree, out)
      /\ readyQueue' = q \o Targets(Releasing(inDegree, out))

\* handle_fork_node: the snapshot is taken, the branches run from the next iteration on.
RunFork(n) ==
  /\ Dispatched(n, {"fork"})
  /\ Ran(n)
  /\ snapshots' = Saved(snapshots, n, context)
  /\ fork' = [on |-> TRUE, node |-> n, branches |-> graph.branches[n],
              index |-> 0, results |-> <<>>]
  /\ Completes(n, Rest)
  /\ UNCHANGED <<graph, allNodes, branch, context, pendingYield, dynamic, pc, outcome, resumes>>

\* What process_fork_join throws: a result is missing, the merge conflicts, or
\* finish_fork_simulation reads the path of a fork that is not there.
JoinError(n) ==
  IF Len(fork.results) # Len(fork.branches) THEN "join_incomplete"
  ELSE IF graph.strategy[n] = "error_on_conflict" /\ Conflict(fork.results, context)
       THEN "join_conflict"
       ELSE IF fork.node = None THEN "join_without_fork" ELSE "none"

RunJoin(n) ==
  /\ Dispatched(n, {"join"})
  /\ JoinError(n) = "none"
  /\ Ran(n)
  /\ context' = Merged(fork.results, context)
  /\ fork' = NoFork
  /\ Completes(n, Rest)
  /\ UNCHANGED <<graph, allNodes, branch, snapshots, pendingYield, dynamic, pc, outcome, resumes>>

JoinThrows(n) ==
  /\ Dispatched(n, {"join"})
  /\ JoinError(n) # "none"
  /\ Ran(n)
  /\ readyQueue' = Rest
  /\ Return(JoinError(n))
  /\ UNCHANGED <<graph, allNodes, inDegree, executed, fork, branch, sessVars, resumes>>

-----------------------------------------------------------------------------
(* Ordinary nodes of the main loop: ExecutionSession::execute_node fails   *)
(* (an exception in the node, or its budget refused) or succeeds.          *)

Handed(n) == Dispatched(n, {"plain", "dsl", "gen", "assert", "yield", "end"}) /\ Ran(n)

NodeFails(n) ==
  /\ Handed(n)
  /\ readyQueue' = Rest
  /\ snapshots' = SnapshotIfNeeded(snapshots, n, context)
  /\ Return("node_failed")
  /\ UNCHANGED <<graph, allNodes, inDegree, executed, fork, branch, context, pendingYield,
                 dynamic, resumes>>

\* Mutant of JumpTarget: the colon is searched past the end and nothing is left.
JumpTargetLost(path) == None

\* The message is "... Jumping to: " + on_failure and process_jump keeps what follows
\* the colon, the blank included: no node is registered under that path.
JumpTarget(path) == BadPath

AssertJumps(n) ==
  /\ Handed(n) /\ graph.type[n] = "assert" /\ graph.onFailure[n] # None
  /\ readyQueue' = <<JumpTarget(graph.onFailure[n])>>
  /\ snapshots' = SnapshotIfNeeded(snapshots, n, context)
  /\ UNCHANGED <<graph, allNodes, inDegree, executed, fork, branch, context, pendingYield,
                 dynamic, pc, outcome, resumes>>

\* What a successful execute_node does to the session, in the main loop or in a branch.
\* A YIELD without a provider or a stream goes through as if it were not there.
Appended(n) ==
  dynamic' = IF graph.type[n] = "gen" /\ graph.subgraph[n] # <<>>
             THEN [present |-> TRUE, nodes |-> dynamic.nodes \o graph.subgraph[n]]
             ELSE dynamic
Yielding(n) == IF graph.type[n] = "yield" THEN BOOLEAN ELSE {FALSE}

\* A pending yield, be it of this node or of an earlier one in a branch, requeues n.
NodeYields(n) ==
  /\ Handed(n)
  /\ \E y \in Yielding(n) : pendingYield \/ y
  /\ pendingYield' = TRUE
  /\ context' = Wrote(context, n)
  /\ snapshots' = SnapshotIfNeeded(snapshots, n, context)
  /\ Appended(n)
  /\ readyQueue' = Append(Rest, n)
  /\ pc' = "yielded" /\ outcome' = "yielded"
  /\ UNCHANGED <<graph, allNodes, inDegree, executed, fork, branch, resumes>>

PausesAt(n) == graph.type[n] = "dsl" /\ ~graph.autonomous

\* A paused LLM call is executed; its successors are not told.
NodePauses(n) ==
  /\ Handed(n) /\ ~pendingYield /\ PausesAt(n)
  /\ executed' = executed \cup {n}
  /\ readyQueue' = Rest
  /\ context' = Wrote(context, n)
  /\ Return("paused")
  /\ UNCHANGED <<graph, allNodes, inDegree, fork, branch, snapshots, pendingYield, dynamic,
                 resumes>>

NodeCompletes(n) ==
  /\ Handed(n) /\ ~pendingYield /\ FALSE \in Yielding(n) /\ ~PausesAt(n)
  /\ context' = Wrote(context, n)
  /\ snapshots' = SnapshotIfNeeded(snapshots, n, context)
  /\ Appended(n)
  /\ Completes(n, Rest)
  /\ pc' = IF graph.type[n] = "end" /\ graph.hard[n] /\ ~fork.on THEN "finalize"
           ELSE IF dynamic'.present THEN "rebuild" ELSE "loop"
  /\ UNCHANGED <<graph, allNodes, fork, branch, pendingYield, outcome, resumes>>

\* rebuild_dynamic_graph: dynamic_graphs_ is moved from and never emptied, so every later
\* ordinary node rebuilds the in-degrees and seeds the roots once more.
Rebuild ==
  LET order == allNodes \o dynamic.nodes
  IN  /\ pc = "rebuild"
      /\ dynamic' = [present |-> dynamic.present, nodes |-> <<>>]
      /\ allNodes' = order
      /\ inDegree' = BuiltInDegree(order)
      /\ IF BuildOk(order)
         THEN /\ readyQueue' = readyQueue \o Roots(order, inDegree')
              /\ pc' = "loop" /\ UNCHANGED outcome
         ELSE Return("bad_subgraph") /\ UNCHANGED readyQueue
      /\ UNCHANGED <<graph, executed, fork, branch, context, snapshots, pendingYield, resumes,
                     runs>>

\* resume_yield restores what the yield saved, merges the caller's context and goes on.
Resume ==
  /\ pc = "yielded" /\ resumes < MaxResumes
  /\ resumes' = resumes + 1
  /\ pendingYield' = FALSE
  /\ \E given \in SUBSET Key : context' = [k \in Key |-> IF k \in given THEN Caller ELSE context[k]]
  /\ pc' = "loop" /\ outcome' = "running"
  /\ UNCHANGED <<graph, dagVars, fork, branch, snapshots, dynamic, runs>>

\* finalize_execution, after the queue ran dry or a hard END broke the loop.
\* Only the duration limit of the budget can be exceeded here.
Finalize ==
  /\ \/ pc = "finalize"
     \/ pc = "loop" /\ ~BranchesLeft /\ readyQueue = <<>>
  /\ \/ Return("over_time")
     \/ Return(IF Registered(allNodes) \subseteq executed THEN "completed" ELSE "unmet")
  /\ UNCHANGED <<graph, dagVars, fork, branch, sessVars, resumes, runs>>

-----------------------------------------------------------------------------
(* The branches (execute_fork_branches, execute_single_branch).            *)

SnapshotMissing ==
  /\ pc = "loop" /\ BranchesLeft /\ fork.node \notin DOMAIN snapshots
  /\ Return("no_snapshot")
  /\ UNCHANGED <<graph, dagVars, fork, branch, sessVars, resumes, runs>>

\* Mutant of BranchContext: a branch goes on from where the one before it stopped.
BranchContextShared ==
  IF fork.results = <<>> THEN snapshots[fork.node] ELSE fork.results[Len(fork.results)]

\* Every branch starts from a copy of the fork's snapshot.
BranchContext == snapshots[fork.node]

BranchToRun == fork.branches[fork.index + 1]

StartBranch ==
  /\ pc = "loop" /\ BranchesLeft /\ fork.node \in DOMAIN snapshots
  /\ branch' = [queue |-> <<BranchToRun>>, done |-> {},
                inDegree |-> inDegree, context |-> BranchContext, last |-> None]
  /\ pc' = "branch"
  /\ UNCHANGED <<graph, dagVars, fork, sessVars, outcome, resumes, runs>>

InBranch(n) == pc = "branch" /\ branch.queue # <<>> /\ n = Head(branch.queue)

\* The branch's own executed set never stops a node: a node is queued when its in-degree
\* gets to 0, and that of the first node stays above it by the edge of the fork.
HandedInBranch(n) == InBranch(n) /\ n \notin branch.done /\ Ran(n)

\* A node that fails, and any FORK or JOIN a branch leads to, throws out of execute().
BranchFails(n) ==
  /\ HandedInBranch(n)
  /\ snapshots' = IF graph.type[n] = "fork" THEN Saved(snapshots, n, branch.context)
                  ELSE SnapshotIfNeeded(snapshots, n, branch.context)
  /\ Return(IF graph.type[n] \in {"fork", "join"} THEN "routing_bug" ELSE "branch_failed")
  /\ UNCHANGED <<graph, dagVars, fork, branch, context, pendingYield, dynamic, resumes>>

BranchRuns(n) ==
  /\ HandedInBranch(n) /\ graph.type[n] \notin {"fork", "join"}
  /\ snapshots' = SnapshotIfNeeded(snapshots, n, branch.context)
  /\ Appended(n)
  /\ \E y \in Yielding(n) : pendingYield' = (pendingYield \/ y)
  /\ LET out == {e \in EdgesFrom(Edges(allNodes), n) : e[2] = 0}
     IN  branch' = [queue    |-> IF graph.type[n] = "end" THEN <<>>
                                 ELSE Tail(branch.queue) \o Targets(Releasing(branch.inDegree, out)),
                    done     |-> branch.done \cup {n},
                    inDegree |-> Lowered(branch.inDegree, out),
                    context  |-> Wrote(branch.context, n),
                    last     |-> n]
  /\ IF graph.type[n] = "end" /\ graph.hard[n] THEN Return("hard_end")
     ELSE UNCHANGED <<pc, outcome>>
  /\ UNCHANGED <<graph, dagVars, fork, context, resumes>>

\* The last node of the branch, and it alone, is reported to the main loop.
BranchDone ==
  /\ pc = "branch" /\ branch.queue = <<>>
  /\ Completes(branch.last, readyQueue)
  /\ fork' = [on |-> fork.on, node |-> fork.node, branches |-> fork.branches,
              index |-> fork.index + 1, results |-> Append(fork.results, branch.context)]
  /\ branch' = NoBranch
  /\ pc' = "loop"
  /\ UNCHANGED <<graph, allNodes, sessVars, outcome, resumes, runs>>

-----------------------------------------------------------------------------
Step(n) ==
  \/ Requeue(n) \/ BadWait(n) \/ RunFork(n) \/ RunJoin(n) \/ JoinThrows(n)
  \/ NodeFails(n) \/ AssertJumps(n) \/ NodeYields(n) \/ NodePauses(n) \/ NodeCompletes(n)
  \/ BranchFails(n) \/ BranchRuns(n)

Loop == UnknownNode \/ SkipExecuted \/ Rebuild \/ Finalize
        \/ SnapshotMissing \/ StartBranch \/ BranchDone

Next == Loop \/ Resume \/ \E n \in Node : Step(n)

Spec == Init /\ [][Next]_vars

\* execute() runs on its caller's thread: the loop goes on as long as it can.
\* Nothing makes the caller resume a yield, and nothing makes a template fail.
Progress == (Loop \/ \E n \in Node : Step(n)) /\ outcome' # "bad_wait"
FairSpec == Spec /\ WF_vars(Progress)

-----------------------------------------------------------------------------
(* Properties.                                                             *)

TypeOK ==
  /\ graph \in Graph
  /\ allNodes \in Seq(Node)
  /\ inDegree \in [Node -> Int]
  /\ readyQueue \in Seq(Node \cup {BadPath})
  /\ executed \subseteq Node
  /\ fork \in [on : BOOLEAN, node : Node \cup {None}, branches : Seq(Node),
               index : Nat, results : Seq(Context)]
  /\ branch \in [queue : Seq(Node), done : SUBSET Node, inDegree : [Node -> Int],
                 context : Context, last : Node \cup {None}]
  /\ context \in Context
  /\ DOMAIN snapshots \subseteq Node
  /\ \A n \in DOMAIN snapshots : snapshots[n] \in Context
  /\ pendingYield \in BOOLEAN
  /\ dynamic \in [present : BOOLEAN, nodes : Seq(Node)]
  /\ pc \in {"loop", "branch", "rebuild", "finalize", "yielded", "done"}
  /\ outcome \in {"running", "yielded", "paused", "completed", "unmet", "over_time", "no_entry",
                  "unknown_node", "bad_wait", "node_failed", "join_incomplete",
                  "join_conflict", "join_without_fork", "bad_subgraph", "no_snapshot",
                  "branch_failed", "routing_bug", "hard_end"}
  /\ resumes \in Nat
  /\ runs \in [Node -> Nat]

BranchRoots ==
  UNION {{graph.branches[m][i] : i \in DOMAIN graph.branches[m]} :
            m \in {f \in Node : graph.type[f] = "fork"}}

Predecessors(n) == {e[1] : e \in EdgesTo(Edges(allNodes), n)}

(* The programs whose nodes have one way to run: a branch starts at a node *)
(* of its own, where no other branch starts; nothing leads to the entry    *)
(* point, which starts no branch; and a generated subgraph leads only to   *)
(* nodes that come with it.  Of the others TLC has examples in which a     *)
(* node runs twice.                                                        *)
BranchesApart ==
  \A f \in Node : graph.type[f] = "fork" =>
    /\ \A i, j \in DOMAIN graph.branches[f] : graph.branches[f][i] = graph.branches[f][j] => i = j
    /\ \A g \in Node : graph.type[g] = "fork" /\ g # f =>
         Registered(graph.branches[f]) \cap Registered(graph.branches[g]) = {}
EntryApart ==
  graph.entry # None =>
    /\ graph.entry \notin BranchRoots /\ graph.waitFor[graph.entry] = <<>>
    /\ \A m \in Node : graph.entry \notin Registered(graph.next[m])
LeadsTo(n) ==
  Registered(graph.next[n])
  \cup (IF graph.type[n] = "fork" THEN Registered(graph.branches[n]) ELSE {})
GrowthApart ==
  \A m \in Node : graph.type[m] = "gen" =>
    \A x \in Registered(graph.subgraph[m]) \ Registered(graph.order) : \A y \in LeadsTo(x) :
      /\ y \notin Registered(graph.order)
      /\ \A n \in Node : graph.type[n] = "gen" /\ y \in Registered(graph.subgraph[n]) =>
                           x \in Registered(graph.subgraph[n])
Proper == BranchesApart /\ EntryApart /\ GrowthApart

(* A node runs at most once, and once more for each time a yield was       *)
(* resumed: the queue holds duplicates (build_dag seeds twice, a rebuild   *)
(* seeds again), branches keep their own executed set, and only executed_  *)
(* keeps one node from running from two places.                            *)
RunsOnce == \A n \in Node : runs[n] <= 1 + resumes

(* No node runs before every node with a next edge to it, or in its        *)
(* wait_for list, has run; the entry point and the first node of a fork    *)
(* branch are started without looking at their in-degree.                  *)
DependenciesFirst ==
  [][\A n \in Node : runs'[n] > runs[n] /\ n \notin BranchRoots \cup {graph.entry} =>
        \A m \in Predecessors(n) : runs[m] > 0]_vars

(* Execution stops with "Unmet dependencies or cycles" only when it is     *)
(* stuck: unless an END cut it short, every node it leaves behind, other   *)
(* than the first node of a branch, waits for a node it leaves behind too. *)
LeftBehind == Registered(allNodes) \ (executed \cup BranchRoots)
Stuck == \A n \in LeftBehind : \E m \in Predecessors(n) : m \notin executed
UnmetIsStuck ==
  outcome = "unmet" /\ readyQueue = <<>> /\ ~dynamic.present => Stuck

(* The same of every run: a subgraph added while the program runs does not *)
(* make nodes unreachable whose predecessors have all been executed.       *)
GrowthKeepsOrder == outcome = "unmet" /\ readyQueue = <<>> => Stuck

(* What a branch saw and wrote stays in that branch until the join: a      *)
(* value in the result of branch i was there when the fork took its        *)
(* snapshot or is not the first node of another branch's.                  *)
BranchIsolation ==
  \A i \in DOMAIN fork.results : \A k \in Key : \A h \in DOMAIN fork.branches :
     h # i /\ fork.branches[h] # fork.branches[i] =>
       \/ fork.results[i][k] # fork.branches[h]
       \/ fork.results[i][k] = snapshots[fork.node][k]

(* A join merges the results of all the branches of the last fork, one     *)
(* each, in the order the fork lists them: a branch's result holds the     *)
(* writes of its first node.  And where its strategy is error_on_conflict  *)
(* it loses no write: what a branch ends with and what the main loop has   *)
(* both survive the merge.                                                 *)
Joined == fork.on /\ fork'.on = FALSE
JoinLosesNothing ==
  [][Joined =>
       /\ Len(fork.results) = Len(fork.branches)
       /\ \A i \in DOMAIN fork.branches :
            /\ runs[fork.branches[i]] > 0
            /\ \A k \in graph.writes[fork.branches[i]] : fork.results[i][k] # None
       /\ \A n \in Node : runs'[n] > runs[n] /\ graph.strategy[n] = "error_on_conflict" =>
            \A k \in Key : Versions(k, fork.results, context) \subseteq {context'[k]}]_vars

(* last_write_wins: a key some node wrote after the fork does not get back *)
(* the value it had when the fork took its snapshot.                       *)
JoinNeverReverts ==
  [][Joined /\ fork.branches # <<>> =>
       LET before == snapshots[fork.node] IN
       \A k \in Key : (Versions(k, fork.results, context) \ {before[k]}) # {} =>
                         context'[k] # before[k]]_vars

(* execute() comes back to its caller: it returns, throws or yields, and   *)
(* it does so again after each resume.  Nodes that wait for a path nothing *)
(* will ever execute are the exception, and no graph of the run has one.   *)
Returns == []<>(pc \in {"done", "yielded"})
=============================================================================

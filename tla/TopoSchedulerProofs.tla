------------------------ MODULE TopoSchedulerProofs ------------------------
(***************************************************************************)
(* Theorems about TopoScheduler, for every set of program graphs.          *)
(***************************************************************************)
EXTENDS TopoScheduler, FiniteSetTheorems, SequenceTheorems, TLAPS

-----------------------------------------------------------------------------
(* Sets of edges and the order in which they are walked.                   *)

EdgeType == Node \X Nat \X Nat \X Node

\* A finite set of edges no two of which have the same place.
Linear(S) ==
  /\ S \subseteq EdgeType
  /\ IsFiniteSet(S)
  /\ \A e, f \in S : e[2] = f[2] /\ e[3] = f[3] => e = f

Rank(S, e) == Cardinality({f \in S : NotAfter(f, e)})

\* The edges of a set are numbered 1, 2, 3, ... by their rank.
LEMMA RankRange ==
  ASSUME NEW S, Linear(S), NEW e \in S
  PROVE  Rank(S, e) \in 1..Cardinality(S)
<1> DEFINE T == {f \in S : NotAfter(f, e)}
<1>1. T \subseteq S /\ e \in T
  BY DEF NotAfter, Linear, EdgeType
<1>2. IsFiniteSet(T) /\ Cardinality(T) <= Cardinality(S)
  BY <1>1, FS_Subset DEF Linear
<1>3. Cardinality(T) # 0
  BY <1>1, <1>2, FS_EmptySet
<1> QED
  BY <1>2, <1>3, FS_CardinalityType DEF Rank, Linear

LEMMA RankInjective ==
  ASSUME NEW S, Linear(S), NEW e \in S, NEW f \in S, e # f
  PROVE  Rank(S, e) # Rank(S, f)
<1> SUFFICES ASSUME NEW g \in S, NEW h \in S, g # h, NotAfter(g, h)
             PROVE  Rank(S, g) < Rank(S, h)
  <2>1. e[2] \in Nat /\ e[3] \in Nat /\ f[2] \in Nat /\ f[3] \in Nat
    BY DEF Linear, EdgeType
  <2>2. NotAfter(e, f) \/ NotAfter(f, e)
    BY <2>1 DEF NotAfter
  <2>3. Rank(S, e) \in Nat /\ Rank(S, f) \in Nat
    BY RankRange, FS_CardinalityType DEF Linear
  <2> QED
    BY <2>2, <2>3
<1> DEFINE G == {x \in S : NotAfter(x, g)}
           H == {x \in S : NotAfter(x, h)}
<1>1. \A x \in S : x[2] \in Nat /\ x[3] \in Nat
  BY DEF Linear, EdgeType
<1>2. G \subseteq H
  BY <1>1 DEF NotAfter
<1>3. h \in H /\ h \notin G
  BY <1>1 DEF NotAfter, Linear
<1>4. IsFiniteSet(H)
  BY FS_Subset DEF Linear
<1>5. Cardinality(G) <= Cardinality(H) /\ Cardinality(G) # Cardinality(H)
  BY <1>2, <1>3, <1>4, FS_Subset
<1>6. Cardinality(G) \in Nat /\ Cardinality(H) \in Nat
  BY <1>2, <1>4, FS_Subset, FS_CardinalityType
<1> QED
  BY <1>5, <1>6 DEF Rank

LEMMA RankOnto ==
  ASSUME NEW S, Linear(S), NEW k \in 1..Cardinality(S)
  PROVE  \E e \in S : Rank(S, e) = k
<1> DEFINE n == Cardinality(S)
           r == [e \in S |-> Rank(S, e)]
<1>1. IsFiniteSet(S) /\ n \in Nat
  BY FS_CardinalityType DEF Linear
<1>2. r \in [S -> 1..n]
  BY RankRange
<1>3. r \in Injection(S, 1..n)
  BY <1>2, RankInjective DEF Injection, IsInjective
<1>4. IsFiniteSet(1..n) /\ Cardinality(1..n) = n
  BY <1>1, FS_Interval
<1>5. r \in Surjection(S, 1..n)
  BY <1>3, <1>4, FS_Injection
<1> QED
  BY <1>5 DEF Surjection

\* Targets lists the target of every edge.
LEMMA TargetsType ==
  ASSUME NEW S, Linear(S)
  PROVE  Targets(S) \in Seq(Node) /\ Len(Targets(S)) = Cardinality(S)
<1> DEFINE n == Cardinality(S)
<1>1. n \in Nat
  BY FS_CardinalityType DEF Linear
<1>2. ASSUME NEW k \in 1..n
      PROVE  (CHOOSE e \in S : Rank(S, e) = k)[4] \in Node
  <2>1. (CHOOSE e \in S : Rank(S, e) = k) \in S
    BY RankOnto
  <2> QED
    BY <2>1 DEF Linear, EdgeType
<1>3. Targets(S) \in [1..n -> Node]
  BY <1>2 DEF Targets, Rank
<1> QED
  BY <1>1, <1>3

LEMMA TargetsOnto ==
  ASSUME NEW S, Linear(S), NEW e \in S
  PROVE  \E k \in 1..Len(Targets(S)) : Targets(S)[k] = e[4]
<1> DEFINE k == Rank(S, e)
<1>1. k \in 1..Cardinality(S)
  BY RankRange
<1>2. (CHOOSE f \in S : Rank(S, f) = k) = e
  BY RankInjective
<1>3. Targets(S)[k] = e[4]
  BY <1>1, <1>2 DEF Targets, Rank
<1> QED
  BY <1>1, <1>3, TargetsType

-----------------------------------------------------------------------------
(* The edges of a graph.                                                   *)

LEMMA GraphTypes ==
  ASSUME graph \in Graph
  PROVE  /\ graph.order \in Seq(Node)
         /\ graph.entry \in Node \cup {None}
         /\ graph.next \in [Node -> Seq(Node)]
         /\ graph.waitFor \in [Node -> Seq(Node)]
         /\ graph.branches \in [Node -> Seq(Node)]
         /\ graph.subgraph \in [Node -> Seq(Node)]
BY DEF Graph

LEMMA SeqPlaces ==
  ASSUME NEW S, NEW s \in Seq(S), NEW i \in DOMAIN s
  PROVE  i \in Nat \ {0} /\ i <= Len(s) /\ s[i] \in S
BY LenProperties, ElementOfSeq

LEMMA PlacesOfSeq ==
  ASSUME NEW S, NEW s \in Seq(S)
  PROVE  IsFiniteSet(DOMAIN s)
<1>1. DOMAIN s = 1..Len(s) /\ Len(s) \in Nat
  BY LenProperties
<1>2. IsFiniteSet(1..Len(s))
  BY <1>1, FS_Interval
<1> QED
  BY <1>1, <1>2

\* The union of finitely many finite sets, one for each place of a sequence.
LEMMA UnionOverPlaces ==
  ASSUME NEW F, NEW P, IsFiniteSet(P), F = [p \in P |-> F[p]],
         \A p \in P : IsFiniteSet(F[p])
  PROVE  IsFiniteSet(UNION {F[p] : p \in P})
<1> DEFINE T == {F[p] : p \in P}
<1>1. F \in Surjection(P, T)
  BY DEF Surjection
<1>2. IsFiniteSet(T)
  BY <1>1, FS_Surjection
<1> QED
  BY <1>2, FS_UNION

\* One place of a sequence of targets, and what is said of it.
LEMMA PlacesFinite ==
  ASSUME NEW s \in Seq(Node), NEW f, f = [i \in DOMAIN s |-> f[i]]
  PROVE  IsFiniteSet({f[i] : i \in DOMAIN s})
<1>1. IsFiniteSet(DOMAIN s)
  BY PlacesOfSeq
<1>2. f \in Surjection(DOMAIN s, {f[i] : i \in DOMAIN s})
  BY DEF Surjection
<1> QED
  BY <1>1, <1>2, FS_Surjection

LEMMA EdgesType ==
  ASSUME graph \in Graph, NEW order \in Seq(Node)
  PROVE  Edges(order) \subseteq EdgeType
<1>1. \A p \in DOMAIN order : p \in Nat /\ order[p] \in Node
  BY LenProperties, ElementOfSeq
<1>2. \A m \in Node : /\ \A i \in DOMAIN graph.next[m] :
                            i \in Nat /\ graph.next[m][i] \in Node
                      /\ \A i \in DOMAIN graph.waitFor[m] :
                            i \in Nat /\ graph.waitFor[m][i] \in Node
  <2> TAKE m \in Node
  <2>1. graph.next[m] \in Seq(Node) /\ graph.waitFor[m] \in Seq(Node)
    BY GraphTypes
  <2> QED
    BY <2>1, SeqPlaces
<1> QED
  BY <1>1, <1>2 DEF Edges, NextEdges, WaitEdges, EdgeType

LEMMA EdgesFinite ==
  ASSUME graph \in Graph, NEW order \in Seq(Node)
  PROVE  IsFiniteSet(Edges(order))
<1> DEFINE NextOf(p, i) == <<order[p], 0, i, graph.next[order[p]][i]>>
           WaitOf(p, i) == <<graph.waitFor[order[p]][i], p, i, order[p]>>
           N == [p \in DOMAIN order |-> {NextOf(p, i) : i \in DOMAIN graph.next[order[p]]}]
           W == [p \in DOMAIN order |-> {WaitOf(p, i) : i \in DOMAIN graph.waitFor[order[p]]}]
<1>1. IsFiniteSet(DOMAIN order)
  BY PlacesOfSeq
<1>2. ASSUME NEW p \in DOMAIN order
      PROVE  IsFiniteSet(N[p]) /\ IsFiniteSet(W[p])
  <2>1. graph.next[order[p]] \in Seq(Node) /\ graph.waitFor[order[p]] \in Seq(Node)
    BY GraphTypes, ElementOfSeq, LenProperties
  <2>2. IsFiniteSet({[h \in DOMAIN graph.next[order[p]] |-> NextOf(p, h)][i] :
                        i \in DOMAIN graph.next[order[p]]})
    BY <2>1, PlacesFinite
  <2>3. IsFiniteSet({[h \in DOMAIN graph.waitFor[order[p]] |-> WaitOf(p, h)][i] :
                        i \in DOMAIN graph.waitFor[order[p]]})
    BY <2>1, PlacesFinite
  <2> QED
    BY <2>2, <2>3
<1>3. IsFiniteSet(UNION {N[p] : p \in DOMAIN order}) /\ IsFiniteSet(UNION {W[p] : p \in DOMAIN order})
  BY <1>1, <1>2, UnionOverPlaces
<1>4. {N[p] : p \in DOMAIN order} = {{NextOf(p, i) : i \in DOMAIN graph.next[order[p]]} :
                                       p \in DOMAIN order}
  OBVIOUS
<1>5. {W[p] : p \in DOMAIN order} = {{WaitOf(p, i) : i \in DOMAIN graph.waitFor[order[p]]} :
                                       p \in DOMAIN order}
  OBVIOUS
<1>6. IsFiniteSet(NextEdges(order)) /\ IsFiniteSet(WaitEdges(order))
  BY <1>3, <1>4, <1>5 DEF NextEdges, WaitEdges
<1> QED
  BY <1>6, FS_Union DEF Edges

LEMMA ForkEdgesFinite ==
  ASSUME graph \in Graph, NEW order \in Seq(Node)
  PROVE  IsFiniteSet(ForkEdges(order))
<1> DEFINE P == {q \in DOMAIN order : graph.type[order[q]] = "fork"}
           Branch(p, i) == <<p, i, graph.branches[order[p]][i]>>
           F == [p \in P |-> {Branch(p, i) : i \in DOMAIN graph.branches[order[p]]}]
<1>1. IsFiniteSet(P)
  <2>1. IsFiniteSet(DOMAIN order)
    BY PlacesOfSeq
  <2> QED
    BY <2>1, FS_Subset
<1>2. ASSUME NEW p \in P
      PROVE  IsFiniteSet(F[p])
  <2>1. graph.branches[order[p]] \in Seq(Node)
    BY GraphTypes, ElementOfSeq, LenProperties
  <2>2. IsFiniteSet({[h \in DOMAIN graph.branches[order[p]] |-> Branch(p, h)][i] :
                        i \in DOMAIN graph.branches[order[p]]})
    BY <2>1, PlacesFinite
  <2> QED
    BY <2>2
<1>3. IsFiniteSet(UNION {F[p] : p \in P})
  BY <1>1, <1>2, UnionOverPlaces
<1>4. {F[p] : p \in P} = {{Branch(p, i) : i \in DOMAIN graph.branches[order[p]]} : p \in P}
  OBVIOUS
<1> QED
  BY <1>3, <1>4 DEF ForkEdges

\* The edges that leave one node have different places.
LEMMA LeavingLinear ==
  ASSUME graph \in Graph, NEW order \in Seq(Node), NEW m,
         NEW S \in SUBSET EdgesFrom(Edges(order), m)
  PROVE  Linear(S)
<1>1. S \subseteq EdgeType /\ IsFiniteSet(S)
  BY EdgesType, EdgesFinite, FS_Subset DEF EdgesFrom
<1>2. \A p \in DOMAIN order : p \in Nat \ {0}
  BY LenProperties
<1>3. ASSUME NEW e \in S
      PROVE  \/ e = <<m, 0, e[3], graph.next[m][e[3]]>>
             \/ e[2] # 0 /\ e = <<m, e[2], e[3], order[e[2]]>>
  BY <1>2 DEF Edges, NextEdges, WaitEdges, EdgesFrom
<1>4. ASSUME NEW e \in S, NEW f \in S, e[2] = f[2], e[3] = f[3]
      PROVE  e = f
  BY <1>3, <1>4
<1> QED
  BY <1>1, <1>4 DEF Linear

\* A set of places of a sequence that is not empty has a last one.
LEMMA LastPlace ==
  ASSUME NEW n \in Nat, NEW W \in SUBSET (1..n), W # {}
  PROVE  \E i \in W : \A j \in W : j <= i
<1> DEFINE T == {n - i : i \in W}
           Below == {ss \in Nat \X Nat : ss[1] < ss[2]}
<1>1. T \subseteq Nat /\ T # {}
  <2>1. \A i \in W : n - i \in Nat /\ n - i \in T
    OBVIOUS
  <2> QED
    BY <2>1
<1>2. OpToRel(<, Nat) = Below
  BY Zenon DEF OpToRel
<1>3. IsWellFoundedOn(Below, Nat)
  BY <1>2, NatLessThanWellFounded, Zenon
<1> HIDE DEF T
<1>4. PICK x \in T : \A y \in T : ~(<<y, x>> \in Below)
  BY <1>1, <1>3, WFMin, Zenon
<1>5. ASSUME NEW y \in T
      PROVE  x <= y
  <2>1. x \in Nat /\ y \in Nat
    BY <1>1
  <2>2. ~(<<y, x>> \in Below)
    BY <1>4
  <2> QED
    BY <2>1, <2>2
<1>6. PICK i \in W : x = n - i
  BY DEF T
<1>7. \A j \in W : n - i <= n - j
  BY <1>5, <1>6 DEF T
<1> QED
  BY <1>7

-----------------------------------------------------------------------------
(* The operators of the model have the types the invariant claims.         *)

LEMMA CardinalityInt ==
  ASSUME NEW S, IsFiniteSet(S)
  PROVE  Cardinality(S) \in Int
BY FS_CardinalityType

LEMMA BuiltInDegreeType ==
  ASSUME graph \in Graph, NEW order \in Seq(Node)
  PROVE  BuiltInDegree(order) \in [Node -> Int]
<1> SUFFICES ASSUME NEW n \in Node
             PROVE  /\ IsFiniteSet(EdgesTo(Edges(order), n))
                    /\ IsFiniteSet(ForkEdgesTo(order, n))
  BY CardinalityInt DEF BuiltInDegree
<1> QED
  BY EdgesFinite, ForkEdgesFinite, FS_Subset DEF EdgesTo, ForkEdgesTo

\* The nodes a rebuild seeds, as edges.
LEMMA RootsLinear ==
  ASSUME NEW order \in Seq(Node), NEW deg
  PROVE  Linear({<<order[p], 0, p, order[p]>> : p \in {r \in DOMAIN order : deg[order[r]] = 0}})
<1> DEFINE P == {r \in DOMAIN order : deg[order[r]] = 0}
           R == {<<order[p], 0, p, order[p]>> : p \in P}
<1>1. IsFiniteSet(DOMAIN order)
  BY PlacesOfSeq
<1>2. IsFiniteSet(P)
  BY <1>1, FS_Subset
<1>3. [p \in P |-> <<order[p], 0, p, order[p]>>] \in Surjection(P, R)
  BY DEF Surjection
<1>4. IsFiniteSet(R)
  BY <1>2, <1>3, FS_Surjection
<1> QED
  BY <1>4, SeqPlaces DEF Linear, EdgeType

LEMMA RootsType ==
  ASSUME NEW order \in Seq(Node), NEW deg
  PROVE  Roots(order, deg) \in Seq(Node)
BY RootsLinear, TargetsType DEF Roots

\* What one node's edges do to the in-degrees and to the queue.
LEMMA LoweredType ==
  ASSUME graph \in Graph, NEW order \in Seq(Node), NEW m, NEW deg \in [Node -> Int],
         NEW out \in SUBSET EdgesFrom(Edges(order), m)
  PROVE  /\ Lowered(deg, out) \in [Node -> Int]
         /\ Linear(Releasing(deg, out))
         /\ Targets(Releasing(deg, out)) \in Seq(Node)
<1>1. Linear(out)
  BY LeavingLinear
<1>2. \A n \in Node : Cardinality(EdgesTo(out, n)) \in Int
  <2> TAKE n \in Node
  <2>1. IsFiniteSet(EdgesTo(out, n))
    BY <1>1, FS_Subset DEF EdgesTo, Linear
  <2> QED
    BY <2>1, CardinalityInt
<1>3. Lowered(deg, out) \in [Node -> Int]
  BY <1>2 DEF Lowered
<1>4. Releasing(deg, out) \subseteq EdgesFrom(Edges(order), m)
  BY DEF Releasing
<1>5. Linear(Releasing(deg, out))
  BY <1>4, LeavingLinear
<1> QED
  BY <1>3, <1>5, TargetsType

LEMMA WroteType ==
  ASSUME NEW c \in Context, NEW n \in Node
  PROVE  Wrote(c, n) \in Context
BY DEF Wrote, Context, Writer

LEMMA SavedType ==
  ASSUME NEW snaps, DOMAIN snaps \subseteq Node,
         \A m \in DOMAIN snaps : snaps[m] \in Context,
         NEW n \in Node, NEW c \in Context
  PROVE  /\ DOMAIN Saved(snaps, n, c) \subseteq Node
         /\ \A m \in DOMAIN Saved(snaps, n, c) : Saved(snaps, n, c)[m] \in Context
BY DEF Saved

LEMMA MergedType ==
  ASSUME NEW results \in Seq(Context), NEW c \in Context
  PROVE  Merged(results, c) \in Context
<1> SUFFICES ASSUME NEW k \in Key
             PROVE  Merged(results, c)[k] \in Writer \cup {None}
  BY DEF Merged, Context
<1> DEFINE writers == {i \in DOMAIN results : results[i][k] # None}
           last == CHOOSE i \in writers : \A j \in writers : j <= i
<1>1. CASE writers = {}
  BY <1>1 DEF Merged, Context
<1>2. CASE writers # {}
  <2>1. writers \in SUBSET (1..Len(results)) /\ Len(results) \in Nat
    BY LenProperties
  <2>2. last \in writers
    BY <1>2, <2>1, LastPlace
  <2>3. results[last] \in Context
    BY <2>2, SeqPlaces
  <2>4. Merged(results, c)[k] = results[last][k]
    BY <1>2 DEF Merged
  <2> QED
    BY <2>3, <2>4 DEF Context
<1> QED
  BY <1>1, <1>2

-----------------------------------------------------------------------------
(* Type correctness.  It is inductive together with the fact that a branch *)
(* that has nothing left to run has run something.                         *)

BranchStarted == pc = "branch" => branch.queue # <<>> \/ branch.last \in Node
TypeInv == TypeOK /\ BranchStarted

\* The queue holds nodes, or the one path a failed assertion left behind.
LEMMA NodesInQueue ==
  ASSUME NEW s \in Seq(Node)
  PROVE  s \in Seq(Node \cup {BadPath})
BY SeqDef

LEMMA InitTypeInv == Init => TypeInv
<1> SUFFICES ASSUME Init PROVE TypeInv
  OBVIOUS
<1>1. graph \in Graph
  BY GraphsAssumption DEF Init
<1>2. allNodes \in Seq(Node)
  BY <1>1, GraphTypes DEF Init
<1>3. inDegree \in [Node -> Int]
  BY <1>1, <1>2, BuiltInDegreeType DEF Init
<1>4. readyQueue \in Seq(Node \cup {BadPath})
  <2>1. Roots(allNodes, inDegree) \in Seq(Node)
    BY <1>2, RootsType
  <2>2. graph.entry # None => graph.entry \in Node
    BY <1>1, GraphTypes
  <2>3. Seeded(Roots(allNodes, inDegree)) \in Seq(Node)
    BY <2>1, <2>2 DEF Seeded
  <2> QED
    BY <2>3, NodesInQueue DEF Init
<1>5. fork \in [on : BOOLEAN, node : Node \cup {None}, branches : Seq(Node),
                index : Nat, results : Seq(Context)]
  BY DEF Init, NoFork
<1>6. [k \in Key |-> None] \in Context
  BY DEF Context
<1>7. branch \in [queue : Seq(Node), done : SUBSET Node, inDegree : [Node -> Int],
                  context : Context, last : Node \cup {None}]
  BY <1>6 DEF Init, NoBranch
<1>8. context \in Context /\ DOMAIN snapshots = {}
  BY <1>6 DEF Init
<1>9. dynamic \in [present : BOOLEAN, nodes : Seq(Node)]
  BY DEF Init
<1>10. /\ pc \in {"loop", "done"} /\ outcome \in {"running", "no_entry"}
       /\ resumes = 0 /\ pendingYield = FALSE /\ executed = {} /\ runs \in [Node -> Nat]
  BY DEF Init
<1> QED
  BY <1>1, <1>2, <1>3, <1>4, <1>5, <1>7, <1>8, <1>9, <1>10 DEF TypeInv, TypeOK, BranchStarted

\* The pieces the actions are made of keep the types of what they change.
Queues == Seq(Node \cup {BadPath})
DagTyped == executed \subseteq Node /\ inDegree \in [Node -> Int] /\ readyQueue \in Queues
SnapshotsTyped(snaps) ==
  DOMAIN snaps \subseteq Node /\ \A m \in DOMAIN snaps : snaps[m] \in Context

LEMMA QueueTypes ==
  ASSUME TypeOK, readyQueue # <<>>
  PROVE  Rest \in Queues /\ Head(readyQueue) \in Node \cup {BadPath}
BY HeadTailProperties DEF TypeOK, Rest, Queues

LEMMA AppendTypes ==
  ASSUME NEW q \in Queues, NEW n \in Node
  PROVE  Append(q, n) \in Queues
BY AppendProperties DEF Queues

LEMMA CompletesTypes ==
  ASSUME TypeOK, NEW n \in Node, NEW q \in Queues, Completes(n, q)
  PROVE  DagTyped'
<1> DEFINE out == EdgesFrom(Edges(allNodes), n)
<1>1. /\ Lowered(inDegree, out) \in [Node -> Int]
      /\ Targets(Releasing(inDegree, out)) \in Seq(Node)
  BY LoweredType DEF TypeOK
<1>2. q \o Targets(Releasing(inDegree, out)) \in Queues
  BY <1>1, NodesInQueue, ConcatProperties DEF Queues
<1>3. executed \cup {n} \subseteq Node
  BY DEF TypeOK
<1> QED
  BY <1>1, <1>2, <1>3 DEF Completes, DagTyped

LEMMA SnapshotTypes ==
  ASSUME TypeOK, NEW n \in Node, NEW c \in Context
  PROVE  /\ SnapshotsTyped(Saved(snapshots, n, c))
         /\ SnapshotsTyped(SnapshotIfNeeded(snapshots, n, c))
BY SavedType DEF TypeOK, SnapshotIfNeeded, SnapshotsTyped

LEMMA AppendedTypes ==
  ASSUME TypeOK, NEW n \in Node, Appended(n)
  PROVE  dynamic' \in [present : BOOLEAN, nodes : Seq(Node)]
<1>1. graph.subgraph[n] \in Seq(Node)
  BY GraphTypes DEF TypeOK
<1>2. dynamic.nodes \o graph.subgraph[n] \in Seq(Node)
  BY <1>1, ConcatProperties DEF TypeOK
<1> QED
  BY <1>2 DEF TypeOK, Appended

LEMMA HeadTypes ==
  ASSUME TypeOK, NEW n \in Node, AtHead(n)
  PROVE  pc = "loop" /\ Rest \in Queues
BY QueueTypes DEF AtHead, Dispatching

LEMMA LoopTypes ==
  ASSUME TypeInv, NEW n \in Node, Requeue(n) \/ BadWait(n) \/ JoinThrows(n) \/ NodeFails(n)
                                  \/ AssertJumps(n)
  PROVE  TypeInv'
<1>1. TypeOK /\ AtHead(n)
  BY DEF TypeInv, Requeue, BadWait, JoinThrows, NodeFails, AssertJumps, Handed, Dispatched
<1>2. pc = "loop" /\ Rest \in Queues /\ Append(Rest, n) \in Queues
  BY <1>1, HeadTypes, AppendTypes
<1>3. SnapshotsTyped(SnapshotIfNeeded(snapshots, n, context))
  BY <1>1, SnapshotTypes DEF TypeOK
<1>4. [runs EXCEPT ![n] = @ + 1] \in [Node -> Nat]
  BY <1>1 DEF TypeOK
<1>5. CASE Requeue(n)
  BY <1>1, <1>2, <1>5 DEF TypeInv, TypeOK, BranchStarted, Requeue, sessVars, Queues
<1>6. CASE BadWait(n)
  BY <1>1, <1>2, <1>6 DEF TypeInv, TypeOK, BranchStarted, BadWait, sessVars, Queues, Return
<1>7. CASE JoinThrows(n)
  BY <1>1, <1>2, <1>4, <1>7 DEF TypeInv, TypeOK, BranchStarted, JoinThrows, sessVars, Queues,
     Return, Ran, JoinError
<1>8. CASE NodeFails(n)
  BY <1>1, <1>2, <1>3, <1>4, <1>8 DEF TypeInv, TypeOK, BranchStarted, NodeFails, Handed, Queues,
     Return, Ran, SnapshotsTyped
<1>9. CASE AssertJumps(n)
  <2>1. <<BadPath>> \in Queues
    BY DEF Queues
  <2> QED
    BY <1>1, <1>2, <1>3, <1>4, <1>9, <2>1 DEF TypeInv, TypeOK, BranchStarted, AssertJumps, Handed,
       Queues, Ran, SnapshotsTyped, JumpTarget
<1> QED
  BY <1>5, <1>6, <1>7, <1>8, <1>9

LEMMA NodeTypes ==
  ASSUME TypeInv, NEW n \in Node, NodeYields(n) \/ NodePauses(n) \/ NodeCompletes(n)
  PROVE  TypeInv'
<1>1. TypeOK /\ AtHead(n) /\ Ran(n)
  BY DEF TypeInv, NodeYields, NodePauses, NodeCompletes, Handed, Dispatched
<1>2. pc = "loop" /\ Rest \in Queues /\ Append(Rest, n) \in Queues
  BY <1>1, HeadTypes, AppendTypes
<1>3. SnapshotsTyped(SnapshotIfNeeded(snapshots, n, context))
  BY <1>1, SnapshotTypes DEF TypeOK
<1>4. [runs EXCEPT ![n] = @ + 1] \in [Node -> Nat]
  BY <1>1 DEF TypeOK
<1>5. Wrote(context, n) \in Context
  BY <1>1, WroteType DEF TypeOK
<1>6. Appended(n) => dynamic' \in [present : BOOLEAN, nodes : Seq(Node)]
  BY <1>1, AppendedTypes
<1>7. CASE NodeYields(n)
  BY <1>1, <1>2, <1>3, <1>4, <1>5, <1>6, <1>7 DEF TypeInv, TypeOK, BranchStarted, NodeYields,
     Queues, Ran, SnapshotsTyped
<1>8. CASE NodePauses(n)
  BY <1>1, <1>2, <1>4, <1>5, <1>8 DEF TypeInv, TypeOK, BranchStarted, NodePauses, Queues, Ran, Return
<1>9. CASE NodeCompletes(n)
  <2>1. DagTyped'
    BY <1>1, <1>2, <1>9, CompletesTypes DEF NodeCompletes
  <2> QED
    BY <1>1, <1>2, <1>3, <1>4, <1>5, <1>6, <1>9, <2>1 DEF TypeInv, TypeOK, BranchStarted,
       NodeCompletes, Queues, Ran, SnapshotsTyped, DagTyped
<1> QED
  BY <1>7, <1>8, <1>9

LEMMA ForkJoinTypes ==
  ASSUME TypeInv, NEW n \in Node, RunFork(n) \/ RunJoin(n)
  PROVE  TypeInv'
<1>1. TypeOK /\ AtHead(n) /\ Ran(n)
  BY DEF TypeInv, RunFork, RunJoin, Dispatched
<1>2. pc = "loop" /\ Rest \in Queues
  BY <1>1, HeadTypes
<1>3. [runs EXCEPT ![n] = @ + 1] \in [Node -> Nat]
  BY <1>1 DEF TypeOK
<1>4. DagTyped'
  BY <1>1, <1>2, CompletesTypes DEF RunFork, RunJoin
<1>5. CASE RunFork(n)
  <2>1. SnapshotsTyped(Saved(snapshots, n, context))
    BY <1>1, SnapshotTypes DEF TypeOK
  <2>2. graph.branches[n] \in Seq(Node)
    BY <1>1, GraphTypes DEF TypeOK
  <2>3. fork' \in [on : BOOLEAN, node : Node \cup {None}, branches : Seq(Node),
                  index : Nat, results : Seq(Context)]
    BY <1>5, <2>2 DEF RunFork
  <2> QED
    BY <1>1, <1>2, <1>3, <1>4, <1>5, <2>1, <2>3 DEF TypeInv, TypeOK, BranchStarted, RunFork, Queues,
       Ran, SnapshotsTyped, DagTyped
<1>6. CASE RunJoin(n)
  <2>1. Merged(fork.results, context) \in Context
    BY <1>1, MergedType DEF TypeOK
  <2>2. NoFork \in [on : BOOLEAN, node : Node \cup {None}, branches : Seq(Node),
                    index : Nat, results : Seq(Context)]
    BY DEF NoFork
  <2> QED
    BY <1>1, <1>2, <1>3, <1>4, <1>6, <2>1, <2>2 DEF TypeInv, TypeOK, BranchStarted, RunJoin, Queues,
       Ran, DagTyped
<1> QED
  BY <1>5, <1>6

LEMMA BranchTypes ==
  ASSUME TypeInv, NEW n \in Node, BranchFails(n) \/ BranchRuns(n)
  PROVE  TypeInv'
<1>1. TypeOK /\ InBranch(n) /\ Ran(n)
  BY DEF TypeInv, BranchFails, BranchRuns, HandedInBranch
<1>2. branch.context \in Context /\ branch.inDegree \in [Node -> Int] /\ branch.queue \in Seq(Node)
  BY <1>1 DEF TypeOK
<1>3. /\ SnapshotsTyped(Saved(snapshots, n, branch.context))
      /\ SnapshotsTyped(SnapshotIfNeeded(snapshots, n, branch.context))
  BY <1>1, <1>2, SnapshotTypes
<1>4. [runs EXCEPT ![n] = @ + 1] \in [Node -> Nat]
  BY <1>1 DEF TypeOK
<1>5. CASE BranchFails(n)
  BY <1>1, <1>3, <1>4, <1>5 DEF TypeInv, TypeOK, BranchStarted, BranchFails, Ran, Return,
     SnapshotsTyped, dagVars
<1>6. CASE BranchRuns(n)
  <2> DEFINE out == {e \in EdgesFrom(Edges(allNodes), n) : e[2] = 0}
             rest == Tail(branch.queue)
             BranchType == [queue : Seq(Node), done : SUBSET Node, inDegree : [Node -> Int],
                            context : Context, last : Node \cup {None}]
  <2>1. Wrote(branch.context, n) \in Context
    BY <1>2, WroteType
  <2>2. rest \in Seq(Node)
    BY <1>1, <1>2, HeadTailProperties DEF InBranch
  <2>3. /\ Lowered(branch.inDegree, out) \in [Node -> Int]
        /\ rest \o Targets(Releasing(branch.inDegree, out)) \in Seq(Node)
    <3>1. out \in SUBSET EdgesFrom(Edges(allNodes), n)
      OBVIOUS
    <3>2. /\ Lowered(branch.inDegree, out) \in [Node -> Int]
          /\ Targets(Releasing(branch.inDegree, out)) \in Seq(Node)
      BY <1>1, <1>2, <3>1, LoweredType DEF TypeOK
    <3> QED
      BY <2>2, <3>2, ConcatProperties
  <2>4. branch.done \cup {n} \subseteq Node
    BY <1>1 DEF TypeOK
  <2>5. branch' \in BranchType /\ branch'.last = n
    BY <1>6, <2>1, <2>3, <2>4 DEF BranchRuns
  <2>6. dynamic' \in [present : BOOLEAN, nodes : Seq(Node)]
    BY <1>1, <1>6, AppendedTypes DEF BranchRuns
  <2>7. pendingYield' \in BOOLEAN
    BY <1>1, <1>6 DEF BranchRuns, TypeOK, Yielding
  <2>8. /\ pc' \in {"branch", "done"}
        /\ outcome' = outcome \/ outcome' = "hard_end"
    BY <1>1, <1>6 DEF BranchRuns, InBranch, Return
  <2>9. UNCHANGED <<graph, allNodes, inDegree, readyQueue, executed, fork, context, resumes>>
    BY <1>6 DEF BranchRuns, dagVars
  <2>10. snapshots' = SnapshotIfNeeded(snapshots, n, branch.context)
    BY <1>6 DEF BranchRuns
  <2> QED
    BY <1>1, <1>3, <1>4, <2>5, <2>6, <2>7, <2>8, <2>9, <2>10 DEF TypeInv, TypeOK, BranchStarted, Ran,
       SnapshotsTyped
<1> QED
  BY <1>5, <1>6

LEMMA ForkTypes ==
  ASSUME TypeOK, pc = "loop" /\ BranchesLeft
  PROVE  fork.branches[fork.index + 1] \in Node
<1>1. fork.branches \in Seq(Node) /\ fork.index \in Nat /\ fork.index < Len(fork.branches)
  BY DEF TypeOK, BranchesLeft
<1> QED
  BY <1>1, ElementOfSeq, LenProperties

LEMMA ControlTypes ==
  ASSUME TypeInv, UnknownNode \/ SkipExecuted \/ Finalize \/ SnapshotMissing \/ Resume
  PROVE  TypeInv'
<1>1. TypeOK
  BY DEF TypeInv
<1>2. CASE UnknownNode \/ SkipExecuted
  <2>1. Rest \in Queues /\ pc = "loop"
    BY <1>1, <1>2, QueueTypes DEF UnknownNode, SkipExecuted, Dispatching
  <2> QED
    BY <1>1, <1>2, <2>1 DEF TypeInv, TypeOK, BranchStarted, UnknownNode, SkipExecuted, Queues,
       Return, sessVars
<1>3. CASE Finalize
  BY <1>1, <1>3 DEF TypeInv, TypeOK, BranchStarted, Finalize, Return, dagVars, sessVars
<1>4. CASE SnapshotMissing
  BY <1>1, <1>4 DEF TypeInv, TypeOK, BranchStarted, SnapshotMissing, Return, dagVars, sessVars
<1>5. CASE Resume
  <2>1. context' \in Context
    BY <1>1, <1>5 DEF Resume, TypeOK, Context, Writer
  <2>2. /\ resumes' = resumes + 1 /\ pendingYield' = FALSE /\ pc' = "loop" /\ outcome' = "running"
        /\ UNCHANGED <<graph, allNodes, inDegree, readyQueue, executed, fork, branch, snapshots,
                       dynamic, runs>>
    BY <1>5 DEF Resume, dagVars
  <2>3. resumes' \in Nat /\ pc' # "branch"
    BY <1>1, <2>2 DEF TypeOK
  <2> QED
    BY <1>1, <2>1, <2>2, <2>3 DEF TypeInv, TypeOK, BranchStarted
<1> QED
  BY <1>2, <1>3, <1>4, <1>5

LEMMA RebuildTypes ==
  ASSUME TypeInv, Rebuild
  PROVE  TypeInv'
<1> DEFINE order == allNodes \o dynamic.nodes
<1>1. TypeOK
  BY DEF TypeInv
<1>2. order \in Seq(Node)
  BY <1>1, ConcatProperties DEF TypeOK
<1>3. BuiltInDegree(order) \in [Node -> Int]
  BY <1>1, <1>2, BuiltInDegreeType DEF TypeOK
<1>4. readyQueue \o Roots(order, inDegree') \in Queues
  <2>1. Roots(order, inDegree') \in Seq(Node)
    BY <1>2, RootsType
  <2> QED
    BY <1>1, <2>1, NodesInQueue, ConcatProperties DEF Queues, TypeOK
<1>5. dynamic' \in [present : BOOLEAN, nodes : Seq(Node)]
  BY <1>1 DEF Rebuild, TypeOK
<1>6. /\ allNodes' = order /\ inDegree' = BuiltInDegree(order)
      /\ readyQueue' \in {readyQueue, readyQueue \o Roots(order, inDegree')}
      /\ pc' \in {"loop", "done"} /\ outcome' \in {outcome, "bad_subgraph"}
      /\ UNCHANGED <<graph, executed, fork, branch, context, snapshots, pendingYield, resumes, runs>>
  BY DEF Rebuild, Return
<1> HIDE DEF order
<1> QED
  BY <1>1, <1>2, <1>3, <1>4, <1>5, <1>6 DEF TypeInv, TypeOK, BranchStarted, Queues

LEMMA BranchStepTypes ==
  ASSUME TypeInv, StartBranch \/ BranchDone
  PROVE  TypeInv'
<1>1. TypeOK
  BY DEF TypeInv
<1>2. CASE StartBranch
  <2> DEFINE first == fork.branches[fork.index + 1]
  <2>1. first \in Node /\ snapshots[fork.node] \in Context
    BY <1>1, <1>2, ForkTypes DEF StartBranch, TypeOK
  <2>2. branch' = [queue |-> <<first>>, done |-> {}, inDegree |-> inDegree,
                   context |-> snapshots[fork.node], last |-> None]
    BY <1>2 DEF StartBranch, BranchContext, BranchToRun
  <2> HIDE DEF first
  <2>3. branch' \in [queue : Seq(Node), done : SUBSET Node, inDegree : [Node -> Int],
                     context : Context, last : Node \cup {None}]
    BY <1>1, <2>1, <2>2 DEF TypeOK
  <2>4. branch'.queue # <<>>
    BY <2>2
  <2> QED
    BY <1>1, <1>2, <2>3, <2>4 DEF TypeInv, TypeOK, BranchStarted, StartBranch, dagVars, sessVars
<1>3. CASE BranchDone
  <2>1. branch.last \in Node /\ readyQueue \in Queues
    BY <1>1, <1>3 DEF TypeInv, TypeOK, BranchStarted, BranchDone, Queues
  <2>2. DagTyped'
    BY <1>1, <1>3, <2>1, CompletesTypes DEF BranchDone
  <2>3. Append(fork.results, branch.context) \in Seq(Context)
    BY <1>1, AppendProperties DEF TypeOK
  <2>4. fork' \in [on : BOOLEAN, node : Node \cup {None}, branches : Seq(Node),
                   index : Nat, results : Seq(Context)]
    BY <1>1, <1>3, <2>3 DEF BranchDone, TypeOK
  <2>5. branch' \in [queue : Seq(Node), done : SUBSET Node, inDegree : [Node -> Int],
                     context : Context, last : Node \cup {None}]
    BY <1>3 DEF BranchDone, NoBranch, Context
  <2> QED
    BY <1>1, <1>3, <2>2, <2>4, <2>5 DEF TypeInv, TypeOK, BranchStarted, BranchDone, DagTyped, Queues,
       sessVars
<1> QED
  BY <1>2, <1>3

LEMMA NextTypeInv == TypeInv /\ [Next]_vars => TypeInv'
<1> SUFFICES ASSUME TypeInv, [Next]_vars PROVE TypeInv'
  OBVIOUS
<1>1. CASE Loop
  BY <1>1, ControlTypes, RebuildTypes, BranchStepTypes DEF Loop
<1>2. CASE Resume
  BY <1>2, ControlTypes
<1>3. ASSUME NEW n \in Node, Step(n)
      PROVE  TypeInv'
  BY <1>3, LoopTypes, NodeTypes, ForkJoinTypes, BranchTypes DEF Step
<1>4. CASE UNCHANGED vars
  <2>1. /\ UNCHANGED <<graph, allNodes, inDegree, readyQueue, executed, fork, branch, context>>
        /\ UNCHANGED <<snapshots, pendingYield, dynamic, pc, outcome, resumes, runs>>
    BY <1>4 DEF vars, dagVars, sessVars
  <2>2. TypeOK'
    BY <2>1, SMTT(30) DEF TypeInv, TypeOK
  <2>3. BranchStarted'
    BY <2>1 DEF TypeInv, BranchStarted
  <2> QED
    BY <2>2, <2>3 DEF TypeInv
<1> QED
  BY <1>1, <1>2, <1>3, <1>4 DEF Next

(* In every state of every run of every program, each of the scheduler's   *)
(* members holds a value of its type: what is queued is a registered path  *)
(* or a failed jump, what was merged is a context, and so on.              *)
THEOREM TypeCorrect == Spec => []TypeOK
<1>1. TypeInv => TypeOK
  BY DEF TypeInv
<1> QED
  BY <1>1, InitTypeInv, NextTypeInv, PTL DEF Spec

-----------------------------------------------------------------------------
(* A run that ends "unmet" is stuck, for every program.                    *)
(*                                                                         *)
(* UnmetIsStuck says nothing of the in-degrees and is not inductive.  What *)
(* the steps preserve is the bookkeeping behind it, as long as no subgraph *)
(* was generated: an in-degree is at most the number of edges from nodes   *)
(* not yet executed, and a node whose in-degree is used up and that was    *)
(* not executed is in the queue.                                           *)

\* The loop can still go on, or has just found itself stuck.
Going == pc # "done" \/ outcome = "unmet"

\* The first path of the queue is what a failed assertion left there.
Jumped == readyQueue # <<>> /\ Head(readyQueue) = BadPath

Queued(q, n) == \E i \in 1..Len(q) : q[i] = n

Awaited(n) == {e \in EdgesTo(Edges(allNodes), n) : e[1] \notin executed}

DegreeBound ==
  \A n \in Node : inDegree[n] <= Cardinality(Awaited(n)) + Cardinality(ForkEdgesTo(allNodes, n))

NoneForgotten ==
  ~Jumped => \A n \in Registered(allNodes) \ executed : inDegree[n] <= 0 => Queued(readyQueue, n)

RebuildIsGrowth == pc = "rebuild" => dynamic.present

StuckInv ==
  /\ TypeInv
  /\ RebuildIsGrowth
  /\ Going /\ ~dynamic.present => DegreeBound /\ NoneForgotten

-----------------------------------------------------------------------------
(* Sequences of queued paths.                                              *)

LEMMA QueuedLeft ==
  ASSUME NEW S, NEW q \in Seq(S), NEW r \in Seq(S), NEW n, Queued(q, n)
  PROVE  Queued(q \o r, n)
<1>1. PICK i \in 1..Len(q) : q[i] = n
  BY DEF Queued
<1>2. i \in 1..Len(q \o r) /\ (q \o r)[i] = n
  BY <1>1, ConcatProperties, LenProperties
<1> QED
  BY <1>2 DEF Queued

LEMMA QueuedRight ==
  ASSUME NEW S, NEW q \in Seq(S), NEW r \in Seq(S), NEW n, Queued(r, n)
  PROVE  Queued(q \o r, n)
<1>1. PICK i \in 1..Len(r) : r[i] = n
  BY DEF Queued
<1>2. Len(q) + i \in 1..Len(q \o r) /\ (q \o r)[Len(q) + i] = n
  BY <1>1, ConcatProperties, LenProperties
<1> QED
  BY <1>2 DEF Queued

LEMMA QueuedTail ==
  ASSUME NEW S, NEW q \in Seq(S), q # <<>>, NEW n, Queued(q, n), n # Head(q)
  PROVE  Queued(Tail(q), n)
<1>1. PICK i \in 1..Len(q) : q[i] = n
  BY DEF Queued
<1>2. i # 1 /\ Len(Tail(q)) = Len(q) - 1 /\ Len(q) \in Nat
  BY <1>1, HeadTailProperties, LenProperties
<1>3. i - 1 \in 1..Len(Tail(q)) /\ Tail(q)[i - 1] = n
  BY <1>1, <1>2, HeadTailProperties
<1> QED
  BY <1>3 DEF Queued

LEMMA QueuedAppend ==
  ASSUME NEW S, NEW q \in Seq(S), NEW n \in S, NEW t, Queued(q, t) \/ t = n
  PROVE  Queued(Append(q, n), t)
<1>1. Len(q) \in Nat /\ Len(Append(q, n)) = Len(q) + 1
  BY AppendProperties, LenProperties
<1>2. \A i \in 1..Len(q) : Append(q, n)[i] = q[i]
  BY AppendProperties
<1>3. Append(q, n)[Len(q) + 1] = n
  BY AppendProperties
<1>4. CASE Queued(q, t)
  BY <1>1, <1>2, <1>4 DEF Queued
<1>5. CASE t = n
  BY <1>1, <1>3, <1>5 DEF Queued
<1> QED
  BY <1>4, <1>5

LEMMA HeadOfConcat ==
  ASSUME NEW S, NEW q \in Seq(S), NEW r \in Seq(S), q # <<>>
  PROVE  q \o r # <<>> /\ Head(q \o r) = Head(q)
<1>1. Len(q) \in Nat \ {0} /\ Len(q \o r) = Len(q) + Len(r) /\ Len(r) \in Nat
  BY ConcatProperties, LenProperties, EmptySeq
<1>2. q \o r \in Seq(S) /\ (q \o r)[1] = q[1]
  BY <1>1, ConcatProperties
<1> QED
  BY <1>1, <1>2

LEMMA QueuedTargets ==
  ASSUME NEW S, Linear(S), NEW e \in S
  PROVE  Queued(Targets(S), e[4])
BY TargetsOnto DEF Queued

-----------------------------------------------------------------------------
(* Counting edges.                                                         *)

LEMMA EdgesToFinite ==
  ASSUME graph \in Graph, NEW order \in Seq(Node), NEW n
  PROVE  /\ IsFiniteSet(EdgesTo(Edges(order), n))
         /\ IsFiniteSet(ForkEdgesTo(order, n))
BY EdgesFinite, ForkEdgesFinite, FS_Subset DEF EdgesTo, ForkEdgesTo

\* Lowering the in-degrees of a node's successors keeps up with what they still await.
LEMMA BoundLowered ==
  ASSUME TypeOK, DegreeBound, NEW m \in Node, NEW q \in Queues, Completes(m, q),
         UNCHANGED <<graph, allNodes>>
  PROVE  DegreeBound'
<1> DEFINE out == EdgesFrom(Edges(allNodes), m)
<1> SUFFICES ASSUME NEW t \in Node
             PROVE  (inDegree[t] <= Cardinality(Awaited(t)) + Cardinality(ForkEdgesTo(allNodes, t)))'
  BY DEF DegreeBound
<1> DEFINE before == Awaited(t)
           gone == EdgesTo(out, t)
           forks == ForkEdgesTo(allNodes, t)
<1>1. IsFiniteSet(before) /\ IsFiniteSet(gone) /\ IsFiniteSet(forks)
  <2>1. IsFiniteSet(EdgesTo(Edges(allNodes), t)) /\ IsFiniteSet(forks)
    BY EdgesToFinite DEF TypeOK
  <2>2. before \subseteq EdgesTo(Edges(allNodes), t) /\ gone \subseteq EdgesTo(Edges(allNodes), t)
    BY DEF Awaited, EdgesTo, EdgesFrom
  <2> QED
    BY <2>1, <2>2, FS_Subset
<1>2. Awaited(t)' = before \ gone
  BY DEF Awaited, Completes, EdgesTo, EdgesFrom, Edges, NextEdges, WaitEdges
<1>3. ForkEdgesTo(allNodes, t)' = forks
  BY DEF ForkEdgesTo, ForkEdges
<1>4. inDegree'[t] = inDegree[t] - Cardinality(gone)
  BY DEF Completes, Lowered
<1>5. Cardinality(before \ gone) >= Cardinality(before) - Cardinality(gone)
  <2>1. Cardinality(before \ gone) = Cardinality(before) - Cardinality(before \cap gone)
    BY <1>1, FS_Difference
  <2>2. Cardinality(before \cap gone) <= Cardinality(gone) /\ IsFiniteSet(before \cap gone)
    BY <1>1, FS_Subset
  <2>3. /\ Cardinality(before) \in Nat /\ Cardinality(gone) \in Nat
        /\ Cardinality(before \cap gone) \in Nat
    BY <1>1, <2>2, FS_CardinalityType
  <2> QED
    BY <2>1, <2>2, <2>3
<1>6. inDegree[t] <= Cardinality(before) + Cardinality(forks)
  BY DEF DegreeBound
<1>7. /\ Cardinality(before) \in Nat /\ Cardinality(gone) \in Nat /\ Cardinality(forks) \in Nat
      /\ Cardinality(before \ gone) \in Nat
  BY <1>1, FS_CardinalityType, FS_Difference
<1>8. inDegree[t] \in Int
  BY DEF TypeOK
<1> HIDE DEF before, gone, forks
<1>9. inDegree'[t] <= Cardinality(before \ gone) + Cardinality(forks)
  BY <1>4, <1>5, <1>6, <1>7, <1>8
<1> QED
  BY <1>2, <1>3, <1>9

\* A target whose in-degree is used up by these edges is released by one of them.
LEMMA Released ==
  ASSUME graph \in Graph, NEW order \in Seq(Node), NEW m, NEW deg \in [Node -> Int],
         NEW out \in SUBSET EdgesFrom(Edges(order), m),
         NEW t \in Node, deg[t] > 0, Lowered(deg, out)[t] <= 0
  PROVE  Queued(Targets(Releasing(deg, out)), t)
<1> DEFINE S == EdgesTo(out, t)
<1>1. S \in SUBSET EdgesFrom(Edges(order), m)
  BY DEF EdgesTo
<1>2. Linear(S)
  BY <1>1, LeavingLinear
<1>3. Cardinality(S) \in Nat
  BY <1>2, FS_CardinalityType DEF Linear
<1>4. Lowered(deg, out)[t] = deg[t] - Cardinality(S)
  BY DEF Lowered
<1>5. deg[t] \in 1..Cardinality(S)
  BY <1>3, <1>4
<1>6. PICK e \in S : Rank(S, e) = deg[t]
  BY <1>2, <1>5, RankOnto
<1>7. e \in out /\ e[4] = t
  BY DEF EdgesTo
<1>8. e \in Releasing(deg, out)
  BY <1>6, <1>7 DEF Releasing, Rank
<1>9. Linear(Releasing(deg, out))
  BY LoweredType
<1> QED
  BY <1>7, <1>8, <1>9, QueuedTargets

LEMMA NoneForgottenCompletes ==
  ASSUME TypeOK, NEW m \in Node, NEW q \in Queues, Completes(m, q), UNCHANGED <<graph, allNodes>>,
         \A n \in Registered(allNodes) \ (executed \cup {m}) : inDegree[n] <= 0 => Queued(q, n)
  PROVE  NoneForgotten'
<1> DEFINE out == EdgesFrom(Edges(allNodes), m)
           released == Targets(Releasing(inDegree, out))
<1> SUFFICES ASSUME NEW t \in Registered(allNodes) \ executed', inDegree'[t] <= 0
             PROVE  Queued(readyQueue', t)
  BY DEF NoneForgotten, Registered
<1>1. t \in Node /\ t \in Registered(allNodes) \ (executed \cup {m})
  BY ElementOfSeq, LenProperties DEF Completes, Registered, TypeOK
<1>2. released \in Queues
  BY LoweredType, NodesInQueue DEF TypeOK, Queues
<1>3. readyQueue' = q \o released /\ inDegree' = Lowered(inDegree, out)
  BY DEF Completes
<1>4. CASE inDegree[t] <= 0
  <2>1. Queued(q, t)
    BY <1>1, <1>4
  <2> QED
    BY <1>2, <1>3, <2>1, QueuedLeft DEF Queues
<1>5. CASE inDegree[t] > 0
  <2>1. Queued(released, t)
    BY <1>1, <1>3, <1>5, Released DEF TypeOK
  <2> QED
    BY <1>2, <1>3, <2>1, QueuedRight DEF Queues
<1>6. inDegree[t] \in Int
  BY <1>1 DEF TypeOK
<1> QED
  BY <1>4, <1>5, <1>6

-----------------------------------------------------------------------------
(* The first state, and the steps one action at a time.                    *)

\* What build_dag counts is what the nodes await, and the nodes that await nothing are queued.
LEMMA BuiltAwaits ==
  ASSUME graph \in Graph, NEW order \in Seq(Node), NEW n \in Node
  PROVE  /\ BuiltInDegree(order)[n]
              = Cardinality(EdgesTo(Edges(order), n)) + Cardinality(ForkEdgesTo(order, n))
         /\ BuiltInDegree(order)[n] \in Nat
<1>1. IsFiniteSet(EdgesTo(Edges(order), n)) /\ IsFiniteSet(ForkEdgesTo(order, n))
  BY EdgesToFinite
<1> QED
  BY <1>1, FS_CardinalityType DEF BuiltInDegree

LEMMA RootsQueued ==
  ASSUME NEW order \in Seq(Node), NEW deg, NEW n \in Registered(order), deg[n] = 0
  PROVE  Queued(Roots(order, deg), n)
<1> DEFINE R == {<<order[p], 0, p, order[p]>> : p \in {r \in DOMAIN order : deg[order[r]] = 0}}
<1>1. PICK p \in DOMAIN order : order[p] = n
  BY DEF Registered
<1>2. <<n, 0, p, n>> \in R
  BY <1>1
<1>3. Linear(R)
  BY RootsLinear
<1> HIDE DEF R
<1>4. Queued(Targets(R), <<n, 0, p, n>>[4])
  BY <1>2, <1>3, QueuedTargets
<1>5. Queued(Targets(R), n)
  BY <1>4
<1> QED
  BY <1>5 DEF Roots, R

LEMMA InitStuckInv == Init => StuckInv
<1> SUFFICES ASSUME Init PROVE StuckInv
  OBVIOUS
<1>1. TypeInv
  BY InitTypeInv
<1>2. graph \in Graph /\ allNodes \in Seq(Node) /\ readyQueue \in Seq(Node \cup {BadPath})
  BY <1>1 DEF TypeInv, TypeOK
<1>3. RebuildIsGrowth
  BY DEF Init, RebuildIsGrowth
<1>4. DegreeBound
  <2> SUFFICES ASSUME NEW n \in Node
               PROVE  inDegree[n] <= Cardinality(Awaited(n)) + Cardinality(ForkEdgesTo(allNodes, n))
    BY DEF DegreeBound
  <2>1. Awaited(n) = EdgesTo(Edges(allNodes), n)
    BY DEF Awaited, Init
  <2>2. /\ inDegree[n] = Cardinality(EdgesTo(Edges(allNodes), n)) + Cardinality(ForkEdgesTo(allNodes, n))
        /\ inDegree[n] \in Nat
    BY <1>2, BuiltAwaits DEF Init
  <2> QED
    BY <2>1, <2>2
<1>5. ASSUME Going
      PROVE  NoneForgotten
  <2> SUFFICES ASSUME NEW n \in Registered(allNodes), inDegree[n] <= 0
               PROVE  Queued(readyQueue, n)
    BY DEF NoneForgotten
  <2> DEFINE roots == Roots(allNodes, inDegree)
  <2>1. n \in Node
    BY <1>2, SeqPlaces DEF Registered
  <2>2. inDegree[n] = 0
    BY <1>2, <2>1, BuiltAwaits DEF Init
  <2>3. roots \in Seq(Node) /\ Queued(roots, n)
    BY <1>2, <2>2, RootsType, RootsQueued
  <2>4. graph.entry \in Registered(graph.order) \cup {None}
    BY <1>5 DEF Init, Going
  <2>5. graph.entry # None => graph.entry \in Node
    BY <1>2, GraphTypes
  <2>6. readyQueue = IF graph.entry = None THEN roots \o roots ELSE <<graph.entry>> \o roots
    BY <2>4 DEF Init, Seeded
  <2> HIDE DEF roots
  <2>7. CASE graph.entry = None
    BY <2>3, <2>6, <2>7, QueuedLeft
  <2>8. CASE graph.entry # None
    <3>1. <<graph.entry>> \in Seq(Node)
      BY <2>5, <2>8
    <3> QED
      BY <2>3, <2>6, <2>8, <3>1, QueuedRight
  <2> QED
    BY <2>7, <2>8
<1> QED
  BY <1>1, <1>3, <1>4, <1>5 DEF StuckInv

\* Taking a node from the queue forgets no other.
LEMMA Popped ==
  ASSUME TypeOK, NoneForgotten, NEW n \in Node, AtHead(n)
  PROVE  /\ Rest \in Queues
         /\ \A t \in Registered(allNodes) \ (executed \cup {n}) :
               inDegree[t] <= 0 => Queued(Rest, t)
<1>1. readyQueue \in Queues /\ readyQueue # <<>> /\ Head(readyQueue) = n /\ n # BadPath
  BY NamesAssumption DEF TypeOK, Queues, AtHead, Dispatching
<1>2. ~Jumped
  BY <1>1 DEF Jumped
<1> QED
  BY <1>1, <1>2, HeadTypes, QueuedTail DEF NoneForgotten, Rest, Queues

\* Steps that end the run without finding it stuck.
LEMMA Ending ==
  ASSUME StuckInv, TypeInv', pc' = "done", outcome' # "unmet"
  PROVE  StuckInv'
BY DEF StuckInv, Going, RebuildIsGrowth

\* Steps that leave the bookkeeping as it is.
LEMMA Keeping ==
  ASSUME StuckInv, TypeInv', UNCHANGED <<graph, dagVars>>, pc # "done",
         pc' # "rebuild", ~dynamic'.present => ~dynamic.present
  PROVE  StuckInv'
<1>1. ASSUME ~dynamic'.present
      PROVE  DegreeBound' /\ NoneForgotten'
  <2>1. DegreeBound /\ NoneForgotten
    BY <1>1 DEF StuckInv, Going
  <2>2. DegreeBound'
    BY <2>1 DEF DegreeBound, Awaited, EdgesTo, Edges, NextEdges, WaitEdges, ForkEdgesTo, ForkEdges,
       dagVars
  <2>3. NoneForgotten'
    BY <2>1 DEF NoneForgotten, Jumped, Registered, Queued, dagVars
  <2> QED
    BY <2>2, <2>3
<1> QED
  BY <1>1 DEF StuckInv, RebuildIsGrowth

\* Steps that change the queue and nothing else of the bookkeeping.
LEMMA Queueing ==
  ASSUME StuckInv, TypeInv', UNCHANGED <<graph, allNodes, inDegree, executed>>, pc # "done",
         pc' # "rebuild", ~dynamic'.present => ~dynamic.present,
         NoneForgotten => NoneForgotten'
  PROVE  StuckInv'
<1>1. ASSUME ~dynamic'.present
      PROVE  DegreeBound' /\ NoneForgotten'
  <2>1. DegreeBound /\ NoneForgotten
    BY <1>1 DEF StuckInv, Going
  <2>2. DegreeBound'
    BY <2>1 DEF DegreeBound, Awaited, EdgesTo, Edges, NextEdges, WaitEdges, ForkEdgesTo, ForkEdges
  <2> QED
    BY <2>1, <2>2
<1> QED
  BY <1>1 DEF StuckInv, RebuildIsGrowth

\* Dynamic graphs, once there, stay.
LEMMA AppendedKeeps ==
  ASSUME NEW n, Appended(n), ~dynamic'.present
  PROVE  ~dynamic.present
<1>1. CASE graph.type[n] = "gen" /\ graph.subgraph[n] # <<>>
  <2>1. dynamic' = [present |-> TRUE, nodes |-> dynamic.nodes \o graph.subgraph[n]]
    BY <1>1 DEF Appended
  <2>2. dynamic'.present = TRUE
    BY <2>1
  <2> QED
    BY <2>2
<1>2. CASE ~(graph.type[n] = "gen" /\ graph.subgraph[n] # <<>>)
  <2>1. dynamic' = dynamic
    BY <1>2 DEF Appended
  <2> QED
    BY <2>1
<1> QED
  BY <1>1, <1>2

LEMMA QueueingSteps ==
  ASSUME StuckInv, TypeInv', NEW n \in Node,
         SkipExecuted \/ Requeue(n) \/ NodeYields(n) \/ AssertJumps(n)
  PROVE  StuckInv'
<1>1. TypeOK
  BY DEF StuckInv, TypeInv
<1>2. CASE SkipExecuted
  <2>1. ASSUME NoneForgotten
        PROVE  NoneForgotten'
    <3>1. readyQueue \in Queues /\ readyQueue # <<>> /\ Head(readyQueue) \in executed
      BY <1>1, <1>2 DEF TypeOK, Queues, SkipExecuted, Dispatching
    <3>2. ~Jumped
      BY <1>1, <3>1, NamesAssumption DEF Jumped, TypeOK
    <3>3. \A t \in Registered(allNodes) \ executed : inDegree[t] <= 0 => Queued(Rest, t)
      BY <2>1, <3>1, <3>2, QueuedTail DEF NoneForgotten, Rest, Queues
    <3> QED
      BY <1>2, <3>3 DEF NoneForgotten, SkipExecuted, Registered
  <2> QED
    BY <1>2, <2>1, Queueing DEF SkipExecuted, Dispatching, sessVars
<1>3. CASE Requeue(n) \/ NodeYields(n)
  <2>1. AtHead(n) /\ readyQueue' = Append(Rest, n)
        /\ UNCHANGED <<graph, allNodes, inDegree, executed>>
    BY <1>3 DEF Requeue, NodeYields, Handed, Dispatched
  <2>2. ASSUME NoneForgotten
        PROVE  NoneForgotten'
    <3>1. /\ Rest \in Queues
          /\ \A t \in Registered(allNodes) \ (executed \cup {n}) :
                inDegree[t] <= 0 => Queued(Rest, t)
      BY <1>1, <2>1, <2>2, Popped
    <3>2. \A t : Queued(Rest, t) \/ t = n => Queued(Append(Rest, n), t)
      BY <3>1, QueuedAppend DEF Queues
    <3>3. \A t \in Registered(allNodes) \ executed : inDegree[t] <= 0 => Queued(Append(Rest, n), t)
      BY <3>1, <3>2
    <3> QED
      BY <2>1, <3>3 DEF NoneForgotten, Registered
  <2>3. pc # "done" /\ pc' # "rebuild"
    BY <1>3, <2>1 DEF Requeue, NodeYields, AtHead, Dispatching
  <2>4. ~dynamic'.present => ~dynamic.present
    BY <1>3, AppendedKeeps DEF Requeue, NodeYields, sessVars
  <2> QED
    BY <2>1, <2>2, <2>3, <2>4, Queueing
<1>4. CASE AssertJumps(n)
  <2>1. NoneForgotten'
    BY <1>4 DEF AssertJumps, JumpTarget, NoneForgotten, Jumped
  <2>2. pc # "done" /\ pc' # "rebuild" /\ UNCHANGED <<graph, allNodes, inDegree, executed, dynamic>>
    BY <1>4 DEF AssertJumps, Handed, Dispatched, AtHead, Dispatching
  <2> QED
    BY <2>1, <2>2, Queueing
<1> QED
  BY <1>2, <1>3, <1>4

\* Steps by which a node completes.
LEMMA Completing ==
  ASSUME StuckInv, TypeInv', NEW m \in Node, NEW q \in Queues, Completes(m, q),
         UNCHANGED <<graph, allNodes>>, pc # "done", RebuildIsGrowth',
         ~dynamic'.present => ~dynamic.present,
         NoneForgotten =>
           \/ Jumped'
           \/ \A n \in Registered(allNodes) \ (executed \cup {m}) : inDegree[n] <= 0 => Queued(q, n)
  PROVE  StuckInv'
<1>1. ASSUME ~dynamic'.present
      PROVE  DegreeBound' /\ NoneForgotten'
  <2>1. DegreeBound /\ NoneForgotten /\ TypeOK
    BY <1>1 DEF StuckInv, Going, TypeInv
  <2>2. DegreeBound'
    BY <2>1, BoundLowered
  <2>3. NoneForgotten'
    BY <2>1, NoneForgottenCompletes DEF NoneForgotten
  <2> QED
    BY <2>2, <2>3
<1> QED
  BY <1>1 DEF StuckInv

LEMMA CompletingSteps ==
  ASSUME StuckInv, TypeInv', NEW n \in Node, RunFork(n) \/ RunJoin(n) \/ NodeCompletes(n)
  PROVE  StuckInv'
<1>1. TypeOK
  BY DEF StuckInv, TypeInv
<1>2. AtHead(n) /\ Completes(n, Rest) /\ UNCHANGED <<graph, allNodes>>
  BY DEF RunFork, RunJoin, NodeCompletes, Handed, Dispatched
<1>3. pc = "loop" /\ Rest \in Queues
  BY <1>1, <1>2, HeadTypes
<1>4. RebuildIsGrowth'
  BY <1>3 DEF RunFork, RunJoin, NodeCompletes, RebuildIsGrowth
<1>5. ~dynamic'.present => ~dynamic.present
  BY AppendedKeeps DEF RunFork, RunJoin, NodeCompletes
<1>6. NoneForgotten => \A t \in Registered(allNodes) \ (executed \cup {n}) :
                         inDegree[t] <= 0 => Queued(Rest, t)
  BY <1>1, <1>2, Popped
<1> QED
  BY <1>2, <1>3, <1>4, <1>5, <1>6, Completing

LEMMA BranchDoneStuck ==
  ASSUME StuckInv, TypeInv', BranchDone
  PROVE  StuckInv'
<1>1. TypeOK /\ branch.last \in Node /\ readyQueue \in Queues
  BY DEF StuckInv, TypeInv, TypeOK, BranchStarted, BranchDone, Queues
<1>2. ASSUME Jumped
      PROVE  Jumped'
  <2> DEFINE released == Targets(Releasing(inDegree, EdgesFrom(Edges(allNodes), branch.last)))
  <2>1. released \in Queues
    BY <1>1, LoweredType, NodesInQueue DEF TypeOK, Queues
  <2>2. readyQueue' = readyQueue \o released
    BY DEF BranchDone, Completes
  <2>3. readyQueue' # <<>> /\ Head(readyQueue') = Head(readyQueue)
    BY <1>1, <1>2, <2>1, <2>2, HeadOfConcat DEF Jumped, Queues
  <2> QED
    BY <1>2, <2>3 DEF Jumped
<1>3. \/ Jumped'
      \/ NoneForgotten => \A n \in Registered(allNodes) \ (executed \cup {branch.last}) :
                            inDegree[n] <= 0 => Queued(readyQueue, n)
  BY <1>2 DEF NoneForgotten
<1>4. /\ Completes(branch.last, readyQueue) /\ UNCHANGED <<graph, allNodes, dynamic>>
      /\ pc # "done" /\ RebuildIsGrowth'
  BY DEF BranchDone, sessVars, RebuildIsGrowth
<1> QED
  BY <1>1, <1>3, <1>4, Completing

LEMMA NextStuckInv == StuckInv /\ [Next]_vars => StuckInv'
<1> SUFFICES ASSUME StuckInv, [Next]_vars PROVE StuckInv'
  OBVIOUS
<1>1. TypeInv'
  BY NextTypeInv DEF StuckInv
<1>2. CASE UnknownNode \/ SnapshotMissing
  BY <1>1, <1>2, Ending DEF UnknownNode, SnapshotMissing, Return
<1>3. CASE SkipExecuted
  <2>1. \E n : n \in Node
    BY <1>3 DEF SkipExecuted, StuckInv, TypeInv, TypeOK
  <2> QED
    BY <1>1, <1>3, <2>1, QueueingSteps
<1>4. CASE Rebuild
  BY <1>1, <1>4 DEF Rebuild, StuckInv, RebuildIsGrowth, Return
<1>5. CASE Finalize
  <2>1. pc # "done" /\ pc' # "rebuild" /\ UNCHANGED <<graph, dagVars, dynamic>>
    BY <1>5 DEF Finalize, Return, sessVars
  <2> QED
    BY <1>1, <2>1, Keeping
<1>6. CASE StartBranch \/ Resume
  <2>1. pc # "done" /\ pc' # "rebuild" /\ UNCHANGED <<graph, dagVars, dynamic>>
    BY <1>6 DEF StartBranch, Resume, sessVars
  <2> QED
    BY <1>1, <2>1, Keeping
<1>7. CASE BranchDone
  BY <1>1, <1>7, BranchDoneStuck
<1>8. ASSUME NEW n \in Node, Step(n)
      PROVE  StuckInv'
  <2>1. CASE Requeue(n) \/ NodeYields(n) \/ AssertJumps(n)
    BY <1>1, <2>1, QueueingSteps
  <2>2. CASE BadWait(n) \/ JoinThrows(n) \/ NodeFails(n) \/ NodePauses(n) \/ BranchFails(n)
    <3>1. pc' = "done" /\ outcome' # "unmet"
      BY <2>2 DEF BadWait, JoinThrows, JoinError, NodeFails, NodePauses, BranchFails, Return
    <3> QED
      BY <1>1, <3>1, Ending
  <2>3. CASE RunFork(n) \/ RunJoin(n) \/ NodeCompletes(n)
    BY <1>1, <2>3, CompletingSteps
  <2>4. CASE BranchRuns(n)
    <3>1. pc = "branch" /\ pc' \in {"branch", "done"} /\ UNCHANGED <<graph, dagVars>>
      BY <2>4 DEF BranchRuns, HandedInBranch, InBranch, Return
    <3>2. ~dynamic'.present => ~dynamic.present
      BY <2>4, AppendedKeeps DEF BranchRuns
    <3> QED
      BY <1>1, <3>1, <3>2, Keeping
  <2> QED
    BY <1>8, <2>1, <2>2, <2>3, <2>4 DEF Step
<1>9. CASE UNCHANGED vars
  <2>1. UNCHANGED <<graph, allNodes, inDegree, readyQueue, executed, dynamic, pc, outcome>>
    BY <1>9 DEF vars, dagVars, sessVars
  <2>2. (DegreeBound /\ NoneForgotten)' = (DegreeBound /\ NoneForgotten)
    BY <2>1 DEF DegreeBound, Awaited, EdgesTo, Edges, NextEdges, WaitEdges, ForkEdgesTo, ForkEdges,
       NoneForgotten, Jumped, Registered, Queued
  <2> QED
    BY <1>1, <2>1, <2>2 DEF StuckInv, Going, RebuildIsGrowth
<1> QED
  BY <1>2, <1>3, <1>4, <1>5, <1>6, <1>7, <1>8, <1>9 DEF Next, Loop

-----------------------------------------------------------------------------
\* With an empty queue, every node left behind awaits a node that was not executed.
LEMMA StuckInvUnmet == StuckInv => UnmetIsStuck
<1> SUFFICES ASSUME StuckInv, outcome = "unmet", readyQueue = <<>>, ~dynamic.present,
                    NEW n \in LeftBehind, \A m \in Predecessors(n) : m \in executed
             PROVE  FALSE
  BY DEF UnmetIsStuck, Stuck
<1>1. TypeOK /\ DegreeBound /\ NoneForgotten /\ graph \in Graph /\ allNodes \in Seq(Node)
  BY DEF StuckInv, Going, TypeInv, TypeOK
<1>2. n \in Node /\ n \in Registered(allNodes) \ executed /\ n \notin BranchRoots
  BY <1>1, SeqPlaces DEF LeftBehind, Registered
<1>3. Awaited(n) = {}
  BY DEF Awaited, Predecessors
<1>4. ForkEdgesTo(allNodes, n) = {}
  <2>1. \A q \in DOMAIN allNodes : allNodes[q] \in Node
    BY <1>1, SeqPlaces
  <2> QED
    BY <1>2, <2>1 DEF ForkEdgesTo, ForkEdges, BranchRoots
<1>5. inDegree[n] <= 0
  <2>1. inDegree[n] <= Cardinality({}) + Cardinality({}) /\ inDegree[n] \in Int
    BY <1>1, <1>2, <1>3, <1>4 DEF DegreeBound, TypeOK
  <2> QED
    BY <2>1, FS_EmptySet
<1>6. Queued(readyQueue, n)
  BY <1>1, <1>2, <1>5 DEF NoneForgotten, Jumped
<1> QED
  BY <1>6 DEF Queued

(* Whatever the program, as long as it generates no subgraph: when the     *)
(* scheduler reports unmet dependencies with an empty queue, every node it *)
(* leaves behind, first nodes of branches aside, waits for a node that was *)
(* not executed; no node is lost by the in-degree bookkeeping of the loop, *)
(* of the branches, of forks, joins, requeues and yields.                  *)
THEOREM UnmetStuck == Spec => []UnmetIsStuck
<1> QED
  BY InitStuckInv, NextStuckInv, StuckInvUnmet, PTL DEF Spec

-----------------------------------------------------------------------------
(* A node runs once: what the steps preserve behind it.                    *)

\* Whether n is the first node of a branch, and whether the main loop may run it: it is the
\* entry point, or it has no fork before it and all that lead to it are executed.
Headed(n) == ForkEdgesTo(allNodes, n) # {}
Ready(n) == n = graph.entry \/ (~Headed(n) /\ Predecessors(n) \subseteq executed)

\* The subgraphs that have been registered, and those that wait to be, are there as a whole.
Whole(nodes) ==
  \A y \in nodes : \E m \in Node :
    /\ graph.type[m] = "gen" /\ y \in Registered(graph.subgraph[m])
    /\ Registered(graph.subgraph[m]) \subseteq nodes

Grown ==
  /\ Registered(graph.order) \subseteq Registered(allNodes)
  /\ \A y \in Registered(allNodes) \ Registered(graph.order) : \E m \in Node :
       /\ graph.type[m] = "gen" /\ y \in Registered(graph.subgraph[m])
       /\ Registered(graph.subgraph[m]) \subseteq Registered(allNodes)
  /\ Whole(Registered(dynamic.nodes))
  /\ pc # "done" => BuildOk(allNodes)

\* The edges to n that nobody of S has walked.
Unwalked(n, S) == {e \in EdgesTo(Edges(allNodes), n) : e[1] \notin S}

\* An in-degree counts no edge as walked that was not, and no edge of a fork.
Floor(deg, S) ==
  \A n \in Node : deg[n] >= Cardinality(Unwalked(n, S)) + Cardinality(ForkEdgesTo(allNodes, n))

QueuedReady ==
  \A i \in 1..Len(readyQueue) :
    \/ readyQueue[i] \in Registered(allNodes) /\ Ready(readyQueue[i])
    \/ readyQueue[i] = BadPath /\ i = 1 /\ pc = "loop" /\ ~BranchesLeft

\* The branches of the last fork that have not been run.
Pending == {fork.branches[i] : i \in {j \in DOMAIN fork.branches : j > fork.index}}

ForkKnown ==
  /\ fork.on => /\ fork.node \in executed \cap Registered(allNodes)
                /\ graph.type[fork.node] = "fork" /\ fork.branches = graph.branches[fork.node]
  /\ ~fork.on => fork.branches = <<>>

ForksOf(n) == {f \in Node : graph.type[f] = "fork" /\ n \in Registered(graph.branches[f])}

\* What branches that are over have run, and those of them that executed_ does not know.  The
\* first node of a branch is not run again, for its fork is executed; and of the others each
\* comes after one that executed_ will never know, and so never gets ready.
Old == {n \in Node : runs[n] > 0 /\ ~Ready(n) /\ n \notin branch.done}
Lost == Old \ executed
OldStays ==
  \A n \in Old : IF Headed(n) THEN ForksOf(n) \cap executed # {} /\ n \notin Pending
                              ELSE Predecessors(n) \cap Lost # {}

\* What the branch has run, and what it has queued.
ReadyInBranch(n) ==
  /\ n \in Registered(allNodes) /\ ~Headed(n)
  /\ Predecessors(n) \subseteq executed \cup branch.done /\ Predecessors(n) \cap branch.done # {}
RanInBranch(n) ==
  /\ runs[n] = 1
  /\ n = BranchToRun \/ (~Headed(n) /\ Predecessors(n) \cap (branch.done \ {branch.last}) # {})
BranchKnown ==
  IF pc = "branch"
  THEN /\ BranchesLeft
       /\ Floor(branch.inDegree, executed \cup branch.done)
       /\ branch.done \cap executed = {}
       /\ \A n \in branch.done : RanInBranch(n)
       /\ branch.done = {} => branch.queue = <<BranchToRun>>
       /\ branch.done # {} => \A i \in 1..Len(branch.queue) : ReadyInBranch(branch.queue[i])
       /\ branch.queue = <<>> => branch.last \in branch.done
  ELSE pc # "done" => branch.done = {}

Counted ==
  \A n \in Node :
    /\ runs[n] > 0 => n \in Registered(allNodes)
    /\ ~Ready(n) => runs[n] <= 1
    /\ runs[n] <= 1 + resumes
    /\ Ready(n) /\ n \notin executed /\ pc \notin {"yielded", "done"} /\ ~Jumped => runs[n] <= resumes

RunInv ==
  /\ Grown
  /\ pc # "done" => /\ Floor(inDegree, executed)
                    /\ QueuedReady /\ ForkKnown /\ OldStays /\ BranchKnown
                    /\ \A n \in executed : runs[n] > 0
  /\ Counted

\* Whoever wrote a value has run.
AuthorsRan(c) == \A k \in Key : c[k] \in Node => runs[c[k]] > 0
FirstNodes == Registered(fork.branches)
Apart ==
  /\ AuthorsRan(context)
  /\ \A n \in DOMAIN snapshots : AuthorsRan(snapshots[n])
  /\ \A i \in DOMAIN fork.results : AuthorsRan(fork.results[i])
  /\ pc = "branch" => AuthorsRan(branch.context)
  /\ Len(fork.results) = fork.index
  /\ \A i \in DOMAIN fork.results : \A k \in Key :
       fork.results[i][k] \notin FirstNodes \ {fork.branches[i]}
  /\ pc = "branch" => \A k \in Key : branch.context[k] \notin FirstNodes \ {BranchToRun}
  /\ pc # "done" /\ fork.on /\ fork.node \in DOMAIN snapshots =>
       \A k \in Key : snapshots[fork.node][k] \notin FirstNodes

-----------------------------------------------------------------------------
(* In-degrees that count too much rather than too little.                  *)

LEMMA UnwalkedFinite ==
  ASSUME TypeOK, NEW n, NEW S
  PROVE  /\ IsFiniteSet(Unwalked(n, S)) /\ IsFiniteSet(ForkEdgesTo(allNodes, n))
         /\ Cardinality(Unwalked(n, S)) \in Nat /\ Cardinality(ForkEdgesTo(allNodes, n)) \in Nat
<1>1. IsFiniteSet(EdgesTo(Edges(allNodes), n)) /\ IsFiniteSet(ForkEdgesTo(allNodes, n))
  BY EdgesToFinite DEF TypeOK
<1>2. IsFiniteSet(Unwalked(n, S))
  BY <1>1, FS_Subset DEF Unwalked
<1> QED
  BY <1>1, <1>2, FS_CardinalityType

\* What is lowered by edges that were not walked yet still counts all the others.
LEMMA FloorLowered ==
  ASSUME TypeOK, NEW deg \in [Node -> Int], NEW S, NEW m, m \notin S,
         NEW out \in SUBSET EdgesFrom(Edges(allNodes), m), Floor(deg, S)
  PROVE  Floor(Lowered(deg, out), S \cup {m})
<1> SUFFICES ASSUME NEW t \in Node
             PROVE  Lowered(deg, out)[t]
                      >= Cardinality(Unwalked(t, S \cup {m})) + Cardinality(ForkEdgesTo(allNodes, t))
  BY DEF Floor
<1> DEFINE before == Unwalked(t, S)
           after == Unwalked(t, S \cup {m})
           gone == EdgesTo(out, t)
           forks == ForkEdgesTo(allNodes, t)
<1>1. gone \subseteq before /\ after \subseteq before \ gone
  BY DEF Unwalked, EdgesTo, EdgesFrom
<1>2. /\ IsFiniteSet(before) /\ Cardinality(before) \in Nat /\ Cardinality(after) \in Nat
      /\ Cardinality(forks) \in Nat
  BY UnwalkedFinite
<1>3. Lowered(deg, out)[t] = deg[t] - Cardinality(gone)
  BY DEF Lowered
<1>4. deg[t] >= Cardinality(before) + Cardinality(forks) /\ deg[t] \in Int
  BY DEF Floor
<1> HIDE DEF before, after, gone, forks
<1>5. IsFiniteSet(gone) /\ Cardinality(gone) \in Nat
  BY <1>1, <1>2, FS_Subset, FS_CardinalityType
<1>6. before \cap gone = gone
  BY <1>1
<1>7. /\ Cardinality(before \ gone) = Cardinality(before) - Cardinality(gone)
      /\ IsFiniteSet(before \ gone)
  BY <1>2, <1>6, FS_Difference
<1>8. Cardinality(after) <= Cardinality(before \ gone)
  BY <1>1, <1>7, FS_Subset
<1> QED
  BY <1>2, <1>3, <1>4, <1>5, <1>7, <1>8 DEF after, forks

\* A node is released by the last of the edges to it, and by no fork.
LEMMA ReleasedLast ==
  ASSUME TypeOK, NEW deg \in [Node -> Int], NEW S, NEW m, m \notin S,
         NEW out \in SUBSET EdgesFrom(Edges(allNodes), m), Floor(deg, S),
         NEW e \in Releasing(deg, out)
  PROVE  /\ e[4] \in Node
         /\ ~Headed(e[4]) /\ Predecessors(e[4]) \subseteq S \cup {m} /\ m \in Predecessors(e[4])
<1> DEFINE t == e[4]
           before == Unwalked(t, S)
           T == {f \in EdgesTo(out, t) : NotAfter(f, e)}
           forks == ForkEdgesTo(allNodes, t)
<1>1. e \in out /\ deg[t] = Cardinality(T)
  BY DEF Releasing
<1>2. e \in EdgeType /\ t \in Node /\ e[1] = m /\ e \in EdgesTo(Edges(allNodes), t)
  BY <1>1, EdgesType DEF EdgesFrom, EdgesTo, EdgeType, TypeOK
<1>3. T \subseteq before
  BY DEF Unwalked, EdgesTo, EdgesFrom
<1>4. /\ IsFiniteSet(before) /\ Cardinality(before) \in Nat
      /\ IsFiniteSet(forks) /\ Cardinality(forks) \in Nat
  BY UnwalkedFinite
<1>5. deg[t] >= Cardinality(before) + Cardinality(forks)
  BY <1>2 DEF Floor
<1>6. \A f \in T : f[1] = m
  BY DEF EdgesTo, EdgesFrom
<1>7. m \in Predecessors(t)
  BY <1>2 DEF Predecessors
<1>8. ASSUME before \subseteq T
      PROVE  Predecessors(t) \subseteq S \cup {m}
  BY <1>6, <1>8 DEF Predecessors, Unwalked
<1>9. ASSUME forks = {}
      PROVE  ~Headed(t)
  BY <1>9 DEF Headed
<1> HIDE DEF before, T, forks, t
<1>10. Cardinality(T) <= Cardinality(before) /\ Cardinality(T) \in Nat
  BY <1>3, <1>4, FS_Subset, FS_CardinalityType
<1>11. Cardinality(forks) = 0 /\ Cardinality(T) = Cardinality(before)
  BY <1>1, <1>4, <1>5, <1>10
<1>12. forks = {} /\ T = before
  BY <1>3, <1>4, <1>11, FS_EmptySet, FS_Subset
<1>13. ~Headed(t) /\ Predecessors(t) \subseteq S \cup {m}
  BY <1>8, <1>9, <1>12
<1> QED
  BY <1>2, <1>7, <1>13 DEF t

-----------------------------------------------------------------------------
(* What is queued, in terms of the nodes and not of their edges.           *)

LEMMA TargetsAre ==
  ASSUME NEW S, Linear(S), NEW i \in 1..Len(Targets(S))
  PROVE  \E e \in S : Targets(S)[i] = e[4]
<1>1. i \in 1..Cardinality(S)
  BY TargetsType
<1>2. PICK e \in S : Rank(S, e) = i
  BY <1>1, RankOnto
<1>3. (CHOOSE f \in S : Rank(S, f) = i) = e
  BY <1>2, RankInjective
<1>4. Targets(S)[i] = e[4]
  BY <1>1, <1>3 DEF Targets, Rank
<1> QED
  BY <1>4

LEMMA RootsAre ==
  ASSUME graph \in Graph, NEW order \in Seq(Node),
         NEW i \in 1..Len(Roots(order, BuiltInDegree(order)))
  PROVE  \E r \in Registered(order) :
           /\ Roots(order, BuiltInDegree(order))[i] = r
           /\ EdgesTo(Edges(order), r) = {} /\ ForkEdgesTo(order, r) = {}
<1> DEFINE deg == BuiltInDegree(order)
           R == {<<order[p], 0, p, order[p]>> : p \in {r \in DOMAIN order : deg[order[r]] = 0}}
<1>1. Linear(R)
  BY RootsLinear
<1>2. PICK e \in R : Targets(R)[i] = e[4]
  BY <1>1, TargetsAre DEF Roots
<1>3. PICK p \in DOMAIN order : e = <<order[p], 0, p, order[p]>> /\ deg[order[p]] = 0
  BY <1>2
<1>4. PICK r : r = order[p]
  OBVIOUS
<1>5. r \in Node /\ r \in Registered(order) /\ e[4] = r /\ deg[r] = 0
  BY <1>3, <1>4, SeqPlaces DEF Registered
<1>6. /\ IsFiniteSet(EdgesTo(Edges(order), r)) /\ IsFiniteSet(ForkEdgesTo(order, r))
      /\ Cardinality(EdgesTo(Edges(order), r)) \in Nat /\ Cardinality(ForkEdgesTo(order, r)) \in Nat
  BY EdgesToFinite, FS_CardinalityType
<1>7. Cardinality(EdgesTo(Edges(order), r)) = 0 /\ Cardinality(ForkEdgesTo(order, r)) = 0
  BY <1>5, <1>6, BuiltAwaits
<1>8. EdgesTo(Edges(order), r) = {} /\ ForkEdgesTo(order, r) = {}
  BY <1>6, <1>7, FS_EmptySet
<1>9. Roots(order, deg)[i] = r
  BY <1>2, <1>5 DEF Roots
<1> QED
  BY <1>5, <1>8, <1>9

\* The nodes that lead to n when order is registered.
PredecessorsIn(order, n) == {e[1] : e \in EdgesTo(Edges(order), n)}

LEMMA PredecessorsAre ==
  ASSUME graph \in Graph, NEW order \in Seq(Node), NEW n \in Node, NEW m
  PROVE  m \in PredecessorsIn(order, n) <=>
           \/ m \in Registered(order) /\ n \in Registered(graph.next[m])
           \/ n \in Registered(order) /\ m \in Registered(graph.waitFor[n])
<1>1. ASSUME NEW e \in EdgesTo(Edges(order), n), m = e[1]
      PROVE  \/ m \in Registered(order) /\ n \in Registered(graph.next[m])
             \/ n \in Registered(order) /\ m \in Registered(graph.waitFor[n])
  <2>1. CASE e \in NextEdges(order)
    <3>1. PICK p \in DOMAIN order : \E i \in DOMAIN graph.next[order[p]] :
                 e = <<order[p], 0, i, graph.next[order[p]][i]>>
      BY <2>1 DEF NextEdges
    <3>2. PICK i \in DOMAIN graph.next[order[p]] : e = <<order[p], 0, i, graph.next[order[p]][i]>>
      BY <3>1
    <3>3. m = order[p] /\ n = graph.next[order[p]][i]
      BY <1>1, <3>2 DEF EdgesTo
    <3> QED
      BY <3>3 DEF Registered
  <2>2. CASE e \in WaitEdges(order)
    <3>1. PICK p \in DOMAIN order : \E i \in DOMAIN graph.waitFor[order[p]] :
                 e = <<graph.waitFor[order[p]][i], p, i, order[p]>>
      BY <2>2 DEF WaitEdges
    <3>2. PICK i \in DOMAIN graph.waitFor[order[p]] : e = <<graph.waitFor[order[p]][i], p, i, order[p]>>
      BY <3>1
    <3>3. n = order[p] /\ m = graph.waitFor[order[p]][i]
      BY <1>1, <3>2 DEF EdgesTo
    <3> QED
      BY <3>3 DEF Registered
  <2> QED
    BY <2>1, <2>2 DEF EdgesTo, Edges
<1>2. ASSUME m \in Registered(order), n \in Registered(graph.next[m])
      PROVE  m \in PredecessorsIn(order, n)
  <2>1. PICK p \in DOMAIN order : m = order[p]
    BY <1>2 DEF Registered
  <2>2. PICK i \in DOMAIN graph.next[m] : n = graph.next[m][i]
    BY <1>2 DEF Registered
  <2>3. PICK e : e = <<m, 0, i, n>>
    OBVIOUS
  <2>4. e \in NextEdges(order)
    BY <2>1, <2>2, <2>3 DEF NextEdges
  <2> QED
    BY <2>3, <2>4 DEF PredecessorsIn, EdgesTo, Edges
<1>3. ASSUME n \in Registered(order), m \in Registered(graph.waitFor[n])
      PROVE  m \in PredecessorsIn(order, n)
  <2>1. PICK p \in DOMAIN order : n = order[p]
    BY <1>3 DEF Registered
  <2>2. PICK i \in DOMAIN graph.waitFor[n] : m = graph.waitFor[n][i]
    BY <1>3 DEF Registered
  <2>3. PICK e : e = <<m, p, i, n>>
    OBVIOUS
  <2>4. e \in WaitEdges(order)
    BY <2>1, <2>2, <2>3 DEF WaitEdges
  <2> QED
    BY <2>3, <2>4 DEF PredecessorsIn, EdgesTo, Edges
<1> QED
  BY <1>1, <1>2, <1>3 DEF PredecessorsIn

LEMMA HeadedIs ==
  ASSUME NEW order, NEW n
  PROVE  ForkEdgesTo(order, n) # {} <=>
           \E f \in Registered(order) : graph.type[f] = "fork" /\ n \in Registered(graph.branches[f])
<1>1. ASSUME NEW e \in ForkEdgesTo(order, n)
      PROVE  \E f \in Registered(order) : graph.type[f] = "fork" /\ n \in Registered(graph.branches[f])
  <2>1. PICK p \in {q \in DOMAIN order : graph.type[order[q]] = "fork"} :
               e \in {<<p, i, graph.branches[order[p]][i]>> : i \in DOMAIN graph.branches[order[p]]}
    BY DEF ForkEdgesTo, ForkEdges
  <2>2. PICK i \in DOMAIN graph.branches[order[p]] : e = <<p, i, graph.branches[order[p]][i]>>
    BY <2>1
  <2>3. n = graph.branches[order[p]][i]
    BY <2>2 DEF ForkEdgesTo
  <2> QED
    BY <2>1, <2>3 DEF Registered
<1>2. ASSUME NEW f \in Registered(order), graph.type[f] = "fork", n \in Registered(graph.branches[f])
      PROVE  ForkEdgesTo(order, n) # {}
  <2>1. PICK p \in DOMAIN order : f = order[p]
    BY DEF Registered
  <2>2. PICK i \in DOMAIN graph.branches[f] : n = graph.branches[f][i]
    BY <1>2 DEF Registered
  <2>3. PICK e : e = <<p, i, n>>
    OBVIOUS
  <2>4. e \in ForkEdges(order)
    BY <1>2, <2>1, <2>2, <2>3 DEF ForkEdges
  <2> QED
    BY <2>3, <2>4 DEF ForkEdgesTo
<1> QED
  BY <1>1, <1>2

LEMMA RegisteredBoth ==
  ASSUME NEW S, NEW a \in Seq(S), NEW b \in Seq(S)
  PROVE  Registered(a \o b) = Registered(a) \cup Registered(b) /\ Registered(a) \subseteq S
<1>1. /\ DOMAIN (a \o b) = 1..(Len(a) + Len(b)) /\ DOMAIN a = 1..Len(a) /\ DOMAIN b = 1..Len(b)
      /\ Len(a) \in Nat /\ Len(b) \in Nat
      /\ \A i \in 1..(Len(a) + Len(b)) : (a \o b)[i] = IF i <= Len(a) THEN a[i] ELSE b[i - Len(a)]
  BY ConcatProperties, LenProperties
<1> DEFINE c == a \o b
<1> HIDE DEF c
<1>2. ASSUME NEW i \in DOMAIN c
      PROVE  c[i] \in Registered(a) \cup Registered(b)
  BY <1>1 DEF Registered, c
<1>3. ASSUME NEW i \in DOMAIN a
      PROVE  a[i] \in Registered(c)
  <2>1. i \in DOMAIN c /\ c[i] = a[i]
    BY <1>1 DEF c
  <2> QED
    BY <2>1 DEF Registered
<1>4. ASSUME NEW i \in DOMAIN b
      PROVE  b[i] \in Registered(c)
  <2>1. Len(a) + i \in DOMAIN c /\ c[Len(a) + i] = b[i]
    BY <1>1 DEF c
  <2> QED
    BY <2>1 DEF Registered
<1>5. Registered(a) \subseteq S
  BY SeqPlaces DEF Registered
<1> QED
  BY <1>2, <1>3, <1>4, <1>5 DEF Registered, c

\* What a rebuild adds leads to nothing that was there.
LEMMA NoneLedToNew ==
  ASSUME TypeOK, Proper, Grown, pc # "done", NEW n \in Registered(allNodes),
         NEW order, order = allNodes \o dynamic.nodes
  PROVE  /\ PredecessorsIn(order, n) = Predecessors(n)
         /\ ForkEdgesTo(order, n) # {} <=> Headed(n)
<1>1. graph \in Graph /\ allNodes \in Seq(Node) /\ dynamic.nodes \in Seq(Node)
  BY DEF TypeOK
<1>2. /\ order \in Seq(Node) /\ Registered(order) = Registered(allNodes) \cup Registered(dynamic.nodes)
      /\ Registered(allNodes) \subseteq Node /\ Registered(dynamic.nodes) \subseteq Node
  BY <1>1, RegisteredBoth, ConcatProperties
<1>3. ASSUME NEW x \in Registered(order), x \notin Registered(allNodes)
      PROVE  n \notin LeadsTo(x)
  <2>1. SUFFICES ASSUME n \in LeadsTo(x) PROVE FALSE
    OBVIOUS
  <2>2. PICK m \in Node : graph.type[m] = "gen" /\ x \in Registered(graph.subgraph[m])
    BY <1>2, <1>3 DEF Grown, Whole
  <2>3. x \notin Registered(graph.order)
    BY <1>3 DEF Grown
  <2>4. /\ n \notin Registered(graph.order)
        /\ \A o \in Node : graph.type[o] = "gen" /\ n \in Registered(graph.subgraph[o]) =>
                             x \in Registered(graph.subgraph[o])
    BY <2>1, <2>2, <2>3 DEF Proper, GrowthApart
  <2>5. PICK o \in Node : /\ graph.type[o] = "gen" /\ n \in Registered(graph.subgraph[o])
                          /\ Registered(graph.subgraph[o]) \subseteq Registered(allNodes)
    BY <2>4 DEF Grown
  <2> QED
    BY <1>3, <2>4, <2>5
<1>4. n \in Node
  BY <1>2
<1>5. Predecessors(n) = PredecessorsIn(allNodes, n)
  BY DEF Predecessors, PredecessorsIn
<1>6. ASSUME NEW m
      PROVE  m \in PredecessorsIn(order, n) <=> m \in PredecessorsIn(allNodes, n)
  <2>1. m \in PredecessorsIn(order, n) <=>
           \/ m \in Registered(order) /\ n \in Registered(graph.next[m])
           \/ n \in Registered(order) /\ m \in Registered(graph.waitFor[n])
    BY <1>1, <1>2, <1>4, PredecessorsAre
  <2>2. m \in PredecessorsIn(allNodes, n) <=>
           \/ m \in Registered(allNodes) /\ n \in Registered(graph.next[m])
           \/ n \in Registered(allNodes) /\ m \in Registered(graph.waitFor[n])
    BY <1>1, <1>4, PredecessorsAre
  <2>3. m \in Registered(order) /\ n \in Registered(graph.next[m]) => m \in Registered(allNodes)
    BY <1>3 DEF LeadsTo
  <2> QED
    BY <1>2, <2>1, <2>2, <2>3
<1>7. ASSUME NEW f \in Registered(order), graph.type[f] = "fork", n \in Registered(graph.branches[f])
      PROVE  f \in Registered(allNodes)
  BY <1>3, <1>7 DEF LeadsTo
<1>8. ForkEdgesTo(order, n) # {} <=> Headed(n)
  <2>1. ForkEdgesTo(order, n) # {} <=>
           \E f \in Registered(order) : graph.type[f] = "fork" /\ n \in Registered(graph.branches[f])
    BY HeadedIs
  <2>2. Headed(n) <=>
           \E f \in Registered(allNodes) : graph.type[f] = "fork" /\ n \in Registered(graph.branches[f])
    BY HeadedIs DEF Headed
  <2> QED
    BY <1>2, <1>7, <2>1, <2>2
<1> QED
  BY <1>5, <1>6, <1>8

-----------------------------------------------------------------------------
(* Who is ready stays so, and who waits for what is lost waits for ever.   *)

ReadyHere(n) == n \in Registered(allNodes) /\ Ready(n)

LEMMA ReadyStays ==
  ASSUME UNCHANGED <<graph, allNodes>>, executed \subseteq executed', NEW n
  PROVE  /\ Headed(n)' <=> Headed(n)
         /\ Predecessors(n)' = Predecessors(n)
         /\ Ready(n) => Ready(n)'
         /\ ReadyHere(n) => ReadyHere(n)'
<1>1. Headed(n)' <=> Headed(n)
  BY DEF Headed, ForkEdgesTo, ForkEdges
<1>2. Predecessors(n)' = Predecessors(n)
  BY DEF Predecessors, EdgesTo, Edges, NextEdges, WaitEdges
<1>3. Registered(allNodes)' = Registered(allNodes)
  BY DEF Registered
<1> QED
  BY <1>1, <1>2, <1>3 DEF Ready, ReadyHere

LEMMA OldWaits ==
  ASSUME OldStays, UNCHANGED <<graph, allNodes>>, executed \subseteq executed',
         executed' \cap Lost = {}, NEW n \in Old
  PROVE  ~Ready(n)'
<1>1. n # graph.entry
  BY DEF Old, Ready
<1>2. CASE Headed(n)
  BY <1>1, <1>2, ReadyStays DEF Ready
<1>3. CASE ~Headed(n)
  <2>1. PICK p \in Lost : p \in Predecessors(n)
    BY <1>3 DEF OldStays
  <2> QED
    BY <1>1, <2>1, ReadyStays DEF Ready
<1> QED
  BY <1>2, <1>3

\* Steps outside a branch that run a node which is ready, if any.
LEMMA OldKept ==
  ASSUME OldStays, UNCHANGED <<graph, allNodes>>, executed \subseteq executed',
         executed' \cap Lost = {}, branch.done = {}, branch'.done = {},
         \A n \in Node : (runs'[n] > 0 /\ ~Ready(n)) <=> (runs[n] > 0 /\ ~Ready(n)),
         \A n \in Old : Headed(n) => n \notin Pending'
  PROVE  OldStays' /\ Old' = Old
<1>1. \A n \in Old : ~Ready(n)'
  BY OldWaits
<1>2. \A n \in Node : ~Ready(n)' => ~Ready(n)
  BY ReadyStays
<1>3. ASSUME NEW n \in Node
      PROVE  (runs[n] > 0 /\ ~Ready(n) /\ n \notin branch.done)' <=> n \in Old
  BY <1>1, <1>2 DEF Old
<1>4. Old' = Old
  BY <1>3 DEF Old
<1>5. Lost' = Lost
  BY <1>4 DEF Lost
<1>6. ASSUME NEW n \in Old
      PROVE  (IF Headed(n) THEN ForksOf(n) \cap executed # {} /\ n \notin Pending
                           ELSE Predecessors(n) \cap Lost # {})'
  <2>1. (Headed(n)' <=> Headed(n)) /\ Predecessors(n)' = Predecessors(n)
    BY ReadyStays
  <2>2. CASE Headed(n)
    <3>1. ForksOf(n) \cap executed # {} /\ n \notin Pending'
      BY <2>2 DEF OldStays
    <3>2. ForksOf(n)' = ForksOf(n)
      BY DEF ForksOf, Registered
    <3> QED
      BY <2>1, <2>2, <3>1, <3>2
  <2>3. CASE ~Headed(n)
    <3>1. Predecessors(n) \cap Lost # {}
      BY <2>3 DEF OldStays
    <3> QED
      BY <1>5, <2>1, <2>3, <3>1
  <2> QED
    BY <2>2, <2>3
<1> QED
  BY <1>4, <1>6 DEF OldStays

\* The graph being what it was, what is counted depends on the in-degrees and on who walked.
LEMMA FloorStays ==
  ASSUME UNCHANGED <<graph, allNodes>>
  PROVE  \A deg, S : Floor(deg, S)' <=> Floor(deg, S)
<1> TAKE deg, S
<1>1. \A n : Unwalked(n, S)' = Unwalked(n, S)
  BY DEF Unwalked, EdgesTo, Edges, NextEdges, WaitEdges
<1>2. \A n : ForkEdgesTo(allNodes, n)' = ForkEdgesTo(allNodes, n)
  BY DEF ForkEdgesTo, ForkEdges
<1> QED
  BY <1>1, <1>2 DEF Floor

LEMMA QueueGoesOn ==
  ASSUME UNCHANGED <<graph, allNodes>>, executed \subseteq executed',
         \A i \in 1..Len(readyQueue') : \E x : x = readyQueue'[i] /\ (ReadyHere(x) \/ ReadyHere(x)')
  PROVE  QueuedReady'
<1> SUFFICES ASSUME NEW i \in 1..Len(readyQueue')
             PROVE  (readyQueue[i] \in Registered(allNodes) /\ Ready(readyQueue[i]))'
  BY DEF QueuedReady
<1>1. PICK x : x = readyQueue'[i] /\ (ReadyHere(x) \/ ReadyHere(x)')
  OBVIOUS
<1>2. ReadyHere(x)'
  BY <1>1, ReadyStays
<1> QED
  BY <1>1, <1>2 DEF ReadyHere, Ready, Headed, Predecessors

\* The entry point has nothing before it.
LEMMA EntryIsFirst ==
  ASSUME TypeOK, Proper, graph.entry # None
  PROVE  graph.entry \in Node /\ ~Headed(graph.entry) /\ Predecessors(graph.entry) = {}
<1>1. /\ graph \in Graph /\ allNodes \in Seq(Node)
      /\ graph.entry \in Node
  BY GraphTypes DEF TypeOK
<1>2. Registered(allNodes) \subseteq Node
  BY <1>1, SeqPlaces DEF Registered
<1>3. ~Headed(graph.entry)
  <2>1. SUFFICES ASSUME Headed(graph.entry) PROVE FALSE
    OBVIOUS
  <2>2. PICK f \in Registered(allNodes) :
          graph.type[f] = "fork" /\ graph.entry \in Registered(graph.branches[f])
    BY <2>1, HeadedIs DEF Headed
  <2>3. graph.entry \in BranchRoots
    BY <1>2, <2>2 DEF BranchRoots, Registered
  <2> QED
    BY <2>3 DEF Proper, EntryApart
<1>4. ASSUME NEW m \in Predecessors(graph.entry)
      PROVE  FALSE
  <2>1. m \in PredecessorsIn(allNodes, graph.entry)
    BY DEF Predecessors, PredecessorsIn
  <2>2. \/ m \in Registered(allNodes) /\ graph.entry \in Registered(graph.next[m])
        \/ m \in Registered(graph.waitFor[graph.entry])
    BY <1>1, <2>1, PredecessorsAre
  <2> QED
    BY <1>2, <2>2 DEF Proper, EntryApart, Registered
<1> QED
  BY <1>1, <1>3, <1>4

\* What completing a node does to in-degrees and queue.
LEMMA CompletesReady ==
  ASSUME TypeOK, NEW m \in Node, m \notin executed, NEW q \in Queues, Completes(m, q),
         UNCHANGED <<graph, allNodes>>, Floor(inDegree, executed), BuildOk(allNodes),
         \A i \in 1..Len(q) : \E x : x = q[i] /\ ReadyHere(x)
  PROVE  Floor(inDegree, executed)' /\ QueuedReady'
<1> DEFINE out == EdgesFrom(Edges(allNodes), m)
           released == Targets(Releasing(inDegree, out))
<1>1. inDegree' = Lowered(inDegree, out) /\ executed' = executed \cup {m} /\ readyQueue' = q \o released
  BY DEF Completes
<1>2. inDegree \in [Node -> Int] /\ out \in SUBSET EdgesFrom(Edges(allNodes), m)
  BY DEF TypeOK
<1>3. Floor(Lowered(inDegree, out), executed \cup {m})
  BY <1>2, FloorLowered
<1>4. Floor(inDegree, executed)'
  BY <1>1, <1>3, FloorStays
<1>5. ASSUME NEW i \in 1..Len(released)
      PROVE  \E x : x = released[i] /\ ReadyHere(x)'
  <2>1. Linear(Releasing(inDegree, out))
    BY <1>2, LoweredType DEF TypeOK
  <2>2. PICK e \in Releasing(inDegree, out) : released[i] = e[4]
    BY <2>1, TargetsAre
  <2>3. ~Headed(e[4]) /\ Predecessors(e[4]) \subseteq executed \cup {m}
    BY <1>2, ReleasedLast
  <2>4. e[4] \in Registered(allNodes)
    BY DEF BuildOk, Releasing, EdgesFrom
  <2>5. PICK x : x = e[4]
    OBVIOUS
  <2>6. ReadyHere(x)'
    <3>1. executed \subseteq executed'
      BY <1>1
    <3>2. (Headed(x)' <=> Headed(x)) /\ Predecessors(x)' = Predecessors(x)
      BY <3>1, ReadyStays
    <3> QED
      BY <1>1, <2>3, <2>4, <2>5, <3>2 DEF ReadyHere, Ready, Registered
  <2> QED
    BY <2>2, <2>5, <2>6
<1>6. released \in Queues
  BY <1>2, LoweredType, NodesInQueue DEF TypeOK, Queues
<1> HIDE DEF released, out
<1>7. ASSUME NEW i \in 1..Len(readyQueue')
      PROVE  \E x : x = readyQueue'[i] /\ (ReadyHere(x) \/ ReadyHere(x)')
  <2>1. /\ Len(q \o released) = Len(q) + Len(released) /\ Len(q) \in Nat /\ Len(released) \in Nat
        /\ (q \o released)[i] = IF i <= Len(q) THEN q[i] ELSE released[i - Len(q)]
    BY <1>1, <1>6, ConcatProperties, LenProperties DEF Queues
  <2>2. CASE i <= Len(q)
    BY <1>1, <2>1, <2>2
  <2>3. CASE ~(i <= Len(q))
    <3>1. i - Len(q) \in 1..Len(released)
      BY <1>1, <2>1, <2>3
    <3>2. readyQueue'[i] = released[i - Len(q)]
      BY <1>1, <2>1, <2>3
    <3> QED
      BY <1>5, <3>1, <3>2
  <2> QED
    BY <2>2, <2>3
<1>8. QueuedReady'
  BY <1>1, <1>7, QueueGoesOn
<1> QED
  BY <1>4, <1>8

-----------------------------------------------------------------------------
(* The steps of the main loop.                                             *)

\* What is known of the node at the head of the queue, and of the rest.
LEMMA HeadIsReady ==
  ASSUME TypeOK, RunInv, NEW m \in Node, Dispatching, Head(readyQueue) = m
  PROVE  /\ pc = "loop" /\ ReadyHere(m) /\ ~Jumped /\ branch.done = {} /\ Rest \in Queues
         /\ \A i \in 1..Len(Rest) : \E x : x = Rest[i] /\ ReadyHere(x)
         /\ m \notin executed => runs[m] <= resumes
         /\ BuildOk(allNodes) /\ Floor(inDegree, executed) /\ OldStays /\ Counted /\ m \notin Old
<1>1. pc = "loop" /\ readyQueue # <<>> /\ readyQueue \in Queues
  BY DEF Dispatching, TypeOK, Queues
<1>2. /\ QueuedReady /\ BranchKnown /\ BuildOk(allNodes) /\ Floor(inDegree, executed) /\ OldStays
      /\ Counted
  BY <1>1 DEF RunInv, Grown
<1>3. m # BadPath
  BY NamesAssumption
<1>4. /\ Len(readyQueue) \in Nat /\ Len(readyQueue) >= 1 /\ readyQueue[1] = m
      /\ Rest \in Queues /\ Len(Rest) = Len(readyQueue) - 1
      /\ \A i \in 1..Len(Rest) : Rest[i] = readyQueue[i + 1]
  BY <1>1, HeadTailProperties, LenProperties, EmptySeq DEF Rest, Queues
<1>5. readyQueue[1] \in Registered(allNodes) /\ Ready(readyQueue[1])
  BY <1>2, <1>3, <1>4 DEF QueuedReady
<1>6. ReadyHere(m)
  BY <1>4, <1>5 DEF ReadyHere
<1>7. ASSUME NEW i \in 1..Len(Rest)
      PROVE  \E x : x = Rest[i] /\ ReadyHere(x)
  <2>1. i + 1 \in 1..Len(readyQueue) /\ i + 1 # 1 /\ Rest[i] = readyQueue[i + 1]
    BY <1>4
  <2>2. PICK x : x = readyQueue[i + 1]
    OBVIOUS
  <2>3. ReadyHere(x)
    BY <1>2, <2>1, <2>2 DEF QueuedReady, ReadyHere
  <2> QED
    BY <2>1, <2>2, <2>3
<1>8. ~Jumped
  BY <1>3 DEF Jumped
<1>9. m \notin executed => runs[m] <= resumes
  BY <1>1, <1>2, <1>6, <1>8 DEF Counted, ReadyHere
<1>10. branch.done = {} /\ m \notin Old
  BY <1>1, <1>2, <1>6 DEF BranchKnown, Old, ReadyHere
<1> QED
  BY <1>1, <1>2, <1>4, <1>6, <1>7, <1>8, <1>9, <1>10

\* How often a step has run each node: only m, and only if it may.
MayRun(m) ==
  /\ ReadyHere(m) /\ m \notin executed /\ runs[m] <= resumes /\ runs' = [runs EXCEPT ![m] = @ + 1]

LEMMA StillCounted ==
  ASSUME TypeOK, TypeOK', Counted, OldStays, branch.done = {}, UNCHANGED <<graph, allNodes, resumes>>,
         executed \subseteq executed', executed' \cap Lost = {},
         NEW m \in Node, UNCHANGED runs \/ MayRun(m),
         UNCHANGED runs => (pc \notin {"yielded", "done"} /\ ~Jumped) \/ pc' = "done",
         MayRun(m) => /\ m \in executed' \/ pc' \in {"yielded", "done"} \/ Jumped'
                      /\ pc \notin {"yielded", "done"} /\ ~Jumped
  PROVE  Counted'
<1>1. \A n \in Node : /\ runs[n] \in Nat /\ runs'[n] \in Nat
                      /\ runs'[n] = runs[n] \/ (n = m /\ MayRun(m) /\ runs'[n] = runs[n] + 1)
  BY DEF TypeOK, MayRun
<1>2. resumes \in Nat /\ resumes' = resumes
  BY DEF TypeOK
<1> SUFFICES ASSUME NEW n \in Node
             PROVE  /\ runs'[n] > 0 => n \in Registered(allNodes)'
                    /\ ~Ready(n)' => runs'[n] <= 1
                    /\ runs'[n] <= 1 + resumes'
                    /\ Ready(n)' /\ n \notin executed' /\ pc' \notin {"yielded", "done"} /\ ~Jumped' =>
                         runs'[n] <= resumes'
  BY DEF Counted
<1>3. /\ runs[n] > 0 => n \in Registered(allNodes)
      /\ ~Ready(n) => runs[n] <= 1
      /\ runs[n] <= 1 + resumes
      /\ Ready(n) /\ n \notin executed /\ pc \notin {"yielded", "done"} /\ ~Jumped => runs[n] <= resumes
  BY DEF Counted
<1>4. Registered(allNodes)' = Registered(allNodes) /\ (Ready(n) => Ready(n)')
  BY ReadyStays DEF Registered
<1>5. CASE n = m /\ MayRun(m) /\ runs'[n] = runs[n] + 1
  <2>1. Ready(m) /\ m \in Registered(allNodes) /\ runs[m] <= resumes
    BY <1>5 DEF MayRun, ReadyHere
  <2> QED
    BY <1>1, <1>2, <1>4, <1>5, <2>1
<1>6. CASE runs'[n] = runs[n]
  <2>1. /\ runs'[n] > 0 => n \in Registered(allNodes)'
        /\ ~Ready(n)' => runs'[n] <= 1
        /\ runs'[n] <= 1 + resumes'
    BY <1>2, <1>3, <1>4, <1>6
  <2>2. ASSUME Ready(n)', n \notin executed', pc' \notin {"yielded", "done"}
        PROVE  runs'[n] <= resumes'
    <3>1. pc \notin {"yielded", "done"} /\ ~Jumped /\ n \notin executed
      BY <2>2
    <3>2. CASE Ready(n)
      BY <1>2, <1>3, <1>6, <3>1, <3>2
    <3>3. CASE ~Ready(n)
      <4>1. n \notin Old
        BY <2>2, OldWaits
      <4>2. ~(runs[n] > 0)
        BY <3>3, <4>1 DEF Old
      <4> QED
        BY <1>1, <1>2, <1>6, <4>2
    <3> QED
      BY <3>2, <3>3
  <2> QED
    BY <2>1, <2>2
<1> QED
  BY <1>1, <1>5, <1>6

LEMMA StillGrown ==
  ASSUME Grown, UNCHANGED <<graph, allNodes>>, Whole(Registered(dynamic.nodes))',
         pc # "done" \/ pc' = "done"
  PROVE  Grown'
<1>1. Registered(allNodes)' = Registered(allNodes) /\ Registered(graph.order)' = Registered(graph.order)
  BY DEF Registered
<1>2. \A m \in Node : Registered(graph.subgraph[m])' = Registered(graph.subgraph[m])
  BY DEF Registered
<1>3. BuildOk(allNodes)' <=> BuildOk(allNodes)
  BY DEF BuildOk, Edges, NextEdges, WaitEdges, ForkEdges, Registered
<1> QED
  BY <1>1, <1>2, <1>3 DEF Grown

\* A node that generates a subgraph hands it over as a whole.
LEMMA AppendedWhole ==
  ASSUME TypeOK, Grown, UNCHANGED graph, NEW n,
         (n \in Node /\ Appended(n)) \/ UNCHANGED dynamic
  PROVE  Whole(Registered(dynamic.nodes))'
<1>1. \A m \in Node : Registered(graph.subgraph[m])' = Registered(graph.subgraph[m])
  BY DEF Registered
<1>2. Registered(dynamic.nodes)' = Registered(dynamic'.nodes)
  BY DEF Registered
<1>3. Whole(Registered(dynamic.nodes))' <=> Whole(Registered(dynamic'.nodes))
  BY <1>1, <1>2 DEF Whole
<1>5. CASE UNCHANGED dynamic
  BY <1>3, <1>5 DEF Grown
<1>6. CASE n \in Node /\ ~(graph.type[n] = "gen" /\ graph.subgraph[n] # <<>>) /\ Appended(n)
  BY <1>5, <1>6 DEF Appended
<1>7. CASE n \in Node /\ graph.type[n] = "gen" /\ Appended(n) /\ graph.subgraph[n] # <<>>
  <2>1. dynamic'.nodes = dynamic.nodes \o graph.subgraph[n]
    BY <1>7 DEF Appended
  <2>2. dynamic.nodes \in Seq(Node) /\ graph.subgraph[n] \in Seq(Node)
    BY <1>7, GraphTypes DEF TypeOK
  <2>3. Registered(dynamic'.nodes) = Registered(dynamic.nodes) \cup Registered(graph.subgraph[n])
    BY <2>1, <2>2, RegisteredBoth
  <2>4. PICK a, b : a = Registered(dynamic.nodes) /\ b = Registered(graph.subgraph[n])
    OBVIOUS
  <2>5. Whole(a \cup b)
    BY <1>7, <2>4 DEF Grown, Whole
  <2> QED
    BY <1>3, <2>3, <2>4, <2>5
<1> QED
  BY <1>5, <1>6, <1>7

LEMMA MainStep ==
  ASSUME TypeOK, TypeOK', RunInv, pc = "loop", pc' \in {"loop", "yielded", "rebuild", "finalize"},
         UNCHANGED <<graph, allNodes, resumes, branch>>, ~Jumped,
         NEW m \in Node, UNCHANGED executed \/ (executed' = executed \cup {m} /\ MayRun(m)),
         executed' \cap Lost = {}, UNCHANGED runs \/ MayRun(m), Appended(m) \/ UNCHANGED dynamic,
         MayRun(m) => m \in executed' \/ pc' = "yielded" \/ Jumped',
         Floor(inDegree, executed)', QueuedReady', ForkKnown',
         \A n \in Old : Headed(n) => n \notin Pending'
  PROVE  RunInv'
<1>1. Grown /\ OldStays /\ BranchKnown /\ Counted
  BY DEF RunInv
<1>2. branch.done = {} /\ branch'.done = {}
  BY <1>1 DEF BranchKnown
<1>3. Grown'
  BY <1>1, AppendedWhole, StillGrown
<1>4. Counted'
  BY <1>1, <1>2, StillCounted
<1>5. \A n \in Node : (runs'[n] > 0 /\ ~Ready(n)) <=> (runs[n] > 0 /\ ~Ready(n))
  <2> TAKE n \in Node
  <2>1. CASE UNCHANGED runs
    BY <2>1
  <2>2. CASE MayRun(m)
    BY <2>2 DEF MayRun, ReadyHere, TypeOK
  <2> QED
    BY <2>1, <2>2
<1>6. OldStays'
  BY <1>1, <1>2, <1>5, OldKept
<1>7. BranchKnown'
  BY <1>2 DEF BranchKnown
<1>8. (\A n \in executed : runs[n] > 0)'
  <2>1. /\ \A n \in executed : n \in Node /\ runs[n] > 0
        /\ \A n \in Node : runs[n] \in Nat
    BY DEF RunInv, TypeOK
  <2>2. CASE UNCHANGED runs
    <3>1. UNCHANGED executed
      BY <2>1, <2>2 DEF MayRun, TypeOK
    <3> QED
      BY <2>1, <2>2, <3>1
  <2>3. CASE MayRun(m)
    <3>1. runs'[m] > 0 /\ \A n \in Node : n # m => runs'[n] = runs[n]
      BY <2>1, <2>3 DEF MayRun, TypeOK
    <3> QED
      BY <2>1, <3>1
  <2> QED
    BY <2>2, <2>3
<1> QED
  BY <1>3, <1>4, <1>6, <1>7, <1>8 DEF RunInv

LEMMA ForkKept ==
  ASSUME ForkKnown, UNCHANGED <<graph, allNodes, fork>>, executed \subseteq executed'
  PROVE  ForkKnown' /\ Pending' = Pending
<1>1. Pending' = Pending
  BY DEF Pending
<1>2. Registered(allNodes)' = Registered(allNodes)
  BY DEF Registered
<1> QED
  BY <1>1, <1>2 DEF ForkKnown

\* Steps that take the head of the queue, and may put it at the end again.
LEMMA QueueSteps ==
  ASSUME TypeOK, TypeOK', RunInv, NEW m,
         SkipExecuted \/ (m \in Node /\ (Requeue(m) \/ NodeYields(m) \/ AssertJumps(m)))
  PROVE  RunInv'
<1>1. ForkKnown /\ OldStays
  BY DEF RunInv, SkipExecuted, Requeue, NodeYields, AssertJumps, Handed, Dispatched, AtHead, Dispatching
<1>2. ASSUME UNCHANGED <<graph, allNodes, fork, executed, inDegree>>
      PROVE  /\ ForkKnown' /\ \A n \in Old : Headed(n) => n \notin Pending'
             /\ executed' \cap Lost = {}
             /\ Floor(inDegree, executed) => Floor(inDegree, executed)'
  BY <1>1, <1>2, ForkKept, FloorStays DEF OldStays, Lost
<1>3. CASE SkipExecuted
  <2>1. PICK h : h = Head(readyQueue)
    OBVIOUS
  <2>2. Dispatching /\ h \in executed /\ h \in Node /\ readyQueue' = Rest
    BY <1>3, <2>1 DEF SkipExecuted, TypeOK
  <2>3. UNCHANGED <<graph, allNodes, fork, executed, inDegree, pc, runs, resumes, branch, dynamic>>
    BY <1>3 DEF SkipExecuted, sessVars
  <2>4. /\ pc = "loop" /\ ~Jumped /\ Floor(inDegree, executed)
        /\ \A i \in 1..Len(Rest) : \E x : x = Rest[i] /\ ReadyHere(x)
    BY <2>1, <2>2, HeadIsReady
  <2>5. QueuedReady'
    BY <2>2, <2>3, <2>4, QueueGoesOn
  <2>6. ~MayRun(h)
    BY <2>2 DEF MayRun
  <2> QED
    BY <1>2, <2>2, <2>3, <2>4, <2>5, <2>6, MainStep
<1>4. CASE m \in Node /\ (Requeue(m) \/ NodeYields(m))
  <2>1. AtHead(m) /\ readyQueue' = Append(Rest, m)
        /\ UNCHANGED <<graph, allNodes, fork, executed, inDegree, resumes, branch>>
    BY <1>4 DEF Requeue, NodeYields, Handed, Dispatched
  <2>2. Dispatching /\ Head(readyQueue) = m /\ m \notin executed
    BY <2>1 DEF AtHead
  <2>3. /\ pc = "loop" /\ ReadyHere(m) /\ ~Jumped /\ Rest \in Queues /\ Floor(inDegree, executed)
        /\ \A i \in 1..Len(Rest) : \E x : x = Rest[i] /\ ReadyHere(x)
        /\ runs[m] <= resumes
    BY <1>4, <2>2, HeadIsReady
  <2>4. /\ Len(Append(Rest, m)) = Len(Rest) + 1 /\ Len(Rest) \in Nat
        /\ \A i \in 1..Len(Rest) : Append(Rest, m)[i] = Rest[i]
        /\ Append(Rest, m)[Len(Rest) + 1] = m
    BY <2>3, AppendProperties, LenProperties DEF Queues
  <2>5. ASSUME NEW i \in 1..Len(readyQueue')
        PROVE  \E x : x = readyQueue'[i] /\ (ReadyHere(x) \/ ReadyHere(x)')
    <3>1. i \in 1..Len(Rest) \/ i = Len(Rest) + 1
      BY <2>1, <2>4
    <3> QED
      BY <2>1, <2>3, <2>4, <3>1
  <2>6. QueuedReady'
    BY <2>1, <2>5, QueueGoesOn
  <2>7. CASE Requeue(m)
    <3>1. UNCHANGED <<pc, runs, dynamic>> /\ ~MayRun(m)
      <4>1. UNCHANGED <<pc, runs, dynamic>>
        BY <2>7 DEF Requeue, sessVars
      <4>2. runs[m] \in Nat /\ runs \in [Node -> Nat]
        BY <1>4 DEF TypeOK
      <4> QED
        BY <1>4, <4>1, <4>2 DEF MayRun
    <3> QED
      BY <1>2, <1>4, <2>1, <2>3, <2>6, <3>1, MainStep
  <2>8. CASE NodeYields(m)
    <3>1. MayRun(m) /\ pc' = "yielded" /\ Appended(m)
      BY <2>2, <2>3, <2>8 DEF NodeYields, Handed, Ran, MayRun
    <3> QED
      BY <1>2, <1>4, <2>1, <2>3, <2>6, <3>1, MainStep
  <2> QED
    BY <1>4, <2>7, <2>8
<1>5. CASE m \in Node /\ AssertJumps(m)
  <2>1. AtHead(m) /\ readyQueue' = <<BadPath>> /\ ~BranchesLeft
        /\ UNCHANGED <<graph, allNodes, fork, executed, inDegree, pc, resumes, branch, dynamic>>
    BY <1>5 DEF AssertJumps, Handed, Dispatched, JumpTarget, AtHead, Dispatching
  <2>2. Dispatching /\ Head(readyQueue) = m /\ m \notin executed
    BY <2>1 DEF AtHead
  <2>3. /\ pc = "loop" /\ ReadyHere(m) /\ ~Jumped /\ Floor(inDegree, executed) /\ runs[m] <= resumes
    BY <1>5, <2>2, HeadIsReady
  <2>4. QueuedReady' /\ Jumped'
    <3>1. ~BranchesLeft'
      BY <2>1 DEF BranchesLeft
    <3>2. \A i \in 1..Len(readyQueue') : i = 1 /\ readyQueue'[i] = BadPath
      BY <2>1
    <3>3. QueuedReady'
      BY <2>1, <2>3, <3>1, <3>2 DEF QueuedReady
    <3> QED
      BY <2>1, <3>3 DEF Jumped
  <2>5. MayRun(m)
    BY <1>5, <2>2, <2>3 DEF AssertJumps, Handed, Ran, MayRun
  <2> QED
    BY <1>2, <1>5, <2>1, <2>3, <2>4, <2>5, MainStep
<1> QED
  BY <1>3, <1>4, <1>5

\* Steps that complete a node in the main loop.
LEMMA CompleteSteps ==
  ASSUME TypeOK, TypeOK', RunInv, Proper, NEW m \in Node, RunFork(m) \/ RunJoin(m) \/ NodeCompletes(m)
  PROVE  RunInv'
<1>1. AtHead(m) /\ Completes(m, Rest) /\ Ran(m) /\ UNCHANGED <<graph, allNodes, resumes, branch>>
  BY DEF RunFork, RunJoin, NodeCompletes, Handed, Dispatched
<1>2. Dispatching /\ Head(readyQueue) = m /\ m \notin executed
  BY <1>1 DEF AtHead
<1>3. /\ pc = "loop" /\ ReadyHere(m) /\ ~Jumped /\ Rest \in Queues /\ Floor(inDegree, executed)
      /\ \A i \in 1..Len(Rest) : \E x : x = Rest[i] /\ ReadyHere(x)
      /\ runs[m] <= resumes /\ BuildOk(allNodes) /\ m \notin Old
  BY <1>2, HeadIsReady
<1>4. Floor(inDegree, executed)' /\ QueuedReady'
  BY <1>1, <1>2, <1>3, CompletesReady
<1>5. MayRun(m) /\ executed' = executed \cup {m} /\ executed \subseteq executed'
  BY <1>1, <1>2, <1>3 DEF MayRun, Ran, Completes
<1>6. executed' \cap Lost = {} /\ m \in executed'
  BY <1>3, <1>5 DEF Lost
<1>7. ForkKnown /\ OldStays
  BY <1>3 DEF RunInv
<1>8. Appended(m) \/ UNCHANGED dynamic
  BY DEF RunFork, RunJoin, NodeCompletes
<1>9. pc' \in {"loop", "yielded", "rebuild", "finalize"}
  BY <1>3 DEF RunFork, RunJoin, NodeCompletes
<1>10. ForkKnown' /\ \A n \in Old : Headed(n) => n \notin Pending'
  <2>1. CASE NodeCompletes(m)
    BY <1>1, <1>5, <1>7, <2>1, ForkKept DEF NodeCompletes, OldStays
  <2>2. CASE RunJoin(m)
    <3>1. fork' = NoFork
      BY <2>2 DEF RunJoin
    <3>2. fork'.on = FALSE /\ fork'.branches = <<>>
      BY <3>1 DEF NoFork
    <3> QED
      BY <3>2 DEF ForkKnown, Pending
  <2>3. CASE RunFork(m)
    <3>1. /\ fork'.on = TRUE /\ fork'.node = m /\ fork'.branches = graph.branches[m]
          /\ graph.type[m] = "fork"
      BY <2>3 DEF RunFork, Dispatched
    <3>2. m \in Registered(allNodes)'
      BY <1>1, <1>3 DEF ReadyHere, Registered
    <3>3. ForkKnown'
      BY <1>1, <1>6, <3>1, <3>2 DEF ForkKnown
    <3>4. Pending' \subseteq Registered(graph.branches[m])
      BY <3>1 DEF Pending, Registered
    <3>5. ASSUME NEW n \in Old, Headed(n), n \in Registered(graph.branches[m])
          PROVE  FALSE
      <4>1. PICK f \in executed : f \in Node /\ graph.type[f] = "fork" /\ n \in Registered(graph.branches[f])
        BY <1>7, <3>5 DEF OldStays, ForksOf
      <4> QED
        BY <1>2, <3>1, <3>5, <4>1 DEF Proper, BranchesApart
    <3> QED
      BY <3>3, <3>4, <3>5
  <2> QED
    BY <2>1, <2>2, <2>3
<1> QED
  BY <1>1, <1>3, <1>4, <1>5, <1>6, <1>8, <1>9, <1>10, MainStep

\* Steps that end the run.
LEMMA EndSteps ==
  ASSUME TypeOK, TypeOK', RunInv, pc # "done", pc' = "done", UNCHANGED <<graph, allNodes, resumes>>,
         executed \subseteq executed', NEW m,
         \/ UNCHANGED runs
         \/ /\ m \in Node /\ runs' = [runs EXCEPT ![m] = @ + 1] /\ m \in Registered(allNodes)
            /\ runs[m] <= resumes /\ (Ready(m) \/ runs[m] = 0),
         (m \in Node /\ Appended(m)) \/ UNCHANGED dynamic
  PROVE  RunInv'
<1>1. Grown /\ Counted
  BY DEF RunInv
<1>2. Grown'
  BY <1>1, AppendedWhole, StillGrown
<1>3. Counted'
  <2> SUFFICES ASSUME NEW n \in Node
               PROVE  /\ runs'[n] > 0 => n \in Registered(allNodes)'
                      /\ ~Ready(n)' => runs'[n] <= 1
                      /\ runs'[n] <= 1 + resumes'
    BY DEF Counted
  <2>1. /\ runs[n] > 0 => n \in Registered(allNodes)
        /\ ~Ready(n) => runs[n] <= 1
        /\ runs[n] <= 1 + resumes
    BY <1>1 DEF Counted
  <2>2. Registered(allNodes)' = Registered(allNodes) /\ (Ready(n) => Ready(n)')
    BY ReadyStays DEF Registered
  <2>3. runs[n] \in Nat /\ runs'[n] \in Nat /\ resumes \in Nat
    BY DEF TypeOK
  <2>4. CASE runs'[n] = runs[n]
    BY <2>1, <2>2, <2>4
  <2>5. CASE /\ n = m /\ runs'[n] = runs[n] + 1 /\ m \in Registered(allNodes)
             /\ runs[m] <= resumes /\ (Ready(m) \/ runs[m] = 0)
    BY <2>2, <2>3, <2>5
  <2> QED
    BY <2>4, <2>5 DEF TypeOK
<1> QED
  BY <1>2, <1>3 DEF RunInv

LEMMA EndingSteps ==
  ASSUME TypeOK, TypeOK', RunInv, NEW m,
         \/ UnknownNode \/ SnapshotMissing \/ Finalize
         \/ m \in Node /\ (BadWait(m) \/ JoinThrows(m) \/ NodeFails(m) \/ NodePauses(m))
  PROVE  RunInv'
<1>1. CASE UnknownNode \/ SnapshotMissing \/ Finalize
  <2>1. pc # "done" /\ pc' = "done" /\ UNCHANGED <<graph, allNodes, resumes, executed, runs, dynamic>>
    BY <1>1 DEF UnknownNode, SnapshotMissing, Finalize, Return, Dispatching, dagVars, sessVars
  <2> QED
    BY <2>1, EndSteps
<1>2. CASE m \in Node /\ BadWait(m)
  <2>1. pc # "done" /\ pc' = "done" /\ UNCHANGED <<graph, allNodes, resumes, executed, runs, dynamic>>
    BY <1>2 DEF BadWait, AtHead, Return, Dispatching, sessVars
  <2> QED
    BY <2>1, EndSteps
<1>3. CASE m \in Node /\ (JoinThrows(m) \/ NodeFails(m) \/ NodePauses(m))
  <2>1. AtHead(m) /\ Ran(m) /\ pc' = "done" /\ UNCHANGED <<graph, allNodes, resumes, dynamic>>
        /\ executed \subseteq executed'
    BY <1>3 DEF JoinThrows, NodeFails, NodePauses, Handed, Dispatched, Return, sessVars
  <2>2. Dispatching /\ Head(readyQueue) = m /\ m \notin executed
    BY <2>1 DEF AtHead
  <2>3. pc # "done" /\ ReadyHere(m) /\ runs[m] <= resumes
    BY <1>3, <2>2, HeadIsReady
  <2> QED
    BY <1>3, <2>1, <2>3, EndSteps DEF Ran, ReadyHere
<1> QED
  BY <1>1, <1>2, <1>3

LEMMA RebuildGrown ==
  ASSUME TypeOK, Grown, pc # "done", Rebuild
  PROVE  Grown' /\ Registered(allNodes) \subseteq Registered(allNodes)'
<1>1. /\ allNodes' = allNodes \o dynamic.nodes /\ UNCHANGED graph
      /\ dynamic'.nodes = <<>>
      /\ pc' # "done" => BuildOk(allNodes \o dynamic.nodes)
  BY DEF Rebuild, Return
<1>2. allNodes \in Seq(Node) /\ dynamic.nodes \in Seq(Node)
  BY DEF TypeOK
<1>3. Registered(allNodes)' = Registered(allNodes) \cup Registered(dynamic.nodes)
  <2>1. Registered(allNodes)' = Registered(allNodes \o dynamic.nodes)
    BY <1>1 DEF Registered
  <2> QED
    BY <1>2, <2>1, RegisteredBoth
<1>4. /\ \A m \in Node : Registered(graph.subgraph[m])' = Registered(graph.subgraph[m])
      /\ Registered(graph.order)' = Registered(graph.order)
  BY <1>1 DEF Registered
<1>5. Registered(dynamic.nodes)' = {}
  BY <1>1 DEF Registered
<1>6. Whole(Registered(dynamic.nodes))'
  BY <1>5 DEF Whole
<1>7. pc' # "done" => BuildOk(allNodes)'
  <2>1. PICK order : order = allNodes \o dynamic.nodes
    OBVIOUS
  <2>2. Edges(allNodes)' = Edges(order)
    BY <1>1, <2>1 DEF Edges, NextEdges, WaitEdges
  <2>3. ForkEdges(allNodes)' = ForkEdges(order) /\ Registered(allNodes)' = Registered(order)
    BY <1>1, <2>1 DEF ForkEdges, Registered
  <2>4. BuildOk(allNodes)' <=> BuildOk(order)
    BY <2>2, <2>3 DEF BuildOk
  <2> QED
    BY <1>1, <2>1, <2>4
<1>8. \A y \in Registered(allNodes)' \ Registered(graph.order)' : \E m \in Node :
         /\ graph'.type[m] = "gen" /\ y \in Registered(graph.subgraph[m])'
         /\ Registered(graph.subgraph[m])' \subseteq Registered(allNodes)'
  BY <1>1, <1>3, <1>4 DEF Grown, Whole
<1>9. Registered(graph.order)' \subseteq Registered(allNodes)'
  BY <1>3, <1>4 DEF Grown
<1> QED
  BY <1>3, <1>6, <1>7, <1>8, <1>9 DEF Grown

LEMMA RebuildKeeps ==
  ASSUME TypeOK, TypeOK', RunInv, Proper, Rebuild
  PROVE  RunInv'
<1> DEFINE order == allNodes \o dynamic.nodes
           roots == Roots(order, BuiltInDegree(order))
<1>1. /\ pc = "rebuild" /\ allNodes' = order /\ inDegree' = BuiltInDegree(order)
      /\ UNCHANGED <<graph, executed, fork, branch, resumes, runs>>
      /\ pc' \in {"loop", "done"}
      /\ pc' = "loop" => readyQueue' = readyQueue \o roots
  BY DEF Rebuild, Return
<1>2. /\ Grown /\ Floor(inDegree, executed) /\ QueuedReady /\ ForkKnown /\ OldStays /\ BranchKnown
      /\ Counted
  BY <1>1 DEF RunInv
<1>3. Grown' /\ Registered(allNodes) \subseteq Registered(allNodes)'
  BY <1>1, <1>2, RebuildGrown
<1>4. allNodes \in Seq(Node) /\ dynamic.nodes \in Seq(Node) /\ order \in Seq(Node) /\ graph \in Graph
  BY ConcatProperties DEF TypeOK
<1>5. ASSUME NEW n
      PROVE  /\ Predecessors(n)' = PredecessorsIn(order, n)
             /\ Headed(n)' <=> ForkEdgesTo(order, n) # {}
  <2>1. Predecessors(n)' = PredecessorsIn(order, n)
    BY <1>1 DEF Predecessors, PredecessorsIn, EdgesTo, Edges, NextEdges, WaitEdges
  <2>2. ForkEdgesTo(allNodes, n)' = ForkEdgesTo(order, n)
    BY <1>1 DEF ForkEdgesTo, ForkEdges
  <2> QED
    BY <2>1, <2>2 DEF Headed
<1>6. ASSUME NEW n \in Registered(allNodes)
      PROVE  /\ Predecessors(n)' = Predecessors(n) /\ (Headed(n)' <=> Headed(n))
             /\ Ready(n)' <=> Ready(n)
  <2>1. Predecessors(n)' = Predecessors(n) /\ (Headed(n)' <=> Headed(n))
    BY <1>1, <1>2, <1>5, NoneLedToNew
  <2> QED
    BY <1>1, <2>1 DEF Ready
<1>7. \A n \in Node : runs[n] > 0 => n \in Registered(allNodes)
  BY <1>2 DEF Counted
<1>8. Counted'
  <2> SUFFICES ASSUME NEW n \in Node
               PROVE  /\ runs'[n] > 0 => n \in Registered(allNodes)'
                      /\ ~Ready(n)' => runs'[n] <= 1
                      /\ runs'[n] <= 1 + resumes'
                      /\ Ready(n)' /\ n \notin executed' /\ pc' \notin {"yielded", "done"} /\ ~Jumped' =>
                           runs'[n] <= resumes'
    BY DEF Counted
  <2>1. runs[n] \in Nat /\ resumes \in Nat /\ runs'[n] = runs[n] /\ resumes' = resumes
    BY <1>1 DEF TypeOK
  <2>2. CASE n \notin Registered(allNodes)
    <3>1. runs[n] = 0
      BY <1>7, <2>1, <2>2
    <3> QED
      BY <2>1, <3>1
  <2>3. CASE n \in Registered(allNodes)
    <3>1. ~Jumped
      <4>1. QueuedReady /\ pc # "loop"
        BY <1>1, <1>2
      <4>2. readyQueue # <<>> => Len(readyQueue) \in Nat /\ 1 \in 1..Len(readyQueue)
                                 /\ readyQueue[1] = Head(readyQueue)
        BY HeadTailProperties, LenProperties, EmptySeq DEF TypeOK
      <4>3. Registered(allNodes) \subseteq Node
        BY <1>4, SeqPlaces DEF Registered
      <4> QED
        BY <4>1, <4>2, <4>3, NamesAssumption DEF Jumped, QueuedReady
    <3> QED
      BY <1>1, <1>2, <1>3, <1>6, <2>1, <2>3, <3>1 DEF Counted
  <2> QED
    BY <2>2, <2>3
<1>9. CASE pc' = "done"
  BY <1>3, <1>8, <1>9 DEF RunInv
<1>10. CASE pc' = "loop"
  <2>1. Floor(inDegree, executed)'
    <3> SUFFICES ASSUME NEW n \in Node
                 PROVE  (inDegree[n] >= Cardinality(Unwalked(n, executed))
                                        + Cardinality(ForkEdgesTo(allNodes, n)))'
      BY DEF Floor
    <3>1. Unwalked(n, executed)' \subseteq EdgesTo(Edges(order), n)
      <4>1. Edges(allNodes)' = Edges(order)
        BY <1>1 DEF Edges, NextEdges, WaitEdges
      <4> QED
        BY <4>1 DEF Unwalked, EdgesTo
    <3>2. ForkEdgesTo(allNodes, n)' = ForkEdgesTo(order, n)
      BY <1>1 DEF ForkEdgesTo, ForkEdges
    <3>3. inDegree'[n] = Cardinality(EdgesTo(Edges(order), n)) + Cardinality(ForkEdgesTo(order, n))
      BY <1>1, <1>4, BuiltAwaits
    <3>4. IsFiniteSet(EdgesTo(Edges(order), n)) /\ IsFiniteSet(ForkEdgesTo(order, n))
      BY <1>4, EdgesToFinite
    <3>5. /\ Cardinality(Unwalked(n, executed)') <= Cardinality(EdgesTo(Edges(order), n))
          /\ Cardinality(Unwalked(n, executed)') \in Nat
          /\ Cardinality(EdgesTo(Edges(order), n)) \in Nat /\ Cardinality(ForkEdgesTo(order, n)) \in Nat
      BY <3>1, <3>4, FS_Subset, FS_CardinalityType
    <3> QED
      BY <3>2, <3>3, <3>5
  <2>2. QueuedReady'
    <3>1. roots \in Queues /\ readyQueue \in Queues
      BY <1>4, RootsType, NodesInQueue DEF Queues, TypeOK
    <3> SUFFICES ASSUME NEW i \in 1..Len(readyQueue')
                 PROVE  (readyQueue[i] \in Registered(allNodes) /\ Ready(readyQueue[i]))'
      BY DEF QueuedReady
    <3>2. /\ Len(readyQueue \o roots) = Len(readyQueue) + Len(roots)
          /\ Len(readyQueue) \in Nat /\ Len(roots) \in Nat
          /\ (readyQueue \o roots)[i] =
               IF i <= Len(readyQueue) THEN readyQueue[i] ELSE roots[i - Len(readyQueue)]
      BY <1>1, <1>10, <3>1, ConcatProperties, LenProperties DEF Queues
    <3>3. PICK x : x = readyQueue'[i]
      OBVIOUS
    <3>4. x \in Registered(allNodes)' /\ Ready(x)'
      <4>1. CASE i <= Len(readyQueue)
        <5>1. i \in 1..Len(readyQueue) /\ x = readyQueue[i]
          BY <1>1, <1>10, <3>2, <3>3, <4>1
        <5>2. x \in Registered(allNodes) /\ Ready(x)
          BY <1>1, <1>2, <5>1 DEF QueuedReady
        <5> QED
          BY <1>3, <1>6, <5>2
      <4>2. CASE ~(i <= Len(readyQueue))
        <5>1. i - Len(readyQueue) \in 1..Len(roots) /\ x = roots[i - Len(readyQueue)]
          BY <1>1, <1>10, <3>2, <3>3, <4>2
        <5>2. PICK r \in Registered(order) : /\ roots[i - Len(readyQueue)] = r
                 /\ EdgesTo(Edges(order), r) = {} /\ ForkEdgesTo(order, r) = {}
          BY <1>4, <5>1, RootsAre
        <5>3. PredecessorsIn(order, x) = {} /\ ForkEdgesTo(order, x) = {}
          BY <5>1, <5>2 DEF PredecessorsIn
        <5>4. Ready(x)'
          BY <1>5, <5>3 DEF Ready
        <5> QED
          BY <1>1, <5>1, <5>2, <5>4 DEF Registered
      <4> QED
        BY <4>1, <4>2
    <3> QED
      BY <3>3, <3>4 DEF Ready, Headed, Predecessors
  <2>3. ForkKnown' /\ Pending' = Pending
    BY <1>1, <1>2, <1>3 DEF ForkKnown, Pending
  <2>4. BranchKnown' /\ branch.done = {}
    BY <1>1, <1>2, <1>10 DEF BranchKnown
  <2>5. OldStays'
    <3>1. ASSUME NEW n \in Node
          PROVE  (runs[n] > 0 /\ ~Ready(n) /\ n \notin branch.done)' <=> n \in Old
      BY <1>1, <1>6, <1>7 DEF Old
    <3>2. Old' = Old
      BY <3>1 DEF Old
    <3>3. Lost' = Lost
      BY <1>1, <3>2 DEF Lost
    <3>4. ASSUME NEW n \in Old
          PROVE  (IF Headed(n) THEN ForksOf(n) \cap executed # {} /\ n \notin Pending
                               ELSE Predecessors(n) \cap Lost # {})'
      <4>1. n \in Registered(allNodes)
        BY <1>7 DEF Old
      <4>2. Predecessors(n)' = Predecessors(n) /\ (Headed(n)' <=> Headed(n))
        BY <1>6, <4>1
      <4>3. ForksOf(n)' = ForksOf(n)
        BY <1>1 DEF ForksOf, Registered
      <4>4. IF Headed(n) THEN ForksOf(n) \cap executed # {} /\ n \notin Pending
                         ELSE Predecessors(n) \cap Lost # {}
        BY <1>2 DEF OldStays
      <4> QED
        BY <1>1, <2>3, <3>3, <4>2, <4>3, <4>4
    <3> QED
      BY <3>2, <3>4 DEF OldStays
  <2> QED
    BY <1>1, <1>3, <1>8, <2>1, <2>2, <2>3, <2>4, <2>5 DEF RunInv
<1> QED
  BY <1>1, <1>9, <1>10

-----------------------------------------------------------------------------
(* The steps of a branch.                                                  *)

\* Unless an assertion failed, the queue holds nothing but nodes that are ready.
LEMMA NoJump ==
  ASSUME TypeOK, QueuedReady, pc # "loop" \/ BranchesLeft
  PROVE  ~Jumped /\ \A i \in 1..Len(readyQueue) : \E x : x = readyQueue[i] /\ ReadyHere(x)
<1>1. \A i \in 1..Len(readyQueue) : readyQueue[i] \in Registered(allNodes) /\ Ready(readyQueue[i])
  BY DEF QueuedReady
<1>2. ASSUME NEW i \in 1..Len(readyQueue)
      PROVE  \E x : x = readyQueue[i] /\ ReadyHere(x)
  <2>1. PICK x : x = readyQueue[i]
    OBVIOUS
  <2> QED
    BY <1>1, <2>1 DEF ReadyHere
<1>3. readyQueue # <<>> => Len(readyQueue) \in Nat /\ 1 \in 1..Len(readyQueue)
                           /\ readyQueue[1] = Head(readyQueue)
  BY HeadTailProperties, LenProperties, EmptySeq DEF TypeOK
<1>4. Registered(allNodes) \subseteq Node
  BY SeqPlaces DEF Registered, TypeOK
<1>5. ~Jumped
  BY <1>1, <1>3, <1>4, NamesAssumption DEF Jumped
<1> QED
  BY <1>2, <1>5

\* The first node of the branch at hand.
LEMMA FirstNode ==
  ASSUME TypeOK, Proper, ForkKnown, BranchesLeft, BuildOk(allNodes), OldStays
  PROVE  /\ BranchToRun \in Node /\ BranchToRun \in Registered(allNodes)
         /\ Headed(BranchToRun) /\ BranchToRun \in Pending /\ BranchToRun \notin Old
         /\ BranchToRun # graph.entry /\ fork.node \in ForksOf(BranchToRun) \cap executed
<1> DEFINE i == fork.index + 1
           n == fork.branches[i]
<1>1. /\ fork.on /\ fork.node \in executed /\ fork.node \in Registered(allNodes)
      /\ graph.type[fork.node] = "fork" /\ fork.branches = graph.branches[fork.node]
  BY DEF ForkKnown, BranchesLeft
<1>2. fork.branches \in Seq(Node) /\ fork.index \in Nat /\ i \in DOMAIN fork.branches
  BY LenProperties DEF BranchesLeft, TypeOK
<1>3. n \in Node /\ n \in Registered(graph.branches[fork.node])
  BY <1>1, <1>2, SeqPlaces DEF Registered
<1>4. Headed(n)
  BY <1>1, <1>3, HeadedIs DEF Headed
<1>5. n \in Pending
  BY <1>2 DEF Pending
<1>6. n \in Registered(allNodes)
  BY <1>4 DEF Headed, ForkEdgesTo, BuildOk
<1>7. n # graph.entry
  BY <1>3, <1>4, EntryIsFirst, NamesAssumption
<1>8. n \notin Old
  BY <1>4, <1>5 DEF OldStays
<1>9. fork.node \in ForksOf(n) \cap executed
  BY <1>1, <1>3 DEF ForksOf, TypeOK
<1> QED
  BY <1>3, <1>4, <1>5, <1>6, <1>7, <1>8, <1>9 DEF BranchToRun

LEMMA BranchStarts ==
  ASSUME TypeOK, TypeOK', RunInv, Proper, StartBranch
  PROVE  RunInv'
<1>1. /\ pc = "loop" /\ BranchesLeft /\ pc' = "branch"
      /\ UNCHANGED <<graph, allNodes, inDegree, readyQueue, executed, fork, resumes, runs, dynamic>>
      /\ branch'.queue = <<BranchToRun>> /\ branch'.done = {} /\ branch'.inDegree = inDegree
  BY DEF StartBranch, dagVars, sessVars
<1>2. /\ Grown /\ Floor(inDegree, executed) /\ QueuedReady /\ ForkKnown /\ OldStays /\ BranchKnown
      /\ Counted /\ \A n \in executed : runs[n] > 0
  BY <1>1 DEF RunInv
<1>3. branch.done = {} /\ BranchesLeft' /\ BranchToRun' = BranchToRun
  BY <1>1, <1>2 DEF BranchKnown, BranchesLeft, BranchToRun
<1>4. ~Jumped /\ \A i \in 1..Len(readyQueue) : \E x : x = readyQueue[i] /\ ReadyHere(x)
  BY <1>1, <1>2, NoJump
<1>5. QueuedReady'
  BY <1>1, <1>4, QueueGoesOn
<1>6. ForkKnown' /\ Pending' = Pending /\ executed' \cap Lost = {}
  BY <1>1, <1>2, ForkKept DEF Lost
<1>7. OldStays'
  BY <1>1, <1>2, <1>3, <1>6, OldKept DEF OldStays
<1>8. BranchToRun \in Node
  BY <1>1, <1>2, FirstNode DEF Grown
<1>9. runs[BranchToRun] \in Nat /\ runs \in [Node -> Nat]
  BY <1>8 DEF TypeOK
<1>10. Counted'
  <2>1. PICK m \in Node : m = BranchToRun
    BY <1>8
  <2>2. ~MayRun(m)
    BY <1>1, <1>9, <2>1 DEF MayRun
  <2>3. pc \notin {"yielded", "done"}
    BY <1>1
  <2>4. UNCHANGED runs /\ executed \subseteq executed'
    BY <1>1
  <2> QED
    BY <1>1, <1>2, <1>3, <1>4, <1>6, <2>2, <2>3, <2>4, StillCounted
<1>11. Grown'
  BY <1>1, <1>2, <1>8, AppendedWhole, StillGrown
<1>12. Floor(inDegree, executed)' /\ Floor(branch.inDegree, executed \cup branch.done)'
  <2>1. PICK deg, S : deg = inDegree /\ S = executed
    OBVIOUS
  <2>2. Floor(deg, S)'
    BY <1>1, <1>2, <2>1, FloorStays
  <2>3. branch'.inDegree = deg /\ executed' \cup branch'.done = S /\ inDegree' = deg /\ executed' = S
    BY <1>1, <2>1
  <2> QED
    BY <2>2, <2>3 DEF Floor, Unwalked
<1>13. BranchKnown'
  BY <1>1, <1>3, <1>12 DEF BranchKnown
<1> QED
  BY <1>1, <1>2, <1>5, <1>6, <1>7, <1>10, <1>11, <1>12, <1>13 DEF RunInv

\* A node that a branch runs has not been run before.
LEMMA NewInBranch ==
  ASSUME TypeOK, Proper, RunInv, NEW n \in Node, HandedInBranch(n)
  PROVE  /\ runs[n] = 0 /\ n \notin executed \cup branch.done \cup Old /\ n \in Registered(allNodes)
         /\ ~Ready(n)
         /\ \/ n = BranchToRun /\ Headed(n) /\ branch.done = {} /\ branch.queue = <<n>>
            \/ ReadyInBranch(n) /\ branch.done # {}
<1>1. pc = "branch" /\ branch.queue # <<>> /\ n = Head(branch.queue) /\ n \notin branch.done
  BY DEF HandedInBranch, InBranch
<1>2. /\ Grown /\ ForkKnown /\ OldStays /\ BranchKnown /\ BuildOk(allNodes)
      /\ \A m \in executed : runs[m] > 0
  BY <1>1 DEF RunInv, Grown
<1>3. BranchesLeft /\ branch.done \cap executed = {}
  BY <1>1, <1>2 DEF BranchKnown
<1>4. Len(branch.queue) \in Nat /\ 1 \in 1..Len(branch.queue) /\ branch.queue[1] = n
  BY <1>1, HeadTailProperties, LenProperties, EmptySeq DEF TypeOK
<1>5. CASE branch.done = {}
  <2>1. n = BranchToRun /\ branch.queue = <<n>>
    BY <1>1, <1>2, <1>5 DEF BranchKnown
  <2>2. Headed(n) /\ n \notin Old /\ n # graph.entry /\ n \in Registered(allNodes)
    BY <1>2, <1>3, <2>1, FirstNode
  <2>3. ~Ready(n)
    BY <2>2 DEF Ready
  <2>4. ~(runs[n] > 0)
    BY <1>1, <2>2, <2>3 DEF Old
  <2>5. runs[n] = 0 /\ n \notin executed
    BY <1>2, <2>4 DEF TypeOK
  <2> QED
    BY <1>1, <1>5, <2>1, <2>2, <2>3, <2>5
<1>6. CASE branch.done # {}
  <2>1. ReadyInBranch(n)
    BY <1>1, <1>2, <1>4, <1>6 DEF BranchKnown
  <2>2. PICK p \in branch.done : p \in Predecessors(n)
    BY <2>1 DEF ReadyInBranch
  <2>3. n # graph.entry
    BY <2>2, EntryIsFirst, NamesAssumption
  <2>4. ~Ready(n)
    BY <1>3, <2>2, <2>3 DEF Ready
  <2>5. n \notin Old
    <3>1. SUFFICES ASSUME n \in Old PROVE FALSE
      OBVIOUS
    <3>2. PICK q \in Lost : q \in Predecessors(n)
      BY <1>2, <2>1, <3>1 DEF OldStays, ReadyInBranch
    <3> QED
      BY <2>1, <3>2 DEF Lost, Old, ReadyInBranch
  <2>6. ~(runs[n] > 0)
    BY <1>1, <2>4, <2>5 DEF Old
  <2>7. runs[n] = 0 /\ n \notin executed
    BY <1>2, <2>6 DEF TypeOK
  <2> QED
    BY <1>1, <1>6, <2>1, <2>4, <2>5, <2>7 DEF ReadyInBranch
<1> QED
  BY <1>5, <1>6

\* What is known while a branch runs.
LEMMA InTheBranch ==
  ASSUME TypeOK, RunInv, pc = "branch"
  PROVE  /\ Grown /\ Floor(inDegree, executed) /\ QueuedReady /\ ForkKnown /\ OldStays /\ BranchKnown
         /\ Counted /\ BuildOk(allNodes) /\ BranchesLeft /\ branch.done \cap executed = {}
         /\ Floor(branch.inDegree, executed \cup branch.done) /\ ~Jumped
         /\ \A n \in executed : runs[n] > 0
         /\ \A i \in 1..Len(readyQueue) : \E x : x = readyQueue[i] /\ ReadyHere(x)
<1>1. /\ Grown /\ Floor(inDegree, executed) /\ QueuedReady /\ ForkKnown /\ OldStays /\ BranchKnown
      /\ Counted /\ BuildOk(allNodes) /\ \A n \in executed : runs[n] > 0
  BY DEF RunInv, Grown
<1>2. /\ BranchesLeft /\ branch.done \cap executed = {}
      /\ Floor(branch.inDegree, executed \cup branch.done)
  BY <1>1 DEF BranchKnown
<1> QED
  BY <1>1, <1>2, NoJump

\* What the branch has queued once it has run n.
LEMMA BranchQueueGoesOn ==
  ASSUME TypeOK, RunInv, Proper, NEW n \in Node, BranchRuns(n), pc' = "branch",
         NEW i \in 1..Len(branch'.queue)
  PROVE  \E x : x = branch'.queue[i] /\ ReadyInBranch(x)'
<1> DEFINE out == {e \in EdgesFrom(Edges(allNodes), n) : e[2] = 0}
           released == Releasing(branch.inDegree, out)
           before == executed \cup branch.done
<1>1. /\ HandedInBranch(n) /\ UNCHANGED <<graph, allNodes, executed>>
      /\ branch'.done = branch.done \cup {n}
      /\ branch'.queue = IF graph.type[n] = "end" THEN <<>> ELSE Tail(branch.queue) \o Targets(released)
  BY DEF BranchRuns, dagVars
<1>2. pc = "branch" /\ branch.queue # <<>>
  BY <1>1 DEF HandedInBranch, InBranch
<1>3. /\ BuildOk(allNodes) /\ BranchKnown /\ Floor(branch.inDegree, before)
      /\ branch.inDegree \in [Node -> Int] /\ branch.queue \in Seq(Node)
  BY <1>2, InTheBranch DEF TypeOK
<1>4. /\ n \notin before
      /\ branch.done = {} => branch.queue = <<n>>
  BY <1>1, NewInBranch
<1>5. /\ out \in SUBSET EdgesFrom(Edges(allNodes), n)
      /\ Linear(released) /\ Targets(released) \in Seq(Node)
  BY <1>3, LoweredType DEF TypeOK
<1>6. /\ Tail(branch.queue) \in Seq(Node) /\ Len(Tail(branch.queue)) = Len(branch.queue) - 1
      /\ Len(branch.queue) \in Nat
      /\ \A j \in 1..Len(Tail(branch.queue)) : Tail(branch.queue)[j] = branch.queue[j + 1]
  BY <1>2, <1>3, HeadTailProperties, LenProperties
<1>7. PICK x : x = branch'.queue[i]
  OBVIOUS
<1>8. Predecessors(x)' = Predecessors(x) /\ (Headed(x)' <=> Headed(x))
  BY <1>1, ReadyStays
<1>9. Registered(allNodes)' = Registered(allNodes)
  BY <1>1 DEF Registered
<1>10. x \in Registered(allNodes) /\ ~Headed(x)
       /\ Predecessors(x) \subseteq executed \cup branch'.done /\ Predecessors(x) \cap branch'.done # {}
  <2>1. branch'.queue = Tail(branch.queue) \o Targets(released)
    <3>1. PICK q : q = branch'.queue
      OBVIOUS
    <3>2. q # <<>>
      BY <3>1
    <3> QED
      BY <1>1, <3>1, <3>2
  <2>2. /\ Len(branch'.queue) = Len(Tail(branch.queue)) + Len(Targets(released))
        /\ Len(Tail(branch.queue)) \in Nat /\ Len(Targets(released)) \in Nat
        /\ branch'.queue[i] = IF i <= Len(Tail(branch.queue)) THEN Tail(branch.queue)[i]
                              ELSE Targets(released)[i - Len(Tail(branch.queue))]
    BY <1>5, <1>6, <2>1, ConcatProperties, LenProperties
  <2>3. CASE i <= Len(Tail(branch.queue))
    <3>1. i \in 1..Len(Tail(branch.queue)) /\ i + 1 \in 1..Len(branch.queue) /\ x = branch.queue[i + 1]
      BY <1>6, <1>7, <2>2, <2>3
    <3>2. branch.done # {}
      <4>1. SUFFICES ASSUME branch.done = {} PROVE FALSE
        OBVIOUS
      <4>2. Len(branch.queue) = 1
        <5>1. PICK q : q = branch.queue
          OBVIOUS
        <5>2. q = <<n>>
          BY <1>4, <4>1, <5>1
        <5> QED
          BY <5>1, <5>2
      <4> QED
        BY <1>6, <3>1, <4>2
    <3>3. ReadyInBranch(x)
      BY <1>2, <1>3, <3>1, <3>2 DEF BranchKnown
    <3> QED
      BY <1>1, <3>3 DEF ReadyInBranch
  <2>4. CASE ~(i <= Len(Tail(branch.queue)))
    <3>1. PICK t, added : t = Tail(branch.queue) /\ added = Targets(released)
      OBVIOUS
    <3>2. /\ Len(branch'.queue) = Len(t) + Len(added) /\ Len(t) \in Nat /\ Len(added) \in Nat
          /\ ~(i <= Len(t)) /\ x = added[i - Len(t)]
      BY <1>7, <2>2, <2>4, <3>1
    <3>3. i - Len(t) \in 1..Len(Targets(released)) /\ x = Targets(released)[i - Len(t)]
      <4>1. i \in Int
        OBVIOUS
      <4>2. i - Len(t) \in 1..Len(added)
        BY <3>2, <4>1
      <4> QED
        BY <3>1, <3>2, <4>2
    <3>4. PICK e \in released : x = e[4]
      BY <1>5, <3>3, TargetsAre
    <3>5. ~Headed(e[4]) /\ Predecessors(e[4]) \subseteq before \cup {n} /\ n \in Predecessors(e[4])
      <4>1. PICK deg, S, o : deg = branch.inDegree /\ S = before /\ o = out
        OBVIOUS
      <4>2. /\ deg \in [Node -> Int] /\ n \notin S /\ o \in SUBSET EdgesFrom(Edges(allNodes), n)
            /\ Floor(deg, S) /\ e \in Releasing(deg, o)
        BY <1>3, <1>4, <1>5, <4>1
      <4>3. ~Headed(e[4]) /\ Predecessors(e[4]) \subseteq S \cup {n} /\ n \in Predecessors(e[4])
        BY <4>2, ReleasedLast
      <4> QED
        BY <4>1, <4>3
    <3>6. ~Headed(x) /\ Predecessors(x) \subseteq before \cup {n} /\ n \in Predecessors(x)
      BY <3>4, <3>5
    <3>7. x \in Registered(allNodes)
      BY <1>3, <3>4 DEF BuildOk, Releasing, EdgesFrom
    <3> QED
      BY <1>1, <3>6, <3>7
  <2> QED
    BY <2>3, <2>4
<1> QED
  BY <1>1, <1>7, <1>8, <1>9, <1>10 DEF ReadyInBranch

LEMMA BranchGoesOn ==
  ASSUME TypeOK, TypeOK', RunInv, Proper, NEW n \in Node, BranchRuns(n), pc' = "branch"
  PROVE  RunInv'
<1>1. /\ HandedInBranch(n) /\ Ran(n) /\ Appended(n)
      /\ UNCHANGED <<graph, allNodes, inDegree, readyQueue, executed, fork, resumes>>
      /\ branch'.done = branch.done \cup {n} /\ branch'.last = n
      /\ branch'.inDegree = Lowered(branch.inDegree, {e \in EdgesFrom(Edges(allNodes), n) : e[2] = 0})
  BY DEF BranchRuns, HandedInBranch, dagVars
<1>2. pc = "branch"
  BY <1>1 DEF HandedInBranch, InBranch
<1>3. /\ Grown /\ Floor(inDegree, executed) /\ QueuedReady /\ ForkKnown /\ OldStays /\ BranchKnown
      /\ Counted /\ BranchesLeft /\ branch.done \cap executed = {}
      /\ Floor(branch.inDegree, executed \cup branch.done) /\ ~Jumped
      /\ \A m \in executed : runs[m] > 0
      /\ \A i \in 1..Len(readyQueue) : \E x : x = readyQueue[i] /\ ReadyHere(x)
  BY <1>2, InTheBranch
<1>4. /\ runs[n] = 0 /\ n \notin executed \cup branch.done \cup Old /\ n \in Registered(allNodes)
      /\ ~Ready(n)
      /\ \/ n = BranchToRun /\ Headed(n) /\ branch.done = {} /\ branch.queue = <<n>>
         \/ ReadyInBranch(n) /\ branch.done # {}
  BY <1>1, NewInBranch
<1>5. /\ \A m \in Node : runs[m] \in Nat /\ (m # n => runs'[m] = runs[m])
      /\ runs'[n] = 1 /\ resumes \in Nat
  BY <1>1, <1>4 DEF Ran, TypeOK
<1>6. Grown'
  BY <1>1, <1>2, <1>3, AppendedWhole, StillGrown
<1>7. QueuedReady'
  BY <1>1, <1>3, QueueGoesOn
<1>8. ForkKnown' /\ Pending' = Pending
  BY <1>1, <1>3, ForkKept
<1>9. Floor(inDegree, executed)'
  BY <1>1, <1>3, FloorStays
<1>10. ASSUME NEW m
       PROVE  /\ Headed(m)' <=> Headed(m)
              /\ Predecessors(m)' = Predecessors(m) /\ ForksOf(m)' = ForksOf(m)
              /\ Ready(m)' <=> Ready(m)
  <2>1. (Headed(m)' <=> Headed(m)) /\ Predecessors(m)' = Predecessors(m)
    BY <1>1, ReadyStays
  <2>2. ForksOf(m)' = ForksOf(m)
    BY <1>1 DEF ForksOf, Registered
  <2> QED
    BY <1>1, <2>1, <2>2 DEF Ready
<1>11. Old' = Old /\ Lost' = Lost
  <2>1. \A m \in Node : (runs[m] > 0 /\ ~Ready(m) /\ m \notin branch.done)' <=> m \in Old
    BY <1>1, <1>4, <1>5, <1>10 DEF Old
  <2>2. Old' = Old
    BY <2>1 DEF Old
  <2> QED
    BY <1>1, <2>2 DEF Lost
<1>12. OldStays'
  BY <1>1, <1>3, <1>8, <1>10, <1>11 DEF OldStays
<1>13. Counted'
  BY <1>1, <1>2, <1>3, <1>4, <1>5, <1>10 DEF Counted, Registered, Jumped
<1>14. BranchKnown'
  <2>1. BranchesLeft' /\ BranchToRun' = BranchToRun /\ branch'.done # {}
    BY <1>1, <1>3 DEF BranchesLeft, BranchToRun
  <2>2. Floor(branch.inDegree, executed \cup branch.done)'
    <3>1. PICK deg, S : deg = branch'.inDegree /\ S = executed \cup branch'.done
      OBVIOUS
    <3>2. branch.inDegree \in [Node -> Int]
      BY DEF TypeOK
    <3>3. Floor(Lowered(branch.inDegree, {e \in EdgesFrom(Edges(allNodes), n) : e[2] = 0}),
                (executed \cup branch.done) \cup {n})
      BY <1>3, <1>4, <3>2, FloorLowered
    <3>4. Floor(deg, S)
      BY <1>1, <3>1, <3>3
    <3>5. Floor(deg, S)'
      BY <1>1, <3>4, FloorStays
    <3>6. branch'.inDegree = deg /\ executed' \cup branch'.done = S
      BY <1>1, <3>1
    <3> QED
      BY <3>5, <3>6 DEF Floor, Unwalked
  <2>3. branch'.done \cap executed' = {} /\ (branch'.queue = <<>> => branch'.last \in branch'.done)
    BY <1>1, <1>3, <1>4
  <2>4. ASSUME NEW m \in branch'.done
        PROVE  RanInBranch(m)'
    <3>1. branch.done \subseteq branch'.done \ {branch'.last}
      BY <1>1, <1>4
    <3>2. CASE m \in branch.done
      <4>1. RanInBranch(m) /\ m # n /\ m \in Node
        BY <1>2, <1>3, <1>4, <3>2 DEF BranchKnown, TypeOK
      <4> QED
        BY <1>5, <1>10, <2>1, <3>1, <4>1 DEF RanInBranch
    <3>3. CASE m = n
      <4>1. n = BranchToRun \/ (~Headed(n) /\ Predecessors(n) \cap branch.done # {})
        BY <1>4 DEF ReadyInBranch
      <4> QED
        BY <1>5, <1>10, <2>1, <3>1, <3>3, <4>1 DEF RanInBranch
    <3> QED
      BY <1>1, <3>2, <3>3
  <2>5. ASSUME NEW i \in 1..Len(branch'.queue)
        PROVE  ReadyInBranch(branch.queue[i])'
    BY BranchQueueGoesOn DEF ReadyInBranch, Headed, Predecessors
  <2>6. (\A i \in 1..Len(branch.queue) : ReadyInBranch(branch.queue[i]))'
    BY <2>5
  <2> QED
    BY <2>1, <2>2, <2>3, <2>4, <2>6 DEF BranchKnown
<1>15. \A m \in executed' : runs'[m] > 0
  BY <1>1, <1>3, <1>4, <1>5 DEF TypeOK
<1> QED
  BY <1>6, <1>7, <1>8, <1>9, <1>12, <1>13, <1>14, <1>15 DEF RunInv

LEMMA BranchEnds ==
  ASSUME TypeOK, TypeOK', RunInv, Proper, NEW n \in Node, BranchFails(n) \/ BranchRuns(n), pc' = "done"
  PROVE  RunInv'
<1>1. /\ HandedInBranch(n) /\ Ran(n) /\ UNCHANGED <<graph, allNodes, executed, resumes>>
      /\ Appended(n) \/ UNCHANGED dynamic
  BY DEF BranchFails, BranchRuns, HandedInBranch, dagVars
<1>2. pc # "done" /\ runs[n] = 0 /\ n \in Registered(allNodes)
  BY <1>1, NewInBranch DEF HandedInBranch, InBranch
<1>3. runs[n] <= resumes
  BY <1>2 DEF TypeOK
<1> QED
  BY <1>1, <1>2, <1>3, EndSteps DEF Ran

LEMMA BranchIsOver ==
  ASSUME TypeOK, TypeOK', RunInv, Proper, BranchDone
  PROVE  RunInv'
<1> DEFINE m == branch.last
<1>1. /\ pc = "branch" /\ branch.queue = <<>> /\ Completes(m, readyQueue) /\ pc' = "loop"
      /\ UNCHANGED <<graph, allNodes, resumes, runs, dynamic>> /\ branch'.done = {}
      /\ fork'.on = fork.on /\ fork'.node = fork.node /\ fork'.branches = fork.branches
      /\ fork'.index = fork.index + 1
  BY DEF BranchDone, NoBranch, sessVars
<1>2. /\ Grown /\ Floor(inDegree, executed) /\ QueuedReady /\ ForkKnown /\ OldStays /\ BranchKnown
      /\ Counted /\ BuildOk(allNodes) /\ BranchesLeft /\ branch.done \cap executed = {} /\ ~Jumped
      /\ \A n \in executed : runs[n] > 0
      /\ \A i \in 1..Len(readyQueue) : \E x : x = readyQueue[i] /\ ReadyHere(x)
  BY <1>1, InTheBranch
<1>3. /\ m \in branch.done /\ m \in Node /\ m \notin executed /\ branch.done \subseteq Node
      /\ \A n \in branch.done : RanInBranch(n)
  BY <1>1, <1>2 DEF BranchKnown, TypeOK
<1>4. executed' = executed \cup {m} /\ executed \subseteq executed'
  BY <1>1 DEF Completes
<1>5. readyQueue \in Queues
  BY DEF TypeOK, Queues
<1>6. Floor(inDegree, executed)' /\ QueuedReady'
  BY <1>1, <1>2, <1>3, <1>5, CompletesReady
<1>7. executed' \cap Lost = {}
  BY <1>3, <1>4 DEF Lost, Old
<1>8. /\ BranchToRun \in Pending /\ Headed(BranchToRun) /\ BranchToRun # graph.entry
      /\ fork.node \in ForksOf(BranchToRun) \cap executed
  BY <1>2, FirstNode
<1>9. Pending' \subseteq Pending /\ BranchToRun \notin Pending'
  <2>1. /\ fork.index \in Nat /\ fork.branches \in Seq(Node) /\ fork.node \in Node
        /\ fork.index + 1 \in DOMAIN fork.branches
    BY <1>2, LenProperties DEF BranchesLeft, ForkKnown, TypeOK
  <2>2. \A i, j \in DOMAIN fork.branches : fork.branches[i] = fork.branches[j] => i = j
    BY <1>2, <2>1 DEF Proper, BranchesApart, ForkKnown, BranchesLeft
  <2>3. DOMAIN fork.branches \subseteq Nat
    BY <2>1, LenProperties
  <2> QED
    BY <1>1, <2>1, <2>2, <2>3 DEF Pending, BranchToRun
<1>10. ASSUME NEW n
       PROVE  /\ Headed(n)' <=> Headed(n)
              /\ Predecessors(n)' = Predecessors(n) /\ ForksOf(n)' = ForksOf(n)
              /\ Ready(n) => Ready(n)'
  <2>1. (Headed(n)' <=> Headed(n)) /\ Predecessors(n)' = Predecessors(n) /\ (Ready(n) => Ready(n)')
    BY <1>1, <1>4, ReadyStays
  <2>2. ForksOf(n)' = ForksOf(n)
    BY <1>1 DEF ForksOf, Registered
  <2> QED
    BY <2>1, <2>2
<1>11. ASSUME NEW n \in branch.done, n # BranchToRun
       PROVE  ~Headed(n) /\ Predecessors(n) \cap (branch.done \ {m}) # {}
  BY <1>3, <1>11 DEF RanInBranch
<1>12. ASSUME NEW n \in branch.done
       PROVE  ~Ready(n)'
  <2>1. CASE n = BranchToRun
    BY <1>1, <1>8, <1>10, <2>1 DEF Ready
  <2>2. CASE n # BranchToRun
    <3>1. PICK p \in branch.done : p # m /\ p \in Predecessors(n)
      BY <1>11, <2>2
    <3>2. n # graph.entry
      BY <1>3, <3>1, EntryIsFirst, NamesAssumption
    <3>3. p \notin executed'
      BY <1>2, <1>4, <3>1
    <3> QED
      BY <1>1, <1>10, <3>1, <3>2, <3>3 DEF Ready
  <2> QED
    BY <2>1, <2>2
<1>13. \A n \in Old : ~Ready(n)'
  BY <1>1, <1>2, <1>4, <1>7, OldWaits
<1>14. Old' = Old \cup branch.done
  <2>1. \A n \in branch.done : runs[n] > 0
    BY <1>3 DEF RanInBranch
  <2>2. ASSUME NEW n \in Node
        PROVE  (runs[n] > 0 /\ ~Ready(n) /\ n \notin branch.done)' <=> n \in Old \cup branch.done
    BY <1>1, <1>10, <1>12, <1>13, <2>1 DEF Old
  <2>3. Old \subseteq Node
    BY DEF Old
  <2> QED
    BY <1>3, <2>2, <2>3 DEF Old
<1>15. Lost \cup (branch.done \ {m}) \subseteq Lost'
  BY <1>2, <1>4, <1>7, <1>14 DEF Lost
<1>16. OldStays'
  <2> SUFFICES ASSUME NEW n \in Old'
               PROVE  (IF Headed(n) THEN ForksOf(n) \cap executed # {} /\ n \notin Pending
                                    ELSE Predecessors(n) \cap Lost # {})'
    BY DEF OldStays
  <2>1. CASE n \in Old
    <3>1. IF Headed(n) THEN ForksOf(n) \cap executed # {} /\ n \notin Pending
                       ELSE Predecessors(n) \cap Lost # {}
      BY <1>2, <2>1 DEF OldStays
    <3> QED
      BY <1>4, <1>9, <1>10, <1>15, <3>1
  <2>2. CASE n = BranchToRun
    BY <1>4, <1>8, <1>9, <1>10, <2>2
  <2>3. CASE n \in branch.done /\ n # BranchToRun
    <3>1. ~Headed(n) /\ Predecessors(n) \cap (branch.done \ {m}) # {}
      BY <1>11, <2>3
    <3> QED
      BY <1>10, <1>15, <3>1
  <2> QED
    BY <1>14, <2>1, <2>2, <2>3
<1>17. Counted'
  <2> SUFFICES ASSUME NEW n \in Node
               PROVE  /\ runs'[n] > 0 => n \in Registered(allNodes)'
                      /\ ~Ready(n)' => runs'[n] <= 1
                      /\ runs'[n] <= 1 + resumes'
                      /\ Ready(n)' /\ n \notin executed' => runs'[n] <= resumes'
    BY DEF Counted
  <2>1. /\ runs[n] > 0 => n \in Registered(allNodes)
        /\ ~Ready(n) => runs[n] <= 1
        /\ runs[n] <= 1 + resumes
        /\ Ready(n) /\ n \notin executed => runs[n] <= resumes
    BY <1>1, <1>2 DEF Counted
  <2>2. Registered(allNodes)' = Registered(allNodes)
    BY <1>1 DEF Registered
  <2>3. runs[n] \in Nat /\ resumes \in Nat
    BY DEF TypeOK
  <2>4. Ready(n)' /\ ~Ready(n) => ~(runs[n] > 0)
    BY <1>12, <1>13 DEF Old
  <2> QED
    BY <1>1, <1>4, <1>10, <2>1, <2>2, <2>3, <2>4
<1>18. Grown'
  <2>1. Whole(Registered(dynamic.nodes))'
    BY <1>1, <1>2, <1>3, AppendedWhole
  <2> QED
    BY <1>1, <1>2, <2>1, StillGrown
<1>19. ForkKnown'
  BY <1>1, <1>2, <1>4 DEF ForkKnown, Registered
<1>20. BranchKnown'
  BY <1>1 DEF BranchKnown
<1>21. \A n \in executed' : runs'[n] > 0
  BY <1>1, <1>2, <1>3, <1>4 DEF RanInBranch
<1> QED
  BY <1>1, <1>6, <1>16, <1>17, <1>18, <1>19, <1>20, <1>21 DEF RunInv

LEMMA ResumeKeeps ==
  ASSUME TypeOK, TypeOK', RunInv, Resume
  PROVE  RunInv'
<1>1. /\ pc = "yielded" /\ pc' = "loop" /\ resumes' = resumes + 1
      /\ UNCHANGED <<graph, allNodes, inDegree, readyQueue, executed, fork, branch, dynamic, runs>>
  BY DEF Resume, dagVars
<1>2. /\ Grown /\ Floor(inDegree, executed) /\ QueuedReady /\ ForkKnown /\ OldStays /\ BranchKnown
      /\ Counted /\ \A n \in executed : runs[n] > 0
  BY <1>1 DEF RunInv
<1>3. branch.done = {}
  BY <1>1, <1>2 DEF BranchKnown
<1>4. \A i \in 1..Len(readyQueue) : \E x : x = readyQueue[i] /\ ReadyHere(x)
  BY <1>1, <1>2, NoJump
<1>5. QueuedReady'
  BY <1>1, <1>4, QueueGoesOn
<1>6. ForkKnown' /\ Pending' = Pending /\ executed' \cap Lost = {}
  BY <1>1, <1>2, ForkKept DEF Lost
<1>7. OldStays'
  BY <1>1, <1>2, <1>3, <1>6, OldKept DEF OldStays
<1>8. Counted'
  <2>1. \A n \in Node : Ready(n) => Ready(n)'
    BY <1>1, ReadyStays
  <2>2. Registered(allNodes)' = Registered(allNodes)
    BY <1>1 DEF Registered
  <2>3. \A n \in Node : runs[n] \in Nat /\ resumes \in Nat
    BY DEF TypeOK
  <2> QED
    BY <1>1, <1>2, <2>1, <2>2, <2>3 DEF Counted
<1>9. Grown'
  <2>1. Whole(Registered(dynamic.nodes))'
    <3>1. Registered(dynamic.nodes)' = Registered(dynamic.nodes)
      BY <1>1 DEF Registered
    <3>2. \A m \in Node : Registered(graph.subgraph[m])' = Registered(graph.subgraph[m])
      BY <1>1 DEF Registered
    <3> QED
      BY <1>1, <1>2, <3>1, <3>2 DEF Grown, Whole
  <2> QED
    BY <1>1, <1>2, <2>1, StillGrown
<1>10. Floor(inDegree, executed)'
  BY <1>1, <1>2, FloorStays
<1>11. BranchKnown'
  BY <1>1, <1>3 DEF BranchKnown
<1> QED
  BY <1>1, <1>2, <1>5, <1>6, <1>7, <1>8, <1>9, <1>10, <1>11 DEF RunInv

LEMMA RunStutters ==
  ASSUME TypeOK, TypeOK', RunInv, UNCHANGED vars
  PROVE  RunInv'
<1>1. UNCHANGED <<graph, allNodes, inDegree, readyQueue, executed, fork, branch, dynamic, pc, resumes, runs>>
  BY DEF vars, dagVars, sessVars
<1>2. Grown /\ Counted
  BY DEF RunInv
<1>3. ASSUME NEW n
      PROVE  /\ Headed(n)' <=> Headed(n)
             /\ Predecessors(n)' = Predecessors(n) /\ ForksOf(n)' = ForksOf(n)
             /\ Ready(n)' <=> Ready(n)
  <2>1. (Headed(n)' <=> Headed(n)) /\ Predecessors(n)' = Predecessors(n)
    BY <1>1, ReadyStays
  <2>2. ForksOf(n)' = ForksOf(n)
    BY <1>1 DEF ForksOf, Registered
  <2> QED
    BY <1>1, <2>1, <2>2 DEF Ready
<1>4. Registered(allNodes)' = Registered(allNodes) /\ Registered(graph.order)' = Registered(graph.order)
  BY <1>1 DEF Registered
<1>5. Grown'
  <2>1. Registered(dynamic.nodes)' = Registered(dynamic.nodes)
    BY <1>1 DEF Registered
  <2>2. \A m \in Node : Registered(graph.subgraph[m])' = Registered(graph.subgraph[m])
    BY <1>1 DEF Registered
  <2>3. Whole(Registered(dynamic.nodes))'
    BY <1>1, <1>2, <2>1, <2>2 DEF Grown, Whole
  <2> QED
    BY <1>1, <1>2, <2>3, StillGrown
<1>6. Counted'
  BY <1>1, <1>2, <1>3, <1>4 DEF Counted, Jumped
<1>7. ASSUME pc # "done"
      PROVE  /\ Floor(inDegree, executed) /\ QueuedReady /\ ForkKnown /\ OldStays /\ BranchKnown
             /\ \A n \in executed : runs[n] > 0
  BY <1>7 DEF RunInv
<1>8. ASSUME pc # "done"
      PROVE  (/\ Floor(inDegree, executed) /\ QueuedReady /\ ForkKnown /\ OldStays /\ BranchKnown
              /\ \A n \in executed : runs[n] > 0)'
  <2>1. Floor(inDegree, executed)'
    BY <1>1, <1>7, <1>8, FloorStays
  <2>2. QueuedReady'
    BY <1>1, <1>3, <1>4, <1>7, <1>8 DEF QueuedReady, BranchesLeft
  <2>3. ForkKnown' /\ Pending' = Pending
    BY <1>1, <1>7, <1>8, ForkKept
  <2>4. Old' = Old /\ Lost' = Lost
    BY <1>1, <1>3 DEF Old, Lost
  <2>5. OldStays'
    BY <1>1, <1>3, <1>7, <1>8, <2>3, <2>4 DEF OldStays
  <2>6. BranchKnown'
    <3>1. CASE pc = "branch"
      <4>1. BranchesLeft' /\ BranchToRun' = BranchToRun
        BY <1>1, <1>7, <3>1 DEF BranchKnown, BranchesLeft, BranchToRun
      <4>2. Floor(branch.inDegree, executed \cup branch.done)'
        <5>1. PICK deg, S : deg = branch.inDegree /\ S = executed \cup branch.done
          OBVIOUS
        <5>2. Floor(deg, S)
          BY <1>7, <3>1, <5>1 DEF BranchKnown
        <5>3. Floor(deg, S)'
          BY <1>1, <5>2, FloorStays
        <5>4. branch'.inDegree = deg /\ executed' \cup branch'.done = S
          BY <1>1, <5>1
        <5> QED
          BY <5>3, <5>4 DEF Floor, Unwalked
      <4>3. ASSUME NEW n \in branch.done
            PROVE  RanInBranch(n)'
        BY <1>1, <1>3, <1>7, <3>1, <4>1 DEF BranchKnown, RanInBranch
      <4>4. branch'.done # {} => \A i \in 1..Len(branch'.queue) : ReadyInBranch(branch.queue[i])'
        BY <1>1, <1>3, <1>4, <1>7, <3>1 DEF BranchKnown, ReadyInBranch
      <4>5. (branch.done # {} => \A i \in 1..Len(branch.queue) : ReadyInBranch(branch.queue[i]))'
        BY <4>4
      <4>6. /\ branch'.done \cap executed' = {}
            /\ branch'.done = {} => branch'.queue = <<BranchToRun>>'
            /\ branch'.queue = <<>> => branch'.last \in branch'.done
        BY <1>1, <1>7, <3>1, <4>1 DEF BranchKnown
      <4> QED
        BY <1>1, <3>1, <4>1, <4>2, <4>3, <4>5, <4>6 DEF BranchKnown
    <3>2. CASE pc # "branch"
      BY <1>1, <1>7, <1>8, <3>2 DEF BranchKnown
    <3> QED
      BY <3>1, <3>2
  <2> QED
    BY <1>1, <1>7, <1>8, <2>1, <2>2, <2>3, <2>5, <2>6
<1> QED
  BY <1>1, <1>5, <1>6, <1>8 DEF RunInv

LEMMA RunInvSteps ==
  ASSUME TypeOK, TypeOK', RunInv, Proper, [Next]_vars
  PROVE  RunInv'
<1>1. CASE UNCHANGED vars
  BY <1>1, RunStutters
<1>2. CASE Resume
  BY <1>2, ResumeKeeps
<1>3. CASE Rebuild \/ StartBranch \/ BranchDone
  BY <1>3, RebuildKeeps, BranchStarts, BranchIsOver
<1>4. CASE UnknownNode \/ SkipExecuted \/ Finalize \/ SnapshotMissing
  <2>1. PICK m : m = Head(readyQueue)
    OBVIOUS
  <2> QED
    BY <1>4, <2>1, QueueSteps, EndingSteps
<1>5. ASSUME NEW n \in Node, Step(n)
      PROVE  RunInv'
  <2>1. CASE BranchRuns(n)
    <3>1. pc' \in {"branch", "done"}
      BY <2>1 DEF BranchRuns, HandedInBranch, InBranch, Return
    <3> QED
      BY <2>1, <3>1, BranchGoesOn, BranchEnds
  <2>2. CASE BranchFails(n)
    BY <2>2, BranchEnds DEF BranchFails, Return
  <2>3. CASE RunFork(n) \/ RunJoin(n) \/ NodeCompletes(n)
    BY <2>3, CompleteSteps
  <2>4. CASE Requeue(n) \/ NodeYields(n) \/ AssertJumps(n)
    BY <2>4, QueueSteps
  <2>5. CASE BadWait(n) \/ JoinThrows(n) \/ NodeFails(n) \/ NodePauses(n)
    BY <2>5, EndingSteps
  <2> QED
    BY <1>5, <2>1, <2>2, <2>3, <2>4, <2>5 DEF Step
<1> QED
  BY <1>1, <1>2, <1>3, <1>4, <1>5 DEF Next, Loop

\* A node of in-degree 0, or the entry point, has nothing before it.
LEMMA SeededReady ==
  ASSUME graph \in Graph, allNodes = graph.order, NEW i,
         i \in 1..Len(Seeded(Roots(allNodes, BuiltInDegree(allNodes))))
  PROVE  \E x : x = Seeded(Roots(allNodes, BuiltInDegree(allNodes)))[i] /\ ReadyHere(x)
<1> DEFINE roots == Roots(allNodes, BuiltInDegree(allNodes))
<1>1. allNodes \in Seq(Node) /\ roots \in Seq(Node)
  BY RootsType, GraphTypes DEF Graph
<1>2. ASSUME NEW j \in 1..Len(roots)
      PROVE  \E x : x = roots[j] /\ ReadyHere(x)
  <2>1. PICK r \in Registered(allNodes) :
          roots[j] = r /\ EdgesTo(Edges(allNodes), r) = {} /\ ForkEdgesTo(allNodes, r) = {}
    BY <1>1, RootsAre
  <2>2. ReadyHere(r)
    BY <2>1 DEF ReadyHere, Ready, Headed, Predecessors
  <2> QED
    BY <2>1, <2>2
<1> HIDE DEF roots
<1>3. Len(roots) \in Nat
  BY <1>1, LenProperties
<1>4. PICK s : s = Seeded(roots)
  OBVIOUS
<1>5. i \in 1..Len(s)
  BY <1>4 DEF roots
<1>6. CASE graph.entry = None
  <2>1. s = roots \o roots
    BY <1>4, <1>6 DEF Seeded
  <2>2. /\ Len(s) = Len(roots) + Len(roots)
        /\ s[i] = IF i <= Len(roots) THEN roots[i] ELSE roots[i - Len(roots)]
    BY <1>1, <1>5, <2>1, ConcatProperties
  <2>3. i \in 1..Len(roots) \/ i - Len(roots) \in 1..Len(roots)
    BY <1>3, <1>5, <2>2
  <2>4. \E x : x = s[i] /\ ReadyHere(x)
    BY <1>2, <1>3, <1>5, <2>2, <2>3
  <2> QED
    BY <1>4, <2>4 DEF roots
<1>7. CASE graph.entry # None /\ graph.entry \in Registered(graph.order)
  <2>1. graph.entry \in Node /\ ReadyHere(graph.entry)
    BY <1>1, <1>7, SeqPlaces DEF ReadyHere, Ready, Registered
  <2>2. s = <<graph.entry>> \o roots
    BY <1>4, <1>7 DEF Seeded
  <2>3. <<graph.entry>> \in Seq(Node) /\ Len(<<graph.entry>>) = 1 /\ <<graph.entry>>[1] = graph.entry
    BY <2>1
  <2>4. /\ Len(s) = 1 + Len(roots)
        /\ s[i] = IF i <= 1 THEN <<graph.entry>>[i] ELSE roots[i - 1]
    BY <1>1, <1>5, <2>2, <2>3, ConcatProperties
  <2>5. i = 1 \/ i - 1 \in 1..Len(roots)
    BY <1>3, <1>5, <2>4
  <2>6. \E x : x = s[i] /\ ReadyHere(x)
    BY <1>2, <1>5, <2>1, <2>3, <2>4, <2>5
  <2> QED
    BY <1>4, <2>6 DEF roots
<1>8. CASE graph.entry # None /\ graph.entry \notin Registered(graph.order)
  <2>1. s = <<>>
    BY <1>4, <1>8 DEF Seeded
  <2> QED
    BY <1>5, <2>1
<1> QED
  BY <1>6, <1>7, <1>8

LEMMA RunInvInit == Init => RunInv
<1> SUFFICES ASSUME Init PROVE RunInv
  OBVIOUS
<1>1. /\ graph \in Graph /\ allNodes = graph.order /\ allNodes \in Seq(Node) /\ BuildOk(allNodes)
      /\ inDegree = BuiltInDegree(allNodes) /\ executed = {} /\ fork = NoFork /\ branch = NoBranch
      /\ readyQueue = Seeded(Roots(allNodes, BuiltInDegree(allNodes)))
      /\ dynamic.nodes = <<>> /\ resumes = 0 /\ runs = [n \in Node |-> 0] /\ pc # "branch"
  BY GraphsAssumption DEF Init, Graph
<1>2. Registered(dynamic.nodes) = {} /\ Registered(allNodes) = Registered(graph.order)
  BY <1>1 DEF Registered
<1>3. Grown
  BY <1>1, <1>2 DEF Grown, Whole
<1>4. Counted
  BY <1>1 DEF Counted
<1>5. Floor(inDegree, executed)
  <2> SUFFICES ASSUME NEW n \in Node
               PROVE  inDegree[n] >= Cardinality(Unwalked(n, executed)) + Cardinality(ForkEdgesTo(allNodes, n))
    BY DEF Floor
  <2>1. Unwalked(n, executed) = EdgesTo(Edges(allNodes), n)
    BY <1>1 DEF Unwalked
  <2>2. /\ inDegree[n] = Cardinality(EdgesTo(Edges(allNodes), n)) + Cardinality(ForkEdgesTo(allNodes, n))
        /\ inDegree[n] \in Nat
    BY <1>1, BuiltAwaits
  <2> QED
    BY <2>1, <2>2
<1>6. QueuedReady
  <2> SUFFICES ASSUME NEW i \in 1..Len(readyQueue)
               PROVE  readyQueue[i] \in Registered(allNodes) /\ Ready(readyQueue[i])
    BY DEF QueuedReady
  <2>1. PICK x : x = readyQueue[i] /\ ReadyHere(x)
    BY <1>1, SeededReady
  <2> QED
    BY <2>1 DEF ReadyHere
<1>7. ForkKnown
  BY <1>1 DEF ForkKnown, NoFork
<1>8. Old = {}
  BY <1>1 DEF Old
<1>9. OldStays
  BY <1>8 DEF OldStays
<1>10. BranchKnown
  BY <1>1 DEF BranchKnown, NoBranch
<1> QED
  BY <1>1, <1>3, <1>4, <1>5, <1>6, <1>7, <1>9, <1>10 DEF RunInv

\* No step changes the program.
LEMMA GraphFixed == [Next]_vars => UNCHANGED graph
<1> SUFFICES ASSUME [Next]_vars PROVE UNCHANGED graph
  OBVIOUS
<1>1. CASE UNCHANGED vars
  BY <1>1 DEF vars
<1>2. CASE Loop \/ Resume
  BY <1>2 DEF Loop, Resume, UnknownNode, SkipExecuted, Rebuild, Finalize, SnapshotMissing,
     StartBranch, BranchDone
<1>3. ASSUME NEW n \in Node, Step(n)
      PROVE  UNCHANGED graph
  BY <1>3 DEF Step, Requeue, BadWait, RunFork, RunJoin, JoinThrows, NodeFails, AssertJumps,
     NodeYields, NodePauses, NodeCompletes, BranchFails, BranchRuns
<1> QED
  BY <1>1, <1>2, <1>3 DEF Next

LEMMA ProperStays == [Next]_vars => (Proper' <=> Proper)
<1> SUFFICES ASSUME [Next]_vars PROVE Proper' <=> Proper
  OBVIOUS
<1>1. BranchesApart' <=> BranchesApart
  <2>1. UNCHANGED graph.type /\ UNCHANGED graph.branches
    BY GraphFixed
  <2>2. \A f : Registered(graph.branches[f])' = Registered(graph.branches[f])
    BY <2>1 DEF Registered
  <2> QED
    BY <2>1, <2>2 DEF BranchesApart
<1>2. BranchRoots' = BranchRoots
  BY GraphFixed DEF BranchRoots
<1>3. EntryApart' <=> EntryApart
  BY GraphFixed, <1>2 DEF EntryApart, Registered
<1>4. /\ \A n : LeadsTo(n)' = LeadsTo(n) /\ Registered(graph.subgraph[n])' = Registered(graph.subgraph[n])
      /\ Registered(graph.order)' = Registered(graph.order)
  BY GraphFixed DEF LeadsTo, Registered
<1>5. GrowthApart' <=> GrowthApart
  BY GraphFixed, <1>4 DEF GrowthApart
<1> QED
  BY <1>1, <1>3, <1>5 DEF Proper

OnceInv == TypeInv /\ (Proper => RunInv)

LEMMA InitOnceInv == Init => OnceInv
BY InitTypeInv, RunInvInit DEF OnceInv

LEMMA NextOnceInv == OnceInv /\ [Next]_vars => OnceInv'
<1> SUFFICES ASSUME OnceInv, [Next]_vars PROVE OnceInv'
  OBVIOUS
<1>1. TypeInv'
  BY NextTypeInv DEF OnceInv
<1>2. TypeOK /\ TypeOK'
  BY <1>1 DEF OnceInv, TypeInv
<1>3. Proper' => Proper
  BY ProperStays
<1>4. Proper' => RunInv'
  BY <1>2, <1>3, RunInvSteps DEF OnceInv
<1> QED
  BY <1>1, <1>4 DEF OnceInv

(* In every run of a proper program no node is run more often than once,   *)
(* and once more for each time the run was resumed: the duplicates that    *)
(* the seeding, a rebuild and a requeue put into the queue are all seen by *)
(* executed_, and no node a branch ran, though executed_ learns of the     *)
(* last one only, is run by another branch or by the main loop.            *)
THEOREM RunAtMostOnce == Spec /\ Proper => []RunsOnce
<1>1. OnceInv => (Proper => RunsOnce)
  BY DEF OnceInv, RunInv, Counted, RunsOnce
<1> QED
  BY <1>1, InitOnceInv, NextOnceInv, ProperStays, PTL DEF Spec

-----------------------------------------------------------------------------
(* What a branch writes stays in it.                                       *)

\* Whoever wrote a value has run when the step is over.
AuthorsAfter(c) == \A k \in Key : c[k] \in Node => runs'[c[k]] > 0
Onward == \A n \in Node : runs'[n] >= runs[n]

LEMMA AuthorsStay ==
  ASSUME TypeOK, TypeOK', Onward, NEW c, AuthorsRan(c)
  PROVE  AuthorsAfter(c)
<1>1. \A n \in Node : runs[n] \in Nat /\ runs'[n] \in Nat /\ runs'[n] >= runs[n]
  BY DEF Onward, TypeOK
<1>2. \A n \in Node : runs[n] > 0 => runs'[n] > 0
  BY <1>1
<1> QED
  BY <1>2 DEF AuthorsAfter, AuthorsRan

LEMMA RanOnward ==
  ASSUME TypeOK, NEW n \in Node, Ran(n)
  PROVE  Onward /\ runs'[n] > 0
<1>1. \A m \in Node : runs[m] \in Nat
  BY DEF TypeOK
<1>2. runs' = [m \in Node |-> IF m = n THEN runs[n] + 1 ELSE runs[m]]
  BY DEF Ran, TypeOK
<1> QED
  BY <1>1, <1>2 DEF Onward

LEMMA AuthorsWrote ==
  ASSUME TypeOK, TypeOK', Onward, NEW c, AuthorsRan(c), NEW n, n \in Node => runs'[n] > 0
  PROVE  AuthorsAfter(Wrote(c, n))
<1>1. AuthorsAfter(c)
  BY AuthorsStay
<1> QED
  BY <1>1 DEF AuthorsAfter, Wrote

\* A snapshot that is there was there before, or is the one just taken.
LEMMA SavedHolds ==
  ASSUME NEW snaps, NEW key, NEW c, NEW m \in DOMAIN Saved(snaps, key, c)
  PROVE  \/ m \in DOMAIN snaps /\ Saved(snaps, key, c)[m] = snaps[m]
         \/ m = key /\ Saved(snaps, key, c)[m] = c
BY DEF Saved

LEMMA SnapshotHolds ==
  ASSUME NEW snaps, NEW n, NEW c, NEW m \in DOMAIN SnapshotIfNeeded(snaps, n, c)
  PROVE  \/ m \in DOMAIN snaps /\ SnapshotIfNeeded(snaps, n, c)[m] = snaps[m]
         \/ /\ m = n /\ SnapshotIfNeeded(snaps, n, c)[m] = c
            /\ graph.type[m] # "fork"
BY SavedHolds DEF SnapshotIfNeeded

\* What was saved in the step was written by nodes that ran, and is no fork's snapshot.
SavedApart ==
  \A m \in DOMAIN snapshots' :
    \/ m \in DOMAIN snapshots /\ snapshots'[m] = snapshots[m]
    \/ AuthorsAfter(snapshots'[m]) /\ (graph.type[m] # "fork" \/ pc' = "done")

LEMMA StaysApart ==
  ASSUME TypeOK, TypeOK', Apart, UNCHANGED <<graph, fork>>, Onward,
         fork.on /\ pc # "done" => graph.type[fork.node] = "fork", pc # "done" \/ pc' = "done",
         AuthorsAfter(context'), SavedApart,
         pc' = "branch" => /\ AuthorsAfter(branch'.context)
                           /\ \A k \in Key : branch'.context[k] \notin FirstNodes \ {BranchToRun}
  PROVE  Apart'
<1>1. AuthorsRan(context)'
  BY DEF AuthorsAfter, AuthorsRan
<1>2. ASSUME NEW m \in DOMAIN snapshots'
      PROVE  AuthorsRan(snapshots[m])'
  <2>1. AuthorsAfter(snapshots'[m])
    <3>1. CASE m \in DOMAIN snapshots /\ snapshots'[m] = snapshots[m]
      <4>1. AuthorsAfter(snapshots[m])
        BY <3>1, AuthorsStay DEF Apart
      <4> QED
        BY <3>1, <4>1
    <3> QED
      BY <1>2, <3>1 DEF SavedApart
  <2> QED
    BY <2>1 DEF AuthorsAfter, AuthorsRan
<1>3. ASSUME NEW i \in DOMAIN fork'.results
      PROVE  AuthorsRan(fork.results[i])'
  <2>1. AuthorsAfter(fork.results[i])
    BY <1>3, AuthorsStay DEF Apart
  <2> QED
    BY <2>1 DEF AuthorsAfter, AuthorsRan
<1>4. FirstNodes' = FirstNodes /\ BranchToRun' = BranchToRun
  BY DEF FirstNodes, BranchToRun, Registered
<1>5. (pc = "branch" => AuthorsRan(branch.context))'
  BY DEF AuthorsAfter, AuthorsRan
<1>6. (pc = "branch" => \A k \in Key : branch.context[k] \notin FirstNodes \ {BranchToRun})'
  BY <1>4
<1>7. ASSUME (pc # "done" /\ fork.on /\ fork.node \in DOMAIN snapshots)'
      PROVE  \A k \in Key : snapshots'[fork'.node][k] \notin FirstNodes'
  <2>1. fork.node \in DOMAIN snapshots /\ snapshots'[fork.node] = snapshots[fork.node]
    BY <1>7 DEF SavedApart
  <2> QED
    BY <1>4, <1>7, <2>1 DEF Apart
<1>8. (Len(fork.results) = fork.index)'
  BY DEF Apart
<1>9. (\A i \in DOMAIN fork.results : \A k \in Key :
         fork.results[i][k] \notin FirstNodes \ {fork.branches[i]})'
  BY <1>4 DEF Apart
<1>10. (\A m \in DOMAIN snapshots : AuthorsRan(snapshots[m]))'
  BY <1>2
<1>11. (\A i \in DOMAIN fork.results : AuthorsRan(fork.results[i]))'
  BY <1>3
<1>12. (pc # "done" /\ fork.on /\ fork.node \in DOMAIN snapshots =>
         \A k \in Key : snapshots[fork.node][k] \notin FirstNodes)'
  BY <1>7
<1> QED
  BY <1>1, <1>5, <1>6, <1>8, <1>9, <1>10, <1>11, <1>12 DEF Apart

\* What the main loop does to contexts and snapshots without a fork or a join.
LEMMA LoopApart ==
  ASSUME TypeOK, TypeOK', RunInv, Apart,
         \/ UNCHANGED vars \/ Resume \/ UnknownNode \/ SkipExecuted \/ Rebuild \/ Finalize
         \/ SnapshotMissing \/ (\E n \in Node : Requeue(n) \/ BadWait(n) \/ JoinThrows(n))
  PROVE  Apart'
<1>1. UNCHANGED <<graph, fork, snapshots>>
  BY DEF vars, Resume, UnknownNode, SkipExecuted, Rebuild, Finalize, SnapshotMissing, Requeue,
     BadWait, JoinThrows, sessVars
<1>2. Onward
  <2>1. UNCHANGED runs \/ \E n \in Node : Ran(n)
    BY DEF vars, Resume, UnknownNode, SkipExecuted, Rebuild, Finalize, SnapshotMissing, Requeue,
       BadWait, JoinThrows
  <2>2. UNCHANGED runs => Onward
    BY DEF Onward, TypeOK
  <2> QED
    BY <2>1, <2>2, RanOnward
<1>3. fork.on /\ pc # "done" => graph.type[fork.node] = "fork"
  BY DEF RunInv, ForkKnown
<1>4. pc # "done" \/ pc' = "done"
  BY DEF vars, Resume, UnknownNode, SkipExecuted, Rebuild, Finalize, SnapshotMissing, Requeue,
     BadWait, JoinThrows, AtHead, Dispatched, Dispatching, Return
<1>5. AuthorsAfter(context')
  <2>1. AuthorsAfter(context)
    BY <1>2, AuthorsStay DEF Apart
  <2>2. CASE Resume
    <3>1. \A k \in Key : context'[k] = Caller \/ context'[k] = context[k]
      BY <2>2 DEF Resume
    <3> QED
      BY <2>1, <3>1, NamesAssumption DEF AuthorsAfter
  <2>3. CASE UNCHANGED context
    BY <2>1, <2>3
  <2> QED
    BY <2>2, <2>3 DEF vars, UnknownNode, SkipExecuted, Rebuild, Finalize, SnapshotMissing, Requeue,
       BadWait, JoinThrows, sessVars
<1>6. SavedApart
  BY <1>1 DEF SavedApart
<1>7. pc' = "branch" => pc = "branch" /\ UNCHANGED branch
  BY DEF vars, Resume, UnknownNode, SkipExecuted, Rebuild, Finalize, SnapshotMissing, Requeue,
     BadWait, JoinThrows, AtHead, Dispatched, Dispatching, Return
<1>8. pc' = "branch" => /\ AuthorsAfter(branch'.context)
                        /\ \A k \in Key : branch'.context[k] \notin FirstNodes \ {BranchToRun}
  <2> SUFFICES ASSUME pc' = "branch"
               PROVE  /\ AuthorsAfter(branch'.context)
                      /\ \A k \in Key : branch'.context[k] \notin FirstNodes \ {BranchToRun}
    OBVIOUS
  <2>1. AuthorsAfter(branch.context)
    BY <1>2, <1>7, AuthorsStay DEF Apart
  <2> QED
    BY <1>7, <2>1 DEF Apart
<1> QED
  BY <1>1, <1>2, <1>3, <1>4, <1>5, <1>6, <1>8, StaysApart

LEMMA NodeApart ==
  ASSUME TypeOK, TypeOK', RunInv, Apart, NEW n \in Node,
         NodeFails(n) \/ AssertJumps(n) \/ NodeYields(n) \/ NodePauses(n) \/ NodeCompletes(n)
  PROVE  Apart'
<1>1. /\ Ran(n) /\ UNCHANGED <<graph, fork>> /\ pc = "loop" /\ pc' # "branch"
      /\ context' = context \/ context' = Wrote(context, n)
      /\ snapshots' = snapshots \/ snapshots' = SnapshotIfNeeded(snapshots, n, context)
  BY DEF NodeFails, AssertJumps, NodeYields, NodePauses, NodeCompletes, Handed, Dispatched, AtHead,
     Dispatching, Return
<1>2. Onward /\ runs'[n] > 0
  BY <1>1, RanOnward
<1>3. fork.on /\ pc # "done" => graph.type[fork.node] = "fork"
  BY DEF RunInv, ForkKnown
<1>4. AuthorsRan(context)
  BY DEF Apart
<1>5. AuthorsAfter(context) /\ AuthorsAfter(Wrote(context, n))
  BY <1>2, <1>4, AuthorsStay, AuthorsWrote
<1>6. AuthorsAfter(context')
  BY <1>1, <1>5
<1>7. SavedApart
  <2> SUFFICES ASSUME NEW m \in DOMAIN snapshots'
               PROVE  \/ m \in DOMAIN snapshots /\ snapshots'[m] = snapshots[m]
                      \/ AuthorsAfter(snapshots'[m]) /\ graph.type[m] # "fork"
    BY DEF SavedApart
  <2>1. CASE snapshots' = SnapshotIfNeeded(snapshots, n, context)
    <3>1. \/ m \in DOMAIN snapshots /\ snapshots'[m] = snapshots[m]
          \/ snapshots'[m] = context /\ graph.type[m] # "fork"
      BY <2>1, SnapshotHolds
    <3> QED
      BY <1>5, <3>1
  <2> QED
    BY <1>1, <2>1
<1> QED
  BY <1>1, <1>2, <1>3, <1>6, <1>7, StaysApart

\* The first nodes of a fork that has not run have not run either.
LEMMA FirstNodesNew ==
  ASSUME TypeOK, RunInv, Proper, NEW n \in Node, RunFork(n), NEW b \in Registered(graph.branches[n])
  PROVE  b \in Node => ~(runs[b] > 0)
<1> SUFFICES ASSUME b \in Node, runs[b] > 0 PROVE FALSE
  OBVIOUS
<1>1. Dispatching /\ Head(readyQueue) = n /\ n \notin executed /\ n \in Registered(allNodes)
      /\ graph.type[n] = "fork"
  BY DEF RunFork, Dispatched, AtHead
<1>2. branch.done = {} /\ OldStays
  BY <1>1, HeadIsReady
<1>3. Headed(b)
  BY <1>1, HeadedIs DEF Headed
<1>4. b # graph.entry
  BY <1>3, EntryIsFirst, NamesAssumption
<1>5. b \in Old
  BY <1>2, <1>3, <1>4 DEF Old, Ready
<1>6. PICK f \in executed : f \in Node /\ graph.type[f] = "fork" /\ b \in Registered(graph.branches[f])
  BY <1>2, <1>3, <1>5 DEF OldStays, ForksOf
<1> QED
  BY <1>1, <1>6 DEF Proper, BranchesApart

LEMMA ForkApart ==
  ASSUME TypeOK, TypeOK', RunInv, Proper, Apart, NEW n \in Node, RunFork(n)
  PROVE  Apart'
<1>1. /\ Ran(n) /\ pc = "loop" /\ pc' = "loop" /\ UNCHANGED <<graph, context>>
      /\ snapshots' = Saved(snapshots, n, context)
      /\ fork'.on = TRUE /\ fork'.node = n /\ fork'.branches = graph.branches[n] /\ fork'.index = 0
      /\ fork'.results = <<>>
  BY DEF RunFork, Dispatched, AtHead, Dispatching
<1>2. Onward
  BY <1>1, RanOnward
<1>3. AuthorsRan(context) /\ \A m \in DOMAIN snapshots : AuthorsRan(snapshots[m])
  BY DEF Apart
<1>4. ASSUME NEW m \in DOMAIN snapshots'
      PROVE  AuthorsRan(snapshots'[m])
  <2>1. \/ m \in DOMAIN snapshots /\ snapshots'[m] = snapshots[m]
        \/ snapshots'[m] = context
    BY <1>1, SavedHolds
  <2> QED
    BY <1>3, <2>1
<1>5. AuthorsRan(context)'
  <2>1. AuthorsAfter(context)
    BY <1>2, <1>3, AuthorsStay
  <2> QED
    BY <1>1, <2>1 DEF AuthorsAfter, AuthorsRan
<1>6. ASSUME NEW m \in DOMAIN snapshots'
      PROVE  AuthorsRan(snapshots[m])'
  <2>1. PICK c : c = snapshots'[m]
    OBVIOUS
  <2>2. AuthorsRan(c)
    BY <1>4, <2>1
  <2>3. AuthorsAfter(c)
    BY <1>2, <2>2, AuthorsStay
  <2> QED
    BY <2>1, <2>3 DEF AuthorsAfter, AuthorsRan
<1>7. FirstNodes' = Registered(graph.branches[n])
  BY <1>1 DEF FirstNodes, Registered
<1>8. ASSUME fork'.node \in DOMAIN snapshots', NEW k \in Key
      PROVE  snapshots'[fork'.node][k] \notin FirstNodes'
  <2>1. AuthorsRan(snapshots'[n])
    BY <1>1, <1>4, <1>8
  <2>2. PICK b : b = snapshots'[n][k]
    OBVIOUS
  <2>3. Registered(graph.branches[n]) \subseteq Node
    <3>1. graph.branches[n] \in Seq(Node)
      BY GraphTypes DEF TypeOK
    <3> QED
      BY <3>1, SeqPlaces DEF Registered
  <2> QED
    BY <1>1, <1>7, <2>1, <2>2, <2>3, FirstNodesNew DEF AuthorsRan
<1>9. (\A i \in DOMAIN fork.results : AuthorsRan(fork.results[i]))'
      /\ (\A i \in DOMAIN fork.results : \A k \in Key :
            fork.results[i][k] \notin FirstNodes \ {fork.branches[i]})'
  BY <1>1
<1>10. (Len(fork.results) = fork.index)'
  BY <1>1
<1>11. (\A m \in DOMAIN snapshots : AuthorsRan(snapshots[m]))'
  BY <1>6
<1>12. (pc # "done" /\ fork.on /\ fork.node \in DOMAIN snapshots =>
          \A k \in Key : snapshots[fork.node][k] \notin FirstNodes)'
  BY <1>8
<1> QED
  BY <1>1, <1>5, <1>9, <1>10, <1>11, <1>12 DEF Apart

LEMMA JoinApart ==
  ASSUME TypeOK, TypeOK', Apart, NEW n \in Node, RunJoin(n)
  PROVE  Apart'
<1>1. /\ Ran(n) /\ pc = "loop" /\ pc' = "loop" /\ UNCHANGED <<graph, snapshots>>
      /\ context' = Merged(fork.results, context) /\ fork' = NoFork
  BY DEF RunJoin, Dispatched, AtHead, Dispatching
<1>2. Onward
  BY <1>1, RanOnward
<1>3. fork'.on = FALSE /\ fork'.results = <<>> /\ fork'.index = 0
  BY <1>1 DEF NoFork
<1>4. AuthorsAfter(context)
  BY <1>2, AuthorsStay DEF Apart
<1>5. ASSUME NEW i \in DOMAIN fork.results
      PROVE  AuthorsAfter(fork.results[i])
  BY <1>2, AuthorsStay DEF Apart
<1>6. ASSUME NEW k \in Key
      PROVE  context'[k] = context[k] \/ \E i \in DOMAIN fork.results : context'[k] = fork.results[i][k]
  <2> DEFINE writers == {i \in DOMAIN fork.results : fork.results[i][k] # None}
             last == CHOOSE i \in writers : \A j \in writers : j <= i
  <2>1. CASE writers = {}
    BY <1>1, <2>1 DEF Merged
  <2>2. CASE writers # {}
    <3>1. writers \in SUBSET (1..Len(fork.results)) /\ Len(fork.results) \in Nat
      BY LenProperties DEF TypeOK
    <3>2. last \in writers
      BY <2>2, <3>1, LastPlace
    <3>3. context'[k] = fork.results[last][k]
      BY <1>1, <2>2 DEF Merged
    <3> QED
      BY <3>2, <3>3
  <2> QED
    BY <2>1, <2>2
<1>7. AuthorsAfter(context')
  BY <1>4, <1>5, <1>6 DEF AuthorsAfter
<1>8. ASSUME NEW m \in DOMAIN snapshots
      PROVE  AuthorsAfter(snapshots[m])
  BY <1>2, AuthorsStay DEF Apart
<1>9. AuthorsRan(context)' /\ (\A m \in DOMAIN snapshots : AuthorsRan(snapshots[m]))'
  BY <1>1, <1>7, <1>8 DEF AuthorsAfter, AuthorsRan
<1> QED
  BY <1>1, <1>3, <1>9 DEF Apart

LEMMA StartApart ==
  ASSUME TypeOK, TypeOK', RunInv, Apart, StartBranch
  PROVE  Apart'
<1>1. /\ pc = "loop" /\ BranchesLeft /\ fork.node \in DOMAIN snapshots
      /\ UNCHANGED <<graph, fork, context, snapshots, runs>>
      /\ branch'.context = snapshots[fork.node]
  BY DEF StartBranch, BranchContext, dagVars, sessVars
<1>2. Onward
  BY <1>1 DEF Onward, TypeOK
<1>3. fork.on /\ graph.type[fork.node] = "fork"
  BY <1>1 DEF RunInv, ForkKnown, BranchesLeft
<1>4. AuthorsAfter(context) /\ AuthorsAfter(snapshots[fork.node])
  BY <1>1, <1>2, AuthorsStay DEF Apart
<1>5. \A k \in Key : snapshots[fork.node][k] \notin FirstNodes
  BY <1>1, <1>3 DEF Apart
<1>6. SavedApart
  BY <1>1 DEF SavedApart
<1> QED
  BY <1>1, <1>2, <1>3, <1>4, <1>5, <1>6, StaysApart

LEMMA BranchApart ==
  ASSUME TypeOK, TypeOK', RunInv, Proper, Apart, NEW n \in Node, BranchRuns(n) \/ BranchFails(n)
  PROVE  Apart'
<1>1. /\ HandedInBranch(n) /\ Ran(n) /\ pc = "branch" /\ UNCHANGED <<graph, fork, context>>
  BY DEF BranchRuns, BranchFails, HandedInBranch, InBranch
<1>2. Onward /\ runs'[n] > 0
  BY <1>1, RanOnward
<1>3. BranchesLeft /\ ForkKnown
  BY <1>1, InTheBranch
<1>4. fork.on /\ graph.type[fork.node] = "fork" /\ fork.node \in Registered(allNodes)
      /\ fork.branches = graph.branches[fork.node]
  BY <1>3 DEF ForkKnown, BranchesLeft
<1>5. AuthorsRan(branch.context) /\ AuthorsRan(context)
      /\ \A k \in Key : branch.context[k] \notin FirstNodes \ {BranchToRun}
  BY <1>1 DEF Apart
<1>6. AuthorsAfter(context) /\ AuthorsAfter(branch.context) /\ AuthorsAfter(Wrote(branch.context, n))
  BY <1>2, <1>5, AuthorsStay, AuthorsWrote
<1>7. n \notin FirstNodes \ {BranchToRun}
  <2>1. n = BranchToRun \/ ~Headed(n)
    BY <1>1, NewInBranch DEF ReadyInBranch
  <2>2. n \in FirstNodes => Headed(n)
    BY <1>4, HeadedIs DEF Headed, FirstNodes
  <2> QED
    BY <2>1, <2>2
<1>8. \A k \in Key : Wrote(branch.context, n)[k] \notin FirstNodes \ {BranchToRun}
  BY <1>5, <1>7 DEF Wrote
<1>9. CASE BranchRuns(n)
  <2>1. branch'.context = Wrote(branch.context, n)
        /\ snapshots' = SnapshotIfNeeded(snapshots, n, branch.context)
    BY <1>9 DEF BranchRuns
  <2>2. SavedApart
    <3> SUFFICES ASSUME NEW m \in DOMAIN snapshots'
                 PROVE  \/ m \in DOMAIN snapshots /\ snapshots'[m] = snapshots[m]
                        \/ AuthorsAfter(snapshots'[m]) /\ graph.type[m] # "fork"
      BY DEF SavedApart
    <3>1. \/ m \in DOMAIN snapshots /\ snapshots'[m] = snapshots[m]
          \/ snapshots'[m] = branch.context /\ graph.type[m] # "fork"
      BY <2>1, SnapshotHolds
    <3> QED
      BY <1>6, <3>1
  <2> QED
    BY <1>1, <1>2, <1>4, <1>6, <1>8, <2>1, <2>2, StaysApart
<1>10. CASE BranchFails(n)
  <2>1. /\ pc' = "done"
        /\ \/ snapshots' = Saved(snapshots, n, branch.context)
           \/ snapshots' = SnapshotIfNeeded(snapshots, n, branch.context)
    BY <1>10 DEF BranchFails, Return
  <2>2. SavedApart
    <3> SUFFICES ASSUME NEW m \in DOMAIN snapshots'
                 PROVE  \/ m \in DOMAIN snapshots /\ snapshots'[m] = snapshots[m]
                        \/ AuthorsAfter(snapshots'[m])
      BY <2>1 DEF SavedApart
    <3>1. \/ m \in DOMAIN snapshots /\ snapshots'[m] = snapshots[m]
          \/ snapshots'[m] = branch.context
      BY <2>1, SavedHolds, SnapshotHolds
    <3> QED
      BY <1>6, <3>1
  <2> QED
    BY <1>1, <1>2, <1>4, <1>6, <2>1, <2>2, StaysApart
<1> QED
  BY <1>9, <1>10

LEMMA OverApart ==
  ASSUME TypeOK, TypeOK', Apart, BranchDone
  PROVE  Apart'
<1>1. /\ pc = "branch" /\ pc' = "loop" /\ UNCHANGED <<graph, runs, context, snapshots>>
      /\ fork'.on = fork.on /\ fork'.node = fork.node /\ fork'.branches = fork.branches
      /\ fork'.index = fork.index + 1 /\ fork'.results = Append(fork.results, branch.context)
  BY DEF BranchDone, sessVars
<1>2. /\ AuthorsRan(context) /\ AuthorsRan(branch.context) /\ Len(fork.results) = fork.index
      /\ \A m \in DOMAIN snapshots : AuthorsRan(snapshots[m])
      /\ \A i \in DOMAIN fork.results : AuthorsRan(fork.results[i])
      /\ \A i \in DOMAIN fork.results : \A k \in Key :
           fork.results[i][k] \notin FirstNodes \ {fork.branches[i]}
      /\ \A k \in Key : branch.context[k] \notin FirstNodes \ {BranchToRun}
      /\ fork.on /\ fork.node \in DOMAIN snapshots => \A k \in Key : snapshots[fork.node][k] \notin FirstNodes
  BY <1>1 DEF Apart
<1>3. /\ fork.results \in Seq(Context) /\ branch.context \in Context /\ fork.index \in Nat
      /\ Len(fork.results) \in Nat
  BY LenProperties DEF TypeOK
<1>4. /\ Len(fork'.results) = Len(fork.results) + 1
      /\ \A i \in DOMAIN fork'.results :
           \/ i \in DOMAIN fork.results /\ fork'.results[i] = fork.results[i]
           \/ i = fork.index + 1 /\ fork'.results[i] = branch.context
  BY <1>1, <1>2, <1>3, AppendProperties, LenProperties
<1>5. FirstNodes' = FirstNodes
  BY <1>1 DEF FirstNodes, Registered
<1>6. \A i \in DOMAIN fork'.results : AuthorsRan(fork'.results[i])
  BY <1>2, <1>4
<1>7. \A i \in DOMAIN fork'.results : \A k \in Key :
        fork'.results[i][k] \notin FirstNodes' \ {fork'.branches[i]}
  BY <1>1, <1>2, <1>4, <1>5 DEF BranchToRun
<1>8. (\A i \in DOMAIN fork.results : AuthorsRan(fork.results[i]))'
  BY <1>1, <1>6 DEF AuthorsRan
<1>9. AuthorsRan(context)' /\ (\A m \in DOMAIN snapshots : AuthorsRan(snapshots[m]))'
  BY <1>1, <1>2 DEF AuthorsRan
<1>10. (Len(fork.results) = fork.index)'
  BY <1>1, <1>2, <1>4
<1>11. (pc # "done" /\ fork.on /\ fork.node \in DOMAIN snapshots =>
          \A k \in Key : snapshots[fork.node][k] \notin FirstNodes)'
  BY <1>1, <1>2, <1>5
<1>12. (\A i \in DOMAIN fork.results : \A k \in Key :
          fork.results[i][k] \notin FirstNodes \ {fork.branches[i]})'
  BY <1>7
<1> QED
  BY <1>1, <1>8, <1>9, <1>10, <1>11, <1>12 DEF Apart

LEMMA ApartSteps ==
  ASSUME TypeOK, TypeOK', RunInv, Proper, Apart, [Next]_vars
  PROVE  Apart'
<1>1. CASE \/ UNCHANGED vars \/ Resume \/ UnknownNode \/ SkipExecuted \/ Rebuild \/ Finalize
           \/ SnapshotMissing
  BY <1>1, LoopApart
<1>2. CASE StartBranch \/ BranchDone
  BY <1>2, StartApart, OverApart
<1>3. ASSUME NEW n \in Node, Step(n)
      PROVE  Apart'
  <2>1. CASE Requeue(n) \/ BadWait(n) \/ JoinThrows(n)
    BY <2>1, LoopApart
  <2>2. CASE NodeFails(n) \/ AssertJumps(n) \/ NodeYields(n) \/ NodePauses(n) \/ NodeCompletes(n)
    BY <2>2, NodeApart
  <2>3. CASE RunFork(n) \/ RunJoin(n)
    BY <2>3, ForkApart, JoinApart
  <2>4. CASE BranchFails(n) \/ BranchRuns(n)
    BY <2>4, BranchApart
  <2> QED
    BY <1>3, <2>1, <2>2, <2>3, <2>4 DEF Step
<1> QED
  BY <1>1, <1>2, <1>3 DEF Next, Loop

ApartInv == OnceInv /\ (Proper => Apart)

LEMMA InitApartInv == Init => ApartInv
<1> SUFFICES ASSUME Init PROVE Apart
  BY InitOnceInv DEF ApartInv
<1>1. /\ fork = NoFork /\ pc # "branch" /\ context = [k \in Key |-> None]
      /\ snapshots = [n \in {} |-> context]
  BY DEF Init
<1>2. fork.on = FALSE /\ fork.index = 0 /\ fork.results = <<>>
  BY <1>1 DEF NoFork
<1>3. AuthorsRan(context) /\ DOMAIN snapshots = {}
  BY <1>1, NamesAssumption DEF AuthorsRan
<1> QED
  BY <1>1, <1>2, <1>3 DEF Apart

LEMMA NextApartInv == ApartInv /\ [Next]_vars => ApartInv'
<1> SUFFICES ASSUME ApartInv, [Next]_vars PROVE ApartInv'
  OBVIOUS
<1>1. OnceInv /\ OnceInv'
  BY NextOnceInv DEF ApartInv
<1>2. TypeOK /\ TypeOK'
  BY <1>1 DEF OnceInv, TypeInv
<1>3. Proper' => Proper
  BY ProperStays
<1>4. Proper' => Apart'
  BY <1>1, <1>2, <1>3, ApartSteps DEF ApartInv, OnceInv
<1> QED
  BY <1>1, <1>4 DEF ApartInv

(* In every run of a proper program what a branch saw and wrote stays in   *)
(* the branch until the join: no value in its result was written by the    *)
(* first node of another branch, for no such node had run when the fork    *)
(* took its snapshot, and the branches start from that snapshot alone.     *)
THEOREM BranchesIsolated == Spec /\ Proper => []BranchIsolation
<1>1. ApartInv => (Proper => BranchIsolation)
  <2> SUFFICES ASSUME Apart, TypeOK,
                      NEW i \in DOMAIN fork.results, NEW k \in Key, NEW h \in DOMAIN fork.branches,
                      fork.branches[h] # fork.branches[i]
               PROVE  fork.results[i][k] # fork.branches[h]
    BY DEF ApartInv, OnceInv, TypeInv, BranchIsolation
  <2>1. fork.branches[h] \in FirstNodes
    BY DEF FirstNodes, Registered
  <2> QED
    BY <2>1 DEF Apart
<1> QED
  BY <1>1, InitApartInv, NextApartInv, ProperStays, PTL DEF Spec

-----------------------------------------------------------------------------
(* Nothing runs before what leads to it, and a join has what it merges.    *)

\* A step that runs n takes it from the head of the queue, or from that of the branch.
LEMMA TakenFrom ==
  ASSUME TypeOK, [Next]_vars, NEW n \in Node, runs'[n] > runs[n]
  PROVE  Ran(n) /\ (AtHead(n) \/ HandedInBranch(n))
<1>1. \A m \in Node : runs[m] \in Nat /\ ~(runs[m] > runs[m])
  BY DEF TypeOK
<1>2. ~UNCHANGED runs
  BY <1>1
<1>3. PICK m \in Node : Step(m)
  BY <1>2 DEF Next, Loop, Resume, UnknownNode, SkipExecuted, Rebuild, Finalize, SnapshotMissing,
     StartBranch, BranchDone, vars
<1>4. Ran(m) /\ (AtHead(m) \/ HandedInBranch(m))
  BY <1>2, <1>3 DEF Step, Requeue, BadWait, RunFork, RunJoin, JoinThrows, NodeFails, AssertJumps,
     NodeYields, NodePauses, NodeCompletes, BranchFails, BranchRuns, Handed, Dispatched, HandedInBranch
<1>5. n = m
  BY <1>1, <1>4 DEF Ran, TypeOK
<1> QED
  BY <1>4, <1>5

LEMMA DependenciesRan ==
  ASSUME TypeOK, RunInv, Proper, [Next]_vars, NEW n \in Node, runs'[n] > runs[n],
         n \notin BranchRoots \cup {graph.entry}, NEW p \in Predecessors(n)
  PROVE  runs[p] > 0
<1>1. CASE AtHead(n)
  <2>1. pc = "loop" /\ Ready(n)
    BY <1>1, HeadIsReady DEF AtHead, ReadyHere
  <2> QED
    BY <2>1 DEF RunInv, Ready
<1>2. CASE HandedInBranch(n)
  <2>1. pc = "branch"
    BY <1>2 DEF HandedInBranch, InBranch
  <2>2. /\ BranchKnown /\ BuildOk(allNodes) /\ BranchesLeft /\ ForkKnown
        /\ \A m \in executed : runs[m] > 0
    BY <2>1, InTheBranch
  <2>3. n # BranchToRun
    <3>1. BranchToRun \in Registered(graph.branches[fork.node]) /\ graph.type[fork.node] = "fork"
          /\ fork.node \in Node
      <4>1. /\ fork.branches = graph.branches[fork.node] /\ fork.node \in executed
            /\ graph.type[fork.node] = "fork"
        BY <2>2 DEF ForkKnown, BranchesLeft
      <4>2. fork.index + 1 \in DOMAIN fork.branches
        BY <2>2, LenProperties DEF BranchesLeft, TypeOK
      <4> QED
        BY <4>1, <4>2 DEF BranchToRun, Registered, TypeOK
    <3>2. BranchToRun \in BranchRoots
      BY <3>1 DEF BranchRoots, Registered
    <3> QED
      BY <3>2
  <2>4. ReadyInBranch(n)
    BY <1>2, <2>3, NewInBranch
  <2>5. \A m \in branch.done : runs[m] > 0
    BY <2>1, <2>2 DEF BranchKnown, RanInBranch
  <2> QED
    BY <2>2, <2>4, <2>5 DEF ReadyInBranch
<1> QED
  BY <1>1, <1>2, TakenFrom

(* In every run of a proper program, whoever leads to a node by a next     *)
(* edge or stands in its wait_for list has run before it: the in-degrees   *)
(* that the loop, the branches and the rebuilds lower never reach zero     *)
(* early.  The entry point and first nodes of branches start otherwise.    *)
THEOREM DependenciesRunFirst == Spec /\ Proper => DependenciesFirst
<1>1. ASSUME OnceInv, Proper, [Next]_vars
      PROVE  [\A n \in Node : runs'[n] > runs[n] /\ n \notin BranchRoots \cup {graph.entry} =>
                \A m \in Predecessors(n) : runs[m] > 0]_vars
  BY <1>1, DependenciesRan DEF OnceInv, TypeInv
<1> QED
  BY <1>1, InitOnceInv, NextOnceInv, ProperStays, PTL DEF Spec, DependenciesFirst

\* The first node of the i-th branch has run, and c holds what it writes.
Told(i, c) ==
  runs[fork.branches[i]] > 0 /\ \A k \in graph.writes[fork.branches[i]] : c[k] # None

ResultsTold ==
  /\ Len(fork.results) = fork.index /\ fork.index <= Len(fork.branches)
  /\ \A i \in DOMAIN fork.results : Told(i, fork.results[i])
  /\ pc = "branch" =>
       /\ BranchesLeft
       /\ branch.done = {} => branch.queue = <<BranchToRun>>
       /\ branch.done # {} => Told(fork.index + 1, branch.context)

\* What was told stays told as nodes go on running.
LEMMA ToldStays ==
  ASSUME TypeOK, TypeOK', Onward, UNCHANGED graph, fork'.branches = fork.branches,
         NEW i \in DOMAIN fork.branches, NEW c, NEW d,
         Told(i, c), \A k \in Key : d[k] = c[k] \/ d[k] # None
  PROVE  runs'[fork.branches[i]] > 0 /\ \A k \in graph.writes[fork.branches[i]] : d[k] # None
<1>1. fork.branches[i] \in Node /\ graph.writes[fork.branches[i]] \subseteq Key
  <2>1. fork.branches[i] \in Node
    BY SeqPlaces DEF TypeOK
  <2>2. graph.writes \in [Node -> SUBSET Key]
    BY DEF TypeOK, Graph
  <2> QED
    BY <2>1, <2>2
<1>2. /\ runs[fork.branches[i]] \in Nat /\ runs'[fork.branches[i]] \in Nat
      /\ runs'[fork.branches[i]] >= runs[fork.branches[i]]
  BY <1>1 DEF Onward, TypeOK
<1>3. runs'[fork.branches[i]] > 0
  BY <1>2 DEF Told
<1> QED
  BY <1>1, <1>3 DEF Told

LEMMA OnwardSteps ==
  ASSUME TypeOK, [Next]_vars
  PROVE  Onward
<1>1. UNCHANGED runs \/ \E n \in Node : Ran(n)
  BY DEF Next, Loop, Resume, UnknownNode, SkipExecuted, Rebuild, Finalize, SnapshotMissing,
     StartBranch, BranchDone, vars, Step, Requeue, BadWait, RunFork, RunJoin, JoinThrows, NodeFails,
     AssertJumps, NodeYields, NodePauses, NodeCompletes, BranchFails, BranchRuns, Handed, HandedInBranch
<1>2. UNCHANGED runs => Onward
  BY DEF Onward, TypeOK
<1> QED
  BY <1>1, <1>2, RanOnward

\* Steps that leave the fork alone.
LEMMA ForkAlone ==
  ASSUME TypeOK, TypeOK', ResultsTold, Onward, UNCHANGED <<graph, fork>>,
         pc' = "branch" =>
           /\ BranchesLeft
           /\ branch'.done = {} => branch'.queue = <<BranchToRun>>
           /\ branch'.done # {} => /\ runs'[BranchToRun] > 0
                                   /\ \A k \in graph.writes[BranchToRun] : branch'.context[k] # None
  PROVE  ResultsTold'
<1>1. Len(fork.results) = fork.index /\ fork.index <= Len(fork.branches)
  BY DEF ResultsTold
<1>2. \A i \in DOMAIN fork.results : i \in DOMAIN fork.branches
  <2>1. DOMAIN fork.results = 1..Len(fork.results) /\ DOMAIN fork.branches = 1..Len(fork.branches)
        /\ Len(fork.results) \in Nat /\ Len(fork.branches) \in Nat
    BY LenProperties DEF TypeOK
  <2> QED
    BY <1>1, <2>1
<1>3. ASSUME NEW i \in DOMAIN fork.results
      PROVE  Told(i, fork.results[i])'
  <2>1. Told(i, fork.results[i])
    BY DEF ResultsTold
  <2> QED
    BY <1>2, <2>1, ToldStays DEF Told
<1>4. (\A i \in DOMAIN fork.results : Told(i, fork.results[i]))'
  BY <1>3
<1>5. (pc = "branch" => /\ BranchesLeft
                        /\ branch.done = {} => branch.queue = <<BranchToRun>>
                        /\ branch.done # {} => Told(fork.index + 1, branch.context))'
  BY DEF BranchesLeft, BranchToRun, Told
<1> QED
  BY <1>1, <1>4, <1>5 DEF ResultsTold

LEMMA ToldSteps ==
  ASSUME TypeOK, TypeOK', ResultsTold, [Next]_vars
  PROVE  ResultsTold'
<1>1. Onward /\ UNCHANGED graph
  BY OnwardSteps, GraphFixed
<1>2. CASE \/ UNCHANGED vars \/ Resume \/ UnknownNode \/ SkipExecuted \/ Rebuild \/ Finalize
           \/ SnapshotMissing
  <2>1. UNCHANGED <<fork, branch>> /\ (pc' = "branch" => pc = "branch")
    BY <1>2 DEF Resume, UnknownNode, SkipExecuted, Rebuild, Finalize, SnapshotMissing, vars, Return,
       Dispatching
  <2>2. pc = "branch" /\ branch.done # {} =>
          /\ runs'[BranchToRun] > 0
          /\ \A k \in graph.writes[BranchToRun] : branch.context[k] # None
    <3> SUFFICES ASSUME pc = "branch", branch.done # {}
                 PROVE  /\ runs'[BranchToRun] > 0
                        /\ \A k \in graph.writes[BranchToRun] : branch.context[k] # None
      OBVIOUS
    <3>1. BranchesLeft /\ Told(fork.index + 1, branch.context)
      BY DEF ResultsTold
    <3>2. fork.index + 1 \in DOMAIN fork.branches
      BY <3>1, LenProperties DEF BranchesLeft, TypeOK
    <3> QED
      BY <1>1, <2>1, <3>1, <3>2, ToldStays DEF BranchToRun
  <2> QED
    BY <1>1, <2>1, <2>2, ForkAlone DEF ResultsTold
<1>3. CASE StartBranch
  <2>1. /\ UNCHANGED fork /\ BranchesLeft /\ branch'.done = {} /\ branch'.queue = <<BranchToRun>>
    BY <1>3 DEF StartBranch
  <2> QED
    BY <1>1, <2>1, ForkAlone
<1>4. CASE BranchDone
  <2>1. /\ pc = "branch" /\ branch.queue = <<>> /\ pc' = "loop" /\ UNCHANGED runs
        /\ fork'.branches = fork.branches /\ fork'.index = fork.index + 1
        /\ fork'.results = Append(fork.results, branch.context)
    BY <1>4 DEF BranchDone
  <2>2. /\ BranchesLeft /\ Told(fork.index + 1, branch.context)
        /\ Len(fork.results) = fork.index /\ \A i \in DOMAIN fork.results : Told(i, fork.results[i])
    <3>1. <<>> # <<BranchToRun>>
      OBVIOUS
    <3> QED
      BY <2>1, <3>1 DEF ResultsTold
  <2>3. /\ fork.results \in Seq(Context) /\ branch.context \in Context /\ fork.index \in Nat
        /\ Len(fork.results) \in Nat /\ Len(fork.branches) \in Nat
    BY LenProperties DEF TypeOK
  <2>4. /\ Len(fork'.results) = Len(fork.results) + 1
        /\ \A i \in DOMAIN fork'.results :
             \/ i \in DOMAIN fork.results /\ fork'.results[i] = fork.results[i]
             \/ i = fork.index + 1 /\ fork'.results[i] = branch.context
    BY <2>1, <2>2, <2>3, AppendProperties, LenProperties
  <2>5. \A i \in DOMAIN fork'.results : Told(i, fork'.results[i])
    BY <2>2, <2>4
  <2>6. (\A i \in DOMAIN fork.results : Told(i, fork.results[i]))'
    BY <1>1, <2>1, <2>5 DEF Told
  <2>7. Len(fork'.results) = fork'.index /\ fork'.index <= Len(fork'.branches)
    BY <2>1, <2>2, <2>3, <2>4 DEF BranchesLeft
  <2> QED
    BY <2>1, <2>6, <2>7 DEF ResultsTold
<1>5. ASSUME NEW n \in Node, Step(n)
      PROVE  ResultsTold'
  <2>1. CASE \/ Requeue(n) \/ BadWait(n) \/ JoinThrows(n) \/ NodeFails(n) \/ AssertJumps(n)
             \/ NodeYields(n) \/ NodePauses(n) \/ NodeCompletes(n) \/ BranchFails(n)
    <3>1. UNCHANGED fork /\ pc' # "branch"
      BY <2>1 DEF Requeue, BadWait, JoinThrows, NodeFails, AssertJumps, NodeYields, NodePauses,
         NodeCompletes, BranchFails, Handed, Dispatched, AtHead, Dispatching, Return
    <3> QED
      BY <1>1, <3>1, ForkAlone
  <2>2. CASE RunFork(n) \/ RunJoin(n)
    <3>1. fork'.index = 0 /\ fork'.results = <<>> /\ fork'.branches \in Seq(Node) /\ pc' = "loop"
      BY <2>2 DEF RunFork, RunJoin, NoFork, Dispatched, AtHead, Dispatching, TypeOK
    <3>2. Len(fork'.branches) \in Nat
      BY <3>1, LenProperties
    <3> QED
      BY <3>1, <3>2 DEF ResultsTold
  <2>3. CASE BranchRuns(n)
    <3>1. /\ UNCHANGED fork /\ pc = "branch" /\ branch.queue # <<>> /\ n = Head(branch.queue) /\ Ran(n)
          /\ branch'.done = branch.done \cup {n} /\ branch'.context = Wrote(branch.context, n)
      BY <2>3 DEF BranchRuns, HandedInBranch, InBranch
    <3>2. BranchesLeft /\ branch'.done # {}
      BY <3>1 DEF ResultsTold
    <3>3. fork.index + 1 \in DOMAIN fork.branches
      <4>1. fork.index \in Nat /\ fork.branches \in Seq(Node)
        BY DEF TypeOK
      <4> QED
        BY <3>2, <4>1, LenProperties DEF BranchesLeft
    <3>4. graph.writes \in [Node -> SUBSET Key]
      BY DEF TypeOK, Graph
    <3>5. runs'[BranchToRun] > 0 /\ \A k \in graph.writes[BranchToRun] : branch'.context[k] # None
      <4>1. CASE branch.done = {}
        <5>1. branch.queue = <<BranchToRun>>
          BY <3>1, <4>1 DEF ResultsTold
        <5>2. n = BranchToRun
          BY <3>1, <5>1
        <5>3. runs'[n] > 0
          BY <3>1, RanOnward
        <5> QED
          BY <3>1, <3>4, <5>2, <5>3, NamesAssumption DEF Wrote
      <4>2. CASE branch.done # {}
        <5>1. Told(fork.index + 1, branch.context)
          BY <3>1, <4>2 DEF ResultsTold
        <5>2. \A k \in Key : branch'.context[k] = branch.context[k] \/ branch'.context[k] # None
          BY <3>1, NamesAssumption DEF Wrote
        <5> QED
          BY <1>1, <3>1, <3>3, <5>1, <5>2, ToldStays DEF BranchToRun
      <4> QED
        BY <4>1, <4>2
    <3> QED
      BY <1>1, <3>1, <3>2, <3>5, ForkAlone
  <2> QED
    BY <1>5, <2>1, <2>2, <2>3 DEF Step
<1> QED
  BY <1>2, <1>3, <1>4, <1>5 DEF Next, Loop

\* A merge without a conflict keeps whatever a branch or the main loop has.
LEMMA MergedKeeps ==
  ASSUME NEW results \in Seq(Context), NEW c \in Context, ~Conflict(results, c), NEW k \in Key
  PROVE  Versions(k, results, c) \subseteq {Merged(results, c)[k]}
<1> DEFINE versions == Versions(k, results, c)
           writers == {i \in DOMAIN results : results[i][k] # None}
           last == CHOOSE i \in writers : \A j \in writers : j <= i
<1>1. IsFiniteSet(versions)
  <2>1. IsFiniteSet(DOMAIN results)
    BY PlacesOfSeq
  <2>2. IsFiniteSet({results[i][k] : i \in DOMAIN results})
    <3> DEFINE T == {results[i][k] : i \in DOMAIN results}
               f == [i \in DOMAIN results |-> results[i][k]]
    <3>1. f \in Surjection(DOMAIN results, T)
      BY DEF Surjection
    <3> QED
      BY <2>1, <3>1, FS_Surjection
  <2>3. IsFiniteSet({results[i][k] : i \in DOMAIN results} \cup {c[k]})
    BY <2>2, FS_AddElement
  <2> QED
    BY <2>3, FS_Subset DEF Versions
<1>2. ~(Cardinality(versions) > 1)
  BY DEF Conflict
<1>3. \A v, w \in versions : v = w
  <2> SUFFICES ASSUME NEW v \in versions, NEW w \in versions, v # w PROVE FALSE
    OBVIOUS
  <2>1. PICK S, V : S = {v} /\ V = versions
    OBVIOUS
  <2>2. Cardinality(S) = 1 /\ IsFiniteSet(S) /\ w \notin S
    BY <2>1, FS_Singleton
  <2>3. PICK D : D = S \cup {w}
    OBVIOUS
  <2>4. Cardinality(D) = Cardinality(S) + 1
    BY <2>2, <2>3, FS_AddElement
  <2>5. D \subseteq V /\ IsFiniteSet(V) /\ ~(Cardinality(V) > 1)
    BY <1>1, <1>2, <2>1, <2>3
  <2>6. Cardinality(D) <= Cardinality(V) /\ Cardinality(V) \in Nat
    BY <2>5, FS_Subset, FS_CardinalityType
  <2> QED
    BY <2>2, <2>4, <2>5, <2>6
<1>4. CASE writers = {}
  <2>1. Merged(results, c)[k] = c[k]
    BY <1>4 DEF Merged
  <2> QED
    BY <1>4, <2>1 DEF Versions
<1>5. CASE writers # {}
  <2>1. writers \in SUBSET (1..Len(results)) /\ Len(results) \in Nat
    BY LenProperties
  <2>2. last \in writers
    BY <1>5, <2>1, LastPlace
  <2>3. Merged(results, c)[k] = results[last][k]
    BY <1>5 DEF Merged
  <2>4. Merged(results, c)[k] \in versions
    BY <2>2, <2>3 DEF Versions
  <2> QED
    BY <1>3, <2>4
<1> QED
  BY <1>4, <1>5

JoinInv == TypeInv /\ ResultsTold

LEMMA InitJoinInv == Init => JoinInv
BY InitTypeInv DEF JoinInv, Init, NoFork, ResultsTold

LEMMA NextJoinInv == JoinInv /\ [Next]_vars => JoinInv'
<1> SUFFICES ASSUME JoinInv, [Next]_vars PROVE JoinInv'
  OBVIOUS
<1>1. TypeInv' /\ TypeOK /\ TypeOK'
  BY NextTypeInv DEF JoinInv, TypeInv
<1> QED
  BY <1>1, ToldSteps DEF JoinInv

\* What a step that joins finds and leaves.
JoinWhole ==
  /\ Len(fork.results) = Len(fork.branches)
  /\ \A i \in DOMAIN fork.branches :
       /\ runs[fork.branches[i]] > 0
       /\ \A k \in graph.writes[fork.branches[i]] : fork.results[i][k] # None
  /\ \A n \in Node : runs'[n] > runs[n] /\ graph.strategy[n] = "error_on_conflict" =>
       \A k \in Key : Versions(k, fork.results, context) \subseteq {context'[k]}

LEMMA JoinKeeps ==
  ASSUME JoinInv, [Next]_vars, Joined
  PROVE  JoinWhole
<1>1. TypeOK /\ ResultsTold
  BY DEF JoinInv, TypeInv
<1>2. PICK n \in Node : RunJoin(n)
  <2>1. ~UNCHANGED fork /\ ~StartBranch /\ ~BranchDone
    BY DEF Joined, StartBranch, BranchDone
  <2>2. PICK n \in Node : Step(n)
    BY <2>1 DEF Next, Loop, Resume, UnknownNode, SkipExecuted, Rebuild, Finalize, SnapshotMissing, vars
  <2>3. RunJoin(n)
    <3>1. ~RunFork(n)
      BY DEF Joined, RunFork
    <3> QED
      BY <2>1, <2>2, <3>1 DEF Step, Requeue, BadWait, JoinThrows, NodeFails, AssertJumps, NodeYields,
         NodePauses, NodeCompletes, BranchFails, BranchRuns
  <2> QED
    BY <2>3
<1>3. JoinError(n) = "none" /\ Ran(n) /\ context' = Merged(fork.results, context)
  BY <1>2 DEF RunJoin
<1>4. Len(fork.results) = Len(fork.branches)
  BY <1>3 DEF JoinError
<1>5. ASSUME NEW i \in DOMAIN fork.branches
      PROVE  Told(i, fork.results[i])
  <2>1. i \in DOMAIN fork.results
    BY <1>1, <1>4, LenProperties DEF TypeOK
  <2> QED
    BY <1>1, <2>1 DEF ResultsTold
<1>6. ASSUME NEW m \in Node, runs'[m] > runs[m], graph.strategy[m] = "error_on_conflict", NEW k \in Key
      PROVE  Versions(k, fork.results, context) \subseteq {context'[k]}
  <2>1. m = n
    <3>1. runs[m] \in Nat /\ ~(runs[m] > runs[m])
      BY <1>1 DEF TypeOK
    <3> QED
      BY <1>1, <1>3, <1>6, <3>1 DEF Ran, TypeOK
  <2>2. ~Conflict(fork.results, context)
    BY <1>3, <1>4, <1>6, <2>1 DEF JoinError
  <2>3. fork.results \in Seq(Context) /\ context \in Context
    BY <1>1 DEF TypeOK
  <2> QED
    BY <1>3, <2>2, <2>3, MergedKeeps
<1> QED
  BY <1>4, <1>5, <1>6 DEF JoinWhole, Told

(* Whatever the program: a join that goes through has the result of every  *)
(* branch of its fork, each with what the branch's first node writes; and  *)
(* if its strategy is error_on_conflict the merge keeps every value that a *)
(* branch or the main loop has, for it had no two.                         *)
THEOREM JoinsLoseNothing == Spec => JoinLosesNothing
<1>1. JoinInv /\ [Next]_vars => [Joined => JoinWhole]_vars
  BY JoinKeeps
<1> QED
  BY <1>1, InitJoinInv, NextJoinInv, PTL DEF Spec, JoinLosesNothing, JoinWhole
=============================================================================

-------------------------- MODULE MCTopoScheduler --------------------------
(***************************************************************************)
(* Program graphs for model checking TopoScheduler.                        *)
(***************************************************************************)
EXTENDS TopoScheduler, TLC

MCNode == {"a", "b", "c", "d", "f", "j", "x", "y"}

Nothing(v) == [n \in MCNode |-> v]

\* A program of plain nodes without edges.
Plain(order) ==
  [ order |-> order, entry |-> "none", type |-> Nothing("plain"), next |-> Nothing(<<>>),
    waitFor |-> Nothing(<<>>), dynWait |-> Nothing({}), branches |-> Nothing(<<>>),
    strategy |-> Nothing("error_on_conflict"), hard |-> Nothing(TRUE),
    subgraph |-> Nothing(<<>>), onFailure |-> Nothing("none"), writes |-> Nothing({}),
    autonomous |-> TRUE ]

\* The members of S in the order of the sequence s.
Pick(s, S) == SelectSeq(s, LAMBDA x : x \in S)

Four == <<"a", "b", "c", "d">>
Pairs == {<<"a", "b">>, <<"a", "c">>, <<"a", "d">>, <<"b", "c">>, <<"b", "d">>, <<"c", "d">>}

Wired(order, next, wait) ==
  [Plain(order) EXCEPT
     !.next = [n \in MCNode |-> Pick(Four, {m \in MCNode : <<n, m>> \in next})],
     !.waitFor = [n \in MCNode |-> Pick(Four, {m \in MCNode : <<m, n>> \in wait})]]

\* Every graph of next edges on four nodes, the cyclic ones included, and every acyclic
\* one whose edges are a next, a wait_for or both.
Links == {p \in {"a", "b", "c", "d"} \X {"a", "b", "c", "d"} : p[1] # p[2]}
DagGraphs == {Wired(Four, next, {}) : next \in SUBSET Links}
             \cup {Wired(Four, next, wait) : next \in SUBSET Pairs, wait \in SUBSET Pairs}

-----------------------------------------------------------------------------
\* f forks; a and b are its branches; j joins; c and d are bystanders.
MCKey == {"k", "l"}
MCArrayKey == {"l"}
ForkOrder == <<"c", "f", "a", "b", "j", "d">>
ForkJoin ==
  [Plain(ForkOrder) EXCEPT
     !.type = [@ EXCEPT !["f"] = "fork", !["j"] = "join"],
     !.branches = [@ EXCEPT !["f"] = <<"a", "b">>],
     !.next = [@ EXCEPT !["f"] = <<"j">>, !["j"] = <<"d">>],
     !.waitFor = [@ EXCEPT !["j"] = <<"a", "b">>]]

\* The shapes a program can give the edges around one fork.
Shapes ==
  {[ForkJoin EXCEPT !.next["f"] = nf, !.next["a"] = na, !.next["b"] = nb,
                    !.next["j"] = nj, !.waitFor["j"] = wj, !.branches["f"] = bs] :
     nf \in {<<>>, <<"j">>, <<"c", "j">>}, na \in {<<>>, <<"j">>, <<"d">>},
     nb \in {<<>>, <<"j">>, <<"d">>}, nj \in {<<>>, <<"d">>},
     wj \in {<<"a", "b">>, <<"b">>, <<>>}, bs \in {<<"a", "b">>, <<"b">>, <<>>}}

\* Who writes which key, and how the join merges.
Writes ==
  {[ForkJoin EXCEPT !.strategy["j"] = s, !.next["f"] = nf,
      !.writes = [@ EXCEPT !["c"] = wc, !["a"] = wa, !["b"] = wb]] :
     s \in Strategies, nf \in {<<"j">>, <<"c", "j">>},
     wc \in SUBSET MCKey, wa \in SUBSET MCKey, wb \in SUBSET MCKey}

\* Every type of node before the fork, in a branch and after the join.  A generated
\* subgraph is x -> y, or refers to a node that does not exist.
Mixed ==
  {[ForkJoin EXCEPT
      !.type = [@ EXCEPT !["c"] = tc, !["a"] = ta, !["d"] = td],
      !.hard = Nothing(h), !.autonomous = h, !.next["x"] = <<"y">>,
      !.subgraph = [n \in MCNode |-> IF tc = td THEN <<"x">> ELSE <<"x", "y">>],
      !.onFailure = Nothing("b"), !.writes = [@ EXCEPT !["c"] = {"k"}, !["a"] = {"l"}]] :
     tc \in Types \ {"fork", "join"}, ta \in Types \ {"fork", "join"},
     td \in Types \ {"fork", "join"}, h \in BOOLEAN}

\* A second fork or join, before and after; the second fork may have no branch.
Doubled ==
  {[ForkJoin EXCEPT
      !.order = <<"x">> \o @,
      !.type = [@ EXCEPT !["c"] = tc, !["d"] = td, !["a"] = ta, !["x"] = tx],
      !.branches["c"] = bc] :
     tc \in {"fork", "join"}, ta \in {"plain", "fork", "join"}, td \in {"fork", "join"},
     tx \in {"plain", "assert"}, bc \in {<<>>, <<"x">>}}

\* Entry points, one of them unknown, and waits for nodes named by a template.  No two
\* templates wait for each other.
Entered ==
  {[ForkJoin EXCEPT !.entry = e, !.dynWait = [@ EXCEPT !["c"] = w[1], !["f"] = w[2]]] :
     e \in {"none", "f", "c", "j", "y"},
     w \in {<<{}, {}>>, <<{}, {"c"}>>, <<{"a"}, {}>>, <<{"d"}, {}>>}}

\* A program on four nodes that generates a node x on its way.
Growing ==
  {[Wired(Four, next, {}) EXCEPT !.type["a"] = "gen", !.subgraph["a"] = <<"x">>] :
     next \in SUBSET Pairs}

AllGraphs == DagGraphs \cup Growing \cup Shapes \cup Writes \cup Mixed \cup Doubled \cup Entered
=============================================================================

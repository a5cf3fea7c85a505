------------------------- MODULE SessionStoreProofs -------------------------
(***************************************************************************)
(* What holds of SessionStore for every set of command threads and all     *)
(* bounds: its types, that a record whose call returned is not lost, that  *)
(* no record's parent is nowhere, and that the index agrees with the file. *)
(***************************************************************************)
EXTENDS SessionStore, TLAPS

Calls == [Thread -> [pc : {"idle", "number", "write", "sync", "index", "fork",
                           "rename", "reindex"}, rec : Record]]

LEMMA NoRecordType == NoRecord \in Record /\ NoRecord.kind = "branch" /\ NoRecord.parent = None
  BY DEF NoRecord, Unwritten, Record, None, Main

LEMMA UnwrittenType ==
  ASSUME NEW b \in Nat
  PROVE  Unwritten(b) \in Record /\ Unwritten(b).kind = "branch" /\ Unwritten(b).parent = None
  BY DEF Unwritten, Record, None

LEMMA NodeType ==
  ASSUME TypeOK, NEW id \in Nat, NEW p \in Nat, NEW b \in Nat
  PROVE  /\ Node(id, p, b) \in Record
         /\ Node(id, p, b).kind = "node" /\ Node(id, p, b).parent = p
  BY DEF TypeOK, Node, Record

LEMMA BranchType ==
  ASSUME TypeOK, NEW id \in Nat, NEW p \in Nat
  PROVE  /\ Branch(id, p) \in Record
         /\ Branch(id, p).kind = "branch" /\ Branch(id, p).parent = p
  BY DEF TypeOK, Branch, Record

LEMMA RecordFields ==
  ASSUME NEW r \in Record
  PROVE  /\ r.kind \in {"node", "branch"} /\ r.uid \in Nat /\ r.id \in Nat
         /\ r.parent \in Nat /\ r.branch \in Nat
  BY DEF Record

\* A thread's move, and the others stay.
LEMMA GoesFacts ==
  ASSUME call \in Calls, NEW t \in Thread, NEW r \in Record,
         NEW pc \in {"idle", "number", "write", "sync", "index", "fork", "rename", "reindex"},
         Goes(t, pc, r)
  PROVE  /\ call' \in Calls
         /\ call'[t].pc = pc /\ call'[t].rec = r
         /\ \A u \in Thread \ {t} : call'[u] = call[u]
  BY DEF Calls, Goes

LEMMA CallFacts ==
  ASSUME TypeOK, NEW t \in Thread
  PROVE  call \in Calls /\ call[t].rec \in Record
  BY DEF TypeOK, Calls

\* A landing record and those it hides are what was there and the record.
LEMMA LandFacts ==
  ASSUME NEW S \in SUBSET Record, NEW r \in Record
  PROVE  /\ Land(S, r) \cup Shadowed(S, r) = S \cup {r}
         /\ Land(S, r) \in SUBSET Record /\ Shadowed(S, r) \in SUBSET Record
         /\ NodesOf(S) \subseteq NodesOf(Land(S, r))
         /\ NodesOf(Land(S, r)) \subseteq NodesOf(S) \cup {r}
  BY DEF Land, Shadowed, Shadowing, NodesOf, SameKey, Record

LEMMA LoadsType ==
  ASSUME TypeOK
  PROVE  Loads \in SUBSET Record /\ Hidden \in SUBSET Record
<1>1. tail.rec \in Record /\ file \in SUBSET Record /\ lost \in SUBSET Record
  BY DEF TypeOK
<1> QED
  BY <1>1, LandFacts DEF Loads, Hidden

LEMMA LoadTypes ==
  ASSUME TypeOK, LoadIndex
  PROVE  nodes' \subseteq Record /\ branches' \subseteq Record /\ children' \subseteq Nat \X Nat
<1>1. Loads \in SUBSET Record /\ nodes \in SUBSET Record /\ branches \in SUBSET Record
      /\ children \subseteq Nat \X Nat
  BY LoadsType DEF TypeOK
<1>2. nodes' \subseteq Record
  BY <1>1 DEF LoadIndex, NodesOf
<1>3. children' \subseteq Nat \X Nat
  BY <1>1, RecordFields DEF LoadIndex, NodesOf, Pairs
<1>4. ASSUME NEW S \in SUBSET Record, NEW K
      PROVE  Placeholders(S, K) \in SUBSET Record
  BY UnwrittenType, RecordFields DEF Placeholders
<1>5. NodesOf(Loads) \in SUBSET Record /\ BranchesOf(Loads) \in SUBSET Record
  BY <1>1 DEF NodesOf, BranchesOf
<1>6. branches' \subseteq Record
  BY <1>1, <1>4, <1>5 DEF LoadIndex
<1> QED
  BY <1>2, <1>3, <1>6

\* A line that was written, well or not: the record stays or is lost.
LEMMA WriteLineTypes ==
  ASSUME TypeOK, NEW r \in Record, WriteLine(r)
  PROVE  /\ tail' \in [kind : {"clean", "torn", "glued", "whole", "open", "short"}, rec : Record]
         /\ lost' \subseteq Record
<1>1. tail.rec \in Record /\ lost \subseteq Record
  BY DEF TypeOK
<1>2. CASE tail.kind = "clean"
  BY <1>1, <1>2 DEF WriteLine, Line
<1>3. CASE tail.kind # "clean"
  BY <1>1, <1>3 DEF WriteLine, Line, Unended
<1> QED
  BY <1>2, <1>3

LEMMA FailsTypes ==
  ASSUME TypeOK, NEW t \in Thread, NEW r \in Record, FailsToWrite(t, r)
  PROVE  /\ tail' \in [kind : {"clean", "torn", "glued", "whole", "open", "short"}, rec : Record]
         /\ lost' \subseteq Record
         /\ failures' \in Nat
         /\ call' \in Calls /\ writer' \subseteq Thread
<1>1. tail.rec \in Record /\ lost \subseteq Record /\ failures \in Nat
  BY DEF TypeOK
<1>2. /\ tail' \in [kind : {"clean", "torn", "glued", "whole", "open", "short"}, rec : Record]
      /\ lost' \subseteq Record
  BY <1>1, NoRecordType DEF FailsToWrite, Torn, Line, Unended, TypeOK
<1>3. call' \in Calls /\ writer' \subseteq Thread
  BY CallFacts, GoesFacts, NoRecordType DEF FailsToWrite, Thrown
<1>4. failures' \in Nat
  BY <1>1 DEF FailsToWrite
<1> QED
  BY <1>2, <1>3, <1>4

LEMMA ParentTypes ==
  ASSUME TypeOK, NEW b \in Nat
  PROVE  Parents(b) \subseteq Nat
<1>1. Leaves(b) \subseteq Nat
  BY RecordFields DEF Leaves, TypeOK
<1> QED
  BY <1>1, RecordFields DEF Parents, TypeOK, None

LEMMA AppendTypes ==
  ASSUME TypeOK,
         \/ AppendTurn
         \/ \E t \in Thread : Append(t) \/ ForkReturns(t) \/ AppendToBranch(t) \/ Rename(t)
  PROVE  TypeOK'
<1> USE DEF Calls
<1>1. CASE AppendTurn
  <2>1. Node(None, chat.last, chat.branch) \in Record
    BY NodeType DEF TypeOK, None
  <2>2. call' \in Calls
    BY <1>1, <2>1, GoesFacts, CallFacts DEF AppendTurn, Thread
  <2> QED
    BY <1>1, <2>2 DEF AppendTurn, TypeOK, indexVars, diskVars, boundVars, histVars
<1>2. ASSUME NEW t \in Thread, AppendToBranch(t) PROVE TypeOK'
  <2>1. PICK p \in Parents(current) : Goes(t, "number", Node(None, p, current))
    BY <1>2 DEF AppendToBranch
  <2>2. Node(None, p, current) \in Record
    BY ParentTypes, NodeType DEF TypeOK, None
  <2>3. call' \in Calls
    BY <2>1, <2>2, GoesFacts, CallFacts
  <2> QED
    BY <1>2, <2>3 DEF AppendToBranch, TypeOK, indexVars, diskVars, boundVars, histVars
<1>3. ASSUME NEW t \in Thread, Number(t) PROVE TypeOK'
  <2> DEFINE r == Node(nodeCounter + 1, call[t].rec.parent, call[t].rec.branch)
  <2>1. r \in Record
    <3>1. nodeCounter + 1 \in Nat
      BY DEF TypeOK
    <3>2. call[t].rec.parent \in Nat /\ call[t].rec.branch \in Nat
      BY CallFacts, RecordFields
    <3> QED
      BY <3>1, <3>2, NodeType
  <2>2. Goes(t, "write", r)
    BY <1>3 DEF Number
  <2> HIDE DEF r
  <2>3. call' \in Calls
    BY <2>1, <2>2, GoesFacts, CallFacts
  <2> QED
    BY <1>3, <2>3 DEF Number, TypeOK, indexVars, diskVars, histVars
<1>4. ASSUME NEW t \in Thread, Write(t) PROVE TypeOK'
  <2>1. call' \in Calls
    BY <1>4, GoesFacts, CallFacts DEF Write
  <2> QED
    BY <1>4, <2>1, CallFacts, WriteLineTypes DEF Write, TypeOK, indexVars, boundVars
<1>5. ASSUME NEW t \in Thread, WriteFails(t) PROVE TypeOK'
  BY <1>5, CallFacts, FailsTypes DEF WriteFails, TypeOK, indexVars
<1>6. ASSUME NEW t \in Thread, Sync(t) PROVE TypeOK'
  <2>1. call' \in Calls
    BY <1>6, GoesFacts, CallFacts DEF Sync
  <2>2. file' \subseteq Record /\ lost' \subseteq Record
    <3>1. tail.rec \in Record /\ file \in SUBSET Record /\ lost \in SUBSET Record
      BY DEF TypeOK
    <3>2. Land(file, tail.rec) \in SUBSET Record /\ Shadowed(file, tail.rec) \in SUBSET Record
      BY <3>1, LandFacts
    <3> QED
      BY <1>6, <3>1, <3>2 DEF Sync
  <2>3. tail' \in [kind : {"clean", "torn", "glued", "whole", "open", "short"}, rec : Record]
    BY <1>6, NoRecordType DEF Sync, Clean
  <2> QED
    BY <1>6, <2>1, <2>2, <2>3 DEF Sync, TypeOK, indexVars, boundVars
<1>7. ASSUME NEW t \in Thread, Index(t) PROVE TypeOK'
  <2>1. call' \in Calls
    BY <1>7, GoesFacts, CallFacts, NoRecordType DEF Index
  <2>2. PICK n \in Record : n = call[t].rec
    BY CallFacts
  <2>3. n.id \in Nat /\ n.parent \in Nat
    BY <2>2, RecordFields
  <2>4. /\ nodes' = (nodes \ Shadowing(nodes, n)) \cup {n}
        /\ children' = PutPair(n)
        /\ chat' = IF t = Chat THEN [chat EXCEPT !.last = n.id] ELSE chat
        /\ acked' = acked \cup {n}
    BY <1>7, <2>2 DEF Index
  <2>5. children' \subseteq Nat \X Nat
    BY <2>3, <2>4 DEF PutPair, TypeOK
  <2>6. chat' \in [last : Nat, branch : Nat]
    BY <2>3, <2>4 DEF TypeOK
  <2> QED
    BY <1>7, <2>1, <2>4, <2>5, <2>6 DEF Index, TypeOK, diskVars, boundVars
<1>8. ASSUME NEW t \in Thread, ForkReturns(t) PROVE TypeOK'
  <2>1. call' \in Calls
    BY <1>8, GoesFacts, CallFacts, NoRecordType DEF ForkReturns
  <2> QED
    BY <1>8, <2>1, CallFacts DEF ForkReturns, TypeOK, indexVars, diskVars, boundVars
<1>9. ASSUME NEW t \in Thread, Rename(t) PROVE TypeOK'
  <2> DEFINE n == Node(nodeCounter + 1, None, current)
  <2>1. n \in Record
    <3>1. nodeCounter + 1 \in Nat /\ None \in Nat /\ current \in Nat
      BY DEF TypeOK, None
    <3> QED
      BY <3>1, NodeType
  <2>2. \/ WriteLine(n) /\ Goes(t, "sync", n) /\ writer' = {t} /\ UNCHANGED failures
        \/ FailsToWrite(t, n)
    BY <1>9 DEF Rename
  <2> HIDE DEF n
  <2>3. /\ call' \in Calls /\ writer' \subseteq Thread /\ failures' \in Nat
        /\ tail' \in [kind : {"clean", "torn", "glued", "whole", "open", "short"}, rec : Record]
        /\ lost' \subseteq Record
    <3>1. CASE FailsToWrite(t, n)
      BY <2>1, <3>1, FailsTypes
    <3>2. CASE WriteLine(n) /\ Goes(t, "sync", n) /\ writer' = {t} /\ UNCHANGED failures
      <4>1. failures' \in Nat
        BY <3>2 DEF TypeOK
      <4> QED
        BY <2>1, <3>2, <4>1, WriteLineTypes, GoesFacts, CallFacts
    <3> QED
      BY <2>2, <3>1, <3>2
  <2> QED
    BY <1>9, <2>3 DEF Rename, TypeOK, indexVars
<1> QED
  BY <1>1, <1>2, <1>3, <1>4, <1>5, <1>6, <1>7, <1>8, <1>9 DEF Append

LEMMA ForkTypes ==
  ASSUME TypeOK, NEW t \in Thread, ForkCheck(t) \/ ForkIndex(t) \/ SwitchBranch(t)
  PROVE  TypeOK'
<1> USE DEF Calls
<1>1. CASE ForkCheck(t)
  <2>1. /\ nodes' \subseteq Record /\ branches' \subseteq Record /\ children' \subseteq Nat \X Nat
        /\ loaded' \in BOOLEAN
    BY <1>1, LoadTypes DEF ForkCheck, TypeOK
  <2>2. ASSUME NEW n \in nodes', Goes(t, "fork", Branch(None, n.id))
        PROVE  call' \in Calls
    <3>1. n.id \in Nat
      BY <2>1, RecordFields
    <3>2. Branch(None, n.id) \in Record
      BY <3>1, BranchType DEF None
    <3> QED
      BY <2>2, <3>2, GoesFacts, CallFacts
  <2>3. call' \in Calls
    BY <1>1, <2>2, CallFacts DEF ForkCheck
  <2> QED
    BY <1>1, <2>1, <2>3 DEF ForkCheck, TypeOK, diskVars, boundVars
<1>2. CASE ForkIndex(t)
  <2>1. PICK b \in Record :
          /\ b = Branch(branchCounter + 1, call[t].rec.parent)
          /\ branches' = (branches \ Shadowing(branches, b)) \cup {b}
          /\ current' = b.id
          /\ Goes(t, "write", b)
    <3>1. branchCounter + 1 \in Nat
      BY DEF TypeOK
    <3>2. call[t].rec.parent \in Nat
      BY CallFacts, RecordFields
    <3> QED
      BY <1>2, <3>1, <3>2, BranchType DEF ForkIndex
  <2>2. call' \in Calls
    BY <2>1, GoesFacts, CallFacts
  <2>3. branches' \subseteq Record /\ current' \in Nat
    BY <2>1, RecordFields DEF TypeOK
  <2> QED
    BY <1>2, <2>2, <2>3 DEF ForkIndex, TypeOK, diskVars, histVars
<1>3. CASE SwitchBranch(t)
  BY <1>3, RecordFields DEF SwitchBranch, TypeOK, diskVars, boundVars, histVars
<1> QED
  BY <1>1, <1>2, <1>3

LEMMA CompactTypes ==
  ASSUME TypeOK, NEW t \in Thread, Compact(t)
  PROVE  TypeOK'
<1> USE DEF Calls
<1>1. CASE CompactCollect(t)
  <2>1. call' \in Calls
    BY <1>1, GoesFacts, CallFacts, NoRecordType DEF CompactCollect
  <2>2. snap' \in [branch : Nat, nodes : SUBSET Record, branches : SUBSET Record, loaded : BOOLEAN]
    BY <1>1 DEF CompactCollect, TypeOK
  <2> QED
    BY <1>1, <2>1, <2>2 DEF CompactCollect, TypeOK, indexVars, diskVars, boundVars, histVars
<1>2. CASE CompactRename(t)
  <2>1. call' \in Calls
    BY <1>2, GoesFacts, CallFacts, NoRecordType DEF CompactRename
  <2>2. /\ file' \subseteq Record /\ lost' \subseteq Record /\ dropped' \subseteq Record
        /\ loaded' \in BOOLEAN
    BY <1>2, LoadsType DEF CompactRename, TypeOK
  <2>3. tail' \in [kind : {"clean", "torn", "glued", "whole", "open", "short"}, rec : Record]
    BY <1>2, NoRecordType DEF CompactRename, Clean
  <2> QED
    BY <1>2, <2>1, <2>2, <2>3 DEF CompactRename, TypeOK, indexVars, boundVars
<1>3. CASE CompactFails(t)
  <2>1. call' \in Calls /\ writer' = {}
    BY <1>3, GoesFacts, CallFacts, NoRecordType DEF CompactFails, Thrown
  <2> QED
    BY <1>3, <2>1 DEF CompactFails, TypeOK, indexVars, diskVars, histVars
<1>4. CASE CompactReindex(t)
  <2>1. call' \in Calls
    BY <1>4, GoesFacts, CallFacts, NoRecordType DEF CompactReindex
  <2>2. snap.nodes \subseteq Record
    BY DEF TypeOK
  <2>3. children' \subseteq Nat \X Nat
    BY <1>4, <2>2, RecordFields DEF CompactReindex, Remaining, Pairs
  <2> QED
    BY <1>4, <2>1, <2>2, <2>3
       DEF CompactReindex, Remaining, TypeOK, diskVars, boundVars, histVars
<1> QED
  BY <1>1, <1>2, <1>3, <1>4 DEF Compact

LEMMA ProcessTypes ==
  ASSUME TypeOK, Resume \/ Crash
  PROVE  TypeOK'
<1> USE DEF Calls
<1>1. CASE Resume
  <2>1. nodes' \subseteq Record /\ branches' \subseteq Record /\ children' \subseteq Nat \X Nat
    BY <1>1, LoadTypes DEF Resume
  <2>2. chat' \in [last : Nat, branch : Nat]
    <3>1. \A n \in NodesOf(acked) : n.id \in Nat
      BY RecordFields DEF TypeOK, NodesOf
    <3>2. \A n \in nodes' : n.branch \in Nat
      BY <2>1, RecordFields
    <3> QED
      BY <1>1, <3>1, <3>2 DEF Resume, Main
  <2> QED
    BY <1>1, <2>1, <2>2 DEF Resume, TypeOK, diskVars, boundVars
<1>2. CASE Crash
  <2>1. tail.rec \in Record /\ file \in SUBSET Record /\ lost \in SUBSET Record
    BY DEF TypeOK
  <2>2. Land(file, tail.rec) \in SUBSET Record /\ Shadowed(file, tail.rec) \in SUBSET Record
    BY <2>1, LandFacts
  <2>3. file' \subseteq Record /\ lost' \subseteq Record
    BY <1>2, <2>1, <2>2 DEF Crash, TailSurvives, diskVars
  <2>4. tail' \in [kind : {"clean", "torn", "glued", "whole", "open", "short"}, rec : Record]
    BY <1>2, <2>1, NoRecordType DEF Crash, TailSurvives, diskVars, Clean, Torn, Line, TypeOK
  <2>5. call' \in Calls
    BY <1>2, NoRecordType DEF Crash
  <2>6. branches' \subseteq Record /\ current' \in Nat /\ chat' \in [last : Nat, branch : Nat]
    BY <1>2, UnwrittenType DEF Crash, Main, None
  <2>7. snap' \in [branch : Nat, nodes : SUBSET Record, branches : SUBSET Record, loaded : BOOLEAN]
    BY <1>2 DEF Crash, Main
  <2>8. crashes' \in Nat /\ nodeCounter' \in Nat /\ branchCounter' \in Nat
    BY <1>2 DEF Crash, TypeOK
  <2>9. nodes' = {} /\ children' = {} /\ writer' = {} /\ loaded' = FALSE
        /\ UNCHANGED <<made, failures, acked, dropped>>
    BY <1>2 DEF Crash
  <2> QED
    BY <2>3, <2>4, <2>5, <2>6, <2>7, <2>8, <2>9 DEF TypeOK
<1> QED
  BY <1>1, <1>2

LEMMA TypeStep ==
  ASSUME TypeOK, [Next]_vars
  PROVE  TypeOK'
<1>1. CASE UNCHANGED vars
  BY <1>1 DEF vars, memoryVars, indexVars, diskVars, boundVars, histVars, TypeOK
<1>2. CASE Next
  BY <1>2, AppendTypes, ForkTypes, CompactTypes, ProcessTypes DEF Next, Fork, Thread
<1> QED
  BY <1>1, <1>2

LEMMA TypeInit == ASSUME Init PROVE TypeOK
<1>1. call \in Calls
  BY NoRecordType DEF Init, Calls
<1>2. branches \subseteq Record /\ tail \in [kind : {"clean", "torn", "glued", "whole", "open", "short"}, rec : Record]
  BY NoRecordType, UnwrittenType DEF Init, Clean, Main
<1> QED
  BY <1>1, <1>2 DEF Init, TypeOK, Calls, Main, None

(* Type correctness, for every set of threads and every bound.             *)
THEOREM StoreTypes == Spec => []TypeOK
BY TypeInit, TypeStep, PTL DEF Spec

-----------------------------------------------------------------------------
(* The inductive invariant.  Stable is what no crash takes away; Known is  *)
(* that and a line that was written and not synced, by a call that goes on *)
(* or by one that threw (Refused).                                         *)

TailRec == IF TailParses THEN {tail.rec} ELSE {}
Open == IF tail.kind = "open" THEN {tail.rec} ELSE {}
Disk == file \cup lost \cup TailRec
Refused == IF tail.kind = "short" THEN {tail.rec} ELSE {}
Stable == file \cup lost \cup dropped \cup Open
Known == Disk \cup dropped

\* The ids a parent may have, given a set of records.
Ids(S) == {p.id : p \in NodesOf(S)} \cup {None}

Holding == {"sync", "index", "rename", "reindex"}
LockInv == \A t \in Thread : call[t].pc \in Holding => writer = {t}

KindInv ==
  /\ nodes = NodesOf(nodes) /\ snap.nodes = NodesOf(snap.nodes)
  /\ branches = BranchesOf(branches) /\ snap.branches = BranchesOf(snap.branches)

LineInv ==
  /\ tail.kind = "torn" => tail.rec = NoRecord
  /\ tail.kind = "glued" /\ tail.rec # NoRecord => tail.rec \in lost
  /\ tail.kind \in {"whole", "glued"} => \E t \in Thread : call[t].pc = "sync"
  /\ \A t \in Thread : call[t].pc = "sync" =>
       \/ tail.kind = "whole" /\ tail.rec = call[t].rec
       \/ tail.kind = "glued" /\ call[t].rec \in lost
  /\ \A t \in Thread : call[t].pc = "index" => call[t].rec \in file \cup lost

WrittenInv == acked \subseteq Stable

UniqueIds(S) == \A r, s \in NodesOf(S) : r.id = s.id => r = s
KeyInv == UniqueIds(nodes) /\ UniqueIds(file)

\* In the file and not in the index: replaced in it, on its way into it, or the line of
\* a call that threw.
OnItsWay(r) == \E t \in Thread : call[t].pc \in {"sync", "index"} /\ call[t].rec = r
Replaced(r) == \E n \in nodes : n.id = r.id
Short(r) == tail = Line("short", r)
MemInv ==
  /\ nodes \subseteq Known
  /\ (\A t \in Thread : call[t].pc # "reindex") => nodes \subseteq Disk
  /\ loaded => \A r \in NodesOf(Loads) \ nodes : Replaced(r) \/ OnItsWay(r) \/ Short(r)
  /\ loaded => \A r \in NodesOf(file) \ nodes : Replaced(r) \/ OnItsWay(r)

SnapInv ==
  \A t \in Thread :
    /\ call[t].pc \in {"rename", "reindex"} =>
         snap.nodes \subseteq nodes /\ \A n \in snap.nodes : n.branch = snap.branch
    /\ call[t].pc = "rename" /\ snap.loaded =>
         loaded /\ \A n \in nodes : n.branch = snap.branch => n \in snap.nodes \/ Short(n)
    /\ call[t].pc = "reindex" => tail.kind = "clean" /\ NodesOf(file) = snap.nodes

ParentInv ==
  /\ \A r \in Known : r.parent \in Ids(Stable)
  /\ \A b \in branches : b.parent \in Ids(Known)
  /\ chat.last \in Ids(Known)
  /\ \A t \in Thread :
       /\ call[t].pc \in {"number", "fork", "write"} => call[t].rec.parent \in Ids(Known)
       /\ call[t].pc = "rename" => \A b \in snap.branches : b.parent \in Ids(Known)

StoreInv == /\ TypeOK /\ LockInv /\ KindInv /\ LineInv /\ WrittenInv /\ KeyInv
            /\ MemInv /\ SnapInv /\ ParentInv

LEMMA DiskFacts ==
  ASSUME TypeOK
  PROVE  /\ Loads \cup Hidden = Disk
         /\ NodesOf(file) \subseteq NodesOf(Loads)
         /\ NodesOf(Loads) \subseteq NodesOf(file) \cup NodesOf(TailRec)
<1>1. tail.rec \in Record /\ file \in SUBSET Record
  BY DEF TypeOK
<1>2. CASE TailParses
  <2>1. /\ Land(file, tail.rec) \cup Shadowed(file, tail.rec) = file \cup {tail.rec}
        /\ NodesOf(file) \subseteq NodesOf(Land(file, tail.rec))
        /\ NodesOf(Land(file, tail.rec)) \subseteq NodesOf(file) \cup {tail.rec}
    BY <1>1, LandFacts
  <2> QED
    BY <1>2, <2>1 DEF Loads, Hidden, Disk, TailRec, NodesOf
<1>3. CASE ~TailParses
  BY <1>3 DEF Loads, Hidden, Disk, TailRec, NodesOf
<1> QED
  BY <1>2, <1>3

LEMMA IdsGrow ==
  ASSUME NEW S, NEW T, S \subseteq T
  PROVE  Ids(S) \subseteq Ids(T)
  BY DEF Ids, NodesOf

LEMMA NoneIsAnId == ASSUME NEW S PROVE None \in Ids(S)
  BY DEF Ids

LEMMA StableIsKnown == Stable \subseteq Known
  BY DEF Stable, Known, Disk, Open, TailRec, TailParses

\* While no line is being written, nothing is known that could still go away but the line
\* of a call that threw.
LEMMA AllStable ==
  ASSUME tail.kind # "whole"
  PROVE  Known = Stable \cup Refused
  BY DEF Stable, Known, Disk, Open, Refused, TailRec, TailParses

\* A step that leaves the disk alone, and the threads that hold the mutex.
LEMMA QuietStep ==
  ASSUME StoreInv, TypeOK',
         UNCHANGED <<file, tail, lost, dropped, acked, writer, snap>>,
         \A t \in Thread : call[t].pc \in Holding \/ call'[t].pc \in Holding => call'[t] = call[t],
         nodes' = NodesOf(nodes)', UniqueIds(nodes)',
         nodes \subseteq nodes', nodes' \subseteq nodes \cup Loads,
         loaded => loaded',
         loaded' => \A r \in NodesOf(Loads) \ nodes' :
                      (\E n \in nodes' : n.id = r.id) \/ OnItsWay(r) \/ Short(r),
         loaded' => \A r \in NodesOf(file) \ nodes' : (\E n \in nodes' : n.id = r.id) \/ OnItsWay(r),
         \A t \in Thread :
           call[t].pc = "rename" /\ snap.loaded => \A n \in nodes' \ nodes : Short(n),
         branches' = BranchesOf(branches)',
         \A b \in branches' : b.parent \in Ids(Known),
         chat'.last \in Ids(Known),
         \A t \in Thread :
           call'[t].pc \in {"number", "fork", "write"} => call'[t].rec.parent \in Ids(Known)
  PROVE  StoreInv'
<1>1. /\ Known' = Known /\ Stable' = Stable /\ Disk' = Disk /\ Loads' = Loads
  BY DEF Known, Disk, TailRec, Stable, Open, TailParses, Loads
<1>2. \A t \in Thread : call'[t].pc \in Holding \/ call[t].pc \in Holding =>
         call'[t].pc = call[t].pc /\ call'[t].rec = call[t].rec
  OBVIOUS
<1>3. LockInv'
  BY <1>2 DEF StoreInv, LockInv
<1>4. KindInv'
  BY DEF StoreInv, KindInv, NodesOf, BranchesOf
<1>5. LineInv'
  BY <1>2 DEF StoreInv, LineInv, Holding
<1>6. WrittenInv'
  BY <1>1 DEF StoreInv, WrittenInv
<1>7. KeyInv'
  BY DEF StoreInv, KeyInv, UniqueIds, NodesOf
<1>8. MemInv'
  <2>1. Loads \subseteq Disk
    BY DiskFacts DEF StoreInv
  <2>2. nodes' \subseteq Known
    BY <2>1 DEF StoreInv, MemInv, Known
  <2>3. (\A t \in Thread : call'[t].pc # "reindex") => nodes' \subseteq Disk
    BY <1>2, <2>1 DEF StoreInv, MemInv, Holding
  <2>4. \A r : OnItsWay(r) => \E t \in Thread : call'[t].pc \in {"sync", "index"} /\ call'[t].rec = r
    BY <1>2 DEF OnItsWay, Holding
  <2> QED
    BY <1>1, <2>2, <2>3, <2>4 DEF MemInv, Replaced, OnItsWay, Short, NodesOf
<1>9. SnapInv'
  BY <1>2 DEF StoreInv, SnapInv, Holding, Short, NodesOf
<1>10. ParentInv'
  <2>1. Ids(Known)' = Ids(Known) /\ Ids(Stable)' = Ids(Stable)
    BY <1>1 DEF Ids, NodesOf
  <2>2. \A t \in Thread : call'[t].pc = "rename" => call[t].pc = "rename"
    BY <1>2 DEF Holding
  <2> QED
    BY <1>1, <2>1, <2>2 DEF StoreInv, ParentInv
<1> QED
  BY <1>3, <1>4, <1>5, <1>6, <1>7, <1>8, <1>9, <1>10 DEF StoreInv

\* The quiet steps that leave the nodes alone too.
LEMMA SameNodes ==
  ASSUME StoreInv, TypeOK',
         UNCHANGED <<file, tail, lost, dropped, acked, writer, snap, nodes, loaded>>,
         \A t \in Thread : call[t].pc \in Holding \/ call'[t].pc \in Holding => call'[t] = call[t],
         branches' = BranchesOf(branches)',
         \A b \in branches' : b.parent \in Ids(Known),
         chat'.last \in Ids(Known),
         \A t \in Thread :
           call'[t].pc \in {"number", "fork", "write"} => call'[t].rec.parent \in Ids(Known)
  PROVE  StoreInv'
<1>1. nodes' = NodesOf(nodes)' /\ UniqueIds(nodes)' /\ nodes \subseteq nodes'
      /\ nodes' \subseteq nodes \cup Loads /\ (loaded => loaded')
  BY DEF StoreInv, KindInv, KeyInv, UniqueIds, NodesOf
<1>2. /\ loaded' => \A r \in NodesOf(Loads) \ nodes' :
                      (\E n \in nodes' : n.id = r.id) \/ OnItsWay(r) \/ Short(r)
      /\ loaded' => \A r \in NodesOf(file) \ nodes' : (\E n \in nodes' : n.id = r.id) \/ OnItsWay(r)
  BY DEF StoreInv, MemInv, Replaced
<1>3. \A t \in Thread :
        call[t].pc = "rename" /\ snap.loaded => \A n \in nodes' \ nodes : Short(n)
  OBVIOUS
<1> QED
  BY <1>1, <1>2, <1>3, QuietStep

\* One thread's move between the places where it does not hold the mutex.
LEMMA FreeMove ==
  ASSUME TypeOK, NEW t \in Thread, NEW r \in Record,
         NEW pc \in {"idle", "number", "write", "fork"},
         call[t].pc \notin Holding, Goes(t, pc, r), r.parent \in Ids(Known),
         \A u \in Thread :
           call[u].pc \in {"number", "fork", "write"} => call[u].rec.parent \in Ids(Known)
  PROVE  /\ \A u \in Thread : call[u].pc \in Holding \/ call'[u].pc \in Holding => call'[u] = call[u]
         /\ \A u \in Thread :
              call'[u].pc \in {"number", "fork", "write"} => call'[u].rec.parent \in Ids(Known)
<1>1. call'[t].pc = pc /\ call'[t].rec = r /\ \A u \in Thread \ {t} : call'[u] = call[u]
  BY CallFacts, GoesFacts
<1> QED
  BY <1>1 DEF Holding

LEMMA KnownParents ==
  ASSUME StoreInv
  PROVE  /\ \A n \in nodes : n.id \in Ids(Known)
         /\ \A b \in Nat : Parents(b) \subseteq Ids(Known)
<1>1. \A n \in nodes : n.id \in Ids(Known)
  BY DEF StoreInv, MemInv, KindInv, NodesOf, Ids
<1>2. ASSUME NEW b \in Nat PROVE Parents(b) \subseteq Ids(Known)
  <2>1. Leaves(b) \subseteq Ids(Known)
    BY <1>1 DEF Leaves
  <2>2. \A m \in branches : m.parent \in Ids(Known)
    BY DEF StoreInv, ParentInv
  <2>3. {None} \subseteq Ids(Known)
    BY NoneIsAnId
  <2> QED
    BY <2>1, <2>2, <2>3 DEF Parents
<1> QED
  BY <1>1, <1>2

LEMMA AppendStarts ==
  ASSUME StoreInv, AppendTurn \/ \E t \in Thread : AppendToBranch(t) \/ Number(t)
  PROVE  StoreInv'
<1>1. TypeOK /\ TypeOK'
  BY AppendTypes DEF StoreInv, Append
<1>2. /\ branches' = BranchesOf(branches)'
      /\ \A b \in branches' : b.parent \in Ids(Known)
      /\ chat'.last \in Ids(Known)
      /\ UNCHANGED <<file, tail, lost, dropped, acked, writer, snap, nodes, loaded>>
  BY DEF StoreInv, KindInv, ParentInv, AppendTurn, AppendToBranch, Number, BranchesOf,
         indexVars, diskVars, boundVars, histVars
<1>3. \A u \in Thread :
        call[u].pc \in {"number", "fork", "write"} => call[u].rec.parent \in Ids(Known)
  BY DEF StoreInv, ParentInv
<1>4. PICK t \in Thread, pc \in {"idle", "number", "write", "fork"}, r \in Record :
        call[t].pc \notin Holding /\ Goes(t, pc, r) /\ r.parent \in Ids(Known)
  <2>1. CASE AppendTurn
    <3> DEFINE r == Node(None, chat.last, chat.branch)
    <3>1. r \in Record /\ r.parent = chat.last
      <4>1. chat.last \in Nat /\ chat.branch \in Nat /\ None \in Nat
        BY <1>1 DEF TypeOK, None
      <4> QED
        BY <1>1, <4>1, NodeType
    <3>2. Chat \in Thread /\ Goes(Chat, "number", r) /\ call[Chat].pc \notin Holding
      BY <2>1 DEF AppendTurn, At, Thread, Holding
    <3>3. chat.last \in Ids(Known)
      BY DEF StoreInv, ParentInv
    <3> QED
      BY <3>1, <3>2, <3>3
  <2>2. ASSUME NEW t \in Thread, AppendToBranch(t)
        PROVE  \E pc \in {"idle", "number", "write", "fork"}, r \in Record :
                 call[t].pc \notin Holding /\ Goes(t, pc, r) /\ r.parent \in Ids(Known)
    <3>1. PICK p \in Parents(current) : Goes(t, "number", Node(None, p, current))
      BY <2>2 DEF AppendToBranch
    <3>2. current \in Nat /\ p \in Nat /\ p \in Ids(Known)
      BY <1>1, ParentTypes, KnownParents DEF TypeOK
    <3>3. Node(None, p, current) \in Record /\ Node(None, p, current).parent = p
      BY <1>1, <3>2, NodeType DEF None
    <3> QED
      BY <2>2, <3>1, <3>2, <3>3 DEF AppendToBranch, At, Holding
  <2>3. ASSUME NEW t \in Thread, Number(t)
        PROVE  \E pc \in {"idle", "number", "write", "fork"}, r \in Record :
                 call[t].pc \notin Holding /\ Goes(t, pc, r) /\ r.parent \in Ids(Known)
    <3> DEFINE r == Node(nodeCounter + 1, call[t].rec.parent, call[t].rec.branch)
    <3>1. nodeCounter + 1 \in Nat /\ call[t].rec.parent \in Nat /\ call[t].rec.branch \in Nat
      BY <1>1, CallFacts, RecordFields DEF TypeOK
    <3>2. r \in Record /\ r.parent = call[t].rec.parent
      BY <1>1, <3>1, NodeType
    <3>3. call[t].pc = "number" /\ Goes(t, "write", r)
      BY <2>3 DEF Number, At
    <3> QED
      BY <1>3, <3>2, <3>3 DEF Holding
  <2> QED
    BY <2>1, <2>2, <2>3
<1> QED
  BY <1>1, <1>2, <1>3, <1>4, FreeMove, SameNodes

LEMMA BranchSteps ==
  ASSUME StoreInv, \E t \in Thread : ForkIndex(t) \/ SwitchBranch(t)
  PROVE  StoreInv'
<1>1. TypeOK /\ TypeOK'
  BY ForkTypes DEF StoreInv
<1>2. /\ UNCHANGED <<file, tail, lost, dropped, acked, writer, snap, nodes, loaded>>
      /\ chat'.last \in Ids(Known)
  BY DEF StoreInv, ParentInv, ForkIndex, SwitchBranch, indexVars, diskVars, boundVars, histVars
<1>3. \A u \in Thread :
        call[u].pc \in {"number", "fork", "write"} => call[u].rec.parent \in Ids(Known)
  BY DEF StoreInv, ParentInv
<1>4. branches = BranchesOf(branches) /\ \A b \in branches : b.parent \in Ids(Known)
  BY DEF StoreInv, KindInv, ParentInv
<1>5. ASSUME NEW t \in Thread, ForkIndex(t) PROVE StoreInv'
  <2>1. PICK b \in Record :
          /\ b.kind = "branch" /\ b.parent = call[t].rec.parent
          /\ branches' = (branches \ Shadowing(branches, b)) \cup {b}
          /\ Goes(t, "write", b)
    <3>1. branchCounter + 1 \in Nat /\ call[t].rec.parent \in Nat
      BY <1>1, CallFacts, RecordFields DEF TypeOK
    <3> QED
      BY <1>1, <1>5, <3>1, BranchType DEF ForkIndex
  <2>2. call[t].pc = "fork"
    BY <1>5 DEF ForkIndex, At
  <2>3. b.parent \in Ids(Known)
    BY <1>3, <2>1, <2>2
  <2>4. branches' = BranchesOf(branches)' /\ \A m \in branches' : m.parent \in Ids(Known)
    BY <1>4, <2>1, <2>3 DEF BranchesOf
  <2>5. call[t].pc \notin Holding
    BY <2>2 DEF Holding
  <2> QED
    BY <1>1, <1>2, <1>3, <2>1, <2>3, <2>4, <2>5, FreeMove, SameNodes
<1>6. ASSUME NEW t \in Thread, SwitchBranch(t) PROVE StoreInv'
  <2>1. UNCHANGED <<call, branches>>
    BY <1>6 DEF SwitchBranch
  <2> QED
    BY <1>1, <1>2, <1>3, <1>4, <2>1, SameNodes DEF BranchesOf
<1> QED
  BY <1>5, <1>6

\* A landing record leaves the ids of the nodes unique.
LEMMA LandKeepsIds ==
  ASSUME NEW S \in SUBSET Record, NEW r \in Record, UniqueIds(S)
  PROVE  UniqueIds(Land(S, r))
  BY DEF UniqueIds, Land, Shadowing, SameKey, NodesOf, Record

LEMMA LoadsUnique ==
  ASSUME StoreInv
  PROVE  UniqueIds(NodesOf(Loads))
<1>1. tail.rec \in Record /\ file \in SUBSET Record /\ UniqueIds(file)
  BY DEF StoreInv, TypeOK, KeyInv
<1>2. UniqueIds(Loads)
  BY <1>1, LandKeepsIds DEF Loads
<1> QED
  BY <1>2 DEF UniqueIds, NodesOf

\* A load into an empty index.
LEMMA LoadStep ==
  ASSUME StoreInv, TypeOK', nodes = {}, LoadIndex, loaded' = TRUE,
         UNCHANGED <<file, tail, lost, dropped, acked, writer, snap>>,
         \A t \in Thread : call[t].pc \in Holding \/ call'[t].pc \in Holding => call'[t] = call[t],
         chat'.last \in Ids(Known),
         \A t \in Thread :
           call'[t].pc \in {"number", "fork", "write"} => call'[t].rec.parent \in Ids(Known)
  PROVE  StoreInv'
<1>1. nodes' = NodesOf(Loads)
  BY DEF LoadIndex, NodesOf
<1>2. nodes' = NodesOf(nodes)' /\ nodes \subseteq nodes' /\ nodes' \subseteq nodes \cup Loads
  BY <1>1 DEF NodesOf
<1>3. UniqueIds(nodes)'
  BY <1>1, LoadsUnique DEF UniqueIds, NodesOf
<1>4. NodesOf(Loads) \ nodes' = {} /\ NodesOf(file) \ nodes' = {}
  BY <1>1, DiskFacts DEF StoreInv
<1>5. ASSUME NEW t \in Thread, call[t].pc = "rename", snap.loaded, NEW n \in nodes' \ nodes
      PROVE  Short(n)
  <2>1. loaded /\ writer = {t}
    BY <1>5 DEF StoreInv, SnapInv, LockInv, Holding
  <2>2. \A r \in NodesOf(Loads) : OnItsWay(r) \/ Short(r)
    BY <2>1 DEF StoreInv, MemInv, Replaced
  <2>3. \A u \in Thread : call[u].pc \notin {"sync", "index"}
    BY <1>5, <2>1 DEF StoreInv, LockInv, Holding
  <2> QED
    BY <1>1, <2>2, <2>3 DEF OnItsWay
<1>6. /\ BranchesOf(branches') = branches'
      /\ \A b \in branches' : b.parent \in Ids(Known)
  <2> DEFINE metas == BranchesOf(Loads)
             kept == {b \in branches : Shadowing(metas, b) = {}}
             added == Placeholders(NodesOf(Loads), kept \cup metas)
  <2>1. branches' = kept \cup metas \cup added
    BY DEF LoadIndex
  <2>2. \A b \in kept : b.kind = "branch" /\ b.parent \in Ids(Known)
    BY DEF StoreInv, KindInv, ParentInv, BranchesOf
  <2>3. \A b \in metas : b.kind = "branch" /\ b.parent \in Ids(Known)
    <3>1. Loads \subseteq Known
      BY DiskFacts DEF StoreInv, Known
    <3>2. Ids(Stable) \subseteq Ids(Known)
      BY StableIsKnown, IdsGrow
    <3> QED
      BY <3>1, <3>2 DEF StoreInv, ParentInv, BranchesOf
  <2>4. \A b \in added : b.kind = "branch" /\ b.parent = None
    BY DEF Placeholders, Unwritten
  <2>5. None \in Ids(Known)
    BY NoneIsAnId
  <2> HIDE DEF kept, metas, added
  <2>6. \A b \in branches' : b.kind = "branch" /\ b.parent \in Ids(Known)
    BY <2>1, <2>2, <2>3, <2>4, <2>5
  <2> QED
    BY <2>6 DEF BranchesOf
<1> QED
  BY <1>2, <1>3, <1>4, <1>5, <1>6, QuietStep DEF BranchesOf

LEMMA ForkCheckStep ==
  ASSUME StoreInv, NEW t \in Thread, ForkCheck(t)
  PROVE  StoreInv'
<1>1. TypeOK /\ TypeOK'
  BY ForkTypes DEF StoreInv
<1>2. /\ UNCHANGED <<file, tail, lost, dropped, acked, writer, snap>>
      /\ chat'.last \in Ids(Known)
      /\ call[t].pc = "idle"
  BY DEF StoreInv, ParentInv, ForkCheck, At, diskVars, boundVars
<1>3. \A u \in Thread :
        call[u].pc \in {"number", "fork", "write"} => call[u].rec.parent \in Ids(Known)
  BY DEF StoreInv, ParentInv
<1>4. nodes' \subseteq nodes \cup NodesOf(Loads)
  BY DEF ForkCheck, LoadIndex
<1>5. \A n \in nodes' : n.id \in Nat /\ n.id \in Ids(Known)
  <2>1. Loads \subseteq Known
    BY DiskFacts DEF StoreInv, Known
  <2>2. \A n \in NodesOf(Loads) : n.id \in Ids(Known)
    BY <2>1 DEF Ids, NodesOf
  <2>3. \A n \in nodes' : n.id \in Nat
    BY <1>1, RecordFields DEF TypeOK
  <2> QED
    BY <1>4, <2>2, <2>3, KnownParents
<1>6. /\ \A u \in Thread : call[u].pc \in Holding \/ call'[u].pc \in Holding => call'[u] = call[u]
      /\ \A u \in Thread :
           call'[u].pc \in {"number", "fork", "write"} => call'[u].rec.parent \in Ids(Known)
  <2>1. CASE UNCHANGED call
    BY <1>3, <2>1
  <2>2. ASSUME NEW n \in nodes', Goes(t, "fork", Branch(None, n.id))
        PROVE  /\ \A u \in Thread : call[u].pc \in Holding \/ call'[u].pc \in Holding => call'[u] = call[u]
              /\ \A u \in Thread :
                   call'[u].pc \in {"number", "fork", "write"} => call'[u].rec.parent \in Ids(Known)
    <3>1. Branch(None, n.id) \in Record /\ Branch(None, n.id).parent = n.id
      BY <1>1, <1>5, BranchType DEF None
    <3>2. call[t].pc \notin Holding
      BY <1>2 DEF Holding
    <3> QED
      BY <1>1, <1>3, <1>5, <2>2, <3>1, <3>2, FreeMove
  <2>3. UNCHANGED call \/ \E n \in nodes' : Goes(t, "fork", Branch(None, n.id))
    BY DEF ForkCheck
  <2> QED
    BY <2>1, <2>2, <2>3
<1>7. CASE nodes = {}
  <2>1. LoadIndex /\ loaded' = TRUE
    BY <1>7 DEF ForkCheck
  <2> QED
    BY <1>1, <1>2, <1>6, <1>7, <2>1, LoadStep
<1>8. CASE nodes # {}
  <2>1. UNCHANGED <<nodes, branches, loaded>>
    BY <1>8 DEF ForkCheck
  <2>2. branches' = BranchesOf(branches)' /\ \A b \in branches' : b.parent \in Ids(Known)
    BY <2>1 DEF StoreInv, KindInv, ParentInv, BranchesOf
  <2> QED
    BY <1>1, <1>2, <1>6, <2>1, <2>2, SameNodes
<1> QED
  BY <1>7, <1>8

LEMMA ResumeStep ==
  ASSUME StoreInv, Resume
  PROVE  StoreInv'
<1>1. TypeOK /\ TypeOK'
  BY ProcessTypes DEF StoreInv
<1>2. /\ UNCHANGED <<file, tail, lost, dropped, acked, writer, snap, call>>
      /\ nodes = {} /\ LoadIndex /\ loaded' = TRUE
  BY DEF Resume, diskVars, boundVars
<1>3. chat'.last \in Ids(Known)
  <2>1. PICK n \in NodesOf(acked) : chat'.last = n.id
    BY DEF Resume
  <2>2. acked \subseteq Known
    BY StableIsKnown DEF StoreInv, WrittenInv
  <2> QED
    BY <2>1, <2>2 DEF Ids, NodesOf
<1>4. \A u \in Thread :
        call'[u].pc \in {"number", "fork", "write"} => call'[u].rec.parent \in Ids(Known)
  BY <1>2 DEF StoreInv, ParentInv
<1> QED
  BY <1>1, <1>2, <1>3, <1>4, LoadStep

-----------------------------------------------------------------------------
(* The steps that write.                                                   *)

\* DiskFacts of the state a step leads to.
LEMMA DiskFactsAfter ==
  ASSUME TypeOK'
  PROVE  /\ Loads' \cup Hidden' = Disk'
         /\ NodesOf(Loads') \subseteq NodesOf(file') \cup NodesOf(TailRec')
<1>1. tail'.rec \in Record /\ file' \in SUBSET Record
  BY DEF TypeOK
<1>2. CASE TailParses'
  <2>1. /\ Land(file', tail'.rec) \cup Shadowed(file', tail'.rec) = file' \cup {tail'.rec}
        /\ NodesOf(Land(file', tail'.rec)) \subseteq NodesOf(file') \cup {tail'.rec}
    BY <1>1, LandFacts
  <2> QED
    BY <1>2, <2>1 DEF Loads, Hidden, Disk, TailRec, NodesOf
<1>3. CASE ~TailParses'
  BY <1>3 DEF Loads, Hidden, Disk, TailRec, NodesOf
<1> QED
  BY <1>2, <1>3

LEMMA NobodyHolds ==
  ASSUME StoreInv, writer = {}
  PROVE  /\ \A t \in Thread : call[t].pc \notin Holding
         /\ tail.kind \in {"clean", "torn", "open", "short"}
         /\ Known = Stable \cup Refused
<1>1. \A t \in Thread : call[t].pc \notin Holding
  BY DEF StoreInv, LockInv
<1>2. tail.kind \notin {"whole", "glued"}
  BY <1>1 DEF StoreInv, LineInv, Holding
<1>3. tail.kind \in {"clean", "torn", "open", "short"}
  BY <1>2 DEF StoreInv, TypeOK
<1> QED
  BY <1>1, <1>3, AllStable

LEMMA OneHolds ==
  ASSUME StoreInv, NEW t \in Thread, call[t].pc \in Holding
  PROVE  \A u \in Thread \ {t} : call[u].pc \notin Holding
BY DEF StoreInv, LockInv

\* A line written under the mutex, whole or glued to another.
LEMMA Written ==
  ASSUME StoreInv, TypeOK', writer = {}, NEW t \in Thread, NEW r \in Record,
         r.parent \in Ids(Known), WriteLine(r), Goes(t, "sync", r), writer' = {t},
         UNCHANGED <<nodes, branches, snap, chat, file, acked, dropped, loaded>>
  PROVE  StoreInv'
<1>1. /\ \A u \in Thread : call[u].pc \notin Holding
      /\ tail.kind \in {"clean", "torn", "open", "short"} 
      /\ Known = Stable \cup Refused
  BY NobodyHolds
<1>2. /\ call'[t].pc = "sync" /\ call'[t].rec = r
      /\ \A u \in Thread \ {t} : call'[u] = call[u]
  BY CallFacts, GoesFacts DEF StoreInv
<1>3. \A u \in Thread : call'[u].pc \in Holding => u = t
  BY <1>1, <1>2
<1>4. \/ tail.kind = "clean" /\ tail'.kind = "whole" /\ tail'.rec = r /\ lost' = lost
      \/ /\ tail'.kind = "glued" /\ tail'.rec = tail.rec /\ tail.kind # "clean"
         /\ lost' = lost \cup {r} \cup Open \cup Refused
  BY DEF WriteLine, Line, Unended, Open, Refused
<1>5. /\ Known \subseteq Stable' /\ Stable \subseteq Stable' /\ Disk \subseteq Disk'
      /\ Known' = Known \cup {r} /\ TailRec' \subseteq {r}
  BY <1>1, <1>4 DEF Stable, Known, Disk, TailRec, Open, Refused, TailParses
<1>6. Ids(Known) \subseteq Ids(Stable') /\ Ids(Stable) \subseteq Ids(Stable') /\ Ids(Known) \subseteq Ids(Known')
  BY <1>5, IdsGrow
<1>7. LockInv' /\ KindInv' /\ WrittenInv' /\ KeyInv'
  BY <1>3, <1>5 DEF StoreInv, LockInv, KindInv, WrittenInv, KeyInv, UniqueIds, NodesOf, BranchesOf
<1>8. LineInv'
  <2>1. tail'.kind = "glued" /\ tail'.rec # NoRecord => tail'.rec \in lost'
    BY <1>1, <1>4 DEF StoreInv, LineInv, Open, Refused
  <2> QED
    BY <1>2, <1>3, <1>4, <2>1 DEF LineInv, Holding
<1>9. MemInv'
  <2>1. nodes' \subseteq Known' /\ nodes' \subseteq Disk'
    BY <1>1, <1>5 DEF StoreInv, MemInv, Holding
  <2>2. ASSUME loaded', NEW s \in NodesOf(Loads') \ nodes'
        PROVE  Replaced(s)' \/ OnItsWay(s)' \/ Short(s)'
    <3>1. s \in NodesOf(file') \/ s = r
      BY <1>5, <2>2, DiskFactsAfter DEF NodesOf
    <3>2. CASE s = r
      BY <1>2, <3>2 DEF OnItsWay
    <3>3. CASE s \in NodesOf(file')
      <4>1. s \in NodesOf(file) \ nodes
        BY <2>2, <3>3 DEF NodesOf
      <4> QED
        BY <1>1, <2>2, <4>1 DEF StoreInv, MemInv, OnItsWay, Holding, Replaced
    <3> QED
      BY <3>1, <3>2, <3>3
  <2>3. loaded' => \A s \in NodesOf(file') \ nodes' : Replaced(s)' \/ OnItsWay(s)'
    <3>1. loaded => \A s \in NodesOf(file) \ nodes : Replaced(s)
      BY <1>1 DEF StoreInv, MemInv, OnItsWay, Holding
    <3> QED
      BY <3>1 DEF Replaced, NodesOf
  <2> QED
    BY <2>1, <2>2, <2>3 DEF MemInv, NodesOf
<1>10. SnapInv'
  BY <1>2, <1>3 DEF SnapInv, Holding
<1>11. ParentInv'
  <2>1. \A s \in Known' : s.parent \in Ids(Stable')
    BY <1>1, <1>5, <1>6 DEF StoreInv, ParentInv
  <2>2. /\ \A b \in branches' : b.parent \in Ids(Known')
        /\ chat'.last \in Ids(Known')
    BY <1>6 DEF StoreInv, ParentInv
  <2>3. \A u \in Thread :
          /\ call'[u].pc \in {"number", "fork", "write"} => call'[u].rec.parent \in Ids(Known')
          /\ call'[u].pc # "rename"
    BY <1>2, <1>3, <1>6 DEF StoreInv, ParentInv, Holding
  <2> QED
    BY <2>1, <2>2, <2>3 DEF ParentInv, Ids, NodesOf
<1> QED
  BY <1>7, <1>8, <1>9, <1>10, <1>11 DEF StoreInv

\* A call that threw, having written a part of the line or nothing.
LEMMA Failed ==
  ASSUME StoreInv, TypeOK', writer = {}, NEW t \in Thread, NEW r \in Record,
         r.parent \in Ids(Known), FailsToWrite(t, r),
         UNCHANGED <<nodes, branches, snap, chat, file, acked, dropped, loaded>>
  PROVE  StoreInv'
<1>1. /\ \A u \in Thread : call[u].pc \notin Holding
      /\ tail.kind \in {"clean", "torn", "open", "short"}
      /\ Known = Stable \cup Refused
  BY NobodyHolds
<1>2. /\ call'[t].pc = "idle" /\ writer' = {}
      /\ \A u \in Thread \ {t} : call'[u] = call[u]
  BY CallFacts, GoesFacts, NoRecordType DEF StoreInv, FailsToWrite, Thrown
<1>3. \A u \in Thread : call'[u].pc \notin Holding
  BY <1>1, <1>2 DEF Holding
<1>4. \/ UNCHANGED <<tail, lost>>
      \/ tail.kind = "clean" /\ tail' = Line("short", r) /\ lost' = lost
      \/ tail' = Torn /\ lost' = lost \cup Open \cup Refused
  BY DEF FailsToWrite, Unended, Open, Refused
<1>5. /\ Stable \subseteq Stable' /\ Disk \subseteq Disk' /\ Known \subseteq Known'
      /\ tail'.kind \notin {"whole", "glued"} /\ (tail'.kind = "torn" => tail'.rec = NoRecord)
      /\ Known' \subseteq Known \cup {r}
      /\ Known' = Known \/ Known = Stable
  <2>1. CASE UNCHANGED <<tail, lost>>
    BY <1>1, <2>1 DEF StoreInv, LineInv, Stable, Known, Disk, TailRec, Open, TailParses
  <2>2. CASE tail.kind = "clean" /\ tail' = Line("short", r) /\ lost' = lost
    BY <1>1, <2>2 DEF Line, Stable, Known, Disk, TailRec, Open, Refused, TailParses
  <2>3. CASE tail' = Torn /\ lost' = lost \cup Open \cup Refused
    BY <1>1, <2>3 DEF Torn, Stable, Known, Disk, TailRec, Open, Refused, TailParses
  <2> QED
    BY <1>4, <2>1, <2>2, <2>3
<1>6. loaded => \A s \in NodesOf(Loads') \ nodes : Replaced(s) \/ Short(s)'
  <2>1. /\ loaded => \A s \in NodesOf(Loads) \ nodes : Replaced(s) \/ Short(s)
        /\ loaded => \A s \in NodesOf(file) \ nodes : Replaced(s)
    BY <1>1 DEF StoreInv, MemInv, OnItsWay, Holding
  <2>2. CASE UNCHANGED tail
    BY <2>1, <2>2 DEF Loads, TailParses, Short, NodesOf
  <2>3. CASE tail' = Line("short", r)
    <3>1. NodesOf(Loads') \subseteq NodesOf(file') \cup NodesOf(TailRec')
      BY DiskFactsAfter
    <3>2. TailRec' = {r} /\ Short(r)'
      BY <2>3 DEF TailRec, TailParses, Line, Short
    <3> QED
      BY <2>1, <3>1, <3>2 DEF NodesOf
  <2>4. CASE tail' = Torn
    <3>1. NodesOf(Loads') = NodesOf(file)
      BY <2>4 DEF Loads, TailParses, Torn, NodesOf
    <3> QED
      BY <2>1, <3>1
  <2> QED
    BY <1>4, <2>2, <2>3, <2>4
<1>7. LockInv' /\ KindInv' /\ LineInv' /\ WrittenInv' /\ KeyInv' /\ SnapInv'
  BY <1>3, <1>5 DEF StoreInv, LockInv, KindInv, LineInv, WrittenInv, KeyInv, SnapInv, UniqueIds,
                    NodesOf, BranchesOf, Holding
<1>8. MemInv'
  <2>1. loaded => \A s \in NodesOf(file) \ nodes : Replaced(s)
    BY <1>1 DEF StoreInv, MemInv, OnItsWay, Holding
  <2>2. nodes \subseteq Disk /\ nodes \subseteq Known
    BY <1>1 DEF StoreInv, MemInv, Holding
  <2> QED
    BY <1>5, <1>6, <2>1, <2>2 DEF MemInv, Replaced, NodesOf
<1>9. ParentInv'
  <2>1. Ids(Known) \subseteq Ids(Known') /\ Ids(Stable) \subseteq Ids(Stable')
    BY <1>5, IdsGrow
  <2>2. \A s \in Known' : s.parent \in Ids(Stable')
    <3>1. \A s \in Known : s.parent \in Ids(Stable')
      BY <2>1 DEF StoreInv, ParentInv
    <3>2. Known' = Known \/ r.parent \in Ids(Stable')
      BY <1>5, <2>1
    <3> QED
      BY <1>5, <3>1, <3>2
  <2>3. /\ \A b \in branches' : b.parent \in Ids(Known')
        /\ chat'.last \in Ids(Known')
    BY <2>1 DEF StoreInv, ParentInv
  <2>4. \A u \in Thread :
          /\ call'[u].pc \in {"number", "fork", "write"} => call'[u].rec.parent \in Ids(Known')
          /\ call'[u].pc # "rename"
    BY <1>2, <1>3, <2>1 DEF StoreInv, ParentInv, Holding
  <2> QED
    BY <2>2, <2>3, <2>4 DEF ParentInv, Ids, NodesOf
<1> QED
  BY <1>7, <1>8, <1>9 DEF StoreInv

LEMMA WriteSteps ==
  ASSUME StoreInv, NEW t \in Thread, Write(t) \/ WriteFails(t) \/ Rename(t)
  PROVE  StoreInv'
<1>1. TypeOK /\ TypeOK'
  BY AppendTypes DEF StoreInv, Append
<1>2. writer = {}
  BY DEF Write, WriteFails, Rename, MutexFree
<1>3. UNCHANGED <<nodes, branches, snap, chat, file, acked, dropped, loaded>>
  BY DEF Write, WriteFails, Rename, indexVars
<1>4. CASE Write(t)
  <2>1. call[t].rec \in Record /\ call[t].rec.parent \in Ids(Known)
    BY <1>1, <1>4, CallFacts DEF StoreInv, ParentInv, Write, At
  <2>2. WriteLine(call[t].rec) /\ Goes(t, "sync", call[t].rec) /\ writer' = {t}
    BY <1>4 DEF Write
  <2> QED
    BY <1>1, <1>2, <1>3, <2>1, <2>2, Written
<1>5. CASE WriteFails(t)
  <2>1. call[t].rec \in Record /\ call[t].rec.parent \in Ids(Known)
    BY <1>1, <1>5, CallFacts DEF StoreInv, ParentInv, WriteFails, At
  <2> QED
    BY <1>1, <1>2, <1>3, <1>5, <2>1, Failed DEF WriteFails
<1>6. CASE Rename(t)
  <2> DEFINE n == Node(nodeCounter + 1, None, current)
  <2>1. nodeCounter + 1 \in Nat /\ None \in Nat /\ current \in Nat
    BY <1>1 DEF TypeOK, None
  <2>2. n \in Record /\ n.parent = None
    BY <1>1, <2>1, NodeType
  <2>3. n.parent \in Ids(Known)
    BY <2>2, NoneIsAnId
  <2>4. \/ WriteLine(n) /\ Goes(t, "sync", n) /\ writer' = {t}
        \/ FailsToWrite(t, n)
    BY <1>6 DEF Rename
  <2> HIDE DEF n
  <2> QED
    BY <1>1, <1>2, <1>3, <2>2, <2>3, <2>4, Written, Failed
<1> QED
  BY <1>4, <1>5, <1>6

LEMMA SyncStep ==
  ASSUME StoreInv, NEW t \in Thread, Sync(t)
  PROVE  StoreInv'
<1>1. TypeOK /\ TypeOK'
  BY AppendTypes DEF StoreInv, Append
<1>2. UNCHANGED <<nodes, branches, writer, snap, chat, acked, dropped, loaded>>
  BY DEF Sync, indexVars
<1>3. call[t].pc = "sync" /\ writer = {t}
  BY DEF StoreInv, LockInv, Sync, At, Holding
<1>4. /\ call'[t].pc = "index" /\ call'[t].rec = call[t].rec
      /\ \A u \in Thread \ {t} : call'[u] = call[u]
  BY <1>1, CallFacts, GoesFacts DEF Sync
<1>5. \A u \in Thread \ {t} : call[u].pc \notin Holding /\ call'[u].pc \notin Holding
  BY <1>3, <1>4, OneHolds DEF Holding
<1>6. /\ tail'.kind = "clean"
      /\ \/ /\ tail.kind = "whole" /\ tail.rec = call[t].rec
            /\ file' = Land(file, tail.rec) /\ lost' = lost \cup Shadowed(file, tail.rec)
         \/ /\ tail.kind = "glued" /\ call[t].rec \in lost
            /\ file' = file /\ lost' = lost
  BY <1>3 DEF StoreInv, LineInv, Sync, Clean
<1>7. tail.rec \in Record /\ file \in SUBSET Record
  BY <1>1 DEF TypeOK
<1>8. Land(file, tail.rec) \cup Shadowed(file, tail.rec) = file \cup {tail.rec}
  BY <1>7, LandFacts
<1>9. /\ Stable \subseteq Stable' /\ Known' = Stable' /\ Known' = Known /\ Disk' = Disk
      /\ call[t].rec \in file' \cup lost'
  <2>1. TailRec' = {} /\ Open' = {} /\ Open = {}
    BY <1>6 DEF TailRec, Open, TailParses
  <2>2. CASE tail.kind = "whole"
    <3>1. TailRec = {tail.rec} /\ tail.rec = call[t].rec
      BY <1>6, <2>2 DEF TailRec, TailParses
    <3>2. file' \cup lost' = file \cup lost \cup {tail.rec}
      BY <1>6, <1>8, <2>2
    <3> QED
      BY <1>2, <2>1, <3>1, <3>2 DEF Stable, Known, Disk
  <2>3. CASE tail.kind = "glued"
    <3>1. TailRec = {}
      BY <2>3 DEF TailRec, TailParses
    <3> QED
      BY <1>2, <1>6, <2>1, <2>3, <3>1 DEF Stable, Known, Disk
  <2> QED
    BY <1>6, <2>2, <2>3
<1>10. Loads' = Loads
  BY <1>6 DEF Loads, TailParses
<1>11. Ids(Stable) \subseteq Ids(Stable') /\ Ids(Known') = Ids(Known)
  BY <1>9, IdsGrow
<1>12. LockInv' /\ KindInv' /\ WrittenInv'
  BY <1>2, <1>3, <1>4, <1>5, <1>9
     DEF StoreInv, LockInv, KindInv, WrittenInv, NodesOf, BranchesOf
<1>13. KeyInv'
  <2>1. UniqueIds(file')
    BY <1>6, <1>7, LandKeepsIds DEF StoreInv, KeyInv
  <2> QED
    BY <1>2, <2>1 DEF StoreInv, KeyInv, UniqueIds, NodesOf
<1>14. LineInv'
  BY <1>4, <1>5, <1>6, <1>9 DEF LineInv, Holding
<1>15. MemInv'
  <2>1. nodes \subseteq Disk /\ nodes \subseteq Known
    BY <1>3, <1>5 DEF StoreInv, MemInv, Holding
  <2>2. \A r : OnItsWay(r) => OnItsWay(r)'
    BY <1>3, <1>4 DEF OnItsWay
  <2>3. loaded => \A r \in NodesOf(Loads) \ nodes : Replaced(r) \/ OnItsWay(r)
    BY <1>6 DEF StoreInv, MemInv, Short, Line
  <2>4. \A r : Replaced(r) => Replaced(r)'
    BY <1>2 DEF Replaced
  <2>5. loaded' => \A r \in NodesOf(Loads') \ nodes' : Replaced(r)' \/ OnItsWay(r)'
    BY <1>2, <1>10, <2>2, <2>3, <2>4
  <2>6. Loads' = file'
    BY <1>6 DEF Loads, TailParses
  <2> QED
    BY <1>2, <1>9, <2>1, <2>5, <2>6 DEF MemInv, NodesOf
<1>16. SnapInv'
  BY <1>4, <1>5 DEF SnapInv, Holding
<1>17. ParentInv'
  <2>1. \A s \in Known' : s.parent \in Ids(Stable')
    BY <1>9, <1>11 DEF StoreInv, ParentInv
  <2>2. /\ \A b \in branches' : b.parent \in Ids(Known')
        /\ chat'.last \in Ids(Known')
    BY <1>2, <1>11 DEF StoreInv, ParentInv
  <2>3. \A u \in Thread :
          /\ call'[u].pc \in {"number", "fork", "write"} => call'[u].rec.parent \in Ids(Known')
          /\ call'[u].pc # "rename"
    BY <1>4, <1>5, <1>11 DEF StoreInv, ParentInv, Holding
  <2> QED
    BY <2>1, <2>2, <2>3 DEF ParentInv, Ids, NodesOf
<1> QED
  BY <1>1, <1>12, <1>13, <1>14, <1>15, <1>16, <1>17 DEF StoreInv

\* The call returns: its record is in the file or lost, and acknowledged.
LEMMA ReturnSteps ==
  ASSUME StoreInv, NEW t \in Thread, Index(t) \/ ForkReturns(t)
  PROVE  StoreInv'
<1> DEFINE n == call[t].rec
<1>1. TypeOK /\ TypeOK'
  BY AppendTypes DEF StoreInv, Append
<1>2. UNCHANGED <<branches, snap, file, tail, lost, dropped, loaded>>
  BY DEF Index, ForkReturns, indexVars, diskVars
<1>3. call[t].pc = "index" /\ writer = {t} /\ writer' = {} /\ acked' = acked \cup {n}
  BY DEF StoreInv, LockInv, Index, ForkReturns, At, Holding
<1>4. /\ call'[t].pc = "idle"
      /\ \A u \in Thread \ {t} : call'[u] = call[u]
  BY <1>1, CallFacts, GoesFacts, NoRecordType DEF Index, ForkReturns
<1>5. /\ \A u \in Thread \ {t} : call[u].pc \notin Holding
      /\ \A u \in Thread : call'[u].pc \notin Holding
  BY <1>3, <1>4, OneHolds DEF Holding
<1>6. n \in file \cup lost /\ n \in Record
  BY <1>1, <1>3, CallFacts DEF StoreInv, LineInv
<1>7. Stable' = Stable /\ Known' = Known /\ Disk' = Disk /\ Loads' = Loads
  BY <1>2 DEF Stable, Known, Disk, TailRec, Open, TailParses, Loads
<1>8. n \in Stable /\ n \in Disk /\ n \in Known
  BY <1>6 DEF Stable, Disk, Known
<1>9. \/ nodes' = nodes /\ chat' = chat /\ n.kind = "branch"
      \/ /\ nodes' = (nodes \ Shadowing(nodes, n)) \cup {n} /\ n.kind = "node"
         /\ chat' = [chat EXCEPT !.last = n.id] \/ chat' = chat
  BY DEF Index, ForkReturns, indexVars
<1> HIDE DEF n
<1>10. LockInv' /\ LineInv' /\ SnapInv'
  <2>1. tail.kind \notin {"whole", "glued"}
    BY <1>3, <1>5 DEF StoreInv, LineInv, Holding
  <2> QED
    BY <1>2, <1>5, <2>1 DEF StoreInv, LockInv, LineInv, SnapInv, Holding
<1>11. KindInv' /\ WrittenInv'
  BY <1>2, <1>3, <1>7, <1>8, <1>9
     DEF StoreInv, KindInv, WrittenInv, NodesOf, BranchesOf
<1>12. KeyInv'
  <2>1. UniqueIds(nodes')
    BY <1>9 DEF StoreInv, KeyInv, KindInv, UniqueIds, NodesOf, Shadowing, SameKey
  <2> QED
    BY <1>2, <2>1 DEF StoreInv, KeyInv, UniqueIds, NodesOf
<1>13. MemInv'
  <2>1. nodes' \subseteq Disk /\ nodes' \subseteq Known
    BY <1>3, <1>5, <1>8, <1>9 DEF StoreInv, MemInv, Holding
  <2>2. ASSUME loaded, NEW r \in NodesOf(Loads) \ nodes'
        PROVE  (\E m \in nodes' : m.id = r.id) \/ Short(r)
    <3>1. r \in nodes \/ Replaced(r) \/ OnItsWay(r) \/ Short(r)
      BY <2>2 DEF StoreInv, MemInv
    <3>2. OnItsWay(r) => r = n
      BY <1>3, <1>5 DEF OnItsWay, n, Holding
    <3>3. r.kind = "node"
      BY <2>2 DEF NodesOf
    <3> QED
      BY <1>9, <2>2, <3>1, <3>2, <3>3 DEF Replaced, Shadowing, SameKey
  <2>3. ASSUME loaded, NEW r \in NodesOf(file) \ nodes'
        PROVE  \E m \in nodes' : m.id = r.id
    <3>1. r \in nodes \/ Replaced(r) \/ OnItsWay(r)
      BY <2>3 DEF StoreInv, MemInv
    <3>2. OnItsWay(r) => r = n
      BY <1>3, <1>5 DEF OnItsWay, n, Holding
    <3>3. r.kind = "node"
      BY <2>3 DEF NodesOf
    <3> QED
      BY <1>9, <2>3, <3>1, <3>2, <3>3 DEF Replaced, Shadowing, SameKey
  <2> QED
    BY <1>2, <1>7, <2>1, <2>2, <2>3 DEF MemInv, Replaced, Short, NodesOf
<1>14. ParentInv'
  <2>1. chat'.last \in Ids(Known)
    <3>1. chat.last \in Ids(Known)
      BY DEF StoreInv, ParentInv
    <3>2. n.kind = "node" => n.id \in Ids(Known)
      BY <1>8 DEF Ids, NodesOf
    <3>3. chat \in [last : Nat, branch : Nat]
      BY <1>1 DEF TypeOK
    <3>4. chat'.last = chat.last \/ (chat'.last = n.id /\ n.kind = "node")
      BY <1>9, <3>3
    <3> QED
      BY <3>1, <3>2, <3>4
  <2>2. \A s \in Known : s.parent \in Ids(Stable)
    BY DEF StoreInv, ParentInv
  <2>3. \A b \in branches' : b.parent \in Ids(Known)
    BY <1>2 DEF StoreInv, ParentInv
  <2>4. \A u \in Thread :
          /\ call'[u].pc \in {"number", "fork", "write"} => call'[u].rec.parent \in Ids(Known)
          /\ call'[u].pc # "rename"
    BY <1>4, <1>5 DEF StoreInv, ParentInv, Holding
  <2>5. Ids(Known)' = Ids(Known) /\ Ids(Stable)' = Ids(Stable)
    BY <1>7 DEF Ids, NodesOf
  <2> QED
    BY <1>7, <2>1, <2>2, <2>3, <2>4, <2>5 DEF ParentInv
<1> QED
  BY <1>1, <1>10, <1>11, <1>12, <1>13, <1>14 DEF StoreInv

-----------------------------------------------------------------------------
(* Compaction.                                                             *)

LEMMA CollectStep ==
  ASSUME StoreInv, NEW t \in Thread, CompactCollect(t)
  PROVE  StoreInv'
<1>1. TypeOK /\ TypeOK'
  BY CompactTypes DEF StoreInv, Compact
<1>2. UNCHANGED <<nodes, branches, chat, file, tail, lost, dropped, acked, loaded>>
  BY DEF CompactCollect, indexVars, diskVars, histVars
<1>3. /\ writer = {} /\ writer' = {t}
      /\ snap'.branch = current /\ snap'.nodes = {n \in nodes : n.branch = current}
      /\ snap'.branches = {b \in branches : b.id = current} /\ snap'.loaded = loaded
  BY DEF CompactCollect, MutexFree
<1>4. /\ call'[t].pc = "rename" /\ call'[t].rec = NoRecord
      /\ \A u \in Thread \ {t} : call'[u] = call[u]
  BY <1>1, CallFacts, GoesFacts, NoRecordType DEF CompactCollect
<1>5. /\ \A u \in Thread : call[u].pc \notin Holding
      /\ tail.kind \in {"clean", "torn", "open", "short"}
  BY <1>3, NobodyHolds
<1>6. \A u \in Thread \ {t} : call'[u].pc \notin Holding
  BY <1>4, <1>5
<1>7. Stable' = Stable /\ Known' = Known /\ Disk' = Disk /\ Loads' = Loads
  BY <1>2 DEF Stable, Known, Disk, TailRec, Open, TailParses, Loads
<1>8. LockInv' /\ LineInv' /\ SnapInv'
  BY <1>2, <1>3, <1>4, <1>5, <1>6 DEF StoreInv, LockInv, LineInv, SnapInv, Holding
<1>9. KindInv' /\ WrittenInv' /\ KeyInv'
  BY <1>2, <1>3, <1>7
     DEF StoreInv, KindInv, WrittenInv, KeyInv, UniqueIds, NodesOf, BranchesOf
<1>10. MemInv'
  <2>1. nodes \subseteq Disk /\ nodes \subseteq Known
    BY <1>5 DEF StoreInv, MemInv, Holding
  <2>2. /\ loaded => \A r \in NodesOf(Loads) \ nodes : Replaced(r) \/ Short(r)
        /\ loaded => \A r \in NodesOf(file) \ nodes : Replaced(r)
    BY <1>5 DEF StoreInv, MemInv, OnItsWay, Holding
  <2> QED
    BY <1>2, <1>7, <2>1, <2>2 DEF MemInv, Replaced, Short, NodesOf
<1>11. ParentInv'
  <2>1. Ids(Known)' = Ids(Known) /\ Ids(Stable)' = Ids(Stable)
    BY <1>7 DEF Ids, NodesOf
  <2> QED
    BY <1>2, <1>3, <1>4, <1>6, <1>7, <2>1 DEF StoreInv, ParentInv, Holding
<1> QED
  BY <1>1, <1>8, <1>9, <1>10, <1>11 DEF StoreInv

\* What the file of a loaded index gives or hides is in the index, or a node with its id.
LEMMA LoadedIds ==
  ASSUME StoreInv, loaded, \A t \in Thread : call[t].pc \notin {"sync", "index"},
         NEW r \in NodesOf(file \cup TailRec)
  PROVE  Replaced(r) \/ Short(r)
<1>1. /\ \A s \in NodesOf(Loads) : Replaced(s) \/ Short(s)
      /\ \A s \in NodesOf(file) : Replaced(s)
  BY DEF StoreInv, MemInv, OnItsWay, Replaced
<1>2. CASE r \in Loads
  BY <1>1, <1>2 DEF NodesOf
<1>3. CASE r \in file
  BY <1>1, <1>3 DEF NodesOf
<1>4. CASE r \in TailRec /\ r \notin Loads
  <2>1. TailParses /\ r = tail.rec /\ r \notin Land(file, r)
    BY <1>4 DEF TailRec, Loads
  <2>2. PICK s \in Shadowing(file, r) : TRUE
    BY <2>1 DEF Land, NodesOf
  <2>3. s \in NodesOf(file) /\ s.id = r.id
    BY <2>2 DEF Shadowing, SameKey, NodesOf
  <2> QED
    BY <1>1, <2>3 DEF Replaced
<1> QED
  BY <1>2, <1>3, <1>4 DEF NodesOf

\* A compaction accounts for every record it leaves out.
LEMMA RenameKeeps ==
  ASSUME StoreInv, NEW t \in Thread, CompactRename(t)
  PROVE  /\ tail.kind \in {"clean", "torn", "open", "short"}
         /\ Stable \subseteq Known /\ Known \subseteq Known' /\ Known' = Stable'
         /\ Known' \subseteq Known \cup snap.nodes \cup snap.branches
<1>1. call[t].pc = "rename" /\ TypeOK
  BY DEF StoreInv, CompactRename, At
<1>2. \A u \in Thread : call[u].pc \notin {"sync", "index"}
  BY <1>1, OneHolds DEF Holding
<1>3. tail.kind \in {"clean", "torn", "open", "short"}
  BY <1>2 DEF StoreInv, LineInv, TypeOK
<1>4. /\ file' = snap.nodes \cup snap.branches /\ tail'.kind = "clean"
      /\ lost' = lost \ file'
      /\ dropped' = dropped \cup {r \in Disk \ file' : MayDrop(r)}
  BY <1>1, DiskFacts DEF CompactRename, Clean
<1>5. Known = file \cup lost \cup dropped \cup TailRec
  BY DEF Known, Disk
<1>6. Known' = Stable' /\ Stable' = file' \cup lost' \cup dropped'
  BY <1>4 DEF Stable, Known, Disk, TailRec, Open, TailParses
<1>7. ASSUME NEW r \in file \cup TailRec, r \notin file'
      PROVE  MayDrop(r)
  <2>1. CASE r.kind = "branch" \/ r.branch # snap.branch \/ ~snap.loaded
    BY <2>1 DEF MayDrop
  <2>2. CASE r.kind # "branch" /\ r.branch = snap.branch /\ snap.loaded
    <3>1. r.kind = "node"
      BY <1>1, <2>2 DEF TypeOK, Record, TailRec
    <3>2. loaded /\ \A n \in nodes : n.branch = snap.branch => n \in snap.nodes \/ Short(n)
      BY <1>1, <2>2 DEF StoreInv, SnapInv
    <3>3. Short(r) \/ \E n \in nodes : n.id = r.id
      BY <1>2, <3>1, <3>2, LoadedIds DEF NodesOf, Replaced
    <3>4. CASE Short(r)
      BY <3>4 DEF MayDrop, Short
    <3>5. ASSUME ~Short(r), NEW n \in nodes, n.id = r.id PROVE MayDrop(r)
      <4>1. n # r
        BY <1>4, <1>7, <2>2, <3>2, <3>5
      <4> QED
        BY <3>5, <4>1 DEF MayDrop
    <3> QED
      BY <3>3, <3>4, <3>5
  <2> QED
    BY <2>1, <2>2
<1>8. Known \subseteq Known'
  BY <1>4, <1>5, <1>6, <1>7 DEF Disk
<1>9. Known' \subseteq Known \cup snap.nodes \cup snap.branches
  BY <1>4, <1>6 DEF Known, Disk
<1> QED
  BY <1>3, <1>6, <1>8, <1>9, StableIsKnown

LEMMA RenameStep ==
  ASSUME StoreInv, NEW t \in Thread, CompactRename(t)
  PROVE  StoreInv'
<1>1. TypeOK /\ TypeOK'
  BY CompactTypes DEF StoreInv, Compact
<1>2. /\ UNCHANGED <<nodes, branches, snap, chat, acked, writer>>
      /\ file' = snap.nodes \cup snap.branches /\ tail'.kind = "clean"
  BY DEF CompactRename, Clean, indexVars
<1>3. call[t].pc = "rename" /\ writer = {t}
  BY DEF StoreInv, LockInv, CompactRename, At, Holding
<1>4. /\ call'[t].pc = "reindex"
      /\ \A u \in Thread \ {t} : call'[u] = call[u]
  BY <1>1, CallFacts, GoesFacts, NoRecordType DEF CompactRename
<1>5. \A u \in Thread \ {t} : call[u].pc \notin Holding /\ call'[u].pc \notin Holding
  BY <1>3, <1>4, OneHolds DEF Holding
<1>6. /\ Stable \subseteq Known /\ Known \subseteq Known' /\ Known' = Stable'
      /\ Known' \subseteq Known \cup snap.nodes \cup snap.branches
  BY RenameKeeps
<1>7. Ids(Stable) \subseteq Ids(Stable') /\ Ids(Known) \subseteq Ids(Known')
  BY <1>6, IdsGrow
<1>8. /\ snap.nodes \subseteq nodes /\ \A n \in snap.nodes : n.branch = snap.branch
      /\ nodes \subseteq Known
  BY <1>3 DEF StoreInv, SnapInv, MemInv
<1>9. NodesOf(file') = snap.nodes
  BY <1>2 DEF StoreInv, KindInv, NodesOf, BranchesOf
<1>10. LockInv' /\ LineInv' /\ SnapInv'
  BY <1>2, <1>3, <1>4, <1>5, <1>8, <1>9 DEF LockInv, LineInv, SnapInv, Holding, NodesOf
<1>11. KindInv' /\ WrittenInv'
  BY <1>2, <1>6 DEF StoreInv, KindInv, WrittenInv, NodesOf, BranchesOf
<1>12. KeyInv'
  <2>1. UniqueIds(file')
    BY <1>8, <1>9 DEF StoreInv, KeyInv, KindInv, UniqueIds
  <2> QED
    BY <1>2, <2>1 DEF StoreInv, KeyInv, UniqueIds, NodesOf
<1>13. MemInv'
  <2>1. nodes' \subseteq Known'
    BY <1>2, <1>6, <1>8
  <2>2. NodesOf(Loads') \subseteq nodes' /\ NodesOf(file') \subseteq nodes'
    <3>1. Loads' = file'
      BY <1>2 DEF Loads, TailParses
    <3> QED
      BY <1>2, <1>8, <1>9, <3>1
  <2> QED
    BY <1>4, <2>1, <2>2 DEF MemInv, NodesOf
<1>14. ParentInv'
  <2>1. \A r \in Known' : r.parent \in Ids(Stable')
    <3>1. \A r \in Known : r.parent \in Ids(Stable)
      BY DEF StoreInv, ParentInv
    <3>2. \A r \in snap.branches : r.parent \in Ids(Known)
      BY <1>3 DEF StoreInv, ParentInv
    <3> QED
      BY <1>6, <1>7, <1>8, <3>1, <3>2
  <2>2. /\ \A b \in branches' : b.parent \in Ids(Known')
        /\ chat'.last \in Ids(Known')
    BY <1>2, <1>7 DEF StoreInv, ParentInv
  <2>3. \A u \in Thread :
          /\ call'[u].pc \in {"number", "fork", "write"} => call'[u].rec.parent \in Ids(Known')
          /\ call'[u].pc # "rename"
    BY <1>4, <1>5, <1>7 DEF StoreInv, ParentInv, Holding
  <2> QED
    BY <2>1, <2>2, <2>3 DEF ParentInv, Ids, NodesOf
<1> QED
  BY <1>1, <1>10, <1>11, <1>12, <1>13, <1>14 DEF StoreInv

\* It throws, or cuts the index down to what is now the file.
LEMMA CompactEnds ==
  ASSUME StoreInv, NEW t \in Thread, CompactFails(t) \/ CompactReindex(t)
  PROVE  StoreInv'
<1>1. TypeOK /\ TypeOK'
  BY CompactTypes DEF StoreInv, Compact
<1>2. UNCHANGED <<snap, chat, file, tail, lost, dropped, acked, loaded>>
  BY DEF CompactFails, CompactReindex, indexVars, diskVars, histVars
<1>3. call[t].pc \in {"rename", "reindex"}
  BY DEF CompactFails, CompactReindex, At
<1>4. /\ call'[t].pc = "idle" /\ writer' = {}
      /\ \A u \in Thread \ {t} : call'[u] = call[u]
  BY <1>1, CallFacts, GoesFacts, NoRecordType DEF CompactFails, CompactReindex, Thrown
<1>5. /\ \A u \in Thread \ {t} : call[u].pc \notin Holding
      /\ \A u \in Thread : call'[u].pc \notin Holding
  BY <1>3, <1>4, OneHolds DEF Holding
<1>6. Stable' = Stable /\ Known' = Known /\ Disk' = Disk /\ Loads' = Loads
  BY <1>2 DEF Stable, Known, Disk, TailRec, Open, TailParses, Loads
<1>7. /\ branches' \subseteq branches
      /\ \/ nodes' = nodes /\ call[t].pc = "rename"
         \/ nodes' = snap.nodes /\ call[t].pc = "reindex"
  BY DEF CompactFails, CompactReindex, Remaining, At, indexVars
<1>8. snap.nodes \subseteq nodes
  BY <1>3 DEF StoreInv, SnapInv
<1>9. LockInv' /\ LineInv' /\ SnapInv'
  <2>1. tail.kind \notin {"whole", "glued"}
    BY <1>3, <1>5 DEF StoreInv, LineInv, Holding
  <2> QED
    BY <1>2, <1>5, <2>1 DEF StoreInv, LockInv, LineInv, SnapInv, Holding
<1>10. KindInv' /\ WrittenInv'
  BY <1>2, <1>6, <1>7 DEF StoreInv, KindInv, WrittenInv, NodesOf, BranchesOf
<1>11. KeyInv'
  BY <1>2, <1>7, <1>8 DEF StoreInv, KeyInv, UniqueIds, NodesOf
<1>12. MemInv'
  <2>1. CASE call[t].pc = "rename"
    <3>1. nodes' = nodes
      BY <1>7, <2>1
    <3>2. nodes \subseteq Disk /\ nodes \subseteq Known
      BY <1>5, <2>1 DEF StoreInv, MemInv, Holding
    <3>3. /\ loaded => \A r \in NodesOf(Loads) \ nodes : Replaced(r) \/ Short(r)
          /\ loaded => \A r \in NodesOf(file) \ nodes : Replaced(r)
      BY <1>5, <2>1 DEF StoreInv, MemInv, OnItsWay, Holding
    <3> QED
      BY <1>2, <1>6, <3>1, <3>2, <3>3 DEF MemInv, Replaced, Short, NodesOf
  <2>2. CASE call[t].pc = "reindex"
    <3>1. nodes' = snap.nodes /\ NodesOf(file) = snap.nodes /\ tail.kind = "clean"
      BY <1>7, <2>2 DEF StoreInv, SnapInv
    <3>2. NodesOf(Loads) = nodes' /\ NodesOf(file) = nodes'
      BY <3>1 DEF Loads, TailParses
    <3>3. nodes' \subseteq file /\ file \subseteq Disk /\ Disk \subseteq Known
      BY <3>1 DEF NodesOf, Disk, Known
    <3> QED
      BY <1>2, <1>6, <3>2, <3>3 DEF MemInv, NodesOf
  <2> QED
    BY <1>3, <2>1, <2>2
<1>13. ParentInv'
  <2>1. Ids(Known)' = Ids(Known) /\ Ids(Stable)' = Ids(Stable)
    BY <1>6 DEF Ids, NodesOf
  <2> QED
    BY <1>2, <1>4, <1>5, <1>6, <1>7, <2>1 DEF StoreInv, ParentInv, Holding
<1> QED
  BY <1>1, <1>9, <1>10, <1>11, <1>12, <1>13 DEF StoreInv

-----------------------------------------------------------------------------
(* A restart.                                                              *)

\* What a restart takes away was never known to be there.
LEMMA TailFacts ==
  ASSUME StoreInv, TailSurvives
  PROVE  /\ tail'.kind \in {"clean", "torn", "open"}
         /\ file' \cup lost' \cup Open' \subseteq file \cup lost \cup TailRec
         /\ file \cup lost \cup Open \subseteq file' \cup lost' \cup Open'
         /\ UniqueIds(file')
         /\ tail'.kind = "torn" => tail'.rec = NoRecord
<1>0. tail'.kind = "torn" => tail'.rec = NoRecord
  BY DEF StoreInv, LineInv, TailSurvives, diskVars, Clean, Torn, Line
<1>1. /\ tail.rec \in Record /\ file \in SUBSET Record /\ UniqueIds(file)
      /\ tail.kind \in {"clean", "torn", "glued", "whole", "open", "short"}
  BY DEF StoreInv, TypeOK, KeyInv
<1>2. Land(file, tail.rec) \cup Shadowed(file, tail.rec) = file \cup {tail.rec}
  BY <1>1, LandFacts
<1>3. UniqueIds(Land(file, tail.rec))
  BY <1>1, LandKeepsIds
<1>4. CASE /\ tail.kind = "whole" /\ tail' = Clean
           /\ file' = Land(file, tail.rec) /\ lost' = lost \cup Shadowed(file, tail.rec)
  BY <1>2, <1>3, <1>4 DEF Clean, Open, TailRec, TailParses
<1>5. CASE /\ tail.kind = "whole" /\ tail' \in {Clean, Torn, Line("open", tail.rec)}
           /\ UNCHANGED <<file, lost>>
  <2>1. Open' \subseteq {tail.rec} /\ Open = {} /\ TailRec = {tail.rec}
    BY <1>5 DEF Clean, Torn, Line, Open, TailRec, TailParses
  <2>2. tail'.kind \in {"clean", "torn", "open"}
    BY <1>5 DEF Clean, Torn, Line
  <2> QED
    BY <1>0, <1>1, <1>5, <2>1, <2>2
<1>6. CASE /\ tail.kind = "short" /\ tail' \in {Clean, Torn, Line("open", tail.rec)}
           /\ UNCHANGED <<file, lost>>
  <2>1. Open' \subseteq {tail.rec} /\ Open = {} /\ TailRec = {tail.rec}
    BY <1>6 DEF Clean, Torn, Line, Open, TailRec, TailParses
  <2>2. tail'.kind \in {"clean", "torn", "open"}
    BY <1>6 DEF Clean, Torn, Line
  <2> QED
    BY <1>0, <1>1, <1>6, <2>1, <2>2
<1>7. CASE tail.kind = "glued" /\ tail' \in {Clean, Torn} /\ UNCHANGED <<file, lost>>
  <2>1. Open' = {} /\ Open = {} /\ tail'.kind \in {"clean", "torn", "open"}
    BY <1>7 DEF Clean, Torn, Open
  <2> QED
    BY <1>0, <1>1, <1>7, <2>1
<1>8. CASE /\ tail.kind = "glued" /\ tail.rec # NoRecord /\ tail' = Line("open", tail.rec)
           /\ lost' = lost \ {tail.rec} /\ UNCHANGED file
  <2>1. Open' = {tail.rec} /\ Open = {} /\ tail'.kind = "open"
    BY <1>8 DEF Line, Open
  <2>2. tail.rec \in lost
    BY <1>8 DEF StoreInv, LineInv
  <2> QED
    BY <1>0, <1>1, <1>8, <2>1, <2>2
<1>9. CASE tail.kind \in {"clean", "torn", "open"} /\ UNCHANGED <<file, tail, lost>>
  <2>1. Open' = Open /\ Open = TailRec
    BY <1>9 DEF Open, TailRec, TailParses
  <2> QED
    BY <1>0, <1>1, <1>9, <2>1
<1> QED
  BY <1>4, <1>5, <1>6, <1>7, <1>8, <1>9 DEF TailSurvives, diskVars

LEMMA CrashStep ==
  ASSUME StoreInv, Crash
  PROVE  StoreInv'
<1>1. TypeOK'
  BY ProcessTypes DEF StoreInv
<1>2. /\ nodes' = {} /\ branches' = {Unwritten(Main)} /\ loaded' = FALSE
      /\ snap'.nodes = {} /\ snap'.branches = {} /\ chat'.last = None
      /\ \A t \in Thread : call'[t].pc = "idle"
      /\ acked' = acked /\ dropped' = dropped /\ TailSurvives
  BY DEF Crash
<1>3. /\ tail'.kind \in {"clean", "torn", "open"}
      /\ file' \cup lost' \cup Open' \subseteq file \cup lost \cup TailRec
      /\ file \cup lost \cup Open \subseteq file' \cup lost' \cup Open'
      /\ UniqueIds(file')
      /\ tail'.kind = "torn" => tail'.rec = NoRecord
  BY <1>2, TailFacts
<1>4. Known' = Stable'
  BY <1>3 DEF Stable, Known, Disk, TailRec, Open, TailParses
<1>5. Stable \subseteq Stable' /\ Known' \subseteq Known
  BY <1>2, <1>3, <1>4 DEF Stable, Known, Disk
<1>6. LockInv' /\ LineInv' /\ SnapInv'
  BY <1>2, <1>3 DEF LockInv, LineInv, SnapInv, Holding
<1>7. Unwritten(Main).kind = "branch" /\ Unwritten(Main).parent = None
  BY DEF Unwritten
<1>8. KindInv' /\ WrittenInv' /\ KeyInv'
  BY <1>2, <1>3, <1>5, <1>7
     DEF StoreInv, KindInv, WrittenInv, KeyInv, UniqueIds, NodesOf, BranchesOf
<1>9. MemInv'
  BY <1>2 DEF MemInv
<1>10. ParentInv'
  <2>1. Ids(Stable) \subseteq Ids(Stable')
    BY <1>5, IdsGrow
  <2>2. \A r \in Known' : r.parent \in Ids(Stable')
    BY <1>5, <2>1 DEF StoreInv, ParentInv
  <2>3. None \in Ids(Known')
    BY NoneIsAnId
  <2> QED
    BY <1>2, <1>7, <2>2, <2>3 DEF ParentInv, Ids, NodesOf
<1> QED
  BY <1>1, <1>6, <1>8, <1>9, <1>10 DEF StoreInv

-----------------------------------------------------------------------------
(* The invariant, and what follows from it.                                *)

LEMMA StoreInit == ASSUME Init PROVE StoreInv
<1>1. /\ nodes = {} /\ branches = {Unwritten(Main)}
      /\ snap.nodes = {} /\ snap.branches = {} /\ chat.last = None
      /\ \A t \in Thread : call[t].pc = "idle"
      /\ file = {} /\ acked = {} /\ lost = {} /\ dropped = {} /\ tail.kind = "clean"
  BY DEF Init, Clean
<1>2. Known = {} /\ Loads = {}
  BY <1>1 DEF Known, Disk, TailRec, TailParses, Loads
<1>3. Unwritten(Main).kind = "branch" /\ Unwritten(Main).parent = None
  BY DEF Unwritten
<1>4. LockInv /\ KindInv /\ LineInv /\ WrittenInv /\ KeyInv /\ SnapInv
  BY <1>1, <1>3 DEF LockInv, KindInv, LineInv, WrittenInv, KeyInv, SnapInv, UniqueIds, NodesOf,
                    BranchesOf, Holding
<1>5. MemInv
  BY <1>1, <1>2 DEF MemInv, NodesOf
<1>6. ParentInv
  BY <1>1, <1>2, <1>3, NoneIsAnId DEF ParentInv
<1> QED
  BY <1>4, <1>5, <1>6, TypeInit DEF StoreInv

LEMMA StoreStep ==
  ASSUME StoreInv, [Next]_vars
  PROVE  StoreInv'
<1>1. CASE UNCHANGED vars
  <2>1. TypeOK'
    BY <1>1, TypeStep DEF StoreInv
  <2>2. UNCHANGED <<file, tail, lost, dropped, acked, writer, snap, nodes, loaded, call, branches, chat>>
    BY <1>1 DEF vars, memoryVars, indexVars, diskVars, boundVars, histVars
  <2> QED
    BY <2>1, <2>2, SameNodes DEF StoreInv, KindInv, ParentInv, BranchesOf
<1>2. CASE Next
  BY <1>2, AppendStarts, BranchSteps, ForkCheckStep, ResumeStep, WriteSteps, SyncStep, ReturnSteps,
     CollectStep, RenameStep, CompactEnds, CrashStep
     DEF Next, Append, Fork, Compact, Thread
<1> QED
  BY <1>1, <1>2

(* A record whose call returned is given by every later load, or a spoilt  *)
(* line, a repeated id or a compaction accounts for its absence.           *)
THEOREM RecordsSurvive == Spec => []AckedSurvives
<1>1. StoreInv => AckedSurvives
  <2> SUFFICES ASSUME StoreInv PROVE AckedSurvives
    OBVIOUS
  <2>1. Loads \cup Hidden \cup dropped = Known
    BY DiskFacts DEF StoreInv, Known
  <2> QED
    BY <2>1, StableIsKnown DEF StoreInv, WrittenInv, AckedSurvives
<1> QED
  BY <1>1, StoreInit, StoreStep, PTL DEF Spec

(* Whatever a load gives, its parent was written before it.                *)
THEOREM ParentsKnown == Spec => []NoOrphans
<1>1. StoreInv => NoOrphans
  <2> SUFFICES ASSUME StoreInv, NEW r \in Loads, r.parent # None
               PROVE  \E p \in Loads \cup Hidden \cup dropped : p.kind = "node" /\ p.id = r.parent
    BY DEF NoOrphans
  <2>1. Loads \cup Hidden \cup dropped = Known
    BY DiskFacts DEF StoreInv, Known
  <2>2. r.parent \in Ids(Stable)
    BY <2>1 DEF StoreInv, ParentInv
  <2> QED
    BY <2>1, <2>2, StableIsKnown DEF Ids, NodesOf
<1> QED
  BY <1>1, StoreInit, StoreStep, PTL DEF Spec

(* While nobody writes, the index of a process that loaded its file and    *)
(* the file agree, but for repeated ids, spoilt lines, and a last line     *)
(* whose append wrote all of it but the newline and threw.                 *)
THEOREM IndexAgrees == Spec => []MemoryMatchesFile
<1>1. StoreInv => MemoryMatchesFile
  <2> SUFFICES ASSUME StoreInv, loaded, writer = {} PROVE MemoryMatchesFile
    BY DEF MemoryMatchesFile
  <2>1. \A t \in Thread : call[t].pc \notin Holding
    BY NobodyHolds
  <2>2. nodes \subseteq Disk
    BY <2>1 DEF StoreInv, MemInv, Holding
  <2>3. nodes \ Loads \subseteq Hidden
    BY <2>2, DiskFacts DEF StoreInv
  <2>4. ASSUME NEW r \in NodesOf(Loads) \ nodes
        PROVE  (\E n \in nodes : n.id = r.id /\ n \in Hidden) \/ tail = Line("short", r)
    <3> SUFFICES ASSUME ~Short(r) PROVE \E n \in nodes : n.id = r.id /\ n \in Hidden
      BY DEF Short
    <3>1. PICK n \in nodes : n.id = r.id
      BY <2>1 DEF StoreInv, MemInv, OnItsWay, Holding, Replaced
    <3>2. n \notin Loads
      BY <3>1, LoadsUnique DEF StoreInv, KindInv, UniqueIds, NodesOf
    <3> QED
      BY <2>3, <3>1, <3>2
  <2> QED
    BY <2>3, <2>4 DEF MemoryMatchesFile
<1> QED
  BY <1>1, StoreInit, StoreStep, PTL DEF Spec
=============================================================================

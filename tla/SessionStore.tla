---------------------------- MODULE SessionStore ----------------------------
(***************************************************************************)
(* SessionManager (src/core/session_manager.cpp): a tree of session nodes  *)
(* in an append-only JSONL file, with an index of it in memory.            *)
(*                                                                         *)
(* The chat session appends the nodes of its turns; command threads append *)
(* to the current branch, fork, switch, rename and compact, all against    *)
(* one manager.  A write may fall short, and the process may stop at any   *)
(* point; what was written and not yet synced then survives in part, in    *)
(* full or not at all.  fsync is taken to keep what it synced.             *)
(***************************************************************************)
EXTENDS Naturals

CONSTANTS
  Chat,         \* the thread of the ChatSession
  Command,      \* the threads of the commands and tools
  MaxRecords,   \* bound on the records made
  MaxCrashes,   \* bound on the crashes
  MaxFailures   \* bound on the failed writes

ASSUME ChatAssumption == Chat \notin Command
ASSUME BoundsAssumption ==
  MaxRecords \in Nat /\ MaxCrashes \in Nat /\ MaxFailures \in Nat

Thread == {Chat} \cup Command

\* Node and branch ids are the counters they are printed from.
None == 0   \* the empty parent_id
Main == 0   \* branch "main"

\* SessionNode and BranchMeta; the parent of a branch is forked_from_node.
\* uid tells a record from another with its id (the content does).
Record ==
  [kind : {"node", "branch"}, uid : Nat, id : Nat, parent : Nat, branch : Nat]

\* A record of memory that no call made: "main", placeholders.
Unwritten(b) == [kind |-> "branch", uid |-> 0, id |-> b, parent |-> None, branch |-> b]
NoRecord == Unwritten(Main)

VARIABLES
  nodes,          \* nodes_, as a set of records
  children,       \* children_, as pairs <<parent, child>>
  branches,       \* branches_, as a set of records
  current,        \* current_branch_
  nodeCounter,    \* node_counter_
  branchCounter,  \* branch_counter_
  writer,         \* who holds write_mutex_
  call,           \* where each thread is, and the record it writes
  snap,           \* what a running compact() collected (loaded: history)
  chat,           \* last_node_id_ and current_branch_id_ of the ChatSession
  file,           \* the synced lines: the records a load gives
  tail,           \* the last line, when it is not one of those
  made,           \* records made so far
  crashes, failures,
  acked,          \* history: the records whose call returned
  lost,           \* history: the records of spoilt lines, or hidden by another
  dropped,        \* history: the records compact() left out
  loaded          \* history: the index holds what the file held at open()

indexVars == <<nodes, children, branches, current>>
memoryVars == <<indexVars, nodeCounter, branchCounter, writer, call, snap, chat>>
diskVars == <<file, tail>>
boundVars == <<made, crashes, failures>>
histVars == <<acked, lost, dropped, loaded>>
vars == <<memoryVars, diskVars, boundVars, histVars>>

NodesOf(S) == {r \in S : r.kind = "node"}
BranchesOf(S) == {r \in S : r.kind = "branch"}
SameKey(r, s) == r.kind = s.kind /\ r.id = s.id

-----------------------------------------------------------------------------
(* What a load of the file gives: of the nodes with one id the first, of   *)
(* the branches with one id the last; a line that does not parse is        *)
(* skipped, a last line that does is taken, with its newline or without.   *)

Shadowing(S, r) == {s \in S : SameKey(s, r)}

Land(S, r) ==
  IF r.kind = "branch" THEN (S \ Shadowing(S, r)) \cup {r}
  ELSE IF Shadowing(S, r) = {} THEN S \cup {r} ELSE S

\* Of r and the records of S, those that no load gives once r has landed.
Shadowed(S, r) ==
  IF r.kind = "branch" THEN Shadowing(S, r) \ {r}
  ELSE IF Shadowing(S, r) = {} THEN {} ELSE {r} \ S

Clean == [kind |-> "clean", rec |-> NoRecord]
Torn == [kind |-> "torn", rec |-> NoRecord]
\* "whole": not synced; "open": without its newline, since before the process; "short": the
\* same, not synced, of a call that threw; "glued": not synced, behind such a line (rec) or a torn one.
Line(kind, r) == [kind |-> kind, rec |-> r]

TailParses == tail.kind \in {"whole", "open", "short"}
\* The record that a last line without its newline still gives.
Unended == IF tail.kind \in {"open", "short"} THEN {tail.rec} ELSE {}
Loads == IF TailParses THEN Land(file, tail.rec) ELSE file
Hidden == lost \cup (IF TailParses THEN Shadowed(file, tail.rec) ELSE {})

Pairs(S) == {<<n.parent, n.id>> : n \in {m \in S : m.parent # None}}

\* Mutant of Placeholders: they are of a kind of their own.
PlaceholdersApart(S, known) ==
  {[Unwritten(b) EXCEPT !.kind = "placeholder"] :
     b \in {n.branch : n \in S} \ {m.id : m \in known}}

\* For the branches of S that no line describes.
Placeholders(S, known) ==
  {Unwritten(b) : b \in {n.branch : n \in S} \ {m.id : m \in known}}

\* load_jsonl: the records of the file replace those of the index.
LoadIndex ==
  LET seen == NodesOf(Loads)
      metas == BranchesOf(Loads)
      kept == {b \in branches : Shadowing(metas, b) = {}}
  IN /\ nodes' = {n \in nodes : Shadowing(seen, n) = {}} \cup seen
     /\ children' = children \cup Pairs(seen)
     /\ branches' = kept \cup metas \cup Placeholders(seen, kept \cup metas)

Init ==
  /\ nodes = {} /\ children = {}
  /\ branches = {Unwritten(Main)} /\ current = Main
  /\ nodeCounter = 0 /\ branchCounter = 0
  /\ writer = {}
  /\ call = [t \in Thread |-> [pc |-> "idle", rec |-> NoRecord]]
  /\ snap = [branch |-> Main, nodes |-> {}, branches |-> {}, loaded |-> TRUE]
  /\ chat = [last |-> None, branch |-> Main]
  /\ file = {} /\ tail = Clean
  /\ made = 0 /\ crashes = 0 /\ failures = 0
  /\ acked = {} /\ lost = {} /\ dropped = {} /\ loaded = TRUE

-----------------------------------------------------------------------------
At(t, pc) == call[t].pc = pc
Goes(t, pc, r) == call' = [call EXCEPT ![t] = [pc |-> pc, rec |-> r]]

\* Mutant of MutexFree: nobody waits for write_mutex_.
NobodyWaits == TRUE

MutexFree == writer = {}

Node(id, parent, branch) ==
  [kind |-> "node", uid |-> made + 1, id |-> id, parent |-> parent, branch |-> branch]
Branch(id, parent) ==
  [kind |-> "branch", uid |-> made + 1, id |-> id, parent |-> parent, branch |-> id]

\* ::write of a line at the end of the file: behind a line without newline
\* it becomes a part of it, and neither parses.
WriteLine(r) ==
  IF tail.kind = "clean"
  THEN /\ tail' = Line("whole", r)
       /\ UNCHANGED lost
  ELSE /\ tail' = Line("glued", tail.rec)
       /\ lost' = lost \cup {r} \cup Unended

-----------------------------------------------------------------------------
(* Appending a node.                                                       *)

\* ChatSession::persist_turn, for the user's node and then for the assistant's.
AppendTurn ==
  /\ At(Chat, "idle")
  /\ Goes(Chat, "number", Node(None, chat.last, chat.branch))
  /\ UNCHANGED <<indexVars, nodeCounter, branchCounter, writer, snap, chat,
                 diskVars, boundVars, histVars>>

Leaves(b) == {n.id : n \in {m \in nodes : m.branch = b /\ \A c \in children : c[1] # m.id}}

\* The leaf it finds last in the hash map, else the fork point.
Parents(b) ==
  IF Leaves(b) # {} THEN Leaves(b)
  ELSE IF \E m \in branches : m.id = b
       THEN {m.parent : m \in {x \in branches : x.id = b}} ELSE {None}

AppendToBranch(t) ==
  /\ At(t, "idle")
  /\ \E p \in Parents(current) : Goes(t, "number", Node(None, p, current))
  /\ UNCHANGED <<indexVars, nodeCounter, branchCounter, writer, snap, chat,
                 diskVars, boundVars, histVars>>

\* next_node_id
Number(t) ==
  /\ At(t, "number") /\ made < MaxRecords
  /\ nodeCounter' = nodeCounter + 1
  /\ made' = made + 1
  /\ Goes(t, "write", Node(nodeCounter + 1, call[t].rec.parent, call[t].rec.branch))
  /\ UNCHANGED <<indexVars, branchCounter, writer, snap, chat, diskVars,
                 crashes, failures, histVars>>

Write(t) ==
  /\ At(t, "write") /\ MutexFree
  /\ writer' = {t}
  /\ WriteLine(call[t].rec)
  /\ Goes(t, "sync", call[t].rec)
  /\ UNCHANGED <<indexVars, nodeCounter, branchCounter, snap, chat, file, boundVars,
                 acked, dropped, loaded>>

\* Mutant of Thrown: the length ::write returns is not looked at.
NotThrown(t) == Goes(t, "index", call[t].rec) /\ writer' = {t}

Thrown(t) == Goes(t, "idle", NoRecord) /\ writer' = {}

\* ::open fails, or ::write falls short: the call throws.  What was written of the line
\* stays: nothing, a part, or all but the newline, which a load takes for the line.
FailsToWrite(t, r) ==
  /\ failures < MaxFailures
  /\ failures' = failures + 1
  /\ \/ UNCHANGED <<tail, lost>>
     \/ tail.kind = "clean" /\ tail' = Line("short", r) /\ UNCHANGED lost
     \/ tail' = Torn /\ lost' = lost \cup Unended
  /\ Thrown(t)

WriteFails(t) ==
  /\ At(t, "write") /\ MutexFree
  /\ FailsToWrite(t, call[t].rec)
  /\ UNCHANGED <<indexVars, nodeCounter, branchCounter, snap, chat, file, made, crashes,
                 acked, dropped, loaded>>

\* fsync: the last line is on the disk.
Sync(t) ==
  /\ At(t, "sync")
  /\ tail' = Clean
  /\ IF tail.kind = "whole"
     THEN /\ file' = Land(file, tail.rec)
          /\ lost' = lost \cup Shadowed(file, tail.rec)
     ELSE UNCHANGED <<file, lost>>
  /\ Goes(t, "index", call[t].rec)
  /\ UNCHANGED <<indexVars, nodeCounter, branchCounter, writer, snap, chat, boundVars,
                 acked, dropped, loaded>>

PutPair(n) == IF n.parent = None THEN children ELSE children \cup {<<n.parent, n.id>>}

\* The index gets a node, the mutex is released, the call returns.
Index(t) ==
  /\ At(t, "index") /\ call[t].rec.kind = "node"
  /\ LET n == call[t].rec
     IN  /\ nodes' = (nodes \ Shadowing(nodes, n)) \cup {n}
         /\ children' = PutPair(n)
         /\ chat' = IF t = Chat THEN [chat EXCEPT !.last = n.id] ELSE chat
         /\ acked' = acked \cup {n}
  /\ writer' = {}
  /\ Goes(t, "idle", NoRecord)
  /\ UNCHANGED <<branches, current, nodeCounter, branchCounter, snap, diskVars, boundVars,
                 lost, dropped, loaded>>

\* flush_append_internal returns: fork() has put the branch in the index before.
ForkReturns(t) ==
  /\ At(t, "index") /\ call[t].rec.kind = "branch"
  /\ acked' = acked \cup {call[t].rec}
  /\ writer' = {}
  /\ Goes(t, "idle", NoRecord)
  /\ UNCHANGED <<indexVars, nodeCounter, branchCounter, snap, chat, diskVars, boundVars,
                 lost, dropped, loaded>>

\* rename_session: a root node on the current branch, numbered under the mutex.
Rename(t) ==
  /\ At(t, "idle") /\ MutexFree /\ made < MaxRecords
  /\ LET n == Node(nodeCounter + 1, None, current)
     IN  \/ /\ WriteLine(n)
            /\ Goes(t, "sync", n)
            /\ writer' = {t}
            /\ UNCHANGED failures
         \/ FailsToWrite(t, n)
  /\ nodeCounter' = nodeCounter + 1
  /\ made' = made + 1
  /\ UNCHANGED <<indexVars, branchCounter, snap, chat, file, crashes, acked, dropped, loaded>>

-----------------------------------------------------------------------------
(* Branches.                                                               *)

\* fork: an empty index is loaded first; an unknown node throws.
ForkCheck(t) ==
  /\ At(t, "idle")
  /\ IF nodes = {}
     THEN LoadIndex /\ loaded' = TRUE
     ELSE UNCHANGED <<nodes, children, branches, loaded>>
  /\ \/ \E n \in nodes' : Goes(t, "fork", Branch(None, n.id))
     \/ UNCHANGED call
  /\ UNCHANGED <<current, nodeCounter, branchCounter, writer, snap, chat, diskVars,
                 boundVars, acked, lost, dropped>>

\* next_branch_id, and the branch in the index and current, before it is written.
ForkIndex(t) ==
  /\ At(t, "fork") /\ made < MaxRecords
  /\ LET b == Branch(branchCounter + 1, call[t].rec.parent)
     IN  /\ branches' = (branches \ Shadowing(branches, b)) \cup {b}
         /\ current' = b.id
         /\ Goes(t, "write", b)
  /\ branchCounter' = branchCounter + 1
  /\ made' = made + 1
  /\ UNCHANGED <<nodes, children, nodeCounter, writer, snap, chat, diskVars,
                 crashes, failures, histVars>>

SwitchBranch(t) ==
  /\ At(t, "idle")
  /\ \E b \in branches : current' = b.id
  /\ UNCHANGED <<nodes, children, branches, nodeCounter, branchCounter, writer, call, snap,
                 chat, diskVars, boundVars, histVars>>

-----------------------------------------------------------------------------
(* compact(): under write_mutex_ it collects the nodes of the active       *)
(* branch, writes them to another file, renames it over the old one and    *)
(* cuts the index down to the same nodes.                                  *)

CompactCollect(t) ==
  /\ At(t, "idle") /\ MutexFree
  /\ writer' = {t}
  /\ snap' = [branch |-> current, nodes |-> {n \in nodes : n.branch = current},
              branches |-> {b \in branches : b.id = current}, loaded |-> loaded]
  /\ Goes(t, "rename", NoRecord)
  /\ UNCHANGED <<indexVars, nodeCounter, branchCounter, chat, diskVars, boundVars, histVars>>

\* What a compaction may leave out: branches, the nodes of other branches and of a file
\* it was not told of, nodes that another one with their id replaced in the index, and a
\* line whose call threw.
MayDrop(r) ==
  \/ r.kind = "branch" \/ r.branch # snap.branch \/ ~snap.loaded
  \/ tail = Line("short", r)
  \/ \E n \in nodes : n.id = r.id /\ n # r

CompactRename(t) ==
  /\ At(t, "rename")
  /\ file' = snap.nodes \cup snap.branches
  /\ tail' = Clean
  /\ dropped' = dropped \cup {r \in (Loads \cup Hidden) \ file' : MayDrop(r)}
  /\ lost' = lost \ file'
  /\ loaded' = TRUE
  /\ Goes(t, "reindex", NoRecord)
  /\ UNCHANGED <<indexVars, nodeCounter, branchCounter, writer, snap, chat, boundVars, acked>>

\* The other file is not written, or not renamed: the call throws.
CompactFails(t) ==
  /\ At(t, "rename") /\ failures < MaxFailures
  /\ failures' = failures + 1
  /\ Thrown(t)
  /\ UNCHANGED <<indexVars, nodeCounter, branchCounter, snap, chat, diskVars, made, crashes,
                 histVars>>

\* Mutant of Remaining: the index is not cut down.
RemainingAll == nodes

Remaining == snap.nodes

CompactReindex(t) ==
  /\ At(t, "reindex")
  /\ nodes' = Remaining
  /\ children' = Pairs(Remaining)
  /\ branches' = {b \in branches : b.id = snap.branch}
  /\ writer' = {}
  /\ Goes(t, "idle", NoRecord)
  /\ UNCHANGED <<current, nodeCounter, branchCounter, snap, chat, diskVars, boundVars, histVars>>

-----------------------------------------------------------------------------
(* The process.                                                            *)

\* hydrate_from_resume, before anything else: load, and go on from the leaf the token
\* names, the node of a call that returned; the load may not give it any more.
Resume ==
  /\ nodeCounter = 0 /\ branchCounter = 0 /\ nodes = {}
  /\ \A t \in Thread : At(t, "idle")
  /\ LoadIndex
  /\ loaded' = TRUE
  /\ \E leaf \in {n.id : n \in NodesOf(acked)} :
       \/ \E n \in nodes' : n.id = leaf /\ chat' = [last |-> leaf, branch |-> n.branch]
       \/ /\ \A n \in nodes' : n.id # leaf
          /\ chat' = [last |-> leaf, branch |-> Main]
  /\ UNCHANGED <<current, nodeCounter, branchCounter, writer, call, snap, diskVars, boundVars,
                 acked, lost, dropped>>

\* What of a line that was written and not yet synced is there after the restart: the
\* line, nothing, a part, or all but its newline; a line it was glued to is whole again
\* when nothing of it is.
TailSurvives ==
  \/ /\ tail.kind = "whole"
     /\ tail' = Clean
     /\ file' = Land(file, tail.rec)
     /\ lost' = lost \cup Shadowed(file, tail.rec)
  \/ /\ tail.kind = "whole"
     /\ tail' \in {Clean, Torn, Line("open", tail.rec)}
     /\ UNCHANGED <<file, lost>>
  \/ /\ tail.kind = "short"
     /\ tail' \in {Clean, Torn, Line("open", tail.rec)}
     /\ UNCHANGED <<file, lost>>
  \/ /\ tail.kind = "glued"
     /\ tail' \in {Clean, Torn}
     /\ UNCHANGED <<file, lost>>
  \/ /\ tail.kind = "glued" /\ tail.rec # NoRecord
     /\ tail' = Line("open", tail.rec)
     /\ lost' = lost \ {tail.rec}
     /\ UNCHANGED file
  \/ /\ tail.kind \in {"clean", "torn", "open"}
     /\ UNCHANGED <<diskVars, lost>>

\* A new process opens the session: its index is empty and its counters are 0.
Crash ==
  /\ crashes < MaxCrashes
  /\ crashes' = crashes + 1
  /\ TailSurvives
  /\ nodes' = {} /\ children' = {}
  /\ branches' = {Unwritten(Main)} /\ current' = Main
  /\ nodeCounter' = 0 /\ branchCounter' = 0
  /\ writer' = {}
  /\ call' = [t \in Thread |-> [pc |-> "idle", rec |-> NoRecord]]
  /\ snap' = [branch |-> Main, nodes |-> {}, branches |-> {}, loaded |-> TRUE]
  /\ chat' = [last |-> None, branch |-> Main]
  /\ loaded' = FALSE
  /\ UNCHANGED <<made, failures, acked, dropped>>

-----------------------------------------------------------------------------
Append(t) == Number(t) \/ Write(t) \/ WriteFails(t) \/ Sync(t) \/ Index(t)
Fork(t) == ForkCheck(t) \/ ForkIndex(t) \/ ForkReturns(t)
Compact(t) == CompactCollect(t) \/ CompactRename(t) \/ CompactFails(t) \/ CompactReindex(t)

Next ==
  \/ AppendTurn
  \/ \E t \in Thread : Append(t) \/ ForkReturns(t)
  \/ \E t \in Command :
       AppendToBranch(t) \/ Rename(t) \/ Fork(t) \/ SwitchBranch(t) \/ Compact(t)
  \/ Resume
  \/ Crash

Spec == Init /\ [][Next]_vars

-----------------------------------------------------------------------------
(* Properties.                                                             *)

TypeOK ==
  /\ nodes \subseteq Record /\ branches \subseteq Record
  /\ children \subseteq Nat \X Nat
  /\ current \in Nat /\ nodeCounter \in Nat /\ branchCounter \in Nat
  /\ writer \subseteq Thread
  /\ call \in [Thread -> [pc : {"idle", "number", "write", "sync", "index", "fork",
                                "rename", "reindex"}, rec : Record]]
  /\ snap \in [branch : Nat, nodes : SUBSET Record, branches : SUBSET Record, loaded : BOOLEAN]
  /\ chat \in [last : Nat, branch : Nat]
  /\ file \subseteq Record
  /\ tail \in [kind : {"clean", "torn", "glued", "whole", "open", "short"}, rec : Record]
  /\ made \in Nat /\ crashes \in Nat /\ failures \in Nat
  /\ acked \subseteq Record /\ lost \subseteq Record /\ dropped \subseteq Record
  /\ loaded \in BOOLEAN

(* A record whose call returned is given by every later load, however the  *)
(* process ends, unless its line was spoilt or hidden by another or it was *)
(* not on the branch a compaction kept.                                    *)
AckedSurvives == acked \subseteq Loads \cup Hidden \cup dropped

(* A load never meets a node or a branch whose parent is nowhere: the      *)
(* parent reaches the disk before a child is told of it.                   *)
NoOrphans ==
  \A r \in Loads : r.parent # None =>
    \E p \in Loads \cup Hidden \cup dropped : p.kind = "node" /\ p.id = r.parent

(* While nobody writes, the index of a process that loaded its file holds  *)
(* the nodes a load would give it: a restart changes nothing.  (A node     *)
(* that a second one with its id hides in the file, or one whose line was  *)
(* spoilt, is in memory until then.  One node may be in the file and not   *)
(* in memory: that of the last line, whose append wrote all of it but the  *)
(* newline and then threw.)                                                *)
MemoryMatchesFile ==
  loaded /\ writer = {} =>
    /\ nodes \ Loads \subseteq Hidden
    /\ \A r \in NodesOf(Loads) \ nodes :
         \/ \E n \in nodes : n.id = r.id /\ n \in Hidden
         \/ tail = Line("short", r)

(* next_node_id: the ids of a session are unique, across processes.        *)
IdsAreUnique ==
  \A r, s \in NodesOf(Loads \cup Hidden) : r.id = s.id => r = s

(* compact() keeps the active branch (but for a line whose append threw).  *)
CompactKeepsBranch ==
  [][\A t \in Command : At(t, "rename") /\ call'[t].pc = "reindex" =>
       {n \in NodesOf(Loads) : n.branch = snap.branch /\ tail # Line("short", n)}
         \subseteq file']_vars
=============================================================================

---------------------------- MODULE EvolutionProofs ----------------------------
(***************************************************************************)
(* What holds of every agent, however it is set up: its versions survive,  *)
(* and its tools run behind the coordinator's checks.  The first part is   *)
(* about the registry of genomes alone: what no crash, no failure and no   *)
(* other caller takes away from it, for any number of callers and          *)
(* processes.                                                              *)
(***************************************************************************)
EXTENDS EvolutionSession, SequenceLemmas, FiniteSetTheorems

\* No version up to v was chosen by two processes.
Clean(v) == \A u \in contested : v < u

Stored == {c.version : c \in committed}

Holding == {"scan", "mkdir", "write", "rename", "abort"}

\* One caller of a process is between the lock and the return.
MutexInv ==
  \A w \in Writer : commit[w].pc \in Holding => holder[home[w]] = w

\* What is about to be committed, and whose child it is.
GenomeInv ==
  \A w \in Writer : commit[w].pc \in {"called"} \cup Holding =>
    /\ commit[w].genome \in Genome
    /\ commit[w].pc \in {"called", "scan", "mkdir"} => commit[w].file = Signature
    /\ contested = {} => commit[w].genome.parent \in Stored \cup {0}
    /\ commit[w].pc \in Holding \ {"scan"} => commit[w].version \in Version

\* A version in the making is nobody else's and is as far as its caller is.
Making(w) ==
  LET c == commit[w] IN
  /\ c.version \in Version \ Stored
  /\ c.genome.parent < c.version
  /\ c.genome.parent \in Stored \cup {0}
  /\ c.pc \in {"write", "rename"} => c.version \in dirs
  /\ c.pc = "rename" => tmp[c.version][c.file] = c.genome
  /\ c.pc \in {"write", "rename"} /\ c.file = Yaml => files[c.version][Signature] = c.genome

MakingInv ==
  \A w \in Writer : InFlight(w) /\ Clean(commit[w].version) => Making(w)

AloneInv ==
  \A u, w \in Writer :
    InFlight(u) /\ InFlight(w) /\ u # w /\ commit[u].version = commit[w].version =>
      commit[w].version \in contested

\* What was reported is there.
Kept(c) ==
  /\ c.version \in dirs
  /\ \A f \in File : files[c.version][f] = c.genome
  /\ tmp[c.version][Yaml] = None
  /\ c.genome.parent < c.version
  /\ c.genome.parent \in Stored \cup {0}
  /\ \A d \in committed : d.version = c.version => d = c

StoredInv == \A c \in committed : Clean(c.version) => Kept(c)

YamlInv == \A v \in Version : Clean(v) /\ files[v][Yaml] # None => v \in Stored

RegistryInv ==
  /\ RegistryTypeOK /\ MutexInv /\ GenomeInv /\ MakingInv /\ AloneInv /\ StoredInv /\ YamlInv

\* What one step of a program can do to the registry.
RegistryStep ==
  \/ \E w \in Writer, g \in Genome :
       /\ CommitCall(w, g)
       /\ g.parent \in Version /\ Loads(g.parent, files[g.parent][Yaml])
  \/ \E w \in Writer : Commit(w)
  \/ \E w \in Writer : /\ CommitReturns(w)
                       /\ UNCHANGED <<home, crashed, diskVars, holder, committed, contested>>
  \/ \E p \in Process : Crash(p)

-----------------------------------------------------------------------------
(* The order of versions.                                                  *)

LEMMA NextIsNew ==
  ASSUME dirs \subseteq Version
  PROVE  \A v \in dirs : v < NextVersion
<1> DEFINE S == dirs \cup {0}
           T == {MaxVersion - v : v \in S}
<1>1. S \subseteq 0..MaxVersion /\ MaxVersion \in Nat
  BY RegistryAssumption DEF Version
<1>2. T \subseteq Nat /\ T # {}
  BY <1>1
<1>3. PICK x \in T : \A y \in T : x <= y
  BY <1>2, LeastExists, Zenon
<1>4. PICK u \in S : x = MaxVersion - u
  BY <1>3
<1>5. \A v \in S : MaxVersion - u <= MaxVersion - v
  BY <1>3, <1>4
<1>6. \A v \in S : v <= u
  BY <1>5, <1>1
<1>7. \E v \in S : \A w \in dirs : w <= v
  BY <1>6
<1> DEFINE m == CHOOSE v \in S : \A w \in dirs : w <= v
<1>8. m \in S /\ \A w \in dirs : w <= m
  BY <1>7
<1>9. NextVersion = 1 + m
  BY DEF NextVersion
<1> QED
  BY <1>8, <1>9, <1>1

-----------------------------------------------------------------------------
(* Steps that change nothing on the disk.                                  *)

Pcs == {"idle", "called", "scan", "mkdir", "write", "rename", "abort", "failed", "done"}
Place == [pc : Pcs, file : File, genome : Genome \cup {None}, version : 0..MaxVersion]

\* A caller goes on to another place and nothing else of it changes.
LEMMA GoesMoves ==
  ASSUME RegistryTypeOK, NEW w \in Writer, NEW pc \in Pcs, Goes(w, pc)
  PROVE  /\ commit' \in [Writer -> Place]
         /\ commit'[w].pc = pc /\ commit'[w].file = commit[w].file
         /\ commit'[w].genome = commit[w].genome /\ commit'[w].version = commit[w].version
         /\ \A u \in Writer \ {w} : commit'[u] = commit[u]
<1>1. commit \in [Writer -> Place]
  BY DEF RegistryTypeOK, Place, Pcs
<1>2. commit' = [commit EXCEPT ![w].pc = pc]
  BY DEF Goes
<1>3. commit[w] \in Place
  BY <1>1
<1>4. commit'[w] = [commit[w] EXCEPT !.pc = pc] /\ commit'[w] \in Place
  BY <1>1, <1>2, <1>3 DEF Place
<1>5. \A u \in Writer \ {w} : commit'[u] = commit[u]
  BY <1>1, <1>2
<1>6. commit' \in [Writer -> Place]
  BY <1>1, <1>2, <1>4
<1> QED
  BY <1>3, <1>4, <1>5, <1>6 DEF Place

\* A caller's mutex is released or stays.
LEMMA UnlockKeeps ==
  ASSUME RegistryTypeOK, MutexInv, NEW w \in Writer, Unlock(w), home' = home,
         commit'[w].pc \notin Holding, \A u \in Writer \ {w} : commit'[u] = commit[u]
  PROVE  MutexInv' /\ holder' \in [Process -> Writer \cup {None}]
<1>1. \A u \in Writer : home[u] \in Process
  BY DEF RegistryTypeOK
<1>2. holder' \in [Process -> Writer \cup {None}]
  BY <1>1 DEF RegistryTypeOK, Unlock
<1>3. ASSUME NEW u \in Writer, commit'[u].pc \in Holding
      PROVE  holder'[home'[u]] = u
  <2>1. u # w /\ holder[home[u]] = u
    BY <1>3 DEF MutexInv
  <2> QED
    BY <2>1, <1>1 DEF Unlock, RegistryTypeOK
<1> QED
  BY <1>2, <1>3 DEF MutexInv

\* Callers that were on their way go on or turn back, and none sets out.
Calm ==
  \A w \in Writer : InFlight(w)' =>
    /\ InFlight(w)
    /\ commit'[w].version = commit[w].version
    /\ commit'[w].genome = commit[w].genome
    /\ commit'[w].file = commit[w].file
    /\ commit'[w].pc \in {commit[w].pc, "abort"}

LEMMA CalmKeeps ==
  ASSUME RegistryInv, Calm, UNCHANGED <<diskVars, committed, contested>>
  PROVE  MakingInv' /\ AloneInv' /\ StoredInv' /\ YamlInv'
<1>1. dirs' = dirs /\ files' = files /\ tmp' = tmp /\ committed' = committed
      /\ contested' = contested
  BY DEF diskVars
<1>2. Stored' = Stored /\ \A v : Clean(v)' <=> Clean(v)
  BY <1>1 DEF Stored, Clean
<1>3. ASSUME NEW w \in Writer, InFlight(w)', Clean(commit[w].version)'
      PROVE  Making(w)'
  <2>1. Making(w)
    BY <1>1, <1>3 DEF RegistryInv, MakingInv, Calm, Clean
  <2> QED
    BY <2>1, <1>1, <1>2, <1>3 DEF Making, Calm
<1>4. AloneInv'
  BY <1>1 DEF RegistryInv, AloneInv, Calm
<1>5. StoredInv' /\ YamlInv'
  BY <1>1, <1>2 DEF RegistryInv, StoredInv, Kept, YamlInv
<1> QED
  BY <1>2, <1>3, <1>4, <1>5 DEF MakingInv

\* A caller on its way is at one of four places.
LEMMA FlightPlaces ==
  ASSUME NEW w \in Writer
  PROVE  /\ InFlight(w) => commit[w].pc \in {"mkdir", "write", "rename", "abort"}
         /\ InFlight(w) => commit[w].pc \in Holding
BY DEF InFlight, Holding

LEMMA CallStep ==
  ASSUME RegistryInv, NEW w \in Writer, NEW g \in Genome, CommitCall(w, g),
         g.parent \in Version, Loads(g.parent, files[g.parent][Yaml])
  PROVE  RegistryInv'
<1>1. UNCHANGED <<home, crashed, diskVars, holder, committed, contested>>
  BY DEF CommitCall
<1>3. commit' = [commit EXCEPT ![w] = [pc |-> "called", file |-> Signature, genome |-> g, version |-> 0]]
  BY DEF CommitCall
<1>4. commit \in [Writer -> Place]
  BY DEF RegistryInv, RegistryTypeOK, Place, Pcs
<1>5. commit'[w] = [pc |-> "called", file |-> Signature, genome |-> g, version |-> 0]
      /\ \A u \in Writer \ {w} : commit'[u] = commit[u]
  BY <1>3, <1>4
<1>6. commit' \in [Writer -> Place]
  BY <1>3, <1>4, RegistryAssumption DEF Place, Pcs, File
<1>7. RegistryTypeOK'
  BY <1>1, <1>6 DEF RegistryInv, RegistryTypeOK, diskVars, Place, Pcs
<1>8. MutexInv'
  BY <1>1, <1>5 DEF RegistryInv, MutexInv, Holding
<1>9. GenomeInv'
  <2>1. contested = {} => g.parent \in Stored
    BY DEF Loads, RegistryInv, YamlInv, Clean, File
  <2>2. Stored' = Stored /\ contested' = contested
    BY <1>1 DEF Stored
  <2> QED
    BY <1>5, <2>1, <2>2 DEF RegistryInv, GenomeInv, Holding
<1>10. Calm
  BY <1>1, <1>5 DEF Calm, InFlight, Alive
<1> QED
  BY <1>1, <1>7, <1>8, <1>9, <1>10, CalmKeeps DEF RegistryInv

LEMMA LockStep ==
  ASSUME RegistryInv, NEW w \in Writer, CommitLock(w)
  PROVE  RegistryInv'
<1>1. commit[w].pc = "called" /\ holder[home[w]] = None
      /\ holder' = [holder EXCEPT ![home[w]] = w] /\ Goes(w, "scan")
      /\ UNCHANGED <<home, crashed, diskVars, committed, contested>>
  BY DEF CommitLock, At
<1>2. /\ commit' \in [Writer -> Place]
      /\ commit'[w].pc = "scan" /\ commit'[w].file = commit[w].file
      /\ commit'[w].genome = commit[w].genome /\ commit'[w].version = commit[w].version
      /\ \A u \in Writer \ {w} : commit'[u] = commit[u]
  BY <1>1, GoesMoves DEF RegistryInv, Pcs
<1>3. holder' \in [Process -> Writer \cup {None}]
  BY <1>1 DEF RegistryInv, RegistryTypeOK
<1>4. RegistryTypeOK'
  BY <1>1, <1>2, <1>3 DEF RegistryInv, RegistryTypeOK, diskVars, Place, Pcs
<1>5. MutexInv'
  <2>1. \A u \in Writer : home[u] \in Process /\ u # None
    BY RegistryAssumption DEF RegistryInv, RegistryTypeOK
  <2>2. ASSUME NEW u \in Writer \ {w}, commit'[u].pc \in Holding
        PROVE  holder'[home'[u]] = u
    <3>1. holder[home[u]] = u
      BY <1>2, <2>2 DEF RegistryInv, MutexInv
    <3> QED
      BY <1>1, <2>1, <3>1 DEF RegistryInv, RegistryTypeOK
  <2>3. holder'[home'[w]] = w
    BY <1>1, <2>1 DEF RegistryInv, RegistryTypeOK
  <2> QED
    BY <2>2, <2>3 DEF MutexInv
<1>6. GenomeInv'
  <2>1. Stored' = Stored /\ contested' = contested
    BY <1>1 DEF Stored
  <2> QED
    BY <1>1, <1>2, <2>1 DEF RegistryInv, GenomeInv, Holding
<1>7. Calm
  BY <1>1, <1>2 DEF Calm, InFlight, Alive
<1> QED
  BY <1>1, <1>4, <1>5, <1>6, <1>7, CalmKeeps DEF RegistryInv

\* A caller is idle again, or one that was done.
LEMMA ReturnStep ==
  ASSUME RegistryInv, NEW w \in Writer, CommitReturns(w),
         UNCHANGED <<home, crashed, diskVars, holder, committed, contested>>
  PROVE  RegistryInv'
<1>1. commit \in [Writer -> Place] /\ Idle \in Place
  BY RegistryAssumption DEF RegistryInv, RegistryTypeOK, Place, Pcs, Idle, File
<1>2. commit' \in [Writer -> Place] /\ commit'[w] = Idle
      /\ \A u \in Writer \ {w} : commit'[u] = commit[u]
  BY <1>1 DEF CommitReturns
<1>3. Idle.pc = "idle"
  BY DEF Idle
<1>4. RegistryTypeOK'
  BY <1>2 DEF RegistryInv, RegistryTypeOK, diskVars, Place, Pcs
<1>5. MutexInv' /\ GenomeInv'
  <2>1. Stored' = Stored
    BY DEF Stored
  <2> QED
    BY <1>2, <1>3, <2>1 DEF RegistryInv, MutexInv, GenomeInv, Holding
<1>6. Calm
  BY <1>2, <1>3 DEF Calm, InFlight, Alive
<1> QED
  BY <1>4, <1>5, <1>6, CalmKeeps DEF RegistryInv

LEMMA CrashStep ==
  ASSUME RegistryInv, NEW p \in Process, Crash(p)
  PROVE  RegistryInv'
<1>1. crashed' = crashed \cup {p}
      /\ UNCHANGED <<home, diskVars, holder, commit, committed, contested>>
  BY DEF Crash
<1>2. RegistryTypeOK'
  BY <1>1 DEF RegistryInv, RegistryTypeOK, diskVars
<1>3. MutexInv' /\ GenomeInv'
  BY <1>1 DEF RegistryInv, MutexInv, GenomeInv, Stored
<1>4. Calm
  BY <1>1 DEF Calm, InFlight, Alive
<1> QED
  BY <1>1, <1>2, <1>3, <1>4, CalmKeeps DEF RegistryInv

-----------------------------------------------------------------------------
(* The choice of a version.                                                *)

LEMMA ScanStep ==
  ASSUME RegistryInv, NEW w \in Writer, CommitScan(w)
  PROVE  RegistryInv'
<1>0. PICK v \in Version : v = NextVersion
  BY DEF CommitScan
<1>1. /\ commit[w].pc = "scan" /\ Alive(w)
      /\ commit' = [commit EXCEPT ![w].pc = "mkdir", ![w].version = v]
      /\ UNCHANGED <<home, crashed, diskVars, holder, committed>>
  BY <1>0 DEF CommitScan, At
<1>2. commit \in [Writer -> Place] /\ commit[w] \in Place
  BY DEF RegistryInv, RegistryTypeOK, Place, Pcs
<1>3. commit'[w] = [[commit[w] EXCEPT !.pc = "mkdir"] EXCEPT !.version = v]
      /\ \A u \in Writer \ {w} : commit'[u] = commit[u]
  BY <1>1, <1>2
<1>4. /\ commit'[w].pc = "mkdir" /\ commit'[w].version = v
      /\ commit'[w].file = commit[w].file /\ commit'[w].genome = commit[w].genome
      /\ commit'[w] \in Place
  <2> DEFINE c == [commit[w] EXCEPT !.pc = "mkdir"]
  <2>1. c \in Place /\ c.pc = "mkdir" /\ c.file = commit[w].file /\ c.genome = commit[w].genome
    BY <1>2 DEF Place, Pcs
  <2>2. v \in 0..MaxVersion
    BY RegistryAssumption DEF Version
  <2>3. commit'[w] = [c EXCEPT !.version = v]
    BY <1>3
  <2> HIDE DEF c
  <2> QED
    BY <2>1, <2>2, <2>3 DEF Place
<1>5. commit' \in [Writer -> Place]
  BY <1>1, <1>2, <1>4
<1>6. contested \subseteq contested' /\ contested' \subseteq contested \cup {v}
  BY <1>0 DEF CommitScan
<1>7. v \in contested' \/ /\ \A u \in contested : u < v
                          /\ \A u \in Writer : home[u] # home[w] /\ InFlight(u) => commit[u].version # v
  BY <1>0 DEF CommitScan, RegistryInv, RegistryTypeOK, Version
<1>8. RegistryTypeOK'
  BY <1>1, <1>5, <1>6 DEF RegistryInv, RegistryTypeOK, diskVars, Place, Pcs
<1>9. MutexInv'
  BY <1>1, <1>3, <1>4 DEF RegistryInv, MutexInv, Holding
<1>10. Stored' = Stored /\ dirs' = dirs /\ files' = files /\ tmp' = tmp
  BY <1>1 DEF Stored, diskVars
<1>11. GenomeInv'
  BY <1>1, <1>3, <1>4, <1>6, <1>10 DEF RegistryInv, GenomeInv, Holding
<1>12. \A u \in Version : Clean(u)' => Clean(u)
  BY <1>6 DEF Clean
\* Two callers of one process are not both on their way.
<1>13. \A u \in Writer \ {w} : InFlight(u) => home[u] # home[w]
  BY <1>1, FlightPlaces DEF RegistryInv, MutexInv, Holding
<1>14. AloneInv'
  <2>1. ASSUME NEW u \in Writer \ {w}, InFlight(u)', commit'[u].version = v
        PROVE  v \in contested'
    BY <1>1, <1>3, <1>7, <1>13, <2>1 DEF InFlight, Alive
  <2>2. ASSUME NEW t \in Writer \ {w}, NEW u \in Writer \ {w}, InFlight(t)', InFlight(u)', t # u,
               commit'[t].version = commit'[u].version
        PROVE  commit'[u].version \in contested'
    BY <1>1, <1>3, <1>6, <2>2 DEF InFlight, Alive, RegistryInv, AloneInv
  <2> QED
    BY <1>4, <2>1, <2>2 DEF AloneInv
<1>15. MakingInv'
  <2>1. ASSUME NEW u \in Writer \ {w}, InFlight(u)', Clean(commit[u].version)'
        PROVE  Making(u)'
    <3>1. commit'[u] = commit[u] /\ InFlight(u)
      BY <1>1, <1>3, <2>1 DEF InFlight, Alive
    <3>2. Clean(commit[u].version)
      BY <1>6, <2>1, <3>1 DEF Clean
    <3>3. Making(u)
      BY <3>1, <3>2 DEF RegistryInv, MakingInv
    <3> QED
      BY <3>1, <3>3, <1>10 DEF Making
  <2>2. ASSUME \A u \in contested' : v < u
        PROVE  Making(w)'
    <3>1. v \notin contested' /\ contested = {}
      <4>1. \A u \in contested' : v < u
        BY <2>2
      <4>2. v \in Nat /\ \A u \in contested : u \in Nat
        BY <1>1 DEF Version, RegistryInv, RegistryTypeOK
      <4>3. v \notin contested'
        BY <4>1, <4>2
      <4> QED
        BY <1>6, <1>7, <4>1, <4>2, <4>3
    <3>2. \A u \in Stored : u \in dirs
      BY <3>1 DEF RegistryInv, StoredInv, Kept, Clean, Stored
    <3>3. \A u \in dirs : u < v
      BY <1>0, NextIsNew DEF RegistryInv, RegistryTypeOK
    <3>4. commit[w].genome.parent \in Stored \cup {0}
      BY <1>1, <3>1 DEF RegistryInv, GenomeInv, Holding
    <3>5. v \notin Stored /\ commit[w].genome.parent < v
      BY <3>2, <3>3, <3>4, <1>1 DEF Version
    <3> QED
      BY <1>1, <1>4, <1>10, <3>4, <3>5 DEF Making
  <2> QED
    BY <1>4, <2>1, <2>2 DEF MakingInv, Clean
<1>16. StoredInv'
  BY <1>1, <1>10, <1>12 DEF RegistryInv, RegistryTypeOK, StoredInv, Kept
<1>17. YamlInv'
  BY <1>10, <1>12 DEF RegistryInv, YamlInv
<1> QED
  BY <1>8, <1>9, <1>11, <1>14, <1>15, <1>16, <1>17 DEF RegistryInv

-----------------------------------------------------------------------------
(* Steps that change the directory of one version.                         *)

\* The step is that of a caller on its way, to its own version.
Mine(w, v) ==
  /\ InFlight(w) /\ commit[w].version = v /\ commit'[w].version = v
  /\ UNCHANGED <<home, crashed, contested>>
  /\ \A u \in Writer \ {w} : commit'[u] = commit[u]
  /\ \A u \in Version \ {v} : (u \in dirs' <=> u \in dirs) /\ files'[u] = files[u] /\ tmp'[u] = tmp[u]
  /\ committed \subseteq committed' /\ \A c \in committed' : c \in committed \/ c.version = v

LEMMA MineKeeps ==
  ASSUME RegistryInv, NEW w \in Writer, NEW v, Mine(w, v)
  PROVE  /\ Clean(v) => Making(w)
         /\ \A u \in Writer \ {w} : InFlight(u)' /\ Clean(commit[u].version) => Making(u)'
         /\ \A c \in committed : Clean(c.version) => c.version # v /\ Kept(c)'
         /\ AloneInv'
         /\ \A u \in Version \ {v} : Clean(u) /\ files'[u][Yaml] # None => u \in Stored'
         /\ \A u : Clean(u)' <=> Clean(u)
         /\ Stored \subseteq Stored' /\ Stored' \subseteq Stored \cup {v}
<1>1. /\ InFlight(w) /\ commit[w].version = v /\ commit'[w].version = v
      /\ UNCHANGED <<home, crashed, contested>>
      /\ \A u \in Writer \ {w} : commit'[u] = commit[u]
      /\ \A u \in Version \ {v} : (u \in dirs' <=> u \in dirs) /\ files'[u] = files[u] /\ tmp'[u] = tmp[u]
      /\ committed \subseteq committed' /\ \A c \in committed' : c \in committed \/ c.version = v
  BY DEF Mine
<1>2. Clean(v) => Making(w)
  BY <1>1 DEF RegistryInv, MakingInv
<1>3. \A u : Clean(u)' <=> Clean(u)
  BY <1>1 DEF Clean
<1>4. Stored \subseteq Stored' /\ Stored' \subseteq Stored \cup {v}
  BY <1>1 DEF Stored
<1>5. AloneInv'
  <2>1. \A u \in Writer : InFlight(u)' => InFlight(u) /\ commit'[u].version = commit[u].version
    BY <1>1 DEF InFlight, Alive
  <2> QED
    BY <1>1, <2>1 DEF AloneInv, RegistryInv
<1>6. ASSUME NEW u \in Writer \ {w}, InFlight(u)', Clean(commit[u].version)
      PROVE  Making(u)'
  <2>1. commit'[u] = commit[u] /\ InFlight(u)
    BY <1>1, <1>6 DEF InFlight, Alive
  <2>2. Making(u)
    BY <1>6, <2>1 DEF RegistryInv, MakingInv
  <2>3. commit[u].version \in Version /\ commit[u].version \notin contested
    <3>1. \A k \in contested : commit[u].version < k
      BY <1>6 DEF Clean
    <3>2. commit[u].version \in Version
      BY <2>2 DEF Making
    <3> QED
      BY <3>1, <3>2 DEF Version
  <2>4. commit[u].version # v
    BY <1>1, <2>1, <2>3 DEF RegistryInv, AloneInv
  <2> QED
    BY <1>1, <1>4, <2>1, <2>2, <2>3, <2>4 DEF Making
<1>7. ASSUME NEW c \in committed, Clean(c.version)
      PROVE  c.version # v /\ Kept(c)'
  <2>1. c.version \in Stored /\ c.version \in Version
    BY DEF Stored, RegistryInv, RegistryTypeOK
  <2>2. c.version # v
    BY <1>1, <1>2, <1>7, <2>1 DEF Making
  <2>3. Kept(c)
    BY <1>7 DEF RegistryInv, StoredInv
  <2> QED
    BY <1>1, <1>4, <2>1, <2>2, <2>3 DEF Kept
<1>8. ASSUME NEW u \in Version \ {v}, Clean(u), files'[u][Yaml] # None
      PROVE  u \in Stored'
  BY <1>1, <1>4, <1>8 DEF RegistryInv, YamlInv
<1> QED
  BY <1>2, <1>3, <1>4, <1>5, <1>6, <1>7, <1>8

\* What is left to show of a step that commits nothing.
LEMMA MineInv ==
  ASSUME RegistryInv, NEW w \in Writer, NEW v, Mine(w, v), committed' = committed,
         RegistryTypeOK', MutexInv', GenomeInv',
         InFlight(w)' /\ Clean(v) => Making(w)',
         v \in Version /\ Clean(v) => files'[v][Yaml] = None
  PROVE  RegistryInv'
<1>1. commit'[w].version = v
  BY DEF Mine
<1>2. MakingInv'
  <2>1. \A u \in Writer \ {w} : Clean(commit[u].version)' => Clean(commit[u].version)
    BY DEF Clean, Mine
  <2>2. Clean(commit[w].version)' => Clean(v)
    BY <1>1 DEF Clean, Mine
  <2> QED
    BY <1>1, <2>1, <2>2, MineKeeps DEF MakingInv
<1>3. StoredInv'
  BY MineKeeps DEF StoredInv
<1>4. YamlInv'
  BY MineKeeps DEF YamlInv
<1>5. AloneInv'
  BY MineKeeps
<1> QED
  BY <1>2, <1>3, <1>4, <1>5 DEF RegistryInv

\* The file that is renamed is not there before.
LEMMA YamlMissing ==
  ASSUME RegistryInv, NEW w \in Writer, InFlight(w), Clean(commit[w].version)
  PROVE  files[commit[w].version][Yaml] = None /\ Making(w)
<1>1. Making(w)
  BY DEF RegistryInv, MakingInv
<1> QED
  BY <1>1 DEF Making, RegistryInv, YamlInv

\* A caller that goes on, or turns back, keeps what is known of it.
LEMMA GenomeKeeps ==
  ASSUME RegistryInv, NEW w \in Writer, InFlight(w), Stored \subseteq Stored',
         contested' = contested, \A u \in Writer \ {w} : commit'[u] = commit[u],
         commit'[w].genome = commit[w].genome, commit'[w].version = commit[w].version,
         commit'[w].pc \notin {"called", "scan", "mkdir"}
  PROVE  GenomeInv'
BY FlightPlaces DEF RegistryInv, GenomeInv, Holding

\* It holds the mutex as before.
LEMMA MutexKeeps ==
  ASSUME RegistryInv, NEW w \in Writer, InFlight(w), UNCHANGED <<home, holder>>,
         \A u \in Writer \ {w} : commit'[u] = commit[u]
  PROVE  MutexInv'
BY FlightPlaces DEF RegistryInv, MutexInv, Holding

LEMMA MkdirStep ==
  ASSUME RegistryInv, NEW w \in Writer, CommitMkdir(w)
  PROVE  RegistryInv'
<1>1. /\ commit[w].pc = "mkdir" /\ InFlight(w)
      /\ UNCHANGED <<home, crashed, files, tmp, committed, contested>>
  BY DEF CommitMkdir, At, InFlight
<1>2. Stored' = Stored
  BY <1>1 DEF Stored
<1>3. CASE Goes(w, "failed") /\ Unlock(w) /\ UNCHANGED dirs
  <2>1. /\ commit' \in [Writer -> Place] /\ commit'[w].pc = "failed"
        /\ commit'[w].genome = commit[w].genome /\ commit'[w].version = commit[w].version
        /\ \A u \in Writer \ {w} : commit'[u] = commit[u]
    BY <1>3, GoesMoves DEF RegistryInv, Pcs
  <2>2. MutexInv' /\ holder' \in [Process -> Writer \cup {None}]
    BY <1>1, <1>3, <2>1, UnlockKeeps DEF RegistryInv, Holding
  <2>3. RegistryTypeOK'
    BY <1>1, <1>3, <2>1, <2>2 DEF RegistryInv, RegistryTypeOK, Place, Pcs
  <2>4. GenomeInv'
    BY <1>1, <1>2, <2>1, GenomeKeeps
  <2>5. Calm
    BY <1>1, <2>1 DEF Calm, InFlight, Alive
  <2> QED
    BY <1>1, <1>3, <2>2, <2>3, <2>4, <2>5, CalmKeeps DEF RegistryInv, diskVars
<1>4. CASE dirs' = dirs \cup {commit[w].version} /\ Goes(w, "write") /\ UNCHANGED holder
  <2>1. PICK k : k = commit[w].version
    OBVIOUS
  <2>2. /\ commit' \in [Writer -> Place] /\ commit'[w].pc = "write"
        /\ commit'[w].file = commit[w].file
        /\ commit'[w].genome = commit[w].genome /\ commit'[w].version = commit[w].version
        /\ \A u \in Writer \ {w} : commit'[u] = commit[u]
    BY <1>4, GoesMoves DEF RegistryInv, Pcs
  <2>3. Mine(w, k)
    BY <1>1, <1>4, <2>1, <2>2 DEF Mine
  <2>4. MutexInv' /\ GenomeInv'
    BY <1>1, <1>2, <1>4, <2>2, MutexKeeps, GenomeKeeps
  <2>5. commit[w].file = Signature
    BY <1>1 DEF RegistryInv, GenomeInv, Holding
  <2>6. Clean(k) => Making(w) /\ files[k][Yaml] = None
    BY <1>1, <2>1, YamlMissing
  <2>7. Clean(k) => Making(w)'
    BY <1>1, <1>2, <1>4, <2>1, <2>2, <2>5, <2>6 DEF Making, Signature, Yaml
  <2>8. k \in Version
    BY <1>1, <2>1 DEF RegistryInv, GenomeInv, Holding
  <2>9. RegistryTypeOK'
    BY <1>1, <1>4, <2>1, <2>2, <2>8 DEF RegistryInv, RegistryTypeOK, Place, Pcs
  <2> QED
    BY <1>1, <2>3, <2>4, <2>6, <2>7, <2>9, MineInv
<1> QED
  BY <1>3, <1>4 DEF CommitMkdir

LEMMA WriteStep ==
  ASSUME RegistryInv, NEW w \in Writer, CommitWrites(w)
  PROVE  RegistryInv'
<1>1. PICK v : v = commit[w].version
  OBVIOUS
<1>2. /\ commit[w].pc = "write" /\ InFlight(w)
      /\ UNCHANGED <<home, crashed, dirs, files, holder, committed, contested>>
  BY DEF CommitWrites, At, InFlight
<1>3. Stored' = Stored
  BY <1>2 DEF Stored
<1>4. commit[w].file \in File /\ commit[w].genome \in Genome
  BY <1>2 DEF RegistryInv, RegistryTypeOK, GenomeInv, Holding
<1>5. v \in Version
  BY <1>1, <1>2 DEF RegistryInv, GenomeInv, Holding
<1>6. CASE Goes(w, "abort") /\ UNCHANGED tmp
  <2>1. /\ commit' \in [Writer -> Place] /\ commit'[w].pc = "abort"
        /\ commit'[w].file = commit[w].file
        /\ commit'[w].genome = commit[w].genome /\ commit'[w].version = commit[w].version
        /\ \A u \in Writer \ {w} : commit'[u] = commit[u]
    BY <1>6, GoesMoves DEF RegistryInv, Pcs
  <2>2. RegistryTypeOK'
    BY <1>2, <1>6, <2>1 DEF RegistryInv, RegistryTypeOK, Place, Pcs
  <2>3. MutexInv' /\ GenomeInv'
    BY <1>2, <1>3, <2>1, MutexKeeps, GenomeKeeps
  <2>4. Calm
    BY <1>2, <2>1 DEF Calm, InFlight, Alive
  <2> QED
    BY <1>2, <1>6, <2>2, <2>3, <2>4, CalmKeeps DEF RegistryInv, diskVars
<1>7. CASE /\ tmp' = [tmp EXCEPT ![commit[w].version][commit[w].file] = commit[w].genome]
           /\ Goes(w, "rename")
  <2>1. /\ commit' \in [Writer -> Place] /\ commit'[w].pc = "rename"
        /\ commit'[w].file = commit[w].file
        /\ commit'[w].genome = commit[w].genome /\ commit'[w].version = commit[w].version
        /\ \A u \in Writer \ {w} : commit'[u] = commit[u]
    BY <1>7, GoesMoves DEF RegistryInv, Pcs
  <2>2. /\ tmp' \in [Version -> [File -> Genome \cup {None}]]
        /\ tmp'[v][commit[w].file] = commit[w].genome
        /\ \A u \in Version \ {v} : tmp'[u] = tmp[u]
    <3>1. tmp \in [Version -> [File -> Genome \cup {None}]]
      BY DEF RegistryInv, RegistryTypeOK
    <3> QED
      BY <1>1, <1>4, <1>5, <1>7, <3>1
  <2>3. RegistryTypeOK'
    BY <1>2, <2>1, <2>2 DEF RegistryInv, RegistryTypeOK, Place, Pcs
  <2>4. MutexInv' /\ GenomeInv'
    BY <1>2, <1>3, <2>1, MutexKeeps, GenomeKeeps
  <2>5. Mine(w, v)
    BY <1>1, <1>2, <2>1, <2>2 DEF Mine
  <2>6. Clean(v) => Making(w) /\ files[v][Yaml] = None
    BY <1>1, <1>2, YamlMissing
  <2>7. Clean(v) => Making(w)'
    BY <1>1, <1>2, <1>3, <2>1, <2>2, <2>6 DEF Making
  <2> QED
    BY <1>2, <2>3, <2>4, <2>5, <2>6, <2>7, MineInv
<1> QED
  BY <1>6, <1>7 DEF CommitWrites

\* remove_all takes the whole directory.
LEMMA WithoutType ==
  ASSUME NEW g, g \in [Version -> [File -> Genome \cup {None}]], NEW v \in Version
  PROVE  /\ Without(g, v) \in [Version -> [File -> Genome \cup {None}]]
         /\ \A f \in File : Without(g, v)[v][f] = None
         /\ \A u \in Version \ {v} : Without(g, v)[u] = g[u]
BY DEF Without

LEMMA AbortStep ==
  ASSUME RegistryInv, NEW w \in Writer, CommitAborts(w)
  PROVE  RegistryInv'
<1>1. PICK v : v = commit[w].version
  OBVIOUS
<1>2. /\ commit[w].pc = "abort" /\ InFlight(w)
      /\ dirs' = dirs \ {v} /\ files' = Without(files, v) /\ tmp' = Without(tmp, v)
      /\ Goes(w, "failed") /\ Unlock(w)
      /\ UNCHANGED <<home, crashed, committed, contested>>
  BY <1>1 DEF CommitAborts, At, InFlight
<1>3. Stored' = Stored
  BY <1>2 DEF Stored
<1>4. v \in Version
  BY <1>1, <1>2 DEF RegistryInv, GenomeInv, Holding
<1>5. /\ commit' \in [Writer -> Place] /\ commit'[w].pc = "failed"
      /\ commit'[w].genome = commit[w].genome /\ commit'[w].version = commit[w].version
      /\ \A u \in Writer \ {w} : commit'[u] = commit[u]
  BY <1>2, GoesMoves DEF RegistryInv, Pcs
<1>6. MutexInv' /\ holder' \in [Process -> Writer \cup {None}]
  BY <1>2, <1>5, UnlockKeeps DEF RegistryInv, Holding
<1>7. GenomeInv'
  BY <1>2, <1>3, <1>5, GenomeKeeps
<1>8. /\ files' \in [Version -> [File -> Genome \cup {None}]]
      /\ tmp' \in [Version -> [File -> Genome \cup {None}]]
      /\ files'[v][Yaml] = None
      /\ \A u \in Version \ {v} : files'[u] = files[u] /\ tmp'[u] = tmp[u]
  <2>1. /\ files \in [Version -> [File -> Genome \cup {None}]]
        /\ tmp \in [Version -> [File -> Genome \cup {None}]]
    BY DEF RegistryInv, RegistryTypeOK
  <2>2. /\ Without(files, v) \in [Version -> [File -> Genome \cup {None}]]
        /\ \A f \in File : Without(files, v)[v][f] = None
        /\ \A u \in Version \ {v} : Without(files, v)[u] = files[u]
    BY <1>4, <2>1, WithoutType
  <2>3. /\ Without(tmp, v) \in [Version -> [File -> Genome \cup {None}]]
        /\ \A u \in Version \ {v} : Without(tmp, v)[u] = tmp[u]
    BY <1>4, <2>1, WithoutType
  <2> QED
    BY <1>2, <2>2, <2>3 DEF File
<1>9. RegistryTypeOK'
  BY <1>2, <1>5, <1>6, <1>8 DEF RegistryInv, RegistryTypeOK, Place, Pcs
<1>10. Mine(w, v)
  BY <1>1, <1>2, <1>5, <1>8 DEF Mine
<1>11. ~InFlight(w)'
  BY <1>5 DEF InFlight
<1> QED
  BY <1>2, <1>6, <1>7, <1>8, <1>9, <1>10, <1>11, MineInv

LEMMA RenameStep ==
  ASSUME RegistryInv, NEW w \in Writer, CommitRenames(w)
  PROVE  RegistryInv'
<1>1. PICK v, file : v = commit[w].version /\ file = commit[w].file
  OBVIOUS
<1>2. /\ commit[w].pc = "rename" /\ InFlight(w)
      /\ UNCHANGED <<home, crashed, dirs, contested>>
  BY DEF CommitRenames, At, InFlight
<1>4. file \in File /\ commit[w].genome \in Genome
  BY <1>1, <1>2 DEF RegistryInv, RegistryTypeOK, GenomeInv, Holding
<1>5. v \in Version
  BY <1>1, <1>2 DEF RegistryInv, GenomeInv, Holding
<1>6. Clean(v) => Making(w) /\ files[v][Yaml] = None
  BY <1>1, <1>2, YamlMissing
<1>7. commit \in [Writer -> Place] /\ commit[w] \in Place
  BY DEF RegistryInv, RegistryTypeOK, Place, Pcs
<1>8. CASE Goes(w, "abort") /\ UNCHANGED <<files, tmp, holder, committed>>
  <2>1. /\ commit' \in [Writer -> Place] /\ commit'[w].pc = "abort"
        /\ commit'[w].file = commit[w].file
        /\ commit'[w].genome = commit[w].genome /\ commit'[w].version = commit[w].version
        /\ \A u \in Writer \ {w} : commit'[u] = commit[u]
    BY <1>8, GoesMoves DEF RegistryInv, Pcs
  <2>2. RegistryTypeOK'
    BY <1>2, <1>8, <2>1 DEF RegistryInv, RegistryTypeOK, Place, Pcs
  <2>3. MutexInv' /\ GenomeInv'
    BY <1>2, <1>8, <2>1, MutexKeeps, GenomeKeeps DEF Stored
  <2>4. Calm
    BY <1>2, <2>1 DEF Calm, InFlight, Alive
  <2> QED
    BY <1>2, <1>8, <2>2, <2>3, <2>4, CalmKeeps DEF RegistryInv, diskVars
<1>9. ASSUME files' = [files EXCEPT ![v][file] = tmp[v][file]],
             tmp' = [tmp EXCEPT ![v][file] = None]
      PROVE  /\ files' \in [Version -> [File -> Genome \cup {None}]]
             /\ tmp' \in [Version -> [File -> Genome \cup {None}]]
             /\ files'[v][file] = tmp[v][file] /\ tmp'[v][file] = None
             /\ \A f \in File \ {file} : files'[v][f] = files[v][f]
             /\ \A u \in Version \ {v} : files'[u] = files[u] /\ tmp'[u] = tmp[u]
  <2>1. files \in [Version -> [File -> Genome \cup {None}]]
        /\ tmp \in [Version -> [File -> Genome \cup {None}]]
    BY DEF RegistryInv, RegistryTypeOK
  <2> QED
    BY <1>4, <1>5, <1>9, <2>1
<1>10. CASE /\ files' = [files EXCEPT ![v][file] = tmp[v][file]]
            /\ tmp' = [tmp EXCEPT ![v][file] = None]
            /\ file = Signature
            /\ commit' = [commit EXCEPT ![w].pc = "write", ![w].file = Yaml]
            /\ UNCHANGED <<holder, committed>>
  <2>1. commit'[w] = [[commit[w] EXCEPT !.pc = "write"] EXCEPT !.file = Yaml]
        /\ \A u \in Writer \ {w} : commit'[u] = commit[u]
    BY <1>7, <1>10
  <2>2. /\ commit'[w].pc = "write" /\ commit'[w].file = Yaml
        /\ commit'[w].genome = commit[w].genome /\ commit'[w].version = v
        /\ commit'[w] \in Place
    <3> DEFINE c == [commit[w] EXCEPT !.pc = "write"]
    <3>1. /\ c \in Place /\ c.pc = "write" /\ c.genome = commit[w].genome
          /\ c.version = commit[w].version
      BY <1>7 DEF Place, Pcs
    <3>2. commit'[w] = [c EXCEPT !.file = Yaml]
      BY <2>1
    <3> HIDE DEF c
    <3> QED
      BY <1>1, <3>1, <3>2 DEF Place, File
  <2>3. commit' \in [Writer -> Place]
    BY <1>7, <1>10, <2>2
  <2>4. RegistryTypeOK'
    BY <1>2, <1>9, <1>10, <2>3 DEF RegistryInv, RegistryTypeOK, Place, Pcs
  <2>5. Stored' = Stored
    BY <1>10 DEF Stored
  <2>6. MutexInv' /\ GenomeInv'
    BY <1>1, <1>2, <1>10, <2>1, <2>2, <2>5, MutexKeeps, GenomeKeeps
  <2>7. Mine(w, v)
    BY <1>1, <1>2, <1>9, <1>10, <2>1, <2>2 DEF Mine
  <2>8. Clean(v) => Making(w)'
    BY <1>1, <1>2, <1>6, <1>9, <1>10, <2>2, <2>5 DEF Making
  <2>9. Clean(v) => files'[v][Yaml] = None
    BY <1>6, <1>9, <1>10 DEF File, Signature, Yaml
  <2> QED
    BY <1>10, <2>4, <2>6, <2>7, <2>8, <2>9, MineInv
<1>11. CASE /\ files' = [files EXCEPT ![v][file] = tmp[v][file]]
            /\ tmp' = [tmp EXCEPT ![v][file] = None]
            /\ file # Signature
            /\ Goes(w, "done") /\ Unlock(w)
            /\ committed' = committed \cup
                 {[version |-> v, genome |-> commit[w].genome, by |-> home[w]]}
  <2>1. /\ commit' \in [Writer -> Place] /\ commit'[w].pc = "done"
        /\ commit'[w].genome = commit[w].genome /\ commit'[w].version = v
        /\ \A u \in Writer \ {w} : commit'[u] = commit[u]
    BY <1>1, <1>11, GoesMoves DEF RegistryInv, Pcs
  <2>2. MutexInv' /\ holder' \in [Process -> Writer \cup {None}]
    BY <1>2, <1>11, <2>1, UnlockKeeps DEF RegistryInv, Holding
  <2>3. PICK c : c = [version |-> v, genome |-> commit[w].genome, by |-> home[w]]
    OBVIOUS
  <2>4. /\ committed' = committed \cup {c} /\ c.version = v /\ c.genome = commit[w].genome
        /\ c \in [version : Version, genome : Genome, by : Process \cup {None}]
    BY <1>4, <1>5, <1>11, <2>3 DEF RegistryInv, RegistryTypeOK
  <2>5. RegistryTypeOK'
    BY <1>2, <1>9, <1>11, <2>1, <2>2, <2>4 DEF RegistryInv, RegistryTypeOK, Place, Pcs
  <2>6. Mine(w, v)
    BY <1>1, <1>2, <1>9, <1>11, <2>1, <2>4 DEF Mine
  <2>7. Stored \subseteq Stored' /\ v \in Stored'
    BY <2>4 DEF Stored
  <2>8. GenomeInv'
    BY <1>1, <1>2, <2>1, <2>7, GenomeKeeps
  <2>9. file = Yaml
    BY <1>4, <1>11 DEF File
  <2>10. ASSUME Clean(v)
         PROVE  Kept(c)'
    <3>1. /\ v \notin Stored /\ v \in dirs
          /\ tmp[v][Yaml] = commit[w].genome /\ files[v][Signature] = commit[w].genome
          /\ commit[w].genome.parent < v /\ commit[w].genome.parent \in Stored \cup {0}
      BY <1>1, <1>2, <1>6, <2>9, <2>10 DEF Making
    <3>2. \A f \in File : files'[v][f] = commit[w].genome
      BY <1>9, <1>11, <2>9, <3>1 DEF File, Signature, Yaml
    <3>3. \A d \in committed' : d.version = v => d = c
      BY <2>4, <3>1 DEF Stored
    <3> QED
      BY <1>2, <1>9, <1>11, <2>4, <2>7, <2>9, <3>1, <3>2, <3>3 DEF Kept
  <2>11. StoredInv'
    BY <2>4, <2>6, <2>10, MineKeeps DEF StoredInv
  <2>12. YamlInv'
    BY <2>6, <2>7, MineKeeps DEF YamlInv
  <2>13. ~InFlight(w)'
    BY <2>1 DEF InFlight
  <2>14. MakingInv'
    <3>1. \A u \in Writer \ {w} : Clean(commit[u].version)' => Clean(commit[u].version)
      BY <2>6 DEF Clean, Mine
    <3> QED
      BY <2>6, <2>13, <3>1, MineKeeps DEF MakingInv
  <2>15. AloneInv'
    BY <2>6, MineKeeps
  <2> QED
    BY <2>2, <2>5, <2>8, <2>11, <2>12, <2>14, <2>15 DEF RegistryInv
<1> QED
  BY <1>1, <1>8, <1>10, <1>11 DEF CommitRenames

-----------------------------------------------------------------------------
(* The results.                                                            *)

\* The registry starts with the seed alone.
LEMMA InitRegistry ==
  ASSUME NEW place \in [Writer -> Process], NEW seed \in Genome, seed.parent = 0,
         RegistryInit(place, seed)
  PROVE  RegistryInv
<1>1. 1 \in Version /\ Idle \in Place /\ Idle.pc = "idle"
  BY RegistryAssumption DEF Version, Idle, Place, Pcs, File
<1>2. /\ dirs = {1} /\ contested = {} /\ commit = [w \in Writer |-> Idle] /\ home = place
      /\ committed = {[version |-> 1, genome |-> seed, by |-> None]}
      /\ files = [v \in Version |-> [f \in File |-> IF v = 1 THEN seed ELSE None]]
      /\ tmp = [v \in Version |-> [f \in File |-> None]]
      /\ holder = [p \in Process |-> None] /\ crashed = {}
  BY DEF RegistryInit
<1>3. RegistryTypeOK
  BY <1>1, <1>2 DEF RegistryTypeOK, Place, Pcs
<1>4. MutexInv /\ GenomeInv /\ MakingInv /\ AloneInv
  BY <1>1, <1>2 DEF MutexInv, GenomeInv, MakingInv, AloneInv, InFlight, Holding
<1>5. StoredInv /\ YamlInv
  <2> DEFINE c == [version |-> 1, genome |-> seed, by |-> None]
  <2>1. committed = {c} /\ c.version = 1 /\ c.genome = seed
    BY <1>2
  <2> HIDE DEF c
  <2>2. 1 \in Stored
    BY <2>1 DEF Stored
  <2>3. Kept(c)
    BY <1>1, <1>2, <2>1 DEF Kept, File
  <2>4. YamlInv
    BY <1>2, <2>2 DEF YamlInv, File
  <2> QED
    BY <2>1, <2>3, <2>4 DEF StoredInv
<1> QED
  BY <1>3, <1>4, <1>5 DEF RegistryInv

LEMMA StepKeeps == RegistryInv /\ (RegistryStep \/ UNCHANGED registryVars) => RegistryInv'
<1>1. RegistryInv /\ RegistryStep => RegistryInv'
  BY CallStep, LockStep, ScanStep, MkdirStep, WriteStep, RenameStep, AbortStep, ReturnStep,
     CrashStep DEF RegistryStep, Commit
<1>2. RegistryInv /\ UNCHANGED registryVars => RegistryInv'
  BY DEF registryVars, diskVars, RegistryInv, RegistryTypeOK, MutexInv, GenomeInv, MakingInv,
         Making, AloneInv, StoredInv, Kept, YamlInv, Clean, Stored, InFlight, Alive, Holding
<1> QED
  BY <1>1, <1>2

\* The ancestors of a version that was kept are there, and each is older than its child.
LEMMA KeptLineage ==
  ASSUME RegistryInv, NEW v \in Stored, Clean(v)
  PROVE  LineageFrom(v)
<1>1. Stored \subseteq Version /\ Version \subseteq Nat
  BY DEF Stored, RegistryInv, RegistryTypeOK, Version
<1>2. contested \subseteq Nat
  BY <1>1 DEF RegistryInv, RegistryTypeOK
<1>3. PICK line : line = {u \in Stored : u <= v}
  OBVIOUS
<1>4. line \subseteq Version /\ line \subseteq Nat /\ v \in line
  <2>1. v \in Nat
    BY <1>1
  <2>2. v <= v
    BY <2>1
  <2>3. v \in line
    BY <1>3, <2>2
  <2>4. line \subseteq Stored
    BY <1>3
  <2> QED
    BY <1>1, <2>3, <2>4
<1>5. ASSUME NEW u \in line
      PROVE  /\ files[u][Yaml] # None
             /\ files[u][Yaml].parent < u
             /\ files[u][Yaml].parent \in line \cup {0}
  <2>1. u \in Stored /\ u <= v /\ u \in Nat /\ v \in Nat
    BY <1>1, <1>3
  <2>2. PICK c \in committed : c.version = u
    BY <2>1 DEF Stored
  <2>3. Clean(u)
    BY <1>2, <2>1 DEF Clean
  <2>4. Kept(c)
    BY <2>2, <2>3 DEF RegistryInv, StoredInv
  <2>5. files[u][Yaml] = c.genome /\ c.genome.parent < u /\ c.genome.parent \in Stored \cup {0}
    BY <2>2, <2>4 DEF Kept, File
  <2>6. c.genome # None
    BY RegistryAssumption DEF RegistryInv, RegistryTypeOK
  <2>7. c.genome.parent \in Stored => c.genome.parent <= v
    <3> SUFFICES ASSUME c.genome.parent \in Stored
                 PROVE  c.genome.parent <= v
      OBVIOUS
    <3>1. c.genome.parent \in Nat
      BY <1>1
    <3> QED
      BY <2>1, <2>5, <3>1
  <2> QED
    BY <1>3, <2>5, <2>6, <2>7
<1>6. ASSUME NEW round \in (SUBSET line) \ {{}}
      PROVE  \E u \in round : files[u][Yaml].parent \notin round
  <2>1. round \subseteq Nat /\ round # {}
    BY <1>4
  <2>2. PICK u \in round : \A k \in round : u <= k
    BY <2>1, LeastExists
  <2>3. files[u][Yaml].parent < u /\ u \in Nat
    BY <1>5, <2>1
  <2>4. ASSUME files[u][Yaml].parent \in round
        PROVE  FALSE
    <3>1. PICK p : p = files[u][Yaml].parent
      OBVIOUS
    <3>2. p \in Nat /\ u <= p /\ p < u /\ u \in Nat
      BY <2>1, <2>2, <2>3, <2>4, <3>1
    <3> QED
      BY <3>2
  <2> QED
    BY <2>4
<1> QED
  BY <1>4, <1>5, <1>6 DEF LineageFrom

LEMMA KeptLoads == RegistryInv => CommittedLoads
<1> SUFFICES ASSUME RegistryInv, NEW c \in committed, \A v \in contested : ~(v <= c.version)
             PROVE  /\ c.version \in Listed /\ Loads(c.version, c.genome)
                    /\ \A d \in committed : d.version = c.version => d = c
  BY DEF CommittedLoads
<1>1. /\ c.version \in Version /\ c.genome \in Genome /\ c.genome # None
      /\ contested \subseteq Version /\ c.version \in Stored
  BY RegistryAssumption DEF RegistryInv, RegistryTypeOK, Stored
<1>2. Clean(c.version)
  BY <1>1 DEF Clean, Version
<1>3. Kept(c)
  BY <1>2 DEF RegistryInv, StoredInv
<1>4. c.version \in Listed
  BY <1>1, <1>3 DEF Listed, Kept, File
<1>5. LineageFrom(c.genome.parent)
  <2>1. CASE c.genome.parent = 0
    BY <2>1 DEF LineageFrom
  <2>2. CASE c.genome.parent \in Stored
    <3>1. c.genome.parent \in Version /\ c.genome.parent < c.version
      BY <2>2, <1>3 DEF Kept, Stored, RegistryInv, RegistryTypeOK
    <3>2. Clean(c.genome.parent)
      <4>1. PICK p, n : p = c.genome.parent /\ n = c.version
        OBVIOUS
      <4>2. p \in Int /\ n \in Int /\ p < n /\ contested \subseteq Int
        BY <1>1, <3>1, <4>1 DEF Version
      <4>3. \A u \in contested : n < u
        BY <1>2, <4>1 DEF Clean
      <4>4. \A u \in contested : p < u
        BY <4>2, <4>3
      <4> QED
        BY <4>1, <4>4 DEF Clean
    <3> QED
      BY <2>2, <3>2, KeptLineage
  <2> QED
    BY <1>3, <2>1, <2>2 DEF Kept
<1> QED
  BY <1>1, <1>3, <1>4, <1>5 DEF Loads, Kept

-----------------------------------------------------------------------------
(* The agent with its registry, its coordinator and its plugins.           *)

\* The seed comes from a setup.
LEMMA InitSetup ==
  ASSUME Init
  PROVE  RegistryInv
<1>1. /\ setup \in Setups /\ RegistryInit(setup.place, setup.seed)
  BY DEF Init
<1>2. setup.place \in [Writer -> Process] /\ setup.seed \in Genome /\ setup.seed.parent = 0
  BY <1>1, SetupsAssumption
<1> QED
  BY <1>1, <1>2, InitRegistry

\* Only a version that can be loaded is forked.
LEMMA ForkCalls ==
  ASSUME NEW w \in Writer, NEW v, NEW spec, CanFork(v), CommitCall(w, Child(v, spec))
  PROVE  RegistryStep
<1>1. Child(v, spec).parent = v
  BY DEF Child
<1>2. v \in Version /\ Loads(v, files[v][Yaml])
  BY DEF CanFork
<1>3. Child(v, spec) \in Genome
  BY DEF CommitCall
<1> QED
  BY <1>1, <1>2, <1>3 DEF RegistryStep

\* Nothing but a call, a step or a return of commit touches the registry, and a crash.
LEMMA NextRegistry ==
  ASSUME Next
  PROVE  RegistryStep \/ UNCHANGED registryVars
<1>0. Host \in Writer /\ Gepa \in Writer
  BY EvolutionAssumption
<1>1. CASE HostMutates
  <2>1. \/ UNCHANGED registryVars
        \/ \E v, spec : CanFork(v) /\ CommitCall(Host, Child(v, spec))
    BY <1>1 DEF HostMutates, HostMutatesFrom
  <2> QED
    BY <2>1, <1>0, ForkCalls
<1>2. CASE HostApplies \/ HostGivesUp \/ GepaCommits \/ GepaCannotStore
  BY <1>0, <1>2 DEF HostApplies, HostGivesUp, GepaCommits, GepaCannotStore, RegistryStep
<1>3. CASE GepaGenerates
  <2>1. \/ UNCHANGED registryVars
        \/ \E v, spec : CanFork(v) /\ CommitCall(Gepa, Child(v, spec))
        \/ CommitCall(Gepa, Child(1, [harness |-> <<"skill">>, tools |-> <<>>])) /\ CanFork(1)
    BY <1>3 DEF GepaGenerates
  <2> QED
    BY <2>1, <1>0, ForkCalls
<1>4. CASE HostUndoes \/ HostCalls \/ ToolReturns \/ ToolLeaves \/ HostRegisters \/ GepaProposes
  BY <1>4 DEF HostUndoes, HostCalls, ToolReturns, ToolLeaves, HostRegisters, GepaProposes, CallsFrame
<1>5. CASE OthersPropose \/ OthersCommit \/ OthersRevert
  BY <1>5 DEF OthersPropose, OthersCommit, OthersRevert, OthersHear
<1>6. CASE Committing \/ Crashes
  BY <1>6 DEF Committing, Crashes, RegistryStep
<1>7. CASE HostLoads \/ HostLoadsAll \/ LoadAllGoesOn \/ HostUnloads \/ HostCreates \/ HostEnds
  BY <1>7 DEF HostLoads, HostLoadsAll, LoadAllGoesOn, HostUnloads, HostCreates, HostEnds,
              HostAsksLoader, LoaderFrame
<1>8. CASE HostFalls
  BY <1>8 DEF HostFalls, RegistryStep
<1> QED
  BY <1>1, <1>2, <1>3, <1>4, <1>5, <1>6, <1>7, <1>8 DEF Next

(* The files of the registry have their types, whoever commits, fails and   *)
(* crashes.                                                                 *)
LEMMA RegistryKept == Spec => []RegistryInv
<1>1. Init => RegistryInv
  BY InitSetup
<1>2. RegistryInv /\ [Next]_allVars => RegistryInv'
  <2> SUFFICES ASSUME RegistryInv, [Next]_allVars PROVE RegistryInv'
    OBVIOUS
  <2>1. RegistryStep \/ UNCHANGED registryVars
    BY NextRegistry DEF allVars
  <2> QED
    BY <2>1, StepKeeps
<1> QED
  BY <1>1, <1>2, PTL DEF Spec

(* A version whose commit was reported can be loaded ever after, as long as *)
(* no two processes chose it or an older one at the same time.              *)
THEOREM CommitsKept == Spec => []CommittedLoads
  BY RegistryKept, KeptLoads, PTL

-----------------------------------------------------------------------------
(* The coordinator.                                                        *)

\* The first check that refuses is one of the checks, and without one none refuses.
LEMMA LeastRefusal ==
  ASSUME NEW s, Len(s) \in Nat, NEW first,
         first = IF {i \in 1..Len(s) : s[i].refuses} # {}
                   THEN Min({i \in 1..Len(s) : s[i].refuses}) ELSE 0
  PROVE  /\ first \in 0..Len(s)
         /\ first = 0 => \A i \in 1..Len(s) : ~s[i].refuses
<1> DEFINE I == {i \in 1..Len(s) : s[i].refuses}
<1>1. first = IF I # {} THEN Min(I) ELSE 0
  OBVIOUS
<1>2. I \subseteq Nat /\ I \subseteq 1..Len(s)
  OBVIOUS
<1>3. CASE I # {}
  <2>1. \E x \in I : \A y \in I : x <= y
    BY <1>2, <1>3, LeastExists
  <2>2. Min(I) \in I
    BY <2>1 DEF Min
  <2> QED
    BY <1>1, <1>2, <1>3, <2>2
<1>4. CASE I = {}
  BY <1>1, <1>4
<1> QED
  BY <1>3, <1>4

\* What is known of a call of a tool that ran.
CheckedBy(how, c) ==
  LET m == Meta[c.tool]
  IN /\ c.layer \in (IF m.category = "ReadOnly" THEN {"workflow", "thinking"} ELSE {"workflow"})
     /\ how.mode \in {"agent", "yolo"}
     /\ m.force \/ (how.mode = "agent" /\ m.inAgent /\ m.category # "ReadOnly") => c.yes
     /\ m.schema => c.args \cap
          ({"fatal", "missing"}
             \cup (IF m.validation = "Ignore" THEN {} ELSE {"coercible", "unconvertible"})
             \cup (IF m.validation = "Warn" THEN {"foreign"} ELSE {})) = {}
     /\ m.category = "Execute" => "dangerous" \notin c.args
     /\ how.hooked => \A k \in DOMAIN how.pre :
          /\ how.pre[k] \notin {"deny", "throw closed"}
          /\ how.pre[k] = "refuse dangerous" /\ "dangerous" \in c.given =>
               \E j \in 1..(k-1) : how.pre[j] = "scrub"
Checked(c) == CheckedBy(config, c)

\* The calls in progress are of different tools, one inside the other.
StackInv ==
  /\ stack \in Seq(Nat)
  /\ Len(stack) <= 2
  /\ \A i \in 1..Len(stack) : stack[i] \in 1..Len(calls)
  /\ \A i, j \in 1..Len(stack) : calls[stack[i]].tool = calls[stack[j]].tool => i = j

CoordinatorInv ==
  /\ "requests" \in DOMAIN setup /\ setup.requests \subseteq Requests
  /\ config \in Configs
  /\ calls \in Seq(Call)
  /\ StackInv
  /\ \A i \in 1..Len(calls) : calls[i].ran => Checked(calls[i])

\* The conjuncts of Checked, from checks that do not refuse.
LEMMA Unrefused ==
  ASSUME NEW t \in Tool, NEW layer, NEW args \in SUBSET Fault, NEW cancelled, NEW human \in BOOLEAN,
         config \in Configs,
         FirstRefusal(t, layer, args, cancelled, human) = 0
  PROVE  /\ ~GuardThrows(t) /\ ~PreHooksDeny(args) /\ ~SchemaRejects(Meta[t], args)
         /\ ~RulesReject(Meta[t], Coerced(Meta[t], args))
         /\ ~(layer = "other") /\ LayerAllows(layer, Meta[t].category) /\ Approved(Meta[t], human)
<1> DEFINE s == Refusals(t, layer, args, cancelled, human)
<1>1. Len(s) = 8
  BY DEF Refusals
<1>2. /\ s[1].refuses <=> GuardThrows(t)
      /\ s[3].refuses <=> PreHooksDeny(args)
      /\ s[4].refuses <=> SchemaRejects(Meta[t], args)
      /\ s[5].refuses <=> RulesReject(Meta[t], Coerced(Meta[t], args))
      /\ s[6].refuses <=> layer = "other"
      /\ s[7].refuses <=> ~LayerAllows(layer, Meta[t].category)
      /\ s[8].refuses <=> ~Approved(Meta[t], human)
  BY DEF Refusals, AfterPreHooks
<1> HIDE DEF s
<1>3. 0 = IF {i \in 1..Len(s) : s[i].refuses} # {}
            THEN Min({i \in 1..Len(s) : s[i].refuses}) ELSE 0
  BY DEF FirstRefusal, SelectInSeq, s
<1>4. \A i \in 1..8 : ~s[i].refuses
  <2>1. Len(s) \in Nat
    BY <1>1
  <2>2. \A i \in 1..Len(s) : ~s[i].refuses
    BY <1>3, <2>1, LeastRefusal, Zenon
  <2> QED
    BY <1>1, <2>2
<1>5. /\ ~s[1].refuses /\ ~s[3].refuses /\ ~s[4].refuses /\ ~s[5].refuses
      /\ ~s[6].refuses /\ ~s[7].refuses /\ ~s[8].refuses
  BY <1>4
<1> QED
  BY <1>2, <1>5, Zenon

\* What a refusal leaves has its type.
LEMMA RefusalTypes ==
  ASSUME NEW t, NEW layer, NEW args, NEW cancelled, NEW human,
         NEW i \in 1..8
  PROVE  LET s == Refusals(t, layer, args, cancelled, human)
         IN /\ s[i].answer \in {"thrown", "PermissionDenied", "InvalidParams", "Unknown"}
            /\ s[i].events \in Seq({Start, End, Denied, Invoked, Completed, Cycle})
<1> DEFINE s == Refusals(t, layer, args, cancelled, human)
           E == Seq({Start, End, Denied, Invoked, Completed, Cycle})
<1>1. /\ <<>> \in E /\ <<Cycle>> \in E /\ <<Denied>> \in E /\ <<Start>> \in E
      /\ <<Start, Denied>> \in E
  OBVIOUS
<1>2. /\ s[1].events \in {<<>>, <<Cycle>>} /\ s[2].events = <<Denied>> /\ s[3].events = <<Denied>>
      /\ s[4].events = <<Denied>> /\ s[5].events = <<Denied>> /\ s[6].events = <<Start>>
      /\ s[7].events = <<Start, Denied>> /\ s[8].events = <<Start, Denied>>
  BY DEF Refusals
<1>3. /\ s[1].answer = "thrown" /\ s[2].answer = "PermissionDenied" /\ s[3].answer = "PermissionDenied"
      /\ s[4].answer = "InvalidParams" /\ s[5].answer = "InvalidParams" /\ s[6].answer = "Unknown"
      /\ s[7].answer = "PermissionDenied" /\ s[8].answer = "PermissionDenied"
  BY DEF Refusals
<1> HIDE DEF s, E
<1>4. i = 1 \/ i = 2 \/ i = 3 \/ i = 4 \/ i = 5 \/ i = 6 \/ i = 7 \/ i = 8
  OBVIOUS
<1>5. s[i].events \in E
  BY <1>1, <1>2, <1>4
<1>6. s[i].answer \in {"thrown", "PermissionDenied", "InvalidParams", "Unknown"}
  BY <1>3, <1>4
<1> QED
  BY <1>5, <1>6 DEF s, E

\* A call as Execute logs it.
Logged(t, layer, args, cancelled, human) ==
  \E c \in Call :
    /\ calls' = Append(calls, c)
    /\ c.tool = t /\ c.layer = layer /\ c.given = args
    /\ c.args = Coerced(Meta[t], args)
    /\ c.yes <=> FirstRefusal(t, layer, args, cancelled, human) = 0 /\ Asks(Meta[t]) /\ human
    /\ c.ran => FirstRefusal(t, layer, args, cancelled, human) = 0
    /\ \/ stack' = stack
       \/ /\ FirstRefusal(t, layer, args, cancelled, human) = 0
          /\ stack' = Append(stack, Len(calls) + 1)
    /\ UNCHANGED config

LEMMA NewCall ==
  ASSUME NEW t \in Tool, NEW layer \in Layer, NEW args \in SUBSET Fault, NEW cancelled \in BOOLEAN,
         NEW human \in BOOLEAN, Execute(t, layer, args, cancelled, human)
  PROVE  Logged(t, layer, args, cancelled, human)
<1> DEFINE s == Refusals(t, layer, args, cancelled, human)
           first == FirstRefusal(t, layer, args, cancelled, human)
           call(answer, events, ran) ==
             [tool |-> t, layer |-> layer, given |-> args, args |-> Coerced(Meta[t], AfterPreHooks(args)),
              yes |-> first = 0 /\ Asks(Meta[t]) /\ human,
              answer |-> answer, events |-> events, ran |-> ran]
           E == Seq({Start, End, Denied, Invoked, Completed, Cycle})
           Answers == {"running", "ok", "error", "thrown", "PermissionDenied", "InvalidParams", "Unknown"}
<1>1. /\ UNCHANGED config
      /\ \/ first # 0 /\ calls' = Append(calls, call(s[first].answer, s[first].events, FALSE)) /\ stack' = stack
         \/ /\ first = 0 /\ calls' = Append(calls, call("running", <<Start, Invoked>>, t \in registered))
            /\ stack' = Append(stack, Len(calls) + 1)
  BY DEF Execute
<1>2. first \in 0..8
  <2>1. Len(s) = 8
    BY DEF Refusals
  <2>2. PICK f : f = first
    OBVIOUS
  <2>3. f = IF {i \in 1..Len(s) : s[i].refuses} # {}
              THEN Min({i \in 1..Len(s) : s[i].refuses}) ELSE 0
    BY <2>2 DEF FirstRefusal, SelectInSeq
  <2> HIDE DEF s, first
  <2>4. Len(s) \in Nat
    BY <2>1
  <2>5. f \in 0..Len(s)
    BY <2>3, <2>4, LeastRefusal, Zenon
  <2> QED
    BY <2>1, <2>2, <2>5
<1>3. first # 0 => s[first].answer \in Answers /\ s[first].events \in E
  <2>1. ASSUME NEW i \in 1..8
        PROVE  s[i].answer \in Answers /\ s[i].events \in E
    BY RefusalTypes
  <2> HIDE DEF s, first, E, Answers
  <2> QED
    BY <1>2, <2>1
<1>4. Coerced(Meta[t], AfterPreHooks(args)) = Coerced(Meta[t], args) /\ Coerced(Meta[t], args) \subseteq Fault
  BY DEF Coerced, AfterPreHooks
<1>5. <<Start, Invoked>> \in E
  OBVIOUS
<1>6. ASSUME NEW answer \in Answers, NEW events \in E, NEW ran \in BOOLEAN
      PROVE  /\ call(answer, events, ran) \in Call
             /\ call(answer, events, ran).tool = t
             /\ call(answer, events, ran).layer = layer
             /\ call(answer, events, ran).given = args
             /\ call(answer, events, ran).args = Coerced(Meta[t], args)
             /\ call(answer, events, ran).yes <=> first = 0 /\ Asks(Meta[t]) /\ human
             /\ call(answer, events, ran).ran <=> ran
  <2> HIDE DEF s, first
  <2> QED
    BY <1>4 DEF Call
<1> HIDE DEF s, first, call, E
<1> SUFFICES \E c \in Call :
               /\ calls' = Append(calls, c)
               /\ c.tool = t /\ c.layer = layer /\ c.given = args
               /\ c.args = Coerced(Meta[t], args)
               /\ c.yes <=> first = 0 /\ Asks(Meta[t]) /\ human
               /\ c.ran => first = 0
               /\ stack' = stack \/ (first = 0 /\ stack' = Append(stack, Len(calls) + 1))
               /\ UNCHANGED config
  BY DEF first, s, Logged
<1>7. CASE first # 0
  <2>1. calls' = Append(calls, call(s[first].answer, s[first].events, FALSE)) /\ stack' = stack
        /\ UNCHANGED config
    BY <1>1, <1>7
  <2>2. s[first].answer \in Answers /\ s[first].events \in E /\ FALSE \in BOOLEAN
    BY <1>3, <1>7
  <2> HIDE DEF Answers
  <2> QED
    BY <1>6, <1>7, <2>1, <2>2
<1>8. CASE first = 0
  <2>1. calls' = Append(calls, call("running", <<Start, Invoked>>, t \in registered))
        /\ stack' = Append(stack, Len(calls) + 1) /\ UNCHANGED config
    BY <1>1, <1>8
  <2>2. "running" \in Answers /\ (t \in registered) \in BOOLEAN
    OBVIOUS
  <2> HIDE DEF Answers
  <2> QED
    BY <1>5, <1>6, <1>8, <2>1, <2>2
<1> QED
  BY <1>7, <1>8

\* What no check refused satisfies what the checks are there for.
LEMMA ChecksHold ==
  ASSUME NEW c \in Call, NEW human \in BOOLEAN, NEW cancelled, config \in Configs,
         c.args = Coerced(Meta[c.tool], c.given),
         c.yes <=> Asks(Meta[c.tool]) /\ human,
         FirstRefusal(c.tool, c.layer, c.given, cancelled, human) = 0
  PROVE  Checked(c) /\ ~GuardThrows(c.tool)
<1>1. c.tool \in Tool /\ c.given \in SUBSET Fault /\ c.layer \in Layer
  BY DEF Call
<1>2. PICK m : m = Meta[c.tool]
  OBVIOUS
<1>3. /\ ~GuardThrows(c.tool) /\ ~PreHooksDeny(c.given) /\ ~SchemaRejects(m, c.given)
      /\ ~RulesReject(m, Coerced(m, c.given))
      /\ LayerAllows(c.layer, m.category) /\ Approved(m, human)
  BY <1>1, <1>2, Unrefused
<1>4. m \in [category : Category, force : BOOLEAN, inAgent : BOOLEAN, schema : BOOLEAN,
             validation : Validation]
  BY <1>1, <1>2, CoordinatorAssumption
<1>5. config.callback \in BOOLEAN /\ config.hooked \in BOOLEAN
  BY CoordinatorAssumption
<1>6. c.layer \in (IF m.category = "ReadOnly" THEN {"workflow", "thinking"} ELSE {"workflow"})
  BY <1>3 DEF LayerAllows
<1>7. config.mode \in {"agent", "yolo"}
  BY <1>3 DEF Approved, ShouldExecute
<1>8. m.force \/ (config.mode = "agent" /\ m.inAgent /\ m.category # "ReadOnly") => c.yes
  <2>1. m.force \/ (config.mode = "agent" /\ m.inAgent /\ m.category # "ReadOnly") =>
          ~CanSkip(m) /\ RequiresApproval(m)
    BY <1>4 DEF CanSkip, RequiresApproval
  <2> QED
    BY <1>2, <1>3, <1>5, <2>1 DEF Approved, Asks
<1>9. m.schema => c.args \cap
          ({"fatal", "missing"}
             \cup (IF m.validation = "Ignore" THEN {} ELSE {"coercible", "unconvertible"})
             \cup (IF m.validation = "Warn" THEN {"foreign"} ELSE {})) = {}
  <2>1. c.args \subseteq c.given
    BY <1>2 DEF Coerced
  <2>2. m.schema /\ m.validation = "Warn" => "coercible" \notin c.args
    BY <1>2 DEF Coerced
  <2>3. m.validation \in {"Strict", "Warn", "Ignore"}
    BY <1>4 DEF Validation
  <2> QED
    BY <1>3, <2>1, <2>2, <2>3 DEF SchemaRejects
<1>10. m.category = "Execute" => "dangerous" \notin c.args
  BY <1>2, <1>3 DEF RulesReject
<1>11. ASSUME config.hooked, NEW k \in DOMAIN config.pre
       PROVE  /\ config.pre[k] \notin {"deny", "throw closed"}
              /\ config.pre[k] = "refuse dangerous" /\ "dangerous" \in c.given =>
                   \E j \in 1..(k-1) : config.pre[j] = "scrub"
  <2>1. /\ config.pre[k] \notin {"deny", "throw closed"}
        /\ ~(config.pre[k] = "refuse dangerous" /\ "dangerous" \in Seen(k, c.given))
    BY <1>3, <1>11, Zenon DEF PreHooksDeny
  <2>2. "dangerous" \in c.given /\ ~(\E j \in 1..(k-1) : config.pre[j] = "scrub")
          => "dangerous" \in Seen(k, c.given)
    BY Zenon DEF Seen
  <2> QED
    BY <2>1, <2>2
<1> QED
  BY <1>2, <1>3, <1>6, <1>7, <1>8, <1>9, <1>10, <1>11 DEF Checked, CheckedBy

LEMMA ExecuteStep ==
  ASSUME CoordinatorInv, NEW t \in Tool, NEW layer \in Layer, NEW args \in SUBSET Fault,
         NEW cancelled \in BOOLEAN, NEW human \in BOOLEAN,
         Execute(t, layer, args, cancelled, human), setup' = setup
  PROVE  CoordinatorInv'
<1> DEFINE first == FirstRefusal(t, layer, args, cancelled, human)
<1>0. ASSUME NEW c \in Call, c.tool = t, c.layer = layer, c.given = args,
             FirstRefusal(t, layer, args, cancelled, human) = 0
      PROVE  FirstRefusal(c.tool, c.layer, c.given, cancelled, human) = 0
  BY <1>0
<1>1. Logged(t, layer, args, cancelled, human)
  BY NewCall
<1>2. PICK c \in Call :
        /\ calls' = Append(calls, c)
        /\ c.tool = t /\ c.layer = layer /\ c.given = args
        /\ c.args = Coerced(Meta[t], args)
        /\ c.yes <=> first = 0 /\ Asks(Meta[t]) /\ human
        /\ c.ran => first = 0
        /\ stack' = stack \/ (first = 0 /\ stack' = Append(stack, Len(calls) + 1))
        /\ UNCHANGED config
  BY <1>1 DEF Logged
<1> HIDE DEF first
<1>3. config \in Configs /\ calls \in Seq(Call) /\ StackInv
  BY DEF CoordinatorInv
<1>4. first = 0 => Checked(c) /\ ~GuardThrows(c.tool)
  <2>1. config \in Configs
    BY <1>3
  <2> QED
    BY <1>0, <1>2, <2>1, ChecksHold DEF first
<1>5. /\ calls' \in Seq(Call) /\ Len(calls') = Len(calls) + 1 /\ Len(calls) \in Nat
      /\ \A i \in 1..Len(calls) : calls'[i] = calls[i]
      /\ calls'[Len(calls) + 1] = c
  BY <1>2, <1>3
<1>7. \A i \in 1..Len(calls') : calls'[i].ran => Checked(calls'[i])
  <2>1. ASSUME NEW i \in 1..Len(calls)
        PROVE  calls'[i].ran => Checked(calls'[i])
    BY <1>5, <2>1 DEF CoordinatorInv
  <2>2. calls'[Len(calls) + 1].ran => Checked(calls'[Len(calls) + 1])
    BY <1>2, <1>4, <1>5
  <2> QED
    BY <1>5, <2>1, <2>2
<1>8. StackInv'
  <2>1. CASE stack' = stack
    <3>1. \A i \in 1..Len(stack) : stack[i] \in 1..Len(calls) /\ calls'[stack[i]] = calls[stack[i]]
      BY <1>3, <1>5 DEF StackInv
    <3>2. \A i \in 1..Len(stack) : stack[i] \in 1..Len(calls')
      BY <1>5, <3>1
    <3> QED
      BY <1>3, <2>1, <3>1, <3>2 DEF StackInv
  <2>2. CASE first = 0 /\ stack' = Append(stack, Len(calls) + 1)
    <3>1. stack \in Seq(Nat) /\ Len(stack) \in Nat
      BY <1>3 DEF StackInv
    <3>2. ~(Len(stack) >= 2) /\ \A i \in 1..Len(stack) : calls[stack[i]].tool # c.tool
      BY <1>4, <2>2, <3>1 DEF GuardThrows, Active
    <3>3. /\ stack' \in Seq(Nat) /\ Len(stack') = Len(stack) + 1
          /\ \A i \in 1..Len(stack) : stack'[i] = stack[i]
          /\ stack'[Len(stack) + 1] = Len(calls) + 1
      BY <1>5, <2>2, <3>1
    <3>4. \A i \in 1..Len(stack) : stack[i] \in 1..Len(calls) /\ calls'[stack'[i]] = calls[stack[i]]
      BY <1>3, <1>5, <3>3 DEF StackInv
    <3>5. calls'[stack'[Len(stack) + 1]] = c
      BY <1>5, <3>3
    <3>6. \A i \in 1..Len(stack') : i \in 1..Len(stack) \/ i = Len(stack) + 1
      BY <3>1, <3>3
    <3>7. \A i \in 1..Len(stack') : stack'[i] \in 1..Len(calls')
      BY <1>5, <3>3, <3>4, <3>6
    <3>8. \A i, j \in 1..Len(stack') : calls'[stack'[i]].tool = calls'[stack'[j]].tool => i = j
      BY <1>3, <3>2, <3>4, <3>5, <3>6 DEF StackInv
    <3> QED
      BY <3>1, <3>2, <3>3, <3>7, <3>8 DEF StackInv
  <2> QED
    BY <1>2, <2>1, <2>2
<1>9. \A i \in 1..Len(calls') : calls'[i].ran => Checked(calls[i])'
  BY <1>2, <1>7 DEF Checked
<1> QED
  BY <1>2, <1>3, <1>5, <1>8, <1>9 DEF CoordinatorInv

LEMMA SameChecked ==
  ASSUME NEW c, NEW d, Checked(c),
         d.tool = c.tool, d.layer = c.layer, d.given = c.given, d.args = c.args, d.yes = c.yes
  PROVE  Checked(d)
BY DEF Checked, CheckedBy

\* A call ends: what is known of the calls stays, and the innermost leaves the stack.
LEMMA EndStep ==
  ASSUME CoordinatorInv, stack # <<>>, stack' = Front(stack), UNCHANGED <<config, setup>>,
         calls' \in Seq(Call), Len(calls') = Len(calls),
         \A i \in 1..Len(calls) :
           /\ calls'[i].tool = calls[i].tool /\ calls'[i].layer = calls[i].layer
           /\ calls'[i].given = calls[i].given /\ calls'[i].args = calls[i].args
           /\ calls'[i].yes = calls[i].yes /\ calls'[i].ran = calls[i].ran
  PROVE  CoordinatorInv'
<1>1. stack \in Seq(Nat) /\ Len(stack) \in Nat \ {0}
  BY DEF CoordinatorInv, StackInv
<1>2. /\ stack' \in Seq(Nat) /\ Len(stack') = Len(stack) - 1
      /\ \A i \in 1..Len(stack') : stack'[i] = stack[i]
  <2>1. PICK n \in Nat : n = Len(stack) - 1
    BY <1>1
  <2>2. stack' = SubSeq(stack, 1, n)
    BY <2>1 DEF Front
  <2>3. 1 \in 1..Len(stack)+1 /\ n \in 0..Len(stack)
    BY <1>1, <2>1
  <2>4. SubSeq(stack, 1, n) \in Seq(Nat) /\ Len(SubSeq(stack, 1, n)) = n
    BY <1>1, <2>1, <2>3
  <2>5. \A i \in 1..n : SubSeq(stack, 1, n)[i] = stack[i]
    BY <1>1, <2>1, <2>3
  <2> QED
    BY <2>1, <2>2, <2>4, <2>5
<1>3. StackInv'
  BY <1>1, <1>2 DEF CoordinatorInv, StackInv
<1>4. \A i \in 1..Len(calls) : calls'[i].ran => Checked(calls[i])
  BY DEF CoordinatorInv
<1>5. \A i \in 1..Len(calls) : calls'[i].ran => Checked(calls[i])'
  <2> SUFFICES ASSUME NEW i \in 1..Len(calls), calls'[i].ran
               PROVE  Checked(calls[i])'
    OBVIOUS
  <2>1. Checked(calls'[i])
    BY <1>4, SameChecked
  <2> QED
    BY <2>1 DEF Checked, CheckedBy
<1> QED
  BY <1>3, <1>5 DEF CoordinatorInv

\* Its result and its events are all that a call gets when it ends.
LEMMA EndingCalls ==
  ASSUME CoordinatorInv, UNCHANGED setup,
         (\E ok \in BOOLEAN : ToolEnds(ok)) \/ ToolEscapes
  PROVE  CoordinatorInv'
<1>1. stack \in Seq(Nat) /\ calls \in Seq(Call) /\ Len(calls) \in Nat
  BY DEF CoordinatorInv, StackInv
<1>2. stack # <<>> /\ stack' = Front(stack) /\ UNCHANGED config
  BY DEF ToolEnds, ToolEscapes
<1>3. PICK now : now = Last(stack)
  OBVIOUS
<1>4. now \in 1..Len(calls)
  BY <1>1, <1>2, <1>3 DEF CoordinatorInv, StackInv, Last
<1>5. PICK answer \in {"ok", "error", "thrown"},
           events \in Seq({Start, End, Denied, Invoked, Completed, Cycle}) :
             calls' = [calls EXCEPT ![now] = [[calls[now] EXCEPT !.answer = answer] EXCEPT !.events = events]]
  <2>1. calls[now] \in Call
    BY <1>1, <1>4
  <2>2. CASE ToolEscapes
    <3>1. calls' = [calls EXCEPT ![now] = [@ EXCEPT !.answer = "thrown"]]
      BY <1>3, <2>2 DEF ToolEscapes
    <3>2. [calls[now] EXCEPT !.answer = "thrown"] =
            [[calls[now] EXCEPT !.answer = "thrown"] EXCEPT !.events = calls[now].events]
      BY <2>1 DEF Call
    <3>3. calls' = [calls EXCEPT ![now] =
                      [[calls[now] EXCEPT !.answer = "thrown"] EXCEPT !.events = calls[now].events]]
      BY <3>1, <3>2, <1>1, <1>4
    <3>4. calls[now].events \in Seq({Start, End, Denied, Invoked, Completed, Cycle})
      BY <2>1 DEF Call
    <3> QED
      BY <3>3, <3>4
  <2>3. CASE \E ok \in BOOLEAN : ToolEnds(ok)
    <3>1. PICK ok \in BOOLEAN : ToolEnds(ok)
      BY <2>3
    <3> DEFINE more == IF config.hooked /\ ~AfterPostHooks(ok) THEN <<Denied>> ELSE <<Completed, End>>
               answer == IF AfterPostHooks(ok) THEN "ok" ELSE "error"
    <3>2. calls' = [calls EXCEPT ![now].answer = answer, ![now].events = @ \o more]
      BY <1>3, <3>1 DEF ToolEnds
    <3>3. more \in Seq({Start, End, Denied, Invoked, Completed, Cycle})
      <4>1. /\ <<Denied>> \in Seq({Start, End, Denied, Invoked, Completed, Cycle})
            /\ <<Completed, End>> \in Seq({Start, End, Denied, Invoked, Completed, Cycle})
        OBVIOUS
      <4> QED
        BY <4>1, Zenon
    <3>4. answer \in {"ok", "error", "thrown"}
      OBVIOUS
    <3> HIDE DEF more, answer
    <3>5. calls[now].events \o more \in Seq({Start, End, Denied, Invoked, Completed, Cycle})
      BY <2>1, <3>3 DEF Call
    <3>6. calls' = [calls EXCEPT ![now] =
                      [[calls[now] EXCEPT !.answer = answer] EXCEPT !.events = calls[now].events \o more]]
      BY <1>1, <1>4, <2>1, <3>2 DEF Call
    <3> QED
      BY <3>4, <3>5, <3>6
  <2> QED
    BY <2>2, <2>3
<1>8. PICK d : d = [[calls[now] EXCEPT !.answer = answer] EXCEPT !.events = events]
  OBVIOUS
<1>9. calls' = [calls EXCEPT ![now] = d]
  BY <1>5, <1>8
<1>10. /\ d \in Call
       /\ d.tool = calls[now].tool /\ d.layer = calls[now].layer
       /\ d.given = calls[now].given /\ d.args = calls[now].args
       /\ d.yes = calls[now].yes /\ d.ran = calls[now].ran
  <2>1. calls[now] \in Call
    BY <1>1, <1>4
  <2> QED
    BY <1>8, <2>1 DEF Call
<1>7. calls' \in Seq(Call) /\ Len(calls') = Len(calls)
  BY <1>1, <1>4, <1>9, <1>10
<1>6. ASSUME NEW i \in 1..Len(calls)
      PROVE  /\ calls'[i].tool = calls[i].tool /\ calls'[i].layer = calls[i].layer
             /\ calls'[i].given = calls[i].given /\ calls'[i].args = calls[i].args
             /\ calls'[i].yes = calls[i].yes /\ calls'[i].ran = calls[i].ran
  <2>1. calls'[i] = IF i = now THEN d ELSE calls[i]
    BY <1>1, <1>6, <1>9
  <2> QED
    BY <1>10, <2>1
<1> QED
  BY <1>2, <1>6, <1>7, EndStep

\* What leaves the calls and their stack alone.
LEMMA OtherSteps ==
  ASSUME CoordinatorInv, UNCHANGED <<config, stack, calls>>,
         setup'.requests = setup.requests, "requests" \in DOMAIN setup'
  PROVE  CoordinatorInv'
<1>1. StackInv'
  BY DEF CoordinatorInv, StackInv
<1>2. \A i \in 1..Len(calls) : calls[i].ran => Checked(calls[i])'
  BY DEF CoordinatorInv, Checked
<1> QED
  BY <1>1, <1>2 DEF CoordinatorInv

LEMMA NextCoordinator ==
  ASSUME CoordinatorInv, [Next]_allVars
  PROVE  CoordinatorInv'
<1>1. CASE HostCalls
  <2>1. PICK r \in setup.requests, cancelled \in BOOLEAN, human \in BOOLEAN :
          Execute(r.tool, r.layer, r.args, cancelled, human)
    BY <1>1 DEF HostCalls
  <2>2. r.tool \in Tool /\ r.layer \in Layer /\ r.args \in SUBSET Fault
    BY DEF CoordinatorInv, Requests
  <2>3. setup' = setup
    BY <1>1 DEF HostCalls, CallsFrame, evolutionVars
  <2> QED
    BY <2>1, <2>2, <2>3, ExecuteStep
<1>2. CASE ToolReturns \/ ToolLeaves
  BY <1>2, EndingCalls DEF ToolReturns, ToolLeaves, CallsFrame, evolutionVars
<1>3. CASE HostMutates \/ HostUndoes
  <2>1. UNCHANGED <<config, stack, calls>>
    BY <1>3 DEF HostMutates, HostMutatesFrom, HostUndoes, coordinatorVars
  <2>2. setup'.requests = setup.requests /\ "requests" \in DOMAIN setup'
    BY <1>3 DEF HostMutates, HostMutatesFrom, HostUndoes, CoordinatorInv
  <2> QED
    BY <2>1, <2>2, OtherSteps
<1>4. CASE UNCHANGED <<config, stack, calls, setup>>
  BY <1>4, OtherSteps DEF CoordinatorInv
<1>5. CASE HostApplies \/ HostGivesUp \/ HostRegisters
  BY <1>5, <1>4 DEF HostApplies, HostGivesUp, HostRegisters, coordinatorVars, evolutionVars
<1>6. CASE GepaProposes \/ GepaGenerates \/ GepaCommits \/ GepaCannotStore
  BY <1>6, <1>4 DEF GepaProposes, GepaGenerates, GepaCommits, GepaCannotStore, GepaFrame, coordinatorVars
<1>7. CASE OthersPropose \/ OthersCommit \/ OthersRevert \/ Committing \/ Crashes
  BY <1>7, <1>4 DEF OthersPropose, OthersCommit, OthersRevert, OthersHear, Committing, Crashes,
                    coordinatorVars, evolutionVars
<1>8. CASE UNCHANGED allVars
  BY <1>8, <1>4 DEF allVars, coordinatorVars, evolutionVars
<1>9. CASE HostLoads \/ HostLoadsAll \/ HostUnloads \/ HostCreates
  <2>1. UNCHANGED <<config, stack, calls>>
    BY <1>9 DEF HostLoads, HostLoadsAll, HostUnloads, HostCreates, HostAsksLoader, LoaderFrame
  <2>2. setup'.requests = setup.requests /\ "requests" \in DOMAIN setup'
    BY <1>9 DEF HostLoads, HostLoadsAll, HostUnloads, HostCreates, HostAsksLoader, CoordinatorInv
  <2> QED
    BY <2>1, <2>2, OtherSteps
<1>10. CASE LoadAllGoesOn \/ HostEnds \/ HostFalls
  BY <1>10, <1>4 DEF LoadAllGoesOn, HostEnds, HostFalls, LoaderFrame, evolutionVars
<1> QED
  BY <1>1, <1>2, <1>3, <1>5, <1>6, <1>7, <1>8, <1>9, <1>10 DEF Next

LEMMA InitCoordinator ==
  ASSUME Init
  PROVE  CoordinatorInv
<1>1. setup \in Setups /\ config = setup.config /\ stack = <<>> /\ calls = <<>>
  BY DEF Init, CoordinatorInit
<1>2. setup.requests \subseteq Requests /\ "requests" \in DOMAIN setup /\ setup.config \in Configs
  BY <1>1, SetupsAssumption
<1> QED
  BY <1>1, <1>2 DEF CoordinatorInv, StackInv

LEMMA CoordinatorChecks ==
  ASSUME CoordinatorInv
  PROVE  ChecksBeforeTool
<1>1. DOMAIN stack = 1..Len(stack) /\ DOMAIN calls = 1..Len(calls)
  BY DEF CoordinatorInv, StackInv
<1>2. \A i \in DOMAIN calls : calls[i].ran => Checked(calls[i])
  BY <1>1 DEF CoordinatorInv
<1>3. Len(stack) <= 2 /\ \A i, j \in DOMAIN stack : calls[stack[i]].tool = calls[stack[j]].tool => i = j
  BY <1>1 DEF CoordinatorInv, StackInv
<1> QED
  BY <1>2, <1>3, Zenon DEF ChecksBeforeTool, Checked, CheckedBy

(* No tool runs before every check on it has passed, and calls nest at most *)
(* twice and never in a circle, whatever the agent is changed to meanwhile. *)
THEOREM ToolsChecked == Spec => []ChecksBeforeTool
<1>1. Spec => []CoordinatorInv
  BY InitCoordinator, NextCoordinator, PTL DEF Spec
<1>2. CoordinatorInv => ChecksBeforeTool
  BY CoordinatorChecks
<1> QED
  BY <1>1, <1>2, PTL

-----------------------------------------------------------------------------
(* The plugins.                                                            *)

Entries(f) == {i \in DOMAIN loaded : loaded[i].file = f}

\* What is handed out of a mapping finds it, or the mapping was undone.
Holds(m) == IsMapped(m) \/ m \in dropped

\* An entry names the mapping its file has now, and there is a handle for each.
PluginInv ==
  /\ registered \subseteq Tool
  /\ loaded \in Seq(Mappings) /\ providers \subseteq Mappings
  /\ handles \in [Plugin -> Nat] /\ mapped \in [Plugin -> Nat] /\ started \in [Plugin -> Nat]
  /\ code \in [Tool -> Mappings \cup {BuiltIn}]
  /\ \A i \in 1..Len(loaded) : loaded[i].number = mapped[loaded[i].file]
  /\ \A f \in Plugin : handles[f] > 0 => mapped[f] > 0
  /\ \A f \in Plugin : /\ handles[f] >= Cardinality(Entries(f))
                       /\ handles[f] > Cardinality(Entries(f)) => f \in leaked
                       /\ Exports[f].fini => started[f] = Cardinality(Entries(f))
  /\ \A t \in registered : Holds(code[t])
  /\ \A p \in providers : Holds(p)
  /\ engine = "fallen" => dropped # {}

LEMMA BuiltInApart ==
  ASSUME NEW m \in Mappings
  PROVE  m # BuiltIn
<1>1. m.number # 0
  BY DEF Mappings
<1>2. BuiltIn.number = 0
  BY DEF BuiltIn
<1> QED
  BY <1>1, <1>2

LEMMA EntriesFinite ==
  ASSUME loaded \in Seq(Mappings), NEW f
  PROVE  /\ IsFiniteSet(Entries(f)) /\ Cardinality(Entries(f)) \in Nat
         /\ Entries(f) \subseteq 1..Len(loaded)
         /\ Cardinality(Entries(f)) = 0 <=> Entries(f) = {}
<1>1. Entries(f) \subseteq 1..Len(loaded)
  BY DEF Entries
<1>2. IsFiniteSet(1..Len(loaded))
  BY FS_Interval
<1>3. IsFiniteSet(Entries(f))
  BY <1>1, <1>2, FS_Subset
<1> QED
  BY <1>1, <1>3, FS_CardinalityType, FS_EmptySet

\* A listed file is open.
LEMMA ListedIsOpen ==
  ASSUME PluginInv, NEW i \in 1..Len(loaded)
  PROVE  IsMapped(loaded[i]) /\ loaded[i] \in Mappings /\ loaded[i].file \in Plugin
<1> DEFINE f == loaded[i].file
<1>0. loaded[i] \in Mappings
  BY DEF PluginInv
<1>1. loaded[i] \in Mappings /\ f \in Plugin
  BY <1>0 DEF Mappings
<1>2. i \in Entries(f)
  BY DEF PluginInv, Entries
<1>3. Cardinality(Entries(f)) > 0
  BY <1>2, EntriesFinite DEF PluginInv
<1>4. handles[f] > 0
  BY <1>1, <1>3, EntriesFinite DEF PluginInv
<1> QED
  BY <1>1, <1>4 DEF IsMapped, PluginInv

\* One entry more.
LEMMA EntriesAppend ==
  ASSUME loaded \in Seq(Mappings), NEW m \in Mappings, loaded' = Append(loaded, m), NEW f
  PROVE  Cardinality(Entries(f))' =
           IF m.file = f THEN Cardinality(Entries(f)) + 1 ELSE Cardinality(Entries(f))
<1> DEFINE n == Len(loaded) + 1
<1>1. /\ DOMAIN loaded' = 1..n /\ n \notin 1..Len(loaded) /\ n \in 1..n
      /\ loaded'[n] = m /\ \A i \in 1..Len(loaded) : loaded'[i] = loaded[i]
      /\ DOMAIN loaded = 1..Len(loaded) /\ 1..n = 1..Len(loaded) \cup {n}
  OBVIOUS
<1> HIDE DEF n
<1>2. Entries(f)' = IF m.file = f THEN Entries(f) \cup {n} ELSE Entries(f)
  BY <1>1 DEF Entries
<1>3. n \notin Entries(f) /\ IsFiniteSet(Entries(f))
  BY <1>1, EntriesFinite DEF Entries
<1>4. Cardinality(Entries(f) \cup {n}) = Cardinality(Entries(f)) + 1
  BY <1>3, FS_AddElement
<1>5. CASE m.file = f
  BY <1>2, <1>4, <1>5
<1>6. CASE m.file # f
  BY <1>2, <1>6
<1> QED
  BY <1>5, <1>6

\* One entry less: those behind it move up.
LEMMA EntriesRemove ==
  ASSUME loaded \in Seq(Mappings), NEW k \in 1..Len(loaded), loaded' = RemoveAt(loaded, k), NEW f
  PROVE  /\ loaded' \in Seq(Mappings)
         /\ Cardinality(Entries(f))' =
              IF loaded[k].file = f THEN Cardinality(Entries(f)) - 1 ELSE Cardinality(Entries(f))
         /\ \A i \in 1..Len(loaded') : \E j \in 1..Len(loaded) : loaded'[i] = loaded[j]
<1> DEFINE n == Len(loaded)
           from(i) == IF i < k THEN i ELSE i + 1
<1>1. /\ loaded' \in Seq(Mappings) /\ Len(loaded') = n - 1
      /\ \A i \in 1..(n - 1) : loaded'[i] = loaded[from(i)]
  <2> DEFINE a == SubSeq(loaded, 1, k - 1)
             b == SubSeq(loaded, k + 1, n)
  <2>1. /\ a \in Seq(Mappings) /\ Len(a) = k - 1
        /\ \A i \in 1..(k - 1) : a[i] = loaded[i]
    OBVIOUS
  <2>2. /\ b \in Seq(Mappings) /\ Len(b) = n - k
        /\ \A i \in 1..(n - k) : b[i] = loaded[k + i]
    OBVIOUS
  <2>3. loaded' = a \o b
    BY DEF RemoveAt
  <2> HIDE DEF a, b
  <2>4. /\ a \o b \in Seq(Mappings) /\ Len(a \o b) = n - 1
        /\ \A i \in 1..(n - 1) : (a \o b)[i] = IF i < k THEN a[i] ELSE b[i - (k - 1)]
    <3>1. /\ a \o b \in Seq(Mappings) /\ Len(a \o b) = Len(a) + Len(b)
          /\ \A i \in 1..(Len(a) + Len(b)) :
               (a \o b)[i] = IF i <= Len(a) THEN a[i] ELSE b[i - Len(a)]
      BY <2>1, <2>2, ConcatProperties
    <3>2. n \in Nat /\ k \in 1..n /\ Len(a) + Len(b) = n - 1
      BY <2>1, <2>2
    <3>3. \A i \in 1..(n - 1) : i <= Len(a) <=> i < k
      BY <2>1, <3>2
    <3> QED
      BY <2>1, <3>1, <3>2, <3>3
  <2>5. \A i \in 1..(n - 1) : (a \o b)[i] = loaded[from(i)]
    <3> TAKE i \in 1..(n - 1)
    <3>1. CASE i < k
      BY <2>1, <2>4, <3>1
    <3>2. CASE ~(i < k)
      <4>1. i - (k - 1) \in 1..(n - k) /\ k + (i - (k - 1)) = i + 1
        BY <3>2
      <4> QED
        BY <2>2, <2>4, <3>2, <4>1
    <3> QED
      BY <3>1, <3>2
  <2> QED
    BY <2>3, <2>4, <2>5
<1>2. n \in Nat /\ k \in 1..n /\ DOMAIN loaded = 1..n /\ DOMAIN loaded' = 1..(n - 1)
  BY <1>1
<1> DEFINE g == [i \in Entries(f)' |-> from(i)]
           rest == Entries(f) \ {k}
<1>3. \A i \in Entries(f)' : i \in 1..(n - 1) /\ loaded[from(i)].file = f
  BY <1>1, <1>2 DEF Entries
<1>4. \A i \in 1..(n - 1) : from(i) \in 1..n /\ from(i) # k
  BY <1>2
<1>5. \A i \in Entries(f)' : from(i) \in rest
  BY <1>2, <1>3, <1>4 DEF Entries
<1>6. \A i, j \in 1..(n - 1) : from(i) = from(j) => i = j
  BY <1>2
<1>7. \A j \in 1..n : j # k => \E i \in 1..(n - 1) : from(i) = j
  <2> TAKE j \in 1..n
  <2> HAVE j # k
  <2>1. CASE j < k
    <3>1. j \in 1..(n - 1) /\ from(j) = j
      BY <1>2, <2>1
    <3> QED
      BY <3>1
  <2>2. CASE j > k
    <3>1. j - 1 \in 1..(n - 1) /\ from(j - 1) = j
      BY <1>2, <2>2
    <3> QED
      BY <3>1
  <2> QED
    BY <1>2, <2>1, <2>2
<1>8. \A j \in rest : \E i \in Entries(f)' : from(i) = j
  <2> TAKE j \in rest
  <2>1. j \in 1..n /\ j # k /\ loaded[j].file = f
    BY <1>2 DEF Entries
  <2>2. PICK i \in 1..(n - 1) : from(i) = j
    BY <1>7, <2>1
  <2>3. loaded'[i].file = f
    BY <1>1, <2>1, <2>2
  <2>4. i \in Entries(f)'
    BY <1>2, <2>3 DEF Entries
  <2> QED
    BY <2>2, <2>4
<1> HIDE DEF from, n
<1>9. g \in Bijection(Entries(f)', rest)
  <2>1. g \in [Entries(f)' -> rest]
    BY <1>5
  <2>2. \A a, b \in Entries(f)' : g[a] = g[b] => a = b
    BY <1>3, <1>6
  <2>3. \A t \in rest : \E s \in Entries(f)' : g[s] = t
    BY <1>8
  <2> QED
    BY <2>1, <2>2, <2>3 DEF Bijection, Injection, Surjection, IsInjective
<1>10. IsFiniteSet(Entries(f)')
  <2>1. Entries(f)' \subseteq 1..(n - 1)
    BY <1>3
  <2>2. IsFiniteSet(1..(n - 1))
    BY <1>2, FS_Interval
  <2> QED
    BY <2>1, <2>2, FS_Subset
<1>11. Cardinality(rest) = Cardinality(Entries(f)')
  BY <1>9, <1>10, FS_Bijection DEF ExistsBijection
<1>12. Cardinality(rest) = IF k \in Entries(f) THEN Cardinality(Entries(f)) - 1 ELSE Cardinality(Entries(f))
  BY EntriesFinite, FS_RemoveElement
<1>13. k \in Entries(f) <=> loaded[k].file = f
  BY <1>2 DEF Entries
<1>14. \A i \in 1..Len(loaded') : \E j \in 1..Len(loaded) : loaded'[i] = loaded[j]
  BY <1>1, <1>2, <1>4 DEF n
<1> QED
  BY <1>1, <1>11, <1>12, <1>13, <1>14

\* What an undone handle leaves: it holds, if there were handles for the entries that go.
LEMMA FinishHolds ==
  ASSUME PluginInv, NEW entries \in SUBSET (1..Len(loaded)), Finish(entries), mapped' = mapped,
         NEW m \in Mappings \cup {BuiltIn}, Holds(m)
  PROVE  Holds(m)'
<1> DEFINE of(f) == Cardinality({i \in entries : loaded[i].file = f})
<1>1. /\ handles' = [f \in Plugin |-> handles[f] - of(f)]
      /\ dropped' = dropped \cup {loaded[i] : i \in {j \in entries :
                                   handles[loaded[j].file] = of(loaded[j].file)}}
  BY DEF Finish
<1>2. CASE m = BuiltIn \/ m \in dropped
  BY <1>1, <1>2 DEF Holds, IsMapped
<1>3. CASE m # BuiltIn /\ m \notin dropped
  <2> DEFINE f == m.file
             gone == {i \in entries : loaded[i].file = f}
  <2>1. /\ m \in Mappings /\ f \in Plugin /\ handles[f] > 0 /\ mapped[f] = m.number
        /\ handles[f] \in Nat
    BY <1>3 DEF Holds, IsMapped, Mappings, PluginInv
  <2>2. gone \subseteq Entries(f) /\ IsFiniteSet(Entries(f))
    <3>1. loaded \in Seq(Mappings)
      BY DEF PluginInv
    <3>2. DOMAIN loaded = 1..Len(loaded) /\ IsFiniteSet(Entries(f))
      BY <3>1, EntriesFinite
    <3> QED
      BY <3>2 DEF Entries
  <2>3. IsFiniteSet(gone) /\ of(f) \in Nat /\ of(f) <= Cardinality(Entries(f))
        /\ (of(f) = 0 <=> gone = {})
    <3>1. IsFiniteSet(gone) /\ Cardinality(gone) <= Cardinality(Entries(f))
      BY <2>2, FS_Subset
    <3>2. Cardinality(gone) \in Nat
      BY <3>1, FS_CardinalityType
    <3>3. Cardinality(gone) = 0 <=> gone = {}
      BY <3>1, FS_EmptySet
    <3> QED
      BY <3>1, <3>2, <3>3
  <2>4. of(f) <= handles[f]
    BY <2>1, <2>3, EntriesFinite DEF PluginInv
  <2>5. CASE of(f) < handles[f]
    <3>1. handles'[f] > 0
      BY <1>1, <2>1, <2>3, <2>5
    <3> QED
      BY <1>3, <2>1, <3>1 DEF Holds, IsMapped
  <2>6. CASE of(f) = handles[f]
    <3>0. of(f) # 0
      BY <2>1, <2>6
    <3>1. PICK i \in gone : TRUE
      BY <2>3, <3>0
    <3>2. i \in 1..Len(loaded) /\ loaded[i].file = f
      BY <3>1
    <3>5. loaded[i] \in Mappings /\ loaded[i].number = mapped[f]
      BY <3>2, ListedIsOpen DEF PluginInv
    <3>3. loaded[i] = m
      BY <2>1, <3>2, <3>5 DEF Mappings
    <3>4. loaded[i] \in dropped'
      BY <1>1, <2>6, <3>1, <3>2
    <3> QED
      BY <3>3, <3>4 DEF Holds
  <2> QED
    BY <2>3, <2>4, <2>5, <2>6, <2>1
<1> QED
  BY <1>2, <1>3

\* The position of a name in the list, or 0.
LEMMA NamedIsListed ==
  ASSUME loaded \in Seq(Mappings), NEW name, FirstNamed(name) # 0
  PROVE  FirstNamed(name) \in 1..Len(loaded)
<1> DEFINE I == {i \in 1..Len(loaded) : Exports[loaded[i].file].name = name}
<1>1. FirstNamed(name) = IF I # {} THEN Min(I) ELSE 0
  BY DEF FirstNamed, SelectInSeq
<1>2. I \subseteq Nat /\ I \subseteq 1..Len(loaded)
  OBVIOUS
<1>3. I # {}
  BY <1>1
<1>4. \E x \in I : \A y \in I : x <= y
  BY <1>2, <1>3, LeastExists
<1>5. Min(I) \in I
  BY <1>4 DEF Min
<1> QED
  BY <1>1, <1>2, <1>3, <1>5

\* Only tools are registered.
LEMMA PutsTools ==
  ASSUME NEW f \in Plugin
  PROVE  Put(f) \subseteq Tool
<1> DEFINE tools == Exports[f].tools
           I == {i \in 1..Len(tools) : tools[i] \in registered}
<1>1. tools \in Seq(Tool)
  BY PluginAssumption
<1>2. Taken(f) = IF I # {} THEN Min(I) ELSE 0
  BY DEF Taken, SelectInSeq
<1>3. Taken(f) = 0 \/ Taken(f) \in 1..Len(tools)
  <2>1. I \subseteq Nat /\ I \subseteq 1..Len(tools)
    BY <1>1
  <2>2. I # {} => Min(I) \in I
    BY <2>1, LeastExists DEF Min
  <2> QED
    BY <1>2, <2>1, <2>2
<1> DEFINE put == IF Taken(f) = 0 THEN tools ELSE SubSeq(tools, 1, Taken(f) - 1)
<1>4. put \in Seq(Tool)
  <2>1. CASE Taken(f) = 0
    BY <1>1, <2>1
  <2>2. CASE Taken(f) # 0
    <3>1. \A i \in 1..(Taken(f) - 1) : i \in 1..Len(tools)
      BY <1>1, <1>3, <2>2
    <3> HIDE DEF tools
    <3> QED
      BY <1>1, <1>3, <2>2, <3>1
  <2> QED
    BY <2>1, <2>2
<1>5. Put(f) = ToSet(put)
  BY DEF Put
<1> HIDE DEF put
<1> QED
  BY <1>4, <1>5 DEF ToSet

\* What leaves the plugins alone.
LEMMA PluginFrame ==
  ASSUME PluginInv, UNCHANGED <<loaded, handles, mapped, code, providers, started, leaked, dropped, engine>>,
         registered' \subseteq registered
  PROVE  PluginInv'
<1>1. \A m : Holds(m) => Holds(m)'
  BY DEF Holds, IsMapped
<1>2. \A f : Entries(f)' = Entries(f)
  BY DEF Entries
<1> QED
  BY <1>1, <1>2 DEF PluginInv

LEMMA InitPlugin ==
  ASSUME Init
  PROVE  PluginInv
<1>1. PluginInit /\ registered = ToSet(setup.live.tools) /\ setup \in Setups
  BY DEF Init, CoordinatorInit
<1>2. setup.live.tools \in Seq(Tool)
  BY <1>1, SetupsAssumption DEF Harness
<1>3. registered \subseteq Tool
  BY <1>1, <1>2 DEF ToSet
<1>4. loaded \in Seq(Mappings) /\ Len(loaded) = 0 /\ loaded = <<>>
  BY <1>1 DEF PluginInit
<1>5. \A f : Cardinality(Entries(f)) = 0
  BY <1>4, EntriesFinite DEF Entries
<1>6. \A t \in Tool : code[t] = BuiltIn
  BY <1>1 DEF PluginInit
<1>7. \A t \in registered : Holds(code[t])
  BY <1>3, <1>6 DEF Holds, IsMapped
<1>8. engine = "up" /\ providers = {}
  BY <1>1 DEF PluginInit
<1>9. \A f \in Plugin : handles[f] = 0 /\ started[f] = 0
  BY <1>1 DEF PluginInit
<1>10. /\ handles \in [Plugin -> Nat] /\ mapped \in [Plugin -> Nat] /\ started \in [Plugin -> Nat]
       /\ code \in [Tool -> Mappings \cup {BuiltIn}]
  BY <1>1 DEF PluginInit
<1> QED
  BY <1>3, <1>4, <1>5, <1>7, <1>8, <1>9, <1>10 DEF PluginInv

\* A load.
LEMMA LoadSoStep ==
  ASSUME PluginInv, NEW f \in Plugin, NEW strict, NEW require, NEW init,
         LoadSo(f, strict, require, init), UNCHANGED <<providers, engine>>
  PROVE  PluginInv'
<1>1. CASE TurnedAway(f, strict, require)
  BY <1>1, PluginFrame DEF LoadSo, loadVars
<1>2. CASE ~TurnedAway(f, strict, require)
  <2> DEFINE outcome == Outcome(f, init)
  <2>3. /\ handles \in [Plugin -> Nat] /\ mapped \in [Plugin -> Nat] /\ started \in [Plugin -> Nat]
        /\ handles[f] > 0 => mapped[f] > 0
    BY DEF PluginInv
  <2>8. Opened(f) \in Mappings
    BY <2>3 DEF Opened, Mapping, Mappings
  <2>0. PICK m \in Mappings : m = Opened(f)
    BY <2>8
  <2>1. /\ registered' = registered \cup Put(f)
        /\ code' = [t \in Tool |-> IF t \in Put(f) THEN m ELSE code[t]]
        /\ mapped' = [mapped EXCEPT ![f] = m.number]
        /\ handles' = [handles EXCEPT ![f] = IF outcome = "refused" THEN @ ELSE @ + 1]
        /\ dropped' = IF outcome = "refused" /\ handles[f] = 0 THEN dropped \cup {m} ELSE dropped
        /\ leaked' = IF outcome = "thrown" THEN leaked \cup {f} ELSE leaked
        /\ loaded' = IF outcome = "loaded" THEN Append(loaded, m) ELSE loaded
        /\ started' = [started EXCEPT ![f] = IF outcome = "loaded" THEN @ + 1 ELSE @]
    BY <1>2, <2>0 DEF LoadSo, ClosesAgain
  <2>2. outcome \in {"thrown", "refused", "loaded"}
    BY DEF Outcome
  <2>4a. m.file = f /\ m.number \in Nat \ {0}
    BY <2>0, <2>3 DEF Opened, Mapping
  <2>4b. handles[f] > 0 => m.number = mapped[f]
    BY <2>0 DEF Opened, Mapping
  <2> HIDE DEF outcome
  <2>5. /\ handles' \in [Plugin -> Nat] /\ mapped' \in [Plugin -> Nat] /\ started' \in [Plugin -> Nat]
        /\ handles'[f] = IF outcome = "refused" THEN handles[f] ELSE handles[f] + 1
        /\ mapped'[f] = m.number
        /\ started'[f] = IF outcome = "loaded" THEN started[f] + 1 ELSE started[f]
        /\ \A g \in Plugin : g # f => /\ handles'[g] = handles[g] /\ mapped'[g] = mapped[g]
                                      /\ started'[g] = started[g]
    BY <2>1, <2>3, <2>4a
  <2>6. \A x \in Mappings \cup {BuiltIn} : Holds(x) => Holds(x)'
    <3> TAKE x \in Mappings \cup {BuiltIn}
    <3> HAVE Holds(x)
    <3>1. CASE x \in dropped \/ x = BuiltIn
      BY <2>1, <3>1 DEF Holds, IsMapped
    <3>2. CASE x # BuiltIn /\ IsMapped(x)
      <4>1. x.file \in Plugin /\ handles[x.file] > 0 /\ mapped[x.file] = x.number
        BY <3>2 DEF IsMapped, Mappings
      <4>2. handles'[x.file] > 0 /\ mapped'[x.file] = x.number
        BY <2>3, <2>4b, <2>5, <4>1
      <4> QED
        BY <4>2 DEF Holds, IsMapped
    <3> QED
      BY <3>1, <3>2 DEF Holds
  <2>7. Holds(m)'
    <3>1. CASE outcome = "refused" /\ handles[f] = 0
      BY <2>1, <3>1 DEF Holds
    <3>2. CASE ~(outcome = "refused" /\ handles[f] = 0)
      <4>1. handles'[f] > 0 /\ mapped'[f] = m.number
        BY <2>3, <2>5, <3>2
      <4> QED
        BY <2>4a, <4>1 DEF Holds, IsMapped
    <3> QED
      BY <3>1, <3>2
  <2>9. registered' \subseteq Tool /\ code' \in [Tool -> Mappings \cup {BuiltIn}]
    BY <2>1, PutsTools DEF PluginInv
  <2>10. \A t \in registered' : Holds(code[t])'
    <3> TAKE t \in registered'
    <3>1. t \in Tool
      BY <2>9
    <3>2. CASE t \in Put(f)
      <4>1. code'[t] = m
        BY <2>1, <3>1, <3>2
      <4> QED
        BY <2>7, <4>1 DEF Holds, IsMapped
    <3>3. CASE t \notin Put(f)
      <4>1. code'[t] = code[t] /\ t \in registered
        BY <2>1, <3>1, <3>3
      <4>2. code[t] \in Mappings \cup {BuiltIn} /\ Holds(code[t])
        BY <3>1, <4>1 DEF PluginInv
      <4> QED
        BY <2>6, <4>1, <4>2 DEF Holds, IsMapped
    <3> QED
      BY <3>2, <3>3
  <2>11. \A p \in providers' : Holds(p)'
    BY <2>6 DEF PluginInv
  <2>12. /\ loaded' \in Seq(Mappings)
         /\ \A i \in 1..Len(loaded') : loaded'[i].number = mapped'[loaded'[i].file]
    <3>1. \A i \in 1..Len(loaded) : loaded[i].number = mapped'[loaded[i].file]
      <4> TAKE i \in 1..Len(loaded)
      <4>1. IsMapped(loaded[i]) /\ loaded[i] \in Mappings /\ loaded[i].file \in Plugin
        BY ListedIsOpen
      <4>2. loaded[i] # BuiltIn
        BY <4>1, BuiltInApart
      <4>3. handles[loaded[i].file] > 0 /\ mapped[loaded[i].file] = loaded[i].number
        BY <4>1, <4>2 DEF IsMapped
      <4> QED
        BY <2>4b, <2>5, <4>1, <4>3
    <3>2. loaded \in Seq(Mappings)
      BY DEF PluginInv
    <3>3. CASE outcome = "loaded"
      <4>1. loaded' = Append(loaded, m)
        BY <2>1, <3>3
      <4>2. /\ loaded' \in Seq(Mappings) /\ Len(loaded') = Len(loaded) + 1
            /\ loaded'[Len(loaded) + 1] = m /\ \A i \in 1..Len(loaded) : loaded'[i] = loaded[i]
        BY <3>2, <4>1
      <4>3. \A i \in 1..(Len(loaded) + 1) : i \in 1..Len(loaded) \/ i = Len(loaded) + 1
        BY <3>2
      <4> QED
        BY <2>4a, <2>5, <3>1, <4>2, <4>3
    <3>4. CASE outcome # "loaded"
      BY <2>1, <3>1, <3>2, <3>4
    <3> QED
      BY <3>3, <3>4
  <2>13. \A g \in Plugin : handles'[g] > 0 => mapped'[g] > 0
    <3> TAKE g \in Plugin
    <3>1. handles[g] > 0 => mapped[g] > 0
      BY DEF PluginInv
    <3> QED
      BY <2>4a, <2>5, <3>1
  <2>14. \A g \in Plugin :
           /\ handles'[g] >= Cardinality(Entries(g)')
           /\ handles'[g] > Cardinality(Entries(g)') => g \in leaked'
           /\ Exports[g].fini => started'[g] = Cardinality(Entries(g)')
    <3> TAKE g \in Plugin
    <3>1. /\ handles[g] >= Cardinality(Entries(g))
          /\ handles[g] > Cardinality(Entries(g)) => g \in leaked
          /\ Exports[g].fini => started[g] = Cardinality(Entries(g))
      BY DEF PluginInv
    <3>2. handles[g] \in Nat /\ started[g] \in Nat /\ Cardinality(Entries(g)) \in Nat
      BY <2>3, EntriesFinite DEF PluginInv
    <3>3. CASE outcome = "loaded"
      <4>1. Cardinality(Entries(g)') =
              IF f = g THEN Cardinality(Entries(g)) + 1 ELSE Cardinality(Entries(g))
        BY <2>1, <2>4a, <3>3, EntriesAppend DEF PluginInv
      <4>2. leaked' = leaked
        BY <2>1, <3>3
      <4> QED
        BY <2>5, <3>1, <3>2, <3>3, <4>1, <4>2
    <3>4. CASE outcome # "loaded"
      <4>1. loaded' = loaded
        BY <2>1, <3>4
      <4>2. Entries(g)' = Entries(g)
        BY <4>1 DEF Entries
      <4>3. leaked \subseteq leaked' /\ (outcome = "thrown" => f \in leaked')
        BY <2>1
      <4> QED
        BY <2>2, <2>5, <3>1, <3>2, <3>4, <4>2, <4>3
    <3> QED
      BY <3>3, <3>4
  <2>15. providers' \subseteq Mappings
    BY DEF PluginInv
  <2>16. engine' = "fallen" => dropped' # {}
    BY <2>1 DEF PluginInv
  <2> QED
    BY <2>5, <2>9, <2>10, <2>11, <2>12, <2>13, <2>14, <2>15, <2>16 DEF PluginInv
<1> QED
  BY <1>1, <1>2

\* The counts a set of entries leaves when it is finished, and the mappings it leaves.
LEMMA FinishStep ==
  ASSUME PluginInv, NEW entries \in SUBSET (1..Len(loaded)), Finish(entries),
         UNCHANGED <<mapped, code, leaked, providers>>,
         registered' \subseteq registered, loaded' \in Seq(Mappings),
         \A i \in 1..Len(loaded') : \E j \in 1..Len(loaded) : loaded'[i] = loaded[j],
         \A f \in Plugin : Cardinality(Entries(f)') =
           Cardinality(Entries(f)) - Cardinality({i \in entries : loaded[i].file = f}),
         engine' = "fallen" => engine = "fallen"
  PROVE  PluginInv'
<1>1. /\ handles' = [f \in Plugin |-> handles[f] - Cardinality({i \in entries : loaded[i].file = f})]
      /\ started' = [f \in Plugin |-> IF Exports[f].fini
                       THEN started[f] - Cardinality({i \in entries : loaded[i].file = f}) ELSE started[f]]
      /\ dropped \subseteq dropped'
  BY DEF Finish
<1>2. \A f \in Plugin :
        /\ Cardinality({i \in entries : loaded[i].file = f}) \in Nat
        /\ Cardinality({i \in entries : loaded[i].file = f}) <= Cardinality(Entries(f))
        /\ Cardinality(Entries(f)) \in Nat
  <2> TAKE f \in Plugin
  <2> DEFINE gone == {i \in entries : loaded[i].file = f}
  <2>1. loaded \in Seq(Mappings)
    BY DEF PluginInv
  <2>2. DOMAIN loaded = 1..Len(loaded) /\ IsFiniteSet(Entries(f)) /\ Cardinality(Entries(f)) \in Nat
    BY <2>1, EntriesFinite
  <2>3. gone \subseteq Entries(f)
    BY <2>2 DEF Entries
  <2>4. IsFiniteSet(gone) /\ Cardinality(gone) <= Cardinality(Entries(f))
    BY <2>2, <2>3, FS_Subset
  <2> QED
    BY <2>2, <2>4, FS_CardinalityType
<1>3. \A f \in Plugin :
        /\ handles[f] \in Nat /\ started[f] \in Nat
        /\ handles[f] >= Cardinality(Entries(f))
        /\ handles[f] > Cardinality(Entries(f)) => f \in leaked
        /\ Exports[f].fini => started[f] = Cardinality(Entries(f))
        /\ handles[f] > 0 => mapped[f] > 0
  BY DEF PluginInv
<1>4. handles' \in [Plugin -> Nat] /\ started' \in [Plugin -> Nat]
  BY <1>1, <1>2, <1>3
<1>5. \A f \in Plugin :
        /\ handles'[f] >= Cardinality(Entries(f)')
        /\ handles'[f] > Cardinality(Entries(f)') => f \in leaked'
        /\ Exports[f].fini => started'[f] = Cardinality(Entries(f)')
        /\ handles'[f] > 0 => mapped'[f] > 0
  BY <1>1, <1>2, <1>3
<1>6. \A i \in 1..Len(loaded') : loaded'[i].number = mapped'[loaded'[i].file]
  BY DEF PluginInv
<1>7. \A m \in Mappings \cup {BuiltIn} : Holds(m) => Holds(m)'
  BY FinishHolds
<1>8. \A p \in providers' : Holds(p)'
  BY <1>7 DEF PluginInv
<1>9. \A t \in registered' : Holds(code[t])'
  <2> TAKE t \in registered'
  <2>1. code[t] \in Mappings \cup {BuiltIn} /\ Holds(code[t])
    BY DEF PluginInv
  <2> QED
    BY <1>7, <2>1 DEF Holds, IsMapped
<1>10. engine' = "fallen" => dropped' # {}
  BY <1>1 DEF PluginInv
<1>11. /\ registered' \subseteq Tool /\ providers' \subseteq Mappings /\ mapped' \in [Plugin -> Nat]
       /\ code' \in [Tool -> Mappings \cup {BuiltIn}]
  BY DEF PluginInv
<1> QED
  BY <1>4, <1>5, <1>6, <1>8, <1>9, <1>10, <1>11 DEF PluginInv

LEMMA UnloadStep ==
  ASSUME PluginInv, NEW name, Unload(name)
  PROVE  PluginInv'
<1>0. loaded \in Seq(Mappings)
  BY DEF PluginInv
<1>1. PICK k \in 1..Len(loaded) : k = FirstNamed(name)
  BY <1>0, NamedIsListed DEF Unload
<1>2. Finish({k}) /\ loaded' = RemoveAt(loaded, k)
      /\ UNCHANGED <<registered, mapped, code, leaked, providers, engine>>
  BY <1>1 DEF Unload
<1>3. /\ loaded' \in Seq(Mappings)
      /\ \A i \in 1..Len(loaded') : \E j \in 1..Len(loaded) : loaded'[i] = loaded[j]
  BY <1>0, <1>2, EntriesRemove
<1>4. \A f \in Plugin : Cardinality(Entries(f)') =
        Cardinality(Entries(f)) - Cardinality({i \in {k} : loaded[i].file = f})
  <2> TAKE f \in Plugin
  <2>0. Cardinality(Entries(f)) \in Nat
    BY <1>0, EntriesFinite
  <2>1. CASE loaded[k].file = f
    <3>1. {i \in {k} : loaded[i].file = f} = {k}
      BY <2>1
    <3>2. Cardinality({k}) = 1
      BY FS_Singleton
    <3>3. Cardinality(Entries(f)') = Cardinality(Entries(f)) - 1
      BY <1>0, <1>2, <2>1, EntriesRemove
    <3> QED
      BY <3>1, <3>2, <3>3
  <2>2. CASE loaded[k].file # f
    <3>1. {i \in {k} : loaded[i].file = f} = {}
      BY <2>2
    <3>2. Cardinality({}) = 0
      BY FS_EmptySet
    <3>3. Cardinality({i \in {k} : loaded[i].file = f}) = 0
      BY <3>1, <3>2, Zenon
    <3>4. Cardinality(Entries(f)') = Cardinality(Entries(f))
      BY <1>0, <1>2, <2>2, EntriesRemove
    <3> QED
      BY <2>0, <3>3, <3>4
  <2> QED
    BY <2>1, <2>2
<1> QED
  BY <1>2, <1>3, <1>4, FinishStep

LEMMA DestroyStep ==
  ASSUME PluginInv, Destroy
  PROVE  PluginInv'
<1>0. loaded \in Seq(Mappings) /\ DOMAIN loaded = 1..Len(loaded)
  BY DEF PluginInv
<1>1. /\ Finish(1..Len(loaded)) /\ loaded' = <<>> /\ registered' = {} /\ engine' = "gone"
      /\ UNCHANGED <<mapped, code, leaked, providers>>
  BY <1>0 DEF Destroy
<1>2. /\ loaded' \in Seq(Mappings)
      /\ \A i \in 1..Len(loaded') : \E j \in 1..Len(loaded) : loaded'[i] = loaded[j]
  BY <1>1
<1>3. \A f \in Plugin : Cardinality(Entries(f)') =
        Cardinality(Entries(f)) - Cardinality({i \in 1..Len(loaded) : loaded[i].file = f})
  <2> TAKE f \in Plugin
  <2>1. Entries(f)' = {}
    BY <1>1 DEF Entries
  <2>2. Entries(f) = {i \in 1..Len(loaded) : loaded[i].file = f}
    BY <1>0 DEF Entries
  <2>3. Cardinality({}) = 0 /\ Cardinality(Entries(f)) \in Nat
    BY <1>0, EntriesFinite, FS_EmptySet
  <2> QED
    BY <2>1, <2>2, <2>3
<1> QED
  BY <1>1, <1>2, <1>3, FinishStep

LEMMA CreateProviderStep ==
  ASSUME PluginInv, NEW name, CreateProvider(name), UNCHANGED registered
  PROVE  PluginInv'
<1>0. loaded \in Seq(Mappings)
  BY DEF PluginInv
<1>1. PICK k \in 1..Len(loaded) : k = FirstNamed(name)
  BY <1>0, NamedIsListed DEF CreateProvider
<1>2. /\ providers' = providers \cup {loaded[k]}
      /\ UNCHANGED <<loaded, handles, mapped, code, started, leaked, dropped, engine>>
  BY <1>1 DEF CreateProvider, loadVars
<1>3. IsMapped(loaded[k]) /\ loaded[k] \in Mappings
  BY <1>1, ListedIsOpen
<1>4. \A m : Holds(m) => Holds(m)'
  BY <1>2 DEF Holds, IsMapped
<1>5. \A f : Entries(f)' = Entries(f)
  BY <1>2 DEF Entries
<1>6. \A p \in providers' : p \in Mappings /\ Holds(p)'
  BY <1>2, <1>3, <1>4 DEF PluginInv, Holds
<1> QED
  BY <1>2, <1>4, <1>5, <1>6 DEF PluginInv

LEMMA RegisterStep ==
  ASSUME PluginInv, NEW t \in Tool, registered' = registered \cup {t}, code' = [code EXCEPT ![t] = BuiltIn],
         UNCHANGED <<loaded, handles, mapped, providers, started, leaked, dropped, engine>>
  PROVE  PluginInv'
<1>1. \A m : Holds(m) => Holds(m)'
  BY DEF Holds, IsMapped
<1>2. \A f : Entries(f)' = Entries(f)
  BY DEF Entries
<1>3. code' \in [Tool -> Mappings \cup {BuiltIn}] /\ registered' \subseteq Tool
  BY DEF PluginInv
<1>4. \A u \in registered' : Holds(code[u])'
  <2> TAKE u \in registered'
  <2>1. CASE u = t
    <3>1. code'[u] = BuiltIn
      BY <2>1 DEF PluginInv
    <3> QED
      BY <3>1 DEF Holds, IsMapped
  <2>2. CASE u # t
    <3>1. code'[u] = code[u] /\ u \in registered
      BY <2>2 DEF PluginInv
    <3>2. Holds(code[u])
      BY <3>1 DEF PluginInv
    <3> QED
      BY <3>1, <3>2 DEF Holds, IsMapped
  <2> QED
    BY <2>1, <2>2
<1> QED
  BY <1>1, <1>2, <1>3, <1>4 DEF PluginInv

\* Somebody falls only over what was undone.
LEMMA FallStep ==
  ASSUME PluginInv, HostFalls
  PROVE  PluginInv'
<1>1. UNCHANGED <<registered, loaded, handles, mapped, code, started, leaked, dropped, providers>>
  BY DEF HostFalls, loadVars
<1>2. dropped # {}
  <2>1. \/ \E t : ~Intact(t)
        \/ \E p \in providers : ~IsMapped(p)
    BY DEF HostFalls
  <2>2. ASSUME NEW t, ~Intact(t)  PROVE dropped # {}
    BY <2>2 DEF Intact, PluginInv, Holds
  <2>3. ASSUME NEW p \in providers, ~IsMapped(p)  PROVE dropped # {}
    BY <2>3 DEF PluginInv, Holds
  <2> QED
    BY <2>1, <2>2, <2>3
<1>3. \A m : Holds(m) => Holds(m)'
  BY <1>1 DEF Holds, IsMapped
<1>4. \A f : Entries(f)' = Entries(f)
  BY <1>1 DEF Entries
<1> QED
  BY <1>1, <1>2, <1>3, <1>4 DEF PluginInv

LEMMA NextPlugin ==
  ASSUME PluginInv, [Next]_allVars
  PROVE  PluginInv'
<1>1. CASE UNCHANGED pluginVars /\ registered' \subseteq registered
  BY <1>1, PluginFrame DEF pluginVars
<1>2. CASE HostMutates \/ HostApplies \/ HostGivesUp \/ HostUndoes
  <2>1. UNCHANGED pluginVars
    BY <1>2 DEF HostMutates, HostMutatesFrom, HostApplies, HostGivesUp, HostUndoes
  <2>2. registered' \subseteq registered
    <3>1. CASE HostMutates
      <4>1. PICK parent : HostMutatesFrom(parent)
        BY ONLY <3>1 DEF HostMutates
      <4>2. UNCHANGED registered \/ \E m \in setup.offers : Apply(m, 0)
        BY ONLY <4>1 DEF HostMutatesFrom
      <4> QED
        BY ONLY <4>2 DEF Apply
    <3>2. CASE HostApplies
      <4>1. PICK version : Apply(host.mutation, version)
        BY ONLY <3>2 DEF HostApplies
      <4> QED
        BY ONLY <4>1 DEF Apply
    <3>3. CASE HostGivesUp
      BY ONLY <3>3 DEF HostGivesUp, coordinatorVars
    <3>4. CASE HostUndoes
      BY ONLY <3>4 DEF HostUndoes, coordinatorVars
    <3> QED
      BY ONLY <1>2, <3>1, <3>2, <3>3, <3>4
  <2> QED
    BY <2>1, <2>2, <1>1
<1>3. CASE HostCalls \/ ToolReturns \/ ToolLeaves
  <2>1. UNCHANGED pluginVars
    BY <1>3 DEF HostCalls, ToolReturns, ToolLeaves, CallsFrame
  <2>2. ASSUME NEW r, NEW cancelled, NEW human, Execute(r.tool, r.layer, r.args, cancelled, human)
        PROVE  registered' = registered
    BY <2>2 DEF Execute
  <2>3. ASSUME NEW ok, ToolEnds(ok)  PROVE registered' = registered
    BY <2>3 DEF ToolEnds
  <2>4. ASSUME ToolEscapes  PROVE registered' = registered
    BY <2>4 DEF ToolEscapes
  <2>5. registered' = registered
    BY <1>3, <2>2, <2>3, <2>4, Zenon DEF HostCalls, ToolReturns, ToolLeaves
  <2> QED
    BY <2>1, <2>5, <1>1
<1>4. CASE HostRegisters
  <2>1. PICK t \in Tool : Register(t) /\ code' = [code EXCEPT ![t] = BuiltIn]
    BY <1>4 DEF HostRegisters
  <2>2. registered' = registered \cup {t}
    BY <2>1 DEF Register
  <2> QED
    BY <1>4, <2>1, <2>2, RegisterStep DEF HostRegisters
<1>5. CASE HostLoads
  <2>1. PICK f \in Plugin, strict \in BOOLEAN, require \in BOOLEAN : \E init \in Inits(f) :
          Load(f, strict, require, init)
    BY <1>5 DEF HostLoads
  <2>2. PICK init \in Inits(f) : Load(f, strict, require, init)
    BY <2>1
  <2> QED
    BY <2>2, LoadSoStep DEF Load
<1>6. CASE LoadAllGoesOn
  <2>1. PICK f \in Plugin : \E init \in Inits(f) : f = Head(scan) /\ ScanNext(init)
    BY <1>6 DEF LoadAllGoesOn
  <2>2. PICK init \in Inits(f) : f = Head(scan) /\ ScanNext(init)
    BY <2>1
  <2>3. LoadSo(f, TRUE, FALSE, init) /\ UNCHANGED <<providers, engine>>
    BY <2>2 DEF ScanNext
  <2> QED
    BY <2>3, LoadSoStep
<1>7. CASE HostLoadsAll
  BY <1>7, PluginFrame DEF HostLoadsAll, LoadAll, loadVars
<1>8. CASE HostUnloads
  BY <1>8, UnloadStep DEF HostUnloads
<1>9. CASE HostCreates
  <2>1. PICK f \in Plugin : CreateProvider(Exports[f].name)
    BY <1>9 DEF HostCreates
  <2>2. registered' = registered
    BY <2>1 DEF CreateProvider, loadVars
  <2> QED
    BY <2>1, <2>2, CreateProviderStep
<1>10. CASE HostEnds
  BY <1>10, DestroyStep DEF HostEnds
<1>11. CASE HostFalls
  BY <1>11, FallStep
<1>12. CASE GepaProposes \/ GepaGenerates \/ GepaCommits \/ GepaCannotStore
  BY <1>12, <1>1 DEF GepaProposes, GepaGenerates, GepaCommits, GepaCannotStore, GepaFrame, coordinatorVars
<1>13. CASE OthersPropose \/ OthersCommit \/ OthersRevert \/ Committing \/ Crashes
  BY <1>13, <1>1 DEF OthersPropose, OthersCommit, OthersRevert, OthersHear, Committing, Crashes,
                     coordinatorVars
<1>14. CASE UNCHANGED allVars
  BY <1>14, <1>1 DEF allVars, coordinatorVars
<1> QED
  BY <1>2, <1>3, <1>4, <1>5, <1>6, <1>7, <1>8, <1>9, <1>10, <1>11, <1>12, <1>13, <1>14 DEF Next

\* The count of the entries of a file is the one of PointsIntoCode.
LEMMA PluginPoints ==
  ASSUME PluginInv
  PROVE  PointsIntoCode
<1>1. loaded \in Seq(Mappings) /\ DOMAIN loaded = 1..Len(loaded)
  BY DEF PluginInv
<1>2. \A t \in registered : Intact(t) \/ code[t] \in dropped
  BY DEF PluginInv, Holds, Intact
<1>3. \A p \in providers : IsMapped(p) \/ p \in dropped
  BY DEF PluginInv, Holds
<1>4. \A i \in DOMAIN loaded : IsMapped(loaded[i])
  BY <1>1, ListedIsOpen
<1>5. \A f \in Plugin :
        /\ handles[f] >= Cardinality({i \in DOMAIN loaded : loaded[i].file = f})
        /\ handles[f] > Cardinality({i \in DOMAIN loaded : loaded[i].file = f}) => f \in leaked
        /\ Exports[f].fini => started[f] = Cardinality({i \in DOMAIN loaded : loaded[i].file = f})
  BY DEF PluginInv, Entries
<1>6. engine = "fallen" => dropped # {}
  BY DEF PluginInv
<1> QED
  BY <1>2, <1>3, <1>4, <1>5, <1>6 DEF PointsIntoCode

(* Whatever plugins there are, and whatever is loaded, in which order and   *)
(* with which outcome, a tool or a provider points into code that is there, *)
(* unless somebody has undone its mapping: an unload, an init that refused, *)
(* or the end of the engine.                                                *)
THEOREM CodeStays == Spec => []PointsIntoCode
<1>1. Spec => []PluginInv
  BY InitPlugin, NextPlugin, PTL DEF Spec
<1>2. PluginInv => PointsIntoCode
  BY PluginPoints
<1> QED
  BY <1>1, <1>2, PTL

-----------------------------------------------------------------------------

\* A session mutates from the version of its last commit, or from none, as the host may.
LEMMA SessionMutates ==
  ASSUME Mutate
  PROVE  HostMutates
<1>1. LastCommitted \in {0, base}
  BY DEF LastCommitted
<1> QED
  BY <1>1 DEF Mutate, HostMutates

(* A session does nothing to the agent, its registries and its loader that  *)
(* the host of Evolution might not do: what is proved of that holds in      *)
(* every session.                                                           *)
THEOREM SessionIsEvolution == SessionSpec => Spec
<1>1. SessionInit => Init
  BY DEF SessionInit
<1>2. [SessionNext]_runVars => [Next]_allVars
  <2>1. CASE Session
    <3>1. CASE Mutate
      BY <3>1, SessionMutates DEF Next
    <3>2. CASE MutationEnds
      BY <3>2 DEF MutationEnds, Next
    <3>3. CASE Baseline \/ Reload \/ Compare \/ Emit
      BY <3>3 DEF Baseline, Reload, Compare, Emit
    <3> QED
      BY <2>1, <3>1, <3>2, <3>3 DEF Session
  <2>2. CASE HostElse
    BY <2>2 DEF HostElse, Next
  <2>3. CASE Elsewhere
    BY <2>3 DEF Elsewhere, Next
  <2>4. CASE UNCHANGED runVars
    BY <2>4 DEF runVars
  <2> QED
    BY <2>1, <2>2, <2>3, <2>4 DEF SessionNext
<1> QED
  BY <1>1, <1>2, PTL DEF SessionSpec, Spec

-----------------------------------------------------------------------------
(* What a mutation makes of a list of tools.                                *)

\* The steps of the fold that erases, as a function.
Erasures(removed) == [i \in 1..Len(removed) |-> [tools \in Seq(Tool) |-> Erase(tools, removed[i])]]

LEMMA EraseOne ==
  ASSUME NEW s \in Seq(Tool), NEW t
  PROVE  /\ Erase(s, t) \in Seq(Tool)
         /\ ToSet(Erase(s, t)) \subseteq ToSet(s)
         /\ ListedTwice(Erase(s, t)) \subseteq ListedTwice(s)
         /\ t \in ToSet(Erase(s, t)) => t \in ListedTwice(s)
<1>1. PICK first : first = SelectInSeq(s, LAMBDA u : u = t)
  OBVIOUS
<1> DEFINE I == {i \in 1..Len(s) : s[i] = t}
<1>2. first = IF I # {} THEN Min(I) ELSE 0
  BY <1>1 DEF SelectInSeq
<1>3. Erase(s, t) = IF first = 0 THEN s ELSE RemoveAt(s, first)
  BY <1>1 DEF Erase
<1>4. DOMAIN s = 1..Len(s) /\ Len(s) \in Nat
  OBVIOUS
<1>5. CASE I = {}
  <2>1. first = 0 /\ Erase(s, t) = s /\ t \notin ToSet(s)
    BY <1>2, <1>3, <1>4, <1>5 DEF ToSet
  <2> QED
    BY <2>1
<1>6. CASE I # {}
  <2>1. \E x \in I : \A y \in I : x <= y
    <3>1. I \subseteq Nat
      BY <1>4
    <3> QED
      BY <1>6, <3>1, LeastExists
  <2>2. first \in I /\ \A y \in I : first <= y
    BY <1>2, <1>6, <2>1 DEF Min
  <2>3. first \in 1..Len(s) /\ s[first] = t /\ first # 0
    BY <1>4, <2>2
  <2>4. PICK r : r = Erase(s, t)
    OBVIOUS
  <2>5. PICK n : n = Len(s)
    OBVIOUS
  <2>6. /\ r \in Seq(Tool) /\ DOMAIN r = 1..(n - 1)
        /\ \A i \in 1..(n - 1) : r[i] = s[IF i < first THEN i ELSE i + 1]
    <3>1. r = RemoveAt(s, first)
      BY <1>3, <2>3, <2>4
    <3>2. Len(r) = n - 1 /\ r \in Seq(Tool)
      BY <2>3, <2>5, <3>1, RemovedAt
    <3>3. \A i \in 1..(n - 1) : r[i] = s[IF i < first THEN i ELSE i + 1]
      BY <2>3, <2>5, <3>1, RemovedAt
    <3> QED
      BY <3>2, <3>3
  <2>7. n \in Nat /\ first \in 1..n /\ DOMAIN s = 1..n /\ s[first] = t
    BY <1>4, <2>3, <2>5
  <2>8. ToSet(r) \subseteq ToSet(s)
    <3>1. \A i \in 1..(n - 1) : \E j \in 1..n : r[i] = s[j]
      <4> TAKE i \in 1..(n - 1)
      <4>1. PICK j : j = IF i < first THEN i ELSE i + 1
        OBVIOUS
      <4>2. j \in 1..n /\ r[i] = s[j]
        BY <2>6, <2>7, <4>1
      <4> QED
        BY <4>2
    <3>2. ASSUME NEW x \in ToSet(r) PROVE x \in ToSet(s)
      <4>1. PICK i \in 1..(n - 1) : r[i] = x
        BY <2>6 DEF ToSet
      <4>2. PICK j \in 1..n : s[j] = x
        BY <3>1, <4>1
      <4> QED
        BY <2>7, <4>2 DEF ToSet
    <3> QED
      BY <3>2
  <2>9. ListedTwice(r) \subseteq ListedTwice(s)
    <3> SUFFICES ASSUME NEW u \in ListedTwice(r) PROVE u \in ListedTwice(s)
      OBVIOUS
    <3>1. PICK i \in 1..(n - 1), j \in 1..(n - 1) : i < j /\ r[i] = u /\ r[j] = u
      BY <2>6 DEF ListedTwice
    <3>2. PICK k, l : k = (IF i < first THEN i ELSE i + 1) /\ l = (IF j < first THEN j ELSE j + 1)
      OBVIOUS
    <3>3. k \in 1..n /\ l \in 1..n /\ k < l
      BY <2>7, <3>1, <3>2
    <3>4. s[k] = u /\ s[l] = u
      BY <2>6, <3>1, <3>2
    <3> QED
      BY <2>7, <3>3, <3>4 DEF ListedTwice, ToSet
  <2>10. t \in ToSet(r) => t \in ListedTwice(s)
    <3> SUFFICES ASSUME t \in ToSet(r) PROVE t \in ListedTwice(s)
      OBVIOUS
    <3>1. PICK i \in 1..(n - 1) : r[i] = t
      BY <2>6 DEF ToSet
    <3>2. PICK k : k = IF i < first THEN i ELSE i + 1
      OBVIOUS
    <3>3. k \in 1..n /\ k # first /\ s[k] = t
      BY <2>6, <2>7, <3>1, <3>2
    <3>4. first < k
      BY <2>2, <2>5, <2>7, <3>3
    <3> QED
      BY <2>7, <3>3, <3>4 DEF ListedTwice, ToSet
  <2> QED
    BY <2>4, <2>6, <2>8, <2>9, <2>10
<1> QED
  BY <1>5, <1>6

\* A list after some tools are erased holds no others; and of one that was erased it holds one
\* only if it stood twice.
LEMMA ErasedTools ==
  ASSUME NEW s \in Seq(Tool), NEW removed \in Seq(Tool)
  PROVE  LET left == FoldLeft(Erase, s, removed)
         IN /\ left \in Seq(Tool)
            /\ ToSet(left) \subseteq ToSet(s)
            /\ ListedTwice(left) \subseteq ListedTwice(s)
            /\ ToSet(left) \cap ToSet(removed) \subseteq ListedTwice(s)
<1>1. PICK n, step : n = Len(removed) /\ step = Erasures(removed)
  OBVIOUS
<1>2. n \in Nat /\ DOMAIN removed = 1..n
  BY <1>1
<1>3. step \in [1..n -> [Seq(Tool) -> Seq(Tool)]]
  BY <1>1, <1>2, EraseOne DEF Erasures
<1>4. \A i \in 1..n : \A tools \in Seq(Tool) : step[i][tools] = Erase(tools, removed[i])
  BY <1>1 DEF Erasures
<1>5. PICK iter \in [SUBSET (1..n) -> Seq(Tool)] : Iterates(iter, n, s, step)
  BY <1>2, <1>3, IterationExists, Zenon
<1>6. \A k \in SUBSET (1..n) : k # {} => Max(k) \in 1..n /\ k \ {Max(k)} \in SUBSET (1..n)
  BY <1>2, MaxIsGreatest
<1>7. \A k \in SUBSET (1..n) : iter[k] = IF k = {} THEN s ELSE Erase(iter[k \ {Max(k)}], removed[Max(k)])
  BY <1>4, <1>5, <1>6 DEF Iterates
<1>8. \E that : /\ that = [k \in SUBSET (DOMAIN removed) |->
                             IF k = {} THEN s ELSE Erase(that[k \ {Max(k)}], removed[Max(k)])]
                /\ FoldLeft(Erase, s, removed) = that[DOMAIN removed]
  <2>1. iter = [k \in SUBSET (DOMAIN removed) |->
                  IF k = {} THEN s ELSE Erase(iter[k \ {Max(k)}], removed[Max(k)])]
    BY <1>2, <1>5, <1>7
  <2> QED
    BY <2>1 DEF FoldLeft, MapThenFoldSet
<1>9. PICK that : /\ that = [k \in SUBSET (1..n) |->
                             IF k = {} THEN s ELSE Erase(that[k \ {Max(k)}], removed[Max(k)])]
                  /\ FoldLeft(Erase, s, removed) = that[1..n]
  BY <1>2, <1>8
<1> DEFINE Good(k) ==
      LET left == that[1..k]
      IN /\ left \in Seq(Tool)
         /\ ToSet(left) \subseteq ToSet(s)
         /\ ListedTwice(left) \subseteq ListedTwice(s)
         /\ \A i \in 1..k : removed[i] \in ToSet(left) => removed[i] \in ListedTwice(s)
<1>10. Good(0)
  <2>1. 1..0 = {} /\ {} \in SUBSET (1..n)
    OBVIOUS
  <2>2. that[{}] = s
    BY <1>9, <2>1
  <2> QED
    BY <2>1, <2>2
<1>11. ASSUME NEW k \in Nat, k + 1 <= n, Good(k)
       PROVE  Good(k + 1)
  <2>1. Max(1..k+1) = k + 1 /\ (1..k+1) \ {k + 1} = 1..k
    BY MaxOfInterval
  <2>2. 1..k+1 \in SUBSET (1..n) /\ 1..k+1 # {} /\ k + 1 \in 1..k+1
    <3>1. k + 1 \in 1..k+1 /\ \A x \in 1..k+1 : x \in 1..n
      BY <1>2, <1>11
    <3> QED
      BY <3>1
  <2>3. that[1..k+1] = Erase(that[1..k], removed[k + 1])
    <3>1. PICK all : all = 1..k+1
      OBVIOUS
    <3>2. that[all] = Erase(that[all \ {Max(all)}], removed[Max(all)])
      BY <1>9, <2>2, <3>1
    <3> QED
      BY <2>1, <3>1, <3>2
  <2>4. PICK l, r : l = that[1..k] /\ r = that[1..k+1]
    OBVIOUS
  <2>5. /\ r \in Seq(Tool) /\ ToSet(r) \subseteq ToSet(l) /\ ListedTwice(r) \subseteq ListedTwice(l)
        /\ removed[k + 1] \in ToSet(r) => removed[k + 1] \in ListedTwice(l)
    BY <1>11, <2>3, <2>4, EraseOne
  <2>6. \A i \in 1..k+1 : i \in 1..k \/ i = k + 1
    OBVIOUS
  <2> QED
    BY <1>11, <2>4, <2>5, <2>6
<1> HIDE DEF Good
<1> DEFINE Bad == {k \in 0..n : ~Good(k)}
<1>12. Good(n)
  <2> SUFFICES ASSUME ~Good(n) PROVE FALSE
    OBVIOUS
  <2>1. Bad \subseteq Nat /\ Bad # {}
    BY <1>2
  <2>2. PICK m \in Bad : \A y \in Bad : m <= y
    BY <2>1, LeastExists, Zenon
  <2>3. m # 0 /\ m \in 0..n /\ ~Good(m)
    BY <1>10, <2>2
  <2>4. m - 1 \in 0..n /\ m - 1 \notin Bad /\ (m - 1) + 1 = m
    BY <1>2, <2>2, <2>3
  <2>5. Good(m - 1)
    BY <2>4
  <2> QED
    BY <1>2, <1>11, <2>3, <2>4, <2>5
<1>13. ToSet(that[1..n]) \cap ToSet(removed) \subseteq ListedTwice(s)
  BY <1>2, <1>12 DEF Good, ToSet
<1> QED
  BY <1>9, <1>12, <1>13 DEF Good

-----------------------------------------------------------------------------
(* The agent and what is stored of it.                                     *)

SetupFields ==
  [place : [Writer -> Process], seed : Genome, live : Harness, keeps : BOOLEAN,
   gepaKeeps : BOOLEAN, denied : SUBSET Tool, config : Configs, mutations : Nat, undos : Nat,
   offers : SUBSET Mutations, requests : SUBSET Requests, many : Nat, iterations : Nat,
   asks : SUBSET Context, answers : Nat, crashes : Nat, loads : Nat, scans : SUBSET Seq(Plugin)]
Outcomes == {"none", "applied", "undone", "InvalidMutation", "UnsupportedVariant", "NotReady",
             "GovernanceDenied", "RegistryRejected"}
Snapshot == [prompt : Text, tools : Seq(Tool), version : 0..MaxVersion, removed : SUBSET Tool]

AgentTyped ==
  /\ setup \in SetupFields
  /\ live \in Harness
  /\ applied = None \/ applied \in Snapshot
  /\ host \in [pc : {"free", "commits"}, mutation : Mutations \cup {None}, last : Outcomes,
               before : Harness, origin : Harness]
  /\ base \in Version

\* What a mutation makes of an agent.
FinalOf(harness, m) ==
  [prompt |-> harness.prompt \o m.prompt,
   tools |-> FoldLeft(Erase, harness.tools \o m.add, m.remove)]

\* What commit has reported is in the history.
Reported ==
  \A w \in Writer : commit[w].pc = "done" =>
    [version |-> commit[w].version, genome |-> commit[w].genome, by |-> home[w]] \in committed

\* What is stored for a mutation is what it will make of the agent, with the prompt that is not empty.
StoredFor(spec, harness) ==
  spec.tools = harness.tools /\ (harness.prompt # <<>> => spec.harness = harness.prompt)

\* A mutation that waits for its commit: the agent is as it was, and the tools are there to add.
MutationWaits ==
  host.pc = "commits" =>
    /\ setup.keeps /\ host.mutation \in Mutations
    /\ commit[Host].pc \in Pcs \ {"idle"}
    /\ StoredFor(commit[Host].genome.spec, FinalOf(live, host.mutation))
    /\ ToSet(host.mutation.add) \cap ToSet(host.mutation.remove) = {}
    /\ ToSet(host.mutation.add) \subseteq registered
    /\ scan = <<>>

\* What the agent is, from how its last mutation ended.
AgentIs ==
  /\ host.last = "applied" /\ setup.keeps =>
       \E c \in committed : /\ c.version = applied.version /\ c.by = home[Host]
                            /\ StoredFor(c.genome.spec, live)
  /\ host.last = "undone" => live = host.origin
  /\ host.last \notin {"applied", "undone"} \/ host.pc = "commits" => live = host.before
  /\ applied # None => host.origin = [prompt |-> applied.prompt, tools |-> applied.tools]

\* Which tools it lists that it cannot call.
Callable ==
  /\ engine = "up" => ToSet(live.tools) \subseteq registered \cup undone \cup doubled
  /\ engine = "up" /\ applied # None =>
       ToSet(applied.tools) \subseteq registered \cup undone \cup doubled \cup applied.removed
  /\ ListedTwice(live.tools) \subseteq doubled
  /\ applied # None => ListedTwice(applied.tools) \subseteq doubled

HarnessInv == AgentTyped /\ Reported /\ MutationWaits /\ AgentIs /\ Callable

-----------------------------------------------------------------------------
(* The registry of genomes, as the agent sees it.                           *)

\* What a step leaves of the registry to a mutation that waits, and of what was reported.
RegistryGrows ==
  /\ committed \subseteq committed' /\ home' = home /\ Reported'
  /\ commit'[Host].genome = commit[Host].genome
  /\ commit[Host].pc \in Pcs \ {"idle"} => commit'[Host].pc \in Pcs \ {"idle"}

LEMMA RegistryStays ==
  ASSUME RegistryInv, Reported, UNCHANGED <<home, commit, committed>>
  PROVE  RegistryGrows
BY DEF RegistryGrows, Reported

\* A commit goes on, of the host or of another.
LEMMA CommitGrows ==
  ASSUME RegistryInv, Reported, NEW w \in Writer, Commit(w)
  PROVE  RegistryGrows
<1>0. Host \in Writer /\ commit \in [Writer -> Place] /\ home' = home
  BY EvolutionAssumption
     DEF RegistryInv, RegistryTypeOK, Place, Pcs, Commit, CommitLock, CommitScan, CommitMkdir, CommitWrites,
         CommitRenames, CommitAborts
<1> DEFINE Goes1 ==
      /\ commit'[w].genome = commit[w].genome /\ commit'[w].pc \in Pcs \ {"idle"}
      /\ \A u \in Writer \ {w} : commit'[u] = commit[u]
<1>1. ASSUME NEW pc \in Pcs \ {"idle"}, Goes(w, pc)
      PROVE  Goes1 /\ commit'[w].pc = pc /\ commit'[w].version = commit[w].version
  <2>1. pc \in Pcs
    BY <1>1
  <2> QED
    BY <1>1, <2>1, GoesMoves DEF RegistryInv
<1>2. CASE committed' = committed /\ Goes1 /\ commit'[w].pc # "done"
  BY <1>0, <1>2 DEF RegistryGrows, Reported
<1>3. CASE CommitLock(w)
  <2>1. Goes(w, "scan") /\ committed' = committed
    BY <1>3 DEF CommitLock
  <2> QED
    BY <1>1, <1>2, <2>1 DEF Pcs
<1>4. CASE CommitScan(w)
  <2>1. commit' = [commit EXCEPT ![w].pc = "mkdir", ![w].version = NextVersion] /\ committed' = committed
    BY <1>4 DEF CommitScan
  <2>2. commit[w] \in Place
    BY <1>0
  <2>3. /\ commit'[w].genome = commit[w].genome /\ commit'[w].pc = "mkdir"
        /\ \A u \in Writer \ {w} : commit'[u] = commit[u]
    BY <1>0, <2>1, <2>2 DEF Place
  <2> QED
    BY <1>2, <2>1, <2>3 DEF Pcs
<1>5. CASE CommitMkdir(w)
  <2>1. (Goes(w, "failed") \/ Goes(w, "write")) /\ committed' = committed
    BY <1>5 DEF CommitMkdir
  <2> QED
    BY <1>1, <1>2, <2>1 DEF Pcs
<1>6. CASE CommitWrites(w)
  <2>1. (Goes(w, "abort") \/ Goes(w, "rename")) /\ committed' = committed
    BY <1>6 DEF CommitWrites
  <2> QED
    BY <1>1, <1>2, <2>1 DEF Pcs
<1>7. CASE CommitAborts(w)
  <2>1. Goes(w, "failed") /\ committed' = committed
    BY <1>7 DEF CommitAborts
  <2> QED
    BY <1>1, <1>2, <2>1 DEF Pcs
<1>8. CASE CommitRenames(w)
  <2>1. \/ Goes(w, "abort") /\ committed' = committed
        \/ /\ commit' = [commit EXCEPT ![w].pc = "write", ![w].file = Yaml]
           /\ committed' = committed
        \/ /\ Goes(w, "done")
           /\ committed' = committed \cup
                {[version |-> commit[w].version, genome |-> commit[w].genome, by |-> home[w]]}
    BY <1>8 DEF CommitRenames
  <2>2. CASE Goes(w, "abort") /\ committed' = committed
    BY <1>1, <1>2, <2>2 DEF Pcs
  <2>3. CASE commit' = [commit EXCEPT ![w].pc = "write", ![w].file = Yaml] /\ committed' = committed
    <3>1. commit[w] \in Place
      BY <1>0
    <3>2. /\ commit'[w].genome = commit[w].genome /\ commit'[w].pc = "write"
          /\ \A u \in Writer \ {w} : commit'[u] = commit[u]
      BY <1>0, <2>3, <3>1 DEF Place
    <3> QED
      BY <1>2, <2>3, <3>2 DEF Pcs
  <2>4. CASE /\ Goes(w, "done")
             /\ committed' = committed \cup
                  {[version |-> commit[w].version, genome |-> commit[w].genome, by |-> home[w]]}
    <3>1. Goes1 /\ commit'[w].pc = "done" /\ commit'[w].version = commit[w].version
      BY <1>1, <2>4 DEF Pcs
    <3>2. Reported'
      <4> SUFFICES ASSUME NEW u \in Writer, commit'[u].pc = "done"
                   PROVE  [version |-> commit'[u].version, genome |-> commit'[u].genome, by |-> home'[u]]
                            \in committed'
        BY DEF Reported
      <4>1. CASE u = w
        BY <1>0, <2>4, <3>1, <4>1
      <4>2. CASE u # w
        BY <1>0, <2>4, <3>1, <4>2 DEF Reported
      <4> QED
        BY <4>1, <4>2
    <3> QED
      BY <1>0, <2>4, <3>1, <3>2 DEF RegistryGrows
  <2> QED
    BY <2>1, <2>2, <2>3, <2>4
<1> QED
  BY <1>3, <1>4, <1>5, <1>6, <1>7, <1>8 DEF Commit

\* Another calls commit, or takes its result.
LEMMA OthersGrow ==
  ASSUME RegistryInv, Reported, NEW w \in Writer, w # Host,
         CommitReturns(w) \/ (\E g : CommitCall(w, g)), UNCHANGED <<home, committed>>
  PROVE  RegistryGrows
<1>1. /\ \A u \in Writer \ {w} : commit'[u] = commit[u]
      /\ commit'[w].pc # "done"
  <2>1. commit \in [Writer -> Place]
    BY DEF RegistryInv, RegistryTypeOK, Place, Pcs
  <2>2. CASE CommitReturns(w)
    BY <2>1, <2>2 DEF CommitReturns, Idle
  <2>3. CASE \E g : CommitCall(w, g)
    BY <2>1, <2>3 DEF CommitCall
  <2> QED
    BY <2>2, <2>3
<1>2. Host \in Writer
  BY EvolutionAssumption
<1>3. Reported'
  BY <1>1 DEF Reported
<1> QED
  BY <1>1, <1>2, <1>3 DEF RegistryGrows

-----------------------------------------------------------------------------
(* A mutation.                                                              *)

LEMMA FinalIs ==
  ASSUME NEW m
  PROVE  Final(m) = FinalOf(live, m) /\ FinalTools(m) = FinalOf(live, m).tools
BY DEF Final, FinalOf, FinalTools

LEMMA FinalFits ==
  ASSUME NEW h \in Harness, NEW m \in Mutations
  PROVE  LET f == FinalOf(h, m)
             all == h.tools \o m.add
         IN /\ f \in Harness /\ f.prompt = h.prompt \o m.prompt
            /\ ToSet(f.tools) \subseteq ToSet(h.tools) \cup ToSet(m.add)
            /\ ToSet(f.tools) \cap ToSet(m.remove) \subseteq ListedTwice(all)
            /\ ListedTwice(f.tools) \subseteq ListedTwice(all)
<1>1. PICK f, all : f = FinalOf(h, m) /\ all = h.tools \o m.add
  OBVIOUS
<1>2. /\ h.prompt \in Text /\ h.tools \in Seq(Tool)
      /\ m.prompt \in Text /\ m.add \in Seq(Tool) /\ m.remove \in Seq(Tool)
  BY DEF Harness, Mutations
<1>3. all \in Seq(Tool) /\ ToSet(all) = ToSet(h.tools) \cup ToSet(m.add)
  BY <1>1, <1>2, ToSetOfConcat
<1>4. h.prompt \o m.prompt \in Text
  BY <1>2, ConcatProperties DEF Text
<1>5. f.prompt = h.prompt \o m.prompt /\ f.tools = FoldLeft(Erase, all, m.remove)
  BY <1>1 DEF FinalOf
<1>6. /\ f.tools \in Seq(Tool) /\ ToSet(f.tools) \subseteq ToSet(all)
      /\ ListedTwice(f.tools) \subseteq ListedTwice(all)
      /\ ToSet(f.tools) \cap ToSet(m.remove) \subseteq ListedTwice(all)
  BY <1>2, <1>3, <1>5, ErasedTools
<1>7. f \in Harness
  BY <1>1, <1>4, <1>5, <1>6 DEF FinalOf, Harness
<1> QED
  BY <1>1, <1>3, <1>5, <1>6, <1>7

LEMMA ApplyFits ==
  ASSUME AgentTyped, Callable, NEW m \in Mutations, NEW v \in 0..MaxVersion, Apply(m, v),
         ToSet(m.add) \subseteq registered, ToSet(m.add) \cap ToSet(m.remove) = {},
         UNCHANGED <<undone, engine>>
  PROVE  /\ live' = FinalOf(live, m) /\ live' \in Harness
         /\ applied' \in Snapshot
         /\ applied'.prompt = live.prompt /\ applied'.tools = live.tools /\ applied'.version = v
         /\ Callable'
<1>1. /\ live' = FinalOf(live, m)
      /\ registered' = registered \ ToSet(m.remove)
      /\ applied' = [prompt |-> live.prompt, tools |-> live.tools, version |-> v, removed |-> ToSet(m.remove)]
      /\ doubled' = doubled \cup ListedTwice(live.tools \o m.add)
  BY FinalIs DEF Apply
<1>2. live \in Harness
  BY DEF AgentTyped
<1>3. PICK f, all : f = FinalOf(live, m) /\ all = live.tools \o m.add
  OBVIOUS
<1>4. /\ f \in Harness
      /\ ToSet(f.tools) \subseteq ToSet(live.tools) \cup ToSet(m.add)
      /\ ToSet(f.tools) \cap ToSet(m.remove) \subseteq ListedTwice(all)
      /\ ListedTwice(f.tools) \subseteq ListedTwice(all)
  BY <1>2, <1>3, FinalFits
<1>5. PICK removed : removed = ToSet(m.remove)
  OBVIOUS
<1>6. removed \in SUBSET Tool
  BY <1>5 DEF Mutations, ToSet
<1>7. applied' \in Snapshot
  BY <1>1, <1>2, <1>5, <1>6 DEF Harness, Snapshot
<1>8. engine' = "up" => ToSet(live'.tools) \subseteq registered' \cup undone' \cup doubled'
  <2> SUFFICES ASSUME engine = "up", NEW t \in ToSet(f.tools)
               PROVE  t \in registered' \cup undone' \cup doubled'
    BY <1>1, <1>3
  <2>1. CASE t \in ToSet(m.remove)
    BY <1>1, <1>3, <1>4, <2>1
  <2>2. CASE t \notin ToSet(m.remove)
    <3>1. t \in registered \cup undone \cup doubled
      BY <1>4 DEF Callable
    <3> QED
      BY <1>1, <2>2, <3>1
  <2> QED
    BY <2>1, <2>2
<1>9. engine' = "up" =>
        ToSet(applied'.tools) \subseteq registered' \cup undone' \cup doubled' \cup applied'.removed
  BY <1>1 DEF Callable
<1>10. ListedTwice(live'.tools) \subseteq doubled'
  BY <1>1, <1>3, <1>4
<1>11. ListedTwice(applied'.tools) \subseteq doubled'
  BY <1>1 DEF Callable
<1> QED
  BY <1>1, <1>3, <1>4, <1>7, <1>8, <1>9, <1>10, <1>11 DEF Callable

\* What the gates let through, and what they call what they refuse.
LEMMA GatesTell ==
  ASSUME NEW m, NEW parent, NEW ready \in BOOLEAN, setup.keeps \in BOOLEAN, m.workflow \in BOOLEAN, NEW first,
         first = SelectInSeq(Gates(m, parent, ready), LAMBDA g : g.refuses)
  PROVE  /\ first = 0 => /\ ToSet(m.add) \cap ToSet(m.remove) = {}
                         /\ ToSet(m.add) \subseteq registered
                         /\ setup.keeps => FinalOf(live, m).tools # <<>>
                         /\ setup.keeps => parent # 0
         /\ first # 0 => Gates(m, parent, ready)[first].error \in Outcomes \ {"none", "applied", "undone"}
<1> DEFINE s == Gates(m, parent, ready)
<1>1. Len(s) = 8
  BY DEF Gates
<1>2. /\ s[2].refuses <=> ToSet(m.add) \cap ToSet(m.remove) # {}
      /\ s[4].refuses <=> setup.keeps /\ parent = 0
      /\ s[7].refuses <=> ~(ToSet(m.add) \subseteq registered)
      /\ s[8].refuses <=> setup.keeps /\ FinalTools(m) = <<>>
  BY DEF Gates
<1>3. \A i \in 1..8 : s[i].error \in Outcomes \ {"none", "applied", "undone"}
  <2>1. \A i \in 1..8 : i \in {1, 2, 3, 4, 5, 6, 7, 8}
    OBVIOUS
  <2>2. /\ s[1].error = "InvalidMutation" /\ s[2].error = "InvalidMutation" /\ s[3].error = "UnsupportedVariant"
        /\ s[4].error = "InvalidMutation" /\ s[5].error = "NotReady" /\ s[6].error = "GovernanceDenied"
        /\ s[7].error = "RegistryRejected" /\ s[8].error = "InvalidMutation"
    BY DEF Gates
  <2> HIDE DEF s
  <2> QED
    BY <2>1, <2>2 DEF Outcomes
<1>4. first = SelectInSeq(s, LAMBDA g : g.refuses)
  OBVIOUS
<1> HIDE DEF s
<1>5. first = IF {i \in 1..Len(s) : s[i].refuses} # {}
                THEN Min({i \in 1..Len(s) : s[i].refuses}) ELSE 0
  BY <1>4 DEF SelectInSeq
<1>6. Len(s) \in Nat
  BY <1>1
<1>7. first \in 0..8 /\ (first = 0 => \A i \in 1..8 : ~s[i].refuses)
  <2>1. /\ first \in 0..Len(s)
        /\ first = 0 => \A i \in 1..Len(s) : ~s[i].refuses
    BY <1>5, <1>6, LeastRefusal, Zenon
  <2> QED
    BY <1>1, <2>1
<1>8. first # 0 => s[first].error \in Outcomes \ {"none", "applied", "undone"}
  BY <1>3, <1>7
<1>9. ASSUME first = 0
      PROVE  ~s[2].refuses /\ ~s[4].refuses /\ ~s[7].refuses /\ ~s[8].refuses
  BY <1>7, <1>9
<1>10. FinalTools(m) = FinalOf(live, m).tools
  BY FinalIs
<1> QED
  BY <1>2, <1>8, <1>9, <1>10 DEF s

\* The ends of a mutation, up to the commit of its fork.
Refused ==
  \E error \in Outcomes \ {"none", "applied", "undone"} :
    /\ host' = [host EXCEPT !.last = error, !.before = live]
    /\ UNCHANGED <<registryVars, registered, live, applied, doubled>>
PassesGates(m, parent) ==
  /\ ToSet(m.add) \cap ToSet(m.remove) = {} /\ ToSet(m.add) \subseteq registered
  /\ setup.keeps => FinalOf(live, m).tools # <<>>
  /\ setup.keeps => parent # 0
AppliedAtOnce(m) ==
  /\ ~setup.keeps /\ Apply(m, 0)
  /\ host' = [host EXCEPT !.last = "applied", !.before = live, !.origin = live]
  /\ UNCHANGED registryVars
ForkCalled(m, parent) ==
  /\ setup.keeps /\ CanFork(parent)
  /\ CommitCall(Host, Child(parent, [harness |-> FinalOf(live, m).prompt, tools |-> FinalOf(live, m).tools]))
  /\ host' = [host EXCEPT !.pc = "commits", !.mutation = m, !.before = live]
  /\ UNCHANGED <<registered, live, applied, doubled>>

LEMMA MutatesHow ==
  ASSUME AgentTyped, NEW parent, HostMutatesFrom(parent)
  PROVE  /\ HostIsFree /\ setup.mutations > 0 /\ setup' = [setup EXCEPT !.mutations = @ - 1]
         /\ UNCHANGED <<config, stack, calls, pluginVars, base, gepa, undone>>
         /\ \/ Refused
            \/ \E m \in Mutations : PassesGates(m, parent) /\ (AppliedAtOnce(m) \/ ForkCalled(m, parent))
<1>0. setup.keeps \in BOOLEAN /\ \A m \in setup.offers : m \in Mutations
  BY DEF AgentTyped, SetupFields
<1>1. /\ HostIsFree /\ setup.mutations > 0 /\ setup' = [setup EXCEPT !.mutations = @ - 1]
      /\ UNCHANGED <<config, stack, calls, pluginVars, base, gepa, undone>>
  BY DEF HostMutatesFrom
<1>2. PICK m \in setup.offers, ready \in BOOLEAN, ioError \in BOOLEAN :
        LET gates == Gates(m, parent, ready)
            first == SelectInSeq(gates, LAMBDA g : g.refuses)
        IN IF first # 0
             THEN /\ host' = [host EXCEPT !.last = gates[first].error, !.before = live]
                  /\ UNCHANGED <<registryVars, registered, live, applied, doubled>>
           ELSE IF ~setup.keeps
             THEN /\ Apply(m, 0)
                  /\ host' = [host EXCEPT !.last = "applied", !.before = live, !.origin = live]
                  /\ UNCHANGED <<registryVars, trail>>
           ELSE IF ioError \/ ~CanFork(parent)
             THEN /\ host' = [host EXCEPT !.last = "RegistryRejected", !.before = live]
                  /\ UNCHANGED <<registryVars, registered, live, applied, doubled>>
             ELSE /\ CommitCall(Host, Child(parent, [harness |-> Final(m).prompt, tools |-> Final(m).tools]))
                  /\ host' = [host EXCEPT !.pc = "commits", !.mutation = m, !.before = live]
                  /\ UNCHANGED <<trail, registered, live, applied, doubled>>
  BY DEF HostMutatesFrom
<1>9. PICK first : first = SelectInSeq(Gates(m, parent, ready), LAMBDA g : g.refuses)
  OBVIOUS
<1>3. m \in Mutations /\ m.workflow \in BOOLEAN
  BY <1>0 DEF Mutations
<1>4. /\ first = 0 => PassesGates(m, parent)
      /\ first # 0 => Gates(m, parent, ready)[first].error \in Outcomes \ {"none", "applied", "undone"}
  BY <1>0, <1>3, <1>9, GatesTell DEF PassesGates
<1>5. CASE first # 0
  BY <1>1, <1>2, <1>4, <1>5, <1>9 DEF Refused
<1>6. CASE first = 0 /\ ~setup.keeps
  BY <1>1, <1>2, <1>3, <1>4, <1>6, <1>9 DEF AppliedAtOnce
<1>7. CASE first = 0 /\ setup.keeps /\ (ioError \/ ~CanFork(parent))
  BY <1>1, <1>2, <1>9, <1>7 DEF Refused, Outcomes
<1>8. CASE first = 0 /\ setup.keeps /\ ~ioError /\ CanFork(parent)
  BY <1>1, <1>2, <1>3, <1>4, <1>8, <1>9, FinalIs DEF ForkCalled
<1> QED
  BY <1>5, <1>6, <1>7, <1>8

\* A setup with one mutation, undo or request to the loader less.
LEMMA SetupSpends ==
  ASSUME setup \in SetupFields,
         \/ setup.mutations > 0 /\ setup' = [setup EXCEPT !.mutations = @ - 1]
         \/ setup.undos > 0 /\ setup' = [setup EXCEPT !.undos = @ - 1]
         \/ setup.loads > 0 /\ setup' = [setup EXCEPT !.loads = @ - 1]
         \/ setup' = setup
  PROVE  setup' \in SetupFields /\ setup'.keeps = setup.keeps
<1>1. setup.mutations \in Nat /\ setup.undos \in Nat /\ setup.loads \in Nat
  BY DEF SetupFields
<1>2. CASE setup.mutations > 0 /\ setup' = [setup EXCEPT !.mutations = @ - 1]
  <2>1. setup.mutations - 1 \in Nat
    BY <1>1, <1>2
  <2> QED
    BY <1>2, <2>1 DEF SetupFields
<1>3. CASE setup.undos > 0 /\ setup' = [setup EXCEPT !.undos = @ - 1]
  <2>1. setup.undos - 1 \in Nat
    BY <1>1, <1>3
  <2> QED
    BY <1>3, <2>1 DEF SetupFields
<1>4. CASE setup.loads > 0 /\ setup' = [setup EXCEPT !.loads = @ - 1]
  <2>1. setup.loads - 1 \in Nat
    BY <1>1, <1>4
  <2> QED
    BY <1>4, <2>1 DEF SetupFields
<1> QED
  BY <1>2, <1>3, <1>4

LEMMA AgentStays ==
  ASSUME HarnessInv, RegistryGrows, UNCHANGED <<live, applied, host, base, undone, doubled>>,
         setup' \in SetupFields /\ setup'.keeps = setup.keeps,
         engine' = "up" => engine = "up" /\ registered \subseteq registered',
         host.pc = "commits" => registered \subseteq registered' /\ scan' = scan
  PROVE  HarnessInv'
<1>1. AgentTyped' /\ Reported'
  BY DEF HarnessInv, AgentTyped, RegistryGrows
<1>2. MutationWaits'
  BY DEF HarnessInv, MutationWaits, RegistryGrows
<1>3. AgentIs'
  BY DEF HarnessInv, AgentIs, RegistryGrows
<1>4. Callable'
  BY DEF HarnessInv, Callable
<1> QED
  BY <1>1, <1>2, <1>3, <1>4 DEF HarnessInv

LEMMA MutatesKeeps ==
  ASSUME RegistryInv, HarnessInv, NEW parent, HostMutatesFrom(parent)
  PROVE  HarnessInv'
<1>1. AgentTyped /\ Reported /\ MutationWaits /\ AgentIs /\ Callable
  BY DEF HarnessInv
<1>2. /\ host.pc = "free" /\ scan = <<>> /\ engine = "up"
      /\ setup.mutations > 0 /\ setup' = [setup EXCEPT !.mutations = @ - 1]
      /\ UNCHANGED <<pluginVars, base, undone>>
  BY <1>1, MutatesHow DEF HostIsFree
<1>3. scan' = scan /\ engine' = engine
  BY <1>2 DEF pluginVars
<1>4. setup \in SetupFields /\ setup' \in SetupFields /\ setup'.keeps = setup.keeps /\ setup.keeps \in BOOLEAN
  BY <1>1, <1>2, SetupSpends DEF AgentTyped, SetupFields
<1>5. /\ live \in Harness /\ base' \in Version
      /\ host \in [pc : {"free", "commits"}, mutation : Mutations \cup {None}, last : Outcomes,
                   before : Harness, origin : Harness]
  BY <1>1, <1>2 DEF AgentTyped
<1>6. CASE Refused
  <2>1. PICK error \in Outcomes \ {"none", "applied", "undone"} :
          host' = [host EXCEPT !.last = error, !.before = live]
    BY <1>6 DEF Refused
  <2>2. UNCHANGED <<home, commit, committed, registered, live, applied, doubled>>
    BY <1>6 DEF Refused, registryVars
  <2>3. /\ host' = [pc |-> "free", mutation |-> host.mutation, last |-> error, before |-> live,
                    origin |-> host.origin]
        /\ host.origin \in Harness /\ host.mutation \in Mutations \cup {None}
    BY <1>2, <1>5, <2>1
  <2>4. AgentTyped'
    BY <1>1, <1>4, <1>5, <2>2, <2>3 DEF AgentTyped
  <2>5. Reported'
    BY <1>1, <2>2 DEF Reported
  <2>6. MutationWaits' /\ AgentIs'
    BY <1>1, <2>2, <2>3 DEF MutationWaits, AgentIs
  <2>7. Callable'
    BY <1>1, <1>2, <1>3, <2>2 DEF Callable
  <2> QED
    BY <2>4, <2>5, <2>6, <2>7 DEF HarnessInv
<1>7. ASSUME NEW m \in Mutations, PassesGates(m, parent), AppliedAtOnce(m)
      PROVE  HarnessInv'
  <2>1. /\ ~setup.keeps /\ Apply(m, 0)
        /\ host' = [host EXCEPT !.last = "applied", !.before = live, !.origin = live]
        /\ UNCHANGED <<home, commit, committed>>
    BY <1>7 DEF AppliedAtOnce, registryVars
  <2>2. ToSet(m.add) \cap ToSet(m.remove) = {} /\ ToSet(m.add) \subseteq registered
    BY <1>7 DEF PassesGates
  <2>3. 0 \in 0..MaxVersion /\ UNCHANGED <<undone, engine>>
    BY <1>2, <1>3, RegistryAssumption
  <2>4. /\ live' \in Harness /\ applied' \in Snapshot
        /\ applied'.prompt = live.prompt /\ applied'.tools = live.tools
        /\ Callable'
    BY <1>1, <2>1, <2>2, <2>3, ApplyFits
  <2>5. host' = [pc |-> "free", mutation |-> host.mutation, last |-> "applied", before |-> live,
                 origin |-> live]
        /\ host.mutation \in Mutations \cup {None}
    BY <1>2, <1>5, <2>1
  <2>6. AgentTyped'
    BY <1>4, <1>5, <2>4, <2>5 DEF AgentTyped, Outcomes
  <2>7. Reported' /\ MutationWaits'
    BY <1>1, <2>1, <2>5 DEF Reported, MutationWaits
  <2>8. live = [prompt |-> live.prompt, tools |-> live.tools]
    BY <1>5 DEF Harness
  <2>9. /\ host'.origin = [prompt |-> applied'.prompt, tools |-> applied'.tools]
        /\ host'.last = "applied" /\ host'.pc = "free" /\ ~setup'.keeps
    <3>1. host'.origin = live /\ host'.last = "applied" /\ host'.pc = "free"
      BY <2>5
    <3>2. ~setup'.keeps
      BY <1>4, <2>1
    <3>3. [prompt |-> applied'.prompt, tools |-> applied'.tools] = [prompt |-> live.prompt, tools |-> live.tools]
      BY <2>4
    <3> QED
      BY <2>8, <3>1, <3>2, <3>3
  <2>10. AgentIs'
    BY <2>9 DEF AgentIs
  <2> QED
    BY <2>4, <2>6, <2>7, <2>10 DEF HarnessInv
<1>8. ASSUME NEW m \in Mutations, PassesGates(m, parent), ForkCalled(m, parent)
      PROVE  HarnessInv'
  <2>1. PICK f, g : f = FinalOf(live, m) /\ g = Child(parent, [harness |-> f.prompt, tools |-> f.tools])
    OBVIOUS
  <2>2. /\ setup.keeps /\ CommitCall(Host, g)
        /\ host' = [host EXCEPT !.pc = "commits", !.mutation = m, !.before = live]
        /\ UNCHANGED <<registered, live, applied, doubled>>
    BY <1>8, <2>1 DEF ForkCalled
  <2>3. /\ commit' = [commit EXCEPT ![Host] = [pc |-> "called", file |-> Signature, genome |-> g, version |-> 0]]
        /\ UNCHANGED <<home, committed>>
    BY <2>2 DEF CommitCall
  <2>4. Host \in Writer /\ commit \in [Writer -> Place]
    BY EvolutionAssumption DEF RegistryInv, RegistryTypeOK, Place, Pcs
  <2>5. /\ commit'[Host].pc = "called" /\ commit'[Host].genome = g
        /\ \A w \in Writer : w # Host => commit'[w] = commit[w]
    BY <2>3, <2>4
  <2>6. Reported'
    BY <1>1, <2>3, <2>5 DEF Reported
  <2>7. f.tools # <<>> /\ ToSet(m.add) \cap ToSet(m.remove) = {} /\ ToSet(m.add) \subseteq registered
    BY <1>8, <2>1, <2>2 DEF PassesGates
  <2>8. StoredFor(g.spec, f)
    <3>1. g.spec = Merged(files[parent][Yaml].spec, [harness |-> f.prompt, tools |-> f.tools])
      BY <2>1 DEF Child
    <3>2. g.spec.tools = f.tools /\ (f.prompt # <<>> => g.spec.harness = f.prompt)
      BY <2>7, <3>1 DEF Merged
    <3> QED
      BY <3>2 DEF StoredFor
  <2>9. host' = [pc |-> "commits", mutation |-> m, last |-> host.last, before |-> live,
                 origin |-> host.origin]
        /\ host.origin \in Harness /\ host.last \in Outcomes
    BY <1>2, <1>5, <2>2
  <2>10. AgentTyped'
    BY <1>1, <1>4, <1>5, <2>2, <2>9 DEF AgentTyped
  <2>11. MutationWaits'
    BY <1>2, <1>3, <1>4, <2>1, <2>2, <2>5, <2>7, <2>8, <2>9 DEF MutationWaits, Pcs
  <2>12. AgentIs'
    BY <1>1, <1>4, <2>2, <2>3, <2>9 DEF AgentIs
  <2>13. Callable'
    BY <1>1, <1>2, <1>3, <2>2 DEF Callable
  <2> QED
    BY <2>6, <2>10, <2>11, <2>12, <2>13 DEF HarnessInv
<1> QED
  BY <1>1, <1>6, <1>7, <1>8, MutatesHow

LEMMA AppliesKeeps ==
  ASSUME RegistryInv, HarnessInv, HostApplies
  PROVE  HarnessInv'
<1>1. AgentTyped /\ Reported /\ MutationWaits /\ AgentIs /\ Callable
  BY DEF HarnessInv
<1>2. PICK m, v : m = host.mutation /\ v = commit[Host].version
  OBVIOUS
<1>3. /\ host.pc = "commits" /\ commit[Host].pc = "done" /\ Apply(m, v) /\ base' = v
      /\ host' = [host EXCEPT !.pc = "free", !.mutation = None, !.last = "applied", !.origin = host.before]
      /\ CommitReturns(Host)
      /\ UNCHANGED <<home, committed, pluginVars, setup, undone>>
  BY <1>2 DEF HostApplies, At
<1>4. /\ m \in Mutations /\ setup.keeps
      /\ StoredFor(commit[Host].genome.spec, FinalOf(live, m))
      /\ ToSet(m.add) \cap ToSet(m.remove) = {} /\ ToSet(m.add) \subseteq registered
      /\ live = host.before
  BY <1>1, <1>2, <1>3 DEF MutationWaits, AgentIs
<1>5. Host \in Writer /\ commit \in [Writer -> Place]
  BY EvolutionAssumption DEF RegistryInv, RegistryTypeOK, Place, Pcs
<1>6. [version |-> v, genome |-> commit[Host].genome, by |-> home[Host]] \in committed
  BY <1>1, <1>2, <1>3, <1>5 DEF Reported
<1>7. v \in Version /\ v \in 0..MaxVersion
  <2>1. committed \subseteq [version : Version, genome : Genome, by : Process \cup {None}]
    BY DEF RegistryInv, RegistryTypeOK
  <2> QED
    BY <1>6, <2>1, RegistryAssumption DEF Version
<1>8. UNCHANGED <<undone, engine, scan>>
  BY <1>3 DEF pluginVars
<1>9. /\ live' = FinalOf(live, m) /\ live' \in Harness /\ applied' \in Snapshot
      /\ applied'.prompt = live.prompt /\ applied'.tools = live.tools /\ applied'.version = v
      /\ Callable'
  BY <1>1, <1>3, <1>4, <1>7, <1>8, ApplyFits
<1>10. commit'[Host] = Idle /\ \A w \in Writer : w # Host => commit'[w] = commit[w]
  BY <1>3, <1>5 DEF CommitReturns
<1>11. Reported'
  BY <1>1, <1>3, <1>10 DEF Reported, Idle
<1>12. host' = [pc |-> "free", mutation |-> None, last |-> "applied", before |-> host.before,
                origin |-> host.before]
       /\ host.before \in Harness
  BY <1>1, <1>3 DEF AgentTyped
<1>13. AgentTyped'
  BY <1>1, <1>3, <1>7, <1>9, <1>12 DEF AgentTyped, Outcomes
<1>14. MutationWaits'
  BY <1>12 DEF MutationWaits
<1>15. live = [prompt |-> live.prompt, tools |-> live.tools]
  BY <1>1 DEF AgentTyped, Harness
<1>16. /\ host'.origin = [prompt |-> applied'.prompt, tools |-> applied'.tools]
       /\ host'.last = "applied" /\ host'.pc = "free"
  BY <1>4, <1>9, <1>12, <1>15
<1>17. \E c \in committed' : /\ c.version = applied'.version /\ c.by = home'[Host]
                             /\ StoredFor(c.genome.spec, live')
  BY <1>3, <1>4, <1>6, <1>9
<1>18. AgentIs'
  BY <1>16, <1>17 DEF AgentIs
<1> QED
  BY <1>9, <1>11, <1>13, <1>14, <1>18 DEF HarnessInv

LEMMA GivesUpKeeps ==
  ASSUME RegistryInv, HarnessInv, HostGivesUp
  PROVE  HarnessInv'
<1>1. AgentTyped /\ Reported /\ MutationWaits /\ AgentIs /\ Callable
  BY DEF HarnessInv
<1>2. /\ host.pc = "commits"
      /\ host' = [host EXCEPT !.pc = "free", !.mutation = None, !.last = "RegistryRejected"]
      /\ CommitReturns(Host)
      /\ UNCHANGED <<home, committed, registered, engine, setup, live, applied, base, undone, doubled>>
  BY DEF HostGivesUp, coordinatorVars, pluginVars
<1>3. Host \in Writer /\ commit \in [Writer -> Place]
  BY EvolutionAssumption DEF RegistryInv, RegistryTypeOK, Place, Pcs
<1>4. commit'[Host] = Idle /\ \A w \in Writer : w # Host => commit'[w] = commit[w]
  BY <1>2, <1>3 DEF CommitReturns
<1>5. Reported'
  BY <1>1, <1>2, <1>4 DEF Reported, Idle
<1>6. host' = [pc |-> "free", mutation |-> None, last |-> "RegistryRejected", before |-> host.before,
               origin |-> host.origin]
      /\ host.before \in Harness /\ host.origin \in Harness
  BY <1>1, <1>2 DEF AgentTyped
<1>7. AgentTyped'
  BY <1>1, <1>2, <1>6 DEF AgentTyped, Outcomes
<1>8. MutationWaits' /\ AgentIs'
  BY <1>1, <1>2, <1>6 DEF MutationWaits, AgentIs
<1>9. Callable'
  BY <1>1, <1>2 DEF Callable
<1> QED
  BY <1>5, <1>7, <1>8, <1>9 DEF HarnessInv

LEMMA UndoesKeeps ==
  ASSUME RegistryInv, HarnessInv, HostUndoes
  PROVE  HarnessInv'
<1>1. AgentTyped /\ Reported /\ MutationWaits /\ AgentIs /\ Callable
  BY DEF HarnessInv
<1>2. /\ host.pc = "free" /\ engine = "up" /\ applied # None /\ setup.undos > 0
      /\ setup' = [setup EXCEPT !.undos = @ - 1]
      /\ live' = [prompt |-> applied.prompt, tools |-> applied.tools]
      /\ undone' = undone \cup applied.removed
      /\ applied' = None
      /\ host' = [host EXCEPT !.last = "undone"]
      /\ UNCHANGED <<home, commit, committed, registered, engine, base, doubled>>
  BY DEF HostUndoes, HostIsFree, registryVars, coordinatorVars, pluginVars
<1>3. setup' \in SetupFields /\ setup'.keeps = setup.keeps
  BY <1>1, <1>2, SetupSpends DEF AgentTyped
<1>4. applied.prompt \in Text /\ applied.tools \in Seq(Tool) /\ live' \in Harness
  BY <1>1, <1>2 DEF AgentTyped, Snapshot, Harness
<1>5. host' = [pc |-> "free", mutation |-> host.mutation, last |-> "undone", before |-> host.before,
               origin |-> host.origin]
      /\ host.before \in Harness /\ host.origin \in Harness /\ host.mutation \in Mutations \cup {None}
  BY <1>1, <1>2 DEF AgentTyped
<1>6. AgentTyped'
  BY <1>1, <1>2, <1>3, <1>4, <1>5 DEF AgentTyped, Outcomes
<1>7. Reported' /\ MutationWaits'
  BY <1>1, <1>2, <1>5 DEF Reported, MutationWaits
<1>8. live' = host'.origin /\ host'.last = "undone" /\ host'.pc = "free"
  BY <1>1, <1>2, <1>5 DEF AgentIs
<1>9. AgentIs'
  BY <1>2, <1>8 DEF AgentIs
<1>10. Callable'
  <2>1. PICK s : s = applied.tools
    OBVIOUS
  <2>2. ToSet(s) \subseteq registered \cup undone \cup doubled \cup applied.removed /\ ListedTwice(s) \subseteq doubled
    BY <1>1, <1>2, <2>1 DEF Callable
  <2>3. live'.tools = s
    BY <1>2, <2>1
  <2> QED
    BY <1>2, <2>2, <2>3 DEF Callable
<1> QED
  BY <1>6, <1>7, <1>9, <1>10 DEF HarnessInv

-----------------------------------------------------------------------------
(* Everyone else.                                                           *)

\* What a step of the loader leaves to the registry of tools.
LEMMA LoaderStays ==
  ASSUME NEW f, NEW strict, NEW require, NEW init,
         \/ LoadSo(f, strict, require, init) /\ UNCHANGED engine
         \/ Destroy
         \/ UNCHANGED <<registered, engine>>
  PROVE  engine' = "up" => engine = "up" /\ registered \subseteq registered'
<1>1. CASE LoadSo(f, strict, require, init) /\ UNCHANGED engine
  BY <1>1 DEF LoadSo, loadVars
<1>2. CASE Destroy
  BY <1>2 DEF Destroy
<1> QED
  BY <1>1, <1>2

LEMMA LoadersKeep ==
  ASSUME RegistryInv, HarnessInv,
         HostLoads \/ HostLoadsAll \/ LoadAllGoesOn \/ HostUnloads \/ HostCreates \/ HostEnds
  PROVE  HarnessInv'
<1>1. AgentTyped /\ Reported /\ MutationWaits
  BY DEF HarnessInv
<1>2. LoaderFrame
  BY DEF HostLoads, HostLoadsAll, LoadAllGoesOn, HostUnloads, HostCreates, HostEnds, HostAsksLoader
<1>3. /\ UNCHANGED <<live, applied, host, base, undone, doubled>>
      /\ UNCHANGED <<home, commit, committed>>
  BY <1>2 DEF LoaderFrame, registryVars
<1>4. RegistryGrows
  BY <1>1, <1>3, RegistryStays
<1>5. \/ setup.loads > 0 /\ setup' = [setup EXCEPT !.loads = @ - 1]
      \/ setup' = setup
  BY DEF HostLoads, HostLoadsAll, LoadAllGoesOn, HostUnloads, HostCreates, HostEnds, HostAsksLoader
<1>6. setup' \in SetupFields /\ setup'.keeps = setup.keeps
  BY <1>1, <1>5, SetupSpends DEF AgentTyped
<1>7. host.pc # "commits"
  <2>1. CASE LoadAllGoesOn
    BY <1>1, <2>1 DEF MutationWaits, LoadAllGoesOn
  <2>2. CASE ~LoadAllGoesOn
    BY <2>2 DEF HostLoads, HostLoadsAll, HostUnloads, HostCreates, HostEnds, HostAsksLoader, HostIsFree
  <2> QED
    BY <2>1, <2>2
<1>8. engine' = "up" => engine = "up" /\ registered \subseteq registered'
  <2>1. CASE HostLoads
    BY <2>1, LoaderStays DEF HostLoads, Load
  <2>2. CASE HostLoadsAll
    BY <2>2 DEF HostLoadsAll, LoadAll, loadVars
  <2>3. CASE LoadAllGoesOn
    BY <2>3, LoaderStays DEF LoadAllGoesOn, ScanNext
  <2>4. CASE HostUnloads
    BY <2>4 DEF HostUnloads, Unload
  <2>5. CASE HostCreates
    BY <2>5 DEF HostCreates, CreateProvider, loadVars
  <2>6. CASE HostEnds
    BY <2>6, LoaderStays DEF HostEnds
  <2> QED
    BY <2>1, <2>2, <2>3, <2>4, <2>5, <2>6
<1> QED
  BY <1>3, <1>4, <1>6, <1>7, <1>8, AgentStays

LEMMA CallersKeep ==
  ASSUME RegistryInv, HarnessInv,
         HostCalls \/ ToolReturns \/ ToolLeaves \/ HostRegisters \/ HostFalls
  PROVE  HarnessInv'
<1>1. AgentTyped /\ Reported /\ MutationWaits
  BY DEF HarnessInv
<1>2. CASE HostCalls \/ ToolReturns \/ ToolLeaves
  <2>1. UNCHANGED registered /\ CallsFrame
    BY <1>2 DEF HostCalls, ToolReturns, ToolLeaves, Execute, ToolEnds, ToolEscapes
  <2>2. /\ UNCHANGED <<live, applied, host, base, undone, doubled, setup, registered, engine, scan>>
        /\ UNCHANGED <<home, commit, committed>>
    BY <2>1 DEF CallsFrame, registryVars, pluginVars, evolutionVars
  <2>3. RegistryGrows
    BY <1>1, <2>2, RegistryStays
  <2>4. setup' \in SetupFields /\ setup'.keeps = setup.keeps
    BY <1>1, <2>2 DEF AgentTyped
  <2> QED
    BY <2>2, <2>3, <2>4, AgentStays
<1>3. CASE HostRegisters
  <2>1. registered \subseteq registered' /\ host.pc # "commits"
    BY <1>3 DEF HostRegisters, Register, HostIsFree
  <2>2. /\ UNCHANGED <<live, applied, host, base, undone, doubled, setup, engine, scan>>
        /\ UNCHANGED <<home, commit, committed>>
    BY <1>3 DEF HostRegisters, registryVars, evolutionVars
  <2>3. RegistryGrows
    BY <1>1, <2>2, RegistryStays
  <2>4. setup' \in SetupFields /\ setup'.keeps = setup.keeps
    BY <1>1, <2>2 DEF AgentTyped
  <2> QED
    BY <2>1, <2>2, <2>3, <2>4, AgentStays
<1>4. CASE HostFalls
  <2>1. /\ UNCHANGED <<live, applied, host, base, undone, doubled, setup, registered, scan>>
        /\ UNCHANGED <<home, commit, committed>> /\ engine' = "fallen"
    BY <1>4 DEF HostFalls, Crash, loadVars, evolutionVars
  <2>2. RegistryGrows
    BY <1>1, <2>1, RegistryStays
  <2>3. setup' \in SetupFields /\ setup'.keeps = setup.keeps
    BY <1>1, <2>1 DEF AgentTyped
  <2> QED
    BY <2>1, <2>2, <2>3, AgentStays
<1> QED
  BY <1>2, <1>3, <1>4

LEMMA RestStays ==
  ASSUME RegistryInv, HarnessInv,
         \/ GepaProposes \/ GepaGenerates \/ GepaCommits \/ GepaCannotStore
         \/ OthersPropose \/ OthersCommit \/ OthersRevert
         \/ Committing \/ Crashes \/ UNCHANGED allVars
  PROVE  /\ UNCHANGED <<live, applied, host, base, undone, doubled, setup, registered, engine, scan>>
         /\ RegistryGrows
<1>1. AgentTyped /\ Reported
  BY DEF HarnessInv
<1>2. Gepa \in Writer /\ Gepa # Host
  BY EvolutionAssumption DEF Gepa, Host
<1>3. UNCHANGED <<live, applied, host, base, undone, doubled, setup, registered, engine, scan>>
  BY DEF GepaProposes, GepaGenerates, GepaCommits, GepaCannotStore, GepaFrame, OthersPropose, OthersCommit,
         OthersRevert, OthersHear, Committing, Crashes, allVars, coordinatorVars, pluginVars, evolutionVars
<1>4. RegistryGrows
  <2>1. CASE GepaCommits \/ GepaCannotStore
    BY <1>1, <1>2, <2>1, OthersGrow DEF GepaCommits, GepaCannotStore
  <2>2. CASE GepaGenerates
    <3>1. UNCHANGED registryVars \/ \E g : CommitCall(Gepa, g)
      BY <2>2 DEF GepaGenerates
    <3>2. CASE UNCHANGED registryVars
      BY <1>1, <3>2, RegistryStays DEF registryVars
    <3>3. CASE \E g : CommitCall(Gepa, g)
      <4>1. UNCHANGED <<home, committed>>
        BY <3>3 DEF CommitCall
      <4> QED
        BY <1>1, <1>2, <3>3, <4>1, OthersGrow
    <3> QED
      BY <3>1, <3>2, <3>3
  <2>3. CASE Committing
    BY <1>1, <2>3, CommitGrows DEF Committing
  <2>4. CASE Crashes
    <3>1. UNCHANGED <<home, commit, committed>>
      BY <2>4 DEF Crashes, Crash
    <3> QED
      BY <1>1, <3>1, RegistryStays
  <2>5. CASE GepaProposes \/ OthersPropose \/ OthersCommit \/ OthersRevert \/ UNCHANGED allVars
    <3>1. UNCHANGED registryVars
      BY <2>5 DEF GepaProposes, OthersPropose, OthersCommit, OthersRevert, OthersHear, allVars
    <3> QED
      BY <1>1, <3>1, RegistryStays DEF registryVars
  <2> QED
    BY <2>1, <2>2, <2>3, <2>4, <2>5
<1> QED
  BY <1>3, <1>4

LEMMA RestKeeps ==
  ASSUME RegistryInv, HarnessInv,
         \/ GepaProposes \/ GepaGenerates \/ GepaCommits \/ GepaCannotStore
         \/ OthersPropose \/ OthersCommit \/ OthersRevert
         \/ Committing \/ Crashes \/ UNCHANGED allVars
  PROVE  HarnessInv'
<1>1. /\ UNCHANGED <<live, applied, host, base, undone, doubled, setup, registered, engine, scan>>
      /\ RegistryGrows
  BY RestStays
<1>2. setup' \in SetupFields /\ setup'.keeps = setup.keeps
  BY <1>1 DEF HarnessInv, AgentTyped
<1> QED
  BY <1>1, <1>2, AgentStays

LEMMA HarnessBegins == Init => HarnessInv
<1> SUFFICES ASSUME Init PROVE HarnessInv
  OBVIOUS
<1>1. /\ setup \in Setups /\ RegistryInit(setup.place, setup.seed)
      /\ registered = ToSet(setup.live.tools)
      /\ live = setup.live /\ applied = None /\ base = 1 /\ undone = {} /\ doubled = ListedTwice(live.tools)
      /\ host = [pc |-> "free", mutation |-> None, last |-> "none",
                 before |-> setup.live, origin |-> setup.live]
  BY DEF Init, CoordinatorInit
<1>2. setup \in SetupFields
  BY <1>1, SetupsAssumption DEF SetupFields
<1>3. live \in Harness
  BY <1>1, <1>2 DEF SetupFields
<1>4. base \in Version
  BY <1>1, RegistryAssumption DEF Version
<1>5. AgentTyped
  BY <1>1, <1>2, <1>3, <1>4 DEF AgentTyped, Outcomes
<1>6. Reported
  BY <1>1 DEF RegistryInit, Idle, Reported
<1>7. MutationWaits /\ AgentIs /\ Callable
  BY <1>1 DEF MutationWaits, AgentIs, Callable
<1> QED
  BY <1>5, <1>6, <1>7 DEF HarnessInv

LEMMA HarnessKept == Spec => []HarnessInv
<1>1. RegistryInv /\ HarnessInv /\ [Next]_allVars => HarnessInv'
  <2> SUFFICES ASSUME RegistryInv, HarnessInv, [Next]_allVars PROVE HarnessInv'
    OBVIOUS
  <2> QED
    BY MutatesKeeps, AppliesKeeps, GivesUpKeeps, UndoesKeeps, LoadersKeep, CallersKeep, RestKeeps
       DEF Next, HostMutates
<1> QED
  BY <1>1, HarnessBegins, RegistryKept, PTL DEF Spec

(* What the agent is in memory is what was stored for it, once a mutation   *)
(* succeeded; after one that failed, or an undo, it is what it was; and a   *)
(* tool that it lists and cannot call was taken by a mutation that was      *)
(* undone, or stood twice in its list.                                      *)
THEOREM AgentIsStored == Spec => []LivePersisted
<1>1. HarnessInv => LivePersisted
  BY DEF HarnessInv, AgentIs, Callable, StoredFor, LivePersisted
<1> QED
  BY <1>1, HarnessKept, PTL

-----------------------------------------------------------------------------
(* A session of the host.                                                  *)

Prompts == Text \cup {g.spec.harness : g \in Genome}
Turns == [of : Nat, prompt : Prompts, ok : BOOLEAN, had : Text]
Verdicts == [before : Turns, after : Turns, equal : BOOLEAN]
Records == [input : Nat, output : Turns, verdict : Verdicts]
Ends == {"emit", "done", "thrown"}

SessionTyped ==
  /\ run \in Runs /\ seeded \in BOOLEAN
  /\ phase \in {"off", "baseline", "mutation", "committing", "reload", "compare"} \cup Ends
  /\ phase # "off" => run.contexts > 0
  /\ context \in Nat \ {0} /\ (phase # "off" => context <= run.contexts)
  /\ phase \in Ends => context = run.contexts
  /\ skipped \subseteq Nat
  /\ rerun \in Turns /\ outputs \in Seq(Turns) /\ verdicts \in Seq(Verdicts) /\ records \in Seq(Records)

\* How many contexts have an output, have a second turn behind them, and are compared.
Begun == IF phase \in {"off", "baseline"} THEN context - 1 ELSE context
Tried == IF phase \in {"compare"} \cup Ends THEN context ELSE context - 1
Compared == IF phase \in Ends THEN context ELSE context - 1

\* Each context has one output, and there is a second turn once one was not skipped.
TurnsFit ==
  /\ Len(outputs) = Begun
  /\ phase \in {"mutation", "committing", "reload", "compare"} => baseline \in Turns /\ baseline.of = context
  /\ rerun.of <= Tried
  /\ 1 \notin skipped /\ Tried > 0 => rerun.of > 0
  /\ phase = "compare" /\ context \notin skipped => rerun.of = context

\* An output is the response of its context's second turn, or empty: none yet in the phases before.
OutputsFit ==
  /\ \A k \in skipped : k <= Tried
  /\ \A i \in DOMAIN outputs : outputs[i] = NoTurn \/ (outputs[i].of = i /\ i \notin skipped)
  /\ phase \in {"mutation", "committing", "reload"} => outputs[context] = NoTurn
  /\ rerun.of > 0 => outputs[rerun.of] = Response(rerun)
  /\ \A j \in DOMAIN verdicts :
       /\ verdicts[j].after.of <= Tried
       /\ verdicts[j].after.of > 0 => outputs[verdicts[j].after.of] = Response(verdicts[j].after)

\* A verdict is of its own context or of a later one.
VerdictFits(v, i) ==
  /\ v.before.of >= i /\ v.after.of <= v.before.of /\ v.before.of > 0
  /\ 1 \notin skipped => v.before.of = i
  /\ skipped = {} => v.after.of = i
VerdictsFit ==
  /\ Len(verdicts) <= Compared
  /\ 1 \notin skipped => Len(verdicts) = Compared
  /\ \A i \in DOMAIN verdicts : VerdictFits(verdicts[i], i)

\* What was stored for the agent is what it is, and so is what a second turn read.
PromptsFit ==
  /\ contested = {} => rerun.prompt = rerun.had
  /\ contested = {} => \A i \in DOMAIN verdicts : verdicts[i].after.prompt = verdicts[i].after.had
BaseFits ==
  phase # "off" =>
    /\ ~setup.keeps => base = 1
    /\ setup.keeps => \E c \in committed : c.version = base /\ (contested = {} => c.genome.spec.harness = live.prompt)
    /\ host.pc = "commits" /\ contested = {} =>
         commit[Host].genome.spec.harness = FinalOf(live, host.mutation).prompt

Written ==
  /\ records # <<>> => phase \in Ends
  /\ Len(records) <= run.contexts
  /\ \A i \in DOMAIN records : records[i].output = outputs[i] /\ records[i].verdict = VerdictAt(i)

SessionInv ==
  SessionTyped /\ TurnsFit /\ OutputsFit /\ VerdictsFit /\ PromptsFit /\ BaseFits /\ Written

\* A turn is a turn, whatever prompt it ran with.
LEMMA TurnTyped ==
  ASSUME SessionTyped, AgentTyped, NEW prompt \in Prompts, NEW ok \in BOOLEAN
  PROVE  /\ Turn(prompt, ok) \in Turns /\ Turn(prompt, ok).of = context
         /\ Turn(prompt, ok).prompt = prompt /\ Turn(prompt, ok).had = live.prompt
BY DEF Turn, Turns, SessionTyped, AgentTyped, Harness

LEMMA NoTurnTyped == NoTurn \in Turns /\ NotAttempted \in Verdicts /\ NoTurn.of = 0
<1>1. <<>> \in Text
  BY DEF Text
<1> QED
  BY <1>1 DEF NoTurn, NotAttempted, Turns, Verdicts, Prompts

\* What is left alone when a step is not about the base, the records or the verdicts.
BaseStays == UNCHANGED allVars /\ run' = run /\ (phase # "off" <=> phase' # "off")

LEMMA BaseStands ==
  ASSUME SessionInv, BaseStays
  PROVE  BaseFits'
<1>1. UNCHANGED <<setup, base, committed, contested, live, host, commit>>
  BY DEF BaseStays, allVars, registryVars, evolutionVars
<1>2. CASE phase = "off"
  BY <1>2 DEF BaseStays, BaseFits
<1>3. CASE phase # "off"
  BY <1>1, <1>3 DEF SessionInv, BaseFits
<1> QED
  BY <1>2, <1>3

LEMMA VerdictsOf ==
  ASSUME SessionTyped, NEW j \in DOMAIN verdicts
  PROVE  verdicts[j].after \in Turns /\ verdicts[j].after.of \in Nat
<1>1. verdicts[j] \in Verdicts
  BY DEF SessionTyped
<1>2. verdicts[j].after \in Turns
  BY <1>1 DEF Verdicts
<1> QED
  BY <1>2 DEF Turns

LEMMA BaselineKeeps ==
  ASSUME HarnessInv, SessionInv, Baseline
  PROVE  SessionInv'
<1>1. SessionTyped /\ TurnsFit /\ OutputsFit /\ VerdictsFit /\ PromptsFit /\ BaseFits /\ Written
  BY DEF SessionInv
<1>2. PICK ok \in BOOLEAN, turn \in {Turn(setup.live.prompt, o) : o \in BOOLEAN} :
        /\ turn = Turn(setup.live.prompt, ok)
        /\ phase = "baseline" /\ phase' = "mutation"
        /\ baseline' = turn /\ outputs' = Append(outputs, NoTurn)
        /\ UNCHANGED <<allVars, run, context, seeded, rerun, verdicts, records, skipped>>
  BY DEF Baseline, PhaseIs
<1>3. setup.live.prompt \in Prompts
  BY DEF HarnessInv, AgentTyped, SetupFields, Harness, Prompts
<1>4. turn \in Turns /\ turn.of = context
  BY <1>1, <1>2, <1>3, TurnTyped DEF HarnessInv
<1>5. UNCHANGED <<contested>>
  BY <1>2 DEF allVars, registryVars
<1>6. /\ context \in Nat \ {0} /\ context <= run.contexts /\ run \in Runs
      /\ outputs \in Seq(Turns) /\ Len(outputs) = context - 1
      /\ rerun \in Turns /\ rerun.of \in Nat
  BY <1>1, <1>2 DEF SessionTyped, TurnsFit, Begun, Turns
<1>7. PICK out : out = outputs'
  OBVIOUS
<1>8. /\ out \in Seq(Turns) /\ Len(out) = context /\ DOMAIN out = 1..context
      /\ \A i \in 1..context : out[i] = IF i = context THEN NoTurn ELSE outputs[i]
  BY <1>2, <1>6, <1>7, NoTurnTyped
<1>9. SessionTyped'
  BY <1>1, <1>2, <1>4, <1>7, <1>8 DEF SessionTyped, Ends
<1>10. TurnsFit' /\ OutputsFit'
  <2>1. Begun' = context /\ Tried' = Tried /\ Tried = context - 1
    BY <1>2 DEF Begun, Tried, Ends
  <2>2. rerun.of <= Tried /\ (1 \notin skipped /\ Tried > 0 => rerun.of > 0)
    BY <1>1 DEF TurnsFit
  <2>3. TurnsFit'
    BY <1>2, <1>4, <1>7, <1>8, <2>1, <2>2 DEF TurnsFit
  <2>4. /\ \A k \in skipped : k <= context - 1
        /\ \A i \in DOMAIN outputs : outputs[i] = NoTurn \/ (outputs[i].of = i /\ i \notin skipped)
        /\ rerun.of > 0 => outputs[rerun.of] = Response(rerun)
        /\ \A j \in DOMAIN verdicts :
             /\ verdicts[j].after.of <= context - 1
             /\ verdicts[j].after.of > 0 => outputs[verdicts[j].after.of] = Response(verdicts[j].after)
    BY <1>1, <2>1 DEF OutputsFit
  <2>5. \A i \in DOMAIN out : out[i] = NoTurn \/ (out[i].of = i /\ i \notin skipped)
    BY <1>6, <1>8, <2>4
  <2>6. out[context] = NoTurn
    BY <1>6, <1>8
  <2>7. \A i \in 1..(context - 1) : out[i] = outputs[i]
    BY <1>6, <1>8
  <2>8. rerun.of > 0 => out[rerun.of] = Response(rerun)
    BY <1>6, <2>1, <2>2, <2>4, <2>7
  <2>9. ASSUME NEW j \in DOMAIN verdicts, verdicts[j].after.of > 0
        PROVE  out[verdicts[j].after.of] = Response(verdicts[j].after)
    <3>1. verdicts[j].after.of \in Nat
      BY <1>1, <2>9, VerdictsOf
    <3> QED
      BY <1>6, <2>4, <2>7, <2>9, <3>1
  <2>10. OutputsFit'
    BY <1>2, <1>7, <2>1, <2>4, <2>5, <2>6, <2>8, <2>9 DEF OutputsFit, Response
  <2> QED
    BY <2>3, <2>10
<1>11. VerdictsFit'
  <2>1. Compared' = Compared
    BY <1>2 DEF Compared, Ends
  <2> QED
    BY <1>1, <1>2, <2>1 DEF VerdictsFit, VerdictFits
<1>12. PromptsFit'
  BY <1>1, <1>2, <1>5 DEF PromptsFit
<1>13. BaseFits'
  BY <1>2, BaseStands DEF BaseStays
<1>14. Written'
  <2>1. records = <<>> /\ Len(records) = 0 /\ DOMAIN records = {}
    BY <1>1, <1>2 DEF Written, Ends
  <2>2. records' = <<>> /\ DOMAIN records' = {} /\ Len(records') <= run'.contexts
    BY <1>1, <1>2, <2>1 DEF Written
  <2> QED
    BY <2>2 DEF Written
<1> QED
  BY <1>9, <1>10, <1>11, <1>12, <1>13, <1>14 DEF SessionInv

LEMMA ReloadKeeps ==
  ASSUME RegistryInv, HarnessInv, SessionInv, Reload
  PROVE  SessionInv'
<1>1. SessionTyped /\ TurnsFit /\ OutputsFit /\ VerdictsFit /\ PromptsFit /\ BaseFits /\ Written
  BY DEF SessionInv
<1>2. /\ phase = "reload" /\ phase' = "compare"
      /\ UNCHANGED <<allVars, run, context, seeded, baseline, verdicts, records>>
  BY DEF Reload, PhaseIs
<1>3. /\ context \in Nat \ {0} /\ context <= run.contexts /\ run \in Runs /\ skipped \subseteq Nat
      /\ outputs \in Seq(Turns) /\ Len(outputs) = context
      /\ rerun \in Turns /\ rerun.of \in Nat
      /\ baseline \in Turns /\ baseline.of = context
  BY <1>1, <1>2 DEF SessionTyped, TurnsFit, Begun, Turns
<1>4. Begun' = context /\ Tried' = context /\ Tried = context - 1 /\ Compared' = Compared
  BY <1>2 DEF Begun, Tried, Compared, Ends
<1>5. contested' = contested
  BY <1>2 DEF allVars, registryVars
<1>6. BaseFits'
  BY <1>2, BaseStands DEF BaseStays
<1>7. Written'
  <2>1. records = <<>> /\ DOMAIN records = {}
    BY <1>1, <1>2 DEF Written, Ends
  <2>2. records' = <<>> /\ DOMAIN records' = {} /\ Len(records') <= run'.contexts
    BY <1>1, <1>2, <2>1 DEF Written
  <2> QED
    BY <2>2 DEF Written
<1>8. rerun.of <= context - 1 /\ (1 \notin skipped /\ context - 1 > 0 => rerun.of > 0)
  BY <1>1, <1>4 DEF TurnsFit
<1>11. /\ \A k \in skipped : k <= context - 1
       /\ \A i \in DOMAIN outputs : outputs[i] = NoTurn \/ (outputs[i].of = i /\ i \notin skipped)
       /\ outputs[context] = NoTurn
       /\ rerun.of > 0 => outputs[rerun.of] = Response(rerun)
       /\ \A j \in DOMAIN verdicts :
            /\ verdicts[j].after.of \in Nat /\ verdicts[j].after.of <= context - 1
            /\ verdicts[j].after.of > 0 => outputs[verdicts[j].after.of] = Response(verdicts[j].after)
  <2>1. \A j \in DOMAIN verdicts : verdicts[j].after.of \in Nat
    BY <1>1, VerdictsOf
  <2> QED
    BY <1>1, <1>2, <1>4, <2>1 DEF OutputsFit
<1>9. CASE skipped' = skipped \cup {context} /\ UNCHANGED <<rerun, outputs>>
  <2>1. SessionTyped'
    BY <1>1, <1>2, <1>9 DEF SessionTyped, Ends
  <2>2. 1 \notin skipped' => context # 1 /\ 1 \notin skipped
    BY <1>9
  <2>3. rerun.of <= context /\ (1 \notin skipped' => rerun.of > 0)
    BY <1>3, <1>8, <2>2
  <2>4. TurnsFit'
    BY <1>1, <1>2, <1>3, <1>4, <1>9, <2>3 DEF TurnsFit
  <2>5. VerdictsFit'
    BY <1>1, <1>2, <1>4, <1>9 DEF VerdictsFit, VerdictFits
  <2>6. PromptsFit'
    BY <1>1, <1>2, <1>5, <1>9 DEF PromptsFit
  <2>7. OutputsFit'
    <3>1. ASSUME NEW k \in skipped' PROVE k <= context
      <4>1. CASE k = context
        BY <1>3, <4>1
      <4>2. CASE k \in skipped
        <5>1. k \in Nat /\ k <= context - 1
          BY <1>3, <1>11, <4>2
        <5> QED
          BY <1>3, <5>1
      <4> QED
        BY <1>9, <4>1, <4>2
    <3>2. \A i \in DOMAIN outputs : outputs[i] = NoTurn \/ (outputs[i].of = i /\ i \notin skipped')
      BY <1>9, <1>11
    <3>3. \A j \in DOMAIN verdicts : verdicts[j].after.of <= context
      BY <1>3, <1>11
    <3> QED
      BY <1>2, <1>4, <1>9, <1>11, <3>1, <3>2, <3>3 DEF OutputsFit, Response
  <2> QED
    BY <1>6, <1>7, <2>1, <2>4, <2>5, <2>6, <2>7 DEF SessionInv
<1>10. CASE /\ LastCommitted > FirstVersion /\ CanFork(LastCommitted)
            /\ \E ok \in BOOLEAN :
                 LET turn == Turn(Reruns, ok) IN
                   /\ rerun' = turn
                   /\ outputs' = IF ok THEN [outputs EXCEPT ![Len(outputs)] = turn] ELSE outputs
            /\ UNCHANGED skipped
  <2>1. seeded /\ LastCommitted = base /\ base > 1 /\ CanFork(base)
    BY <1>1, <1>10 DEF LastCommitted, FirstVersion, SessionTyped
  <2>2. PICK g : g = files[base][Yaml]
    OBVIOUS
  <2>3. base \in Version /\ g \in Genome /\ g # None
    <3>1. base \in Version /\ g # None
      BY <2>1, <2>2 DEF CanFork, Loads
    <3>2. files[base][Yaml] \in Genome \cup {None}
      BY <3>1 DEF RegistryInv, RegistryTypeOK, File
    <3> QED
      BY <2>2, <3>1, <3>2
  <2>4. Reruns = g.spec.harness /\ Reruns \in Prompts
    BY <2>2, <2>3 DEF Reruns, Prompts
  <2>5. ASSUME contested = {} PROVE Reruns = live.prompt
    <3>1. setup.keeps
      <4>1. base # 1 /\ phase # "off"
        BY <1>2, <2>1, <2>3, RegistryAssumption DEF Version
      <4> QED
        BY <1>1, <4>1 DEF BaseFits
    <3>2. PICK c \in committed : c.version = base /\ c.genome.spec.harness = live.prompt
      BY <1>1, <1>2, <2>5, <3>1 DEF BaseFits
    <3>3. Kept(c)
      BY <2>5, <3>2 DEF RegistryInv, StoredInv, Clean
    <3>4. files[base][Yaml] = c.genome
      BY <3>2, <3>3 DEF Kept, File
    <3> QED
      BY <2>2, <2>4, <3>2, <3>4
  <2>6. PICK ok \in BOOLEAN, turn \in {Turn(Reruns, o) : o \in BOOLEAN} :
          /\ turn = Turn(Reruns, ok) /\ rerun' = turn
          /\ outputs' = IF ok THEN [outputs EXCEPT ![Len(outputs)] = turn] ELSE outputs
    BY <1>10
  <2>7. turn \in Turns /\ turn.of = context /\ turn.prompt = Reruns /\ turn.had = live.prompt
    BY <1>1, <2>4, <2>6, TurnTyped DEF HarnessInv
  <2>8. PICK out : out = outputs'
    OBVIOUS
  <2>9. /\ out \in Seq(Turns) /\ Len(out) = context /\ DOMAIN out = 1..context /\ context \in 1..context
        /\ \A i \in 1..context : out[i] = IF i = context THEN Response(turn) ELSE outputs[i]
    <3>1. DOMAIN outputs = 1..context /\ context \in 1..context /\ turn.ok = ok
      BY <1>3, <2>6 DEF Turn
    <3>2. CASE ~ok
      BY <1>3, <1>11, <2>6, <2>8, <3>1, <3>2 DEF Response
    <3>3. CASE ok
      <4>1. out = [outputs EXCEPT ![context] = turn]
        BY <1>3, <2>6, <2>8, <3>3
      <4>2. \A i \in 1..context : out[i] = IF i = context THEN turn ELSE outputs[i]
        BY <3>1, <4>1
      <4>3. out \in Seq(Turns) /\ Len(out) = context /\ DOMAIN out = 1..context
        BY <1>3, <2>7, <3>1, <4>1
      <4> QED
        BY <3>1, <3>3, <4>2, <4>3 DEF Response
    <3> QED
      BY <3>2, <3>3
  <2>10. SessionTyped'
    BY <1>1, <1>2, <1>10, <2>6, <2>7, <2>8, <2>9 DEF SessionTyped, Ends
  <2>11. TurnsFit'
    BY <1>2, <1>3, <1>4, <2>6, <2>7, <2>8, <2>9 DEF TurnsFit
  <2>12. VerdictsFit'
    BY <1>1, <1>2, <1>4, <1>10 DEF VerdictsFit, VerdictFits
  <2>13. PromptsFit'
    BY <1>1, <1>2, <1>5, <2>5, <2>6, <2>7 DEF PromptsFit
  <2>14. OutputsFit'
    <3>1. ASSUME NEW k \in skipped PROVE k <= context /\ k # context
      <4>1. k \in Nat /\ k <= context - 1
        BY <1>3, <1>11
      <4> QED
        BY <1>3, <4>1
    <3>2. Response(turn) = NoTurn \/ Response(turn).of = context
      BY <2>7 DEF Response
    <3>3. \A i \in DOMAIN out : out[i] = NoTurn \/ (out[i].of = i /\ i \notin skipped)
      BY <1>3, <1>11, <2>9, <3>1, <3>2
    <3>4. out[turn.of] = Response(turn)
      BY <2>7, <2>9
    <3>5. ASSUME NEW j \in DOMAIN verdicts
          PROVE  /\ verdicts[j].after.of <= context
                 /\ verdicts[j].after.of > 0 => out[verdicts[j].after.of] = Response(verdicts[j].after)
      <4>1. PICK k : k = verdicts[j].after.of
        OBVIOUS
      <4>2. k \in Nat /\ k <= context - 1 /\ (k > 0 => outputs[k] = Response(verdicts[j].after))
        BY <1>11, <4>1
      <4>3. k > 0 => out[k] = outputs[k]
        BY <1>3, <2>9, <4>2
      <4> QED
        BY <1>3, <4>1, <4>2, <4>3
    <3> QED
      BY <1>2, <1>4, <1>10, <2>6, <2>8, <3>1, <3>3, <3>4, <3>5 DEF OutputsFit, Response
  <2> QED
    BY <1>6, <1>7, <2>10, <2>11, <2>12, <2>13, <2>14 DEF SessionInv
<1> QED
  BY <1>9, <1>10 DEF Reload

LEMMA ContestedGrows ==
  ASSUME RegistryStep \/ UNCHANGED registryVars
  PROVE  contested \subseteq contested'
<1>1. CASE \E w \in Writer : Commit(w)
  BY <1>1 DEF Commit, CommitLock, CommitScan, CommitMkdir, CommitWrites, CommitRenames, CommitAborts
<1>2. CASE UNCHANGED registryVars
  BY <1>2 DEF registryVars
<1>3. CASE \E w \in Writer, g \in Genome : CommitCall(w, g)
  BY <1>3 DEF CommitCall
<1>4. CASE \E p \in Process : Crash(p)
  BY <1>4 DEF Crash
<1> QED
  BY <1>1, <1>2, <1>3, <1>4 DEF RegistryStep

\* A step within a mutation, or of another, tells of no context.
LEMMA SessionMoves ==
  ASSUME SessionInv, UNCHANGED <<run, context, seeded, baseline, rerun, outputs, verdicts, records, skipped>>,
         \/ phase' = phase
         \/ phase \in {"mutation", "committing"} /\ phase' \in {"committing", "reload"},
         contested \subseteq contested', BaseFits'
  PROVE  SessionInv'
<1>1. SessionTyped /\ TurnsFit /\ VerdictsFit /\ PromptsFit /\ Written
  BY DEF SessionInv
<1>2. SessionTyped'
  BY <1>1 DEF SessionTyped, Ends
<1>3. Begun' = Begun /\ Tried' = Tried /\ Compared' = Compared
  BY DEF Begun, Tried, Compared, Ends
<1>4. TurnsFit'
  <2>1. phase' \in {"mutation", "committing", "reload", "compare"} =>
          phase \in {"mutation", "committing", "reload", "compare"}
    OBVIOUS
  <2>2. phase' = "compare" => phase = "compare"
    OBVIOUS
  <2> QED
    BY <1>1, <1>3, <2>1, <2>2 DEF TurnsFit
<1>5. VerdictsFit' /\ PromptsFit'
  BY <1>1, <1>3 DEF VerdictsFit, VerdictFits, PromptsFit
<1>6. Written'
  BY <1>1 DEF Written, VerdictAt, Ends
<1>7. OutputsFit'
  <2>1. phase' \in {"mutation", "committing", "reload"} => phase \in {"mutation", "committing", "reload"}
    OBVIOUS
  <2> QED
    BY <1>3, <2>1 DEF SessionInv, OutputsFit, Response
<1> QED
  BY <1>2, <1>4, <1>5, <1>6, <1>7 DEF SessionInv

LEMMA MutateKeeps ==
  ASSUME RegistryInv, HarnessInv, SessionInv, Mutate
  PROVE  SessionInv'
<1>1. SessionTyped /\ BaseFits /\ AgentTyped
  BY DEF SessionInv, HarnessInv
<1>2. /\ phase = "mutation" /\ HostMutatesFrom(LastCommitted)
      /\ phase' = IF host'.pc = "free" THEN "reload" ELSE "committing"
      /\ UNCHANGED <<run, context, seeded, baseline, rerun, outputs, verdicts, records, skipped>>
  BY DEF Mutate, PhaseIs
<1>3. /\ HostIsFree /\ setup.mutations > 0 /\ setup' = [setup EXCEPT !.mutations = @ - 1]
      /\ base' = base
      /\ \/ Refused
         \/ \E m \in Mutations : /\ PassesGates(m, LastCommitted)
                                 /\ AppliedAtOnce(m) \/ ForkCalled(m, LastCommitted)
  BY <1>1, <1>2, MutatesHow
<1>4. setup'.keeps = setup.keeps /\ host.pc = "free"
  BY <1>1, <1>3, SetupSpends DEF AgentTyped, HostIsFree
<1>5. contested \subseteq contested'
  <2>1. Next
    BY SessionMutates DEF Next
  <2> QED
    BY <2>1, NextRegistry, ContestedGrows
<1>6. host \in [pc : {"free", "commits"}, mutation : Mutations \cup {None}, last : Outcomes,
                before : Harness, origin : Harness]
  BY <1>1 DEF AgentTyped
<1>7. BaseFits'
  <2>1. CASE Refused
    <3>1. UNCHANGED <<committed, contested, live>> /\ host'.pc = "free"
      BY <1>4, <1>6, <2>1 DEF Refused, registryVars
    <3> QED
      BY <1>1, <1>2, <1>3, <1>4, <3>1 DEF BaseFits
  <2>2. ASSUME NEW m \in Mutations, AppliedAtOnce(m)
        PROVE  BaseFits'
    <3>1. ~setup.keeps /\ host'.pc = "free"
      BY <1>4, <1>6, <2>2 DEF AppliedAtOnce
    <3> QED
      BY <1>1, <1>2, <1>3, <1>4, <3>1 DEF BaseFits
  <2>3. ASSUME NEW m \in Mutations, PassesGates(m, LastCommitted), ForkCalled(m, LastCommitted)
        PROVE  BaseFits'
    <3>1. PICK f, g : f = FinalOf(live, m) /\ g = Child(base, [harness |-> f.prompt, tools |-> f.tools])
      OBVIOUS
    <3>2. setup.keeps /\ LastCommitted = base /\ CanFork(base) /\ CommitCall(Host, g)
      BY <2>3, <3>1 DEF ForkCalled, PassesGates, LastCommitted
    <3>3. host' = [host EXCEPT !.pc = "commits", !.mutation = m, !.before = live] /\ live' = live
      BY <2>3 DEF ForkCalled
    <3>4. host'.mutation = m
      BY <1>6, <3>3
    <3>5. /\ commit' = [commit EXCEPT ![Host] = [pc |-> "called", file |-> Signature, genome |-> g, version |-> 0]]
          /\ UNCHANGED <<committed, contested, files>>
      BY <3>2 DEF CommitCall, diskVars
    <3>6. Host \in Writer /\ commit \in [Writer -> Place]
      BY EvolutionAssumption DEF RegistryInv, RegistryTypeOK, Place, Pcs
    <3>7. commit'[Host].genome = g
      BY <3>5, <3>6
    <3>8. PICK c \in committed : c.version = base /\ (contested = {} => c.genome.spec.harness = live.prompt)
      BY <1>1, <1>2, <3>2 DEF BaseFits
    <3>9. ASSUME contested = {} PROVE g.spec.harness = f.prompt
      <4>1. Kept(c)
        BY <3>8, <3>9 DEF RegistryInv, StoredInv, Clean
      <4>2. files[base][Yaml] = c.genome
        BY <3>8, <4>1 DEF Kept, File
      <4>3. g.spec = Merged(files[base][Yaml].spec, [harness |-> f.prompt, tools |-> f.tools])
        BY <3>1 DEF Child
      <4>4. g.spec.harness = IF f.prompt = <<>> THEN live.prompt ELSE f.prompt
        BY <3>8, <3>9, <4>2, <4>3 DEF Merged
      <4>5. f.prompt = <<>> => live.prompt = <<>>
        <5>1. live.prompt \in Text /\ m.prompt \in Text /\ f.prompt = live.prompt \o m.prompt
          BY <1>1, <3>1 DEF AgentTyped, Harness, Mutations, FinalOf
        <5>2. Len(f.prompt) = Len(live.prompt) + Len(m.prompt) /\ Len(live.prompt) \in Nat /\ Len(m.prompt) \in Nat
          BY <5>1, ConcatProperties DEF Text
        <5>3. ASSUME f.prompt = <<>> PROVE Len(live.prompt) = 0
          <6>1. PICK a, b : a = Len(live.prompt) /\ b = Len(m.prompt)
            OBVIOUS
          <6>2. Len(f.prompt) = 0
            BY <5>3
          <6>3. a \in Nat /\ b \in Nat /\ 0 = a + b
            BY <5>2, <6>1, <6>2
          <6>4. a = 0
            BY <6>3
          <6> QED
            BY <6>1, <6>4
        <5> QED
          BY <5>1, <5>3 DEF Text
      <4> QED
        BY <4>4, <4>5
    <3> QED
      BY <1>1, <1>2, <1>3, <1>4, <3>1, <3>2, <3>3, <3>4, <3>5, <3>7, <3>8, <3>9 DEF BaseFits
  <2> QED
    BY <1>3, <2>1, <2>2, <2>3
<1> QED
  BY <1>2, <1>5, <1>7, SessionMoves

LEMMA EndsKeeps ==
  ASSUME RegistryInv, HarnessInv, SessionInv, MutationEnds
  PROVE  SessionInv'
<1>1. BaseFits /\ AgentTyped /\ MutationWaits /\ Reported
  BY DEF SessionInv, HarnessInv
<1>2. /\ phase = "committing" /\ phase' = "reload"
      /\ UNCHANGED <<run, context, seeded, baseline, rerun, outputs, verdicts, records, skipped>>
  BY DEF MutationEnds, PhaseIs
<1>3. contested \subseteq contested'
  BY NextRegistry, ContestedGrows DEF MutationEnds, Next
<1>4. BaseFits'
  <2>1. CASE HostApplies
    <3>1. PICK m, v : m = host.mutation /\ v = commit[Host].version
      OBVIOUS
    <3>2. /\ host.pc = "commits" /\ commit[Host].pc = "done" /\ Apply(m, v) /\ base' = v
          /\ host' = [host EXCEPT !.pc = "free", !.mutation = None, !.last = "applied", !.origin = host.before]
          /\ UNCHANGED <<home, committed, contested, setup>>
      BY <2>1, <3>1 DEF HostApplies, At
    <3>3. host'.pc = "free" /\ setup.keeps
      BY <1>1, <3>2 DEF AgentTyped, MutationWaits
    <3>4. live'.prompt = FinalOf(live, m).prompt
      BY <3>2, FinalIs DEF Apply
    <3>5. Host \in Writer
      BY EvolutionAssumption
    <3>6. PICK c \in committed : c.version = v /\ c.genome = commit[Host].genome
      BY <1>1, <3>1, <3>2, <3>5 DEF Reported
    <3>7. contested = {} => c.genome.spec.harness = live'.prompt
      BY <1>1, <1>2, <3>1, <3>2, <3>4, <3>6 DEF BaseFits
    <3> QED
      BY <3>2, <3>3, <3>6, <3>7 DEF BaseFits
  <2>2. CASE HostGivesUp
    <3>1. /\ host' = [host EXCEPT !.pc = "free", !.mutation = None, !.last = "RegistryRejected"]
          /\ UNCHANGED <<committed, contested, setup, live, base>>
      BY <2>2 DEF HostGivesUp
    <3>2. host'.pc = "free"
      BY <1>1, <3>1 DEF AgentTyped
    <3> QED
      BY <1>1, <1>2, <3>1, <3>2 DEF BaseFits
  <2> QED
    BY <2>1, <2>2 DEF MutationEnds
<1> QED
  BY <1>2, <1>3, <1>4, SessionMoves

LEMMA ElsewhereKeeps ==
  ASSUME RegistryInv, HarnessInv, SessionInv,
         (phase = "off" /\ HostElse) \/ Elsewhere \/ UNCHANGED allVars, UNCHANGED sessionVars
  PROVE  SessionInv'
<1>1. UNCHANGED <<run, context, seeded, baseline, rerun, outputs, verdicts, records, skipped, phase>>
  BY DEF sessionVars
<1>2. [Next]_allVars
  BY DEF HostElse, Elsewhere, Next
<1>3. contested \subseteq contested'
  BY <1>2, NextRegistry, ContestedGrows DEF allVars
<1>4. BaseFits'
  <2>1. CASE phase = "off"
    BY <1>1, <2>1 DEF BaseFits
  <2>2. CASE phase # "off"
    <3>1. UNCHANGED <<live, host, base, setup>> /\ RegistryGrows
      BY <2>2, RestStays DEF Elsewhere
    <3> QED
      BY <1>1, <1>3, <2>2, <3>1 DEF SessionInv, BaseFits, RegistryGrows
  <2> QED
    BY <2>1, <2>2
<1> QED
  BY <1>1, <1>3, <1>4, SessionMoves

\* What is known of a turn that is compared while its context is the last.
HasOutput(turn) == turn.of <= context /\ (turn.of > 0 => outputs[turn.of] = Response(turn))

LEMMA CompareKeeps ==
  ASSUME HarnessInv, SessionInv, Compare
  PROVE  SessionInv'
<1>1. SessionTyped /\ TurnsFit /\ OutputsFit /\ VerdictsFit /\ PromptsFit /\ Written
  BY DEF SessionInv
<1>2. /\ phase = "compare"
      /\ UNCHANGED <<allVars, run, seeded, baseline, rerun, outputs, records, skipped>>
  BY DEF Compare, PhaseIs
<1>3. \/ context < run.contexts /\ context' = context + 1 /\ phase' = "baseline"
      \/ ~(context < run.contexts) /\ context' = context /\ phase' = "emit"
  BY DEF Compare
<1>4. /\ context \in Nat \ {0} /\ context <= run.contexts /\ run.contexts \in Nat
      /\ baseline \in Turns /\ baseline.of = context
      /\ rerun \in Turns /\ rerun.of \in Nat /\ rerun.of <= context
      /\ 1 \notin skipped => rerun.of > 0
      /\ skipped = {} => rerun.of = context
      /\ verdicts \in Seq(Verdicts) /\ Len(verdicts) <= context - 1
      /\ 1 \notin skipped => Len(verdicts) = context - 1
      /\ Len(outputs) = context
  <2>1. run.contexts \in Nat
    BY <1>1, RunsAssumption DEF SessionTyped
  <2>2. Begun = context /\ Tried = context /\ Compared = context - 1
    BY <1>2 DEF Begun, Tried, Compared, Ends
  <2>3. context \in Nat \ {0} /\ context <= run.contexts /\ rerun \in Turns /\ verdicts \in Seq(Verdicts)
    BY <1>1, <1>2 DEF SessionTyped
  <2>4. rerun.of \in Nat
    BY <2>3 DEF Turns
  <2> QED
    BY <1>1, <1>2, <2>1, <2>2, <2>3, <2>4 DEF TurnsFit, VerdictsFit
<1>5. /\ context' \in Nat \ {0} /\ context' <= run.contexts
      /\ Begun' = context /\ Tried' = context /\ Compared' = context
      /\ phase' \in {"baseline", "emit"}
      /\ phase' = "emit" => context' = run.contexts
  BY <1>3, <1>4 DEF Begun, Tried, Compared, Ends
<1>6. contested' = contested
  BY <1>2 DEF allVars, registryVars
<1>7. BaseFits'
  BY <1>2, <1>5, BaseStands DEF BaseStays
<1>8. TurnsFit'
  BY <1>1, <1>2, <1>4, <1>5 DEF TurnsFit
<1>9. Written'
  <2>1. records = <<>> /\ DOMAIN records = {}
    BY <1>1, <1>2 DEF Written, Ends
  <2>2. records' = <<>> /\ DOMAIN records' = {} /\ Len(records') <= run'.contexts
    BY <1>1, <1>2, <2>1 DEF Written
  <2> QED
    BY <2>2 DEF Written
<1>13. /\ \A k \in skipped : k <= context
       /\ \A i \in DOMAIN outputs : outputs[i] = NoTurn \/ (outputs[i].of = i /\ i \notin skipped)
       /\ HasOutput(rerun) /\ \A i \in DOMAIN verdicts : HasOutput(verdicts[i].after)
  <2>1. Tried = context
    BY <1>2 DEF Tried
  <2> QED
    BY <1>1, <1>4, <2>1 DEF OutputsFit, HasOutput
<1>10. SUFFICES /\ verdicts' \in Seq(Verdicts) /\ Len(verdicts') <= context
                /\ 1 \notin skipped => Len(verdicts') = context
                /\ \A i \in DOMAIN verdicts' :
                     /\ VerdictFits(verdicts'[i], i)
                     /\ contested = {} => verdicts'[i].after.prompt = verdicts'[i].after.had
                     /\ HasOutput(verdicts'[i].after)
  <2>1. SessionTyped'
    BY <1>1, <1>2, <1>5, <1>10 DEF SessionTyped, Ends
  <2>2. VerdictsFit'
    BY <1>2, <1>5, <1>10 DEF VerdictsFit, VerdictFits
  <2>3. PromptsFit'
    BY <1>1, <1>2, <1>6, <1>10 DEF PromptsFit
  <2>4. OutputsFit'
    BY <1>2, <1>5, <1>10, <1>13 DEF OutputsFit, HasOutput, Response
  <2> QED
    BY <1>7, <1>8, <1>9, <2>1, <2>2, <2>3, <2>4 DEF SessionInv
<1>11. CASE rerun = NoTurn /\ verdicts' = verdicts
  <2>1. 1 \in skipped
    BY <1>4, <1>11, NoTurnTyped
  <2> QED
    BY <1>1, <1>4, <1>11, <1>13, <2>1 DEF VerdictsFit, PromptsFit
<1>12. CASE \E equal \in {TRUE, baseline.ok = rerun.ok} :
              verdicts' = Append(verdicts, [before |-> baseline, after |-> rerun, equal |-> equal])
  <2>1. PICK equal \in {TRUE, baseline.ok = rerun.ok} :
          verdicts' = Append(verdicts, [before |-> baseline, after |-> rerun, equal |-> equal])
    BY <1>12
  <2>2. equal \in BOOLEAN
    OBVIOUS
  <2>3. PICK v, n, new : /\ v = [before |-> baseline, after |-> rerun, equal |-> equal]
                         /\ n = Len(verdicts) /\ new = verdicts'
    OBVIOUS
  <2>4. v \in Verdicts /\ v.before = baseline /\ v.after = rerun
    BY <1>4, <2>2, <2>3 DEF Verdicts
  <2>5. /\ new \in Seq(Verdicts) /\ Len(new) = n + 1 /\ DOMAIN new = 1..n + 1 /\ n \in Nat
        /\ \A i \in 1..n + 1 : new[i] = IF i = n + 1 THEN v ELSE verdicts[i]
    BY <1>4, <2>1, <2>3, <2>4
  <2>6. n + 1 <= context /\ (1 \notin skipped => n + 1 = context)
    BY <1>4, <2>3, <2>5
  <2>7. VerdictFits(v, n + 1)
    <3>1. baseline.of >= n + 1 /\ rerun.of <= baseline.of /\ baseline.of > 0
      BY <1>4, <2>5, <2>6
    <3>2. 1 \notin skipped => baseline.of = n + 1
      BY <1>4, <2>6
    <3>3. skipped = {} => rerun.of = n + 1
      BY <1>4, <2>6
    <3> QED
      BY <2>4, <3>1, <3>2, <3>3 DEF VerdictFits
  <2>8. contested = {} => v.after.prompt = v.after.had
    BY <1>1, <2>4 DEF PromptsFit
  <2>9. ASSUME NEW i \in 1..n + 1
        PROVE  /\ VerdictFits(new[i], i) /\ (contested = {} => new[i].after.prompt = new[i].after.had)
               /\ HasOutput(new[i].after)
    <3>1. CASE i = n + 1
      BY <1>13, <2>4, <2>5, <2>7, <2>8, <3>1
    <3>2. CASE i # n + 1
      <4>1. i \in DOMAIN verdicts /\ new[i] = verdicts[i]
        BY <1>4, <2>3, <2>5, <3>2
      <4> QED
        BY <1>1, <1>13, <4>1 DEF VerdictsFit, PromptsFit
    <3> QED
      BY <3>1, <3>2
  <2> QED
    BY <2>3, <2>5, <2>6, <2>9
<1> QED
  BY <1>11, <1>12 DEF Compare

LEMMA EmitKeeps ==
  ASSUME HarnessInv, SessionInv, Emit
  PROVE  SessionInv'
<1>1. SessionTyped /\ TurnsFit /\ OutputsFit /\ VerdictsFit /\ PromptsFit /\ Written
  BY DEF SessionInv
<1>2. /\ phase = "emit" /\ phase' \in Ends
      /\ UNCHANGED <<allVars, run, context, seeded, baseline, rerun, outputs, verdicts, skipped>>
  BY DEF Emit, PhaseIs, Ends
<1>3. Begun' = Begun /\ Tried' = Tried /\ Compared' = Compared /\ Begun = context
  BY <1>2 DEF Begun, Tried, Compared, Ends
<1>4. contested' = contested
  BY <1>2 DEF allVars, registryVars
<1>5. BaseFits'
  BY <1>2, BaseStands DEF BaseStays, Ends
<1>6. TurnsFit'
  BY <1>1, <1>2, <1>3 DEF TurnsFit, Ends
<1>12. OutputsFit'
  BY <1>1, <1>2, <1>3 DEF OutputsFit, Response, Ends
<1>7. VerdictsFit' /\ PromptsFit'
  BY <1>1, <1>2, <1>3, <1>4 DEF VerdictsFit, VerdictFits, PromptsFit
<1>8. /\ context = run.contexts /\ run.contexts \in Nat /\ records \in Seq(Records)
      /\ outputs \in Seq(Turns) /\ Len(outputs) = run.contexts /\ verdicts \in Seq(Verdicts)
  <2>1. context = run.contexts
    BY <1>1, <1>2 DEF SessionTyped, Ends
  <2> QED
    BY <1>1, <1>3, <2>1, RunsAssumption DEF SessionTyped, TurnsFit
<1>9. CASE records' = records
  <2>1. SessionTyped'
    BY <1>1, <1>2, <1>9 DEF SessionTyped, Ends
  <2>2. Written'
    BY <1>1, <1>2, <1>9 DEF Written, VerdictAt
  <2> QED
    BY <1>5, <1>6, <1>7, <1>12, <2>1, <2>2 DEF SessionInv
<1>10. CASE /\ Len(records) + 1 <= run.contexts
            /\ records' = Append(records, [input |-> Len(records) + 1, output |-> outputs[Len(records) + 1],
                                           verdict |-> VerdictAt(Len(records) + 1)])
  <2>1. PICK n, r, new : /\ n = Len(records) + 1 /\ new = records'
                         /\ r = [input |-> n, output |-> outputs[n], verdict |-> VerdictAt(n)]
    OBVIOUS
  <2>2. n \in Nat /\ n \in 1..run.contexts /\ outputs[n] \in Turns
    BY <1>8, <1>10, <2>1
  <2>3. VerdictAt(n) \in Verdicts
    BY <1>8, NoTurnTyped DEF VerdictAt
  <2>4. r \in Records /\ r.output = outputs[n] /\ r.verdict = VerdictAt(n)
    BY <2>1, <2>2, <2>3 DEF Records
  <2>5. /\ new \in Seq(Records) /\ Len(new) = n /\ DOMAIN new = 1..n
        /\ \A i \in 1..n : new[i] = IF i = n THEN r ELSE records[i]
    BY <1>8, <1>10, <2>1, <2>4
  <2>6. SessionTyped'
    BY <1>1, <1>2, <2>1, <2>5 DEF SessionTyped, Ends
  <2>7. ASSUME NEW i \in 1..n PROVE new[i].output = outputs[i] /\ new[i].verdict = VerdictAt(i)
    <3>1. CASE i = n
      BY <2>4, <2>5, <3>1
    <3>2. CASE i # n
      <4>1. i \in DOMAIN records
        BY <1>8, <2>1, <2>2, <3>2
      <4> QED
        BY <1>1, <2>5, <3>2, <4>1 DEF Written
    <3> QED
      BY <3>1, <3>2
  <2>8. \A i : VerdictAt(i)' = VerdictAt(i)
    BY <1>2 DEF VerdictAt
  <2>9. Written'
    <3>1. Len(records') <= run'.contexts
      BY <1>2, <2>1, <2>2, <2>5
    <3>2. \A i \in DOMAIN records' : records'[i].output = outputs'[i] /\ records'[i].verdict = VerdictAt(i)'
      BY <1>2, <2>1, <2>5, <2>7, <2>8
    <3> QED
      BY <1>2, <3>1, <3>2 DEF Written
  <2> QED
    BY <1>5, <1>6, <1>7, <1>12, <2>6, <2>9 DEF SessionInv
<1>11. \/ records' = records
       \/ /\ Len(records) + 1 <= run.contexts
          /\ records' = Append(records, [input |-> Len(records) + 1, output |-> outputs[Len(records) + 1],
                                         verdict |-> VerdictAt(Len(records) + 1)])
  BY DEF Emit
<1> QED
  BY <1>9, <1>10, <1>11

LEMMA SessionBegins == SessionInit => SessionInv
<1> SUFFICES ASSUME SessionInit PROVE SessionInv
  OBVIOUS
<1>1. /\ Init /\ run \in Runs /\ run.setup = setup
      /\ phase = IF run.contexts = 0 THEN "off" ELSE "baseline"
      /\ context = 1 /\ seeded \in BOOLEAN
      /\ rerun = NoTurn /\ outputs = <<>> /\ verdicts = <<>> /\ records = <<>> /\ skipped = {}
  BY DEF SessionInit
<1>2. run.contexts \in Nat /\ (run.contexts > 0 => setup.seed.spec.harness = setup.live.prompt)
  BY <1>1, RunsAssumption
<1>3. SessionTyped
  BY <1>1, <1>2, NoTurnTyped DEF SessionTyped, Ends
<1>4. Begun = 0 /\ Tried = 0 /\ Compared = 0
  BY <1>1, <1>2 DEF Begun, Tried, Compared, Ends
<1>5. TurnsFit
  BY <1>1, <1>2, <1>4, NoTurnTyped DEF TurnsFit
<1>6. VerdictsFit
  BY <1>1, <1>4 DEF VerdictsFit
<1>7. PromptsFit
  BY <1>1 DEF PromptsFit, NoTurn
<1>8. BaseFits
  <2>1. /\ base = 1 /\ host.pc = "free" /\ live = setup.live
        /\ committed = {[version |-> 1, genome |-> setup.seed, by |-> None]}
    BY <1>1 DEF Init, RegistryInit
  <2>2. PICK c : c = [version |-> 1, genome |-> setup.seed, by |-> None]
    OBVIOUS
  <2>3. c \in committed /\ c.version = 1 /\ c.genome = setup.seed
    BY <2>1, <2>2
  <2>4. phase # "off" => c.genome.spec.harness = live.prompt
    BY <1>1, <1>2, <2>1, <2>3
  <2> QED
    BY <2>1, <2>3, <2>4 DEF BaseFits
<1>9. Written
  BY <1>1, <1>2 DEF Written
<1>10. OutputsFit
  BY <1>1, <1>2, <1>4, NoTurnTyped DEF OutputsFit
<1> QED
  BY <1>10, <1>3, <1>5, <1>6, <1>7, <1>8, <1>9 DEF SessionInv

LEMMA RecordsTell == SessionInv => RecordsFit
<1> SUFFICES ASSUME SessionInv PROVE RecordsFit
  OBVIOUS
<1>1. SessionTyped /\ TurnsFit /\ OutputsFit /\ VerdictsFit /\ PromptsFit /\ Written
  BY DEF SessionInv
<1>2. ASSUME NEW i \in DOMAIN records
      PROVE  LET r == records[i] IN
               /\ r.output # NoTurn => r.output.of = i /\ i \notin skipped
               /\ \A j \in DOMAIN records :
                    records[j].verdict.after.of = i => r.output = Response(records[j].verdict.after)
               /\ skipped = {} => /\ r.verdict # NotAttempted
                                  /\ r.verdict.before.of = i /\ r.verdict.after.of = i
               /\ r.verdict # NotAttempted => /\ r.verdict.before.of >= i
                                              /\ r.verdict.after.of <= r.verdict.before.of
                                              /\ r.verdict.before.of # i => 1 \in skipped
                                              /\ contested = {} => r.verdict.after.prompt = r.verdict.after.had
  <2>1. PICK v : v = records[i].verdict
    OBVIOUS
  <2>2. /\ records[i].output = outputs[i] /\ v = VerdictAt(i)
        /\ records \in Seq(Records) /\ records # <<>> /\ Len(records) <= run.contexts
    BY <1>1, <2>1 DEF SessionTyped, Written
  <2>3. phase \in Ends /\ context = run.contexts /\ run.contexts \in Nat
    BY <1>1, <2>2, RunsAssumption DEF SessionTyped, Written
  <2>4. Begun = run.contexts /\ Compared = run.contexts
    BY <2>3 DEF Begun, Compared, Ends
  <2>5. i \in 1..run.contexts
    BY <2>2, <2>3
  <2>6. i \in DOMAIN outputs /\ (outputs[i] # NoTurn => outputs[i].of = i /\ i \notin skipped)
    <3>1. outputs \in Seq(Turns) /\ Len(outputs) = run.contexts
      BY <1>1, <2>4 DEF SessionTyped, TurnsFit
    <3> QED
      BY <1>1, <2>5, <3>1 DEF OutputsFit
  <2>7. 1 \notin skipped => i \in DOMAIN verdicts
    <3>1. verdicts \in Seq(Verdicts) /\ (1 \notin skipped => Len(verdicts) = run.contexts)
      BY <1>1, <2>4 DEF SessionTyped, VerdictsFit
    <3> QED
      BY <2>5, <3>1
  <2>10. ASSUME NEW j \in DOMAIN records, records[j].verdict.after.of = i
         PROVE  outputs[i] = Response(records[j].verdict.after)
    <3>1. PICK w : w = records[j].verdict
      OBVIOUS
    <3>2. w = VerdictAt(j) /\ w.after.of = i /\ i > 0
      BY <1>1, <2>5, <2>10, <3>1 DEF Written
    <3>3. j \in DOMAIN verdicts /\ w = verdicts[j]
      BY <3>2, NoTurnTyped DEF VerdictAt, NotAttempted
    <3> QED
      BY <1>1, <3>1, <3>2, <3>3 DEF OutputsFit
  <2>8. CASE i \in DOMAIN verdicts
    <3>1. v = verdicts[i] /\ VerdictFits(v, i) /\ (contested = {} => v.after.prompt = v.after.had)
      BY <1>1, <2>2, <2>8 DEF VerdictAt, VerdictsFit, PromptsFit
    <3>2. skipped = {} => 1 \notin skipped
      OBVIOUS
    <3>3. v.before.of > 0
      BY <3>1 DEF VerdictFits
    <3>4. v # NotAttempted
      BY <3>3, NoTurnTyped DEF NotAttempted
    <3> QED
      BY <2>1, <2>2, <2>6, <2>10, <3>1, <3>2, <3>4 DEF VerdictFits
  <2>9. CASE i \notin DOMAIN verdicts
    <3>1. v = NotAttempted /\ 1 \in skipped
      BY <2>2, <2>7, <2>9 DEF VerdictAt
    <3> QED
      BY <2>1, <2>2, <2>6, <2>10, <3>1
  <2> QED
    BY <2>8, <2>9
<1> QED
  BY <1>2 DEF RecordsFit

(* The output of a record is the response of its own context's second turn, *)
(* empty if that failed or there was none, whichever verdict the turn was   *)
(* compared for; its verdict is of its own context or, if the first had no  *)
(* second turn, of a later one, never of an earlier; and a second turn runs *)
(* with the prompt of the agent as long as no two processes chose a version *)
(* at the same time: for any number of contexts, failures and mutations.    *)
THEOREM RecordsAreOfTheirContexts == SessionSpec => []RecordsFit
<1>1. RegistryInv /\ HarnessInv /\ SessionInv /\ [SessionNext]_runVars => SessionInv'
  <2> SUFFICES ASSUME RegistryInv, HarnessInv, SessionInv, [SessionNext]_runVars PROVE SessionInv'
    OBVIOUS
  <2>1. CASE Session
    BY <2>1, BaselineKeeps, MutateKeeps, EndsKeeps, ReloadKeeps, CompareKeeps, EmitKeeps DEF Session
  <2>2. CASE (phase = "off" /\ HostElse) /\ UNCHANGED sessionVars
    BY <2>2, ElsewhereKeeps
  <2>3. CASE Elsewhere /\ UNCHANGED sessionVars
    BY <2>3, ElsewhereKeeps
  <2>4. CASE UNCHANGED runVars
    BY <2>4, ElsewhereKeeps DEF runVars
  <2> QED
    BY <2>1, <2>2, <2>3, <2>4 DEF SessionNext
<1>2. SessionSpec => [](RegistryInv /\ HarnessInv)
  BY SessionIsEvolution, RegistryKept, HarnessKept, PTL
<1>3. SessionSpec => []SessionInv
  BY <1>1, <1>2, SessionBegins, PTL DEF SessionSpec
<1> QED
  BY <1>3, RecordsTell, PTL

-----------------------------------------------------------------------------
(* What is told of the reflections and of the calls.                       *)

\* All that is said of mutations and reflections.
Word == {"mutation.proposed", "mutation.committed", "mutation.reverted", "mutation.denied",
         "gepa.reflection.started", "gepa.reflection.completed", "gepa.reflection.failed",
         "gepa.commit.proposed", "gepa.commit.committed", "gepa.commit.denied",
         "evolution.readiness.denied", "genome.persist_failed", "genome.committed"}

\* The topics of a reflection, so far and in the end.
Agreed == <<"gepa.reflection.started", "mutation.proposed", "gepa.commit.proposed">>
Declined == <<"gepa.reflection.started", "mutation.denied", "gepa.commit.proposed">>
Unpaid == <<"gepa.reflection.failed">>
Success == Agreed \o (<<"mutation.committed">> \o <<"gepa.reflection.completed", "gepa.commit.committed">>)
WithoutSuccess ==
  {Declined \o Failure, Agreed \o Failure, Agreed \o <<"gepa.reflection.completed", "gepa.commit.denied">>,
   Agreed \o (<<"mutation.denied">> \o Failure)}

\* The events of reflection i are those behind the place n, and have the topics of a list.
Tells(i, n, list) ==
  /\ Reflection(i) = (n + 1)..(n + Len(list))
  /\ \A k \in 1..Len(list) : trail[Gepa][n + k].topic = list[k]
AtEnd(list) ==
  /\ Len(list) <= Len(trail[Gepa])
  /\ Tells(gepa.iteration, Len(trail[Gepa]) - Len(list), list)

TrailTyped ==
  /\ trail \in [Caller -> Seq([topic : Word, id : Nat])]
  /\ gepa \in [pc : {"reflect", "generate", "commits", "failed", "succeeded"}, iteration : Nat,
               version : 0..MaxVersion]
  /\ \A k \in DOMAIN trail[Gepa] : trail[Gepa][k].id <= gepa.iteration
  /\ setup \in SetupFields

ReflectionsTell ==
  /\ \A i \in 0..(gepa.iteration - 1) : \E n \in 0..Len(trail[Gepa]), list \in WithoutSuccess : Tells(i, n, list)
  /\ gepa.pc = "reflect" => AtEnd(<<>>)
  /\ gepa.pc \in {"generate", "commits"} => AtEnd(Agreed)
  /\ gepa.pc = "failed" => AtEnd(<<>>) \/ AtEnd(Unpaid)
  /\ gepa.pc = "succeeded" => AtEnd(Success)
  /\ \A k \in DOMAIN trail[Gepa] : trail[Gepa][k].topic = "gepa.commit.committed" => gepa.pc = "succeeded"

\* What was committed is stored.
SuccessStored ==
  gepa.pc = "succeeded" /\ setup.gepaKeeps =>
    \E c \in committed : c.version = gepa.version /\ c.by = home[Gepa]

OthersTold ==
  \A i \in DOMAIN trail[Others] : trail[Others][i].topic # "mutation.denied" =>
    \E ask \in setup.asks :
      /\ ask.id = trail[Others][i].id /\ ask.source \in Whitelist
      /\ trail[Others][i].topic = "mutation.committed" => ask.evaluated
      /\ trail[Others][i].topic = "mutation.proposed" => ask.kind \notin {"L4_weight", "unknown"}

TrailInv == TrailTyped /\ ReflectionsTell /\ SuccessStored /\ OthersTold

CallsTell ==
  /\ \A i \in 1..Len(calls) : CallTrail(calls[i])
  /\ \A i \in 1..Len(stack) : calls[stack[i]].answer = "running"

\* The same when a step is over.
ReflectionAfter(i) == {k \in DOMAIN trail'[Gepa] : trail'[Gepa][k].id = i}
TellsAfter(i, n, list) ==
  /\ ReflectionAfter(i) = (n + 1)..(n + Len(list))
  /\ \A k \in 1..Len(list) : trail'[Gepa][n + k].topic = list[k]

TrailEvents == Seq([topic : Word, id : Nat])

\* What the loop says comes behind what it has said.
LEMMA SaysAppends ==
  ASSUME TrailTyped, NEW events \in Seq(Word), GepaSays(events), NEW n, n = Len(trail[Gepa])
  PROVE  /\ trail' \in [Caller -> TrailEvents] /\ trail'[Others] = trail[Others]
         /\ n \in Nat /\ DOMAIN trail[Gepa] = 1..n
         /\ Len(trail'[Gepa]) = n + Len(events) /\ DOMAIN trail'[Gepa] = 1..(n + Len(events))
         /\ \A k \in 1..n : trail'[Gepa][k] = trail[Gepa][k]
         /\ \A k \in 1..Len(events) : trail'[Gepa][n + k] = Event(events[k], gepa.iteration)
<1>1. PICK more : more = [i \in DOMAIN events |-> Event(events[i], ReflectionId)]
  OBVIOUS
<1>2. /\ more \in TrailEvents /\ Len(more) = Len(events)
      /\ \A k \in 1..Len(events) : more[k] = Event(events[k], gepa.iteration)
  <2>1. \A k \in 1..Len(events) : Event(events[k], ReflectionId) \in [topic : Word, id : Nat]
    BY DEF Event, ReflectionId, TrailTyped
  <2>2. more = [i \in 1..Len(events) |-> Event(events[i], ReflectionId)] /\ Len(events) \in Nat
    BY <1>1
  <2> QED
    BY <2>1, <2>2 DEF TrailEvents, ReflectionId
<1>3. Gepa \in Caller /\ Others \in Caller /\ Gepa # Others
  BY EvolutionAssumption DEF Gepa, Others
<1>4. trail' = [trail EXCEPT ![Gepa] = trail[Gepa] \o more] /\ trail \in [Caller -> TrailEvents]
  BY <1>1 DEF GepaSays, Emits, TrailTyped, TrailEvents
<1>5. trail[Gepa] \in TrailEvents
  BY <1>3, <1>4
<1>6. /\ trail[Gepa] \o more \in TrailEvents /\ Len(trail[Gepa] \o more) = n + Len(events)
      /\ \A k \in 1..n : (trail[Gepa] \o more)[k] = trail[Gepa][k]
      /\ \A k \in 1..Len(events) : (trail[Gepa] \o more)[n + k] = more[k]
  <2>1. PICK s : s = trail[Gepa]
    OBVIOUS
  <2>2. PICK T : T = [topic : Word, id : Nat]
    OBVIOUS
  <2>3. s \in Seq(T) /\ more \in Seq(T) /\ n = Len(s) /\ Len(events) \in Nat /\ Len(more) = Len(events) /\ n \in Nat
    BY <1>2, <1>5, <2>1, <2>2, LenProperties DEF TrailEvents
  <2>4. /\ s \o more \in Seq(T) /\ Len(s \o more) = n + Len(events)
        /\ \A k \in 1..n : (s \o more)[k] = s[k]
        /\ \A k \in 1..Len(events) : (s \o more)[n + k] = more[k]
    BY <2>3
  <2> QED
    BY <2>1, <2>2, <2>4 DEF TrailEvents
<1>7. trail'[Gepa] = trail[Gepa] \o more /\ trail'[Others] = trail[Others] /\ trail' \in [Caller -> TrailEvents]
  BY <1>3, <1>4, <1>6
<1>8. /\ n \in Nat /\ DOMAIN trail[Gepa] = 1..n
      /\ Len(trail'[Gepa]) = n + Len(events) /\ DOMAIN trail'[Gepa] = 1..(n + Len(events))
  <2>1. PICK T : T = [topic : Word, id : Nat]
    OBVIOUS
  <2>2. PICK s \in Seq(T), r \in Seq(T) : s = trail[Gepa] /\ r = trail'[Gepa]
    BY <1>5, <1>6, <1>7, <2>1 DEF TrailEvents
  <2>3. Len(s) \in Nat /\ DOMAIN s = 1..Len(s) /\ DOMAIN r = 1..Len(r)
    BY LenProperties
  <2> QED
    BY <1>6, <1>7, <2>2, <2>3
<1>9. \A k \in 1..Len(events) : trail'[Gepa][n + k] = Event(events[k], gepa.iteration)
  BY <1>2, <1>6, <1>7
<1> QED
  BY <1>6, <1>7, <1>8, <1>9

\* It says it of the reflection it is at: what it told of the others stays, and what it has told
\* of this one goes on.
LEMMA ReflectionGrows ==
  ASSUME TrailTyped, ReflectionsTell, gepa.pc # "succeeded",
         NEW events \in Seq(Word), GepaSays(events), NEW list \in Seq(Word), AtEnd(list)
  PROVE  /\ trail' \in [Caller -> TrailEvents] /\ trail'[Others] = trail[Others]
         /\ \A k \in DOMAIN trail'[Gepa] : trail'[Gepa][k].id <= gepa.iteration
         /\ \A i \in 0..(gepa.iteration - 1) :
              \E m \in 0..Len(trail'[Gepa]), l \in WithoutSuccess : TellsAfter(i, m, l)
         /\ Len(list \o events) <= Len(trail'[Gepa])
         /\ TellsAfter(gepa.iteration, Len(trail'[Gepa]) - Len(list \o events), list \o events)
         /\ \A k \in DOMAIN trail'[Gepa] : trail'[Gepa][k].topic = "gepa.commit.committed" =>
              \E j \in 1..Len(events) : events[j] = "gepa.commit.committed"
         /\ ReflectionAfter(gepa.iteration + 1) = {}
<1>1. PICK n : n = Len(trail[Gepa])
  OBVIOUS
<1>2. PICK j : j = gepa.iteration
  OBVIOUS
<1>3. /\ trail' \in [Caller -> TrailEvents] /\ trail'[Others] = trail[Others]
      /\ n \in Nat /\ DOMAIN trail[Gepa] = 1..n
      /\ Len(trail'[Gepa]) = n + Len(events) /\ DOMAIN trail'[Gepa] = 1..(n + Len(events))
      /\ \A k \in 1..n : trail'[Gepa][k] = trail[Gepa][k]
      /\ \A k \in 1..Len(events) : trail'[Gepa][n + k] = Event(events[k], j)
  BY <1>1, <1>2, SaysAppends
<1>4. /\ j \in Nat /\ Len(events) \in Nat /\ Len(list) \in Nat
      /\ \A k \in 1..n : trail[Gepa][k].id \in Nat /\ trail[Gepa][k].id <= j
  <2>1. trail[Gepa] \in Seq([topic : Word, id : Nat])
    BY EvolutionAssumption DEF TrailTyped
  <2>2. PICK s : s = trail[Gepa]
    OBVIOUS
  <2>3. \A k \in 1..n : s[k] \in [topic : Word, id : Nat]
    <3>1. PICK T : T = [topic : Word, id : Nat]
      OBVIOUS
    <3>2. s \in Seq(T) /\ n = Len(s)
      BY <1>1, <2>1, <2>2, <3>1
    <3>3. \A k \in 1..n : s[k] \in T
      BY <3>2
    <3> QED
      BY <3>1, <3>3
  <2>4. \A k \in 1..n : s[k].id \in Nat /\ s[k].id <= j
    BY <1>2, <1>3, <2>2, <2>3 DEF TrailTyped
  <2>5. j \in Nat
    BY <1>2 DEF TrailTyped
  <2> QED
    BY <2>2, <2>4, <2>5, LenProperties
<1>5. \A k \in 1..(n + Len(events)) : k \in 1..n \/ \E m \in 1..Len(events) : k = n + m
  <2>1. PICK e \in Nat : e = Len(events)
    BY <1>4
  <2>2. ASSUME NEW k \in 1..(n + e), k \notin 1..n
        PROVE  \E m \in 1..e : k = n + m
    <3>1. k - n \in 1..e /\ k = n + (k - n)
      BY <1>3, <2>2
    <3> QED
      BY <3>1
  <2> QED
    BY <2>1, <2>2
<1>6. \A m \in 1..Len(events) : trail'[Gepa][n + m].id = j /\ trail'[Gepa][n + m].topic = events[m]
  <2> SUFFICES ASSUME NEW m \in 1..Len(events)
               PROVE  trail'[Gepa][n + m].id = j /\ trail'[Gepa][n + m].topic = events[m]
    OBVIOUS
  <2>1. trail'[Gepa][n + m] = [topic |-> events[m], id |-> j]
    BY <1>3 DEF Event
  <2> QED
    BY <2>1
<1>7. ASSUME NEW i \in Nat, i # j
      PROVE  ReflectionAfter(i) = Reflection(i)
  BY <1>3, <1>4, <1>5, <1>6, <1>7 DEF ReflectionAfter, Reflection
<1>8. ReflectionAfter(j) = Reflection(j) \cup ((n + 1)..(n + Len(events)))
  <2>1. \A k \in (n + 1)..(n + Len(events)) : k - n \in 1..Len(events) /\ k = n + (k - n)
    BY <1>3, <1>4
  <2> QED
    <3>1. \A k \in 1..n : trail'[Gepa][k].id = trail[Gepa][k].id
      BY <1>3
    <3>2. \A k \in (n + 1)..(n + Len(events)) : trail'[Gepa][k].id = j
      BY <1>6, <2>1
    <3>3. 1..(n + Len(events)) = (1..n) \cup ((n + 1)..(n + Len(events)))
      BY <1>3, <1>4
    <3>4. ReflectionAfter(j) = {k \in 1..(n + Len(events)) : trail'[Gepa][k].id = j}
      BY <1>3 DEF ReflectionAfter
    <3>5. Reflection(j) = {k \in 1..n : trail[Gepa][k].id = j}
      BY <1>3 DEF Reflection
    <3> QED
      BY <3>1, <3>2, <3>3, <3>4, <3>5
<1>9. \A k \in DOMAIN trail'[Gepa] : trail'[Gepa][k].id <= j
  <2> SUFFICES ASSUME NEW k \in 1..(n + Len(events)) PROVE trail'[Gepa][k].id <= j
    BY <1>3
  <2>1. CASE k \in 1..n
    BY <1>3, <1>4, <2>1
  <2>2. CASE k \notin 1..n
    <3>1. PICK m \in 1..Len(events) : k = n + m
      BY <1>5, <2>2
    <3> QED
      BY <1>4, <1>6, <3>1
  <2> QED
    BY <2>1, <2>2
<1>10. ASSUME NEW i \in 0..(j - 1)
       PROVE  \E m \in 0..Len(trail'[Gepa]), l \in WithoutSuccess : TellsAfter(i, m, l)
  <2>1. PICK m \in 0..n, l \in WithoutSuccess : Tells(i, m, l)
    BY <1>1, <1>2, <1>10 DEF ReflectionsTell
  <2>2. ReflectionAfter(i) = Reflection(i) /\ Reflection(i) \subseteq 1..n
    BY <1>3, <1>4, <1>7, <1>10 DEF Reflection
  <2>3. Len(l) \in Nat
    BY DEF WithoutSuccess, Agreed, Declined, Failure
  <2>4. \A k \in 1..Len(l) : m + k \in 1..n
    <3>1. Reflection(i) = (m + 1)..(m + Len(l))
      BY <2>1 DEF Tells
    <3>2. \A k \in 1..Len(l) : m + k \in (m + 1)..(m + Len(l))
      BY <2>3
    <3> QED
      BY <2>2, <3>1, <3>2
  <2>5. TellsAfter(i, m, l)
    BY <1>3, <2>1, <2>2, <2>4 DEF Tells, TellsAfter
  <2>6. m \in 0..Len(trail'[Gepa])
    BY <1>3, <1>4
  <2> QED
    BY <2>5, <2>6
<1>11. Len(list \o events) = Len(list) + Len(events) /\ Len(list) <= n
  BY <1>1, ConcatProperties DEF AtEnd
<1>12. TellsAfter(j, n - Len(list), list \o events)
  <2>1. Reflection(j) = (n - Len(list) + 1)..n /\ \A k \in 1..Len(list) : trail[Gepa][n - Len(list) + k].topic = list[k]
    BY <1>1, <1>2, <1>3, <1>4 DEF AtEnd, Tells
  <2>2. ReflectionAfter(j) = (n - Len(list) + 1)..(n + Len(events))
    BY <1>3, <1>4, <1>8, <1>11, <2>1
  <2>3. ASSUME NEW k \in 1..(Len(list) + Len(events))
        PROVE  trail'[Gepa][n - Len(list) + k].topic = (list \o events)[k]
    <3>1. CASE k \in 1..Len(list)
      <4>1. (list \o events)[k] = list[k]
        BY <3>1, ConcatProperties
      <4>2. n - Len(list) + k \in 1..n
        BY <1>3, <1>4, <1>11, <3>1
      <4> QED
        BY <1>3, <2>1, <3>1, <4>1, <4>2
    <3>2. CASE k \notin 1..Len(list)
      <4>1. PICK m \in 1..Len(events) : k = Len(list) + m
        <5>1. k - Len(list) \in 1..Len(events) /\ k = Len(list) + (k - Len(list))
          BY <1>4, <3>2
        <5> QED
          BY <5>1
      <4>2. (list \o events)[k] = events[m]
        BY <4>1, ConcatProperties
      <4>3. n - Len(list) + k = n + m
        BY <1>3, <1>4, <4>1
      <4> QED
        BY <1>6, <4>2, <4>3
    <3> QED
      BY <3>1, <3>2
  <2> QED
    BY <1>3, <1>4, <1>11, <2>2, <2>3 DEF TellsAfter
<1>13. Len(trail'[Gepa]) - Len(list \o events) = n - Len(list) /\ Len(list \o events) <= Len(trail'[Gepa])
  BY <1>3, <1>4, <1>11
<1>14. ASSUME NEW k \in DOMAIN trail'[Gepa], trail'[Gepa][k].topic = "gepa.commit.committed"
       PROVE  \E m \in 1..Len(events) : events[m] = "gepa.commit.committed"
  <2>0. k \in 1..(n + Len(events))
    BY <1>3, <1>14
  <2>1. CASE k \in 1..n
    BY <1>3, <1>14, <2>1 DEF ReflectionsTell
  <2>2. CASE k \notin 1..n
    <3>1. PICK m \in 1..Len(events) : k = n + m
      BY <1>5, <2>0, <2>2
    <3> QED
      BY <1>6, <1>14, <3>1
  <2> QED
    BY <2>1, <2>2
<1>15. ReflectionAfter(j + 1) = {}
  <2> SUFFICES ASSUME NEW k \in 1..(n + Len(events)) PROVE trail'[Gepa][k].id # j + 1
    BY <1>3 DEF ReflectionAfter
  <2>1. trail'[Gepa][k].id <= j
    BY <1>3, <1>9
  <2>2. trail'[Gepa][k].id \in Nat
    BY <1>3, <1>4, <1>5, <1>6
  <2> QED
    BY <1>4, <2>1, <2>2
<1> QED
  BY <1>2, <1>3, <1>9, <1>10, <1>12, <1>13, <1>14, <1>15

\* The loop goes on with its reflection, or leaves it.
LEMMA ReflectionGoesOn ==
  ASSUME TrailTyped, ReflectionsTell, gepa.pc # "succeeded",
         NEW events \in Seq(Word), GepaSays(events), NEW list \in Seq(Word), AtEnd(list),
         setup' = setup, gepa' \in [pc : {"reflect", "generate", "commits", "failed", "succeeded"},
                                    iteration : Nat, version : 0..MaxVersion],
         gepa'.iteration = gepa.iteration,
         \/ gepa'.pc = "succeeded" /\ list \o events = Success
         \/ /\ \A k \in 1..Len(events) : events[k] # "gepa.commit.committed"
            /\ \/ gepa'.pc \in {"generate", "commits"} /\ list \o events = Agreed
               \/ gepa'.pc = "failed" /\ list \o events = Unpaid
  PROVE  TrailTyped' /\ ReflectionsTell' /\ trail'[Others] = trail[Others]
<1>1. /\ trail' \in [Caller -> TrailEvents] /\ trail'[Others] = trail[Others]
      /\ \A k \in DOMAIN trail'[Gepa] : trail'[Gepa][k].id <= gepa.iteration
      /\ \A i \in 0..(gepa.iteration - 1) :
           \E m \in 0..Len(trail'[Gepa]), l \in WithoutSuccess : TellsAfter(i, m, l)
      /\ Len(list \o events) <= Len(trail'[Gepa])
      /\ TellsAfter(gepa.iteration, Len(trail'[Gepa]) - Len(list \o events), list \o events)
      /\ \A k \in DOMAIN trail'[Gepa] : trail'[Gepa][k].topic = "gepa.commit.committed" =>
           \E j \in 1..Len(events) : events[j] = "gepa.commit.committed"
  BY ReflectionGrows
<1>2. \A i, m, l : TellsAfter(i, m, l) <=> Tells(i, m, l)'
  BY DEF TellsAfter, Tells, ReflectionAfter, Reflection
<1>3. TrailTyped'
  BY <1>1 DEF TrailTyped, TrailEvents
<1>4. AtEnd(list \o events)'
  <2>1. PICK l : l = list \o events
    OBVIOUS
  <2> SUFFICES AtEnd(l)'
    BY <2>1
  <2> QED
    BY <1>1, <1>2, <2>1 DEF AtEnd
<1>5. \A i \in 0..(gepa'.iteration - 1) : \E n \in 0..Len(trail'[Gepa]), l \in WithoutSuccess : Tells(i, n, l)'
  BY <1>1, <1>2
<1>6. WithoutSuccess' = WithoutSuccess
  BY DEF WithoutSuccess, Agreed, Declined, Failure
<1>7. (AtEnd(Agreed)' <=> AtEnd(list \o events)') \/ list \o events # Agreed
  BY DEF AtEnd, Tells, Agreed
<1> QED
  BY <1>1, <1>3, <1>4, <1>5 DEF ReflectionsTell

LEMMA ReflectionEnds ==
  ASSUME TrailTyped, ReflectionsTell, gepa.pc # "succeeded",
         NEW events \in Seq(Word), GepaSays(events), NEW list \in Seq(Word), AtEnd(list),
         setup' = setup, NextIteration, list \o events \in WithoutSuccess,
         \A k \in 1..Len(events) : events[k] # "gepa.commit.committed"
  PROVE  TrailTyped' /\ ReflectionsTell' /\ trail'[Others] = trail[Others] /\ gepa'.pc # "succeeded"
<1>0. PICK j : j = gepa.iteration
  OBVIOUS
<1>1. /\ trail' \in [Caller -> TrailEvents] /\ trail'[Others] = trail[Others]
      /\ \A k \in DOMAIN trail'[Gepa] : trail'[Gepa][k].id <= j
      /\ \A i \in 0..(j - 1) :
           \E m \in 0..Len(trail'[Gepa]), l \in WithoutSuccess : TellsAfter(i, m, l)
      /\ Len(list \o events) <= Len(trail'[Gepa])
      /\ TellsAfter(j, Len(trail'[Gepa]) - Len(list \o events), list \o events)
      /\ \A k \in DOMAIN trail'[Gepa] : trail'[Gepa][k].topic = "gepa.commit.committed" =>
           \E m \in 1..Len(events) : events[m] = "gepa.commit.committed"
      /\ ReflectionAfter(j + 1) = {}
  BY <1>0, ReflectionGrows
<1>2. \A i, m, l : TellsAfter(i, m, l) <=> Tells(i, m, l)'
  BY DEF TellsAfter, Tells, ReflectionAfter, Reflection
<1>3. /\ gepa' \in [pc : {"reflect", "generate", "commits", "failed", "succeeded"}, iteration : Nat,
                    version : 0..MaxVersion]
      /\ gepa'.iteration = j + 1 /\ gepa'.pc \in {"reflect", "failed"} /\ j \in Nat
  <2>1. PICK pc \in {"reflect", "failed"} : gepa' = [gepa EXCEPT !.iteration = j + 1, !.pc = pc]
    BY <1>0 DEF NextIteration
  <2>2. j \in Nat /\ gepa \in [pc : {"reflect", "generate", "commits", "failed", "succeeded"}, iteration : Nat,
                                version : 0..MaxVersion]
    BY <1>0 DEF TrailTyped
  <2>3. gepa' = [pc |-> pc, iteration |-> j + 1, version |-> gepa.version]
    BY <2>1, <2>2
  <2> QED
    BY <2>2, <2>3
<1>4. trail'[Gepa] \in TrailEvents /\ Len(trail'[Gepa]) \in Nat
  BY <1>1, EvolutionAssumption, LenProperties DEF TrailEvents
<1>5. \A k \in DOMAIN trail'[Gepa] : trail'[Gepa][k].id <= j + 1
  <2> SUFFICES ASSUME NEW k \in DOMAIN trail'[Gepa] PROVE trail'[Gepa][k].id <= j + 1
    OBVIOUS
  <2>1. trail'[Gepa][k] \in [topic : Word, id : Nat]
    <3>1. PICK T : T = [topic : Word, id : Nat]
      OBVIOUS
    <3>2. PICK s \in Seq(T) : s = trail'[Gepa]
      BY <1>4, <3>1 DEF TrailEvents
    <3>3. s[k] \in T
      BY <3>2, ElementOfSeq, LenProperties
    <3> QED
      BY <3>1, <3>2, <3>3
  <2>2. trail'[Gepa][k].id \in Nat
    BY <2>1
  <2> QED
    BY <1>1, <1>3, <2>2
<1>6. TrailTyped'
  BY <1>1, <1>3, <1>5 DEF TrailTyped, TrailEvents
<1>7. ASSUME NEW i \in 0..j
      PROVE  \E n \in 0..Len(trail'[Gepa]), l \in WithoutSuccess : Tells(i, n, l)'
  <2>1. CASE i \in 0..(j - 1)
    BY <1>1, <1>2, <2>1
  <2>2. CASE i = j
    <3>1. PICK l \in WithoutSuccess : l = list \o events
      OBVIOUS
    <3>2. PICK n : n = Len(trail'[Gepa]) - Len(l)
      OBVIOUS
    <3>3. Len(list \o events) = Len(list) + Len(events) /\ Len(list) \in Nat /\ Len(events) \in Nat
      BY ConcatProperties, LenProperties
    <3>4. n \in 0..Len(trail'[Gepa])
      BY <1>1, <1>4, <3>1, <3>2, <3>3
    <3>5. Tells(i, n, l)'
      BY <1>1, <1>2, <2>2, <3>1, <3>2
    <3> QED
      BY <3>4, <3>5
  <2> QED
    BY <1>3, <2>1, <2>2
<1>8. AtEnd(<<>>)'
  <2>1. Reflection(j + 1)' = {}
    BY <1>1 DEF ReflectionAfter, Reflection
  <2>2. (Len(trail'[Gepa]) - 0 + 1)..(Len(trail'[Gepa]) - 0 + 0) = {}
    BY <1>4
  <2>3. PICK n : n = Len(trail'[Gepa])
    OBVIOUS
  <2>4. n \in Nat /\ (n - 0 + 1)..(n - 0 + 0) = {}
    BY <1>4, <2>3
  <2>5. PICK e : e = <<>>
    OBVIOUS
  <2>6. Len(e) = 0
    BY <2>5
  <2>7. 0 <= n /\ Reflection(gepa.iteration)' = (n - 0 + 1)..(n - 0 + 0) /\ 1..0 = {}
    <3>1. Reflection(gepa.iteration)' = Reflection(j + 1)'
      BY <1>3 DEF Reflection
    <3>2. Reflection(gepa.iteration)' = (n - 0 + 1)..(n - 0 + 0)
      BY <2>1, <2>4, <3>1
    <3>3. 0 <= n /\ 1..0 = {}
      BY <2>4
    <3> QED
      BY <3>2, <3>3
  <2> QED
    BY <2>3, <2>5, <2>6, <2>7 DEF AtEnd, Tells
<1>9. WithoutSuccess' = WithoutSuccess
  BY DEF WithoutSuccess, Agreed, Declined, Failure
<1>10. \A i \in 0..(gepa'.iteration - 1) : \E n \in 0..Len(trail'[Gepa]), l \in WithoutSuccess : Tells(i, n, l)'
  <2>1. gepa'.iteration - 1 = j
    BY <1>3
  <2> QED
    BY <1>7, <2>1
<1>11. \A k \in DOMAIN trail'[Gepa] : trail'[Gepa][k].topic # "gepa.commit.committed"
  BY <1>1
<1> QED
  BY <1>1, <1>3, <1>6, <1>8, <1>9, <1>10, <1>11 DEF ReflectionsTell

\* The topics the loop says together.
LEMMA TopicLists ==
  /\ Agreed \in Seq(Word) /\ Declined \in Seq(Word) /\ Failure \in Seq(Word) /\ Unpaid \in Seq(Word)
  /\ Len(Agreed) = 3 /\ Len(Declined) = 3 /\ Len(Failure) = 2 /\ Len(Unpaid) = 1
  /\ Agreed[1] = "gepa.reflection.started" /\ Agreed[2] = "mutation.proposed" /\ Agreed[3] = "gepa.commit.proposed"
  /\ Declined[1] = "gepa.reflection.started" /\ Declined[2] = "mutation.denied" /\ Declined[3] = "gepa.commit.proposed"
  /\ Failure[1] = "gepa.reflection.failed" /\ Failure[2] = "gepa.commit.denied"
  /\ Unpaid[1] = "gepa.reflection.failed"
<1>1. /\ Agreed \in Seq(Word) /\ Len(Agreed) = 3 /\ Agreed[1] = "gepa.reflection.started"
      /\ Agreed[2] = "mutation.proposed" /\ Agreed[3] = "gepa.commit.proposed"
  BY DEF Agreed, Word
<1>2. /\ Declined \in Seq(Word) /\ Len(Declined) = 3 /\ Declined[1] = "gepa.reflection.started"
      /\ Declined[2] = "mutation.denied" /\ Declined[3] = "gepa.commit.proposed"
  BY DEF Declined, Word
<1>3. /\ Failure \in Seq(Word) /\ Len(Failure) = 2 /\ Failure[1] = "gepa.reflection.failed"
      /\ Failure[2] = "gepa.commit.denied"
  BY DEF Failure, Word
<1>4. Unpaid \in Seq(Word) /\ Len(Unpaid) = 1 /\ Unpaid[1] = "gepa.reflection.failed"
  BY DEF Unpaid, Word
<1> QED
  BY <1>1, <1>2, <1>3, <1>4

\* A list behind another, and one that is in front of nothing.
LEMMA OneBehind ==
  ASSUME NEW s \in Seq(Word), NEW r \in Seq(Word)
  PROVE  /\ s \o r \in Seq(Word) /\ Len(s \o r) = Len(s) + Len(r)
         /\ \A k \in 1..Len(s) : (s \o r)[k] = s[k]
         /\ \A k \in 1..Len(r) : (s \o r)[Len(s) + k] = r[k]
         /\ <<>> \o r = r
<1>1. Len(s) \in Nat /\ Len(r) \in Nat
  OBVIOUS
<1>2. <<>> \o r = r
  BY ConcatEmptySeq
<1> QED
  BY <1>1, <1>2

LEMMA WholeLists ==
  /\ Success \in Seq(Word) /\ Len(Success) = 6
  /\ Success[1] = "gepa.reflection.started" /\ Success[2] = "mutation.proposed"
  /\ Success[3] = "gepa.commit.proposed" /\ Success[4] = "mutation.committed"
  /\ Success[5] = "gepa.reflection.completed" /\ Success[6] = "gepa.commit.committed"
<1>0. PICK u, v : u = <<"mutation.committed">> /\ v = <<"gepa.reflection.completed", "gepa.commit.committed">>
  OBVIOUS
<1>1. PICK r : r = u \o v
  OBVIOUS
<1>2. /\ r \in Seq(Word) /\ Len(r) = 3 /\ r[1] = "mutation.committed" /\ r[2] = "gepa.reflection.completed"
      /\ r[3] = "gepa.commit.committed"
  <2>1. u \in Seq(Word) /\ Len(u) = 1 /\ u[1] = "mutation.committed"
    BY <1>0 DEF Word
  <2>2. /\ v \in Seq(Word) /\ Len(v) = 2 /\ v[1] = "gepa.reflection.completed"
        /\ v[2] = "gepa.commit.committed"
    BY <1>0 DEF Word
  <2>3. r \in Seq(Word) /\ Len(r) = 1 + 2 /\ r[1] = u[1] /\ r[1 + 1] = v[1] /\ r[1 + 2] = v[2]
    BY <1>1, <2>1, <2>2, OneBehind
  <2> QED
    BY <2>1, <2>2, <2>3
<1>3. Success = Agreed \o r
  BY <1>0, <1>1 DEF Success
<1>4. /\ Success \in Seq(Word) /\ Len(Success) = 6
      /\ \A k \in 1..3 : Success[k] = Agreed[k]
      /\ \A k \in 1..3 : Success[3 + k] = r[k]
  <2>1. Agreed \in Seq(Word) /\ Len(Agreed) = 3
    BY TopicLists
  <2>2. /\ Success \in Seq(Word) /\ Len(Success) = Len(Agreed) + Len(r)
        /\ \A k \in 1..Len(Agreed) : Success[k] = Agreed[k]
        /\ \A k \in 1..Len(r) : Success[Len(Agreed) + k] = r[k]
    BY <1>2, <1>3, <2>1, OneBehind
  <2> QED
    BY <1>2, <2>1, <2>2
<1>5. Success[3 + 1] = r[1] /\ Success[3 + 2] = r[2] /\ Success[3 + 3] = r[3]
  BY <1>4
<1> QED
  BY <1>2, <1>4, <1>5, TopicLists

\* The steps of the loop.
LEMMA LoopTyped ==
  ASSUME gepa \in [pc : {"reflect", "generate", "commits", "failed", "succeeded"}, iteration : Nat,
                   version : 0..MaxVersion],
         NEW pc \in {"reflect", "generate", "commits", "failed", "succeeded"}, NEW version \in 0..MaxVersion,
         gepa' = [gepa EXCEPT !.pc = pc, !.version = version]
  PROVE  /\ gepa' \in [pc : {"reflect", "generate", "commits", "failed", "succeeded"}, iteration : Nat,
                       version : 0..MaxVersion]
         /\ gepa'.pc = pc /\ gepa'.iteration = gepa.iteration /\ gepa'.version = version
<1>1. gepa' = [pc |-> pc, iteration |-> gepa.iteration, version |-> version]
  OBVIOUS
<1> QED
  BY <1>1

LEMMA ProposesTells ==
  ASSUME TrailTyped, ReflectionsTell, GepaProposes
  PROVE  TrailTyped' /\ ReflectionsTell' /\ trail'[Others] = trail[Others] /\ gepa'.pc # "succeeded"
<1>1. gepa.pc = "reflect" /\ AtEnd(<<>>) /\ setup' = setup
  BY DEF GepaProposes, GepaAt, GepaFrame, ReflectionsTell
<1>2. \/ GepaSays(Unpaid) /\ gepa' = [gepa EXCEPT !.pc = "failed"]
      \/ GepaSays(Agreed) /\ gepa' = [gepa EXCEPT !.pc = "generate"]
      \/ GepaSays(Declined \o Failure) /\ NextIteration
  <2>1. PICK affordable \in BOOLEAN, poor \in BOOLEAN, regressed \in BOOLEAN :
          LET answer == ProposeAnswer(Proposal, FALSE, poor, regressed)
              first == <<"gepa.reflection.started", ProposeEvent(Proposal, answer).topic, "gepa.commit.proposed">>
          IN IF ~affordable
               THEN GepaSays(<<"gepa.reflection.failed">>) /\ gepa' = [gepa EXCEPT !.pc = "failed"]
             ELSE IF answer = "approved"
               THEN GepaSays(first) /\ gepa' = [gepa EXCEPT !.pc = "generate"]
               ELSE GepaSays(first \o Failure) /\ NextIteration
    BY DEF GepaProposes
  <2>2. PICK answer : answer = ProposeAnswer(Proposal, FALSE, poor, regressed)
    OBVIOUS
  <2>3. PICK topic : topic = ProposeEvent(Proposal, answer).topic
    OBVIOUS
  <2>4. topic = IF answer = "approved" THEN "mutation.proposed" ELSE "mutation.denied"
    BY <2>3 DEF ProposeEvent, Event
  <2>5. \/ GepaSays(<<"gepa.reflection.failed">>) /\ gepa' = [gepa EXCEPT !.pc = "failed"]
        \/ /\ answer = "approved" /\ gepa' = [gepa EXCEPT !.pc = "generate"]
           /\ GepaSays(<<"gepa.reflection.started", topic, "gepa.commit.proposed">>)
        \/ /\ answer # "approved" /\ NextIteration
           /\ GepaSays(<<"gepa.reflection.started", topic, "gepa.commit.proposed">> \o Failure)
    BY <2>1, <2>2, <2>3, Zenon
  <2> QED
    BY <2>4, <2>5 DEF Unpaid, Agreed, Declined
<1>3. <<>> \in Seq(Word) /\ gepa.pc # "succeeded"
  BY <1>1
<1>4. CASE GepaSays(Unpaid) /\ gepa' = [gepa EXCEPT !.pc = "failed"]
  <2>1. <<>> \o Unpaid = Unpaid /\ Unpaid \in Seq(Word) /\ \A k \in 1..Len(Unpaid) : Unpaid[k] # "gepa.commit.committed"
    <3>1. Unpaid \in Seq(Word) /\ \A k \in 1..Len(Unpaid) : Unpaid[k] # "gepa.commit.committed"
      BY TopicLists
    <3> QED
      BY <1>3, <3>1, OneBehind
  <2>2. gepa' = [gepa EXCEPT !.pc = "failed", !.version = gepa.version]
    BY <1>4 DEF TrailTyped
  <2>3. /\ gepa' \in [pc : {"reflect", "generate", "commits", "failed", "succeeded"}, iteration : Nat,
                      version : 0..MaxVersion]
        /\ gepa'.pc = "failed" /\ gepa'.iteration = gepa.iteration
    BY <2>2, LoopTyped DEF TrailTyped
  <2> QED
    BY <1>1, <1>3, <1>4, <2>1, <2>3, ReflectionGoesOn
<1>5. CASE GepaSays(Agreed) /\ gepa' = [gepa EXCEPT !.pc = "generate"]
  <2>1. <<>> \o Agreed = Agreed /\ Agreed \in Seq(Word)
    <3>1. Agreed \in Seq(Word)
      BY TopicLists
    <3> QED
      BY <1>3, <3>1, OneBehind
  <2>2. \A k \in 1..Len(Agreed) : Agreed[k] # "gepa.commit.committed"
    <3>1. \A k \in 1..3 : k = 1 \/ k = 2 \/ k = 3
      OBVIOUS
    <3> QED
      BY <3>1, TopicLists
  <2>3. gepa' = [gepa EXCEPT !.pc = "generate", !.version = gepa.version]
    BY <1>5 DEF TrailTyped
  <2>4. /\ gepa' \in [pc : {"reflect", "generate", "commits", "failed", "succeeded"}, iteration : Nat,
                      version : 0..MaxVersion]
        /\ gepa'.pc = "generate" /\ gepa'.iteration = gepa.iteration
    BY <2>3, LoopTyped DEF TrailTyped
  <2> QED
    BY <1>1, <1>3, <1>5, <2>1, <2>2, <2>4, ReflectionGoesOn
<1>6. CASE GepaSays(Declined \o Failure) /\ NextIteration
  <2>1. PICK l : l = Declined \o Failure
    OBVIOUS
  <2>2. l \in Seq(Word) /\ l \in WithoutSuccess /\ <<>> \o l = l
    <3>1. Declined \in Seq(Word) /\ Failure \in Seq(Word)
      BY TopicLists
    <3>2. l \in Seq(Word) /\ l \in WithoutSuccess
      BY <2>1, <3>1, OneBehind DEF WithoutSuccess
    <3> QED
      BY <1>3, <3>2, OneBehind
  <2>3. Len(l) = 3 + 2 /\ (\A k \in 1..3 : l[k] = Declined[k]) /\ (\A k \in 1..2 : l[3 + k] = Failure[k])
    <3>1. Declined \in Seq(Word) /\ Len(Declined) = 3 /\ Failure \in Seq(Word) /\ Len(Failure) = 2
      BY TopicLists
    <3>2. /\ Len(l) = Len(Declined) + Len(Failure)
          /\ \A k \in 1..Len(Declined) : l[k] = Declined[k]
          /\ \A k \in 1..Len(Failure) : l[Len(Declined) + k] = Failure[k]
      BY <2>1, <3>1, OneBehind
    <3> QED
      BY <3>1, <3>2
  <2>4. \A k \in 1..Len(l) : l[k] # "gepa.commit.committed"
    <3>1. /\ l[1] # "gepa.commit.committed" /\ l[2] # "gepa.commit.committed" /\ l[3] # "gepa.commit.committed"
          /\ l[3 + 1] # "gepa.commit.committed" /\ l[3 + 2] # "gepa.commit.committed"
      BY <2>3, TopicLists
    <3>2. \A k \in 1..5 : k = 1 \/ k = 2 \/ k = 3 \/ k = 3 + 1 \/ k = 3 + 2
      OBVIOUS
    <3> QED
      BY <2>3, <3>1, <3>2
  <2> QED
    BY <1>1, <1>3, <1>6, <2>1, <2>2, <2>4, ReflectionEnds
<1> QED
  BY <1>2, <1>4, <1>5, <1>6

\* A reflection that was agreed to ends without success.
LEMMA AgreedEnds ==
  ASSUME TrailTyped, ReflectionsTell, gepa.pc \in {"generate", "commits"}, setup' = setup, NextIteration,
         NEW events \in Seq(Word), GepaSays(events),
         events \in {Failure, <<"gepa.reflection.completed", "gepa.commit.denied">>, <<"mutation.denied">> \o Failure}
  PROVE  TrailTyped' /\ ReflectionsTell' /\ trail'[Others] = trail[Others] /\ gepa'.pc # "succeeded"
<1>1. AtEnd(Agreed) /\ gepa.pc # "succeeded" /\ Agreed \in Seq(Word)
  BY TopicLists DEF ReflectionsTell
<1>2. Agreed \o events \in WithoutSuccess
  BY DEF WithoutSuccess
<1>3. \A k \in 1..Len(events) : events[k] # "gepa.commit.committed"
  <2>1. CASE events = Failure
    <3>1. \A k \in 1..2 : k = 1 \/ k = 2
      OBVIOUS
    <3> QED
      BY <2>1, <3>1, TopicLists
  <2>2. CASE events = <<"gepa.reflection.completed", "gepa.commit.denied">>
    BY <2>2
  <2>3. CASE events = <<"mutation.denied">> \o Failure
    <3>1. PICK u : u = <<"mutation.denied">>
      OBVIOUS
    <3>2. u \in Seq(Word) /\ Len(u) = 1 /\ u[1] = "mutation.denied"
      BY <3>1 DEF Word
    <3>3. Len(events) = 1 + 2 /\ events[1] = u[1] /\ events[1 + 1] = Failure[1] /\ events[1 + 2] = Failure[2]
      <4>1. Failure \in Seq(Word) /\ Len(Failure) = 2 /\ events = u \o Failure
        BY <2>3, <3>1, TopicLists
      <4>2. /\ Len(events) = Len(u) + Len(Failure)
            /\ \A k \in 1..Len(u) : events[k] = u[k]
            /\ \A k \in 1..Len(Failure) : events[Len(u) + k] = Failure[k]
        BY <3>2, <4>1, OneBehind
      <4> QED
        BY <3>2, <4>1, <4>2
    <3>4. \A k \in 1..3 : k = 1 \/ k = 1 + 1 \/ k = 1 + 2
      OBVIOUS
    <3> QED
      BY <3>2, <3>3, <3>4, TopicLists
  <2> QED
    BY <2>1, <2>2, <2>3
<1> QED
  BY <1>1, <1>2, <1>3, ReflectionEnds

\* What leaves the events of the loop and its place alone.
LEMMA TellsStays ==
  ASSUME TrailTyped, ReflectionsTell, trail' \in [Caller -> TrailEvents], setup' \in SetupFields,
         trail'[Gepa] = trail[Gepa],
         gepa' \in [pc : {"reflect", "generate", "commits", "failed", "succeeded"}, iteration : Nat,
                    version : 0..MaxVersion],
         gepa' = gepa \/ (gepa.pc = "generate" /\ gepa'.pc = "commits" /\ gepa'.iteration = gepa.iteration)
  PROVE  TrailTyped' /\ ReflectionsTell'
<1>1. gepa'.iteration = gepa.iteration
  OBVIOUS
<1>2. TrailTyped'
  BY <1>1 DEF TrailTyped, TrailEvents
<1>3. \A i, n, l : Tells(i, n, l)' <=> Tells(i, n, l)
  BY DEF Tells, Reflection
<1>4. \A l : AtEnd(l)' <=> AtEnd(l)
  BY <1>1, <1>3 DEF AtEnd, Tells, Reflection
<1>5. AtEnd(<<>>)' = AtEnd(<<>>) /\ AtEnd(Agreed)' = AtEnd(Agreed) /\ AtEnd(Unpaid)' = AtEnd(Unpaid)
      /\ AtEnd(Success)' = AtEnd(Success)
  BY <1>1 DEF AtEnd, Tells, Reflection, Agreed, Unpaid, Success
<1>6. WithoutSuccess' = WithoutSuccess
  BY DEF WithoutSuccess, Agreed, Declined, Failure
<1> QED
  BY <1>1, <1>2, <1>3, <1>5, <1>6 DEF ReflectionsTell

LEMMA GeneratesTells ==
  ASSUME TrailTyped, ReflectionsTell, GepaGenerates
  PROVE  TrailTyped' /\ ReflectionsTell' /\ trail'[Others] = trail[Others] /\ gepa'.pc # "succeeded"
<1>1. gepa.pc = "generate" /\ setup' = setup
  BY DEF GepaGenerates, GepaAt, GepaFrame
<1>2. \/ GepaSays(Failure) /\ NextIteration
      \/ GepaSays(<<"gepa.reflection.completed", "gepa.commit.denied">>) /\ NextIteration
      \/ gepa' = [gepa EXCEPT !.pc = "commits"] /\ UNCHANGED trail
  BY DEF GepaGenerates
<1>3. CASE GepaSays(Failure) /\ NextIteration
  <2>1. Failure \in Seq(Word)
    BY TopicLists
  <2> QED
    BY <1>1, <1>3, <2>1, AgreedEnds
<1>4. CASE GepaSays(<<"gepa.reflection.completed", "gepa.commit.denied">>) /\ NextIteration
  <2>1. <<"gepa.reflection.completed", "gepa.commit.denied">> \in Seq(Word)
    BY DEF Word
  <2> QED
    BY <1>1, <1>4, <2>1, AgreedEnds
<1>5. CASE gepa' = [gepa EXCEPT !.pc = "commits"] /\ UNCHANGED trail
  <2>1. gepa' = [gepa EXCEPT !.pc = "commits", !.version = gepa.version]
    BY <1>5 DEF TrailTyped
  <2>2. /\ gepa' \in [pc : {"reflect", "generate", "commits", "failed", "succeeded"}, iteration : Nat,
                      version : 0..MaxVersion]
        /\ gepa'.pc = "commits" /\ gepa'.iteration = gepa.iteration
    BY <2>1, LoopTyped DEF TrailTyped
  <2>3. trail' \in [Caller -> TrailEvents] /\ setup' \in SetupFields
    BY <1>1, <1>5 DEF TrailTyped, TrailEvents
  <2> QED
    BY <1>1, <1>5, <2>2, <2>3, TellsStays
<1> QED
  BY <1>2, <1>3, <1>4, <1>5

LEMMA CannotStoreTells ==
  ASSUME TrailTyped, ReflectionsTell, GepaCannotStore
  PROVE  TrailTyped' /\ ReflectionsTell' /\ trail'[Others] = trail[Others] /\ gepa'.pc # "succeeded"
<1>1. gepa.pc = "commits" /\ setup' = setup /\ GepaSays(Failure) /\ NextIteration
  BY DEF GepaCannotStore, GepaAt, GepaFrame
<1>2. Failure \in Seq(Word)
  BY TopicLists
<1> QED
  BY <1>1, <1>2, AgreedEnds

\* The loop tells of its success, and what it has committed is stored.
LEMMA CommitsTells ==
  ASSUME TrailTyped, ReflectionsTell, RegistryTypeOK, Reported, GepaCommits
  PROVE  TrailTyped' /\ ReflectionsTell' /\ SuccessStored' /\ trail'[Others] = trail[Others]
<1>1. gepa.pc = "commits" /\ setup' = setup /\ UNCHANGED <<home, committed>>
  BY DEF GepaCommits, GepaAt, GepaFrame
<1>2. \/ /\ GepaSays(<<"mutation.committed">> \o <<"gepa.reflection.completed", "gepa.commit.committed">>)
         /\ gepa' = [gepa EXCEPT !.pc = "succeeded", !.version = commit[Gepa].version]
      \/ GepaSays(<<"mutation.denied">> \o Failure) /\ NextIteration
  <2>1. PICK topic : topic = CommitEvent(Proposal).topic
    OBVIOUS
  <2>2. topic = IF CommitAnswer(Proposal) = "approved" THEN "mutation.committed" ELSE "mutation.denied"
    BY <2>1 DEF CommitEvent, Event
  <2>3. CASE CommitAnswer(Proposal) = "approved"
    BY <2>1, <2>2, <2>3 DEF GepaCommits
  <2>4. CASE CommitAnswer(Proposal) # "approved"
    BY <2>1, <2>2, <2>4 DEF GepaCommits
  <2> QED
    BY <2>3, <2>4
<1>3. CASE GepaSays(<<"mutation.denied">> \o Failure) /\ NextIteration
  <2>1. PICK u : u = <<"mutation.denied">>
    OBVIOUS
  <2>2. u \in Seq(Word)
    BY <2>1 DEF Word
  <2>3. <<"mutation.denied">> \o Failure \in Seq(Word)
    <3>1. Failure \in Seq(Word)
      BY TopicLists
    <3> QED
      BY <2>1, <2>2, <3>1, OneBehind
  <2>4. TrailTyped' /\ ReflectionsTell' /\ trail'[Others] = trail[Others] /\ gepa'.pc # "succeeded"
    BY <1>1, <1>3, <2>3, AgreedEnds
  <2> QED
    BY <2>4 DEF SuccessStored
<1>4. CASE /\ GepaSays(<<"mutation.committed">> \o <<"gepa.reflection.completed", "gepa.commit.committed">>)
           /\ gepa' = [gepa EXCEPT !.pc = "succeeded", !.version = commit[Gepa].version]
  <2>1. Gepa \in Writer /\ commit[Gepa].version \in 0..MaxVersion
    BY EvolutionAssumption DEF RegistryTypeOK
  <2>2. /\ gepa' \in [pc : {"reflect", "generate", "commits", "failed", "succeeded"}, iteration : Nat,
                      version : 0..MaxVersion]
        /\ gepa'.pc = "succeeded" /\ gepa'.iteration = gepa.iteration /\ gepa'.version = commit[Gepa].version
    BY <1>4, <2>1, LoopTyped DEF TrailTyped
  <2>3. SuccessStored'
    <3> SUFFICES ASSUME setup.gepaKeeps
                 PROVE  \E c \in committed : c.version = commit[Gepa].version /\ c.by = home[Gepa]
      BY <1>1, <2>2 DEF SuccessStored
    <3>1. commit[Gepa].pc = "done"
      BY DEF GepaCommits
    <3>2. PICK c \in committed :
            c = [version |-> commit[Gepa].version, genome |-> commit[Gepa].genome, by |-> home[Gepa]]
      BY <2>1, <3>1 DEF Reported
    <3> QED
      BY <3>2
  <2>4. PICK u, v : u = <<"mutation.committed">> /\ v = <<"gepa.reflection.completed", "gepa.commit.committed">>
    OBVIOUS
  <2>5. u \in Seq(Word) /\ v \in Seq(Word)
    BY <2>4 DEF Word
  <2>6. u \o v \in Seq(Word) /\ Agreed \o (u \o v) = Success
    BY <2>4, <2>5, OneBehind DEF Success
  <2>7. AtEnd(Agreed) /\ gepa.pc # "succeeded" /\ Agreed \in Seq(Word) /\ GepaSays(u \o v)
    BY <1>1, <1>4, <2>4, TopicLists DEF ReflectionsTell
  <2>8. TrailTyped' /\ ReflectionsTell' /\ trail'[Others] = trail[Others]
    BY <1>1, <2>2, <2>6, <2>7, ReflectionGoesOn
  <2> QED
    BY <2>3, <2>8
<1> QED
  BY <1>2, <1>3, <1>4

\* Who emits events, and who does not.
LEMMA EmitsAppends ==
  ASSUME trail \in [Caller -> TrailEvents], NEW c \in Caller, NEW events \in TrailEvents, Emits(c, events)
  PROVE  /\ trail' \in [Caller -> TrailEvents] /\ trail'[c] = trail[c] \o events
         /\ \A d \in Caller \ {c} : trail'[d] = trail[d]
<1>1. PICK T : T = [topic : Word, id : Nat]
  OBVIOUS
<1>2. trail \in [Caller -> Seq(T)] /\ events \in Seq(T) /\ trail' = [trail EXCEPT ![c] = trail[c] \o events]
  BY <1>1 DEF TrailEvents, Emits
<1>3. trail[c] \o events \in Seq(T)
  BY <1>2
<1> QED
  BY <1>1, <1>2, <1>3 DEF TrailEvents

\* The registry of genomes loses nothing that was committed.
LEMMA CommittedStays ==
  ASSUME RegistryInv, Reported, RegistryStep \/ UNCHANGED registryVars
  PROVE  home' = home /\ committed \subseteq committed'
<1>1. CASE \E w \in Writer : Commit(w)
  BY <1>1, CommitGrows DEF RegistryGrows
<1>2. CASE ~\E w \in Writer : Commit(w)
  BY <1>2 DEF RegistryStep, CommitCall, Crash, registryVars
<1> QED
  BY <1>1, <1>2

\* The host tells of what happens to its mutations.
LEMMA HostTells ==
  ASSUME TrailTyped, RegistryTypeOK, HostMutates \/ HostApplies \/ HostGivesUp
  PROVE  /\ trail' \in [Caller -> TrailEvents] /\ trail'[Gepa] = trail[Gepa] /\ trail'[Others] = trail[Others]
         /\ gepa' = gepa
<1>1. /\ trail \in [Caller -> TrailEvents] /\ Host \in Caller
      /\ Gepa \in Caller \ {Host} /\ Others \in Caller \ {Host}
  BY EvolutionAssumption DEF TrailTyped, TrailEvents, Host, Gepa, Others
<1>2. ASSUME NEW topic \in Word, NEW id \in Nat
      PROVE  <<Event(topic, id)>> \in TrailEvents
  <2>1. Event(topic, id) \in [topic : Word, id : Nat]
    BY DEF Event
  <2> QED
    BY <2>1 DEF TrailEvents
<1>3. /\ "evolution.readiness.denied" \in Word /\ "genome.persist_failed" \in Word /\ "genome.committed" \in Word
      /\ 0 \in Nat
  BY DEF Word
<1>4. <<>> \in TrailEvents
  BY DEF TrailEvents
<1>5. gepa' = gepa
  BY DEF HostMutates, HostMutatesFrom, HostApplies, HostGivesUp
<1>6. UNCHANGED trail \/ \E events \in TrailEvents : Emits(Host, events)
  <2>1. CASE HostMutates
    <3>1. PICK parent \in {0, base} : HostMutatesFrom(parent)
      BY <2>1 DEF HostMutates
    <3>2. \/ UNCHANGED trail
          \/ Emits(Host, <<>>)
          \/ Emits(Host, <<Event("evolution.readiness.denied", 0)>>)
          \/ Emits(Host, <<Event("genome.persist_failed", 0)>>)
      <4>1. PICK m \in setup.offers, ready \in BOOLEAN, ioError \in BOOLEAN :
              LET gates == Gates(m, parent, ready)
                  first == SelectInSeq(gates, LAMBDA g : g.refuses)
              IN IF first # 0
                   THEN Emits(Host, IF gates[first].error = "NotReady"
                                      THEN <<Event("evolution.readiness.denied", 0)>> ELSE <<>>)
                 ELSE IF ~setup.keeps THEN UNCHANGED trail
                 ELSE IF ioError \/ ~CanFork(parent)
                   THEN Emits(Host, <<Event("genome.persist_failed", 0)>>)
                   ELSE UNCHANGED trail
        BY <3>1 DEF HostMutatesFrom
      <4> QED
        BY <4>1
    <3> QED
      BY <1>2, <1>3, <1>4, <3>2
  <2>2. CASE HostApplies
    <3>1. PICK version : version = commit[Host].version
      OBVIOUS
    <3>2. version \in Nat
      BY <3>1, EvolutionAssumption, RegistryAssumption DEF RegistryTypeOK
    <3> QED
      BY <1>2, <1>3, <2>2, <3>1, <3>2 DEF HostApplies
  <2>3. CASE HostGivesUp
    BY <1>2, <1>3, <2>3 DEF HostGivesUp
  <2> QED
    BY <2>1, <2>2, <2>3
<1>7. CASE UNCHANGED trail
  BY <1>1, <1>5, <1>7
<1>8. CASE \E events \in TrailEvents : Emits(Host, events)
  BY <1>1, <1>5, <1>8, EmitsAppends
<1> QED
  BY <1>6, <1>7, <1>8

\* What the governor answers to the others.
Answered(e) ==
  e.topic # "mutation.denied" =>
    \E ask \in setup.asks :
      /\ ask.id = e.id /\ ask.source \in Whitelist
      /\ e.topic = "mutation.committed" => ask.evaluated
      /\ e.topic = "mutation.proposed" => ask.kind \notin {"L4_weight", "unknown"}

LEMMA GovernorAnswers ==
  ASSUME NEW ask \in setup.asks, ask \in Context, NEW human, NEW poor, NEW regressed,
         NEW e \in {ProposeEvent(ask, ProposeAnswer(ask, human, poor, regressed)), CommitEvent(ask),
                    RevertEvent(ask)}
  PROVE  e \in [topic : Word, id : Nat] /\ Answered(e)
<1>1. ask.id \in Nat
  BY DEF Context
<1>2. CASE e = ProposeEvent(ask, ProposeAnswer(ask, human, poor, regressed))
  <2>1. PICK answer : answer = ProposeAnswer(ask, human, poor, regressed)
    OBVIOUS
  <2>2. answer = "approved" => ask.source \in Whitelist /\ ask.kind \notin {"L4_weight", "unknown"}
    <3>1. CASE ask.source \notin Whitelist
      BY <2>1, <3>1 DEF ProposeAnswer
    <3>2. CASE ask.source \in Whitelist /\ ask.kind = "L4_weight"
      BY <2>1, <3>2 DEF ProposeAnswer
    <3>3. CASE ask.source \in Whitelist /\ ask.kind # "L4_weight"
      BY <2>1, <3>3 DEF ProposeAnswer, Allows
    <3> QED
      BY <3>1, <3>2, <3>3
  <2>3. /\ e = [topic |-> IF answer = "approved" THEN "mutation.proposed" ELSE "mutation.denied", id |-> ask.id]
    BY <1>2, <2>1 DEF ProposeEvent, Event
  <2> QED
    BY <1>1, <2>2, <2>3 DEF Answered, Word
<1>3. CASE e = CommitEvent(ask)
  <2>1. e = [topic |-> IF ask.source \in Whitelist /\ ask.evaluated THEN "mutation.committed" ELSE "mutation.denied",
             id |-> ask.id]
    BY <1>3 DEF CommitEvent, CommitAnswer, Event
  <2> QED
    BY <1>1, <2>1 DEF Answered, Word
<1>4. CASE e = RevertEvent(ask)
  <2>1. e = [topic |-> IF ask.source \in Whitelist THEN "mutation.reverted" ELSE "mutation.denied", id |-> ask.id]
    BY <1>4 DEF RevertEvent, Event
  <2> QED
    BY <1>1, <2>1 DEF Answered, Word
<1> QED
  BY <1>2, <1>3, <1>4

LEMMA OthersTell ==
  ASSUME TrailTyped, OthersTold, OthersPropose \/ OthersCommit \/ OthersRevert
  PROVE  /\ trail' \in [Caller -> TrailEvents] /\ trail'[Gepa] = trail[Gepa] /\ gepa' = gepa /\ setup' = setup
         /\ OthersTold'
<1>1. /\ trail \in [Caller -> TrailEvents] /\ Others \in Caller /\ Gepa \in Caller \ {Others}
      /\ \A ask \in setup.asks : ask \in Context
  BY EvolutionAssumption DEF TrailTyped, TrailEvents, Others, Gepa, SetupFields
<1>2. PICK e \in [topic : Word, id : Nat] : Answered(e) /\ OthersHear(e)
  <2>1. CASE OthersPropose
    <3>1. PICK ask \in setup.asks, human \in BOOLEAN, poor \in BOOLEAN, regressed \in BOOLEAN :
            OthersHear(ProposeEvent(ask, ProposeAnswer(ask, human, poor, regressed)))
      BY <2>1 DEF OthersPropose
    <3> QED
      BY <1>1, <3>1, GovernorAnswers
  <2>2. CASE OthersCommit
    BY <1>1, <2>2, GovernorAnswers DEF OthersCommit
  <2>3. CASE OthersRevert
    BY <1>1, <2>3, GovernorAnswers DEF OthersRevert
  <2> QED
    BY <2>1, <2>2, <2>3
<1>3. Emits(Others, <<e>>) /\ gepa' = gepa /\ setup' = setup
  BY <1>2 DEF OthersHear, evolutionVars
<1>4. <<e>> \in TrailEvents
  BY DEF TrailEvents
<1>5. /\ trail' \in [Caller -> TrailEvents] /\ trail'[Gepa] = trail[Gepa]
      /\ trail'[Others] = trail[Others] \o <<e>>
  BY <1>1, <1>3, <1>4, EmitsAppends
<1>6. OthersTold'
  <2>1. PICK T : T = [topic : Word, id : Nat]
    OBVIOUS
  <2>2. PICK s \in Seq(T) : s = trail[Others]
    BY <1>1, <2>1 DEF TrailEvents
  <2>3. PICK r : r = s \o <<e>>
    OBVIOUS
  <2>4. /\ Len(s) \in Nat /\ DOMAIN r = 1..(Len(s) + 1) /\ DOMAIN s = 1..Len(s)
        /\ (\A i \in 1..Len(s) : r[i] = s[i]) /\ r[Len(s) + 1] = e
    BY <2>1, <2>2, <2>3
  <2>5. \A i \in 1..Len(s) : Answered(s[i])
    BY <2>2, <2>4 DEF OthersTold, Answered
  <2>6. \A i \in DOMAIN r : Answered(r[i])
    BY <1>2, <2>4, <2>5
  <2>7. \A i \in DOMAIN trail'[Others] : Answered(trail'[Others][i])
    BY <1>5, <2>2, <2>3, <2>6
  <2> QED
    BY <1>3, <2>7 DEF OthersTold, Answered
<1> QED
  BY <1>3, <1>5, <1>6

\* Everything else.
LEMMA RestSilent ==
  ASSUME \/ HostUndoes \/ HostCalls \/ ToolReturns \/ ToolLeaves \/ HostRegisters
         \/ HostLoads \/ HostLoadsAll \/ LoadAllGoesOn \/ HostUnloads \/ HostCreates \/ HostEnds \/ HostFalls
         \/ Committing \/ Crashes \/ UNCHANGED allVars
  PROVE  UNCHANGED <<trail, gepa>>
<1>1. CASE HostUndoes \/ HostCalls \/ ToolReturns \/ ToolLeaves \/ HostRegisters
  BY <1>1 DEF HostUndoes, HostCalls, ToolReturns, ToolLeaves, HostRegisters, CallsFrame, evolutionVars
<1>2. CASE HostLoads \/ HostLoadsAll \/ LoadAllGoesOn \/ HostUnloads \/ HostCreates \/ HostEnds
  BY <1>2 DEF HostLoads, HostLoadsAll, LoadAllGoesOn, HostUnloads, HostCreates, HostEnds, HostAsksLoader,
              LoaderFrame
<1>3. CASE HostFalls \/ Committing \/ Crashes \/ UNCHANGED allVars
  BY <1>3 DEF HostFalls, Committing, Crashes, allVars, evolutionVars
<1> QED
  BY <1>1, <1>2, <1>3

\* What a step does to the setup.
LEMMA SetupStays ==
  ASSUME setup \in SetupFields, [Next]_allVars
  PROVE  setup' \in SetupFields /\ setup'.asks = setup.asks /\ setup'.gepaKeeps = setup.gepaKeeps
<1>1. \/ setup.mutations > 0 /\ setup' = [setup EXCEPT !.mutations = @ - 1]
      \/ setup.undos > 0 /\ setup' = [setup EXCEPT !.undos = @ - 1]
      \/ setup.loads > 0 /\ setup' = [setup EXCEPT !.loads = @ - 1]
      \/ setup' = setup
  <2>1. CASE HostMutates \/ HostUndoes
    BY <2>1 DEF HostMutates, HostMutatesFrom, HostUndoes
  <2>2. CASE HostLoads \/ HostLoadsAll \/ HostUnloads \/ HostCreates
    BY <2>2 DEF HostLoads, HostLoadsAll, HostUnloads, HostCreates, HostAsksLoader
  <2>3. CASE HostApplies \/ HostGivesUp \/ LoadAllGoesOn \/ HostEnds \/ HostFalls \/ HostRegisters
    BY <2>3 DEF HostApplies, HostGivesUp, LoadAllGoesOn, HostEnds, HostFalls, HostRegisters, evolutionVars
  <2>4. CASE HostCalls \/ ToolReturns \/ ToolLeaves \/ Committing \/ Crashes \/ UNCHANGED allVars
    BY <2>4 DEF HostCalls, ToolReturns, ToolLeaves, CallsFrame, Committing, Crashes, allVars, evolutionVars
  <2>5. CASE GepaProposes \/ GepaGenerates \/ GepaCommits \/ GepaCannotStore
    BY <2>5 DEF GepaProposes, GepaGenerates, GepaCommits, GepaCannotStore, GepaFrame
  <2>6. CASE OthersPropose \/ OthersCommit \/ OthersRevert
    BY <2>6 DEF OthersPropose, OthersCommit, OthersRevert, OthersHear, evolutionVars
  <2> QED
    BY <2>1, <2>2, <2>3, <2>4, <2>5, <2>6 DEF Next
<1>2. setup' \in SetupFields
  BY <1>1, SetupSpends
<1> QED
  BY <1>1, <1>2 DEF SetupFields

LEMMA TrailKeeps ==
  ASSUME RegistryInv, HarnessInv, TrailInv, [Next]_allVars
  PROVE  TrailInv'
<1>1. TrailTyped /\ ReflectionsTell /\ SuccessStored /\ OthersTold /\ RegistryTypeOK /\ Reported
  BY DEF TrailInv, RegistryInv, HarnessInv
<1>2. setup' \in SetupFields /\ setup'.asks = setup.asks /\ setup'.gepaKeeps = setup.gepaKeeps
  BY <1>1, SetupStays DEF TrailTyped
<1>3. home' = home /\ committed \subseteq committed'
  <2>1. RegistryStep \/ UNCHANGED registryVars
    BY NextRegistry DEF allVars
  <2> QED
    BY <1>1, <2>1, CommittedStays
<1>4. trail'[Others] = trail[Others] => OthersTold'
  BY <1>1, <1>2 DEF OthersTold
<1>5. gepa' = gepa \/ gepa'.pc # "succeeded" => SuccessStored'
  BY <1>1, <1>2, <1>3 DEF SuccessStored
<1>6. CASE GepaProposes \/ GepaGenerates \/ GepaCannotStore
  BY <1>1, <1>4, <1>5, <1>6, ProposesTells, GeneratesTells, CannotStoreTells DEF TrailInv
<1>7. CASE GepaCommits
  BY <1>1, <1>4, <1>7, CommitsTells DEF TrailInv
<1>8. CASE gepa' = gepa /\ trail'[Gepa] = trail[Gepa] /\ trail' \in [Caller -> TrailEvents] /\ OthersTold'
  <2>1. gepa' \in [pc : {"reflect", "generate", "commits", "failed", "succeeded"}, iteration : Nat,
                   version : 0..MaxVersion]
    BY <1>1, <1>8 DEF TrailTyped
  <2>2. TrailTyped' /\ ReflectionsTell'
    BY <1>1, <1>2, <1>8, <2>1, TellsStays
  <2> QED
    BY <1>5, <1>8, <2>2 DEF TrailInv
<1>9. CASE HostMutates \/ HostApplies \/ HostGivesUp
  BY <1>1, <1>4, <1>8, <1>9, HostTells
<1>10. CASE OthersPropose \/ OthersCommit \/ OthersRevert
  BY <1>1, <1>8, <1>10, OthersTell
<1>11. CASE UNCHANGED <<trail, gepa>>
  BY <1>1, <1>4, <1>8, <1>11 DEF TrailTyped, TrailEvents
<1> QED
  BY <1>6, <1>7, <1>9, <1>10, <1>11, RestSilent DEF Next

LEMMA TrailBegins == Init => TrailInv
<1> SUFFICES ASSUME Init PROVE TrailInv
  OBVIOUS
<1>1. /\ setup \in Setups /\ trail = [c \in Caller |-> <<>>]
      /\ gepa = [pc |-> "reflect", iteration |-> 0, version |-> 0]
  BY DEF Init
<1>2. trail[Gepa] = <<>> /\ trail[Others] = <<>>
  BY <1>1, EvolutionAssumption
<1>3. TrailTyped
  <2>1. setup \in SetupFields
    BY <1>1, SetupsAssumption DEF SetupFields
  <2>2. <<>> \in Seq([topic : Word, id : Nat])
    OBVIOUS
  <2>3. gepa \in [pc : {"reflect", "generate", "commits", "failed", "succeeded"}, iteration : Nat,
                  version : 0..MaxVersion]
    BY <1>1, RegistryAssumption
  <2> QED
    BY <1>1, <1>2, <2>1, <2>2, <2>3 DEF TrailTyped
<1>4. AtEnd(<<>>)
  <2>1. PICK e : e = <<>>
    OBVIOUS
  <2>2. Len(e) = 0 /\ trail[Gepa] = e /\ DOMAIN e = {} /\ gepa.iteration = 0
    BY <1>1, <1>2, <2>1
  <2>3. (0 - 0 + 1)..(0 - 0 + 0) = {} /\ 1..0 = {}
    OBVIOUS
  <2>4. Reflection(0) = {}
    BY <2>2 DEF Reflection
  <2> QED
    BY <2>1, <2>2, <2>3, <2>4 DEF AtEnd, Tells
<1>5. ReflectionsTell
  BY <1>1, <1>2, <1>4 DEF ReflectionsTell
<1>6. SuccessStored /\ OthersTold
  BY <1>1, <1>2 DEF SuccessStored, OthersTold
<1> QED
  BY <1>3, <1>5, <1>6 DEF TrailInv

\* What the lists of topics say.
Said(l) == {l[k] : k \in 1..Len(l)}
Once(l) == \A j, k \in 1..Len(l) : l[j] = l[k] => j = k
Tallies(topics) ==
  "gepa.reflection.started" \in topics =>
    /\ "gepa.reflection.completed" \in topics <=> "gepa.reflection.failed" \notin topics
    /\ "gepa.commit.committed" \in topics <=> "gepa.commit.denied" \notin topics

LEMMA FiveTopics ==
  ASSUME NEW l, Len(l) = 5,
         l[1] = "gepa.reflection.started", l[2] \in {"mutation.proposed", "mutation.denied"},
         l[3] = "gepa.commit.proposed", l[4] \in {"gepa.reflection.completed", "gepa.reflection.failed"},
         l[5] = "gepa.commit.denied"
  PROVE  Once(l) /\ Tallies(Said(l)) /\ "gepa.commit.committed" \notin Said(l)
<1>1. \A k \in 1..5 : k = 1 \/ k = 2 \/ k = 3 \/ k = 4 \/ k = 5
  OBVIOUS
<1>2. Said(l) = {l[1], l[2], l[3], l[4], l[5]}
  BY <1>1 DEF Said
<1>3. Once(l)
  BY <1>1 DEF Once
<1> QED
  BY <1>2, <1>3 DEF Tallies

LEMMA SixTopics ==
  ASSUME NEW l, Len(l) = 6,
         l[1] = "gepa.reflection.started", l[2] = "mutation.proposed", l[3] = "gepa.commit.proposed",
         \/ /\ l[4] = "mutation.committed" /\ l[5] = "gepa.reflection.completed"
            /\ l[6] = "gepa.commit.committed"
         \/ l[4] = "mutation.denied" /\ l[5] = "gepa.reflection.failed" /\ l[6] = "gepa.commit.denied"
  PROVE  /\ Once(l) /\ Tallies(Said(l))
         /\ l[4] = "mutation.denied" => "gepa.commit.committed" \notin Said(l)
<1>1. \A k \in 1..6 : k = 1 \/ k = 2 \/ k = 3 \/ k = 4 \/ k = 5 \/ k = 6
  OBVIOUS
<1>2. Said(l) = {l[1], l[2], l[3], l[4], l[5], l[6]}
  BY <1>1 DEF Said
<1>3. Once(l)
  BY <1>1 DEF Once
<1> QED
  BY <1>2, <1>3 DEF Tallies

\* The lists of the reflections that have ended without success.
LEMMA WithoutTells ==
  ASSUME NEW l \in WithoutSuccess
  PROVE  Len(l) \in Nat /\ Once(l) /\ Tallies(Said(l)) /\ "gepa.commit.committed" \notin Said(l)
<1>1. /\ Agreed \in Seq(Word) /\ Declined \in Seq(Word) /\ Failure \in Seq(Word)
      /\ Len(Agreed) = 3 /\ Len(Declined) = 3 /\ Len(Failure) = 2
      /\ Agreed[1] = "gepa.reflection.started" /\ Agreed[2] = "mutation.proposed"
      /\ Agreed[3] = "gepa.commit.proposed"
      /\ Declined[1] = "gepa.reflection.started" /\ Declined[2] = "mutation.denied"
      /\ Declined[3] = "gepa.commit.proposed"
      /\ Failure[1] = "gepa.reflection.failed" /\ Failure[2] = "gepa.commit.denied"
  BY TopicLists
<1>2. ASSUME NEW s \in {Agreed, Declined}, NEW r \in Seq(Word), Len(r) = 2, l = s \o r,
             r[1] \in {"gepa.reflection.completed", "gepa.reflection.failed"}, r[2] = "gepa.commit.denied"
      PROVE  Len(l) \in Nat /\ Once(l) /\ Tallies(Said(l)) /\ "gepa.commit.committed" \notin Said(l)
  <2>1. /\ s \in Seq(Word) /\ Len(s) = 3 /\ s[1] = "gepa.reflection.started"
        /\ s[2] \in {"mutation.proposed", "mutation.denied"} /\ s[3] = "gepa.commit.proposed"
    BY <1>1
  <2>2. /\ Len(l) = Len(s) + Len(r)
        /\ \A k \in 1..Len(s) : l[k] = s[k]
        /\ \A k \in 1..Len(r) : l[Len(s) + k] = r[k]
    BY <1>2, <2>1, OneBehind
  <2>3. Len(l) = 5 /\ l[1] = s[1] /\ l[2] = s[2] /\ l[3] = s[3] /\ l[4] = r[1] /\ l[5] = r[2]
    <3>1. /\ Len(l) = 3 + 2 /\ l[1] = s[1] /\ l[2] = s[2] /\ l[3] = s[3]
          /\ l[3 + 1] = r[1] /\ l[3 + 2] = r[2]
      BY <1>2, <2>1, <2>2
    <3> QED
      BY <3>1
  <2>4. /\ l[1] = "gepa.reflection.started" /\ l[2] \in {"mutation.proposed", "mutation.denied"}
        /\ l[3] = "gepa.commit.proposed" /\ l[4] \in {"gepa.reflection.completed", "gepa.reflection.failed"}
        /\ l[5] = "gepa.commit.denied" /\ Len(l) = 5
    BY <1>2, <2>1, <2>3
  <2>5. Once(l) /\ Tallies(Said(l)) /\ "gepa.commit.committed" \notin Said(l)
    BY <2>4, FiveTopics
  <2> QED
    BY <2>3, <2>5
<1>3. CASE l = Declined \o Failure \/ l = Agreed \o Failure
  BY <1>1, <1>2, <1>3
<1>4. CASE l = Agreed \o <<"gepa.reflection.completed", "gepa.commit.denied">>
  <2>1. PICK r : r = <<"gepa.reflection.completed", "gepa.commit.denied">>
    OBVIOUS
  <2>2. r \in Seq(Word) /\ Len(r) = 2 /\ r[1] = "gepa.reflection.completed" /\ r[2] = "gepa.commit.denied"
    BY <2>1 DEF Word
  <2> QED
    BY <1>2, <1>4, <2>1, <2>2
<1>5. CASE l = Agreed \o (<<"mutation.denied">> \o Failure)
  <2>1. PICK u, r : u = <<"mutation.denied">> /\ r = u \o Failure
    OBVIOUS
  <2>2. u \in Seq(Word) /\ Len(u) = 1 /\ u[1] = "mutation.denied"
    BY <2>1 DEF Word
  <2>3. r \in Seq(Word) /\ Len(r) = 3 /\ r[1] = u[1] /\ r[2] = Failure[1] /\ r[3] = Failure[2]
    <3>1. /\ r \in Seq(Word) /\ Len(r) = Len(u) + Len(Failure)
          /\ \A k \in 1..Len(u) : r[k] = u[k]
          /\ \A k \in 1..Len(Failure) : r[Len(u) + k] = Failure[k]
      BY <1>1, <2>1, <2>2, OneBehind
    <3>2. Len(r) = 1 + 2 /\ r[1] = u[1] /\ r[1 + 1] = Failure[1] /\ r[1 + 2] = Failure[2]
      BY <1>1, <2>2, <3>1
    <3>3. Len(r) = 3 /\ r[1] = u[1] /\ r[2] = Failure[1] /\ r[3] = Failure[2]
      BY <3>2
    <3> QED
      BY <3>1, <3>3
  <2>4. /\ Len(l) = 6 /\ l[1] = Agreed[1] /\ l[2] = Agreed[2] /\ l[3] = Agreed[3]
        /\ l[4] = r[1] /\ l[5] = r[2] /\ l[6] = r[3]
    <3>1. /\ Len(l) = Len(Agreed) + Len(r)
          /\ \A k \in 1..Len(Agreed) : l[k] = Agreed[k]
          /\ \A k \in 1..Len(r) : l[Len(Agreed) + k] = r[k]
      <4>1. l = Agreed \o r
        BY <1>5, <2>1
      <4> QED
        BY <1>1, <2>3, <4>1, OneBehind
    <3>2. /\ Len(l) = 3 + 3 /\ l[1] = Agreed[1] /\ l[2] = Agreed[2] /\ l[3] = Agreed[3]
          /\ l[3 + 1] = r[1] /\ l[3 + 2] = r[2] /\ l[3 + 3] = r[3]
      BY <1>1, <2>3, <3>1
    <3> QED
      BY <3>2
  <2> QED
    <3>1. /\ l[1] = "gepa.reflection.started" /\ l[2] = "mutation.proposed" /\ l[3] = "gepa.commit.proposed"
          /\ l[4] = "mutation.denied" /\ l[5] = "gepa.reflection.failed" /\ l[6] = "gepa.commit.denied"
      BY <1>1, <2>2, <2>3, <2>4
    <3>2. Len(l) = 6
      BY <2>4
    <3>3. Once(l) /\ Tallies(Said(l)) /\ "gepa.commit.committed" \notin Said(l)
      BY <3>1, <3>2, SixTopics
    <3> QED
      BY <3>2, <3>3
<1> QED
  BY <1>3, <1>4, <1>5 DEF WithoutSuccess

\* The events of a reflection have the topics of its list.
LEMMA TopicsAre ==
  ASSUME NEW i, NEW n \in Nat, NEW l, Len(l) \in Nat, Tells(i, n, l), Once(l)
  PROVE  /\ Topics(i) = Said(l)
         /\ \A j, k \in Reflection(i) : trail[Gepa][j].topic = trail[Gepa][k].topic => j = k
<1>1. Reflection(i) = (n + 1)..(n + Len(l)) /\ \A k \in 1..Len(l) : trail[Gepa][n + k].topic = l[k]
  BY DEF Tells
<1>2. \A j \in Reflection(i) : j - n \in 1..Len(l) /\ trail[Gepa][j].topic = l[j - n]
  <2> SUFFICES ASSUME NEW j \in Reflection(i)
               PROVE  j - n \in 1..Len(l) /\ trail[Gepa][j].topic = l[j - n]
    OBVIOUS
  <2>1. j - n \in 1..Len(l) /\ n + (j - n) = j
    BY <1>1
  <2> QED
    BY <1>1, <2>1
<1>3. \A k \in 1..Len(l) : n + k \in Reflection(i)
  BY <1>1
<1>4. Topics(i) = Said(l)
  <2>1. ASSUME NEW j \in Reflection(i)
        PROVE  trail[Gepa][j].topic \in Said(l)
    BY <1>2 DEF Said
  <2>2. ASSUME NEW k \in 1..Len(l)
        PROVE  l[k] \in Topics(i)
    <3>1. n + k \in Reflection(i) /\ trail[Gepa][n + k].topic = l[k]
      BY <1>1, <1>3
    <3> QED
      BY <3>1 DEF Topics
  <2> QED
    BY <2>1, <2>2 DEF Topics, Said
<1>5. ASSUME NEW j \in Reflection(i), NEW k \in Reflection(i), trail[Gepa][j].topic = trail[Gepa][k].topic
      PROVE  j = k
  <2>1. j - n = k - n
    BY <1>2, <1>5 DEF Once
  <2> QED
    BY <1>1, <2>1
<1> QED
  BY <1>4, <1>5

LEMMA TrailTells ==
  ASSUME TrailInv, CoordinatorInv, CallsTell
  PROVE  TrailTellsOutcome
<1>1. TrailTyped /\ ReflectionsTell /\ SuccessStored /\ OthersTold
  BY DEF TrailInv
<1>2. PICK m : m = Len(trail[Gepa])
  OBVIOUS
<1>3. m \in Nat /\ DOMAIN trail[Gepa] = 1..m /\ gepa.iteration \in Nat
      /\ (trail[Gepa] # <<>> => m # 0) /\ Last(trail[Gepa]) = trail[Gepa][m]
  <2>1. trail[Gepa] \in Seq([topic : Word, id : Nat]) /\ gepa.iteration \in Nat
    BY <1>1, EvolutionAssumption DEF TrailTyped
  <2>2. PICK T : T = [topic : Word, id : Nat]
    OBVIOUS
  <2>3. PICK s \in Seq(T) : s = trail[Gepa]
    BY <2>1, <2>2
  <2>4. Len(s) \in Nat /\ DOMAIN s = 1..Len(s) /\ (s # <<>> => Len(s) # 0) /\ Last(s) = s[Len(s)]
    BY <2>3, LenProperties, EmptySeq DEF Last
  <2> QED
    BY <1>2, <2>1, <2>3, <2>4
<1>4. /\ Success \in Seq(Word) /\ Len(Success) = 6
      /\ Success[1] = "gepa.reflection.started" /\ Success[2] = "mutation.proposed"
      /\ Success[3] = "gepa.commit.proposed" /\ Success[4] = "mutation.committed"
      /\ Success[5] = "gepa.reflection.completed" /\ Success[6] = "gepa.commit.committed"
  BY WholeLists
<1>5. gepa.pc = "succeeded" =>
        /\ m - 6 \in Nat /\ Tells(gepa.iteration, m - 6, Success)
        /\ trail[Gepa][(m - 6) + 6].topic = Success[6]
  BY <1>1, <1>2, <1>3, <1>4 DEF ReflectionsTell, AtEnd, Tells
<1>6. gepa.pc = "succeeded" <=>
        trail[Gepa] # <<>> /\ Last(trail[Gepa]).topic = "gepa.commit.committed"
  <2>1. ASSUME gepa.pc = "succeeded"
        PROVE  trail[Gepa] # <<>> /\ Last(trail[Gepa]).topic = "gepa.commit.committed"
    <3>1. m - 6 \in Nat /\ trail[Gepa][(m - 6) + 6].topic = Success[6]
      BY <1>5, <2>1
    <3>2. m # 0 /\ (m - 6) + 6 = m
      BY <1>3, <3>1
    <3>3. trail[Gepa] # <<>>
      BY <1>2, <3>2
    <3> QED
      BY <1>3, <1>4, <3>1, <3>2, <3>3
  <2>2. ASSUME trail[Gepa] # <<>>, Last(trail[Gepa]).topic = "gepa.commit.committed"
        PROVE  gepa.pc = "succeeded"
    <3>1. m \in DOMAIN trail[Gepa]
      BY <1>3, <2>2
    <3> QED
      BY <1>1, <1>3, <2>2, <3>1 DEF ReflectionsTell
  <2> QED
    BY <2>1, <2>2
<1>7. ASSUME NEW i \in 0..gepa.iteration
      PROVE  LET topics == Topics(i)
                 ended == i < gepa.iteration \/ gepa.pc \in {"failed", "succeeded"}
             IN /\ \A k, l \in Reflection(i) : trail[Gepa][k].topic = trail[Gepa][l].topic => k = l
                /\ ended => Tallies(topics)
                /\ "gepa.commit.committed" \in topics =>
                     /\ \E k, l \in Reflection(i) : k < l /\ trail[Gepa][k].topic = "mutation.proposed"
                                                          /\ trail[Gepa][l].topic = "mutation.committed"
                     /\ setup.gepaKeeps => \E c \in committed :
                          c.version = gepa.version /\ c.by = home[Gepa]
  <2>1. CASE i < gepa.iteration
    <3>1. PICK n \in 0..m, list \in WithoutSuccess : Tells(i, n, list)
      <4>1. i \in 0..(gepa.iteration - 1)
        BY <1>3, <2>1
      <4> QED
        BY <1>1, <1>2, <4>1 DEF ReflectionsTell
    <3>2. n \in Nat /\ Len(list) \in Nat /\ Once(list) /\ Tallies(Said(list))
          /\ "gepa.commit.committed" \notin Said(list)
      BY <1>3, WithoutTells
    <3>3. /\ Topics(i) = Said(list)
          /\ \A j, k \in Reflection(i) : trail[Gepa][j].topic = trail[Gepa][k].topic => j = k
      BY <3>1, <3>2, TopicsAre
    <3> QED
      BY <3>2, <3>3
  <2>2. CASE i = gepa.iteration /\ gepa.pc = "succeeded"
    <3>1. PICK n \in Nat : n = m - 6
      BY <1>5, <2>2
    <3>2. Tells(i, n, Success)
      BY <1>5, <2>2, <3>1
    <3>3. Once(Success) /\ Tallies(Said(Success))
      BY <1>4, SixTopics
    <3>4. /\ Topics(i) = Said(Success)
          /\ \A j, k \in Reflection(i) : trail[Gepa][j].topic = trail[Gepa][k].topic => j = k
      BY <1>4, <3>2, <3>3, TopicsAre
    <3>5. n + 2 \in Reflection(i) /\ n + 4 \in Reflection(i) /\ n + 2 < n + 4
      BY <1>4, <3>2 DEF Tells
    <3>6. trail[Gepa][n + 2].topic = "mutation.proposed" /\ trail[Gepa][n + 4].topic = "mutation.committed"
      BY <1>4, <3>2 DEF Tells
    <3>7. setup.gepaKeeps => \E c \in committed : c.version = gepa.version /\ c.by = home[Gepa]
      BY <1>1, <2>2 DEF SuccessStored
    <3> QED
      BY <3>3, <3>4, <3>5, <3>6, <3>7
  <2>3. CASE i = gepa.iteration /\ gepa.pc # "succeeded"
    <3>1. PICK list : /\ list = <<>> \/ list = Agreed \/ list = Unpaid
                      /\ AtEnd(list)
                      /\ gepa.pc = "failed" => list # Agreed
      <4>1. PICK none : none = <<>>
        OBVIOUS
      <4>2. none # Agreed /\ Unpaid # Agreed
        BY <4>1, TopicLists
      <4>3. \/ gepa.pc = "reflect" /\ AtEnd(none)
            \/ gepa.pc \in {"generate", "commits"} /\ AtEnd(Agreed)
            \/ gepa.pc = "failed" /\ (AtEnd(none) \/ AtEnd(Unpaid))
        BY <1>1, <2>3, <4>1 DEF TrailTyped, ReflectionsTell
      <4> QED
        BY <4>1, <4>2, <4>3
    <3>2. Len(list) \in Nat /\ Once(list) /\ (list # Agreed => Tallies(Said(list)))
      <4>1. CASE list = <<>>
        BY <4>1 DEF Once, Said, Tallies
      <4>2. CASE list = Agreed
        <5>1. \A k \in 1..3 : k = 1 \/ k = 2 \/ k = 3
          OBVIOUS
        <5> QED
          BY <4>2, <5>1, TopicLists DEF Once
      <4>3. CASE list = Unpaid
        BY <4>3, TopicLists DEF Once, Said, Tallies
      <4> QED
        BY <3>1, <4>1, <4>2, <4>3
    <3>0. Len(list) <= m /\ Tells(i, m - Len(list), list)
      <4>1. AtEnd(list)
        BY <3>1, Zenon
      <4>2. PICK c, j : c = Len(list) /\ j = gepa.iteration
        OBVIOUS
      <4>3. c <= m /\ Tells(j, m - c, list)
        BY <1>2, <4>1, <4>2, Zenon DEF AtEnd
      <4> QED
        BY <2>3, <4>2, <4>3, Zenon
    <3>3. PICK n \in Nat : n = m - Len(list)
      BY <1>3, <3>0, <3>2
    <3>4. Tells(i, n, list)
      BY <3>0, <3>3
    <3>5. /\ Topics(i) = Said(list)
          /\ \A j, k \in Reflection(i) : trail[Gepa][j].topic = trail[Gepa][k].topic => j = k
      BY <3>2, <3>4, TopicsAre
    <3>6. "gepa.commit.committed" \notin Topics(i)
      BY <1>1, <2>3 DEF ReflectionsTell, Topics, Reflection
    <3>7. i < gepa.iteration \/ gepa.pc \in {"failed", "succeeded"} => Tallies(Topics(i))
      <4>1. ~(i < gepa.iteration)
        BY <1>3, <2>3
      <4>2. gepa.pc \in {"failed", "succeeded"} => list # Agreed
        <5>1. gepa.pc = "failed" => list # Agreed
          BY <3>1, Zenon
        <5> QED
          BY <2>3, <5>1
      <4>3. list # Agreed => Tallies(Topics(i))
        BY <3>2, <3>5
      <4> QED
        BY <4>1, <4>2, <4>3
    <3> QED
      BY <3>5, <3>6, <3>7
  <2> QED
    BY <1>3, <2>1, <2>2, <2>3
<1>8. \A i \in DOMAIN calls : CallTrail(calls[i])
  BY LenProperties DEF CoordinatorInv, CallsTell
<1> QED
  BY <1>1, <1>6, <1>7, <1>8, Zenon DEF TrailTellsOutcome, OthersTold, Tallies

\* What a refusal says of a call that did not run its tool.
RefusalTold(answer, events) ==
  \/ answer = "thrown" /\ events \in {<<>>, <<Cycle>>}
  \/ answer = "Unknown" /\ events = <<Start>>
  \/ answer \in {"PermissionDenied", "InvalidParams"} /\ events \in {<<Denied>>, <<Start, Denied>>}

LEMMA RefusalTells ==
  ASSUME NEW c, c.ran = FALSE, RefusalTold(c.answer, c.events)
  PROVE  CallTrail(c)
<1>1. <<>> # <<Start, Invoked>> /\ <<Cycle>> # <<Start, Invoked>>
  OBVIOUS
<1>2. CASE c.answer = "thrown"
  <2>1. c.events # <<Start, Invoked>>
    BY <1>1, <1>2 DEF RefusalTold
  <2> QED
    BY <1>2, <2>1 DEF CallTrail
<1>3. CASE c.answer # "thrown"
  BY <1>3 DEF RefusalTold, CallTrail
<1> QED
  BY <1>2, <1>3

\* The call that execute logs tells its answer, and runs if it stands on the stack.
LEMMA CallBegins ==
  ASSUME NEW t \in Tool, NEW layer, NEW args, NEW cancelled, NEW human,
         Execute(t, layer, args, cancelled, human)
  PROVE  /\ config' = config
         /\ \E c : /\ calls' = Append(calls, c) /\ CallTrail(c)
                   /\ \/ stack' = stack
                      \/ c.answer = "running" /\ stack' = Append(stack, Len(calls) + 1)
<1>1. PICK s, first : /\ s = Refusals(t, layer, args, cancelled, human)
                      /\ first = FirstRefusal(t, layer, args, cancelled, human)
  OBVIOUS
<1>2. PICK rest, yes :
        \/ /\ first # 0 /\ stack' = stack
           /\ calls' = Append(calls,
                [tool |-> t, layer |-> layer, given |-> args, args |-> rest, yes |-> yes,
                 answer |-> s[first].answer, events |-> s[first].events, ran |-> FALSE])
        \/ /\ stack' = Append(stack, Len(calls) + 1)
           /\ calls' = Append(calls,
                [tool |-> t, layer |-> layer, given |-> args, args |-> rest, yes |-> yes,
                 answer |-> "running", events |-> <<Start, Invoked>>, ran |-> t \in registered])
  BY <1>1 DEF Execute
<1>3. first \in 0..8
  <2>1. Len(s) = 8
    BY <1>1 DEF Refusals
  <2>2. first = IF {i \in 1..Len(s) : s[i].refuses} # {}
                  THEN Min({i \in 1..Len(s) : s[i].refuses}) ELSE 0
    BY <1>1 DEF FirstRefusal, SelectInSeq
  <2>3. Len(s) \in Nat
    BY <2>1
  <2>4. first \in 0..Len(s)
    BY <2>2, <2>3, LeastRefusal, Zenon
  <2> QED
    BY <2>1, <2>4
<1>4. ASSUME NEW i \in 1..8
      PROVE  RefusalTold(s[i].answer, s[i].events)
  <2>1. /\ s[1].events \in {<<>>, <<Cycle>>} /\ s[2].events = <<Denied>> /\ s[3].events = <<Denied>>
        /\ s[4].events = <<Denied>> /\ s[5].events = <<Denied>> /\ s[6].events = <<Start>>
        /\ s[7].events = <<Start, Denied>> /\ s[8].events = <<Start, Denied>>
    BY <1>1 DEF Refusals
  <2>2. /\ s[1].answer = "thrown" /\ s[2].answer = "PermissionDenied" /\ s[3].answer = "PermissionDenied"
        /\ s[4].answer = "InvalidParams" /\ s[5].answer = "InvalidParams" /\ s[6].answer = "Unknown"
        /\ s[7].answer = "PermissionDenied" /\ s[8].answer = "PermissionDenied"
    BY <1>1 DEF Refusals
  <2>3. i = 1 \/ i = 2 \/ i = 3 \/ i = 4 \/ i = 5 \/ i = 6 \/ i = 7 \/ i = 8
    OBVIOUS
  <2> QED
    BY <2>1, <2>2, <2>3 DEF RefusalTold
<1>5. config' = config
  BY DEF Execute
<1>6. CASE first # 0 /\ stack' = stack /\
           calls' = Append(calls,
             [tool |-> t, layer |-> layer, given |-> args, args |-> rest, yes |-> yes,
              answer |-> s[first].answer, events |-> s[first].events, ran |-> FALSE])
  <2>1. PICK c : c = [tool |-> t, layer |-> layer, given |-> args, args |-> rest, yes |-> yes,
                      answer |-> s[first].answer, events |-> s[first].events, ran |-> FALSE]
    OBVIOUS
  <2>2. c.ran = FALSE /\ RefusalTold(c.answer, c.events)
    <3>1. first \in 1..8
      BY <1>3, <1>6
    <3> QED
      BY <1>4, <2>1, <3>1
  <2>3. CallTrail(c)
    BY <2>2, RefusalTells
  <2> QED
    BY <1>5, <1>6, <2>1, <2>3
<1>7. CASE stack' = Append(stack, Len(calls) + 1) /\
           calls' = Append(calls,
             [tool |-> t, layer |-> layer, given |-> args, args |-> rest, yes |-> yes,
              answer |-> "running", events |-> <<Start, Invoked>>, ran |-> t \in registered])
  <2>1. PICK c : c = [tool |-> t, layer |-> layer, given |-> args, args |-> rest, yes |-> yes,
                      answer |-> "running", events |-> <<Start, Invoked>>, ran |-> t \in registered]
    OBVIOUS
  <2>2. c.answer = "running" /\ CallTrail(c)
    BY <2>1 DEF CallTrail
  <2> QED
    BY <1>5, <1>7, <2>1, <2>2
<1> QED
  BY <1>2, <1>6, <1>7

LEMMA ExecuteTells ==
  ASSUME CoordinatorInv, CallsTell, NEW t \in Tool, NEW layer, NEW args, NEW cancelled, NEW human,
         Execute(t, layer, args, cancelled, human)
  PROVE  CallsTell'
<1>1. config' = config
  BY CallBegins
<1>2. PICK c : /\ calls' = Append(calls, c) /\ CallTrail(c)
               /\ \/ stack' = stack
                  \/ c.answer = "running" /\ stack' = Append(stack, Len(calls) + 1)
  BY CallBegins
<1>3. /\ calls \in Seq(Call) /\ stack \in Seq(Nat) /\ Len(calls) \in Nat /\ Len(stack) \in Nat
      /\ \A i \in 1..Len(stack) : stack[i] \in 1..Len(calls)
  BY DEF CoordinatorInv, StackInv
<1>4. /\ Len(calls') = Len(calls) + 1 /\ calls'[Len(calls) + 1] = c
      /\ \A i \in 1..Len(calls) : calls'[i] = calls[i]
  BY <1>2, <1>3, AppendProperties
<1>5. \A i \in 1..Len(calls') : CallTrail(calls'[i])
  BY <1>2, <1>3, <1>4 DEF CallsTell
<1>6. \A i \in 1..Len(calls') : CallTrail(calls[i])'
  BY <1>1, <1>5 DEF CallTrail
<1>7. \A i \in 1..Len(stack) : calls'[stack[i]].answer = "running"
  BY <1>3, <1>4 DEF CallsTell
<1>8. \A i \in 1..Len(stack') : calls'[stack'[i]].answer = "running"
  <2>1. CASE stack' = stack
    BY <1>7, <2>1
  <2>2. CASE c.answer = "running" /\ stack' = Append(stack, Len(calls) + 1)
    <3>1. /\ Len(stack') = Len(stack) + 1 /\ stack'[Len(stack) + 1] = Len(calls) + 1
          /\ \A i \in 1..Len(stack) : stack'[i] = stack[i]
      BY <1>3, <2>2, AppendProperties
    <3>2. \A i \in 1..Len(stack') : i \in 1..Len(stack) \/ i = Len(stack) + 1
      BY <1>3, <3>1
    <3> QED
      BY <1>4, <1>7, <2>2, <3>1, <3>2
  <2> QED
    BY <1>2, <2>1, <2>2
<1> QED
  BY <1>6, <1>8 DEF CallsTell

\* Tuples one behind the other.
LEMMA TuplesJoin ==
  ASSUME NEW a, NEW b, NEW c
  PROVE  /\ <<a, b>> \o <<c>> = <<a, b, c>>
         /\ \A d : <<a, b>> \o <<c, d>> = <<a, b, c, d>>
<1>1. <<a, b>> \o <<c>> = <<a, b, c>>
  <2>1. PICK S : S = {a, b, c}
    OBVIOUS
  <2>2. PICK s, r, u : s = <<a, b>> /\ r = <<c>> /\ u = <<a, b, c>>
    OBVIOUS
  <2>3. /\ s \in Seq(S) /\ Len(s) = 2 /\ s[1] = a /\ s[2] = b
        /\ r \in Seq(S) /\ Len(r) = 1 /\ r[1] = c
        /\ u \in Seq(S) /\ Len(u) = 3 /\ u[1] = a /\ u[2] = b /\ u[3] = c
    <3>1. a \in S /\ b \in S /\ c \in S
      BY <2>1
    <3> QED
      BY <2>2, <3>1
  <2>4. /\ s \o r \in Seq(S) /\ Len(s \o r) = Len(s) + Len(r)
        /\ \A k \in 1..Len(s) : (s \o r)[k] = s[k]
        /\ \A k \in 1..Len(r) : (s \o r)[Len(s) + k] = r[k]
    <3>1. Len(s) \in Nat /\ Len(r) \in Nat /\ s \in Seq(S) /\ r \in Seq(S)
      BY <2>3
    <3> QED
      BY <3>1, ConcatProperties
  <2>5. Len(s \o r) = 3 /\ (s \o r)[1] = a /\ (s \o r)[2] = b /\ (s \o r)[2 + 1] = c
    BY <2>3, <2>4
  <2>6. \A i \in 1..3 : (s \o r)[i] = u[i]
    <3>1. \A i \in 1..3 : i = 1 \/ i = 2 \/ i = 2 + 1
      OBVIOUS
    <3> QED
      BY <2>3, <2>5, <3>1
  <2>7. s \o r = u
    <3>1. PICK q \in Seq(S) : q = s \o r
      BY <2>4
    <3>2. Len(q) = Len(u) /\ \A i \in 1..Len(q) : q[i] = u[i]
      BY <2>3, <2>5, <2>6, <3>1
    <3> QED
      BY <2>3, <3>1, <3>2, SeqEqual
  <2> QED
    BY <2>2, <2>7
<1>2. ASSUME NEW d
      PROVE  <<a, b>> \o <<c, d>> = <<a, b, c, d>>
  <2>1. PICK S : S = {a, b, c, d}
    OBVIOUS
  <2>2. PICK s, r, u : s = <<a, b>> /\ r = <<c, d>> /\ u = <<a, b, c, d>>
    OBVIOUS
  <2>3. /\ s \in Seq(S) /\ Len(s) = 2 /\ s[1] = a /\ s[2] = b
        /\ r \in Seq(S) /\ Len(r) = 2 /\ r[1] = c /\ r[2] = d
        /\ u \in Seq(S) /\ Len(u) = 4 /\ u[1] = a /\ u[2] = b /\ u[3] = c /\ u[4] = d
    <3>1. a \in S /\ b \in S /\ c \in S /\ d \in S
      BY <2>1
    <3> QED
      BY <2>2, <3>1
  <2>4. /\ s \o r \in Seq(S) /\ Len(s \o r) = Len(s) + Len(r)
        /\ \A k \in 1..Len(s) : (s \o r)[k] = s[k]
        /\ \A k \in 1..Len(r) : (s \o r)[Len(s) + k] = r[k]
    <3>1. Len(s) \in Nat /\ Len(r) \in Nat /\ s \in Seq(S) /\ r \in Seq(S)
      BY <2>3
    <3> QED
      BY <3>1, ConcatProperties
  <2>5. Len(s \o r) = 4 /\ (s \o r)[1] = a /\ (s \o r)[2] = b /\ (s \o r)[2 + 1] = c /\ (s \o r)[2 + 2] = d
    BY <2>3, <2>4
  <2>6. \A i \in 1..4 : (s \o r)[i] = u[i]
    <3>1. \A i \in 1..4 : i = 1 \/ i = 2 \/ i = 2 + 1 \/ i = 2 + 2
      OBVIOUS
    <3> QED
      BY <2>3, <2>5, <3>1
  <2>7. s \o r = u
    <3>1. PICK q \in Seq(S) : q = s \o r
      BY <2>4
    <3>2. Len(q) = Len(u) /\ \A i \in 1..Len(q) : q[i] = u[i]
      BY <2>3, <2>5, <2>6, <3>1
    <3> QED
      BY <2>3, <3>1, <3>2, SeqEqual
  <2> QED
    BY <2>2, <2>7
<1> QED
  BY <1>1, <1>2

\* A call that runs is on the stack once; when it ends its answer fits its events.
LEMMA EndTells ==
  ASSUME CoordinatorInv, CallsTell, (\E ok \in BOOLEAN : ToolEnds(ok)) \/ ToolEscapes
  PROVE  CallsTell'
<1>1. stack # <<>> /\ stack' = Front(stack) /\ config' = config
  BY DEF ToolEnds, ToolEscapes
<1>2. /\ calls \in Seq(Call) /\ stack \in Seq(Nat) /\ Len(calls) \in Nat /\ Len(stack) \in Nat \ {0}
      /\ \A i \in 1..Len(stack) : stack[i] \in 1..Len(calls)
      /\ \A i, j \in 1..Len(stack) : calls[stack[i]].tool = calls[stack[j]].tool => i = j
  BY <1>1 DEF CoordinatorInv, StackInv
<1>3. PICK now : now = Last(stack)
  OBVIOUS
<1>4. /\ now = stack[Len(stack)] /\ now \in 1..Len(calls) /\ calls[now] \in Call
      /\ calls[now].answer = "running" /\ calls[now].events = <<Start, Invoked>>
  <2>1. now = stack[Len(stack)] /\ Len(stack) \in 1..Len(stack)
    BY <1>2, <1>3 DEF Last
  <2>2. now \in 1..Len(calls) /\ calls[now].answer = "running"
    BY <1>2, <2>1 DEF CallsTell
  <2>3. CallTrail(calls[now])
    BY <2>2 DEF CallsTell
  <2> QED
    BY <1>2, <2>1, <2>2, <2>3 DEF CallTrail
<1>5. PICK answer, events :
        /\ calls' = [calls EXCEPT ![now] = [[calls[now] EXCEPT !.answer = answer] EXCEPT !.events = events]]
        /\ \/ answer = "thrown" /\ calls[now].ran /\ events = <<Start, Invoked>>
           \/ answer = "ok" /\ events = <<Start, Invoked, Completed, End>>
           \/ answer = "error" /\ events = IF config.hooked THEN <<Start, Invoked, Denied>>
                                                            ELSE <<Start, Invoked, Completed, End>>
  <2>2. CASE ToolEscapes
    <3>1. calls' = [calls EXCEPT ![now] = [@ EXCEPT !.answer = "thrown"]] /\ calls[now].ran
      BY <1>3, <2>2 DEF ToolEscapes
    <3>2. [calls[now] EXCEPT !.answer = "thrown"] =
            [[calls[now] EXCEPT !.answer = "thrown"] EXCEPT !.events = calls[now].events]
      BY <1>4 DEF Call
    <3>3. calls' = [calls EXCEPT ![now] =
                      [[calls[now] EXCEPT !.answer = "thrown"] EXCEPT !.events = calls[now].events]]
      BY <3>1, <3>2, <1>2, <1>4
    <3> QED
      BY <1>4, <3>1, <3>3
  <2>3. CASE \E ok \in BOOLEAN : ToolEnds(ok)
    <3>1. PICK ok \in BOOLEAN : ToolEnds(ok)
      BY <2>3
    <3>2. PICK good \in BOOLEAN : good = AfterPostHooks(ok)
      <4>1. AfterPostHooks(ok) \in BOOLEAN
        BY DEF AfterPostHooks
      <4> QED
        BY <4>1
    <3>3. PICK more : more = IF config.hooked /\ ~good THEN <<Denied>> ELSE <<Completed, End>>
      OBVIOUS
    <3>4. PICK answer : answer = IF good THEN "ok" ELSE "error"
      OBVIOUS
    <3>5. calls' = [calls EXCEPT ![now].answer = answer, ![now].events = @ \o more]
      BY <1>3, <3>1, <3>2, <3>3, <3>4 DEF ToolEnds
    <3>6. calls' = [calls EXCEPT ![now] =
                      [[calls[now] EXCEPT !.answer = answer] EXCEPT !.events = calls[now].events \o more]]
      BY <1>2, <1>4, <3>5 DEF Call
    <3>7. /\ <<Start, Invoked>> \o <<Denied>> = <<Start, Invoked, Denied>>
          /\ <<Start, Invoked>> \o <<Completed, End>> = <<Start, Invoked, Completed, End>>
      BY TuplesJoin
    <3>8. calls[now].events \o more = IF config.hooked /\ ~good THEN <<Start, Invoked, Denied>>
                                      ELSE <<Start, Invoked, Completed, End>>
      BY <1>4, <3>3, <3>7
    <3>9. \/ answer = "ok" /\ calls[now].events \o more = <<Start, Invoked, Completed, End>>
          \/ /\ answer = "error"
             /\ calls[now].events \o more = IF config.hooked THEN <<Start, Invoked, Denied>>
                                            ELSE <<Start, Invoked, Completed, End>>
      BY <3>4, <3>8
    <3> QED
      BY <3>6, <3>9
  <2> QED
    BY <2>2, <2>3
<1>6. PICK d : d = [[calls[now] EXCEPT !.answer = answer] EXCEPT !.events = events]
  OBVIOUS
<1>7. d.answer = answer /\ d.events = events /\ d.ran = calls[now].ran
  BY <1>4, <1>6 DEF Call
<1>8. CallTrail(d)
  <2>1. CASE answer = "thrown" /\ calls[now].ran /\ events = <<Start, Invoked>>
    BY <1>7, <2>1 DEF CallTrail
  <2>2. CASE answer = "ok" /\ events = <<Start, Invoked, Completed, End>>
    BY <1>7, <2>2 DEF CallTrail
  <2>3. CASE answer = "error" /\ events = IF config.hooked THEN <<Start, Invoked, Denied>>
                                                           ELSE <<Start, Invoked, Completed, End>>
    BY <1>7, <2>3 DEF CallTrail
  <2> QED
    BY <1>5, <2>1, <2>2, <2>3
<1>9. /\ Len(calls') = Len(calls)
      /\ \A i \in 1..Len(calls) : calls'[i] = IF i = now THEN d ELSE calls[i]
  <2>1. calls' = [calls EXCEPT ![now] = d]
    BY <1>5, <1>6
  <2>2. calls' = [i \in 1..Len(calls) |-> IF i = now THEN d ELSE calls[i]]
    BY <1>2, <2>1, LenProperties
  <2> QED
    BY <1>2, <2>2
<1>10. \A i \in 1..Len(calls') : CallTrail(calls'[i])
  BY <1>8, <1>9 DEF CallsTell
<1>11. \A i \in 1..Len(calls') : CallTrail(calls[i])'
  BY <1>1, <1>10 DEF CallTrail
<1>12. \A i \in 1..Len(stack') : calls'[stack'[i]].answer = "running"
  <2>1. PICK n \in Nat : n = Len(stack) - 1
    BY <1>2
  <2>2. stack' = SubSeq(stack, 1, n)
    BY <1>1, <2>1 DEF Front
  <2>3. Len(stack') = n /\ \A i \in 1..n : stack'[i] = stack[i]
    BY <1>2, <2>1, <2>2
  <2>4. ASSUME NEW i \in 1..n
        PROVE  stack[i] # now /\ stack[i] \in 1..Len(calls) /\ calls[stack[i]].answer = "running"
    <3>1. i \in 1..Len(stack) /\ Len(stack) \in 1..Len(stack) /\ i # Len(stack)
      BY <1>2, <2>1
    <3> QED
      BY <1>2, <1>4, <3>1 DEF CallsTell
  <2> QED
    BY <1>9, <2>3, <2>4
<1> QED
  BY <1>11, <1>12 DEF CallsTell

LEMMA CallsKeepTelling ==
  ASSUME CoordinatorInv, CallsTell, [Next]_allVars
  PROVE  CallsTell'
<1>1. CASE HostCalls
  <2>1. PICK r \in setup.requests, cancelled \in BOOLEAN, human \in BOOLEAN :
          Execute(r.tool, r.layer, r.args, cancelled, human)
    BY <1>1 DEF HostCalls
  <2>2. r.tool \in Tool
    BY DEF CoordinatorInv, Requests
  <2> QED
    BY <2>1, <2>2, ExecuteTells
<1>2. CASE ToolReturns \/ ToolLeaves
  BY <1>2, EndTells DEF ToolReturns, ToolLeaves
<1>3. CASE UNCHANGED <<config, stack, calls>>
  BY <1>3 DEF CallsTell, CallTrail
<1>4. CASE HostMutates \/ HostUndoes \/ HostApplies \/ HostGivesUp \/ HostRegisters
  BY <1>3, <1>4 DEF HostMutates, HostMutatesFrom, HostUndoes, HostApplies, HostGivesUp, HostRegisters,
                    coordinatorVars
<1>5. CASE GepaProposes \/ GepaGenerates \/ GepaCommits \/ GepaCannotStore
  BY <1>3, <1>5 DEF GepaProposes, GepaGenerates, GepaCommits, GepaCannotStore, GepaFrame, coordinatorVars
<1>6. CASE OthersPropose \/ OthersCommit \/ OthersRevert \/ Committing \/ Crashes \/ UNCHANGED allVars
  BY <1>3, <1>6 DEF OthersPropose, OthersCommit, OthersRevert, OthersHear, Committing, Crashes, allVars,
                    coordinatorVars
<1>7. CASE HostLoads \/ HostLoadsAll \/ LoadAllGoesOn \/ HostUnloads \/ HostCreates \/ HostEnds \/ HostFalls
  BY <1>3, <1>7 DEF HostLoads, HostLoadsAll, LoadAllGoesOn, HostUnloads, HostCreates, HostEnds, HostFalls,
                    HostAsksLoader, LoaderFrame
<1> QED
  BY <1>1, <1>2, <1>4, <1>5, <1>6, <1>7 DEF Next

LEMMA CallsBegin == Init => CallsTell
<1> SUFFICES ASSUME Init PROVE CallsTell
  OBVIOUS
<1>1. stack = <<>> /\ calls = <<>>
  BY DEF Init, CoordinatorInit
<1> QED
  BY <1>1 DEF CallsTell

(* The bus tells what happened: of each reflection how it has ended, and of *)
(* a commit only after it was agreed to and stored; of what others ask      *)
(* nothing that the governor must not grant; and of each call of a tool     *)
(* what became of it, however deep the calls are nested.                    *)
THEOREM TrailIsTrue == Spec => []TrailTellsOutcome
<1>1. Spec => []TrailInv
  BY TrailBegins, TrailKeeps, RegistryKept, HarnessKept, PTL DEF Spec
<1>2. Spec => [](CoordinatorInv /\ CallsTell)
  <2>1. CoordinatorInv /\ CallsTell /\ [Next]_allVars => CoordinatorInv' /\ CallsTell'
    BY NextCoordinator, CallsKeepTelling
  <2> QED
    BY <2>1, InitCoordinator, CallsBegin, PTL DEF Spec
<1>3. TrailInv /\ CoordinatorInv /\ CallsTell => TrailTellsOutcome
  BY TrailTells
<1> QED
  BY <1>1, <1>2, <1>3, PTL

(* So in every session each committed version loads unless a fault that is  *)
(* named befell it, tools run only after their checks, code that is pointed *)
(* into is there, the agent is what was stored for it, and the bus tells    *)
(* what happened.                                                           *)
THEOREM SessionKeeps ==
  SessionSpec => [](CommittedLoads /\ ChecksBeforeTool /\ PointsIntoCode /\ LivePersisted /\ TrailTellsOutcome)
  BY SessionIsEvolution, CommitsKept, ToolsChecked, CodeStays, AgentIsStored, TrailIsTrue, PTL
=============================================================================

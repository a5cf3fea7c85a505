---------------------------- MODULE GenomeRegistry ----------------------------
(***************************************************************************)
(* FilesystemGenomeRegistry (src/core/genome/registry_filesystem.cpp): the *)
(* versions of one genome, each a directory with two files, written by     *)
(* callers of commit in one process or in several that share the root      *)
(* directory.  The mutex of commit is a member of the registry: it excludes*)
(* the callers of one process only.                                        *)
(*                                                                         *)
(* Writing a temporary file and deleting a directory are single steps, and *)
(* so is a load.  A signature is the genome it signs.  A process may crash *)
(* between any two steps, and any call of the file system may fail.        *)
(***************************************************************************)
EXTENDS Naturals, FiniteSets, Sequences

CONSTANTS
  Writer,       \* the callers of commit, each with one call at a time
  Process,      \* the processes, each with a registry of its own
  Genome,       \* records with a parent (a version, or 0) and a spec
  MaxVersion,   \* a bound: no version above it is ever chosen
  None

Version == 1..MaxVersion
Signature == "signature.hmac"
Yaml == "genome.yaml"
File == {Signature, Yaml}

ASSUME RegistryAssumption ==
  /\ MaxVersion \in Nat \ {0}
  /\ None \notin Genome \cup Writer
  /\ \A g \in Genome : g.parent \in 0..MaxVersion

VARIABLES
  home,        \* the process each writer runs in
  crashed,     \* the processes that have crashed
  dirs,        \* the versions whose directory exists
  files, tmp,  \* its two files and their temporary files, a genome or None
  holder,      \* the writer that holds the commit_mutex_ of each process
  commit,      \* where each writer is: pc, the genome and the version it writes
  committed,   \* history: what commit reported as written, and by which process
  contested    \* history: the versions two processes have chosen at the same time, and those
               \* chosen after that which are not above them

diskVars == <<dirs, files, tmp>>
registryVars == <<home, crashed, diskVars, holder, commit, committed, contested>>

Idle == [pc |-> "idle", file |-> Signature, genome |-> None, version |-> 0]

\* The seed that the first caller has committed before the others start.
RegistryInit(place, seed) ==
  /\ home = place
  /\ crashed = {}
  /\ dirs = {1}
  /\ files = [v \in Version |-> [f \in File |-> IF v = 1 THEN seed ELSE None]]
  /\ tmp = [v \in Version |-> [f \in File |-> None]]
  /\ holder = [p \in Process |-> None]
  /\ commit = [w \in Writer |-> Idle]
  /\ committed = {[version |-> 1, genome |-> seed, by |-> None]}
  /\ contested = {}

-----------------------------------------------------------------------------
(* Reading.                                                                *)

\* validate_lineage_no_cycle: the version has a line of ancestors, each with its genome.yaml, and
\* following the parents never comes round.  (That a line may be too long is left out.)
LineageFrom(v) ==
  \/ v = 0
  \/ \E line \in SUBSET Version :
       /\ v \in line
       /\ \A u \in line : files[u][Yaml] # None /\ files[u][Yaml].parent \in line \cup {0}
       /\ \A round \in (SUBSET line) \ {{}} : \E u \in round : files[u][Yaml].parent \notin round

\* load: the two files are there, what the signature signs is what genome.yaml says, and the
\* lineage is whole.
Loads(v, g) ==
  /\ v \in Version
  /\ g # None
  /\ \A f \in File : files[v][f] = g
  /\ LineageFrom(g.parent)

\* list_versions
Listed == {v \in dirs : files[v][Yaml] # None /\ files[v][Signature] # None /\ tmp[v][Yaml] = None}

\* The version that commit chooses: a directory counts whatever it holds.
NextVersion == 1 + CHOOSE v \in dirs \cup {0} : \A u \in dirs : u <= v

-----------------------------------------------------------------------------
(* commit.                                                                 *)

Alive(w) == home[w] \notin crashed
At(w, pc) == Alive(w) /\ commit[w].pc = pc
Goes(w, pc) == commit' = [commit EXCEPT ![w].pc = pc]
InFlight(w) == Alive(w) /\ commit[w].pc \in {"mkdir", "write", "rename", "abort"}

\* A caller has built the genome it commits.
CommitCall(w, genome) ==
  /\ At(w, "idle")
  /\ genome \in Genome
  /\ commit' = [commit EXCEPT ![w] =
       [pc |-> "called", file |-> Signature, genome |-> genome, version |-> 0]]
  /\ UNCHANGED <<home, crashed, diskVars, holder, committed, contested>>

CommitLockFree(w) ==
  /\ At(w, "called")
  /\ holder' = [holder EXCEPT ![home[w]] = w]
  /\ Goes(w, "scan")
  /\ UNCHANGED <<home, crashed, diskVars, committed, contested>>

CommitLock(w) ==
  /\ At(w, "called")
  /\ holder[home[w]] = None
  /\ holder' = [holder EXCEPT ![home[w]] = w]
  /\ Goes(w, "scan")
  /\ UNCHANGED <<home, crashed, diskVars, committed, contested>>

CommitScan(w) ==
  /\ At(w, "scan")
  /\ NextVersion \in Version
  /\ commit' = [commit EXCEPT ![w].pc = "mkdir", ![w].version = NextVersion]
  /\ contested' = IF \/ \E u \in Writer : /\ home[u] # home[w] /\ InFlight(u)
                                         /\ commit[u].version = NextVersion
                     \/ \E v \in contested : NextVersion <= v
                    THEN contested \cup {NextVersion} ELSE contested
  /\ UNCHANGED <<home, crashed, diskVars, holder, committed>>

Unlock(w) == holder' = [holder EXCEPT ![home[w]] = IF @ = w THEN None ELSE @]

\* The lineage, the key of the signature and create_directories, which takes a directory
\* that exists already.  A failure leaves no trace of this commit.
CommitMkdir(w) ==
  /\ At(w, "mkdir")
  /\ \E ioError \in BOOLEAN :
       IF ioError \/ ~LineageFrom(commit[w].genome.parent)
         THEN /\ Goes(w, "failed") /\ Unlock(w)
              /\ UNCHANGED dirs
         ELSE /\ dirs' = dirs \cup {commit[w].version}
              /\ Goes(w, "write")
              /\ UNCHANGED holder
  /\ UNCHANGED <<home, crashed, files, tmp, committed, contested>>

\* atomic_write of the signature and then of genome.yaml: the temporary file, then its rename.
\* The name of the temporary file is the same in every process.
CommitWrites(w) ==
  LET v == commit[w].version IN
  /\ At(w, "write")
  /\ \E ioError \in BOOLEAN :
       IF ioError \/ v \notin dirs
         THEN Goes(w, "abort") /\ UNCHANGED tmp
         ELSE /\ tmp' = [tmp EXCEPT ![v][commit[w].file] = commit[w].genome]
              /\ Goes(w, "rename")
  /\ UNCHANGED <<home, crashed, dirs, files, holder, committed, contested>>

\* After genome.yaml the commit is done: it returns the version and releases the mutex.
CommitRenames(w) ==
  LET v == commit[w].version
      file == commit[w].file
  IN
  /\ At(w, "rename")
  /\ \E ioError \in BOOLEAN :
       IF ioError \/ tmp[v][file] = None
         THEN /\ Goes(w, "abort")
              /\ UNCHANGED <<files, tmp, holder, committed>>
         ELSE /\ files' = [files EXCEPT ![v][file] = tmp[v][file]]
              /\ tmp' = [tmp EXCEPT ![v][file] = None]
              /\ IF file = Signature
                   THEN /\ commit' = [commit EXCEPT ![w].pc = "write", ![w].file = Yaml]
                        /\ UNCHANGED <<holder, committed>>
                   ELSE /\ Goes(w, "done") /\ Unlock(w)
                        /\ committed' = committed \cup
                             {[version |-> v, genome |-> commit[w].genome, by |-> home[w]]}
  /\ UNCHANGED <<home, crashed, dirs, contested>>

Without(contents, v) == [contents EXCEPT ![v] = [f \in File |-> None]]

\* remove_all(version_dir), whoever has written there.
CommitAborts(w) ==
  LET v == commit[w].version IN
  /\ At(w, "abort")
  /\ dirs' = dirs \ {v}
  /\ files' = Without(files, v)
  /\ tmp' = Without(tmp, v)
  /\ Goes(w, "failed")
  /\ Unlock(w)
  /\ UNCHANGED <<home, crashed, committed, contested>>

Commit(w) ==
  \/ CommitLock(w) \/ CommitScan(w) \/ CommitMkdir(w)
  \/ CommitWrites(w) \/ CommitRenames(w) \/ CommitAborts(w)

\* The caller has taken the result.
CommitReturns(w) == commit' = [commit EXCEPT ![w] = Idle]

Crash(p) ==
  /\ p \notin crashed
  /\ crashed' = crashed \cup {p}
  /\ UNCHANGED <<home, diskVars, holder, commit, committed, contested>>

-----------------------------------------------------------------------------

RegistryTypeOK ==
  /\ home \in [Writer -> Process]
  /\ crashed \subseteq Process
  /\ dirs \subseteq Version
  /\ files \in [Version -> [File -> Genome \cup {None}]]
  /\ tmp \in [Version -> [File -> Genome \cup {None}]]
  /\ holder \in [Process -> Writer \cup {None}]
  /\ commit \in [Writer ->
       [pc : {"idle", "called", "scan", "mkdir", "write", "rename", "abort", "failed", "done"},
        file : File, genome : Genome \cup {None}, version : 0..MaxVersion]]
  /\ committed \subseteq [version : Version, genome : Genome, by : Process \cup {None}]
  /\ contested \subseteq Version

\* A version whose commit was reported is listed and can be loaded ever after, with the genome
\* that was committed, and is committed only once, whatever fails or crashes later, as long as no
\* two processes have chosen this version, or an older one, at the same time.  (Then they mix
\* their files, and the one that fails deletes what the other has reported.)
CommittedLoads ==
  \A c \in committed :
     \/ \E v \in contested : v <= c.version
     \/ /\ c.version \in Listed /\ Loads(c.version, c.genome)
        /\ \A d \in committed : d.version = c.version => d = c
=============================================================================

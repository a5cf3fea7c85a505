CONSTANTS
  Node <- MCNode
  Key <- MCKey
  ArrayKey <- MCArrayKey
  None = "none"
  Caller = "caller"
  BadPath = "bad"
  Graphs <- AllGraphs
  MaxSnapshots = 2
  MaxResumes = 1
SPECIFICATION FairSpec
CHECK_DEADLOCK FALSE
INVARIANTS
  TypeOK
  RunsOnce
  UnmetIsStuck
  BranchIsolation
PROPERTIES
  DependenciesFirst
  Returns
  JoinLosesNothing

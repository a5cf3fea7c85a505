CONSTANTS
  Node <- MCNode
  Key <- MCKey
  ArrayKey <- MCArrayKey
  None = "none"
  Caller = "caller"
  BadPath = "bad"
  Graphs <- Writes
  MaxSnapshots = 2
  MaxResumes = 1
SPECIFICATION Spec
CHECK_DEADLOCK FALSE
PROPERTY JoinNeverReverts

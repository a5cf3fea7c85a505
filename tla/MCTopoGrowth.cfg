CONSTANTS
  Node <- MCNode
  Key <- MCKey
  ArrayKey <- MCArrayKey
  None = "none"
  Caller = "caller"
  BadPath = "bad"
  Graphs <- Growing
  MaxSnapshots = 2
  MaxResumes = 1
SPECIFICATION Spec
CHECK_DEADLOCK FALSE
INVARIANT GrowthKeepsOrder

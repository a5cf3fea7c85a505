CONSTANTS
  b1 = b1
  b2 = b2
  None = None
  Topic <- MCTopic
  Body <- MCBody
  Subscriber <- MCSubscriber
  Writer = "writer"
  Recorded <- MCRecorded
  Branch <- MCBranch
  Setups <- MCAllSetups
  Client <- MCClient
  NoTask <- MCNoTask
  Jobs <- MCAllJobs
  EventWorlds <- MCEventWorlds
SPECIFICATION FairEvents
CHECK_DEADLOCK FALSE
INVARIANTS
  TasksInTurn
  NothingLost
  WrittenOnceInOrder
  SuccessIsComplete
  OneLateCallback
PROPERTY
  WaitsEnd

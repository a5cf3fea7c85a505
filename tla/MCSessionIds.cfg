CONSTANTS
  Chat = chat_thread
  Command = {tool}
  MaxRecords = 3
  MaxCrashes = 2
  MaxFailures = 1
SPECIFICATION Spec
CHECK_DEADLOCK FALSE
INVARIANT IdsAreUnique

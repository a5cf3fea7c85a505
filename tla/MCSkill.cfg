CONSTANTS
  a = a
  b = b
  Tool = {a, b}
  Setups <- MCAllSetups
  ChatSetups <- MCAllChats
  Programs <- MCPrograms
  Caller <- MCCaller
  Owner <- MCOwner
  Thread <- MCThread
  Services <- MCServices
  Worlds <- MCWorlds
SPECIFICATION FairWorld
INVARIANTS ToldOnce HostSurvives NothingLeft CodesTellWhy StrandedOnlyBy WithinCapability OneInside OneLatePoll NothingOverlooked StopsItsTurn GoneIsQuiet AnswersSurvive
PROPERTIES CallsEnd
CHECK_DEADLOCK FALSE

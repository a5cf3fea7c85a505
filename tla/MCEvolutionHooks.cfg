CONSTANTS
  None = None
  Writer = {"host", "gepa"}
  Caller = {"host", "gepa", "others"}
  Process = {"p1", "p2"}
  MaxVersion = 4
  Genome <- MCGenome
  Whitelist = {"gepa"}
  Reviewed = TRUE
  Tool <- MCTool
  Meta <- MCMeta
  Configs <- MCConfigs
  Plugin <- MCPlugin
  Exports <- MCExports
  Setups <- MCSetups
  Runs <- MCRuns
SPECIFICATION SessionSpec
CHECK_DEADLOCK FALSE
INVARIANT HooksChangeArgs

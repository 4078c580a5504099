CONSTANTS
  Client = {"c1"}
  Command = {"map", "context", "check"}
  MaxDeaths = 1
  MaxStalls = 1
  Declared <- Entries
  WorkspaceSymbolCap = 3
  Base = 2
  MaxFrame = 2
  MaxSize = 3
  MaxFrames = 3
  Outputs <- EngineOutputs
  Engines <- InstalledEngines
  Protocols = {10, 11}
  PROTOCOL_VERSION = 11
  Pin <- TestedVersion
  MaxInstalled = 2
  MaxChanges = 2
SPECIFICATION CommandsSpec
INVARIANT
  NoDaemonAnswersAlone
CHECK_DEADLOCK FALSE

CONSTANTS
  h1 = h1
  h2 = h2
  Handlers = {h1}
  Names <- Two
  BlankNames <- NoBlanks
  Ports <- MCPorts
  Engines <- MCEngines
  BlankEngines <- MCBlankEngines
  Prompts <- MCPrompts
  EmptyPrompt = ""
  NoAgent = NoAgent
  Requests <- RegisterRemove
  SwarmConfigs <- PlainConfigs
  Kills = TRUE
  IOFaults = TRUE
  ModeNames <- MCModeNames
  ModeVals = {"v"}
  Unset = Unset
  Absent = Absent
  Null = Null
  NilMap = NilMap
  Scalar = Scalar
  Missing = Missing
  Empty = Empty
  Garbage = Garbage
  NoRequest = NoRequest
  Open = Open
SPECIFICATION DSpec
PROPERTY SurvivesCleanRestart

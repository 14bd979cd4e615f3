CONSTANTS
  h1 = h1
  h2 = h2
  r1 = r1
  r2 = r2
  Handlers = {h1}
  Readers = {r1}
  NameOrder <- MCNameOrder
  NotString = NotString
  NoList = NoList
  Names <- Two
  BlankNames <- NoBlanks
  Ports <- MCPorts
  Engines <- MCEngines
  BlankEngines <- MCBlankEngines
  Prompts <- MCPrompts
  EmptyPrompt = ""
  NoAgent = NoAgent
  Requests <- ViewRequests
  SwarmConfigs <- NullConfigs
  Kills = FALSE
  IOFaults = FALSE
  ModeNames <- MCModeNames
  ModeVals <- MCLists
  Unset = Unset
  Absent = Absent
  Null = Null
  NilMap = NilMap
  Scalar = Scalar
  Missing = Missing
  Empty = Empty
  Garbage = Garbage
  NoRequest = NoRequest
SPECIFICATION VFairSpec
INVARIANTS AnswerSelects AnswerIsRegular NeverLocked
PROPERTIES RequestsAnswered ReadsAnswered

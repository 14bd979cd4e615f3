CONSTANTS
  h1 = h1
  h2 = h2
  Handlers = {h1}
  Names <- Four
  BlankNames <- Blanks
  Ports <- MCPorts
  Engines <- MCEngines
  BlankEngines <- MCBlankEngines
  Prompts <- MCPrompts
  EmptyPrompt = ""
  NoAgent = NoAgent
  Requests <- RoutedRequests
  SwarmConfigs <- HttpConfigs
  Kills = TRUE
  IOFaults = FALSE
  ModeNames <- MCModeNames
  ModeVals = {"v"}
  Unset = Unset
  Absent = Absent
  Null = Null
  NilMap = NilMap
  Scalar = Scalar
  Missing = Missing
  Empty = Empty
  Garbage = Garbage
  NoRequest = NoRequest
  HttpRequests <- MCHttpRequests
  Later <- MCLater
  Segments <- MCSegments
  Nobody = Nobody
  Malformed = Malformed

SPECIFICATION Spec
INVARIANTS TypeOK QuiescentDurable NoTombstonedOverride ListShowsLookup
PROPERTY OnlyNamedChanges

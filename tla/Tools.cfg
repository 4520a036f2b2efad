SPECIFICATION Spec
CONSTANTS
  \* Shell, BgShells
  Ops <- CdOps
  MaxCmds = 2
  Cap = 3
  MaxOut = 4
  MaxChunk = 3
  MaxCalls = 2
  Shells = {s1, s2}
  Segment = 2
  MaxBytes = 3
  MaxLogFaults = 1
  \* Mcp
  Names = {"a", "b"}
  BadNames = {}
  Launches <- MCLaunches
  Offers <- MCOffers
  Wire <- MCWire
  MaxToolCalls = 2
  \* Search
  SearchPaths = {1, 2}
  FileTexts <- SomeTexts
  Requests <- SomeRequests
  Allow = 6
  Slack = 1
  MaxParts = 2
  MaxTouch = 2
  \* Workspace
  Files = {"f"}
  Text = {1, 2}
  MaxTurn = 2
  MaxLines = 4
  MaxCrashes = 1
  ExternalDuringCalls = FALSE
  \* Context
  Dirs = {1, 2}
  INLINE_CAP = 1
  RESULT_CAP = 1
  CAP_CHARS = 3
  MAX_STRING = 2
  MaxTurns = 6
  MaxEdits = 1
  Prompts <- SomePrompts
  Results = {0, 2}
  Goals = {0, 1}
INVARIANTS CommandSettled ShellsSettled ServersAccounted RecordsFaithful
INVARIANTS AnswersAccountForAll RequestKeepsTheThread
PROPERTIES CallsReachOneServer RewindRestores OverwritesOnlyKnown
CHECK_DEADLOCK FALSE

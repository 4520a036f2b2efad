CONSTANTS
  Files = {"f"}
  Text = {1, 2}
  MaxTurn = 1
  MaxLines = 2
  MaxCrashes = 0
  ExternalDuringCalls = FALSE
SPECIFICATION WsSpec
PROPERTIES RewindExact

SPECIFICATION ChatSpec
CONSTANTS
  Msgs = {a, b}
  MaxLen = 2
  MaxRequest = 1
  Lingers = FALSE
  MaxSends = 4
  MaxFaults = 2
INVARIANTS AnsweredForTranscript
CHECK_DEADLOCK FALSE

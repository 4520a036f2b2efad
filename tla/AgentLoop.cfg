CONSTANTS
  MaxPrompts = 2
  MaxCalls = 2
  MAX_ITERS = 2
  MAX_LENGTH_RECOVERIES_PER_TURN = 1
  MAX_UNCONFIRMED_TOOL_RECOVERIES_PER_TURN = 1
  CompletionReview = TRUE
  HasDeadline = TRUE
  BatchBodies = {"ok"}
  Costs = {1}
SPECIFICATION FairSpec
INVARIANTS AnsweredInPlace RequestsWellFormed TranscriptTells
PROPERTIES TurnsEnd

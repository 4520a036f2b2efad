CONSTANTS
  ActionCap = 1
  DriverCap = 1
  FeedbackCap = 1
  MaxPrompts = 2
  MaxInputs = 1
  MaxCancels = 1
  MaxAsks = 1
  HasTimeout = TRUE
  Watchdog = TRUE
SPECIFICATION FairSpec
INVARIANTS DriverInStep NobodyStranded
PROPERTIES HostIsServed

SPECIFICATION Spec
CONSTANTS
  \* SessionLog
  MaxTurns = 5
  MaxCrashes = 2
  \* Launcher
  SessionIds = {"s1", "s2"}
  AgentModes = {"default", "plan", "auto"}
  DefaultModes = {"default", "auto"}
  Cycle <- MCCycle
  Keys = {"k1"}
  ActionsCap = 1
  DriverCap = 1
  MaxSteps = 4
  \* Headless
  CallIds = {"c"}
  Earlier <- MCEarlier
  MaxOwn = 3
  MaxFaults = 2
  \* Settings
  Models = {"m0", "m1", "m2"}
  Default = "m0"
  Modes <- MCModes
  Layers <- MCLayers
  MaxSaves = 2
  \* Transcript
  Calls = {"c1", "c2"}
  Edits = {"c2"}
  Body = 2
  Height = 2
  Histories <- SomeHistories
  MaxOwners = 4
  \* Composer
  MaxChars = 3
  MaxBursts = 3
  MaxDraft = 4
  MaxFull = 1
  PastedTabs = FALSE
  \* Layout
  SourceLines <- MCLines
  Viewports = {2, 9, 11, 13, 19, 21}
  MaxLines = 3
INVARIANTS LogSurvives ModesAgree ArtifactsSound 
INVARIANTS ScreenSound PasteStaysWhole LayoutSound
CHECK_DEADLOCK FALSE

SPECIFICATION Spec
CONSTANTS
  \* Provider
  MaxRetries = 1
  MaxZero = 1
  Lines <- MCLines
  MaxLines = 3
  MaxCompletions = 1
  \* DlrChat
  Msgs = {a, b}
  MaxLen = 2
  MaxRequest = 2
  Lingers = FALSE
  MaxSends = 4
  MaxFaults = 2
  \* DlrStore
  Sessions = {"s", "t"}
  BlockIds = {"a", "b"}
  Batches <- SomeBatches
  MaxRecords = 2
  MaxLog = 2
  MaxLost = 1
  MaxCrashes = 1
  \* Dedup
  Shims = {"s", "t"}
  DedupIds = {1, 5, 6, 13}
  IdHash <- SomeHash
  FpHash <- SomeFpHash
  FPS = 8
  GOLDEN64 = 21
  SLOTS = 1
  KICKS = 2
  FirstBuckets = 4
  MaxBuckets = 8
  MaxIngests = 4
  \* Mmr
  LeafIds = {1, 2}
  MaxLeaves = 9
  \* Fountain
  SIZE = 4
  POLY = 7
  NIBBLE = 2
  LANES = 2
  K = 3
  S = 3
  REPAIR = 2
  Bodies <- SomeBodies
  Draws <- SomeDraws
  MaxFrames <- SomeFrames
INVARIANTS NegativeIsDefinite ProofsExact CallsAsSent ReplaySound AnsweredForTranscript StoreSound DecodesWhatWasSent
CHECK_DEADLOCK FALSE

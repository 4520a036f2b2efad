CONSTANTS
  EVENT_QUEUE_CAP = 1
  STREAM_CHUNK_CAP = 2
  Senders = {s1, s2}
  MaxSends = 3
  s1 = s1
  s2 = s2
SPECIFICATION FairSpec
INVARIANTS QueueSound
PROPERTIES NoLostWakeup

CONSTANTS
  EVENT_QUEUE_CAP = 1
  STREAM_CHUNK_CAP = 1
  Senders = {s1, s2}
  MaxSends = 1
  s1 = s1
  s2 = s2
SPECIFICATION Spec
INVARIANT EndMeansDrained

SPECIFICATION MCSpec
CONSTANTS
  w1 = w1
  w2 = w2
  Writers = {w1, w2}
  Owner = owner
  Nobody = nobody
  MaxSends = 3
  MaxBatch = 2
  Limits = {1}
  Exists = TRUE
  MaxUnlinks = 1
  MaxCrashes = 1
INVARIANTS AtMostOnce LostOnlyByChurn
PROPERTIES ImplementsPostbox EventuallyHandled
CHECK_DEADLOCK FALSE

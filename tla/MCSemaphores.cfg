\* Timed waits on one semaphore by up to three threads.
SPECIFICATION SSpec
CONSTANTS
  none = none
  NumSlots = 3
  StackSlots = 3
  Delays <- MCDelays
  Needs <- MCNeeds
  NoNeed = none
  MaxId = 2
  MaxSeq = 2
  MaxTime = 1
  NumSemas = 1
  Observed = 1
  MaxCount = 2
INVARIANT STypeOK
PROPERTIES CountExceedsOnlyByExpiry LeftBehindOnlyByDesertion ImplementsFifo
CHECK_DEADLOCK FALSE

\* One flag, three threads; waits with and without timeout.
SPECIFICATION ESpec
CONSTANTS
  none = none
  a = a
  b = b
  NumSlots = 3
  StackSlots = 3
  Delays <- MCDelays
  Needs <- MCNeeds
  NoNeed = none
  MaxId = 2
  MaxSeq = 2
  MaxTime = 1
  NumFlags = 1
  Bits <- MCBits
INVARIANTS ETypeOK NobodyLeftBehind CopiesFresh
PROPERTIES SameNeedsInOrder BitsTakenOnce
CHECK_DEADLOCK FALSE

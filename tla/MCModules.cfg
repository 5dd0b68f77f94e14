\* Three threads that share one import stub and three thread ids: a caller and
\* a part of a module it asked for, with room for a second part, or for another
\* thread that starts, stops and unloads the module or terminates the caller; and
\* a fourth slot without a stack window.
SPECIFICATION MSpec
CONSTANTS
  none = none
  whole = whole
  silent = silent
  NumSlots = 4
  StackSlots = 3
  Delays <- MCDelays
  Needs <- MCNeeds
  NoNeed = none
  MaxId = 3
  MaxSeq = 1
  MaxTime = 1
  ModuleSlots = 1
  Files <- MCFiles
  Starting <- MCBoth
  Stopping <- MCBoth
  MaxModule = 1
INVARIANTS ThreadIdsUnique EndWaitersHaveTarget WaitersAreBack PartsFollowOneAnother
PROPERTIES OthersMovedOnlyAtStub CallsReturnWhenOver
CHECK_DEADLOCK FALSE

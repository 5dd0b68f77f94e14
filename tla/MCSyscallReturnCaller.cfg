\* Two threads at the same stub, one preempted there.
SPECIFICATION RSpec
CONSTANTS
  none = none
  NumSlots = 3
  StackSlots = 3
  Delays <- MCDelays
  Needs <- MCNeeds
  NoNeed = none
  MaxId = 2
  MaxSeq = 2
  MaxTime = 2
INVARIANT ReturnsToCaller
CHECK_DEADLOCK FALSE

\* Three threads, a quantum of two blocks (a thread can give up the CPU before
\* its quantum is over, in its last block, or not at all), and two timed waits,
\* which can be pending, and overdue, at the same time.  Two ids are handed out:
\* the second thread may take the slot of the first.
SPECIFICATION FairSpec
CONSTANTS
  none = none
  NumSlots = 3
  StackSlots = 3
  Delays <- MCDelays
  Needs <- MCNeeds
  NoNeed = none
  MaxId = 2
  MaxSeq = 2
  MaxTime = 2
  Quantum = 2
INVARIANTS TypeOK OneRunningThread TimedWaitsCounted
PROPERTIES ReadyThreadsRun ExpiredWaitsEnd
CHECK_DEADLOCK FALSE

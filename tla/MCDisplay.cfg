\* Two ticks to a vertical blank, which may be looked at three ticks late, so
\* that two have passed; a counter that wraps at three; one framebuffer whose
\* content the program changes and one address without memory.
SPECIFICATION DSpec
CONSTANTS
  Period = 2
  MaxLate = 3
  Wrap = 3
  Contents <- MCContents
  Buffer = "buffer"
  Nowhere = "nowhere"
  Nothing = Nothing
INVARIANTS NothingOlderShown CounterKeepsTime
PROPERTY WaitsAndFramesEnd
CHECK_DEADLOCK FALSE

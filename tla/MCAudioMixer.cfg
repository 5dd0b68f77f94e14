\* One channel whose ring holds three stereo frames or six mono ones; blocks of
\* one or two frames, so that the ring fills up and wraps inside a block.
SPECIFICATION FairMSpec
CONSTANTS
  NumChannels = 1
  Rate = 3
  Counts <- MCCounts
  Chunk = 1
INVARIANT MTypeOK
PROPERTIES CallsReturn ImplementsQueues

\* All instructions; a thread ends, so there are final states.
SPECIFICATION HSpec
CONSTANTS
  Base = 10
  EndTrap = 30
  DataWord = 40
  NumCells = 5
  PlainOps = {"int", "swap", "vfpu"}
  JumpOps = {"branch", "fbranch", "likely", "call", "callp", "ret", "stub"}
  Targets = {0, 2, 4}
  Forced = {3}
  SlotsApart = TRUE
  ZeroApart = TRUE
  DataApart = TRUE
  Cells <- MCCells
  Images <- MCImages
  Pointers <- MCPointers
PROPERTY ImplementsAllegrex
CHECK_DEADLOCK FALSE

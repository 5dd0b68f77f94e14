\* Lists whose subroutines jump, call and return; the history holds eleven
\* commands: three calls of a subroutine of two commands are nine.
SPECIFICATION FairGSpec
CONSTANTS
  MainCells = 3
  SubCells = 2
  MaxDepth = 2
  MaxSteps = 11
  Programs <- MCPrograms
INVARIANTS GTypeOK StallsLeaveNoTrace
PROPERTY CallsReturn

\* A half of four bits; eighty-eight words of user memory from the load base:
\* up to three modules behind the program, two of them registered at a time, and
\* a fallback table for two NIDs.
SPECIFICATION LSpec
CONSTANTS
  Half = 16
  UserStart = 64
  UserEnd = 160
  LoadBase = 72
  FirstModule = 96
  Programs <- MCPrograms
  Files <- MCFiles
  Known <- MCKnown
  MaxFallbacks = 2
  ModuleSlots = 2
  MaxModule = 3
INVARIANTS AddressesMoved ModulesLinked
PROPERTY CodeKept
CHECK_DEADLOCK FALSE

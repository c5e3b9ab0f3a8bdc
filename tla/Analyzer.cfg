SPECIFICATION ProgramSpec
CONSTANTS
  N = 2
  High <- Second
  Programs <- Every
  MaxRuns = 3
  MaxFaults = 2
INVARIANTS
  ReadsAreClean
  PassesCompare
  InputProtected
CHECK_DEADLOCK FALSE

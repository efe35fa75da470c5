\* A stream that breaks off.
SPECIFICATION Spec
CONSTANTS
  Paths <- MCIdlePaths
  MaxRecords = 3
INVARIANTS BreakSurfaces
CHECK_DEADLOCK FALSE

\* An error answer whose body stalls.
SPECIFICATION FairSpec
CONSTANTS
  Paths <- MCIdlePaths
  MaxRecords = 1
PROPERTIES ErrorBodyEnds
CHECK_DEADLOCK FALSE

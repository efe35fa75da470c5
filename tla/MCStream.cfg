\* Three records and the end of the body, on every path.
SPECIFICATION FairSpec
CONSTANTS
  Paths <- MCPaths
  MaxRecords = 3
INVARIANTS TypeOK SameProtocolVerbatim TextFaithful StopReasonFaithful
PROPERTIES KeepsGrammar StreamsEnd
CHECK_DEADLOCK FALSE

SPECIFICATION FairSpec
CONSTANTS
  b1 = b1
  b2 = b2
  Backends = {b1, b2}
  Models = {"large"}
  SuspectBuffer = 1
  LatencyWindow = 2
  Latencies = {1}
  Loads = {0}
INVARIANTS TypeOK MedianOfWindow
PROPERTIES CatalogSurvives RoundsDecide LostIsMadeUpFor RotationConverges

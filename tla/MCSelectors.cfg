\* The program stops when it refuses its file or has no proxy alias.
SPECIFICATION Spec
CONSTANTS
  b1 = b1
  b2 = b2
  b3 = b3
  Backends <- MCBackends
  Models = {"large"}
  Protocols <- MCProtocols
  ProtocolOf <- MCProtocolOf
  Aliases = Aliases
  MaxQuality = 2
  Files <- MCFiles
  Fleets <- MCFleets
  Overrides <- MCOverrides
  CounterWidth = 4
INVARIANTS TypeOK SortedByPrecedence ConfigServes
CHECK_DEADLOCK FALSE

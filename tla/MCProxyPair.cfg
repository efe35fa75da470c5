\* Two requests, two backends.
SPECIFICATION Spec
CONSTANTS
  b1 = b1
  b2 = b2
  r1 = r1
  r2 = r2
  Requests = {r1, r2}
  Backends <- MCBackends
  Models = {"large"}
  Protocols = {"openai"}
  ProtocolOf <- MCProtocolOf
  Aliases <- MCAliases
  MaxQuality = 0
  Inputs <- MCInputs
  Snapshots <- MCSnapshots
  UpstreamStatuses = {200, 503}
  MaxAttempts = 2
  CounterWidth = 4
SYMMETRY RequestSymmetry
INVARIANTS InFlightAccounts AliasRotationSpreads

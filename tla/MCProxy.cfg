\* One request, four backends.
SPECIFICATION FairSpec
CONSTANTS
  b1 = b1
  b2 = b2
  b3 = b3
  b4 = b4
  r1 = r1
  Requests = {r1}
  Backends <- MCBackends
  Models <- MCModels
  Protocols <- MCProtocols
  ProtocolOf <- MCProtocolOf
  Aliases <- MCAliases
  MaxQuality = 2
  Inputs <- MCInputs
  Snapshots <- MCSnapshots
  UpstreamStatuses = {99, 200, 201, 429, 503}
  MaxAttempts = 3
  CounterWidth = 8
INVARIANTS TypeOK SingleResponse ProvenanceTruthful FailoverBudget BlameExactly RefusalJustified 
PROPERTIES  AnswersOnce RequestsEnd

\* One request for a council of three.
SPECIFICATION FairSpec
CONSTANTS
  b1 = b1
  b2 = b2
  r1 = r1
  Requests = {r1}
  Backends <- MCBackends
  Models <- MCModels
  Councils <- MCCouncils
  Snapshots <- MCSnapshots
  UpstreamStatuses = {99, 200, 429}
INVARIANTS TypeOK GaugesExact QuorumRespected OnlySynthesisShown
PROPERTIES PanelConcludes
CHECK_DEADLOCK FALSE

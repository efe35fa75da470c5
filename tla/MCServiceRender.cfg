SPECIFICATION Spec
CONSTANTS
  b1 = b1
  r1 = r1
  r2 = r2
  Backends = {b1}
  Requests = {r1, r2}
  Mixes <- MCMixes
  QueueSize = 1
  Retries = 1
  Rejections = {400}
  Heads = {200}
  GatewayErrors = {502}
INVARIANTS OwnerOutlivesScrapes

SPECIFICATION Spec
CONSTANTS
  o1 = o1
  w1 = w1
  w2 = w2
  d1 = d1
  d2 = d2
  None = None
  Op = {o1}
  WebhookOps = {}
  Worker = {w1, w2}
  Target = {1, 2}
  Digest = {d1, d2}
  Ttl = 1
  MaxAge = 0
  MaxCrashes = 2
SYMMETRY Symmetry
INVARIANTS
  OneSlotPerOperation
  FailoverIsClean
  OneBuildPerOperation
PROPERTIES
  DigestsAreFinal

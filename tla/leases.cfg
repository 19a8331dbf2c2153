SPECIFICATION Spec
CONSTANTS
  o1 = o1
  o2 = o2
  w1 = w1
  d1 = d1
  None = None
  Op = {o1, o2}
  WebhookOps = {o1, o2}
  Worker = {w1}
  Target = {1}
  Digest = {d1}
  Ttl = 2
  MaxAge = 1
  MaxCrashes = 1
SYMMETRY Symmetry
PROPERTIES
  FencedPublication
  LeavesNoLease
  RefusalIsHonest

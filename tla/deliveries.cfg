SPECIFICATION Spec
CONSTANTS
  None = None
  first = first
  second = second
  again = again
  c1 = c1
  c2 = c2
  Delivery <- MCDelivery
  Commit <- MCCommit
  Event <- SameDayEvent
  Target = {"web"}
  KeepNewest = 1
  MaxOps = 3
  MaxActs = 1
  MaxCrashes = 1
INVARIANTS
  DeployedIsServed
  OneOperationPerCommit

  
  
CHECK_DEADLOCK FALSE

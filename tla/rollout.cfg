SPECIFICATION Spec
CONSTANTS
  None = None
  i1 = i1
  i2 = i2
  i3 = i3
  Image <- MCImage
  Broken <- MCBroken
  Asked <- MCAsked
  Before = i1
  Now = i2
  Replicas = 2
  MaxOps = 2
  MaxFaults = 1
  MaxEdits = 1
INVARIANTS
  BlastRadius
  OneOutOfService
  RecordedOnce
  

  
  
CHECK_DEADLOCK FALSE

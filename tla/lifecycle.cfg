SPECIFICATION Spec
CONSTANTS
  None = None
  s1 = s1
  s2 = s2
  Server <- MCServer
  MaxReplicas = 2
  MaxName = 3
  MaxFaults = 1
  MaxOps = 2
  MaxEdits = 2
SYMMETRY ServerSymmetry
INVARIANTS
  VolumeSingleWriter
  ActsAlone
PROPERTIES
  WokenStaysUp
CHECK_DEADLOCK FALSE

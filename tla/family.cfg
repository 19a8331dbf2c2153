SPECIFICATION Spec
CONSTANTS
  NoRequest = NoRequest
  Key <- MCKey
  MemberKey <- MCMemberKey
  MaxOps = 4
  MaxAttempts = 2
  Request <- FamilyRequest
  Shape <- FamilyShape
  Resource = {"container"}
  MaxConcurrent = 2
  NonOpKeys = {"app:7"}
  Submittable = {"stack", "redeploy"}
  OperatorActs = {"cancel", "retry"}
  MaxRoots = 2
  MaxFaults = 1
INVARIANTS
  ParentDoneMeansChildrenOver
  ChildrenAreUnique
  HoldersAreLive
PROPERTIES
  SerializesPerKey
  NoOvertaking
CHECK_DEADLOCK FALSE

SPECIFICATION FairSpec
CONSTANTS
  NoRequest = NoRequest
  Key <- MCKey
  MemberKey <- MCMemberKey
  MaxOps = 3
  MaxAttempts = 2
  Request <- FamilyRequest
  Shape <- FamilyShape
  Resource = {"container"}
  MaxConcurrent = 1
  NonOpKeys = {}
  Submittable = {"stack", "redeploy"}
  OperatorActs = {"cancel"}
  MaxRoots = 2
  MaxFaults = 1
PROPERTIES
  EveryOperationSettles
CHECK_DEADLOCK FALSE

SPECIFICATION Spec
CONSTANTS
  NoRequest = NoRequest
  Key <- MCKey
  MemberKey <- MCMemberKey
  MaxOps = 3
  MaxAttempts = 2
  Request <- TeardownRequest
  Shape <- TeardownShape
  Resource = {}
  MaxConcurrent = 2
  NonOpKeys = {}
  Submittable = {"teardown", "stack"}
  OperatorActs = {"finalize"}
  MaxRoots = 2
  MaxFaults = 1
PROPERTIES
  FencedChildStaysDown
CHECK_DEADLOCK FALSE

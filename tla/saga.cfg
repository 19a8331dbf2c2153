SPECIFICATION Spec
CONSTANTS
  NoRequest = NoRequest
  Key <- MCKey
  MemberKey <- MCMemberKey
  MaxOps = 2
  MaxAttempts = 2
  Request <- SagaRequest
  Shape <- SagaShape
  Resource = {"volume", "container"}
  MaxConcurrent = 2
  NonOpKeys = {}
  Submittable = {"deploy", "redeploy", "legacy"}
  OperatorActs = {"cancel", "retry"}
  MaxRoots = 2
  MaxFaults = 2
INVARIANTS
  CompensatedIsComplete
  NoForwardAfterRollback
  OnlyOwedStepsRun
PROPERTIES
  
  NoNewStepAfterCancel
CHECK_DEADLOCK FALSE

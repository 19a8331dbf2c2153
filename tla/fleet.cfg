SPECIFICATION Spec
CONSTANTS
  fresh = fresh
  stored = stored
  plain = plain
  s1 = s1
  s2 = s2
  s3 = s3
  ours = ours
  theirs = theirs
  unused = unused
  asked = asked
  App <- MCApp
  Server <- MCServer
  Old <- MCOld
  Own <- MCOwn
  Pool <- MCPool
  Want <- MCWant
  Home <- MCHome
  Portable <- MCPortable
  Submittable = {"deploy", "migrate", "provision", "destroy", "destroyApp"}
  None = None
  MaxFaults = 2
  MaxRequests = 2
 
PROPERTIES ForgetsNoMachine CompensatedDeployIsGone  ClaimedPortIsFree
CHECK_DEADLOCK FALSE

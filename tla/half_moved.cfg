SPECIFICATION Spec
CONSTANTS
  fresh = fresh
  stored = stored
  plain = plain
  s1 = s1
  s2 = s2
  s3 = s3
  ours = ours
  theirs = theirs
  unused = unused
  asked = asked
  App <- MCApp
  Server <- MCServer
  Old <- MCOld
  Own <- MCOwn
  Pool <- MCPool
  Want <- MCWant
  Home <- MCHome
  Portable <- MCPortable
  Submittable = {"migrate"}
  None = None
  MaxFaults = 1
  MaxRequests = 2

PROPERTIES ResumedMigrationServes
CHECK_DEADLOCK FALSE

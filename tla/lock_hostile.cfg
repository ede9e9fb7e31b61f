SPECIFICATION FairSpec
CONSTANTS
  s1 = s1
  s2 = s2
  s3 = s3
  Schedulers = {s1, s2, s3}
  Faults = {"crash", "stop", "slowSweep", "redisError", "lostReply"}
  MaxFaults = 4
INVARIANTS
  TypeOK
  LeadersHoldTheLock
PROPERTIES
  LockIsReturned

SPECIFICATION FairSpec
CONSTANTS
  c1 = c1
  c2 = c2
  Conns = {c1, c2}
  Shapes <- CoreShapes
  Rows = {"q"}
  Dead = {"d"}
  Owner <- OwnerOf
  MaxJobs = 1
  Attempts = 2
  ApiFaults = {"dbDown", "signal", "crash", "dbError", "lostAck", "hangUp"}
  MaxFaults = 2
INVARIANTS
  TypeOK
  OneJobPerKey
  PoolClosesLast
  WritesAreVouched
  ReplaysAreRecorded
PROPERTIES
  ShutdownEnds
  KeyedEnqueueArrives

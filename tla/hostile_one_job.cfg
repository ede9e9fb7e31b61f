SPECIFICATION Spec
CONSTANTS
  j1 = j1
  j2 = j2
  w1 = w1
  w2 = w2
  Jobs = {j1}
  Queues = {"q"}
  Workers = {w1, w2}
  QueueOf <- OneQueueOf
  Limit <- LimitOne
  MaxRetries <- OneRetry
  Subscribed <- AllSubscribed
  Schedulers = {"s1", "s2"}
  BatchLimit = 1
  JobKinds = {"immediate", "deferred", "cron"}
  Requests = {"r1", "r2"}
  Disturbances = {"crash", "stop", "drainTimeout", "quickRestart", "suspect", "sweepGap", "dbError", "lostAck", "pause", "manualRetry"}
  MaxDisturbances = 2
SYMMETRY WorkerSymmetry
INVARIANTS
  TypeOK
  LedgerMatchesJobs
  DeadLettersAreExhausted
PROPERTIES
  DeadLettersArePermanent

SPECIFICATION Spec
CONSTANTS
  j1 = j1
  j2 = j2
  w1 = w1
  w2 = w2
  Jobs = {j1}
  Queues = {"q"}
  Workers = {w1, w2}
  QueueOf <- OneQueueOf
  Limit <- LimitOne
  MaxRetries <- OneRetry
  Subscribed <- AllSubscribed
  Schedulers = {"s"}
  BatchLimit = 1
  JobKinds = {"immediate"}
  Requests = {}
  Disturbances = {"stop", "drainTimeout"}
  MaxDisturbances = 2
SYMMETRY WorkerSymmetry
INVARIANTS
  NoStrandedJob

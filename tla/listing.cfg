SPECIFICATION Spec
CONSTANTS
  Ids = {1, 2, 3}
  Statuses = {"QUEUED", "FAILED"}
  Filters = {"all", "FAILED"}
  PageSize = 1
  HostOffset = 0
  MaxNow = 2
  MaxChanges = 2
  MaxStack = 3
  MaxFlights = 2
INVARIANTS
  TypeOK
  NothingIsSkipped
  WalksAreComplete

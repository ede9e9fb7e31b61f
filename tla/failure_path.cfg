SPECIFICATION Spec
CONSTANTS
  Second = 6
  Strategies = {"FIXED", "LINEAR", "EXPONENTIAL"}
  Base = 5
  MaxRetryDelay = 19
  MaxRetries = 3
  ExecTimeout = 2
  SweepInterval = 5
  IdleDelay = 8
  PollInterval = 3
  BackoffMax = 10
  AiTimeout = 3
  BodyTimeout = 4
  MaxPieces = 3
  MaxNow = 150
INVARIANTS
  TypeOK
  RetriesAreSpaced
  RetriesArePrompt
  DeadLettersAreInTime
  AnalysisIsUsable

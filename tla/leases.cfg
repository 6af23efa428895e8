SPECIFICATION Spec
CONSTANTS
  Lease = 3
  BeatEvery = 2
  BeatTime = 1
  ReapEvery = 2
  ReapTime = 1
  RetryDelay = 2
  MaxAttempts = 3
  Punctual <- LastPunctual
  Horizon = 60
VIEW View
CHECK_DEADLOCK FALSE
INVARIANTS TypeOK ReservationMatchesJob PunctualKeepsAttempt DeadFoundInTime QueuedRecoveredInTime ListedOnce

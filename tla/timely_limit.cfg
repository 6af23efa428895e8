SPECIFICATION Spec
CONSTANTS
  j1 = j1
  j2 = j2
  t1 = t1
  k1 = k1
  NoKey = NoKey
  Key <- OneKey
  Job <- TwoJobs
  Tenant <- OneTenant
  TenantOf <- OneTenantOf
  KeyOf <- NoKeys
  MaxConcurrent <- LimitOne
  MaxRetries = 1
  Faults <- SlowRecovery
  Delayed <- NoJob
CHECK_DEADLOCK FALSE
SYMMETRY Symmetry
INVARIANTS CounterExact ConcurrencyLimit RunningIsCurrent DeadLetterMeansFailed
PROPERTIES SettledStaysSettled LegalTransitions

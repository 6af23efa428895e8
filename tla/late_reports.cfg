SPECIFICATION Spec
CONSTANTS
  j1 = j1
  j2 = j2
  t1 = t1
  k1 = k1
  NoKey = NoKey
  Key <- OneKey
  Job <- TwoJobs
  Tenant <- OneTenant
  TenantOf <- OneTenantOf
  KeyOf <- NoKeys
  MaxConcurrent <- LimitTwo
  MaxRetries = 1
  Faults <- LateReports
  Delayed <- NoJob
CHECK_DEADLOCK FALSE
SYMMETRY Symmetry
CONSTRAINTS SmallBatches PromptRequests
INVARIANTS TypeOK SlotsMatchStatus NoSlotLeak RetryBudget AttemptsNumbered FailedIsDeadLettered

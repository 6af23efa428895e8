SPECIFICATION FairSpec
CONSTANTS
  j1 = j1
  j2 = j2
  t1 = t1
  k1 = k1
  NoKey = NoKey
  Key <- OneKey
  Job <- TwoJobs
  Tenant <- OneTenant
  TenantOf <- OneTenantOf
  KeyOf <- NoKeys
  MaxConcurrent <- LimitOne
  MaxRetries = 1
  Faults <- ApiCrashes
  Delayed <- SecondJob
CHECK_DEADLOCK FALSE
PROPERTIES EverySettled

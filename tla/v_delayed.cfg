SPECIFICATION FairSpec
CONSTANTS
  j1 = j1
  j2 = j2
  t1 = t1
  k1 = k1
  NoKey = NoKey
  Key <- OneKey
  Job <- OneJob
  Tenant <- OneTenant
  TenantOf <- OneTenantOf
  KeyOf <- NoKeys
  MaxConcurrent <- LimitOne
  MaxRetries = 0
  Faults <- NoFaults
  Delayed <- AllJobs
CHECK_DEADLOCK FALSE
PROPERTY ReadyIsDispatched

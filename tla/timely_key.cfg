SPECIFICATION Spec
CONSTANTS
  j1 = j1
  j2 = j2
  t1 = t1
  k1 = k1
  NoKey = NoKey
  Key <- OneKey
  Job <- TwoJobs
  Tenant <- OneTenant
  TenantOf <- OneTenantOf
  KeyOf <- SharedKey
  MaxConcurrent <- LimitTwo
  MaxRetries = 1
  Faults <- IndexFaults
  Delayed <- AllJobs
CHECK_DEADLOCK FALSE
SYMMETRY Symmetry
INVARIANTS LocksMatchSlots ExclusiveExecution
PROPERTIES ImplementsContract StrandsAreKnown ReturnedIsListed

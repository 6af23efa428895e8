SPECIFICATION FairSpec
CONSTANTS
  a1 = a1
  a2 = a2
  a3 = a3
  b1 = b1
  ta = ta
  tb = tb
  NoTenant = NoTenant
  Job <- FourJobs
  Tenant <- OneTenant
  TenantOf <- OneOwner
  Priority <- Ranks
  Exclusive <- KeyShared
  NoObject <- ListPayload
  Limits <- RaisedAndLowered
  Instant = {1, 2}
  AvailableAt <- EarlierOrLater
  CandidateLimit = 1
  Batch = 100
  MaxRequests = 1
  MaxReturns = 1
  Run = {r1}
CHECK_DEADLOCK FALSE
INVARIANTS TypeOK
PROPERTIES NoOvertaking OverLimitOnlyDrains ReadyIsServed

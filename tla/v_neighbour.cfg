SPECIFICATION FairSpec
CONSTANTS
  a1 = a1
  a2 = a2
  a3 = a3
  b1 = b1
  ta = ta
  tb = tb
  NoTenant = NoTenant
  Job <- TwoJobs
  Tenant <- TwoTenants
  TenantOf <- TwoOwners
  Priority <- Ranks
  Exclusive <- NoKeys
  NoObject <- ListPayload
  Limits <- LimitOne
  Instant = {1, 2}
  AvailableAt <- EarlierOrLater
  CandidateLimit = 10
  Batch = 100
  MaxRequests = 2
  MaxReturns = 1
  Run = {r1, r2}
CHECK_DEADLOCK FALSE
PROPERTIES NeighbourIsServed

SPECIFICATION FairSpec
CONSTANTS
  p1 = p1
  p2 = p2
  p3 = p3
  j1 = j1
  j2 = j2
  j3 = j3
  t1 = t1
  t2 = t2
  Process <- ThreeProcesses
  Job <- ThreeJobs
  Tenant <- TwoTenants
  TenantOf <- PairAndOne
  Duties <- Roles
  Exclusive <- PairShares
CHECK_DEADLOCK FALSE
INVARIANTS TypeOK DeadlocksAreKnown KeylessNeverAborted
PROPERTIES EveryTransactionEnds

\* A provisioned tenant: the final approval is never applied.
SPECIFICATION FairSpec
CONSTANTS
  l1 = l1
  l2 = l2
  j1 = j1
  j2 = j2
  j3 = j3
  Leaves = {l1}
  Jobs = {j1, j2}
  Levels = 2
  Days = {1}
  Provisioned = TRUE
  Endpoints = {}
  MaxDirect = 0
  MaxFaults = 0
  PoolSize = 10
CHECK_DEADLOCK FALSE
PROPERTY FinalApprovalApplied

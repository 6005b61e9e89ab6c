\* A provisioned tenant, two leaves, one fault, as many connections as handlers.
SPECIFICATION FairSpec
CONSTANTS
  l1 = l1
  l2 = l2
  j1 = j1
  j2 = j2
  j3 = j3
  Leaves = {l1, l2}
  Jobs = {j1, j2}
  Levels = 1
  Days = {1, 2}
  Provisioned = TRUE
  Endpoints = {"mgrApprove", "adminApprove", "cancel", "edit"}
  MaxDirect = 2
  MaxFaults = 1
  PoolSize = 2
CHECK_DEADLOCK FALSE
INVARIANTS
  ApprovedImpliesCharged
  UsedNeverExceedsCharged
 

\* A legacy tenant with one leave and every endpoint.
SPECIFICATION FairSpec
CONSTANTS
  l1 = l1
  l2 = l2
  j1 = j1
  j2 = j2
  j3 = j3
  Leaves = {l1}
  Jobs = {j1, j2}
  Levels = 2
  Days = {1, 2}
  Provisioned = FALSE
  Endpoints = {"mgrApprove", "adminApprove", "mgrReject", "adminReject", "cancel", "edit", "adminEdit", "editDocs"}
  MaxDirect = 3
  MaxFaults = 0
  PoolSize = 10
CHECK_DEADLOCK FALSE
INVARIANTS
  SerialMirrors
  ApprovedImpliesCharged
  UsedNeverExceedsCharged
PROPERTY FinalApprovalApplied

\* A provisioned tenant: four calls on one request.
SPECIFICATION Spec
CONSTANTS
  req = req
  mgr = mgr
  adm = adm
  Nobody = Nobody
  Calls = {c1, c2, c3, c4}
  Actors <- MCActors
  Requestor = req
  Roles <- MCRoles
  RoleOf <- MCRoleOf
  Chains <- MCChains
  Provisioned = TRUE
SYMMETRY Symmetry
INVARIANTS
  FullChain
  NoLevelSkipped
  AuditExplainsStatus
  UnracedDecidedOnce
PROPERTIES
  TerminalLeftOnlyByStale
  RefinesApprovalChain
CHECK_DEADLOCK FALSE

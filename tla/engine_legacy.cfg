\* A legacy tenant: three calls on one request.
SPECIFICATION Spec
CONSTANTS
  req = req
  mgr = mgr
  adm = adm
  Nobody = Nobody
  Calls = {c1, c2, c3}
  Actors <- MCActors
  Requestor = req
  Roles <- MCRoles
  RoleOf <- MCRoleOf
  Chains <- MCChains
  Provisioned = FALSE
SYMMETRY Symmetry
INVARIANTS
  TypeOK
  UnracedRowsAgree
PROPERTIES
  RefinesApprovalChain
CHECK_DEADLOCK FALSE

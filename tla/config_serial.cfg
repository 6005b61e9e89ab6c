\* A provisioned tenant: up to three admin calls, two of them cut off.
SPECIFICATION ConfigSpec
CONSTANTS
  Seeded = {s1, s2, s3}
  Admins = {c1, c2, c3}
  AdminOps = {"add", "update", "delete"}
  Transactional = TRUE
  MaxFaults = 2
SYMMETRY Symmetry
CHECK_DEADLOCK FALSE
INVARIANTS
  SerialContiguous

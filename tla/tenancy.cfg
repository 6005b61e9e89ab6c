\* One call that begins during another, two that fail, three writes.
SPECIFICATION Spec
CONSTANTS
  c1 = c1
  c2 = c2
  t1 = t1
  t2 = t2
  None = None
  Calls = {c1, c2}
  Tenants = {t1, t2}
  MaxWrites = 3
  MaxOverlaps = 1
  MaxFaults = 2
SYMMETRY Symmetry
CHECK_DEADLOCK FALSE
INVARIANTS
  UnracedOneTenant
  UnracedWritesKept
PROPERTY
  CompanyKeepsItsTenant

\* Two requests of any kind, two calls, one overlap, one fault, both modes.
SPECIFICATION FairSpec
CONSTANTS
  c1 = c1
  c2 = c2
  l1 = l1
  Calls = {c1, c2}
  Listeners = {l1}
  N = 2
  MaxOverlaps = 1
  MaxFaults = 1
CHECK_DEADLOCK FALSE
INVARIANTS
  UnracedDaysApart
  ApprovedByWorkflow
  UnracedAgree
PROPERTY VerdictCarriedOut

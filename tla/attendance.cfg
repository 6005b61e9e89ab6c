\* Four punches over two days, one call that begins during another.
SPECIFICATION Spec
CONSTANTS
  m1 = m1
  m2 = m2
  w1 = w1
  w2 = w2
  None = None
  N = 4
  MaxDay = 2
  MaxOverlaps = 1
  MaxFaults = 1
  MaxDecisions = 2
  Sheets = {w1, w2}
  Managers = {m1, m2}
SYMMETRY Symmetry
CHECK_DEADLOCK FALSE
INVARIANTS
  UnracedAlternate
  ReportMatchesSummary
  WorkEndsWithCheckOut
PROPERTY
  BulkKeepsVerdicts

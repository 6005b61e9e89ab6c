\* Two calls at a time, a lock after two wrong passwords of two.
SPECIFICATION FairSpec
CONSTANTS
  c1 = c1
  c2 = c2
  Calls = {c1, c2}
  MaxAttempts = 2
  MaxMisses = 2
  MaxOverlaps = 1
  MaxUpsets = 1
INVARIANTS
  NeverLockedEarly
  UnracedCount
PROPERTIES
  NothingUndone
  UsedInviteJoins

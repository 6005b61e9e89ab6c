\* Two requests for one email, a caller for webhooks and one for redirects; a
\* redirect, a refund, a fault, and a slow payment of one of the checkouts.
SPECIFICATION FairSpec
CONSTANTS
  r1 = r1
  r2 = r2
  k1 = k1
  k2 = k2
  None = None
  Requests = {r1, r2}
  Confirms = {k1, k2}
  Hooks = {k1}
  Slow = {r1}
  Provisioned = FALSE
  MaxRedirects = 1
  MaxRefunds = 1
  MaxFaults = 1
CHECK_DEADLOCK FALSE
INVARIANTS
  NoEmployeeUnpaid
  SuccessWasPaid
  TakenIsRecorded
PROPERTY PaidLeadsToEmployee

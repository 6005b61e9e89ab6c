-------------------------- MODULE MCLeaveApproval --------------------------
(* LeaveApproval with one or two leaves and two handlers at a time.        *)
EXTENDS LeaveApproval, TLC

CONSTANTS l1, l2, j1, j2, j3

Symmetry == Permutations(Jobs)
=============================================================================

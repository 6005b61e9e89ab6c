------------------------- MODULE MCEmployeeBilling -------------------------
(* EmployeeBilling with two requests for the same email.                   *)
EXTENDS EmployeeBilling, TLC

CONSTANTS r1, r2, k1, k2
=============================================================================

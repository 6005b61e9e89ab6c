--------------------------- MODULE MCUserAccount ---------------------------
(* UserAccount with two concurrent calls.                                  *)
EXTENDS UserAccount, TLC

CONSTANTS c1, c2
=============================================================================

--------------------------- MODULE MCDayRequests ---------------------------
(* DayRequests with two requests and two concurrent calls.                 *)
EXTENDS DayRequests, TLC

CONSTANTS c1, c2, l1
=============================================================================

---------------------------- MODULE MCAttendance ----------------------------
(* Attendance with two managers' decisions and two timesheets.              *)
EXTENDS Attendance, TLC

CONSTANTS m1, m2, w1, w2

Symmetry == Permutations({m1, m2}) \union Permutations({w1, w2})
=============================================================================

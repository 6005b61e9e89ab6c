-------------------------- MODULE MCLoginSessions --------------------------
(* LoginSessions with two concurrent calls and three rows.                 *)
EXTENDS LoginSessions, TLC

CONSTANTS c1, c2, t1, t2, t3

Symmetry == Permutations({c1, c2}) \union Permutations({t1, t2, t3})
=============================================================================

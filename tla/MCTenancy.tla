----------------------------- MODULE MCTenancy -----------------------------
(* Tenancy with two concurrent calls and two tenants.                      *)
EXTENDS Tenancy, TLC

CONSTANTS c1, c2, t1, t2

Symmetry == Permutations({c1, c2}) \union Permutations({t1, t2})
=============================================================================

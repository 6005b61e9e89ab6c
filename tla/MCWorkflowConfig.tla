-------------------------- MODULE MCWorkflowConfig --------------------------
(* WorkflowConfig with a few seeded steps and two or three admin calls.    *)
EXTENDS WorkflowConfig, TLC

Symmetry == Permutations(Seeded) \union Permutations(Admins)
=============================================================================

-------------------------- MODULE MCWorkflowEngine --------------------------
(* WorkflowEngine with two or three calls on chains of the shapes           *)
(* getConfigSteps returns: one level, manager then admin, and one whose     *)
(* middle step is inactive.                                                 *)
EXTENDS WorkflowEngine, TLC

CONSTANTS req, mgr, adm

MCActors == {req, mgr, adm}
MCRoles  == {"manager", "admin"}
MCRoleOf == (req :> "manager") @@ (mgr :> "manager") @@ (adm :> "admin")

OneLevel  == 1 :> "manager"
TwoLevels == (1 :> "manager") @@ (2 :> "admin")
GapLevels == (1 :> "manager") @@ (3 :> "admin")

MCChains == {OneLevel, TwoLevels, GapLevels}

Symmetry == Permutations(Calls)
=============================================================================

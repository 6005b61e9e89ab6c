---------------------------- MODULE ApprovalChain ----------------------------
(***************************************************************************)
(* What modules/workflow promises of one request, without rows, calls or   *)
(* transactions: verdicts are recorded level by level by eligible users,   *)
(* are never lost, and the outcome is one they justify.  An outcome is     *)
(* final unless two calls raced.                                           *)
(***************************************************************************)
EXTENDS Naturals

CONSTANTS Actors, Requestor, RoleOf, Chains

VARIABLES
  chain,      \* step_order -> approver_role
  decisions,  \* <<order, actor, verdict>>
  outcome,    \* "none", "open", "approved", "rejected" or "cancelled"
  raced       \* a call acted on a state that was no longer there

avars == <<chain, decisions, outcome, raced>>

Final == {"approved", "rejected", "cancelled"}

Qualified(a, l) == a # Requestor /\ RoleOf[a] = chain[l]

Passed(l, ds) == \E a \in Actors : Qualified(a, l) /\ <<l, a, "approved">> \in ds

\* The outcome o is one that the verdicts ds justify.
Justified(o, ds) ==
  /\ o = "approved" => \A l \in DOMAIN chain : Passed(l, ds)
  /\ o = "rejected" => \E t \in ds : t[3] = "rejected"

AInit ==
  /\ chain \in Chains
  /\ decisions = {}
  /\ outcome = "none"
  /\ raced = FALSE

File ==
  /\ outcome = "none"
  /\ outcome' = "open"
  /\ UNCHANGED <<chain, decisions, raced>>

\* The outcome follows the verdicts; a final one yields only to a race.
Settle ==
  /\ outcome # "none"
  /\ outcome' \in {"open"} \union Final
  /\ outcome' # outcome => Justified(outcome', decisions')
  /\ raced => raced'
  /\ outcome \in Final /\ ~raced' => outcome' = outcome

Review(l, a, v) ==
  /\ Qualified(a, l)
  /\ \A k \in 1 .. l : k < l => k \in DOMAIN chain /\ Passed(k, decisions)
  /\ outcome \in Final => raced'
  /\ decisions' = decisions \union {<<l, a, v>>}
  /\ Settle
  /\ UNCHANGED chain

Conclude ==
  /\ Settle
  /\ UNCHANGED <<chain, decisions>>

ANext ==
  \/ File
  \/ \E l \in DOMAIN chain, a \in Actors, v \in {"approved", "rejected"} : Review(l, a, v)
  \/ Conclude

ASpec == AInit /\ [][ANext]_avars
=============================================================================

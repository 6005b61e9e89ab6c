--------------------------- MODULE WorkflowEngine ---------------------------
(***************************************************************************)
(* One approval request of modules/workflow and the HTTP calls that race   *)
(* on it: createWorkflowRequest, actOnCurrentStep, cancelWorkflowRequest.  *)
(*                                                                         *)
(* A call is an async function: it reads the request with its steps,       *)
(* checks its guards on what it read, and writes later.  Nothing is locked *)
(* or versioned at the read (READ COMMITTED, no SELECT ... FOR UPDATE, no  *)
(* @VersionColumn).  A save() of TypeORM selects the rows again and sends  *)
(* an UPDATE of the columns that differ from that selection, so a save is  *)
(* two statements and another call may commit between them.                *)
(*                                                                         *)
(* A provisioned tenant runs each call in one transaction; a legacy tenant *)
(* commits every save on its own (runInTenantContext).                     *)
(***************************************************************************)
EXTENDS Naturals, FiniteSets

CONSTANTS
  Calls,        \* the calls made on the request, each made once
  Actors,       \* users who act on it
  Requestor,    \* the user who filed it
  Nobody,       \* approver_id = NULL
  Roles,        \* role names, compared without regard to case in the code
  RoleOf,       \* the role each actor's token carries
  Chains,       \* active configurations: step_order -> approver_role
  Provisioned   \* schema_provisioned of the tenant

ASSUME ActorsAssumption ==
  /\ Requestor \in Actors
  /\ Nobody \notin Actors
  /\ RoleOf \in [Actors -> Roles]

ASSUME ChainsAssumption ==
  \A ch \in Chains :
     /\ DOMAIN ch \subseteq Nat \ {0}
     /\ IsFiniteSet(DOMAIN ch)
     /\ DOMAIN ch # {}
     /\ ch \in [DOMAIN ch -> Roles]

ASSUME ProvisionedAssumption == Provisioned \in BOOLEAN

VARIABLES
  chain,      \* the configuration the request was created from
  db,         \* the committed request row and its step rows
  call,       \* what each call holds in memory and where it stands
  decisions,  \* history: <<order, actor, verdict>> ever committed in a step
  raced       \* history: a call wrote over a state it had not read

vars == <<chain, db, call, decisions, raced>>

-----------------------------------------------------------------------------
(* Values *)

Open     == {"pending", "in_review"}
Terminal == {"approved", "rejected", "cancelled"}
Status   == {"none"} \union Open \union Terminal   \* "none": no row yet
Verdicts == {"approved", "rejected"}
Ops      == {"approve", "reject", "cancel"}

Orders == DOMAIN chain
Total  == Cardinality(Orders)

PendingStep == [st |-> "pending", by |-> Nobody]
AbsentStep  == [st |-> "absent", by |-> Nobody]    \* row not inserted yet
StepRow     == [st : {"absent", "pending"} \union Verdicts,
                by : Actors \union {Nobody}]
Aggregate   == [status : Status, cur : Nat, steps : [Orders -> StepRow]]

NoRow == [status |-> "none", cur |-> 0, steps |-> [o \in Orders |-> AbsentStep]]

\* Row names for locks; step orders start at 1.
RequestRow == 0

InFlight == {"saveStep", "select", "update", "emit", "commit"}
PCs      == {"idle", "done", "failed"} \union InFlight

CallRecord == [pc      : PCs,
               op      : Ops \union {"none"},
               actor   : Actors \union {Nobody},
               read    : Aggregate,
               cols    : SUBSET {"status", "cur"},
               rows    : SUBSET Orders,
               audited : BOOLEAN,
               emitted : BOOLEAN]

IdleCall == [pc |-> "idle", op |-> "none", actor |-> Nobody, read |-> NoRow,
             cols |-> {}, rows |-> {}, audited |-> FALSE, emitted |-> FALSE]

-----------------------------------------------------------------------------
(* What a call has in memory *)

Verdict(op) == IF op = "approve" THEN "approved" ELSE "rejected"

\* Mutant: isLastStep is true one level too early.
MutLastStepEarly(r) == r.cur + 1 >= Total

IsLastStep(r) == r.cur >= Total

NextStatus(r, op) ==
  CASE op = "cancel" -> "cancelled"
    [] op = "reject" -> "rejected"
    [] OTHER         -> IF IsLastStep(r) THEN "approved" ELSE "in_review"

\* Mutant: a rejection advances the level as well.
MutRejectAdvances(r, op) == IF op # "cancel" /\ ~IsLastStep(r) THEN r.cur + 1 ELSE r.cur

NextCur(r, op) == IF op = "approve" /\ ~IsLastStep(r) THEN r.cur + 1 ELSE r.cur

\* Mutant: approver_id is given the actor's role.
MutActedByRole(r, op, a) ==
  IF op = "cancel" THEN r.steps
  ELSE [r.steps EXCEPT ![r.cur] = [st |-> Verdict(op), by |-> RoleOf[a]]]

ActedSteps(r, op, a) ==
  IF op = "cancel" THEN r.steps
  ELSE [r.steps EXCEPT ![r.cur] = [st |-> Verdict(op), by |-> a]]

\* The entity a call saves: what it read with its assignments applied.
Mem(c) ==
  LET k == call[c] IN
  [status |-> NextStatus(k.read, k.op),
   cur    |-> NextCur(k.read, k.op),
   steps  |-> ActedSteps(k.read, k.op, k.actor)]

\* d with the columns cols and the step rows of m written over it.
Overwrite(d, m, cols, rows) ==
  [status |-> IF "status" \in cols THEN m.status ELSE d.status,
   cur    |-> IF "cur" \in cols THEN m.cur ELSE d.cur,
   steps  |-> [o \in Orders |-> IF o \in rows THEN m.steps[o] ELSE d.steps[o]]]

\* What a statement of call c sees: the committed rows under its own writes.
Visible(c) ==
  IF Provisioned THEN Overwrite(db, Mem(c), {}, call[c].rows) ELSE db

\* Rows whose lock call c holds until its transaction ends.
Locks(c) ==
  IF ~Provisioned THEN {}
  ELSE CASE call[c].pc \in {"select", "update"} /\ call[c].op # "cancel" ->
              {call[c].read.cur}
         [] call[c].pc \in {"emit", "commit"} ->
              call[c].rows \union (IF call[c].cols = {} THEN {} ELSE {RequestRow})
         [] OTHER -> {}

Free(rows, c) == \A d \in Calls \ {c} : rows \intersect Locks(d) = {}

\* The verdicts recorded in the step rows of d.
DecisionsIn(d) ==
  {<<o, d.steps[o].by, d.steps[o].st>> :
     o \in {p \in Orders : d.steps[p].st \in Verdicts}}

\* Every change of committed rows goes through here; seen is the state the
\* writing call believes it is changing.
Store(d, seen) ==
  /\ db' = d
  /\ decisions' = decisions \union DecisionsIn(d)
  /\ raced' = (raced \/ seen # db)

-----------------------------------------------------------------------------
(* createWorkflowRequest: request row, then its steps.  One transaction on  *)
(* a provisioned tenant, two commits on a legacy one.                       *)

CreateRequest ==
  /\ db.status = "none"
  /\ db' = [status |-> "pending", cur |-> 1,
            steps  |-> [o \in Orders |->
                          IF Provisioned THEN PendingStep ELSE AbsentStep]]
  /\ UNCHANGED <<chain, call, decisions, raced>>

CreateSteps ==
  /\ db.status # "none"
  /\ \A o \in Orders : db.steps[o] = AbsentStep
  /\ db' = [db EXCEPT !.steps = [o \in Orders |-> PendingStep]]
  /\ UNCHANGED <<chain, call, decisions, raced>>

-----------------------------------------------------------------------------
(* actOnCurrentStep and cancelWorkflowRequest *)

Begin(c, op, a, pc) ==
  /\ call[c].pc = "idle"
  /\ call' = [call EXCEPT ![c] =
                [IdleCall EXCEPT !.pc = pc, !.op = op, !.actor = a, !.read = db]]
  /\ UNCHANGED <<chain, db, decisions, raced>>

\* Mutant: the self-approval check is missing.
MutMayActOnOwn(a) ==
  /\ db.status \in Open
  /\ db.cur \in Orders
  /\ db.steps[db.cur].st = "pending"
  /\ RoleOf[a] = chain[db.cur]

\* Mutant: the role check is missing.
MutMayActAnyRole(a) ==
  /\ db.status \in Open
  /\ db.cur \in Orders
  /\ db.steps[db.cur].st = "pending"
  /\ a # Requestor

\* Mutant: neither the request's nor the step's status is checked.
MutMayActTwice(a) ==
  /\ db.cur \in Orders
  /\ db.steps[db.cur].st # "absent"
  /\ a # Requestor
  /\ RoleOf[a] = chain[db.cur]

MayAct(a) ==
  /\ db.status \in Open
  /\ db.cur \in Orders
  /\ db.steps[db.cur].st = "pending"
  /\ a # Requestor
  /\ RoleOf[a] = chain[db.cur]

ActRead(c, a, op) ==
  /\ op \in {"approve", "reject"}
  /\ MayAct(a)
  /\ Begin(c, op, a, "saveStep")

\* Mutant: cancelWorkflowRequest does not check for a decision.
MutCancelDecided(c) ==
  /\ db.status # "none"
  /\ \A o \in Orders : db.steps[o] # AbsentStep
  /\ Begin(c, "cancel", Requestor, "select")

\* Callers reach cancel through the id createWorkflowRequest returned, so the
\* steps exist.  A request that is already cancelled passes the guard.
CancelRead(c) ==
  /\ db.status \notin {"none", "approved", "rejected"}
  /\ \A o \in Orders : db.steps[o] # AbsentStep
  /\ Begin(c, "cancel", Requestor, "select")

\* stepRepo.save(currentStep)
SaveStep(c) ==
  LET k == call[c].read.cur IN
  /\ call[c].pc = "saveStep"
  /\ Free({k}, c)
  /\ call' = [call EXCEPT ![c].pc = "select", ![c].rows = {k}]
  /\ IF Provisioned
     THEN UNCHANGED <<db, decisions, raced>>
     ELSE Store(Overwrite(db, Mem(c), {}, {k}), call[c].read)
  /\ UNCHANGED chain

\* requestRepo.save(workflowRequest), its SELECT: steps cascade, but a
\* cancel has not loaded them.
SelectDiff(c) ==
  LET v    == Visible(c)
      cols == (IF Mem(c).status # v.status THEN {"status"} ELSE {})
              \union (IF Mem(c).cur # v.cur THEN {"cur"} ELSE {})
      diff == IF call[c].op = "cancel" THEN {}
              ELSE {o \in Orders : Mem(c).steps[o] # v.steps[o]}
  IN
  /\ call[c].pc = "select"
  /\ call' = [call EXCEPT ![c].pc = "update", ![c].cols = cols,
                          ![c].rows = IF Provisioned THEN @ \union diff ELSE diff]
  /\ UNCHANGED <<chain, db, decisions, raced>>

\* What call c takes the committed state to be after its own step save.
Seen(c) ==
  IF Provisioned \/ call[c].op = "cancel" THEN call[c].read
  ELSE Overwrite(call[c].read, Mem(c), {}, {call[c].read.cur})

\* requestRepo.save(workflowRequest), its UPDATEs, then writeAudit, which
\* swallows its own failure.
Update(c, audited) ==
  /\ call[c].pc = "update"
  /\ Free(call[c].rows \union (IF call[c].cols = {} THEN {} ELSE {RequestRow}), c)
  /\ call' = [call EXCEPT ![c].pc = "emit", ![c].audited = audited]
  /\ IF Provisioned
     THEN UNCHANGED <<db, decisions, raced>>
     ELSE Store(Overwrite(db, Mem(c), call[c].cols, call[c].rows), Seen(c))
  /\ UNCHANGED chain

\* eventEmitter.emit: before the transaction commits.
Emit(c) ==
  /\ call[c].pc = "emit"
  /\ call' = [call EXCEPT ![c].emitted = TRUE,
                          ![c].pc = IF Provisioned THEN "commit" ELSE "done"]
  /\ UNCHANGED <<chain, db, decisions, raced>>

\* Mutant: the audit row is written on a connection of its own.
MutCommitUnaudited(c) ==
  /\ call[c].pc = "commit"
  /\ call' = [call EXCEPT ![c].pc = "done"]
  /\ Store(Overwrite(db, Mem(c), call[c].cols, call[c].rows), call[c].read)
  /\ UNCHANGED chain

\* commitTransaction; a failed audit insert has doomed the transaction.
Commit(c) ==
  /\ call[c].pc = "commit"
  /\ call[c].audited
  /\ call' = [call EXCEPT ![c].pc = "done"]
  /\ Store(Overwrite(db, Mem(c), call[c].cols, call[c].rows), call[c].read)
  /\ UNCHANGED chain

\* An error, a deadlock victim, a doomed transaction or a process crash.
Abort(c) ==
  /\ call[c].pc \in InFlight
  /\ call' = [call EXCEPT ![c].pc = "failed"]
  /\ UNCHANGED <<chain, db, decisions, raced>>

-----------------------------------------------------------------------------
Init ==
  /\ chain \in Chains
  /\ db = NoRow
  /\ call = [c \in Calls |-> IdleCall]
  /\ decisions = {}
  /\ raced = FALSE

CallStep(c) ==
  \/ \E a \in Actors, op \in Ops : ActRead(c, a, op)
  \/ CancelRead(c)
  \/ SaveStep(c)
  \/ SelectDiff(c)
  \/ \E ok \in BOOLEAN : Update(c, ok)
  \/ Emit(c)
  \/ Commit(c)
  \/ Abort(c)

Next ==
  \/ CreateRequest
  \/ CreateSteps
  \/ \E c \in Calls : CallStep(c)

Spec == Init /\ [][Next]_vars

-----------------------------------------------------------------------------
(* Properties *)

TypeOK ==
  /\ chain \in Chains
  /\ db \in Aggregate
  /\ call \in [Calls -> CallRecord]
  /\ decisions \subseteq Orders \X Actors \X Verdicts
  /\ raced \in BOOLEAN

Eligible(a, o) == a # Requestor /\ RoleOf[a] = chain[o]

ApprovedIn(o, ds) ==
  \E a \in Actors : Eligible(a, o) /\ <<o, a, "approved">> \in ds

\* However calls interleave, abort or tear the rows: a committed APPROVED
\* means that every level of the configuration the request was created from
\* was at some time approved by a user of that level's role who is not the
\* requestor (the guards of actOnCurrentStep on stale reads).
FullChain == db.status = "approved" => \A o \in Orders : ApprovedIn(o, decisions)

\* A verdict of level o was recorded by an eligible user, and only after
\* every level below o existed and had been approved.
NoLevelSkipped ==
  \A t \in decisions :
     /\ Eligible(t[2], t[1])
     /\ \A o \in 1 .. t[1] : o < t[1] => o \in Orders /\ ApprovedIn(o, decisions)

\* On a provisioned tenant every committed status other than the initial one
\* has a committed flex_request_audit row of a call that set it, although
\* writeAudit swallows its errors: the failed insert dooms the transaction.
AuditExplainsStatus ==
  Provisioned /\ db.status \notin {"none", "pending"} =>
     \E c \in Calls : /\ call[c].pc = "done" /\ call[c].audited /\ call[c].emitted
                      /\ Mem(c).status = db.status

\* A terminal status changes only by a call whose guards ran on another,
\* older status: a call that reads the terminal row never changes it.
TerminalLeftOnlyByStale ==
  [][db.status \in Terminal /\ db'.status # db.status =>
       \E c \in Calls : /\ call'[c] # call[c]
                        /\ call[c].read.status # db.status]_vars

\* When no call wrote over a state it had not read, request row and step rows
\* agree, also after aborted calls (legacy tenants: once no call is in
\* flight or was cut off between two saves).
Settled == Provisioned \/ \A c \in Calls : call[c].pc \in {"idle", "done"}

RowsAgree ==
  /\ \A o \in Orders : /\ o < db.cur => db.steps[o].st = "approved"
                       /\ o > db.cur => db.steps[o].st = "pending"
  /\ db.status \in Open /\ db.cur \in Orders => db.steps[db.cur] = PendingStep
  /\ db.status = "pending" => db.cur = 1
  /\ db.status = "approved" => db.cur = Total /\ db.steps[db.cur].st = "approved"
  /\ db.status = "rejected" => db.steps[db.cur].st = "rejected"

UnracedRowsAgree ==
  ~raced /\ Settled /\ (\E o \in Orders : db.steps[o] # AbsentStep) => RowsAgree

\* Without such a race the request is decided at most once: listeners of
\* REQUEST_APPROVED and REQUEST_REJECTED hear of at most one committed call.
Deciders == {c \in Calls : /\ call[c].pc = "done"
                           /\ Mem(c).status \in {"approved", "rejected"}}

UnracedDecidedOnce ==
  ~raced => \A c, d \in Deciders : c = d

\* The engine implements ApprovalChain: committed rows move only as recorded
\* verdicts justify, whatever the calls in flight hold in memory.
Abstract == INSTANCE ApprovalChain WITH
              outcome <- IF db.status \in Open THEN "open" ELSE db.status

RefinesApprovalChain == Abstract!ASpec
=============================================================================

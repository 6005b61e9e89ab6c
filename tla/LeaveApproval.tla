---------------------------- MODULE LeaveApproval ----------------------------
(***************************************************************************)
(* Leaves of one employee and leave type, the workflow requests that       *)
(* decide them and the balance row they are charged to (modules/leave and  *)
(* leave/listeners/workflow.listener.ts).                                  *)
(*                                                                         *)
(* The workflow emits events; EventEmitter2 listeners declared async start *)
(* later, run concurrently with everything else, and are never retried.    *)
(* Direct endpoints (approve, reject, cancel, edit) work on the same leave *)
(* rows whether or not a workflow decides the leave.  Every handler reads  *)
(* the row, assigns fields and saves the whole entity later.  One save is  *)
(* one step here (WorkflowEngine takes it apart); acting on the workflow   *)
(* is one step that may roll back after its event went out.                *)
(***************************************************************************)
EXTENDS Integers, FiniteSets, FiniteSetsExt

CONSTANTS
  Leaves,       \* leave rows
  Jobs,         \* handlers that can run at the same time
  Levels,       \* levels of the approval chain
  Days,         \* values total_days can take
  Provisioned,  \* tenant has its own schema: a handler is one transaction
  Endpoints,    \* direct operations clients use
  PoolSize,     \* connections of the process's pool
  MaxDirect,    \* bound: calls of direct operations
  MaxFaults     \* bound: handlers cut off, transactions rolled back

DirectOps == {"mgrApprove", "adminApprove", "mgrReject", "adminReject",
              "cancel", "edit", "adminEdit", "editDocs"}
Deciding  == {"mgrApprove", "adminApprove", "mgrReject", "adminReject"}
Events    == {"stepApproved", "approved", "rejected"}

ASSUME LeavesAssumption == IsFiniteSet(Leaves)
ASSUME LevelsAssumption == Levels \in Nat \ {0}
ASSUME DaysAssumption == Days \subseteq Nat \ {0} /\ Days # {}
ASSUME BoundsAssumption == MaxDirect \in Nat /\ MaxFaults \in Nat /\ PoolSize \in Nat \ {0}
ASSUME ModeAssumption == Provisioned \in BOOLEAN /\ Endpoints \subseteq DirectOps

VARIABLES
  leave,    \* committed row: status, total_days
  wf,       \* committed workflow request: status, current_step_order
  pending,  \* emitted events whose listener has not started
  used,     \* leave_balances.used, NoBalance while the row does not exist
  job,      \* the running handlers
  charged,  \* history: days deducted for each leave, number of deductions
  direct,   \* direct calls made
  faults,   \* faults that happened
  mixed     \* history: something started before everything else was done, or
            \* a leave was decided without its workflow

vars == <<leave, wf, pending, used, job, charged, direct, faults, mixed>>

-----------------------------------------------------------------------------
NoBalance == -1
Statuses  == {"pending", "processing", "approved", "rejected", "cancelled"}
WfStatus  == {"pending", "in_review", "approved", "rejected", "cancelled"}
Row       == [status : Statuses, days : Days]
PCs       == {"idle", "readBalance", "charge", "save", "nested", "saveWf", "commit"}

NoMem     == [status |-> "none", days |-> 0]

Job == [pc : PCs, kind : DirectOps \union Events \union {"none"}, l : Leaves \union {"none"},
        mem : [status : Statuses \union {"none"}, days : Days \union {0}], bal : Nat \union {NoBalance}]

IdleJob == [pc |-> "idle", kind |-> "none", l |-> "none", mem |-> NoMem, bal |-> NoBalance]

\* Mutant: approveLeave leaves the deduction to the workflow listener.
MutChargeByListenerOnly(kind) == kind = "approved"

\* Mutant: handleApproved does not deduct.
MutChargeDirectOnly(kind) == kind = "adminApprove"

Charging(kind) == kind \in {"approved", "adminApprove"}

\* handleApproved opens a transaction of its own on every tenant.
InTx(kind) == Provisioned \/ kind = "approved"

\* Mutant: handleApproved insists on a leave that is still pending.
MutListenerGuarded(kind, st) ==
  CASE kind \in {"mgrApprove", "mgrReject", "cancel", "approved"} -> st = "pending"
    [] kind \in {"adminApprove", "adminReject"} -> st \in {"pending", "processing"}
    [] kind = "edit"      -> st \notin {"processing", "approved"}
    [] kind = "adminEdit" -> st # "approved"
    [] OTHER -> TRUE

\* Status guards of the handlers; the listeners have none.
Allowed(kind, st) ==
  CASE kind \in {"mgrApprove", "mgrReject", "cancel"} -> st = "pending"
    [] kind \in {"adminApprove", "adminReject"}       -> st \in {"pending", "processing"}
    [] kind = "edit"                                  -> st \notin {"processing", "approved"}
    [] kind = "adminEdit"                             -> st # "approved"
    [] OTHER                                          -> TRUE

NewStatus(kind, st) ==
  CASE kind \in {"stepApproved", "mgrApprove"}           -> "processing"
    [] kind \in {"approved", "adminApprove"}             -> "approved"
    [] kind \in {"rejected", "mgrReject", "adminReject"} -> "rejected"
    [] kind = "cancel"                                   -> "cancelled"
    [] OTHER                                             -> st

NewDays(kind, d) == IF kind \in {"edit", "adminEdit"} THEN Days ELSE {d}

Running == {j \in Jobs : job[j].pc # "idle"}
Waiting == {e \in Events \X Leaves : pending[e] > 0}
Quiet   == Running = {} /\ Waiting = {}

\* A transaction holds the lock of a row it wrote until it ends.
LeaveLocked(l)    == \E j \in Running : InTx(job[j].kind) /\ job[j].l = l
                                        /\ job[j].pc \in {"nested", "saveWf", "commit"}
BalanceLocked     == \E j \in Running : InTx(job[j].kind) /\ Charging(job[j].kind)
                                        /\ job[j].pc = "save"

\* A transaction keeps its connection to the end, the nested transaction of a
\* cancellation is a second one, and pg waits for a free one without a timeout.
ConnectionFree ==
  Cardinality({j \in Running : InTx(job[j].kind)})
    + Cardinality({j \in Running : InTx(job[j].kind) /\ job[j].pc = "saveWf"}) < PoolSize

-----------------------------------------------------------------------------
(* The workflow request, as createWorkflowRequest left it, under sequential *)
(* calls of actOnCurrentStep.  On a provisioned tenant the transaction may  *)
(* still roll back after the event was emitted.                             *)

Emit(e) == pending' = [pending EXCEPT ![e] = @ + 1]

Decide(l, status, level, event) ==
  /\ wf[l].status \in {"pending", "in_review"}
  /\ Emit(<<event, l>>)
  /\ mixed' = (mixed \/ ~Quiet)
  /\ \/ /\ wf' = [wf EXCEPT ![l] = [status |-> status, level |-> level]]
        /\ UNCHANGED faults
     \/ /\ Provisioned /\ faults < MaxFaults
        /\ faults' = faults + 1
        /\ UNCHANGED wf
  /\ UNCHANGED <<leave, used, job, charged, direct>>

ApproveStep(l) == /\ wf[l].level < Levels
                  /\ Decide(l, "in_review", wf[l].level + 1, "stepApproved")
ApproveLast(l) == /\ wf[l].level >= Levels
                  /\ Decide(l, "approved", wf[l].level, "approved")
RejectStep(l)  == Decide(l, "rejected", wf[l].level, "rejected")

-----------------------------------------------------------------------------
(* Handlers *)

\* The handler reads the leave, passes its guards and assigns the fields.
Begin(j, kind, l) ==
  /\ job[j].pc = "idle"
  /\ Allowed(kind, leave[l].status)
  /\ InTx(kind) => ConnectionFree
  /\ \E d \in NewDays(kind, leave[l].days) :
       job' = [job EXCEPT ![j] =
                 [pc   |-> IF Charging(kind) THEN "readBalance" ELSE "save",
                  kind |-> kind, l |-> l, bal |-> NoBalance,
                  mem  |-> [status |-> NewStatus(kind, leave[l].status), days |-> d]]]

StartDirect(j, kind, l) ==
  /\ kind \in Endpoints
  /\ direct < MaxDirect
  /\ direct' = direct + 1
  /\ mixed' = (mixed \/ ~Quiet \/ kind \in Deciding)
  /\ Begin(j, kind, l)
  /\ UNCHANGED <<leave, wf, pending, used, charged, faults>>

\* setImmediate runs a listener.  On a provisioned tenant handleApproved sets
\* search_path to the tenant id, which names no schema: its first query fails,
\* the transaction rolls back and the error is logged.
StartListener(j, event, l) ==
  /\ pending[<<event, l>>] > 0
  /\ pending' = [pending EXCEPT ![<<event, l>>] = @ - 1]
  /\ IF Provisioned /\ event = "approved"
     THEN job[j].pc = "idle" /\ UNCHANGED job
     ELSE Begin(j, event, l)
  /\ UNCHANGED <<leave, wf, used, charged, direct, faults, mixed>>

\* deductLeaveBalance: findOne, then save used + totalDays.
ReadBalance(j) ==
  /\ job[j].pc = "readBalance"
  /\ job' = [job EXCEPT ![j].pc = "charge", ![j].bal = used]
  /\ UNCHANGED <<leave, wf, pending, used, charged, direct, faults, mixed>>

\* Mutant: a new balance row already starts with the days.
MutUsedTwice(j) ==
  (IF job[j].bal = NoBalance THEN job[j].mem.days ELSE job[j].bal) + job[j].mem.days

NewUsed(j) == (IF job[j].bal = NoBalance THEN 0 ELSE job[j].bal) + job[j].mem.days

\* INSERT of a balance row that another handler inserted meanwhile.
DuplicateRow(j) == job[j].bal = NoBalance /\ used # NoBalance

Deduct(j) ==
  /\ used' = NewUsed(j)
  /\ charged' = [charged EXCEPT ![job[j].l] =
                   [days |-> @.days + job[j].mem.days, times |-> @.times + 1]]

\* Mutant: the balance is saved outside the handler's transaction.
MutChargeOutside(j) ==
  /\ job[j].pc = "charge"
  /\ ~BalanceLocked
  /\ ~DuplicateRow(j)
  /\ job' = [job EXCEPT ![j].pc = "save"]
  /\ IF InTx(job[j].kind) THEN used' = NewUsed(j) /\ UNCHANGED charged ELSE Deduct(j)
  /\ UNCHANGED <<leave, wf, pending, direct, faults, mixed>>

Charge(j) ==
  /\ job[j].pc = "charge"
  /\ ~BalanceLocked
  /\ ~DuplicateRow(j)
  /\ job' = [job EXCEPT ![j].pc = "save"]
  /\ IF InTx(job[j].kind) THEN UNCHANGED <<used, charged>> ELSE Deduct(j)
  /\ UNCHANGED <<leave, wf, pending, direct, faults, mixed>>

\* The unique index rejects the second INSERT; the handler gives up.
ChargeFails(j) ==
  /\ job[j].pc = "charge"
  /\ ~BalanceLocked
  /\ DuplicateRow(j)
  /\ job' = [job EXCEPT ![j] = IdleJob]
  /\ UNCHANGED <<leave, wf, pending, used, charged, direct, faults, mixed>>

\* leaveRepo.save(leave): the whole entity.
Save(j) ==
  LET k == job[j] IN
  /\ k.pc = "save"
  /\ ~LeaveLocked(k.l)
  /\ IF k.kind = "cancel" THEN job' = [job EXCEPT ![j].pc = "nested"]
                          ELSE job' = [job EXCEPT ![j] = IdleJob]
  /\ IF k.kind = "cancel" /\ Provisioned THEN UNCHANGED leave
                                         ELSE leave' = [leave EXCEPT ![k.l] = k.mem]
  /\ IF Charging(k.kind) /\ InTx(k.kind) THEN Deduct(j) ELSE UNCHANGED <<used, charged>>
  /\ UNCHANGED <<wf, pending, direct, faults, mixed>>


CancelReturns(j) ==
  job' = [job EXCEPT ![j] = IF Provisioned THEN [@ EXCEPT !.pc = "commit"] ELSE IdleJob]

\* cancelLeave calls cancelWorkflowRequest, on a provisioned tenant in a
\* transaction of its own, that leaves alone a request it reads as decided.
CancelWorkflow(j) ==
  /\ job[j].pc = "nested"
  /\ InTx(job[j].kind) => ConnectionFree
  /\ IF wf[job[j].l].status \in {"approved", "rejected"}
     THEN CancelReturns(j)
     ELSE job' = [job EXCEPT ![j].pc = "saveWf"]
  /\ UNCHANGED <<leave, wf, pending, used, charged, direct, faults, mixed>>

\* The whole entity it read: a verdict committed meanwhile is lost.  Its level
\* goes with it, which nobody asks of a cancelled request.  The event that
\* follows finds a listener that does nothing.
CancelWorkflowSave(j) ==
  /\ job[j].pc = "saveWf"
  /\ wf' = [wf EXCEPT ![job[j].l].status = "cancelled"]
  /\ CancelReturns(j)
  /\ UNCHANGED <<leave, pending, used, charged, direct, faults, mixed>>

CommitCancel(j) ==
  /\ job[j].pc = "commit"
  /\ leave' = [leave EXCEPT ![job[j].l] = job[j].mem]
  /\ job' = [job EXCEPT ![j] = IdleJob]
  /\ UNCHANGED <<wf, pending, used, charged, direct, faults, mixed>>

\* A handler throws or its process dies: its transaction rolls back, on a
\* legacy tenant the saves it made stay.  Nothing retries it.
Fail(j) ==
  /\ job[j].pc # "idle"
  /\ faults < MaxFaults
  /\ faults' = faults + 1
  /\ job' = [job EXCEPT ![j] = IdleJob]
  /\ UNCHANGED <<leave, wf, pending, used, charged, direct, mixed>>

-----------------------------------------------------------------------------
Init ==
  /\ \E d \in Days : leave = [l \in Leaves |-> [status |-> "pending", days |-> d]]
  /\ wf = [l \in Leaves |-> [status |-> "pending", level |-> 1]]
  /\ pending = [e \in Events \X Leaves |-> 0]
  /\ used = NoBalance
  /\ job = [j \in Jobs |-> IdleJob]
  /\ charged = [l \in Leaves |-> [days |-> 0, times |-> 0]]
  /\ direct = 0
  /\ faults = 0
  /\ mixed = FALSE

Listen(j) == \E event \in Events, l \in Leaves : StartListener(j, event, l)

Work(j) ==
  \/ ReadBalance(j) \/ Charge(j) \/ ChargeFails(j)
  \/ Save(j) \/ CancelWorkflow(j) \/ CancelWorkflowSave(j) \/ CommitCancel(j)

Next ==
  \/ \E l \in Leaves : ApproveStep(l) \/ ApproveLast(l) \/ RejectStep(l)
  \/ \E j \in Jobs : Listen(j) \/ Work(j) \/ Fail(j)
  \/ \E j \in Jobs, kind \in DirectOps, l \in Leaves : StartDirect(j, kind, l)

Spec == Init /\ [][Next]_vars

\* The event loop runs every due listener and resumes every handler whose
\* query has returned.
Fairness == /\ WF_vars(\E j \in Jobs : Listen(j))
            /\ \A j \in Jobs : WF_vars(Work(j))

FairSpec == Spec /\ Fairness

-----------------------------------------------------------------------------
(* Properties *)

TypeOK ==
  /\ leave \in [Leaves -> Row]
  /\ wf \in [Leaves -> [status : WfStatus, level : 1 .. Levels]]
  /\ pending \in [Events \X Leaves -> Nat]
  /\ used \in Nat \union {NoBalance}
  /\ job \in [Jobs -> Job]
  /\ \A j \in Jobs : job[j].pc # "idle" => job[j].l \in Leaves /\ job[j].mem \in Row
  /\ charged \in [Leaves -> [days : Nat, times : Nat]]
  /\ direct \in 0 .. MaxDirect /\ faults \in 0 .. MaxFaults
  /\ mixed \in BOOLEAN

\* An approved leave was charged to the balance, however handlers interleave
\* or die: approveLeave and handleApproved deduct before they set APPROVED.
ApprovedImpliesCharged ==
  \A l \in Leaves : leave[l].status = "approved" => charged[l].times > 0

TotalCharged == MapThenSumSet(LAMBDA l : charged[l].days, Leaves)

\* Lost updates of deductLeaveBalance can only favour the employee: used is
\* never more than the days that handlers deducted.
UsedNeverExceedsCharged == used <= TotalCharged

\* When everything an operation set off is done before the next one starts and
\* clients leave the decision to the workflow, the leave shows what the workflow
\* decided, was charged exactly when it is approved, and the balance row holds
\* the sum.
MirrorOf(st) == CASE st = "in_review" -> "processing" [] OTHER -> st

SerialMirrors ==
  ~mixed /\ faults = 0 /\ Quiet =>
    /\ \A l \in Leaves :
         /\ leave[l].status = MirrorOf(wf[l].status)
         /\ charged[l] = IF leave[l].status = "approved"
                         THEN [days |-> leave[l].days, times |-> 1]
                         ELSE [days |-> 0, times |-> 0]
    /\ used # NoBalance => used = TotalCharged

\* "All steps approved - leave is fully approved" (handleApproved): the final
\* approval of the workflow is carried out.  Stated on the charge, which the
\* handler makes together with APPROVED, because a late handler may still
\* overwrite the status.
FinalApprovalApplied ==
  \A l \in Leaves : wf[l].status = "approved" ~> charged[l].times > 0

\* No connection is free, and those that hold one are cancellations that want a
\* second one and handlers that wait for a row.
PoolExhausted ==
  LET holders == {j \in Running : InTx(job[j].kind)}
      nested  == {j \in holders : job[j].pc = "nested"} IN
  /\ ~ConnectionFree /\ nested # {}
  /\ \A j \in holders \ nested :
       \/ job[j].pc = "save" /\ LeaveLocked(job[j].l)
       \/ job[j].pc = "charge" /\ BalanceLocked

=============================================================================

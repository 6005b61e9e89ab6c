------------------------ MODULE LeaveApproval_proofs ------------------------
(***************************************************************************)
(* Proofs about LeaveApproval for every number of leaves and handlers, on  *)
(* provisioned and on legacy tenants.                                      *)
(***************************************************************************)
EXTENDS LeaveApproval, FiniteSetTheorems, TLAPS

(* The strengthening: a handler that holds an approved leave has charged it, *)
(* read it as charged, or will charge it in the same step.                   *)

Charged(l) == charged[l].times > 0

\* What is left to do of a handler that has the leave approved in memory.
WillCharge(j) ==
  /\ Charging(job[j].kind)
  /\ job[j].pc \in {"readBalance", "charge"} \/ (job[j].pc = "save" /\ InTx(job[j].kind))

JobOK(j) ==
  /\ job[j].pc # "idle" /\ job[j].mem.status = "approved" => Charged(job[j].l) \/ WillCharge(j)
  /\ job[j].pc \in {"readBalance", "charge"} => Charging(job[j].kind)
  /\ job[j].pc \in {"nested", "saveWf", "commit"} => job[j].kind = "cancel"

IInv == TypeOK /\ ApprovedImpliesCharged /\ \A j \in Jobs : JobOK(j)

-----------------------------------------------------------------------------
(* Lemmas on the operators of the model *)

\* A handler that begins remembers a row, and an approved one only if it was
\* approved already or is about to be charged.
LEMMA BeginType ==
  ASSUME TypeOK, NEW j \in Jobs, NEW l \in Leaves,
         NEW kind \in DirectOps \union Events, Begin(j, kind, l)
  PROVE  /\ job' \in [Jobs -> Job]
         /\ \A i \in Jobs : i # j => job'[i] = job[i]
         /\ job'[j].kind = kind /\ job'[j].l = l /\ job'[j].mem \in Row
         /\ job'[j].pc = IF Charging(kind) THEN "readBalance" ELSE "save"
         /\ job'[j].mem.status = NewStatus(kind, leave[l].status)
  <1>1. PICK d \in NewDays(kind, leave[l].days) :
          job' = [job EXCEPT ![j] =
                 [pc   |-> IF Charging(kind) THEN "readBalance" ELSE "save",
                  kind |-> kind, l |-> l, bal |-> NoBalance,
                  mem  |-> [status |-> NewStatus(kind, leave[l].status), days |-> d]]]
    BY DEF Begin
  <1>2. d \in Days
    BY DEF TypeOK, Row, NewDays
  <1>3. NewStatus(kind, leave[l].status) \in Statuses
    BY DEF TypeOK, Row, NewStatus, Statuses
  <1>4. QED
    BY <1>1, <1>2, <1>3 DEF TypeOK, Row, Job, PCs

\* Deducting gives the leave a charge and the balance a number.
LEMMA DeductType ==
  ASSUME TypeOK, NEW j \in Jobs, job[j].pc # "idle", Deduct(j)
  PROVE  /\ used' \in Nat
         /\ charged' \in [Leaves -> [days : Nat, times : Nat]]
         /\ \A l \in Leaves : Charged(l) => Charged(l)'
         /\ charged'[job[j].l].times > 0
  <1>1. job[j].l \in Leaves /\ job[j].mem \in Row /\ job[j].bal \in Nat \union {NoBalance}
    BY DEF TypeOK, Job
  <1>2. job[j].mem.days \in Nat
    BY <1>1, DaysAssumption DEF Row
  <1>3. used' \in Nat
    BY <1>1, <1>2 DEF Deduct, NewUsed, NoBalance
  <1>4. \A l \in Leaves : charged'[l] = IF l = job[j].l
                            THEN [days |-> charged[l].days + job[j].mem.days, times |-> charged[l].times + 1]
                            ELSE charged[l]
    BY <1>1 DEF Deduct, TypeOK
  <1>5. charged' \in [Leaves -> [days : Nat, times : Nat]]
    BY <1>1, <1>2 DEF TypeOK, Deduct
  <1>6. QED
    BY <1>1, <1>3, <1>4, <1>5 DEF TypeOK, Charged

-----------------------------------------------------------------------------
(* The steps *)

\* Acting on the workflow touches neither leaves nor charges.
LEMMA DecideStep ==
  ASSUME IInv, NEW l \in Leaves, NEW status \in WfStatus, NEW level \in 1 .. Levels,
         NEW event \in Events, Decide(l, status, level, event)
  PROVE  IInv'
  <1>1. pending' \in [Events \X Leaves -> Nat]
    BY DEF Decide, Emit, IInv, TypeOK
  <1>2. wf' \in [Leaves -> [status : WfStatus, level : 1 .. Levels]]
    BY DEF Decide, IInv, TypeOK
  <1>3. UNCHANGED <<leave, used, job, charged, direct>> /\ faults' \in 0 .. MaxFaults /\ mixed' \in BOOLEAN
    BY BoundsAssumption DEF Decide, IInv, TypeOK
  <1>4. TypeOK'
    BY <1>1, <1>2, <1>3 DEF IInv, TypeOK
  <1>5. QED
    BY <1>3, <1>4 DEF IInv, ApprovedImpliesCharged, JobOK, Charged, WillCharge

\* A handler that begins, of a client or of a listener.
LEMMA BeginStep ==
  ASSUME IInv, NEW j \in Jobs, NEW l \in Leaves, NEW kind \in DirectOps \union Events, Begin(j, kind, l),
         pending' \in [Events \X Leaves -> Nat], direct' \in 0 .. MaxDirect, mixed' \in BOOLEAN,
         UNCHANGED <<leave, wf, used, charged, faults>>
  PROVE  IInv'
  <1>0. TypeOK
    BY DEF IInv
  <1>1. TypeOK'
    <2>1. \A i \in Jobs : job'[i].pc # "idle" => job'[i].l \in Leaves /\ job'[i].mem \in Row
      BY <1>0, BeginType, SMTT(30) DEF TypeOK
    <2>2. QED
      BY <1>0, <2>1, BeginType DEF TypeOK
  <1>2. job'[j].mem.status = "approved" => Charged(l) \/ WillCharge(j)'
    BY <1>0, BeginType DEF NewStatus, IInv, ApprovedImpliesCharged, Charged, WillCharge, Charging, InTx
  <1>3. \A i \in Jobs : JobOK(i)'
    <2>1. JobOK(j)'
      BY <1>0, <1>2, BeginType DEF JobOK, Charged
    <2>2. \A i \in Jobs : i # j => JobOK(i)'
      BY <1>0, BeginType DEF IInv, JobOK, Charged, WillCharge
    <2>3. QED
      BY <2>1, <2>2
  <1>4. QED
    BY <1>1, <1>3 DEF IInv, ApprovedImpliesCharged

\* A handler that ends or moves on, and with it the others.
Moves(j) ==
  /\ job' \in [Jobs -> Job]
  /\ \A i \in Jobs : i # j => job'[i] = job[i]
  /\ \/ job'[j] = IdleJob
     \/ /\ job'[j].kind = job[j].kind /\ job'[j].l = job[j].l /\ job'[j].mem = job[j].mem
        /\ \/ job[j].pc = "readBalance" /\ job'[j].pc = "charge"
           \/ /\ job[j].pc = "charge" /\ job'[j].pc = "save"
              /\ InTx(job[j].kind) \/ charged'[job[j].l].times > 0
           \/ /\ job[j].pc \in {"save", "nested", "saveWf"} /\ job'[j].pc \in {"nested", "saveWf", "commit"}
              /\ job[j].kind = "cancel"

ChargesKept ==
  /\ charged' \in [Leaves -> [days : Nat, times : Nat]] /\ used' \in Nat \union {NoBalance}
  /\ \A l \in Leaves : Charged(l) => Charged(l)'

\* A new point of progress in a record of Job.
LEMMA MovesTo ==
  ASSUME TypeOK, NEW j \in Jobs, NEW pc \in PCs, NEW bal \in Nat \union {NoBalance},
         job' = [job EXCEPT ![j] = [@ EXCEPT !.pc = pc, !.bal = bal]]
  PROVE  /\ job' \in [Jobs -> Job]
         /\ \A i \in Jobs : i # j => job'[i] = job[i]
         /\ job'[j].kind = job[j].kind /\ job'[j].l = job[j].l /\ job'[j].mem = job[j].mem /\ job'[j].pc = pc
  <1>1. job[j] \in Job
    BY DEF TypeOK
  <1>2. [job[j] EXCEPT !.pc = pc, !.bal = bal] \in Job
    BY <1>1 DEF Job
  <1>3. job'[j] = [job[j] EXCEPT !.pc = pc, !.bal = bal]
    BY DEF TypeOK
  <1>4. QED
    BY <1>1, <1>2, <1>3 DEF TypeOK, Job

\* No handler loses sight of a charge that is still to be made.
LEMMA JobsKept ==
  ASSUME IInv, NEW j \in Jobs, Moves(j), ChargesKept
  PROVE  \A i \in Jobs : /\ job'[i].pc # "idle" => job'[i].l \in Leaves /\ job'[i].mem \in Row
                         /\ JobOK(i)'
  <1> USE DEF Moves, ChargesKept
  <1>1. TypeOK
    BY DEF IInv
  <1>2. job'[j].pc # "idle" => job'[j].l = job[j].l /\ job'[j].mem = job[j].mem /\ job[j].pc # "idle"
    BY DEF IdleJob
  <1>3. \A i \in Jobs : job'[i].pc # "idle" => job'[i].l \in Leaves /\ job'[i].mem \in Row
    BY <1>1, <1>2 DEF TypeOK
  <1>4. \A i \in Jobs : i # j => JobOK(i)'
    BY <1>1 DEF IInv, TypeOK, JobOK, WillCharge
  <1>5. JobOK(j)'
    <2>1. CASE job'[j] = IdleJob
      BY <2>1 DEF JobOK, IdleJob
    <2>2. CASE job'[j] # IdleJob
      <3>1. JobOK(j) /\ job[j].l = job'[j].l /\ (job[j].l \in Leaves)
        BY <1>1, <2>2 DEF IInv, TypeOK
      <3>2. CASE job[j].pc = "readBalance"
        BY <2>2, <3>1, <3>2 DEF JobOK, WillCharge
      <3>3. CASE job[j].pc = "charge"
        BY <2>2, <3>1, <3>3 DEF JobOK, WillCharge, Charged
      <3>4. CASE job[j].pc \in {"save", "nested", "saveWf"}
        BY <2>2, <3>1, <3>4 DEF JobOK, WillCharge, Charging
      <3>5. QED
        BY <2>2, <3>2, <3>3, <3>4
    <2>3. QED
      BY <2>1, <2>2
  <1>6. QED
    BY <1>3, <1>4, <1>5

\* A step of a handler that saves no leave.
LEMMA MoveStep ==
  ASSUME IInv, NEW j \in Jobs, Moves(j), ChargesKept,
         wf' \in [Leaves -> [status : WfStatus, level : 1 .. Levels]], faults' \in 0 .. MaxFaults,
         UNCHANGED <<leave, pending, direct, mixed>>
  PROVE  IInv'
  <1>1. TypeOK'
    BY JobsKept DEF IInv, TypeOK, Moves, ChargesKept
  <1>2. ApprovedImpliesCharged'
    BY DEF IInv, TypeOK, ApprovedImpliesCharged, Charged, ChargesKept
  <1>3. QED
    BY <1>1, <1>2, JobsKept DEF IInv

\* A step of a handler that saves the leave.
LEMMA SaveStep ==
  ASSUME IInv, NEW j \in Jobs, Moves(j), ChargesKept, job[j].pc # "idle",
         job[j].mem.status = "approved" => charged'[job[j].l].times > 0,
         leave' = [leave EXCEPT ![job[j].l] = job[j].mem],
         UNCHANGED <<wf, pending, direct, faults, mixed>>
  PROVE  IInv'
  <1>1. TypeOK /\ job[j].l \in Leaves /\ job[j].mem \in Row
    BY DEF IInv, TypeOK
  <1>2. /\ leave' \in [Leaves -> Row] /\ leave'[job[j].l] = job[j].mem
        /\ \A l \in Leaves : l # job[j].l => leave'[l] = leave[l]
    BY <1>1 DEF TypeOK
  <1>3. TypeOK'
    BY <1>1, <1>2, JobsKept DEF TypeOK, Moves, ChargesKept
  <1>4. ApprovedImpliesCharged'
    BY <1>1, <1>2 DEF IInv, ApprovedImpliesCharged, Charged, ChargesKept
  <1>5. QED
    BY <1>3, <1>4, JobsKept DEF IInv

\* Every step of a running handler, and its failure.
LEMMA WorkStep == ASSUME IInv, NEW j \in Jobs, Work(j) \/ Fail(j) PROVE IInv'
  <1>1. TypeOK /\ JobOK(j) /\ (job[j].pc # "idle" => job[j].l \in Leaves) /\ (UNCHANGED <<used, charged>> => ChargesKept)
    BY DEF IInv, TypeOK, ChargesKept, Charged
  <1>2. IdleJob \in Job
    BY DEF IdleJob, Job, PCs, NoMem
  <1>3. job' = [job EXCEPT ![j] = IdleJob] => Moves(j)
    BY <1>1, <1>2 DEF Moves, TypeOK
  <1>4. job[j].bal \in Nat \union {NoBalance}
    BY <1>1 DEF TypeOK, Job
  <1>5. \A pc \in PCs : [job EXCEPT ![j].pc = pc] = [job EXCEPT ![j] = [@ EXCEPT !.pc = pc, !.bal = job[j].bal]]
    BY <1>1 DEF TypeOK, Job
  <1>6. CASE ReadBalance(j)
    <2>1. Moves(j)
      <3>1. job' = [job EXCEPT ![j] = [@ EXCEPT !.pc = "charge", !.bal = used]]
        BY <1>6 DEF ReadBalance
      <3>2. used \in Nat \union {NoBalance} /\ "charge" \in PCs
        BY <1>1 DEF TypeOK, PCs
      <3>3. QED
        BY <1>1, <1>6, <3>1, <3>2, MovesTo, ZenonT(60) DEF Moves, ReadBalance
    <2>2. QED
      BY <1>1, <1>6, <2>1, MoveStep DEF ReadBalance, TypeOK
  <1>7. CASE Charge(j)
    <2>1. InTx(job[j].kind) \/ Deduct(j)
      BY <1>7 DEF Charge
    <2>2. ChargesKept /\ (InTx(job[j].kind) \/ charged'[job[j].l].times > 0)
      BY <1>1, <1>7, <2>1, DeductType DEF Charge, ChargesKept
    <2>3. Moves(j)
      BY <1>1, <1>4, <1>5, <1>7, <2>2, MovesTo DEF Charge, Moves, PCs
    <2>4. QED
      BY <1>1, <1>7, <2>2, <2>3, MoveStep DEF Charge, TypeOK
  <1>8. CASE ChargeFails(j) \/ Fail(j)
    <2>1. faults' \in 0 .. MaxFaults
      BY <1>1, <1>8, BoundsAssumption DEF ChargeFails, Fail, TypeOK
    <2>2. QED
      BY <1>1, <1>3, <1>8, <2>1, MoveStep DEF ChargeFails, Fail, TypeOK
  <1>9. CASE Save(j)
    <2>1. ChargesKept /\ (job[j].mem.status = "approved" => charged'[job[j].l].times > 0)
      BY <1>1, <1>9, DeductType DEF Save, ChargesKept, JobOK, WillCharge, Charged
    <2>2. Moves(j)
      <3>1. CASE job[j].kind = "cancel"
        <4>1. job' = [job EXCEPT ![j] = [@ EXCEPT !.pc = "nested", !.bal = job[j].bal]] /\ "nested" \in PCs
          BY <1>5, <1>9, <3>1 DEF Save, PCs
        <4>2. QED
          BY <1>1, <1>4, <1>9, <3>1, <4>1, MovesTo DEF Moves, Save
      <3>2. QED
        BY <1>3, <1>9, <3>1 DEF Save
    <2>3. QED
      BY <1>1, <1>9, <2>1, <2>2, MoveStep, SaveStep DEF Save, TypeOK
  <1>10. CASE CancelWorkflow(j) \/ CancelWorkflowSave(j)
    <2>1. job[j].pc \in {"nested", "saveWf"} /\ job[j].kind = "cancel"
      BY <1>1, <1>10 DEF CancelWorkflow, CancelWorkflowSave, JobOK
    <2>2. Moves(j)
      <3>1. ASSUME NEW pc \in {"saveWf", "commit"}, job' = [job EXCEPT ![j].pc = pc]
            PROVE  Moves(j)
        <4>1. pc \in PCs
          BY DEF PCs
        <4>2. job' = [job EXCEPT ![j] = [@ EXCEPT !.pc = pc, !.bal = job[j].bal]]
          BY <1>5, <3>1, <4>1
        <4>3. QED
          BY <1>1, <1>4, <2>1, <4>1, <4>2, MovesTo DEF Moves
      <3>2. \/ job' = [job EXCEPT ![j] = IdleJob]
            \/ job' = [job EXCEPT ![j].pc = "commit"]
            \/ job' = [job EXCEPT ![j].pc = "saveWf"]
        BY <1>10 DEF CancelWorkflow, CancelWorkflowSave, CancelReturns
      <3>3. QED
        BY <1>3, <3>1, <3>2
    <2>3. wf' \in [Leaves -> [status : WfStatus, level : 1 .. Levels]]
      <3>1. UNCHANGED wf \/ wf' = [wf EXCEPT ![job[j].l].status = "cancelled"]
        BY <1>10 DEF CancelWorkflow, CancelWorkflowSave
      <3>2. QED
        BY <1>1, <3>1 DEF TypeOK, WfStatus
    <2>4. QED
      BY <1>1, <1>10, <2>2, <2>3, MoveStep DEF CancelWorkflow, CancelWorkflowSave, TypeOK
  <1>11. CASE CommitCancel(j)
    BY <1>1, <1>3, <1>11, SaveStep DEF CommitCancel, JobOK, WillCharge, Charged, Charging
  <1>12. QED
    BY <1>6, <1>7, <1>8, <1>9, <1>10, <1>11 DEF Work

-----------------------------------------------------------------------------
(* The theorems *)

\* Every step keeps the strengthening.
LEMMA Inductive == IInv /\ [Next]_vars => IInv'
  <1> SUFFICES ASSUME IInv, [Next]_vars
               PROVE  IInv'
    OBVIOUS
  <1>1. ASSUME NEW l \in Leaves, ApproveStep(l) \/ ApproveLast(l) \/ RejectStep(l)
        PROVE  IInv'
    <2>1. wf[l].level \in 1 .. Levels
      BY DEF IInv, TypeOK
    <2>2. CASE ApproveStep(l)
      <3>1. wf[l].level + 1 \in 1 .. Levels
        BY <2>1, <2>2, LevelsAssumption DEF ApproveStep
      <3>2. QED
        BY <2>2, <3>1, DecideStep DEF ApproveStep, WfStatus, Events
    <2>3. CASE ApproveLast(l) \/ RejectStep(l)
      BY <2>1, <2>3, DecideStep DEF ApproveLast, RejectStep, WfStatus, Events
    <2>4. QED
      BY <1>1, <2>2, <2>3
  <1>2. ASSUME NEW j \in Jobs, NEW event \in Events, NEW l \in Leaves, StartListener(j, event, l)
        PROVE  IInv'
    <2>1. pending' \in [Events \X Leaves -> Nat]
      BY <1>2 DEF StartListener, IInv, TypeOK
    <2>2. UNCHANGED <<leave, wf, used, charged, direct, faults, mixed>>
      BY <1>2 DEF StartListener
    <2>3. CASE Begin(j, event, l)
      BY <2>1, <2>2, <2>3, BeginStep DEF IInv, TypeOK
    <2>4. CASE UNCHANGED job
      <3>1. TypeOK'
        BY <2>1, <2>2, <2>4 DEF IInv, TypeOK
      <3>2. QED
        BY <2>2, <2>4, <3>1 DEF IInv, ApprovedImpliesCharged, JobOK, Charged, WillCharge
    <2>5. QED
      BY <1>2, <2>3, <2>4 DEF StartListener
  <1>3. ASSUME NEW j \in Jobs, NEW kind \in DirectOps, NEW l \in Leaves, StartDirect(j, kind, l)
        PROVE  IInv'
    <2>1. direct' \in 0 .. MaxDirect /\ mixed' \in BOOLEAN
      BY <1>3, BoundsAssumption DEF StartDirect, IInv, TypeOK
    <2>2. QED
      BY <1>3, <2>1, BeginStep DEF StartDirect, IInv, TypeOK
  <1>4. ASSUME NEW j \in Jobs, Work(j) \/ Fail(j)
        PROVE  IInv'
    BY <1>4, WorkStep
  <1>5. CASE UNCHANGED vars
    BY <1>5 DEF vars, IInv, TypeOK, ApprovedImpliesCharged, JobOK, Charged, WillCharge
  <1>6. QED
    BY <1>1, <1>2, <1>3, <1>4, <1>5 DEF Next, Listen

\* The strengthening holds throughout.
LEMMA Invariance == Spec => []IInv
  <1>1. Init => IInv
    <2> SUFFICES ASSUME Init PROVE IInv
      OBVIOUS
    <2>1. IdleJob \in Job
      BY DEF IdleJob, Job, PCs, NoMem
    <2>2. TypeOK
      <3>1. leave \in [Leaves -> Row] /\ wf \in [Leaves -> [status : WfStatus, level : 1 .. Levels]]
        BY LevelsAssumption DEF Init, Row, Statuses, WfStatus
      <3>2. job \in [Jobs -> Job] /\ \A j \in Jobs : job[j].pc = "idle"
        BY <2>1 DEF Init, IdleJob
      <3>3. /\ pending \in [Events \X Leaves -> Nat] /\ charged \in [Leaves -> [days : Nat, times : Nat]]
            /\ used \in Nat \union {NoBalance}
        BY DEF Init
      <3>4. direct \in 0 .. MaxDirect /\ faults \in 0 .. MaxFaults
        BY BoundsAssumption DEF Init
      <3>5. mixed \in BOOLEAN
        BY DEF Init
      <3>6. QED
        BY <3>1, <3>2, <3>3, <3>4, <3>5 DEF TypeOK
    <2>3. QED
      BY <2>2 DEF Init, IInv, ApprovedImpliesCharged, JobOK, IdleJob
  <1>2. QED
    BY <1>1, Inductive, PTL DEF Spec

\* Every variable of the leaves, handlers and balance keeps its type.
THEOREM LeaveTypes == Spec => []TypeOK
  <1>1. IInv => TypeOK
    BY DEF IInv
  <1>2. QED
    BY <1>1, Invariance, PTL

\* approveLeave and handleApproved: no leave is APPROVED in the database
\* without having been charged, whichever handlers overlap, overwrite each
\* other or die on the way.
THEOREM ApprovedCharged == Spec => []ApprovedImpliesCharged
  <1>1. IInv => ApprovedImpliesCharged
    BY DEF IInv
  <1>2. QED
    BY <1>1, Invariance, PTL


-----------------------------------------------------------------------------
(* The sum of the charges.  MapThenSumSet is recursive: the recursion has a *)
(* solution on the sets of at most n leaves for each n, and two sums differ *)
(* by what their terms differ.                                              *)

\* The least of some numbers.
LEMMA LeastOf ==
  ASSUME NEW S \in SUBSET Nat, S # {}
  PROVE  \E x \in S : \A y \in S : x <= y
  <1>1. IsWellFoundedOn(OpToRel(<, Nat), Nat)
    BY NatLessThanWellFounded, Zenon
  <1>2. PICK x \in S : \A y \in S : ~(<<y, x>> \in OpToRel(<, Nat))
    BY <1>1, WFMin, Zenon
  <1>3. \A y \in S : ~(y < x)
    BY <1>2 DEF OpToRel
  <1>4. QED
    BY <1>3

Pick(s)     == CHOOSE x \in s : TRUE
Term(c, g, s) == IF s = {} THEN 0 ELSE c[Pick(s)].days + g[s \ {Pick(s)}]

\* g adds up the terms of c over the sets of S.
Adds(c, g, S) == g = [s \in S |-> Term(c, g, s)]

AllSums(c) == CHOOSE g : Adds(c, g, SUBSET Leaves)

\* TotalCharged is that sum.
LEMMA TotalIs == /\ TotalCharged = AllSums(charged)[Leaves]
                 /\ TotalCharged' = AllSums(charged')[Leaves]
  BY DEF TotalCharged, MapThenSumSet, MapThenFoldSet, AllSums, Adds, Term, Pick

\* The sets of at most n leaves.
Small(n) == {s \in SUBSET Leaves : Cardinality(s) <= n}

LEMMA Sizes ==
  /\ \A s \in SUBSET Leaves : Cardinality(s) \in Nat /\ IsFiniteSet(s) /\ (Cardinality(s) = 0 <=> s = {})
  /\ \A s \in SUBSET Leaves : s # {} => /\ Pick(s) \in s /\ s \ {Pick(s)} \in SUBSET Leaves
                                        /\ Cardinality(s \ {Pick(s)}) = Cardinality(s) - 1
  <1>1. \A s \in SUBSET Leaves : IsFiniteSet(s)
    BY LeavesAssumption, FS_Subset
  <1>2. \A s \in SUBSET Leaves : Cardinality(s) \in Nat /\ (Cardinality(s) = 0 <=> s = {})
    BY <1>1, FS_CardinalityType, FS_EmptySet
  <1>3. \A s \in SUBSET Leaves : s # {} => Pick(s) \in s
    BY DEF Pick
  <1>4. \A s \in SUBSET Leaves : s # {} => Cardinality(s \ {Pick(s)}) = Cardinality(s) - 1
    BY <1>1, <1>3, FS_RemoveElement
  <1>5. QED
    BY <1>1, <1>2, <1>3, <1>4

\* A sum over the sets of at most n leaves extends to those of one more.
LEMMA SumGrows ==
  ASSUME NEW c, NEW n \in Nat, NEW f, Adds(c, f, Small(n))
  PROVE  \E g : Adds(c, g, Small(n + 1))
  <1> DEFINE T(s) == Term(c, f, s)
             g == [s \in Small(n + 1) |-> T(s)]
  <1>1. \A s \in Small(n) : f[s] = T(s)
    <2>1. f = [s \in Small(n) |-> T(s)]
      BY DEF Adds
    <2> HIDE DEF T
    <2>2. QED
      BY <2>1
  <1>2. \A s \in Small(n) : s \in Small(n + 1)
    BY Sizes DEF Small
  <1>3. \A s \in Small(n + 1) : g[s] = T(s)
    OBVIOUS
  <1>4. \A s \in Small(n) : g[s] = f[s]
    BY <1>1, <1>2, <1>3
  <1>5. \A s \in Small(n + 1) : s # {} => s \ {Pick(s)} \in Small(n)
    BY Sizes DEF Small
  <1> HIDE DEF g
  <1>6. \A s \in Small(n + 1) : T(s) = Term(c, g, s)
    BY <1>4, <1>5 DEF Term
  <1>7. g = [s \in Small(n + 1) |-> Term(c, g, s)]
    BY <1>6 DEF g
  <1>8. QED
    BY <1>7 DEF Adds

\* The sum is what its definition says.
LEMMA SumIs == ASSUME NEW c PROVE Adds(c, AllSums(c), SUBSET Leaves)
  <1> DEFINE Good(n) == \E g : Adds(c, g, Small(n))
             Bad     == {n \in Nat : ~Good(n)}
  <1>1. Good(0)
    <2>1. Small(0) = {{}}
      BY Sizes DEF Small
    <2> DEFINE g == [s \in {{}} |-> 0]
    <2>2. \A s \in {{}} : Term(c, g, s) = 0
      BY DEF Term
    <2>3. g = [s \in Small(0) |-> Term(c, g, s)]
      BY <2>1, <2>2
    <2>4. QED
      BY <2>3 DEF Adds
  <1>2. ASSUME NEW n \in Nat, Good(n) PROVE Good(n + 1)
    BY <1>2, SumGrows
  <1> HIDE DEF Good
  <1>3. \A n \in Nat : Good(n)
    <2>1. SUFFICES ASSUME Bad # {} PROVE FALSE
      OBVIOUS
    <2>2. Bad \in SUBSET Nat
      OBVIOUS
    <2> HIDE DEF Bad
    <2>3. PICK n \in Bad : \A m \in Bad : n <= m
      BY <2>1, <2>2, LeastOf
    <2> USE DEF Bad
    <2>4. n \in Nat /\ n # 0 /\ n - 1 \in Nat
      BY <1>1
    <2>5. Good(n - 1)
      BY <2>3, <2>4
    <2>6. QED
      BY <1>2, <2>3, <2>4, <2>5
  <1>4. Small(Cardinality(Leaves)) = SUBSET Leaves
    BY LeavesAssumption, FS_Subset, Sizes DEF Small
  <1>5. \E g : Adds(c, g, SUBSET Leaves)
    <2>1. Cardinality(Leaves) \in Nat
      BY Sizes
    <2>2. Good(Cardinality(Leaves))
      BY <1>3, <2>1
    <2>3. QED
      BY <1>4, <2>2 DEF Good
  <1>6. QED
    BY <1>5 DEF AllSums

\* Each sum is its term.
LEMMA SumUnfold ==
  ASSUME NEW c
  PROVE  \A s \in SUBSET Leaves : AllSums(c)[s] = Term(c, AllSums(c), s)
  <1> DEFINE f == AllSums(c)
             F(s) == Term(c, f, s)
  <1>1. Adds(c, f, SUBSET Leaves)
    BY SumIs
  <1> HIDE DEF f
  <1>2. f = [s \in SUBSET Leaves |-> F(s)]
    BY <1>1 DEF Adds
  <1> HIDE DEF F
  <1>3. \A s \in SUBSET Leaves : f[s] = F(s)
    BY <1>2
  <1>4. QED
    BY <1>3 DEF f, F

\* A sum is a natural number, equal terms have an equal sum, and one more on a
\* single term is one more on the sum.
LEMMA SumChanges ==
  ASSUME NEW b, NEW c, NEW k \in Leaves, NEW d \in Nat,
         \A l \in Leaves : b[l].days \in Nat,
         \A l \in Leaves : c[l].days = IF l = k THEN b[l].days + d ELSE b[l].days
  PROVE  AllSums(b)[Leaves] \in Nat /\ AllSums(c)[Leaves] = AllSums(b)[Leaves] + d
  <1> DEFINE f == AllSums(b)
             g == AllSums(c)
             Good(s) == f[s] \in Nat /\ g[s] = IF k \in s THEN f[s] + d ELSE f[s]
             Bad == {n \in Nat : \E s \in SUBSET Leaves : Cardinality(s) = n /\ ~Good(s)}
  <1>1. \A s \in SUBSET Leaves : f[s] = Term(b, f, s) /\ g[s] = Term(c, g, s)
    BY SumUnfold
  <1> HIDE DEF f, g
  <1>2. \A s \in SUBSET Leaves : Good(s)
    <2>1. SUFFICES ASSUME NEW t \in SUBSET Leaves, ~Good(t) PROVE FALSE
      OBVIOUS
    <2>2. Cardinality(t) \in Bad /\ Bad \in SUBSET Nat /\ Bad # {}
      BY <2>1, Sizes
    <2> HIDE DEF Bad
    <2>3. PICK n \in Bad : \A m \in Bad : n <= m
      BY <2>2, LeastOf
    <2> USE DEF Bad
    <2>4. PICK s \in SUBSET Leaves : Cardinality(s) = n /\ ~Good(s)
      BY <2>3
    <2>5. CASE s = {}
      <3>1. f[s] = Term(b, f, s) /\ g[s] = Term(c, g, s)
        BY <1>1
      <3>2. f[s] = 0 /\ g[s] = 0
        BY <2>5, <3>1 DEF Term
      <3>3. QED
        BY <2>4, <2>5, <3>2
    <2>6. CASE s # {}
      <3>1. PICK x \in s : x = Pick(s)
        BY <2>6, Sizes
      <3>2. PICK r \in SUBSET Leaves : r = s \ {x}
        BY <2>4
      <3>3. Cardinality(r) = n - 1 /\ n \in Nat /\ Cardinality(r) \in Nat
        BY <2>4, <2>6, <3>1, <3>2, Sizes
      <3>4. Good(r)
        BY <2>3, <3>3
      <3>5. f[s] = b[x].days + f[r] /\ g[s] = c[x].days + g[r]
        BY <1>1, <2>6, <3>1, <3>2 DEF Term
      <3>6. x \in Leaves /\ (k \in s <=> (k = x \/ k \in r)) /\ x \notin r
        BY <3>2
      <3>7. QED
        BY <2>4, <3>4, <3>5, <3>6
    <2>7. QED
      BY <2>5, <2>6
  <1>3. QED
    BY <1>2 DEF f, g

LEMMA TotalNat == TypeOK => TotalCharged \in Nat
  <1> SUFFICES ASSUME TypeOK PROVE TotalCharged \in Nat
    OBVIOUS
  <1>1. \A l \in Leaves : charged[l].days \in Nat
    BY DEF TypeOK
  <1>2. \A k \in Leaves : AllSums(charged)[Leaves] \in Nat
    <2>1. ASSUME NEW k \in Leaves PROVE AllSums(charged)[Leaves] \in Nat
      <3>1. \A l \in Leaves : charged[l].days = IF l = k THEN charged[l].days + 0 ELSE charged[l].days
        BY <1>1
      <3>2. QED
        BY <1>1, <3>1, SumChanges
    <2>2. QED
      BY <2>1
  <1>3. CASE Leaves = {}
    BY <1>3, SumUnfold, TotalIs DEF Term
  <1>4. QED
    BY <1>2, <1>3, TotalIs

\* A deduction adds the days of the handler to the sum.
LEMMA DeductTotal ==
  ASSUME TypeOK, NEW j \in Jobs, job[j].pc # "idle", Deduct(j)
  PROVE  /\ job[j].l \in Leaves /\ job[j].mem.days \in Nat
         /\ TotalCharged' = TotalCharged + job[j].mem.days
  <1>1. job[j].l \in Leaves /\ job[j].mem \in Row
    BY DEF TypeOK
  <1>2. job[j].mem.days \in Nat
    BY <1>1, DaysAssumption DEF Row
  <1>3. PICK k \in Leaves : k = job[j].l
    BY <1>1
  <1>4. PICK d \in Nat : d = job[j].mem.days
    BY <1>2
  <1>5. \A l \in Leaves : charged[l].days \in Nat
    BY DEF TypeOK
  <1>6. \A l \in Leaves : charged'[l].days = IF l = k THEN charged[l].days + d ELSE charged[l].days
    BY <1>3, <1>4 DEF Deduct, TypeOK
  <1>7. AllSums(charged')[Leaves] = AllSums(charged)[Leaves] + d
    BY <1>5, <1>6, SumChanges
  <1>8. TotalCharged' = AllSums(charged')[Leaves]
    BY TotalIs
  <1>9. QED
    BY <1>1, <1>2, <1>4, <1>7, <1>8, TotalIs

-----------------------------------------------------------------------------
(* What was read of the balance never exceeds what was charged.             *)

Bounded ==
  /\ used <= TotalCharged /\ \A j \in Jobs : job[j].bal <= TotalCharged
  /\ used = NoBalance => TotalCharged = 0

\* A step leaves the books alone, reads the balance, or deducts.
Bookkeeping ==
  \/ /\ UNCHANGED <<used, charged>>
     /\ \A i \in Jobs : job'[i].bal \in {job[i].bal, used, NoBalance}
  \/ \E j \in Jobs : /\ job[j].pc # "idle" /\ Deduct(j)
                     /\ \A i \in Jobs : job'[i].bal \in {job[i].bal, NoBalance}

LEMMA BoundedStep == ASSUME TypeOK, Bounded, Bookkeeping PROVE Bounded'
  <1>1. TotalCharged \in Nat /\ used \in Nat \union {NoBalance} /\ \A i \in Jobs : job[i].bal \in Nat \union {NoBalance}
    BY TotalNat DEF TypeOK, Job
  <1>2. CASE UNCHANGED <<used, charged>> /\ \A i \in Jobs : job'[i].bal \in {job[i].bal, used, NoBalance}
    <2>1. TotalCharged' = TotalCharged
      BY <1>2, TotalIs
    <2>2. QED
      BY <1>1, <1>2, <2>1 DEF Bounded, NoBalance
  <1>3. ASSUME NEW j \in Jobs, job[j].pc # "idle", Deduct(j), \A i \in Jobs : job'[i].bal \in {job[i].bal, NoBalance}
        PROVE  Bounded'
    <2>1. job[j].mem.days \in Nat /\ TotalCharged' = TotalCharged + job[j].mem.days
      BY <1>3, DeductTotal
    <2>2. used' = (IF job[j].bal = NoBalance THEN 0 ELSE job[j].bal) + job[j].mem.days
      BY <1>3 DEF Deduct, NewUsed
    <2>3. job[j].bal <= TotalCharged
      BY DEF Bounded
    <2>4. used' \in Nat /\ used' <= TotalCharged'
      BY <1>1, <2>1, <2>2, <2>3 DEF NoBalance
    <2>5. \A i \in Jobs : job'[i].bal <= TotalCharged'
      BY <1>1, <1>3, <2>1 DEF Bounded, NoBalance
    <2>6. QED
      BY <2>4, <2>5 DEF Bounded, NoBalance
  <1>4. QED
    BY <1>2, <1>3 DEF Bookkeeping

LEMMA BeginBal ==
  ASSUME TypeOK, NEW j \in Jobs, NEW l \in Leaves, NEW kind \in DirectOps \union Events, Begin(j, kind, l)
  PROVE  /\ \A i \in Jobs : i # j => job'[i] = job[i]
         /\ job'[j].bal = NoBalance /\ job'[j].mem.days \in NewDays(kind, leave[l].days)
  <1>1. PICK d \in NewDays(kind, leave[l].days) :
          job' = [job EXCEPT ![j] =
                 [pc   |-> IF Charging(kind) THEN "readBalance" ELSE "save",
                  kind |-> kind, l |-> l, bal |-> NoBalance,
                  mem  |-> [status |-> NewStatus(kind, leave[l].status), days |-> d]]]
    BY DEF Begin
  <1>2. QED
    BY <1>1 DEF TypeOK

\* Every step keeps books.
LEMMA Booked == ASSUME TypeOK, [Next]_vars PROVE Bookkeeping
  <1>1. ASSUME NEW l \in Leaves, ApproveStep(l) \/ ApproveLast(l) \/ RejectStep(l) PROVE Bookkeeping
    BY <1>1 DEF ApproveStep, ApproveLast, RejectStep, Decide, Bookkeeping
  <1>2. ASSUME NEW j \in Jobs, NEW event \in Events, NEW l \in Leaves, StartListener(j, event, l) PROVE Bookkeeping
    BY <1>2, BeginBal DEF StartListener, Bookkeeping
  <1>3. ASSUME NEW j \in Jobs, NEW kind \in DirectOps, NEW l \in Leaves, StartDirect(j, kind, l) PROVE Bookkeeping
    BY <1>3, BeginBal DEF StartDirect, Bookkeeping
  <1>4. ASSUME NEW j \in Jobs, Work(j) \/ Fail(j) PROVE Bookkeeping
    <2>1. job[j] \in Job /\ IdleJob.bal = NoBalance
      BY DEF TypeOK, IdleJob
    <2>2. CASE ReadBalance(j)
      <3>1. \A i \in Jobs : job'[i].bal \in {job[i].bal, used, NoBalance}
        BY <2>1, <2>2 DEF ReadBalance, TypeOK, Job
      <3>2. QED
        BY <2>2, <3>1 DEF ReadBalance, Bookkeeping
    <2>3. CASE ~ReadBalance(j)
      <3>1. \A i \in Jobs : job'[i].bal \in {job[i].bal, NoBalance}
        <4>1. \/ job' = [job EXCEPT ![j] = IdleJob]
              \/ \E pc \in PCs : job' = [job EXCEPT ![j].pc = pc]
          BY <1>4, <2>3 DEF Work, Fail, Charge, ChargeFails, Save, CancelWorkflow, CancelWorkflowSave,
             CancelReturns, CommitCancel, PCs
        <4>2. CASE job' = [job EXCEPT ![j] = IdleJob]
          BY <2>1, <4>2 DEF TypeOK
        <4>3. ASSUME NEW pc \in PCs, job' = [job EXCEPT ![j].pc = pc]
              PROVE  \A i \in Jobs : job'[i].bal = job[i].bal
          BY <2>1, <4>3 DEF TypeOK, Job
        <4>4. QED
          BY <4>1, <4>2, <4>3
      <3>2. UNCHANGED <<used, charged>> \/ (Deduct(j) /\ job[j].pc # "idle")
        BY <1>4, <2>3 DEF Work, Fail, Charge, ChargeFails, Save, CancelWorkflow, CancelWorkflowSave, CommitCancel
      <3>3. QED
        BY <3>1, <3>2 DEF Bookkeeping
    <2>4. QED
      BY <2>2, <2>3
  <1>5. CASE UNCHANGED vars
    BY <1>5 DEF vars, Bookkeeping
  <1>6. QED
    BY <1>1, <1>2, <1>3, <1>4, <1>5 DEF Next, Listen

LEMMA BoundedInvariance == Spec => []Bounded
  <1>1. Init => Bounded
    <2> SUFFICES ASSUME Init PROVE Bounded
      OBVIOUS
    <2> DEFINE f == AllSums(charged)
               Bad == {n \in Nat : \E s \in SUBSET Leaves : Cardinality(s) = n /\ f[s] # 0}
    <2>1. \A l \in Leaves : charged[l].days = 0
      BY DEF Init
    <2>2. \A s \in SUBSET Leaves : f[s] = Term(charged, f, s)
      BY SumUnfold
    <2> HIDE DEF f
    <2>3. Bad = {}
      <3>1. SUFFICES ASSUME Bad # {} PROVE FALSE
        OBVIOUS
      <3>2. Bad \in SUBSET Nat
        OBVIOUS
      <3> HIDE DEF Bad
      <3>3. PICK n \in Bad : \A m \in Bad : n <= m
        BY <3>1, <3>2, LeastOf
      <3> USE DEF Bad
      <3>4. PICK s \in SUBSET Leaves : Cardinality(s) = n /\ f[s] # 0
        BY <3>3
      <3>5. s # {}
        BY <2>2, <3>4 DEF Term
      <3>6. PICK x \in s : x = Pick(s)
        BY <3>5, Sizes
      <3>7. PICK r \in SUBSET Leaves : r = s \ {x}
        BY <3>4
      <3>8. Cardinality(r) = n - 1 /\ n \in Nat /\ Cardinality(r) \in Nat
        BY <3>4, <3>5, <3>6, <3>7, Sizes
      <3>9. f[r] = 0
        BY <3>3, <3>8
      <3>10. f[s] = charged[x].days + f[r] /\ x \in Leaves
        BY <2>2, <3>5, <3>6, <3>7 DEF Term
      <3>11. QED
        BY <2>1, <3>4, <3>9, <3>10
    <2>4. f[Leaves] = 0
      BY <2>3, Sizes
    <2>5. TotalCharged = 0
      BY <2>4, TotalIs DEF f
    <2>6. QED
      BY <2>5 DEF Init, Bounded, NoBalance, IdleJob
  <1>2. TypeOK /\ Bounded /\ [Next]_vars => Bounded'
    BY Booked, BoundedStep
  <1>3. IInv => TypeOK
    BY DEF IInv
  <1>4. QED
    BY <1>1, <1>2, <1>3, Invariance, PTL DEF Spec

\* deductLeaveBalance reads the balance and saves it plus the days: updates
\* can be lost, but used never exceeds the days that handlers deducted.
THEOREM UsedBounded == Spec => []UsedNeverExceedsCharged
  <1>1. Bounded => UsedNeverExceedsCharged
    BY DEF Bounded, UsedNeverExceedsCharged
  <1>2. QED
    BY <1>1, BoundedInvariance, PTL

-----------------------------------------------------------------------------
(* One operation at a time on a legacy tenant.  What is under way is one    *)
(* event or one handler on one leave; every other leave shows what its      *)
(* workflow decided, and so does this one when the handler is done.         *)

Zero         == [days |-> 0, times |-> 0]
ChargeOf(r)  == IF r.status = "approved" THEN [days |-> r.days, times |-> 1] ELSE Zero
Settled(l)   == leave[l].status = MirrorOf(wf[l].status) /\ charged[l] = ChargeOf(leave[l])
Uncharged(l) == leave[l].status # "approved" /\ charged[l] = Zero

Outcome(event) == CASE event = "stepApproved" -> "in_review" [] OTHER -> event

OneAtATime ==
  /\ \A i, j \in Running : i = j
  /\ \A e, f \in Waiting : e = f /\ pending[e] = 1
  /\ Running = {} \/ Waiting = {}

\* An emitted event tells what the workflow decided.
Announced == \A e \in Waiting : Uncharged(e[2]) /\ wf[e[2]].status = Outcome(e[1])

\* A running handler remembers the leave as it will be.
Doing(j) ==
  LET k == job[j] IN
  /\ k.kind \in Events \union {"cancel", "edit", "adminEdit", "editDocs"}
  /\ k.kind \in Events =>
       /\ k.pc \in {"readBalance", "charge", "save"}
       /\ Uncharged(k.l) /\ k.mem.status = MirrorOf(wf[k.l].status)
       /\ k.mem.status = "approved" <=> k.kind = "approved"
  /\ k.kind = "cancel" =>
       /\ k.pc \in {"save", "nested", "saveWf"}
       /\ k.mem.status = "cancelled" /\ wf[k.l].status = "pending" /\ charged[k.l] = Zero
       /\ k.pc # "save" => leave[k.l].status = "cancelled"
  /\ k.kind \in {"edit", "adminEdit"} =>
       k.pc = "save" /\ Settled(k.l) /\ Uncharged(k.l) /\ k.mem.status = leave[k.l].status
  /\ k.kind = "editDocs" => k.pc = "save" /\ Settled(k.l) /\ k.mem = leave[k.l]
  /\ k.pc = "charge" \/ (k.pc = "save" /\ k.kind = "approved") => k.bal = used

InHand == \A j \in Running : Doing(j)

Busy(l) == (\E e \in Waiting : e[2] = l) \/ (\E j \in Running : job[j].l = l)

OthersSettled == \A l \in Leaves : Busy(l) \/ Settled(l)

BalanceIsSum == used # NoBalance => used = TotalCharged

Orderly == OneAtATime /\ Announced /\ InHand /\ OthersSettled /\ BalanceIsSum

Serial == ~mixed /\ faults = 0 => Orderly

\* The handler ends: nothing is under way and every leave is settled.
LEMMA OrderlyEnd ==
  ASSUME Running' = {}, Waiting' = {}, \A l \in Leaves : Settled(l)', BalanceIsSum'
  PROVE  Orderly'
  BY DEF Orderly, OneAtATime, Announced, InHand, OthersSettled

\* The handler goes on: the other leaves are settled.
LEMMA OrderlyGo ==
  ASSUME NEW j \in Jobs, Running' = {j}, Waiting' = {}, Doing(j)',
         NEW l \in Leaves, job'[j].l = l,
         \A m \in Leaves : m # l => Settled(m)', BalanceIsSum'
  PROVE  Orderly'
  <1>1. OneAtATime' /\ Announced' /\ InHand'
    BY DEF OneAtATime, Announced, InHand
  <1>2. Busy(l)'
    BY DEF Busy
  <1>3. OthersSettled'
    BY <1>2 DEF OthersSettled
  <1>4. QED
    BY <1>1, <1>3 DEF Orderly

\* The balance stays what it was when nothing is deducted.
LEMMA SumStays == ASSUME BalanceIsSum, UNCHANGED <<used, charged>> PROVE BalanceIsSum'
  BY TotalIs DEF BalanceIsSum

\* A decision of the workflow, when nothing else is under way.
LEMMA OrderlyDecide ==
  ASSUME TypeOK, Orderly, ~Provisioned, Quiet, NEW l \in Leaves, NEW event \in Events, NEW level,
         Decide(l, Outcome(event), level, event)
  PROVE  Orderly'
  <1>1. PICK e \in Events \X Leaves : e = <<event, l>>
    OBVIOUS
  <1>2. /\ pending' = [pending EXCEPT ![e] = @ + 1] /\ UNCHANGED <<leave, used, job, charged>>
        /\ wf' = [wf EXCEPT ![l] = [status |-> Outcome(event), level |-> level]]
        /\ wf[l].status \in {"pending", "in_review"}
    BY <1>1 DEF Decide, Emit
  <1>3. \A f \in Events \X Leaves : pending[f] = 0
    BY DEF Quiet, Waiting, TypeOK
  <1>4. pending'[e] = 1 /\ \A f \in Events \X Leaves : f # e => pending'[f] = 0
    BY <1>2, <1>3 DEF TypeOK
  <1>5. Waiting' = {e} /\ Running' = {} /\ Running = {} /\ Waiting = {}
    BY <1>2, <1>4 DEF Waiting, Running, Quiet
  <1>6. \A m \in Leaves : Settled(m)
    BY <1>5 DEF Orderly, OthersSettled, Busy
  <1>7. wf'[l].status = Outcome(event) /\ \A m \in Leaves : m # l => wf'[m] = wf[m]
    BY <1>2 DEF TypeOK
  <1>8. Uncharged(l)
    <2>1. leave[l].status \in {"pending", "processing"}
      BY <1>2, <1>6 DEF Settled, MirrorOf
    <2>2. QED
      BY <1>6, <2>1 DEF Settled, ChargeOf, Uncharged
  <1>9. Uncharged(l)'
    BY <1>2, <1>8 DEF Uncharged
  <1>10. e[1] = event /\ e[2] = l
    BY <1>1
  <1>11. OneAtATime' /\ Announced' /\ InHand'
    BY <1>4, <1>5, <1>7, <1>9, <1>10 DEF OneAtATime, Announced, InHand
  <1>12. OthersSettled'
    <2>1. \A m \in Leaves : m # l => Settled(m)'
      BY <1>2, <1>6, <1>7 DEF Settled
    <2>2. Busy(l)'
      BY <1>5, <1>10 DEF Busy
    <2>3. QED
      BY <2>1, <2>2 DEF OthersSettled
  <1>13. QED
    BY <1>2, <1>11, <1>12, SumStays DEF Orderly

\* A handler begins on a leave, when nothing else is under way.
LEMMA OrderlyBegin ==
  ASSUME TypeOK, BalanceIsSum, Running = {}, Waiting' = {}, UNCHANGED <<leave, wf, used, charged>>,
         NEW j \in Jobs, NEW l \in Leaves, NEW kind \in (DirectOps \union Events) \ Deciding, Begin(j, kind, l),
         \A m \in Leaves : m # l => Settled(m),
         IF kind \in Events THEN Uncharged(l) /\ wf[l].status = Outcome(kind) ELSE Settled(l)
  PROVE  Orderly'
  <1>1. /\ \A i \in Jobs : i # j => job'[i] = job[i]
        /\ job'[j].kind = kind /\ job'[j].l = l /\ job'[j].mem \in Row /\ job'[j].bal = NoBalance
        /\ job'[j].pc = IF Charging(kind) THEN "readBalance" ELSE "save"
        /\ job'[j].mem.status = NewStatus(kind, leave[l].status)
        /\ job'[j].mem.days \in NewDays(kind, leave[l].days)
    BY BeginType, BeginBal
  <1>2. Running' = {j}
    BY <1>1 DEF Running
  <1>3. Allowed(kind, leave[l].status)
    BY DEF Begin
  <1>4. leave[l] \in Row /\ wf[l].status \in WfStatus
    BY DEF TypeOK
  <1>5. kind \in Events \union {"cancel", "edit", "adminEdit", "editDocs"}
    BY DEF DirectOps, Deciding
  <1>6. (Settled(l)' <=> Settled(l)) /\ (Uncharged(l)' <=> Uncharged(l))
    BY DEF Settled, Uncharged
  <1>7. Charging(kind) <=> kind = "approved"
    BY <1>5 DEF Charging, Events
  <1>8. CASE kind \in Events
    <2>1. Uncharged(l)' /\ job'[j].mem.status = MirrorOf(wf[l].status)
      BY <1>1, <1>6, <1>8 DEF Events, NewStatus, MirrorOf, Outcome
    <2>2. job'[j].mem.status = "approved" <=> kind = "approved"
      BY <1>1, <1>8 DEF Events, NewStatus
    <2>3. Doing(j)'
      BY <1>1, <1>5, <1>7, <1>8, <2>1, <2>2 DEF Doing, Events
    <2>4. QED
      BY <1>1, <1>2, <2>3, OrderlyGo, SumStays DEF Settled
  <1>9. CASE kind = "cancel"
    <2>1. leave[l].status = "pending"
      BY <1>3, <1>9 DEF Allowed
    <2>2. wf[l].status = "pending" /\ charged[l] = Zero
      BY <1>4, <1>9, <2>1 DEF Settled, MirrorOf, ChargeOf, WfStatus, Events
    <2>3. Doing(j)'
      BY <1>1, <1>7, <1>9, <2>2 DEF Doing, Events, NewStatus
    <2>4. QED
      BY <1>1, <1>2, <2>3, OrderlyGo, SumStays DEF Settled
  <1>10. CASE kind \in {"edit", "adminEdit"}
    <2>1. Settled(l)' /\ Uncharged(l)'
      BY <1>3, <1>6, <1>10 DEF Allowed, Settled, Uncharged, ChargeOf, Events
    <2>2. job'[j].mem.status = leave[l].status
      BY <1>1, <1>10 DEF NewStatus
    <2>3. Doing(j)'
      BY <1>1, <1>7, <1>10, <2>1, <2>2 DEF Doing, Events
    <2>4. QED
      BY <1>1, <1>2, <2>3, OrderlyGo, SumStays DEF Settled
  <1>11. CASE kind = "editDocs"
    <2>1. job'[j].mem.status = leave[l].status /\ job'[j].mem.days = leave[l].days
      BY <1>1, <1>11 DEF NewStatus, NewDays
    <2>2. job'[j].mem = leave[l]
      BY <1>1, <1>4, <2>1 DEF Row
    <2>3. Doing(j)'
      BY <1>1, <1>6, <1>7, <1>11, <2>2 DEF Doing, Events
    <2>4. QED
      BY <1>1, <1>2, <2>3, OrderlyGo, SumStays DEF Settled
  <1>12. QED
    BY <1>5, <1>8, <1>9, <1>10, <1>11

\* A running handler is the only one.
LEMMA OrderlyRunning ==
  ASSUME IInv, Orderly, NEW j \in Jobs, job[j].pc # "idle"
  PROVE  /\ Running = {j} /\ Waiting = {} /\ Doing(j) /\ BalanceIsSum
         /\ job[j].l \in Leaves /\ job[j].mem \in Row /\ job[j] \in Job /\ JobOK(j)
         /\ \A m \in Leaves : m # job[j].l => Settled(m)
  <1>1. j \in Running
    BY DEF Running
  <1>2. Running = {j} /\ Waiting = {}
    BY <1>1 DEF Orderly, OneAtATime, Running
  <1>3. \A m \in Leaves : m # job[j].l => Settled(m)
    BY <1>2 DEF Orderly, OthersSettled, Busy
  <1>4. QED
    BY <1>1, <1>2, <1>3 DEF Orderly, InHand, IInv, TypeOK

\* A handler saves the leave: what it remembered is what the workflow decided,
\* and the final approval deducts the days with it.
LEMMA OrderlySave ==
  ASSUME IInv, Bounded, Orderly, ~Provisioned, NEW j \in Jobs, Save(j)
  PROVE  Orderly'
  <1> DEFINE l == job[j].l
             mem == job[j].mem
  <1>1. /\ Running = {j} /\ Waiting = {} /\ Doing(j) /\ BalanceIsSum /\ l \in Leaves /\ mem \in Row /\ job[j] \in Job
        /\ \A m \in Leaves : m # l => Settled(m)
    BY OrderlyRunning DEF Save
  <1>2. /\ job[j].pc = "save" /\ UNCHANGED <<wf, pending>>
        /\ leave' = [leave EXCEPT ![l] = mem]
    BY DEF Save
  <1>3. leave'[l] = mem /\ \A m \in Leaves : m # l => leave'[m] = leave[m]
    BY <1>1, <1>2 DEF IInv, TypeOK
  <1>4. Waiting' = {}
    BY <1>1, <1>2 DEF Waiting
  <1>5. CASE job[j].kind = "cancel"
    <2>1. job' = [job EXCEPT ![j] = [@ EXCEPT !.pc = "nested"]] /\ UNCHANGED <<used, charged>>
      BY <1>5 DEF Save, Charging
    <2>2. /\ \A i \in Jobs : i # j => job'[i] = job[i]
          /\ job'[j].pc = "nested" /\ job'[j].kind = "cancel" /\ job'[j].l = l /\ job'[j].mem = mem
      BY <1>1, <1>5, <2>1 DEF IInv, TypeOK, Job
    <2>3. Running' = {j}
      BY <1>1, <2>2 DEF Running
    <2>4. Doing(j)'
      BY <1>1, <1>2, <1>3, <1>5, <2>1, <2>2 DEF Doing, Events
    <2>5. \A m \in Leaves : m # l => Settled(m)'
      BY <1>1, <1>2, <1>3, <2>1 DEF Settled
    <2>6. QED
      BY <1>1, <1>4, <2>1, <2>2, <2>3, <2>4, <2>5, OrderlyGo, SumStays
  <1>6. CASE job[j].kind # "cancel"
    <2>1. job' = [job EXCEPT ![j] = IdleJob]
      BY <1>6 DEF Save
    <2>2. Running' = {}
      BY <1>1, <2>1 DEF IInv, TypeOK, Running, IdleJob
    <2>3. CASE job[j].kind = "approved"
      <3>1. Deduct(j)
        BY <2>3 DEF Save, Charging, InTx
      <3>2. charged[l] = Zero /\ mem.status = "approved" /\ MirrorOf(wf[l].status) = mem.status /\ job[j].bal = used
        BY <1>1, <1>2, <2>3 DEF Doing, Events, Uncharged
      <3>3. mem.days \in Nat /\ TotalCharged' = TotalCharged + mem.days
        BY <1>2, <3>1, DeductTotal DEF IInv
      <3>4. charged'[l] = [days |-> mem.days, times |-> 1] /\ \A m \in Leaves : m # l => charged'[m] = charged[m]
        <4>1. charged' = [charged EXCEPT ![l] = [days |-> 0 + mem.days, times |-> 0 + 1]]
          BY <3>1, <3>2 DEF Deduct, Zero
        <4>2. QED
          BY <1>1, <3>3, <4>1 DEF IInv, TypeOK
      <3>5. \A m \in Leaves : m = l => Settled(m)'
        <4>1. leave'[l] = mem /\ wf'[l] = wf[l] /\ charged'[l] = ChargeOf(mem)
          BY <1>2, <1>3, <3>2, <3>4 DEF ChargeOf
        <4>2. QED
          BY <3>2, <4>1 DEF Settled
      <3>6. \A m \in Leaves : m # l => Settled(m)'
        BY <1>1, <1>2, <1>3, <3>4 DEF Settled
      <3>7. used' = (IF used = NoBalance THEN 0 ELSE used) + mem.days
        BY <3>1, <3>2 DEF Deduct, NewUsed
      <3>8. used' = TotalCharged'
        <4>1. used = NoBalance => TotalCharged = 0
          BY DEF Bounded
        <4>2. used # NoBalance => used = TotalCharged
          BY <1>1 DEF BalanceIsSum
        <4>3. QED
          BY <3>3, <3>7, <4>1, <4>2
      <3>9. QED
        BY <1>4, <2>2, <3>5, <3>6, <3>8, OrderlyEnd DEF BalanceIsSum
    <2>4. CASE job[j].kind # "approved"
      <3>1. ~Charging(job[j].kind)
        BY <1>1, <2>4 DEF Doing, Charging, Events
      <3>2. UNCHANGED <<used, charged>>
        BY <3>1 DEF Save
      <3>3. MirrorOf(wf[l].status) = mem.status /\ charged[l] = ChargeOf(mem)
        BY <1>1, <1>2, <1>6, <2>4 DEF Doing, Uncharged, ChargeOf, Settled
      <3>4. \A m \in Leaves : Settled(m)'
        BY <1>1, <1>2, <1>3, <3>2, <3>3 DEF Settled
      <3>5. QED
        BY <1>1, <1>4, <2>2, <3>2, <3>4, OrderlyEnd, SumStays
    <2>5. QED
      BY <2>3, <2>4
  <1>7. QED
    BY <1>5, <1>6

\* The other steps of a running handler.
LEMMA OrderlyWork ==
  ASSUME IInv, Bounded, Orderly, ~Provisioned, NEW j \in Jobs, Work(j)
  PROVE  Orderly'
  <1> DEFINE l == job[j].l
  <1>0. job[j].pc # "idle"
    BY DEF Work, ReadBalance, Charge, ChargeFails, Save, CancelWorkflow, CancelWorkflowSave, CommitCancel
  <1>1. /\ Running = {j} /\ Waiting = {} /\ Doing(j) /\ BalanceIsSum /\ l \in Leaves /\ job[j] \in Job /\ JobOK(j)
        /\ \A m \in Leaves : m # l => Settled(m)
    BY <1>0, OrderlyRunning
  <1>2. job[j].pc \in {"readBalance", "charge"} => job[j].kind = "approved"
    BY <1>1 DEF JobOK, Doing, Charging, Events
  <1>3. UNCHANGED pending => Waiting' = {}
    BY <1>1 DEF Waiting
  <1>4. CASE ReadBalance(j) \/ Charge(j)
    <2>1. UNCHANGED <<leave, wf, pending, used, charged>> /\ job[j].kind = "approved"
      BY <1>2, <1>4 DEF ReadBalance, Charge, InTx
    <2>2. /\ \A i \in Jobs : i # j => job'[i] = job[i]
          /\ job'[j].pc \in {"charge", "save"} /\ job'[j].kind = "approved" /\ job'[j].l = l /\ job'[j].mem = job[j].mem
          /\ job'[j].bal = used
      BY <1>1, <1>4, <2>1 DEF ReadBalance, Charge, IInv, TypeOK, Job, Doing
    <2>3. Running' = {j}
      BY <1>1, <2>2 DEF Running
    <2>4. Doing(j)'
      BY <1>1, <2>1, <2>2 DEF Doing, Events, Uncharged
    <2>5. \A m \in Leaves : m # l => Settled(m)'
      BY <1>1, <2>1 DEF Settled
    <2>6. QED
      BY <1>1, <1>3, <2>1, <2>2, <2>3, <2>4, <2>5, OrderlyGo, SumStays
  <1>5. CASE ChargeFails(j)
    BY <1>1, <1>5 DEF ChargeFails, DuplicateRow, Doing
  <1>6. CASE Save(j)
    BY <1>6, OrderlySave
  <1>7. CASE CancelWorkflow(j)
    <2>1. job[j].kind = "cancel" /\ wf[l].status = "pending" /\ leave[l].status = "cancelled" /\ charged[l] = Zero
      BY <1>1, <1>7 DEF CancelWorkflow, Doing, JobOK
    <2>2. job' = [job EXCEPT ![j].pc = "saveWf"] /\ UNCHANGED <<leave, wf, pending, used, charged>>
      BY <1>7, <2>1 DEF CancelWorkflow
    <2>3. /\ \A i \in Jobs : i # j => job'[i] = job[i]
          /\ job'[j].pc = "saveWf" /\ job'[j].kind = "cancel" /\ job'[j].l = l /\ job'[j].mem = job[j].mem
      BY <1>1, <2>1, <2>2 DEF IInv, TypeOK, Job
    <2>4. Running' = {j}
      BY <1>1, <2>3 DEF Running
    <2>5. Doing(j)'
      BY <1>1, <2>1, <2>2, <2>3 DEF Doing, Events
    <2>6. \A m \in Leaves : m # l => Settled(m)'
      BY <1>1, <2>2 DEF Settled
    <2>7. QED
      BY <1>1, <1>3, <2>2, <2>3, <2>4, <2>5, <2>6, OrderlyGo, SumStays
  <1>8. CASE CancelWorkflowSave(j)
    <2>1. job[j].kind = "cancel" /\ wf[l].status = "pending" /\ leave[l].status = "cancelled" /\ charged[l] = Zero
      BY <1>1, <1>8 DEF CancelWorkflowSave, Doing, JobOK
    <2>2. /\ job' = [job EXCEPT ![j] = IdleJob] /\ wf' = [wf EXCEPT ![l].status = "cancelled"]
          /\ UNCHANGED <<leave, pending, used, charged>>
      BY <1>8 DEF CancelWorkflowSave, CancelReturns
    <2>3. Running' = {}
      BY <1>1, <2>2 DEF IInv, TypeOK, Running, IdleJob
    <2>4. wf'[l].status = "cancelled" /\ \A m \in Leaves : m # l => wf'[m] = wf[m]
      BY <1>1, <2>2 DEF IInv, TypeOK
    <2>5. \A m \in Leaves : Settled(m)'
      BY <1>1, <2>1, <2>2, <2>4 DEF Settled, ChargeOf, MirrorOf
    <2>6. QED
      BY <1>1, <1>3, <2>2, <2>3, <2>5, OrderlyEnd, SumStays
  <1>9. CASE CommitCancel(j)
    BY <1>1, <1>9 DEF CommitCancel, JobOK, Doing, Events
  <1>10. QED
    BY <1>4, <1>5, <1>6, <1>7, <1>8, <1>9 DEF Work

\* Every step keeps the order.
LEMMA SerialStep ==
  ASSUME IInv, Bounded, Serial, ~Provisioned, [Next]_vars
  PROVE  Serial'
  <1> SUFFICES ASSUME ~mixed', faults' = 0 PROVE Orderly'
    BY DEF Serial
  <1>0. TypeOK
    BY DEF IInv
  <1>1. ASSUME NEW l \in Leaves, ApproveStep(l) \/ ApproveLast(l) \/ RejectStep(l) PROVE Orderly'
    <2>0. PICK event \in Events : \E level : Decide(l, Outcome(event), level, event)
      BY <1>1 DEF ApproveStep, ApproveLast, RejectStep, Outcome, Events
    <2>1. PICK level : Decide(l, Outcome(event), level, event)
      BY <2>0
    <2>2. Quiet /\ ~mixed /\ faults = 0
      BY <2>1 DEF Decide
    <2>3. QED
      BY <1>0, <2>1, <2>2, OrderlyDecide DEF Serial
  <1>2. ASSUME NEW j \in Jobs, NEW event \in Events, NEW l \in Leaves, StartListener(j, event, l) PROVE Orderly'
    <2>1. /\ Begin(j, event, l) /\ UNCHANGED <<leave, wf, used, charged, faults, mixed>>
          /\ pending[<<event, l>>] > 0 /\ pending' = [pending EXCEPT ![<<event, l>>] = @ - 1]
      BY <1>2 DEF StartListener
    <2>2. Orderly
      BY <2>1 DEF Serial
    <2>3. PICK e \in Events \X Leaves : e = <<event, l>>
      OBVIOUS
    <2>4. e \in Waiting /\ e[1] = event /\ e[2] = l
      BY <2>1, <2>3 DEF Waiting
    <2>5. Running = {} /\ Waiting = {e} /\ pending[e] = 1
      BY <2>2, <2>4 DEF Orderly, OneAtATime
    <2>6. Waiting' = {}
      BY <1>0, <2>1, <2>3, <2>5 DEF Waiting, TypeOK
    <2>7. Uncharged(l) /\ wf[l].status = Outcome(event)
      BY <2>2, <2>4 DEF Orderly, Announced
    <2>8. \A m \in Leaves : m # l => Settled(m)
      BY <2>2, <2>4, <2>5 DEF Orderly, OthersSettled, Busy
    <2>9. event \in (DirectOps \union Events) \ Deciding
      BY DEF Events, Deciding
    <2>10. QED
      BY <1>0, <2>1, <2>2, <2>5, <2>6, <2>7, <2>8, <2>9, OrderlyBegin DEF Orderly
  <1>3. ASSUME NEW j \in Jobs, NEW kind \in DirectOps, NEW l \in Leaves, StartDirect(j, kind, l) PROVE Orderly'
    <2>1. Begin(j, kind, l) /\ UNCHANGED <<leave, wf, pending, used, charged, faults>> /\ ~mixed /\ Quiet /\ kind \notin Deciding
      BY <1>3 DEF StartDirect
    <2>2. Orderly
      BY <2>1 DEF Serial
    <2>3. Running = {} /\ Waiting = {} /\ Waiting' = {}
      BY <2>1 DEF Quiet, Waiting
    <2>4. \A m \in Leaves : Settled(m)
      BY <2>2, <2>3 DEF Orderly, OthersSettled, Busy
    <2>5. kind \in (DirectOps \union Events) \ Deciding /\ kind \notin Events
      BY <2>1 DEF DirectOps, Events
    <2>6. QED
      BY <1>0, <2>1, <2>2, <2>3, <2>4, <2>5, OrderlyBegin DEF Orderly
  <1>4. ASSUME NEW j \in Jobs, Work(j) \/ Fail(j) PROVE Orderly'
    <2>1. faults \in Nat
      BY <1>0, BoundsAssumption DEF TypeOK
    <2>2. ~Fail(j)
      BY <2>1 DEF Fail
    <2>3. ~mixed /\ faults = 0
      BY <1>4, <2>2 DEF Work, ReadBalance, Charge, ChargeFails, Save, CancelWorkflow, CancelWorkflowSave, CommitCancel
    <2>4. QED
      BY <1>4, <2>2, <2>3, OrderlyWork DEF Serial
  <1>5. CASE UNCHANGED vars
    <2>1. ~mixed /\ faults = 0 /\ Orderly
      BY <1>5 DEF vars, Serial
    <2>2. Running' = Running /\ Waiting' = Waiting
      BY <1>5 DEF vars, Running, Waiting
    <2>3. OneAtATime' /\ Announced' /\ OthersSettled'
      BY <1>5, <2>1, <2>2 DEF vars, Orderly, OneAtATime, Announced, OthersSettled, Uncharged, Settled, Busy
    <2>4. InHand'
      BY <1>5, <2>1, <2>2 DEF vars, Orderly, InHand, Doing, Uncharged, Settled
    <2>5. QED
      BY <1>5, <2>1, <2>3, <2>4, SumStays DEF vars, Orderly
  <1>6. QED
    BY <1>1, <1>2, <1>3, <1>4, <1>5 DEF Next, Listen

\* On a legacy tenant, when everything an operation set off is done before the
\* next one starts and clients leave decisions to the workflow: the listeners
\* and deductLeaveBalance leave each leave as its workflow decided it, charged
\* exactly when it is approved, and the balance row holds the sum.
THEOREM SerialMirrored ==
  ASSUME ~Provisioned
  PROVE  Spec => []SerialMirrors
  <1>1. Init => Serial
    <2>1. SUFFICES ASSUME Init PROVE Orderly
      BY DEF Serial
    <2>2. Running = {} /\ Waiting = {}
      BY <2>1 DEF Init, Running, Waiting, IdleJob
    <2>3. OneAtATime /\ Announced /\ InHand
      BY <2>2 DEF OneAtATime, Announced, InHand
    <2>4. OthersSettled /\ BalanceIsSum
      BY <2>1 DEF Init, OthersSettled, BalanceIsSum, Settled, MirrorOf, ChargeOf, Zero
    <2>5. QED
      BY <2>3, <2>4 DEF Orderly
  <1>2. IInv /\ Bounded /\ Serial /\ [Next]_vars => Serial'
    BY SerialStep
  <1>3. Serial => SerialMirrors
    <2> SUFFICES ASSUME Serial, ~mixed, faults = 0, Quiet PROVE SerialMirrors
      BY DEF SerialMirrors
    <2>1. \A l \in Leaves : Settled(l)
      BY DEF Serial, Orderly, OthersSettled, Busy, Quiet
    <2>2. BalanceIsSum
      BY DEF Serial, Orderly
    <2>3. QED
      BY <2>1, <2>2 DEF SerialMirrors, Settled, ChargeOf, Zero, BalanceIsSum
  <1>4. QED
    BY <1>1, <1>2, <1>3, Invariance, BoundedInvariance, PTL DEF Spec

=============================================================================

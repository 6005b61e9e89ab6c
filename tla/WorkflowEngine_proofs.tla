------------------------ MODULE WorkflowEngine_proofs ------------------------
(***************************************************************************)
(* Proofs about the two parts of the workflow service.  WorkflowEngine: for *)
(* every set of calls, actors, roles and configurations, on provisioned and *)
(* on legacy tenants.  WorkflowConfig, at the end: for every set of seeded  *)
(* steps and of administrators' calls; the numbering on provisioned tenants. *)
(***************************************************************************)
EXTENDS WorkflowEngine, WorkflowConfig, FiniteSetTheorems, SequenceTheorems, TLAPS

(* The strengthening: what a call read was once committed, so what it       *)
(* claims is already backed by recorded verdicts.                           *)

Legit(d, ds) ==
  /\ DecisionsIn(d) \subseteq ds
  /\ d.cur <= Total
  /\ \A o \in 1 .. d.cur : o < d.cur => o \in Orders /\ ApprovedIn(o, ds)
  /\ d.status = "approved" => \A o \in Orders : ApprovedIn(o, ds)
  /\ d.status = "rejected" => \E t \in ds : t[3] = "rejected"

Recorded(c, ds) ==
  <<call[c].read.cur, call[c].actor, Verdict(call[c].op)>> \in ds

ReadOK(c) ==
  /\ Legit(call[c].read, decisions)
  /\ call[c].op \in Ops
  /\ call[c].op = "cancel" => /\ call[c].pc # "saveStep"
                              /\ call[c].read.status \in Open \union {"cancelled"}
  /\ call[c].op # "cancel" => /\ call[c].read.status \in Open
                              /\ call[c].read.cur \in Orders
                              /\ call[c].actor \in Actors
                              /\ Eligible(call[c].actor, call[c].read.cur)

WriteOK(c) ==
  call[c].op # "cancel" /\ call[c].pc # "saveStep" =>
    IF Provisioned THEN call[c].read.cur \in call[c].rows
                   ELSE Recorded(c, decisions)

CallsOK == \A c \in Calls : call[c].pc \in InFlight => ReadOK(c) /\ WriteOK(c)

IInv == TypeOK /\ Legit(db, decisions) /\ NoLevelSkipped /\ CallsOK

-----------------------------------------------------------------------------
(* Lemmas on the operators of the model *)

\* total_steps of the chain is a natural number.
LEMMA TotalIsNat == ASSUME chain \in Chains PROVE Total \in Nat
  BY ChainsAssumption, FS_CardinalityType DEF Total, Orders

\* A chain with total_steps levels that reaches from 1 to total_steps has no
\* other level: isLastStep is reached only at the end of a gapless chain.
LEMMA FullRange ==
  ASSUME chain \in Chains, 1 .. Total \subseteq Orders
  PROVE  Orders = 1 .. Total
  <1>1. IsFiniteSet(Orders)
    BY ChainsAssumption DEF Orders
  <1>2. Total \in Nat
    BY TotalIsNat
  <1>3. Cardinality(1 .. Total) = Total
    BY <1>2, FS_Interval
  <1>4. QED
    BY <1>1, <1>3, FS_Subset DEF Total

\* Mem(c) is an aggregate whenever the call read one.
LEMMA MemType ==
  ASSUME TypeOK, NEW c \in Calls, call[c].op \in Ops,
         call[c].op # "cancel" => call[c].read.cur \in Orders /\ call[c].actor \in Actors
  PROVE  Mem(c) \in Aggregate
  <1>1. call[c] \in CallRecord
    BY DEF TypeOK
  <1>2. NextStatus(call[c].read, call[c].op) \in Status
    BY <1>1 DEF NextStatus, Status, Open, Terminal
  <1>3. NextCur(call[c].read, call[c].op) \in Nat
    BY <1>1 DEF NextCur, CallRecord, Aggregate
  <1>4. ActedSteps(call[c].read, call[c].op, call[c].actor) \in [Orders -> StepRow]
    BY <1>1 DEF ActedSteps, CallRecord, Aggregate, StepRow, Verdict, Verdicts, Ops
  <1>5. QED
    BY <1>2, <1>3, <1>4 DEF Mem, Aggregate

\* Overwriting one aggregate with parts of another gives an aggregate.
LEMMA OverwriteType ==
  ASSUME NEW d \in Aggregate, NEW m \in Aggregate, NEW cols, NEW rows
  PROVE  Overwrite(d, m, cols, rows) \in Aggregate
  BY DEF Overwrite, Aggregate

\* The verdicts in overwritten rows come from one of the two aggregates.
LEMMA OverwriteDecisions ==
  ASSUME NEW d, NEW m, NEW cols, NEW rows
  PROVE  DecisionsIn(Overwrite(d, m, cols, rows))
           \subseteq DecisionsIn(d) \union DecisionsIn(m)
  BY DEF Overwrite, DecisionsIn

\* Besides the verdicts it read, a call's memory holds only its own.
LEMMA MemDecisions ==
  ASSUME TypeOK, NEW c \in Calls, call[c].op \in Ops,
         Legit(call[c].read, decisions),
         call[c].op # "cancel" => call[c].read.cur \in Orders
  PROVE  /\ call[c].op = "cancel" => DecisionsIn(Mem(c)) \subseteq decisions
         /\ DecisionsIn(Mem(c)) \subseteq
              decisions \union {<<call[c].read.cur, call[c].actor, Verdict(call[c].op)>>}
  <1>1. call[c].read \in Aggregate
    BY DEF TypeOK, CallRecord
  <1>2. DecisionsIn(call[c].read) \subseteq decisions
    BY DEF Legit
  <1>3. CASE call[c].op = "cancel"
    <2>1. Mem(c).steps = call[c].read.steps
      BY <1>3 DEF Mem, ActedSteps
    <2>2. DecisionsIn(Mem(c)) = DecisionsIn(call[c].read)
      BY <2>1 DEF DecisionsIn
    <2>3. QED
      BY <1>2, <2>2
  <1>4. CASE call[c].op # "cancel"
    <2> DEFINE cur == call[c].read.cur
    <2>1. Mem(c).steps = [call[c].read.steps EXCEPT ![cur] =
                            [st |-> Verdict(call[c].op), by |-> call[c].actor]]
      BY <1>4 DEF Mem, ActedSteps
    <2>2. ASSUME NEW o \in Orders
          PROVE  Mem(c).steps[o] = IF o = cur
                   THEN [st |-> Verdict(call[c].op), by |-> call[c].actor]
                   ELSE call[c].read.steps[o]
      BY <2>1, <1>1 DEF Aggregate
    <2>3. ASSUME NEW t \in DecisionsIn(Mem(c))
          PROVE  t \in decisions \union {<<cur, call[c].actor, Verdict(call[c].op)>>}
      <3>1. PICK o \in Orders : /\ Mem(c).steps[o].st \in Verdicts
                                /\ t = <<o, Mem(c).steps[o].by, Mem(c).steps[o].st>>
        BY DEF DecisionsIn
      <3>2. CASE o = cur
        BY <2>2, <3>1, <3>2, SMTT(30)
      <3>3. CASE o # cur
        BY <1>2, <2>2, <3>1, <3>3 DEF DecisionsIn
      <3>4. QED
        BY <3>2, <3>3
    <2>4. QED
      BY <1>4, <2>3
  <1>5. QED
    BY <1>3, <1>4

\* More verdicts never make an aggregate illegitimate.
LEMMA LegitMonotone ==
  ASSUME NEW d, NEW ds, NEW es, ds \subseteq es, Legit(d, ds)
  PROVE  Legit(d, es)
  BY DEF Legit, ApprovedIn
\* Columns taken from two legitimate aggregates make a legitimate one: each
\* clause of Legit is about one column.
LEMMA OverwriteLegit ==
  ASSUME NEW d, NEW m, NEW cols, NEW rows, NEW ds, Legit(d, ds), Legit(m, ds)
  PROVE  Legit(Overwrite(d, m, cols, rows), ds)
  <1> DEFINE n == Overwrite(d, m, cols, rows)
  <1>1. DecisionsIn(n) \subseteq ds
    BY OverwriteDecisions DEF Legit
  <1>2. n.status \in {d.status, m.status} /\ n.cur \in {d.cur, m.cur}
    BY DEF Overwrite
  <1>3. QED
    BY <1>1, <1>2 DEF Legit

\* Once its own verdict counts, what a call has in memory is legitimate: the
\* new current_step_order and an APPROVED are backed by recorded verdicts.
LEMMA MemLegit ==
  ASSUME TypeOK, NEW c \in Calls, ReadOK(c), NEW ds, decisions \subseteq ds,
         call[c].op # "cancel" => Recorded(c, ds)
  PROVE  Legit(Mem(c), ds)
  <1> DEFINE r == call[c].read
             m == Mem(c)
  <1>1. r \in Aggregate /\ r.cur \in Nat /\ Total \in Nat
    BY TotalIsNat DEF TypeOK, CallRecord, Aggregate
  <1>2. Legit(r, ds)
    BY LegitMonotone DEF ReadOK
  <1>3. DecisionsIn(m) \subseteq ds
    BY MemDecisions DEF ReadOK, Recorded
  <1>4. CASE call[c].op = "cancel"
    <2>1. m.cur = r.cur /\ m.status = "cancelled"
      BY <1>4 DEF Mem, NextCur, NextStatus
    <2>2. QED
      BY <1>2, <1>3, <2>1 DEF Legit
  <1>5. CASE call[c].op = "reject"
    <2>1. m.cur = r.cur /\ m.status = "rejected"
      BY <1>5 DEF Mem, NextCur, NextStatus
    <2>2. <<r.cur, call[c].actor, "rejected">> \in ds
      BY <1>5 DEF Recorded, Verdict
    <2>3. \E t \in ds : t[3] = "rejected"
      BY <2>2
    <2>4. QED
      BY <1>2, <1>3, <2>1, <2>3 DEF Legit
  <1>6. CASE call[c].op = "approve"
    <2>1. r.cur \in Orders /\ ApprovedIn(r.cur, ds)
      BY <1>6 DEF ReadOK, Recorded, Verdict, ApprovedIn
    <2>2. CASE IsLastStep(r)
      <3>1. m.cur = r.cur /\ m.status = "approved"
        BY <1>6, <2>2 DEF Mem, NextCur, NextStatus
      <3>2. r.cur = Total
        BY <1>1, <1>2, <2>2 DEF Legit, IsLastStep
      <3>3. 1 .. Total \subseteq Orders
        BY <1>1, <1>2, <2>1, <3>2 DEF Legit
      <3>4. Orders = 1 .. Total
        BY <3>3, FullRange DEF TypeOK
      <3>5. ASSUME NEW o \in Orders PROVE ApprovedIn(o, ds)
        BY <1>1, <1>2, <2>1, <3>2, <3>4 DEF Legit
      <3>6. QED
        BY <1>2, <1>3, <3>1, <3>5 DEF Legit
    <2>3. CASE ~IsLastStep(r)
      <3>1. m.cur = r.cur + 1 /\ m.status = "in_review"
        BY <1>6, <2>3 DEF Mem, NextCur, NextStatus
      <3>2. m.cur <= Total
        BY <1>1, <2>3, <3>1 DEF IsLastStep
      <3>3. ASSUME NEW o \in 1 .. m.cur, o < m.cur
            PROVE  o \in Orders /\ ApprovedIn(o, ds)
        <4>1. o \in 1 .. r.cur /\ (o < r.cur \/ o = r.cur)
          BY <1>1, <3>1, <3>3
        <4>2. QED
          BY <4>1, <1>2, <2>1 DEF Legit
      <3>4. QED
        BY <1>3, <3>1, <3>2, <3>3 DEF Legit
    <2>4. QED
      BY <2>2, <2>3
  <1>7. QED
    BY <1>4, <1>5, <1>6 DEF ReadOK, Ops

\* The one place where committed rows change after creation.
LEMMA StoreOK ==
  ASSUME TypeOK, Legit(db, decisions), NoLevelSkipped,
         NEW c \in Calls, ReadOK(c), NEW cols, NEW rows, NEW seen,
         call[c].op # "cancel" =>
            call[c].read.cur \in rows \/ Recorded(c, decisions),
         Store(Overwrite(db, Mem(c), cols, rows), seen),
         UNCHANGED chain
  PROVE  /\ db' \in Aggregate
         /\ decisions' \subseteq Orders \X Actors \X Verdicts
         /\ raced' \in BOOLEAN
         /\ decisions \subseteq decisions'
         /\ call[c].op # "cancel" => Recorded(c, decisions')
         /\ Legit(db', decisions')
         /\ NoLevelSkipped'
  <1> DEFINE n == Overwrite(db, Mem(c), cols, rows)
             own == <<call[c].read.cur, call[c].actor, Verdict(call[c].op)>>
  <1>1. /\ db' = n
        /\ decisions' = decisions \union DecisionsIn(n)
        /\ raced' \in BOOLEAN
    BY DEF Store, TypeOK
  <1>2. n \in Aggregate
    BY MemType, OverwriteType DEF TypeOK, ReadOK
  <1>3. /\ call[c].op = "cancel" => DecisionsIn(n) \subseteq decisions
        /\ DecisionsIn(n) \subseteq decisions \union {own}
    BY MemDecisions, OverwriteDecisions DEF Legit, ReadOK
  <1>4. call[c].op # "cancel" => own \in Orders \X Actors \X Verdicts
    BY DEF ReadOK, Verdict, Verdicts
  <1>5. decisions' \subseteq Orders \X Actors \X Verdicts
    BY <1>1, <1>3, <1>4 DEF TypeOK
  <1>6. call[c].op # "cancel" => own \in decisions'
    <2> SUFFICES ASSUME call[c].op # "cancel", call[c].read.cur \in rows
                 PROVE  own \in DecisionsIn(n)
      BY <1>1 DEF Recorded
    <2>1. call[c].read.cur \in Orders /\ call[c].read.steps \in [Orders -> StepRow]
      BY DEF ReadOK, TypeOK, CallRecord, Aggregate
    <2>2. n.steps[call[c].read.cur] = Mem(c).steps[call[c].read.cur]
      BY <2>1 DEF Overwrite
    <2>3. Mem(c).steps[call[c].read.cur] =
            [st |-> Verdict(call[c].op), by |-> call[c].actor]
      BY <2>1 DEF Mem, ActedSteps
    <2>4. Verdict(call[c].op) \in Verdicts
      BY DEF Verdict, Verdicts
    <2>5. QED
      BY <2>1, <2>2, <2>3, <2>4 DEF DecisionsIn
  <1>7. Legit(n, decisions')
    <2>1. Legit(Mem(c), decisions')
      BY <1>1, <1>6, MemLegit DEF Recorded
    <2>2. Legit(db, decisions')
      BY <1>1, LegitMonotone
    <2>3. QED
      BY <2>1, <2>2, OverwriteLegit
  <1>8. NoLevelSkipped'
    <2> SUFFICES ASSUME NEW t \in decisions'
                 PROVE  /\ Eligible(t[2], t[1])
                        /\ \A o \in 1 .. t[1] : o < t[1] =>
                              o \in Orders /\ ApprovedIn(o, decisions')
      BY DEF NoLevelSkipped, Eligible, ApprovedIn, Orders
    <2>1. CASE t \in decisions
      BY <2>1, <1>1 DEF NoLevelSkipped, ApprovedIn
    <2>2. CASE t \notin decisions
      <3>1. t = own /\ call[c].op # "cancel"
        BY <2>2, <1>1, <1>3
      <3>2. Eligible(call[c].actor, call[c].read.cur)
        BY <3>1 DEF ReadOK
      <3>3. Legit(call[c].read, decisions')
        BY <1>1, LegitMonotone DEF ReadOK
      <3>4. QED
        BY <3>1, <3>2, <3>3 DEF Legit
    <2>3. QED
      BY <2>1, <2>2
  <1>9. QED
    BY <1>1, <1>2, <1>5, <1>6, <1>7, <1>8 DEF Recorded
-----------------------------------------------------------------------------
(* The inductive invariant *)

LEMMA NoRowOK == ASSUME chain \in Chains PROVE NoRow \in Aggregate /\ Legit(NoRow, {})
  <1>1. NoRow \in Aggregate
    BY DEF NoRow, AbsentStep, StepRow, Aggregate, Status
  <1>2. DecisionsIn(NoRow) = {}
    BY DEF NoRow, AbsentStep, DecisionsIn, Verdicts
  <1>3. QED
    BY <1>1, <1>2, TotalIsNat DEF NoRow, Legit

LEMMA InitIInv == Init => IInv
  <1> SUFFICES ASSUME Init PROVE IInv
    OBVIOUS
  <1>1. chain \in Chains /\ NoRow \in Aggregate /\ Legit(NoRow, {})
    BY NoRowOK DEF Init
  <1>2. IdleCall \in CallRecord
    BY <1>1 DEF IdleCall, CallRecord, PCs, InFlight
  <1>3. TypeOK
    BY <1>1, <1>2 DEF Init, TypeOK
  <1>4. CallsOK
    BY DEF Init, CallsOK, IdleCall, InFlight
  <1>5. QED
    BY <1>1, <1>3, <1>4 DEF Init, IInv, NoLevelSkipped

\* What a call has read stays legitimate when neither it nor the chain changes.
LEMMA LegitStays ==
  ASSUME NEW c \in Calls, UNCHANGED chain, call'[c].read = call[c].read,
         Legit(call[c].read, decisions')
  PROVE  Legit(call[c].read, decisions)'
  <1>1. Orders' = Orders /\ Total' = Total
    BY DEF Orders, Total
  <1>2. \A o, ds : ApprovedIn(o, ds)' <=> ApprovedIn(o, ds)
    BY DEF ApprovedIn, Eligible
  <1>3. (DecisionsIn(call[c].read) \subseteq decisions)'
    BY <1>1 DEF Legit, DecisionsIn
  <1>4. (call[c].read.cur <= Total)'
    BY <1>1 DEF Legit
  <1>5. (\A o \in 1 .. call[c].read.cur :
           o < call[c].read.cur => o \in Orders /\ ApprovedIn(o, decisions))'
    BY <1>1, <1>2 DEF Legit, ApprovedIn, Eligible
  <1>6. (call[c].read.status = "approved" => \A o \in Orders : ApprovedIn(o, decisions))'
    BY <1>1, <1>2 DEF Legit, ApprovedIn, Eligible
  <1>7. (call[c].read.status = "rejected" => \E t \in decisions : t[3] = "rejected")'
    BY DEF Legit
  <1>8. QED
    BY <1>3, <1>4, <1>5, <1>6, <1>7 DEF Legit

\* A step of call c leaves what the others hold alone; what they read stays
\* legitimate because verdicts are never lost.
LEMMA OtherCallsOK ==
  ASSUME IInv, NEW c \in Calls, UNCHANGED chain, decisions \subseteq decisions',
         \A d \in Calls \ {c} : call'[d] = call[d],
         call'[c].pc \in InFlight => (ReadOK(c) /\ WriteOK(c))'
  PROVE  CallsOK'
  <1> SUFFICES ASSUME NEW d \in Calls, call'[d].pc \in InFlight
               PROVE  (ReadOK(d) /\ WriteOK(d))'
    BY DEF CallsOK
  <1>1. CASE d = c
    BY <1>1
  <1>2. CASE d # c
    <2>1. call'[d] = call[d]
      BY <1>2
    <2>2. ReadOK(d) /\ WriteOK(d)
      BY <2>1 DEF IInv, CallsOK
    <2>3. Legit(call[d].read, decisions')
      BY <2>2, LegitMonotone DEF ReadOK
    <2>4. ReadOK(d)'
      <3>1. Legit(call[d].read, decisions)'
        BY <2>1, <2>3, LegitStays
      <3>2. QED
        BY <2>1, <2>2, <3>1 DEF ReadOK, Orders, Eligible
    <2>5. WriteOK(d)'
      BY <2>1, <2>2 DEF WriteOK, Recorded
    <2>6. QED
      BY <2>4, <2>5
  <1>3. QED
    BY <1>1, <1>2

\* A step that neither saves nor records leaves what a call has read legitimate.
LEMMA ReadStays ==
  ASSUME NEW c \in Calls, UNCHANGED <<chain, decisions>>, ReadOK(c),
         call'[c].read = call[c].read, call'[c].op = call[c].op,
         call'[c].actor = call[c].actor, call'[c].pc # "saveStep"
  PROVE  ReadOK(c)'
  <1>1. Legit(call[c].read, decisions')
    BY DEF ReadOK
  <1>2. Legit(call[c].read, decisions)'
    BY <1>1, LegitStays
  <1>3. Orders' = Orders
    BY DEF Orders
  <1>4. Eligible(call[c].actor, call[c].read.cur)' <=> Eligible(call[c].actor, call[c].read.cur)
    BY DEF Eligible
  <1>5. QED
    BY <1>2, <1>3, <1>4 DEF ReadOK

\* A step that only moves call c.
LEMMA QuietStep ==
  ASSUME IInv, NEW c \in Calls, UNCHANGED <<chain, db, decisions, raced>>,
         call' \in [Calls -> CallRecord],
         \A d \in Calls \ {c} : call'[d] = call[d],
         call'[c].pc \in InFlight => (ReadOK(c) /\ WriteOK(c))'
  PROVE  IInv'
  <1>1. CallsOK'
    BY OtherCallsOK
  <1>2. TypeOK'
    BY DEF IInv, TypeOK, CallRecord, Aggregate, Orders
  <1>3. Legit(db, decisions)' /\ NoLevelSkipped'
    BY SMTT(30) DEF IInv, Legit, NoLevelSkipped, DecisionsIn, Orders, Total, ApprovedIn, Eligible
  <1>4. QED
    BY <1>1, <1>2, <1>3 DEF IInv

\* A step in which call c stores its memory in the committed rows.
LEMMA StoreStep ==
  ASSUME IInv, NEW c \in Calls, ReadOK(c), NEW cols, NEW rows, NEW seen,
         call[c].op # "cancel" =>
            call[c].read.cur \in rows \/ Recorded(c, decisions),
         Store(Overwrite(db, Mem(c), cols, rows), seen),
         UNCHANGED chain,
         call' \in [Calls -> CallRecord],
         \A d \in Calls \ {c} : call'[d] = call[d],
         /\ call'[c].read = call[c].read
         /\ call'[c].op = call[c].op
         /\ call'[c].actor = call[c].actor,
         call'[c].pc \in InFlight => ~Provisioned /\ call'[c].pc # "saveStep"
  PROVE  IInv'
  <1>1. /\ db' \in Aggregate
        /\ decisions' \subseteq Orders \X Actors \X Verdicts
        /\ raced' \in BOOLEAN
        /\ decisions \subseteq decisions'
        /\ call[c].op # "cancel" => Recorded(c, decisions')
        /\ Legit(db', decisions')
        /\ NoLevelSkipped'
    BY StoreOK DEF IInv
  <1>2. ASSUME call'[c].pc \in InFlight PROVE (ReadOK(c) /\ WriteOK(c))'
    <2>1. Legit(call[c].read, decisions')
      BY <1>1, LegitMonotone DEF ReadOK
    <2>2. ReadOK(c)'
      <3>1. Legit(call[c].read, decisions)'
        BY <2>1, LegitStays
      <3>2. QED
        BY <1>2, <3>1 DEF ReadOK, Orders, Eligible
    <2>3. WriteOK(c)'
      BY <1>1, <1>2 DEF WriteOK, Recorded
    <2>4. QED
      BY <2>2, <2>3
  <1>3. CallsOK'
    BY <1>1, <1>2, OtherCallsOK
  <1>4. TypeOK'
    BY <1>1 DEF IInv, TypeOK, CallRecord, Aggregate, Orders
  <1>5. Legit(db, decisions)'
    BY <1>1 DEF Legit, DecisionsIn, Orders, Total, ApprovedIn, Eligible
  <1>6. QED
    BY <1>1, <1>3, <1>4, <1>5 DEF IInv

LEMMA CreateIInv == ASSUME IInv, CreateRequest \/ CreateSteps PROVE IInv'
  <1> USE DEF IInv
  <1>1. /\ UNCHANGED <<chain, call, decisions, raced>>
        /\ db' \in Aggregate
        /\ DecisionsIn(db') = {}
        /\ db'.status = "pending" \/ db'.status = db.status
        /\ db'.cur = 1 \/ db'.cur = db.cur
    <2>1. CASE CreateRequest
      BY <2>1 DEF CreateRequest, Aggregate, Status, Open, StepRow, PendingStep,
                  AbsentStep, DecisionsIn, Verdicts
    <2>2. CASE CreateSteps
      BY <2>2 DEF TypeOK, CreateSteps, Aggregate, StepRow, PendingStep, DecisionsIn, Verdicts
    <2>3. QED
      BY <2>1, <2>2
  <1>2. 1 <= Total
    <2>1. Orders # {} /\ IsFiniteSet(Orders)
      BY ChainsAssumption DEF TypeOK, Orders
    <2>2. Total # 0 /\ Total \in Nat
      BY <2>1, FS_EmptySet, TotalIsNat DEF TypeOK, Total
    <2>3. QED
      BY <2>2
  <1>3. TypeOK'
    BY <1>1 DEF TypeOK, CallRecord, Aggregate, Orders
  <1>4. Legit(db', decisions)
    BY <1>1, <1>2 DEF Legit
  <1>5. Legit(db, decisions)' /\ NoLevelSkipped' /\ CallsOK'
    BY <1>1, <1>4, SMTT(30) DEF Legit, NoLevelSkipped, DecisionsIn, Orders, Total, ApprovedIn,
                      Eligible, CallsOK, ReadOK, WriteOK, Recorded
  <1>6. QED
    BY <1>3, <1>5

LEMMA CallStepIInv == ASSUME IInv, NEW c \in Calls, CallStep(c) PROVE IInv'
  <1> USE DEF IInv
  <1>0. /\ call \in [Calls -> CallRecord]
        /\ call[c] \in CallRecord
        /\ call[c].pc \in InFlight => ReadOK(c) /\ WriteOK(c)
    BY DEF TypeOK, CallsOK
  <1>1. ASSUME NEW a \in Actors, NEW op \in Ops, ActRead(c, a, op) PROVE IInv'
    <2>1. call' = [call EXCEPT ![c] = [IdleCall EXCEPT !.pc = "saveStep", !.op = op,
                                                       !.actor = a, !.read = db]]
      BY <1>1 DEF ActRead, Begin
    <2>2. call' \in [Calls -> CallRecord]
      BY <1>0, <2>1 DEF TypeOK, CallRecord, IdleCall, PCs, InFlight
    <2>3. /\ call'[c].read = db /\ call'[c].op = op /\ op \in {"approve", "reject"}
          /\ call'[c].actor = a /\ call'[c].pc = "saveStep"
      BY <1>0, <1>1, <2>1 DEF IdleCall, ActRead
    <2>4. ReadOK(c)' /\ WriteOK(c)'
      BY <1>1, <2>3 DEF ActRead, Begin, MayAct, ReadOK, WriteOK, Legit, DecisionsIn,
                        Orders, Total, ApprovedIn, Eligible
    <2>5. QED
      BY <1>0, <1>1, <2>1, <2>2, <2>4, QuietStep DEF ActRead, Begin
  <1>2. CASE CancelRead(c)
    <2>1. call' = [call EXCEPT ![c] = [IdleCall EXCEPT !.pc = "select", !.op = "cancel",
                                                       !.actor = Requestor, !.read = db]]
      BY <1>2 DEF CancelRead, Begin
    <2>2. call' \in [Calls -> CallRecord]
      BY <1>0, <2>1, ActorsAssumption DEF TypeOK, CallRecord, IdleCall, PCs, InFlight, Ops
    <2>3. call'[c].read = db /\ call'[c].op = "cancel" /\ call'[c].pc = "select"
      BY <1>0, <2>1 DEF IdleCall
    <2>4. db.status \in Open \union {"cancelled"}
      BY <1>2 DEF CancelRead, TypeOK, Aggregate, Status, Terminal
    <2>5. ReadOK(c)' /\ WriteOK(c)'
      BY <1>2, <2>3, <2>4 DEF CancelRead, Begin, ReadOK, WriteOK, Ops, Legit, DecisionsIn,
                        Orders, Total, ApprovedIn, Eligible
    <2>6. QED
      BY <1>0, <1>2, <2>1, <2>2, <2>5, QuietStep DEF CancelRead, Begin
  <1>3. CASE SaveStep(c)
    <2>1. ReadOK(c) /\ call[c].op # "cancel" /\ call[c].read.cur \in Orders
      BY <1>0, <1>3 DEF SaveStep, InFlight, ReadOK
    <2>2. call' = [call EXCEPT ![c].pc = "select", ![c].rows = {call[c].read.cur}]
      BY <1>3 DEF SaveStep
    <2>3. call' \in [Calls -> CallRecord]
      BY <1>0, <2>1, <2>2 DEF CallRecord, PCs, InFlight, Orders
    <2>4. /\ call'[c].read = call[c].read /\ call'[c].op = call[c].op
          /\ call'[c].actor = call[c].actor /\ call'[c].pc = "select"
          /\ call'[c].rows = {call[c].read.cur}
          /\ \A d \in Calls \ {c} : call'[d] = call[d]
      BY <1>0, <2>2 DEF CallRecord
    <2>5. CASE Provisioned
      <3>1. UNCHANGED <<chain, db, decisions, raced>>
        BY <1>3, <2>5 DEF SaveStep
      <3>2. ReadOK(c)'
        BY <2>1, <2>4, <3>1, ReadStays
      <3>3. WriteOK(c)'
        BY <2>1, <2>4, <2>5 DEF WriteOK
      <3>4. QED
        BY <2>3, <2>4, <3>1, <3>2, <3>3, QuietStep
    <2>6. CASE ~Provisioned
      BY <1>3, <2>1, <2>3, <2>4, <2>6, StoreStep DEF SaveStep
    <2>7. QED
      BY <2>5, <2>6
  <1>4. CASE SelectDiff(c)
    <2>1. ReadOK(c) /\ WriteOK(c)
      BY <1>0, <1>4 DEF SelectDiff, InFlight
    <2>2. PICK cols \in SUBSET {"status", "cur"}, diff \in SUBSET Orders :
            call' = [call EXCEPT ![c].pc = "update", ![c].cols = cols,
                                 ![c].rows = IF Provisioned THEN @ \union diff ELSE diff]
      BY <1>4 DEF SelectDiff
    <2>3. call' \in [Calls -> CallRecord]
      BY <1>0, <2>2 DEF CallRecord, PCs, InFlight, Orders
    <2>4. /\ call'[c].read = call[c].read /\ call'[c].op = call[c].op
          /\ call'[c].actor = call[c].actor /\ call'[c].pc = "update"
          /\ Provisioned => call[c].rows \subseteq call'[c].rows
          /\ \A d \in Calls \ {c} : call'[d] = call[d]
      BY <1>0, <2>2 DEF CallRecord
    <2>5. UNCHANGED <<chain, db, decisions, raced>> /\ call[c].pc = "select"
      BY <1>4 DEF SelectDiff
    <2>6. ReadOK(c)' /\ WriteOK(c)'
      <3>1. ReadOK(c)'
        BY <2>1, <2>4, <2>5, ReadStays
      <3>2. WriteOK(c)'
        BY <2>1, <2>4, <2>5 DEF WriteOK, Recorded
      <3>3. QED
        BY <3>1, <3>2
    <2>7. QED
      BY <2>3, <2>4, <2>5, <2>6, QuietStep
  <1>5. ASSUME NEW ok \in BOOLEAN, Update(c, ok) PROVE IInv'
    <2>1. ReadOK(c) /\ WriteOK(c) /\ call[c].pc = "update"
      BY <1>0, <1>5 DEF Update, InFlight
    <2>2. call' = [call EXCEPT ![c].pc = "emit", ![c].audited = ok]
      BY <1>5 DEF Update
    <2>3. call' \in [Calls -> CallRecord]
      BY <1>0, <2>2 DEF CallRecord, PCs, InFlight
    <2>4. /\ call'[c].read = call[c].read /\ call'[c].op = call[c].op
          /\ call'[c].actor = call[c].actor /\ call'[c].pc = "emit"
          /\ call'[c].rows = call[c].rows
          /\ \A d \in Calls \ {c} : call'[d] = call[d]
      BY <1>0, <2>2 DEF CallRecord
    <2>5. CASE Provisioned
      <3>1. UNCHANGED <<chain, db, decisions, raced>>
        BY <1>5, <2>5 DEF Update
      <3>2. ReadOK(c)'
        BY <2>1, <2>4, <3>1, ReadStays
      <3>3. WriteOK(c)'
        BY <2>1, <2>4, <2>5 DEF WriteOK
      <3>4. QED
        BY <2>3, <2>4, <3>1, <3>2, <3>3, QuietStep
    <2>6. CASE ~Provisioned
      BY <1>5, <2>1, <2>3, <2>4, <2>6, StoreStep DEF Update, WriteOK
    <2>7. QED
      BY <2>5, <2>6
  <1>6. CASE Emit(c)
    <2>1. ReadOK(c) /\ WriteOK(c) /\ call[c].pc = "emit"
      BY <1>0, <1>6 DEF Emit, InFlight
    <2>2. call' = [call EXCEPT ![c].emitted = TRUE,
                               ![c].pc = IF Provisioned THEN "commit" ELSE "done"]
      BY <1>6 DEF Emit
    <2>3. call' \in [Calls -> CallRecord]
      BY <1>0, <2>2 DEF CallRecord, PCs, InFlight
    <2>4. /\ call'[c].read = call[c].read /\ call'[c].op = call[c].op
          /\ call'[c].actor = call[c].actor /\ call'[c].pc # "saveStep"
          /\ call'[c].rows = call[c].rows
          /\ \A d \in Calls \ {c} : call'[d] = call[d]
      BY <1>0, <2>2 DEF CallRecord
    <2>5. UNCHANGED <<chain, db, decisions, raced>>
      BY <1>6 DEF Emit
    <2>6. ReadOK(c)' /\ WriteOK(c)'
      <3>1. ReadOK(c)'
        BY <2>1, <2>4, <2>5, ReadStays
      <3>2. WriteOK(c)'
        BY <2>1, <2>4, <2>5 DEF WriteOK, Recorded
      <3>3. QED
        BY <3>1, <3>2
    <2>7. QED
      BY <2>3, <2>4, <2>5, <2>6, QuietStep
  <1>7. CASE Commit(c)
    <2>1. ReadOK(c) /\ WriteOK(c) /\ call[c].pc = "commit"
      BY <1>0, <1>7 DEF Commit, InFlight
    <2>2. call' = [call EXCEPT ![c].pc = "done"]
      BY <1>7 DEF Commit
    <2>3. call' \in [Calls -> CallRecord]
      BY <1>0, <2>2 DEF CallRecord, PCs
    <2>4. /\ call'[c].read = call[c].read /\ call'[c].op = call[c].op
          /\ call'[c].actor = call[c].actor /\ call'[c].pc = "done"
          /\ \A d \in Calls \ {c} : call'[d] = call[d]
      BY <1>0, <2>2 DEF CallRecord
    <2>5. call[c].op # "cancel" =>
            call[c].read.cur \in call[c].rows \/ Recorded(c, decisions)
      BY <2>1 DEF WriteOK
    <2>6. call'[c].pc \notin InFlight
      BY <2>4 DEF InFlight
    <2>7. QED
      BY <1>7, <2>1, <2>3, <2>4, <2>5, <2>6, StoreStep DEF Commit
  <1>8. CASE Abort(c)
    <2>1. call' = [call EXCEPT ![c].pc = "failed"]
      BY <1>8 DEF Abort
    <2>2. call' \in [Calls -> CallRecord]
      BY <1>0, <2>1 DEF CallRecord, PCs
    <2>3. call'[c].pc \notin InFlight /\ \A d \in Calls \ {c} : call'[d] = call[d]
      BY <1>0, <2>1 DEF CallRecord, InFlight
    <2>4. QED
      BY <1>8, <2>2, <2>3, QuietStep DEF Abort
  <1>9. QED
    BY <1>1, <1>2, <1>3, <1>4, <1>5, <1>6, <1>7, <1>8 DEF CallStep

LEMMA NextIInv == IInv /\ [Next]_vars => IInv'
  <1> SUFFICES ASSUME IInv, [Next]_vars PROVE IInv'
    OBVIOUS
  <1>1. CASE UNCHANGED vars
    <2>1. TypeOK'
      BY <1>1 DEF vars, IInv, TypeOK, CallRecord, Aggregate, Orders
    <2>2. Legit(db, decisions)' /\ NoLevelSkipped'
      BY <1>1 DEF vars, IInv, Legit, NoLevelSkipped, DecisionsIn, Orders, Total,
                  ApprovedIn, Eligible
    <2>3. CallsOK'
      BY <1>1 DEF vars, IInv, CallsOK, ReadOK, WriteOK, Recorded, Legit, DecisionsIn,
                  Orders, Total, ApprovedIn, Eligible
    <2>4. QED
      BY <2>1, <2>2, <2>3 DEF IInv
  <1>2. CASE CreateRequest \/ CreateSteps
    BY <1>2, CreateIInv
  <1>3. ASSUME NEW c \in Calls, CallStep(c) PROVE IInv'
    BY <1>3, CallStepIInv
  <1>4. QED
    BY <1>1, <1>2, <1>3 DEF Next
-----------------------------------------------------------------------------
(* Theorems *)

LEMMA Invariance == Spec => []IInv
  BY InitIInv, NextIInv, PTL DEF Spec

\* The types of the model, for every set of calls, users and configurations.
THEOREM TypeCorrect == Spec => []TypeOK
  <1>1. IInv => TypeOK
    BY DEF IInv
  <1>2. QED
    BY <1>1, Invariance, PTL

\* An APPROVED request had every level of its chain approved by an eligible
\* user other than the requestor, under every interleaving and abort of
\* actOnCurrentStep and cancelWorkflowRequest.
THEOREM ApprovedMeansFullChain == Spec => []FullChain
  <1>1. IInv => FullChain
    BY DEF IInv, Legit, FullChain
  <1>2. QED
    BY <1>1, Invariance, PTL

\* No verdict of a level is recorded before all lower levels were approved,
\* and none by a user who lacks the level's role or filed the request.
THEOREM LevelsInOrder == Spec => []NoLevelSkipped
  <1>1. IInv => NoLevelSkipped
    BY DEF IInv
  <1>2. QED
    BY <1>1, Invariance, PTL

\* Only a call that read an older status changes a terminal one.
LEMMA StaleStep ==
  ASSUME IInv, [Next]_vars, db.status \in Terminal, db'.status # db.status
  PROVE  \E c \in Calls : call'[c] # call[c] /\ call[c].read.status # db.status
  <1> USE DEF IInv
  <1>1. db.status # "none"
    BY DEF Terminal
  <1>2. PICK c \in Calls : CallStep(c)
    BY <1>1 DEF Next, vars, CreateRequest, CreateSteps, TypeOK, Aggregate
  <1> DEFINE Writes == /\ call[c].pc \in {"saveStep", "update", "commit"}
                       /\ call'[c].pc # call[c].pc
                       /\ db'.status \in {db.status, Mem(c).status}
  <1>3. Writes
    <2>0. call \in [Calls -> CallRecord]
      BY DEF TypeOK
    <2>1. CASE SaveStep(c)
      BY <2>0, <2>1 DEF SaveStep, Store, Overwrite, CallRecord
    <2>2. ASSUME NEW ok \in BOOLEAN, Update(c, ok)
          PROVE  Writes
      BY <2>0, <2>2 DEF Update, Store, Overwrite, CallRecord
    <2>3. CASE Commit(c)
      BY <2>0, <2>3 DEF Commit, Store, Overwrite, CallRecord
    <2>4. QED
      BY <1>2, <2>1, <2>2, <2>3 DEF CallStep, ActRead, CancelRead, Begin, SelectDiff, Emit, Abort
  <1>4. ReadOK(c)
    BY <1>3 DEF CallsOK, InFlight
  <1>5. Mem(c).status # db.status
    BY <1>3
  <1>6. call[c].read.status # db.status
    <2>1. CASE call[c].op = "cancel"
      BY <1>4, <1>5, <2>1 DEF ReadOK, Mem, NextStatus, Open, Terminal
    <2>2. CASE call[c].op # "cancel"
      BY <1>4, <2>2 DEF ReadOK, Open, Terminal
    <2>3. QED
      BY <2>1, <2>2
  <1>7. QED
    BY <1>3, <1>6

\* Fresh reads never disturb a terminal request: the status guards of
\* actOnCurrentStep and cancelWorkflowRequest, for any number of calls.
THEOREM OnlyStaleCallsReopen == Spec => TerminalLeftOnlyByStale
  <1>1. IInv /\ [Next]_vars =>
          [db.status \in Terminal /\ db'.status # db.status =>
             \E c \in Calls : /\ call'[c] # call[c]
                              /\ call[c].read.status # db.status]_vars
    BY StaleStep
  <1>2. QED
    BY <1>1, Invariance, PTL DEF Spec, TerminalLeftOnlyByStale

-----------------------------------------------------------------------------
(* The refinement *)

\* A call is in flight only on a request that exists.
Begun ==
  \A c \in Calls : call[c].pc \in InFlight => db.status # "none"

\* A step that stores the memory of call c is one of ApprovalChain: a Review
\* if the call's verdict is new, and otherwise a Conclude.
LEMMA StoreRefines ==
  ASSUME IInv, NEW c \in Calls, ReadOK(c), db.status # "none", NEW cols, NEW rows, NEW seen,
         seen.status = call[c].read.status,
         call[c].op # "cancel" =>
            call[c].read.cur \in rows \/ Recorded(c, decisions),
         Store(Overwrite(db, Mem(c), cols, rows), seen),
         UNCHANGED chain
  PROVE  Abstract!ANext /\ db'.status # "none"
  <1> DEFINE n == Overwrite(db, Mem(c), cols, rows)
             l == call[c].read.cur
             a == call[c].actor
             v == Verdict(call[c].op)
             Out(d) == IF d.status \in Open THEN "open" ELSE d.status
  <1>1. /\ db' = n /\ db' \in Aggregate /\ raced' \in BOOLEAN
        /\ Legit(db', decisions')
        /\ decisions' = decisions \union DecisionsIn(n)
        /\ raced' <=> (raced \/ seen # db)
    BY StoreOK DEF IInv, Store
  <1>2. db'.status \in {db.status, Mem(c).status} /\ db'.status \in Open \union Terminal
    <2>1. db'.status \in {db.status, Mem(c).status}
      BY <1>1 DEF Overwrite
    <2>2. Mem(c).status # "none"
      BY DEF Mem, NextStatus
    <2>3. QED
      BY <1>1, <2>1, <2>2 DEF Aggregate, Status
  <1>3. db.status \in Terminal /\ ~raced' => db.status = "cancelled" /\ call[c].op = "cancel"
    BY <1>1 DEF ReadOK, Open, Terminal
  <1>4. db.status \in Terminal /\ ~raced' => db'.status = db.status
    BY <1>2, <1>3 DEF Mem, NextStatus
  <1>5. db'.status = "approved" => \A o \in Orders : ApprovedIn(o, decisions')
    BY <1>1 DEF Legit, ApprovedIn, Eligible, Orders
  <1>6. db'.status = "rejected" => \E t \in decisions' : t[3] = "rejected"
    BY <1>1 DEF Legit
  <1>7. Abstract!Settle
    <2>1. Out(db) # "none" /\ Out(db)' \in {"open"} \union Terminal
      BY <1>2
    <2>2. Abstract!Justified(Out(db)', decisions')
      BY <1>5, <1>6 DEF Abstract!Justified, Abstract!Passed, Abstract!Qualified, ApprovedIn, Eligible, Orders
    <2>3. raced => raced'
      BY <1>1
    <2>4. Out(db) \in Terminal /\ ~raced' => Out(db)' = Out(db)
      BY <1>4 DEF Open, Terminal
    <2>5. QED
      BY <2>1, <2>2, <2>3, <2>4 DEF Abstract!Settle, Abstract!Final, Terminal
  <1>8. CASE decisions' = decisions
    BY <1>2, <1>7, <1>8 DEF Abstract!ANext, Abstract!Conclude, Open, Terminal
  <1>9. CASE decisions' # decisions
    <2>1. call[c].op # "cancel" /\ decisions' = decisions \union {<<l, a, v>>}
      BY <1>1, <1>9, MemDecisions, OverwriteDecisions DEF IInv, Legit, ReadOK
    <2>2. l \in Orders /\ a \in Actors /\ v \in {"approved", "rejected"} /\ Eligible(a, l)
      BY <2>1 DEF ReadOK, Verdict
    <2>3. \A k \in 1 .. l : k < l => k \in Orders /\ ApprovedIn(k, decisions)
      BY DEF ReadOK, Legit
    <2>4. db.status \in Terminal => raced'
      BY <1>3, <2>1
    <2>5. Abstract!Review(l, a, v)
      BY <1>7, <2>1, <2>2, <2>3, <2>4
         DEF Abstract!Review, Abstract!Qualified, Abstract!Passed, Abstract!Final, ApprovedIn, Eligible, Orders,
             Open, Terminal
    <2>6. QED
      BY <1>2, <2>2, <2>5 DEF Abstract!ANext, Orders, Open, Terminal
  <1>10. QED
    BY <1>8, <1>9, <1>2 DEF Open, Terminal

\* Every step of the engine is a step of ApprovalChain or changes nothing it
\* speaks of.
LEMMA StepRefines ==
  IInv /\ Begun /\ [Next]_vars => [Abstract!ANext]_(Abstract!avars) /\ Begun'
  <1> SUFFICES ASSUME IInv, Begun, [Next]_vars PROVE [Abstract!ANext]_(Abstract!avars) /\ Begun'
    OBVIOUS
  <1> USE DEF IInv
  <1>1. ASSUME UNCHANGED <<chain, decisions, raced>>, db'.status = db.status
        PROVE  UNCHANGED Abstract!avars
    BY <1>1 DEF Abstract!avars
  <1>2. CASE UNCHANGED vars
    BY <1>1, <1>2 DEF vars, Begun
  <1>3. CASE CreateRequest
    <2>1. db'.status = "pending" /\ UNCHANGED <<chain, call, decisions, raced>> /\ db.status = "none"
      BY <1>3 DEF CreateRequest
    <2>2. Abstract!File
      BY <2>1 DEF Abstract!File, Open
    <2>3. QED
      BY <2>1, <2>2 DEF Abstract!ANext, Begun
  <1>4. CASE CreateSteps
    <2>1. db'.status = db.status /\ UNCHANGED <<chain, call, decisions, raced>>
      BY <1>4 DEF CreateSteps, TypeOK, Aggregate
    <2>2. QED
      BY <1>1, <2>1 DEF Begun
  <1>5. ASSUME NEW c \in Calls, CallStep(c) PROVE [Abstract!ANext]_(Abstract!avars) /\ Begun'
    <2>1. /\ call \in [Calls -> CallRecord]
          /\ call[c].pc \in InFlight => ReadOK(c) /\ WriteOK(c) /\ db.status # "none"
          /\ \A d \in Calls : d # c => call'[d] = call[d]
      BY <1>5 DEF TypeOK, CallsOK, Begun, CallStep, ActRead, CancelRead, Begin, SaveStep, SelectDiff, Update, Emit,
                  Commit, Abort
    <2>2. ASSUME UNCHANGED <<chain, db, decisions, raced>>, db.status # "none"
          PROVE  [Abstract!ANext]_(Abstract!avars) /\ Begun'
      BY <1>1, <2>2 DEF Begun
    <2>3. ASSUME NEW cols, NEW rows, NEW seen, call[c].pc \in InFlight,
                 seen.status = call[c].read.status,
                 call[c].op # "cancel" => call[c].read.cur \in rows \/ Recorded(c, decisions),
                 Store(Overwrite(db, Mem(c), cols, rows), seen), UNCHANGED chain
          PROVE  [Abstract!ANext]_(Abstract!avars) /\ Begun'
      BY <2>1, <2>3, StoreRefines DEF Begun
    <2>4. CASE (\E a \in Actors, op \in Ops : ActRead(c, a, op)) \/ CancelRead(c)
      <3>1. UNCHANGED <<chain, db, decisions, raced>> /\ db.status # "none"
        BY <2>4 DEF ActRead, CancelRead, MayAct, Begin, Open
      <3>2. QED
        BY <2>2, <3>1
    <2>5. CASE SelectDiff(c) \/ Emit(c) \/ Abort(c)
      <3>1. UNCHANGED <<chain, db, decisions, raced>> /\ call[c].pc \in InFlight
        BY <2>5 DEF SelectDiff, Emit, Abort, InFlight
      <3>2. QED
        BY <2>1, <2>2, <3>1
    <2>6. CASE SaveStep(c)
      <3>1. call[c].pc \in InFlight /\ UNCHANGED chain
        BY <2>6 DEF SaveStep, InFlight
      <3>2. CASE Provisioned
        BY <2>1, <2>2, <2>6, <3>1, <3>2 DEF SaveStep
      <3>3. CASE ~Provisioned
        BY <2>3, <2>6, <3>1, <3>3 DEF SaveStep
      <3>4. QED
        BY <3>2, <3>3
    <2>7. ASSUME NEW ok \in BOOLEAN, Update(c, ok) PROVE [Abstract!ANext]_(Abstract!avars) /\ Begun'
      <3>1. call[c].pc \in InFlight /\ call[c].pc = "update" /\ UNCHANGED chain
        BY <2>7 DEF Update, InFlight
      <3>2. CASE Provisioned
        BY <2>1, <2>2, <2>7, <3>1, <3>2 DEF Update
      <3>3. CASE ~Provisioned
        <4>1. Seen(c).status = call[c].read.status
          BY DEF Seen, Overwrite
        <4>2. call[c].op # "cancel" => Recorded(c, decisions)
          BY <2>1, <3>1, <3>3 DEF WriteOK
        <4>3. QED
          BY <2>3, <2>7, <3>1, <3>3, <4>1, <4>2 DEF Update
      <3>4. QED
        BY <3>2, <3>3
    <2>8. CASE Commit(c)
      <3>1. call[c].pc \in InFlight /\ call[c].pc = "commit"
        BY <2>8 DEF Commit, InFlight
      <3>2. call[c].op # "cancel" => call[c].read.cur \in call[c].rows \/ Recorded(c, decisions)
        BY <2>1, <3>1 DEF WriteOK
      <3>3. QED
        BY <2>3, <2>8, <3>1, <3>2 DEF Commit
    <2>9. QED
      BY <1>5, <2>4, <2>5, <2>6, <2>7, <2>8 DEF CallStep
  <1>6. QED
    BY <1>2, <1>3, <1>4, <1>5 DEF Next

\* The first state is the first state of ApprovalChain.
LEMMA InitRefines == Init => Abstract!AInit /\ Begun
  BY DEF Init, NoRow, Open, Abstract!AInit, Begun, IdleCall, InFlight

\* However its calls interleave, abort or tear the rows, the engine does what
\* ApprovalChain promises: verdicts level by level and never lost, outcomes
\* they justify, and final ones that only a race undoes.
THEOREM EngineImplements == Spec => RefinesApprovalChain
  <1>1. IInv /\ Begun /\ [Next]_vars => (IInv /\ Begun)'
    BY NextIInv, StepRefines
  <1>2. Init => Abstract!AInit /\ IInv /\ Begun
    BY InitIInv, InitRefines
  <1>3. IInv /\ Begun /\ [Next]_vars => [Abstract!ANext]_(Abstract!avars)
    BY StepRefines
  <1>4. QED
    BY <1>1, <1>2, <1>3, PTL DEF Spec, RefinesApprovalChain, Abstract!ASpec

-----------------------------------------------------------------------------
(* Audit rows, and decisions without races *)

\* What a call that is over did stays as it is.
LEMMA OneCallMoves ==
  ASSUME TypeOK, NEW c \in Calls, CallStep(c)
  PROVE  /\ UNCHANGED chain
         /\ call[c].pc \in {"idle"} \union InFlight
         /\ \A d \in Calls : d # c => call'[d] = call[d] /\ Mem(d)' = Mem(d)
  <1>1. UNCHANGED chain /\ call[c].pc \in {"idle"} \union InFlight /\ \A d \in Calls : d # c => call'[d] = call[d]
    BY DEF TypeOK, CallStep, ActRead, CancelRead, Begin, SaveStep, SelectDiff, Update, Emit, Commit, Abort, InFlight
  <1>2. ASSUME NEW d \in Calls, d # c PROVE Mem(d)' = Mem(d)
    BY <1>1, <1>2 DEF Mem, NextStatus, NextCur, ActedSteps, IsLastStep, Total, Orders
  <1>3. QED
    BY <1>1, <1>2

\* On a provisioned tenant a call that commits has emitted its event, and
\* the status it gave has its audit row.
Audited ==
  /\ AuditExplainsStatus
  /\ Provisioned => \A c \in Calls : call[c].pc = "commit" => call[c].emitted

\* Every step keeps it.
LEMMA NextAudited == IInv /\ Audited /\ [Next]_vars => Audited'
  <1> SUFFICES ASSUME IInv, Audited, [Next]_vars, Provisioned PROVE Audited'
    BY DEF Audited, AuditExplainsStatus
  <1>1. CASE UNCHANGED vars
    <2>1. \A c \in Calls : Mem(c)' = Mem(c)
      BY <1>1 DEF vars, Mem, NextStatus, NextCur, ActedSteps, IsLastStep, Total, Orders
    <2>2. QED
      BY <1>1, <2>1 DEF vars, Audited, AuditExplainsStatus
  <1>2. CASE CreateRequest \/ CreateSteps
    <2>1. /\ UNCHANGED <<chain, call>>
          /\ db'.status = "pending" \/ db'.status = db.status
      BY <1>2 DEF CreateRequest, CreateSteps, IInv, TypeOK, Aggregate
    <2>2. \A c \in Calls : Mem(c)' = Mem(c)
      BY <2>1 DEF Mem, NextStatus, NextCur, ActedSteps, IsLastStep, Total, Orders
    <2>3. QED
      BY <2>1, <2>2 DEF Audited, AuditExplainsStatus
  <1>3. ASSUME NEW c \in Calls, CallStep(c) PROVE Audited'
    <2>1. /\ call[c].pc # "done"
          /\ \A d \in Calls : d # c => call'[d] = call[d] /\ Mem(d)' = Mem(d)
      BY <1>3, OneCallMoves DEF IInv, InFlight
    <2>2. ASSUME UNCHANGED db, call'[c].pc = "commit" => call'[c].emitted PROVE Audited'
      <3>1. ASSUME db'.status \notin {"none", "pending"}
            PROVE  \E d \in Calls : call'[d].pc = "done" /\ call'[d].audited /\ call'[d].emitted /\ Mem(d)'.status = db'.status
        <4>1. PICK d \in Calls : /\ call[d].pc = "done" /\ call[d].audited /\ call[d].emitted
                                 /\ Mem(d).status = db.status
          BY <2>2, <3>1 DEF Audited, AuditExplainsStatus
        <4>2. d # c
          BY <2>1, <4>1
        <4>3. QED
          BY <2>1, <2>2, <4>1, <4>2
      <3>2. \A d \in Calls : call'[d].pc = "commit" => call'[d].emitted
        BY <2>1, <2>2 DEF Audited
      <3>3. QED
        BY <3>1, <3>2 DEF Audited, AuditExplainsStatus
    <2>3. CASE Commit(c)
      <3>1. /\ call'[c].pc = "done" /\ call'[c].audited = call[c].audited /\ call'[c].emitted = call[c].emitted
            /\ call'[c].read = call[c].read /\ call'[c].op = call[c].op /\ call'[c].actor = call[c].actor
            /\ call[c].pc = "commit" /\ call[c].audited
            /\ db' = Overwrite(db, Mem(c), call[c].cols, call[c].rows) /\ UNCHANGED chain
        BY <2>3 DEF Commit, Store, IInv, TypeOK, CallRecord
      <3>2. db'.status \in {db.status, Mem(c).status}
        BY <3>1 DEF Overwrite
      <3>3. call[c].emitted
        BY <3>1 DEF Audited
      <3>4. Mem(c)'.status = Mem(c).status
        BY <3>1 DEF Mem, NextStatus, IsLastStep, Total, Orders
      <3>5. ASSUME db'.status \notin {"none", "pending"}
            PROVE  \E d \in Calls : call'[d].pc = "done" /\ call'[d].audited /\ call'[d].emitted /\ Mem(d)'.status = db'.status
        <4>1. CASE db'.status = Mem(c).status
          BY <3>1, <3>3, <3>4, <4>1
        <4>2. CASE db'.status = db.status
          <5>1. PICK d \in Calls : /\ call[d].pc = "done" /\ call[d].audited /\ call[d].emitted
                                   /\ Mem(d).status = db.status
            BY <3>5, <4>2 DEF Audited, AuditExplainsStatus
          <5>2. d # c
            BY <2>1, <5>1
          <5>3. QED
            BY <2>1, <4>2, <5>1, <5>2
        <4>3. QED
          BY <3>2, <4>1, <4>2
      <3>6. \A d \in Calls : call'[d].pc = "commit" => call'[d].emitted
        BY <2>1, <3>1 DEF Audited
      <3>7. QED
        BY <3>5, <3>6 DEF Audited, AuditExplainsStatus
    <2>4. CASE Emit(c)
      BY <2>2, <2>4 DEF Emit, IInv, TypeOK, CallRecord
    <2>5. CASE (\E a \in Actors, op \in Ops : ActRead(c, a, op)) \/ CancelRead(c)
      BY <2>2, <2>5 DEF ActRead, CancelRead, Begin, IdleCall, IInv, TypeOK
    <2>6. CASE SaveStep(c) \/ SelectDiff(c) \/ Abort(c) \/ \E ok \in BOOLEAN : Update(c, ok)
      <3>1. UNCHANGED db
        BY <2>6 DEF SaveStep, SelectDiff, Abort, Update
      <3>2. call \in [Calls -> CallRecord]
        BY DEF IInv, TypeOK
      <3>3. call'[c].pc \in {"select", "update", "failed", "emit"}
        <4>1. ASSUME NEW ok \in BOOLEAN, Update(c, ok) PROVE call'[c].pc = "emit"
          BY <3>2, <4>1 DEF Update, CallRecord
        <4>2. CASE SaveStep(c)
          BY <3>2, <4>2 DEF SaveStep, CallRecord
        <4>3. CASE SelectDiff(c)
          BY <3>2, <4>3 DEF SelectDiff, CallRecord
        <4>4. CASE Abort(c)
          BY <3>2, <4>4 DEF Abort, CallRecord
        <4>5. QED
          BY <2>6, <4>1, <4>2, <4>3, <4>4
      <3>4. QED
        BY <2>2, <3>1, <3>3
    <2>7. QED
      BY <1>3, <2>3, <2>4, <2>5, <2>6 DEF CallStep
  <1>4. QED
    BY <1>1, <1>2, <1>3 DEF Next

\* writeAudit swallows its errors, but on a provisioned tenant no status is
\* committed without the audit row of a call that set it.
THEOREM StatusIsAudited == Spec => []AuditExplainsStatus
  <1>1. Init => IInv /\ Audited
    BY InitIInv DEF Init, NoRow, IdleCall, Audited, AuditExplainsStatus
  <1>2. IInv /\ Audited /\ [Next]_vars => (IInv /\ Audited)'
    BY NextIInv, NextAudited
  <1>3. Audited => AuditExplainsStatus
    BY DEF Audited
  <1>4. QED
    BY <1>1, <1>2, <1>3, PTL DEF Spec

\* A call whose decision is committed.
Stored(c) == /\ call[c].pc = "done" \/ (~Provisioned /\ call[c].pc = "emit")
             /\ Mem(c).status \in {"approved", "rejected"}

\* A call about to store its memory: unless the request is decided, its save
\* covers the status.
Storing(c) == call[c].pc \in {"update", "commit"} \/ (Provisioned /\ call[c].pc = "emit")

Covers(c) ==
  Storing(c) /\ Mem(c).status \in {"approved", "rejected"} =>
    "status" \in call[c].cols \/ db.status \in {"approved", "rejected"}

\* While no call raced, the request has the status of the one call that decided it.
Undisputed ==
  ~raced =>
    /\ \A c \in Calls : Stored(c) => db.status = Mem(c).status
    /\ \A c, d \in Calls : Stored(c) /\ Stored(d) => c = d
    /\ \A c \in Calls : Covers(c)

\* A step that stores nothing keeps it.
LEMMA QuietUndisputed ==
  ASSUME IInv, Undisputed, NEW c \in Calls, CallStep(c), UNCHANGED <<db, raced>>,
         Stored(c)' => Stored(c), Covers(c) => Covers(c)', Mem(c)' = Mem(c) \/ ~Stored(c)'
  PROVE  Undisputed'
  <1>1. \A d \in Calls : d # c => call'[d] = call[d] /\ Mem(d)' = Mem(d)
    BY OneCallMoves DEF IInv
  <1>2. ASSUME NEW d \in Calls PROVE Stored(d)' => Stored(d) /\ Mem(d)' = Mem(d)
    <2>1. CASE d = c
      BY <2>1
    <2>2. CASE d # c
      BY <1>1, <2>2 DEF Stored
    <2>3. QED
      BY <2>1, <2>2
  <1>3. ASSUME NEW d \in Calls, Covers(d) PROVE Covers(d)'
    <2>1. CASE d = c
      BY <1>3, <2>1
    <2>2. CASE d # c
      BY <1>1, <1>3, <2>2 DEF Covers, Storing
    <2>3. QED
      BY <2>1, <2>2
  <1>4. QED
    BY <1>2, <1>3 DEF Undisputed

\* A store of call c keeps it: if it is the first to decide, its status
\* is written.
LEMMA StoreUndisputed ==
  ASSUME IInv, Undisputed, NEW c \in Calls, CallStep(c), call[c].pc \in InFlight, NEW cols, NEW rows, NEW seen,
         seen.status = call[c].read.status,
         Store(Overwrite(db, Mem(c), cols, rows), seen),
         Mem(c)' = Mem(c), ~Storing(c)',
         Stored(c)' => Storing(c) /\ cols = call[c].cols
  PROVE  Undisputed'
  <1> SUFFICES ASSUME ~raced' PROVE Undisputed'
    BY DEF Undisputed
  <1>1. ~raced /\ seen = db /\ db' = Overwrite(db, Mem(c), cols, rows)
    BY DEF Store
  <1>2. db.status \notin {"approved", "rejected"}
    BY <1>1 DEF IInv, CallsOK, ReadOK, Open
  <1>3. \A d \in Calls : ~Stored(d)
    BY <1>1, <1>2 DEF Undisputed, Stored
  <1>4. \A d \in Calls : d # c => call'[d] = call[d] /\ Mem(d)' = Mem(d)
    BY OneCallMoves DEF IInv
  <1>5. \A d \in Calls : Stored(d)' => d = c
    BY <1>3, <1>4 DEF Stored
  <1>6. Stored(c)' => db'.status = Mem(c)'.status
    <2> SUFFICES ASSUME Stored(c)' PROVE db'.status = Mem(c)'.status
      OBVIOUS
    <2>1. Mem(c).status \in {"approved", "rejected"}
      BY DEF Stored
    <2>2. "status" \in cols
      BY <1>1, <1>2, <2>1 DEF Undisputed, Covers
    <2>3. QED
      BY <1>1, <2>2 DEF Overwrite
  <1>7. \A d \in Calls : Covers(d)'
    <2> SUFFICES ASSUME NEW d \in Calls PROVE Covers(d)'
      OBVIOUS
    <2>1. CASE d = c
      BY <2>1 DEF Covers
    <2>2. CASE d # c
      BY <1>1, <1>2, <1>4, <2>2 DEF Undisputed, Covers, Storing
    <2>3. QED
      BY <2>1, <2>2
  <1>8. QED
    BY <1>5, <1>6, <1>7 DEF Undisputed

\* Every step keeps it.
LEMMA NextUndisputed == IInv /\ Begun /\ Undisputed /\ [Next]_vars => Undisputed'
  <1> SUFFICES ASSUME IInv, Begun, Undisputed, [Next]_vars PROVE Undisputed'
    OBVIOUS
  <1>1. CASE UNCHANGED vars
    <2>1. \A c \in Calls : Mem(c)' = Mem(c)
      BY <1>1 DEF vars, Mem, NextStatus, NextCur, ActedSteps, IsLastStep, Total, Orders
    <2>2. QED
      BY <1>1, <2>1 DEF vars, Undisputed, Stored, Covers, Storing
  <1>2. CASE CreateRequest \/ CreateSteps
    <2>1. /\ UNCHANGED <<chain, call, raced>>
          /\ (db.status = "none" /\ db'.status = "pending") \/ db'.status = db.status
      BY <1>2 DEF CreateRequest, CreateSteps, IInv, TypeOK, Aggregate
    <2>2. \A c \in Calls : Mem(c)' = Mem(c)
      BY <2>1 DEF Mem, NextStatus, NextCur, ActedSteps, IsLastStep, Total, Orders
    <2>3. QED
      BY <2>1, <2>2 DEF Undisputed, Stored, Covers, Storing
  <1>3. ASSUME NEW c \in Calls, CallStep(c) PROVE Undisputed'
    <2>1. call \in [Calls -> CallRecord] /\ chain' = chain
      BY <1>3, OneCallMoves DEF IInv, TypeOK
    <2>2. ASSUME call'[c].read = call[c].read, call'[c].op = call[c].op, call'[c].actor = call[c].actor
          PROVE  Mem(c)' = Mem(c)
      BY <2>1, <2>2 DEF Mem, NextStatus, NextCur, ActedSteps, IsLastStep, Total, Orders
    <2>3. CASE (\E a \in Actors, op \in Ops : ActRead(c, a, op)) \/ CancelRead(c)
      <3>1. UNCHANGED <<db, raced>> /\ call'[c].pc \in {"saveStep", "select"}
        <4>1. ASSUME NEW op, NEW a, NEW pc \in {"saveStep", "select"}, Begin(c, op, a, pc)
              PROVE  UNCHANGED <<db, raced>> /\ call'[c].pc \in {"saveStep", "select"}
          BY <2>1, <4>1 DEF Begin, IdleCall
        <4>2. QED
          BY <2>3, <4>1 DEF ActRead, CancelRead
      <3>2. QED
        BY <1>3, <3>1, QuietUndisputed DEF Stored, Covers, Storing
    <2>4. CASE SaveStep(c)
      <3>1. /\ call[c].pc \in InFlight /\ call'[c].pc = "select"
            /\ call'[c].read = call[c].read /\ call'[c].op = call[c].op /\ call'[c].actor = call[c].actor
        BY <2>1, <2>4 DEF SaveStep, InFlight, CallRecord
      <3>2. ~Stored(c)' /\ ~Storing(c)'
        BY <3>1 DEF Stored, Storing
      <3>3. CASE Provisioned
        BY <1>3, <2>4, <3>2, <3>3, QuietUndisputed DEF SaveStep, Covers
      <3>4. CASE ~Provisioned
        BY <1>3, <2>2, <2>4, <3>1, <3>2, <3>4, StoreUndisputed DEF SaveStep
      <3>5. QED
        BY <3>3, <3>4
    <2>5. CASE SelectDiff(c)
      <3>1. /\ call'[c].pc = "update" /\ UNCHANGED <<db, raced>>
            /\ call'[c].read = call[c].read /\ call'[c].op = call[c].op /\ call'[c].actor = call[c].actor
            /\ call'[c].cols = (IF Mem(c).status # Visible(c).status THEN {"status"} ELSE {})
                                 \union (IF Mem(c).cur # Visible(c).cur THEN {"cur"} ELSE {})
        BY <2>1, <2>5 DEF SelectDiff, CallRecord
      <3>2. Visible(c).status = db.status
        BY DEF Visible, Overwrite
      <3>3. Covers(c)' /\ ~Stored(c)'
        BY <2>2, <3>1, <3>2 DEF Covers, Stored
      <3>4. QED
        BY <1>3, <3>1, <3>3, QuietUndisputed
    <2>6. ASSUME NEW ok \in BOOLEAN, Update(c, ok) PROVE Undisputed'
      <3>1. /\ call[c].pc = "update" /\ call[c].pc \in InFlight /\ call'[c].pc = "emit"
            /\ call'[c].read = call[c].read /\ call'[c].op = call[c].op /\ call'[c].actor = call[c].actor
            /\ call'[c].cols = call[c].cols
        BY <2>1, <2>6 DEF Update, InFlight, CallRecord
      <3>2. CASE Provisioned
        <4>1. ~Stored(c)' /\ UNCHANGED <<db, raced>>
          BY <2>6, <3>1, <3>2 DEF Update, Stored
        <4>2. Covers(c) => Covers(c)'
          BY <2>2, <3>1, <4>1 DEF Covers, Storing
        <4>3. QED
          BY <1>3, <4>1, <4>2, QuietUndisputed
      <3>3. CASE ~Provisioned
        <4>1. Seen(c).status = call[c].read.status
          BY DEF Seen, Overwrite
        <4>2. ~Storing(c)' /\ Storing(c)
          BY <3>1, <3>3 DEF Storing
        <4>3. QED
          BY <1>3, <2>2, <2>6, <3>1, <3>3, <4>1, <4>2, StoreUndisputed DEF Update
      <3>4. QED
        BY <3>2, <3>3
    <2>7. CASE Emit(c)
      <3>1. /\ call[c].pc = "emit" /\ UNCHANGED <<db, raced>>
            /\ call'[c].pc = IF Provisioned THEN "commit" ELSE "done"
            /\ call'[c].read = call[c].read /\ call'[c].op = call[c].op /\ call'[c].actor = call[c].actor
            /\ call'[c].cols = call[c].cols
        BY <2>1, <2>7 DEF Emit, CallRecord
      <3>2. Mem(c)' = Mem(c)
        BY <2>2, <3>1
      <3>3. Stored(c)' => Stored(c)
        BY <3>1, <3>2 DEF Stored
      <3>4. Covers(c) => Covers(c)'
        BY <3>1, <3>2 DEF Covers, Storing
      <3>5. QED
        BY <1>3, <3>1, <3>2, <3>3, <3>4, QuietUndisputed
    <2>8. CASE Commit(c)
      <3>1. /\ call[c].pc = "commit" /\ call[c].pc \in InFlight /\ call'[c].pc = "done"
            /\ call'[c].read = call[c].read /\ call'[c].op = call[c].op /\ call'[c].actor = call[c].actor
        BY <2>1, <2>8 DEF Commit, InFlight, CallRecord
      <3>2. ~Storing(c)' /\ Storing(c)
        BY <3>1 DEF Storing
      <3>3. QED
        BY <1>3, <2>2, <2>8, <3>1, <3>2, StoreUndisputed DEF Commit
    <2>9. CASE Abort(c)
      <3>1. call'[c].pc = "failed" /\ UNCHANGED <<db, raced>>
        BY <2>1, <2>9 DEF Abort, CallRecord
      <3>2. ~Stored(c)' /\ ~Storing(c)'
        BY <3>1 DEF Stored, Storing
      <3>3. QED
        BY <1>3, <3>1, <3>2, QuietUndisputed DEF Covers
    <2>10. QED
      BY <1>3, <2>3, <2>4, <2>5, <2>6, <2>7, <2>8, <2>9 DEF CallStep
  <1>4. QED
    BY <1>1, <1>2, <1>3 DEF Next

\* As long as no call writes over a state it has not read, the listeners of a
\* decision hear of one committed call.
THEOREM DecidedOnce == Spec => []UnracedDecidedOnce
  <1>1. Init => IInv /\ Begun /\ Undisputed
    BY InitIInv, InitRefines DEF Init, IdleCall, Undisputed, Stored, Covers, Storing
  <1>2. IInv /\ Begun /\ Undisputed /\ [Next]_vars => (IInv /\ Begun /\ Undisputed)'
    BY NextIInv, StepRefines, NextUndisputed
  <1>3. Undisputed => UnracedDecidedOnce
    BY DEF Undisputed, Stored, UnracedDecidedOnce, Deciders
  <1>4. QED
    BY <1>1, <1>2, <1>3, PTL DEF Spec


-----------------------------------------------------------------------------
(* The request row and its step rows.  A call that stores without a race     *)
(* finds the rows as it remembers them, so that afterwards they are what it  *)
(* has in memory; on a legacy tenant the step alone is stored first.  What   *)
(* it found is not stored a second time, because every store advances the    *)
(* request: the columns its save selected are still the ones that differ.    *)

\* How an aggregate agrees with itself, but for the step at hand.
Shape(d) ==
  /\ \A o \in DOMAIN d.steps : /\ o < d.cur => d.steps[o].st = "approved"
                               /\ o > d.cur => d.steps[o] = PendingStep
  /\ d.status = "pending" => d.cur = 1
  /\ d.status = "approved" => d.cur = Cardinality(DOMAIN d.steps) /\ d.steps[d.cur].st = "approved"
  /\ d.status = "rejected" => d.steps[d.cur].st = "rejected"

OpenStep(d) == d.status \in Open /\ d.cur \in DOMAIN d.steps => d.steps[d.cur] = PendingStep

\* How far a request has come.
Acted(d) == IF d.cur \in DOMAIN d.steps /\ d.steps[d.cur].st \in Verdicts THEN 1 ELSE 0
Over(d)  == IF d.status \in Terminal THEN 1 ELSE 0
Rank(d)  == 2 * d.cur + Acted(d) + Over(d)

Created == db.status # "none" /\ \A o \in Orders : db.steps[o] # AbsentStep
Filed   == [status |-> "pending", cur |-> 1, steps |-> [o \in Orders |-> AbsentStep]]

\* The state a call takes the request to be in.
Base(c) == IF call[c].pc = "saveStep" THEN call[c].read ELSE Seen(c)

\* A call whose save has selected its columns, and one that has still to store.
Saving(c)  == call[c].pc \in {"update", "commit"} \/ (Provisioned /\ call[c].pc = "emit")
Working(c) == Saving(c) \/ call[c].pc \in {"saveStep", "select"}

\* Between the two saves of a legacy tenant.
Mid(c) == ~Provisioned /\ call[c].op # "cancel" /\ call[c].pc \in {"select", "update"}

Holds(c) ==
  /\ Created /\ (call[c].pc = "commit" => Provisioned)
  /\ Shape(call[c].read)
  /\ call[c].op # "cancel" => call[c].read.steps[call[c].read.cur].st = "pending"
  /\ Rank(Base(c)) <= Rank(db)
  /\ Saving(c) /\ db = Base(c) => Overwrite(db, Mem(c), call[c].cols, call[c].rows) = Mem(c)

\* No race, and on a legacy tenant no call cut off.
Clean == ~raced /\ (Provisioned \/ \A c \in Calls : call[c].pc # "failed")

Coherent ==
  Clean =>
    /\ IF Created THEN Shape(db) /\ (OpenStep(db) \/ \E c \in Calls : Mid(c)) ELSE db \in {NoRow, Filed}
    /\ \A c \in Calls : /\ call[c].pc \in InFlight => Created
                        /\ Working(c) => Holds(c)

\* The shape of a request that has been decided.
LEMMA DecidedShape ==
  ASSUME NEW d, d.status # "pending", d.steps[d.cur].st = d.status,
         d.status = "approved" => d.cur = Cardinality(DOMAIN d.steps),
         \A o \in DOMAIN d.steps : /\ o < d.cur => d.steps[o].st = "approved"
                                   /\ o > d.cur => d.steps[o] = PendingStep
  PROVE  Shape(d)
  BY DEF Shape

\* What a call has in memory when it works on a coherent request.
LEMMA MemShape ==
  ASSUME TypeOK, NEW c \in Calls, ReadOK(c), Shape(call[c].read),
         call[c].op # "cancel" => call[c].read.steps[call[c].read.cur].st = "pending"
  PROVE  /\ Shape(Mem(c)) /\ OpenStep(Mem(c)) /\ Mem(c).status # "none"
         /\ \A o \in Orders : Mem(c).steps[o] = call[c].read.steps[o] \/ Mem(c).steps[o].st \in Verdicts
         /\ Rank(call[c].read) \in Nat /\ Rank(Mem(c)) \in Nat
         /\ Mem(c) = call[c].read \/ Rank(Mem(c)) > Rank(call[c].read)
         /\ call[c].op # "cancel" => /\ Rank(call[c].read) = 2 * call[c].read.cur
                                     /\ Rank(Mem(c)) > 2 * call[c].read.cur + 1
  <1> DEFINE r == call[c].read
             m == Mem(c)
  <1>1. /\ r \in Aggregate /\ r.cur \in Nat /\ DOMAIN r.steps = Orders /\ r.steps \in [Orders -> StepRow]
        /\ call[c].op \in Ops /\ Total \in Nat /\ Orders \in SUBSET Nat
    BY TotalIsNat, ChainsAssumption DEF TypeOK, CallRecord, Aggregate, ReadOK, Orders
  <1>2. m \in Aggregate
    BY MemType DEF ReadOK
  <1>3. m.cur \in Nat /\ DOMAIN m.steps = Orders
    BY <1>2 DEF Aggregate
  <1>4. Acted(r) \in {0, 1} /\ Over(r) \in {0, 1} /\ Acted(m) \in {0, 1} /\ Over(m) \in {0, 1}
    BY DEF Acted, Over
  <1>5. Rank(r) \in Nat /\ Rank(m) \in Nat
    BY <1>1, <1>3, <1>4 DEF Rank
  <1>6. CASE call[c].op = "cancel"
    <2>1. m.status = "cancelled" /\ m.cur = r.cur /\ m.steps = r.steps
      BY <1>6 DEF Mem, NextStatus, NextCur, ActedSteps
    <2>2. Shape(m) /\ OpenStep(m)
      BY <2>1 DEF Shape, OpenStep, Open
    <2>3. CASE r.status = "cancelled"
      <3>1. m = r
        BY <1>1, <1>2, <2>1, <2>3 DEF Aggregate
      <3>2. QED
        BY <1>5, <1>6, <2>1, <2>2, <3>1
    <2>4. CASE r.status \in Open
      <3>1. Acted(m) = Acted(r) /\ Over(r) = 0 /\ Over(m) = 1
        BY <2>1, <2>4 DEF Acted, Over, Open, Terminal
      <3>2. Rank(m) > Rank(r)
        BY <1>1, <1>4, <2>1, <3>1 DEF Rank
      <3>3. QED
        BY <1>5, <1>6, <2>1, <2>2, <3>2
    <2>5. QED
      BY <1>6, <2>3, <2>4 DEF ReadOK
  <1>7. CASE call[c].op # "cancel"
    <2>1. r.cur \in Orders /\ r.status \in Open /\ r.steps[r.cur].st = "pending" /\ r.cur <= Total
      BY <1>7 DEF ReadOK, Legit
    <2>2. /\ m.steps = [r.steps EXCEPT ![r.cur] = [st |-> Verdict(call[c].op), by |-> call[c].actor]]
          /\ m.cur = NextCur(r, call[c].op) /\ m.status = NextStatus(r, call[c].op)
      BY <1>7 DEF Mem, ActedSteps
    <2>3. /\ m.steps[r.cur].st = Verdict(call[c].op) /\ Verdict(call[c].op) \in Verdicts
          /\ \A o \in Orders : o # r.cur => m.steps[o] = r.steps[o]
      BY <1>1, <2>1, <2>2 DEF Verdict, Verdicts
    <2>4. Rank(r) = 2 * r.cur
      <3>1. Acted(r) = 0 /\ Over(r) = 0
        BY <2>1 DEF Acted, Over, Open, Terminal, Verdicts
      <3>2. QED
        BY <1>1, <3>1 DEF Rank
    <2>5. \A o \in Orders : m.steps[o] = r.steps[o] \/ m.steps[o].st \in Verdicts
      BY <2>3
    <2>6. CASE call[c].op = "approve" /\ ~IsLastStep(r)
      <3>1. m.cur = r.cur + 1 /\ m.status = "in_review" /\ m.steps[r.cur].st = "approved"
        BY <2>2, <2>3, <2>6 DEF NextCur, NextStatus, Verdict
      <3>2. \A o \in Orders : o < m.cur => o < r.cur \/ o = r.cur
        BY <1>1, <3>1
      <3>3. \A o \in Orders : o > m.cur \/ o = m.cur => o > r.cur /\ o # r.cur
        BY <1>1, <3>1
      <3>4. Shape(m)
        BY <1>1, <1>3, <2>3, <3>1, <3>2, <3>3 DEF Shape
      <3>5. OpenStep(m)
        BY <1>1, <1>3, <2>3, <3>3 DEF OpenStep, Shape
      <3>6. Rank(m) > 2 * r.cur + 1
        BY <1>1, <1>4, <3>1 DEF Rank
      <3>7. QED
        BY <1>1, <1>5, <2>4, <2>5, <3>1, <3>4, <3>5, <3>6
    <2>7. CASE call[c].op = "reject" \/ IsLastStep(r)
      <3>1. m.cur = r.cur
        BY <1>7, <2>2, <2>7 DEF NextCur
      <3>2. /\ m.status \in {"approved", "rejected"} /\ m.steps[r.cur].st = m.status
            /\ m.status = "approved" => IsLastStep(r)
        BY <1>1, <1>7, <2>2, <2>3, <2>7 DEF NextStatus, Verdict, Ops
      <3>3. \A o \in Orders : o < r.cur \/ o > r.cur => o # r.cur
        BY <1>1
      <3>4. m.status = "approved" => m.cur = Cardinality(DOMAIN m.steps)
        BY <1>1, <1>3, <2>1, <3>1, <3>2 DEF IsLastStep, Total
      <3>5. Shape(m)
        <4>1. \A o \in Orders : /\ o < r.cur => r.steps[o].st = "approved"
                                /\ o > r.cur => r.steps[o] = PendingStep
          BY <1>1 DEF Shape
        <4>2. \A o \in Orders : /\ o < m.cur => m.steps[o].st = "approved"
                                /\ o > m.cur => m.steps[o] = PendingStep
          BY <2>3, <3>1, <3>3, <4>1
        <4>3. m.status # "pending" /\ m.steps[m.cur].st = m.status
          BY <3>1, <3>2
        <4>4. \A o \in DOMAIN m.steps : /\ o < m.cur => m.steps[o].st = "approved"
                                        /\ o > m.cur => m.steps[o] = PendingStep
          BY <1>3, <4>2
        <4>5. QED
          BY <3>4, <4>3, <4>4, DecidedShape
      <3>6. OpenStep(m)
        BY <3>2 DEF OpenStep, Open
      <3>7. Acted(m) = 1 /\ Over(m) = 1
        BY <1>3, <2>1, <2>3, <3>1, <3>2 DEF Acted, Over, Terminal, Verdicts
      <3>8. Rank(m) > 2 * r.cur + 1
        BY <1>1, <3>1, <3>7 DEF Rank
      <3>9. QED
        BY <1>1, <1>5, <2>4, <2>5, <3>2, <3>5, <3>6, <3>8
    <2>8. QED
      BY <1>1, <1>7, <2>6, <2>7 DEF Ops
  <1>8. QED
    BY <1>6, <1>7

\* What a call takes the request to be in comes before what it stores.
LEMMA BaseRank ==
  ASSUME TypeOK, NEW c \in Calls, ReadOK(c), Shape(call[c].read),
         call[c].op # "cancel" => call[c].read.steps[call[c].read.cur].st = "pending"
  PROVE  /\ Rank(Base(c)) \in Nat
         /\ Mem(c) = Base(c) \/ Rank(Mem(c)) > Rank(Base(c))
         /\ \A o \in Orders : Mem(c).steps[o] = Base(c).steps[o] \/ Mem(c).steps[o].st \in Verdicts
  <1> DEFINE r == call[c].read
             m == Mem(c)
  <1>1. /\ Rank(r) \in Nat /\ Rank(m) \in Nat /\ (m = r \/ Rank(m) > Rank(r))
        /\ \A o \in Orders : m.steps[o] = r.steps[o] \/ m.steps[o].st \in Verdicts
        /\ call[c].op # "cancel" => Rank(r) = 2 * r.cur /\ Rank(m) > 2 * r.cur + 1
    BY MemShape
  <1>2. CASE Base(c) = r
    BY <1>1, <1>2
  <1>3. CASE Base(c) # r
    <2> DEFINE b == Overwrite(r, m, {}, {r.cur})
    <2>1. Base(c) = b /\ call[c].op # "cancel"
      BY <1>3 DEF Base, Seen
    <2>2. r.cur \in Orders /\ r.status \in Open /\ r.cur \in Nat
      BY <2>1 DEF ReadOK, TypeOK, CallRecord, Aggregate
    <2>3. b.cur = r.cur /\ b.status = r.status /\ \A o \in Orders : b.steps[o] = IF o = r.cur THEN m.steps[o] ELSE r.steps[o]
      BY DEF Overwrite
    <2>4. Over(b) = 0 /\ Acted(b) \in {0, 1}
      BY <2>2, <2>3 DEF Over, Acted, Open, Terminal
    <2>5. Rank(b) \in Nat /\ Rank(b) <= 2 * r.cur + 1
      BY <2>2, <2>3, <2>4 DEF Rank
    <2>6. \A o \in Orders : m.steps[o] = b.steps[o] \/ m.steps[o].st \in Verdicts
      BY <1>1, <2>3
    <2> HIDE DEF b
    <2>7. Rank(m) > Rank(b)
      BY <1>1, <2>1, <2>2, <2>5
    <2>8. QED
      BY <2>1, <2>5, <2>6, <2>7
  <1>4. QED
    BY <1>2, <1>3

\* Nothing but the step of a call changes what it holds.
LEMMA OthersHold ==
  ASSUME IInv, NEW c \in Calls, CallStep(c), NEW d \in Calls, d # c
  PROVE  /\ (Working(d)' <=> Working(d)) /\ (Saving(d)' <=> Saving(d)) /\ (Mid(d)' <=> Mid(d))
         /\ call'[d] = call[d] /\ Mem(d)' = Mem(d) /\ Base(d)' = Base(d)
  <1>1. UNCHANGED chain /\ call'[d] = call[d] /\ Mem(d)' = Mem(d)
    BY OneCallMoves DEF IInv
  <1>2. Base(d)' = Base(d)
    BY <1>1 DEF Base, Seen, Overwrite, Orders
  <1>3. QED
    BY <1>1, <1>2 DEF Working, Saving, Mid

\* A step of call c keeps the rows coherent if it leaves them alone or
\* advances the request.
LEMMA MovesOn ==
  ASSUME IInv, Coherent, NEW c \in Calls, CallStep(c), Clean, Created, Created', Shape(db)',
         db' = db \/ Rank(db') > Rank(db),
         OpenStep(db)' \/ \E d \in Calls : Mid(d)',
         Working(c)' => Holds(c)',
         Rank(db) \in Nat, Rank(db') \in Nat
  PROVE  Coherent'
  <1>1. ASSUME NEW d \in Calls, Working(d)' PROVE Holds(d)'
    <2>1. CASE d = c
      BY <1>1, <2>1
    <2>2. CASE d # c
      <3>1. /\ Working(d) /\ (Saving(d)' <=> Saving(d))
            /\ call'[d] = call[d] /\ Mem(d)' = Mem(d) /\ Base(d)' = Base(d)
        BY <1>1, <2>2, OthersHold
      <3>2. Holds(d)
        BY <3>1 DEF Coherent
      <3>3. ReadOK(d) /\ TypeOK
        BY <3>1 DEF IInv, CallsOK, Working, Saving, InFlight
      <3>4. PICK b : b = Base(d)
        OBVIOUS
      <3>5. Rank(b) \in Nat /\ Rank(b) <= Rank(db)
        BY <3>2, <3>3, <3>4, BaseRank DEF Holds
      <3>6. Rank(b) <= Rank(db') /\ (db' = b => db' = db)
        BY <3>5
      <3>7. (Rank(Base(d)) <= Rank(db))'
        <4>1. Rank(Base(d)') <= Rank(db')
          BY <3>1, <3>4, <3>6
        <4>2. QED
          BY <4>1 DEF Rank, Acted, Over
      <3>8. (Saving(d) /\ db = Base(d) => Overwrite(db, Mem(d), call[d].cols, call[d].rows) = Mem(d))'
        <4>1. UNCHANGED chain
          BY OneCallMoves DEF IInv
        <4>2. ASSUME Saving(d)', db' = Base(d)' PROVE (Overwrite(db, Mem(d), call[d].cols, call[d].rows) = Mem(d))'
          <5>1. db' = db /\ db = Base(d) /\ Saving(d)
            BY <3>1, <3>4, <3>6, <4>2
          <5>2. Overwrite(db, Mem(d), call[d].cols, call[d].rows) = Mem(d)
            BY <3>2, <5>1 DEF Holds
          <5>3. QED
            BY <3>1, <4>1, <5>1, <5>2 DEF Overwrite, Orders
        <4>3. QED
          BY <4>2
      <3>9. Shape(call[d].read)' /\ (call[d].pc = "commit" => Provisioned)' /\ (call[d].op # "cancel" => call[d].read.steps[call[d].read.cur].st = "pending")'
        BY <3>1, <3>2 DEF Holds, Shape
      <3>10. QED
        BY <3>7, <3>8, <3>9 DEF Holds
    <2>3. QED
      BY <2>1, <2>2
  <1>2. QED
    BY <1>1 DEF Coherent

\* A call that stores without a race stores what it has in memory.
LEMMA FinalStore ==
  ASSUME IInv, Coherent, NEW c \in Calls, CallStep(c), Clean, ~raced', Saving(c), ~Working(c)',
         Store(Overwrite(db, Mem(c), call[c].cols, call[c].rows), Base(c))
  PROVE  Coherent'
  <1>1. Holds(c) /\ ReadOK(c) /\ TypeOK
    BY DEF Coherent, Working, Saving, InFlight, IInv, CallsOK
  <1>2. db = Base(c) /\ db' = Mem(c) /\ UNCHANGED chain
    BY <1>1, OneCallMoves DEF Store, Holds
  <1>3. /\ Shape(Mem(c)) /\ OpenStep(Mem(c)) /\ Mem(c).status # "none" /\ Rank(Mem(c)) \in Nat
        /\ Rank(Base(c)) \in Nat /\ (Mem(c) = Base(c) \/ Rank(Mem(c)) > Rank(Base(c)))
        /\ \A o \in Orders : Mem(c).steps[o] = Base(c).steps[o] \/ Mem(c).steps[o].st \in Verdicts
    BY <1>1, MemShape, BaseRank DEF Holds
  <1>4. \A o \in Orders : Mem(c).steps[o] # AbsentStep
    BY <1>1, <1>2, <1>3 DEF Holds, Created, AbsentStep, Verdicts
  <1>5. Created'
    BY <1>2, <1>3, <1>4 DEF Created, AbsentStep, Orders
  <1>6. Shape(db)' /\ OpenStep(db)' /\ Rank(db) \in Nat /\ Rank(db') \in Nat /\ (db' = db \/ Rank(db') > Rank(db))
    <2>1. Shape(db') /\ OpenStep(db') /\ Rank(db) \in Nat /\ Rank(db') \in Nat /\ (db' = db \/ Rank(db') > Rank(db))
      BY <1>2, <1>3
    <2>2. QED
      BY <2>1 DEF Shape, OpenStep
  <1>7. QED
    BY <1>1, <1>5, <1>6, MovesOn DEF Holds

\* A step of call c that stores nothing.
LEMMA QuietCoherent ==
  ASSUME IInv, Coherent, NEW c \in Calls, CallStep(c), Clean, Created, UNCHANGED db,
         Mid(c) => Mid(c)', Working(c)' => Holds(c)'
  PROVE  Coherent'
  <1>1. UNCHANGED chain
    BY OneCallMoves DEF IInv
  <1>2. Created' /\ Shape(db)'
    BY <1>1 DEF Coherent, Created, Shape, Orders, AbsentStep
  <1>3. OpenStep(db)' \/ \E d \in Calls : Mid(d)'
    <2>1. CASE OpenStep(db)
      BY <2>1 DEF OpenStep
    <2>2. ASSUME NEW d \in Calls, Mid(d) PROVE Mid(d)'
      <3>1. CASE d = c
        BY <2>2, <3>1
      <3>2. CASE d # c
        BY <2>2, <3>2, OthersHold
      <3>3. QED
        BY <3>1, <3>2
    <2>3. QED
      BY <2>1, <2>2 DEF Coherent
  <1>4. Rank(db) \in Nat
    BY ChainsAssumption DEF IInv, TypeOK, Aggregate, Rank, Acted, Over
  <1>5. Rank(db') \in Nat
    BY <1>4
  <1>6. QED
    BY <1>2, <1>3, <1>4, <1>5, MovesOn

\* What a call holds once it moves on without a change of the rows.
LEMMA StillHolds ==
  ASSUME IInv, NEW c \in Calls, Holds(c), UNCHANGED <<chain, db>>,
         call'[c].read = call[c].read, call'[c].op = call[c].op, call'[c].actor = call[c].actor,
         (call[c].pc = "saveStep" \/ call'[c].pc = "saveStep") => Base(c)' = Base(c),
         call'[c].pc = "commit" => Provisioned,
         Saving(c)' /\ db = Base(c) => Overwrite(db, Mem(c), call'[c].cols, call'[c].rows) = Mem(c)
  PROVE  Holds(c)' /\ Mem(c)' = Mem(c) /\ Base(c)' = Base(c)
  <1>1. Mem(c)' = Mem(c)
    BY DEF Mem, NextStatus, NextCur, ActedSteps, IsLastStep, Total, Orders
  <1>2. Base(c)' = Base(c)
    <2>1. Seen(c)' = Seen(c)
      BY <1>1 DEF Seen, Overwrite, Orders
    <2>2. QED
      BY <2>1 DEF Base
  <1>3. Created' /\ Shape(call[c].read)'
    BY DEF Holds, Created, Shape, Orders, AbsentStep
  <1>4. (Rank(Base(c)) <= Rank(db))'
    <2>1. Rank(Base(c)') <= Rank(db')
      BY <1>2 DEF Holds
    <2>2. QED
      BY <2>1 DEF Rank, Acted, Over
  <1>5. (Saving(c) /\ db = Base(c) => Overwrite(db, Mem(c), call[c].cols, call[c].rows) = Mem(c))'
    <2>1. ASSUME Saving(c)', db = Base(c) PROVE (Overwrite(db, Mem(c), call[c].cols, call[c].rows) = Mem(c))'
      <3>1. Overwrite(db, Mem(c), call'[c].cols, call'[c].rows) = Mem(c)
        BY <2>1
      <3>2. QED
        BY <1>1, <3>1 DEF Overwrite, Orders
    <2>2. QED
      BY <1>2, <2>1
  <1>6. QED
    BY <1>1, <1>2, <1>3, <1>4, <1>5 DEF Holds

\* A call that begins remembers the coherent rows it read.
LEMMA ReadCoherent ==
  ASSUME IInv, Coherent, NEW c \in Calls, CallStep(c), Clean,
         (\E a \in Actors, op \in Ops : ActRead(c, a, op)) \/ CancelRead(c)
  PROVE  Coherent'
  <1>1. PICK op \in Ops, a \in Actors \union {Nobody}, pc \in {"saveStep", "select"} : Begin(c, op, a, pc) /\ (op = "cancel" <=> pc = "select")
    BY ActorsAssumption DEF ActRead, CancelRead, Ops
  <1>2. /\ db.status # "none" /\ (op # "cancel" => db.cur \in Orders /\ db.steps[db.cur].st = "pending")
        /\ \E o \in Orders : db.steps[o] # AbsentStep
    <2>1. CASE CancelRead(c)
      <3>1. Orders # {}
        BY ChainsAssumption DEF IInv, TypeOK, Orders
      <3>2. op = "cancel"
        <4>1. call'[c].op = op
          BY <1>1 DEF Begin, IInv, TypeOK, IdleCall
        <4>2. call'[c].op = "cancel"
          BY <2>1 DEF CancelRead, Begin, IInv, TypeOK, IdleCall
        <4>3. QED
          BY <4>1, <4>2
      <3>3. QED
        BY <2>1, <3>1, <3>2 DEF CancelRead
    <2>2. ASSUME NEW u \in Actors, NEW v \in Ops, ActRead(c, u, v)
          PROVE  /\ db.status # "none" /\ db.cur \in Orders /\ db.steps[db.cur].st = "pending"
                 /\ \E o \in Orders : db.steps[o] # AbsentStep
      BY <2>2 DEF ActRead, MayAct, Open, AbsentStep
    <2>3. QED
      BY <2>1, <2>2
  <1>3. Created
    <2>1. db \notin {NoRow, Filed}
      BY <1>2 DEF NoRow, Filed
    <2>2. QED
      BY <2>1 DEF Coherent
  <1>4. /\ UNCHANGED <<chain, db>> /\ call[c].pc = "idle"
        /\ call'[c].pc = pc /\ call'[c].op = op /\ call'[c].read = db
    BY <1>1 DEF Begin, IInv, TypeOK, IdleCall
  <1>5. Base(c)' = db /\ ~Saving(c)' /\ ~Mid(c)
    BY <1>1, <1>4 DEF Base, Seen, Saving, Mid
  <1>6. Rank(db) <= Rank(db)
    BY ChainsAssumption DEF IInv, TypeOK, Aggregate, Rank, Acted, Over
  <1>7. Holds(c)'
    <2>1. Created' /\ Shape(call[c].read)'
      BY <1>3, <1>4 DEF Coherent, Created, Shape, Orders, AbsentStep
    <2>2. (Rank(Base(c)) <= Rank(db))'
      BY <1>4, <1>5, <1>6 DEF Rank, Acted, Over
    <2>3. QED
      BY <1>1, <1>2, <1>4, <1>5, <2>1, <2>2 DEF Holds
  <1>8. QED
    BY <1>3, <1>4, <1>5, <1>7, QuietCoherent

\* The step of a level, stored on its own by a legacy tenant.
LEMMA StepStored ==
  ASSUME IInv, Coherent, NEW c \in Calls, CallStep(c), Clean, ~raced', ~Provisioned, SaveStep(c)
  PROVE  Coherent'
  <1> DEFINE r == call[c].read
             k == call[c].read.cur
             m == Mem(c)
  <1>1. /\ call[c].pc = "saveStep" /\ call'[c].pc = "select" /\ UNCHANGED chain
        /\ call'[c].read = r /\ call'[c].op = call[c].op /\ call'[c].actor = call[c].actor
        /\ r = db /\ db' = Overwrite(db, m, {}, {k})
    <2>1. /\ call[c].pc = "saveStep" /\ UNCHANGED chain
          /\ call' = [call EXCEPT ![c].pc = "select", ![c].rows = {k}]
      BY DEF SaveStep
    <2>2. Store(Overwrite(db, m, {}, {k}), r)
      BY DEF SaveStep
    <2>3. r = db /\ db' = Overwrite(db, m, {}, {k})
      BY <2>2 DEF Store
    <2>4. call \in [Calls -> CallRecord]
      BY DEF IInv, TypeOK
    <2>5. call'[c].pc = "select" /\ call'[c].read = r /\ call'[c].op = call[c].op /\ call'[c].actor = call[c].actor
      BY <2>1, <2>4 DEF CallRecord
    <2>6. QED
      BY <2>1, <2>3, <2>5
  <1>2. Holds(c) /\ ReadOK(c) /\ WriteOK(c) /\ TypeOK /\ call[c].op # "cancel" /\ Created
    BY <1>1 DEF Coherent, Working, InFlight, IInv, CallsOK, ReadOK, Holds
  <1>3. /\ k \in Orders /\ r.status \in Open /\ k \in Nat /\ DOMAIN r.steps = Orders
        /\ r.steps[k].st = "pending" /\ Orders \in SUBSET Nat
    BY <1>2, ChainsAssumption DEF ReadOK, TypeOK, CallRecord, Aggregate, Holds, Orders
  <1>4. m.steps[k].st \in Verdicts
    BY <1>2, <1>3 DEF TypeOK, CallRecord, Aggregate, Mem, ActedSteps, Verdict, Verdicts
  <1>5. /\ db'.cur = k /\ db'.status = r.status /\ DOMAIN db'.steps = Orders
        /\ \A o \in Orders : db'.steps[o] = IF o = k THEN m.steps[o] ELSE r.steps[o]
    BY <1>1 DEF Overwrite
  <1>6. Mem(c)' = m
    BY <1>1 DEF Mem, NextStatus, NextCur, ActedSteps, IsLastStep, Total, Orders
  <1>7. Created'
    <2>1. \A o \in Orders : r.steps[o] # AbsentStep
      BY <1>1, <1>2 DEF Created
    <2>2. m.steps[k] # AbsentStep
      BY <1>4 DEF AbsentStep, Verdicts
    <2>3. \A o \in Orders : db'.steps[o] # AbsentStep
      BY <1>5, <2>1, <2>2
    <2>4. db'.status # "none"
      BY <1>3, <1>5 DEF Open
    <2>5. QED
      BY <1>1, <2>3, <2>4 DEF Created, Orders, AbsentStep
  <1>8. Shape(db')
    <2>1. \A o \in Orders : o < k \/ o > k => o # k
      BY <1>3
    <2>2. Shape(r)
      BY <1>2 DEF Holds
    <2>3. db'.status \notin {"approved", "rejected"}
      BY <1>3, <1>5 DEF Open
    <2>4. QED
      BY <1>3, <1>5, <2>1, <2>2, <2>3 DEF Shape
  <1>9. Rank(db) = 2 * k /\ Rank(db') = 2 * k + 1
    <2>1. Acted(db) = 0 /\ Over(db) = 0 /\ Acted(db') = 1 /\ Over(db') = 0
      BY <1>1, <1>3, <1>4, <1>5 DEF Acted, Over, Open, Terminal, Verdicts
    <2>2. QED
      BY <1>1, <1>3, <1>5, <2>1 DEF Rank
  <1>10. Base(c)' = db' /\ ~Saving(c)' /\ Mid(c)'
    <2>1. Seen(c)' = Overwrite(r, m, {}, {k})'
      BY <1>1, <1>2, <1>6 DEF Seen, Overwrite, Orders
    <2>2. Seen(c)' = Overwrite(r, m, {}, {k})
      BY <1>1, <1>6, <2>1 DEF Overwrite, Orders
    <2>3. QED
      BY <1>1, <1>2, <2>2 DEF Base, Saving, Mid
  <1>11. Holds(c)'
    <2>1. Shape(call[c].read)' /\ (call[c].op # "cancel" => call[c].read.steps[call[c].read.cur].st = "pending")'
      BY <1>1, <1>2 DEF Holds, Shape
    <2>2. (Rank(Base(c)) <= Rank(db))'
      <3>1. Rank(db') <= Rank(db') /\ Rank(Base(c)') = Rank(db')
        BY <1>3, <1>9, <1>10
      <3>2. QED
        BY <3>1 DEF Rank, Acted, Over
    <2>3. QED
      BY <1>1, <1>7, <1>10, <2>1, <2>2 DEF Holds
  <1>12. Shape(db)' /\ Rank(db) \in Nat /\ Rank(db') \in Nat /\ Rank(db') > Rank(db)
    BY <1>3, <1>8, <1>9 DEF Shape
  <1>13. QED
    BY <1>2, <1>7, <1>10, <1>11, <1>12, MovesOn

\* The save of a request selects the columns that differ.
LEMMA SelectCoherent ==
  ASSUME IInv, Coherent, NEW c \in Calls, CallStep(c), Clean, SelectDiff(c)
  PROVE  Coherent'
  <1> DEFINE m == Mem(c)
             v == Visible(c)
  <1>1. PICK cols, rows :
          /\ cols = (IF m.status # v.status THEN {"status"} ELSE {}) \union (IF m.cur # v.cur THEN {"cur"} ELSE {})
          /\ LET diff == IF call[c].op = "cancel" THEN {} ELSE {o \in Orders : m.steps[o] # v.steps[o]}
             IN  rows = IF Provisioned THEN call[c].rows \union diff ELSE diff
    OBVIOUS
  <1>2. /\ call[c].pc = "select" /\ UNCHANGED <<chain, db>>
        /\ call' = [call EXCEPT ![c].pc = "update", ![c].cols = cols, ![c].rows = rows]
    BY <1>1 DEF SelectDiff
  <1>3. /\ call'[c].pc = "update" /\ call'[c].cols = cols /\ call'[c].rows = rows
        /\ call'[c].read = call[c].read /\ call'[c].op = call[c].op /\ call'[c].actor = call[c].actor
    BY <1>2 DEF IInv, TypeOK, CallRecord
  <1>4. Holds(c) /\ ReadOK(c) /\ TypeOK /\ Created
    BY <1>2 DEF Coherent, Working, InFlight, IInv, CallsOK, Holds
  <1>5. m \in Aggregate /\ db \in Aggregate
    BY <1>4, MemType DEF ReadOK, TypeOK
  <1>6. v.status = db.status /\ v.cur = db.cur
    BY DEF Visible, Overwrite
  <1>7. db = Base(c) => Overwrite(db, m, cols, rows) = m
    <2>1. SUFFICES ASSUME db = Base(c) PROVE Overwrite(db, m, cols, rows) = m
      OBVIOUS
    <2> DEFINE n == Overwrite(db, m, cols, rows)
    <2>2. n.status = m.status /\ n.cur = m.cur
      BY <1>1, <1>6 DEF Overwrite
    <2>3. \A o \in Orders : o \notin rows => db.steps[o] = m.steps[o]
      <3>1. ASSUME NEW o \in Orders, o \notin rows PROVE db.steps[o] = m.steps[o]
        <4>1. CASE call[c].op = "cancel"
          <5>1. db = call[c].read
            BY <2>1, <4>1 DEF Base, Seen
          <5>2. QED
            BY <4>1, <5>1 DEF Mem, ActedSteps
        <4>2. CASE call[c].op # "cancel"
          <5>1. v.steps[o] = m.steps[o]
            BY <1>1, <3>1, <4>2
          <5>2. v.steps[o] = db.steps[o]
            <6>1. CASE Provisioned
              <7>1. o \notin call[c].rows
                BY <1>1, <3>1, <6>1
              <7>2. QED
                BY <6>1, <7>1 DEF Visible, Overwrite
            <6>2. CASE ~Provisioned
              BY <6>2 DEF Visible
            <6>3. QED
              BY <6>1, <6>2
          <5>3. QED
            BY <5>1, <5>2
        <4>3. QED
          BY <4>1, <4>2
      <3>2. QED
        BY <3>1
    <2>4. n.steps = [o \in Orders |-> m.steps[o]]
      BY <2>3 DEF Overwrite
    <2>5. n.steps = m.steps /\ n \in Aggregate
      BY <1>5, <2>4, OverwriteType DEF Aggregate
    <2> HIDE DEF n
    <2>6. n = m
      BY <1>5, <2>2, <2>5 DEF Aggregate
    <2>7. QED
      BY <2>6 DEF n
  <1>8. Holds(c)'
    <2> HIDE DEF m, v
    <2>1. Overwrite(db, Mem(c), call'[c].cols, call'[c].rows) = Mem(c) \/ db # Base(c)
      BY <1>3, <1>7 DEF m
    <2>2. QED
      BY <1>2, <1>3, <1>4, <2>1, StillHolds
  <1>9. Mid(c) => Mid(c)'
    BY <1>3 DEF Mid
  <1>10. QED
    BY <1>2, <1>4, <1>8, <1>9, QuietCoherent

\* A race and a call cut off are never forgotten.
LEMMA CleanBefore == ASSUME IInv, [Next]_vars, Clean' PROVE Clean
  <1>1. CASE UNCHANGED vars \/ CreateRequest \/ CreateSteps
    BY <1>1 DEF vars, CreateRequest, CreateSteps, Clean
  <1>2. ASSUME NEW c \in Calls, CallStep(c) PROVE Clean
    <2>1. raced' = raced \/ raced' = TRUE \/ \E seen : raced' = (raced \/ seen # db)
      BY <1>2 DEF CallStep, ActRead, CancelRead, Begin, SaveStep, SelectDiff, Update, Emit, Commit, Abort, Store
    <2>2. ~raced
      BY <2>1 DEF Clean
    <2>3. call[c].pc # "failed" /\ \A d \in Calls : d # c => call'[d] = call[d]
      BY <1>2, OneCallMoves DEF IInv, InFlight
    <2>4. QED
      BY <2>2, <2>3 DEF Clean
  <1>3. QED
    BY <1>1, <1>2 DEF Next

\* Every step keeps the rows coherent.
LEMMA NextCoherent == IInv /\ Coherent /\ [Next]_vars => Coherent'
  <1> SUFFICES ASSUME IInv, Coherent, [Next]_vars, Clean' PROVE Coherent'
    BY DEF Coherent
  <1>0. Clean /\ TypeOK
    BY CleanBefore DEF IInv
  <1>1. CASE UNCHANGED vars
    <2>1. /\ Created' <=> Created
          /\ \A c \in Calls : /\ Mem(c)' = Mem(c) /\ (Working(c)' <=> Working(c)) /\ (Mid(c)' <=> Mid(c))
      BY <1>1 DEF vars, Created, Mem, NextStatus, NextCur, ActedSteps, IsLastStep, Total, Orders, Working, Saving, Mid
    <2>2. (IF Created THEN Shape(db) /\ (OpenStep(db) \/ \E c \in Calls : Mid(c)) ELSE db \in {NoRow, Filed})'
      BY <1>0, <1>1, <2>1 DEF vars, Coherent, Shape, OpenStep, NoRow, Filed, Orders
    <2>3. ASSUME NEW c \in Calls, Working(c)' PROVE Holds(c)'
      <3>1. Holds(c)
        BY <1>0, <2>1, <2>3 DEF Coherent
      <3>2. Saving(c)' /\ db = Base(c) => Overwrite(db, Mem(c), call'[c].cols, call'[c].rows) = Mem(c)
        BY <1>1, <3>1 DEF vars, Holds, Saving
      <3>3. Base(c)' = Base(c)
        BY <1>1, <2>1 DEF vars, Base, Seen, Overwrite, Orders
      <3>4. QED
        BY <1>1, <3>1, <3>2, <3>3, StillHolds DEF vars, Holds
    <2>4. QED
      BY <1>0, <1>1, <2>1, <2>2, <2>3 DEF vars, Coherent
  <1>2. CASE CreateRequest \/ CreateSteps
    <2>1. Orders \in SUBSET (Nat \ {0}) /\ Orders # {} /\ UNCHANGED <<chain, call>> /\ Orders' = Orders
      BY <1>0, <1>2, ChainsAssumption DEF TypeOK, Orders, CreateRequest, CreateSteps
    <2>2. ~Created
      BY <1>2, <2>1 DEF CreateRequest, CreateSteps, Created
    <2>3. db \in {NoRow, Filed} /\ \A c \in Calls : ~Working(c) /\ call[c].pc \notin InFlight
      BY <1>0, <2>2 DEF Coherent, Holds
    <2>4. db' = Filed \/ db' = [status |-> "pending", cur |-> 1, steps |-> [o \in Orders |-> PendingStep]]
      BY <1>2, <2>3 DEF CreateRequest, CreateSteps, Filed, NoRow
    <2>5. \A c \in Calls : ~Working(c)' /\ call'[c].pc \notin InFlight
      BY <2>1, <2>3 DEF Working, Saving
    <2>6. CASE db' = Filed
      <3>1. ~Created' /\ (db \in {NoRow, Filed})'
        BY <2>1, <2>6 DEF Created, Filed
      <3>2. QED
        BY <2>5, <3>1 DEF Coherent
    <2>7. CASE db' = [status |-> "pending", cur |-> 1, steps |-> [o \in Orders |-> PendingStep]]
      <3>1. Created'
        BY <2>1, <2>7 DEF Created, AbsentStep, PendingStep
      <3>2. Shape(db)' /\ OpenStep(db)'
        <4>1. \A o \in Orders : ~(o < 1)
          BY <2>1
        <4>2. QED
          BY <2>7, <4>1 DEF Shape, OpenStep
      <3>3. QED
        BY <2>5, <3>1, <3>2 DEF Coherent
    <2>8. QED
      BY <2>4, <2>6, <2>7
  <1>3. ASSUME NEW c \in Calls, CallStep(c) PROVE Coherent'
    <2>0. ~raced' /\ UNCHANGED chain /\ call[c] \in CallRecord /\ call \in [Calls -> CallRecord]
      BY <1>0, <1>3, OneCallMoves DEF Clean, TypeOK
    <2>1. CASE (\E a \in Actors, op \in Ops : ActRead(c, a, op)) \/ CancelRead(c)
      BY <1>0, <1>3, <2>1, ReadCoherent
    <2>2. CASE SaveStep(c)
      <3>1. CASE ~Provisioned
        BY <1>0, <1>3, <2>0, <2>2, <3>1, StepStored
      <3>2. CASE Provisioned
        <4>1. /\ call[c].pc = "saveStep" /\ call'[c].pc = "select" /\ UNCHANGED db
              /\ call'[c].read = call[c].read /\ call'[c].op = call[c].op /\ call'[c].actor = call[c].actor
          BY <2>0, <2>2, <3>2 DEF SaveStep, CallRecord
        <4>2. Holds(c) /\ Created
          BY <1>0, <4>1 DEF Coherent, Working, Holds
        <4>3. Base(c)' = Base(c) /\ ~Saving(c)' /\ ~Mid(c)
          BY <3>2, <4>1 DEF Base, Seen, Saving, Mid
        <4>4. Holds(c)'
          BY <2>0, <4>1, <4>2, <4>3, StillHolds
        <4>5. QED
          BY <1>0, <1>3, <4>1, <4>2, <4>3, <4>4, QuietCoherent
      <3>3. QED
        BY <3>1, <3>2
    <2>3. CASE SelectDiff(c)
      BY <1>0, <1>3, <2>3, SelectCoherent
    <2>4. ASSUME NEW ok \in BOOLEAN, Update(c, ok) PROVE Coherent'
      <3>1. /\ call[c].pc = "update" /\ call'[c].pc = "emit" /\ call'[c].cols = call[c].cols /\ call'[c].rows = call[c].rows
            /\ call'[c].read = call[c].read /\ call'[c].op = call[c].op /\ call'[c].actor = call[c].actor
        BY <2>0, <2>4 DEF Update, CallRecord
      <3>2. CASE Provisioned
        <4>1. UNCHANGED db /\ Saving(c) /\ Working(c) /\ ~Mid(c)
          BY <2>4, <3>1, <3>2 DEF Update, Saving, Working, Mid
        <4>2. Holds(c) /\ Created
          BY <1>0, <4>1 DEF Coherent, Holds
        <4>3. Saving(c)' /\ db = Base(c) => Overwrite(db, Mem(c), call'[c].cols, call'[c].rows) = Mem(c)
          BY <3>1, <4>1, <4>2 DEF Holds
        <4>4. Holds(c)'
          BY <2>0, <3>1, <4>1, <4>2, <4>3, StillHolds
        <4>5. QED
          BY <1>0, <1>3, <4>1, <4>2, <4>4, QuietCoherent
      <3>3. CASE ~Provisioned
        <4>1. Saving(c) /\ ~Working(c)' /\ Base(c) = Seen(c)
          BY <3>1, <3>3 DEF Saving, Working, Base
        <4>2. Store(Overwrite(db, Mem(c), call[c].cols, call[c].rows), Base(c))
          BY <2>4, <3>3, <4>1 DEF Update
        <4>3. QED
          BY <1>0, <1>3, <2>0, <4>1, <4>2, FinalStore
      <3>4. QED
        BY <3>2, <3>3
    <2>5. CASE Emit(c)
      <3>1. /\ call[c].pc = "emit" /\ call'[c].pc = (IF Provisioned THEN "commit" ELSE "done")
            /\ UNCHANGED db /\ call'[c].cols = call[c].cols /\ call'[c].rows = call[c].rows
            /\ call'[c].read = call[c].read /\ call'[c].op = call[c].op /\ call'[c].actor = call[c].actor
        BY <2>0, <2>5 DEF Emit, CallRecord
      <3>2. ~Mid(c) /\ (Working(c)' => Provisioned /\ Saving(c))
        BY <3>1 DEF Mid, Working, Saving
      <3>3. Created
        BY <1>0, <3>1 DEF Coherent, InFlight
      <3>4. Working(c)' => Holds(c)'
        <4> SUFFICES ASSUME Working(c)' PROVE Holds(c)'
          OBVIOUS
        <4>1. Holds(c) /\ Saving(c) /\ Provisioned
          BY <1>0, <3>2 DEF Coherent, Working
        <4>2. Saving(c)' /\ db = Base(c) => Overwrite(db, Mem(c), call'[c].cols, call'[c].rows) = Mem(c)
          BY <3>1, <4>1 DEF Holds
        <4>3. QED
          BY <2>0, <3>1, <4>1, <4>2, StillHolds
      <3>5. QED
        BY <1>0, <1>3, <3>1, <3>2, <3>3, <3>4, QuietCoherent
    <2>6. CASE Commit(c)
      <3>1. /\ call[c].pc = "commit" /\ call'[c].pc = "done" /\ Store(Overwrite(db, Mem(c), call[c].cols, call[c].rows), call[c].read)
        BY <2>0, <2>6 DEF Commit, CallRecord
      <3>2. Saving(c) /\ Working(c) /\ ~Working(c)'
        BY <3>1 DEF Saving, Working
      <3>3. Provisioned
        BY <1>0, <3>1, <3>2 DEF Coherent, Holds
      <3>4. Base(c) = call[c].read
        BY <3>1, <3>3 DEF Base, Seen
      <3>5. QED
        BY <1>0, <1>3, <2>0, <3>1, <3>2, <3>4, FinalStore
    <2>7. CASE Abort(c)
      <3>1. call'[c].pc = "failed" /\ UNCHANGED db /\ call[c].pc \in InFlight
        BY <2>0, <2>7 DEF Abort, CallRecord
      <3>2. Provisioned /\ ~Mid(c) /\ ~Working(c)'
        BY <3>1 DEF Clean, Mid, Working, Saving
      <3>3. Working(c)
        BY <3>1, <3>2 DEF Working, Saving, InFlight
      <3>4. Created
        BY <1>0, <3>3 DEF Coherent, Holds
      <3>5. QED
        BY <1>0, <1>3, <3>1, <3>2, <3>4, QuietCoherent
    <2>8. QED
      BY <1>3, <2>1, <2>2, <2>3, <2>4, <2>5, <2>6, <2>7 DEF CallStep
  <1>4. QED
    BY <1>1, <1>2, <1>3 DEF Next

\* As long as no call writes over a state it has not read, the request row and
\* its step rows agree, whatever calls fail (on a legacy tenant: once none is
\* in flight or was cut off between its two saves).
THEOREM RowsAgreeUnraced == Spec => []UnracedRowsAgree
  <1>1. Init => IInv /\ Coherent
    <2> SUFFICES ASSUME Init PROVE IInv /\ Coherent
      OBVIOUS
    <2>1. IInv
      BY InitIInv
    <2>2. ~Created /\ db = NoRow /\ \A c \in Calls : ~Working(c) /\ call[c].pc \notin InFlight
      BY DEF Init, NoRow, Created, IdleCall, Working, Saving, InFlight
    <2>3. QED
      BY <2>1, <2>2 DEF Coherent
  <1>2. IInv /\ Coherent /\ [Next]_vars => (IInv /\ Coherent)'
    BY NextIInv, NextCoherent
  <1>3. IInv /\ Coherent => UnracedRowsAgree
    <2> SUFFICES ASSUME IInv, Coherent, ~raced, Settled, \E o \in Orders : db.steps[o] # AbsentStep PROVE RowsAgree
      BY DEF UnracedRowsAgree
    <2>1. Clean
      BY DEF Settled, Clean
    <2>2. Created
      BY <2>1 DEF Coherent, NoRow, Filed
    <2>3. Shape(db) /\ OpenStep(db)
      BY <2>1, <2>2 DEF Coherent, Settled, Mid
    <2>4. DOMAIN db.steps = Orders
      BY DEF IInv, TypeOK, Aggregate
    <2>5. QED
      BY <2>3, <2>4 DEF RowsAgree, Shape, OpenStep, PendingStep, Total
  <1>4. QED
    BY <1>1, <1>2, <1>3, PTL DEF Spec

-----------------------------------------------------------------------------
(* WorkflowConfig *)

\* A set of natural numbers has a least one.
LEMMA LeastOf ==
  ASSUME NEW S \in SUBSET Nat, S # {}
  PROVE  \E x \in S : \A y \in S : x <= y
  <1>1. IsWellFoundedOn(OpToRel(<, Nat), Nat)
    BY NatLessThanWellFounded, Zenon
  <1>2. PICK x \in S : \A y \in S : ~(<<y, x>> \in OpToRel(<, Nat))
    BY <1>1, WFMin, Zenon
  <1>3. \A y \in S : ~(y < x)
    BY <1>2 DEF OpToRel
  <1>4. QED
    BY <1>3

\* S has no two rows of one step_order in t.
Apart(t, S) ==
  /\ IsFiniteSet(S)
  /\ \A i \in S : t[i].order \in Nat
  /\ \A i, j \in S : t[i].order = t[j].order => i = j

\* Sorted by step_order, each row has a place and each place a row.
LEMMA Places ==
  ASSUME NEW t, NEW S, Apart(t, S)
  PROVE  /\ Cardinality(S) \in Nat
         /\ \A i \in S : Place(t, S, i) \in 1 .. Cardinality(S)
         /\ \A i, j \in S : Place(t, S, i) = Place(t, S, j) => i = j
         /\ \A n \in 1 .. Cardinality(S) : \E i \in S : Place(t, S, i) = n
  <1> DEFINE n == Cardinality(S)
             UpTo(i) == {j \in S : t[j].order <= t[i].order}
             f == [i \in S |-> Place(t, S, i)]
  <1>0. n \in Nat
    BY FS_CardinalityType DEF Apart
  <1>1. \A i \in S : Place(t, S, i) \in 1 .. n
    <2>1. TAKE i \in S
    <2>2. IsFiniteSet(UpTo(i)) /\ Cardinality(UpTo(i)) <= n
      BY FS_Subset DEF Apart
    <2>3. i \in UpTo(i)
      BY <2>1 DEF Apart
    <2>4. Cardinality(UpTo(i)) \in Nat /\ Cardinality(UpTo(i)) # 0
      BY <2>2, <2>3, FS_CardinalityType, FS_EmptySet
    <2>5. QED
      BY <1>0, <2>2, <2>4 DEF Place
  <1>2. \A i, j \in S : t[i].order < t[j].order => Place(t, S, i) < Place(t, S, j)
    <2>1. SUFFICES ASSUME NEW i \in S, NEW j \in S, t[i].order < t[j].order
                   PROVE  Cardinality(UpTo(i)) < Cardinality(UpTo(j))
      BY DEF Place
    <2>2. UpTo(i) \in SUBSET UpTo(j) /\ j \in UpTo(j) /\ j \notin UpTo(i)
      BY <2>1 DEF Apart
    <2>3. IsFiniteSet(UpTo(i)) /\ IsFiniteSet(UpTo(j))
      BY FS_Subset DEF Apart
    <2>4. Cardinality(UpTo(i)) <= Cardinality(UpTo(j)) /\ Cardinality(UpTo(i)) # Cardinality(UpTo(j))
      BY <2>2, <2>3, FS_Subset
    <2>5. Cardinality(UpTo(i)) \in Nat /\ Cardinality(UpTo(j)) \in Nat
      BY <2>3, FS_CardinalityType
    <2>6. QED
      BY <2>4, <2>5
  <1>3. \A i, j \in S : Place(t, S, i) = Place(t, S, j) => i = j
    <2>1. SUFFICES ASSUME NEW i \in S, NEW j \in S, Place(t, S, i) = Place(t, S, j), i # j PROVE FALSE
      OBVIOUS
    <2>2. t[i].order \in Nat /\ t[j].order \in Nat /\ t[i].order # t[j].order
      BY <2>1 DEF Apart
    <2>3. t[i].order < t[j].order \/ t[j].order < t[i].order
      BY <2>2
    <2>4. Place(t, S, i) \in Nat
      BY <1>0, <1>1
    <2>5. QED
      BY <1>2, <2>1, <2>3, <2>4
  <1>4. f \in Injection(S, 1 .. n)
    BY <1>1, <1>3 DEF Injection, IsInjective
  <1>5. IsFiniteSet(1 .. n) /\ Cardinality(1 .. n) = n
    BY <1>0, FS_Interval
  <1>6. f \in Surjection(S, 1 .. n)
    BY <1>4, <1>5, FS_Injection
  <1>7. \A k \in 1 .. n : \E i \in S : f[i] = k
    BY <1>6 DEF Surjection
  <1>8. QED
    BY <1>0, <1>1, <1>3, <1>7

\* The list of S in that order.
LEMMA SortedIs ==
  ASSUME NEW t, NEW S, Apart(t, S)
  PROVE  /\ Sorted(t, S) \in [1 .. Cardinality(S) -> S]
         /\ \A i \in S : \E n \in 1 .. Cardinality(S) : Sorted(t, S)[n] = i
  <1>1. \A n \in 1 .. Cardinality(S) : Sorted(t, S)[n] \in S /\ Place(t, S, Sorted(t, S)[n]) = n
    BY Places DEF Sorted
  <1>2. \A i \in S : Sorted(t, S)[Place(t, S, i)] = i
    BY <1>1, Places
  <1>3. QED
    BY <1>1, <1>2, Places DEF Sorted

-----------------------------------------------------------------------------
(* Saving a list *)

\* The largest of some numbers is one of them.
LEMMA MaxOf ==
  ASSUME NEW m \in Nat, NEW S \in SUBSET (1 .. m), S # {}
  PROVE  Max(S) \in S /\ \A x \in S : x <= Max(S)
  <1> DEFINE T == {m - x : x \in S}
  <1>1. T \in SUBSET Nat /\ T # {}
    <2>1. ASSUME NEW x \in S PROVE m - x \in Nat
      OBVIOUS
    <2>2. QED
      BY <2>1
  <1>2. PICK t \in T : \A u \in T : t <= u
    <2> HIDE DEF T
    <2>1. QED
      BY <1>1, LeastOf, Zenon
  <1>3. PICK y \in S : t = m - y
    BY <1>2
  <1>4. \A x \in S : y >= x
    BY <1>2, <1>3
  <1>5. QED
    BY <1>4 DEF Max

\* What the save of call c makes of the list w, as the fold of Write defines it:
\* from the table it sees, one row after the other.
Start(c) == [t |-> Sees(c), dup |-> FALSE]

Fold(c, w, g, s) == IF s = {} THEN Start(c) ELSE Put(c, g[s \ {Max(s)}], w[Max(s)])

Folds(c, w, g, n) == g = [s \in SUBSET (1 .. n) |-> Fold(c, w, g, s)]

AllFolds(c, w) == CHOOSE g : g = [s \in SUBSET DOMAIN w |-> Fold(c, w, g, s)]

Saved(c) == FoldLeft(LAMBDA r, i : Put(c, r, i), Start(c), WriteOrder(c))

LEMMA SavedIs == ASSUME NEW c PROVE Saved(c) = AllFolds(c, WriteOrder(c))[DOMAIN WriteOrder(c)]
  BY DEF Saved, FoldLeft, MapThenFoldSet, AllFolds, Fold

\* A fold over the first n numbers extends to one more.
LEMMA FoldGrows ==
  ASSUME NEW c, NEW w, NEW n \in Nat, NEW f, Folds(c, w, f, n)
  PROVE  \E g : Folds(c, w, g, n + 1)
  <1> DEFINE T(s) == Fold(c, w, f, s)
             g == [s \in SUBSET (1 .. n + 1) |-> T(s)]
  <1>1. \A s \in SUBSET (1 .. n) : f[s] = T(s)
    <2>1. f = [s \in SUBSET (1 .. n) |-> T(s)]
      BY DEF Folds
    <2> HIDE DEF T
    <2>2. QED
      BY <2>1
  <1>2. \A s \in SUBSET (1 .. n) : s \in SUBSET (1 .. n + 1)
    OBVIOUS
  <1>3. \A s \in SUBSET (1 .. n) : g[s] = f[s]
    BY <1>1, <1>2
  <1>4. \A s \in SUBSET (1 .. n + 1) : s # {} => s \ {Max(s)} \in SUBSET (1 .. n)
    <2>1. SUFFICES ASSUME NEW s \in SUBSET (1 .. n + 1), s # {}, NEW x \in s, x # Max(s) PROVE x \in 1 .. n
      OBVIOUS
    <2>2. n + 1 \in Nat
      OBVIOUS
    <2>3. PICK m \in Nat : m = n + 1
      BY <2>2
    <2>4. s \in SUBSET (1 .. m)
      BY <2>1, <2>3
    <2>5. Max(s) \in s /\ \A y \in s : y <= Max(s)
      BY <2>1, <2>4, MaxOf
    <2>6. PICK y \in 1 .. n + 1 : y = Max(s)
      BY <2>1, <2>5
    <2>7. x \in 1 .. n + 1 /\ x <= y /\ x # y
      BY <2>1, <2>5, <2>6
    <2>8. QED
      BY <2>7
  <1> HIDE DEF g
  <1>5. \A s \in SUBSET (1 .. n + 1) : T(s) = Fold(c, w, g, s)
    BY <1>3, <1>4 DEF Fold
  <1>6. g = [s \in SUBSET (1 .. n + 1) |-> Fold(c, w, g, s)]
    BY <1>5 DEF g
  <1>7. QED
    BY <1>6 DEF Folds

\* The fold exists, so that its parts are what its definition says.
LEMMA FoldIs ==
  ASSUME NEW c, NEW w, NEW n \in Nat, DOMAIN w = 1 .. n
  PROVE  \A s \in SUBSET (1 .. n) : AllFolds(c, w)[s] = Fold(c, w, AllFolds(c, w), s)
  <1> DEFINE Good(k) == \E g : Folds(c, w, g, k)
             Bad     == {k \in Nat : ~Good(k)}
             f       == AllFolds(c, w)
             F(s)    == Fold(c, w, f, s)
  <1>1. Good(0)
    <2> DEFINE g == [s \in {{}} |-> Start(c)]
    <2>1. SUBSET (1 .. 0) = {{}}
      OBVIOUS
    <2>2. \A s \in {{}} : Fold(c, w, g, s) = Start(c)
      BY DEF Fold
    <2>3. g = [s \in SUBSET (1 .. 0) |-> Fold(c, w, g, s)]
      BY <2>1, <2>2
    <2>4. QED
      BY <2>3 DEF Folds
  <1>2. ASSUME NEW k \in Nat, Good(k) PROVE Good(k + 1)
    BY <1>2, FoldGrows
  <1> HIDE DEF Good
  <1>3. \A k \in Nat : Good(k)
    <2>1. SUFFICES ASSUME Bad # {} PROVE FALSE
      OBVIOUS
    <2>2. Bad \in SUBSET Nat
      OBVIOUS
    <2> HIDE DEF Bad
    <2>3. PICK k \in Bad : \A m \in Bad : k <= m
      BY <2>1, <2>2, LeastOf
    <2> USE DEF Bad
    <2>4. k \in Nat /\ k # 0 /\ k - 1 \in Nat
      BY <1>1
    <2>5. Good(k - 1)
      BY <2>3, <2>4
    <2>6. QED
      BY <1>2, <2>3, <2>4, <2>5
  <1>4. \E g : g = [s \in SUBSET DOMAIN w |-> Fold(c, w, g, s)]
    BY <1>3 DEF Good, Folds
  <1>5. f = [s \in SUBSET (1 .. n) |-> F(s)]
    BY <1>4 DEF AllFolds
  <1> HIDE DEF f, F
  <1>6. \A s \in SUBSET (1 .. n) : f[s] = F(s)
    BY <1>5
  <1>7. QED
    BY <1>6 DEF f, F

-----------------------------------------------------------------------------
\* What a save leaves when no row was rejected.
AfterSave(c) ==
  [i \in Ids |-> IF i \in admin[c].saving THEN admin[c].mem[i] ELSE Sees(c)[i]]

\* The save of c knows which rows are gone and which columns differ.
Selected(c) ==
  \A i \in admin[c].saving :
    admin[c].cols[i] = IF Sees(c)[i] = Gone THEN {"insert"}
                       ELSE {f \in {"order", "active"} : admin[c].mem[i][f] # Sees(c)[i][f]}

\* What c saves are rows.
Saves(c) ==
  /\ admin[c].saving \subseteq Ids
  /\ \A i \in admin[c].saving : admin[c].mem[i] \in Row
  /\ Apart(admin[c].mem, admin[c].saving)

LEMMA Kinds ==
  /\ \A r \in Row : r # Gone /\ r.order \in Nat \ {0} /\ DOMAIN r = {"order", "active"}
  /\ \A r \in Row \union {Gone} : r # Gone => r \in Row
  /\ \A r, s \in Row : r["order"] = s["order"] /\ r["active"] = s["active"] => r = s
  BY DEF Row, Gone

\* Written once or again, a row becomes what the call has in memory.
LEMMA PutMakes ==
  ASSUME NEW c, Selected(c), Saves(c), Sees(c) \in Table, NEW i \in admin[c].saving, admin[c].cols[i] # {},
         NEW r, r.t \in Table, r.t[i] \in {Sees(c)[i], admin[c].mem[i]}
  PROVE  Put(c, r, i).t \in Table /\ \A j \in Ids : Put(c, r, i).t[j] = IF j = i THEN admin[c].mem[i] ELSE r.t[j]
  <1> DEFINE cols == admin[c].cols[i]
             m    == admin[c].mem[i]
             new  == IF "insert" \in cols THEN m ELSE [f \in DOMAIN m |-> IF f \in cols THEN m[f] ELSE r.t[i][f]]
  <1>1. m \in Row /\ i \in Ids /\ m # Gone /\ DOMAIN m = {"order", "active"}
    BY Kinds DEF Saves
  <1>2. cols = IF Sees(c)[i] = Gone THEN {"insert"} ELSE {f \in {"order", "active"} : m[f] # Sees(c)[i][f]}
    BY DEF Selected
  <1>3. ~(r.t[i] = Gone /\ "insert" \notin cols)
    BY <1>1, <1>2
  <1>4. new = m
    <2>1. CASE "insert" \in cols
      BY <2>1
    <2>2. CASE "insert" \notin cols
      <3>1. r.t[i] \in Row
        BY <1>1, <1>3, <2>2, Kinds DEF Table
      <3>2. \A f \in {"order", "active"} : f \notin cols => m[f] = r.t[i][f]
        BY <1>2, <2>2
      <3>3. new = [f \in {"order", "active"} |-> m[f]]
        BY <1>1, <2>2, <3>2
      <3>4. QED
        BY <1>1, <3>3 DEF Row
    <2>3. QED
      BY <2>1, <2>2
  <1>5. Put(c, r, i).t = [r.t EXCEPT ![i] = m]
    <2> HIDE DEF new
    <2>1. Put(c, r, i).t = [r.t EXCEPT ![i] = new]
      BY <1>3 DEF Put, new
    <2>2. QED
      BY <1>4, <2>1
  <1>6. QED
    BY <1>1, <1>5 DEF Table

\* The list holds each row that is to be written.
LEMMA OrderIs ==
  ASSUME NEW c, Saves(c)
  PROVE  \E n \in Nat : /\ WriteOrder(c) \in [1 .. n -> admin[c].saving]
                        /\ \A k \in 1 .. n : admin[c].cols[WriteOrder(c)[k]] # {}
                        /\ \A i \in admin[c].saving : admin[c].cols[i] # {} => \E k \in 1 .. n : WriteOrder(c)[k] = i
  <1> DEFINE S   == admin[c].saving
             Ins == {i \in S : "insert" \in admin[c].cols[i]}
             Upd == {i \in S \ Ins : admin[c].cols[i] # {}}
             u   == Sorted(admin[c].mem, Ins)
             v   == Sorted(admin[c].mem, Upd)
             a   == Cardinality(Ins)
             b   == Cardinality(Upd)
  <1>1. Apart(admin[c].mem, Ins) /\ Apart(admin[c].mem, Upd)
    <2>1. IsFiniteSet(Ins) /\ IsFiniteSet(Upd)
      BY FS_Subset DEF Saves, Apart
    <2>2. QED
      BY <2>1 DEF Saves, Apart
  <1>2. a \in Nat /\ b \in Nat
    BY <1>1, Places
  <1>3. \A i \in Ins \union Upd : i \in S /\ admin[c].cols[i] # {}
    OBVIOUS
  <1>4. \A i \in S : admin[c].cols[i] # {} => i \in Ins \/ i \in Upd
    OBVIOUS
  <1>5. WriteOrder(c) = u \o v
    BY DEF WriteOrder
  <1> HIDE DEF Ins, Upd
  <1>6. u \in [1 .. a -> Ins] /\ \A i \in Ins : \E k \in 1 .. a : u[k] = i
    BY <1>1, SortedIs
  <1>7. v \in [1 .. b -> Upd] /\ \A i \in Upd : \E k \in 1 .. b : v[k] = i
    BY <1>1, SortedIs
  <1> HIDE DEF u, v, a, b
  <1>8. u \in Seq(Ins \union Upd) /\ v \in Seq(Ins \union Upd) /\ Len(u) = a /\ Len(v) = b
    BY <1>2, <1>6, <1>7
  <1>9. /\ u \o v \in [1 .. a + b -> Ins \union Upd]
        /\ \A k \in 1 .. a : (u \o v)[k] = u[k]
        /\ \A k \in 1 .. b : (u \o v)[a + k] = v[k]
    <2>1. /\ Len(u \o v) = a + b
          /\ \A k \in 1 .. a + b : (u \o v)[k] = IF k <= a THEN u[k] ELSE v[k - a]
      BY <1>8, ConcatProperties
    <2>2. \A k \in 1 .. a : k \in 1 .. a + b /\ k <= a
      BY <1>2
    <2>3. \A k \in 1 .. b : a + k \in 1 .. a + b /\ ~(a + k <= a) /\ a + k - a = k
      BY <1>2
    <2>4. u \o v \in Seq(Ins \union Upd)
      BY <1>8, ConcatProperties
    <2>5. u \o v \in [1 .. a + b -> Ins \union Upd]
      BY <2>1, <2>4, LenProperties
    <2>6. \A k \in 1 .. a : (u \o v)[k] = u[k]
      BY <2>1, <2>2
    <2>7. \A k \in 1 .. b : (u \o v)[a + k] = v[k]
      <3>1. TAKE k \in 1 .. b
      <3>2. PICK m \in 1 .. a + b : m = a + k /\ ~(m <= a) /\ m - a = k
        BY <1>2, <3>1
      <3>3. (u \o v)[m] = v[m - a]
        BY <2>1, <3>2
      <3>4. QED
        BY <3>2, <3>3
    <2>8. QED
      BY <2>5, <2>6, <2>7
  <1>10. WriteOrder(c) \in [1 .. a + b -> S] /\ \A k \in 1 .. a + b : admin[c].cols[WriteOrder(c)[k]] # {}
    BY <1>3, <1>5, <1>9
  <1>11. \A i \in S : admin[c].cols[i] # {} => \E k \in 1 .. a + b : WriteOrder(c)[k] = i
    <2>1. SUFFICES ASSUME NEW i \in S, admin[c].cols[i] # {} PROVE \E k \in 1 .. a + b : (u \o v)[k] = i
      BY <1>5
    <2>2. CASE i \in Ins
      <3>1. PICK k \in 1 .. a : u[k] = i
        BY <1>6, <2>2
      <3>2. k \in 1 .. a + b
        BY <1>2
      <3>3. QED
        BY <1>9, <3>1, <3>2
    <2>3. CASE i \in Upd
      <3>1. PICK k \in 1 .. b : v[k] = i
        BY <1>7, <2>3
      <3>2. a + k \in 1 .. a + b
        BY <1>2
      <3>3. QED
        BY <1>9, <3>1, <3>2
    <2>4. QED
      BY <1>4, <2>1, <2>2, <2>3
  <1>12. a + b \in Nat
    BY <1>2
  <1>13. QED
    BY <1>10, <1>11, <1>12

\* Up to n by single steps.
LEMMA Climb ==
  ASSUME NEW n \in Nat, NEW G, 0 \in G, \A k \in Nat : k \in G /\ k + 1 \in 1 .. n => k + 1 \in G
  PROVE  n \in G
  <1> DEFINE Bad == {k \in Nat : k <= n /\ k \notin G}
  <1>1. SUFFICES ASSUME n \notin G PROVE FALSE
    OBVIOUS
  <1>2. Bad \in SUBSET Nat /\ n \in Bad
    BY <1>1
  <1> HIDE DEF Bad
  <1>3. PICK k \in Bad : \A m \in Bad : k <= m
    BY <1>2, LeastOf
  <1> USE DEF Bad
  <1>4. k \in Nat /\ k # 0 /\ k - 1 \in Nat /\ k <= n
    BY <1>3
  <1>5. k - 1 \in G
    BY <1>3, <1>4
  <1>6. k - 1 + 1 \in 1 .. n /\ k - 1 + 1 = k
    BY <1>4
  <1>7. QED
    BY <1>3, <1>4, <1>5, <1>6

\* The save of a call as a sequence h of tables, one of n rows further each.
Steps(c, n, h) ==
  /\ n \in Nat
  /\ WriteOrder(c) \in [1 .. n -> admin[c].saving]
  /\ \A k \in 1 .. n : admin[c].cols[WriteOrder(c)[k]] # {}
  /\ \A i \in admin[c].saving : admin[c].cols[i] # {} => \E k \in 1 .. n : WriteOrder(c)[k] = i
  /\ h[0] = Start(c) /\ h[n] = Saved(c)
  /\ \A k \in Nat : k + 1 \in 1 .. n => h[k + 1] = Put(c, h[k], WriteOrder(c)[k + 1])

LEMMA SavedRun == ASSUME NEW c, Saves(c) PROVE \E n, h : Steps(c, n, h)
  <1> DEFINE w == WriteOrder(c)
             g == AllFolds(c, w)
             h == [k \in Nat |-> g[1 .. k]]
  <1>1. PICK n \in Nat : /\ w \in [1 .. n -> admin[c].saving]
                         /\ \A k \in 1 .. n : admin[c].cols[w[k]] # {}
                         /\ \A i \in admin[c].saving : admin[c].cols[i] # {} => \E k \in 1 .. n : w[k] = i
    BY OrderIs
  <1>2. \A s \in SUBSET (1 .. n) : g[s] = Fold(c, w, g, s)
    <2>1. DOMAIN w = 1 .. n
      BY <1>1
    <2> HIDE DEF w
    <2>2. QED
      BY <2>1, FoldIs
  <1>3. h[n] = Saved(c)
    BY <1>1, SavedIs
  <1> HIDE DEF w, g
  <1>4. h[0] = Start(c)
    <2>1. 1 .. 0 = {} /\ {} \in SUBSET (1 .. n)
      OBVIOUS
    <2>2. g[{}] = Start(c)
      BY <1>2, <2>1 DEF Fold
    <2>3. QED
      BY <2>1, <2>2
  <1>5. ASSUME NEW k \in Nat, k + 1 \in 1 .. n PROVE h[k + 1] = Put(c, h[k], w[k + 1])
    <2> DEFINE s == 1 .. k + 1
    <2>1. s \in SUBSET (1 .. n) /\ s # {} /\ k + 1 \in Nat
      <3>1. k + 1 \in s /\ k + 1 \in Nat /\ k + 1 <= n
        BY <1>5
      <3>2. \A x \in s : x \in 1 .. n
        BY <3>1
      <3>3. QED
        BY <3>1, <3>2
    <2>2. Max(s) = k + 1
      <3>1. PICK m \in Nat : m = k + 1
        BY <2>1
      <3>2. Max(1 .. m) \in 1 .. m /\ \A x \in 1 .. m : x <= Max(1 .. m)
        BY <2>1, <3>1, MaxOf
      <3>3. PICK y \in 1 .. m : y = Max(1 .. m)
        BY <3>2
      <3>4. y = m
        BY <2>1, <3>1, <3>2, <3>3
      <3>5. QED
        BY <3>1, <3>3, <3>4
    <2>3. s \ {k + 1} = 1 .. k
      BY <1>5
    <2>4. g[s] = Put(c, g[1 .. k], w[k + 1])
      BY <1>2, <2>1, <2>2, <2>3 DEF Fold
    <2>5. QED
      BY <2>1, <2>4
  <1> HIDE DEF h
  <1>6. Steps(c, n, h)
    BY <1>1, <1>3, <1>4, <1>5 DEF Steps, w
  <1>7. QED
    BY <1>6

\* The save of a call that knows the table leaves what it has in memory.
LEMMA SavedTable ==
  ASSUME NEW c, Selected(c), Saves(c), Sees(c) \in Table
  PROVE  Saved(c).t = AfterSave(c)
  <1> DEFINE w == WriteOrder(c)
  <1>0. PICK n, h : Steps(c, n, h)
    BY SavedRun
  <1>1. /\ n \in Nat
        /\ w \in [1 .. n -> admin[c].saving]
        /\ \A k \in 1 .. n : admin[c].cols[w[k]] # {}
        /\ \A i \in admin[c].saving : admin[c].cols[i] # {} => \E k \in 1 .. n : w[k] = i
        /\ h[0] = Start(c) /\ h[n] = Saved(c)
        /\ \A k \in Nat : k + 1 \in 1 .. n => h[k + 1] = Put(c, h[k], w[k + 1])
    BY <1>0 DEF Steps
  <1> HIDE DEF w
  <1> DEFINE Done(k, i) == \E j \in 1 .. k : w[j] = i
             Good(k) == /\ h[k].t \in Table
                        /\ \A i \in Ids : h[k].t[i] = IF Done(k, i) THEN admin[c].mem[i] ELSE Sees(c)[i]
             G == {k \in Nat : Good(k)}
  <1>2. Good(0)
    BY <1>1 DEF Start
  <1>3. ASSUME NEW k \in Nat, k + 1 \in 1 .. n, Good(k) PROVE Good(k + 1)
    <2> DEFINE i == w[k + 1]
               r == h[k]
    <2>1. h[k + 1] = Put(c, r, i)
      BY <1>1, <1>3
    <2>2. i \in admin[c].saving /\ admin[c].cols[i] # {} /\ i \in Ids
      BY <1>1, <1>3 DEF Saves
    <2>3. r.t \in Table /\ r.t[i] \in {Sees(c)[i], admin[c].mem[i]}
      BY <1>3, <2>2
    <2>4. /\ Put(c, r, i).t \in Table
          /\ \A j \in Ids : Put(c, r, i).t[j] = IF j = i THEN admin[c].mem[i] ELSE r.t[j]
      <3> HIDE DEF i, r
      <3>1. QED
        BY <2>2, <2>3, PutMakes
    <2>5. \A j \in Ids : Done(k + 1, j) <=> Done(k, j) \/ j = i
      BY <1>3
    <2> HIDE DEF Done
    <2>6. \A j \in Ids : Put(c, r, i).t[j] = IF Done(k + 1, j) THEN admin[c].mem[j] ELSE Sees(c)[j]
      <3> HIDE DEF i
      <3>1. QED
        BY <1>3, <2>4, <2>5
    <2>7. QED
      BY <2>1, <2>4, <2>6
  <1> HIDE DEF Good
  <1>4. Good(n)
    <2>1. n \in Nat /\ 0 \in G /\ \A k \in Nat : k \in G /\ k + 1 \in 1 .. n => k + 1 \in G
      BY <1>1, <1>2, <1>3
    <2> HIDE DEF G
    <2>2. n \in G
      BY <2>1, Climb
    <2>3. QED
      BY <2>2 DEF G
  <1>5. \A i \in Ids : Saved(c).t[i] = AfterSave(c)[i]
    <2>1. SUFFICES ASSUME NEW i \in Ids PROVE Saved(c).t[i] = AfterSave(c)[i]
      OBVIOUS
    <2>2. Saved(c).t[i] = IF Done(n, i) THEN admin[c].mem[i] ELSE Sees(c)[i]
      BY <1>1, <1>4 DEF Good
    <2>3. Done(n, i) => i \in admin[c].saving
      BY <1>1
    <2>4. i \in admin[c].saving /\ ~Done(n, i) => admin[c].cols[i] = {}
      BY <1>1
    <2>5. i \in admin[c].saving /\ admin[c].cols[i] = {} => admin[c].mem[i] = Sees(c)[i]
      <3>1. SUFFICES ASSUME i \in admin[c].saving, admin[c].cols[i] = {} PROVE admin[c].mem[i] = Sees(c)[i]
        OBVIOUS
      <3>2. Sees(c)[i] # Gone
        BY <3>1 DEF Selected
      <3>3. Sees(c)[i] \in Row /\ admin[c].mem[i] \in Row
        BY <3>1, <3>2, Kinds DEF Saves, Table
      <3>4. admin[c].mem[i]["order"] = Sees(c)[i]["order"] /\ admin[c].mem[i]["active"] = Sees(c)[i]["active"]
        <4>1. {f \in {"order", "active"} : admin[c].mem[i][f] # Sees(c)[i][f]} = {}
          BY <3>1, <3>2 DEF Selected
        <4>2. QED
          BY <4>1
      <3>5. QED
        BY <3>3, <3>4, Kinds
    <2>6. QED
      BY <2>2, <2>3, <2>4, <2>5 DEF AfterSave
  <1>6. Saved(c).t \in Table
    BY <1>1, <1>4 DEF Good
  <1>7. QED
    BY <1>5, <1>6 DEF AfterSave, Table

-----------------------------------------------------------------------------
(* Numbered 1 .. n *)

\* The configuration as an administrator expects it.
Numbered(t) ==
  /\ t \in Table
  /\ Present(t) # {}
  /\ Apart(t, Present(t))
  /\ Contiguous(t)

\* Rows with different numbers are renumbered by their places.
LEMMA RenumberedIs ==
  ASSUME NEW t \in Table, NEW S \in SUBSET Present(t), Apart(t, S)
  PROVE  /\ Renumbered(t, S) \in Table
         /\ \A j \in S : Renumbered(t, S)[j] \in Row /\ Renumbered(t, S)[j].order = Place(t, S, j)
         /\ Apart(Renumbered(t, S), S)
  <1> DEFINE r == Renumbered(t, S)
  <1>1. \A j \in S : j \in Ids /\ t[j] \in Row
    BY Kinds DEF Present, Table
  <1>2. /\ Cardinality(S) \in Nat
        /\ \A j \in S : Place(t, S, j) \in 1 .. Cardinality(S)
        /\ \A j, k \in S : Place(t, S, j) = Place(t, S, k) => j = k
    BY Places
  <1>3. \A j \in S : r[j] = [order |-> Place(t, S, j), active |-> t[j].active] /\ r[j].order = Place(t, S, j)
    <2>1. TAKE j \in S
    <2>2. t[j] \in Row /\ j \in Ids
      BY <1>1
    <2>3. r[j] = [t[j] EXCEPT !.order = Place(t, S, j)]
      BY <2>2 DEF Renumbered
    <2>4. QED
      BY <2>2, <2>3 DEF Row
  <1>4. \A j \in S : r[j] \in Row
    <2>1. TAKE j \in S
    <2>2. PICK k \in Nat \ {0} : k = Place(t, S, j)
      BY <1>2
    <2>3. t[j].active \in BOOLEAN
      BY <1>1 DEF Row
    <2>4. r[j] = [order |-> k, active |-> t[j].active]
      BY <1>3, <2>2
    <2> HIDE DEF r
    <2>5. QED
      BY <2>3, <2>4 DEF Row
  <1>5. r \in Table
    <2>1. \A j \in Ids : j \notin S => r[j] = t[j] /\ t[j] \in Row \union {Gone}
      BY DEF Renumbered, Table
    <2>2. r = [j \in Ids |-> r[j]]
      BY DEF Renumbered
    <2> HIDE DEF r
    <2>3. QED
      BY <1>4, <2>1, <2>2 DEF Table
  <1> HIDE DEF r
  <1>6. Apart(r, S)
    <2>1. \A j \in S : r[j].order = Place(t, S, j)
      BY <1>3
    <2>2. \A j \in S : Place(t, S, j) \in Nat
      BY <1>2
    <2>3. \A j \in S : r[j].order \in Nat
      BY <2>1, <2>2
    <2>4. \A j, k \in S : r[j].order = r[k].order => j = k
      BY <1>2, <2>1
    <2>5. QED
      BY <2>3, <2>4 DEF Apart
  <1>7. QED
    BY <1>3, <1>4, <1>5, <1>6 DEF r

\* Without one of its rows and renumbered, the table is numbered again.
LEMMA Renumbering ==
  ASSUME NEW t, Numbered(t), NEW i \in Present(t), Cardinality(Present(t)) # 1, NEW S, S = Remaining(t, t[i].order)
  PROVE  /\ S = Present(t) \ {i}
         /\ Renumbered(t, S) \in Table
         /\ \A j \in S : Renumbered(t, S)[j] \in Row
         /\ Apart(Renumbered(t, S), S)
         /\ Numbered([j \in Ids |-> IF j \in S THEN Renumbered(t, S)[j] ELSE Gone])
  <1> DEFINE r == Renumbered(t, S)
             u == [j \in Ids |-> IF j \in S THEN r[j] ELSE Gone]
  <1>1. S = Present(t) \ {i}
    BY DEF Remaining, Numbered, Apart
  <1>2. IsFiniteSet(Present(t)) /\ \A j \in Present(t) : j \in Ids /\ t[j] \in Row
    BY Kinds DEF Numbered, Apart, Present, Table
  <1>3. IsFiniteSet(S) /\ S # {}
    <2>1. IsFiniteSet(S)
      BY <1>1, <1>2, FS_RemoveElement
    <2>2. S = {} => Present(t) = {i}
      BY <1>1
    <2>3. QED
      BY <2>1, <2>2, FS_Singleton
  <1>4. Apart(t, S)
    BY <1>1, <1>3 DEF Numbered, Apart
  <1>5. /\ Cardinality(S) \in Nat
        /\ \A j \in S : Place(t, S, j) \in 1 .. Cardinality(S)
        /\ \A n \in 1 .. Cardinality(S) : \E j \in S : Place(t, S, j) = n
    BY <1>4, Places
  <1>6. r \in Table /\ (\A j \in S : r[j] \in Row /\ r[j].order = Place(t, S, j)) /\ Apart(r, S)
    <2>1. t \in Table /\ S \in SUBSET Present(t)
      BY <1>1 DEF Numbered
    <2>2. QED
      BY <1>4, <2>1, RenumberedIs
  <1> HIDE DEF r
  <1>7. u \in Table /\ \A j \in Ids : u[j] = IF j \in S THEN r[j] ELSE Gone
    BY <1>6 DEF Table
  <1> HIDE DEF u
  <1>8. Present(u) = S
    BY <1>1, <1>2, <1>6, <1>7, Kinds DEF Present
  <1>9. Apart(u, S)
    BY <1>1, <1>2, <1>6, <1>7 DEF Apart
  <1>10. \A j \in S : u[j].order = Place(t, S, j)
    BY <1>1, <1>2, <1>6, <1>7
  <1>11. OrdersOf(u) = 1 .. Cardinality(S)
    BY <1>5, <1>8, <1>10 DEF OrdersOf
  <1>12. Numbered(u)
    BY <1>3, <1>7, <1>8, <1>9, <1>11 DEF Numbered, Contiguous
  <1>13. QED
    BY <1>1, <1>6, <1>12 DEF r, u

\* What follows the last row has the next number.
LEMMA Appended ==
  ASSUME NEW t, Numbered(t), NEW i \in Ids \ Present(t), NEW on \in BOOLEAN, NEW row,
         row = [order |-> 1 + Max(OrdersOf(t) \union {0}), active |-> on]
  PROVE  row \in Row /\ Numbered([t EXCEPT ![i] = row])
  <1> DEFINE P == Present(t)
             n == Cardinality(P)
             u == [t EXCEPT ![i] = row]
  <1>1. IsFiniteSet(P) /\ n \in Nat
    BY FS_CardinalityType DEF Numbered, Apart
  <1>2. Max(OrdersOf(t) \union {0}) = n
    <2>1. OrdersOf(t) \union {0} = 0 .. n
      BY <1>1 DEF Numbered, Contiguous
    <2>2. \A x \in 0 .. n : (\A y \in 0 .. n : x >= y) <=> x = n
      BY <1>1
    <2>3. n \in 0 .. n
      BY <1>1
    <2>4. (CHOOSE x \in 0 .. n : \A y \in 0 .. n : x >= y) = n
      BY <2>2, <2>3
    <2>5. QED
      BY <2>1, <2>4 DEF Max
  <1>3. row.order = n + 1 /\ row \in Row /\ row # Gone
    <2>1. row.order = n + 1
      BY <1>1, <1>2
    <2>2. row.order \in Nat \ {0}
      BY <1>1, <2>1
    <2>3. row \in Row
      BY <2>2 DEF Row
    <2>4. QED
      BY <2>1, <2>3, Kinds
  <1>4. u \in Table /\ \A j \in Ids : u[j] = IF j = i THEN row ELSE t[j]
    BY <1>3 DEF Numbered, Table
  <1> HIDE DEF u
  <1>5. Present(u) = P \union {i} /\ i \notin P
    BY <1>3, <1>4 DEF Present
  <1>6. IsFiniteSet(P \union {i}) /\ Cardinality(P \union {i}) = n + 1
    BY <1>1, <1>5, FS_AddElement
  <1>7. OrdersOf(t) = 1 .. n /\ \A j \in P : t[j].order \in 1 .. n
    BY DEF Numbered, Contiguous, OrdersOf
  <1>8. \A j \in P \union {i} : u[j].order = IF j = i THEN n + 1 ELSE t[j].order
    BY <1>3, <1>4 DEF Present
  <1>9. Apart(u, P \union {i})
    <2>1. \A j \in P \union {i} : u[j].order \in Nat
      BY <1>1, <1>7, <1>8
    <2>2. \A j, k \in P : t[j].order = t[k].order => j = k
      BY DEF Numbered, Apart
    <2>3. \A j \in P : t[j].order # n + 1
      BY <1>1, <1>7
    <2>4. \A j, k \in P \union {i} : u[j].order = u[k].order => j = k
      BY <1>5, <1>8, <2>2, <2>3
    <2>5. QED
      BY <1>6, <2>1, <2>4 DEF Apart
  <1>10. OrdersOf(u) = 1 .. n + 1
    <2>1. \A x \in OrdersOf(u) : x \in 1 .. n + 1
      BY <1>1, <1>5, <1>7, <1>8 DEF OrdersOf
    <2>2. \A x \in 1 .. n + 1 : x \in OrdersOf(u)
      <3>1. TAKE x \in 1 .. n + 1
      <3>2. CASE x = n + 1
        BY <1>5, <1>8, <3>2 DEF OrdersOf
      <3>3. CASE x # n + 1
        <4>1. x \in 1 .. n
          BY <1>1, <3>3
        <4>2. PICK j \in P : t[j].order = x
          BY <1>7, <4>1 DEF OrdersOf
        <4>3. j # i /\ u[j].order = x
          BY <1>5, <1>8, <4>2
        <4>4. QED
          BY <1>5, <4>2, <4>3 DEF OrdersOf
      <3>4. QED
        BY <3>2, <3>3
    <2>3. QED
      BY <2>1, <2>2
  <1>11. QED
    BY <1>3, <1>4, <1>5, <1>6, <1>9, <1>10 DEF Numbered, Contiguous, u

\* A row that keeps its number may change.
LEMMA Switched ==
  ASSUME NEW t, Numbered(t), NEW i \in Present(t), NEW row \in Row, row.order = t[i].order
  PROVE  Numbered([t EXCEPT ![i] = row])
  <1> DEFINE u == [t EXCEPT ![i] = row]
  <1>1. u \in Table /\ \A j \in Ids : u[j] = IF j = i THEN row ELSE t[j]
    BY DEF Numbered, Table, Present
  <1> HIDE DEF u
  <1>2. Present(u) = Present(t)
    BY <1>1, Kinds DEF Present
  <1>3. \A j \in Present(t) : u[j].order = t[j].order
    BY <1>1 DEF Present
  <1>4. OrdersOf(u) = OrdersOf(t)
    BY <1>2, <1>3 DEF OrdersOf
  <1>5. QED
    BY <1>1, <1>2, <1>3, <1>4 DEF Numbered, Contiguous, Apart, u

-----------------------------------------------------------------------------
(* One call at a time *)

Memory == [pc : Ongoing \union {"idle", "done", "failed"}, target : Nat,
           found : SUBSET Ids, saving : SUBSET Ids, mem : Table,
           cols : [Ids -> SUBSET {"insert", "order", "active"}], mine : Table, locks : SUBSET Ids]

\* c adds no row but its own.
Within(c, t) == Present(t) \subseteq Present(configs) \union {c}

\* What the deletion of a row will leave.
Left(c) == [j \in Ids |-> IF j \in admin[c].saving THEN admin[c].mem[j] ELSE Gone]

\* Where a call stands that no other one disturbs: the table it will commit
\* is numbered from the moment it knows what to write.
Standing(c) ==
  /\ admin[c].pc \in {"readAll", "remove"} =>
       /\ admin[c].locks = {}
       /\ \E i \in Present(configs) :
            /\ admin[c].found = {i}
            /\ admin[c].pc = "readAll" => admin[c].target = configs[i].order
            /\ admin[c].pc = "remove" => admin[c].saving = Present(configs) \ {i}
  /\ admin[c].pc = "remove" => Saves(c) /\ Numbered(Left(c))
  /\ admin[c].pc \in {"select", "write"} =>
       Saves(c) /\ Sees(c) \in Table /\ Numbered(AfterSave(c)) /\ Within(c, AfterSave(c))
  /\ admin[c].pc = "write" => Selected(c)
  /\ admin[c].pc = "commit" => Numbered(Sees(c)) /\ Within(c, Sees(c))

Serial ==
  ~overlap =>
    /\ admin \in [Admins -> Memory]
    /\ Numbered(configs)
    /\ \A c \in Admins : c \in Present(configs) => admin[c].pc = "done"
    /\ \A c, d \in OngoingCalls : c = d
    /\ \A c \in OngoingCalls : Standing(c)

LEMMA IdleType == IdleAdmin \in Memory /\ NoTable \in Table
  BY DEF IdleAdmin, Memory, NoTable, Table

\* A step of the only call that leaves the table alone.
LEMMA Frame ==
  ASSUME Serial, ~overlap, NEW c \in Admins, admin[c].pc # "done", \A d \in OngoingCalls : d = c,
         admin' \in [Admins -> Memory], \A d \in Admins : d # c => admin'[d] = admin[d],
         UNCHANGED configs, admin'[c].pc \in Ongoing => Standing(c)'
  PROVE  Serial'
  <1>1. Numbered(configs)'
    BY DEF Serial, Numbered, Apart, Contiguous, OrdersOf, Present
  <1>2. Present(configs)' = Present(configs) /\ c \notin Present(configs)
    BY DEF Present, Serial
  <1>3. \A d \in Admins : d \in Present(configs)' => admin'[d].pc = "done"
    BY <1>2 DEF Serial
  <1>4. \A d \in OngoingCalls' : d = c /\ admin'[c].pc \in Ongoing
    BY DEF OngoingCalls
  <1>5. \A d \in OngoingCalls' : Standing(d)'
    BY <1>4
  <1>6. \A d, e \in OngoingCalls' : d = e
    BY <1>4
  <1>7. QED
    BY <1>1, <1>3, <1>5, <1>6 DEF Serial

\* A call that fails leaves everything as it was.
LEMMA FailsStep ==
  ASSUME Serial, ~overlap, NEW c \in OngoingCalls, Fails(c) PROVE Serial'
  <1>1. c \in Admins /\ admin[c].pc \in Ongoing /\ \A d \in OngoingCalls : d = c
    BY DEF OngoingCalls, Serial
  <1>2. admin' \in [Admins -> Memory] /\ admin'[c].pc = "failed" /\ \A d \in Admins : d # c => admin'[d] = admin[d]
    <2>1. admin \in [Admins -> Memory]
      BY DEF Serial
    <2>2. [IdleAdmin EXCEPT !.pc = "failed"] \in Memory /\ [IdleAdmin EXCEPT !.pc = "failed"].pc = "failed"
      BY IdleType DEF Memory
    <2>3. QED
      BY <1>1, <2>1, <2>2 DEF Fails, Ends
  <1>3. QED
    BY <1>1, <1>2, Frame DEF Fails, Ongoing

\* A read that begins a call.
LEMMA StartsStep ==
  ASSUME Serial, ~overlap', NEW c \in Admins, NEW op, NEW k \in Memory, Starts(c, op, k),
         k.pc \in Ongoing => Standing(c)'
  PROVE  Serial'
  <1>1. ~overlap /\ Quiet
    BY DEF Starts
  <1>2. admin \in [Admins -> Memory] /\ admin[c].pc = "idle"
    BY <1>1 DEF Serial, Starts
  <1>3. admin' \in [Admins -> Memory] /\ admin'[c] = k /\ \A d \in Admins : d # c => admin'[d] = admin[d]
    BY <1>2 DEF Starts
  <1>4. \A d \in OngoingCalls : d = c
    BY <1>1 DEF Quiet
  <1>5. UNCHANGED configs
    BY DEF Starts
  <1>6. QED
    BY <1>1, <1>2, <1>3, <1>4, <1>5, Frame

\* What c sees when it has written nothing.
LEMMA SeesAll ==
  /\ \A c : admin[c].locks = {} /\ configs \in Table => Sees(c) = configs
  /\ \A c : admin'[c].locks = {} /\ configs' \in Table => Sees(c)' = configs'
  BY DEF Sees, Table

LEMMA AddReadStep == ASSUME Serial, ~overlap', NEW c \in Admins, NEW on \in BOOLEAN, AddRead(c, on) PROVE Serial'
  <1> DEFINE row == [order |-> NextOrder, active |-> on]
             k == [IdleAdmin EXCEPT !.pc = "write", !.saving = {c}, !.cols[c] = {"insert"}, !.mem[c] = row]
             u == [configs EXCEPT ![c] = row]
  <1>1. Starts(c, "add", k)
    BY DEF AddRead
  <1>2. ~overlap /\ admin[c].pc = "idle" /\ UNCHANGED configs /\ c \in Ids
    BY <1>1 DEF Starts, Ids
  <1>3. admin \in [Admins -> Memory] /\ Numbered(configs) /\ c \notin Present(configs) /\ configs \in Table
    BY <1>2 DEF Serial, Numbered
  <1>4. row \in Row /\ Numbered(u)
    BY <1>2, <1>3, Appended DEF NextOrder
  <1>5. k \in Memory
    BY <1>2, <1>4 DEF IdleAdmin, NoTable, Memory, Table, Ongoing
  <1>6. /\ k.pc = "write" /\ k.saving = {c} /\ k.locks = {}
        /\ k.mem[c] = row /\ k.cols[c] = {"insert"}
    BY <1>2 DEF IdleAdmin, NoTable
  <1>7. admin'[c] = k
    <2> HIDE DEF k
    <2>1. QED
      BY <1>1, <1>3 DEF Starts
  <1> HIDE DEF k, row
  <1>8. Sees(c)' = configs /\ configs[c] = Gone
    BY <1>2, <1>3, <1>6, <1>7, SeesAll DEF Present
  <1>9. Saves(c)'
    <2>1. Apart(admin'[c].mem, {c})
      BY <1>4, <1>6, <1>7, Kinds, FS_Singleton DEF Apart
    <2>2. QED
      BY <1>2, <1>4, <1>6, <1>7, <2>1 DEF Saves, Apart
  <1>10. AfterSave(c)' = u
    BY <1>3, <1>6, <1>7, <1>8 DEF AfterSave, Table
  <1>11. Selected(c)'
    BY <1>6, <1>7, <1>8 DEF Selected
  <1>12. Present(u) \subseteq Present(configs) \union {c}
    BY <1>2, <1>3 DEF Present, Table
  <1>13. Standing(c)'
    <2>1. Numbered(AfterSave(c))'
      BY <1>4, <1>10
    <2>2. Within(c, AfterSave(c))'
      BY <1>2, <1>10, <1>12 DEF Within, Present
    <2>3. Sees(c)' \in Table
      BY <1>3, <1>8
    <2>4. QED
      BY <1>6, <1>7, <1>9, <1>11, <2>1, <2>2, <2>3 DEF Standing
  <1>14. QED
    BY <1>1, <1>5, <1>13, StartsStep

LEMMA UpdateReadStep ==
  ASSUME Serial, ~overlap', NEW c \in Admins, NEW i \in Ids, NEW on \in BOOLEAN, UpdateRead(c, i, on) PROVE Serial'
  <1> DEFINE row == [configs[i] EXCEPT !.active = on]
             k == [IdleAdmin EXCEPT !.pc = "select", !.saving = {i}, !.mem[i] = row]
             u == [configs EXCEPT ![i] = row]
  <1>1. Starts(c, "update", k) /\ i \in Present(configs)
    BY DEF UpdateRead
  <1>2. ~overlap /\ admin[c].pc = "idle" /\ UNCHANGED configs
    BY <1>1 DEF Starts
  <1>3. admin \in [Admins -> Memory] /\ Numbered(configs) /\ configs \in Table
    BY <1>2 DEF Serial, Numbered
  <1>4. row \in Row /\ row.order = configs[i].order
    <2>1. configs[i] \in Row
      BY <1>1, <1>3, Kinds DEF Present, Table
    <2>2. QED
      BY <2>1 DEF Row
  <1>5. k \in Memory
    BY <1>4 DEF IdleAdmin, NoTable, Memory, Table, Ongoing
  <1>6. k.pc = "select" /\ k.saving = {i} /\ k.locks = {} /\ k.mem[i] = row
    BY DEF IdleAdmin, NoTable
  <1>7. admin'[c] = k
    <2> HIDE DEF k
    <2>1. QED
      BY <1>1, <1>3 DEF Starts
  <1> HIDE DEF k, row
  <1>8. Numbered(u)
    BY <1>1, <1>3, <1>4, Switched
  <1>9. Sees(c)' = configs
    BY <1>2, <1>3, <1>6, <1>7, SeesAll
  <1>10. Saves(c)'
    <2>1. Apart(admin'[c].mem, {i})
      BY <1>4, <1>6, <1>7, Kinds, FS_Singleton DEF Apart
    <2>2. QED
      BY <1>4, <1>6, <1>7, <2>1 DEF Saves, Apart
  <1>11. AfterSave(c)' = u
    BY <1>3, <1>6, <1>7, <1>9 DEF AfterSave, Table
  <1>12. Present(u) \subseteq Present(configs) \union {c}
    BY <1>1, <1>3 DEF Present, Table
  <1>13. Standing(c)'
    <2>1. Numbered(AfterSave(c))'
      BY <1>8, <1>11
    <2>2. Within(c, AfterSave(c))'
      BY <1>2, <1>11, <1>12 DEF Within, Present
    <2>3. Sees(c)' \in Table
      BY <1>3, <1>9
    <2>4. QED
      BY <1>6, <1>7, <1>10, <2>1, <2>2, <2>3 DEF Standing
  <1>14. QED
    BY <1>1, <1>5, <1>13, StartsStep

LEMMA DeleteReadStep == ASSUME Serial, ~overlap', NEW c \in Admins, NEW i \in Ids, DeleteRead(c, i) PROVE Serial'
  <1> DEFINE k == [IdleAdmin EXCEPT !.pc = "readAll", !.found = {i}, !.target = configs[i].order]
  <1>1. Starts(c, "delete", k) /\ i \in Present(configs)
    BY DEF DeleteRead
  <1>2. ~overlap /\ UNCHANGED configs
    BY <1>1 DEF Starts
  <1>3. admin \in [Admins -> Memory] /\ configs \in Table
    BY <1>2 DEF Serial, Numbered
  <1>4. configs[i].order \in Nat
    BY <1>1, <1>3, Kinds DEF Present, Table
  <1>5. k \in Memory
    BY <1>4, IdleType DEF IdleAdmin, Memory, Ongoing
  <1>6. k.pc = "readAll" /\ k.found = {i} /\ k.target = configs[i].order /\ k.locks = {}
    BY DEF IdleAdmin
  <1>7. admin'[c] = k
    <2> HIDE DEF k
    <2>1. QED
      BY <1>1, <1>3 DEF Starts
  <1> HIDE DEF k
  <1>8. Standing(c)'
    <2>1. i \in Present(configs)' /\ configs'[i].order = configs[i].order
      BY <1>1, <1>2 DEF Present
    <2>2. QED
      BY <1>6, <1>7, <2>1 DEF Standing
  <1>9. QED
    BY <1>1, <1>5, <1>8, StartsStep

\* What is left and what the call remembers of it follow the numbers 1 .. n.
LEMMA DeleteReadAllStep == ASSUME Serial, ~overlap, NEW c \in Admins, DeleteReadAll(c) PROVE Serial'
  <1>1. c \in OngoingCalls /\ \A d \in OngoingCalls : d = c
    BY DEF Serial, DeleteReadAll, OngoingCalls, Ongoing
  <1>2. admin \in [Admins -> Memory] /\ Numbered(configs) /\ Standing(c)
    BY <1>1 DEF Serial
  <1>3. PICK i \in Present(configs) : admin[c].found = {i} /\ admin[c].target = configs[i].order /\ admin[c].locks = {}
    BY <1>2 DEF Standing, DeleteReadAll
  <1>4. CASE Cardinality(Present(configs)) = 1
    BY <1>1, <1>4, FailsStep DEF DeleteReadAll
  <1>5. CASE Cardinality(Present(configs)) # 1
    <2> DEFINE S == Remaining(configs, configs[i].order)
               r == Renumbered(configs, S)
    <2>1. /\ admin' = [admin EXCEPT ![c].pc = "remove", ![c].saving = S, ![c].mem = r]
          /\ UNCHANGED configs /\ admin[c].pc = "readAll"
      BY <1>3, <1>5 DEF DeleteReadAll
    <2>2. /\ S = Present(configs) \ {i}
          /\ r \in Table
          /\ \A j \in S : r[j] \in Row
          /\ Apart(r, S)
          /\ Numbered([j \in Ids |-> IF j \in S THEN r[j] ELSE Gone])
      BY <1>2, <1>5, Renumbering
    <2> HIDE DEF S, r
    <2>3. S \subseteq Ids
      BY <2>2 DEF Present
    <2>4. /\ admin' \in [Admins -> Memory] /\ \A d \in Admins : d # c => admin'[d] = admin[d]
          /\ admin'[c].pc = "remove" /\ admin'[c].saving = S /\ admin'[c].mem = r
          /\ admin'[c].found = {i} /\ admin'[c].locks = {}
      <3> DEFINE m == [admin[c] EXCEPT !.pc = "remove", !.saving = S, !.mem = r]
      <3>1. admin[c] \in Memory /\ admin' = [admin EXCEPT ![c] = m]
        BY <1>2, <2>1
      <3>2. /\ m \in Memory /\ m.pc = "remove" /\ m.saving = S /\ m.mem = r
            /\ m.found = admin[c].found /\ m.locks = admin[c].locks
        BY <2>2, <2>3, <3>1 DEF Memory, Ongoing
      <3> HIDE DEF m
      <3>3. QED
        BY <1>2, <1>3, <3>1, <3>2
    <2>5. Saves(c)'
      BY <2>2, <2>3, <2>4 DEF Saves, Apart
    <2>6. PICK u : u = [j \in Ids |-> IF j \in S THEN r[j] ELSE Gone]
      OBVIOUS
    <2>7. Standing(c)'
      <3>1. Numbered(Left(c))'
        <4>1. Numbered(u)
          BY <2>2, <2>6
        <4>2. Left(c)' = u
          BY <2>4, <2>6 DEF Left
        <4>3. QED
          BY <4>1, <4>2
      <3>2. Present(configs)' = Present(configs)
        BY <2>1 DEF Present
      <3>3. QED
        BY <2>2, <2>4, <2>5, <3>1, <3>2 DEF Standing
    <2>8. QED
      BY <1>1, <2>1, <2>4, <2>7, Frame
  <1>6. QED
    BY <1>4, <1>5

\* On a provisioned tenant a statement of c turns what c sees into t.
LEMMA ApplyStep ==
  ASSUME Transactional, admin \in [Admins -> Memory], configs \in Table,
         NEW c \in Admins, NEW t \in Table, NEW pc \in Ongoing, Apply(c, t, pc)
  PROVE  /\ UNCHANGED configs
         /\ admin' \in [Admins -> Memory] /\ \A d \in Admins : d # c => admin'[d] = admin[d]
         /\ admin'[c].pc = pc /\ admin'[c].saving = admin[c].saving /\ admin'[c].mem = admin[c].mem
         /\ admin'[c].mine = t /\ admin'[c].locks = admin[c].locks \union {i \in Ids : t[i] # Sees(c)[i]}
         /\ Sees(c)' = t
  <1> DEFINE L == admin[c].locks \union {i \in Ids : t[i] # Sees(c)[i]}
  <1>1. admin' = [admin EXCEPT ![c].pc = pc, ![c].mine = t, ![c].locks = L] /\ UNCHANGED configs
    BY DEF Apply
  <1>2. admin \in [Admins -> Memory] /\ L \subseteq Ids /\ configs \in Table
    BY DEF Memory
  <1>3. \A i \in Ids : i \notin L => t[i] = configs[i]
    BY DEF Sees
  <1> HIDE DEF L
  <1>4. /\ admin' \in [Admins -> Memory] /\ \A d \in Admins : d # c => admin'[d] = admin[d]
        /\ admin'[c].pc = pc /\ admin'[c].saving = admin[c].saving /\ admin'[c].mem = admin[c].mem
        /\ admin'[c].mine = t /\ admin'[c].locks = L
    <2> DEFINE m == [admin[c] EXCEPT !.pc = pc, !.mine = t, !.locks = L]
    <2>1. admin[c] \in Memory /\ admin' = [admin EXCEPT ![c] = m]
      BY <1>1, <1>2
    <2>2. /\ m \in Memory /\ m.pc = pc /\ m.mine = t /\ m.locks = L
          /\ m.saving = admin[c].saving /\ m.mem = admin[c].mem
      BY <1>2, <2>1 DEF Memory
    <2> HIDE DEF m
    <2>3. QED
      BY <1>2, <2>1, <2>2
  <1>5. \A i \in Ids : Sees(c)'[i] = t[i]
    BY <1>1, <1>3, <1>4 DEF Sees
  <1>6. Sees(c)' = t
    BY <1>5 DEF Sees, Table
  <1>7. QED
    BY <1>1, <1>4, <1>6 DEF L

LEMMA RemoveRowStep == ASSUME Transactional, Serial, ~overlap, NEW c \in Admins, RemoveRow(c) PROVE Serial'
  <1> DEFINE t == [i \in Ids |-> IF i \in admin[c].found THEN Gone ELSE Sees(c)[i]]
  <1>1. c \in OngoingCalls /\ \A d \in OngoingCalls : d = c
    BY DEF Serial, RemoveRow, OngoingCalls, Ongoing
  <1>2. admin \in [Admins -> Memory] /\ configs \in Table /\ Standing(c)
    BY <1>1 DEF Serial, Numbered
  <1>3. PICK i \in Present(configs) : admin[c].found = {i} /\ admin[c].saving = Present(configs) \ {i}
    BY <1>2 DEF Standing, RemoveRow
  <1>4. admin[c].locks = {} /\ Saves(c) /\ Numbered(Left(c)) /\ admin[c].pc = "remove"
    BY <1>2 DEF Standing, RemoveRow
  <1>5. Sees(c) = configs
    BY <1>2, <1>4, SeesAll
  <1>6. t \in Table /\ \A j \in Ids : t[j] = IF j = i THEN Gone ELSE configs[j]
    BY <1>2, <1>3, <1>5 DEF Table
  <1>7. Apply(c, t, "select")
    BY DEF RemoveRow
  <1> HIDE DEF t
  <1>8. /\ UNCHANGED configs
        /\ admin' \in [Admins -> Memory] /\ \A d \in Admins : d # c => admin'[d] = admin[d]
        /\ admin'[c].pc = "select" /\ admin'[c].saving = admin[c].saving /\ admin'[c].mem = admin[c].mem
        /\ Sees(c)' = t
    BY <1>2, <1>6, <1>7, ApplyStep DEF Ongoing
  <1>9. AfterSave(c)' = Left(c)
    <2>1. \A j \in Ids : j \notin admin[c].saving => t[j] = Gone
      BY <1>3, <1>6 DEF Present
    <2>2. QED
      BY <1>8, <2>1 DEF AfterSave, Left
  <1>10. Standing(c)'
    <2>1. Saves(c)'
      BY <1>4, <1>8 DEF Saves, Apart
    <2>2. Numbered(AfterSave(c))'
      <3>1. PICK u : u = Left(c)
        OBVIOUS
      <3>2. Numbered(u) /\ AfterSave(c)' = u
        BY <1>4, <1>9, <3>1
      <3>3. QED
        BY <3>2
    <2>3. Within(c, AfterSave(c))'
      <3>1. Present(Left(c)) \subseteq Present(configs)
        BY <1>3 DEF Left, Present
      <3>2. QED
        BY <1>8, <1>9, <3>1 DEF Within, Present
    <2>4. QED
      BY <1>6, <1>8, <2>1, <2>2, <2>3 DEF Standing
  <1>11. QED
    BY <1>1, <1>4, <1>8, <1>10, Frame

LEMMA SelectStep == ASSUME Serial, ~overlap, NEW c \in Admins, Select(c) PROVE Serial'
  <1> DEFINE cols == [i \in Ids |->
                       IF i \notin admin[c].saving THEN {}
                       ELSE IF Sees(c)[i] = Gone THEN {"insert"}
                       ELSE {f \in {"order", "active"} : admin[c].mem[i][f] # Sees(c)[i][f]}]
             m == [admin[c] EXCEPT !.pc = "write", !.cols = cols]
  <1>1. c \in OngoingCalls /\ (\A d \in OngoingCalls : d = c) /\ admin[c].pc = "select"
    BY DEF Serial, Select, OngoingCalls, Ongoing
  <1>2. admin \in [Admins -> Memory] /\ Standing(c)
    BY <1>1 DEF Serial
  <1>3. Saves(c) /\ Sees(c) \in Table /\ Numbered(AfterSave(c)) /\ Within(c, AfterSave(c))
    BY <1>1, <1>2 DEF Standing
  <1>4. UNCHANGED configs /\ admin' = [admin EXCEPT ![c] = m]
    BY <1>2 DEF Select
  <1>5. /\ cols \in [Ids -> SUBSET {"insert", "order", "active"}]
        /\ \A i \in admin[c].saving :
             cols[i] = IF Sees(c)[i] = Gone THEN {"insert"}
                       ELSE {f \in {"order", "active"} : admin[c].mem[i][f] # Sees(c)[i][f]}
    BY <1>3 DEF Saves
  <1> HIDE DEF cols
  <1>6. /\ m \in Memory /\ m.pc = "write" /\ m.cols = cols
        /\ m.saving = admin[c].saving /\ m.mem = admin[c].mem /\ m.mine = admin[c].mine /\ m.locks = admin[c].locks
    <2>1. admin[c] \in Memory
      BY <1>2
    <2>2. QED
      BY <1>5, <2>1 DEF Memory, Ongoing
  <1> HIDE DEF m
  <1>7. /\ admin' \in [Admins -> Memory] /\ admin'[c] = m
        /\ \A d \in Admins : d # c => admin'[d] = admin[d]
    BY <1>2, <1>4, <1>6
  <1>8. Sees(c)' = Sees(c)
    BY <1>4, <1>6, <1>7 DEF Sees
  <1>9. AfterSave(c)' = AfterSave(c)
    BY <1>6, <1>7, <1>8 DEF AfterSave
  <1>10. Selected(c)'
    BY <1>5, <1>6, <1>7, <1>8 DEF Selected
  <1>11. Standing(c)'
    <2>1. Saves(c)'
      BY <1>3, <1>6, <1>7 DEF Saves, Apart
    <2>2. PICK u : u = AfterSave(c)
      OBVIOUS
    <2>3. Numbered(AfterSave(c))'
      <3>1. Numbered(u) /\ AfterSave(c)' = u
        BY <1>3, <1>9, <2>2
      <3>2. QED
        BY <3>1
    <2>4. Within(c, AfterSave(c))'
      BY <1>3, <1>4, <1>9 DEF Within, Present
    <2>5. QED
      BY <1>3, <1>6, <1>7, <1>8, <1>10, <2>1, <2>3, <2>4 DEF Standing
  <1>12. QED
    BY <1>1, <1>4, <1>6, <1>7, <1>11, Frame

LEMMA WriteStep == ASSUME Transactional, Serial, ~overlap, NEW c \in Admins, Write(c) PROVE Serial'
  <1>1. c \in OngoingCalls /\ (\A d \in OngoingCalls : d = c) /\ admin[c].pc = "write"
    BY DEF Serial, Write, OngoingCalls, Ongoing
  <1>2. admin \in [Admins -> Memory] /\ Standing(c)
    BY <1>1 DEF Serial
  <1>3. Saves(c) /\ Sees(c) \in Table /\ Numbered(AfterSave(c)) /\ Within(c, AfterSave(c)) /\ Selected(c)
    BY <1>1, <1>2 DEF Standing
  <1>4. Saved(c).t = AfterSave(c)
    BY <1>3, SavedTable
  <1>5. Fails(c) \/ Apply(c, Saved(c).t, "commit")
    BY DEF Write, Saved, Start
  <1>6. CASE Fails(c)
    BY <1>1, <1>6, FailsStep
  <1>7. CASE Apply(c, Saved(c).t, "commit")
    <2>1. PICK u : u = AfterSave(c)
      OBVIOUS
    <2>2. Numbered(u) /\ u \in Table /\ Apply(c, u, "commit")
      BY <1>3, <1>4, <1>7, <2>1 DEF Numbered
    <2>3. /\ UNCHANGED configs
          /\ admin' \in [Admins -> Memory] /\ \A d \in Admins : d # c => admin'[d] = admin[d]
          /\ admin'[c].pc = "commit" /\ Sees(c)' = u
      BY <1>2, <2>2, ApplyStep DEF Serial, Numbered, Ongoing
    <2>4. Numbered(Sees(c))'
      BY <2>2, <2>3
    <2>5. Within(c, Sees(c))'
      BY <1>3, <2>1, <2>3 DEF Within, Present
    <2>6. Standing(c)'
      BY <2>3, <2>4, <2>5 DEF Standing
    <2>7. QED
      BY <1>1, <2>3, <2>6, Frame
  <1>8. QED
    BY <1>5, <1>6, <1>7

LEMMA CommitStep == ASSUME Serial, ~overlap, NEW c \in Admins, CommitAll(c) PROVE Serial'
  <1>1. c \in OngoingCalls /\ (\A d \in OngoingCalls : d = c) /\ admin[c].pc = "commit"
    BY DEF Serial, CommitAll, OngoingCalls, Ongoing
  <1>2. admin \in [Admins -> Memory] /\ Standing(c)
    BY <1>1 DEF Serial
  <1>3. PICK u : u = Sees(c)
    OBVIOUS
  <1>4. Numbered(u) /\ Present(u) \subseteq Present(configs) \union {c} /\ configs' = u
    BY <1>1, <1>2, <1>3 DEF Standing, Within, CommitAll
  <1>5. admin' \in [Admins -> Memory] /\ admin'[c].pc = "done" /\ \A d \in Admins : d # c => admin'[d] = admin[d]
    <2>1. [IdleAdmin EXCEPT !.pc = "done"] \in Memory /\ [IdleAdmin EXCEPT !.pc = "done"].pc = "done"
      BY IdleType DEF Memory
    <2>2. QED
      BY <1>2, <2>1 DEF CommitAll, Ends
  <1>6. Numbered(configs)'
    BY <1>4
  <1>7. \A d \in Admins : d \in Present(configs)' => admin'[d].pc = "done"
    <2>1. TAKE d \in Admins
    <2>2. Present(configs)' = Present(u)
      BY <1>4 DEF Present
    <2>3. QED
      BY <1>4, <1>5, <2>2 DEF Serial
  <1>8. OngoingCalls' = {}
    BY <1>1, <1>5 DEF OngoingCalls, Ongoing
  <1>9. QED
    BY <1>5, <1>6, <1>7, <1>8 DEF Serial

\* The seeded steps are numbered.
LEMMA InitTable ==
  ASSUME ConfigInit
  PROVE  /\ configs \in Table /\ Present(configs) = Seeded
         /\ Apart(configs, Present(configs)) /\ Contiguous(configs)
  <1> DEFINE n == Cardinality(Seeded)
  <1>1. PICK at \in Bijection(Seeded, 1 .. n) :
          configs = [i \in Ids |-> IF i \in Seeded THEN [order |-> at[i], active |-> TRUE] ELSE Gone]
    BY DEF ConfigInit
  <1>2. IsFiniteSet(Seeded) /\ n \in Nat
    BY SeededAssumption, FS_CardinalityType
  <1>3. /\ \A i \in Seeded : at[i] \in 1 .. n
        /\ \A i, j \in Seeded : at[i] = at[j] => i = j
        /\ \A k \in 1 .. n : \E i \in Seeded : at[i] = k
    BY <1>1 DEF Bijection, Injection, Surjection, IsInjective
  <1>4. \A i \in Seeded : i \in Ids /\ configs[i] \in Row /\ configs[i].order = at[i]
    <2>1. TAKE i \in Seeded
    <2>2. PICK k \in Nat \ {0} : k = at[i]
      BY <1>2, <1>3
    <2>3. i \in Ids /\ configs[i] = [order |-> k, active |-> TRUE]
      BY <1>1, <2>2 DEF Ids
    <2>4. QED
      BY <2>2, <2>3 DEF Row
  <1>5. \A i \in Ids : i \notin Seeded => configs[i] = Gone
    BY <1>1
  <1>6. configs \in Table
    <2>1. DOMAIN configs = Ids /\ configs = [i \in Ids |-> configs[i]]
      BY <1>1
    <2>2. QED
      BY <1>4, <1>5, <2>1 DEF Table
  <1>7. Present(configs) = Seeded
    BY <1>4, <1>5, Kinds DEF Present
  <1>8. Apart(configs, Seeded)
    BY <1>2, <1>3, <1>4, Kinds DEF Apart
  <1>9. OrdersOf(configs) = 1 .. n
    BY <1>3, <1>4, <1>7 DEF OrdersOf
  <1>10. QED
    BY <1>6, <1>7, <1>8, <1>9 DEF Contiguous

LEMMA SerialInit == ASSUME Seeded # {} PROVE ConfigInit => Serial
  <1>1. SUFFICES ASSUME ConfigInit PROVE Serial
    OBVIOUS
  <1>2. Numbered(configs) /\ Present(configs) = Seeded
    BY <1>1, InitTable DEF Numbered
  <1>3. admin \in [Admins -> Memory] /\ OngoingCalls = {}
    <2>1. IdleAdmin.pc = "idle"
      BY DEF IdleAdmin
    <2>2. admin = [c \in Admins |-> IdleAdmin]
      BY <1>1 DEF ConfigInit
    <2>3. \A c \in Admins : admin[c].pc = "idle"
      BY <2>1, <2>2
    <2>4. QED
      BY <2>2, <2>3, IdleType DEF OngoingCalls, Ongoing
  <1>4. \A c \in Admins : c \notin Present(configs)
    BY <1>2, SeededAssumption
  <1>5. QED
    BY <1>2, <1>3, <1>4 DEF Serial

LEMMA SerialNext == ASSUME Transactional, Serial, [ConfigNext]_configVars PROVE Serial'
  <1>1. CASE UNCHANGED configVars
    <2>1. UNCHANGED <<configs, admin, overlap>>
      BY <1>1 DEF configVars
    <2>2. \A c \in Admins : Standing(c) => Standing(c)'
      <3>1. TAKE c \in Admins
      <3>2. PICK s, u, l : s = Sees(c) /\ u = AfterSave(c) /\ l = Left(c)
        OBVIOUS
      <3>3. Sees(c)' = s
        BY <2>1, <3>2 DEF Sees
      <3>4. AfterSave(c)' = u /\ Left(c)' = l
        BY <2>1, <3>2, <3>3 DEF AfterSave, Left, Sees
      <3>5. /\ Numbered(Sees(c))' <=> Numbered(s)
            /\ Numbered(AfterSave(c))' <=> Numbered(u)
            /\ Numbered(Left(c))' <=> Numbered(l)
        BY <3>3, <3>4
      <3>6. Within(c, Sees(c))' <=> Within(c, s)
        BY <2>1, <3>3 DEF Within, Present
      <3>7. Within(c, AfterSave(c))' <=> Within(c, u)
        BY <2>1, <3>4 DEF Within, Present
      <3>8. (Saves(c)' <=> Saves(c)) /\ (Selected(c)' <=> Selected(c))
        BY <2>1, <3>2, <3>3 DEF Saves, Apart, Selected
      <3>9. Present(configs)' = Present(configs)
        BY <2>1 DEF Present
      <3>10. QED
        BY <2>1, <3>2, <3>3, <3>5, <3>6, <3>7, <3>8, <3>9 DEF Standing
    <2>3. Numbered(configs) => Numbered(configs)'
      BY <1>1 DEF configVars, Numbered, Apart, Contiguous, OrdersOf, Present
    <2>4. QED
      BY <1>1, <2>2, <2>3 DEF configVars, Serial, OngoingCalls, Present
  <1>2. CASE overlap'
    BY <1>2 DEF Serial
  <1>3. CASE ~overlap' /\ ConfigNext
    <2>1. PICK c \in Admins : AdminStep(c)
      BY <1>3 DEF ConfigNext
    <2>2. CASE \E on \in BOOLEAN : AddRead(c, on)
      BY <1>3, <2>2, AddReadStep
    <2>3. CASE \E i \in Ids, on \in BOOLEAN : UpdateRead(c, i, on)
      BY <1>3, <2>3, UpdateReadStep
    <2>4. CASE \E i \in Ids : DeleteRead(c, i)
      BY <1>3, <2>4, DeleteReadStep
    <2>5. CASE DeleteReadAll(c)
      BY <1>3, <2>5, DeleteReadAllStep DEF DeleteReadAll
    <2>6. CASE RemoveRow(c)
      BY <1>3, <2>6, RemoveRowStep DEF RemoveRow
    <2>7. CASE Select(c)
      BY <1>3, <2>7, SelectStep DEF Select
    <2>8. CASE Write(c)
      BY <1>3, <2>8, WriteStep DEF Write
    <2>9. CASE CommitAll(c)
      BY <1>3, <2>9, CommitStep DEF CommitAll
    <2>10. CASE GiveUp(c)
      BY <1>3, <2>10, FailsStep DEF GiveUp
    <2>11. QED
      BY <2>1, <2>2, <2>3, <2>4, <2>5, <2>6, <2>7, <2>8, <2>9, <2>10 DEF AdminStep
  <1>4. QED
    BY <1>1, <1>2, <1>3

\* While the administrators' calls do not overlap, the committed steps of a
\* provisioned tenant are numbered 1 .. n at every moment, for any number of
\* steps, calls and calls that are cut off.
THEOREM StepsContiguous ==
  ASSUME Transactional, Seeded # {}
  PROVE  ConfigSpec => []SerialContiguous
  <1>1. ConfigInit => Serial
    BY SerialInit
  <1>2. Serial /\ [ConfigNext]_configVars => Serial'
    BY SerialNext
  <1>3. Serial => SerialContiguous
    BY DEF Serial, SerialContiguous, Numbered
  <1>4. QED
    BY <1>1, <1>2, <1>3, PTL DEF ConfigSpec

-----------------------------------------------------------------------------
(* Calls that overlap *)

\* Steps of which no two have one number, as the unique index demands.
Tidy(t) == t \in Table /\ Apart(t, Present(t))

\* What c wrote stays clear of what d wrote: other rows, and numbers that
\* d's rows neither have nor had.
Held(c, d) ==
  \A i \in admin[c].locks, j \in admin[d].locks :
    /\ i # j
    /\ admin[c].mine[i] # Gone =>
         admin[c].mine[i].order \notin {configs[j].order, admin[d].mine[j].order}

\* What holds however calls overlap: each of them sees a tidy table.
Kept ==
  /\ Tidy(configs)
  /\ admin \in [Admins -> Memory]
  /\ faults \in 0 .. MaxFaults /\ overlap \in BOOLEAN
  /\ \A c \in Admins : Saves(c) /\ Tidy(Sees(c)) /\ (Transactional \/ admin[c].locks = {})
  /\ \A c, d \in Admins : c # d => Held(c, d)

\* The largest number is a number, also when there is no step.
LEMMA LastOrder ==
  ASSUME NEW t, Tidy(t)
  PROVE  Max(OrdersOf(t) \union {0}) \in Nat
  <1> DEFINE P == Present(t)
             O == OrdersOf(t) \union {0}
             n == Cardinality(P)
  <1>1. IsFiniteSet(P) /\ n \in Nat /\ \A i \in P : t[i].order \in Nat
    BY FS_CardinalityType DEF Tidy, Apart
  <1>2. \E x \in O : \A y \in O : x >= y
    <2>1. CASE P = {}
      BY <2>1 DEF OrdersOf
    <2>2. CASE P # {}
      <3>1. n # 0
        BY <1>1, <2>2, FS_EmptySet
      <3>2. n \in 1 .. n
        BY <1>1, <3>1
      <3>3. PICK i \in P : Place(t, P, i) = n
        BY <3>2, Places DEF Tidy
      <3>4. {j \in P : t[j].order <= t[i].order} = P
        BY <1>1, <3>3, FS_Subset DEF Place
      <3>5. t[i].order \in O /\ \A j \in P : t[i].order >= t[j].order
        BY <1>1, <3>4 DEF OrdersOf
      <3>6. t[i].order >= 0
        BY <1>1
      <3>7. QED
        BY <3>5, <3>6 DEF OrdersOf
    <2>3. QED
      BY <2>1, <2>2
  <1>3. O \subseteq Nat
    BY <1>1 DEF OrdersOf
  <1> HIDE DEF O
  <1>4. QED
    BY <1>2, <1>3 DEF Max, O

\* One INSERT or UPDATE gives row i the number the call remembers or the one it
\* has, and rejects a number that another row has.
LEMMA PutKeeps ==
  ASSUME NEW c, NEW i \in Ids, admin[c].mem[i] \in Row, NEW r, r.t \in Table
  PROVE  /\ Put(c, r, i).t \in Table
         /\ \A j \in Ids : j # i => Put(c, r, i).t[j] = r.t[j]
         /\ \/ Put(c, r, i).t[i] = r.t[i]
            \/ /\ Put(c, r, i).t[i] \in Row
               /\ Put(c, r, i).t[i].order \in {admin[c].mem[i].order, r.t[i].order}
         /\ ~Put(c, r, i).dup => ~r.dup
         /\ Tidy(r.t) /\ ~Put(c, r, i).dup => Tidy(Put(c, r, i).t)
  <1> DEFINE cols == admin[c].cols[i]
             m    == admin[c].mem[i]
             new  == IF "insert" \in cols THEN m ELSE [f \in DOMAIN m |-> IF f \in cols THEN m[f] ELSE r.t[i][f]]
             p    == Put(c, r, i)
  <1>1. CASE r.t[i] = Gone /\ "insert" \notin cols
    <2>1. p = r
      BY <1>1 DEF Put
    <2>2. QED
      BY <2>1
  <1>2. CASE ~(r.t[i] = Gone /\ "insert" \notin cols)
    <2>1. new \in Row /\ new.order \in {m.order, r.t[i].order}
      <3>1. CASE "insert" \in cols
        BY <3>1
      <3>2. CASE "insert" \notin cols
        <4>1. r.t[i] \in Row /\ m \in Row /\ DOMAIN m = {"order", "active"}
          BY <1>2, <3>2, Kinds DEF Table
        <4>2. new = [f \in {"order", "active"} |-> IF f \in cols THEN m[f] ELSE r.t[i][f]]
          BY <3>2, <4>1
        <4>3. /\ m.order \in Nat \ {0} /\ m.active \in BOOLEAN
              /\ r.t[i].order \in Nat \ {0} /\ r.t[i].active \in BOOLEAN
          BY <4>1 DEF Row
        <4>4. PICK o \in {m.order, r.t[i].order}, a \in {m.active, r.t[i].active} :
                 new = [f \in {"order", "active"} |-> IF f = "order" THEN o ELSE a]
          <5>1. new["order"] \in {m.order, r.t[i].order} /\ new["active"] \in {m.active, r.t[i].active}
            BY <4>2
          <5>2. new = [f \in {"order", "active"} |-> IF f = "order" THEN new["order"] ELSE new["active"]]
            BY <4>2
          <5>3. QED
            BY <5>1, <5>2
        <4>5. new = [order |-> o, active |-> a]
          BY <4>4
        <4> HIDE DEF new
        <4>6. QED
          BY <4>3, <4>5 DEF Row
      <3>3. QED
        BY <3>1, <3>2
    <2> HIDE DEF new
    <2>2. /\ p.t = [r.t EXCEPT ![i] = new]
          /\ ~p.dup => ~r.dup /\ \A j \in Ids \ {i} : r.t[j].order # new.order
      BY <1>2 DEF Put, new
    <2> HIDE DEF p
    <2>3. p.t \in Table /\ \A j \in Ids : p.t[j] = IF j = i THEN new ELSE r.t[j]
      BY <2>1, <2>2 DEF Table
    <2>4. ASSUME Tidy(r.t), ~p.dup PROVE Tidy(p.t)
      <3> DEFINE u == p.t
      <3>1. Present(u) \subseteq Present(r.t) \union {i} /\ i \in Present(u)
        BY <2>1, <2>3, Kinds DEF Present
      <3>2. IsFiniteSet(Present(u))
        <4>1. IsFiniteSet(Present(r.t) \union {i})
          BY <2>4, FS_AddElement DEF Tidy, Apart
        <4>2. QED
          BY <3>1, <4>1, FS_Subset
      <3>3. \A j \in Present(u) : j \in Ids /\ u[j] \in Row /\ u[j].order \in Nat
        BY <2>3, Kinds DEF Present, Table
      <3>4. \A j \in Present(u) : j # i => j \in Present(r.t) /\ u[j] = r.t[j] /\ u[j].order # u[i].order
        BY <2>2, <2>3, <2>4, <3>3 DEF Present
      <3>5. \A j, k \in Present(r.t) : r.t[j].order = r.t[k].order => j = k
        BY <2>4 DEF Tidy, Apart
      <3> HIDE DEF u
      <3>6. \A j, k \in Present(u) : u[j].order = u[k].order => j = k
        BY <3>1, <3>4, <3>5
      <3>7. Apart(u, Present(u))
        BY <3>2, <3>3, <3>6 DEF Apart
      <3>8. QED
        BY <2>3, <3>7 DEF Tidy, u
    <2>5. QED
      BY <2>1, <2>2, <2>3, <2>4 DEF p
  <1>3. QED
    BY <1>1, <1>2

\* A save that no row rejected leaves a tidy table, in which a row that it wrote
\* has the number the call remembers or the one it saw.
LEMMA SaveKeeps ==
  ASSUME NEW c, Saves(c), Tidy(Sees(c))
  PROVE  /\ Saved(c).t \in Table
         /\ \A i \in Ids : \/ Saved(c).t[i] = Sees(c)[i]
                           \/ /\ i \in ToSet(WriteOrder(c))
                              /\ Saved(c).t[i] \in Row
                              /\ Saved(c).t[i].order \in {admin[c].mem[i].order, Sees(c)[i].order}
         /\ ~Saved(c).dup => Tidy(Saved(c).t)
  <1> DEFINE w == WriteOrder(c)
             W == ToSet(w)
  <1>0. PICK n, h : Steps(c, n, h)
    BY SavedRun
  <1>1. /\ n \in Nat
        /\ w \in [1 .. n -> admin[c].saving]
        /\ \A k \in 1 .. n : admin[c].cols[w[k]] # {}
        /\ \A i \in admin[c].saving : admin[c].cols[i] # {} => \E k \in 1 .. n : w[k] = i
        /\ h[0] = Start(c) /\ h[n] = Saved(c)
        /\ \A k \in Nat : k + 1 \in 1 .. n => h[k + 1] = Put(c, h[k], w[k + 1])
    BY <1>0 DEF Steps
  <1>2. \A k \in 1 .. n : w[k] \in W /\ w[k] \in admin[c].saving
    BY <1>1 DEF ToSet
  <1> HIDE DEF w, W
  <1> DEFINE Wrote(u, i) == /\ i \in W
                            /\ u[i] \in Row
                            /\ u[i].order \in {admin[c].mem[i].order, Sees(c)[i].order}
             Good(k) == /\ h[k].t \in Table
                        /\ \A i \in Ids : h[k].t[i] = Sees(c)[i] \/ Wrote(h[k].t, i)
                        /\ ~h[k].dup => Tidy(h[k].t)
             G == {k \in Nat : Good(k)}
  <1>3. Good(0)
    BY <1>1 DEF Start, Tidy
  <1>4. ASSUME NEW k \in Nat, k + 1 \in 1 .. n, Good(k) PROVE Good(k + 1)
    <2>1. PICK i \in Ids : i = w[k + 1] /\ i \in W /\ i \in admin[c].saving
      BY <1>2, <1>4 DEF Saves
    <2>2. PICK r, p : r = h[k] /\ p = h[k + 1]
      OBVIOUS
    <2>3. p = Put(c, r, i) /\ admin[c].mem[i] \in Row
      BY <1>1, <1>4, <2>1, <2>2 DEF Saves
    <2>4. r.t \in Table /\ (~r.dup => Tidy(r.t)) /\ \A j \in Ids : r.t[j] = Sees(c)[j] \/ Wrote(r.t, j)
      BY <1>4, <2>2
    <2>5. /\ p.t \in Table
          /\ \A j \in Ids : j # i => p.t[j] = r.t[j]
          /\ p.t[i] = r.t[i] \/ (p.t[i] \in Row /\ p.t[i].order \in {admin[c].mem[i].order, r.t[i].order})
          /\ ~p.dup => ~r.dup
          /\ Tidy(r.t) /\ ~p.dup => Tidy(p.t)
      BY <2>3, <2>4, PutKeeps
    <2>6. p.t[i] = Sees(c)[i] \/ Wrote(p.t, i)
      BY <2>1, <2>4, <2>5
    <2>7. \A j \in Ids : p.t[j] = Sees(c)[j] \/ Wrote(p.t, j)
      BY <2>4, <2>5, <2>6
    <2> HIDE DEF Wrote
    <2>8. QED
      BY <2>2, <2>4, <2>5, <2>7
  <1> HIDE DEF Good
  <1>5. Good(n)
    <2>1. n \in Nat /\ 0 \in G /\ \A k \in Nat : k \in G /\ k + 1 \in 1 .. n => k + 1 \in G
      BY <1>1, <1>3, <1>4
    <2> HIDE DEF G
    <2>2. n \in G
      BY <2>1, Climb
    <2>3. QED
      BY <2>2 DEF G
  <1>6. QED
    BY <1>1, <1>5 DEF Good, W, w

\* A step of c that leaves the table, and either what c wrote or none of it.
LEMMA KeptFrame ==
  ASSUME Kept, NEW c \in Admins, UNCHANGED configs, Saves(c)',
         admin' \in [Admins -> Memory], \A d \in Admins : d # c => admin'[d] = admin[d],
         admin'[c].locks = {} \/ (admin'[c].locks = admin[c].locks /\ admin'[c].mine = admin[c].mine),
         faults' \in 0 .. MaxFaults, overlap' \in BOOLEAN
  PROVE  Kept'
  <1>1. Tidy(configs)'
    BY DEF Kept
  <1>2. \A d \in Admins : Sees(d)' = Sees(d) \/ Sees(d)' = configs
    <2>1. TAKE d \in Admins
    <2>2. CASE d # c \/ admin'[c].locks # {}
      BY <2>2 DEF Sees
    <2>3. CASE d = c /\ admin'[c].locks = {}
      BY <2>3, SeesAll DEF Kept, Tidy
    <2>4. QED
      BY <2>2, <2>3
  <1>3. \A d \in Admins : Tidy(Sees(d))'
    <2>1. TAKE d \in Admins
    <2>2. PICK u : u = Sees(d)'
      OBVIOUS
    <2>3. Tidy(u)
      BY <1>2, <2>2 DEF Kept
    <2>4. QED
      BY <2>2, <2>3
  <1>4. \A d \in Admins : Saves(d)'
    <2>1. TAKE d \in Admins
    <2>2. CASE d = c
      BY <2>2
    <2>3. CASE d # c
      BY <2>3 DEF Kept, Saves, Apart
    <2>4. QED
      BY <2>2, <2>3
  <1>5. \A d \in Admins : (Transactional \/ admin[d].locks = {})'
    BY DEF Kept
  <1>6. \A d, e \in Admins : d # e => Held(d, e)'
    BY DEF Kept, Held
  <1>7. QED
    BY <1>1, <1>3, <1>4, <1>5, <1>6 DEF Kept

\* The number of a row that d does not hold is neither had nor given by d.
LEMMA OrderFree ==
  ASSUME Kept, NEW c \in Admins, NEW d \in Admins \ {c}, NEW i \in Ids \ admin[d].locks, NEW j \in admin[d].locks
  PROVE  /\ Sees(c)[i] # Gone => Sees(c)[i].order \notin {configs[j].order, admin[d].mine[j].order}
         /\ admin[d].mine[j] # Gone => admin[d].mine[j].order # configs[i].order
  <1>1. /\ configs \in Table /\ j \in Ids /\ i # j
        /\ admin[d].mine[j] \in Row \union {Gone}
    BY DEF Kept, Tidy, Memory, Table
  <1>2. \A k, l \in Ids : k # l /\ configs[k] # Gone /\ configs[l] # Gone => configs[k].order # configs[l].order
    BY DEF Kept, Tidy, Apart, Present
  <1>3. \A k, l \in Ids : k # l /\ Sees(d)[k] # Gone /\ Sees(d)[l] # Gone => Sees(d)[k].order # Sees(d)[l].order
    BY DEF Kept, Tidy, Apart, Present
  <1>4. Sees(d)[i] = configs[i] /\ Sees(d)[j] = admin[d].mine[j]
    BY <1>1 DEF Sees
  <1>5. Gone.order = 0 /\ \A k \in Ids : configs[k] # Gone => configs[k].order # 0
    BY <1>1, Kinds DEF Table, Gone
  <1>6. admin[d].mine[j] # Gone => admin[d].mine[j].order # 0
    BY <1>1, Kinds
  <1>7. admin[d].mine[j] # Gone => admin[d].mine[j].order # configs[i].order
    BY <1>1, <1>3, <1>4, <1>5, <1>6
  <1>8. ASSUME Sees(c)[i] # Gone PROVE Sees(c)[i].order \notin {configs[j].order, admin[d].mine[j].order}
    <2>1. CASE i \in admin[c].locks
      BY <1>8, <2>1 DEF Kept, Held, Sees
    <2>2. CASE i \notin admin[c].locks
      <3>1. Sees(c)[i] = configs[i]
        BY <2>2 DEF Sees
      <3>2. configs[i].order # configs[j].order
        BY <1>1, <1>2, <1>5, <1>8, <3>1
      <3>3. configs[i].order # admin[d].mine[j].order
        BY <1>1, <1>5, <1>7, <1>8, <3>1
      <3>4. QED
        BY <3>1, <3>2, <3>3
    <2>3. QED
      BY <2>1, <2>2
  <1>9. QED
    BY <1>7, <1>8

\* A statement of c in its transaction, on rows that no other call holds and
\* with numbers that no other call gives or takes.
LEMMA KeptApply ==
  ASSUME Kept, Transactional, NEW c \in Admins, NEW t, Tidy(t), NEW pc \in Ongoing, Apply(c, t, pc),
         UNCHANGED <<faults, overlap>>,
         \A i \in Ids : t[i] # Sees(c)[i] => \A d \in Admins \ {c} : \A j \in admin[d].locks :
           /\ i # j
           /\ t[i] # Gone /\ t[i].order # Sees(c)[i].order =>
                t[i].order \notin {configs[j].order, admin[d].mine[j].order}
  PROVE  Kept'
  <1> DEFINE L == {i \in Ids : t[i] # Sees(c)[i]}
  <1>1. admin \in [Admins -> Memory] /\ configs \in Table /\ t \in Table
    BY DEF Kept, Tidy
  <1>2. /\ UNCHANGED configs
        /\ admin' \in [Admins -> Memory] /\ \A d \in Admins : d # c => admin'[d] = admin[d]
        /\ admin'[c].saving = admin[c].saving /\ admin'[c].mem = admin[c].mem
        /\ admin'[c].mine = t /\ admin'[c].locks = admin[c].locks \union L
        /\ Sees(c)' = t
    BY <1>1, ApplyStep
  <1>3. ASSUME NEW d \in Admins \ {c}, NEW i \in admin'[c].locks, NEW j \in admin[d].locks
        PROVE  /\ i # j
               /\ t[i] # Gone => t[i].order \notin {configs[j].order, admin[d].mine[j].order}
               /\ admin[d].mine[j] # Gone => admin[d].mine[j].order \notin {configs[i].order, t[i].order}
    <2>1. i \in Ids /\ j \in Ids /\ \A k \in admin[d].locks : i # k
      BY <1>1, <1>2, <1>3 DEF Kept, Held, Memory
    <2>2. i \in Ids \ admin[d].locks
      BY <2>1
    <2>3. /\ Sees(c)[i] # Gone => Sees(c)[i].order \notin {configs[j].order, admin[d].mine[j].order}
          /\ admin[d].mine[j] # Gone => admin[d].mine[j].order # configs[i].order
      BY <1>3, <2>2, OrderFree
    <2>4. t[i] # Gone /\ t[i].order = Sees(c)[i].order => Sees(c)[i] # Gone
      BY <1>1, <2>1, Kinds DEF Table, Gone
    <2>5. t[i] # Gone => t[i].order \notin {configs[j].order, admin[d].mine[j].order}
      BY <1>3, <2>1, <2>3, <2>4
    <2>6. admin[d].mine[j] # Gone /\ t[i] = Gone => admin[d].mine[j].order # t[i].order
      <3>1. admin[d].mine[j] \in Row \union {Gone}
        BY <1>1, <2>1 DEF Memory, Table
      <3>2. admin[d].mine[j] # Gone => admin[d].mine[j].order # 0
        BY <3>1, Kinds
      <3>3. Gone.order = 0
        BY DEF Gone
      <3>4. QED
        BY <3>2, <3>3
    <2>7. QED
      BY <2>1, <2>3, <2>5, <2>6
  <1> HIDE DEF L
  <1>4. Tidy(configs)'
    BY <1>2 DEF Kept
  <1>5. \A d \in Admins : Tidy(Sees(d))'
    <2>1. TAKE d \in Admins
    <2>2. PICK u : u = Sees(d)'
      OBVIOUS
    <2>3. d # c => u = Sees(d)
      BY <1>2, <2>2 DEF Sees
    <2>4. Tidy(u)
      BY <1>2, <2>2, <2>3 DEF Kept
    <2>5. QED
      BY <2>2, <2>4
  <1>6. \A d \in Admins : Saves(d)'
    <2>1. TAKE d \in Admins
    <2>2. Saves(d) /\ admin'[d].saving = admin[d].saving /\ admin'[d].mem = admin[d].mem
      BY <1>2 DEF Kept
    <2>3. QED
      BY <2>2 DEF Saves, Apart
  <1>7. \A d, e \in Admins : d # e => Held(d, e)'
    <2>1. SUFFICES ASSUME NEW d \in Admins, NEW e \in Admins, d # e PROVE Held(d, e)'
      OBVIOUS
    <2>2. CASE d # c /\ e # c
      <3>1. admin'[d] = admin[d] /\ admin'[e] = admin[e] /\ configs' = configs /\ Held(d, e)
        BY <1>2, <2>1, <2>2 DEF Kept
      <3>2. QED
        BY <3>1 DEF Held
    <2>3. CASE d = c
      <3>1. e \in Admins \ {c} /\ admin'[e] = admin[e] /\ admin'[c].mine = t /\ configs' = configs
        BY <1>2, <2>1, <2>3
      <3>2. \A i \in admin'[c].locks, j \in admin[e].locks :
              i # j /\ (t[i] # Gone => t[i].order \notin {configs[j].order, admin[e].mine[j].order})
        BY <1>3, <3>1
      <3>3. QED
        BY <2>3, <3>1, <3>2 DEF Held
    <2>4. CASE e = c
      <3>1. d \in Admins \ {c} /\ admin'[d] = admin[d] /\ admin'[c].mine = t /\ configs' = configs
        BY <1>2, <2>1, <2>4
      <3>2. \A i \in admin'[c].locks, j \in admin[d].locks :
              i # j /\ (admin[d].mine[j] # Gone => admin[d].mine[j].order \notin {configs[i].order, t[i].order})
        BY <1>3, <3>1
      <3>3. QED
        BY <2>4, <3>1, <3>2 DEF Held
    <2>5. QED
      BY <2>2, <2>3, <2>4
  <1>8. QED
    BY <1>2, <1>4, <1>5, <1>6, <1>7 DEF Kept

\* A statement of a legacy tenant, which is committed at once.
LEMMA KeptSwap ==
  ASSUME Kept, ~Transactional, NEW c \in Admins, NEW t, Tidy(t), configs' = t, UNCHANGED <<faults, overlap>>,
         Saves(c)', admin' \in [Admins -> Memory], \A d \in Admins : d # c => admin'[d] = admin[d],
         admin'[c].locks = {}
  PROVE  Kept'
  <1>1. \A d \in Admins : admin'[d].locks = {}
    BY DEF Kept
  <1>2. t \in Table
    BY DEF Tidy
  <1>3. \A d \in Admins : Sees(d)' = t
    BY <1>1, <1>2, SeesAll
  <1>4. Tidy(configs)' /\ \A d \in Admins : Tidy(Sees(d))'
    BY <1>3
  <1>5. \A d \in Admins : Saves(d)'
    <2>1. TAKE d \in Admins
    <2>2. CASE d = c
      BY <2>2
    <2>3. CASE d # c
      BY <2>3 DEF Kept, Saves, Apart
    <2>4. QED
      BY <2>2, <2>3
  <1>6. \A d, e \in Admins : Held(d, e)'
    BY <1>1 DEF Held
  <1>7. QED
    BY <1>1, <1>4, <1>5, <1>6 DEF Kept

\* What c commits does not meet what the others have written.
LEMMA KeptCommit == ASSUME Kept, NEW c \in Admins, CommitAll(c) PROVE Kept'
  <1>1. admin \in [Admins -> Memory] /\ configs \in Table /\ Sees(c) \in Table
    BY DEF Kept, Tidy
  <1>2. /\ configs' = Sees(c) /\ UNCHANGED <<faults, overlap>>
        /\ admin' \in [Admins -> Memory] /\ admin'[c].locks = {} /\ admin'[c].saving = {}
        /\ \A d \in Admins : d # c => admin'[d] = admin[d]
    <2> DEFINE m == [IdleAdmin EXCEPT !.pc = "done"]
    <2>1. m \in Memory /\ m.locks = {} /\ m.saving = {}
      BY IdleType DEF Memory, IdleAdmin
    <2>2. admin' = [admin EXCEPT ![c] = m]
      BY DEF CommitAll, Ends
    <2> HIDE DEF m
    <2>3. QED
      BY <1>1, <2>1, <2>2 DEF CommitAll
  <1>3. PICK n : n = Sees(c)
    OBVIOUS
  <1>4. Tidy(n) /\ configs' = n /\ n \in Table
    BY <1>2, <1>3 DEF Kept, Tidy
  <1>5. Tidy(configs)'
    BY <1>4
  <1>6. \A d \in Admins : Saves(d)'
    <2>1. TAKE d \in Admins
    <2>2. CASE d = c
      BY <1>2, <2>2, FS_EmptySet DEF Saves, Apart
    <2>3. CASE d # c
      BY <1>2, <2>3 DEF Kept, Saves, Apart
    <2>4. QED
      BY <2>2, <2>3
  <1>7. ASSUME NEW d \in Admins \ {c} PROVE Tidy(Sees(d))'
    <2>1. PICK u : u = Sees(d)'
      OBVIOUS
    <2>2. \A i \in Ids : u[i] = IF i \in admin[d].locks THEN admin[d].mine[i] ELSE n[i]
      BY <1>2, <1>4, <2>1 DEF Sees
    <2>3. admin[d].mine \in Table /\ admin[d].locks \subseteq Ids /\ admin[c].mine \in Table
      BY <1>1 DEF Memory
    <2>4. u \in Table
      <3>1. u = [i \in Ids |-> u[i]]
        BY <2>1 DEF Sees
      <3>2. \A i \in Ids : u[i] \in Row \union {Gone}
        BY <1>4, <2>2, <2>3 DEF Table
      <3>3. QED
        BY <3>1, <3>2 DEF Table
    <2>5. \A i \in Ids : i \in admin[d].locks => u[i] = Sees(d)[i]
      BY <2>2 DEF Sees
    <2>6. IsFiniteSet(Present(u))
      <3>1. Present(u) \subseteq Present(Sees(d)) \union Present(n)
        BY <2>2, <2>5 DEF Present
      <3>2. IsFiniteSet(Present(Sees(d)) \union Present(n))
        BY <1>4, FS_Union DEF Kept, Tidy, Apart
      <3>3. QED
        BY <3>1, <3>2, FS_Subset
    <2>7. ASSUME NEW i \in Present(u), NEW j \in Present(u), i # j PROVE u[i].order # u[j].order
      <3>1. i \in Ids /\ j \in Ids /\ u[i] # Gone /\ u[j] # Gone
        BY <2>7 DEF Present
      <3>2. ASSUME NEW k \in admin[d].locks, NEW l \in Ids \ admin[d].locks, u[k] # Gone, u[l] # Gone
            PROVE  u[k].order # u[l].order
        <4>1. u[k] = admin[d].mine[k] /\ u[l] = Sees(c)[l]
          BY <1>3, <2>2, <2>3, <3>2
        <4>2. QED
          BY <1>7, <3>2, <4>1, OrderFree
      <3>3. CASE i \in admin[d].locks /\ j \in admin[d].locks
        <4>1. \A k, l \in Present(Sees(d)) : Sees(d)[k].order = Sees(d)[l].order => k = l
          BY DEF Kept, Tidy, Apart
        <4>2. QED
          BY <2>5, <2>7, <3>1, <3>3, <4>1 DEF Present
      <3>4. CASE i \notin admin[d].locks /\ j \notin admin[d].locks
        <4>1. \A k, l \in Present(n) : n[k].order = n[l].order => k = l
          BY <1>4 DEF Tidy, Apart
        <4>2. QED
          BY <2>2, <2>7, <3>1, <3>4, <4>1 DEF Present
      <3>5. QED
        BY <3>1, <3>2, <3>3, <3>4
    <2>8. \A i \in Present(u) : u[i].order \in Nat
      BY <2>4, Kinds DEF Present, Table
    <2>9. Tidy(u)
      BY <2>4, <2>6, <2>7, <2>8 DEF Tidy, Apart
    <2>10. QED
      BY <2>1, <2>9
  <1>8. Tidy(Sees(c))'
    BY <1>2, <1>4, SeesAll
  <1>9. ASSUME NEW d \in Admins, NEW e \in Admins, d # e PROVE Held(d, e)'
    <2>1. CASE d = c \/ e = c
      BY <1>2, <2>1 DEF Held
    <2>2. CASE d # c /\ e # c
      <3>1. admin'[d] = admin[d] /\ admin'[e] = admin[e] /\ Held(d, e) /\ Held(c, e) /\ Held(e, c)
        BY <1>2, <1>9, <2>2 DEF Kept
      <3>2. \A j \in admin[e].locks : configs'[j] = configs[j]
        <4>1. TAKE j \in admin[e].locks
        <4>2. j \in Ids /\ j \notin admin[c].locks
          BY <1>1, <3>1 DEF Held, Memory
        <4>3. QED
          BY <1>2, <4>2 DEF Sees
      <3>3. QED
        BY <3>1, <3>2 DEF Held
    <2>3. QED
      BY <2>1, <2>2
  <1>10. \A d \in Admins : (Transactional \/ admin[d].locks = {})'
    BY <1>2 DEF Kept
  <1>11. QED
    BY <1>2, <1>5, <1>6, <1>7, <1>8, <1>9, <1>10 DEF Kept

\* A read that begins a call.
LEMMA KeptStarts ==
  ASSUME Kept, NEW c \in Admins, NEW op, NEW k \in Memory, k.locks = {}, Starts(c, op, k),
         k.saving \subseteq Ids, \A i \in k.saving : k.mem[i] \in Row, Apart(k.mem, k.saving)
  PROVE  Kept'
  <1>1. admin \in [Admins -> Memory] /\ overlap \in BOOLEAN
    BY DEF Kept
  <1>2. admin' \in [Admins -> Memory] /\ admin'[c] = k /\ \A d \in Admins : d # c => admin'[d] = admin[d]
    BY <1>1 DEF Starts
  <1>3. Saves(c)'
    BY <1>2 DEF Saves, Apart
  <1>4. UNCHANGED <<configs, faults>> /\ overlap' \in BOOLEAN
    BY <1>1 DEF Starts
  <1>5. QED
    BY <1>2, <1>3, <1>4, KeptFrame DEF Kept

\* A row of the table is one that a list may hold.
LEMMA OneRow ==
  ASSUME NEW m, NEW i, m[i] \in Row
  PROVE  Apart(m, {i})
  BY Kinds, FS_Singleton DEF Apart

\* The three reads.
LEMMA KeptReads ==
  ASSUME Kept, NEW c \in Admins,
         \/ \E on \in BOOLEAN : AddRead(c, on)
         \/ \E i \in Ids, on \in BOOLEAN : UpdateRead(c, i, on)
         \/ \E i \in Ids : DeleteRead(c, i)
  PROVE  Kept'
  <1>1. configs \in Table /\ c \in Ids
    BY DEF Kept, Tidy, Ids
  <1>2. ASSUME NEW on \in BOOLEAN, AddRead(c, on) PROVE Kept'
    <2> DEFINE row == [order |-> NextOrder, active |-> on]
               k == [IdleAdmin EXCEPT !.pc = "write", !.saving = {c}, !.cols[c] = {"insert"}, !.mem[c] = row]
    <2>1. row \in Row
      <3>1. PICK n \in Nat : n = Max(OrdersOf(configs) \union {0})
        BY LastOrder DEF Kept
      <3>2. NextOrder = 1 + n /\ 1 + n \in Nat \ {0}
        BY <3>1 DEF NextOrder
      <3>3. QED
        BY <3>2 DEF Row
    <2>2. k \in Memory
      BY <1>1, <2>1 DEF IdleAdmin, NoTable, Memory, Table, Ongoing
    <2>3. k.saving = {c} /\ k.locks = {} /\ k.mem[c] = row
      BY <1>1 DEF IdleAdmin, NoTable
    <2>4. Starts(c, "add", k)
      BY <1>2 DEF AddRead
    <2> HIDE DEF k, row
    <2>5. Apart(k.mem, {c})
      BY <2>1, <2>3, OneRow
    <2>6. QED
      BY <1>1, <2>1, <2>2, <2>3, <2>4, <2>5, KeptStarts
  <1>3. ASSUME NEW i \in Ids, NEW on \in BOOLEAN, UpdateRead(c, i, on) PROVE Kept'
    <2> DEFINE row == [configs[i] EXCEPT !.active = on]
               k == [IdleAdmin EXCEPT !.pc = "select", !.saving = {i}, !.mem[i] = row]
    <2>1. row \in Row
      <3>1. configs[i] \in Row
        BY <1>1, <1>3, Kinds DEF UpdateRead, Present, Table
      <3>2. QED
        BY <3>1 DEF Row
    <2>2. k \in Memory
      BY <2>1 DEF IdleAdmin, NoTable, Memory, Table, Ongoing
    <2>3. k.saving = {i} /\ k.locks = {} /\ k.mem[i] = row
      BY DEF IdleAdmin, NoTable
    <2>4. Starts(c, "update", k)
      BY <1>3 DEF UpdateRead
    <2> HIDE DEF k, row
    <2>5. Apart(k.mem, {i})
      BY <2>1, <2>3, OneRow
    <2>6. QED
      BY <2>1, <2>2, <2>3, <2>4, <2>5, KeptStarts
  <1>4. ASSUME NEW i \in Ids, DeleteRead(c, i) PROVE Kept'
    <2> DEFINE k == [IdleAdmin EXCEPT !.pc = "readAll", !.found = {i}, !.target = configs[i].order]
    <2>1. configs[i].order \in Nat
      BY <1>1, <1>4, Kinds DEF DeleteRead, Present, Table
    <2>2. k \in Memory
      BY <2>1, IdleType DEF IdleAdmin, Memory, Ongoing
    <2>3. k.saving = {} /\ k.locks = {}
      BY DEF IdleAdmin
    <2>4. Starts(c, "delete", k)
      BY <1>4 DEF DeleteRead
    <2> HIDE DEF k
    <2>5. Apart(k.mem, {})
      BY FS_EmptySet DEF Apart
    <2>6. QED
      BY <2>2, <2>3, <2>4, <2>5, KeptStarts
  <1>5. QED
    BY <1>2, <1>3, <1>4

\* A call that fails leaves the table and lets go of its rows.
LEMMA KeptEnds ==
  ASSUME Kept, NEW c \in Admins, NEW pc \in {"done", "failed"}, Ends(c, pc)
  PROVE  /\ admin' \in [Admins -> Memory] /\ admin'[c].locks = {} /\ Saves(c)'
         /\ \A d \in Admins : d # c => admin'[d] = admin[d]
  <1> DEFINE m == [IdleAdmin EXCEPT !.pc = pc]
  <1>1. m \in Memory /\ m.locks = {} /\ m.saving = {}
    BY IdleType DEF Memory, IdleAdmin
  <1>2. admin \in [Admins -> Memory] /\ admin' = [admin EXCEPT ![c] = m]
    BY DEF Kept, Ends
  <1> HIDE DEF m
  <1>3. admin' \in [Admins -> Memory] /\ admin'[c] = m /\ \A d \in Admins : d # c => admin'[d] = admin[d]
    BY <1>1, <1>2
  <1>4. Saves(c)'
    BY <1>1, <1>3, FS_EmptySet DEF Saves, Apart
  <1>5. QED
    BY <1>1, <1>3, <1>4

LEMMA KeptFails ==
  ASSUME Kept, NEW c \in Admins, Fails(c), faults' \in 0 .. MaxFaults, UNCHANGED overlap
  PROVE  Kept'
  <1>1. Ends(c, "failed") /\ UNCHANGED configs /\ overlap' \in BOOLEAN
    BY DEF Fails, Kept
  <1>2. QED
    BY <1>1, KeptEnds, KeptFrame

LEMMA KeptReadAll == ASSUME Kept, NEW c \in Admins, DeleteReadAll(c) PROVE Kept'
  <1>1. admin \in [Admins -> Memory] /\ configs \in Table /\ faults' \in 0 .. MaxFaults /\ overlap' \in BOOLEAN
    BY DEF Kept, Tidy, DeleteReadAll
  <1>2. CASE Cardinality(Present(configs)) = 1
    BY <1>1, <1>2, KeptFails DEF DeleteReadAll
  <1>3. CASE Cardinality(Present(configs)) # 1
    <2> DEFINE S == Remaining(configs, admin[c].target)
               r == Renumbered(configs, S)
               m == [admin[c] EXCEPT !.pc = "remove", !.saving = S, !.mem = r]
    <2>1. S \subseteq Present(configs) /\ Present(configs) \subseteq Ids
      BY DEF Remaining, Present
    <2>2. Apart(configs, S)
      <3>1. IsFiniteSet(S)
        BY <2>1, FS_Subset DEF Kept, Tidy, Apart
      <3>2. QED
        BY <2>1, <3>1 DEF Kept, Tidy, Apart
    <2>3. r \in Table /\ (\A j \in S : r[j] \in Row) /\ Apart(r, S)
      <3> HIDE DEF S
      <3>1. QED
        BY <1>1, <2>1, <2>2, RenumberedIs
    <2>4. admin' = [admin EXCEPT ![c] = m] /\ UNCHANGED configs
      BY <1>1, <1>3 DEF DeleteReadAll
    <2> HIDE DEF S, r
    <2>5. m \in Memory /\ m.saving = S /\ m.mem = r /\ m.mine = admin[c].mine /\ m.locks = admin[c].locks
      <3>1. admin[c] \in Memory
        BY <1>1
      <3>2. QED
        BY <2>1, <2>3, <3>1 DEF Memory, Ongoing
    <2> HIDE DEF m
    <2>6. admin' \in [Admins -> Memory] /\ admin'[c] = m /\ \A d \in Admins : d # c => admin'[d] = admin[d]
      BY <1>1, <2>4, <2>5
    <2>7. Saves(c)'
      BY <2>1, <2>3, <2>5, <2>6 DEF Saves, Apart
    <2>8. QED
      BY <1>1, <2>4, <2>5, <2>6, <2>7, KeptFrame
  <1>4. QED
    BY <1>2, <1>3

LEMMA KeptSelect == ASSUME Kept, NEW c \in Admins, Select(c) PROVE Kept'
  <1> DEFINE cols == [i \in Ids |->
                       IF i \notin admin[c].saving THEN {}
                       ELSE IF Sees(c)[i] = Gone THEN {"insert"}
                       ELSE {f \in {"order", "active"} : admin[c].mem[i][f] # Sees(c)[i][f]}]
             m == [admin[c] EXCEPT !.pc = "write", !.cols = cols]
  <1>1. admin \in [Admins -> Memory] /\ faults' \in 0 .. MaxFaults /\ overlap' \in BOOLEAN /\ UNCHANGED configs
    BY DEF Kept, Select
  <1>2. admin' = [admin EXCEPT ![c] = m]
    BY <1>1 DEF Select
  <1>3. cols \in [Ids -> SUBSET {"insert", "order", "active"}]
    OBVIOUS
  <1> HIDE DEF cols
  <1>4. m \in Memory /\ m.saving = admin[c].saving /\ m.mem = admin[c].mem /\ m.mine = admin[c].mine /\ m.locks = admin[c].locks
    <2>1. admin[c] \in Memory
      BY <1>1
    <2>2. QED
      BY <1>3, <2>1 DEF Memory, Ongoing
  <1> HIDE DEF m
  <1>5. admin' \in [Admins -> Memory] /\ admin'[c] = m /\ \A d \in Admins : d # c => admin'[d] = admin[d]
    BY <1>1, <1>2, <1>4
  <1>6. Saves(c)'
    BY <1>4, <1>5 DEF Kept, Saves, Apart
  <1>7. QED
    BY <1>1, <1>4, <1>5, <1>6, KeptFrame

\* Without some of its rows a table stays tidy.
LEMMA Fewer ==
  ASSUME NEW t, Tidy(t), NEW u \in Table, \A i \in Ids : u[i] \in {t[i], Gone}
  PROVE  Tidy(u)
  <1>1. Present(u) \subseteq Present(t) /\ \A i \in Present(u) : u[i] = t[i]
    BY DEF Present
  <1>2. IsFiniteSet(Present(u))
    BY <1>1, FS_Subset DEF Tidy, Apart
  <1>3. QED
    BY <1>1, <1>2 DEF Tidy, Apart

LEMMA KeptRemove == ASSUME Kept, NEW c \in Admins, RemoveRow(c) PROVE Kept'
  <1> DEFINE t == [i \in Ids |-> IF i \in admin[c].found THEN Gone ELSE Sees(c)[i]]
  <1>1. admin \in [Admins -> Memory] /\ Tidy(Sees(c)) /\ Sees(c) \in Table /\ UNCHANGED <<faults, overlap>>
    BY DEF Kept, Tidy, RemoveRow
  <1>2. Apply(c, t, "select") /\ \A i \in admin[c].found : Unlocked(c, i, 0)
    BY DEF RemoveRow
  <1>3. t \in Table /\ \A i \in Ids : t[i] = IF i \in admin[c].found THEN Gone ELSE Sees(c)[i]
    BY <1>1 DEF Table
  <1> HIDE DEF t
  <1>4. Tidy(t)
    BY <1>1, <1>3, Fewer
  <1>5. CASE Transactional
    <2>1. \A i \in Ids : t[i] # Sees(c)[i] =>
            t[i] = Gone /\ \A d \in Admins \ {c} : \A j \in admin[d].locks : i # j
      BY <1>2, <1>3 DEF Unlocked
    <2>2. QED
      BY <1>1, <1>2, <1>4, <1>5, <2>1, KeptApply DEF Ongoing
  <1>6. CASE ~Transactional
    <2> DEFINE m == [admin[c] EXCEPT !.pc = "select"]
    <2>1. admin' = [admin EXCEPT ![c] = m] /\ configs' = t
      BY <1>1, <1>2, <1>6 DEF Apply
    <2>2. m \in Memory /\ m.saving = admin[c].saving /\ m.mem = admin[c].mem /\ m.locks = {}
      <3>1. admin[c] \in Memory /\ admin[c].locks = {}
        BY <1>1, <1>6 DEF Kept
      <3>2. QED
        BY <3>1 DEF Memory, Ongoing
    <2> HIDE DEF m
    <2>3. admin' \in [Admins -> Memory] /\ admin'[c] = m /\ \A d \in Admins : d # c => admin'[d] = admin[d]
      BY <1>1, <2>1, <2>2
    <2>4. Saves(c)'
      BY <2>2, <2>3 DEF Kept, Saves, Apart
    <2>5. QED
      BY <1>1, <1>4, <1>6, <2>1, <2>2, <2>3, <2>4, KeptSwap
  <1>7. QED
    BY <1>5, <1>6

LEMMA KeptWrite == ASSUME Kept, NEW c \in Admins, Write(c) PROVE Kept'
  <1>1. /\ Saves(c) /\ Tidy(Sees(c)) /\ UNCHANGED <<faults, overlap>>
        /\ faults' \in 0 .. MaxFaults
    BY DEF Kept, Write
  <1>2. /\ \A i \in ToSet(WriteOrder(c)) : Unlocked(c, i, admin[c].mem[i].order)
        /\ IF Saved(c).dup THEN Fails(c)
           ELSE IF Transactional THEN Apply(c, Saved(c).t, "commit")
           ELSE Ends(c, "done") /\ configs' = Saved(c).t
    BY DEF Write, Saved, Start
  <1>3. CASE Saved(c).dup
    BY <1>1, <1>2, <1>3, KeptFails
  <1>4. CASE ~Saved(c).dup
    <2>1. PICK t : t = Saved(c).t
      OBVIOUS
    <2>2. /\ Tidy(t) /\ t \in Table
          /\ \A i \in Ids : \/ t[i] = Sees(c)[i]
                            \/ /\ i \in ToSet(WriteOrder(c))
                               /\ t[i] \in Row
                               /\ t[i].order \in {admin[c].mem[i].order, Sees(c)[i].order}
      BY <1>1, <1>4, <2>1, SaveKeeps DEF Tidy
    <2>3. CASE Transactional
      <3>1. ASSUME NEW i \in Ids, t[i] # Sees(c)[i], NEW d \in Admins \ {c}, NEW j \in admin[d].locks
            PROVE  /\ i # j
                   /\ t[i].order # Sees(c)[i].order => t[i].order \notin {configs[j].order, admin[d].mine[j].order}
        <4>1. /\ i \in ToSet(WriteOrder(c)) /\ t[i] \in Row
              /\ t[i].order \in {admin[c].mem[i].order, Sees(c)[i].order}
          BY <2>2, <3>1
        <4>2. t[i].order # 0
          BY <4>1, Kinds
        <4>3. QED
          BY <1>2, <3>1, <4>1, <4>2 DEF Unlocked
      <3>2. QED
        BY <1>1, <1>2, <1>4, <2>1, <2>2, <2>3, <3>1, KeptApply DEF Ongoing
    <2>4. CASE ~Transactional
      BY <1>1, <1>2, <1>4, <2>1, <2>2, <2>4, KeptEnds, KeptSwap
    <2>5. QED
      BY <2>3, <2>4
  <1>5. QED
    BY <1>3, <1>4

LEMMA KeptInit == ConfigInit => Kept
  <1>1. SUFFICES ASSUME ConfigInit PROVE Kept
    OBVIOUS
  <1>2. Tidy(configs)
    BY InitTable, <1>1 DEF Tidy
  <1>3. admin \in [Admins -> Memory] /\ \A c \in Admins : admin[c].locks = {} /\ admin[c].saving = {}
    <2>1. IdleAdmin.locks = {} /\ IdleAdmin.saving = {}
      BY DEF IdleAdmin
    <2>2. admin = [c \in Admins |-> IdleAdmin]
      BY <1>1 DEF ConfigInit
    <2>3. QED
      BY <2>1, <2>2, IdleType
  <1>4. \A c \in Admins : Sees(c) = configs
    BY <1>2, <1>3, SeesAll DEF Tidy
  <1>5. \A c \in Admins : Saves(c)
    BY <1>3, FS_EmptySet DEF Saves, Apart
  <1>6. faults \in 0 .. MaxFaults /\ overlap \in BOOLEAN
    <2>1. faults = 0 /\ overlap = FALSE
      BY <1>1 DEF ConfigInit
    <2>2. 0 \in 0 .. MaxFaults
      BY FaultsAssumption
    <2>3. QED
      BY <2>1, <2>2
  <1>7. QED
    BY <1>2, <1>3, <1>4, <1>5, <1>6 DEF Kept, Held

LEMMA KeptNext == ASSUME Kept, [ConfigNext]_configVars PROVE Kept'
  <1>1. CASE UNCHANGED configVars
    <2>1. UNCHANGED <<configs, admin, faults, overlap>>
      BY <1>1 DEF configVars
    <2>2. \A c \in Admins : Tidy(Sees(c))'
      <3>1. TAKE c \in Admins
      <3>2. PICK u : u = Sees(c)'
        OBVIOUS
      <3>3. Tidy(u)
        BY <2>1, <3>2 DEF Kept, Sees
      <3>4. QED
        BY <3>2, <3>3
    <2>3. \A c \in Admins : Saves(c)'
      BY <2>1 DEF Kept, Saves, Apart
    <2>4. QED
      BY <2>1, <2>2, <2>3 DEF Kept, Held
  <1>2. CASE ConfigNext
    <2>1. PICK c \in Admins : AdminStep(c)
      BY <1>2 DEF ConfigNext
    <2>2. CASE \/ \E on \in BOOLEAN : AddRead(c, on)
               \/ \E i \in Ids, on \in BOOLEAN : UpdateRead(c, i, on)
               \/ \E i \in Ids : DeleteRead(c, i)
      BY <2>2, KeptReads
    <2>3. CASE DeleteReadAll(c)
      BY <2>3, KeptReadAll
    <2>4. CASE RemoveRow(c)
      BY <2>4, KeptRemove
    <2>5. CASE Select(c)
      BY <2>5, KeptSelect
    <2>6. CASE Write(c)
      BY <2>6, KeptWrite
    <2>7. CASE CommitAll(c)
      BY <2>7, KeptCommit
    <2>8. CASE GiveUp(c)
      <3>1. faults' \in 0 .. MaxFaults
        BY <2>8, FaultsAssumption DEF Kept, GiveUp
      <3>2. QED
        BY <2>8, <3>1, KeptFails DEF GiveUp
    <2>9. QED
      BY <2>1, <2>2, <2>3, <2>4, <2>5, <2>6, <2>7, <2>8 DEF AdminStep
  <1>3. QED
    BY <1>1, <1>2

\* Type correctness: the configuration and what administrators' calls remember
\* of it have their types in every state, on both kinds of tenants, however
\* calls overlap.
THEOREM ConfigTypes == ConfigSpec => []ConfigTypeOK
  <1>1. ConfigInit => Kept
    BY KeptInit
  <1>2. Kept /\ [ConfigNext]_configVars => Kept'
    BY KeptNext
  <1>3. Kept => ConfigTypeOK
    BY DEF Kept, Tidy, ConfigTypeOK, Memory
  <1>4. QED
    BY <1>1, <1>2, <1>3, PTL DEF ConfigSpec

\* No two committed steps have one number, whatever calls overlap, are refused
\* or are cut off: the checks of single rows and the rows that transactions hold
\* add up to the unique index of workflow_configs.
THEOREM OrdersApart == ConfigSpec => [](\A i, j \in Present(configs) : configs[i].order = configs[j].order => i = j)
  <1>1. ConfigInit => Kept
    BY KeptInit
  <1>2. Kept /\ [ConfigNext]_configVars => Kept'
    BY KeptNext
  <1>3. Kept => \A i, j \in Present(configs) : configs[i].order = configs[j].order => i = j
    BY DEF Kept, Tidy, Apart
  <1>4. QED
    BY <1>1, <1>2, <1>3, PTL DEF ConfigSpec
=============================================================================

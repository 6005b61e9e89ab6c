----------------------------- MODULE DayRequests -----------------------------
(***************************************************************************)
(* The leave, work-from-home and overtime requests of one employee         *)
(* (leave.service.ts, wfh/wfh.service.ts, overtime/overtime.service.ts and *)
(* the listeners beside them).                                             *)
(*                                                                         *)
(* Each kind has a table of its own, and what keeps two requests off the   *)
(* same day are queries before the insertion or the edit.  Home and        *)
(* overtime requests open a workflow, in a transaction of its own, and a   *)
(* listener carries the workflow's verdict back.  On a provisioned tenant  *)
(* an operation is one transaction, otherwise every save commits.  How a   *)
(* workflow is decided is WorkflowEngine's subject, and how a leave is     *)
(* LeaveApproval's.                                                        *)
(***************************************************************************)
EXTENDS Integers, FiniteSets

CONSTANTS
  Calls,        \* operations in progress
  Listeners,    \* listeners in progress
  N,            \* requests of the employee
  MaxOverlaps,  \* bound: operations that begin while another is in progress
  MaxFaults     \* bound: transactions that abort, listeners that fail

ASSUME NamesAssumption == Calls \intersect Listeners = {}
ASSUME NAssumption == N \in Nat
ASSUME BoundsAssumption == MaxOverlaps \in Nat /\ MaxFaults \in Nat

VARIABLES
  provisioned,  \* tenants.schema_provisioned of the tenant
  row,          \* the three tables: committed rows
  wf,           \* workflow_requests: status of the workflow of each request
  events,       \* verdicts whose listener has not run
  call,         \* progress of each call, with the row in its memory
  edited,       \* history: requests that were moved to other days
  overruled,    \* history: verdicts that a save of a stale copy overwrote
  overlaps, faults

vars == <<provisioned, row, wf, events, call, edited, overruled, overlaps, faults>>
history == <<edited, overruled>>

-----------------------------------------------------------------------------
\* Overtime is for weekends, a leave has a working day; requests of one day
\* and one longer kind are enough for every way to share a day.
Spans == [leave    |-> {{"mon"}, {"sat", "mon"}},
          wfh      |-> {{"sat"}, {"mon"}},
          overtime |-> {{"sat"}}]

Kinds    == DOMAIN Spans
Statuses == {"pending", "processing", "approved", "rejected", "cancelled"}
NoRow    == [kind |-> "none", span |-> {}, status |-> "none", linked |-> FALSE]
Row      == [kind : Kinds, span : SUBSET {"sat", "mon"}, status : Statuses, linked : BOOLEAN]

Verdicts == {"approved", "rejected"}

PCs == {"idle", "insert", "workflow", "link", "cancel", "cancelWf", "saveWf", "edit",
        "decide", "mark"}

Requests  == 1 .. N
Processes == Calls \union Listeners

NoCall == [pc |-> "idle", q |-> 0, mem |-> NoRow]

At(c, pc) == call[c].pc = pc
To(c, pc) == call' = [call EXCEPT ![c].pc = pc]
Done(c)   == call' = [call EXCEPT ![c] = NoCall]

Busy  == events # {} \/ \E c \in Processes : ~At(c, "idle")
raced == overlaps > 0

Overlap == /\ Busy => overlaps < MaxOverlaps
           /\ overlaps' = IF Busy THEN overlaps + 1 ELSE overlaps

Fault == faults < MaxFaults /\ faults' = faults + 1

Begin(c, q, pc, mem) ==
  /\ At(c, "idle")
  /\ call' = [call EXCEPT ![c] = [pc |-> pc, q |-> q, mem |-> mem]]
  /\ Overlap

Write(q, mem) == row' = [row EXCEPT ![q] = mem]

Exists(q) == row[q] # NoRow

\* save() of an entity that was read: the verdict of a call that committed in
\* between is lost.
SaveWorkflow(q, status) ==
  /\ wf' = [wf EXCEPT ![q] = status]
  /\ overruled' = overruled \union ({<<q, wf[q]>>} \intersect (Requests \X Verdicts))

-----------------------------------------------------------------------------
(* Creation *)

Blocks(kind, statuses, span) ==
  \E q \in Requests : /\ row[q].kind = kind
                      /\ row[q].status \in statuses
                      /\ row[q].span \intersect span # {}

\* A leave is not blocked by a leave that is still pending.
Taken(kind, span) ==
  \/ Blocks("leave", IF kind = "leave" THEN {"processing", "approved"}
                     ELSE {"pending", "processing", "approved"}, span)
  \/ \E k \in {"wfh", "overtime"} : Blocks(k, {"pending", "approved"}, span)

Used(q) == row[q] # NoRow \/ wf[q] # "none" \/ \E c \in Calls : call[c].q = q
New(q)  == ~Used(q) /\ \A p \in 1 .. q - 1 : Used(p)

\* Mutant: home requests do not ask the overtime table.
MutCreateRead(c, q) ==
  /\ New(q)
  /\ \E kind \in Kinds : \E span \in Spans[kind] :
       /\ ~(IF kind = "wfh" THEN \E k \in {"leave", "wfh"} : Blocks(k, {"pending", "approved"}, span)
                            ELSE Taken(kind, span))
       /\ Begin(c, q, "insert", [kind |-> kind, span |-> span, status |-> "pending", linked |-> FALSE])
  /\ UNCHANGED <<provisioned, row, wf, events, history, faults>>

CreateRead(c, q) ==
  /\ New(q)
  /\ \E kind \in Kinds : \E span \in Spans[kind] :
       /\ ~Taken(kind, span)
       /\ \E st \in IF kind = "leave" THEN {"pending", "processing"} ELSE {"pending"} :
            Begin(c, q, "insert", [kind |-> kind, span |-> span, status |-> st, linked |-> FALSE])
  /\ UNCHANGED <<provisioned, row, wf, events, history, faults>>

\* A leave without workflow is complete here, in both modes.
Insert(c) ==
  LET q == call[c].q
      mem == call[c].mem IN
  /\ At(c, "insert")
  /\ IF mem.kind = "leave" THEN Write(q, mem) /\ Done(c)
     ELSE /\ To(c, "workflow")
          /\ IF provisioned THEN UNCHANGED row ELSE Write(q, mem)
  /\ UNCHANGED <<provisioned, wf, events, history, overlaps, faults>>

\* createWorkflowRequest may throw, for one when nothing is configured.
OpenWorkflow(c) ==
  /\ At(c, "workflow")
  /\ \/ wf' = [wf EXCEPT ![call[c].q] = "open"] /\ To(c, "link")
     \/ Done(c) /\ UNCHANGED wf
  /\ UNCHANGED <<provisioned, row, events, history, overlaps, faults>>

\* Mutant: the workflow's id is assigned and not saved.
MutLink(c) ==
  /\ At(c, "link")
  /\ Done(c)
  /\ UNCHANGED <<provisioned, row, wf, events, history, overlaps, faults>>

\* The notification that follows asks employees for tenant_id, a column it does
\* not have.  The error is caught, but the COMMIT of a provisioned tenant's
\* transaction then rolls back: the row is gone, the workflow stays.
Link(c) ==
  /\ At(c, "link")
  /\ IF provisioned THEN UNCHANGED row
                    ELSE Write(call[c].q, [call[c].mem EXCEPT !.linked = TRUE])
  /\ Done(c)
  /\ UNCHANGED <<provisioned, wf, events, history, overlaps, faults>>

-----------------------------------------------------------------------------
(* cancelWfhRequest and cancelOvertimeRequest.  A provisioned tenant has no *)
(* such rows, so that every save here commits on its own.                   *)

CancelRead(c, q) ==
  /\ row[q].kind \in {"wfh", "overtime"} /\ row[q].status = "pending"
  /\ Begin(c, q, "cancel", [row[q] EXCEPT !.status = "cancelled"])
  /\ UNCHANGED <<provisioned, row, wf, events, history, faults>>

CancelSave(c) ==
  /\ At(c, "cancel")
  /\ Write(call[c].q, call[c].mem)
  /\ IF call[c].mem.linked THEN To(c, "cancelWf") ELSE Done(c)
  /\ UNCHANGED <<provisioned, wf, events, history, overlaps, faults>>

\* cancelWorkflowRequest leaves alone a workflow that it reads as decided.
CancelWorkflow(c) ==
  /\ At(c, "cancelWf")
  /\ IF wf[call[c].q] \in Verdicts THEN Done(c) ELSE To(c, "saveWf")
  /\ UNCHANGED <<provisioned, row, wf, events, history, overlaps, faults>>

CancelWorkflowSave(c) ==
  /\ At(c, "saveWf")
  /\ SaveWorkflow(call[c].q, "cancelled")
  /\ Done(c)
  /\ UNCHANGED <<provisioned, row, events, edited, overlaps, faults>>

-----------------------------------------------------------------------------
(* editWfhRequest, editOvertimeRequest and editLeave; an attachment is       *)
(* removed by a save of the same kind.                                      *)

\* Only the request's own kind is asked about new days, and for an
\* administrator who edits a leave it is the administrator's leaves.  An edit
\* that leaves the days alone, or removes an attachment, asks nothing.
Others(q, statuses, span) ==
  /\ span # row[q].span
  /\ \E p \in Requests \ {q} : /\ row[p].kind = row[q].kind /\ row[p].status \in statuses
                               /\ row[p].span \intersect span # {}

Movable(q, admin, span) ==
  IF row[q].kind = "leave"
  THEN /\ row[q].status # "approved"
       /\ admin \/ /\ row[q].status # "processing"
                   /\ ~Others(q, {"pending", "processing", "approved"}, span)
  ELSE row[q].status = "pending" /\ ~Others(q, {"pending", "approved"}, span)

EditRead(c, q) ==
  /\ Exists(q)
  /\ \E admin \in BOOLEAN, span \in Spans[row[q].kind] :
       /\ Movable(q, admin, span)
       /\ Begin(c, q, "edit", [row[q] EXCEPT !.span = span])
  /\ UNCHANGED <<provisioned, row, wf, events, history, faults>>

EditSave(c) ==
  LET q == call[c].q IN
  /\ At(c, "edit")
  /\ Write(q, call[c].mem)
  /\ edited' = IF call[c].mem.span = row[q].span THEN edited ELSE edited \union {q}
  /\ Done(c)
  /\ UNCHANGED <<provisioned, wf, events, overruled, overlaps, faults>>

-----------------------------------------------------------------------------
(* The verdict of a workflow and its listener *)

\* actOnCurrentStep on the last step: it reads the workflow and saves it later.
DecideRead(c, q) ==
  /\ wf[q] = "open"
  /\ Begin(c, q, "decide", NoRow)
  /\ UNCHANGED <<provisioned, row, wf, events, history, faults>>

\* It emits before it commits; the transaction may still abort.
DecideSave(c) ==
  LET q == call[c].q IN
  /\ At(c, "decide")
  /\ \E v \in Verdicts :
       /\ events' = events \union {<<q, v>>}
       /\ \/ SaveWorkflow(q, v) /\ UNCHANGED faults
          \/ provisioned /\ Fault /\ UNCHANGED <<wf, overruled>>
  /\ Done(c)
  /\ UNCHANGED <<provisioned, row, edited, overlaps>>

\* Mutant: rejections are carried out as approvals.
MutMarkRead(c, q, v) ==
  /\ <<q, v>> \in events
  /\ events' = events \ {<<q, v>>}
  /\ At(c, "idle") /\ Exists(q)
  /\ call' = [call EXCEPT ![c] = [pc |-> "mark", q |-> q, mem |-> [row[q] EXCEPT !.status = "approved"]]]
  /\ UNCHANGED <<provisioned, row, wf, history, overlaps, faults>>

\* markApproved and markRejected: a row that is not there ends them silently,
\* and so does an error.
MarkRead(c, q, v) ==
  /\ <<q, v>> \in events
  /\ events' = events \ {<<q, v>>}
  /\ \/ /\ At(c, "idle") /\ Exists(q)
        /\ call' = [call EXCEPT ![c] = [pc |-> "mark", q |-> q, mem |-> [row[q] EXCEPT !.status = v]]]
        /\ UNCHANGED faults
     \/ ~Exists(q) /\ UNCHANGED <<call, faults>>
     \/ Fault /\ UNCHANGED call
  /\ UNCHANGED <<provisioned, row, wf, history, overlaps>>

MarkSave(c) ==
  /\ At(c, "mark")
  /\ Write(call[c].q, call[c].mem)
  /\ Done(c)
  /\ UNCHANGED <<provisioned, wf, events, history, overlaps, faults>>

\* approveLeave, rejectLeave and cancelLeave, see LeaveApproval.
DecideLeave(q) ==
  /\ row[q].kind = "leave" /\ row[q].status \in {"pending", "processing"}
  /\ Overlap
  /\ \E st \in Statuses \ {"pending", row[q].status} : Write(q, [row[q] EXCEPT !.status = st])
  /\ UNCHANGED <<provisioned, wf, events, call, history, faults>>

-----------------------------------------------------------------------------
Init ==
  /\ provisioned \in BOOLEAN
  /\ row = [q \in Requests |-> NoRow]
  /\ wf = [q \in Requests |-> "none"]
  /\ events = {}
  /\ call = [c \in Processes |-> NoCall]
  /\ edited = {} /\ overruled = {} /\ overlaps = 0 /\ faults = 0

Start(c, q) == CreateRead(c, q) \/ CancelRead(c, q) \/ EditRead(c, q) \/ DecideRead(c, q)

Step(c) ==
  \/ Insert(c) \/ OpenWorkflow(c) \/ Link(c)
  \/ CancelSave(c) \/ CancelWorkflow(c) \/ CancelWorkflowSave(c)
  \/ EditSave(c) \/ DecideSave(c) \/ MarkSave(c)

Listen(q, v) == \E c \in Listeners : MarkRead(c, q, v)

Next ==
  \/ \E c \in Processes : Step(c)
  \/ \E q \in Requests : \/ DecideLeave(q)
                         \/ \E c \in Calls : Start(c, q)
                         \/ \E v \in Verdicts : Listen(q, v)

Spec == Init /\ [][Next]_vars

\* Operations that began go on and the listeners run; nobody has to decide.
Fairness ==
  /\ \A c \in Processes : WF_vars(Step(c))
  /\ \A q \in Requests, v \in Verdicts : WF_vars(Listen(q, v))

FairSpec == Spec /\ Fairness

-----------------------------------------------------------------------------
(* Properties *)

TypeOK ==
  /\ provisioned \in BOOLEAN
  /\ row \in [Requests -> Row \union {NoRow}]
  /\ wf \in [Requests -> {"none", "open", "approved", "rejected", "cancelled"}]
  /\ events \subseteq Requests \X Verdicts
  /\ call \in [Processes -> [pc : PCs, q : 0 .. N, mem : Row \union {NoRow}]]
  /\ edited \subseteq Requests /\ overruled \subseteq Requests \X Verdicts
  /\ overlaps \in 0 .. MaxOverlaps /\ faults \in 0 .. MaxFaults

Holds(q) == row[q].status \in {"pending", "processing", "approved"}
Clash(p, q) == p # q /\ Holds(p) /\ Holds(q) /\ row[p].span \intersect row[q].span # {}

\* "You already have ... on these dates": as long as operations do not overlap,
\* two requests share a day only if both are leaves, which pending leaves do
\* not prevent, or if one was moved, which asks its own kind only.
UnracedDaysApart ==
  ~raced /\ faults = 0 =>
    \A p, q \in Requests : Clash(p, q) =>
      \/ row[p].kind = "leave" /\ row[q].kind = "leave"
      \/ row[p].kind # row[q].kind /\ {p, q} \intersect edited # {}

\* Whatever overlaps, a home or overtime request is only approved by the
\* approval of its workflow, and no stale save revives one: the workflow shows
\* that approval until a cancellation or a second verdict that had read it
\* undecided saves over it.
ApprovedByWorkflow ==
  faults = 0 =>
    \A q \in Requests :
      row[q].kind \in {"wfh", "overtime"} /\ row[q].status = "approved" =>
        wf[q] = "approved" \/ <<q, "approved">> \in overruled

\* When no operation overlapped another and none failed, every workflow of a
\* legacy tenant belongs to a request that knows it and has the status it gave;
\* on a provisioned tenant it belongs to none.
UnracedAgree ==
  ~raced /\ faults = 0 /\ ~Busy =>
    \A q \in Requests : wf[q] # "none" =>
      IF provisioned THEN ~Exists(q)
      ELSE row[q].linked /\ row[q].status = IF wf[q] = "open" THEN "pending" ELSE wf[q]

\* The verdict reaches the request of a legacy tenant, unless operations
\* overlapped or failed.
VerdictCarriedOut ==
  \A q \in Requests, v \in Verdicts :
    wf[q] = v /\ ~provisioned ~> (row[q].status = v \/ raced \/ faults > 0)
=============================================================================

------------------------- MODULE DayRequests_proofs -------------------------
(***************************************************************************)
(* Proofs about DayRequests for every number of requests, concurrent       *)
(* operations and listeners, both transaction modes and every bound.       *)
(***************************************************************************)
EXTENDS DayRequests, TLAPS

(* The strengthening.  An approval in a row, or in the memory of an         *)
(* operation that will save it, was given by the workflow; it stays given,  *)
(* if only among the overruled verdicts, because the one call that opens a  *)
(* workflow has not opened it before and every later save notes what it     *)
(* overwrites.                                                              *)

Approved(mem) == mem.kind \in {"wfh", "overtime"} /\ mem.status = "approved"

Given(q) == wf[q] = "approved" \/ <<q, "approved">> \in overruled

Creating(c) == call[c].pc \in {"insert", "workflow"}

OpenedOnce ==
  /\ \A c \in Calls : Creating(c) => call[c].q \in Requests /\ wf[call[c].q] = "none"
  /\ \A c, d \in Calls : Creating(c) /\ Creating(d) /\ call[c].q = call[d].q => c = d
  /\ \A c \in Listeners : call[c].pc \in {"idle", "mark"}

\* Where an operation, or a row, knows a workflow, it was opened.
Opens == {"link", "cancelWf", "saveWf", "decide"}

Opened ==
  /\ \A q \in Requests : row[q].linked => wf[q] # "none"
  /\ \A c \in Processes : call[c].mem.linked \/ call[c].pc \in Opens => wf[call[c].q] # "none"

Grounded ==
  /\ \A q \in Requests : Approved(row[q]) => Given(q)
  /\ \A c \in Processes : Approved(call[c].mem) => Given(call[c].q)
  /\ \A q \in Requests : <<q, "approved">> \in events => Given(q)

\* A call in progress is about one of the requests and, unless it decides its
\* workflow, remembers a row.
Named ==
  \A c \in Processes :
    /\ At(c, "idle") \/ At(c, "decide") => call[c].mem = NoRow
    /\ ~At(c, "idle") => call[c].q \in Requests
    /\ ~At(c, "idle") /\ ~At(c, "decide") => call[c].mem \in Row

IInv == TypeOK /\ Named /\ OpenedOnce /\ Opened /\ (faults = 0 => Grounded)

-----------------------------------------------------------------------------
(* Lemmas *)

\* What is read and changed in one column is a row still.
LEMMA RowType ==
  /\ \A r \in Row, st \in Statuses, sp \in SUBSET {"sat", "mon"} :
       /\ [r EXCEPT !.status = st] \in Row
       /\ [r EXCEPT !.span = sp] \in Row
       /\ [r EXCEPT !.linked = TRUE] \in Row
  /\ \A k \in Kinds : Spans[k] \subseteq SUBSET {"sat", "mon"}
  /\ Kinds = {"leave", "wfh", "overtime"}
  /\ NoRow.kind = "none" /\ NoRow.status = "none" /\ ~NoRow.linked /\ NoRow \notin Row
  <1>1. Kinds = {"leave", "wfh", "overtime"}
    BY DEF Kinds, Spans
  <1>2. Spans["leave"] = {{"mon"}, {"sat", "mon"}} /\ Spans["wfh"] = {{"sat"}, {"mon"}} /\ Spans["overtime"] = {{"sat"}}
    BY DEF Spans
  <1>3. \A k \in Kinds : Spans[k] \subseteq SUBSET {"sat", "mon"}
    BY <1>1, <1>2
  <1>4. NoRow.kind = "none" /\ NoRow.status = "none" /\ ~NoRow.linked /\ NoRow \notin Row
    BY <1>1 DEF NoRow, Row
  <1>5. \A r \in Row, st \in Statuses, sp \in SUBSET {"sat", "mon"} :
          /\ [r EXCEPT !.status = st] \in Row
          /\ [r EXCEPT !.span = sp] \in Row
          /\ [r EXCEPT !.linked = TRUE] \in Row
    BY DEF Row
  <1>6. QED
    BY <1>1, <1>3, <1>4, <1>5

\* An operation begins: it was idle, and no other process changes.
LEMMA BeginCall ==
  ASSUME TypeOK, Named, NEW c \in Processes, NEW q \in Requests, NEW pc \in PCs \ {"idle"},
         NEW mem \in Row \union {NoRow}, pc = "decide" <=> mem = NoRow,
         Begin(c, q, pc, mem)
  PROVE  /\ call' \in [Processes -> [pc : PCs, q : 0 .. N, mem : Row \union {NoRow}]]
         /\ At(c, "idle") /\ call'[c] = [pc |-> pc, q |-> q, mem |-> mem]
         /\ \A d \in Processes : d # c => call'[d] = call[d]
         /\ overlaps' \in 0 .. MaxOverlaps /\ Named'
  <1>1. /\ call' \in [Processes -> [pc : PCs, q : 0 .. N, mem : Row \union {NoRow}]]
        /\ At(c, "idle") /\ call'[c] = [pc |-> pc, q |-> q, mem |-> mem]
        /\ \A d \in Processes : d # c => call'[d] = call[d]
    BY NAssumption DEF TypeOK, Begin, Requests, At
  <1>2. overlaps' \in 0 .. MaxOverlaps
    BY BoundsAssumption DEF TypeOK, Begin, Overlap
  <1>3. Named'
    BY <1>1 DEF Named, At
  <1>4. QED
    BY <1>1, <1>2, <1>3

\* An operation goes on, or ends.
LEMMA MoveCall ==
  ASSUME TypeOK, Named, NEW c \in Processes, NEW pc \in PCs \ {"idle", "decide"}, ~At(c, "idle"),
         (To(c, pc) /\ ~At(c, "decide")) \/ Done(c)
  PROVE  /\ call' \in [Processes -> [pc : PCs, q : 0 .. N, mem : Row \union {NoRow}]]
         /\ call'[c] = [call[c] EXCEPT !.pc = pc] \/ call'[c] = NoCall
         /\ \A d \in Processes : d # c => call'[d] = call[d]
         /\ Named'
  <1>1. NoCall \in [pc : PCs, q : 0 .. N, mem : Row \union {NoRow}]
    BY NAssumption DEF NoCall, PCs
  <1>2. [call[c] EXCEPT !.pc = pc] \in [pc : PCs, q : 0 .. N, mem : Row \union {NoRow}]
    BY DEF TypeOK
  <1>3. /\ call' \in [Processes -> [pc : PCs, q : 0 .. N, mem : Row \union {NoRow}]]
        /\ (call'[c] = [call[c] EXCEPT !.pc = pc] /\ ~At(c, "decide")) \/ call'[c] = NoCall
        /\ \A d \in Processes : d # c => call'[d] = call[d]
    BY <1>1, <1>2 DEF TypeOK, To, Done
  <1>4. ASSUME NEW d \in Processes
        PROVE  /\ At(d, "idle")' \/ At(d, "decide")' => call'[d].mem = NoRow
               /\ ~At(d, "idle")' => call'[d].q \in Requests
               /\ ~At(d, "idle")' /\ ~At(d, "decide")' => call'[d].mem \in Row
    <2>1. CASE d = c /\ call'[c] = NoCall
      BY <2>1 DEF At, NoCall
    <2>2. CASE d = c /\ call'[c] = [call[c] EXCEPT !.pc = pc] /\ ~At(c, "decide")
      <3>1. call'[c].pc = pc /\ call'[c].q = call[c].q /\ call'[c].mem = call[c].mem
        BY <2>2 DEF TypeOK
      <3>2. QED
        BY <2>2, <3>1 DEF Named, At
    <2>3. CASE d # c
      BY <1>3, <2>3 DEF Named, At
    <2>4. QED
      BY <1>3, <2>1, <2>2, <2>3
  <1>5. QED
    BY <1>3, <1>4 DEF Named

\* A call that is to open a workflow is still the only one.
LEMMA OpenedKept ==
  ASSUME OpenedOnce,
         \A c \in Calls : \/ call'[c] = call[c]
                          \/ call'[c].pc \notin {"insert", "workflow"}
                          \/ Creating(c) /\ call'[c].q = call[c].q,
         \A c \in Listeners : call'[c].pc \in {"idle", "mark"},
         \A q \in Requests : wf[q] = "none" => wf'[q] = "none"
  PROVE  OpenedOnce'
  <1>1. \A c \in Calls : Creating(c)' => Creating(c) /\ call'[c].q = call[c].q
    BY DEF Creating
  <1>2. QED
    BY <1>1 DEF OpenedOnce, Creating

\* No workflow that was opened vanishes, and what is new about one knows it.
LEMMA StaysOpened ==
  ASSUME IInv,
         \A q \in Requests : wf[q] # "none" => wf'[q] # "none",
         \A q \in Requests : row'[q] = row[q] \/ (row'[q].linked => wf'[q] # "none"),
         \A c \in Processes : \/ call'[c] = call[c]
                              \/ call'[c].mem.linked \/ call'[c].pc \in Opens => wf'[call'[c].q] # "none"
  PROVE  Opened'
  <1>1. \A q \in Requests : row'[q].linked => wf'[q] # "none"
    BY DEF IInv, Opened
  <1>2. ASSUME NEW c \in Processes, call'[c].mem.linked \/ call'[c].pc \in Opens
        PROVE  wf'[call'[c].q] # "none"
    <2>1. CASE call'[c] = call[c]
      <3>1. ~At(c, "idle")
        BY <1>2, <2>1, RowType DEF IInv, Named, At, Opens
      <3>2. QED
        BY <1>2, <2>1, <3>1 DEF IInv, Named, Opened
    <2>2. QED
      BY <1>2, <2>1
  <1>3. QED
    BY <1>1, <1>2 DEF Opened

\* An approval that is saved, or read, was given.
LEMMA GroundedKept ==
  ASSUME IInv, faults' = 0 => faults = 0,
         faults' = 0 => \A q \in Requests : Given(q) => Given(q)',
         \A q \in Requests : row'[q] = row[q] \/ (faults' = 0 /\ Approved(row'[q]) => Given(q)'),
         \A c \in Processes : \/ call'[c].mem = call[c].mem /\ call'[c].q = call[c].q
                              \/ faults' = 0 => ~Approved(call'[c].mem)
                              \/ faults' = 0 => call'[c].q \in Requests /\ Given(call[c].q)',
         \A q \in Requests : <<q, "approved">> \in events' =>
            <<q, "approved">> \in events \/ (faults' = 0 => Given(q)')
  PROVE  faults' = 0 => Grounded'
  <1> SUFFICES ASSUME faults' = 0 PROVE Grounded'
    OBVIOUS
  <1>1. Grounded
    BY DEF IInv
  <1>2. \A q \in Requests : Approved(row'[q]) => Given(q)'
    BY <1>1 DEF Grounded
  <1>3. ASSUME NEW c \in Processes, Approved(call'[c].mem) PROVE Given(call[c].q)'
    <2>1. CASE call'[c].mem = call[c].mem /\ call'[c].q = call[c].q
      <3>1. Approved(call[c].mem) /\ Given(call[c].q)
        BY <1>1, <1>3, <2>1 DEF Grounded
      <3>2. call[c].q \in Requests
        BY <3>1, RowType DEF IInv, Named, At, Approved
      <3>3. PICK q \in Requests : q = call[c].q
        BY <3>2
      <3>4. Given(q) /\ call'[c].q = q
        BY <2>1, <3>1, <3>3 DEF Given
      <3>5. Given(q)'
        BY <3>4
      <3>6. QED
        BY <3>4, <3>5 DEF Given
    <2>2. CASE call'[c].q \in Requests /\ Given(call[c].q)'
      BY <2>2
    <2>3. QED
      BY <1>3, <2>1, <2>2
  <1>4. \A q \in Requests : <<q, "approved">> \in events' => Given(q)'
    BY <1>1 DEF Grounded
  <1>5. QED
    BY <1>2, <1>3, <1>4 DEF Grounded

\* A request that begins is new: nothing is open for it.
LEMMA CreateStep == ASSUME IInv, NEW c \in Calls, NEW q \in Requests, CreateRead(c, q) PROVE IInv'
  <1>1. PICK kind \in Kinds, span \in SUBSET {"sat", "mon"}, st \in {"pending", "processing"} :
          /\ kind # "leave" => st = "pending"
          /\ Begin(c, q, "insert", [kind |-> kind, span |-> span, status |-> st, linked |-> FALSE])
    BY RowType DEF CreateRead
  <1>2. PICK mem \in Row : Begin(c, q, "insert", mem) /\ ~Approved(mem) /\ ~mem.linked
    <2>1. [kind |-> kind, span |-> span, status |-> st, linked |-> FALSE] \in Row
      BY RowType DEF Row, Statuses
    <2>2. /\ ~Approved([kind |-> kind, span |-> span, status |-> st, linked |-> FALSE])
          /\ ~[kind |-> kind, span |-> span, status |-> st, linked |-> FALSE].linked
      BY <1>1 DEF Approved
    <2>3. QED
      BY <1>1, <2>1, <2>2
  <1>3. /\ wf[q] = "none" /\ \A d \in Calls : call[d].q # q
        /\ UNCHANGED <<provisioned, row, wf, events, edited, overruled, faults>>
    BY DEF CreateRead, New, Used, history
  <1>4. c \in Processes /\ "insert" \in PCs
    BY DEF Processes, PCs
  <1>5. /\ call' \in [Processes -> [pc : PCs, q : 0 .. N, mem : Row \union {NoRow}]]
        /\ At(c, "idle") /\ call'[c] = [pc |-> "insert", q |-> q, mem |-> mem]
        /\ \A d \in Processes : d # c => call'[d] = call[d]
        /\ overlaps' \in 0 .. MaxOverlaps /\ Named'
    BY <1>2, <1>4, RowType, BeginCall DEF IInv
  <1>6. TypeOK'
    BY <1>3, <1>5 DEF IInv, TypeOK
  <1>7. OpenedOnce'
    <2>1. \A d \in Calls : d # c => call'[d] = call[d]
      BY <1>5 DEF Processes
    <2>2. \A d \in Listeners : call'[d] = call[d]
      BY <1>5, NamesAssumption DEF Processes
    <2>3. QED
      BY <1>3, <1>5, <2>1, <2>2 DEF IInv, OpenedOnce, Creating
  <1>8. Opened'
    BY <1>2, <1>3, <1>5, StaysOpened DEF Opens
  <1>9. faults' = 0 => Grounded'
    <2>1. \A r \in Requests : Given(r)' <=> Given(r)
      BY <1>3 DEF Given
    <2>2. QED
      BY <1>2, <1>3, <1>5, <2>1, GroundedKept
  <1>10. QED
    BY <1>5, <1>6, <1>7, <1>8, <1>9 DEF IInv

\* An operation on a row that is there remembers it with a change; a decision
\* remembers no row, and finds the workflow open.
LEMMA ReadStep ==
  ASSUME IInv, NEW c \in Calls, NEW q \in Requests, NEW pc \in {"cancel", "edit", "decide"},
         NEW mem \in Row \union {NoRow}, Begin(c, q, pc, mem), pc = "decide" <=> mem = NoRow,
         ~Approved(mem), mem.linked \/ pc = "decide" => wf[q] # "none",
         UNCHANGED <<provisioned, row, wf, events, edited, overruled, faults>>
  PROVE  IInv'
  <1>1. c \in Processes /\ pc \in PCs \ {"idle"}
    BY DEF Processes, PCs
  <1>2. /\ call' \in [Processes -> [pc : PCs, q : 0 .. N, mem : Row \union {NoRow}]]
        /\ At(c, "idle") /\ call'[c] = [pc |-> pc, q |-> q, mem |-> mem]
        /\ \A d \in Processes : d # c => call'[d] = call[d]
        /\ overlaps' \in 0 .. MaxOverlaps /\ Named'
    BY <1>1, BeginCall DEF IInv
  <1>3. TypeOK'
    BY <1>2 DEF IInv, TypeOK
  <1>4. OpenedOnce'
    <2>1. \A d \in Calls : d # c => call'[d] = call[d]
      BY <1>2 DEF Processes
    <2>2. \A d \in Listeners : call'[d] = call[d]
      BY <1>2, NamesAssumption DEF Processes
    <2>3. QED
      BY <1>2, <2>1, <2>2, OpenedKept DEF IInv, OpenedOnce
  <1>5. Opened'
    BY <1>2, StaysOpened DEF Opens
  <1>6. faults' = 0 => Grounded'
    <2>1. \A r \in Requests : Given(r)' <=> Given(r)
      BY DEF Given
    <2>2. QED
      BY <1>2, <2>1, GroundedKept
  <1>7. QED
    BY <1>2, <1>3, <1>4, <1>5, <1>6 DEF IInv

\* A cancellation remembers the row as cancelled.
LEMMA CancelReadStep == ASSUME IInv, NEW c \in Calls, NEW q \in Requests, CancelRead(c, q) PROVE IInv'
  <1>1. row[q] \in Row
    BY RowType DEF IInv, TypeOK, CancelRead
  <1>2. PICK mem \in Row : mem = [row[q] EXCEPT !.status = "cancelled"]
    BY <1>1, RowType DEF Statuses
  <1>3. ~Approved(mem) /\ (mem.linked => wf[q] # "none")
    BY <1>1, <1>2 DEF Approved, Row, IInv, Opened
  <1>4. /\ Begin(c, q, "cancel", mem)
        /\ UNCHANGED <<provisioned, row, wf, events, edited, overruled, faults>>
    BY <1>2 DEF CancelRead, history
  <1>5. QED
    BY <1>3, <1>4, RowType, ReadStep

\* An edit of a home or overtime request remembers a pending row.
LEMMA EditReadStep == ASSUME IInv, NEW c \in Calls, NEW q \in Requests, EditRead(c, q) PROVE IInv'
  <1>1. row[q] \in Row
    BY DEF IInv, TypeOK, EditRead, Exists
  <1>2. PICK admin \in BOOLEAN, span \in Spans[row[q].kind] :
          Movable(q, admin, span) /\ Begin(c, q, "edit", [row[q] EXCEPT !.span = span])
    BY DEF EditRead
  <1>3. PICK r \in Row : r = row[q]
    BY <1>1
  <1>4. span \in SUBSET {"sat", "mon"}
    BY <1>2, <1>3, RowType DEF Row
  <1>5. PICK mem \in Row : mem = [r EXCEPT !.span = span]
    BY <1>4, RowType DEF Statuses
  <1>6. ~Approved(mem) /\ (mem.linked => wf[q] # "none")
    <2>1. mem.status = r.status /\ mem.kind = r.kind /\ mem.linked = r.linked
      BY <1>5 DEF Row
    <2>2. QED
      BY <1>2, <1>3, <2>1 DEF Approved, Movable, IInv, Opened
  <1>7. Begin(c, q, "edit", mem)
    BY <1>2, <1>3, <1>5
  <1>8. UNCHANGED <<provisioned, row, wf, events, edited, overruled, faults>>
    BY DEF EditRead, history
  <1>9. mem # NoRow
    BY RowType
  <1>10. QED
    BY <1>6, <1>7, <1>8, <1>9, ReadStep

\* A decision finds the workflow open.
LEMMA DecideReadStep == ASSUME IInv, NEW c \in Calls, NEW q \in Requests, DecideRead(c, q) PROVE IInv'
  <1>1. ~Approved(NoRow)
    BY RowType DEF Approved
  <1>2. UNCHANGED <<provisioned, row, wf, events, edited, overruled, faults>>
    BY DEF DecideRead, history
  <1>3. QED
    BY <1>1, <1>2, ReadStep DEF DecideRead

\* An operation that goes on: it may save the row it remembers, or that row
\* with its workflow, and does not open one.
LEMMA SaveStep ==
  ASSUME IInv, NEW c \in Processes, ~At(c, "idle"), ~At(c, "decide"),
         NEW pc \in PCs \ {"idle", "insert", "workflow", "decide"},
         To(c, pc) \/ Done(c), c \in Listeners => Done(c), pc \in Opens => wf[call[c].q] # "none",
         \/ UNCHANGED row
         \/ Write(call[c].q, call[c].mem)
         \/ Write(call[c].q, [call[c].mem EXCEPT !.linked = TRUE]) /\ At(c, "link"),
         edited' \subseteq Requests, UNCHANGED <<provisioned, wf, events, overruled, overlaps, faults>>
  PROVE  IInv'
  <1>1. call[c].q \in Requests /\ call[c].mem \in Row
    BY DEF IInv, Named
  <1>2. /\ call' \in [Processes -> [pc : PCs, q : 0 .. N, mem : Row \union {NoRow}]]
        /\ call'[c] = [call[c] EXCEPT !.pc = pc] \/ call'[c] = NoCall
        /\ \A d \in Processes : d # c => call'[d] = call[d]
        /\ Named'
    BY MoveCall DEF IInv
  <1>3. [call[c].mem EXCEPT !.linked = TRUE] \in Row
    BY <1>1 DEF Row
  <1>4. row' \in [Requests -> Row \union {NoRow}]
    BY <1>1, <1>3 DEF IInv, TypeOK, Write
  <1>5. TypeOK'
    BY <1>2, <1>4 DEF IInv, TypeOK
  <1>6. (call'[c].pc = pc /\ call'[c].q = call[c].q /\ call'[c].mem = call[c].mem) \/ call'[c] = NoCall
    BY <1>2 DEF IInv, TypeOK
  <1>7. OpenedOnce'
    <2>1. \A d \in Calls : call'[d] = call[d] \/ call'[d].pc \notin {"insert", "workflow"}
      BY <1>2, <1>6 DEF Processes, NoCall
    <2>2. \A d \in Listeners : call'[d].pc \in {"idle", "mark"}
      BY <1>2 DEF IInv, OpenedOnce, Processes, Done, NoCall, TypeOK
    <2>3. QED
      BY <2>1, <2>2, OpenedKept DEF IInv
  <1>8. Opened'
    <2>1. NoCall.pc = "idle" /\ ~NoCall.mem.linked
      BY RowType DEF NoCall
    <2>2. call'[c].mem.linked \/ call'[c].pc \in Opens => wf'[call'[c].q] # "none"
      BY <1>6, <2>1 DEF IInv, Opened, Opens
    <2>3. At(c, "link") => wf[call[c].q] # "none"
      BY DEF IInv, Opened, Opens, At
    <2>4. \A q \in Requests : row'[q] = row[q] \/ (row'[q].linked => wf'[q] # "none")
      BY <1>1, <2>3 DEF IInv, TypeOK, Opened, Write
    <2>5. QED
      BY <1>2, <2>2, <2>4, StaysOpened
  <1>9. faults' = 0 => Grounded'
    <2>1. PICK q \in Requests, mem \in Row : q = call[c].q /\ mem = call[c].mem
      BY <1>1
    <2>2. faults = 0 /\ Approved(mem) => Given(q)
      BY <2>1 DEF IInv, Grounded
    <2>3. \A r \in Requests : Given(r)' <=> Given(r)
      BY DEF Given
    <2>4. Approved([mem EXCEPT !.linked = TRUE]) => Approved(mem)
      BY DEF Approved, Row
    <2>5. \A r \in Requests : row'[r] = row[r] \/ (r = q /\ (Approved(row'[r]) => Approved(mem)))
      BY <2>1, <2>4 DEF IInv, TypeOK, Write
    <2>6. ~Approved(NoCall.mem)
      BY RowType DEF NoCall, Approved
    <2>7. \A d \in Processes : \/ call'[d].mem = call[d].mem /\ call'[d].q = call[d].q
                               \/ ~Approved(call'[d].mem)
      BY <1>2, <1>6, <2>6
    <2>8. QED
      BY <2>2, <2>3, <2>5, <2>7, GroundedKept
  <1>10. QED
    BY <1>2, <1>5, <1>7, <1>8, <1>9 DEF IInv

\* A new row is inserted, or kept for the end of the transaction.
LEMMA InsertStep == ASSUME IInv, NEW c \in Processes, Insert(c) PROVE IInv'
  <1>1. /\ ~At(c, "idle") /\ ~At(c, "decide") /\ c \in Calls
        /\ UNCHANGED <<provisioned, wf, events, edited, overruled, overlaps, faults>>
    BY DEF IInv, OpenedOnce, Insert, At, Processes, history
  <1>2. CASE Done(c)
    <2>1. "edit" \in PCs \ {"idle", "insert", "workflow", "decide"} /\ "edit" \notin Opens
      BY DEF PCs, Opens
    <2>2. edited' \subseteq Requests
      BY <1>1 DEF IInv, TypeOK
    <2>3. QED
      BY <1>1, <1>2, <2>1, <2>2, SaveStep DEF Insert
  <1>3. CASE To(c, "workflow")
    <2>1. "workflow" \in PCs \ {"idle", "decide"}
      BY DEF PCs
    <2>2. /\ call' \in [Processes -> [pc : PCs, q : 0 .. N, mem : Row \union {NoRow}]]
          /\ \A d \in Processes : d # c => call'[d] = call[d]
          /\ Named'
      BY <1>1, <1>3, <2>1, MoveCall DEF IInv
    <2>3. call'[c].pc = "workflow" /\ call'[c].q = call[c].q /\ call'[c].mem = call[c].mem
      BY <1>3 DEF IInv, TypeOK, To
    <2>4. call[c].q \in Requests /\ call[c].mem \in Row
      BY <1>1 DEF IInv, Named
    <2>5. row' = row \/ Write(call[c].q, call[c].mem)
      BY DEF Insert
    <2>6. TypeOK'
      BY <1>1, <2>2, <2>4, <2>5 DEF IInv, TypeOK, Write
    <2>7. OpenedOnce'
      <3>1. Creating(c)
        BY DEF Insert, At, Creating
      <3>2. \A d \in Calls : call'[d] = call[d] \/ (Creating(d) /\ call'[d].q = call[d].q)
        BY <2>2, <2>3, <3>1 DEF Processes
      <3>3. \A d \in Listeners : call'[d] = call[d]
        BY <1>1, <2>2, NamesAssumption DEF Processes
      <3>4. QED
        BY <1>1, <3>2, <3>3, OpenedKept DEF IInv, OpenedOnce
    <2>8. Opened'
      <3>1. call'[c].mem.linked \/ call'[c].pc \in Opens => wf'[call'[c].q] # "none"
        BY <1>1, <2>3 DEF IInv, Opened, Opens
      <3>2. \A q \in Requests : row'[q] = row[q] \/ (row'[q].linked => wf'[q] # "none")
        BY <1>1, <2>4, <2>5 DEF IInv, TypeOK, Opened, Write
      <3>3. QED
        BY <1>1, <2>2, <3>1, <3>2, StaysOpened
    <2>9. faults' = 0 => Grounded'
      <3>1. PICK q \in Requests, mem \in Row : q = call[c].q /\ mem = call[c].mem
        BY <2>4
      <3>2. faults = 0 /\ Approved(mem) => Given(q)
        BY <3>1 DEF IInv, Grounded
      <3>3. \A r \in Requests : Given(r)' <=> Given(r)
        BY <1>1 DEF Given
      <3>4. \A r \in Requests : row'[r] = row[r] \/ (r = q /\ row'[r] = mem)
        BY <2>5, <3>1 DEF IInv, TypeOK, Write
      <3>5. \A d \in Processes : call'[d].mem = call[d].mem /\ call'[d].q = call[d].q
        BY <2>2, <2>3
      <3>6. QED
        BY <1>1, <3>2, <3>3, <3>4, <3>5, GroundedKept
    <2>10. QED
      BY <2>2, <2>6, <2>7, <2>8, <2>9 DEF IInv
  <1>4. QED
    BY <1>2, <1>3 DEF Insert

\* The workflow of a request is opened by the one call that creates it, so
\* that no decided workflow is opened again.
LEMMA OpenStep == ASSUME IInv, NEW c \in Processes, OpenWorkflow(c) PROVE IInv'
  <1>1. /\ ~At(c, "idle") /\ ~At(c, "decide") /\ c \in Calls /\ Creating(c)
        /\ UNCHANGED <<provisioned, row, events, edited, overruled, overlaps, faults>>
    BY DEF IInv, OpenedOnce, OpenWorkflow, At, Processes, Creating, history
  <1>2. CASE Done(c) /\ UNCHANGED wf
    <2>1. "edit" \in PCs \ {"idle", "insert", "workflow", "decide"} /\ "edit" \notin Opens
      BY DEF PCs, Opens
    <2>2. edited' \subseteq Requests
      BY <1>1 DEF IInv, TypeOK
    <2>3. c \notin Listeners
      BY <1>1, NamesAssumption
    <2>4. QED
      BY <1>1, <1>2, <2>1, <2>2, <2>3, SaveStep
  <1>3. CASE wf' = [wf EXCEPT ![call[c].q] = "open"] /\ To(c, "link")
    <2>1. "link" \in PCs \ {"idle", "decide"}
      BY DEF PCs
    <2>2. /\ call' \in [Processes -> [pc : PCs, q : 0 .. N, mem : Row \union {NoRow}]]
          /\ \A d \in Processes : d # c => call'[d] = call[d]
          /\ Named'
      BY <1>1, <1>3, <2>1, MoveCall DEF IInv
    <2>3. call'[c].pc = "link" /\ call'[c].q = call[c].q /\ call'[c].mem = call[c].mem
      BY <1>3 DEF IInv, TypeOK, To
    <2>4. call[c].q \in Requests /\ wf[call[c].q] = "none"
      BY <1>1 DEF IInv, OpenedOnce
    <2>5. TypeOK'
      BY <1>1, <1>3, <2>2, <2>4 DEF IInv, TypeOK
    <2>6. OpenedOnce'
      <3>1. \A d \in Calls : Creating(d)' => d # c /\ call'[d] = call[d]
        BY <2>2, <2>3 DEF Creating, Processes
      <3>2. \A d \in Listeners : call'[d] = call[d]
        BY <1>1, <2>2, NamesAssumption DEF Processes
      <3>3. \A d \in Calls : Creating(d)' => call[d].q # call[c].q /\ Creating(d)
        BY <1>1, <3>1 DEF IInv, OpenedOnce, Creating
      <3>4. \A d \in Calls : Creating(d)' => call'[d].q \in Requests /\ wf'[call'[d].q] = "none"
        BY <1>3, <3>1, <3>3 DEF IInv, OpenedOnce, TypeOK
      <3>5. QED
        BY <3>1, <3>2, <3>3, <3>4 DEF IInv, OpenedOnce, Creating
    <2>7. wf'[call[c].q] = "open" /\ \A q \in Requests : wf'[q] = wf[q] \/ (wf[q] = "none" /\ wf'[q] = "open")
      BY <1>3, <2>4 DEF IInv, TypeOK
    <2>8. Opened'
      BY <1>1, <2>2, <2>3, <2>7, StaysOpened
    <2>9. faults' = 0 => Grounded'
      <3>1. \A q \in Requests : Given(q) => Given(q)'
        BY <1>1, <2>7 DEF Given
      <3>2. \A d \in Processes : call'[d].mem = call[d].mem /\ call'[d].q = call[d].q
        BY <2>2, <2>3
      <3>3. QED
        BY <1>1, <3>1, <3>2, GroundedKept
    <2>10. QED
      BY <2>2, <2>5, <2>6, <2>8, <2>9 DEF IInv
  <1>4. QED
    BY <1>2, <1>3 DEF OpenWorkflow

\* Saves of what was remembered, and the read of a workflow to be cancelled.
LEMMA SavesStep ==
  ASSUME IInv, NEW c \in Processes,
         Link(c) \/ CancelSave(c) \/ CancelWorkflow(c) \/ EditSave(c) \/ MarkSave(c)
  PROVE  IInv'
  <1>1. /\ ~At(c, "idle") /\ ~At(c, "decide")
        /\ c \in Listeners => MarkSave(c)
    BY DEF IInv, OpenedOnce, Link, CancelSave, CancelWorkflow, EditSave, MarkSave, At
  <1>2. /\ {"cancelWf", "saveWf", "edit"} \subseteq PCs \ {"idle", "insert", "workflow", "decide"}
        /\ "edit" \notin Opens
    BY DEF PCs, Opens
  <1>3. edited' \subseteq Requests
    BY <1>1 DEF IInv, TypeOK, Named, Link, CancelSave, CancelWorkflow, EditSave, MarkSave, history
  <1>4. \/ To(c, "cancelWf") /\ CancelSave(c) /\ call[c].mem.linked
        \/ To(c, "saveWf") /\ CancelWorkflow(c)
        \/ Done(c)
    BY DEF Link, CancelSave, CancelWorkflow, EditSave, MarkSave
  <1>5. c \in Listeners => Done(c)
    BY <1>1 DEF MarkSave
  <1>6. UNCHANGED <<provisioned, wf, events, overruled, overlaps, faults>>
    BY DEF Link, CancelSave, CancelWorkflow, EditSave, MarkSave, history
  <1>7. \/ UNCHANGED row
        \/ Write(call[c].q, call[c].mem)
        \/ Write(call[c].q, [call[c].mem EXCEPT !.linked = TRUE]) /\ At(c, "link")
    BY DEF Link, CancelSave, CancelWorkflow, EditSave, MarkSave
  <1>8. CancelWorkflow(c) \/ call[c].mem.linked => wf[call[c].q] # "none"
    BY DEF IInv, Opened, Opens, CancelWorkflow, At
  <1>9. QED
    BY <1>1, <1>2, <1>3, <1>4, <1>5, <1>6, <1>7, <1>8, SaveStep

\* A save of a workflow notes the verdict it overwrites, and no workflow that
\* was not opened is saved.
LEMMA SaveWorkflowKeeps ==
  ASSUME TypeOK, NEW q \in Requests, wf[q] # "none", NEW st \in {"approved", "rejected", "cancelled"},
         SaveWorkflow(q, st)
  PROVE  /\ wf' \in [Requests -> {"none", "open", "approved", "rejected", "cancelled"}]
         /\ overruled' \subseteq Requests \X Verdicts
         /\ wf'[q] = st /\ \A r \in Requests : r # q => wf'[r] = wf[r]
         /\ \A r \in Requests : (wf[r] = "none" <=> wf'[r] = "none") /\ (Given(r) => Given(r)')
  <1>1. /\ wf' \in [Requests -> {"none", "open", "approved", "rejected", "cancelled"}]
        /\ wf'[q] = st /\ \A r \in Requests : r # q => wf'[r] = wf[r]
    BY DEF TypeOK, SaveWorkflow
  <1>2. overruled' \subseteq Requests \X Verdicts /\ overruled \subseteq overruled'
    BY DEF TypeOK, SaveWorkflow
  <1>3. wf[q] = "approved" => <<q, "approved">> \in overruled'
    BY DEF SaveWorkflow, Verdicts
  <1>4. \A r \in Requests : Given(r) => Given(r)'
    BY <1>1, <1>2, <1>3 DEF Given
  <1>5. QED
    BY <1>1, <1>2, <1>4

\* The save of a cancelled workflow.
LEMMA CancelWorkflowSaveStep == ASSUME IInv, NEW c \in Processes, CancelWorkflowSave(c) PROVE IInv'
  <1>1. /\ ~At(c, "idle") /\ "mark" \in PCs \ {"idle", "decide"} /\ Done(c)
        /\ UNCHANGED <<provisioned, row, events, edited, overlaps, faults>>
    BY DEF CancelWorkflowSave, At, PCs
  <1>2. /\ call' \in [Processes -> [pc : PCs, q : 0 .. N, mem : Row \union {NoRow}]]
        /\ \A d \in Processes : d # c => call'[d] = call[d]
        /\ Named'
    BY <1>1, MoveCall DEF IInv
  <1>3. call'[c] = NoCall
    BY <1>1 DEF IInv, TypeOK, Done
  <1>4. PICK q \in Requests : q = call[c].q /\ wf[q] # "none"
    BY <1>1 DEF IInv, Named, Opened, Opens, CancelWorkflowSave, At
  <1>5. /\ wf' \in [Requests -> {"none", "open", "approved", "rejected", "cancelled"}]
        /\ overruled' \subseteq Requests \X Verdicts
        /\ \A r \in Requests : (wf[r] = "none" <=> wf'[r] = "none") /\ (Given(r) => Given(r)')
    BY <1>4, SaveWorkflowKeeps DEF IInv, CancelWorkflowSave
  <1>6. TypeOK'
    BY <1>1, <1>2, <1>5 DEF IInv, TypeOK
  <1>7. OpenedOnce'
    BY <1>2, <1>3, <1>5, OpenedKept DEF IInv, OpenedOnce, NoCall, Processes
  <1>8. ~NoCall.mem.linked /\ NoCall.pc \notin Opens /\ ~Approved(NoCall.mem)
    BY RowType DEF NoCall, Opens, Approved
  <1>9. Opened'
    BY <1>1, <1>2, <1>3, <1>5, <1>8, StaysOpened
  <1>10. faults' = 0 => Grounded'
    BY <1>1, <1>2, <1>3, <1>5, <1>8, GroundedKept
  <1>11. QED
    BY <1>2, <1>6, <1>7, <1>9, <1>10 DEF IInv

\* A verdict that is announced is the workflow's, unless the transaction aborts.
LEMMA DecideSaveStep == ASSUME IInv, NEW c \in Processes, DecideSave(c) PROVE IInv'
  <1>1. /\ ~At(c, "idle") /\ At(c, "decide") /\ "mark" \in PCs \ {"idle", "decide"} /\ Done(c)
        /\ UNCHANGED <<provisioned, row, edited, overlaps>>
    BY DEF DecideSave, At, PCs
  <1>2. /\ call' \in [Processes -> [pc : PCs, q : 0 .. N, mem : Row \union {NoRow}]]
        /\ \A d \in Processes : d # c => call'[d] = call[d]
        /\ Named'
    BY <1>1, MoveCall DEF IInv
  <1>3. call'[c] = NoCall
    BY <1>1 DEF IInv, TypeOK, Done
  <1>4. PICK q \in Requests : q = call[c].q /\ wf[q] # "none"
    BY <1>1 DEF IInv, Named, Opened, Opens, At
  <1>5. PICK v \in Verdicts :
          /\ events' = events \union {<<q, v>>}
          /\ \/ SaveWorkflow(q, v) /\ UNCHANGED faults
             \/ faults < MaxFaults /\ faults' = faults + 1 /\ UNCHANGED <<wf, overruled>>
    BY <1>4 DEF DecideSave, Fault
  <1>6. /\ wf' \in [Requests -> {"none", "open", "approved", "rejected", "cancelled"}]
        /\ overruled' \subseteq Requests \X Verdicts
        /\ \A r \in Requests : (wf[r] = "none" <=> wf'[r] = "none") /\ (Given(r) => Given(r)')
    <2>1. CASE SaveWorkflow(q, v)
      BY <1>4, <1>5, <2>1, SaveWorkflowKeeps DEF IInv, Verdicts
    <2>2. CASE UNCHANGED <<wf, overruled>>
      BY <2>2 DEF IInv, TypeOK, Given
    <2>3. QED
      BY <1>5, <2>1, <2>2
  <1>7. faults' \in 0 .. MaxFaults /\ (faults' = 0 => faults = 0 /\ SaveWorkflow(q, v))
    BY <1>5, BoundsAssumption DEF IInv, TypeOK
  <1>8. TypeOK'
    BY <1>1, <1>2, <1>5, <1>6, <1>7 DEF IInv, TypeOK
  <1>9. OpenedOnce'
    BY <1>2, <1>3, <1>6, OpenedKept DEF IInv, OpenedOnce, NoCall, Processes
  <1>10. ~NoCall.mem.linked /\ NoCall.pc \notin Opens /\ ~Approved(NoCall.mem)
    BY RowType DEF NoCall, Opens, Approved
  <1>11. Opened'
    BY <1>1, <1>2, <1>3, <1>6, <1>10, StaysOpened
  <1>12. faults' = 0 => Grounded'
    <2>1. faults' = 0 => wf'[q] = v
      BY <1>4, <1>7, SaveWorkflowKeeps DEF IInv, Verdicts
    <2>2. \A r \in Requests : <<r, "approved">> \in events' =>
            <<r, "approved">> \in events \/ (faults' = 0 => Given(r)')
      BY <1>5, <2>1 DEF Given
    <2>3. QED
      BY <1>1, <1>2, <1>3, <1>6, <1>7, <1>10, <2>2, GroundedKept
  <1>13. QED
    BY <1>2, <1>8, <1>9, <1>11, <1>12 DEF IInv

\* A listener remembers the verdict of the event it took.
LEMMA MarkReadStep ==
  ASSUME IInv, NEW c \in Listeners, NEW q \in Requests, NEW v \in Verdicts, MarkRead(c, q, v)
  PROVE  IInv'
  <1>1. c \in Processes /\ c \notin Calls
    BY NamesAssumption DEF Processes
  <1>2. /\ <<q, v>> \in events /\ events' = events \ {<<q, v>>}
        /\ UNCHANGED <<provisioned, row, wf, edited, overruled, overlaps>>
    BY DEF MarkRead, history
  <1>3. faults' \in 0 .. MaxFaults /\ (faults' = 0 => faults = 0)
    BY BoundsAssumption DEF IInv, TypeOK, MarkRead, Fault
  <1>4. \A r \in Requests : Given(r)' <=> Given(r)
    BY <1>2 DEF Given
  <1>5. CASE UNCHANGED call
    <2>1. TypeOK'
      BY <1>2, <1>3, <1>5 DEF IInv, TypeOK
    <2>2. Named' /\ OpenedOnce' /\ Opened'
      BY <1>2, <1>5 DEF IInv, Named, At, OpenedOnce, Creating, Opened
    <2>3. faults' = 0 => Grounded'
      BY <1>2, <1>3, <1>4, <1>5, GroundedKept
    <2>4. QED
      BY <2>1, <2>2, <2>3 DEF IInv
  <1>6. CASE /\ At(c, "idle") /\ Exists(q)
             /\ call' = [call EXCEPT ![c] = [pc |-> "mark", q |-> q, mem |-> [row[q] EXCEPT !.status = v]]]
    <2>1. row[q] \in Row
      BY <1>6 DEF IInv, TypeOK, Exists
    <2>2. PICK mem \in Row : /\ mem = [row[q] EXCEPT !.status = v]
                            /\ mem.status = v /\ mem.linked = row[q].linked
      <3>1. v \in Statuses
        BY DEF Statuses, Verdicts
      <3>2. /\ [row[q] EXCEPT !.status = v] \in Row /\ [row[q] EXCEPT !.status = v].status = v
            /\ [row[q] EXCEPT !.status = v].linked = row[q].linked
        BY <2>1, <3>1 DEF Row
      <3>3. QED
        BY <3>2
    <2>3. /\ call' \in [Processes -> [pc : PCs, q : 0 .. N, mem : Row \union {NoRow}]]
          /\ call'[c] = [pc |-> "mark", q |-> q, mem |-> mem]
          /\ \A d \in Processes : d # c => call'[d] = call[d]
      BY <1>1, <1>6, <2>2, NAssumption DEF IInv, TypeOK, PCs, Requests
    <2>4. TypeOK'
      BY <1>2, <1>3, <2>3 DEF IInv, TypeOK
    <2>5. Named'
      BY <2>3 DEF IInv, Named, At
    <2>6. OpenedOnce'
      <3>1. \A d \in Calls : call'[d] = call[d]
        BY <1>1, <2>3 DEF Processes
      <3>2. \A d \in Listeners : call'[d].pc \in {"idle", "mark"}
        BY <2>3 DEF IInv, OpenedOnce, Processes
      <3>3. QED
        BY <1>2, <3>1, <3>2, OpenedKept DEF IInv
    <2>7. Opened'
      <3>1. mem.linked => wf[q] # "none"
        BY <2>2 DEF IInv, Opened
      <3>2. QED
        BY <1>2, <2>3, <3>1, StaysOpened DEF Opens
    <2>8. faults' = 0 => Grounded'
      <3>1. faults' = 0 /\ Approved(mem) => Given(q)
        BY <1>2, <1>3, <2>2 DEF IInv, Grounded, Approved
      <3>2. faults' = 0 => ~Approved(call'[c].mem) \/ (call'[c].q \in Requests /\ Given(call[c].q)')
        BY <1>4, <2>3, <3>1 DEF Given
      <3>3. QED
        BY <1>2, <1>3, <1>4, <2>3, <3>2, GroundedKept
    <2>9. QED
      BY <2>4, <2>5, <2>6, <2>7, <2>8 DEF IInv
  <1>7. QED
    BY <1>5, <1>6 DEF MarkRead

\* A leave is decided without a workflow.
LEMMA DecideLeaveStep == ASSUME IInv, NEW q \in Requests, DecideLeave(q) PROVE IInv'
  <1>1. row[q].kind = "leave" /\ UNCHANGED <<provisioned, wf, events, call, edited, overruled, faults>>
    BY DEF DecideLeave, history
  <1>2. PICK st \in Statuses : Write(q, [row[q] EXCEPT !.status = st])
    BY DEF DecideLeave
  <1>3. row[q] \in Row
    BY <1>1, RowType DEF IInv, TypeOK
  <1>4. /\ [row[q] EXCEPT !.status = st] \in Row /\ [row[q] EXCEPT !.status = st].kind = "leave"
        /\ [row[q] EXCEPT !.status = st].linked = row[q].linked
    BY <1>1, <1>3 DEF Row
  <1>5. /\ row' \in [Requests -> Row \union {NoRow}]
        /\ \A r \in Requests : row'[r] = row[r] \/ (~Approved(row'[r]) /\ row'[r].linked = row[r].linked)
    BY <1>2, <1>4 DEF IInv, TypeOK, Write, Approved
  <1>6. overlaps' \in 0 .. MaxOverlaps
    BY BoundsAssumption DEF IInv, TypeOK, DecideLeave, Overlap
  <1>7. TypeOK'
    BY <1>1, <1>5, <1>6 DEF IInv, TypeOK
  <1>8. Named' /\ OpenedOnce'
    BY <1>1 DEF IInv, Named, At, OpenedOnce, Creating
  <1>9. Opened'
    BY <1>1, <1>5, StaysOpened DEF IInv, Opened
  <1>10. faults' = 0 => Grounded'
    <2>1. \A r \in Requests : Given(r)' <=> Given(r)
      BY <1>1 DEF Given
    <2>2. QED
      BY <1>1, <1>5, <2>1, GroundedKept
  <1>11. QED
    BY <1>7, <1>8, <1>9, <1>10 DEF IInv

-----------------------------------------------------------------------------
(* Theorems *)

\* The first state.
LEMMA InitIInv == Init => IInv
  <1> SUFFICES ASSUME Init PROVE IInv
    OBVIOUS
  <1>1. NoCall \in [pc : PCs, q : 0 .. N, mem : Row \union {NoRow}]
    BY NAssumption DEF NoCall, PCs
  <1>2. TypeOK
    BY <1>1, BoundsAssumption DEF Init, TypeOK
  <1>3. Named /\ OpenedOnce /\ Opened
    BY RowType DEF Init, Named, OpenedOnce, Opened, Opens, Creating, At, NoCall, Processes
  <1>4. Grounded
    <2>1. ~Approved(NoRow) /\ NoCall.mem = NoRow
      BY RowType DEF Approved, NoCall
    <2>2. QED
      BY <2>1 DEF Init, Grounded
  <1>5. QED
    BY <1>2, <1>3, <1>4 DEF IInv

\* Every step.
LEMMA NextIInv == IInv /\ [Next]_vars => IInv'
  <1> SUFFICES ASSUME IInv, [Next]_vars PROVE IInv'
    OBVIOUS
  <1>1. ASSUME NEW c \in Processes, Step(c) PROVE IInv'
    BY <1>1, InsertStep, OpenStep, SavesStep, CancelWorkflowSaveStep, DecideSaveStep DEF Step
  <1>2. ASSUME NEW c \in Calls, NEW q \in Requests, Start(c, q) PROVE IInv'
    BY <1>2, CreateStep, CancelReadStep, EditReadStep, DecideReadStep DEF Start
  <1>3. ASSUME NEW q \in Requests, NEW v \in Verdicts, Listen(q, v) PROVE IInv'
    BY <1>3, MarkReadStep DEF Listen
  <1>4. CASE UNCHANGED vars
    BY <1>4 DEF vars, IInv, TypeOK, Named, At, OpenedOnce, Creating, Opened, Grounded, Given
  <1>5. QED
    BY <1>1, <1>2, <1>3, <1>4, DecideLeaveStep DEF Next

\* The invariant is one.
LEMMA Invariant == Spec => []IInv
  BY InitIInv, NextIInv, PTL DEF Spec

\* The tables, the events and what each operation remembers keep their types.
THEOREM DayTypes == Spec => []TypeOK
  <1>1. IInv => TypeOK
    BY DEF IInv
  <1>2. QED
    BY <1>1, Invariant, PTL

\* Whatever overlaps, no save of a row read earlier approves a home or
\* overtime request whose workflow did not: it shows the approval, or a stale
\* save of the workflow overwrote just that.
THEOREM ApprovedOnlyByWorkflow == Spec => []ApprovedByWorkflow
  <1>1. IInv => ApprovedByWorkflow
    BY DEF IInv, Grounded, Given, Approved, ApprovedByWorkflow
  <1>2. QED
    BY <1>1, Invariant, PTL

-----------------------------------------------------------------------------
(* Operations that do not overlap.  The strengthening says what the one     *)
(* operation in progress remembers and what its request looks like; of each *)
(* other request, that its row has what its workflow gave.                  *)

Apart ==
  \A p, q \in Requests : Clash(p, q) =>
    \/ row[p].kind = "leave" /\ row[q].kind = "leave"
    \/ row[p].kind # row[q].kind /\ {p, q} \intersect edited # {}

\* Only leaves are processed, and only leaves are kept by a provisioned tenant.
Kinded ==
  \A q \in Requests : row[q] # NoRow /\ (provisioned \/ row[q].status = "processing") => row[q].kind = "leave"

One == \A c, d \in Processes : ~At(c, "idle") /\ ~At(d, "idle") => c = d

HasRow(q) == row[q] \in Row /\ row[q].kind # "leave"

\* The request has the status that its workflow gave.
Kept(q) ==
  wf[q] # "none" =>
    IF provisioned THEN row[q] = NoRow
    ELSE HasRow(q) /\ row[q].linked /\ row[q].status = IF wf[q] = "open" THEN "pending" ELSE wf[q]

\* Its listener has not run yet.
Announced(q) ==
  /\ wf[q] \in {"approved", "rejected"}
  /\ ~provisioned => HasRow(q) /\ row[q].linked /\ row[q].status = "pending"
  /\ provisioned => row[q] = NoRow

Sharing(p, span) == Holds(p) /\ row[p].span \intersect span # {}

AtInsert(q, mem) ==
  /\ row[q] = NoRow /\ wf[q] = "none"
  /\ mem.kind # "leave" => mem.status = "pending"
  /\ \A p \in Requests : Sharing(p, mem.span) => mem.kind = "leave" /\ row[p].kind = "leave"

AtWorkflow(q, mem, st) ==
  /\ mem.kind # "leave" /\ mem.status = "pending" /\ wf[q] = st
  /\ row[q] = IF provisioned THEN NoRow ELSE mem

AtCancel(q, mem) ==
  /\ ~provisioned /\ HasRow(q) /\ Kept(q) /\ wf[q] \in {"none", "open"}
  /\ mem = [row[q] EXCEPT !.status = "cancelled"]

AtCancelWf(q, mem) ==
  /\ ~provisioned /\ HasRow(q) /\ row[q] = mem /\ mem.status = "cancelled" /\ mem.linked
  /\ wf[q] \in {"none", "open"}

AtDecide(q) == Kept(q) /\ wf[q] = "open"

AtEdit(q, mem) ==
  /\ row[q] \in Row /\ Kept(q)
  /\ mem = [row[q] EXCEPT !.span = mem.span]
  /\ \A p \in Requests \ {q} : Holds(q) /\ Sharing(p, mem.span) =>
        \/ row[p].kind = "leave" /\ row[q].kind = "leave"
        \/ row[p].kind # row[q].kind
        \/ mem.span = row[q].span

AtMark(q, mem) ==
  /\ ~provisioned /\ Announced(q)
  /\ mem = [row[q] EXCEPT !.status = wf[q]]

InProgress(c) ==
  LET q == call[c].q
      mem == call[c].mem IN
  /\ events = {}
  /\ \A r \in Requests \ {q} : Kept(r)
  /\ At(c, "insert")   => AtInsert(q, mem)
  /\ At(c, "workflow") => AtWorkflow(q, mem, "none")
  /\ At(c, "link")     => AtWorkflow(q, mem, "open")
  /\ At(c, "cancel")   => AtCancel(q, mem)
  /\ At(c, "cancelWf") => AtCancelWf(q, mem)
  /\ At(c, "saveWf")   => AtCancelWf(q, mem)
  /\ At(c, "decide")   => AtDecide(q)
  /\ At(c, "edit")     => AtEdit(q, mem)
  /\ At(c, "mark")     => AtMark(q, mem)

AtRest ==
  \/ events = {} /\ \A q \in Requests : Kept(q)
  \/ \E q \in Requests : /\ events = {<<q, wf[q]>>} /\ Announced(q)
                         /\ \A r \in Requests \ {q} : Kept(r)

Serial ==
  /\ One /\ Apart /\ Kinded
  /\ \A c \in Processes : ~At(c, "idle") => InProgress(c)
  /\ (\A c \in Processes : At(c, "idle")) => AtRest
-----------------------------------------------------------------------------
(* Lemmas on operations that do not overlap *)

\* An operation that overlaps nothing begins when nothing is in progress.
LEMMA SerialBegin ==
  ASSUME IInv, Serial, Overlap, overlaps' = 0
  PROVE  /\ events = {} /\ \A c \in Processes : At(c, "idle")
         /\ \A q \in Requests : Kept(q)
  <1>1. ~Busy
    BY BoundsAssumption DEF IInv, TypeOK, Overlap
  <1>2. events = {} /\ \A c \in Processes : At(c, "idle")
    BY <1>1 DEF Busy
  <1>3. AtRest
    BY <1>2 DEF Serial
  <1>4. QED
    BY <1>2, <1>3 DEF AtRest

\* The one operation in progress moves, or one begins.
LEMMA SerialMove ==
  ASSUME Serial, NEW c \in Processes, \A d \in Processes : d # c => At(d, "idle") /\ call'[d] = call[d],
         Apart', Kinded',
         At(c, "idle")' => AtRest', ~At(c, "idle")' => InProgress(c)'
  PROVE  Serial'
  <1>1. \A d \in Processes : d # c => At(d, "idle")'
    BY DEF At
  <1>2. One'
    BY <1>1 DEF One
  <1>3. QED
    BY <1>1, <1>2 DEF Serial

\* The others are idle.
LEMMA SerialOthers ==
  ASSUME Serial, NEW c \in Processes, ~At(c, "idle")
  PROVE  InProgress(c) /\ \A d \in Processes : d # c => At(d, "idle")
  BY DEF Serial, One

\* Two requests stay apart when one is saved that shares days only as allowed.
LEMMA ApartSave ==
  ASSUME TypeOK, Apart, NEW q \in Requests, NEW mem \in Row, Write(q, mem), edited \subseteq edited',
         mem.status \in {"pending", "processing", "approved"} =>
           \A p \in Requests \ {q} : Sharing(p, mem.span) =>
             \/ row[p].kind = "leave" /\ mem.kind = "leave"
             \/ row[p].kind # mem.kind /\ q \in edited'
             \/ Holds(q) /\ mem.span = row[q].span /\ mem.kind = row[q].kind
  PROVE  Apart'
  <1>1. row' \in [Requests -> Row \union {NoRow}] /\ row'[q] = mem /\ \A p \in Requests \ {q} : row'[p] = row[p]
    BY DEF TypeOK, Write
  <1>2. ASSUME NEW p \in Requests \ {q}, Clash(p, q)'
        PROVE  \/ row[p].kind = "leave" /\ mem.kind = "leave"
               \/ row[p].kind # mem.kind /\ {p, q} \intersect edited' # {}
    <2>1. /\ Sharing(p, mem.span)
          /\ mem.status \in {"pending", "processing", "approved"}
      BY <1>1, <1>2 DEF Clash, Holds, Sharing
    <2>2. CASE Holds(q) /\ mem.span = row[q].span /\ mem.kind = row[q].kind
      <3>1. Clash(p, q)
        BY <2>1, <2>2 DEF Clash, Sharing
      <3>2. QED
        BY <2>2, <3>1 DEF Apart
    <2>3. QED
      BY <2>1, <2>2
  <1>3. \A p, r \in Requests : Clash(p, r)' /\ p # q /\ r # q => Clash(p, r)
    BY <1>1 DEF Clash, Holds
  <1>4. \A p, r \in Requests : Clash(p, r)' => Clash(r, p)' /\ p # r
    BY DEF Clash, Holds
  <1>5. ASSUME NEW p \in Requests, NEW r \in Requests, Clash(p, r)'
        PROVE  \/ row'[p].kind = "leave" /\ row'[r].kind = "leave"
               \/ row'[p].kind # row'[r].kind /\ {p, r} \intersect edited' # {}
    <2>1. CASE p # q /\ r # q
      BY <1>1, <1>3, <1>5, <2>1 DEF Apart
    <2>2. CASE r = q
      BY <1>1, <1>2, <1>4, <1>5, <2>2
    <2>3. CASE p = q
      BY <1>1, <1>2, <1>4, <1>5, <2>3
    <2>4. QED
      BY <2>1, <2>2, <2>3
  <1>6. QED
    BY <1>5 DEF Apart

\* A save keeps what was said of the other requests.
LEMMA OthersKept ==
  ASSUME TypeOK, NEW q \in Requests, NEW r \in Requests \ {q}, Kept(r), UNCHANGED provisioned,
         wf'[r] = wf[r], row'[r] = row[r]
  PROVE  Kept(r)'
  BY DEF Kept, HasRow

\* A save of a leave, or of a row that is not processed, on a legacy tenant.
LEMMA KindedSave ==
  ASSUME TypeOK, Kinded, NEW q \in Requests, NEW mem \in Row, Write(q, mem), UNCHANGED provisioned,
         mem.kind = "leave" \/ (~provisioned /\ mem.status # "processing")
  PROVE  Kinded'
  BY DEF TypeOK, Kinded, Write

\* A creation shares no day that it should not.
LEMMA SerialCreate ==
  ASSUME IInv, Serial, NEW c \in Calls, NEW q \in Requests, CreateRead(c, q), overlaps' = 0
  PROVE  Serial'
  <1>1. PICK kind \in Kinds, span \in SUBSET {"sat", "mon"}, st \in {"pending", "processing"} :
          /\ ~Taken(kind, span)
          /\ kind # "leave" => st = "pending"
          /\ Begin(c, q, "insert", [kind |-> kind, span |-> span, status |-> st, linked |-> FALSE])
    BY RowType DEF CreateRead
  <1>2. PICK mem \in Row : /\ mem.kind = kind /\ mem.span = span /\ mem.status = st
                           /\ Begin(c, q, "insert", mem)
    <2>1. [kind |-> kind, span |-> span, status |-> st, linked |-> FALSE] \in Row
      BY RowType DEF Row, Statuses
    <2>2. QED
      BY <1>1, <2>1
  <1>3. /\ row[q] = NoRow /\ wf[q] = "none"
        /\ UNCHANGED <<provisioned, row, wf, events, edited, overruled, faults>>
    BY DEF CreateRead, New, Used, history
  <1>4. c \in Processes /\ "insert" \in PCs \ {"idle"}
    BY DEF Processes, PCs
  <1>5. /\ call'[c] = [pc |-> "insert", q |-> q, mem |-> mem]
        /\ \A d \in Processes : d # c => call'[d] = call[d]
    BY <1>2, <1>4, RowType, BeginCall DEF IInv
  <1>6. events = {} /\ (\A d \in Processes : At(d, "idle")) /\ \A r \in Requests : Kept(r)
    BY <1>2, SerialBegin DEF Begin
  <1>7. ASSUME NEW p \in Requests, Sharing(p, span) PROVE kind = "leave" /\ row[p].kind = "leave"
    <2>1. row[p] \in Row /\ row[p].kind \in {"leave", "wfh", "overtime"}
      BY <1>7, RowType DEF IInv, TypeOK, Sharing, Holds, Row
    <2>2. row[p].kind # "leave" => row[p].status \in {"pending", "approved"}
      BY <1>7, <2>1, RowType DEF Sharing, Holds, Serial, Kinded
    <2>3. row[p].kind = "leave"
      BY <1>1, <1>7, <2>1, <2>2 DEF Taken, Blocks, Sharing
    <2>4. kind = "leave"
      BY <1>1, <1>7, <2>3 DEF Taken, Blocks, Sharing, Holds
    <2>5. QED
      BY <2>3, <2>4
  <1>8. Apart' /\ Kinded'
    BY <1>3 DEF Serial, Apart, Kinded, Clash, Holds
  <1>9. InProgress(c)'
    <2>1. AtInsert(q, mem)'
      BY <1>1, <1>2, <1>3, <1>7 DEF AtInsert, Sharing, Holds
    <2>2. \A r \in Requests : Kept(r)'
      BY <1>3, <1>6 DEF Kept, HasRow
    <2>3. QED
      BY <1>3, <1>5, <1>6, <2>1, <2>2 DEF InProgress, At
  <1>10. QED
    BY <1>4, <1>5, <1>6, <1>8, <1>9, SerialMove DEF At

\* Any other operation of a call begins.
LEMMA SerialRead ==
  ASSUME IInv, Serial, NEW c \in Calls, NEW q \in Requests, NEW pc \in {"cancel", "edit", "decide"},
         NEW mem \in Row \union {NoRow}, pc = "decide" <=> mem = NoRow,
         Begin(c, q, pc, mem), overlaps' = 0,
         UNCHANGED <<provisioned, row, wf, events, edited, overruled, faults>>,
         pc = "cancel" => AtCancel(q, mem), pc = "edit" => AtEdit(q, mem), pc = "decide" => AtDecide(q)
  PROVE  Serial'
  <1>1. c \in Processes /\ pc \in PCs \ {"idle"}
    BY DEF Processes, PCs
  <1>2. /\ call'[c] = [pc |-> pc, q |-> q, mem |-> mem]
        /\ \A d \in Processes : d # c => call'[d] = call[d]
    BY <1>1, BeginCall DEF IInv
  <1>3. events = {} /\ (\A d \in Processes : At(d, "idle")) /\ \A r \in Requests : Kept(r)
    BY SerialBegin DEF Begin
  <1>4. Apart' /\ Kinded'
    BY DEF Serial, Apart, Kinded, Clash, Holds
  <1>5. \A r \in Requests : Kept(r)'
    BY <1>3 DEF Kept, HasRow
  <1>6. pc = "cancel" => AtCancel(q, mem)'
    BY DEF AtCancel, Kept, HasRow
  <1>7. pc = "edit" => AtEdit(q, mem)'
    BY DEF AtEdit, Kept, HasRow, Sharing, Holds
  <1>8. pc = "decide" => AtDecide(q)'
    BY <1>5 DEF AtDecide
  <1>9. InProgress(c)'
    BY <1>2, <1>3, <1>5, <1>6, <1>7, <1>8 DEF InProgress, At
  <1>10. QED
    BY <1>1, <1>2, <1>3, <1>4, <1>9, SerialMove DEF At

\* A cancellation finds a pending row, whose workflow is undecided.
LEMMA SerialCancelRead ==
  ASSUME IInv, Serial, NEW c \in Calls, NEW q \in Requests, CancelRead(c, q), overlaps' = 0
  PROVE  Serial'
  <1>1. row[q] \in Row
    BY RowType DEF IInv, TypeOK, CancelRead
  <1>2. [row[q] EXCEPT !.status = "cancelled"] \in Row
    BY <1>1, RowType DEF Statuses
  <1>3. Kept(q)
    BY SerialBegin DEF CancelRead, Begin
  <1>4. ~provisioned /\ HasRow(q)
    BY <1>1, RowType DEF CancelRead, Serial, Kinded, HasRow
  <1>5. wf[q] \in {"none", "open"}
    BY <1>3, <1>4 DEF IInv, TypeOK, CancelRead, Kept
  <1>6. AtCancel(q, [row[q] EXCEPT !.status = "cancelled"])
    BY <1>3, <1>4, <1>5 DEF AtCancel
  <1>7. UNCHANGED <<provisioned, row, wf, events, edited, overruled, faults>>
    BY DEF CancelRead, history
  <1>8. PICK mem \in Row : mem = [row[q] EXCEPT !.status = "cancelled"]
    BY <1>2
  <1>9. Begin(c, q, "cancel", mem) /\ AtCancel(q, mem)
    BY <1>6, <1>8 DEF CancelRead
  <1>10. QED
    BY <1>7, <1>9, RowType, SerialRead

\* A decision finds the request with its open workflow.
LEMMA SerialDecideRead ==
  ASSUME IInv, Serial, NEW c \in Calls, NEW q \in Requests, DecideRead(c, q), overlaps' = 0
  PROVE  Serial'
  <1>1. UNCHANGED <<provisioned, row, wf, events, edited, overruled, faults>>
    BY DEF DecideRead, history
  <1>2. AtDecide(q)
    BY SerialBegin DEF DecideRead, Begin, AtDecide
  <1>3. QED
    BY <1>1, <1>2, SerialRead DEF DecideRead

\* An edit asks the requests of its own kind.
LEMMA SerialEditRead ==
  ASSUME IInv, Serial, NEW c \in Calls, NEW q \in Requests, EditRead(c, q), overlaps' = 0
  PROVE  Serial'
  <1>1. row[q] \in Row
    BY DEF IInv, TypeOK, EditRead, Exists
  <1>2. PICK admin \in BOOLEAN, span \in Spans[row[q].kind] :
          Movable(q, admin, span) /\ Begin(c, q, "edit", [row[q] EXCEPT !.span = span])
    BY DEF EditRead
  <1>3. span \in SUBSET {"sat", "mon"}
    BY <1>1, <1>2, RowType DEF Row
  <1>4. PICK mem \in Row : mem = [row[q] EXCEPT !.span = span] /\ mem.span = span
    <2>1. [row[q] EXCEPT !.span = span] \in Row /\ [row[q] EXCEPT !.span = span].span = span
      BY <1>1, <1>3 DEF Row
    <2>2. QED
      BY <2>1
  <1>5. Kept(q)
    BY <1>2, SerialBegin DEF Begin
  <1>6. ASSUME NEW p \in Requests \ {q}, Sharing(p, span)
        PROVE  \/ row[p].kind = "leave" /\ row[q].kind = "leave"
               \/ row[p].kind # row[q].kind
               \/ span = row[q].span
    <2>1. CASE row[p].kind = row[q].kind /\ row[q].kind # "leave" /\ span # row[q].span
      <3>1. row[p].status \in {"pending", "approved"}
        BY <1>6, <2>1, RowType DEF Sharing, Holds, Serial, Kinded
      <3>2. QED
        BY <1>2, <1>6, <2>1, <3>1 DEF Movable, Others, Sharing
    <2>2. QED
      BY <2>1
  <1>7. AtEdit(q, mem)
    BY <1>1, <1>4, <1>5, <1>6 DEF AtEdit
  <1>8. UNCHANGED <<provisioned, row, wf, events, edited, overruled, faults>> /\ Begin(c, q, "edit", mem)
    BY <1>2, <1>4 DEF EditRead, history
  <1>9. QED
    BY <1>7, <1>8, RowType, SerialRead

\* The operation in progress ends, or goes on to its next statement.
LEMMA SerialGoOn ==
  ASSUME IInv, Serial, NEW c \in Processes, ~At(c, "idle"), NEW q, q = call[c].q,
         NEW pc \in PCs \ {"idle", "decide"}, To(c, pc) \/ Done(c), ~At(c, "decide"),
         UNCHANGED events, Apart', Kinded',
         \A r \in Requests \ {q} : Kept(r)',
         Done(c) => Kept(q)',
         To(c, pc) => InProgress(c)'
  PROVE  Serial'
  <1>1. InProgress(c) /\ \A d \in Processes : d # c => At(d, "idle") /\ call'[d] = call[d]
    BY SerialOthers, MoveCall DEF IInv
  <1>2. events = {} /\ call[c].q \in Requests
    BY <1>1 DEF InProgress, IInv, Named
  <1>3. CASE Done(c)
    <2>1. At(c, "idle")'
      BY <1>3 DEF IInv, TypeOK, Done, At, NoCall
    <2>2. \A r \in Requests : Kept(r)'
      BY <1>3
    <2>3. AtRest'
      BY <1>2, <2>2 DEF AtRest
    <2>4. QED
      BY <1>1, <2>1, <2>3, SerialMove
  <1>4. CASE To(c, pc)
    <2>1. ~At(c, "idle")'
      BY <1>4 DEF IInv, TypeOK, To, At
    <2>2. QED
      BY <1>1, <1>4, <2>1, SerialMove
  <1>5. QED
    BY <1>3, <1>4

\* What the operation in progress remembers, and what holds of the others when
\* it saves its row.
LEMMA SerialCall ==
  ASSUME IInv, Serial, NEW c \in Processes, ~At(c, "idle"), ~At(c, "decide")
  PROVE  \E q \in Requests, mem \in Row :
           /\ q = call[c].q /\ mem = call[c].mem /\ events = {}
           /\ At(c, "insert")   => AtInsert(q, mem)
           /\ At(c, "workflow") => AtWorkflow(q, mem, "none")
           /\ At(c, "link")     => AtWorkflow(q, mem, "open")
           /\ At(c, "cancel")   => AtCancel(q, mem)
           /\ At(c, "cancelWf") => AtCancelWf(q, mem)
           /\ At(c, "saveWf")   => AtCancelWf(q, mem)
           /\ At(c, "edit")     => AtEdit(q, mem)
           /\ At(c, "mark")     => AtMark(q, mem)
           /\ UNCHANGED provisioned
              /\ (\A r \in Requests \ {q} : wf'[r] = wf[r] /\ row'[r] = row[r])
              => \A r \in Requests \ {q} : Kept(r)'
  <1>1. InProgress(c) /\ call[c].q \in Requests /\ call[c].mem \in Row
    BY SerialOthers DEF IInv, Named
  <1>2. PICK q \in Requests, mem \in Row : q = call[c].q /\ mem = call[c].mem
    BY <1>1
  <1>3. ASSUME UNCHANGED provisioned, \A r \in Requests \ {q} : wf'[r] = wf[r] /\ row'[r] = row[r],
               NEW r \in Requests \ {q}
        PROVE  Kept(r)'
    BY <1>1, <1>2, <1>3, OthersKept DEF IInv, InProgress
  <1>4. QED
    BY <1>1, <1>2, <1>3 DEF InProgress

\* A save changes one row.
LEMMA WriteOne ==
  ASSUME TypeOK, NEW q \in Requests, NEW mem, Write(q, mem)
  PROVE  row'[q] = mem /\ \A r \in Requests \ {q} : row'[r] = row[r]
  BY DEF TypeOK, Write

\* An operation goes on with what it remembers, or forgets it.
LEMMA GoesOn ==
  ASSUME TypeOK, NEW c \in Processes, NEW pc \in PCs \ {"idle"}
  PROVE  /\ To(c, pc) => /\ call'[c].pc = pc /\ call'[c].q = call[c].q /\ call'[c].mem = call[c].mem
                         /\ ~Done(c)
         /\ Done(c) => call'[c].pc = "idle"
  BY DEF TypeOK, To, Done, NoCall

\* The rows stay as they are.
LEMMA SerialSameRows ==
  ASSUME Serial, UNCHANGED <<provisioned, row, edited>>
  PROVE  Apart' /\ Kinded'
  BY DEF Serial, Apart, Kinded, Clash, Holds

LEMMA SerialInsert == ASSUME IInv, Serial, NEW c \in Processes, Insert(c) PROVE Serial'
  <1>1. ~At(c, "idle") /\ ~At(c, "decide") /\ At(c, "insert") /\ TypeOK /\ Apart /\ Kinded
    BY DEF Insert, At, IInv, Serial
  <1>2. PICK q \in Requests, mem \in Row :
          /\ q = call[c].q /\ mem = call[c].mem /\ events = {} /\ AtInsert(q, mem)
          /\ UNCHANGED provisioned
             /\ (\A r \in Requests \ {q} : wf'[r] = wf[r] /\ row'[r] = row[r])
             => \A r \in Requests \ {q} : Kept(r)'
    BY <1>1, SerialCall
  <1>3. "workflow" \in PCs \ {"idle", "decide"} /\ UNCHANGED <<provisioned, wf, events, edited, overruled, overlaps, faults>>
    BY DEF PCs, Insert, history
  <1>4. CASE mem.kind = "leave"
    <2>1. Write(q, mem) /\ Done(c)
      BY <1>2, <1>4 DEF Insert
    <2>2. Apart'
      <3>1. \A p \in Requests \ {q} : Sharing(p, mem.span) => row[p].kind = "leave" /\ mem.kind = "leave"
        BY <1>2 DEF AtInsert
      <3>2. QED
        BY <1>1, <1>3, <2>1, <3>1, ApartSave
    <2>3. Kinded'
      <3>1. UNCHANGED provisioned
        BY <1>3
      <3>2. QED
        BY <1>1, <1>4, <2>1, <3>1, KindedSave
    <2>4. \A r \in Requests \ {q} : Kept(r)'
      BY <1>1, <1>2, <1>3, <2>1, WriteOne
    <2>5. Kept(q)'
      BY <1>2, <1>3 DEF AtInsert, Kept
    <2>6. QED
      BY <1>1, <1>2, <1>3, <2>1, <2>2, <2>3, <2>4, <2>5, GoesOn, SerialGoOn
  <1>5. CASE mem.kind # "leave"
    <2>1. To(c, "workflow") /\ IF provisioned THEN UNCHANGED row ELSE Write(q, mem)
      BY <1>2, <1>5 DEF Insert
    <2>2. mem.status = "pending"
      BY <1>2, <1>5 DEF AtInsert
    <2>3. Apart' /\ Kinded'
      <3>1. CASE provisioned
        BY <1>3, <2>1, <3>1, SerialSameRows
      <3>2. CASE ~provisioned
        <4>1. \A p \in Requests \ {q} : ~Sharing(p, mem.span)
          BY <1>2, <1>5 DEF AtInsert
        <4>2. Apart'
          BY <1>1, <1>3, <2>1, <3>2, <4>1, ApartSave
        <4>3. Kinded'
          BY <1>1, <1>3, <2>1, <2>2, <3>2, KindedSave
        <4>4. QED
          BY <4>2, <4>3
      <3>3. QED
        BY <3>1, <3>2
    <2>4. \A r \in Requests \ {q} : Kept(r)'
      BY <1>1, <1>2, <1>3, <2>1, WriteOne
    <2>5. call'[c].pc = "workflow" /\ call'[c].q = q /\ call'[c].mem = mem
      BY <1>1, <1>2, <1>3, <2>1, GoesOn
    <2>6. row'[q] = IF provisioned THEN NoRow ELSE mem
      BY <1>1, <1>2, <2>1, WriteOne DEF AtInsert
    <2>7. AtWorkflow(q, mem, "none")'
      BY <1>2, <1>3, <1>5, <2>2, <2>6 DEF AtWorkflow, AtInsert
    <2>8. InProgress(c)'
      BY <1>2, <1>3, <2>4, <2>5, <2>7 DEF InProgress, At
    <2>9. QED
      BY <1>1, <1>2, <1>3, <2>1, <2>3, <2>4, <2>8, GoesOn, SerialGoOn
  <1>6. QED
    BY <1>4, <1>5

\* createWorkflowRequest opens one, or throws.
LEMMA SerialOpen == ASSUME IInv, Serial, NEW c \in Processes, OpenWorkflow(c) PROVE Serial'
  <1>1. ~At(c, "idle") /\ ~At(c, "decide") /\ At(c, "workflow") /\ TypeOK
    BY DEF OpenWorkflow, At, IInv
  <1>2. PICK q \in Requests, mem \in Row :
          /\ q = call[c].q /\ mem = call[c].mem /\ events = {} /\ AtWorkflow(q, mem, "none")
          /\ UNCHANGED provisioned
             /\ (\A r \in Requests \ {q} : wf'[r] = wf[r] /\ row'[r] = row[r])
             => \A r \in Requests \ {q} : Kept(r)'
    BY <1>1, SerialCall
  <1>3. "link" \in PCs \ {"idle", "decide"} /\ UNCHANGED <<provisioned, row, events, edited, overruled, overlaps, faults>>
    BY DEF PCs, OpenWorkflow, history
  <1>4. Apart' /\ Kinded'
    BY <1>3, SerialSameRows
  <1>5. CASE wf' = [wf EXCEPT ![q] = "open"] /\ To(c, "link")
    <2>1. wf'[q] = "open" /\ \A r \in Requests \ {q} : wf'[r] = wf[r]
      BY <1>1, <1>5 DEF TypeOK
    <2>2. \A r \in Requests \ {q} : Kept(r)'
      BY <1>2, <1>3, <2>1
    <2>3. call'[c].pc = "link" /\ call'[c].q = q /\ call'[c].mem = mem
      BY <1>1, <1>2, <1>3, <1>5, GoesOn
    <2>4. AtWorkflow(q, mem, "open")'
      BY <1>2, <1>3, <2>1 DEF AtWorkflow
    <2>5. InProgress(c)'
      BY <1>2, <1>3, <2>2, <2>3, <2>4 DEF InProgress, At
    <2>6. QED
      BY <1>1, <1>2, <1>3, <1>4, <1>5, <2>2, <2>5, GoesOn, SerialGoOn
  <1>6. CASE Done(c) /\ UNCHANGED wf
    <2>1. \A r \in Requests \ {q} : Kept(r)'
      BY <1>2, <1>3, <1>6
    <2>2. Kept(q)'
      BY <1>2, <1>6 DEF AtWorkflow, Kept
    <2>3. QED
      BY <1>1, <1>2, <1>3, <1>4, <1>6, <2>1, <2>2, GoesOn, SerialGoOn
  <1>7. QED
    BY <1>2, <1>5, <1>6 DEF OpenWorkflow

\* The id of the workflow is saved, or the row is lost.
LEMMA SerialLink == ASSUME IInv, Serial, NEW c \in Processes, Link(c) PROVE Serial'
  <1>1. ~At(c, "idle") /\ ~At(c, "decide") /\ At(c, "link") /\ TypeOK /\ Apart /\ Kinded
    BY DEF Link, At, IInv, Serial
  <1>2. PICK q \in Requests, mem \in Row :
          /\ q = call[c].q /\ mem = call[c].mem /\ events = {} /\ AtWorkflow(q, mem, "open")
          /\ UNCHANGED provisioned
             /\ (\A r \in Requests \ {q} : wf'[r] = wf[r] /\ row'[r] = row[r])
             => \A r \in Requests \ {q} : Kept(r)'
    BY <1>1, SerialCall
  <1>3. "link" \in PCs \ {"idle", "decide"} /\ UNCHANGED <<provisioned, wf, events, edited, overruled, overlaps, faults>> /\ Done(c)
    BY DEF PCs, Link, history
  <1>4. CASE provisioned
    <2>1. UNCHANGED row
      BY <1>4 DEF Link
    <2>2. Apart' /\ Kinded'
      BY <1>3, <2>1, SerialSameRows
    <2>3. Kept(q)'
      BY <1>2, <1>3, <1>4, <2>1 DEF AtWorkflow, Kept
    <2>4. \A r \in Requests \ {q} : Kept(r)'
      BY <1>2, <1>3, <2>1
    <2>5. QED
      BY <1>1, <1>2, <1>3, <2>2, <2>3, <2>4, GoesOn, SerialGoOn
  <1>5. CASE ~provisioned
    <2>1. PICK new \in Row : /\ Write(q, new) /\ new.linked /\ new.kind = mem.kind /\ new.status = "pending"
                             /\ new.span = mem.span
      <3>1. mem.status = "pending"
        BY <1>2 DEF AtWorkflow
      <3>2. Write(q, [mem EXCEPT !.linked = TRUE])
        BY <1>2, <1>5 DEF Link
      <3>3. /\ [mem EXCEPT !.linked = TRUE] \in Row /\ [mem EXCEPT !.linked = TRUE].linked
            /\ [mem EXCEPT !.linked = TRUE].kind = mem.kind /\ [mem EXCEPT !.linked = TRUE].status = mem.status
            /\ [mem EXCEPT !.linked = TRUE].span = mem.span
        BY DEF Row
      <3>4. QED
        BY <3>1, <3>2, <3>3
    <2>2. row[q] = mem /\ mem.status = "pending" /\ mem.kind # "leave" /\ wf[q] = "open"
      BY <1>2, <1>5 DEF AtWorkflow
    <2>3. Apart'
      <3>1. Holds(q)
        BY <2>2 DEF Holds
      <3>2. QED
        BY <1>1, <1>3, <2>1, <2>2, <3>1, ApartSave
    <2>4. Kinded'
      <3>1. UNCHANGED provisioned
        BY <1>3
      <3>2. QED
        BY <1>1, <1>5, <2>1, <3>1, KindedSave
    <2>5. row'[q] = new /\ \A r \in Requests \ {q} : row'[r] = row[r]
      BY <1>1, <2>1, WriteOne
    <2>6. Kept(q)'
      BY <1>3, <1>5, <2>1, <2>2, <2>5 DEF Kept, HasRow
    <2>7. \A r \in Requests \ {q} : Kept(r)'
      BY <1>2, <1>3, <2>5
    <2>8. QED
      BY <1>1, <1>2, <1>3, <2>3, <2>4, <2>6, <2>7, GoesOn, SerialGoOn
  <1>6. QED
    BY <1>4, <1>5

\* The row is cancelled before its workflow.
LEMMA SerialCancelSave == ASSUME IInv, Serial, NEW c \in Processes, CancelSave(c) PROVE Serial'
  <1>1. ~At(c, "idle") /\ ~At(c, "decide") /\ At(c, "cancel") /\ TypeOK /\ Apart /\ Kinded
    BY DEF CancelSave, At, IInv, Serial
  <1>2. PICK q \in Requests, mem \in Row :
          /\ q = call[c].q /\ mem = call[c].mem /\ events = {} /\ AtCancel(q, mem)
          /\ UNCHANGED provisioned
             /\ (\A r \in Requests \ {q} : wf'[r] = wf[r] /\ row'[r] = row[r])
             => \A r \in Requests \ {q} : Kept(r)'
    BY <1>1, SerialCall
  <1>3. /\ "cancelWf" \in PCs \ {"idle", "decide"} /\ UNCHANGED <<provisioned, wf, events, edited, overruled, overlaps, faults>>
        /\ Write(q, mem)
        /\ IF mem.linked THEN To(c, "cancelWf") ELSE Done(c)
    BY <1>2 DEF PCs, CancelSave, history
  <1>4. /\ ~provisioned /\ mem.status = "cancelled" /\ mem.kind # "leave" /\ mem.linked = row[q].linked
        /\ wf[q] \in {"none", "open"}
    BY <1>2 DEF AtCancel, HasRow, Row
  <1>5. Apart'
    BY <1>1, <1>3, <1>4, ApartSave
  <1>6. Kinded'
    <2>1. UNCHANGED provisioned
      BY <1>3
    <2>2. QED
      BY <1>1, <1>3, <1>4, <2>1, KindedSave
  <1>7. row'[q] = mem /\ \A r \in Requests \ {q} : row'[r] = row[r]
    BY <1>1, <1>3, WriteOne
  <1>8. \A r \in Requests \ {q} : Kept(r)'
    BY <1>2, <1>3, <1>7
  <1>9. CASE mem.linked
    <2>1. To(c, "cancelWf") /\ call'[c].pc = "cancelWf" /\ call'[c].q = q /\ call'[c].mem = mem
      BY <1>1, <1>2, <1>3, <1>9, GoesOn
    <2>2. AtCancelWf(q, mem)'
      BY <1>3, <1>4, <1>7, <1>9 DEF AtCancelWf, HasRow
    <2>3. InProgress(c)'
      BY <1>2, <1>3, <1>8, <2>1, <2>2 DEF InProgress, At
    <2>4. QED
      BY <1>1, <1>2, <1>3, <1>5, <1>6, <1>8, <2>1, <2>3, GoesOn, SerialGoOn
  <1>10. CASE ~mem.linked
    <2>1. Done(c)
      BY <1>3, <1>10
    <2>2. wf[q] = "none"
      BY <1>2, <1>4, <1>10 DEF AtCancel, Kept
    <2>3. Kept(q)'
      BY <1>3, <2>2 DEF Kept
    <2>4. QED
      BY <1>1, <1>2, <1>3, <1>5, <1>6, <1>8, <2>1, <2>3, GoesOn, SerialGoOn
  <1>11. QED
    BY <1>9, <1>10

\* The workflow that is to be cancelled is undecided.
LEMMA SerialCancelWorkflow == ASSUME IInv, Serial, NEW c \in Processes, CancelWorkflow(c) PROVE Serial'
  <1>1. ~At(c, "idle") /\ ~At(c, "decide") /\ At(c, "cancelWf") /\ TypeOK
    BY DEF CancelWorkflow, At, IInv
  <1>2. PICK q \in Requests, mem \in Row :
          /\ q = call[c].q /\ mem = call[c].mem /\ events = {} /\ AtCancelWf(q, mem)
          /\ UNCHANGED provisioned
             /\ (\A r \in Requests \ {q} : wf'[r] = wf[r] /\ row'[r] = row[r])
             => \A r \in Requests \ {q} : Kept(r)'
    BY <1>1, SerialCall
  <1>3. /\ "saveWf" \in PCs \ {"idle", "decide"}
        /\ UNCHANGED <<provisioned, row, wf, events, edited, overruled, overlaps, faults>>
        /\ To(c, "saveWf")
    BY <1>2 DEF PCs, CancelWorkflow, AtCancelWf, Verdicts, history
  <1>4. Apart' /\ Kinded'
    BY <1>3, SerialSameRows
  <1>5. call'[c].pc = "saveWf" /\ call'[c].q = q /\ call'[c].mem = mem
    BY <1>1, <1>2, <1>3, GoesOn
  <1>6. \A r \in Requests \ {q} : Kept(r)'
    BY <1>2, <1>3
  <1>7. AtCancelWf(q, mem)'
    BY <1>2, <1>3 DEF AtCancelWf, HasRow
  <1>8. InProgress(c)'
    BY <1>2, <1>3, <1>5, <1>6, <1>7 DEF InProgress, At
  <1>9. QED
    BY <1>1, <1>2, <1>3, <1>4, <1>6, <1>8, GoesOn, SerialGoOn

\* It is cancelled as its request was.
LEMMA SerialCancelWorkflowSave == ASSUME IInv, Serial, NEW c \in Processes, CancelWorkflowSave(c) PROVE Serial'
  <1>1. ~At(c, "idle") /\ ~At(c, "decide") /\ At(c, "saveWf") /\ TypeOK
    BY DEF CancelWorkflowSave, At, IInv
  <1>2. PICK q \in Requests, mem \in Row :
          /\ q = call[c].q /\ mem = call[c].mem /\ events = {} /\ AtCancelWf(q, mem)
          /\ UNCHANGED provisioned
             /\ (\A r \in Requests \ {q} : wf'[r] = wf[r] /\ row'[r] = row[r])
             => \A r \in Requests \ {q} : Kept(r)'
    BY <1>1, SerialCall
  <1>3. /\ "link" \in PCs \ {"idle", "decide"} /\ UNCHANGED <<provisioned, row, events, edited, overlaps, faults>>
        /\ Done(c) /\ wf' = [wf EXCEPT ![q] = "cancelled"]
    BY <1>2 DEF PCs, CancelWorkflowSave, SaveWorkflow
  <1>4. wf'[q] = "cancelled" /\ \A r \in Requests \ {q} : wf'[r] = wf[r]
    BY <1>1, <1>3 DEF TypeOK
  <1>5. Apart' /\ Kinded'
    BY <1>3, SerialSameRows
  <1>6. Kept(q)'
    BY <1>2, <1>3, <1>4 DEF AtCancelWf, Kept, HasRow
  <1>7. \A r \in Requests \ {q} : Kept(r)'
    BY <1>2, <1>3, <1>4
  <1>8. QED
    BY <1>1, <1>2, <1>3, <1>5, <1>6, <1>7, GoesOn, SerialGoOn

\* What an edit moved is noted.
LEMMA SerialEditSave == ASSUME IInv, Serial, NEW c \in Processes, EditSave(c) PROVE Serial'
  <1>1. ~At(c, "idle") /\ ~At(c, "decide") /\ At(c, "edit") /\ TypeOK /\ Apart /\ Kinded
    BY DEF EditSave, At, IInv, Serial
  <1>2. PICK q \in Requests, mem \in Row :
          /\ q = call[c].q /\ mem = call[c].mem /\ events = {} /\ AtEdit(q, mem)
          /\ UNCHANGED provisioned
             /\ (\A r \in Requests \ {q} : wf'[r] = wf[r] /\ row'[r] = row[r])
             => \A r \in Requests \ {q} : Kept(r)'
    BY <1>1, SerialCall
  <1>3. /\ "link" \in PCs \ {"idle", "decide"} /\ UNCHANGED <<provisioned, wf, events, overlaps, faults>>
        /\ Done(c) /\ Write(q, mem)
        /\ edited' = IF mem.span = row[q].span THEN edited ELSE edited \union {q}
    BY <1>2 DEF PCs, EditSave
  <1>4. /\ row[q] \in Row /\ mem.kind = row[q].kind /\ mem.status = row[q].status /\ mem.linked = row[q].linked
    <2>1. row[q] \in Row /\ mem = [row[q] EXCEPT !.span = mem.span]
      BY <1>2 DEF AtEdit
    <2>2. /\ [row[q] EXCEPT !.span = mem.span].kind = row[q].kind
          /\ [row[q] EXCEPT !.span = mem.span].status = row[q].status
          /\ [row[q] EXCEPT !.span = mem.span].linked = row[q].linked
      BY <2>1 DEF Row
    <2>3. QED
      BY <2>1, <2>2
  <1>5. row'[q] = mem /\ \A r \in Requests \ {q} : row'[r] = row[r]
    BY <1>1, <1>3, WriteOne
  <1>6. Apart'
    <2>1. mem.status \in {"pending", "processing", "approved"} => Holds(q)
      BY <1>4 DEF Holds
    <2>2. ASSUME NEW p \in Requests \ {q}, Sharing(p, mem.span), Holds(q)
          PROVE  \/ row[p].kind = "leave" /\ mem.kind = "leave"
                 \/ row[p].kind # mem.kind /\ q \in edited'
                 \/ mem.span = row[q].span /\ mem.kind = row[q].kind
      BY <1>2, <1>3, <1>4, <2>2 DEF AtEdit
    <2>3. edited \subseteq edited'
      BY <1>3
    <2>4. QED
      BY <1>1, <1>3, <2>1, <2>2, <2>3, ApartSave
  <1>7. Kinded'
    <2>1. UNCHANGED provisioned /\ row[q] # NoRow
      BY <1>3, <1>4, RowType
    <2>2. mem.kind = "leave" \/ (~provisioned /\ mem.status # "processing")
      BY <1>1, <1>2, <1>4, <2>1 DEF Kinded
    <2>3. QED
      BY <1>1, <1>3, <2>1, <2>2, KindedSave
  <1>8. Kept(q)'
    <2>1. Kept(q) /\ (row[q] # NoRow)
      BY <1>2, <1>4, RowType DEF AtEdit
    <2>2. QED
      BY <1>3, <1>4, <1>5, <2>1 DEF Kept, HasRow
  <1>9. \A r \in Requests \ {q} : Kept(r)'
    BY <1>2, <1>3, <1>5
  <1>10. QED
    BY <1>1, <1>2, <1>3, <1>6, <1>7, <1>8, <1>9, GoesOn, SerialGoOn

\* The listener gives the request the status of its workflow.
LEMMA SerialMarkSave == ASSUME IInv, Serial, NEW c \in Processes, MarkSave(c) PROVE Serial'
  <1>1. ~At(c, "idle") /\ ~At(c, "decide") /\ At(c, "mark") /\ TypeOK /\ Apart /\ Kinded
    BY DEF MarkSave, At, IInv, Serial
  <1>2. PICK q \in Requests, mem \in Row :
          /\ q = call[c].q /\ mem = call[c].mem /\ events = {} /\ AtMark(q, mem)
          /\ UNCHANGED provisioned
             /\ (\A r \in Requests \ {q} : wf'[r] = wf[r] /\ row'[r] = row[r])
             => \A r \in Requests \ {q} : Kept(r)'
    BY <1>1, SerialCall
  <1>3. /\ "link" \in PCs \ {"idle", "decide"} /\ UNCHANGED <<provisioned, wf, events, edited, overruled, overlaps, faults>>
        /\ Done(c) /\ Write(q, mem)
    BY <1>2 DEF PCs, MarkSave, history
  <1>4. /\ ~provisioned /\ row[q] \in Row /\ row[q].kind # "leave" /\ row[q].linked /\ row[q].status = "pending"
        /\ wf[q] \in {"approved", "rejected"} /\ mem = [row[q] EXCEPT !.status = wf[q]]
    BY <1>2 DEF AtMark, Announced, HasRow
  <1>5. mem.kind = row[q].kind /\ mem.status = wf[q] /\ mem.linked /\ mem.span = row[q].span
    <2>1. /\ [row[q] EXCEPT !.status = wf[q]].kind = row[q].kind
          /\ [row[q] EXCEPT !.status = wf[q]].status = wf[q]
          /\ [row[q] EXCEPT !.status = wf[q]].linked = row[q].linked
          /\ [row[q] EXCEPT !.status = wf[q]].span = row[q].span
      BY <1>4 DEF Row
    <2>2. QED
      BY <1>4, <2>1
  <1>6. row'[q] = mem /\ \A r \in Requests \ {q} : row'[r] = row[r]
    BY <1>1, <1>3, WriteOne
  <1>7. Apart'
    <2>1. Holds(q)
      BY <1>4 DEF Holds
    <2>2. QED
      BY <1>1, <1>3, <1>5, <2>1, ApartSave
  <1>8. Kinded'
    BY <1>1, <1>3, <1>4, <1>5 DEF TypeOK, Kinded, Write
  <1>9. Kept(q)'
    BY <1>3, <1>4, <1>5, <1>6 DEF Kept, HasRow
  <1>10. \A r \in Requests \ {q} : Kept(r)'
    BY <1>2, <1>3, <1>6
  <1>11. QED
    BY <1>1, <1>2, <1>3, <1>7, <1>8, <1>9, <1>10, GoesOn, SerialGoOn

\* A verdict is announced when nothing else is in progress.
LEMMA SerialDecideSave ==
  ASSUME IInv, Serial, NEW c \in Processes, DecideSave(c), faults = 0, faults' = 0
  PROVE  Serial'
  <1>1. ~At(c, "idle") /\ At(c, "decide") /\ Done(c) /\ UNCHANGED <<provisioned, row, edited>>
    BY DEF DecideSave, At
  <1>2. InProgress(c) /\ \A d \in Processes : d # c => At(d, "idle") /\ call'[d] = call[d]
    <2>1. \A d \in Processes : d # c => call'[d] = call[d]
      BY <1>1 DEF Done, IInv, TypeOK
    <2>2. QED
      BY <1>1, <2>1, SerialOthers
  <1>3. PICK q \in Requests : /\ q = call[c].q /\ events = {} /\ AtDecide(q)
                              /\ \A r \in Requests \ {q} : Kept(r)
    BY <1>1, <1>2 DEF InProgress, IInv, Named
  <1>4. PICK v \in Verdicts : events' = events \union {<<q, v>>} /\ wf' = [wf EXCEPT ![q] = v]
    BY <1>3, BoundsAssumption DEF DecideSave, SaveWorkflow, Fault
  <1>5. wf'[q] = v /\ \A r \in Requests \ {q} : wf'[r] = wf[r]
    BY <1>4 DEF IInv, TypeOK
  <1>6. Apart' /\ Kinded'
    BY <1>1, SerialSameRows
  <1>7. At(c, "idle")'
    BY <1>1, GoesOn DEF IInv, TypeOK, Done, At, NoCall
  <1>8. Announced(q)'
    BY <1>1, <1>3, <1>5 DEF AtDecide, Kept, Announced, HasRow, Verdicts
  <1>9. ASSUME NEW r \in Requests \ {q} PROVE Kept(r)'
    BY <1>1, <1>3, <1>5, OthersKept DEF IInv
  <1>10. AtRest'
    BY <1>3, <1>4, <1>5, <1>8, <1>9 DEF AtRest
  <1>11. QED
    BY <1>2, <1>6, <1>7, <1>10, SerialMove

\* The listener finds the pending request, or none on a provisioned tenant.
LEMMA SerialMarkRead ==
  ASSUME IInv, Serial, NEW c \in Listeners, NEW q \in Requests, NEW v \in Verdicts, MarkRead(c, q, v),
         faults = 0, faults' = 0
  PROVE  Serial'
  <1>1. /\ <<q, v>> \in events /\ events' = events \ {<<q, v>>}
        /\ UNCHANGED <<provisioned, row, wf, edited, overlaps>>
    BY DEF MarkRead, history
  <1>2. \A d \in Processes : At(d, "idle")
    BY <1>1 DEF Serial, InProgress
  <1>3. /\ events = {<<q, wf[q]>>} /\ Announced(q) /\ v = wf[q]
        /\ \A r \in Requests \ {q} : Kept(r)
    BY <1>1, <1>2 DEF Serial, AtRest
  <1>4. events' = {}
    BY <1>1, <1>3
  <1>5. Apart' /\ Kinded'
    BY <1>1, SerialSameRows
  <1>6. \A r \in Requests \ {q} : Kept(r)'
    BY <1>1, <1>3, OthersKept DEF IInv
  <1>7. CASE ~Exists(q) /\ UNCHANGED call
    <2>1. provisioned /\ row[q] = NoRow
      BY <1>3, <1>7, RowType DEF Announced, HasRow, Exists
    <2>2. Kept(q)'
      BY <1>1, <2>1 DEF Kept
    <2>3. \A d \in Processes : At(d, "idle")'
      BY <1>2, <1>7 DEF At
    <2>4. AtRest'
      BY <1>4, <1>6, <2>2 DEF AtRest
    <2>5. QED
      BY <1>5, <2>3, <2>4 DEF Serial, One
  <1>8. CASE /\ At(c, "idle") /\ Exists(q)
             /\ call' = [call EXCEPT ![c] = [pc |-> "mark", q |-> q, mem |-> [row[q] EXCEPT !.status = v]]]
    <2>1. c \in Processes
      BY DEF Processes
    <2>2. /\ call'[c] = [pc |-> "mark", q |-> q, mem |-> [row[q] EXCEPT !.status = v]]
          /\ \A d \in Processes : d # c => call'[d] = call[d]
      BY <1>8, <2>1 DEF IInv, TypeOK
    <2>3. ~provisioned
      BY <1>3, <1>8 DEF Announced, Exists
    <2>4. AtMark(q, [row[q] EXCEPT !.status = v])'
      BY <1>1, <1>3, <2>3 DEF AtMark, Announced, HasRow
    <2>5. InProgress(c)'
      BY <1>1, <1>4, <1>6, <2>2, <2>4 DEF InProgress, At
    <2>6. ~At(c, "idle")'
      BY <2>2 DEF At
    <2>7. QED
      BY <1>2, <1>5, <2>1, <2>2, <2>5, <2>6, SerialMove
  <1>9. QED
    BY <1>7, <1>8, BoundsAssumption DEF MarkRead, Fault

\* A leave is decided when nothing else is in progress.
LEMMA SerialDecideLeave ==
  ASSUME IInv, Serial, NEW q \in Requests, DecideLeave(q), overlaps' = 0
  PROVE  Serial'
  <1>1. /\ row[q].kind = "leave" /\ row[q].status \in {"pending", "processing"}
        /\ UNCHANGED <<provisioned, wf, events, call, edited, faults>>
    BY DEF DecideLeave, history
  <1>2. events = {} /\ (\A c \in Processes : At(c, "idle")) /\ \A r \in Requests : Kept(r)
    BY SerialBegin DEF DecideLeave
  <1>3. row[q] \in Row
    BY <1>1, RowType DEF IInv, TypeOK
  <1>4. PICK mem \in Row : Write(q, mem) /\ mem.kind = "leave" /\ mem.span = row[q].span
    <2>1. PICK st \in Statuses : Write(q, [row[q] EXCEPT !.status = st])
      BY DEF DecideLeave
    <2>2. /\ [row[q] EXCEPT !.status = st] \in Row /\ [row[q] EXCEPT !.status = st].kind = "leave"
          /\ [row[q] EXCEPT !.status = st].span = row[q].span
      BY <1>1, <1>3 DEF Row
    <2>3. QED
      BY <2>1, <2>2
  <1>5. row'[q] = mem /\ \A r \in Requests \ {q} : row'[r] = row[r]
    BY <1>4, WriteOne DEF IInv
  <1>6. Apart'
    <2>1. Holds(q) /\ TypeOK /\ Apart
      BY <1>1 DEF Holds, IInv, Serial
    <2>2. QED
      BY <1>1, <1>4, <2>1, ApartSave
  <1>7. Kinded'
    BY <1>1, <1>4 DEF IInv, Serial, TypeOK, Kinded, Write
  <1>8. wf[q] = "none"
    BY <1>1, <1>2, RowType DEF Kept, HasRow
  <1>9. \A r \in Requests : Kept(r)'
    <2>1. Kept(q)'
      BY <1>1, <1>8 DEF Kept
    <2>2. \A r \in Requests \ {q} : Kept(r)'
      BY <1>1, <1>2, <1>5, OthersKept DEF IInv
    <2>3. QED
      BY <2>1, <2>2
  <1>10. \A c \in Processes : At(c, "idle")'
    BY <1>1, <1>2 DEF At
  <1>11. QED
    BY <1>1, <1>2, <1>6, <1>7, <1>9, <1>10 DEF Serial, One, AtRest

-----------------------------------------------------------------------------
(* Theorems on operations that do not overlap *)

SerialUnlessRaced == ~raced /\ faults = 0 => Serial

LEMMA InitSerial == Init => Serial
  <1> SUFFICES ASSUME Init PROVE Serial
    OBVIOUS
  <1>1. \A c \in Processes : At(c, "idle")
    BY DEF Init, At, NoCall
  <1>2. \A q \in Requests : Kept(q) /\ row[q] = NoRow /\ ~Holds(q)
    BY RowType DEF Init, Kept, Holds
  <1>3. Apart /\ Kinded
    BY <1>2 DEF Apart, Kinded, Clash
  <1>4. AtRest
    BY <1>2 DEF Init, AtRest
  <1>5. QED
    BY <1>1, <1>3, <1>4 DEF Serial, One

\* Overlaps and faults are never forgotten.
LEMMA Noted ==
  ASSUME IInv, [Next]_vars, ~raced', faults' = 0
  PROVE  ~raced /\ faults = 0 /\ overlaps' = 0
  <1>1. overlaps \in Nat /\ faults \in Nat /\ overlaps' \in Nat
    BY NextIInv, BoundsAssumption DEF IInv, TypeOK
  <1>2. overlaps' >= overlaps /\ faults' >= faults
    <2>1. CASE UNCHANGED vars
      BY <1>1, <2>1 DEF vars
    <2>2. ASSUME NEW c \in Processes, Step(c) PROVE UNCHANGED overlaps /\ faults' >= faults
      <3>1. CASE DecideSave(c)
        BY <1>1, <3>1 DEF DecideSave, Fault
      <3>2. CASE ~DecideSave(c)
        BY <1>1, <2>2, <3>2
        DEF Step, Insert, OpenWorkflow, Link, CancelSave, CancelWorkflow, CancelWorkflowSave, EditSave, MarkSave
      <3>3. QED
        BY <3>1, <3>2
    <2>3. ASSUME Overlap PROVE overlaps' >= overlaps
      BY <1>1, <2>3 DEF Overlap
    <2>4. ASSUME NEW c \in Calls, NEW q \in Requests, Start(c, q) PROVE Overlap /\ UNCHANGED faults
      BY <2>4 DEF Start, CreateRead, CancelRead, EditRead, DecideRead, Begin
    <2>5. ASSUME NEW q \in Requests, DecideLeave(q) PROVE Overlap /\ faults' >= faults
      BY <1>1, <2>5 DEF DecideLeave
    <2>6. ASSUME NEW q \in Requests, NEW v \in Verdicts, Listen(q, v)
          PROVE  UNCHANGED overlaps /\ faults' >= faults
      BY <1>1, <2>6 DEF Listen, MarkRead, Fault
    <2>7. QED
      BY <1>1, <2>1, <2>2, <2>3, <2>4, <2>5, <2>6 DEF Next
  <1>3. QED
    BY <1>1, <1>2 DEF raced

LEMMA NextSerial == IInv /\ SerialUnlessRaced /\ [Next]_vars => SerialUnlessRaced'
  <1> SUFFICES ASSUME IInv, SerialUnlessRaced, [Next]_vars, ~raced', faults' = 0 PROVE Serial'
    BY DEF SerialUnlessRaced
  <1>1. Serial /\ overlaps' = 0 /\ faults = 0
    BY Noted DEF SerialUnlessRaced
  <1>2. ASSUME NEW c \in Processes, Step(c) PROVE Serial'
    BY <1>1, <1>2, SerialInsert, SerialOpen, SerialLink, SerialCancelSave, SerialCancelWorkflow,
       SerialCancelWorkflowSave, SerialDecideSave, SerialEditSave, SerialMarkSave DEF Step
  <1>3. ASSUME NEW c \in Calls, NEW q \in Requests, Start(c, q) PROVE Serial'
    BY <1>1, <1>3, SerialCreate, SerialCancelRead, SerialEditRead, SerialDecideRead DEF Start
  <1>4. ASSUME NEW q \in Requests, NEW v \in Verdicts, Listen(q, v) PROVE Serial'
    BY <1>1, <1>4, SerialMarkRead DEF Listen
  <1>5. ASSUME NEW q \in Requests, DecideLeave(q) PROVE Serial'
    BY <1>1, <1>5, SerialDecideLeave
  <1>6. CASE UNCHANGED vars
    <2>1. Apart' /\ Kinded' /\ One'
      BY <1>1, <1>6 DEF vars, Serial, One, Apart, Kinded, At, Clash, Holds
    <2>2. AtRest => AtRest'
      BY <1>6 DEF vars, AtRest, Kept, HasRow, Announced
    <2>3. \A c \in Processes : InProgress(c) => InProgress(c)'
      <3>1. \A q : Kept(q)' <=> Kept(q)
        BY <1>6 DEF vars, Kept, HasRow
      <3>2. \A q, mem : /\ AtInsert(q, mem)' <=> AtInsert(q, mem)
                        /\ AtEdit(q, mem)' <=> AtEdit(q, mem)
        BY <1>6 DEF vars, AtInsert, AtEdit, Sharing, Holds, Kept, HasRow
      <3>3. \A q, mem : /\ \A st : AtWorkflow(q, mem, st)' <=> AtWorkflow(q, mem, st)
                        /\ AtCancel(q, mem)' <=> AtCancel(q, mem)
                        /\ AtCancelWf(q, mem)' <=> AtCancelWf(q, mem)
                        /\ AtDecide(q)' <=> AtDecide(q)
                        /\ AtMark(q, mem)' <=> AtMark(q, mem)
        BY <1>6 DEF vars, AtWorkflow, AtCancel, AtCancelWf, AtDecide, AtMark, Announced, Kept, HasRow
      <3>4. QED
        <4>1. UNCHANGED <<call, events>>
          BY <1>6 DEF vars
        <4>2. SUFFICES ASSUME NEW c \in Processes, InProgress(c) PROVE InProgress(c)'
          OBVIOUS
        <4>3. PICK q, mem : q = call[c].q /\ mem = call[c].mem /\ q = call'[c].q /\ mem = call'[c].mem
          BY <4>1
        <4>4. \A pc : At(c, pc)' <=> At(c, pc)
          BY <4>1 DEF At
        <4>5. /\ events' = {} /\ \A r \in Requests \ {q} : Kept(r)'
              /\ At(c, "insert")' => AtInsert(q, mem)'
              /\ At(c, "edit")' => AtEdit(q, mem)'
          BY <3>1, <3>2, <4>1, <4>2, <4>3, <4>4 DEF InProgress
        <4>6. /\ At(c, "workflow")' => AtWorkflow(q, mem, "none")'
              /\ At(c, "link")' => AtWorkflow(q, mem, "open")'
              /\ At(c, "cancel")' => AtCancel(q, mem)'
              /\ At(c, "cancelWf")' => AtCancelWf(q, mem)'
              /\ At(c, "saveWf")' => AtCancelWf(q, mem)'
              /\ At(c, "decide")' => AtDecide(q)'
              /\ At(c, "mark")' => AtMark(q, mem)'
          BY <3>3, <4>2, <4>3, <4>4 DEF InProgress
        <4>7. QED
          BY <4>3, <4>5, <4>6 DEF InProgress
    <2>4. QED
      BY <1>1, <1>6, <2>1, <2>2, <2>3 DEF vars, Serial, At
  <1>7. QED
    BY <1>2, <1>3, <1>4, <1>5, <1>6 DEF Next

LEMMA SerialInvariant == Spec => []SerialUnlessRaced
  <1>1. Init => SerialUnlessRaced
    BY InitSerial DEF SerialUnlessRaced
  <1>2. QED
    BY <1>1, NextSerial, Invariant, PTL DEF Spec

\* As long as operations do not overlap, the queries before an insertion or an
\* edit keep requests off each other's days, but for leaves and moved requests.
THEOREM DaysApart == Spec => []UnracedDaysApart
  <1>1. SerialUnlessRaced => UnracedDaysApart
    BY DEF SerialUnlessRaced, Serial, Apart, UnracedDaysApart
  <1>2. QED
    BY <1>1, SerialInvariant, PTL

\* When operations neither overlap nor fail, a request of a legacy tenant has
\* what its workflow gave, and a provisioned tenant's workflow has no request.
THEOREM WorkflowsAgree == Spec => []UnracedAgree
  <1>1. SerialUnlessRaced => UnracedAgree
    <2> SUFFICES ASSUME Serial, ~Busy, NEW q \in Requests, wf[q] # "none"
                 PROVE  IF provisioned THEN ~Exists(q)
                        ELSE row[q].linked /\ row[q].status = IF wf[q] = "open" THEN "pending" ELSE wf[q]
      BY DEF SerialUnlessRaced, UnracedAgree
    <2>1. Kept(q)
      BY DEF Serial, AtRest, Busy
    <2>2. QED
      BY <2>1 DEF Kept, Exists
  <1>2. QED
    BY <1>1, SerialInvariant, PTL

=============================================================================

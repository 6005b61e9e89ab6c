-------------------------- MODULE Attendance_proofs --------------------------
(***************************************************************************)
(* Proofs about Attendance for every number of punches, days, timesheets   *)
(* and managers, both transaction modes and every bound.                   *)
(***************************************************************************)
EXTENDS Attendance, FiniteSetTheorems, TLAPS

Punch == [pc : {"unused", "read", "insert", "sheet", "end", "commit", "done"},
          kind : {"none", "in", "out"}, day : 0 .. MaxDay, row : BOOLEAN,
          status : {"none", "pending", "approved", "rejected"},
          ref : Sheets \union {None}, raced : BOOLEAN, failed : BOOLEAN]

(* The strengthening.  The row of a check-in is the last step of its call,  *)
(* so that no punch changes the status of a check-in that a manager has     *)
(* read; and a bulk decision that is not late has a pending one.            *)

RowIsLast == \A p \in Punches : punch[p].kind = "in" /\ punch[p].row => punch[p].pc = "done"

\* No decision, or one on a check-in that is there.
Pending ==
  \A m \in Managers : decision[m] # Idle =>
    /\ decision[m].p \in Ins
    /\ decision[m].pc = "bulk" /\ ~decision[m].late => punch[decision[m].p].status = "pending"

IInv == TypeOK /\ RowIsLast /\ Pending

-----------------------------------------------------------------------------
(* Lemmas *)

\* A decision in progress is a record with a punch.
LEMMA DecidingType ==
  ASSUME TypeOK, NEW m \in Managers, decision[m] # Idle
  PROVE  decision[m] \in [pc : {"save", "bulk"}, p : Punches, late : BOOLEAN]
  BY DEF TypeOK, Deciding, Idle

\* A step of the punches that leaves complete check-ins as they are keeps
\* what a decision has read.
LEMMA PunchStep ==
  ASSUME IInv, UNCHANGED decision, punch' \in [Punches -> Punch],
         \A p \in Punches : \/ /\ punch'[p].kind = punch[p].kind /\ punch'[p].row = punch[p].row
                               /\ punch'[p].status = punch[p].status /\ punch'[p].pc = punch[p].pc
                            \/ /\ p \notin Ins
                               /\ punch'[p].kind = "in" /\ punch'[p].row => punch'[p].pc = "done"
  PROVE  RowIsLast' /\ Pending'
  <1>1. RowIsLast'
    BY DEF IInv, RowIsLast, Ins, Rows
  <1>2. ASSUME NEW p \in Ins PROVE p \in Ins' /\ punch'[p].status = punch[p].status
    BY <1>2 DEF Ins, Rows
  <1>3. Pending'
    BY <1>2 DEF IInv, Pending
  <1>4. QED
    BY <1>1, <1>3

\* Marking calls as raced keeps everything else.
LEMMA RaceType ==
  ASSUME TypeOK, NEW S, NEW T
  PROVE  /\ RacePunches(S) \in [Punches -> Punch]
         /\ RaceSheets(T) \in [Sheets -> [pc : {"unused", "look", "save", "open", "ended"}, raced : BOOLEAN]]
         /\ \A p \in Punches : /\ RacePunches(S)[p].kind = punch[p].kind /\ RacePunches(S)[p].row = punch[p].row
                               /\ RacePunches(S)[p].status = punch[p].status /\ RacePunches(S)[p].pc = punch[p].pc
  <1>1. \A p \in Punches : punch[p] \in Punch /\ [punch[p] EXCEPT !.raced = TRUE] \in Punch
    <2>1. \A p \in Punches : punch[p] \in Punch
      BY DEF TypeOK, Punch
    <2>2. \A r \in Punch : [r EXCEPT !.raced = TRUE] \in Punch
      BY DEF Punch
    <2>3. QED
      BY <2>1, <2>2
  <1>2. \A w \in Sheets : [sheet[w] EXCEPT !.raced = TRUE] \in [pc : {"unused", "look", "save", "open", "ended"}, raced : BOOLEAN]
    BY ZenonT(60) DEF TypeOK
  <1>3. RacePunches(S) \in [Punches -> Punch]
    BY <1>1 DEF RacePunches
  <1>4. RaceSheets(T) \in [Sheets -> [pc : {"unused", "look", "save", "open", "ended"}, raced : BOOLEAN]]
    BY <1>2 DEF RaceSheets, TypeOK
  <1>5. \A p \in Punches : /\ RacePunches(S)[p].kind = punch[p].kind /\ RacePunches(S)[p].row = punch[p].row
                           /\ RacePunches(S)[p].status = punch[p].status /\ RacePunches(S)[p].pc = punch[p].pc
    BY <1>1 DEF RacePunches, Punch
  <1>6. QED
    BY <1>3, <1>4, <1>5

\* A row of no punch.
LEMMA NoPunchType == NoPunch \in Punch /\ ~NoPunch.row
  BY NAssumption DEF NoPunch, Punch

\* A punch begins where there was none.
LEMMA ArriveStep == ASSUME IInv, NEW p \in Punches, NEW kind \in {"in", "out"}, Arrive(p, kind) PROVE IInv'
  <1>1. punch[p] = NoPunch
    BY NAssumption DEF Arrive, Punches
  <1>2. PICK new \in Punch : /\ ~new.row
                             /\ punch' = [RacePunches(InCalls) EXCEPT ![p] = new]
    <2>1. PICK new : new = [NoPunch EXCEPT !.pc = "read", !.kind = kind, !.day = today, !.raced = InCalls # {}]
      OBVIOUS
    <2>2. PICK b \in BOOLEAN : b = (InCalls # {})
      OBVIOUS
    <2>3. new = [NoPunch EXCEPT !.pc = "read", !.kind = kind, !.day = today, !.raced = b]
      BY <2>1, <2>2
    <2>4. today \in 0 .. MaxDay
      BY NAssumption DEF IInv, TypeOK
    <2>5. new \in Punch /\ ~new.row
      BY <2>3, <2>4, NAssumption DEF NoPunch, Punch
    <2>6. punch' = [RacePunches(InCalls) EXCEPT ![p] = new]
      BY <2>1 DEF Arrive
    <2>7. QED
      BY <2>5, <2>6
  <1>3. RacePunches(InCalls) \in [Punches -> Punch]
    BY RaceType DEF IInv
  <1>4. punch' \in [Punches -> Punch]
    BY <1>2, <1>3
  <1>5. TypeOK'
    <2>1. sheet' \in [Sheets -> [pc : {"unused", "look", "save", "open", "ended"}, raced : BOOLEAN]]
      BY RaceType DEF IInv, Arrive
    <2>2. overlaps' \in 0 .. MaxOverlaps
      BY BoundsAssumption DEF IInv, TypeOK, Arrive, Enter
    <2>3. QED
      BY <1>4, <2>1, <2>2 DEF IInv, TypeOK, Arrive, Punch
  <1>6. RowIsLast' /\ Pending'
    <2>1. p \notin Ins /\ ~punch'[p].row
      BY <1>1, <1>2, <1>3, NoPunchType DEF Ins, Rows
    <2>2. \A q \in Punches : q # p => punch'[q] = RacePunches(InCalls)[q]
      BY <1>2, <1>3
    <2>3. \A q \in Punches : \/ /\ punch'[q].kind = punch[q].kind /\ punch'[q].row = punch[q].row
                                /\ punch'[q].status = punch[q].status /\ punch'[q].pc = punch[q].pc
                             \/ /\ q \notin Ins
                                /\ punch'[q].kind = "in" /\ punch'[q].row => punch'[q].pc = "done"
      BY <2>1, <2>2, RaceType DEF IInv
    <2>4. QED
      BY <1>4, <2>3, PunchStep DEF Arrive
  <1>7. QED
    BY <1>5, <1>6 DEF IInv

\* A call of a punch goes on; before its row is there nobody has read it.
LEMMA CallStep ==
  ASSUME IInv, NEW p \in Punches, NEW new \in Punch, punch' = [punch EXCEPT ![p] = new],
         p \notin Ins, new.kind = "in" /\ new.row => new.pc = "done",
         sheet' \in [Sheets -> [pc : {"unused", "look", "save", "open", "ended"}, raced : BOOLEAN]],
         UNCHANGED <<provisioned, leads, today, ending, decision, decisions, overlaps>>
  PROVE  IInv'
  <1>1. punch' \in [Punches -> Punch]
    BY DEF IInv, TypeOK, Punch
  <1>2. punch'[p] = new /\ \A q \in Punches : q # p => punch'[q] = punch[q]
    BY DEF IInv, TypeOK
  <1>3. RowIsLast' /\ Pending'
    BY <1>1, <1>2, PunchStep
  <1>4. TypeOK'
    BY <1>1 DEF IInv, TypeOK, Punch
  <1>5. QED
    BY <1>3, <1>4 DEF IInv

\* The check-in that is complete is in no call.
LEMMA NotComplete ==
  ASSUME IInv, NEW p \in Punches, punch[p].pc # "done" PROVE p \notin Ins /\ punch[p] \in Punch
  BY DEF IInv, RowIsLast, Ins, Rows, TypeOK, Punch

\* A refused punch leaves nothing.
LEMMA ReadStep == ASSUME IInv, NEW p \in Punches, Read(p) PROVE IInv'
  <1>1. p \notin Ins /\ punch[p] \in Punch
    BY NotComplete DEF Read
  <1>2. PICK new : /\ punch' = [punch EXCEPT ![p] = new]
                   /\ new = NoPunch \/ new = [punch[p] EXCEPT !.pc = "insert"]
    <2>1. CASE (punch[p].kind = "in") = Session
      BY <2>1 DEF Read
    <2>2. CASE (punch[p].kind = "in") # Session
      BY <2>2 DEF Read
    <2>3. QED
      BY <2>1, <2>2
  <1>3. new \in Punch
    BY <1>1, <1>2, NoPunchType DEF Punch
  <1>4. new.kind = "in" /\ new.row => new.pc = "done"
    BY <1>1, <1>2, NoPunchType DEF Read, Ins, Rows, Punch
  <1>5. QED
    BY <1>1, <1>2, <1>3, <1>4, CallStep DEF Read, IInv, TypeOK

\* The row of a check-in ends its call.
LEMMA InsertStep == ASSUME IInv, NEW p \in Punches, Insert(p) PROVE IInv'
  <1>1. p \notin Ins /\ punch[p] \in Punch
    BY NotComplete DEF Insert
  <1>2. CASE punch[p].kind = "in"
    <2>1. PICK st \in {"approved", "pending"} :
            punch' = [punch EXCEPT ![p] = [punch[p] EXCEPT !.pc = "done", !.row = TRUE, !.status = st]]
      BY <1>2 DEF Insert, IInv, TypeOK
    <2>2. /\ [punch[p] EXCEPT !.pc = "done", !.row = TRUE, !.status = st] \in Punch
          /\ [punch[p] EXCEPT !.pc = "done", !.row = TRUE, !.status = st].pc = "done"
      BY <1>1 DEF Punch
    <2>3. QED
      BY <1>1, <2>1, <2>2, CallStep DEF Insert, IInv, TypeOK
  <1>3. CASE punch[p].kind # "in"
    <2>1. PICK b \in BOOLEAN : punch' = [punch EXCEPT ![p] = [punch[p] EXCEPT !.pc = "sheet", !.row = b]]
      <3>1. PICK b \in BOOLEAN : b = ~provisioned
        OBVIOUS
      <3>2. punch' = [punch EXCEPT ![p] = [punch[p] EXCEPT !.pc = "sheet", !.row = b]]
        BY <1>3, <3>1 DEF Insert, IInv, TypeOK
      <3>3. QED
        BY <3>2
    <2>2. /\ [punch[p] EXCEPT !.pc = "sheet", !.row = b] \in Punch
          /\ [punch[p] EXCEPT !.pc = "sheet", !.row = b].kind # "in"
      BY <1>1, <1>3 DEF Punch
    <2>3. QED
      BY <1>1, <2>1, <2>2, CallStep DEF Insert, IInv, TypeOK
  <1>4. QED
    BY <1>2, <1>3

\* The end of the timesheet and of the transaction of a check-out.
LEMMA EndStep == ASSUME IInv, NEW p \in Punches, EndRead(p) \/ EndSave(p) \/ Commit(p) PROVE IInv'
  <1>1. p \notin Ins /\ punch[p] \in Punch
    BY NotComplete DEF EndRead, EndSave, Commit
  <1>2. ~(punch[p].kind = "in" /\ punch[p].row)
    BY <1>1 DEF Ins, Rows
  <1>3. CASE EndRead(p)
    <2>1. PICK pc \in {"end", "commit"}, ref \in Sheets \union {None} :
            punch' = [punch EXCEPT ![p] = [punch[p] EXCEPT !.pc = pc, !.ref = ref]]
      <3>1. CASE \E w \in Sheets : Open(w)
        BY <1>3, <3>1 DEF EndRead
      <3>2. CASE ~\E w \in Sheets : Open(w)
        <4>1. punch' = [punch EXCEPT ![p] = [punch[p] EXCEPT !.pc = "commit"]]
          BY <1>3, <3>2 DEF EndRead
        <4>2. [punch[p] EXCEPT !.pc = "commit"] = [punch[p] EXCEPT !.pc = "commit", !.ref = punch[p].ref]
              /\ punch[p].ref \in Sheets \union {None}
          BY <1>1 DEF Punch
        <4>3. QED
          BY <4>1, <4>2
      <3>3. QED
        BY <3>1, <3>2
    <2>2. /\ [punch[p] EXCEPT !.pc = pc, !.ref = ref] \in Punch
          /\ [punch[p] EXCEPT !.pc = pc, !.ref = ref].kind = punch[p].kind
          /\ [punch[p] EXCEPT !.pc = pc, !.ref = ref].row = punch[p].row
      BY <1>1 DEF Punch
    <2>3. QED
      BY <1>1, <1>2, <1>3, <2>1, <2>2, CallStep DEF EndRead, IInv, TypeOK
  <1>4. CASE EndSave(p)
    <2>1. punch' = [punch EXCEPT ![p] = [punch[p] EXCEPT !.pc = "commit", !.ref = None]]
      BY <1>4 DEF EndSave
    <2>2. /\ [punch[p] EXCEPT !.pc = "commit", !.ref = None] \in Punch
          /\ [punch[p] EXCEPT !.pc = "commit", !.ref = None].kind = punch[p].kind
          /\ [punch[p] EXCEPT !.pc = "commit", !.ref = None].row = punch[p].row
      BY <1>1 DEF Punch
    <2>3. sheet' \in [Sheets -> [pc : {"unused", "look", "save", "open", "ended"}, raced : BOOLEAN]]
      BY <1>4 DEF EndSave, IInv, TypeOK
    <2>4. QED
      BY <1>1, <1>2, <1>4, <2>1, <2>2, <2>3, CallStep DEF EndSave
  <1>5. CASE Commit(p)
    <2>1. punch' = [punch EXCEPT ![p] = [punch[p] EXCEPT !.pc = "done", !.row = TRUE]]
      BY <1>5 DEF Commit
    <2>2. /\ [punch[p] EXCEPT !.pc = "done", !.row = TRUE] \in Punch
          /\ [punch[p] EXCEPT !.pc = "done", !.row = TRUE].pc = "done"
      BY <1>1 DEF Punch
    <2>3. QED
      BY <1>1, <1>5, <2>1, <2>2, CallStep DEF Commit, IInv, TypeOK
  <1>6. QED
    BY <1>3, <1>4, <1>5

\* A call that fails leaves its row or nothing.
LEMMA FailStep == ASSUME IInv, NEW p \in Punches, Fail(p) PROVE IInv'
  <1>1. p \notin Ins /\ punch[p] \in Punch
    BY NotComplete DEF Fail, InCall
  <1>2. PICK new : /\ punch' = [punch EXCEPT ![p] = new]
                   /\ new = NoPunch \/ new = [punch[p] EXCEPT !.pc = "done", !.ref = None, !.failed = TRUE]
    <2>1. CASE punch[p].row
      BY <2>1 DEF Fail
    <2>2. CASE ~punch[p].row
      BY <2>2 DEF Fail
    <2>3. QED
      BY <2>1, <2>2
  <1>3. new \in Punch
    BY <1>1, <1>2, NoPunchType DEF Punch
  <1>4. new.kind = "in" /\ new.row => new.pc = "done"
    BY <1>1, <1>2, NoPunchType DEF Punch
  <1>5. QED
    BY <1>1, <1>2, <1>3, <1>4, CallStep DEF Fail, IInv, TypeOK

\* Timesheets and midnight leave the check-ins alone.
LEMMA SheetStep ==
  ASSUME IInv, \/ EndWorkSave \/ Midnight
               \/ \E w \in Sheets : StartRead(w) \/ StartLook(w) \/ StartSave(w) \/ EndWorkRead(w)
  PROVE  IInv'
  <1>1. CASE Midnight
    <2>1. /\ punch' \in [Punches -> Punch] /\ UNCHANGED decision
          /\ sheet' \in [Sheets -> [pc : {"unused", "look", "save", "open", "ended"}, raced : BOOLEAN]]
          /\ \A p \in Punches : /\ punch'[p].kind = punch[p].kind /\ punch'[p].row = punch[p].row
                                /\ punch'[p].status = punch[p].status /\ punch'[p].pc = punch[p].pc
      BY <1>1, RaceType DEF IInv, Midnight
    <2>2. today' \in 1 .. MaxDay
      BY <1>1, NAssumption DEF IInv, TypeOK, Midnight
    <2>3. TypeOK'
      BY <1>1, <2>1, <2>2 DEF IInv, TypeOK, Midnight, Punch
    <2>4. RowIsLast' /\ Pending'
      BY <2>1, PunchStep
    <2>5. QED
      BY <2>3, <2>4 DEF IInv
  <1>2. ASSUME UNCHANGED <<provisioned, leads, today, punch, decision, decisions>>, overlaps' \in 0 .. MaxOverlaps,
               ending' \in Sheets \union {None},
               sheet' \in [Sheets -> [pc : {"unused", "look", "save", "open", "ended"}, raced : BOOLEAN]]
        PROVE  IInv'
    BY <1>2 DEF IInv, TypeOK, RowIsLast, Pending, Ins, Rows
  <1>3. ASSUME Enter PROVE overlaps' \in 0 .. MaxOverlaps
    BY <1>3, BoundsAssumption DEF IInv, TypeOK, Enter
  <1>4. CASE EndWorkSave
    BY <1>2, <1>4 DEF IInv, TypeOK, EndWorkSave
  <1>5. ASSUME NEW w \in Sheets, StartRead(w) PROVE IInv'
    <2>1. PICK b \in BOOLEAN, S \in SUBSET Sheets : sheet' = [RaceSheets(S) EXCEPT ![w] = [pc |-> "look", raced |-> b]]
      <3>1. PICK S \in SUBSET Sheets : S = {v \in Sheets : Starting(v)}
        OBVIOUS
      <3>2. PICK b \in BOOLEAN : b = (S # {} \/ InCalls # {})
        OBVIOUS
      <3>3. sheet' = [RaceSheets(S) EXCEPT ![w] = [pc |-> "look", raced |-> b]]
        BY <1>5, <3>1, <3>2 DEF StartRead
      <3>4. QED
        BY <3>3
    <2>2. sheet' \in [Sheets -> [pc : {"unused", "look", "save", "open", "ended"}, raced : BOOLEAN]]
      BY <2>1, RaceType DEF IInv
    <2>3. QED
      BY <1>2, <1>3, <1>5, <2>2 DEF IInv, TypeOK, StartRead
  <1>6. ASSUME NEW w \in Sheets, StartLook(w) PROVE IInv'
    <2>1. PICK new : /\ sheet' = [sheet EXCEPT ![w] = new]
                     /\ new = NoSheet \/ new = [sheet[w] EXCEPT !.pc = "save"]
      <3>1. CASE \E v \in Sheets : Open(v)
        BY <1>6, <3>1 DEF StartLook
      <3>2. CASE ~\E v \in Sheets : Open(v)
        BY <1>6, <3>2 DEF StartLook
      <3>3. QED
        BY <3>1, <3>2
    <2>2. new \in [pc : {"unused", "look", "save", "open", "ended"}, raced : BOOLEAN]
      <3>1. sheet[w] \in [pc : {"unused", "look", "save", "open", "ended"}, raced : BOOLEAN]
        BY DEF IInv, TypeOK
      <3>2. [sheet[w] EXCEPT !.pc = "save"] \in [pc : {"unused", "look", "save", "open", "ended"}, raced : BOOLEAN]
        BY <3>1
      <3>3. NoSheet \in [pc : {"unused", "look", "save", "open", "ended"}, raced : BOOLEAN]
        BY DEF NoSheet
      <3>4. QED
        BY <2>1, <3>2, <3>3
    <2>3. sheet' \in [Sheets -> [pc : {"unused", "look", "save", "open", "ended"}, raced : BOOLEAN]]
      BY <2>1, <2>2 DEF IInv, TypeOK
    <2>4. QED
      BY <1>2, <1>6, <2>3 DEF IInv, TypeOK, StartLook
  <1>7. ASSUME NEW w \in Sheets, StartSave(w) PROVE IInv'
    BY <1>2, <1>7 DEF IInv, TypeOK, StartSave
  <1>8. ASSUME NEW w \in Sheets, EndWorkRead(w) PROVE IInv'
    BY <1>2, <1>3, <1>8 DEF IInv, TypeOK, EndWorkRead
  <1>9. QED
    BY <1>1, <1>4, <1>5, <1>6, <1>7, <1>8

\* A manager reads a check-in that is there, for a decision on all of them a
\* pending one.
LEMMA DecideStep == ASSUME IInv, NEW m \in Managers, NEW p \in Punches, DecideRead(m, p) \/ BulkRead(m, p) PROVE IInv'
  <1>1. PICK pc \in {"save", "bulk"} : /\ p \in Ins /\ Decide(m, p, pc)
                                       /\ pc = "bulk" => punch[p].status = "pending"
    BY DEF DecideRead, BulkRead, On
  <1>2. /\ decision' = [decision EXCEPT ![m] = [pc |-> pc, p |-> p, late |-> FALSE]]
        /\ UNCHANGED <<provisioned, leads, today, punch, sheet, ending>>
    BY <1>1 DEF Decide
  <1>3. [pc |-> pc, p |-> p, late |-> FALSE] \in Deciding
    BY DEF Deciding
  <1>4. /\ decision' \in [Managers -> Deciding]
        /\ decision'[m] = [pc |-> pc, p |-> p, late |-> FALSE]
        /\ \A n \in Managers : n # m => decision'[n] = decision[n]
    BY <1>2, <1>3 DEF IInv, TypeOK
  <1>5. overlaps' \in 0 .. MaxOverlaps /\ decisions' \in 0 .. MaxDecisions
    BY <1>1, BoundsAssumption DEF IInv, TypeOK, Decide, Enter
  <1>6. TypeOK'
    BY <1>2, <1>4, <1>5 DEF IInv, TypeOK
  <1>7. RowIsLast'
    BY <1>2 DEF IInv, RowIsLast
  <1>8. Pending'
    BY <1>1, <1>2, <1>4 DEF IInv, Pending, Ins, Rows
  <1>9. QED
    BY <1>6, <1>7, <1>8 DEF IInv

\* A verdict makes the other decisions on its check-in late.
LEMMA DecideSaveStep == ASSUME IInv, NEW m \in Managers, DecideSave(m) PROVE IInv'
  <1>1. decision[m] # Idle /\ UNCHANGED <<provisioned, leads, today, sheet, ending, decisions, overlaps>>
    BY DEF DecideSave
  <1>2. PICK verdict \in {"approved", "rejected"} : punch' = [punch EXCEPT ![decision[m].p].status = verdict]
    BY DEF DecideSave
  <1>3. decision[m].p \in Punches /\ decision[m].p \in Ins
    BY <1>1 DEF IInv, Pending, Ins, Rows
  <1>4. [punch[decision[m].p] EXCEPT !.status = verdict] \in Punch
    BY <1>3 DEF IInv, TypeOK, Punch
  <1>5. /\ punch' \in [Punches -> Punch]
        /\ \A p \in Punches : /\ punch'[p].kind = punch[p].kind /\ punch'[p].row = punch[p].row
                              /\ punch'[p].pc = punch[p].pc
                              /\ p # decision[m].p => punch'[p].status = punch[p].status
    BY <1>2, <1>3, <1>4 DEF IInv, TypeOK, Punch
  <1>6. Idle \in Deciding
    BY DEF Idle, Deciding
  <1>7. ASSUME NEW n \in Managers
        PROVE  \/ decision'[n] = Idle
               \/ /\ n # m /\ decision[n] # Idle /\ decision[n].p = decision[m].p
                  /\ decision'[n] = [decision[n] EXCEPT !.late = TRUE]
               \/ decision'[n] = decision[n] /\ (decision[n] = Idle \/ decision[n].p # decision[m].p)
    BY <1>7 DEF DecideSave
  <1>8. ASSUME NEW n \in Managers, decision[n] # Idle
        PROVE  /\ [decision[n] EXCEPT !.late = TRUE] \in Deciding
               /\ [decision[n] EXCEPT !.late = TRUE].p = decision[n].p
               /\ [decision[n] EXCEPT !.late = TRUE].late
    <2>1. decision[n] \in [pc : {"save", "bulk"}, p : Punches, late : BOOLEAN]
      BY <1>8, DecidingType DEF IInv
    <2>2. QED
      BY <2>1 DEF Deciding
  <1>9. decision' \in [Managers -> Deciding]
    <2>1. ASSUME NEW n \in Managers PROVE decision'[n] \in Deciding
      BY <1>6, <1>7, <1>8 DEF IInv, TypeOK
    <2>2. decision' = [n \in Managers |-> decision'[n]]
      BY DEF DecideSave
    <2>3. QED
      BY <2>1, <2>2
  <1>10. TypeOK'
    BY <1>1, <1>5, <1>9 DEF IInv, TypeOK, Punch
  <1>11. RowIsLast'
    BY <1>5 DEF IInv, RowIsLast
  <1>12. Pending'
    <2>1. ASSUME NEW p \in Ins PROVE p \in Ins'
      BY <1>5, <2>1 DEF Ins, Rows
    <2>2. ASSUME NEW n \in Managers, decision'[n] # Idle
          PROVE  /\ decision'[n].p \in Ins'
                 /\ decision'[n].pc = "bulk" /\ ~decision'[n].late => punch'[decision'[n].p].status = "pending"
      <3>1. CASE decision'[n] = [decision[n] EXCEPT !.late = TRUE] /\ decision[n] # Idle
        BY <1>8, <2>1, <3>1 DEF IInv, Pending
      <3>2. CASE decision'[n] = decision[n] /\ (decision[n] = Idle \/ decision[n].p # decision[m].p)
        <4>1. decision[n].p \in Ins /\ decision[n].p # decision[m].p /\ decision[n].p \in Punches
          BY <2>2, <3>2 DEF IInv, Pending, Ins, Rows
        <4>2. QED
          BY <1>5, <2>1, <2>2, <3>2, <4>1 DEF IInv, Pending
      <3>3. QED
        BY <1>7, <2>2, <3>1, <3>2
    <2>3. QED
      BY <2>2 DEF Pending
  <1>13. QED
    BY <1>10, <1>11, <1>12 DEF IInv

-----------------------------------------------------------------------------
(* Theorems *)

\* The first state.
LEMMA InitIInv == Init => IInv
  <1> SUFFICES ASSUME Init PROVE IInv
    OBVIOUS
  <1>1. NoPunch \in Punch /\ NoSheet \in [pc : {"unused", "look", "save", "open", "ended"}, raced : BOOLEAN]
        /\ Idle \in Deciding
    BY NoPunchType DEF NoSheet, Idle, Deciding
  <1>2. punch \in [Punches -> Punch] /\ \A p \in Punches : ~punch[p].row
    BY <1>1, NoPunchType DEF Init
  <1>3. /\ sheet \in [Sheets -> [pc : {"unused", "look", "save", "open", "ended"}, raced : BOOLEAN]]
        /\ decision \in [Managers -> Deciding]
    BY <1>1 DEF Init
  <1>4. TypeOK
    BY <1>2, <1>3, NAssumption, BoundsAssumption DEF Init, TypeOK, Punch
  <1>5. RowIsLast /\ Pending
    BY <1>2 DEF Init, RowIsLast, Pending
  <1>6. QED
    BY <1>4, <1>5 DEF IInv

\* Every step.
LEMMA NextIInv == IInv /\ [Next]_vars => IInv'
  <1> SUFFICES ASSUME IInv, [Next]_vars PROVE IInv'
    OBVIOUS
  <1>1. CASE UNCHANGED vars
    BY <1>1 DEF vars, IInv, TypeOK, RowIsLast, Pending, Ins, Rows
  <1>2. CASE Next
    BY <1>2, ArriveStep, ReadStep, InsertStep, EndStep, FailStep, SheetStep, DecideStep, DecideSaveStep DEF Next
  <1>3. QED
    BY <1>1, <1>2

\* The invariant is one.
LEMMA Invariant == Spec => []IInv
  BY InitIInv, NextIInv, PTL DEF Spec

\* Punches, timesheets and decisions keep their types.
THEOREM AttendanceTypes == Spec => []TypeOK
  <1>1. IInv => TypeOK
    BY DEF IInv
  <1>2. QED
    BY <1>1, Invariant, PTL

\* A decision on all pending check-ins overturns a verdict only when that was
\* given after the pending ones were read.
THEOREM BulkOverturnsNone == Spec => BulkKeepsVerdicts
  <1>1. ASSUME IInv, [Next]_vars, NEW m \in Managers, NEW p \in Punches,
               decision[m] # Idle, decision[m].p = p, decision[m].pc = "bulk", punch[p].status # "pending"
        PROVE  decision[m].late
    BY <1>1 DEF IInv, Pending, TypeOK
  <1>2. IInv /\ [Next]_vars =>
          [\A m \in Managers, p \in Punches :
             /\ decision[m] # Idle /\ decision'[m] = Idle /\ decision[m].p = p /\ decision[m].pc = "bulk"
             /\ punch[p].status # "pending"
             => decision[m].late]_vars
    BY <1>1
  <1>3. QED
    BY <1>2, Invariant, PTL DEF Spec, BulkKeepsVerdicts

-----------------------------------------------------------------------------
(* Numbers *)

\* Every set of natural numbers that is not empty has a least one.
LEMMA LeastOf ==
  ASSUME NEW S \in SUBSET Nat, S # {}
  PROVE  \E x \in S : \A y \in S : x <= y
  <1>1. IsWellFoundedOn(OpToRel(<, Nat), Nat)
    BY NatLessThanWellFounded, Zenon
  <1>2. PICK x \in S : \A y \in S : ~(<<y, x>> \in OpToRel(<, Nat))
    BY <1>1, WFMin, Zenon
  <1>3. \A y \in S : ~(y < x)
    BY <1>2 DEF OpToRel
  <1>4. QED
    BY <1>3

\* The latest of some punches is one of them, and none is later.
LEMMA MaxOf ==
  ASSUME NEW S \in SUBSET Punches, S # {}
  PROVE  Max(S) \in S /\ \A x \in S : x <= Max(S)
  <1> DEFINE T == {N - x : x \in S}
  <1>1. S \subseteq 1 .. N /\ N \in Nat
    BY NAssumption DEF Punches
  <1>2. T \in SUBSET Nat /\ T # {}
    <2>1. ASSUME NEW x \in S PROVE N - x \in Nat
      BY <1>1
    <2>2. QED
      BY <2>1
  <1>3. PICK t \in T : \A u \in T : t <= u
    <2> HIDE DEF T
    <2>1. QED
      BY <1>2, LeastOf, Zenon
  <1>4. PICK y \in S : t = N - y
    BY <1>3
  <1>5. \A x \in S : y >= x
    BY <1>1, <1>3, <1>4
  <1>6. QED
    BY <1>1, <1>5 DEF Max

\* Punches are numbers.
LEMMA PunchNumbers == \A p \in Punches : p \in Nat /\ p > 0 /\ p <= N
  BY NAssumption DEF Punches

-----------------------------------------------------------------------------
(* The punches of a day alternate.  A punch that overlaps nothing is the    *)
(* last one and alone in its call, and the session it reads is that of the  *)
(* rows before it, which no later step changes.                             *)

Used(p)   == punch[p].pc # "unused"
Before(p) == {q \in On(Rows, punch[p].day) : q < p}

Fits(p) == IF punch[p].kind = "in" THEN Before(p) = {} \/ punch[Max(Before(p))].kind = "out"
           ELSE Before(p) # {} /\ punch[Max(Before(p))].kind = "in"

\* Later punches are of later days, and complete ones have their rows.
Numbered ==
  /\ \A p \in Punches : ~Used(p) => punch[p] = NoPunch
  /\ \A p \in Punches : Used(p) => punch[p].kind \in {"in", "out"} /\ 1 <= punch[p].day /\ punch[p].day <= today
  /\ \A p, q \in Punches : p < q /\ Used(p) /\ Used(q) => punch[p].day <= punch[q].day
  /\ \A p \in Punches : /\ punch[p].pc = "done" => punch[p].row
                        /\ punch[p].pc = "read" => ~punch[p].row

\* No call before an unraced punch goes on, and none comes after it while it does.
Lone ==
  \A p \in Punches : Used(p) /\ ~punch[p].raced =>
    /\ \A q \in Punches : q < p => ~InCall(q)
    /\ InCall(p) => punch[p].day = today /\ \A q \in Punches : q > p => ~Used(q)

Alternating == \A p \in Punches : Used(p) /\ ~punch[p].raced /\ punch[p].pc # "read" => Fits(p)

\* Whether a punch fits depends on the rows before it.
LEMMA FitsSame ==
  ASSUME NEW p \in Punches, punch'[p].kind = punch[p].kind, punch'[p].day = punch[p].day,
         \A q \in Punches : q < p => /\ punch'[q].kind = punch[q].kind /\ punch'[q].day = punch[q].day
                                     /\ punch'[q].row = punch[q].row
  PROVE  Fits(p)' <=> Fits(p)
  <1>1. Before(p)' = Before(p)
    BY DEF Before, On, Rows
  <1>2. Before(p) # {} => punch'[Max(Before(p))].kind = punch[Max(Before(p))].kind
    <2>1. Before(p) \in SUBSET Punches /\ \A q \in Before(p) : q < p
      BY DEF Before, On, Rows
    <2>2. QED
      BY <2>1, MaxOf
  <1>3. QED
    BY <1>1, <1>2 DEF Fits

\* A punch that finds the session it asks for fits.
LEMMA SessionFits ==
  ASSUME TypeOK, Numbered, NEW p \in Punches, Used(p), punch[p].day = today, ~punch[p].row,
         \A q \in Punches : q > p => ~Used(q),
         (punch[p].kind = "in") # Session
  PROVE  Fits(p)
  <1> DEFINE I == On(Ins, today)
  <1>1. /\ Before(p) = On(Rows, today) /\ Before(p) \in SUBSET Punches
        /\ I \in SUBSET Punches /\ I \subseteq Before(p)
        /\ After(Outs, Max(I)) \subseteq Punches
    <2>1. \A q \in Rows : q < p
      <3>1. \A q \in Rows : q # p /\ Used(q) /\ q \in Punches
        BY DEF Rows, Used, Numbered, NoPunch
      <3>2. QED
        BY <3>1, PunchNumbers
    <2>2. QED
      BY <2>1 DEF Before, On, Ins, Outs, Rows, After
  <1>2. \A q \in Before(p) : q \in Punches /\ punch[q].kind \in {"in", "out"} /\ (punch[q].kind = "in" => q \in I)
                             /\ (punch[q].kind = "out" => q \in Outs)
    BY <1>1 DEF On, Ins, Outs, Rows, Numbered, Used, NoPunch
  <1>3. CASE punch[p].kind = "in"
    <2>1. CASE I = {}
      <3>1. Before(p) # {} => punch[Max(Before(p))].kind = "out"
        BY <1>1, <1>2, <2>1, MaxOf
      <3>2. QED
        BY <1>3, <3>1 DEF Fits
    <2>2. CASE I # {}
      <3>1. PICK o \in After(Outs, Max(I)) : TRUE
        BY <1>3, <2>2 DEF Session
      <3>2. Max(I) \in I /\ (\A i \in I : i <= Max(I)) /\ o > Max(I) /\ o \in Outs /\ o \in Punches
        BY <1>1, <2>2, <3>1, MaxOf DEF After
      <3>3. o \in Before(p)
        <4>1. Used(o) /\ Used(Max(I)) /\ punch[Max(I)].day = today /\ Max(I) \in Punches
          BY <1>1, <3>2 DEF Outs, Rows, On, Ins, Used, Numbered, NoPunch
        <4>2. punch[o].day <= today /\ today <= punch[o].day
          BY <3>2, <4>1 DEF Numbered
        <4>3. punch[o].day = today
          <5>1. punch[o].day \in 0 .. MaxDay /\ today \in 1 .. MaxDay
            BY <3>2 DEF TypeOK
          <5>2. QED
            BY <4>2, <5>1, NAssumption
        <4>4. QED
          BY <1>1, <3>2, <4>3 DEF On, Outs
      <3>4. Max(Before(p)) \in Before(p) /\ Max(Before(p)) >= o
        BY <1>1, <3>3, MaxOf
      <3>5. Max(Before(p)) \notin I
        BY <1>1, <1>2, <3>2, <3>4, PunchNumbers
      <3>6. QED
        BY <1>2, <1>3, <3>4, <3>5 DEF Fits
    <2>3. QED
      BY <2>1, <2>2
  <1>4. CASE punch[p].kind # "in"
    <2>1. I # {} /\ After(Outs, Max(I)) = {}
      BY <1>4 DEF Session
    <2>2. Max(I) \in Before(p) /\ Before(p) # {}
      BY <1>1, <2>1, MaxOf
    <2>3. Max(Before(p)) \in Before(p) /\ Max(Before(p)) >= Max(I)
      BY <1>1, <2>2, MaxOf
    <2>4. punch[Max(Before(p))].kind = "in"
      <3>1. CASE punch[Max(Before(p))].kind = "out"
        <4>1. Max(Before(p)) \in Outs /\ ~(Max(Before(p)) > Max(I))
          BY <1>2, <2>1, <2>3, <3>1 DEF After
        <4>2. Max(Before(p)) = Max(I)
          BY <1>1, <2>2, <2>3, <4>1, PunchNumbers
        <4>3. QED
          BY <1>1, <2>1, <3>1, <4>2, MaxOf DEF On, Ins
      <3>2. QED
        BY <1>2, <2>3, <3>1
    <2>5. QED
      BY <1>4, <2>2, <2>4 DEF Fits
  <1>5. QED
    BY <1>3, <1>4

\* A call that goes on, or is refused or fails.
LEMMA CallOn ==
  ASSUME IInv, Numbered, Lone, Alternating, NEW p \in Punches, NEW new \in Punch,
         punch' = [punch EXCEPT ![p] = new], InCall(p), UNCHANGED today,
         new = NoPunch \/ /\ new.kind = punch[p].kind /\ new.day = punch[p].day /\ new.raced = punch[p].raced
                          /\ new.pc \notin {"unused", "read"}
                          /\ new.pc = "done" => new.row
                          /\ punch[p].pc = "read" /\ ~punch[p].raced => Fits(p)
  PROVE  Numbered' /\ Lone' /\ Alternating'
  <1>1. punch'[p] = new /\ \A q \in Punches : q # p => punch'[q] = punch[q]
    BY DEF IInv, TypeOK
  <1>2. Used(p) /\ NoPunch.pc = "unused"
    BY DEF InCall, Used, NoPunch
  <1>3. /\ \A q \in Punches : q # p => (Used(q)' <=> Used(q)) /\ (InCall(q)' <=> InCall(q))
        /\ Used(p)' => new # NoPunch
    BY <1>1, <1>2 DEF Used, InCall
  <1>4. Numbered'
    <2>1. \A q \in Punches : ~Used(q)' => punch'[q] = NoPunch
      BY <1>1, <1>3 DEF Numbered, Used
    <2>2. \A q \in Punches : Used(q)' => /\ Used(q) /\ punch'[q].kind = punch[q].kind
                                         /\ punch'[q].day = punch[q].day
      BY <1>1, <1>2, <1>3
    <2>3. \A q \in Punches : /\ punch'[q].pc = "done" => punch'[q].row
                             /\ punch'[q].pc = "read" => ~punch'[q].row
      BY <1>1, <1>2 DEF Numbered
    <2>4. QED
      BY <2>1, <2>2, <2>3 DEF Numbered
  <1>5. \A q \in Punches : Used(q) /\ ~punch[q].raced => ~(p < q)
    BY DEF Lone
  <1>6. Lone'
    <2>1. ASSUME NEW q \in Punches, Used(q)', ~punch'[q].raced
          PROVE  /\ \A r \in Punches : r < q => ~InCall(r)'
                 /\ InCall(q)' => punch'[q].day = today /\ \A r \in Punches : r > q => ~Used(r)'
      <3>1. Used(q) /\ ~punch[q].raced /\ punch'[q].day = punch[q].day /\ (InCall(q)' => InCall(q))
        BY <1>1, <1>2, <1>3, <2>1
      <3>2. \A r \in Punches : r < q => ~InCall(r) /\ r # p
        BY <1>5, <3>1 DEF Lone
      <3>3. \A r \in Punches : ~Used(r) => ~Used(r)'
        BY <1>2, <1>3
      <3>4. QED
        BY <1>3, <3>1, <3>2, <3>3 DEF Lone
    <2>2. QED
      BY <2>1 DEF Lone
  <1>7. Alternating'
    <2>1. ASSUME NEW q \in Punches, Used(q)', ~punch'[q].raced, punch'[q].pc # "read"
          PROVE  Fits(q)'
      <3>1. Used(q) /\ ~punch[q].raced /\ punch'[q].day = punch[q].day /\ punch'[q].kind = punch[q].kind
        BY <1>1, <1>2, <1>3, <2>1
      <3>2. \A r \in Punches : r < q => r # p
        BY <1>5, <3>1
      <3>3. Fits(q)' <=> Fits(q)
        BY <1>1, <3>1, <3>2, FitsSame
      <3>4. Fits(q)
        BY <1>1, <1>3, <2>1, <3>1 DEF Alternating
      <3>5. QED
        BY <3>3, <3>4
    <2>2. QED
      BY <2>1 DEF Alternating
  <1>8. QED
    BY <1>4, <1>6, <1>7

\* Calls are marked as raced, check-ins are decided, and no call goes on.
LEMMA CallsMarked ==
  ASSUME IInv, Numbered, Lone, Alternating,
         \A p \in Punches : /\ punch'[p].kind = punch[p].kind /\ punch'[p].day = punch[p].day
                            /\ punch'[p].row = punch[p].row /\ punch'[p].pc = punch[p].pc
                            /\ punch[p].raced => punch'[p].raced
                            /\ ~Used(p) => punch'[p] = punch[p],
         today' = today \/ (today' = today + 1 /\ \A p \in InCalls : punch'[p].raced)
  PROVE  Numbered' /\ Lone' /\ Alternating'
  <1>1. \A p \in Punches : /\ Used(p)' <=> Used(p)
                           /\ InCall(p)' <=> InCall(p)
                           /\ Fits(p)' <=> Fits(p)
    BY FitsSame DEF Used, InCall
  <1>2. \A p \in Punches : punch[p].day <= today => punch'[p].day <= today'
    <2>1. \A p \in Punches : punch[p].day \in Nat
      BY NAssumption DEF IInv, TypeOK
    <2>2. today \in Nat
      BY NAssumption DEF IInv, TypeOK
    <2>3. QED
      BY <2>1, <2>2
  <1>3. Numbered'
    BY <1>1, <1>2 DEF Numbered
  <1>4. Lone'
    <2>1. \A p \in Punches : InCall(p)' /\ ~punch'[p].raced => today' = today
      BY <1>1 DEF InCalls
    <2>2. QED
      BY <1>1, <2>1 DEF Lone
  <1>5. Alternating'
    BY <1>1 DEF Alternating
  <1>6. QED
    BY <1>3, <1>4, <1>5

\* What marking does to a punch.
LEMMA RaceMarks ==
  ASSUME TypeOK
  PROVE  \A p \in Punches : /\ RacePunches(InCalls)[p].day = punch[p].day
                            /\ RacePunches(InCalls)[p].raced = (punch[p].raced \/ InCall(p))
                            /\ ~InCall(p) => RacePunches(InCalls)[p] = punch[p]
  <1>1. \A p \in Punches : punch[p] \in Punch
    BY DEF TypeOK, Punch
  <1>2. ASSUME NEW p \in Punches, InCall(p)
        PROVE  RacePunches(InCalls)[p].day = punch[p].day /\ RacePunches(InCalls)[p].raced
    BY <1>1, <1>2 DEF RacePunches, InCalls, Punch
  <1>3. ASSUME NEW p \in Punches, ~InCall(p)
        PROVE  RacePunches(InCalls)[p] = punch[p]
    BY <1>3 DEF RacePunches, InCalls
  <1>4. \A p \in Punches : punch[p].raced \in BOOLEAN
    BY <1>1 DEF Punch
  <1>5. QED
    BY <1>2, <1>3, <1>4

\* A punch that arrives is the last one; it and the calls it meets are raced.
LEMMA ArriveOn ==
  ASSUME IInv, Numbered, Lone, Alternating, NEW p \in Punches, NEW kind \in {"in", "out"}, Arrive(p, kind)
  PROVE  Numbered' /\ Lone' /\ Alternating'
  <1> DEFINE new == [NoPunch EXCEPT !.pc = "read", !.kind = kind, !.day = today, !.raced = InCalls # {}]
  <1>1. /\ punch' = [RacePunches(InCalls) EXCEPT ![p] = new] /\ today' = today
        /\ \A q \in p .. N : punch[q] = NoPunch
    BY DEF Arrive
  <1>2. /\ new.pc = "read" /\ new.kind = kind /\ new.day = today /\ new.raced = (InCalls # {}) /\ ~new.row
    BY DEF NoPunch
  <1> HIDE DEF new
  <1>3. /\ punch'[p] = new
        /\ \A q \in Punches : q # p => punch'[q] = RacePunches(InCalls)[q]
    BY <1>1, RaceType DEF IInv
  <1>4. \A q \in Punches : q >= p => ~Used(q) /\ ~InCall(q) /\ punch[q] = NoPunch
    <2>1. \A q \in Punches : q >= p => q \in p .. N
      BY PunchNumbers
    <2>2. NoPunch.pc = "unused"
      BY DEF NoPunch
    <2>3. QED
      BY <1>1, <2>1, <2>2 DEF Used, InCall
  <1>5. \A q \in Punches : q # p =>
          /\ punch'[q].kind = punch[q].kind /\ punch'[q].day = punch[q].day
          /\ punch'[q].row = punch[q].row /\ punch'[q].pc = punch[q].pc
          /\ punch'[q].raced = (punch[q].raced \/ InCall(q))
          /\ ~InCall(q) => punch'[q] = punch[q]
    BY <1>3, RaceType, RaceMarks DEF IInv
  <1>6. /\ \A q \in Punches : q # p => (Used(q)' <=> Used(q)) /\ (InCall(q)' <=> InCall(q))
        /\ Used(p)' /\ InCall(p)'
    BY <1>2, <1>3, <1>5 DEF Used, InCall
  <1>7. Numbered'
    <2>1. \A q \in Punches : ~Used(q)' => punch'[q] = NoPunch
      BY <1>5, <1>6 DEF Numbered, Used, InCall
    <2>2. \A q \in Punches : Used(q)' => punch'[q].kind \in {"in", "out"} /\ 1 <= punch'[q].day /\ punch'[q].day <= today
      <3>1. today <= today /\ 1 <= today
        BY DEF IInv, TypeOK
      <3>2. QED
        BY <1>2, <1>3, <1>5, <1>6, <3>1 DEF Numbered
    <2>3. \A q, r \in Punches : q < r /\ Used(q)' /\ Used(r)' => punch'[q].day <= punch'[r].day
      <3>1. ASSUME NEW q \in Punches, NEW r \in Punches, q < r, Used(q)', Used(r)'
            PROVE  punch'[q].day <= punch'[r].day
        <4>1. CASE r = p
          BY <1>2, <1>3, <2>2, <3>1, <4>1, PunchNumbers
        <4>2. CASE r # p
          <5>1. Used(r) /\ ~(r >= p) /\ q # p
            BY <1>4, <1>6, <3>1, <4>2, PunchNumbers
          <5>2. QED
            BY <1>5, <1>6, <3>1, <4>2, <5>1 DEF Numbered
        <4>3. QED
          BY <4>1, <4>2
      <3>2. QED
        BY <3>1
    <2>4. \A q \in Punches : /\ punch'[q].pc = "done" => punch'[q].row
                             /\ punch'[q].pc = "read" => ~punch'[q].row
      BY <1>2, <1>3, <1>5 DEF Numbered
    <2>5. QED
      BY <1>1, <2>1, <2>2, <2>3, <2>4 DEF Numbered
  <1>8. Lone'
    <2>1. ASSUME NEW q \in Punches, Used(q)', ~punch'[q].raced
          PROVE  /\ \A r \in Punches : r < q => ~InCall(r)'
                 /\ InCall(q)' => punch'[q].day = today /\ \A r \in Punches : r > q => ~Used(r)'
      <3>1. CASE q = p
        <4>1. InCalls = {}
          BY <1>2, <1>3, <2>1, <3>1
        <4>2. \A r \in Punches : r < q => ~InCall(r)'
          BY <1>6, <3>1, <4>1, PunchNumbers DEF InCalls
        <4>3. \A r \in Punches : r > q => ~Used(r)'
          BY <1>4, <1>6, <3>1, PunchNumbers
        <4>4. QED
          BY <1>2, <1>3, <3>1, <4>2, <4>3
      <3>2. CASE q # p
        <4>1. Used(q) /\ ~punch[q].raced /\ ~InCall(q) /\ q < p
          <5>1. Used(q) /\ ~punch[q].raced /\ ~InCall(q)
            BY <1>5, <1>6, <2>1, <3>2 DEF IInv, TypeOK
          <5>2. QED
            BY <1>4, <3>2, <5>1, PunchNumbers
        <4>2. \A r \in Punches : r < q => ~InCall(r) /\ r # p
          BY <4>1, PunchNumbers DEF Lone
        <4>3. QED
          BY <1>6, <3>2, <4>1, <4>2
      <3>3. QED
        BY <3>1, <3>2
    <2>2. QED
      BY <1>1, <2>1 DEF Lone
  <1>9. Alternating'
    <2>1. ASSUME NEW q \in Punches, Used(q)', ~punch'[q].raced, punch'[q].pc # "read"
          PROVE  Fits(q)'
      <3>1. q # p
        BY <1>2, <1>3, <2>1
      <3>2. Used(q) /\ ~punch[q].raced /\ punch[q].pc # "read"
        BY <1>5, <1>6, <2>1, <3>1 DEF IInv, TypeOK
      <3>3. \A r \in Punches : r < q => r # p
        BY <1>4, <3>2, PunchNumbers
      <3>4. QED
        BY <1>5, <3>1, <3>2, <3>3, FitsSame DEF Alternating
    <2>2. QED
      BY <2>1 DEF Alternating
  <1>10. QED
    BY <1>7, <1>8, <1>9

\* How the call of a punch goes on after it was accepted: a check-in ends; a
\* check-out looks for an open timesheet, ends it, and completes or fails.
LEMMA CallMoves ==
  ASSUME IInv, NEW p \in Punches, Insert(p) \/ EndRead(p) \/ EndSave(p) \/ Commit(p) \/ Fail(p)
  PROVE  /\ InCall(p) /\ UNCHANGED today
         /\ \E new \in Punch :
              /\ punch' = [punch EXCEPT ![p] = new]
              /\ \/ new = NoPunch
                 \/ /\ new.kind = punch[p].kind /\ new.day = punch[p].day /\ new.raced = punch[p].raced
                    /\ new.pc \in {"sheet", "end", "commit", "done"}
                    /\ new.pc = "done" => new.row
                    /\ punch[p].pc # "read" \/ punch[p].row
                    /\ new.pc = "end" => EndRead(p) /\ new.ref \in Sheets /\ Open(new.ref)
                    /\ new.pc = "commit" => EndSave(p) \/ ~\E w \in Sheets : Open(w)
                    /\ new.pc = "done" => new.kind = "in" \/ Commit(p) \/ new.failed
  <1>t. punch[p] \in Punch
    BY DEF IInv, TypeOK, Punch
  <1>i. InCall(p) /\ UNCHANGED today
    BY DEF Insert, EndRead, EndSave, Commit, Fail, InCall
  <1>1. CASE Insert(p) /\ punch[p].kind = "in"
    <2> DEFINE new(st) == [punch[p] EXCEPT !.pc = "done", !.row = TRUE, !.status = st]
    <2>1. PICK st \in {"approved", "pending"} : punch' = [punch EXCEPT ![p] = new(st)]
      BY <1>1 DEF Insert
    <2>2. /\ new(st) \in Punch /\ new(st).kind = punch[p].kind /\ new(st).day = punch[p].day
          /\ new(st).raced = punch[p].raced /\ new(st).pc = "done" /\ new(st).row
      BY <1>t DEF Punch
    <2>3. punch[p].pc = "insert"
      BY <1>1 DEF Insert
    <2> HIDE DEF new
    <2>4. QED
      BY <1>1, <1>i, <2>1, <2>2, <2>3
  <1>2. CASE Insert(p) /\ punch[p].kind # "in"
    <2> DEFINE new(b) == [punch[p] EXCEPT !.pc = "sheet", !.row = b]
    <2>1. PICK b \in BOOLEAN : b = ~provisioned
      OBVIOUS
    <2>2. punch' = [punch EXCEPT ![p] = new(b)]
      BY <1>2, <2>1 DEF Insert
    <2>3. /\ new(b) \in Punch /\ new(b).kind = punch[p].kind /\ new(b).day = punch[p].day
          /\ new(b).raced = punch[p].raced /\ new(b).pc = "sheet"
      BY <1>t DEF Punch
    <2>4. punch[p].pc = "insert"
      BY <1>2 DEF Insert
    <2> HIDE DEF new
    <2>5. QED
      BY <1>i, <2>2, <2>3, <2>4
  <1>3. CASE EndRead(p) /\ \E w \in Sheets : Open(w)
    <2> DEFINE new(w) == [punch[p] EXCEPT !.pc = "end", !.ref = w]
    <2>1. PICK w \in Sheets : Open(w) /\ punch' = [punch EXCEPT ![p] = new(w)]
      BY <1>3 DEF EndRead
    <2>2. /\ new(w) \in Punch /\ new(w).kind = punch[p].kind /\ new(w).day = punch[p].day
          /\ new(w).raced = punch[p].raced /\ new(w).pc = "end" /\ new(w).ref = w
      BY <1>t DEF Punch
    <2>3. punch[p].pc = "sheet"
      BY <1>3 DEF EndRead
    <2> HIDE DEF new
    <2>4. QED
      BY <1>3, <1>i, <2>1, <2>2, <2>3
  <1>4. CASE EndRead(p) /\ ~\E w \in Sheets : Open(w)
    <2> DEFINE new == [punch[p] EXCEPT !.pc = "commit"]
    <2>1. punch' = [punch EXCEPT ![p] = new]
      BY <1>4 DEF EndRead
    <2>2. /\ new \in Punch /\ new.kind = punch[p].kind /\ new.day = punch[p].day
          /\ new.raced = punch[p].raced /\ new.pc = "commit"
      BY <1>t DEF Punch
    <2>3. punch[p].pc = "sheet"
      BY <1>4 DEF EndRead
    <2> HIDE DEF new
    <2>4. QED
      BY <1>4, <1>i, <2>1, <2>2, <2>3
  <1>5. CASE EndSave(p)
    <2> DEFINE new == [punch[p] EXCEPT !.pc = "commit", !.ref = None]
    <2>1. punch' = [punch EXCEPT ![p] = new]
      BY <1>5 DEF EndSave
    <2>2. /\ new \in Punch /\ new.kind = punch[p].kind /\ new.day = punch[p].day
          /\ new.raced = punch[p].raced /\ new.pc = "commit"
      BY <1>t DEF Punch
    <2>3. punch[p].pc = "end"
      BY <1>5 DEF EndSave
    <2> HIDE DEF new
    <2>4. QED
      BY <1>5, <1>i, <2>1, <2>2, <2>3
  <1>6. CASE Commit(p)
    <2> DEFINE new == [punch[p] EXCEPT !.pc = "done", !.row = TRUE]
    <2>1. punch' = [punch EXCEPT ![p] = new]
      BY <1>6 DEF Commit
    <2>2. /\ new \in Punch /\ new.kind = punch[p].kind /\ new.day = punch[p].day
          /\ new.raced = punch[p].raced /\ new.pc = "done" /\ new.row
      BY <1>t DEF Punch
    <2>3. punch[p].pc = "commit"
      BY <1>6 DEF Commit
    <2> HIDE DEF new
    <2>4. QED
      BY <1>6, <1>i, <2>1, <2>2, <2>3
  <1>7. CASE Fail(p) /\ punch[p].row
    <2> DEFINE new == [punch[p] EXCEPT !.pc = "done", !.ref = None, !.failed = TRUE]
    <2>1. punch' = [punch EXCEPT ![p] = new]
      BY <1>7 DEF Fail
    <2>2. /\ new \in Punch /\ new.kind = punch[p].kind /\ new.day = punch[p].day
          /\ new.raced = punch[p].raced /\ new.pc = "done" /\ new.row = punch[p].row /\ new.failed
      BY <1>t DEF Punch
    <2> HIDE DEF new
    <2>3. QED
      BY <1>7, <1>i, <2>1, <2>2
  <1>8. CASE Fail(p) /\ ~punch[p].row
    <2>1. punch' = [punch EXCEPT ![p] = NoPunch]
      BY <1>8 DEF Fail
    <2>2. QED
      BY <1>i, <2>1, NoPunchType
  <1>9. QED
    BY <1>1, <1>2, <1>3, <1>4, <1>5, <1>6, <1>7, <1>8

\* Every step keeps the punches in order.
LEMMA AlternatingStep == ASSUME IInv, Numbered, Lone, Alternating, Next PROVE Numbered' /\ Lone' /\ Alternating'
  <1>t. \A p \in Punches : punch[p] \in Punch
    BY DEF IInv, TypeOK, Punch
  <1>u. UNCHANGED <<punch, today>> => Numbered' /\ Lone' /\ Alternating'
    BY CallsMarked
  <1>1. ASSUME NEW p \in Punches, Read(p) PROVE Numbered' /\ Lone' /\ Alternating'
    <2>1. /\ punch[p].pc = "read" /\ ~punch[p].row /\ InCall(p) /\ Used(p) /\ UNCHANGED today
      BY <1>1 DEF Read, Numbered, InCall, Used
    <2>2. PICK new \in Punch : /\ punch' = [punch EXCEPT ![p] = new]
                     /\ \/ new = NoPunch
                        \/ new = [punch[p] EXCEPT !.pc = "insert"] /\ (punch[p].kind = "in") # Session
      <3>1. CASE (punch[p].kind = "in") = Session
        BY <1>1, <3>1, NoPunchType DEF Read
      <3>2. CASE (punch[p].kind = "in") # Session
        <4>1. [punch[p] EXCEPT !.pc = "insert"] \in Punch
          BY <1>t DEF Punch
        <4>2. punch' = [punch EXCEPT ![p] = [punch[p] EXCEPT !.pc = "insert"]]
          BY <1>1, <3>2 DEF Read
        <4>3. QED
          BY <3>2, <4>1, <4>2
      <3>3. QED
        BY <3>1, <3>2
    <2>3. (punch[p].kind = "in") # Session /\ ~punch[p].raced => Fits(p)
      BY <2>1, SessionFits DEF IInv, Lone
    <2>4. new = NoPunch \/ /\ new.kind = punch[p].kind /\ new.day = punch[p].day /\ new.raced = punch[p].raced
                           /\ new.pc \notin {"unused", "read"}
                           /\ new.pc = "done" => new.row
                           /\ punch[p].pc = "read" /\ ~punch[p].raced => Fits(p)
      BY <1>t, <2>2, <2>3 DEF Punch
    <2>5. QED
      BY <2>1, <2>2, <2>4, CallOn
  <1>2. ASSUME NEW p \in Punches, Insert(p) \/ EndRead(p) \/ EndSave(p) \/ Commit(p) \/ Fail(p)
        PROVE  Numbered' /\ Lone' /\ Alternating'
    <2>1. InCall(p) /\ UNCHANGED today
      BY <1>2, CallMoves
    <2>2. PICK new \in Punch :
            /\ punch' = [punch EXCEPT ![p] = new]
            /\ new = NoPunch \/ /\ new.kind = punch[p].kind /\ new.day = punch[p].day /\ new.raced = punch[p].raced
                                /\ new.pc \in {"sheet", "end", "commit", "done"}
                                /\ new.pc = "done" => new.row
                                /\ punch[p].pc # "read" \/ punch[p].row
      BY <1>2, CallMoves
    <2>3. punch[p].pc = "read" => ~punch[p].row
      BY DEF Numbered
    <2>4. QED
      BY <2>1, <2>2, <2>3, CallOn
  <1>3. ASSUME NEW p \in Punches, NEW kind \in {"in", "out"}, Arrive(p, kind)
        PROVE  Numbered' /\ Lone' /\ Alternating'
    BY <1>3, ArriveOn
  <1>4. CASE Midnight
    <2>1. punch' = RacePunches(InCalls) /\ today' = today + 1
      BY <1>4 DEF Midnight
    <2>2. \A p \in Punches : ~Used(p) => ~InCall(p)
      BY DEF Used, InCall
    <2>3. \A p \in Punches : punch[p].raced => punch'[p].raced
      BY <2>1, RaceMarks DEF IInv
    <2>4. \A p \in InCalls : punch'[p].raced
      BY <2>1, RaceMarks DEF IInv, InCalls
    <2>5. \A p \in Punches : punch'[p].day = punch[p].day /\ (~Used(p) => punch'[p] = punch[p])
      BY <2>1, <2>2, RaceMarks DEF IInv
    <2>6. \A p \in Punches : /\ punch'[p].kind = punch[p].kind /\ punch'[p].row = punch[p].row
                             /\ punch'[p].pc = punch[p].pc
      BY <2>1, RaceType DEF IInv
    <2>7. QED
      BY <2>1, <2>3, <2>4, <2>5, <2>6, CallsMarked
  <1>5. ASSUME NEW m \in Managers, DecideSave(m) PROVE Numbered' /\ Lone' /\ Alternating'
    <2>1. PICK q \in Punches : q = decision[m].p /\ q \in Ins
      BY <1>5 DEF DecideSave, IInv, Pending, Ins, Rows
    <2>2. PICK verdict : punch' = [punch EXCEPT ![q] = [punch[q] EXCEPT !.status = verdict]]
      BY <1>5, <2>1 DEF DecideSave
    <2>3. Used(q)
      BY <2>1 DEF Ins, Rows, Used, Numbered, NoPunch
    <2>4. \A p \in Punches : p # q => punch'[p] = punch[p]
      BY <2>2 DEF IInv, TypeOK
    <2>5. punch'[q] = [punch[q] EXCEPT !.status = verdict]
      BY <2>2 DEF IInv, TypeOK
    <2>6. /\ punch'[q].kind = punch[q].kind /\ punch'[q].day = punch[q].day /\ punch'[q].row = punch[q].row
          /\ punch'[q].pc = punch[q].pc /\ punch'[q].raced = punch[q].raced
      BY <1>t, <2>5 DEF Punch
    <2>7. today' = today
      BY <1>5 DEF DecideSave
    <2>8. QED
      BY <2>3, <2>4, <2>6, <2>7, CallsMarked
  <1>6. ASSUME \/ EndWorkSave
               \/ \E w \in Sheets : StartRead(w) \/ StartLook(w) \/ StartSave(w) \/ EndWorkRead(w)
               \/ \E m \in Managers, p \in Punches : DecideRead(m, p) \/ BulkRead(m, p)
        PROVE  Numbered' /\ Lone' /\ Alternating'
    BY <1>6, <1>u DEF EndWorkSave, StartRead, StartLook, StartSave, EndWorkRead, DecideRead, BulkRead, Decide
  <1>7. QED
    BY <1>1, <1>2, <1>3, <1>4, <1>5, <1>6 DEF Next

-----------------------------------------------------------------------------
(* Who is checked out is not at work.  A timesheet whose start overlaps     *)
(* nothing is opened on a check-in that nothing follows yet; and two that   *)
(* are open were started during one another.                                *)

AloneStarts ==
  \A w \in Sheets : Starting(w) /\ ~sheet[w].raced =>
    /\ InCalls = {}
    /\ \E i \in Ins : \A q \in Rows : q <= i

Together ==
  \A v, w \in Sheets : v # w =>
    /\ Starting(v) /\ Starting(w) => sheet[v].raced
    /\ Open(v) /\ (Open(w) \/ sheet[w].pc = "save") => sheet[v].raced /\ sheet[w].raced

\* A check-out that has looked for an open timesheet ends the one that is
\* open, and one that is complete was followed by a check-in before.
AtWork ==
  \A w \in Sheets, p \in Punches : Open(w) /\ ~sheet[w].raced /\ punch[p].kind = "out" =>
    /\ punch[p].pc = "end" => punch[p].ref = w
    /\ punch[p].pc # "commit"
    /\ punch[p].pc = "done" /\ ~punch[p].failed => \E i \in Ins : i > p

SheetType == [pc : {"unused", "look", "save", "open", "ended"}, raced : BOOLEAN]

\* What marking does to a timesheet.
LEMMA RaceSheetMarks ==
  ASSUME TypeOK, NEW T \in SUBSET Sheets
  PROVE  \A w \in Sheets : /\ RaceSheets(T)[w].pc = sheet[w].pc
                           /\ RaceSheets(T)[w].raced = (sheet[w].raced \/ w \in T)
  <1>1. \A w \in Sheets : sheet[w] \in SheetType
    BY DEF TypeOK, SheetType
  <1>2. ASSUME NEW w \in T
        PROVE  RaceSheets(T)[w].pc = sheet[w].pc /\ RaceSheets(T)[w].raced
    BY <1>1 DEF RaceSheets, SheetType
  <1>3. ASSUME NEW w \in Sheets \ T PROVE RaceSheets(T)[w] = sheet[w]
    BY DEF RaceSheets
  <1>4. \A w \in Sheets : sheet[w].raced \in BOOLEAN
    BY <1>1 DEF SheetType
  <1>5. QED
    BY <1>2, <1>3, <1>4

\* Starts in progress are marked, and no timesheet moves.
LEMMA StartsMarked ==
  ASSUME IInv, Together, AtWork,
         \A w \in Sheets : /\ sheet'[w].pc = sheet[w].pc
                           /\ sheet[w].raced => sheet'[w].raced
                           /\ Starting(w) => sheet'[w].raced,
         \A p \in Punches : \/ punch'[p].pc \notin {"end", "commit", "done"}
                            \/ /\ punch'[p].pc = punch[p].pc /\ punch'[p].kind = punch[p].kind
                               /\ punch'[p].ref = punch[p].ref /\ punch'[p].failed = punch[p].failed,
         \A p \in Ins : p \in Ins'
  PROVE  AloneStarts' /\ Together' /\ AtWork'
  <1>1. \A w \in Sheets : (Starting(w)' <=> Starting(w)) /\ (Open(w)' <=> Open(w))
    BY DEF Starting, Open
  <1>2. AloneStarts'
    BY <1>1 DEF AloneStarts
  <1>3. Together'
    BY <1>1 DEF Together
  <1>4. AtWork'
    BY <1>1 DEF AtWork
  <1>5. QED
    BY <1>2, <1>3, <1>4

\* A timesheet is ended, or none moves, and neither does a punch.
LEMMA SheetEnds ==
  ASSUME IInv, AloneStarts, Together, AtWork, UNCHANGED punch,
         \A w \in Sheets : sheet'[w] = sheet[w] \/ (sheet'[w].pc = "ended" /\ sheet'[w].raced = sheet[w].raced)
  PROVE  AloneStarts' /\ Together' /\ AtWork'
  <1>1. \A w \in Sheets : (Starting(w)' => Starting(w)) /\ (Open(w)' => Open(w)) /\ sheet'[w].raced = sheet[w].raced
                          /\ (sheet'[w].pc = "save" => sheet[w].pc = "save")
    BY DEF Starting, Open
  <1>2. AloneStarts'
    BY <1>1 DEF AloneStarts, InCalls, InCall, Ins, Rows
  <1>3. Together'
    BY <1>1 DEF Together
  <1>4. AtWork'
    BY <1>1 DEF AtWork, Ins, Rows
  <1>5. QED
    BY <1>2, <1>3, <1>4

\* The call of a punch goes on.
LEMMA CallAtWork ==
  ASSUME IInv, AloneStarts, Together, AtWork,
         NEW p \in Punches, NEW new, punch' = [punch EXCEPT ![p] = new], InCall(p),
         \A w \in Sheets : sheet'[w] = sheet[w] \/ (sheet'[w].pc = "ended" /\ sheet'[w].raced = sheet[w].raced),
         new.pc \in {"end", "commit", "done"} /\ new.kind = "out" =>
           \A w \in Sheets : Open(w)' /\ ~sheet[w].raced =>
             /\ new.pc = "end" => new.ref = w
             /\ new.pc # "commit"
             /\ new.pc = "done" => new.failed
  PROVE  AloneStarts' /\ Together' /\ AtWork'
  <1>1. \A w \in Sheets : (Starting(w)' => Starting(w)) /\ (Open(w)' => Open(w)) /\ sheet'[w].raced = sheet[w].raced
                          /\ (sheet'[w].pc = "save" => sheet[w].pc = "save")
    BY DEF Starting, Open
  <1>2. punch'[p] = new /\ \A q \in Punches : q # p => punch'[q] = punch[q]
    BY DEF IInv, TypeOK
  <1>3. InCalls # {}
    BY DEF InCalls
  <1>4. \A q \in Ins : q \in Ins'
    <2>1. p \notin Ins
      BY NotComplete DEF InCall
    <2>2. QED
      BY <1>2, <2>1 DEF Ins, Rows
  <1>5. AloneStarts'
    BY <1>1, <1>3 DEF AloneStarts
  <1>6. Together'
    BY <1>1 DEF Together
  <1>7. AtWork'
    <2>1. ASSUME NEW w \in Sheets, NEW q \in Punches, Open(w)', ~sheet'[w].raced, punch'[q].kind = "out"
          PROVE  /\ punch'[q].pc = "end" => punch'[q].ref = w
                 /\ punch'[q].pc # "commit"
                 /\ punch'[q].pc = "done" /\ ~punch'[q].failed => \E i \in Ins' : i > q
      <3>1. CASE q = p
        BY <1>1, <1>2, <2>1, <3>1
      <3>2. CASE q # p
        BY <1>1, <1>2, <1>4, <2>1, <3>2 DEF AtWork
      <3>3. QED
        BY <3>1, <3>2
    <2>2. QED
      BY <2>1 DEF AtWork
  <1>8. QED
    BY <1>5, <1>6, <1>7

\* Every step keeps work in order.
LEMMA AtWorkStep ==
  ASSUME IInv, Numbered, AloneStarts, Together, AtWork, Next
  PROVE  AloneStarts' /\ Together' /\ AtWork'
  <1>t. /\ \A p \in Punches : punch[p] \in Punch
        /\ \A w \in Sheets : sheet[w] \in SheetType
    BY DEF IInv, TypeOK, Punch, SheetType
  <1>u. UNCHANGED <<punch, sheet>> => AloneStarts' /\ Together' /\ AtWork'
    BY SheetEnds
  <1>1. ASSUME NEW p \in Punches, NEW kind \in {"in", "out"}, Arrive(p, kind)
        PROVE  AloneStarts' /\ Together' /\ AtWork'
    <2> DEFINE new == [NoPunch EXCEPT !.pc = "read", !.kind = kind, !.day = today, !.raced = InCalls # {}]
    <2>1. /\ punch' = [RacePunches(InCalls) EXCEPT ![p] = new]
          /\ sheet' = RaceSheets({w \in Sheets : Starting(w)})
      BY <1>1 DEF Arrive
    <2>2. new.pc = "read" /\ punch[p] = NoPunch
      <3>1. p \in p .. N
        BY PunchNumbers
      <3>2. punch[p] = NoPunch
        BY <1>1, <3>1 DEF Arrive
      <3>3. QED
        BY <3>2 DEF NoPunch
    <2> HIDE DEF new
    <2>3. /\ punch'[p] = new
          /\ \A q \in Punches : q # p => punch'[q] = RacePunches(InCalls)[q]
      BY <2>1, RaceType DEF IInv
    <2>4. \A q \in Punches : q # p =>
            /\ punch'[q].pc = punch[q].pc /\ punch'[q].kind = punch[q].kind /\ punch'[q].row = punch[q].row
            /\ punch'[q].pc = "done" => punch'[q] = punch[q]
      BY <2>3, RaceType, RaceMarks DEF IInv, InCall
    <2>5. \A q \in Punches : q # p => punch'[q].ref = punch[q].ref /\ punch'[q].failed = punch[q].failed
      BY <1>t, <2>3 DEF RacePunches, Punch
    <2>6. \A q \in Ins : q \in Ins'
      BY <2>2, <2>4, NoPunchType DEF Ins, Rows
    <2>7. \A w \in Sheets : /\ sheet'[w].pc = sheet[w].pc
                            /\ sheet[w].raced => sheet'[w].raced
                            /\ Starting(w) => sheet'[w].raced
      <3>1. PICK S \in SUBSET Sheets : S = {w \in Sheets : Starting(w)}
        OBVIOUS
      <3>2. sheet' = RaceSheets(S)
        BY <2>1, <3>1
      <3>3. \A w \in Sheets : sheet'[w].pc = sheet[w].pc /\ sheet'[w].raced = (sheet[w].raced \/ w \in S)
        BY <3>2, RaceSheetMarks DEF IInv
      <3>4. QED
        BY <3>1, <3>3
    <2>8. QED
      BY <2>2, <2>3, <2>4, <2>5, <2>6, <2>7, StartsMarked
  <1>2. CASE Midnight
    <2>1. punch' = RacePunches(InCalls) /\ sheet' = RaceSheets({w \in Sheets : Starting(w)})
      BY <1>2 DEF Midnight
    <2>2. \A q \in Punches :
            punch'[q].pc = punch[q].pc /\ punch'[q].kind = punch[q].kind /\ punch'[q].row = punch[q].row
      BY <2>1, RaceType DEF IInv
    <2>3. \A q \in Punches : punch'[q].ref = punch[q].ref /\ punch'[q].failed = punch[q].failed
      BY <1>t, <2>1 DEF RacePunches, Punch
    <2>4. \A q \in Ins : q \in Ins'
      BY <2>2 DEF Ins, Rows
    <2>5. \A w \in Sheets : /\ sheet'[w].pc = sheet[w].pc
                            /\ sheet[w].raced => sheet'[w].raced
                            /\ Starting(w) => sheet'[w].raced
      <3>1. PICK S \in SUBSET Sheets : S = {w \in Sheets : Starting(w)}
        OBVIOUS
      <3>2. sheet' = RaceSheets(S)
        BY <2>1, <3>1
      <3>3. \A w \in Sheets : sheet'[w].pc = sheet[w].pc /\ sheet'[w].raced = (sheet[w].raced \/ w \in S)
        BY <3>2, RaceSheetMarks DEF IInv
      <3>4. QED
        BY <3>1, <3>3
    <2>6. QED
      BY <2>2, <2>3, <2>4, <2>5, StartsMarked
  <1>3. ASSUME NEW p \in Punches, Read(p) PROVE AloneStarts' /\ Together' /\ AtWork'
    <2>1. InCall(p) /\ UNCHANGED sheet
      BY <1>3 DEF Read, InCall
    <2>2. PICK new : punch' = [punch EXCEPT ![p] = new] /\ (new = NoPunch \/ new = [punch[p] EXCEPT !.pc = "insert"])
      <3>1. CASE (punch[p].kind = "in") = Session
        BY <1>3, <3>1 DEF Read
      <3>2. CASE (punch[p].kind = "in") # Session
        BY <1>3, <3>2 DEF Read
      <3>3. QED
        BY <3>1, <3>2
    <2>3. new.pc \in {"unused", "insert"}
      BY <1>t, <2>2 DEF NoPunch, Punch
    <2>4. QED
      BY <2>1, <2>2, <2>3, CallAtWork
  <1>4. ASSUME NEW p \in Punches, Insert(p) \/ EndRead(p) \/ EndSave(p) \/ Commit(p) \/ Fail(p)
        PROVE  AloneStarts' /\ Together' /\ AtWork'
    <2>1. PICK new \in Punch :
            /\ punch' = [punch EXCEPT ![p] = new]
            /\ \/ new = NoPunch
               \/ /\ new.kind = punch[p].kind
                  /\ new.pc = "end" => EndRead(p) /\ new.ref \in Sheets /\ Open(new.ref)
                  /\ new.pc = "commit" => EndSave(p) \/ ~\E w \in Sheets : Open(w)
                  /\ new.pc = "done" => new.kind = "in" \/ Commit(p) \/ new.failed
      BY <1>4, CallMoves
    <2>2. InCall(p)
      BY <1>4, CallMoves
    <2>3. /\ \A w \in Sheets : sheet'[w] = sheet[w] \/ (sheet'[w].pc = "ended" /\ sheet'[w].raced = sheet[w].raced)
          /\ EndSave(p) => punch[p].pc = "end" /\ \A w \in Sheets : w = punch[p].ref => sheet'[w].pc = "ended"
      <3>1. CASE UNCHANGED sheet /\ ~EndSave(p)
        BY <3>1
      <3>2. CASE EndSave(p)
        <4>1. sheet' = [sheet EXCEPT ![punch[p].ref].pc = "ended"]
          BY <3>2 DEF EndSave
        <4>2. \A w \in Sheets : sheet[w] \in SheetType /\ sheet \in [Sheets -> SheetType]
          BY DEF IInv, TypeOK, SheetType
        <4>3. \A w \in Sheets : sheet'[w] = IF w = punch[p].ref THEN [sheet[w] EXCEPT !.pc = "ended"] ELSE sheet[w]
          BY <4>1, <4>2
        <4>4. \A w \in Sheets : [sheet[w] EXCEPT !.pc = "ended"].pc = "ended" /\ [sheet[w] EXCEPT !.pc = "ended"].raced = sheet[w].raced
          BY <4>2 DEF SheetType
        <4>5. \A w \in Sheets : \/ w = punch[p].ref /\ sheet'[w].pc = "ended" /\ sheet'[w].raced = sheet[w].raced
                                \/ w # punch[p].ref /\ sheet'[w] = sheet[w]
          BY <4>3, <4>4
        <4>6. punch[p].pc = "end"
          BY <3>2 DEF EndSave
        <4>7. QED
          BY <4>5, <4>6
      <3>3. QED
        BY <1>4, <3>1, <3>2 DEF Insert, EndRead, Commit, Fail
    <2>4. ASSUME NEW w \in Sheets, Open(w)', ~sheet[w].raced, new.kind = "out", new.pc \in {"end", "commit", "done"}
          PROVE  /\ new.pc = "end" => new.ref = w
                 /\ new.pc # "commit"
                 /\ new.pc = "done" => new.failed
      <3>1. Open(w)
        BY <2>3, <2>4 DEF Open
      <3>2. punch[p].kind = "out" /\ new # NoPunch
        BY <2>1, <2>4 DEF NoPunch
      <3>3. new.pc = "end" => new.ref = w
        BY <2>1, <2>4, <3>1, <3>2 DEF Together
      <3>4. new.pc # "commit"
        <4>1. EndSave(p) => punch[p].ref = w
          BY <2>3, <2>4, <3>1, <3>2 DEF AtWork
        <4>2. ~EndSave(p)
          BY <2>3, <2>4, <4>1 DEF Open
        <4>3. QED
          BY <2>1, <3>1, <3>2, <4>2
      <3>5. new.pc = "done" => new.failed
        <4>1. ~Commit(p)
          BY <2>4, <3>1, <3>2 DEF AtWork, Commit
        <4>2. QED
          BY <2>1, <2>4, <3>2, <4>1
      <3>6. QED
        BY <3>3, <3>4, <3>5
    <2>5. QED
      BY <2>1, <2>2, <2>3, <2>4, CallAtWork
  <1>5. ASSUME NEW m \in Managers, DecideSave(m) PROVE AloneStarts' /\ Together' /\ AtWork'
    <2>1. PICK q \in Punches : q = decision[m].p /\ q \in Ins
      BY <1>5 DEF DecideSave, IInv, Pending, Ins, Rows
    <2>2. PICK verdict : punch' = [punch EXCEPT ![q] = [punch[q] EXCEPT !.status = verdict]]
      BY <1>5, <2>1 DEF DecideSave
    <2>3. punch'[q] = [punch[q] EXCEPT !.status = verdict] /\ \A p \in Punches : p # q => punch'[p] = punch[p]
      BY <2>2 DEF IInv, TypeOK
    <2>4. /\ punch'[q].kind = punch[q].kind /\ punch'[q].row = punch[q].row /\ punch'[q].pc = punch[q].pc
          /\ punch'[q].ref = punch[q].ref /\ punch'[q].failed = punch[q].failed
      BY <1>t, <2>3 DEF Punch
    <2>5. \A p \in Punches : /\ punch'[p].kind = punch[p].kind /\ punch'[p].row = punch[p].row /\ punch'[p].pc = punch[p].pc
                             /\ punch'[p].ref = punch[p].ref /\ punch'[p].failed = punch[p].failed
      BY <2>3, <2>4
    <2>6. UNCHANGED sheet
      BY <1>5 DEF DecideSave
    <2>7. Rows' = Rows /\ Ins' = Ins /\ InCalls' = InCalls
      BY <2>5 DEF Rows, Ins, InCalls, InCall
    <2>8. AloneStarts' /\ Together'
      BY <2>6, <2>7 DEF AloneStarts, Together, Starting, Open
    <2>9. AtWork'
      BY <2>5, <2>6, <2>7 DEF AtWork, Open
    <2>10. QED
      BY <2>8, <2>9
  <1>6. ASSUME NEW w \in Sheets, StartRead(w) PROVE AloneStarts' /\ Together' /\ AtWork'
    <2>1. PICK S \in SUBSET Sheets : S = {v \in Sheets : Starting(v)}
      OBVIOUS
    <2>2. PICK b \in BOOLEAN : b = (S # {} \/ InCalls # {})
      OBVIOUS
    <2>3. /\ sheet' = [RaceSheets(S) EXCEPT ![w] = [pc |-> "look", raced |-> b]]
          /\ sheet[w].pc = "unused" /\ UNCHANGED punch
          /\ On(Rows, today) # {} /\ punch[Max(On(Rows, today))].kind = "in"
      BY <1>6, <2>1, <2>2 DEF StartRead
    <2>4. /\ sheet'[w].pc = "look" /\ sheet'[w].raced = b
          /\ \A v \in Sheets : v # w => sheet'[v].pc = sheet[v].pc /\ sheet'[v].raced = (sheet[v].raced \/ Starting(v))
      <3>1. TypeOK
        BY DEF IInv
      <3>2. RaceSheets(S) \in [Sheets -> SheetType]
        BY <2>1, <3>1, RaceType DEF SheetType
      <3>3. \A v \in Sheets : /\ RaceSheets(S)[v].pc = sheet[v].pc
                              /\ RaceSheets(S)[v].raced = (sheet[v].raced \/ v \in S)
        BY <2>1, <3>1, RaceSheetMarks
      <3>4. sheet'[w] = [pc |-> "look", raced |-> b] /\ \A v \in Sheets : v # w => sheet'[v] = RaceSheets(S)[v]
        BY <2>3, <3>2
      <3>5. \A v \in Sheets : (v \in S) = Starting(v)
        BY <2>1 DEF Starting
      <3>6. ASSUME NEW v \in Sheets, v # w
            PROVE  sheet'[v].pc = sheet[v].pc /\ sheet'[v].raced = (sheet[v].raced \/ Starting(v))
        <4>1. (sheet[v].raced \/ v \in S) = (sheet[v].raced \/ Starting(v))
          BY <3>5
        <4>2. QED
          BY <3>3, <3>4, <3>6, <4>1
      <3>7. QED
        BY <3>4, <3>6
    <2>5. /\ \A v \in Sheets : v # w => (Starting(v)' <=> Starting(v)) /\ (Open(v)' <=> Open(v))
          /\ Starting(w)' /\ ~Open(w)'
      BY <2>4 DEF Starting, Open
    <2>6. ~b => InCalls = {} /\ \A v \in Sheets : ~Starting(v)
      BY <2>1, <2>2
    <2>7. \E i \in Ins : \A q \in Rows : q <= i
      <3>1. /\ On(Rows, today) \in SUBSET Punches /\ Max(On(Rows, today)) \in On(Rows, today)
            /\ \A q \in On(Rows, today) : q <= Max(On(Rows, today))
        BY <2>3, MaxOf DEF On, Rows
      <3>2. PICK i \in On(Rows, today) : i = Max(On(Rows, today))
        BY <3>1
      <3>3. i \in Ins /\ i \in Punches /\ Used(i) /\ punch[i].day = today
        BY <2>3, <3>2 DEF Ins, On, Rows, Used, Numbered, NoPunch
      <3>4. ASSUME NEW q \in Rows PROVE q <= i
        <4>1. q \in Punches /\ Used(q)
          BY DEF Rows, Used, Numbered, NoPunch
        <4>2. CASE q > i
          <5>1. today <= punch[q].day /\ punch[q].day <= today
            BY <3>3, <4>1, <4>2 DEF Numbered
          <5>2. punch[q].day \in 0 .. MaxDay /\ today \in 1 .. MaxDay
            BY <4>1 DEF IInv, TypeOK
          <5>3. punch[q].day = today
            BY <5>1, <5>2, NAssumption
          <5>4. QED
            BY <3>1, <3>2, <5>3 DEF On
        <4>3. QED
          BY <3>3, <4>1, <4>2, PunchNumbers
      <3>5. QED
        BY <3>3, <3>4
    <2>8. AloneStarts'
      <3>1. InCalls' = InCalls /\ Ins' = Ins /\ Rows' = Rows
        BY <2>3 DEF InCalls, InCall, Ins, Rows
      <3>2. ASSUME NEW v \in Sheets, Starting(v)', ~sheet'[v].raced
            PROVE  InCalls' = {} /\ \E i \in Ins' : \A q \in Rows' : q <= i
        BY <2>4, <2>5, <2>6, <2>7, <3>1, <3>2
      <3>3. QED
        BY <3>2 DEF AloneStarts
    <2>9. Together'
      <3>1. ASSUME NEW u \in Sheets, NEW v \in Sheets, u # v
            PROVE  /\ Starting(u)' /\ Starting(v)' => sheet'[u].raced
                   /\ Open(u)' /\ (Open(v)' \/ sheet'[v].pc = "save") => sheet'[u].raced /\ sheet'[v].raced
        <4>1. CASE u = w
          BY <2>1, <2>2, <2>4, <2>5, <3>1, <4>1
        <4>2. CASE v = w
          BY <2>4, <2>5, <3>1, <4>2
        <4>3. CASE u # w /\ v # w
          BY <2>4, <2>5, <3>1, <4>3 DEF Together
        <4>4. QED
          BY <4>1, <4>2, <4>3
      <3>2. QED
        BY <3>1 DEF Together
    <2>10. AtWork'
      <3>1. \A v \in Sheets : Open(v)' /\ ~sheet'[v].raced => Open(v) /\ ~sheet[v].raced
        BY <2>4, <2>5
      <3>2. QED
        BY <2>3, <3>1 DEF AtWork, Ins, Rows
    <2>11. QED
      BY <2>8, <2>9, <2>10
  <1>7. ASSUME NEW w \in Sheets, StartLook(w) PROVE AloneStarts' /\ Together' /\ AtWork'
    <2>1. /\ sheet[w].pc = "look" /\ UNCHANGED punch
          /\ \A v \in Sheets : v # w => sheet'[v] = sheet[v]
      BY <1>7 DEF StartLook, IInv, TypeOK
    <2>2. \/ sheet'[w].pc = "unused"
          \/ sheet'[w].pc = "save" /\ sheet'[w].raced = sheet[w].raced /\ \A v \in Sheets : ~Open(v)
      <3>1. CASE \E v \in Sheets : Open(v)
        <4>1. sheet' = [sheet EXCEPT ![w] = NoSheet]
          BY <1>7, <3>1 DEF StartLook
        <4>2. sheet'[w] = NoSheet
          BY <4>1 DEF IInv, TypeOK
        <4>3. QED
          BY <4>2 DEF NoSheet
      <3>2. CASE ~\E v \in Sheets : Open(v)
        <4>1. sheet' = [sheet EXCEPT ![w] = [sheet[w] EXCEPT !.pc = "save"]]
          BY <1>7, <3>2 DEF StartLook
        <4>2. sheet'[w] = [sheet[w] EXCEPT !.pc = "save"]
          BY <4>1 DEF IInv, TypeOK
        <4>3. QED
          BY <1>t, <3>2, <4>2 DEF SheetType
      <3>3. QED
        BY <3>1, <3>2
    <2>3. /\ \A v \in Sheets : v # w => (Starting(v)' <=> Starting(v)) /\ (Open(v)' <=> Open(v))
          /\ Starting(w) /\ ~Open(w) /\ ~Open(w)'
          /\ Starting(w)' => sheet'[w].raced = sheet[w].raced
      BY <2>1, <2>2 DEF Starting, Open
    <2>4. AloneStarts'
      <3>1. InCalls' = InCalls /\ Ins' = Ins /\ Rows' = Rows
        BY <2>1 DEF InCalls, InCall, Ins, Rows
      <3>2. ASSUME NEW v \in Sheets, Starting(v)', ~sheet'[v].raced
            PROVE  InCalls = {} /\ \E i \in Ins : \A q \in Rows : q <= i
        BY <2>1, <2>3, <3>2 DEF AloneStarts
      <3>3. QED
        BY <3>1, <3>2 DEF AloneStarts
    <2>5. Together'
      <3>1. ASSUME NEW u \in Sheets, NEW v \in Sheets, u # v
            PROVE  /\ Starting(u)' /\ Starting(v)' => sheet'[u].raced
                   /\ Open(u)' /\ (Open(v)' \/ sheet'[v].pc = "save") => sheet'[u].raced /\ sheet'[v].raced
        <4>1. CASE u = w
          BY <2>1, <2>2, <2>3, <3>1, <4>1 DEF Together
        <4>2. CASE v = w
          BY <2>1, <2>2, <2>3, <3>1, <4>2 DEF Together, Starting
        <4>3. CASE u # w /\ v # w
          BY <2>1, <2>3, <3>1, <4>3 DEF Together
        <4>4. QED
          BY <4>1, <4>2, <4>3
      <3>2. QED
        BY <3>1 DEF Together
    <2>6. AtWork'
      BY <2>1, <2>3 DEF AtWork, Ins, Rows
    <2>7. QED
      BY <2>4, <2>5, <2>6
  <1>8. ASSUME NEW w \in Sheets, StartSave(w) PROVE AloneStarts' /\ Together' /\ AtWork'
    <2>1. /\ sheet[w].pc = "save" /\ UNCHANGED punch
          /\ \A v \in Sheets : v # w => sheet'[v] = sheet[v]
          /\ sheet'[w] = [sheet[w] EXCEPT !.pc = "open"]
      BY <1>8 DEF StartSave, IInv, TypeOK
    <2>2. sheet'[w].pc = "open" /\ sheet'[w].raced = sheet[w].raced
      BY <1>t, <2>1 DEF SheetType
    <2>3. /\ \A v \in Sheets : v # w => (Starting(v)' <=> Starting(v)) /\ (Open(v)' <=> Open(v))
          /\ Starting(w) /\ ~Starting(w)' /\ Open(w)'
      BY <2>1, <2>2 DEF Starting, Open
    <2>4. InCalls' = InCalls /\ Ins' = Ins /\ Rows' = Rows
      BY <2>1 DEF InCalls, InCall, Ins, Rows
    <2>5. AloneStarts'
      <3>1. ASSUME NEW v \in Sheets, Starting(v)', ~sheet'[v].raced
            PROVE  InCalls = {} /\ \E i \in Ins : \A q \in Rows : q <= i
        BY <2>1, <2>3, <3>1 DEF AloneStarts
      <3>2. QED
        BY <2>4, <3>1 DEF AloneStarts
    <2>6. Together'
      <3>1. ASSUME NEW u \in Sheets, NEW v \in Sheets, u # v
            PROVE  /\ Starting(u)' /\ Starting(v)' => sheet'[u].raced
                   /\ Open(u)' /\ (Open(v)' \/ sheet'[v].pc = "save") => sheet'[u].raced /\ sheet'[v].raced
        <4>1. CASE u = w
          BY <2>1, <2>2, <2>3, <3>1, <4>1 DEF Together, Starting
        <4>2. CASE v = w
          BY <2>1, <2>2, <2>3, <3>1, <4>2 DEF Together, Starting
        <4>3. CASE u # w /\ v # w
          BY <2>1, <2>3, <3>1, <4>3 DEF Together
        <4>4. QED
          BY <4>1, <4>2, <4>3
      <3>2. QED
        BY <3>1 DEF Together
    <2>7. AtWork'
      <3>1. ASSUME NEW v \in Sheets, NEW p \in Punches, Open(v)', ~sheet'[v].raced, punch[p].kind = "out"
            PROVE  /\ punch[p].pc = "end" => punch[p].ref = v
                   /\ punch[p].pc # "commit"
                   /\ punch[p].pc = "done" /\ ~punch[p].failed => \E i \in Ins : i > p
        <4>1. CASE v # w
          BY <2>1, <2>3, <3>1, <4>1 DEF AtWork
        <4>2. CASE v = w
          <5>1. InCalls = {} /\ \E i \in Ins : \A q \in Rows : q <= i
            BY <2>2, <2>3, <3>1, <4>2 DEF AloneStarts
          <5>2. punch[p].pc \notin {"end", "commit"}
            BY <5>1 DEF InCalls, InCall
          <5>3. ASSUME punch[p].pc = "done" PROVE \E i \in Ins : i > p
            <6>1. p \in Rows
              BY <5>3 DEF Rows, Numbered
            <6>2. PICK i \in Ins : p <= i
              BY <5>1, <6>1
            <6>3. i # p /\ i \in Punches
              BY <3>1, <6>2 DEF Ins, Rows
            <6>4. QED
              BY <6>2, <6>3, PunchNumbers
          <5>4. QED
            BY <5>2, <5>3
        <4>3. QED
          BY <4>1, <4>2
      <3>2. QED
        BY <2>1, <2>4, <3>1 DEF AtWork
    <2>8. QED
      BY <2>5, <2>6, <2>7
  <1>9. CASE EndWorkSave
    <2>1. /\ UNCHANGED punch
          /\ sheet' = [sheet EXCEPT ![ending].pc = "ended"]
      BY <1>9 DEF EndWorkSave
    <2>2. \A w \in Sheets : sheet'[w] = sheet[w] \/ sheet'[w] = [sheet[w] EXCEPT !.pc = "ended"]
      BY <2>1 DEF IInv, TypeOK
    <2>3. \A w \in Sheets : [sheet[w] EXCEPT !.pc = "ended"].pc = "ended" /\ [sheet[w] EXCEPT !.pc = "ended"].raced = sheet[w].raced
      BY <1>t DEF SheetType
    <2>4. \A w \in Sheets : sheet'[w] = sheet[w] \/ (sheet'[w].pc = "ended" /\ sheet'[w].raced = sheet[w].raced)
      BY <2>2, <2>3
    <2>5. QED
      BY <2>1, <2>4, SheetEnds
  <1>10. ASSUME \/ \E w \in Sheets : EndWorkRead(w)
                \/ \E m \in Managers, p \in Punches : DecideRead(m, p) \/ BulkRead(m, p)
         PROVE  AloneStarts' /\ Together' /\ AtWork'
    BY <1>10, <1>u DEF EndWorkRead, DecideRead, BulkRead, Decide
  <1>11. QED
    BY <1>1, <1>2, <1>3, <1>4, <1>5, <1>6, <1>7, <1>8, <1>9, <1>10 DEF Next

\* The punches and the timesheets are in order, always.
LEMMA InOrder == Spec => [](IInv /\ Numbered /\ Lone /\ Alternating /\ AloneStarts /\ Together /\ AtWork)
  <1>1. Init => Numbered /\ Lone /\ Alternating /\ AloneStarts /\ Together /\ AtWork
    <2> SUFFICES ASSUME Init PROVE Numbered /\ Lone /\ Alternating /\ AloneStarts /\ Together /\ AtWork
      OBVIOUS
    <2>1. \A p \in Punches : punch[p] = NoPunch /\ ~Used(p) /\ punch[p].pc = "unused" /\ punch[p].kind = "none"
      BY DEF Init, Used, NoPunch
    <2>2. \A w \in Sheets : ~Starting(w) /\ ~Open(w)
      BY DEF Init, Starting, Open, NoSheet
    <2>3. QED
      BY <2>1, <2>2 DEF Numbered, Lone, Alternating, AloneStarts, Together, AtWork
  <1>2. IInv /\ Numbered /\ Lone /\ Alternating /\ AloneStarts /\ Together /\ AtWork /\ [Next]_vars
        => Numbered' /\ Lone' /\ Alternating' /\ AloneStarts' /\ Together' /\ AtWork'
    <2> SUFFICES ASSUME IInv, Numbered, Lone, Alternating, AloneStarts, Together, AtWork, [Next]_vars
                 PROVE  Numbered' /\ Lone' /\ Alternating' /\ AloneStarts' /\ Together' /\ AtWork'
      OBVIOUS
    <2>1. CASE Next
      BY <2>1, AlternatingStep, AtWorkStep
    <2>2. CASE UNCHANGED vars
      <3>1. UNCHANGED <<punch, today, sheet>>
        BY <2>2 DEF vars
      <3>2. Numbered' /\ Lone' /\ Alternating'
        BY <3>1, CallsMarked
      <3>3. AloneStarts' /\ Together' /\ AtWork'
        BY <3>1, SheetEnds
      <3>4. QED
        BY <3>2, <3>3
    <2>3. QED
      BY <2>1, <2>2
  <1>3. QED
    BY <1>1, <1>2, Invariant, PTL DEF Spec

\* The punches of a day alternate, beginning with a check-in, for each one
\* that overlapped no other punch and no midnight.
THEOREM PunchesAlternate == Spec => []UnracedAlternate
  <1>1. Numbered /\ Alternating => UnracedAlternate
    <2> SUFFICES ASSUME Numbered, Alternating, NEW p \in Rows, ~punch[p].raced
                 PROVE  IF punch[p].kind = "in" THEN Before(p) = {} \/ punch[Max(Before(p))].kind = "out"
                        ELSE Before(p) # {} /\ punch[Max(Before(p))].kind = "in"
      BY DEF UnracedAlternate, Before
    <2>1. p \in Punches /\ Used(p) /\ punch[p].pc # "read"
      BY DEF Rows, Used, Numbered, NoPunch
    <2>2. QED
      BY <2>1 DEF Alternating, Fits
  <1>2. QED
    BY <1>1, InOrder, PTL

\* Once the latest punch is a complete check-out, no timesheet is open but one
\* whose start overlapped a punch, midnight or another start.
THEOREM CheckOutEndsWork == Spec => []WorkEndsWithCheckOut
  <1>1. AtWork => WorkEndsWithCheckOut
    <2> SUFFICES ASSUME AtWork, NEW p \in Outs, NEW w \in Sheets, p = Max(Rows),
                        punch[p].pc = "done", ~punch[p].failed, Open(w), ~sheet[w].raced
                 PROVE  FALSE
      BY DEF WorkEndsWithCheckOut
    <2>1. p \in Punches /\ punch[p].kind = "out" /\ p \in Rows
      BY DEF Outs, Rows
    <2>2. PICK i \in Ins : i > p
      BY <2>1 DEF AtWork
    <2>3. i \in Rows /\ Rows \in SUBSET Punches
      BY DEF Ins, Rows
    <2>4. i <= p
      BY <2>3, MaxOf
    <2>5. QED
      BY <2>1, <2>2, <2>3, <2>4, PunchNumbers
  <1>2. QED
    BY <1>1, InOrder, PTL

-----------------------------------------------------------------------------
(* The report and the summary.  The pairing of the report is recursive: it  *)
(* exists because each check-in asks only what earlier ones took.  While    *)
(* punches alternate and every earlier check-in has a check-out of its day, *)
(* each check-in takes the row that follows it.                             *)

\* The earliest of some punches.
LEMMA MinOf ==
  ASSUME NEW S \in SUBSET Punches, S # {}
  PROVE  Min(S) \in S /\ \A x \in S : Min(S) <= x
  <1>1. S \in SUBSET Nat
    BY PunchNumbers
  <1>2. PICK x \in S : \A y \in S : x <= y
    BY <1>1, LeastOf
  <1>3. QED
    BY <1>2 DEF Min

\* What a check-in takes, given what the earlier ones took.
Take(f, p) == First({q \in After(Outs, p) : \A o \in {i \in Ins : i < p} : f[o] # q})

\* It depends on the earlier ones only.
LEMMA TakeSame ==
  ASSUME NEW f, NEW g, NEW p, \A o \in Ins : o < p => f[o] = g[o]
  PROVE  Take(f, p) = Take(g, p)
  <1>1. {q \in After(Outs, p) : \A o \in {i \in Ins : i < p} : f[o] # q}
          = {q \in After(Outs, p) : \A o \in {i \in Ins : i < p} : g[o] # q}
    OBVIOUS
  <1>2. QED
    BY <1>1, Zenon DEF Take

\* The pairing of the check-ins up to n.
UpTo(n)         == {i \in Ins : i <= n}
IsPairing(f, n) == f = [p \in UpTo(n) |-> Take(f, p)]

\* A pairing is extended by one check-in.
LEMMA PairingGrows ==
  ASSUME NEW n \in Nat, NEW f, IsPairing(f, n)
  PROVE  \E g : IsPairing(g, n + 1)
  <1> DEFINE g == [p \in UpTo(n + 1) |-> IF p = n + 1 THEN Take(f, p) ELSE f[p]]
  <1>1. \A p \in UpTo(n + 1) : p \in Nat /\ (p # n + 1 => p \in UpTo(n))
    BY PunchNumbers DEF UpTo, Ins, Rows
  <1>2. \A p \in UpTo(n) : f[p] = Take(f, p)
    <2>1. f = [p \in UpTo(n) |-> Take(f, p)]
      BY DEF IsPairing
    <2> DEFINE T(p) == Take(f, p)
    <2>2. f = [p \in UpTo(n) |-> T(p)]
      BY <2>1
    <2> HIDE DEF T
    <2>3. \A p \in UpTo(n) : f[p] = T(p)
      BY <2>2
    <2>4. QED
      BY <2>3 DEF T
  <1>3. \A p \in UpTo(n + 1) : g[p] = Take(f, p)
    BY <1>1, <1>2
  <1>4. \A p \in UpTo(n + 1) : Take(g, p) = Take(f, p)
    <2>1. ASSUME NEW p \in UpTo(n + 1) PROVE \A o \in Ins : o < p => g[o] = f[o]
      <3>1. ASSUME NEW o \in Ins, o < p PROVE g[o] = f[o]
        <4>1. o \in Nat /\ p \in Nat /\ p <= n + 1
          BY <1>1, PunchNumbers DEF UpTo, Ins, Rows
        <4>2. o \in UpTo(n + 1) /\ o # n + 1
          BY <3>1, <4>1 DEF UpTo
        <4>3. QED
          BY <4>2
      <3>2. QED
        BY <3>1
    <2> HIDE DEF g
    <2>2. QED
      BY <2>1, TakeSame
  <1>5. g = [p \in UpTo(n + 1) |-> Take(g, p)]
    BY <1>3, <1>4
  <1>6. QED
    BY <1>5 DEF IsPairing

\* The definition of the pairing means what it says.
LEMMA PairedIs == \A p \in Ins : Paired[p] = Take(Paired, p)
  <1> DEFINE Good(n) == \E f : IsPairing(f, n)
             Bad     == {n \in Nat : ~Good(n)}
  <1>1. Good(0)
    <2>1. UpTo(0) = {}
      BY PunchNumbers DEF UpTo, Ins, Rows
    <2>2. IsPairing([p \in {} |-> 0], 0)
      BY <2>1 DEF IsPairing
    <2>3. QED
      BY <2>2
  <1>2. ASSUME NEW n \in Nat, Good(n) PROVE Good(n + 1)
    BY <1>2, PairingGrows
  <1> HIDE DEF Good
  <1>3. Bad = {}
    <2>1. SUFFICES ASSUME Bad # {} PROVE FALSE
      OBVIOUS
    <2>2. PICK n \in Bad : \A m \in Bad : n <= m
      <3>1. Bad \in SUBSET Nat
        OBVIOUS
      <3> HIDE DEF Bad
      <3>2. QED
        BY <2>1, <3>1, LeastOf
    <2>3. n # 0 /\ n - 1 \in Nat
      BY <1>1, <2>2
    <2>4. Good(n - 1)
      BY <2>2, <2>3
    <2>5. Good((n - 1) + 1)
      BY <1>2, <2>3, <2>4
    <2>6. QED
      BY <2>2, <2>5
  <1>4. PICK f : IsPairing(f, N)
    BY <1>3, NAssumption DEF Good
  <1>5. UpTo(N) = Ins
    BY PunchNumbers DEF UpTo, Ins, Rows
  <1>6. f = [p \in Ins |-> Take(f, p)]
    BY <1>4, <1>5 DEF IsPairing
  <1>7. Paired = [p \in Ins |-> Take(Paired, p)]
    BY <1>6 DEF Paired, Take
  <1>8. QED
    <2> DEFINE T(p) == Take(Paired, p)
    <2>1. Paired = [p \in Ins |-> T(p)]
      BY <1>7
    <2> HIDE DEF T
    <2>2. \A p \in Ins : Paired[p] = T(p)
      BY <2>1
    <2>3. QED
      BY <2>2 DEF T

\* A check-in that is the last row of its day leaves the day with fewer
\* check-outs than check-ins.
LEMMA LastIn ==
  ASSUME IInv, Numbered, Alternating, \A p \in Rows : ~punch[p].raced,
         NEW d, NEW p \in On(Ins, d), \A q \in On(Rows, d) : q <= p
  PROVE  Cardinality(On(Ins, d)) # Cardinality(On(Outs, d))
  <1> DEFINE I == On(Ins, d)
             O == On(Outs, d)
             f == [o \in O |-> Max(Before(o))]
  <1>1. /\ I \in SUBSET Punches /\ O \in SUBSET Punches
        /\ I \subseteq On(Rows, d) /\ O \subseteq On(Rows, d)
        /\ \A q \in O : punch[q].kind = "out" /\ punch[q].day = d
        /\ \A q \in On(Rows, d) : punch[q].kind = "in" => q \in I
    BY DEF On, Ins, Outs, Rows
  <1>2. ASSUME NEW o \in O
        PROVE  /\ Max(Before(o)) \in I \ {p} /\ Max(Before(o)) < o
               /\ \A q \in O : q < o => q <= Max(Before(o))
    <2>1. o \in Rows /\ o \in Punches /\ Used(o) /\ punch[o].pc # "read" /\ punch[o].kind = "out" /\ punch[o].day = d
      BY <1>1 DEF On, Rows, Used, Numbered, NoPunch
    <2>2. Before(o) # {} /\ punch[Max(Before(o))].kind = "in"
      BY <2>1 DEF Alternating, Fits
    <2>3. Before(o) \in SUBSET Punches /\ Before(o) = {q \in On(Rows, d) : q < o}
      BY <2>1 DEF Before, On, Rows
    <2>4. Max(Before(o)) \in Before(o) /\ \A q \in Before(o) : q <= Max(Before(o))
      BY <2>2, <2>3, MaxOf
    <2>5. o <= p
      BY <1>1
    <2>6. p \in Punches
      BY <1>1
    <2>7. QED
      BY <1>1, <2>1, <2>2, <2>3, <2>4, <2>5, <2>6, PunchNumbers
  <1>3. f \in Injection(O, I \ {p})
    <2>1. f \in [O -> I \ {p}]
      BY <1>2
    <2>2. ASSUME NEW o \in O, NEW q \in O, f[o] = f[q] PROVE o = q
      <3>1. o \in Nat /\ q \in Nat
        BY <1>1, PunchNumbers
      <3>2. f[o] \in Nat /\ f[o] < o /\ f[q] < q
        BY <1>1, <1>2, PunchNumbers
      <3>3. ~(o < q) /\ ~(q < o)
        BY <1>2, <2>2, <3>1, <3>2
      <3>4. QED
        BY <3>1, <3>3
    <2> HIDE DEF f
    <2>3. QED
      BY <2>1, <2>2 DEF Injection, IsInjective
  <1>4. IsFiniteSet(I) /\ IsFiniteSet(O)
    <2>1. IsFiniteSet(Punches)
      BY FS_Interval, NAssumption DEF Punches
    <2>2. QED
      BY <1>1, <2>1, FS_Subset
  <1> HIDE DEF f, I, O
  <1>5. IsFiniteSet(I \ {p}) /\ Cardinality(I \ {p}) = Cardinality(I) - 1
    <2>1. p \in I
      BY DEF I
    <2>2. QED
      BY <1>4, <2>1, FS_RemoveElement
  <1>6. Cardinality(O) <= Cardinality(I \ {p})
    BY <1>3, <1>5, FS_Injection
  <1>7. Cardinality(I) \in Nat /\ Cardinality(O) \in Nat
    BY <1>4, FS_CardinalityType
  <1>8. Cardinality(I) # Cardinality(O)
    BY <1>5, <1>6, <1>7
  <1>9. QED
    BY <1>8 DEF I, O

\* The row that follows a check-in before today's latest is a check-out.
LEMMA OutFollows ==
  ASSUME IInv, Numbered, Alternating, \A p \in Rows : ~punch[p].raced,
         \A d \in 1 .. today - 1 : Cardinality(On(Ins, d)) = Cardinality(On(Outs, d)),
         NEW i \in On(Ins, today), NEW p \in Ins, p < i
  PROVE  \E q \in Outs : q > p /\ \A r \in Rows : r > p => q <= r
  <1> DEFINE later == After(Rows, p)
  <1>1. later \in SUBSET Punches /\ i \in later /\ p \in Punches /\ p \in Rows
    BY DEF After, On, Ins, Rows
  <1>2. PICK q \in later : \A r \in later : q <= r
    BY <1>1, MinOf
  <1>3. q \in Rows /\ q \in Punches /\ q > p /\ \A r \in Rows : r > p => q <= r
    BY <1>1, <1>2 DEF After
  <1>4. \A r \in Rows : r \in Punches /\ Used(r) /\ punch[r].pc # "read"
    BY DEF Rows, Used, Numbered, NoPunch
  <1>5. punch[p].kind = "in" /\ punch[i].day = today /\ i \in Rows
    BY DEF Ins, On
  <1>d. /\ \A r \in Punches : punch[r].day \in 0 .. MaxDay
        /\ today \in 1 .. MaxDay /\ MaxDay \in Nat
    BY NAssumption DEF IInv, TypeOK
  <1>6. CASE punch[q].day = punch[p].day
    <2>1. Fits(q)
      BY <1>3, <1>4 DEF Alternating
    <2>2. Before(q) \in SUBSET Punches /\ p \in Before(q)
      BY <1>1, <1>3, <1>6 DEF Before, On, Rows
    <2>3. \A r \in Before(q) : ~(r > p)
      <3>1. \A r \in Before(q) : r \in Rows /\ r < q /\ r \in Punches
        BY DEF Before, On, Rows
      <3>2. QED
        BY <1>3, <3>1, PunchNumbers
    <2>4. Max(Before(q)) = p
      <3>1. Max(Before(q)) \in Before(q) /\ p <= Max(Before(q))
        BY <2>2, MaxOf
      <3>2. QED
        BY <2>2, <2>3, <3>1, PunchNumbers
    <2>5. punch[q].kind # "in"
      BY <1>5, <2>1, <2>2, <2>4 DEF Fits
    <2>6. q \in Outs
      BY <1>3, <1>4, <2>5 DEF Outs, Numbered
    <2>7. QED
      BY <1>3, <2>6
  <1>7. CASE punch[q].day # punch[p].day
    <2>1. PICK d : d = punch[p].day
      OBVIOUS
    <2>2. d < punch[q].day
      <3>1. d <= punch[q].day
        BY <1>1, <1>3, <1>4, <2>1 DEF Numbered
      <3>2. QED
        BY <1>1, <1>3, <1>7, <1>d, <2>1, <3>1
    <2>3. d \in 1 .. today - 1
      <3>1. punch[q].day <= today /\ 1 <= d
        BY <1>1, <1>3, <1>4, <2>1 DEF Numbered
      <3>2. QED
        BY <1>1, <1>3, <1>d, <2>1, <2>2, <3>1
    <2>4. p \in On(Ins, d)
      BY <2>1 DEF On
    <2>5. \A r \in On(Rows, d) : r <= p
      <3>1. ASSUME NEW r \in Rows, punch[r].day = d, r > p PROVE FALSE
        <4>1. r \in Punches /\ q <= r /\ Used(r) /\ Used(q)
          BY <1>3, <1>4, <3>1
        <4>2. punch[q].day <= d
          <5>1. CASE q = r
            BY <1>1, <1>3, <1>d, <2>1, <3>1, <5>1
          <5>2. CASE q # r
            <6>1. q < r
              BY <1>3, <4>1, <5>2, PunchNumbers
            <6>2. punch[q].day <= punch[r].day
              BY <1>3, <4>1, <6>1 DEF Numbered
            <6>3. QED
              BY <3>1, <6>2
          <5>3. QED
            BY <5>1, <5>2
        <4>3. QED
          BY <1>1, <1>3, <1>d, <2>1, <2>2, <4>2
      <3>2. \A r \in On(Rows, d) : r \in Rows /\ punch[r].day = d /\ r \in Punches
        BY DEF On, Rows
      <3>3. QED
        BY <1>1, <3>1, <3>2, PunchNumbers
    <2>6. QED
      BY <2>3, <2>4, <2>5, LastIn
  <1>8. QED
    BY <1>6, <1>7

\* So each check-in before today's latest takes the row that follows it.
LEMMA TakesNext ==
  ASSUME IInv, Numbered, Alternating, \A p \in Rows : ~punch[p].raced,
         \A d \in 1 .. today - 1 : Cardinality(On(Ins, d)) = Cardinality(On(Outs, d)),
         NEW i \in On(Ins, today)
  PROVE  \A p \in Ins : p < i => Paired[p] \in Punches /\ \A r \in Rows : r > p => Paired[p] <= r
  <1> DEFINE Next1(p) == Paired[p] \in Punches /\ \A r \in Rows : r > p => Paired[p] <= r
             Bad      == {p \in Ins : p < i /\ ~Next1(p)}
  <1>1. Bad \in SUBSET Nat
    BY PunchNumbers DEF Ins, Rows
  <1>2. SUFFICES ASSUME Bad # {} PROVE FALSE
    OBVIOUS
  <1>3. PICK p \in Bad : \A o \in Bad : p <= o
    <2> HIDE DEF Bad
    <2>1. QED
      BY <1>1, <1>2, LeastOf
  <1>4. p \in Ins /\ p < i /\ ~Next1(p) /\ p \in Rows /\ p \in Punches
    BY DEF Ins, Rows
  <1>i. i \in Punches
    BY DEF On, Ins, Rows
  <1>5. \A o \in Ins : o < p => Next1(o)
    <2>1. ASSUME NEW o \in Ins, o < p PROVE Next1(o)
      <3>1. o \in Nat /\ p \in Nat /\ i \in Nat /\ o < i
        BY <1>4, <1>i, <2>1, PunchNumbers DEF Ins, Rows
      <3>2. o \notin Bad
        BY <1>3, <2>1, <3>1
      <3>3. QED
        BY <3>1, <3>2
    <2>2. QED
      BY <2>1
  <1>6. \A o \in Ins : o < p => Paired[o] \in Nat /\ Paired[o] <= p
    BY <1>4, <1>5, PunchNumbers
  <1>7. {q \in After(Outs, p) : \A o \in {j \in Ins : j < p} : Paired[o] # q} = After(Outs, p)
    <2>1. ASSUME NEW q \in After(Outs, p), NEW o \in {j \in Ins : j < p} PROVE Paired[o] # q
      <3>1. q \in Punches /\ q > p
        BY DEF After, Outs, Rows
      <3>2. QED
        BY <1>4, <1>6, <3>1, PunchNumbers
    <2>2. QED
      BY <2>1
  <1>8. Paired[p] = First(After(Outs, p))
    BY <1>4, <1>7, PairedIs DEF Take
  <1>9. PICK q \in Outs : q > p /\ \A r \in Rows : r > p => q <= r
    BY <1>4, OutFollows
  <1>10. After(Outs, p) \in SUBSET Punches /\ q \in After(Outs, p) /\ \A r \in After(Outs, p) : r \in Rows /\ r > p
    BY <1>9 DEF After, Outs, Rows
  <1>11. /\ Min(After(Outs, p)) \in After(Outs, p) /\ Min(After(Outs, p)) <= q
    BY <1>10, MinOf
  <1>12. Min(After(Outs, p)) = q
    BY <1>9, <1>10, <1>11, PunchNumbers
  <1>13. Paired[p] = q
    BY <1>8, <1>10, <1>12 DEF First
  <1>14. QED
    BY <1>4, <1>9, <1>10, <1>13

\* The report gives today's latest check-in the check-out that the summary of
\* today gives it.
THEOREM ReportAgrees == Spec => []ReportMatchesSummary
  <1>1. IInv /\ Numbered /\ Alternating => ReportMatchesSummary
    <2> SUFFICES ASSUME IInv, Numbered, Alternating, On(Ins, today) # {},
                        \A p \in Rows : ~punch[p].raced,
                        \A d \in 1 .. today - 1 : Cardinality(On(Ins, d)) = Cardinality(On(Outs, d))
                 PROVE  Item(today) = Summary
      BY DEF ReportMatchesSummary
    <2>1. PICK i \in On(Ins, today) : i = Max(On(Ins, today))
      <3>1. On(Ins, today) \in SUBSET Punches
        BY DEF On, Ins, Rows
      <3>2. QED
        BY <3>1, MaxOf
    <2>2. i \in Ins /\ i \in Rows /\ i \in Punches
      BY DEF On, Ins, Rows
    <2>3. {q \in After(Outs, i) : \A o \in {j \in Ins : j < i} : Paired[o] # q} = After(Outs, i)
      <3>1. ASSUME NEW q \in After(Outs, i), NEW o \in {j \in Ins : j < i} PROVE Paired[o] # q
        <4>1. q \in Punches /\ q > i /\ o \in Ins /\ o < i /\ o \in Punches
          BY DEF After, Ins, Outs, Rows
        <4>2. Paired[o] \in Punches /\ Paired[o] <= i
          BY <2>2, <4>1, TakesNext, PunchNumbers
        <4>3. QED
          BY <2>2, <4>1, <4>2, PunchNumbers
      <3>2. QED
        BY <3>1
    <2>4. Paired[i] = First(After(Outs, i))
      BY <2>2, <2>3, PairedIs DEF Take
    <2>5. QED
      BY <2>1, <2>4 DEF Item, Summary
  <1>2. QED
    BY <1>1, InOrder, PTL

=============================================================================

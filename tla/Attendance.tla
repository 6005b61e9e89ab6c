----------------------------- MODULE Attendance -----------------------------
(***************************************************************************)
(* The attendance and the timesheet of one employee                        *)
(* (attendance/attendance.service.ts, timesheet/timesheet.service.ts).     *)
(*                                                                         *)
(* A punch takes its time, reads today's session and then inserts a row.   *)
(* A check-out ends the running timesheet as well.  The timesheets are in  *)
(* the public schema and commit at once; the row of a punch on a           *)
(* provisioned tenant commits with the whole call.  A manager decides a    *)
(* check-in on its own, or those that were pending when they were read.    *)
(*                                                                         *)
(* Punches are numbered in the order of their times (a refused one leaves   *)
(* no trace), days by the midnights of UTC.                                *)
(***************************************************************************)
EXTENDS Integers, FiniteSets, FiniteSetsExt

CONSTANTS
  N,         \* bound: punches of the employee
  MaxDay,    \* bound: days
  Sheets,    \* ids of timesheets
  Managers,  \* decisions in progress
  MaxOverlaps, \* bound: calls that begin while another is in progress
  MaxFaults, \* bound: punches that fail
  MaxDecisions, \* bound: decisions
  None       \* no timesheet

ASSUME NAssumption == N \in Nat /\ MaxDay \in Nat \ {0} 
ASSUME BoundsAssumption == MaxOverlaps \in Nat /\ MaxFaults \in Nat /\ MaxDecisions \in Nat
ASSUME NoneAssumption == None \notin Sheets

VARIABLES
  provisioned,  \* tenants.schema_provisioned of the tenant
  leads,        \* the employee manages a team or is a network administrator
  today,        \* the day it is
  punch,        \* each punch: its call and its row
  sheet,        \* each timesheet: the call that starts it and its row
  ending,       \* the timesheet an endWork call has read
  decision,     \* each decision in progress
  decisions,    \* decisions so far
  overlaps      \* calls so far that began while another was in progress

vars == <<provisioned, leads, today, punch, sheet, ending, decision, decisions, overlaps>>

-----------------------------------------------------------------------------
Punches  == 1 .. N
NoPunch  == [pc |-> "unused", kind |-> "none", day |-> 0, row |-> FALSE,
             status |-> "none", ref |-> None, raced |-> FALSE, failed |-> FALSE]
NoSheet  == [pc |-> "unused", raced |-> FALSE]
Deciding == [pc : {"idle"}] \union
            [pc : {"save", "bulk"}, p : Punches, late : BOOLEAN]

InCall(p) == punch[p].pc \notin {"unused", "done"}
Starting(w) == sheet[w].pc \in {"look", "save"}
Open(w)   == sheet[w].pc = "open"

\* The rows a query sees.
Rows      == {p \in Punches : punch[p].row}
Ins       == {p \in Rows : punch[p].kind = "in"}
Outs      == {p \in Rows : punch[p].kind = "out"}
On(S, d)  == {p \in S : punch[p].day = d}
After(S, p) == {q \in S : q > p}

\* getActiveSession: the latest check-in of today has no check-out after it.
Session == /\ On(Ins, today) # {}
           /\ After(Outs, Max(On(Ins, today))) = {}

\* History: calls that overlap.
RacePunches(S) == [p \in Punches |-> IF p \in S THEN [punch[p] EXCEPT !.raced = TRUE] ELSE punch[p]]
RaceSheets(S)  == [w \in Sheets |-> IF w \in S THEN [sheet[w] EXCEPT !.raced = TRUE] ELSE sheet[w]]
InCalls        == {p \in Punches : InCall(p)}

Idle  == [pc |-> "idle"]

Busy  == \/ InCalls # {} \/ ending # None
         \/ \E w \in Sheets : Starting(w)
         \/ \E m \in Managers : decision[m] # Idle
Enter == IF Busy THEN overlaps < MaxOverlaps /\ overlaps' = overlaps + 1
                 ELSE overlaps' = overlaps

-----------------------------------------------------------------------------
(* create *)

Arrive(p, kind) ==
  /\ Enter
  /\ \A q \in p .. N : punch[q] = NoPunch
  /\ p > 1 => punch[p - 1] # NoPunch
  /\ punch' = [RacePunches(InCalls) EXCEPT
                 ![p] = [NoPunch EXCEPT !.pc = "read", !.kind = kind, !.day = today, !.raced = InCalls # {}]]
  /\ sheet' = RaceSheets({w \in Sheets : Starting(w)})
  /\ UNCHANGED <<provisioned, leads, today, ending, decision, decisions>>

\* Mutant: any check-in of today stands for a session.
MutRead(p) ==
  /\ punch[p].pc = "read"
  /\ punch' = [punch EXCEPT ![p] = IF (@.kind = "in") = (On(Ins, today) # {}) THEN NoPunch
                                   ELSE [@ EXCEPT !.pc = "insert"]]
  /\ UNCHANGED <<provisioned, leads, today, sheet, ending, decision, decisions, overlaps>>

\* A check-in asks that there be no session, a check-out that there be one.
Read(p) ==
  /\ punch[p].pc = "read"
  /\ punch' = [punch EXCEPT ![p] = IF (@.kind = "in") = Session THEN NoPunch
                                   ELSE [@ EXCEPT !.pc = "insert"]]
  /\ UNCHANGED <<provisioned, leads, today, sheet, ending, decision, decisions, overlaps>>

\* Mutant: the timesheet is ended for check-outs of legacy tenants only.
MutInsert(p) ==
  /\ punch[p].pc = "insert"
  /\ IF punch[p].kind = "in"
     THEN punch' = [punch EXCEPT ![p].pc = "done", ![p].row = TRUE,
                                 ![p].status = IF leads THEN "approved" ELSE "pending"]
     ELSE punch' = [punch EXCEPT ![p].pc = IF provisioned THEN "done" ELSE "sheet", ![p].row = TRUE]
  /\ UNCHANGED <<provisioned, leads, today, sheet, ending, decision, decisions, overlaps>>

\* The check-ins of managers and network administrators are approved.
Insert(p) ==
  /\ punch[p].pc = "insert"
  /\ IF punch[p].kind = "in"
     THEN punch' = [punch EXCEPT ![p].pc = "done", ![p].row = TRUE,
                                 ![p].status = IF leads THEN "approved" ELSE "pending"]
     ELSE punch' = [punch EXCEPT ![p].pc = "sheet", ![p].row = ~provisioned]
  /\ UNCHANGED <<provisioned, leads, today, sheet, ending, decision, decisions, overlaps>>

\* autoEndIfActive, its query: any open timesheet.
EndRead(p) ==
  /\ punch[p].pc = "sheet"
  /\ IF \E w \in Sheets : Open(w)
     THEN \E w \in {s \in Sheets : Open(s)} : punch' = [punch EXCEPT ![p].pc = "end", ![p].ref = w]
     ELSE punch' = [punch EXCEPT ![p].pc = "commit"]
  /\ UNCHANGED <<provisioned, leads, today, sheet, ending, decision, decisions, overlaps>>

EndSave(p) ==
  /\ punch[p].pc = "end"
  /\ sheet' = [sheet EXCEPT ![punch[p].ref].pc = "ended"]
  /\ punch' = [punch EXCEPT ![p].pc = "commit", ![p].ref = None]
  /\ UNCHANGED <<provisioned, leads, today, ending, decision, decisions, overlaps>>

Commit(p) ==
  /\ punch[p].pc = "commit"
  /\ punch' = [punch EXCEPT ![p].pc = "done", ![p].row = TRUE]
  /\ UNCHANGED <<provisioned, leads, today, sheet, ending, decision, decisions, overlaps>>

\* An error, or a location outside the geofence: the transaction of a
\* provisioned tenant rolls back, the row of another is there already.
Fail(p) ==
  /\ InCall(p) /\ Cardinality({q \in Punches : punch[q].failed}) < MaxFaults
  /\ punch' = [punch EXCEPT ![p] = IF @.row THEN [@ EXCEPT !.pc = "done", !.ref = None, !.failed = TRUE]
                                   ELSE NoPunch]
  /\ UNCHANGED <<provisioned, leads, today, sheet, ending, decision, decisions, overlaps>>

-----------------------------------------------------------------------------
(* startWork and endWork *)

\* The latest row of today is a check-in.
StartRead(w) ==
  LET todays == On(Rows, today) IN
  /\ Enter
  /\ sheet[w].pc = "unused"
  /\ todays # {} /\ punch[Max(todays)].kind = "in"
  /\ LET others == {v \in Sheets : Starting(v)} IN
     sheet' = [RaceSheets(others) EXCEPT
                 ![w] = [pc |-> "look", raced |-> others # {} \/ InCalls # {}]]
  /\ UNCHANGED <<provisioned, leads, today, punch, ending, decision, decisions>>

StartLook(w) ==
  /\ sheet[w].pc = "look"
  /\ sheet' = [sheet EXCEPT ![w] = IF \E v \in Sheets : Open(v) THEN NoSheet ELSE [@ EXCEPT !.pc = "save"]]
  /\ UNCHANGED <<provisioned, leads, today, punch, ending, decision, decisions, overlaps>>

StartSave(w) ==
  /\ sheet[w].pc = "save"
  /\ sheet' = [sheet EXCEPT ![w].pc = "open"]
  /\ UNCHANGED <<provisioned, leads, today, punch, ending, decision, decisions, overlaps>>

EndWorkRead(w) ==
  /\ Enter /\ ending = None /\ Open(w)
  /\ ending' = w
  /\ UNCHANGED <<provisioned, leads, today, punch, sheet, decision, decisions>>

EndWorkSave ==
  /\ ending # None
  /\ sheet' = [sheet EXCEPT ![ending].pc = "ended"]
  /\ ending' = None
  /\ UNCHANGED <<provisioned, leads, today, punch, decision, decisions, overlaps>>

-----------------------------------------------------------------------------
(* Decisions of the manager on check-ins *)

Decide(m, p, pc) ==
  /\ Enter /\ decision[m] = Idle
  /\ decisions < MaxDecisions /\ decisions' = decisions + 1
  /\ decision' = [decision EXCEPT ![m] = [pc |-> pc, p |-> p, late |-> FALSE]]
  /\ UNCHANGED <<provisioned, leads, today, punch, sheet, ending>>

\* approveCheckIn, disapproveCheckIn: also one decided before, and of any day.
DecideRead(m, p) == p \in Ins /\ Decide(m, p, "save")

\* Mutant: the check-ins of the day, decided or not.
MutBulkRead(m, p) ==
  /\ p \in On(Ins, today) /\ p = Max(On(Ins, today))
  /\ Decide(m, p, "bulk")

\* approveAllCheckIns, disapproveAllCheckIns: the employee's latest of today.
BulkRead(m, p) ==
  /\ p \in On(Ins, today) /\ p = Max(On(Ins, today))
  /\ punch[p].status = "pending"
  /\ Decide(m, p, "bulk")

\* Both write by id, whatever the status is by then.
DecideSave(m) ==
  LET d == decision[m] IN
  /\ d # Idle
  /\ \E verdict \in {"approved", "rejected"} : punch' = [punch EXCEPT ![d.p].status = verdict]
  /\ decision' = [n \in Managers |->
       IF n = m THEN Idle
       ELSE IF decision[n] # Idle /\ decision[n].p = d.p THEN [decision[n] EXCEPT !.late = TRUE]
       ELSE decision[n]]
  /\ UNCHANGED <<provisioned, leads, today, sheet, ending, decisions, overlaps>>

-----------------------------------------------------------------------------
Midnight ==
  /\ today < MaxDay
  /\ today' = today + 1
  /\ punch' = RacePunches(InCalls)
  /\ sheet' = RaceSheets({w \in Sheets : Starting(w)})
  /\ UNCHANGED <<provisioned, leads, ending, decision, decisions, overlaps>>

Init ==
  /\ provisioned \in BOOLEAN /\ leads \in BOOLEAN
  /\ today = 1
  /\ punch = [p \in Punches |-> NoPunch]
  /\ sheet = [w \in Sheets |-> NoSheet]
  /\ ending = None
  /\ decision = [m \in Managers |-> Idle] /\ decisions = 0 /\ overlaps = 0

Next ==
  \/ \E p \in Punches : \/ \E kind \in {"in", "out"} : Arrive(p, kind)
                        \/ Read(p) \/ Insert(p) \/ EndRead(p) \/ EndSave(p) \/ Commit(p) \/ Fail(p)
  \/ \E w \in Sheets : StartRead(w) \/ StartLook(w) \/ StartSave(w) \/ EndWorkRead(w)
  \/ EndWorkSave
  \/ \E m \in Managers : DecideSave(m) \/ \E p \in Punches : DecideRead(m, p) \/ BulkRead(m, p)
  \/ Midnight

Spec == Init /\ [][Next]_vars

-----------------------------------------------------------------------------
(* The daily report: findAll, getTeamAttendance, getAttendanceByTenant *)

First(S) == IF S = {} THEN 0 ELSE Min(S)

\* Each check-in, in the order of time, takes the first check-out after it
\* that no earlier one took; 0 is none.
Paired ==
  LET took[p \in Ins] == First({q \in After(Outs, p) : \A o \in {i \in Ins : i < p} : took[o] # q})
  IN  took

\* Mutant: the first check-in of the day stands for it.
MutItem(d) == LET i == Min(On(Ins, d)) IN <<i, Paired[i]>>

\* The item of a day: its latest check-in, with the check-out it took.
Item(d) == LET i == Max(On(Ins, d)) IN <<i, Paired[i]>>

\* getTodaySummary: today's latest check-in and the first check-out after it.
Summary == LET i == Max(On(Ins, today)) IN <<i, First(After(Outs, i))>>

-----------------------------------------------------------------------------
(* Properties *)

TypeOK ==
  /\ provisioned \in BOOLEAN /\ leads \in BOOLEAN /\ today \in 1 .. MaxDay
  /\ punch \in [Punches -> [pc : {"unused", "read", "insert", "sheet", "end", "commit", "done"},
                            kind : {"none", "in", "out"}, day : 0 .. MaxDay, row : BOOLEAN,
                            status : {"none", "pending", "approved", "rejected"},
                            ref : Sheets \union {None}, raced : BOOLEAN, failed : BOOLEAN]]
  /\ sheet \in [Sheets -> [pc : {"unused", "look", "save", "open", "ended"}, raced : BOOLEAN]]
  /\ ending \in Sheets \union {None}
  /\ decision \in [Managers -> Deciding] /\ decisions \in 0 .. MaxDecisions /\ overlaps \in 0 .. MaxOverlaps

\* The punches of a day alternate, beginning with a check-in: each one that
\* overlapped no other punch and no midnight follows one of the other kind.
UnracedAlternate ==
  \A p \in Rows : ~punch[p].raced =>
    LET before == {q \in On(Rows, punch[p].day) : q < p} IN
    IF punch[p].kind = "in" THEN before = {} \/ punch[Max(before)].kind = "out"
    ELSE before # {} /\ punch[Max(before)].kind = "in"

\* The report and the summary of today agree when every check-in before the
\* day's latest one took a check-out of its own day, and no punch was raced.
ReportMatchesSummary ==
  /\ On(Ins, today) # {}
  /\ \A p \in Rows : ~punch[p].raced
  /\ \A d \in 1 .. today - 1 : Cardinality(On(Ins, d)) = Cardinality(On(Outs, d))
  => Item(today) = Summary

\* Who is checked out is not at work: once a check-out is complete, no
\* timesheet is open but one whose start overlapped a punch, midnight or
\* another start, or one that a failed check-out left.
WorkEndsWithCheckOut ==
  \A p \in Outs : \A w \in Sheets :
    /\ p = Max(Rows) /\ punch[p].pc = "done" /\ ~punch[p].failed
    /\ Open(w)
    => sheet[w].raced

\* A decision on all pending check-ins overturns none that was decided, unless
\* that was decided after the pending ones were read.
BulkKeepsVerdicts ==
  [][\A m \in Managers, p \in Punches :
       /\ decision[m] # Idle /\ decision'[m] = Idle /\ decision[m].p = p /\ decision[m].pc = "bulk"
       /\ punch[p].status # "pending"
       => decision[m].late]_vars
=============================================================================

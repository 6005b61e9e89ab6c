--------------------------- MODULE WorkflowConfig ---------------------------
(***************************************************************************)
(* The approval configuration of one tenant and request type (table        *)
(* workflow_configs) under concurrent admin calls: addWorkflowConfigStep,  *)
(* updateWorkflowConfigStep, deleteWorkflowConfigStep.                     *)
(*                                                                         *)
(* Repository.save selects the rows it was given by id, then INSERTs those *)
(* that are gone and UPDATEs the columns in which the others differ; the   *)
(* unique constraint on step_order is checked row by row.                  *)
(***************************************************************************)
EXTENDS Naturals, FiniteSets, FiniteSetsExt, Functions, SequencesExt

CONSTANTS
  Seeded,         \* rows the tenant starts with, at 1 .. Cardinality(Seeded)
  Admins,         \* admin calls; a call that adds a step names its row
  AdminOps,       \* operations the calls choose from
  Transactional,  \* a call is one transaction (a provisioned tenant)
  MaxFaults       \* bound: calls that are cut off

ASSUME SeededAssumption == IsFiniteSet(Seeded) /\ Admins \intersect Seeded = {}
ASSUME AdminOpsAssumption == AdminOps \subseteq {"add", "update", "delete"}
ASSUME FaultsAssumption == MaxFaults \in Nat /\ Transactional \in BOOLEAN

VARIABLES
  configs,  \* committed rows
  admin,    \* what each call holds in memory and where it stands
  faults,   \* calls that were cut off
  overlap   \* history: two calls were in flight together

configVars == <<configs, admin, faults, overlap>>

-----------------------------------------------------------------------------
Ids    == Seeded \union Admins
Gone   == [order |-> 0, active |-> FALSE]
Row    == [order : Nat \ {0}, active : BOOLEAN]
Table  == [Ids -> Row \union {Gone}]

Present(t) == {i \in Ids : t[i] # Gone}
OrdersOf(t) == {t[i].order : i \in Present(t)}
Contiguous(t) == OrdersOf(t) = 1 .. Cardinality(Present(t))

Ongoing == {"readAll", "remove", "select", "write", "commit"}

NoTable   == [i \in Ids |-> Gone]
IdleAdmin == [pc |-> "idle", target |-> 0, found |-> {}, saving |-> {}, mem |-> NoTable,
              cols |-> [i \in Ids |-> {}], mine |-> NoTable, locks |-> {}]

OngoingCalls == {c \in Admins : admin[c].pc \in Ongoing}
Quiet == OngoingCalls = {}

\* What a statement of call c sees: committed rows under its own writes.
Sees(c) == [i \in Ids |-> IF i \in admin[c].locks THEN admin[c].mine[i] ELSE configs[i]]

\* c may write row i with step_order k once no other transaction holds the
\* row, or a row that has or had that step_order.
Unlocked(c, i, k) ==
  \A d \in Admins \ {c} : \A j \in admin[d].locks :
     /\ i # j
     /\ k # 0 => k \notin {configs[j].order, admin[d].mine[j].order}

Ends(c, pc) == admin' = [admin EXCEPT ![c] = [IdleAdmin EXCEPT !.pc = pc]]

Fails(c) == Ends(c, "failed") /\ UNCHANGED configs

\* c's statement turns the table it sees into t.
Apply(c, t, pc) ==
  IF Transactional
  THEN /\ admin' = [admin EXCEPT ![c].pc = pc, ![c].mine = t,
                      ![c].locks = @ \union {i \in Ids : t[i] # Sees(c)[i]}]
       /\ UNCHANGED configs
  ELSE /\ admin' = [admin EXCEPT ![c].pc = pc]
       /\ configs' = t

-----------------------------------------------------------------------------
(* Reads *)

Starts(c, op, k) ==
  /\ op \in AdminOps
  /\ admin[c].pc = "idle"
  /\ admin' = [admin EXCEPT ![c] = k]
  /\ overlap' = (overlap \/ ~Quiet)
  /\ UNCHANGED <<configs, faults>>

\* addWorkflowConfigStep: the order after the last existing one.  The new
\* entity has no id yet, so its save makes no SELECT.
NextOrder == 1 + Max(OrdersOf(configs) \union {0})

AddRead(c, on) ==
  Starts(c, "add",
         [IdleAdmin EXCEPT !.pc = "write", !.saving = {c}, !.cols[c] = {"insert"},
                           !.mem[c] = [order |-> NextOrder, active |-> on]])

\* updateWorkflowConfigStep: findOne by step_order, assign is_active.
UpdateRead(c, i, on) ==
  /\ i \in Present(configs)
  /\ Starts(c, "update",
            [IdleAdmin EXCEPT !.pc = "select", !.saving = {i},
                              !.mem[i] = [configs[i] EXCEPT !.active = on]])

\* deleteWorkflowConfigStep: findOne by step_order, then find all.
DeleteRead(c, i) ==
  /\ i \in Present(configs)
  /\ Starts(c, "delete", [IdleAdmin EXCEPT !.pc = "readAll", !.found = {i},
                                           !.target = configs[i].order])

\* Which row of S row i is, in the order of step_order.
Place(t, S, i) == Cardinality({j \in S : t[j].order <= t[i].order})

\* Mutant: the remaining steps keep their numbers.
MutNotRenumbered(t, S) == t

Renumbered(t, S) ==
  [i \in Ids |-> IF i \in S THEN [t[i] EXCEPT !.order = Place(t, S, i)] ELSE t[i]]

Remaining(t, k) == {i \in Present(t) : t[i].order # k}

\* With a single row left the call is refused.
DeleteReadAll(c) ==
  /\ admin[c].pc = "readAll"
  /\ IF Cardinality(Present(configs)) = 1
     THEN Fails(c)
     ELSE LET rest == Remaining(configs, admin[c].target) IN
          /\ admin' = [admin EXCEPT ![c].pc = "remove", ![c].saving = rest,
                                    ![c].mem = Renumbered(configs, rest)]
          /\ UNCHANGED configs
  /\ UNCHANGED <<faults, overlap>>

-----------------------------------------------------------------------------
(* Writes *)

RemoveRow(c) ==
  /\ admin[c].pc = "remove"
  /\ \A i \in admin[c].found : Unlocked(c, i, 0)
  /\ Apply(c, [i \in Ids |-> IF i \in admin[c].found THEN Gone ELSE Sees(c)[i]], "select")
  /\ UNCHANGED <<faults, overlap>>

\* save, its SELECT: which rows are gone and which columns differ.
Select(c) ==
  /\ admin[c].pc = "select"
  /\ admin' = [admin EXCEPT ![c].pc = "write",
       ![c].cols = [i \in Ids |->
          IF i \notin admin[c].saving THEN {}
          ELSE IF Sees(c)[i] = Gone THEN {"insert"}
          ELSE {f \in {"order", "active"} : admin[c].mem[i][f] # Sees(c)[i][f]}]]
  /\ UNCHANGED <<configs, faults, overlap>>

\* One INSERT or UPDATE on the table t; an UPDATE of a row that is gone
\* changes nothing.
Put(c, r, i) ==
  LET cols == admin[c].cols[i]
      m    == admin[c].mem[i]
      new  == IF "insert" \in cols THEN m
              ELSE [f \in DOMAIN m |-> IF f \in cols THEN m[f] ELSE r.t[i][f]]
  IN IF r.t[i] = Gone /\ "insert" \notin cols THEN r
     ELSE [t   |-> [r.t EXCEPT ![i] = new],
           dup |-> \/ r.dup
                   \/ \E j \in Ids \ {i} : r.t[j].order = new.order
                   \/ "insert" \in cols /\ r.t[i] # Gone]

\* The rows of S in the order of the list, which is sorted by step_order.
Sorted(t, S) == [n \in 1 .. Cardinality(S) |-> CHOOSE i \in S : Place(t, S, i) = n]

\* INSERTs run before UPDATEs.
WriteOrder(c) ==
  LET Ins == {i \in admin[c].saving : "insert" \in admin[c].cols[i]}
      Upd == {i \in admin[c].saving \ Ins : admin[c].cols[i] # {}}
  IN Sorted(admin[c].mem, Ins) \o Sorted(admin[c].mem, Upd)

Write(c) ==
  LET result == FoldLeft(LAMBDA r, i : Put(c, r, i),
                         [t |-> Sees(c), dup |-> FALSE], WriteOrder(c))
  IN
  /\ admin[c].pc = "write"
  /\ \A i \in ToSet(WriteOrder(c)) : Unlocked(c, i, admin[c].mem[i].order)
  /\ IF result.dup THEN Fails(c)
     ELSE IF Transactional THEN Apply(c, result.t, "commit")
     ELSE Ends(c, "done") /\ configs' = result.t
  /\ UNCHANGED <<faults, overlap>>

CommitAll(c) ==
  /\ admin[c].pc = "commit"
  /\ configs' = Sees(c)
  /\ Ends(c, "done")
  /\ UNCHANGED <<faults, overlap>>

\* An error, a deadlock victim or a crash: what is committed stays.
GiveUp(c) ==
  /\ c \in OngoingCalls
  /\ faults < MaxFaults
  /\ faults' = faults + 1
  /\ Fails(c)
  /\ UNCHANGED overlap

-----------------------------------------------------------------------------
ConfigInit ==
  /\ \E at \in Bijection(Seeded, 1 .. Cardinality(Seeded)) :
       configs = [i \in Ids |-> IF i \in Seeded THEN [order |-> at[i], active |-> TRUE] ELSE Gone]
  /\ admin = [c \in Admins |-> IdleAdmin]
  /\ faults = 0
  /\ overlap = FALSE

AdminStep(c) ==
  \/ \E on \in BOOLEAN : AddRead(c, on)
  \/ \E i \in Ids, on \in BOOLEAN : UpdateRead(c, i, on)
  \/ \E i \in Ids : DeleteRead(c, i)
  \/ DeleteReadAll(c)
  \/ RemoveRow(c)
  \/ Select(c)
  \/ Write(c)
  \/ CommitAll(c)
  \/ GiveUp(c)

ConfigNext == \E c \in Admins : AdminStep(c)

ConfigSpec == ConfigInit /\ [][ConfigNext]_configVars

-----------------------------------------------------------------------------
(* Properties *)

ConfigTypeOK ==
  /\ configs \in Table
  /\ \A c \in Admins :
       /\ admin[c].pc \in Ongoing \union {"idle", "done", "failed"}
       /\ admin[c].mem \in Table /\ admin[c].mine \in Table
       /\ admin[c].saving \union admin[c].found \union admin[c].locks \subseteq Ids
  /\ faults \in 0 .. MaxFaults
  /\ overlap \in BOOLEAN

\* While admin calls do not overlap, a provisioned tenant's committed steps
\* are numbered 1 .. n without gaps at every moment, aborted calls included
\* (addWorkflowConfigStep appends, deleteWorkflowConfigStep renumbers).
SerialContiguous == ~overlap => Contiguous(configs) /\ Present(configs) # {}
=============================================================================

--------------------------- MODULE Tenancy_proofs ---------------------------
(***************************************************************************)
(* Proofs about Tenancy for every number of calls, tenants and writes.     *)
(***************************************************************************)
EXTENDS Tenancy, FiniteSetTheorems, TLAPS

Call == [pc : PCs, mem : Company, t : Tenants \union {None}, flag : BOOLEAN, late : BOOLEAN]

(* The strengthening.  Types also need the writes in progress to be counted *)
(* among those that are left, and what a call remembers of company_details  *)
(* to be what the table holds, unless the call is late.                     *)

Types ==
  /\ session \in {"none", "personal", "company", "payment", "completed"}
  /\ company \in Company
  /\ paidFor \in BOOLEAN
  /\ tenant \in [Tenants -> [live : BOOLEAN, flag : BOOLEAN, schema : BOOLEAN]]
  /\ user \in Tenants \union {None}
  /\ call \in [Calls -> Call]
  /\ broken \subseteq {"link", "upgradeFlag", "emptySchema", "restored"}
  /\ overlaps \in 0 .. MaxOverlaps /\ faults \in 0 .. MaxFaults

Writing == {c \in Calls : At(c, "write")}

Versions ==
  /\ writes \in Nat /\ last \in 0 .. writes /\ pub \in 0 .. writes /\ sch \in 0 .. writes
  /\ IsFiniteSet(Writing) /\ writes + Cardinality(Writing) <= MaxWrites

\* Nothing is in progress before the signup begins.
Fresh == session = "none" => user = None /\ company = NoCompany /\ \A c \in Calls : call[c] = NoCall

\* What a call knows.
Knows ==
  \A c \in Calls :
    /\ ~call[c].late /\ ~At(c, "idle") => call[c].mem = company
    /\ call[c].pc \in {"link", "provision", "flag", "user", "status"} => call[c].t # None

IInv == Types /\ Versions /\ Fresh /\ Knows

-----------------------------------------------------------------------------
(* Lemmas *)

\* Empty records.
LEMMA NoCallType == NoCall \in Call /\ NoCompany \in Company /\ NoCall.pc = "idle"
  BY DEF NoCall, NoCompany, Call, Company, PCs

\* A call begins with the company as it is.
LEMMA BeginCall ==
  ASSUME Types, NEW c \in Calls, NEW pc \in PCs, NEW t \in Tenants \union {None}, NEW flag \in BOOLEAN,
         Begin(c, pc, t, flag)
  PROVE  /\ call' \in [Calls -> Call] /\ At(c, "idle")
         /\ call'[c] = [pc |-> pc, mem |-> company, t |-> t, flag |-> flag, late |-> FALSE]
         /\ \A d \in Calls : d # c => call'[d] = call[d]
         /\ overlaps' \in 0 .. MaxOverlaps
         /\ overlaps' = 0 => overlaps = 0 /\ \A d \in Calls : At(d, "idle")
  <1>1. [pc |-> pc, mem |-> company, t |-> t, flag |-> flag, late |-> FALSE] \in Call
    BY DEF Types, Call
  <1>2. overlaps' \in 0 .. MaxOverlaps /\ (overlaps' = 0 => overlaps = 0 /\ ~Busy)
    BY BoundsAssumption DEF Types, Begin
  <1>3. QED
    BY <1>1, <1>2 DEF Types, Begin, Busy

\* A call goes on or ends.
LEMMA MoveCall ==
  ASSUME Types, NEW c \in Calls, NEW pc \in PCs, To(c, pc) \/ Done(c)
  PROVE  /\ call' \in [Calls -> Call]
         /\ \A d \in Calls : d # c => call'[d] = call[d]
         /\ \/ call'[c] = NoCall /\ Done(c)
            \/ /\ To(c, pc) /\ call'[c].pc = pc /\ call'[c].mem = call[c].mem /\ call'[c].t = call[c].t
               /\ call'[c].flag = call[c].flag /\ call'[c].late = call[c].late
  <1>1. [call[c] EXCEPT !.pc = pc] \in Call
    BY DEF Types, Call
  <1>2. QED
    BY <1>1, NoCallType DEF Types, To, Done, Call

\* A save of company_details is remembered by its call; the others are late.
LEMMA SaveCall ==
  ASSUME Types, NEW c \in Calls, NEW row \in Company, NEW pc \in PCs, SaveCompany(c, row, pc)
  PROVE  /\ call' \in [Calls -> Call] /\ company' = row
         /\ \A d \in Calls : d # c => /\ call'[d].pc = call[d].pc /\ call'[d].t = call[d].t
                                      /\ call'[d].flag = call[d].flag
                                      /\ call'[d].late = ~At(d, "idle")
         /\ \/ pc = "idle" /\ call'[c] = NoCall
            \/ /\ call'[c].pc = pc /\ call'[c].mem = row /\ call'[c].t = call[c].t
               /\ call'[c].flag = call[c].flag /\ call'[c].late = call[c].late
  <1>1. \A d \in Calls : call[d] \in Call
    BY DEF Types
  <1>2. [call[c] EXCEPT !.mem = row, !.pc = pc] \in Call
    BY <1>1 DEF Call
  <1>3. ASSUME NEW d \in Calls, d # c
        PROVE  /\ call'[d] \in Call
               /\ call'[d].pc = call[d].pc /\ call'[d].t = call[d].t /\ call'[d].flag = call[d].flag
               /\ call'[d].late = ~At(d, "idle")
    <2>1. PICK b \in BOOLEAN : b = ~At(d, "idle")
      OBVIOUS
    <2>2. call'[d] = [call[d] EXCEPT !.late = b]
      BY <1>3, <2>1 DEF SaveCompany
    <2>3. call'[d] \in Call /\ call'[d].pc = call[d].pc /\ call'[d].t = call[d].t /\ call'[d].flag = call[d].flag
          /\ call'[d].late = b
      BY <1>1, <2>2 DEF Call
    <2>4. QED
      BY <2>1, <2>3
  <1>4. call'[c] = IF pc = "idle" THEN NoCall ELSE [call[c] EXCEPT !.mem = row, !.pc = pc]
    BY DEF SaveCompany
  <1>5. call'[c] \in Call
    BY <1>2, <1>4, NoCallType
  <1>6. call' = [d \in Calls |-> call'[d]]
    BY DEF SaveCompany
  <1>7. call' \in [Calls -> Call]
    BY <1>3, <1>5, <1>6
  <1>8. \/ pc = "idle" /\ call'[c] = NoCall
        \/ /\ call'[c].pc = pc /\ call'[c].mem = row /\ call'[c].t = call[c].t
           /\ call'[c].flag = call[c].flag /\ call'[c].late = call[c].late
    BY <1>1, <1>4 DEF Call
  <1>9. QED
    BY <1>3, <1>7, <1>8 DEF SaveCompany

\* No write begins or ends.
LEMMA VersionsKept ==
  ASSUME Versions, UNCHANGED data, \A c \in Calls : At(c, "write")' <=> At(c, "write")
  PROVE  Versions'
  <1>1. Writing' = Writing
    BY DEF Writing
  <1>2. QED
    BY <1>1 DEF Versions, data

\* A call that knows its tenant.
Bound == {"link", "provision", "flag", "user", "status"}

\* Any call but a write begins.
LEMMA BeginStep ==
  ASSUME IInv, NEW c \in Calls, NEW pc \in PCs \ {"idle", "write"}, NEW t \in Tenants \union {None}, NEW flag \in BOOLEAN,
         Begin(c, pc, t, flag), session # "none", pc \in Bound => t # None,
         UNCHANGED <<signup, tenant, data, broken, faults>>
  PROVE  IInv'
  <1>1. /\ call' \in [Calls -> Call] /\ At(c, "idle")
        /\ call'[c] = [pc |-> pc, mem |-> company, t |-> t, flag |-> flag, late |-> FALSE]
        /\ \A d \in Calls : d # c => call'[d] = call[d]
        /\ overlaps' \in 0 .. MaxOverlaps
    BY BeginCall DEF IInv
  <1>2. Types'
    BY <1>1 DEF IInv, Types, signup
  <1>3. Versions'
    BY <1>1, VersionsKept DEF IInv, At
  <1>4. Fresh'
    BY DEF Fresh, signup
  <1>5. Knows'
    <2>1. /\ ~call'[c].late /\ ~At(c, "idle")' => call'[c].mem = company'
          /\ call'[c].pc \in Bound => call'[c].t # None
      BY <1>1 DEF signup
    <2>2. ASSUME NEW d \in Calls, d # c
          PROVE  /\ ~call'[d].late /\ ~At(d, "idle")' => call'[d].mem = company'
                 /\ call'[d].pc \in Bound => call'[d].t # None
      BY <1>1, <2>2 DEF IInv, Knows, signup, At, Bound
    <2>3. QED
      BY <2>1, <2>2 DEF Knows, Bound
  <1>6. QED
    BY <1>2, <1>3, <1>4, <1>5 DEF IInv

\* Calls begin after the signup.
LEMMA ReadsStep ==
  ASSUME IInv, NEW c \in Calls,
         CompanyRead(c) \/ PayRead(c) \/ MarkRead(c) \/ CompleteRead(c) \/ UpgradeRead(c)
  PROVE  IInv'
  <1>1. session # "none"
    <2>1. session # "none" \/ company.saved \/ company.paid \/ user # None
      BY DEF CompanyRead, PayRead, MarkRead, CompleteRead, UpgradeRead
    <2>2. ~NoCompany.saved /\ ~NoCompany.paid
      BY DEF NoCompany
    <2>3. QED
      BY <2>1, <2>2 DEF IInv, Fresh
  <1>2. {"company", "pay", "mark", "tenant", "provision", "upgrade"} \subseteq PCs \ {"idle", "write"}
    BY DEF PCs
  <1>3. CASE CompanyRead(c) \/ PayRead(c) \/ MarkRead(c)
    BY <1>1, <1>2, <1>3, BeginStep DEF CompanyRead, PayRead, MarkRead, Bound
  <1>4. CASE CompleteRead(c)
    <2>1. company.tenant \in Tenants \union {None}
      BY DEF IInv, Types, Company
    <2>2. PICK pc \in {"tenant", "provision"} : pc = IF company.tenant = None THEN "tenant" ELSE "provision"
      OBVIOUS
    <2>3. PICK flag \in BOOLEAN : flag = (company.tenant # None /\ tenant[company.tenant].flag)
      OBVIOUS
    <2>4. Begin(c, pc, company.tenant, flag)
      BY <1>4, <2>2, <2>3 DEF CompleteRead
    <2>5. UNCHANGED <<signup, tenant, data, broken, faults>>
      BY <1>4 DEF CompleteRead
    <2>6. pc \in Bound => company.tenant # None
      BY <2>2 DEF Bound
    <2>7. QED
      BY <1>1, <1>2, <2>1, <2>4, <2>5, <2>6, BeginStep
  <1>5. CASE UpgradeRead(c)
    <2>1. user \in Tenants \union {None} /\ tenant[user].flag \in BOOLEAN
      BY <1>5 DEF IInv, Types, UpgradeRead
    <2>2. QED
      BY <1>1, <1>2, <1>5, <2>1, BeginStep DEF UpgradeRead, Bound
  <1>6. QED
    BY <1>3, <1>4, <1>5

\* A save makes the other calls late.
LEMMA SaveStep ==
  ASSUME IInv, NEW c \in Calls, NEW row \in Company, NEW pc \in PCs \ {"write"}, SaveCompany(c, row, pc),
         ~At(c, "idle"), ~At(c, "write"), pc \in Bound => call[c].t # None,
         UNCHANGED <<session, paidFor, tenant, user, data, broken, overlaps>>, faults' \in 0 .. MaxFaults
  PROVE  IInv'
  <1>1. /\ call' \in [Calls -> Call] /\ company' = row
        /\ \A d \in Calls : d # c => /\ call'[d].pc = call[d].pc /\ call'[d].t = call[d].t
                                     /\ call'[d].flag = call[d].flag
                                     /\ call'[d].late = ~At(d, "idle")
        /\ \/ pc = "idle" /\ call'[c] = NoCall
           \/ /\ call'[c].pc = pc /\ call'[c].mem = row /\ call'[c].t = call[c].t
              /\ call'[c].flag = call[c].flag /\ call'[c].late = call[c].late
    BY SaveCall DEF IInv
  <1>2. Types'
    BY <1>1 DEF IInv, Types
  <1>3. \A d \in Calls : At(d, "write")' <=> At(d, "write")
    BY <1>1, NoCallType DEF At
  <1>4. Versions'
    BY <1>3, VersionsKept DEF IInv
  <1>5. session # "none"
    BY NoCallType DEF IInv, Fresh, At
  <1>6. Fresh'
    BY <1>5 DEF Fresh
  <1>7. ASSUME NEW d \in Calls
        PROVE  /\ ~call'[d].late /\ ~At(d, "idle")' => call'[d].mem = company'
               /\ call'[d].pc \in {"link", "provision", "flag", "user", "status"} => call'[d].t # None
    <2>1. CASE d = c
      BY <1>1, <2>1, NoCallType DEF At, Bound
    <2>2. CASE d # c
      BY <1>1, <2>2 DEF IInv, Knows, At
    <2>3. QED
      BY <2>1, <2>2
  <1>8. Knows'
    BY <1>7 DEF Knows
  <1>9. QED
    BY <1>2, <1>4, <1>6, <1>8 DEF IInv

\* The saves of company_details.
LEMMA SavesStep ==
  ASSUME IInv, NEW c \in Calls, CompanySave(c) \/ PaySave(c) \/ MarkSave(c) \/ CompleteLink(c)
  PROVE  IInv'
  <1>1. call[c] \in Call /\ call[c].mem \in Company /\ call[c].t \in Tenants \union {None}
    BY DEF IInv, Types, Call
  <1>2. {"idle", "companyStatus", "markStatus", "provision"} \subseteq PCs \ {"write"}
    BY DEF PCs
  <1>3. /\ [call[c].mem EXCEPT !.saved = TRUE] \in Company
        /\ [call[c].mem EXCEPT !.checkout = TRUE] \in Company
        /\ [call[c].mem EXCEPT !.paid = TRUE] \in Company
        /\ [call[c].mem EXCEPT !.tenant = call[c].t] \in Company
        /\ \A b \in BOOLEAN : [call[c].mem EXCEPT !.paid = b] \in Company
    BY <1>1 DEF Company
  <1>4. faults \in 0 .. MaxFaults
    BY DEF IInv, Types
  <1>5. CASE CompanySave(c)
    <2>1. CASE ~call[c].mem.saved /\ company.saved
      <3>1. Done(c) /\ UNCHANGED company /\ UNCHANGED <<session, paidFor, tenant, user, data, broken, overlaps, faults>>
        BY <1>5, <2>1 DEF CompanySave
      <3>2. /\ call' \in [Calls -> Call] /\ call'[c] = NoCall
            /\ \A d \in Calls : d # c => call'[d] = call[d]
        BY <3>1, NoCallType DEF IInv, Types, Done
      <3>3. Types'
        BY <3>1, <3>2 DEF IInv, Types
      <3>4. Versions'
        BY <1>5, <3>1, <3>2, NoCallType, VersionsKept DEF IInv, At, CompanySave
      <3>5. Fresh' /\ Knows'
        BY <3>1, <3>2, NoCallType DEF IInv, Fresh, Knows, At
      <3>6. QED
        BY <3>3, <3>4, <3>5 DEF IInv
    <2>2. CASE ~(~call[c].mem.saved /\ company.saved)
      <3>1. SaveCompany(c, [call[c].mem EXCEPT !.saved = TRUE], "companyStatus")
        BY <1>5, <2>2 DEF CompanySave
      <3>2. QED
        BY <1>2, <1>3, <1>4, <1>5, <3>1, SaveStep DEF CompanySave, At, Bound
    <2>3. QED
      BY <2>1, <2>2
  <1>6. CASE PaySave(c)
    BY <1>1, <1>2, <1>3, <1>4, <1>6, SaveStep DEF PaySave, At, Bound
  <1>7. CASE MarkSave(c)
    <2>1. PICK b \in BOOLEAN : /\ SaveCompany(c, [call[c].mem EXCEPT !.paid = b], "markStatus")
                               /\ UNCHANGED faults \/ Fault
      <3>1. ASSUME NEW named \in BOOLEAN, UNCHANGED faults,
                   SaveCompany(c, [call[c].mem EXCEPT !.paid = @ \/ paidFor \/ ~(named \/ call[c].mem.checkout)],
                               "markStatus")
            PROVE  \E b \in BOOLEAN : SaveCompany(c, [call[c].mem EXCEPT !.paid = b], "markStatus")
        <4>1. PICK b \in BOOLEAN : b = (call[c].mem.paid \/ paidFor \/ ~(named \/ call[c].mem.checkout))
          OBVIOUS
        <4>2. QED
          BY <3>1, <4>1
      <3>2. QED
        BY <1>7, <3>1 DEF MarkSave
    <2>2. faults' \in 0 .. MaxFaults
      BY <1>4, <2>1, BoundsAssumption DEF Fault
    <2>3. QED
      BY <1>2, <1>3, <1>7, <2>1, <2>2, SaveStep DEF MarkSave, At, Bound
  <1>8. CASE CompleteLink(c)
    <2>1. call[c].t # None
      BY <1>8 DEF IInv, Knows, CompleteLink, At
    <2>2. QED
      BY <1>2, <1>3, <1>4, <1>8, <2>1, SaveStep DEF CompleteLink, At
  <1>9. QED
    BY <1>5, <1>6, <1>7, <1>8

\* A call goes on, or ends, without saving company_details.
LEMMA MoveStep ==
  ASSUME IInv, NEW c \in Calls, NEW pc \in PCs \ {"idle", "write"}, To(c, pc) \/ Done(c),
         ~At(c, "idle"), ~At(c, "write"), pc \in Bound => call[c].t # None,
         session' \in {session, "company", "payment", "completed"},
         tenant' \in [Tenants -> [live : BOOLEAN, flag : BOOLEAN, schema : BOOLEAN]],
         user' \in Tenants \union {None}, broken' \subseteq {"link", "upgradeFlag", "emptySchema", "restored"},
         faults' \in 0 .. MaxFaults, sch' \in 0 .. writes,
         UNCHANGED <<company, paidFor, pub, last, writes, overlaps>>
  PROVE  IInv'
  <1>1. /\ call' \in [Calls -> Call]
        /\ \A d \in Calls : d # c => call'[d] = call[d]
        /\ \/ call'[c] = NoCall
           \/ /\ call'[c].pc = pc /\ call'[c].mem = call[c].mem /\ call'[c].t = call[c].t
              /\ call'[c].flag = call[c].flag /\ call'[c].late = call[c].late
    BY MoveCall DEF IInv
  <1>2. Types'
    BY <1>1 DEF IInv, Types
  <1>3. Writing' = Writing
    BY <1>1, NoCallType DEF Writing, At
  <1>4. Versions'
    BY <1>3 DEF IInv, Versions
  <1>5. session # "none"
    BY NoCallType DEF IInv, Fresh, At
  <1>6. Fresh' /\ Knows'
    BY <1>1, <1>5, NoCallType DEF IInv, Fresh, Knows, At, Bound
  <1>7. QED
    BY <1>2, <1>4, <1>6 DEF IInv

\* The other steps of a call, but for the choice of a tenant and the writes.
LEMMA MovesStep ==
  ASSUME IInv, NEW c \in Calls,
         \/ CompanyStatus(c) \/ MarkStatus(c) \/ Provision(c) \/ ProvisionFlag(c) \/ CompleteUser(c) \/ CompleteStatus(c)
         \/ UpgradeCopy(c) \/ UpgradeFlag(c) \/ (Fail(c) /\ ~At(c, "write"))
  PROVE  IInv'
  <1>1. /\ {"flag", "user", "status", "upgradeFlag"} \subseteq PCs \ {"idle", "write"}
        /\ call[c] \in Call /\ call[c].t \in Tenants \union {None}
        /\ call[c].pc \in Bound => call[c].t # None
        /\ sch \in 0 .. writes /\ pub \in 0 .. writes
    BY DEF PCs, IInv, Types, Call, Knows, Bound, Versions
  <1>2. /\ session' \in {session, "company", "payment", "completed"}
        /\ UNCHANGED <<company, paidFor, pub, last, writes, overlaps>>
    BY DEF CompanyStatus, MarkStatus, Provision, ProvisionFlag, CompleteUser, CompleteStatus, UpgradeCopy, UpgradeFlag,
           Fail, signup, data
  <1>3. /\ sch' \in 0 .. writes /\ ~At(c, "idle") /\ ~At(c, "write")
    BY <1>1 DEF CompanyStatus, MarkStatus, Provision, ProvisionFlag, CompleteUser, CompleteStatus, UpgradeCopy, UpgradeFlag,
           Fail, signup, data, At
  <1>4. faults' \in 0 .. MaxFaults
    BY BoundsAssumption
       DEF CompanyStatus, MarkStatus, Provision, ProvisionFlag, CompleteUser, CompleteStatus, UpgradeCopy, UpgradeFlag,
           Fail, signup, Fault, IInv, Types
  <1>5. user' \in Tenants \union {None}
    BY <1>1 DEF CompanyStatus, MarkStatus, Provision, ProvisionFlag, CompleteUser, CompleteStatus, UpgradeCopy, UpgradeFlag,
           Fail, signup, IInv, Types
  <1>6. broken' \subseteq {"link", "upgradeFlag", "emptySchema", "restored"}
    BY DEF CompanyStatus, MarkStatus, Provision, ProvisionFlag, CompleteUser, CompleteStatus, UpgradeCopy, UpgradeFlag,
           Fail, signup, IInv, Types
  <1>7. tenant' \in [Tenants -> [live : BOOLEAN, flag : BOOLEAN, schema : BOOLEAN]]
    BY ZenonT(60) DEF CompanyStatus, MarkStatus, Provision, ProvisionFlag, CompleteUser, CompleteStatus, UpgradeCopy, UpgradeFlag,
           Fail, signup, IInv, Types
  <1>8. \E pc \in PCs \ {"idle", "write"} : (To(c, pc) \/ Done(c)) /\ (pc \in Bound => call[c].t # None)
    <2>1. CASE Done(c)
      BY <1>1, <2>1 DEF Bound
    <2>2. CASE UpgradeCopy(c)
      BY <1>1, <2>2 DEF UpgradeCopy, Bound
    <2>3. CASE Provision(c) \/ ProvisionFlag(c) \/ CompleteUser(c)
      BY <1>1, <2>3 DEF Provision, ProvisionFlag, CompleteUser, Bound, At
    <2>4. QED
      BY <2>1, <2>2, <2>3 DEF CompanyStatus, MarkStatus, CompleteStatus, UpgradeFlag, Fail
  <1>9. QED
    BY <1>2, <1>3, <1>4, <1>5, <1>6, <1>7, <1>8, MoveStep

\* The tenant is created and remembered.
LEMMA TenantStep == ASSUME IInv, NEW c \in Calls, CompleteTenant(c) PROVE IInv'
  <1>1. PICK t \in Tenants : /\ ~tenant[t].live
                             /\ tenant' = [tenant EXCEPT ![t].live = TRUE]
                             /\ call' = [call EXCEPT ![c].t = t, ![c].pc = "link"]
    BY DEF CompleteTenant
  <1>2. /\ call' \in [Calls -> Call]
        /\ call'[c].pc = "link" /\ call'[c].t = t /\ call'[c].mem = call[c].mem /\ call'[c].late = call[c].late
        /\ \A d \in Calls : d # c => call'[d] = call[d]
    BY <1>1, ZenonT(60) DEF IInv, Types, Call, PCs
  <1>3. Types'
    <2>1. tenant' \in [Tenants -> [live : BOOLEAN, flag : BOOLEAN, schema : BOOLEAN]]
      BY <1>1 DEF IInv, Types
    <2>2. UNCHANGED <<session, company, paidFor, user, broken, overlaps, faults>>
      BY DEF CompleteTenant, signup
    <2>3. QED
      BY <1>2, <2>1, <2>2 DEF IInv, Types
  <1>4. Versions'
    BY <1>2, VersionsKept DEF IInv, CompleteTenant, At
  <1>5. session # "none"
    BY NoCallType DEF IInv, Fresh, CompleteTenant, At
  <1>6. Fresh' /\ Knows'
    BY <1>2, <1>5, NoneAssumption DEF IInv, Fresh, Knows, CompleteTenant, signup, At
  <1>7. QED
    BY <1>3, <1>4, <1>6 DEF IInv

\* A write begins when one is left, and ends with a version or without.
LEMMA WriteStep == ASSUME IInv, NEW c \in Calls, WriteRead(c) \/ WriteSave(c) \/ (Fail(c) /\ At(c, "write")) PROVE IInv'
  <1>1. IsFiniteSet(Writing) /\ Cardinality(Writing) \in Nat /\ writes \in Nat /\ MaxWrites \in Nat
    BY FS_CardinalityType, BoundsAssumption DEF IInv, Versions
  <1>2. CASE WriteRead(c)
    <2>1. user \in Tenants /\ session # "none" /\ tenant[user].flag \in BOOLEAN
          /\ writes + Cardinality(Writing) < MaxWrites
      BY <1>2 DEF IInv, Types, Fresh, WriteRead, Writing
    <2>2. /\ call' \in [Calls -> Call] /\ At(c, "idle")
          /\ call'[c] = [pc |-> "write", mem |-> company, t |-> user, flag |-> tenant[user].flag, late |-> FALSE]
          /\ \A d \in Calls : d # c => call'[d] = call[d]
          /\ overlaps' \in 0 .. MaxOverlaps
      BY <1>2, <2>1, BeginCall DEF IInv, WriteRead, PCs
    <2>3. UNCHANGED <<session, company, paidFor, user, tenant, pub, sch, last, writes, broken, faults>>
      BY <1>2 DEF WriteRead, signup, data
    <2>4. Types'
      BY <2>2, <2>3 DEF IInv, Types
    <2>5. Writing' = Writing \union {c} /\ c \notin Writing
      BY <2>2 DEF Writing, At
    <2>6. IsFiniteSet(Writing') /\ Cardinality(Writing') = Cardinality(Writing) + 1
      BY <1>1, <2>5, FS_AddElement
    <2>7. Versions'
      BY <1>1, <2>1, <2>3, <2>6 DEF IInv, Versions
    <2>8. Fresh'
      BY <2>1, <2>3 DEF Fresh
    <2>9. Knows'
      BY <2>2, <2>3 DEF IInv, Knows, At
    <2>10. QED
      BY <2>4, <2>7, <2>8, <2>9 DEF IInv
  <1>3. CASE WriteSave(c) \/ (Fail(c) /\ At(c, "write"))
    <2>1. At(c, "write") /\ Done(c) /\ UNCHANGED <<session, company, paidFor, user, tenant, overlaps>>
      BY <1>3 DEF WriteSave, Fail, signup
    <2>2. /\ call' \in [Calls -> Call] /\ call'[c] = NoCall
          /\ \A d \in Calls : d # c => call'[d] = call[d]
      BY <2>1, NoCallType DEF IInv, Types, Done
    <2>3. faults' \in 0 .. MaxFaults /\ broken' \subseteq {"link", "upgradeFlag", "emptySchema", "restored"}
      <3>1. CASE WriteSave(c)
        BY <3>1 DEF IInv, Types, WriteSave
      <3>2. CASE Fail(c)
        <4>1. broken' = broken /\ Fault
          BY <2>1, <3>2 DEF Fail, At
        <4>2. QED
          BY <4>1, BoundsAssumption DEF IInv, Types, Fault
      <3>3. QED
        BY <1>3, <3>1, <3>2
    <2>4. Types'
      BY <2>1, <2>2, <2>3 DEF IInv, Types
    <2>5. Writing' = Writing \ {c} /\ c \in Writing
      BY <2>1, <2>2, NoCallType DEF Writing, At
    <2>6. IsFiniteSet(Writing') /\ Cardinality(Writing') = Cardinality(Writing) - 1
      BY <1>1, <2>5, FS_RemoveElement
    <2>7. writes' \in {writes, writes + 1} /\ last' \in 0 .. writes' /\ pub' \in 0 .. writes' /\ sch' \in 0 .. writes'
      BY <1>1, <1>3 DEF IInv, Versions, WriteSave, Put, Fail, data
    <2>8. Versions'
      BY <1>1, <2>6, <2>7 DEF IInv, Versions
    <2>9. session # "none"
      BY <2>1, NoCallType DEF IInv, Fresh, At
    <2>10. Fresh' /\ Knows'
      BY <2>1, <2>2, <2>9, NoCallType DEF IInv, Fresh, Knows, At
    <2>11. QED
      BY <2>4, <2>8, <2>10 DEF IInv
  <1>4. QED
    BY <1>2, <1>3

\* The steps of nobody's call.
LEMMA OtherStep == ASSUME IInv, Personal \/ Pay \/ \E t \in Tenants : SystemCreate(t) PROVE IInv'
  <1>1. UNCHANGED <<call, pub, sch, last, writes, broken, overlaps, faults>>
    BY DEF Personal, Pay, SystemCreate, data
  <1>2. Versions'
    BY <1>1, VersionsKept DEF IInv, At, data
  <1>3. CASE Personal \/ Pay
    <2>1. Types'
      BY <1>1, <1>3 DEF IInv, Types, Personal, Pay
    <2>2. Fresh' /\ Knows'
      BY <1>1, <1>3 DEF IInv, Fresh, Knows, Personal, Pay, At, NoCompany
    <2>3. QED
      BY <1>2, <2>1, <2>2 DEF IInv
  <1>4. ASSUME NEW t \in Tenants, SystemCreate(t) PROVE IInv'
    <2>1. [NoCompany EXCEPT !.saved = TRUE, !.tenant = t] \in Company
      BY DEF NoCompany, Company
    <2>2. Types'
      BY <1>1, <1>4, <2>1, ZenonT(60) DEF IInv, Types, SystemCreate
    <2>3. \A c \in Calls : call[c] = NoCall
      BY <1>4 DEF IInv, Fresh, SystemCreate
    <2>4. Fresh'
      BY <1>4 DEF Fresh, SystemCreate
    <2>5. Knows'
      BY <1>1, <2>3 DEF Knows, At, NoCall
    <2>6. QED
      BY <1>2, <2>2, <2>4, <2>5 DEF IInv
  <1>5. QED
    BY <1>3, <1>4

\* The first state and every step.
LEMMA InitIInv == Init => IInv
  <1> SUFFICES ASSUME Init PROVE IInv
    OBVIOUS
  <1>1. Types
    <2>1. tenant \in [Tenants -> [live : BOOLEAN, flag : BOOLEAN, schema : BOOLEAN]]
      BY DEF Init, NoTenant
    <2>2. call \in [Calls -> Call] /\ company \in Company
      BY NoCallType DEF Init
    <2>3. overlaps \in 0 .. MaxOverlaps /\ faults \in 0 .. MaxFaults
      BY BoundsAssumption DEF Init
    <2>4. /\ session \in {"none", "personal", "company", "payment", "completed"}
          /\ paidFor \in BOOLEAN /\ user \in Tenants \union {None}
          /\ broken \subseteq {"link", "upgradeFlag", "emptySchema", "restored"}
      BY DEF Init
    <2>5. QED
      BY <2>1, <2>2, <2>3, <2>4 DEF Types
  <1>2. Writing = {}
    BY DEF Init, Writing, At, NoCall
  <1>3. Versions
    BY <1>2, FS_EmptySet, BoundsAssumption DEF Init, Versions
  <1>4. Fresh /\ Knows
    BY DEF Init, Fresh, Knows, At, NoCall
  <1>5. QED
    BY <1>1, <1>3, <1>4 DEF IInv

\* Every step keeps the strengthening.
LEMMA NextIInv == IInv /\ [Next]_vars => IInv'
  <1> SUFFICES ASSUME IInv, [Next]_vars PROVE IInv'
    OBVIOUS
  <1>1. CASE UNCHANGED vars
    <2>1. Versions'
      BY <1>1, VersionsKept DEF vars, IInv, At, data
    <2>2. Types' /\ Fresh' /\ Knows'
      BY <1>1 DEF vars, IInv, Types, Fresh, Knows, At
    <2>3. QED
      BY <2>1, <2>2 DEF IInv
  <1>2. CASE Personal \/ Pay \/ \E t \in Tenants : SystemCreate(t)
    BY <1>2, OtherStep
  <1>3. ASSUME NEW c \in Calls, Signup(c) \/ Complete(c) PROVE IInv'
    BY <1>3, ReadsStep, SavesStep, MovesStep, TenantStep DEF Signup, Complete
  <1>4. ASSUME NEW c \in Calls, \/ Fail(c) \/ UpgradeRead(c) \/ UpgradeCopy(c) \/ UpgradeFlag(c)
                                \/ WriteRead(c) \/ WriteSave(c)
        PROVE  IInv'
    <2>1. CASE UpgradeRead(c)
      BY <2>1, ReadsStep
    <2>2. CASE UpgradeCopy(c) \/ UpgradeFlag(c)
      BY <2>2, MovesStep
    <2>3. CASE WriteRead(c) \/ WriteSave(c)
      BY <2>3, WriteStep
    <2>4. CASE Fail(c)
      <3>1. CASE At(c, "write")
        BY <2>4, <3>1, WriteStep
      <3>2. CASE ~At(c, "write")
        BY <2>4, <3>2, MovesStep
      <3>3. QED
        BY <3>1, <3>2
    <2>5. QED
      BY <1>4, <2>1, <2>2, <2>3, <2>4
  <1>5. QED
    BY <1>1, <1>2, <1>3, <1>4 DEF Next

-----------------------------------------------------------------------------
(* What holds while no calls overlap.  The one call in progress remembers   *)
(* what the tables hold, so that it is enough to look at that call.         *)

Alone == \A c, d \in Calls : ~At(c, "idle") /\ ~At(d, "idle") => c = d

Current == \A c \in Calls : ~At(c, "idle") => call[c].mem = company

\* A tenant lives if company_details names it, or its call is about to.
Tenure(c) ==
  /\ call[c].pc \in {"tenant", "link"} => company.tenant = None
  /\ call[c].pc \in {"provision", "flag", "user", "status"} => call[c].t = company.tenant
  /\ At(c, "status") => user # None

Settled ==
  /\ user # None => user = company.tenant
  /\ session = "completed" => user # None

OneTenant ==
  /\ \A t \in Tenants : tenant[t].live => t = company.tenant \/ \E c \in Calls : At(c, "link") /\ call[c].t = t
  /\ Settled
  /\ \A c \in Calls : Tenure(c)

\* The place a call knows is where the tenant's row is up to date.
Place(c) ==
  /\ call[c].pc \in {"write", "upgrade"} => user # None /\ call[c].t = user /\ call[c].flag = tenant[user].flag
  /\ At(c, "upgradeFlag") => user # None /\ call[c].t = user /\ ~tenant[user].flag /\ sch = last
  /\ At(c, "flag") /\ user # None /\ call[c].t = user => last = 0

UpToDate == user = None => writes = 0

Kept ==
  /\ UpToDate
  /\ user # None =>
       IF tenant[user].flag THEN sch = last
       ELSE pub = last /\ (sch = 0 \/ \E c \in Calls : At(c, "upgradeFlag"))
  /\ \A c \in Calls : Place(c)

Linked  == overlaps = 0 /\ "link" \notin broken
Whole   == overlaps = 0 /\ broken \intersect {"upgradeFlag", "emptySchema", "restored"} = {}

Solo == (overlaps = 0 => Alone /\ Current) /\ (Linked => OneTenant) /\ (Whole => Kept)

\* The same, when only c may be in progress.
Only(c) == \A d \in Calls : d # c => At(d, "idle")

OneFor(c) ==
  /\ \A t \in Tenants : tenant[t].live => t = company.tenant \/ (At(c, "link") /\ call[c].t = t)
  /\ Settled /\ Tenure(c)

KeptFor(c) ==
  /\ UpToDate
  /\ user # None =>
       IF tenant[user].flag THEN sch = last ELSE pub = last /\ (sch = 0 \/ At(c, "upgradeFlag"))
  /\ Place(c)

\* Nothing but c is in progress: the facts about all calls are those about c.
LEMMA OnlyOne ==
  ASSUME NEW c \in Calls, Only(c)
  PROVE  /\ OneTenant <=> OneFor(c)
         /\ Kept <=> KeptFor(c)
  <1>1. OneTenant <=> OneFor(c)
    BY DEF Only, OneTenant, OneFor, Tenure, At
  <1>2. Kept <=> KeptFor(c)
    BY DEF Only, Kept, KeptFor, Place, At
  <1>3. QED
    BY <1>1, <1>2

\* The same lemma of the next state.
LEMMA OnlyOneNext ==
  ASSUME NEW c \in Calls, Only(c)'
  PROVE  /\ OneFor(c)' => OneTenant'
         /\ KeptFor(c)' => Kept'
  <1>1. OneFor(c)' => OneTenant'
    BY DEF Only, OneTenant, OneFor, Tenure, At
  <1>2. KeptFor(c)' => Kept'
    BY DEF Only, Kept, KeptFor, Place, At
  <1>3. QED
    BY <1>1, <1>2

\* A step of c keeps all of it, if what c remembers stays true.
LEMMA SoloStep ==
  ASSUME Solo, NEW c \in Calls, overlaps' = 0 => overlaps = 0 /\ Only(c), broken \subseteq broken',
         Only(c) => Only(c)',
         overlaps' = 0 /\ ~At(c, "idle")' => call'[c].mem = company',
         Linked' /\ OneFor(c) => OneFor(c)',
         Whole' /\ KeptFor(c) => KeptFor(c)'
  PROVE  Solo'
  <1>1. ASSUME overlaps' = 0 PROVE Alone' /\ Current'
    BY <1>1 DEF Alone, Current, Only
  <1>2. ASSUME Linked' PROVE OneTenant'
    <2>1. Linked /\ Only(c) /\ Only(c)'
      BY <1>2 DEF Linked
    <2>2. OneFor(c)
      BY <2>1, OnlyOne DEF Solo
    <2>3. QED
      BY <1>2, <2>1, <2>2, OnlyOneNext
  <1>3. ASSUME Whole' PROVE Kept'
    <2>1. Whole /\ Only(c) /\ Only(c)'
      BY <1>3 DEF Whole
    <2>2. KeptFor(c)
      BY <2>1, OnlyOne DEF Solo
    <2>3. QED
      BY <1>3, <2>1, <2>2, OnlyOneNext
  <1>4. QED
    BY <1>1, <1>2, <1>3 DEF Solo

\* Of the calls in progress, c is the only one when nothing overlaps.
LEMMA OnlyC ==
  ASSUME Solo, NEW c \in Calls, ~At(c, "idle"), overlaps = 0 PROVE Only(c) /\ call[c].mem = company
  BY DEF Solo, Alone, Current, Only

\* A call that begins alone reads what is there.
LEMMA SoloBegin ==
  ASSUME IInv, Solo, NEW c \in Calls, NEW pc \in PCs \ {"idle"}, NEW t \in Tenants \union {None}, NEW flag \in BOOLEAN,
         Begin(c, pc, t, flag), UNCHANGED <<signup, tenant, data, broken, faults>>,
         pc \notin {"link", "flag", "user", "status", "upgradeFlag"},
         pc = "tenant" => company.tenant = None,
         pc = "provision" => t = company.tenant,
         pc \in {"write", "upgrade"} => user # None /\ t = user /\ flag = tenant[user].flag
  PROVE  Solo'
  <1>1. /\ call'[c] = [pc |-> pc, mem |-> company, t |-> t, flag |-> flag, late |-> FALSE]
        /\ \A d \in Calls : d # c => call'[d] = call[d]
        /\ overlaps' = 0 => overlaps = 0 /\ \A d \in Calls : At(d, "idle")
        /\ At(c, "idle")
    BY BeginCall DEF IInv
  <1>2. UNCHANGED <<session, company, paidFor, user, tenant, pub, sch, last, writes, broken>>
    BY DEF signup, data
  <1>3. overlaps' = 0 => overlaps = 0 /\ Only(c)
    BY <1>1 DEF Only
  <1>4. Only(c) => Only(c)'
    BY <1>1 DEF Only, At
  <1>5. OneFor(c) => OneFor(c)'
    BY <1>1, <1>2 DEF OneFor, Settled, Tenure, At
  <1>6. KeptFor(c) => KeptFor(c)'
    BY <1>1, <1>2 DEF KeptFor, UpToDate, Place, At
  <1>7. QED
    BY <1>1, <1>2, <1>3, <1>4, <1>5, <1>6, SoloStep

\* Every call that begins.
LEMMA SoloReads ==
  ASSUME IInv, Solo, NEW c \in Calls,
         CompanyRead(c) \/ PayRead(c) \/ MarkRead(c) \/ CompleteRead(c) \/ UpgradeRead(c) \/ WriteRead(c)
  PROVE  Solo'
  <1>1. {"company", "pay", "mark", "tenant", "provision", "upgrade", "write"} \subseteq PCs \ {"idle"}
    BY DEF PCs
  <1>2. CASE CompanyRead(c) \/ PayRead(c) \/ MarkRead(c)
    BY <1>1, <1>2, SoloBegin DEF CompanyRead, PayRead, MarkRead
  <1>3. CASE CompleteRead(c)
    <2>1. company.tenant \in Tenants \union {None}
      BY DEF IInv, Types, Company
    <2>2. PICK pc \in {"tenant", "provision"} : pc = IF company.tenant = None THEN "tenant" ELSE "provision"
      OBVIOUS
    <2>3. PICK flag \in BOOLEAN : flag = (company.tenant # None /\ tenant[company.tenant].flag)
      OBVIOUS
    <2>4. Begin(c, pc, company.tenant, flag)
      BY <1>3, <2>2, <2>3 DEF CompleteRead
    <2>5. UNCHANGED <<signup, tenant, data, broken, faults>>
      BY <1>3 DEF CompleteRead
    <2>6. /\ pc \in PCs \ {"idle"}
          /\ pc \notin {"link", "flag", "user", "status", "upgradeFlag", "write", "upgrade"}
          /\ pc = "tenant" => company.tenant = None
      BY <1>1, <2>2
    <2>7. QED
      BY <2>1, <2>4, <2>5, <2>6, SoloBegin
  <1>4. CASE UpgradeRead(c) \/ WriteRead(c)
    <2>1. user \in Tenants /\ tenant[user].flag \in BOOLEAN /\ user # None
      BY <1>4 DEF IInv, Types, UpgradeRead, WriteRead
    <2>2. UNCHANGED <<signup, tenant, data, broken, faults>>
      BY <1>4 DEF UpgradeRead, WriteRead
    <2>3. PICK pc \in {"upgrade", "write"} : Begin(c, pc, user, tenant[user].flag)
      BY <1>4 DEF UpgradeRead, WriteRead
    <2>4. /\ pc \in PCs \ {"idle"} /\ pc \notin {"link", "flag", "user", "status", "upgradeFlag", "tenant", "provision"}
      BY <1>1
    <2>5. QED
      BY <2>1, <2>2, <2>3, <2>4, SoloBegin
  <1>5. QED
    BY <1>2, <1>3, <1>4

\* A save that changes no tenant, or notes the one that its call created.
LEMMA SoloSaves ==
  ASSUME IInv, Solo, NEW c \in Calls, CompanySave(c) \/ PaySave(c) \/ MarkSave(c) \/ CompleteLink(c)
  PROVE  Solo'
  <1>1. /\ ~At(c, "idle") /\ call[c] \in Call /\ call[c].mem \in Company /\ call[c].t \in Tenants \union {None}
        /\ call[c].pc \in {"company", "pay", "mark", "link"}
        /\ UNCHANGED <<session, paidFor, tenant, user, pub, sch, last, writes, broken, overlaps>>
    BY DEF CompanySave, PaySave, MarkSave, CompleteLink, At, IInv, Types, Call, data
  <1>2. overlaps' = 0 => overlaps = 0 /\ Only(c) /\ call[c].mem = company
    BY <1>1, OnlyC
  <1>3. ASSUME Done(c), UNCHANGED company, ~At(c, "link") PROVE Solo'
    <2>1. call'[c] = NoCall /\ \A d \in Calls : d # c => call'[d] = call[d]
      BY <1>3 DEF IInv, Types, Done
    <2>2. Only(c) => Only(c)'
      BY <2>1 DEF Only, At
    <2>3. OneFor(c) => OneFor(c)'
      BY <1>1, <1>3, <2>1, NoCallType DEF OneFor, Settled, Tenure, At
    <2>4. KeptFor(c) => KeptFor(c)'
      BY <1>1, <1>3, <2>1, NoCallType DEF KeptFor, UpToDate, Place, At
    <2>5. QED
      BY <1>1, <1>2, <2>1, <2>2, <2>3, <2>4, NoCallType, SoloStep DEF At
  <1>4. ASSUME NEW row \in Company, NEW pc \in {"idle", "companyStatus", "markStatus", "provision"},
               SaveCompany(c, row, pc),
               row.tenant = IF At(c, "link") THEN call[c].t ELSE call[c].mem.tenant,
               pc = "provision" <=> At(c, "link")
        PROVE  Solo'
    <2>1. /\ company' = row
          /\ \A d \in Calls : d # c => call'[d].pc = call[d].pc
          /\ \/ pc = "idle" /\ call'[c] = NoCall
             \/ call'[c].pc = pc /\ call'[c].mem = row /\ call'[c].t = call[c].t
      BY <1>4, SaveCall DEF IInv, PCs
    <2>2. Only(c) => Only(c)'
      BY <2>1 DEF Only, At
    <2>3. ASSUME overlaps' = 0, OneFor(c) PROVE OneFor(c)'
      <3>1. CASE At(c, "link")
        <4>1. company.tenant = None /\ user = None /\ user' = None /\ session' # "completed"
          BY <1>1, <2>3, <3>1 DEF OneFor, Settled, Tenure, At
        <4>2. company'.tenant = call[c].t /\ call'[c].pc = "provision" /\ call'[c].t = call[c].t
          BY <1>4, <2>1, <3>1, NoCallType
        <4>3. \A t \in Tenants : tenant'[t].live => t = call[c].t
          BY <1>1, <2>3, <4>1, NoneAssumption DEF OneFor
        <4>4. Settled' /\ Tenure(c)'
          BY <4>1, <4>2 DEF Settled, Tenure, At
        <4>5. QED
          BY <4>2, <4>3, <4>4 DEF OneFor
      <3>2. CASE ~At(c, "link")
        BY <1>1, <1>2, <1>4, <2>1, <2>3, <3>2, NoCallType DEF OneFor, Settled, Tenure, At
      <3>3. QED
        BY <3>1, <3>2
    <2>4. ASSUME KeptFor(c) PROVE KeptFor(c)'
      BY <1>1, <1>4, <2>1, <2>4, NoCallType DEF KeptFor, UpToDate, Place, At
    <2>5. overlaps' = 0 /\ ~At(c, "idle")' => call'[c].mem = company'
      BY <2>1, NoCallType DEF At
    <2>6. QED
      BY <1>1, <1>2, <2>2, <2>3, <2>4, <2>5, SoloStep DEF Linked
  <1>5. /\ [call[c].mem EXCEPT !.saved = TRUE] \in Company
        /\ [call[c].mem EXCEPT !.saved = TRUE].tenant = call[c].mem.tenant
        /\ [call[c].mem EXCEPT !.checkout = TRUE] \in Company
        /\ [call[c].mem EXCEPT !.checkout = TRUE].tenant = call[c].mem.tenant
        /\ [call[c].mem EXCEPT !.tenant = call[c].t] \in Company
        /\ [call[c].mem EXCEPT !.tenant = call[c].t].tenant = call[c].t
        /\ \A b \in BOOLEAN : /\ [call[c].mem EXCEPT !.paid = b] \in Company
                              /\ [call[c].mem EXCEPT !.paid = b].tenant = call[c].mem.tenant
    BY <1>1 DEF Company
  <1>6. CASE CompanySave(c)
    <2>1. ~At(c, "link")
      BY <1>6 DEF CompanySave, At
    <2>2. CASE Done(c) /\ UNCHANGED company
      BY <1>3, <2>1, <2>2
    <2>3. CASE SaveCompany(c, [call[c].mem EXCEPT !.saved = TRUE], "companyStatus")
      BY <1>4, <1>5, <2>1, <2>3
    <2>4. QED
      BY <1>6, <2>2, <2>3 DEF CompanySave
  <1>7. CASE PaySave(c)
    <2>1. ~At(c, "link")
      BY <1>7 DEF PaySave, At
    <2>2. QED
      BY <1>1, <1>4, <1>5, <1>7, <2>1 DEF PaySave
  <1>8. CASE MarkSave(c)
    <2>1. ~At(c, "link")
      BY <1>8 DEF MarkSave, At
    <2>2. PICK b \in BOOLEAN : SaveCompany(c, [call[c].mem EXCEPT !.paid = b], "markStatus")
      <3>1. ASSUME NEW named \in BOOLEAN, UNCHANGED faults,
                   SaveCompany(c, [call[c].mem EXCEPT !.paid = @ \/ paidFor \/ ~(named \/ call[c].mem.checkout)],
                               "markStatus")
            PROVE  \E b \in BOOLEAN : SaveCompany(c, [call[c].mem EXCEPT !.paid = b], "markStatus")
        <4>1. PICK b \in BOOLEAN : b = (call[c].mem.paid \/ paidFor \/ ~(named \/ call[c].mem.checkout))
          OBVIOUS
        <4>2. QED
          BY <3>1, <4>1
      <3>2. QED
        BY <1>8, <3>1 DEF MarkSave
    <2>3. QED
      BY <1>4, <1>5, <2>1, <2>2
  <1>9. CASE CompleteLink(c)
    <2>1. At(c, "link")
      BY <1>9 DEF CompleteLink
    <2>2. QED
      BY <1>4, <1>5, <1>9, <2>1 DEF CompleteLink
  <1>10. QED
    BY <1>6, <1>7, <1>8, <1>9

\* A call goes on or ends, and company_details stays.
LEMMA SoloMove ==
  ASSUME IInv, Solo, NEW c \in Calls, NEW pc \in PCs, To(c, pc) \/ Done(c), ~At(c, "idle"),
         UNCHANGED <<company, overlaps>>, broken \subseteq broken',
         Linked' /\ OneFor(c) => OneFor(c)',
         Whole' /\ KeptFor(c) => KeptFor(c)'
  PROVE  Solo'
  <1>1. /\ \A d \in Calls : d # c => call'[d] = call[d]
        /\ call'[c] = NoCall \/ call'[c].mem = call[c].mem
    BY MoveCall DEF IInv
  <1>2. overlaps' = 0 => overlaps = 0 /\ Only(c) /\ call[c].mem = company
    BY OnlyC
  <1>3. Only(c) => Only(c)'
    BY <1>1 DEF Only, At
  <1>4. overlaps' = 0 /\ ~At(c, "idle")' => call'[c].mem = company'
    BY <1>1, <1>2, NoCallType DEF At
  <1>5. QED
    BY <1>2, <1>3, <1>4, SoloStep

\* A step that changes neither the tenants nor the administrator nor the data.
LEMMA SoloQuiet ==
  ASSUME IInv, Solo, NEW c \in Calls, NEW pc \in {"idle", "user"}, To(c, pc) \/ Done(c), ~At(c, "idle"),
         pc = "user" => At(c, "provision"),
         UNCHANGED <<company, user, overlaps, pub, sch, last, writes>>,
         \A t \in Tenants : tenant'[t] = tenant[t],
         broken \subseteq broken',
         At(c, "link") => "link" \in broken', At(c, "upgradeFlag") => "upgradeFlag" \in broken',
         session' = "completed" => session = "completed" \/ At(c, "status")
  PROVE  Solo'
  <1>1. pc \in PCs /\ user \in Tenants \union {None}
    BY DEF PCs, IInv, Types
  <1>2. \/ call'[c].pc = "idle"
        \/ pc = "user" /\ call'[c].pc = "user" /\ call'[c].t = call[c].t
    BY <1>1, MoveCall, NoCallType DEF IInv
  <1>3. ASSUME Linked', OneFor(c) PROVE OneFor(c)'
    <2>1. ~At(c, "link")
      BY <1>3 DEF Linked
    <2>2. Settled'
      BY <1>3 DEF OneFor, Settled, Tenure
    <2>3. Tenure(c)'
      BY <1>2, <1>3 DEF OneFor, Tenure, At
    <2>4. QED
      BY <1>3, <2>1, <2>2, <2>3 DEF OneFor
  <1>4. ASSUME Whole', KeptFor(c) PROVE KeptFor(c)'
    <2>1. ~At(c, "upgradeFlag")
      BY <1>4 DEF Whole
    <2>2. Place(c)'
      BY <1>2 DEF Place, At
    <2>3. QED
      BY <1>1, <1>4, <2>1, <2>2 DEF KeptFor, UpToDate
  <1>5. QED
    BY <1>1, <1>3, <1>4, SoloMove

\* The steps that end a call, or that fail.
LEMMA SoloEnds ==
  ASSUME IInv, Solo, NEW c \in Calls, CompanyStatus(c) \/ MarkStatus(c) \/ CompleteStatus(c) \/ Fail(c)
  PROVE  Solo'
  <1>1. CASE CompanyStatus(c) \/ MarkStatus(c)
    BY <1>1, SoloQuiet DEF CompanyStatus, MarkStatus, At, data
  <1>2. CASE CompleteStatus(c)
    BY <1>2, SoloQuiet DEF CompleteStatus, At, data
  <1>3. CASE Fail(c)
    <2>1. /\ Done(c) /\ ~At(c, "idle") /\ UNCHANGED <<session, company, user, overlaps, pub, sch, last, writes, tenant>>
          /\ broken \subseteq broken'
          /\ At(c, "link") => "link" \in broken'
          /\ At(c, "upgradeFlag") => "upgradeFlag" \in broken'
      BY <1>3 DEF Fail, At, data, signup
    <2>2. QED
      BY <2>1, SoloQuiet
  <1>4. QED
    BY <1>1, <1>2, <1>3

\* completeSignup creates the tenant when company_details names none.
LEMMA SoloTenant ==
  ASSUME IInv, Solo, NEW c \in Calls, CompleteTenant(c) PROVE Solo'
  <1>1. PICK t \in Tenants : /\ ~tenant[t].live
                             /\ tenant' = [tenant EXCEPT ![t].live = TRUE]
                             /\ call' = [call EXCEPT ![c].t = t, ![c].pc = "link"]
    BY DEF CompleteTenant
  <1>2. /\ At(c, "tenant") /\ UNCHANGED <<session, company, paidFor, user, pub, sch, last, writes, broken, overlaps>>
        /\ user \in Tenants \union {None} /\ call[c] \in Call
    BY DEF CompleteTenant, data, signup, IInv, Types
  <1>3. /\ call'[c].pc = "link" /\ call'[c].t = t /\ call'[c].mem = call[c].mem
        /\ \A d \in Calls : d # c => call'[d] = call[d]
    BY <1>1, <1>2 DEF IInv, Types, Call
  <1>4. \A s \in Tenants : /\ tenant'[s].flag = tenant[s].flag
                           /\ tenant'[s].live => s = t \/ tenant[s].live
    BY <1>1 DEF IInv, Types
  <1>5. overlaps' = 0 => overlaps = 0 /\ Only(c) /\ call[c].mem = company
    BY <1>2, OnlyC DEF At
  <1>6. Only(c) => Only(c)'
    BY <1>3 DEF Only, At
  <1>7. ASSUME OneFor(c) PROVE OneFor(c)'
    <2>1. company.tenant = None /\ \A s \in Tenants : ~tenant[s].live
      BY <1>2, <1>7, NoneAssumption DEF OneFor, Tenure, At
    <2>2. \A s \in Tenants : tenant'[s].live => At(c, "link")' /\ call'[c].t = s
      BY <1>3, <1>4, <2>1 DEF At
    <2>3. Settled' /\ Tenure(c)'
      BY <1>2, <1>3, <1>7, <2>1 DEF OneFor, Settled, Tenure, At
    <2>4. QED
      BY <2>2, <2>3 DEF OneFor
  <1>8. ASSUME KeptFor(c) PROVE KeptFor(c)'
    <2>1. Place(c)'
      BY <1>3 DEF Place, At
    <2>2. QED
      BY <1>2, <1>4, <1>8, <2>1 DEF KeptFor, UpToDate, At
  <1>9. QED
    BY <1>2, <1>3, <1>5, <1>6, <1>7, <1>8, SoloStep

\* completeSignup provisions: a flag is set only where there is no data.
LEMMA SoloProvision ==
  ASSUME IInv, Solo, NEW c \in Calls, Provision(c) \/ ProvisionFlag(c) PROVE Solo'
  <1>1. /\ call[c].pc \in {"provision", "flag"} /\ ~At(c, "idle") /\ call[c].t \in Tenants
        /\ user \in Tenants \union {None} /\ writes \in Nat /\ last \in 0 .. writes /\ sch \in 0 .. writes
        /\ UNCHANGED <<session, company, paidFor, user, pub, sch, last, writes, overlaps>>
    BY DEF Provision, ProvisionFlag, At, data, signup, IInv, Types, Versions, Call, Knows
  <1>2. CASE Provision(c)
    <2>1. CASE To(c, "user") /\ UNCHANGED <<tenant, broken>>
      BY <1>1, <1>2, <2>1, SoloQuiet DEF Provision, At
    <2>2. CASE /\ tenant' = [tenant EXCEPT ![call[c].t].schema = TRUE]
               /\ broken' = IF call[c].t = user /\ last > 0 THEN broken \union {"emptySchema"} ELSE broken
               /\ To(c, "flag")
      <3>1. call'[c].pc = "flag" /\ call'[c].t = call[c].t
        BY <2>2, MoveCall, NoCallType DEF PCs, NoCall, IInv, Types, To, Call
      <3>2. \A t \in Tenants : tenant'[t].live = tenant[t].live /\ tenant'[t].flag = tenant[t].flag
        BY <2>2 DEF IInv, Types
      <3>3. At(c, "provision")
        BY <1>2 DEF Provision
      <3>4. ASSUME OneFor(c) PROVE OneFor(c)'
        <4>1. Settled' /\ Tenure(c)'
          BY <1>1, <3>1, <3>3, <3>4 DEF OneFor, Settled, Tenure, At
        <4>2. QED
          BY <1>1, <3>1, <3>2, <3>3, <3>4, <4>1 DEF OneFor, At
      <3>5. ASSUME Whole', KeptFor(c) PROVE KeptFor(c)'
        <4>1. call[c].t = user => last = 0
          BY <1>1, <2>2, <3>5 DEF Whole
        <4>2. Place(c)'
          BY <1>1, <3>1, <4>1 DEF Place, At
        <4>3. QED
          BY <1>1, <3>2, <3>3, <3>5, <4>2 DEF KeptFor, UpToDate, At
      <3>6. QED
        BY <1>1, <2>2, <3>4, <3>5, SoloMove DEF PCs
    <2>3. QED
      BY <1>2, <2>1, <2>2 DEF Provision
  <1>3. CASE ProvisionFlag(c)
    <2>1. /\ To(c, "user") /\ At(c, "flag") /\ UNCHANGED broken
          /\ UNCHANGED tenant \/ tenant' = [tenant EXCEPT ![call[c].t].flag = TRUE]
      BY <1>3 DEF ProvisionFlag
    <2>2. call'[c].pc = "user" /\ call'[c].t = call[c].t
      BY <2>1 DEF IInv, Types, To, Call
    <2>3. \A t \in Tenants : /\ tenant'[t].live = tenant[t].live
                             /\ tenant'[t].flag = tenant[t].flag \/ (t = call[c].t /\ tenant'[t].flag = TRUE)
      <3>1. CASE UNCHANGED tenant
        BY <3>1
      <3>2. CASE tenant' = [tenant EXCEPT ![call[c].t].flag = TRUE]
        BY <1>1, <3>2 DEF IInv, Types
      <3>3. QED
        BY <2>1, <3>1, <3>2
    <2>4. ASSUME OneFor(c) PROVE OneFor(c)'
      <3>1. Settled' /\ Tenure(c)'
        BY <1>1, <2>1, <2>2, <2>4 DEF OneFor, Settled, Tenure, At
      <3>2. QED
        BY <1>1, <2>1, <2>2, <2>3, <2>4, <3>1 DEF OneFor, At
    <2>5. ASSUME KeptFor(c) PROVE KeptFor(c)'
      <3>1. user # None /\ call[c].t = user => last = 0 /\ sch = 0
        BY <1>1, <2>1, <2>5 DEF KeptFor, Place
      <3>2. Place(c)'
        BY <2>2 DEF Place, At
      <3>3. QED
        BY <1>1, <2>1, <2>3, <2>5, <3>1, <3>2 DEF KeptFor, UpToDate, At
    <2>6. QED
      BY <1>1, <2>1, <2>4, <2>5, SoloMove DEF PCs
  <1>4. QED
    BY <1>2, <1>3

\* completeSignup creates the administrator of the tenant that is linked.
LEMMA SoloUser ==
  ASSUME IInv, Solo, NEW c \in Calls, CompleteUser(c) PROVE Solo'
  <1>1. /\ At(c, "user") /\ ~At(c, "idle") /\ To(c, "status") /\ call[c].t \in Tenants
        /\ user \in Tenants \union {None} /\ writes \in Nat /\ last \in 0 .. writes /\ pub \in 0 .. writes /\ sch \in 0 .. writes
        /\ user' = (IF user = None THEN call[c].t ELSE user)
        /\ UNCHANGED <<session, company, tenant, pub, sch, last, writes, broken, overlaps>>
    BY DEF CompleteUser, At, data, IInv, Types, Versions, Call, Knows
  <1>2. call'[c].pc = "status" /\ call'[c].t = call[c].t
    BY <1>1 DEF IInv, Types, To, Call
  <1>3. user' # None
    BY <1>1, NoneAssumption
  <1>4. ASSUME OneFor(c) PROVE OneFor(c)'
    <2>1. user' = company.tenant
      BY <1>1, <1>4 DEF OneFor, Settled, Tenure, At
    <2>2. Settled' /\ Tenure(c)'
      BY <1>1, <1>2, <1>3, <1>4, <2>1 DEF OneFor, Settled, Tenure, At
    <2>3. QED
      BY <1>1, <1>2, <1>4, <2>2 DEF OneFor, At
  <1>5. ASSUME KeptFor(c) PROVE KeptFor(c)'
    <2>1. Place(c)' /\ UpToDate'
      BY <1>2, <1>3 DEF Place, UpToDate, At
    <2>2. CASE user = None
      <3>1. last = 0 /\ pub = 0 /\ sch = 0
        BY <1>1, <1>5, <2>2 DEF KeptFor, UpToDate
      <3>2. QED
        BY <1>1, <2>1, <3>1 DEF KeptFor
    <2>3. CASE user # None
      BY <1>1, <1>5, <2>1, <2>3 DEF KeptFor, At
    <2>4. QED
      BY <2>2, <2>3
  <1>6. QED
    BY <1>1, <1>4, <1>5, SoloMove DEF PCs

\* The upgrade copies the row, then a write finds it in the schema.
LEMMA SoloUpgrade ==
  ASSUME IInv, Solo, NEW c \in Calls, UpgradeCopy(c) \/ UpgradeFlag(c) PROVE Solo'
  <1>1. /\ ~At(c, "idle") /\ call[c] \in Call
        /\ user \in Tenants \union {None} /\ writes \in Nat /\ last \in 0 .. writes /\ pub \in 0 .. writes /\ sch \in 0 .. writes
        /\ UNCHANGED <<session, company, user, pub, last, writes, overlaps>> /\ broken \subseteq broken'
    BY DEF UpgradeCopy, UpgradeFlag, At, data, signup, IInv, Types, Versions
  <1>2. CASE UpgradeCopy(c)
    <2>1. /\ At(c, "upgrade") /\ sch' = (IF sch = 0 THEN pub ELSE sch)
          /\ \A t \in Tenants : tenant'[t].live = tenant[t].live /\ tenant'[t].flag = tenant[t].flag
      BY <1>2 DEF UpgradeCopy, IInv, Types
    <2>2. \/ call[c].flag /\ Done(c) /\ call'[c].pc = "idle"
          \/ ~call[c].flag /\ To(c, "upgradeFlag") /\ call'[c].pc = "upgradeFlag" /\ call'[c].t = call[c].t
      BY <1>1, <1>2, NoCallType DEF UpgradeCopy, IInv, Types, To, Done, Call
    <2>3. ASSUME OneFor(c) PROVE OneFor(c)'
      <3>1. Settled' /\ Tenure(c)'
        BY <1>1, <2>1, <2>2, <2>3 DEF OneFor, Settled, Tenure, At
      <3>2. QED
        BY <1>1, <2>1, <2>3, <3>1 DEF OneFor, At
    <2>4. ASSUME Whole', KeptFor(c) PROVE KeptFor(c)'
      <3>1. user # None /\ call[c].t = user /\ call[c].flag = tenant[user].flag
        BY <2>1, <2>4 DEF KeptFor, Place, At
      <3>2. CASE call[c].flag
        <4>1. sch = last /\ sch' = last
          BY <1>1, <1>2, <2>1, <2>4, <3>1, <3>2 DEF KeptFor, UpgradeCopy, Whole
        <4>2. Place(c)'
          BY <2>2, <3>2 DEF Place, At
        <4>3. QED
          BY <1>1, <2>1, <2>4, <3>1, <3>2, <4>1, <4>2 DEF KeptFor, UpToDate
      <3>3. CASE ~call[c].flag
        <4>1. pub = last /\ sch' = last
          BY <1>1, <2>1, <2>4, <3>1, <3>3 DEF KeptFor, At
        <4>2. At(c, "upgradeFlag")' /\ call'[c].t = user
          BY <2>2, <3>1, <3>3 DEF At
        <4>3. Place(c)'
          BY <1>1, <2>1, <3>1, <3>3, <4>1, <4>2 DEF Place, At
        <4>4. QED
          BY <1>1, <2>1, <2>4, <3>1, <3>3, <4>1, <4>2, <4>3 DEF KeptFor, UpToDate
      <3>4. QED
        BY <3>2, <3>3
    <2>5. QED
      BY <1>1, <2>2, <2>3, <2>4, SoloMove DEF PCs
  <1>3. CASE UpgradeFlag(c)
    <2>1. /\ At(c, "upgradeFlag") /\ Done(c) /\ call'[c].pc = "idle" /\ sch' = sch
          /\ \A t \in Tenants : tenant'[t].live = tenant[t].live
          /\ \A t \in Tenants : t # call[c].t => tenant'[t].flag = tenant[t].flag
          /\ call[c].t \in Tenants => tenant'[call[c].t].flag = TRUE
      BY <1>3, NoCallType DEF UpgradeFlag, Done, data, IInv, Types
    <2>2. ASSUME OneFor(c) PROVE OneFor(c)'
      <3>1. Settled' /\ Tenure(c)'
        BY <1>1, <2>1, <2>2 DEF OneFor, Settled, Tenure, At
      <3>2. QED
        BY <1>1, <2>1, <2>2, <3>1 DEF OneFor, At
    <2>3. ASSUME KeptFor(c) PROVE KeptFor(c)'
      <3>1. user # None /\ call[c].t = user /\ sch = last /\ tenant'[user].flag = TRUE
        BY <1>1, <2>1, <2>3 DEF KeptFor, Place
      <3>2. Place(c)'
        BY <2>1 DEF Place, At
      <3>3. QED
        BY <1>1, <2>1, <2>3, <3>1, <3>2 DEF KeptFor, UpToDate
    <2>4. QED
      BY <1>1, <2>1, <2>2, <2>3, SoloMove DEF PCs
  <1>4. QED
    BY <1>2, <1>3

\* A write goes where the tenant's row is.
LEMMA SoloWrite ==
  ASSUME IInv, Solo, NEW c \in Calls, WriteSave(c) PROVE Solo'
  <1>1. /\ At(c, "write") /\ ~At(c, "idle") /\ Done(c)
        /\ user \in Tenants \union {None} /\ writes \in Nat /\ last \in 0 .. writes /\ pub \in 0 .. writes /\ sch \in 0 .. writes
        /\ UNCHANGED <<session, company, paidFor, user, tenant, broken, overlaps>>
    BY DEF WriteSave, At, signup, IInv, Types, Versions
  <1>2. call'[c].pc = "idle"
    BY <1>1, NoCallType DEF IInv, Types, Done
  <1>3. ASSUME OneFor(c) PROVE OneFor(c)'
    <2>1. Settled' /\ Tenure(c)'
      BY <1>1, <1>2, <1>3 DEF OneFor, Settled, Tenure, At
    <2>2. QED
      BY <1>1, <1>3, <2>1 DEF OneFor, At
  <1>4. ASSUME KeptFor(c) PROVE KeptFor(c)'
    <2>1. user # None /\ call[c].flag = tenant[user].flag
      BY <1>1, <1>4 DEF KeptFor, Place, At
    <2>2. Place(c)' /\ UpToDate'
      BY <1>1, <1>2, <2>1 DEF Place, UpToDate, At
    <2>3. CASE call[c].flag
      <3>1. sch = last /\ sch' = last'
        BY <1>1, <1>4, <2>1, <2>3 DEF KeptFor, WriteSave, Put, data
      <3>2. QED
        BY <1>1, <2>1, <2>2, <2>3, <3>1 DEF KeptFor
    <2>4. CASE ~call[c].flag
      <3>1. pub = last /\ sch = 0 /\ pub' = last' /\ sch' = 0
        BY <1>1, <1>4, <2>1, <2>4 DEF KeptFor, WriteSave, Put, data, At
      <3>2. QED
        BY <1>1, <2>1, <2>2, <2>4, <3>1 DEF KeptFor
    <2>5. QED
      BY <2>3, <2>4
  <1>5. QED
    BY <1>1, <1>3, <1>4, SoloMove DEF PCs

\* The steps of no call.
LEMMA SoloOthers ==
  ASSUME IInv, Solo, Personal \/ Pay \/ \E t \in Tenants : SystemCreate(t)
  PROVE  Solo'
  <1>1. CASE Personal \/ Pay
    <2>1. /\ UNCHANGED <<company, tenant, user, call, pub, sch, last, writes, broken, overlaps>>
          /\ session' = session \/ session' = "personal"
      BY <1>1 DEF Personal, Pay, data
    <2>2. Alone' <=> Alone
      BY <2>1 DEF Alone, At
    <2>3. Current' <=> Current
      BY <2>1 DEF Current, At
    <2>4. OneTenant => OneTenant'
      BY <2>1 DEF OneTenant, Settled, Tenure, At
    <2>5. Kept => Kept'
      BY <2>1 DEF Kept, UpToDate, Place, At
    <2>6. QED
      BY <2>1, <2>2, <2>3, <2>4, <2>5 DEF Solo, Linked, Whole
  <1>2. ASSUME NEW t \in Tenants, SystemCreate(t) PROVE Solo'
    <2>1. /\ company = NoCompany /\ user = None /\ \A c \in Calls : call'[c] = NoCall /\ call[c] = NoCall
          /\ user' = t /\ company'.tenant = t
          /\ tenant' = [tenant EXCEPT ![t].live = TRUE]
          /\ UNCHANGED <<pub, sch, last, writes, broken, overlaps>>
      BY <1>2 DEF SystemCreate, IInv, Fresh, NoCompany, data
    <2>2. Alone' /\ Current'
      BY <2>1, NoCallType DEF Alone, Current, At
    <2>3. \A c \in Calls : call'[c].pc = "idle"
      BY <2>1, NoCallType
    <2>4. ASSUME OneTenant PROVE OneTenant'
      <3>1. \A s \in Tenants : ~tenant[s].live
        BY <2>1, <2>4, NoneAssumption, NoCallType DEF OneTenant, At, NoCompany
      <3>2. \A s \in Tenants : tenant'[s].live => s = t
        BY <2>1, <3>1 DEF IInv, Types
      <3>3. Settled' /\ \A c \in Calls : Tenure(c)'
        BY <2>1, <2>3, NoneAssumption DEF Settled, Tenure, At
      <3>4. QED
        BY <2>1, <3>2, <3>3 DEF OneTenant
    <2>5. ASSUME Kept PROVE Kept'
      <3>1. last = 0 /\ pub = 0 /\ sch = 0
        BY <2>1, <2>5 DEF Kept, UpToDate, IInv, Versions
      <3>2. \A c \in Calls : Place(c)'
        BY <2>3 DEF Place, At
      <3>3. QED
        BY <2>1, <3>1, <3>2, NoneAssumption DEF Kept, UpToDate
    <2>6. QED
      BY <2>1, <2>2, <2>4, <2>5 DEF Solo, Linked, Whole
  <1>3. QED
    BY <1>1, <1>2

\* The first state and every step.
LEMMA InitSolo == Init => Solo
  <1> SUFFICES ASSUME Init PROVE Solo
    OBVIOUS
  <1>1. /\ \A c \in Calls : call[c].pc = "idle"
        /\ \A t \in Tenants : ~tenant[t].live
        /\ user = None /\ session = "none" /\ writes = 0
    BY NoCallType DEF Init, NoTenant
  <1>2. Alone /\ Current
    BY <1>1 DEF Alone, Current, At
  <1>3. OneTenant
    BY <1>1 DEF OneTenant, Settled, Tenure, At
  <1>4. Kept
    BY <1>1 DEF Kept, UpToDate, Place, At
  <1>5. QED
    BY <1>2, <1>3, <1>4 DEF Solo

\* Every step keeps it.
LEMMA NextSolo == IInv /\ Solo /\ [Next]_vars => Solo'
  <1> SUFFICES ASSUME IInv, Solo, [Next]_vars PROVE Solo'
    OBVIOUS
  <1>1. CASE UNCHANGED vars
    <2>1. Alone' /\ Current' <=> Alone /\ Current
      BY <1>1 DEF vars, Alone, Current, At
    <2>2. OneTenant' <=> OneTenant
      BY <1>1 DEF vars, OneTenant, Settled, Tenure, At
    <2>3. Kept' <=> Kept
      BY <1>1 DEF vars, Kept, UpToDate, Place, At
    <2>4. QED
      BY <1>1, <2>1, <2>2, <2>3 DEF vars, Solo, Linked, Whole
  <1>2. CASE Personal \/ Pay \/ \E t \in Tenants : SystemCreate(t)
    BY <1>2, SoloOthers
  <1>3. ASSUME NEW c \in Calls, Signup(c) PROVE Solo'
    BY <1>3, SoloReads, SoloSaves, SoloEnds DEF Signup
  <1>4. ASSUME NEW c \in Calls, Complete(c) PROVE Solo'
    BY <1>4, SoloReads, SoloSaves, SoloEnds, SoloTenant, SoloProvision, SoloUser DEF Complete
  <1>5. ASSUME NEW c \in Calls, \/ Fail(c) \/ UpgradeRead(c) \/ UpgradeCopy(c) \/ UpgradeFlag(c)
                                \/ WriteRead(c) \/ WriteSave(c)
        PROVE  Solo'
    BY <1>5, SoloReads, SoloEnds, SoloUpgrade, SoloWrite
  <1>6. QED
    BY <1>1, <1>2, <1>3, <1>4, <1>5 DEF Next

-----------------------------------------------------------------------------
(* Theorems *)

\* Both invariants hold in every state.
LEMMA Invariants == Spec => [](IInv /\ Solo)
  <1>1. Init => IInv /\ Solo
    BY InitIInv, InitSolo
  <1>2. (IInv /\ Solo) /\ [Next]_vars => (IInv /\ Solo)'
    BY NextIInv, NextSolo
  <1>3. QED
    BY <1>1, <1>2, PTL DEF Spec

\* Every variable keeps its type, and the versions stay within the bound.
THEOREM TenancyTypes == Spec => []TypeOK
  <1>1. IInv => TypeOK
    <2> SUFFICES ASSUME IInv PROVE TypeOK
      OBVIOUS
    <2>1. Cardinality(Writing) \in Nat
      BY FS_CardinalityType DEF IInv, Versions
    <2>2. {pub, sch, last, writes} \subseteq 0 .. MaxWrites
      BY <2>1, BoundsAssumption DEF IInv, Versions
    <2>3. QED
      BY <2>2 DEF IInv, Types, TypeOK, Call
  <1>2. QED
    BY <1>1, Invariants, PTL

\* A payment or a tenant that company_details shows is withdrawn only by a
\* save of what was read before another call saved.
THEOREM TenantKept == Spec => CompanyKeepsItsTenant
  <1> DEFINE Keeps == /\ company.paid => company'.paid
                      /\ company.tenant # None => company'.tenant # None
             Stale == \E c \in Calls : call[c].late /\ call'[c] # call[c]
  <1>1. ASSUME IInv, [Next]_vars PROVE Keeps \/ Stale
    <2>1. CASE UNCHANGED company
      BY <2>1
    <2>2. ASSUME NEW t \in Tenants, SystemCreate(t) PROVE Keeps
      BY <1>1, <2>2, NoneAssumption DEF SystemCreate, IInv, Fresh, NoCompany
    <2>3. ASSUME NEW c \in Calls, CompanySave(c) \/ PaySave(c) \/ MarkSave(c) \/ CompleteLink(c), company' # company
          PROVE  Keeps \/ Stale
      <3>1. /\ ~At(c, "idle") /\ call[c] \in Call /\ call[c].mem \in Company
            /\ At(c, "link") => call[c].t # None
        BY <1>1, <2>3 DEF CompanySave, PaySave, MarkSave, CompleteLink, At, IInv, Types, Call, Knows
      <3>2. CASE call[c].late
        <4>1. call'[c] # call[c]
          <5>1. CASE CompanySave(c)
            <6>1. call'[c] = NoCall \/ call'[c].pc = "companyStatus"
              BY <1>1, <3>1, <5>1, ZenonT(60) DEF CompanySave, Done, SaveCompany, IInv, Types, Call
            <6>2. QED
              BY <5>1, <6>1, NoCallType DEF CompanySave, At
          <5>2. CASE PaySave(c)
            <6>1. call'[c] = NoCall
              BY <3>1, <5>2 DEF PaySave, SaveCompany
            <6>2. QED
              BY <3>1, <6>1, NoCallType DEF At
          <5>3. CASE MarkSave(c)
            <6>1. call'[c].pc = "markStatus"
              BY <3>1, <5>3, ZenonT(60) DEF MarkSave, SaveCompany, Call
            <6>2. QED
              BY <5>3, <6>1 DEF MarkSave, At
          <5>4. CASE CompleteLink(c)
            <6>1. call'[c].pc = "provision"
              BY <3>1, <5>4 DEF CompleteLink, SaveCompany, Call
            <6>2. QED
              BY <5>4, <6>1 DEF CompleteLink, At
          <5>5. QED
            BY <2>3, <5>1, <5>2, <5>3, <5>4
        <4>2. QED
          BY <3>2, <4>1
      <3>3. CASE ~call[c].late
        <4>1. call[c].mem = company
          BY <1>1, <3>1, <3>3 DEF IInv, Knows
        <4>2. company.paid => company'.paid
          BY <2>3, <3>1, <4>1 DEF CompanySave, PaySave, MarkSave, CompleteLink, SaveCompany, Company
        <4>3. company.tenant # None => company'.tenant # None
          BY <2>3, <3>1, <4>1 DEF CompanySave, PaySave, MarkSave, CompleteLink, SaveCompany, Company
        <4>4. QED
          BY <4>2, <4>3
      <3>4. QED
        BY <3>2, <3>3
    <2>4. ASSUME Next, company' # company
          PROVE  \/ \E t \in Tenants : SystemCreate(t)
                 \/ \E c \in Calls : CompanySave(c) \/ PaySave(c) \/ MarkSave(c) \/ CompleteLink(c)
      BY <2>4 DEF Next, Personal, Pay, Signup, CompanyRead, CompanyStatus, PayRead, MarkRead, MarkStatus,
                  Complete, CompleteRead, CompleteTenant, Provision, ProvisionFlag, CompleteUser, CompleteStatus,
                  Fail, UpgradeRead, UpgradeCopy, UpgradeFlag, WriteRead, WriteSave, signup
    <2>5. QED
      BY <1>1, <2>1, <2>2, <2>3, <2>4 DEF vars
  <1>2. QED
    BY <1>1, Invariants, PTL DEF Spec, CompanyKeepsItsTenant

\* However often its steps are repeated, a signup whose calls do not overlap
\* and are not cut off between the tenant and its link has one tenant, its
\* administrator's.
THEOREM OneTenantEach == Spec => []UnracedOneTenant
  <1>1. IInv /\ Solo => UnracedOneTenant
    <2> SUFFICES ASSUME IInv, Solo, Linked
                 PROVE  /\ Cardinality({t \in Tenants : tenant[t].live}) <= 1
                        /\ session = "completed" => user # None /\ user = company.tenant
      BY DEF UnracedOneTenant, Linked
    <2>1. OneTenant /\ Alone
      BY DEF Solo, Linked
    <2>2. session = "completed" => user # None /\ user = company.tenant
      BY <2>1 DEF OneTenant, Settled
    <2>3. PICK x : {t \in Tenants : tenant[t].live} \subseteq {x}
      <3>1. CASE \E c \in Calls : At(c, "link")
        <4>1. PICK c \in Calls : At(c, "link")
          BY <3>1
        <4>2. company.tenant = None /\ \A d \in Calls : At(d, "link") => d = c
          BY <2>1, <4>1 DEF OneTenant, Tenure, Alone, At
        <4>3. {t \in Tenants : tenant[t].live} \subseteq {call[c].t}
          BY <2>1, <4>2, NoneAssumption DEF OneTenant
        <4>4. QED
          BY <4>3
      <3>2. CASE ~\E c \in Calls : At(c, "link")
        <4>1. {t \in Tenants : tenant[t].live} \subseteq {company.tenant}
          BY <2>1, <3>2 DEF OneTenant
        <4>2. QED
          BY <4>1
      <3>3. QED
        BY <3>1, <3>2
    <2>4. IsFiniteSet({x}) /\ Cardinality({x}) = 1
      BY FS_Singleton
    <2>5. Cardinality({t \in Tenants : tenant[t].live}) <= 1
      BY <2>3, <2>4, FS_Subset
    <2>6. QED
      BY <2>2, <2>5
  <1>2. QED
    BY <1>1, Invariants, PTL

\* A tenant finds what it last wrote, before and after its schema appears,
\* and nothing once that was deleted: when calls do not overlap, no upgrade was
\* cut off, no empty schema was given to a tenant that had data, and no repeated
\* upgrade brought a deleted row back.
THEOREM WritesKept == Spec => []UnracedWritesKept
  <1>1. Solo => UnracedWritesKept
    <2> SUFFICES ASSUME Solo, Whole, user # None PROVE (IF tenant[user].flag THEN sch ELSE pub) = last
      BY DEF UnracedWritesKept, Whole
    <2>1. Kept
      BY DEF Solo
    <2>2. QED
      BY <2>1 DEF Kept
  <1>2. QED
    BY <1>1, Invariants, PTL
=============================================================================

------------------------------ MODULE Tenancy ------------------------------
(***************************************************************************)
(* One signup, the tenant it creates and the schema of that tenant         *)
(* (signup.service.ts, system-tenant.service.ts,                           *)
(* tenant-schema-provisioning.service.ts, tenant.controller.ts).           *)
(*                                                                         *)
(* The steps of a signup save whole entities that were read before a call  *)
(* to Stripe or to another table.  Completing it creates the tenant, its   *)
(* schema and its administrator in separate statements; when the schema    *)
(* fails the tenant lives in the public tables until a system              *)
(* administrator upgrades it.  The data of the tenant is one row of a      *)
(* table the upgrade copies; a write first reads where the row lives.      *)
(***************************************************************************)
EXTENDS Integers, FiniteSets

CONSTANTS
  Calls,        \* calls in progress
  Tenants,      \* ids of rows of tenants
  None,         \* no id
  MaxWrites,    \* bound: writes and deletions of the tenant's row
  MaxOverlaps,  \* bound: calls that begin while another is in progress
  MaxFaults     \* bound: calls that fail

ASSUME NoneAssumption == None \notin Tenants
ASSUME BoundsAssumption == MaxWrites \in Nat /\ MaxOverlaps \in Nat /\ MaxFaults \in Nat

VARIABLES
  session,   \* signup_sessions.status
  company,   \* company_details
  paidFor,   \* the customer has paid at Stripe
  tenant,    \* tenants, and whether the schema exists
  user,      \* the tenant of the administrator's row in users
  pub, sch,  \* version of the tenant's row in the public table and in its schema,
             \* 0 where there is none
  last,      \* history: version that the last acknowledged write left
  writes,    \* history: acknowledged writes
  call,      \* progress of each call, with what it has read
  broken,    \* history: what went wrong halfway
  overlaps, faults

vars == <<session, company, paidFor, tenant, user, pub, sch, last, writes, call, broken, overlaps, faults>>
signup == <<session, company, paidFor, user>>
data   == <<pub, sch, last, writes>>

-----------------------------------------------------------------------------
NoCompany == [saved |-> FALSE, paid |-> FALSE, checkout |-> FALSE, tenant |-> None]
NoCall    == [pc |-> "idle", mem |-> NoCompany, t |-> None, flag |-> FALSE, late |-> FALSE]
NoTenant  == [live |-> FALSE, flag |-> FALSE, schema |-> FALSE]

PCs == {"idle", "company", "companyStatus", "pay", "mark", "markStatus", "tenant", "link",
        "provision", "flag", "user", "status", "upgrade", "upgradeFlag", "write"}

Company == [saved : BOOLEAN, paid : BOOLEAN, checkout : BOOLEAN, tenant : Tenants \union {None}]

At(c, pc) == call[c].pc = pc
To(c, pc) == call' = [call EXCEPT ![c].pc = pc]
Done(c)   == call' = [call EXCEPT ![c] = NoCall]

Busy == \E c \in Calls : ~At(c, "idle")

Begin(c, pc, t, flag) ==
  /\ At(c, "idle")
  /\ call' = [call EXCEPT ![c] = [pc |-> pc, mem |-> company, t |-> t, flag |-> flag, late |-> FALSE]]
  /\ Busy => overlaps < MaxOverlaps
  /\ overlaps' = IF Busy THEN overlaps + 1 ELSE overlaps

\* save() of company_details writes every column; what other calls have read
\* is stale from then on.
SaveCompany(c, row, pc) ==
  /\ company' = row
  /\ call' = [d \in Calls |->
       IF d = c THEN IF pc = "idle" THEN NoCall ELSE [call[c] EXCEPT !.mem = row, !.pc = pc]
       ELSE [call[d] EXCEPT !.late = ~At(d, "idle")]]

Fault == faults < MaxFaults /\ faults' = faults + 1

-----------------------------------------------------------------------------
(* The steps of a signup *)

Personal ==
  /\ session = "none" /\ user = None
  /\ session' = "personal"
  /\ UNCHANGED <<company, paidFor, tenant, user, call, data, broken, overlaps, faults>>

\* SystemTenantService.create, one transaction: no schema.
SystemCreate(t) ==
  /\ session = "none" /\ user = None
  /\ session' = "completed"
  /\ tenant' = [tenant EXCEPT ![t].live = TRUE]
  /\ user' = t
  /\ company' = [NoCompany EXCEPT !.saved = TRUE, !.tenant = t]
  /\ UNCHANGED <<paidFor, call, data, broken, overlaps, faults>>

\* saveCompanyDetails, whatever the status of the session.
CompanyRead(c) ==
  /\ session # "none"
  /\ Begin(c, "company", None, FALSE)
  /\ UNCHANGED <<signup, tenant, data, broken, faults>>

\* Mutant: the details are built anew.
MutCompanySave(c) ==
  /\ At(c, "company")
  /\ SaveCompany(c, [call[c].mem EXCEPT !.saved = TRUE, !.paid = FALSE], "companyStatus")
  /\ UNCHANGED <<session, paidFor, tenant, user, data, broken, overlaps, faults>>

\* signup_session_id is unique.
CompanySave(c) ==
  /\ At(c, "company")
  /\ IF ~call[c].mem.saved /\ company.saved THEN Done(c) /\ UNCHANGED company
     ELSE SaveCompany(c, [call[c].mem EXCEPT !.saved = TRUE], "companyStatus")
  /\ UNCHANGED <<session, paidFor, tenant, user, data, broken, overlaps, faults>>

CompanyStatus(c) ==
  /\ At(c, "companyStatus")
  /\ session' = "company"
  /\ Done(c)
  /\ UNCHANGED <<company, paidFor, tenant, user, data, broken, overlaps, faults>>

PayRead(c) ==
  /\ company.saved
  /\ Begin(c, "pay", None, FALSE)
  /\ UNCHANGED <<signup, tenant, data, broken, faults>>

\* startPayment: a checkout session, or a subscription, which notes only the
\* customer.  saveCompanyLogo saves after its upload in the same way.
PaySave(c) ==
  /\ At(c, "pay")
  /\ \/ SaveCompany(c, [call[c].mem EXCEPT !.checkout = TRUE], "idle")
     \/ SaveCompany(c, call[c].mem, "idle")
  /\ UNCHANGED <<session, paidFor, tenant, user, data, broken, overlaps, faults>>

\* The customer, at Stripe.
Pay ==
  /\ company.checkout /\ ~paidFor
  /\ paidFor' = TRUE
  /\ UNCHANGED <<session, company, user, tenant, call, data, broken, overlaps, faults>>

MarkRead(c) ==
  /\ company.saved
  /\ Begin(c, "mark", None, FALSE)
  /\ UNCHANGED <<signup, tenant, data, broken, faults>>

\* Stripe is asked about the checkout session that the caller names, a session
\* of this signup, or else about the one that was noted.  Without either there
\* is nothing to ask, and when Stripe does not answer the payment is taken for
\* made.
MarkSave(c) ==
  LET mem == call[c].mem IN
  /\ At(c, "mark")
  /\ \/ /\ \E named \in BOOLEAN :
            SaveCompany(c, [mem EXCEPT !.paid = @ \/ paidFor \/ ~(named \/ mem.checkout)], "markStatus")
        /\ UNCHANGED faults
     \/ /\ Fault
        /\ SaveCompany(c, [mem EXCEPT !.paid = TRUE], "markStatus")
  /\ UNCHANGED <<session, paidFor, tenant, user, data, broken, overlaps>>

MarkStatus(c) ==
  /\ At(c, "markStatus")
  /\ session' = "payment"
  /\ Done(c)
  /\ UNCHANGED <<company, paidFor, tenant, user, data, broken, overlaps, faults>>

-----------------------------------------------------------------------------
(* completeSignup *)

\* Mutant: the tenant of an earlier attempt is not looked for.
MutCompleteRead(c) ==
  /\ session # "completed" /\ company.paid
  /\ Begin(c, "tenant", None, FALSE)
  /\ UNCHANGED <<signup, tenant, data, broken, faults>>

\* A completed signup only answers.
CompleteRead(c) ==
  LET t == company.tenant IN
  /\ session # "completed" /\ company.paid
  /\ Begin(c, IF t = None THEN "tenant" ELSE "provision", t, t # None /\ tenant[t].flag)
  /\ UNCHANGED <<signup, tenant, data, broken, faults>>

CompleteTenant(c) ==
  /\ At(c, "tenant")
  /\ \E t \in Tenants : /\ ~tenant[t].live
                        /\ tenant' = [tenant EXCEPT ![t].live = TRUE]
                        /\ call' = [call EXCEPT ![c].t = t, ![c].pc = "link"]
  /\ UNCHANGED <<signup, data, broken, overlaps, faults>>

CompleteLink(c) ==
  /\ At(c, "link")
  /\ SaveCompany(c, [call[c].mem EXCEPT !.tenant = call[c].t], "provision")
  /\ UNCHANGED <<session, paidFor, user, tenant, data, broken, overlaps, faults>>

\* provisionTenantSchema copies no rows of the tenant.  Its failure is logged.
Provision(c) ==
  LET t == call[c].t IN
  /\ At(c, "provision")
  /\ \/ /\ call[c].flag
        /\ To(c, "user")
        /\ UNCHANGED <<tenant, broken, faults>>
     \/ /\ ~call[c].flag
        /\ tenant' = [tenant EXCEPT ![t].schema = TRUE]
        /\ broken' = IF t = user /\ last > 0 THEN broken \union {"emptySchema"} ELSE broken
        /\ To(c, "flag")
        /\ UNCHANGED faults
     \/ /\ ~call[c].flag /\ Fault
        /\ To(c, "user")
        /\ UNCHANGED <<tenant, broken>>
  /\ UNCHANGED <<signup, data, overlaps>>

\* A failing save of the flag is logged with it.
ProvisionFlag(c) ==
  /\ At(c, "flag")
  /\ \/ tenant' = [tenant EXCEPT ![call[c].t].flag = TRUE] /\ UNCHANGED faults
     \/ Fault /\ UNCHANGED tenant
  /\ To(c, "user")
  /\ UNCHANGED <<signup, data, broken, overlaps>>

\* The administrator is created unless the e-mail address has a user.
CompleteUser(c) ==
  /\ At(c, "user")
  /\ user' = IF user = None THEN call[c].t ELSE user
  /\ To(c, "status")
  /\ UNCHANGED <<session, company, paidFor, tenant, data, broken, overlaps, faults>>

CompleteStatus(c) ==
  /\ At(c, "status")
  /\ session' = "completed"
  /\ Done(c)
  /\ UNCHANGED <<company, paidFor, user, tenant, data, broken, overlaps, faults>>

\* A call throws or its process dies: what it saved stays.
Fail(c) ==
  /\ ~At(c, "idle") /\ Fault
  /\ broken' = IF call[c].pc \in {"link", "upgradeFlag"} THEN broken \union {call[c].pc} ELSE broken
  /\ Done(c)
  /\ UNCHANGED <<signup, tenant, data, overlaps>>

-----------------------------------------------------------------------------
(* upgradeSchema *)

UpgradeRead(c) ==
  /\ user # None
  /\ Begin(c, "upgrade", user, tenant[user].flag)
  /\ UNCHANGED <<signup, tenant, data, broken, faults>>

\* Mutant: the upgrade provisions, as completeSignup does.
MutUpgradeCopy(c) ==
  LET t == call[c].t IN
  /\ At(c, "upgrade")
  /\ tenant' = [tenant EXCEPT ![t].schema = TRUE]
  /\ IF call[c].flag THEN Done(c) ELSE To(c, "upgradeFlag")
  /\ UNCHANGED <<signup, data, broken, overlaps, faults>>

\* upgradeTenantSchema, one transaction: a row the schema has is left as it is.
\* It may be called again at any time.  The public rows stay, so that a row
\* deleted in the schema since the last upgrade comes back.
UpgradeCopy(c) ==
  LET t == call[c].t IN
  /\ At(c, "upgrade")
  /\ tenant' = [tenant EXCEPT ![t].schema = TRUE]
  /\ sch' = IF sch = 0 THEN pub ELSE sch
  /\ broken' = IF call[c].flag /\ sch # sch' THEN broken \union {"restored"} ELSE broken
  /\ IF call[c].flag THEN Done(c) ELSE To(c, "upgradeFlag")
  /\ UNCHANGED <<signup, pub, last, writes, overlaps, faults>>

UpgradeFlag(c) ==
  /\ At(c, "upgradeFlag")
  /\ tenant' = [tenant EXCEPT ![call[c].t].flag = TRUE]
  /\ Done(c)
  /\ UNCHANGED <<signup, data, broken, overlaps, faults>>

-----------------------------------------------------------------------------
(* A service: isTenantSchemaProvisioned, then the statement *)

WriteRead(c) ==
  /\ user # None /\ writes + Cardinality({d \in Calls : At(d, "write")}) < MaxWrites
  /\ Begin(c, "write", user, tenant[user].flag)
  /\ UNCHANGED <<signup, tenant, data, broken, faults>>

\* A statement leaves version v of the row in the schema or in public, or no row.
Put(inSchema, v) ==
  /\ writes' = writes + 1 /\ last' = v
  /\ IF inSchema THEN sch' = v /\ UNCHANGED pub ELSE pub' = v /\ UNCHANGED sch

\* An insert when there is no row to the client's knowledge; an update or a
\* delete has to find it.
WriteSave(c) ==
  LET place == IF call[c].flag THEN sch ELSE pub IN
  /\ At(c, "write")
  /\ \/ (last = 0 \/ place # 0) /\ Put(call[c].flag, writes + 1)
     \/ place # 0 /\ Put(call[c].flag, 0)
     \/ last # 0 /\ place = 0 /\ UNCHANGED data
  /\ Done(c)
  /\ UNCHANGED <<signup, tenant, broken, overlaps, faults>>

-----------------------------------------------------------------------------
Init ==
  /\ session = "none" /\ company = NoCompany /\ paidFor = FALSE
  /\ tenant = [t \in Tenants |-> NoTenant] /\ user = None
  /\ pub = 0 /\ sch = 0 /\ last = 0 /\ writes = 0
  /\ call = [c \in Calls |-> NoCall]
  /\ broken = {} /\ overlaps = 0 /\ faults = 0

Signup(c) ==
  \/ CompanyRead(c) \/ CompanySave(c) \/ CompanyStatus(c)
  \/ PayRead(c) \/ PaySave(c) \/ MarkRead(c) \/ MarkSave(c) \/ MarkStatus(c)

Complete(c) ==
  \/ CompleteRead(c) \/ CompleteTenant(c) \/ CompleteLink(c)
  \/ Provision(c) \/ ProvisionFlag(c) \/ CompleteUser(c) \/ CompleteStatus(c)

Next ==
  \/ Personal \/ Pay
  \/ \E t \in Tenants : SystemCreate(t)
  \/ \E c \in Calls : \/ Signup(c) \/ Complete(c) \/ Fail(c)
                      \/ UpgradeRead(c) \/ UpgradeCopy(c) \/ UpgradeFlag(c)
                      \/ WriteRead(c) \/ WriteSave(c)

Spec == Init /\ [][Next]_vars

-----------------------------------------------------------------------------
(* Properties *)

TypeOK ==
  /\ session \in {"none", "personal", "company", "payment", "completed"}
  /\ company \in Company
  /\ paidFor \in BOOLEAN
  /\ tenant \in [Tenants -> [live : BOOLEAN, flag : BOOLEAN, schema : BOOLEAN]]
  /\ user \in Tenants \union {None}
  /\ {pub, sch, last, writes} \subseteq 0 .. MaxWrites
  /\ call \in [Calls -> [pc : PCs, mem : Company, t : Tenants \union {None}, flag : BOOLEAN, late : BOOLEAN]]
  /\ broken \subseteq {"link", "upgradeFlag", "emptySchema", "restored"}
  /\ overlaps \in 0 .. MaxOverlaps /\ faults \in 0 .. MaxFaults

\* However often its steps are repeated, a signup has one tenant, and once it
\* is complete that is the tenant of the company and of the administrator:
\* unless calls overlapped, or one stopped between creating the tenant and
\* noting it in company_details.
UnracedOneTenant ==
  overlaps = 0 /\ "link" \notin broken =>
    /\ Cardinality({t \in Tenants : tenant[t].live}) <= 1
    /\ session = "completed" => user # None /\ user = company.tenant

\* A payment and a tenant that company_details shows are withdrawn only by a
\* save of what was read before another call saved.
CompanyKeepsItsTenant ==
  [][/\ company.paid => company'.paid
     /\ company.tenant # None => company'.tenant # None
     \/ \E c \in Calls : call[c].late /\ call'[c] # call[c]]_vars

\* A tenant finds what it last wrote, and nothing once that was deleted, before
\* and after its schema appears: unless calls overlapped, an upgrade stopped
\* between its copy and the flag, completeSignup gave an empty schema to a
\* tenant that had data, or a repeated upgrade copied from public a row that the
\* schema had no more.
UnracedWritesKept ==
  overlaps = 0 /\ broken \intersect {"upgradeFlag", "emptySchema", "restored"} = {} /\ user # None =>
    (IF tenant[user].flag THEN sch ELSE pub) = last
=============================================================================

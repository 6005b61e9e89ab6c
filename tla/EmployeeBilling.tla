--------------------------- MODULE EmployeeBilling ---------------------------
(***************************************************************************)
(* Adding one employee, identified by email, and paying for it             *)
(* (employee/services/employee.service.ts, modules/billing).               *)
(*                                                                         *)
(* EmployeeService.create inserts the user and the employee, charges the   *)
(* company's card, and takes both rows back when the payment fails.  When  *)
(* there is no card it hands out a Stripe checkout instead; the employee   *)
(* is then created by confirmEmployeePayment, which the redirect and the   *)
(* webhook both call.  Each request is a process whose steps are its       *)
(* commits and its calls of Stripe.                                        *)
(***************************************************************************)
EXTENDS Integers, FiniteSets, Sequences

CONSTANTS
  Requests,     \* calls of EmployeeService.create
  Confirms,     \* callers of BillingService.confirmEmployeePayment
  Hooks,        \* those of them that deliver webhooks
  None,         \* no row, no payment
  Provisioned,  \* billing runs in one transaction of the tenant's schema
  MaxRedirects, \* bound: confirmations asked for by the client
  MaxRefunds,   \* bound: refunds in Stripe's dashboard
  MaxFaults,    \* bound: crashes, failing queries and lost answers
  Slow          \* bound: requests whose checkout a slow method may pay

ASSUME HooksAssumption == Hooks \subseteq Confirms
ASSUME ModeAssumption == Provisioned \in BOOLEAN
ASSUME BoundsAssumption == MaxRedirects \in Nat /\ MaxRefunds \in Nat /\ MaxFaults \in Nat

VARIABLES
  user,      \* the row of users with this email: the payment its call asks for
  emp,       \* the same for its row of employees
  money,     \* Stripe: status of each payment
  ledger,    \* billing_transactions of this email, oldest first
  req,       \* progress of each create
  bill,      \* progress of each handleEmployeeCreated
  conf,      \* progress of each confirmEmployeePayment
  webhook,   \* sessions whose checkout.session.completed is undelivered
  refunded,  \* payments whose charge.refunded is undelivered
  configured,\* STRIPE_SECRET_KEY is set
  redirects, refunds, faults,
  raced,     \* history: two confirmations at once, or one that met a row
             \* of a create that was not finished, or never will be
  abandoned  \* history: sessions whose webhook was answered although its
             \* confirmation failed, so that nothing delivers it again

vars == <<user, emp, money, ledger, req, bill, conf, webhook, refunded,
          configured, redirects, refunds, faults, raced, abandoned>>

stripe == <<money, webhook, refunded>>
rest   == <<configured, redirects, refunds, faults, raced, abandoned>>

-----------------------------------------------------------------------------
\* A card charge of create, one of the employee.created listener, a checkout.
Direct(r)   == <<r, "direct">>
Event(r)    == <<r, "event">>
Checkout(r) == <<r, "checkout">>

Charges  == Requests \X {"direct", "event"}
Payments == Requests \X {"direct", "event", "checkout"}

ASSUME NamesAssumption == None \notin Payments

MoneyStatus == {"none", "open", "pending", "paid", "failed", "refunded"}

RequestPC == {"new", "insert", "upload", "billing", "dropEmp", "dropUser",
              "done", "dropped", "rejected", "dead"}
BillPC    == {"idle", "charge", "record", "failMethod", "failOther", "failRecord",
              "ok", "method", "error", "dead"}
ConfirmPC == {"idle", "find", "save", "check", "insert", "link"}

\* What was paid with and which employee is meant, None where the row is silent.
Entry == [status : {"SUCCESS", "FAILED"}, pay : Payments \union {None},
          emp : Payments \union {None}]

NoConfirm == [pc |-> "idle", s |-> None, row |-> 0]

InProgress(r) == req[r] \in {"insert", "upload", "billing", "dropEmp", "dropUser"}
Billing(p)    == bill[p] \in {"charge", "record", "failMethod", "failOther", "failRecord"}
Busy(k)       == conf[k].pc # "idle"

Quiet == /\ \A r \in Requests : ~InProgress(r)
         /\ \A p \in Charges : ~Billing(p)
         /\ \A k \in Confirms : ~Busy(k)
         /\ webhook = {} /\ refunded = {}

Fault == faults < MaxFaults /\ faults' = faults + 1

-----------------------------------------------------------------------------
(* EmployeeService.create *)

Go(r, pc) == req' = [req EXCEPT ![r] = pc]

CheckEmail(r) ==
  /\ req[r] = "new"
  /\ Go(r, IF user = None THEN "insert" ELSE "rejected")
  /\ UNCHANGED <<user, emp, ledger, bill, conf, stripe, rest>>

\* One transaction in both modes; the unique index on the email decides.
Insert(r) ==
  /\ req[r] = "insert"
  /\ IF user = None THEN user' = Direct(r) /\ emp' = Direct(r) /\ Go(r, "upload")
                    ELSE Go(r, "rejected") /\ UNCHANGED <<user, emp>>
  /\ UNCHANGED <<ledger, bill, conf, stripe, rest>>

Upload(r) ==
  /\ req[r] = "upload"
  /\ \/ Go(r, "billing") /\ bill' = [bill EXCEPT ![Direct(r)] = "charge"]
     \/ Go(r, "dropEmp") /\ UNCHANGED bill
  /\ UNCHANGED <<user, emp, ledger, conf, stripe, rest>>

\* Paid: the invitation goes out and employee.created is emitted, whose
\* listener bills the employee.
Invite(r) ==
  /\ req[r] = "billing" /\ bill[Direct(r)] = "ok"
  /\ Go(r, "done")
  /\ bill' = [bill EXCEPT ![Event(r)] = "charge"]
  /\ UNCHANGED <<user, emp, ledger, conf, stripe, rest>>

\* Not paid: a checkout session when a payment method is what is missing.
\* Creating it may fail; the rows go either way.
GiveUp(r) ==
  /\ req[r] = "billing"
  /\ \/ /\ bill[Direct(r)] = "method"
        /\ money' = [money EXCEPT ![Checkout(r)] = "open"]
     \/ /\ bill[Direct(r)] \in {"method", "error"}
        /\ UNCHANGED money
  /\ Go(r, "dropEmp")
  /\ UNCHANGED <<user, emp, ledger, bill, conf, webhook, refunded, rest>>

DropEmployee(r) ==
  /\ req[r] = "dropEmp"
  /\ emp' = IF emp = Direct(r) THEN None ELSE emp
  /\ Go(r, "dropUser")
  /\ UNCHANGED <<user, ledger, bill, conf, stripe, rest>>

\* The key of employees on users says ON DELETE CASCADE.
DropUser(r) ==
  /\ req[r] = "dropUser"
  /\ user' = IF user = Direct(r) THEN None ELSE user
  /\ emp' = IF emp = Direct(r) THEN None ELSE emp
  /\ Go(r, "dropped")
  /\ UNCHANGED <<ledger, bill, conf, stripe, rest>>

\* The process dies and a running charge with it, or a query fails that
\* nothing catches.
Die(r) ==
  /\ Fault
  /\ InProgress(r)
  /\ Go(r, "dead")
  /\ bill' = [bill EXCEPT ![Direct(r)] = IF Billing(Direct(r)) THEN "dead" ELSE @]
  /\ UNCHANGED <<user, emp, ledger, conf, stripe, configured, redirects, refunds, raced, abandoned>>

-----------------------------------------------------------------------------
(* BillingService.handleEmployeeCreated, called by create and by the       *)
(* listener of employee.created.                                           *)

\* Mutant: the row is written before the charge is known to have succeeded.
MutCharge(p) ==
  /\ bill[p] = "charge"
  /\ bill' = [bill EXCEPT ![p] = "record"]
  /\ \/ configured /\ money' = [money EXCEPT ![p] = "paid"]
     \/ UNCHANGED money
  /\ UNCHANGED <<user, emp, ledger, req, conf, webhook, refunded, rest>>

\* paymentIntents.create with confirm: paid, no usable card, another error,
\* or paid and the answer is lost.  Without Stripe the charge is skipped.
Charge(p) ==
  /\ bill[p] = "charge"
  /\ \/ /\ bill' = [bill EXCEPT ![p] = "record"]
        /\ money' = IF configured THEN [money EXCEPT ![p] = "paid"] ELSE money
        /\ UNCHANGED faults
     \/ /\ \E pc \in {"failOther"} \union IF configured THEN {"failMethod"} ELSE {} :
             bill' = [bill EXCEPT ![p] = pc]
        /\ UNCHANGED <<money, faults>>
     \/ /\ configured /\ Fault
        /\ bill' = [bill EXCEPT ![p] = "failOther"]
        /\ money' = [money EXCEPT ![p] = "paid"]
  /\ UNCHANGED <<user, emp, ledger, req, conf, webhook, refunded, configured, redirects,
                 refunds, raced, abandoned>>

\* The id of the payment goes into the row, if there is one.
Charged(p) == IF configured THEN p ELSE None

Record(p) ==
  /\ bill[p] = "record"
  /\ \/ /\ ledger' = Append(ledger, [status |-> "SUCCESS", pay |-> Charged(p), emp |-> Direct(p[1])])
        /\ bill' = [bill EXCEPT ![p] = "ok"]
        /\ UNCHANGED faults
     \/ /\ Fault
        /\ bill' = [bill EXCEPT ![p] = "failRecord"]
        /\ UNCHANGED ledger
  /\ UNCHANGED <<user, emp, req, conf, stripe, configured, redirects, refunds, raced, abandoned>>

\* The FAILED row is saved and the error rethrown: on a provisioned tenant
\* that rolls the row back.
RecordFailure(p) ==
  /\ bill[p] \in {"failMethod", "failOther", "failRecord"}
  /\ bill' = [bill EXCEPT ![p] = IF @ = "failMethod" THEN "method" ELSE "error"]
  /\ ledger' = IF Provisioned THEN ledger
               ELSE Append(ledger, [status |-> "FAILED", emp |-> Direct(p[1]),
                                    pay |-> IF bill[p] = "failRecord" THEN Charged(p) ELSE None])
  /\ UNCHANGED <<user, emp, req, conf, stripe, rest>>

-----------------------------------------------------------------------------
(* Stripe and its webhooks *)

\* The client has the URL once create has answered.  The session completes
\* with its payment, or before it when the method is a slow one.
PayCheckout(r) ==
  /\ req[r] = "dropped"
  /\ money[Checkout(r)] = "open"
  /\ \E status \in {"paid"} \union IF r \in Slow THEN {"pending"} ELSE {} :
       money' = [money EXCEPT ![Checkout(r)] = status]
  /\ webhook' = webhook \union {r}
  /\ UNCHANGED <<user, emp, ledger, req, bill, conf, refunded, rest>>

\* The slow payment succeeds or fails; no handler listens to it.
Settle(r) ==
  /\ money[Checkout(r)] = "pending"
  /\ \E status \in {"paid", "failed"} : money' = [money EXCEPT ![Checkout(r)] = status]
  /\ UNCHANGED <<user, emp, ledger, req, bill, conf, webhook, refunded, rest>>

\* Only a card charge carries the tenant's id to its charge.refunded.
Refund(p) ==
  /\ refunds < MaxRefunds
  /\ money[p] = "paid"
  /\ refunds' = refunds + 1
  /\ money' = [money EXCEPT ![p] = "refunded"]
  /\ refunded' = IF p \in Charges THEN refunded \union {p} ELSE refunded
  /\ UNCHANGED <<user, emp, ledger, req, bill, conf, webhook, configured, redirects, faults,
                 raced, abandoned>>

HandleRefund(p) ==
  /\ p \in refunded
  /\ refunded' = refunded \ {p}
  /\ ledger' = [i \in DOMAIN ledger |->
                  IF ledger[i].pay = p THEN [ledger[i] EXCEPT !.status = "FAILED"]
                                       ELSE ledger[i]]
  /\ UNCHANGED <<user, emp, money, req, bill, conf, webhook, rest>>

-----------------------------------------------------------------------------
(* BillingService.confirmEmployeePayment *)

At(k, pc) == conf[k].pc = pc
To(k, pc) == conf' = [conf EXCEPT ![k].pc = pc]

Finish(k) == conf' = [conf EXCEPT ![k] = NoConfirm]

\* The call ends with an error or a warning, and the webhook is answered.
Abandon(k) == /\ Finish(k)
              /\ abandoned' = IF k \in Hooks THEN abandoned \union {conf[k].s} ELSE abandoned

\* What isPaymentSuccessful asks of a session: paid, or merely complete.
Completed(p) == money[p] \in {"pending", "paid", "failed", "refunded"}

Begin(k, r) ==
  /\ At(k, "idle")
  /\ conf' = [conf EXCEPT ![k] = [pc |-> "find", s |-> r, row |-> 0]]
  /\ raced' = (raced \/ \E q \in Confirms : Busy(q))
  /\ UNCHANGED <<user, emp, ledger, req, bill, money, refunded, configured, refunds,
                 faults, abandoned>>

Start(k, r) == Completed(Checkout(r)) /\ Begin(k, r)

\* Mutant: the status of the session is not looked at.
MutRedirect(k, r) ==
  /\ k \notin Hooks
  /\ redirects < MaxRedirects
  /\ redirects' = redirects + 1
  /\ money[Checkout(r)] # "none"
  /\ Begin(k, r)
  /\ UNCHANGED webhook

\* The client comes back from Stripe, or repeats the request.
Redirect(k, r) ==
  /\ k \notin Hooks
  /\ redirects < MaxRedirects
  /\ redirects' = redirects + 1
  /\ Start(k, r)
  /\ UNCHANGED webhook

Deliver(k, r) ==
  /\ k \in Hooks /\ r \in webhook
  /\ webhook' = webhook \ {r}
  /\ Start(k, r)
  /\ UNCHANGED redirects

\* The newest FAILED row of the email, 0 if there is none.
FindRow(k) ==
  /\ At(k, "find")
  /\ \E i \in 0 .. Len(ledger) :
       /\ i # 0 => ledger[i].status = "FAILED"
       /\ \A j \in i + 1 .. Len(ledger) : ledger[j].status # "FAILED"
       /\ conf' = [conf EXCEPT ![k].pc = "save", ![k].row = i]
  /\ UNCHANGED <<user, emp, ledger, req, bill, stripe, rest>>

\* Mutant: the row that is found keeps its status.
MutSaveRow(k) ==
  LET row == conf[k].row IN
  /\ At(k, "save")
  /\ ledger' = IF row = 0
               THEN Append(ledger, [status |-> "SUCCESS", pay |-> Checkout(conf[k].s), emp |-> None])
               ELSE [ledger EXCEPT ![row].pay = Checkout(conf[k].s)]
  /\ conf' = [conf EXCEPT ![k].pc = "check", ![k].row = IF row = 0 THEN Len(ledger) + 1 ELSE row]
  /\ UNCHANGED <<user, emp, req, bill, stripe, rest>>

SaveRow(k) ==
  LET row == conf[k].row
      pay == Checkout(conf[k].s) IN
  /\ At(k, "save")
  /\ ledger' = IF row = 0
               THEN Append(ledger, [status |-> "SUCCESS", pay |-> pay, emp |-> None])
               ELSE [ledger EXCEPT ![row].status = "SUCCESS", ![row].pay = pay]
  /\ conf' = [conf EXCEPT ![k].pc = "check", ![k].row = IF row = 0 THEN Len(ledger) + 1 ELSE row]
  /\ UNCHANGED <<user, emp, req, bill, stripe, rest>>

\* createAfterPayment.  A row that is already there ends it with a warning,
\* and so does any other refusal: designation, team, role, phone, an index.
Unsettled == \E r \in Requests : user = Direct(r) /\ req[r] # "done"

Refused(k) == /\ user # None
              /\ Finish(k)
              /\ raced' = (raced \/ Unsettled)
              /\ UNCHANGED <<user, emp, abandoned>>

Invalid(k) == Abandon(k) /\ UNCHANGED <<user, emp, raced>>

\* Mutant: the webhook only records the payment.
MutCreateCheck(k) ==
  /\ At(k, "check")
  /\ \/ user = None /\ UNCHANGED <<user, emp, raced, abandoned>>
        /\ IF k \in Hooks THEN Finish(k) ELSE To(k, "insert")
     \/ Refused(k)
     \/ Invalid(k)
  /\ UNCHANGED <<ledger, req, bill, stripe, configured, redirects, refunds, faults>>

CreateCheck(k) ==
  /\ At(k, "check")
  /\ \/ user = None /\ To(k, "insert") /\ UNCHANGED <<user, emp, raced, abandoned>>
     \/ Refused(k)
     \/ Invalid(k)
  /\ UNCHANGED <<ledger, req, bill, stripe, configured, redirects, refunds, faults>>

CreateInsert(k) ==
  /\ At(k, "insert")
  /\ \/ /\ user = None
        /\ user' = Checkout(conf[k].s) /\ emp' = Checkout(conf[k].s)
        /\ To(k, "link")
        /\ UNCHANGED <<raced, abandoned>>
     \/ Refused(k)
     \/ Invalid(k)
  /\ UNCHANGED <<ledger, req, bill, stripe, configured, redirects, refunds, faults>>

\* An update that fails is a warning too; the employee stays.
Link(k) ==
  /\ At(k, "link")
  /\ \/ /\ ledger' = [ledger EXCEPT ![conf[k].row].emp = Checkout(conf[k].s)]
        /\ UNCHANGED faults
     \/ Fault /\ UNCHANGED ledger
  /\ Finish(k)
  /\ UNCHANGED <<user, emp, req, bill, stripe, configured, redirects, refunds, raced, abandoned>>

\* Stripe or the database fails before the row is saved.  The webhook
\* swallows the error and answers.
ConfirmFails(k) ==
  /\ Fault
  /\ conf[k].pc \in {"find", "save"}
  /\ Abandon(k)
  /\ UNCHANGED <<user, emp, ledger, req, bill, stripe, configured, redirects, refunds, raced>>

\* The process dies.  Stripe delivers an unanswered webhook again.
ConfirmDies(k) ==
  /\ Fault
  /\ Busy(k)
  /\ Finish(k)
  /\ webhook' = IF k \in Hooks THEN webhook \union {conf[k].s} ELSE webhook
  /\ UNCHANGED <<user, emp, ledger, req, bill, money, refunded, configured, redirects,
                 refunds, raced, abandoned>>

-----------------------------------------------------------------------------
Init ==
  /\ user = None /\ emp = None
  /\ money = [p \in Payments |-> "none"]
  /\ ledger = << >>
  /\ req = [r \in Requests |-> "new"]
  /\ bill = [p \in Charges |-> "idle"]
  /\ conf = [k \in Confirms |-> NoConfirm]
  /\ webhook = {} /\ refunded = {}
  /\ configured \in BOOLEAN
  /\ redirects = 0 /\ refunds = 0 /\ faults = 0
  /\ raced = FALSE /\ abandoned = {}

Create(r) ==
  \/ CheckEmail(r) \/ Insert(r) \/ Upload(r) \/ Invite(r) \/ GiveUp(r)
  \/ DropEmployee(r) \/ DropUser(r)

Bill(p) == Charge(p) \/ Record(p) \/ RecordFailure(p)

Confirm(k) == FindRow(k) \/ SaveRow(k) \/ CreateCheck(k) \/ CreateInsert(k) \/ Link(k)

Next ==
  \/ \E r \in Requests : Create(r) \/ Die(r) \/ PayCheckout(r) \/ Settle(r)
  \/ \E p \in Charges : Bill(p) \/ HandleRefund(p)
  \/ \E p \in Payments : Refund(p)
  \/ \E k \in Confirms : Confirm(k) \/ ConfirmFails(k) \/ ConfirmDies(k)
  \/ \E k \in Confirms, r \in Requests : Redirect(k, r) \/ Deliver(k, r)

Spec == Init /\ [][Next]_vars

\* Started work goes on and Stripe delivers each webhook; nobody has to call
\* create, to pay or to come back.
Fairness ==
  /\ \A r \in Requests : WF_vars(req[r] # "new" /\ Create(r))
  /\ \A p \in Charges : WF_vars(Bill(p))
  /\ \A k \in Confirms : WF_vars(Confirm(k))
  /\ \A r \in Requests : WF_vars(\E k \in Confirms : Deliver(k, r))

FairSpec == Spec /\ Fairness

-----------------------------------------------------------------------------
(* Properties *)

TypeOK ==
  /\ user \in Payments \union {None} /\ emp \in Payments \union {None}
  /\ money \in [Payments -> MoneyStatus]
  /\ ledger \in Seq(Entry)
  /\ req \in [Requests -> RequestPC]
  /\ bill \in [Charges -> BillPC]
  /\ conf \in [Confirms -> [pc : ConfirmPC, s : Requests \union {None}, row : 0 .. Len(ledger)]]
  /\ webhook \subseteq Requests /\ refunded \subseteq Charges
  /\ redirects \in 0 .. MaxRedirects /\ refunds \in 0 .. MaxRefunds /\ faults \in 0 .. MaxFaults
  /\ configured \in BOOLEAN /\ raced \in BOOLEAN /\ abandoned \subseteq Requests

Paid(p) == money[p] \in {"paid", "refunded"}

\* What the code takes for paid: a charge that succeeded, a session that is
\* complete.
Accepted(p) == IF p \in Charges THEN Paid(p) ELSE Completed(p)

\* "Employee creation cannot be completed without successful payment", as far
\* as the code keeps it: an employee that stays was paid by the charge of its
\* own request, or Stripe is not configured, or the checkout session whose
\* confirmation created it was complete, be the money there or not.
NoEmployeeUnpaid ==
  \A r \in Requests :
    /\ emp = Direct(r) /\ req[r] = "done" => Paid(Direct(r)) \/ ~configured
    /\ emp = Checkout(r) => Completed(Checkout(r))

Vouched(pay) == IF configured THEN pay \in Payments /\ Accepted(pay) ELSE pay = None

\* A row that says SUCCESS names a payment the code may take for made, and
\* names none exactly when there was no Stripe to charge.
SuccessWasPaid ==
  \A i \in DOMAIN ledger : ledger[i].status = "SUCCESS" => Vouched(ledger[i].pay)

\* With nothing lost and no two confirmations at once, every payment that was
\* taken and not given back is recorded when everything has settled.
TakenIsRecorded ==
  Quiet /\ faults = 0 /\ ~raced =>
    \A p \in Payments : money[p] = "paid" =>
      \E i \in DOMAIN ledger : ledger[i].status = "SUCCESS" /\ ledger[i].pay = p

\* A paid checkout leads to the employee, by redirect or by webhook, through
\* crashes of either and for money that came late, unless its confirmation met
\* the rows of a half-finished create, or its webhook was answered in spite of
\* an error.
PaidLeadsToEmployee ==
  \A r \in Requests : money[Checkout(r)] = "paid" ~> (emp # None \/ raced \/ r \in abandoned)
=============================================================================

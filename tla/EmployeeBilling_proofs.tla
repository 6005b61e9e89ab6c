----------------------- MODULE EmployeeBilling_proofs -----------------------
(***************************************************************************)
(* Proofs about EmployeeBilling for every number of requests and           *)
(* confirmations, both transaction modes and every bound.                  *)
(***************************************************************************)
EXTENDS EmployeeBilling, SequenceTheorems, TLAPS

(* The strengthening: what the progress of a request, of a charge or of a   *)
(* confirmation says about the rows and about Stripe.                       *)

Rows == user \in Payments \union {None} /\ emp \in Payments \union {None}

BeforeCheckout == {"new", "insert", "upload", "billing"}

\* There is no checkout before create gives up, so that opening one never
\* makes a payment unpaid; a charge that is recorded was taken, and a create
\* that is done was paid, unless Stripe is not configured.
Taken ==
  /\ money \in [Payments -> MoneyStatus]
  /\ req \in [Requests -> RequestPC]
  /\ bill \in [Charges -> BillPC]
  /\ \A r \in Requests : req[r] \in BeforeCheckout => money[Checkout(r)] = "none"
  /\ \A p \in Charges : bill[p] \in {"record", "ok"} => Paid(p) \/ ~configured
  /\ \A r \in Requests : req[r] = "done" => Paid(Direct(r)) \/ ~configured

\* Without Stripe no payment method is missing, so that no checkout is opened.
NoStripe ==
  /\ configured \in BOOLEAN
  /\ ~configured => /\ \A p \in Payments : money[p] = "none"
                    /\ \A p \in Charges : bill[p] \notin {"failMethod", "method"}

\* A confirmation that has started is of a session that is complete, and so is
\* the session whose confirmation created the employee.
Progress == [pc : ConfirmPC, s : Requests \union {None}, row : Nat]

Confirmed ==
  /\ conf \in [Confirms -> Progress]
  /\ \A k \in Confirms : ~At(k, "idle") => conf[k].s \in Requests /\ Completed(Checkout(conf[k].s))
  /\ \A r \in Requests : emp = Checkout(r) => Completed(Checkout(r))

\* The row a confirmation has in hand is a row of the ledger.
Ledger ==
  /\ ledger \in Seq(Entry)
  /\ \A k \in Confirms : conf[k].row <= Len(ledger)
  /\ \A i \in 1 .. Len(ledger) : ledger[i].status = "SUCCESS" => Vouched(ledger[i].pay)

Counts ==
  /\ webhook \subseteq Requests /\ refunded \subseteq Charges
  /\ redirects \in 0 .. MaxRedirects /\ refunds \in 0 .. MaxRefunds /\ faults \in 0 .. MaxFaults
  /\ raced \in BOOLEAN /\ abandoned \subseteq Requests

IInv == Rows /\ Taken /\ NoStripe /\ Confirmed /\ Ledger /\ Counts

-----------------------------------------------------------------------------
(* Lemmas *)

\* A charge and a checkout are payments, and never the same one.
LEMMA Distinct ==
  /\ \A r \in Requests : /\ Direct(r) \in Charges /\ Event(r) \in Charges
                         /\ Checkout(r) \in Payments /\ Checkout(r) \notin Charges
                         /\ Direct(r) # Event(r)
                         /\ \A q \in Requests : Checkout(r) = Checkout(q) => r = q
  /\ Charges \subseteq Payments
  /\ \A p \in Charges : p[1] \in Requests
  BY DEF Direct, Event, Checkout, Charges, Payments

\* The rows are of calls of this module.
LEMMA RowsStep == ASSUME Rows, Confirmed, Next PROVE Rows'
  <1> USE DEF Rows
  <1>1. ASSUME NEW r \in Requests, CheckEmail(r) PROVE Rows'
    BY <1>1, Distinct DEF CheckEmail, rest, stripe
  <1>2. ASSUME NEW r \in Requests, Insert(r) PROVE Rows'
    BY <1>2, Distinct DEF Insert, rest, stripe
  <1>3. ASSUME NEW r \in Requests, Upload(r) PROVE Rows'
    BY <1>3, Distinct DEF Upload, rest, stripe
  <1>4. ASSUME NEW r \in Requests, Invite(r) PROVE Rows'
    BY <1>4, Distinct DEF Invite, rest, stripe
  <1>5. ASSUME NEW r \in Requests, GiveUp(r) PROVE Rows'
    BY <1>5, Distinct DEF GiveUp, rest, stripe
  <1>6. ASSUME NEW r \in Requests, DropEmployee(r) PROVE Rows'
    BY <1>6, Distinct DEF DropEmployee, rest, stripe
  <1>7. ASSUME NEW r \in Requests, DropUser(r) PROVE Rows'
    BY <1>7, Distinct DEF DropUser, rest, stripe
  <1>8. ASSUME NEW r \in Requests, Die(r) PROVE Rows'
    BY <1>8, Distinct DEF Die, rest, stripe
  <1>9. ASSUME NEW r \in Requests, PayCheckout(r) PROVE Rows'
    BY <1>9, Distinct DEF PayCheckout, rest, stripe
  <1>10. ASSUME NEW r \in Requests, Settle(r) PROVE Rows'
    BY <1>10, Distinct DEF Settle, rest, stripe
  <1>11. ASSUME NEW p \in Charges, Charge(p) PROVE Rows'
    BY <1>11, Distinct DEF Charge, rest, stripe
  <1>12. ASSUME NEW p \in Charges, Record(p) PROVE Rows'
    BY <1>12, Distinct DEF Record, rest, stripe
  <1>13. ASSUME NEW p \in Charges, RecordFailure(p) PROVE Rows'
    BY <1>13, Distinct DEF RecordFailure, rest, stripe
  <1>14. ASSUME NEW p \in Charges, HandleRefund(p) PROVE Rows'
    BY <1>14, Distinct DEF HandleRefund, rest, stripe
  <1>15. ASSUME NEW p \in Payments, Refund(p) PROVE Rows'
    BY <1>15, Distinct DEF Refund, rest, stripe
  <1>16. ASSUME NEW k \in Confirms, FindRow(k) PROVE Rows'
    BY <1>16, Distinct DEF FindRow, rest, stripe
  <1>17. ASSUME NEW k \in Confirms, SaveRow(k) PROVE Rows'
    BY <1>17, Distinct DEF SaveRow, rest, stripe
  <1>18. ASSUME NEW k \in Confirms, CreateCheck(k) PROVE Rows'
    BY <1>18, Distinct DEF CreateCheck, Refused, Invalid, Abandon, Finish, rest, stripe
  <1>19. ASSUME NEW k \in Confirms, CreateInsert(k) PROVE Rows'
    <2>1. Checkout(conf[k].s) \in Payments
      BY <1>19, Distinct DEF CreateInsert, Confirmed, At
    <2>2. QED
      BY <1>19, <2>1 DEF CreateInsert, Refused, Invalid
  <1>20. ASSUME NEW k \in Confirms, Link(k) PROVE Rows'
    BY <1>20, Distinct DEF Link, Finish, rest, stripe
  <1>21. ASSUME NEW k \in Confirms, ConfirmFails(k) PROVE Rows'
    BY <1>21, Distinct DEF ConfirmFails, Abandon, Finish, rest, stripe
  <1>22. ASSUME NEW k \in Confirms, ConfirmDies(k) PROVE Rows'
    BY <1>22, Distinct DEF ConfirmDies, Finish, rest, stripe
  <1>23. ASSUME NEW k \in Confirms, NEW r \in Requests, Redirect(k, r) PROVE Rows'
    BY <1>23, Distinct DEF Redirect, Start, Begin, rest, stripe
  <1>24. ASSUME NEW k \in Confirms, NEW r \in Requests, Deliver(k, r) PROVE Rows'
    BY <1>24, Distinct DEF Deliver, Start, Begin, rest, stripe
  <1>25. QED
    BY <1>1, <1>2, <1>3, <1>4, <1>5, <1>6, <1>7, <1>8, <1>9, <1>10, <1>11, <1>12,
       <1>13, <1>14, <1>15, <1>16, <1>17, <1>18, <1>19, <1>20, <1>21, <1>22, <1>23, <1>24
       DEF Next, Create, Bill, Confirm

\* What Stripe has taken stays taken, or is given back, and a session that is
\* complete stays complete.
LEMMA PaidStays ==
  ASSUME Taken, Next
  PROVE  /\ configured' = configured
         /\ \A q \in Payments : (Paid(q) => Paid(q)') /\ (Completed(q) => Completed(q)')
  <1> DEFINE Stays == /\ configured' = configured
                      /\ \A q \in Payments : (Paid(q) => Paid(q)') /\ (Completed(q) => Completed(q)')
  <1> USE DEF Paid, Completed
  <1>1. ASSUME NEW r \in Requests, CheckEmail(r) PROVE Stays
    BY <1>1 DEF CheckEmail, rest, stripe
  <1>2. ASSUME NEW r \in Requests, Insert(r) PROVE Stays
    BY <1>2 DEF Insert, rest, stripe
  <1>3. ASSUME NEW r \in Requests, Upload(r) PROVE Stays
    BY <1>3 DEF Upload, rest, stripe
  <1>4. ASSUME NEW r \in Requests, Invite(r) PROVE Stays
    BY <1>4 DEF Invite, rest, stripe
  <1>5. ASSUME NEW r \in Requests, GiveUp(r) PROVE Stays
    BY <1>5, Distinct DEF GiveUp, rest, Taken, BeforeCheckout
  <1>6. ASSUME NEW r \in Requests, DropEmployee(r) PROVE Stays
    BY <1>6 DEF DropEmployee, rest, stripe
  <1>7. ASSUME NEW r \in Requests, DropUser(r) PROVE Stays
    BY <1>7 DEF DropUser, rest, stripe
  <1>8. ASSUME NEW r \in Requests, Die(r) PROVE Stays
    BY <1>8 DEF Die, rest, stripe
  <1>9. ASSUME NEW r \in Requests, PayCheckout(r) PROVE Stays
    BY <1>9 DEF PayCheckout, rest, Taken
  <1>10. ASSUME NEW r \in Requests, Settle(r) PROVE Stays
    BY <1>10 DEF Settle, rest, Taken
  <1>11. ASSUME NEW p \in Charges, Charge(p) PROVE Stays
    BY <1>11 DEF Charge, rest, Taken
  <1>12. ASSUME NEW p \in Charges, Record(p) PROVE Stays
    BY <1>12 DEF Record, rest, stripe
  <1>13. ASSUME NEW p \in Charges, RecordFailure(p) PROVE Stays
    BY <1>13 DEF RecordFailure, rest, stripe
  <1>14. ASSUME NEW p \in Charges, HandleRefund(p) PROVE Stays
    BY <1>14 DEF HandleRefund, rest, stripe
  <1>15. ASSUME NEW p \in Payments, Refund(p) PROVE Stays
    BY <1>15 DEF Refund, rest, Taken
  <1>16. ASSUME NEW k \in Confirms, FindRow(k) PROVE Stays
    BY <1>16 DEF FindRow, rest, stripe
  <1>17. ASSUME NEW k \in Confirms, SaveRow(k) PROVE Stays
    BY <1>17 DEF SaveRow, rest, stripe
  <1>18. ASSUME NEW k \in Confirms, CreateCheck(k) PROVE Stays
    BY <1>18 DEF CreateCheck, Refused, Invalid, Abandon, Finish, rest, stripe
  <1>19. ASSUME NEW k \in Confirms, CreateInsert(k) PROVE Stays
    BY <1>19 DEF CreateInsert, Refused, Invalid, Abandon, Finish, rest, stripe
  <1>20. ASSUME NEW k \in Confirms, Link(k) PROVE Stays
    BY <1>20 DEF Link, Finish, rest, stripe
  <1>21. ASSUME NEW k \in Confirms, ConfirmFails(k) PROVE Stays
    BY <1>21 DEF ConfirmFails, Abandon, Finish, rest, stripe
  <1>22. ASSUME NEW k \in Confirms, ConfirmDies(k) PROVE Stays
    BY <1>22 DEF ConfirmDies, Finish, rest, stripe
  <1>23. ASSUME NEW k \in Confirms, NEW r \in Requests, Redirect(k, r) PROVE Stays
    BY <1>23 DEF Redirect, Start, Begin, rest, stripe
  <1>24. ASSUME NEW k \in Confirms, NEW r \in Requests, Deliver(k, r) PROVE Stays
    BY <1>24 DEF Deliver, Start, Begin, rest, stripe
  <1>25. QED
    BY <1>1, <1>2, <1>3, <1>4, <1>5, <1>6, <1>7, <1>8, <1>9, <1>10, <1>11, <1>12,
       <1>13, <1>14, <1>15, <1>16, <1>17, <1>18, <1>19, <1>20, <1>21, <1>22, <1>23, <1>24
       DEF Next, Create, Bill, Confirm

\* Charges, checkouts and requests keep their meaning.
LEMMA TakenStep == ASSUME Taken, Next PROVE Taken'
  <1> USE DEF Taken, Paid, BeforeCheckout, RequestPC, BillPC, MoneyStatus
  <1>1. ASSUME NEW r \in Requests, CheckEmail(r) PROVE Taken'
    BY <1>1, Distinct DEF CheckEmail, Go, stripe, rest
  <1>2. ASSUME NEW r \in Requests, Insert(r) PROVE Taken'
    BY <1>2, Distinct, SMTT(30) DEF Insert, Go, stripe, rest
  <1>3. ASSUME NEW r \in Requests, Upload(r) PROVE Taken'
    BY <1>3, Distinct, SMTT(30) DEF Upload, Go, stripe, rest
  <1>4. ASSUME NEW r \in Requests, Invite(r) PROVE Taken'
    BY <1>4, Distinct DEF Invite, Go, stripe, rest
  <1>5. ASSUME NEW r \in Requests, GiveUp(r) PROVE Taken'
    BY <1>5, Distinct, SMTT(30) DEF GiveUp, Go, stripe, rest
  <1>6. ASSUME NEW r \in Requests, DropEmployee(r) PROVE Taken'
    BY <1>6, Distinct DEF DropEmployee, Go, stripe, rest
  <1>7. ASSUME NEW r \in Requests, DropUser(r) PROVE Taken'
    BY <1>7, Distinct DEF DropUser, Go, stripe, rest
  <1>8. ASSUME NEW r \in Requests, Die(r) PROVE Taken'
    BY <1>8, Distinct, SMTT(30) DEF Die, Go, stripe, rest
  <1>9. ASSUME NEW r \in Requests, PayCheckout(r) PROVE Taken'
    BY <1>9, Distinct, SMTT(30) DEF PayCheckout, Go, stripe, rest
  <1>10. ASSUME NEW r \in Requests, Settle(r) PROVE Taken'
    BY <1>10, Distinct, SMTT(30) DEF Settle, Go, stripe, rest
  <1>11. ASSUME NEW p \in Charges, Charge(p) PROVE Taken'
    BY <1>11, Distinct, SMTT(30) DEF Charge, Go, stripe, rest
  <1>12. ASSUME NEW p \in Charges, Record(p) PROVE Taken'
    BY <1>12, Distinct DEF Record, Go, stripe, rest
  <1>13. ASSUME NEW p \in Charges, RecordFailure(p) PROVE Taken'
    BY <1>13, Distinct DEF RecordFailure, Go, stripe, rest
  <1>14. ASSUME NEW p \in Charges, HandleRefund(p) PROVE Taken'
    BY <1>14 DEF HandleRefund, stripe, rest
  <1>15. ASSUME NEW p \in Payments, Refund(p) PROVE Taken'
    BY <1>15, Distinct DEF Refund, Go, stripe, rest
  <1>16. ASSUME NEW k \in Confirms, FindRow(k) PROVE Taken'
    BY <1>16 DEF FindRow, stripe, rest
  <1>17. ASSUME NEW k \in Confirms, SaveRow(k) PROVE Taken'
    BY <1>17 DEF SaveRow, stripe, rest
  <1>18. ASSUME NEW k \in Confirms, CreateCheck(k) PROVE Taken'
    BY <1>18 DEF CreateCheck, Refused, Invalid, Abandon, Finish, stripe, rest
  <1>19. ASSUME NEW k \in Confirms, CreateInsert(k) PROVE Taken'
    BY <1>19 DEF CreateInsert, Refused, Invalid, Abandon, Finish, stripe, rest
  <1>20. ASSUME NEW k \in Confirms, Link(k) PROVE Taken'
    BY <1>20 DEF Link, Finish, stripe, rest
  <1>21. ASSUME NEW k \in Confirms, ConfirmFails(k) PROVE Taken'
    BY <1>21 DEF ConfirmFails, Abandon, Finish, stripe, rest
  <1>22. ASSUME NEW k \in Confirms, ConfirmDies(k) PROVE Taken'
    BY <1>22 DEF ConfirmDies, Finish, stripe, rest
  <1>23. ASSUME NEW k \in Confirms, NEW r \in Requests, Redirect(k, r) PROVE Taken'
    BY <1>23 DEF Redirect, Start, Begin, stripe, rest
  <1>24. ASSUME NEW k \in Confirms, NEW r \in Requests, Deliver(k, r) PROVE Taken'
    BY <1>24 DEF Deliver, Start, Begin, stripe, rest
  <1>25. QED
    BY <1>1, <1>2, <1>3, <1>4, <1>5, <1>6, <1>7, <1>8, <1>9, <1>10, <1>11, <1>12,
       <1>13, <1>14, <1>15, <1>16, <1>17, <1>18, <1>19, <1>20, <1>21, <1>22, <1>23, <1>24
       DEF Next, Create, Bill, Confirm

\* Without Stripe nothing is ever paid.
LEMMA NoStripeStep == ASSUME Taken, NoStripe, Confirmed, Next PROVE NoStripe'
  <1> USE DEF NoStripe
  <1>1. ASSUME NEW r \in Requests, CheckEmail(r) PROVE NoStripe'
    BY <1>1, Distinct DEF CheckEmail, Go, stripe, rest, Taken
  <1>2. ASSUME NEW r \in Requests, Insert(r) PROVE NoStripe'
    BY <1>2, Distinct DEF Insert, Go, stripe, rest, Taken
  <1>3. ASSUME NEW r \in Requests, Upload(r) PROVE NoStripe'
    BY <1>3, Distinct DEF Upload, Go, stripe, rest, Taken
  <1>4. ASSUME NEW r \in Requests, Invite(r) PROVE NoStripe'
    BY <1>4, Distinct DEF Invite, Go, stripe, rest, Taken
  <1>5. ASSUME NEW r \in Requests, GiveUp(r) PROVE NoStripe'
    BY <1>5, Distinct DEF GiveUp, Go, stripe, rest, Taken
  <1>6. ASSUME NEW r \in Requests, DropEmployee(r) PROVE NoStripe'
    BY <1>6, Distinct DEF DropEmployee, Go, stripe, rest, Taken
  <1>7. ASSUME NEW r \in Requests, DropUser(r) PROVE NoStripe'
    BY <1>7, Distinct DEF DropUser, Go, stripe, rest, Taken
  <1>8. ASSUME NEW r \in Requests, Die(r) PROVE NoStripe'
    BY <1>8, Distinct DEF Die, Go, stripe, rest, Taken
  <1>9. ASSUME NEW r \in Requests, PayCheckout(r) PROVE NoStripe'
    BY <1>9, Distinct DEF PayCheckout, Go, stripe, rest, Taken
  <1>10. ASSUME NEW r \in Requests, Settle(r) PROVE NoStripe'
    BY <1>10, Distinct DEF Settle, Go, stripe, rest, Taken
  <1>11. ASSUME NEW p \in Charges, Charge(p) PROVE NoStripe'
    BY <1>11, Distinct DEF Charge, Go, stripe, rest, Taken
  <1>12. ASSUME NEW p \in Charges, Record(p) PROVE NoStripe'
    BY <1>12, Distinct DEF Record, Go, stripe, rest, Taken
  <1>13. ASSUME NEW p \in Charges, RecordFailure(p) PROVE NoStripe'
    BY <1>13, Distinct DEF RecordFailure, Go, stripe, rest, Taken
  <1>14. ASSUME NEW p \in Charges, HandleRefund(p) PROVE NoStripe'
    BY <1>14, Distinct DEF HandleRefund, Go, stripe, rest, Taken
  <1>15. ASSUME NEW p \in Payments, Refund(p) PROVE NoStripe'
    BY <1>15, Distinct DEF Refund, Go, stripe, rest, Taken
  <1>16. ASSUME NEW k \in Confirms, FindRow(k) PROVE NoStripe'
    BY <1>16, Distinct DEF FindRow, Go, stripe, rest, Taken
  <1>17. ASSUME NEW k \in Confirms, SaveRow(k) PROVE NoStripe'
    BY <1>17, Distinct DEF SaveRow, Go, stripe, rest, Taken
  <1>18. ASSUME NEW k \in Confirms, CreateCheck(k) PROVE NoStripe'
    BY <1>18, Distinct DEF CreateCheck, Refused, Invalid, Abandon, Finish, Go, stripe, rest, Taken
  <1>19. ASSUME NEW k \in Confirms, CreateInsert(k) PROVE NoStripe'
    BY <1>19, Distinct DEF CreateInsert, Refused, Invalid, Abandon, Finish, Go, stripe, rest, Taken
  <1>20. ASSUME NEW k \in Confirms, Link(k) PROVE NoStripe'
    BY <1>20, Distinct DEF Link, Finish, Go, stripe, rest, Taken
  <1>21. ASSUME NEW k \in Confirms, ConfirmFails(k) PROVE NoStripe'
    BY <1>21, Distinct DEF ConfirmFails, Abandon, Finish, Go, stripe, rest, Taken
  <1>22. ASSUME NEW k \in Confirms, ConfirmDies(k) PROVE NoStripe'
    BY <1>22, Distinct DEF ConfirmDies, Finish, Go, stripe, rest, Taken
  <1>23. ASSUME NEW k \in Confirms, NEW r \in Requests, Redirect(k, r) PROVE NoStripe'
    BY <1>23, Distinct DEF Redirect, Start, Begin, Go, stripe, rest, Taken
  <1>24. ASSUME NEW k \in Confirms, NEW r \in Requests, Deliver(k, r) PROVE NoStripe'
    BY <1>24, Distinct DEF Deliver, Start, Begin, Go, stripe, rest, Taken
  <1>25. QED
    BY <1>1, <1>2, <1>3, <1>4, <1>5, <1>6, <1>7, <1>8, <1>9, <1>10, <1>11, <1>12,
       <1>13, <1>14, <1>15, <1>16, <1>17, <1>18, <1>19, <1>20, <1>21, <1>22, <1>23, <1>24
       DEF Next, Create, Bill, Confirm

\* Confirmations go on with a session that is complete, or are over.
LEMMA ConfirmedKept ==
  ASSUME Taken, Next, conf' \in [Confirms -> Progress],
         \A d \in Confirms : conf'[d].pc # "idle" =>
            \E s \in Requests : conf'[d].s = s /\ Completed(Checkout(s)),
         \A r \in Requests : emp' = Checkout(r) => Completed(Checkout(r))
  PROVE  Confirmed'
  <1>1. \A r \in Requests : Completed(Checkout(r)) => Completed(Checkout(r))'
    BY PaidStays, Distinct DEF Checkout
  <1>2. ASSUME NEW d \in Confirms, ~At(d, "idle")'
        PROVE  conf'[d].s \in Requests /\ Completed(Checkout(conf[d].s))'
    <2>1. PICK s \in Requests : conf'[d].s = s /\ Completed(Checkout(s))
      BY <1>2 DEF At
    <2>2. Completed(Checkout(s))'
      BY <1>1, <2>1
    <2>3. QED
      BY <2>1, <2>2 DEF Completed, Checkout
  <1>3. QED
    BY <1>1, <1>2 DEF Confirmed, Checkout

\* A confirmation that takes a step within the call, or ends it.
LEMMA Advances ==
  ASSUME Confirmed, Taken, Next, NEW k \in Confirms, ~At(k, "idle"),
         NEW pc \in ConfirmPC, NEW row \in Nat,
         \/ conf' = [conf EXCEPT ![k].pc = pc, ![k].row = row]
         \/ Finish(k),
         emp' = emp \/ emp' = Checkout(conf[k].s)
  PROVE  Confirmed'
  <1>1. /\ conf' \in [Confirms -> Progress]
        /\ conf'[k].pc = "idle" \/ conf'[k].s = conf[k].s
        /\ \A d \in Confirms : d # k => conf'[d] = conf[d]
    BY DEF Confirmed, Progress, Finish, NoConfirm, ConfirmPC
  <1>2. \A d \in Confirms : conf'[d].pc # "idle" =>
          \E s \in Requests : conf'[d].s = s /\ Completed(Checkout(s))
    BY <1>1 DEF Confirmed, At
  <1>3. \A r \in Requests : emp' = Checkout(r) => Completed(Checkout(r))
    <2>1. CASE emp' = emp
      BY <2>1 DEF Confirmed
    <2>2. CASE emp' = Checkout(conf[k].s)
      BY <2>2, Distinct DEF Confirmed
    <2>3. QED
      BY <2>1, <2>2
  <1>4. QED
    BY <1>1, <1>2, <1>3, ConfirmedKept

\* A confirmation is of a complete session from its start.
LEMMA ConfirmedStep == ASSUME Rows, Taken, Confirmed, Ledger, Next PROVE Confirmed'
  <1>a. ASSUME conf' = conf, emp' = emp \/ \A r \in Requests : emp' # Checkout(r) PROVE Confirmed'
    BY <1>a, ConfirmedKept DEF Confirmed, At
  <1>b. ASSUME NEW r \in Requests, emp' \in {emp, None, Direct(r)}, conf' = conf PROVE Confirmed'
    BY <1>a, <1>b, Distinct, NamesAssumption
  <1>c. ASSUME NEW k \in Confirms, NEW pc \in ConfirmPC, ~At(k, "idle"), To(k, pc) \/ Finish(k),
               emp' = emp \/ emp' = Checkout(conf[k].s)
        PROVE  Confirmed'
    <2>1. conf[k].row \in Nat /\ (To(k, pc) => conf' = [conf EXCEPT ![k].pc = pc, ![k].row = conf[k].row])
      BY <1>c DEF Confirmed, Progress, To
    <2>2. QED
      BY <1>c, <2>1, Advances
  <1>d. ASSUME NEW k \in Confirms, NEW r \in Requests, Start(k, r) PROVE Confirmed'
    <2>1. /\ conf' \in [Confirms -> Progress]
          /\ conf'[k].s = r /\ \A d \in Confirms : d # k => conf'[d] = conf[d]
      BY <1>d DEF Start, Begin, Confirmed, Progress, ConfirmPC
    <2>2. emp' = emp /\ Completed(Checkout(r))
      BY <1>d DEF Start, Begin
    <2>3. \A d \in Confirms : conf'[d].pc # "idle" =>
            \E s \in Requests : conf'[d].s = s /\ Completed(Checkout(s))
      BY <2>1, <2>2 DEF Confirmed, At
    <2>4. \A q \in Requests : emp' = Checkout(q) => Completed(Checkout(q))
      BY <2>2 DEF Confirmed
    <2>5. QED
      BY <2>1, <2>3, <2>4, ConfirmedKept
  <1>1. ASSUME NEW r \in Requests, CheckEmail(r) PROVE Confirmed'
    BY <1>1, <1>a DEF CheckEmail, stripe
  <1>2. ASSUME NEW r \in Requests, Insert(r) PROVE Confirmed'
    BY <1>2, <1>b DEF Insert
  <1>3. ASSUME NEW r \in Requests, Upload(r) PROVE Confirmed'
    BY <1>3, <1>a DEF Upload, stripe
  <1>4. ASSUME NEW r \in Requests, Invite(r) PROVE Confirmed'
    BY <1>4, <1>a DEF Invite, stripe
  <1>5. ASSUME NEW r \in Requests, GiveUp(r) PROVE Confirmed'
    BY <1>5, <1>a DEF GiveUp, stripe
  <1>6. ASSUME NEW r \in Requests, DropEmployee(r) PROVE Confirmed'
    BY <1>6, <1>b DEF DropEmployee
  <1>7. ASSUME NEW r \in Requests, DropUser(r) PROVE Confirmed'
    BY <1>7, <1>b DEF DropUser
  <1>8. ASSUME NEW r \in Requests, Die(r) PROVE Confirmed'
    BY <1>8, <1>a DEF Die, stripe
  <1>9. ASSUME NEW r \in Requests, PayCheckout(r) PROVE Confirmed'
    BY <1>9, <1>a DEF PayCheckout, stripe
  <1>10. ASSUME NEW r \in Requests, Settle(r) PROVE Confirmed'
    BY <1>10, <1>a DEF Settle, stripe
  <1>11. ASSUME NEW p \in Charges, Charge(p) PROVE Confirmed'
    BY <1>11, <1>a DEF Charge, stripe
  <1>12. ASSUME NEW p \in Charges, Record(p) PROVE Confirmed'
    BY <1>12, <1>a DEF Record, stripe
  <1>13. ASSUME NEW p \in Charges, RecordFailure(p) PROVE Confirmed'
    BY <1>13, <1>a DEF RecordFailure, stripe
  <1>14. ASSUME NEW p \in Charges, HandleRefund(p) PROVE Confirmed'
    BY <1>14, <1>a DEF HandleRefund, stripe
  <1>15. ASSUME NEW p \in Payments, Refund(p) PROVE Confirmed'
    BY <1>15, <1>a DEF Refund, stripe
  <1>16. ASSUME NEW k \in Confirms, FindRow(k) PROVE Confirmed'
    <2>1. Len(ledger) \in Nat /\ ~At(k, "idle")
      BY <1>16, LenProperties DEF FindRow, Ledger, At
    <2>2. PICK i \in 0 .. Len(ledger) : conf' = [conf EXCEPT ![k].pc = "save", ![k].row = i]
      BY <1>16 DEF FindRow
    <2>3. i \in Nat /\ emp' = emp
      BY <1>16, <2>1 DEF FindRow
    <2>4. QED
      BY <2>1, <2>2, <2>3, Advances DEF ConfirmPC
  <1>17. ASSUME NEW k \in Confirms, SaveRow(k) PROVE Confirmed'
    <2>1. conf[k].row \in Nat /\ Len(ledger) + 1 \in Nat /\ ~At(k, "idle")
      BY <1>17, LenProperties DEF SaveRow, Ledger, Confirmed, Progress, At
    <2>2. QED
      BY <1>17, <2>1, Advances DEF SaveRow, ConfirmPC
  <1>18. ASSUME NEW k \in Confirms, CreateCheck(k) PROVE Confirmed'
    BY <1>18, <1>c DEF CreateCheck, ConfirmPC, At, Refused, Invalid, Abandon, Busy
  <1>19. ASSUME NEW k \in Confirms, CreateInsert(k) PROVE Confirmed'
    BY <1>19, <1>c DEF CreateInsert, ConfirmPC, At, Refused, Invalid, Abandon, Busy
  <1>20. ASSUME NEW k \in Confirms, Link(k) PROVE Confirmed'
    BY <1>20, <1>c DEF Link, ConfirmPC, At, Refused, Invalid, Abandon, Busy
  <1>21. ASSUME NEW k \in Confirms, ConfirmFails(k) PROVE Confirmed'
    BY <1>21, <1>c DEF ConfirmFails, ConfirmPC, At, Refused, Invalid, Abandon, Busy
  <1>22. ASSUME NEW k \in Confirms, ConfirmDies(k) PROVE Confirmed'
    BY <1>22, <1>c DEF ConfirmDies, ConfirmPC, At, Refused, Invalid, Abandon, Busy
  <1>23. ASSUME NEW k \in Confirms, NEW r \in Requests, Redirect(k, r) PROVE Confirmed'
    BY <1>23, <1>d DEF Redirect
  <1>24. ASSUME NEW k \in Confirms, NEW r \in Requests, Deliver(k, r) PROVE Confirmed'
    BY <1>24, <1>d DEF Deliver
  <1>25. QED
    BY <1>1, <1>2, <1>3, <1>4, <1>5, <1>6, <1>7, <1>8, <1>9, <1>10, <1>11, <1>12,
       <1>13, <1>14, <1>15, <1>16, <1>17, <1>18, <1>19, <1>20, <1>21, <1>22, <1>23, <1>24
       DEF Next, Create, Bill, Confirm

\* Bounds.
LEMMA CountsStep == ASSUME Counts, Confirmed, Next PROVE Counts'
  <1> USE DEF Counts
  <1>1. ASSUME NEW r \in Requests, CheckEmail(r) PROVE Counts'
    BY <1>1, BoundsAssumption DEF CheckEmail, stripe, rest, Fault
  <1>2. ASSUME NEW r \in Requests, Insert(r) PROVE Counts'
    BY <1>2, BoundsAssumption DEF Insert, stripe, rest, Fault
  <1>3. ASSUME NEW r \in Requests, Upload(r) PROVE Counts'
    BY <1>3, BoundsAssumption DEF Upload, stripe, rest, Fault
  <1>4. ASSUME NEW r \in Requests, Invite(r) PROVE Counts'
    BY <1>4, BoundsAssumption DEF Invite, stripe, rest, Fault
  <1>5. ASSUME NEW r \in Requests, GiveUp(r) PROVE Counts'
    BY <1>5, BoundsAssumption DEF GiveUp, stripe, rest, Fault
  <1>6. ASSUME NEW r \in Requests, DropEmployee(r) PROVE Counts'
    BY <1>6, BoundsAssumption DEF DropEmployee, stripe, rest, Fault
  <1>7. ASSUME NEW r \in Requests, DropUser(r) PROVE Counts'
    BY <1>7, BoundsAssumption DEF DropUser, stripe, rest, Fault
  <1>8. ASSUME NEW r \in Requests, Die(r) PROVE Counts'
    BY <1>8, BoundsAssumption DEF Die, stripe, rest, Fault
  <1>9. ASSUME NEW r \in Requests, PayCheckout(r) PROVE Counts'
    BY <1>9, BoundsAssumption DEF PayCheckout, stripe, rest, Fault
  <1>10. ASSUME NEW r \in Requests, Settle(r) PROVE Counts'
    BY <1>10, BoundsAssumption DEF Settle, stripe, rest, Fault
  <1>11. ASSUME NEW p \in Charges, Charge(p) PROVE Counts'
    BY <1>11, BoundsAssumption DEF Charge, stripe, rest, Fault
  <1>12. ASSUME NEW p \in Charges, Record(p) PROVE Counts'
    BY <1>12, BoundsAssumption DEF Record, stripe, rest, Fault
  <1>13. ASSUME NEW p \in Charges, RecordFailure(p) PROVE Counts'
    BY <1>13, BoundsAssumption DEF RecordFailure, stripe, rest, Fault
  <1>14. ASSUME NEW p \in Charges, HandleRefund(p) PROVE Counts'
    BY <1>14, BoundsAssumption DEF HandleRefund, stripe, rest, Fault
  <1>15. ASSUME NEW p \in Payments, Refund(p) PROVE Counts'
    BY <1>15, BoundsAssumption DEF Refund, stripe, rest, Fault
  <1>16. ASSUME NEW k \in Confirms, FindRow(k) PROVE Counts'
    BY <1>16, BoundsAssumption DEF FindRow, stripe, rest, Fault
  <1>17. ASSUME NEW k \in Confirms, SaveRow(k) PROVE Counts'
    BY <1>17, BoundsAssumption DEF SaveRow, stripe, rest, Fault
  <1>18. ASSUME NEW k \in Confirms, CreateCheck(k) PROVE Counts'
    BY <1>18 DEF CreateCheck, Refused, Invalid, Abandon, Confirmed, At, stripe
  <1>19. ASSUME NEW k \in Confirms, CreateInsert(k) PROVE Counts'
    BY <1>19 DEF CreateInsert, Refused, Invalid, Abandon, Confirmed, At, stripe
  <1>20. ASSUME NEW k \in Confirms, Link(k) PROVE Counts'
    BY <1>20, BoundsAssumption DEF Link, Finish, stripe, rest, Fault
  <1>21. ASSUME NEW k \in Confirms, ConfirmFails(k) PROVE Counts'
    BY <1>21, BoundsAssumption DEF ConfirmFails, Abandon, Finish, Fault, stripe, Confirmed, At
  <1>22. ASSUME NEW k \in Confirms, ConfirmDies(k) PROVE Counts'
    BY <1>22, BoundsAssumption DEF ConfirmDies, Finish, Fault, Confirmed, Busy, At
  <1>23. ASSUME NEW k \in Confirms, NEW r \in Requests, Redirect(k, r) PROVE Counts'
    BY <1>23, BoundsAssumption DEF Redirect, Start, Begin
  <1>24. ASSUME NEW k \in Confirms, NEW r \in Requests, Deliver(k, r) PROVE Counts'
    BY <1>24, BoundsAssumption DEF Deliver, Start, Begin
  <1>25. QED
    BY <1>1, <1>2, <1>3, <1>4, <1>5, <1>6, <1>7, <1>8, <1>9, <1>10, <1>11, <1>12,
       <1>13, <1>14, <1>15, <1>16, <1>17, <1>18, <1>19, <1>20, <1>21, <1>22, <1>23, <1>24
       DEF Next, Create, Bill, Confirm

\* What vouches for a row goes on doing so.
LEMMA VouchedStays == ASSUME Taken, Next PROVE \A q : Vouched(q) => Vouched(q)'
  <1>1. /\ configured' = configured
        /\ \A q \in Payments : (Paid(q) => Paid(q)') /\ (Completed(q) => Completed(q)')
    BY PaidStays
  <1>2. \A q \in Payments : Accepted(q) => Accepted(q)'
    BY <1>1 DEF Accepted
  <1>3. QED
    BY <1>1, <1>2 DEF Vouched

\* The ledger after any step: rows of the right type, each success vouched for
\* by what was known before.
LEMMA LedgerNext ==
  ASSUME Taken, Next, NEW n \in Nat, ledger' \in Seq(Entry), Len(ledger') = n,
         \A i \in 1 .. n : ledger'[i].status = "SUCCESS" => \E q : q = ledger'[i].pay /\ Vouched(q),
         \A k \in Confirms : conf'[k].row \in 0 .. n
  PROVE  Ledger'
  <1>1. ASSUME NEW i \in 1 .. n, ledger'[i].status = "SUCCESS" PROVE Vouched(ledger[i].pay)'
    <2>1. PICK q : q = ledger'[i].pay /\ Vouched(q)
      BY <1>1
    <2>2. Vouched(q)'
      BY <2>1, VouchedStays
    <2>3. QED
      BY <2>1, <2>2 DEF Vouched, Accepted, Paid, Completed
  <1>2. QED
    BY <1>1 DEF Ledger

\* The ledger stays as it is, and confirmations go on with a row of it.
LEMMA LedgerKept ==
  ASSUME Ledger, Taken, Next, UNCHANGED ledger,
         \A k \in Confirms : conf'[k].row \in 0 .. Len(ledger)
  PROVE  Ledger'
  <1>1. Len(ledger) \in Nat /\ ledger' = ledger
    BY LenProperties DEF Ledger
  <1>2. \A i \in 1 .. Len(ledger) :
          ledger'[i].status = "SUCCESS" => \E q : q = ledger'[i].pay /\ Vouched(q)
    BY <1>1 DEF Ledger
  <1>3. QED
    BY <1>1, <1>2, LedgerNext DEF Ledger

\* A row is appended, as a failure or for a payment that is vouched for.
LEMMA LedgerAppend ==
  ASSUME Ledger, Taken, Next, NEW e \in Entry, ledger' = Append(ledger, e),
         e.status = "SUCCESS" => Vouched(e.pay),
         \A k \in Confirms : conf'[k].row \in 0 .. Len(ledger) + 1
  PROVE  Ledger'
  <1>1. /\ ledger' \in Seq(Entry) /\ Len(ledger') = Len(ledger) + 1 /\ Len(ledger) \in Nat
        /\ \A i \in 1 .. Len(ledger) : ledger'[i] = ledger[i]
        /\ ledger'[Len(ledger) + 1] = e
    BY AppendProperties, LenProperties DEF Ledger
  <1>2. ASSUME NEW i \in 1 .. Len(ledger) + 1, ledger'[i].status = "SUCCESS"
        PROVE  \E q : q = ledger'[i].pay /\ Vouched(q)
    <2>1. CASE i = Len(ledger) + 1
      BY <1>1, <1>2, <2>1
    <2>2. CASE i # Len(ledger) + 1
      <3>1. i \in 1 .. Len(ledger) /\ ledger'[i] = ledger[i]
        BY <1>1, <2>2
      <3>2. QED
        BY <1>2, <3>1 DEF Ledger
    <2>3. QED
      BY <2>1, <2>2
  <1>3. QED
    BY <1>1, <1>2, LedgerNext

\* A row is changed, to a failure, to a payment that is vouched for, or in what
\* it says of the employee.
LEMMA LedgerChange ==
  ASSUME Ledger, Taken, Next, NEW F, ledger' = F, F = [i \in 1 .. Len(ledger) |-> F[i]],
         \A i \in 1 .. Len(ledger) : F[i] \in Entry /\ (F[i].status = "SUCCESS" => Vouched(F[i].pay)),
         \A k \in Confirms : conf'[k].row \in 0 .. Len(ledger)
  PROVE  Ledger'
  <1>1. Len(ledger) \in Nat
    BY LenProperties DEF Ledger
  <1>2. F \in [1 .. Len(ledger) -> Entry]
    OBVIOUS
  <1>3. ledger' \in Seq(Entry)
    BY <1>1, <1>2, SeqDef
  <1>4. Len(ledger') = Len(ledger)
    <2>1. /\ DOMAIN ledger' = 1 .. Len(ledger) /\ DOMAIN ledger' = 1 .. Len(ledger')
          /\ Len(ledger') \in Nat
      BY <1>2, <1>3, LenProperties
    <2>2. QED
      BY <1>1, <2>1
  <1>5. \A i \in 1 .. Len(ledger) :
          ledger'[i].status = "SUCCESS" => \E q : q = ledger'[i].pay /\ Vouched(q)
    OBVIOUS
  <1>6. QED
    BY <1>1, <1>3, <1>4, <1>5, LedgerNext

\* A row that says SUCCESS is of a payment that is vouched for.
LEMMA LedgerStep == ASSUME Rows, Taken, NoStripe, Confirmed, Ledger, Next PROVE Ledger'
  <1>a. Len(ledger) \in Nat /\ \A k \in Confirms : conf[k].row \in 0 .. Len(ledger)
    BY LenProperties DEF Ledger, Confirmed, Progress
  <1>b. ASSUME UNCHANGED <<ledger, conf>> PROVE Ledger'
    BY <1>a, <1>b, LedgerKept
  <1>c. ASSUME NEW k \in Confirms, NEW pc \in ConfirmPC, To(k, pc) \/ Finish(k), UNCHANGED ledger
        PROVE  Ledger'
    <2>1. \A d \in Confirms : conf'[d].row \in 0 .. Len(ledger)
      BY <1>a, <1>c DEF To, Finish, NoConfirm, Confirmed, Progress
    <2>2. QED
      BY <1>c, <2>1, LedgerKept
  <1>e. \A p \in Charges : /\ p \in Payments /\ Direct(p[1]) \in Payments
                           /\ Charged(p) \in Payments \union {None}
                           /\ bill[p] = "record" => Vouched(Charged(p))
    BY Distinct DEF Charged, Taken, Vouched, Accepted
  <1>1. ASSUME NEW r \in Requests, CheckEmail(r) PROVE Ledger'
    BY <1>1, <1>b DEF CheckEmail, stripe
  <1>2. ASSUME NEW r \in Requests, Insert(r) PROVE Ledger'
    BY <1>2, <1>b DEF Insert, stripe
  <1>3. ASSUME NEW r \in Requests, Upload(r) PROVE Ledger'
    BY <1>3, <1>b DEF Upload, stripe
  <1>4. ASSUME NEW r \in Requests, Invite(r) PROVE Ledger'
    BY <1>4, <1>b DEF Invite, stripe
  <1>5. ASSUME NEW r \in Requests, GiveUp(r) PROVE Ledger'
    BY <1>5, <1>b DEF GiveUp, stripe
  <1>6. ASSUME NEW r \in Requests, DropEmployee(r) PROVE Ledger'
    BY <1>6, <1>b DEF DropEmployee, stripe
  <1>7. ASSUME NEW r \in Requests, DropUser(r) PROVE Ledger'
    BY <1>7, <1>b DEF DropUser, stripe
  <1>8. ASSUME NEW r \in Requests, Die(r) PROVE Ledger'
    BY <1>8, <1>b DEF Die, stripe
  <1>9. ASSUME NEW r \in Requests, PayCheckout(r) PROVE Ledger'
    BY <1>9, <1>b DEF PayCheckout, stripe
  <1>10. ASSUME NEW r \in Requests, Settle(r) PROVE Ledger'
    BY <1>10, <1>b DEF Settle, stripe
  <1>11. ASSUME NEW p \in Charges, Charge(p) PROVE Ledger'
    BY <1>11, <1>b DEF Charge, stripe
  <1>12. ASSUME NEW p \in Charges, Record(p) PROVE Ledger'
    <2>1. CASE UNCHANGED ledger
      BY <1>12, <1>b, <2>1 DEF Record
    <2>2. CASE bill[p] = "record" /\ ledger' = Append(ledger, [status |-> "SUCCESS", pay |-> Charged(p), emp |-> Direct(p[1])])
      <3>1. [status |-> "SUCCESS", pay |-> Charged(p), emp |-> Direct(p[1])] \in Entry
        BY <1>e DEF Entry
      <3>2. \A k \in Confirms : conf'[k].row \in 0 .. Len(ledger) + 1
        BY <1>12, <1>a DEF Record
      <3>3. QED
        BY <1>e, <2>2, <3>1, <3>2, LedgerAppend
    <2>3. QED
      BY <1>12, <2>1, <2>2 DEF Record
  <1>13. ASSUME NEW p \in Charges, RecordFailure(p) PROVE Ledger'
    <2>1. CASE UNCHANGED ledger
      BY <1>13, <1>b, <2>1 DEF RecordFailure
    <2>2. ASSUME NEW pay \in Payments \union {None}, ledger' = Append(ledger, [status |-> "FAILED", emp |-> Direct(p[1]), pay |-> pay])
          PROVE  Ledger'
      <3>1. [status |-> "FAILED", emp |-> Direct(p[1]), pay |-> pay] \in Entry
        BY <1>e DEF Entry
      <3>2. \A k \in Confirms : conf'[k].row \in 0 .. Len(ledger) + 1
        BY <1>13, <1>a DEF RecordFailure
      <3>3. QED
        BY <2>2, <3>1, <3>2, LedgerAppend
    <2>3. QED
      BY <1>13, <1>e, <2>1, <2>2 DEF RecordFailure
  <1>14. ASSUME NEW p \in Charges, HandleRefund(p) PROVE Ledger'
    <2>1. /\ ledger' = [i \in 1 .. Len(ledger) |-> IF ledger[i].pay = p THEN [ledger[i] EXCEPT !.status = "FAILED"] ELSE ledger[i]]
          /\ conf' = conf
      BY <1>14, LenProperties DEF HandleRefund, Ledger
    <2>2. ASSUME NEW i \in 1 .. Len(ledger)
          PROVE  /\ ledger'[i] \in Entry
                 /\ ledger'[i].status = "SUCCESS" => ledger'[i] = ledger[i]
      <3>1. ledger[i] \in Entry
        BY LenProperties DEF Ledger
      <3>2. QED
        BY <2>1, <3>1 DEF Entry
    <2>3. PICK F : F = ledger'
      OBVIOUS
    <2>4. F = [i \in 1 .. Len(ledger) |-> F[i]]
      BY <2>1, <2>3
    <2>5. \A i \in 1 .. Len(ledger) : F[i] \in Entry /\ (F[i].status = "SUCCESS" => Vouched(F[i].pay))
      BY <2>2, <2>3 DEF Ledger
    <2>6. \A k \in Confirms : conf'[k].row \in 0 .. Len(ledger)
      BY <1>a, <2>1
    <2>7. QED
      BY <2>3, <2>4, <2>5, <2>6, LedgerChange
  <1>15. ASSUME NEW p \in Payments, Refund(p) PROVE Ledger'
    BY <1>15, <1>b DEF Refund, stripe
  <1>16. ASSUME NEW k \in Confirms, FindRow(k) PROVE Ledger'
    <2>1. \A d \in Confirms : conf'[d].row \in 0 .. Len(ledger)
      BY <1>16, <1>a DEF FindRow, Confirmed, Progress
    <2>2. QED
      BY <1>16, <2>1, LedgerKept DEF FindRow
  <1>17. ASSUME NEW k \in Confirms, SaveRow(k) PROVE Ledger'
    <2>1. /\ conf[k].row \in 0 .. Len(ledger) /\ Len(ledger) \in Nat
          /\ conf[k].s \in Requests /\ Completed(Checkout(conf[k].s))
      BY <1>17, <1>a DEF SaveRow, Confirmed, At
    <2>2. PICK pay \in Payments : pay = Checkout(conf[k].s) /\ Vouched(pay)
      BY <2>1, Distinct DEF NoStripe, Vouched, Accepted, Completed
    <2>3. conf' = [conf EXCEPT ![k].pc = "check", ![k].row = IF conf[k].row = 0 THEN Len(ledger) + 1 ELSE conf[k].row]
      BY <1>17 DEF SaveRow
    <2>4. \A d \in Confirms : conf'[d].row = IF d # k THEN conf[d].row
                                        ELSE IF conf[k].row = 0 THEN Len(ledger) + 1 ELSE conf[k].row
      BY <2>3 DEF Confirmed, Progress
    <2>5. CASE conf[k].row = 0
      <3>1. ledger' = Append(ledger, [status |-> "SUCCESS", pay |-> pay, emp |-> None])
        BY <1>17, <2>2, <2>5 DEF SaveRow
      <3>2. [status |-> "SUCCESS", pay |-> pay, emp |-> None] \in Entry
        BY DEF Entry
      <3>3. \A d \in Confirms : conf'[d].row \in 0 .. Len(ledger) + 1
        BY <1>a, <2>1, <2>4, <2>5
      <3>4. QED
        BY <2>2, <3>1, <3>2, <3>3, LedgerAppend
    <2>6. CASE conf[k].row # 0
      <3>1. conf[k].row \in 1 .. Len(ledger) /\ ledger \in [1 .. Len(ledger) -> Entry]
        BY <2>1, <2>6, LenProperties DEF Ledger
      <3>2. PICK F : F = ledger'
        OBVIOUS
      <3>3. F = [ledger EXCEPT ![conf[k].row].status = "SUCCESS", ![conf[k].row].pay = pay]
        BY <1>17, <2>2, <2>6, <3>2 DEF SaveRow
      <3>4. F = [i \in 1 .. Len(ledger) |-> F[i]]
        BY <3>1, <3>3
      <3>5. /\ \A i \in 1 .. Len(ledger) : i # conf[k].row => F[i] = ledger[i]
            /\ F[conf[k].row] = [status |-> "SUCCESS", pay |-> pay, emp |-> ledger[conf[k].row].emp]
        BY <3>1, <3>3 DEF Entry
      <3>6. F[conf[k].row] \in Entry
        BY <3>1, <3>5 DEF Entry
      <3>7. \A i \in 1 .. Len(ledger) : F[i] \in Entry /\ (F[i].status = "SUCCESS" => Vouched(F[i].pay))
        BY <2>2, <3>1, <3>5, <3>6 DEF Ledger
      <3>8. \A d \in Confirms : conf'[d].row \in 0 .. Len(ledger)
        BY <1>a, <2>4, <2>6
      <3>9. QED
        BY <3>2, <3>4, <3>7, <3>8, LedgerChange
    <2>7. QED
      BY <2>5, <2>6
  <1>18. ASSUME NEW k \in Confirms, CreateCheck(k) PROVE Ledger'
    BY <1>18, <1>c DEF CreateCheck, Refused, Invalid, Abandon, ConfirmPC
  <1>19. ASSUME NEW k \in Confirms, CreateInsert(k) PROVE Ledger'
    BY <1>19, <1>c DEF CreateInsert, Refused, Invalid, Abandon, ConfirmPC
  <1>20. ASSUME NEW k \in Confirms, Link(k) PROVE Ledger'
    <2>1. CASE UNCHANGED ledger
      BY <1>20, <1>c, <2>1 DEF Link, ConfirmPC
    <2>2. CASE ledger' = [ledger EXCEPT ![conf[k].row].emp = Checkout(conf[k].s)]
      <3>1. ledger \in [1 .. Len(ledger) -> Entry] /\ Checkout(conf[k].s) \in Payments
        BY <1>20, LenProperties, Distinct DEF Link, Ledger, Confirmed, At
      <3>2. PICK F : F = ledger'
        OBVIOUS
      <3>3. F = [ledger EXCEPT ![conf[k].row].emp = Checkout(conf[k].s)]
        BY <2>2, <3>2
      <3>4. F = [i \in 1 .. Len(ledger) |-> F[i]]
        BY <3>1, <3>3
      <3>5. \A i \in 1 .. Len(ledger) :
              F[i] \in Entry /\ F[i].status = ledger[i].status /\ F[i].pay = ledger[i].pay
        BY <3>1, <3>3 DEF Entry
      <3>6. \A i \in 1 .. Len(ledger) : F[i].status = "SUCCESS" => Vouched(F[i].pay)
        BY <3>5 DEF Ledger
      <3>7. \A d \in Confirms : conf'[d].row \in 0 .. Len(ledger)
        BY <1>20, <1>a DEF Link, Finish, NoConfirm, Confirmed, Progress
      <3>8. QED
        BY <3>2, <3>4, <3>5, <3>6, <3>7, LedgerChange
    <2>3. QED
      BY <1>20, <2>1, <2>2 DEF Link
  <1>21. ASSUME NEW k \in Confirms, ConfirmFails(k) PROVE Ledger'
    BY <1>21, <1>c DEF ConfirmFails, Abandon, ConfirmPC
  <1>22. ASSUME NEW k \in Confirms, ConfirmDies(k) PROVE Ledger'
    BY <1>22, <1>c DEF ConfirmDies, ConfirmPC
  <1>23. ASSUME NEW k \in Confirms, NEW r \in Requests, Redirect(k, r) PROVE Ledger'
    <2>1. \A d \in Confirms : conf'[d].row \in 0 .. Len(ledger)
      BY <1>23, <1>a DEF Redirect, Start, Begin, Confirmed, Progress
    <2>2. QED
      BY <1>23, <2>1, LedgerKept DEF Redirect, Start, Begin
  <1>24. ASSUME NEW k \in Confirms, NEW r \in Requests, Deliver(k, r) PROVE Ledger'
    <2>1. \A d \in Confirms : conf'[d].row \in 0 .. Len(ledger)
      BY <1>24, <1>a DEF Deliver, Start, Begin, Confirmed, Progress
    <2>2. QED
      BY <1>24, <2>1, LedgerKept DEF Deliver, Start, Begin
  <1>25. QED
    BY <1>1, <1>2, <1>3, <1>4, <1>5, <1>6, <1>7, <1>8, <1>9, <1>10, <1>11, <1>12,
       <1>13, <1>14, <1>15, <1>16, <1>17, <1>18, <1>19, <1>20, <1>21, <1>22, <1>23, <1>24
       DEF Next, Create, Bill, Confirm

-----------------------------------------------------------------------------
(* Theorems *)

\* The first state.
LEMMA InitIInv == Init => IInv
  <1> SUFFICES ASSUME Init PROVE IInv
    OBVIOUS
  <1>1. Rows
    BY DEF Init, Rows
  <1>2. Taken /\ NoStripe
    BY Distinct DEF Init, Taken, NoStripe, MoneyStatus, BeforeCheckout, RequestPC, BillPC
  <1>3. Confirmed
    BY NamesAssumption, Distinct DEF Init, Confirmed, Progress, NoConfirm, ConfirmPC, At
  <1>4. Ledger
    <2>1. ledger \in Seq(Entry) /\ Len(ledger) = 0
      BY EmptySeq DEF Init
    <2>2. QED
      BY <2>1 DEF Init, Ledger, NoConfirm
  <1>5. Counts
    <2>1. redirects \in 0 .. MaxRedirects /\ refunds \in 0 .. MaxRefunds /\ faults \in 0 .. MaxFaults
      BY BoundsAssumption DEF Init
    <2>2. webhook \subseteq Requests /\ refunded \subseteq Charges /\ raced \in BOOLEAN /\ abandoned \subseteq Requests
      BY DEF Init
    <2>3. QED
      BY <2>1, <2>2 DEF Counts
  <1>6. QED
    BY <1>1, <1>2, <1>3, <1>4, <1>5 DEF IInv

\* Every step.
LEMMA NextIInv == IInv /\ [Next]_vars => IInv'
  <1> SUFFICES ASSUME IInv, [Next]_vars PROVE IInv'
    OBVIOUS
  <1>1. CASE Next
    <2>1. Rows /\ Taken /\ NoStripe /\ Confirmed /\ Ledger /\ Counts
      BY DEF IInv
    <2>2. Rows' /\ Taken' /\ NoStripe'
      BY <1>1, <2>1, RowsStep, TakenStep, NoStripeStep
    <2>3. Confirmed'
      BY <1>1, <2>1, ConfirmedStep
    <2>4. Ledger'
      BY <1>1, <2>1, LedgerStep
    <2>5. Counts'
      BY <1>1, <2>1, CountsStep
    <2>6. QED
      BY <2>2, <2>3, <2>4, <2>5 DEF IInv
  <1>2. CASE UNCHANGED vars
    <2>1. Rows' /\ Taken' /\ NoStripe' /\ Counts'
      BY <1>2 DEF vars, IInv, Rows, Taken, NoStripe, Paid, Counts
    <2>2. Confirmed' /\ Ledger'
      BY <1>2 DEF vars, IInv, Confirmed, At, Ledger, Completed, Vouched, Accepted, Paid
    <2>3. QED
      BY <2>1, <2>2 DEF IInv
  <1>3. QED
    BY <1>1, <1>2

\* The invariant is one.
LEMMA Invariant == Spec => []IInv
  BY InitIInv, NextIInv, PTL DEF Spec

\* Rows, payments and what each call remembers keep their types.
THEOREM BillingTypes == Spec => []TypeOK
  <1>1. IInv => TypeOK
    <2> SUFFICES ASSUME IInv PROVE TypeOK
      OBVIOUS
    <2>1. conf \in [Confirms -> [pc : ConfirmPC, s : Requests \union {None}, row : 0 .. Len(ledger)]]
      <3>1. Len(ledger) \in Nat
        BY LenProperties DEF IInv, Ledger
      <3>2. ASSUME NEW k \in Confirms
            PROVE  conf[k] \in [pc : ConfirmPC, s : Requests \union {None}, row : 0 .. Len(ledger)]
        BY <3>1 DEF IInv, Confirmed, Progress, Ledger
      <3>3. QED
        BY <3>2 DEF IInv, Confirmed
    <2>2. QED
      BY <2>1 DEF TypeOK, IInv, Rows, Taken, NoStripe, Ledger, Counts
  <1>2. QED
    BY <1>1, Invariant, PTL

\* An employee that stays was paid by the charge of its own request, or Stripe
\* is not configured, or the session whose confirmation created it is complete.
THEOREM EmployeesPaid == Spec => []NoEmployeeUnpaid
  <1>1. IInv => NoEmployeeUnpaid
    BY DEF IInv, Taken, Confirmed, NoEmployeeUnpaid
  <1>2. QED
    BY <1>1, Invariant, PTL

\* The ledger says SUCCESS of no card charge that did not succeed and of no
\* session that is not complete; without Stripe it names no payment at all.
THEOREM LedgerTrue == Spec => []SuccessWasPaid
  <1>1. IInv => SuccessWasPaid
    <2>1. ASSUME Ledger PROVE DOMAIN ledger = 1 .. Len(ledger)
      BY <2>1, LenProperties DEF Ledger
    <2>2. QED
      BY <2>1 DEF IInv, Ledger, SuccessWasPaid
  <1>2. QED
    BY <1>1, Invariant, PTL

-----------------------------------------------------------------------------
(* Every payment is recorded, while nothing is lost and confirmations come  *)
(* one at a time: each payment that was taken has its row of the ledger, or *)
(* the call that is about to write it, or the webhook that will.            *)

\* A session that is complete, and whose money was not given back.
Due(p) == money[p] \in {"pending", "paid", "failed"}

Says(L, p)  == \E i \in DOMAIN L : L[i].status = "SUCCESS" /\ L[i].pay = p
Recorded(p) == Says(ledger, p)

\* A charge starts once, and only what was given back is announced as that.
Fresh ==
  /\ \A r \in Requests : req[r] \in {"new", "insert", "upload"} => bill[Direct(r)] = "idle"
  /\ \A r \in Requests : req[r] # "done" => bill[Event(r)] = "idle"
  /\ \A p \in Charges : bill[p] \in {"idle", "charge"} => money[p] = "none"
  /\ \A p \in refunded : money[p] = "refunded"

Alone == \A j, k \in Confirms : Busy(j) /\ Busy(k) => j = k

\* The row that a confirmation is about to overwrite is still a failure.
InHand == \A k \in Confirms : At(k, "save") /\ conf[k].row # 0 => ledger[conf[k].row].status = "FAILED"

Saving(r) == \E k \in Confirms : conf[k].pc \in {"find", "save"} /\ conf[k].s = r

ChargesKept   == \A p \in Charges : money[p] = "paid" => bill[p] = "record" \/ Recorded(p)
CheckoutsKept == \A r \in Requests :
                   Due(Checkout(r)) => r \in webhook \/ Saving(r) \/ Recorded(Checkout(r))

Orderly == faults = 0 /\ ~raced => Alone /\ InHand /\ ChargesKept /\ CheckoutsKept

\* What a new row says, and what the others said before.
LEMMA SaysAppend ==
  ASSUME NEW L \in Seq(Entry), NEW e \in Entry
  PROVE  /\ \A p : Says(L, p) => Says(Append(L, e), p)
         /\ e.status = "SUCCESS" => Says(Append(L, e), e.pay)
         /\ \A i \in 1 .. Len(L) : Append(L, e)[i] = L[i]
  <1>1. /\ Append(L, e) \in Seq(Entry) /\ Len(Append(L, e)) = Len(L) + 1 /\ Len(L) \in Nat
        /\ \A i \in 1 .. Len(L) : Append(L, e)[i] = L[i]
        /\ Append(L, e)[Len(L) + 1] = e
    BY AppendProperties, LenProperties
  <1>2. DOMAIN L = 1 .. Len(L) /\ DOMAIN Append(L, e) = 1 .. Len(L) + 1
    BY <1>1, LenProperties
  <1>3. \A i \in 1 .. Len(L) : i \in 1 .. Len(L) + 1
    BY <1>1
  <1>4. Len(L) + 1 \in 1 .. Len(L) + 1
    BY <1>1
  <1>5. QED
    BY <1>1, <1>2, <1>3, <1>4 DEF Says

\* A failure that becomes a success takes no other success away.
LEMMA SaysSaved ==
  ASSUME NEW L, NEW M, NEW i \in DOMAIN L, NEW pay, DOMAIN M = DOMAIN L,
         L[i].status = "FAILED", M[i].status = "SUCCESS", M[i].pay = pay,
         \A j \in DOMAIN L : j # i => M[j] = L[j]
  PROVE  /\ \A p : Says(L, p) => Says(M, p)
         /\ Says(M, pay)
  BY DEF Says

\* Rows that say the same of each payment but one.
LEMMA SaysKept ==
  ASSUME NEW L, NEW M, NEW p, DOMAIN M = DOMAIN L,
         \A i \in DOMAIN L : L[i].pay # p => M[i].status = L[i].status /\ M[i].pay = L[i].pay
  PROVE  \A q : q # p /\ Says(L, q) => Says(M, q)
  BY DEF Says

\* What a step does to a confirmation and to no other.
LEMMA Takes ==
  ASSUME Confirmed, NEW k \in Confirms, NEW pc \in ConfirmPC, NEW row \in Nat,
         conf' = [conf EXCEPT ![k].pc = pc, ![k].row = row]
  PROVE  /\ conf' \in [Confirms -> Progress] /\ \A d \in Confirms : d # k => conf'[d] = conf[d]
         /\ conf'[k].pc = pc /\ conf'[k].s = conf[k].s /\ conf'[k].row = row
  BY DEF Confirmed, Progress

\* The payments of two requests are different ones.
LEMMA Kinds ==
  ASSUME NEW r \in Requests, NEW q \in Requests
  PROVE  /\ Direct(r) = Direct(q) => r = q
         /\ Event(r) = Event(q) => r = q
         /\ Direct(r) # Event(q)
         /\ Direct(r) # Checkout(q) /\ Event(r) # Checkout(q)
  BY DEF Direct, Event, Checkout

\* A charge starts once.
LEMMA FreshStep == ASSUME Taken, Counts, Fresh, Next PROVE Fresh'
  <1> USE DEF Fresh, Taken, Counts, RequestPC, BillPC
  <1>1. ASSUME NEW r \in Requests, CheckEmail(r) PROVE Fresh'
    BY <1>1, Distinct DEF CheckEmail, Go, stripe, rest
  <1>2. ASSUME NEW r \in Requests, Insert(r) PROVE Fresh'
    BY <1>2, Distinct DEF Insert, Go, stripe, rest
  <1>3. ASSUME NEW r \in Requests, Upload(r) PROVE Fresh'
    BY <1>3, Distinct, Kinds, SMTT(30) DEF Upload, Go, stripe, rest
  <1>4. ASSUME NEW r \in Requests, Invite(r) PROVE Fresh'
    BY <1>4, Distinct, Kinds, SMTT(30) DEF Invite, Go, stripe, rest
  <1>5. ASSUME NEW r \in Requests, GiveUp(r) PROVE Fresh'
    BY <1>5, Distinct, Kinds, SMTT(30) DEF GiveUp, Go, stripe, rest
  <1>6. ASSUME NEW r \in Requests, DropEmployee(r) PROVE Fresh'
    BY <1>6, Distinct DEF DropEmployee, Go, stripe, rest
  <1>7. ASSUME NEW r \in Requests, DropUser(r) PROVE Fresh'
    BY <1>7, Distinct DEF DropUser, Go, stripe, rest
  <1>8. ASSUME NEW r \in Requests, Die(r) PROVE Fresh'
    BY <1>8, Distinct, Kinds, SMTT(30) DEF Die, Go, stripe, rest, InProgress, Billing
  <1>9. ASSUME NEW r \in Requests, PayCheckout(r) PROVE Fresh'
    BY <1>9, Distinct, Kinds, SMTT(30) DEF PayCheckout, Go, stripe, rest
  <1>10. ASSUME NEW r \in Requests, Settle(r) PROVE Fresh'
    BY <1>10, Distinct, Kinds, SMTT(30) DEF Settle, Go, stripe, rest
  <1>11. ASSUME NEW p \in Charges, Charge(p) PROVE Fresh'
    <2>1. /\ UNCHANGED <<req, refunded>> /\ bill[p] = "charge"
          /\ \A q \in Charges : q # p => bill'[q] = bill[q] /\ money'[q] = money[q]
          /\ bill'[p] \notin {"idle", "charge"}
      BY <1>11, Distinct DEF Charge
    <2>2. \A q \in Charges : bill'[q] = "idle" <=> bill[q] = "idle"
      BY <2>1
    <2>3. \A q \in refunded : q # p
      BY <2>1
    <2>4. QED
      BY <2>1, <2>2, <2>3, Distinct
  <1>12. ASSUME NEW p \in Charges, Record(p) PROVE Fresh'
    BY <1>12, Distinct DEF Record, Go, stripe, rest
  <1>13. ASSUME NEW p \in Charges, RecordFailure(p) PROVE Fresh'
    BY <1>13, Distinct DEF RecordFailure, Go, stripe, rest
  <1>14. ASSUME NEW p \in Charges, HandleRefund(p) PROVE Fresh'
    BY <1>14, Distinct DEF HandleRefund, Go, stripe, rest
  <1>15. ASSUME NEW p \in Payments, Refund(p) PROVE Fresh'
    BY <1>15, Distinct, Kinds, SMTT(30) DEF Refund, Go, stripe, rest
  <1>16. ASSUME NEW k \in Confirms, FindRow(k) PROVE Fresh'
    BY <1>16, Distinct DEF FindRow, Go, stripe, rest
  <1>17. ASSUME NEW k \in Confirms, SaveRow(k) PROVE Fresh'
    BY <1>17, Distinct DEF SaveRow, Go, stripe, rest
  <1>18. ASSUME NEW k \in Confirms, CreateCheck(k) PROVE Fresh'
    BY <1>18, Distinct DEF CreateCheck, Refused, Invalid, Abandon, Finish, Go, stripe, rest
  <1>19. ASSUME NEW k \in Confirms, CreateInsert(k) PROVE Fresh'
    BY <1>19, Distinct DEF CreateInsert, Refused, Invalid, Abandon, Finish, Go, stripe, rest
  <1>20. ASSUME NEW k \in Confirms, Link(k) PROVE Fresh'
    BY <1>20, Distinct DEF Link, Finish, Go, stripe, rest
  <1>21. ASSUME NEW k \in Confirms, ConfirmFails(k) PROVE Fresh'
    BY <1>21, Distinct DEF ConfirmFails, Abandon, Finish, Go, stripe, rest
  <1>22. ASSUME NEW k \in Confirms, ConfirmDies(k) PROVE Fresh'
    BY <1>22, Distinct DEF ConfirmDies, Finish, Go, stripe, rest
  <1>23. ASSUME NEW k \in Confirms, NEW r \in Requests, Redirect(k, r) PROVE Fresh'
    BY <1>23, Distinct DEF Redirect, Start, Begin, Go, stripe, rest
  <1>24. ASSUME NEW k \in Confirms, NEW r \in Requests, Deliver(k, r) PROVE Fresh'
    BY <1>24, Distinct DEF Deliver, Start, Begin, Go, stripe, rest
  <1>25. QED
    BY <1>1, <1>2, <1>3, <1>4, <1>5, <1>6, <1>7, <1>8, <1>9, <1>10, <1>11, <1>12,
       <1>13, <1>14, <1>15, <1>16, <1>17, <1>18, <1>19, <1>20, <1>21, <1>22, <1>23, <1>24
       DEF Next, Create, Bill, Confirm

\* A fault and a race are not forgotten.
LEMMA NotForgotten == ASSUME Counts, Next, faults' = 0 /\ ~raced' PROVE faults = 0 /\ ~raced
  <1> USE DEF Counts
  <1>1. ASSUME NEW r \in Requests, CheckEmail(r) PROVE faults = 0 /\ ~raced
    BY <1>1 DEF CheckEmail, rest, Fault
  <1>2. ASSUME NEW r \in Requests, Insert(r) PROVE faults = 0 /\ ~raced
    BY <1>2 DEF Insert, rest, Fault
  <1>3. ASSUME NEW r \in Requests, Upload(r) PROVE faults = 0 /\ ~raced
    BY <1>3 DEF Upload, rest, Fault
  <1>4. ASSUME NEW r \in Requests, Invite(r) PROVE faults = 0 /\ ~raced
    BY <1>4 DEF Invite, rest, Fault
  <1>5. ASSUME NEW r \in Requests, GiveUp(r) PROVE faults = 0 /\ ~raced
    BY <1>5 DEF GiveUp, rest, Fault
  <1>6. ASSUME NEW r \in Requests, DropEmployee(r) PROVE faults = 0 /\ ~raced
    BY <1>6 DEF DropEmployee, rest, Fault
  <1>7. ASSUME NEW r \in Requests, DropUser(r) PROVE faults = 0 /\ ~raced
    BY <1>7 DEF DropUser, rest, Fault
  <1>8. ASSUME NEW r \in Requests, Die(r) PROVE faults = 0 /\ ~raced
    BY <1>8 DEF Die, rest, Fault
  <1>9. ASSUME NEW r \in Requests, PayCheckout(r) PROVE faults = 0 /\ ~raced
    BY <1>9 DEF PayCheckout, rest, Fault
  <1>10. ASSUME NEW r \in Requests, Settle(r) PROVE faults = 0 /\ ~raced
    BY <1>10 DEF Settle, rest, Fault
  <1>11. ASSUME NEW p \in Charges, Charge(p) PROVE faults = 0 /\ ~raced
    BY <1>11 DEF Charge, rest, Fault
  <1>12. ASSUME NEW p \in Charges, Record(p) PROVE faults = 0 /\ ~raced
    BY <1>12 DEF Record, rest, Fault
  <1>13. ASSUME NEW p \in Charges, RecordFailure(p) PROVE faults = 0 /\ ~raced
    BY <1>13 DEF RecordFailure, rest, Fault
  <1>14. ASSUME NEW p \in Charges, HandleRefund(p) PROVE faults = 0 /\ ~raced
    BY <1>14 DEF HandleRefund, rest, Fault
  <1>15. ASSUME NEW p \in Payments, Refund(p) PROVE faults = 0 /\ ~raced
    BY <1>15 DEF Refund, rest, Fault
  <1>16. ASSUME NEW k \in Confirms, FindRow(k) PROVE faults = 0 /\ ~raced
    BY <1>16 DEF FindRow, rest, Fault
  <1>17. ASSUME NEW k \in Confirms, SaveRow(k) PROVE faults = 0 /\ ~raced
    BY <1>17 DEF SaveRow, rest, Fault
  <1>18. ASSUME NEW k \in Confirms, CreateCheck(k) PROVE faults = 0 /\ ~raced
    BY <1>18 DEF CreateCheck, Refused, Invalid, Abandon, Finish, rest, Fault
  <1>19. ASSUME NEW k \in Confirms, CreateInsert(k) PROVE faults = 0 /\ ~raced
    BY <1>19 DEF CreateInsert, Refused, Invalid, Abandon, Finish, rest, Fault
  <1>20. ASSUME NEW k \in Confirms, Link(k) PROVE faults = 0 /\ ~raced
    BY <1>20 DEF Link, Finish, rest, Fault
  <1>21. ASSUME NEW k \in Confirms, ConfirmFails(k) PROVE faults = 0 /\ ~raced
    BY <1>21 DEF ConfirmFails, Abandon, Finish, rest, Fault
  <1>22. ASSUME NEW k \in Confirms, ConfirmDies(k) PROVE faults = 0 /\ ~raced
    BY <1>22 DEF ConfirmDies, Finish, rest, Fault
  <1>23. ASSUME NEW k \in Confirms, NEW r \in Requests, Redirect(k, r) PROVE faults = 0 /\ ~raced
    BY <1>23 DEF Redirect, Start, Begin, rest, Fault
  <1>24. ASSUME NEW k \in Confirms, NEW r \in Requests, Deliver(k, r) PROVE faults = 0 /\ ~raced
    BY <1>24 DEF Deliver, Start, Begin, rest, Fault
  <1>25. QED
    BY <1>1, <1>2, <1>3, <1>4, <1>5, <1>6, <1>7, <1>8, <1>9, <1>10, <1>11, <1>12,
       <1>13, <1>14, <1>15, <1>16, <1>17, <1>18, <1>19, <1>20, <1>21, <1>22, <1>23, <1>24
       DEF Next, Create, Bill, Confirm

\* What matters to an orderly ledger, when neither it nor a confirmation moves.
LEMMA Unmoved ==
  ASSUME UNCHANGED <<conf, ledger>>
  PROVE  /\ Alone => Alone'
         /\ InHand => InHand'
         /\ \A r \in Requests : Saving(r)' <=> Saving(r)
         /\ \A p \in Payments : Recorded(p)' <=> Recorded(p)
  BY DEF Alone, Busy, InHand, At, Saving, Recorded, Says

\* The same when rows are added or become failures.
LEMMA LedgerMoves ==
  ASSUME Ledger, Confirmed, UNCHANGED conf,
         \A i \in 1 .. Len(ledger) : ledger[i].status = "FAILED" => ledger'[i].status = "FAILED"
  PROVE  /\ Alone => Alone'
         /\ InHand => InHand'
         /\ \A r \in Requests : Saving(r)' <=> Saving(r)
  <1>1. \A k \in Confirms : conf[k].row # 0 => conf[k].row \in 1 .. Len(ledger)
    BY LenProperties DEF Ledger, Confirmed, Progress
  <1>2. QED
    BY <1>1 DEF Alone, Busy, InHand, At, Saving

\* The steps of a confirmation that is alone.
LEMMA ConfirmMoves ==
  ASSUME Confirmed, Alone, NEW k \in Confirms, Busy(k),
         conf' \in [Confirms -> Progress], \A d \in Confirms : d # k => conf'[d] = conf[d]
  PROVE  /\ Alone'
         /\ \A d \in Confirms : d # k => ~Busy(d) /\ ~Busy(d)' /\ ~At(d, "save") /\ ~At(d, "save")'
  BY DEF Alone, Busy, At

\* While nothing is lost and confirmations come one at a time, each payment is
\* recorded or about to be.
LEMMA OrderlyStep == ASSUME Taken, NoStripe, Confirmed, Ledger, Counts, Fresh, Orderly, Next PROVE Orderly'
  <1> SUFFICES ASSUME faults' = 0, ~raced' PROVE Alone' /\ InHand' /\ ChargesKept' /\ CheckoutsKept'
    BY DEF Orderly
  <1>z. /\ faults = 0 /\ ~raced
        /\ Alone /\ InHand /\ ChargesKept /\ CheckoutsKept
    BY NotForgotten DEF Orderly
  <1>l. /\ Len(ledger) \in Nat /\ DOMAIN ledger = 1 .. Len(ledger) /\ ledger \in Seq(Entry)
        /\ \A r \in Requests : Checkout(r) \in Payments
        /\ \A r, q \in Requests : Checkout(r) = Checkout(q) => r = q
        /\ Charges \subseteq Payments
    BY LenProperties, Distinct DEF Ledger
  <1>f. ~Fault
    BY <1>z DEF Fault
  <1>k. ASSUME UNCHANGED <<money, bill, ledger, conf, webhook>>
        PROVE  Alone' /\ InHand' /\ ChargesKept' /\ CheckoutsKept'
    BY <1>k, <1>z, <1>l, Unmoved DEF ChargesKept, CheckoutsKept, Due
  <1>1. ASSUME NEW r \in Requests, CheckEmail(r) \/ Insert(r) \/ DropEmployee(r) \/ DropUser(r)
        PROVE  Alone' /\ InHand' /\ ChargesKept' /\ CheckoutsKept'
    BY <1>1, <1>k DEF CheckEmail, Insert, DropEmployee, DropUser, stripe
  <1>2. ASSUME NEW r \in Requests, Upload(r) PROVE Alone' /\ InHand' /\ ChargesKept' /\ CheckoutsKept'
    <2>1. /\ bill[Direct(r)] = "idle"
          /\ \A p \in Charges : bill[p] # "idle" => bill'[p] = bill[p]
          /\ UNCHANGED <<money, ledger, conf, webhook>>
      BY <1>2, Distinct DEF Upload, Fresh, Taken, stripe
    <2>2. ChargesKept'
      BY <1>z, <1>l, <2>1, Unmoved DEF ChargesKept
    <2>3. CheckoutsKept'
      BY <1>z, <1>l, <2>1, Unmoved DEF CheckoutsKept, Due, Checkout
    <2>4. QED
      BY <1>z, <2>1, <2>2, <2>3, Unmoved
  <1>3. ASSUME NEW r \in Requests, Invite(r) PROVE Alone' /\ InHand' /\ ChargesKept' /\ CheckoutsKept'
    <2>1. /\ bill[Event(r)] = "idle"
          /\ \A p \in Charges : bill[p] # "idle" => bill'[p] = bill[p]
          /\ UNCHANGED <<money, ledger, conf, webhook>>
      BY <1>3, Distinct DEF Invite, Fresh, Taken, stripe
    <2>2. ChargesKept'
      BY <1>z, <1>l, <2>1, Unmoved DEF ChargesKept
    <2>3. CheckoutsKept'
      BY <1>z, <1>l, <2>1, Unmoved DEF CheckoutsKept, Due, Checkout
    <2>4. QED
      BY <1>z, <2>1, <2>2, <2>3, Unmoved
  <1>4. ASSUME NEW r \in Requests, GiveUp(r) PROVE Alone' /\ InHand' /\ ChargesKept' /\ CheckoutsKept'
    <2>1. /\ \A p \in Payments : money'[p] # "open" => money'[p] = money[p]
          /\ UNCHANGED <<bill, ledger, conf, webhook>>
      BY <1>4, <1>l DEF GiveUp, Taken
    <2>2. ChargesKept'
      BY <1>z, <1>l, <2>1, Unmoved DEF ChargesKept
    <2>3. CheckoutsKept'
      <3>1. ASSUME NEW q \in Requests, Due(Checkout(q))'
            PROVE  q \in webhook \/ Saving(q) \/ Recorded(Checkout(q))
        BY <1>z, <1>l, <2>1, <3>1 DEF CheckoutsKept, Due, Checkout
      <3>2. ASSUME NEW q \in Requests, Due(Checkout(q))'
            PROVE  q \in webhook' \/ Saving(q)' \/ Recorded(Checkout(q))'
        BY <1>l, <2>1, <3>1, <3>2, Unmoved
      <3>3. QED
        BY <3>2 DEF CheckoutsKept, Checkout, Due
    <2>4. QED
      BY <1>z, <2>1, <2>2, <2>3, Unmoved
  <1>5. ASSUME NEW r \in Requests, Die(r) PROVE FALSE
    BY <1>5, <1>f DEF Die
  <1>6. ASSUME NEW r \in Requests, PayCheckout(r) PROVE Alone' /\ InHand' /\ ChargesKept' /\ CheckoutsKept'
    <2>1. /\ \A p \in Charges : money'[p] = money[p]
          /\ \A q \in Requests : q # r => money'[Checkout(q)] = money[Checkout(q)]
          /\ webhook' = webhook \union {r}
          /\ UNCHANGED <<bill, ledger, conf>>
      BY <1>6, <1>l, Distinct, SMTT(30) DEF PayCheckout, Taken
    <2>2. ChargesKept'
      BY <1>z, <1>l, <2>1, Unmoved DEF ChargesKept
    <2>3. CheckoutsKept'
      BY <1>z, <1>l, <2>1, Unmoved DEF CheckoutsKept, Due, Checkout
    <2>4. QED
      BY <1>z, <2>1, <2>2, <2>3, Unmoved
  <1>6s. ASSUME NEW r \in Requests, Settle(r) PROVE Alone' /\ InHand' /\ ChargesKept' /\ CheckoutsKept'
    <2>1. /\ \A p \in Charges : money'[p] = money[p]
          /\ \A q \in Requests : q # r => money'[Checkout(q)] = money[Checkout(q)]
          /\ money[Checkout(r)] = "pending"
          /\ UNCHANGED <<bill, ledger, conf, webhook>>
      BY <1>6s, <1>l, Distinct, SMTT(30) DEF Settle, Taken
    <2>2. ChargesKept'
      BY <1>z, <1>l, <2>1, Unmoved DEF ChargesKept
    <2>3. CheckoutsKept'
      <3>1. \A q \in Requests : Due(Checkout(q))' => Due(Checkout(q))
        BY <2>1 DEF Due, Checkout
      <3>2. QED
        BY <1>z, <1>l, <2>1, <3>1, Unmoved DEF CheckoutsKept, Checkout, Due
    <2>4. QED
      BY <1>z, <2>1, <2>2, <2>3, Unmoved
  <1>7. ASSUME NEW p \in Charges, Charge(p) PROVE Alone' /\ InHand' /\ ChargesKept' /\ CheckoutsKept'
    <2>1. /\ \A q \in Charges : q # p => money'[q] = money[q] /\ bill'[q] = bill[q]
          /\ \A q \in Requests : money'[Checkout(q)] = money[Checkout(q)]
          /\ money[p] = "none"
          /\ (money'[p] = "paid" => bill'[p] = "record")
          /\ UNCHANGED <<webhook, ledger, conf>>
      BY <1>7, <1>l, <1>f, Distinct DEF Charge, Taken, Fresh
    <2>2. ChargesKept'
      BY <1>z, <1>l, <2>1, Unmoved DEF ChargesKept
    <2>3. CheckoutsKept'
      BY <1>z, <1>l, <2>1, Unmoved DEF CheckoutsKept, Due, Checkout
    <2>4. QED
      BY <1>z, <2>1, <2>2, <2>3, Unmoved
  <1>8. ASSUME NEW p \in Charges, Record(p) PROVE Alone' /\ InHand' /\ ChargesKept' /\ CheckoutsKept'
    <2> DEFINE e == [status |-> "SUCCESS", pay |-> Charged(p), emp |-> Direct(p[1])]
    <2>1. /\ ledger' = Append(ledger, e) /\ e \in Entry
          /\ \A q \in Charges : q # p => bill'[q] = bill[q]
          /\ UNCHANGED <<money, webhook, conf>>
      BY <1>8, <1>l, <1>f, Distinct DEF Record, Charged, Taken, stripe, Entry
    <2>2. /\ \A q : Recorded(q) => Says(ledger', q)
          /\ Says(ledger', Charged(p))
          /\ \A i \in 1 .. Len(ledger) : ledger'[i] = ledger[i]
      BY <1>l, <2>1, SaysAppend DEF Recorded
    <2>3. Alone' /\ InHand' /\ \A q \in Requests : Saving(q)' <=> Saving(q)
      BY <1>z, <2>1, <2>2, LedgerMoves
    <2>4. ChargesKept'
      <3>1. money[p] = "paid" => Charged(p) = p
        BY <1>l DEF NoStripe, Charged
      <3>2. QED
        BY <1>z, <1>l, <2>1, <2>2, <3>1 DEF ChargesKept, Recorded
    <2>5. CheckoutsKept'
      BY <1>z, <1>l, <2>1, <2>2, <2>3 DEF CheckoutsKept, Recorded, Checkout, Due
    <2>6. QED
      BY <2>3, <2>4, <2>5
  <1>9. ASSUME NEW p \in Charges, RecordFailure(p) PROVE Alone' /\ InHand' /\ ChargesKept' /\ CheckoutsKept'
    <2>1. /\ bill[p] # "record"
          /\ \A q \in Charges : bill[q] = "record" => bill'[q] = "record"
          /\ UNCHANGED <<money, webhook, conf>>
      BY <1>9 DEF RecordFailure, Taken, stripe
    <2>2. /\ \A q : Recorded(q) => Says(ledger', q)
          /\ \A i \in 1 .. Len(ledger) : ledger'[i] = ledger[i]
      <3>1. CASE UNCHANGED ledger
        BY <3>1 DEF Recorded
      <3>2. ASSUME NEW pay \in Payments \union {None}, ledger' = Append(ledger, [status |-> "FAILED", emp |-> Direct(p[1]), pay |-> pay])
            PROVE  /\ \A q : Recorded(q) => Says(ledger', q)
                   /\ \A i \in 1 .. Len(ledger) : ledger'[i] = ledger[i]
        <4>1. [status |-> "FAILED", emp |-> Direct(p[1]), pay |-> pay] \in Entry
          BY Distinct DEF Entry
        <4>2. QED
          BY <1>l, <3>2, <4>1, SaysAppend DEF Recorded
      <3>3. Charged(p) \in Payments \union {None}
        BY <1>l DEF Charged
      <3>4. QED
        BY <1>9, <3>1, <3>2, <3>3 DEF RecordFailure
    <2>3. Alone' /\ InHand' /\ \A q \in Requests : Saving(q)' <=> Saving(q)
      BY <1>z, <2>1, <2>2, LedgerMoves
    <2>4. ChargesKept'
      BY <1>z, <1>l, <2>1, <2>2 DEF ChargesKept, Recorded
    <2>5. CheckoutsKept'
      BY <1>z, <1>l, <2>1, <2>2, <2>3 DEF CheckoutsKept, Recorded, Checkout, Due
    <2>6. QED
      BY <2>3, <2>4, <2>5
  <1>10. ASSUME NEW p \in Charges, HandleRefund(p) PROVE Alone' /\ InHand' /\ ChargesKept' /\ CheckoutsKept'
    <2>1. /\ ledger' = [i \in DOMAIN ledger |-> IF ledger[i].pay = p THEN [ledger[i] EXCEPT !.status = "FAILED"] ELSE ledger[i]]
          /\ money[p] = "refunded"
          /\ UNCHANGED <<money, bill, webhook, conf>>
      BY <1>10 DEF HandleRefund, Fresh
    <2>2. /\ \A q : q # p /\ Recorded(q) => Says(ledger', q)
          /\ \A i \in 1 .. Len(ledger) : ledger[i].status = "FAILED" => ledger'[i].status = "FAILED"
      <3>1. /\ DOMAIN ledger' = DOMAIN ledger
            /\ \A i \in DOMAIN ledger : ledger[i].pay # p => ledger'[i] = ledger[i]
        BY <2>1
      <3>2. \A i \in DOMAIN ledger : ledger[i].pay = p => ledger'[i].status = "FAILED"
        <4>1. \A i \in DOMAIN ledger : ledger[i] \in Entry
          BY <1>l
        <4>2. QED
          BY <2>1, <4>1 DEF Entry
      <3>3. \A q : q # p /\ Says(ledger, q) => Says(ledger', q)
        BY <3>1, SaysKept
      <3>4. QED
        BY <1>l, <3>1, <3>2, <3>3 DEF Recorded
    <2>3. Alone' /\ InHand' /\ \A q \in Requests : Saving(q)' <=> Saving(q)
      BY <1>z, <2>1, <2>2, LedgerMoves
    <2>4. ChargesKept'
      BY <1>z, <1>l, <2>1, <2>2 DEF ChargesKept, Recorded
    <2>5. CheckoutsKept'
      BY <1>z, <1>l, <2>1, <2>2, <2>3 DEF CheckoutsKept, Recorded, Checkout, Due
    <2>6. QED
      BY <2>3, <2>4, <2>5
  <1>11. ASSUME NEW p \in Payments, Refund(p) PROVE Alone' /\ InHand' /\ ChargesKept' /\ CheckoutsKept'
    <2>1. /\ \A q \in Payments : money'[q] # "refunded" => money'[q] = money[q]
          /\ UNCHANGED <<bill, ledger, conf, webhook>>
      BY <1>11 DEF Refund, Taken
    <2>2. ChargesKept'
      BY <1>z, <1>l, <2>1, Unmoved DEF ChargesKept
    <2>3. CheckoutsKept'
      <3>1. ASSUME NEW q \in Requests, Due(Checkout(q))'
            PROVE  q \in webhook \/ Saving(q) \/ Recorded(Checkout(q))
        BY <1>z, <1>l, <2>1, <3>1 DEF CheckoutsKept, Due, Checkout
      <3>2. ASSUME NEW q \in Requests, Due(Checkout(q))'
            PROVE  q \in webhook' \/ Saving(q)' \/ Recorded(Checkout(q))'
        BY <1>l, <2>1, <3>1, <3>2, Unmoved
      <3>3. QED
        BY <3>2 DEF CheckoutsKept, Checkout, Due
    <2>4. QED
      BY <1>z, <2>1, <2>2, <2>3, Unmoved
  <1>12. ASSUME NEW k \in Confirms, FindRow(k) PROVE Alone' /\ InHand' /\ ChargesKept' /\ CheckoutsKept'
    <2>1. PICK i \in 0 .. Len(ledger) :
            /\ i # 0 => ledger[i].status = "FAILED"
            /\ conf' = [conf EXCEPT ![k].pc = "save", ![k].row = i]
      BY <1>12 DEF FindRow
    <2>2. /\ conf' \in [Confirms -> Progress] /\ \A d \in Confirms : d # k => conf'[d] = conf[d]
          /\ conf'[k].pc = "save" /\ conf'[k].s = conf[k].s /\ conf'[k].row = i
      <3>1. i \in Nat /\ "save" \in ConfirmPC
        BY <1>l DEF ConfirmPC
      <3>2. conf' = [conf EXCEPT ![k].pc = "save", ![k].row = i]
        BY <2>1
      <3>3. QED
        BY <3>1, <3>2 DEF Confirmed, Progress
    <2>3. /\ Busy(k) /\ At(k, "find")
          /\ UNCHANGED <<money, bill, ledger, webhook>>
      BY <1>12 DEF FindRow, At, Busy, stripe
    <2>4. Alone' /\ \A d \in Confirms : d # k => ~Busy(d) /\ ~Busy(d)' /\ ~At(d, "save") /\ ~At(d, "save")'
      BY <1>z, <2>2, <2>3, ConfirmMoves
    <2>5. InHand'
      BY <2>1, <2>2, <2>3, <2>4 DEF InHand, At
    <2>6. \A q \in Requests : Saving(q) => Saving(q)'
      BY <2>2, <2>3 DEF Saving, At
    <2>7. ChargesKept'
      BY <1>z, <2>3 DEF ChargesKept, Recorded
    <2>8. CheckoutsKept'
      BY <1>z, <2>3, <2>6 DEF CheckoutsKept, Recorded, Due
    <2>9. QED
      BY <2>4, <2>5, <2>7, <2>8
  <1>13. ASSUME NEW k \in Confirms, SaveRow(k) PROVE Alone' /\ InHand' /\ ChargesKept' /\ CheckoutsKept'
    <2>1. PICK row \in 0 .. Len(ledger), s \in Requests : row = conf[k].row /\ s = conf[k].s
      BY <1>13, <1>l DEF SaveRow, At, Confirmed, Progress, Ledger
    <2>2. /\ conf' \in [Confirms -> Progress] /\ \A d \in Confirms : d # k => conf'[d] = conf[d]
          /\ conf'[k].pc = "check"
      <3>1. /\ (IF row = 0 THEN Len(ledger) + 1 ELSE row) \in Nat
            /\ "check" \in ConfirmPC
        BY <1>l DEF ConfirmPC
      <3>2. conf' = [conf EXCEPT ![k].pc = "check", ![k].row = IF row = 0 THEN Len(ledger) + 1 ELSE row]
        BY <1>13, <2>1 DEF SaveRow
      <3>3. QED
        BY <3>1, <3>2, Takes
    <2>3. /\ Busy(k) /\ At(k, "save")
          /\ UNCHANGED <<money, bill, webhook>>
      BY <1>13 DEF SaveRow, At, Busy, stripe
    <2>4. Alone' /\ \A d \in Confirms : d # k => ~Busy(d) /\ ~Busy(d)' /\ ~At(d, "save") /\ ~At(d, "save")'
      BY <1>z, <2>2, <2>3, ConfirmMoves
    <2>5. InHand'
      BY <2>2, <2>4 DEF InHand, At
    <2>6. /\ \A q : Recorded(q) => Says(ledger', q)
          /\ Says(ledger', Checkout(s))
      <3>1. CASE row = 0
        <4>1. [status |-> "SUCCESS", pay |-> Checkout(s), emp |-> None] \in Entry
          BY <1>l DEF Entry
        <4>2. ledger' = Append(ledger, [status |-> "SUCCESS", pay |-> Checkout(s), emp |-> None])
          BY <1>13, <2>1, <3>1 DEF SaveRow
        <4>3. QED
          BY <1>l, <4>1, <4>2, SaysAppend DEF Recorded
      <3>2. CASE row # 0
        <4>1. ledger' = [ledger EXCEPT ![row].status = "SUCCESS", ![row].pay = Checkout(s)]
          BY <1>13, <2>1, <3>2 DEF SaveRow
        <4>2. row \in 1 .. Len(ledger) /\ ledger[row].status = "FAILED"
          BY <1>l, <1>z, <2>1, <2>3, <3>2 DEF InHand
        <4>3. QED
          <5>1. /\ row \in DOMAIN ledger /\ ledger[row] \in Entry
                /\ DOMAIN ledger' = DOMAIN ledger
                /\ \A j \in DOMAIN ledger : j # row => ledger'[j] = ledger[j]
            BY <1>l, <4>1, <4>2
          <5>2. ledger'[row].status = "SUCCESS" /\ ledger'[row].pay = Checkout(s)
            BY <4>1, <5>1 DEF Entry
          <5>3. QED
            BY <4>2, <5>1, <5>2, SaysSaved DEF Recorded
      <3>3. QED
        BY <3>1, <3>2
    <2>7. ChargesKept'
      BY <1>z, <2>3, <2>6 DEF ChargesKept, Recorded
    <2>8. \A q \in Requests : Saving(q) => q = s
      BY <2>1, <2>4 DEF Saving, Busy, At
    <2>9. CheckoutsKept'
      BY <1>z, <2>3, <2>6, <2>8 DEF CheckoutsKept, Recorded, Checkout, Due
    <2>10. QED
      BY <2>4, <2>5, <2>7, <2>9
  <1>b. ASSUME NEW k \in Confirms, NEW pc \in ConfirmPC \ {"find", "save"}, To(k, pc) \/ Finish(k), Busy(k),
               ~At(k, "find"), ~At(k, "save"), UNCHANGED <<money, bill, webhook>>,
               \A q : Recorded(q) => Says(ledger', q)
        PROVE  Alone' /\ InHand' /\ ChargesKept' /\ CheckoutsKept'
    <2>1. PICK at \in ConfirmPC \ {"find", "save"} :
             /\ conf' \in [Confirms -> Progress] /\ conf'[k].pc = at
             /\ \A d \in Confirms : d # k => conf'[d] = conf[d]
      BY <1>b DEF To, Finish, NoConfirm, Confirmed, Progress, ConfirmPC
    <2>2. Alone' /\ \A d \in Confirms : d # k => ~Busy(d) /\ ~Busy(d)' /\ ~At(d, "save") /\ ~At(d, "save")'
      BY <1>z, <1>b, <2>1, ConfirmMoves
    <2>3. InHand'
      BY <2>1, <2>2 DEF InHand, At
    <2>4. \A q \in Requests : ~Saving(q)
      BY <1>b, <2>2 DEF Saving, Busy, At
    <2>5. ChargesKept'
      BY <1>z, <1>b DEF ChargesKept, Recorded
    <2>6. CheckoutsKept'
      BY <1>z, <1>b, <2>4 DEF CheckoutsKept, Recorded, Checkout, Due
    <2>7. QED
      BY <2>2, <2>3, <2>5, <2>6
  <1>14. ASSUME NEW k \in Confirms, CreateCheck(k) PROVE Alone' /\ InHand' /\ ChargesKept' /\ CheckoutsKept'
    <2>1. /\ Busy(k) /\ ~At(k, "find") /\ ~At(k, "save") /\ (To(k, "insert") \/ Finish(k))
          /\ UNCHANGED <<money, bill, webhook>> /\ \A q : Recorded(q) => Says(ledger', q)
      BY <1>14 DEF CreateCheck, Refused, Invalid, Abandon, At, Busy, stripe, Recorded
    <2>2. QED
      BY <1>b, <2>1 DEF ConfirmPC
  <1>15. ASSUME NEW k \in Confirms, CreateInsert(k) PROVE Alone' /\ InHand' /\ ChargesKept' /\ CheckoutsKept'
    <2>1. /\ Busy(k) /\ ~At(k, "find") /\ ~At(k, "save") /\ (To(k, "link") \/ Finish(k))
          /\ UNCHANGED <<money, bill, webhook>> /\ \A q : Recorded(q) => Says(ledger', q)
      BY <1>15 DEF CreateInsert, Refused, Invalid, Abandon, At, Busy, stripe, Recorded
    <2>2. QED
      BY <1>b, <2>1 DEF ConfirmPC
  <1>16. ASSUME NEW k \in Confirms, Link(k) PROVE Alone' /\ InHand' /\ ChargesKept' /\ CheckoutsKept'
    <2>1. PICK e : /\ Busy(k) /\ ~At(k, "find") /\ ~At(k, "save") /\ Finish(k)
                   /\ UNCHANGED <<money, bill, webhook>>
                   /\ ledger' = [ledger EXCEPT ![conf[k].row].emp = e]
      BY <1>16, <1>f DEF Link, At, Busy, stripe
    <2>2. \A q : Recorded(q) => Says(ledger', q)
      <3>1. \A j \in DOMAIN ledger : ledger[j] \in Entry
        BY <1>l
      <3>2. /\ DOMAIN ledger' = DOMAIN ledger
            /\ \A j \in DOMAIN ledger : ledger'[j].status = ledger[j].status /\ ledger'[j].pay = ledger[j].pay
        BY <2>1, <3>1 DEF Entry
      <3>3. QED
        BY <3>2 DEF Recorded, Says
    <2>3. "check" \in ConfirmPC \ {"find", "save"}
      BY DEF ConfirmPC
    <2>4. QED
      BY <1>b, <2>1, <2>2, <2>3
  <1>17. ASSUME NEW k \in Confirms, ConfirmFails(k) \/ ConfirmDies(k) PROVE FALSE
    BY <1>17, <1>f DEF ConfirmFails, ConfirmDies
  <1>c. ASSUME NEW k \in Confirms, NEW r \in Requests, Start(k, r),
               webhook' = webhook \/ webhook' = webhook \ {r}
        PROVE  Alone' /\ InHand' /\ ChargesKept' /\ CheckoutsKept'
    <2>1. /\ conf' \in [Confirms -> Progress] /\ \A d \in Confirms : d # k => conf'[d] = conf[d]
          /\ conf'[k].pc = "find" /\ conf'[k].s = r
          /\ UNCHANGED <<money, bill, ledger>>
      BY <1>c DEF Start, Begin, Confirmed, Progress, ConfirmPC
    <2>2. \A d \in Confirms : ~Busy(d)
      BY <1>c, <1>z DEF Start, Begin, Counts
    <2>3. \A d \in Confirms : d # k => ~Busy(d)'
      BY <2>1, <2>2 DEF Busy
    <2>4. Alone'
      BY <2>3 DEF Alone
    <2>5. InHand'
      BY <2>1, <2>3 DEF InHand, At, Busy
    <2>6. ChargesKept'
      BY <1>z, <2>1 DEF ChargesKept, Recorded
    <2>7. Saving(r)' /\ \A q \in Requests : ~Saving(q)
      BY <2>1, <2>2 DEF Saving, Busy
    <2>8. CheckoutsKept'
      BY <1>c, <1>z, <2>1, <2>7 DEF CheckoutsKept, Recorded, Due
    <2>9. QED
      BY <2>4, <2>5, <2>6, <2>8
  <1>18. ASSUME NEW k \in Confirms, NEW r \in Requests, Redirect(k, r)
         PROVE  Alone' /\ InHand' /\ ChargesKept' /\ CheckoutsKept'
    BY <1>18, <1>c DEF Redirect
  <1>19. ASSUME NEW k \in Confirms, NEW r \in Requests, Deliver(k, r)
         PROVE  Alone' /\ InHand' /\ ChargesKept' /\ CheckoutsKept'
    BY <1>19, <1>c DEF Deliver
  <1>20. QED
    BY <1>1, <1>2, <1>3, <1>4, <1>5, <1>6, <1>6s, <1>7, <1>8, <1>9, <1>10, <1>11, <1>12,
       <1>13, <1>14, <1>15, <1>16, <1>17, <1>18, <1>19 DEF Next, Create, Bill, Confirm

\* Fresh and orderly, always.
LEMMA OrderlyInvariant == Spec => [](Fresh /\ Orderly)
  <1>1. Init => Fresh /\ Orderly
    <2> SUFFICES ASSUME Init PROVE Fresh /\ Orderly
      OBVIOUS
    <2>1. Fresh
      BY Distinct DEF Init, Fresh
    <2>2. Alone /\ InHand
      BY DEF Init, Alone, InHand, Busy, At, NoConfirm
    <2>3. ChargesKept /\ CheckoutsKept
      BY Distinct DEF Init, ChargesKept, CheckoutsKept, Due
    <2>4. QED
      BY <2>1, <2>2, <2>3 DEF Orderly
  <1>2. IInv /\ Fresh /\ Orderly /\ [Next]_vars => Fresh' /\ Orderly'
    <2> SUFFICES ASSUME IInv, Fresh, Orderly, [Next]_vars PROVE Fresh' /\ Orderly'
      OBVIOUS
    <2>1. CASE Next
      BY <2>1, FreshStep, OrderlyStep DEF IInv
    <2>2. CASE UNCHANGED vars
      BY <2>2 DEF vars, Fresh, Orderly, Alone, Busy, InHand, At, ChargesKept, CheckoutsKept, Recorded, Saving, Due
    <2>3. QED
      BY <2>1, <2>2
  <1>3. QED
    BY <1>1, <1>2, Invariant, PTL DEF Spec

\* With nothing lost and no two confirmations at once, every payment that was
\* taken and not given back has its row in the ledger when all has settled.
THEOREM PaymentsRecorded == Spec => []TakenIsRecorded
  <1>1. Fresh /\ Orderly => TakenIsRecorded
    <2> SUFFICES ASSUME Orderly, Quiet, faults = 0, ~raced, NEW p \in Payments, money[p] = "paid"
                 PROVE  Recorded(p)
      BY DEF TakenIsRecorded, Recorded, Says
    <2>1. ChargesKept /\ CheckoutsKept
      BY DEF Orderly
    <2>2. CASE p \in Charges
      BY <2>1, <2>2 DEF ChargesKept, Quiet, Billing
    <2>3. ASSUME NEW r \in Requests, p = Checkout(r) PROVE Recorded(p)
      <3>1. r \notin webhook /\ ~Saving(r)
        BY DEF Quiet, Saving, Busy
      <3>2. QED
        BY <2>1, <2>3, <3>1 DEF CheckoutsKept, Due
    <2>4. p \in Charges \/ \E r \in Requests : p = Checkout(r)
      BY DEF Payments, Charges, Checkout
    <2>5. QED
      BY <2>2, <2>3, <2>4
  <1>2. QED
    BY <1>1, OrderlyInvariant, PTL

=============================================================================

--------------------------- MODULE InvoiceStatus ---------------------------
(* The money rules every invoice screen, PDF and report goes through          *)
(* (src/modules/invoices/invoice-status.ts). Money in the database and in     *)
(* requests is decimal rupees; here it is an integer number of tenths of a    *)
(* paisa ("raw"), so that the rounding to whole paise stays visible. Dates    *)
(* are day numbers; NoDate is a missing due date.                             *)
EXTENDS Integers

NoDate == 0

MaxZero(x) == IF x > 0 THEN x ELSE 0

\* Math.round: half goes up, towards +infinity.
ToPaise(raw) == (raw + 5) \div 10

\* Rupees with two decimals, as formatInvoice puts them in a response.
FromPaise(paise) == 10 * paise

\* computeInvoiceFinancials once its amounts are whole paise. A definition that
\* comes just before the one it resembles is a plausible slip in it.
Billable(total) == MaxZero(total)

BalanceUnfloored(total, paid) == Billable(total) - paid
Balance(total, paid) == MaxZero(Billable(total) - paid)

Overpaid(total, paid) == MaxZero(paid - Billable(total))

PaymentStatus(total, paid) ==
  CASE total > 0 /\ paid >= total  -> "paid"
    [] paid > 0 /\ paid < total    -> "partial"
    [] OTHER                       -> "unpaid"

IsOverdueByDateOnly(total, paid, due, today) == due # NoDate /\ due < today
IsOverdue(total, paid, due, today) ==
  Balance(total, paid) > 0 /\ due # NoDate /\ due < today

Financials(total, paid, due, today) ==
  LET payment == PaymentStatus(total, paid)
      overdue == IsOverdue(total, paid, due, today)
  IN  [total_paise    |-> total,
       paid_paise     |-> paid,
       balance_paise  |-> Balance(total, paid),
       overpaid_paise |-> Overpaid(total, paid),
       payment_status |-> payment,
       is_overdue     |-> overdue,
       status         |-> IF payment = "paid" THEN "paid"
                          ELSE IF overdue THEN "overdue" ELSE payment]

\* The status filter of the invoice list.
MatchesStatusFilter(f, filter) ==
  IF filter = "overdue" THEN f.is_overdue ELSE f.payment_status = filter

\* validatePaymentAmount: 0 < amount <= what is outstanding, in paise.
ValidPayment(amount, outstanding) ==
  amount > 0 /\ amount <= MaxZero(outstanding)
=============================================================================

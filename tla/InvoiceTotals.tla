--------------------------- MODULE InvoiceTotals ---------------------------
(* The dashboard's invoice totals: getAnalytics formats every invoice, feeds  *)
(* the formatted figures to computeInvoiceFinancials again and adds them up   *)
(* in one pass (aggregateInvoiceFinancials). The state is the loop's: the     *)
(* running totals, and beside them what the same loop would have read off the *)
(* table the user sees (the first formatting).                                *)
EXTENDS InvoiceStatus

CONSTANTS Totals,     \* raw invoice totals (a request's `total` is not validated)
          Advances,   \* raw values of the legacy advance column
          Payments,   \* raw amounts of a payment row
          DueDates,   \* due dates, NoDate included
          Today,
          MaxInvoices \* bound: invoices added up

ASSUME MoneyAssumption ==
  /\ Totals \subseteq Int /\ Advances \subseteq Nat /\ Payments \subseteq Nat
  /\ DueDates \subseteq Nat /\ Today \in Nat /\ MaxInvoices \in Nat

VARIABLES count, billed, paid, balance, overpaid, overdueCount, overdueBalance,
          shownBalance, \* sum of the balance column of the table
          shownPaid,    \* how many rows the table shows as paid
          anyNegative   \* some invoice so far had a negative total

sums == <<billed, paid, balance, overpaid>>
overdues == <<overdueCount, overdueBalance>>
vars == <<count, sums, overdues, shownBalance, shownPaid, anyNegative>>

\* formatInvoice: the advance and each payment row are rounded, then added.
PaidPaise(advance, payment) == ToPaise(advance) + ToPaise(payment)

Shown(total, advance, payment, due) ==
  Financials(ToPaise(total), PaidPaise(advance, payment), due, Today)

\* getAnalytics recomputes from the rupees of the formatted invoice.
RecomputedWithoutPayments(f, due) ==
  Financials(ToPaise(FromPaise(f.total_paise)), 0, due, Today)
Recomputed(f, due) ==
  Financials(ToPaise(FromPaise(f.total_paise)), ToPaise(FromPaise(f.paid_paise)),
             due, Today)

Init ==
  /\ count = 0 /\ billed = 0 /\ paid = 0 /\ balance = 0 /\ overpaid = 0
  /\ overdueCount = 0 /\ overdueBalance = 0
  /\ shownBalance = 0 /\ shownPaid = 0 /\ anyNegative = FALSE

\* The figures of one invoice are added to the running totals.
Add(f) ==
  /\ billed' = billed + f.total_paise
  /\ paid' = paid + f.paid_paise
  /\ balance' = balance + f.balance_paise
  /\ overpaid' = overpaid + f.overpaid_paise
  /\ IF f.is_overdue
       THEN /\ overdueCount' = overdueCount + 1
            /\ overdueBalance' = overdueBalance + f.balance_paise
       ELSE UNCHANGED overdues

AddInvoice(total, advance, payment, due) ==
  /\ count < MaxInvoices
  /\ count' = count + 1
  /\ LET shown == Shown(total, advance, payment, due)
     IN  /\ Add(Recomputed(shown, due))
         /\ shownBalance' = shownBalance + shown.balance_paise
         /\ shownPaid' = shownPaid + (IF shown.status = "paid" THEN 1 ELSE 0)
  /\ anyNegative' = (anyNegative \/ ToPaise(total) < 0)

Next == \E total \in Totals, advance \in Advances, payment \in Payments, due \in DueDates :
          AddInvoice(total, advance, payment, due)

Spec == Init /\ [][Next]_vars
----------------------------------------------------------------------------
\* The running totals are integers, the counters naturals.
TypeOK ==
  /\ count \in Nat /\ overdueCount \in Nat /\ shownPaid \in Nat
  /\ billed \in Int /\ paid \in Nat /\ balance \in Nat /\ overpaid \in Nat
  /\ overdueBalance \in Nat /\ shownBalance \in Int
  /\ anyNegative \in BOOLEAN

(* The identity the comment on aggregateInvoiceFinancials states: cash in,    *)
(* less what was overpaid, plus what is outstanding, is what was billed, as   *)
(* long as no invoice has a negative total.                                   *)
TotalsReconcile == ~anyNegative => paid - overpaid + balance = billed

(* The dashboard shows the sum of the table's own balances, although it       *)
(* recomputes each one from the formatted figures.                            *)
DashboardMatchesTable == balance = shownBalance

(* The overdue part of the dashboard is a part of the outstanding balance,    *)
(* each overdue invoice contributes at least a paisa to it, and an invoice    *)
(* the table shows as paid is not counted as overdue.                         *)
OverdueIsOutstanding ==
  /\ overdueCount <= overdueBalance /\ overdueBalance <= balance
  /\ overdueCount + shownPaid <= count
=============================================================================

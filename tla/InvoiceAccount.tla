--------------------------- MODULE InvoiceAccount ---------------------------
(* What the invoice ledger promises about money, without requests, rows or    *)
(* locks: an invoice is opened, its total and advance are changed at will,    *)
(* payments are received, corrected and taken back, and each of these is one  *)
(* atomic change that never lets the payments grow beyond what is billable.   *)
EXTENDS InvoiceStatus

CONSTANT Invoices
VARIABLES live, total, advance, received

account == <<live, total, advance, received>>

Init ==
  /\ live = [i \in Invoices |-> FALSE]
  /\ total = [i \in Invoices |-> 0]
  /\ advance = [i \in Invoices |-> 0]
  /\ received = [i \in Invoices |-> 0]

\* The invoice becomes (t, a, x), the others stay.
Becomes(i, t, a, x) ==
  /\ total' = [total EXCEPT ![i] = t]
  /\ advance' = [advance EXCEPT ![i] = a]
  /\ received' = [received EXCEPT ![i] = x]

\* A new invoice, paid in part or in full when it is opened.
Open(i) ==
  /\ ~live[i] /\ received[i] = 0
  /\ live' = [live EXCEPT ![i] = TRUE]
  /\ \E t \in {total[i]'}, x \in {received[i]'} :
       /\ Becomes(i, t, 0, x)
       /\ x # 0 => ValidPayment(x, t)

\* The total or the advance changes; payments are not touched.
Amend(i) ==
  /\ live[i] /\ UNCHANGED live
  /\ \E t \in {total[i]'}, a \in {advance[i]'} : Becomes(i, t, a, received[i])

\* A payment arrives, possibly in the transaction that changes the invoice.
Receive(i) ==
  /\ live[i] /\ UNCHANGED live
  /\ \E t \in {total[i]'}, a \in {advance[i]'}, x \in {received[i]'} :
       /\ Becomes(i, t, a, x)
       /\ ValidPayment(x - received[i], Balance(t, a + received[i]))

\* A payment is edited: it may always shrink, and grow up to the balance.
Correct(i) ==
  /\ live[i] /\ UNCHANGED live
  /\ \E x \in {received[i]'} :
       /\ Becomes(i, total[i], advance[i], x)
       /\ x > received[i] => advance[i] + x <= Billable(total[i])

\* A payment is deleted.
TakeBack(i) ==
  /\ live[i] /\ UNCHANGED live
  /\ \E x \in {received[i]'} : x <= received[i] /\ Becomes(i, total[i], advance[i], x)

\* The invoice is deleted, its payments with it.
Close(i) ==
  /\ live[i]
  /\ live' = [live EXCEPT ![i] = FALSE]
  /\ Becomes(i, 0, 0, 0)

Next ==
  \E i \in Invoices :
    Open(i) \/ Amend(i) \/ Receive(i) \/ Correct(i) \/ TakeBack(i) \/ Close(i)

Spec == Init /\ [][Next]_account
=============================================================================

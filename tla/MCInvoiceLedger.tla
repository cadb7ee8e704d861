-------------------------- MODULE MCInvoiceLedger --------------------------
(* Small instances of InvoiceLedger for TLC.                                  *)
EXTENDS InvoiceLedger, TLC

\* Two requests contend for one invoice: a negative and a positive total, and
\* payments that are invalid, below, at and above the balance.
MCTotals == {-1, 2}
MCAdvances == {1}
MCAmounts == {-1, 1, 2}
MCItemLists == {<< >>, <<1>>}

\* Fewer values, where item lists are the question.
MCFewTotals == {2}
MCFewAmounts == {1, 2}

\* Item lists that are empty, grow and shrink.
MCChangingItems == {<< >>, <<1>>, <<1, 1>>}

Interchangeable == Permutations(Requests)
=============================================================================

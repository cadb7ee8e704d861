------------------------------ MODULE MCOffice ------------------------------
(* Office on one small instance.                                              *)
EXTENDS Office, TLC

\* Raw values around every rounding and comparison edge: a negative total, zero,
\* half a paisa on both sides, and totals below, at and above what is paid.
MCTotals == {-7, 0, 4, 15, 24, 30}
MCAdvances == {0, 5}
MCPayments == {0, 4, 15, 30}
MCDueDates == {NoDate, 1, 2}

\* Receipts: two payments of one invoice that is renamed, two processes.
\* ProjectWork: a task that moves between two milestones, one possible assignee.
\* Access: a super admin and two others, two roles, one permission that may be
\* passed on besides the one to manage, one credential permission.
\* Onboarding: two requests with the form. TaskFiles: two names.
Interchangeable == Permutations(Requests) \cup Permutations(Roles) \cup Permutations(Bases)
=============================================================================

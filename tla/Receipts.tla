------------------------------ MODULE Receipts ------------------------------
(* Receipt numbers (getOrAssignReceiptNumber of invoice-payments.service.ts). *)
(* A payment gets its number when its receipt is first wanted. A process      *)
(* serves such requests one after the other (receiptLockPromise); between     *)
(* processes there is GET_LOCK, one lock per invoice, and whoever does not    *)
(* get it in ten seconds goes on without.                                     *)
EXTENDS Integers, Sequences, FiniteSets

CONSTANTS Processes, Payments, Invoices,
          Bases,       \* invoice numbers as they appear in receipt numbers
          None, Deleted,
          Requests,    \* bound: requests running at a time
          MaxAttempts  \* 25 in the code

VARIABLES receipt,  \* receipt_number of each payment
          owner,    \* its invoice
          base,     \* of each invoice; two invoices may have one base
          queue,    \* of each process: who is served and who waits
          holder,   \* of each invoice's lock: a process, through a connection
          pc, ctx,  \* requests: next await, what they keep
          by        \* history: who wrote the number, and whether it held the lock

vars == <<receipt, owner, base, queue, holder, pc, ctx, by>>

Suffixes == 1..(Cardinality(Payments) + 1) \* 1 for none; one is always free
Numbers == Bases \X Suffixes
Idle == [op |-> "none"]
Goto(r, where) == pc' = [pc EXCEPT ![r] = where] /\ UNCHANGED ctx
Keep(r, where, what) == pc' = [pc EXCEPT ![r] = where] /\ ctx' = [ctx EXCEPT ![r] = what]
Invoice(r) == owner[ctx[r].payment]

Init ==
  /\ receipt = [p \in Payments |-> None]
  /\ owner \in [Payments -> Invoices]
  /\ base \in [Invoices -> Bases]
  /\ queue = [x \in Processes |-> << >>]
  /\ holder = [i \in Invoices |-> None]
  /\ pc = [r \in Requests |-> "idle"]
  /\ ctx = [r \in Requests |-> Idle]
  /\ by = [p \in Payments |-> None]
----------------------------------------------------------------------------
Ask(r, x, p) ==
  /\ pc[r] = "idle"
  /\ queue' = [queue EXCEPT ![x] = Append(@, r)]
  /\ Keep(r, "find", [payment |-> p, process |-> x, base |-> None, number |-> None, locked |-> FALSE, attempt |-> 1])
  /\ UNCHANGED <<receipt, owner, base, holder, by>>

\* The answer, or the error; then the next in the queue.
Leave(r) ==
  /\ queue' = [queue EXCEPT ![ctx[r].process] = Tail(@)]
  /\ Keep(r, "idle", Idle)

AnyTurn(r) == TRUE
Turn(r) == Head(queue[ctx[r].process]) = r
Find(r) ==
  /\ pc[r] = "find" /\ Turn(r)
  /\ IF receipt[ctx[r].payment] = None
       THEN Keep(r, "getLock", [ctx[r] EXCEPT !.base = base[Invoice(r)]]) /\ UNCHANGED queue
       ELSE Leave(r)
  /\ UNCHANGED <<receipt, owner, base, holder, by>>

\* A connection that has the lock gets it again.
GetLock(r) ==
  /\ pc[r] = "getLock" /\ holder[Invoice(r)] \in {None, ctx[r].process}
  /\ holder' = [holder EXCEPT ![Invoice(r)] = ctx[r].process]
  /\ Keep(r, "recheck", [ctx[r] EXCEPT !.locked = TRUE])
  /\ UNCHANGED <<receipt, owner, base, queue, by>>
\* After ten seconds, or after an error, which is ignored.
GoOnWithout(r) ==
  /\ pc[r] = "getLock"
  /\ Goto(r, "recheck")
  /\ UNCHANGED <<receipt, owner, base, queue, holder, by>>

RecheckSkipped(r) ==
  /\ pc[r] = "recheck"
  /\ Goto(r, "used")
  /\ UNCHANGED <<receipt, owner, base, queue, holder, by>>
Recheck(r) ==
  /\ pc[r] = "recheck"
  /\ Goto(r, IF receipt[ctx[r].payment] \in Numbers THEN "release" ELSE "used")
  /\ UNCHANGED <<receipt, owner, base, queue, holder, by>>

\* nextUniqueStoredReceiptNumber: the least suffix that no payment has.
Free(b) == {n \in Suffixes : \A p \in Payments : receipt[p] # <<b, n>>}
Used(r) ==
  /\ pc[r] = "used"
  /\ \E n \in Free(ctx[r].base) :
       /\ \A k \in Free(ctx[r].base) : n <= k
       /\ Keep(r, "write", [ctx[r] EXCEPT !.number = <<ctx[r].base, n>>])
  /\ UNCHANGED <<receipt, owner, base, queue, holder, by>>

\* The number is unique in the table: whoever comes second tries again.
Write(r) ==
  LET p == ctx[r].payment number == ctx[r].number done == [ctx[r] EXCEPT !.number = None]
  IN  /\ pc[r] = "write"
      /\ IF receipt[p] # Deleted /\ \A q \in Payments \ {p} : receipt[q] # number
           THEN /\ receipt' = [receipt EXCEPT ![p] = number]
                /\ by' = [by EXCEPT ![p] = [process |-> ctx[r].process, locked |-> ctx[r].locked]]
                /\ Keep(r, "release", done)
           ELSE /\ IF receipt[p] = Deleted \/ ctx[r].attempt = MaxAttempts THEN Keep(r, "release", done)
                   ELSE Keep(r, "used", [done EXCEPT !.attempt = @ + 1])
                /\ UNCHANGED <<receipt, by>>
      /\ UNCHANGED <<owner, base, queue, holder>>

\* RELEASE_LOCK may run on another connection of the pool, or fail: the lock stays.
\* Connections are not lost while a request is served.
Release(r) ==
  /\ pc[r] = "release"
  /\ holder' = IF ctx[r].locked THEN [holder EXCEPT ![Invoice(r)] = None] ELSE holder
  /\ Leave(r)
  /\ UNCHANGED <<receipt, owner, base, by>>
LockStays(r) ==
  /\ pc[r] = "release" /\ ctx[r].locked
  /\ Leave(r)
  /\ UNCHANGED <<receipt, owner, base, holder, by>>

\* The database may fail at any statement whose failure is not ignored.
Fail(r) ==
  /\ \/ pc[r] = "find" /\ Turn(r) /\ Leave(r)
     \/ pc[r] \in {"recheck", "used", "write"} /\ Keep(r, "release", [ctx[r] EXCEPT !.number = None]) /\ UNCHANGED queue
  /\ UNCHANGED <<receipt, owner, base, holder, by>>
----------------------------------------------------------------------------
Elsewhere == UNCHANGED <<owner, queue, holder, pc, ctx>>
DeletePayment(p) ==
  /\ receipt' = [receipt EXCEPT ![p] = Deleted] /\ by' = [by EXCEPT ![p] = None]
  /\ UNCHANGED base /\ Elsewhere
RenameInvoice(i, b) == base' = [base EXCEPT ![i] = b] /\ UNCHANGED <<receipt, by>> /\ Elsewhere

Next ==
  \/ \E r \in Requests :
       \/ \E x \in Processes, p \in Payments : Ask(r, x, p)
       \/ Find(r) \/ GetLock(r) \/ GoOnWithout(r) \/ Recheck(r) \/ Used(r) \/ Write(r)
       \/ Release(r) \/ LockStays(r) \/ Fail(r)
  \/ \E p \in Payments : DeletePayment(p)
  \/ \E i \in Invoices, b \in Bases : RenameInvoice(i, b)
Spec == Init /\ [][Next]_vars
----------------------------------------------------------------------------
(* A number that a payment once has, and that may have been printed and sent, *)
(* stays its number, whatever its invoice is renamed to. It is written over   *)
(* only from another process, and only if one of the two went on without the  *)
(* lock: the queue alone is enough in one process, the lock between several.  *)
Overtaken(r) == pc[r] = "write" /\ ctx[r].process # by[ctx[r].payment].process
                /\ ~(ctx[r].locked /\ by[ctx[r].payment].locked)
PrintedNumbersStay ==
  [][\A p \in Payments : receipt[p] \in Numbers =>
       \/ receipt'[p] \in {receipt[p], Deleted}
       \/ \E r \in Requests : ctx[r] # Idle /\ ctx[r].payment = p /\ Overtaken(r)]_vars
=============================================================================

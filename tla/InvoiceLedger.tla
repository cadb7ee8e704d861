--------------------------- MODULE InvoiceLedger ---------------------------
(* Invoices, their item rows and their payment rows, written by concurrent    *)
(* HTTP requests (invoices.service.ts and invoice-payments.service.ts). A     *)
(* request is a sequence of database statements; other requests run between   *)
(* any two of them, so every await is a step boundary. Only the payment       *)
(* transactions lock anything: SELECT ... FOR UPDATE on the invoice row,      *)
(* held until the transaction ends. Amounts are whole paise.                  *)
EXTENDS InvoiceStatus, Sequences, Sums

CONSTANTS Requests,   \* request slots of the API processes; a slot is reused
          Invoices,   \* invoice ids
          MaxPay,     \* bound: payment rows that exist at the same time
          Totals,     \* totals a request may ask for (not validated: any integer)
          Advances,   \* values a request may give the legacy advance column
          Amounts,    \* payment amounts a request may ask for
          ItemLists,  \* item lists a request may send: sequences of row amounts
          NoRequest, NoInvoice, NoEdit

ASSUME LedgerAssumption ==
  /\ MaxPay \in Nat
  /\ Totals \subseteq Int /\ Advances \subseteq Int /\ Amounts \subseteq Int
  /\ ItemLists \subseteq Seq(Int)
  /\ NoRequest \notin Requests /\ NoInvoice \notin Invoices
  /\ NoEdit \notin Int /\ NoEdit \notin ItemLists

PayIds == 1..MaxPay
NoPayment == 0   \* also the id no row has

VARIABLES live, total, advance, subtotal, \* invoices, by id
          items,      \* items[i]: the amounts of its rows in invoice_items, by id
          pay,        \* invoice_payments: which invoice, how much
          lock,       \* which request's transaction holds the invoice row lock
          pc,         \* the statement each request executes next
          ctx         \* what each request keeps across its awaits

invoiceRows == <<live, total, advance, subtotal>>
vars == <<live, total, advance, subtotal, items, pay, lock, pc, ctx>>

Absent == [inv |-> NoInvoice, amount |-> 0]

\* The columns a request will write, worked out from what it read first.
NoData == [items |-> NoEdit, subtotal |-> NoEdit, total |-> NoEdit, advance |-> NoEdit]
Idle == [inv |-> NoInvoice, pid |-> NoPayment, amount |-> 0, todo |-> << >>, data |-> NoData]

SumSeq(s) == SumTo(s, Len(s))
Or(edit, old) == IF edit = NoEdit THEN old ELSE edit

\* Payments of invoice i, leaving out row x (the payment being edited).
RowsBut(i, x) ==
  [k \in PayIds |-> IF pay[k].inv = i /\ k # x THEN pay[k].amount ELSE 0]
ReceivedBut(i, x) == SumTo(RowsBut(i, x), MaxPay)
Received(i) == ReceivedBut(i, NoPayment)

\* computeInvoiceFinancials(...).balance_paise of what the transaction read:
\* the invoice with the request's own uncommitted changes.
OutstandingOfStoredTotal(r) ==
  Balance(total[ctx[r].inv], advance[ctx[r].inv] + ReceivedBut(ctx[r].inv, ctx[r].pid))

OutstandingWithoutAdvance(r) ==
  Balance(Or(ctx[r].data.total, total[ctx[r].inv]),
          ReceivedBut(ctx[r].inv, ctx[r].pid))

Outstanding(r) ==
  LET i == ctx[r].inv
  IN  Balance(Or(ctx[r].data.total, total[i]),
              Or(ctx[r].data.advance, advance[i]) + ReceivedBut(i, ctx[r].pid))

\* Row ids are never reused while a request still refers to them.
FreeId(k) == pay[k] = Absent /\ \A r \in Requests : ctx[r].pid # k
NextId(k) == k \in PayIds /\ FreeId(k) /\ \A j \in PayIds : FreeId(j) => k <= j

Goto(r, where) == pc' = [pc EXCEPT ![r] = where]
\* The request answers (with a result or an error).
Finish(r) == Goto(r, "idle") /\ ctx' = [ctx EXCEPT ![r] = Idle]
Unlock(r) == lock' = [i \in Invoices |-> IF lock[i] = r THEN NoRequest ELSE lock[i]]
----------------------------------------------------------------------------
Init ==
  /\ live = [i \in Invoices |-> FALSE]
  /\ total = [i \in Invoices |-> 0]
  /\ advance = [i \in Invoices |-> 0]
  /\ subtotal = [i \in Invoices |-> 0]
  /\ items = [i \in Invoices |-> << >>]
  /\ pay = [k \in PayIds |-> Absent]
  /\ lock = [i \in Invoices |-> NoRequest]
  /\ pc = [r \in Requests |-> "idle"]
  /\ ctx = [r \in Requests |-> Idle]

(* POST /invoices. One transaction inserts the invoice with a zero advance,   *)
(* its items and the initial payment, which was validated against the total   *)
(* of the request; nobody can refer to the new row before it commits.         *)
CreateInvoice(i, list, newTotal, amount) ==
  /\ ~live[i]
  /\ \A r \in Requests : ctx[r].inv # i
  /\ amount # 0 => ValidPayment(amount, newTotal)
  /\ live' = [live EXCEPT ![i] = TRUE]
  /\ total' = [total EXCEPT ![i] = newTotal]
  /\ advance' = [advance EXCEPT ![i] = 0]
  /\ subtotal' = [subtotal EXCEPT ![i] = SumSeq(list)]
  /\ items' = [items EXCEPT ![i] = list]
  /\ IF amount = 0
       THEN UNCHANGED pay
       ELSE \E k \in PayIds :
              NextId(k) /\ pay' = [pay EXCEPT ![k] = [inv |-> i, amount |-> amount]]
  /\ UNCHANGED <<lock, pc, ctx>>

(* PATCH /invoices/:id reads the invoice and computes the new columns. The    *)
(* advance is taken over only when no payment comes with the request. Item    *)
(* rows are rewritten only when they differ from the ones just read.          *)
BeginUpdate(r, i, newItems, newTotal, newAdvance, amount) ==
  /\ pc[r] = "idle" /\ live[i]
  /\ amount >= 0
  /\ amount > 0 => newAdvance = NoEdit
  /\ \E k \in PayIds \cup {NoPayment} :
       /\ IF amount > 0 THEN NextId(k) ELSE k = NoPayment
       /\ ctx' = [ctx EXCEPT ![r] =
            [inv |-> i, pid |-> k, amount |-> amount,
             todo |-> IF newItems = NoEdit THEN << >> ELSE newItems,
             data |-> [items |-> newItems,
                       subtotal |-> IF newItems = NoEdit THEN NoEdit ELSE SumSeq(newItems),
                       total |-> IF newTotal = NoEdit /\ newItems # NoEdit
                                   THEN SumSeq(newItems) ELSE newTotal,
                       advance |-> newAdvance]]]
  /\ Goto(r, IF newItems # NoEdit /\ newItems # items[i] THEN "deleteItems"
             ELSE IF amount > 0 THEN "lock" ELSE "update")
  /\ UNCHANGED <<invoiceRows, items, pay, lock>>

AfterItems(r) == IF ctx[r].amount > 0 THEN "lock" ELSE "update"

\* invoiceItem.deleteMany, on its own, outside any transaction.
DeleteItems(r) ==
  /\ pc[r] = "deleteItems"
  /\ items' = [items EXCEPT ![ctx[r].inv] = << >>]
  /\ Goto(r, IF ctx[r].todo = << >> THEN AfterItems(r) ELSE "addItem")
  /\ UNCHANGED <<invoiceRows, pay, lock, ctx>>

(* invoiceItem.create, one statement per row. The foreign key needs the       *)
(* invoice row: it waits for the row lock and fails when the row is gone.     *)
AddItem(r) ==
  LET i == ctx[r].inv
      rest == Tail(ctx[r].todo)
  IN  /\ pc[r] = "addItem"
      /\ lock[i] = NoRequest
      /\ IF live[i]
           THEN /\ items' = [items EXCEPT ![i] = Append(@, Head(ctx[r].todo))]
                /\ ctx' = [ctx EXCEPT ![r].todo = rest]
                /\ Goto(r, IF rest = << >> THEN AfterItems(r) ELSE "addItem")
           ELSE Finish(r) /\ UNCHANGED items
      /\ UNCHANGED <<invoiceRows, pay, lock>>

\* invoice.update writes only the columns the request gave.
WriteEveryColumn(r) ==
  LET i == ctx[r].inv
      data == ctx[r].data
  IN  /\ total' = [total EXCEPT ![i] = data.total]
      /\ advance' = [advance EXCEPT ![i] = data.advance]
      /\ subtotal' = [subtotal EXCEPT ![i] = data.subtotal]

WriteInvoice(r) ==
  LET i == ctx[r].inv
      data == ctx[r].data
  IN  /\ total' = [total EXCEPT ![i] = Or(data.total, @)]
      /\ advance' = [advance EXCEPT ![i] = Or(data.advance, @)]
      /\ subtotal' = [subtotal EXCEPT ![i] = Or(data.subtotal, @)]

\* An update without a payment: one statement, which waits for the row lock.
UpdateUnlocked(r) ==
  /\ pc[r] = "update"
  /\ IF live[ctx[r].inv] THEN WriteInvoice(r) ELSE UNCHANGED <<total, advance, subtotal>>
  /\ Finish(r)
  /\ UNCHANGED <<live, items, pay, lock>>

Update(r) ==
  /\ pc[r] = "update"
  /\ lock[ctx[r].inv] = NoRequest
  /\ IF live[ctx[r].inv] THEN WriteInvoice(r) ELSE UNCHANGED <<total, advance, subtotal>>
  /\ Finish(r)
  /\ UNCHANGED <<live, items, pay, lock>>

(* POST /invoice-payments goes straight to the transaction.                   *)
BeginPayment(r, i, amount) ==
  /\ pc[r] = "idle"
  /\ \E k \in PayIds :
       /\ NextId(k)
       /\ ctx' = [ctx EXCEPT ![r] = [Idle EXCEPT !.inv = i, !.pid = k, !.amount = amount]]
  /\ Goto(r, "lock")
  /\ UNCHANGED <<invoiceRows, items, pay, lock>>

(* PATCH /invoice-payments/:id reads the payment; an unchanged amount touches *)
(* no money (not modelled further), a changed one enters the transaction.     *)
BeginEdit(r, k, amount) ==
  /\ pc[r] = "idle" /\ pay[k] # Absent
  /\ amount # pay[k].amount
  /\ ctx' = [ctx EXCEPT ![r] =
               [Idle EXCEPT !.inv = pay[k].inv, !.pid = k, !.amount = amount]]
  /\ Goto(r, "lockEdit")
  /\ UNCHANGED <<invoiceRows, items, pay, lock>>

\* SELECT ... FOR UPDATE; a missing invoice ends the request.
Take(r, next) ==
  IF live[ctx[r].inv]
    THEN /\ lock' = [lock EXCEPT ![ctx[r].inv] = r]
         /\ Goto(r, next) /\ UNCHANGED ctx
    ELSE Finish(r) /\ UNCHANGED lock

LockIgnoringHolder(r) ==
  /\ pc[r] \in {"lock", "lockEdit"}
  /\ \/ pc[r] = "lock" /\ Take(r, "validate")
     \/ pc[r] = "lockEdit" /\ Take(r, "validateEdit")
  /\ UNCHANGED <<invoiceRows, items, pay>>

Lock(r) ==
  /\ pc[r] \in {"lock", "lockEdit"}
  /\ lock[ctx[r].inv] = NoRequest
  /\ \/ pc[r] = "lock" /\ Take(r, "validate")
     \/ pc[r] = "lockEdit" /\ Take(r, "validateEdit")
  /\ UNCHANGED <<invoiceRows, items, pay>>

\* The payments are read and the amount is checked; an error rolls back.
Validate(r) ==
  /\ pc[r] \in {"validate", "validateEdit"}
  /\ IF ValidPayment(ctx[r].amount, Outstanding(r))
       THEN /\ Goto(r, IF pc[r] = "validate" THEN "insert" ELSE "rewrite")
            /\ UNCHANGED <<ctx, lock>>
       ELSE Finish(r) /\ Unlock(r)
  /\ UNCHANGED <<invoiceRows, items, pay>>

\* The payment row is inserted and the transaction commits, the changes of the
\* invoice row (none for POST /invoice-payments) with it.
Insert(r) ==
  /\ pc[r] = "insert"
  /\ WriteInvoice(r)
  /\ pay' = [pay EXCEPT ![ctx[r].pid] = [inv |-> ctx[r].inv, amount |-> ctx[r].amount]]
  /\ Finish(r) /\ Unlock(r)
  /\ UNCHANGED <<live, items>>

\* The edited row gets its amount, unless it was deleted meanwhile.
Rewrite(r) ==
  /\ pc[r] = "rewrite"
  /\ pay' = IF pay[ctx[r].pid] = Absent THEN pay
            ELSE [pay EXCEPT ![ctx[r].pid].amount = ctx[r].amount]
  /\ Finish(r) /\ Unlock(r)
  /\ UNCHANGED <<invoiceRows, items>>

\* DELETE /invoice-payments/:id: a read, then a delete that locks no invoice.
BeginDeletePayment(r, k) ==
  /\ pc[r] = "idle" /\ pay[k] # Absent
  /\ ctx' = [ctx EXCEPT ![r] = [Idle EXCEPT !.inv = pay[k].inv, !.pid = k]]
  /\ Goto(r, "deletePayment")
  /\ UNCHANGED <<invoiceRows, items, pay, lock>>

DeletePayment(r) ==
  /\ pc[r] = "deletePayment"
  /\ pay' = [pay EXCEPT ![ctx[r].pid] = Absent]
  /\ Finish(r)
  /\ UNCHANGED <<invoiceRows, items, lock>>

\* DELETE /invoices/:id: a read, then a delete that cascades and needs the row.
BeginDeleteInvoice(r, i) ==
  /\ pc[r] = "idle" /\ live[i]
  /\ ctx' = [ctx EXCEPT ![r] = [Idle EXCEPT !.inv = i]]
  /\ Goto(r, "deleteInvoice")
  /\ UNCHANGED <<invoiceRows, items, pay, lock>>

Cascade(i) ==
  pay' = [k \in PayIds |-> IF pay[k].inv = i THEN Absent ELSE pay[k]]

DeleteInvoiceKeepingPayments(r) ==
  LET i == ctx[r].inv
  IN  /\ pc[r] = "deleteInvoice"
      /\ lock[i] = NoRequest
      /\ live' = [live EXCEPT ![i] = FALSE]
      /\ items' = [items EXCEPT ![i] = << >>]
      /\ Finish(r)
      /\ UNCHANGED <<total, advance, subtotal, lock, pay>>

DeleteInvoice(r) ==
  LET i == ctx[r].inv
  IN  /\ pc[r] = "deleteInvoice"
      /\ lock[i] = NoRequest
      /\ live' = [live EXCEPT ![i] = FALSE]
      /\ total' = [total EXCEPT ![i] = 0]
      /\ advance' = [advance EXCEPT ![i] = 0]
      /\ subtotal' = [subtotal EXCEPT ![i] = 0]
      /\ items' = [items EXCEPT ![i] = << >>]
      /\ Cascade(i)
      /\ Finish(r)
      /\ UNCHANGED lock

(* A request dies anywhere: the transaction or lock-wait timeout fires, the   *)
(* connection breaks, the process crashes. The database rolls back and frees  *)
(* the row lock; statements already committed stay.                           *)
Abort(r) ==
  /\ pc[r] # "idle"
  /\ Finish(r) /\ Unlock(r)
  /\ UNCHANGED <<invoiceRows, items, pay>>
----------------------------------------------------------------------------
\* The statements of a request that has begun.
Step(r) ==
  \/ DeleteItems(r) \/ AddItem(r) \/ Update(r)
  \/ Lock(r) \/ Validate(r) \/ Insert(r) \/ Rewrite(r)
  \/ DeletePayment(r) \/ DeleteInvoice(r)

Begin(r) ==
  \/ \E i \in Invoices, newItems \in ItemLists \cup {NoEdit}, newTotal \in Totals \cup {NoEdit},
        newAdvance \in Advances \cup {NoEdit}, amount \in Amounts \cup {0} :
       BeginUpdate(r, i, newItems, newTotal, newAdvance, amount)
  \/ \E i \in Invoices, amount \in Amounts : BeginPayment(r, i, amount)
  \/ \E k \in PayIds, amount \in Amounts : BeginEdit(r, k, amount)
  \/ \E k \in PayIds : BeginDeletePayment(r, k)
  \/ \E i \in Invoices : BeginDeleteInvoice(r, i)

Create ==
  \E i \in Invoices, list \in ItemLists, newTotal \in Totals, amount \in Amounts \cup {0} :
    CreateInvoice(i, list, newTotal, amount)

Next == Create \/ \E r \in Requests : Begin(r) \/ Step(r) \/ Abort(r)

Spec == Init /\ [][Next]_vars

\* The same system while nothing times out, breaks or crashes.
NextUninterrupted == Create \/ \E r \in Requests : Begin(r) \/ Step(r)
SpecUninterrupted == Init /\ [][NextUninterrupted]_vars
----------------------------------------------------------------------------
Edits == [items : ItemLists \cup {NoEdit}, subtotal : Int \cup {NoEdit},
          total : Int \cup {NoEdit}, advance : Int \cup {NoEdit}]
Contexts == [inv : Invoices \cup {NoInvoice}, pid : PayIds \cup {NoPayment},
             amount : Int, todo : Seq(Int), data : Edits]
PaymentRows == [inv : Invoices \cup {NoInvoice}, amount : Int]
InTransaction == {"validate", "validateEdit", "insert", "rewrite"}
Statements == {"idle", "deleteItems", "addItem", "update", "lock", "lockEdit",
               "deletePayment", "deleteInvoice"} \cup InTransaction

TypeOK ==
  /\ live \in [Invoices -> BOOLEAN]
  /\ total \in [Invoices -> Int]
  /\ advance \in [Invoices -> Int]
  /\ subtotal \in [Invoices -> Int]
  /\ items \in [Invoices -> Seq(Int)]
  /\ pay \in [PayIds -> PaymentRows]
  /\ lock \in [Invoices -> Requests \cup {NoRequest}]
  /\ pc \in [Requests -> Statements]
  /\ ctx \in [Requests -> Contexts]

(* The row lock does its job: exactly the requests inside a payment           *)
(* transaction hold one, that of their own invoice, so no two of them are     *)
(* between reading the payments of an invoice and committing.                 *)
LockDiscipline ==
  \A r \in Requests, i \in Invoices :
    lock[i] = r <=> pc[r] \in InTransaction /\ ctx[r].inv = i

(* The balance check (validatePaymentAmount under FOR UPDATE) is still true   *)
(* when the payment is written, whatever other requests did in between.       *)
AcceptedPaymentStillFits ==
  \A r \in Requests :
    pc[r] \in {"insert", "rewrite"} => ValidPayment(ctx[r].amount, Outstanding(r))

(* Money never appears for an invoice that is gone: a payment row belongs to  *)
(* a live invoice, and so does every transaction that is about to write one.  *)
PaymentsHaveInvoice ==
  /\ \A k \in PayIds : pay[k] # Absent => pay[k].inv \in Invoices /\ live[pay[k].inv]
  /\ \A r \in Requests : pc[r] \in InTransaction => live[ctx[r].inv]

(* Whatever step makes the payments of an invoice grow leaves it not          *)
(* overpaid: advance and payments together stay within the total. (A total    *)
(* that is lowered, or an advance that is raised, may overpay it: the code    *)
(* validates neither.)                                                        *)
NoPaymentOverpays ==
  [][\A i \in Invoices :
       Received(i)' > Received(i) => (advance[i] + Received(i))' <= Billable(total[i])']_vars

(* Between requests the item rows of an invoice add up to the subtotal the    *)
(* invoice row shows.                                                         *)
ItemsMatchSubtotal ==
  (\A r \in Requests : pc[r] = "idle") =>
    \A i \in Invoices : live[i] => SumSeq(items[i]) = subtotal[i]

\* What the ledger promises, stated on whole invoices.
Account == INSTANCE InvoiceAccount WITH
  received <- [i \in Invoices |-> Received(i)]
RefinesAccount == Account!Spec
=============================================================================

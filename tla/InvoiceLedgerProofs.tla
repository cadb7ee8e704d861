------------------------ MODULE InvoiceLedgerProofs ------------------------
(* The payment transactions, for any number of requests, invoices and payment *)
(* rows and any amounts: their types and the row lock; that no payment        *)
(* overpays an invoice; and that the ledger implements InvoiceAccount.        *)
EXTENDS InvoiceLedger, SumsProofs, TLAPS

\* The item loop is left as soon as nothing is left to insert.
ItemLoop == \A r \in Requests : pc[r] = "addItem" => ctx[r].todo # << >>

TypeInv == TypeOK /\ ItemLoop

LEMMA SumSeqType == ASSUME NEW s \in Seq(Int) PROVE SumSeq(s) \in Int
  BY SumToType DEF SumSeq

LEMMA IdleType == Idle \in Contexts /\ NoData \in Edits /\ Absent \in PaymentRows
  BY LedgerAssumption DEF Idle, NoData, Contexts, Edits, Absent, PaymentRows

LEMMA ExceptType ==
  ASSUME NEW S, NEW T, NEW f \in [S -> T], NEW x, NEW v \in T
  PROVE  [f EXCEPT ![x] = v] \in [S -> T]
  OBVIOUS

LEMMA EmptyType == << >> \in Seq(Int)
  OBVIOUS

(* The building blocks of the actions, each with its effect and its type.     *)
LEMMA GotoEffect ==
  ASSUME TypeOK, NEW r \in Requests, NEW where \in Statements, Goto(r, where)
  PROVE  /\ pc' \in [Requests -> Statements] /\ pc'[r] = where
         /\ \A q \in Requests : q # r => pc'[q] = pc[q]
  BY DEF TypeOK, Goto

LEMMA FinishEffect ==
  ASSUME TypeOK, NEW r \in Requests, Finish(r)
  PROVE  /\ pc' \in [Requests -> Statements] /\ pc'[r] = "idle"
         /\ ctx' \in [Requests -> Contexts] /\ ctx'[r] = Idle
         /\ \A q \in Requests : q # r => pc'[q] = pc[q] /\ ctx'[q] = ctx[q]
<1>1. Goto(r, "idle") /\ ctx' = [ctx EXCEPT ![r] = Idle]
  BY DEF Finish
<1>2. "idle" \in Statements
  BY DEF Statements
<1>3. /\ pc' \in [Requests -> Statements] /\ pc'[r] = "idle"
      /\ \A q \in Requests : q # r => pc'[q] = pc[q]
  BY <1>1, <1>2, GotoEffect
<1>4. /\ ctx' \in [Requests -> Contexts] /\ ctx'[r] = Idle
      /\ \A q \in Requests : q # r => ctx'[q] = ctx[q]
  BY <1>1, IdleType DEF TypeOK
<1> QED BY <1>3, <1>4

LEMMA UnlockEffect ==
  ASSUME TypeOK, NEW r \in Requests, Unlock(r)
  PROVE  /\ lock' \in [Invoices -> Requests \cup {NoRequest}]
         /\ \A i \in Invoices : lock'[i] = IF lock[i] = r THEN NoRequest ELSE lock[i]
  BY DEF TypeOK, Unlock

LEMMA WriteInvoiceEffect ==
  ASSUME TypeOK, NEW r \in Requests, WriteInvoice(r)
  PROVE  /\ total' \in [Invoices -> Int] /\ advance' \in [Invoices -> Int]
         /\ subtotal' \in [Invoices -> Int]
<1>1. ctx[r].data \in Edits
  BY DEF TypeOK, Contexts
<1>2. \A old \in Int : /\ Or(ctx[r].data.total, old) \in Int
                       /\ Or(ctx[r].data.advance, old) \in Int
                       /\ Or(ctx[r].data.subtotal, old) \in Int
  BY <1>1 DEF Edits, Or
<1> QED BY <1>2 DEF TypeOK, WriteInvoice

(* The contexts the handlers start with.                                      *)
LEMMA BeginEffect ==
  ASSUME TypeOK, NEW r \in Requests, NEW i \in Invoices \cup {NoInvoice},
         NEW k \in PayIds \cup {NoPayment}, NEW amount \in Int,
         ctx' = [ctx EXCEPT ![r] = [Idle EXCEPT !.inv = i, !.pid = k, !.amount = amount]]
  PROVE  /\ ctx' \in [Requests -> Contexts]
         /\ ctx'[r].inv = i /\ ctx'[r].pid = k /\ ctx'[r].amount = amount
         /\ ctx'[r].data = NoData
         /\ \A q \in Requests : q # r => ctx'[q] = ctx[q]
  BY IdleType DEF TypeOK, Idle, Contexts

LEMMA InitTypeInv == Init => TypeInv
<1> SUFFICES ASSUME Init PROVE TypeInv
  OBVIOUS
<1>1. pc \in [Requests -> Statements] /\ ItemLoop
  BY DEF Init, Statements, ItemLoop
<1>2. pay \in [PayIds -> PaymentRows]
  BY IdleType DEF Init
<1>3. ctx \in [Requests -> Contexts]
  BY IdleType DEF Init
<1>4. items \in [Invoices -> Seq(Int)] /\ live \in [Invoices -> BOOLEAN]
  BY DEF Init
<1> QED BY <1>1, <1>2, <1>3, <1>4 DEF Init, TypeInv, TypeOK

LEMMA NextTypeInv == TypeInv /\ [Next]_vars => TypeInv'
<1> USE LedgerAssumption
<1> SUFFICES ASSUME TypeInv, [Next]_vars PROVE TypeInv'
  OBVIOUS
<1> USE DEF TypeInv, TypeOK, ItemLoop
<1>1. ASSUME NEW i \in Invoices, NEW list \in ItemLists, NEW newTotal \in Totals,
             NEW amount \in Amounts \cup {0}, CreateInvoice(i, list, newTotal, amount)
      PROVE  TypeInv'
  <2>1. list \in Seq(Int) /\ SumSeq(list) \in Int
    BY SumSeqType
  <2>2. pay' \in [PayIds -> PaymentRows]
    <3>0. amount \in Int
      OBVIOUS
    <3>1. [inv |-> i, amount |-> amount] \in PaymentRows
      BY <3>0 DEF PaymentRows
    <3>2. CASE amount = 0
      BY <1>1, <3>2 DEF CreateInvoice
    <3>3. CASE amount # 0
      BY <1>1, <3>1, <3>3, ExceptType DEF CreateInvoice
    <3> QED BY <3>2, <3>3
  <2> QED BY <1>1, <2>1, <2>2 DEF CreateInvoice
<1>2. ASSUME NEW r \in Requests, NEW i \in Invoices, NEW newItems \in ItemLists \cup {NoEdit},
             NEW newTotal \in Totals \cup {NoEdit}, NEW newAdvance \in Advances \cup {NoEdit},
             NEW amount \in Amounts \cup {0},
             BeginUpdate(r, i, newItems, newTotal, newAdvance, amount)
      PROVE  TypeInv'
  <2> DEFINE todo == IF newItems = NoEdit THEN << >> ELSE newItems
             sum == IF newItems = NoEdit THEN NoEdit ELSE SumSeq(newItems)
             tot == IF newTotal = NoEdit /\ newItems # NoEdit THEN SumSeq(newItems) ELSE newTotal
             data == [items |-> newItems, subtotal |-> sum, total |-> tot,
                      advance |-> newAdvance]
  <2>1. newItems # NoEdit => newItems \in Seq(Int) /\ SumSeq(newItems) \in Int
    BY SumSeqType
  <2>2. todo \in Seq(Int) /\ data \in Edits
    BY <2>1 DEF Edits
  <2>3. PICK k \in PayIds \cup {NoPayment} :
          ctx' = [ctx EXCEPT ![r] = [inv |-> i, pid |-> k, amount |-> amount,
                                     todo |-> todo, data |-> data]]
    BY <1>2 DEF BeginUpdate
  <2>4. ctx' \in [Requests -> Contexts]
    <3>0. amount \in Int /\ todo \in Seq(Int) /\ data \in Edits
      BY <2>2
    <3> HIDE DEF todo, data
    <3>1. [inv |-> i, pid |-> k, amount |-> amount, todo |-> todo, data |-> data] \in Contexts
      BY <3>0 DEF Contexts
    <3> QED BY <2>3, <3>1, ExceptType
  <2>5. pc' \in [Requests -> Statements] /\ pc'[r] # "addItem" /\ \A q \in Requests : q # r => pc'[q] = pc[q]
    BY <1>2 DEF BeginUpdate, Goto, Statements
  <2>6. ItemLoop'
    BY <2>3, <2>5
  <2> QED BY <1>2, <2>4, <2>5, <2>6 DEF BeginUpdate, invoiceRows
<1>3. ASSUME NEW r \in Requests, NEW i \in Invoices, NEW amount \in Amounts,
             BeginPayment(r, i, amount)
      PROVE  TypeInv'
  <2>1. Goto(r, "lock") /\ "lock" \in Statements
    BY <1>3 DEF BeginPayment, Statements
  <2>2. ctx' \in [Requests -> Contexts] /\ \A q \in Requests : q # r => ctx'[q] = ctx[q]
    BY <1>3, BeginEffect DEF BeginPayment
  <2> QED BY <1>3, <2>1, <2>2, GotoEffect DEF BeginPayment, invoiceRows
<1>4. ASSUME NEW r \in Requests, NEW k \in PayIds, NEW amount \in Amounts, BeginEdit(r, k, amount)
      PROVE  TypeInv'
  <2>1. Goto(r, "lockEdit") /\ "lockEdit" \in Statements
    BY <1>4 DEF BeginEdit, Statements
  <2>2. ctx' \in [Requests -> Contexts] /\ \A q \in Requests : q # r => ctx'[q] = ctx[q]
    <3>1. pay[k].inv \in Invoices \cup {NoInvoice} /\ amount \in Int
      BY DEF PaymentRows
    <3> QED BY <1>4, <3>1, BeginEffect DEF BeginEdit
  <2> QED BY <1>4, <2>1, <2>2, GotoEffect DEF BeginEdit, invoiceRows
<1>5. ASSUME NEW r \in Requests, NEW k \in PayIds, BeginDeletePayment(r, k)
      PROVE  TypeInv'
  <2>1. Goto(r, "deletePayment") /\ "deletePayment" \in Statements
    BY <1>5 DEF BeginDeletePayment, Statements
  <2>2. ctx' \in [Requests -> Contexts] /\ \A q \in Requests : q # r => ctx'[q] = ctx[q]
    <3>1. [Idle EXCEPT !.inv = pay[k].inv, !.pid = k] \in Contexts
      BY IdleType DEF Idle, Contexts, PaymentRows
    <3> QED BY <1>5, <3>1, ExceptType DEF BeginDeletePayment
  <2> QED BY <1>5, <2>1, <2>2, GotoEffect DEF BeginDeletePayment, invoiceRows
<1>6. ASSUME NEW r \in Requests, NEW i \in Invoices, BeginDeleteInvoice(r, i)
      PROVE  TypeInv'
  <2>1. Goto(r, "deleteInvoice") /\ "deleteInvoice" \in Statements
    BY <1>6 DEF BeginDeleteInvoice, Statements
  <2>2. ctx' \in [Requests -> Contexts] /\ \A q \in Requests : q # r => ctx'[q] = ctx[q]
    <3>1. [Idle EXCEPT !.inv = i] \in Contexts
      BY IdleType DEF Idle, Contexts, PaymentRows
    <3> QED BY <1>6, <3>1, ExceptType DEF BeginDeleteInvoice
  <2> QED BY <1>6, <2>1, <2>2, GotoEffect DEF BeginDeleteInvoice, invoiceRows
<1>7. ASSUME NEW r \in Requests, DeleteItems(r) PROVE TypeInv'
  <2>1. items' \in [Invoices -> Seq(Int)]
    BY <1>7, EmptyType, ExceptType DEF DeleteItems
  <2>2. /\ pc' \in [Requests -> Statements]
        /\ pc'[r] = "addItem" => ctx[r].todo # << >>
        /\ \A q \in Requests : q # r => pc'[q] = pc[q]
    BY <1>7 DEF DeleteItems, AfterItems, Goto, Statements
  <2> QED BY <1>7, <2>1, <2>2 DEF DeleteItems, invoiceRows
<1>8. ASSUME NEW r \in Requests, AddItem(r) PROVE TypeInv'
  <2>1. ctx[r].todo \in Seq(Int) /\ ctx[r].todo # << >>
    BY <1>8 DEF AddItem, Contexts
  <2>2. Head(ctx[r].todo) \in Int /\ Tail(ctx[r].todo) \in Seq(Int)
    BY <2>1
  <2>3. CASE live[ctx[r].inv]
    <3>1. items' \in [Invoices -> Seq(Int)]
      <4>1. items' = [items EXCEPT ![ctx[r].inv] = Append(@, Head(ctx[r].todo))]
        BY <1>8, <2>3 DEF AddItem
      <4>2. \A s \in Seq(Int) : Append(s, Head(ctx[r].todo)) \in Seq(Int)
        BY <2>2
      <4> QED BY <4>1, <4>2
    <3>2. /\ ctx' \in [Requests -> Contexts] /\ ctx'[r].todo = Tail(ctx[r].todo)
          /\ \A q \in Requests : q # r => ctx'[q] = ctx[q]
      <4>1. ctx' = [ctx EXCEPT ![r] = [ctx[r] EXCEPT !.todo = Tail(ctx[r].todo)]]
        BY <1>8, <2>3 DEF AddItem
      <4>2. ctx[r] \in Contexts
        OBVIOUS
      <4>3. [ctx[r] EXCEPT !.todo = Tail(ctx[r].todo)] \in Contexts
        BY <2>2, <4>2 DEF Contexts
      <4>4. ctx'[r] = [ctx[r] EXCEPT !.todo = Tail(ctx[r].todo)]
        BY <4>1
      <4>5. ctx'[r].todo = Tail(ctx[r].todo)
        BY <4>2, <4>4 DEF Contexts
      <4> QED BY <4>1, <4>3, <4>5, ExceptType
    <3>3. /\ pc' \in [Requests -> Statements]
          /\ pc'[r] = "addItem" => Tail(ctx[r].todo) # << >>
          /\ \A q \in Requests : q # r => pc'[q] = pc[q]
      BY <1>8, <2>3 DEF AddItem, AfterItems, Goto, Statements
    <3> QED BY <1>8, <3>1, <3>2, <3>3 DEF AddItem, invoiceRows
  <2>4. CASE ~live[ctx[r].inv]
    BY <1>8, <2>4, FinishEffect DEF AddItem, invoiceRows
  <2> QED BY <2>3, <2>4
<1>9. ASSUME NEW r \in Requests, Update(r) PROVE TypeInv'
  <2>1. /\ total' \in [Invoices -> Int] /\ advance' \in [Invoices -> Int]
        /\ subtotal' \in [Invoices -> Int]
    BY <1>9, WriteInvoiceEffect DEF Update
  <2> QED BY <1>9, <2>1, FinishEffect DEF Update
<1>10. ASSUME NEW r \in Requests, Lock(r) PROVE TypeInv'
  <2>1. PICK next \in {"validate", "validateEdit"} : Take(r, next)
    BY <1>10 DEF Lock
  <2>2. CASE live[ctx[r].inv]
    <3>1. lock' \in [Invoices -> Requests \cup {NoRequest}]
      BY <2>1, <2>2 DEF Take
    <3>2. Goto(r, next) /\ next \in Statements /\ UNCHANGED ctx
      BY <2>1, <2>2 DEF Take, Statements, InTransaction
    <3> QED BY <1>10, <3>1, <3>2, GotoEffect DEF Lock, invoiceRows
  <2>3. CASE ~live[ctx[r].inv]
    BY <1>10, <2>1, <2>3, FinishEffect DEF Lock, Take, invoiceRows
  <2> QED BY <2>2, <2>3
<1>11. ASSUME NEW r \in Requests, Validate(r) PROVE TypeInv'
  <2>1. CASE ValidPayment(ctx[r].amount, Outstanding(r))
    <3>1. PICK next \in {"insert", "rewrite"} : Goto(r, next)
      BY <1>11, <2>1 DEF Validate
    <3>2. next \in Statements
      BY DEF Statements, InTransaction
    <3> QED BY <1>11, <2>1, <3>1, <3>2, GotoEffect DEF Validate, invoiceRows
  <2>2. CASE ~ValidPayment(ctx[r].amount, Outstanding(r))
    BY <1>11, <2>2, FinishEffect, UnlockEffect DEF Validate, invoiceRows
  <2> QED BY <2>1, <2>2
<1>12. ASSUME NEW r \in Requests, Insert(r) PROVE TypeInv'
  <2>1. pay' \in [PayIds -> PaymentRows]
    <3>1. [inv |-> ctx[r].inv, amount |-> ctx[r].amount] \in PaymentRows
      BY DEF Contexts, PaymentRows
    <3> QED BY <1>12, <3>1, ExceptType DEF Insert
  <2> QED BY <1>12, <2>1, WriteInvoiceEffect, FinishEffect, UnlockEffect DEF Insert
<1>13. ASSUME NEW r \in Requests, Rewrite(r) PROVE TypeInv'
  <2>1. pay' \in [PayIds -> PaymentRows]
    <3>1. ctx[r].amount \in Int
      BY DEF Contexts
    <3>2. CASE pay[ctx[r].pid] = Absent
      BY <1>13, <3>2 DEF Rewrite
    <3>3. CASE pay[ctx[r].pid] # Absent
      BY <1>13, <3>1, <3>3 DEF Rewrite, PaymentRows
    <3> QED BY <3>2, <3>3
  <2> QED BY <1>13, <2>1, FinishEffect, UnlockEffect DEF Rewrite, invoiceRows
<1>14. ASSUME NEW r \in Requests, DeletePayment(r) PROVE TypeInv'
  <2>1. pay' \in [PayIds -> PaymentRows]
    BY <1>14, IdleType, ExceptType DEF DeletePayment
  <2> QED BY <1>14, <2>1, FinishEffect DEF DeletePayment, invoiceRows
<1>15. ASSUME NEW r \in Requests, DeleteInvoice(r) PROVE TypeInv'
  <2>1. pay' \in [PayIds -> PaymentRows]
    BY <1>15, IdleType DEF DeleteInvoice, Cascade
  <2>2. /\ live' \in [Invoices -> BOOLEAN] /\ items' \in [Invoices -> Seq(Int)]
        /\ total' \in [Invoices -> Int] /\ advance' \in [Invoices -> Int]
        /\ subtotal' \in [Invoices -> Int]
    BY <1>15, EmptyType, ExceptType DEF DeleteInvoice
  <2> QED BY <1>15, <2>1, <2>2, FinishEffect DEF DeleteInvoice
<1>16. ASSUME NEW r \in Requests, Abort(r) PROVE TypeInv'
  BY <1>16, FinishEffect, UnlockEffect DEF Abort, invoiceRows
<1>17. ASSUME UNCHANGED vars PROVE TypeInv'
  BY <1>17 DEF vars
<1> QED
  BY <1>1, <1>2, <1>3, <1>4, <1>5, <1>6, <1>7, <1>8, <1>9, <1>10, <1>11, <1>12, <1>13,
     <1>14, <1>15, <1>16, <1>17 DEF Next, Create, Begin, Step

(* Every variable keeps its type; in particular the item loop never takes the *)
(* tail of an empty list and no column is overwritten with a missing value.   *)
THEOREM TypeCorrect == Spec => []TypeOK
<1>1. Spec => []TypeInv
  BY InitTypeInv, NextTypeInv, PTL DEF Spec
<1> QED BY <1>1, PTL DEF TypeInv

----------------------------------------------------------------------------
(* LockDiscipline needs nothing but the types: a request enters a transaction *)
(* only by taking a free lock and leaves it only by releasing every lock of   *)
(* its own. Steps that touch neither the locks nor who is inside keep it.     *)
LEMMA LockUntouched ==
  ASSUME TypeOK, LockDiscipline, NEW r \in Requests, UNCHANGED lock,
         pc[r] \notin InTransaction, pc'[r] \notin InTransaction,
         \A q \in Requests : q # r => pc'[q] = pc[q] /\ ctx'[q] = ctx[q]
  PROVE  LockDiscipline'
<1> SUFFICES ASSUME NEW q \in Requests, NEW i \in Invoices
             PROVE  lock'[i] = q <=> pc'[q] \in InTransaction /\ ctx'[q].inv = i
  BY DEF LockDiscipline
<1>1. lock[i] = q <=> pc[q] \in InTransaction /\ ctx[q].inv = i
  BY DEF LockDiscipline
<1>2. CASE q = r
  BY <1>1, <1>2
<1>3. CASE q # r
  BY <1>1, <1>3
<1> QED BY <1>2, <1>3

LEMMA LockReleased ==
  ASSUME TypeOK, LockDiscipline, NEW r \in Requests, Finish(r), Unlock(r)
  PROVE  LockDiscipline'
<1>1. /\ pc'[r] = "idle"
      /\ \A q \in Requests : q # r => pc'[q] = pc[q] /\ ctx'[q] = ctx[q]
  BY FinishEffect
<1>2. \A i \in Invoices : lock'[i] = IF lock[i] = r THEN NoRequest ELSE lock[i]
  BY UnlockEffect
<1>3. "idle" \notin InTransaction
  BY DEF InTransaction
<1> SUFFICES ASSUME NEW q \in Requests, NEW i \in Invoices
             PROVE  lock'[i] = q <=> pc'[q] \in InTransaction /\ ctx'[q].inv = i
  BY DEF LockDiscipline
<1>4. lock[i] = q <=> pc[q] \in InTransaction /\ ctx[q].inv = i
  BY DEF LockDiscipline
<1>5. q # NoRequest /\ r # NoRequest
  BY LedgerAssumption
<1>6. CASE q = r
  BY <1>1, <1>2, <1>3, <1>5, <1>6
<1>7. CASE q # r
  BY <1>1, <1>2, <1>4, <1>5, <1>7
<1> QED BY <1>6, <1>7

LEMMA NextLockDiscipline == TypeInv /\ LockDiscipline /\ [Next]_vars => LockDiscipline'
<1> SUFFICES ASSUME TypeInv, LockDiscipline, [Next]_vars PROVE LockDiscipline'
  OBVIOUS
<1> USE DEF TypeInv
<1>0. /\ TypeOK
      /\ InTransaction \cap {"idle", "deleteItems", "addItem", "update", "lock", "lockEdit",
                             "deletePayment", "deleteInvoice"} = {}
  BY DEF InTransaction
<1>1. ASSUME NEW i \in Invoices, NEW list \in ItemLists, NEW newTotal \in Totals,
             NEW amount \in Amounts \cup {0}, CreateInvoice(i, list, newTotal, amount)
      PROVE  LockDiscipline'
  BY <1>1 DEF CreateInvoice, LockDiscipline
<1>2. ASSUME NEW r \in Requests, NEW i \in Invoices, NEW newItems \in ItemLists \cup {NoEdit},
             NEW newTotal \in Totals \cup {NoEdit}, NEW newAdvance \in Advances \cup {NoEdit},
             NEW amount \in Amounts \cup {0},
             BeginUpdate(r, i, newItems, newTotal, newAdvance, amount)
      PROVE  LockDiscipline'
  <2>1. /\ pc[r] = "idle" /\ pc'[r] \in {"deleteItems", "lock", "update"} /\ UNCHANGED lock
        /\ \A q \in Requests : q # r => pc'[q] = pc[q] /\ ctx'[q] = ctx[q]
    BY <1>0, <1>2 DEF BeginUpdate, Goto, TypeOK
  <2> QED BY <1>0, <2>1, LockUntouched
<1>3. ASSUME NEW r \in Requests, NEW i \in Invoices, NEW amount \in Amounts,
             BeginPayment(r, i, amount)
      PROVE  LockDiscipline'
  <2>1. /\ pc[r] = "idle" /\ pc'[r] = "lock" /\ UNCHANGED lock
        /\ \A q \in Requests : q # r => pc'[q] = pc[q] /\ ctx'[q] = ctx[q]
    BY <1>0, <1>3 DEF BeginPayment, Goto, TypeOK
  <2> QED BY <1>0, <2>1, LockUntouched
<1>4. ASSUME NEW r \in Requests, NEW k \in PayIds, NEW amount \in Amounts, BeginEdit(r, k, amount)
      PROVE  LockDiscipline'
  <2>1. /\ pc[r] = "idle" /\ pc'[r] = "lockEdit" /\ UNCHANGED lock
        /\ \A q \in Requests : q # r => pc'[q] = pc[q] /\ ctx'[q] = ctx[q]
    BY <1>0, <1>4 DEF BeginEdit, Goto, TypeOK
  <2> QED BY <1>0, <2>1, LockUntouched
<1>5. ASSUME NEW r \in Requests, NEW k \in PayIds, BeginDeletePayment(r, k)
      PROVE  LockDiscipline'
  <2>1. /\ pc[r] = "idle" /\ pc'[r] = "deletePayment" /\ UNCHANGED lock
        /\ \A q \in Requests : q # r => pc'[q] = pc[q] /\ ctx'[q] = ctx[q]
    BY <1>0, <1>5 DEF BeginDeletePayment, Goto, TypeOK
  <2> QED BY <1>0, <2>1, LockUntouched
<1>6. ASSUME NEW r \in Requests, NEW i \in Invoices, BeginDeleteInvoice(r, i)
      PROVE  LockDiscipline'
  <2>1. /\ pc[r] = "idle" /\ pc'[r] = "deleteInvoice" /\ UNCHANGED lock
        /\ \A q \in Requests : q # r => pc'[q] = pc[q] /\ ctx'[q] = ctx[q]
    BY <1>0, <1>6 DEF BeginDeleteInvoice, Goto, TypeOK
  <2> QED BY <1>0, <2>1, LockUntouched
<1>7. ASSUME NEW r \in Requests, DeleteItems(r) PROVE LockDiscipline'
  <2>1. /\ pc[r] = "deleteItems" /\ pc'[r] \in {"addItem", "lock", "update"} /\ UNCHANGED lock
        /\ \A q \in Requests : q # r => pc'[q] = pc[q] /\ ctx'[q] = ctx[q]
    BY <1>0, <1>7 DEF DeleteItems, AfterItems, Goto, TypeOK
  <2> QED BY <1>0, <2>1, LockUntouched
<1>8. ASSUME NEW r \in Requests, AddItem(r) PROVE LockDiscipline'
  <2>1. /\ pc[r] = "addItem" /\ pc'[r] \in {"addItem", "lock", "update", "idle"} /\ UNCHANGED lock
        /\ \A q \in Requests : q # r => pc'[q] = pc[q] /\ ctx'[q] = ctx[q]
    BY <1>0, <1>8 DEF AddItem, AfterItems, Finish, Goto, TypeOK
  <2> QED BY <1>0, <2>1, LockUntouched
<1>9. ASSUME NEW r \in Requests,
             Finish(r), UNCHANGED lock, pc[r] \in {"update", "deletePayment", "deleteInvoice"}
      PROVE  LockDiscipline'
  <2>1. /\ pc'[r] = "idle"
        /\ \A q \in Requests : q # r => pc'[q] = pc[q] /\ ctx'[q] = ctx[q]
    BY <1>0, <1>9, FinishEffect
  <2> QED BY <1>0, <1>9, <2>1, LockUntouched
<1>10. ASSUME NEW r \in Requests, Lock(r) PROVE LockDiscipline'
  <2>1. PICK next \in {"validate", "validateEdit"} : Take(r, next)
    BY <1>10 DEF Lock
  <2>2. pc[r] \in {"lock", "lockEdit"} /\ lock[ctx[r].inv] = NoRequest
    BY <1>10 DEF Lock
  <2>3. CASE live[ctx[r].inv]
    <3>1. /\ lock' = [lock EXCEPT ![ctx[r].inv] = r] /\ UNCHANGED ctx
          /\ pc'[r] = next /\ next \in InTransaction
          /\ \A q \in Requests : q # r => pc'[q] = pc[q]
      BY <1>0, <2>1, <2>3 DEF Take, Goto, TypeOK, InTransaction
    <3>2. \A i \in Invoices : lock[i] # r
      BY <1>0, <2>2 DEF LockDiscipline
    <3> SUFFICES ASSUME NEW q \in Requests, NEW i \in Invoices
                 PROVE  lock'[i] = q <=> pc'[q] \in InTransaction /\ ctx'[q].inv = i
      BY DEF LockDiscipline
    <3>3. lock[i] = q <=> pc[q] \in InTransaction /\ ctx[q].inv = i
      BY DEF LockDiscipline
    <3>4. lock'[i] = IF i = ctx[r].inv THEN r ELSE lock[i]
      BY <1>0, <3>1 DEF TypeOK
    <3>5. q # NoRequest
      BY LedgerAssumption
    <3>6. CASE q = r
      BY <3>1, <3>2, <3>4, <3>6
    <3>7. CASE q # r
      BY <2>2, <3>1, <3>3, <3>4, <3>5, <3>7
    <3> QED BY <3>6, <3>7
  <2>4. CASE ~live[ctx[r].inv]
    <3>1. Finish(r) /\ UNCHANGED lock
      BY <2>1, <2>4 DEF Take
    <3>2. /\ pc'[r] = "idle"
          /\ \A q \in Requests : q # r => pc'[q] = pc[q] /\ ctx'[q] = ctx[q]
      BY <1>0, <3>1, FinishEffect
    <3> QED BY <1>0, <2>2, <3>1, <3>2, LockUntouched
  <2> QED BY <2>3, <2>4
<1>11. ASSUME NEW r \in Requests, Validate(r) PROVE LockDiscipline'
  <2>1. CASE ValidPayment(ctx[r].amount, Outstanding(r))
    <3>1. /\ pc[r] \in InTransaction /\ pc'[r] \in InTransaction
          /\ UNCHANGED <<ctx, lock>>
          /\ \A q \in Requests : q # r => pc'[q] = pc[q]
      BY <1>0, <1>11, <2>1 DEF Validate, Goto, TypeOK, InTransaction
    <3> QED BY <3>1 DEF LockDiscipline
  <2>2. CASE ~ValidPayment(ctx[r].amount, Outstanding(r))
    BY <1>0, <1>11, <2>2, LockReleased DEF Validate
  <2> QED BY <2>1, <2>2
<1>12. ASSUME NEW r \in Requests, Insert(r) \/ Rewrite(r) \/ Abort(r) PROVE LockDiscipline'
  BY <1>0, <1>12, LockReleased DEF Insert, Rewrite, Abort
<1>13. ASSUME UNCHANGED vars PROVE LockDiscipline'
  BY <1>13 DEF vars, LockDiscipline
<1>14. ASSUME NEW r \in Requests, Update(r) \/ DeletePayment(r) \/ DeleteInvoice(r)
       PROVE  LockDiscipline'
  BY <1>9, <1>14 DEF Update, DeletePayment, DeleteInvoice
<1> QED
  BY <1>1, <1>2, <1>3, <1>4, <1>5, <1>6, <1>7, <1>8, <1>10, <1>11, <1>12, <1>13, <1>14
     DEF Next, Create, Begin, Step

(* SELECT ... FOR UPDATE: at most one request at a time is between taking the *)
(* row lock of an invoice and committing, whatever else runs or dies.         *)
THEOREM LockCorrect == Spec => []LockDiscipline
<1>1. Init => LockDiscipline
  BY LedgerAssumption DEF Init, LockDiscipline, InTransaction
<1>2. Spec => [](TypeInv /\ LockDiscipline)
  BY <1>1, InitTypeInv, NextTypeInv, NextLockDiscipline, PTL DEF Spec
<1> QED BY <1>2, PTL
----------------------------------------------------------------------------
(* No payment overpays an invoice. The argument: the row lock keeps total,    *)
(* advance and larger payments of a locked invoice out of everybody else's    *)
(* reach, so what the balance check saw can only get better until the payment *)
(* is committed.                                                              *)

\* A request on its way to inserting a payment row, or to changing one.
Inserting(r) ==
  \/ pc[r] \in {"lock", "validate", "insert"}
  \/ pc[r] \in {"deleteItems", "addItem"} /\ ctx[r].amount > 0
Editing(r) == pc[r] \in {"lockEdit", "validateEdit", "rewrite"}

\* What a request holds in its hand: the invoice it names, a fresh id nobody
\* else uses, or a row of that very invoice (or one that is gone by now).
HandOK(r) ==
  /\ pc[r] # "idle" => ctx[r].inv \in Invoices
  /\ Inserting(r) => /\ ctx[r].pid \in PayIds /\ pay[ctx[r].pid] = Absent
                     /\ \A q \in Requests : q # r => ctx[q].pid # ctx[r].pid
  /\ Editing(r) => /\ ctx[r].pid \in PayIds /\ ctx[r].data = NoData
                   /\ pay[ctx[r].pid] = Absent \/ pay[ctx[r].pid].inv = ctx[r].inv
RowsInHand == \A r \in Requests : HandOK(r)

PaymentsArePositive == \A k \in PayIds : pay[k] # Absent => pay[k].amount > 0

RowsInv == PaymentsHaveInvoice /\ PaymentsArePositive /\ RowsInHand

MoneyInv ==
  /\ TypeInv /\ LockDiscipline
  /\ RowsInv
  /\ AcceptedPaymentStillFits
----------------------------------------------------------------------------
LEMMA AbsentHasNoInvoice == Absent.inv = NoInvoice /\ NoInvoice \notin Invoices
  BY LedgerAssumption DEF Absent

\* How a step may change the payment rows without disturbing request q.
RowsKeptFor(q) ==
  \A k \in PayIds :
    \/ pay'[k] = pay[k]
    \/ pay'[k] = Absent
    \/ pay[k] # Absent /\ pay'[k].inv = pay[k].inv /\ pay'[k] # Absent
    \/ ctx[q].pid # k

(* What a request holds in its hand survives the steps of the others.         *)
LEMMA HandKept ==
  ASSUME NEW q \in Requests, HandOK(q), pc'[q] = pc[q], ctx'[q] = ctx[q], RowsKeptFor(q),
         Inserting(q) => \A p \in Requests : p # q => ctx'[p].pid # ctx[q].pid
  PROVE  HandOK(q)'
<1>1. Inserting(q)' <=> Inserting(q)
  BY DEF Inserting
<1>2. Editing(q)' <=> Editing(q)
  BY DEF Editing
<1>3. pc'[q] # "idle" => ctx'[q].inv \in Invoices
  BY DEF HandOK
<1>4. ASSUME Inserting(q)
      PROVE  /\ ctx'[q].pid \in PayIds /\ pay'[ctx'[q].pid] = Absent
             /\ \A p \in Requests : p # q => ctx'[p].pid # ctx'[q].pid
  BY <1>4 DEF HandOK, RowsKeptFor
<1>5. ASSUME Editing(q)
      PROVE  /\ ctx'[q].pid \in PayIds /\ ctx'[q].data = NoData
             /\ pay'[ctx'[q].pid] = Absent \/ pay'[ctx'[q].pid].inv = ctx'[q].inv
  BY <1>5 DEF HandOK, RowsKeptFor
<1> QED BY <1>1, <1>2, <1>3, <1>4, <1>5 DEF HandOK

(* So it does when the acting request only takes a fresh id, an existing row, *)
(* no row, or keeps the one it had.                                           *)
LEMMA OthersKept ==
  ASSUME RowsInHand, NEW r \in Requests,
         \A q \in Requests : q # r => pc'[q] = pc[q] /\ ctx'[q] = ctx[q] /\ RowsKeptFor(q),
         \/ ctx'[r].pid \in {ctx[r].pid, NoPayment}
         \/ ctx'[r].pid \in PayIds /\ pay[ctx'[r].pid] # Absent
         \/ FreeId(ctx'[r].pid)
  PROVE  \A q \in Requests : q # r => HandOK(q)'
<1> SUFFICES ASSUME NEW q \in Requests, q # r PROVE HandOK(q)'
  OBVIOUS
<1>1. HandOK(q) /\ RowsKeptFor(q) /\ pc'[q] = pc[q] /\ ctx'[q] = ctx[q]
  BY DEF RowsInHand
<1>2. ASSUME Inserting(q), NEW p \in Requests, p # q PROVE ctx'[p].pid # ctx[q].pid
  <2>1. /\ ctx[q].pid \in PayIds /\ pay[ctx[q].pid] = Absent /\ ctx[p].pid # ctx[q].pid
        /\ ctx[r].pid # ctx[q].pid
    BY <1>1, <1>2 DEF HandOK
  <2>2. CASE p # r
    BY <2>1, <2>2
  <2>3. CASE p = r
    <3>1. ctx[q].pid # NoPayment
      BY <2>1 DEF PayIds, NoPayment
    <3>2. FreeId(ctx'[r].pid) => ctx[q].pid # ctx'[r].pid
      BY DEF FreeId
    <3> QED BY <2>1, <2>3, <3>1, <3>2
  <2> QED BY <2>2, <2>3
<1> QED BY <1>1, <1>2, HandKept

(* Steps that change neither payment rows nor which invoices exist.           *)
LEMMA QuietStep ==
  ASSUME RowsInv, NEW r \in Requests, UNCHANGED <<live, pay>>,
         \A q \in Requests : q # r => pc'[q] = pc[q] /\ ctx'[q] = ctx[q],
         pc'[r] \in InTransaction => live[ctx'[r].inv],
         \/ ctx'[r].pid \in {ctx[r].pid, NoPayment}
         \/ ctx'[r].pid \in PayIds /\ pay[ctx'[r].pid] # Absent
         \/ FreeId(ctx'[r].pid),
         HandOK(r)'
  PROVE  RowsInv'
<1>1. PaymentsHaveInvoice'
  BY DEF RowsInv, PaymentsHaveInvoice
<1>2. PaymentsArePositive'
  BY DEF RowsInv, PaymentsArePositive
<1>3. \A q \in Requests : q # r => HandOK(q)'
  <2>1. \A q \in Requests : RowsKeptFor(q)
    BY DEF RowsKeptFor
  <2> QED BY <2>1, OthersKept DEF RowsInv
<1> QED BY <1>1, <1>2, <1>3 DEF RowsInv, RowsInHand

(* A request that ends, whether or not it releases a lock.                    *)
LEMMA QuietEnd ==
  ASSUME TypeOK, RowsInv, NEW r \in Requests, UNCHANGED <<live, pay>>, Finish(r)
  PROVE  RowsInv'
<1>1. /\ pc'[r] = "idle" /\ ctx'[r] = Idle
      /\ \A q \in Requests : q # r => pc'[q] = pc[q] /\ ctx'[q] = ctx[q]
  BY FinishEffect
<1>2. pc'[r] \notin InTransaction /\ ctx'[r].pid = NoPayment
  BY <1>1 DEF InTransaction, Idle
<1>3. HandOK(r)'
  BY <1>1 DEF HandOK, Inserting, Editing
<1> QED BY <1>1, <1>2, <1>3, QuietStep

\* A request begins: it gets a memory and a first statement.
Opens(r) ==
  /\ \E where \in {"deleteItems", "lock", "update", "lockEdit", "deletePayment",
                   "deleteInvoice"} : Goto(r, where)
  /\ \E hand : ctx' = [ctx EXCEPT ![r] = hand]

LEMMA BeginOpens ==
  ASSUME NEW r \in Requests, Begin(r)
  PROVE  UNCHANGED <<live, total, advance, pay>> /\ pc[r] = "idle" /\ Opens(r)
<1>1. ASSUME NEW i, NEW newItems, NEW newTotal, NEW newAdvance, NEW amount, BeginUpdate(r, i, newItems, newTotal, newAdvance, amount)
      PROVE  UNCHANGED <<live, total, advance, pay>> /\ pc[r] = "idle" /\ Opens(r)
  BY <1>1 DEF BeginUpdate, Opens, invoiceRows
<1>2. ASSUME NEW i, NEW amount, BeginPayment(r, i, amount)
      PROVE  UNCHANGED <<live, total, advance, pay>> /\ pc[r] = "idle" /\ Opens(r)
  BY <1>2 DEF BeginPayment, Opens, invoiceRows
<1>3. ASSUME NEW k, NEW amount, BeginEdit(r, k, amount)
      PROVE  UNCHANGED <<live, total, advance, pay>> /\ pc[r] = "idle" /\ Opens(r)
  BY <1>3 DEF BeginEdit, Opens, invoiceRows
<1>4. ASSUME NEW k, BeginDeletePayment(r, k)
      PROVE  UNCHANGED <<live, total, advance, pay>> /\ pc[r] = "idle" /\ Opens(r)
  BY <1>4 DEF BeginDeletePayment, Opens, invoiceRows
<1>5. ASSUME NEW i, BeginDeleteInvoice(r, i)
      PROVE  UNCHANGED <<live, total, advance, pay>> /\ pc[r] = "idle" /\ Opens(r)
  BY <1>5 DEF BeginDeleteInvoice, Opens, invoiceRows
<1> QED BY <1>1, <1>2, <1>3, <1>4, <1>5 DEF Begin

LEMMA BeginKeepsRows ==
  ASSUME TypeOK, RowsInv, NEW r \in Requests, Begin(r)
  PROVE  RowsInv'
<1> USE LedgerAssumption
<1>0. /\ UNCHANGED <<live, pay>> /\ pc[r] = "idle"
      /\ \A q \in Requests : q # r => pc'[q] = pc[q] /\ ctx'[q] = ctx[q]
  <2>1. UNCHANGED <<live, pay>> /\ pc[r] = "idle" /\ Opens(r)
    BY BeginOpens
  <2> QED BY <2>1 DEF Opens, Goto, TypeOK
<1>1. ASSUME NEW i \in Invoices, NEW newItems \in ItemLists \cup {NoEdit},
             NEW newTotal \in Totals \cup {NoEdit}, NEW newAdvance \in Advances \cup {NoEdit},
             NEW amount \in Amounts \cup {0},
             BeginUpdate(r, i, newItems, newTotal, newAdvance, amount)
      PROVE  RowsInv'
  <2>1. PICK k \in PayIds \cup {NoPayment} :
          /\ IF amount > 0 THEN NextId(k) ELSE k = NoPayment
          /\ ctx'[r].inv = i /\ ctx'[r].pid = k /\ ctx'[r].amount = amount
    BY <1>1 DEF BeginUpdate, TypeOK
  <2>2. pc'[r] \in {"deleteItems", "lock", "update"} /\ (pc'[r] = "lock" => amount > 0)
    BY <1>1 DEF BeginUpdate, Goto, TypeOK
  <2>3. CASE amount > 0
    <3>1. k \in PayIds /\ FreeId(k)
      BY <2>1, <2>3 DEF NextId
    <3>2. HandOK(r)'
      BY <1>0, <2>1, <2>2, <3>1 DEF HandOK, Editing, FreeId
    <3> QED BY <1>0, <2>1, <2>2, <3>1, <3>2, QuietStep DEF InTransaction
  <2>4. CASE ~(amount > 0)
    <3>1. HandOK(r)'
      BY <2>1, <2>2, <2>4 DEF HandOK, Inserting, Editing
    <3> QED BY <1>0, <2>1, <2>2, <2>4, <3>1, QuietStep DEF InTransaction
  <2> QED BY <2>3, <2>4
<1>2. ASSUME NEW i \in Invoices, NEW amount \in Amounts, BeginPayment(r, i, amount)
      PROVE  RowsInv'
  <2>1. PICK k \in PayIds :
          NextId(k) /\ ctx' = [ctx EXCEPT ![r] =
                                 [Idle EXCEPT !.inv = i, !.pid = k, !.amount = amount]]
    BY <1>2 DEF BeginPayment
  <2>2. ctx'[r].inv = i /\ ctx'[r].pid = k /\ FreeId(k) /\ pc'[r] = "lock"
    BY <1>2, <2>1 DEF BeginPayment, Goto, TypeOK, NextId, Idle
  <2>3. HandOK(r)'
    BY <1>0, <2>2 DEF HandOK, Editing, FreeId
  <2> QED BY <1>0, <2>2, <2>3, QuietStep DEF InTransaction
<1>3. ASSUME NEW k \in PayIds, NEW amount \in Amounts, BeginEdit(r, k, amount)
      PROVE  RowsInv'
  <2>1. /\ ctx'[r].inv = pay[k].inv /\ ctx'[r].pid = k /\ ctx'[r].data = NoData
        /\ pay[k] # Absent /\ pc'[r] = "lockEdit"
    BY <1>3 DEF BeginEdit, Goto, TypeOK, Idle
  <2>2. pay[k].inv \in Invoices
    BY <2>1 DEF RowsInv, PaymentsHaveInvoice
  <2>3. HandOK(r)'
    BY <1>0, <2>1, <2>2 DEF HandOK, Inserting
  <2> QED BY <1>0, <2>1, <2>3, QuietStep DEF InTransaction
<1>4. ASSUME NEW k \in PayIds, BeginDeletePayment(r, k)
      PROVE  RowsInv'
  <2>1. /\ ctx'[r].inv = pay[k].inv /\ ctx'[r].pid = k
        /\ pay[k] # Absent /\ pc'[r] = "deletePayment"
    BY <1>4 DEF BeginDeletePayment, Goto, TypeOK, Idle
  <2>2. pay[k].inv \in Invoices
    BY <2>1 DEF RowsInv, PaymentsHaveInvoice
  <2>3. HandOK(r)'
    BY <2>1, <2>2 DEF HandOK, Inserting, Editing
  <2> QED BY <1>0, <2>1, <2>3, QuietStep DEF InTransaction
<1>5. ASSUME NEW i \in Invoices, BeginDeleteInvoice(r, i)
      PROVE  RowsInv'
  <2>1. ctx'[r].inv = i /\ ctx'[r].pid = NoPayment /\ pc'[r] = "deleteInvoice"
    BY <1>5 DEF BeginDeleteInvoice, Goto, TypeOK, Idle
  <2>2. HandOK(r)'
    BY <2>1 DEF HandOK, Inserting, Editing
  <2> QED BY <1>0, <2>1, <2>2, QuietStep DEF InTransaction
<1> QED BY <1>1, <1>2, <1>3, <1>4, <1>5 DEF Begin

(* The statements that read and check: nothing is written yet.                *)
LEMMA CheckingKeepsRows ==
  ASSUME TypeOK, RowsInv, NEW r \in Requests,
         DeleteItems(r) \/ AddItem(r) \/ Lock(r) \/ Validate(r)
  PROVE  RowsInv'
<1>0. HandOK(r)
  BY DEF RowsInv, RowsInHand
<1>1. CASE DeleteItems(r)
  <2>1. /\ pc[r] = "deleteItems" /\ UNCHANGED <<live, pay, ctx>>
        /\ pc'[r] \in {"addItem", "lock", "update"} /\ (pc'[r] = "lock" => ctx[r].amount > 0)
        /\ \A q \in Requests : q # r => pc'[q] = pc[q]
    BY <1>1 DEF DeleteItems, AfterItems, Goto, TypeOK, invoiceRows
  <2>2. HandOK(r)'
    BY <1>0, <2>1 DEF HandOK, Inserting, Editing
  <2> QED BY <2>1, <2>2, QuietStep DEF InTransaction
<1>2. CASE AddItem(r)
  <2>1. pc[r] = "addItem" /\ UNCHANGED <<live, pay>>
    BY <1>2 DEF AddItem, invoiceRows
  <2>2. CASE live[ctx[r].inv]
    <3>1. /\ pc'[r] \in {"addItem", "lock", "update"} /\ (pc'[r] = "lock" => ctx[r].amount > 0)
          /\ \A q \in Requests : q # r => pc'[q] = pc[q]
      BY <1>2, <2>2 DEF AddItem, AfterItems, Goto, TypeOK
    <3>2. /\ ctx'[r].inv = ctx[r].inv /\ ctx'[r].pid = ctx[r].pid
          /\ ctx'[r].amount = ctx[r].amount
          /\ \A q \in Requests : q # r => ctx'[q] = ctx[q]
      <4>1. ctx' = [ctx EXCEPT ![r] = [ctx[r] EXCEPT !.todo = Tail(ctx[r].todo)]]
        BY <1>2, <2>2 DEF AddItem
      <4>2. ctx[r] \in Contexts
        BY DEF TypeOK
      <4>3. ctx'[r] = [ctx[r] EXCEPT !.todo = Tail(ctx[r].todo)]
        BY <4>1 DEF TypeOK
      <4>4. \A q \in Requests : q # r => ctx'[q] = ctx[q]
        BY <4>1 DEF TypeOK
      <4> QED BY <4>2, <4>3, <4>4 DEF Contexts
    <3>3. HandOK(r)'
      BY <1>0, <2>1, <3>1, <3>2 DEF HandOK, Inserting, Editing
    <3> QED BY <2>1, <3>1, <3>2, <3>3, QuietStep DEF InTransaction
  <2>3. CASE ~live[ctx[r].inv]
    BY <1>2, <2>1, <2>3, QuietEnd DEF AddItem
  <2> QED BY <2>2, <2>3
<1>3. CASE Lock(r)
  <2>1. UNCHANGED <<live, pay>>
    BY <1>3 DEF Lock, invoiceRows
  <2>2. CASE live[ctx[r].inv]
    <3>1. /\ \/ pc[r] = "lock" /\ pc'[r] = "validate"
             \/ pc[r] = "lockEdit" /\ pc'[r] = "validateEdit"
          /\ UNCHANGED ctx
          /\ \A q \in Requests : q # r => pc'[q] = pc[q]
      BY <1>3, <2>2 DEF Lock, Take, Goto, TypeOK
    <3>2. HandOK(r)'
      BY <1>0, <2>1, <3>1 DEF HandOK, Inserting, Editing
    <3> QED BY <2>1, <2>2, <3>1, <3>2, QuietStep
  <2>3. CASE ~live[ctx[r].inv]
    BY <1>3, <2>1, <2>3, QuietEnd DEF Lock, Take
  <2> QED BY <2>2, <2>3
<1>4. CASE Validate(r)
  <2>1. UNCHANGED <<live, pay>>
    BY <1>4 DEF Validate, invoiceRows
  <2>2. CASE ValidPayment(ctx[r].amount, Outstanding(r))
    <3>1. /\ \/ pc[r] = "validate" /\ pc'[r] = "insert"
             \/ pc[r] = "validateEdit" /\ pc'[r] = "rewrite"
          /\ UNCHANGED ctx
          /\ \A q \in Requests : q # r => pc'[q] = pc[q]
      BY <1>4, <2>2 DEF Validate, Goto, TypeOK
    <3>2. HandOK(r)'
      BY <1>0, <2>1, <3>1 DEF HandOK, Inserting, Editing
    <3>3. live[ctx[r].inv]
      BY <3>1 DEF RowsInv, PaymentsHaveInvoice, InTransaction
    <3> QED BY <2>1, <3>1, <3>2, <3>3, QuietStep
  <2>3. CASE ~ValidPayment(ctx[r].amount, Outstanding(r))
    BY <1>4, <2>1, <2>3, QuietEnd DEF Validate
  <2> QED BY <2>2, <2>3
<1> QED BY <1>1, <1>2, <1>3, <1>4

(* A request that ends and has written payment rows on its way out.           *)
LEMMA WritingEnd ==
  ASSUME TypeOK, RowsInv, NEW r \in Requests, Finish(r),
         \A q \in Requests : q # r => RowsKeptFor(q),
         \A k \in PayIds : pay'[k] # Absent =>
            pay'[k].inv \in Invoices /\ live'[pay'[k].inv] /\ pay'[k].amount > 0,
         \A q \in Requests : q # r /\ pc[q] \in InTransaction => live'[ctx[q].inv]
  PROVE  RowsInv'
<1>1. /\ pc'[r] = "idle" /\ ctx'[r] = Idle
      /\ \A q \in Requests : q # r => pc'[q] = pc[q] /\ ctx'[q] = ctx[q]
  BY FinishEffect
<1>2. pc'[r] \notin InTransaction /\ ctx'[r].pid = NoPayment
  BY <1>1 DEF InTransaction, Idle
<1>3. HandOK(r)'
  BY <1>1 DEF HandOK, Inserting, Editing
<1>4. \A q \in Requests : q # r => HandOK(q)'
  BY <1>1, <1>2, OthersKept DEF RowsInv
<1>5. PaymentsHaveInvoice'
  <2>1. \A q \in Requests : pc'[q] \in InTransaction => live'[ctx'[q].inv]
    BY <1>1, <1>2
  <2> QED BY <2>1 DEF PaymentsHaveInvoice
<1>6. PaymentsArePositive'
  BY DEF PaymentsArePositive
<1> QED BY <1>3, <1>4, <1>5, <1>6 DEF RowsInv, RowsInHand

LEMMA WritingKeepsRows ==
  ASSUME TypeOK, LockDiscipline, RowsInv, AcceptedPaymentStillFits, NEW r \in Requests,
         \/ Update(r) \/ Insert(r) \/ Rewrite(r)
         \/ DeletePayment(r) \/ DeleteInvoice(r) \/ Abort(r)
  PROVE  RowsInv'
<1>0. HandOK(r)
  BY DEF RowsInv, RowsInHand
<1>1. CASE Update(r) \/ Abort(r)
  <2>1. Finish(r) /\ UNCHANGED <<live, pay>>
    BY <1>1 DEF Update, Abort, invoiceRows
  <2> QED BY <2>1, QuietEnd
<1>2. CASE Insert(r)
  <2> DEFINE k == ctx[r].pid
             row == [inv |-> ctx[r].inv, amount |-> ctx[r].amount]
  <2>1. pc[r] = "insert" /\ UNCHANGED live /\ Finish(r) /\ pay' = [pay EXCEPT ![k] = row]
    BY <1>2 DEF Insert
  <2>2. /\ k \in PayIds /\ \A q \in Requests : q # r => ctx[q].pid # k
        /\ ctx[r].inv \in Invoices
    BY <1>0, <2>1 DEF HandOK, Inserting
  <2>3. live[ctx[r].inv]
    BY <2>1 DEF RowsInv, PaymentsHaveInvoice, InTransaction
  <2>4. ctx[r].amount > 0
    BY <2>1 DEF AcceptedPaymentStillFits, ValidPayment
  <2>5. \A q \in Requests : q # r => RowsKeptFor(q)
    BY <2>1, <2>2 DEF RowsKeptFor, TypeOK
  <2>6. ASSUME NEW j \in PayIds, pay'[j] # Absent
        PROVE  pay'[j].inv \in Invoices /\ live'[pay'[j].inv] /\ pay'[j].amount > 0
    <3>1. CASE j = k
      BY <2>1, <2>2, <2>3, <2>4, <3>1 DEF TypeOK
    <3>2. CASE j # k
      BY <2>1, <2>6, <3>2 DEF TypeOK, RowsInv, PaymentsHaveInvoice, PaymentsArePositive
    <3> QED BY <3>1, <3>2
  <2>7. \A q \in Requests : q # r /\ pc[q] \in InTransaction => live'[ctx[q].inv]
    BY <2>1 DEF RowsInv, PaymentsHaveInvoice
  <2> QED BY <2>1, <2>5, <2>6, <2>7, WritingEnd
<1>3. CASE Rewrite(r)
  <2> DEFINE k == ctx[r].pid
  <2>1. pc[r] = "rewrite" /\ UNCHANGED live /\ Finish(r)
    BY <1>3 DEF Rewrite, invoiceRows
  <2>2. k \in PayIds /\ ctx[r].amount > 0
    BY <1>0, <2>1 DEF HandOK, Editing, AcceptedPaymentStillFits, ValidPayment
  <2>3. \A j \in PayIds :
          \/ pay'[j] = pay[j]
          \/ /\ pay[j] # Absent /\ pay'[j] # Absent
             /\ pay'[j].inv = pay[j].inv /\ pay'[j].amount > 0
    <3>1. CASE pay[k] = Absent
      BY <1>3, <3>1 DEF Rewrite
    <3>2. CASE pay[k] # Absent
      <4>1. pay' = [pay EXCEPT ![k].amount = ctx[r].amount]
        BY <1>3, <3>2 DEF Rewrite
      <4>2. pay'[k].inv = pay[k].inv /\ pay'[k].amount = ctx[r].amount
        BY <2>2, <4>1 DEF TypeOK, PaymentRows
      <4>3. pay'[k] # Absent
        BY <2>2, <4>2 DEF Absent
      <4> QED BY <2>2, <3>2, <4>1, <4>2, <4>3 DEF TypeOK
    <3> QED BY <3>1, <3>2
  <2>4. \A q \in Requests : RowsKeptFor(q)
    BY <2>3 DEF RowsKeptFor
  <2>5. \A j \in PayIds : pay'[j] # Absent =>
            pay'[j].inv \in Invoices /\ live'[pay'[j].inv] /\ pay'[j].amount > 0
    BY <2>1, <2>3 DEF RowsInv, PaymentsHaveInvoice, PaymentsArePositive
  <2>6. \A q \in Requests : q # r /\ pc[q] \in InTransaction => live'[ctx[q].inv]
    BY <2>1 DEF RowsInv, PaymentsHaveInvoice
  <2> QED BY <2>1, <2>4, <2>5, <2>6, WritingEnd
<1>4. CASE DeletePayment(r)
  <2>1. UNCHANGED live /\ Finish(r) /\ \A j \in PayIds : pay'[j] \in {pay[j], Absent}
    BY <1>4 DEF DeletePayment, TypeOK, invoiceRows
  <2>2. \A q \in Requests : RowsKeptFor(q)
    BY <2>1 DEF RowsKeptFor
  <2>3. \A j \in PayIds : pay'[j] # Absent =>
            pay'[j].inv \in Invoices /\ live'[pay'[j].inv] /\ pay'[j].amount > 0
    BY <2>1 DEF RowsInv, PaymentsHaveInvoice, PaymentsArePositive
  <2>4. \A q \in Requests : q # r /\ pc[q] \in InTransaction => live'[ctx[q].inv]
    BY <2>1 DEF RowsInv, PaymentsHaveInvoice
  <2> QED BY <2>1, <2>2, <2>3, <2>4, WritingEnd
<1>5. CASE DeleteInvoice(r)
  <2> DEFINE i == ctx[r].inv
  <2>1. /\ pc[r] = "deleteInvoice" /\ Finish(r) /\ lock[i] = NoRequest
        /\ live' = [live EXCEPT ![i] = FALSE]
        /\ pay' = [k \in PayIds |-> IF pay[k].inv = i THEN Absent ELSE pay[k]]
    BY <1>5 DEF DeleteInvoice, Cascade
  <2>2. i \in Invoices
    BY <1>0, <2>1 DEF HandOK
  <2>3. \A q \in Requests : RowsKeptFor(q)
    BY <2>1 DEF RowsKeptFor
  <2>4. ASSUME NEW j \in PayIds, pay'[j] # Absent
        PROVE  pay'[j].inv \in Invoices /\ live'[pay'[j].inv] /\ pay'[j].amount > 0
    <3>1. pay'[j] = pay[j] /\ pay[j].inv # i
      BY <2>1, <2>4
    <3>2. pay[j].inv \in Invoices /\ live[pay[j].inv] /\ pay[j].amount > 0
      BY <2>4, <3>1 DEF RowsInv, PaymentsHaveInvoice, PaymentsArePositive
    <3> QED BY <2>1, <3>1, <3>2 DEF TypeOK
  <2>5. ASSUME NEW q \in Requests, pc[q] \in InTransaction PROVE live'[ctx[q].inv]
    <3>1. ctx[q].inv \in Invoices /\ live[ctx[q].inv]
      BY <2>5 DEF RowsInv, PaymentsHaveInvoice, RowsInHand, HandOK, InTransaction
    <3>2. ctx[q].inv # i
      BY <2>1, <2>5, <3>1, LedgerAssumption DEF LockDiscipline
    <3> QED BY <2>1, <3>1, <3>2 DEF TypeOK
  <2> QED BY <2>1, <2>3, <2>4, <2>5, WritingEnd
<1> QED BY <1>1, <1>2, <1>3, <1>4, <1>5

(* A new invoice: its payment row is fresh, and nobody refers to it yet.      *)
LEMMA CreateEffect ==
  ASSUME TypeOK, RowsInv, NEW i \in Invoices, NEW list \in ItemLists, NEW newTotal \in Totals,
         NEW amount \in Amounts \cup {0}, CreateInvoice(i, list, newTotal, amount)
  PROVE  /\ ~live[i] /\ UNCHANGED <<pc, ctx, lock>>
         /\ live' = [live EXCEPT ![i] = TRUE]
         /\ \A j \in Invoices : j # i => total'[j] = total[j] /\ advance'[j] = advance[j]
         /\ total'[i] = newTotal /\ advance'[i] = 0
         /\ \A q \in Requests : ctx[q].inv # i
         /\ \/ amount = 0 /\ UNCHANGED pay
            \/ /\ amount \in Int /\ amount > 0 /\ amount <= Billable(newTotal)
               /\ \E k \in PayIds :
                    /\ FreeId(k) /\ pay' = [pay EXCEPT ![k] = [inv |-> i, amount |-> amount]]
<1>1. CASE amount = 0
  BY <1>1 DEF CreateInvoice, TypeOK
<1>2. CASE amount # 0
  <2>1. amount \in Int /\ amount > 0 /\ amount <= Billable(newTotal)
    BY <1>2, LedgerAssumption DEF CreateInvoice, ValidPayment, Billable
  <2>2. PICK k \in PayIds :
          FreeId(k) /\ pay' = [pay EXCEPT ![k] = [inv |-> i, amount |-> amount]]
    BY <1>2 DEF CreateInvoice, NextId
  <2> QED BY <2>1, <2>2 DEF CreateInvoice, TypeOK
<1> QED BY <1>1, <1>2

LEMMA CreateKeepsRows ==
  ASSUME TypeOK, RowsInv, NEW i \in Invoices, NEW list \in ItemLists, NEW newTotal \in Totals,
         NEW amount \in Amounts \cup {0}, CreateInvoice(i, list, newTotal, amount)
  PROVE  RowsInv'
<1>1. /\ UNCHANGED <<pc, ctx>> /\ live' = [live EXCEPT ![i] = TRUE]
      /\ \/ UNCHANGED pay
         \/ \E k \in PayIds : /\ FreeId(k) /\ amount > 0
                             /\ pay' = [pay EXCEPT ![k] = [inv |-> i, amount |-> amount]]
  BY CreateEffect
<1>2. \A q \in Requests : RowsKeptFor(q)
  BY <1>1 DEF RowsKeptFor, FreeId, TypeOK
<1>3. RowsInHand'
  <2> SUFFICES ASSUME NEW q \in Requests PROVE HandOK(q)'
    BY DEF RowsInHand
  <2>1. HandOK(q)
    BY DEF RowsInv, RowsInHand
  <2>2. Inserting(q) => \A p \in Requests : p # q => ctx'[p].pid # ctx[q].pid
    BY <1>1, <2>1 DEF HandOK
  <2> QED BY <1>1, <1>2, <2>1, <2>2, HandKept
<1>4. \A j \in Invoices : live[j] => live'[j]
  BY <1>1 DEF TypeOK
<1>5. \A q \in Requests : pc'[q] \in InTransaction => live'[ctx'[q].inv]
  BY <1>1, <1>4 DEF RowsInv, PaymentsHaveInvoice, RowsInHand, HandOK, InTransaction
<1>6. ASSUME NEW j \in PayIds, pay'[j] # Absent
      PROVE  pay'[j].inv \in Invoices /\ live'[pay'[j].inv] /\ pay'[j].amount > 0
  <2>1. CASE pay'[j] = pay[j]
    BY <1>4, <1>6, <2>1 DEF RowsInv, PaymentsHaveInvoice, PaymentsArePositive
  <2>2. CASE pay'[j] # pay[j]
    <3>1. pay'[j] = [inv |-> i, amount |-> amount] /\ amount > 0
      BY <1>1, <2>2 DEF TypeOK
    <3> QED BY <1>1, <3>1 DEF TypeOK
  <2> QED BY <2>1, <2>2
<1>7. PaymentsHaveInvoice'
  BY <1>5, <1>6 DEF PaymentsHaveInvoice
<1>8. PaymentsArePositive'
  BY <1>6 DEF PaymentsArePositive
<1> QED BY <1>3, <1>7, <1>8 DEF RowsInv

LEMMA NextRowsInv ==
  TypeInv /\ LockDiscipline /\ RowsInv /\ AcceptedPaymentStillFits /\ [Next]_vars => RowsInv'
<1> SUFFICES ASSUME TypeOK, LockDiscipline, RowsInv, AcceptedPaymentStillFits, [Next]_vars
             PROVE  RowsInv'
  BY DEF TypeInv
<1>1. CASE UNCHANGED vars
  BY <1>1 DEF vars, RowsInv, PaymentsHaveInvoice, PaymentsArePositive, RowsInHand, HandOK,
              Inserting, Editing
<1>2. CASE Create
  BY <1>2, CreateKeepsRows DEF Create
<1>3. ASSUME NEW r \in Requests, Begin(r) \/ Step(r) \/ Abort(r) PROVE RowsInv'
  BY <1>3, BeginKeepsRows, CheckingKeepsRows, WritingKeepsRows DEF Step
<1> QED BY <1>1, <1>2, <1>3 DEF Next
----------------------------------------------------------------------------
(* Sums of payment rows.                                                      *)
LEMMA RowsType ==
  ASSUME TypeOK, NEW i, NEW x
  PROVE  RowsBut(i, x) \in [1..MaxPay -> Int] /\ ReceivedBut(i, x) \in Int
<1>1. \A k \in PayIds : pay[k].amount \in Int
  BY DEF TypeOK, PaymentRows
<1>2. RowsBut(i, x) \in [1..MaxPay -> Int]
  BY <1>1 DEF RowsBut, PayIds
<1> QED BY <1>2, SumToType, LedgerAssumption DEF ReceivedBut

(* What the rows of an invoice become when one of them is written.            *)
LEMMA OneRowWritten ==
  ASSUME TypeOK, TypeOK', NEW i \in Invoices, NEW k \in PayIds,
         \A j \in PayIds : j # k => pay'[j] = pay[j], pay'[k].inv = i
  PROVE  Received(i)' = ReceivedBut(i, k) + pay'[k].amount
<1> DEFINE f == RowsBut(i, k)
           g == RowsBut(i, NoPayment)'
<1>1. f \in [1..MaxPay -> Int] /\ g \in [1..MaxPay -> Int]
  <2>1. f \in [1..MaxPay -> Int]
    BY RowsType
  <2>2. \A j \in PayIds : pay'[j].amount \in Int
    BY DEF TypeOK, PaymentRows
  <2>3. g \in [1..MaxPay -> Int]
    BY <2>2 DEF RowsBut, PayIds
  <2> QED BY <2>1, <2>3
<1>2. k \in 1..MaxPay /\ f[k] = 0 /\ g[k] = pay'[k].amount
  BY DEF RowsBut, PayIds, NoPayment
<1>3. \A j \in 1..MaxPay : j # k => f[j] = g[j]
  BY DEF RowsBut, PayIds, NoPayment
<1>4. SumTo(g, MaxPay) = SumTo(f, MaxPay) + g[k] - f[k]
  <2>1. MaxPay \in Nat
    BY LedgerAssumption
  <2> HIDE DEF f, g
  <2> QED BY <2>1, <1>1, <1>2, <1>3, SumToUpdate, ZenonT(30)
<1>5. SumTo(f, MaxPay) \in Int /\ g[k] \in Int
  <2> HIDE DEF f, g
  <2> QED BY <1>1, <1>2, SumToType, LedgerAssumption
<1>6. SumTo(g, MaxPay) = SumTo(f, MaxPay) + g[k]
  <2> HIDE DEF f, g
  <2> QED BY <1>2, <1>4, <1>5
<1> QED BY <1>2, <1>6 DEF Received, ReceivedBut

(* The rows of an invoice only shrink or stay when nobody adds to them.       *)
LEMMA RowsShrink ==
  ASSUME TypeOK, TypeOK', NEW i \in Invoices, NEW x, PaymentsArePositive,
         \A k \in PayIds : \/ pay'[k] = pay[k]
                           \/ pay'[k] = Absent
                           \/ pay'[k].inv # i /\ pay[k].inv # i
                           \/ pay'[k].inv # i /\ pay[k] = Absent
  PROVE  ReceivedBut(i, x)' <= ReceivedBut(i, x)
<1> DEFINE f == RowsBut(i, x)
           g == RowsBut(i, x)'
<1>1. f \in [1..MaxPay -> Int]
  BY RowsType
<1>2. \A k \in PayIds : pay'[k].amount \in Int /\ pay[k].amount \in Int
  BY DEF TypeOK, PaymentRows
<1>3. g \in [1..MaxPay -> Int]
  BY <1>2 DEF RowsBut, PayIds
<1>4. ASSUME NEW k \in 1..MaxPay PROVE g[k] <= f[k]
  <2>1. k \in PayIds
    BY DEF PayIds
  <2>2. f[k] >= 0
    BY <1>2, <2>1, AbsentHasNoInvoice DEF RowsBut, PaymentsArePositive
  <2>3. CASE pay'[k] = pay[k]
    BY <1>2, <2>1, <2>3 DEF RowsBut
  <2>4. CASE pay'[k].inv # i
    BY <1>2, <2>1, <2>2, <2>4 DEF RowsBut
  <2>5. CASE pay'[k] = Absent
    BY <2>4, <2>5, AbsentHasNoInvoice
  <2> QED BY <2>1, <2>3, <2>4, <2>5
<1>5. SumTo(g, MaxPay) <= SumTo(f, MaxPay)
  <2> HIDE DEF f, g
  <2> QED BY <1>1, <1>3, <1>4, SumToMonotone, LedgerAssumption
<1> QED BY <1>5 DEF ReceivedBut

(* The smaller the payments, the larger the balance they leave.               *)
LEMMA BalanceAntitone ==
  ASSUME NEW t \in Int, NEW p \in Int, NEW q \in Int, q <= p, NEW a \in Int,
         ValidPayment(a, Balance(t, p))
  PROVE  ValidPayment(a, Balance(t, q))
  BY DEF ValidPayment, Balance, Billable, MaxZero

\* What a step may do to the payment row k as far as invoice j is concerned,
\* and to everything the balance of invoice j is made of.
RowShrinks(j, k) ==
  \/ pay'[k] = pay[k]
  \/ pay'[k] = Absent
  \/ pay'[k].inv # j /\ pay[k].inv # j
  \/ pay'[k].inv # j /\ pay[k] = Absent
RowsShrinkFor(j) == \A k \in PayIds : RowShrinks(j, k)
LeavesAlone(j) == total'[j] = total[j] /\ advance'[j] = advance[j] /\ RowsShrinkFor(j)

Fits(q) ==
  pc[q] \in {"insert", "rewrite"} => ValidPayment(ctx[q].amount, Outstanding(q))

LEMMA FitsKept ==
  ASSUME TypeOK, TypeOK', PaymentsArePositive, NEW q \in Requests, Fits(q),
         pc[q] \in {"insert", "rewrite"}, ctx'[q] = ctx[q],
         ctx[q].inv \in Invoices, LeavesAlone(ctx[q].inv)
  PROVE  Fits(q)'
<1> DEFINE T(i) == Or(ctx[q].data.total, total[i])
           A(i) == Or(ctx[q].data.advance, advance[i])
<1>1. PICK i, x, a : i \in Invoices /\ i = ctx[q].inv /\ x = ctx[q].pid /\ a = ctx[q].amount
  OBVIOUS
<1>2. total'[i] = total[i] /\ advance'[i] = advance[i]
  BY <1>1 DEF LeavesAlone
<1>3. ReceivedBut(i, x)' <= ReceivedBut(i, x)
  BY <1>1, RowsShrink DEF LeavesAlone, RowsShrinkFor, RowShrinks
<1>4. ReceivedBut(i, x) \in Int /\ ReceivedBut(i, x)' \in Int
  <2>1. ReceivedBut(i, x) \in Int
    BY RowsType
  <2>2. \A k \in PayIds : pay'[k].amount \in Int
    BY DEF TypeOK, PaymentRows
  <2>3. RowsBut(i, x)' \in [1..MaxPay -> Int]
    BY <2>2 DEF RowsBut, PayIds
  <2>4. SumTo(RowsBut(i, x)', MaxPay) \in Int
    BY <2>3, SumToType, LedgerAssumption
  <2> QED BY <2>1, <2>4 DEF ReceivedBut
<1>5. ctx[q].data \in Edits /\ total[i] \in Int /\ advance[i] \in Int /\ a \in Int
  BY <1>1 DEF TypeOK, Contexts
<1>6. T(i) \in Int /\ A(i) \in Int
  BY <1>5 DEF Edits, Or
<1>7. ValidPayment(a, Balance(T(i), A(i) + ReceivedBut(i, x)))
  BY <1>1 DEF Fits, Outstanding
<1>8. ValidPayment(a, Balance(T(i), A(i) + ReceivedBut(i, x)'))
  <2>1. /\ A(i) + ReceivedBut(i, x) \in Int /\ A(i) + ReceivedBut(i, x)' \in Int
        /\ A(i) + ReceivedBut(i, x)' <= A(i) + ReceivedBut(i, x)
    BY <1>3, <1>4, <1>6
  <2> HIDE DEF T, A
  <2> QED BY <1>5, <1>6, <1>7, <2>1, BalanceAntitone
<1>9. Outstanding(q)' = Balance(T(i), A(i) + ReceivedBut(i, x)')
  BY <1>1, <1>2 DEF Outstanding, ReceivedBut, RowsBut
<1> QED BY <1>1, <1>8, <1>9 DEF Fits

(* An invoice whose row is locked is out of the other requests' reach: they   *)
(* can only take payments away from it.                                       *)
LEMMA LockedIsLeftAlone ==
  ASSUME TypeOK, LockDiscipline, RowsInv, NEW r \in Requests, Step(r) \/ Begin(r) \/ Abort(r),
         NEW j \in Invoices, lock[j] \in Requests, lock[j] # r
  PROVE  LeavesAlone(j)
<1>0. HandOK(r) /\ lock[j] # NoRequest
  BY LedgerAssumption DEF RowsInv, RowsInHand
<1>1. CASE UNCHANGED <<total, advance, pay>>
  BY <1>1 DEF LeavesAlone, RowsShrinkFor, RowShrinks
<1>2. CASE Update(r)
  <2>1. ctx[r].inv # j /\ UNCHANGED pay
    BY <1>0, <1>2 DEF Update
  <2>2. total'[j] = total[j] /\ advance'[j] = advance[j]
    BY <1>2, <2>1 DEF Update, WriteInvoice, TypeOK
  <2> QED BY <2>1, <2>2 DEF LeavesAlone, RowsShrinkFor, RowShrinks
<1>3. CASE Insert(r)
  <2>1. pc[r] = "insert" /\ ctx[r].inv # j
    BY <1>3 DEF Insert, LockDiscipline, InTransaction
  <2>2. total'[j] = total[j] /\ advance'[j] = advance[j]
    BY <1>3, <2>1 DEF Insert, WriteInvoice, TypeOK
  <2>3. ctx[r].pid \in PayIds /\ pay[ctx[r].pid] = Absent
    BY <1>0, <2>1 DEF HandOK, Inserting
  <2>4. RowsShrinkFor(j)
    BY <1>3, <2>1, <2>3 DEF Insert, RowsShrinkFor, RowShrinks, TypeOK
  <2> QED BY <2>2, <2>4 DEF LeavesAlone
<1>4. CASE Rewrite(r)
  <2>1. pc[r] = "rewrite" /\ ctx[r].inv # j /\ UNCHANGED <<total, advance>>
    BY <1>4 DEF Rewrite, invoiceRows, LockDiscipline, InTransaction
  <2>2. pay[ctx[r].pid] = Absent \/ pay[ctx[r].pid].inv = ctx[r].inv
    BY <1>0, <2>1 DEF HandOK, Editing
  <2>3. CASE pay[ctx[r].pid] = Absent
    BY <1>4, <2>1, <2>3 DEF Rewrite, LeavesAlone, RowsShrinkFor, RowShrinks
  <2>4. CASE pay[ctx[r].pid] # Absent
    <3>1. pay' = [pay EXCEPT ![ctx[r].pid].amount = ctx[r].amount]
      BY <1>4, <2>4 DEF Rewrite
    <3>2. \A k \in PayIds : k # ctx[r].pid => pay'[k] = pay[k]
      BY <3>1 DEF TypeOK
    <3>3. ctx[r].pid \in PayIds
      BY <1>0, <2>1 DEF HandOK, Editing
    <3>4. pay'[ctx[r].pid].inv # j /\ pay[ctx[r].pid].inv # j
      BY <2>1, <2>2, <2>4, <3>1, <3>3 DEF TypeOK, PaymentRows
    <3>5. RowsShrinkFor(j)
      BY <3>2, <3>4 DEF RowsShrinkFor, RowShrinks
    <3> QED BY <2>1, <3>5 DEF LeavesAlone
  <2> QED BY <2>3, <2>4
<1>5. CASE DeletePayment(r)
  BY <1>5 DEF DeletePayment, invoiceRows, LeavesAlone, RowsShrinkFor, RowShrinks, TypeOK
<1>6. CASE DeleteInvoice(r)
  <2>1. ctx[r].inv # j
    BY <1>0, <1>6 DEF DeleteInvoice
  <2>2. total'[j] = total[j] /\ advance'[j] = advance[j]
    BY <1>6, <2>1 DEF DeleteInvoice, TypeOK
  <2>3. RowsShrinkFor(j)
    BY <1>6 DEF DeleteInvoice, Cascade, RowsShrinkFor, RowShrinks
  <2> QED BY <2>2, <2>3 DEF LeavesAlone
<1>7. Begin(r) \/ Abort(r) => UNCHANGED <<total, advance, pay>>
  BY BeginOpens DEF Abort, invoiceRows
<1>8. DeleteItems(r) \/ AddItem(r) \/ Lock(r) \/ Validate(r) => UNCHANGED <<total, advance, pay>>
  BY DEF DeleteItems, AddItem, Lock, Validate, invoiceRows
<1> QED BY <1>1, <1>2, <1>3, <1>4, <1>5, <1>6, <1>7, <1>8 DEF Step

\* What the acting request itself may find after its step.
LEMMA OwnFits ==
  ASSUME TypeOK, NEW r \in Requests, Step(r) \/ Begin(r) \/ Abort(r)
  PROVE  Fits(r)'
<1>1. CASE Validate(r) /\ pc'[r] # "idle"
  <2>1. /\ UNCHANGED <<total, advance, pay, ctx>>
        /\ ValidPayment(ctx[r].amount, Outstanding(r))
    BY <1>1, FinishEffect DEF Validate, invoiceRows
  <2>2. Outstanding(r)' = Outstanding(r)
    BY <2>1 DEF Outstanding, ReceivedBut, RowsBut
  <2> QED BY <2>1, <2>2 DEF Fits
<1>2. CASE pc'[r] \notin {"insert", "rewrite"}
  BY <1>2 DEF Fits
<1>3. ASSUME Begin(r) PROVE pc'[r] \notin {"insert", "rewrite"}
  BY <1>3, BeginOpens DEF Opens, Goto, TypeOK
<1>4. ASSUME DeleteItems(r) \/ AddItem(r) \/ Lock(r) PROVE pc'[r] \notin {"insert", "rewrite"}
  BY <1>4 DEF DeleteItems, AddItem, Lock, Take, AfterItems, Goto, Finish, TypeOK
<1>5. Abort(r) \/ Update(r) \/ Insert(r) \/ Rewrite(r) \/ DeletePayment(r) \/ DeleteInvoice(r)
        => pc'[r] = "idle"
  BY FinishEffect DEF Abort, Update, Insert, Rewrite, DeletePayment, DeleteInvoice
<1> QED BY <1>1, <1>2, <1>3, <1>4, <1>5 DEF Step

(* A step touches the program counter and the memory of its own request only. *)
LEMMA OneActor ==
  ASSUME TypeOK, NEW r \in Requests, Step(r) \/ Begin(r) \/ Abort(r),
         NEW q \in Requests, q # r
  PROVE  pc'[q] = pc[q] /\ ctx'[q] = ctx[q]
<1>1. CASE Begin(r)
  BY <1>1, BeginOpens DEF Opens, Goto, TypeOK
<1>2. CASE DeleteItems(r) \/ AddItem(r) \/ Lock(r) \/ Validate(r)
  BY <1>2 DEF DeleteItems, AddItem, Lock, Take, Validate, Goto, Finish, TypeOK
<1>3. CASE \/ Abort(r) \/ Update(r) \/ Insert(r)
           \/ Rewrite(r) \/ DeletePayment(r) \/ DeleteInvoice(r)
  BY <1>3, FinishEffect DEF Abort, Update, Insert, Rewrite, DeletePayment, DeleteInvoice
<1> QED BY <1>1, <1>2, <1>3 DEF Step

LEMMA NextFits ==
  /\ TypeInv /\ TypeInv' /\ LockDiscipline /\ RowsInv /\ AcceptedPaymentStillFits
  /\ [Next]_vars
  => AcceptedPaymentStillFits'
<1> SUFFICES ASSUME TypeOK, TypeOK', LockDiscipline, RowsInv, AcceptedPaymentStillFits,
                    [Next]_vars, NEW q \in Requests
             PROVE  Fits(q)'
  BY DEF TypeInv, AcceptedPaymentStillFits, Fits
<1>0. Fits(q) /\ HandOK(q) /\ PaymentsArePositive
  BY DEF AcceptedPaymentStillFits, Fits, RowsInv, RowsInHand
<1>1. CASE UNCHANGED vars
  <2>1. Outstanding(q)' = Outstanding(q)
    BY <1>1 DEF vars, Outstanding, ReceivedBut, RowsBut
  <2> QED BY <1>0, <1>1, <2>1 DEF vars, Fits
<1>2. ASSUME NEW i \in Invoices, NEW list \in ItemLists, NEW newTotal \in Totals,
             NEW amount \in Amounts \cup {0}, CreateInvoice(i, list, newTotal, amount)
      PROVE  Fits(q)'
  <2>1. CASE pc[q] \notin {"insert", "rewrite"}
    BY <1>2, <2>1, CreateEffect DEF Fits
  <2>2. CASE pc[q] \in {"insert", "rewrite"}
    <3>1. ctx[q].inv \in Invoices /\ ctx[q].inv # i /\ ctx'[q] = ctx[q]
      BY <1>0, <1>2, <2>2, CreateEffect DEF HandOK
    <3>2. /\ total'[ctx[q].inv] = total[ctx[q].inv]
          /\ advance'[ctx[q].inv] = advance[ctx[q].inv]
      BY <1>2, <3>1, CreateEffect
    <3>3. RowsShrinkFor(ctx[q].inv)
      BY <1>2, <3>1, CreateEffect DEF FreeId, RowsShrinkFor, RowShrinks, TypeOK
    <3> QED BY <1>0, <2>2, <3>1, <3>2, <3>3, FitsKept DEF LeavesAlone
  <2> QED BY <2>1, <2>2
<1>3. ASSUME NEW r \in Requests, Step(r) \/ Begin(r) \/ Abort(r) PROVE Fits(q)'
  <2>1. CASE q = r
    BY <1>3, <2>1, OwnFits
  <2>2. CASE q # r /\ pc[q] \notin {"insert", "rewrite"}
    BY <1>3, <2>2, OneActor DEF Fits
  <2>3. CASE q # r /\ pc[q] \in {"insert", "rewrite"}
    <3>1. ctx[q].inv \in Invoices /\ lock[ctx[q].inv] = q
      BY <1>0, <2>3 DEF HandOK, LockDiscipline, InTransaction
    <3>2. LeavesAlone(ctx[q].inv)
      BY <1>3, <2>3, <3>1, LockedIsLeftAlone
    <3> QED BY <1>0, <1>3, <2>3, <3>1, <3>2, OneActor, FitsKept
  <2> QED BY <2>1, <2>2, <2>3
<1> QED BY <1>1, <1>2, <1>3 DEF Next, Create

LEMMA InitMoneyInv == Init => MoneyInv
<1> SUFFICES ASSUME Init PROVE MoneyInv
  OBVIOUS
<1>1. TypeInv
  BY InitTypeInv
<1>2. LockDiscipline /\ AcceptedPaymentStillFits
  BY LedgerAssumption DEF Init, LockDiscipline, InTransaction, AcceptedPaymentStillFits
<1>3. RowsInv
  BY DEF Init, RowsInv, PaymentsHaveInvoice, PaymentsArePositive, RowsInHand, HandOK,
         InTransaction, Inserting, Editing
<1> QED BY <1>1, <1>2, <1>3 DEF MoneyInv

LEMMA AlwaysMoneyInv == Spec => []MoneyInv
<1>1. MoneyInv /\ [Next]_vars => MoneyInv'
  BY NextTypeInv, NextLockDiscipline, NextRowsInv, NextFits DEF MoneyInv
<1> QED BY <1>1, InitMoneyInv, PTL DEF Spec

(* What the balance check (validatePaymentAmount) found under the row lock is *)
(* still true when the payment is written, however many requests there are.   *)
THEOREM AcceptedStillFits == Spec => []AcceptedPaymentStillFits
  BY AlwaysMoneyInv, PTL DEF MoneyInv

(* No payment row outlives its invoice (the cascade of schema.prisma), and no *)
(* transaction writes one for an invoice that is gone.                        *)
THEOREM PaymentsAreOwned == Spec => []PaymentsHaveInvoice
<1>1. MoneyInv => PaymentsHaveInvoice
  BY DEF MoneyInv, RowsInv
<1> QED BY <1>1, AlwaysMoneyInv, PTL
----------------------------------------------------------------------------
(* The action property: a step that makes the payments of an invoice grow     *)
(* leaves them, with the advance, within the total.                           *)
Grows(i) == Received(i)' > Received(i)
StaysWithin(i) == (advance[i] + Received(i))' <= Billable(total[i])'

LEMMA ShrinkingIsNoGrowth ==
  ASSUME TypeOK, TypeOK', PaymentsArePositive, NEW i \in Invoices, RowsShrinkFor(i)
  PROVE  ~Grows(i)
<1>1. ReceivedBut(i, NoPayment)' <= ReceivedBut(i, NoPayment)
  BY RowsShrink DEF RowsShrinkFor, RowShrinks
<1>2. ReceivedBut(i, NoPayment) \in Int
  BY RowsType
<1>3. ReceivedBut(i, NoPayment)' \in Int
  <2>1. \A k \in PayIds : pay'[k].amount \in Int
    BY DEF TypeOK, PaymentRows
  <2>2. RowsBut(i, NoPayment)' \in [1..MaxPay -> Int]
    BY <2>1 DEF RowsBut, PayIds
  <2> QED BY <2>2, SumToType, LedgerAssumption DEF ReceivedBut
<1> QED BY <1>1, <1>2, <1>3 DEF Grows, Received

(* The payment that fits the balance keeps the invoice within its total.      *)
LEMMA AcceptedStaysWithin ==
  ASSUME TypeOK, TypeOK', NEW i \in Invoices, NEW k \in PayIds, NEW t \in Int, NEW a \in Int,
         NEW x \in Int, ValidPayment(x, Balance(t, a + ReceivedBut(i, k))),
         total'[i] = t, advance'[i] = a, pay'[k].inv = i, pay'[k].amount = x,
         \A j \in PayIds : j # k => pay'[j] = pay[j]
  PROVE  StaysWithin(i)
<1>1. Received(i)' = ReceivedBut(i, k) + x
  BY OneRowWritten
<1>2. ReceivedBut(i, k) \in Int
  BY RowsType
<1>3. a + (ReceivedBut(i, k) + x) <= Billable(t)
  BY <1>2 DEF ValidPayment, Balance, Billable, MaxZero
<1>4. StaysWithin(i) <=> a + Received(i)' <= Billable(t)
  BY DEF StaysWithin, Billable
<1> QED BY <1>1, <1>3, <1>4

LEMMA InsertStaysWithin ==
  ASSUME TypeOK, TypeOK', RowsInv, AcceptedPaymentStillFits, NEW r \in Requests, Insert(r),
         NEW i \in Invoices, i = ctx[r].inv
  PROVE  StaysWithin(i)
<1>1. /\ pc[r] = "insert" /\ WriteInvoice(r)
      /\ pay' = [pay EXCEPT ![ctx[r].pid] = [inv |-> ctx[r].inv, amount |-> ctx[r].amount]]
  BY DEF Insert
<1>2. PICK k \in PayIds, x \in Int : k = ctx[r].pid /\ x = ctx[r].amount
  BY <1>1 DEF RowsInv, RowsInHand, HandOK, Inserting, TypeOK, Contexts
<1>3. /\ total'[i] = Or(ctx[r].data.total, total[i])
      /\ advance'[i] = Or(ctx[r].data.advance, advance[i])
  BY <1>1, <1>2 DEF WriteInvoice, TypeOK
<1>4. total'[i] \in Int /\ advance'[i] \in Int
  BY DEF TypeOK
<1>5. ValidPayment(x, Balance(total'[i], advance'[i] + ReceivedBut(i, k)))
  BY <1>1, <1>2, <1>3 DEF AcceptedPaymentStillFits, Outstanding
<1>6. /\ pay'[k].inv = i /\ pay'[k].amount = x
      /\ \A j \in PayIds : j # k => pay'[j] = pay[j]
  BY <1>1, <1>2 DEF TypeOK
<1>7. StaysWithin(i)
  <2>1. PICK t \in Int, a \in Int : t = total'[i] /\ a = advance'[i]
    BY <1>4
  <2>2. ValidPayment(x, Balance(t, a + ReceivedBut(i, k)))
    BY <1>5, <2>1
  <2> QED BY <1>6, <2>1, <2>2, AcceptedStaysWithin
<1> QED BY <1>7

LEMMA RewriteStaysWithin ==
  ASSUME TypeOK, TypeOK', RowsInv, AcceptedPaymentStillFits, NEW r \in Requests, Rewrite(r),
         NEW i \in Invoices, i = ctx[r].inv
  PROVE  RowsShrinkFor(i) \/ StaysWithin(i)
<1>1. pc[r] = "rewrite" /\ UNCHANGED <<total, advance>>
  BY DEF Rewrite, invoiceRows
<1>2. PICK k \in PayIds, x \in Int : k = ctx[r].pid /\ x = ctx[r].amount
  BY <1>1 DEF RowsInv, RowsInHand, HandOK, Editing, TypeOK, Contexts
<1>3. CASE pay[k] = Absent
  BY <1>2, <1>3 DEF Rewrite, RowsShrinkFor, RowShrinks
<1>4. CASE pay[k] # Absent
  <2>1. pay[k].inv = i /\ ctx[r].data = NoData
    BY <1>1, <1>2, <1>4 DEF RowsInv, RowsInHand, HandOK, Editing
  <2>2. pay' = [pay EXCEPT ![k].amount = x]
    BY <1>2, <1>4 DEF Rewrite
  <2>3. /\ pay'[k].inv = i /\ pay'[k].amount = x
        /\ \A j \in PayIds : j # k => pay'[j] = pay[j]
    BY <2>1, <2>2 DEF TypeOK, PaymentRows
  <2>4. PICK t \in Int, a \in Int : t = total[i] /\ a = advance[i]
    BY DEF TypeOK
  <2>5. ValidPayment(x, Balance(t, a + ReceivedBut(i, k)))
    BY <1>1, <1>2, <2>1, <2>4 DEF AcceptedPaymentStillFits, Outstanding, NoData, Or
  <2> QED BY <1>1, <2>3, <2>4, <2>5, AcceptedStaysWithin
<1> QED BY <1>3, <1>4

(* A new invoice has no other rows, so its initial payment is all there is.   *)
LEMMA CreateStaysWithin ==
  ASSUME TypeOK, TypeOK', RowsInv, NEW i \in Invoices, NEW list \in ItemLists,
         NEW newTotal \in Totals, NEW amount \in Amounts \cup {0},
         CreateInvoice(i, list, newTotal, amount)
  PROVE  RowsShrinkFor(i) \/ StaysWithin(i)
<1>1. CASE UNCHANGED pay
  BY <1>1 DEF RowsShrinkFor, RowShrinks
<1>2. ASSUME NEW k \in PayIds, amount \in Int, amount > 0, amount <= Billable(newTotal),
             pay' = [pay EXCEPT ![k] = [inv |-> i, amount |-> amount]]
      PROVE  StaysWithin(i)
  <2>1. \A j \in PayIds : pay[j].inv # i
    BY CreateEffect, AbsentHasNoInvoice DEF RowsInv, PaymentsHaveInvoice
  <2>2. ReceivedBut(i, k) = 0
    <3>1. RowsBut(i, k) \in [1..MaxPay -> Int] /\ \A j \in 1..MaxPay : RowsBut(i, k)[j] = 0
      BY <2>1, RowsType DEF RowsBut, PayIds
    <3> QED BY <3>1, SumToZero, LedgerAssumption DEF ReceivedBut
  <2>3. newTotal \in Int /\ total'[i] = newTotal /\ advance'[i] = 0
    BY CreateEffect, LedgerAssumption
  <2>4. ValidPayment(amount, Balance(newTotal, 0 + ReceivedBut(i, k)))
    BY <1>2, <2>2, <2>3 DEF ValidPayment, Balance, Billable, MaxZero
  <2>5. /\ pay'[k].inv = i /\ pay'[k].amount = amount
        /\ \A j \in PayIds : j # k => pay'[j] = pay[j]
    BY <1>2 DEF TypeOK
  <2> QED BY <1>2, <2>3, <2>4, <2>5, AcceptedStaysWithin
<1> QED BY <1>1, <1>2, CreateEffect

LEMMA StepOverpaysNothing ==
  ASSUME MoneyInv, MoneyInv', [Next]_vars, NEW i \in Invoices
  PROVE  Grows(i) => StaysWithin(i)
<1> SUFFICES RowsShrinkFor(i) \/ StaysWithin(i)
  BY ShrinkingIsNoGrowth DEF MoneyInv, TypeInv, RowsInv
<1> USE DEF MoneyInv, TypeInv
<1>1. CASE UNCHANGED pay
  BY <1>1 DEF RowsShrinkFor, RowShrinks
<1>2. ASSUME NEW j \in Invoices, NEW list \in ItemLists, NEW newTotal \in Totals,
             NEW amount \in Amounts \cup {0}, CreateInvoice(j, list, newTotal, amount)
      PROVE  RowsShrinkFor(i) \/ StaysWithin(i)
  <2>1. CASE j = i
    BY <1>2, <2>1, CreateStaysWithin
  <2>2. CASE j # i
    BY <1>2, <2>2, CreateEffect DEF FreeId, RowsShrinkFor, RowShrinks, TypeOK
  <2> QED BY <2>1, <2>2
<1>3. ASSUME NEW r \in Requests, Begin(r) \/ Step(r) \/ Abort(r)
      PROVE  RowsShrinkFor(i) \/ StaysWithin(i)
  <2>0. HandOK(r)
    BY DEF RowsInv, RowsInHand
  <2>1. CASE Insert(r)
    <3>1. CASE ctx[r].inv = i
      BY <2>1, <3>1, InsertStaysWithin
    <3>2. CASE ctx[r].inv # i
      BY <2>0, <2>1, <3>2 DEF HandOK, Inserting, Insert, RowsShrinkFor, RowShrinks, TypeOK
    <3> QED BY <3>1, <3>2
  <2>2. CASE Rewrite(r)
    <3>1. CASE ctx[r].inv = i
      BY <2>2, <3>1, RewriteStaysWithin
    <3>2. CASE ctx[r].inv # i /\ pay[ctx[r].pid] = Absent
      BY <2>2, <3>2 DEF Rewrite, RowsShrinkFor, RowShrinks
    <3>3. CASE ctx[r].inv # i /\ pay[ctx[r].pid] # Absent
      <4>1. ctx[r].pid \in PayIds /\ pay[ctx[r].pid].inv = ctx[r].inv
        BY <2>0, <2>2, <3>3 DEF Rewrite, HandOK, Editing
      <4>2. pay'[ctx[r].pid].inv = ctx[r].inv
            /\ \A k \in PayIds : k # ctx[r].pid => pay'[k] = pay[k]
        BY <2>2, <3>3, <4>1 DEF Rewrite, TypeOK, PaymentRows
      <4> QED BY <3>3, <4>1, <4>2 DEF RowsShrinkFor, RowShrinks
    <3> QED BY <3>1, <3>2, <3>3
  <2>3. CASE DeletePayment(r) \/ DeleteInvoice(r)
    BY <2>3 DEF DeletePayment, DeleteInvoice, Cascade, RowsShrinkFor, RowShrinks, TypeOK
  <2>4. CASE DeleteItems(r) \/ AddItem(r) \/ Lock(r) \/ Validate(r) \/ Update(r) \/ Abort(r)
    BY <1>1, <2>4 DEF DeleteItems, AddItem, Lock, Validate, Update, Abort
  <2> QED BY <1>1, <1>3, <2>1, <2>2, <2>3, <2>4, BeginOpens DEF Step
<1> QED BY <1>1, <1>2, <1>3 DEF Next, Create, vars

(* No step that makes the payments of an invoice grow overpays it, for any    *)
(* number of concurrent requests: validatePaymentAmount under FOR UPDATE.     *)
THEOREM NothingOverpays == Spec => NoPaymentOverpays
<1>1. MoneyInv /\ MoneyInv' /\ [Next]_vars =>
        [\A i \in Invoices :
           Received(i)' > Received(i) => (advance[i] + Received(i))' <= Billable(total[i])']_vars
  BY StepOverpaysNothing DEF Grows, StaysWithin
<1> QED BY <1>1, AlwaysMoneyInv, PTL DEF Spec, NoPaymentOverpays
----------------------------------------------------------------------------
(* The ledger implements the account: every statement is a step of one whole  *)
(* invoice, or changes nothing an account shows.                              *)
GoneIsZero == \A i \in Invoices : ~live[i] => total[i] = 0 /\ advance[i] = 0

\* What the payment rows of every invoice add up to.
Book == [i \in Invoices |-> Received(i)]

\* Row k is left alone, or is and was a row of another invoice.
RowElsewhere(j, k) == pay'[k] = pay[k] \/ (pay[k].inv # j /\ pay'[k].inv # j)

(* Rows of other invoices do not count.                                       *)
LEMMA ReceivedKept ==
  ASSUME NEW j, \A k \in PayIds : RowElsewhere(j, k)
  PROVE  Received(j)' = Received(j)
<1>1. RowsBut(j, NoPayment)' = RowsBut(j, NoPayment)
  BY DEF RowsBut, RowElsewhere
<1> QED BY <1>1 DEF Received, ReceivedBut

LEMMA NothingReceived ==
  ASSUME TypeOK, NEW i, NEW x, \A k \in PayIds : pay[k].inv # i
  PROVE  ReceivedBut(i, x) = 0
<1>1. RowsBut(i, x) \in [1..MaxPay -> Int] /\ \A j \in 1..MaxPay : RowsBut(i, x)[j] = 0
  BY RowsType DEF RowsBut, PayIds
<1> QED BY <1>1, SumToZero, LedgerAssumption DEF ReceivedBut

LEMMA NothingReceivedNext ==
  ASSUME TypeOK', NEW i, \A k \in PayIds : pay'[k].inv # i
  PROVE  Received(i)' = 0
<1>1. \A k \in PayIds : pay'[k].amount \in Int
  BY DEF TypeOK, PaymentRows
<1>2. /\ RowsBut(i, NoPayment)' \in [1..MaxPay -> Int]
      /\ \A j \in 1..MaxPay : RowsBut(i, NoPayment)'[j] = 0
  BY <1>1 DEF RowsBut, PayIds
<1> QED BY <1>2, SumToZero, LedgerAssumption DEF Received, ReceivedBut

(* A deleted invoice, or one not made yet, has no payments.                   *)
LEMMA GoneHasNoRows ==
  ASSUME RowsInv, NEW i \in Invoices, ~live[i]
  PROVE  \A k \in PayIds : pay[k].inv # i
  BY AbsentHasNoInvoice DEF RowsInv, PaymentsHaveInvoice

LEMMA NextGoneIsZero ==
  ASSUME MoneyInv, MoneyInv', GoneIsZero, [Next]_vars
  PROVE  GoneIsZero'
<1> USE DEF MoneyInv, TypeInv
<1>1. CASE UNCHANGED <<live, total, advance>>
  BY <1>1 DEF GoneIsZero
<1>2. ASSUME NEW i \in Invoices, NEW list \in ItemLists, NEW newTotal \in Totals,
             NEW amount \in Amounts \cup {0}, CreateInvoice(i, list, newTotal, amount)
      PROVE  GoneIsZero'
  <2>1. /\ live' = [live EXCEPT ![i] = TRUE]
        /\ \A j \in Invoices : j # i => total'[j] = total[j] /\ advance'[j] = advance[j]
    BY <1>2, CreateEffect
  <2> QED BY <2>1 DEF GoneIsZero, TypeOK
<1>3. ASSUME NEW r \in Requests, Update(r) \/ Insert(r)
      PROVE  GoneIsZero'
  <2>1. UNCHANGED live /\ (UNCHANGED <<total, advance>> \/ (live[ctx[r].inv] /\ WriteInvoice(r)))
    BY <1>3 DEF Update, Insert, RowsInv, PaymentsHaveInvoice, InTransaction
  <2> QED BY <2>1 DEF GoneIsZero, WriteInvoice, TypeOK
<1>4. ASSUME NEW r \in Requests, DeleteInvoice(r)
      PROVE  GoneIsZero'
  BY <1>4 DEF DeleteInvoice, GoneIsZero, TypeOK
<1>5. ASSUME NEW r \in Requests, Begin(r)
      PROVE  GoneIsZero'
  BY <1>1, <1>5, BeginOpens
<1>6. ASSUME NEW r \in Requests,
             \/ DeleteItems(r) \/ AddItem(r) \/ Lock(r) \/ Validate(r) \/ Rewrite(r)
             \/ DeletePayment(r) \/ Abort(r)
      PROVE  GoneIsZero'
  BY <1>1, <1>6 DEF DeleteItems, AddItem, Lock, Validate, Rewrite, DeletePayment, Abort,
                    invoiceRows
<1> QED BY <1>1, <1>2, <1>3, <1>4, <1>5, <1>6 DEF Next, Create, Step, vars

LEMMA AlwaysBookInv == Spec => [](MoneyInv /\ GoneIsZero)
<1>1. Init => GoneIsZero
  BY DEF Init, GoneIsZero
<1>2. MoneyInv /\ MoneyInv' /\ GoneIsZero /\ [Next]_vars => GoneIsZero'
  BY NextGoneIsZero
<1> QED BY <1>1, <1>2, AlwaysMoneyInv, PTL DEF Spec

\* The step changes invoice i and its payments only.
OnlyInvoice(i) ==
  \A j \in Invoices : j # i =>
    total'[j] = total[j] /\ advance'[j] = advance[j] /\ Received(j)' = Received(j)

LEMMA BecomesOne ==
  ASSUME TypeOK, TypeOK', NEW i \in Invoices, OnlyInvoice(i)
  PROVE  Account!Becomes(i, total'[i], advance'[i], Received(i)')
<1>1. total' = [total EXCEPT ![i] = total'[i]] /\ advance' = [advance EXCEPT ![i] = advance'[i]]
  BY DEF TypeOK, OnlyInvoice
<1>2. Book' = [Book EXCEPT ![i] = Received(i)']
  BY DEF Book, OnlyInvoice
<1> QED BY <1>1, <1>2 DEF Account!Becomes, Book

(* A step that shows nothing of itself.                                       *)
LEMMA AccountStutters ==
  ASSUME UNCHANGED <<live, total, advance>>, \A j \in Invoices : Received(j)' = Received(j)
  PROVE  UNCHANGED Account!account
<1>1. Book' = Book
  BY DEF Book
<1> QED BY <1>1 DEF Account!account, Book

LEMMA PaysUnchanged ==
  ASSUME UNCHANGED pay PROVE \A j : Received(j)' = Received(j)
  BY ReceivedKept DEF RowElsewhere

LEMMA CreateOpens ==
  ASSUME MoneyInv, MoneyInv', NEW i \in Invoices, NEW list \in ItemLists,
         NEW newTotal \in Totals, NEW amount \in Amounts \cup {0},
         CreateInvoice(i, list, newTotal, amount)
  PROVE  Account!Open(i)
<1> USE DEF MoneyInv, TypeInv
<1>1. /\ ~live[i] /\ live' = [live EXCEPT ![i] = TRUE]
      /\ total'[i] = newTotal /\ advance'[i] = 0 /\ newTotal \in Int
  BY CreateEffect, LedgerAssumption
<1>2. \A k \in PayIds : pay[k].inv # i
  BY <1>1, GoneHasNoRows
<1>3. Received(i) = 0
  BY <1>2, NothingReceived DEF Received
<1>4. OnlyInvoice(i)
  <2> SUFFICES ASSUME NEW j \in Invoices, j # i PROVE Received(j)' = Received(j)
    BY CreateEffect DEF OnlyInvoice
  <2>1. \A k \in PayIds : RowElsewhere(j, k)
    BY CreateEffect, AbsentHasNoInvoice DEF FreeId, TypeOK, RowElsewhere
  <2> QED BY <2>1, ReceivedKept
<1>5. Received(i)' # 0 => Account!ValidPayment(Received(i)', newTotal)
  <2>1. CASE UNCHANGED pay
    BY <1>3, <2>1, PaysUnchanged
  <2>2. ASSUME NEW k \in PayIds, amount \in Int, amount > 0, amount <= Billable(newTotal),
               pay' = [pay EXCEPT ![k] = [inv |-> i, amount |-> amount]]
        PROVE  Account!ValidPayment(Received(i)', newTotal)
    <3>1. ReceivedBut(i, k) = 0
      BY <1>2, NothingReceived
    <3>2. Received(i)' = ReceivedBut(i, k) + amount
      BY <2>2, OneRowWritten DEF TypeOK
    <3> QED BY <1>1, <2>2, <3>1, <3>2
            DEF Billable, MaxZero, Account!ValidPayment, Account!MaxZero
  <2> QED BY <2>1, <2>2, CreateEffect
<1>6. Account!Becomes(i, total'[i], 0, Received(i)')
  BY <1>1, <1>4, BecomesOne
<1> QED BY <1>1, <1>3, <1>5, <1>6 DEF Account!Open

LEMMA UpdateAmends ==
  ASSUME MoneyInv, MoneyInv', NEW r \in Requests, Update(r)
  PROVE  UNCHANGED Account!account \/ \E i \in Invoices : Account!Amend(i)
<1> USE DEF MoneyInv, TypeInv
<1>0. PICK i \in Invoices : i = ctx[r].inv
  BY DEF Update, RowsInv, RowsInHand, HandOK
<1>1. /\ UNCHANGED <<live, pay>> /\ pc[r] = "update"
      /\ IF live[i] THEN WriteInvoice(r) ELSE UNCHANGED <<total, advance, subtotal>>
  BY <1>0 DEF Update
<1>2. \A j : Received(j)' = Received(j)
  BY <1>1, PaysUnchanged
<1>3. CASE ~live[i]
  BY <1>1, <1>2, <1>3, AccountStutters
<1>4. CASE live[i]
  <2>2. OnlyInvoice(i)
    BY <1>0, <1>1, <1>2, <1>4 DEF OnlyInvoice, WriteInvoice, TypeOK
  <2>3. Account!Becomes(i, total'[i], advance'[i], Received(i))
    BY <1>2, <2>2, BecomesOne
  <2>4. Account!Amend(i)
    BY <1>1, <1>4, <2>3 DEF Account!Amend
  <2> QED BY <2>4
<1> QED BY <1>3, <1>4

LEMMA InsertReceives ==
  ASSUME MoneyInv, MoneyInv', NEW r \in Requests, Insert(r)
  PROVE  \E i \in Invoices : Account!Receive(i)
<1> USE DEF MoneyInv, TypeInv
<1>1. /\ pc[r] = "insert" /\ WriteInvoice(r) /\ UNCHANGED live
      /\ pay' = [pay EXCEPT ![ctx[r].pid] = [inv |-> ctx[r].inv, amount |-> ctx[r].amount]]
  BY DEF Insert
<1>2. PICK i \in Invoices, k \in PayIds, x \in Int :
        i = ctx[r].inv /\ k = ctx[r].pid /\ x = ctx[r].amount /\ pay[k] = Absent
  BY <1>1 DEF RowsInv, RowsInHand, HandOK, Inserting, TypeOK, Contexts
<1>3. live[i]
  BY <1>1, <1>2 DEF RowsInv, PaymentsHaveInvoice, InTransaction
<1>4. /\ pay'[k].inv = i /\ pay'[k].amount = x
      /\ \A j \in PayIds : j # k => pay'[j] = pay[j]
  BY <1>1, <1>2 DEF TypeOK
<1>5. ReceivedBut(i, k) = Received(i)
  <2>1. RowsBut(i, k) = RowsBut(i, NoPayment)
    BY <1>2, AbsentHasNoInvoice DEF RowsBut, PayIds, NoPayment
  <2> QED BY <2>1 DEF Received, ReceivedBut
<1>6. Received(i)' = Received(i) + x /\ Received(i) \in Int
  BY <1>2, <1>4, <1>5, OneRowWritten, RowsType
<1>7. OnlyInvoice(i)
  <2> SUFFICES ASSUME NEW j \in Invoices, j # i
               PROVE  total'[j] = total[j] /\ advance'[j] = advance[j]
                      /\ Received(j)' = Received(j)
    BY DEF OnlyInvoice
  <2>1. total'[j] = total[j] /\ advance'[j] = advance[j]
    BY <1>1, <1>2 DEF WriteInvoice, TypeOK
  <2>2. \A n \in PayIds : RowElsewhere(j, n)
    BY <1>2, <1>4, AbsentHasNoInvoice DEF RowElsewhere
  <2> QED BY <2>1, <2>2, ReceivedKept
<1>8. ValidPayment(x, Balance(total'[i], advance'[i] + Received(i)))
  <2>1. /\ total'[i] = Or(ctx[r].data.total, total[i])
        /\ advance'[i] = Or(ctx[r].data.advance, advance[i])
    BY <1>1, <1>2 DEF WriteInvoice, TypeOK
  <2> QED BY <1>1, <1>2, <1>5, <2>1 DEF AcceptedPaymentStillFits, Outstanding
<1>9. Account!ValidPayment(Received(i)' - Received(i),
                           Account!Balance(total'[i], advance'[i] + Received(i)))
  BY <1>6, <1>8 DEF ValidPayment, Balance, Billable, MaxZero, Account!ValidPayment,
                    Account!Balance, Account!Billable, Account!MaxZero
<1>10. Account!Becomes(i, total'[i], advance'[i], Received(i)')
  BY <1>7, BecomesOne
<1>11. Account!Receive(i)
  BY <1>1, <1>3, <1>9, <1>10 DEF Account!Receive
<1> QED BY <1>11

LEMMA RewriteCorrects ==
  ASSUME MoneyInv, MoneyInv', [Next]_vars, NEW r \in Requests, Rewrite(r)
  PROVE  UNCHANGED Account!account \/ \E i \in Invoices : Account!Correct(i)
<1> USE DEF MoneyInv, TypeInv
<1>1. pc[r] = "rewrite" /\ UNCHANGED <<live, total, advance>>
  BY DEF Rewrite, invoiceRows
<1>2. PICK i \in Invoices, k \in PayIds : i = ctx[r].inv /\ k = ctx[r].pid
  BY <1>1 DEF RowsInv, RowsInHand, HandOK, Editing
<1>3. CASE pay[k] = Absent
  <2>1. UNCHANGED pay
    BY <1>2, <1>3 DEF Rewrite
  <2> QED BY <1>1, <2>1, PaysUnchanged, AccountStutters
<1>4. CASE pay[k] # Absent
  <2>1. pay[k].inv = i /\ live[i]
    BY <1>1, <1>2, <1>4 DEF RowsInv, RowsInHand, HandOK, Editing, PaymentsHaveInvoice
  <2>2. /\ pay'[k].inv = i
        /\ \A j \in PayIds : j # k => pay'[j] = pay[j]
    BY <1>2, <1>4, <2>1 DEF Rewrite, TypeOK, PaymentRows
  <2>3. OnlyInvoice(i)
    <3> SUFFICES ASSUME NEW j \in Invoices, j # i PROVE Received(j)' = Received(j)
      BY <1>1 DEF OnlyInvoice
    <3>1. \A n \in PayIds : RowElsewhere(j, n)
      BY <2>1, <2>2 DEF RowElsewhere
    <3> QED BY <3>1, ReceivedKept
  <2>4. Account!Becomes(i, total[i], advance[i], Received(i)')
    BY <1>1, <2>3, BecomesOne
  <2>5. Received(i)' > Received(i) => advance[i] + Received(i)' <= Account!Billable(total[i])
    <3>1. Grows(i) => StaysWithin(i)
      BY StepOverpaysNothing
    <3> QED BY <1>1, <3>1 DEF Grows, StaysWithin, Billable, MaxZero, Account!Billable,
                              Account!MaxZero
  <2>6. Account!Correct(i)
    BY <1>1, <2>1, <2>4, <2>5 DEF Account!Correct
  <2> QED BY <2>6
<1> QED BY <1>3, <1>4

LEMMA DeletionTakesBack ==
  ASSUME MoneyInv, MoneyInv', NEW r \in Requests, DeletePayment(r)
  PROVE  UNCHANGED Account!account \/ \E i \in Invoices : Account!TakeBack(i)
<1> USE DEF MoneyInv, TypeInv
<1> DEFINE k == ctx[r].pid
<1>1. UNCHANGED <<live, total, advance>> /\ pay' = [pay EXCEPT ![k] = Absent]
  BY DEF DeletePayment, invoiceRows
<1>2. CASE k \notin PayIds \/ pay[k] = Absent
  <2>1. UNCHANGED pay
    BY <1>1, <1>2 DEF TypeOK
  <2> QED BY <1>1, <2>1, PaysUnchanged, AccountStutters
<1>3. CASE k \in PayIds /\ pay[k] # Absent
  <2>1. PICK i \in Invoices : pay[k].inv = i /\ live[i]
    BY <1>3 DEF RowsInv, PaymentsHaveInvoice
  <2>2. \A n \in PayIds : pay'[n] = IF n = k THEN Absent ELSE pay[n]
    BY <1>1 DEF TypeOK
  <2>3. OnlyInvoice(i)
    <3> SUFFICES ASSUME NEW j \in Invoices, j # i PROVE Received(j)' = Received(j)
      BY <1>1 DEF OnlyInvoice
    <3>1. \A n \in PayIds : RowElsewhere(j, n)
      BY <2>1, <2>2, AbsentHasNoInvoice DEF RowElsewhere
    <3> QED BY <3>1, ReceivedKept
  <2>4. Account!Becomes(i, total[i], advance[i], Received(i)')
    BY <1>1, <2>3, BecomesOne
  <2>5. Received(i)' <= Received(i)
    BY <2>2, RowsShrink DEF Received, RowsInv
  <2>6. Account!TakeBack(i)
    BY <1>1, <2>1, <2>4, <2>5 DEF Account!TakeBack
  <2> QED BY <2>6
<1> QED BY <1>2, <1>3

LEMMA DeletionCloses ==
  ASSUME MoneyInv, MoneyInv', GoneIsZero, NEW r \in Requests, DeleteInvoice(r)
  PROVE  UNCHANGED Account!account \/ \E i \in Invoices : Account!Close(i)
<1> USE DEF MoneyInv, TypeInv
<1>1. PICK i \in Invoices : i = ctx[r].inv
  BY DEF DeleteInvoice, RowsInv, RowsInHand, HandOK
<1>2. /\ live' = [live EXCEPT ![i] = FALSE]
      /\ total' = [total EXCEPT ![i] = 0] /\ advance' = [advance EXCEPT ![i] = 0]
      /\ \A k \in PayIds : pay'[k] = IF pay[k].inv = i THEN Absent ELSE pay[k]
  BY <1>1 DEF DeleteInvoice, Cascade
<1>3. \A j \in Invoices : j # i => Received(j)' = Received(j)
  <2> SUFFICES ASSUME NEW j \in Invoices, j # i PROVE Received(j)' = Received(j)
    OBVIOUS
  <2>1. \A k \in PayIds : RowElsewhere(j, k)
    BY <1>2, AbsentHasNoInvoice DEF RowElsewhere
  <2> QED BY <2>1, ReceivedKept
<1>4. Received(i)' = 0
  BY <1>2, AbsentHasNoInvoice, NothingReceivedNext
<1>5. CASE live[i]
  <2>1. OnlyInvoice(i)
    BY <1>2, <1>3 DEF OnlyInvoice, TypeOK
  <2>2. total'[i] = 0 /\ advance'[i] = 0
    BY <1>2 DEF TypeOK
  <2>3. Account!Becomes(i, 0, 0, 0)
    BY <1>4, <2>1, <2>2, BecomesOne
  <2>4. Account!Close(i)
    BY <1>2, <1>5, <2>3 DEF Account!Close
  <2> QED BY <2>4
<1>6. CASE ~live[i]
  <2>1. Received(i) = 0
    BY <1>6, GoneHasNoRows, NothingReceived DEF Received
  <2>2. UNCHANGED <<live, total, advance>>
    BY <1>2, <1>6 DEF GoneIsZero, TypeOK
  <2>3. \A j \in Invoices : Received(j)' = Received(j)
    BY <1>3, <1>4, <2>1
  <2> QED BY <2>2, <2>3, AccountStutters
<1> QED BY <1>5, <1>6

(* Every step of the ledger is a step of the account, or none.                *)
LEMMA NextRefines ==
  ASSUME MoneyInv, MoneyInv', GoneIsZero, [Next]_vars
  PROVE  [Account!Next]_(Account!account)
<1> USE DEF Account!Next
<1>1. CASE UNCHANGED <<live, total, advance, pay>>
  BY <1>1, PaysUnchanged, AccountStutters
<1>2. ASSUME NEW i \in Invoices, NEW list \in ItemLists, NEW newTotal \in Totals,
             NEW amount \in Amounts \cup {0}, CreateInvoice(i, list, newTotal, amount)
      PROVE  Account!Next
  BY <1>2, CreateOpens
<1>3. ASSUME NEW r \in Requests, Begin(r) \/ Step(r) \/ Abort(r)
      PROVE  [Account!Next]_(Account!account)
  <2>1. CASE Begin(r)
    BY <1>1, <2>1, BeginOpens
  <2>2. CASE DeleteItems(r) \/ AddItem(r) \/ Lock(r) \/ Validate(r) \/ Abort(r)
    BY <1>1, <2>2 DEF DeleteItems, AddItem, Lock, Validate, Abort, invoiceRows
  <2>3. CASE Update(r)
    BY <2>3, UpdateAmends
  <2>4. CASE Insert(r)
    BY <2>4, InsertReceives
  <2>5. CASE Rewrite(r)
    BY <2>5, RewriteCorrects
  <2>6. CASE DeletePayment(r)
    BY <2>6, DeletionTakesBack
  <2>7. CASE DeleteInvoice(r)
    BY <2>7, DeletionCloses
  <2> QED BY <1>3, <2>1, <2>2, <2>3, <2>4, <2>5, <2>6, <2>7 DEF Step
<1> QED BY <1>1, <1>2, <1>3 DEF Next, Create, vars

(* The statements of any number of concurrent requests add up to the account  *)
(* of InvoiceAccount: invoices that change one at a time, each change whole,  *)
(* and payments that never grow beyond what is billable.                      *)
THEOREM LedgerImplementsAccount == Spec => RefinesAccount
<1>1. Init => Account!Init
  <2> SUFFICES ASSUME Init PROVE Account!Init
    OBVIOUS
  <2>1. TypeOK /\ \A k \in PayIds : pay[k] = Absent
    BY InitTypeInv DEF Init, TypeInv
  <2>2. \A i \in Invoices : Received(i) = 0
    BY <2>1, AbsentHasNoInvoice, NothingReceived DEF Received
  <2> QED BY <2>2 DEF Init, Account!Init
<1>2. MoneyInv /\ MoneyInv' /\ GoneIsZero /\ [Next]_vars => [Account!Next]_(Account!account)
  BY NextRefines
<1> QED BY <1>1, <1>2, AlwaysBookInv, PTL DEF Spec, RefinesAccount, Account!Spec
=============================================================================

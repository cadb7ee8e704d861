SPECIFICATION Spec
CONSTANTS
  Requests = {r1, r2}
  Invoices = {i1}
  MaxPay = 2
  Totals <- MCTotals
  Advances <- MCAdvances
  Amounts <- MCAmounts
  ItemLists <- MCItemLists
  NoRequest = NoRequest
  NoInvoice = NoInvoice
  NoEdit = NoEdit
SYMMETRY Interchangeable
INVARIANTS TypeOK LockDiscipline AcceptedPaymentStillFits PaymentsHaveInvoice
PROPERTIES NoPaymentOverpays RefinesAccount

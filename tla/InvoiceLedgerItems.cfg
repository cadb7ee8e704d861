SPECIFICATION SpecUninterrupted
CONSTANTS
  Requests = {r1}
  Invoices = {i1, i2}
  MaxPay = 1
  Totals <- MCFewTotals
  Advances = {}
  Amounts <- MCFewAmounts
  ItemLists <- MCChangingItems
  NoRequest = NoRequest
  NoInvoice = NoInvoice
  NoEdit = NoEdit
INVARIANTS ItemsMatchSubtotal

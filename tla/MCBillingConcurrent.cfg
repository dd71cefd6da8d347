SPECIFICATION Spec
CONSTANTS
  Bill = {b1, b2}
  Batch = {x1, x2}
  Line = {l1, l2}
  Request = {r1, r2}
  Qty = {1, 2}
  MaxQty = 2
  Delta <- MCDelta
  Attempts = 3
  Ops <- AllOps
  InitStock <- MCInitStock
  Limit <- MCLimit
  StockOf = 2
  Requests = 3
  Events = 1
  NoBill = NoBill
  NoLine = NoLine
  NoBatch = NoBatch
SYMMETRY Symmetry
INVARIANTS TypeOK SaleIsInvoiced OneJobPerBill
PROPERTIES ReservedWithinStock SaleIsCovered RefinesLedger
CHECK_DEADLOCK FALSE

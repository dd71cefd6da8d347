SPECIFICATION Spec
CONSTANTS
  Bill = {b1, b2}
  Batch = {x1}
  Line = {l1, l2}
  Request = {r1, r2}
  Qty = {1, 2}
  MaxQty = 2
  Delta <- MCDelta
  Attempts = 3
  Ops <- LineEdits
  InitStock <- MCInitStock
  Limit <- MCLimit
  StockOf = 3
  Requests = 3
  Events = 0
  NoBill = NoBill
  NoLine = NoLine
  NoBatch = NoBatch
INVARIANT NoPhantomReservation
CHECK_DEADLOCK FALSE

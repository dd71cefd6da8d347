SPECIFICATION Spec
CONSTANTS
  Bill = {b1, b2}
  Batch = {x1}
  Line = {l1, l2}
  Request = {r1}
  Qty = {1, 2, 3}
  MaxQty = 3
  Delta <- MCDelta
  Attempts = 3
  Ops <- AllOps
  InitStock <- MCInitStock
  Limit <- MCLimit
  StockOf = 3
  Requests = 4
  Events = 1
  NoBill = NoBill
  NoLine = NoLine
  NoBatch = NoBatch
INVARIANTS NoPhantomReservation SaleMatchesLines
PROPERTY PoolIsUsed
CHECK_DEADLOCK FALSE

SPECIFICATION FairSpec
CONSTANTS
  Bill = {b1, b2}
  Batch = {x1}
  Line = {l1, l2}
  Request = {r1}
  Qty = {1}
  MaxQty = 1
  Delta <- MCDelta
  Attempts = 3
  Ops <- Completing
  InitStock <- MCInitStock
  Limit <- MCLimit
  StockOf = 2
  Requests = 4
  Events = 1
  NoBill = NoBill
  NoLine = NoLine
  NoBatch = NoBatch
PROPERTY JobsSettle
CHECK_DEADLOCK FALSE

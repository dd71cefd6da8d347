SPECIFICATION FairSpec
CONSTANTS
  Bill = {b1}
  Batch = {x1}
  Line = {l1}
  Request = {r1, r2}
  Qty = {1}
  MaxQty = 2
  Delta <- MCDelta
  Attempts = 3
  Ops <- AddAndComplete
  InitStock <- MCInitStock
  Limit <- MCLimit
  StockOf = 2
  Requests = 3
  Events = 0
  NoBill = NoBill
  NoLine = NoLine
  NoBatch = NoBatch
PROPERTY PendingCommitSettles
CHECK_DEADLOCK FALSE

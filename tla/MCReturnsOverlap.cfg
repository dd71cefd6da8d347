SPECIFICATION Spec
CONSTANTS
  i1 = i1
  i2 = i2
  i3 = i3
  b1 = b1
  b2 = b2
  x1 = x1
  x2 = x2
  BillItem = {i1, i2, i3}
  Bill = {b1, b2}
  Batch = {x1, x2}
  Return = {n1, n2}
  Request = {r1, r2}
  Sold <- MCSold
  BillOf <- MCBillOf
  BatchOf <- MCBatchOf
  InitStock <- MCInitStock
  Drafts <- MCDrafts
  NoReturn = NoReturn
SYMMETRY Symmetry
INVARIANT ReturnedWithinSold
CHECK_DEADLOCK FALSE

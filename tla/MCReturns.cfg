SPECIFICATION Spec
CONSTANTS
  i1 = i1
  i2 = i2
  i3 = i3
  b1 = b1
  b2 = b2
  x1 = x1
  x2 = x2
  BillItem = {i1, i2, i3}
  Bill = {b1, b2}
  Batch = {x1, x2}
  Return = {n1, n2, n3, n4}
  Request = {r1}
  Sold <- MCSold
  BillOf <- MCBillOf
  BatchOf <- MCBatchOf
  InitStock <- MCInitStock
  Drafts <- MCDrafts
  NoReturn = NoReturn
SYMMETRY Symmetry
INVARIANTS TypeOK ReturnNumbersUnique ReturnedWithinSold StockMatchesReturns FullReturnLeavesNothing
PROPERTY CompletedIsFinal
CHECK_DEADLOCK FALSE

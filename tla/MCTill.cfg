SPECIFICATION MCSpec
CONSTANTS
  Staff = {"admin", "cashier", "helper", "store", "odd"}
  Nobody = "nobody"
  ACustomer = "customer"
  Profile <- MCProfile
  PageCode = {"master.product.view", "master.customer.view", "billing.access"}
  AdminCode = {"master.product.view"}
  LineId = {1}
  MaxQty = 2
  Rate = 3
  PerUnit = 1
  Off = {0, 4}
  Screen = {a, b}
  Overlapping = FALSE
  Bill = {1, 2}
  NoBill = 0
  Faults = TRUE
  Line = {1, 2}
  NoLine = 0
  MaxTyped = 2
  MaxSent = 3
  ScanNo = {1, 2, 3}
  ScanWhileFlushing = FALSE
  Counter = {a, b}
  NoOne = NoOne
  Stock = 2
  MaxWant = 1
  MaxPushed = 0
  Item = {1, 2}
  Lot = {1, 2, 3}
  Label <- MCLabel
  Tag <- MCTag
  NoCode = "null"
  Typed = {"pill"}
  Scanned = {"b", "n1", "s"}
  LastDay = 1
  MaxStir = 1
  MaxLooks = 2
  MaxLines = 2
  Client = {1, 2}
  Registered = {1}
  WalkIn = 0
  Search <- MCSearch
  Limit = {1, 2}
  BillTotal = 2
  MaxBills = 2
  MaxEdits = 1
  Sale = {1, 2}
  BuyerOf <- MCBuyerOf
  Buyer = 1
  MaxPrints = 2
  MaxOpened = 2
SYMMETRY Symmetry
INVARIANTS TypesOK TotalsMatchLines PaidInFull LineDiscountWithinLine    NoScanLost AlertsAreTrue OwnShortageShown  CreditToShownCustomer CopiesBelong
PROPERTY EditsShownInOrder
CHECK_DEADLOCK FALSE

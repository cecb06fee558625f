SPECIFICATION OnlyTabSpec
CONSTANTS
  None = None
  User = {u1}
  i1 = i1
  i2 = i2
  Item = {i1, i2}
  Pages = 1
  Stock = 1
  TotalStock <- MCTotalStock
  PageOf <- MCPageOf
  Patient = FALSE
  Reliable = FALSE
  MayFail = {"login", "plus"}
  MaxRequests = 2
  MaxPushes = 0
  MaxTimers = 2
  Extra = 0
  MaxUnits <- MCMaxUnits
INVARIANTS TypeOK LineErrorHasTimer
PROPERTY LineErrorsAreBrief

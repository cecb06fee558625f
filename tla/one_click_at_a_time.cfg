SPECIFICATION ScreenSpec
CONSTANTS
  None = None
  User = {u1}
  i1 = i1
  i2 = i2
  Item = {i1, i2}
  Pages = 2
  Stock = 1
  TotalStock <- MCTotalStock
  PageOf <- MCPageOf
  Patient = TRUE
  Reliable = TRUE
  MayFail = {"login","items","cart","add","plus","minus","remove","checkout"}
  MaxRequests = 2
  MaxPushes = 1
  MaxTimers = 1
  Extra = 1
  MaxUnits <- MCMaxUnits
INVARIANT ScreenInSync

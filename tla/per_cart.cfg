SPECIFICATION FairSpec
CONSTANTS
  None = None
  User = {u1, u2}
  Item = {i1, i2}
  Stock = 2
  TotalStock <- MCTotalStock
  Request = {r1, r2, r3}
  Quantity = {1, 2}
  Op = {"add", "increase", "decrease", "remove", "checkout"}
  Concurrency = "perCart"
  MaxExpiring = 1
  ShortTtl = FALSE
  Faulty = {"add", "order"}
  MaxCrashes = 0
  MaxRedisRestarts = 0
PROPERTIES ImplementsLedger StockReturns
CHECK_DEADLOCK FALSE

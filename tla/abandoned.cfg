SPECIFICATION FairSpec
CONSTANTS
  None = None
  User = {u1, u2}
  Item = {i1}
  Stock = 2
  TotalStock <- MCTotalStock
  Request = {r1, r2, r3}
  Quantity = {1}
  Op = {"add", "remove", "checkout"}
  Concurrency = "any"
  MaxExpiring = 2
  ShortTtl = FALSE
  Faulty = {}
  MaxCrashes = 0
  MaxRedisRestarts = 0
INVARIANT NoImmortalRow
PROPERTY AbandonedCartsRelease
CHECK_DEADLOCK FALSE

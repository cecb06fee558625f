SPECIFICATION Spec
CONSTANTS
  None = None
  User = {u1}
  Item = {i1}
  Stock = 1
  TotalStock <- MCTotalStock
  Request = {r1, r2, r3}
  Quantity = {1}
  Op = {"add", "checkout"}
  Concurrency = "any"
  MaxExpiring = 0
  ShortTtl = FALSE
  Faulty = {}
  MaxCrashes = 0
  MaxRedisRestarts = 0
SYMMETRY Symmetry
INVARIANT SoldWithinStock
CHECK_DEADLOCK FALSE

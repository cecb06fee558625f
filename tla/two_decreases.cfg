SPECIFICATION Spec
CONSTANTS
  None = None
  User = {u1}
  Item = {i1}
  Stock = 2
  TotalStock <- MCTotalStock
  Request = {r1, r2, r3}
  Quantity = {1, 2}
  Op = {"add", "decrease"}
  Concurrency = "any"
  MaxExpiring = 0
  ShortTtl = FALSE
  Faulty = {}
  MaxCrashes = 0
  MaxRedisRestarts = 0
SYMMETRY Symmetry
INVARIANT StockWithinCapacity
CHECK_DEADLOCK FALSE

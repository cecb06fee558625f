SPECIFICATION Spec
CONSTANTS
  None = None
  User = {u1, u2}
  Item = {i1}
  Stock = 2
  TotalStock <- MCTotalStock
  Request = {r1, r2, r3}
  Quantity = {1}
  Op = {"add", "increase", "decrease", "remove", "checkout"}
  Concurrency = "any"
  MaxExpiring = 1
  ShortTtl = FALSE
  Faulty = {"add", "reply", "expire", "notify"}
  MaxCrashes = 1
  MaxRedisRestarts = 0
SYMMETRY Symmetry
INVARIANTS TypeOK StockNonNegative CartsAreSeparate
CHECK_DEADLOCK FALSE

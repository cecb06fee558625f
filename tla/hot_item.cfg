SPECIFICATION Spec
CONSTANTS
  None = None
  User = {u1}
  Item = {i1}
  Stock = 3
  TotalStock <- MCTotalStock
  Request = {r1, r2, r3}
  Quantity = {1, 2}
  Op = {"add", "increase"}
  Concurrency = "any"
  MaxExpiring = 0
  ShortTtl = TRUE
  Faulty = {"add", "increase"}
  MaxCrashes = 1
  MaxRedisRestarts = 1
SYMMETRY Symmetry
INVARIANTS NoOversell SeedReconciles
CHECK_DEADLOCK FALSE

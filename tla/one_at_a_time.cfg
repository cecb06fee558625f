SPECIFICATION HeardSpec
CONSTANTS
  None = None
  User = {u1, u2}
  Item = {i1, i2}
  Stock = 2
  TotalStock <- MCTotalStock
  Request = {r1, r2, r3}
  Quantity = {1, 2}
  Op = {"add", "increase", "decrease", "remove", "checkout"}
  Concurrency = "one"
  MaxExpiring = 1
  ShortTtl = TRUE
  Faulty = {"add", "increase", "reserve", "undo", "undoDrop", "get", "release", "drop", "delete", "shrink", "survey", "refresh", "order", "clear", "empty", "notify", "reply", "expire"}
  MaxCrashes = 1
  MaxRedisRestarts = 0
SYMMETRY Symmetry
INVARIANT ClientsInSync
CHECK_DEADLOCK FALSE

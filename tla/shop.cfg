SPECIFICATION ShopSpec
CONSTANTS
  None = None
  Absent = Absent
  i1 = i1
  i2 = i2
  i3 = i3
  j1 = j1
  j2 = j2
  j3 = j3
  Alice = Alice
  alice = alice
  alicePadded = alicePadded
  blank = blank
  User = {u1, u2}
  Item = {i1, i2, i3, j1, j2, j3}
  Wanted = {i1, j1}
  Stock = 2
  TotalStock <- MCTotalStock
  Price <- MCPrice
  Batch <- MCBatch
  DEFAULT_LIMIT = 2
  MAX_LIMIT = 2
  Asked = {Absent, 0, 1, 3}
  Login = {l1, l2}
  Typed = {alice, alicePadded, blank}
  Name = {Alice}
  Trim <- MCTrim
  Request = {r1, r2, r3}
  Quantity = {1}
  Op = {"add", "increase", "decrease", "remove", "checkout"}
  Concurrency = "perCart"
  MaxExpiring = 1
  ShortTtl = FALSE
  Faulty = {"add"}
  MaxCrashes = 0
  MaxRedisRestarts = 0
  MaxResets = 1
  MaxDeaths = 1
SYMMETRY Symmetry
INVARIANTS OneAccountPerName ResetNeverOversells OpensWithFullStock
  CatalogueNotDoubled PagesCover ChargedWhatWasSold
CHECK_DEADLOCK FALSE

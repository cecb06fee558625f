---------------------------- MODULE Reset_proof ----------------------------
(***************************************************************************)
(* The reset script and the shop: when the handlers of a cart do not       *)
(* overlap, npm run seed under a running server, or the boot of a new one, *)
(* never puts more units up for sale than the catalogue has, and without   *)
(* lost units the shop opens with all of them, whatever handlers of the    *)
(* old catalogue are still under way.                                      *)
(*                                                                         *)
(* The argument: all that is promised of an item is for sale, claimed,     *)
(* held or sold.  A unit is claimed by a row of the carts, or by the copy  *)
(* of a row that the reset has wiped and its handler will still credit or  *)
(* sell, and held between the command on the counter and the write of the  *)
(* row.  No step of anybody promises more of an item than there is         *)
(* (Balanced): a handler moves units from one of the four to another, and  *)
(* the script seeds counters of a new batch, whose items have fresh ids:   *)
(* nothing was promised of them before.  Books says what every handler     *)
(* knows of the rows it has read.  That the units in carts are at most     *)
(* those that are claimed or held is the last step.                        *)
(***************************************************************************)
EXTENDS Shop_proof, Ledger_proof

(* The hypothesis: each cart has one handler under way at a time (the      *)
(* expiry of its keys included), and no write is lost that follows the     *)
(* credit of a counter, or that of an order.                               *)
CartsOneAtATime ==
  /\ Concurrency = "perCart"
  /\ Faulty \cap {"drop", "delete", "shrink", "clear", "empty", "reply", "expire"} = {}

(* Besides, no units are lost: the rollback's INCRBY and the save of an    *)
(* increase do not fail.                                                   *)
Lossless == Faulty \cap {"undo", "increase"} = {}

(* The members of a sequence. *)
Listed(s) == {s[k] : k \in 1 .. Len(s)}

(* All the units of item i must be somewhere: it is in the catalogue of an *)
(* open server, or the reset script has seeded its counter.                *)
Settled(i) ==
  /\ Lossless
  /\ i \in Ids
  /\ \/ admin.pc = "idle" /\ server = "up"
     \/ admin.pc = "seed" /\ i \notin Listed(admin.left)

(* Item i has not been for sale yet: it is still to be inserted, or the    *)
(* reset script is still to seed its counter.                              *)
Unopened(i) ==
  \/ \E n \in batches + 1 .. Len(Batch) : i \in Listed(Batch[n])
  \/ i \in Listed(toInsert)
  \/ admin.pc \in {"insert", "keys", "del"} /\ i \in Ids
  \/ admin.pc = "seed" /\ i \in Listed(admin.left)

(* The row that a handler has read, or is about to shrink. *)
BaseRow(l) == [id |-> l.id, user |-> l.user, item |-> l.item, qty |-> l.base]

(* Handler r has the units of row c in its own books: those of the row     *)
(* itself no longer count.                                                 *)
Taken(r, c) ==
  \/ req[r].pc \in {"drop", "delete", "shrink"} /\ req[r].id = c
  \/ req[r].pc \in {"clear", "empty"} /\ \E row \in orders[r] : row.id = c

(* The rows, as handler r has read them, whose units it may still release, *)
(* sell or write.                                                          *)
Carried(r) ==
  LET l == req[r]
  IN  CASE l.pc \in {"release", "drop", "delete", "order"} -> l.todo
        [] l.pc \in {"reserve", "save"} /\ l.base # 0 -> {BaseRow(l)}
        [] l.pc = "shrink" -> {ShrunkRow(l)} \cup {row \in l.todo : row.id # l.id}
        [] OTHER -> {}

(* The row of id c is there, and nobody is about to delete or shrink it.   *)
Standing(c) ==
  /\ rows[c] # None
  /\ \A r \in Request : ~Taken(r, c)
  /\ \A h \in exp : ~(h.pc = "delete" /\ h.id = c)

(* The rows on whose units somebody has a claim. *)
Claims ==
  {rows[c] : c \in {d \in Request : Standing(d)}}
  \cup (UNION {Carried(r) : r \in Request})
  \cup {h.row : h \in {g \in exp : g.pc = "release"}}

(* The units of an item in rows that somebody claims.                      *)
Claimed(i) == QtyOf(RowsOf(Claims, i))
(* All that are promised: for sale, claimed, in a handler's hands, or sold. *)
Promised(i) == stock[i] + Claimed(i) + Pending(i) + Sold(i)

(* How many may be. *)
Ceiling(i) == IF Unopened(i) THEN 0 ELSE TotalStock[i]

(* Never too many, and none is missing of an item that is settled.         *)
Balanced == \A i \in Item : /\ Promised(i) <= Ceiling(i)
                            /\ Settled(i) => Promised(i) = TotalStock[i]

(* A row read earlier is still there, or has been wiped with its item.     *)
Match(row) == rows[row.id] = row \/ (rows[row.id] = None /\ ~Settled(row.item))

(* What handler r has read is still so, but for what a reset has wiped.    *)
Recall(r) ==
  LET l == req[r]
  IN  /\ l.pc \in {"reserve", "save"}
           => IF l.base = 0 THEN rows[l.id] = None ELSE Match(BaseRow(l))
      /\ l.pc \in {"release", "drop", "delete", "order", "shrink"}
           => /\ \A row \in l.todo : Match(row)
              /\ \A x, y \in l.todo : x.id = y.id => x = y
      /\ l.pc \in {"drop", "delete"}
           => /\ l.id \in Request /\ Started(l.id) /\ req[l.id].user = l.user
              /\ \A row \in l.todo : row.id # l.id
      /\ l.pc = "shrink" => BaseRow(l) \in l.todo
      /\ l.pc = "order" => FindByUser(l.user) \subseteq l.todo
      /\ l.pc \in {"clear", "empty"}
           => \/ FindByUser(l.user) \subseteq orders[r]
              \/ /\ orders[r] = {}
                 /\ \A row \in FindByUser(l.user) : ~Settled(row.item)
      /\ l.pc \in {"reserve", "save"} => l.op \in {"add", "increase"}
      /\ l.pc \in {"new", "order"} => orders[r] = {}
      /\ Started(r) => l.user \in User

(* So do all of them.                                                      *)
Recalls == \A r \in Request : Recall(r)

(* So it is for the handlers of expired keys, which are those of requests  *)
(* that have arrived.                                                      *)
ExpiryRecalls == \A h \in exp : Started(h.id) /\ (h.pc = "release" => Match(h.row))

(* Before the server is open nothing has happened but to the catalogue.    *)
Booted ==
  /\ server # "up" =>
       /\ exp = {}
       /\ \A r \in Request : req[r].pc = "new" /\ orders[r] = {} /\ rows[r] = None
  /\ server \in {"loaded", "seeded"} => admin.pc = "idle"
  /\ server = "seeded" => \A i \in Ids : stock[i] = TotalStock[i]

(* What the reset script has listed, or still has to seed, are different   *)
(* items of the catalogue.                                                 *)
Listing ==
  /\ admin.pc \in {"keys", "del"} => admin.left = items
  /\ admin.pc = "seed" =>
       /\ admin.left \in Seq(Item)
       /\ Listed(admin.left) \subseteq Ids
       /\ \A j, k \in 1 .. Len(admin.left) : admin.left[j] = admin.left[k] => j = k

(* What is known besides: the invariants of the catalogue, of the carts    *)
(* and of the bills.                                                       *)
Ground == ChargedInv /\ CatalogueInv /\ NonNegative

(* The inductive invariant, but for the balance. *)
Books == /\ Ground /\ Alone /\ KeysStarted /\ Recalls /\ ExpiryRecalls /\ Booted /\ Listing

-----------------------------------------------------------------------------
(* The ground: invariants that need no hypothesis.                         *)

(* The shop's own steps leave no counter below zero. *)
LEMMA GroundNext ==
  ASSUME Ground, [ShopNext]_shopVars
  PROVE  Ground'
<1>1. ChargedInv' /\ CatalogueInv'
  BY ChargedNext, CatalogueNext DEF Ground
<1>2. /\ Inv /\ NonNegative /\ saved \in [stock : [Item -> Int], key : [Request -> Request \cup {None}]]
      /\ stock \in [Item -> Int]
  BY DEF Ground, ChargedInv, ShopInv, Inv, TypeOK, RedisTypeOK
<1>3. ASSUME Next PROVE NonNegative'
  <2>1. [Next]_vars
    BY <1>3
  <2> QED
    BY <1>2, <2>1, NonNegativeNext, SavedNext DEF NonNegative
<1>4. ASSUME stock' = stock, saved' = saved PROVE NonNegative'
  BY <1>2, <1>4 DEF NonNegative, StockNonNegative, SavedNonNegative
<1>5. ASSUME \/ UNCHANGED shopVars \/ Fill \/ Dies \/ LogIn \/ StartReset
             \/ WipeItems \/ WipeCarts \/ WipeOrders
             \/ ResetCounts \/ ListCreated \/ ListKeys
      PROVE  NonNegative'
  <2>1. UNCHANGED shopVars => UNCHANGED <<stock, saved>>
    BY DEF shopVars, backVars
  <2>2. Fill \/ Dies \/ LogIn \/ StartReset => UNCHANGED <<stock, saved>>
    BY DEF Fill, Dies, LogIn, StartReset, backVars
  <2>3. WipeItems \/ WipeCarts \/ WipeOrders => UNCHANGED <<stock, saved>>
    BY DEF WipeItems, WipeCarts, WipeOrders, Wipe, redisVars
  <2>4. ResetCounts \/ ListCreated \/ ListKeys => UNCHANGED <<stock, saved>>
    BY DEF ResetCounts, ListCreated, ListKeys, backVars
  <2> QED
    BY <1>4, <1>5, <2>1, <2>2, <2>3, <2>4
<1>6. ASSUME DeleteKeys PROVE NonNegative'
  <2>1. stock' = [i \in Item |-> 0] /\ saved' = saved
    BY <1>6 DEF DeleteKeys, Nothing, redisLife
  <2>2. /\ \A i \in Item : stock'[i] >= 0
        /\ \A i \in Item : saved'.stock[i] >= 0
    BY <1>2, <2>1 DEF NonNegative, SavedNonNegative
  <2> QED
    BY <2>2 DEF NonNegative, StockNonNegative, SavedNonNegative
<1>7. ASSUME NEW S, NEW reserved \in [Item -> Nat], Seed(S, reserved), saved' = saved
      PROVE  NonNegative'
  <2>1. \A i \in Item : TotalStock[i] \in Nat /\ reserved[i] \in Nat
    BY <1>7, TotalStockAssumption
  <2> QED
    BY <1>2, <1>7, <2>1 DEF NonNegative, StockNonNegative, SavedNonNegative, Seed, SeedValue
<1>8. ASSUME SeedCreated PROVE NonNegative'
  <2>1. NothingReserved \in [Item -> Nat]
    BY DEF NothingReserved
  <2>2. Seed({Head(admin.left)}, NothingReserved) /\ saved' = saved
    BY <1>8 DEF SeedCreated, redisLife
  <2> QED
    BY <1>7, <2>1, <2>2
<1>9. ASSUME BootSeeds PROVE NonNegative'
  <2>1. aggregateReservedQuantities \in [Item -> Nat]
    BY <1>2, AggregateType DEF Inv, TypeOK
  <2>2. Seed(Ids, aggregateReservedQuantities) /\ saved' = saved
    BY <1>9 DEF BootSeeds, redisLife
  <2> QED
    BY <1>7, <2>1, <2>2
<1>10. ASSUME BootCounts \/ BootLoads \/ BootSubscribes PROVE NonNegative'
  <2>1. UNCHANGED <<stock, saved>>
    BY <1>10 DEF BootCounts, backVars, BootLoads, LoadScript, LoadReserveScript,
       BootSubscribes, Subscribe, redisVars
  <2> QED
    BY <1>4, <2>1
<1>11. ASSUME NEW r \in Request, NEW u \in User, NEW i \in Wanted, LooksUp(r, u, i)
       PROVE  NonNegative'
  BY <1>4, <1>11 DEF LooksUp, backVars
<1>12. ASSUME NEW r \in Request, PriceLines(r)
       PROVE  NonNegative'
  BY <1>4, <1>12 DEF PriceLines, redisVars
<1>13. ASSUME NEW r \in Request, CallShop(r)
       PROVE  NonNegative'
  BY <1>3, <1>13, CallIsFlashSale DEF Next
<1>14. ASSUME HandlerSteps PROVE NonNegative'
  <2>1. Next
    BY <1>14 DEF HandlerSteps, Next
  <2> QED
    BY <1>3, <2>1
<1>15. NonNegative'
  <2>1. CASE UNCHANGED shopVars
    BY <1>5, <2>1
  <2>2. CASE ShopBoots
    BY <1>9, <1>10, <2>2 DEF ShopBoots
  <2>3. CASE Reset
    BY <1>5, <1>6, <1>8, <2>3 DEF Reset
  <2>4. CASE \E r \in Request, u \in User, i \in Wanted : LooksUp(r, u, i)
    BY <1>11, <2>4
  <2>5. CASE \E r \in Request : CallShop(r) \/ PriceLines(r)
    BY <1>12, <1>13, <2>5
  <2> QED
    BY <1>5, <1>14, <2>1, <2>2, <2>3, <2>4, <2>5 DEF ShopNext
<1> QED
  BY <1>1, <1>15 DEF Ground

(* It holds initially. *)
LEMMA GroundInit == ShopInit => Ground
<1> SUFFICES ASSUME ShopInit PROVE Ground
  OBVIOUS
<1>1. Nothing.stock = [i \in Item |-> 0] /\ stock = Nothing.stock /\ saved = Nothing
  BY DEF ShopInit, Nothing
<1>2. NonNegative
  BY <1>1 DEF NonNegative, StockNonNegative, SavedNonNegative
<1> QED
  BY <1>2, ChargedInit, CatalogueInit DEF Ground

-----------------------------------------------------------------------------
(* What handlers have read, after a step in one cart.                      *)

(* A step that leaves the catalogue, its administrator and the server. *)
Frozen == UNCHANGED <<items, toInsert, batches, admin, server>>

(* It changes neither what is settled nor what is unopened.                *)
LEMMA FrozenItems ==
  ASSUME Frozen
  PROVE  \A i : (Settled(i)' <=> Settled(i)) /\ (Unopened(i)' <=> Unopened(i))
BY DEF Frozen, Settled, Unopened, Ids, Listed

(* What there is in the ground, one name at a time.                        *)
LEMMA GroundParts ==
  ASSUME Ground
  PROVE  /\ Inv /\ Separated /\ TypeOK
         /\ rows \in [Request -> CartRow \cup {None}]
         /\ orders \in [Request -> SUBSET CartRow]
         /\ req \in [Request -> Locals]
         /\ exp \in SUBSET ExpiryHandler
         /\ stock \in [Item -> Int]
         /\ \A c \in Request : rows[c] # None => rows[c].id = c /\ req[c].user = rows[c].user
                                                 /\ Started(c)
BY DEF Ground, ChargedInv, ShopInv, Inv, TypeOK, RedisTypeOK, Separated, RowsOwned, OwnedRow, Owns,
   Started

(* The recollections of the handlers of other users stay good. *)
LEMMA OtherRecalls ==
  ASSUME Ground, Ground', Recalls, Frozen, NEW w, OnlyRowsOf(w), Kept,
         NEW s \in Request, req'[s] = req[s], orders'[s] = orders[s],
         InFlight(s) => req[s].user # w
  PROVE  Recall(s)'
<1>1. Recall(s)
  BY DEF Recalls
<1>2. CASE ~InFlight(s)
  BY <1>1, <1>2 DEF Recall, InFlight, Started
<1>3. CASE InFlight(s)
  <2> SUFFICES ASSUME NEW v, v = req[s].user
               PROVE  Recall(s)'
    OBVIOUS
  <2>0. Inv /\ Separated /\ Separated'
    BY GroundParts DEF Ground, ChargedInv, ShopInv
  <2>1. v # w /\ req'[s].user = v
    BY <1>3
  <2>2. FindByUser(v)' = FindByUser(v)
    BY <2>0, <2>1, OtherRowsFound
  <2>3. \A c \in Request : req[c].user = v => rows'[c] = rows[c]
    BY <2>1 DEF OnlyRowsOf
  <2>4. \A row : Match(row) /\ rows'[row.id] = rows[row.id] => Match(row)'
    BY FrozenItems DEF Match
  <2>5. \A row \in req[s].todo : row.id \in Request /\ req[row.id].user = v
    <3>1. req[s].todo \in SUBSET CartRow
      BY <2>0 DEF Inv, TypeOK, Locals
    <3> QED
      BY <2>0, <3>1 DEF Separated, AllLocalsOwned, LocalsOwned, OwnedRow, Owns, CartRow
  <2>6. req[s].pc \in {"reserve", "save", "shrink"}
          => req[s].id \in Request /\ req[req[s].id].user = v
    BY <2>0 DEF Inv, LocalsOK, Separated, AllLocalsOwned, LocalsOwned, Owns
  <2>7. req[s].pc \in {"drop", "delete"}
          => /\ req[s].id \in Request /\ Started(req[s].id)
             /\ req'[req[s].id].pc # "new" /\ req'[req[s].id].user = v
    BY <1>1 DEF Recall, Started, Kept, KeptBy
  <2>8. /\ \A row \in req[s].todo : Match(row) => Match(row)'
        /\ req[s].pc \in {"reserve", "save"} =>
             /\ rows'[req[s].id] = rows[req[s].id]
             /\ Match(BaseRow(req[s])) => Match(BaseRow(req[s]))'
    <3>1. BaseRow(req[s]).id = req[s].id
      BY DEF BaseRow
    <3> QED
      BY <2>3, <2>4, <2>5, <2>6, <3>1 DEF BaseRow, Match
  <2>9. \A row : ~Settled(row.item) => ~Settled(row.item)'
    BY FrozenItems
  <2>10. BaseRow(req'[s]) = BaseRow(req[s])
    BY DEF BaseRow
  <2>11. /\ req'[s].pc \in {"reserve", "save"}
              => IF req'[s].base = 0 THEN rows'[req'[s].id] = None ELSE Match(BaseRow(req[s]))'
         /\ req'[s].pc \in {"release", "drop", "delete", "order", "shrink"}
              => /\ \A row \in req'[s].todo : Match(row)'
                 /\ \A x, y \in req'[s].todo : x.id = y.id => x = y
    BY <1>1, <2>8 DEF Recall
  <2>12. BaseRow(req[s])' = BaseRow(req[s])
    BY DEF BaseRow
  <2> QED
    BY <1>1, <2>1, <2>2, <2>7, <2>9, <2>10, <2>11, <2>12 DEF Recall, Started
<1> QED
  BY <1>2, <1>3

(* What a step of handler r for user w has to show for the books.          *)
LEMMA HandlerBooks ==
  ASSUME Books, Ground', Frozen, server = "up", Kept, NEW r \in Request, NEW w, StepFor(r, w),
         \A s \in Request : s # r => orders'[s] = orders[s],
         \A c \in Request : key'[c] # None => key[c] # None \/ req'[c].pc # "new",
         Recall(r)'
  PROVE  Books'
<1>1. /\ Others(r) /\ req'[r].user = w /\ RunsFor(r, w) /\ OnlyRowsOf(w) /\ exp' = exp
  BY DEF StepFor
<1>2. Ground /\ Alone /\ Recalls /\ KeysStarted /\ ExpiryRecalls /\ Listing
  BY DEF Books
<1>3. Inv /\ \A h \in exp : Started(h.id) /\ h.id \in Request
  BY <1>2, GroundParts DEF ExpiryRecalls, ExpiryHandler
<1>4. Alone' /\ \A h \in exp : req[h.id].user # w /\ req'[h.id].user = req[h.id].user
  BY <1>1, <1>2, <1>3, AloneNext
<1>5. Recalls'
  <2> SUFFICES ASSUME NEW s \in Request PROVE Recall(s)'
    BY DEF Recalls
  <2>1. CASE s = r
    BY <2>1
  <2>2. CASE s # r
    <3>1. InFlight(s) => req[s].user # w
      BY <1>1, <1>2, <2>2 DEF RunsFor, Idle, Alone
    <3> QED
      BY <1>1, <1>2, <2>2, <3>1, OtherRecalls DEF Others
  <2> QED
    BY <2>1, <2>2
<1>6. KeysStarted'
  BY <1>2 DEF KeysStarted, Started, Kept, KeptBy
<1>7. ExpiryRecalls'
  <2> SUFFICES ASSUME NEW h \in exp
               PROVE  req'[h.id].pc # "new" /\ (h.pc = "release" => Match(h.row)')
    BY <1>1 DEF ExpiryRecalls, Started
  <2>1. h.id \in Request /\ req[h.id].user # w /\ Started(h.id) /\ rows'[h.id] = rows[h.id]
    BY <1>1, <1>3, <1>4 DEF OnlyRowsOf
  <2>2. h.pc = "release" => h.row.id = h.id
    BY <1>2, GroundParts, RowAssumption DEF Separated, HandlersOwned, Inv, HandlersOK
  <2>3. h.pc = "release" => Match(h.row)'
    BY <1>2, <2>1, <2>2, FrozenItems DEF ExpiryRecalls, Match
  <2> QED
    BY <2>1, <2>3 DEF Started, Kept, KeptBy
<1>8. Booted'
  BY DEF Booted, Frozen
<1>9. Listing'
  <2>1. admin' = admin /\ items' = items
    BY DEF Frozen
  <2>2. Ids' = Ids /\ Listed(admin.left)' = Listed(admin.left)
    BY <2>1 DEF Ids, Listed
  <2> QED
    BY <1>2, <2>1, <2>2 DEF Listing
<1> QED
  BY <1>4, <1>5, <1>6, <1>7, <1>8, <1>9 DEF Books

(* A handler that has nothing to recall.                                   *)
LEMMA EasyRecall ==
  ASSUME NEW r \in Request, CarriesNothing(req'[r].pc), req'[r].user \in User
  PROVE  Recall(r)'
BY DEF Recall, CarriesNothing

-----------------------------------------------------------------------------
(* Whose the claims are.                                                   *)

(* A row on its way out is its handler's user's, and so is what a handler  *)
(* carries, and what the handler of an expired key does.                   *)
Whose ==
  /\ \A r \in Request : \A c : Taken(r, c) =>
       InFlight(r) /\ c \in Request /\ Started(c) /\ req[c].user = req[r].user
  /\ \A r \in Request : \A x \in Carried(r) :
       /\ InFlight(r) /\ x \in CartRow /\ x.id \in Request
       /\ Started(x.id) /\ x.user = req[r].user /\ req[x.id].user = x.user
  /\ \A h \in exp : h.pc = "release" =>
       /\ h.id \in Request /\ h.row \in CartRow /\ h.row.id = h.id
       /\ Started(h.id) /\ req[h.id].user = h.row.user
  /\ \A c \in Request : rows[c] # None =>
       rows[c] \in CartRow /\ rows[c].id = c /\ Started(c) /\ req[c].user = rows[c].user

(* A row that a handler has read, or will write, is a row of its user.     *)
LEMMA BaseRowType ==
  ASSUME Ground, NEW r \in Request, req[r].pc \in {"reserve", "save", "shrink"}
  PROVE  /\ req[r].id \in Request /\ Started(req[r].id) /\ req[req[r].id].user = req[r].user
         /\ req[r].base # 0 => BaseRow(req[r]) \in CartRow
         /\ req[r].pc = "shrink" => ShrunkRow(req[r]) \in CartRow
         /\ BaseRow(req[r]).id = req[r].id /\ BaseRow(req[r]).user = req[r].user
         /\ ShrunkRow(req[r]).id = req[r].id /\ ShrunkRow(req[r]).user = req[r].user
         /\ ShrunkRow(req[r]).item = req[r].item /\ BaseRow(req[r]).item = req[r].item
         /\ ShrunkRow(req[r]).qty = req[r].base - req[r].arg /\ BaseRow(req[r]).qty = req[r].base
<1>1. /\ Inv /\ Separated /\ req[r] \in Locals
  BY GroundParts
<1>2. /\ req[r].id \in Request /\ req[r].user \in User /\ req[r].item \in Item
      /\ req[r].base \in Nat /\ req[r].arg \in Nat
      /\ req[r].pc = "shrink" => req[r].arg < req[r].base
  BY <1>1 DEF Inv, LocalsOK, Locals
<1>3. Started(req[r].id) /\ req[req[r].id].user = req[r].user
  BY <1>1 DEF Separated, AllLocalsOwned, LocalsOwned, Owns, Started
<1> QED
  BY <1>2, <1>3 DEF BaseRow, ShrunkRow, CartRow

(* The rows still to process are the user's.                               *)
LEMMA TodoRows ==
  ASSUME Ground, NEW r \in Request, NEW x \in req[r].todo
  PROVE  /\ x \in CartRow /\ x.id \in Request /\ Started(x.id)
         /\ x.user = req[r].user /\ req[x.id].user = x.user
<1>1. Separated /\ req[r] \in Locals
  BY GroundParts
<1>2. x \in CartRow
  BY <1>1 DEF Locals
<1> QED
  BY <1>1, <1>2 DEF CartRow, Separated, AllLocalsOwned, LocalsOwned, OwnedRow, Owns, Started

(* So it is under the invariant.                                           *)
LEMMA WhoseNow == Books => Whose
<1> SUFFICES ASSUME Books PROVE Whose
  OBVIOUS
<1>1. Ground /\ Recalls /\ Inv /\ Separated /\ ExpiryRecalls
  BY GroundParts DEF Books
<1>2. ASSUME NEW r \in Request, NEW c, Taken(r, c)
      PROVE  InFlight(r) /\ c \in Request /\ Started(c) /\ req[c].user = req[r].user
  <2>1. CASE req[r].pc \in {"drop", "delete"} /\ req[r].id = c
    BY <1>1, <2>1 DEF Recalls, Recall, InFlight
  <2>2. CASE req[r].pc = "shrink" /\ req[r].id = c
    BY <1>1, <2>2, BaseRowType DEF InFlight
  <2>3. CASE req[r].pc \in {"clear", "empty"} /\ \E row \in orders[r] : row.id = c
    <3>1. PICK row \in orders[r] : row.id = c
      BY <2>3
    <3>2. row \in CartRow
      BY <1>1, GroundParts
    <3> QED
      BY <1>1, <2>3, <3>1, <3>2
      DEF CartRow, Separated, OrdersOwned, OwnedRow, Owns, InFlight, Started
  <2> QED
    BY <1>2, <2>1, <2>2, <2>3 DEF Taken
<1>3. ASSUME NEW r \in Request, NEW x \in Carried(r)
      PROVE  /\ InFlight(r) /\ x \in CartRow /\ x.id \in Request
             /\ Started(x.id) /\ x.user = req[r].user /\ req[x.id].user = x.user
  <2>1. \/ req[r].pc \in {"release", "drop", "delete", "order", "shrink"} /\ x \in req[r].todo
        \/ req[r].pc \in {"reserve", "save"} /\ req[r].base # 0 /\ x = BaseRow(req[r])
        \/ req[r].pc = "shrink" /\ x = ShrunkRow(req[r])
    BY <1>3 DEF Carried
  <2>2. InFlight(r)
    BY <2>1 DEF InFlight
  <2> QED
    BY <1>1, <2>1, <2>2, TodoRows, BaseRowType
<1>4. ASSUME NEW h \in exp, h.pc = "release"
      PROVE  /\ h.id \in Request /\ h.row \in CartRow /\ h.row.id = h.id
             /\ Started(h.id) /\ req[h.id].user = h.row.user
  <2>1. h.row \in CartRow /\ h.row # None /\ h.id \in Request
    BY <1>1, <1>4, GroundParts, RowAssumption DEF Inv, HandlersOK, ExpiryHandler
  <2> QED
    BY <1>1, <2>1 DEF Separated, HandlersOwned, OwnedRow, Owns, ExpiryRecalls
<1>5. ASSUME NEW c \in Request, rows[c] # None
      PROVE  /\ rows[c] \in CartRow /\ rows[c].id = c /\ Started(c)
             /\ req[c].user = rows[c].user
  BY <1>1, <1>5, GroundParts
<1> QED
  BY <1>2, <1>3, <1>4, <1>5 DEF Whose

(* The same after a step.                                                  *)
LEMMA WhoseNext == Books' => Whose'
BY WhoseNow, PTL

(* The claims can be billed together: an id is in one of them only.        *)
LEMMA ClaimsBillableNow == Books => Billable(Claims)
<1> SUFFICES ASSUME Books PROVE Billable(Claims)
  OBVIOUS
<1>1. Whose /\ Alone /\ Recalls /\ ExpiryRecalls
  BY WhoseNow DEF Books
<1>2. ASSUME NEW x \in Claims
      PROVE  \/ \E c \in Request : Standing(c) /\ x = rows[c]
             \/ \E r \in Request : x \in Carried(r)
             \/ \E h \in exp : h.pc = "release" /\ x = h.row
  <2>1. CASE x \in {rows[c] : c \in {d \in Request : Standing(d)}}
    BY <2>1
  <2>2. CASE x \in UNION {Carried(r) : r \in Request}
    <3>1. PICK Y \in {Carried(r) : r \in Request} : x \in Y
      BY <2>2
    <3>2. PICK r \in Request : Y = Carried(r)
      BY <3>1
    <3> QED
      BY <3>1, <3>2
  <2>3. CASE x \in {h.row : h \in {g \in exp : g.pc = "release"}}
    BY <2>3
  <2> QED
    BY <1>2, <2>1, <2>2, <2>3 DEF Claims
<1>3. \A x \in Claims : x \in CartRow /\ x.id \in Request
  BY <1>1, <1>2 DEF Whose, Standing
<1>4. ASSUME NEW c \in Request, Standing(c), NEW y \in Claims, y.id = c
      PROVE  y = rows[c]
  <2>1. rows[c] # None
    BY <1>4 DEF Standing
  <2>2. CASE \E d \in Request : Standing(d) /\ y = rows[d]
    BY <1>1, <1>4, <2>2 DEF Whose, Standing
  <2>3. CASE \E r \in Request : y \in Carried(r)
    <3>1. PICK r \in Request : y \in Carried(r)
      BY <2>3
    <3>2. ~(req[r].pc = "shrink" /\ req[r].id = c)
      BY <1>4 DEF Standing, Taken
    <3>3. \/ /\ req[r].pc \in {"release", "drop", "delete", "order", "shrink"}
             /\ y \in req[r].todo
          \/ req[r].pc \in {"reserve", "save"} /\ req[r].base # 0 /\ y = BaseRow(req[r])
          \/ req[r].pc = "shrink" /\ y = ShrunkRow(req[r])
      BY <3>1 DEF Carried
    <3>4. ~(req[r].pc = "shrink" /\ y = ShrunkRow(req[r]))
      BY <1>4, <3>2 DEF ShrunkRow
    <3>5. Match(y)
      BY <1>1, <3>3, <3>4 DEF Recalls, Recall
    <3> QED
      BY <1>4, <2>1, <3>5 DEF Match
  <2>4. CASE \E h \in exp : h.pc = "release" /\ y = h.row
    BY <1>1, <1>4, <2>1, <2>4 DEF ExpiryRecalls, Match
  <2> QED
    BY <1>2, <2>2, <2>3, <2>4
<1>5. ASSUME NEW r \in Request, NEW x \in Carried(r), NEW y \in Carried(r), x.id = y.id
      PROVE  x = y
  <2>1. CASE req[r].pc \in {"release", "drop", "delete", "order"}
    BY <1>1, <1>5, <2>1 DEF Carried, Recalls, Recall
  <2>2. CASE req[r].pc \in {"reserve", "save"}
    BY <1>5, <2>2 DEF Carried
  <2>3. CASE req[r].pc = "shrink"
    <3>1. \A z \in Carried(r) : z = ShrunkRow(req[r]) \/ (z \in req[r].todo /\ z.id # req[r].id)
      BY <2>3 DEF Carried
    <3>2. ShrunkRow(req[r]).id = req[r].id
      BY DEF ShrunkRow
    <3>3. \A a, b \in req[r].todo : a.id = b.id => a = b
      BY <1>1, <2>3 DEF Recalls, Recall
    <3> QED
      BY <1>5, <3>1, <3>2, <3>3
  <2> QED
    BY <1>5, <2>1, <2>2, <2>3 DEF Carried
<1>6. ASSUME NEW x \in Claims, NEW y \in Claims, x.id = y.id
      PROVE  x = y
  <2>1. CASE \E c \in Request : Standing(c) /\ (x = rows[c] \/ y = rows[c])
    BY <1>1, <1>4, <1>6, <2>1 DEF Whose, Standing
  <2>2. CASE \E r \in Request : x \in Carried(r) /\ \E s \in Request : y \in Carried(s)
    BY <1>1, <1>5, <1>6, <2>2 DEF Whose, Alone
  <2>3. CASE \E h \in exp : h.pc = "release" /\ x = h.row /\ \E s \in Request : y \in Carried(s)
    BY <1>1, <1>6, <2>3 DEF Whose, Alone
  <2>4. CASE \E h \in exp : h.pc = "release" /\ y = h.row /\ \E s \in Request : x \in Carried(s)
    BY <1>1, <1>6, <2>4 DEF Whose, Alone
  <2>5. CASE \E h, g \in exp : h.pc = "release" /\ g.pc = "release" /\ x = h.row /\ y = g.row
    BY <1>1, <1>6, <2>5 DEF Whose, Alone
  <2> QED
    BY <1>2, <2>1, <2>2, <2>3, <2>4, <2>5
<1>7. IsFiniteSet(Claims)
  <2>1. CASE Claims = {}
    BY <2>1, FS_EmptySet
  <2>2. CASE Claims # {}
    <3>1. PICK z : z \in Claims
      BY <2>2
    <3> DEFINE f == [c \in Request |-> IF \E x \in Claims : x.id = c
                                       THEN CHOOSE x \in Claims : x.id = c ELSE z]
    <3>2. \A c \in Request : f[c] \in Claims
      BY <3>1
    <3>3. f \in [Request -> Claims]
      BY <3>2
    <3>4. ASSUME NEW y \in Claims PROVE \E c \in Request : f[c] = y
      <4>1. y.id \in Request
        BY <1>3
      <4>2. f[y.id] \in Claims /\ f[y.id].id = y.id
        BY <4>1
      <4> HIDE DEF f
      <4> QED
        BY <1>6, <4>1, <4>2
    <3> HIDE DEF f
    <3> QED
      BY <3>3, <3>4, FiniteRange, EnvironmentAssumption
  <2> QED
    BY <2>1, <2>2
<1> QED
  BY <1>3, <1>6, <1>7 DEF Billable

(* The same after a step.                                                  *)
LEMMA ClaimsBillableNext == Books' => Billable(Claims)'
BY ClaimsBillableNow, PTL

(* The claims on rows of user w, told from the handler r that runs for w.  *)
Claim(r, w) == {row \in FindByUser(w) : ~Taken(r, row.id)} \cup Carried(r)

(* The claims on rows of other users.                                      *)
Foreign(w) == {x \in Claims : x.user # w}

(* A user's claims are told from the one handler that runs for him.        *)
ClaimsTold ==
  \A r \in Request : \A w : Serves(r, w) =>
    Claims = Foreign(w) \cup Claim(r, w) /\ \A x \in Claim(r, w) : x.user = w

(* A row's standing, and the rows found in a cart.                         *)
LEMMA FoundIs ==
  ASSUME NEW w, NEW x
  PROVE  x \in FindByUser(w) <=> \E c \in Request : rows[c] # None /\ rows[c].user = w /\ x = rows[c]
BY DEF FindByUser

(* What a claim is.                                                        *)
LEMMA ClaimIs ==
  ASSUME NEW x
  PROVE  x \in Claims <=> \/ \E c \in Request : Standing(c) /\ x = rows[c]
                          \/ \E r \in Request : x \in Carried(r)
                          \/ \E h \in exp : h.pc = "release" /\ x = h.row
<1>1. x \in {rows[c] : c \in {d \in Request : Standing(d)}}
        <=> \E c \in Request : Standing(c) /\ x = rows[c]
  OBVIOUS
<1>2. x \in UNION {Carried(r) : r \in Request} <=> \E r \in Request : x \in Carried(r)
  OBVIOUS
<1>3. x \in {h.row : h \in {g \in exp : g.pc = "release"}}
        <=> \E h \in exp : h.pc = "release" /\ x = h.row
  OBVIOUS
<1> QED
  BY <1>1, <1>2, <1>3 DEF Claims

(* The same after a step.                                                  *)
LEMMA ClaimIsNext ==
  ASSUME NEW x
  PROVE  x \in Claims' <=> \/ \E c \in Request : Standing(c)' /\ x = rows'[c]
                           \/ \E r \in Request : x \in Carried(r)'
                           \/ \E h \in exp' : h.pc = "release" /\ x = h.row
<1>1. x \in {rows'[c] : c \in {d \in Request : Standing(d)'}}
        <=> \E c \in Request : Standing(c)' /\ x = rows'[c]
  OBVIOUS
<1>2. x \in UNION {Carried(r)' : r \in Request} <=> \E r \in Request : x \in Carried(r)'
  OBVIOUS
<1>3. x \in {h.row : h \in {g \in exp' : g.pc = "release"}}
        <=> \E h \in exp' : h.pc = "release" /\ x = h.row
  OBVIOUS
<1> QED
  BY <1>1, <1>2, <1>3 DEF Claims

(* Under the invariant it is so.                                           *)
LEMMA ClaimsToldNow == Books => ClaimsTold
<1> SUFFICES ASSUME Books, NEW r \in Request, NEW w, Serves(r, w)
             PROVE  Claims = Foreign(w) \cup Claim(r, w) /\ \A x \in Claim(r, w) : x.user = w
  BY DEF ClaimsTold
<1>1. Whose /\ Alone
  BY WhoseNow DEF Books
<1>2. /\ \A s \in Request : s # r /\ InFlight(s) => req[s].user # w
      /\ \A h \in exp : req[h.id].user # w
  BY <1>1 DEF Serves, Idle, Alone
<1>3. InFlight(r) => req[r].user = w
  BY DEF Serves
<1>4. ASSUME NEW x \in Claim(r, w) PROVE x.user = w /\ x \in Claims
  <2>1. CASE x \in Carried(r)
    BY <1>1, <1>3, <2>1, ClaimIs DEF Whose
  <2>2. CASE x \in FindByUser(w) /\ ~Taken(r, x.id)
    <3>1. PICK c \in Request : rows[c] # None /\ rows[c].user = w /\ x = rows[c]
      BY <2>2, FoundIs
    <3>2. x.id = c /\ req[c].user = w
      BY <1>1, <3>1 DEF Whose
    <3>3. Standing(c)
      BY <1>1, <1>2, <2>2, <3>1, <3>2 DEF Standing, Whose
    <3> QED
      BY <3>1, <3>3, ClaimIs
  <2> QED
    BY <1>4, <2>1, <2>2 DEF Claim
<1>5. ASSUME NEW x \in Claims, x.user = w PROVE x \in Claim(r, w)
  <2>1. CASE \E c \in Request : Standing(c) /\ x = rows[c]
    <3>1. PICK c \in Request : Standing(c) /\ x = rows[c]
      BY <2>1
    <3>2. rows[c] # None /\ ~Taken(r, c) /\ x.id = c
      BY <1>1, <3>1 DEF Standing, Whose
    <3>3. x \in FindByUser(w)
      BY <1>5, <3>1, <3>2, FoundIs
    <3> QED
      BY <3>2, <3>3 DEF Claim
  <2>2. CASE \E s \in Request : x \in Carried(s)
    <3>1. PICK s \in Request : x \in Carried(s)
      BY <2>2
    <3>2. s = r
      BY <1>1, <1>2, <1>5, <3>1 DEF Whose
    <3> QED
      BY <3>1, <3>2 DEF Claim
  <2>3. CASE \E h \in exp : h.pc = "release" /\ x = h.row
    BY <1>1, <1>2, <1>5, <2>3 DEF Whose
  <2> QED
    BY <2>1, <2>2, <2>3, ClaimIs
<1> QED
  BY <1>4, <1>5 DEF Foreign

(* The same after a step.                                                  *)
LEMMA ClaimsToldNext == Books' => ClaimsTold'
BY ClaimsToldNow, PTL

(* A step of r for w leaves the claims on other users' rows.               *)
LEMMA ForeignStay ==
  ASSUME Books, Books', Kept, NEW r \in Request, NEW w, StepFor(r, w),
         \A s \in Request : s # r => orders'[s] = orders[s]
  PROVE  Foreign(w)' = Foreign(w)
<1>1. Whose /\ Whose'
  BY WhoseNow, WhoseNext
<1>2. /\ Others(r) /\ req'[r].user = w /\ RunsFor(r, w) /\ OnlyRowsOf(w) /\ exp' = exp
  BY DEF StepFor
<1>3. InFlight(r) => req[r].user = w
  BY <1>2 DEF RunsFor, InFlight
<1>4. \A s \in Request : s # r => Carried(s)' = Carried(s) /\ \A c : Taken(s, c)' <=> Taken(s, c)
  <2>1. \A s \in Request : s # r => req'[s] = req[s] /\ orders'[s] = orders[s]
    BY <1>2 DEF Others
  <2> QED
    BY <2>1 DEF Carried, Taken, BaseRow
<1>5. \A c \in Request : Started(c) => Started(c)' /\ req'[c].user = req[c].user
  BY DEF Kept, KeptBy, Started
<1>6. ASSUME NEW c \in Request, rows[c] # None, rows[c].user # w
      PROVE  rows'[c] = rows[c] /\ (Standing(c)' <=> Standing(c))
  <2>1. Started(c) /\ req[c].user # w
    BY <1>1, <1>6 DEF Whose
  <2>2. rows'[c] = rows[c]
    BY <1>2, <2>1 DEF OnlyRowsOf
  <2>3. ~Taken(r, c) /\ ~Taken(r, c)'
    BY <1>1, <1>2, <1>3, <1>5, <2>1 DEF Whose
  <2> QED
    BY <1>2, <1>4, <2>2, <2>3 DEF Standing
<1>7. ASSUME NEW c \in Request, rows'[c] # None, rows'[c].user # w
      PROVE  rows'[c] = rows[c]
  <2>1. req'[c].user # w
    BY <1>1, <1>7 DEF Whose
  <2> QED
    BY <1>2, <1>5, <2>1 DEF OnlyRowsOf
<1>8. ASSUME NEW x, x.user # w PROVE x \in Claims <=> x \in Claims'
  <2>1. x \notin Carried(r) /\ x \notin Carried(r)'
    BY <1>1, <1>2, <1>3, <1>8 DEF Whose
  <2>2. (\E s \in Request : x \in Carried(s)) <=> (\E s \in Request : x \in Carried(s)')
    BY <1>4, <2>1
  <2>3. (\E c \in Request : Standing(c) /\ x = rows[c])
           <=> (\E c \in Request : Standing(c)' /\ x = rows'[c])
    BY <1>6, <1>7, <1>8 DEF Standing
  <2> QED
    BY <1>2, <2>2, <2>3, ClaimIs, ClaimIsNext
<1> QED
  BY <1>8 DEF Foreign

(* So the claims before and after are those of w, and others.              *)
LEMMA ClaimsMove ==
  ASSUME Books, Books', Kept, NEW r \in Request, NEW w, StepFor(r, w),
         \A s \in Request : s # r => orders'[s] = orders[s]
  PROVE  /\ Claims = Foreign(w) \cup Claim(r, w) /\ Claims' = Foreign(w) \cup Claim(r, w)'
         /\ \A x \in Claim(r, w) : x.user = w
         /\ \A x \in Claim(r, w)' : x.user = w
         /\ \A x \in Foreign(w) : x.user # w
<1>1. Foreign(w)' = Foreign(w)
  BY ForeignStay
<1>2. Serves(r, w) /\ Serves(r, w)'
  <2>1. Serves(r, w)
    BY DEF StepFor, RunsFor, Serves, InFlight
  <2>2. Alone /\ Alone' /\ \A h \in exp : Started(h.id) /\ h.id \in Request
    BY GroundParts DEF Books, ExpiryRecalls, ExpiryHandler
  <2>3. \A h \in exp : req[h.id].user # w /\ req'[h.id].user = req[h.id].user
    BY <2>2, GroundParts, AloneNext DEF Books, StepFor
  <2>4. Serves(r, w)'
    <3>1. CASE InFlight(r)'
      BY <3>1 DEF StepFor, Serves
    <3>2. CASE ~InFlight(r)'
      <4>1. \A s \in Request : s # r /\ InFlight(s) => req[s].user # w
        BY <2>1, <2>2 DEF Serves, Idle, Alone
      <4>2. \A s \in Request : InFlight(s)' => req'[s].user # w
        BY <3>2, <4>1 DEF InFlight, StepFor, Others
      <4>3. \A h \in exp' : req'[h.id].user # w
        BY <2>3 DEF StepFor
      <4> QED
        BY <3>2, <4>2, <4>3 DEF Serves, Idle
    <3> QED
      BY <3>1, <3>2
  <2> QED
    BY <2>1, <2>4
<1>3. ClaimsTold /\ ClaimsTold'
  BY ClaimsToldNow, ClaimsToldNext
<1> QED
  BY <1>1, <1>2, <1>3 DEF ClaimsTold, Foreign

(* The units of item i in the rows of R.                                   *)
UnitsIn(R, i) == QtyOf(RowsOf(R, i))

(* None.                                                                   *)
LEMMA NoUnits == \A i : UnitsIn({}, i) = 0
<1> SUFFICES ASSUME NEW i PROVE UnitsIn({}, i) = 0
  OBVIOUS
<1>1. UnitsOf(RowsOf({}, i)) = {}
  BY DEF UnitsOf, RowsOf
<1> QED
  BY <1>1, FS_EmptySet, Zenon DEF UnitsIn, QtyOf

(* Fewer rows have no more units.                                          *)
LEMMA FewerRows ==
  ASSUME NEW R, Billable(R), NEW S \in SUBSET R
  PROVE  /\ Billable(S)
         /\ \A i : /\ UnitsIn(R, i) \in Nat /\ UnitsIn(S, i) \in Nat
                   /\ UnitsIn(S, i) <= UnitsIn(R, i)
                   /\ (\A x \in R \ S : x.item # i) => UnitsIn(S, i) = UnitsIn(R, i)
<1>1. Billable(S)
  BY FS_Subset DEF Billable
<1> SUFFICES ASSUME NEW i
             PROVE  /\ UnitsIn(R, i) \in Nat /\ UnitsIn(S, i) \in Nat
                    /\ UnitsIn(S, i) <= UnitsIn(R, i)
                    /\ (\A x \in R \ S : x.item # i) => UnitsIn(S, i) = UnitsIn(R, i)
  BY <1>1
<1>2. UnitsIn(R, i) \in Nat /\ UnitsIn(S, i) \in Nat
  BY <1>1, RowsOfType DEF UnitsIn
<1>3. UnitsOf(RowsOf(S, i)) \subseteq UnitsOf(RowsOf(R, i))
  BY DEF UnitsOf, RowsOf
<1>4. IsFiniteSet(UnitsOf(RowsOf(R, i)))
  <2>1. Billable(RowsOf(R, i))
    BY RowsOfType
  <2> QED
    BY <2>1, UnitsFinite DEF Billable
<1>5. UnitsIn(S, i) <= UnitsIn(R, i)
  <2> DEFINE A == UnitsOf(RowsOf(R, i))
             B == UnitsOf(RowsOf(S, i))
  <2>1. B \in SUBSET A /\ IsFiniteSet(A)
    BY <1>3, <1>4
  <2> HIDE DEF A, B
  <2>2. Cardinality(B) <= Cardinality(A)
    BY <2>1, FS_Subset
  <2> QED
    BY <2>2 DEF UnitsIn, QtyOf, A, B
<1>6. (\A x \in R \ S : x.item # i) => RowsOf(S, i) = RowsOf(R, i)
  BY DEF RowsOf
<1> QED
  BY <1>2, <1>5, <1>6 DEF UnitsIn

(* The units of two sets of rows together.                                 *)
LEMMA UnitsAdd ==
  ASSUME NEW R, NEW S, Billable(R \cup S), R \cap S = {}
  PROVE  \A i : /\ UnitsIn(R, i) \in Nat /\ UnitsIn(S, i) \in Nat
                /\ UnitsIn(R \cup S, i) = UnitsIn(R, i) + UnitsIn(S, i)
<1> SUFFICES ASSUME NEW i
             PROVE  /\ UnitsIn(R, i) \in Nat /\ UnitsIn(S, i) \in Nat
                    /\ UnitsIn(R \cup S, i) = UnitsIn(R, i) + UnitsIn(S, i)
  OBVIOUS
<1>1. R \in SUBSET (R \cup S) /\ S \in SUBSET (R \cup S)
  OBVIOUS
<1>2. /\ Billable(R) /\ Billable(S)
      /\ UnitsIn(R, i) \in Nat /\ UnitsIn(S, i) \in Nat
  BY <1>1, FewerRows
<1>3. IsFiniteSet(UnitsOf(RowsOf(R, i))) /\ IsFiniteSet(UnitsOf(RowsOf(S, i)))
  <2>1. Billable(RowsOf(R, i)) /\ Billable(RowsOf(S, i))
    BY <1>2, RowsOfType
  <2> QED
    BY <2>1, UnitsFinite DEF Billable
<1>4. UnitsOf(RowsOf(R \cup S, i)) = UnitsOf(RowsOf(R, i)) \cup UnitsOf(RowsOf(S, i))
  BY DEF UnitsOf, RowsOf
<1>5. UnitsOf(RowsOf(R, i)) \cap UnitsOf(RowsOf(S, i)) = {}
  <2> SUFFICES ASSUME NEW t, t \in UnitsOf(RowsOf(R, i)), t \in UnitsOf(RowsOf(S, i))
               PROVE  FALSE
    OBVIOUS
  <2>1. PICK x \in R : t[1] = x.id
    BY DEF UnitsOf, RowsOf
  <2>2. PICK y \in S : t[1] = y.id
    BY DEF UnitsOf, RowsOf
  <2> QED
    BY <2>1, <2>2 DEF Billable
<1>6. UnitsIn(R \cup S, i) = UnitsIn(R, i) + UnitsIn(S, i)
  <2> DEFINE A == UnitsOf(RowsOf(R, i))
             B == UnitsOf(RowsOf(S, i))
             C == UnitsOf(RowsOf(R \cup S, i))
  <2>1. IsFiniteSet(A) /\ IsFiniteSet(B) /\ C = A \cup B /\ A \cap B = {}
    BY <1>3, <1>4, <1>5
  <2> HIDE DEF A, B, C
  <2>2. Cardinality(A \cap B) = 0
    BY <2>1, FS_EmptySet, Zenon
  <2>3. Cardinality(C) = Cardinality(A) + Cardinality(B) - Cardinality(A \cap B)
    BY <2>1, FS_Union
  <2>4. Cardinality(A) \in Nat /\ Cardinality(B) \in Nat
    BY <2>1, FS_CardinalityType
  <2>5. Cardinality(C) = Cardinality(A) + Cardinality(B)
    BY <2>2, <2>3, <2>4
  <2> QED
    BY <2>5 DEF UnitsIn, QtyOf, A, B, C
<1> QED
  BY <1>2, <1>6

(* One row alone.                                                          *)
LEMMA UnitsOfOne ==
  ASSUME NEW x \in CartRow
  PROVE  Billable({x}) /\ \A i : UnitsIn({x}, i) = IF x.item = i THEN x.qty ELSE 0
<1>1. Billable({x})
  BY FS_Singleton DEF Billable
<1>2. {x} \ {x} = {}
  OBVIOUS
<1>3. /\ UnitsIn({x}, x.item) = UnitsIn({}, x.item) + x.qty
      /\ \A j : j # x.item => UnitsIn({x}, j) = UnitsIn({}, j)
  BY <1>1, <1>2, OneMoreRow DEF UnitsIn
<1>4. x.qty \in Nat
  BY DEF CartRow
<1> QED
  BY <1>1, <1>3, <1>4, NoUnits

(* A row of many goes, or becomes another of the same id and item.         *)
LEMMA RowSwapped ==
  ASSUME NEW R, Billable(R), NEW old \in R, NEW new \in CartRow,
         new.id = old.id, new.item = old.item
  PROVE  \A i : /\ UnitsIn(R, i) \in Nat /\ UnitsIn(R \ {old}, i) \in Nat
                /\ UnitsIn(R, i) = UnitsIn(R \ {old}, i) + (IF old.item = i THEN old.qty ELSE 0)
                /\ UnitsIn((R \ {old}) \cup {new}, i)
                     = UnitsIn(R \ {old}, i) + (IF old.item = i THEN new.qty ELSE 0)
<1>1. /\ R = (R \ {old}) \cup {old} /\ (R \ {old}) \cap {old} = {}
      /\ (R \ {old}) \cap {new} = {} /\ old \in CartRow
  BY DEF Billable
<1>2. Billable((R \ {old}) \cup {new})
  <2>1. IsFiniteSet((R \ {old}) \cup {new})
    BY FS_Subset, FS_AddElement DEF Billable
  <2> QED
    BY <2>1 DEF Billable
<1>3. Billable((R \ {old}) \cup {old})
  BY <1>1
<1> SUFFICES ASSUME NEW i
             PROVE  /\ UnitsIn(R, i) \in Nat /\ UnitsIn(R \ {old}, i) \in Nat
                    /\ UnitsIn(R, i) = UnitsIn(R \ {old}, i) + (IF old.item = i THEN old.qty ELSE 0)
                    /\ UnitsIn((R \ {old}) \cup {new}, i)
                         = UnitsIn(R \ {old}, i) + (IF old.item = i THEN new.qty ELSE 0)
  OBVIOUS
<1>4. /\ UnitsIn(R \ {old}, i) \in Nat
      /\ UnitsIn((R \ {old}) \cup {old}, i) = UnitsIn(R \ {old}, i) + UnitsIn({old}, i)
      /\ UnitsIn((R \ {old}) \cup {new}, i) = UnitsIn(R \ {old}, i) + UnitsIn({new}, i)
  <2> DEFINE D == R \ {old}
             A == {old}
             B == {new}
  <2>1. D \cap A = {} /\ D \cap B = {} /\ Billable(D \cup A) /\ Billable(D \cup B)
    BY <1>1, <1>2, <1>3
  <2> HIDE DEF D, A, B
  <2>2. /\ UnitsIn(D, i) \in Nat
        /\ UnitsIn(D \cup A, i) = UnitsIn(D, i) + UnitsIn(A, i)
        /\ UnitsIn(D \cup B, i) = UnitsIn(D, i) + UnitsIn(B, i)
    BY <2>1, UnitsAdd
  <2> QED
    BY <2>2 DEF D, A, B
<1>5. /\ UnitsIn({old}, i) = IF old.item = i THEN old.qty ELSE 0
      /\ UnitsIn({new}, i) = IF old.item = i THEN new.qty ELSE 0
  BY <1>1, UnitsOfOne
<1>6. old.qty \in Nat
  BY <1>1 DEF CartRow
<1>7. UnitsIn((R \ {old}) \cup {old}, i) = UnitsIn(R, i)
  BY <1>1
<1>8. UnitsIn(R, i) = UnitsIn(R \ {old}, i) + (IF old.item = i THEN old.qty ELSE 0)
  BY <1>4, <1>5, <1>7, Zenon
<1>9. UnitsIn((R \ {old}) \cup {new}, i)
        = UnitsIn(R \ {old}, i) + (IF old.item = i THEN new.qty ELSE 0)
  BY <1>4, <1>5, Zenon
<1>10. UnitsIn(R, i) \in Nat
  BY <1>4, <1>6, <1>8
<1> QED
  BY <1>4, <1>8, <1>9, <1>10

-----------------------------------------------------------------------------
(* What is pending, and what is sold.                                      *)

(* The units in the hands of the requests of S.                            *)
InHands(S, i) ==
  UNION {{s} \X (1 .. req[s].arg) : s \in {t \in S : req[t].pc \in {"save", "undo"} /\ req[t].item = i}}

(* What is pending is in the hands of a handler and of others.             *)
PendingTold ==
  \A r \in Request : \A i :
    /\ Holds(r, i) \in Nat
    /\ Cardinality(InHands(Request \ {r}, i)) \in Nat
    /\ Pending(i) = Cardinality(InHands(Request \ {r}, i)) + Holds(r, i)

(* So it is whatever the handlers do.                                      *)
LEMMA PendingIs == req \in [Request -> Locals] => PendingTold
<1> SUFFICES ASSUME req \in [Request -> Locals], NEW r \in Request, NEW i
             PROVE  /\ Holds(r, i) \in Nat
                    /\ Cardinality(InHands(Request \ {r}, i)) \in Nat
                    /\ Pending(i) = Cardinality(InHands(Request \ {r}, i)) + Holds(r, i)
  BY DEF PendingTold
<1> DEFINE A == InHands(Request \ {r}, i)
           P == {t \in Request \ {r} : req[t].pc \in {"save", "undo"} /\ req[t].item = i}
           n == [s \in Request |-> req[s].arg]
           m == [s \in Request |-> s]
<1>1. Holds(r, i) \in Nat /\ \A s \in Request : req[s].arg \in Nat
  BY DEF Holds, Locals
<1>2. IsFiniteSet(A)
  <2>1. IsFiniteSet(P)
    BY EnvironmentAssumption, FS_Subset
  <2>2. \A s \in P : n[s] \in Nat /\ n[s] = req[s].arg /\ m[s] = s
    BY <1>1
  <2>3. A = UNION {{m[s]} \X (1 .. n[s]) : s \in P}
    BY <2>2 DEF InHands
  <2> HIDE DEF A, P, n, m
  <2> QED
    BY <2>1, <2>2, <2>3, StacksFinite
<1>3. PendingUnits(i) = A \cup Stack(r, 0, Holds(r, i))
  <2>1. Stack(r, 0, Holds(r, i)) = {r} \X (1 .. Holds(r, i))
    BY <1>1, FirstUnits
  <2>2. CASE req[r].pc \in {"save", "undo"} /\ req[r].item = i
    BY <2>1, <2>2 DEF PendingUnits, InHands, Holds
  <2>3. CASE ~(req[r].pc \in {"save", "undo"} /\ req[r].item = i)
    <3>1. Stack(r, 0, Holds(r, i)) = {}
      BY <2>1, <2>3 DEF Holds
    <3> QED
      BY <2>3, <3>1 DEF PendingUnits, InHands
  <2> QED
    BY <2>2, <2>3
<1>4. A \cap Stack(r, 0, Holds(r, i)) = {}
  BY DEF InHands, Stack
<1> DEFINE h == Holds(r, i)
<1>5. h \in Nat /\ A \cap Stack(r, 0, h) = {} /\ PendingUnits(i) = A \cup Stack(r, 0, h)
  BY <1>1, <1>3, <1>4
<1> HIDE DEF A, h
<1>6. Cardinality(A) \in Nat /\ Cardinality(A \cup Stack(r, 0, h)) = Cardinality(A) + h
  BY <1>2, <1>5, Joined
<1> QED
  BY <1>1, <1>5, <1>6 DEF Pending, A, h

(* The same after a step.                                                  *)
LEMMA PendingIsNext == (req \in [Request -> Locals])' => PendingTold'
BY PendingIs, PTL

(* A handler's step changes what is pending by what it takes or gives.     *)
LEMMA PendingMoves ==
  ASSUME req \in [Request -> Locals], req' \in [Request -> Locals],
         NEW r \in Request, Others(r)
  PROVE  \A i : /\ Pending(i) \in Nat /\ Pending(i)' \in Nat
                /\ Holds(r, i) \in Nat /\ Holds(r, i)' \in Nat
                /\ Pending(i)' + Holds(r, i) = Pending(i) + Holds(r, i)'
<1> SUFFICES ASSUME NEW i
             PROVE  /\ Pending(i) \in Nat /\ Pending(i)' \in Nat
                    /\ Holds(r, i) \in Nat /\ Holds(r, i)' \in Nat
                    /\ Pending(i)' + Holds(r, i) = Pending(i) + Holds(r, i)'
  OBVIOUS
<1>1. PendingTold /\ PendingTold'
  BY PendingIs, PendingIsNext
<1>3. InHands(Request \ {r}, i)' = InHands(Request \ {r}, i)
  BY DEF InHands, Others
<1> DEFINE k == Cardinality(InHands(Request \ {r}, i))
<1>4. k' = k
  BY <1>3
<1>5. /\ Holds(r, i) \in Nat /\ k \in Nat /\ Pending(i) = k + Holds(r, i)
      /\ Holds(r, i)' \in Nat /\ k' \in Nat /\ Pending(i)' = k' + Holds(r, i)'
  BY <1>1 DEF PendingTold
<1> HIDE DEF k
<1> QED
  BY <1>4, <1>5

(* The units sold are finitely many.                                       *)
LEMMA SoldNumber ==
  ASSUME Ground
  PROVE  \A i : IsFiniteSet(SoldUnits(i)) /\ Sold(i) \in Nat
<1> SUFFICES ASSUME NEW j PROVE IsFiniteSet(SoldUnits(j)) /\ Sold(j) \in Nat
  OBVIOUS
<1> DEFINE f == [r \in Request |-> {r} \X UnitsOf({row \in orders[r] : row.item = j})]
           U == {f[r] : r \in Request}
<1>1. SoldUnits(j) = UNION U
  BY DEF SoldUnits
<1>2. IsFiniteSet(U)
  <2>1. f \in [Request -> U] /\ \A y \in U : \E r \in Request : f[r] = y
    OBVIOUS
  <2> HIDE DEF f, U
  <2> QED
    BY <2>1, FiniteRange, EnvironmentAssumption
<1>3. ASSUME NEW X \in U PROVE IsFiniteSet(X)
  <2>1. PICK r \in Request : X = {r} \X UnitsOf({row \in orders[r] : row.item = j})
    OBVIOUS
  <2> DEFINE R == {row \in orders[r] : row.item = j}
  <2>2. Billable(R)
    <3>1. Billable(orders[r]) \/ orders[r] = {}
      BY DEF Ground, ChargedInv, Charged
    <3>2. Billable({})
      BY FS_EmptySet DEF Billable
    <3>3. R \in SUBSET orders[r]
      OBVIOUS
    <3> HIDE DEF R
    <3> QED
      BY <3>1, <3>2, <3>3, FewerRows
  <2> HIDE DEF R
  <2>3. IsFiniteSet(UnitsOf(R)) /\ IsFiniteSet({r})
    BY <2>2, UnitsFinite, FS_Singleton DEF Billable
  <2>4. IsFiniteSet({r} \X UnitsOf(R))
    BY <2>3, FS_Product
  <2> QED
    BY <2>1, <2>4 DEF R
<1> HIDE DEF U
<1>4. IsFiniteSet(SoldUnits(j))
  BY <1>1, <1>2, <1>3, FS_UNION
<1> QED
  BY <1>4, FS_CardinalityType DEF Sold

(* The numbers of the balance are numbers.                                 *)
LEMMA Numbers ==
  ASSUME Books
  PROVE  \A i \in Item : /\ stock[i] \in Int /\ stock[i] >= 0
                         /\ Claimed(i) \in Nat /\ Pending(i) \in Nat /\ Sold(i) \in Nat
                         /\ Promised(i) \in Int
                         /\ Ceiling(i) \in Nat /\ TotalStock[i] \in Nat
                         /\ Ceiling(i) <= TotalStock[i]
<1> SUFFICES ASSUME NEW i \in Item
             PROVE  /\ stock[i] \in Int /\ stock[i] >= 0
                    /\ Claimed(i) \in Nat /\ Pending(i) \in Nat /\ Sold(i) \in Nat
                    /\ Promised(i) \in Int
                    /\ Ceiling(i) \in Nat /\ TotalStock[i] \in Nat
                    /\ Ceiling(i) <= TotalStock[i]
  OBVIOUS
<1>1. Ground /\ stock[i] \in Int /\ req \in [Request -> Locals]
  BY GroundParts DEF Books
<1>2. stock[i] >= 0
  BY <1>1 DEF Ground, NonNegative, StockNonNegative
<1>3. Claimed(i) \in Nat
  BY ClaimsBillableNow, RowsOfType DEF Claimed
<1>4. Pending(i) \in Nat
  <2>1. CASE Request = {}
    <3>1. PendingUnits(i) = {}
      BY <2>1 DEF PendingUnits
    <3>2. Cardinality({}) = 0
      BY FS_EmptySet
    <3>3. Pending(i) = 0
      BY <3>1, <3>2, Zenon DEF Pending
    <3> QED
      BY <3>3
  <2>2. CASE Request # {}
    <3>1. PICK r \in Request : TRUE
      BY <2>2
    <3>2. PendingTold
      BY <1>1, PendingIs
    <3>3. /\ Holds(r, i) \in Nat
          /\ Cardinality(InHands(Request \ {r}, i)) \in Nat
          /\ Pending(i) = Cardinality(InHands(Request \ {r}, i)) + Holds(r, i)
      BY <3>2, <3>1, Zenon DEF PendingTold
    <3> QED
      BY <3>3
  <2> QED
    BY <2>1, <2>2
<1>5. Sold(i) \in Nat
  BY <1>1, SoldNumber
<1>6. TotalStock[i] \in Nat
  BY TotalStockAssumption
<1> QED
  BY <1>1, <1>2, <1>3, <1>4, <1>5, <1>6 DEF Promised, Ceiling

(* The same, as a formula, and after a step.                               *)
NumbersKnown ==
  \A i \in Item : /\ stock[i] \in Int /\ stock[i] >= 0
                  /\ Claimed(i) \in Nat /\ Pending(i) \in Nat /\ Sold(i) \in Nat
                  /\ Promised(i) \in Int
                  /\ Ceiling(i) \in Nat /\ TotalStock[i] \in Nat
                  /\ Ceiling(i) <= TotalStock[i]

(* They are numbers where the books are in order.                          *)
LEMMA NumbersNow == Books => NumbersKnown
BY Numbers DEF NumbersKnown

(* And after a step that leaves the books in order.                        *)
LEMMA NumbersNext == Books' => NumbersKnown'
BY NumbersNow, PTL

(* If what others claim is f and one's own units go from c to d, and what  *)
(* is pending moves with one's own hands, the sum moves with one's part.   *)
Adds(s, t, f, c, d, p, q, h, k, n, m) ==
  /\ s + (f + c) + p + n \in Int /\ t + (f + d) + q + m \in Int
  /\ t + d + k + m <= s + c + h + n => t + (f + d) + q + m <= s + (f + c) + p + n
  /\ t + d + k + m = s + c + h + n => t + (f + d) + q + m = s + (f + c) + p + n

(* Whoever keeps the sum of his own part keeps what is promised.           *)
LEMMA Sums ==
  ASSUME NEW s \in Int, NEW t \in Int, NEW f \in Int, NEW c \in Int, NEW d \in Int,
         NEW p \in Int, NEW q \in Int, NEW h \in Int, NEW k \in Int,
         NEW n \in Int, NEW m \in Int,
         q + h = p + k
  PROVE  Adds(s, t, f, c, d, p, q, h, k, n, m)
BY DEF Adds

(* The part of the balance that a step of r for w may change.              *)
OwnPart(r, w, i) == stock[i] + UnitsIn(Claim(r, w), i) + Holds(r, i) + Sold(i)

(* What the units are after a step.                                        *)
LEMMA UnitsNext ==
  /\ \A r, w, i : UnitsIn(Claim(r, w), i)' = UnitsIn(Claim(r, w)', i)
  /\ \A i : Claimed(i)' = UnitsIn(Claims', i)
BY Zenon DEF UnitsIn, QtyOf, UnitsOf, RowsOf, Claimed

(* Two sets of rows that can be billed together and share none.            *)
Apart(R, S) == Billable(R \cup S) /\ R \cap S = {}
(* The units of two sets of rows add up.                                   *)
Additive(R, S) ==
  \A i : /\ UnitsIn(R, i) \in Nat /\ UnitsIn(S, i) \in Nat
         /\ UnitsIn(R \cup S, i) = UnitsIn(R, i) + UnitsIn(S, i)

(* Sets of rows that are apart add up.                                     *)
LEMMA ApartAdditive == ASSUME NEW R, NEW S, Apart(R, S) PROVE Additive(R, S)
<1>1. Billable(R \cup S) /\ R \cap S = {}
  BY DEF Apart
<1>2. \A i : /\ UnitsIn(R, i) \in Nat /\ UnitsIn(S, i) \in Nat
             /\ UnitsIn(R \cup S, i) = UnitsIn(R, i) + UnitsIn(S, i)
  BY <1>1, UnitsAdd
<1> QED
  BY <1>2 DEF Additive

(* A step of handler r for user w leaves the units that others claim. *)
LEMMA ClaimedMoves ==
  ASSUME Books, Books', Kept, NEW r \in Request, NEW w, StepFor(r, w),
         \A s \in Request : s # r => orders'[s] = orders[s]
  PROVE  \A i : /\ UnitsIn(Foreign(w), i) \in Nat /\ UnitsIn(Claim(r, w), i) \in Nat
                /\ UnitsIn(Claim(r, w)', i) \in Nat
                /\ Claimed(i) = UnitsIn(Foreign(w), i) + UnitsIn(Claim(r, w), i)
                /\ Claimed(i)' = UnitsIn(Foreign(w), i) + UnitsIn(Claim(r, w)', i)
<1> DEFINE F == Foreign(w)
           C == Claim(r, w)
           D == Claim(r, w)'
<1>1. /\ Claims = F \cup C /\ Claims' = F \cup D
      /\ F \cap C = {} /\ F \cap D = {}
  BY ClaimsMove
<1>2. Billable(F \cup C) /\ Billable(F \cup D)
  <2>1. Billable(Claims) /\ Billable(Claims)'
    BY ClaimsBillableNow, ClaimsBillableNext
  <2>2. Billable(Claims')
    BY <2>1 DEF Billable
  <2> QED
    BY <1>1, <2>1, <2>2
<1> HIDE DEF F, C, D
<1>3. Apart(F, C) /\ Apart(F, D)
  BY <1>1, <1>2 DEF Apart
<1>4. Additive(F, C) /\ Additive(F, D)
  BY <1>3, ApartAdditive
<1>5. \A i : /\ UnitsIn(F, i) \in Nat /\ UnitsIn(C, i) \in Nat /\ UnitsIn(D, i) \in Nat
             /\ UnitsIn(F \cup C, i) = UnitsIn(F, i) + UnitsIn(C, i)
             /\ UnitsIn(F \cup D, i) = UnitsIn(F, i) + UnitsIn(D, i)
  BY <1>4 DEF Additive
<1>6. \A i : Claimed(i) = UnitsIn(Claims, i) /\ Claimed(i)' = UnitsIn(Claims', i)
  BY UnitsNext DEF Claimed, UnitsIn
<1>8. \A i : /\ UnitsIn(F, i) \in Nat /\ UnitsIn(C, i) \in Nat /\ UnitsIn(D, i) \in Nat
             /\ Claimed(i) = UnitsIn(F, i) + UnitsIn(C, i)
             /\ Claimed(i)' = UnitsIn(F, i) + UnitsIn(D, i)
  BY <1>1, <1>5, <1>6, Zenon
<1> QED
  BY <1>8 DEF F, C, D

(* The step keeps that part, or loses units of an item that is not settled. *)
OwnKept(r, w) ==
  \A i \in Item : /\ OwnPart(r, w, i)' <= OwnPart(r, w, i)
                  /\ Settled(i) => OwnPart(r, w, i)' = OwnPart(r, w, i)

(* A step of handler r for user w keeps the balance if it keeps that part. *)
LEMMA OwnBalance ==
  ASSUME Books, Books', Balanced, Frozen, Kept, NEW r \in Request, NEW w, StepFor(r, w),
         \A s \in Request : s # r => orders'[s] = orders[s],
         OwnKept(r, w)
  PROVE  Balanced'
<1> DEFINE F == Foreign(w)
           C == Claim(r, w)
           D == Claim(r, w)'
<1> SUFFICES ASSUME NEW i \in Item
             PROVE  /\ Promised(i)' <= Ceiling(i)'
                    /\ Settled(i)' => Promised(i)' = TotalStock[i]
  BY DEF Balanced
<1>3. NumbersKnown /\ NumbersKnown'
  BY NumbersNow, NumbersNext
<1>4. /\ Pending(i) \in Nat /\ Pending(i)' \in Nat
      /\ Holds(r, i) \in Nat /\ Holds(r, i)' \in Nat
      /\ Pending(i)' + Holds(r, i) = Pending(i) + Holds(r, i)'
  <2>1. Ground /\ Ground' /\ Others(r)
    BY DEF Books, StepFor
  <2>2. req \in [Request -> Locals] /\ req' \in [Request -> Locals]
    BY <2>1, GroundParts DEF Ground, ChargedInv, ShopInv, Inv, TypeOK
  <2> QED
    BY <2>1, <2>2, PendingMoves
<1>5. /\ UnitsIn(F, i) \in Nat /\ UnitsIn(C, i) \in Nat /\ UnitsIn(D, i) \in Nat
      /\ Claimed(i) = UnitsIn(F, i) + UnitsIn(C, i)
      /\ Claimed(i)' = UnitsIn(F, i) + UnitsIn(D, i)
  BY ClaimedMoves
<1>6. (Settled(i)' <=> Settled(i)) /\ Ceiling(i)' = Ceiling(i)
  <2>1. (Settled(i)' <=> Settled(i)) /\ (Unopened(i)' <=> Unopened(i))
    BY FrozenItems
  <2> QED
    BY <2>1 DEF Ceiling
<1>7. OwnPart(r, w, i) = stock[i] + UnitsIn(C, i) + Holds(r, i) + Sold(i)
  BY DEF OwnPart
<1>8. OwnPart(r, w, i)' = stock'[i] + UnitsIn(D, i) + Holds(r, i)' + Sold(i)'
  BY UnitsNext, Zenon DEF OwnPart
<1>9. Promised(i) = stock[i] + Claimed(i) + Pending(i) + Sold(i)
  BY DEF Promised
<1>10. Promised(i)' = stock'[i] + Claimed(i)' + Pending(i)' + Sold(i)'
  BY Zenon DEF Promised
<1>11. /\ Promised(i) <= Ceiling(i)
       /\ Settled(i) => Promised(i) = TotalStock[i]
  BY DEF Balanced
<1>12. /\ stock[i] \in Int /\ Sold(i) \in Nat /\ Ceiling(i) \in Nat /\ TotalStock[i] \in Nat
       /\ stock'[i] \in Int /\ Sold(i)' \in Nat
  BY <1>3 DEF NumbersKnown
<1>13. /\ OwnPart(r, w, i)' <= OwnPart(r, w, i)
       /\ Settled(i) => OwnPart(r, w, i)' = OwnPart(r, w, i)
  BY DEF OwnKept
<1>14. Promised(i)' <= Promised(i) /\ (Settled(i) => Promised(i)' = Promised(i))
       /\ Promised(i)' \in Int /\ Promised(i) \in Int
  <2> HIDE DEF F, C, D
  <2>1. /\ stock[i] + (UnitsIn(F, i) + UnitsIn(C, i)) + Pending(i) + Sold(i) \in Int
        /\ stock'[i] + (UnitsIn(F, i) + UnitsIn(D, i)) + Pending(i)' + Sold(i)' \in Int
        /\ stock'[i] + UnitsIn(D, i) + Holds(r, i)' + Sold(i)'
              <= stock[i] + UnitsIn(C, i) + Holds(r, i) + Sold(i)
             => stock'[i] + (UnitsIn(F, i) + UnitsIn(D, i)) + Pending(i)' + Sold(i)'
                  <= stock[i] + (UnitsIn(F, i) + UnitsIn(C, i)) + Pending(i) + Sold(i)
        /\ stock'[i] + UnitsIn(D, i) + Holds(r, i)' + Sold(i)'
              = stock[i] + UnitsIn(C, i) + Holds(r, i) + Sold(i)
             => stock'[i] + (UnitsIn(F, i) + UnitsIn(D, i)) + Pending(i)' + Sold(i)'
                  = stock[i] + (UnitsIn(F, i) + UnitsIn(C, i)) + Pending(i) + Sold(i)
    <3>1. Adds(stock[i], stock'[i], UnitsIn(F, i), UnitsIn(C, i), UnitsIn(D, i), Pending(i),
               Pending(i)', Holds(r, i), Holds(r, i)', Sold(i), Sold(i)')
      <4>1. /\ stock[i] \in Int /\ stock'[i] \in Int /\ UnitsIn(F, i) \in Int
            /\ UnitsIn(C, i) \in Int /\ UnitsIn(D, i) \in Int /\ Pending(i) \in Int
            /\ Pending(i)' \in Int /\ Holds(r, i) \in Int /\ Holds(r, i)' \in Int
            /\ Sold(i) \in Int /\ Sold(i)' \in Int
        BY <1>4, <1>5, <1>12
      <4>2. Pending(i)' + Holds(r, i) = Pending(i) + Holds(r, i)'
        BY <1>4
      <4> QED
        BY <4>1, <4>2, Sums, Zenon
    <3> QED
      BY <3>1, Zenon DEF Adds
  <2>2. /\ Promised(i) = stock[i] + (UnitsIn(F, i) + UnitsIn(C, i)) + Pending(i) + Sold(i)
        /\ Promised(i)' = stock'[i] + (UnitsIn(F, i) + UnitsIn(D, i)) + Pending(i)' + Sold(i)'
    BY <1>5, <1>9, <1>10, Zenon
  <2>3. /\ stock'[i] + UnitsIn(D, i) + Holds(r, i)' + Sold(i)'
              <= stock[i] + UnitsIn(C, i) + Holds(r, i) + Sold(i)
        /\ Settled(i) => stock'[i] + UnitsIn(D, i) + Holds(r, i)' + Sold(i)'
              = stock[i] + UnitsIn(C, i) + Holds(r, i) + Sold(i)
    BY <1>7, <1>8, <1>13, Zenon
  <2> QED
    BY <2>1, <2>2, <2>3, Zenon
<1> QED
  BY <1>6, <1>11, <1>12, <1>14

(* A step of handler r for user w, by what it leaves alone.                *)
Handling(r, w) ==
  /\ Frozen /\ server = "up" /\ Kept /\ StepFor(r, w)
  /\ \A s \in Request : s # r => orders'[s] = orders[s]
  /\ \A c \in Request : key'[c] # None => key[c] # None \/ req'[c].pc # "new"

(* The inductive invariant.                                                *)
Reckoned == Books /\ Balanced

(* What such a step has to show.                                           *)
LEMMA Reckon ==
  ASSUME Reckoned, Ground', NEW r \in Request, NEW w, Handling(r, w), Recall(r)',
         Books' => OwnKept(r, w)
  PROVE  Reckoned'
<1>1. Books'
  <2>1. /\ Books /\ Frozen /\ server = "up" /\ Kept /\ StepFor(r, w)
        /\ \A s \in Request : s # r => orders'[s] = orders[s]
        /\ \A c \in Request : key'[c] # None => key[c] # None \/ req'[c].pc # "new"
    BY DEF Handling, Reckoned
  <2> QED
    BY <2>1, HandlerBooks
<1>2. Balanced'
  <2>1. /\ Books /\ Balanced /\ Frozen /\ Kept /\ StepFor(r, w)
        /\ \A s \in Request : s # r => orders'[s] = orders[s]
        /\ OwnKept(r, w)
    BY <1>1 DEF Handling, Reckoned
  <2> QED
    BY <1>1, <2>1, OwnBalance
<1> QED
  BY <1>1, <1>2 DEF Reckoned

(* What is moved of one's own part: units q stay claimed, a become b.      *)
AddsOwn(s, t, q, a, b, h, k, n, m) ==
  /\ t + b + k + m <= s + a + h + n => t + (q + b) + k + m <= s + (q + a) + h + n
  /\ t + b + k + m = s + a + h + n => t + (q + b) + k + m = s + (q + a) + h + n

(* So it is: the units that stay claimed count on both sides.              *)
LEMMA OwnSums ==
  ASSUME NEW s \in Int, NEW t \in Int, NEW q \in Int, NEW a \in Int, NEW b \in Int,
         NEW h \in Int, NEW k \in Int, NEW n \in Int, NEW m \in Int
  PROVE  AddsOwn(s, t, q, a, b, h, k, n, m)
BY DEF AddsOwn

(* The numbers of one's own part, before and after.                        *)
OwnNumbers(r, i) ==
  /\ stock[i] \in Int /\ stock'[i] \in Int
  /\ Holds(r, i) \in Int /\ Holds(r, i)' \in Int /\ Sold(i) \in Int /\ Sold(i)' \in Int

(* They are numbers where the books are in order, before and after.        *)
LEMMA OwnNumbersKnown ==
  ASSUME Books, Books', NEW r \in Request, NEW w, Handling(r, w)
  PROVE  \A i \in Item : OwnNumbers(r, i)
<1> SUFFICES ASSUME NEW i \in Item PROVE OwnNumbers(r, i)
  OBVIOUS
<1>1. NumbersKnown /\ NumbersKnown'
  BY NumbersNow, NumbersNext
<1>2. Holds(r, i) \in Nat /\ Holds(r, i)' \in Nat
  <2>1. Ground /\ Ground' /\ Others(r)
    BY DEF Books, StepFor, Handling
  <2>2. req \in [Request -> Locals] /\ req' \in [Request -> Locals]
    BY <2>1, GroundParts DEF Ground, ChargedInv, ShopInv, Inv, TypeOK
  <2> QED
    BY <2>1, <2>2, PendingMoves
<1>3. stock[i] \in Int /\ Sold(i) \in Nat
  BY <1>1 DEF NumbersKnown
<1>4. stock'[i] \in Int /\ Sold(i)' \in Nat
  BY <1>1 DEF NumbersKnown
<1> QED
  BY <1>2, <1>3, <1>4 DEF OwnNumbers

(* What r claims for w can be billed.                                      *)
LEMMA OwnBillable ==
  ASSUME Books, Books', NEW r \in Request, NEW w, Handling(r, w)
  PROVE  Billable(Claim(r, w)) /\ Billable(Claim(r, w)')
<1>1. /\ Claims = Foreign(w) \cup Claim(r, w) /\ Claims' = Foreign(w) \cup Claim(r, w)'
  <2>1. Kept /\ StepFor(r, w) /\ \A s \in Request : s # r => orders'[s] = orders[s]
    BY DEF Handling
  <2> QED
    BY <2>1, ClaimsMove
<1>2. Billable(Claims) /\ Billable(Claims')
  <2>1. Billable(Claims) /\ Billable(Claims)'
    BY ClaimsBillableNow, ClaimsBillableNext
  <2> QED
    BY <2>1 DEF Billable
<1>3. Claim(r, w) \subseteq Claims /\ Claim(r, w)' \subseteq Claims'
  BY <1>1
<1> QED
  BY <1>2, <1>3, FewerRows

(* What the rest of the units of i must make up for.                       *)
Exchange(r, A, B) ==
  \A i \in Item :
    /\ stock'[i] + UnitsIn(B, i) + Holds(r, i)' + Sold(i)'
         <= stock[i] + UnitsIn(A, i) + Holds(r, i) + Sold(i)
    /\ Settled(i) => stock'[i] + UnitsIn(B, i) + Holds(r, i)' + Sold(i)'
                       = stock[i] + UnitsIn(A, i) + Holds(r, i) + Sold(i)

(* Of w's claims those on Q stay, and those on A become those on B.        *)
LEMMA OwnMoves ==
  ASSUME Books, Books', NEW r \in Request, NEW w, Handling(r, w), NEW Q, NEW A, NEW B,
         Claim(r, w) = Q \cup A, Claim(r, w)' = Q \cup B, Q \cap A = {}, Q \cap B = {},
         Exchange(r, A, B)
  PROVE  OwnKept(r, w)
<1>1. Apart(Q, A) /\ Apart(Q, B)
  BY OwnBillable DEF Apart
<1>2. Additive(Q, A) /\ Additive(Q, B)
  BY <1>1, ApartAdditive
<1> SUFFICES ASSUME NEW i \in Item
             PROVE  /\ OwnPart(r, w, i)' <= OwnPart(r, w, i)
                    /\ Settled(i) => OwnPart(r, w, i)' = OwnPart(r, w, i)
  BY DEF OwnKept
<1>3. OwnNumbers(r, i)
  BY OwnNumbersKnown
<1>4. /\ UnitsIn(Q, i) \in Int /\ UnitsIn(A, i) \in Int /\ UnitsIn(B, i) \in Int
      /\ UnitsIn(Claim(r, w), i) = UnitsIn(Q, i) + UnitsIn(A, i)
      /\ UnitsIn(Claim(r, w)', i) = UnitsIn(Q, i) + UnitsIn(B, i)
  <2>1. /\ UnitsIn(Q, i) \in Nat /\ UnitsIn(A, i) \in Nat /\ UnitsIn(B, i) \in Nat
        /\ UnitsIn(Q \cup A, i) = UnitsIn(Q, i) + UnitsIn(A, i)
        /\ UnitsIn(Q \cup B, i) = UnitsIn(Q, i) + UnitsIn(B, i)
    BY <1>2 DEF Additive
  <2>2. UnitsIn(Q, i) \in Int /\ UnitsIn(A, i) \in Int /\ UnitsIn(B, i) \in Int
    BY <2>1
  <2> QED
    BY <2>1, <2>2, Zenon
<1>5. OwnPart(r, w, i) = stock[i] + (UnitsIn(Q, i) + UnitsIn(A, i)) + Holds(r, i) + Sold(i)
  BY <1>4, Zenon DEF OwnPart
<1>6. OwnPart(r, w, i)' = stock'[i] + (UnitsIn(Q, i) + UnitsIn(B, i)) + Holds(r, i)' + Sold(i)'
  <2>1. OwnPart(r, w, i)' = stock'[i] + UnitsIn(Claim(r, w)', i) + Holds(r, i)' + Sold(i)'
    BY UnitsNext, Zenon DEF OwnPart
  <2> QED
    BY <1>4, <2>1, Zenon
<1>7. AddsOwn(stock[i], stock'[i], UnitsIn(Q, i), UnitsIn(A, i), UnitsIn(B, i),
              Holds(r, i), Holds(r, i)', Sold(i), Sold(i)')
  <2>1. /\ stock[i] \in Int /\ stock'[i] \in Int /\ Holds(r, i) \in Int
        /\ Holds(r, i)' \in Int /\ Sold(i) \in Int /\ Sold(i)' \in Int
    BY <1>3 DEF OwnNumbers
  <2> QED
    BY <1>4, <2>1, OwnSums, Zenon
<1>8. /\ stock'[i] + UnitsIn(B, i) + Holds(r, i)' + Sold(i)'
           <= stock[i] + UnitsIn(A, i) + Holds(r, i) + Sold(i)
      /\ Settled(i) => stock'[i] + UnitsIn(B, i) + Holds(r, i)' + Sold(i)'
                         = stock[i] + UnitsIn(A, i) + Holds(r, i) + Sold(i)
  BY DEF Exchange
<1> QED
  BY <1>5, <1>6, <1>7, <1>8, Zenon DEF AddsOwn

(* Claims are only lost, on units of items that are not settled.           *)
LEMMA OwnFewer ==
  ASSUME Books, Books', NEW r \in Request, NEW w, Handling(r, w),
         stock' = stock, orders' = orders, Claim(r, w)' \subseteq Claim(r, w),
         \A x \in Claim(r, w) \ Claim(r, w)' : ~Settled(x.item),
         \A i \in Item : /\ Holds(r, i)' <= Holds(r, i)
                         /\ Settled(i) => Holds(r, i)' = Holds(r, i)
  PROVE  OwnKept(r, w)
<1> DEFINE Q == Claim(r, w)'
           A == Claim(r, w) \ Claim(r, w)'
<1>1. /\ Claim(r, w) = Q \cup A /\ Claim(r, w)' = Q \cup {}
      /\ Q \cap A = {} /\ Q \cap {} = {}
  OBVIOUS
<1>2. Billable(A)
  <2>1. Billable(Claim(r, w))
    BY OwnBillable
  <2> QED
    BY <2>1, FewerRows
<1>3. \A x \in A : ~Settled(x.item)
  OBVIOUS
<1> HIDE DEF Q, A
<1>4. ASSUME NEW i \in Item
      PROVE  /\ stock'[i] + UnitsIn({}, i) + Holds(r, i)' + Sold(i)'
                  <= stock[i] + UnitsIn(A, i) + Holds(r, i) + Sold(i)
             /\ Settled(i) => stock'[i] + UnitsIn({}, i) + Holds(r, i)' + Sold(i)'
                                = stock[i] + UnitsIn(A, i) + Holds(r, i) + Sold(i)
  <2>1. UnitsIn(A, i) \in Nat /\ UnitsIn({}, i) = 0
        /\ ((\A x \in A : x.item # i) => UnitsIn(A, i) = 0)
    <3>1. {} \in SUBSET A
      OBVIOUS
    <3>2. /\ UnitsIn(A, i) \in Nat
          /\ (\A x \in A \ {} : x.item # i) => UnitsIn({}, i) = UnitsIn(A, i)
      BY <1>2, <3>1, FewerRows
    <3> QED
      BY <3>2, NoUnits
  <2>2. Settled(i) => UnitsIn(A, i) = 0
    BY <1>3, <2>1
  <2>3. OwnNumbers(r, i)
    BY OwnNumbersKnown
  <2>4. Sold(i)' = Sold(i)
    BY SoldSame DEF SoldKept
  <2>5. /\ Holds(r, i)' <= Holds(r, i)
        /\ Settled(i) => Holds(r, i)' = Holds(r, i)
    OBVIOUS
  <2>6. stock'[i] = stock[i]
    OBVIOUS
  <2> QED
    BY <2>1, <2>2, <2>3, <2>4, <2>5, <2>6 DEF OwnNumbers
<1>5. Exchange(r, A, {})
  BY <1>4 DEF Exchange
<1> QED
  BY <1>1, <1>5, OwnMoves, Zenon

(* The units a of item i in one row, or none, become b.                    *)
Worths(A, i, a) == \A j : UnitsIn(A, j) = IF j = i THEN a ELSE 0

(* A handler whose claims are Q besides one row of item i, or none, worth a *)
(* and then b, keeps the sum of its own part.                               *)
LEMMA OwnRowMoves ==
  ASSUME Books, Books', NEW r \in Request, NEW w, Handling(r, w), orders' = orders,
         NEW Q, NEW A, NEW B, NEW i \in Item, NEW a \in Nat, NEW b \in Nat,
         Claim(r, w) = Q \cup A, Claim(r, w)' = Q \cup B, Q \cap A = {}, Q \cap B = {},
         Worths(A, i, a), Worths(B, i, b),
         \A j \in Item : j # i => stock'[j] = stock[j] /\ Holds(r, j)' = Holds(r, j),
         stock'[i] + b + Holds(r, i)' = stock[i] + a + Holds(r, i)
  PROVE  OwnKept(r, w)
<1>1. ASSUME NEW j \in Item
      PROVE  stock'[j] + UnitsIn(B, j) + Holds(r, j)' + Sold(j)'
               = stock[j] + UnitsIn(A, j) + Holds(r, j) + Sold(j)
             /\ stock[j] + UnitsIn(A, j) + Holds(r, j) + Sold(j) \in Int
  <2>1. OwnNumbers(r, j)
    BY OwnNumbersKnown
  <2>2. Sold(j)' = Sold(j)
    BY SoldSame DEF SoldKept
  <2>3. CASE j = i
    <3>1. UnitsIn(A, j) = a /\ UnitsIn(B, j) = b
      BY <2>3 DEF Worths
    <3>2. stock'[j] + b + Holds(r, j)' = stock[j] + a + Holds(r, j)
      BY <2>3
    <3> QED
      BY <2>1, <2>2, <3>1, <3>2 DEF OwnNumbers
  <2>4. CASE j # i
    <3>1. UnitsIn(A, j) = 0 /\ UnitsIn(B, j) = 0
      BY <2>4 DEF Worths
    <3>2. stock'[j] = stock[j] /\ Holds(r, j)' = Holds(r, j)
      BY <2>4
    <3> QED
      BY <2>1, <2>2, <3>1, <3>2 DEF OwnNumbers
  <2> QED
    BY <2>3, <2>4
<1>2. \A x, y : x = y /\ y \in Int => x <= y
  OBVIOUS
<1>3. ASSUME NEW j \in Item
      PROVE  /\ stock'[j] + UnitsIn(B, j) + Holds(r, j)' + Sold(j)'
                  <= stock[j] + UnitsIn(A, j) + Holds(r, j) + Sold(j)
             /\ stock'[j] + UnitsIn(B, j) + Holds(r, j)' + Sold(j)'
                  = stock[j] + UnitsIn(A, j) + Holds(r, j) + Sold(j)
  BY <1>1, <1>2, Zenon
<1>4. Exchange(r, A, B)
  BY <1>3 DEF Exchange
<1> QED
  BY <1>4, OwnMoves

(* No row has no units, and one row its own.                               *)
LEMMA OneWorths ==
  /\ \A i : Worths({}, i, 0)
  /\ \A x \in CartRow : Worths({x}, x.item, x.qty)
<1>1. \A i : Worths({}, i, 0)
  BY NoUnits DEF Worths
<1>2. ASSUME NEW x \in CartRow PROVE Worths({x}, x.item, x.qty)
  <2>1. \A i : UnitsIn({x}, i) = IF x.item = i THEN x.qty ELSE 0
    BY UnitsOfOne
  <2> QED
    BY <2>1 DEF Worths
<1> QED
  BY <1>1, <1>2

(* The order sells what was claimed.                                       *)
LEMMA OwnSold ==
  ASSUME Books, Books', NEW r \in Request, NEW w, Handling(r, w), stock' = stock,
         Claim(r, w)' = {}, \A j : Holds(r, j)' = Holds(r, j),
         \A j \in Item : Sold(j)' = Sold(j) + UnitsIn(Claim(r, w), j)
  PROVE  OwnKept(r, w)
<1> DEFINE A == Claim(r, w)
<1>1. /\ Claim(r, w) = {} \cup A /\ Claim(r, w)' = {} \cup {}
      /\ {} \cap A = {} /\ {} \cap {} = {}
  OBVIOUS
<1>2. \A j \in Item : UnitsIn(A, j) \in Nat
  <2>1. Billable(Claim(r, w))
    BY OwnBillable
  <2> QED
    BY <2>1, FewerRows
<1>3. \A j \in Item : Sold(j)' = Sold(j) + UnitsIn(A, j)
  OBVIOUS
<1> HIDE DEF A
<1>4. ASSUME NEW j \in Item
      PROVE  /\ stock'[j] + UnitsIn({}, j) + Holds(r, j)' + Sold(j)'
                  <= stock[j] + UnitsIn(A, j) + Holds(r, j) + Sold(j)
             /\ stock'[j] + UnitsIn({}, j) + Holds(r, j)' + Sold(j)'
                  = stock[j] + UnitsIn(A, j) + Holds(r, j) + Sold(j)
  <2>1. OwnNumbers(r, j)
    BY OwnNumbersKnown
  <2>2. UnitsIn({}, j) = 0
    BY NoUnits
  <2>3. stock'[j] = stock[j] /\ Holds(r, j)' = Holds(r, j)
    OBVIOUS
  <2> QED
    BY <1>2, <1>3, <2>1, <2>2, <2>3 DEF OwnNumbers
<1>5. Exchange(r, A, {})
  BY <1>4 DEF Exchange
<1> QED
  BY <1>1, <1>5, OwnMoves, Zenon

(* Who runs a step, and for whom.                                          *)
LEMMA Running ==
  ASSUME Books, NEW r \in Request, InFlight(r)
  PROVE  /\ req[r].user \in User /\ RunsFor(r, req[r].user) /\ Recall(r)
         /\ req[r] \in Locals /\ req[r].todo \in SUBSET CartRow
<1>1. req[r] \in Locals /\ Recall(r)
  BY GroundParts DEF Books, Recalls
<1>2. Started(r) /\ RunsFor(r, req[r].user)
  BY DEF Started, InFlight, RunsFor
<1> QED
  BY <1>1, <1>2 DEF Recall, Locals

(* Whoever arrives finds no handler of his user, and has sold nothing yet. *)
LEMMA Arriving ==
  ASSUME CartsOneAtATime, Books, NEW r \in Request, NEW u \in User, NEW op, Arrives(r, u, op)
  PROVE  /\ req[r].pc = "new" /\ RunsFor(r, u) /\ server = "up"
         /\ rows[r] = None /\ orders[r] = {}
<1>1. rows[r] = None \/ Started(r)
  BY GroundParts DEF Books
<1>2. Recall(r)
  BY DEF Books, Recalls
<1> QED
  BY <1>1, <1>2 DEF Arrives, Permitted, CartsOneAtATime, RunsFor, Started, Recall

(* A handler that carries no rows but those of its user's cart.            *)
Bare(l) ==
  \/ l.pc \in {"new", "undo", "undoDrop", "get", "survey", "refresh", "emit", "done"}
  \/ l.pc \in {"reserve", "save"} /\ l.base = 0

(* The rows of w but the one of id c.                                      *)
FoundBut(w, c) == {x \in FindByUser(w) : x.id # c}

(* What a handler claims for w, by the command it waits for.               *)
ClaimForms ==
  \A r \in Request : \A w :
    /\ Bare(req[r]) => Claim(r, w) = FindByUser(w)
    /\ req[r].pc \in {"reserve", "save"} /\ req[r].base # 0
         => Claim(r, w) = FindByUser(w) \cup {BaseRow(req[r])}
    /\ req[r].pc \in {"release", "order"} => Claim(r, w) = FindByUser(w) \cup req[r].todo
    /\ req[r].pc \in {"drop", "delete"}
         => Claim(r, w) = FoundBut(w, req[r].id) \cup req[r].todo
    /\ req[r].pc = "shrink"
         => Claim(r, w) = FoundBut(w, req[r].id) \cup {ShrunkRow(req[r])}
                            \cup {row \in req[r].todo : row.id # req[r].id}
    /\ req[r].pc \in {"clear", "empty"}
         => Claim(r, w) = {x \in FindByUser(w) : ~\E row \in orders[r] : row.id = x.id}

(* It follows from the definitions.                                        *)
LEMMA ClaimFormsNow == ClaimForms
<1> SUFFICES ASSUME NEW r \in Request, NEW w
             PROVE  /\ Bare(req[r]) => Claim(r, w) = FindByUser(w)
                    /\ req[r].pc \in {"reserve", "save"} /\ req[r].base # 0
                         => Claim(r, w) = FindByUser(w) \cup {BaseRow(req[r])}
                    /\ req[r].pc \in {"release", "order"}
                         => Claim(r, w) = FindByUser(w) \cup req[r].todo
                    /\ req[r].pc \in {"drop", "delete"}
                         => Claim(r, w) = FoundBut(w, req[r].id) \cup req[r].todo
                    /\ req[r].pc = "shrink"
                         => Claim(r, w) = FoundBut(w, req[r].id) \cup {ShrunkRow(req[r])}
                                            \cup {row \in req[r].todo : row.id # req[r].id}
                    /\ req[r].pc \in {"clear", "empty"}
                         => Claim(r, w) = {x \in FindByUser(w) :
                                             ~\E row \in orders[r] : row.id = x.id}
  BY DEF ClaimForms
<1>1. ASSUME req[r].pc \notin {"drop", "delete", "shrink", "clear", "empty"}
      PROVE  Claim(r, w) = FindByUser(w) \cup Carried(r)
  BY <1>1 DEF Claim, Taken
<1>2. ASSUME req[r].pc \in {"drop", "delete", "shrink"}
      PROVE  Claim(r, w) = FoundBut(w, req[r].id) \cup Carried(r)
  BY <1>2 DEF Claim, Taken, FoundBut
<1>3. Bare(req[r]) => Carried(r) = {} /\ req[r].pc \notin {"drop", "delete", "shrink", "clear", "empty"}
  BY DEF Carried, Bare
<1>4. req[r].pc \in {"reserve", "save"} /\ req[r].base # 0 => Carried(r) = {BaseRow(req[r])}
  BY DEF Carried
<1>5. req[r].pc \in {"release", "order", "drop", "delete"} => Carried(r) = req[r].todo
  BY DEF Carried
<1>6. req[r].pc = "shrink" =>
        Carried(r) = {ShrunkRow(req[r])} \cup {row \in req[r].todo : row.id # req[r].id}
  BY DEF Carried
<1>7. req[r].pc \in {"clear", "empty"} => Carried(r) = {}
  BY DEF Carried
<1>8. req[r].pc \in {"clear", "empty"}
        => Claim(r, w) = {x \in FindByUser(w) : ~\E row \in orders[r] : row.id = x.id}
  BY <1>7 DEF Claim, Taken
<1> QED
  BY <1>1, <1>2, <1>3, <1>4, <1>5, <1>6, <1>8

(* The same after a step.                                                  *)
LEMMA ClaimFormsNext == ClaimForms'
BY ClaimFormsNow, PTL

(* A step after which the handler has nothing to recall, and that changes  *)
(* no counter, row or order.                                               *)
LEMMA BareStep ==
  ASSUME Reckoned, Ground', NEW r \in Request, NEW w \in User, Handling(r, w),
         CarriesNothing(req'[r].pc), stock' = stock, rows' = rows, orders' = orders,
         FindByUser(w) \subseteq Claim(r, w),
         \A x \in Claim(r, w) \ FindByUser(w) : ~Settled(x.item),
         \A i \in Item : /\ Holds(r, i)' <= Holds(r, i)
                         /\ Settled(i) => Holds(r, i)' = Holds(r, i)
  PROVE  Reckoned'
<1>1. req'[r].user = w
  BY DEF Handling, StepFor
<1>2. Recall(r)'
  BY <1>1, EasyRecall
<1>3. Claim(r, w)' = FindByUser(w)
  <2>1. Bare(req'[r])
    BY DEF CarriesNothing, Bare
  <2>2. Claim(r, w)' = FindByUser(w)'
    BY <2>1, ClaimFormsNext DEF ClaimForms
  <2>3. FindByUser(w)' = FindByUser(w)
    BY FoundSame
  <2> QED
    BY <2>2, <2>3
<1>4. ASSUME Books' PROVE OwnKept(r, w)
  <2>1. Books
    BY DEF Reckoned
  <2>2. /\ Claim(r, w)' \subseteq Claim(r, w)
        /\ \A x \in Claim(r, w) \ Claim(r, w)' : ~Settled(x.item)
    BY <1>3
  <2> QED
    BY <1>4, <2>1, <2>2, OwnFewer
<1> QED
  BY <1>2, <1>4, Reckon

(* A handler that waits for anything but a save or the rollback's INCRBY   *)
(* holds no units without a row.                                           *)
LEMMA EmptyHands ==
  ASSUME NEW r
  PROVE  /\ req[r].pc \notin {"save", "undo"} => \A j : Holds(r, j) = 0
         /\ req'[r].pc \notin {"save", "undo"} => \A j : Holds(r, j)' = 0
BY DEF Holds

(* Such a step of a handler that carried nothing before either.            *)
LEMMA BareToBare ==
  ASSUME Reckoned, Ground', NEW r \in Request, NEW w \in User, Handling(r, w),
         Bare(req[r]), CarriesNothing(req'[r].pc),
         stock' = stock, rows' = rows, orders' = orders,
         \A i \in Item : /\ Holds(r, i)' <= Holds(r, i)
                         /\ Settled(i) => Holds(r, i)' = Holds(r, i)
  PROVE  Reckoned'
<1>1. Claim(r, w) = FindByUser(w)
  BY ClaimFormsNow DEF ClaimForms
<1> QED
  BY <1>1, BareStep

(* A reserve takes units of i from its counter.                            *)
LEMMA TakingStep ==
  ASSUME Reckoned, Ground', NEW r \in Request, NEW w, Handling(r, w), Recall(r)',
         NEW i \in Item, NEW q \in Nat, stock' = [stock EXCEPT ![i] = @ - q],
         orders' = orders, Claim(r, w)' = Claim(r, w),
         \A j : Holds(r, j) = 0, \A j : Holds(r, j)' = IF j = i THEN q ELSE 0
  PROVE  Reckoned'
<1>1. ASSUME Books' PROVE OwnKept(r, w)
  <2>1. Books /\ stock \in [Item -> Int]
    BY GroundParts DEF Reckoned, Books
  <2>2. \A j \in Item : j # i => stock'[j] = stock[j] /\ Holds(r, j)' = Holds(r, j)
    BY <2>1
  <2>3. stock'[i] + 0 + Holds(r, i)' = stock[i] + 0 + Holds(r, i)
    BY <2>1
  <2>4. Worths({}, i, 0)
    BY OneWorths
  <2>5. /\ Claim(r, w) = Claim(r, w) \cup {} /\ Claim(r, w)' = Claim(r, w) \cup {}
        /\ Claim(r, w) \cap {} = {}
    OBVIOUS
  <2>6. PICK Q : Q = Claim(r, w)
    OBVIOUS
  <2>7. Claim(r, w) = Q \cup {} /\ Claim(r, w)' = Q \cup {} /\ Q \cap {} = {}
    BY <2>5, <2>6
  <2>8. 0 \in Nat
    OBVIOUS
  <2> QED
    BY <1>1, <2>1, <2>2, <2>3, <2>4, <2>7, <2>8, OwnRowMoves
<1> QED
  BY <1>1, Reckon

(* A request that is refused ends.                                         *)
LEMMA RefusedReckoned ==
  ASSUME Reckoned, Ground', Frozen, server = "up", Kept, NEW r \in Request, NEW w \in User,
         RunsFor(r, w), NEW i, Finishes(r, w, i), UNCHANGED <<redisVars, mongoVars, exp>>,
         FindByUser(w) \subseteq Claim(r, w),
         \A x \in Claim(r, w) \ FindByUser(w) : ~Settled(x.item),
         \A j \in Item : Settled(j) => Holds(r, j) = 0
  PROVE  Reckoned'
<1>1. /\ Others(r) /\ req'[r].user = w /\ req'[r].pc = "done"
      /\ stock' = stock /\ key' = key /\ rows' = rows /\ orders' = orders /\ exp' = exp
  BY DEF Finishes, Becomes, Others, redisVars, mongoVars
<1>2. Handling(r, w)
  BY <1>1, NoRowsTouched DEF Handling, StepFor
<1>3. \A j \in Item : Holds(r, j)' = 0 /\ Holds(r, j) \in Nat
  <2>1. \A j : Holds(r, j)' = 0
    BY <1>1, EmptyHands
  <2>2. req[r] \in Locals
    BY GroundParts DEF Reckoned, Books
  <2> QED
    BY <2>1, <2>2 DEF Holds, Locals
<1>4. \A j \in Item : /\ Holds(r, j)' <= Holds(r, j)
                      /\ Settled(j) => Holds(r, j)' = Holds(r, j)
  BY <1>3
<1>5. CarriesNothing(req'[r].pc)
  BY <1>1 DEF CarriesNothing
<1> QED
  BY <1>1, <1>2, <1>4, <1>5, BareStep

(* A row of the cart is where it was read.                                 *)
LEMMA FoundWhere ==
  ASSUME Ground, NEW u, NEW row \in FindByUser(u)
  PROVE  row # None /\ row.id \in Request /\ rows[row.id] = row /\ row \in CartRow /\ row.user = u
<1>1. PICK c \in Request : rows[c] # None /\ rows[c].user = u /\ row = rows[c]
  BY DEF FindByUser
<1>2. rows[c].id = c /\ rows[c] \in CartRow
  BY <1>1, GroundParts
<1> QED
  BY <1>1, <1>2

(* The rows of a cart differ by their ids.                                 *)
LEMMA FoundApart ==
  ASSUME Ground, NEW u
  PROVE  \A x, y \in FindByUser(u) : x.id = y.id => x = y
BY FoundWhere

(* AddToCart.                                                              *)
LEMMA AddToCartReckoned ==
  ASSUME CartsOneAtATime, Reckoned, Ground', Kept, Frozen, NEW r \in Request,
         NEW u \in User, NEW i \in Item, NEW q \in Quantity, AddToCart(r, u, i, q)
  PROVE  Reckoned'
<1>1. /\ req[r].pc = "new" /\ RunsFor(r, u) /\ server = "up" /\ rows[r] = None
      /\ rows' = rows /\ exp' = exp /\ orders' = orders
  <2>1. Arrives(r, u, "add")
    BY DEF AddToCart
  <2> QED
    BY <2>1, Arriving DEF AddToCart, mongoVars, Reckoned
<1>2. Claim(r, u) = FindByUser(u)
  BY <1>1, ClaimFormsNow DEF ClaimForms, Bare
<1>3. \A j : Holds(r, j) = 0
  BY <1>1, EmptyHands
<1>4. CASE Reserve(i, r, q, r)
           /\ Becomes(r, "save", "add", u, i, r, q, 0, {}, {}, stock[i] - q)
  <2>1. /\ Others(r) /\ req'[r].user = u /\ req'[r].pc = "save" /\ req'[r].id = r
        /\ req'[r].base = 0 /\ req'[r].item = i /\ req'[r].arg = q /\ req'[r].op = "add"
    BY <1>4 DEF Becomes, Others
  <2>2. Recall(r)'
    BY <1>1, <2>1 DEF Recall
  <2>3. \A c \in Request : key'[c] # None => key[c] # None \/ req'[c].pc # "new"
    BY <1>4, <2>1, GroundParts DEF Reserve, TypeOK, RedisTypeOK, Reckoned, Books
  <2>4. Handling(r, u)
    BY <1>1, <2>1, <2>3, NoRowsTouched DEF Handling, StepFor
  <2>5. Claim(r, u)' = Claim(r, u)
    <3>1. Claim(r, u)' = FindByUser(u)'
      BY <2>1, ClaimFormsNext DEF ClaimForms, Bare
    <3> QED
      BY <1>1, <1>2, <3>1, FoundSame
  <2>6. \A j : Holds(r, j)' = IF j = i THEN q ELSE 0
    BY <2>1 DEF Holds
  <2>7. q \in Nat
    BY EnvironmentAssumption
  <2>8. stock' = [stock EXCEPT ![i] = @ - q]
    BY <1>4 DEF Reserve
  <2> QED
    BY <1>1, <1>3, <2>2, <2>4, <2>5, <2>6, <2>7, <2>8, TakingStep
<1>5. CASE UNCHANGED redisVars /\ Finishes(r, u, i)
  BY <1>1, <1>2, <1>3, <1>5, RefusedReckoned DEF mongoVars
<1> QED
  BY <1>4, <1>5, AddToCartNow, GroundParts DEF Reckoned, Books

(* The calls that only read the cart.                                      *)
LEMMA ReadingReckoned ==
  ASSUME CartsOneAtATime, Reckoned, Ground', Kept, Frozen, NEW r \in Request,
         NEW u \in User, req[r].pc = "new", RunsFor(r, u), server = "up",
         UNCHANGED <<redisVars, mongoVars, exp>>, Others(r), req'[r].user = u,
         req'[r].pc \notin {"save", "undo"}, Recall(r)',
         Claim(r, u)' \subseteq FindByUser(u), FindByUser(u) \subseteq Claim(r, u)'
  PROVE  Reckoned'
<1>1. /\ stock' = stock /\ key' = key /\ rows' = rows /\ orders' = orders /\ exp' = exp
  BY DEF redisVars, mongoVars
<1>2. Handling(r, u)
  BY <1>1, NoRowsTouched DEF Handling, StepFor
<1>3. Claim(r, u)' = Claim(r, u)
  <2>1. Claim(r, u) = FindByUser(u)
    BY ClaimFormsNow DEF ClaimForms, Bare
  <2> QED
    BY <2>1
<1>4. \A j \in Item : /\ Holds(r, j)' <= Holds(r, j)
                      /\ Settled(j) => Holds(r, j)' = Holds(r, j)
  <2>1. \A j : Holds(r, j) = 0 /\ Holds(r, j)' = 0
    BY EmptyHands
  <2> QED
    BY <2>1
<1>5. ASSUME Books' PROVE OwnKept(r, u)
  <2>1. Books
    BY DEF Reckoned
  <2>2. /\ Claim(r, u)' \subseteq Claim(r, u)
        /\ \A x \in Claim(r, u) \ Claim(r, u)' : ~Settled(x.item)
    BY <1>3
  <2> QED
    BY <1>1, <1>2, <1>4, <1>5, <2>1, <2>2, OwnFewer
<1> QED
  BY <1>2, <1>5, Reckon

(* UpdateCartItemQuantity with a positive delta.                           *)
LEMMA IncreaseReckoned ==
  ASSUME CartsOneAtATime, Reckoned, Ground', Kept, Frozen, NEW r \in Request,
         NEW u \in User, NEW i \in Item, NEW q \in Quantity, Increase(r, u, i, q)
  PROVE  Reckoned'
<1>1. /\ req[r].pc = "new" /\ RunsFor(r, u) /\ server = "up" /\ rows[r] = None
      /\ UNCHANGED <<redisVars, mongoVars, exp>> /\ rows' = rows
  <2>1. Arrives(r, u, "increase")
    BY DEF Increase
  <2> QED
    BY <2>1, Arriving DEF Increase, mongoVars, Reckoned
<1>2. /\ Others(r) /\ req'[r].pc = "reserve" /\ req'[r].user = u /\ req'[r].item = i
      /\ req'[r].op = "increase"
      /\ \/ req'[r].id = r /\ req'[r].base = 0
         \/ \E row \in FindInCart(u, i) : req'[r].id = row.id /\ req'[r].base = row.qty
  BY IncreaseNow, GroundParts DEF Becomes, Others, Reckoned, Books
<1>3. \A row \in FindInCart(u, i) :
         /\ row # None /\ row.id \in Request /\ rows[row.id] = row /\ row \in CartRow
         /\ row.user = u /\ row.item = i /\ row \in FindByUser(u)
  BY FoundWhere DEF FindInCart, Reckoned, Books
<1>4. \/ req'[r].id = r /\ req'[r].base = 0
      \/ /\ req'[r].base # 0
         /\ \E row \in FindByUser(u) : BaseRow(req'[r]) = row /\ rows[row.id] = row
  <2>1. ASSUME NEW row \in FindInCart(u, i), req'[r].id = row.id, req'[r].base = row.qty
        PROVE  req'[r].base # 0 /\ BaseRow(req'[r]) = row
    <3>1. row \in CartRow /\ row.user = u /\ row.item = i
      BY <1>3
    <3>2. row = [id |-> row.id, user |-> row.user, item |-> row.item, qty |-> row.qty]
          /\ row.qty # 0
      BY <3>1 DEF CartRow
    <3> QED
      BY <1>2, <2>1, <3>1, <3>2 DEF BaseRow
  <2> QED
    BY <1>2, <1>3, <2>1
<1>5. Recall(r)'
  <2>1. BaseRow(req[r])' = BaseRow(req'[r])
    BY DEF BaseRow
  <2>2. req'[r].base # 0 => Match(BaseRow(req[r]))'
    BY <1>1, <1>4, <2>1 DEF Match
  <2>3. req'[r].base = 0 => rows'[req'[r].id] = None
    BY <1>1, <1>4
  <2> QED
    BY <1>2, <2>2, <2>3 DEF Recall
<1>6. Claim(r, u)' = FindByUser(u)
  <2>1. FindByUser(u)' = FindByUser(u)
    BY <1>1, FoundSame
  <2>2. CASE req'[r].base = 0
    BY <1>2, <2>1, <2>2, ClaimFormsNext DEF ClaimForms, Bare
  <2>3. CASE req'[r].base # 0
    <3>1. Claim(r, u)' = FindByUser(u)' \cup {BaseRow(req'[r])}
      BY <1>2, <2>3, ClaimFormsNext DEF ClaimForms
    <3> QED
      BY <1>4, <2>1, <2>3, <3>1
  <2> QED
    BY <2>2, <2>3
<1> QED
  BY <1>1, <1>2, <1>5, <1>6, ReadingReckoned

(* RemoveFromCart, and UpdateCartItemQuantity with a negative delta.       *)
LEMMA RemoveReckoned ==
  ASSUME CartsOneAtATime, Reckoned, Ground', Kept, Frozen, NEW r \in Request,
         NEW u \in User, NEW i \in Item,
         RemoveFromCart(r, u, i) \/ \E q \in Quantity : Decrease(r, u, i, q)
  PROVE  Reckoned'
<1>1. /\ req[r].pc = "new" /\ RunsFor(r, u) /\ server = "up"
      /\ UNCHANGED <<redisVars, mongoVars, exp>> /\ rows' = rows
  <2>1. Arrives(r, u, "remove") \/ Arrives(r, u, "decrease")
    BY DEF RemoveFromCart, Decrease
  <2> QED
    BY <2>1, Arriving DEF RemoveFromCart, Decrease, mongoVars, Reckoned
<1>2. /\ Others(r) /\ req'[r].user = u
      /\ \/ req'[r].pc = "get"
         \/ req'[r].pc = "release" /\ req'[r].todo = FindInCart(u, i)
  BY RemoveFromCartNow, DecreaseNow, GroundParts DEF Becomes, Others, Reckoned, Books
<1>3. \A row \in FindInCart(u, i) : rows[row.id] = row /\ row \in FindByUser(u)
  BY FoundWhere DEF FindInCart, Reckoned, Books
<1>4. Recall(r)'
  <2>1. CASE req'[r].pc = "get"
    BY <1>2, <2>1, EasyRecall DEF CarriesNothing
  <2>2. CASE req'[r].pc = "release" /\ req'[r].todo = FindInCart(u, i)
    <3>1. \A row \in req'[r].todo : Match(row)'
      BY <1>1, <1>3, <2>2 DEF Match
    <3>2. \A x, y \in req'[r].todo : x.id = y.id => x = y
      BY <1>3, <2>2
    <3> QED
      BY <1>2, <2>2, <3>1, <3>2 DEF Recall
  <2> QED
    BY <1>2, <2>1, <2>2
<1>5. Claim(r, u)' = FindByUser(u)
  <2>1. FindByUser(u)' = FindByUser(u)
    BY <1>1, FoundSame
  <2>2. CASE req'[r].pc = "get"
    BY <2>1, <2>2, ClaimFormsNext DEF ClaimForms, Bare
  <2>3. CASE req'[r].pc = "release" /\ req'[r].todo = FindInCart(u, i)
    <3>1. Claim(r, u)' = FindByUser(u)' \cup req'[r].todo
      BY <2>3, ClaimFormsNext DEF ClaimForms
    <3> QED
      BY <1>3, <2>1, <2>3, <3>1
  <2> QED
    BY <1>2, <2>2, <2>3
<1>6. req'[r].pc \notin {"save", "undo"}
  BY <1>2
<1> QED
  BY <1>1, <1>2, <1>4, <1>5, <1>6, ReadingReckoned

(* Checkout.                                                               *)
LEMMA CheckoutReckoned ==
  ASSUME CartsOneAtATime, Reckoned, Ground', Kept, Frozen, NEW r \in Request,
         NEW u \in User, Checkout(r, u)
  PROVE  Reckoned'
<1>1. /\ req[r].pc = "new" /\ RunsFor(r, u) /\ server = "up" /\ orders[r] = {}
      /\ UNCHANGED <<redisVars, mongoVars, exp>> /\ rows' = rows /\ orders' = orders
  <2>1. Arrives(r, u, "checkout")
    BY DEF Checkout
  <2> QED
    BY <2>1, Arriving DEF Checkout, mongoVars, Reckoned
<1>2. /\ Others(r) /\ req'[r].user = u /\ req'[r].pc = "order" /\ req'[r].todo = FindByUser(u)
  BY CheckoutNow, GroundParts DEF Becomes, Others, Reckoned, Books
<1>3. /\ \A row \in FindByUser(u) : rows[row.id] = row
      /\ \A x, y \in FindByUser(u) : x.id = y.id => x = y
  BY FoundWhere, FoundApart DEF Reckoned, Books
<1>4. FindByUser(u)' = FindByUser(u)
  BY <1>1, FoundSame
<1>5. Recall(r)'
  <2>1. \A row \in req'[r].todo : Match(row)'
    BY <1>1, <1>2, <1>3 DEF Match
  <2>2. \A x, y \in req'[r].todo : x.id = y.id => x = y
    BY <1>2, <1>3
  <2> QED
    BY <1>1, <1>2, <1>4, <2>1, <2>2 DEF Recall
<1>6. Claim(r, u)' = FindByUser(u)
  <2>1. Claim(r, u)' = FindByUser(u)' \cup req'[r].todo
    BY <1>2, ClaimFormsNext DEF ClaimForms
  <2> QED
    BY <1>2, <1>4, <2>1
<1>7. req'[r].pc \notin {"save", "undo"}
  BY <1>2
<1> QED
  BY <1>1, <1>2, <1>5, <1>6, <1>7, ReadingReckoned

(* The calls.                                                              *)
LEMMA CallReckoned ==
  ASSUME CartsOneAtATime, Reckoned, Ground', Kept, Frozen, NEW r \in Request, Call(r)
  PROVE  Reckoned'
BY AddToCartReckoned, IncreaseReckoned, RemoveReckoned, CheckoutReckoned DEF Call

(* The steps that change no row and no counter, nor lose a unit.           *)
LEMMA PlainReckoned ==
  ASSUME Reckoned, Ground', Kept, Frozen, NEW r \in Request,
         UndoDrop(r) \/ Survey(r) \/ RefreshKey(r) \/ GetRemaining(r) \/ Emit(r)
  PROVE  Reckoned'
<1>1. /\ server = "up" /\ req[r].pc \in {"undoDrop", "survey", "refresh", "get", "emit"}
      /\ stock' = stock /\ rows' = rows /\ orders' = orders /\ exp' = exp
  BY DEF UndoDrop, Survey, RefreshKey, GetRemaining, Emit, At, mongoVars, redisVars
<1>2. Inv /\ TypeOK /\ Books
  BY GroundParts DEF Reckoned, Books
<1>3. \A c \in Request : key'[c] # None => key[c] # None
  BY <1>2 DEF UndoDrop, Survey, RefreshKey, GetRemaining, Emit, redisVars, Drop, Refresh,
     TypeOK, RedisTypeOK
<1>4. req[r].user \in User /\ RunsFor(r, req[r].user)
  BY <1>1, <1>2, Running DEF InFlight
<1>5. /\ Others(r) /\ req'[r].user = req[r].user
      /\ req'[r].pc \in {"get", "survey", "refresh", "emit", "done"}
  <2>1. CASE UndoDrop(r)
    BY <1>2, <2>1, UndoDropNow DEF Becomes, Others
  <2>2. CASE Survey(r)
    BY <1>2, <2>2, SurveyNow DEF Becomes, Others
  <2>3. CASE RefreshKey(r)
    BY <1>2, <2>3, RefreshKeyNow DEF Becomes, Others
  <2>4. CASE GetRemaining(r)
    BY <1>2, <2>4, GetRemainingNow DEF Becomes, Others
  <2>5. CASE Emit(r)
    BY <1>2, <2>5, EmitNow DEF Finishes, Becomes, Others
  <2> QED
    BY <2>1, <2>2, <2>3, <2>4, <2>5
<1>6. Handling(r, req[r].user)
  BY <1>1, <1>3, <1>4, <1>5, NoRowsTouched DEF Handling, StepFor
<1>7. \A i \in Item : /\ Holds(r, i)' <= Holds(r, i)
                      /\ Settled(i) => Holds(r, i)' = Holds(r, i)
  <2>1. \A i : Holds(r, i) = 0 /\ Holds(r, i)' = 0
    BY <1>1, <1>5, EmptyHands
  <2> QED
    BY <2>1
<1>8. Bare(req[r]) /\ CarriesNothing(req'[r].pc)
  BY <1>1, <1>5 DEF Bare, CarriesNothing
<1> QED
  BY <1>1, <1>4, <1>6, <1>7, <1>8, BareToBare

(* A row that a handler has read, and that is not there any more, is of an *)
(* item that is not settled.                                               *)
LEMMA LostRows ==
  ASSUME Ground, NEW R, \A x \in R : Match(x) /\ x \in CartRow /\ x.id \in Request, NEW w,
         \A x \in R : x.user = w
  PROVE  \A x \in R : x \notin FindByUser(w) => ~Settled(x.item)
<1> SUFFICES ASSUME NEW x \in R, Settled(x.item)
             PROVE  x \in FindByUser(w)
  OBVIOUS
<1>1. rows[x.id] = x
  BY DEF Match
<1>2. x # None
  BY RowAssumption
<1> QED
  BY <1>1, <1>2 DEF FindByUser

(* What a handler has read and carries besides the cart.                   *)
LEMMA LostTodo ==
  ASSUME Ground, NEW r \in Request, Recall(r),
         req[r].pc \in {"release", "drop", "delete", "order", "shrink"}
  PROVE  \A x \in req[r].todo :
           /\ Match(x) /\ x \in CartRow /\ x.id \in Request /\ x.user = req[r].user
           /\ Started(x.id) /\ req[x.id].user = x.user
           /\ x \notin FindByUser(req[r].user) => ~Settled(x.item)
<1>1. \A x \in req[r].todo : Match(x)
  BY DEF Recall
<1>2. \A x \in req[r].todo : /\ x \in CartRow /\ x.id \in Request /\ x.user = req[r].user
                             /\ Started(x.id) /\ req[x.id].user = x.user
  BY TodoRows
<1>3. \A x \in req[r].todo : x \notin FindByUser(req[r].user) => ~Settled(x.item)
  BY <1>1, <1>2, LostRows
<1> QED
  BY <1>1, <1>2, <1>3

(* The row to increase.                                                    *)
LEMMA LostBase ==
  ASSUME Ground, NEW r \in Request, Recall(r), req[r].pc \in {"reserve", "save"}, req[r].base # 0
  PROVE  /\ BaseRow(req[r]) \in CartRow /\ Match(BaseRow(req[r]))
         /\ BaseRow(req[r]) \notin FindByUser(req[r].user) => ~Settled(req[r].item)
<1>1. /\ BaseRow(req[r]) \in CartRow /\ BaseRow(req[r]).id \in Request
      /\ BaseRow(req[r]).user = req[r].user /\ BaseRow(req[r]).item = req[r].item
  BY BaseRowType
<1>2. Match(BaseRow(req[r]))
  BY DEF Recall
<1>3. \A x \in {BaseRow(req[r])} : x \notin FindByUser(req[r].user) => ~Settled(x.item)
  <2> DEFINE R == {BaseRow(req[r])}
  <2>1. /\ \A x \in R : Match(x) /\ x \in CartRow /\ x.id \in Request
        /\ \A x \in R : x.user = req[r].user
    BY <1>1, <1>2
  <2> HIDE DEF R
  <2>2. \A x \in R : x \notin FindByUser(req[r].user) => ~Settled(x.item)
    BY <2>1, LostRows
  <2> QED
    BY <2>2 DEF R
<1> QED
  BY <1>1, <1>2, <1>3

(* What is lost of a handler's claims when it ends short of a row's        *)
(* deletion, an order or a rollback.                                       *)
LEMMA LostClaims ==
  ASSUME Ground, NEW r \in Request, Recall(r),
         Bare(req[r]) \/ req[r].pc \in {"reserve", "save", "release", "order"}
  PROVE  /\ FindByUser(req[r].user) \subseteq Claim(r, req[r].user)
         /\ \A x \in Claim(r, req[r].user) \ FindByUser(req[r].user) : ~Settled(x.item)
<1>1. CASE Bare(req[r])
  BY <1>1, ClaimFormsNow DEF ClaimForms
<1>2. CASE req[r].pc \in {"reserve", "save"} /\ ~Bare(req[r])
  <2>1. req[r].base # 0
    BY <1>2 DEF Bare
  <2>2. Claim(r, req[r].user) = FindByUser(req[r].user) \cup {BaseRow(req[r])}
    BY <1>2, <2>1, ClaimFormsNow DEF ClaimForms
  <2>3. /\ BaseRow(req[r]).item = req[r].item
        /\ BaseRow(req[r]) \notin FindByUser(req[r].user) => ~Settled(req[r].item)
    BY <1>2, <2>1, LostBase DEF BaseRow
  <2> QED
    BY <2>2, <2>3
<1>3. CASE req[r].pc \in {"release", "order"}
  <2>1. Claim(r, req[r].user) = FindByUser(req[r].user) \cup req[r].todo
    BY <1>3, ClaimFormsNow DEF ClaimForms
  <2>2. \A x \in req[r].todo : x \notin FindByUser(req[r].user) => ~Settled(x.item)
    BY <1>3, LostTodo
  <2> QED
    BY <2>1, <2>2
<1> QED
  BY <1>1, <1>2, <1>3

(* A command fails.                                                        *)
LEMMA CommandFailsReckoned ==
  ASSUME CartsOneAtATime, Reckoned, Ground', Kept, Frozen, NEW r \in Request, CommandFails(r)
  PROVE  Reckoned'
<1>1. /\ server = "up" /\ InFlight(r) /\ req[r].pc # "emit" /\ FaultOf(req[r]) \in Faulty
      /\ UNCHANGED <<redisVars, mongoVars, exp>>
  BY DEF CommandFails
<1>2. Inv /\ Books /\ Ground
  BY GroundParts DEF Reckoned, Books
<1> SUFFICES ASSUME NEW w, w = req[r].user
             PROVE  Reckoned'
  OBVIOUS
<1>3. /\ w \in User /\ RunsFor(r, w) /\ Recall(r) /\ req[r] \in Locals
  BY <1>1, <1>2, Running
<1>4. req[r].pc \in {"reserve", "save", "undo", "undoDrop", "get", "release", "survey",
                     "refresh", "order"}
  <2>1. req[r].pc \in Pc
    BY <1>3 DEF Locals
  <2>2. req[r].pc # "save" => req[r].pc \in Faulty
    BY <1>1 DEF FaultOf
  <2> QED
    BY <1>1, <2>1, <2>2 DEF Pc, InFlight, CartsOneAtATime
<1>5. /\ FindByUser(w) \subseteq Claim(r, w)
      /\ \A x \in Claim(r, w) \ FindByUser(w) : ~Settled(x.item)
  <2>1. Bare(req[r]) \/ req[r].pc \in {"reserve", "save", "release", "order"}
    BY <1>4 DEF Bare
  <2> QED
    BY <1>2, <1>3, <2>1, LostClaims
<1>6. CASE /\ req[r].pc = "save" /\ req[r].op = "add"
           /\ Becomes(r, "undo", "add", w, req[r].item, req[r].id, req[r].arg,
                      req[r].base, req[r].todo, req[r].items, req[r].rem)
  <2>1. /\ Others(r) /\ req'[r].user = w /\ req'[r].pc = "undo"
        /\ req'[r].item = req[r].item /\ req'[r].arg = req[r].arg
        /\ stock' = stock /\ rows' = rows /\ orders' = orders /\ key' = key /\ exp' = exp
    BY <1>1, <1>6 DEF Becomes, Others, redisVars, mongoVars
  <2>2. Handling(r, w)
    BY <1>1, <1>3, <2>1, NoRowsTouched DEF Handling, StepFor
  <2>3. \A i \in Item : /\ Holds(r, i)' <= Holds(r, i)
                        /\ Settled(i) => Holds(r, i)' = Holds(r, i)
    <3>1. \A i : Holds(r, i)' = Holds(r, i) /\ Holds(r, i) \in Nat
      BY <1>3, <1>6, <2>1 DEF Holds, Locals
    <3>2. \A n \in Nat : n <= n
      OBVIOUS
    <3> QED
      BY <3>1, <3>2
  <2>4. CarriesNothing(req'[r].pc)
    BY <2>1 DEF CarriesNothing
  <2> QED
    BY <1>3, <1>5, <2>1, <2>2, <2>3, <2>4, BareStep
<1>7. CASE /\ ~(req[r].pc = "save" /\ req[r].op = "add")
           /\ Finishes(r, w, ItemOfId(req[r]))
  <2>1. ASSUME NEW j \in Item, Settled(j) PROVE Holds(r, j) = 0
    <3>1. Lossless
      BY <2>1 DEF Settled
    <3>2. req[r].pc # "undo"
      BY <1>1, <3>1 DEF FaultOf, Lossless
    <3>3. req[r].pc # "save"
      <4>1. req[r].pc = "save" => req[r].op = "increase" /\ req[r].op \in Faulty
        BY <1>1, <1>3, <1>7 DEF Recall, FaultOf
      <4> QED
        BY <3>1, <4>1 DEF Lossless
    <3> QED
      BY <3>2, <3>3, EmptyHands
  <2> QED
    BY <1>1, <1>3, <1>5, <1>7, <2>1, RefusedReckoned
<1> QED
  BY <1>2, <1>6, <1>7, CommandFailsNow

(* Checkout ends when an item of its cart has left the catalogue.          *)
LEMMA CheckoutEnds ==
  ASSUME Reckoned, Ground', Frozen, Kept, NEW r \in Request, At(r, "order"),
         Become(r, Finished(req[r])), UNCHANGED <<redisVars, mongoVars, exp>>
  PROVE  Reckoned'
<1>1. server = "up" /\ req[r].pc = "order" /\ InFlight(r)
  BY DEF At, InFlight
<1>2. Inv /\ Books /\ Ground /\ req \in [Request -> Locals]
  BY GroundParts DEF Reckoned, Books
<1>3. req[r].user \in User /\ RunsFor(r, req[r].user) /\ Recall(r)
  BY <1>1, <1>2, Running
<1>4. /\ FindByUser(req[r].user) \subseteq Claim(r, req[r].user)
      /\ \A x \in Claim(r, req[r].user) \ FindByUser(req[r].user) : ~Settled(x.item)
  BY <1>1, <1>2, <1>3, LostClaims
<1>5. Finishes(r, req[r].user, ItemOfId(req[r]))
  BY <1>2, FinishedNow
<1>6. \A j : Holds(r, j) = 0
  BY <1>1, EmptyHands
<1> QED
  BY <1>1, <1>3, <1>4, <1>5, <1>6, RefusedReckoned

(* The reserve of an increase.                                             *)
LEMMA IncreaseReserveReckoned ==
  ASSUME Reckoned, Ground', Kept, Frozen, NEW r \in Request, IncreaseReserve(r)
  PROVE  Reckoned'
<1>1. /\ server = "up" /\ req[r].pc = "reserve" /\ InFlight(r)
      /\ UNCHANGED <<mongoVars, exp>> /\ rows' = rows /\ orders' = orders /\ exp' = exp
  BY DEF IncreaseReserve, At, InFlight, mongoVars
<1>2. Inv /\ Books /\ Ground
  BY GroundParts DEF Reckoned, Books
<1> SUFFICES ASSUME NEW w, w = req[r].user
             PROVE  Reckoned'
  OBVIOUS
<1>3. w \in User /\ RunsFor(r, w) /\ Recall(r) /\ req[r] \in Locals
  BY <1>1, <1>2, Running
<1>4. \A j : Holds(r, j) = 0
  BY <1>1, EmptyHands
<1>5. CASE /\ Reserve(req[r].item, req[r].id, req[r].arg, r)
           /\ Becomes(r, "save", req[r].op, w, req[r].item, req[r].id, req[r].arg,
                      req[r].base, req[r].todo, req[r].items, stock[req[r].item] - req[r].arg)
  <2>1. /\ Others(r) /\ req'[r].user = w /\ req'[r].pc = "save" /\ req'[r].id = req[r].id
        /\ req'[r].base = req[r].base /\ req'[r].item = req[r].item
        /\ req'[r].arg = req[r].arg /\ req'[r].op = req[r].op
    BY <1>5 DEF Becomes, Others
  <2>2. BaseRow(req[r])' = BaseRow(req[r]) /\ BaseRow(req'[r]) = BaseRow(req[r])
    BY <2>1 DEF BaseRow
  <2>3. Recall(r)'
    <3>1. \A row : Match(row) => Match(row)'
      BY <1>1, FrozenItems DEF Match
    <3>2. Match(BaseRow(req[r])) => Match(BaseRow(req[r]))'
      BY <2>2, <3>1 DEF Match
    <3>3. IF req'[r].base = 0 THEN rows'[req'[r].id] = None ELSE Match(BaseRow(req[r]))'
      BY <1>1, <1>3, <2>1, <3>2 DEF Recall
    <3> QED
      BY <1>1, <1>3, <2>1, <3>3 DEF Recall
  <2>4. req[r].id \in Request /\ Started(req[r].id)
    BY <1>1, <1>2, BaseRowType
  <2>5. \A c \in Request : key'[c] # None => key[c] # None \/ req'[c].pc # "new"
    <3>1. key' = [key EXCEPT ![req[r].id] = r] /\ key \in [Request -> Request \cup {None}]
      BY <1>2, <1>5, GroundParts DEF Reserve, TypeOK, RedisTypeOK
    <3>2. req'[req[r].id].pc # "new"
      BY <2>4 DEF Started, Kept, KeptBy
    <3> QED
      BY <3>1, <3>2
  <2>6. Handling(r, w)
    BY <1>1, <1>3, <2>1, <2>5, NoRowsTouched DEF Handling, StepFor
  <2>7. Claim(r, w)' = Claim(r, w)
    <3>1. FindByUser(w)' = FindByUser(w)
      BY <1>1, FoundSame
    <3>2. CASE req[r].base = 0
      <4>1. Bare(req[r]) /\ Bare(req'[r])
        BY <1>1, <2>1, <3>2 DEF Bare
      <4> QED
        BY <3>1, <4>1, ClaimFormsNow, ClaimFormsNext DEF ClaimForms
    <3>3. CASE req[r].base # 0
      <4>1. Claim(r, w) = FindByUser(w) \cup {BaseRow(req[r])}
        BY <1>1, <3>3, ClaimFormsNow DEF ClaimForms
      <4>2. Claim(r, w)' = FindByUser(w)' \cup {BaseRow(req'[r])}
        BY <2>1, <3>3, ClaimFormsNext DEF ClaimForms
      <4> QED
        BY <2>2, <3>1, <4>1, <4>2
    <3> QED
      BY <3>2, <3>3
  <2>8. \A j : Holds(r, j)' = IF j = req[r].item THEN req[r].arg ELSE 0
    BY <2>1 DEF Holds
  <2>9. req[r].arg \in Nat /\ req[r].item \in Item
    BY <1>1, <1>2, <1>3 DEF Locals, Inv, LocalsOK
  <2>10. stock' = [stock EXCEPT ![req[r].item] = @ - req[r].arg]
    BY <1>5 DEF Reserve
  <2> QED
    BY <1>1, <1>4, <2>3, <2>6, <2>7, <2>8, <2>9, <2>10, TakingStep
<1>6. CASE UNCHANGED redisVars /\ Finishes(r, w, ItemOfId(req[r]))
  <2>1. /\ FindByUser(w) \subseteq Claim(r, w)
        /\ \A x \in Claim(r, w) \ FindByUser(w) : ~Settled(x.item)
    BY <1>1, <1>2, <1>3, LostClaims
  <2> QED
    BY <1>1, <1>3, <1>4, <1>6, <2>1, RefusedReckoned
<1> QED
  BY <1>2, <1>5, <1>6, IncreaseReserveNow

(* A rollback gives units of i back to its counter.                        *)
LEMMA GivingStep ==
  ASSUME Reckoned, Ground', NEW r \in Request, NEW w, Handling(r, w), Recall(r)',
         NEW i \in Item, NEW q \in Nat, stock' = [stock EXCEPT ![i] = @ + q],
         orders' = orders, Claim(r, w)' = Claim(r, w),
         \A j : Holds(r, j)' = 0, \A j : Holds(r, j) = IF j = i THEN q ELSE 0
  PROVE  Reckoned'
<1>1. ASSUME Books' PROVE OwnKept(r, w)
  <2>1. Books /\ stock \in [Item -> Int]
    BY GroundParts DEF Reckoned, Books
  <2>2. \A j \in Item : j # i => stock'[j] = stock[j] /\ Holds(r, j)' = Holds(r, j)
    BY <2>1
  <2>3. stock'[i] + 0 + Holds(r, i)' = stock[i] + 0 + Holds(r, i)
    <3>1. stock'[i] = stock[i] + q /\ stock[i] \in Int
      BY <2>1
    <3>2. Holds(r, i)' = 0 /\ Holds(r, i) = q
      OBVIOUS
    <3> QED
      BY <3>1, <3>2
  <2>4. Worths({}, i, 0)
    BY OneWorths
  <2>5. PICK Q : Q = Claim(r, w)
    OBVIOUS
  <2>6. Claim(r, w) = Q \cup {} /\ Claim(r, w)' = Q \cup {} /\ Q \cap {} = {}
    BY <2>5
  <2>7. 0 \in Nat
    OBVIOUS
  <2> QED
    BY <1>1, <2>1, <2>2, <2>3, <2>4, <2>6, <2>7, OwnRowMoves
<1> QED
  BY <1>1, Reckon

(* The rollback of an AddToCart gives back what it took.                   *)
LEMMA UndoReckoned ==
  ASSUME Reckoned, Ground', Kept, Frozen, NEW r \in Request, Undo(r)
  PROVE  Reckoned'
<1>1. /\ server = "up" /\ req[r].pc = "undo" /\ InFlight(r)
      /\ rows' = rows /\ orders' = orders /\ exp' = exp /\ key' = key
      /\ stock' = [stock EXCEPT ![req[r].item] = @ + req[r].arg]
  BY DEF Undo, At, InFlight, mongoVars, Release
<1>2. Inv /\ Books /\ Ground /\ stock \in [Item -> Int]
  BY GroundParts DEF Reckoned, Books
<1> SUFFICES ASSUME NEW w, w = req[r].user
             PROVE  Reckoned'
  OBVIOUS
<1>3. w \in User /\ RunsFor(r, w) /\ req[r] \in Locals
  BY <1>1, <1>2, Running
<1>4. Others(r) /\ req'[r].user = w /\ req'[r].pc = "undoDrop"
  BY <1>2, UndoNow DEF Becomes, Others
<1>5. Handling(r, w)
  BY <1>1, <1>3, <1>4, NoRowsTouched DEF Handling, StepFor
<1>6. Recall(r)'
  BY <1>3, <1>4, EasyRecall DEF CarriesNothing
<1>7. PICK Q : Q = Claim(r, w)
  OBVIOUS
<1>8. Claim(r, w) = Q \cup {} /\ Claim(r, w)' = Q \cup {} /\ Q \cap {} = {}
  <2>1. FindByUser(w)' = FindByUser(w)
    BY <1>1, FoundSame
  <2>2. Bare(req[r]) /\ Bare(req'[r])
    BY <1>1, <1>4 DEF Bare
  <2>3. Claim(r, w) = FindByUser(w) /\ Claim(r, w)' = FindByUser(w)'
    BY <2>2, ClaimFormsNow, ClaimFormsNext DEF ClaimForms
  <2> QED
    BY <1>7, <2>1, <2>3
<1>9. PICK i, d : i = req[r].item /\ d = req[r].arg
  OBVIOUS
<1>10. d \in Nat /\ i \in Item
  BY <1>1, <1>2, <1>3, <1>9 DEF Locals, Inv, LocalsOK
<1>11. \A j : /\ Holds(r, j) = (IF j = i THEN d ELSE 0)
             /\ Holds(r, j)' = 0
  BY <1>1, <1>4, <1>9 DEF Holds
<1>12. Claim(r, w)' = Claim(r, w) /\ stock' = [stock EXCEPT ![i] = @ + d]
  BY <1>1, <1>8, <1>9
<1> QED
  BY <1>1, <1>5, <1>6, <1>10, <1>11, <1>12, GivingStep

(* Row c of w's cart is written, or deleted.                               *)
LEMMA FoundWritten ==
  ASSUME Ground, NEW c \in Request, NEW w, NEW x, rows' = [rows EXCEPT ![c] = x],
         x # None => x.id = c /\ x.user = w, Started(c), req[c].user = w
  PROVE  /\ FindByUser(w)' = FoundBut(w, c) \cup (IF x = None THEN {} ELSE {x})
         /\ OnlyRowsOf(w)
<1>1. rows \in [Request -> CartRow \cup {None}] /\ \A d \in Request : rows[d] # None => rows[d].id = d
  BY GroundParts
<1>2. \A d \in Request : rows'[d] = IF d = c THEN x ELSE rows[d]
  BY <1>1
<1>3. \A y : y \in FindByUser(w)' <=> \E d \in Request : rows'[d] # None /\ rows'[d].user = w /\ y = rows'[d]
  BY DEF FindByUser
<1>4. \A y : y \in FindByUser(w) <=> \E d \in Request : rows[d] # None /\ rows[d].user = w /\ y = rows[d]
  BY FoundIs
<1>5. ASSUME NEW y, y \in FindByUser(w)'
      PROVE  y \in FoundBut(w, c) \cup (IF x = None THEN {} ELSE {x})
  <2>1. PICK d \in Request : rows'[d] # None /\ rows'[d].user = w /\ y = rows'[d]
    BY <1>3, <1>5
  <2>2. CASE d = c
    BY <1>2, <2>1, <2>2
  <2>3. CASE d # c
    <3>1. y = rows[d] /\ y.id = d /\ y \in FindByUser(w)
      BY <1>1, <1>2, <1>4, <2>1, <2>3
    <3> QED
      BY <2>3, <3>1 DEF FoundBut
  <2> QED
    BY <2>2, <2>3
<1>6. ASSUME NEW y, y \in FoundBut(w, c)
      PROVE  y \in FindByUser(w)'
  <2>1. y \in FindByUser(w) /\ y.id # c
    BY <1>6 DEF FoundBut
  <2>2. PICK d \in Request : rows[d] # None /\ rows[d].user = w /\ y = rows[d]
    BY <1>4, <2>1
  <2>3. d # c
    BY <1>1, <2>1, <2>2
  <2> QED
    BY <1>2, <1>3, <2>2, <2>3
<1>7. x # None => x \in FindByUser(w)'
  BY <1>2, <1>3
<1>8. OnlyRowsOf(w)
  BY <1>2 DEF OnlyRowsOf
<1> QED
  BY <1>5, <1>6, <1>7, <1>8

(* The upsert of the reserved row: the units reserved are now the row's.   *)
LEMMA SaveRowReckoned ==
  ASSUME Reckoned, Ground', Kept, Frozen, NEW r \in Request, SaveRow(r)
  PROVE  Reckoned'
<1>1. /\ server = "up" /\ req[r].pc = "save" /\ InFlight(r)
      /\ stock' = stock /\ orders' = orders /\ exp' = exp /\ key' = key
      /\ SaveCartItem(ReservedRow(req[r]))
  BY DEF SaveRow, At, InFlight, redisVars
<1>2. Inv /\ Books /\ Ground /\ stock \in [Item -> Int]
  BY GroundParts DEF Reckoned, Books
<1> SUFFICES ASSUME NEW w, w = req[r].user
             PROVE  Reckoned'
  OBVIOUS
<1>3. w \in User /\ RunsFor(r, w) /\ Recall(r) /\ req[r] \in Locals
  BY <1>1, <1>2, Running
<1>4. /\ Others(r) /\ req'[r].user = w /\ CarriesNothing(req'[r].pc) /\ Bare(req'[r])
      /\ req'[r].pc \notin {"save", "undo"}
  BY <1>2, SaveRowNow DEF Becomes, Others, AfterSave, CarriesNothing, Bare
<1>5. PICK c, i, a, b, x, o : /\ c = req[r].id /\ i = req[r].item /\ a = req[r].arg /\ b = req[r].base
                              /\ x = ReservedRow(req[r]) /\ o = BaseRow(req[r])
  OBVIOUS
<1>6. c \in Request /\ i \in Item /\ a \in Nat /\ b \in Nat /\ Started(c) /\ req[c].user = w
  BY <1>1, <1>2, <1>3, <1>5, BaseRowType DEF Locals, Inv, LocalsOK
<1>7. /\ x \in CartRow /\ x.id = c /\ x.user = w /\ x.item = i /\ x.qty = b + a
      /\ rows' = [rows EXCEPT ![c] = x] /\ x # None
  BY <1>1, <1>2, <1>5, ReservedRowType, RowAssumption DEF ReservedRow, SaveCartItem
<1>8. FindByUser(w)' = FoundBut(w, c) \cup {x} /\ OnlyRowsOf(w)
  <2>1. Ground /\ rows' = [rows EXCEPT ![c] = x] /\ (x # None => x.id = c /\ x.user = w)
    BY <1>2, <1>7
  <2>2. /\ FindByUser(w)' = FoundBut(w, c) \cup (IF x = None THEN {} ELSE {x})
        /\ OnlyRowsOf(w)
    BY <1>6, <2>1, FoundWritten
  <2> QED
    BY <1>7, <2>2
<1>9. Handling(r, w)
  BY <1>1, <1>3, <1>4, <1>8 DEF Handling, StepFor
<1>10. Recall(r)'
  BY <1>3, <1>4, EasyRecall
<1>11. Claim(r, w)' = FoundBut(w, c) \cup {x}
  BY <1>4, <1>8, ClaimFormsNext DEF ClaimForms
<1>12. \A y \in FoundBut(w, c) : y.id # c
  BY DEF FoundBut
<1>13. PICK A : /\ Claim(r, w) = FoundBut(w, c) \cup A /\ FoundBut(w, c) \cap A = {}
                /\ Worths(A, i, b)
  <2>1. CASE b = 0
    <3>1. rows[c] = None
      BY <1>1, <1>3, <1>5, <2>1 DEF Recall
    <3>2. \A y \in FindByUser(w) : y.id # c
      BY <1>2, <3>1, FoundWhere
    <3>3. Claim(r, w) = FindByUser(w)
      BY <1>1, <1>5, <2>1, ClaimFormsNow DEF ClaimForms, Bare
    <3>4. Claim(r, w) = FoundBut(w, c) \cup {}
      BY <3>2, <3>3 DEF FoundBut
    <3> QED
      BY <1>6, <2>1, <3>4, OneWorths
  <2>2. CASE b # 0
    <3>1. o \in CartRow /\ Match(o) /\ o.id = c /\ o.item = i /\ o.qty = b
      BY <1>1, <1>2, <1>3, <1>5, <2>2, LostBase DEF BaseRow
    <3>2. rows[c] = o \/ rows[c] = None
      BY <3>1 DEF Match
    <3>3. \A y \in FindByUser(w) : y = o \/ y.id # c
      BY <1>2, <3>2, FoundWhere
    <3>4. Claim(r, w) = FindByUser(w) \cup {o}
      BY <1>1, <1>5, <2>2, ClaimFormsNow DEF ClaimForms
    <3>5. Claim(r, w) = FoundBut(w, c) \cup {o}
      BY <3>1, <3>3, <3>4 DEF FoundBut
    <3> QED
      BY <1>12, <3>1, <3>5, OneWorths
  <2> QED
    BY <2>1, <2>2
<1>14. FoundBut(w, c) \cap {x} = {}
  BY <1>7, <1>12
<1>15. /\ \A j \in Item : j # i => stock'[j] = stock[j] /\ Holds(r, j)' = Holds(r, j)
       /\ stock'[i] + (b + a) + Holds(r, i)' = stock[i] + b + Holds(r, i)
  <2>1. \A j : Holds(r, j)' = 0
    BY <1>4, EmptyHands
  <2>2. \A j : Holds(r, j) = IF j = i THEN a ELSE 0
    BY <1>1, <1>5 DEF Holds
  <2>3. stock'[i] = stock[i] /\ stock[i] \in Int /\ Holds(r, i)' = 0 /\ Holds(r, i) = a
    BY <1>1, <1>2, <1>6, <2>1, <2>2
  <2> QED
    BY <1>1, <1>6, <2>1, <2>2, <2>3
<1>16. Worths({x}, i, b + a) /\ b + a \in Nat
  BY <1>6, <1>7, OneWorths
<1>17. ASSUME Books' PROVE OwnKept(r, w)
  <2>1. PICK Q, B, q : Q = FoundBut(w, c) /\ B = {x} /\ q = b + a
    OBVIOUS
  <2>2. /\ Claim(r, w) = Q \cup A /\ Claim(r, w)' = Q \cup B /\ Q \cap A = {} /\ Q \cap B = {}
        /\ Worths(A, i, b) /\ Worths(B, i, q) /\ q \in Nat
        /\ stock'[i] + q + Holds(r, i)' = stock[i] + b + Holds(r, i)
    BY <1>11, <1>13, <1>14, <1>15, <1>16, <2>1
  <2> QED
    BY <1>1, <1>2, <1>6, <1>9, <1>15, <1>17, <2>2, OwnRowMoves
<1> QED
  BY <1>9, <1>10, <1>17, Reckon

(* A step after which what handler r carries is fewer rows, on the same    *)
(* counters.                                                               *)
LEMMA FewerStep ==
  ASSUME Reckoned, Ground', NEW r \in Request, NEW w, Handling(r, w), Recall(r)',
         stock' = stock, orders' = orders, Claim(r, w)' \subseteq Claim(r, w),
         \A x \in Claim(r, w) \ Claim(r, w)' : ~Settled(x.item),
         req[r].pc \notin {"save", "undo"}, req'[r].pc \notin {"save", "undo"}
  PROVE  Reckoned'
<1>1. \A i \in Item : /\ Holds(r, i)' <= Holds(r, i)
                      /\ Settled(i) => Holds(r, i)' = Holds(r, i)
  <2>1. \A i : Holds(r, i) = 0 /\ Holds(r, i)' = 0
    BY EmptyHands
  <2> QED
    BY <2>1
<1>2. Books' => OwnKept(r, w)
  BY <1>1, OwnFewer DEF Reckoned
<1> QED
  BY <1>2, Reckon

(* The key of a released row goes.                                         *)
LEMMA DropKeyReckoned ==
  ASSUME Reckoned, Ground', Kept, Frozen, NEW r \in Request, DropKey(r)
  PROVE  Reckoned'
<1>1. /\ server = "up" /\ req[r].pc = "drop" /\ InFlight(r) /\ Drop(req[r].id)
      /\ stock' = stock /\ orders' = orders /\ exp' = exp /\ rows' = rows
  BY DEF DropKey, At, InFlight, mongoVars
<1>2. Inv /\ TypeOK /\ Books /\ Ground
  BY GroundParts DEF Reckoned, Books
<1> SUFFICES ASSUME NEW w, w = req[r].user
             PROVE  Reckoned'
  OBVIOUS
<1>3. w \in User /\ RunsFor(r, w) /\ Recall(r) /\ req[r] \in Locals
  BY <1>1, <1>2, Running
<1>0. PICK c, T : c = req[r].id /\ T = req[r].todo
  OBVIOUS
<1>4. /\ Others(r) /\ req'[r].user = w /\ req'[r].pc = "delete"
      /\ req'[r].id = c /\ req'[r].todo = T
  BY <1>0, <1>2, DropKeyNow DEF Becomes, Others
<1>5. \A d \in Request : key'[d] # None => key[d] # None
  BY <1>1, <1>2 DEF Drop, TypeOK, RedisTypeOK
<1>6. Handling(r, w)
  BY <1>1, <1>3, <1>4, <1>5, NoRowsTouched DEF Handling, StepFor
<1>7. \A x \in T : Match(x)'
  BY <1>0, <1>1, <1>3, FrozenItems DEF Recall, Match
<1>8. c \in Request /\ req'[c].pc # "new" /\ req'[c].user = w
  BY <1>0, <1>1, <1>3 DEF Recall, Started, Kept, KeptBy
<1>9. Recall(r)'
  <2>1. /\ \A x, y \in T : x.id = y.id => x = y
        /\ \A x \in T : x.id # c
    BY <1>0, <1>1, <1>3 DEF Recall
  <2> QED
    BY <1>3, <1>4, <1>7, <1>8, <2>1 DEF Recall, Started
<1>10. Claim(r, w)' = Claim(r, w)
  <2>1. FoundBut(w, c)' = FoundBut(w, c)
    BY <1>1, FoundSame DEF FoundBut
  <2>2. Claim(r, w) = FoundBut(w, c) \cup T
    BY <1>0, <1>1, ClaimFormsNow DEF ClaimForms
  <2>3. Claim(r, w)' = FoundBut(w, c)' \cup T
    BY <1>4, ClaimFormsNext DEF ClaimForms, FoundBut
  <2> QED
    BY <2>1, <2>2, <2>3
<1> QED
  BY <1>1, <1>4, <1>6, <1>9, <1>10, FewerStep

(* The row goes; its units have been released before.                      *)
LEMMA DeleteRowReckoned ==
  ASSUME Reckoned, Ground', Kept, Frozen, NEW r \in Request, DeleteRow(r)
  PROVE  Reckoned'
<1>1. /\ server = "up" /\ req[r].pc = "delete" /\ InFlight(r) /\ DeleteById(req[r].id)
      /\ stock' = stock /\ orders' = orders /\ exp' = exp /\ key' = key
  BY DEF DeleteRow, At, InFlight, redisVars
<1>2. Inv /\ TypeOK /\ Books /\ Ground
  BY GroundParts DEF Reckoned, Books
<1> SUFFICES ASSUME NEW w, w = req[r].user
             PROVE  Reckoned'
  OBVIOUS
<1>3. w \in User /\ RunsFor(r, w) /\ Recall(r) /\ req[r] \in Locals
  BY <1>1, <1>2, Running
<1>4. PICK c, T : c = req[r].id /\ T = req[r].todo
  OBVIOUS
<1>5. /\ c \in Request /\ Started(c) /\ req[c].user = w /\ rows' = [rows EXCEPT ![c] = None]
      /\ \A x \in T : x.id # c /\ Match(x)
      /\ \A x, y \in T : x.id = y.id => x = y
  BY <1>1, <1>3, <1>4 DEF Recall, DeleteById
<1>6. FindByUser(w)' = FoundBut(w, c) /\ OnlyRowsOf(w)
  <2>1. PICK x : x = None
    OBVIOUS
  <2>2. /\ c \in Request /\ Started(c) /\ req[c].user = w
        /\ Ground /\ rows' = [rows EXCEPT ![c] = x] /\ (x # None => x.id = c /\ x.user = w)
    BY <1>2, <1>5, <2>1
  <2>3. /\ FindByUser(w)' = FoundBut(w, c) \cup (IF x = None THEN {} ELSE {x})
        /\ OnlyRowsOf(w)
    BY <2>2, FoundWritten
  <2> QED
    BY <2>1, <2>3
<1>7. /\ Others(r) /\ req'[r].user = w
      /\ \/ req'[r].pc = "release" /\ req'[r].todo = T
         \/ req'[r].pc \in {"emit", "survey"}
  BY <1>2, <1>4, DeleteRowNow DEF Becomes, Others
<1>8. Handling(r, w)
  BY <1>1, <1>3, <1>6, <1>7 DEF Handling, StepFor
<1>9. Claim(r, w) = FoundBut(w, c) \cup T
  BY <1>1, <1>4, ClaimFormsNow DEF ClaimForms
<1>10. CASE req'[r].pc = "release" /\ req'[r].todo = T
  <2>1. \A x \in T : Match(x)'
    <3>1. rows \in [Request -> CartRow \cup {None}] /\ \A x \in T : x.id \in Request
      BY <1>1, <1>2, <1>3, <1>4, GroundParts, LostTodo
    <3> QED
      BY <1>5, <3>1, FrozenItems DEF Match
  <2>2. Recall(r)'
    BY <1>3, <1>5, <1>7, <1>10, <2>1 DEF Recall
  <2>3. Claim(r, w)' = Claim(r, w)
    BY <1>6, <1>9, <1>10, ClaimFormsNext DEF ClaimForms
  <2> QED
    BY <1>1, <1>8, <1>10, <2>2, <2>3, FewerStep
<1>11. CASE req'[r].pc \in {"emit", "survey"}
  <2>1. Recall(r)'
    BY <1>3, <1>7, <1>11, EasyRecall DEF CarriesNothing
  <2>2. Claim(r, w)' = FoundBut(w, c)
    BY <1>6, <1>11, ClaimFormsNext DEF ClaimForms, Bare
  <2>3. \A x \in T : x \notin FoundBut(w, c) => ~Settled(x.item)
    <3>1. \A x \in T : x \notin FindByUser(w) => ~Settled(x.item)
      BY <1>1, <1>2, <1>3, <1>4, LostTodo
    <3> QED
      BY <1>5, <3>1 DEF FoundBut
  <2>4. /\ Claim(r, w)' \subseteq Claim(r, w)
        /\ \A x \in Claim(r, w) \ Claim(r, w)' : ~Settled(x.item)
    BY <1>9, <2>2, <2>3
  <2> QED
    BY <1>1, <1>8, <1>11, <2>1, <2>4, FewerStep
<1> QED
  BY <1>7, <1>10, <1>11

(* The row that lost units is written with what is left.                   *)
LEMMA ShrinkRowReckoned ==
  ASSUME Reckoned, Ground', Kept, Frozen, NEW r \in Request, ShrinkRow(r)
  PROVE  Reckoned'
<1>1. /\ server = "up" /\ req[r].pc = "shrink" /\ InFlight(r)
      /\ SaveCartItem(ShrunkRow(req[r]))
      /\ stock' = stock /\ orders' = orders /\ exp' = exp /\ key' = key
  BY DEF ShrinkRow, At, InFlight, redisVars
<1>2. Inv /\ TypeOK /\ Books /\ Ground
  BY GroundParts DEF Reckoned, Books
<1> SUFFICES ASSUME NEW w, w = req[r].user
             PROVE  Reckoned'
  OBVIOUS
<1>3. w \in User /\ RunsFor(r, w) /\ Recall(r) /\ req[r] \in Locals
  BY <1>1, <1>2, Running
<1>4. PICK c, T, x : c = req[r].id /\ T = req[r].todo /\ x = ShrunkRow(req[r])
  OBVIOUS
<1>5. /\ c \in Request /\ Started(c) /\ req[c].user = w /\ rows' = [rows EXCEPT ![c] = x]
      /\ x \in CartRow /\ x.id = c /\ x.user = w /\ x # None
  BY <1>1, <1>2, <1>4, BaseRowType, RowAssumption DEF SaveCartItem
<1>6. FindByUser(w)' = FoundBut(w, c) \cup {x} /\ OnlyRowsOf(w)
  <2>1. /\ c \in Request /\ Started(c) /\ req[c].user = w
        /\ Ground /\ rows' = [rows EXCEPT ![c] = x] /\ (x # None => x.id = c /\ x.user = w)
    BY <1>2, <1>5
  <2>2. /\ FindByUser(w)' = FoundBut(w, c) \cup (IF x = None THEN {} ELSE {x})
        /\ OnlyRowsOf(w)
    BY <2>1, FoundWritten
  <2> QED
    BY <1>5, <2>2
<1>7. Others(r) /\ req'[r].user = w /\ req'[r].pc = "survey"
  BY <1>2, ShrinkRowNow DEF Becomes, Others
<1>8. Handling(r, w)
  BY <1>1, <1>3, <1>6, <1>7 DEF Handling, StepFor
<1>9. Claim(r, w) = FoundBut(w, c) \cup {x} \cup {y \in T : y.id # c}
  BY <1>1, <1>4, ClaimFormsNow DEF ClaimForms
<1>10. Recall(r)'
  BY <1>3, <1>7, EasyRecall DEF CarriesNothing
<1>11. Claim(r, w)' = FoundBut(w, c) \cup {x}
  BY <1>6, <1>7, ClaimFormsNext DEF ClaimForms, Bare
<1>12. \A y \in T : y.id # c /\ y \notin FoundBut(w, c) => ~Settled(y.item)
  <2>1. \A y \in T : y \notin FindByUser(w) => ~Settled(y.item)
    BY <1>1, <1>2, <1>3, <1>4, LostTodo
  <2> QED
    BY <2>1 DEF FoundBut
<1>13. /\ Claim(r, w)' \subseteq Claim(r, w)
       /\ \A y \in Claim(r, w) \ Claim(r, w)' : ~Settled(y.item)
  BY <1>9, <1>11, <1>12
<1> QED
  BY <1>1, <1>7, <1>8, <1>10, <1>13, FewerStep

(* A row is its fields.                                                    *)
LEMMA RowFields ==
  ASSUME NEW x \in CartRow
  PROVE  x = [id |-> x.id, user |-> x.user, item |-> x.item, qty |-> x.qty]
BY DEF CartRow

(* The release of a row, whole or in part.                                 *)
LEMMA ReleaseRowReckoned ==
  ASSUME Reckoned, Ground', Kept, Frozen, NEW r \in Request, ReleaseRow(r)
  PROVE  Reckoned'
<1>1. /\ server = "up" /\ req[r].pc = "release" /\ InFlight(r)
      /\ rows' = rows /\ orders' = orders /\ exp' = exp /\ key' = key
  BY DEF ReleaseRow, At, InFlight, mongoVars
<1>2. Inv /\ TypeOK /\ Books /\ Ground /\ stock \in [Item -> Int] /\ Separated
  BY GroundParts DEF Reckoned, Books
<1> SUFFICES ASSUME NEW w, w = req[r].user
             PROVE  Reckoned'
  OBVIOUS
<1>3. w \in User /\ RunsFor(r, w) /\ Recall(r) /\ req[r] \in Locals
  BY <1>1, <1>2, Running
<1>4. PICK row \in req[r].todo :
        LET q == ReleasedQty(req[r], row)
        IN  /\ Release(row.item, q)
            /\ \/ /\ Whole(req[r], row)
                  /\ Becomes(r, "drop", req[r].op, req[r].user, req[r].item, row.id,
                             NeedAfter(req[r], q), req[r].base, req[r].todo \ {row},
                             req[r].items, stock[row.item] + q)
               \/ /\ ~Whole(req[r], row)
                  /\ Becomes(r, "shrink", req[r].op, req[r].user, req[r].item, row.id,
                             req[r].arg, row.qty, req[r].todo, req[r].items,
                             stock[row.item] + q)
  BY <1>2, ReleaseRowNow
<1>5. PICK c, i, a, b, T : /\ c = row.id /\ i = row.item /\ a = req[r].arg /\ b = row.qty
                           /\ T = req[r].todo
  OBVIOUS
<1>6. /\ row \in T /\ row \in CartRow /\ c \in Request /\ i \in Item /\ a \in Nat /\ b \in Nat
      /\ row.user = w /\ Started(c) /\ req[c].user = w /\ i = req[r].item
      /\ rows[c] = row \/ rows[c] = None
  <2>1. /\ Match(row) /\ row \in CartRow /\ row.id \in Request /\ row.user = req[r].user
        /\ Started(row.id) /\ req[row.id].user = row.user
    BY <1>1, <1>2, <1>3, LostTodo
  <2>2. row.item = req[r].item
    BY <1>1, <1>2 DEF Separated, AllLocalsOwned, LocalsOwned
  <2> QED
    BY <1>3, <1>5, <2>1, <2>2 DEF CartRow, Locals, Match
<1>7. /\ Others(r) /\ req'[r].user = w /\ req'[r].id = c
      /\ req'[r].pc \in {"drop", "shrink"}
  BY <1>4, <1>5 DEF Becomes, Others
<1>8. Handling(r, w)
  BY <1>1, <1>3, <1>7, NoRowsTouched DEF Handling, StepFor
<1>9. /\ \A x \in T : Match(x)' /\ x \in CartRow
      /\ \A x, y \in T : x.id = y.id => x = y
  <2>1. \A x \in T : Match(x) /\ x \in CartRow
    BY <1>1, <1>2, <1>3, <1>5, LostTodo
  <2> QED
    BY <1>1, <1>3, <1>5, <2>1, FrozenItems DEF Recall, Match
<1>10. PICK Q : Q = FoundBut(w, c) \cup (T \ {row})
  OBVIOUS
<1>11. Claim(r, w) = Q \cup {row} /\ \A x \in Q : x.id # c
  <2>1. Claim(r, w) = FindByUser(w) \cup T
    BY <1>1, <1>5, ClaimFormsNow DEF ClaimForms
  <2>2. \A x \in FindByUser(w) : x = row \/ x.id # c
    BY <1>2, <1>6, FoundWhere
  <2>3. \A x \in T : x = row \/ x.id # c
    BY <1>5, <1>6, <1>9
  <2> QED
    BY <1>5, <1>6, <1>9, <1>10, <2>1, <2>2, <2>3 DEF FoundBut
<1>12. FoundBut(w, c)' = FoundBut(w, c)
  BY <1>1, FoundSame DEF FoundBut
<1>13. c \in Request /\ Started(c)' /\ req'[c].user = w
  BY <1>6 DEF Started, Kept, KeptBy
<1>14. \A j : Holds(r, j) = 0 /\ Holds(r, j)' = 0
  BY <1>1, <1>7, EmptyHands
<1>15. CASE Whole(req[r], row) /\ req'[r].pc = "drop" /\ req'[r].todo = T \ {row}
            /\ stock' = [stock EXCEPT ![i] = @ + b]
  <2>1. Recall(r)'
    BY <1>3, <1>5, <1>6, <1>7, <1>9, <1>13, <1>15 DEF Recall
  <2>2. Claim(r, w)' = Q
    <3>1. Claim(r, w)' = FoundBut(w, c)' \cup (T \ {row})
      BY <1>7, <1>15, ClaimFormsNext DEF ClaimForms, FoundBut
    <3> QED
      BY <1>10, <1>12, <3>1
  <2>3. ASSUME Books' PROVE OwnKept(r, w)
    <3>1. PICK A, B, z : A = {row} /\ B = {} /\ z = 0
      OBVIOUS
    <3>2. /\ Claim(r, w) = Q \cup A /\ Claim(r, w)' = Q \cup B /\ Q \cap A = {} /\ Q \cap B = {}
      BY <1>5, <1>11, <2>2, <3>1
    <3>3. Worths(A, i, b) /\ Worths(B, i, z) /\ z \in Nat
      BY <1>5, <1>6, <3>1, OneWorths
    <3>4. \A j \in Item : j # i => stock'[j] = stock[j] /\ Holds(r, j)' = Holds(r, j)
      BY <1>2, <1>14, <1>15
    <3>5. stock'[i] + z + Holds(r, i)' = stock[i] + b + Holds(r, i)
      <4>1. stock'[i] = stock[i] + b /\ stock[i] \in Int
        BY <1>2, <1>6, <1>15
      <4>2. Holds(r, i)' = 0 /\ Holds(r, i) = 0
        BY <1>14
      <4> QED
        BY <1>6, <3>1, <4>1, <4>2
    <3>6. Books /\ orders' = orders
      BY <1>1, <1>2
    <3> QED
      BY <1>6, <1>8, <2>3, <3>2, <3>3, <3>4, <3>5, <3>6, OwnRowMoves
  <2> QED
    BY <1>8, <2>1, <2>3, Reckon
<1>16. CASE /\ ~Whole(req[r], row) /\ req'[r].pc = "shrink" /\ req'[r].todo = T
            /\ req'[r].arg = a /\ req'[r].base = b /\ req'[r].item = req[r].item
            /\ stock' = [stock EXCEPT ![i] = @ + a]
  <2>1. PICK x : x = ShrunkRow(req'[r])
    OBVIOUS
  <2>2. a < b
    BY <1>5, <1>6, <1>16 DEF Whole
  <2>3. b - a \in Nat \ {0}
    BY <1>6, <2>2
  <2>4. x \in CartRow /\ x.id = c /\ x.item = i /\ x.qty = b - a
    BY <1>3, <1>6, <1>7, <1>16, <2>1, <2>3 DEF ShrunkRow, CartRow
  <2>5. BaseRow(req'[r]) = row
    BY <1>5, <1>6, <1>7, <1>16, RowFields DEF BaseRow
  <2>6. Recall(r)'
    <3>1. BaseRow(req[r])' \in T
      BY <1>6, <2>5 DEF BaseRow
    <3> QED
      BY <1>3, <1>7, <1>9, <1>16, <3>1 DEF Recall
  <2>7. Claim(r, w)' = Q \cup {x}
    <3>1. Claim(r, w)' = FoundBut(w, c)' \cup {x} \cup {y \in T : y.id # c}
      <4>1. Claim(r, w)' = FoundBut(w, req[r].id)' \cup {ShrunkRow(req[r])'}
                             \cup {y \in req'[r].todo : y.id # req'[r].id}
        BY <1>16, ClaimFormsNext DEF ClaimForms
      <4>2. FoundBut(w, req[r].id)' = FoundBut(w, c)'
        BY <1>7 DEF FoundBut
      <4>3. ShrunkRow(req[r])' = x
        BY <2>1 DEF ShrunkRow
      <4> QED
        BY <1>7, <1>16, <4>1, <4>2, <4>3
    <3>2. {y \in T : y.id # c} = T \ {row}
      BY <1>5, <1>6, <1>9
    <3> QED
      BY <1>10, <1>12, <3>1, <3>2
  <2>8. ASSUME Books' PROVE OwnKept(r, w)
    <3>1. PICK A, B, z : A = {row} /\ B = {x} /\ z = b - a
      OBVIOUS
    <3>2. /\ Claim(r, w) = Q \cup A /\ Claim(r, w)' = Q \cup B /\ Q \cap A = {} /\ Q \cap B = {}
      BY <1>5, <1>11, <2>4, <2>7, <3>1
    <3>3. Worths(A, i, b) /\ Worths(B, i, z) /\ z \in Nat
      BY <1>5, <1>6, <2>3, <2>4, <3>1, OneWorths
    <3>4. \A j \in Item : j # i => stock'[j] = stock[j] /\ Holds(r, j)' = Holds(r, j)
      BY <1>2, <1>14, <1>16
    <3>5. stock'[i] + z + Holds(r, i)' = stock[i] + b + Holds(r, i)
      <4>1. stock'[i] = stock[i] + a /\ stock[i] \in Int
        BY <1>2, <1>6, <1>16
      <4>2. Holds(r, i)' = 0 /\ Holds(r, i) = 0
        BY <1>14
      <4> QED
        BY <1>6, <3>1, <4>1, <4>2
    <3>6. Books /\ orders' = orders
      BY <1>1, <1>2
    <3> QED
      BY <1>6, <1>8, <2>8, <3>2, <3>3, <3>4, <3>5, <3>6, OwnRowMoves
  <2> QED
    BY <1>8, <2>6, <2>8, Reckon
<1> QED
  BY <1>4, <1>5, <1>15, <1>16 DEF Becomes, Release, ReleasedQty

(* An order sells the units of its rows.                                   *)
LEMMA OrderSells ==
  ASSUME Ground, NEW r \in Request, orders[r] = {}, NEW T, Billable(T),
         orders' = [orders EXCEPT ![r] = T]
  PROVE  \A j : Sold(j)' = Sold(j) + UnitsIn(T, j)
<1> SUFFICES ASSUME NEW j PROVE Sold(j)' = Sold(j) + UnitsIn(T, j)
  OBVIOUS
<1> DEFINE U == UnitsOf({row \in T : row.item = j})
           A == SoldUnits(j)
<1>1. IsFiniteSet(U) /\ IsFiniteSet(A)
  <2>1. IsFiniteSet(A)
    BY SoldNumber
  <2> DEFINE R == {row \in T : row.item = j}
  <2>2. R \in SUBSET T
    OBVIOUS
  <2> HIDE DEF R
  <2>3. Billable(R)
    BY <2>2, FewerRows
  <2>4. IsFiniteSet(UnitsOf(R))
    BY <2>3, UnitsFinite DEF Billable
  <2> QED
    BY <2>1, <2>4 DEF R
<1>2. orders'[r] = T /\ \A s \in Request \ {r} : orders'[s] = orders[s]
  BY GroundParts
<1> DEFINE S(s) == {s} \X UnitsOf({row \in orders[s] : row.item = j})
           V(s) == {s} \X UnitsOf({row \in orders'[s] : row.item = j})
<1>3. S(r) = {}
  BY DEF UnitsOf
<1>4. V(r) = {r} \X U
  BY <1>2
<1>5. \A s \in Request \ {r} : V(s) = S(s)
  BY <1>2
<1>6. SoldUnits(j)' = UNION {V(s) : s \in Request}
  BY DEF SoldUnits, UnitsOf
<1>7. A = UNION {S(s) : s \in Request}
  BY DEF SoldUnits
<1>8. \A s \in Request : \A z \in S(s) : z[1] = s
  OBVIOUS
<1> HIDE DEF S, V, U
<1>9. SoldUnits(j)' = A \cup ({r} \X U)
  <2> HIDE DEF A
  <2> QED
    BY <1>3, <1>4, <1>5, <1>6, <1>7
<1>10. A \cap ({r} \X U) = {}
  <2> HIDE DEF A
  <2> QED
    BY <1>3, <1>7, <1>8
<1> HIDE DEF A
<1>11. Cardinality(A \cup ({r} \X U)) = Cardinality(A) + Cardinality(U)
  BY <1>1, <1>10, OneOrder
<1>12. Sold(j)' = Cardinality(SoldUnits(j)')
  BY Zenon DEF Sold
<1>13. Sold(j)' = Cardinality(A) + Cardinality(U)
  BY <1>9, <1>11, <1>12, Zenon
<1>14. UnitsIn(T, j) = Cardinality(U)
  BY Zenon DEF UnitsIn, QtyOf, RowsOf, U
<1> QED
  BY <1>13, <1>14, Zenon DEF Sold, A

(* The creation of the order sells all that the user holds.                *)
LEMMA SaveOrderReckoned ==
  ASSUME Reckoned, Ground', Kept, Frozen, NEW r \in Request, SaveOrder(r)
  PROVE  Reckoned'
<1>1. /\ server = "up" /\ req[r].pc = "order" /\ InFlight(r)
      /\ stock' = stock /\ rows' = rows /\ exp' = exp /\ key' = key
  BY DEF SaveOrder, At, InFlight, redisVars
<1>2. Inv /\ TypeOK /\ Books /\ Ground
  BY GroundParts DEF Reckoned, Books
<1> SUFFICES ASSUME NEW w, w = req[r].user
             PROVE  Reckoned'
  OBVIOUS
<1>3. w \in User /\ RunsFor(r, w) /\ Recall(r) /\ req[r] \in Locals
  BY <1>1, <1>2, Running
<1>4. PICK T : T = req[r].todo
  OBVIOUS
<1>5. orders' = [orders EXCEPT ![r] = T] /\ orders[r] = {} /\ FindByUser(w) \subseteq T
  BY <1>1, <1>3, <1>4 DEF Recall, SaveOrder
<1>6. orders'[r] = T /\ \A s \in Request : s # r => orders'[s] = orders[s]
  BY <1>2, <1>5, GroundParts
<1>7. Others(r) /\ req'[r].user = w /\ req'[r].pc = "clear"
  BY <1>2, SaveOrderNow DEF Becomes, Others
<1>8. Handling(r, w)
  BY <1>1, <1>3, <1>6, <1>7, NoRowsTouched DEF Handling, StepFor
<1>9. FindByUser(w)' = FindByUser(w)
  BY <1>1, FoundSame
<1>10. Recall(r)'
  BY <1>3, <1>5, <1>6, <1>7, <1>9 DEF Recall
<1>11. Claim(r, w) = T
  <2>1. Claim(r, w) = FindByUser(w) \cup T
    BY <1>1, <1>4, ClaimFormsNow DEF ClaimForms
  <2> QED
    BY <1>5, <2>1
<1>12. Claim(r, w)' = {}
  <2>1. Claim(r, w)' = {x \in FindByUser(w)' : ~\E row \in orders'[r] : row.id = x.id}
    BY <1>7, ClaimFormsNext DEF ClaimForms
  <2> QED
    BY <1>5, <1>6, <1>9, <2>1
<1>13. \A j : Holds(r, j)' = Holds(r, j)
  <2>1. \A j : Holds(r, j)' = 0 /\ Holds(r, j) = 0
    BY <1>1, <1>7, EmptyHands
  <2> QED
    BY <2>1
<1>14. ASSUME Books' PROVE OwnKept(r, w)
  <2>1. Billable(Claim(r, w))
    BY <1>2, <1>8, <1>14, OwnBillable
  <2>2. \A j : Sold(j)' = Sold(j) + UnitsIn(T, j)
    BY <1>2, <1>5, <1>11, <2>1, OrderSells
  <2>3. \A j \in Item : Sold(j)' = Sold(j) + UnitsIn(Claim(r, w), j)
    BY <1>11, <2>2
  <2> QED
    BY <1>1, <1>2, <1>8, <1>12, <1>13, <1>14, <2>3, OwnSold
<1> QED
  BY <1>8, <1>10, <1>14, Reckon

(* The keys of the ordered rows go.                                        *)
LEMMA ClearKeyReckoned ==
  ASSUME Reckoned, Ground', Kept, Frozen, NEW r \in Request, ClearKey(r)
  PROVE  Reckoned'
<1>1. /\ server = "up" /\ req[r].pc = "clear" /\ InFlight(r)
      /\ stock' = stock /\ rows' = rows /\ exp' = exp /\ orders' = orders
  BY DEF ClearKey, At, InFlight, mongoVars
<1>2. Inv /\ TypeOK /\ Books /\ Ground
  BY GroundParts DEF Reckoned, Books
<1> SUFFICES ASSUME NEW w, w = req[r].user
             PROVE  Reckoned'
  OBVIOUS
<1>3. w \in User /\ RunsFor(r, w) /\ Recall(r) /\ req[r] \in Locals
  BY <1>1, <1>2, Running
<1>4. \A d \in Request : key'[d] # None => key[d] # None
  BY <1>2 DEF ClearKey, Drop, TypeOK, RedisTypeOK
<1>5. Others(r) /\ req'[r].user = w /\ req'[r].pc \in {"clear", "empty"}
  BY <1>2, ClearKeyNow DEF Becomes, Others
<1>6. Handling(r, w)
  BY <1>1, <1>3, <1>4, <1>5, NoRowsTouched DEF Handling, StepFor
<1>7. FindByUser(w)' = FindByUser(w)
  BY <1>1, FoundSame
<1>8. Recall(r)'
  BY <1>1, <1>3, <1>5, <1>7, FrozenItems DEF Recall
<1>9. Claim(r, w)' = Claim(r, w)
  <2>1. Claim(r, w) = {x \in FindByUser(w) : ~\E row \in orders[r] : row.id = x.id}
    BY <1>1, ClaimFormsNow DEF ClaimForms
  <2>2. Claim(r, w)' = {x \in FindByUser(w)' : ~\E row \in orders'[r] : row.id = x.id}
    BY <1>5, ClaimFormsNext DEF ClaimForms
  <2> QED
    BY <1>1, <1>7, <2>1, <2>2
<1> QED
  BY <1>1, <1>5, <1>6, <1>8, <1>9, FewerStep

(* The ordered rows are deleted, and whatever else was in the cart of an   *)
(* order that a reset has wiped.                                           *)
LEMMA EmptyCartReckoned ==
  ASSUME Reckoned, Ground', Kept, Frozen, NEW r \in Request, EmptyCart(r)
  PROVE  Reckoned'
<1>1. /\ server = "up" /\ req[r].pc = "empty" /\ InFlight(r) /\ DeleteByUser(req[r].user)
      /\ stock' = stock /\ key' = key /\ exp' = exp /\ orders' = orders
  BY DEF EmptyCart, At, InFlight, redisVars
<1>2. Inv /\ TypeOK /\ Books /\ Ground
  BY GroundParts DEF Reckoned, Books
<1> SUFFICES ASSUME NEW w, w = req[r].user
             PROVE  Reckoned'
  OBVIOUS
<1>3. w \in User /\ RunsFor(r, w) /\ Recall(r) /\ req[r] \in Locals
  BY <1>1, <1>2, Running
<1>4. \A c \in Request : /\ rows'[c] # rows[c] => rows[c] # None /\ rows[c].user = w
                         /\ rows'[c] # None => rows'[c].user # w
  BY <1>1 DEF DeleteByUser
<1>5. OnlyRowsOf(w)
  BY <1>2, <1>4, GroundParts DEF OnlyRowsOf
<1>6. Others(r) /\ req'[r].user = w /\ req'[r].pc = "get"
  BY <1>2, EmptyCartNow DEF Becomes, Others
<1>7. Handling(r, w)
  BY <1>1, <1>3, <1>5, <1>6 DEF Handling, StepFor
<1>8. FindByUser(w)' = {}
  BY <1>4 DEF FindByUser
<1>9. Recall(r)'
  BY <1>3, <1>6, EasyRecall DEF CarriesNothing
<1>10. Claim(r, w)' = {}
  BY <1>6, <1>8, ClaimFormsNext DEF ClaimForms, Bare
<1>11. \A x \in Claim(r, w) : ~Settled(x.item)
  <2>1. Claim(r, w) = {x \in FindByUser(w) : ~\E row \in orders[r] : row.id = x.id}
    BY <1>1, ClaimFormsNow DEF ClaimForms
  <2>2. \/ FindByUser(w) \subseteq orders[r]
        \/ \A row \in FindByUser(w) : ~Settled(row.item)
    BY <1>1, <1>3 DEF Recall
  <2> QED
    BY <2>1, <2>2
<1>12. /\ Claim(r, w)' \subseteq Claim(r, w)
       /\ \A x \in Claim(r, w) \ Claim(r, w)' : ~Settled(x.item)
  BY <1>10, <1>11
<1> QED
  BY <1>1, <1>6, <1>7, <1>9, <1>12, FewerStep

(* Every step of a request's handler.                                      *)
LEMMA StepReckoned ==
  ASSUME CartsOneAtATime, Reckoned, Ground', Kept, Frozen, NEW r \in Request, Step(r)
  PROVE  Reckoned'
<1>1. ~SaveRowReplyLost(r)
  BY DEF SaveRowReplyLost, CartsOneAtATime
<1>2. \/ UndoDrop(r) \/ Survey(r) \/ RefreshKey(r) \/ GetRemaining(r) \/ Emit(r)
      \/ IncreaseReserve(r) \/ SaveRow(r) \/ Undo(r) \/ ReleaseRow(r) \/ DropKey(r)
      \/ DeleteRow(r) \/ ShrinkRow(r) \/ SaveOrder(r) \/ ClearKey(r) \/ EmptyCart(r)
      \/ CommandFails(r)
  BY <1>1 DEF Step
<1> QED
  BY <1>2, PlainReckoned, IncreaseReserveReckoned, SaveRowReckoned, UndoReckoned,
     ReleaseRowReckoned, DropKeyReckoned, DeleteRowReckoned, ShrinkRowReckoned,
     SaveOrderReckoned, ClearKeyReckoned, EmptyCartReckoned, CommandFailsReckoned

(* No more is promised of item i, and as much if it is settled.            *)
Upheld(i) ==
  /\ Unopened(i)' => Unopened(i)
  /\ Promised(i)' <= Promised(i)
  /\ Settled(i)' => Settled(i) /\ Promised(i)' = Promised(i)

(* Then the balance is kept.                                               *)
LEMMA Upholds ==
  ASSUME Books, Books', Balanced, \A i \in Item : Upheld(i)
  PROVE  Balanced'
<1> SUFFICES ASSUME NEW i \in Item
             PROVE  /\ Promised(i)' <= Ceiling(i)'
                    /\ Settled(i)' => Promised(i)' = TotalStock[i]
  BY DEF Balanced
<1>1. /\ Promised(i) <= Ceiling(i)
      /\ Settled(i) => Promised(i) = TotalStock[i]
  BY DEF Balanced
<1>2. /\ Promised(i) \in Int /\ Ceiling(i) \in Nat /\ TotalStock[i] \in Nat
      /\ Promised(i)' \in Int /\ Ceiling(i)' \in Nat
      /\ Ceiling(i) <= TotalStock[i]
  BY NumbersNow, NumbersNext DEF NumbersKnown
<1>3. Upheld(i)
  OBVIOUS
<1>4. Ceiling(i) <= Ceiling(i)'
  BY <1>2, <1>3 DEF Upheld, Ceiling
<1> QED
  BY <1>1, <1>2, <1>3, <1>4 DEF Upheld

(* Nothing that counts for item i changes.                                 *)
LEMMA SamePromise ==
  ASSUME Books, Books', NEW i \in Item, stock'[i] = stock[i], Claimed(i)' = Claimed(i),
         Pending(i)' = Pending(i), Sold(i)' = Sold(i)
  PROVE  Promised(i)' = Promised(i) /\ Promised(i)' <= Promised(i)
<1>1. Promised(i)' = stock'[i] + Claimed(i)' + Pending(i)' + Sold(i)'
  BY Zenon DEF Promised
<1>2. Promised(i) = stock[i] + Claimed(i) + Pending(i) + Sold(i)
  BY DEF Promised
<1>3. Promised(i)' = Promised(i)
  BY <1>1, <1>2, Zenon
<1>4. Promised(i) \in Int
  BY NumbersNow DEF NumbersKnown
<1> QED
  BY <1>3, <1>4

(* While handlers and orders stay, so does what is pending and sold, and   *)
(* what handlers carry and have taken.                                     *)
LEMMA SameHandlers ==
  ASSUME req' = req
  PROVE  /\ \A i : Pending(i)' = Pending(i)
         /\ \A r \in Request : Carried(r)' = Carried(r)
         /\ orders' = orders => /\ \A i : Sold(i)' = Sold(i)
                                /\ \A r \in Request : \A c : Taken(r, c)' <=> Taken(r, c)
<1>1. \A i : Pending(i)' = Pending(i)
  <2> SUFFICES ASSUME NEW i PROVE Pending(i)' = Pending(i)
    OBVIOUS
  <2>1. PendingUnits(i)' = PendingUnits(i)
    BY DEF PendingUnits
  <2> QED
    BY <2>1, Zenon DEF Pending
<1>2. \A r \in Request : Carried(r)' = Carried(r)
  BY DEF Carried, BaseRow, ShrunkRow
<1>3. ASSUME orders' = orders PROVE \A i : Sold(i)' = Sold(i)
  <2> SUFFICES ASSUME NEW i PROVE Sold(i)' = Sold(i)
    OBVIOUS
  <2>1. SoldUnits(i)' = SoldUnits(i)
    BY <1>3 DEF SoldUnits, UnitsOf
  <2> QED
    BY <2>1, Zenon DEF Sold
<1>4. ASSUME orders' = orders PROVE \A r \in Request : \A c : Taken(r, c)' <=> Taken(r, c)
  BY <1>4 DEF Taken
<1> QED
  BY <1>1, <1>2, <1>3, <1>4

-----------------------------------------------------------------------------
(* The expiry of a key, in the cart of its user.                           *)

(* The handler of an expired key is alone in the cart of its user.         *)
LEMMA ExpiryAlone ==
  ASSUME Books, NEW h \in exp
  PROVE  /\ h.id \in Request /\ Started(h.id) /\ h \in ExpiryHandler
         /\ \A r \in Request : InFlight(r) => req[r].user # req[h.id].user
         /\ \A r \in Request : ~Taken(r, h.id)
         /\ \A r \in Request : \A x \in Carried(r) : x.id # h.id
         /\ \A g \in exp : req[g.id].user = req[h.id].user => g = h
         /\ server = "up"
<1>1. h.id \in Request /\ Started(h.id) /\ h \in ExpiryHandler
  BY GroundParts DEF Books, ExpiryRecalls, ExpiryHandler
<1>2. /\ \A r \in Request : InFlight(r) => req[r].user # req[h.id].user
      /\ \A g \in exp : req[g.id].user = req[h.id].user => g = h
  BY DEF Books, Alone
<1>3. \A r \in Request : ~Taken(r, h.id)
  BY <1>1, <1>2, WhoseNow DEF Whose
<1>4. \A r \in Request : \A x \in Carried(r) : x.id # h.id
  BY <1>1, <1>2, WhoseNow DEF Whose
<1>5. server = "up"
  BY DEF Books, Booted
<1> QED
  BY <1>1, <1>2, <1>3, <1>4, <1>5

(* A step of the handler of an expired key, which it ends or leaves at its *)
(* next await.                                                             *)
LEMMA ExpiryBooks ==
  ASSUME Books, Ground', Frozen, NEW h \in exp, NEW m, m.id = h.id,
         exp' \subseteq (exp \ {h}) \cup {m}, m.pc = "release" => rows'[h.id] = m.row /\ m.row.id = h.id,
         req' = req, orders' = orders, key' = key,
         NEW w, w = req[h.id].user, OnlyRowsOf(w)
  PROVE  Books'
<1>1. Kept
  BY DEF Kept, KeptBy
<1>2. \A r \in Request : InFlight(r) => req[r].user # w
  BY ExpiryAlone
<1>3. \A g \in exp \ {h} : req[g.id].user # w /\ g.id \in Request
  BY GroundParts DEF Books, Alone, ExpiryHandler
<1>4. Recalls'
  <2> SUFFICES ASSUME NEW s \in Request PROVE Recall(s)'
    BY DEF Recalls
  <2>1. Ground /\ Recalls
    BY DEF Books
  <2> QED
    BY <1>1, <1>2, <2>1, OtherRecalls
<1>5. Alone'
  <2>1. \A g \in exp' : \E f \in exp : f.id = g.id /\ (f = h <=> g = m)
    <3> SUFFICES ASSUME NEW g \in exp' PROVE \E f \in exp : f.id = g.id /\ (f = h <=> g = m)
      OBVIOUS
    <3>1. CASE g = m
      BY <3>1
    <3>2. CASE g # m
      BY <3>2
    <3> QED
      BY <3>1, <3>2
  <2>2. \A r \in Request : InFlight(r)' <=> InFlight(r)
    BY DEF InFlight
  <2>3. \A g, f \in exp' : req[g.id].user = req[f.id].user => g = f
    BY <1>3 DEF Books, Alone
  <2> QED
    BY <2>1, <2>2, <2>3 DEF Books, Alone
<1>6. ExpiryRecalls'
  <2> SUFFICES ASSUME NEW g \in exp'
               PROVE  req'[g.id].pc # "new" /\ (g.pc = "release" => Match(g.row)')
    BY DEF ExpiryRecalls, Started
  <2>1. CASE g = m
    BY <2>1, ExpiryAlone DEF Started, Match
  <2>2. CASE g # m
    <3>1. g \in exp /\ g # h
      BY <2>2
    <3>2. rows'[g.id] = rows[g.id] /\ Started(g.id)
      BY <1>3, <3>1 DEF OnlyRowsOf, Books, ExpiryRecalls
    <3>3. g.pc = "release" => g.row.id = g.id /\ Match(g.row)
      BY <3>1, WhoseNow DEF Whose, Books, ExpiryRecalls
    <3> QED
      BY <3>2, <3>3, FrozenItems DEF Match, Started
  <2> QED
    BY <2>1, <2>2
<1>7. KeysStarted'
  BY DEF Books, KeysStarted, Started
<1>8. Booted'
  <2>1. server = "up"
    BY ExpiryAlone
  <2> QED
    BY <2>1 DEF Booted, Frozen
<1>9. Listing'
  <2>1. admin' = admin /\ items' = items
    BY DEF Frozen
  <2>2. Ids' = Ids /\ Listed(admin.left)' = Listed(admin.left)
    BY <2>1 DEF Ids, Listed
  <2> QED
    BY <2>1, <2>2 DEF Books, Listing
<1> QED
  BY <1>4, <1>5, <1>6, <1>7, <1>8, <1>9 DEF Books

(* The expiry of a key.                                                    *)
LEMMA KeyExpiresBooks ==
  ASSUME CartsOneAtATime, Books, Ground', Frozen, NEW c \in Request, KeyExpires(c)
  PROVE  Books'
<1>1. key[c] # None /\ Idle(req[c].user) /\ Started(c)
  BY DEF KeyExpires, MayExpire, Permitted, CartsOneAtATime, Books, KeysStarted
<1>2. /\ req' = req /\ rows' = rows /\ orders' = orders
      /\ \A d \in Request : key'[d] # None => key[d] # None
  BY GroundParts DEF KeyExpires, TtlPasses, Drop, mongoVars, Books, TypeOK, RedisTypeOK
<1>3. PICK m : exp' \subseteq exp \cup {m} /\ m.id = c /\ m.pc = "find"
               /\ (server # "up" => exp' = exp)
  <2>1. PICK m : m = [id |-> c, by |-> key[c], pc |-> "find", row |-> None, rem |-> 0]
    OBVIOUS
  <2>2. m.id = c /\ m.pc = "find"
    BY <2>1
  <2>3. exp' \subseteq exp \cup {m} /\ (server # "up" => exp' = exp)
    BY <2>1 DEF KeyExpires, Subscribed
  <2> QED
    BY <2>2, <2>3
<1>4. Kept
  BY <1>2 DEF Kept, KeptBy
<1>5. Recalls'
  <2> SUFFICES ASSUME NEW s \in Request PROVE Recall(s)'
    BY DEF Recalls
  <2>1. InFlight(s) => req[s].user # req[c].user
    BY <1>1 DEF Idle
  <2>2. Ground /\ Recalls
    BY DEF Books
  <2>3. OnlyRowsOf(req[c].user)
    BY <1>2, NoRowsTouched
  <2> QED
    BY <1>2, <1>4, <2>1, <2>2, <2>3, OtherRecalls
<1>6. Alone'
  <2>1. \A r \in Request : InFlight(r)' <=> InFlight(r)
    BY <1>2 DEF InFlight
  <2>2. \A h \in exp : req[h.id].user # req[c].user
    BY <1>1 DEF Idle
  <2>3. \A r \in Request : InFlight(r) => req[r].user # req[c].user
    BY <1>1 DEF Idle
  <2> QED
    BY <1>2, <1>3, <2>1, <2>2, <2>3 DEF Books, Alone
<1>7. KeysStarted'
  BY <1>2 DEF Books, KeysStarted, Started
<1>8. ExpiryRecalls'
  <2> SUFFICES ASSUME NEW g \in exp'
               PROVE  req'[g.id].pc # "new" /\ (g.pc = "release" => Match(g.row)')
    BY DEF ExpiryRecalls, Started
  <2>1. CASE g = m
    BY <1>1, <1>2, <1>3, <2>1 DEF Started
  <2>2. CASE g # m
    <3>1. g \in exp
      BY <1>3, <2>2
    <3> QED
      BY <1>2, <3>1, FrozenItems DEF Books, ExpiryRecalls, Match, Started
  <2> QED
    BY <2>1, <2>2
<1>9. Booted'
  BY <1>2, <1>3 DEF Books, Booted, Frozen, KeyExpires, Ids
<1>10. Listing'
  <2>1. admin' = admin /\ items' = items
    BY DEF Frozen
  <2>2. Ids' = Ids /\ Listed(admin.left)' = Listed(admin.left)
    BY <2>1 DEF Ids, Listed
  <2> QED
    BY <2>1, <2>2 DEF Books, Listing
<1> QED
  BY <1>5, <1>6, <1>7, <1>8, <1>9, <1>10 DEF Books

(* The claims of a step that leaves the requests, orders and counters.     *)
LEMMA SameClaims ==
  ASSUME Books, Books', Balanced, Frozen, req' = req, orders' = orders, stock' = stock,
         Claims' = Claims
  PROVE  Balanced'
<1> SUFFICES ASSUME NEW i \in Item PROVE Upheld(i)
  BY Upholds
<1>1. Claimed(i)' = Claimed(i)
  <2>1. Claimed(i)' = UnitsIn(Claims', i)
    BY UnitsNext
  <2>2. Claimed(i) = UnitsIn(Claims, i)
    BY Zenon DEF Claimed, UnitsIn
  <2> QED
    BY <2>1, <2>2, Zenon
<1>2. Pending(i)' = Pending(i) /\ Sold(i)' = Sold(i)
  BY SameHandlers
<1>3. Promised(i)' = Promised(i) /\ Promised(i)' <= Promised(i)
  BY <1>1, <1>2, SamePromise
<1> QED
  BY <1>3, FrozenItems DEF Upheld

(* The expiry of a key changes no claim.                                   *)
LEMMA KeyExpiresReckoned ==
  ASSUME CartsOneAtATime, Reckoned, Ground', Frozen, NEW c \in Request, KeyExpires(c)
  PROVE  Reckoned'
<1>1. Books /\ Books' /\ Balanced
  BY KeyExpiresBooks DEF Reckoned
<1>2. /\ req' = req /\ rows' = rows /\ orders' = orders /\ stock' = stock
  BY DEF KeyExpires, mongoVars
<1>3. PICK m : exp' \subseteq exp \cup {m} /\ exp \subseteq exp' /\ m.pc = "find"
  <2>1. PICK m : m = [id |-> c, by |-> key[c], pc |-> "find", row |-> None, rem |-> 0]
    OBVIOUS
  <2>2. m.id = c /\ m.pc = "find"
    BY <2>1
  <2>3. exp' \subseteq exp \cup {m} /\ exp \subseteq exp'
    BY <2>1 DEF KeyExpires
  <2> QED
    BY <2>2, <2>3
<1>4. /\ \A r \in Request : Carried(r)' = Carried(r)
      /\ \A r \in Request : \A d : Taken(r, d)' <=> Taken(r, d)
  BY <1>2, SameHandlers
<1>5. \A d : Standing(d)' <=> Standing(d)
  BY <1>2, <1>3, <1>4 DEF Standing
<1>6. \A x : x \in Claims' <=> x \in Claims
  <2> SUFFICES ASSUME NEW x PROVE x \in Claims' <=> x \in Claims
    OBVIOUS
  <2> QED
    BY <1>2, <1>3, <1>4, <1>5, ClaimIs, ClaimIsNext
<1>7. Claims' = Claims
  BY <1>6
<1>8. Balanced'
  BY <1>1, <1>2, <1>7, SameClaims
<1> QED
  BY <1>1, <1>8 DEF Reckoned

(* What the handler of an expired key does next.                           *)
LEMMA ExpiryBecomesNow ==
  ASSUME Books, NEW h \in exp, ExpireStep(h), "expire" \notin Faulty
  PROVE  /\ req' = req /\ orders' = orders /\ key' = key
         /\ OnlyRowsOf(req[h.id].user)
         /\ \/ h.pc = "find" /\ rows' = rows /\ stock' = stock /\ rows[h.id] = None
               /\ exp' = exp \ {h}
            \/ /\ h.pc = "find" /\ rows' = rows /\ stock' = stock /\ rows[h.id] # None
               /\ \E m : /\ m.id = h.id /\ m.pc = "release" /\ m.row = rows[h.id]
                         /\ exp' = (exp \ {h}) \cup {m}
            \/ /\ h.pc = "release" /\ rows' = rows
               /\ stock' = [stock EXCEPT ![h.row.item] = @ + h.row.qty]
               /\ \E m : m.id = h.id /\ m.pc = "delete" /\ exp' = (exp \ {h}) \cup {m}
            \/ /\ h.pc = "delete" /\ stock' = stock /\ rows' = [rows EXCEPT ![h.id] = None]
               /\ \E m : m.id = h.id /\ m.pc = "emit" /\ exp' = (exp \ {h}) \cup {m}
            \/ h.pc = "emit" /\ rows' = rows /\ stock' = stock /\ exp' = exp \ {h}
<1>1. h \in ExpiryHandler /\ h.id \in Request /\ Started(h.id)
  BY ExpiryAlone
<1>2. rows \in [Request -> CartRow \cup {None}]
  BY GroundParts DEF Books
<1>3. ExpireFind(h) \/ ExpireRelease(h) \/ ExpireDelete(h) \/ ExpireEmit(h)
  BY DEF ExpireStep, ExpireFails
<1>4. req' = req /\ orders' = orders /\ key' = key
  BY <1>3 DEF ExpireFind, ExpireRelease, ExpireDelete, ExpireEmit, mongoVars, redisVars
<1>5. OnlyRowsOf(req[h.id].user)
  BY <1>1, <1>2, <1>3 DEF ExpireFind, ExpireRelease, ExpireDelete, ExpireEmit, mongoVars,
     DeleteById, OnlyRowsOf
<1>6. CASE ExpireFind(h)
  <2>1. h.pc = "find" /\ rows' = rows /\ stock' = stock
    BY <1>6 DEF ExpireFind, mongoVars, redisVars
  <2>2. CASE rows[h.id] = None
    BY <1>4, <1>5, <1>6, <2>1, <2>2 DEF ExpireFind
  <2>3. CASE rows[h.id] # None
    <3>1. PICK m : m = [h EXCEPT !.pc = "release", !.row = rows[h.id]]
      OBVIOUS
    <3>2. m.id = h.id /\ m.pc = "release" /\ m.row = rows[h.id]
      BY <1>1, <3>1 DEF ExpiryHandler
    <3>3. exp' = (exp \ {h}) \cup {m}
      BY <1>6, <2>3, <3>1 DEF ExpireFind, Advance
    <3> QED
      BY <1>4, <1>5, <2>1, <2>3, <3>2, <3>3
  <2> QED
    BY <2>2, <2>3
<1>7. CASE ExpireRelease(h)
  <2>1. PICK m : m = [h EXCEPT !.pc = "delete", !.rem = stock[h.row.item] + h.row.qty]
    OBVIOUS
  <2>2. m.id = h.id /\ m.pc = "delete"
    BY <1>1, <2>1 DEF ExpiryHandler
  <2>3. exp' = (exp \ {h}) \cup {m}
    BY <1>7, <2>1 DEF ExpireRelease, Advance
  <2>4. h.pc = "release" /\ rows' = rows /\ stock' = [stock EXCEPT ![h.row.item] = @ + h.row.qty]
    BY <1>7 DEF ExpireRelease, Release, mongoVars
  <2> QED
    BY <1>4, <1>5, <2>2, <2>3, <2>4
<1>8. CASE ExpireDelete(h)
  <2>1. PICK m : m = [h EXCEPT !.pc = "emit"]
    OBVIOUS
  <2>2. m.id = h.id /\ m.pc = "emit"
    BY <1>1, <2>1 DEF ExpiryHandler
  <2>3. exp' = (exp \ {h}) \cup {m}
    BY <1>8, <2>1 DEF ExpireDelete, Advance
  <2>4. h.pc = "delete" /\ stock' = stock /\ rows' = [rows EXCEPT ![h.id] = None]
    BY <1>8 DEF ExpireDelete, DeleteById, redisVars
  <2> QED
    BY <1>4, <1>5, <2>2, <2>3, <2>4
<1>9. CASE ExpireEmit(h)
  <2>1. h.pc = "emit" /\ rows' = rows /\ stock' = stock /\ exp' = exp \ {h}
    BY <1>9 DEF ExpireEmit, mongoVars, redisVars
  <2> QED
    BY <1>4, <1>5, <2>1
<1> QED
  BY <1>3, <1>6, <1>7, <1>8, <1>9

(* A step of the handler of an expired key, the release apart, changes no  *)
(* claim.                                                                  *)
LEMMA QuietExpiryReckoned ==
  ASSUME Reckoned, Books', Frozen, NEW h \in exp, h.pc # "release",
         req' = req, orders' = orders, stock' = stock,
         \/ h.pc \in {"find", "emit"} /\ rows' = rows /\ exp' = exp \ {h}
         \/ /\ h.pc = "find" /\ rows' = rows /\ rows[h.id] # None
            /\ \E m : /\ m.id = h.id /\ m.pc = "release" /\ m.row = rows[h.id]
                      /\ exp' = (exp \ {h}) \cup {m}
         \/ /\ h.pc = "delete" /\ rows' = [rows EXCEPT ![h.id] = None]
            /\ \E m : m.id = h.id /\ m.pc = "emit" /\ exp' = (exp \ {h}) \cup {m}
  PROVE  Reckoned'
<1>1. Books /\ Balanced
  BY DEF Reckoned
<1>2. /\ \A r \in Request : Carried(r)' = Carried(r)
      /\ \A r \in Request : \A d : Taken(r, d)' <=> Taken(r, d)
  BY SameHandlers
<1>3. /\ h.id \in Request /\ \A r \in Request : ~Taken(r, h.id)
      /\ \A g \in exp : g.id = h.id => g = h
  BY <1>1, ExpiryAlone
<1>4. Claims' = Claims
  <2>1. CASE h.pc \in {"find", "emit"} /\ rows' = rows /\ exp' = exp \ {h}
    <3>1. \A d : Standing(d)' <=> Standing(d)
      BY <1>2, <2>1 DEF Standing
    <3> SUFFICES ASSUME NEW x PROVE x \in Claims' <=> x \in Claims
      OBVIOUS
    <3> QED
      BY <1>2, <2>1, <3>1, ClaimIs, ClaimIsNext
  <2>2. CASE /\ h.pc = "find" /\ rows' = rows /\ rows[h.id] # None
             /\ \E m : /\ m.id = h.id /\ m.pc = "release" /\ m.row = rows[h.id]
                       /\ exp' = (exp \ {h}) \cup {m}
    <3>1. PICK m : /\ m.id = h.id /\ m.pc = "release" /\ m.row = rows[h.id]
                   /\ exp' = (exp \ {h}) \cup {m}
      BY <2>2
    <3>2. \A d : Standing(d)' <=> Standing(d)
      BY <1>2, <2>2, <3>1 DEF Standing
    <3>3. Standing(h.id)
      BY <1>3, <2>2 DEF Standing
    <3> SUFFICES ASSUME NEW x PROVE x \in Claims' <=> x \in Claims
      OBVIOUS
    <3>4. (\E g \in exp' : g.pc = "release" /\ x = g.row)
            <=> (\E g \in exp : g.pc = "release" /\ x = g.row) \/ x = rows[h.id]
      BY <2>2, <3>1
    <3> QED
      BY <1>2, <1>3, <2>2, <3>2, <3>3, <3>4, ClaimIs, ClaimIsNext
  <2>3. CASE /\ h.pc = "delete" /\ rows' = [rows EXCEPT ![h.id] = None]
             /\ \E m : m.id = h.id /\ m.pc = "emit" /\ exp' = (exp \ {h}) \cup {m}
    <3>1. PICK m : m.id = h.id /\ m.pc = "emit" /\ exp' = (exp \ {h}) \cup {m}
      BY <2>3
    <3>2. rows \in [Request -> CartRow \cup {None}]
      BY <1>1, GroundParts DEF Books
    <3>3. ~Standing(h.id) /\ ~Standing(h.id)'
      BY <1>3, <2>3, <3>2 DEF Standing
    <3>4. \A d \in Request : d # h.id => (Standing(d)' <=> Standing(d)) /\ rows'[d] = rows[d]
      BY <1>2, <2>3, <3>1, <3>2 DEF Standing
    <3> SUFFICES ASSUME NEW x PROVE x \in Claims' <=> x \in Claims
      OBVIOUS
    <3>5. (\E g \in exp' : g.pc = "release" /\ x = g.row)
            <=> (\E g \in exp : g.pc = "release" /\ x = g.row)
      BY <2>3, <3>1
    <3>6. (\E c \in Request : Standing(c)' /\ x = rows'[c])
            <=> (\E c \in Request : Standing(c) /\ x = rows[c])
      BY <3>3, <3>4
    <3> QED
      BY <1>2, <3>5, <3>6, ClaimIs, ClaimIsNext
  <2> QED
    BY <2>1, <2>2, <2>3
<1>5. Balanced'
  BY <1>1, <1>4, SameClaims
<1> QED
  BY <1>5 DEF Reckoned

(* What a release moves from the claims to a counter.                      *)
LEMMA Credited ==
  ASSUME NEW s \in Int, NEW t \in Int, NEW c \in Int, NEW d \in Int, NEW a \in Int,
         NEW p \in Int, NEW n \in Int, t = s + a, c = d + a
  PROVE  t + d + p + n = s + c + p + n
OBVIOUS

(* The handler of an expired key releases its row: the claim on it becomes *)
(* units for sale.                                                         *)
LEMMA ExpireReleaseReckoned ==
  ASSUME Reckoned, Books', Frozen, NEW h \in exp, h.pc = "release",
         req' = req, orders' = orders, rows' = rows,
         stock' = [stock EXCEPT ![h.row.item] = @ + h.row.qty],
         NEW m, m.id = h.id, m.pc = "delete", exp' = (exp \ {h}) \cup {m}
  PROVE  Reckoned'
<1>1. Books /\ Balanced
  BY DEF Reckoned
<1>2. /\ \A r \in Request : Carried(r)' = Carried(r)
      /\ \A r \in Request : \A d : Taken(r, d)' <=> Taken(r, d)
      /\ \A i : Pending(i)' = Pending(i) /\ Sold(i)' = Sold(i)
  BY SameHandlers
<1>3. /\ h.id \in Request /\ \A r \in Request : ~Taken(r, h.id)
      /\ \A r \in Request : \A x \in Carried(r) : x.id # h.id
      /\ \A g \in exp : g.id = h.id => g = h
  BY <1>1, ExpiryAlone
<1>4. PICK c, x : c = h.id /\ x = h.row
  OBVIOUS
<1>5. x \in CartRow /\ x.id = c /\ (rows[c] = x \/ rows[c] = None)
  BY <1>1, <1>4, WhoseNow DEF Whose, Books, ExpiryRecalls, Match
<1>6. \A y : y \in Claims' => y \in Claims /\ y.id # c
  <2> SUFFICES ASSUME NEW y \in Claims' PROVE y \in Claims /\ y.id # c
    OBVIOUS
  <2>1. CASE \E d \in Request : Standing(d)' /\ y = rows'[d]
    <3>1. PICK d \in Request : Standing(d)' /\ y = rows[d]
      BY <2>1
    <3>2. d # c
      BY <1>4, <3>1 DEF Standing
    <3>3. Standing(d)
      BY <1>2, <1>4, <3>1, <3>2 DEF Standing
    <3>4. y.id = d
      BY <1>1, <3>1, <3>3, WhoseNow DEF Whose, Standing
    <3> QED
      BY <3>1, <3>2, <3>3, <3>4, ClaimIs
  <2>2. CASE \E r \in Request : y \in Carried(r)'
    BY <1>2, <1>3, <1>4, <2>2, ClaimIs
  <2>3. CASE \E g \in exp' : g.pc = "release" /\ y = g.row
    <3>1. PICK g \in exp : g.pc = "release" /\ y = g.row /\ g # h
      BY <2>3
    <3>2. y.id = g.id
      BY <1>1, <3>1, WhoseNow DEF Whose
    <3> QED
      BY <1>3, <1>4, <3>1, <3>2, ClaimIs
  <2> QED
    BY <2>1, <2>2, <2>3, ClaimIsNext
<1>7. \A y : y \in Claims => y \in Claims' \/ y = x
  <2> SUFFICES ASSUME NEW y \in Claims, y # x PROVE y \in Claims'
    OBVIOUS
  <2>1. CASE \E d \in Request : Standing(d) /\ y = rows[d]
    <3>1. PICK d \in Request : Standing(d) /\ y = rows[d]
      BY <2>1
    <3>2. d # c
      BY <1>5, <3>1 DEF Standing
    <3>3. Standing(d)'
      BY <1>2, <1>4, <3>1, <3>2 DEF Standing
    <3> QED
      BY <3>1, <3>3, ClaimIsNext
  <2>2. CASE \E r \in Request : y \in Carried(r)
    BY <1>2, <2>2, ClaimIsNext
  <2>3. CASE \E g \in exp : g.pc = "release" /\ y = g.row
    <3>1. PICK g \in exp : g.pc = "release" /\ y = g.row
      BY <2>3
    <3>2. g \in exp'
      BY <1>4, <3>1
    <3> QED
      BY <3>1, <3>2, ClaimIsNext
  <2> QED
    BY <2>1, <2>2, <2>3, ClaimIs
<1>8. x \in Claims
  BY <1>4, ClaimIs
<1>9. PICK Q : Q = Claims'
  OBVIOUS
<1>10. Claims = Q \cup {x} /\ Q \cap {x} = {}
  BY <1>5, <1>6, <1>7, <1>8, <1>9
<1>11. \A i : /\ UnitsIn(Q, i) \in Nat /\ UnitsIn({x}, i) \in Nat
              /\ UnitsIn(Q \cup {x}, i) = UnitsIn(Q, i) + UnitsIn({x}, i)
  <2>1. Billable(Q \cup {x})
    BY <1>1, <1>10, ClaimsBillableNow
  <2> QED
    BY <1>10, <2>1, UnitsAdd
<1>12. \A i : UnitsIn({x}, i) = IF x.item = i THEN x.qty ELSE 0
  BY <1>5, UnitsOfOne
<1>13. x.item \in Item /\ x.qty \in Nat /\ stock \in [Item -> Int]
  BY <1>1, <1>5, GroundParts DEF CartRow, Books
<1>14. ASSUME NEW i \in Item PROVE Upheld(i)
  <2>1. Claimed(i) = UnitsIn(Q, i) + UnitsIn({x}, i)
    <3>1. Claimed(i) = UnitsIn(Claims, i)
      BY Zenon DEF Claimed, UnitsIn
    <3> QED
      BY <1>10, <1>11, <3>1, Zenon
  <2>2. Claimed(i)' = UnitsIn(Q, i)
    BY <1>9, UnitsNext, Zenon
  <2>3. stock'[i] = stock[i] + UnitsIn({x}, i)
    BY <1>4, <1>12, <1>13
  <2>4. /\ stock[i] \in Int /\ Pending(i) \in Int /\ Sold(i) \in Int /\ stock'[i] \in Int
        /\ Claimed(i) \in Int /\ Claimed(i)' \in Int /\ UnitsIn({x}, i) \in Int
        /\ Promised(i) \in Int
    BY <1>1, <1>11, NumbersNow, NumbersNext DEF NumbersKnown
  <2>5. Claimed(i) = Claimed(i)' + UnitsIn({x}, i)
    BY <2>1, <2>2, Zenon
  <2>6. stock'[i] + Claimed(i)' + Pending(i) + Sold(i) = stock[i] + Claimed(i) + Pending(i) + Sold(i)
    BY <2>3, <2>4, <2>5, Credited
  <2>7. Promised(i) = stock[i] + Claimed(i) + Pending(i) + Sold(i)
    BY DEF Promised
  <2>8. Promised(i)' = stock'[i] + Claimed(i)' + Pending(i) + Sold(i)
    BY <1>2, Zenon DEF Promised
  <2>9. Promised(i)' = Promised(i)
    BY <2>6, <2>7, <2>8, Zenon
  <2>10. Promised(i)' <= Promised(i)
    BY <2>4, <2>9
  <2> QED
    BY <2>9, <2>10, FrozenItems DEF Upheld
<1> QED
  BY <1>1, <1>14, Upholds DEF Reckoned

(* Every step of the handler of an expired key.                            *)
LEMMA ExpireStepReckoned ==
  ASSUME CartsOneAtATime, Reckoned, Ground', Frozen, NEW h \in exp, ExpireStep(h)
  PROVE  Reckoned'
<1>1. Books /\ "expire" \notin Faulty
  BY DEF Reckoned, CartsOneAtATime
<1>2. req' = req /\ orders' = orders /\ key' = key /\ OnlyRowsOf(req[h.id].user)
  BY <1>1, ExpiryBecomesNow
<1>3. ASSUME NEW m, m.id = h.id, exp' \subseteq (exp \ {h}) \cup {m},
             m.pc = "release" => rows'[h.id] = m.row /\ m.row.id = h.id
      PROVE  Books'
  BY <1>1, <1>2, <1>3, ExpiryBooks
<1>4. CASE exp' = exp \ {h} /\ h.pc \in {"find", "emit"}
  <2>1. Books'
    BY <1>3, <1>4
  <2>2. rows' = rows /\ stock' = stock
    BY <1>1, <1>4, ExpiryBecomesNow
  <2> QED
    BY <1>2, <1>4, <2>1, <2>2, QuietExpiryReckoned
<1>5. CASE /\ h.pc = "find" /\ rows' = rows /\ stock' = stock /\ rows[h.id] # None
           /\ \E m : /\ m.id = h.id /\ m.pc = "release" /\ m.row = rows[h.id]
                     /\ exp' = (exp \ {h}) \cup {m}
  <2>1. PICK m : /\ m.id = h.id /\ m.pc = "release" /\ m.row = rows[h.id]
                 /\ exp' = (exp \ {h}) \cup {m}
    BY <1>5
  <2>2. rows[h.id].id = h.id
    BY <1>1, <1>5, ExpiryAlone, GroundParts DEF Books
  <2>3. Books'
    BY <1>3, <1>5, <2>1, <2>2
  <2> QED
    BY <1>2, <1>5, <2>3, QuietExpiryReckoned
<1>6. CASE /\ h.pc = "release" /\ rows' = rows
           /\ stock' = [stock EXCEPT ![h.row.item] = @ + h.row.qty]
           /\ \E m : m.id = h.id /\ m.pc = "delete" /\ exp' = (exp \ {h}) \cup {m}
  <2>1. PICK m : m.id = h.id /\ m.pc = "delete" /\ exp' = (exp \ {h}) \cup {m}
    BY <1>6
  <2>2. Books'
    BY <1>3, <2>1
  <2> QED
    BY <1>2, <1>6, <2>1, <2>2, ExpireReleaseReckoned
<1>7. CASE /\ h.pc = "delete" /\ stock' = stock /\ rows' = [rows EXCEPT ![h.id] = None]
           /\ \E m : m.id = h.id /\ m.pc = "emit" /\ exp' = (exp \ {h}) \cup {m}
  <2>1. PICK m : m.id = h.id /\ m.pc = "emit" /\ exp' = (exp \ {h}) \cup {m}
    BY <1>7
  <2>2. Books'
    BY <1>3, <2>1
  <2> QED
    BY <1>2, <1>7, <2>2, QuietExpiryReckoned
<1> QED
  BY <1>1, <1>4, <1>5, <1>6, <1>7, ExpiryBecomesNow

-----------------------------------------------------------------------------
(* The administrator's steps, and the boot's.                              *)

(* What a handler has read stays good while no item becomes settled.       *)
LEMMA RecallStays ==
  ASSUME NEW s \in Request, Recall(s), UNCHANGED <<rows, orders, req>>,
         \A i : Settled(i)' => Settled(i)
  PROVE  Recall(s)'
<1>1. \A row : Match(row) => Match(row)'
  BY DEF Match
<1>2. \A u : FindByUser(u)' = FindByUser(u)
  BY FoundSame
<1>3. BaseRow(req[s])' = BaseRow(req[s])
  BY DEF BaseRow
<1>4. /\ req'[s].pc \in {"reserve", "save"}
           => IF req'[s].base = 0 THEN rows'[req'[s].id] = None ELSE Match(BaseRow(req[s]))'
      /\ req'[s].pc \in {"release", "drop", "delete", "order", "shrink"}
           => /\ \A row \in req'[s].todo : Match(row)'
              /\ \A x, y \in req'[s].todo : x.id = y.id => x = y
  BY <1>1 DEF Recall
<1>5. req'[s].pc \in {"clear", "empty"}
        => \/ FindByUser(req[s].user)' \subseteq orders'[s]
           \/ /\ orders'[s] = {}
              /\ \A row \in FindByUser(req[s].user)' : ~Settled(row.item)'
  BY <1>2 DEF Recall
<1> QED
  BY <1>2, <1>3, <1>4, <1>5 DEF Recall, Started

(* A step that leaves the carts, their handlers and the orders alone, and  *)
(* neither settles nor opens an item.                                      *)
LEMMA QuietBooks ==
  ASSUME Books, Ground', UNCHANGED <<rows, orders, req, exp>>,
         \A c \in Request : key'[c] # None => key[c] # None,
         \A i : Settled(i)' => Settled(i),
         Booted', Listing'
  PROVE  Books'
<1>1. Recalls'
  BY RecallStays DEF Recalls, Books
<1>2. ExpiryRecalls'
  BY DEF ExpiryRecalls, Books, Match, Started
<1>3. Alone' /\ KeysStarted'
  BY DEF Books, Alone, KeysStarted, InFlight, Started
<1> QED
  BY <1>1, <1>2, <1>3 DEF Books

(* Then the claims stay.                                                   *)
LEMMA ClaimedSame ==
  ASSUME UNCHANGED <<rows, orders, req, exp>>
  PROVE  \A i : Claimed(i)' = Claimed(i) /\ Pending(i)' = Pending(i) /\ Sold(i)' = Sold(i)
<1>1. /\ \A r \in Request : Carried(r)' = Carried(r)
      /\ \A r \in Request : \A c : Taken(r, c)' <=> Taken(r, c)
      /\ \A i : Pending(i)' = Pending(i) /\ Sold(i)' = Sold(i)
  BY SameHandlers
<1>2. \A d : Standing(d)' <=> Standing(d)
  BY <1>1 DEF Standing
<1>3. Claims' = Claims
  <2> SUFFICES ASSUME NEW x PROVE x \in Claims' <=> x \in Claims
    OBVIOUS
  <2> QED
    BY <1>1, <1>2, ClaimIs, ClaimIsNext
<1>4. \A i : Claimed(i)' = Claimed(i)
  <2> SUFFICES ASSUME NEW i PROVE Claimed(i)' = Claimed(i)
    OBVIOUS
  <2>1. Claimed(i)' = UnitsIn(Claims', i)
    BY UnitsNext
  <2>2. Claimed(i) = UnitsIn(Claims, i)
    BY Zenon DEF Claimed, UnitsIn
  <2> QED
    BY <1>3, <2>1, <2>2, Zenon
<1> QED
  BY <1>1, <1>4

(* What is promised, in its parts, before and after a step.                *)
PromiseParts ==
  \A i : Promised(i) = stock[i] + Claimed(i) + Pending(i) + Sold(i)

(* They add up by definition.                                              *)
LEMMA PromiseIs == PromiseParts
BY DEF PromiseParts, Promised

(* The same after a step.                                                  *)
LEMMA PromiseIsNext == PromiseParts'
BY PromiseIs, PTL

(* More counted, less for sale: no more is promised.                       *)
LEMMA LessForSale ==
  ASSUME Books, Books', UNCHANGED <<rows, orders, req, exp>>, NEW i \in Item,
         stock'[i] <= stock[i]
  PROVE  Promised(i)' <= Promised(i) /\ (stock'[i] = stock[i] => Promised(i)' = Promised(i))
<1>1. Claimed(i)' = Claimed(i) /\ Pending(i)' = Pending(i) /\ Sold(i)' = Sold(i)
  BY ClaimedSame
<1>2. PICK s \in Int, t \in Int, c \in Int, p \in Int, n \in Int :
        s = stock[i] /\ t = stock'[i] /\ c = Claimed(i) /\ p = Pending(i) /\ n = Sold(i)
  BY NumbersNow, NumbersNext DEF NumbersKnown
<1>3. Promised(i) = s + c + p + n
  BY <1>2, PromiseIs, Zenon DEF PromiseParts
<1>4. Promised(i)' = t + c + p + n
  BY <1>1, <1>2, PromiseIsNext, Zenon DEF PromiseParts
<1> QED
  BY <1>2, <1>3, <1>4

(* A step that leaves the carts, and neither settles nor opens an item,    *)
(* keeps the invariant.                                                    *)
LEMMA QuietReckoned ==
  ASSUME Reckoned, Ground', UNCHANGED <<rows, orders, req, exp>>,
         \A c \in Request : key'[c] # None => key[c] # None,
         \A i \in Item : stock'[i] <= stock[i],
         \A i : Settled(i)' => Settled(i) /\ stock' = stock,
         \A i : Unopened(i)' => Unopened(i),
         Booted', Listing'
  PROVE  Reckoned'
<1>1. Books /\ Books' /\ Balanced
  BY QuietBooks DEF Reckoned
<1>2. ASSUME NEW i \in Item PROVE Upheld(i)
  BY <1>1, LessForSale DEF Upheld
<1> QED
  BY <1>1, <1>2, Upholds DEF Reckoned

(* A step that leaves the backend, the catalogue and its administrator     *)
(* alone.                                                                  *)
LEMMA AsideReckoned ==
  ASSUME Reckoned, Ground', UNCHANGED <<rows, orders, req, exp, stock, key>>, Frozen
  PROVE  Reckoned'
<1>1. Ids' = Ids /\ Listed(admin.left)' = Listed(admin.left) /\ admin' = admin /\ items' = items
      /\ server' = server
  BY DEF Frozen, Ids, Listed
<1>2. Booted' /\ Listing'
  BY <1>1 DEF Reckoned, Books, Booted, Listing
<1>3. \A i \in Item : stock'[i] <= stock[i]
  BY NumbersNow DEF NumbersKnown, Reckoned
<1> QED
  BY <1>2, <1>3, QuietReckoned, FrozenItems

(* A step of the administrator that leaves the backend alone and opens no  *)
(* item.                                                                   *)
LEMMA AdminReckoned ==
  ASSUME Reckoned, Ground', UNCHANGED <<rows, orders, req, exp, stock, key, server>>,
         server \in {"down", "up"},
         admin'.pc \notin {"idle", "seed"},
         admin'.pc \in {"keys", "del"} => admin'.left = items',
         \A i : Unopened(i)' => Unopened(i)
  PROVE  Reckoned'
<1>1. Booted'
  BY DEF Reckoned, Books, Booted
<1>2. Listing'
  BY DEF Listing
<1>3. \A i : ~Settled(i)'
  BY DEF Settled
<1>4. \A i \in Item : stock'[i] <= stock[i]
  BY NumbersNow DEF NumbersKnown, Reckoned
<1> QED
  BY <1>1, <1>2, <1>3, <1>4, QuietReckoned

(* While the administrator works the server is up or not yet booting.      *)
LEMMA WorkingServer ==
  ASSUME Ground, Booted, admin.pc # "idle"
  PROVE  server \in {"down", "up"}
BY GroundParts DEF Booted, TypeOK

(* Which items are opened when a catalogue starts to be filled.            *)
LEMMA BatchOpens ==
  ASSUME OneBatch, SeedItemsIfEmpty(NewIds(batches + 1)), items # <<>> \/ batches < Len(Batch),
         admin'.pc \in {"boot", "insert"}, items = <<>> \/ admin'.pc = "boot",
         NEW i, Unopened(i)'
  PROVE  Unopened(i)
<1>1. Len(Batch) \in Nat /\ batches \in 0 .. Len(Batch) /\ items' = items
  BY BatchNotEmpty DEF OneBatch, SeedItemsIfEmpty
<1>2. admin'.pc = "insert" => Ids' = {}
  BY <1>1 DEF Ids
<1>3. \/ \E n \in batches' + 1 .. Len(Batch) : i \in Listed(Batch[n])
      \/ i \in Listed(toInsert')
  BY <1>2 DEF Unopened, Listed
<1>4. CASE items = <<>>
  <2>1. toInsert' = Batch[batches + 1] /\ batches' = batches + 1 /\ batches + 1 \in batches + 1 .. Len(Batch)
    BY <1>1, <1>4 DEF SeedItemsIfEmpty, NewIds
  <2> QED
    BY <1>1, <1>3, <2>1 DEF Unopened
<1>5. CASE items # <<>>
  <2>1. toInsert' = toInsert /\ batches' = batches
    BY <1>5 DEF SeedItemsIfEmpty
  <2> QED
    BY <1>3, <2>1 DEF Unopened
<1> QED
  BY <1>4, <1>5

(* Which items are not open yet while a batch is being inserted.           *)
LEMMA InsertOpens ==
  ASSUME OneBatch, InsertItem, admin' = admin, NEW i, Unopened(i)'
  PROVE  Unopened(i)
<1>1. items \in Seq(Item) /\ toInsert \in Seq(Item) /\ toInsert # <<>>
      /\ items' = Append(items, Head(toInsert)) /\ toInsert' = Tail(toInsert) /\ batches' = batches
      /\ admin.pc \in {"boot", "insert"}
  BY DEF OneBatch, InsertItem
<1>2. Head(toInsert) \in Listed(toInsert) /\ Listed(toInsert)' \subseteq Listed(toInsert)
  <2>1. Len(toInsert) \in Nat /\ Len(toInsert) >= 1 /\ Head(toInsert) = toInsert[1]
    BY <1>1
  <2>2. Len(toInsert') = Len(toInsert) - 1
        /\ \A k \in 1 .. Len(toInsert') : toInsert'[k] = toInsert[k + 1]
    BY <1>1
  <2>3. \A k \in 1 .. Len(toInsert') : k + 1 \in 1 .. Len(toInsert)
    BY <2>1, <2>2
  <2>4. Listed(toInsert)' = {toInsert'[k] : k \in 1 .. Len(toInsert')}
    BY DEF Listed
  <2> QED
    BY <2>1, <2>2, <2>3, <2>4 DEF Listed
<1>3. Ids' \subseteq Ids \cup {Head(toInsert)}
  <2>1. Len(items) \in Nat /\ Len(items') = Len(items) + 1
        /\ \A k \in 1 .. Len(items') : items'[k] = IF k <= Len(items) THEN items[k] ELSE Head(toInsert)
    BY <1>1
  <2> QED
    BY <2>1 DEF Ids
<1> QED
  BY <1>1, <1>2, <1>3 DEF Unopened

(* The boot, or the script, fills the catalogue.                           *)
LEMMA FillReckoned ==
  ASSUME Reckoned, Ground', BootCounts \/ Fill
  PROVE  Reckoned'
<1>1. Ground /\ Booted /\ OneBatch
  BY DEF Reckoned, Books, Ground, CatalogueInv
<1>2. CASE BootCounts
  <2>1. /\ UNCHANGED <<rows, orders, req, exp, stock, key, server>> /\ server = "down"
        /\ admin'.pc = "boot"
    BY <1>2 DEF BootCounts, backVars, Resting
  <2>2. ASSUME NEW i, Unopened(i)' PROVE Unopened(i)
    BY <1>1, <1>2, <2>1, <2>2, BatchOpens DEF BootCounts
  <2> QED
    BY <2>1, <2>2, AdminReckoned
<1>3. CASE Fill
  <2>1. /\ UNCHANGED <<rows, orders, req, exp, stock, key, server>> /\ admin' = admin
        /\ admin.pc \in {"boot", "insert"} /\ server \in {"down", "up"}
    BY <1>1, <1>3, WorkingServer DEF Fill, backVars, adminVars
  <2>2. ASSUME NEW i, Unopened(i)' PROVE Unopened(i)
    BY <1>1, <1>3, <2>1, <2>2, InsertOpens DEF Fill
  <2> QED
    BY <2>1, <2>2, AdminReckoned
<1> QED
  BY <1>2, <1>3

(* Fewer items are still to be opened.                                     *)
LEMMA NoneOpens ==
  ASSUME UNCHANGED batches, toInsert' = toInsert \/ toInsert' = <<>>,
         admin'.pc = "seed" => admin.pc \in {"insert", "keys", "del"} /\ Listed(admin'.left) \subseteq Ids,
         admin'.pc \in {"insert", "keys", "del"} =>
           items' = items /\ admin.pc \in {"insert", "keys", "del"}
  PROVE  \A i : Unopened(i)' => Unopened(i)
<1> SUFFICES ASSUME NEW i, Unopened(i)' PROVE Unopened(i)
  OBVIOUS
<1>1. CASE \E n \in batches' + 1 .. Len(Batch) : i \in Listed(Batch[n])
  BY <1>1 DEF Unopened
<1>2. CASE i \in Listed(toInsert)'
  BY <1>2 DEF Unopened, Listed
<1>3. CASE admin'.pc \in {"insert", "keys", "del"} /\ i \in Ids'
  BY <1>3 DEF Unopened, Ids
<1>4. CASE admin'.pc = "seed" /\ i \in Listed(admin.left)'
  BY <1>4 DEF Unopened, Listed
<1> QED
  BY <1>1, <1>2, <1>3, <1>4 DEF Unopened, Listed

(* Where the administrator goes next, by AdminType, is where NextPhase     *)
(* says; what it has listed goes with it.                                  *)
LEMMA Proceeds ==
  ASSUME AdminType, NEW l, l = [pc |-> l.pc, wipe |-> l.wipe, keys |-> l.keys, left |-> l.left],
         admin.pc \in {"wipe", "count", "insert", "keys", "del", "seed"}, Proceed(l)
  PROVE  /\ admin'.left = l.left
         /\ admin'.pc = CASE admin.pc = "wipe" -> "count" [] admin.pc = "count" -> "insert"
                          [] admin.pc = "insert" -> "keys" [] admin.pc = "keys" -> "del"
                          [] admin.pc = "del" -> "seed" [] admin.pc = "seed" -> "idle"
<1>1. admin'.pc = CASE admin.pc = "wipe" -> "count" [] admin.pc = "count" -> "insert"
                    [] admin.pc = "insert" -> "keys" [] admin.pc = "keys" -> "del"
                    [] admin.pc = "del" -> "seed" [] admin.pc = "seed" -> "idle"
  BY ProceedType
<1>2. admin'.left = l.left
  <2>1. admin' = [l EXCEPT !.pc = NextPhase[admin.pc]]
    BY DEF Proceed
  <2> QED
    BY <2>1
<1> QED
  BY <1>1, <1>2

(* One of the deletions leads to the next, or to the count.                *)
LEMMA WipeGoes ==
  ASSUME AdminType, NEW collection, Wipe(collection)
  PROVE  admin.pc = "wipe" /\ admin'.pc \in {"wipe", "count"}
<1>1. PICK l : l = [admin EXCEPT !.wipe = @ \ {collection}]
  OBVIOUS
<1>2. /\ l = [pc |-> l.pc, wipe |-> l.wipe, keys |-> l.keys, left |-> l.left]
      /\ l.pc = admin.pc
  BY <1>1 DEF AdminType
<1>3. admin.pc = "wipe" /\ (Proceed(l) \/ admin' = l)
  BY <1>1 DEF Wipe
<1> QED
  BY <1>2, <1>3, Proceeds

(* The steps of the reset script that write nothing but the catalogue.     *)
LEMMA ScriptReckoned ==
  ASSUME Reckoned, Ground',
         StartReset \/ WipeItems \/ ResetCounts \/ ListCreated \/ ListKeys \/ Dies
  PROVE  Reckoned'
<1>1. Ground /\ Booted /\ Listing /\ CatalogueInv /\ AdminType /\ OneBatch
  BY DEF Reckoned, Books, Ground, CatalogueInv
<1>2. CASE StartReset
  <2>1. /\ UNCHANGED <<rows, orders, req, exp, stock, key, server>> /\ server \in {"down", "up"}
        /\ admin'.pc = "wipe" /\ UNCHANGED <<items, toInsert, batches>>
    BY <1>2 DEF StartReset, backVars, Resting, catalogueVars
  <2>2. \A i : Unopened(i)' => Unopened(i)
    BY <2>1, NoneOpens
  <2> QED
    BY <2>1, <2>2, AdminReckoned
<1>3. CASE Dies
  <2>1. /\ UNCHANGED <<rows, orders, req, exp, stock, key, server>> /\ server \in {"down", "up"}
        /\ admin'.pc = "dead" /\ UNCHANGED <<items, batches>> /\ toInsert' = <<>>
    BY <1>1, <1>3, WorkingServer DEF Dies, MayStart, backVars, Resting
  <2>2. \A i : Unopened(i)' => Unopened(i)
    BY <2>1, NoneOpens
  <2> QED
    BY <2>1, <2>2, AdminReckoned
<1>4. CASE WipeItems
  <2>1. admin.pc = "wipe" /\ admin'.pc \in {"wipe", "count"}
    BY <1>1, <1>4, WipeGoes DEF WipeItems
  <2>2. /\ UNCHANGED <<rows, orders, req, exp, stock, key, server>> /\ server \in {"down", "up"}
        /\ UNCHANGED <<toInsert, batches>>
    BY <1>1, <1>4, <2>1, WorkingServer DEF WipeItems, Wipe, DeleteItems, redisVars, serverVars, mongoVars
  <2>3. \A i : Unopened(i)' => Unopened(i)
    BY <2>1, <2>2, NoneOpens
  <2> QED
    BY <2>1, <2>2, <2>3, AdminReckoned
<1>5. CASE ResetCounts
  <2>1. items = <<>> /\ admin.pc = "count"
    BY <1>1, <1>5 DEF ResetCounts, CatalogueInv, Emptied
  <2>2. admin'.pc = "insert"
    BY <1>1, <1>5, <2>1, Proceeds DEF ResetCounts, AdminType
  <2>3. /\ UNCHANGED <<rows, orders, req, exp, stock, key, server>> /\ server \in {"down", "up"}
    BY <1>1, <1>5, <2>1, WorkingServer DEF ResetCounts, backVars
  <2>4. ASSUME NEW i, Unopened(i)' PROVE Unopened(i)
    BY <1>1, <1>5, <2>1, <2>2, <2>4, BatchOpens DEF ResetCounts
  <2> QED
    BY <2>2, <2>3, <2>4, AdminReckoned
<1>6. CASE ListCreated
  <2>1. PICK l : l = [admin EXCEPT !.left = items]
    OBVIOUS
  <2>2. /\ l = [pc |-> l.pc, wipe |-> l.wipe, keys |-> l.keys, left |-> l.left]
        /\ l.left = items
    BY <1>1, <2>1 DEF AdminType
  <2>3. admin.pc = "insert" /\ admin'.left = items /\ admin'.pc = "keys"
    BY <1>1, <1>6, <2>1, <2>2, Proceeds DEF ListCreated
  <2>4. /\ UNCHANGED <<rows, orders, req, exp, stock, key, server>> /\ server \in {"down", "up"}
        /\ UNCHANGED <<items, toInsert, batches>>
    BY <1>1, <1>6, <2>3, WorkingServer DEF ListCreated, backVars, catalogueVars
  <2>5. \A i : Unopened(i)' => Unopened(i)
    BY <2>3, <2>4, NoneOpens
  <2> QED
    BY <2>3, <2>4, <2>5, AdminReckoned
<1>7. CASE ListKeys
  <2>1. PICK l : l = [admin EXCEPT !.keys = {c \in Request : key[c] # None}]
    OBVIOUS
  <2>2. /\ l = [pc |-> l.pc, wipe |-> l.wipe, keys |-> l.keys, left |-> l.left]
        /\ l.left = admin.left
    BY <1>1, <2>1 DEF AdminType
  <2>3. admin.pc = "keys" /\ admin'.left = items /\ admin'.pc = "del"
    BY <1>1, <1>7, <2>1, <2>2, Proceeds DEF ListKeys, Listing
  <2>4. /\ UNCHANGED <<rows, orders, req, exp, stock, key, server>> /\ server \in {"down", "up"}
        /\ UNCHANGED <<items, toInsert, batches>>
    BY <1>1, <1>7, <2>3, WorkingServer DEF ListKeys, backVars, catalogueVars
  <2>5. \A i : Unopened(i)' => Unopened(i)
    BY <2>3, <2>4, NoneOpens
  <2> QED
    BY <2>3, <2>4, <2>5, AdminReckoned
<1> QED
  BY <1>2, <1>3, <1>4, <1>5, <1>6, <1>7

(* One DEL of the counters: the items that were listed are still to be     *)
(* seeded.                                                                 *)
LEMMA DeleteKeysReckoned ==
  ASSUME Reckoned, Ground', DeleteKeys
  PROVE  Reckoned'
<1>1. Ground /\ Booted /\ Listing /\ CatalogueInv /\ AdminType /\ OneBatch /\ admin.pc = "del"
  BY DEF Reckoned, Books, Ground, CatalogueInv, DeleteKeys
<1>2. PICK l : l = [admin EXCEPT !.keys = {}]
  OBVIOUS
<1>3. /\ l = [pc |-> l.pc, wipe |-> l.wipe, keys |-> l.keys, left |-> l.left]
      /\ l.left = admin.left
  BY <1>1, <1>2 DEF AdminType
<1>4. admin'.left = items /\ admin'.pc = "seed"
  BY <1>1, <1>2, <1>3, Proceeds DEF DeleteKeys, Listing
<1>5. /\ UNCHANGED <<rows, orders, req, exp, server>> /\ server \in {"down", "up"}
      /\ UNCHANGED <<items, toInsert, batches>>
  BY <1>1, WorkingServer DEF DeleteKeys, mongoVars, serverVars, catalogueVars
<1>6. /\ \A c \in Request : key'[c] # None => key[c] # None
      /\ stock' = [i \in Item |-> 0]
  BY DEF DeleteKeys, Nothing
<1>7. Listed(items) = Ids /\ Ids' = Ids /\ Listed(admin'.left) = Ids /\ Listed(admin.left)' = Ids
  BY <1>4, <1>5 DEF Listed, Ids
<1>8. \A i : Unopened(i)' => Unopened(i)
  BY <1>1, <1>4, <1>5, <1>7, NoneOpens
<1>9. \A i : ~Settled(i)'
  BY <1>4, <1>7 DEF Settled
<1>10. Listing'
  <2>1. items \in Seq(Item) /\ \A j, k \in 1 .. Len(items) : items[j] = items[k] => j = k
    BY <1>1, ItemsDistinct DEF OneBatch
  <2> QED
    BY <1>4, <1>7, <2>1 DEF Listing
<1>11. Booted'
  BY <1>1, <1>5 DEF Booted
<1>12. \A i \in Item : stock'[i] <= stock[i]
  BY <1>6, NumbersNow DEF NumbersKnown, Reckoned
<1> QED
  BY <1>5, <1>6, <1>8, <1>9, <1>10, <1>11, <1>12, QuietReckoned

-----------------------------------------------------------------------------
(* The boot.                                                               *)

(* Before the server is open, nothing has been put in a cart.              *)
LEMMA NothingYet ==
  ASSUME Books, server # "up"
  PROVE  \A i : Claimed(i) = 0 /\ Pending(i) = 0 /\ Sold(i) = 0
<1> SUFFICES ASSUME NEW i PROVE Claimed(i) = 0 /\ Pending(i) = 0 /\ Sold(i) = 0
  OBVIOUS
<1>1. /\ exp = {}
      /\ \A r \in Request : req[r].pc = "new" /\ orders[r] = {} /\ rows[r] = None
  BY DEF Books, Booted
<1>2. Claims = {}
  <2>1. \A r \in Request : Carried(r) = {}
    BY <1>1 DEF Carried
  <2>2. \A x : x \notin Claims
    BY <1>1, <2>1, ClaimIs DEF Standing
  <2> QED
    BY <2>2
<1>3. Claimed(i) = 0
  BY <1>2, NoUnits DEF Claimed, UnitsIn
<1>4. Pending(i) = 0
  <2>1. PendingUnits(i) = {}
    BY <1>1 DEF PendingUnits
  <2> QED
    BY <2>1, FS_EmptySet DEF Pending
<1>5. Sold(i) = 0
  <2>1. SoldUnits(i) = {}
    BY <1>1 DEF SoldUnits, UnitsOf
  <2> QED
    BY <2>1, FS_EmptySet DEF Sold
<1> QED
  BY <1>3, <1>4, <1>5

(* So nothing else is promised than what is for sale.                      *)
LEMMA OnlyForSale ==
  ASSUME Books, Books', server # "up", UNCHANGED <<rows, orders, req, exp>>
  PROVE  \A i \in Item : Promised(i) = stock[i] /\ Promised(i)' = stock'[i]
<1> SUFFICES ASSUME NEW i \in Item PROVE Promised(i) = stock[i] /\ Promised(i)' = stock'[i]
  OBVIOUS
<1>1. Claimed(i)' = 0 /\ Pending(i)' = 0 /\ Sold(i)' = 0
  BY NothingYet, ClaimedSame
<1>2. PICK t \in Int : t = stock'[i]
  BY NumbersNext DEF NumbersKnown
<1>3. Promised(i)' = t + 0 + 0 + 0
  BY <1>1, <1>2, PromiseIsNext, Zenon DEF PromiseParts
<1>4. PICK s \in Int : s = stock[i]
  BY NumbersNow DEF NumbersKnown
<1>5. Promised(i) = s + 0 + 0 + 0
  BY <1>4, NothingYet, PromiseIs, Zenon DEF PromiseParts
<1> QED
  BY <1>2, <1>3, <1>4, <1>5

(* Nor has anybody read anything.                                          *)
LEMMA NothingRead ==
  ASSUME Books, Ground', server # "up", UNCHANGED <<rows, orders, req, exp, key>>,
         Booted', Listing'
  PROVE  Books'
<1>1. /\ exp' = {}
      /\ \A r \in Request : req'[r].pc = "new" /\ orders'[r] = {} /\ req'[r] = req[r]
  BY DEF Books, Booted
<1>2. Recalls'
  BY <1>1 DEF Recalls, Recall, Started
<1>3. ExpiryRecalls'
  BY <1>1 DEF ExpiryRecalls
<1>4. Alone' /\ KeysStarted'
  BY <1>1 DEF Books, Alone, KeysStarted, InFlight, Started
<1> QED
  BY <1>2, <1>3, <1>4 DEF Books

(* An item of the catalogue is not one that will be inserted.              *)
LEMMA IdsInserted ==
  ASSUME OneBatch, admin.pc \notin {"boot", "insert"}, NEW i \in Ids
  PROVE  /\ ~\E n \in batches + 1 .. Len(Batch) : i \in Listed(Batch[n])
         /\ i \notin Listed(toInsert)
<1>1. toInsert = <<>> /\ items # <<>> /\ batches # 0
  BY DEF OneBatch, Ids
<1>2. PICK k \in 1 .. Len(items) : i = items[k]
  BY DEF Ids
<1>3. i = Batch[batches][k] /\ k \in 1 .. Len(Batch[batches]) /\ batches \in 1 .. Len(Batch)
  <2>1. batches \in 1 .. Len(Batch)
    BY <1>1, BatchNotEmpty DEF OneBatch
  <2>2. PICK B : B = Batch[batches]
    OBVIOUS
  <2>3. B \in Seq(Item) /\ Len(B) \in Nat /\ Len(items) <= Len(B) /\ Len(items) \in Nat
    BY <1>1, <2>1, <2>2, BatchType DEF OneBatch
  <2>4. items = SubSeq(B, 1, Len(items))
    BY <1>1, <2>2 DEF OneBatch
  <2>5. items[k] = B[k]
    BY <2>3, <2>4
  <2> QED
    BY <1>2, <2>1, <2>2, <2>3, <2>5
<1>4. ~\E n \in batches + 1 .. Len(Batch) : i \in Listed(Batch[n])
  <2> SUFFICES ASSUME NEW n \in batches + 1 .. Len(Batch), i \in Listed(Batch[n]) PROVE FALSE
    OBVIOUS
  <2>1. n \in 1 .. Len(Batch) /\ n # batches
    BY <1>3, BatchNotEmpty
  <2>2. PICK j \in 1 .. Len(Batch[n]) : i = Batch[n][j]
    BY DEF Listed
  <2> QED
    BY <1>3, <2>1, <2>2, FreshIdsAssumption
<1>5. i \notin Listed(toInsert)
  BY <1>1 DEF Listed
<1> QED
  BY <1>4, <1>5

(* It is on sale when nobody fills the catalogue.                          *)
LEMMA IdsOpened ==
  ASSUME OneBatch, admin.pc \notin {"insert", "keys", "del", "boot"}, NEW i \in Ids,
         Unopened(i)
  PROVE  admin.pc = "seed" /\ i \in Listed(admin.left)
BY IdsInserted DEF Unopened

(* The boot.                                                               *)
LEMMA BootReckoned ==
  ASSUME Reckoned, Ground', BootLoads \/ BootSeeds \/ BootSubscribes
  PROVE  Reckoned'
<1>1. Books /\ Balanced /\ Ground /\ Booted /\ OneBatch /\ NumbersKnown
  BY NumbersNow DEF Reckoned, Books, Ground, CatalogueInv
<1>2. CASE BootLoads
  <2>1. /\ UNCHANGED <<rows, orders, req, exp, stock, key>> /\ server = "down" /\ server' = "loaded"
        /\ UNCHANGED <<items, toInsert, batches>> /\ admin'.pc = "idle"
    BY <1>2 DEF BootLoads, LoadScript, LoadReserveScript, catalogueVars, mongoVars, Resting
  <2>2. Booted'
    BY <1>1, <2>1 DEF Booted
  <2>3. Listing'
    BY <2>1 DEF Listing
  <2>4. \A i : ~Settled(i)'
    BY <2>1 DEF Settled
  <2>5. \A i : Unopened(i)' => Unopened(i)
    BY <2>1, NoneOpens
  <2>6. \A i \in Item : stock'[i] <= stock[i]
    BY <1>1, <2>1 DEF NumbersKnown
  <2> QED
    BY <2>1, <2>2, <2>3, <2>4, <2>5, <2>6, QuietReckoned
<1>3. CASE BootSeeds
  <2>1. /\ UNCHANGED <<rows, orders, req, exp, key>> /\ server = "loaded" /\ server' = "seeded"
        /\ UNCHANGED <<items, toInsert, batches, admin>> /\ admin.pc = "idle"
        /\ Seed(Ids, aggregateReservedQuantities)
    BY <1>1, <1>3 DEF BootSeeds, catalogueVars, mongoVars, adminVars, Booted
  <2>2. \A i \in Item : aggregateReservedQuantities[i] = 0
    <3>1. \A i : RowsOfItem(i) = {}
      BY <1>1, <2>1 DEF Booted, RowsOfItem
    <3>2. UnitsOf({}) = {}
      BY DEF UnitsOf
    <3>3. QtyOf({}) = 0
      BY <3>2, FS_EmptySet DEF QtyOf
    <3> QED
      BY <3>1, <3>3 DEF aggregateReservedQuantities
  <2>3. \A i \in Item : stock'[i] = IF i \in Ids THEN TotalStock[i] ELSE stock[i]
    BY <1>1, <2>1, <2>2 DEF Seed, SeedValue, NumbersKnown
  <2>4. Ids' = Ids /\ Ids \subseteq Item
    BY <1>1, <2>1 DEF Ids, OneBatch
  <2>5. Booted' /\ Listing'
    BY <1>1, <2>1, <2>3, <2>4 DEF Booted, Listing
  <2>6. Books'
    BY <1>1, <2>1, <2>5, NothingRead
  <2>7. \A i \in Item : Promised(i) = stock[i] /\ Promised(i)' = stock'[i]
    BY <1>1, <2>1, <2>6, OnlyForSale
  <2>8. \A i : ~Settled(i)'
    BY <2>1 DEF Settled
  <2>9. ASSUME NEW i \in Item PROVE Promised(i)' <= Ceiling(i)'
    <3>1. Unopened(i)' => Unopened(i)
      BY <2>1, NoneOpens
    <3>2. CASE i \in Ids
      <4>1. ~Unopened(i)'
        BY <1>1, <2>1, <3>1, <3>2, IdsOpened
      <4>2. Promised(i)' = TotalStock[i]
        BY <2>3, <2>7, <3>2
      <4>3. Ceiling(i)' = TotalStock[i]
        BY <4>1 DEF Ceiling
      <4> QED
        BY <1>1, <4>2, <4>3 DEF NumbersKnown
    <3>3. CASE i \notin Ids
      <4>1. Promised(i)' = Promised(i) /\ Promised(i) <= Ceiling(i) /\ Promised(i) \in Int
            /\ Ceiling(i) \in Nat /\ TotalStock[i] \in Nat /\ Ceiling(i) <= TotalStock[i]
        BY <1>1, <2>3, <2>7, <3>3 DEF NumbersKnown, Balanced
      <4>2. Ceiling(i)' = Ceiling(i) \/ Ceiling(i)' = TotalStock[i]
        BY <3>1 DEF Ceiling
      <4> QED
        BY <4>1, <4>2
    <3> QED
      BY <3>2, <3>3
  <2> QED
    BY <2>6, <2>8, <2>9 DEF Reckoned, Balanced
<1>4. CASE BootSubscribes
  <2>1. /\ UNCHANGED <<rows, orders, req, exp, key, stock>> /\ server = "seeded" /\ server' = "up"
        /\ UNCHANGED <<items, toInsert, batches, admin>> /\ admin.pc = "idle"
    BY <1>1, <1>4 DEF BootSubscribes, Subscribe, catalogueVars, mongoVars, redisVars, adminVars, Booted
  <2>2. Ids' = Ids
    BY <2>1 DEF Ids
  <2>3. Booted' /\ Listing'
    BY <1>1, <2>1 DEF Booted, Listing
  <2>4. Books'
    BY <1>1, <2>1, <2>3, NothingRead
  <2>5. \A i \in Item : Promised(i) = stock[i] /\ Promised(i)' = stock[i]
    BY <1>1, <2>1, <2>4, OnlyForSale
  <2>6. \A i : Settled(i)' => i \in Ids
    BY <2>2 DEF Settled
  <2>7. \A i : Unopened(i)' => Unopened(i)
    BY <2>1, NoneOpens
  <2>8. ASSUME NEW i \in Item
        PROVE  Promised(i)' <= Ceiling(i)' /\ (Settled(i)' => Promised(i)' = TotalStock[i])
    <3>1. Promised(i)' = Promised(i) /\ Promised(i) <= Ceiling(i) /\ Promised(i) \in Int
          /\ Ceiling(i) \in Nat /\ TotalStock[i] \in Nat /\ Ceiling(i) <= TotalStock[i]
      BY <1>1, <2>5 DEF NumbersKnown, Balanced
    <3>2. Ceiling(i)' = Ceiling(i) \/ Ceiling(i)' = TotalStock[i]
      BY <2>7 DEF Ceiling
    <3>3. Settled(i)' => Promised(i)' = TotalStock[i]
      BY <1>1, <2>1, <2>5, <2>6 DEF Booted
    <3> QED
      BY <3>1, <3>2, <3>3
  <2> QED
    BY <2>4, <2>8 DEF Reckoned, Balanced
<1> QED
  BY <1>2, <1>3, <1>4

-----------------------------------------------------------------------------
(* The reset script's writes.                                              *)

(* Of an item of which nothing is promised nobody claims a row.            *)
LEMMA NothingPromised ==
  ASSUME Books, NEW i \in Item, Promised(i) <= 0
  PROVE  /\ stock[i] = 0 /\ Claimed(i) = 0 /\ Pending(i) = 0 /\ Sold(i) = 0
         /\ \A x \in Claims : x.item # i
<1>1. PICK s \in Int, c \in Int, p \in Int, n \in Int :
        /\ s = stock[i] /\ c = Claimed(i) /\ p = Pending(i) /\ n = Sold(i)
        /\ s >= 0 /\ c >= 0 /\ p >= 0 /\ n >= 0
  BY NumbersNow DEF NumbersKnown
<1>2. Promised(i) = s + c + p + n
  BY <1>1, PromiseIs, Zenon DEF PromiseParts
<1>3. s = 0 /\ c = 0 /\ p = 0 /\ n = 0
  <2>1. s + c + p + n <= 0
    BY <1>2, Zenon
  <2> QED
    BY <1>1, <2>1
<1>4. ASSUME NEW x \in Claims, x.item = i PROVE FALSE
  <2>1. Billable(Claims) /\ x \in CartRow
    BY ClaimsBillableNow DEF Billable
  <2>2. /\ UnitsIn(Claims, i) \in Nat /\ UnitsIn({x}, i) \in Nat
        /\ UnitsIn({x}, i) <= UnitsIn(Claims, i)
    BY <2>1, FewerRows
  <2>3. UnitsIn({x}, i) = x.qty
    BY <1>4, <2>1, UnitsOfOne
  <2>4. UnitsIn(Claims, i) = 0
    BY <1>1, <1>3, Zenon DEF Claimed, UnitsIn
  <2>5. x.qty \in Nat /\ x.qty # 0
    BY <2>1 DEF CartRow
  <2> QED
    BY <2>2, <2>3, <2>4, <2>5
<1> QED
  BY <1>1, <1>3, <1>4

(* What a handler has read stays good when an item becomes settled on      *)
(* which nobody has a claim.                                               *)
LEMMA RecallSettles ==
  ASSUME Books, NEW s \in Request, UNCHANGED <<rows, orders, req>>, NEW i,
         \A x \in Claims : x.item # i, \A j : Settled(j)' => Settled(j) \/ j = i
  PROVE  Recall(s)'
<1>1. \A row : Match(row) /\ row.item # i => Match(row)'
  BY DEF Match
<1>2. /\ \A u : FindByUser(u)' = FindByUser(u)
      /\ BaseRow(req[s])' = BaseRow(req[s])
  BY FoundSame DEF BaseRow
<1>3. Recall(s) /\ Ground
  BY DEF Books, Recalls
<1>4. \A x \in Carried(s) : x.item # i
  BY ClaimIs
<1>5. ASSUME req[s].pc \in {"reserve", "save"}
      PROVE  IF req[s].base = 0 THEN rows'[req[s].id] = None ELSE Match(BaseRow(req[s]))'
  <2>1. req[s].base # 0 => BaseRow(req[s]) \in Carried(s)
    BY <1>5 DEF Carried
  <2> QED
    BY <1>1, <1>3, <1>4, <1>5, <2>1 DEF Recall
<1>6. ASSUME req[s].pc \in {"release", "drop", "delete", "order"}, NEW row \in req[s].todo
      PROVE  Match(row)'
  <2>1. row \in Carried(s)
    BY <1>6 DEF Carried
  <2> QED
    BY <1>1, <1>3, <1>4, <1>6, <2>1 DEF Recall
<1>7. ASSUME req[s].pc = "shrink", NEW row \in req[s].todo
      PROVE  Match(row)'
  <2>1. ShrunkRow(req[s]) \in Carried(s)
    BY <1>7 DEF Carried
  <2>2. ShrunkRow(req[s]).item = req[s].item /\ BaseRow(req[s]).item = req[s].item
        /\ BaseRow(req[s]).id = req[s].id
    BY DEF ShrunkRow, BaseRow
  <2>3. row.id = req[s].id => row = BaseRow(req[s])
    BY <1>3, <1>7, <2>2 DEF Recall
  <2>4. row.id # req[s].id => row \in Carried(s)
    BY <1>7 DEF Carried
  <2>5. row.item # i
    BY <1>4, <2>1, <2>2, <2>3, <2>4
  <2> QED
    BY <1>1, <1>3, <1>7, <2>5 DEF Recall
<1>8. ASSUME req[s].pc \in {"clear", "empty"}, orders[s] = {}, NEW row \in FindByUser(req[s].user),
             ~Settled(row.item)
      PROVE  ~Settled(row.item)'
  <2>1. Serves(s, req[s].user)
    BY <1>8 DEF Serves, InFlight
  <2>2. row \in Claim(s, req[s].user)
    BY <1>8, ClaimFormsNow DEF ClaimForms
  <2>3. row \in Claims
    BY <2>1, <2>2, ClaimsToldNow DEF ClaimsTold
  <2> QED
    BY <1>8, <2>3
<1>9. req'[s].pc \in {"clear", "empty"}
        => \/ FindByUser(req[s].user)' \subseteq orders'[s]
           \/ /\ orders'[s] = {}
              /\ \A row \in FindByUser(req[s].user)' : ~Settled(row.item)'
  BY <1>2, <1>3, <1>8 DEF Recall
<1>10. /\ req'[s].pc \in {"reserve", "save"}
            => IF req'[s].base = 0 THEN rows'[req'[s].id] = None ELSE Match(BaseRow(req[s]))'
       /\ req'[s].pc \in {"release", "drop", "delete", "order", "shrink"}
            => /\ \A row \in req'[s].todo : Match(row)'
               /\ \A x, y \in req'[s].todo : x.id = y.id => x = y
  BY <1>3, <1>5, <1>6, <1>7 DEF Recall
<1> QED
  BY <1>2, <1>3, <1>9, <1>10 DEF Recall, Started

(* One counter is seeded: its item has not been for sale before.           *)
LEMMA SeedCreatedReckoned ==
  ASSUME Reckoned, Ground', SeedCreated
  PROVE  Reckoned'
<1>1. /\ Books /\ Balanced /\ Ground /\ Booted /\ Listing /\ CatalogueInv /\ AdminType /\ OneBatch
      /\ admin.pc = "seed" /\ admin.left # <<>> /\ NumbersKnown
  BY NumbersNow DEF Reckoned, Books, Ground, CatalogueInv, SeedCreated
<1>2. PICK left : left = admin.left
  OBVIOUS
<1>3. /\ left \in Seq(Item) /\ left # <<>> /\ Listed(left) \subseteq Ids /\ Len(left) \in Nat
      /\ \A j, k \in 1 .. Len(left) : left[j] = left[k] => j = k
  BY <1>1, <1>2 DEF Listing
<1>4. PICK i : i = Head(left)
  OBVIOUS
<1>5. /\ i \in Item /\ i \in Listed(left) /\ i \notin Listed(Tail(left))
      /\ Listed(left) = Listed(Tail(left)) \cup {i}
      /\ Tail(left) \in Seq(Item)
      /\ \A j, k \in 1 .. Len(Tail(left)) : Tail(left)[j] = Tail(left)[k] => j = k
  <2>1. Len(left) >= 1 /\ i = left[1] /\ Len(Tail(left)) = Len(left) - 1
        /\ \A k \in 1 .. Len(Tail(left)) : Tail(left)[k] = left[k + 1]
    BY <1>3, <1>4
  <2>2. \A k \in 1 .. Len(Tail(left)) : k + 1 \in 1 .. Len(left) /\ k + 1 # 1
    BY <1>3, <2>1
  <2>3. \A k \in 1 .. Len(left) : k = 1 \/ (k - 1 \in 1 .. Len(Tail(left)) /\ Tail(left)[k - 1] = left[k])
    <3> SUFFICES ASSUME NEW k \in 1 .. Len(left), k # 1
                 PROVE  k - 1 \in 1 .. Len(Tail(left)) /\ Tail(left)[k - 1] = left[k]
      OBVIOUS
    <3>1. k - 1 \in 1 .. Len(Tail(left)) /\ (k - 1) + 1 = k
      BY <1>3, <2>1
    <3> QED
      BY <2>1, <3>1
  <2>4. 1 \in 1 .. Len(left)
    BY <1>3, <2>1
  <2>5. i \in Listed(left) /\ i \in Item
    BY <1>3, <2>1, <2>4 DEF Listed
  <2>6. i \notin Listed(Tail(left))
    BY <1>3, <2>1, <2>2, <2>4 DEF Listed
  <2>7. Listed(left) = Listed(Tail(left)) \cup {i}
    <3>1. Listed(left) \subseteq Listed(Tail(left)) \cup {i}
      BY <2>1, <2>3 DEF Listed
    <3>2. Listed(Tail(left)) \subseteq Listed(left)
      BY <2>1, <2>2 DEF Listed
    <3> QED
      BY <2>5, <3>1, <3>2
  <2>8. ASSUME NEW j \in 1 .. Len(Tail(left)), NEW k \in 1 .. Len(Tail(left)),
               Tail(left)[j] = Tail(left)[k]
        PROVE  j = k
    <3>1. j + 1 = k + 1
      BY <1>3, <2>1, <2>2, <2>8
    <3> QED
      BY <3>1
  <2>9. \A j, k \in 1 .. Len(Tail(left)) : Tail(left)[j] = Tail(left)[k] => j = k
    BY <2>8, Zenon
  <2>10. Tail(left) \in Seq(Item)
    BY <1>3
  <2> QED
    BY <2>5, <2>6, <2>7, <2>9, <2>10
<1>6. PICK l : l = [admin EXCEPT !.left = Tail(@)]
  OBVIOUS
<1>7. /\ l = [pc |-> l.pc, wipe |-> l.wipe, keys |-> l.keys, left |-> l.left]
      /\ l.left = Tail(left) /\ l.pc = "seed"
  BY <1>1, <1>2, <1>6 DEF AdminType
<1>8. IF l.left = <<>> THEN Proceed(l) ELSE admin' = l
  BY <1>6 DEF SeedCreated
<1>9. admin'.left = Tail(left) /\ admin'.pc = IF Tail(left) = <<>> THEN "idle" ELSE "seed"
  <2>1. CASE Tail(left) = <<>>
    <3>1. Proceed(l)
      BY <1>7, <1>8, <2>1
    <3> QED
      BY <1>1, <1>7, <2>1, <3>1, Proceeds
  <2>2. CASE Tail(left) # <<>>
    BY <1>7, <1>8, <2>2
  <2> QED
    BY <2>1, <2>2
<1>10. /\ UNCHANGED <<rows, orders, req, exp, key, server>> /\ server \in {"down", "up"}
       /\ UNCHANGED <<items, toInsert, batches>>
  BY <1>1, WorkingServer DEF SeedCreated, mongoVars, serverVars, catalogueVars
<1>11. Ids' = Ids /\ Ids \subseteq Item /\ Listed(admin.left)' = Listed(Tail(left))
       /\ Listed(admin.left) = Listed(left)
  BY <1>1, <1>2, <1>9, <1>10 DEF Ids, OneBatch, Listed
<1>12. \A j \in Item : stock'[j] = IF j = i THEN TotalStock[j] ELSE stock[j]
  <2>1. Seed({i}, NothingReserved)
    BY <1>2, <1>4 DEF SeedCreated
  <2> QED
    BY <1>1, <2>1 DEF Seed, SeedValue, NothingReserved, NumbersKnown
<1>13. /\ \A j : Settled(j)' => Settled(j) \/ j = i
       /\ \A j : Unopened(j)' => Unopened(j) /\ j # i
  <2>1. \A j : Settled(j)' => Settled(j) \/ j = i
    <3>1. Tail(left) = <<>> => Listed(Tail(left)) = {}
      BY DEF Listed
    <3> QED
      BY <1>1, <1>5, <1>9, <1>11, <3>1 DEF Settled, Lossless
  <2>2. \A j : Unopened(j)' => Unopened(j)
    BY <1>1, <1>5, <1>9, <1>10, <1>11 DEF Unopened, Listed
  <2>3. ~Unopened(i)'
    <3>1. i \in Ids
      BY <1>3, <1>5
    <3>2. /\ ~\E n \in batches + 1 .. Len(Batch) : i \in Listed(Batch[n])
          /\ i \notin Listed(toInsert)
      BY <1>1, <3>1, IdsInserted
    <3> QED
      BY <1>5, <1>9, <1>10, <1>11, <3>2 DEF Unopened, Listed
  <2> QED
    BY <2>1, <2>2, <2>3
<1>14. Unopened(i)
  BY <1>1, <1>5, <1>11 DEF Unopened
<1>15. /\ stock[i] = 0 /\ Claimed(i) = 0 /\ Pending(i) = 0 /\ Sold(i) = 0
       /\ \A x \in Claims : x.item # i
  <2>1. Promised(i) <= 0
    BY <1>1, <1>5, <1>14 DEF Balanced, Ceiling
  <2> QED
    BY <1>1, <1>5, <2>1, NothingPromised
<1>16. Books'
  <2>1. Recalls'
    BY <1>1, <1>10, <1>13, <1>15, RecallSettles DEF Recalls
  <2>2. ExpiryRecalls'
    <3>1. \A h \in exp : h.pc = "release" => h.row.item # i
      BY <1>15, ClaimIs
    <3> QED
      BY <1>1, <1>10, <1>13, <3>1 DEF ExpiryRecalls, Books, Match, Started
  <2>3. Alone' /\ KeysStarted'
    BY <1>1, <1>10 DEF Books, Alone, KeysStarted, InFlight, Started
  <2>4. Booted'
    BY <1>1, <1>10 DEF Booted
  <2>5. Listing'
    BY <1>3, <1>5, <1>9, <1>11 DEF Listing
  <2> QED
    BY <2>1, <2>2, <2>3, <2>4, <2>5 DEF Books
<1>17. ASSUME NEW j \in Item
       PROVE  Promised(j)' <= Ceiling(j)' /\ (Settled(j)' => Promised(j)' = TotalStock[j])
  <2>1. Claimed(j)' = Claimed(j) /\ Pending(j)' = Pending(j) /\ Sold(j)' = Sold(j)
    BY <1>10, ClaimedSame
  <2>2. CASE j = i
    <3>1. PICK t \in Int : t = TotalStock[j]
      BY <1>1 DEF NumbersKnown
    <3>2. Promised(j)' = t + 0 + 0 + 0
      BY <1>12, <1>15, <2>1, <2>2, <3>1, PromiseIsNext, Zenon DEF PromiseParts
    <3>3. Ceiling(j)' = TotalStock[j]
      BY <1>13, <2>2 DEF Ceiling
    <3> QED
      BY <3>1, <3>2, <3>3
  <2>3. CASE j # i
    <3>1. Promised(j)' = Promised(j)
      BY <1>1, <1>12, <1>16, <2>1, <2>3, SamePromise
    <3>2. Promised(j) <= Ceiling(j) /\ (Settled(j) => Promised(j) = TotalStock[j])
          /\ Promised(j) \in Int /\ Ceiling(j) \in Nat /\ TotalStock[j] \in Nat /\ Ceiling(j) <= TotalStock[j]
      BY <1>1 DEF NumbersKnown, Balanced
    <3>3. Ceiling(j)' = Ceiling(j) \/ Ceiling(j)' = TotalStock[j]
      BY <1>13 DEF Ceiling
    <3> QED
      BY <1>13, <2>3, <3>1, <3>2, <3>3
  <2> QED
    BY <2>2, <2>3
<1> QED
  BY <1>16, <1>17 DEF Reckoned, Balanced

(* Where the wiping of one collection leaves the rest.                     *)
LEMMA WipeLeaves ==
  ASSUME Reckoned, NEW collection, Wipe(collection), UNCHANGED <<items, toInsert, batches>>
  PROVE  /\ UNCHANGED <<stock, key, req, exp, server>> /\ server \in {"down", "up"}
         /\ \A i : ~Settled(i)'
         /\ \A i : Unopened(i)' => Unopened(i)
         /\ Listing'
<1>1. Ground /\ Booted /\ AdminType
  BY DEF Reckoned, Books, Ground, CatalogueInv
<1>2. admin.pc = "wipe" /\ admin'.pc \in {"wipe", "count"}
  BY <1>1, WipeGoes
<1>3. UNCHANGED <<stock, key, req, exp, server>> /\ server \in {"down", "up"}
  BY <1>1, <1>2, WorkingServer DEF Wipe, redisVars, serverVars
<1>4. \A i : Unopened(i)' => Unopened(i)
  BY <1>2, NoneOpens
<1> QED
  BY <1>2, <1>3, <1>4 DEF Settled, Listing

(* Fewer or as many units are promised when nothing is settled.            *)
LEMMA FewerPromised ==
  ASSUME Books, Books', Balanced, stock' = stock, req' = req,
         \A i : ~Settled(i)', \A i : Unopened(i)' => Unopened(i),
         \A i \in Item : Claimed(i)' + Sold(i)' <= Claimed(i) + Sold(i)
  PROVE  Balanced'
<1>1. ASSUME NEW i \in Item PROVE Upheld(i)
  <2>1. Pending(i)' = Pending(i)
    BY SameHandlers
  <2>2. PICK s \in Int, c \in Int, d \in Int, p \in Int, n \in Int, m \in Int :
          /\ s = stock[i] /\ c = Claimed(i) /\ d = Claimed(i)' /\ p = Pending(i)
          /\ n = Sold(i) /\ m = Sold(i)'
    <3>1. stock[i] \in Int /\ Claimed(i) \in Int /\ Pending(i) \in Int /\ Sold(i) \in Int
      BY NumbersNow DEF NumbersKnown
    <3>2. Claimed(i)' \in Int /\ Sold(i)' \in Int
      BY NumbersNext DEF NumbersKnown
    <3> QED
      BY <3>1, <3>2, Zenon
  <2>3. d + m <= c + n
    BY <2>2, Zenon
  <2>4. Promised(i) = s + c + p + n
    BY <2>2, PromiseIs, Zenon DEF PromiseParts
  <2>5. Promised(i)' = s + d + p + m
    BY <2>1, <2>2, PromiseIsNext, Zenon DEF PromiseParts
  <2>6. Promised(i)' <= Promised(i)
    BY <2>2, <2>3, <2>4, <2>5
  <2> QED
    BY <2>6 DEF Upheld
<1> QED
  BY <1>1, Upholds

(* All cart rows are deleted.                                              *)
LEMMA WipeCartsReckoned ==
  ASSUME Reckoned, Ground', WipeCarts
  PROVE  Reckoned'
<1>1. Books /\ Balanced /\ Ground /\ NumbersKnown
  BY NumbersNow DEF Reckoned, Books
<1>2. /\ \A c \in Request : rows'[c] = None
      /\ orders' = orders /\ UNCHANGED <<items, toInsert, batches>>
  BY DEF WipeCarts, catalogueVars
<1>3. /\ UNCHANGED <<stock, key, req, exp, server>> /\ server \in {"down", "up"}
      /\ \A i : ~Settled(i)'
      /\ \A i : Unopened(i)' => Unopened(i)
      /\ Listing'
  BY <1>2, WipeLeaves DEF WipeCarts
<1>4. \A row : row.id \in Request => Match(row)'
  BY <1>2, <1>3 DEF Match
<1>5. \A u : FindByUser(u)' = {}
  BY <1>2 DEF FindByUser
<1>6. Recalls'
  <2> SUFFICES ASSUME NEW s \in Request PROVE Recall(s)'
    BY DEF Recalls
  <2>1. Recall(s)
    BY <1>1 DEF Books, Recalls
  <2>2. BaseRow(req[s])' = BaseRow(req[s])
    BY <1>3 DEF BaseRow
  <2>3. req[s].pc \in {"reserve", "save"} => req[s].id \in Request /\ BaseRow(req[s]).id = req[s].id
    BY <1>1, BaseRowType
  <2>4. \A x \in req[s].todo : x.id \in Request
    BY <1>1, TodoRows
  <2>5. /\ req'[s].pc \in {"reserve", "save"}
             => IF req'[s].base = 0 THEN rows'[req'[s].id] = None ELSE Match(BaseRow(req[s]))'
        /\ req'[s].pc \in {"release", "drop", "delete", "order", "shrink"}
             => /\ \A row \in req'[s].todo : Match(row)'
                /\ \A x, y \in req'[s].todo : x.id = y.id => x = y
    BY <1>2, <1>3, <1>4, <2>1, <2>3, <2>4 DEF Recall
  <2> QED
    BY <1>2, <1>3, <1>5, <2>1, <2>2, <2>5 DEF Recall, Started
<1>7. ExpiryRecalls'
  <2>1. \A h \in exp : h.pc = "release" => h.row.id \in Request
    BY <1>1, WhoseNow DEF Whose
  <2> QED
    BY <1>1, <1>3, <1>4, <2>1 DEF Books, ExpiryRecalls, Started
<1>8. Books'
  <2>1. Alone' /\ KeysStarted'
    BY <1>1, <1>3 DEF Books, Alone, KeysStarted, InFlight, Started
  <2>2. Booted'
    BY <1>1, <1>2, <1>3 DEF Books, Booted
  <2> QED
    BY <1>3, <1>6, <1>7, <2>1, <2>2 DEF Books
<1>9. Claims' \subseteq Claims
  <2>1. /\ \A r \in Request : Carried(r)' = Carried(r)
        /\ \A c \in Request : ~Standing(c)'
    BY <1>2, <1>3, SameHandlers DEF Standing
  <2> SUFFICES ASSUME NEW x \in Claims' PROVE x \in Claims
    OBVIOUS
  <2> QED
    BY <1>3, <2>1, ClaimIs, ClaimIsNext
<1>10. ASSUME NEW i \in Item PROVE Claimed(i)' + Sold(i)' <= Claimed(i) + Sold(i)
  <2>1. Claimed(i)' <= Claimed(i)
    <3>1. Billable(Claims)
      BY <1>1, ClaimsBillableNow
    <3>2. UnitsIn(Claims', i) <= UnitsIn(Claims, i)
      BY <1>9, <3>1, FewerRows
    <3>3. Claimed(i)' = UnitsIn(Claims', i)
      BY UnitsNext
    <3>4. Claimed(i) = UnitsIn(Claims, i)
      BY Zenon DEF Claimed, UnitsIn
    <3> QED
      BY <3>2, <3>3, <3>4, Zenon
  <2>2. Sold(i)' = Sold(i)
    BY <1>2, <1>3, SameHandlers
  <2>3. Claimed(i)' \in Nat /\ Claimed(i) \in Nat /\ Sold(i) \in Nat
    BY <1>8, <1>1, NumbersNext DEF NumbersKnown
  <2> QED
    BY <2>1, <2>2, <2>3
<1> QED
  BY <1>1, <1>3, <1>8, <1>10, FewerPromised DEF Reckoned

-----------------------------------------------------------------------------
(* The orders are deleted, those too whose rows are still in the cart.     *)

(* Rows that have been sold have no more units than the orders.            *)
LEMMA SoldRows ==
  ASSUME Ground, NEW R, \A x \in R : \E r \in Request : x \in orders[r], NEW i
  PROVE  UnitsIn(R, i) <= Sold(i)
<1> DEFINE S == SoldUnits(i)
           f == [t \in S |-> t[2]]
           T == {f[t] : t \in S}
           U == UnitsOf(RowsOf(R, i))
<1>1. IsFiniteSet(S)
  BY SoldNumber
<1>2. U \subseteq T
  <2> SUFFICES ASSUME NEW y \in U PROVE y \in T
    OBVIOUS
  <2>1. PICK x \in RowsOf(R, i) : y \in {x.id} \X (1 .. x.qty)
    BY DEF UnitsOf
  <2>2. x \in R /\ x.item = i
    BY <2>1 DEF RowsOf
  <2>3. PICK r \in Request : x \in orders[r]
    BY <2>2
  <2>4. y \in UnitsOf({row \in orders[r] : row.item = i})
    BY <2>1, <2>2, <2>3 DEF UnitsOf
  <2>5. <<r, y>> \in S
    <3>1. PICK V : V = UnitsOf({row \in orders[r] : row.item = i})
      OBVIOUS
    <3>2. <<r, y>> \in {r} \X V
      BY <2>4, <3>1
    <3> QED
      BY <2>3, <3>1, <3>2, Zenon DEF SoldUnits
  <2>6. f[<<r, y>>] = y
    BY <2>5
  <2> QED
    BY <2>5, <2>6
<1>3. f \in Surjection(S, T)
  BY DEF Surjection
<1> HIDE DEF S, f, T, U
<1>4. IsFiniteSet(T) /\ Cardinality(T) <= Cardinality(S)
  BY <1>1, <1>3, FS_Surjection
<1>5. IsFiniteSet(U) /\ Cardinality(U) <= Cardinality(T)
  BY <1>2, <1>4, FS_Subset
<1>6. Cardinality(U) \in Nat /\ Cardinality(T) \in Nat /\ Cardinality(S) \in Nat
  BY <1>1, <1>4, <1>5, FS_CardinalityType
<1>7. Cardinality(U) <= Cardinality(S)
  BY <1>4, <1>5, <1>6
<1>8. UnitsIn(R, i) = Cardinality(U) /\ Sold(i) = Cardinality(S)
  BY DEF UnitsIn, QtyOf, Sold, S, U
<1> QED
  BY <1>7, <1>8

(* Claims that were not there before are on rows that had been sold.       *)
LEMMA MoreClaimed ==
  ASSUME Books, Books', \A x \in Claims' \ Claims : \E r \in Request : x \in orders[r], NEW i \in Item
  PROVE  Claimed(i)' <= Claimed(i) + Sold(i)
<1> DEFINE N == Claims' \ Claims
           M == Claims' \cap Claims
<1>1. Billable(Claims) /\ Billable(Claims') /\ Ground
  BY ClaimsBillableNow, ClaimsBillableNext DEF Billable, Books
<1>2. Claims' = N \cup M /\ N \cap M = {} /\ M \subseteq Claims
      /\ \A x \in N : \E r \in Request : x \in orders[r]
  OBVIOUS
<1> HIDE DEF N, M
<1>3. Billable(N \cup M)
  BY <1>1, <1>2
<1>4. /\ UnitsIn(N, i) \in Nat /\ UnitsIn(M, i) \in Nat
      /\ UnitsIn(N \cup M, i) = UnitsIn(N, i) + UnitsIn(M, i)
  <2>1. Apart(N, M)
    BY <1>2, <1>3 DEF Apart
  <2>2. Additive(N, M)
    BY <2>1, ApartAdditive
  <2> QED
    BY <2>2 DEF Additive
<1>5. UnitsIn(M, i) <= UnitsIn(Claims, i) /\ UnitsIn(Claims, i) \in Nat
  BY <1>1, <1>2, FewerRows
<1>6. UnitsIn(N, i) <= Sold(i) /\ Sold(i) \in Nat
  BY <1>1, <1>2, SoldRows, SoldNumber
<1>7. UnitsIn(N \cup M, i) <= UnitsIn(Claims, i) + Sold(i)
  BY <1>4, <1>5, <1>6
<1>8. Claimed(i)' = UnitsIn(N \cup M, i)
  BY <1>2, UnitsNext, Zenon
<1>9. Claimed(i) = UnitsIn(Claims, i)
  BY Zenon DEF Claimed, UnitsIn
<1> QED
  BY <1>7, <1>8, <1>9, Zenon

(* All orders are deleted.                                                 *)
LEMMA WipeOrdersReckoned ==
  ASSUME Reckoned, Ground', WipeOrders
  PROVE  Reckoned'
<1>1. Books /\ Balanced /\ Ground /\ NumbersKnown
  BY NumbersNow DEF Reckoned, Books
<1>2. /\ \A r \in Request : orders'[r] = {}
      /\ rows' = rows /\ UNCHANGED <<items, toInsert, batches>>
  BY DEF WipeOrders, catalogueVars
<1>3. /\ UNCHANGED <<stock, key, req, exp, server>> /\ server \in {"down", "up"}
      /\ \A i : ~Settled(i)'
      /\ \A i : Unopened(i)' => Unopened(i)
      /\ Listing'
  BY <1>2, WipeLeaves DEF WipeOrders
<1>4. \A row : Match(row) => Match(row)'
  BY <1>2, <1>3 DEF Match
<1>5. \A u : FindByUser(u)' = FindByUser(u)
  BY <1>2, FoundSame
<1>6. Recalls'
  <2> SUFFICES ASSUME NEW s \in Request PROVE Recall(s)'
    BY DEF Recalls
  <2>1. Recall(s)
    BY <1>1 DEF Books, Recalls
  <2>2. BaseRow(req[s])' = BaseRow(req[s])
    BY <1>3 DEF BaseRow
  <2>3. /\ req'[s].pc \in {"reserve", "save"}
             => IF req'[s].base = 0 THEN rows'[req'[s].id] = None ELSE Match(BaseRow(req[s]))'
        /\ req'[s].pc \in {"release", "drop", "delete", "order", "shrink"}
             => /\ \A row \in req'[s].todo : Match(row)'
                /\ \A x, y \in req'[s].todo : x.id = y.id => x = y
    BY <1>2, <1>3, <1>4, <2>1 DEF Recall
  <2> QED
    BY <1>2, <1>3, <1>5, <2>1, <2>2, <2>3 DEF Recall, Started
<1>7. ExpiryRecalls'
  BY <1>1, <1>3, <1>4 DEF Books, ExpiryRecalls, Started
<1>8. Books'
  <2>1. Alone' /\ KeysStarted'
    BY <1>1, <1>3 DEF Books, Alone, KeysStarted, InFlight, Started
  <2>2. Booted'
    BY <1>1, <1>2, <1>3 DEF Books, Booted
  <2> QED
    BY <1>3, <1>6, <1>7, <2>1, <2>2 DEF Books
<1>9. \A x \in Claims' \ Claims : \E r \in Request : x \in orders[r]
  <2> SUFFICES ASSUME NEW x \in Claims', x \notin Claims PROVE \E r \in Request : x \in orders[r]
    OBVIOUS
  <2>1. \A r \in Request : Carried(r)' = Carried(r)
    BY <1>3, SameHandlers
  <2>2. PICK c \in Request : Standing(c)' /\ x = rows'[c]
    BY <1>3, <2>1, ClaimIs, ClaimIsNext
  <2>3. ~Standing(c)
    BY <1>2, <2>2, ClaimIs
  <2>4. /\ rows[c] # None /\ \A h \in exp : ~(h.pc = "delete" /\ h.id = c)
        /\ \A r \in Request : ~Taken(r, c)'
    BY <1>2, <1>3, <2>2 DEF Standing
  <2>5. PICK r \in Request : Taken(r, c)
    BY <2>3, <2>4 DEF Standing
  <2>6. req[r].pc \in {"clear", "empty"} /\ orders[r] # {}
    BY <1>3, <2>4, <2>5 DEF Taken
  <2>7. req[c].user = req[r].user /\ rows[c].user = req[c].user
    BY <1>1, <2>4, <2>5, WhoseNow DEF Whose
  <2>8. rows[c] \in FindByUser(req[r].user)
    BY <2>4, <2>7, FoundIs
  <2>9. FindByUser(req[r].user) \subseteq orders[r]
    BY <1>1, <2>6 DEF Books, Recalls, Recall
  <2> QED
    BY <1>2, <2>2, <2>8, <2>9
<1>10. ASSUME NEW i \in Item PROVE Claimed(i)' + Sold(i)' <= Claimed(i) + Sold(i)
  <2>1. Claimed(i)' <= Claimed(i) + Sold(i)
    BY <1>1, <1>8, <1>9, MoreClaimed
  <2>2. Sold(i)' = 0
    <3>1. SoldUnits(i)' = {}
      BY <1>2 DEF SoldUnits, UnitsOf
    <3>2. Sold(i)' = Cardinality(SoldUnits(i)')
      BY Zenon DEF Sold
    <3> QED
      BY <3>1, <3>2, FS_EmptySet
  <2>3. Claimed(i)' \in Nat /\ Claimed(i) \in Nat /\ Sold(i) \in Nat
    BY <1>8, <1>1, NumbersNext DEF NumbersKnown
  <2> QED
    BY <2>1, <2>2, <2>3
<1> QED
  BY <1>1, <1>3, <1>8, <1>10, FewerPromised DEF Reckoned

-----------------------------------------------------------------------------
(* Every step of the shop.                                                 *)

(* The handlers neither boot nor stop the server.                          *)
LEMMA HandlersServe ==
  ASSUME NEW r \in Request, Call(r) \/ Step(r)
  PROVE  server' = server
<1>1. CASE Call(r)
  BY <1>1 DEF Call, AddToCart, Increase, Decrease, RemoveFromCart, Checkout, serverVars
<1>2. CASE Step(r)
  <2>1. CASE IncreaseReserve(r) \/ SaveRow(r) \/ SaveRowReplyLost(r) \/ Undo(r) \/ UndoDrop(r)
    BY <2>1 DEF IncreaseReserve, SaveRow, SaveRowReplyLost, Undo, UndoDrop, serverVars
  <2>2. CASE ReleaseRow(r) \/ DropKey(r) \/ DeleteRow(r) \/ ShrinkRow(r) \/ Survey(r) \/ RefreshKey(r)
    BY <2>2 DEF ReleaseRow, DropKey, DeleteRow, ShrinkRow, Survey, RefreshKey, serverVars
  <2>3. CASE SaveOrder(r) \/ ClearKey(r) \/ EmptyCart(r) \/ GetRemaining(r) \/ Emit(r) \/ CommandFails(r)
    BY <2>3 DEF SaveOrder, ClearKey, EmptyCart, GetRemaining, Emit, CommandFails, serverVars
  <2> QED
    BY <1>2, <2>1, <2>2, <2>3 DEF Step
<1> QED
  BY <1>1, <1>2

(* Nor do the keys' expiry and its handlers.                               *)
LEMMA ExpiryServes ==
  ASSUME (\E c \in Request : KeyExpires(c)) \/ (\E h \in exp : ExpireStep(h))
  PROVE  server' = server
BY DEF KeyExpires, ExpireStep, ExpireFind, ExpireRelease, ExpireDelete, ExpireEmit, ExpireFails, serverVars

(* A call of the shop.                                                     *)
LEMMA CallShopReckoned ==
  ASSUME CartsOneAtATime, Reckoned, Ground', NEW r \in Request, CallShop(r)
  PROVE  Reckoned'
<1>1. Call(r)
  BY CallIsFlashSale
<1>2. Inv
  BY GroundParts DEF Reckoned, Books
<1>3. Kept
  BY <1>1, <1>2, CallKept
<1>4. Frozen
  BY <1>1, HandlersServe DEF CallShop, Frozen, catalogueVars, adminVars
<1> QED
  BY <1>1, <1>3, <1>4, CallReckoned

(* A checkout prices its lines, or ends.                                   *)
LEMMA PriceLinesReckoned ==
  ASSUME Reckoned, Ground', NEW r \in Request, PriceLines(r)
  PROVE  Reckoned'
<1>1. /\ Frozen /\ At(r, "order") /\ UNCHANGED <<redisVars, mongoVars, exp>>
      /\ UNCHANGED <<rows, orders, exp, stock, key>>
  BY DEF PriceLines, Frozen, catalogueVars, adminVars, serverVars, mongoVars, redisVars
<1>2. CASE UNCHANGED req
  BY <1>1, <1>2, AsideReckoned
<1>3. CASE Become(r, Finished(req[r])) /\ UNCHANGED bill
  <2>1. ShopInv
    BY DEF Reckoned, Books, Ground, ChargedInv
  <2>2. Kept
    BY <1>3, <2>1, EndsInv DEF PriceLines
  <2> QED
    BY <1>1, <1>3, <2>2, CheckoutEnds
<1> QED
  BY <1>2, <1>3 DEF PriceLines

(* The handlers' steps.                                                    *)
LEMMA HandlerStepsReckoned ==
  ASSUME CartsOneAtATime, Reckoned, Ground', HandlerSteps
  PROVE  Reckoned'
<1>1. Inv /\ AllLocalsOwned
  BY GroundParts DEF Reckoned, Books, Separated
<1>2. server' = server => Frozen
  BY DEF HandlerSteps, Frozen, catalogueVars, adminVars
<1>3. ASSUME NEW r \in Request, Step(r) PROVE Reckoned'
  BY <1>1, <1>2, <1>3, HandlersServe, StepKept, StepReckoned
<1>4. ASSUME NEW c \in Request, KeyExpires(c) PROVE Reckoned'
  BY <1>2, <1>4, ExpiryServes, KeyExpiresReckoned
<1>5. ASSUME NEW h \in exp, ExpireStep(h) PROVE Reckoned'
  BY <1>2, <1>5, ExpiryServes, ExpireStepReckoned
<1> QED
  BY <1>3, <1>4, <1>5 DEF HandlerSteps

(* Every step keeps the invariant.                                         *)
LEMMA ReckonedNext ==
  ASSUME CartsOneAtATime, Reckoned, [ShopNext]_shopVars
  PROVE  Reckoned'
<1>1. Ground'
  BY GroundNext DEF Reckoned, Books
<1>2. CASE UNCHANGED shopVars \/ LogIn \/ \E r \in Request, u \in User, i \in Wanted : LooksUp(r, u, i)
  <2>1. UNCHANGED <<rows, orders, req, exp, stock, key>> /\ Frozen
    BY <1>2 DEF shopVars, LogIn, LooksUp, backVars, catalogueVars, adminVars, Frozen
  <2> QED
    BY <1>1, <2>1, AsideReckoned
<1>3. CASE ShopBoots \/ Fill
  BY <1>1, <1>3, FillReckoned, BootReckoned DEF ShopBoots
<1>4. CASE Reset \/ Dies
  BY <1>1, <1>4, ScriptReckoned, DeleteKeysReckoned, SeedCreatedReckoned, WipeCartsReckoned,
     WipeOrdersReckoned DEF Reset
<1>5. CASE \E r \in Request : CallShop(r) \/ PriceLines(r)
  BY <1>1, <1>5, CallShopReckoned, PriceLinesReckoned
<1>6. CASE HandlerSteps
  BY <1>1, <1>6, HandlerStepsReckoned
<1> QED
  BY <1>2, <1>3, <1>4, <1>5, <1>6 DEF ShopNext

(* The invariant holds initially.                                          *)
LEMMA ReckonedInit ==
  ASSUME ShopInit
  PROVE  Reckoned
<1>1. Ground
  BY GroundInit
<1>2. /\ exp = {} /\ server = "down" /\ admin.pc = "idle"
      /\ \A r \in Request : req[r] = Fresh /\ orders[r] = {} /\ rows[r] = None /\ key[r] = None
      /\ \A i \in Item : stock[i] = 0
  BY DEF ShopInit, Resting, Nothing
<1>3. \A r \in Request : req[r].pc = "new"
  BY <1>2 DEF Fresh
<1>4. Books
  <2>1. Alone /\ KeysStarted
    BY <1>2, <1>3 DEF Alone, KeysStarted, InFlight, Started
  <2>2. Recalls /\ ExpiryRecalls
    BY <1>2, <1>3 DEF Recalls, Recall, ExpiryRecalls, Started
  <2>3. Booted /\ Listing
    BY <1>2, <1>3 DEF Booted, Listing
  <2> QED
    BY <1>1, <2>1, <2>2, <2>3 DEF Books
<1>5. \A i : ~Settled(i)
  BY <1>2 DEF Settled
<1>6. ASSUME NEW i \in Item PROVE Promised(i) <= Ceiling(i)
  <2>1. Claimed(i) = 0 /\ Pending(i) = 0 /\ Sold(i) = 0
    BY <1>2, <1>4, NothingYet
  <2>2. Promised(i) = 0 + 0 + 0 + 0
    BY <1>2, <2>1, PromiseIs, Zenon DEF PromiseParts
  <2>3. Ceiling(i) \in Nat
    BY <1>4, NumbersNow DEF NumbersKnown
  <2> QED
    BY <2>2, <2>3
<1> QED
  BY <1>4, <1>5, <1>6 DEF Reckoned, Balanced

-----------------------------------------------------------------------------
(* The units in carts, and those that are claimed.                         *)

(* The rows of an item that are not about to be deleted.                   *)
CartRows(i) == {row \in RowsOfItem(i) : ~Leaving(row.id)}
(* The handlers that are about to shrink a row of the item.                *)
Cutting(i) == {r \in Request : /\ req[r].pc = "shrink"
                              /\ req[r].item = i}
(* A row that nobody is about to shrink.                                   *)
Spared(row) == \A r \in Request : ~(req[r].pc = "shrink" /\ req[r].id = row.id)
(* The rows of the item, those as they will be that are about to be shrunk. *)
Uncut(i) == {row \in CartRows(i) : Spared(row)} \cup {ShrunkRow(req[r]) : r \in Cutting(i)}
(* The units that handler r is about to cut off its row.                   *)
Last(r) == {req[r].id} \X ((req[r].base - req[r].arg + 1) .. req[r].base)
(* All the units of the item that are about to be cut off.                 *)
CutOff(i) == UNION {Last(r) : r \in Cutting(i)}

(* What a row in the cart is.                                              *)
LEMMA CartRowIs ==
  ASSUME Ground, NEW i, NEW row
  PROVE  row \in CartRows(i) <=> \E c \in Request : /\ rows[c] # None /\ rows[c].item = i
                                                    /\ row = rows[c] /\ row.id = c /\ ~Leaving(c)
<1>1. \A c \in Request : rows[c] # None => rows[c].id = c
  BY GroundParts
<1> QED
  BY <1>1 DEF CartRows, RowsOfItem

(* It stands if nobody is about to shrink it.                              *)
LEMMA CartRowStands ==
  ASSUME NEW c \in Request
  PROVE  Standing(c) <=> /\ rows[c] # None /\ ~Leaving(c)
                         /\ \A r \in Request : ~(req[r].pc = "shrink" /\ req[r].id = c)
BY DEF Standing, Leaving, Taken

(* A handler that is about to shrink a row is alone with it.               *)
LEMMA CutterKnows ==
  ASSUME Books, NEW r \in Request, req[r].pc = "shrink"
  PROVE  /\ req[r].id \in Request /\ req[r].base \in Nat /\ req[r].arg \in Nat
         /\ req[r].base - req[r].arg \in Nat
         /\ ShrunkRow(req[r]) \in Claims /\ ShrunkRow(req[r]) \in CartRow
         /\ rows[req[r].id] # None => rows[req[r].id] = BaseRow(req[r])
         /\ Settled(req[r].item) => rows[req[r].id] = BaseRow(req[r]) /\ rows[req[r].id] # None
         /\ ~Leaving(req[r].id)
         /\ \A s \in Request : req[s].pc = "shrink" /\ req[s].id = req[r].id => s = r
<1>1. /\ Ground /\ Recall(r) /\ InFlight(r) /\ req[r] \in Locals
  BY GroundParts DEF Books, Recalls, InFlight
<1>2. /\ req[r].id \in Request /\ req[req[r].id].user = req[r].user
      /\ ShrunkRow(req[r]) \in CartRow
      /\ BaseRow(req[r]).id = req[r].id
      /\ BaseRow(req[r]).item = req[r].item
      /\ ShrunkRow(req[r]).qty = req[r].base - req[r].arg
  BY <1>1, BaseRowType
<1>3. req[r].base \in Nat /\ req[r].arg \in Nat /\ req[r].base - req[r].arg \in Nat
  <2>1. ShrunkRow(req[r]).qty \in Nat
    BY <1>2 DEF CartRow
  <2> QED
    BY <1>1, <1>2, <2>1 DEF Locals
<1>4. ShrunkRow(req[r]) \in Claims
  <2>1. ShrunkRow(req[r]) \in Carried(r)
    BY DEF Carried
  <2> QED
    BY <2>1, ClaimIs
<1>5. Match(BaseRow(req[r]))
  BY <1>1 DEF Recall
<1>6. BaseRow(req[r]) # None
  <2>1. req[r].base # 0
    BY <1>2, <1>3 DEF CartRow
  <2>2. BaseRow(req[r]) \in CartRow
    BY <1>1, <2>1, BaseRowType
  <2> QED
    BY <2>2, RowAssumption
<1>7. ASSUME NEW s \in Request, Taken(s, req[r].id) PROVE s = r
  BY <1>1, <1>2, <1>7, WhoseNow DEF Whose, Books, Alone
<1>8. \A h \in exp : h.id # req[r].id
  BY <1>1, <1>2 DEF Books, Alone
<1>9. ~Leaving(req[r].id)
  <2>1. \A s \in Request : req[s].pc \in {"drop", "delete"} => ~(req[s].id = req[r].id)
    BY <1>7 DEF Taken
  <2>2. \A s \in Request : req[s].pc \in {"clear", "empty"} => ~(\E row \in orders[s] : row.id = req[r].id)
    BY <1>7 DEF Taken
  <2> QED
    BY <1>8, <2>1, <2>2 DEF Leaving
<1>10. \A s \in Request : req[s].pc = "shrink" /\ req[s].id = req[r].id => s = r
  BY <1>7 DEF Taken
<1> QED
  BY <1>2, <1>3, <1>4, <1>5, <1>6, <1>9, <1>10 DEF Match

(* What is left of the rows is claimed.                                    *)
LEMMA UncutClaimed ==
  ASSUME Books, NEW i
  PROVE  Uncut(i) \subseteq RowsOf(Claims, i)
<1> SUFFICES ASSUME NEW row \in Uncut(i) PROVE row \in Claims /\ row.item = i
  BY DEF RowsOf
<1>1. CASE row \in CartRows(i) /\ Spared(row)
  <2>1. PICK c \in Request : /\ rows[c] # None /\ rows[c].item = i
                             /\ row = rows[c] /\ row.id = c /\ ~Leaving(c)
    BY <1>1, CartRowIs DEF Books
  <2>2. Standing(c)
    BY <1>1, <2>1, CartRowStands DEF Spared
  <2> QED
    BY <2>1, <2>2, ClaimIs
<1>2. CASE \E r \in Cutting(i) : row = ShrunkRow(req[r])
  <2>1. PICK r \in Cutting(i) : row = ShrunkRow(req[r])
    BY <1>2
  <2> QED
    BY <2>1, CutterKnows DEF Cutting, ShrunkRow
<1> QED
  BY <1>1, <1>2 DEF Uncut

(* A row in the cart whose handler is about to shrink it.                  *)
LEMMA CutRow ==
  ASSUME Books, NEW i, NEW row \in CartRows(i), NEW r \in Request, req[r].pc = "shrink", req[r].id = row.id
  PROVE  r \in Cutting(i) /\ row = BaseRow(req[r]) /\ row.qty = req[r].base
<1>1. PICK c \in Request : /\ rows[c] # None /\ rows[c].item = i
                           /\ row = rows[c] /\ row.id = c /\ ~Leaving(c)
  BY CartRowIs DEF Books
<1>2. row = BaseRow(req[r])
  BY <1>1, CutterKnows
<1>3. row.qty = req[r].base /\ row.item = req[r].item
  BY <1>2 DEF BaseRow
<1> QED
  BY <1>1, <1>2, <1>3 DEF Cutting

(* The units of the rows are those of what will be left, and the others.   *)
LEMMA UnitsCut ==
  ASSUME Books, NEW i
  PROVE  UnitsOf(CartRows(i)) \subseteq UnitsOf(Uncut(i)) \cup CutOff(i)
<1> SUFFICES ASSUME NEW t \in UnitsOf(CartRows(i))
             PROVE  t \in UnitsOf(Uncut(i)) \/ t \in CutOff(i)
  OBVIOUS
<1>1. PICK row \in CartRows(i) : t \in {row.id} \X (1 .. row.qty)
  BY DEF UnitsOf
<1>2. CASE Spared(row)
  BY <1>1, <1>2 DEF Uncut, UnitsOf
<1>3. CASE ~Spared(row)
  <2>1. PICK r \in Request : req[r].pc = "shrink" /\ req[r].id = row.id
    BY <1>3 DEF Spared
  <2>2. r \in Cutting(i) /\ row.qty = req[r].base
    BY <2>1, CutRow
  <2>3. req[r].base \in Nat /\ req[r].arg \in Nat /\ req[r].base - req[r].arg \in Nat
    BY <2>1, CutterKnows
  <2>4. PICK k \in 1 .. req[r].base : t = <<req[r].id, k>>
    BY <1>1, <2>1, <2>2
  <2>5. CASE k <= req[r].base - req[r].arg
    <3>1. ShrunkRow(req[r]).id = req[r].id /\ ShrunkRow(req[r]).qty = req[r].base - req[r].arg
      BY DEF ShrunkRow
    <3>2. t \in {ShrunkRow(req[r]).id} \X (1 .. ShrunkRow(req[r]).qty)
      BY <2>3, <2>4, <2>5, <3>1
    <3>3. ShrunkRow(req[r]) \in Uncut(i)
      BY <2>2 DEF Uncut
    <3> QED
      BY <3>2, <3>3 DEF UnitsOf
  <2>6. CASE ~(k <= req[r].base - req[r].arg)
    <3>1. k \in (req[r].base - req[r].arg + 1) .. req[r].base
      BY <2>3, <2>6
    <3>2. t \in Last(r)
      BY <2>4, <3>1 DEF Last
    <3> QED
      BY <2>2, <3>2 DEF CutOff
  <2> QED
    BY <2>5, <2>6
<1> QED
  BY <1>2, <1>3

(* They will have lost as many units as their handlers have given back.    *)
LEMMA CutOffNumber ==
  ASSUME Books, NEW i
  PROVE  /\ IsFiniteSet(CutOff(i))
         /\ Cardinality(CutOff(i)) = Cardinality(ArgUnits(Cutting(i)))
<1> DEFINE S == ArgUnits(Cutting(i))
           T == CutOff(i)
           from(r) == req[r].base - req[r].arg
           g == [t \in S |-> <<req[t[1]].id, from(t[1]) + t[2]>>]
<1>1. \A r \in Cutting(i) : /\ r \in Request /\ req[r].id \in Request
                            /\ req[r].base \in Nat /\ req[r].arg \in Nat /\ from(r) \in Nat
  BY CutterKnows DEF Cutting
<1>2. \A r, s \in Cutting(i) : req[s].id = req[r].id => s = r
  BY CutterKnows DEF Cutting
<1>3. IsFiniteSet(S)
  <2>1. IsFiniteSet(Cutting(i))
    BY EnvironmentAssumption, FS_Subset DEF Cutting
  <2>2. PICK x, n : x = [r \in Cutting(i) |-> r] /\ n = [r \in Cutting(i) |-> req[r].arg]
    OBVIOUS
  <2>3. \A r \in Cutting(i) : n[r] \in Nat
    BY <1>1, <2>2
  <2>4. IsFiniteSet(UNION {{x[r]} \X (1 .. n[r]) : r \in Cutting(i)})
    BY <2>1, <2>3, StacksFinite
  <2>5. S = UNION {{x[r]} \X (1 .. n[r]) : r \in Cutting(i)}
    BY <2>2 DEF ArgUnits
  <2> QED
    BY <2>4, <2>5
<1>4. \A t \in S : \E r \in Cutting(i) : \E k \in 1 .. req[r].arg : t = <<r, k>>
  BY DEF ArgUnits
<1>5. \A r \in Cutting(i) : \A k \in 1 .. req[r].arg :
        /\ <<r, k>> \in S
        /\ g[<<r, k>>] = <<req[r].id, from(r) + k>>
  <2> SUFFICES ASSUME NEW r \in Cutting(i), NEW k \in 1 .. req[r].arg
               PROVE  <<r, k>> \in S /\ g[<<r, k>>] = <<req[r].id, from(r) + k>>
    OBVIOUS
  <2>1. <<r, k>> \in {r} \X (1 .. req[r].arg)
    OBVIOUS
  <2>2. <<r, k>> \in S
    BY <2>1 DEF ArgUnits
  <2> QED
    BY <2>2
<1>6. ASSUME NEW r \in Cutting(i), NEW y
      PROVE  y \in Last(r) <=> \E k \in 1 .. req[r].arg : y = <<req[r].id, from(r) + k>>
  <2>1. PICK b \in Nat, a \in Nat : b = req[r].base /\ a = req[r].arg /\ b - a \in Nat
    BY <1>1
  <2>2. ASSUME NEW k \in 1 .. a PROVE b - a + k \in (b - a + 1) .. b
    BY <2>1
  <2>3. ASSUME NEW m \in (b - a + 1) .. b PROVE m - (b - a) \in 1 .. a /\ m = b - a + (m - (b - a))
    BY <2>1
  <2>4. Last(r) = {req[r].id} \X ((b - a + 1) .. b)
    BY <2>1 DEF Last
  <2>5. ASSUME y \in Last(r) PROVE \E k \in 1 .. a : y = <<req[r].id, b - a + k>>
    <3>1. PICK m \in (b - a + 1) .. b : y = <<req[r].id, m>>
      BY <2>4, <2>5
    <3> QED
      BY <2>3, <3>1
  <2>6. ASSUME NEW k \in 1 .. a, y = <<req[r].id, b - a + k>> PROVE y \in Last(r)
    BY <2>2, <2>4, <2>6
  <2> QED
    BY <2>1, <2>5, <2>6
<1>7. \A y \in T : \E t \in S : g[t] = y
  <2> SUFFICES ASSUME NEW y \in T PROVE \E t \in S : g[t] = y
    OBVIOUS
  <2>1. PICK r \in Cutting(i) : y \in Last(r)
    BY DEF CutOff
  <2>2. PICK k \in 1 .. req[r].arg : y = <<req[r].id, from(r) + k>>
    BY <1>6, <2>1
  <2> HIDE DEF g, S
  <2> QED
    BY <1>5, <2>2
<1>8. \A t \in S : g[t] \in T
  <2> SUFFICES ASSUME NEW t \in S PROVE g[t] \in T
    OBVIOUS
  <2>1. PICK r \in Cutting(i) : \E k \in 1 .. req[r].arg : t = <<r, k>>
    BY <1>4
  <2>1a. PICK k \in 1 .. req[r].arg : t = <<r, k>>
    BY <2>1
  <2>2. g[t] = <<req[r].id, from(r) + k>>
    BY <1>5, <2>1a
  <2> HIDE DEF g, S
  <2>3. g[t] \in Last(r)
    BY <1>6, <2>2
  <2> QED
    BY <2>3 DEF CutOff
<1>9. \A t, u \in S : g[t] = g[u] => t = u
  <2> SUFFICES ASSUME NEW t \in S, NEW u \in S, g[t] = g[u] PROVE t = u
    OBVIOUS
  <2>1. PICK r \in Cutting(i) : \E k \in 1 .. req[r].arg : t = <<r, k>>
    BY <1>4
  <2>1a. PICK k \in 1 .. req[r].arg : t = <<r, k>>
    BY <2>1
  <2>2. PICK s \in Cutting(i) : \E m \in 1 .. req[s].arg : u = <<s, m>>
    BY <1>4
  <2>2a. PICK m \in 1 .. req[s].arg : u = <<s, m>>
    BY <2>2
  <2>3. g[t] = <<req[r].id, from(r) + k>> /\ g[u] = <<req[s].id, from(s) + m>>
    BY <1>5, <2>1a, <2>2a
  <2>4. req[r].id = req[s].id /\ from(r) + k = from(s) + m
    BY <2>3
  <2>5. r = s
    BY <1>2, <2>4
  <2>6. k = m
    <3>1. from(r) \in Nat /\ k \in Int /\ m \in Int /\ from(r) + k = from(r) + m
      BY <1>1, <2>4, <2>5
    <3> HIDE DEF from
    <3> QED
      BY <3>1
  <2> QED
    BY <2>1a, <2>2a, <2>5, <2>6
<1>10. ExistsBijection(S, T)
  <2>1. g \in [S -> T]
    BY <1>8
  <2> HIDE DEF g, S, T
  <2>2. g \in Injection(S, T)
    BY <1>9, <2>1 DEF Injection, IsInjective
  <2>3. g \in Surjection(S, T)
    BY <1>7, <2>1 DEF Surjection
  <2>4. g \in Bijection(S, T)
    BY <2>2, <2>3 DEF Bijection
  <2> QED
    BY <2>4 DEF ExistsBijection
<1> HIDE DEF S, T
<1>11. IsFiniteSet(T) /\ Cardinality(T) = Cardinality(S)
  BY <1>3, <1>10, FS_Bijection
<1> QED
  BY <1>11 DEF S, T

(* What is left of the rows, and what will be lost, in numbers.            *)
LEMMA UncutNumber ==
  ASSUME Books, NEW i \in Item
  PROVE  /\ IsFiniteSet(UnitsOf(Uncut(i))) /\ QtyOf(Uncut(i)) \in Nat
         /\ QtyOf(Uncut(i)) <= Claimed(i)
         /\ RowsOf(Claims, i) = Uncut(i) => QtyOf(Uncut(i)) = Claimed(i)
<1>1. Billable(Claims)
  BY ClaimsBillableNow
<1>2. Billable(RowsOf(Claims, i)) /\ QtyOf(RowsOf(Claims, i)) \in Nat
  BY <1>1, RowsOfType
<1>3. RowsOf(Claims, i) \in SUBSET CartRow /\ IsFiniteSet(RowsOf(Claims, i))
  BY <1>2 DEF Billable
<1>4. IsFiniteSet(UnitsOf(RowsOf(Claims, i)))
  BY <1>3, UnitsFinite
<1>5. UnitsOf(Uncut(i)) \subseteq UnitsOf(RowsOf(Claims, i))
  BY UncutClaimed DEF UnitsOf
<1>6. /\ IsFiniteSet(UnitsOf(Uncut(i)))
      /\ Cardinality(UnitsOf(Uncut(i))) <= Cardinality(UnitsOf(RowsOf(Claims, i)))
  BY <1>4, <1>5, FS_Subset
<1>7. Cardinality(UnitsOf(Uncut(i))) \in Nat
  BY <1>6, FS_CardinalityType
<1>8. Claimed(i) = Cardinality(UnitsOf(RowsOf(Claims, i))) /\ QtyOf(Uncut(i)) = Cardinality(UnitsOf(Uncut(i)))
  BY DEF Claimed, QtyOf
<1> QED
  BY <1>6, <1>7, <1>8

(* In the carts are no more units than are claimed or pending.             *)
LEMMA InCartsAtMost ==
  ASSUME Books, NEW i \in Item
  PROVE  InCarts(i) \in Int /\ InCarts(i) <= Claimed(i) + Pending(i)
<1> DEFINE A == UnitsOf(CartRows(i))
           B == UnitsOf(Uncut(i))
           C == CutOff(i)
<1>1. IsFiniteSet(B) /\ IsFiniteSet(C) /\ A \subseteq B \cup C
  BY UncutNumber, CutOffNumber, UnitsCut
<1>2. InCarts(i) = Cardinality(A) + Pending(i) - Cardinality(C)
  BY CutOffNumber DEF InCarts, CartRows, Cutting, QtyOf
<1>3. Cardinality(B) <= Claimed(i)
  BY UncutNumber DEF QtyOf
<1> HIDE DEF A, B, C
<1>4. IsFiniteSet(B \cup C) /\ Cardinality(B \cup C) = Cardinality(B) + Cardinality(C) - Cardinality(B \cap C)
  BY <1>1, FS_Union
<1>5. IsFiniteSet(B \cap C) /\ IsFiniteSet(A) /\ Cardinality(A) <= Cardinality(B \cup C)
  BY <1>1, <1>4, FS_Subset
<1>6. /\ Cardinality(A) \in Nat /\ Cardinality(B) \in Nat /\ Cardinality(C) \in Nat
      /\ Cardinality(B \cap C) \in Nat /\ Cardinality(B \cup C) \in Nat
  BY <1>1, <1>4, <1>5, FS_CardinalityType
<1>7. Claimed(i) \in Nat /\ Pending(i) \in Nat
  BY NumbersNow DEF NumbersKnown
<1>8. PICK c \in Nat, p \in Nat, n \in Int : c = Claimed(i) /\ p = Pending(i) /\ n = InCarts(i)
                                             /\ n = Cardinality(A) + p - Cardinality(C)
  BY <1>2, <1>6, <1>7
<1>9. n <= c + p
  BY <1>3, <1>4, <1>5, <1>6, <1>8
<1> QED
  BY <1>8, <1>9

(* A claim on an item that is settled is one on a row that stands, or on   *)
(* one that is about to be shrunk.                                         *)
LEMMA SettledClaim ==
  ASSUME Books, NEW x \in Claims, Settled(x.item)
  PROVE  \/ \E r \in Cutting(x.item) : x = ShrunkRow(req[r])
         \/ \E c \in Request : Standing(c) /\ x = rows[c]
<1>0. Ground
  BY DEF Books
<1>1. CASE \E r \in Request : x \in Carried(r)
  <2>1. PICK r \in Request : x \in Carried(r)
    BY <1>1
  <2>2. /\ InFlight(r) /\ x \in CartRow /\ x.id \in Request /\ req[x.id].user = req[r].user
        /\ Recall(r)
    BY <2>1, WhoseNow DEF Whose, Books, Recalls
  <2>3. CASE req[r].pc = "shrink" /\ x = ShrunkRow(req[r])
    <3>1. x.item = req[r].item
      BY <2>3 DEF ShrunkRow
    <3> QED
      BY <2>3, <3>1 DEF Cutting
  <2>4. CASE ~(req[r].pc = "shrink" /\ x = ShrunkRow(req[r]))
    <3>1. \/ req[r].pc \in {"release", "order"} /\ x \in req[r].todo
          \/ req[r].pc \in {"drop", "delete"} /\ x \in req[r].todo
          \/ req[r].pc \in {"reserve", "save"} /\ req[r].base # 0 /\ x = BaseRow(req[r])
          \/ req[r].pc = "shrink" /\ x \in req[r].todo /\ x.id # req[r].id
      BY <2>1, <2>4 DEF Carried
    <3>2. Match(x)
      BY <2>2, <3>1 DEF Recall
    <3>3. ~Taken(r, x.id)
      BY <2>2, <3>1 DEF Taken, Recall
    <3>4. \A s \in Request : Taken(s, x.id) => s = r
      BY <2>2, WhoseNow DEF Whose, Books, Alone
    <3>5. \A h \in exp : h.id # x.id
      BY <2>2 DEF Books, Alone
    <3>6. rows[x.id] = x /\ x # None
      BY <2>2, <3>2, RowAssumption DEF Match
    <3> QED
      BY <2>2, <3>3, <3>4, <3>5, <3>6 DEF Standing
  <2> QED
    BY <2>3, <2>4
<1>2. CASE \E h \in exp : h.pc = "release" /\ x = h.row
  <2>1. PICK h \in exp : h.pc = "release" /\ x = h.row
    BY <1>2
  <2>2. /\ h.id \in Request /\ x \in CartRow /\ x.id = h.id /\ Match(x)
    BY <2>1, WhoseNow DEF Whose, Books, ExpiryRecalls
  <2>3. /\ \A r \in Request : ~Taken(r, h.id)
        /\ \A g \in exp : req[g.id].user = req[h.id].user => g = h
    BY ExpiryAlone
  <2>4. \A g \in exp : ~(g.pc = "delete" /\ g.id = h.id)
    BY <2>1, <2>3
  <2>5. rows[h.id] = x /\ x # None
    BY <2>2, RowAssumption DEF Match
  <2> QED
    BY <2>2, <2>3, <2>4, <2>5 DEF Standing
<1> QED
  BY <1>1, <1>2, ClaimIs

(* So what is left of the rows is all that is claimed.                     *)
LEMMA SettledUncut ==
  ASSUME Books, NEW i, Settled(i)
  PROVE  RowsOf(Claims, i) = Uncut(i)
<1> SUFFICES ASSUME NEW x \in Claims, x.item = i PROVE x \in Uncut(i)
  BY UncutClaimed DEF RowsOf
<1>1. CASE \E r \in Cutting(x.item) : x = ShrunkRow(req[r])
  BY <1>1 DEF Uncut
<1>2. CASE \E c \in Request : Standing(c) /\ x = rows[c]
  <2>1. PICK c \in Request : Standing(c) /\ x = rows[c]
    BY <1>2
  <2>2. /\ rows[c] # None /\ ~Leaving(c) /\ rows[c].id = c
        /\ \A r \in Request : ~(req[r].pc = "shrink" /\ req[r].id = c)
    BY <2>1, CartRowStands, GroundParts DEF Books
  <2>3. x \in CartRows(i)
    BY <2>1, <2>2, CartRowIs DEF Books
  <2>4. Spared(x)
    BY <2>1, <2>2 DEF Spared
  <2> QED
    BY <2>3, <2>4 DEF Uncut
<1> QED
  BY <1>1, <1>2, SettledClaim

(* The row that a handler is about to shrink is there, with all its units. *)
LEMMA SettledUnits ==
  ASSUME Books, NEW i, Settled(i)
  PROVE  /\ UnitsOf(CartRows(i)) = UnitsOf(Uncut(i)) \cup CutOff(i)
         /\ UnitsOf(Uncut(i)) \cap CutOff(i) = {}
<1>1. ASSUME NEW r \in Cutting(i)
      PROVE  /\ BaseRow(req[r]) \in CartRows(i)
             /\ BaseRow(req[r]).id = req[r].id /\ BaseRow(req[r]).qty = req[r].base
             /\ req[r].base \in Nat /\ req[r].arg \in Nat /\ req[r].base - req[r].arg \in Nat
             /\ ShrunkRow(req[r]).id = req[r].id
             /\ ShrunkRow(req[r]).qty = req[r].base - req[r].arg
             /\ \A s \in Request : req[s].pc = "shrink" /\ req[s].id = req[r].id => s = r
  <2>1. r \in Request /\ req[r].pc = "shrink" /\ req[r].item = i
    BY DEF Cutting
  <2>2. /\ req[r].id \in Request /\ ~Leaving(req[r].id)
        /\ rows[req[r].id] = BaseRow(req[r]) /\ rows[req[r].id] # None
    BY <2>1, CutterKnows
  <2>3. /\ BaseRow(req[r]).id = req[r].id /\ BaseRow(req[r]).qty = req[r].base
        /\ BaseRow(req[r]).item = i
    BY <2>1 DEF BaseRow
  <2>4. BaseRow(req[r]) \in CartRows(i)
    BY <2>2, <2>3, CartRowIs DEF Books
  <2> QED
    BY <2>1, <2>3, <2>4, CutterKnows DEF ShrunkRow
<1>2. ASSUME NEW t \in UnitsOf(Uncut(i)) PROVE t \in UnitsOf(CartRows(i)) /\ t \notin CutOff(i)
  <2>1. PICK x \in Uncut(i) : t \in {x.id} \X (1 .. x.qty)
    BY DEF UnitsOf
  <2>2. CASE x \in CartRows(i) /\ Spared(x)
    <3>1. t \in UnitsOf(CartRows(i))
      BY <2>1, <2>2 DEF UnitsOf
    <3>2. ASSUME NEW s \in Cutting(i), t \in Last(s) PROVE FALSE
      <4>1. t[1] = req[s].id /\ t[1] = x.id
        BY <2>1, <3>2 DEF Last
      <4> QED
        BY <2>2, <4>1 DEF Spared, Cutting
    <3> QED
      BY <3>1, <3>2 DEF CutOff
  <2>3. CASE \E r \in Cutting(i) : x = ShrunkRow(req[r])
    <3>1. PICK r \in Cutting(i) : x = ShrunkRow(req[r])
      BY <2>3
    <3>2. PICK b \in Nat, a \in Nat : b = req[r].base /\ a = req[r].arg /\ b - a \in Nat
      BY <1>1
    <3>3. t \in {req[r].id} \X (1 .. (b - a))
      BY <1>1, <2>1, <3>1, <3>2
    <3>4. PICK k \in 1 .. (b - a) : t = <<req[r].id, k>>
      BY <3>3
    <3>5. t \in UnitsOf(CartRows(i))
      <4>1. k \in 1 .. b
        BY <3>2, <3>4
      <4>2. t \in {BaseRow(req[r]).id} \X (1 .. BaseRow(req[r]).qty)
        BY <1>1, <3>2, <3>4, <4>1
      <4> QED
        BY <1>1, <4>2 DEF UnitsOf
    <3>6. ASSUME NEW s \in Cutting(i), t \in Last(s) PROVE FALSE
      <4>1. t[1] = req[s].id
        BY <3>6 DEF Last
      <4>2. s = r
        BY <1>1, <3>4, <4>1 DEF Cutting
      <4>3. t[2] \in (b - a + 1) .. b
        BY <3>2, <3>6, <4>2 DEF Last
      <4> QED
        BY <3>2, <3>4, <4>3
    <3> QED
      BY <3>5, <3>6 DEF CutOff
  <2> QED
    BY <2>1, <2>2, <2>3 DEF Uncut
<1>3. ASSUME NEW r \in Cutting(i), NEW t \in Last(r) PROVE t \in UnitsOf(CartRows(i))
  <2>1. PICK b \in Nat, a \in Nat : b = req[r].base /\ a = req[r].arg /\ b - a \in Nat
    BY <1>1
  <2>2. PICK k \in (b - a + 1) .. b : t = <<req[r].id, k>>
    BY <2>1 DEF Last
  <2>3. k \in 1 .. b
    BY <2>1, <2>2
  <2>4. t \in {BaseRow(req[r]).id} \X (1 .. BaseRow(req[r]).qty)
    BY <1>1, <2>1, <2>2, <2>3
  <2> QED
    BY <1>1, <2>4 DEF UnitsOf
<1>4. CutOff(i) \subseteq UnitsOf(CartRows(i))
  BY <1>3 DEF CutOff
<1> QED
  BY <1>2, <1>4, UnitsCut

(* Of a settled item there are as many units in carts as are claimed or    *)
(* pending.                                                                *)
LEMMA InCartsExactly ==
  ASSUME Books, NEW i \in Item, Settled(i)
  PROVE  InCarts(i) = Claimed(i) + Pending(i)
<1> DEFINE A == UnitsOf(CartRows(i))
           B == UnitsOf(Uncut(i))
           C == CutOff(i)
<1>1. IsFiniteSet(B) /\ IsFiniteSet(C) /\ A = B \cup C /\ B \cap C = {}
  BY UncutNumber, CutOffNumber, SettledUnits
<1>2. InCarts(i) = Cardinality(A) + Pending(i) - Cardinality(C)
  BY CutOffNumber DEF InCarts, CartRows, Cutting, QtyOf
<1>3. Cardinality(B) = Claimed(i)
  BY UncutNumber, SettledUncut DEF QtyOf
<1> HIDE DEF A, B, C
<1>4. Cardinality(A) = Cardinality(B) + Cardinality(C) - 0
  BY <1>1, FS_Union, FS_EmptySet
<1>5. /\ Cardinality(B) \in Nat /\ Cardinality(C) \in Nat
  BY <1>1, FS_CardinalityType
<1>6. PICK p \in Nat : p = Pending(i)
  BY NumbersNow DEF NumbersKnown
<1>7. Cardinality(A) + p - Cardinality(C) = Cardinality(B) + p
  BY <1>4, <1>5
<1> QED
  BY <1>2, <1>3, <1>6, <1>7, Zenon

-----------------------------------------------------------------------------
(* The theorems.                                                           *)

(* What is promised is no less than what is for sale, in carts and sold.   *)
LEMMA PromisedCovers ==
  ASSUME Books, NEW i \in Item
  PROVE  /\ stock[i] + InCarts(i) + Sold(i) <= Promised(i)
         /\ Settled(i) => stock[i] + InCarts(i) + Sold(i) = Promised(i)
<1>1. PICK s \in Int, c \in Int, p \in Int, n \in Int, m \in Int :
        s = stock[i] /\ c = Claimed(i) /\ p = Pending(i) /\ n = Sold(i) /\ m = InCarts(i)
  <2>1. stock[i] \in Int /\ Claimed(i) \in Int /\ Pending(i) \in Int /\ Sold(i) \in Int
    BY NumbersNow DEF NumbersKnown
  <2>2. InCarts(i) \in Int
    BY InCartsAtMost
  <2> QED
    BY <2>1, <2>2, Zenon
<1>2. Promised(i) = s + c + p + n
  BY <1>1, PromiseIs, Zenon DEF PromiseParts
<1>3. m <= c + p
  BY <1>1, InCartsAtMost
<1>4. Settled(i) => m = c + p
  BY <1>1, InCartsExactly
<1>5. s + m + n <= s + c + p + n /\ (m = c + p => s + m + n = s + c + p + n)
  BY <1>3
<1> QED
  BY <1>1, <1>2, <1>4, <1>5, Zenon

(* However resets, boots, deaths of either, logins, edits of carts,        *)
(* checkouts and expiries interleave, one at a time in each cart: no unit  *)
(* of an item is for sale, in a cart and sold more than once, whatever     *)
(* handlers still hold when the script wipes rows, counters and orders,    *)
(* and wherever it dies.                                                   *)
THEOREM ResetsNeverOversell ==
  ASSUME CartsOneAtATime
  PROVE  ShopSpec => []ResetNeverOversells
<1>1. ShopInit => Reckoned
  BY ReckonedInit
<1>2. Reckoned /\ [ShopNext]_shopVars => Reckoned'
  BY ReckonedNext
<1>3. Reckoned => ResetNeverOversells
  <2> SUFFICES ASSUME Reckoned, NEW i \in Item
               PROVE  stock[i] + InCarts(i) + Sold(i) <= TotalStock[i]
    BY DEF ResetNeverOversells
  <2>1. PICK n \in Int : n = stock[i] + InCarts(i) + Sold(i)
    BY NumbersNow, InCartsAtMost DEF Reckoned, NumbersKnown
  <2>2. n <= Promised(i)
    BY <2>1, PromisedCovers DEF Reckoned
  <2>3. /\ Promised(i) <= Ceiling(i) /\ Ceiling(i) <= TotalStock[i]
        /\ Promised(i) \in Int /\ Ceiling(i) \in Nat /\ TotalStock[i] \in Nat
    BY NumbersNow DEF Reckoned, Balanced, NumbersKnown
  <2>4. n <= TotalStock[i]
    BY <2>2, <2>3
  <2> QED
    BY <2>1, <2>4
<1> QED
  BY <1>1, <1>2, <1>3, PTL DEF ShopSpec

(* And whenever the server is up, and no reset is under way or has died,   *)
(* not one unit of the catalogue is missing either.                        *)
THEOREM ShopOpensWithFullStock ==
  ASSUME CartsOneAtATime, Lossless
  PROVE  ShopSpec => []OpensWithFullStock
<1>1. ShopInit => Reckoned
  BY ReckonedInit
<1>2. Reckoned /\ [ShopNext]_shopVars => Reckoned'
  BY ReckonedNext
<1>3. Reckoned => OpensWithFullStock
  <2> SUFFICES ASSUME Reckoned, server = "up", admin.pc = "idle", NEW i \in Ids
               PROVE  stock[i] + InCarts(i) + Sold(i) = TotalStock[i]
    BY DEF OpensWithFullStock
  <2>1. i \in Item
    BY DEF Reckoned, Books, Ground, CatalogueInv, OneBatch, Ids
  <2>2. Settled(i)
    BY DEF Settled
  <2>3. stock[i] + InCarts(i) + Sold(i) = Promised(i)
    BY <2>1, <2>2, PromisedCovers DEF Reckoned
  <2>4. Promised(i) = TotalStock[i]
    BY <2>1, <2>2 DEF Reckoned, Balanced
  <2> QED
    BY <2>3, <2>4, Zenon
<1> QED
  BY <1>1, <1>2, <1>3, PTL DEF ShopSpec

=============================================================================

-------------------------------- MODULE Shop --------------------------------
(***************************************************************************)
(* The whole backend over a catalogue that is not constant: the server's   *)
(* boot fills it when it is empty, `npm run seed` (scripts/seed.ts) wipes  *)
(* and refills it under the running server, and people log in, add, remove *)
(* and check out meanwhile.  Composes FlashSale (the handlers), Catalogue  *)
(* and Accounts, and adds what binds them: the token of a call, the        *)
(* handlers' lookups of an item, and the pricing of carts and orders.      *)
(*                                                                         *)
(* The reset script is a process of its own, whose steps interleave with   *)
(* the server's.  It is not run while the server boots, nor twice at once. *)
(* Crashes of the server and of Redis are left to FlashSale.               *)
(***************************************************************************)
EXTENDS FlashSaleLedger, Catalogue

CONSTANTS Login, Typed, Name, Trim,     \* see Accounts
          Wanted,       \* the items that clients ask for
          Price,        \* the price of every item
          Asked,        \* the limits that listings ask for
          MaxResets,    \* how often the reset script may be run
          MaxDeaths     \* how often it, or a boot that fills it, may die

ASSUME ShopAssumption ==
  /\ Wanted \subseteq Item
  /\ Price \in [Item -> Nat]
  /\ MaxResets \in Nat
  /\ MaxDeaths \in Nat
  /\ Asked \subseteq Nat \cup {Absent}
  /\ Batch \in Seq(Seq(Item))
  /\ Batch # <<>>

(* Mongo generates an id once. *)
ASSUME FreshIdsAssumption ==
  \A m, n \in 1 .. Len(Batch) :
    \A j \in 1 .. Len(Batch[m]), k \in 1 .. Len(Batch[n]) :
      Batch[m][j] = Batch[n][k] => m = n /\ j = k

VARIABLES users, login, \* see Accounts
          found,        \* whose and which item a call has looked up, or None
          bill,         \* what a checkout charges: the lines of its order
          admin,        \* the reset script, or a boot that fills the items
          resets,       \* how often the script has been started
          deaths        \* how often it, or such a boot, has died

Auth == INSTANCE Accounts

backVars == <<stock, key, script, saved, restarts,
              rows, orders, shown, req, exp, server, crashes>>
clientVars == <<users, login, found, bill>>
adminVars == <<admin, resets, deaths>>
shopVars == <<backVars, catalogueVars, clientVars, adminVars>>

Resting == [pc |-> "idle", wipe |-> {}, keys |-> {}, left |-> <<>>]

(* Nothing is running; the store is new, or has been used before. *)
ShopInit ==
  /\ stock = Nothing.stock /\ key = Nothing.key
  /\ script = FALSE /\ saved = Nothing /\ restarts = 0
  /\ rows = [c \in Request |-> None]
  /\ orders = [r \in Request |-> {}]
  /\ shown = Nothing.stock
  /\ req = [r \in Request |-> Fresh]
  /\ exp = {}
  /\ server = "down" /\ crashes = 0
  /\ items \in {<<>>, Batch[1]}
  /\ toInsert = <<>> /\ batches = IF items = <<>> THEN 0 ELSE 1
  /\ Auth!AccountsInit
  /\ found = [r \in Request |-> None]
  /\ bill = [r \in Request |-> None]
  /\ admin = Resting /\ resets = 0 /\ deaths = 0

-----------------------------------------------------------------------------
(* The server's boot.                                                      *)

MayStart == admin.pc \in {"idle", "dead"}

(* connectMongo, and seedItemsIfEmpty up to its insertMany, of which there *)
(* are at most Len(Batch).                                                 *)
BootCounts ==
  /\ server = "down"
  /\ MayStart
  /\ items # <<>> \/ batches < Len(Batch)
  /\ SeedItemsIfEmpty(NewIds(batches + 1))
  /\ admin' = [Resting EXCEPT !.pc = "boot"]
  /\ UNCHANGED <<backVars, clientVars, resets, deaths>>

(* insertMany, the boot's or the script's, one document at a time. *)
Fill ==
  /\ admin.pc \in {"boot", "insert"}
  /\ InsertItem
  /\ UNCHANGED <<backVars, clientVars, adminVars>>

BootLoads ==
  /\ admin.pc = "boot"
  /\ toInsert = <<>>
  /\ LoadScript
  /\ admin' = Resting
  /\ UNCHANGED <<catalogueVars, clientVars, resets, deaths>>

(* seedStock: the counters of the items found. *)
BootSeeds ==
  /\ server = "loaded"
  /\ Seed(Ids, aggregateReservedQuantities)
  /\ server' = "seeded"
  /\ UNCHANGED <<key, redisLife, mongoVars, shown, req, exp, crashes,
                 catalogueVars, clientVars, adminVars>>

BootSubscribes ==
  Subscribe /\ UNCHANGED <<catalogueVars, clientVars, adminVars>>

ShopBoots == BootCounts \/ BootLoads \/ BootSeeds \/ BootSubscribes

-----------------------------------------------------------------------------
(* The reset script.                                                       *)

(* A mistake: the counters are seeded before the stale keys are cleared. *)
SeedBeforeClearing ==
  [wipe |-> "count", count |-> "insert", insert |-> "seed",
   seed |-> "keys", keys |-> "del", del |-> "idle"]

(* What the script awaits after each of its awaits. *)
NextPhase ==
  [wipe |-> "count", count |-> "insert", insert |-> "keys",
   keys |-> "del", del |-> "seed", seed |-> "idle"]

Proceed(l) == admin' = [l EXCEPT !.pc = NextPhase[admin.pc]]

StartReset ==
  /\ server \in {"down", "up"}
  /\ MayStart
  /\ resets < MaxResets
  /\ resets' = resets + 1
  /\ admin' = [Resting EXCEPT !.pc = "wipe",
                              !.wipe = {"items", "carts", "orders"}]
  /\ UNCHANGED <<backVars, catalogueVars, clientVars, deaths>>

(* One of the three deleteMany that are under way together. *)
Wipe(collection) ==
  /\ admin.pc = "wipe"
  /\ collection \in admin.wipe
  /\ LET l == [admin EXCEPT !.wipe = @ \ {collection}]
     IN  IF l.wipe = {} THEN Proceed(l) ELSE admin' = l
  /\ UNCHANGED <<redisVars, shown, req, exp, serverVars>>

WipeItems ==
  /\ Wipe("items")
  /\ DeleteItems
  /\ UNCHANGED mongoVars

WipeCarts ==
  /\ Wipe("carts")
  /\ rows' = [c \in Request |-> None]
  /\ UNCHANGED <<orders, catalogueVars>>

WipeOrders ==
  /\ Wipe("orders")
  /\ orders' = [r \in Request |-> {}]
  /\ UNCHANGED <<rows, catalogueVars>>

ResetCounts ==
  /\ admin.pc = "count"
  /\ batches < Len(Batch)
  /\ SeedItemsIfEmpty(NewIds(batches + 1))
  /\ Proceed(admin)
  /\ UNCHANGED backVars

(* ItemModel.find, once insertMany is done. *)
ListCreated ==
  /\ admin.pc = "insert"
  /\ toInsert = <<>>
  /\ Proceed([admin EXCEPT !.left = items])
  /\ UNCHANGED <<backVars, catalogueVars>>

ListKeys ==
  /\ admin.pc = "keys"
  /\ Proceed([admin EXCEPT !.keys = {c \in Request : key[c] # None}])
  /\ UNCHANGED <<backVars, catalogueVars>>

(* One DEL of everything listed.  Of the counters that is all of them: one *)
(* that did not exist when they were listed belongs to an item created     *)
(* just now, or to one that an earlier reset has deleted.                  *)
DeleteKeys ==
  /\ admin.pc = "del"
  /\ stock' = Nothing.stock
  /\ key' = [c \in Request |-> IF c \in admin.keys THEN None ELSE key[c]]
  /\ Proceed([admin EXCEPT !.keys = {}])
  /\ UNCHANGED <<redisLife, mongoVars, shown, req, exp, serverVars,
                 catalogueVars>>

(* One item created gets its counter: the whole totalStock. *)
SeedCreated ==
  /\ admin.pc = "seed"
  /\ admin.left # <<>>
  /\ Seed({Head(admin.left)}, NothingReserved)
  /\ LET l == [admin EXCEPT !.left = Tail(@)]
     IN  IF l.left = <<>> THEN Proceed(l) ELSE admin' = l
  /\ UNCHANGED <<key, redisLife, mongoVars, shown, req, exp, serverVars,
                 catalogueVars>>

(* The process is killed, or a command of it fails, which it does not      *)
(* survive; what it has not inserted by then never will be.                *)
Dies ==
  /\ ~MayStart
  /\ deaths < MaxDeaths
  /\ deaths' = deaths + 1
  /\ admin' = [Resting EXCEPT !.pc = "dead"]
  /\ toInsert' = <<>>
  /\ UNCHANGED <<backVars, items, batches, clientVars, resets>>

Reset ==
  \/ StartReset
  \/ /\ \/ WipeItems \/ WipeCarts \/ WipeOrders \/ ResetCounts
        \/ ListCreated \/ ListKeys \/ DeleteKeys \/ SeedCreated
     /\ UNCHANGED <<clientVars, resets, deaths>>

-----------------------------------------------------------------------------
(* Prices.  Money, like units, is counted in tokens.                       *)

(* A mistake: every row of an item overwrites the line of the row before. *)
QtyOfOneRow(R) ==
  [i \in {row.item : row \in R} |-> (CHOOSE row \in R : row.item = i).qty]

(* The map qtyByItem, of GetCart and of Checkout: one line per item. *)
QtyByItem(R) ==
  [i \in {row.item : row \in R} |-> QtyOf({row \in R : row.item = i})]

(* Order.create, and GetCart's own sum: price times quantity of each line. *)
TotalOf(lines) ==
  Cardinality(UNION {{i} \X (1 .. Price[i] * lines[i]) : i \in DOMAIN lines})

Bill(R) == [lines |-> QtyByItem(R), total |-> TotalOf(QtyByItem(R))]

(* GetCart: the rows of items that are no longer there are passed over.    *)
(* Items vanish all at once and for ever, so one look at them is enough.   *)
GetCart(u) == Bill({row \in FindByUser(u) : row.item \in Ids})

-----------------------------------------------------------------------------
(* The calls.                                                              *)

(* The token a client got from a login is good for its account. *)
Token(u) == Auth!HandedOut(u) /\ Auth!Authenticated(u)

(* AddToCart and UpdateCartItemQuantity look the item up first, and await *)
(* that: an item that is not there ends the call.  What the call asks for  *)
(* besides is left open until it matters.                                  *)
LooksUp(r, u, i) ==
  /\ server = "up"
  /\ req[r].pc = "new"
  /\ found[r] = None
  /\ Token(u)
  /\ i \in Ids
  /\ found' = [found EXCEPT ![r] = [user |-> u, item |-> i]]
  /\ UNCHANGED <<backVars, catalogueVars, users, login, bill, adminVars>>

CallWithItem(r, u, i) ==
  /\ found[r] = [user |-> u, item |-> i]
  /\ \E q \in Quantity :
       AddToCart(r, u, i, q) \/ Increase(r, u, i, q) \/ Decrease(r, u, i, q)

(* RemoveFromCart and Checkout start with the cart. *)
CallWithCart(r, u) ==
  /\ found[r] = None
  /\ Token(u)
  /\ (\E i \in Wanted : RemoveFromCart(r, u, i)) \/ Checkout(r, u)

CallShop(r) ==
  /\ \E u \in User : \/ \E i \in Wanted : CallWithItem(r, u, i)
                    \/ CallWithCart(r, u)
  /\ UNCHANGED <<catalogueVars, clientVars, adminVars>>

(* Checkout's lookups: an item no longer in the catalogue ends it with an  *)
(* error.  Items vanish all at once and for ever, so the last lookup       *)
(* decides.                                                                *)
PriceLines(r) ==
  /\ At(r, "order")
  /\ bill[r] = None
  /\ \/ /\ req[r].items \subseteq Ids
        /\ bill' = [bill EXCEPT ![r] = Bill(req[r].todo)]
        /\ UNCHANGED req
     \/ /\ ~(req[r].items \subseteq Ids)
        /\ Become(r, Finished(req[r]))
        /\ UNCHANGED bill
  /\ UNCHANGED <<redisVars, mongoVars, shown, exp, serverVars,
                 catalogueVars, users, login, found, adminVars>>

(* Every other step is FlashSale's; the order is saved once it is priced. *)
HandlerSteps ==
  /\ \/ \E r \in Request : /\ req[r].pc = "order" => bill[r] # None
                           /\ Step(r)
     \/ \E r \in Request : KeyExpires(r)
     \/ \E h \in exp : ExpireStep(h)
  /\ UNCHANGED <<catalogueVars, clientVars, adminVars>>

LogIn ==
  /\ server = "up"
  /\ Auth!AccountsNext
  /\ UNCHANGED <<backVars, catalogueVars, found, bill, adminVars>>

ShopNext ==
  \/ ShopBoots
  \/ Fill
  \/ Reset
  \/ Dies
  \/ LogIn
  \/ \E r \in Request, u \in User, i \in Wanted : LooksUp(r, u, i)
  \/ \E r \in Request : CallShop(r) \/ PriceLines(r)
  \/ HandlerSteps

ShopSpec == ShopInit /\ [][ShopNext]_shopVars

-----------------------------------------------------------------------------
(* Properties.                                                             *)

(* See Accounts: a name has one account, and a token is that account's.    *)
OneAccountPerName == Auth!OneAccountPerName

(* The units of an item in carts, as StockLedger counts them. *)
InCarts(i) ==
  QtyOf({row \in RowsOfItem(i) : ~Leaving(row.id)}) + Pending(i)
  - Cardinality(ArgUnits({r \in Request : /\ req[r].pc = "shrink"
                                         /\ req[r].item = i}))

(* No unit is for sale, in a cart and sold more than once: not when the    *)
(* script wipes rows, counters and orders under handlers that hold units,  *)
(* nor when it seeds counters that handlers are about to credit, wherever  *)
(* it dies.  The fresh ids of the items are what keeps the old handlers'   *)
(* units away from the new counters.                                       *)
ResetNeverOversells ==
  \A i \in Item : stock[i] + InCarts(i) + Sold(i) <= TotalStock[i]

(* Whenever the server is up and no reset is under way, or died, every     *)
(* unit of every item of the catalogue is for sale, in a cart or sold:     *)
(* handlers that began before the reset have taken nothing from the        *)
(* catalogue that follows it.                                              *)
OpensWithFullStock ==
  server = "up" /\ admin.pc = "idle" =>
    \A i \in Ids : stock[i] + InCarts(i) + Sold(i) = TotalStock[i]

(* The demo catalogue is never there twice: the collection holds the       *)
(* documents of one insertMany, the first so many of them; and all of them *)
(* if nobody who filled it has died and the server is open.                *)
CatalogueNotDoubled ==
  \E n \in 1 .. Len(Batch) :
    /\ Len(items) <= Len(Batch[n])
    /\ items = SubSeq(Batch[n], 1, Len(items))
    /\ server = "up" /\ admin.pc = "idle" /\ deaths = 0 => items = Batch[n]

(* See Catalogue, for the limits of this instance. *)
PagesCover == PagesCoverCatalogue(Asked)

(* The money of a set of rows, without grouping them. *)
Worth(R) ==
  Cardinality(UNION {{row.id} \X (1 .. Price[row.item] * row.qty) : row \in R})

(* An order charges exactly the rows it sold, one line per item, whatever  *)
(* happened to carts and catalogue between pricing and saving it; and the  *)
(* cart view adds up to the rows that a checkout could still sell.         *)
ChargedWhatWasSold ==
  /\ \A r \in Request : orders[r] # {} =>
       /\ bill[r].total = Worth(orders[r])
       /\ DOMAIN bill[r].lines = {row.item : row \in orders[r]}
  /\ \A u \in User :
       GetCart(u).total = Worth({row \in FindByUser(u) : row.item \in Ids})
=============================================================================

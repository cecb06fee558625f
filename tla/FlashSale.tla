----------------------------- MODULE FlashSale ------------------------------
(***************************************************************************)
(* The backend of the flash-sale store: the use cases AddToCart,           *)
(* UpdateCartItemQuantity, RemoveFromCart and Checkout called over HTTP,   *)
(* the ExpireReservation handler fed by Redis keyspace notifications, and  *)
(* the server's crash and boot, over Redis (StockReservation), the Mongo   *)
(* collections cartitems and orders, and the stock:update broadcast.       *)
(*                                                                         *)
(* Node runs a handler until its next await, so a handler interleaves with *)
(* the others exactly at its store commands.  One step here is one store   *)
(* command (with the code up to the next await), or one broadcast.         *)
(***************************************************************************)
EXTENDS StockReservation, FiniteSets

CONSTANTS User,         \* the logged-in users
          Quantity,     \* the quantities and |delta|s clients ask for
          Op,           \* the operations clients call in this instance
          Concurrency,  \* "any", "perCart" (a user's calls, and the expiry of
                        \* his keys, one at a time) or "one" (all, one at a time)
          MaxExpiring,  \* how many expiry handlers may be under way at once
          ShortTtl,     \* may a key expire under the request that armed it?
          Faulty,       \* the commands that may fail (FaultOf), and "reply"
          MaxCrashes    \* how often the server may crash

Operation == {"add", "increase", "decrease", "remove", "checkout"}

ASSUME EnvironmentAssumption ==
  /\ IsFiniteSet(Request)
  /\ None \notin User \cup Operation \cup Faulty
  /\ Quantity \subseteq Nat \ {0}
  /\ Op \subseteq Operation
  /\ Concurrency \in {"any", "perCart", "one"}
  /\ MaxExpiring \in Nat
  /\ ShortTtl \in BOOLEAN
  /\ MaxCrashes \in Nat

VARIABLES rows,         \* Mongo cartitems: the row of every id, or None
          orders,       \* Mongo orders: the cart rows every checkout sold
          shown,        \* the last stock:update broadcast of every item
          req,          \* every request's handler: its locals and its await
          exp,          \* the ExpireReservation handlers under way
          server,       \* "down", "loaded" and "seeded" while booting, "up"
          crashes       \* how often the server has crashed

mongoVars == <<rows, orders>>
serverVars == <<server, crashes>>
vars == <<stock, key, script, saved, restarts,
          rows, orders, shown, req, exp, server, crashes>>

-----------------------------------------------------------------------------
(* What is kept and passed around.                                         *)

CartRow == [id : Request, user : User, item : Item, qty : Nat \ {0}]

ASSUME RowAssumption == None \notin CartRow

(* The awaits of the request handlers, by the command each one waits for:  *)
(* the reserve script; the upsert of the reserved row; the rollback's      *)
(* INCRBY and DEL; the GET of a counter; the INCRBY of a row, its DEL, the *)
(* deletion or the shrinking upsert of that row; the reading and EXPIRE of *)
(* the surviving rows; order, key and cart of a checkout; the broadcast.   *)
Pc == {"new", "reserve", "save", "undo", "undoDrop", "get",
       "release", "drop", "delete", "shrink", "survey", "refresh",
       "order", "clear", "empty", "emit", "done"}

(* A request's locals: the row id it works on (id), the quantity or what   *)
(* is left of the delta (arg), the quantity read from the row to increase  *)
(* (base), the rows still to process (todo), the items whose counter is to *)
(* be read and broadcast (items), and the count to broadcast (rem).        *)
Locals == [pc : Pc, op : Operation \cup {None},
           user : User \cup {None}, item : Item \cup {None},
           id : Request \cup {None}, arg : Nat, base : Nat,
           todo : SUBSET CartRow, items : SUBSET Item, rem : Int]

Fresh == [pc |-> "new", op |-> None, user |-> None, item |-> None,
          id |-> None, arg |-> 0, base |-> 0,
          todo |-> {}, items |-> {}, rem |-> 0]

(* What remains of a handler: whose row an id of its making would be. *)
ItemOfId(l) == IF l.op = "checkout" THEN None ELSE l.item

Finished(l) == [Fresh EXCEPT !.pc = "done", !.user = l.user, !.item = ItemOfId(l)]

(* An expiry handler: the key that expired, the request that had started   *)
(* its life, the row found and the count to broadcast.                     *)
ExpiryHandler == [id : Request, by : Request,
                  pc : {"find", "release", "delete", "emit"},
                  row : CartRow \cup {None}, rem : Int]

TypeOK ==
  /\ RedisTypeOK
  /\ rows \in [Request -> CartRow \cup {None}]
  /\ orders \in [Request -> SUBSET CartRow]
  /\ shown \in [Item -> Int]
  /\ req \in [Request -> Locals]
  /\ exp \in SUBSET ExpiryHandler
  /\ server \in {"down", "loaded", "seeded", "up"}
  /\ crashes \in Nat

Init ==
  /\ RedisInit
  /\ rows = [c \in Request |-> None]
  /\ orders = [r \in Request |-> {}]
  /\ shown = TotalStock
  /\ req = [r \in Request |-> Fresh]
  /\ exp = {}
  /\ server = "up"
  /\ crashes = 0

-----------------------------------------------------------------------------
(* The cart collection.                                                    *)

(* A mistake: a find that forgets its filter. *)
FindByAnyUser(u) == {rows[c] : c \in {d \in Request : rows[d] # None}}

FindByUser(u) == {rows[c] : c \in {d \in Request : /\ rows[d] # None
                                                  /\ rows[d].user = u}}

FindInCart(u, i) == {row \in FindByUser(u) : row.item = i}

(* save is findByIdAndUpdate with upsert: it recreates a deleted row. *)
SaveCartItem(row) == rows' = [rows EXCEPT ![row.id] = row]

DeleteById(c) == rows' = [rows EXCEPT ![c] = None]

(* A mistake: a deleteMany that matches nothing. *)
DeleteByNobody(u) == UNCHANGED rows

DeleteByUser(u) ==
  rows' = [c \in Request |-> IF rows[c] # None /\ rows[c].user = u
                             THEN None ELSE rows[c]]

(* The units of a set of rows, one token each, and their number. *)
UnitsOf(R) == UNION {{row.id} \X (1 .. row.qty) : row \in R}
QtyOf(R) == Cardinality(UnitsOf(R))

RowsOfItem(i) == {rows[c] : c \in {d \in Request : /\ rows[d] # None
                                                  /\ rows[d].item = i}}

(* Mistakes: a seed that resets to totalStock, or counts rows for units. *)
NothingReserved == [i \in Item |-> 0]
ReservedRowCounts == [i \in Item |-> Cardinality(RowsOfItem(i))]

aggregateReservedQuantities == [i \in Item |-> QtyOf(RowsOfItem(i))]

-----------------------------------------------------------------------------
(* The handlers' scheduling.                                               *)

InFlight(r) == req[r].pc \notin {"new", "done"}

Idle(u) == /\ \A r \in Request : InFlight(r) => req[r].user # u
           /\ \A h \in exp : req[h.id].user # u

Permitted(u) == \/ Concurrency = "any"
                \/ Concurrency = "perCart" /\ Idle(u)
                \/ Concurrency = "one" /\ \A v \in User : Idle(v)

(* authMiddleware has resolved the user; the server listens when it is up. *)
Arrives(r, u, op) == /\ req[r].pc = "new"
                     /\ server = "up"
                     /\ op \in Op
                     /\ Permitted(u)

At(r, pc) == server = "up" /\ req[r].pc = pc

Become(r, l) == req' = [req EXCEPT ![r] = l]
Goto(r, pc) == Become(r, [req[r] EXCEPT !.pc = pc])

-----------------------------------------------------------------------------
(* AddToCart and the increase of UpdateCartItemQuantity.                   *)

(* A mistake: the count before the decrement is reported. *)
ReserveForOldCount(r, l) ==
  \/ /\ Reserve(l.item, l.id, l.arg, r)
     /\ Become(r, [l EXCEPT !.pc = "save", !.rem = stock[l.item]])
  \/ /\ ReserveRefused(l.item, l.arg)
     /\ Become(r, Finished(l))
     /\ UNCHANGED redisVars

(* The atomic reserve, or the error that ends the request: OutOfStockError, *)
(* or what EVALSHA threw.                                                   *)
ReserveFor(r, l) ==
  \/ /\ Reserve(l.item, l.id, l.arg, r)
     /\ Become(r, [l EXCEPT !.pc = "save", !.rem = stock[l.item] - l.arg])
  \/ /\ ReserveRefused(l.item, l.arg)
     /\ Become(r, Finished(l))
     /\ UNCHANGED redisVars

(* A valid quantity of an item of the catalogue: a new id, and the reserve. *)
AddToCart(r, u, i, q) ==
  /\ Arrives(r, u, "add")
  /\ ReserveFor(r, [Fresh EXCEPT !.op = "add", !.user = u, !.item = i,
                                 !.id = r, !.arg = q])
  /\ UNCHANGED <<mongoVars, shown, exp, serverVars>>

(* delta > 0: target the first row found, whichever that is, or a new id. *)
Increase(r, u, i, q) ==
  /\ Arrives(r, u, "increase")
  /\ LET l == [Fresh EXCEPT !.pc = "reserve", !.op = "increase", !.user = u,
                            !.item = i, !.arg = q]
     IN  \/ /\ FindInCart(u, i) = {}
            /\ Become(r, [l EXCEPT !.id = r])
         \/ \E row \in FindInCart(u, i) :
              Become(r, [l EXCEPT !.id = row.id, !.base = row.qty])
  /\ UNCHANGED <<redisVars, mongoVars, shown, exp, serverVars>>

IncreaseReserve(r) ==
  /\ At(r, "reserve")
  /\ ReserveFor(r, req[r])
  /\ UNCHANGED <<mongoVars, shown, exp, serverVars>>

(* The row to write: a new one, or the quantity read before plus the delta. *)
ReservedRow(l) ==
  [id |-> l.id, user |-> l.user, item |-> l.item, qty |-> l.base + l.arg]

AfterSave(l) == IF l.op = "add" THEN "emit" ELSE "survey"

SaveRow(r) ==
  /\ At(r, "save")
  /\ SaveCartItem(ReservedRow(req[r]))
  /\ Become(r, [req[r] EXCEPT !.pc = AfterSave(req[r]),
                              !.id = None, !.arg = 0, !.base = 0])
  /\ UNCHANGED <<redisVars, orders, shown, exp, serverVars>>

(* A mistake: no rollback of AddToCart's reserve. *)
AfterFailedSaveNoRollback(l) == Finished(l)

(* A failed save: AddToCart rolls back and then throws, increase throws. *)
AfterFailedSave(l) == IF l.op = "add" THEN [l EXCEPT !.pc = "undo"]
                      ELSE Finished(l)

(* The write is performed but its reply is lost, so that save throws. *)
SaveRowReplyLost(r) ==
  /\ At(r, "save")
  /\ "reply" \in Faulty
  /\ SaveCartItem(ReservedRow(req[r]))
  /\ Become(r, AfterFailedSave(req[r]))
  /\ UNCHANGED <<redisVars, orders, shown, exp, serverVars>>

Undo(r) ==
  /\ At(r, "undo")
  /\ Release(req[r].item, req[r].arg)
  /\ Goto(r, "undoDrop")
  /\ UNCHANGED <<key, redisLife, mongoVars, shown, exp, serverVars>>

UndoDrop(r) ==
  /\ At(r, "undoDrop")
  /\ Drop(req[r].id)
  /\ Become(r, [req[r] EXCEPT !.pc = "get", !.items = {req[r].item}])
  /\ UNCHANGED <<stock, redisLife, mongoVars, shown, exp, serverVars>>

-----------------------------------------------------------------------------
(* RemoveFromCart and the decrease of UpdateCartItemQuantity.              *)

(* With rows to release, the count read first is overwritten by the first  *)
(* release; without, it is what the request broadcasts.                    *)
RemoveFromCart(r, u, i) ==
  /\ Arrives(r, u, "remove")
  /\ Become(r, [Fresh EXCEPT !.op = "remove", !.user = u, !.item = i,
                             !.pc = IF FindInCart(u, i) = {}
                                    THEN "get" ELSE "release",
                             !.items = IF FindInCart(u, i) = {}
                                       THEN {i} ELSE {},
                             !.todo = FindInCart(u, i)])
  /\ UNCHANGED <<redisVars, mongoVars, shown, exp, serverVars>>

(* delta < 0.  The loop ends when need is 0 or the rows run out, which is  *)
(* what need = min(amount, currentQty) amounts to.                         *)
Decrease(r, u, i, q) ==
  /\ Arrives(r, u, "decrease")
  /\ Become(r, [Fresh EXCEPT !.op = "decrease", !.user = u, !.item = i,
                             !.pc = IF FindInCart(u, i) = {}
                                    THEN "get" ELSE "release",
                             !.items = IF FindInCart(u, i) = {}
                                       THEN {i} ELSE {},
                             !.todo = FindInCart(u, i),
                             !.arg = q])
  /\ UNCHANGED <<redisVars, mongoVars, shown, exp, serverVars>>

(* A mistake: a row of exactly the quantity needed is not released whole. *)
WholeIfLess(l, row) == l.op = "remove" \/ row.qty < l.arg

(* A row goes whole when it is removed or holds no more than the need. *)
Whole(l, row) == l.op = "remove" \/ row.qty <= l.arg

ReleasedQty(l, row) == IF Whole(l, row) THEN row.qty ELSE l.arg

NeedAfter(l, q) == IF l.op = "remove" THEN l.arg ELSE l.arg - q

(* One turn of the loop, over the rows in any order the find returned. *)
ReleaseRow(r) ==
  /\ At(r, "release")
  /\ \E row \in req[r].todo :
       LET q == ReleasedQty(req[r], row)
           l == [req[r] EXCEPT !.id = row.id, !.rem = stock[row.item] + q]
       IN  /\ Release(row.item, q)
           /\ \/ /\ Whole(req[r], row)
                 /\ Become(r, [l EXCEPT !.pc = "drop", !.todo = @ \ {row},
                                        !.arg = NeedAfter(req[r], q)])
              \/ /\ ~Whole(req[r], row)
                 /\ Become(r, [l EXCEPT !.pc = "shrink", !.base = row.qty])
  /\ UNCHANGED <<key, redisLife, mongoVars, shown, exp, serverVars>>

DropKey(r) ==
  /\ At(r, "drop")
  /\ Drop(req[r].id)
  /\ Goto(r, "delete")
  /\ UNCHANGED <<stock, redisLife, mongoVars, shown, exp, serverVars>>

LoopEnds(l) == l.todo = {} \/ (l.op = "decrease" /\ l.arg = 0)

AfterDelete(l) == IF ~LoopEnds(l) THEN [l EXCEPT !.pc = "release", !.id = None]
                  ELSE [l EXCEPT !.pc = IF l.op = "remove" THEN "emit" ELSE "survey",
                                 !.todo = {}, !.arg = 0, !.id = None]

DeleteRow(r) ==
  /\ At(r, "delete")
  /\ DeleteById(req[r].id)
  /\ Become(r, AfterDelete(req[r]))
  /\ UNCHANGED <<redisVars, orders, shown, exp, serverVars>>

(* The row survives with what was not released. *)
ShrunkRow(l) ==
  [id |-> l.id, user |-> l.user, item |-> l.item, qty |-> l.base - l.arg]

ShrinkRow(r) ==
  /\ At(r, "shrink")
  /\ SaveCartItem(ShrunkRow(req[r]))
  /\ Become(r, [req[r] EXCEPT !.pc = "survey", !.id = None,
                              !.arg = 0, !.base = 0, !.todo = {}])
  /\ UNCHANGED <<redisVars, orders, shown, exp, serverVars>>

(* After either edit: restart the life of every surviving row's key. *)
Survey(r) ==
  /\ At(r, "survey")
  /\ LET surviving == FindInCart(req[r].user, req[r].item)
     IN  Become(r, [req[r] EXCEPT !.pc = IF surviving = {} THEN "emit" ELSE "refresh",
                                  !.todo = surviving])
  /\ UNCHANGED <<redisVars, mongoVars, shown, exp, serverVars>>

RefreshKey(r) ==
  /\ At(r, "refresh")
  /\ \E row \in req[r].todo :
       /\ Refresh(row.id, r)
       /\ Become(r, [req[r] EXCEPT
                       !.pc = IF req[r].todo = {row} THEN "emit" ELSE "refresh",
                       !.todo = @ \ {row}])
  /\ UNCHANGED <<stock, redisLife, mongoVars, shown, exp, serverVars>>

-----------------------------------------------------------------------------
(* Checkout.                                                               *)

(* A non-empty cart; an empty one is rejected and changes nothing. *)
Checkout(r, u) ==
  /\ Arrives(r, u, "checkout")
  /\ FindByUser(u) # {}
  /\ Become(r, [Fresh EXCEPT !.op = "checkout", !.user = u, !.pc = "order",
                             !.todo = FindByUser(u),
                             !.items = {row.item : row \in FindByUser(u)}])
  /\ UNCHANGED <<redisVars, mongoVars, shown, exp, serverVars>>

(* The order's lines group these rows by item; the rows say the same. *)
SaveOrder(r) ==
  /\ At(r, "order")
  /\ orders' = [orders EXCEPT ![r] = req[r].todo]
  /\ Goto(r, "clear")
  /\ UNCHANGED <<redisVars, rows, shown, exp, serverVars>>

(* clearReservationKey, for every row of the snapshot. *)
ClearKey(r) ==
  /\ At(r, "clear")
  /\ \E row \in req[r].todo :
       /\ Drop(row.id)
       /\ Become(r, [req[r] EXCEPT
                       !.pc = IF req[r].todo = {row} THEN "empty" ELSE "clear",
                       !.todo = @ \ {row}])
  /\ UNCHANGED <<stock, redisLife, mongoVars, shown, exp, serverVars>>

(* deleteByUser deletes what is there, the snapshot or not. *)
EmptyCart(r) ==
  /\ At(r, "empty")
  /\ DeleteByUser(req[r].user)
  /\ Goto(r, "get")
  /\ UNCHANGED <<redisVars, orders, shown, exp, serverVars>>

-----------------------------------------------------------------------------
(* The end of every handler: the counter it reports and the broadcast.     *)

GetRemaining(r) ==
  /\ At(r, "get")
  /\ \E i \in req[r].items :
       Become(r, [req[r] EXCEPT
                   !.pc = IF req[r].op = "decrease" THEN "survey" ELSE "emit",
                   !.item = i, !.items = @ \ {i}, !.rem = stock[i],
                   !.arg = 0, !.id = None])
  /\ UNCHANGED <<redisVars, mongoVars, shown, exp, serverVars>>

(* emitStockUpdate: every client shows the count that came last. *)
EmitStockUpdate(i, remaining) == shown' = [shown EXCEPT ![i] = remaining]

Emit(r) ==
  /\ At(r, "emit")
  /\ EmitStockUpdate(req[r].item, req[r].rem)
  /\ IF req[r].items = {} THEN Become(r, Finished(req[r])) ELSE Goto(r, "get")
  /\ UNCHANGED <<redisVars, mongoVars, exp, serverVars>>

(* A command fails: the handler throws, except for AddToCart's save. *)
FaultOf(l) == IF l.pc = "save" THEN l.op ELSE l.pc

CommandFails(r) ==
  /\ server = "up"
  /\ InFlight(r)
  /\ req[r].pc # "emit"
  /\ FaultOf(req[r]) \in Faulty
  /\ Become(r, IF req[r].pc = "save" THEN AfterFailedSave(req[r])
               ELSE Finished(req[r]))
  /\ UNCHANGED <<redisVars, mongoVars, shown, exp, serverVars>>

-----------------------------------------------------------------------------
(* Expiry: the key goes, a notification is published, and the subscriber   *)
(* hands it to ExpireReservation, which runs beside everything else.       *)

Subscribed == server = "up"

(* Unless ShortTtl, a life lasts longer than the request that started it. *)
MayExpire(c) == /\ Cardinality(exp) < MaxExpiring
                /\ key[c] # None
                /\ ShortTtl \/ ~InFlight(key[c])
                /\ Permitted(req[c].user)

(* Keyspace notifications are sent once, to whoever listens, never again. *)
KeyExpires(c) ==
  /\ MayExpire(c)
  /\ TtlPasses(c)
  /\ \/ /\ Subscribed
        /\ exp' = exp \cup {[id |-> c, by |-> key[c], pc |-> "find",
                             row |-> None, rem |-> 0]}
     \/ /\ ~Subscribed \/ "notify" \in Faulty
        /\ UNCHANGED exp
  /\ UNCHANGED <<stock, redisLife, mongoVars, shown, req, serverVars>>

Advance(h, l) == exp' = (exp \ {h}) \cup {l}

(* A row that is gone was resolved elsewhere: nothing to release. *)
ExpireFind(h) ==
  /\ h.pc = "find"
  /\ IF rows[h.id] = None
     THEN exp' = exp \ {h}
     ELSE Advance(h, [h EXCEPT !.pc = "release", !.row = rows[h.id]])
  /\ UNCHANGED <<redisVars, mongoVars, shown, req, serverVars>>

(* The key has expired already, so it is not dropped. *)
ExpireRelease(h) ==
  /\ h.pc = "release"
  /\ Release(h.row.item, h.row.qty)
  /\ Advance(h, [h EXCEPT !.pc = "delete", !.rem = stock[h.row.item] + h.row.qty])
  /\ UNCHANGED <<key, redisLife, mongoVars, shown, req, serverVars>>

(* A mistake: the expired row stays. *)
ExpireKeepsRow(h) ==
  /\ h.pc = "delete"
  /\ Advance(h, [h EXCEPT !.pc = "emit"])
  /\ UNCHANGED <<redisVars, mongoVars, shown, req, serverVars>>

ExpireDelete(h) ==
  /\ h.pc = "delete"
  /\ DeleteById(h.id)
  /\ Advance(h, [h EXCEPT !.pc = "emit"])
  /\ UNCHANGED <<redisVars, orders, shown, req, serverVars>>

ExpireEmit(h) ==
  /\ h.pc = "emit"
  /\ EmitStockUpdate(h.row.item, h.rem)
  /\ exp' = exp \ {h}
  /\ UNCHANGED <<redisVars, mongoVars, req, serverVars>>

(* The subscriber logs an error of the handler and forgets it. *)
ExpireFails(h) ==
  /\ "expire" \in Faulty
  /\ h.pc # "emit"
  /\ exp' = exp \ {h}
  /\ UNCHANGED <<redisVars, mongoVars, shown, req, serverVars>>

-----------------------------------------------------------------------------
(* The server's crash and boot.                                            *)

(* Every handler dies at its await; Redis and Mongo keep what they have. *)
Crash ==
  /\ server # "down"
  /\ crashes < MaxCrashes
  /\ crashes' = crashes + 1
  /\ server' = "down"
  /\ req' = [r \in Request |-> IF InFlight(r) THEN Finished(req[r]) ELSE req[r]]
  /\ exp' = {}
  /\ UNCHANGED <<redisVars, mongoVars, shown>>

(* The service loads its script: the only time it does. *)
LoadScript ==
  /\ server = "down"
  /\ LoadReserveScript
  /\ server' = "loaded"
  /\ UNCHANGED <<mongoVars, shown, req, exp, crashes>>

(* seedStock: the catalogue's total less what cart rows hold. *)
SeedStock ==
  /\ server = "loaded"
  /\ Seed(Item, aggregateReservedQuantities)
  /\ server' = "seeded"
  /\ UNCHANGED <<key, redisLife, mongoVars, shown, req, exp, crashes>>

(* Then the subscription, and only then does the server listen. *)
Subscribe ==
  /\ server = "seeded"
  /\ server' = "up"
  /\ UNCHANGED <<redisVars, mongoVars, shown, req, exp, crashes>>

-----------------------------------------------------------------------------
(* Redis by itself.  The server keeps running and its client reconnects,   *)
(* so no handler ends; what a restart does to its commands is the failure  *)
(* of a command, or its success on the counters of the snapshot.           *)

SnapshotRedis ==
  /\ RedisSaves
  /\ UNCHANGED <<mongoVars, shown, req, exp, serverVars>>

(* The keys of the snapshot whose life may have ended by now. *)
MayHaveEnded == {c \in Request : /\ saved.key[c] # None
                                 /\ ShortTtl \/ ~InFlight(saved.key[c])}

RestartRedis ==
  /\ \E ended \in SUBSET MayHaveEnded : RedisRestarts(ended)
  /\ UNCHANGED <<mongoVars, shown, req, exp, serverVars>>

RedisByItself == SnapshotRedis \/ RestartRedis

-----------------------------------------------------------------------------
(* The specification.                                                      *)

Call(r) ==
  \E u \in User :
    \/ \E i \in Item :
         \/ \E q \in Quantity : AddToCart(r, u, i, q) \/ Increase(r, u, i, q)
                               \/ Decrease(r, u, i, q)
         \/ RemoveFromCart(r, u, i)
    \/ Checkout(r, u)

Step(r) ==
  \/ IncreaseReserve(r) \/ SaveRow(r) \/ SaveRowReplyLost(r)
  \/ Undo(r) \/ UndoDrop(r)
  \/ ReleaseRow(r) \/ DropKey(r) \/ DeleteRow(r) \/ ShrinkRow(r)
  \/ Survey(r) \/ RefreshKey(r)
  \/ SaveOrder(r) \/ ClearKey(r) \/ EmptyCart(r)
  \/ GetRemaining(r) \/ Emit(r) \/ CommandFails(r)

ExpireStep(h) == \/ ExpireFind(h) \/ ExpireRelease(h) \/ ExpireDelete(h)
                 \/ ExpireEmit(h) \/ ExpireFails(h)

Boot == LoadScript \/ SeedStock \/ Subscribe

Next == \/ \E r \in Request : Call(r) \/ Step(r) \/ KeyExpires(r)
        \/ \E h \in exp : ExpireStep(h)
        \/ Crash
        \/ Boot
        \/ RedisByItself

Spec == Init /\ [][Next]_vars

(* The event loop and the stores answer every command, Redis expires every *)
(* key and delivers a notification once published, and a crashed server is *)
(* started again.  Nothing obliges a client to call.                       *)
Fairness ==
  /\ \A r \in Request : WF_vars(Step(r)) /\ WF_vars(KeyExpires(r))
  /\ \A c, r \in Request :
       WF_vars(\E h \in exp : h.id = c /\ h.by = r /\ ExpireStep(h))
  /\ WF_vars(Boot)

FairSpec == Spec /\ Fairness

-----------------------------------------------------------------------------
(* Properties.                                                             *)

(* The live counter is never negative: the check and the decrement of      *)
(* reserveStock.lua cannot be separated, seed clamps, and nothing else     *)
(* takes units.                                                            *)
StockNonNegative == \A i \in Item : stock[i] >= 0

(* What one handler reads, keeps across its awaits and writes back is      *)
(* always the cart of the user it runs for: a row, a snapshot row or a row *)
(* sold belongs to the user and item of the request that generated its id. *)
OwnRow(row) == /\ row.user = req[row.id].user
               /\ row.item = req[row.id].item

CartsAreSeparate ==
  /\ \A c \in Request : rows[c] # None => rows[c].id = c /\ OwnRow(rows[c])
  /\ \A r \in Request : \A row \in req[r].todo \cup orders[r] :
       OwnRow(row) /\ row.user = req[r].user
  /\ \A h \in exp : h.row # None => h.row.id = h.id /\ OwnRow(h.row)

(* Units by where they are: in cart rows, taken by a reserve whose row is  *)
(* not written yet, and sold.                                              *)
PendingUnits(i) ==
  UNION {{r} \X (1 .. req[r].arg) :
           r \in {s \in Request : /\ req[s].pc \in {"save", "undo"}
                                 /\ req[s].item = i}}

SoldUnits(i) ==
  UNION {{r} \X UnitsOf({row \in orders[r] : row.item = i}) : r \in Request}

Held(i) == QtyOf(RowsOfItem(i))
Pending(i) == Cardinality(PendingUnits(i))
Sold(i) == Cardinality(SoldUnits(i))

(* The units a reserve could take now.  While the server boots, or when    *)
(* Redis does not know the script, every reserve is refused, whatever the  *)
(* counter says.                                                           *)
OnOffer(i) == IF script /\ server \in {"seeded", "up"} THEN stock[i] ELSE 0

(* Never are there more units to be had, in carts, in the hands of a       *)
(* handler and sold than the catalogue has: rollbacks, restarts of the     *)
(* server, restarts of Redis from an old snapshot and the writes of        *)
(* requests that started from the same snapshot included.  (A crashed      *)
(* server's pending units are in nobody's hands until the seed.)           *)
NoOversell ==
  \A i \in Item : OnOffer(i) + Held(i) + Pending(i) + Sold(i) <= TotalStock[i]

(* The reconciling seed makes up for every unit a crash had stranded, and  *)
(* for whatever a restart of Redis did to the counters.                    *)
SeedReconciles ==
  server = "seeded" /\ script =>
    \A i \in Item : stock[i] + Held(i) + Sold(i) = TotalStock[i]

(* A handler that will delete row c, or is about to learn that it is gone. *)
Disposing(c) ==
  \/ \E r \in Request :
       \/ req[r].pc \in {"drop", "delete"} /\ req[r].id = c
       \/ req[r].pc \in {"clear", "empty"} /\ req[r].user = rows[c].user
  \/ \E h \in exp : h.id = c

(* No row outlives its reservation key: if the key is gone, some handler   *)
(* is on its way to delete the row; without the key nothing else would.    *)
NoImmortalRow ==
  \A c \in Request : rows[c] # None /\ key[c] = None => Disposing(c)

(* An abandoned cart row goes away, whatever the other handlers do.        *)
AbandonedCartsRelease ==
  \A c \in Request : (rows[c] # None) ~> (rows[c] = None)

(* In the end every unit that was not sold is for sale again.              *)
StockReturns ==
  <>[](\A i \in Item : stock[i] + Sold(i) = TotalStock[i])

(* No order takes units the catalogue does not have.                       *)
SoldWithinStock == \A i \in Item : Sold(i) <= TotalStock[i]

(* The counter never exceeds the catalogue: no unit is released twice.     *)
StockWithinCapacity == \A i \in Item : stock[i] <= TotalStock[i]

(* The units of a row that an order has sold are not put back for sale.    *)
SoldNotCredited ==
  [][\A h \in exp : ExpireRelease(h) =>
       \A r \in Request : \A row \in orders[r] : row.id # h.id]_vars

=============================================================================

--------------------------- MODULE Ledger_proof ----------------------------
(***************************************************************************)
(* One call per cart at a time, FlashSale implements StockLedger: the      *)
(* counters in Redis, the cart rows and the orders in Mongo change as one  *)
(* ledger of units would, for every set of requests, users and items.      *)
(***************************************************************************)
EXTENDS FlashSale_proof, FlashSaleLedger

(* The hypothesis: each cart has one handler under way at a time (the      *)
(* expiry of its keys included), nothing crashes, and the calls that may   *)
(* fail are those whose failure leaves no unit without an owner.           *)
OneCallPerCart ==
  /\ Concurrency = "perCart"
  /\ MaxCrashes = 0
  /\ MaxRedisRestarts = 0
  /\ Faulty \subseteq {"add", "reserve", "release", "order", "undoDrop", "get", "survey",
                       "refresh", "notify"}

(* Request c has arrived.                                                  *)
Started(c) == req[c].pc # "new"

(* One handler per user.                                                   *)
Alone ==
  /\ \A r, s \in Request : InFlight(r) /\ InFlight(s) /\ req[r].user = req[s].user => r = s
  /\ \A r \in Request : \A h \in exp : InFlight(r) => req[r].user # req[h.id].user
  /\ \A h, g \in exp : req[h.id].user = req[g.id].user => h = g

(* What handler r read from the collections is what is still there.        *)
Snapshot(r) ==
  /\ req[r].pc \in {"reserve", "save"}
       => req[r].base = IF rows[req[r].id] = None THEN 0 ELSE rows[req[r].id].qty
  /\ req[r].pc \in {"release", "drop", "delete"}
       => \A row \in req[r].todo : rows[row.id] = row
  /\ req[r].pc \in {"drop", "delete"}
       => /\ req[r].id \in Request /\ Started(req[r].id)
          /\ req[req[r].id].user = req[r].user
          /\ \A row \in req[r].todo : row.id # req[r].id
  /\ req[r].pc = "shrink"
       => rows[req[r].id] # None /\ rows[req[r].id].qty = req[r].base
  /\ req[r].pc = "order"
       => req[r].todo = FindByUser(req[r].user) /\ req[r].todo # {}
  /\ req[r].pc \in {"clear", "empty"} => FindByUser(req[r].user) \subseteq orders[r]
  /\ req[r].pc \in {"new", "order"} => orders[r] = {}
  /\ Started(r) => req[r].user \in User

(* For every handler.                                                      *)
Snapshots == \A r \in Request : Snapshot(r)

(* Keys are those of requests that have arrived.                           *)
KeysStarted == \A c \in Request : key[c] # None => Started(c)

(* The handler of an expired key knows its row as it is.                   *)
ExpiryKnows ==
  \A h \in exp : Started(h.id) /\ (h.pc = "release" => rows[h.id] = h.row)

(* The inductive invariant.                                                *)
LInv == Inv /\ Separated /\ Alone /\ Snapshots /\ KeysStarted /\ ExpiryKnows /\ server = "up"

(* Only rows of user w change. *)
OnlyRowsOf(w) == \A c \in Request : rows'[c] # rows[c] => Started(c) /\ req[c].user = w

-----------------------------------------------------------------------------
(* The invariant: what a handler read is still so, since no other handler  *)
(* touches its user's cart.                                                *)

(* A user's rows are those his requests generated.                         *)
LEMMA FoundRow ==
  ASSUME RowsOwned, Inv, NEW u
  PROVE  FindByUser(u) = {rows[c] : c \in {d \in Request : rows[d] # None /\ req[d].user = u}}
BY DEF RowsOwned, OwnedRow, Owns, FindByUser

(* A step in one user's cart leaves the carts of others.                   *)
LEMMA OtherRowsFound ==
  ASSUME Inv, Separated, Separated', NEW w, NEW v, v # w, OnlyRowsOf(w), Kept
  PROVE  FindByUser(v)' = FindByUser(v) 
<1>1. \A c \in Request : rows[c] # None => rows[c].id = c /\ req[c].user = rows[c].user
  BY DEF Separated, RowsOwned, OwnedRow, Owns
<1>2. \A c \in Request : rows'[c] # None => rows'[c].id = c /\ req'[c].user = rows'[c].user
  BY DEF Separated, RowsOwned, OwnedRow, Owns
<1>3. \A c \in Request : rows'[c] = rows[c] \/ (req[c].user = w /\ req'[c].user = w)
  BY DEF OnlyRowsOf, Started, Kept, KeptBy
<1> QED
  BY <1>1, <1>2, <1>3 DEF FindByUser

(* The carts found are the same while the collection is.                   *)
LEMMA FoundSame ==
  ASSUME rows' = rows
  PROVE  \A u, i : FindByUser(u)' = FindByUser(u) /\ FindInCart(u, i)' = FindInCart(u, i)
BY DEF FindByUser, FindInCart

(* The snapshots of the handlers of other users stay good. *)
LEMMA OtherSnapshots ==
  ASSUME Inv, Separated, Separated', Snapshots, NEW w, OnlyRowsOf(w), Kept,
         NEW s \in Request, req'[s] = req[s], orders'[s] = orders[s],
         InFlight(s) => req[s].user # w
  PROVE  Snapshot(s)'
<1>1. Snapshot(s)
  BY DEF Snapshots
<1>2. CASE ~InFlight(s)
  BY <1>1, <1>2 DEF Snapshot, InFlight, Started
<1>3. CASE InFlight(s)
  <2> SUFFICES ASSUME NEW v, v = req[s].user
               PROVE  Snapshot(s)'
    OBVIOUS
  <2>1. v # w /\ req'[s].user = v
    BY <1>3
  <2>2. FindByUser(v)' = FindByUser(v)
    BY <2>1, OtherRowsFound
  <2>3. \A c \in Request : req[c].user = v => rows'[c] = rows[c]
    BY <2>1 DEF OnlyRowsOf
  <2>4. \A row \in req[s].todo : row.id \in Request /\ req[row.id].user = v
    <3>1. req[s].todo \in SUBSET CartRow
      BY DEF Inv, TypeOK, Locals
    <3> QED
      BY <3>1 DEF Separated, AllLocalsOwned, LocalsOwned, OwnedRow, Owns, CartRow
  <2>5. req[s].pc \in {"reserve", "save", "shrink"}
          => req[s].id \in Request /\ req[req[s].id].user = v
    BY DEF Inv, LocalsOK, Separated, AllLocalsOwned, LocalsOwned, Owns
  <2>6. req[s].pc \in {"drop", "delete"}
          => /\ req[s].id \in Request /\ Started(req[s].id)
             /\ req'[req[s].id].pc # "new" /\ req'[req[s].id].user = v
    BY <1>1 DEF Snapshot, Started, Kept, KeptBy
  <2> QED
    BY <1>1, <2>1, <2>2, <2>3, <2>4, <2>5, <2>6 DEF Snapshot, Started
<1> QED
  BY <1>2, <1>3

(* User w's cart is r's to handle: r runs for w already, or is the call    *)
(* that arrives while nothing runs for w.                                  *)
RunsFor(r, w) == \/ InFlight(r) /\ req[r].user = w
                 \/ req[r].pc = "new" /\ Idle(w)

(* A step of r for w keeps one handler per user.                           *)
LEMMA AloneNext ==
  ASSUME Inv, Alone, \A h \in exp : Started(h.id), Kept, NEW r \in Request, Others(r),
         NEW w, req'[r].user = w, RunsFor(r, w), exp' = exp
  PROVE  Alone' /\ \A h \in exp : req[h.id].user # w /\ req'[h.id].user = req[h.id].user
<1>1. \A s \in Request : s # r /\ InFlight(s) => req[s].user # w
  BY DEF RunsFor, Idle, Alone
<1>2. \A h \in exp : h.id \in Request /\ req[h.id].user # w
  BY DEF RunsFor, Idle, Alone, Inv, TypeOK, ExpiryHandler
<1>3. \A h \in exp : req'[h.id].user = req[h.id].user
  BY <1>2 DEF Started, Kept, KeptBy
<1>4. \A s \in Request : s # r => req'[s] = req[s]
  BY DEF Others
<1>5. /\ \A s, t \in Request : InFlight(s) /\ InFlight(t) /\ req[s].user = req[t].user => s = t
      /\ \A s \in Request : \A h \in exp : InFlight(s) => req[s].user # req[h.id].user
      /\ \A h, g \in exp : req[h.id].user = req[g.id].user => h = g
  BY DEF Alone
<1>6. \A s, t \in Request : InFlight(s)' /\ InFlight(t)' /\ req'[s].user = req'[t].user => s = t
  BY <1>1, <1>4, <1>5 DEF InFlight
<1>7. \A s \in Request : \A h \in exp : InFlight(s)' => req'[s].user # req'[h.id].user
  BY <1>2, <1>3, <1>4, <1>5 DEF InFlight
<1>8. \A h, g \in exp : req'[h.id].user = req'[g.id].user => h = g
  BY <1>3, <1>5
<1> QED
  BY <1>2, <1>3, <1>6, <1>7, <1>8 DEF Alone

(* What a step of handler r has to show for LInv.                          *)
LEMMA HandlerStep ==
  ASSUME LInv, Inv', Separated', Kept, NEW r \in Request, Others(r), NEW w,
         req'[r].user = w, RunsFor(r, w), OnlyRowsOf(w), exp' = exp, server' = server,
         \A s \in Request : s # r => orders'[s] = orders[s],
         \A c \in Request : key'[c] # None => key[c] # None \/ req'[c].pc # "new",
         Snapshot(r)'
  PROVE  LInv'
<1>1. Alone' /\ \A h \in exp : req[h.id].user # w /\ req'[h.id].user = req[h.id].user
  BY AloneNext DEF LInv, ExpiryKnows
<1>2. Snapshots'
  <2> SUFFICES ASSUME NEW s \in Request PROVE Snapshot(s)'
    BY DEF Snapshots
  <2>1. CASE s = r
    BY <2>1
  <2>2. CASE s # r
    <3>1. InFlight(s) => req[s].user # w
      BY <2>2 DEF RunsFor, Idle, LInv, Alone
    <3> QED
      BY <2>2, <3>1, OtherSnapshots DEF LInv, Others
  <2> QED
    BY <2>1, <2>2
<1>3. KeysStarted'
  BY DEF LInv, KeysStarted, Started, Kept, KeptBy
<1>4. ExpiryKnows'
  <2> SUFFICES ASSUME NEW h \in exp
               PROVE  req'[h.id].pc # "new" /\ (h.pc = "release" => rows'[h.id] = h.row)
    BY DEF ExpiryKnows, Started
  <2>1. h.id \in Request /\ req[h.id].user # w /\ Started(h.id)
    BY <1>1 DEF LInv, Inv, TypeOK, ExpiryHandler, ExpiryKnows
  <2> QED
    BY <2>1 DEF LInv, ExpiryKnows, Started, Kept, KeptBy, OnlyRowsOf
<1> QED
  BY <1>1, <1>2, <1>3, <1>4 DEF LInv

(* A handler that is at none of the awaits that Snapshot speaks of. *)
CarriesNothing(pc) == pc \in {"undo", "undoDrop", "get", "survey", "refresh", "emit", "done"}

(* Such a handler's Snapshot holds.                                        *)
LEMMA EasySnapshot ==
  ASSUME NEW r \in Request, CarriesNothing(req'[r].pc), req'[r].user \in User
  PROVE  Snapshot(r)'
BY DEF Snapshot, CarriesNothing

(* A step that leaves the rows leaves those of every user.                 *)
LEMMA NoRowsTouched ==
  ASSUME rows' = rows
  PROVE  \A w : OnlyRowsOf(w)
BY DEF OnlyRowsOf

(* A handler under way serves a user, and knows its rows.                  *)
LEMMA StartedUser ==
  ASSUME LInv, NEW r \in Request, InFlight(r)
  PROVE  req[r].user \in User /\ RunsFor(r, req[r].user) /\ Snapshot(r) /\ req[r] \in Locals
BY DEF LInv, Snapshots, Snapshot, Started, InFlight, RunsFor, Inv, TypeOK

(* The refused reserve ends its request. *)
LEMMA RefusedLInv ==
  ASSUME LInv, Inv', Separated', Kept, NEW r \in Request, NEW w \in User, RunsFor(r, w), NEW i,
         Finishes(r, w, i), UNCHANGED <<redisVars, mongoVars, exp, server>>
  PROVE  LInv'
<1>1. Others(r) /\ req'[r].user = w /\ req'[r].pc = "done"
  BY DEF Finishes, Becomes, Others
<1>2. Snapshot(r)'
  BY <1>1, EasySnapshot DEF CarriesNothing
<1> QED
  BY <1>1, <1>2, HandlerStep, NoRowsTouched DEF redisVars, mongoVars

(* The calls keep the invariant.                                           *)
LEMMA CallLInv ==
  ASSUME OneCallPerCart, LInv, Inv', Separated', Kept, NEW r \in Request, Call(r)
  PROVE  LInv'
<1>0. rows[r] = None \/ Started(r)
  BY DEF LInv, Inv, TypeOK, Separated, RowsOwned, OwnedRow, Owns, Started
<1>a. \A u \in User : \A op : Arrives(r, u, op)
        => req[r].pc = "new" /\ RunsFor(r, u) /\ server = "up" /\ rows[r] = None /\ orders[r] = {}
  BY <1>0 DEF Arrives, Permitted, OneCallPerCart, RunsFor, Started, LInv, Snapshots, Snapshot
<1>1. ASSUME NEW u \in User, NEW i \in Item, NEW q \in Quantity, AddToCart(r, u, i, q)
      PROVE  LInv'
  <2>1. /\ RunsFor(r, u) /\ rows[r] = None /\ rows' = rows /\ exp' = exp /\ server' = server
        /\ orders' = orders
    BY <1>a, <1>1 DEF AddToCart, mongoVars, serverVars
  <2>2. CASE Reserve(i, r, q, r)
             /\ Becomes(r, "save", "add", u, i, r, q, 0, {}, {}, stock[i] - q)
    <3>1. Others(r) /\ req'[r].user = u /\ req'[r].pc = "save" /\ req'[r].id = r /\ req'[r].base = 0
      BY <2>2 DEF Becomes, Others
    <3>2. Snapshot(r)'
      BY <2>1, <3>1 DEF Snapshot
    <3>3. \A c \in Request : key'[c] # None => key[c] # None \/ req'[c].pc # "new"
      BY <2>2, <3>1 DEF Reserve, LInv, Inv, TypeOK, RedisTypeOK
    <3> QED
      BY <2>1, <3>1, <3>2, <3>3, HandlerStep, NoRowsTouched
  <2>3. CASE UNCHANGED redisVars /\ Finishes(r, u, i)
    BY <2>1, <2>3, RefusedLInv DEF mongoVars
  <2> QED
    BY <1>1, <2>2, <2>3, AddToCartNow DEF LInv
<1>2. ASSUME NEW u \in User, NEW i \in Item, NEW q \in Quantity, Increase(r, u, i, q)
      PROVE  LInv'
  <2>1. /\ RunsFor(r, u) /\ rows[r] = None /\ rows' = rows /\ exp' = exp /\ server' = server
        /\ orders' = orders /\ key' = key
    BY <1>a, <1>2 DEF Increase, mongoVars, serverVars, redisVars
  <2>2. /\ Others(r) /\ req'[r].pc = "reserve" /\ req'[r].user = u
        /\ \/ req'[r].id = r /\ req'[r].base = 0
           \/ \E row \in FindInCart(u, i) : req'[r].id = row.id /\ req'[r].base = row.qty
    BY <1>2, IncreaseNow DEF Becomes, Others, LInv
  <2>3. \A row \in FindInCart(u, i) : row # None /\ rows[row.id] = row
    BY DEF FindInCart, FindByUser, LInv, Separated, RowsOwned
  <2>4. req'[r].base = IF rows'[req'[r].id] = None THEN 0 ELSE rows'[req'[r].id].qty
    BY <2>1, <2>2, <2>3
  <2>5. Snapshot(r)'
    BY <2>2, <2>4 DEF Snapshot
  <2> QED
    BY <2>1, <2>2, <2>5, HandlerStep, NoRowsTouched
<1>3. ASSUME NEW u \in User, NEW i \in Item, RemoveFromCart(r, u, i) \/ \E q \in Quantity : Decrease(r, u, i, q)
      PROVE  LInv'
  <2>1. /\ RunsFor(r, u) /\ rows' = rows /\ exp' = exp /\ server' = server
        /\ orders' = orders /\ key' = key
    BY <1>a, <1>3 DEF RemoveFromCart, Decrease, mongoVars, serverVars, redisVars
  <2>2. /\ Others(r) /\ req'[r].user = u
        /\ req'[r].pc \in {"get", "release"} /\ req'[r].todo \in {{}, FindInCart(u, i)}
    BY <1>3, RemoveFromCartNow, DecreaseNow DEF Becomes, Others, LInv
  <2>3. \A row \in FindInCart(u, i) : row # None /\ rows[row.id] = row
    BY DEF FindInCart, FindByUser, LInv, Separated, RowsOwned
  <2>4. \A row \in req'[r].todo : rows'[row.id] = row
    BY <2>1, <2>2, <2>3
  <2>5. Snapshot(r)'
    BY <2>2, <2>4 DEF Snapshot
  <2> QED
    BY <2>1, <2>2, <2>5, HandlerStep, NoRowsTouched
<1>4. ASSUME NEW u \in User, Checkout(r, u)
      PROVE  LInv'
  <2>1. /\ RunsFor(r, u) /\ rows' = rows /\ exp' = exp /\ server' = server
        /\ orders' = orders /\ key' = key /\ orders[r] = {} /\ FindByUser(u) # {}
    BY <1>a, <1>4 DEF Checkout, mongoVars, serverVars, redisVars
  <2>2. /\ Others(r) /\ req'[r].user = u
        /\ req'[r].pc = "order" /\ req'[r].todo = FindByUser(u)
    BY <1>4, CheckoutNow DEF Becomes, Others, LInv
  <2>3. FindByUser(u)' = FindByUser(u)
    BY <2>1, FoundSame
  <2>5. Snapshot(r)'
    BY <2>1, <2>2, <2>3 DEF Snapshot
  <2> QED
    BY <2>1, <2>2, <2>5, HandlerStep, NoRowsTouched
<1> QED
  BY <1>1, <1>2, <1>3, <1>4 DEF Call

(* The handlers' steps keep the invariant.                                 *)
LEMMA StepLInv ==
  ASSUME OneCallPerCart, LInv, Inv', Separated', Kept, NEW r \in Request, Step(r)
  PROVE  LInv'
<1>1. InFlight(r)
  BY DEF Step, IncreaseReserve, SaveRow, SaveRowReplyLost, Undo, UndoDrop, ReleaseRow, DropKey,
     DeleteRow, ShrinkRow, Survey, RefreshKey, SaveOrder, ClearKey, EmptyCart, GetRemaining,
     Emit, CommandFails, At, InFlight
<1> SUFFICES ASSUME NEW w, w = req[r].user
             PROVE  LInv'
  OBVIOUS
<1>2. /\ w \in User /\ RunsFor(r, w) /\ Snapshot(r) /\ req[r] \in Locals
      /\ req[r].todo \in SUBSET CartRow
  BY <1>1, StartedUser DEF Locals
<1>3. \A row \in req[r].todo : row.id \in Request /\ row.user = w
  BY <1>2 DEF LInv, Separated, AllLocalsOwned, LocalsOwned, CartRow
<1>4. rows \in [Request -> CartRow \cup {None}]
  BY DEF LInv, Inv, TypeOK
<1>5. CASE IncreaseReserve(r)
  <2>1. /\ rows' = rows /\ exp' = exp /\ server' = server /\ orders' = orders
        /\ req[r].pc = "reserve" /\ UNCHANGED mongoVars
    BY <1>5 DEF IncreaseReserve, At, mongoVars, serverVars
  <2>2. CASE /\ Reserve(req[r].item, req[r].id, req[r].arg, r)
             /\ Becomes(r, "save", req[r].op, w, req[r].item, req[r].id,
                        req[r].arg, req[r].base, req[r].todo, req[r].items,
                        stock[req[r].item] - req[r].arg)
    <3>1. /\ Others(r) /\ req'[r].user = w /\ req'[r].pc = "save" /\ req'[r].id = req[r].id
          /\ req'[r].base = req[r].base
      BY <2>2 DEF Becomes, Others
    <3>2. Snapshot(r)'
      BY <1>2, <2>1, <3>1 DEF Snapshot
    <3>3. req[r].id \in Request /\ req[req[r].id].pc # "new"
      BY <2>1 DEF LInv, Inv, LocalsOK, Separated, AllLocalsOwned, LocalsOwned, Owns
    <3>4. \A c \in Request : key'[c] # None => key[c] # None \/ req'[c].pc # "new"
      BY <2>2, <3>3 DEF Reserve, LInv, Inv, TypeOK, RedisTypeOK, Kept, KeptBy
    <3> QED
      BY <1>2, <2>1, <3>1, <3>2, <3>4, HandlerStep, NoRowsTouched
  <2>3. CASE UNCHANGED redisVars /\ Finishes(r, w, ItemOfId(req[r]))
    BY <1>2, <2>1, <2>3, RefusedLInv
  <2> QED
    BY <1>5, <2>2, <2>3, IncreaseReserveNow DEF LInv
<1>6. CASE SaveRow(r)
  <2>1. /\ exp' = exp /\ server' = server /\ orders' = orders /\ key' = key
        /\ req[r].pc = "save"
    BY <1>6 DEF SaveRow, At, serverVars, redisVars
  <2>2. req[r].id \in Request /\ Started(req[r].id) /\ req[req[r].id].user = w
    BY <2>1 DEF LInv, Inv, LocalsOK, Separated, AllLocalsOwned, LocalsOwned, Owns, Started
  <2>3. OnlyRowsOf(w)
    BY <1>4, <1>6, <2>2 DEF SaveRow, SaveCartItem, ReservedRow, OnlyRowsOf
  <2>4. Others(r) /\ req'[r].user = w /\ req'[r].pc \in {"emit", "survey"}
    BY <1>6, SaveRowNow DEF Becomes, Others, AfterSave, LInv
  <2>5. Snapshot(r)'
    BY <1>2, <2>4, EasySnapshot DEF CarriesNothing
  <2> QED
    BY <1>2, <2>1, <2>3, <2>4, <2>5, HandlerStep
<1>7. CASE Undo(r) \/ UndoDrop(r) \/ Survey(r) \/ RefreshKey(r) \/ GetRemaining(r) \/ Emit(r)
  <2>1. rows' = rows /\ exp' = exp /\ server' = server /\ orders' = orders
    BY <1>7 DEF Undo, UndoDrop, Survey, RefreshKey, GetRemaining, Emit, mongoVars, serverVars
  <2>2. \A c \in Request : key'[c] # None => key[c] # None
    BY <1>7 DEF Undo, UndoDrop, Survey, RefreshKey, GetRemaining, Emit, redisVars, Drop, Refresh,
       LInv, Inv, TypeOK, RedisTypeOK
  <2>3. Others(r) /\ req'[r].user = w /\ CarriesNothing(req'[r].pc)
    <3>1. CASE Undo(r)
      BY <3>1, UndoNow DEF Becomes, Others, LInv, CarriesNothing
    <3>2. CASE UndoDrop(r)
      BY <3>2, UndoDropNow DEF Becomes, Others, LInv, CarriesNothing
    <3>3. CASE Survey(r)
      BY <3>3, SurveyNow DEF Becomes, Others, LInv, CarriesNothing
    <3>4. CASE RefreshKey(r)
      BY <3>4, RefreshKeyNow DEF Becomes, Others, LInv, CarriesNothing
    <3>5. CASE GetRemaining(r)
      BY <3>5, GetRemainingNow DEF Becomes, Others, LInv, CarriesNothing
    <3>6. CASE Emit(r)
      BY <3>6, EmitNow DEF Finishes, Becomes, Others, LInv, CarriesNothing
    <3> QED
      BY <1>7, <3>1, <3>2, <3>3, <3>4, <3>5, <3>6
  <2>4. Snapshot(r)'
    BY <1>2, <2>3, EasySnapshot
  <2> QED
    BY <1>2, <2>1, <2>2, <2>3, <2>4, HandlerStep, NoRowsTouched
<1>8. CASE ReleaseRow(r)
  <2>1. /\ rows' = rows /\ exp' = exp /\ server' = server /\ orders' = orders /\ key' = key
        /\ req[r].pc = "release"
    BY <1>8 DEF ReleaseRow, At, mongoVars, serverVars
  <2>2. /\ Others(r) /\ req'[r].user = w
        /\ \E row \in req[r].todo :
             \/ /\ req'[r].pc = "drop" /\ req'[r].id = row.id
                /\ req'[r].todo = req[r].todo \ {row}
             \/ /\ req'[r].pc = "shrink" /\ req'[r].id = row.id /\ req'[r].base = row.qty
    BY <1>8, ReleaseRowNow DEF Becomes, Others, LInv
  <2>3. \A row \in req[r].todo : rows[row.id] = row /\ row # None
    BY <1>2, <2>1, RowAssumption DEF Snapshot
  <2>4. \A row \in req[r].todo : req'[row.id].pc # "new" /\ req'[row.id].user = w
    BY <1>3 DEF LInv, Separated, AllLocalsOwned, LocalsOwned, OwnedRow, Owns, Kept, KeptBy
  <2>5. Snapshot(r)'
    <3>1. PICK row \in req[r].todo :
             \/ /\ req'[r].pc = "drop" /\ req'[r].id = row.id
                /\ req'[r].todo = req[r].todo \ {row}
             \/ /\ req'[r].pc = "shrink" /\ req'[r].id = row.id /\ req'[r].base = row.qty
      BY <2>2
    <3>2. row.id \in Request
      BY <1>3
    <3>3. \A x \in req[r].todo \ {row} : x.id # row.id /\ rows'[x.id] = x
      BY <2>1, <2>3
    <3> QED
      BY <1>2, <2>1, <2>2, <2>3, <2>4, <3>1, <3>2, <3>3 DEF Snapshot, Started
  <2> QED
    BY <1>2, <2>1, <2>2, <2>5, HandlerStep, NoRowsTouched
<1>9. CASE DropKey(r)
  <2>1. /\ rows' = rows /\ exp' = exp /\ server' = server /\ orders' = orders
        /\ req[r].pc = "drop" /\ \A c \in Request : key'[c] # None => key[c] # None
    BY <1>9 DEF DropKey, Drop, At, mongoVars, serverVars, LInv, Inv, TypeOK, RedisTypeOK
  <2>2. /\ Others(r) /\ req'[r].user = w /\ req'[r].pc = "delete" /\ req'[r].id = req[r].id
        /\ req'[r].todo = req[r].todo
    BY <1>9, DropKeyNow DEF Becomes, Others, LInv
  <2>3. Snapshot(r)'
    BY <1>2, <2>1, <2>2 DEF Snapshot, Started, Kept, KeptBy
  <2> QED
    BY <1>2, <2>1, <2>2, <2>3, HandlerStep, NoRowsTouched
<1>10. CASE DeleteRow(r)
  <2>1. /\ exp' = exp /\ server' = server /\ orders' = orders /\ key' = key
        /\ req[r].pc = "delete" /\ rows' = [rows EXCEPT ![req[r].id] = None]
    BY <1>10 DEF DeleteRow, DeleteById, At, redisVars, serverVars
  <2>2. /\ req[r].id \in Request /\ Started(req[r].id) /\ req[req[r].id].user = w
        /\ \A row \in req[r].todo : row.id # req[r].id /\ rows[row.id] = row
    BY <1>2, <2>1 DEF Snapshot
  <2>3. OnlyRowsOf(w)
    BY <1>4, <2>1, <2>2 DEF OnlyRowsOf
  <2>4. /\ Others(r) /\ req'[r].user = w
        /\ \/ req'[r].pc = "release" /\ req'[r].todo = req[r].todo
           \/ req'[r].pc \in {"emit", "survey"}
    BY <1>10, DeleteRowNow DEF Becomes, Others, LInv
  <2>5. Snapshot(r)'
    BY <1>2, <1>3, <1>4, <2>1, <2>2, <2>4 DEF Snapshot
  <2> QED
    BY <1>2, <2>1, <2>3, <2>4, <2>5, HandlerStep
<1>11. CASE ShrinkRow(r)
  <2>1. /\ exp' = exp /\ server' = server /\ orders' = orders /\ key' = key
        /\ req[r].pc = "shrink"
    BY <1>11 DEF ShrinkRow, At, serverVars, redisVars
  <2>2. req[r].id \in Request /\ Started(req[r].id) /\ req[req[r].id].user = w
    BY <2>1 DEF LInv, Inv, LocalsOK, Separated, AllLocalsOwned, LocalsOwned, Owns, Started
  <2>3. OnlyRowsOf(w)
    BY <1>4, <1>11, <2>2 DEF ShrinkRow, SaveCartItem, ShrunkRow, OnlyRowsOf
  <2>4. Others(r) /\ req'[r].user = w /\ req'[r].pc = "survey"
    BY <1>11, ShrinkRowNow DEF Becomes, Others, LInv
  <2>5. Snapshot(r)'
    BY <1>2, <2>4, EasySnapshot DEF CarriesNothing
  <2> QED
    BY <1>2, <2>1, <2>3, <2>4, <2>5, HandlerStep
<1>12. CASE SaveOrder(r)
  <2>1. /\ rows' = rows /\ exp' = exp /\ server' = server /\ key' = key
        /\ req[r].pc = "order" /\ orders' = [orders EXCEPT ![r] = req[r].todo]
    BY <1>12 DEF SaveOrder, At, serverVars, redisVars
  <2>2. Others(r) /\ req'[r].user = w /\ req'[r].pc = "clear"
    BY <1>12, SaveOrderNow DEF Becomes, Others, LInv
  <2>3. FindByUser(w)' = FindByUser(w) /\ FindByUser(w) = req[r].todo
    BY <1>2, <2>1, FoundSame DEF Snapshot
  <2>4. orders \in [Request -> SUBSET CartRow]
    BY DEF LInv, Inv, TypeOK
  <2>5. Snapshot(r)'
    BY <1>2, <2>1, <2>2, <2>3, <2>4 DEF Snapshot
  <2>6. \A s \in Request : s # r => orders'[s] = orders[s]
    BY <2>1, <2>4
  <2> QED
    BY <1>2, <2>1, <2>2, <2>5, <2>6, HandlerStep, NoRowsTouched
<1>13. CASE ClearKey(r)
  <2>1. /\ rows' = rows /\ exp' = exp /\ server' = server /\ orders' = orders
        /\ req[r].pc = "clear" /\ \A c \in Request : key'[c] # None => key[c] # None
    BY <1>13 DEF ClearKey, Drop, At, mongoVars, serverVars, LInv, Inv, TypeOK, RedisTypeOK
  <2>2. Others(r) /\ req'[r].user = w /\ req'[r].pc \in {"clear", "empty"}
    BY <1>13, ClearKeyNow DEF Becomes, Others, LInv
  <2>3. FindByUser(w)' = FindByUser(w) /\ FindByUser(w) \subseteq orders[r]
    BY <1>2, <2>1, FoundSame DEF Snapshot
  <2>4. Snapshot(r)'
    BY <1>2, <2>1, <2>2, <2>3 DEF Snapshot
  <2> QED
    BY <1>2, <2>1, <2>2, <2>4, HandlerStep, NoRowsTouched
<1>14. CASE EmptyCart(r)
  <2>1. /\ exp' = exp /\ server' = server /\ orders' = orders /\ key' = key
        /\ \A c \in Request : rows'[c] # rows[c] => rows[c] # None /\ rows[c].user = w
    BY <1>14 DEF EmptyCart, DeleteByUser, At, serverVars, redisVars
  <2>2. OnlyRowsOf(w)
    BY <2>1 DEF OnlyRowsOf, LInv, Separated, RowsOwned, OwnedRow, Owns, Started
  <2>3. Others(r) /\ req'[r].user = w /\ req'[r].pc = "get"
    BY <1>14, EmptyCartNow DEF Becomes, Others, LInv
  <2>4. Snapshot(r)'
    BY <1>2, <2>3, EasySnapshot DEF CarriesNothing
  <2> QED
    BY <1>2, <2>1, <2>2, <2>3, <2>4, HandlerStep
<1>15. CASE CommandFails(r)
  <2>1. rows' = rows /\ exp' = exp /\ server' = server /\ orders' = orders /\ key' = key
    BY <1>15 DEF CommandFails, mongoVars, serverVars, redisVars
  <2>2. Others(r) /\ req'[r].user = w /\ req'[r].pc \in {"undo", "done"}
    BY <1>15, CommandFailsNow DEF Finishes, Becomes, Others, LInv
  <2>3. Snapshot(r)'
    BY <1>2, <2>2, EasySnapshot DEF CarriesNothing
  <2> QED
    BY <1>2, <2>1, <2>2, <2>3, HandlerStep, NoRowsTouched
<1> QED
  BY <1>5, <1>6, <1>7, <1>8, <1>9, <1>10, <1>11, <1>12, <1>13, <1>14, <1>15
  DEF Step, OneCallPerCart, SaveRowReplyLost

(* A step of an expiry handler, which it ends or leaves at its next await. *)
LEMMA ExpiryHandlerStep ==
  ASSUME LInv, Inv', Separated', NEW h \in exp, NEW m, m.id = h.id,
         exp' \subseteq (exp \ {h}) \cup {m}, m.pc = "release" => rows'[h.id] = m.row,
         req' = req, orders' = orders, key' = key, server' = server,
         NEW w, w = req[h.id].user, OnlyRowsOf(w)
  PROVE  LInv'
<1>1. Kept
  BY DEF Kept, KeptBy
<1>2. \A r \in Request : InFlight(r) => req[r].user # w
  BY DEF LInv, Alone
<1>3. \A g \in exp \ {h} : req[g.id].user # w /\ g.id \in Request
  BY DEF LInv, Alone, Inv, TypeOK, ExpiryHandler
<1>4. Snapshots'
  <2> SUFFICES ASSUME NEW s \in Request PROVE Snapshot(s)'
    BY DEF Snapshots
  <2> QED
    BY <1>1, <1>2, OtherSnapshots DEF LInv
<1>5. Alone'
  <2>1. \A g \in exp' : \E f \in exp : f.id = g.id /\ (f = h <=> g = m)
    <3> SUFFICES ASSUME NEW g \in exp' PROVE \E f \in exp : f.id = g.id /\ (f = h <=> g = m)
      OBVIOUS
    <3>1. CASE g = m
      BY <3>1
    <3>2. CASE g # m
      BY <3>2
    <3> QED
      BY <3>1, <3>2
  <2>2. \A r \in Request : InFlight(r)' <=> InFlight(r)
    BY DEF InFlight
  <2>3. \A g, f \in exp' : req[g.id].user = req[f.id].user => g = f
    BY <1>3 DEF LInv, Alone
  <2> QED
    BY <2>1, <2>2, <2>3 DEF LInv, Alone
<1>6. ExpiryKnows'
  <2>1. \A g \in exp \ {h} : rows'[g.id] = rows[g.id]
    BY <1>3 DEF OnlyRowsOf
  <2> QED
    BY <2>1 DEF LInv, ExpiryKnows, Started
<1>7. KeysStarted'
  BY DEF LInv, KeysStarted, Started
<1> QED
  BY <1>4, <1>5, <1>6, <1>7 DEF LInv

(* The steps of the expiry keep the invariant.                             *)
LEMMA ExpireStepLInv ==
  ASSUME OneCallPerCart, LInv, Inv', Separated', NEW h \in exp, ExpireStep(h)
  PROVE  LInv'
<1>1. /\ h \in ExpiryHandler /\ h.id \in Request /\ Started(h.id)
      /\ h.pc = "release" => rows[h.id] = h.row
  BY DEF LInv, Inv, TypeOK, ExpiryHandler, ExpiryKnows
<1>2. rows \in [Request -> CartRow \cup {None}]
  BY DEF LInv, Inv, TypeOK
<1>3. ~ExpireFails(h)
  BY DEF OneCallPerCart, ExpireFails
<1>4. ExpireFind(h) \/ ExpireRelease(h) \/ ExpireDelete(h) \/ ExpireEmit(h)
  BY <1>3 DEF ExpireStep
<1>5. req' = req /\ orders' = orders /\ key' = key /\ server' = server
  BY <1>4 DEF ExpireFind, ExpireRelease, ExpireDelete, ExpireEmit, mongoVars, redisVars,
     serverVars
<1>6. OnlyRowsOf(req[h.id].user)
  BY <1>1, <1>2, <1>4 DEF ExpireFind, ExpireRelease, ExpireDelete, ExpireEmit, mongoVars, DeleteById,
     OnlyRowsOf
<1>7. \E m : /\ m.id = h.id /\ exp' \subseteq (exp \ {h}) \cup {m}
             /\ m.pc = "release" => rows'[h.id] = m.row
  <2>1. CASE ExpireFind(h)
    <3> DEFINE m == [h EXCEPT !.pc = "release", !.row = rows[h.id]]
    <3>1. m.id = h.id /\ m.row = rows[h.id]
      BY <1>1 DEF ExpiryHandler
    <3>2. exp' \subseteq (exp \ {h}) \cup {m} /\ rows' = rows
      BY <2>1 DEF ExpireFind, Advance, mongoVars
    <3> HIDE DEF m
    <3> QED
      BY <3>1, <3>2
  <2>2. CASE ExpireRelease(h)
    <3> DEFINE m == [h EXCEPT !.pc = "delete", !.rem = stock[h.row.item] + h.row.qty]
    <3>1. m.id = h.id /\ m.pc = "delete"
      BY <1>1 DEF ExpiryHandler
    <3>2. exp' \subseteq (exp \ {h}) \cup {m}
      BY <2>2 DEF ExpireRelease, Advance
    <3> HIDE DEF m
    <3> QED
      BY <3>1, <3>2
  <2>3. CASE ExpireDelete(h)
    <3> DEFINE m == [h EXCEPT !.pc = "emit"]
    <3>1. m.id = h.id /\ m.pc = "emit"
      BY <1>1 DEF ExpiryHandler
    <3>2. exp' \subseteq (exp \ {h}) \cup {m}
      BY <2>3 DEF ExpireDelete, Advance
    <3> HIDE DEF m
    <3> QED
      BY <3>1, <3>2
  <2>4. CASE ExpireEmit(h)
    <3>1. exp' \subseteq (exp \ {h}) \cup {h} /\ h.pc = "emit"
      BY <2>4 DEF ExpireEmit
    <3> QED
      BY <3>1
  <2> QED
    BY <1>4, <2>1, <2>2, <2>3, <2>4
<1> QED
  BY <1>5, <1>6, <1>7, ExpiryHandlerStep

(* The expiry of a key keeps the invariant.                                *)
LEMMA KeyExpiresLInv ==
  ASSUME OneCallPerCart, LInv, Inv', Separated', NEW c \in Request, KeyExpires(c)
  PROVE  LInv'
<1>1. key[c] # None /\ Idle(req[c].user) /\ Started(c)
  BY DEF KeyExpires, MayExpire, Permitted, OneCallPerCart, LInv, KeysStarted
<1>2. /\ req' = req /\ rows' = rows /\ orders' = orders /\ server' = server
      /\ \A d \in Request : key'[d] # None => key[d] # None
  BY DEF KeyExpires, TtlPasses, Drop, mongoVars, serverVars, LInv, Inv, TypeOK, RedisTypeOK
<1> DEFINE m == [id |-> c, by |-> key[c], pc |-> "find", row |-> None, rem |-> 0]
<1>3. exp' \subseteq exp \cup {m} /\ m.id = c /\ m.pc = "find"
  BY DEF KeyExpires
<1> HIDE DEF m
<1>4. Kept
  BY <1>2 DEF Kept, KeptBy
<1>5. Snapshots'
  <2> SUFFICES ASSUME NEW s \in Request PROVE Snapshot(s)'
    BY DEF Snapshots
  <2>1. InFlight(s) => req[s].user # req[c].user
    BY <1>1 DEF Idle
  <2> QED
    BY <1>2, <1>4, <2>1, OtherSnapshots, NoRowsTouched DEF LInv
<1>6. Alone'
  <2>1. \A r \in Request : InFlight(r)' <=> InFlight(r)
    BY <1>2 DEF InFlight
  <2>2. \A h \in exp : req[h.id].user # req[c].user
    BY <1>1 DEF Idle
  <2>3. \A r \in Request : InFlight(r) => req[r].user # req[c].user
    BY <1>1 DEF Idle
  <2> QED
    BY <1>2, <1>3, <2>1, <2>2, <2>3 DEF LInv, Alone
<1>7. ExpiryKnows' /\ KeysStarted'
  BY <1>1, <1>2, <1>3 DEF LInv, ExpiryKnows, KeysStarted, Started
<1> QED
  BY <1>2, <1>5, <1>6, <1>7 DEF LInv

(* It holds initially.                                                     *)
LEMMA LInvInit == Init => LInv
<1> SUFFICES ASSUME Init PROVE LInv
  OBVIOUS
<1>1. /\ \A r \in Request : req[r].pc = "new" /\ orders[r] = {} /\ key[r] = None
      /\ exp = {} /\ server = "up"
  BY DEF Init, RedisInit, Fresh
<1>2. Alone /\ Snapshots /\ KeysStarted /\ ExpiryKnows
  BY <1>1 DEF Alone, Snapshots, Snapshot, KeysStarted, ExpiryKnows, Started, InFlight
<1> QED
  BY <1>1, <1>2, InvInit, SeparatedInit DEF LInv

(* No crash, boot or restart happens.                                      *)
LEMMA NothingElse ==
  ASSUME OneCallPerCart, LInv
  PROVE  ~Crash /\ ~Boot /\ ~RedisByItself
BY DEF OneCallPerCart, LInv, Inv, TypeOK, RedisTypeOK, Crash, Boot, LoadScript, SeedStock,
   Subscribe, RedisByItself, SnapshotRedis, RedisSaves, RestartRedis, RedisRestarts

(* Every step keeps the invariant.                                         *)
LEMMA LInvNext ==
  ASSUME OneCallPerCart, LInv, [Next]_vars
  PROVE  LInv'
<1>1. Inv' /\ Separated' /\ Kept
  BY InvNext, SeparatedNext, NextKept DEF LInv, Separated
<1>2. CASE UNCHANGED vars
  <2>1. UNCHANGED <<stock, key, script, saved, restarts, rows, orders, shown, req, exp, server, crashes>>
    BY <1>2 DEF vars
  <2>2. Snapshots'
    <3> SUFFICES ASSUME NEW s \in Request PROVE Snapshot(s)'
      BY DEF Snapshots
    <3>1. Snapshot(s)
      BY DEF LInv, Snapshots
    <3> QED
      BY <2>1, <3>1 DEF Snapshot, Started, FindByUser
  <2> QED
    BY <1>1, <2>1, <2>2 DEF LInv, Alone, InFlight, KeysStarted, ExpiryKnows, Started
<1> QED
  BY <1>1, <1>2, CallLInv, StepLInv, KeyExpiresLInv, ExpireStepLInv, NothingElse DEF Next

(* What handler r holds of item i without a row. *)
Holds(r, i) == IF req[r].pc \in {"save", "undo"} /\ req[r].item = i THEN req[r].arg ELSE 0

(* What handler r has given back of a row it has not shrunk yet.           *)
Returned(r, i) == IF req[r].pc = "shrink" /\ req[r].item = i THEN req[r].arg ELSE 0

(* The rows that handler r has yet to delete.                              *)
Leaves(r, i) ==
  {row \in FindInCart(req[r].user, i) :
     \/ req[r].pc \in {"clear", "empty"}
     \/ req[r].pc \in {"drop", "delete"} /\ row.id = req[r].id}

(* The row that the handler of an expired key has yet to delete.           *)
ExpiryLeaves(h, i) ==
  {row \in FindInCart(req[h.id].user, i) : h.pc = "delete" /\ row.id = h.id}

-----------------------------------------------------------------------------
(* What a user holds, told from the one handler that runs for him.         *)

(* The units in one handler's hands, and in no handler's.                  *)
LEMMA SoleArg ==
  ASSUME LInv, NEW r \in Request
  PROVE  Cardinality(ArgUnits({r})) = req[r].arg /\ Cardinality(ArgUnits({})) = 0
<1>1. req[r].arg \in Nat
  BY DEF LInv, Inv, TypeOK, Locals
<1>2. ArgUnits({r}) = {r} \X (1 .. req[r].arg) /\ ArgUnits({}) = {}
  BY DEF ArgUnits
<1>3. {r} \X (1 .. req[r].arg) = Stack(r, 0, req[r].arg)
  BY <1>1, FirstUnits
<1>4. Cardinality(Stack(r, 0, req[r].arg)) = req[r].arg
  BY <1>1, StackSize
<1> QED
  BY <1>2, <1>3, <1>4, FS_EmptySet

(* A row found in the cart of u is u's, and whoever is about to delete it  *)
(* runs for u.                                                             *)
LEMMA LeavingRow ==
  ASSUME LInv, NEW u, NEW i, NEW row \in FindInCart(u, i)
  PROVE  /\ row.id \in Request /\ req[row.id].user = u /\ row.item = i /\ row.user = u
         /\ rows[row.id] = row /\ row \in CartRow
         /\ \A r \in Request : req[r].pc \in {"drop", "delete"} /\ req[r].id = row.id
              => InFlight(r) /\ req[r].user = u
         /\ \A r \in Request : /\ req[r].pc \in {"clear", "empty"}
                               /\ \E x \in orders[r] : x.id = row.id
              => InFlight(r) /\ req[r].user = u
<1>1. /\ row.id \in Request /\ req[row.id].user = u /\ row.item = i /\ row.user = u
      /\ rows[row.id] = row /\ row \in CartRow
  BY DEF FindInCart, FindByUser, LInv, Separated, RowsOwned, OwnedRow, Owns, Inv, TypeOK
<1>2. ASSUME NEW r \in Request, req[r].pc \in {"drop", "delete"}, req[r].id = row.id
      PROVE  InFlight(r) /\ req[r].user = u
  <2>1. Snapshot(r)
    BY DEF LInv, Snapshots
  <2> QED
    BY <1>1, <1>2, <2>1 DEF Snapshot, InFlight
<1>3. ASSUME NEW r \in Request, req[r].pc \in {"clear", "empty"},
             NEW x \in orders[r], x.id = row.id
      PROVE  InFlight(r) /\ req[r].user = u
  BY <1>1, <1>3 DEF LInv, Separated, OrdersOwned, OwnedRow, Owns, InFlight
<1> QED
  BY <1>1, <1>2, <1>3

(* What a user holds, told from the one handler that runs for him.         *)
HandlersHold ==
  \A r \in Request : \A u, i :
     InFlight(r) /\ req[r].user = u
       => HeldBy(u, i) = QtyOf(FindInCart(u, i) \ Leaves(r, i)) + Holds(r, i) - Returned(r, i)

(* Under the invariant it is what HeldBy counts.                           *)
LEMMA HeldByHandler == LInv => HandlersHold
<1> SUFFICES ASSUME LInv, NEW r \in Request, NEW u, NEW i, InFlight(r), req[r].user = u
             PROVE  HeldBy(u, i) = QtyOf(FindInCart(u, i) \ Leaves(r, i)) + Holds(r, i) - Returned(r, i)
  BY DEF HandlersHold
<1>1. \A s \in Request : InFlight(s) /\ req[s].user = u => s = r
  BY DEF LInv, Alone
<1>2. \A h \in exp : req[h.id].user # u
  BY DEF LInv, Alone
<1>3. \A row \in FindInCart(u, i) : Leaving(row.id) <=> row \in Leaves(r, i)
  <2> SUFFICES ASSUME NEW row \in FindInCart(u, i)
               PROVE  Leaving(row.id) <=> row \in Leaves(r, i)
    OBVIOUS
  <2>1. req[r].pc \in {"clear", "empty"} => \E x \in orders[r] : x.id = row.id
    BY DEF LInv, Snapshots, Snapshot, FindInCart
  <2>2. ASSUME Leaving(row.id)
        PROVE  row \in Leaves(r, i)
    BY <1>1, <1>2, <2>2, LeavingRow DEF Leaving, Leaves
  <2>3. ASSUME row \in Leaves(r, i)
        PROVE  Leaving(row.id)
    BY <2>1, <2>3 DEF Leaving, Leaves
  <2> QED
    BY <2>2, <2>3
<1>4. {row \in FindInCart(u, i) : ~Leaving(row.id)} = FindInCart(u, i) \ Leaves(r, i)
  BY <1>3
<1>5. /\ Reserving(u, i) = IF req[r].pc \in {"save", "undo"} /\ req[r].item = i THEN {r} ELSE {}
      /\ Shrinking(u, i) = IF req[r].pc = "shrink" /\ req[r].item = i THEN {r} ELSE {}
  BY <1>1 DEF Reserving, Shrinking, InFlight
<1>6. /\ Cardinality(ArgUnits(Reserving(u, i))) = Holds(r, i)
      /\ Cardinality(ArgUnits(Shrinking(u, i))) = Returned(r, i)
  BY <1>5, SoleArg DEF Holds, Returned
<1> QED
  BY <1>4, <1>6 DEF HeldBy

(* What a user holds while no handler runs for him.                        *)
LEMMA NoHandlerHolds ==
  ASSUME LInv, NEW u, NEW i, \A s \in Request : InFlight(s) => req[s].user # u
  PROVE  HeldBy(u, i) = QtyOf({row \in FindInCart(u, i) :
                                 ~\E h \in exp : h.pc = "delete" /\ h.id = row.id})
<1>1. \A row \in FindInCart(u, i) :
        Leaving(row.id) <=> \E h \in exp : h.pc = "delete" /\ h.id = row.id
  BY LeavingRow DEF Leaving
<1>2. {row \in FindInCart(u, i) : ~Leaving(row.id)}
        = {row \in FindInCart(u, i) : ~\E h \in exp : h.pc = "delete" /\ h.id = row.id}
  BY <1>1
<1>3. Reserving(u, i) = {} /\ Shrinking(u, i) = {}
  BY DEF Reserving, Shrinking, InFlight
<1>4. Cardinality(ArgUnits({})) = 0
  BY FS_EmptySet DEF ArgUnits
<1>6. Cardinality(ArgUnits(Reserving(u, i))) = 0 /\ Cardinality(ArgUnits(Shrinking(u, i))) = 0
  BY <1>3, <1>4, Zenon
<1>5. QtyOf({row \in FindInCart(u, i) : ~\E h \in exp : h.pc = "delete" /\ h.id = row.id}) \in Nat
  <2> DEFINE R == {row \in FindInCart(u, i) : ~\E h \in exp : h.pc = "delete" /\ h.id = row.id}
  <2>1. \A row \in R : row \in CartRow /\ \E c \in Request : rows[c] = row
    BY LeavingRow
  <2>2. rows \in [Request -> CartRow \cup {None}]
    BY DEF LInv, Inv, TypeOK
  <2> HIDE DEF R
  <2>3. IsFiniteSet(UnitsOf(R))
    BY <2>1, <2>2, RowsFinite
  <2>4. QtyOf(R) \in Nat
    BY <2>3, FS_CardinalityType DEF QtyOf
  <2> QED
    BY <2>4 DEF R
<1> DEFINE n == QtyOf({row \in FindInCart(u, i) : ~\E h \in exp : h.pc = "delete" /\ h.id = row.id})
<1>7. HeldBy(u, i) = n + 0 - 0
  <2>1. QtyOf({row \in FindInCart(u, i) : ~Leaving(row.id)}) = n
    BY <1>2, Zenon
  <2> HIDE DEF n
  <2> QED
    BY <1>6, <2>1 DEF HeldBy
<1>8. n \in Nat
  BY <1>5
<1> HIDE DEF n
<1>9. HeldBy(u, i) = n
  BY <1>7, <1>8
<1> QED
  BY <1>9 DEF n

(* What a user holds while the handler of his expired key runs.            *)
ExpiriesHold ==
  \A h \in exp : \A u, i :
     req[h.id].user = u => HeldBy(u, i) = QtyOf(FindInCart(u, i) \ ExpiryLeaves(h, i))

(* What a user holds while nothing runs for him.                           *)
IdleHold == \A u, i : Idle(u) => HeldBy(u, i) = QtyOf(FindInCart(u, i))

(* Under the invariant it is what HeldBy counts.                           *)
LEMMA HeldByExpiry == LInv => ExpiriesHold
<1> SUFFICES ASSUME LInv, NEW h \in exp, NEW u, NEW i, req[h.id].user = u
             PROVE  HeldBy(u, i) = QtyOf(FindInCart(u, i) \ ExpiryLeaves(h, i))
  BY DEF ExpiriesHold
<1>1. \A s \in Request : InFlight(s) => req[s].user # u
  BY DEF LInv, Alone
<1>2. \A g \in exp : req[g.id].user = u => g = h
  BY DEF LInv, Alone
<1>3. {row \in FindInCart(u, i) : ~\E g \in exp : g.pc = "delete" /\ g.id = row.id}
        = FindInCart(u, i) \ ExpiryLeaves(h, i)
  BY <1>2, LeavingRow DEF ExpiryLeaves
<1> QED
  BY <1>1, <1>3, NoHandlerHolds

(* Under the invariant it is what HeldBy counts.                           *)
LEMMA HeldByIdle == LInv => IdleHold
<1> SUFFICES ASSUME LInv, NEW u, NEW i, Idle(u)
             PROVE  HeldBy(u, i) = QtyOf(FindInCart(u, i))
  BY DEF IdleHold
<1>1. \A s \in Request : InFlight(s) => req[s].user # u
  BY DEF Idle
<1>2. {row \in FindInCart(u, i) : ~\E g \in exp : g.pc = "delete" /\ g.id = row.id}
        = FindInCart(u, i)
  BY LeavingRow DEF Idle
<1> QED
  BY <1>1, <1>2, NoHandlerHolds

(* The same after a step.                                                  *)
LEMMA HeldNext == LInv' => HandlersHold' /\ ExpiriesHold' /\ IdleHold'
BY HeldByHandler, HeldByExpiry, HeldByIdle, PTL

(* What remains of the rows of w and i once handler r has deleted its own. *)
Remains(r, w, i) == FindInCart(w, i) \ Leaves(r, i)

(* What user w holds of item i, by the handler that runs for him.          *)
Mine(r, w, i) == QtyOf(Remains(r, w, i)) + Holds(r, i) - Returned(r, i)

(* Handler r runs for w, or nothing does. *)
Serves(r, w) == \/ InFlight(r) /\ req[r].user = w
                \/ ~InFlight(r) /\ Idle(w)

(* That is what he holds, also while nothing runs for him.                 *)
RunnersHold == \A r \in Request : \A w, i : Serves(r, w) => HeldBy(w, i) = Mine(r, w, i)

(* The rows of one user and item are finitely many units. *)
LEMMA CartFinite ==
  ASSUME LInv, NEW w, NEW i, NEW R, R \subseteq FindInCart(w, i)
  PROVE  R \in SUBSET CartRow /\ IsFiniteSet(R) /\ IsFiniteSet(UnitsOf(R)) /\ QtyOf(R) \in Nat
<1>1. \A row \in R : row \in CartRow /\ \E c \in Request : rows[c] = row
  BY LeavingRow
<1>2. rows \in [Request -> CartRow \cup {None}]
  BY DEF LInv, Inv, TypeOK
<1>3. R \in SUBSET CartRow /\ IsFiniteSet(R) /\ IsFiniteSet(UnitsOf(R))
  BY <1>1, <1>2, RowsFinite
<1> QED
  BY <1>3, FS_CardinalityType DEF QtyOf

(* Under the invariant it is so.                                           *)
LEMMA RunnerHolds == LInv => RunnersHold
<1> SUFFICES ASSUME LInv, NEW r \in Request, NEW w, NEW i, Serves(r, w)
             PROVE  HeldBy(w, i) = Mine(r, w, i)
  BY DEF RunnersHold
<1>1. CASE InFlight(r) /\ req[r].user = w
  BY <1>1, HeldByHandler DEF HandlersHold, Mine, Remains
<1>2. CASE ~InFlight(r) /\ Idle(w)
  <2>1. HeldBy(w, i) = QtyOf(FindInCart(w, i))
    BY <1>2, HeldByIdle DEF IdleHold
  <2>2. Leaves(r, i) = {} /\ Holds(r, i) = 0 /\ Returned(r, i) = 0
    BY <1>2 DEF InFlight, Leaves, Holds, Returned
  <2>3. Remains(r, w, i) = FindInCart(w, i)
    BY <2>2 DEF Remains
  <2> DEFINE n == QtyOf(FindInCart(w, i))
  <2>4. n \in Nat
    BY CartFinite
  <2>5. QtyOf(Remains(r, w, i)) = n
    BY <2>3, Zenon
  <2> HIDE DEF n
  <2>6. Mine(r, w, i) = n
    BY <2>2, <2>4, <2>5 DEF Mine
  <2> QED
    BY <2>1, <2>6 DEF n
<1> QED
  BY <1>1, <1>2 DEF Serves

(* The same after a step.                                                  *)
LEMMA RunnerHoldsNext == LInv' => RunnersHold'
BY RunnerHolds, PTL

(* What a handler holds or has given back are numbers.                     *)
LEMMA HoldsInt ==
  ASSUME LInv, NEW r \in Request, NEW i
  PROVE  Holds(r, i) \in Nat /\ Returned(r, i) \in Nat
BY DEF LInv, Inv, TypeOK, Locals, Holds, Returned

(* Nothing of a user changes hands but his handlers and rows. *)
LEMMA OthersHold ==
  ASSUME LInv, LInv', NEW v, NEW i, FindByUser(v)' = FindByUser(v),
         \A s \in Request : (InFlight(s) /\ req[s].user = v) \/ (InFlight(s)' /\ req'[s].user = v)
           => req'[s] = req[s],
         \A h \in exp : req[h.id].user = v => h \in exp' /\ req'[h.id].user = v,
         \A h \in exp' : req'[h.id].user = v => h \in exp /\ req[h.id].user = v
  PROVE  HeldBy(v, i)' = HeldBy(v, i)
<1>1. HandlersHold /\ ExpiriesHold /\ IdleHold
  BY HeldByHandler, HeldByExpiry, HeldByIdle
<1>2. HandlersHold' /\ ExpiriesHold' /\ IdleHold'
  BY HeldNext
<1> SUFFICES ASSUME NEW k, k = i
             PROVE  HeldBy(v, k)' = HeldBy(v, k)
  OBVIOUS
<1>3. FindInCart(v, k)' = FindInCart(v, k)
  BY DEF FindInCart
<1>4. ASSUME NEW s \in Request, InFlight(s), req[s].user = v
      PROVE  HeldBy(v, k)' = HeldBy(v, k)
  <2>1. req'[s] = req[s]
    BY <1>4
  <2>2. InFlight(s)' /\ req'[s].user = v
    BY <2>1, <1>4 DEF InFlight
  <2>3. Leaves(s, k)' = Leaves(s, k) /\ Holds(s, k)' = Holds(s, k) /\ Returned(s, k)' = Returned(s, k)
    BY <1>3, <1>4, <2>1 DEF Leaves, Holds, Returned
  <2>4. HeldBy(v, k) = QtyOf(FindInCart(v, k) \ Leaves(s, k)) + Holds(s, k) - Returned(s, k)
    BY <1>1, <1>4 DEF HandlersHold
  <2>5. HeldBy(v, k)' = QtyOf(FindInCart(v, k)' \ Leaves(s, k)') + Holds(s, k)' - Returned(s, k)'
    BY <1>2, <2>2 DEF HandlersHold, QtyOf, UnitsOf
  <2> QED
    BY <1>3, <2>3, <2>4, <2>5, Zenon
<1>5. ASSUME NEW h \in exp, req[h.id].user = v
      PROVE  HeldBy(v, k)' = HeldBy(v, k)
  <2>1. h \in exp' /\ req'[h.id].user = v
    BY <1>5
  <2>2. ExpiryLeaves(h, k)' = ExpiryLeaves(h, k)
    BY <1>3, <1>5, <2>1 DEF ExpiryLeaves
  <2>3. HeldBy(v, k) = QtyOf(FindInCart(v, k) \ ExpiryLeaves(h, k))
    BY <1>1, <1>5 DEF ExpiriesHold
  <2>4. HeldBy(v, k)' = QtyOf(FindInCart(v, k)' \ ExpiryLeaves(h, k)')
    BY <1>2, <2>1 DEF ExpiriesHold, QtyOf, UnitsOf
  <2> QED
    BY <1>3, <2>2, <2>3, <2>4, Zenon
<1>6. CASE Idle(v)
  <2>1. Idle(v)'
    BY <1>6 DEF Idle, InFlight
  <2>2. HeldBy(v, k) = QtyOf(FindInCart(v, k))
    BY <1>1, <1>6 DEF IdleHold
  <2>3. HeldBy(v, k)' = QtyOf(FindInCart(v, k)')
    BY <1>2, <2>1 DEF IdleHold, QtyOf, UnitsOf
  <2> QED
    BY <1>3, <2>2, <2>3, Zenon
<1> QED
  BY <1>4, <1>5, <1>6 DEF Idle

(* The units of rows of different ids add up. *)
LEMMA QtyAdds ==
  ASSUME NEW R \in SUBSET CartRow, IsFiniteSet(R), NEW row \in CartRow,
         \A x \in R : x.id # row.id
  PROVE  QtyOf(R) \in Nat /\ QtyOf(R \cup {row}) = QtyOf(R) + row.qty
<1>1. IsFiniteSet(UnitsOf(R))
  BY UnitsFinite
<1>2. row.qty \in Nat
  BY DEF CartRow
<1>3. UnitsOf(R \cup {row}) = UnitsOf(R) \cup ({row.id} \X (1 .. row.qty))
  BY DEF UnitsOf
<1>4. {row.id} \X (1 .. row.qty) = Stack(row.id, 0, row.qty)
  BY <1>2, FirstUnits
<1>5. UnitsOf(R) \cap Stack(row.id, 0, row.qty) = {}
  BY DEF UnitsOf, Stack
<1>6. /\ Cardinality(UnitsOf(R)) \in Nat
      /\ Cardinality(UnitsOf(R) \cup Stack(row.id, 0, row.qty)) = Cardinality(UnitsOf(R)) + row.qty
  <2> DEFINE A == UnitsOf(R)
             c == row.id
             n == row.qty
  <2>1. IsFiniteSet(A) /\ n \in Nat /\ A \cap Stack(c, 0, n) = {} /\ 0 \in Nat
    BY <1>1, <1>2, <1>5
  <2> HIDE DEF A, c, n
  <2>2. Cardinality(A) \in Nat /\ Cardinality(A \cup Stack(c, 0, n)) = Cardinality(A) + n
    BY <2>1, Joined
  <2> QED
    BY <2>2 DEF A, c, n
<1>7. UnitsOf(R \cup {row}) = UnitsOf(R) \cup Stack(row.id, 0, row.qty)
  BY <1>3, <1>4, Zenon
<1> QED
  BY <1>6, <1>7, Zenon DEF QtyOf

(* A step of the ledger, or none.                                          *)
LedgerStep == [Ledger!Next]_<<stock, [u \in User |-> [i \in Item |-> HeldBy(u, i)]], [i \in Item |-> Sold(i)]>>

(* What users hold stays.                                                  *)
HeldKept == \A v \in User, j \in Item : HeldBy(v, j)' = HeldBy(v, j)

(* What is sold stays.                                                     *)
SoldKept == \A j \in Item : Sold(j)' = Sold(j)

(* Only what user w holds of item i changes. *)
HeldKeptBut(w, i) ==
  \A v \in User, j \in Item : v # w \/ j # i => HeldBy(v, j)' = HeldBy(v, j)

-----------------------------------------------------------------------------
(* The steps of the ledger.                                                *)

(* Orders that stay sell nothing.                                          *)
LEMMA SoldSame ==
  ASSUME orders' = orders
  PROVE  SoldKept
<1> SUFFICES ASSUME NEW j \in Item PROVE Sold(j)' = Sold(j)
  BY DEF SoldKept
<1>1. SoldUnits(j)' = SoldUnits(j)
  BY DEF SoldUnits
<1> QED
  BY <1>1, Zenon DEF Sold

(* Nothing that the ledger shows changes.                                  *)
LEMMA LedgerStutters ==
  ASSUME stock' = stock, HeldKept, SoldKept
  PROVE  LedgerStep
<1> DEFINE H == [u \in User |-> [i \in Item |-> HeldBy(u, i)]]
           S == [i \in Item |-> Sold(i)]
<1>1. H' = H
  BY DEF HeldKept
<1>2. S' = S
  BY DEF SoldKept
<1> QED
  BY <1>1, <1>2 DEF LedgerStep

(* The ledger's Take.                                                      *)
LEMMA LedgerTakes ==
  ASSUME NEW w \in User, NEW i \in Item, NEW q \in Nat \ {0}, stock \in [Item -> Int],
         stock[i] >= q, stock' = [stock EXCEPT ![i] = @ - q],
         HeldKeptBut(w, i), HeldBy(w, i)' = HeldBy(w, i) + q, SoldKept
  PROVE  LedgerStep
<1> DEFINE H == [u \in User |-> [j \in Item |-> HeldBy(u, j)]]
           S == [j \in Item |-> Sold(j)]
<1>1. H' = [H EXCEPT ![w][i] = @ + q]
  BY DEF HeldKeptBut
<1>2. S' = S
  BY DEF SoldKept
<1>3. q \in 1 .. stock[i]
  OBVIOUS
<1>4. Ledger!Take(w, i, q)
  <2> HIDE DEF H, S
  <2> QED
    BY <1>1, <1>2 DEF Ledger!Take, H, S
<1>5. Ledger!Next
  BY <1>3, <1>4 DEF Ledger!Next
<1> QED
  BY <1>5 DEF LedgerStep

(* The ledger's GiveBack.                                                  *)
LEMMA LedgerGivesBack ==
  ASSUME NEW w \in User, NEW i \in Item, NEW q \in Nat, stock \in [Item -> Int],
         stock' = [stock EXCEPT ![i] = @ + q], HeldBy(w, i) \in Int, q <= HeldBy(w, i),
         HeldKeptBut(w, i), HeldBy(w, i)' = HeldBy(w, i) - q, SoldKept
  PROVE  LedgerStep
<1> DEFINE H == [u \in User |-> [j \in Item |-> HeldBy(u, j)]]
           S == [j \in Item |-> Sold(j)]
<1>1. CASE q = 0
  <2>1. stock' = stock /\ HeldBy(w, i)' = HeldBy(w, i)
    BY <1>1
  <2> QED
    BY <2>1, LedgerStutters DEF HeldKept, HeldKeptBut
<1>2. CASE q # 0
  <2>1. H' = [H EXCEPT ![w][i] = @ - q]
    BY DEF HeldKeptBut
  <2>2. S' = S
    BY DEF SoldKept
  <2>3. q \in 1 .. H[w][i] /\ H[w][i] >= q
    BY <1>2
  <2>4. Ledger!GiveBack(w, i, q)
    <3> HIDE DEF H, S
    <3> QED
      BY <2>1, <2>2, <2>3 DEF Ledger!GiveBack, H, S
  <2>5. Ledger!Next
    <3> HIDE DEF H, S
    <3> QED
      BY <2>3, <2>4 DEF Ledger!Next, H, S
  <2> QED
    BY <2>5 DEF LedgerStep
<1> QED
  BY <1>1, <1>2

(* The ledger's Sell.                                                      *)
LEMMA LedgerSells ==
  ASSUME NEW w \in User, NEW i \in Item, HeldBy(w, i) > 0, stock' = stock,
         \A v \in User, j \in Item : v # w => HeldBy(v, j)' = HeldBy(v, j),
         \A j \in Item : HeldBy(w, j)' = 0 /\ Sold(j)' = Sold(j) + HeldBy(w, j)
  PROVE  LedgerStep
<1> DEFINE H == [u \in User |-> [j \in Item |-> HeldBy(u, j)]]
           S == [j \in Item |-> Sold(j)]
<1>1. H' = [H EXCEPT ![w] = [j \in Item |-> 0]]
  OBVIOUS
<1>2. S' = [j \in Item |-> S[j] + H[w][j]]
  OBVIOUS
<1>3. H[w][i] > 0
  OBVIOUS
<1>4. Ledger!Sell(w)
  <2> HIDE DEF H, S
  <2> QED
    BY <1>1, <1>2, <1>3 DEF Ledger!Sell, H, S
<1>5. Ledger!Next
  BY <1>4 DEF Ledger!Next
<1> QED
  BY <1>5 DEF LedgerStep

(* A step of handler r for user w, and what it leaves to tell of w's units. *)
StepFor(r, w) ==
  /\ Others(r)
  /\ req'[r].user = w
  /\ RunsFor(r, w)
  /\ OnlyRowsOf(w)
  /\ exp' = exp

-----------------------------------------------------------------------------
(* A step of a handler, as a step of the ledger.                           *)

(* What users hold before and after a step of r for w.                     *)
LEMMA StepHolds ==
  ASSUME LInv, LInv', Kept, NEW r \in Request, NEW w, StepFor(r, w)
  PROVE  /\ \A v, j : v # w => HeldBy(v, j)' = HeldBy(v, j)
         /\ \A j : HeldBy(w, j) = Mine(r, w, j) /\ HeldBy(w, j)' = Mine(r, w, j)'
<1>1. Alone' /\ \A h \in exp : req[h.id].user # w /\ req'[h.id].user = req[h.id].user
  BY AloneNext DEF StepFor, LInv, ExpiryKnows
<1>2. \A s \in Request : s # r => req'[s] = req[s]
  BY DEF StepFor, Others
<1>3. \A s \in Request : s # r /\ InFlight(s) => req[s].user # w
  BY DEF StepFor, RunsFor, Idle, LInv, Alone
<1>4. Serves(r, w)
  BY DEF StepFor, RunsFor, Serves, InFlight
<1>5. Serves(r, w)'
  BY <1>1, <1>2, <1>3 DEF Serves, Idle, InFlight, StepFor
<1>6. \A j : HeldBy(w, j) = Mine(r, w, j) /\ HeldBy(w, j)' = Mine(r, w, j)'
  BY <1>4, <1>5, RunnerHolds, RunnerHoldsNext DEF RunnersHold
<1>7. ASSUME NEW v, NEW j, v # w
      PROVE  HeldBy(v, j)' = HeldBy(v, j)
  <2>1. FindByUser(v)' = FindByUser(v)
    BY <1>7, OtherRowsFound DEF LInv, StepFor
  <2>2. \A s \in Request : (InFlight(s) /\ req[s].user = v) \/ (InFlight(s)' /\ req'[s].user = v)
          => req'[s] = req[s]
    BY <1>2, <1>7 DEF StepFor, RunsFor, InFlight
  <2>3. /\ \A h \in exp : req[h.id].user = v => h \in exp' /\ req'[h.id].user = v
        /\ \A h \in exp' : req'[h.id].user = v => h \in exp /\ req[h.id].user = v
    BY <1>1 DEF StepFor
  <2> QED
    BY <2>1, <2>2, <2>3, OthersHold
<1> QED
  BY <1>6, <1>7

(* A step that leaves w's rows as they are, those on their way out included. *)
LEMMA QuietStep ==
  ASSUME LInv, LInv', Kept, NEW r \in Request, NEW w, StepFor(r, w),
         \A j : /\ Remains(r, w, j)' = Remains(r, w, j)
                /\ Holds(r, j)' = Holds(r, j) /\ Returned(r, j)' = Returned(r, j),
         stock' = stock, orders' = orders
  PROVE  LedgerStep
<1>1. ASSUME NEW j PROVE HeldBy(w, j)' = HeldBy(w, j)
  <2>1. HeldBy(w, j) = Mine(r, w, j) /\ HeldBy(w, j)' = Mine(r, w, j)'
    BY StepHolds
  <2>2. Mine(r, w, j)' = Mine(r, w, j)
    BY Zenon DEF Mine, QtyOf, UnitsOf
  <2> QED
    BY <2>1, <2>2
<1>2. HeldKept
  BY <1>1, StepHolds DEF HeldKept
<1> QED
  BY <1>2, SoldSame, LedgerStutters

(* A step after which w's rows of every item but i are what they were. *)
LEMMA OneItemStep ==
  ASSUME LInv, LInv', Kept, NEW r \in Request, NEW w, StepFor(r, w), NEW i,
         \A j : j # i => /\ Remains(r, w, j)' = Remains(r, w, j)
                         /\ Holds(r, j)' = Holds(r, j) /\ Returned(r, j)' = Returned(r, j)
  PROVE  /\ HeldKeptBut(w, i)
         /\ HeldBy(w, i) = Mine(r, w, i) /\ HeldBy(w, i)' = Mine(r, w, i)'
<1>1. ASSUME NEW j, j # i PROVE HeldBy(w, j)' = HeldBy(w, j)
  <2>1. HeldBy(w, j) = Mine(r, w, j) /\ HeldBy(w, j)' = Mine(r, w, j)'
    BY StepHolds
  <2>2. Mine(r, w, j)' = Mine(r, w, j)
    BY <1>1, Zenon DEF Mine, QtyOf, UnitsOf
  <2> QED
    BY <2>1, <2>2
<1> QED
  BY <1>1, StepHolds DEF HeldKeptBut

(* While the rows stay and r's await changes, what remains stays, unless r *)
(* is about to delete rows before or after.                                *)
DeletesNothing(pc) == pc \notin {"drop", "delete", "clear", "empty"}

(* A handler that deletes nothing leaves all the rows.                     *)
LEMMA NothingLeaves ==
  ASSUME NEW r, DeletesNothing(req[r].pc)
  PROVE  \A w, j : Leaves(r, j) = {} /\ Remains(r, w, j) = FindInCart(w, j)
BY DEF DeletesNothing, Leaves, Remains

(* The same after a step.                                                  *)
LEMMA NothingLeavesNext ==
  ASSUME NEW r, DeletesNothing(req'[r].pc)
  PROVE  \A w, j : Leaves(r, j)' = {} /\ Remains(r, w, j)' = FindInCart(w, j)'
BY DEF DeletesNothing, Leaves, Remains

(* What remains, while the rows stay.                                      *)
LEMMA RemainsSame ==
  ASSUME NEW r, rows' = rows, DeletesNothing(req[r].pc), DeletesNothing(req'[r].pc)
  PROVE  \A w, j : Remains(r, w, j)' = Remains(r, w, j)
BY NothingLeaves, NothingLeavesNext, FoundSame

(* A handler that holds nothing but rows.                                  *)
LEMMA NothingHeld ==
  ASSUME NEW r, req[r].pc \notin {"save", "undo", "shrink"}
  PROVE  \A j : Holds(r, j) = 0 /\ Returned(r, j) = 0
BY DEF Holds, Returned

(* The same after a step.                                                  *)
LEMMA NothingHeldNext ==
  ASSUME NEW r, req'[r].pc \notin {"save", "undo", "shrink"}
  PROVE  \A j : Holds(r, j)' = 0 /\ Returned(r, j)' = 0
BY DEF Holds, Returned

(* The awaits at which a handler holds nothing that its rows do not show. *)
Plain(pc) == pc \notin {"save", "undo", "shrink", "drop", "delete", "clear", "empty"}

(* A step between two such awaits is a stutter of the ledger.              *)
LEMMA PlainStep ==
  ASSUME LInv, LInv', Kept, NEW r \in Request, NEW w, StepFor(r, w),
         Plain(req[r].pc), Plain(req'[r].pc), UNCHANGED <<rows, orders, stock>>
  PROVE  LedgerStep
<1>1. \A j : Remains(r, w, j)' = Remains(r, w, j)
  BY RemainsSame DEF Plain, DeletesNothing
<1>2. \A j : Holds(r, j)' = Holds(r, j) /\ Returned(r, j)' = Returned(r, j)
  BY NothingHeld, NothingHeldNext DEF Plain
<1> QED
  BY <1>1, <1>2, QuietStep

(* A reserve is a Take.                                                    *)
LEMMA TakeStep ==
  ASSUME LInv, LInv', Kept, NEW r \in Request, NEW w \in User, StepFor(r, w),
         Plain(req[r].pc), NEW i \in Item, NEW q \in Nat \ {0}, stock[i] >= q,
         stock' = [stock EXCEPT ![i] = @ - q], rows' = rows, orders' = orders,
         req'[r].pc = "save", req'[r].item = i, req'[r].arg = q
  PROVE  LedgerStep
<1>1. \A j : Remains(r, w, j)' = Remains(r, w, j) /\ Remains(r, w, j) = FindInCart(w, j)
  BY RemainsSame, NothingLeaves DEF Plain, DeletesNothing
<1>2. \A j : Holds(r, j) = 0 /\ Returned(r, j) = 0
  BY NothingHeld DEF Plain
<1>3. \A j : Holds(r, j)' = (IF j = i THEN q ELSE 0) /\ Returned(r, j)' = 0
  BY DEF Holds, Returned
<1>4. HeldKeptBut(w, i) /\ HeldBy(w, i) = Mine(r, w, i) /\ HeldBy(w, i)' = Mine(r, w, i)'
  BY <1>1, <1>2, <1>3, OneItemStep
<1>5. QtyOf(Remains(r, w, i)) \in Nat
  <2>1. Remains(r, w, i) \subseteq FindInCart(w, i)
    BY <1>1
  <2> QED
    BY <2>1, CartFinite
<1>6. Mine(r, w, i)' = QtyOf(Remains(r, w, i)) + q - 0
  BY <1>1, <1>3, Zenon DEF Mine, QtyOf, UnitsOf
<1>7. HeldBy(w, i)' = HeldBy(w, i) + q
  BY <1>2, <1>4, <1>5, <1>6 DEF Mine
<1>8. SoldKept
  BY SoldSame
<1>9. stock \in [Item -> Int]
  BY DEF LInv, Inv, TypeOK, RedisTypeOK
<1> QED
  BY <1>4, <1>7, <1>8, <1>9, LedgerTakes

(* The calls are steps of the ledger: AddToCart's takes, the others'       *)
(* stutter.                                                                *)
LEMMA CallLedger ==
  ASSUME OneCallPerCart, LInv, LInv', Kept, NEW r \in Request, Call(r)
  PROVE  LedgerStep
<1>1. \A u \in User : \A op : Arrives(r, u, op) => req[r].pc = "new" /\ RunsFor(r, u)
  BY DEF Arrives, Permitted, OneCallPerCart, RunsFor
<1>2. ASSUME NEW u \in User, NEW i \in Item, NEW q \in Quantity, AddToCart(r, u, i, q)
      PROVE  LedgerStep
  <2>1. RunsFor(r, u) /\ Plain(req[r].pc) /\ UNCHANGED <<rows, orders, exp>> /\ OnlyRowsOf(u)
    BY <1>1, <1>2, NoRowsTouched DEF AddToCart, mongoVars, serverVars, Plain
  <2>2. CASE Reserve(i, r, q, r)
             /\ Becomes(r, "save", "add", u, i, r, q, 0, {}, {}, stock[i] - q)
    <3>1. /\ stock[i] >= q /\ stock' = [stock EXCEPT ![i] = @ - q] /\ q \in Nat \ {0}
      BY <2>2, EnvironmentAssumption DEF Reserve, CanReserve
    <3>2. StepFor(r, u) /\ req'[r].pc = "save" /\ req'[r].item = i /\ req'[r].arg = q
      BY <2>1, <2>2 DEF StepFor, Becomes, Others
    <3> QED
      BY <2>1, <3>1, <3>2, TakeStep
  <2>3. CASE UNCHANGED redisVars /\ Finishes(r, u, i)
    <3>1. StepFor(r, u) /\ Plain(req'[r].pc) /\ stock' = stock
      BY <2>1, <2>3 DEF StepFor, Finishes, Becomes, Others, Plain, redisVars
    <3> QED
      BY <2>1, <3>1, PlainStep
  <2> QED
    BY <1>2, <2>2, <2>3, AddToCartNow DEF LInv
<1>3. ASSUME NEW u \in User,
             \/ \E i \in Item : \/ \E q \in Quantity : Increase(r, u, i, q) \/ Decrease(r, u, i, q)
                                \/ RemoveFromCart(r, u, i)
             \/ Checkout(r, u)
      PROVE  LedgerStep
  <2>1. /\ RunsFor(r, u) /\ Plain(req[r].pc) /\ UNCHANGED <<rows, orders, exp, stock>>
        /\ OnlyRowsOf(u)
    BY <1>1, <1>3, NoRowsTouched DEF Increase, Decrease, RemoveFromCart, Checkout, mongoVars,
       redisVars, serverVars, Plain
  <2>2. Others(r) /\ req'[r].user = u /\ Plain(req'[r].pc)
    <3>1. ASSUME NEW i \in Item, NEW q \in Quantity, Increase(r, u, i, q)
          PROVE  Others(r) /\ req'[r].user = u /\ Plain(req'[r].pc)
      BY <3>1, IncreaseNow DEF Becomes, Others, LInv, Plain
    <3>2. ASSUME NEW i \in Item, NEW q \in Quantity, Decrease(r, u, i, q)
          PROVE  Others(r) /\ req'[r].user = u /\ Plain(req'[r].pc)
      BY <3>2, DecreaseNow DEF Becomes, Others, LInv, Plain
    <3>3. ASSUME NEW i \in Item, RemoveFromCart(r, u, i)
          PROVE  Others(r) /\ req'[r].user = u /\ Plain(req'[r].pc)
      BY <3>3, RemoveFromCartNow DEF Becomes, Others, LInv, Plain
    <3>4. ASSUME Checkout(r, u)
          PROVE  Others(r) /\ req'[r].user = u /\ Plain(req'[r].pc)
      BY <3>4, CheckoutNow DEF Becomes, Others, LInv, Plain
    <3> QED
      BY <1>3, <3>1, <3>2, <3>3, <3>4
  <2>3. StepFor(r, u)
    BY <2>1, <2>2 DEF StepFor
  <2> QED
    BY <2>1, <2>2, <2>3, PlainStep
<1> QED
  BY <1>2, <1>3 DEF Call

(* The rows of a user and item but the one of id c. *)
Rest(w, i, c) == {y \in FindInCart(w, i) : y.id # c}

(* The one of id c.                                                        *)
Sole(w, i, c) == {y \in FindInCart(w, i) : y.id = c}

(* Row c, a row of w and i if there is one, becomes x, another or none. *)
Writes(c, w, i, x) ==
  /\ rows' = [rows EXCEPT ![c] = x]
  /\ x # None => x.id = c /\ x.user = w /\ x.item = i
  /\ rows[c] # None => rows[c].user = w /\ rows[c].item = i

(* One row of w's cart is written, or deleted. *)
LEMMA RowWritten ==
  ASSUME LInv, NEW c \in Request, NEW w, NEW i, NEW x, Writes(c, w, i, x)
  PROVE  /\ \A j : j # i => FindInCart(w, j)' = FindInCart(w, j)
         /\ FindInCart(w, i) = Rest(w, i, c) \cup (IF rows[c] = None THEN {} ELSE {rows[c]})
         /\ FindInCart(w, i)' = Rest(w, i, c) \cup (IF x = None THEN {} ELSE {x})
<1>0. /\ x # None => x.id = c /\ x.user = w /\ x.item = i
      /\ rows[c] # None => rows[c].user = w /\ rows[c].item = i
  BY DEF Writes
<1>1. rows \in [Request -> CartRow \cup {None}]
  BY DEF LInv, Inv, TypeOK
<1>2. \A d \in Request : rows[d] # None => rows[d].id = d
  BY DEF LInv, Separated, RowsOwned
<1>3. /\ rows'[c] = x /\ \A d \in Request \ {c} : rows'[d] = rows[d]
  BY <1>1 DEF Writes
<1>4. \A j : \A y : y \in FindInCart(w, j)
        <=> \E d \in Request : rows[d] # None /\ rows[d].user = w /\ rows[d].item = j /\ y = rows[d]
  BY DEF FindInCart, FindByUser
<1>5. \A j : \A y : y \in FindInCart(w, j)'
        <=> \E d \in Request : rows'[d] # None /\ rows'[d].user = w /\ rows'[d].item = j /\ y = rows'[d]
  BY DEF FindInCart, FindByUser
<1>6. \A j : \A y : y \in FindInCart(w, j) => y.id \in Request /\ y = rows[y.id] /\ y # None
  BY <1>2, <1>4
<1>7. ASSUME NEW j, j # i PROVE FindInCart(w, j)' = FindInCart(w, j)
  <2>1. \A d \in Request : rows[d] # None /\ rows[d].item = j /\ rows[d].user = w => d # c
    BY <1>0, <1>7
  <2>2. \A d \in Request : rows'[d] # None /\ rows'[d].item = j /\ rows'[d].user = w => d # c
    BY <1>0, <1>3, <1>7
  <2>3. ASSUME NEW y PROVE y \in FindInCart(w, j)' <=> y \in FindInCart(w, j)
    BY <1>0, <1>3, <1>4, <1>5, <2>1, <2>2
  <2> QED
    BY <2>3
<1>8. FindInCart(w, i) = Rest(w, i, c) \cup (IF rows[c] = None THEN {} ELSE {rows[c]})
  <2>1. rows[c] # None => rows[c] \in FindInCart(w, i)
    BY <1>0, <1>4
  <2>2. \A y \in FindInCart(w, i) : y.id = c => y = rows[c] /\ rows[c] # None
    BY <1>0, <1>6
  <2> QED
    BY <2>1, <2>2 DEF Rest
<1>9. FindInCart(w, i)' = Rest(w, i, c) \cup (IF x = None THEN {} ELSE {x})
  <2>1. x # None => x \in FindInCart(w, i)'
    BY <1>0, <1>3, <1>5
  <2>2. ASSUME NEW y, y \in Rest(w, i, c) PROVE y \in FindInCart(w, i)'
    <3>1. y.id \in Request /\ y.id # c /\ y = rows[y.id] /\ y # None
      BY <1>0, <1>6, <2>2 DEF Rest
    <3>2. y.user = w /\ y.item = i
      BY <2>2, <1>4 DEF Rest
    <3> QED
      BY <1>0, <1>3, <1>5, <3>1, <3>2
  <2>3. ASSUME NEW y, y \in FindInCart(w, i)' PROVE y \in Rest(w, i, c) \/ (x # None /\ y = x)
    <3>1. PICK d \in Request : rows'[d] # None /\ rows'[d].user = w /\ rows'[d].item = i /\ y = rows'[d]
      BY <1>0, <1>5, <2>3
    <3>2. CASE d = c
      BY <1>0, <1>3, <3>1, <3>2
    <3>3. CASE d # c
      BY <1>0, <1>2, <1>3, <1>4, <3>1, <3>3 DEF Rest
    <3> QED
      BY <3>2, <3>3
  <2> QED
    BY <2>1, <2>2, <2>3
<1> QED
  BY <1>0, <1>7, <1>8, <1>9

(* A row found by its id. *)
LEMMA SoleRow ==
  ASSUME LInv, NEW c \in Request, NEW w, NEW i,
         rows[c] # None, rows[c].user = w, rows[c].item = i
  PROVE  /\ \A j : Sole(w, j, c) = IF j = i THEN {rows[c]} ELSE {}
         /\ FindInCart(w, i) = Rest(w, i, c) \cup {rows[c]}
         /\ rows[c].id = c /\ rows[c] \in CartRow
<1>1. \A d \in Request : rows[d] # None => rows[d].id = d
  BY DEF LInv, Separated, RowsOwned
<1>2. \A j : \A y : y \in FindInCart(w, j)
        <=> \E d \in Request : rows[d] # None /\ rows[d].user = w /\ rows[d].item = j /\ y = rows[d]
  BY DEF FindInCart, FindByUser
<1>3. \A j : \A y \in FindInCart(w, j) : y.id = c => y = rows[c] /\ y.item = j
  BY <1>1, <1>2
<1>4. rows[c] \in FindInCart(w, i) /\ rows[c].id = c
  BY <1>1, <1>2
<1>5. \A j : Sole(w, j, c) = IF j = i THEN {rows[c]} ELSE {}
  BY <1>3, <1>4 DEF Sole
<1>6. FindInCart(w, i) = Rest(w, i, c) \cup {rows[c]}
  BY <1>3, <1>4 DEF Rest
<1> QED
  BY <1>4, <1>5, <1>6 DEF LInv, Inv, TypeOK

(* The units of one row among others of a user and item. *)
LEMMA RowAdds ==
  ASSUME LInv, NEW w, NEW i, NEW c, NEW row \in CartRow, row.id = c
  PROVE  /\ QtyOf(Rest(w, i, c)) \in Nat
         /\ QtyOf(Rest(w, i, c) \cup {row}) = QtyOf(Rest(w, i, c)) + row.qty
<1> DEFINE rest == Rest(w, i, c)
<1>1. rest \in SUBSET CartRow /\ IsFiniteSet(rest) /\ rest \subseteq FindInCart(w, i)
  BY CartFinite DEF Rest
<1>2. \A y \in rest : y.id # row.id
  BY DEF Rest
<1> HIDE DEF rest
<1> QED
  BY <1>1, <1>2, QtyAdds DEF rest

(* The save puts what was reserved in a row: nothing changes hands.        *)
LEMMA SaveRowLedger ==
  ASSUME LInv, LInv', Kept, NEW r \in Request, SaveRow(r)
  PROVE  LedgerStep
<1>a. SUFFICES ASSUME NEW w, w = req[r].user, NEW i, i = req[r].item, NEW c, c = req[r].id,
                      NEW n, n = req[r].arg, NEW b, b = req[r].base,
                      NEW x, x = ReservedRow(req[r])
               PROVE  LedgerStep
  OBVIOUS
<1> DEFINE rest == Rest(w, i, c)
<1>1. req[r].pc = "save" /\ InFlight(r) /\ req[r] \in Locals /\ Snapshot(r) /\ RunsFor(r, w)
  BY <1>a, StartedUser DEF SaveRow, At, InFlight
<1>2. /\ c \in Request /\ Started(c) /\ req[c].user = w /\ i \in Item /\ w \in User
      /\ req[c].item = i /\ n \in Nat \ {0} /\ b \in Nat
  BY <1>a, <1>1 DEF LInv, Inv, LocalsOK, Separated, AllLocalsOwned, LocalsOwned, Owns, Started, Locals
<1>3. x.id = c /\ x.user = w /\ x.item = i /\ x.qty = b + n /\ x \in CartRow
  BY <1>a, <1>2 DEF ReservedRow, CartRow
<1>4. rows' = [rows EXCEPT ![c] = x] /\ exp' = exp /\ orders' = orders /\ stock' = stock
  BY <1>a, <1>3 DEF SaveRow, SaveCartItem, redisVars
<1>5. rows \in [Request -> CartRow \cup {None}] /\ x # None
  BY <1>3, RowAssumption DEF LInv, Inv, TypeOK
<1>6. rows[c] # None => /\ rows[c].user = w /\ rows[c].item = i /\ rows[c].id = c
                        /\ rows[c] \in CartRow
  BY <1>2, <1>5 DEF LInv, Separated, RowsOwned, OwnedRow, Owns
<1>7. b = IF rows[c] = None THEN 0 ELSE rows[c].qty
  BY <1>a, <1>1 DEF Snapshot
<1>8. Others(r) /\ req'[r].user = w /\ Plain(req'[r].pc)
  BY <1>a, SaveRowNow DEF Becomes, Others, AfterSave, LInv, Plain
<1>9. StepFor(r, w)
  <2>1. OnlyRowsOf(w)
    BY <1>2, <1>4, <1>5 DEF OnlyRowsOf
  <2> QED
    BY <1>1, <1>4, <1>8, <2>1 DEF StepFor
<1>10. \A j : Remains(r, w, j) = FindInCart(w, j) /\ Remains(r, w, j)' = FindInCart(w, j)'
  BY <1>1, <1>8, NothingLeaves, NothingLeavesNext DEF Plain, DeletesNothing
<1>11. \A j : Holds(r, j) = (IF j = i THEN n ELSE 0) /\ Returned(r, j) = 0
  BY <1>a, <1>1 DEF Holds, Returned
<1>12. \A j : Holds(r, j)' = 0 /\ Returned(r, j)' = 0
  BY <1>8, NothingHeldNext DEF Plain
<1>13. /\ \A j : j # i => FindInCart(w, j)' = FindInCart(w, j)
       /\ FindInCart(w, i) = rest \cup (IF rows[c] = None THEN {} ELSE {rows[c]})
       /\ FindInCart(w, i)' = rest \cup {x}
  <2>1. Writes(c, w, i, x)
    BY <1>3, <1>4, <1>6 DEF Writes
  <2>2. c \in Request
    BY <1>2
  <2> QED
    BY <1>5, <2>1, <2>2, RowWritten
<1>14. HeldKeptBut(w, i) /\ HeldBy(w, i) = Mine(r, w, i) /\ HeldBy(w, i)' = Mine(r, w, i)'
  BY <1>9, <1>10, <1>11, <1>12, <1>13, OneItemStep
<1>15. QtyOf(rest) \in Nat /\ QtyOf(rest \cup {x}) = QtyOf(rest) + b + n
  BY <1>2, <1>3, RowAdds
<1>16. QtyOf(FindInCart(w, i)) = QtyOf(rest) + b
  <2>1. CASE rows[c] = None
    <3>1. FindInCart(w, i) = rest /\ b = 0
      BY <1>7, <1>13, <2>1
    <3>2. QtyOf(FindInCart(w, i)) = QtyOf(rest)
      BY <3>1, Zenon
    <3> HIDE DEF rest
    <3> QED
      BY <1>15, <3>1, <3>2
  <2>2. CASE rows[c] # None
    <3>1. FindInCart(w, i) = rest \cup {rows[c]} /\ b = rows[c].qty
      BY <1>7, <1>13, <2>2
    <3>2. QtyOf(rest \cup {rows[c]}) = QtyOf(rest) + rows[c].qty
      <4> SUFFICES ASSUME NEW row, row = rows[c]
                   PROVE  QtyOf(Rest(w, i, c) \cup {row}) = QtyOf(Rest(w, i, c)) + row.qty
        BY Zenon
      <4>1. row \in CartRow /\ row.id = c
        BY <1>6, <2>2
      <4> QED
        BY <4>1, RowAdds
    <3>3. QtyOf(FindInCart(w, i)) = QtyOf(rest) + rows[c].qty
      BY <3>1, <3>2, Zenon
    <3> QED
      BY <3>1, <3>3
  <2> QED
    BY <2>1, <2>2
<1> DEFINE q == QtyOf(rest)
<1>17. Mine(r, w, i) = q + b + n - 0
  <2>1. QtyOf(Remains(r, w, i)) = q + b
    BY <1>10, <1>16, Zenon
  <2> QED
    BY <1>11, <2>1 DEF Mine
<1>18. Mine(r, w, i)' = q + b + n + 0 - 0
  <2>1. Remains(r, w, i)' = rest \cup {x}
    BY <1>10, <1>13
  <2>2. Mine(r, w, i)' = QtyOf(Remains(r, w, i)') + Holds(r, i)' - Returned(r, i)'
    BY Zenon DEF Mine, QtyOf, UnitsOf
  <2>3. Mine(r, w, i)' = QtyOf(rest \cup {x}) + 0 - 0
    BY <1>12, <2>1, <2>2, Zenon
  <2> QED
    BY <1>15, <2>3
<1> HIDE DEF q
<1>19. HeldBy(w, i)' = HeldBy(w, i)
  BY <1>2, <1>14, <1>15, <1>17, <1>18 DEF q
<1>20. HeldKept
  BY <1>14, <1>19 DEF HeldKept, HeldKeptBut
<1> QED
  BY <1>4, <1>20, SoldSame, LedgerStutters

-----------------------------------------------------------------------------
(* The handlers' steps, one by one.                                        *)

(* The steps that change no row and no counter, and leave no unit without  *)
(* its owner.                                                              *)
LEMMA PlainStepLedger ==
  ASSUME OneCallPerCart, LInv, LInv', Kept, NEW r \in Request,
         \/ UndoDrop(r) \/ Survey(r) \/ RefreshKey(r) \/ GetRemaining(r) \/ Emit(r)
         \/ CommandFails(r) /\ req[r].pc # "save"
  PROVE  LedgerStep
<1>a. SUFFICES ASSUME NEW w, w = req[r].user
               PROVE  LedgerStep
  OBVIOUS
<1>1. InFlight(r) /\ Plain(req[r].pc)
  BY DEF UndoDrop, Survey, RefreshKey, GetRemaining, Emit, CommandFails, At, InFlight, Plain,
     OneCallPerCart, FaultOf
<1>2. RunsFor(r, w)
  BY <1>a, <1>1, StartedUser
<1>3. UNCHANGED <<rows, orders, stock, exp>>
  BY DEF UndoDrop, Survey, RefreshKey, GetRemaining, Emit, CommandFails, mongoVars, redisVars
<1>4. Others(r) /\ req'[r].user = w /\ Plain(req'[r].pc)
  <2>1. CASE UndoDrop(r)
    BY <1>a, <2>1, UndoDropNow DEF Becomes, Others, LInv, Plain
  <2>2. CASE Survey(r)
    BY <1>a, <2>2, SurveyNow DEF Becomes, Others, LInv, Plain
  <2>3. CASE RefreshKey(r)
    BY <1>a, <2>3, RefreshKeyNow DEF Becomes, Others, LInv, Plain
  <2>4. CASE GetRemaining(r)
    BY <1>a, <2>4, GetRemainingNow DEF Becomes, Others, LInv, Plain
  <2>5. CASE Emit(r)
    BY <1>a, <2>5, EmitNow DEF Finishes, Becomes, Others, LInv, Plain
  <2>6. CASE CommandFails(r) /\ req[r].pc # "save"
    BY <1>a, <2>6, CommandFailsNow DEF Finishes, Becomes, Others, LInv, Plain
  <2> QED
    BY <2>1, <2>2, <2>3, <2>4, <2>5, <2>6
<1>5. StepFor(r, w)
  BY <1>2, <1>3, <1>4, NoRowsTouched DEF StepFor
<1> QED
  BY <1>1, <1>3, <1>4, <1>5, PlainStep

(* AddToCart's save fails: the units wait for the rollback. *)
LEMMA SaveFailsLedger ==
  ASSUME OneCallPerCart, LInv, LInv', Kept, NEW r \in Request,
         CommandFails(r), req[r].pc = "save"
  PROVE  LedgerStep
<1>a. SUFFICES ASSUME NEW w, w = req[r].user
               PROVE  LedgerStep
  OBVIOUS
<1>1. InFlight(r) /\ RunsFor(r, w)
  BY <1>a, StartedUser DEF InFlight
<1>2. UNCHANGED <<rows, orders, stock, exp>>
  BY DEF CommandFails, mongoVars, redisVars
<1>3. req[r].op = "add"
  BY EnvironmentAssumption DEF CommandFails, FaultOf, OneCallPerCart, LInv, Inv, TypeOK, Locals, Operation
<1>4. /\ Others(r) /\ req'[r].user = w /\ req'[r].pc = "undo"
      /\ req'[r].item = req[r].item /\ req'[r].arg = req[r].arg
  BY <1>a, <1>3, CommandFailsNow DEF Becomes, Others, LInv
<1>5. StepFor(r, w)
  BY <1>1, <1>2, <1>4, NoRowsTouched DEF StepFor
<1>6. \A j : Remains(r, w, j)' = Remains(r, w, j)
  BY <1>2, <1>4, RemainsSame DEF DeletesNothing
<1>7. \A j : Holds(r, j)' = Holds(r, j) /\ Returned(r, j)' = Returned(r, j)
  BY <1>4 DEF Holds, Returned
<1> QED
  BY <1>2, <1>5, <1>6, <1>7, QuietStep

(* The reserve of an increase is a Take, or is refused.                    *)
LEMMA IncreaseReserveLedger ==
  ASSUME LInv, LInv', Kept, NEW r \in Request, IncreaseReserve(r)
  PROVE  LedgerStep
<1>a. SUFFICES ASSUME NEW w, w = req[r].user, NEW i, i = req[r].item, NEW q, q = req[r].arg
               PROVE  LedgerStep
  OBVIOUS
<1>1. req[r].pc = "reserve" /\ UNCHANGED <<rows, orders, exp>> /\ Plain(req[r].pc)
  BY DEF IncreaseReserve, At, mongoVars, Plain
<1>2. RunsFor(r, w) /\ w \in User
  BY <1>a, <1>1, StartedUser DEF InFlight
<1>3. i \in Item /\ q \in Nat \ {0}
  BY <1>a, <1>1 DEF LInv, Inv, TypeOK, LocalsOK, Locals
<1>4. CASE /\ Reserve(i, req[r].id, q, r)
           /\ Becomes(r, "save", req[r].op, w, i, req[r].id, q, req[r].base, req[r].todo,
                      req[r].items, stock[i] - q)
  <2>1. stock[i] >= q /\ stock' = [stock EXCEPT ![i] = @ - q]
    BY <1>4 DEF Reserve, CanReserve
  <2>2. StepFor(r, w) /\ req'[r].pc = "save" /\ req'[r].item = i /\ req'[r].arg = q
    BY <1>1, <1>2, <1>4, NoRowsTouched DEF StepFor, Becomes, Others
  <2> QED
    BY <1>1, <1>2, <1>3, <2>1, <2>2, TakeStep
<1>5. CASE UNCHANGED redisVars /\ Finishes(r, w, ItemOfId(req[r]))
  <2>1. StepFor(r, w) /\ Plain(req'[r].pc) /\ stock' = stock
    BY <1>1, <1>2, <1>5, NoRowsTouched
    DEF StepFor, Finishes, Becomes, Others, Plain, redisVars
  <2> QED
    BY <1>1, <2>1, PlainStep
<1> QED
  BY <1>a, <1>4, <1>5, IncreaseReserveNow DEF LInv

(* The rollback gives back what the failed request had taken. *)
LEMMA UndoLedger ==
  ASSUME LInv, LInv', Kept, NEW r \in Request, Undo(r)
  PROVE  LedgerStep
<1>a. SUFFICES ASSUME NEW w, w = req[r].user, NEW i, i = req[r].item, NEW q, q = req[r].arg
               PROVE  LedgerStep
  OBVIOUS
<1>1. req[r].pc = "undo" /\ UNCHANGED <<rows, orders, exp>>
  BY DEF Undo, At, mongoVars
<1>2. RunsFor(r, w) /\ w \in User
  BY <1>a, <1>1, StartedUser DEF InFlight
<1>3. i \in Item /\ q \in Nat /\ stock' = [stock EXCEPT ![i] = @ + q] /\ stock \in [Item -> Int]
  BY <1>a, <1>1 DEF LInv, Inv, TypeOK, RedisTypeOK, LocalsOK, Locals, Undo, Release
<1>4. Others(r) /\ req'[r].user = w /\ req'[r].pc = "undoDrop"
  BY <1>a, UndoNow DEF Becomes, Others, LInv
<1>5. StepFor(r, w)
  BY <1>1, <1>2, <1>4, NoRowsTouched DEF StepFor
<1>6. \A j : Remains(r, w, j)' = Remains(r, w, j) /\ Remains(r, w, j) = FindInCart(w, j)
  BY <1>1, <1>4, RemainsSame, NothingLeaves DEF DeletesNothing
<1>7. \A j : Holds(r, j) = (IF j = i THEN q ELSE 0) /\ Returned(r, j) = 0
  BY <1>a, <1>1 DEF Holds, Returned
<1>8. \A j : Holds(r, j)' = 0 /\ Returned(r, j)' = 0
  BY <1>4, NothingHeldNext
<1>9. HeldKeptBut(w, i) /\ HeldBy(w, i) = Mine(r, w, i) /\ HeldBy(w, i)' = Mine(r, w, i)'
  BY <1>5, <1>6, <1>7, <1>8, OneItemStep
<1> DEFINE n == QtyOf(Remains(r, w, i))
<1>10. n \in Nat
  <2>1. Remains(r, w, i) \subseteq FindInCart(w, i)
    BY <1>6
  <2> QED
    BY <2>1, CartFinite
<1>11. Mine(r, w, i) = n + q - 0
  BY <1>7, Zenon DEF Mine
<1>12. Mine(r, w, i)' = n + 0 - 0
  BY <1>6, <1>8, Zenon DEF Mine, QtyOf, UnitsOf
<1> HIDE DEF n
<1>13. HeldBy(w, i) \in Int /\ q <= HeldBy(w, i) /\ HeldBy(w, i)' = HeldBy(w, i) - q
  BY <1>3, <1>9, <1>10, <1>11, <1>12
<1> QED
  BY <1>1, <1>2, <1>3, <1>9, <1>13, SoldSame, LedgerGivesBack

(* The key of the row on its way out goes, and then the row. *)
LEMMA DropKeyLedger ==
  ASSUME LInv, LInv', Kept, NEW r \in Request, DropKey(r)
  PROVE  LedgerStep
<1>a. SUFFICES ASSUME NEW w, w = req[r].user
               PROVE  LedgerStep
  OBVIOUS
<1>1. req[r].pc = "drop" /\ UNCHANGED <<rows, orders, stock, exp>>
  BY DEF DropKey, At, mongoVars
<1>2. RunsFor(r, w)
  BY <1>a, <1>1, StartedUser DEF InFlight
<1>3. Others(r) /\ req'[r].user = w /\ req'[r].pc = "delete" /\ req'[r].id = req[r].id
  BY <1>a, DropKeyNow DEF Becomes, Others, LInv
<1>4. StepFor(r, w)
  BY <1>1, <1>2, <1>3, NoRowsTouched DEF StepFor
<1>5. \A j : FindInCart(w, j)' = FindInCart(w, j)
  BY <1>1, FoundSame
<1>6. \A j : Leaves(r, j)' = Leaves(r, j)
  <2> SUFFICES ASSUME NEW j PROVE Leaves(r, j)' = Leaves(r, j)
    OBVIOUS
  <2>1. Leaves(r, j) = {row \in FindInCart(w, j) : row.id = req[r].id}
    BY <1>a, <1>1 DEF Leaves
  <2>2. Leaves(r, j)' = {row \in FindInCart(w, j)' : row.id = req[r].id}
    BY <1>3 DEF Leaves
  <2> QED
    BY <1>5, <2>1, <2>2
<1>7. \A j : Remains(r, w, j)' = Remains(r, w, j)
  BY <1>5, <1>6 DEF Remains
<1>8. \A j : Holds(r, j)' = Holds(r, j) /\ Returned(r, j)' = Returned(r, j)
  BY <1>1, <1>3, NothingHeld, NothingHeldNext
<1> QED
  BY <1>1, <1>4, <1>7, <1>8, QuietStep

(* The row on its way out is deleted: its units were given back before.    *)
LEMMA DeleteRowLedger ==
  ASSUME LInv, LInv', Kept, NEW r \in Request, DeleteRow(r)
  PROVE  LedgerStep
<1>a. SUFFICES ASSUME NEW w, w = req[r].user, NEW c, c = req[r].id
               PROVE  LedgerStep
  OBVIOUS
<1>1. /\ req[r].pc = "delete" /\ UNCHANGED <<orders, stock, exp>>
      /\ rows' = [rows EXCEPT ![c] = None]
  BY <1>a DEF DeleteRow, DeleteById, At, redisVars
<1>2. RunsFor(r, w) /\ c \in Request /\ Started(c) /\ req[c].user = w
  BY <1>a, <1>1, StartedUser DEF InFlight, Snapshot
<1>3. /\ Others(r) /\ req'[r].user = w /\ DeletesNothing(req'[r].pc)
      /\ req'[r].pc \notin {"save", "undo", "shrink"}
  BY <1>a, DeleteRowNow DEF Becomes, Others, LInv, DeletesNothing
<1>4. rows \in [Request -> CartRow \cup {None}]
  BY DEF LInv, Inv, TypeOK
<1>5. StepFor(r, w)
  <2>1. OnlyRowsOf(w)
    BY <1>1, <1>2, <1>4 DEF OnlyRowsOf
  <2> QED
    BY <1>1, <1>2, <1>3, <2>1 DEF StepFor
<1>6. \A j : Remains(r, w, j) = {row \in FindInCart(w, j) : row.id # c}
  BY <1>a, <1>1 DEF Remains, Leaves
<1>7. \A j : FindInCart(w, j)' = {row \in FindInCart(w, j) : row.id # c}
  <2> SUFFICES ASSUME NEW j
               PROVE  FindInCart(w, j)' = {row \in FindInCart(w, j) : row.id # c}
    OBVIOUS
  <2>1. \A d \in Request : rows[d] # None => rows[d].id = d
    BY DEF LInv, Separated, RowsOwned
  <2>2. \A y : y \in FindInCart(w, j)
          <=> \E d \in Request : rows[d] # None /\ rows[d].user = w /\ rows[d].item = j /\ y = rows[d]
    BY DEF FindInCart, FindByUser
  <2>3. \A y : y \in FindInCart(w, j)'
          <=> \E d \in Request : rows'[d] # None /\ rows'[d].user = w /\ rows'[d].item = j /\ y = rows'[d]
    BY DEF FindInCart, FindByUser
  <2>4. rows'[c] = None /\ \A d \in Request \ {c} : rows'[d] = rows[d]
    BY <1>1, <1>2, <1>4
  <2> QED
    BY <2>1, <2>2, <2>3, <2>4
<1>8. \A j : Remains(r, w, j)' = Remains(r, w, j)
  <2>1. \A j : Remains(r, w, j)' = FindInCart(w, j)'
    BY <1>3, NothingLeavesNext
  <2> QED
    BY <1>6, <1>7, <2>1
<1>9. \A j : Holds(r, j)' = Holds(r, j) /\ Returned(r, j)' = Returned(r, j)
  BY <1>1, <1>3, NothingHeld, NothingHeldNext
<1> QED
  BY <1>1, <1>5, <1>8, <1>9, QuietStep

(* A row among the rows it was found with. *)
LEMMA RowOfTodo ==
  ASSUME LInv, NEW r \in Request, req[r].pc = "release", NEW row \in req[r].todo
  PROVE  /\ row \in CartRow /\ row.id \in Request /\ rows[row.id] = row /\ row # None
         /\ row.user = req[r].user /\ row.item = req[r].item
<1>1. Snapshot(r) /\ req[r] \in Locals
  BY StartedUser DEF InFlight
<1>2. row \in CartRow /\ row # None
  BY <1>1, RowAssumption DEF Locals
<1>3. row.id \in Request
  BY <1>2 DEF CartRow
<1>4. rows[row.id] = row
  BY <1>1 DEF Snapshot
<1>5. row.user = req[r].user /\ row.item = req[r].item
  BY DEF LInv, Separated, AllLocalsOwned, LocalsOwned
<1> QED
  BY <1>2, <1>3, <1>4, <1>5

(* The release of a row, whole or in part, is what the user gives back. *)
LEMMA ReleaseRowLedger ==
  ASSUME LInv, LInv', Kept, NEW r \in Request, ReleaseRow(r)
  PROVE  LedgerStep
<1>1. req[r].pc = "release" /\ InFlight(r) /\ UNCHANGED <<rows, orders, exp>>
  BY DEF ReleaseRow, At, mongoVars, InFlight
<1>2. PICK row \in req[r].todo :
        LET q == ReleasedQty(req[r], row)
        IN  /\ Release(row.item, q)
            /\ \/ /\ Whole(req[r], row)
                  /\ Becomes(r, "drop", req[r].op, req[r].user, req[r].item, row.id,
                             NeedAfter(req[r], q), req[r].base, req[r].todo \ {row},
                             req[r].items, stock[row.item] + q)
               \/ /\ ~Whole(req[r], row)
                  /\ Becomes(r, "shrink", req[r].op, req[r].user, req[r].item, row.id,
                             req[r].arg, row.qty, req[r].todo, req[r].items,
                             stock[row.item] + q)
  BY ReleaseRowNow DEF LInv
<1>a. SUFFICES ASSUME NEW w, w = req[r].user, NEW i, i = req[r].item, NEW c, c = row.id,
                      NEW q, q = ReleasedQty(req[r], row), NEW x, x = row
               PROVE  LedgerStep
  OBVIOUS
<1>3. RunsFor(r, w) /\ w \in User /\ i \in Item /\ req[r].arg \in Nat
  BY <1>a, <1>1, StartedUser DEF LInv, Inv, LocalsOK, Locals
<1>4. /\ x \in CartRow /\ c \in Request /\ rows[c] = x /\ x # None /\ x.user = w /\ x.item = i
      /\ x.id = c /\ x.qty \in Nat
  BY <1>a, <1>1, RowOfTodo DEF CartRow
<1>5. q \in Nat /\ q <= x.qty
  BY <1>a, <1>3, <1>4 DEF ReleasedQty, Whole
<1>6. stock' = [stock EXCEPT ![i] = @ + q] /\ stock \in [Item -> Int]
  BY <1>a, <1>2, <1>4 DEF Release, LInv, Inv, TypeOK, RedisTypeOK
<1>7. StepFor(r, w)
  <2>1. Others(r) /\ req'[r].user = w
    BY <1>a, <1>2 DEF Becomes, Others
  <2> QED
    BY <1>1, <1>3, <2>1, NoRowsTouched DEF StepFor
<1>8. \A j : /\ Remains(r, w, j) = FindInCart(w, j) /\ Holds(r, j) = 0 /\ Returned(r, j) = 0
             /\ FindInCart(w, j)' = FindInCart(w, j)
  BY <1>1, NothingLeaves, NothingHeld, FoundSame DEF DeletesNothing
<1>9. /\ \A j : Sole(w, j, c) = IF j = i THEN {x} ELSE {}
      /\ FindInCart(w, i) = Rest(w, i, c) \cup {x}
  BY <1>4, SoleRow
<1>10. QtyOf(Rest(w, i, c)) \in Nat /\ QtyOf(Rest(w, i, c) \cup {x}) = QtyOf(Rest(w, i, c)) + x.qty
  BY <1>4, RowAdds
<1> DEFINE n == QtyOf(Rest(w, i, c))
<1>11. Mine(r, w, i) = n + x.qty + 0 - 0
  <2>1. QtyOf(Remains(r, w, i)) = n + x.qty
    BY <1>8, <1>9, <1>10, Zenon
  <2> QED
    BY <1>8, <2>1 DEF Mine
<1>b. Mine(r, w, i)' = QtyOf(Remains(r, w, i)') + Holds(r, i)' - Returned(r, i)'
  BY Zenon DEF Mine, QtyOf, UnitsOf
<1>12. CASE /\ q = x.qty /\ req'[r].pc = "drop" /\ req'[r].id = c
  <2>1. \A j : Remains(r, w, j)' = FindInCart(w, j) \ Sole(w, j, c)
    BY <1>7, <1>8, <1>12 DEF Remains, Leaves, Sole, StepFor
  <2>2. \A j : Holds(r, j)' = 0 /\ Returned(r, j)' = 0
    BY <1>12, NothingHeldNext
  <2>3. \A j : j # i => Remains(r, w, j)' = Remains(r, w, j)
    BY <1>8, <1>9, <2>1
  <2>4. HeldKeptBut(w, i) /\ HeldBy(w, i) = Mine(r, w, i) /\ HeldBy(w, i)' = Mine(r, w, i)'
    BY <1>7, <1>8, <2>2, <2>3, OneItemStep
  <2>5. Remains(r, w, i)' = Rest(w, i, c)
    BY <2>1 DEF Sole, Rest
  <2>6. Mine(r, w, i)' = n + 0 - 0
    BY <1>b, <2>2, <2>5, Zenon
  <2> HIDE DEF n
  <2>7. HeldBy(w, i) \in Int /\ q <= HeldBy(w, i) /\ HeldBy(w, i)' = HeldBy(w, i) - q
    BY <1>4, <1>10, <1>11, <1>12, <2>4, <2>6 DEF n
  <2> QED
    BY <1>1, <1>3, <1>5, <1>6, <2>4, <2>7, SoldSame, LedgerGivesBack
<1>13. CASE /\ q = req[r].arg /\ req'[r].pc = "shrink" /\ req'[r].item = i /\ req'[r].arg = q
  <2>1. \A j : Remains(r, w, j)' = Remains(r, w, j)
    BY <1>1, <1>13, RemainsSame DEF DeletesNothing
  <2>2. \A j : Holds(r, j)' = 0 /\ Returned(r, j)' = IF j = i THEN q ELSE 0
    BY <1>13 DEF Holds, Returned
  <2>4. HeldKeptBut(w, i) /\ HeldBy(w, i) = Mine(r, w, i) /\ HeldBy(w, i)' = Mine(r, w, i)'
    BY <1>7, <1>8, <2>1, <2>2, OneItemStep
  <2>5. QtyOf(Remains(r, w, i)') = n + x.qty
    BY <1>8, <1>9, <1>10, <2>1, Zenon
  <2>6. Mine(r, w, i)' = n + x.qty + 0 - q
    BY <1>b, <2>2, <2>5, Zenon
  <2> HIDE DEF n
  <2>7. HeldBy(w, i) \in Int /\ q <= HeldBy(w, i) /\ HeldBy(w, i)' = HeldBy(w, i) - q
    BY <1>4, <1>5, <1>10, <1>11, <2>4, <2>6 DEF n
  <2> QED
    BY <1>1, <1>3, <1>5, <1>6, <2>4, <2>7, SoldSame, LedgerGivesBack
<1>14. \/ q = x.qty /\ req'[r].pc = "drop" /\ req'[r].id = c
       \/ q = req[r].arg /\ req'[r].pc = "shrink" /\ req'[r].item = i /\ req'[r].arg = q
  BY <1>a, <1>2 DEF Becomes, ReleasedQty
<1> QED
  BY <1>12, <1>13, <1>14

(* The row that lost units is written with what is left. *)
LEMMA ShrinkRowLedger ==
  ASSUME LInv, LInv', Kept, NEW r \in Request, ShrinkRow(r)
  PROVE  LedgerStep
<1>a. SUFFICES ASSUME NEW w, w = req[r].user, NEW i, i = req[r].item, NEW c, c = req[r].id,
                      NEW n, n = req[r].arg, NEW b, b = req[r].base,
                      NEW x, x = ShrunkRow(req[r])
               PROVE  LedgerStep
  OBVIOUS
<1>1. req[r].pc = "shrink" /\ InFlight(r) /\ req[r] \in Locals /\ Snapshot(r) /\ RunsFor(r, w)
  BY <1>a, StartedUser DEF ShrinkRow, At, InFlight
<1>2. /\ c \in Request /\ Started(c) /\ req[c].user = w /\ i \in Item /\ w \in User
      /\ req[c].item = i /\ n \in Nat /\ b \in Nat /\ n < b
  BY <1>a, <1>1 DEF LInv, Inv, LocalsOK, Separated, AllLocalsOwned, LocalsOwned, Owns, Started, Locals
<1>3. x.id = c /\ x.user = w /\ x.item = i /\ x.qty = b - n /\ x \in CartRow
  BY <1>a, <1>2 DEF ShrunkRow, CartRow
<1>4. rows' = [rows EXCEPT ![c] = x] /\ exp' = exp /\ orders' = orders /\ stock' = stock
  BY <1>a, <1>3 DEF ShrinkRow, SaveCartItem, redisVars
<1>5. rows \in [Request -> CartRow \cup {None}] /\ x # None
  BY <1>3, RowAssumption DEF LInv, Inv, TypeOK
<1>6. rows[c] # None /\ rows[c].qty = b
  BY <1>a, <1>1 DEF Snapshot
<1>7. /\ rows[c].user = w /\ rows[c].item = i /\ rows[c].id = c /\ rows[c] \in CartRow
  BY <1>2, <1>5, <1>6 DEF LInv, Separated, RowsOwned, OwnedRow, Owns
<1>8. Others(r) /\ req'[r].user = w /\ Plain(req'[r].pc)
  BY <1>a, ShrinkRowNow DEF Becomes, Others, LInv, Plain
<1>9. StepFor(r, w)
  <2>1. OnlyRowsOf(w)
    BY <1>2, <1>4, <1>5 DEF OnlyRowsOf
  <2> QED
    BY <1>1, <1>4, <1>8, <2>1 DEF StepFor
<1>10. \A j : Remains(r, w, j) = FindInCart(w, j) /\ Remains(r, w, j)' = FindInCart(w, j)'
  BY <1>1, <1>8, NothingLeaves, NothingLeavesNext DEF Plain, DeletesNothing
<1>11. \A j : Holds(r, j) = 0 /\ Returned(r, j) = (IF j = i THEN n ELSE 0)
  BY <1>a, <1>1 DEF Holds, Returned
<1>12. \A j : Holds(r, j)' = 0 /\ Returned(r, j)' = 0
  BY <1>8, NothingHeldNext DEF Plain
<1>13. /\ \A j : j # i => FindInCart(w, j)' = FindInCart(w, j)
       /\ FindInCart(w, i) = Rest(w, i, c) \cup {rows[c]}
       /\ FindInCart(w, i)' = Rest(w, i, c) \cup {x}
  <2>1. Writes(c, w, i, x)
    BY <1>3, <1>4, <1>7 DEF Writes
  <2>2. c \in Request
    BY <1>2
  <2> QED
    BY <1>5, <1>6, <2>1, <2>2, RowWritten
<1>14. HeldKeptBut(w, i) /\ HeldBy(w, i) = Mine(r, w, i) /\ HeldBy(w, i)' = Mine(r, w, i)'
  BY <1>9, <1>10, <1>11, <1>12, <1>13, OneItemStep
<1> DEFINE q == QtyOf(Rest(w, i, c))
<1>15. q \in Nat /\ QtyOf(Rest(w, i, c) \cup {x}) = q + b - n
  <2>1. q \in Nat /\ QtyOf(Rest(w, i, c) \cup {x}) = q + x.qty
    BY <1>3, RowAdds
  <2> QED
    BY <1>2, <1>3, <2>1
<1>16. QtyOf(Rest(w, i, c) \cup {rows[c]}) = q + b
  <2> SUFFICES ASSUME NEW row, row = rows[c]
               PROVE  QtyOf(Rest(w, i, c) \cup {row}) = QtyOf(Rest(w, i, c)) + b
    BY Zenon
  <2>1. row \in CartRow /\ row.id = c /\ row.qty = b
    BY <1>6, <1>7
  <2> QED
    BY <2>1, RowAdds
<1>17. Mine(r, w, i) = q + b + 0 - n
  <2>1. QtyOf(Remains(r, w, i)) = q + b
    BY <1>10, <1>13, <1>16, Zenon
  <2> QED
    BY <1>11, <2>1 DEF Mine
<1>18. Mine(r, w, i)' = q + b - n + 0 - 0
  <2>1. Remains(r, w, i)' = Rest(w, i, c) \cup {x}
    BY <1>10, <1>13
  <2>2. Mine(r, w, i)' = QtyOf(Remains(r, w, i)') + Holds(r, i)' - Returned(r, i)'
    BY Zenon DEF Mine, QtyOf, UnitsOf
  <2>3. Mine(r, w, i)' = QtyOf(Rest(w, i, c) \cup {x}) + 0 - 0
    BY <1>12, <2>1, <2>2, Zenon
  <2> QED
    BY <1>15, <2>3
<1> HIDE DEF q
<1>19. HeldBy(w, i)' = HeldBy(w, i)
  BY <1>2, <1>14, <1>15, <1>17, <1>18
<1>20. HeldKept
  BY <1>14, <1>19 DEF HeldKept, HeldKeptBut
<1> QED
  BY <1>4, <1>20, SoldSame, LedgerStutters

(* The keys of the ordered rows go: nothing changes hands.                 *)
LEMMA ClearKeyLedger ==
  ASSUME LInv, LInv', Kept, NEW r \in Request, ClearKey(r)
  PROVE  LedgerStep
<1>a. SUFFICES ASSUME NEW w, w = req[r].user
               PROVE  LedgerStep
  OBVIOUS
<1>1. req[r].pc = "clear" /\ UNCHANGED <<rows, orders, stock, exp>>
  BY DEF ClearKey, At, mongoVars
<1>2. RunsFor(r, w)
  BY <1>a, <1>1, StartedUser DEF InFlight
<1>3. Others(r) /\ req'[r].user = w /\ req'[r].pc \in {"clear", "empty"}
  BY <1>a, ClearKeyNow DEF Becomes, Others, LInv
<1>4. StepFor(r, w)
  BY <1>1, <1>2, <1>3, NoRowsTouched DEF StepFor
<1>5. \A j : Remains(r, w, j) = {}
  BY <1>a, <1>1 DEF Leaves, Remains
<1>6. \A j : Remains(r, w, j)' = {}
  BY <1>3 DEF Leaves, Remains
<1>8. \A j : Holds(r, j)' = Holds(r, j) /\ Returned(r, j)' = Returned(r, j)
  BY <1>1, <1>3, NothingHeld, NothingHeldNext
<1> QED
  BY <1>1, <1>4, <1>5, <1>6, <1>8, QuietStep

(* The ordered rows are deleted: their units were sold before.             *)
LEMMA EmptyCartLedger ==
  ASSUME LInv, LInv', Kept, NEW r \in Request, EmptyCart(r)
  PROVE  LedgerStep
<1>a. SUFFICES ASSUME NEW w, w = req[r].user
               PROVE  LedgerStep
  OBVIOUS
<1>1. req[r].pc = "empty" /\ UNCHANGED <<orders, stock, exp>>
  BY DEF EmptyCart, At, redisVars
<1>2. RunsFor(r, w)
  BY <1>a, <1>1, StartedUser DEF InFlight
<1>3. Others(r) /\ req'[r].user = w /\ req'[r].pc = "get"
  BY <1>a, EmptyCartNow DEF Becomes, Others, LInv
<1>4. rows' = [c \in Request |-> IF rows[c] # None /\ rows[c].user = w THEN None ELSE rows[c]]
  BY <1>a DEF EmptyCart, DeleteByUser
<1>5. StepFor(r, w)
  <2>1. OnlyRowsOf(w)
    BY <1>4 DEF OnlyRowsOf, LInv, Separated, RowsOwned, OwnedRow, Owns, Started
  <2> QED
    BY <1>1, <1>2, <1>3, <2>1 DEF StepFor
<1>6. \A j : Remains(r, w, j) = {}
  BY <1>a, <1>1 DEF Leaves, Remains
<1>7. \A j : Remains(r, w, j)' = {}
  <2>1. FindByUser(w)' = {}
    BY <1>4 DEF FindByUser
  <2> QED
    BY <2>1 DEF Remains, FindInCart
<1>8. \A j : Holds(r, j)' = Holds(r, j) /\ Returned(r, j)' = Returned(r, j)
  BY <1>1, <1>3, NothingHeld, NothingHeldNext
<1> QED
  BY <1>1, <1>5, <1>6, <1>7, <1>8, QuietStep

(* Orders are of finitely many rows. *)
OrdersFinite == \A r \in Request : IsFiniteSet(orders[r])

(* Initially there are none.                                               *)
LEMMA OrdersFiniteInit == Init => OrdersFinite
BY FS_EmptySet DEF Init, OrdersFinite

(* An order is of rows that were in the cart.                              *)
LEMMA OrdersFiniteNext ==
  ASSUME LInv, OrdersFinite, [Next]_vars
  PROVE  OrdersFinite'
<1>1. CASE \E r \in Request : SaveOrder(r)
  <2>1. PICK r \in Request : SaveOrder(r)
    BY <1>1
  <2>2. /\ req[r].pc = "order" /\ orders' = [orders EXCEPT ![r] = req[r].todo]
        /\ orders \in [Request -> SUBSET CartRow]
    BY <2>1 DEF SaveOrder, At, LInv, Inv, TypeOK
  <2>3. req[r].todo = FindByUser(req[r].user)
    BY <2>2 DEF LInv, Snapshots, Snapshot
  <2>4. IsFiniteSet(FindByUser(req[r].user))
    <3>1. \A row \in FindByUser(req[r].user) : row \in CartRow /\ \E c \in Request : rows[c] = row
      BY DEF FindByUser, LInv, Inv, TypeOK
    <3>2. rows \in [Request -> CartRow \cup {None}]
      BY DEF LInv, Inv, TypeOK
    <3> QED
      BY <3>1, <3>2, RowsFinite
  <2> QED
    BY <2>2, <2>3, <2>4 DEF OrdersFinite
<1>2. CASE ~\E r \in Request : SaveOrder(r)
  <2>1. \A r \in Request : Call(r) => orders' = orders
    <3>1. \A r \in Request, u \in User, i \in Item, q \in Quantity :
            AddToCart(r, u, i, q) \/ Decrease(r, u, i, q) => orders' = orders
      BY DEF AddToCart, Decrease, mongoVars
    <3>2. ASSUME NEW r \in Request, NEW u \in User, NEW i \in Item, NEW q \in Quantity,
                 Increase(r, u, i, q)
          PROVE  orders' = orders
      BY <3>2, Zenon DEF Increase, mongoVars
    <3>3. \A r \in Request, u \in User, i \in Item : RemoveFromCart(r, u, i) => orders' = orders
      BY DEF RemoveFromCart, mongoVars
    <3>4. \A r \in Request, u \in User : Checkout(r, u) => orders' = orders
      BY DEF Checkout, mongoVars
    <3> QED
      BY <3>1, <3>2, <3>3, <3>4 DEF Call
  <2>2. \A r \in Request : Step(r) => orders' = orders
    BY <1>2 DEF Step, IncreaseReserve, SaveRow, SaveRowReplyLost, Undo, UndoDrop, ReleaseRow,
       DropKey, DeleteRow, ShrinkRow, Survey, RefreshKey, ClearKey, EmptyCart, GetRemaining,
       Emit, CommandFails, mongoVars
  <2>3. /\ \A c \in Request : KeyExpires(c) => orders' = orders
        /\ \A h \in exp : ExpireStep(h) => orders' = orders
    BY DEF KeyExpires, ExpireStep, ExpireFind, ExpireRelease, ExpireDelete, ExpireEmit,
       ExpireFails, mongoVars
  <2>4. Crash \/ Boot \/ RedisByItself \/ UNCHANGED vars => orders' = orders
    BY DEF Crash, Boot, LoadScript, SeedStock, Subscribe, RedisByItself, SnapshotRedis,
       RestartRedis, mongoVars, vars
  <2>5. orders' = orders
    BY <2>1, <2>2, <2>3, <2>4 DEF Next
  <2> QED
    BY <2>5 DEF OrdersFinite
<1> QED
  BY <1>1, <1>2

(* The units sold are finitely many.                                       *)
LEMMA SoldFinite ==
  ASSUME LInv, OrdersFinite, NEW j
  PROVE  IsFiniteSet(SoldUnits(j))
<1> DEFINE f == [r \in Request |-> {r} \X UnitsOf({row \in orders[r] : row.item = j})]
           U == {f[r] : r \in Request}
<1>1. SoldUnits(j) = UNION U
  BY DEF SoldUnits
<1>2. IsFiniteSet(U)
  <2>1. f \in [Request -> U] /\ \A y \in U : \E r \in Request : f[r] = y
    OBVIOUS
  <2> HIDE DEF f, U
  <2> QED
    BY <2>1, FiniteRange, EnvironmentAssumption
<1>3. ASSUME NEW X \in U PROVE IsFiniteSet(X)
  <2>1. PICK r \in Request : X = {r} \X UnitsOf({row \in orders[r] : row.item = j})
    OBVIOUS
  <2> DEFINE R == {row \in orders[r] : row.item = j}
  <2>2. R \in SUBSET CartRow /\ IsFiniteSet(R)
    <3>1. R \subseteq orders[r] /\ orders[r] \in SUBSET CartRow /\ IsFiniteSet(orders[r])
      BY DEF LInv, Inv, TypeOK, OrdersFinite
    <3> HIDE DEF R
    <3> QED
      BY <3>1, FS_Subset
  <2> HIDE DEF R
  <2>3. IsFiniteSet(UnitsOf(R)) /\ IsFiniteSet({r})
    BY <2>2, UnitsFinite, FS_Singleton
  <2>4. IsFiniteSet({r} \X UnitsOf(R))
    BY <2>3, FS_Product
  <2> QED
    BY <2>1, <2>4 DEF R
<1> HIDE DEF U
<1> QED
  BY <1>1, <1>2, <1>3, FS_UNION

(* The units of one request's order are as many as the rows have. *)
LEMMA OneOrder ==
  ASSUME NEW r, NEW U, IsFiniteSet(U), NEW A, IsFiniteSet(A), A \cap ({r} \X U) = {}
  PROVE  /\ Cardinality(A) \in Nat /\ Cardinality(U) \in Nat
         /\ Cardinality(A \cup ({r} \X U)) = Cardinality(A) + Cardinality(U)
<1>1. IsFiniteSet({r}) /\ Cardinality({r}) = 1
  BY FS_Singleton
<1>2. IsFiniteSet({r} \X U) /\ Cardinality({r} \X U) = Cardinality({r}) * Cardinality(U)
  BY <1>1, FS_Product
<1>3. Cardinality(A) \in Nat /\ Cardinality(U) \in Nat
  BY FS_CardinalityType
<1>4. Cardinality({r} \X U) = Cardinality(U)
  BY <1>1, <1>2, <1>3
<1> DEFINE D == {r} \X U
<1> HIDE DEF D
<1>5. Cardinality(A \cup D) = Cardinality(A) + Cardinality(D) - Cardinality(A \cap D)
  BY <1>2, FS_Union DEF D
<1>6. Cardinality(A \cap D) = 0
  <2>1. A \cap D = {}
    BY DEF D
  <2> QED
    BY <2>1, FS_EmptySet, Zenon
<1>7. Cardinality(D) = Cardinality(U)
  BY <1>4 DEF D
<1>8. Cardinality(A \cup D) = Cardinality(A) + Cardinality(U)
  BY <1>3, <1>5, <1>6, <1>7
<1> QED
  BY <1>3, <1>8 DEF D

(* The creation of the order sells all that the user holds. *)
LEMMA SaveOrderLedger ==
  ASSUME LInv, LInv', OrdersFinite, Kept, NEW r \in Request, SaveOrder(r)
  PROVE  LedgerStep
<1>a. SUFFICES ASSUME NEW w, w = req[r].user
               PROVE  LedgerStep
  OBVIOUS
<1>1. /\ req[r].pc = "order" /\ UNCHANGED <<rows, stock, exp>>
      /\ orders' = [orders EXCEPT ![r] = req[r].todo]
  BY DEF SaveOrder, At, redisVars
<1>2. /\ RunsFor(r, w) /\ w \in User /\ req[r].todo = FindByUser(w) /\ FindByUser(w) # {}
      /\ orders[r] = {}
  BY <1>a, <1>1, StartedUser DEF InFlight, Snapshot
<1>3. Others(r) /\ req'[r].user = w /\ req'[r].pc = "clear"
  BY <1>a, SaveOrderNow DEF Becomes, Others, LInv
<1>4. StepFor(r, w)
  BY <1>1, <1>2, <1>3, NoRowsTouched DEF StepFor
<1>5. \A j : Remains(r, w, j) = FindInCart(w, j) /\ Holds(r, j) = 0 /\ Returned(r, j) = 0
  BY <1>1, NothingLeaves, NothingHeld DEF DeletesNothing
<1>6. \A j : Remains(r, w, j)' = {} /\ Holds(r, j)' = 0 /\ Returned(r, j)' = 0
  <2>1. \A j : Remains(r, w, j)' = {}
    BY <1>3 DEF Leaves, Remains
  <2> QED
    BY <1>3, <2>1, NothingHeldNext
<1>7. QtyOf({}) = 0
  <2>1. UnitsOf({}) = {}
    BY DEF UnitsOf
  <2> QED
    BY <2>1, FS_EmptySet, Zenon DEF QtyOf
<1>8. ASSUME NEW j PROVE HeldBy(w, j) = QtyOf(FindInCart(w, j)) /\ HeldBy(w, j)' = 0
  <2>1. HeldBy(w, j) = Mine(r, w, j) /\ HeldBy(w, j)' = Mine(r, w, j)'
    BY <1>4, StepHolds
  <2> DEFINE n == QtyOf(FindInCart(w, j))
  <2>2. n \in Nat
    BY CartFinite
  <2>3. Mine(r, w, j) = n + 0 - 0
    BY <1>5, Zenon DEF Mine
  <2>4. Mine(r, w, j)' = QtyOf(Remains(r, w, j)') + Holds(r, j)' - Returned(r, j)'
    BY Zenon DEF Mine, QtyOf, UnitsOf
  <2>5. Mine(r, w, j)' = 0 + 0 - 0
    BY <1>6, <1>7, <2>4, Zenon
  <2> HIDE DEF n
  <2>6. HeldBy(w, j) = n /\ HeldBy(w, j)' = 0
    BY <2>1, <2>2, <2>3, <2>5
  <2> QED
    BY <2>6 DEF n
<1>9. ASSUME NEW j PROVE Sold(j)' = Sold(j) + HeldBy(w, j)
  <2> DEFINE U == UnitsOf(FindInCart(w, j))
             A == SoldUnits(j)
  <2>1. IsFiniteSet(U) /\ IsFiniteSet(A)
    BY CartFinite, SoldFinite
  <2>2. orders \in [Request -> SUBSET CartRow]
    BY DEF LInv, Inv, TypeOK
  <2>3. orders'[r] = FindByUser(w) /\ \A s \in Request \ {r} : orders'[s] = orders[s]
    BY <1>1, <1>2, <2>2
  <2>4. {row \in orders'[r] : row.item = j} = FindInCart(w, j)
    BY <2>3 DEF FindInCart
  <2> DEFINE S(s) == {s} \X UnitsOf({row \in orders[s] : row.item = j})
             T(s) == {s} \X UnitsOf({row \in orders'[s] : row.item = j})
  <2>5. S(r) = {}
    BY <1>2 DEF UnitsOf
  <2>6. T(r) = {r} \X U
    BY <2>4
  <2>7. \A s \in Request \ {r} : T(s) = S(s)
    BY <2>3
  <2>8. SoldUnits(j)' = UNION {T(s) : s \in Request}
    BY DEF SoldUnits, UnitsOf
  <2>9. A = UNION {S(s) : s \in Request}
    BY DEF SoldUnits
  <2>10. \A s \in Request : \A z \in S(s) : z[1] = s
    OBVIOUS
  <2> HIDE DEF S, T, U
  <2>11. SoldUnits(j)' = A \cup ({r} \X U)
    <3> HIDE DEF A
    <3> QED
      BY <2>5, <2>6, <2>7, <2>8, <2>9
  <2>12. A \cap ({r} \X U) = {}
    <3> HIDE DEF A
    <3> QED
      BY <2>5, <2>9, <2>10
  <2> HIDE DEF A
  <2>13. Cardinality(A \cup ({r} \X U)) = Cardinality(A) + Cardinality(U)
    BY <2>1, <2>12, OneOrder
  <2>14. Sold(j)' = Cardinality(SoldUnits(j)')
    BY Zenon DEF Sold
  <2>15. Sold(j)' = Cardinality(A) + Cardinality(U)
    BY <2>11, <2>13, <2>14, Zenon
  <2>16. HeldBy(w, j) = Cardinality(U)
    BY <1>8, Zenon DEF QtyOf, U
  <2> QED
    BY <2>15, <2>16, Zenon DEF Sold, A
<1>10. \E i \in Item : HeldBy(w, i) > 0
  <2>1. PICK row : row \in FindByUser(w)
    BY <1>2
  <2>2. row \in CartRow /\ row \in FindInCart(w, row.item)
    BY <2>1 DEF FindByUser, FindInCart, LInv, Inv, TypeOK
  <2> SUFFICES ASSUME NEW i \in Item, i = row.item
               PROVE  QtyOf(FindInCart(w, i)) > 0
    BY <1>8, <2>2 DEF CartRow
  <2>3. <<row.id, 1>> \in UnitsOf(FindInCart(w, i))
    BY <2>2 DEF UnitsOf, CartRow
  <2>4. IsFiniteSet(UnitsOf(FindInCart(w, i)))
    BY CartFinite
  <2>5. Cardinality(UnitsOf(FindInCart(w, i))) # 0 /\ Cardinality(UnitsOf(FindInCart(w, i))) \in Nat
    BY <2>3, <2>4, FS_EmptySet, FS_CardinalityType
  <2> QED
    BY <2>5 DEF QtyOf
<1>11. PICK i \in Item : HeldBy(w, i) > 0
  BY <1>10
<1>12. \A v \in User, j \in Item : v # w => HeldBy(v, j)' = HeldBy(v, j)
  BY <1>4, StepHolds
<1> QED
  BY <1>1, <1>2, <1>8, <1>9, <1>11, <1>12, LedgerSells

(* The row that handler m of an expired key is about to delete. *)
Gone(m, w, i) == {row \in FindInCart(w, i) : m.pc = "delete" /\ row.id = m.id}

(* Handler m of an expired key minds w's cart, or nothing does.            *)
Minds(m, w) == \/ m \in exp /\ req[m.id].user = w
               \/ Idle(w) /\ m.pc # "delete"

(* What w holds, told from that handler.                                   *)
MindersHold ==
  \A m, w, i : Minds(m, w) => HeldBy(w, i) = QtyOf(FindInCart(w, i) \ Gone(m, w, i))

-----------------------------------------------------------------------------
(* The expiry, as a step of the ledger.                                    *)

(* Under the invariant it is so.                                           *)
LEMMA MinderHolds == LInv => MindersHold
<1> SUFFICES ASSUME LInv, NEW m, NEW w, NEW i, Minds(m, w)
             PROVE  HeldBy(w, i) = QtyOf(FindInCart(w, i) \ Gone(m, w, i))
  BY DEF MindersHold
<1>1. CASE m \in exp /\ req[m.id].user = w
  <2>1. ExpiryLeaves(m, i) = Gone(m, w, i)
    BY <1>1 DEF ExpiryLeaves, Gone
  <2>2. HeldBy(w, i) = QtyOf(FindInCart(w, i) \ ExpiryLeaves(m, i))
    BY <1>1, HeldByExpiry DEF ExpiriesHold
  <2> QED
    BY <2>1, <2>2, Zenon
<1>2. CASE Idle(w) /\ m.pc # "delete"
  <2>1. FindInCart(w, i) \ Gone(m, w, i) = FindInCart(w, i)
    BY <1>2 DEF Gone
  <2>2. HeldBy(w, i) = QtyOf(FindInCart(w, i))
    BY <1>2, HeldByIdle DEF IdleHold
  <2> QED
    BY <2>1, <2>2, Zenon
<1> QED
  BY <1>1, <1>2 DEF Minds

(* The same after a step.                                                  *)
LEMMA MinderHoldsNext == LInv' => MindersHold'
BY MinderHolds, PTL

(* A step of the expiry in w's cart, whose handler was h and becomes m. *)
ExpiryFor(h, m, w) ==
  /\ Minds(h, w) /\ Minds(m, w)'
  /\ OnlyRowsOf(w)
  /\ req' = req
  /\ \A g : req[g.id].user # w => (g \in exp <=> g \in exp')

(* What users hold before and after a step of the expiry.                  *)
LEMMA ExpiryHolds ==
  ASSUME LInv, LInv', NEW h, NEW m, NEW w, ExpiryFor(h, m, w)
  PROVE  /\ \A v, j : v # w => HeldBy(v, j)' = HeldBy(v, j)
         /\ \A j : /\ HeldBy(w, j) = QtyOf(FindInCart(w, j) \ Gone(h, w, j))
                   /\ HeldBy(w, j)' = QtyOf(FindInCart(w, j)' \ Gone(m, w, j)')
<1>1. ASSUME NEW v, NEW j, v # w PROVE HeldBy(v, j)' = HeldBy(v, j)
  <2>1. FindByUser(v)' = FindByUser(v)
    <3>1. Kept
      BY DEF ExpiryFor, Kept, KeptBy
    <3> QED
      BY <1>1, <3>1, OtherRowsFound DEF LInv, ExpiryFor
  <2>2. /\ \A s \in Request : req'[s] = req[s]
        /\ \A g \in exp : req[g.id].user = v => g \in exp' /\ req'[g.id].user = v
        /\ \A g \in exp' : req'[g.id].user = v => g \in exp /\ req[g.id].user = v
    BY <1>1 DEF ExpiryFor
  <2> QED
    BY <2>1, <2>2, OthersHold
<1>2. ASSUME NEW j
      PROVE  /\ HeldBy(w, j) = QtyOf(FindInCart(w, j) \ Gone(h, w, j))
             /\ HeldBy(w, j)' = QtyOf(FindInCart(w, j)' \ Gone(m, w, j)')
  <2>1. HeldBy(w, j) = QtyOf(FindInCart(w, j) \ Gone(h, w, j))
    BY MinderHolds DEF MindersHold, ExpiryFor
  <2>2. HeldBy(w, j)' = QtyOf(FindInCart(w, j) \ Gone(m, w, j))'
    BY MinderHoldsNext DEF MindersHold, ExpiryFor
  <2>3. QtyOf(FindInCart(w, j) \ Gone(m, w, j))' = QtyOf(FindInCart(w, j)' \ Gone(m, w, j)')
    BY Zenon DEF QtyOf, UnitsOf
  <2> QED
    BY <2>1, <2>2, <2>3, Zenon
<1> QED
  BY <1>1, <1>2

(* A step of the expiry that gives nothing back.                           *)
LEMMA QuietExpiry ==
  ASSUME LInv, LInv', NEW h, NEW m, NEW w, ExpiryFor(h, m, w),
         \A j : FindInCart(w, j)' \ Gone(m, w, j)' = FindInCart(w, j) \ Gone(h, w, j),
         stock' = stock, orders' = orders
  PROVE  LedgerStep
<1>1. \A j : HeldBy(w, j)' = HeldBy(w, j)
  <2> SUFFICES ASSUME NEW j PROVE HeldBy(w, j)' = HeldBy(w, j)
    OBVIOUS
  <2>1. /\ HeldBy(w, j) = QtyOf(FindInCart(w, j) \ Gone(h, w, j))
        /\ HeldBy(w, j)' = QtyOf(FindInCart(w, j)' \ Gone(m, w, j)')
    BY ExpiryHolds
  <2> QED
    BY <2>1, Zenon
<1>2. HeldKept
  BY <1>1, ExpiryHolds DEF HeldKept
<1> QED
  BY <1>2, SoldSame, LedgerStutters

(* The expiry of a key changes nothing in the ledger.                      *)
LEMMA KeyExpiresLedger ==
  ASSUME OneCallPerCart, LInv, LInv', NEW c \in Request, KeyExpires(c)
  PROVE  LedgerStep
<1>a. SUFFICES ASSUME NEW w, w = req[c].user, NEW m,
                      m = [id |-> c, by |-> key[c], pc |-> "find", row |-> None, rem |-> 0]
               PROVE  LedgerStep
  OBVIOUS
<1>1. m.id = c /\ m.pc = "find"
  BY <1>a
<1>2. Idle(w)
  BY <1>a DEF KeyExpires, MayExpire, Permitted, OneCallPerCart
<1>3. UNCHANGED <<req, rows, orders, stock>> /\ (exp' = exp \cup {m} \/ exp' = exp)
  BY <1>a DEF KeyExpires, mongoVars
<1>4. Minds(m, w) /\ Minds(m, w)'
  <2>1. Minds(m, w)
    BY <1>1, <1>2 DEF Minds
  <2>2. CASE exp' = exp \cup {m}
    BY <1>a, <1>1, <1>3, <2>1, <2>2 DEF Minds
  <2>3. CASE exp' = exp
    <3>1. Idle(w)'
      BY <1>2, <1>3, <2>3 DEF Idle, InFlight
    <3> QED
      BY <1>1, <2>1, <3>1 DEF Minds
  <2> QED
    BY <1>3, <2>1, <2>2, <2>3
<1>5. ExpiryFor(m, m, w)
  BY <1>a, <1>1, <1>3, <1>4, NoRowsTouched DEF ExpiryFor
<1>6. \A j : FindInCart(w, j)' \ Gone(m, w, j)' = FindInCart(w, j) \ Gone(m, w, j)
  BY <1>1, <1>3, FoundSame DEF Gone
<1> QED
  BY <1>3, <1>5, <1>6, QuietExpiry

(* The locals of h as m, or the end of h. *)
HandlerBecomes(h, m) == exp' = (exp \ {h}) \cup {m} \/ (exp' = exp \ {h} /\ m.pc # "delete")

(* A step of the expiry is one in the cart of the key's user.              *)
LEMMA ExpiryBecomes ==
  ASSUME LInv, LInv', NEW h \in exp, NEW m, m.id = h.id, HandlerBecomes(h, m), req' = req,
         NEW w, w = req[h.id].user, OnlyRowsOf(w)
  PROVE  ExpiryFor(h, m, w)
<1>1. \A g \in exp : req[g.id].user = w => g = h
  BY DEF LInv, Alone
<1>2. \A r \in Request : InFlight(r) => req[r].user # w
  BY DEF LInv, Alone
<1>3. Minds(h, w)
  BY DEF Minds
<1>4. Minds(m, w)'
  <2>1. CASE exp' = (exp \ {h}) \cup {m}
    BY <2>1 DEF Minds
  <2>2. CASE exp' = exp \ {h} /\ m.pc # "delete"
    <3>1. Idle(w)'
      BY <1>1, <1>2, <2>2 DEF Idle, InFlight
    <3> QED
      BY <2>2, <3>1 DEF Minds
  <2> QED
    BY <2>1, <2>2 DEF HandlerBecomes
<1>5. \A g : req[g.id].user # w => (g \in exp <=> g \in exp')
  BY DEF HandlerBecomes
<1> QED
  BY <1>3, <1>4, <1>5 DEF ExpiryFor

(* The release of the expired key's row is a GiveBack, the other steps     *)
(* stutter.                                                                *)
LEMMA ExpireStepLedger ==
  ASSUME OneCallPerCart, LInv, LInv', NEW h \in exp, ExpireStep(h)
  PROVE  LedgerStep
<1>a. SUFFICES ASSUME NEW w, w = req[h.id].user, NEW c, c = h.id
               PROVE  LedgerStep
  OBVIOUS
<1>1. /\ h \in ExpiryHandler /\ c \in Request /\ Started(c) /\ w = req[c].user
      /\ h.pc = "release" => rows[c] = h.row
      /\ h.pc # "find" => h.row \in CartRow
  BY <1>a DEF LInv, Inv, TypeOK, HandlersOK, ExpiryHandler, ExpiryKnows
<1>2. rows \in [Request -> CartRow \cup {None}]
  BY DEF LInv, Inv, TypeOK
<1>3. CASE ExpireFind(h)
  <2>1. h.pc = "find" /\ UNCHANGED <<rows, orders, stock, req>>
    BY <1>3 DEF ExpireFind, mongoVars, redisVars
  <2>2. PICK m : m.id = h.id /\ m.pc # "delete" /\ HandlerBecomes(h, m)
    <3> DEFINE m == [h EXCEPT !.pc = "release", !.row = rows[h.id]]
    <3>1. m.id = h.id /\ m.pc = "release" /\ h.pc # "delete"
      BY <1>1, <2>1 DEF ExpiryHandler
    <3>2. HandlerBecomes(h, m) \/ HandlerBecomes(h, h)
      BY <1>3, <3>1 DEF ExpireFind, Advance, HandlerBecomes
    <3> HIDE DEF m
    <3> QED
      BY <3>1, <3>2
  <2>3. ExpiryFor(h, m, w)
    BY <1>a, <2>1, <2>2, ExpiryBecomes, NoRowsTouched
  <2>4. \A j : FindInCart(w, j)' \ Gone(m, w, j)' = FindInCart(w, j) \ Gone(h, w, j)
    BY <2>1, <2>2, FoundSame DEF Gone
  <2> QED
    BY <2>1, <2>3, <2>4, QuietExpiry
<1>4. CASE ExpireRelease(h)
  <2>a. SUFFICES ASSUME NEW x, x = h.row, NEW q, q = h.row.qty, NEW i, i = h.row.item,
                        NEW m, m = [h EXCEPT !.pc = "delete", !.rem = stock[h.row.item] + h.row.qty]
                 PROVE  LedgerStep
    OBVIOUS
  <2>1. /\ h.pc = "release" /\ UNCHANGED <<rows, orders, req>>
        /\ stock' = [stock EXCEPT ![i] = @ + q] /\ HandlerBecomes(h, m)
    BY <1>4, <2>a DEF ExpireRelease, Advance, Release, HandlerBecomes, mongoVars
  <2>2. m.id = h.id /\ m.pc = "delete"
    BY <1>1, <2>a DEF ExpiryHandler
  <2>3. /\ x \in CartRow /\ x.item = i /\ x.qty = q /\ rows[c] = x /\ x # None
        /\ q \in Nat /\ i \in Item
    BY <1>1, <2>a, <2>1, RowAssumption DEF CartRow
  <2>4. x.id = c /\ x.user = w
    BY <1>a, <1>1, <2>3 DEF LInv, Separated, RowsOwned, OwnedRow, Owns
  <2>5. ExpiryFor(h, m, w)
    BY <1>a, <2>1, <2>2, ExpiryBecomes, NoRowsTouched
  <2>6. /\ \A v, j : v # w => HeldBy(v, j)' = HeldBy(v, j)
        /\ \A j : /\ HeldBy(w, j) = QtyOf(FindInCart(w, j) \ Gone(h, w, j))
                  /\ HeldBy(w, j)' = QtyOf(FindInCart(w, j)' \ Gone(m, w, j)')
    BY <2>5, ExpiryHolds
  <2>7. \A j : FindInCart(w, j) \ Gone(h, w, j) = FindInCart(w, j)
    BY <2>1 DEF Gone
  <2>8. \A j : FindInCart(w, j)' \ Gone(m, w, j)' = Rest(w, j, c)
    BY <1>a, <2>1, <2>2, FoundSame DEF Gone, Rest
  <2>9. /\ \A j : Sole(w, j, c) = IF j = i THEN {x} ELSE {}
        /\ FindInCart(w, i) = Rest(w, i, c) \cup {x}
    BY <1>1, <2>3, <2>4, SoleRow
  <2>10. ASSUME NEW j, j # i PROVE HeldBy(w, j)' = HeldBy(w, j)
    <3>1. Rest(w, j, c) = FindInCart(w, j)
      BY <2>9, <2>10 DEF Rest, Sole
    <3> QED
      BY <2>6, <2>7, <2>8, <3>1, Zenon
  <2> DEFINE n == QtyOf(Rest(w, i, c))
  <2>11. n \in Nat /\ QtyOf(Rest(w, i, c) \cup {x}) = n + q
    BY <2>3, <2>4, RowAdds
  <2>12. HeldBy(w, i) = n + q
    BY <2>6, <2>7, <2>9, <2>11, Zenon
  <2>13. HeldBy(w, i)' = n
    BY <2>6, <2>8, Zenon
  <2> HIDE DEF n
  <2>14. HeldBy(w, i) \in Int /\ q <= HeldBy(w, i) /\ HeldBy(w, i)' = HeldBy(w, i) - q
    BY <2>3, <2>11, <2>12, <2>13
  <2>15. HeldKeptBut(w, i)
    BY <2>6, <2>10 DEF HeldKeptBut
  <2>16. w \in User /\ stock \in [Item -> Int]
    BY <2>3, <2>4 DEF CartRow, LInv, Inv, TypeOK, RedisTypeOK
  <2> QED
    BY <2>1, <2>3, <2>14, <2>15, <2>16, SoldSame, LedgerGivesBack
<1>5. CASE ExpireDelete(h)
  <2>a. SUFFICES ASSUME NEW m, m = [h EXCEPT !.pc = "emit"]
                 PROVE  LedgerStep
    OBVIOUS
  <2>1. /\ h.pc = "delete" /\ UNCHANGED <<orders, req, stock>> /\ HandlerBecomes(h, m)
        /\ rows' = [rows EXCEPT ![c] = None]
    BY <1>a, <1>5, <2>a DEF ExpireDelete, DeleteById, Advance, HandlerBecomes, redisVars
  <2>2. m.id = h.id /\ m.pc = "emit"
    BY <1>1, <2>a DEF ExpiryHandler
  <2>3. OnlyRowsOf(w)
    BY <1>1, <1>2, <2>1 DEF OnlyRowsOf
  <2>4. ExpiryFor(h, m, w)
    BY <1>a, <2>1, <2>2, <2>3, ExpiryBecomes
  <2>5. \A j : FindInCart(w, j) \ Gone(h, w, j) = {row \in FindInCart(w, j) : row.id # c}
    BY <1>a, <2>1 DEF Gone
  <2>6. \A j : FindInCart(w, j)' = {row \in FindInCart(w, j) : row.id # c}
    <3> SUFFICES ASSUME NEW j
                 PROVE  FindInCart(w, j)' = {row \in FindInCart(w, j) : row.id # c}
      OBVIOUS
    <3>1. \A d \in Request : rows[d] # None => rows[d].id = d
      BY DEF LInv, Separated, RowsOwned
    <3>2. \A y : y \in FindInCart(w, j)
            <=> \E d \in Request : rows[d] # None /\ rows[d].user = w /\ rows[d].item = j /\ y = rows[d]
      BY DEF FindInCart, FindByUser
    <3>3. \A y : y \in FindInCart(w, j)'
            <=> \E d \in Request : rows'[d] # None /\ rows'[d].user = w /\ rows'[d].item = j /\ y = rows'[d]
      BY DEF FindInCart, FindByUser
    <3>4. rows'[c] = None /\ \A d \in Request \ {c} : rows'[d] = rows[d]
      BY <1>1, <1>2, <2>1
    <3> QED
      BY <3>1, <3>2, <3>3, <3>4
  <2>7. \A j : Gone(m, w, j)' = {}
    BY <2>2 DEF Gone
  <2>8. \A j : FindInCart(w, j)' \ Gone(m, w, j)' = FindInCart(w, j) \ Gone(h, w, j)
    BY <2>5, <2>6, <2>7
  <2> QED
    BY <2>1, <2>4, <2>8, QuietExpiry
<1>6. CASE ExpireEmit(h)
  <2>1. h.pc = "emit" /\ UNCHANGED <<rows, orders, stock, req>> /\ HandlerBecomes(h, h)
    BY <1>6 DEF ExpireEmit, mongoVars, redisVars, HandlerBecomes
  <2>2. ExpiryFor(h, h, w)
    BY <1>a, <2>1, ExpiryBecomes, NoRowsTouched
  <2>3. \A j : FindInCart(w, j)' \ Gone(h, w, j)' = FindInCart(w, j) \ Gone(h, w, j)
    BY <2>1, FoundSame DEF Gone
  <2> QED
    BY <2>1, <2>2, <2>3, QuietExpiry
<1> QED
  BY <1>3, <1>4, <1>5, <1>6 DEF ExpireStep, ExpireFails, OneCallPerCart

-----------------------------------------------------------------------------
(* The refinement.                                                         *)

(* Every step of a handler is a step of the ledger, or none.               *)
LEMMA StepLedger ==
  ASSUME OneCallPerCart, LInv, LInv', OrdersFinite, Kept, NEW r \in Request, Step(r)
  PROVE  LedgerStep
<1>1. ~SaveRowReplyLost(r)
  BY DEF OneCallPerCart, SaveRowReplyLost
<1>2. CASE SaveRow(r)
  BY <1>2, SaveRowLedger
<1>3. CASE IncreaseReserve(r)
  BY <1>3, IncreaseReserveLedger
<1>4. CASE Undo(r)
  BY <1>4, UndoLedger
<1>5. CASE UndoDrop(r) \/ Survey(r) \/ RefreshKey(r) \/ GetRemaining(r) \/ Emit(r)
  BY <1>5, PlainStepLedger
<1>6. CASE ReleaseRow(r)
  BY <1>6, ReleaseRowLedger
<1>7. CASE DropKey(r)
  BY <1>7, DropKeyLedger
<1>8. CASE DeleteRow(r)
  BY <1>8, DeleteRowLedger
<1>9. CASE ShrinkRow(r)
  BY <1>9, ShrinkRowLedger
<1>10. CASE SaveOrder(r)
  BY <1>10, SaveOrderLedger
<1>11. CASE ClearKey(r)
  BY <1>11, ClearKeyLedger
<1>12. CASE EmptyCart(r)
  BY <1>12, EmptyCartLedger
<1>13. CASE CommandFails(r)
  BY <1>13, PlainStepLedger, SaveFailsLedger
<1> QED
  BY <1>1, <1>2, <1>3, <1>4, <1>5, <1>6, <1>7, <1>8, <1>9, <1>10, <1>11, <1>12, <1>13
  DEF Step

(* Every step is a step of the ledger, or none.                            *)
LEMMA NextLedger ==
  ASSUME OneCallPerCart, LInv, LInv', OrdersFinite, [Next]_vars
  PROVE  LedgerStep
<1>1. Kept
  BY NextKept DEF LInv, Separated
<1>2. CASE UNCHANGED vars
  <2>1. UNCHANGED <<stock, key, script, saved, restarts, rows, orders, shown, req, exp, server, crashes>>
    BY <1>2 DEF vars
  <2>2. HeldKept
    <3> SUFFICES ASSUME NEW v \in User, NEW j \in Item PROVE HeldBy(v, j)' = HeldBy(v, j)
      BY DEF HeldKept
    <3>1. FindByUser(v)' = FindByUser(v)
      BY <2>1, FoundSame
    <3> QED
      BY <2>1, <3>1, OthersHold
  <2> QED
    BY <2>1, <2>2, SoldSame, LedgerStutters
<1>3. CASE \E r \in Request : Call(r) \/ Step(r) \/ KeyExpires(r)
  BY <1>1, <1>3, CallLedger, StepLedger, KeyExpiresLedger
<1>4. CASE \E h \in exp : ExpireStep(h)
  BY <1>4, ExpireStepLedger
<1> QED
  BY <1>2, <1>3, <1>4, NothingElse DEF Next

(* Initially all is on offer, and nothing held or sold.                    *)
LEMMA InitLedger == Init => Ledger!Init
<1> SUFFICES ASSUME Init PROVE Ledger!Init
  OBVIOUS
<1>0. LInv
  BY LInvInit
<1>1. /\ stock = TotalStock /\ exp = {}
      /\ \A r \in Request : rows[r] = None /\ orders[r] = {} /\ req[r].pc = "new"
  BY DEF Init, RedisInit, Fresh
<1>2. \A u, i : HeldBy(u, i) = 0
  <2> SUFFICES ASSUME NEW u, NEW i PROVE HeldBy(u, i) = 0
    OBVIOUS
  <2>1. Idle(u)
    BY <1>1 DEF Idle, InFlight
  <2>2. UnitsOf(FindInCart(u, i)) = {}
    BY <1>1 DEF FindInCart, FindByUser, UnitsOf
  <2>3. QtyOf(FindInCart(u, i)) = 0
    BY <2>2, FS_EmptySet, Zenon DEF QtyOf
  <2> QED
    BY <1>0, <2>1, <2>3, HeldByIdle DEF IdleHold
<1>3. \A i : Sold(i) = 0
  <2> SUFFICES ASSUME NEW i PROVE Sold(i) = 0
    OBVIOUS
  <2>1. SoldUnits(i) = {}
    BY <1>1 DEF SoldUnits, UnitsOf
  <2> QED
    BY <2>1, FS_EmptySet, Zenon DEF Sold
<1>4. /\ [u \in User |-> [i \in Item |-> HeldBy(u, i)]] = [u \in User |-> [i \in Item |-> 0]]
      /\ [i \in Item |-> Sold(i)] = [i \in Item |-> 0]
  BY <1>2, <1>3
<1> QED
  BY <1>1, <1>4 DEF Ledger!Init

(* FlashSale implements StockLedger. *)
THEOREM OneCallPerCartImplementsLedger == OneCallPerCart /\ Spec => ImplementsLedger
<1> SUFFICES ASSUME OneCallPerCart PROVE Spec => ImplementsLedger
  OBVIOUS
<1>1. Init => LInv /\ OrdersFinite /\ Ledger!Init
  BY LInvInit, OrdersFiniteInit, InitLedger
<1>2. LInv /\ OrdersFinite /\ [Next]_vars => LInv' /\ OrdersFinite'
  BY LInvNext, OrdersFiniteNext
<1>3. LInv /\ LInv' /\ OrdersFinite /\ [Next]_vars => [Ledger!Next]_(Ledger!ledger)
  BY NextLedger DEF LedgerStep, Ledger!ledger
<1> QED
  BY <1>1, <1>2, <1>3, PTL DEF Spec, ImplementsLedger, Ledger!Spec

=============================================================================

-------------------------- MODULE Lifetime_proof ---------------------------
(***************************************************************************)
(* No cart row outlives its reservation key, for every set of requests,    *)
(* users and items, and any number of handlers under way in one cart.      *)
(*                                                                         *)
(* NoImmortalRow is not inductive: that the key of a row which is gone     *)
(* never comes back, and that a row is never written again once its key    *)
(* has gone, need to be known of every handler that may still touch it.    *)
(***************************************************************************)
EXTENDS FlashSale_proof

(* The hypothesis: rows are added, removed and checked out but not edited, *)
(* keys live longer than the requests that arm them, nothing crashes, and  *)
(* the commands that may fail are those that leave a row with its key, or  *)
(* without either.  Any number of calls on one cart interleave.            *)
UneditedCarts ==
  /\ Op \subseteq {"add", "remove", "checkout"}
  /\ ~ShortTtl
  /\ MaxCrashes = 0
  /\ MaxRedisRestarts = 0
  /\ Faulty \cap {"reply", "delete", "clear", "empty", "notify", "expire"} = {}

(* Request c may have written the row of its id: it is past its save.      *)
Written(c) == req[c].pc \notin {"new", "save", "undo", "undoDrop"}

(* Handler r is to delete row c, whose key it has dropped. *)
DisposesOf(r, c) ==
  \/ req[r].pc = "delete" /\ req[r].id = c
  \/ req[r].pc \in {"clear", "empty"} /\ req[r].user = rows[c].user

(* What handler r is at, and what it works on. *)
AtHandler(r) ==
  /\ req[r].pc \notin {"reserve", "shrink", "survey", "refresh"}
  /\ req[r].op \in {None, "add", "remove", "checkout"}
  /\ req[r].pc = "new" => key[r] = None
  /\ req[r].pc = "save" => req[r].op = "add" /\ key[r] = r
  /\ req[r].pc \in {"save", "undo", "undoDrop"} => req[r].id = r
  /\ req[r].pc \in {"release", "drop", "delete"} => req[r].op = "remove"
  /\ req[r].pc \in {"drop", "delete"} => req[r].id \in Request /\ Written(req[r].id)
  /\ \A row \in req[r].todo : Written(row.id)

(* The key of a row is armed by the request that generated its id, and a  *)
(* row that is not written yet is not there.                              *)
OwnKeys == \A c \in Request : /\ key[c] \in {None, c}
                              /\ rows[c] # None => Written(c)

(* A key that has expired never comes back, nor does a row deleted then.  *)
Expired == \A h \in exp : /\ key[h.id] = None /\ Written(h.id)
                          /\ h.pc = "emit" => rows[h.id] = None

(* A row without a key is about to be deleted. *)
Mortal ==
  \A c \in Request : rows[c] # None /\ key[c] = None =>
    (\E r \in Request : DisposesOf(r, c)) \/ (\E h \in exp : h.id = c)

(* For every handler.                                                      *)
AtHandlers == \A r \in Request : AtHandler(r)

(* The inductive invariant.                                                *)
LifeInv ==
  Inv /\ Separated /\ AtHandlers /\ OwnKeys /\ Expired /\ Mortal /\ server = "up"

-----------------------------------------------------------------------------
(* What the steps have to show.                                            *)

(* What a step of handler r has to show for the invariant: its own part    *)
(* of it, that it touches no other key or row but to delete it, and that   *)
(* it looks after the rows that it leaves without a key.                   *)
LEMMA HandlerLife ==
  ASSUME LifeInv, Inv', Separated', Kept, NEW r \in Request, Others(r),
         exp' = exp, server' = server, AtHandler(r)', Written(r) => Written(r)',
         \A c \in Request : /\ Written(c) \/ c # r => rows'[c] \in {None, rows[c]}
                            /\ Written(c) \/ c # r => key'[c] \in {None, key[c]}
                            /\ ~Written(c) /\ c # r => key'[c] = key[c],
         key'[r] \in {None, r}, rows'[r] # None => Written(r)',
         \A c \in Request : rows'[c] # None /\ key'[c] = None =>
           DisposesOf(r, c)' \/ (rows'[c] = rows[c] /\ key[c] = None /\ ~DisposesOf(r, c))
  PROVE  LifeInv'
<1>1. \A c \in Request : Written(c) => Written(c)'
  BY DEF Others, Written
<1>2. AtHandlers'
  <2> SUFFICES ASSUME NEW s \in Request PROVE AtHandler(s)'
    BY DEF AtHandlers
  <2>1. CASE s = r
    BY <2>1
  <2>2. CASE s # r
    <3>1. req'[s] = req[s] /\ AtHandler(s)
      BY <2>2 DEF Others, LifeInv, AtHandlers
    <3>2. req[s].pc \in {"new", "save"} => key'[s] = key[s]
      BY <2>2 DEF Written
    <3>3. req[s] \in Locals
      BY DEF LifeInv, Inv, TypeOK
    <3>4. \A row \in req[s].todo : row.id \in Request
      BY <3>3 DEF Locals, CartRow
    <3> QED
      BY <1>1, <3>1, <3>2, <3>4 DEF AtHandler
  <2> QED
    BY <2>1, <2>2
<1>3. OwnKeys'
  BY <1>1 DEF LifeInv, OwnKeys
<1>4. Expired'
  <2> SUFFICES ASSUME NEW h \in exp
               PROVE  /\ key'[h.id] = None /\ Written(h.id)'
                      /\ h.pc = "emit" => rows'[h.id] = None
    BY DEF Expired
  <2>1. h.id \in Request /\ key[h.id] = None /\ Written(h.id)
    BY DEF LifeInv, Expired, Inv, TypeOK, ExpiryHandler
  <2> QED
    BY <1>1, <2>1 DEF LifeInv, Expired
<1>5. Mortal'
  <2> SUFFICES ASSUME NEW c \in Request, rows'[c] # None, key'[c] = None
               PROVE  (\E s \in Request : DisposesOf(s, c)') \/ (\E h \in exp' : h.id = c)
    BY DEF Mortal
  <2>1. CASE DisposesOf(r, c)'
    BY <2>1
  <2>2. CASE rows'[c] = rows[c] /\ key[c] = None /\ ~DisposesOf(r, c)
    <3>1. (\E s \in Request : DisposesOf(s, c)) \/ (\E h \in exp : h.id = c)
      BY <2>2 DEF LifeInv, Mortal
    <3>2. ASSUME NEW s \in Request, DisposesOf(s, c)
          PROVE  DisposesOf(s, c)'
      BY <2>2, <3>2 DEF DisposesOf, Others
    <3> QED
      BY <3>1, <3>2
  <2> QED
    BY <2>1, <2>2
<1> QED
  BY <1>2, <1>3, <1>4, <1>5 DEF LifeInv

(* The shape of most steps: neither keys nor rows change, and r disposes   *)
(* of no fewer rows.                                                       *)
LEMMA QuietLife ==
  ASSUME LifeInv, Inv', Separated', Kept, NEW r \in Request, Others(r),
         exp' = exp, server' = server, AtHandler(r)', Written(r) => Written(r)',
         UNCHANGED <<key, rows>>, ~Written(r) \/ key[r] \in {None, r},
         \A c \in Request : rows[c] # None /\ DisposesOf(r, c) => DisposesOf(r, c)'
  PROVE  LifeInv'
<1>1. key[r] \in {None, r} /\ (rows[r] # None => Written(r)')
  BY DEF LifeInv, OwnKeys
<1> QED
  BY <1>1, HandlerLife

(* It holds initially.                                                     *)
LEMMA LifeInit ==
  ASSUME Init
  PROVE  LifeInv
<1>1. /\ \A r \in Request : /\ req[r].pc = "new" /\ req[r].op = None /\ req[r].todo = {}
                            /\ key[r] = None /\ rows[r] = None
      /\ exp = {} /\ server = "up"
  BY DEF Init, RedisInit, Fresh
<1>2. AtHandlers /\ OwnKeys /\ Expired /\ Mortal
  BY <1>1 DEF AtHandlers, AtHandler, OwnKeys, Expired, Mortal
<1> QED
  BY <1>1, <1>2, InvInit, SeparatedInit DEF LifeInv

(* The calls keep it.                                                      *)
LEMMA CallLife ==
  ASSUME UneditedCarts, LifeInv, Inv', Separated', Kept, NEW r \in Request, Call(r)
  PROVE  LifeInv'
<1>0. AtHandler(r) /\ rows[r] \in CartRow \cup {None} /\ key \in [Request -> Request \cup {None}]
  BY DEF LifeInv, AtHandlers, Inv, TypeOK, RedisTypeOK
<1>1. ASSUME NEW u \in User, NEW i \in Item, NEW q \in Quantity, AddToCart(r, u, i, q)
      PROVE  LifeInv'
  <2>1. /\ rows' = rows /\ exp' = exp /\ server' = server
        /\ req[r].pc = "new" /\ key[r] = None /\ rows[r] = None
    BY <1>0, <1>1 DEF AddToCart, Arrives, mongoVars, serverVars, AtHandler, LifeInv, OwnKeys,
       Written
  <2>2. CASE Reserve(i, r, q, r)
             /\ Becomes(r, "save", "add", u, i, r, q, 0, {}, {}, stock[i] - q)
    <3>1. /\ Others(r) /\ req'[r].pc = "save" /\ req'[r].id = r /\ req'[r].op = "add"
          /\ req'[r].todo = {}
      BY <2>2 DEF Becomes, Others
    <3>2. key'[r] = r /\ \A c \in Request : c # r => key'[c] = key[c]
      BY <1>0, <2>2 DEF Reserve
    <3>3. AtHandler(r)'
      BY <3>1, <3>2 DEF AtHandler
    <3>4. ~Written(r) /\ \A c \in Request : ~DisposesOf(r, c)
      BY <2>1 DEF Written, DisposesOf
    <3>5. r # None
      BY NoneAssumption
    <3> QED
      BY <2>1, <3>1, <3>2, <3>3, <3>4, <3>5, HandlerLife
  <2>3. CASE UNCHANGED redisVars /\ Finishes(r, u, i)
    <3>1. /\ Others(r) /\ req'[r].pc = "done" /\ req'[r].op = None /\ req'[r].todo = {}
      BY <2>3 DEF Finishes, Becomes, Others
    <3>2. AtHandler(r)' /\ Written(r)' /\ ~Written(r) /\ \A c \in Request : ~DisposesOf(r, c)
      BY <2>1, <3>1 DEF AtHandler, Written, DisposesOf
    <3> QED
      BY <2>1, <2>3, <3>1, <3>2, QuietLife DEF redisVars
  <2> QED
    BY <1>1, <2>2, <2>3, AddToCartNow DEF LifeInv
<1>2. ASSUME NEW u \in User, NEW i \in Item, RemoveFromCart(r, u, i)
      PROVE  LifeInv'
  <2>1. /\ rows' = rows /\ exp' = exp /\ server' = server /\ key' = key /\ req[r].pc = "new"
    BY <1>2 DEF RemoveFromCart, Arrives, mongoVars, serverVars, redisVars
  <2>2. /\ Others(r) /\ req'[r].pc \in {"get", "release"} /\ req'[r].op = "remove"
        /\ req'[r].todo \subseteq FindInCart(u, i)
    BY <1>2, RemoveFromCartNow DEF Becomes, Others, LifeInv
  <2>3. \A row \in FindInCart(u, i) : Written(row.id) /\ row.id \in Request /\ row.id # r
    <3>1. \A row \in FindInCart(u, i) : \E c \in Request : rows[c] = row /\ rows[c] # None /\ row.id = c
      BY DEF FindInCart, FindByUser, LifeInv, Separated, RowsOwned
    <3> QED
      BY <2>1, <3>1 DEF LifeInv, OwnKeys, Written
  <2>4. AtHandler(r)' /\ Written(r)' /\ ~Written(r) /\ \A c \in Request : ~DisposesOf(r, c)
    BY <2>1, <2>2, <2>3 DEF AtHandler, Written, DisposesOf, Others
  <2> QED
    BY <2>1, <2>2, <2>4, QuietLife
<1>3. ASSUME NEW u \in User, Checkout(r, u)
      PROVE  LifeInv'
  <2>1. /\ rows' = rows /\ exp' = exp /\ server' = server /\ key' = key /\ req[r].pc = "new"
    BY <1>3 DEF Checkout, Arrives, mongoVars, serverVars, redisVars
  <2>2. /\ Others(r) /\ req'[r].pc = "order" /\ req'[r].op = "checkout"
        /\ req'[r].todo = FindByUser(u)
    BY <1>3, CheckoutNow DEF Becomes, Others, LifeInv
  <2>3. \A row \in FindByUser(u) : Written(row.id) /\ row.id \in Request /\ row.id # r
    <3>1. \A row \in FindByUser(u) : \E c \in Request : rows[c] = row /\ rows[c] # None /\ row.id = c
      BY DEF FindByUser, LifeInv, Separated, RowsOwned
    <3> QED
      BY <2>1, <3>1 DEF LifeInv, OwnKeys, Written
  <2>4. AtHandler(r)' /\ Written(r)' /\ ~Written(r) /\ \A c \in Request : ~DisposesOf(r, c)
    BY <2>1, <2>2, <2>3 DEF AtHandler, Written, DisposesOf, Others
  <2> QED
    BY <2>1, <2>2, <2>4, QuietLife
<1>4. \A u \in User, i \in Item, q \in Quantity : ~Increase(r, u, i, q) /\ ~Decrease(r, u, i, q)
  BY DEF UneditedCarts, Increase, Decrease, Arrives
<1> QED
  BY <1>1, <1>2, <1>3, <1>4 DEF Call

(* A handler that ends, or goes on to a GET or a broadcast, of which it    *)
(* needs to remember nothing.                                              *)
LEMMA EasyLife ==
  ASSUME LifeInv, Inv', Separated', Kept, NEW r \in Request, Others(r),
         exp' = exp, server' = server, UNCHANGED <<key, rows>>,
         req'[r].pc \in {"get", "emit", "done"}, req'[r].op \in {None, "add", "remove", "checkout"},
         req'[r].todo \subseteq req[r].todo,
         \A c \in Request : rows[c] # None => ~DisposesOf(r, c)
  PROVE  LifeInv'
<1>1. AtHandler(r) /\ req[r] \in Locals /\ (~Written(r) \/ key[r] \in {None, r})
  BY DEF LifeInv, AtHandlers, Inv, TypeOK, OwnKeys
<1>2. Written(r)' /\ \A c \in Request : Written(c) => Written(c)'
  BY DEF Written, Others
<1>3. AtHandler(r)'
  <2>1. \A row \in req'[r].todo : row.id \in Request /\ Written(row.id)'
    BY <1>1, <1>2 DEF AtHandler, Locals, CartRow
  <2> QED
    BY <2>1 DEF AtHandler
<1> QED
  BY <1>1, <1>2, <1>3, QuietLife

(* The handlers' steps keep it: only SaveRow creates a row, under a key    *)
(* that its request armed; every DEL of a key is followed by the deletion  *)
(* of the row.                                                             *)
LEMMA StepLife ==
  ASSUME UneditedCarts, LifeInv, Inv', Separated', Kept, NEW r \in Request, Step(r)
  PROVE  LifeInv'
<1>0. /\ AtHandler(r) /\ req[r] \in Locals /\ key \in [Request -> Request \cup {None}]
      /\ rows \in [Request -> CartRow \cup {None}] /\ key[r] \in {None, r}
      /\ rows[r] # None => Written(r)
  BY DEF LifeInv, AtHandlers, Inv, TypeOK, RedisTypeOK, OwnKeys
<1>1. ~IncreaseReserve(r) /\ ~ShrinkRow(r) /\ ~Survey(r) /\ ~RefreshKey(r)
      /\ ~SaveRowReplyLost(r)
  BY <1>0 DEF AtHandler, IncreaseReserve, ShrinkRow, Survey, RefreshKey, SaveRowReplyLost, At,
     UneditedCarts
<1>2. ASSUME SaveRow(r)
      PROVE  LifeInv'
  <2>1. /\ req[r].pc = "save" /\ exp' = exp /\ server' = server /\ key' = key
        /\ req[r].op = "add" /\ req[r].id = r /\ key[r] = r
    BY <1>0, <1>2 DEF SaveRow, At, serverVars, redisVars, AtHandler
  <2>2. /\ Others(r) /\ req'[r].pc = "emit" /\ req'[r].op = "add" /\ req'[r].todo = req[r].todo
    BY <1>2, <2>1, SaveRowNow DEF Becomes, Others, LifeInv, AfterSave
  <2>3. \A c \in Request : c # r => rows'[c] = rows[c]
    BY <1>0, <1>2, <2>1 DEF SaveRow, SaveCartItem, ReservedRow
  <2>4. ~Written(r) /\ Written(r)' /\ \A c \in Request : Written(c) => Written(c)'
    BY <2>1, <2>2 DEF Written, Others
  <2>5. AtHandler(r)'
    <3>1. \A row \in req'[r].todo : row.id \in Request /\ Written(row.id)'
      BY <1>0, <2>2, <2>4 DEF AtHandler, Locals, CartRow
    <3> QED
      BY <2>2, <3>1 DEF AtHandler
  <2>6. r # None /\ \A c \in Request : ~DisposesOf(r, c)
    BY <2>1, NoneAssumption DEF DisposesOf
  <2> QED
    BY <2>1, <2>2, <2>3, <2>4, <2>5, <2>6, HandlerLife
<1>3. ASSUME Undo(r)
      PROVE  LifeInv'
  <2>1. /\ req[r].pc = "undo" /\ exp' = exp /\ server' = server /\ key' = key /\ rows' = rows
    BY <1>3 DEF Undo, At, serverVars, mongoVars
  <2>2. /\ Others(r) /\ req'[r].pc = "undoDrop" /\ req'[r].op = req[r].op
        /\ req'[r].todo = req[r].todo /\ req'[r].id = req[r].id
    BY <1>3, UndoNow DEF Becomes, Others, LifeInv
  <2>3. ~Written(r) /\ (\A c \in Request : Written(c) => Written(c)')
        /\ \A c \in Request : ~DisposesOf(r, c)
    BY <2>1, <2>2 DEF Written, DisposesOf, Others
  <2>4. AtHandler(r)'
    <3>1. \A row \in req'[r].todo : row.id \in Request /\ Written(row.id)'
      BY <1>0, <2>2, <2>3 DEF AtHandler, Locals, CartRow
    <3> QED
      BY <1>0, <2>1, <2>2, <3>1 DEF AtHandler
  <2> QED
    BY <2>1, <2>2, <2>3, <2>4, QuietLife
<1>4. ASSUME UndoDrop(r)
      PROVE  LifeInv'
  <2>1. /\ req[r].pc = "undoDrop" /\ exp' = exp /\ server' = server /\ rows' = rows
        /\ req[r].id = r
    BY <1>0, <1>4 DEF UndoDrop, At, serverVars, mongoVars, AtHandler
  <2>2. /\ Others(r) /\ req'[r].pc = "get" /\ req'[r].op = req[r].op
        /\ req'[r].todo = req[r].todo
    BY <1>4, UndoDropNow DEF Becomes, Others, LifeInv
  <2>3. ~Written(r) /\ Written(r)' /\ rows[r] = None
        /\ (\A c \in Request : Written(c) => Written(c)')
        /\ \A c \in Request : ~DisposesOf(r, c)
    BY <1>0, <2>1, <2>2 DEF Written, DisposesOf, Others
  <2>4. AtHandler(r)'
    <3>1. \A row \in req'[r].todo : row.id \in Request /\ Written(row.id)'
      BY <1>0, <2>2, <2>3 DEF AtHandler, Locals, CartRow
    <3> QED
      BY <1>0, <2>1, <2>2, <3>1 DEF AtHandler
  <2>5. key'[r] = None /\ \A c \in Request : c # r => key'[c] = key[c]
    BY <1>0, <1>4, <2>1 DEF UndoDrop, Drop
  <2> QED
    BY <2>1, <2>2, <2>3, <2>4, <2>5, HandlerLife
<1>5. ASSUME ReleaseRow(r)
      PROVE  LifeInv'
  <2>1. /\ req[r].pc = "release" /\ exp' = exp /\ server' = server /\ key' = key /\ rows' = rows
        /\ req[r].op = "remove"
    BY <1>0, <1>5 DEF ReleaseRow, At, serverVars, mongoVars, AtHandler
  <2>2. /\ Others(r) /\ req'[r].pc = "drop" /\ req'[r].op = "remove"
        /\ \E row \in req[r].todo : req'[r].id = row.id /\ req'[r].todo \subseteq req[r].todo
    BY <1>5, <2>1, ReleaseRowNow DEF Becomes, Others, LifeInv, Whole
  <2>3. Written(r) /\ Written(r)' /\ (\A c \in Request : Written(c) => Written(c)')
        /\ \A c \in Request : ~DisposesOf(r, c)
    BY <2>1, <2>2 DEF Written, DisposesOf, Others
  <2>4. AtHandler(r)'
    <3>1. \A row \in req[r].todo : row.id \in Request /\ Written(row.id)'
      BY <1>0, <2>2, <2>3 DEF AtHandler, Locals, CartRow
    <3> QED
      BY <2>2, <3>1 DEF AtHandler
  <2> QED
    BY <1>0, <2>1, <2>2, <2>3, <2>4, QuietLife
<1>6. ASSUME DropKey(r)
      PROVE  LifeInv'
  <2>1. /\ req[r].pc = "drop" /\ exp' = exp /\ server' = server /\ rows' = rows
        /\ req[r].op = "remove" /\ req[r].id \in Request /\ Written(req[r].id)
    BY <1>0, <1>6 DEF DropKey, At, serverVars, mongoVars, AtHandler
  <2>2. /\ Others(r) /\ req'[r].pc = "delete" /\ req'[r].op = "remove"
        /\ req'[r].id = req[r].id /\ req'[r].todo = req[r].todo
    BY <1>6, <2>1, DropKeyNow DEF Becomes, Others, LifeInv
  <2>3. Written(r) /\ Written(r)' /\ (\A c \in Request : Written(c) => Written(c)')
        /\ \A c \in Request : ~DisposesOf(r, c)
    BY <2>1, <2>2 DEF Written, DisposesOf, Others
  <2>4. AtHandler(r)'
    <3>1. \A row \in req[r].todo : row.id \in Request /\ Written(row.id)'
      BY <1>0, <2>2, <2>3 DEF AtHandler, Locals, CartRow
    <3> QED
      BY <2>1, <2>2, <2>3, <3>1 DEF AtHandler
  <2>5. key'[req[r].id] = None /\ \A c \in Request : c # req[r].id => key'[c] = key[c]
    BY <1>0, <1>6, <2>1 DEF DropKey, Drop
  <2>6. DisposesOf(r, req[r].id)'
    BY <2>2 DEF DisposesOf
  <2> QED
    BY <1>0, <2>1, <2>2, <2>3, <2>4, <2>5, <2>6, HandlerLife
<1>7. ASSUME DeleteRow(r)
      PROVE  LifeInv'
  <2>1. /\ req[r].pc = "delete" /\ exp' = exp /\ server' = server /\ key' = key
        /\ req[r].op = "remove" /\ req[r].id \in Request
    BY <1>0, <1>7 DEF DeleteRow, At, serverVars, redisVars, AtHandler
  <2>2. /\ Others(r) /\ req'[r].pc \in {"release", "emit"} /\ req'[r].op = "remove"
        /\ req'[r].todo \subseteq req[r].todo
    BY <1>7, <2>1, DeleteRowNow DEF Becomes, Others, LifeInv
  <2>3. Written(r) /\ Written(r)' /\ (\A c \in Request : Written(c) => Written(c)')
        /\ \A c \in Request : c # req[r].id => ~DisposesOf(r, c)
    BY <2>1, <2>2 DEF Written, DisposesOf, Others
  <2>4. AtHandler(r)'
    <3>1. \A row \in req[r].todo : row.id \in Request /\ Written(row.id)'
      BY <1>0, <2>2, <2>3 DEF AtHandler, Locals, CartRow
    <3> QED
      BY <2>1, <2>2, <2>3, <3>1 DEF AtHandler
  <2>5. rows'[req[r].id] = None /\ \A c \in Request : c # req[r].id => rows'[c] = rows[c]
    BY <1>0, <1>7, <2>1 DEF DeleteRow, DeleteById
  <2> QED
    BY <1>0, <2>1, <2>2, <2>3, <2>4, <2>5, HandlerLife
<1>8. ASSUME SaveOrder(r)
      PROVE  LifeInv'
  <2>1. /\ req[r].pc = "order" /\ exp' = exp /\ server' = server /\ key' = key /\ rows' = rows
    BY <1>8 DEF SaveOrder, At, serverVars, redisVars
  <2>2. /\ Others(r) /\ req'[r].pc = "clear" /\ req'[r].op = req[r].op
        /\ req'[r].todo = req[r].todo
    BY <1>8, SaveOrderNow DEF Becomes, Others, LifeInv
  <2>3. Written(r) /\ Written(r)' /\ (\A c \in Request : Written(c) => Written(c)')
        /\ \A c \in Request : ~DisposesOf(r, c)
    BY <2>1, <2>2 DEF Written, DisposesOf, Others
  <2>4. AtHandler(r)'
    <3>1. \A row \in req[r].todo : row.id \in Request /\ Written(row.id)'
      BY <1>0, <2>2, <2>3 DEF AtHandler, Locals, CartRow
    <3> QED
      BY <1>0, <2>1, <2>2, <2>3, <3>1 DEF AtHandler
  <2> QED
    BY <1>0, <2>1, <2>2, <2>3, <2>4, QuietLife
<1>9. ASSUME ClearKey(r)
      PROVE  LifeInv'
  <2>1. /\ req[r].pc = "clear" /\ exp' = exp /\ server' = server /\ rows' = rows
    BY <1>9 DEF ClearKey, At, serverVars, mongoVars
  <2>2. PICK row \in req[r].todo :
          /\ Drop(row.id)
          /\ Becomes(r, IF req[r].todo = {row} THEN "empty" ELSE "clear", req[r].op,
                     req[r].user, req[r].item, req[r].id, req[r].arg, req[r].base,
                     req[r].todo \ {row}, req[r].items, req[r].rem)
    BY <1>9, ClearKeyNow DEF LifeInv
  <2>3. /\ Others(r) /\ req'[r].pc \in {"empty", "clear"} /\ req'[r].op = req[r].op
        /\ req'[r].user = req[r].user /\ req'[r].todo \subseteq req[r].todo
    BY <2>2 DEF Becomes, Others
  <2>4. Written(r) /\ Written(r)' /\ (\A c \in Request : Written(c) => Written(c)')
    BY <2>1, <2>3 DEF Written, Others
  <2>5. row.id \in Request /\ Written(row.id)
    BY <1>0 DEF AtHandler, Locals, CartRow
  <2>6. AtHandler(r)'
    <3>1. \A x \in req[r].todo : x.id \in Request /\ Written(x.id)'
      BY <1>0, <2>4 DEF AtHandler, Locals, CartRow
    <3> QED
      BY <1>0, <2>1, <2>3, <3>1 DEF AtHandler
  <2>7. key'[row.id] = None /\ \A c \in Request : c # row.id => key'[c] = key[c]
    BY <1>0, <2>2, <2>5 DEF Drop
  <2>8. rows[row.id] # None => rows[row.id].user = req[r].user
    BY <2>5 DEF LifeInv, Separated, AllLocalsOwned, LocalsOwned, RowsOwned, OwnedRow, Owns
  <2>9. \A c \in Request : DisposesOf(r, c) => DisposesOf(r, c)'
    BY <2>1, <2>3 DEF DisposesOf
  <2>10. rows[row.id] # None => DisposesOf(r, row.id)'
    BY <2>1, <2>3, <2>8 DEF DisposesOf
  <2> QED
    BY <1>0, <2>1, <2>3, <2>4, <2>5, <2>6, <2>7, <2>9, <2>10, HandlerLife
<1>10. ASSUME EmptyCart(r)
      PROVE  LifeInv'
  <2>1. /\ req[r].pc = "empty" /\ exp' = exp /\ server' = server /\ key' = key
    BY <1>10 DEF EmptyCart, At, serverVars, redisVars
  <2>2. /\ Others(r) /\ req'[r].pc = "get" /\ req'[r].op = req[r].op
        /\ req'[r].todo = req[r].todo
    BY <1>10, EmptyCartNow DEF Becomes, Others, LifeInv
  <2>3. Written(r) /\ Written(r)' /\ (\A c \in Request : Written(c) => Written(c)')
    BY <2>1, <2>2 DEF Written, Others
  <2>4. AtHandler(r)'
    <3>1. \A row \in req[r].todo : row.id \in Request /\ Written(row.id)'
      BY <1>0, <2>2, <2>3 DEF AtHandler, Locals, CartRow
    <3> QED
      BY <1>0, <2>2, <3>1 DEF AtHandler
  <2>5. \A c \in Request : /\ rows'[c] \in {None, rows[c]}
                           /\ rows'[c] # None => rows[c].user # req[r].user
    BY <1>10 DEF EmptyCart, DeleteByUser
  <2>6. \A c \in Request : rows'[c] # None => ~DisposesOf(r, c)
    BY <2>1, <2>5 DEF DisposesOf
  <2> QED
    BY <1>0, <2>1, <2>2, <2>3, <2>4, <2>5, <2>6, HandlerLife
<1>11. ASSUME GetRemaining(r) \/ Emit(r)
      PROVE  LifeInv'
  <2>1. /\ req[r].pc \in {"get", "emit"} /\ exp' = exp /\ server' = server
        /\ key' = key /\ rows' = rows
    BY <1>11 DEF GetRemaining, Emit, At, serverVars, mongoVars, redisVars
  <2>2. /\ Others(r) /\ req'[r].pc \in {"get", "emit", "done"}
        /\ req'[r].op \in {None, req[r].op} /\ req'[r].todo \subseteq req[r].todo
    <3>1. CASE GetRemaining(r)
      <4>1. req[r].op # "decrease"
        BY <1>0, EnvironmentAssumption DEF AtHandler, Operation
      <4> QED
        BY <3>1, <4>1, GetRemainingNow DEF Becomes, Others, LifeInv
    <3>2. CASE Emit(r)
      BY <3>2, EmitNow DEF Finishes, Becomes, Others, LifeInv
    <3> QED
      BY <1>11, <3>1, <3>2
  <2>3. \A c \in Request : ~DisposesOf(r, c)
    BY <2>1 DEF DisposesOf
  <2> QED
    BY <1>0, <2>1, <2>2, <2>3, EasyLife DEF AtHandler
<1>12. ASSUME CommandFails(r)
      PROVE  LifeInv'
  <2>1. /\ req[r].pc \notin {"delete", "clear", "empty"} /\ exp' = exp /\ server' = server
        /\ key' = key /\ rows' = rows
    BY <1>12 DEF CommandFails, FaultOf, UneditedCarts, serverVars, mongoVars, redisVars
  <2>2. \A c \in Request : ~DisposesOf(r, c)
    BY <2>1 DEF DisposesOf
  <2>3. CASE Finishes(r, req[r].user, ItemOfId(req[r]))
    <3>1. Others(r) /\ req'[r].pc = "done" /\ req'[r].op = None /\ req'[r].todo = {}
      BY <2>3 DEF Finishes, Becomes, Others
    <3> QED
      BY <2>1, <2>2, <3>1, EasyLife
  <2>4. CASE /\ req[r].pc = "save"
             /\ Becomes(r, "undo", "add", req[r].user, req[r].item, req[r].id, req[r].arg,
                        req[r].base, req[r].todo, req[r].items, req[r].rem)
    <3>1. /\ Others(r) /\ req'[r].pc = "undo" /\ req'[r].op = "add" /\ req'[r].id = req[r].id
          /\ req'[r].todo = req[r].todo
      BY <2>4 DEF Becomes, Others
    <3>2. ~Written(r) /\ (\A c \in Request : Written(c) => Written(c)')
      BY <2>4, <3>1 DEF Written, Others
    <3>3. AtHandler(r)'
      <4>1. \A row \in req'[r].todo : row.id \in Request /\ Written(row.id)'
        BY <1>0, <3>1, <3>2 DEF AtHandler, Locals, CartRow
      <4> QED
        BY <1>0, <2>4, <3>1, <4>1 DEF AtHandler
    <3> QED
      BY <2>1, <2>2, <3>1, <3>2, <3>3, QuietLife
  <2> QED
    BY <1>12, <2>3, <2>4, CommandFailsNow DEF LifeInv
<1> QED
  BY <1>1, <1>2, <1>3, <1>4, <1>5, <1>6, <1>7, <1>8, <1>9, <1>10, <1>11, <1>12 DEF Step

-----------------------------------------------------------------------------
(* The expiry, and the theorem.                                            *)

(* A key expires only once its request is done, and the handler it calls   *)
(* knows of the row.                                                       *)
LEMMA KeyExpiresLife ==
  ASSUME UneditedCarts, LifeInv, Inv', Separated', NEW c \in Request, KeyExpires(c)
  PROVE  LifeInv'
<1>1. /\ key[c] = c /\ ~InFlight(c) /\ Written(c)
  <2>1. key[c] # None /\ ~InFlight(key[c])
    BY DEF KeyExpires, MayExpire, UneditedCarts
  <2>2. key[c] = c /\ AtHandler(c)
    BY <2>1 DEF LifeInv, OwnKeys, AtHandlers
  <2> QED
    BY <2>1, <2>2 DEF InFlight, AtHandler, Written
<1>2. /\ req' = req /\ rows' = rows /\ server' = server
      /\ key'[c] = None /\ \A d \in Request : d # c => key'[d] = key[d]
  BY DEF KeyExpires, TtlPasses, Drop, mongoVars, serverVars, LifeInv, Inv, TypeOK, RedisTypeOK
<1>3. PICK h : h.id = c /\ h.pc = "find" /\ exp' = exp \cup {h}
  <2>1. "notify" \notin Faulty /\ Subscribed
    BY DEF UneditedCarts, LifeInv, Subscribed
  <2>2. exp' = exp \cup {[id |-> c, by |-> key[c], pc |-> "find", row |-> None, rem |-> 0]}
    BY <2>1 DEF KeyExpires
  <2> QED
    BY <2>2
<1>4. \A d : Written(d)' = Written(d)
  BY <1>2 DEF Written
<1>5. AtHandlers'
  BY <1>1, <1>2, <1>4 DEF LifeInv, AtHandlers, AtHandler, Written
<1>6. OwnKeys'
  BY <1>2, <1>4 DEF LifeInv, OwnKeys
<1>7. Expired'
  <2> SUFFICES ASSUME NEW g \in exp'
               PROVE  /\ key'[g.id] = None /\ Written(g.id)'
                      /\ g.pc = "emit" => rows'[g.id] = None
    BY DEF Expired
  <2>1. CASE g = h
    BY <1>1, <1>2, <1>3, <1>4, <2>1
  <2>2. CASE g \in exp
    <3>1. g.id \in Request
      BY <2>2 DEF LifeInv, Inv, TypeOK, ExpiryHandler
    <3> QED
      BY <1>2, <1>4, <2>2, <3>1 DEF LifeInv, Expired
  <2> QED
    BY <1>3, <2>1, <2>2
<1>8. Mortal'
  <2> SUFFICES ASSUME NEW d \in Request, rows'[d] # None, key'[d] = None
               PROVE  (\E r \in Request : DisposesOf(r, d)') \/ (\E g \in exp' : g.id = d)
    BY DEF Mortal
  <2>1. CASE d = c
    BY <1>3, <2>1
  <2>2. CASE d # c
    <3>1. (\E r \in Request : DisposesOf(r, d)) \/ (\E g \in exp : g.id = d)
      BY <1>2, <2>2 DEF LifeInv, Mortal
    <3> QED
      BY <1>2, <1>3, <3>1 DEF DisposesOf
  <2> QED
    BY <2>1, <2>2
<1> QED
  BY <1>2, <1>5, <1>6, <1>7, <1>8 DEF LifeInv

(* A step of the handler h of an expired key, which it ends or leaves as m. *)
LEMMA ExpiryLife ==
  ASSUME LifeInv, Inv', Separated', NEW h \in exp, NEW m, m.id = h.id,
         req' = req, key' = key, server' = server,
         \A c \in Request : rows'[c] = rows[c] \/ (c = h.id /\ rows'[c] = None),
         exp' = (exp \ {h}) \cup {m} \/ (exp' = exp \ {h} /\ rows'[h.id] = None),
         m.pc = "emit" => rows'[h.id] = None
  PROVE  LifeInv'
<1>1. \A d : Written(d)' = Written(d)
  BY DEF Written
<1>2. AtHandlers' /\ OwnKeys'
  BY <1>1 DEF LifeInv, AtHandlers, AtHandler, OwnKeys
<1>3. Expired'
  <2> SUFFICES ASSUME NEW g \in exp'
               PROVE  /\ key'[g.id] = None /\ Written(g.id)'
                      /\ g.pc = "emit" => rows'[g.id] = None
    BY DEF Expired
  <2>1. \A f \in exp : f.id \in Request
    BY DEF LifeInv, Inv, TypeOK, ExpiryHandler
  <2> QED
    BY <1>1, <2>1 DEF LifeInv, Expired
<1>4. Mortal'
  <2> SUFFICES ASSUME NEW c \in Request, rows'[c] # None, key'[c] = None
               PROVE  (\E r \in Request : DisposesOf(r, c)') \/ (\E g \in exp' : g.id = c)
    BY DEF Mortal
  <2>1. rows'[c] = rows[c]
    OBVIOUS
  <2>2. (\E r \in Request : DisposesOf(r, c)) \/ (\E g \in exp : g.id = c)
    BY <2>1 DEF LifeInv, Mortal
  <2>3. \A r \in Request : DisposesOf(r, c) => DisposesOf(r, c)'
    BY <2>1 DEF DisposesOf
  <2>4. (\E g \in exp : g.id = c) => \E g \in exp' : g.id = c
    OBVIOUS
  <2> QED
    BY <2>2, <2>3, <2>4
<1> QED
  BY <1>2, <1>3, <1>4 DEF LifeInv

(* The handler of an expired key ends only when the row is gone.           *)
LEMMA ExpireStepLife ==
  ASSUME UneditedCarts, LifeInv, Inv', Separated', NEW h \in exp, ExpireStep(h)
  PROVE  LifeInv'
<1>1. /\ h \in ExpiryHandler /\ h.id \in Request /\ rows \in [Request -> CartRow \cup {None}]
      /\ h.pc = "emit" => rows[h.id] = None
  BY DEF LifeInv, Inv, TypeOK, ExpiryHandler, Expired
<1>2. ~ExpireFails(h)
  BY DEF UneditedCarts, ExpireFails
<1>3. ASSUME ExpireFind(h) PROVE LifeInv'
  <2>1. req' = req /\ key' = key /\ server' = server /\ rows' = rows
    BY <1>3 DEF ExpireFind, redisVars, mongoVars, serverVars
  <2>2. CASE rows[h.id] = None
    BY <1>1, <1>3, <2>1, <2>2, ExpiryLife DEF ExpireFind
  <2>3. CASE rows[h.id] # None
    <3>1. PICK m : m.id = h.id /\ m.pc = "release" /\ exp' = (exp \ {h}) \cup {m}
      <4> DEFINE m == [h EXCEPT !.pc = "release", !.row = rows[h.id]]
      <4>1. m.id = h.id /\ m.pc = "release"
        BY <1>1 DEF ExpiryHandler
      <4>2. exp' = (exp \ {h}) \cup {m}
        BY <1>3, <2>3 DEF ExpireFind, Advance
      <4> QED
        BY <4>1, <4>2
    <3> QED
      BY <2>1, <3>1, ExpiryLife
  <2> QED
    BY <2>2, <2>3
<1>4. ASSUME ExpireRelease(h) PROVE LifeInv'
  <2>1. req' = req /\ key' = key /\ server' = server /\ rows' = rows
    BY <1>4 DEF ExpireRelease, mongoVars, serverVars
  <2>2. PICK m : m.id = h.id /\ m.pc = "delete" /\ exp' = (exp \ {h}) \cup {m}
    <3> DEFINE n == stock[h.row.item] + h.row.qty
    <3> DEFINE m == [h EXCEPT !.pc = "delete", !.rem = n]
    <3>1. m.id = h.id /\ m.pc = "delete"
      BY <1>1 DEF ExpiryHandler
    <3>2. exp' = (exp \ {h}) \cup {m}
      BY <1>4 DEF ExpireRelease, Advance
    <3> QED
      BY <3>1, <3>2
  <2> QED
    BY <2>1, <2>2, ExpiryLife
<1>5. ASSUME ExpireDelete(h) PROVE LifeInv'
  <2>1. /\ req' = req /\ key' = key /\ server' = server
        /\ rows'[h.id] = None /\ \A c \in Request : c # h.id => rows'[c] = rows[c]
    BY <1>1, <1>5 DEF ExpireDelete, DeleteById, redisVars, serverVars
  <2>2. PICK m : m.id = h.id /\ exp' = (exp \ {h}) \cup {m}
    <3> DEFINE m == [h EXCEPT !.pc = "emit"]
    <3>1. m.id = h.id
      BY <1>1 DEF ExpiryHandler
    <3>2. exp' = (exp \ {h}) \cup {m}
      BY <1>5 DEF ExpireDelete, Advance
    <3> QED
      BY <3>1, <3>2
  <2> QED
    BY <2>1, <2>2, ExpiryLife
<1>6. ASSUME ExpireEmit(h) PROVE LifeInv'
  <2>1. /\ req' = req /\ key' = key /\ server' = server /\ rows' = rows /\ exp' = exp \ {h}
        /\ rows[h.id] = None
    BY <1>1, <1>6 DEF ExpireEmit, redisVars, mongoVars, serverVars
  <2> QED
    BY <2>1, ExpiryLife
<1> QED
  BY <1>2, <1>3, <1>4, <1>5, <1>6 DEF ExpireStep

(* No crash, boot or restart happens.                                      *)
LEMMA NoCrashes ==
  ASSUME UneditedCarts, LifeInv
  PROVE  ~Crash /\ ~Boot /\ ~RedisByItself
BY DEF UneditedCarts, LifeInv, Inv, TypeOK, RedisTypeOK, Crash, Boot, LoadScript, SeedStock,
   Subscribe, RedisByItself, SnapshotRedis, RedisSaves, RestartRedis, RedisRestarts

(* Every step keeps the invariant.                                         *)
LEMMA LifeNext ==
  ASSUME UneditedCarts, LifeInv, [Next]_vars
  PROVE  LifeInv'
<1>1. Inv' /\ Separated' /\ Kept
  BY InvNext, SeparatedNext, NextKept DEF LifeInv, Separated
<1>2. CASE UNCHANGED vars
  BY <1>1, <1>2 DEF vars, LifeInv, AtHandlers, AtHandler, OwnKeys, Expired, Mortal, DisposesOf,
     Written
<1>3. ASSUME NEW r \in Request, Call(r) \/ Step(r) \/ KeyExpires(r)
      PROVE  LifeInv'
  BY <1>1, <1>3, CallLife, StepLife, KeyExpiresLife
<1>4. ASSUME NEW h \in exp, ExpireStep(h)
      PROVE  LifeInv'
  BY <1>1, <1>4, ExpireStepLife
<1> QED
  BY <1>2, <1>3, <1>4, NoCrashes DEF Next

(* However any number of additions, removals and checkouts of the same     *)
(* carts interleave with each other and with the expiry of keys, and fail, *)
(* no cart row is left without a reservation key and without a handler     *)
(* about to delete it: the abandoned ones return.                          *)
THEOREM NoRowOutlivesItsKey == UneditedCarts /\ Spec => []NoImmortalRow
<1> SUFFICES ASSUME UneditedCarts PROVE Spec => []NoImmortalRow
  OBVIOUS
<1>1. Init => LifeInv
  BY LifeInit
<1>2. LifeInv /\ [Next]_vars => LifeInv'
  BY LifeNext
<1>3. LifeInv => NoImmortalRow
  BY DEF LifeInv, Mortal, DisposesOf, NoImmortalRow, Disposing
<1> QED
  BY <1>1, <1>2, <1>3, PTL DEF Spec

=============================================================================

-------------------------- MODULE FlashSale_proof ---------------------------
(***************************************************************************)
(* Theorems about FlashSale, for every set of requests, users and items,   *)
(* every stock, and every setting of the environment's constants.          *)
(***************************************************************************)
EXTENDS FlashSale, FiniteSetTheorems, TLAPS

-----------------------------------------------------------------------------
(* The number of units in cart rows is a number: finitely many requests    *)
(* have generated finitely many rows.                                      *)

(* The range of a function on a finite set is finite. *)
LEMMA FiniteRange ==
  ASSUME NEW S, IsFiniteSet(S), NEW T, NEW f \in [S -> T],
         \A y \in T : \E x \in S : f[x] = y
  PROVE  IsFiniteSet(T)
<1>1. f \in Surjection(S, T)
  BY DEF Surjection
<1> QED
  BY <1>1, FS_Surjection

(* QtyOf a finite set of cart rows is a natural number. *)
LEMMA QtyOfType ==
  ASSUME NEW R \in SUBSET CartRow, IsFiniteSet(R)
  PROVE  QtyOf(R) \in Nat
<1> DEFINE f == [row \in R |-> {row.id} \X (1 .. row.qty)]
           U == {f[row] : row \in R}
<1>1. IsFiniteSet(U)
  <2>1. f \in [R -> U]
    OBVIOUS
  <2>2. \A y \in U : \E x \in R : f[x] = y
    OBVIOUS
  <2> HIDE DEF f, U
  <2> QED
    BY <2>1, <2>2, FiniteRange
<1>2. ASSUME NEW X \in U
      PROVE  IsFiniteSet(X)
  <2>1. PICK row \in R : X = {row.id} \X (1 .. row.qty)
    OBVIOUS
  <2>2. row.qty \in Int
    BY DEF CartRow
  <2>3. IsFiniteSet(1 .. row.qty)
    BY <2>2, FS_Interval
  <2>4. IsFiniteSet({row.id})
    BY FS_Singleton
  <2> QED
    BY <2>1, <2>3, <2>4, FS_Product
<1>3. UnitsOf(R) = UNION U
  BY DEF UnitsOf
<1>4. IsFiniteSet(UnitsOf(R))
  BY <1>1, <1>2, <1>3, FS_UNION
<1> QED
  BY <1>4, FS_CardinalityType DEF QtyOf

(* What the seed subtracts is a natural number for every item. *)
LEMMA AggregateType ==
  ASSUME rows \in [Request -> CartRow \cup {None}]
  PROVE  aggregateReservedQuantities \in [Item -> Nat]
<1> SUFFICES ASSUME NEW i \in Item
             PROVE  QtyOf(RowsOfItem(i)) \in Nat
  BY DEF aggregateReservedQuantities
<1>1. RowsOfItem(i) \in SUBSET CartRow
  BY DEF RowsOfItem
<1> DEFINE T == {rows[c] : c \in Request}
<1>2. IsFiniteSet(T)
  <2>1. rows \in [Request -> T] /\ \A y \in T : \E c \in Request : rows[c] = y
    OBVIOUS
  <2> HIDE DEF T
  <2> QED
    BY <2>1, FiniteRange, EnvironmentAssumption
<1>3. RowsOfItem(i) \in SUBSET T
  BY DEF RowsOfItem
<1>4. IsFiniteSet(RowsOfItem(i))
  BY <1>2, <1>3, FS_Subset
<1> QED
  BY <1>1, <1>4, QtyOfType
-----------------------------------------------------------------------------
(* The types, and what a handler's locals are known to be at each await.   *)

(* A handler about to write a row knows its user, its item and its id; it  *)
(* writes more than zero units, and gives back fewer than a row has when   *)
(* that row survives.                                                      *)
LocalsOK ==
  \A r \in Request :
    /\ req[r].pc \in {"reserve", "save", "release", "drop", "delete",
                     "shrink", "undo", "undoDrop"}
         => req[r].item \in Item
    /\ req[r].pc \in {"reserve", "save", "release", "drop", "delete", "shrink"}
         => req[r].user \in User
    /\ req[r].pc \in {"reserve", "save", "shrink"} => req[r].id \in Request
    /\ req[r].pc \in {"reserve", "save"} => req[r].arg > 0
    /\ req[r].pc = "shrink" => req[r].arg < req[r].base

(* An expiry handler that has found its row keeps it. *)
HandlersOK == \A h \in exp : h.pc # "find" => h.row \in CartRow

Inv == TypeOK /\ LocalsOK /\ HandlersOK

(* Rows read for a cart are rows. *)
LEMMA FindByUserType ==
  ASSUME rows \in [Request -> CartRow \cup {None}]
  PROVE  \A u, i : FindByUser(u) \in SUBSET CartRow /\ FindInCart(u, i) \in SUBSET CartRow
BY DEF FindByUser, FindInCart

(* Fresh locals, and those of a finished request, are locals. *)
LEMMA FreshType == Fresh \in Locals
BY DEF Fresh, Locals, Pc, Operation

(* Locals stay locals when one field takes a value of its type. *)
LEMMA LocalsUpdate ==
  \A l \in Locals :
    /\ \A x \in Pc : [l EXCEPT !.pc = x] \in Locals
    /\ \A x \in Operation : [l EXCEPT !.op = x] \in Locals
    /\ \A x \in User \cup {None} : [l EXCEPT !.user = x] \in Locals
    /\ \A x \in Item \cup {None} : [l EXCEPT !.item = x] \in Locals
    /\ \A x \in Request \cup {None} : [l EXCEPT !.id = x] \in Locals
    /\ \A x \in Nat : [l EXCEPT !.arg = x] \in Locals
    /\ \A x \in Nat : [l EXCEPT !.base = x] \in Locals
    /\ \A x \in SUBSET CartRow : [l EXCEPT !.todo = x] \in Locals
    /\ \A x \in SUBSET Item : [l EXCEPT !.items = x] \in Locals
    /\ \A x \in Int : [l EXCEPT !.rem = x] \in Locals
BY DEF Locals

LEMMA FinishedType ==
  ASSUME NEW l \in Locals
  PROVE  Finished(l) \in Locals /\ Finished(l).pc = "done"
<1>1. l.user \in User \cup {None} /\ ItemOfId(l) \in Item \cup {None}
  BY DEF Locals, ItemOfId
<1>2. Finished(l) \in Locals
  BY <1>1, FreshType, LocalsUpdate DEF Finished, Pc
<1>3. Finished(l).pc = "done"
  BY DEF Finished, Fresh
<1> QED
  BY <1>2, <1>3

LEMMA InvInit == Init => Inv
<1> SUFFICES ASSUME Init PROVE Inv
  OBVIOUS
<1>1. TypeOK
  BY FreshType, TotalStockAssumption DEF Init, TypeOK, RedisInit, RedisTypeOK, Nothing
<1> QED
  BY <1>1 DEF Inv, Init, LocalsOK, HandlersOK, Fresh

(* Locals of one request change to well-typed ones: the rest stay as they were. *)
LEMMA BecomeType ==
  ASSUME req \in [Request -> Locals], LocalsOK,
         NEW r \in Request, NEW l \in Locals, Become(r, l),
         l.pc \in {"reserve", "save", "release", "drop", "delete",
                   "shrink", "undo", "undoDrop"}
           => l.item \in Item,
         l.pc \in {"reserve", "save", "release", "drop", "delete", "shrink"}
           => l.user \in User,
         l.pc \in {"reserve", "save", "shrink"} => l.id \in Request,
         l.pc \in {"reserve", "save"} => l.arg > 0,
         l.pc = "shrink" => l.arg < l.base
  PROVE  req' \in [Request -> Locals] /\ LocalsOK'
BY DEF Become, LocalsOK

-----------------------------------------------------------------------------
(* Every action preserves Inv.                                             *)

(* The reserve leaves a handler that is about to save, or a finished one. *)
LEMMA ReserveForType ==
  ASSUME TypeOK, LocalsOK, NEW r \in Request, NEW l \in Locals,
         l.item \in Item, l.user \in User, l.id \in Request, l.arg > 0,
         ReserveFor(r, l)
  PROVE  RedisTypeOK' /\ req' \in [Request -> Locals] /\ LocalsOK'
<1>1. l.arg \in Nat /\ RedisTypeOK /\ req \in [Request -> Locals]
      /\ stock \in [Item -> Int]
  BY DEF Locals, TypeOK, RedisTypeOK
<1>2. CASE Reserve(l.item, l.id, l.arg, r)
           /\ Become(r, [l EXCEPT !.pc = "save", !.rem = stock[l.item] - l.arg])
  <2> DEFINE m == [l EXCEPT !.pc = "save", !.rem = stock[l.item] - l.arg]
  <2>0. stock[l.item] - l.arg \in Int
    BY <1>1
  <2>1. m \in Locals
    BY <2>0, LocalsUpdate DEF Pc
  <2>2. m.pc = "save" /\ m.item = l.item /\ m.user = l.user /\ m.id = l.id
        /\ m.arg = l.arg
    BY DEF Locals
  <2>3. RedisTypeOK'
    BY <1>1, <1>2 DEF Reserve, RedisTypeOK, redisLife
  <2> HIDE DEF m
  <2>4. Become(r, m)
    BY <1>2 DEF m
  <2> QED
    BY <1>1, <2>1, <2>2, <2>3, <2>4, BecomeType
<1>3. CASE Become(r, Finished(l)) /\ UNCHANGED redisVars
  <2>1. RedisTypeOK'
    BY <1>1, <1>3 DEF redisVars, RedisTypeOK
  <2> QED
    BY <1>1, <1>3, <2>1, FinishedType, BecomeType
<1> QED
  BY <1>2, <1>3 DEF ReserveFor

(* AddToCart. *)
LEMMA AddToCartInv ==
  ASSUME Inv, NEW r \in Request, NEW u \in User, NEW i \in Item, NEW q \in Quantity,
         AddToCart(r, u, i, q)
  PROVE  Inv'
<1> DEFINE l == [Fresh EXCEPT !.op = "add", !.user = u, !.item = i, !.id = r, !.arg = q]
<1>1. q \in Nat /\ q > 0
  BY EnvironmentAssumption
<1>2. l \in Locals
  BY <1>1, FreshType, LocalsUpdate DEF Operation
<1>3. l.item = i /\ l.user = u /\ l.id = r /\ l.arg = q
  BY DEF Fresh
<1>4. ReserveFor(r, l)
  BY DEF AddToCart
<1> HIDE DEF l
<1>5. RedisTypeOK' /\ req' \in [Request -> Locals] /\ LocalsOK'
  BY <1>1, <1>2, <1>3, <1>4, ReserveForType DEF Inv
<1> QED
  BY <1>5 DEF Inv, TypeOK, HandlersOK, AddToCart, mongoVars, serverVars

(* The start of an increase. *)
LEMMA IncreaseInv ==
  ASSUME Inv, NEW r \in Request, NEW u \in User, NEW i \in Item, NEW q \in Quantity,
         Increase(r, u, i, q)
  PROVE  Inv'
<1> DEFINE l == [Fresh EXCEPT !.pc = "reserve", !.op = "increase", !.user = u,
                              !.item = i, !.arg = q]
<1>1. q \in Nat /\ q > 0
  BY EnvironmentAssumption
<1>2. l \in Locals
  BY <1>1, FreshType, LocalsUpdate DEF Operation, Pc
<1>3. l.pc = "reserve" /\ l.item = i /\ l.user = u /\ l.arg = q
  BY DEF Fresh
<1>4. req \in [Request -> Locals] /\ LocalsOK
  BY DEF Inv, TypeOK
<1>5. req' \in [Request -> Locals] /\ LocalsOK'
  <2>1. CASE Become(r, [l EXCEPT !.id = r])
    <3> DEFINE m == [l EXCEPT !.id = r]
    <3>1. m \in Locals
      BY <1>2, LocalsUpdate
    <3>2. m.pc = "reserve" /\ m.item = i /\ m.user = u /\ m.id = r /\ m.arg = q
      BY <1>2, <1>3 DEF Locals
    <3>3. Become(r, m)
      BY <2>1
    <3> HIDE DEF m
    <3> QED
      BY <1>1, <1>4, <3>1, <3>2, <3>3, BecomeType
  <2>2. ASSUME NEW row \in FindInCart(u, i),
               Become(r, [l EXCEPT !.id = row.id, !.base = row.qty])
        PROVE  req' \in [Request -> Locals] /\ LocalsOK'
    <3> DEFINE m == [l EXCEPT !.id = row.id, !.base = row.qty]
    <3>0. row \in CartRow
      BY FindByUserType DEF Inv, TypeOK
    <3>1. row.id \in Request /\ row.qty \in Nat
      BY <3>0 DEF CartRow
    <3>2. m \in Locals
      BY <1>2, <3>1, LocalsUpdate
    <3>3. m.pc = "reserve" /\ m.item = i /\ m.user = u /\ m.id = row.id /\ m.arg = q
      BY <1>2, <1>3 DEF Locals
    <3>4. Become(r, m)
      BY <2>2
    <3> HIDE DEF m
    <3> QED
      BY <1>1, <1>4, <3>1, <3>2, <3>3, <3>4, BecomeType
  <2> HIDE DEF l
  <2> QED
    BY <2>1, <2>2 DEF Increase, l
<1> QED
  BY <1>5 DEF Inv, TypeOK, RedisTypeOK, HandlersOK, Increase, redisVars, mongoVars, serverVars

LEMMA IncreaseReserveInv ==
  ASSUME Inv, NEW r \in Request, IncreaseReserve(r)
  PROVE  Inv'
<1>1. req[r] \in Locals
  BY DEF Inv, TypeOK
<1>2. req[r].item \in Item /\ req[r].user \in User /\ req[r].id \in Request
      /\ req[r].arg > 0
  BY DEF Inv, LocalsOK, IncreaseReserve, At
<1>3. RedisTypeOK' /\ req' \in [Request -> Locals] /\ LocalsOK'
  BY <1>1, <1>2, ReserveForType DEF IncreaseReserve, Inv
<1> QED
  BY <1>3 DEF Inv, TypeOK, HandlersOK, IncreaseReserve, mongoVars, serverVars

(* The row an add or an increase writes is a row of at least one unit. *)
LEMMA ReservedRowType ==
  ASSUME Inv, NEW r \in Request, req[r].pc = "save"
  PROVE  ReservedRow(req[r]) \in CartRow
<1>1. req[r] \in Locals
  BY DEF Inv, TypeOK
<1>2. /\ req[r].item \in Item /\ req[r].user \in User
      /\ req[r].id \in Request /\ req[r].arg > 0
  BY DEF Inv, LocalsOK
<1>3. req[r].base + req[r].arg \in Nat \ {0}
  BY <1>1, <1>2 DEF Locals
<1> QED
  BY <1>2, <1>3 DEF ReservedRow, CartRow

LEMMA SaveCartItemType ==
  ASSUME rows \in [Request -> CartRow \cup {None}],
         NEW row \in CartRow, SaveCartItem(row)
  PROVE  rows' \in [Request -> CartRow \cup {None}]
BY DEF SaveCartItem

LEMMA SaveRowInv ==
  ASSUME Inv, NEW r \in Request, SaveRow(r)
  PROVE  Inv'
<1> DEFINE m == [req[r] EXCEPT !.pc = AfterSave(req[r]), !.id = None, !.arg = 0, !.base = 0]
<1>1. req[r] \in Locals /\ req \in [Request -> Locals] /\ LocalsOK
  BY DEF Inv, TypeOK
<1>2. AfterSave(req[r]) \in {"emit", "survey"}
  BY DEF AfterSave
<1>3. m \in Locals
  BY <1>1, <1>2, LocalsUpdate DEF Pc
<1>4. m.pc \in {"emit", "survey"}
  BY <1>1, <1>2 DEF Locals
<1>5. Become(r, m)
  BY DEF SaveRow
<1> HIDE DEF m
<1>6. req' \in [Request -> Locals] /\ LocalsOK'
  BY <1>1, <1>3, <1>4, <1>5, BecomeType
<1>7. rows' \in [Request -> CartRow \cup {None}]
  BY ReservedRowType, SaveCartItemType DEF SaveRow, At, Inv, TypeOK
<1> QED
  BY <1>6, <1>7 DEF Inv, TypeOK, RedisTypeOK, HandlersOK, SaveRow, redisVars, serverVars

(* After a failed save the handler rolls back or is finished. *)
LEMMA AfterFailedSaveType ==
  ASSUME Inv, NEW r \in Request, req[r].pc = "save", Become(r, AfterFailedSave(req[r]))
  PROVE  req' \in [Request -> Locals] /\ LocalsOK'
<1>1. req[r] \in Locals /\ req \in [Request -> Locals] /\ LocalsOK /\ req[r].item \in Item
  BY DEF Inv, TypeOK, LocalsOK
<1>2. CASE req[r].op = "add"
  <2> DEFINE m == [req[r] EXCEPT !.pc = "undo"]
  <2>1. m \in Locals
    BY <1>1, LocalsUpdate DEF Pc
  <2>2. m.pc = "undo" /\ m.item = req[r].item
    BY <1>1 DEF Locals
  <2>3. Become(r, m)
    BY <1>2 DEF AfterFailedSave
  <2> HIDE DEF m
  <2> QED
    BY <1>1, <2>1, <2>2, <2>3, BecomeType
<1>3. CASE req[r].op # "add"
  <2>1. Become(r, Finished(req[r]))
    BY <1>3 DEF AfterFailedSave
  <2> QED
    BY <1>1, <2>1, FinishedType, BecomeType
<1> QED
  BY <1>2, <1>3

LEMMA SaveRowReplyLostInv ==
  ASSUME Inv, NEW r \in Request, SaveRowReplyLost(r)
  PROVE  Inv'
<1>1. req' \in [Request -> Locals] /\ LocalsOK'
  BY AfterFailedSaveType DEF SaveRowReplyLost, At
<1>2. rows' \in [Request -> CartRow \cup {None}]
  BY ReservedRowType, SaveCartItemType DEF SaveRowReplyLost, At, Inv, TypeOK
<1> QED
  BY <1>1, <1>2 DEF Inv, TypeOK, RedisTypeOK, HandlersOK, SaveRowReplyLost, redisVars, serverVars

(* The counters and the keys keep their types under every Redis command. *)
LEMMA RedisType ==
  ASSUME RedisTypeOK
  PROVE  /\ \A i, q : q \in Int /\ Release(i, q) => stock' \in [Item -> Int]
         /\ \A c : Drop(c) => key' \in [Request -> Request \cup {None}]
         /\ \A c : \A r \in Request :
              Refresh(c, r) => key' \in [Request -> Request \cup {None}]
         /\ UNCHANGED stock => stock' \in [Item -> Int]
         /\ UNCHANGED key => key' \in [Request -> Request \cup {None}]
         /\ UNCHANGED redisVars => RedisTypeOK'
BY DEF RedisTypeOK, Release, Drop, Refresh, redisVars

LEMMA UndoInv ==
  ASSUME Inv, NEW r \in Request, Undo(r)
  PROVE  Inv'
<1> DEFINE m == [req[r] EXCEPT !.pc = "undoDrop"]
<1>1. /\ req[r] \in Locals /\ req \in [Request -> Locals] /\ LocalsOK
      /\ req[r].item \in Item /\ RedisTypeOK
  BY DEF Inv, TypeOK, LocalsOK, Undo, At
<1>2. m \in Locals
  BY <1>1, LocalsUpdate DEF Pc
<1>3. m.pc = "undoDrop" /\ m.item = req[r].item
  BY <1>1 DEF Locals
<1>4. Become(r, m)
  BY DEF Undo, Goto
<1> HIDE DEF m
<1>5. req' \in [Request -> Locals] /\ LocalsOK'
  BY <1>1, <1>2, <1>3, <1>4, BecomeType
<1>6. req[r].arg \in Int
  BY <1>1 DEF Locals
<1>7. RedisTypeOK'
  BY <1>1, <1>6, RedisType DEF Undo, RedisTypeOK, redisLife
<1> QED
  BY <1>5, <1>7 DEF Inv, TypeOK, HandlersOK, Undo, mongoVars, serverVars

LEMMA UndoDropInv ==
  ASSUME Inv, NEW r \in Request, UndoDrop(r)
  PROVE  Inv'
<1> DEFINE m == [req[r] EXCEPT !.pc = "get", !.items = {req[r].item}]
<1>1. /\ req[r] \in Locals /\ req \in [Request -> Locals] /\ LocalsOK
      /\ req[r].item \in Item /\ RedisTypeOK
  BY DEF Inv, TypeOK, LocalsOK, UndoDrop, At
<1>2. m \in Locals
  <2>1. {req[r].item} \in SUBSET Item
    BY <1>1
  <2> QED
    BY <1>1, <2>1, LocalsUpdate DEF Pc
<1>3. m.pc = "get"
  BY <1>1 DEF Locals
<1>4. Become(r, m)
  BY DEF UndoDrop
<1> HIDE DEF m
<1>5. req' \in [Request -> Locals] /\ LocalsOK'
  BY <1>1, <1>2, <1>3, <1>4, BecomeType
<1>6. RedisTypeOK'
  BY <1>1, RedisType DEF UndoDrop, RedisTypeOK, redisLife
<1> QED
  BY <1>5, <1>6 DEF Inv, TypeOK, HandlersOK, UndoDrop, mongoVars, serverVars

(* RemoveFromCart and a decrease start from the rows they have found. *)
LEMMA RemoveFromCartInv ==
  ASSUME Inv, NEW r \in Request, NEW u \in User, NEW i \in Item, RemoveFromCart(r, u, i)
  PROVE  Inv'
<1> DEFINE p == IF FindInCart(u, i) = {} THEN "get" ELSE "release"
           its == IF FindInCart(u, i) = {} THEN {i} ELSE {}
           m == [Fresh EXCEPT !.op = "remove", !.user = u, !.item = i, !.pc = p,
                              !.items = its, !.todo = FindInCart(u, i)]
<1>1. req \in [Request -> Locals] /\ LocalsOK
  BY DEF Inv, TypeOK
<1>2. p \in {"get", "release"} /\ its \in SUBSET Item
  OBVIOUS
<1>3. FindInCart(u, i) \in SUBSET CartRow
  BY FindByUserType DEF Inv, TypeOK
<1>4. Become(r, m)
  BY DEF RemoveFromCart
<1> HIDE DEF p, its
<1>5. m \in Locals
  BY <1>2, <1>3, FreshType, LocalsUpdate DEF Pc, Operation
<1>6. m.pc \in {"get", "release"} /\ m.item = i /\ m.user = u
  BY <1>2 DEF Fresh
<1> HIDE DEF m
<1>7. req' \in [Request -> Locals] /\ LocalsOK'
  BY <1>1, <1>4, <1>5, <1>6, BecomeType
<1> QED
  BY <1>7 DEF Inv, TypeOK, RedisTypeOK, HandlersOK, RemoveFromCart, redisVars, mongoVars, serverVars

LEMMA DecreaseInv ==
  ASSUME Inv, NEW r \in Request, NEW u \in User, NEW i \in Item, NEW q \in Quantity,
         Decrease(r, u, i, q)
  PROVE  Inv'
<1> DEFINE p == IF FindInCart(u, i) = {} THEN "get" ELSE "release"
           its == IF FindInCart(u, i) = {} THEN {i} ELSE {}
           m == [Fresh EXCEPT !.op = "decrease", !.user = u, !.item = i, !.pc = p,
                              !.items = its, !.todo = FindInCart(u, i), !.arg = q]
<1>1. req \in [Request -> Locals] /\ LocalsOK
  BY DEF Inv, TypeOK
<1>2. p \in {"get", "release"} /\ its \in SUBSET Item /\ q \in Nat
  BY EnvironmentAssumption
<1>3. FindInCart(u, i) \in SUBSET CartRow
  BY FindByUserType DEF Inv, TypeOK
<1>4. Become(r, m)
  BY DEF Decrease
<1> HIDE DEF p, its
<1>5. m \in Locals
  BY <1>2, <1>3, FreshType, LocalsUpdate DEF Pc, Operation
<1>6. m.pc \in {"get", "release"} /\ m.item = i /\ m.user = u
  BY <1>2 DEF Fresh
<1> HIDE DEF m
<1>7. req' \in [Request -> Locals] /\ LocalsOK'
  BY <1>1, <1>4, <1>5, <1>6, BecomeType
<1> QED
  BY <1>7 DEF Inv, TypeOK, RedisTypeOK, HandlersOK, Decrease, redisVars, mongoVars, serverVars

(* One turn of the loop: a whole row, or what is needed of a larger one. *)
LEMMA ReleaseRowInv ==
  ASSUME Inv, NEW r \in Request, ReleaseRow(r)
  PROVE  Inv'
<1>1. PICK row \in req[r].todo :
        LET q == ReleasedQty(req[r], row)
            l == [req[r] EXCEPT !.id = row.id, !.rem = stock[row.item] + q]
        IN  /\ Release(row.item, q)
            /\ \/ /\ Whole(req[r], row)
                  /\ Become(r, [l EXCEPT !.pc = "drop", !.todo = @ \ {row},
                                         !.arg = NeedAfter(req[r], q)])
               \/ /\ ~Whole(req[r], row)
                  /\ Become(r, [l EXCEPT !.pc = "shrink", !.base = row.qty])
  BY DEF ReleaseRow
<1> DEFINE q == ReleasedQty(req[r], row)
           l == [req[r] EXCEPT !.id = row.id, !.rem = stock[row.item] + q]
<1>2. /\ req[r] \in Locals /\ req \in [Request -> Locals] /\ LocalsOK
      /\ req[r].item \in Item /\ req[r].user \in User /\ RedisTypeOK
  BY DEF Inv, TypeOK, LocalsOK, ReleaseRow, At
<1>3. row \in CartRow /\ req[r].arg \in Nat
  BY <1>2 DEF Locals
<1>4. row.id \in Request /\ row.item \in Item /\ row.qty \in Nat
  BY <1>3 DEF CartRow
<1>5. q \in Nat /\ stock[row.item] + q \in Int
  BY <1>2, <1>3, <1>4 DEF ReleasedQty, RedisTypeOK
<1>6. Release(row.item, q)
  BY <1>1
<1>7. (Whole(req[r], row) /\ Become(r, [l EXCEPT !.pc = "drop", !.todo = @ \ {row},
                                                 !.arg = NeedAfter(req[r], q)]))
      \/ (~Whole(req[r], row) /\ Become(r, [l EXCEPT !.pc = "shrink", !.base = row.qty]))
  BY <1>1
<1>8. CASE Whole(req[r], row)
  <2> DEFINE m == [l EXCEPT !.pc = "drop", !.todo = @ \ {row}, !.arg = NeedAfter(req[r], q)]
  <2>1. NeedAfter(req[r], q) \in Nat
    BY <1>3, <1>4, <1>8 DEF NeedAfter, ReleasedQty, Whole
  <2>2. l.todo = req[r].todo /\ req[r].todo \ {row} \in SUBSET CartRow
    BY <1>2 DEF Locals
  <2>3. Become(r, m)
    BY <1>7, <1>8
  <2> HIDE DEF q
  <2>4. l \in Locals
    BY <1>2, <1>4, <1>5, LocalsUpdate
  <2> HIDE DEF l
  <2>5. m \in Locals
    BY <2>1, <2>2, <2>4, LocalsUpdate DEF Pc
  <2>6. m.pc = "drop" /\ m.item = req[r].item /\ m.user = req[r].user
    <3>1. l.item = req[r].item /\ l.user = req[r].user
      BY <1>2 DEF Locals, l
    <3> QED
      BY <2>4, <3>1 DEF Locals
  <2> HIDE DEF m
  <2> QED
    <3>1. req' \in [Request -> Locals] /\ LocalsOK'
      BY <1>2, <2>3, <2>5, <2>6, BecomeType
    <3>2. RedisTypeOK'
      BY <1>2, <1>5, <1>6, RedisType DEF ReleaseRow, RedisTypeOK, redisLife
    <3> QED
      BY <3>1, <3>2 DEF Inv, TypeOK, HandlersOK, ReleaseRow, mongoVars, serverVars
<1>9. CASE ~Whole(req[r], row)
  <2> DEFINE m == [l EXCEPT !.pc = "shrink", !.base = row.qty]
  <2>1. req[r].arg < row.qty
    BY <1>3, <1>4, <1>9 DEF Whole
  <2>2. Become(r, m)
    BY <1>7, <1>9
  <2> HIDE DEF q
  <2>3. l \in Locals /\ l.item = req[r].item /\ l.user = req[r].user /\ l.id = row.id
        /\ l.arg = req[r].arg
    <3>1. l \in Locals
      BY <1>2, <1>4, <1>5, LocalsUpdate
    <3> QED
      BY <1>2, <3>1 DEF Locals
  <2> HIDE DEF l
  <2>4. m \in Locals
    BY <1>4, <2>3, LocalsUpdate DEF Pc
  <2>5. m.pc = "shrink" /\ m.item = l.item /\ m.user = l.user /\ m.id = l.id
        /\ m.arg = l.arg /\ m.base = row.qty
    BY <2>3 DEF Locals
  <2> HIDE DEF m
  <2> QED
    <3>1. req' \in [Request -> Locals] /\ LocalsOK'
      BY <1>2, <1>4, <2>1, <2>2, <2>3, <2>4, <2>5, BecomeType
    <3>2. RedisTypeOK'
      BY <1>2, <1>5, <1>6, RedisType DEF ReleaseRow, RedisTypeOK, redisLife
    <3> QED
      BY <3>1, <3>2 DEF Inv, TypeOK, HandlersOK, ReleaseRow, mongoVars, serverVars
<1> QED
  BY <1>8, <1>9

LEMMA DropKeyInv ==
  ASSUME Inv, NEW r \in Request, DropKey(r)
  PROVE  Inv'
<1> DEFINE m == [req[r] EXCEPT !.pc = "delete"]
<1>1. /\ req[r] \in Locals /\ req \in [Request -> Locals] /\ LocalsOK /\ RedisTypeOK
      /\ req[r].item \in Item /\ req[r].user \in User
  BY DEF Inv, TypeOK, LocalsOK, DropKey, At
<1>2. m \in Locals /\ m.pc = "delete" /\ m.item = req[r].item /\ m.user = req[r].user
  <2>1. m \in Locals
    BY <1>1, LocalsUpdate DEF Pc
  <2> QED
    BY <1>1, <2>1 DEF Locals
<1>3. Become(r, m)
  BY DEF DropKey, Goto
<1> HIDE DEF m
<1>4. req' \in [Request -> Locals] /\ LocalsOK'
  BY <1>1, <1>2, <1>3, BecomeType
<1>5. RedisTypeOK'
  BY <1>1, RedisType DEF DropKey, RedisTypeOK, redisLife
<1> QED
  BY <1>4, <1>5 DEF Inv, TypeOK, HandlersOK, DropKey, mongoVars, serverVars

(* The loop goes on, or ends with the broadcast or the survey. *)
LEMMA DeleteRowInv ==
  ASSUME Inv, NEW r \in Request, DeleteRow(r)
  PROVE  Inv'
<1>1. /\ req[r] \in Locals /\ req \in [Request -> Locals] /\ LocalsOK
      /\ req[r].item \in Item /\ req[r].user \in User
  BY DEF Inv, TypeOK, LocalsOK, DeleteRow, At
<1>2. req' \in [Request -> Locals] /\ LocalsOK'
  <2>1. CASE ~LoopEnds(req[r])
    <3> DEFINE m == [req[r] EXCEPT !.pc = "release", !.id = None]
    <3>1. m \in Locals
      BY <1>1, LocalsUpdate DEF Pc
    <3>2. m.pc = "release" /\ m.item = req[r].item /\ m.user = req[r].user
      BY <1>1 DEF Locals
    <3>3. Become(r, m)
      BY <2>1 DEF DeleteRow, AfterDelete
    <3> HIDE DEF m
    <3> QED
      BY <1>1, <3>1, <3>2, <3>3, BecomeType
  <2>2. CASE LoopEnds(req[r])
    <3> DEFINE p == IF req[r].op = "remove" THEN "emit" ELSE "survey"
               m == [req[r] EXCEPT !.pc = p, !.todo = {}, !.arg = 0, !.id = None]
    <3>1. p \in {"emit", "survey"}
      OBVIOUS
    <3>2. Become(r, m)
      BY <2>2 DEF DeleteRow, AfterDelete
    <3> HIDE DEF p
    <3>3. m \in Locals
      BY <1>1, <3>1, LocalsUpdate DEF Pc
    <3>4. m.pc \in {"emit", "survey"}
      BY <1>1, <3>1 DEF Locals
    <3> HIDE DEF m
    <3> QED
      BY <1>1, <3>2, <3>3, <3>4, BecomeType
  <2> QED
    BY <2>1, <2>2
<1>3. rows' \in [Request -> CartRow \cup {None}]
  BY DEF Inv, TypeOK, DeleteRow, DeleteById
<1> QED
  BY <1>2, <1>3 DEF Inv, TypeOK, RedisTypeOK, HandlersOK, DeleteRow, redisVars, serverVars

(* The surviving row keeps at least one unit. *)
LEMMA ShrinkRowInv ==
  ASSUME Inv, NEW r \in Request, ShrinkRow(r)
  PROVE  Inv'
<1> DEFINE m == [req[r] EXCEPT !.pc = "survey", !.id = None, !.arg = 0, !.base = 0, !.todo = {}]
<1>1. /\ req[r] \in Locals /\ req \in [Request -> Locals] /\ LocalsOK
      /\ req[r].item \in Item /\ req[r].user \in User /\ req[r].id \in Request
      /\ req[r].arg < req[r].base
  BY DEF Inv, TypeOK, LocalsOK, ShrinkRow, At
<1>2. ShrunkRow(req[r]) \in CartRow
  <2>1. req[r].base - req[r].arg \in Nat \ {0}
    BY <1>1 DEF Locals
  <2> QED
    BY <1>1, <2>1 DEF ShrunkRow, CartRow
<1>3. rows' \in [Request -> CartRow \cup {None}]
  BY <1>2, SaveCartItemType DEF ShrinkRow, Inv, TypeOK
<1>4. m \in Locals /\ m.pc = "survey"
  <2>1. m \in Locals
    BY <1>1, LocalsUpdate DEF Pc
  <2> QED
    BY <1>1, <2>1 DEF Locals
<1>5. Become(r, m)
  BY DEF ShrinkRow
<1> HIDE DEF m
<1>6. req' \in [Request -> Locals] /\ LocalsOK'
  BY <1>1, <1>4, <1>5, BecomeType
<1> QED
  BY <1>3, <1>6 DEF Inv, TypeOK, RedisTypeOK, HandlersOK, ShrinkRow, redisVars, serverVars

LEMMA SurveyInv ==
  ASSUME Inv, NEW r \in Request, Survey(r)
  PROVE  Inv'
<1> DEFINE S == FindInCart(req[r].user, req[r].item)
           p == IF S = {} THEN "emit" ELSE "refresh"
           m == [req[r] EXCEPT !.pc = p, !.todo = S]
<1>1. req[r] \in Locals /\ req \in [Request -> Locals] /\ LocalsOK
  BY DEF Inv, TypeOK
<1>2. S \in SUBSET CartRow
  BY FindByUserType DEF Inv, TypeOK
<1>3. p \in {"emit", "refresh"}
  OBVIOUS
<1>4. Become(r, m)
  BY DEF Survey
<1> HIDE DEF S, p
<1>5. m \in Locals
  BY <1>1, <1>2, <1>3, LocalsUpdate DEF Pc
<1>6. m.pc \in {"emit", "refresh"}
  BY <1>1, <1>3 DEF Locals
<1> HIDE DEF m
<1>7. req' \in [Request -> Locals] /\ LocalsOK'
  BY <1>1, <1>4, <1>5, <1>6, BecomeType
<1> QED
  BY <1>7 DEF Inv, TypeOK, RedisTypeOK, HandlersOK, Survey, redisVars, mongoVars, serverVars

LEMMA RefreshKeyInv ==
  ASSUME Inv, NEW r \in Request, RefreshKey(r)
  PROVE  Inv'
<1>1. PICK row \in req[r].todo :
        /\ Refresh(row.id, r)
        /\ Become(r, [req[r] EXCEPT !.pc = IF req[r].todo = {row} THEN "emit" ELSE "refresh",
                                    !.todo = @ \ {row}])
  BY DEF RefreshKey
<1> DEFINE p == IF req[r].todo = {row} THEN "emit" ELSE "refresh"
           S == req[r].todo \ {row}
           m == [req[r] EXCEPT !.pc = p, !.todo = S]
<1>2. req[r] \in Locals /\ req \in [Request -> Locals] /\ LocalsOK /\ RedisTypeOK
  BY DEF Inv, TypeOK
<1>3. p \in {"emit", "refresh"} /\ S \in SUBSET CartRow
  BY <1>2 DEF Locals
<1>4. Become(r, m)
  BY <1>1
<1> HIDE DEF S, p
<1>5. m \in Locals
  BY <1>2, <1>3, LocalsUpdate DEF Pc
<1>6. m.pc \in {"emit", "refresh"}
  BY <1>2, <1>3 DEF Locals
<1> HIDE DEF m
<1>7. req' \in [Request -> Locals] /\ LocalsOK'
  BY <1>2, <1>4, <1>5, <1>6, BecomeType
<1>8. RedisTypeOK'
  BY <1>1, <1>2, RedisType DEF RefreshKey, RedisTypeOK, redisLife
<1> QED
  BY <1>7, <1>8 DEF Inv, TypeOK, HandlersOK, RefreshKey, mongoVars, serverVars

(* Checkout. *)
LEMMA CheckoutInv ==
  ASSUME Inv, NEW r \in Request, NEW u \in User, Checkout(r, u)
  PROVE  Inv'
<1> DEFINE S == FindByUser(u)
           its == {row.item : row \in FindByUser(u)}
           m == [Fresh EXCEPT !.op = "checkout", !.user = u, !.pc = "order",
                              !.todo = S, !.items = its]
<1>1. req \in [Request -> Locals] /\ LocalsOK
  BY DEF Inv, TypeOK
<1>2. S \in SUBSET CartRow
  BY FindByUserType DEF Inv, TypeOK
<1>3. its \in SUBSET Item
  BY <1>2 DEF CartRow
<1>4. Become(r, m)
  BY DEF Checkout
<1> HIDE DEF S, its
<1>5. m \in Locals
  BY <1>2, <1>3, FreshType, LocalsUpdate DEF Pc, Operation
<1>6. m.pc = "order"
  BY DEF Fresh
<1> HIDE DEF m
<1>7. req' \in [Request -> Locals] /\ LocalsOK'
  BY <1>1, <1>4, <1>5, <1>6, BecomeType
<1> QED
  BY <1>7 DEF Inv, TypeOK, RedisTypeOK, HandlersOK, Checkout, redisVars, mongoVars, serverVars

LEMMA SaveOrderInv ==
  ASSUME Inv, NEW r \in Request, SaveOrder(r)
  PROVE  Inv'
<1> DEFINE m == [req[r] EXCEPT !.pc = "clear"]
<1>1. req[r] \in Locals /\ req \in [Request -> Locals] /\ LocalsOK
  BY DEF Inv, TypeOK
<1>2. m \in Locals /\ m.pc = "clear"
  <2>1. m \in Locals
    BY <1>1, LocalsUpdate DEF Pc
  <2> QED
    BY <1>1, <2>1 DEF Locals
<1>3. Become(r, m)
  BY DEF SaveOrder, Goto
<1> HIDE DEF m
<1>4. req' \in [Request -> Locals] /\ LocalsOK'
  BY <1>1, <1>2, <1>3, BecomeType
<1>5. orders' \in [Request -> SUBSET CartRow]
  BY <1>1 DEF Inv, TypeOK, SaveOrder, Locals
<1> QED
  BY <1>4, <1>5 DEF Inv, TypeOK, RedisTypeOK, HandlersOK, SaveOrder, redisVars, serverVars

LEMMA ClearKeyInv ==
  ASSUME Inv, NEW r \in Request, ClearKey(r)
  PROVE  Inv'
<1>1. PICK row \in req[r].todo :
        /\ Drop(row.id)
        /\ Become(r, [req[r] EXCEPT !.pc = IF req[r].todo = {row} THEN "empty" ELSE "clear",
                                    !.todo = @ \ {row}])
  BY DEF ClearKey
<1> DEFINE p == IF req[r].todo = {row} THEN "empty" ELSE "clear"
           S == req[r].todo \ {row}
           m == [req[r] EXCEPT !.pc = p, !.todo = S]
<1>2. req[r] \in Locals /\ req \in [Request -> Locals] /\ LocalsOK /\ RedisTypeOK
  BY DEF Inv, TypeOK
<1>3. p \in {"empty", "clear"} /\ S \in SUBSET CartRow
  BY <1>2 DEF Locals
<1>4. Become(r, m)
  BY <1>1
<1> HIDE DEF S, p
<1>5. m \in Locals
  BY <1>2, <1>3, LocalsUpdate DEF Pc
<1>6. m.pc \in {"empty", "clear"}
  BY <1>2, <1>3 DEF Locals
<1> HIDE DEF m
<1>7. req' \in [Request -> Locals] /\ LocalsOK'
  BY <1>2, <1>4, <1>5, <1>6, BecomeType
<1>8. RedisTypeOK'
  BY <1>1, <1>2, RedisType DEF ClearKey, RedisTypeOK, redisLife
<1> QED
  BY <1>7, <1>8 DEF Inv, TypeOK, HandlersOK, ClearKey, mongoVars, serverVars

LEMMA EmptyCartInv ==
  ASSUME Inv, NEW r \in Request, EmptyCart(r)
  PROVE  Inv'
<1> DEFINE m == [req[r] EXCEPT !.pc = "get"]
<1>1. req[r] \in Locals /\ req \in [Request -> Locals] /\ LocalsOK
  BY DEF Inv, TypeOK
<1>2. m \in Locals /\ m.pc = "get"
  <2>1. m \in Locals
    BY <1>1, LocalsUpdate DEF Pc
  <2> QED
    BY <1>1, <2>1 DEF Locals
<1>3. Become(r, m)
  BY DEF EmptyCart, Goto
<1> HIDE DEF m
<1>4. req' \in [Request -> Locals] /\ LocalsOK'
  BY <1>1, <1>2, <1>3, BecomeType
<1>5. rows' \in [Request -> CartRow \cup {None}]
  BY DEF Inv, TypeOK, EmptyCart, DeleteByUser
<1> QED
  BY <1>4, <1>5 DEF Inv, TypeOK, RedisTypeOK, HandlersOK, EmptyCart, redisVars, serverVars

LEMMA GetRemainingInv ==
  ASSUME Inv, NEW r \in Request, GetRemaining(r)
  PROVE  Inv'
<1>1. PICK i \in req[r].items :
        Become(r, [req[r] EXCEPT !.pc = IF req[r].op = "decrease" THEN "survey" ELSE "emit",
                                 !.item = i, !.items = @ \ {i}, !.rem = stock[i],
                                 !.arg = 0, !.id = None])
  BY DEF GetRemaining
<1> DEFINE p == IF req[r].op = "decrease" THEN "survey" ELSE "emit"
           S == req[r].items \ {i}
           m == [req[r] EXCEPT !.pc = p, !.item = i, !.items = S, !.rem = stock[i],
                               !.arg = 0, !.id = None]
<1>2. req[r] \in Locals /\ req \in [Request -> Locals] /\ LocalsOK
  BY DEF Inv, TypeOK
<1>3. i \in Item /\ S \in SUBSET Item /\ p \in {"survey", "emit"}
  BY <1>2 DEF Locals
<1>4. stock[i] \in Int
  BY <1>3 DEF Inv, TypeOK, RedisTypeOK
<1>5. Become(r, m)
  BY <1>1
<1> HIDE DEF p, S
<1>6. m \in Locals
  BY <1>2, <1>3, <1>4, LocalsUpdate DEF Pc
<1>7. m.pc \in {"survey", "emit"}
  BY <1>2, <1>3 DEF Locals
<1> HIDE DEF m
<1>8. req' \in [Request -> Locals] /\ LocalsOK'
  BY <1>2, <1>5, <1>6, <1>7, BecomeType
<1> QED
  BY <1>8 DEF Inv, TypeOK, RedisTypeOK, HandlersOK, GetRemaining, redisVars, mongoVars, serverVars

LEMMA EmitInv ==
  ASSUME Inv, NEW r \in Request, Emit(r)
  PROVE  Inv'
<1>1. req[r] \in Locals /\ req \in [Request -> Locals] /\ LocalsOK
  BY DEF Inv, TypeOK
<1>2. req' \in [Request -> Locals] /\ LocalsOK'
  <2>1. CASE req[r].items = {}
    <3>1. Become(r, Finished(req[r]))
      BY <2>1 DEF Emit
    <3> QED
      BY <1>1, <3>1, FinishedType, BecomeType
  <2>2. CASE req[r].items # {}
    <3> DEFINE m == [req[r] EXCEPT !.pc = "get"]
    <3>1. m \in Locals
      BY <1>1, LocalsUpdate DEF Pc
    <3>2. m.pc = "get"
      BY <1>1 DEF Locals
    <3>3. Become(r, m)
      BY <2>2 DEF Emit, Goto
    <3> HIDE DEF m
    <3> QED
      BY <1>1, <3>1, <3>2, <3>3, BecomeType
  <2> QED
    BY <2>1, <2>2
<1>3. shown' \in [Item -> Int]
  <2>1. req[r].rem \in Int
    BY <1>1 DEF Locals
  <2> QED
    BY <2>1 DEF Inv, TypeOK, Emit, EmitStockUpdate
<1> QED
  BY <1>2, <1>3 DEF Inv, TypeOK, RedisTypeOK, HandlersOK, Emit, redisVars, mongoVars, serverVars

LEMMA CommandFailsInv ==
  ASSUME Inv, NEW r \in Request, CommandFails(r)
  PROVE  Inv'
<1>1. req[r] \in Locals /\ req \in [Request -> Locals] /\ LocalsOK
  BY DEF Inv, TypeOK
<1>2. req' \in [Request -> Locals] /\ LocalsOK'
  <2>1. CASE req[r].pc = "save"
    BY <2>1, AfterFailedSaveType DEF CommandFails
  <2>2. CASE req[r].pc # "save"
    <3>1. Become(r, Finished(req[r]))
      BY <2>2 DEF CommandFails
    <3> QED
      BY <1>1, <3>1, FinishedType, BecomeType
  <2> QED
    BY <2>1, <2>2
<1> QED
  BY <1>2 DEF Inv, TypeOK, RedisTypeOK, HandlersOK, CommandFails, redisVars, mongoVars, serverVars

-----------------------------------------------------------------------------
(* The expiry handlers, the crash and the boot.                            *)

LEMMA HandlerUpdate ==
  \A h \in ExpiryHandler :
    /\ \A x \in {"find", "release", "delete", "emit"} : [h EXCEPT !.pc = x] \in ExpiryHandler
    /\ \A x \in CartRow \cup {None} : [h EXCEPT !.row = x] \in ExpiryHandler
    /\ \A x \in Int : [h EXCEPT !.rem = x] \in ExpiryHandler
BY DEF ExpiryHandler

LEMMA KeyExpiresInv ==
  ASSUME Inv, NEW c \in Request, KeyExpires(c)
  PROVE  Inv'
<1>1. RedisTypeOK /\ key[c] \in Request
  BY DEF Inv, TypeOK, RedisTypeOK, KeyExpires, MayExpire
<1>2. RedisTypeOK'
  BY <1>1, RedisType DEF KeyExpires, TtlPasses, RedisTypeOK, redisLife
<1>3. exp' \in SUBSET ExpiryHandler /\ HandlersOK'
  <2> DEFINE h == [id |-> c, by |-> key[c], pc |-> "find", row |-> None, rem |-> 0]
  <2>1. h \in ExpiryHandler /\ h.pc = "find"
    BY <1>1 DEF ExpiryHandler
  <2>2. exp' = exp \cup {h} \/ exp' = exp
    BY DEF KeyExpires
  <2> HIDE DEF h
  <2> QED
    BY <2>1, <2>2 DEF Inv, TypeOK, HandlersOK
<1> QED
  BY <1>2, <1>3 DEF Inv, TypeOK, LocalsOK, KeyExpires, mongoVars, serverVars

(* A handler replaced by one that is well typed and keeps its row, or done. *)
LEMMA AdvanceType ==
  ASSUME Inv, NEW h \in exp
  PROVE  /\ exp' = exp \ {h} => exp' \in SUBSET ExpiryHandler /\ HandlersOK'
         /\ \A l \in ExpiryHandler :
              (l.pc # "find" => l.row \in CartRow) /\ Advance(h, l)
                => exp' \in SUBSET ExpiryHandler /\ HandlersOK'
BY DEF Inv, TypeOK, HandlersOK, Advance

LEMMA ExpireFindInv ==
  ASSUME Inv, NEW h \in exp, ExpireFind(h)
  PROVE  Inv'
<1>1. h \in ExpiryHandler /\ rows \in [Request -> CartRow \cup {None}]
  BY DEF Inv, TypeOK
<1>2. exp' \in SUBSET ExpiryHandler /\ HandlersOK'
  <2>1. CASE rows[h.id] = None
    BY <2>1, AdvanceType DEF ExpireFind
  <2>2. CASE rows[h.id] # None
    <3> DEFINE m == [h EXCEPT !.pc = "release", !.row = rows[h.id]]
    <3>1. rows[h.id] \in CartRow
      BY <1>1, <2>2 DEF ExpiryHandler
    <3>2. m \in ExpiryHandler
      BY <1>1, <3>1, HandlerUpdate
    <3>3. m.row \in CartRow
      BY <1>1, <3>1 DEF ExpiryHandler
    <3>4. Advance(h, m)
      BY <2>2 DEF ExpireFind
    <3> HIDE DEF m
    <3> QED
      BY <3>2, <3>3, <3>4, AdvanceType
  <2> QED
    BY <2>1, <2>2
<1> QED
  BY <1>2 DEF Inv, TypeOK, RedisTypeOK, LocalsOK, ExpireFind, redisVars, mongoVars, serverVars

LEMMA ExpireReleaseInv ==
  ASSUME Inv, NEW h \in exp, ExpireRelease(h)
  PROVE  Inv'
<1> DEFINE n == stock[h.row.item] + h.row.qty
           m == [h EXCEPT !.pc = "delete", !.rem = n]
<1>1. h \in ExpiryHandler /\ h.row \in CartRow /\ RedisTypeOK
  BY DEF Inv, TypeOK, HandlersOK, ExpireRelease
<1>2. h.row.item \in Item /\ h.row.qty \in Int
  BY <1>1 DEF CartRow
<1>3. n \in Int
  BY <1>1, <1>2 DEF RedisTypeOK
<1>4. Advance(h, m)
  BY DEF ExpireRelease
<1> HIDE DEF n
<1>5. m \in ExpiryHandler
  BY <1>1, <1>3, HandlerUpdate
<1>6. m.row = h.row
  BY <1>1 DEF ExpiryHandler
<1> HIDE DEF m
<1>7. exp' \in SUBSET ExpiryHandler /\ HandlersOK'
  BY <1>1, <1>4, <1>5, <1>6, AdvanceType
<1>8. RedisTypeOK'
  BY <1>1, <1>2, RedisType DEF ExpireRelease, RedisTypeOK, redisLife
<1> QED
  BY <1>7, <1>8 DEF Inv, TypeOK, LocalsOK, ExpireRelease, mongoVars, serverVars

LEMMA ExpireDeleteInv ==
  ASSUME Inv, NEW h \in exp, ExpireDelete(h)
  PROVE  Inv'
<1> DEFINE m == [h EXCEPT !.pc = "emit"]
<1>1. h \in ExpiryHandler /\ h.row \in CartRow
  BY DEF Inv, TypeOK, HandlersOK, ExpireDelete
<1>2. m \in ExpiryHandler
  BY <1>1, HandlerUpdate
<1>3. m.row = h.row
  BY <1>1 DEF ExpiryHandler
<1>4. Advance(h, m)
  BY DEF ExpireDelete
<1> HIDE DEF m
<1>5. exp' \in SUBSET ExpiryHandler /\ HandlersOK'
  BY <1>1, <1>2, <1>3, <1>4, AdvanceType
<1>6. rows' \in [Request -> CartRow \cup {None}]
  BY DEF Inv, TypeOK, ExpireDelete, DeleteById
<1> QED
  BY <1>5, <1>6 DEF Inv, TypeOK, RedisTypeOK, LocalsOK, ExpireDelete, redisVars, serverVars

LEMMA ExpireEmitInv ==
  ASSUME Inv, NEW h \in exp, ExpireEmit(h)
  PROVE  Inv'
<1>1. exp' \in SUBSET ExpiryHandler /\ HandlersOK'
  BY AdvanceType DEF ExpireEmit
<1>2. shown' \in [Item -> Int]
  <2>1. h.rem \in Int
    BY DEF Inv, TypeOK, ExpiryHandler
  <2> QED
    BY <2>1 DEF Inv, TypeOK, ExpireEmit, EmitStockUpdate
<1> QED
  BY <1>1, <1>2 DEF Inv, TypeOK, RedisTypeOK, LocalsOK, ExpireEmit, redisVars, mongoVars, serverVars

LEMMA ExpireFailsInv ==
  ASSUME Inv, NEW h \in exp, ExpireFails(h)
  PROVE  Inv'
<1>1. exp' \in SUBSET ExpiryHandler /\ HandlersOK'
  BY AdvanceType DEF ExpireFails
<1> QED
  BY <1>1 DEF Inv, TypeOK, RedisTypeOK, LocalsOK, ExpireFails, redisVars, mongoVars, serverVars

LEMMA CrashInv ==
  ASSUME Inv, Crash
  PROVE  Inv'
<1>1. \A r \in Request : Finished(req[r]) \in Locals /\ Finished(req[r]).pc = "done"
  BY FinishedType DEF Inv, TypeOK
<1>2. req' = [r \in Request |-> IF InFlight(r) THEN Finished(req[r]) ELSE req[r]]
  BY DEF Crash
<1>3. req' \in [Request -> Locals] /\ LocalsOK'
  <2>1. req \in [Request -> Locals] /\ LocalsOK
    BY DEF Inv, TypeOK
  <2> QED
    BY <1>1, <1>2, <2>1 DEF LocalsOK
<1> QED
  BY <1>3 DEF Inv, TypeOK, RedisTypeOK, HandlersOK, Crash, redisVars, mongoVars, serverVars

LEMMA SeedStockInv ==
  ASSUME Inv, SeedStock
  PROVE  Inv'
<1>1. aggregateReservedQuantities \in [Item -> Nat]
  BY AggregateType DEF Inv, TypeOK
<1>2. stock' \in [Item -> Int]
  BY <1>1, TotalStockAssumption DEF SeedStock, Seed, SeedValue
<1> QED
  BY <1>2 DEF Inv, TypeOK, RedisTypeOK, LocalsOK, HandlersOK, SeedStock, redisLife, mongoVars

LEMMA LoadScriptInv ==
  ASSUME Inv, LoadScript
  PROVE  Inv'
BY DEF Inv, TypeOK, RedisTypeOK, LocalsOK, HandlersOK, LoadScript, LoadReserveScript, mongoVars

LEMMA SubscribeInv ==
  ASSUME Inv, Subscribe
  PROVE  Inv'
BY DEF Inv, TypeOK, RedisTypeOK, LocalsOK, HandlersOK, Subscribe, redisVars, mongoVars

(* Redis by itself. *)
LEMMA RedisByItselfInv ==
  ASSUME Inv, RedisByItself
  PROVE  Inv'
<1>1. RedisTypeOK
  BY DEF Inv, TypeOK
<1>2. CASE SnapshotRedis
  <2>1. RedisTypeOK'
    BY <1>1, <1>2 DEF SnapshotRedis, RedisSaves, RedisTypeOK
  <2> QED
    BY <1>2, <2>1 DEF Inv, TypeOK, LocalsOK, HandlersOK, SnapshotRedis, mongoVars, serverVars
<1>3. CASE RestartRedis
  <2>1. PICK ended \in SUBSET MayHaveEnded : RedisRestarts(ended)
    BY <1>3 DEF RestartRedis
  <2>2. saved.stock \in [Item -> Int] /\ saved.key \in [Request -> Request \cup {None}]
    BY <1>1 DEF RedisTypeOK
  <2>3. stock' \in [Item -> Int] /\ key' \in [Request -> Request \cup {None}]
    BY <2>1, <2>2 DEF RedisRestarts
  <2>4. script' = FALSE /\ saved' = saved /\ restarts' = restarts + 1
    BY <2>1 DEF RedisRestarts
  <2>5. restarts' \in Nat
    BY <1>1, <2>4 DEF RedisTypeOK
  <2>6. script' \in BOOLEAN
    BY <2>4
  <2>7. saved' \in [stock : [Item -> Int], key : [Request -> Request \cup {None}]]
    BY <1>1, <2>4 DEF RedisTypeOK
  <2>8. RedisTypeOK'
    BY <2>3, <2>5, <2>6, <2>7 DEF RedisTypeOK
  <2> QED
    BY <1>3, <2>8 DEF Inv, TypeOK, LocalsOK, HandlersOK, RestartRedis, mongoVars, serverVars
<1> QED
  BY <1>2, <1>3 DEF RedisByItself

-----------------------------------------------------------------------------
(* The inductive step, and the type invariant.                             *)

LEMMA InvNext == Inv /\ [Next]_vars => Inv'
<1> SUFFICES ASSUME Inv, [Next]_vars PROVE Inv'
  OBVIOUS
<1>1. CASE UNCHANGED vars
  BY <1>1 DEF vars, Inv, TypeOK, RedisTypeOK, LocalsOK, HandlersOK
<1>2. ASSUME NEW r \in Request, Call(r)
      PROVE  Inv'
  BY <1>2, AddToCartInv, IncreaseInv, DecreaseInv, RemoveFromCartInv, CheckoutInv DEF Call
<1>3. ASSUME NEW r \in Request, Step(r)
      PROVE  Inv'
  BY <1>3, IncreaseReserveInv, SaveRowInv, SaveRowReplyLostInv, UndoInv, UndoDropInv,
     ReleaseRowInv, DropKeyInv, DeleteRowInv, ShrinkRowInv, SurveyInv, RefreshKeyInv,
     SaveOrderInv, ClearKeyInv, EmptyCartInv, GetRemainingInv, EmitInv, CommandFailsInv
  DEF Step
<1>4. ASSUME NEW r \in Request, KeyExpires(r)
      PROVE  Inv'
  BY <1>4, KeyExpiresInv
<1>5. ASSUME NEW h \in exp, ExpireStep(h)
      PROVE  Inv'
  BY <1>5, ExpireFindInv, ExpireReleaseInv, ExpireDeleteInv, ExpireEmitInv, ExpireFailsInv
  DEF ExpireStep
<1>6. CASE Crash
  BY <1>6, CrashInv
<1>7. CASE Boot
  BY <1>7, LoadScriptInv, SeedStockInv, SubscribeInv DEF Boot
<1>8. CASE RedisByItself
  BY <1>8, RedisByItselfInv
<1> QED
  BY <1>1, <1>2, <1>3, <1>4, <1>5, <1>6, <1>7, <1>8 DEF Next

LEMMA InvAlways == Spec => []Inv
<1> QED
  BY InvInit, InvNext, PTL DEF Spec

(* The stores and the handlers' locals always hold what their types say:   *)
(* a row has a user, an item and at least one unit whenever it is written, *)
(* also when it is written from a quantity that was read long before.      *)
THEOREM TypeCorrect == Spec => []TypeOK
<1>1. Inv => TypeOK
  BY DEF Inv
<1> QED
  BY <1>1, InvAlways, PTL

-----------------------------------------------------------------------------
(* The counters never fall below zero.                                     *)

(* Units are taken by the script or the seed, and put back by an INCRBY of *)
(* a quantity that is no less than zero; a restart of Redis brings back    *)
(* counters that were so taken and put back before.                        *)
StockMoves ==
  \/ UNCHANGED stock
  \/ \E i \in Item, c \in Request, q \in Nat, r \in Request : Reserve(i, c, q, r)
  \/ \E i \in Item : \E q \in Nat : Release(i, q)
  \/ Seed(Item, aggregateReservedQuantities)
  \/ stock' = saved.stock

LEMMA ReserveForMoves ==
  ASSUME NEW r \in Request, NEW l, l.item \in Item, l.id \in Request, l.arg \in Nat,
         ReserveFor(r, l)
  PROVE  StockMoves
BY DEF ReserveFor, StockMoves, redisVars

LEMMA CallMoves ==
  ASSUME Inv, NEW r \in Request, Call(r)
  PROVE  StockMoves
<1>1. ASSUME NEW u \in User, NEW i \in Item, NEW q \in Quantity, AddToCart(r, u, i, q)
      PROVE  StockMoves
  <2> DEFINE l == [Fresh EXCEPT !.op = "add", !.user = u, !.item = i, !.id = r, !.arg = q]
  <2>1. l.item = i /\ l.id = r /\ l.arg = q
    BY DEF Fresh
  <2>2. ReserveFor(r, l)
    BY <1>1 DEF AddToCart
  <2> HIDE DEF l
  <2> QED
    BY <2>1, <2>2, ReserveForMoves, EnvironmentAssumption
<1>2. ASSUME NEW u \in User, NEW i \in Item, NEW q \in Quantity, Increase(r, u, i, q)
      PROVE  StockMoves
  BY <1>2 DEF Increase, redisVars, StockMoves
<1>3. ASSUME NEW u \in User, NEW i \in Item, NEW q \in Quantity, Decrease(r, u, i, q)
      PROVE  StockMoves
  BY <1>3 DEF Decrease, redisVars, StockMoves
<1>4. ASSUME NEW u \in User, NEW i \in Item, RemoveFromCart(r, u, i)
      PROVE  StockMoves
  BY <1>4 DEF RemoveFromCart, redisVars, StockMoves
<1>5. ASSUME NEW u \in User, Checkout(r, u)
      PROVE  StockMoves
  BY <1>5 DEF Checkout, redisVars, StockMoves
<1> QED
  BY <1>1, <1>2, <1>3, <1>4, <1>5 DEF Call

LEMMA StepMoves ==
  ASSUME Inv, NEW r \in Request, Step(r)
  PROVE  StockMoves
<1>1. req[r] \in Locals
  BY DEF Inv, TypeOK
<1>2. req[r].arg \in Nat /\ req[r].todo \in SUBSET CartRow
  BY <1>1 DEF Locals
<1>3. CASE IncreaseReserve(r)
  <2>1. req[r].item \in Item /\ req[r].id \in Request
    BY <1>3 DEF IncreaseReserve, At, Inv, LocalsOK
  <2> QED
    BY <1>2, <1>3, <2>1, ReserveForMoves DEF IncreaseReserve
<1>4. CASE Undo(r)
  <2>1. req[r].item \in Item
    BY <1>4 DEF Undo, At, Inv, LocalsOK
  <2> QED
    BY <1>2, <1>4, <2>1 DEF Undo, StockMoves
<1>5. CASE ReleaseRow(r)
  <2>1. PICK row \in req[r].todo : Release(row.item, ReleasedQty(req[r], row))
    BY <1>5 DEF ReleaseRow
  <2>2. row.item \in Item /\ row.qty \in Nat
    BY <1>2 DEF CartRow
  <2>3. ReleasedQty(req[r], row) \in Nat
    BY <1>2, <2>2 DEF ReleasedQty
  <2> QED
    BY <2>1, <2>2, <2>3 DEF StockMoves
<1>6. CASE \/ SaveRow(r) \/ SaveRowReplyLost(r) \/ UndoDrop(r) \/ DropKey(r)
           \/ DeleteRow(r) \/ ShrinkRow(r) \/ Survey(r) \/ RefreshKey(r)
           \/ SaveOrder(r) \/ ClearKey(r) \/ EmptyCart(r)
           \/ GetRemaining(r) \/ Emit(r) \/ CommandFails(r)
  <2>1. UNCHANGED stock
    BY <1>6 DEF SaveRow, SaveRowReplyLost, UndoDrop, DropKey, DeleteRow, ShrinkRow, Survey,
       RefreshKey, SaveOrder, ClearKey, EmptyCart, GetRemaining, Emit, CommandFails, redisVars
  <2> QED
    BY <2>1 DEF StockMoves
<1> QED
  BY <1>3, <1>4, <1>5, <1>6 DEF Step

LEMMA NextMoves ==
  ASSUME Inv, [Next]_vars
  PROVE  StockMoves
<1>1. ASSUME NEW h \in exp, ExpireStep(h)
      PROVE  StockMoves
  <2>1. CASE ExpireRelease(h)
    <3>1. h.row \in CartRow
      BY <2>1 DEF ExpireRelease, Inv, HandlersOK
    <3>2. h.row.item \in Item /\ h.row.qty \in Nat
      BY <3>1 DEF CartRow
    <3> QED
      BY <2>1, <3>2 DEF ExpireRelease, StockMoves
  <2>2. CASE ExpireFind(h) \/ ExpireDelete(h) \/ ExpireEmit(h) \/ ExpireFails(h)
    BY <2>2 DEF ExpireFind, ExpireDelete, ExpireEmit, ExpireFails, redisVars, StockMoves
  <2> QED
    BY <1>1, <2>1, <2>2 DEF ExpireStep
<1>2. ASSUME NEW r \in Request, KeyExpires(r)
      PROVE  StockMoves
  BY <1>2 DEF KeyExpires, StockMoves
<1>3. CASE Crash \/ Boot \/ UNCHANGED vars
  BY <1>3 DEF Crash, Boot, LoadScript, LoadReserveScript, SeedStock, Subscribe, vars,
     redisVars, StockMoves
<1>4. CASE RedisByItself
  BY <1>4 DEF RedisByItself, SnapshotRedis, RedisSaves, RestartRedis, RedisRestarts, StockMoves
<1> QED
  BY <1>1, <1>2, <1>3, <1>4, CallMoves, StepMoves DEF Next

(* The snapshot is a copy of counters that were not negative either. *)
SavedNonNegative == \A i \in Item : saved.stock[i] >= 0

NonNegative == StockNonNegative /\ SavedNonNegative

LEMMA SavedNext ==
  ASSUME Inv, NonNegative, [Next]_vars
  PROVE  SavedNonNegative'
<1>1. CASE UNCHANGED saved
  BY <1>1 DEF NonNegative, SavedNonNegative
<1>2. CASE SnapshotRedis
  BY <1>2 DEF SnapshotRedis, RedisSaves, NonNegative, StockNonNegative, SavedNonNegative
<1>3. ASSUME NEW r \in Request, Call(r)
      PROVE  UNCHANGED saved
  <2>1. \A l : ReserveFor(r, l) => UNCHANGED saved
    BY DEF ReserveFor, Reserve, redisVars, redisLife
  <2> QED
    BY <1>3, <2>1 DEF Call, AddToCart, Increase, Decrease, RemoveFromCart, Checkout, redisVars
<1>4. ASSUME NEW r \in Request, Step(r)
      PROVE  UNCHANGED saved
  <2>1. \A l : ReserveFor(r, l) => UNCHANGED saved
    BY DEF ReserveFor, Reserve, redisVars, redisLife
  <2> QED
    BY <1>4, <2>1 DEF Step, IncreaseReserve, SaveRow, SaveRowReplyLost, Undo,
     UndoDrop, ReleaseRow, DropKey, DeleteRow, ShrinkRow, Survey, RefreshKey, SaveOrder,
     ClearKey, EmptyCart, GetRemaining, Emit, CommandFails, redisVars, redisLife
<1>5. ASSUME NEW r \in Request, KeyExpires(r)
      PROVE  UNCHANGED saved
  BY <1>5 DEF KeyExpires, redisLife
<1>6. ASSUME NEW h \in exp, ExpireStep(h)
      PROVE  UNCHANGED saved
  BY <1>6 DEF ExpireStep, ExpireFind, ExpireRelease, ExpireDelete, ExpireEmit, ExpireFails,
     redisVars, redisLife
<1>7. CASE Crash \/ Boot \/ UNCHANGED vars
  BY <1>1, <1>7 DEF Crash, Boot, LoadScript, LoadReserveScript, SeedStock, Subscribe, vars,
     redisVars, redisLife
<1>8. CASE RestartRedis
  BY <1>1, <1>8 DEF RestartRedis, RedisRestarts
<1> QED
  BY <1>1, <1>2, <1>3, <1>4, <1>5, <1>6, <1>7, <1>8 DEF Next, RedisByItself

LEMMA NonNegativeNext ==
  ASSUME Inv, NonNegative, [Next]_vars
  PROVE  StockNonNegative'
<1>1. /\ stock \in [Item -> Int] /\ aggregateReservedQuantities \in [Item -> Nat]
      /\ StockNonNegative
  BY AggregateType DEF Inv, TypeOK, RedisTypeOK, NonNegative
<1>2. CASE UNCHANGED stock
  BY <1>1, <1>2 DEF StockNonNegative
<1>3. ASSUME NEW i \in Item, NEW c \in Request, NEW q \in Nat, NEW r \in Request,
             Reserve(i, c, q, r)
      PROVE  StockNonNegative'
  BY <1>1, <1>3 DEF Reserve, CanReserve, StockNonNegative
<1>4. ASSUME NEW i \in Item, NEW q \in Nat, Release(i, q)
      PROVE  StockNonNegative'
  BY <1>1, <1>4 DEF Release, StockNonNegative
<1>5. CASE Seed(Item, aggregateReservedQuantities)
  BY <1>1, <1>5, TotalStockAssumption DEF Seed, SeedValue, StockNonNegative
<1>6. CASE stock' = saved.stock
  BY <1>6 DEF NonNegative, SavedNonNegative, StockNonNegative
<1> QED
  BY <1>2, <1>3, <1>4, <1>5, <1>6, NextMoves DEF StockMoves

(* No interleaving of requests, expiries, failures, crashes, boots and    *)
(* restarts of Redis ever brings a live counter below zero.                *)
THEOREM NeverNegative == Spec => []StockNonNegative
<1>1. Init => NonNegative
  BY TotalStockAssumption
     DEF Init, RedisInit, Nothing, NonNegative, StockNonNegative, SavedNonNegative
<1>2. Inv /\ NonNegative /\ [Next]_vars => NonNegative'
  BY NonNegativeNext, SavedNext DEF NonNegative
<1>3. NonNegative => StockNonNegative
  BY DEF NonNegative
<1> QED
  BY <1>1, <1>2, <1>3, InvAlways, PTL DEF Spec

-----------------------------------------------------------------------------
(* What each handler's step leaves in its locals, field by field: the form *)
(* in which the proofs about rows and counters use the steps.              *)

(* The locals that request r has next, field by field; the other requests' *)
(* stay as they are.                                                       *)
Becomes(r, p, o, u, i, c, a, b, T, I, n) ==
  /\ req'[r].pc = p /\ req'[r].op = o /\ req'[r].user = u /\ req'[r].item = i
  /\ req'[r].id = c /\ req'[r].arg = a /\ req'[r].base = b
  /\ req'[r].todo = T /\ req'[r].items = I /\ req'[r].rem = n
  /\ \A s \in Request : s # r => req'[s] = req[s]

(* Request r ends: its user and the item its id knows stay, the rest is    *)
(* reset.                                                                  *)
Finishes(r, u, i) == Becomes(r, "done", None, u, i, None, 0, 0, {}, {}, 0)

(* The other requests' locals stay as they are. *)
Others(r) == \A s \in Request : s # r => req'[s] = req[s]

(* What Become makes of Finished locals.                                   *)
LEMMA FinishedNow ==
  ASSUME req \in [Request -> Locals], NEW r \in Request, NEW l, Become(r, Finished(l))
  PROVE  Finishes(r, l.user, ItemOfId(l))
BY DEF Become, Finished, Fresh, Finishes, Becomes

(* A reserve either takes the units and goes on to the save, or is         *)
(* refused.                                                                *)
LEMMA ReserveForNow ==
  ASSUME req \in [Request -> Locals], NEW r \in Request, NEW l \in Locals, ReserveFor(r, l)
  PROVE  \/ /\ Reserve(l.item, l.id, l.arg, r)
            /\ Becomes(r, "save", l.op, l.user, l.item, l.id, l.arg, l.base, l.todo,
                       l.items, stock[l.item] - l.arg)
         \/ /\ UNCHANGED redisVars
            /\ Finishes(r, l.user, ItemOfId(l))
<1>1. CASE Reserve(l.item, l.id, l.arg, r)
           /\ Become(r, [l EXCEPT !.pc = "save", !.rem = stock[l.item] - l.arg])
  BY <1>1 DEF Become, Becomes, Locals
<1>2. CASE Become(r, Finished(l)) /\ UNCHANGED redisVars
  BY <1>2, FinishedNow
<1> QED
  BY <1>1, <1>2 DEF ReserveFor

(* AddToCart.execute up to its save.                                       *)
LEMMA AddToCartNow ==
  ASSUME Inv, NEW r \in Request, NEW u \in User, NEW i \in Item, NEW q \in Quantity,
         AddToCart(r, u, i, q)
  PROVE  \/ /\ Reserve(i, r, q, r)
            /\ Becomes(r, "save", "add", u, i, r, q, 0, {}, {}, stock[i] - q)
         \/ /\ UNCHANGED redisVars
            /\ Finishes(r, u, i)
<1> DEFINE l == [Fresh EXCEPT !.op = "add", !.user = u, !.item = i, !.id = r, !.arg = q]
<1>1. q \in Nat /\ req \in [Request -> Locals]
  BY EnvironmentAssumption DEF Inv, TypeOK
<1>2. l \in Locals
  BY <1>1, FreshType, LocalsUpdate DEF Operation
<1>3. /\ l.op = "add" /\ l.user = u /\ l.item = i /\ l.id = r /\ l.arg = q
      /\ l.base = 0 /\ l.todo = {} /\ l.items = {}
  BY DEF Fresh
<1>4. ReserveFor(r, l)
  BY DEF AddToCart
<1> HIDE DEF l
<1>5. ItemOfId(l) = i
  BY <1>3 DEF ItemOfId
<1> QED
  BY <1>1, <1>2, <1>3, <1>4, <1>5, ReserveForNow

(* IncreaseCartItemQuantity.execute up to its reserve, on a row of the     *)
(* cart or on none.                                                        *)
LEMMA IncreaseNow ==
  ASSUME Inv, NEW r \in Request, NEW u \in User, NEW i \in Item, NEW q \in Quantity,
         Increase(r, u, i, q)
  PROVE  \/ /\ FindInCart(u, i) = {}
            /\ Becomes(r, "reserve", "increase", u, i, r, q, 0, {}, {}, 0)
         \/ \E row \in FindInCart(u, i) :
              Becomes(r, "reserve", "increase", u, i, row.id, q, row.qty, {}, {}, 0)
<1> DEFINE l == [Fresh EXCEPT !.pc = "reserve", !.op = "increase", !.user = u,
                              !.item = i, !.arg = q]
<1>1. ASSUME Become(r, [l EXCEPT !.id = r])
      PROVE  Becomes(r, "reserve", "increase", u, i, r, q, 0, {}, {}, 0)
  BY <1>1 DEF Inv, TypeOK, Become, Becomes, Fresh
<1>2. ASSUME NEW row \in FindInCart(u, i),
             Become(r, [l EXCEPT !.id = row.id, !.base = row.qty])
      PROVE  Becomes(r, "reserve", "increase", u, i, row.id, q, row.qty, {}, {}, 0)
  BY <1>2 DEF Inv, TypeOK, Become, Becomes, Fresh
<1>3. \/ FindInCart(u, i) = {} /\ Become(r, [l EXCEPT !.id = r])
      \/ \E row \in FindInCart(u, i) :
           Become(r, [l EXCEPT !.id = row.id, !.base = row.qty])
  BY DEF Increase
<1> HIDE DEF l
<1> QED
  BY <1>1, <1>2, <1>3

(* The reserve of IncreaseCartItemQuantity, and the locals it leaves.      *)
LEMMA IncreaseReserveNow ==
  ASSUME Inv, NEW r \in Request, IncreaseReserve(r)
  PROVE  \/ /\ Reserve(req[r].item, req[r].id, req[r].arg, r)
            /\ Becomes(r, "save", req[r].op, req[r].user, req[r].item, req[r].id,
                       req[r].arg, req[r].base, req[r].todo, req[r].items,
                       stock[req[r].item] - req[r].arg)
         \/ /\ UNCHANGED redisVars
            /\ Finishes(r, req[r].user, ItemOfId(req[r]))
BY ReserveForNow DEF Inv, TypeOK, IncreaseReserve

(* The row is saved; what comes next depends on the operation.             *)
LEMMA SaveRowNow ==
  ASSUME Inv, NEW r \in Request, SaveRow(r)
  PROVE  Becomes(r, AfterSave(req[r]), req[r].op, req[r].user, req[r].item, None, 0, 0,
                 req[r].todo, req[r].items, req[r].rem)
BY DEF Inv, TypeOK, SaveRow, Become, Becomes, Locals

(* A failed save: AddToCart rolls back, the others end.                    *)
LEMMA AfterFailedSaveNow ==
  ASSUME Inv, NEW r \in Request, Become(r, AfterFailedSave(req[r]))
  PROVE  \/ /\ req[r].op = "add"
            /\ Becomes(r, "undo", "add", req[r].user, req[r].item, req[r].id, req[r].arg,
                       req[r].base, req[r].todo, req[r].items, req[r].rem)
         \/ /\ req[r].op # "add"
            /\ Finishes(r, req[r].user, ItemOfId(req[r]))
<1>1. CASE req[r].op = "add"
  BY <1>1 DEF Inv, TypeOK, AfterFailedSave, Become, Becomes, Locals
<1>2. CASE req[r].op # "add"
  BY <1>2, FinishedNow DEF Inv, TypeOK, AfterFailedSave
<1> QED
  BY <1>1, <1>2

(* AddToCart's rollback has released the units and drops the key next.     *)
LEMMA UndoNow ==
  ASSUME Inv, NEW r \in Request, Undo(r)
  PROVE  Becomes(r, "undoDrop", req[r].op, req[r].user, req[r].item, req[r].id, req[r].arg,
                 req[r].base, req[r].todo, req[r].items, req[r].rem)
BY DEF Inv, TypeOK, Undo, Goto, Become, Becomes, Locals

(* AddToCart's rollback has dropped the key and reads the counter next.    *)
LEMMA UndoDropNow ==
  ASSUME Inv, NEW r \in Request, UndoDrop(r)
  PROVE  Becomes(r, "get", req[r].op, req[r].user, req[r].item, req[r].id, req[r].arg,
                 req[r].base, req[r].todo, {req[r].item}, req[r].rem)
BY DEF Inv, TypeOK, UndoDrop, Become, Becomes, Locals

(* RemoveFromCart.execute up to its first release.                         *)
LEMMA RemoveFromCartNow ==
  ASSUME Inv, NEW r \in Request, NEW u \in User, NEW i \in Item, RemoveFromCart(r, u, i)
  PROVE  \/ /\ FindInCart(u, i) = {}
            /\ Becomes(r, "get", "remove", u, i, None, 0, 0, {}, {i}, 0)
         \/ /\ FindInCart(u, i) # {}
            /\ Becomes(r, "release", "remove", u, i, None, 0, 0, FindInCart(u, i), {}, 0)
BY DEF Inv, TypeOK, RemoveFromCart, Become, Becomes, Fresh

(* DecreaseCartItemQuantity.execute up to its first release.               *)
LEMMA DecreaseNow ==
  ASSUME Inv, NEW r \in Request, NEW u \in User, NEW i \in Item, NEW q \in Quantity,
         Decrease(r, u, i, q)
  PROVE  \/ /\ FindInCart(u, i) = {}
            /\ Becomes(r, "get", "decrease", u, i, None, q, 0, {}, {i}, 0)
         \/ /\ FindInCart(u, i) # {}
            /\ Becomes(r, "release", "decrease", u, i, None, q, 0, FindInCart(u, i), {}, 0)
BY DEF Inv, TypeOK, Decrease, Become, Becomes, Fresh

(* A row is released: whole, and its key goes next, or in part, and the    *)
(* row shrinks next.                                                       *)
LEMMA ReleaseRowNow ==
  ASSUME Inv, NEW r \in Request, ReleaseRow(r)
  PROVE  \E row \in req[r].todo :
           LET q == ReleasedQty(req[r], row)
           IN  /\ Release(row.item, q)
               /\ \/ /\ Whole(req[r], row)
                     /\ Becomes(r, "drop", req[r].op, req[r].user, req[r].item, row.id,
                                NeedAfter(req[r], q), req[r].base, req[r].todo \ {row},
                                req[r].items, stock[row.item] + q)
                  \/ /\ ~Whole(req[r], row)
                     /\ Becomes(r, "shrink", req[r].op, req[r].user, req[r].item, row.id,
                                req[r].arg, row.qty, req[r].todo, req[r].items,
                                stock[row.item] + q)
<1>1. PICK row \in req[r].todo :
        LET q == ReleasedQty(req[r], row)
            l == [req[r] EXCEPT !.id = row.id, !.rem = stock[row.item] + q]
        IN  /\ Release(row.item, q)
            /\ \/ /\ Whole(req[r], row)
                  /\ Become(r, [l EXCEPT !.pc = "drop", !.todo = @ \ {row},
                                         !.arg = NeedAfter(req[r], q)])
               \/ /\ ~Whole(req[r], row)
                  /\ Become(r, [l EXCEPT !.pc = "shrink", !.base = row.qty])
  BY DEF ReleaseRow
<1> DEFINE q == ReleasedQty(req[r], row)
           n == stock[row.item] + q
           l == [req[r] EXCEPT !.id = row.id, !.rem = n]
           a == NeedAfter(req[r], q)
<1>2. Release(row.item, q)
  BY <1>1
<1>3. \/ /\ Whole(req[r], row)
         /\ Become(r, [l EXCEPT !.pc = "drop", !.todo = @ \ {row}, !.arg = a])
      \/ /\ ~Whole(req[r], row)
         /\ Become(r, [l EXCEPT !.pc = "shrink", !.base = row.qty])
  BY <1>1
<1> SUFFICES \/ /\ Whole(req[r], row)
                /\ Becomes(r, "drop", req[r].op, req[r].user, req[r].item, row.id, a,
                           req[r].base, req[r].todo \ {row}, req[r].items, n)
             \/ /\ ~Whole(req[r], row)
                /\ Becomes(r, "shrink", req[r].op, req[r].user, req[r].item, row.id,
                           req[r].arg, row.qty, req[r].todo, req[r].items, n)
  BY <1>2
<1> HIDE DEF a, n
<1>4. ASSUME Become(r, [l EXCEPT !.pc = "drop", !.todo = @ \ {row}, !.arg = a])
      PROVE  Becomes(r, "drop", req[r].op, req[r].user, req[r].item, row.id, a,
                     req[r].base, req[r].todo \ {row}, req[r].items, n)
  BY <1>4 DEF Inv, TypeOK, Become, Becomes, Locals
<1>5. ASSUME Become(r, [l EXCEPT !.pc = "shrink", !.base = row.qty])
      PROVE  Becomes(r, "shrink", req[r].op, req[r].user, req[r].item, row.id,
                     req[r].arg, row.qty, req[r].todo, req[r].items, n)
  BY <1>5 DEF Inv, TypeOK, Become, Becomes, Locals
<1> QED
  BY <1>3, <1>4, <1>5

(* The key of a released row is dropped; the row is deleted next.          *)
LEMMA DropKeyNow ==
  ASSUME Inv, NEW r \in Request, DropKey(r)
  PROVE  Becomes(r, "delete", req[r].op, req[r].user, req[r].item, req[r].id, req[r].arg,
                 req[r].base, req[r].todo, req[r].items, req[r].rem)
BY DEF Inv, TypeOK, DropKey, Goto, Become, Becomes, Locals

(* A released row is deleted: the loop goes on with the next row, or ends. *)
LEMMA DeleteRowNow ==
  ASSUME Inv, NEW r \in Request, DeleteRow(r)
  PROVE  \/ /\ ~LoopEnds(req[r])
            /\ Becomes(r, "release", req[r].op, req[r].user, req[r].item, None, req[r].arg,
                       req[r].base, req[r].todo, req[r].items, req[r].rem)
         \/ /\ LoopEnds(req[r])
            /\ Becomes(r, IF req[r].op = "remove" THEN "emit" ELSE "survey",
                       req[r].op, req[r].user, req[r].item, None, 0,
                       req[r].base, {}, req[r].items, req[r].rem)
BY DEF Inv, TypeOK, DeleteRow, AfterDelete, Become, Becomes, Locals

(* The row that lost units is saved; the cart is surveyed next.            *)
LEMMA ShrinkRowNow ==
  ASSUME Inv, NEW r \in Request, ShrinkRow(r)
  PROVE  Becomes(r, "survey", req[r].op, req[r].user, req[r].item, None, 0, 0, {},
                 req[r].items, req[r].rem)
BY DEF Inv, TypeOK, ShrinkRow, Become, Becomes, Locals

(* The rows whose keys are refreshed are those found now.                  *)
LEMMA SurveyNow ==
  ASSUME Inv, NEW r \in Request, Survey(r)
  PROVE  LET S == FindInCart(req[r].user, req[r].item)
         IN  Becomes(r, IF S = {} THEN "emit" ELSE "refresh", req[r].op, req[r].user,
                     req[r].item, req[r].id, req[r].arg, req[r].base, S, req[r].items,
                     req[r].rem)
BY DEF Inv, TypeOK, Survey, Become, Becomes, Locals

(* One key's time to live is refreshed.                                    *)
LEMMA RefreshKeyNow ==
  ASSUME Inv, NEW r \in Request, RefreshKey(r)
  PROVE  \E row \in req[r].todo :
           /\ Refresh(row.id, r)
           /\ Becomes(r, IF req[r].todo = {row} THEN "emit" ELSE "refresh", req[r].op,
                      req[r].user, req[r].item, req[r].id, req[r].arg, req[r].base,
                      req[r].todo \ {row}, req[r].items, req[r].rem)
BY DEF Inv, TypeOK, RefreshKey, Become, Becomes, Locals

(* Checkout.execute reads the cart it will order.                          *)
LEMMA CheckoutNow ==
  ASSUME Inv, NEW r \in Request, NEW u \in User, Checkout(r, u)
  PROVE  Becomes(r, "order", "checkout", u, None, None, 0, 0, FindByUser(u),
                 {row.item : row \in FindByUser(u)}, 0)
BY DEF Inv, TypeOK, Checkout, Become, Becomes, Fresh

(* The order is saved; the keys of its rows are cleared next.              *)
LEMMA SaveOrderNow ==
  ASSUME Inv, NEW r \in Request, SaveOrder(r)
  PROVE  Becomes(r, "clear", req[r].op, req[r].user, req[r].item, req[r].id, req[r].arg,
                 req[r].base, req[r].todo, req[r].items, req[r].rem)
BY DEF Inv, TypeOK, SaveOrder, Goto, Become, Becomes, Locals

(* One key of the ordered rows is dropped.                                 *)
LEMMA ClearKeyNow ==
  ASSUME Inv, NEW r \in Request, ClearKey(r)
  PROVE  \E row \in req[r].todo :
           /\ Drop(row.id)
           /\ Becomes(r, IF req[r].todo = {row} THEN "empty" ELSE "clear", req[r].op,
                      req[r].user, req[r].item, req[r].id, req[r].arg, req[r].base,
                      req[r].todo \ {row}, req[r].items, req[r].rem)
BY DEF Inv, TypeOK, ClearKey, Become, Becomes, Locals

(* The rows of the user are deleted; the counters are read next.           *)
LEMMA EmptyCartNow ==
  ASSUME Inv, NEW r \in Request, EmptyCart(r)
  PROVE  Becomes(r, "get", req[r].op, req[r].user, req[r].item, req[r].id, req[r].arg,
                 req[r].base, req[r].todo, req[r].items, req[r].rem)
BY DEF Inv, TypeOK, EmptyCart, Goto, Become, Becomes, Locals

(* One item's counter is read for the broadcast.                           *)
LEMMA GetRemainingNow ==
  ASSUME Inv, NEW r \in Request, GetRemaining(r)
  PROVE  \E i \in req[r].items :
           Becomes(r, IF req[r].op = "decrease" THEN "survey" ELSE "emit", req[r].op,
                   req[r].user, i, None, 0, req[r].base, req[r].todo, req[r].items \ {i},
                   stock[i])
BY DEF Inv, TypeOK, GetRemaining, Become, Becomes, Locals

(* One broadcast is sent: the request ends, or reads the next counter.     *)
LEMMA EmitNow ==
  ASSUME Inv, NEW r \in Request, Emit(r)
  PROVE  \/ /\ req[r].items = {}
            /\ Finishes(r, req[r].user, ItemOfId(req[r]))
         \/ /\ req[r].items # {}
            /\ Becomes(r, "get", req[r].op, req[r].user, req[r].item, req[r].id, req[r].arg,
                       req[r].base, req[r].todo, req[r].items, req[r].rem)
<1>1. CASE req[r].items = {}
  BY <1>1, FinishedNow DEF Inv, TypeOK, Emit
<1>2. CASE req[r].items # {}
  BY <1>2 DEF Inv, TypeOK, Emit, Goto, Become, Becomes, Locals
<1> QED
  BY <1>1, <1>2

(* A failing call ends the request, but for AddToCart's save, which is     *)
(* rolled back.                                                            *)
LEMMA CommandFailsNow ==
  ASSUME Inv, NEW r \in Request, CommandFails(r)
  PROVE  \/ /\ req[r].pc = "save" /\ req[r].op = "add"
            /\ Becomes(r, "undo", "add", req[r].user, req[r].item, req[r].id, req[r].arg,
                       req[r].base, req[r].todo, req[r].items, req[r].rem)
         \/ /\ ~(req[r].pc = "save" /\ req[r].op = "add")
            /\ Finishes(r, req[r].user, ItemOfId(req[r]))
<1>1. CASE req[r].pc = "save"
  BY <1>1, AfterFailedSaveNow DEF CommandFails
<1>2. CASE req[r].pc # "save"
  BY <1>2, FinishedNow DEF Inv, TypeOK, CommandFails
<1> QED
  BY <1>1, <1>2

(* A crash ends every request in flight and leaves the others.             *)
LEMMA CrashNow ==
  ASSUME Inv, Crash
  PROVE  \A r \in Request :
           /\ ~InFlight(r) => req'[r] = req[r]
           /\ InFlight(r) => /\ req'[r].pc = "done" /\ req'[r].user = req[r].user
                             /\ req'[r].item = ItemOfId(req[r]) /\ req'[r].op = None
                             /\ req'[r].todo = {} /\ req'[r].items = {}
BY DEF Inv, TypeOK, Crash, Finished, Fresh

-----------------------------------------------------------------------------
(* Counting units.  The units in cart rows and in the hands of handlers    *)
(* are sets of pairs, so that quantities add up as cardinalities.          *)

(* The units of x above a, b of them: a run of units of one row or one     *)
(* request.                                                                *)
Stack(x, a, b) == {x} \X ((a + 1) .. (a + b))

(* A stack of b units has b units.                                         *)
LEMMA StackSize ==
  ASSUME NEW x, NEW a \in Nat, NEW b \in Nat
  PROVE  IsFiniteSet(Stack(x, a, b)) /\ Cardinality(Stack(x, a, b)) = b
<1> DEFINE T == (a + 1) .. (a + b)
<1>1. IsFiniteSet(T) /\ Cardinality(T) = b
  <2>1. a + 1 \in Int /\ a + b \in Int
    OBVIOUS
  <2>2. IsFiniteSet(T) /\ Cardinality(T) = IF a + 1 > a + b THEN 0 ELSE (a + b) - (a + 1) + 1
    BY <2>1, FS_Interval
  <2> HIDE DEF T
  <2> QED
    BY <2>2
<1>2. IsFiniteSet({x}) /\ Cardinality({x}) = 1
  BY FS_Singleton
<1> HIDE DEF T
<1>3. IsFiniteSet({x} \X T) /\ Cardinality({x} \X T) = Cardinality({x}) * Cardinality(T)
  BY <1>1, <1>2, FS_Product
<1>4. Cardinality({x} \X T) = b
  BY <1>1, <1>2, <1>3
<1> QED
  BY <1>3, <1>4 DEF Stack, T

(* The first b units. *)
LEMMA FirstUnits ==
  ASSUME NEW x, NEW b \in Nat
  PROVE  /\ {x} \X (1 .. b) = Stack(x, 0, b)
         /\ \A a \in Nat : {x} \X (1 .. (a + b)) = ({x} \X (1 .. a)) \cup Stack(x, a, b)
BY DEF Stack

(* A set that is no more than another one and a stack. *)
LEMMA Grown ==
  ASSUME NEW A, IsFiniteSet(A), NEW x, NEW a \in Nat, NEW b \in Nat,
         NEW B, B \subseteq A \cup Stack(x, a, b)
  PROVE  /\ IsFiniteSet(B) /\ Cardinality(A) \in Nat /\ Cardinality(B) \in Nat
         /\ Cardinality(B) <= Cardinality(A) + b
<1> DEFINE D == Stack(x, a, b)
<1>1. IsFiniteSet(D) /\ Cardinality(D) = b
  BY StackSize
<1> HIDE DEF D
<1>2. /\ IsFiniteSet(A \cup D)
      /\ Cardinality(A \cup D) = Cardinality(A) + Cardinality(D) - Cardinality(A \cap D)
  BY <1>1, FS_Union
<1>3. IsFiniteSet(A \cap D)
  BY FS_Intersection
<1>4. Cardinality(A \cap D) \in Nat /\ Cardinality(A) \in Nat
  BY <1>3, FS_CardinalityType
<1>5. IsFiniteSet(B) /\ Cardinality(B) <= Cardinality(A \cup D)
  BY <1>2, FS_Subset DEF D
<1>6. Cardinality(B) \in Nat
  BY <1>5, FS_CardinalityType
<1> QED
  BY <1>1, <1>2, <1>4, <1>5, <1>6

(* A set that has lost a stack at least. *)
LEMMA Shrunk ==
  ASSUME NEW A, IsFiniteSet(A), NEW x, NEW a \in Nat, NEW b \in Nat,
         Stack(x, a, b) \subseteq A, NEW B, B \subseteq A \ Stack(x, a, b)
  PROVE  /\ IsFiniteSet(B) /\ Cardinality(A) \in Nat /\ Cardinality(B) \in Nat
         /\ Cardinality(B) + b <= Cardinality(A)
<1> DEFINE D == Stack(x, a, b)
<1>1. IsFiniteSet(D) /\ Cardinality(D) = b /\ A \cap D = D
  BY StackSize
<1> HIDE DEF D
<1>2. /\ IsFiniteSet(A \ D)
      /\ Cardinality(A \ D) = Cardinality(A) - Cardinality(A \cap D)
  BY FS_Difference
<1>3. Cardinality(A) \in Nat
  BY FS_CardinalityType
<1>4. IsFiniteSet(B) /\ Cardinality(B) <= Cardinality(A \ D)
  BY <1>2, FS_Subset DEF D
<1>5. Cardinality(B) \in Nat
  BY <1>4, FS_CardinalityType
<1> QED
  BY <1>1, <1>2, <1>3, <1>4, <1>5

(* A set and a stack that have nothing in common. *)
LEMMA Joined ==
  ASSUME NEW A, IsFiniteSet(A), NEW x, NEW a \in Nat, NEW b \in Nat,
         A \cap Stack(x, a, b) = {}
  PROVE  /\ IsFiniteSet(A \cup Stack(x, a, b)) /\ Cardinality(A) \in Nat
         /\ Cardinality(A \cup Stack(x, a, b)) = Cardinality(A) + b
<1> DEFINE D == Stack(x, a, b)
<1>1. IsFiniteSet(D) /\ Cardinality(D) = b /\ A \cap D = {}
  BY StackSize
<1> HIDE DEF D
<1>2. /\ IsFiniteSet(A \cup D)
      /\ Cardinality(A \cup D) = Cardinality(A) + Cardinality(D) - Cardinality(A \cap D)
  BY <1>1, FS_Union
<1>3. Cardinality({}) = 0
  BY FS_EmptySet
<1>4. Cardinality(A) \in Nat
  BY FS_CardinalityType
<1>5. Cardinality(A \cap D) = 0
  BY <1>1, <1>3, Zenon
<1>6. Cardinality(A \cup D) = Cardinality(A) + b
  BY <1>1, <1>2, <1>4, <1>5
<1> QED
  BY <1>2, <1>4, <1>6 DEF D

(* Stacks on the elements of a finite set are finitely many units. *)
LEMMA StacksFinite ==
  ASSUME NEW S, IsFiniteSet(S), NEW x, NEW n, \A s \in S : n[s] \in Nat
  PROVE  IsFiniteSet(UNION {{x[s]} \X (1 .. n[s]) : s \in S})
<1> DEFINE f == [s \in S |-> {x[s]} \X (1 .. n[s])]
           U == {f[s] : s \in S}
<1>1. IsFiniteSet(U)
  <2>1. f \in [S -> U]
    OBVIOUS
  <2>2. \A y \in U : \E s \in S : f[s] = y
    OBVIOUS
  <2> HIDE DEF f, U
  <2> QED
    BY <2>1, <2>2, FiniteRange
<1>2. ASSUME NEW X \in U
      PROVE  IsFiniteSet(X)
  <2>1. PICK s \in S : X = {x[s]} \X (1 .. n[s])
    OBVIOUS
  <2>2. IsFiniteSet(1 .. n[s])
    BY FS_Interval
  <2>3. IsFiniteSet({x[s]})
    BY FS_Singleton
  <2> QED
    BY <2>1, <2>2, <2>3, FS_Product
<1>3. UNION {{x[s]} \X (1 .. n[s]) : s \in S} = UNION U
  OBVIOUS
<1> QED
  BY <1>1, <1>2, <1>3, FS_UNION

(* So are the units of finitely many rows, and those in cart rows. *)
LEMMA UnitsFinite ==
  ASSUME NEW R \in SUBSET CartRow, IsFiniteSet(R)
  PROVE  IsFiniteSet(UnitsOf(R))
<1> DEFINE x == [row \in R |-> row.id]
           n == [row \in R |-> row.qty]
<1>1. \A row \in R : n[row] \in Nat
  BY DEF CartRow
<1>2. IsFiniteSet(UNION {{x[row]} \X (1 .. n[row]) : row \in R})
  <2> HIDE DEF x, n
  <2> QED
    BY <1>1, StacksFinite
<1>3. UnitsOf(R) = UNION {{x[row]} \X (1 .. n[row]) : row \in R}
  BY DEF UnitsOf
<1> QED
  BY <1>2, <1>3

(* Cart rows that are in the collection are finitely many, and so are      *)
(* their units.                                                            *)
LEMMA RowsFinite ==
  ASSUME rows \in [Request -> CartRow \cup {None}],
         NEW R, \A row \in R : row \in CartRow /\ \E c \in Request : rows[c] = row
  PROVE  R \in SUBSET CartRow /\ IsFiniteSet(R) /\ IsFiniteSet(UnitsOf(R))
<1> DEFINE T == {rows[c] : c \in Request}
<1>1. IsFiniteSet(T)
  <2>1. rows \in [Request -> T] /\ \A y \in T : \E c \in Request : rows[c] = y
    OBVIOUS
  <2> HIDE DEF T
  <2> QED
    BY <2>1, FiniteRange, EnvironmentAssumption
<1>2. R \in SUBSET T /\ R \in SUBSET CartRow
  OBVIOUS
<1>3. IsFiniteSet(R)
  <2> HIDE DEF T
  <2> QED
    BY <1>1, <1>2, FS_Subset
<1> QED
  BY <1>2, <1>3, UnitsFinite

-----------------------------------------------------------------------------
(* Carts stay separate: whatever the interleaving, the crashes and the     *)
(* failures, every row that a handler reads, keeps, writes or sells is a   *)
(* row of the user it runs for.                                            *)
(*                                                                         *)
(* The argument: the user and the item of the request that generated an id *)
(* never change once the request has arrived (Kept), and every row is      *)
(* written with the user and the item of that request (Separated).         *)

(* By the locals rq of all requests, request d has generated (or may       *)
(* generate) the id of a row of user u and item i.                         *)
Owns(rq, d, u, i) == /\ rq[d].pc # "new"
                     /\ rq[d].op # "checkout"
                     /\ rq[d].user = u
                     /\ rq[d].item = i

OwnedRow(rq, row) == Owns(rq, row.id, row.user, row.item)

(* What one handler's locals say of the carts. *)
LocalsOwned(rq, l) ==
  /\ \A row \in l.todo : /\ OwnedRow(rq, row)
                         /\ row.user = l.user
                         /\ l.op # "checkout" => row.item = l.item
  /\ l.pc \in {"reserve", "save", "shrink"} => Owns(rq, l.id, l.user, l.item)
  /\ l.pc \in {"release", "drop", "delete"} => l.op # "checkout"
  /\ l.op # "checkout" => l.items \subseteq {l.item}

AllLocalsOwned == \A r \in Request : LocalsOwned(req, req[r])

RowsOwned ==
  \A c \in Request : rows[c] # None => rows[c].id = c /\ OwnedRow(req, rows[c])

OrdersOwned ==
  \A r \in Request :
    /\ req[r].pc = "new" => orders[r] = {}
    /\ \A row \in orders[r] : OwnedRow(req, row) /\ row.user = req[r].user

HandlersOwned ==
  \A h \in exp : h.row # None => h.row.id = h.id /\ OwnedRow(req, h.row)

Separated == RowsOwned /\ OrdersOwned /\ HandlersOwned /\ AllLocalsOwned

(* A request that has arrived stays whose it is. *)
KeptBy(old, new) ==
  old.pc # "new" =>
    /\ new.pc # "new"
    /\ new.user = old.user
    /\ old.op # "checkout" => new.op # "checkout" /\ new.item = old.item

Kept == \A r \in Request : KeptBy(req[r], req'[r])

-----------------------------------------------------------------------------
(* Kept holds of every step.                                               *)

LEMMA FinishedKept ==
  ASSUME NEW l
  PROVE  KeptBy(l, Finished(l)) /\ Finished(l).user = l.user
<1>1. Finished(l).pc = "done" /\ Finished(l).user = l.user
  BY DEF Finished, Fresh
<1>2. Finished(l).op = None /\ Finished(l).item = ItemOfId(l)
  BY DEF Finished, Fresh
<1>3. None # "checkout"
  BY EnvironmentAssumption DEF Operation
<1> QED
  BY <1>1, <1>2, <1>3 DEF KeptBy, ItemOfId

LEMMA BecomeKept ==
  ASSUME req \in [Request -> Locals], NEW r \in Request, NEW l, Become(r, l),
         KeptBy(req[r], l)
  PROVE  Kept
BY DEF Become, Kept, KeptBy

LEMMA ReserveForKept ==
  ASSUME req \in [Request -> Locals], NEW r \in Request, NEW l \in Locals,
         KeptBy(req[r], l), ReserveFor(r, l)
  PROVE  Kept
<1>1. CASE Become(r, Finished(l))
  BY <1>1, FinishedKept, BecomeKept DEF KeptBy
<1>2. CASE Become(r, [l EXCEPT !.pc = "save", !.rem = stock[l.item] - l.arg])
  <2> DEFINE m == [l EXCEPT !.pc = "save", !.rem = stock[l.item] - l.arg]
  <2>1. m.pc = "save" /\ m.user = l.user /\ m.op = l.op /\ m.item = l.item
    BY DEF Locals
  <2>2. Become(r, m)
    BY <1>2
  <2> HIDE DEF m
  <2> QED
    BY <2>1, <2>2, BecomeKept DEF KeptBy
<1> QED
  BY <1>1, <1>2 DEF ReserveFor

LEMMA CallKept ==
  ASSUME Inv, NEW r \in Request, Call(r)
  PROVE  Kept
<1>1. req \in [Request -> Locals]
  BY DEF Inv, TypeOK
<1>2. ASSUME NEW l, Become(r, l), req[r].pc = "new"
      PROVE  Kept
  BY <1>1, <1>2, BecomeKept DEF KeptBy
<1>3. ASSUME NEW u \in User, NEW i \in Item, NEW q \in Quantity, AddToCart(r, u, i, q)
      PROVE  Kept
  BY <1>2, <1>3 DEF AddToCart, Arrives, ReserveFor
<1>4. ASSUME NEW u \in User, NEW i \in Item, NEW q \in Quantity, Increase(r, u, i, q)
      PROVE  Kept
  BY <1>2, <1>4 DEF Increase, Arrives
<1>5. ASSUME NEW u \in User, NEW i \in Item, NEW q \in Quantity, Decrease(r, u, i, q)
      PROVE  Kept
  BY <1>2, <1>5 DEF Decrease, Arrives
<1>6. ASSUME NEW u \in User, NEW i \in Item, RemoveFromCart(r, u, i)
      PROVE  Kept
  BY <1>2, <1>6 DEF RemoveFromCart, Arrives
<1>7. ASSUME NEW u \in User, Checkout(r, u)
      PROVE  Kept
  BY <1>2, <1>7 DEF Checkout, Arrives
<1> QED
  BY <1>3, <1>4, <1>5, <1>6, <1>7 DEF Call

(* A handler that goes on keeps its user, operation and item; only a       *)
(* checkout moves from item to item.                                       *)
LEMMA StepKept ==
  ASSUME Inv, AllLocalsOwned, NEW r \in Request, Step(r)
  PROVE  Kept
<1>1. req \in [Request -> Locals] /\ req[r] \in Locals
  BY DEF Inv, TypeOK
<1>2. ASSUME NEW m, Become(r, m), m.pc # "new", m.user = req[r].user, m.op = req[r].op,
             m.item = req[r].item
      PROVE  Kept
  BY <1>1, <1>2, BecomeKept DEF KeptBy
<1>3. ASSUME Become(r, Finished(req[r]))
      PROVE  Kept
  BY <1>1, <1>3, FinishedKept, BecomeKept
<1>4. CASE IncreaseReserve(r)
  BY <1>1, <1>4, ReserveForKept DEF IncreaseReserve, At, KeptBy
<1>5. ASSUME NEW p, p # "new", Goto(r, p)
      PROVE  Kept
  <2> DEFINE m == [req[r] EXCEPT !.pc = p]
  <2>1. m.pc = p /\ m.user = req[r].user /\ m.op = req[r].op /\ m.item = req[r].item
    BY <1>1 DEF Locals
  <2>2. Become(r, m)
    BY <1>5 DEF Goto
  <2> HIDE DEF m
  <2> QED
    BY <1>2, <1>5, <2>1, <2>2
<1>6. ASSUME Become(r, AfterFailedSave(req[r]))
      PROVE  Kept
  <2>1. Become(r, Finished(req[r])) \/ Goto(r, "undo")
    BY <1>6 DEF AfterFailedSave, Goto
  <2> QED
    BY <1>3, <1>5, <2>1
<1>7. CASE SaveRow(r)
  <2> DEFINE m == [req[r] EXCEPT !.pc = AfterSave(req[r]), !.id = None, !.arg = 0, !.base = 0]
  <2>1. m.pc # "new" /\ m.user = req[r].user /\ m.op = req[r].op /\ m.item = req[r].item
    BY <1>1 DEF Locals, AfterSave
  <2>2. Become(r, m)
    BY <1>7 DEF SaveRow
  <2> HIDE DEF m
  <2> QED
    BY <1>2, <2>1, <2>2
<1>8. CASE UndoDrop(r)
  <2> DEFINE m == [req[r] EXCEPT !.pc = "get", !.items = {req[r].item}]
  <2>1. m.pc # "new" /\ m.user = req[r].user /\ m.op = req[r].op /\ m.item = req[r].item
    BY <1>1 DEF Locals
  <2>2. Become(r, m)
    BY <1>8 DEF UndoDrop
  <2> HIDE DEF m
  <2> QED
    BY <1>2, <2>1, <2>2
<1>9. CASE ReleaseRow(r)
  <2>1. PICK row, q :
          LET l == [req[r] EXCEPT !.id = row.id, !.rem = stock[row.item] + q]
          IN  \/ Become(r, [l EXCEPT !.pc = "drop", !.todo = @ \ {row},
                                     !.arg = NeedAfter(req[r], q)])
              \/ Become(r, [l EXCEPT !.pc = "shrink", !.base = row.qty])
    BY <1>9 DEF ReleaseRow
  <2> DEFINE l == [req[r] EXCEPT !.id = row.id, !.rem = stock[row.item] + q]
             m == [l EXCEPT !.pc = "drop", !.todo = @ \ {row}, !.arg = NeedAfter(req[r], q)]
             n == [l EXCEPT !.pc = "shrink", !.base = row.qty]
  <2>2. l.user = req[r].user /\ l.op = req[r].op /\ l.item = req[r].item
        /\ DOMAIN l = DOMAIN req[r]
    BY <1>1 DEF Locals
  <2>3. Become(r, m) \/ Become(r, n)
    BY <2>1
  <2> HIDE DEF l
  <2>4. m.pc # "new" /\ m.user = req[r].user /\ m.op = req[r].op /\ m.item = req[r].item
    BY <1>1, <2>2 DEF Locals
  <2>5. n.pc # "new" /\ n.user = req[r].user /\ n.op = req[r].op /\ n.item = req[r].item
    BY <1>1, <2>2 DEF Locals
  <2> HIDE DEF m, n
  <2> QED
    BY <1>2, <2>3, <2>4, <2>5
<1>10. CASE DeleteRow(r)
  <2> DEFINE p == IF req[r].op = "remove" THEN "emit" ELSE "survey"
             m == [req[r] EXCEPT !.pc = "release", !.id = None]
             n == [req[r] EXCEPT !.pc = p, !.todo = {}, !.arg = 0, !.id = None]
  <2>1. Become(r, m) \/ Become(r, n)
    BY <1>10 DEF DeleteRow, AfterDelete
  <2>2. p # "new"
    OBVIOUS
  <2> HIDE DEF p
  <2>3. m.pc # "new" /\ m.user = req[r].user /\ m.op = req[r].op /\ m.item = req[r].item
    BY <1>1 DEF Locals
  <2>4. n.pc # "new" /\ n.user = req[r].user /\ n.op = req[r].op /\ n.item = req[r].item
    BY <1>1, <2>2 DEF Locals
  <2> HIDE DEF m, n
  <2> QED
    BY <1>2, <2>1, <2>3, <2>4
<1>11. CASE ShrinkRow(r)
  <2> DEFINE m == [req[r] EXCEPT !.pc = "survey", !.id = None, !.arg = 0, !.base = 0, !.todo = {}]
  <2>1. m.pc # "new" /\ m.user = req[r].user /\ m.op = req[r].op /\ m.item = req[r].item
    BY <1>1 DEF Locals
  <2>2. Become(r, m)
    BY <1>11 DEF ShrinkRow
  <2> HIDE DEF m
  <2> QED
    BY <1>2, <2>1, <2>2
<1>12. ASSUME NEW p, NEW S, p # "new", Become(r, [req[r] EXCEPT !.pc = p, !.todo = S])
       PROVE  Kept
  <2> DEFINE m == [req[r] EXCEPT !.pc = p, !.todo = S]
  <2>1. m.pc # "new" /\ m.user = req[r].user /\ m.op = req[r].op /\ m.item = req[r].item
    BY <1>1, <1>12 DEF Locals
  <2>2. Become(r, m)
    BY <1>12
  <2> HIDE DEF m
  <2> QED
    BY <1>2, <2>1, <2>2
<1>13. CASE Survey(r) \/ RefreshKey(r) \/ ClearKey(r)
  BY <1>12, <1>13 DEF Survey, RefreshKey, ClearKey
<1>14. CASE Undo(r) \/ DropKey(r) \/ SaveOrder(r) \/ EmptyCart(r)
  BY <1>5, <1>14 DEF Undo, DropKey, SaveOrder, EmptyCart
<1>15. CASE Emit(r)
  BY <1>3, <1>5, <1>15 DEF Emit
<1>16. CASE CommandFails(r) \/ SaveRowReplyLost(r)
  BY <1>3, <1>6, <1>16 DEF CommandFails, SaveRowReplyLost
<1>17. CASE GetRemaining(r)
  <2>1. PICK i \in req[r].items :
          Become(r, [req[r] EXCEPT !.pc = IF req[r].op = "decrease" THEN "survey" ELSE "emit",
                                   !.item = i, !.items = @ \ {i}, !.rem = stock[i],
                                   !.arg = 0, !.id = None])
    BY <1>17 DEF GetRemaining
  <2> DEFINE p == IF req[r].op = "decrease" THEN "survey" ELSE "emit"
             m == [req[r] EXCEPT !.pc = p, !.item = i, !.items = @ \ {i}, !.rem = stock[i],
                                 !.arg = 0, !.id = None]
  <2>2. p # "new"
    OBVIOUS
  <2>3. Become(r, m)
    BY <2>1
  <2> HIDE DEF p
  <2>4. m.pc # "new" /\ m.user = req[r].user /\ m.op = req[r].op /\ m.item = i
    BY <1>1, <2>2 DEF Locals
  <2>5. req[r].op # "checkout" => i = req[r].item
    BY <2>1 DEF AllLocalsOwned, LocalsOwned
  <2> HIDE DEF m
  <2> QED
    BY <1>1, <2>3, <2>4, <2>5, BecomeKept DEF KeptBy
<1> QED
  BY <1>4, <1>7, <1>8, <1>9, <1>10, <1>11, <1>13, <1>14, <1>15, <1>16, <1>17 DEF Step

LEMMA NextKept ==
  ASSUME Inv, Separated, [Next]_vars
  PROVE  Kept
<1>0. req \in [Request -> Locals]
  BY DEF Inv, TypeOK
<1>1. CASE UNCHANGED req
  BY <1>1 DEF Kept, KeptBy
<1>2. ASSUME NEW r \in Request, Call(r) \/ Step(r)
      PROVE  Kept
  BY <1>2, CallKept, StepKept DEF Separated
<1>3. CASE Crash
  <2>1. req' = [r \in Request |-> IF InFlight(r) THEN Finished(req[r]) ELSE req[r]]
    BY <1>3 DEF Crash
  <2>2. \A l : KeptBy(l, l) /\ KeptBy(l, Finished(l))
    BY FinishedKept DEF KeptBy
  <2> QED
    BY <2>1, <2>2 DEF Kept
<1>4. CASE \/ \E r \in Request : KeyExpires(r)
           \/ \E h \in exp : ExpireStep(h)
           \/ Boot \/ RedisByItself \/ UNCHANGED vars
  <2>1. UNCHANGED req
    BY <1>4 DEF KeyExpires, ExpireStep, ExpireFind, ExpireRelease, ExpireDelete, ExpireEmit,
       ExpireFails, Boot, LoadScript, SeedStock, Subscribe,
       RedisByItself, SnapshotRedis, RestartRedis, vars
  <2> QED
    BY <1>1, <2>1
<1> QED
  BY <1>2, <1>3, <1>4 DEF Next

(* What is owned stays owned. *)
LEMMA OwnedStays ==
  ASSUME Kept
  PROVE  /\ \A d \in Request : \A u, i : Owns(req, d, u, i) => Owns(req', d, u, i)
         /\ \A row \in CartRow : OwnedRow(req, row) => OwnedRow(req', row)
BY DEF Kept, KeptBy, Owns, OwnedRow, CartRow

-----------------------------------------------------------------------------
(* Separated is preserved: what handlers keep.                             *)

LEMMA LocalsOwnedStays ==
  ASSUME Kept, NEW l \in Locals, LocalsOwned(req, l),
         l.pc \in {"reserve", "save", "shrink"} => l.id \in Request
  PROVE  LocalsOwned(req', l)
<1>1. l.todo \in SUBSET CartRow
  BY DEF Locals
<1>2. \A row \in l.todo : OwnedRow(req', row)
  BY <1>1, OwnedStays DEF LocalsOwned
<1>3. l.pc \in {"reserve", "save", "shrink"} => Owns(req', l.id, l.user, l.item)
  BY OwnedStays DEF LocalsOwned
<1> QED
  BY <1>2, <1>3 DEF LocalsOwned

(* When one request's locals change, only those are to be looked at. *)
LEMMA BecomeOwned ==
  ASSUME Inv, AllLocalsOwned, Kept,
         NEW r \in Request, NEW l, Become(r, l), LocalsOwned(req', l)
  PROVE  AllLocalsOwned'
<1>1. req \in [Request -> Locals]
  BY DEF Inv, TypeOK
<1>2. \A s \in Request : LocalsOwned(req', req'[s])
  <2> SUFFICES ASSUME NEW s \in Request PROVE LocalsOwned(req', req'[s])
    OBVIOUS
  <2>1. CASE s = r
    BY <1>1, <2>1 DEF Become
  <2>2. CASE s # r
    <3>1. req'[s] = req[s] /\ req[s] \in Locals
      BY <1>1, <2>2 DEF Become
    <3>2. req[s].pc \in {"reserve", "save", "shrink"} => req[s].id \in Request
      BY DEF Inv, LocalsOK
    <3> QED
      BY <3>1, <3>2, LocalsOwnedStays DEF AllLocalsOwned
  <2> QED
    BY <2>1, <2>2
<1> QED
  BY <1>2 DEF AllLocalsOwned

(* Locals that stay at rest own what the same locals owned before. *)
LEMMA FinishedOwned ==
  ASSUME NEW l, NEW rq
  PROVE  LocalsOwned(rq, Finished(l))
<1>1. Finished(l).pc = "done" /\ Finished(l).todo = {} /\ Finished(l).items = {}
  BY DEF Finished, Fresh
<1> QED
  BY <1>1 DEF LocalsOwned

(* What is found in a cart is that user's, as long as the rows are. *)
LEMMA FoundOwned ==
  ASSUME Inv, RowsOwned
  PROVE  /\ \A u : \A row \in FindByUser(u) :
              row \in CartRow /\ row.user = u /\ OwnedRow(req, row)
         /\ \A u, i : \A row \in FindInCart(u, i) :
              row \in CartRow /\ row.user = u /\ row.item = i /\ OwnedRow(req, row)
<1>1. rows \in [Request -> CartRow \cup {None}]
  BY DEF Inv, TypeOK
<1>2. \A u : \A row \in FindByUser(u) : row \in CartRow /\ row.user = u /\ OwnedRow(req, row)
  BY <1>1 DEF FindByUser, RowsOwned
<1> QED
  BY <1>2 DEF FindInCart

(* The reserve leaves locals that own what the request arrived with. *)
LEMMA ReserveForOwned ==
  ASSUME Inv, AllLocalsOwned, Kept, NEW r \in Request, NEW l \in Locals, ReserveFor(r, l),
         l.todo = {}, l.items = {}, l.op # "checkout",
         l.id = r \/ (l.id \in Request /\ Owns(req, l.id, l.user, l.item))
  PROVE  AllLocalsOwned'
<1>1. CASE Become(r, Finished(l))
  BY <1>1, FinishedOwned, BecomeOwned
<1>2. CASE Become(r, [l EXCEPT !.pc = "save", !.rem = stock[l.item] - l.arg])
  <2> DEFINE m == [l EXCEPT !.pc = "save", !.rem = stock[l.item] - l.arg]
  <2>1. /\ m.pc = "save" /\ m.user = l.user /\ m.op = l.op /\ m.item = l.item
        /\ m.id = l.id /\ m.todo = {} /\ m.items = {}
    BY DEF Locals
  <2>2. Become(r, m)
    BY <1>2
  <2> HIDE DEF m
  <2>3. req'[r] = m
    BY <2>2 DEF Become, Inv, TypeOK
  <2>4. Owns(req', m.id, m.user, m.item)
    <3>1. CASE l.id = r
      BY <2>1, <2>3, <3>1 DEF Owns
    <3>2. CASE l.id \in Request /\ Owns(req, l.id, l.user, l.item)
      BY <2>1, <3>2, OwnedStays
    <3> QED
      BY <3>1, <3>2
  <2> QED
    BY <2>1, <2>2, <2>4, BecomeOwned DEF LocalsOwned
<1> QED
  BY <1>1, <1>2 DEF ReserveFor

LEMMA CallOwned ==
  ASSUME Inv, Separated, Kept, NEW r \in Request, Call(r)
  PROVE  AllLocalsOwned'
<1>1. /\ AllLocalsOwned /\ RowsOwned
      /\ req \in [Request -> Locals]
  BY DEF Separated, Inv, TypeOK
<1>2. ASSUME NEW u \in User, NEW i \in Item, NEW q \in Quantity, AddToCart(r, u, i, q)
      PROVE  AllLocalsOwned'
  <2> DEFINE l == [Fresh EXCEPT !.op = "add", !.user = u, !.item = i, !.id = r, !.arg = q]
  <2>1. q \in Nat
    BY EnvironmentAssumption
  <2>2. l \in Locals
    BY <2>1, FreshType, LocalsUpdate DEF Operation
  <2>3. l.todo = {} /\ l.items = {} /\ l.op # "checkout" /\ l.id = r
    BY DEF Fresh
  <2>4. ReserveFor(r, l)
    BY <1>2 DEF AddToCart
  <2> HIDE DEF l
  <2> QED
    BY <1>1, <2>2, <2>3, <2>4, ReserveForOwned
<1>3. ASSUME NEW u \in User, NEW i \in Item, NEW q \in Quantity, Increase(r, u, i, q)
      PROVE  AllLocalsOwned'
  <2> DEFINE l == [Fresh EXCEPT !.pc = "reserve", !.op = "increase", !.user = u,
                                !.item = i, !.arg = q]
  <2>1. q \in Nat
    BY EnvironmentAssumption
  <2>2. l \in Locals
    BY <2>1, FreshType, LocalsUpdate DEF Operation, Pc
  <2>3. /\ l.pc = "reserve" /\ l.op = "increase" /\ l.user = u /\ l.item = i
        /\ l.todo = {} /\ l.items = {}
    BY DEF Fresh
  <2>4. CASE Become(r, [l EXCEPT !.id = r])
    <3> DEFINE m == [l EXCEPT !.id = r]
    <3>1. /\ m.pc = "reserve" /\ m.op = "increase" /\ m.user = u /\ m.item = i
          /\ m.todo = {} /\ m.items = {} /\ m.id = r
      BY <2>2, <2>3 DEF Locals
    <3>2. Become(r, m)
      BY <2>4
    <3> HIDE DEF m
    <3>3. req'[r] = m
      BY <1>1, <3>2 DEF Become
    <3>4. Owns(req', m.id, m.user, m.item)
      BY <3>1, <3>3 DEF Owns
    <3> QED
      BY <1>1, <3>1, <3>2, <3>4, BecomeOwned DEF LocalsOwned
  <2>5. ASSUME NEW row \in FindInCart(u, i),
               Become(r, [l EXCEPT !.id = row.id, !.base = row.qty])
        PROVE  AllLocalsOwned'
    <3> DEFINE m == [l EXCEPT !.id = row.id, !.base = row.qty]
    <3>1. /\ m.pc = "reserve" /\ m.op = "increase" /\ m.user = u /\ m.item = i
          /\ m.todo = {} /\ m.items = {} /\ m.id = row.id
      BY <2>2, <2>3 DEF Locals
    <3>2. Become(r, m)
      BY <2>5
    <3>3. row \in CartRow /\ row.user = u /\ row.item = i /\ OwnedRow(req, row)
      BY <1>1, FoundOwned
    <3>4. row.id \in Request /\ Owns(req, row.id, u, i)
      BY <3>3 DEF CartRow, OwnedRow
    <3> HIDE DEF m
    <3>5. Owns(req', m.id, m.user, m.item)
      BY <3>1, <3>4, OwnedStays
    <3> QED
      BY <1>1, <3>1, <3>2, <3>5, BecomeOwned DEF LocalsOwned
  <2> HIDE DEF l
  <2> QED
    BY <1>3, <2>4, <2>5 DEF Increase, l
<1>4. ASSUME NEW u \in User, NEW i \in Item, NEW m, Become(r, m),
             m.user = u, m.item = i, m.op # "checkout", m.items \subseteq {i},
             m.todo = FindInCart(u, i), m.pc \in {"get", "release"}
      PROVE  AllLocalsOwned'
  <2>1. \A row \in m.todo : row \in CartRow /\ row.user = u /\ row.item = i
                            /\ OwnedRow(req', row)
    BY <1>1, <1>4, FoundOwned, OwnedStays
  <2> QED
    BY <1>1, <1>4, <2>1, BecomeOwned DEF LocalsOwned
<1>5. ASSUME NEW u \in User, NEW i \in Item, NEW q \in Quantity, Decrease(r, u, i, q)
      PROVE  AllLocalsOwned'
  <2> DEFINE p == IF FindInCart(u, i) = {} THEN "get" ELSE "release"
             its == IF FindInCart(u, i) = {} THEN {i} ELSE {}
             m == [Fresh EXCEPT !.op = "decrease", !.user = u, !.item = i, !.pc = p,
                                !.items = its, !.todo = FindInCart(u, i), !.arg = q]
  <2>1. p \in {"get", "release"} /\ its \subseteq {i}
    OBVIOUS
  <2>2. Become(r, m)
    BY <1>5 DEF Decrease
  <2> HIDE DEF p, its
  <2>3. /\ m.user = u /\ m.item = i /\ m.op # "checkout" /\ m.items \subseteq {i}
        /\ m.todo = FindInCart(u, i) /\ m.pc \in {"get", "release"}
    BY <2>1 DEF Fresh
  <2> HIDE DEF m
  <2> QED
    BY <1>4, <2>2, <2>3
<1>6. ASSUME NEW u \in User, NEW i \in Item, RemoveFromCart(r, u, i)
      PROVE  AllLocalsOwned'
  <2> DEFINE p == IF FindInCart(u, i) = {} THEN "get" ELSE "release"
             its == IF FindInCart(u, i) = {} THEN {i} ELSE {}
             m == [Fresh EXCEPT !.op = "remove", !.user = u, !.item = i, !.pc = p,
                                !.items = its, !.todo = FindInCart(u, i)]
  <2>1. p \in {"get", "release"} /\ its \subseteq {i}
    OBVIOUS
  <2>2. Become(r, m)
    BY <1>6 DEF RemoveFromCart
  <2> HIDE DEF p, its
  <2>3. /\ m.user = u /\ m.item = i /\ m.op # "checkout" /\ m.items \subseteq {i}
        /\ m.todo = FindInCart(u, i) /\ m.pc \in {"get", "release"}
    BY <2>1 DEF Fresh
  <2> HIDE DEF m
  <2> QED
    BY <1>4, <2>2, <2>3
<1>7. ASSUME NEW u \in User, Checkout(r, u)
      PROVE  AllLocalsOwned'
  <2> DEFINE S == FindByUser(u)
             its == {row.item : row \in FindByUser(u)}
             m == [Fresh EXCEPT !.op = "checkout", !.user = u, !.pc = "order",
                                !.todo = S, !.items = its]
  <2>1. Become(r, m)
    BY <1>7 DEF Checkout
  <2>2. \A row \in S : row.user = u /\ OwnedRow(req', row)
    BY <1>1, FoundOwned, OwnedStays
  <2> HIDE DEF S, its
  <2>3. m.user = u /\ m.op = "checkout" /\ m.pc = "order" /\ m.todo = S
    BY DEF Fresh
  <2> HIDE DEF m
  <2> QED
    BY <1>1, <2>1, <2>2, <2>3, BecomeOwned DEF LocalsOwned
<1> QED
  BY <1>2, <1>3, <1>5, <1>6, <1>7 DEF Call

LEMMA StepOwned ==
  ASSUME Inv, Separated, Kept, NEW r \in Request, Step(r)
  PROVE  AllLocalsOwned'
<1> DEFINE old == req[r]
<1>1. /\ AllLocalsOwned /\ RowsOwned
      /\ req \in [Request -> Locals] /\ old \in Locals
  BY DEF Separated, Inv, TypeOK
<1>2. LocalsOwned(req', old)
  <2>1. old.pc \in {"reserve", "save", "shrink"} => old.id \in Request
    BY DEF Inv, LocalsOK
  <2> QED
    BY <1>1, <2>1, LocalsOwnedStays DEF AllLocalsOwned
<1> HIDE DEF old
(* Most steps go on with the same user, operation and item, and with no    *)
(* more rows and items than before.                                        *)
<1>3. ASSUME NEW m, Become(r, m), m.user = old.user, m.op = old.op, m.item = old.item,
             m.todo \subseteq old.todo, m.items \subseteq old.items \cup {old.item},
             m.pc \in {"reserve", "save", "shrink"}
               => old.pc \in {"reserve", "save", "shrink"} /\ m.id = old.id,
             m.pc \in {"release", "drop", "delete"} => old.pc \in {"release", "drop", "delete"}
      PROVE  AllLocalsOwned'
  <2>1. LocalsOwned(req', m)
    BY <1>2, <1>3 DEF LocalsOwned
  <2> QED
    BY <1>1, <1>3, <2>1, BecomeOwned
<1>4. ASSUME Become(r, Finished(old))
      PROVE  AllLocalsOwned'
  BY <1>1, <1>4, FinishedOwned, BecomeOwned
<1>5. ASSUME NEW p, Goto(r, p), p \notin {"reserve", "save", "shrink", "release", "drop"},
             p = "delete" => old.pc = "drop"
      PROVE  AllLocalsOwned'
  <2> DEFINE m == [old EXCEPT !.pc = p]
  <2>1. /\ m.pc = p /\ m.user = old.user /\ m.op = old.op /\ m.item = old.item
        /\ m.todo = old.todo /\ m.items = old.items
    BY <1>1 DEF Locals
  <2>2. Become(r, m)
    BY <1>5 DEF Goto, old
  <2> HIDE DEF m
  <2> QED
    BY <1>3, <1>5, <2>1, <2>2
<1>6. CASE IncreaseReserve(r)
  <2>1. CASE Become(r, [old EXCEPT !.pc = "save", !.rem = stock[old.item] - old.arg])
    <3> DEFINE m == [old EXCEPT !.pc = "save", !.rem = stock[old.item] - old.arg]
    <3>1. /\ m.pc = "save" /\ m.user = old.user /\ m.op = old.op /\ m.item = old.item
          /\ m.todo = old.todo /\ m.items = old.items /\ m.id = old.id
      BY <1>1 DEF Locals
    <3>2. Become(r, m) /\ old.pc = "reserve"
      BY <1>6, <2>1 DEF IncreaseReserve, At, old
    <3> HIDE DEF m
    <3> QED
      BY <1>3, <3>1, <3>2
  <2> QED
    BY <1>4, <1>6, <2>1 DEF IncreaseReserve, ReserveFor, old
<1>7. CASE SaveRow(r)
  <2> DEFINE m == [old EXCEPT !.pc = AfterSave(old), !.id = None, !.arg = 0, !.base = 0]
  <2>1. /\ m.pc \in {"emit", "survey"} /\ m.user = old.user /\ m.op = old.op
        /\ m.item = old.item /\ m.todo = old.todo /\ m.items = old.items
    BY <1>1 DEF Locals, AfterSave
  <2>2. Become(r, m)
    BY <1>7 DEF SaveRow, old
  <2> HIDE DEF m
  <2> QED
    BY <1>3, <2>1, <2>2
<1>8. CASE UndoDrop(r)
  <2> DEFINE m == [old EXCEPT !.pc = "get", !.items = {old.item}]
  <2>1. /\ m.pc = "get" /\ m.user = old.user /\ m.op = old.op
        /\ m.item = old.item /\ m.todo = old.todo /\ m.items = {old.item}
    BY <1>1 DEF Locals
  <2>2. Become(r, m)
    BY <1>8 DEF UndoDrop, old
  <2> HIDE DEF m
  <2> QED
    BY <1>3, <2>1, <2>2
<1>9. CASE ReleaseRow(r)
  <2>1. PICK row, q :
          /\ row \in old.todo
          /\ LET l == [old EXCEPT !.id = row.id, !.rem = stock[row.item] + q]
             IN  \/ Become(r, [l EXCEPT !.pc = "drop", !.todo = @ \ {row},
                                        !.arg = NeedAfter(old, q)])
                 \/ Become(r, [l EXCEPT !.pc = "shrink", !.base = row.qty])
    BY <1>9 DEF ReleaseRow, old
  <2> DEFINE l == [old EXCEPT !.id = row.id, !.rem = stock[row.item] + q]
             m == [l EXCEPT !.pc = "drop", !.todo = @ \ {row}, !.arg = NeedAfter(old, q)]
             n == [l EXCEPT !.pc = "shrink", !.base = row.qty]
  <2>2. old.pc = "release"
    BY <1>9 DEF ReleaseRow, At, old
  <2>3. /\ l.user = old.user /\ l.op = old.op /\ l.item = old.item /\ l.id = row.id
        /\ l.todo = old.todo /\ l.items = old.items /\ DOMAIN l = DOMAIN old
    BY <1>1 DEF Locals
  <2>4. (Become(r, m) \/ Become(r, n)) /\ row \in old.todo
    BY <2>1
  <2> HIDE DEF l
  <2>5. CASE Become(r, m)
    <3>1. /\ m.pc = "drop" /\ m.user = old.user /\ m.op = old.op /\ m.item = old.item
          /\ m.todo \subseteq old.todo /\ m.items = old.items
      BY <1>1, <2>3 DEF Locals
    <3> HIDE DEF m
    <3> QED
      BY <1>3, <2>2, <2>5, <3>1
  <2>6. CASE Become(r, n)
    <3>1. /\ n.pc = "shrink" /\ n.user = old.user /\ n.op = old.op /\ n.item = old.item
          /\ n.id = row.id /\ n.todo = old.todo /\ n.items = old.items
      BY <1>1, <2>3 DEF Locals
    <3> HIDE DEF n
    <3>2. old.op # "checkout" /\ Owns(req', row.id, old.user, old.item)
      BY <1>2, <2>2, <2>4 DEF LocalsOwned, OwnedRow
    <3>3. LocalsOwned(req', n)
      BY <1>2, <3>1, <3>2 DEF LocalsOwned
    <3> QED
      BY <1>1, <2>6, <3>3, BecomeOwned
  <2> QED
    BY <2>4, <2>5, <2>6
<1>10. CASE DeleteRow(r)
  <2> DEFINE p == IF old.op = "remove" THEN "emit" ELSE "survey"
             m == [old EXCEPT !.pc = "release", !.id = None]
             n == [old EXCEPT !.pc = p, !.todo = {}, !.arg = 0, !.id = None]
  <2>1. Become(r, m) \/ Become(r, n)
    BY <1>10 DEF DeleteRow, AfterDelete, old
  <2>2. p \in {"emit", "survey"} /\ old.pc = "delete"
    BY <1>10 DEF DeleteRow, At, old
  <2> HIDE DEF p
  <2>3. /\ m.pc = "release" /\ m.user = old.user /\ m.op = old.op /\ m.item = old.item
        /\ m.todo = old.todo /\ m.items = old.items
    BY <1>1 DEF Locals
  <2>4. /\ n.pc \in {"emit", "survey"} /\ n.user = old.user /\ n.op = old.op
        /\ n.item = old.item /\ n.todo = {} /\ n.items = old.items
    BY <1>1, <2>2 DEF Locals
  <2> HIDE DEF m, n
  <2>5. CASE Become(r, m)
    BY <1>3, <2>2, <2>3, <2>5
  <2>6. CASE Become(r, n)
    BY <1>3, <2>4, <2>6
  <2> QED
    BY <2>1, <2>5, <2>6
<1>11. CASE ShrinkRow(r)
  <2> DEFINE m == [old EXCEPT !.pc = "survey", !.id = None, !.arg = 0, !.base = 0, !.todo = {}]
  <2>1. /\ m.pc = "survey" /\ m.user = old.user /\ m.op = old.op
        /\ m.item = old.item /\ m.todo = {} /\ m.items = old.items
    BY <1>1 DEF Locals
  <2>2. Become(r, m)
    BY <1>11 DEF ShrinkRow, old
  <2> HIDE DEF m
  <2> QED
    BY <1>3, <2>1, <2>2
<1>12. ASSUME NEW p \in {"emit", "refresh", "clear", "empty"}, NEW S \in SUBSET old.todo,
              Become(r, [old EXCEPT !.pc = p, !.todo = S])
       PROVE  AllLocalsOwned'
  <2> DEFINE m == [old EXCEPT !.pc = p, !.todo = S]
  <2>1. /\ m.pc = p /\ m.user = old.user /\ m.op = old.op
        /\ m.item = old.item /\ m.todo = S /\ m.items = old.items
    BY <1>1 DEF Locals
  <2>2. Become(r, m)
    BY <1>12
  <2> HIDE DEF m
  <2> QED
    BY <1>3, <2>1, <2>2
<1>13. CASE RefreshKey(r)
  <2>1. PICK row \in old.todo :
          Become(r, [old EXCEPT !.pc = IF old.todo = {row} THEN "emit" ELSE "refresh",
                                !.todo = old.todo \ {row}])
    BY <1>13 DEF RefreshKey, old
  <2> QED
    BY <1>12, <2>1
<1>14. CASE ClearKey(r)
  <2>1. PICK row \in old.todo :
          Become(r, [old EXCEPT !.pc = IF old.todo = {row} THEN "empty" ELSE "clear",
                                !.todo = old.todo \ {row}])
    BY <1>14 DEF ClearKey, old
  <2> QED
    BY <1>12, <2>1
<1>15. CASE Survey(r)
  <2> DEFINE S == FindInCart(old.user, old.item)
             p == IF S = {} THEN "emit" ELSE "refresh"
             m == [old EXCEPT !.pc = p, !.todo = S]
  <2>1. Become(r, m)
    BY <1>15 DEF Survey, old
  <2>2. \A row \in S : row.user = old.user /\ row.item = old.item /\ OwnedRow(req', row)
    BY <1>1, FoundOwned, OwnedStays
  <2>3. p \in {"emit", "refresh"}
    OBVIOUS
  <2> HIDE DEF S, p
  <2>4. /\ m.pc = p /\ m.user = old.user /\ m.op = old.op
        /\ m.item = old.item /\ m.todo = S /\ m.items = old.items
    BY <1>1 DEF Locals
  <2> HIDE DEF m
  <2>5. LocalsOwned(req', m)
    BY <1>2, <2>2, <2>3, <2>4 DEF LocalsOwned
  <2> QED
    BY <1>1, <2>1, <2>5, BecomeOwned
<1>16. CASE Undo(r) \/ DropKey(r) \/ SaveOrder(r) \/ EmptyCart(r)
  BY <1>5, <1>16 DEF Undo, DropKey, SaveOrder, EmptyCart, At, old
<1>17. CASE Emit(r)
  BY <1>4, <1>5, <1>17 DEF Emit, old
<1>18. CASE CommandFails(r) \/ SaveRowReplyLost(r)
  <2>1. Become(r, Finished(old)) \/ Goto(r, "undo")
    BY <1>18 DEF CommandFails, SaveRowReplyLost, AfterFailedSave, Goto, old
  <2> QED
    BY <1>4, <1>5, <2>1
<1>19. CASE GetRemaining(r)
  <2>1. PICK i \in old.items :
          Become(r, [old EXCEPT !.pc = IF old.op = "decrease" THEN "survey" ELSE "emit",
                                !.item = i, !.items = @ \ {i}, !.rem = stock[i],
                                !.arg = 0, !.id = None])
    BY <1>19 DEF GetRemaining, old
  <2> DEFINE p == IF old.op = "decrease" THEN "survey" ELSE "emit"
             m == [old EXCEPT !.pc = p, !.item = i, !.items = @ \ {i}, !.rem = stock[i],
                              !.arg = 0, !.id = None]
  <2>2. p \in {"survey", "emit"}
    OBVIOUS
  <2>3. Become(r, m)
    BY <2>1
  <2> HIDE DEF p
  <2>4. /\ m.pc \in {"survey", "emit"} /\ m.user = old.user /\ m.op = old.op /\ m.item = i
        /\ m.todo = old.todo /\ m.items = old.items \ {i}
    BY <1>1, <2>2 DEF Locals
  <2> HIDE DEF m
  <2>5. old.op # "checkout" => i = old.item
    BY <1>2, <2>1 DEF LocalsOwned
  <2>6. LocalsOwned(req', m)
    BY <1>2, <2>4, <2>5 DEF LocalsOwned
  <2> QED
    BY <1>1, <2>3, <2>6, BecomeOwned
<1> QED
  BY <1>6, <1>7, <1>8, <1>9, <1>10, <1>11, <1>13, <1>14, <1>15, <1>16, <1>17, <1>18, <1>19
  DEF Step

LEMMA NextLocalsOwned ==
  ASSUME Inv, Separated, Kept, [Next]_vars
  PROVE  AllLocalsOwned'
<1>1. req \in [Request -> Locals] /\ AllLocalsOwned
  BY DEF Separated, Inv, TypeOK
<1>2. \A r \in Request : LocalsOwned(req', req[r])
  <2> SUFFICES ASSUME NEW r \in Request PROVE LocalsOwned(req', req[r])
    OBVIOUS
  <2>1. req[r].pc \in {"reserve", "save", "shrink"} => req[r].id \in Request
    BY DEF Inv, LocalsOK
  <2> QED
    BY <1>1, <2>1, LocalsOwnedStays DEF AllLocalsOwned
<1>3. CASE UNCHANGED req
  BY <1>2, <1>3 DEF AllLocalsOwned
<1>4. CASE Crash
  <2>1. req' = [r \in Request |-> IF InFlight(r) THEN Finished(req[r]) ELSE req[r]]
    BY <1>4 DEF Crash
  <2>2. \A r \in Request : LocalsOwned(req', Finished(req[r]))
    BY FinishedOwned
  <2> QED
    BY <1>2, <2>1, <2>2 DEF AllLocalsOwned
<1>5. CASE \/ \E r \in Request : KeyExpires(r)
           \/ \E h \in exp : ExpireStep(h)
           \/ Boot \/ RedisByItself \/ UNCHANGED vars
  <2>1. UNCHANGED req
    BY <1>5 DEF KeyExpires, ExpireStep, ExpireFind, ExpireRelease, ExpireDelete, ExpireEmit,
       ExpireFails, Boot, LoadScript, SeedStock, Subscribe,
       RedisByItself, SnapshotRedis, RestartRedis, vars
  <2> QED
    BY <1>3, <2>1
<1> QED
  BY <1>4, <1>5, CallOwned, StepOwned DEF Next

-----------------------------------------------------------------------------
(* Separated is preserved: the rows, the orders and the expiry handlers.   *)

(* The rows change in four ways only. *)
LEMMA RowsMove ==
  ASSUME Inv, [Next]_vars
  PROVE  \/ UNCHANGED rows
         \/ \E c : DeleteById(c)
         \/ \E u : DeleteByUser(u)
         \/ \E r \in Request :
              req[r].pc = "save" /\ SaveCartItem(ReservedRow(req[r]))
         \/ \E r \in Request :
              req[r].pc = "shrink" /\ SaveCartItem(ShrunkRow(req[r]))
<1>1. ASSUME NEW r \in Request, Call(r)
      PROVE  UNCHANGED rows
  BY <1>1 DEF Call, AddToCart, Increase, Decrease, RemoveFromCart, Checkout, mongoVars
<1>2. ASSUME NEW h \in exp, ExpireStep(h)
      PROVE  UNCHANGED rows \/ \E c : DeleteById(c)
  BY <1>2 DEF ExpireStep, ExpireFind, ExpireRelease, ExpireDelete, ExpireEmit, ExpireFails,
     mongoVars
<1>3. ASSUME NEW r \in Request, KeyExpires(r)
      PROVE  UNCHANGED rows
  BY <1>3 DEF KeyExpires, mongoVars
<1>4. CASE Crash \/ Boot \/ RedisByItself \/ UNCHANGED vars
  BY <1>4 DEF Crash, Boot, LoadScript, SeedStock, Subscribe,
       RedisByItself, SnapshotRedis, RestartRedis, vars, mongoVars
<1>5. ASSUME NEW r \in Request,
             \/ IncreaseReserve(r) \/ Undo(r) \/ UndoDrop(r) \/ ReleaseRow(r) \/ DropKey(r)
             \/ Survey(r) \/ RefreshKey(r) \/ SaveOrder(r) \/ ClearKey(r)
             \/ GetRemaining(r) \/ Emit(r) \/ CommandFails(r)
      PROVE  UNCHANGED rows
  BY <1>5 DEF IncreaseReserve, Undo, UndoDrop, ReleaseRow, DropKey, Survey, RefreshKey,
     SaveOrder, ClearKey, GetRemaining, Emit, CommandFails, mongoVars
<1>6. ASSUME NEW r \in Request, DeleteRow(r) \/ EmptyCart(r)
      PROVE  (\E c : DeleteById(c)) \/ (\E u : DeleteByUser(u))
  BY <1>6 DEF DeleteRow, EmptyCart
<1>7. ASSUME NEW r \in Request, SaveRow(r) \/ SaveRowReplyLost(r)
      PROVE  req[r].pc = "save" /\ SaveCartItem(ReservedRow(req[r]))
  BY <1>7 DEF SaveRow, SaveRowReplyLost, At
<1>8. ASSUME NEW r \in Request, ShrinkRow(r)
      PROVE  req[r].pc = "shrink" /\ SaveCartItem(ShrunkRow(req[r]))
  BY <1>8 DEF ShrinkRow, At
<1> QED
  BY <1>1, <1>2, <1>3, <1>4, <1>5, <1>6, <1>7, <1>8 DEF Next, Step

LEMMA NextRowsOwned ==
  ASSUME Inv, Separated, Kept, [Next]_vars
  PROVE  RowsOwned'
<1>1. rows \in [Request -> CartRow \cup {None}] /\ RowsOwned /\ AllLocalsOwned
  BY DEF Separated, Inv, TypeOK
<1>2. \A c \in Request : rows[c] # None => rows[c].id = c /\ OwnedRow(req', rows[c])
  BY <1>1, OwnedStays DEF RowsOwned
<1>3. CASE UNCHANGED rows
  BY <1>2, <1>3 DEF RowsOwned
<1>4. ASSUME NEW d, DeleteById(d)
      PROVE  RowsOwned'
  BY <1>1, <1>2, <1>4 DEF RowsOwned, DeleteById
<1>5. ASSUME NEW u, DeleteByUser(u)
      PROVE  RowsOwned'
  BY <1>2, <1>5 DEF RowsOwned, DeleteByUser
<1>6. ASSUME NEW row, SaveCartItem(row), OwnedRow(req', row)
      PROVE  RowsOwned'
  BY <1>1, <1>2, <1>6 DEF RowsOwned, SaveCartItem
<1>7. ASSUME NEW r \in Request, req[r].pc \in {"save", "shrink"}
      PROVE  OwnedRow(req', ReservedRow(req[r])) /\ OwnedRow(req', ShrunkRow(req[r]))
  <2>1. req[r].id \in Request /\ Owns(req, req[r].id, req[r].user, req[r].item)
    BY <1>1, <1>7 DEF AllLocalsOwned, LocalsOwned, Inv, LocalsOK
  <2>2. Owns(req', req[r].id, req[r].user, req[r].item)
    BY <2>1, OwnedStays
  <2> QED
    BY <2>2 DEF OwnedRow, ReservedRow, ShrunkRow
<1> QED
  BY <1>3, <1>4, <1>5, <1>6, <1>7, RowsMove

(* An order is written once, by a checkout, from its snapshot. *)
LEMMA OrdersMove ==
  ASSUME Inv, [Next]_vars
  PROVE  \/ UNCHANGED orders
         \/ \E r \in Request : /\ req[r].pc = "order"
                               /\ orders' = [orders EXCEPT ![r] = req[r].todo]
<1>1. ASSUME NEW r \in Request, Call(r)
      PROVE  UNCHANGED orders
  BY <1>1 DEF Call, AddToCart, Increase, Decrease, RemoveFromCart, Checkout, mongoVars
<1>2. ASSUME NEW h \in exp, ExpireStep(h)
      PROVE  UNCHANGED orders
  BY <1>2 DEF ExpireStep, ExpireFind, ExpireRelease, ExpireDelete, ExpireEmit, ExpireFails,
     mongoVars
<1>3. ASSUME NEW r \in Request, KeyExpires(r)
      PROVE  UNCHANGED orders
  BY <1>3 DEF KeyExpires, mongoVars
<1>4. CASE Crash \/ Boot \/ RedisByItself \/ UNCHANGED vars
  BY <1>4 DEF Crash, Boot, LoadScript, SeedStock, Subscribe,
       RedisByItself, SnapshotRedis, RestartRedis, vars, mongoVars
<1>5. ASSUME NEW r \in Request,
             \/ IncreaseReserve(r) \/ Undo(r) \/ UndoDrop(r) \/ ReleaseRow(r) \/ DropKey(r)
             \/ Survey(r) \/ RefreshKey(r) \/ ClearKey(r) \/ DeleteRow(r) \/ EmptyCart(r)
             \/ SaveRow(r) \/ SaveRowReplyLost(r) \/ ShrinkRow(r)
             \/ GetRemaining(r) \/ Emit(r) \/ CommandFails(r)
      PROVE  UNCHANGED orders
  BY <1>5 DEF IncreaseReserve, Undo, UndoDrop, ReleaseRow, DropKey, Survey, RefreshKey,
     ClearKey, DeleteRow, EmptyCart, SaveRow, SaveRowReplyLost, ShrinkRow, GetRemaining, Emit,
     CommandFails, mongoVars
<1>6. ASSUME NEW r \in Request, SaveOrder(r)
      PROVE  req[r].pc = "order" /\ orders' = [orders EXCEPT ![r] = req[r].todo]
  BY <1>6 DEF SaveOrder, At
<1> QED
  BY <1>1, <1>2, <1>3, <1>4, <1>5, <1>6 DEF Next, Step

(* A request that has not arrived is not where an order is written. *)
LEMMA NextOrdersOwned ==
  ASSUME Inv, Separated, Kept, [Next]_vars
  PROVE  OrdersOwned'
<1>1. /\ orders \in [Request -> SUBSET CartRow] /\ req \in [Request -> Locals]
      /\ OrdersOwned /\ AllLocalsOwned
  BY DEF Separated, Inv, TypeOK
<1>2. \A r \in Request : req'[r].pc = "new" => req[r].pc = "new"
  BY DEF Kept, KeptBy
<1>3. \A r \in Request : \A row \in orders[r] : OwnedRow(req', row) /\ row.user = req'[r].user
  <2> SUFFICES ASSUME NEW r \in Request, NEW row \in orders[r]
               PROVE  OwnedRow(req', row) /\ row.user = req'[r].user
    OBVIOUS
  <2>1. req[r].pc # "new" /\ row \in CartRow /\ OwnedRow(req, row) /\ row.user = req[r].user
    BY <1>1 DEF OrdersOwned
  <2> QED
    BY <2>1, OwnedStays DEF Kept, KeptBy
<1>4. CASE UNCHANGED orders
  BY <1>1, <1>2, <1>3, <1>4 DEF OrdersOwned
<1>5. ASSUME NEW r \in Request, req[r].pc = "order",
             orders' = [orders EXCEPT ![r] = req[r].todo]
      PROVE  OrdersOwned'
  <2>1. req'[r].pc # "new" /\ req'[r].user = req[r].user
    BY <1>5 DEF Kept, KeptBy
  <2>2. \A row \in req[r].todo : OwnedRow(req', row) /\ row.user = req'[r].user
    <3> SUFFICES ASSUME NEW row \in req[r].todo
                 PROVE  OwnedRow(req', row) /\ row.user = req'[r].user
      OBVIOUS
    <3>1. row \in CartRow /\ OwnedRow(req, row) /\ row.user = req[r].user
      BY <1>1 DEF AllLocalsOwned, LocalsOwned, Locals
    <3> QED
      BY <2>1, <3>1, OwnedStays
  <2>3. orders'[r] = req[r].todo /\ \A s \in Request : s # r => orders'[s] = orders[s]
    BY <1>1, <1>5
  <2> QED
    BY <1>1, <1>2, <1>3, <2>1, <2>2, <2>3 DEF OrdersOwned
<1> QED
  BY <1>4, <1>5, OrdersMove

LEMMA NextHandlersOwned ==
  ASSUME Inv, Separated, Kept, [Next]_vars
  PROVE  HandlersOwned'
<1>1. /\ exp \in SUBSET ExpiryHandler /\ rows \in [Request -> CartRow \cup {None}]
      /\ RowsOwned /\ HandlersOwned
  BY DEF Separated, Inv, TypeOK
<1>2. \A h \in exp : h.row # None => h.row.id = h.id /\ OwnedRow(req', h.row)
  <2> SUFFICES ASSUME NEW h \in exp, h.row # None
               PROVE  h.row.id = h.id /\ OwnedRow(req', h.row)
    OBVIOUS
  <2>1. h.row \in CartRow /\ h.row.id = h.id /\ OwnedRow(req, h.row)
    BY <1>1 DEF HandlersOwned, ExpiryHandler
  <2> QED
    BY <2>1, OwnedStays
<1>3. ASSUME exp' \subseteq exp
      PROVE  HandlersOwned'
  BY <1>2, <1>3 DEF HandlersOwned
<1>4. ASSUME NEW h \in exp, NEW l, Advance(h, l),
             l.row # None => l.row.id = l.id /\ OwnedRow(req', l.row)
      PROVE  HandlersOwned'
  BY <1>2, <1>4 DEF HandlersOwned, Advance
<1>5. ASSUME NEW h \in exp, ExpireStep(h)
      PROVE  HandlersOwned'
  <2>0. h \in ExpiryHandler
    BY <1>1
  <2>1. CASE exp' \subseteq exp
    BY <1>3, <2>1
  <2>2. CASE Advance(h, [h EXCEPT !.pc = "release", !.row = rows[h.id]]) /\ rows[h.id] # None
    <3> DEFINE m == [h EXCEPT !.pc = "release", !.row = rows[h.id]]
    <3>1. m.row = rows[h.id] /\ m.id = h.id
      BY <2>0 DEF ExpiryHandler
    <3>2. h.id \in Request
      BY <2>0 DEF ExpiryHandler
    <3>3. rows[h.id] \in CartRow /\ rows[h.id].id = h.id /\ OwnedRow(req', rows[h.id])
      BY <1>1, <2>2, <3>2, OwnedStays DEF RowsOwned
    <3>4. Advance(h, m)
      BY <2>2
    <3> HIDE DEF m
    <3> QED
      BY <1>4, <3>1, <3>3, <3>4
  <2>3. ASSUME NEW m, Advance(h, m), m.row = h.row, m.id = h.id
        PROVE  HandlersOwned'
    BY <1>2, <1>4, <2>3
  <2>4. CASE ExpireRelease(h)
    <3> DEFINE m == [h EXCEPT !.pc = "delete", !.rem = stock[h.row.item] + h.row.qty]
    <3>1. m.row = h.row /\ m.id = h.id
      BY <2>0 DEF ExpiryHandler
    <3>2. Advance(h, m)
      BY <2>4 DEF ExpireRelease
    <3> HIDE DEF m
    <3> QED
      BY <2>3, <3>1, <3>2
  <2>5. CASE ExpireDelete(h)
    <3> DEFINE m == [h EXCEPT !.pc = "emit"]
    <3>1. m.row = h.row /\ m.id = h.id
      BY <2>0 DEF ExpiryHandler
    <3>2. Advance(h, m)
      BY <2>5 DEF ExpireDelete
    <3> HIDE DEF m
    <3> QED
      BY <2>3, <3>1, <3>2
  <2>6. CASE ExpireFind(h)
    BY <2>1, <2>2, <2>6 DEF ExpireFind
  <2>7. CASE ExpireEmit(h) \/ ExpireFails(h)
    BY <2>1, <2>7 DEF ExpireEmit, ExpireFails
  <2> QED
    BY <1>5, <2>4, <2>5, <2>6, <2>7 DEF ExpireStep
<1>6. ASSUME NEW c \in Request, KeyExpires(c)
      PROVE  HandlersOwned'
  <2> DEFINE h == [id |-> c, by |-> key[c], pc |-> "find", row |-> None, rem |-> 0]
  <2>1. exp' \subseteq exp \cup {h}
    BY <1>6 DEF KeyExpires
  <2>2. h.row = None
    OBVIOUS
  <2> HIDE DEF h
  <2> QED
    BY <1>2, <2>1, <2>2 DEF HandlersOwned
<1>7. ASSUME NEW r \in Request, Call(r)
      PROVE  exp' \subseteq exp
  BY <1>7 DEF Call, AddToCart, Increase, Decrease, RemoveFromCart, Checkout
<1>8. ASSUME NEW r \in Request, Step(r)
      PROVE  exp' \subseteq exp
  BY <1>8 DEF Step, IncreaseReserve, Undo, UndoDrop, ReleaseRow, DropKey, Survey, RefreshKey,
     ClearKey, DeleteRow, EmptyCart, SaveRow, SaveRowReplyLost, ShrinkRow, SaveOrder,
     GetRemaining, Emit, CommandFails
<1>9. CASE Crash \/ Boot \/ RedisByItself \/ UNCHANGED vars
  <2>1. exp' \subseteq exp
    BY <1>9 DEF Crash, Boot, LoadScript, SeedStock, Subscribe,
       RedisByItself, SnapshotRedis, RestartRedis, vars
  <2> QED
    BY <1>3, <2>1
<1> QED
  BY <1>3, <1>5, <1>6, <1>7, <1>8, <1>9 DEF Next

-----------------------------------------------------------------------------
(* The theorem.                                                            *)

LEMMA SeparatedInit == Init => Separated
<1> SUFFICES ASSUME Init PROVE Separated
  OBVIOUS
<1>1. \A r \in Request : req[r] = Fresh
  BY DEF Init
<1>2. AllLocalsOwned
  BY <1>1 DEF AllLocalsOwned, LocalsOwned, Fresh
<1> QED
  BY <1>1, <1>2 DEF Separated, RowsOwned, OrdersOwned, HandlersOwned, Init

LEMMA SeparatedNext ==
  ASSUME Inv, Separated, [Next]_vars
  PROVE  Separated'
<1>1. Kept
  BY NextKept
<1> QED
  BY <1>1, NextLocalsOwned, NextRowsOwned, NextOrdersOwned, NextHandlersOwned DEF Separated

(* No handler ever reads, keeps, writes, sells or releases a row of        *)
(* another user's cart, or books a row under another item than the one it  *)
(* was reserved for.                                                       *)
THEOREM CartsStaySeparate == Spec => []CartsAreSeparate
<1>1. Init => Separated
  BY SeparatedInit
<1>2. Inv /\ Separated /\ [Next]_vars => Separated'
  BY SeparatedNext
<1>3. Separated => CartsAreSeparate
  BY DEF Separated, RowsOwned, OrdersOwned, HandlersOwned, AllLocalsOwned, LocalsOwned,
     OwnedRow, Owns, CartsAreSeparate, OwnRow
<1> QED
  BY <1>1, <1>2, <1>3, InvAlways, PTL DEF Spec

=============================================================================

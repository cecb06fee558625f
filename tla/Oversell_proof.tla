-------------------------- MODULE Oversell_proof ---------------------------
(***************************************************************************)
(* While users only fill their carts no item is oversold, whatever         *)
(* interleaves, fails or crashes: for every set of requests, users and     *)
(* items, and every stock.                                                 *)
(***************************************************************************)
EXTENDS FlashSale_proof

(* The hypothesis: users only fill their carts (no removal, decrease or    *)
(* checkout), no save's reply is lost (Increase has no rollback), and no   *)
(* key expires.                                                            *)
BuyingOnly == /\ Op \subseteq {"add", "increase"}
              /\ "reply" \notin Faulty
              /\ MaxExpiring = 0

(* The awaits that AddToCart and IncreaseCartItemQuantity reach.           *)
BuyingPc == {"new", "reserve", "save", "undo", "undoDrop", "get", "survey", "refresh",
             "emit", "done"}

(* No other handler ever runs, nothing is ordered, nothing expires.        *)
OnlyBuys == /\ \A r \in Request : req[r].pc \in BuyingPc /\ orders[r] = {}
            /\ exp = {}

(* No handler is under way unless the server is up.                        *)
DownIsIdle == server # "up" => \A r \in Request : ~InFlight(r)

(* The units of a row of item i that an increase has read and not yet      *)
(* written again.                                                          *)
ReadUnits(i) ==
  UNION {{req[r].id} \X (1 .. req[r].base) :
           r \in {s \in Request : /\ req[s].pc \in {"reserve", "save"}
                                 /\ req[s].item = i}}

(* The units of item i in cart rows, and those that increases saw there.   *)
(* The row that two increases of one user read is counted once: the second *)
(* to save overwrites the first, and loses units that are then in no row,  *)
(* but never adds any.                                                     *)
SeenUnits(i) == UnitsOf(RowsOfItem(i)) \cup ReadUnits(i)

(* For one item.                                                           *)
AccountedFor(i) == OnOffer(i) + Cardinality(SeenUnits(i)) + Pending(i) <= TotalStock[i]

(* What is on offer, seen and pending never exceeds the stock of an item.  *)
Accounted == \A i \in Item : AccountedFor(i)

(* The inductive invariant.                                                *)
Buying == NonNegative /\ OnlyBuys /\ DownIsIdle /\ Accounted /\ SeedReconciles

-----------------------------------------------------------------------------
(* The units counted are finitely many.                                    *)

(* The rows of an item are cart rows, finitely many.                       *)
LEMMA RowsOfItemFinite ==
  ASSUME Inv, NEW i
  PROVE  RowsOfItem(i) \in SUBSET CartRow /\ IsFiniteSet(UnitsOf(RowsOfItem(i)))
<1>1. rows \in [Request -> CartRow \cup {None}]
  BY DEF Inv, TypeOK
<1>2. \A row \in RowsOfItem(i) : row \in CartRow /\ \E c \in Request : rows[c] = row
  BY <1>1 DEF RowsOfItem
<1> QED
  BY <1>1, <1>2, RowsFinite

(* The units seen are finitely many, and those in rows are among them.     *)
LEMMA SeenFinite ==
  ASSUME Inv, NEW i
  PROVE  IsFiniteSet(SeenUnits(i)) /\ UnitsOf(RowsOfItem(i)) \subseteq SeenUnits(i)
<1> DEFINE S == {s \in Request : req[s].pc \in {"reserve", "save"} /\ req[s].item = i}
           x == [s \in Request |-> req[s].id]
           n == [s \in Request |-> req[s].base]
<1>1. IsFiniteSet(S)
  BY EnvironmentAssumption, FS_Subset
<1>2. \A s \in S : n[s] \in Nat
  BY DEF Inv, TypeOK, Locals
<1>3. ReadUnits(i) = UNION {{x[s]} \X (1 .. n[s]) : s \in S}
  BY DEF ReadUnits
<1> HIDE DEF S, x, n
<1>4. IsFiniteSet(ReadUnits(i))
  BY <1>1, <1>2, <1>3, StacksFinite
<1> QED
  BY <1>4, RowsOfItemFinite, FS_Union DEF SeenUnits

(* The units pending are finitely many.                                    *)
LEMMA PendingFinite ==
  ASSUME Inv, NEW i
  PROVE  IsFiniteSet(PendingUnits(i)) /\ Pending(i) \in Nat
<1> DEFINE S == {s \in Request : req[s].pc \in {"save", "undo"} /\ req[s].item = i}
           x == [s \in Request |-> s]
           n == [s \in Request |-> req[s].arg]
<1>1. IsFiniteSet(S)
  BY EnvironmentAssumption, FS_Subset
<1>2. \A s \in S : n[s] \in Nat
  BY DEF Inv, TypeOK, Locals
<1>3. PendingUnits(i) = UNION {{x[s]} \X (1 .. n[s]) : s \in S}
  BY DEF PendingUnits
<1> HIDE DEF S, x, n
<1>4. IsFiniteSet(PendingUnits(i))
  BY <1>1, <1>2, <1>3, StacksFinite
<1> QED
  BY <1>4, FS_CardinalityType DEF Pending

(* Where a unit that is seen, or pending, comes from. *)
LEMMA SeenUnit ==
  ASSUME NEW i
  PROVE  /\ \A c \in Request : rows[c] # None /\ rows[c].item = i
              => {rows[c].id} \X (1 .. rows[c].qty) \subseteq SeenUnits(i)
         /\ \A r \in Request : req[r].pc \in {"reserve", "save"} /\ req[r].item = i
              => {req[r].id} \X (1 .. req[r].base) \subseteq SeenUnits(i)
         /\ \A t \in SeenUnits(i) :
              \/ \E c \in Request : /\ rows[c] # None /\ rows[c].item = i
                                    /\ t \in {rows[c].id} \X (1 .. rows[c].qty)
              \/ \E r \in Request : /\ req[r].pc \in {"reserve", "save"} /\ req[r].item = i
                                    /\ t \in {req[r].id} \X (1 .. req[r].base)
BY DEF SeenUnits, ReadUnits, UnitsOf, RowsOfItem

(* Where a unit that is pending comes from.                                *)
LEMMA PendingUnit ==
  ASSUME NEW i
  PROVE  /\ \A r \in Request : req[r].pc \in {"save", "undo"} /\ req[r].item = i
              => {r} \X (1 .. req[r].arg) \subseteq PendingUnits(i)
         /\ \A t \in PendingUnits(i) :
              \E r \in Request : /\ req[r].pc \in {"save", "undo"} /\ req[r].item = i
                                 /\ t \in {r} \X (1 .. req[r].arg)
BY DEF PendingUnits

-----------------------------------------------------------------------------
(* How a step may move units and keep the account of an item.              *)

(* What is added up in AccountedFor are numbers.                           *)
LEMMA Sizes ==
  ASSUME Inv, NEW i \in Item
  PROVE  /\ IsFiniteSet(SeenUnits(i)) /\ Cardinality(SeenUnits(i)) \in Nat
         /\ IsFiniteSet(PendingUnits(i)) /\ Cardinality(PendingUnits(i)) \in Nat
         /\ OnOffer(i) \in Int /\ TotalStock[i] \in Nat
<1>1. IsFiniteSet(SeenUnits(i)) /\ IsFiniteSet(PendingUnits(i))
  BY SeenFinite, PendingFinite
<1>2. OnOffer(i) \in Int /\ TotalStock[i] \in Nat
  BY TotalStockAssumption DEF OnOffer, Inv, TypeOK, RedisTypeOK
<1> QED
  BY <1>1, <1>2, FS_CardinalityType

(* A step after which nothing more is seen, pending or on offer.           *)
LEMMA Lost ==
  ASSUME Inv, NEW i \in Item, AccountedFor(i), OnOffer(i)' \in Int,
         SeenUnits(i)' \subseteq SeenUnits(i), PendingUnits(i)' \subseteq PendingUnits(i),
         OnOffer(i)' <= OnOffer(i)
  PROVE  AccountedFor(i)'
<1>1. /\ Cardinality(SeenUnits(i)') \in Nat
      /\ Cardinality(SeenUnits(i)') <= Cardinality(SeenUnits(i))
  BY Sizes, FS_Subset, FS_CardinalityType
<1>2. /\ Cardinality(PendingUnits(i)') \in Nat
      /\ Cardinality(PendingUnits(i)') <= Cardinality(PendingUnits(i))
  BY Sizes, FS_Subset, FS_CardinalityType
<1> QED
  BY <1>1, <1>2, Sizes DEF AccountedFor, Pending

(* A step that takes q units off the counter into r's hands.               *)
LEMMA Taken ==
  ASSUME Inv, NEW i \in Item, AccountedFor(i), NEW r \in Request, NEW q \in Nat,
         SeenUnits(i)' \subseteq SeenUnits(i),
         PendingUnits(i)' \subseteq PendingUnits(i) \cup Stack(r, 0, q),
         OnOffer(i)' = OnOffer(i) - q
  PROVE  AccountedFor(i)'
<1>1. /\ Cardinality(SeenUnits(i)') \in Nat
      /\ Cardinality(SeenUnits(i)') <= Cardinality(SeenUnits(i))
  BY Sizes, FS_Subset, FS_CardinalityType
<1>2. /\ Cardinality(PendingUnits(i)') \in Nat
      /\ Cardinality(PendingUnits(i)') <= Cardinality(PendingUnits(i)) + q
  BY Sizes, Grown
<1> QED
  BY <1>1, <1>2, Sizes DEF AccountedFor, Pending

(* A step that gives q units in r's hands back to the counter.             *)
LEMMA RolledBack ==
  ASSUME Inv, NEW i \in Item, AccountedFor(i), NEW r \in Request, NEW q \in Nat,
         SeenUnits(i)' \subseteq SeenUnits(i), Stack(r, 0, q) \subseteq PendingUnits(i),
         PendingUnits(i)' \subseteq PendingUnits(i) \ Stack(r, 0, q),
         OnOffer(i)' \in Int, OnOffer(i)' <= OnOffer(i) + q
  PROVE  AccountedFor(i)'
<1>1. /\ Cardinality(SeenUnits(i)') \in Nat
      /\ Cardinality(SeenUnits(i)') <= Cardinality(SeenUnits(i))
  BY Sizes, FS_Subset, FS_CardinalityType
<1>2. /\ Cardinality(PendingUnits(i)') \in Nat
      /\ Cardinality(PendingUnits(i)') + q <= Cardinality(PendingUnits(i))
  BY Sizes, Shrunk
<1> QED
  BY <1>1, <1>2, Sizes DEF AccountedFor, Pending

(* A step that writes q units from r's hands into row c.                   *)
LEMMA Written ==
  ASSUME Inv, NEW i \in Item, AccountedFor(i), NEW r \in Request, NEW q \in Nat,
         NEW c \in Request, NEW b \in Nat,
         SeenUnits(i)' \subseteq SeenUnits(i) \cup Stack(c, b, q),
         Stack(r, 0, q) \subseteq PendingUnits(i),
         PendingUnits(i)' \subseteq PendingUnits(i) \ Stack(r, 0, q),
         OnOffer(i)' = OnOffer(i)
  PROVE  AccountedFor(i)'
<1>1. /\ Cardinality(SeenUnits(i)') \in Nat
      /\ Cardinality(SeenUnits(i)') <= Cardinality(SeenUnits(i)) + q
  BY Sizes, Grown
<1>2. /\ Cardinality(PendingUnits(i)') \in Nat
      /\ Cardinality(PendingUnits(i)') + q <= Cardinality(PendingUnits(i))
  BY Sizes, Shrunk
<1> QED
  BY <1>1, <1>2, Sizes DEF AccountedFor, Pending

(* Where units seen or pending after a step come from. *)
LEMMA SeenMoves ==
  ASSUME NEW i, NEW D,
         \A c \in Request : rows'[c] # None /\ rows'[c].item = i
           => {rows'[c].id} \X (1 .. rows'[c].qty) \subseteq SeenUnits(i) \cup D,
         \A r \in Request : req'[r].pc \in {"reserve", "save"} /\ req'[r].item = i
           => {req'[r].id} \X (1 .. req'[r].base) \subseteq SeenUnits(i) \cup D
  PROVE  SeenUnits(i)' \subseteq SeenUnits(i) \cup D
<1> SUFFICES ASSUME NEW t \in SeenUnits(i)' PROVE t \in SeenUnits(i) \cup D
  OBVIOUS
<1>1. \/ \E c \in Request : /\ rows'[c] # None /\ rows'[c].item = i
                            /\ t \in {rows'[c].id} \X (1 .. rows'[c].qty)
      \/ \E r \in Request : /\ req'[r].pc \in {"reserve", "save"} /\ req'[r].item = i
                            /\ t \in {req'[r].id} \X (1 .. req'[r].base)
  BY DEF SeenUnits, ReadUnits, UnitsOf, RowsOfItem
<1> QED
  BY <1>1

(* Where the units pending after a step come from.                         *)
LEMMA PendingMoves ==
  ASSUME NEW i, NEW D,
         \A r \in Request : req'[r].pc \in {"save", "undo"} /\ req'[r].item = i
           => {r} \X (1 .. req'[r].arg) \subseteq D
  PROVE  PendingUnits(i)' \subseteq D
<1> SUFFICES ASSUME NEW t \in PendingUnits(i)' PROVE t \in D
  OBVIOUS
<1>1. \E r \in Request : /\ req'[r].pc \in {"save", "undo"} /\ req'[r].item = i
                         /\ t \in {r} \X (1 .. req'[r].arg)
  BY DEF PendingUnits
<1> QED
  BY <1>1

(* What handlers see after a step of r that writes no row.                 *)
LEMMA SeenKept ==
  ASSUME Inv, NEW i, NEW r \in Request, NEW D, Others(r), rows' = rows,
         req'[r].pc \in {"reserve", "save"} /\ req'[r].item = i
           => {req'[r].id} \X (1 .. req'[r].base) \subseteq SeenUnits(i) \cup D
  PROVE  SeenUnits(i)' \subseteq SeenUnits(i) \cup D
<1>1. \A c \in Request : rows'[c] # None /\ rows'[c].item = i
        => {rows'[c].id} \X (1 .. rows'[c].qty) \subseteq SeenUnits(i) \cup D
  BY SeenUnit
<1>2. \A s \in Request : req'[s].pc \in {"reserve", "save"} /\ req'[s].item = i
        => {req'[s].id} \X (1 .. req'[s].base) \subseteq SeenUnits(i) \cup D
  BY SeenUnit DEF Others
<1> QED
  BY <1>1, <1>2, SeenMoves

(* Handlers that hold nothing more after a step that writes no row. *)
LEMMA NothingTaken ==
  ASSUME Inv, Inv', NEW i \in Item, AccountedFor(i), rows' = rows,
         \A r \in Request :
           \/ req'[r] = req[r]
           \/ /\ req'[r].pc \in {"reserve", "save"} /\ req'[r].item = i
                => {req'[r].id} \X (1 .. req'[r].base) \subseteq SeenUnits(i)
              /\ req'[r].pc \in {"save", "undo"} /\ req'[r].item = i
                => {r} \X (1 .. req'[r].arg) \subseteq PendingUnits(i),
         OnOffer(i)' <= OnOffer(i)
  PROVE  AccountedFor(i)'
<1>1. SeenUnits(i)' \subseteq SeenUnits(i) \cup {}
  <2>1. \A c \in Request : rows'[c] # None /\ rows'[c].item = i
          => {rows'[c].id} \X (1 .. rows'[c].qty) \subseteq SeenUnits(i) \cup {}
    BY SeenUnit
  <2>2. \A r \in Request : req'[r].pc \in {"reserve", "save"} /\ req'[r].item = i
          => {req'[r].id} \X (1 .. req'[r].base) \subseteq SeenUnits(i) \cup {}
    BY SeenUnit
  <2> QED
    BY <2>1, <2>2, SeenMoves
<1>2. PendingUnits(i)' \subseteq PendingUnits(i)
  <2>1. \A s \in Request : req'[s].pc \in {"save", "undo"} /\ req'[s].item = i
          => {s} \X (1 .. req'[s].arg) \subseteq PendingUnits(i)
    BY PendingUnit
  <2> QED
    BY <2>1, PendingMoves
<1>3. OnOffer(i)' \in Int
  BY DEF OnOffer, Inv, TypeOK, RedisTypeOK
<1> QED
  BY <1>1, <1>2, <1>3, Lost

-----------------------------------------------------------------------------
(* The account under the steps of the two handlers.                        *)

(* A handler that is left with nothing in its hands. *)
LEMMA LetsGo ==
  ASSUME Inv, Inv', Accounted, NEW r \in Request, Others(r), rows' = rows,
         req'[r].pc \notin {"reserve", "save", "undo"},
         \A i \in Item : OnOffer(i)' <= OnOffer(i)
  PROVE  Accounted'
<1> SUFFICES ASSUME NEW i \in Item PROVE AccountedFor(i)'
  BY DEF Accounted, AccountedFor
<1>1. AccountedFor(i)
  BY DEF Accounted, AccountedFor
<1> QED
  BY <1>1, NothingTaken DEF Others

(* The counters stand still, and so does the server. *)
LEMMA OnOfferKept ==
  ASSUME Inv, UNCHANGED <<stock, script, server>>
  PROVE  \A i \in Item : OnOffer(i)' = OnOffer(i) /\ OnOffer(i)' <= OnOffer(i)
BY DEF OnOffer, Inv, TypeOK, RedisTypeOK

(* A reserve of q units for the row c, of which b were seen before. *)
LEMMA ReserveAccounted ==
  ASSUME Inv, Inv', Accounted, NEW r \in Request, NEW c \in Request, NEW k \in Item,
         NEW q \in Nat, NEW b \in Nat, Others(r), rows' = rows, server = "up", server' = server,
         req[r].pc \notin {"save", "undo"},
         {c} \X (1 .. b) \subseteq SeenUnits(k),
         Reserve(k, c, q, r),
         req'[r].pc = "save", req'[r].item = k, req'[r].id = c, req'[r].arg = q,
         req'[r].base = b
  PROVE  Accounted'
<1> SUFFICES ASSUME NEW i \in Item PROVE AccountedFor(i)'
  BY DEF Accounted, AccountedFor
<1>1. AccountedFor(i)
  BY DEF Accounted, AccountedFor
<1>2. script /\ script' = script
  BY DEF Reserve, ScriptKnown, redisLife
<1>3. OnOffer(i) = stock[i] /\ OnOffer(i)' = stock'[i] /\ stock \in [Item -> Int]
  BY <1>2 DEF OnOffer, Inv, TypeOK, RedisTypeOK
<1>4. CASE i = k
  <2>1. SeenUnits(i)' \subseteq SeenUnits(i) \cup {}
    BY <1>4, SeenKept DEF Others
  <2>2. PendingUnits(i)' \subseteq PendingUnits(i) \cup Stack(r, 0, q)
    <3> DEFINE D == PendingUnits(i) \cup Stack(r, 0, q)
    <3>1. \A s \in Request : req'[s].pc \in {"save", "undo"} /\ req'[s].item = i
            => {s} \X (1 .. req'[s].arg) \subseteq D
      BY PendingUnit, FirstUnits DEF Others
    <3> HIDE DEF D
    <3>2. PendingUnits(i)' \subseteq D
      BY <3>1, PendingMoves
    <3> QED
      BY <3>2 DEF D
  <2>3. OnOffer(i)' = OnOffer(i) - q
    BY <1>3, <1>4 DEF Reserve
  <2> QED
    BY <1>1, <2>1, <2>2, <2>3, Taken
<1>5. CASE i # k
  <2>1. OnOffer(i)' <= OnOffer(i)
    BY <1>3, <1>5 DEF Reserve
  <2> QED
    BY <1>1, <1>5, <2>1, NothingTaken DEF Others
<1> QED
  BY <1>4, <1>5

(* A handler gives up, or writes, the units it has pending. *)
LEMMA HandsOver ==
  ASSUME Inv, NEW r \in Request, NEW i \in Item, NEW q \in Nat, Others(r),
         req[r].pc \in {"save", "undo"}, req[r].item = i, req[r].arg = q,
         req'[r].pc \notin {"save", "undo"}
  PROVE  /\ Stack(r, 0, q) \subseteq PendingUnits(i)
         /\ PendingUnits(i)' \subseteq PendingUnits(i) \ Stack(r, 0, q)
<1>1. Stack(r, 0, q) \subseteq PendingUnits(i)
  BY PendingUnit, FirstUnits
<1> DEFINE D == PendingUnits(i) \ Stack(r, 0, q)
<1>2. ASSUME NEW s \in Request, req'[s].pc \in {"save", "undo"}, req'[s].item = i
      PROVE  {s} \X (1 .. req'[s].arg) \subseteq D
  <2>1. s # r /\ req'[s] = req[s]
    BY <1>2 DEF Others
  <2>2. {s} \X (1 .. req'[s].arg) \subseteq PendingUnits(i)
    BY <1>2, <2>1, PendingUnit
  <2> QED
    BY <2>1, <2>2 DEF Stack
<1> HIDE DEF D
<1>3. PendingUnits(i)' \subseteq D
  BY <1>2, PendingMoves
<1> QED
  BY <1>1, <1>3 DEF D

(* AddToCart's rollback gives back what it had taken, and no more.         *)
LEMMA UndoAccounted ==
  ASSUME Inv, Inv', Accounted, NEW r \in Request, Undo(r)
  PROVE  Accounted'
<1>1. /\ Others(r) /\ req'[r].pc = "undoDrop" /\ req[r].pc = "undo" /\ rows' = rows
      /\ UNCHANGED <<script, server>>
  BY UndoNow DEF Becomes, Others, Undo, At, mongoVars, serverVars, redisLife
<1> SUFFICES ASSUME NEW i \in Item PROVE AccountedFor(i)'
  BY DEF Accounted, AccountedFor
<1>2. AccountedFor(i)
  BY DEF Accounted, AccountedFor
<1> DEFINE q == req[r].arg
<1>3. q \in Nat /\ req[r].item \in Item
  BY <1>1 DEF Inv, TypeOK, Locals, LocalsOK
<1>4. stock \in [Item -> Int] /\ OnOffer(i) \in Int /\ OnOffer(i)' \in Int
  BY DEF OnOffer, Inv, TypeOK, RedisTypeOK
<1>5. CASE i = req[r].item
  <2>1. SeenUnits(i)' \subseteq SeenUnits(i) \cup {}
    BY <1>1, SeenKept
  <2>2. OnOffer(i)' <= OnOffer(i) + q
    BY <1>1, <1>3, <1>4, <1>5 DEF Undo, Release, OnOffer
  <2>3. /\ Stack(r, 0, q) \subseteq PendingUnits(i)
        /\ PendingUnits(i)' \subseteq PendingUnits(i) \ Stack(r, 0, q)
    BY <1>1, <1>3, <1>5, HandsOver
  <2> HIDE DEF q
  <2> QED
    BY <1>2, <1>3, <1>4, <2>1, <2>2, <2>3, RolledBack
<1>6. CASE i # req[r].item
  <2>1. OnOffer(i)' <= OnOffer(i)
    BY <1>1, <1>3, <1>4, <1>6 DEF Undo, Release, OnOffer
  <2> QED
    BY <1>1, <1>2, <2>1, NothingTaken DEF Others
<1> QED
  BY <1>5, <1>6

(* The save writes what was reserved over what was read.                   *)
LEMMA SaveAccounted ==
  ASSUME Inv, Inv', Accounted, NEW r \in Request, SaveRow(r)
  PROVE  Accounted'
<1>1. /\ Others(r) /\ req'[r].pc \in {"emit", "survey"} /\ req[r].pc = "save"
      /\ UNCHANGED <<stock, script, server>>
  BY SaveRowNow DEF Becomes, Others, SaveRow, At, serverVars, redisVars, AfterSave
<1> DEFINE c == req[r].id
           b == req[r].base
           q == req[r].arg
<1>2. q \in Nat /\ req[r].item \in Item
  BY <1>1 DEF Inv, TypeOK, Locals, LocalsOK
<1>3. c \in Request /\ b \in Nat
  BY <1>1 DEF Inv, TypeOK, Locals, LocalsOK
<1>4. \A d \in Request : \/ rows'[d] = rows[d]
                         \/ /\ rows'[d].item = req[r].item
                            /\ {rows'[d].id} \X (1 .. rows'[d].qty) = {c} \X (1 .. (b + q))
  BY <1>3 DEF SaveRow, SaveCartItem, ReservedRow, Inv, TypeOK
<1>5. {c} \X (1 .. (b + q)) = ({c} \X (1 .. b)) \cup Stack(c, b, q)
  BY <1>2, <1>3, FirstUnits
<1>6. {c} \X (1 .. b) \subseteq SeenUnits(req[r].item)
  BY <1>1, SeenUnit
<1> SUFFICES ASSUME NEW i \in Item PROVE AccountedFor(i)'
  BY DEF Accounted, AccountedFor
<1>7. AccountedFor(i) /\ OnOffer(i)' = OnOffer(i)
  BY <1>1, OnOfferKept DEF Accounted, AccountedFor
<1> HIDE DEF c, b, q
<1>8. CASE i = req[r].item
  <2>1. SeenUnits(i)' \subseteq SeenUnits(i) \cup Stack(c, b, q)
    <3>1. \A d \in Request : rows'[d] # None /\ rows'[d].item = i
            => {rows'[d].id} \X (1 .. rows'[d].qty) \subseteq SeenUnits(i) \cup Stack(c, b, q)
      BY <1>4, <1>5, <1>6, <1>8, SeenUnit
    <3>2. \A s \in Request : req'[s].pc \in {"reserve", "save"} /\ req'[s].item = i
            => {req'[s].id} \X (1 .. req'[s].base) \subseteq SeenUnits(i) \cup Stack(c, b, q)
      BY <1>1, SeenUnit DEF Others
    <3> QED
      BY <3>1, <3>2, SeenMoves
  <2>2. /\ Stack(r, 0, q) \subseteq PendingUnits(i)
        /\ PendingUnits(i)' \subseteq PendingUnits(i) \ Stack(r, 0, q)
    BY <1>1, <1>2, <1>8, HandsOver DEF q
  <2> QED
    BY <1>2, <1>3, <1>7, <2>1, <2>2, Written
<1>9. CASE i # req[r].item
  <2>1. SeenUnits(i)' \subseteq SeenUnits(i) \cup {}
    <3>1. \A d \in Request : rows'[d] # None /\ rows'[d].item = i
            => {rows'[d].id} \X (1 .. rows'[d].qty) \subseteq SeenUnits(i) \cup {}
      BY <1>4, <1>9, SeenUnit
    <3>2. \A s \in Request : req'[s].pc \in {"reserve", "save"} /\ req'[s].item = i
            => {req'[s].id} \X (1 .. req'[s].base) \subseteq SeenUnits(i) \cup {}
      BY <1>1, SeenUnit DEF Others
    <3> QED
      BY <3>1, <3>2, SeenMoves
  <2>2. PendingUnits(i)' \subseteq PendingUnits(i)
    <3>1. \A s \in Request : req'[s].pc \in {"save", "undo"} /\ req'[s].item = i
            => {s} \X (1 .. req'[s].arg) \subseteq PendingUnits(i)
      BY <1>1, PendingUnit DEF Others
    <3> QED
      BY <3>1, PendingMoves
  <2>3. OnOffer(i)' \in Int /\ OnOffer(i)' <= OnOffer(i)
    BY <1>1, OnOfferKept, Sizes, <1>7
  <2> QED
    BY <1>7, <2>1, <2>2, <2>3, Lost
<1> QED
  BY <1>8, <1>9

-----------------------------------------------------------------------------
(* Every step keeps the account.                                           *)

(* The calls. *)
LEMMA BuyingCall ==
  ASSUME BuyingOnly, Inv, Inv', OnlyBuys, Accounted, NEW r \in Request, Call(r)
  PROVE  OnlyBuys' /\ Accounted' /\ server = "up" /\ server' = "up"
<1>1. ASSUME NEW u \in User, NEW i \in Item, NEW q \in Quantity, AddToCart(r, u, i, q)
      PROVE  OnlyBuys' /\ Accounted' /\ server = "up" /\ server' = "up"
  <2>1. /\ req[r].pc = "new" /\ server = "up" /\ rows' = rows /\ UNCHANGED <<orders, exp, server>>
    BY <1>1 DEF AddToCart, Arrives, mongoVars, serverVars
  <2>2. q \in Nat
    BY EnvironmentAssumption
  <2>3. CASE Reserve(i, r, q, r)
             /\ Becomes(r, "save", "add", u, i, r, q, 0, {}, {}, stock[i] - q)
    <3>1. {r} \X (1 .. 0) \subseteq SeenUnits(i)
      OBVIOUS
    <3>2. Accounted'
      BY <2>1, <2>2, <2>3, <3>1, ReserveAccounted DEF Becomes, Others
    <3>3. OnlyBuys'
      BY <2>1, <2>3 DEF OnlyBuys, BuyingPc, Becomes
    <3> QED
      BY <2>1, <3>2, <3>3
  <2>4. CASE UNCHANGED redisVars /\ Finishes(r, u, i)
    <3>1. \A j \in Item : OnOffer(j)' <= OnOffer(j)
      BY <2>1, <2>4, OnOfferKept DEF redisVars
    <3>2. Accounted'
      BY <2>1, <2>4, <3>1, LetsGo DEF Finishes, Becomes, Others
    <3>3. OnlyBuys'
      BY <2>1, <2>4 DEF OnlyBuys, BuyingPc, Finishes, Becomes
    <3> QED
      BY <2>1, <3>2, <3>3
  <2> QED
    BY <1>1, <2>3, <2>4, AddToCartNow
<1>2. ASSUME NEW u \in User, NEW i \in Item, NEW q \in Quantity, Increase(r, u, i, q)
      PROVE  OnlyBuys' /\ Accounted' /\ server = "up" /\ server' = "up"
  <2>1. /\ req[r].pc = "new" /\ server = "up" /\ rows' = rows
        /\ UNCHANGED <<orders, exp, server, stock, script>>
    BY <1>2 DEF Increase, Arrives, mongoVars, serverVars, redisVars
  <2>2. /\ Others(r) /\ req'[r].pc = "reserve" /\ req'[r].item = i
        /\ \/ req'[r].base = 0
           \/ \E row \in FindInCart(u, i) : req'[r].id = row.id /\ req'[r].base = row.qty
    BY <1>2, IncreaseNow DEF Becomes, Others
  <2>3. OnlyBuys'
    BY <2>1, <2>2 DEF OnlyBuys, BuyingPc, Others
  <2>4. {req'[r].id} \X (1 .. req'[r].base) \subseteq SeenUnits(i)
    <3>1. CASE req'[r].base = 0
      BY <3>1
    <3>2. ASSUME NEW row \in FindInCart(u, i), req'[r].id = row.id /\ req'[r].base = row.qty
          PROVE  {req'[r].id} \X (1 .. req'[r].base) \subseteq SeenUnits(i)
      <4>1. PICK c \in Request : rows[c] # None /\ rows[c] = row /\ row.item = i
        BY DEF FindInCart, FindByUser
      <4>2. {row.id} \X (1 .. row.qty) \subseteq SeenUnits(i)
        BY <4>1, SeenUnit
      <4> QED
        BY <3>2, <4>2
    <3> QED
      BY <2>2, <3>1, <3>2
  <2>5. Accounted'
    <3> SUFFICES ASSUME NEW j \in Item PROVE AccountedFor(j)'
      BY DEF Accounted, AccountedFor
    <3>1. AccountedFor(j) /\ OnOffer(j)' <= OnOffer(j)
      BY <2>1, OnOfferKept DEF Accounted, AccountedFor
    <3> QED
      BY <2>1, <2>2, <2>4, <3>1, NothingTaken DEF Others
  <2> QED
    BY <2>1, <2>3, <2>5
<1> QED
  BY <1>1, <1>2 DEF Call, BuyingOnly, Decrease, RemoveFromCart, Checkout, Arrives

(* The handlers' steps. *)
LEMMA BuyingStep ==
  ASSUME BuyingOnly, Inv, Inv', OnlyBuys, Accounted, NEW r \in Request, Step(r)
  PROVE  OnlyBuys' /\ Accounted' /\ server = "up" /\ server' = "up"
<1>1. req[r].pc \in BuyingPc
  BY DEF OnlyBuys
<1>2. CASE IncreaseReserve(r)
  <2>1. /\ req[r].pc = "reserve" /\ server = "up" /\ rows' = rows
        /\ UNCHANGED <<orders, exp, server>>
    BY <1>2 DEF IncreaseReserve, At, mongoVars, serverVars
  <2> DEFINE k == req[r].item
             c == req[r].id
             q == req[r].arg
             b == req[r].base
  <2>2. k \in Item /\ c \in Request /\ q \in Nat /\ b \in Nat
    BY <2>1 DEF Inv, TypeOK, Locals, LocalsOK
  <2>3. CASE Reserve(k, c, q, r)
             /\ Becomes(r, "save", req[r].op, req[r].user, k, c, q, b, req[r].todo,
                        req[r].items, stock[k] - q)
    <3>1. {c} \X (1 .. b) \subseteq SeenUnits(k)
      BY <2>1, SeenUnit
    <3>2. req'[r].pc = "save" /\ req'[r].item = k /\ req'[r].id = c /\ req'[r].arg = q
          /\ req'[r].base = b /\ Others(r)
      BY <2>3 DEF Becomes, Others
    <3>3. req[r].pc \notin {"save", "undo"}
      BY <2>1
    <3> HIDE DEF k, c, q, b
    <3>4. Accounted'
      BY <2>1, <2>2, <2>3, <3>1, <3>2, <3>3, ReserveAccounted
    <3>5. OnlyBuys'
      BY <2>1, <3>2 DEF OnlyBuys, BuyingPc, Others
    <3> QED
      BY <2>1, <3>4, <3>5
  <2>4. CASE UNCHANGED redisVars /\ Finishes(r, req[r].user, ItemOfId(req[r]))
    <3>1. \A j \in Item : OnOffer(j)' <= OnOffer(j)
      BY <2>1, <2>4, OnOfferKept DEF redisVars
    <3>2. Accounted'
      BY <2>1, <2>4, <3>1, LetsGo DEF Finishes, Becomes, Others
    <3>3. OnlyBuys'
      BY <2>1, <2>4 DEF OnlyBuys, BuyingPc, Finishes, Becomes
    <3> QED
      BY <2>1, <3>2, <3>3
  <2> QED
    BY <1>2, <2>3, <2>4, IncreaseReserveNow
<1>3. CASE SaveRow(r)
  <2>1. /\ server = "up" /\ UNCHANGED <<orders, exp, server>>
    BY <1>3 DEF SaveRow, At, serverVars
  <2>2. OnlyBuys'
    BY <1>3, <2>1, SaveRowNow DEF OnlyBuys, BuyingPc, Becomes, AfterSave
  <2> QED
    BY <1>3, <2>1, <2>2, SaveAccounted
<1>4. CASE Undo(r)
  <2>1. /\ server = "up" /\ UNCHANGED <<orders, exp, server>>
    BY <1>4 DEF Undo, At, mongoVars, serverVars
  <2>2. OnlyBuys'
    BY <1>4, <2>1, UndoNow DEF OnlyBuys, BuyingPc, Becomes
  <2> QED
    BY <1>4, <2>1, <2>2, UndoAccounted
<1>5. CASE UndoDrop(r) \/ Survey(r) \/ RefreshKey(r) \/ GetRemaining(r) \/ Emit(r)
  <2>1. /\ server = "up" /\ rows' = rows /\ UNCHANGED <<orders, exp, server, stock, script>>
    BY <1>5 DEF UndoDrop, Survey, RefreshKey, GetRemaining, Emit, At, mongoVars, serverVars,
       redisVars, redisLife
  <2>2. Others(r) /\ req'[r].pc \in {"get", "survey", "refresh", "emit", "done"}
    <3>1. CASE UndoDrop(r)
      BY <3>1, UndoDropNow DEF Becomes, Others
    <3>2. CASE Survey(r)
      BY <3>2, SurveyNow DEF Becomes, Others
    <3>3. CASE RefreshKey(r)
      BY <3>3, RefreshKeyNow DEF Becomes, Others
    <3>4. CASE GetRemaining(r)
      BY <3>4, GetRemainingNow DEF Becomes, Others
    <3>5. CASE Emit(r)
      BY <3>5, EmitNow DEF Finishes, Becomes, Others
    <3> QED
      BY <1>5, <3>1, <3>2, <3>3, <3>4, <3>5
  <2>3. OnlyBuys'
    BY <2>1, <2>2 DEF OnlyBuys, BuyingPc, Others
  <2>4. Accounted'
    BY <2>1, <2>2, OnOfferKept, LetsGo
  <2> QED
    BY <2>1, <2>3, <2>4
<1>6. CASE CommandFails(r)
  <2>1. /\ server = "up" /\ rows' = rows /\ UNCHANGED <<orders, exp, server, stock, script>>
    BY <1>6 DEF CommandFails, mongoVars, serverVars, redisVars
  <2>2. /\ Others(r)
        /\ \/ req'[r].pc = "done"
           \/ /\ req'[r].pc = "undo" /\ req[r].pc = "save"
              /\ req'[r].arg = req[r].arg /\ req'[r].item = req[r].item
    BY <1>6, CommandFailsNow DEF Finishes, Becomes, Others
  <2>3. OnlyBuys'
    BY <2>1, <2>2 DEF OnlyBuys, BuyingPc, Others
  <2>4. Accounted'
    <3> SUFFICES ASSUME NEW j \in Item PROVE AccountedFor(j)'
      BY DEF Accounted, AccountedFor
    <3>1. AccountedFor(j) /\ OnOffer(j)' <= OnOffer(j)
      BY <2>1, OnOfferKept DEF Accounted, AccountedFor
    <3>2. req'[r].pc \in {"save", "undo"} /\ req'[r].item = j
            => {r} \X (1 .. req'[r].arg) \subseteq PendingUnits(j)
      BY <2>2, PendingUnit
    <3> QED
      BY <2>1, <2>2, <3>1, <3>2, NothingTaken DEF Others
  <2> QED
    BY <2>1, <2>3, <2>4
<1> QED
  BY <1>1, <1>2, <1>3, <1>4, <1>5, <1>6
  DEF Step, BuyingPc, BuyingOnly, SaveRowReplyLost, ReleaseRow, DropKey, DeleteRow, ShrinkRow,
      SaveOrder, ClearKey, EmptyCart, At

(* No handler is under way while the server is down or boots. *)
LEMMA CrashAccounted ==
  ASSUME Inv, Inv', OnlyBuys, NonNegative, Accounted, Crash
  PROVE  OnlyBuys' /\ Accounted' /\ DownIsIdle'
<1>1. \A r \in Request : \/ req'[r] = req[r] /\ req[r].pc \in {"new", "done"}
                         \/ req'[r].pc = "done"
  BY CrashNow DEF InFlight
<1>2. rows' = rows /\ orders' = orders /\ exp' = {} /\ server' = "down"
  BY DEF Crash, mongoVars
<1>3. \A i \in Item : OnOffer(i)' <= OnOffer(i)
  BY <1>2 DEF OnOffer, NonNegative, StockNonNegative
<1>4. Accounted'
  <2> SUFFICES ASSUME NEW i \in Item PROVE AccountedFor(i)'
    BY DEF Accounted, AccountedFor
  <2>1. AccountedFor(i)
    BY DEF Accounted, AccountedFor
  <2> QED
    BY <1>1, <1>2, <1>3, <2>1, NothingTaken
<1> QED
  BY <1>1, <1>2, <1>4 DEF OnlyBuys, BuyingPc, DownIsIdle, InFlight

(* The units in cart rows are among those seen. *)
LEMMA HeldWithinStock ==
  ASSUME Inv, NonNegative, Accounted, NEW i \in Item
  PROVE  /\ Held(i) \in Nat /\ Pending(i) \in Nat
         /\ OnOffer(i) + Held(i) + Pending(i) <= TotalStock[i]
         /\ OnOffer(i) >= 0
<1>1. IsFiniteSet(SeenUnits(i)) /\ UnitsOf(RowsOfItem(i)) \subseteq SeenUnits(i)
  BY SeenFinite
<1>2. Held(i) \in Nat /\ Held(i) <= Cardinality(SeenUnits(i))
  BY <1>1, FS_Subset, FS_CardinalityType DEF Held, QtyOf
<1>3. OnOffer(i) >= 0
  BY DEF OnOffer, NonNegative, StockNonNegative
<1> QED
  BY <1>2, <1>3, Sizes, PendingFinite DEF Accounted, AccountedFor, Pending

(* The seed. *)
LEMMA SeedAccounted ==
  ASSUME Inv, Inv', OnlyBuys, NonNegative, DownIsIdle, Accounted, SeedStock
  PROVE  /\ OnlyBuys' /\ Accounted' /\ DownIsIdle'
         /\ \A i \in Item : stock'[i] + Held(i)' = TotalStock[i]
<1>1. /\ rows' = rows /\ orders' = orders /\ exp' = exp /\ req' = req
      /\ server = "loaded" /\ server' = "seeded"
  BY DEF SeedStock, mongoVars
<1>2. ASSUME NEW i \in Item
      PROVE  stock'[i] + Held(i)' = TotalStock[i]
  <2>1. /\ Held(i) \in Nat /\ Held(i) <= TotalStock[i] /\ TotalStock[i] \in Nat
    BY HeldWithinStock, Sizes
  <2>2. stock'[i] = SeedValue(TotalStock[i] - Held(i))
    BY DEF SeedStock, Seed, aggregateReservedQuantities, Held
  <2>3. Held(i)' = Held(i)
    BY <1>1 DEF Held, RowsOfItem, UnitsOf, QtyOf
  <2> QED
    BY <2>1, <2>2, <2>3 DEF SeedValue
<1>3. OnlyBuys' /\ DownIsIdle'
  BY <1>1 DEF OnlyBuys, DownIsIdle, InFlight
<1>4. Accounted'
  <2> SUFFICES ASSUME NEW i \in Item PROVE AccountedFor(i)'
    BY DEF Accounted, AccountedFor
  <2>1. SeenUnits(i)' = UnitsOf(RowsOfItem(i))' /\ PendingUnits(i)' = {}
    BY <1>1 DEF DownIsIdle, SeenUnits, ReadUnits, PendingUnits, InFlight
  <2>2. Cardinality(SeenUnits(i)') = Held(i)' /\ Cardinality(PendingUnits(i)') = 0
    BY <2>1, FS_EmptySet DEF Held, QtyOf
  <2>3. Held(i)' = Held(i) /\ Held(i) \in Nat /\ Held(i) <= TotalStock[i] /\ TotalStock[i] \in Nat
    <3>1. Held(i)' = Held(i)
      BY <1>1 DEF Held, RowsOfItem, UnitsOf, QtyOf
    <3> QED
      BY <3>1, HeldWithinStock, Sizes
  <2>4. OnOffer(i)' = stock'[i] \/ OnOffer(i)' = 0
    BY DEF OnOffer
  <2>5. stock' \in [Item -> Int]
    BY DEF Inv, TypeOK, RedisTypeOK
  <2> QED
    BY <1>2, <2>2, <2>3, <2>4, <2>5 DEF AccountedFor, Pending
<1> QED
  BY <1>2, <1>3, <1>4

(* What else happens to the server and to Redis. *)
LEMMA RestAccounted ==
  ASSUME Inv, Inv', OnlyBuys, NonNegative, DownIsIdle, Accounted,
         LoadScript \/ Subscribe \/ RedisByItself
  PROVE  OnlyBuys' /\ Accounted' /\ DownIsIdle'
<1>1. rows' = rows /\ orders' = orders /\ exp' = exp /\ req' = req
  BY DEF LoadScript, Subscribe, RedisByItself, SnapshotRedis, RestartRedis, mongoVars
<1>2. \A i \in Item : OnOffer(i)' <= OnOffer(i)
  <2>1. \A i \in Item : OnOffer(i) >= 0 /\ OnOffer(i) \in Int
    BY HeldWithinStock, Sizes
  <2>2. CASE LoadScript
    BY <2>1, <2>2 DEF LoadScript, OnOffer
  <2>3. CASE Subscribe
    BY <2>1, <2>3 DEF Subscribe, redisVars, OnOffer
  <2>4. CASE SnapshotRedis
    BY <2>1, <2>4 DEF SnapshotRedis, RedisSaves, serverVars, OnOffer
  <2>5. CASE RestartRedis
    BY <2>1, <2>5 DEF RestartRedis, RedisRestarts, OnOffer
  <2> QED
    BY <2>2, <2>3, <2>4, <2>5 DEF RedisByItself
<1>3. Accounted'
  <2> SUFFICES ASSUME NEW i \in Item PROVE AccountedFor(i)'
    BY DEF Accounted, AccountedFor
  <2>1. AccountedFor(i)
    BY DEF Accounted, AccountedFor
  <2> QED
    BY <1>1, <1>2, <2>1, NothingTaken
<1>4. DownIsIdle'
  BY <1>1 DEF DownIsIdle, InFlight, LoadScript, Subscribe, RedisByItself, SnapshotRedis,
     RestartRedis, serverVars
<1> QED
  BY <1>1, <1>3, <1>4 DEF OnlyBuys

(* Nothing is sold while users only fill their carts. *)
LEMMA NothingSold ==
  ASSUME OnlyBuys, NEW i
  PROVE  Sold(i) = 0
<1>1. \A r \in Request : UnitsOf({row \in orders[r] : row.item = i}) = {}
  BY DEF OnlyBuys, UnitsOf
<1>2. SoldUnits(i) = {}
  BY <1>1 DEF SoldUnits
<1> QED
  BY <1>2, FS_EmptySet DEF Sold

(* Nor is anything sold after the step.                                    *)
LEMMA NothingSoldNext ==
  ASSUME OnlyBuys', NEW i
  PROVE  Sold(i)' = 0
<1>1. \A r \in Request : UnitsOf({row \in orders'[r] : row.item = i}) = {}
  BY DEF OnlyBuys, UnitsOf
<1>2. SoldUnits(i)' = {}
  BY <1>1 DEF SoldUnits, UnitsOf
<1> QED
  BY <1>2, FS_EmptySet DEF Sold

(* No key expires and no handler of an expired key runs.                   *)
LEMMA NothingExpires ==
  ASSUME BuyingOnly, OnlyBuys
  PROVE  /\ \A r \in Request : ~KeyExpires(r)
         /\ ~\E h \in exp : ExpireStep(h)
<1>1. exp = {} /\ Cardinality(exp) = 0
  BY FS_EmptySet DEF OnlyBuys
<1> QED
  BY <1>1 DEF BuyingOnly, KeyExpires, MayExpire

(* Every step keeps the inductive invariant.                               *)
LEMMA BuyingNext ==
  ASSUME BuyingOnly, Inv, Inv', Buying, [Next]_vars
  PROVE  Buying'
<1>1. OnlyBuys /\ NonNegative /\ DownIsIdle /\ Accounted /\ SeedReconciles
  BY DEF Buying
<1>2. NonNegative'
  BY <1>1, NonNegativeNext, SavedNext DEF NonNegative
<1>3. ASSUME NEW r \in Request, Call(r) \/ Step(r)
      PROVE  OnlyBuys' /\ Accounted' /\ server' = "up"
  BY <1>1, <1>3, BuyingCall, BuyingStep
<1>4. CASE \E r \in Request : Call(r) \/ Step(r)
  <2>1. OnlyBuys' /\ Accounted' /\ server' = "up"
    BY <1>3, <1>4
  <2> QED
    BY <1>2, <2>1 DEF Buying, DownIsIdle, SeedReconciles
<1>5. CASE Crash
  <2>1. OnlyBuys' /\ Accounted' /\ DownIsIdle'
    BY <1>1, <1>5, CrashAccounted
  <2> QED
    BY <1>2, <1>5, <2>1 DEF Buying, SeedReconciles, Crash
<1>6. CASE SeedStock
  <2>1. /\ OnlyBuys' /\ Accounted' /\ DownIsIdle'
        /\ \A i \in Item : stock'[i] + Held(i)' = TotalStock[i]
    BY <1>1, <1>6, SeedAccounted
  <2>2. \A i \in Item : stock'[i] + Held(i)' + Sold(i)' = TotalStock[i]
    BY <2>1, NothingSoldNext, TotalStockAssumption
  <2> QED
    BY <1>2, <2>1, <2>2 DEF Buying, SeedReconciles
<1>7. CASE LoadScript \/ Subscribe \/ RedisByItself
  <2>1. OnlyBuys' /\ Accounted' /\ DownIsIdle'
    BY <1>1, <1>7, RestAccounted
  <2>2. SeedReconciles'
    <3>1. CASE LoadScript
      BY <3>1 DEF LoadScript, SeedReconciles
    <3>2. CASE Subscribe
      BY <3>2 DEF Subscribe, SeedReconciles
    <3>3. CASE RestartRedis
      BY <3>3 DEF RestartRedis, RedisRestarts, SeedReconciles
    <3>4. CASE SnapshotRedis
      BY <1>1, <3>4 DEF SnapshotRedis, RedisSaves, SeedReconciles, mongoVars, serverVars,
         Held, RowsOfItem, QtyOf, UnitsOf, Sold, SoldUnits
    <3> QED
      BY <1>7, <3>1, <3>2, <3>3, <3>4 DEF RedisByItself
  <2> QED
    BY <1>2, <2>1, <2>2 DEF Buying
<1>8. CASE UNCHANGED vars
  BY <1>1, <1>2, <1>8 DEF vars, Buying, OnlyBuys, DownIsIdle, InFlight, Accounted, AccountedFor,
     SeedReconciles,
     OnOffer, SeenUnits, ReadUnits, Pending, PendingUnits, Held, RowsOfItem, QtyOf, UnitsOf,
     Sold, SoldUnits
<1> QED
  BY <1>1, <1>4, <1>5, <1>6, <1>7, <1>8, NothingExpires DEF Next, Boot

(* It holds initially.                                                     *)
LEMMA BuyingInit ==
  ASSUME Init
  PROVE  Buying
<1>1. /\ \A c \in Request : rows[c] = None /\ orders[c] = {} /\ req[c].pc = "new"
      /\ exp = {} /\ server = "up" /\ stock = TotalStock
  BY DEF Init, RedisInit, Fresh
<1>2. NonNegative
  BY TotalStockAssumption
     DEF Init, RedisInit, Nothing, NonNegative, StockNonNegative, SavedNonNegative
<1>3. OnlyBuys /\ DownIsIdle /\ SeedReconciles
  BY <1>1 DEF OnlyBuys, BuyingPc, DownIsIdle, SeedReconciles
<1>4. Accounted
  <2> SUFFICES ASSUME NEW i \in Item PROVE AccountedFor(i)
    BY DEF Accounted, AccountedFor
  <2>1. SeenUnits(i) = {} /\ PendingUnits(i) = {}
    BY <1>1 DEF SeenUnits, ReadUnits, PendingUnits, RowsOfItem, UnitsOf
  <2>2. Cardinality(SeenUnits(i)) = 0 /\ Pending(i) = 0
    BY <2>1, FS_EmptySet DEF Pending
  <2>3. OnOffer(i) = TotalStock[i] \/ OnOffer(i) = 0
    BY <1>1 DEF OnOffer
  <2> QED
    BY <2>2, <2>3, TotalStockAssumption DEF AccountedFor
<1> QED
  BY <1>2, <1>3, <1>4 DEF Buying

(* While users only fill their carts, units on offer, in carts, in the     *)
(* hands of handlers and sold never exceed an item's stock, however the    *)
(* requests of any number of users interleave, fail, are rolled back or    *)
(* die in a crash, and whatever Redis forgets in a restart and the boot    *)
(* seeds again.                                                            *)
THEOREM RushNeverOversells == BuyingOnly /\ Spec => []NoOversell
<1> SUFFICES ASSUME BuyingOnly PROVE Spec => []NoOversell
  OBVIOUS
<1>1. Init => Buying
  BY BuyingInit
<1>2. Inv /\ Inv' /\ Buying /\ [Next]_vars => Buying'
  BY BuyingNext
<1>3. Inv /\ Buying => NoOversell
  <2> SUFFICES ASSUME Inv, Buying, NEW i \in Item
               PROVE  OnOffer(i) + Held(i) + Pending(i) + Sold(i) <= TotalStock[i]
    BY DEF NoOversell
  <2> QED
    BY HeldWithinStock, NothingSold, Sizes DEF Buying
<1> QED
  BY <1>1, <1>2, <1>3, InvAlways, PTL DEF Spec

(* Under the same hypothesis, the counters that the boot writes from the   *)
(* cart rows add up with the rows to the stock: the seed finds no unit     *)
(* sold and none pending, so that what it leaves out of its formula is     *)
(* nothing.                                                                *)
THEOREM SeedAlwaysReconciles == BuyingOnly /\ Spec => []SeedReconciles
<1> SUFFICES ASSUME BuyingOnly PROVE Spec => []SeedReconciles
  OBVIOUS
<1>1. Init => Buying
  BY BuyingInit
<1>2. Inv /\ Inv' /\ Buying /\ [Next]_vars => Buying'
  BY BuyingNext
<1>3. Buying => SeedReconciles
  BY DEF Buying
<1> QED
  BY <1>1, <1>2, <1>3, InvAlways, PTL DEF Spec

=============================================================================

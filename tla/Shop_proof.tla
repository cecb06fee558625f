----------------------------- MODULE Shop_proof -----------------------------
(***************************************************************************)
(* The whole backend, for any names, items, batches, prices, requests, and *)
(* any number of logins, resets, boots and deaths: a name has one account, *)
(* the catalogue is one batch, a listing's pages cover it, no handler      *)
(* touches another user's cart, and orders charge what they sold.          *)
(*                                                                         *)
(* None of these is inductive by itself.  A login between its two commands *)
(* must have a name; an insert of a batch that is under way must go on     *)
(* where the collection ends; a checkout that has priced its lines must    *)
(* still be about to sell the rows that it priced.                         *)
(***************************************************************************)
EXTENDS Shop, FlashSale_proof, SequenceTheorems, WellFoundedInduction

(* A login that is between its two commands has a name.                    *)
NameGiven(l) == login[l].pc \in {"find", "save"} => login[l].name # None

(* A login that got its token got it for its name.                         *)
Answer(l) ==
  login[l].pc = "done" /\ login[l].user # None =>
    /\ login[l].name # None
    /\ users[login[l].user] = login[l].name

(* The inductive invariant of the accounts.                                *)
AccountsInv ==
  /\ Auth!AccountsTypeOK
  /\ \A n \in Name : \A u, v \in Auth!Named(n) : u = v
  /\ \A l \in Login : NameGiven(l) /\ Answer(l)

-----------------------------------------------------------------------------
(* The upsert, whichever login performs it: the types stay, a name keeps   *)
(* or gets one account, and nobody loses his.                              *)
LEMMA UpsertKeepsNames ==
  ASSUME Auth!AccountsTypeOK, NEW n \in Name, n # None, NEW u \in User,
         \A m \in Name : \A v, w \in Auth!Named(m) : v = w,
         Auth!UpsertUser(n, u)
  PROVE  /\ users' \in [User -> Name \cup {None}]
         /\ users'[u] = n
         /\ \A m \in Name : \A v, w \in Auth!Named(m)' : v = w
         /\ \A v \in User : users[v] # None => users'[v] = users[v]
<1>1. CASE users[u] = n /\ UNCHANGED users
  BY <1>1 DEF Auth!AccountsTypeOK, Auth!Named
<1>2. CASE /\ Auth!Named(n) = {}
           /\ users[u] = None
           /\ users' = [users EXCEPT ![u] = n]
  <2>1. /\ users' \in [User -> Name \cup {None}]
        /\ users'[u] = n
        /\ \A v \in User : v # u => users'[v] = users[v]
    BY <1>2 DEF Auth!AccountsTypeOK
  <2>2. \A m \in Name : \A v, w \in Auth!Named(m)' : v = w
    BY <1>2, <2>1 DEF Auth!Named
  <2> QED
    BY <1>2, <2>1, <2>2
<1> QED
  BY <1>1, <1>2 DEF Auth!UpsertUser

(* It holds initially.                                                     *)
LEMMA AccountsInvInit ==
  ASSUME None \notin Name
  PROVE  Auth!AccountsInit => AccountsInv
BY DEF Auth!AccountsInit, AccountsInv, Auth!AccountsTypeOK, Auth!Named,
       Auth!NotCalled, NameGiven, Answer

(* Every step of Accounts keeps it.                                        *)
LEMMA AccountsInvNext ==
  ASSUME Trim \in [Typed -> Name \cup {None}],
         AccountsInv, [Auth!AccountsNext]_Auth!accountVars
  PROVE  AccountsInv'
<1> USE DEF AccountsInv, Auth!AccountsTypeOK
<1>1. ASSUME NEW l \in Login, NEW typed \in Typed, Auth!PostLogin(l, typed)
      PROVE  AccountsInv'
  BY <1>1 DEF Auth!PostLogin, Auth!Answered, Auth!Named, NameGiven, Answer
<1>2. ASSUME NEW l \in Login, Auth!FindByName(l)
      PROVE  AccountsInv'
  BY <1>2 DEF Auth!FindByName, Auth!Answered, Auth!Named, NameGiven, Answer
<1>3. ASSUME NEW l \in Login, Auth!SaveUser(l)
      PROVE  AccountsInv'
  <2>1. PICK u \in User :
          /\ Auth!UpsertUser(login[l].name, u)
          /\ login' = [login EXCEPT ![l] = Auth!Answered(@.name, u)]
    BY <1>3 DEF Auth!SaveUser
  <2>2. login[l].name \in Name /\ login[l].name # None
    BY <1>3 DEF Auth!SaveUser, NameGiven
  <2>3. /\ users' \in [User -> Name \cup {None}]
        /\ users'[u] = login[l].name
        /\ \A m \in Name : \A v, w \in Auth!Named(m)' : v = w
        /\ \A v \in User : users[v] # None => users'[v] = users[v]
    BY <2>1, <2>2, UpsertKeepsNames
  <2> QED
    BY <2>1, <2>2, <2>3 DEF Auth!Answered, NameGiven, Answer
<1>4. ASSUME NEW l \in Login, Auth!SaveUserReplyLost(l)
      PROVE  AccountsInv'
  <2>1. PICK u \in User : Auth!UpsertUser(login[l].name, u)
    BY <1>4 DEF Auth!SaveUserReplyLost
  <2>2. login[l].name \in Name /\ login[l].name # None
    BY <1>4 DEF Auth!SaveUserReplyLost, NameGiven
  <2>3. /\ users' \in [User -> Name \cup {None}]
        /\ \A m \in Name : \A v, w \in Auth!Named(m)' : v = w
        /\ \A v \in User : users[v] # None => users'[v] = users[v]
    BY <2>1, <2>2, UpsertKeepsNames
  <2> QED
    BY <1>4, <2>2, <2>3
       DEF Auth!SaveUserReplyLost, Auth!Answered, NameGiven, Answer
<1>5. ASSUME NEW l \in Login, Auth!LoginFails(l)
      PROVE  AccountsInv'
  BY <1>5 DEF Auth!LoginFails, Auth!Answered, Auth!Named, NameGiven, Answer
<1>6. ASSUME UNCHANGED Auth!accountVars
      PROVE  AccountsInv'
  BY <1>6 DEF Auth!accountVars, Auth!Named, NameGiven, Answer
<1> QED
  BY <1>1, <1>2, <1>3, <1>4, <1>5, <1>6 DEF Auth!AccountsNext

-----------------------------------------------------------------------------
(* Every step of the shop is a step of some login, or none of any. *)
LEMMA LoginStepsOnly ==
  ASSUME [ShopNext]_shopVars
  PROVE  [Auth!AccountsNext]_<<users, login>>
<1> USE DEF clientVars
<1>1. CASE ShopBoots
  BY <1>1 DEF ShopBoots, BootCounts, BootLoads, BootSeeds, BootSubscribes
<1>2. CASE Fill
  BY <1>2 DEF Fill
<1>3. CASE Reset
  BY <1>3 DEF Reset, StartReset
<1>4. CASE Dies
  BY <1>4 DEF Dies
<1>5. CASE LogIn
  BY <1>5 DEF LogIn
<1>6. CASE \E r \in Request, u \in User, i \in Wanted : LooksUp(r, u, i)
  BY <1>6 DEF LooksUp
<1>7. CASE \E r \in Request : CallShop(r) \/ PriceLines(r)
  BY <1>7 DEF CallShop, PriceLines
<1>8. CASE HandlerSteps
  BY <1>8 DEF HandlerSteps
<1>9. CASE UNCHANGED shopVars
  BY <1>9 DEF shopVars
<1> QED
  BY <1>1, <1>2, <1>3, <1>4, <1>5, <1>6, <1>7, <1>8, <1>9 DEF ShopNext

(* The shop implements Accounts. *)
LEMMA ShopImplementsAccounts == ShopSpec => Auth!AccountsSpec
<1>1. ShopInit => Auth!AccountsInit
  BY DEF ShopInit
<1>2. [ShopNext]_shopVars => [Auth!AccountsNext]_Auth!accountVars
  BY LoginStepsOnly DEF Auth!accountVars
<1> QED
  BY <1>1, <1>2, PTL DEF ShopSpec, Auth!AccountsSpec

-----------------------------------------------------------------------------
(* However many first logins of one name interleave at LoginUser's two     *)
(* store commands, and whichever of them fail, before or after the upsert, *)
(* while the server boots, serves calls and is reset: the name has one     *)
(* account, and every login that succeeded got its token.                  *)
THEOREM OneAccount ==
  ASSUME None \notin Name, Trim \in [Typed -> Name \cup {None}]
  PROVE  ShopSpec => []OneAccountPerName
<1>1. Auth!AccountsInit => AccountsInv
  BY AccountsInvInit
<1>2. AccountsInv /\ [Auth!AccountsNext]_Auth!accountVars => AccountsInv'
  BY AccountsInvNext
<1>3. AccountsInv => OneAccountPerName
  BY DEF AccountsInv, OneAccountPerName, Auth!OneAccountPerName, Answer
<1> QED
  BY <1>1, <1>2, <1>3, ShopImplementsAccounts, PTL DEF Auth!AccountsSpec

-----------------------------------------------------------------------------
(* The catalogue: one batch, from its first item on.                       *)

(* The administrator is a record of these fields, at one of these places.  *)
AdminType ==
  /\ admin.pc \in {"idle", "dead", "boot", "wipe", "count", "insert", "keys", "del", "seed"}
  /\ admin = [pc |-> admin.pc, wipe |-> admin.wipe, keys |-> admin.keys, left |-> admin.left]

(* What is in the collection, and what is still to be inserted, is the     *)
(* batch inserted last.                                                    *)
OneBatch ==
  /\ items \in Seq(Item) /\ toInsert \in Seq(Item)
  /\ batches \in 0 .. Len(Batch)
  /\ toInsert # <<>> => admin.pc \in {"boot", "insert"}
  /\ batches = 0 => items = <<>> /\ toInsert = <<>>
  /\ batches # 0 =>
       LET B == Batch[batches]
       IN  /\ Len(items) <= Len(B)
           /\ items = SubSeq(B, 1, Len(items))
           /\ toInsert # <<>> => toInsert = SubSeq(B, Len(items) + 1, Len(B))

(* Unless somebody has died, all of it is there or to be inserted, except  *)
(* while the script empties the collection and on a new store.             *)
Complete ==
  deaths = 0 =>
    \/ admin.pc \in {"wipe", "count"}
    \/ admin.pc = "idle" /\ server = "down" /\ batches = 0
    \/ batches # 0 /\ (toInsert = <<>> => items = Batch[batches])

(* It counts the items only after it has emptied the collection, and       *)
(* nobody inserts before that.                                             *)
Emptied ==
  /\ admin.pc = "dead" => deaths # 0
  /\ admin.pc = "count" \/ (admin.pc = "wipe" /\ "items" \notin admin.wipe) => items = <<>>

(* The inductive invariant of the catalogue.                               *)
CatalogueInv == AdminType /\ OneBatch /\ Complete /\ Emptied /\ deaths \in Nat

(* The batches are sequences of items. *)
LEMMA BatchType ==
  ASSUME NEW n \in 1 .. Len(Batch)
  PROVE  Batch[n] \in Seq(Item) /\ Len(Batch[n]) \in Nat
BY ShopAssumption

(* There is a batch to insert.                                             *)
LEMMA BatchNotEmpty == Len(Batch) \in Nat /\ 1 \in 1 .. Len(Batch)
BY ShopAssumption

(* SeedItemsIfEmpty leaves a catalogue alone, and starts a new one from    *)
(* nothing.                                                                *)
LEMMA SeedItemsKeeps ==
  ASSUME OneBatch, SeedItemsIfEmpty(NewIds(batches + 1)),
         items # <<>> \/ batches < Len(Batch), admin'.pc \in {"boot", "insert"}
  PROVE  /\ OneBatch'
         /\ items = <<>> => batches' # 0 /\ (toInsert' = <<>> => items' = Batch'[batches'])
         /\ items # <<>> => UNCHANGED <<items, toInsert, batches>>
<1>1. CASE items # <<>>
  BY <1>1 DEF OneBatch, SeedItemsIfEmpty
<1>2. CASE items = <<>>
  <2>1. /\ toInsert' = Batch[batches + 1] /\ batches' = batches + 1 /\ items' = <<>>
        /\ batches + 1 \in 1 .. Len(Batch) /\ Len(Batch) \in Nat
    BY <1>2, BatchNotEmpty DEF OneBatch, SeedItemsIfEmpty, NewIds
  <2> SUFFICES ASSUME NEW B, B = Batch[batches + 1]
               PROVE  /\ OneBatch'
                      /\ batches' # 0 /\ (toInsert' = <<>> => items' = Batch'[batches'])
    BY <1>2
  <2>2. B \in Seq(Item) /\ Len(B) \in Nat
    BY <2>1, BatchType
  <2>3. SubSeq(B, 1, Len(B)) = B
    BY <2>2, SubSeqFull
  <2>4. SubSeq(B, 1, 0) = <<>> /\ Len(<<>>) = 0
    BY SubSeqEmpty
  <2> QED
    BY <2>1, <2>2, <2>3, <2>4 DEF OneBatch
<1> QED
  BY <1>1, <1>2

(* One insert of a batch: the next of its items comes after those there    *)
(* are, and with the last one the batch is complete.                       *)
LEMMA InsertKeeps ==
  ASSUME OneBatch, InsertItem, admin' = admin
  PROVE  /\ OneBatch'
         /\ batches' = batches /\ batches # 0
         /\ toInsert' = <<>> => items' = Batch[batches]
<1>1. toInsert # <<>> /\ batches # 0 /\ batches \in 1 .. Len(Batch) /\ Len(Batch) \in Nat
  BY BatchNotEmpty DEF OneBatch, InsertItem
<1> SUFFICES ASSUME NEW B, B = Batch[batches]
             PROVE  /\ OneBatch'
                    /\ batches' = batches /\ batches # 0
                    /\ toInsert' = <<>> => items' = B
  OBVIOUS
<1>2. B \in Seq(Item) /\ Len(B) \in Nat
  BY <1>1, BatchType
<1> DEFINE n == Len(items)
<1>3. n \in Nat /\ n <= Len(B) /\ items = SubSeq(B, 1, n) /\ toInsert = SubSeq(B, n + 1, Len(B))
  BY <1>1 DEF OneBatch
<1>4. n < Len(B)
  BY <1>1, <1>2, <1>3, SubSeqEmpty
<1>5. Head(toInsert) = B[n + 1] /\ Tail(toInsert) = SubSeq(B, n + 2, Len(B))
  BY <1>2, <1>3, <1>4, HeadTailOfSubSeq
<1>6. /\ items' = Append(items, B[n + 1]) /\ toInsert' = SubSeq(B, n + 2, Len(B))
      /\ batches' = batches
  BY <1>5 DEF InsertItem
<1>7. items' = SubSeq(B, 1, n + 1) /\ Len(items') = n + 1 /\ items' \in Seq(Item)
  <2>1. B[n + 1] \in Item /\ items \in Seq(Item)
    BY <1>2, <1>3, <1>4 DEF OneBatch
  <2>2. items' \in Seq(Item) /\ Len(items') = n + 1
    BY <1>6, <2>1
  <2>3. \A i \in 1 .. n : items[i] = B[i]
    <3>1. \A i \in 1 .. n : B[i] \in Item
      BY <1>2, <1>3
    <3> QED
      BY <1>3, <3>1, SubSeqProperties
  <2>4. \A i \in 1 .. n + 1 : items'[i] = B[i]
    BY <1>6, <1>3, <2>1, <2>3
  <2>5. /\ SubSeq(B, 1, n + 1) \in Seq(Item) /\ Len(SubSeq(B, 1, n + 1)) = n + 1
        /\ \A i \in 1 .. n + 1 : SubSeq(B, 1, n + 1)[i] = B[i]
    <3>1. \A i \in 1 .. n + 1 : B[i] \in Item
      BY <1>2, <1>3, <1>4
    <3>2. n + 1 \in Int /\ 1 \in Int /\ n + 1 >= 1 /\ (n + 1) - 1 + 1 = n + 1
          /\ \A i \in 1 .. n + 1 : 1 + i - 1 = i
      BY <1>3
    <3>3. /\ SubSeq(B, 1, n + 1) \in Seq(Item)
          /\ Len(SubSeq(B, 1, n + 1)) = IF 1 <= n + 1 THEN (n + 1) - 1 + 1 ELSE 0
          /\ \A i \in 1 .. (n + 1) - 1 + 1 : SubSeq(B, 1, n + 1)[i] = B[1 + i - 1]
      BY <3>1, <3>2, SubSeqProperties
    <3> QED
      BY <3>2, <3>3
  <2> QED
    BY <1>3, <2>2, <2>4, <2>5, SeqEqual
<1>8. toInsert' \in Seq(Item) /\ (toInsert' = <<>> => n + 1 = Len(B))
  <2>1. \A i \in n + 2 .. Len(B) : B[i] \in Item
    BY <1>2, <1>3
  <2>2. n + 2 \in Int /\ Len(B) \in Int
    BY <1>2, <1>3
  <2>3. /\ toInsert' \in Seq(Item)
        /\ Len(toInsert') = IF n + 2 <= Len(B) THEN Len(B) - (n + 2) + 1 ELSE 0
    BY <1>6, <2>1, <2>2, SubSeqProperties
  <2>4. Len(<<>>) = 0
    OBVIOUS
  <2> QED
    BY <1>2, <1>3, <1>4, <2>3, <2>4
<1>9. n + 1 = Len(B) => items' = B
  BY <1>2, <1>7, SubSeqFull
<1> HIDE DEF n
<1>10. toInsert' # <<>> => admin'.pc \in {"boot", "insert"}
  BY <1>1 DEF OneBatch
<1>11. n + 1 <= Len(B) /\ (n + 1) + 1 = n + 2
  BY <1>2, <1>3, <1>4 DEF n
<1> QED
  BY <1>1, <1>6, <1>7, <1>8, <1>9, <1>10, <1>11 DEF OneBatch

(* The invariant holds initially.                                          *)
LEMMA CatalogueInit ==
  ASSUME ShopInit
  PROVE  CatalogueInv
<1>1. /\ admin = Resting /\ deaths = 0 /\ toInsert = <<>> /\ server = "down"
      /\ items \in {<<>>, Batch[1]} /\ batches = IF items = <<>> THEN 0 ELSE 1
  BY DEF ShopInit
<1>2. AdminType /\ Emptied /\ deaths \in Nat
  BY <1>1 DEF AdminType, Emptied, Resting
<1>a. SUFFICES ASSUME NEW B, B = Batch[1]
               PROVE  OneBatch /\ Complete
  BY <1>2 DEF CatalogueInv
<1>3. B \in Seq(Item) /\ SubSeq(B, 1, Len(B)) = B /\ Len(Batch) \in Nat /\ 1 \in 1 .. Len(Batch)
  <2>1. 1 \in 1 .. Len(Batch) /\ B \in Seq(Item)
    BY <1>a, BatchNotEmpty, BatchType
  <2> QED
    BY <2>1, SubSeqFull, BatchNotEmpty
<1>4. CASE items = <<>>
  <2>1. batches = 0 /\ items \in Seq(Item) /\ toInsert \in Seq(Item)
        /\ toInsert = <<>> /\ batches \in 0 .. Len(Batch)
    BY <1>1, <1>3, <1>4
  <2>2. Complete
    BY <1>1, <2>1 DEF Complete, Resting
  <2> QED
    BY <1>4, <2>1, <2>2 DEF OneBatch
<1>5. CASE items # <<>>
  <2>1. items = B /\ batches = 1 /\ B = Batch[batches]
    BY <1>a, <1>1, <1>5
  <2>2. Complete
    BY <1>1, <2>1 DEF Complete
  <2>3. OneBatch
    BY <1>1, <1>3, <2>1 DEF OneBatch
  <2> QED
    BY <2>2, <2>3
<1> QED
  BY <1>4, <1>5

(* A step that leaves the catalogue alone. *)
LEMMA CatalogueSame ==
  ASSUME CatalogueInv, UNCHANGED <<items, toInsert, batches, deaths>>, AdminType',
         toInsert # <<>> => admin'.pc = admin.pc,
         Complete', Emptied'
  PROVE  CatalogueInv'
<1>1. OneBatch'
  BY DEF CatalogueInv, OneBatch
<1> QED
  BY <1>1 DEF CatalogueInv

(* Where the administrator goes next.                                      *)
LEMMA ProceedType ==
  ASSUME AdminType, NEW l, l = [pc |-> l.pc, wipe |-> l.wipe, keys |-> l.keys, left |-> l.left],
         admin.pc \in {"wipe", "count", "insert", "keys", "del", "seed"}, Proceed(l)
  PROVE  /\ AdminType' /\ admin'.wipe = l.wipe
         /\ admin'.pc = CASE admin.pc = "wipe" -> "count" [] admin.pc = "count" -> "insert"
                          [] admin.pc = "insert" -> "keys" [] admin.pc = "keys" -> "del"
                          [] admin.pc = "del" -> "seed" [] admin.pc = "seed" -> "idle"
<1>1. admin' = [l EXCEPT !.pc = NextPhase[admin.pc]]
  BY DEF Proceed
<1>2. NextPhase[admin.pc]
        = CASE admin.pc = "wipe" -> "count" [] admin.pc = "count" -> "insert"
            [] admin.pc = "insert" -> "keys" [] admin.pc = "keys" -> "del"
            [] admin.pc = "del" -> "seed" [] admin.pc = "seed" -> "idle"
  BY DEF NextPhase
<1> SUFFICES ASSUME NEW p, p = NextPhase[admin.pc]
             PROVE  AdminType' /\ admin'.wipe = l.wipe /\ admin'.pc = p
  BY <1>2
<1>3. p \in {"count", "insert", "keys", "del", "seed", "idle"}
  BY <1>2
<1>4. admin' = [pc |-> p, wipe |-> l.wipe, keys |-> l.keys, left |-> l.left]
  BY <1>1
<1> QED
  BY <1>3, <1>4 DEF AdminType

(* The reset script's steps. *)
LEMMA ResetCatalogue ==
  ASSUME CatalogueInv, Reset
  PROVE  CatalogueInv'
<1>1. ASSUME StartReset PROVE CatalogueInv'
  <2>1. /\ admin.pc \in {"idle", "dead"} /\ UNCHANGED <<items, toInsert, batches, deaths>>
        /\ admin' = [pc |-> "wipe", wipe |-> {"items", "carts", "orders"},
                     keys |-> {}, left |-> <<>>]
    BY <1>1 DEF StartReset, MayStart, catalogueVars, Resting
  <2>2. AdminType' /\ Complete' /\ Emptied'
    BY <2>1 DEF AdminType, Complete, Emptied
  <2>3. toInsert = <<>>
    BY <2>1 DEF CatalogueInv, OneBatch
  <2> QED
    BY <2>1, <2>2, <2>3, CatalogueSame
<1>a. deaths' = deaths \/ StartReset
  BY DEF Reset
<1>2. ASSUME NEW c \in {"items", "carts", "orders"}, Wipe(c), deaths' = deaths,
             UNCHANGED <<toInsert, batches>>,
             items' = IF c = "items" THEN <<>> ELSE items
      PROVE  CatalogueInv'
  <2>1. admin.pc = "wipe" /\ toInsert = <<>> /\ AdminType
    BY <1>2 DEF Wipe, CatalogueInv, OneBatch
  <2>2. /\ AdminType' /\ admin'.wipe = admin.wipe \ {c}
        /\ \/ admin'.pc = "wipe"
           \/ admin'.pc = "count" /\ admin.wipe \ {c} = {}
    <3> DEFINE l == [admin EXCEPT !.wipe = @ \ {c}]
    <3>0. ASSUME NEW w
          PROVE  [admin EXCEPT !.wipe = w]
                   = [pc |-> admin.pc, wipe |-> w, keys |-> admin.keys, left |-> admin.left]
      BY DEF CatalogueInv, AdminType
    <3>1. l = [pc |-> "wipe", wipe |-> admin.wipe \ {c}, keys |-> admin.keys, left |-> admin.left]
      BY <2>1, <3>0
    <3>2. \/ l.wipe = {} /\ Proceed(l)
          \/ admin' = l
      BY <1>2 DEF Wipe
    <3>3. l = [pc |-> l.pc, wipe |-> l.wipe, keys |-> l.keys, left |-> l.left]
          /\ l.wipe = admin.wipe \ {c} /\ l.pc = "wipe"
      BY <3>1
    <3> HIDE DEF l
    <3>4. CASE l.wipe = {} /\ Proceed(l)
      BY <2>1, <3>3, <3>4, ProceedType
    <3>5. CASE admin' = l
      BY <3>3, <3>5 DEF AdminType
    <3> QED
      BY <3>2, <3>4, <3>5
  <2>3. Complete'
    BY <2>2 DEF Complete
  <2>4. Emptied'
    <3>1. admin'.pc = "count" \/ (admin'.pc = "wipe" /\ "items" \notin admin'.wipe)
            => c = "items" \/ "items" \notin admin.wipe
      BY <1>2, <2>2
    <3> QED
      BY <1>2, <2>1, <2>2, <3>1 DEF CatalogueInv, Emptied
  <2>5. OneBatch'
    <3>1. CASE items' = items
      BY <1>2, <2>1, <3>1 DEF OneBatch, CatalogueInv
    <3>2. CASE items' = <<>>
      <4>1. \A B : SubSeq(B, 1, 0) = <<>> /\ Len(<<>>) = 0
        BY SubSeqEmpty
      <4>2. batches # 0 => Len(Batch[batches]) \in Nat
        BY BatchType, BatchNotEmpty DEF OneBatch, CatalogueInv
      <4> QED
        BY <1>2, <2>1, <3>2, <4>1, <4>2 DEF OneBatch, CatalogueInv
    <3> QED
      BY <1>2, <3>1, <3>2
  <2> QED
    BY <1>2, <2>2, <2>3, <2>4, <2>5 DEF CatalogueInv
<1>3. ASSUME WipeItems, deaths' = deaths PROVE CatalogueInv'
  BY <1>2, <1>3 DEF WipeItems, DeleteItems
<1>4. ASSUME WipeCarts, deaths' = deaths PROVE CatalogueInv'
  BY <1>2, <1>4 DEF WipeCarts, catalogueVars
<1>5. ASSUME WipeOrders, deaths' = deaths PROVE CatalogueInv'
  BY <1>2, <1>5 DEF WipeOrders, catalogueVars
<1>6. ASSUME ResetCounts, deaths' = deaths PROVE CatalogueInv'
  <2>1. admin.pc = "count" /\ items = <<>> /\ AdminType /\ Proceed(admin)
        /\ SeedItemsIfEmpty(NewIds(batches + 1)) /\ batches < Len(Batch) /\ OneBatch
    BY <1>6 DEF ResetCounts, CatalogueInv, Emptied
  <2>2. AdminType' /\ admin'.pc = "insert"
    <3>1. admin = [pc |-> admin.pc, wipe |-> admin.wipe, keys |-> admin.keys, left |-> admin.left]
      BY <2>1 DEF AdminType
    <3> QED
      BY <2>1, <3>1, ProceedType
  <2>3. OneBatch' /\ batches' # 0 /\ (toInsert' = <<>> => items' = Batch[batches'])
    BY <2>1, <2>2, SeedItemsKeeps
  <2> QED
    BY <1>6, <2>2, <2>3 DEF CatalogueInv, Complete, Emptied
<1>7. ASSUME NEW l, l = [pc |-> l.pc, wipe |-> l.wipe, keys |-> l.keys, left |-> l.left],
             Proceed(l) \/ admin' = l, admin.pc \in {"insert", "keys", "del", "seed"},
             l.pc = admin.pc, admin.pc = "insert" => toInsert = <<>>,
             UNCHANGED <<items, toInsert, batches, deaths>>
      PROVE  CatalogueInv'
  <2>1. AdminType' /\ admin'.pc \in {"insert", "keys", "del", "seed", "idle"}
    <3>1. CASE Proceed(l)
      BY <1>7, <3>1, ProceedType DEF CatalogueInv
    <3>2. CASE admin' = l
      BY <1>7, <3>2 DEF CatalogueInv, AdminType
    <3> QED
      BY <1>7, <3>1, <3>2
  <2>2. toInsert = <<>>
    BY <1>7 DEF CatalogueInv, OneBatch
  <2>3. Complete' /\ Emptied'
    BY <1>7, <2>1, <2>2 DEF CatalogueInv, Complete, Emptied
  <2> QED
    BY <1>7, <2>1, <2>2, <2>3, CatalogueSame
<1>8. ASSUME ListCreated, deaths' = deaths PROVE CatalogueInv'
  <2> DEFINE l == [admin EXCEPT !.left = items]
  <2>1. l = [pc |-> l.pc, wipe |-> l.wipe, keys |-> l.keys, left |-> l.left] /\ l.pc = admin.pc
    BY DEF CatalogueInv, AdminType
  <2>2. Proceed(l) /\ admin.pc = "insert" /\ toInsert = <<>>
        /\ UNCHANGED <<items, toInsert, batches, deaths>>
    BY <1>8 DEF ListCreated, catalogueVars
  <2> HIDE DEF l
  <2> QED
    BY <1>7, <2>1, <2>2
<1>9. ASSUME ListKeys, deaths' = deaths PROVE CatalogueInv'
  <2> DEFINE l == [admin EXCEPT !.keys = {c \in Request : key[c] # None}]
  <2>1. l = [pc |-> l.pc, wipe |-> l.wipe, keys |-> l.keys, left |-> l.left] /\ l.pc = admin.pc
    BY DEF CatalogueInv, AdminType
  <2>2. Proceed(l) /\ admin.pc = "keys" /\ UNCHANGED <<items, toInsert, batches, deaths>>
    BY <1>9 DEF ListKeys, catalogueVars
  <2> HIDE DEF l
  <2> QED
    BY <1>7, <2>1, <2>2
<1>10. ASSUME DeleteKeys, deaths' = deaths PROVE CatalogueInv'
  <2> DEFINE l == [admin EXCEPT !.keys = {}]
  <2>1. l = [pc |-> l.pc, wipe |-> l.wipe, keys |-> l.keys, left |-> l.left] /\ l.pc = admin.pc
    BY DEF CatalogueInv, AdminType
  <2>2. Proceed(l) /\ admin.pc = "del" /\ UNCHANGED <<items, toInsert, batches, deaths>>
    BY <1>10 DEF DeleteKeys, catalogueVars
  <2> HIDE DEF l
  <2> QED
    BY <1>7, <2>1, <2>2
<1>11. ASSUME SeedCreated, deaths' = deaths PROVE CatalogueInv'
  <2> DEFINE l == [admin EXCEPT !.left = Tail(@)]
  <2>1. l = [pc |-> l.pc, wipe |-> l.wipe, keys |-> l.keys, left |-> l.left] /\ l.pc = admin.pc
    <3>1. ASSUME NEW t
          PROVE  [admin EXCEPT !.left = t]
                   = [pc |-> admin.pc, wipe |-> admin.wipe, keys |-> admin.keys, left |-> t]
      BY DEF CatalogueInv, AdminType
    <3>2. l = [pc |-> admin.pc, wipe |-> admin.wipe, keys |-> admin.keys,
               left |-> Tail(admin.left)]
      BY <3>1
    <3> QED
      BY <3>2
  <2>2. (Proceed(l) \/ admin' = l) /\ admin.pc = "seed"
        /\ UNCHANGED <<items, toInsert, batches, deaths>>
    BY <1>11 DEF SeedCreated, catalogueVars
  <2> HIDE DEF l
  <2> QED
    BY <1>7, <2>1, <2>2
<1> QED
  BY <1>1, <1>3, <1>4, <1>5, <1>6, <1>8, <1>9, <1>10, <1>11 DEF Reset

(* A step that neither fills nor empties the catalogue, while the server   *)
(* boots no further than it had. *)
LEMMA CatalogueUntouched ==
  ASSUME CatalogueInv, UNCHANGED <<items, toInsert, batches, deaths, admin>>,
         server = "down" => server' = "down" \/ admin.pc # "idle",
         server # "down" => server' # "down"
  PROVE  CatalogueInv'
BY DEF CatalogueInv, AdminType, OneBatch, Complete, Emptied

(* A boot's steps keep it.                                                 *)
LEMMA BootCatalogue ==
  ASSUME CatalogueInv, ShopBoots
  PROVE  CatalogueInv'
<1>1. ASSUME BootCounts PROVE CatalogueInv'
  <2>1. /\ AdminType' /\ admin'.pc = "boot" /\ server' = server /\ server = "down"
        /\ admin.pc \in {"idle", "dead"} /\ deaths' = deaths /\ toInsert = <<>>
        /\ SeedItemsIfEmpty(NewIds(batches + 1)) /\ (items # <<>> \/ batches < Len(Batch))
    BY <1>1 DEF BootCounts, Resting, AdminType, backVars, MayStart, SeedItemsIfEmpty
  <2>2. /\ OneBatch'
        /\ items = <<>> => batches' # 0 /\ (toInsert' = <<>> => items' = Batch[batches'])
        /\ items # <<>> => UNCHANGED <<items, toInsert, batches>>
    BY <2>1, SeedItemsKeeps DEF CatalogueInv
  <2>3. Complete'
    BY <2>1, <2>2 DEF CatalogueInv, Complete, Emptied, OneBatch
  <2> QED
    BY <2>1, <2>2, <2>3 DEF CatalogueInv, Emptied
<1>2. ASSUME BootLoads PROVE CatalogueInv'
  <2>1. /\ AdminType' /\ admin'.pc = "idle" /\ server' = "loaded" /\ admin.pc = "boot"
        /\ toInsert = <<>> /\ UNCHANGED <<items, toInsert, batches, deaths>>
    BY <1>2 DEF BootLoads, LoadScript, Resting, AdminType, catalogueVars
  <2>2. Complete' /\ Emptied'
    BY <2>1 DEF CatalogueInv, Complete, Emptied
  <2> QED
    BY <2>1, <2>2, CatalogueSame
<1>3. ASSUME BootSeeds PROVE CatalogueInv'
  BY <1>3, CatalogueUntouched DEF BootSeeds, catalogueVars, adminVars
<1>4. ASSUME BootSubscribes PROVE CatalogueInv'
  BY <1>4, CatalogueUntouched DEF BootSubscribes, Subscribe, catalogueVars, adminVars
<1> QED
  BY <1>1, <1>2, <1>3, <1>4 DEF ShopBoots

(* Every step keeps the invariant.                                         *)
LEMMA CatalogueNext ==
  ASSUME CatalogueInv, [ShopNext]_shopVars
  PROVE  CatalogueInv'
<1>1. ASSUME Fill PROVE CatalogueInv'
  <2>1. /\ admin' = admin /\ server' = server /\ deaths' = deaths
        /\ admin.pc \in {"boot", "insert"} /\ InsertItem
    BY <1>1 DEF Fill, backVars, adminVars
  <2>2. OneBatch' /\ batches' # 0 /\ (toInsert' = <<>> => items' = Batch[batches'])
    BY <2>1, InsertKeeps DEF CatalogueInv
  <2> QED
    BY <2>1, <2>2 DEF CatalogueInv, AdminType, Complete, Emptied
<1>2. ASSUME Dies PROVE CatalogueInv'
  <2>1. /\ AdminType' /\ admin'.pc = "dead" /\ deaths' = deaths + 1 /\ toInsert' = <<>>
        /\ UNCHANGED <<items, batches>> /\ deaths \in Nat
    BY <1>2 DEF Dies, Resting, AdminType, CatalogueInv
  <2> QED
    BY <2>1 DEF CatalogueInv, OneBatch, Complete, Emptied
<1>3. ASSUME LogIn \/ (\E r \in Request, u \in User, i \in Wanted : LooksUp(r, u, i))
             \/ \E r \in Request : PriceLines(r)
      PROVE  CatalogueInv'
  BY <1>3, CatalogueUntouched
     DEF LogIn, LooksUp, PriceLines, backVars, catalogueVars, adminVars, serverVars
<1>4. ASSUME (\E r \in Request : CallShop(r)) \/ HandlerSteps
      PROVE  CatalogueInv'
  <2>1. server' = server
    <3>1. ASSUME NEW r \in Request, CallShop(r) PROVE server' = server
      BY <3>1 DEF CallShop, CallWithItem, CallWithCart, AddToCart, Increase, Decrease,
         RemoveFromCart, Checkout, serverVars
    <3>2. ASSUME NEW r \in Request, Step(r) PROVE server' = server
      BY <3>2 DEF Step, IncreaseReserve, SaveRow, SaveRowReplyLost, Undo, UndoDrop, ReleaseRow,
         DropKey, DeleteRow, ShrinkRow, Survey, RefreshKey, SaveOrder, ClearKey, EmptyCart,
         GetRemaining, Emit, CommandFails, serverVars
    <3>3. ASSUME (\E r \in Request : KeyExpires(r)) \/ \E h \in exp : ExpireStep(h)
          PROVE  server' = server
      BY <3>3 DEF KeyExpires, ExpireStep, ExpireFind, ExpireRelease, ExpireDelete, ExpireEmit,
         ExpireFails, serverVars
    <3> QED
      BY <1>4, <3>1, <3>2, <3>3 DEF HandlerSteps
  <2>2. UNCHANGED <<items, toInsert, batches, deaths, admin>>
    BY <1>4 DEF CallShop, HandlerSteps, catalogueVars, adminVars
  <2> QED
    BY <2>1, <2>2, CatalogueUntouched
<1>5. ASSUME UNCHANGED shopVars PROVE CatalogueInv'
  BY <1>5, CatalogueUntouched DEF shopVars, backVars, catalogueVars, adminVars
<1> QED
  BY <1>1, <1>2, <1>3, <1>4, <1>5, ResetCatalogue, BootCatalogue DEF ShopNext

(* However boots, resets and deaths of either interleave at their commands *)
(* on the collection, and however many there are: every item of one batch  *)
(* is there once, nothing of two batches is there, and unless somebody     *)
(* died in the middle the catalogue is complete when it is nobody's turn.  *)
THEOREM CatalogueStaysSingle == ShopSpec => []CatalogueNotDoubled
<1>1. ShopInit => CatalogueInv
  BY CatalogueInit
<1>2. CatalogueInv /\ [ShopNext]_shopVars => CatalogueInv'
  BY CatalogueNext
<1>3. CatalogueInv => CatalogueNotDoubled
  <2> SUFFICES ASSUME CatalogueInv PROVE CatalogueNotDoubled
    OBVIOUS
  <2>1. CASE batches = 0
    <3>1. items = <<>> /\ 1 \in 1 .. Len(Batch) /\ Len(Batch[1]) \in Nat
      BY <2>1, BatchNotEmpty, BatchType DEF CatalogueInv, OneBatch
    <3>2. SubSeq(Batch[1], 1, 0) = <<>> /\ Len(<<>>) = 0
      BY SubSeqEmpty
    <3>3. ~(server = "up" /\ admin.pc = "idle" /\ deaths = 0)
      BY <2>1 DEF CatalogueInv, Complete
    <3> QED
      BY <3>1, <3>2, <3>3 DEF CatalogueNotDoubled
  <2>2. CASE batches # 0
    <3>1. /\ batches \in 1 .. Len(Batch) /\ Len(items) <= Len(Batch[batches])
          /\ items = SubSeq(Batch[batches], 1, Len(items))
      BY <2>2, BatchNotEmpty DEF CatalogueInv, OneBatch
    <3>2. server = "up" /\ admin.pc = "idle" /\ deaths = 0 => items = Batch[batches]
      BY <2>2 DEF CatalogueInv, Complete, OneBatch
    <3> QED
      BY <3>1, <3>2 DEF CatalogueNotDoubled
  <2> QED
    BY <2>1, <2>2
<1> QED
  BY <1>1, <1>2, <1>3, PTL DEF ShopSpec

-----------------------------------------------------------------------------
(* The pages of a listing.                                                 *)

(* Arithmetic of pages. *)
LEMMA TimesMonotone ==
  ASSUME NEW a \in Int, NEW b \in Int, NEW l \in Nat, l >= 1, a <= b
  PROVE  a * l <= b * l /\ a * l \in Int /\ b * l \in Int
<1> DEFINE d == b - a
<1>1. d \in Nat /\ b = a + d
  OBVIOUS
<1> HIDE DEF d
<1>2. d * l \in Nat
  BY <1>1
<1>3. (a + d) * l = a * l + d * l
  BY <1>1
<1> QED
  BY <1>1, <1>2, <1>3

(* Arithmetic of the pages before one.                                     *)
LEMMA Before ==
  ASSUME NEW p \in Int, NEW l \in Nat
  PROVE  (p - 1) * l = p * l - l /\ p * l \in Int
OBVIOUS

(* What Math.ceil is made of: division and what is left.                   *)
LEMMA Quotient ==
  ASSUME NEW n \in Nat, NEW l \in Nat, l >= 1
  PROVE  /\ n \div l \in Nat
         /\ (n \div l) * l <= n
         /\ n < (n \div l) * l + l
<1> DEFINE q == n \div l
           r == n % l
<1>1. q \in Int /\ r \in Int /\ n = l * q + r /\ 0 <= r /\ r < l
  OBVIOUS
<1>2. q >= 0
  <2> HIDE DEF q, r
  <2> SUFFICES ASSUME q <= -1
               PROVE  FALSE
    BY <1>1
  <2>1. q * l <= (-1) * l
    BY <1>1, TimesMonotone
  <2> QED
    BY <1>1, <2>1
<1> HIDE DEF q, r
<1>3. l * q = q * l
  BY <1>1
<1>4. q \in Nat /\ q * l <= n /\ n < q * l + l
  BY <1>1, <1>2, <1>3
<1> QED
  BY <1>4 DEF q

(* Every place of a list of n is on exactly one of the pages of l. *)
LEMMA OnePage ==
  ASSUME NEW n \in Nat, NEW l \in Nat, l >= 1, NEW t \in Nat, n <= t * l,
         NEW j \in 1 .. n
  PROVE  \E p \in 1 .. t : \A q \in 1 .. t :
           (q - 1) * l < j /\ j <= q * l <=> q = p
<1> DEFINE p == ((j - 1) \div l) + 1
<1>1. p \in Nat /\ p >= 1 /\ (p - 1) * l <= j - 1 /\ j - 1 < (p - 1) * l + l
  <2>1. j - 1 \in Nat /\ p - 1 = (j - 1) \div l
    BY Quotient
  <2> QED
    BY <2>1, Quotient
<1> HIDE DEF p
<1>2. (p - 1) * l = p * l - l /\ p * l \in Int
  BY <1>1, Before
<1>3. p <= t
  <2> SUFFICES ASSUME t <= p - 1
               PROVE  FALSE
    BY <1>1
  <2>1. t * l <= (p - 1) * l
    BY <1>1, TimesMonotone
  <2> QED
    BY <1>1, <1>2, <2>1
<1>4. ASSUME NEW q \in 1 .. t, (q - 1) * l < j, j <= q * l
      PROVE  q = p
  <2>1. (q - 1) * l = q * l - l /\ q * l \in Int
    BY Before
  <2>2. ~(q <= p - 1)
    <3> SUFFICES ASSUME q <= p - 1
                 PROVE  FALSE
      OBVIOUS
    <3>1. q * l <= (p - 1) * l
      BY <1>1, TimesMonotone
    <3> QED
      BY <1>1, <1>2, <1>4, <2>1, <3>1
  <2>3. ~(p <= q - 1)
    <3> SUFFICES ASSUME p <= q - 1
                 PROVE  FALSE
      OBVIOUS
    <3>1. p * l <= (q - 1) * l
      BY <1>1, TimesMonotone
    <3> QED
      BY <1>1, <1>2, <1>4, <2>1, <3>1
  <2> QED
    BY <1>1, <2>2, <2>3
<1>5. (p - 1) * l < j /\ j <= p * l
  BY <1>1, <1>2
<1>6. p \in 1 .. t
  BY <1>1, <1>3
<1> QED
  BY <1>4, <1>5, <1>6

(* The limit of a listing is at least one, whatever was asked for.         *)
LEMMA LimitPositive ==
  ASSUME NEW limit \in Asked, limit # 0
  PROVE  Limit(limit) \in Nat /\ Limit(limit) >= 1
BY CatalogueAssumption, ShopAssumption DEF Limit, ParsePositiveInt

(* So many pages as are announced, and no more, are needed. *)
LEMMA EnoughPages ==
  ASSUME NEW limit, NEW n \in Nat, Limit(limit) \in Nat, Limit(limit) >= 1
  PROVE  LET t == TotalPages(n, limit)
             l == Limit(limit)
         IN  /\ t \in Nat /\ t >= 1
             /\ n <= t * l
             /\ n # 0 => (t - 1) * l < n
             /\ t * l \in Int /\ (t - 1) * l \in Int
<1> SUFFICES ASSUME NEW t, t = TotalPages(n, limit), NEW l, l = Limit(limit)
             PROVE  /\ t \in Nat /\ t >= 1
                    /\ n <= t * l
                    /\ n # 0 => (t - 1) * l < n
                    /\ t * l \in Int /\ (t - 1) * l \in Int
  OBVIOUS
<1>1. CASE n = 0
  <2>1. t = 1
    BY <1>1 DEF TotalPages
  <2> QED
    BY <1>1, <2>1
<1>2. CASE n # 0
  <2>1. t = (n + l - 1) \div l /\ n + l - 1 \in Nat /\ n + l - 1 >= l
    BY <1>2 DEF TotalPages
  <2>2. t \in Nat /\ t * l <= n + l - 1 /\ n + l - 1 < t * l + l
    BY <2>1, Quotient
  <2>3. (t - 1) * l = t * l - l /\ t * l \in Int
    BY <2>2, Before
  <2>4. t # 0
    <3> SUFFICES ASSUME t = 0
                 PROVE  FALSE
      OBVIOUS
    <3>1. t * l = 0
      OBVIOUS
    <3> QED
      BY <2>1, <2>2, <3>1
  <2> QED
    BY <2>2, <2>3, <2>4
<1> QED
  BY <1>1, <1>2

(* No item is there twice. *)
LEMMA ItemsDistinct ==
  ASSUME OneBatch
  PROVE  \A j, k \in 1 .. Len(items) : items[j] = items[k] => j = k
<1>1. CASE batches = 0
  BY <1>1 DEF OneBatch
<1>2. CASE batches # 0
  <2>1. batches \in 1 .. Len(Batch)
    BY <1>2, BatchNotEmpty DEF OneBatch
  <2>2. ASSUME NEW B, B = Batch[batches]
        PROVE  \A j, k \in 1 .. Len(items) : items[j] = items[k] => j = k
    <3> DEFINE n == Len(items)
    <3>1. B \in Seq(Item) /\ Len(B) \in Nat /\ n \in Nat /\ n <= Len(B) /\ items = SubSeq(B, 1, n)
      BY <1>2, <2>1, <2>2, BatchType DEF OneBatch
    <3>2. \A j \in 1 .. n : items[j] = B[j] /\ j \in 1 .. Len(B)
      <4>1. \A j \in 1 .. n : B[j] \in Item
        BY <3>1
      <4> QED
        BY <3>1, <4>1, SubSeqProperties
    <3>3. \A j, k \in 1 .. Len(B) : B[j] = B[k] => j = k
      BY <2>1, <2>2, FreshIdsAssumption
    <3> QED
      BY <3>2, <3>3
  <2> QED
    BY <2>2
<1> QED
  BY <1>1, <1>2

(* How many places there are before a page. *)
Skipped(p, l) == (p - 1) * l

(* A page is the places after those of the pages before it, up to its limit. *)
LEMMA PageIs ==
  ASSUME OneBatch, NEW p \in Nat, p >= 1, NEW l \in Nat, l >= 1
  PROVE  LET s == Skipped(p, l)
         IN  /\ s \in Nat
             /\ Len(FindPage(p, l)) = IF s >= Len(items) THEN 0
                                      ELSE IF s + l < Len(items) THEN l ELSE Len(items) - s
             /\ \A k \in 1 .. Len(FindPage(p, l)) : FindPage(p, l)[k] = items[s + k]
             /\ s >= Len(items) => FindPage(p, l) = <<>>
<1> DEFINE s == Skipped(p, l)
           n == Len(items)
           last == IF s + l < n THEN s + l ELSE n
<1>1. s \in Nat /\ n \in Nat /\ items \in Seq(Item)
  BY DEF OneBatch, Skipped
<1>2. FindPage(p, l) = SubSeq(items, s + 1, last)
  BY DEF FindPage, Skipped
<1> HIDE DEF n, s
<1>3. s + 1 \in Int /\ last \in Int /\ \A k \in s + 1 .. last : items[k] \in Item
  <2>1. \A k \in 1 .. n : items[k] \in Item
    BY <1>1 DEF n
  <2> QED
    BY <1>1, <2>1
<1>b. last = IF s + l < n THEN s + l ELSE n
  OBVIOUS
<1> HIDE DEF last
<1>4. Len(SubSeq(items, s + 1, last)) = IF s + 1 <= last THEN last - (s + 1) + 1 ELSE 0
  BY <1>3, SubSeqProperties
<1>c. \A k \in 1 .. last - (s + 1) + 1 :
        SubSeq(items, s + 1, last)[k] = items[s + 1 + k - 1]
  BY <1>3, SubSeqProperties
<1>5. s >= n => last < s + 1
  BY <1>1, <1>b
<1>6. s >= n => FindPage(p, l) = <<>>
  BY <1>2, <1>3, <1>5, SubSeqEmpty
<1>7. Len(FindPage(p, l)) = IF s >= n THEN 0 ELSE IF s + l < n THEN l ELSE n - s
  BY <1>1, <1>b, <1>2, <1>4
<1>8. ASSUME NEW k \in 1 .. Len(FindPage(p, l))
      PROVE  FindPage(p, l)[k] = items[s + k]
  <2>1. k \in 1 .. last - (s + 1) + 1 /\ s + 1 + k - 1 = s + k
    BY <1>1, <1>2, <1>3, <1>4
  <2> QED
    BY <1>2, <1>c, <2>1
<1> QED
  BY <1>1, <1>6, <1>7, <1>8 DEF n, s

(* A listing is a page of the limit's size.                                *)
LEMMA ListsPage ==
  ASSUME NEW p \in Nat, NEW limit
  PROVE  /\ ListItems(p, limit).items = FindPage(p, Limit(limit))
         /\ ListItems(Absent, limit).limit = Limit(limit)
         /\ ListItems(Absent, limit).totalPages = TotalPages(Len(items), limit)
BY CatalogueAssumption DEF ListItems, ParsePositiveInt

(* Which items are on a page.                                              *)
LEMMA OnPageIs ==
  ASSUME OneBatch, NEW p \in Nat, p >= 1, NEW limit,
         Limit(limit) \in Nat, Limit(limit) >= 1, NEW j \in 1 .. Len(items)
  PROVE  OnPage(items[j], ListItems(p, limit))
           <=> (p - 1) * Limit(limit) < j /\ j <= p * Limit(limit)
<1>a. SUFFICES ASSUME NEW l, l = Limit(limit), NEW f, f = FindPage(p, l),
                      NEW s, s = Skipped(p, l), NEW e, e = p * l
               PROVE  (\E k \in 1 .. Len(f) : f[k] = items[j]) <=> s < j /\ j <= e
  BY ListsPage DEF OnPage, Skipped
<1>1. l \in Nat /\ l >= 1
  BY <1>a
<1>2. /\ s \in Nat
      /\ Len(f) = IF s >= Len(items) THEN 0
                  ELSE IF s + l < Len(items) THEN l ELSE Len(items) - s
      /\ \A k \in 1 .. Len(f) : f[k] = items[s + k]
  BY <1>a, <1>1, PageIs
<1>3. s = e - l /\ e \in Int
  BY <1>a, <1>1, Before DEF Skipped
<1>4. Len(items) \in Nat
  BY DEF OneBatch
<1>5. ASSUME NEW k \in 1 .. Len(f), f[k] = items[j]
      PROVE  s < j /\ j <= e
  <2>1. s + k \in 1 .. Len(items) /\ k <= l /\ k >= 1
    BY <1>1, <1>2, <1>4
  <2>2. s + k = j
    BY <1>2, <1>5, <2>1, ItemsDistinct
  <2> QED
    BY <1>1, <1>2, <1>3, <2>1, <2>2
<1>6. ASSUME s < j, j <= e
      PROVE  \E k \in 1 .. Len(f) : f[k] = items[j]
  <2>1. j - s \in 1 .. Len(f) /\ s + (j - s) = j
    BY <1>1, <1>2, <1>3, <1>4, <1>6
  <2>2. f[j - s] = items[j]
    BY <1>2, <2>1
  <2> QED
    BY <2>1, <2>2
<1> QED
  BY <1>5, <1>6

(* The pages of a collection without doubles cover it.                     *)
LEMMA PagesCoverNow ==
  ASSUME OneBatch
  PROVE  PagesCover
<1> SUFFICES ASSUME NEW limit \in Asked, limit # 0
             PROVE  LET first == ListItems(Absent, limit)
                        pages == 1 .. first.totalPages
                    IN  /\ \A i \in Ids :
                             Cardinality({p \in pages : OnPage(i, ListItems(p, limit))}) = 1
                        /\ \A p \in pages : Len(ListItems(p, limit).items) <= first.limit
                        /\ items # <<>> => ListItems(first.totalPages, limit).items # <<>>
                        /\ ListItems(first.totalPages + 1, limit).items = <<>>
  BY CatalogueAssumption DEF PagesCover, PagesCoverCatalogue, Rejected
<1>a. SUFFICES ASSUME NEW l, l = Limit(limit), NEW n, n = Len(items),
                      NEW t, t = TotalPages(n, limit)
               PROVE  /\ \A i \in Ids :
                           Cardinality({p \in 1 .. t : OnPage(i, ListItems(p, limit))}) = 1
                      /\ \A p \in 1 .. t : Len(ListItems(p, limit).items) <= l
                      /\ items # <<>> => ListItems(t, limit).items # <<>>
                      /\ ListItems(t + 1, limit).items = <<>>
  BY ListsPage
<1>1. l \in Nat /\ l >= 1 /\ n \in Nat /\ items \in Seq(Item)
  BY <1>a, LimitPositive DEF OneBatch
<1>2. /\ t \in Nat /\ t >= 1
      /\ n <= t * l
      /\ n # 0 => (t - 1) * l < n
      /\ t * l \in Int /\ (t - 1) * l \in Int
  BY <1>a, <1>1, EnoughPages
<1>3. ASSUME NEW i \in Ids
      PROVE  Cardinality({p \in 1 .. t : OnPage(i, ListItems(p, limit))}) = 1
  <2>1. PICK j \in 1 .. n : i = items[j]
    BY <1>a, <1>3 DEF Ids
  <2>2. PICK p \in 1 .. t : \A q \in 1 .. t : (q - 1) * l < j /\ j <= q * l <=> q = p
    BY <1>1, <1>2, OnePage
  <2>3. \A q \in 1 .. t : OnPage(i, ListItems(q, limit)) <=> (q - 1) * l < j /\ j <= q * l
    BY <1>a, <1>1, <1>2, <2>1, OnPageIs
  <2>4. {q \in 1 .. t : OnPage(i, ListItems(q, limit))} = {p}
    BY <2>2, <2>3
  <2> QED
    BY <2>4, FS_Singleton
<1>4. ASSUME NEW p \in 1 .. t
      PROVE  Len(ListItems(p, limit).items) <= l
  <2>1. p \in Nat /\ p >= 1
    BY <1>2
  <2>2. Len(FindPage(p, l)) <= l
    <3> SUFFICES ASSUME NEW s, s = Skipped(p, l)
                 PROVE  Len(FindPage(p, l)) <= l
      OBVIOUS
    <3>1. /\ s \in Nat
          /\ Len(FindPage(p, l)) = IF s >= Len(items) THEN 0
                                   ELSE IF s + l < Len(items) THEN l ELSE Len(items) - s
      BY <1>1, <2>1, PageIs
    <3> QED
      BY <1>1, <3>1, <1>a
  <2> QED
    BY <1>a, <2>1, <2>2, ListsPage
<1>5. items # <<>> => ListItems(t, limit).items # <<>>
  <2> SUFFICES ASSUME items # <<>>, NEW s, s = Skipped(t, l)
               PROVE  FindPage(t, l) # <<>>
    BY <1>a, <1>2, ListsPage
  <2>1. n # 0
    BY <1>a, <1>1
  <2>2. s < n /\ s \in Int
    BY <1>2, <2>1 DEF Skipped
  <2>3. Len(FindPage(t, l)) = IF s >= Len(items) THEN 0
                              ELSE IF s + l < Len(items) THEN l ELSE Len(items) - s
    BY <1>1, <1>2, PageIs
  <2>4. Len(FindPage(t, l)) # 0
    BY <1>a, <1>1, <2>2, <2>3
  <2> QED
    BY <2>4
<1>6. ListItems(t + 1, limit).items = <<>>
  <2>1. t + 1 \in Nat /\ t + 1 >= 1 /\ (t + 1) - 1 = t
    BY <1>2
  <2>2. t * l >= Len(items) => FindPage(t + 1, l) = <<>>
    BY <1>1, <2>1, PageIs DEF Skipped
  <2> QED
    BY <1>a, <1>2, <2>1, <2>2, ListsPage
<1> QED
  BY <1>3, <1>4, <1>5, <1>6

(* Whatever the catalogue and the limit, and while it is being wiped and   *)
(* refilled: the pages that a listing announces have every item of the     *)
(* collection on exactly one of them, none is larger than the limit, and   *)
(* the last is not empty.                                                  *)
THEOREM PagesAlwaysCover == ShopSpec => []PagesCover
<1>1. ShopInit => CatalogueInv
  BY CatalogueInit
<1>2. CatalogueInv /\ [ShopNext]_shopVars => CatalogueInv'
  BY CatalogueNext
<1>3. CatalogueInv => PagesCover
  BY PagesCoverNow DEF CatalogueInv
<1> QED
  BY <1>1, <1>2, <1>3, PTL DEF ShopSpec

-----------------------------------------------------------------------------
(* What an order costs.                                                    *)

(* A set of numbers has a least one.                                       *)
LEMMA LeastNumber ==
  ASSUME NEW T \in SUBSET Nat, T # {}
  PROVE  \E m \in T : \A n \in T : m <= n
<1>1. PICK m \in T : \A n \in T : ~(<<n, m>> \in OpToRel(<, Nat))
  BY NatLessThanWellFounded, WFMin
<1>2. \A n \in T : ~(n < m)
  BY <1>1 DEF OpToRel
<1> QED
  BY <1>2

(* Rows that may be ordered together. *)
Billable(R) ==
  /\ R \in SUBSET CartRow
  /\ IsFiniteSet(R)
  /\ \A x, y \in R : x.id = y.id => x = y

(* The rows of an item.                                                    *)
RowsOf(R, i) == {row \in R : row.item = i}

(* What TotalOf and Worth count. *)
LineUnits(R) == UNION {{i} \X (1 .. Price[i] * QtyOf(RowsOf(R, i))) : i \in {row.item : row \in R}}

(* What Worth counts.                                                      *)
RowUnits(R) == UNION {{row.id} \X (1 .. Price[row.item] * row.qty) : row \in R}

(* The total and the worth are the numbers of these units.                 *)
LEMMA TotalIs ==
  ASSUME NEW R
  PROVE  /\ TotalOf(QtyByItem(R)) = Cardinality(LineUnits(R))
         /\ Worth(R) = Cardinality(RowUnits(R))
<1> DEFINE lines == QtyByItem(R)
           D == {row.item : row \in R}
<1>1. DOMAIN lines = D /\ \A i \in D : lines[i] = QtyOf(RowsOf(R, i))
  BY DEF QtyByItem, RowsOf
<1> HIDE DEF lines
<1>2. UNION {{i} \X (1 .. Price[i] * lines[i]) : i \in DOMAIN lines} = LineUnits(R)
  <2>1. {{i} \X (1 .. Price[i] * lines[i]) : i \in DOMAIN lines}
          = {{i} \X (1 .. Price[i] * QtyOf(RowsOf(R, i))) : i \in D}
    BY <1>1
  <2> QED
    BY <2>1 DEF LineUnits
<1>3. TotalOf(lines) = Cardinality(LineUnits(R))
  BY <1>2 DEF TotalOf
<1> QED
  BY <1>3 DEF Worth, RowUnits, lines

(* The rows of an item can be billed, and have a quantity.                 *)
LEMMA RowsOfType ==
  ASSUME NEW R, Billable(R), NEW i
  PROVE  Billable(RowsOf(R, i)) /\ QtyOf(RowsOf(R, i)) \in Nat
<1>1. RowsOf(R, i) \in SUBSET R
  BY DEF RowsOf
<1>2. Billable(RowsOf(R, i))
  BY <1>1, FS_Subset DEF Billable
<1> QED
  BY <1>2, QtyOfType DEF Billable

(* A set that is another one and a stack apart from it. *)
LEMMA Piled ==
  ASSUME NEW A, IsFiniteSet(A), NEW x, NEW a \in Nat, NEW b \in Nat,
         A \cap Stack(x, a, b) = {}, NEW B, B = A \cup Stack(x, a, b)
  PROVE  Cardinality(B) = Cardinality(A) + b
<1>1. Cardinality(A \cup Stack(x, a, b)) = Cardinality(A) + b
  BY Joined
<1> QED
  BY <1>1, Zenon

(* One more row of an item has its units in addition to theirs. *)
LEMMA OneMoreRow ==
  ASSUME NEW R, Billable(R), NEW row \in R
  PROVE  /\ Billable(R \ {row})
         /\ QtyOf(RowsOf(R, row.item)) = QtyOf(RowsOf(R \ {row}, row.item)) + row.qty
         /\ \A j : j # row.item => RowsOf(R, j) = RowsOf(R \ {row}, j)
<1> DEFINE Q == RowsOf(R \ {row}, row.item)
<1>1. Billable(R \ {row})
  BY FS_Subset DEF Billable
<1>2. Billable(Q)
  BY <1>1, RowsOfType
<1>3. RowsOf(R, row.item) = Q \cup {row}
  BY DEF RowsOf
<1>4. \A x \in Q : x.id # row.id
  BY DEF RowsOf, Billable
<1>5. row.qty \in Nat
  BY DEF Billable, CartRow
<1> HIDE DEF Q
<1>6. UnitsOf(Q \cup {row}) = UnitsOf(Q) \cup Stack(row.id, 0, row.qty)
  <2>1. Stack(row.id, 0, row.qty) = {row.id} \X (1 .. row.qty)
    BY <1>5, FirstUnits
  <2> QED
    BY <2>1 DEF UnitsOf
<1>7. UnitsOf(Q) \cap Stack(row.id, 0, row.qty) = {}
  <2> SUFFICES ASSUME NEW t, t \in UnitsOf(Q), t \in Stack(row.id, 0, row.qty)
               PROVE  FALSE
    OBVIOUS
  <2>1. PICK x \in Q : t \in {x.id} \X (1 .. x.qty)
    BY DEF UnitsOf
  <2> QED
    BY <1>4, <2>1 DEF Stack
<1>8. IsFiniteSet(UnitsOf(Q))
  BY <1>2, UnitsFinite DEF Billable
<1>9. QtyOf(Q \cup {row}) = QtyOf(Q) + row.qty
  <2> DEFINE A == UnitsOf(Q)
             B == UnitsOf(Q \cup {row})
             c == row.id
             n == row.qty
  <2>1. IsFiniteSet(A) /\ n \in Nat /\ 0 \in Nat /\ A \cap Stack(c, 0, n) = {}
        /\ B = A \cup Stack(c, 0, n)
    BY <1>5, <1>6, <1>7, <1>8
  <2> HIDE DEF A, B, c, n
  <2>2. Cardinality(B) = Cardinality(A) + n
    BY <2>1, Piled
  <2> QED
    BY <2>2 DEF QtyOf, A, B, n
<1>10. \A j : j # row.item => RowsOf(R, j) = RowsOf(R \ {row}, j)
  BY DEF RowsOf
<1> QED
  BY <1>1, <1>3, <1>9, <1>10 DEF Q

(* Arithmetic of the price of two quantities.                              *)
LEMMA Distributes ==
  ASSUME NEW p \in Nat, NEW a \in Nat, NEW b \in Nat
  PROVE  p * (a + b) = p * a + p * b /\ p * a \in Nat /\ p * b \in Nat
OBVIOUS

(* The units are finitely many.                                            *)
LEMMA LineUnitsFinite ==
  ASSUME NEW R, Billable(R)
  PROVE  IsFiniteSet(LineUnits(R)) /\ IsFiniteSet(RowUnits(R))
<1>1. IsFiniteSet(LineUnits(R))
  <2> DEFINE D == {row.item : row \in R}
             x == [i \in D |-> i]
             n == [i \in D |-> Price[i] * QtyOf(RowsOf(R, i))]
             f == [row \in R |-> row.item]
  <2>1. IsFiniteSet(D)
    <3>1. f \in [R -> D] /\ \A y \in D : \E row \in R : f[row] = y
      OBVIOUS
    <3> HIDE DEF D, f
    <3> QED
      BY <3>1, FiniteRange DEF Billable
  <2>2. \A i \in D : n[i] \in Nat
    <3> SUFFICES ASSUME NEW i \in D
                 PROVE  Price[i] * QtyOf(RowsOf(R, i)) \in Nat
      OBVIOUS
    <3>1. i \in Item
      BY DEF Billable, CartRow
    <3>2. Price[i] \in Nat /\ QtyOf(RowsOf(R, i)) \in Nat
      BY <3>1, RowsOfType, ShopAssumption
    <3> QED
      BY <3>2, Distributes
  <2>3. LineUnits(R) = UNION {{x[i]} \X (1 .. n[i]) : i \in D}
    BY DEF LineUnits
  <2> HIDE DEF D, x, n
  <2> QED
    BY <2>1, <2>2, <2>3, StacksFinite
<1>2. IsFiniteSet(RowUnits(R))
  <2> DEFINE x == [row \in R |-> row.id]
             n == [row \in R |-> Price[row.item] * row.qty]
  <2>1. \A row \in R : n[row] \in Nat
    <3> SUFFICES ASSUME NEW row \in R
                 PROVE  Price[row.item] * row.qty \in Nat
      OBVIOUS
    <3>1. Price[row.item] \in Nat /\ row.qty \in Nat
      BY ShopAssumption DEF Billable, CartRow
    <3> QED
      BY <3>1, Distributes
  <2>2. RowUnits(R) = UNION {{x[row]} \X (1 .. n[row]) : row \in R}
    BY DEF RowUnits
  <2> HIDE DEF x, n
  <2> QED
    BY <2>1, <2>2, StacksFinite DEF Billable
<1> QED
  BY <1>1, <1>2

(* One more row adds as much to the lines as to the rows. *)
LEMMA OneMoreRowBilled ==
  ASSUME NEW R, Billable(R), NEW row \in R
  PROVE  LET m == Price[row.item] * row.qty
         IN  /\ m \in Nat
             /\ Cardinality(LineUnits(R)) = Cardinality(LineUnits(R \ {row})) + m
             /\ Cardinality(RowUnits(R)) = Cardinality(RowUnits(R \ {row})) + m
<1> DEFINE i == row.item
           P == R \ {row}
           a == QtyOf(RowsOf(P, i))
           m == Price[i] * row.qty
           k == Price[i] * a
<1>1. Price[i] \in Nat /\ row.qty \in Nat
  BY ShopAssumption DEF Billable, CartRow
<1>2. /\ Billable(P)
      /\ QtyOf(RowsOf(R, i)) = a + row.qty
      /\ \A j : j # i => RowsOf(R, j) = RowsOf(P, j)
  BY OneMoreRow
<1>3. a \in Nat
  BY <1>2, RowsOfType
<1>4. Price[i] * QtyOf(RowsOf(R, i)) = k + m
  <2> HIDE DEF a
  <2> QED
    BY <1>1, <1>2, <1>3, Distributes
<1>b. k \in Nat /\ m \in Nat
  <2> HIDE DEF a
  <2> QED
    BY <1>1, <1>3, Distributes
<1> DEFINE h == [j \in {x.item : x \in P} |-> Price[j] * QtyOf(RowsOf(P, j))]
           D == {x.item : x \in P}
<1>5. LineUnits(P) = UNION {{j} \X (1 .. h[j]) : j \in D}
  BY DEF LineUnits
<1>6. i \in D => h[i] = k
  OBVIOUS
<1>7. i \notin D => k = 0
  <2> SUFFICES ASSUME i \notin D
               PROVE  k = 0
    OBVIOUS
  <2>1. RowsOf(P, i) = {}
    BY DEF RowsOf
  <2>2. UnitsOf(RowsOf(P, i)) = {}
    BY <2>1 DEF UnitsOf
  <2>3. a = 0
    BY <2>2, FS_EmptySet DEF QtyOf
  <2> HIDE DEF a
  <2> QED
    BY <1>1, <2>3
<1>8. LineUnits(R) = UNION ({{j} \X (1 .. h[j]) : j \in D \ {i}} \cup {{i} \X (1 .. k + m)})
  <2>1. {x.item : x \in R} = (D \ {i}) \cup {i}
    OBVIOUS
  <2>2. \A j \in D \ {i} : Price[j] * QtyOf(RowsOf(R, j)) = h[j]
    BY <1>2
  <2> HIDE DEF D, h, k, m, i
  <2>3. {{j} \X (1 .. Price[j] * QtyOf(RowsOf(R, j))) : j \in (D \ {i}) \cup {i}}
          = {{j} \X (1 .. h[j]) : j \in D \ {i}} \cup {{i} \X (1 .. k + m)}
    BY <1>4, <2>2
  <2>4. {x.item : x \in R} = (D \ {i}) \cup {i}
    BY <2>1
  <2> QED
    BY <2>3, <2>4 DEF LineUnits
<1> DEFINE X == UNION {{j} \X (1 .. h[j]) : j \in D \ {i}}
           Y == {i} \X (1 .. k)
           Z == Stack(i, k, m)
<1>9. {i} \X (1 .. k + m) = Y \cup Z
  BY <1>b, FirstUnits
<1> HIDE DEF h, k, m, D, a
<1>10. UNION {{j} \X (1 .. h[j]) : j \in D} = X \cup Y
  <2>1. CASE i \in D
    <3>1. {{j} \X (1 .. h[j]) : j \in D}
            = {{j} \X (1 .. h[j]) : j \in D \ {i}} \cup {{i} \X (1 .. h[i])}
      BY <2>1
    <3> QED
      BY <1>6, <2>1, <3>1
  <2>2. CASE i \notin D
    <3>1. Y = {}
      BY <1>7, <2>2
    <3>2. D \ {i} = D
      BY <2>2
    <3> QED
      BY <3>1, <3>2
  <2> QED
    BY <2>1, <2>2
<1>c. LineUnits(R) = X \cup (Y \cup Z) /\ LineUnits(P) = X \cup Y
  <2>1. LineUnits(R) = X \cup ({i} \X (1 .. k + m))
    BY <1>8
  <2> QED
    BY <1>5, <1>9, <1>10, <2>1
<1>d. Y \cap Z = {}
  BY <1>b DEF Stack
<1>e. X \cap Z = {}
  <2> SUFFICES ASSUME NEW t, t \in X, t \in Z
               PROVE  FALSE
    OBVIOUS
  <2>1. PICK j \in D \ {i} : t \in {j} \X (1 .. h[j])
    OBVIOUS
  <2> QED
    BY <2>1 DEF Stack
<1> HIDE DEF X, Y, Z
<1>11. LineUnits(R) = LineUnits(P) \cup Stack(i, k, m)
  BY <1>c DEF Z
<1>12. LineUnits(P) \cap Stack(i, k, m) = {}
  BY <1>c, <1>d, <1>e DEF Z
<1>13. Cardinality(LineUnits(R)) = Cardinality(LineUnits(P)) + m
  <2> DEFINE A == LineUnits(P)
             B == LineUnits(R)
  <2>1. IsFiniteSet(A) /\ A \cap Stack(i, k, m) = {} /\ B = A \cup Stack(i, k, m)
    BY <1>2, <1>11, <1>12, LineUnitsFinite
  <2> HIDE DEF A, B, i
  <2>2. Cardinality(B) = Cardinality(A) + m
    BY <1>b, <2>1, Piled
  <2> QED
    BY <2>2 DEF A, B
<1>14. Cardinality(RowUnits(R)) = Cardinality(RowUnits(P)) + m
  <2>1. IsFiniteSet(RowUnits(P))
    BY <1>2, LineUnitsFinite
  <2>2. {row.id} \X (1 .. m) = Stack(row.id, 0, m)
    BY <1>b, FirstUnits
  <2>3. RowUnits(R) = RowUnits(P) \cup ({row.id} \X (1 .. m))
    BY DEF RowUnits, m
  <2>4. RowUnits(P) \cap Stack(row.id, 0, m) = {}
    <3>1. \A x \in P : x.id # row.id
      BY DEF Billable
    <3> SUFFICES ASSUME NEW t, t \in RowUnits(P), t \in Stack(row.id, 0, m)
                 PROVE  FALSE
      OBVIOUS
    <3>2. PICK x \in P : t \in {x.id} \X (1 .. Price[x.item] * x.qty)
      BY DEF RowUnits
    <3> QED
      BY <3>1, <3>2 DEF Stack
  <2> DEFINE A == RowUnits(P)
             B == RowUnits(R)
             c == row.id
  <2>5. IsFiniteSet(A) /\ 0 \in Nat /\ A \cap Stack(c, 0, m) = {}
        /\ B = A \cup Stack(c, 0, m)
    BY <2>1, <2>2, <2>3, <2>4
  <2> HIDE DEF A, B, c
  <2>6. Cardinality(B) = Cardinality(A) + m
    BY <1>b, <2>5, Piled
  <2> QED
    BY <2>6 DEF A, B
<1> QED
  BY <1>b, <1>13, <1>14 DEF m

(* Grouped by item or row by row, the money is the same. *)
LEMMA BillIsWorth ==
  ASSUME NEW R, Billable(R)
  PROVE  TotalOf(QtyByItem(R)) = Worth(R)
<1> DEFINE Bad == {S \in SUBSET CartRow :
                     Billable(S) /\ Cardinality(LineUnits(S)) # Cardinality(RowUnits(S))}
           T == {Cardinality(S) : S \in Bad}
<1>1. Bad = {}
  <2> SUFFICES ASSUME Bad # {}
               PROVE  FALSE
    OBVIOUS
  <2>1. T \in SUBSET Nat /\ T # {}
    BY FS_CardinalityType DEF Billable
  <2>2. PICK S \in Bad : \A V \in Bad : Cardinality(S) <= Cardinality(V)
    <3> HIDE DEF T
    <3>1. PICK m \in T : \A n \in T : m <= n
      BY <2>1, LeastNumber
    <3> QED
      BY <3>1 DEF T
  <2>3. CASE S = {}
    BY <2>2, <2>3 DEF LineUnits, RowUnits
  <2>4. CASE S # {}
    <3>1. PICK row \in S : TRUE
      BY <2>4
    <3> DEFINE V == S \ {row}
    <3>2. Billable(S) /\ Billable(V)
      BY <2>2, OneMoreRow
    <3>3. Cardinality(V) = Cardinality(S) - 1 /\ Cardinality(S) \in Nat
      BY <3>2, FS_RemoveElement, FS_CardinalityType DEF Billable
    <3>4. V \notin Bad
      BY <2>2, <3>3
    <3>5. Cardinality(LineUnits(V)) = Cardinality(RowUnits(V))
      BY <3>2, <3>4 DEF Billable
    <3>6. Cardinality(LineUnits(S)) = Cardinality(RowUnits(S))
      BY <3>2, <3>5, OneMoreRowBilled
    <3> QED
      BY <2>2, <3>6
  <2> QED
    BY <2>3, <2>4
<1> QED
  BY <1>1, TotalIs DEF Billable

-----------------------------------------------------------------------------
(* The backend's own invariants, in the shop.                              *)

(* The invariant of the backend with the shop around it.                   *)
ShopInv == Inv /\ Separated /\ bill = [r \in Request |-> bill[r]]

(* The counters that a seed sets are counters.                             *)
LEMMA SeedType ==
  ASSUME Inv, NEW S, NEW reserved \in [Item -> Nat], Seed(S, reserved)
  PROVE  stock' \in [Item -> Int]
BY TotalStockAssumption DEF Inv, TypeOK, RedisTypeOK, Seed, SeedValue

(* A step that leaves the carts and their handlers alone. *)
LEMMA CartsSame ==
  ASSUME ShopInv, UNCHANGED <<rows, orders, shown, req, exp, crashes, redisLife, bill>>,
         stock' \in [Item -> Int], key' \in [Request -> Request \cup {None}],
         server' \in {"down", "loaded", "seeded", "up"}
  PROVE  ShopInv'
<1>1. Inv'
  BY DEF ShopInv, Inv, TypeOK, RedisTypeOK, LocalsOK, HandlersOK, redisLife
<1>2. Separated'
  BY DEF ShopInv, Separated, RowsOwned, OrdersOwned, HandlersOwned, AllLocalsOwned,
     LocalsOwned, OwnedRow, Owns
<1> QED
  BY <1>1, <1>2 DEF ShopInv

(* It holds initially.                                                     *)
LEMMA ShopInvInit == ShopInit => ShopInv
<1> SUFFICES ASSUME ShopInit PROVE ShopInv
  OBVIOUS
<1>1. TypeOK
  <2>1. /\ Nothing.stock = [i \in Item |-> 0] /\ Nothing.key = [c \in Request |-> None]
        /\ Nothing \in [stock : [Item -> Int], key : [Request -> Request \cup {None}]]
    BY DEF Nothing
  <2>2. RedisTypeOK
    BY <2>1 DEF ShopInit, RedisTypeOK
  <2>3. req \in [Request -> Locals]
    BY FreshType DEF ShopInit
  <2> QED
    BY <2>1, <2>2, <2>3 DEF ShopInit, TypeOK
<1>2. LocalsOK /\ HandlersOK
  BY DEF ShopInit, LocalsOK, HandlersOK, Fresh
<1>3. Separated
  <2>1. \A r \in Request : req[r] = Fresh
    BY DEF ShopInit
  <2>2. AllLocalsOwned
    BY <2>1 DEF AllLocalsOwned, LocalsOwned, Fresh
  <2> QED
    BY <2>1, <2>2 DEF Separated, RowsOwned, OrdersOwned, HandlersOwned, ShopInit
<1>4. bill = [r \in Request |-> bill[r]]
  BY DEF ShopInit
<1> QED
  BY <1>1, <1>2, <1>3, <1>4 DEF ShopInv, Inv

(* A step of FlashSale. *)
LEMMA FlashSaleStep ==
  ASSUME ShopInv, [Next]_vars, bill' = bill
  PROVE  ShopInv'
BY InvNext, SeparatedNext DEF ShopInv

(* A checkout ends because an item it would sell is gone. *)
LEMMA EndsInv ==
  ASSUME ShopInv, NEW r \in Request, Become(r, Finished(req[r])),
         UNCHANGED <<redisVars, mongoVars, shown, exp, serverVars, bill>>
  PROVE  ShopInv' /\ Kept
<1>1. req \in [Request -> Locals] /\ req[r] \in Locals /\ LocalsOK
  BY DEF ShopInv, Inv, TypeOK
<1>2. Kept
  BY <1>1, FinishedKept, BecomeKept
<1>3. req' \in [Request -> Locals] /\ LocalsOK'
  BY <1>1, FinishedType, BecomeType
<1>4. Inv'
  BY <1>3 DEF ShopInv, Inv, TypeOK, RedisTypeOK, HandlersOK, redisVars, mongoVars, serverVars
<1>5. AllLocalsOwned'
  BY <1>2, BecomeOwned, FinishedOwned DEF ShopInv, Separated
<1>6. RowsOwned' /\ HandlersOwned' /\ OrdersOwned'
  <2>1. /\ rows \in [Request -> CartRow \cup {None}]
        /\ \A h \in exp : h.row \in CartRow \cup {None}
        /\ orders \in [Request -> SUBSET CartRow]
    BY DEF ShopInv, Inv, TypeOK, ExpiryHandler
  <2>2. \A row \in CartRow : OwnedRow(req, row) => OwnedRow(req', row)
    BY <1>2, OwnedStays
  <2>3. UNCHANGED <<rows, orders, exp>>
    BY DEF mongoVars
  <2>4. RowsOwned'
    BY <2>1, <2>2, <2>3 DEF ShopInv, Separated, RowsOwned
  <2>5. HandlersOwned'
    BY <2>1, <2>2, <2>3 DEF ShopInv, Separated, HandlersOwned
  <2>6. OrdersOwned'
    <3> SUFFICES ASSUME NEW s \in Request
                 PROVE  /\ req'[s].pc = "new" => orders[s] = {}
                        /\ \A row \in orders[s] : OwnedRow(req', row) /\ row.user = req'[s].user
      BY <2>3 DEF OrdersOwned
    <3>1. /\ req[s].pc = "new" => orders[s] = {}
          /\ \A row \in orders[s] : OwnedRow(req, row) /\ row.user = req[s].user
      BY DEF ShopInv, Separated, OrdersOwned
    <3>2. req[s].pc # "new" => req'[s].pc # "new" /\ req'[s].user = req[s].user
      BY <1>2 DEF Kept, KeptBy
    <3> QED
      BY <2>1, <2>2, <3>1, <3>2
  <2> QED
    BY <2>4, <2>5, <2>6
<1> QED
  BY <1>2, <1>4, <1>5, <1>6 DEF ShopInv, Separated

(* The script's steps keep it.                                             *)
LEMMA ResetShopInv ==
  ASSUME ShopInv, Reset
  PROVE  ShopInv'
<1>1. /\ stock \in [Item -> Int] /\ key \in [Request -> Request \cup {None}]
      /\ server \in {"down", "loaded", "seeded", "up"}
  BY DEF ShopInv, Inv, TypeOK, RedisTypeOK
<1>2. CASE StartReset
  BY <1>1, <1>2, CartsSame DEF StartReset, backVars, clientVars, redisLife
<1>3. ASSUME WipeItems, UNCHANGED clientVars PROVE ShopInv'
  BY <1>1, <1>3, CartsSame DEF WipeItems, Wipe, redisVars, redisLife, mongoVars, serverVars,
     clientVars
<1>4. ASSUME WipeCarts, UNCHANGED clientVars PROVE ShopInv'
  <2>1. /\ rows' = [c \in Request |-> None]
        /\ UNCHANGED <<stock, key, script, saved, restarts, orders, shown, req, exp,
                       server, crashes, bill>>
    BY <1>4 DEF WipeCarts, Wipe, redisVars, serverVars, clientVars
  <2>2. Inv'
    BY <2>1 DEF ShopInv, Inv, TypeOK, RedisTypeOK, LocalsOK, HandlersOK
  <2>3. Separated'
    BY <2>1 DEF ShopInv, Separated, RowsOwned, OrdersOwned, HandlersOwned, AllLocalsOwned,
       LocalsOwned, OwnedRow, Owns
  <2> QED
    BY <2>1, <2>2, <2>3 DEF ShopInv
<1>5. ASSUME WipeOrders, UNCHANGED clientVars PROVE ShopInv'
  <2>1. /\ orders' = [c \in Request |-> {}]
        /\ UNCHANGED <<stock, key, script, saved, restarts, rows, shown, req, exp,
                       server, crashes, bill>>
    BY <1>5 DEF WipeOrders, Wipe, redisVars, serverVars, clientVars
  <2>2. Inv'
    BY <2>1 DEF ShopInv, Inv, TypeOK, RedisTypeOK, LocalsOK, HandlersOK
  <2>3. Separated'
    BY <2>1 DEF ShopInv, Separated, RowsOwned, OrdersOwned, HandlersOwned, AllLocalsOwned,
       LocalsOwned, OwnedRow, Owns
  <2> QED
    BY <2>1, <2>2, <2>3 DEF ShopInv
<1>6. ASSUME ResetCounts \/ ListCreated \/ ListKeys, UNCHANGED clientVars PROVE ShopInv'
  BY <1>1, <1>6, CartsSame DEF ResetCounts, ListCreated, ListKeys, backVars, clientVars, redisLife
<1>7. ASSUME DeleteKeys, UNCHANGED clientVars PROVE ShopInv'
  <2>1. stock' \in [Item -> Int] /\ key' \in [Request -> Request \cup {None}]
    BY <1>1, <1>7 DEF DeleteKeys, Nothing
  <2> QED
    BY <1>1, <1>7, <2>1, CartsSame DEF DeleteKeys, mongoVars, serverVars, clientVars
<1>8. ASSUME SeedCreated, UNCHANGED clientVars PROVE ShopInv'
  <2>1. NothingReserved \in [Item -> Nat]
    BY DEF NothingReserved
  <2>2. stock' \in [Item -> Int]
    BY <1>8, <2>1, SeedType DEF SeedCreated, ShopInv
  <2> QED
    BY <1>1, <1>8, <2>2, CartsSame DEF SeedCreated, mongoVars, serverVars, clientVars
<1> QED
  BY <1>2, <1>3, <1>4, <1>5, <1>6, <1>7, <1>8 DEF Reset

(* A boot's steps keep it.                                                 *)
LEMMA BootShopInv ==
  ASSUME ShopInv, ShopBoots
  PROVE  ShopInv'
<1>1. /\ stock \in [Item -> Int] /\ key \in [Request -> Request \cup {None}]
      /\ server \in {"down", "loaded", "seeded", "up"}
  BY DEF ShopInv, Inv, TypeOK, RedisTypeOK
<1>2. CASE BootCounts
  BY <1>1, <1>2, CartsSame DEF BootCounts, backVars, clientVars, redisLife
<1>3. CASE BootLoads
  BY <1>3, FlashSaleStep DEF BootLoads, Next, Boot, clientVars
<1>4. CASE BootSeeds
  <2>1. aggregateReservedQuantities \in [Item -> Nat]
    BY AggregateType DEF ShopInv, Inv, TypeOK
  <2>2. stock' \in [Item -> Int]
    BY <1>4, <2>1, SeedType DEF BootSeeds, ShopInv
  <2> QED
    BY <1>1, <1>4, <2>2, CartsSame DEF BootSeeds, mongoVars, clientVars
<1>5. CASE BootSubscribes
  BY <1>5, FlashSaleStep DEF BootSubscribes, Next, Boot, clientVars
<1> QED
  BY <1>2, <1>3, <1>4, <1>5 DEF ShopBoots

(* A call of the shop is a call of the backend.                            *)
LEMMA CallIsFlashSale ==
  ASSUME NEW r \in Request, CallShop(r)
  PROVE  Call(r)
BY ShopAssumption DEF CallShop, CallWithItem, CallWithCart, Call

(* Every step keeps it.                                                    *)
LEMMA ShopInvNext ==
  ASSUME ShopInv, [ShopNext]_shopVars
  PROVE  ShopInv'
<1>1. ASSUME UNCHANGED backVars, bill' = bill
      PROVE  ShopInv'
  BY <1>1, FlashSaleStep DEF backVars, vars
<1>2. ASSUME Fill \/ Dies \/ LogIn \/ UNCHANGED shopVars
      PROVE  ShopInv'
  BY <1>1, <1>2 DEF Fill, Dies, LogIn, shopVars, clientVars
<1>3. ASSUME NEW r \in Request, NEW u \in User, NEW i \in Wanted, LooksUp(r, u, i)
      PROVE  ShopInv'
  BY <1>1, <1>3 DEF LooksUp
<1>4. ASSUME NEW r \in Request, CallShop(r)
      PROVE  ShopInv'
  <2>1. Next /\ bill' = bill
    BY <1>4, CallIsFlashSale DEF Next, CallShop, clientVars
  <2> QED
    BY <2>1, FlashSaleStep
<1>5. ASSUME NEW r \in Request, PriceLines(r)
      PROVE  ShopInv'
  <2>1. CASE UNCHANGED req /\ bill' = [bill EXCEPT ![r] = Bill(req[r].todo)]
    <3>1. UNCHANGED vars
      BY <1>5, <2>1 DEF PriceLines, vars, redisVars, mongoVars, serverVars
    <3>2. Inv' /\ Separated'
      BY <3>1, InvNext, SeparatedNext DEF ShopInv
    <3> QED
      BY <2>1, <3>2 DEF ShopInv
  <2>2. CASE Become(r, Finished(req[r])) /\ UNCHANGED bill
    BY <1>5, <2>2, EndsInv DEF PriceLines
  <2> QED
    BY <1>5, <2>1, <2>2 DEF PriceLines
<1>6. CASE HandlerSteps
  <2>1. Next /\ bill' = bill
    BY <1>6 DEF HandlerSteps, Next, clientVars
  <2> QED
    BY <2>1, FlashSaleStep
<1> QED
  BY <1>2, <1>3, <1>4, <1>5, <1>6, BootShopInv, ResetShopInv DEF ShopNext

(* The carts stay separate in the whole shop too: neither the lookups of   *)
(* items and users, nor a reset or a boot under the handlers, lets one     *)
(* handle a row of another user's cart.                                    *)
THEOREM CartsStaySeparateInShop == ShopSpec => []CartsAreSeparate
<1>1. ShopInit => ShopInv
  BY ShopInvInit
<1>2. ShopInv /\ [ShopNext]_shopVars => ShopInv'
  BY ShopInvNext
<1>3. ShopInv => CartsAreSeparate
  BY DEF ShopInv, Separated, RowsOwned, OrdersOwned, HandlersOwned, AllLocalsOwned,
     LocalsOwned, OwnedRow, Owns, CartsAreSeparate, OwnRow
<1> QED
  BY <1>1, <1>2, <1>3, PTL DEF ShopSpec

-----------------------------------------------------------------------------
(* What checkouts charge.                                                  *)

(* What a checkout is about to sell, and what it has sold, is billed. *)
Charged(r) ==
  /\ req[r].pc = "new" => bill[r] = None
  /\ req[r].pc = "order" => /\ Billable(req[r].todo)
                            /\ orders[r] = {}
                            /\ bill[r] # None => bill[r] = Bill(req[r].todo)
  /\ orders[r] # {} => Billable(orders[r]) /\ bill[r] = Bill(orders[r])

(* The inductive invariant of the bills.                                   *)
ChargedInv == ShopInv /\ \A r \in Request : Charged(r)

(* A cart may be ordered, whichever of its rows the items let through. *)
LEMMA CartBillable ==
  ASSUME ShopInv, NEW u, NEW R \in SUBSET FindByUser(u)
  PROVE  Billable(R)
<1>1. /\ rows \in [Request -> CartRow \cup {None}]
      /\ \A c \in Request : rows[c] # None => rows[c].id = c
  BY DEF ShopInv, Inv, TypeOK, Separated, RowsOwned
<1>2. \A row \in R : row \in CartRow /\ row.id \in Request /\ rows[row.id] = row
  BY <1>1 DEF FindByUser
<1>3. R \in SUBSET CartRow /\ IsFiniteSet(R)
  BY <1>1, <1>2, RowsFinite
<1> QED
  BY <1>2, <1>3 DEF Billable

(* When requests move on, they do not come to order but by a checkout. *)
OrderKept(r) ==
  /\ req'[r].pc = "new" => req[r].pc = "new"
  /\ req'[r].pc = "order" =>
       \/ req[r].pc = "order" /\ req'[r].todo = req[r].todo
       \/ /\ req[r].pc = "new"
          /\ \E u \in User : req'[r].todo = FindByUser(u)

(* A handler that goes anywhere else keeps that.                           *)
LEMMA MovesOn ==
  ASSUME NEW r \in Request, Others(r), req'[r].pc \notin {"new", "order"}
  PROVE  \A s \in Request : OrderKept(s)
BY DEF Others, OrderKept

(* So does every call.                                                     *)
LEMMA CallKeepsOrders ==
  ASSUME Inv, NEW r \in Request, Call(r)
  PROVE  /\ UNCHANGED orders
         /\ \A s \in Request : OrderKept(s)
<1>1. ASSUME NEW u \in User, NEW i \in Item, NEW q \in Quantity,
             AddToCart(r, u, i, q) \/ Increase(r, u, i, q) \/ Decrease(r, u, i, q)
      PROVE  \A s \in Request : OrderKept(s)
  BY <1>1, AddToCartNow, IncreaseNow, DecreaseNow, MovesOn DEF Becomes, Finishes, Others
<1>2. ASSUME NEW u \in User, NEW i \in Item, RemoveFromCart(r, u, i)
      PROVE  \A s \in Request : OrderKept(s)
  BY <1>2, RemoveFromCartNow, MovesOn DEF Becomes, Others
<1>3. ASSUME NEW u \in User, Checkout(r, u)
      PROVE  \A s \in Request : OrderKept(s)
  <2>1. req[r].pc = "new"
    BY <1>3 DEF Checkout, Arrives
  <2> QED
    BY <1>3, <2>1, CheckoutNow DEF Becomes, OrderKept
<1>4. UNCHANGED orders
  BY DEF Call, AddToCart, Increase, Decrease, RemoveFromCart, Checkout, mongoVars
<1> QED
  BY <1>1, <1>2, <1>3, <1>4 DEF Call

(* So does every handler's step, and only SaveOrder writes an order: the   *)
(* rows that were read.                                                    *)
LEMMA StepKeepsOrders ==
  ASSUME Inv, NEW r \in Request, Step(r)
  PROVE  /\ \A s \in Request : OrderKept(s)
         /\ \/ UNCHANGED orders
            \/ /\ req[r].pc = "order" /\ req'[r].pc = "clear"
               /\ orders' = [orders EXCEPT ![r] = req[r].todo]
<1>1. CASE SaveOrder(r)
  <2>1. req[r].pc = "order" /\ orders' = [orders EXCEPT ![r] = req[r].todo]
    BY <1>1 DEF SaveOrder, At
  <2>2. req'[r].pc = "clear" /\ Others(r)
    BY <1>1, SaveOrderNow DEF Becomes, Others
  <2> QED
    BY <2>1, <2>2, MovesOn
<1>2. CASE IncreaseReserve(r) \/ SaveRow(r) \/ Undo(r) \/ UndoDrop(r) \/ DropKey(r)
           \/ DeleteRow(r) \/ ShrinkRow(r) \/ EmptyCart(r) \/ Emit(r) \/ CommandFails(r)
  <2>1. req'[r].pc \notin {"new", "order"} /\ Others(r)
    BY <1>2, IncreaseReserveNow, SaveRowNow, UndoNow, UndoDropNow, DropKeyNow, DeleteRowNow,
       ShrinkRowNow, EmptyCartNow, EmitNow, CommandFailsNow DEF Becomes, Finishes, Others, AfterSave
  <2>2. UNCHANGED orders
    BY <1>2 DEF IncreaseReserve, SaveRow, Undo, UndoDrop, DropKey, DeleteRow, ShrinkRow,
       EmptyCart, Emit, CommandFails, mongoVars
  <2> QED
    BY <2>1, <2>2, MovesOn
<1>3. CASE ReleaseRow(r) \/ RefreshKey(r) \/ ClearKey(r) \/ GetRemaining(r)
  <2>1. req'[r].pc \notin {"new", "order"} /\ Others(r)
    <3>1. CASE ReleaseRow(r)
      BY <3>1, ReleaseRowNow DEF Becomes, Others
    <3>2. CASE RefreshKey(r)
      BY <3>2, RefreshKeyNow DEF Becomes, Others
    <3>3. CASE ClearKey(r)
      BY <3>3, ClearKeyNow DEF Becomes, Others
    <3>4. CASE GetRemaining(r)
      BY <3>4, GetRemainingNow DEF Becomes, Others
    <3> QED
      BY <1>3, <3>1, <3>2, <3>3, <3>4
  <2>2. UNCHANGED orders
    BY <1>3 DEF ReleaseRow, RefreshKey, ClearKey, GetRemaining, mongoVars
  <2> QED
    BY <2>1, <2>2, MovesOn
<1>4. CASE Survey(r) \/ SaveRowReplyLost(r)
  <2>1. req'[r].pc \notin {"new", "order"} /\ Others(r)
    <3>1. CASE Survey(r)
      BY <3>1, SurveyNow DEF Becomes, Others
    <3>2. CASE SaveRowReplyLost(r)
      <4>1. Become(r, AfterFailedSave(req[r]))
        BY <3>2 DEF SaveRowReplyLost
      <4> QED
        BY <4>1, AfterFailedSaveNow DEF Becomes, Finishes, Others
    <3> QED
      BY <1>4, <3>1, <3>2
  <2>2. UNCHANGED orders
    BY <1>4 DEF Survey, SaveRowReplyLost, mongoVars
  <2> QED
    BY <2>1, <2>2, MovesOn
<1> QED
  BY <1>1, <1>2, <1>3, <1>4 DEF Step

(* The invariant holds initially.                                          *)
LEMMA ChargedInit == ShopInit => ChargedInv
<1> SUFFICES ASSUME ShopInit PROVE ChargedInv
  OBVIOUS
<1>1. ShopInv
  BY ShopInvInit
<1>2. \A r \in Request : req[r].pc = "new" /\ orders[r] = {} /\ bill[r] = None
  BY DEF ShopInit, Fresh
<1> QED
  BY <1>1, <1>2 DEF ChargedInv, Charged

(* A request whose bill and order stay. *)
LEMMA ChargedStays ==
  ASSUME ShopInv, NEW r \in Request, Charged(r), OrderKept(r),
         bill'[r] = bill[r], orders'[r] \in {orders[r], {}}
  PROVE  Charged(r)'
<1>1. req[r].pc = "new" => orders[r] = {}
  BY DEF ShopInv, Separated, OrdersOwned
<1>2. \A u : Billable(FindByUser(u))
  BY CartBillable
<1>3. \A R : Billable(R)' = Billable(R) /\ Bill(R)' = Bill(R)
  BY DEF Billable, Bill, QtyByItem, TotalOf, QtyOf, UnitsOf
<1> QED
  BY <1>1, <1>2, <1>3 DEF Charged, OrderKept

(* Every step keeps the invariant.                                         *)
LEMMA ChargedNext ==
  ASSUME ChargedInv, [ShopNext]_shopVars
  PROVE  ChargedInv'
<1>1. ShopInv' /\ ShopInv /\ Inv
  BY ShopInvNext DEF ChargedInv, ShopInv
<1>2. ASSUME \A r \in Request : OrderKept(r) /\ orders'[r] \in {orders[r], {}}, bill' = bill
      PROVE  ChargedInv'
  BY <1>1, <1>2, ChargedStays DEF ChargedInv
<1>3. ASSUME UNCHANGED <<req, bill>>, orders' = orders \/ orders' = [r \in Request |-> {}]
      PROVE  ChargedInv'
  <2>1. \A r \in Request : OrderKept(r) /\ orders'[r] \in {orders[r], {}}
    BY <1>3 DEF OrderKept
  <2> QED
    BY <1>2, <1>3, <2>1
<1>4. CASE ShopBoots \/ Fill \/ Dies \/ LogIn \/ UNCHANGED shopVars
  BY <1>3, <1>4 DEF ShopBoots, BootCounts, BootLoads, LoadScript, BootSeeds, BootSubscribes,
     Subscribe, Fill, Dies, LogIn, shopVars, backVars, clientVars, mongoVars
<1>5. CASE Reset
  BY <1>3, <1>5 DEF Reset, StartReset, WipeItems, WipeCarts, WipeOrders, Wipe, ResetCounts,
     ListCreated, ListKeys, DeleteKeys, SeedCreated, backVars, clientVars, mongoVars
<1>6. ASSUME NEW r \in Request, NEW u \in User, NEW i \in Wanted, LooksUp(r, u, i)
      PROVE  ChargedInv'
  BY <1>3, <1>6 DEF LooksUp, backVars
<1>7. ASSUME NEW r \in Request, CallShop(r)
      PROVE  ChargedInv'
  <2>1. UNCHANGED <<orders, bill>> /\ \A s \in Request : OrderKept(s)
    BY <1>1, <1>7, CallIsFlashSale, CallKeepsOrders DEF CallShop, clientVars
  <2> QED
    BY <1>2, <2>1
<1>8. ASSUME NEW r \in Request, PriceLines(r)
      PROVE  ChargedInv'
  <2>1. orders' = orders /\ req[r].pc = "order"
    BY <1>8 DEF PriceLines, mongoVars, At
  <2>2. CASE UNCHANGED req /\ bill' = [bill EXCEPT ![r] = Bill(req[r].todo)]
    <3>1. bill'[r] = Bill(req[r].todo) /\ \A s \in Request : s # r => bill'[s] = bill[s]
      BY <1>1, <2>2 DEF ShopInv
    <3>2. \A s \in Request : OrderKept(s) /\ orders'[s] \in {orders[s], {}}
      BY <2>1, <2>2 DEF OrderKept
    <3>3. \A s \in Request : s # r => Charged(s)'
      BY <1>1, <3>1, <3>2, ChargedStays DEF ChargedInv
    <3>4. Charged(r)'
      <4>1. \A R : Billable(R)' = Billable(R) /\ Bill(R)' = Bill(R)
        BY DEF Billable, Bill, QtyByItem, TotalOf, QtyOf, UnitsOf
      <4>2. Charged(r)
        BY DEF ChargedInv
      <4> QED
        BY <2>1, <2>2, <3>1, <4>1, <4>2 DEF Charged
    <3> QED
      BY <1>1, <3>3, <3>4 DEF ChargedInv
  <2>3. CASE Become(r, Finished(req[r])) /\ UNCHANGED bill
    <3>1. req'[r].pc \notin {"new", "order"} /\ Others(r)
      BY <1>1, <2>3, FinishedNow DEF Finishes, Becomes, Others, Inv, TypeOK
    <3> QED
      BY <1>2, <2>1, <2>3, <3>1, MovesOn
  <2> QED
    BY <1>8, <2>2, <2>3 DEF PriceLines
<1>9. ASSUME NEW r \in Request, Step(r), req[r].pc = "order" => bill[r] # None, bill' = bill
      PROVE  ChargedInv'
  <2>1. \A s \in Request : OrderKept(s)
    BY <1>1, <1>9, StepKeepsOrders
  <2>2. CASE UNCHANGED orders
    BY <1>2, <1>9, <2>1, <2>2
  <2>3. CASE /\ req[r].pc = "order" /\ req'[r].pc = "clear"
             /\ orders' = [orders EXCEPT ![r] = req[r].todo]
    <3>1. orders'[r] = req[r].todo /\ \A s \in Request : s # r => orders'[s] = orders[s]
      BY <1>1, <2>3 DEF Inv, TypeOK
    <3>2. \A s \in Request : s # r => Charged(s)'
      BY <1>1, <1>9, <2>1, <3>1, ChargedStays DEF ChargedInv
    <3>3. Charged(r)'
      <4>1. \A R : Billable(R)' = Billable(R) /\ Bill(R)' = Bill(R)
        BY DEF Billable, Bill, QtyByItem, TotalOf, QtyOf, UnitsOf
      <4>2. Charged(r)
        BY DEF ChargedInv
      <4> QED
        BY <1>9, <2>3, <3>1, <4>1, <4>2 DEF Charged
    <3> QED
      BY <1>1, <3>2, <3>3 DEF ChargedInv
  <2> QED
    BY <1>1, <1>9, <2>2, <2>3, StepKeepsOrders
<1>10. CASE HandlerSteps
  <2>1. bill' = bill
    BY <1>10 DEF HandlerSteps, clientVars
  <2>2. CASE \E r \in Request : (req[r].pc = "order" => bill[r] # None) /\ Step(r)
    BY <1>9, <2>1, <2>2
  <2>3. CASE \E r \in Request : KeyExpires(r)
    BY <1>3, <2>1, <2>3 DEF KeyExpires, mongoVars
  <2>4. CASE \E h \in exp : ExpireStep(h)
    BY <1>3, <2>1, <2>4 DEF ExpireStep, ExpireFind, ExpireRelease, ExpireDelete, ExpireEmit,
       ExpireFails, mongoVars
  <2> QED
    BY <1>10, <2>2, <2>3, <2>4 DEF HandlerSteps
<1> QED
  BY <1>4, <1>5, <1>6, <1>7, <1>8, <1>10 DEF ShopNext

(* However checkouts, other edits of the cart, resets and boots            *)
(* interleave: an order has a line for every item that it sold and for no  *)
(* other, with the quantity of all its rows, and its total is what the     *)
(* rows that were sold are worth.                                          *)
THEOREM OrdersChargeWhatTheySold == ShopSpec => []ChargedWhatWasSold
<1>1. ShopInit => ChargedInv
  BY ChargedInit
<1>2. ChargedInv /\ [ShopNext]_shopVars => ChargedInv'
  BY ChargedNext
<1>3. ChargedInv => ChargedWhatWasSold
  <2> SUFFICES ASSUME ChargedInv PROVE ChargedWhatWasSold
    OBVIOUS
  <2>0. \A R : /\ Bill(R).total = TotalOf(QtyByItem(R))
               /\ DOMAIN Bill(R).lines = {row.item : row \in R}
    BY DEF Bill, QtyByItem
  <2>1. ASSUME NEW r \in Request, orders[r] # {}
        PROVE  /\ bill[r].total = Worth(orders[r])
               /\ DOMAIN bill[r].lines = {row.item : row \in orders[r]}
    <3>1. Billable(orders[r]) /\ bill[r] = Bill(orders[r])
      BY <2>1 DEF ChargedInv, Charged
    <3>2. TotalOf(QtyByItem(orders[r])) = Worth(orders[r])
      BY <3>1, BillIsWorth
    <3> QED
      BY <2>0, <3>1, <3>2
  <2>2. ASSUME NEW u \in User
        PROVE  GetCart(u).total = Worth({row \in FindByUser(u) : row.item \in Ids})
    <3> DEFINE R == {row \in FindByUser(u) : row.item \in Ids}
    <3>1. Billable(R)
      BY CartBillable DEF ChargedInv
    <3>2. GetCart(u) = Bill(R)
      BY DEF GetCart
    <3> HIDE DEF R
    <3>3. GetCart(u).total = Worth(R)
      BY <2>0, <3>1, <3>2, BillIsWorth
    <3> QED
      BY <3>3 DEF R
  <2> QED
    BY <2>1, <2>2 DEF ChargedWhatWasSold
<1> QED
  BY <1>1, <1>2, <1>3, PTL DEF ShopSpec

=============================================================================

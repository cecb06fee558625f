-------------------------- MODULE Broadcast_proof --------------------------
(***************************************************************************)
(* When nothing is under way, every client shows the live counters of all  *)
(* items but those the code is known to leave stale (Broadcast: unheard),  *)
(* for every set of requests, users and items, and whatever fails, as long *)
(* as handlers run one at a time.  (Side by side they do not: the counts   *)
(* of two handlers can be broadcast in the other order.)                   *)
(*                                                                         *)
(* ClientsInSync speaks only of the moments when nothing is under way; the *)
(* invariant says what the handler that is under way still owes clients.   *)
(***************************************************************************)
EXTENDS FlashSale_proof, Broadcast

(* The hypothesis: one handler is under way at a time, and Redis does not  *)
(* replace its counters by old ones under it.                              *)
OneHandlerAtATime == Concurrency = "one" /\ MaxRedisRestarts = 0

(* What a step does to the history. *)
Hears == unheard' = (unheard \cup Silenced) \ Told

(* Users are those logged in, and keys are those of requests that arrived. *)
Known ==
  /\ \A r \in Request : /\ req[r].pc # "new" => req[r].user \in User
                        /\ key[r] # None => req[r].pc # "new"
  /\ \A h \in exp : req[h.id].pc # "new"

(* One handler at a time. *)
Solo ==
  /\ \A r, s \in Request : InFlight(r) /\ InFlight(s) => r = s
  /\ \A r \in Request : InFlight(r) => exp = {}
  /\ \A h, g \in exp : h = g

(* Clients show the live counters, all of them or those of all items but i. *)
AllSynced == \A i \in Item \ unheard : shown[i] = stock[i]
SyncedBut(i) == \A j \in Item \ unheard : j # i => shown[j] = stock[j]

(* What clients show while handler r is under way: r may owe them a        *)
(* broadcast of its item, and then has the count, reads it first, or gives *)
(* the units back, unless the item was stale before.                       *)
Owes(r) ==
  /\ req[r].pc \in {"reserve", "undoDrop", "get", "order", "clear", "empty"} => AllSynced
  /\ req[r].pc \in {"save", "undo", "release", "drop", "delete", "shrink", "survey",
                    "refresh", "emit"}
       => req[r].item \in Item /\ SyncedBut(req[r].item)
  /\ req[r].pc \in {"save", "undo"}
       => req[r].item \in unheard \/ stock[req[r].item] + req[r].arg = shown[req[r].item]
  /\ req[r].pc \in {"save", "drop", "delete", "shrink", "survey", "refresh", "emit"}
       => req[r].rem = stock[req[r].item]

(* The same for the handler of an expired key. *)
ExpiryOwes(h) ==
  /\ h.pc \in {"find", "release"} => AllSynced
  /\ h.pc \in {"delete", "emit"}
       => SyncedBut(h.row.item) /\ h.rem = stock[h.row.item]

(* For every handler.                                                      *)
Owing == \A r \in Request : Owes(r)
ExpiriesOwing == \A h \in exp : ExpiryOwes(h)

(* The inductive invariant.                                                *)
SyncInv ==
  /\ Inv /\ Separated /\ Known /\ Solo
  /\ Owing /\ ExpiriesOwing
  /\ Quiet => AllSynced
  /\ server # "up" => Quiet

(* Handler r is the one that runs, or the call that arrives while none is. *)
Runs(r) == (InFlight(r) \/ req[r].pc = "new") /\ exp = {}
           /\ \A s \in Request : s # r => ~InFlight(s)

-----------------------------------------------------------------------------
(* What the steps have to show.                                            *)

(* What a step of handler r has to show. *)
LEMMA HandlerSync ==
  ASSUME SyncInv, Inv', Separated', NEW r \in Request, Runs(r), Others(r),
         exp' = exp, server' = server, server = "up", req'[r].pc # "new", req'[r].user \in User,
         \A c \in Request : key'[c] # None => key[c] # None \/ req'[c].pc # "new",
         Owes(r)', req'[r].pc = "done" => AllSynced'
  PROVE  SyncInv'
<1>1. \A s \in Request : s # r => ~InFlight(s)'
  BY DEF Runs, Others, InFlight
<1>2. Solo' /\ exp' = {}
  BY <1>1 DEF Solo, Runs
<1>3. Owing' /\ ExpiriesOwing'
  <2> SUFFICES ASSUME NEW s \in Request PROVE Owes(s)'
    BY <1>2 DEF Owing, ExpiriesOwing
  <2>1. CASE s = r
    BY <2>1
  <2>2. CASE s # r
    <3>1. ~InFlight(s)'
      BY <1>1, <2>2
    <3> QED
      BY <3>1 DEF Owes, InFlight
  <2> QED
    BY <2>1, <2>2
<1>4. Known'
  BY <1>2 DEF SyncInv, Known, Others
<1>5. (Quiet => AllSynced)'
  BY DEF Quiet, InFlight
<1> QED
  BY <1>2, <1>3, <1>4, <1>5 DEF SyncInv

(* Counters and what is shown of them stand still. *)
LEMMA SyncedSame ==
  ASSUME UNCHANGED <<stock, shown>>, unheard \subseteq unheard'
  PROVE  (AllSynced => AllSynced') /\ \A i : SyncedBut(i) => SyncedBut(i)'
BY DEF AllSynced, SyncedBut

(* One counter changes. *)
LEMMA OneCounter ==
  ASSUME NEW i, stock \in [Item -> Int], NEW n, stock' = [stock EXCEPT ![i] = n],
         shown' = shown, unheard \subseteq unheard'
  PROVE  SyncedBut(i) \/ AllSynced => SyncedBut(i)'
BY DEF AllSynced, SyncedBut

(* While handler r is alone, only its broadcast is heard; between handlers *)
(* none is.                                                                *)
LEMMA Untold ==
  ASSUME Inv, Hears
  PROVE  /\ \A r \in Request : Runs(r) /\ req[r].pc # "emit"
              => Told = {} /\ unheard \subseteq unheard'
         /\ \A r \in Request : Runs(r) => unheard \ {req[r].item} \subseteq unheard'
         /\ Quiet => Told = {} /\ unheard \subseteq unheard'
<1>1. \A s \in Request : Emit(s) => InFlight(s) /\ req[s].pc = "emit"
  BY DEF Emit, At, InFlight
<1>2. ASSUME NEW r \in Request, Runs(r)
      PROVE  /\ req[r].pc # "emit" => Told = {}
             /\ Told \subseteq {req[r].item}
  BY <1>1, <1>2 DEF Told, Runs
<1>3. Quiet => Told = {}
  BY <1>1 DEF Told, Quiet
<1> QED
  BY <1>2, <1>3 DEF Hears

(* A handler that throws: only its item can be stale then, and if it is,   *)
(* the history has it.                                                     *)
LEMMA ThrowSync ==
  ASSUME SyncInv, Inv', Separated', Hears, NEW r \in Request, Runs(r), InFlight(r),
         Others(r), UNCHANGED <<stock, key, shown, exp, server>>, server = "up",
         CommandFails(r) \/ SaveRowReplyLost(r), req[r].pc # "emit",
         req'[r].pc = "done", req'[r].user = req[r].user
  PROVE  SyncInv'
<1>1. Told = {} /\ unheard \subseteq unheard' /\ Owes(r) /\ req[r].user \in User
  BY Untold DEF SyncInv, Owing, Known, InFlight
<1>2. req[r].pc \in Pc
  BY DEF SyncInv, Inv, TypeOK, Locals
<1>3. AllSynced \/ SyncedBut(req[r].item)
  BY <1>1, <1>2 DEF Owes, InFlight, Pc
<1>4. \A j \in Item \ unheard' : j # req[r].item => shown'[j] = stock'[j]
  BY <1>1, <1>3 DEF AllSynced, SyncedBut
<1>5. ASSUME req[r].item \in Item \ unheard' PROVE shown'[req[r].item] = stock'[req[r].item]
  <2>1. Throws(r)
    BY DEF Throws
  <2>2. req[r].item \notin Silenced
    BY <1>1, <1>5 DEF Hears
  <2> QED
    BY <1>5, <2>1, <2>2 DEF Silenced
<1>6. AllSynced'
  BY <1>4, <1>5 DEF AllSynced
<1>7. Owes(r)' /\ req'[r].pc # "new"
  BY <1>6 DEF Owes
<1> QED
  BY <1>1, <1>6, <1>7, HandlerSync

(* A handler that starts anew, or ends, while all is shown as it is. *)
LEMMA SyncedOwes ==
  ASSUME NEW r \in Request, AllSynced',
         req'[r].pc \in {"reserve", "undoDrop", "get", "order", "clear", "empty", "done"}
  PROVE  Owes(r)'
BY DEF Owes

(* A reserve. *)
LEMMA ReserveSync ==
  ASSUME SyncInv, Inv', Separated', Hears, NEW r \in Request, Runs(r), AllSynced,
         server = "up", req[r].pc # "emit", NEW i \in Item, NEW c \in Request, NEW q \in Nat,
         Reserve(i, c, q, r), shown' = shown, exp' = exp, server' = server, Others(r),
         req'[r].pc = "save", req'[r].user \in User, req'[r].item = i, req'[r].arg = q,
         req'[r].rem = stock[i] - q, req'[c].pc # "new"
  PROVE  SyncInv'
<1>1. /\ stock \in [Item -> Int] /\ key \in [Request -> Request \cup {None}]
      /\ unheard \subseteq unheard'
  BY Untold DEF SyncInv, Inv, TypeOK, RedisTypeOK
<1>2. stock' = [stock EXCEPT ![i] = stock[i] - q] /\ stock'[i] = stock[i] - q
  BY <1>1 DEF Reserve
<1>3. SyncedBut(i)'
  BY <1>1, <1>2, OneCounter
<1>4. i \in unheard' \/ stock'[i] + q = shown'[i]
  BY <1>1, <1>2 DEF AllSynced
<1>5. Owes(r)'
  BY <1>2, <1>3, <1>4 DEF Owes
<1>6. \A d \in Request : key'[d] # None => key[d] # None \/ req'[d].pc # "new"
  BY <1>1 DEF Reserve
<1> QED
  BY <1>5, <1>6, HandlerSync

-----------------------------------------------------------------------------
(* The calls and the handlers' steps.                                      *)

(* A call arrives when nothing is under way, and then clients show the     *)
(* counters as they are.                                                   *)
LEMMA CallSync ==
  ASSUME OneHandlerAtATime, SyncInv, Inv', Separated', Hears, NEW r \in Request, Call(r)
  PROVE  SyncInv'
<1>0. stock \in [Item -> Int] /\ exp \in SUBSET ExpiryHandler
  BY DEF SyncInv, Inv, TypeOK, RedisTypeOK
<1>a. \A u \in User : \A op : Arrives(r, u, op)
        => /\ req[r].pc = "new" /\ Runs(r) /\ AllSynced /\ server = "up"
           /\ unheard \subseteq unheard'
  <2> SUFFICES ASSUME NEW u \in User, NEW op, Arrives(r, u, op)
               PROVE  /\ req[r].pc = "new" /\ Runs(r) /\ AllSynced /\ server = "up"
                      /\ unheard \subseteq unheard'
    OBVIOUS
  <2>1. req[r].pc = "new" /\ server = "up" /\ \A v \in User : Idle(v)
    BY DEF Arrives, Permitted, OneHandlerAtATime
  <2>2. \A s \in Request : ~InFlight(s)
    BY <2>1 DEF SyncInv, Known, Idle, InFlight
  <2>3. exp = {}
    <3>1. \A h \in exp : req[h.id].pc # "new"
      BY DEF SyncInv, Known
    <3> QED
      BY <1>0, <2>1, <3>1 DEF SyncInv, Known, Idle, ExpiryHandler
  <2>4. Quiet
    BY <2>2, <2>3 DEF Quiet
  <2>5. Runs(r)
    BY <2>1, <2>2, <2>3 DEF Runs
  <2> QED
    BY <2>1, <2>4, <2>5, Untold DEF SyncInv
<1>1. ASSUME NEW u \in User, NEW i \in Item, NEW q \in Quantity, AddToCart(r, u, i, q)
      PROVE  SyncInv'
  <2>1. /\ shown' = shown /\ exp' = exp /\ server' = server /\ Runs(r) /\ AllSynced
        /\ q \in Nat /\ server = "up" /\ unheard \subseteq unheard'
        /\ req[r].pc # "emit"
    BY <1>a, <1>1, EnvironmentAssumption DEF AddToCart, serverVars
  <2>2. CASE Reserve(i, r, q, r)
             /\ Becomes(r, "save", "add", u, i, r, q, 0, {}, {}, stock[i] - q)
    <3>1. /\ Others(r) /\ req'[r].pc = "save" /\ req'[r].user = u /\ req'[r].item = i
          /\ req'[r].arg = q /\ req'[r].rem = stock[i] - q
      BY <2>2 DEF Becomes, Others
    <3> QED
      BY <2>1, <2>2, <3>1, ReserveSync
  <2>3. CASE UNCHANGED redisVars /\ Finishes(r, u, i)
    <3>1. /\ Others(r) /\ req'[r].pc = "done" /\ req'[r].user = u
          /\ UNCHANGED <<stock, key>>
      BY <2>3 DEF Finishes, Becomes, Others, redisVars
    <3> QED
      BY <2>1, <3>1, SyncedSame, SyncedOwes, HandlerSync
  <2> QED
    BY <1>1, <2>2, <2>3, AddToCartNow DEF SyncInv
<1>2. ASSUME NEW u \in User, UNCHANGED <<stock, key, shown, exp, server>>, Others(r),
             req'[r].pc \in {"reserve", "get", "order"}, req'[r].user = u, Runs(r), AllSynced,
             server = "up", unheard \subseteq unheard'
      PROVE  SyncInv'
  BY <1>2, SyncedSame, SyncedOwes, HandlerSync
<1>3. ASSUME NEW u \in User, NEW i \in Item, NEW q \in Quantity, Increase(r, u, i, q)
      PROVE  SyncInv'
  <2>1. /\ UNCHANGED <<stock, key, shown, exp, server>> /\ Runs(r) /\ AllSynced
        /\ server = "up" /\ unheard \subseteq unheard'
    BY <1>a, <1>3 DEF Increase, serverVars, redisVars
  <2>2. Others(r) /\ req'[r].pc = "reserve" /\ req'[r].user = u
    BY <1>3, IncreaseNow DEF Becomes, Others, SyncInv
  <2> QED
    BY <1>2, <2>1, <2>2
<1>4. ASSUME NEW u \in User, NEW i \in Item,
             RemoveFromCart(r, u, i) \/ \E q \in Quantity : Decrease(r, u, i, q)
      PROVE  SyncInv'
  <2>1. /\ UNCHANGED <<stock, key, shown, exp, server>> /\ Runs(r) /\ AllSynced
        /\ server = "up" /\ unheard \subseteq unheard'
    BY <1>a, <1>4 DEF RemoveFromCart, Decrease, serverVars, redisVars
  <2>2. /\ Others(r) /\ req'[r].pc \in {"get", "release"} /\ req'[r].user = u
        /\ req'[r].item = i
    BY <1>4, RemoveFromCartNow, DecreaseNow DEF Becomes, Others, SyncInv
  <2>3. CASE req'[r].pc = "release"
    <3>1. Owes(r)'
      BY <2>1, <2>2, <2>3 DEF Owes, AllSynced, SyncedBut
    <3> QED
      BY <2>1, <2>2, <2>3, <3>1, HandlerSync
  <2> QED
    BY <1>2, <2>1, <2>2, <2>3
<1>5. ASSUME NEW u \in User, Checkout(r, u)
      PROVE  SyncInv'
  <2>1. /\ UNCHANGED <<stock, key, shown, exp, server>> /\ Runs(r) /\ AllSynced
        /\ server = "up" /\ unheard \subseteq unheard'
    BY <1>a, <1>5 DEF Checkout, serverVars, redisVars
  <2>2. Others(r) /\ req'[r].pc = "order" /\ req'[r].user = u
    BY <1>5, CheckoutNow DEF Becomes, Others, SyncInv
  <2> QED
    BY <1>2, <2>1, <2>2
<1> QED
  BY <1>1, <1>3, <1>4, <1>5 DEF Call

(* A handler that goes on with its debt as it was, or without one. *)
LEMMA DebtStays ==
  ASSUME SyncInv, Inv', Separated', Hears, NEW r \in Request, Runs(r), InFlight(r), Others(r),
         server = "up", UNCHANGED <<stock, shown, exp, server>>, req'[r].user = req[r].user,
         \A c \in Request : key'[c] # None => key[c] # None,
         \/ /\ req[r].pc \in {"save", "drop", "delete", "shrink", "survey", "refresh"}
            /\ req'[r].pc \in {"drop", "delete", "shrink", "survey", "refresh", "emit", "release"}
            /\ req'[r].item = req[r].item /\ req'[r].rem = req[r].rem
         \/ /\ req[r].pc \in {"reserve", "undoDrop", "get", "order", "clear", "empty"}
            /\ req'[r].pc \in {"reserve", "undoDrop", "get", "order", "clear", "empty", "done"}
  PROVE  SyncInv'
<1>1. Owes(r) /\ req[r].user \in User
  BY DEF SyncInv, Owing, Known, InFlight
<1>2. (AllSynced => AllSynced') /\ \A i : SyncedBut(i) => SyncedBut(i)'
  BY SyncedSame, Untold DEF SyncInv
<1>3. Owes(r)' /\ (req'[r].pc = "done" => AllSynced')
  BY <1>1, <1>2 DEF Owes
<1>4. req'[r].pc # "new"
  OBVIOUS
<1> QED
  BY <1>1, <1>3, <1>4, HandlerSync

(* The handlers' steps: every step that changes a counter leaves the count *)
(* that is to be broadcast with the handler, and the handler broadcasts it *)
(* or puts the units back.                                                 *)
LEMMA StepSync ==
  ASSUME SyncInv, Inv', Separated', Hears, NEW r \in Request, Step(r)
  PROVE  SyncInv'
<1>a. SUFFICES ASSUME NEW k, k = req[r].item, NEW a, a = req[r].arg
               PROVE  SyncInv'
  OBVIOUS
<1>0. /\ req[r] \in Locals /\ key \in [Request -> Request \cup {None}]
      /\ stock \in [Item -> Int] /\ shown \in [Item -> Int] /\ a \in Nat
      /\ Owes(r) /\ Inv
  BY <1>a DEF SyncInv, Owing, Inv, TypeOK, RedisTypeOK, Locals
<1>1. /\ InFlight(r) /\ Runs(r) /\ req[r].user \in User /\ server = "up"
      /\ req[r].pc # "emit" => unheard \subseteq unheard'
      /\ unheard \ {k} \subseteq unheard'
  <2>1. InFlight(r) /\ server = "up"
    BY DEF Step, IncreaseReserve, SaveRow, SaveRowReplyLost, Undo, UndoDrop, ReleaseRow,
       DropKey, DeleteRow, ShrinkRow, Survey, RefreshKey, SaveOrder, ClearKey, EmptyCart,
       GetRemaining, Emit, CommandFails, At, InFlight
  <2>2. Runs(r) /\ req[r].user \in User
    BY <2>1 DEF SyncInv, Solo, Runs, Known, InFlight
  <2> QED
    BY <1>0, <1>a, <2>1, <2>2, Untold
<1>b. ASSUME req[r].pc = "save", UNCHANGED <<stock, key, shown, exp, server>>,
             Becomes(r, "undo", "add", req[r].user, req[r].item, req[r].id, req[r].arg,
                     req[r].base, req[r].todo, req[r].items, req[r].rem)
      PROVE  SyncInv'
  <2>1. /\ Others(r) /\ req'[r].pc = "undo" /\ req'[r].user = req[r].user
        /\ req'[r].item = k /\ req'[r].arg = a
    BY <1>a, <1>b DEF Becomes, Others
  <2>2. /\ k \in Item /\ SyncedBut(k)'
        /\ k \in unheard' \/ stock'[k] + a = shown'[k]
    BY <1>a, <1>b, <1>0, <1>1, SyncedSame DEF Owes
  <2>3. Owes(r)'
    BY <2>1, <2>2 DEF Owes
  <2> QED
    BY <1>1, <1>b, <2>1, <2>3, HandlerSync
<1>c. ASSUME req[r].pc # "emit", UNCHANGED <<stock, key, shown, exp, server>>,
             CommandFails(r) \/ SaveRowReplyLost(r),
             Finishes(r, req[r].user, ItemOfId(req[r]))
      PROVE  SyncInv'
  <2>1. Others(r) /\ req'[r].pc = "done" /\ req'[r].user = req[r].user
    BY <1>c DEF Finishes, Becomes, Others
  <2> QED
    BY <1>1, <1>c, <2>1, ThrowSync
<1>2. CASE SaveRowReplyLost(r)
  <2>1. /\ req[r].pc = "save" /\ UNCHANGED <<stock, key, shown, exp, server>>
        /\ Become(r, AfterFailedSave(req[r]))
    BY <1>2 DEF SaveRowReplyLost, At, serverVars, redisVars
  <2> QED
    BY <1>0, <1>2, <1>b, <1>c, <2>1, AfterFailedSaveNow
<1>3. CASE IncreaseReserve(r)
  <2>1. /\ req[r].pc = "reserve" /\ AllSynced /\ UNCHANGED <<shown, exp, server>>
    BY <1>0, <1>3 DEF IncreaseReserve, At, serverVars, Owes
  <2>2. /\ req[r].item \in Item /\ req[r].id \in Request /\ req[req[r].id].pc # "new"
        /\ req[r].arg \in Nat
    BY <1>0, <2>1 DEF Inv, LocalsOK, Locals, SyncInv, Separated, AllLocalsOwned, LocalsOwned, Owns
  <2>3. CASE /\ Reserve(req[r].item, req[r].id, req[r].arg, r)
             /\ Becomes(r, "save", req[r].op, req[r].user, req[r].item, req[r].id,
                        req[r].arg, req[r].base, req[r].todo, req[r].items,
                        stock[req[r].item] - req[r].arg)
    <3>1. /\ Others(r) /\ req'[r].pc = "save" /\ req'[r].user = req[r].user
          /\ req'[r].item = req[r].item /\ req'[r].arg = req[r].arg
          /\ req'[r].rem = stock[req[r].item] - req[r].arg
      BY <2>3 DEF Becomes, Others
    <3>2. req'[req[r].id].pc # "new"
      BY <2>2, <3>1 DEF Others
    <3> QED
      BY <1>1, <2>1, <2>2, <2>3, <3>1, <3>2, ReserveSync
  <2>4. CASE UNCHANGED redisVars /\ Finishes(r, req[r].user, ItemOfId(req[r]))
    <3>1. /\ Others(r) /\ req'[r].pc = "done" /\ req'[r].user = req[r].user
          /\ UNCHANGED <<stock, key>>
      BY <2>4 DEF Finishes, Becomes, Others, redisVars
    <3> QED
      BY <1>1, <2>1, <3>1, DebtStays
  <2> QED
    BY <1>0, <1>3, <2>3, <2>4, IncreaseReserveNow
<1>4. CASE SaveRow(r)
  <2>1. /\ req[r].pc = "save" /\ UNCHANGED <<stock, key, shown, exp, server>>
    BY <1>4 DEF SaveRow, At, serverVars, redisVars
  <2>2. /\ Others(r) /\ req'[r].pc \in {"emit", "survey"} /\ req'[r].user = req[r].user
        /\ req'[r].item = req[r].item /\ req'[r].rem = req[r].rem
    BY <1>0, <1>4, SaveRowNow DEF Becomes, Others, AfterSave
  <2> QED
    BY <1>1, <2>1, <2>2, DebtStays
<1>5. CASE Undo(r)
  <2>1. /\ req[r].pc = "undo" /\ UNCHANGED <<key, shown, exp, server>>
        /\ stock' = [stock EXCEPT ![k] = @ + a]
    BY <1>a, <1>5 DEF Undo, At, serverVars, Release
  <2>2. /\ Others(r) /\ req'[r].pc = "undoDrop" /\ req'[r].user = req[r].user
    BY <1>0, <1>5, UndoNow DEF Becomes, Others
  <2>3. k \in Item /\ SyncedBut(k) /\ (k \in unheard \/ stock[k] + a = shown[k])
    BY <1>a, <1>0, <2>1 DEF Owes
  <2>4. AllSynced'
    BY <1>0, <1>1, <2>1, <2>3 DEF SyncedBut, AllSynced
  <2>5. Owes(r)'
    BY <2>2, <2>4, SyncedOwes
  <2> QED
    BY <1>1, <2>1, <2>2, <2>5, HandlerSync
<1>6. CASE UndoDrop(r)
  <2>1. /\ req[r].pc = "undoDrop" /\ UNCHANGED <<stock, shown, exp, server>>
        /\ \A c \in Request : key'[c] # None => key[c] # None
    BY <1>0, <1>6 DEF UndoDrop, At, serverVars, Drop
  <2>2. /\ Others(r) /\ req'[r].pc = "get" /\ req'[r].user = req[r].user
    BY <1>0, <1>6, UndoDropNow DEF Becomes, Others
  <2> QED
    BY <1>1, <2>1, <2>2, DebtStays
<1>7. CASE ReleaseRow(r)
  <2>1. /\ req[r].pc = "release" /\ UNCHANGED <<key, shown, exp, server>>
    BY <1>7 DEF ReleaseRow, At, serverVars
  <2>2. k \in Item /\ SyncedBut(k)
    BY <1>a, <1>0, <2>1 DEF Owes
  <2>3. PICK row \in req[r].todo :
           LET q == ReleasedQty(req[r], row)
           IN  /\ Release(row.item, q)
               /\ \/ /\ Whole(req[r], row)
                     /\ Becomes(r, "drop", req[r].op, req[r].user, req[r].item, row.id,
                                NeedAfter(req[r], q), req[r].base, req[r].todo \ {row},
                                req[r].items, stock[row.item] + q)
                  \/ /\ ~Whole(req[r], row)
                     /\ Becomes(r, "shrink", req[r].op, req[r].user, req[r].item, row.id,
                                req[r].arg, row.qty, req[r].todo, req[r].items,
                                stock[row.item] + q)
    BY <1>0, <1>7, ReleaseRowNow
  <2>4. row.item = k
    BY <1>a, <2>1 DEF SyncInv, Separated, AllLocalsOwned, LocalsOwned
  <2>b. SUFFICES ASSUME NEW q, q = ReleasedQty(req[r], row)
                 PROVE  SyncInv'
    OBVIOUS
  <2>5. /\ stock' = [stock EXCEPT ![k] = @ + q]
        /\ Others(r) /\ req'[r].pc \in {"drop", "shrink"} /\ req'[r].user = req[r].user
        /\ req'[r].item = k /\ req'[r].rem = stock[k] + q
    BY <1>a, <2>3, <2>4, <2>b DEF Release, Becomes, Others
  <2>6. SyncedBut(k)' /\ stock'[k] = stock[k] + q
    BY <1>0, <1>1, <2>1, <2>2, <2>5 DEF SyncedBut
  <2>7. Owes(r)'
    BY <2>2, <2>5, <2>6 DEF Owes
  <2> QED
    BY <1>1, <2>1, <2>5, <2>7, HandlerSync
<1>8. CASE DropKey(r)
  <2>1. /\ req[r].pc = "drop" /\ UNCHANGED <<stock, shown, exp, server>>
        /\ \A c \in Request : key'[c] # None => key[c] # None
    BY <1>0, <1>8 DEF DropKey, At, serverVars, Drop
  <2>2. /\ Others(r) /\ req'[r].pc = "delete" /\ req'[r].user = req[r].user
        /\ req'[r].item = req[r].item /\ req'[r].rem = req[r].rem
    BY <1>0, <1>8, DropKeyNow DEF Becomes, Others
  <2> QED
    BY <1>1, <2>1, <2>2, DebtStays
<1>9. CASE DeleteRow(r)
  <2>1. /\ req[r].pc = "delete" /\ UNCHANGED <<stock, key, shown, exp, server>>
    BY <1>9 DEF DeleteRow, At, serverVars, redisVars
  <2>2. /\ Others(r) /\ req'[r].pc \in {"release", "emit", "survey"}
        /\ req'[r].user = req[r].user
        /\ req'[r].item = req[r].item /\ req'[r].rem = req[r].rem
    BY <1>0, <1>9, DeleteRowNow DEF Becomes, Others
  <2> QED
    BY <1>1, <2>1, <2>2, DebtStays
<1>10. CASE ShrinkRow(r)
  <2>1. /\ req[r].pc = "shrink" /\ UNCHANGED <<stock, key, shown, exp, server>>
    BY <1>10 DEF ShrinkRow, At, serverVars, redisVars
  <2>2. /\ Others(r) /\ req'[r].pc = "survey" /\ req'[r].user = req[r].user
        /\ req'[r].item = req[r].item /\ req'[r].rem = req[r].rem
    BY <1>0, <1>10, ShrinkRowNow DEF Becomes, Others
  <2> QED
    BY <1>1, <2>1, <2>2, DebtStays
<1>11. CASE Survey(r)
  <2>1. /\ req[r].pc = "survey" /\ UNCHANGED <<stock, key, shown, exp, server>>
    BY <1>11 DEF Survey, At, serverVars, redisVars
  <2>2. /\ Others(r) /\ req'[r].pc \in {"emit", "refresh"} /\ req'[r].user = req[r].user
        /\ req'[r].item = req[r].item /\ req'[r].rem = req[r].rem
    BY <1>0, <1>11, SurveyNow DEF Becomes, Others
  <2> QED
    BY <1>1, <2>1, <2>2, DebtStays
<1>12. CASE RefreshKey(r)
  <2>1. /\ req[r].pc = "refresh" /\ UNCHANGED <<stock, shown, exp, server>>
    BY <1>12 DEF RefreshKey, At, serverVars
  <2>2. /\ Others(r) /\ req'[r].pc \in {"emit", "refresh"} /\ req'[r].user = req[r].user
        /\ req'[r].item = req[r].item /\ req'[r].rem = req[r].rem
        /\ \E row \in req[r].todo : Refresh(row.id, r)
    BY <1>0, <1>12, RefreshKeyNow DEF Becomes, Others
  <2>3. \A c \in Request : key'[c] # None => key[c] # None
    BY <1>0, <2>2 DEF Refresh
  <2> QED
    BY <1>1, <2>1, <2>2, <2>3, DebtStays
<1>13. CASE SaveOrder(r)
  <2>1. /\ req[r].pc = "order" /\ UNCHANGED <<stock, key, shown, exp, server>>
    BY <1>13 DEF SaveOrder, At, serverVars, redisVars
  <2>2. /\ Others(r) /\ req'[r].pc = "clear" /\ req'[r].user = req[r].user
    BY <1>0, <1>13, SaveOrderNow DEF Becomes, Others
  <2> QED
    BY <1>1, <2>1, <2>2, DebtStays
<1>14. CASE ClearKey(r)
  <2>1. /\ req[r].pc = "clear" /\ UNCHANGED <<stock, shown, exp, server>>
    BY <1>14 DEF ClearKey, At, serverVars
  <2>2. /\ Others(r) /\ req'[r].pc \in {"clear", "empty"} /\ req'[r].user = req[r].user
        /\ \E row \in req[r].todo : Drop(row.id)
    BY <1>0, <1>14, ClearKeyNow DEF Becomes, Others
  <2>3. \A c \in Request : key'[c] # None => key[c] # None
    BY <1>0, <2>2 DEF Drop
  <2> QED
    BY <1>1, <2>1, <2>2, <2>3, DebtStays
<1>15. CASE EmptyCart(r)
  <2>1. /\ req[r].pc = "empty" /\ UNCHANGED <<stock, key, shown, exp, server>>
    BY <1>15 DEF EmptyCart, At, serverVars, redisVars
  <2>2. /\ Others(r) /\ req'[r].pc = "get" /\ req'[r].user = req[r].user
    BY <1>0, <1>15, EmptyCartNow DEF Becomes, Others
  <2> QED
    BY <1>1, <2>1, <2>2, DebtStays
<1>16. CASE GetRemaining(r)
  <2>1. /\ req[r].pc = "get" /\ UNCHANGED <<stock, key, shown, exp, server>> /\ AllSynced
    BY <1>0, <1>16 DEF GetRemaining, At, serverVars, redisVars, Owes
  <2>2. PICK i \in req[r].items :
          /\ Others(r) /\ req'[r].pc \in {"survey", "emit"} /\ req'[r].user = req[r].user
          /\ req'[r].item = i /\ req'[r].rem = stock[i]
    BY <1>0, <1>16, GetRemainingNow DEF Becomes, Others
  <2>3. i \in Item
    BY <1>0 DEF Locals
  <2>4. Owes(r)'
    BY <1>1, <2>1, <2>2, <2>3 DEF Owes, AllSynced, SyncedBut
  <2> QED
    BY <1>1, <2>1, <2>2, <2>4, HandlerSync
<1>17. CASE Emit(r)
  <2>1. /\ req[r].pc = "emit" /\ UNCHANGED <<stock, key, exp, server>>
        /\ shown' = [shown EXCEPT ![k] = req[r].rem]
    BY <1>a, <1>17 DEF Emit, EmitStockUpdate, At, serverVars, redisVars
  <2>2. /\ Others(r) /\ req'[r].pc \in {"done", "get"} /\ req'[r].user = req[r].user
    BY <1>0, <1>17, EmitNow DEF Finishes, Becomes, Others
  <2>3. k \in Item /\ SyncedBut(k) /\ req[r].rem = stock[k]
    BY <1>a, <1>0, <2>1 DEF Owes
  <2>4. AllSynced'
    BY <1>0, <1>1, <2>1, <2>3 DEF SyncedBut, AllSynced
  <2>5. Owes(r)'
    BY <2>2, <2>4, SyncedOwes
  <2> QED
    BY <1>1, <2>1, <2>2, <2>4, <2>5, HandlerSync
<1>18. CASE CommandFails(r)
  <2>1. /\ UNCHANGED <<stock, key, shown, exp, server>> /\ req[r].pc # "emit"
    BY <1>18 DEF CommandFails, serverVars, redisVars
  <2> QED
    BY <1>0, <1>18, <1>b, <1>c, <2>1, CommandFailsNow
<1> QED
  BY <1>2, <1>3, <1>4, <1>5, <1>6, <1>7, <1>8, <1>9, <1>10, <1>11, <1>12, <1>13, <1>14, <1>15,
     <1>16, <1>17, <1>18 DEF Step

-----------------------------------------------------------------------------
(* The expiry, and the theorem.                                            *)

(* It holds initially.                                                     *)
LEMMA SyncInit ==
  ASSUME HeardInit
  PROVE  SyncInv
<1>1. /\ \A r \in Request : req[r].pc = "new" /\ key[r] = None
      /\ exp = {} /\ server = "up" /\ shown = stock /\ Init
  BY DEF HeardInit, Init, RedisInit, Fresh
<1>2. Known /\ Solo /\ Owing /\ ExpiriesOwing /\ AllSynced
  BY <1>1 DEF Known, Solo, Owing, Owes, ExpiriesOwing, AllSynced, InFlight
<1> QED
  BY <1>1, <1>2, InvInit, SeparatedInit DEF SyncInv

(* A key expires while nothing is under way.                               *)
LEMMA KeyExpiresSync ==
  ASSUME OneHandlerAtATime, SyncInv, Inv', Separated', Hears, NEW c \in Request, KeyExpires(c)
  PROVE  SyncInv'
<1>0. exp \in SUBSET ExpiryHandler
  BY DEF SyncInv, Inv, TypeOK
<1>1. /\ UNCHANGED <<stock, shown, req, server>>
      /\ \A d \in Request : key'[d] # None => key[d] # None
      /\ key[c] # None /\ \A v \in User : Idle(v)
  BY DEF KeyExpires, MayExpire, Permitted, OneHandlerAtATime, TtlPasses, Drop, serverVars,
     SyncInv, Inv, TypeOK, RedisTypeOK
<1>2. \A s \in Request : ~InFlight(s)
  BY <1>1 DEF SyncInv, Known, Idle, InFlight
<1>3. exp = {}
  BY <1>0, <1>1 DEF SyncInv, Known, Idle, ExpiryHandler
<1>4. AllSynced /\ unheard \subseteq unheard'
  BY <1>2, <1>3, Untold DEF Quiet, SyncInv
<1>5. AllSynced' /\ \A s \in Request : ~InFlight(s)'
  BY <1>1, <1>2, <1>4, SyncedSame DEF InFlight
<1>6. Owing'
  BY <1>5 DEF Owing, Owes, InFlight
<1>7. /\ exp' = {} \/ \E h : h.id = c /\ h.pc = "find" /\ exp' = {h}
      /\ server # "up" => exp' = {}
  <2>1. \/ exp' = exp
        \/ /\ server = "up"
           /\ exp' = exp \cup {[id |-> c, by |-> key[c], pc |-> "find", row |-> None,
                                rem |-> 0]}
    BY DEF KeyExpires, Subscribed
  <2> QED
    BY <1>3, <2>1
<1>8. Known' /\ Solo' /\ ExpiriesOwing'
  <2>1. req[c].pc # "new"
    BY <1>1 DEF SyncInv, Known
  <2> QED
    BY <1>1, <1>5, <1>7, <2>1 DEF SyncInv, Known, Solo, ExpiriesOwing, ExpiryOwes
<1>9. (server # "up" => Quiet)'
  BY <1>1, <1>5, <1>7 DEF Quiet
<1> QED
  BY <1>5, <1>6, <1>8, <1>9 DEF SyncInv

(* A step of the handler h of an expired key, which it ends or leaves as m. *)
LEMMA ExpirySync ==
  ASSUME SyncInv, Inv', Separated', NEW h \in exp,
         req' = req, key' = key, server' = server,
         \/ exp' = {} /\ AllSynced'
         \/ \E m : exp' = {m} /\ m.id = h.id /\ ExpiryOwes(m)'
  PROVE  SyncInv'
<1>1. \A s \in Request : ~InFlight(s)
  BY DEF SyncInv, Solo
<1>2. \A s \in Request : ~InFlight(s)'
  BY <1>1 DEF InFlight
<1>3. Solo' /\ Owing'
  BY <1>2 DEF Solo, Owing, Owes, InFlight
<1>4. Known' /\ ExpiriesOwing' /\ (Quiet => AllSynced)' /\ server' = "up"
  BY DEF SyncInv, Known, ExpiriesOwing, Quiet
<1> QED
  BY <1>3, <1>4 DEF SyncInv

(* The expiry handler's steps: what it gives back it broadcasts.           *)
LEMMA ExpireStepSync ==
  ASSUME SyncInv, Inv', Separated', Hears, NEW h \in exp, ExpireStep(h)
  PROVE  SyncInv'
<1>0. /\ h \in ExpiryHandler /\ exp = {h} /\ ExpiryOwes(h)
      /\ stock \in [Item -> Int] /\ shown \in [Item -> Int]
  BY DEF SyncInv, Inv, TypeOK, RedisTypeOK, ExpiriesOwing, Solo
<1>1. h.pc \in {"release", "delete", "emit"} => h.row.item \in Item /\ h.row.qty \in Nat
  BY <1>0, RowAssumption DEF SyncInv, Inv, HandlersOK, ExpiryHandler, CartRow
<1>a. /\ h.pc # "emit" => Told = {} /\ unheard \subseteq unheard'
      /\ h.row # None => unheard \ {h.row.item} \subseteq unheard'
  <2>1. \A s \in Request : ~Emit(s)
    BY DEF SyncInv, Solo, Emit, At, InFlight
  <2>2. ExpireEmit(h) => h.pc = "emit"
    BY DEF ExpireEmit
  <2> QED
    BY <1>0, <2>1, <2>2 DEF Told, Hears
<1>2. ASSUME ExpireFails(h) PROVE SyncInv'
  <2>1. /\ h.pc # "emit" /\ UNCHANGED <<req, key, server, stock, shown>> /\ exp' = {}
    BY <1>0, <1>2 DEF ExpireFails, redisVars, serverVars
  <2>2. h.pc \in {"find", "release", "delete"}
    BY <1>0, <2>1 DEF ExpiryHandler
  <2>3. \A j \in Item \ unheard : (h.pc = "delete" /\ j = h.row.item) \/ shown[j] = stock[j]
    BY <1>0, <2>2 DEF ExpiryOwes, AllSynced, SyncedBut
  <2>4. ASSUME NEW j \in Item \ unheard', h.pc = "delete", j = h.row.item
        PROVE  shown'[j] = stock'[j]
    <3>1. ExpiryThrows(h) /\ h.row # None
      BY <1>0, <1>2, <2>4, RowAssumption DEF ExpiryThrows, SyncInv, Inv, HandlersOK
    <3>2. j \notin Silenced
      BY <1>a, <2>1, <2>4 DEF Hears
    <3> QED
      BY <2>4, <3>1, <3>2 DEF Silenced
  <2>5. AllSynced'
    BY <1>a, <2>1, <2>3, <2>4 DEF AllSynced
  <2> QED
    BY <2>1, <2>5, ExpirySync
<1>3. ASSUME ExpireFind(h) PROVE SyncInv'
  <2>1. /\ UNCHANGED <<req, key, server, stock, shown>> /\ AllSynced
    BY <1>0, <1>3 DEF ExpireFind, redisVars, serverVars, ExpiryOwes
  <2>2. AllSynced'
    BY <1>3, <1>a, <2>1, SyncedSame DEF ExpireFind
  <2>3. exp' = {} \/ \E m : exp' = {m} /\ m.id = h.id /\ m.pc = "release"
    <3> DEFINE m == [h EXCEPT !.pc = "release", !.row = rows[h.id]]
    <3>1. m.id = h.id /\ m.pc = "release"
      BY <1>0 DEF ExpiryHandler
    <3>2. exp' = {} \/ exp' = {m}
      BY <1>0, <1>3 DEF ExpireFind, Advance
    <3> QED
      BY <3>1, <3>2
  <2>4. \A m : m.pc = "release" => ExpiryOwes(m)'
    BY <2>2 DEF ExpiryOwes
  <2> QED
    BY <2>1, <2>2, <2>3, <2>4, ExpirySync
<1>4. ASSUME ExpireRelease(h) PROVE SyncInv'
  <2>1. /\ h.pc = "release" /\ UNCHANGED <<req, key, server, shown>> /\ AllSynced
        /\ stock' = [stock EXCEPT ![h.row.item] = @ + h.row.qty]
    BY <1>0, <1>4 DEF ExpireRelease, serverVars, ExpiryOwes, Release
  <2>a. SUFFICES ASSUME NEW i, i = h.row.item, NEW n, n = stock[i] + h.row.qty
                 PROVE  SyncInv'
    OBVIOUS
  <2>2. PICK m : exp' = {m} /\ m.id = h.id /\ m.pc = "delete" /\ m.row = h.row /\ m.rem = n
    <3> DEFINE g == [h EXCEPT !.pc = "delete", !.rem = n]
    <3>1. g.id = h.id /\ g.pc = "delete" /\ g.row = h.row /\ g.rem = n
      BY <1>0 DEF ExpiryHandler
    <3>2. exp' = {g}
      BY <1>0, <1>4, <2>a DEF ExpireRelease, Advance
    <3> QED
      BY <3>1, <3>2
  <2>3. SyncedBut(i)' /\ stock'[i] = n
    <3>1. stock' = [stock EXCEPT ![i] = n] /\ i \in Item
      BY <1>1, <2>1, <2>a
    <3> QED
      BY <1>0, <1>a, <2>1, <3>1, OneCounter
  <2>4. ExpiryOwes(m)'
    BY <2>a, <2>2, <2>3 DEF ExpiryOwes
  <2> QED
    BY <2>1, <2>2, <2>4, ExpirySync
<1>5. ASSUME ExpireDelete(h) PROVE SyncInv'
  <2>1. /\ h.pc = "delete" /\ UNCHANGED <<req, key, server, stock, shown>>
    BY <1>5 DEF ExpireDelete, redisVars, serverVars
  <2>2. PICK m : exp' = {m} /\ m.id = h.id /\ m.pc = "emit" /\ m.row = h.row /\ m.rem = h.rem
    <3> DEFINE g == [h EXCEPT !.pc = "emit"]
    <3>1. g.id = h.id /\ g.pc = "emit" /\ g.row = h.row /\ g.rem = h.rem
      BY <1>0 DEF ExpiryHandler
    <3>2. exp' = {g}
      BY <1>0, <1>5 DEF ExpireDelete, Advance
    <3> QED
      BY <3>1, <3>2
  <2>3. ExpiryOwes(m)'
    BY <1>0, <1>a, <2>1, <2>2, SyncedSame DEF ExpiryOwes
  <2> QED
    BY <2>1, <2>2, <2>3, ExpirySync
<1>6. ASSUME ExpireEmit(h) PROVE SyncInv'
  <2>1. /\ h.pc = "emit" /\ UNCHANGED <<req, key, server, stock>> /\ exp' = {}
        /\ shown' = [shown EXCEPT ![h.row.item] = h.rem]
    BY <1>0, <1>6 DEF ExpireEmit, EmitStockUpdate, redisVars, serverVars
  <2>2. AllSynced'
    BY <1>0, <1>1, <1>a, <2>1, RowAssumption DEF ExpiryOwes, SyncedBut, AllSynced, SyncInv, Inv,
       HandlersOK
  <2> QED
    BY <2>1, <2>2, ExpirySync
<1> QED
  BY <1>2, <1>3, <1>4, <1>5, <1>6 DEF ExpireStep

(* A crash ends whatever is under way; what it leaves stale is remembered. *)
LEMMA CrashSync ==
  ASSUME SyncInv, Inv', Separated', Hears, Crash
  PROVE  SyncInv'
<1>0. crashes \in Nat /\ Inv
  BY DEF SyncInv, Inv, TypeOK
<1>1. UNCHANGED <<stock, key, shown>> /\ exp' = {} /\ crashes' = crashes + 1
  BY DEF Crash, redisVars
<1>2. Told = {} /\ unheard \subseteq unheard'
  <2>1. \A s \in Request : ~Emit(s)
    BY <1>0, <1>1 DEF Emit, serverVars
  <2>2. \A h \in exp : ~ExpireEmit(h)
    BY <1>0, <1>1 DEF ExpireEmit, serverVars
  <2> QED
    BY <2>1, <2>2 DEF Told, Hears
<1>3. \A r \in Request : /\ ~InFlight(r)'
                         /\ InFlight(r) => req'[r].pc = "done"
                         /\ req'[r].user = req[r].user
                         /\ req[r].pc # "new" => req'[r].pc # "new"
                         /\ req'[r].pc # "new" => req[r].pc # "new"
  BY <1>0, CrashNow DEF InFlight
<1>4. AllSynced'
  <2> SUFFICES ASSUME NEW j \in Item \ unheard', shown[j] # stock[j]
               PROVE  FALSE
    BY <1>1 DEF AllSynced
  <2>1. j \notin Silenced /\ j \notin unheard
    BY <1>2 DEF Hears
  <2>2. exp # {} \/ \E r \in Request : InFlight(r)
    BY <2>1 DEF SyncInv, AllSynced, Quiet
  <2>3. ASSUME NEW r \in Request, InFlight(r) PROVE FALSE
    <3>1. Owes(r) /\ req[r].pc \in Pc
      BY <1>0 DEF SyncInv, Owing, Inv, TypeOK, Locals
    <3>2. req[r].item = j
      BY <2>1, <2>3, <3>1 DEF Owes, AllSynced, SyncedBut, InFlight, Pc
    <3>3. Throws(r)
      BY <1>3, <2>3 DEF Throws
    <3> QED
      BY <1>1, <2>1, <3>2, <3>3 DEF Silenced
  <2>4. CASE exp # {}
    <3>1. PICK h \in exp : TRUE
      BY <2>4
    <3>2. ExpiryOwes(h) /\ h \in ExpiryHandler /\ (h.pc # "find" => h.row \in CartRow)
      BY <1>0 DEF SyncInv, ExpiriesOwing, Inv, TypeOK, HandlersOK
    <3>3. h.row.item = j /\ h.row # None
      BY <2>1, <3>2, RowAssumption DEF ExpiryOwes, AllSynced, SyncedBut, ExpiryHandler
    <3> QED
      BY <1>1, <2>1, <3>3 DEF Silenced, ExpiryThrows
  <2> QED
    BY <2>2, <2>3, <2>4
<1>5. Solo' /\ Owing' /\ ExpiriesOwing'
  BY <1>1, <1>3 DEF Solo, Owing, Owes, ExpiriesOwing, InFlight
<1>6. Known'
  BY <1>1, <1>3 DEF SyncInv, Known
<1> QED
  BY <1>1, <1>3, <1>4, <1>5, <1>6 DEF SyncInv, Quiet

(* A boot: nothing is under way, and what the seed changes is remembered.  *)
LEMMA BootSync ==
  ASSUME SyncInv, Inv', Separated', Hears, Boot
  PROVE  SyncInv'
<1>1. Quiet /\ UNCHANGED <<key, shown, req, exp>>
  BY DEF SyncInv, Boot, LoadScript, SeedStock, Subscribe, LoadReserveScript, redisVars
<1>2. Told = {} /\ unheard \subseteq unheard' /\ AllSynced
  BY <1>1, Untold DEF SyncInv
<1>3. UNCHANGED stock => AllSynced'
  BY <1>2, <1>1 DEF AllSynced
<1>4. ASSUME SeedStock PROVE AllSynced'
  <2>1. \A j \in Item \ unheard' : j \notin Silenced
    BY <1>2 DEF Hears
  <2> QED
    BY <1>4, <2>1 DEF AllSynced, Silenced
<1>5. AllSynced'
  BY <1>3, <1>4 DEF Boot, LoadScript, LoadReserveScript, Subscribe, redisVars
<1>6. Quiet'
  BY <1>1 DEF Quiet, InFlight
<1>7. Known' /\ Solo' /\ Owing' /\ ExpiriesOwing'
  BY <1>1, <1>6 DEF SyncInv, Known, Solo, Owing, Owes, ExpiriesOwing, Quiet, InFlight
<1> QED
  BY <1>5, <1>6, <1>7 DEF SyncInv

(* Every step keeps the invariant.                                         *)
LEMMA SyncNext ==
  ASSUME OneHandlerAtATime, SyncInv, [HeardNext]_heardVars
  PROVE  SyncInv'
<1>0. HeardNext => Next /\ Hears
  BY DEF HeardNext, Hears
<1>1. Inv' /\ Separated'
  <2>1. [Next]_vars
    BY <1>0 DEF heardVars
  <2> QED
    BY <2>1, InvNext, SeparatedNext DEF SyncInv
<1>2. CASE UNCHANGED heardVars
  <2>1. UNCHANGED <<stock, key, shown, req, exp, server, unheard>>
    BY <1>2 DEF heardVars, vars
  <2> QED
    BY <1>1, <2>1 DEF SyncInv, Known, Solo, Owing, Owes, ExpiriesOwing, ExpiryOwes,
       AllSynced, SyncedBut, Quiet, InFlight
<1>3. ASSUME Hears, NEW r \in Request, Call(r) \/ Step(r) \/ KeyExpires(r)
      PROVE  SyncInv'
  BY <1>1, <1>3, CallSync, StepSync, KeyExpiresSync
<1>4. ASSUME Hears, NEW h \in exp, ExpireStep(h)
      PROVE  SyncInv'
  BY <1>1, <1>4, ExpireStepSync
<1>5. ~RedisByItself
  BY DEF OneHandlerAtATime, SyncInv, Inv, TypeOK, RedisTypeOK, RedisByItself, SnapshotRedis,
     RedisSaves, RestartRedis, RedisRestarts
<1> QED
  BY <1>0, <1>1, <1>2, <1>3, <1>4, <1>5, CrashSync, BootSync DEF Next

(* When handlers run one at a time, clients show the live counter of every *)
(* item whenever none is under way, whichever operations were called, and  *)
(* whichever commands failed or crashes happened, but for the items that a *)
(* handler which died had changed, or a boot has seeded, since the last    *)
(* broadcast: a handler that comes to its end has broadcast every counter  *)
(* that it changed, also the one it put back, and what it broadcast is the *)
(* count of the store.                                                     *)
THEOREM ClientsStayInSync == OneHandlerAtATime /\ HeardSpec => []ClientsInSync
<1> SUFFICES ASSUME OneHandlerAtATime PROVE HeardSpec => []ClientsInSync
  OBVIOUS
<1>1. HeardInit => SyncInv
  BY SyncInit
<1>2. SyncInv /\ [HeardNext]_heardVars => SyncInv'
  BY SyncNext
<1>3. SyncInv => ClientsInSync
  BY DEF SyncInv, AllSynced, ClientsInSync, Inv, TypeOK, RedisTypeOK
<1> QED
  BY <1>1, <1>2, <1>3, PTL DEF HeardSpec

=============================================================================

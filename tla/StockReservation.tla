-------------------------- MODULE StockReservation --------------------------
(***************************************************************************)
(* The Redis side of the store (StockReservationService.ts and             *)
(* reserveStock.lua): a live counter of available units per item, and a    *)
(* reservation key with a time to live per cart row.  Redis executes each  *)
(* command, and the Lua script as a whole, atomically, so every operator   *)
(* below is one step of whoever calls it.                                  *)
(*                                                                         *)
(* A cart row's id is an ObjectId generated by one request, and a request  *)
(* generates at most one, so the model names the row after the request.    *)
(* The value Redis keeps under a reservation key is never read.  Here a    *)
(* key that exists holds instead the request that last started its time to *)
(* live: that tells apart the successive lives of one key.                 *)
(*                                                                         *)
(* Redis itself may die and come back.  It then holds its last snapshot,   *)
(* or nothing if it never took one, and no longer the script: until the    *)
(* service loads it again, which only a boot of the server does, EVALSHA   *)
(* answers NOSCRIPT and reserve throws.  A counter that does not exist is  *)
(* 0 to every command of the service, so the model makes no difference.    *)
(***************************************************************************)
EXTENDS Integers

CONSTANTS Item,         \* the items of the catalogue
          Request,      \* the calls clients make, and the row ids they generate
          TotalStock,   \* the catalogue's totalStock of every item
          None,         \* absence: no key, no row, no value
          MaxRedisRestarts  \* how often Redis may be restarted

ASSUME TotalStockAssumption == TotalStock \in [Item -> Nat]

ASSUME NoneAssumption == None \notin Request \cup Item

ASSUME MaxRedisRestartsAssumption == MaxRedisRestarts \in Nat

VARIABLES stock,        \* stock:{itemId}, the available units
          key,          \* reservation:{cartItemId}
          script,       \* does Redis know the script whose SHA reserve uses?
          saved,        \* the last snapshot of the counters and keys
          restarts      \* how often Redis has been restarted

redisLife == <<script, saved, restarts>>
redisVars == <<stock, key, script, saved, restarts>>

RedisTypeOK ==
  /\ stock \in [Item -> Int]
  /\ key \in [Request -> Request \cup {None}]
  /\ script \in BOOLEAN
  /\ saved \in [stock : [Item -> Int], key : [Request -> Request \cup {None}]]
  /\ restarts \in Nat

(* What Redis holds when it starts without a snapshot. *)
Nothing == [stock |-> [i \in Item |-> 0], key |-> [c \in Request |-> None]]

(* The counters and keys after the first boot's seed: nothing reserved yet. *)
RedisInit ==
  /\ stock = TotalStock
  /\ key = [c \in Request |-> None]
  /\ script = TRUE
  /\ saved = Nothing
  /\ restarts = 0

(* Mistakes to be told apart from the three definitions that follow: a     *)
(* service that answers NOSCRIPT by loading its script again, an off-by-   *)
(* one in the check, and a script that forgets the reservation key.        *)
ScriptLoadedOnDemand == TRUE

CanReserveOneMore(i, q) == stock[i] + 1 >= q

ReserveWithoutKey(i, c, q, r) ==
  /\ stock[i] >= q
  /\ stock' = [stock EXCEPT ![i] = @ - q]
  /\ UNCHANGED <<key, redisLife>>

(* EVALSHA of the SHA that init kept. *)
ScriptKnown == script

(* reserveStock.lua: the check, the decrement and the SET are one script. *)
CanReserve(i, q) == stock[i] >= q

Reserve(i, c, q, r) ==
  /\ ScriptKnown
  /\ CanReserve(i, q)
  /\ stock' = [stock EXCEPT ![i] = @ - q]
  /\ key' = [key EXCEPT ![c] = r]
  /\ UNCHANGED redisLife

(* The script returns -1, or EVALSHA throws: nothing changes. *)
ReserveRefused(i, q) == ~ScriptKnown \/ ~CanReserve(i, q)

(* release, first command: INCRBY. *)
Release(i, q) == stock' = [stock EXCEPT ![i] = @ + q]

(* The DEL of clearReservationKey, and of release when the key must go. *)
Drop(c) == key' = [key EXCEPT ![c] = None]

(* refreshReservation: EXPIRE restarts the life of a key, if there is one. *)
Refresh(c, r) == key' = [key EXCEPT ![c] = IF @ = None THEN None ELSE r]

(* Redis removes a key whose time to live has passed. *)
TtlPasses(c) ==
  /\ key[c] # None
  /\ Drop(c)

(* seed: overwrites a counter unconditionally, never with less than zero.  *)
(* Boot and reset call it for the items they found in the catalogue.       *)
SeedValue(available) == IF available < 0 THEN 0 ELSE available

Seed(found, reserved) ==
  stock' = [i \in Item |-> IF i \in found
                           THEN SeedValue(TotalStock[i] - reserved[i])
                           ELSE stock[i]]

(* init: SCRIPT LOAD. *)
LoadReserveScript ==
  /\ script' = TRUE
  /\ UNCHANGED <<stock, key, saved, restarts>>

-----------------------------------------------------------------------------
(* Redis by itself: it saves a snapshot whenever it likes, and may come    *)
(* back with the last one.  Of the keys in it, those whose life has ended  *)
(* meanwhile are not loaded, and nobody is notified of them.               *)

RedisSaves ==
  /\ restarts < MaxRedisRestarts
  /\ saved' = [stock |-> stock, key |-> key]
  /\ UNCHANGED <<stock, key, script, restarts>>

RedisRestarts(ended) ==
  /\ restarts < MaxRedisRestarts
  /\ restarts' = restarts + 1
  /\ stock' = saved.stock
  /\ key' = [c \in Request |-> IF c \in ended THEN None ELSE saved.key[c]]
  /\ script' = FALSE
  /\ UNCHANGED saved
=============================================================================

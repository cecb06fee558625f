---------------------------- MODULE StockLedger -----------------------------
(***************************************************************************)
(* What the store promises its users: a book of units.  Every unit of an   *)
(* item is free, held by one user's cart, or sold.  Units move in three    *)
(* ways only: a user takes free units into his cart, units go back from    *)
(* his cart (he returns them, or the reservation expires), and a checkout  *)
(* sells all that his cart holds, at once.                                 *)
(***************************************************************************)
EXTENDS Integers

CONSTANTS Item, User, TotalStock

VARIABLES free,         \* the units of an item anybody may take
          held,         \* the units of an item a user's cart holds
          sold          \* the units of an item orders have sold

ledger == <<free, held, sold>>

Init ==
  /\ free = TotalStock
  /\ held = [u \in User |-> [i \in Item |-> 0]]
  /\ sold = [i \in Item |-> 0]

Take(u, i, q) ==
  /\ free[i] >= q
  /\ free' = [free EXCEPT ![i] = @ - q]
  /\ held' = [held EXCEPT ![u][i] = @ + q]
  /\ UNCHANGED sold

GiveBack(u, i, q) ==
  /\ held[u][i] >= q
  /\ free' = [free EXCEPT ![i] = @ + q]
  /\ held' = [held EXCEPT ![u][i] = @ - q]
  /\ UNCHANGED sold

Sell(u) ==
  /\ \E i \in Item : held[u][i] > 0
  /\ sold' = [i \in Item |-> sold[i] + held[u][i]]
  /\ held' = [held EXCEPT ![u] = [i \in Item |-> 0]]
  /\ UNCHANGED free

Next ==
  \E u \in User :
    \/ \E i \in Item : \/ \E q \in 1 .. free[i] : Take(u, i, q)
                       \/ \E q \in 1 .. held[u][i] : GiveBack(u, i, q)
    \/ Sell(u)

Spec == Init /\ [][Next]_ledger
=============================================================================

-------------------------- MODULE FlashSaleLedger ---------------------------
(***************************************************************************)
(* FlashSale implements StockLedger when the calls on one cart, and the    *)
(* expiry of its keys, do not overlap (Concurrency = "perCart"), while     *)
(* those on different carts interleave freely.  A unit moves in the ledger *)
(* at one command of the handler: taken by the reserve script, given back  *)
(* by INCRBY, sold by the creation of the order.  The cart rows follow     *)
(* with a delay, which the mapping of held makes up for.                   *)
(***************************************************************************)
EXTENDS FlashSale

(* Rows whose units have left the cart already, but which are still there. *)
Leaving(c) ==
  \/ \E r \in Request : req[r].pc \in {"drop", "delete"} /\ req[r].id = c
  \/ \E r \in Request : /\ req[r].pc \in {"clear", "empty"}
                        /\ \E row \in orders[r] : row.id = c
  \/ \E h \in exp : h.pc = "delete" /\ h.id = c

(* A user's handlers that hold reserved units without a row for them. *)
Reserving(u, i) == {r \in Request : /\ req[r].pc \in {"save", "undo"}
                                    /\ req[r].user = u
                                    /\ req[r].item = i}

(* Handlers that have given units of a row back, but not yet shrunk it. *)
Shrinking(u, i) == {r \in Request : /\ req[r].pc = "shrink"
                                    /\ req[r].user = u
                                    /\ req[r].item = i}

ArgUnits(R) == UNION {{r} \X (1 .. req[r].arg) : r \in R}

HeldBy(u, i) ==
  QtyOf({row \in FindInCart(u, i) : ~Leaving(row.id)})
  + Cardinality(ArgUnits(Reserving(u, i)))
  - Cardinality(ArgUnits(Shrinking(u, i)))

Ledger == INSTANCE StockLedger WITH
            free <- stock,
            held <- [u \in User |-> [i \in Item |-> HeldBy(u, i)]],
            sold <- [i \in Item |-> Sold(i)]

(* Every step of every handler is one movement of the ledger or none: in   *)
(* particular a rejected or rolled back request moves nothing, a checkout  *)
(* sells exactly the cart, and no unit moves twice.                        *)
ImplementsLedger == Ledger!Spec
=============================================================================

---------------------------- MODULE MCStorefront ----------------------------
(* Instances of Storefront for TLC. *)
EXTENDS Storefront

CONSTANTS i1, i2,       \* the items
          Stock,        \* totalStock of i1
          Extra,        \* the units of i1 that failures may add
          Pages         \* 1, or 2: then each item is on a page of its own

MCTotalStock == [i \in Item |-> IF i = i1 THEN Stock ELSE 1]

MCMaxUnits == [i \in Item |-> IF i = i1 THEN Stock + Extra ELSE 1]

MCPageOf == [i \in Item |-> IF i = i1 THEN 1 ELSE Pages]
=============================================================================

------------------------------- MODULE MCShop -------------------------------
(* Instances of Shop for TLC. *)
EXTENDS Shop, TLC

CONSTANTS Stock,        \* the same totalStock for every item
          i1, i2, i3, j1, j2, j3,
          Alice, alice, alicePadded, blank

MCTotalStock == [i \in Item |-> Stock]

(* Two insertMany: the first boot's or reset's, and the one that follows. *)
MCBatch == <<<<i1, i2, i3>>, <<j1, j2, j3>>>>

MCPrice == [i \in Item |-> IF i = i1 THEN 2 ELSE 1]

MCTrim == [t \in Typed |-> IF t = blank THEN None ELSE Alice]

(* Items differ in their place in a batch, and blank from the other names. *)
Symmetry == Permutations(Request) \cup Permutations(User)
            \cup Permutations(Login)
=============================================================================

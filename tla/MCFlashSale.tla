---------------------------- MODULE MCFlashSale -----------------------------
(* Instances of FlashSale for TLC. *)
EXTENDS FlashSaleLedger, TLC

CONSTANT Stock          \* the same totalStock for every item

MCTotalStock == [i \in Item |-> Stock]

(* Requests differ in nothing before they arrive; so do users and items. *)
Symmetry == Permutations(Request) \cup Permutations(User)
            \cup Permutations(Item)
=============================================================================

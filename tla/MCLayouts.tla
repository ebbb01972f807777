------------------------------ MODULE MCLayouts ------------------------------
(* One date's plan: stalls are named after two versions and few slots, at one
   paid price. *)
EXTENDS DateLayouts, TLC

CONSTANTS b1, k1, k2, m1, m2, s1, s2

MCOffer == (1..MaxVersion) \X Slot
MCPrice == {1}

Symmetric == Permutations(Manager) \cup Permutations(RequestKey) \cup Permutations(Slot)
=============================================================================

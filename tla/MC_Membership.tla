--------------------------- MODULE MC_Membership ---------------------------
(* Membership on small instances: requests and users are interchangeable.    *)
EXTENDS Membership, TLC

Symmetry == Permutations(Tasks) \cup Permutations(Users \ {Owner})
=============================================================================

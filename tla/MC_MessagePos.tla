--------------------------- MODULE MC_MessagePos ---------------------------
(* MessagePos on small instances: ids, texts and requests are model values.  *)
EXTENDS MessagePos, TLC

Symmetry == Permutations(Reqs) \cup Permutations(FreshIds) \cup Permutations(Texts)
=============================================================================

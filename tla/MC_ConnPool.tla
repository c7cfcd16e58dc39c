---------------------------- MODULE MC_ConnPool ----------------------------
(* ConnPool on small instances: clients and connections are model values.    *)
EXTENDS ConnPool, TLC

Symmetry == Permutations(Clients) \cup Permutations(Conns)
=============================================================================

----------------------------- MODULE MC_Mailbox -----------------------------
(* Mailbox on small instances: tasks, events and objects are model values.   *)
EXTENDS Mailbox, TLC

Symmetry == Permutations(Subs) \cup Permutations(Pubs) \cup Permutations(Messages)
=============================================================================

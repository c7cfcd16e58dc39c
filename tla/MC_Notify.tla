------------------------------ MODULE MC_Notify ------------------------------
(* Notify on small instances: requests, texts and places are model values.   *)
EXTENDS Notify, TLC
=============================================================================

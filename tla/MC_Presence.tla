----------------------------- MODULE MC_Presence -----------------------------
(* Presence on small instances: users and connections are model values.      *)
EXTENDS Presence, TLC
=============================================================================

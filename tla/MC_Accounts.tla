----------------------------- MODULE MC_Accounts -----------------------------
(* Instances of Accounts for TLC. *)
EXTENDS Accounts, TLC

OneUser == [e \in Emails |-> CHOOSE u \in Users : TRUE]
=============================================================================

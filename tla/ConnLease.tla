------------------------------ MODULE ConnLease ------------------------------
(***************************************************************************)
(* What the users of a connection pool rely on, and nothing of how it is   *)
(* kept: a connection is lent to one client at a time, comes back before   *)
(* it is lent again, and is not lent again once it is broken.              *)
(***************************************************************************)
CONSTANTS Clients, Conns,
          Free       \* not a client: the connection is with nobody

VARIABLES holder,   \* who a connection is lent to
          dead      \* connections found broken and not yet replaced

leaseVars == <<holder, dead>>

LeaseInit == /\ holder = [k \in Conns |-> Free]
             /\ dead = {}

Lend(c, k) == /\ holder[k] = Free /\ k \notin dead
              /\ \A j \in Conns : holder[j] # c
              /\ holder' = [holder EXCEPT ![k] = c]
              /\ UNCHANGED dead

Return(c, k) == /\ holder[k] = c
                /\ holder' = [holder EXCEPT ![k] = Free]
                /\ UNCHANGED dead

Fail(c, k) == /\ holder[k] = c
              /\ dead' = dead \cup {k}
              /\ UNCHANGED holder

\* A broken connection is closed; its name may stand for a new one.
Discard(k) == /\ holder[k] = Free /\ k \in dead
              /\ dead' = dead \ {k}
              /\ UNCHANGED holder

LeaseNext == \/ \E c \in Clients, k \in Conns : Lend(c, k) \/ Return(c, k) \/ Fail(c, k)
             \/ \E k \in Conns : Discard(k)

LeaseSpec == LeaseInit /\ [][LeaseNext]_leaseVars
=============================================================================

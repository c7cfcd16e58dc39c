------------------------------ MODULE Presence ------------------------------
(***************************************************************************)
(* Who is online in one space: the Redis hash space:<id>:heartbeat         *)
(* (Event::status, space_users_status), the websocket task that writes it  *)
(* for its client and writes Offline when it ends (events/handlers.rs),    *)
(* the StatusMap events it pushes, and the task that pushes the whole map  *)
(* every four seconds (events/tasks.rs).                                   *)
(*                                                                         *)
(* HGET, HSET and HGETALL are three commands, so that calls of status      *)
(* interleave.  A StatusMap is broadcast by a task of its own, so that the *)
(* maps may overtake each other.  Of a status only the kind is kept: its   *)
(* timestamp and focus are never compared.                                 *)
(***************************************************************************)
EXTENDS Naturals, FiniteSets

CONSTANTS Users,      \* members of the space
          Conns,      \* websocket connections
          NoUser,     \* user of a connection that is not there
          NoMap,      \* nothing to broadcast
          Said,       \* kinds that clients announce
          MaxCalls,   \* bound: connections opened and statuses announced
          MaxFaults   \* bound: Redis errors and restarts

Offline == "Offline"
None == "None"        \* no field in the hash
Present == Said \ {Offline}
Kinds == Said \cup {Offline}
Ticker == "ticker"

ASSUME UsersAssumption == NoUser \notin Users /\ Users # {}
ASSUME KindsAssumption == Said \subseteq {"Offline", "Away", "Online"}
ASSUME ConnsAssumption == Ticker \notin Conns /\ NoUser \notin Conns
ASSUME BoundsAssumption == MaxCalls \in Nat /\ MaxFaults \in Nat

Maps == [Users -> Kinds \cup {None}]
Sources == Conns \cup {Ticker}

VARIABLES status,   \* the hash: the kind stored for each user
          late,     \* HSETs sent to Redis by a call that was abandoned
          conn,     \* where each websocket task is, and its locals
          push,     \* the StatusMap of each source that is not broadcast yet; bound:
                    \* one each, though every push has a task of its own
          view,     \* the last StatusMap broadcast: what the clients show
          ticker,   \* whether the task push_status runs
          ghost,    \* history: why a user without a connection may show as present
          calls, faults

vars == <<status, late, conn, push, view, ticker, ghost, calls, faults>>

Off == [pc |-> "off", user |-> NoUser, gone |-> FALSE, kind |-> Offline,
        closing |-> FALSE, changed |-> TRUE, raced |-> FALSE]

\* gone: the client is not there any more; closing: the task writes its Offline;
\* raced (history): another call wrote for the user between our HGET and HSET.
Conn == [pc : {"off", "open", "get", "set", "all"}, user : Users \cup {NoUser},
         gone : BOOLEAN, kind : Kinds, closing : BOOLEAN, changed : BOOLEAN,
         raced : BOOLEAN]

Init ==
  /\ status = [u \in Users |-> None]
  /\ late = {}
  /\ conn = [c \in Conns |-> Off]
  /\ push = [s \in Sources |-> NoMap]
  /\ view = [u \in Users |-> None]
  /\ ticker = "runs"
  /\ ghost = [u \in Users |-> FALSE]
  /\ calls = 0 /\ faults = 0

Connected(u) == {c \in Conns : conn[c].user = u}

-----------------------------------------------------------------------------
(* Clients.                                                                *)

Open(c) ==                               \* GET /events/connect by a member
  /\ conn[c].pc = "off" /\ calls < MaxCalls
  /\ \E u \in Users : conn' = [conn EXCEPT ![c] = [Off EXCEPT !.pc = "open", !.user = u]]
  /\ calls' = calls + 1
  /\ UNCHANGED <<status, late, push, view, ticker, ghost, faults>>

\* A status call begins: timestamp, kind and focus are arguments, changed is TRUE.
Call(c, k, closing) ==
  conn' = [conn EXCEPT ![c].pc = "get", ![c].kind = k, ![c].closing = closing,
                       ![c].changed = TRUE, ![c].raced = FALSE]

\* ClientEvent::Status.  The receive loop handles one message at a time.
Announce(c) ==
  /\ conn[c].pc = "open" /\ ~conn[c].gone /\ calls < MaxCalls
  /\ \E k \in Said : Call(c, k, FALSE)
  /\ calls' = calls + 1
  /\ UNCHANGED <<status, late, push, view, ticker, ghost, faults>>

Vanish(c) ==                             \* the client closes, or its network is lost
  /\ conn[c].pc # "off" /\ ~conn[c].gone
  /\ conn' = [conn EXCEPT ![c].gone = TRUE]
  /\ UNCHANGED <<status, late, push, view, ticker, ghost, calls, faults>>

-----------------------------------------------------------------------------
(* Event::status.                                                          *)

Return(c) == [conn EXCEPT ![c] = IF conn[c].closing THEN Off
                                 ELSE [@ EXCEPT !.pc = "open"]]

HGet(c) ==
  /\ conn[c].pc = "get"
  /\ LET old == status[conn[c].user]
     IN conn' = [conn EXCEPT ![c].pc = "set",
                             ![c].changed = (old = None \/ old # conn[c].kind)]
  /\ UNCHANGED <<status, late, push, view, ticker, ghost, calls, faults>>

\* Calls of u, other than that of c, that have read the hash and not written it.
Reading(f, u, c) == [d \in Conns |->
  IF d # c /\ f[d].user = u /\ f[d].pc = "set" THEN [f[d] EXCEPT !.raced = TRUE] ELSE f[d]]

\* HSET answers whether the field is new.  Defect: only a change of an old value
\* is worth a push.
HSetOld(c) ==
  /\ conn[c].pc = "set"
  /\ LET u == conn[c].user
         next == IF conn[c].changed /\ status[u] # None
                 THEN [conn EXCEPT ![c].pc = "all"] ELSE Return(c)
     IN /\ status' = [status EXCEPT ![u] = conn[c].kind]
        /\ conn' = Reading(next, u, c)
        /\ ghost' = [ghost EXCEPT ![u] = FALSE]
  /\ UNCHANGED <<late, push, view, ticker, calls, faults>>

HSet(c) ==
  /\ conn[c].pc = "set"
  /\ LET u == conn[c].user
         created == status[u] = None
         next == IF created \/ conn[c].changed
                 THEN [conn EXCEPT ![c].pc = "all"] ELSE Return(c)
     IN /\ status' = [status EXCEPT ![u] = conn[c].kind]
        /\ conn' = Reading(next, u, c)
        /\ ghost' = [ghost EXCEPT ![u] = FALSE]
  /\ UNCHANGED <<late, push, view, ticker, calls, faults>>

\* Event::push_status: HGETALL, then a task is spawned to broadcast the map.
HGetAll(c) ==
  /\ conn[c].pc = "all" /\ push[c] = NoMap
  /\ push' = [push EXCEPT ![c] = status]
  /\ conn' = Return(c)
  /\ UNCHANGED <<status, late, view, ticker, ghost, calls, faults>>

Broadcast(s) ==                          \* Event::transient
  /\ push[s] # NoMap
  /\ view' = push[s]
  /\ push' = [push EXCEPT ![s] = NoMap]
  /\ UNCHANGED <<status, late, conn, ticker, ghost, calls, faults>>

-----------------------------------------------------------------------------
(* The websocket task ends: select, then status(Offline).                  *)

\* Defect: the end of the client's stream ends the task at once.
ReceiveEndsSilently(c) ==
  /\ conn[c].pc = "open" /\ conn[c].gone
  /\ conn' = [conn EXCEPT ![c] = Off]
  /\ UNCHANGED <<status, late, push, view, ticker, ghost, calls, faults>>

\* Defect: no time-out on the stream: a client whose network is lost stays.
ReceiveNeverEnds(c) == FALSE /\ UNCHANGED vars

\* The stream of the client ends, or says nothing for 40 seconds.
ReceiveEnds(c) ==
  /\ conn[c].pc = "open" /\ conn[c].gone
  /\ Call(c, Offline, TRUE)
  /\ UNCHANGED <<status, late, push, view, ticker, ghost, calls, faults>>

\* push_events fails to send to the client.  The receive loop is not polled any
\* more, whatever it was doing: an HSET that is on its way still reaches Redis.
PushEnds(c) ==
  /\ conn[c].pc # "off" /\ conn[c].gone /\ ~conn[c].closing
  /\ \/ late' = late
     \/ conn[c].pc = "set" /\ late' = late \cup {[user |-> conn[c].user, kind |-> conn[c].kind]}
  /\ Call(c, Offline, TRUE)
  /\ UNCHANGED <<status, push, view, ticker, ghost, calls, faults>>

LateHSet ==
  \E w \in late :
    /\ late' = late \ {w}
    /\ status' = [status EXCEPT ![w.user] = w.kind]
    /\ conn' = Reading(conn, w.user, NoUser)
    /\ ghost' = [ghost EXCEPT ![w.user] = TRUE]
    /\ UNCHANGED <<push, view, ticker, calls, faults>>

-----------------------------------------------------------------------------
(* The task push_status.                                                   *)

\* Defect: the task ends after its first round.
TickOnce ==
  /\ ticker = "runs" /\ push[Ticker] = NoMap
  /\ push' = [push EXCEPT ![Ticker] = status]
  /\ ticker' = "ended"
  /\ UNCHANGED <<status, late, conn, view, ghost, calls, faults>>

Tick ==
  /\ ticker = "runs" /\ push[Ticker] = NoMap
  /\ push' = [push EXCEPT ![Ticker] = status]
  /\ UNCHANGED <<status, late, conn, view, ticker, ghost, calls, faults>>

-----------------------------------------------------------------------------
(* Faults.                                                                 *)

Fault == faults < MaxFaults /\ faults' = faults + 1

\* A command fails: status returns its error.  The receive loop logs it and goes
\* on, a closing task is over and its Offline may be lost; HSET may have worked.
RedisError(c) ==
  /\ Fault
  /\ conn[c].pc \in {"get", "set", "all"}
  /\ LET u == conn[c].user IN
       \/ /\ conn' = Return(c)
          /\ ghost' = [ghost EXCEPT ![u] = @ \/ (conn[c].closing /\ conn[c].pc # "all")]
          /\ UNCHANGED status
       \/ /\ conn[c].pc = "set"
          /\ status' = [status EXCEPT ![u] = conn[c].kind]
          /\ conn' = Reading(Return(c), u, c)
          /\ UNCHANGED ghost
  /\ UNCHANGED <<late, push, view, ticker, calls>>

\* cache::conn() panics when Redis does not answer: the task is gone, nobody
\* starts it again.
ConnectPanic(c) ==
  /\ Fault
  /\ conn[c].pc = "get"
  /\ conn' = [conn EXCEPT ![c] = Off]
  /\ ghost' = [ghost EXCEPT ![conn[c].user] = TRUE]
  /\ UNCHANGED <<status, late, push, view, ticker, calls>>

TickPanic ==
  /\ Fault
  /\ ticker = "runs" /\ ticker' = "dead"
  /\ UNCHANGED <<status, late, conn, push, view, ghost, calls>>

\* The process restarts.  The hash has no expiry and stays.
Restart ==
  /\ Fault
  /\ conn' = [c \in Conns |-> Off]
  /\ push' = [s \in Sources |-> NoMap]
  /\ ticker' = "runs"
  /\ late' \in SUBSET late
  /\ ghost' = [u \in Users |-> ghost[u] \/ Connected(u) # {}]
  /\ UNCHANGED <<status, view, calls>>

-----------------------------------------------------------------------------
Status(c) == HGet(c) \/ HSet(c) \/ HGetAll(c)

Next ==
  \/ \E c \in Conns : \/ Open(c) \/ Announce(c) \/ Vanish(c) \/ Status(c)
                      \/ ReceiveEnds(c) \/ PushEnds(c)
                      \/ RedisError(c) \/ ConnectPanic(c)
  \/ \E s \in Sources : Broadcast(s)
  \/ LateHSet \/ Tick \/ TickPanic \/ Restart

Spec == Init /\ [][Next]_vars

\* The runtime polls every task, timers fire, Redis executes what it was sent.
\* Nothing is assumed of the clients.
FairSpec ==
  /\ Spec
  /\ \A c \in Conns : WF_vars(Status(c) \/ ReceiveEnds(c))
  /\ \A s \in Sources : WF_vars(Broadcast(s))
  /\ WF_vars(LateHSet) /\ WF_vars(Tick)

-----------------------------------------------------------------------------
(* Properties.                                                             *)

TypeOK ==
  /\ status \in Maps /\ view \in Maps
  /\ late \in SUBSET [user : Users, kind : Kinds]
  /\ conn \in [Conns -> Conn]
  /\ push \in [Sources -> Maps \cup {NoMap}]
  /\ ticker \in {"runs", "dead"}
  /\ ghost \in [Users -> BOOLEAN]
  /\ calls \in 0 .. MaxCalls /\ faults \in 0 .. MaxFaults

\* A user the hash has as present has a connection, or the Offline of the last one
\* was lost: to a restart, to Redis, or to an HSET of an abandoned call after it.
GhostFree ==
  \A u \in Users : status[u] \in Present /\ Connected(u) = {} => ghost[u]

\* A status call that changes the stored kind goes on to push the map, unless
\* another call of the user wrote between its HGET and its HSET.
ChangeIsPushed ==
  [][\A c \in Conns :
       HSet(c) /\ status' # status => conn'[c].pc = "all" \/ conn[c].raced]_vars

\* Whatever calls missed a change and in whichever order the maps were broadcast,
\* the clients come to show what the hash has, as long as push_status runs.
StatusConverges == <>[](ticker # "dead" => view = status)

\* A user who has no client left is shown as gone in the end, however the client
\* went: it takes the time-out, the Offline, and a push that is not overtaken.
NoClient(u) == \A c \in Connected(u) : conn[c].gone
GoneIsSeen ==
  \A u \in Users :
    <>[]NoClient(u) => <>[](view[u] \in Present => ghost[u] \/ ticker = "dead")
=============================================================================

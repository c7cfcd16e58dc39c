--------------------------- MODULE Presence_proofs ---------------------------
(***************************************************************************)
(* Theorems about Presence, for every set of users and connections, every  *)
(* choice of statuses and every bound: its types, that a user without a    *)
(* connection is not stored as present unless the Offline was lost, and    *)
(* that a change of status is pushed.                                      *)
(***************************************************************************)
EXTENDS Presence, TLAPS

\* The task of a connection still has a write to do that will not leave its user
\* present, or will be followed by one: it has not written its Offline.
Owes(c) == conn[c].pc # "off" /\ ~(conn[c].closing /\ conn[c].pc = "all")

\* A task that is there has a user, and one that closes writes Offline.
Control ==
  \A c \in Conns :
    /\ conn[c].user = NoUser <=> conn[c].pc = "off"
    /\ conn[c].closing => conn[c].kind = Offline /\ conn[c].pc \in {"get", "set", "all"}

\* Who is stored as present has a task that will write Offline, or it was lost.
Accounted ==
  \A u \in Users :
    status[u] \in Present => ghost[u] \/ \E c \in Conns : conn[c].user = u /\ Owes(c)

\* A call that found nothing to push will write what is stored, unless it was raced.
Unchanged ==
  \A c \in Conns :
    conn[c].pc = "set" /\ ~conn[c].raced =>
      conn[c].changed \/ status[conn[c].user] = conn[c].kind

Inv == TypeOK /\ Control /\ Accounted /\ Unchanged

-----------------------------------------------------------------------------
LEMMA OffType == Off \in Conn
BY DEF Off, Conn, Kinds, Offline

\* The end of a status call changes nothing but the place of its task.
LEMMA ReturnType ==
  ASSUME Inv, NEW c \in Conns
  PROVE  /\ Return(c) \in [Conns -> Conn]
         /\ \A d \in Conns \ {c} : Return(c)[d] = conn[d]
         /\ conn[c].closing => Return(c)[c] = Off
         /\ ~conn[c].closing => Return(c)[c] = [conn[c] EXCEPT !.pc = "open"]
<1>1. conn \in [Conns -> Conn]
  BY DEF Inv, TypeOK
<1>2. [conn[c] EXCEPT !.pc = "open"] \in Conn
  BY <1>1 DEF Conn
<1> QED BY <1>1, <1>2, OffType DEF Return

\* Reading marks the calls of a user that a write overtakes, and nothing else.
LEMMA ReadingMarks ==
  ASSUME NEW f \in [Conns -> Conn], NEW u, NEW c
  PROVE  /\ Reading(f, u, c) \in [Conns -> Conn]
         /\ \A d \in Conns :
              /\ Reading(f, u, c)[d].pc = f[d].pc
              /\ Reading(f, u, c)[d].user = f[d].user
              /\ Reading(f, u, c)[d].kind = f[d].kind
              /\ Reading(f, u, c)[d].closing = f[d].closing
              /\ Reading(f, u, c)[d].changed = f[d].changed
              /\ f[d].raced => Reading(f, u, c)[d].raced
              /\ d # c /\ f[d].user = u /\ f[d].pc = "set" => Reading(f, u, c)[d].raced
<1>1. \A d \in Conns : f[d] \in Conn
  OBVIOUS
<1>2. \A d \in Conns : Reading(f, u, c)[d] =
        IF d # c /\ f[d].user = u /\ f[d].pc = "set"
        THEN [f[d] EXCEPT !.raced = TRUE] ELSE f[d]
  BY DEF Reading
<1>3. \A e \in Conn :
        /\ [e EXCEPT !.raced = TRUE] \in Conn
        /\ LET g == [e EXCEPT !.raced = TRUE]
           IN /\ g.pc = e.pc /\ g.user = e.user /\ g.kind = e.kind
              /\ g.closing = e.closing /\ g.changed = e.changed /\ g.raced
  BY DEF Conn
<1>4. Reading(f, u, c) \in [Conns -> Conn]
  <2>1. Reading(f, u, c) = [d \in Conns |-> Reading(f, u, c)[d]]
    BY DEF Reading
  <2>2. \A d \in Conns : Reading(f, u, c)[d] \in Conn
    BY <1>1, <1>2, <1>3
  <2> QED BY <2>1, <2>2
<1>5. ASSUME NEW d \in Conns
      PROVE  /\ Reading(f, u, c)[d].pc = f[d].pc
             /\ Reading(f, u, c)[d].user = f[d].user
             /\ Reading(f, u, c)[d].kind = f[d].kind
             /\ Reading(f, u, c)[d].closing = f[d].closing
             /\ Reading(f, u, c)[d].changed = f[d].changed
             /\ f[d].raced => Reading(f, u, c)[d].raced
             /\ d # c /\ f[d].user = u /\ f[d].pc = "set" => Reading(f, u, c)[d].raced
  <2>1. CASE d # c /\ f[d].user = u /\ f[d].pc = "set"
    BY <2>1, <1>1, <1>2, <1>3
  <2>2. CASE ~(d # c /\ f[d].user = u /\ f[d].pc = "set")
    BY <2>2, <1>2
  <2> QED BY <2>1, <2>2
<1> QED BY <1>4, <1>5

LEMMA InitInv == Init => Inv
<1> SUFFICES ASSUME Init PROVE Inv
  OBVIOUS
<1>1. TypeOK
  BY OffType, BoundsAssumption DEF Init, TypeOK, Maps
<1>2. Control /\ Accounted /\ Unchanged
  BY KindsAssumption DEF Init, Control, Accounted, Unchanged, Off, None, Present, Offline
<1> QED BY <1>1, <1>2 DEF Inv

-----------------------------------------------------------------------------
(* Two kinds of step.                                                      *)

\* A step of one task that leaves the hash alone: it still owes what it owed, or
\* that is recorded as lost.
LEMMA TaskStep ==
  ASSUME Inv, NEW c \in Conns,
         UNCHANGED status, \A u \in Users : ghost[u] => ghost'[u],
         conn' \in [Conns -> Conn],
         \A d \in Conns \ {c} : conn'[d] = conn[d],
         conn'[c].user = NoUser <=> conn'[c].pc = "off",
         conn'[c].closing => conn'[c].kind = Offline /\ conn'[c].pc \in {"get", "set", "all"},
         Owes(c) => \/ ghost'[conn[c].user]
                    \/ conn'[c].user = conn[c].user /\ Owes(c)',
         conn'[c].pc = "set" /\ ~conn'[c].raced =>
           conn'[c].changed \/ status[conn'[c].user] = conn'[c].kind
  PROVE  Control' /\ Accounted' /\ Unchanged'
<1>1. Control'
  BY DEF Inv, Control
<1>2. Accounted'
  <2> SUFFICES ASSUME NEW u \in Users, status[u] \in Present, ~ghost'[u]
               PROVE  \E d \in Conns : conn'[d].user = u /\ Owes(d)'
    BY DEF Accounted
  <2>1. PICK d \in Conns : conn[d].user = u /\ Owes(d)
    BY DEF Inv, Accounted
  <2>2. CASE d = c
    BY <2>1, <2>2
  <2>3. CASE d # c
    BY <2>1, <2>3 DEF Owes
  <2> QED BY <2>2, <2>3
<1>3. Unchanged'
  BY DEF Inv, Unchanged
<1> QED BY <1>1, <1>2, <1>3

\* A write for a user: the calls of the user that are between their HGET and their
\* HSET are marked, and the task that wrote, if there is one, goes on with its call.
LEMMA WriteStep ==
  ASSUME Inv, NEW u \in Users, NEW k \in Kinds, NEW c, NEW f \in [Conns -> Conn],
         \A d \in Conns : d # c => f[d] = conn[d],
         c \in Conns =>
           /\ conn[c].user = u
           /\ f[c].pc # "set"
           /\ f[c].user = NoUser <=> f[c].pc = "off"
           /\ f[c].closing => f[c].kind = Offline /\ f[c].pc = "all",
         status' = [status EXCEPT ![u] = k],
         conn' = Reading(f, u, c),
         \A v \in Users : v # u => ghost'[v] = ghost[v],
         k \in Present => \/ ghost'[u]
                          \/ c \in Conns /\ f[c].user = u /\ f[c].pc # "off" /\ ~f[c].closing
  PROVE  Control' /\ Accounted' /\ Unchanged' /\ conn' \in [Conns -> Conn]
<1>1. /\ conn' \in [Conns -> Conn]
      /\ \A d \in Conns :
           /\ conn'[d].pc = f[d].pc
           /\ conn'[d].user = f[d].user
           /\ conn'[d].kind = f[d].kind
           /\ conn'[d].closing = f[d].closing
           /\ conn'[d].changed = f[d].changed
           /\ f[d].raced => conn'[d].raced
           /\ d # c /\ f[d].user = u /\ f[d].pc = "set" => conn'[d].raced
  BY ReadingMarks
<1>2. Control'
  <2> SUFFICES ASSUME NEW d \in Conns
               PROVE  /\ conn'[d].user = NoUser <=> conn'[d].pc = "off"
                      /\ conn'[d].closing =>
                           conn'[d].kind = Offline /\ conn'[d].pc \in {"get", "set", "all"}
    BY DEF Control
  <2>1. CASE d = c
    BY <1>1, <2>1
  <2>2. CASE d # c
    BY <1>1, <2>2 DEF Inv, Control
  <2> QED BY <2>1, <2>2
<1>3. status \in [Users -> Kinds \cup {None}]
  BY DEF Inv, TypeOK, Maps
<1>4. Accounted'
  <2> SUFFICES ASSUME NEW v \in Users, status'[v] \in Present, ~ghost'[v]
               PROVE  \E d \in Conns : conn'[d].user = v /\ Owes(d)'
    BY DEF Accounted
  <2>1. CASE v = u
    BY <1>1, <1>3, <2>1 DEF Owes
  <2>2. CASE v # u
    <3>1. PICK d \in Conns : conn[d].user = v /\ Owes(d)
      BY <1>3, <2>2 DEF Inv, Accounted
    <3>2. d # c
      BY <2>2, <3>1
    <3> QED BY <1>1, <3>1, <3>2 DEF Owes
  <2> QED BY <2>1, <2>2
<1>5. Unchanged'
  <2> SUFFICES ASSUME NEW d \in Conns, conn'[d].pc = "set", ~conn'[d].raced
               PROVE  conn'[d].changed \/ status'[conn'[d].user] = conn'[d].kind
    BY DEF Unchanged
  <2>1. d # c
    BY <1>1
  <2>2. f[d] = conn[d]
    BY <2>1
  <2>3. conn[d].user # u
    BY <1>1, <2>1, <2>2
  <2>4. status'[conn[d].user] = status[conn[d].user]
    BY <1>3, <2>3
  <2>5. ~conn[d].raced
    BY <1>1, <2>2
  <2> QED BY <1>1, <2>2, <2>4, <2>5 DEF Inv, Unchanged
<1> QED BY <1>1, <1>2, <1>4, <1>5

-----------------------------------------------------------------------------
\* What the steps do to the record of one task.
LEMMA OpenRecord ==
  ASSUME NEW u \in Users
  PROVE  LET g == [Off EXCEPT !.pc = "open", !.user = u]
         IN g \in Conn /\ g.pc = "open" /\ g.user = u /\ ~g.closing
BY DEF Conn, Off, Kinds

LEMMA GoneRecord ==
  ASSUME NEW e \in Conn
  PROVE  LET g == [e EXCEPT !.gone = TRUE]
         IN /\ g \in Conn /\ g.pc = e.pc /\ g.user = e.user /\ g.kind = e.kind
            /\ g.closing = e.closing /\ g.changed = e.changed /\ g.raced = e.raced
BY DEF Conn

LEMMA CallType ==
  ASSUME Inv, NEW c \in Conns, NEW k \in Kinds, NEW b \in BOOLEAN, Call(c, k, b)
  PROVE  /\ conn' \in [Conns -> Conn]
         /\ \A d \in Conns \ {c} : conn'[d] = conn[d]
         /\ conn'[c].pc = "get" /\ conn'[c].closing = b /\ conn'[c].kind = k
         /\ conn'[c].user = conn[c].user
<1> DEFINE g == [conn[c] EXCEPT !.pc = "get", !.kind = k, !.closing = b, !.changed = TRUE,
                                !.raced = FALSE]
<1>1. conn \in [Conns -> Conn]
  BY DEF Inv, TypeOK
<1>2. conn' = [conn EXCEPT ![c] = g]
  BY DEF Call
<1>3. g \in Conn /\ g.pc = "get" /\ g.user = conn[c].user /\ g.kind = k /\ g.closing = b
  <2>1. conn[c] \in Conn
    BY <1>1
  <2> QED BY <2>1 DEF Conn
<1> HIDE DEF g
<1> QED BY <1>1, <1>2, <1>3

\* A step that leaves all but the tasks and the counters of the bounds alone.
LEMMA OthersTyped ==
  ASSUME Inv, conn' \in [Conns -> Conn], calls' \in 0 .. MaxCalls, faults' \in 0 .. MaxFaults,
         ghost' \in [Users -> BOOLEAN], UNCHANGED <<status, late, push, view, ticker>>
  PROVE  TypeOK'
BY DEF Inv, TypeOK

\* The bounds are not passed.
LEMMA BoundsKept ==
  ASSUME Inv
  PROVE  /\ calls \in 0 .. MaxCalls /\ faults \in 0 .. MaxFaults
         /\ calls < MaxCalls => calls + 1 \in 0 .. MaxCalls
         /\ faults < MaxFaults => faults + 1 \in 0 .. MaxFaults
BY BoundsAssumption DEF Inv, TypeOK

LEMMA GhostType == ASSUME Inv PROVE ghost \in [Users -> BOOLEAN]
BY DEF Inv, TypeOK

\* The user of a task that is there.
LEMMA HasUser ==
  ASSUME Inv, NEW c \in Conns, conn[c].pc # "off"
  PROVE  conn[c].user \in Users /\ conn[c].user # NoUser /\ conn[c] \in Conn
BY DEF Inv, TypeOK, Control, Conn

-----------------------------------------------------------------------------
LEMMA ClientSteps ==
  ASSUME Inv, NEW c \in Conns, Open(c) \/ Announce(c) \/ Vanish(c)
  PROVE  Inv'
<1>0. conn \in [Conns -> Conn]
  BY DEF Inv, TypeOK
<1>1. CASE Open(c)
  <2>1. PICK u \in Users : conn' = [conn EXCEPT ![c] = [Off EXCEPT !.pc = "open", !.user = u]]
    BY <1>1 DEF Open
  <2> DEFINE g == [Off EXCEPT !.pc = "open", !.user = u]
  <2>2. g \in Conn /\ g.pc = "open" /\ g.user = u /\ ~g.closing
    BY OpenRecord
  <2>3. conn[c].pc = "off" /\ UNCHANGED <<status, late, push, view, ticker, ghost, faults>>
        /\ calls < MaxCalls /\ calls' = calls + 1
    BY <1>1 DEF Open
  <2> HIDE DEF g
  <2>4. conn' \in [Conns -> Conn] /\ conn'[c] = g /\ \A d \in Conns \ {c} : conn'[d] = conn[d]
    BY <1>0, <2>1, <2>2 DEF g
  <2>5. TypeOK'
    BY <2>3, <2>4, OthersTyped, BoundsKept, GhostType
  <2>6. ~Owes(c)
    BY <2>3 DEF Owes
  <2>7. Control' /\ Accounted' /\ Unchanged'
    BY <2>2, <2>3, <2>4, <2>6, TaskStep, UsersAssumption
  <2> QED BY <2>5, <2>7 DEF Inv
<1>2. CASE Announce(c)
  <2>1. PICK k \in Said : Call(c, k, FALSE)
    BY <1>2 DEF Announce
  <2>2. conn[c].pc = "open" /\ UNCHANGED <<status, late, push, view, ticker, ghost, faults>>
        /\ calls < MaxCalls /\ calls' = calls + 1
    BY <1>2 DEF Announce
  <2>3. /\ conn' \in [Conns -> Conn]
        /\ \A d \in Conns \ {c} : conn'[d] = conn[d]
        /\ conn'[c].pc = "get" /\ ~conn'[c].closing /\ conn'[c].user = conn[c].user
    BY <2>1, CallType DEF Kinds
  <2>4. TypeOK'
    BY <2>2, <2>3, OthersTyped, BoundsKept, GhostType
  <2>5. conn[c].user # NoUser /\ Owes(c)'
    BY <2>2, <2>3, HasUser DEF Owes
  <2>6. Control' /\ Accounted' /\ Unchanged'
    BY <2>2, <2>3, <2>5, TaskStep
  <2> QED BY <2>4, <2>6 DEF Inv
<1>3. CASE Vanish(c)
  <2> DEFINE g == [conn[c] EXCEPT !.gone = TRUE]
  <2>1. /\ conn' = [conn EXCEPT ![c] = g]
        /\ UNCHANGED <<status, late, push, view, ticker, ghost, calls, faults>>
    BY <1>3 DEF Vanish
  <2>2. /\ g \in Conn /\ g.pc = conn[c].pc /\ g.user = conn[c].user /\ g.kind = conn[c].kind
        /\ g.closing = conn[c].closing /\ g.changed = conn[c].changed /\ g.raced = conn[c].raced
    BY <1>0, GoneRecord
  <2> HIDE DEF g
  <2>3. conn' \in [Conns -> Conn] /\ conn'[c] = g /\ \A d \in Conns \ {c} : conn'[d] = conn[d]
    BY <1>0, <2>1, <2>2
  <2>4. TypeOK'
    BY <2>1, <2>3, OthersTyped, BoundsKept, GhostType
  <2>5. Owes(c) => Owes(c)'
    BY <2>2, <2>3 DEF Owes
  <2>6. /\ conn[c].user = NoUser <=> conn[c].pc = "off"
        /\ conn[c].closing => conn[c].kind = Offline /\ conn[c].pc \in {"get", "set", "all"}
        /\ conn[c].pc = "set" /\ ~conn[c].raced =>
             conn[c].changed \/ status[conn[c].user] = conn[c].kind
    BY DEF Inv, Control, Unchanged
  <2>7. Control' /\ Accounted' /\ Unchanged'
    BY <2>1, <2>2, <2>3, <2>5, <2>6, TaskStep
  <2> QED BY <2>4, <2>7 DEF Inv
<1> QED BY <1>1, <1>2, <1>3

LEMMA HGetStep ==
  ASSUME Inv, NEW c \in Conns, HGet(c)
  PROVE  Inv'
<1> DEFINE old == status[conn[c].user]
           b == (old = None \/ old # conn[c].kind)
<1>0. conn' = [conn EXCEPT ![c].pc = "set", ![c].changed = b] /\ b \in BOOLEAN
  BY DEF HGet
<1> DEFINE g == [conn[c] EXCEPT !.pc = "set", !.changed = b]
<1>01. conn' = [conn EXCEPT ![c] = g] /\ conn \in [Conns -> Conn]
  BY <1>0 DEF Inv, TypeOK
<1> HIDE DEF b
<1>02. /\ g \in Conn /\ g.pc = "set" /\ g.user = conn[c].user /\ g.kind = conn[c].kind
       /\ g.closing = conn[c].closing /\ g.changed = b
  <2>1. conn[c] \in Conn
    BY <1>01
  <2> QED BY <1>0, <2>1 DEF Conn
<1> HIDE DEF g
<1>1. /\ conn' \in [Conns -> Conn]
      /\ \A d \in Conns \ {c} : conn'[d] = conn[d]
      /\ conn'[c].pc = "set" /\ conn'[c].closing = conn[c].closing
      /\ conn'[c].user = conn[c].user /\ conn'[c].kind = conn[c].kind
      /\ conn'[c].changed = b
  BY <1>01, <1>02
<1>2. TypeOK'
  BY <1>1, OthersTyped, BoundsKept, GhostType DEF HGet
<1>3. conn[c].user # NoUser
  BY DEF HGet, Inv, Control
<1>4. conn'[c].changed \/ status[conn'[c].user] = conn'[c].kind
  BY <1>1 DEF b
<1>5. UNCHANGED <<status, ghost>>
  BY DEF HGet
<1>6. Owes(c)'
  BY <1>1 DEF Owes
<1>7. conn'[c].closing => conn'[c].kind = Offline
  BY <1>1 DEF Inv, Control
<1>8. Control' /\ Accounted' /\ Unchanged'
  <2> HIDE DEF old
  <2> QED BY <1>1, <1>3, <1>4, <1>5, <1>6, <1>7, TaskStep
<1> QED BY <1>2, <1>8 DEF Inv

LEMMA HSetStep ==
  ASSUME Inv, NEW c \in Conns, HSet(c)
  PROVE  Inv'
<1> DEFINE u == conn[c].user
           next == IF status[u] = None \/ conn[c].changed
                   THEN [conn EXCEPT ![c] = [@ EXCEPT !.pc = "all"]] ELSE Return(c)
<1>1. conn[c].pc = "set" /\ conn[c].user = u /\ u \in Users /\ u # NoUser /\ conn[c] \in Conn
  BY HasUser DEF HSet
<1>2. conn \in [Conns -> Conn]
  BY DEF Inv, TypeOK
<1>3. /\ next \in [Conns -> Conn]
      /\ \A d \in Conns : d # c => next[d] = conn[d]
      /\ \/ next[c] = [conn[c] EXCEPT !.pc = "all"]
         \/ ~conn[c].closing /\ next[c] = [conn[c] EXCEPT !.pc = "open"]
         \/ conn[c].closing /\ next[c] = Off
  <2>1. CASE status[u] = None \/ conn[c].changed
    <3>1. [conn[c] EXCEPT !.pc = "all"] \in Conn
      BY <1>1 DEF Conn
    <3> QED BY <1>2, <2>1, <3>1
  <2>2. CASE ~(status[u] = None \/ conn[c].changed)
    BY <2>2, ReturnType
  <2> QED BY <2>1, <2>2
<1>4. /\ status' = [status EXCEPT ![u] = conn[c].kind]
      /\ conn' = Reading(next, u, c)
      /\ ghost' = [ghost EXCEPT ![u] = FALSE]
      /\ UNCHANGED <<late, push, view, ticker, calls, faults>>
  BY DEF HSet
<1>5. /\ next[c].pc # "set"
      /\ next[c].user = NoUser <=> next[c].pc = "off"
      /\ next[c].closing => next[c].kind = Offline /\ next[c].pc = "all"
      /\ conn[c].kind \in Present =>
           next[c].user = u /\ next[c].pc # "off" /\ ~next[c].closing
  <2>1. conn[c].closing => conn[c].kind = Offline
    BY DEF Inv, Control
  <2>2. CASE next[c] = [conn[c] EXCEPT !.pc = "all"]
    BY <1>1, <2>1, <2>2 DEF Conn, Present
  <2>3. CASE ~conn[c].closing /\ next[c] = [conn[c] EXCEPT !.pc = "open"]
    BY <1>1, <2>3 DEF Conn
  <2>4. CASE conn[c].closing /\ next[c] = Off
    BY <2>1, <2>4 DEF Off, Present
  <2> QED BY <1>3, <2>2, <2>3, <2>4
<1>6. conn[c].kind \in Kinds
  BY <1>1 DEF Conn
<1>7. \A v \in Users : v # u => ghost'[v] = ghost[v]
  BY <1>4 DEF Inv, TypeOK
<1>8. Control' /\ Accounted' /\ Unchanged' /\ conn' \in [Conns -> Conn]
  <2> HIDE DEF next, u
  <2>1. PICK w \in Users, k \in Kinds, f \in [Conns -> Conn] :
          w = u /\ k = conn[c].kind /\ f = next
    BY <1>1, <1>3, <1>6
  <2>2. /\ conn[c].user = w /\ f[c].pc # "set"
        /\ f[c].user = NoUser <=> f[c].pc = "off"
        /\ f[c].closing => f[c].kind = Offline /\ f[c].pc = "all"
    BY <1>1, <1>5, <2>1
  <2>3. k \in Present => c \in Conns /\ f[c].user = w /\ f[c].pc # "off" /\ ~f[c].closing
    BY <1>5, <2>1
  <2>4. /\ \A d \in Conns : d # c => f[d] = conn[d]
        /\ status' = [status EXCEPT ![w] = k]
        /\ conn' = Reading(f, w, c)
        /\ \A v \in Users : v # w => ghost'[v] = ghost[v]
    BY <1>3, <1>4, <1>7, <2>1
  <2> QED BY <2>2, <2>3, <2>4, WriteStep
<1>9. TypeOK'
  <2>1. status' \in Maps /\ ghost' \in [Users -> BOOLEAN]
    BY <1>4, <1>6 DEF Inv, TypeOK, Maps
  <2> QED BY <1>4, <1>8, <2>1 DEF Inv, TypeOK
<1> QED BY <1>8, <1>9 DEF Inv

\* What a task owes after a call has returned.
LEMMA ReturnOwes ==
  ASSUME Inv, NEW c \in Conns, conn[c].pc # "off", conn' = Return(c)
  PROVE  /\ conn' \in [Conns -> Conn]
         /\ \A d \in Conns \ {c} : conn'[d] = conn[d]
         /\ conn'[c].pc # "set" /\ ~conn'[c].closing
         /\ conn'[c].user = NoUser <=> conn'[c].pc = "off"
         /\ ~conn[c].closing => conn'[c].user = conn[c].user /\ Owes(c)'
<1>1. /\ conn[c].user # NoUser /\ conn[c] \in Conn
  BY HasUser
<1>2. /\ conn' \in [Conns -> Conn]
      /\ \A d \in Conns \ {c} : conn'[d] = conn[d]
      /\ conn[c].closing => conn'[c] = Off
      /\ ~conn[c].closing => conn'[c] = [conn[c] EXCEPT !.pc = "open"]
  BY ReturnType
<1>3. CASE conn[c].closing
  BY <1>2, <1>3 DEF Off
<1>4. CASE ~conn[c].closing
  BY <1>1, <1>2, <1>4 DEF Conn, Owes
<1> QED BY <1>2, <1>3, <1>4

LEMMA HGetAllStep ==
  ASSUME Inv, NEW c \in Conns, HGetAll(c)
  PROVE  Inv'
<1>1. /\ conn[c].pc = "all" /\ push' = [push EXCEPT ![c] = status] /\ conn' = Return(c)
      /\ UNCHANGED <<status, late, view, ticker, ghost, calls, faults>>
  BY DEF HGetAll
<1>2. /\ conn' \in [Conns -> Conn]
      /\ \A d \in Conns \ {c} : conn'[d] = conn[d]
      /\ conn'[c].pc # "set" /\ ~conn'[c].closing
      /\ conn'[c].user = NoUser <=> conn'[c].pc = "off"
      /\ ~conn[c].closing => conn'[c].user = conn[c].user /\ Owes(c)'
  BY <1>1, ReturnOwes
<1>3. TypeOK'
  BY <1>1, <1>2 DEF Inv, TypeOK
<1>4. Owes(c) => ~conn[c].closing
  BY <1>1 DEF Owes
<1>5. Control' /\ Accounted' /\ Unchanged'
  BY <1>1, <1>2, <1>4, TaskStep
<1> QED BY <1>3, <1>5 DEF Inv

LEMMA EndSteps ==
  ASSUME Inv, NEW c \in Conns, ReceiveEnds(c) \/ PushEnds(c)
  PROVE  Inv'
<1>1. /\ Call(c, Offline, TRUE)
      /\ UNCHANGED <<status, push, view, ticker, ghost, calls, faults>>
      /\ conn[c].pc # "off"
  BY DEF ReceiveEnds, PushEnds
<1>2. /\ conn' \in [Conns -> Conn]
      /\ \A d \in Conns \ {c} : conn'[d] = conn[d]
      /\ conn'[c].pc = "get" /\ conn'[c].closing /\ conn'[c].kind = Offline
      /\ conn'[c].user = conn[c].user
  BY <1>1, CallType DEF Kinds
<1>3. conn[c].user # NoUser /\ conn[c].user \in Users /\ conn[c].kind \in Kinds
  BY <1>1, HasUser DEF Conn
<1>4. late' \in SUBSET [user : Users, kind : Kinds]
  <2>1. [user |-> conn[c].user, kind |-> conn[c].kind] \in [user : Users, kind : Kinds]
    BY <1>3
  <2>2. late \subseteq [user : Users, kind : Kinds]
    BY DEF Inv, TypeOK
  <2>3. \/ late' = late
        \/ late' = late \cup {[user |-> conn[c].user, kind |-> conn[c].kind]}
    BY DEF ReceiveEnds, PushEnds
  <2> QED BY <2>1, <2>2, <2>3
<1>5. TypeOK'
  BY <1>1, <1>2, <1>4 DEF Inv, TypeOK
<1>6. Owes(c)'
  BY <1>2 DEF Owes
<1>7. Control' /\ Accounted' /\ Unchanged'
  BY <1>1, <1>2, <1>3, <1>6, TaskStep
<1> QED BY <1>5, <1>7 DEF Inv

LEMMA LateHSetStep ==
  ASSUME Inv, LateHSet
  PROVE  Inv'
<1>1. PICK w \in late :
        /\ late' = late \ {w}
        /\ status' = [status EXCEPT ![w.user] = w.kind]
        /\ conn' = Reading(conn, w.user, NoUser)
        /\ ghost' = [ghost EXCEPT ![w.user] = TRUE]
        /\ UNCHANGED <<push, view, ticker, calls, faults>>
  BY DEF LateHSet
<1>2. w.user \in Users /\ w.kind \in Kinds
  BY DEF Inv, TypeOK
<1>3. \A v \in Users : v # w.user => ghost'[v] = ghost[v]
  BY <1>1, <1>2 DEF Inv, TypeOK
<1>4. ghost'[w.user]
  BY <1>1, <1>2 DEF Inv, TypeOK
<1>5. PICK f \in [Conns -> Conn] : f = conn
  BY DEF Inv, TypeOK
<1>6. Control' /\ Accounted' /\ Unchanged' /\ conn' \in [Conns -> Conn]
  BY <1>1, <1>2, <1>3, <1>4, <1>5, WriteStep, ConnsAssumption
<1>7. TypeOK'
  <2>1. status' \in Maps /\ ghost' \in [Users -> BOOLEAN]
    BY <1>1, <1>2 DEF Inv, TypeOK, Maps
  <2> QED BY <1>1, <1>6, <2>1 DEF Inv, TypeOK
<1> QED BY <1>6, <1>7 DEF Inv

LEMMA RedisErrorStep ==
  ASSUME Inv, NEW c \in Conns, RedisError(c)
  PROVE  Inv'
<1> DEFINE u == conn[c].user
<1>1. /\ faults < MaxFaults /\ faults' = faults + 1
      /\ conn[c].pc \in {"get", "set", "all"}
      /\ UNCHANGED <<late, push, view, ticker, calls>>
  BY DEF RedisError, Fault
<1>2. u \in Users /\ u # NoUser /\ conn[c] \in Conn /\ conn[c].kind \in Kinds
  BY <1>1, HasUser DEF Conn
<1>3. CASE /\ conn' = Return(c)
           /\ ghost' = [ghost EXCEPT ![u] = @ \/ (conn[c].closing /\ conn[c].pc # "all")]
           /\ UNCHANGED status
  <2>1. /\ conn' \in [Conns -> Conn]
        /\ \A d \in Conns \ {c} : conn'[d] = conn[d]
        /\ conn'[c].pc # "set" /\ ~conn'[c].closing
        /\ conn'[c].user = NoUser <=> conn'[c].pc = "off"
        /\ ~conn[c].closing => conn'[c].user = conn[c].user /\ Owes(c)'
    BY <1>1, <1>3, ReturnOwes
  <2>2. ghost' \in [Users -> BOOLEAN] /\ \A v \in Users : ghost[v] => ghost'[v]
    BY <1>2, <1>3, GhostType
  <2>3. Owes(c) /\ conn[c].closing => ghost'[u]
    BY <1>2, <1>3, GhostType DEF Owes
  <2>4. TypeOK'
    BY <1>1, <1>3, <2>1, <2>2, OthersTyped, BoundsKept
  <2>5. Control' /\ Accounted' /\ Unchanged'
    BY <1>3, <2>1, <2>2, <2>3, TaskStep
  <2> QED BY <2>4, <2>5 DEF Inv
<1>4. CASE /\ conn[c].pc = "set"
           /\ status' = [status EXCEPT ![u] = conn[c].kind]
           /\ conn' = Reading(Return(c), u, c)
           /\ UNCHANGED ghost
  <2> DEFINE next == Return(c)
  <2>1. /\ next \in [Conns -> Conn]
        /\ \A d \in Conns : d # c => next[d] = conn[d]
        /\ \/ ~conn[c].closing /\ next[c] = [conn[c] EXCEPT !.pc = "open"]
           \/ conn[c].closing /\ next[c] = Off
    BY ReturnType
  <2>2. /\ next[c].pc # "set"
        /\ next[c].user = NoUser <=> next[c].pc = "off"
        /\ ~next[c].closing
        /\ conn[c].kind \in Present => next[c].user = u /\ next[c].pc # "off"
    <3>1. CASE ~conn[c].closing /\ next[c] = [conn[c] EXCEPT !.pc = "open"]
      BY <1>2, <3>1 DEF Conn
    <3>2. CASE conn[c].closing /\ next[c] = Off
      BY <3>2 DEF Off, Present, Inv, Control
    <3> QED BY <2>1, <3>1, <3>2
  <2> HIDE DEF next
  <2>3. PICK w \in Users, k \in Kinds, f \in [Conns -> Conn] :
          w = u /\ k = conn[c].kind /\ f = next
    BY <1>2, <2>1
  <2>4. /\ conn[c].user = w /\ f[c].pc # "set"
        /\ f[c].user = NoUser <=> f[c].pc = "off"
        /\ ~f[c].closing
        /\ k \in Present => f[c].user = w /\ f[c].pc # "off"
    BY <2>2, <2>3
  <2>5. /\ \A d \in Conns : d # c => f[d] = conn[d]
        /\ status' = [status EXCEPT ![w] = k]
        /\ conn' = Reading(f, w, c)
        /\ \A v \in Users : v # w => ghost'[v] = ghost[v]
    BY <1>4, <2>1, <2>3 DEF next
  <2>6. Control' /\ Accounted' /\ Unchanged' /\ conn' \in [Conns -> Conn]
    BY <2>4, <2>5, WriteStep
  <2>7. TypeOK'
    <3>1. status' \in Maps
      BY <1>2, <1>4 DEF Inv, TypeOK, Maps
    <3>2. faults' \in 0 .. MaxFaults
      BY <1>1, BoundsKept
    <3> QED BY <1>1, <1>4, <2>6, <3>1, <3>2 DEF Inv, TypeOK
  <2> QED BY <2>6, <2>7 DEF Inv
<1> QED BY <1>3, <1>4 DEF RedisError

LEMMA ConnectPanicStep ==
  ASSUME Inv, NEW c \in Conns, ConnectPanic(c)
  PROVE  Inv'
<1>1. /\ faults < MaxFaults /\ faults' = faults + 1
      /\ conn[c].pc = "get"
      /\ conn' = [conn EXCEPT ![c] = Off]
      /\ ghost' = [ghost EXCEPT ![conn[c].user] = TRUE]
      /\ UNCHANGED <<status, late, push, view, ticker, calls>>
  BY DEF ConnectPanic, Fault
<1>2. conn[c].user \in Users
  BY <1>1, HasUser
<1>3. /\ conn' \in [Conns -> Conn]
      /\ \A d \in Conns \ {c} : conn'[d] = conn[d]
      /\ conn'[c] = Off
  BY <1>1, OffType DEF Inv, TypeOK
<1>4. /\ ghost' \in [Users -> BOOLEAN] /\ ghost'[conn[c].user]
      /\ \A v \in Users : ghost[v] => ghost'[v]
  BY <1>1, <1>2, GhostType
<1>5. TypeOK'
  BY <1>1, <1>3, <1>4, OthersTyped, BoundsKept
<1>6. Control' /\ Accounted' /\ Unchanged'
  <2>1. conn'[c].user = NoUser /\ conn'[c].pc = "off" /\ ~conn'[c].closing
    BY <1>3 DEF Off
  <2> QED BY <1>1, <1>3, <1>4, <2>1, TaskStep
<1> QED BY <1>5, <1>6 DEF Inv

\* Steps of the ticker and of the tasks that broadcast.
LEMMA PushSteps ==
  ASSUME Inv, (\E s \in Sources : Broadcast(s)) \/ Tick \/ TickPanic
  PROVE  Inv'
<1>1. UNCHANGED <<status, late, conn, ghost, calls>>
  BY DEF Broadcast, Tick, TickPanic
<1>2. Control' /\ Accounted' /\ Unchanged'
  BY <1>1 DEF Inv, Control, Accounted, Unchanged, Owes
<1>3. TypeOK'
  <2>1. CASE \E s \in Sources : Broadcast(s)
    BY <2>1 DEF Broadcast, Inv, TypeOK
  <2>2. CASE Tick
    BY <2>2 DEF Tick, Inv, TypeOK, Sources
  <2>3. CASE TickPanic
    BY <2>3, BoundsKept DEF TickPanic, Fault, Inv, TypeOK
  <2> QED BY <2>1, <2>2, <2>3
<1> QED BY <1>2, <1>3 DEF Inv

LEMMA RestartStep ==
  ASSUME Inv, Restart
  PROVE  Inv'
<1>1. /\ faults < MaxFaults /\ faults' = faults + 1
      /\ conn' = [c \in Conns |-> Off]
      /\ push' = [s \in Sources |-> NoMap]
      /\ ticker' = "runs"
      /\ late' \in SUBSET late
      /\ ghost' = [u \in Users |-> ghost[u] \/ Connected(u) # {}]
      /\ UNCHANGED <<status, view, calls>>
  BY DEF Restart, Fault
<1>2. TypeOK'
  <2>1. conn' \in [Conns -> Conn] /\ ghost' \in [Users -> BOOLEAN]
    BY <1>1, OffType
  <2>2. faults' \in 0 .. MaxFaults
    BY <1>1, BoundsKept
  <2> QED BY <1>1, <2>1, <2>2 DEF Inv, TypeOK
<1>3. Control' /\ Unchanged'
  BY <1>1 DEF Control, Unchanged, Off
<1>4. Accounted'
  <2> SUFFICES ASSUME NEW u \in Users, status[u] \in Present
               PROVE  ghost'[u]
    BY <1>1 DEF Accounted
  <2>1. ghost[u] \/ \E c \in Conns : conn[c].user = u
    BY DEF Inv, Accounted
  <2> QED BY <1>1, <2>1 DEF Connected
<1> QED BY <1>2, <1>3, <1>4 DEF Inv

LEMMA StepInv == Inv /\ [Next]_vars => Inv'
<1> SUFFICES ASSUME Inv, [Next]_vars PROVE Inv'
  OBVIOUS
<1>1. ASSUME NEW c \in Conns, Open(c) \/ Announce(c) \/ Vanish(c) PROVE Inv'
  BY <1>1, ClientSteps
<1>2. ASSUME NEW c \in Conns, Status(c) PROVE Inv'
  BY <1>2, HGetStep, HSetStep, HGetAllStep DEF Status
<1>3. ASSUME NEW c \in Conns, ReceiveEnds(c) \/ PushEnds(c) PROVE Inv'
  BY <1>3, EndSteps
<1>4. ASSUME NEW c \in Conns, RedisError(c) \/ ConnectPanic(c) PROVE Inv'
  BY <1>4, RedisErrorStep, ConnectPanicStep
<1>5. CASE (\E s \in Sources : Broadcast(s)) \/ Tick \/ TickPanic
  BY <1>5, PushSteps
<1>6. CASE LateHSet \/ Restart
  BY <1>6, LateHSetStep, RestartStep
<1>7. CASE UNCHANGED vars
  BY <1>7 DEF vars, Inv, TypeOK, Control, Accounted, Unchanged, Owes
<1> QED BY <1>1, <1>2, <1>3, <1>4, <1>5, <1>6, <1>7 DEF Next

LEMMA Invariance == Spec => []Inv
BY InitInv, StepInv, PTL DEF Spec

-----------------------------------------------------------------------------
\* The variables keep their types, whatever the tasks, Redis and the clients do.
THEOREM TypeCorrect == Spec => []TypeOK
<1>1. Inv => TypeOK
  BY DEF Inv
<1> QED BY Invariance, <1>1, PTL

\* Event::status and the end of connect: a user without a connection is stored as
\* present only when the Offline of a connection was lost or overtaken.
THEOREM NoGhosts == Spec => []GhostFree
<1>1. Inv => GhostFree
  BY DEF Inv, Accounted, GhostFree, Connected
<1> QED BY Invariance, <1>1, PTL

\* Event::status: the comparison of HGET with HSET finds every change to push that
\* no other call of the user interfered with.
THEOREM ChangesPushed == Spec => ChangeIsPushed
<1>1. Inv /\ [Next]_vars =>
        [\A c \in Conns :
           HSet(c) /\ status' # status => conn'[c].pc = "all" \/ conn[c].raced]_vars
  <2> SUFFICES ASSUME Inv, NEW c \in Conns, HSet(c), status' # status, ~conn[c].raced
               PROVE  conn'[c].pc = "all"
    OBVIOUS
  <2> DEFINE u == conn[c].user
             next == [conn EXCEPT ![c].pc = "all"]
  <2>1. conn[c].pc = "set" /\ u \in Users /\ conn[c] \in Conn
    BY HasUser DEF HSet
  <2>2. status' = [status EXCEPT ![u] = conn[c].kind] /\ status \in [Users -> Kinds \cup {None}]
    BY DEF HSet, Inv, TypeOK, Maps
  <2>3. status[u] # conn[c].kind
    BY <2>1, <2>2
  <2>4. conn[c].changed
    BY <2>1, <2>3 DEF Inv, Unchanged
  <2>5. conn' = Reading(next, u, c)
    BY <2>4 DEF HSet
  <2>6. next \in [Conns -> Conn] /\ next[c].pc = "all"
    BY <2>1 DEF Inv, TypeOK, Conn
  <2>7. PICK f \in [Conns -> Conn], w \in Users : f = next /\ w = u
    BY <2>1, <2>6
  <2> HIDE DEF next
  <2>8. conn'[c].pc = f[c].pc
    BY <2>5, <2>7, ReadingMarks
  <2> QED BY <2>6, <2>7, <2>8
<1> QED BY Invariance, <1>1, PTL DEF Spec, ChangeIsPushed
=============================================================================

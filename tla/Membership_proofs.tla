-------------------------- MODULE Membership_proofs --------------------------
(***************************************************************************)
(* Theorems about Membership, for every set of tasks, users and channels   *)
(* and any number of requests: its types, that nobody is left behind in a  *)
(* channel, that the owner stays an admin, and that the transactions do    *)
(* not wait for each other in a circle.                                    *)
(***************************************************************************)
EXTENDS Membership, SequenceTheorems, TLAPS

\* remove_user ends its handler: the member, the seats, the commit.
Shaped(todo) ==
  \A i \in DOMAIN todo :
    /\ todo[i] = "delete_member" =>
         Len(todo) = i + 2 /\ todo[i + 1] = "unjoin" /\ todo[i + 2] = "commit"
    /\ todo[i] = "unjoin" => Len(todo) = i + 1 /\ todo[i + 1] = "commit"
    /\ todo[i] = "commit" => Len(todo) = i

\* A request that holds rows locked is past the statement that wrote them.
Held(r) ==
  /\ r.gone => Head(r.todo) \in {"unjoin", "commit"}
  /\ r.unjoined # {} => Head(r.todo) = "commit"

RequestOK(r) == r \in Request /\ r.todo # << >> /\ Shaped(r.todo) /\ Held(r)

Requests == /\ req = [t \in Tasks |-> req[t]]
            /\ \A t \in Tasks : req[t] = None \/ RequestOK(req[t])

Tables == /\ space \in SpaceRow
          /\ member \in [Users -> Ranks]
          /\ channel \in [Channels -> ChannelRow \cup {None}]
          /\ seat \in [Users -> [Channels -> SeatRow \cup {None}]]
          /\ stray \in SUBSET (Users \X Channels)
          /\ started \in 0 .. MaxRequests

Joined(u, c) == seat[u][c] # None /\ seat[u][c].joined

\* A transaction that is about to commit the removal of a user has found every seat
\* of the user, but for those taken since, which are recorded.
Cleared ==
  \A t \in Tasks :
    req[t] # None /\ req[t].gone /\ Head(req[t].todo) = "commit" =>
      \A c \in Channels : Joined(req[t].target, c) =>
        c \in req[t].unjoined \/ <<req[t].target, c>> \in stray

\* The rows it has found are there: nothing deletes a row of channel_members.
Found ==
  \A t \in Tasks : req[t] # None =>
    \A c \in req[t].unjoined : seat[req[t].target][c] # None

Inv == Requests /\ Tables /\ Cleared /\ Found /\ NoneLeftBehind /\ OwnerIsAdmin

-----------------------------------------------------------------------------
(* Sequences of statements.                                                *)

LEMMA TailShaped ==
  ASSUME NEW S, NEW todo \in Seq(S), todo # << >>, Shaped(todo), Len(todo) # 1
  PROVE  /\ Tail(todo) \in Seq(S) /\ Tail(todo) # << >> /\ Shaped(Tail(todo))
         /\ Head(todo) = "delete_member" => Head(Tail(todo)) = "unjoin"
         /\ Head(todo) = "unjoin" => Head(Tail(todo)) = "commit"
<1>1. PICK n \in Nat : n = Len(todo)
  BY LenProperties
<1>2. n > 1 /\ DOMAIN todo = 1 .. n /\ Head(todo) = todo[1]
  BY <1>1, EmptySeq, LenProperties
<1>3. /\ Tail(todo) \in Seq(S) /\ Len(Tail(todo)) = n - 1
      /\ \A i \in 1 .. n - 1 : Tail(todo)[i] = todo[i + 1]
  BY <1>1, HeadTailProperties
<1>4. DOMAIN Tail(todo) = 1 .. n - 1
  BY <1>3, LenProperties
<1>5. \A i \in 1 .. n :
        /\ todo[i] = "delete_member" =>
             n = i + 2 /\ todo[i + 1] = "unjoin" /\ todo[i + 2] = "commit"
        /\ todo[i] = "unjoin" => n = i + 1 /\ todo[i + 1] = "commit"
        /\ todo[i] = "commit" => n = i
  BY <1>1, <1>2 DEF Shaped
<1>6. ASSUME NEW i \in 1 .. n - 1
      PROVE  /\ Tail(todo)[i] = "delete_member" =>
                  /\ n - 1 = i + 2
                  /\ Tail(todo)[i + 1] = "unjoin" /\ Tail(todo)[i + 2] = "commit"
             /\ Tail(todo)[i] = "unjoin" => n - 1 = i + 1 /\ Tail(todo)[i + 1] = "commit"
             /\ Tail(todo)[i] = "commit" => n - 1 = i
  <2>1. i + 1 \in 1 .. n /\ Tail(todo)[i] = todo[i + 1]
    BY <1>3
  <2>2. i + 2 <= n => Tail(todo)[i + 1] = todo[i + 2]
    BY <1>3
  <2>3. i + 3 <= n => Tail(todo)[i + 2] = todo[i + 3]
    BY <1>3
  <2>4. /\ todo[i + 1] = "delete_member" =>
             n = i + 3 /\ todo[i + 2] = "unjoin" /\ todo[i + 3] = "commit"
        /\ todo[i + 1] = "unjoin" => n = i + 2 /\ todo[i + 2] = "commit"
        /\ todo[i + 1] = "commit" => n = i + 1
    <3>1. PICK j \in 1 .. n : j = i + 1
      BY <2>1
    <3> QED BY <1>5, <3>1
  <2>5. /\ n = i + 3 => n - 1 = i + 2 /\ i + 2 <= n /\ i + 3 <= n
        /\ n = i + 2 => n - 1 = i + 1 /\ i + 2 <= n
        /\ n = i + 1 => n - 1 = i
    OBVIOUS
  <2> QED BY <2>1, <2>2, <2>3, <2>4, <2>5, Zenon
<1>7. Shaped(Tail(todo))
  BY <1>3, <1>4, <1>6 DEF Shaped
<1>8. Tail(todo) # << >> /\ Head(Tail(todo)) = todo[2]
  <2>1. n - 1 # 0 /\ Tail(todo)[1] = todo[2]
    BY <1>2, <1>3
  <2>2. Tail(todo) # << >>
    BY <1>3, <2>1, EmptySeq
  <2>3. Tail(todo) \in Seq(S)
    BY <1>3
  <2> QED BY <2>1, <2>2, <2>3
<1>9. /\ todo[1] = "delete_member" => todo[2] = "unjoin"
      /\ todo[1] = "unjoin" => todo[2] = "commit"
  BY <1>2, <1>5
<1> QED BY <1>2, <1>3, <1>7, <1>8, <1>9

\* Where the head of a sequence of that form leaves its handler.
LEMMA ShapedHead ==
  ASSUME NEW S, NEW todo \in Seq(S), todo # << >>, Shaped(todo)
  PROVE  /\ Head(todo) = "commit" => Len(todo) = 1 /\ todo = <<"commit">>
         /\ Head(todo) \in {"delete_member", "unjoin"} => Len(todo) # 1
<1>1. PICK n \in Nat : n = Len(todo)
  BY LenProperties
<1>2. n > 0 /\ DOMAIN todo = 1 .. n /\ Head(todo) = todo[1]
  BY <1>1, EmptySeq, LenProperties
<1>3. /\ Head(todo) = "commit" => n = 1
      /\ Head(todo) \in {"delete_member", "unjoin"} => n # 1
  BY <1>1, <1>2 DEF Shaped
<1>4. ASSUME Head(todo) = "commit" PROVE todo = <<"commit">>
  BY <1>1, <1>2, <1>3, <1>4
<1> QED BY <1>1, <1>3, <1>4

\* Short sequences, and those that remove nobody.
LEMMA PlainShaped ==
  ASSUME NEW s, \A i \in DOMAIN s : s[i] \notin {"delete_member", "unjoin", "commit"}
  PROVE  Shaped(s)
BY DEF Shaped

LEMMA ConcatKick ==
  ASSUME NEW S, NEW a \in S, NEW b \in S, NEW c \in S, NEW d \in S, NEW e \in S
  PROVE  <<a, b>> \o <<c, d>> \o <<e>> = <<a, b, c, d, e>>
<1>1. /\ <<a, b>> \in Seq(S) /\ <<c, d>> \in Seq(S) /\ <<e>> \in Seq(S)
      /\ <<a, b, c, d>> \in Seq(S) /\ <<a, b, c, d, e>> \in Seq(S)
  OBVIOUS
<1>2. <<a, b>> \o <<c, d>> = <<a, b, c, d>>
  <2>1. /\ <<a, b>> \o <<c, d>> \in Seq(S) /\ Len(<<a, b>> \o <<c, d>>) = 4
        /\ \A i \in 1 .. 4 : (<<a, b>> \o <<c, d>>)[i] = <<a, b, c, d>>[i]
    BY <1>1, ConcatProperties
  <2> QED BY <1>1, <2>1, SeqEqual
<1>3. <<a, b, c, d>> \o <<e>> = <<a, b, c, d, e>>
  <2>1. /\ <<a, b, c, d>> \o <<e>> \in Seq(S) /\ Len(<<a, b, c, d>> \o <<e>>) = 5
        /\ \A i \in 1 .. 5 : (<<a, b, c, d>> \o <<e>>)[i] = <<a, b, c, d, e>>[i]
    BY <1>1, ConcatProperties
  <2> QED BY <1>1, <2>1, SeqEqual
<1> QED BY <1>2, <1>3

\* Each handler is a sequence of statements of that form.
LEMMA HandlerShaped ==
  ASSUME NEW op \in DOMAIN Handler
  PROVE  Handler[op] \in Seq(Statements) /\ Handler[op] # << >> /\ Shaped(Handler[op])
<1> DEFINE S == {"space", "insert_member", "delete_member", "unjoin", "commit", "admin",
                 "target", "edit_space", "delete_space", "member", "insert_channel",
                 "edit_channel", "channel", "delete_channel", "upsert", "seat", "unseat"}
           Plain == S \ {"delete_member", "unjoin", "commit"}
           Good(s) == s \in Seq(S) /\ s # << >> /\ Shaped(s)
<1>1. DOMAIN Handler = {"join_space", "leave_space", "kick", "edit_space", "delete_space",
                        "create_channel", "edit_channel", "delete_channel", "join_channel",
                        "add_member", "leave_channel"}
  BY DEF Handler, Handlers
<1>2. ASSUME NEW s \in Seq(Plain), s # << >> PROVE Good(s)
  <2>1. \A i \in DOMAIN s : s[i] \in Plain
    BY LenProperties, ElementOfSeq
  <2>2. Shaped(s)
    BY <2>1, PlainShaped
  <2>3. s \in Seq(S)
    <3>1. Plain \subseteq S
      OBVIOUS
    <3> HIDE DEF S, Plain
    <3> QED BY <3>1, SeqMonotonic
  <2> QED BY <1>2, <2>2, <2>3
<1>3. ASSUME op \in {"join_space", "edit_space", "delete_space", "edit_channel"}
      PROVE  Good(Handler[op])
  <2>1. PICK a \in Plain, b \in Plain : Handler[op] = <<a, b>>
    BY <1>3 DEF Handler, Handlers
  <2> HIDE DEF S, Plain, Good
  <2>2. <<a, b>> \in Seq(Plain) /\ <<a, b>> # << >>
    OBVIOUS
  <2> QED BY <1>2, <2>1, <2>2
<1>4. ASSUME op \in {"create_channel", "delete_channel", "join_channel"}
      PROVE  Good(Handler[op])
  <2>1. PICK a \in Plain, b \in Plain, c \in Plain : Handler[op] = <<a, b, c>>
    BY <1>4 DEF Handler, Handlers
  <2> HIDE DEF S, Plain, Good
  <2>2. <<a, b, c>> \in Seq(Plain) /\ <<a, b, c>> # << >>
    OBVIOUS
  <2> QED BY <1>2, <2>1, <2>2
<1>5. ASSUME op = "add_member" PROVE Good(Handler[op])
  <2>1. PICK a \in Plain, b \in Plain, c \in Plain, d \in Plain : Handler[op] = <<a, b, c, d>>
    BY <1>5 DEF Handler, Handlers
  <2> HIDE DEF S, Plain, Good
  <2>2. <<a, b, c, d>> \in Seq(Plain) /\ <<a, b, c, d>> # << >>
    OBVIOUS
  <2> QED BY <1>2, <2>1, <2>2
<1>6. ASSUME op = "leave_channel" PROVE Good(Handler[op])
  <2>1. PICK a \in Plain : Handler[op] = <<a>>
    BY <1>6 DEF Handler, Handlers
  <2> HIDE DEF S, Plain, Good
  <2>2. <<a>> \in Seq(Plain) /\ <<a>> # << >>
    OBVIOUS
  <2> QED BY <1>2, <2>1, <2>2
<1>7. ASSUME op = "leave_space" PROVE Good(Handler[op])
  <2>1. Handler[op] = <<"delete_member", "unjoin", "commit">>
    BY <1>7 DEF Handler, Handlers
  <2> QED BY <2>1 DEF Shaped
<1>8. ASSUME op = "kick" PROVE Good(Handler[op])
  <2>1. Handler[op] = <<"admin", "target">> \o <<"delete_member", "unjoin">> \o <<"commit">>
    BY <1>8 DEF Handler, Handlers
  <2>2. Handler[op] = <<"admin", "target", "delete_member", "unjoin", "commit">>
    <3>1. /\ "admin" \in S /\ "target" \in S /\ "delete_member" \in S
          /\ "unjoin" \in S /\ "commit" \in S
      OBVIOUS
    <3> HIDE DEF S
    <3> QED BY <2>1, <3>1, ConcatKick
  <2> QED BY <2>2 DEF Shaped
<1>9. Good(Handler[op])
  BY <1>1, <1>3, <1>4, <1>5, <1>6, <1>7, <1>8
<1>10. \A i \in DOMAIN Handler[op] : Handler[op][i] \in Statements
  BY DEF Statements
<1>11. Handler[op] \in Seq(Statements)
  BY <1>9, <1>10, LenProperties
<1> QED BY <1>9, <1>11

-----------------------------------------------------------------------------
(* What a step does to the requests.                                       *)

\* No request but that of t has locked more rows, and t has not either.
NoNewLock(t) ==
  /\ Requests'
  /\ \A s \in Tasks \ {t} : req'[s] = req[s]
  /\ req'[t] # None => ~req'[t].gone /\ req'[t].unjoined = {}

LEMMA ReturnOK ==
  ASSUME Requests, NEW t \in Tasks, Return(t)
  PROVE  NoNewLock(t) /\ req'[t] = None
<1>1. req' = [s \in Tasks |-> IF s = t THEN None ELSE req[s]]
  BY DEF Requests, Return
<1> QED BY <1>1 DEF Requests, NoNewLock

\* The next statement of a request.
LEMMA NextStatement ==
  ASSUME NEW r, RequestOK(r), Len(r.todo) # 1, NEW g \in BOOLEAN, NEW cs \in SUBSET Channels,
         g => Head(r.todo) \in {"delete_member", "unjoin"}, cs # {} => Head(r.todo) = "unjoin"
  PROVE  RequestOK([r EXCEPT !.gone = g, !.unjoined = cs, !.todo = Tail(@)])
<1> DEFINE q == [r EXCEPT !.gone = g, !.unjoined = cs, !.todo = Tail(@)]
<1>1. r.todo \in Seq(Statements) /\ r.todo # << >> /\ Shaped(r.todo)
  BY DEF RequestOK, Request
<1>2. /\ Tail(r.todo) \in Seq(Statements) /\ Tail(r.todo) # << >> /\ Shaped(Tail(r.todo))
      /\ Head(r.todo) = "delete_member" => Head(Tail(r.todo)) = "unjoin"
      /\ Head(r.todo) = "unjoin" => Head(Tail(r.todo)) = "commit"
  BY <1>1, TailShaped
<1>3. q \in Request
  BY <1>2 DEF RequestOK, Request
<1>4. q.gone = g /\ q.unjoined = cs /\ q.todo = Tail(r.todo)
  BY DEF RequestOK, Request
<1>5. Held(q)
  BY <1>2, <1>4 DEF Held
<1> HIDE DEF q
<1>6. RequestOK(q)
  BY <1>2, <1>3, <1>4, <1>5 DEF RequestOK
<1> QED BY <1>6 DEF q

LEMMA ContinueOK ==
  ASSUME Requests, NEW t \in Tasks, req[t] # None, Continue(t),
         Head(req[t].todo) \notin {"delete_member", "unjoin"}
  PROVE  NoNewLock(t)
<1> DEFINE r == req[t]
<1>1. RequestOK(r)
  BY DEF Requests
<1>2. r.todo \in Seq(Statements) /\ r.todo # << >> /\ Shaped(r.todo) /\ r \in Request
  BY <1>1 DEF RequestOK, Request
<1>3. req' = [s \in Tasks |-> IF s # t THEN req[s] ELSE
                 IF Len(r.todo) = 1 THEN None ELSE [r EXCEPT !.todo = Tail(@)]]
  BY DEF Continue, Requests
<1>4. CASE Len(r.todo) = 1
  BY <1>3, <1>4 DEF NoNewLock, Requests
<1>5. CASE Len(r.todo) # 1
  <2>1. ~r.gone /\ r.unjoined = {}
    BY <1>1, <1>2, <1>5, ShapedHead DEF RequestOK, Held, Request
  <2>2. [r EXCEPT !.todo = Tail(@)] =
          [r EXCEPT !.gone = FALSE, !.unjoined = {}, !.todo = Tail(@)]
    BY <1>2, <2>1 DEF Request
  <2>3. RequestOK([r EXCEPT !.gone = FALSE, !.unjoined = {}, !.todo = Tail(@)])
    BY <1>1, <1>5, NextStatement
  <2>4. /\ ~[r EXCEPT !.todo = Tail(@)].gone
        /\ [r EXCEPT !.todo = Tail(@)].unjoined = {}
    BY <1>2, <2>1 DEF Request
  <2> QED BY <1>3, <1>5, <2>2, <2>3, <2>4 DEF NoNewLock, Requests
<1> QED BY <1>4, <1>5

LEMMA StartOK ==
  ASSUME Inv, NEW t \in Tasks, Start(t)
  PROVE  NoNewLock(t) /\ started' \in 0 .. MaxRequests
<1>1. PICK op \in DOMAIN Handler, u \in Users, v \in Users, c \in Channels, r \in Roles :
        req' = [req EXCEPT ![t] =
                 [op |-> op, todo |-> Handler[op], user |-> u, target |-> v, ch |-> c,
                  role |-> r, gone |-> FALSE, unjoined |-> {}]]
  BY DEF Start
<1> DEFINE q == [op |-> op, todo |-> Handler[op], user |-> u, target |-> v, ch |-> c,
                 role |-> r, gone |-> FALSE, unjoined |-> {}]
<1>2. Handler[op] \in Seq(Statements) /\ Handler[op] # << >> /\ Shaped(Handler[op])
  BY HandlerShaped
<1>3. q \in Request /\ q.todo = Handler[op] /\ ~q.gone /\ q.unjoined = {}
  BY <1>2 DEF Request
<1>4. RequestOK(q)
  BY <1>2, <1>3 DEF RequestOK, Held
<1>5. req' = [s \in Tasks |-> IF s = t THEN q ELSE req[s]]
  BY <1>1 DEF Inv, Requests
<1>6. NoNewLock(t)
  <2> HIDE DEF q
  <2> QED BY <1>3, <1>4, <1>5 DEF Inv, Requests, NoNewLock
<1>7. started' \in 0 .. MaxRequests
  BY BoundAssumption DEF Start, Inv, Tables
<1> QED BY <1>6, <1>7

-----------------------------------------------------------------------------
(* Three kinds of step.                                                    *)

\* The rows found stay: a lemma for the kinds of step below.
LEMMA FoundKept ==
  ASSUME Inv, NEW t \in Tasks, NoNewLock(t),
         \A u \in Users, c \in Channels : seat[u][c] # None => seat'[u][c] # None
  PROVE  Found'
<1> SUFFICES ASSUME NEW s \in Tasks, req'[s] # None, NEW c \in req'[s].unjoined
             PROVE  seat'[req'[s].target][c] # None
  BY DEF Found
<1>1. req'[s] = req[s] /\ req[s] \in Request
  BY DEF NoNewLock, Requests, RequestOK
<1>2. req[s].target \in Users /\ c \in Channels
  BY <1>1 DEF Request
<1> QED BY <1>1, <1>2 DEF Inv, Found

\* A step that takes no seat, clears no record of a seat that is still taken, and
\* takes nobody out of the space.
LEMMA Quiet ==
  ASSUME Inv, NEW t \in Tasks, NoNewLock(t), Tables', OwnerIsAdmin',
         \A u \in Users : member'[u] = "none" => member[u] = "none",
         \A u \in Users, c \in Channels :
           /\ Joined(u, c)' => Joined(u, c) /\ (<<u, c>> \in stray => <<u, c>> \in stray')
           /\ seat[u][c] # None => seat'[u][c] # None
  PROVE  Inv'
<1>1. NoneLeftBehind'
  BY DEF Inv, NoneLeftBehind, Joined
<1>2. Cleared'
  <2> SUFFICES ASSUME NEW s \in Tasks, req'[s] # None, req'[s].gone,
                      Head(req'[s].todo) = "commit",
                      NEW c \in Channels, Joined(req[s].target, c)'
               PROVE  c \in req'[s].unjoined \/ <<req'[s].target, c>> \in stray'
    BY DEF Cleared
  <2>1. req'[s] = req[s] /\ req[s].target \in Users
    BY DEF NoNewLock, Requests, RequestOK, Request
  <2> QED BY <2>1 DEF Inv, Cleared, Joined
<1> QED BY <1>1, <1>2, FoundKept DEF Inv, NoNewLock

\* A seat is taken: its user is in the space and nobody is about to commit the
\* removal, or it is recorded.
LEMMA SeatTaken ==
  ASSUME Inv, NEW t \in Tasks, NoNewLock(t), Tables', UNCHANGED member,
         NEW u \in Users, NEW c \in Channels, stray' = Strays(u, c),
         \A v \in Users, d \in Channels :
           /\ Joined(v, d)' => Joined(v, d) \/ (v = u /\ d = c)
           /\ seat[v][d] # None => seat'[v][d] # None
  PROVE  Inv'
<1>1. stray \subseteq stray' /\ (member[u] = "none" => <<u, c>> \in stray')
  BY DEF Strays
<1>2. NoneLeftBehind'
  BY <1>1 DEF Inv, NoneLeftBehind, Joined
<1>3. Cleared'
  <2> SUFFICES ASSUME NEW s \in Tasks, req'[s] # None, req'[s].gone,
                      Head(req'[s].todo) = "commit",
                      NEW d \in Channels, Joined(req[s].target, d)'
               PROVE  d \in req'[s].unjoined \/ <<req'[s].target, d>> \in stray'
    BY DEF Cleared
  <2>1. req'[s] = req[s] /\ req[s] \in Request /\ RequestOK(req[s])
    BY DEF NoNewLock, Requests, RequestOK
  <2>2. CASE req[s].target = u /\ d = c
    <3>1. req[s].todo = <<"commit">>
      BY <2>1, ShapedHead DEF RequestOK, Request
    <3> QED BY <2>1, <2>2, <3>1 DEF Strays
  <2>3. CASE ~(req[s].target = u /\ d = c)
    <3>1. req[s].target \in Users
      BY <2>1 DEF Request
    <3>2. Joined(req[s].target, d)
      BY <2>1, <2>3, <3>1 DEF Joined
    <3> QED BY <1>1, <2>1, <3>2 DEF Inv, Cleared
  <2> QED BY <2>2, <2>3
<1>4. OwnerIsAdmin'
  BY DEF Inv, OwnerIsAdmin
<1> QED BY <1>2, <1>3, <1>4, FoundKept DEF Inv, NoNewLock

-----------------------------------------------------------------------------
LEMMA InitInv == Init => Inv
<1> SUFFICES ASSUME Init PROVE Inv
  OBVIOUS
<1>1. Requests /\ Cleared /\ Found
  BY DEF Init, Requests, Cleared, Found
<1>2. Tables
  BY BoundAssumption DEF Init, Tables, SpaceRow, ChannelRow, SeatRow
<1>3. NoneLeftBehind /\ OwnerIsAdmin
  BY NamesAssumption DEF Init, NoneLeftBehind, OwnerIsAdmin
<1> QED BY <1>1, <1>2, <1>3 DEF Inv

-----------------------------------------------------------------------------
(* The actions.                                                            *)

LEMMA StartKeeps == ASSUME Inv, NEW t \in Tasks, Start(t) PROVE Inv'
<1>1. NoNewLock(t) /\ started' \in 0 .. MaxRequests
  BY StartOK
<1>2. UNCHANGED tables
  BY DEF Start
<1>3. Tables' /\ OwnerIsAdmin'
  BY <1>1, <1>2 DEF Inv, Tables, OwnerIsAdmin, tables
<1> QED BY <1>1, <1>2, <1>3, Quiet DEF tables, Joined

LEMMA TablesStay ==
  ASSUME Inv, NEW t \in Tasks, NoNewLock(t), UNCHANGED <<tables, started>>
  PROVE  Inv'
<1>1. UNCHANGED <<space, member, channel, seat, stray, started>>
  BY DEF tables
<1>2. Tables' /\ OwnerIsAdmin'
  BY <1>1 DEF Inv, Tables, OwnerIsAdmin
<1> QED BY <1>1, <1>2, Quiet DEF Joined

LEMMA LookKeeps ==
  ASSUME Inv, NEW t \in Tasks, NEW statement, NEW ok \in BOOLEAN, Look(t, statement, ok),
         statement \notin {"delete_member", "unjoin"}
  PROVE  Inv'
<1>1. NoNewLock(t)
  BY ReturnOK, ContinueOK DEF Inv, Look, At
<1>2. UNCHANGED <<tables, started>>
  BY DEF Look
<1> QED BY <1>1, <1>2, TablesStay

LEMMA DropKeeps == ASSUME Inv, NEW t \in Tasks, Drop(t) PROVE Inv'
<1>1. NoNewLock(t)
  BY ReturnOK DEF Inv, Drop
<1>2. UNCHANGED <<tables, started>>
  BY DEF Drop
<1> QED BY <1>1, <1>2, TablesStay

LEMMA ReadKeeps == ASSUME Inv, NEW t \in Tasks, Read(t) PROVE Inv'
<1>1. CASE SeeSpace(t)
  <2>1. PICK invited \in BOOLEAN :
          Look(t, "space",
               /\ ~space.deleted
               /\ req[t].op = "join_space" => space.public \/ invited \/ req[t].user = Owner
               /\ req[t].op = "delete_space" => req[t].user = Owner)
    BY <1>1 DEF SeeSpace
  <2>2. PICK ok \in BOOLEAN : Look(t, "space", ok)
    BY <2>1
  <2> QED BY <2>2, LookKeeps
<1>2. CASE SeeMember(t)
  BY <1>2, LookKeeps DEF SeeMember
<1>3. CASE SeeAdmin(t)
  BY <1>3, LookKeeps DEF SeeAdmin
<1>4. CASE SeeTarget(t)
  BY <1>4, LookKeeps DEF SeeTarget
<1>5. CASE SeeSeat(t)
  <2>1. PICK ok \in BOOLEAN : Look(t, "seat", ok)
    BY <1>5 DEF SeeSeat, InChannel
  <2> QED BY <2>1, LookKeeps
<1>6. CASE SeeChannel(t)
  <2>1. PICK ok \in BOOLEAN : Look(t, "channel", ok)
    BY <1>6 DEF SeeChannel
  <2> QED BY <2>1, LookKeeps
<1> QED BY <1>1, <1>2, <1>3, <1>4, <1>5, <1>6 DEF Read

\* What is known of a request that is at a statement.
LEMMA AtType ==
  ASSUME Inv, NEW t \in Tasks, NEW statement, At(t, statement)
  PROVE  /\ RequestOK(req[t]) /\ req[t] # None /\ Head(req[t].todo) = statement
         /\ req[t] \in Request /\ req[t].todo \in Seq(Statements)
         /\ req[t].user \in Users /\ req[t].target \in Users /\ req[t].ch \in Channels
BY DEF Inv, Requests, RequestOK, Request, At

LEMMA InsertMemberKeeps == ASSUME Inv, NEW t \in Tasks, InsertMember(t) PROVE Inv'
<1>1. At(t, "insert_member") /\ Continue(t) /\ UNCHANGED <<space, channel, seat, stray, started>>
  BY DEF InsertMember
<1>2. NoNewLock(t) /\ req[t].target \in Users
  BY <1>1, AtType, ContinueOK DEF Inv
<1>3. /\ \A u \in Users : member'[u] = "none" => member[u] = "none"
      /\ member' \in [Users -> Ranks] /\ OwnerIsAdmin'
  BY <1>2, NamesAssumption DEF InsertMember, Inv, Tables, Ranks, OwnerIsAdmin
<1>4. Tables'
  BY <1>1, <1>3 DEF Inv, Tables
<1> QED BY <1>1, <1>2, <1>3, <1>4, Quiet DEF Joined

LEMMA EditSpaceKeeps == ASSUME Inv, NEW t \in Tasks, EditSpace(t) PROVE Inv'
<1>1. At(t, "edit_space") /\ Continue(t) /\ UNCHANGED <<channel, seat, stray, started>>
  BY DEF EditSpace
<1>2. NoNewLock(t)
  BY <1>1, AtType, ContinueOK DEF Inv
<1>3. UNCHANGED member
  BY NamesAssumption DEF EditSpace, SetAdmin, Inv, Tables
<1>4. space' \in SpaceRow
  BY DEF EditSpace, Inv, Tables, SpaceRow
<1>5. Tables' /\ OwnerIsAdmin'
  BY <1>1, <1>3, <1>4 DEF Inv, Tables, OwnerIsAdmin
<1> QED BY <1>1, <1>2, <1>3, <1>5, Quiet DEF Joined

LEMMA DeleteSpaceKeeps == ASSUME Inv, NEW t \in Tasks, DeleteSpace(t) PROVE Inv'
<1>1. /\ At(t, "delete_space") /\ Continue(t)
      /\ UNCHANGED <<member, channel, seat, stray, started>>
  BY DEF DeleteSpace
<1>2. NoNewLock(t)
  BY <1>1, AtType, ContinueOK DEF Inv
<1>3. Tables' /\ OwnerIsAdmin'
  BY <1>1 DEF DeleteSpace, Inv, Tables, OwnerIsAdmin, SpaceRow
<1> QED BY <1>1, <1>2, <1>3, Quiet DEF Joined

LEMMA DeleteChannelKeeps == ASSUME Inv, NEW t \in Tasks, DeleteChannel(t) PROVE Inv'
<1>1. /\ At(t, "delete_channel") /\ Continue(t)
      /\ UNCHANGED <<space, member, seat, stray, started>>
  BY DEF DeleteChannel
<1>2. NoNewLock(t)
  BY <1>1, AtType, ContinueOK DEF Inv
<1>3. channel' \in [Channels -> ChannelRow \cup {None}]
  <2>1. CASE Exists(req[t].ch)
    <3>1. channel[req[t].ch] \in ChannelRow
      BY <1>1, <2>1, AtType DEF Exists, Inv, Tables
    <3>2. [channel[req[t].ch] EXCEPT !.deleted = TRUE] \in ChannelRow
      BY <3>1 DEF ChannelRow
    <3> QED BY <2>1, <3>2 DEF DeleteChannel, Inv, Tables
  <2>2. CASE ~Exists(req[t].ch)
    BY <2>2 DEF DeleteChannel, Inv, Tables
  <2> QED BY <2>1, <2>2
<1>4. Tables' /\ OwnerIsAdmin'
  BY <1>1, <1>3 DEF Inv, Tables, OwnerIsAdmin
<1> QED BY <1>1, <1>2, <1>4, Quiet DEF Joined

\* A row of channel_members that is written: the others stay.
LEMMA SeatWritten ==
  ASSUME Inv, NEW u \in Users, NEW c \in Channels, NEW row \in SeatRow,
         seat' = [seat EXCEPT ![u][c] = row]
  PROVE  /\ seat' \in [Users -> [Channels -> SeatRow \cup {None}]]
         /\ \A v \in Users, d \in Channels :
              seat'[v][d] = IF v = u /\ d = c THEN row ELSE seat[v][d]
<1>1. seat \in [Users -> [Channels -> SeatRow \cup {None}]]
  BY DEF Inv, Tables
<1> QED BY <1>1

\* A seat that is not None is a row.
LEMMA SeatIsRow ==
  ASSUME Inv, NEW u \in Users, NEW c \in Channels, seat[u][c] # None
  PROVE  /\ seat[u][c] \in SeatRow
         /\ \A b \in BOOLEAN : /\ [seat[u][c] EXCEPT !.joined = b] \in SeatRow
                               /\ [seat[u][c] EXCEPT !.joined = b].joined = b
                               /\ [seat[u][c] EXCEPT !.master = b] \in SeatRow
                               /\ [seat[u][c] EXCEPT !.master = b].joined = seat[u][c].joined
<1>1. seat[u][c] \in SeatRow
  BY DEF Inv, Tables
<1> QED BY <1>1 DEF SeatRow

LEMMA StraysType ==
  ASSUME Inv, NEW u \in Users, NEW c \in Channels
  PROVE  Strays(u, c) \in SUBSET (Users \X Channels)
BY DEF Inv, Tables, Strays

LEMMA UpsertKeeps == ASSUME Inv, NEW t \in Tasks, Upsert(t) PROVE Inv'
<1> DEFINE u == req[t].target
           c == req[t].ch
           row == [joined |-> TRUE, master |-> IF seat[u][c] = None THEN FALSE
                                               ELSE seat[u][c].master]
<1>1. At(t, "upsert") /\ Continue(t) /\ UNCHANGED <<space, member, channel, started>>
  BY DEF Upsert
<1>2. NoNewLock(t) /\ u \in Users /\ c \in Channels
  BY <1>1, AtType, ContinueOK DEF Inv
<1>3. stray' = Strays(u, c)
  BY DEF Upsert
<1>4. row \in SeatRow
  BY <1>2, SeatIsRow DEF SeatRow
<1>5. seat' = [seat EXCEPT ![u][c] = row]
  BY <1>2 DEF Upsert, Inv, Tables
<1> HIDE DEF u, c, row
<1>6. /\ seat' \in [Users -> [Channels -> SeatRow \cup {None}]]
      /\ \A v \in Users, d \in Channels :
           seat'[v][d] = IF v = u /\ d = c THEN row ELSE seat[v][d]
  BY <1>2, <1>4, <1>5, SeatWritten, Zenon
<1>7. Tables'
  BY <1>1, <1>2, <1>3, <1>6, StraysType DEF Inv, Tables
<1>8. \A v \in Users, d \in Channels :
        /\ Joined(v, d)' => Joined(v, d) \/ (v = u /\ d = c)
        /\ seat[v][d] # None => seat'[v][d] # None
  BY <1>4, <1>6, NoneAssumption DEF Joined
<1> QED BY <1>1, <1>2, <1>3, <1>7, <1>8, SeatTaken

LEMMA InsertChannelKeeps == ASSUME Inv, NEW t \in Tasks, InsertChannel(t) PROVE Inv'
<1> DEFINE u == req[t].user
           row == [joined |-> TRUE, master |-> TRUE]
<1>1. At(t, "insert_channel") /\ Continue(t) /\ UNCHANGED <<space, member, started>>
  BY DEF InsertChannel
<1>2. NoNewLock(t) /\ u \in Users
  BY <1>1, AtType, ContinueOK DEF Inv
<1>3. PICK c \in Channels, p \in BOOLEAN :
        /\ channel' = [channel EXCEPT ![c] = [deleted |-> FALSE, public |-> p]]
        /\ seat' = [seat EXCEPT ![u][c] = row]
        /\ stray' = Strays(u, c)
  BY DEF InsertChannel
<1>4. row \in SeatRow /\ [deleted |-> FALSE, public |-> p] \in ChannelRow
  BY DEF SeatRow, ChannelRow
<1> HIDE DEF u, row
<1>5. /\ seat' \in [Users -> [Channels -> SeatRow \cup {None}]]
      /\ \A v \in Users, d \in Channels :
           seat'[v][d] = IF v = u /\ d = c THEN row ELSE seat[v][d]
  BY <1>2, <1>3, <1>4, SeatWritten, Zenon
<1>6. channel' \in [Channels -> ChannelRow \cup {None}]
  <2>1. channel \in [Channels -> ChannelRow \cup {None}]
    BY DEF Inv, Tables
  <2> QED BY <1>3, <1>4, <2>1
<1>7. Tables'
  BY <1>1, <1>2, <1>3, <1>5, <1>6, StraysType DEF Inv, Tables
<1>8. \A v \in Users, d \in Channels :
        /\ Joined(v, d)' => Joined(v, d) \/ (v = u /\ d = c)
        /\ seat[v][d] # None => seat'[v][d] # None
  BY <1>4, <1>5, NoneAssumption DEF Joined
<1> QED BY <1>1, <1>2, <1>3, <1>7, <1>8, SeatTaken

LEMMA EditChannelKeeps == ASSUME Inv, NEW t \in Tasks, EditChannel(t) PROVE Inv'
<1> DEFINE u == req[t].target
           c == req[t].ch
           b == req[t].role = "grant"
<1>1. At(t, "edit_channel") /\ Continue(t) /\ UNCHANGED <<space, member, stray, started>>
  BY DEF EditChannel
<1>2. NoNewLock(t) /\ u \in Users /\ c \in Channels
  BY <1>1, AtType, ContinueOK DEF Inv
<1>3. /\ channel' \in [Channels -> ChannelRow \cup {None}]
  <2>1. CASE Exists(c)
    <3>1. PICK p \in BOOLEAN : channel' = [channel EXCEPT ![c].public = p]
      BY <2>1 DEF EditChannel
    <3>2. channel[c] \in ChannelRow
      BY <1>2, <2>1 DEF Exists, Inv, Tables
    <3>3. [channel[c] EXCEPT !.public = p] \in ChannelRow
      BY <3>2 DEF ChannelRow
    <3> QED BY <1>2, <3>1, <3>3 DEF Inv, Tables
  <2>2. CASE ~Exists(c)
    BY <2>2 DEF EditChannel, Inv, Tables
  <2> QED BY <2>1, <2>2
<1>4. /\ seat' \in [Users -> [Channels -> SeatRow \cup {None}]]
      /\ \A v \in Users, d \in Channels :
           /\ Joined(v, d)' => Joined(v, d)
           /\ seat[v][d] # None => seat'[v][d] # None
  <2>1. CASE Exists(c) /\ req[t].role # "keep" /\ seat[u][c] # None /\ seat[u][c].joined
    <3>1. seat' = [seat EXCEPT ![u][c].master = b]
      BY <2>1 DEF EditChannel
    <3>2. seat' = [seat EXCEPT ![u][c] = [seat[u][c] EXCEPT !.master = b]]
      BY <1>2, <3>1 DEF Inv, Tables
    <3>3. PICK row \in SeatRow : row = [seat[u][c] EXCEPT !.master = b]
      BY <1>2, <2>1, SeatIsRow
    <3> HIDE DEF u, c, b
    <3>4. seat' = [seat EXCEPT ![u][c] = row]
      BY <3>2, <3>3
    <3>5. /\ seat' \in [Users -> [Channels -> SeatRow \cup {None}]]
          /\ \A v \in Users, d \in Channels :
               seat'[v][d] = IF v = u /\ d = c THEN row ELSE seat[v][d]
      BY <1>2, <3>4, SeatWritten, Zenon
    <3> QED BY <2>1, <3>5, NoneAssumption DEF Joined
  <2>2. CASE ~(Exists(c) /\ req[t].role # "keep" /\ seat[u][c] # None /\ seat[u][c].joined)
    <3>1. seat' = seat
      BY <2>2 DEF EditChannel
    <3> QED BY <3>1 DEF Inv, Tables, Joined
  <2> QED BY <2>1, <2>2
<1>5. Tables' /\ OwnerIsAdmin'
  BY <1>1, <1>3, <1>4 DEF Inv, Tables, OwnerIsAdmin
<1> QED BY <1>1, <1>2, <1>4, <1>5, Quiet

LEMMA UnseatKeeps == ASSUME Inv, NEW t \in Tasks, Unseat(t) PROVE Inv'
<1> DEFINE u == req[t].target
           c == req[t].ch
<1>1. At(t, "unseat") /\ Continue(t) /\ UNCHANGED <<space, member, channel, started>>
  BY DEF Unseat
<1>2. NoNewLock(t) /\ u \in Users /\ c \in Channels
  BY <1>1, AtType, ContinueOK DEF Inv
<1>3. stray' = stray \ {<<u, c>>}
  BY DEF Unseat
<1>4. /\ seat' \in [Users -> [Channels -> SeatRow \cup {None}]]
      /\ \A v \in Users, d \in Channels :
           /\ Joined(v, d)' => Joined(v, d) /\ ~(v = u /\ d = c)
           /\ seat[v][d] # None => seat'[v][d] # None
  <2>1. CASE seat[u][c] # None
    <3>1. seat' = [seat EXCEPT ![u][c].joined = FALSE]
      BY <2>1 DEF Unseat
    <3>2. seat' = [seat EXCEPT ![u][c] = [seat[u][c] EXCEPT !.joined = FALSE]]
      BY <1>2, <3>1 DEF Inv, Tables
    <3>3. /\ [seat[u][c] EXCEPT !.joined = FALSE] \in SeatRow
          /\ ~[seat[u][c] EXCEPT !.joined = FALSE].joined
      BY <1>2, <2>1, SeatIsRow
    <3> HIDE DEF u, c
    <3>4. /\ seat' \in [Users -> [Channels -> SeatRow \cup {None}]]
          /\ \A v \in Users, d \in Channels :
               seat'[v][d] = IF v = u /\ d = c THEN [seat[u][c] EXCEPT !.joined = FALSE]
                                               ELSE seat[v][d]
      BY <1>2, <3>2, <3>3, SeatWritten, Zenon
    <3> QED BY <3>3, <3>4, NoneAssumption DEF Joined
  <2>2. CASE seat[u][c] = None
    <3>1. seat' = seat
      BY <2>2 DEF Unseat
    <3> QED BY <2>2, <3>1 DEF Inv, Tables, Joined
  <2> QED BY <2>1, <2>2
<1> HIDE DEF u, c
<1>5. Tables' /\ OwnerIsAdmin'
  BY <1>1, <1>3, <1>4 DEF Inv, Tables, OwnerIsAdmin
<1> QED BY <1>1, <1>2, <1>3, <1>4, <1>5, Quiet

\* remove_user locks the row it deletes and goes on to the seats.
LEMMA DeleteMemberKeeps == ASSUME Inv, NEW t \in Tasks, DeleteMember(t) PROVE Inv'
<1> DEFINE r == req[t]
           g == member[r.target] # "none"
           q == [r EXCEPT !.gone = g, !.unjoined = {}, !.todo = Tail(@)]
<1>1. At(t, "delete_member") /\ UNCHANGED <<tables, started>>
  BY DEF DeleteMember
<1>2. RequestOK(r) /\ Head(r.todo) = "delete_member" /\ r \in Request
  BY <1>1, AtType
<1>3. r.unjoined = {} /\ r.todo \in Seq(Statements) /\ r.todo # << >> /\ Shaped(r.todo)
  BY <1>2 DEF RequestOK, Held, Request
<1>4. Len(r.todo) # 1 /\ Head(Tail(r.todo)) = "unjoin"
  BY <1>2, <1>3, ShapedHead, TailShaped
<1>5. RequestOK(q)
  BY <1>2, <1>4, NextStatement
<1>6. q.todo = Tail(r.todo) /\ q.unjoined = {} /\ q = [r EXCEPT !.gone = g, !.todo = Tail(@)]
  BY <1>2, <1>3 DEF Request
<1>7. req' = [s \in Tasks |-> IF s = t THEN [r EXCEPT !.gone = g, !.todo = Tail(@)] ELSE req[s]]
  BY <1>2 DEF DeleteMember, Inv, Requests, Request
<1> HIDE DEF r, q, g
<1>8. Requests' /\ (\A s \in Tasks \ {t} : req'[s] = req[s]) /\ req'[t] = q
  BY <1>5, <1>6, <1>7 DEF Inv, Requests
<1>9. UNCHANGED <<space, member, channel, seat, stray, started>>
  BY <1>1 DEF tables
<1>10. Cleared'
  BY <1>4, <1>6, <1>8, <1>9 DEF Inv, Cleared, Joined
<1>11. Found'
  BY <1>6, <1>8, <1>9 DEF Inv, Found
<1> QED BY <1>8, <1>9, <1>10, <1>11 DEF Inv, Tables, NoneLeftBehind, OwnerIsAdmin

\* It locks every seat of its user and goes on to the commit.
LEMMA UnjoinKeeps == ASSUME Inv, NEW t \in Tasks, Unjoin(t) PROVE Inv'
<1> DEFINE r == req[t]
           g == r.gone
           cs == Seats(r.target)
           q == [r EXCEPT !.gone = g, !.unjoined = cs, !.todo = Tail(@)]
<1>1. At(t, "unjoin") /\ UNCHANGED <<tables, started>>
  BY DEF Unjoin
<1>2. RequestOK(r) /\ Head(r.todo) = "unjoin" /\ r \in Request
  BY <1>1, AtType
<1>3. r.todo \in Seq(Statements) /\ r.todo # << >> /\ Shaped(r.todo)
  BY <1>2 DEF RequestOK, Request
<1>4. Len(r.todo) # 1
  BY <1>2, <1>3, ShapedHead
<1>5. cs \in SUBSET Channels /\ g \in BOOLEAN
  BY <1>2 DEF Seats, Request
<1>6. RequestOK(q)
  <2> HIDE DEF r, g, cs
  <2> QED BY <1>2, <1>4, <1>5, NextStatement
<1>7. /\ q.unjoined = cs /\ q.target = r.target
      /\ q = [r EXCEPT !.unjoined = cs, !.todo = Tail(@)]
  BY <1>2 DEF Request
<1>8. req' = [s \in Tasks |-> IF s = t THEN [r EXCEPT !.unjoined = cs, !.todo = Tail(@)]
                                       ELSE req[s]]
  BY <1>2 DEF Unjoin, Inv, Requests, Request
<1>9. /\ \A c \in Channels : Joined(r.target, c) => c \in cs
      /\ \A c \in cs : seat[r.target][c] # None
  BY DEF Joined, Seats
<1> HIDE DEF r, q, g, cs
<1>10. Requests' /\ (\A s \in Tasks \ {t} : req'[s] = req[s]) /\ req'[t] = q
  BY <1>6, <1>7, <1>8 DEF Inv, Requests
<1>11. UNCHANGED <<space, member, channel, seat, stray, started>>
  BY <1>1 DEF tables
<1>12. Cleared'
  <2> SUFFICES ASSUME NEW s \in Tasks, req'[s] # None, req'[s].gone,
                      Head(req'[s].todo) = "commit",
                      NEW c \in Channels, Joined(req'[s].target, c)
               PROVE  c \in req'[s].unjoined \/ <<req'[s].target, c>> \in stray
    BY <1>11 DEF Cleared, Joined
  <2>1. CASE s = t
    BY <1>7, <1>9, <1>10, <2>1
  <2>2. CASE s # t
    BY <1>10, <2>2 DEF Inv, Cleared
  <2> QED BY <2>1, <2>2
<1>13. Found'
  <2> SUFFICES ASSUME NEW s \in Tasks, req'[s] # None, NEW c \in req'[s].unjoined
               PROVE  seat[req'[s].target][c] # None
    BY <1>11 DEF Found
  <2>1. CASE s = t
    BY <1>7, <1>9, <1>10, <2>1
  <2>2. CASE s # t
    BY <1>10, <2>2 DEF Inv, Found
  <2> QED BY <2>1, <2>2
<1> QED BY <1>10, <1>11, <1>12, <1>13 DEF Inv, Tables, NoneLeftBehind, OwnerIsAdmin

\* What the commit of a removal does to the seats: none is taken, those it has found
\* are free, and only their records go.
LEMMA CommitKeeps == ASSUME Inv, NEW t \in Tasks, Commit(t) PROVE Inv'
<1> DEFINE u == req[t].target
           cs == req[t].unjoined
<1>1. At(t, "commit") /\ Continue(t) /\ UNCHANGED <<space, channel, started>>
  BY DEF Commit
<1>2. /\ NoNewLock(t) /\ u \in Users /\ RequestOK(req[t]) /\ req[t] # None
      /\ Head(req[t].todo) = "commit"
  BY <1>1, AtType, ContinueOK DEF Inv
<1>3. /\ member' = [member EXCEPT ![u] = IF req[t].gone THEN "none" ELSE @]
      /\ stray' = stray \ ({u} \X cs)
  BY DEF Commit
<1>4. \A c \in cs : c \in Channels /\ seat[u][c] # None
  BY <1>2 DEF Inv, Found, RequestOK, Request
<1>5. \A c \in cs :
        /\ [seat[u][c] EXCEPT !.joined = FALSE] \in SeatRow
        /\ ~[seat[u][c] EXCEPT !.joined = FALSE].joined
  BY <1>2, <1>4, SeatIsRow
<1>6. seat' = [v \in Users |-> [c \in Channels |->
        IF v = u /\ c \in cs THEN [seat[u][c] EXCEPT !.joined = FALSE] ELSE seat[v][c]]]
  BY <1>2 DEF Commit, Inv, Tables
<1> HIDE DEF u, cs
<1>7. seat' \in [Users -> [Channels -> SeatRow \cup {None}]]
  BY <1>5, <1>6 DEF Inv, Tables
<1>8. \A v \in Users, c \in Channels :
        /\ Joined(v, c)' => Joined(v, c) /\ ~(v = u /\ c \in cs)
        /\ seat[v][c] # None => seat'[v][c] # None
        /\ Joined(v, c)' /\ <<v, c>> \in stray => <<v, c>> \in stray'
  <2> SUFFICES ASSUME NEW v \in Users, NEW c \in Channels
               PROVE  /\ Joined(v, c)' => Joined(v, c) /\ ~(v = u /\ c \in cs)
                      /\ seat[v][c] # None => seat'[v][c] # None
                      /\ Joined(v, c)' /\ <<v, c>> \in stray => <<v, c>> \in stray'
    OBVIOUS
  <2>1. CASE v = u /\ c \in cs
    <3>1. seat'[v][c] \in SeatRow /\ ~seat'[v][c].joined
      BY <1>5, <1>6, <2>1
    <3> QED BY <3>1, NoneAssumption DEF Joined
  <2>2. CASE ~(v = u /\ c \in cs)
    <3>1. seat'[v][c] = seat[v][c]
      BY <1>6, <2>2
    <3> QED BY <1>3, <2>2, <3>1 DEF Joined
  <2> QED BY <2>1, <2>2
<1>9. Tables' /\ OwnerIsAdmin'
  <2>1. member' \in [Users -> Ranks] /\ OwnerIsAdmin'
    BY <1>2, <1>3 DEF Inv, Tables, OwnerIsAdmin, Ranks
  <2>2. stray' \in SUBSET (Users \X Channels)
    BY <1>3 DEF Inv, Tables
  <2> QED BY <1>1, <1>7, <2>1, <2>2 DEF Inv, Tables
<1>10. \A s \in Tasks \ {t} : req'[s] = req[s]
  BY <1>2 DEF NoNewLock
<1>11. Cleared'
  <2> SUFFICES ASSUME NEW s \in Tasks, req'[s] # None, req'[s].gone,
                      Head(req'[s].todo) = "commit",
                      NEW c \in Channels, Joined(req[s].target, c)'
               PROVE  c \in req'[s].unjoined \/ <<req'[s].target, c>> \in stray'
    BY DEF Cleared
  <2>1. req'[s] = req[s] /\ req[s].target \in Users
    BY <1>2 DEF NoNewLock, Requests, RequestOK, Request
  <2> QED BY <1>8, <2>1 DEF Inv, Cleared
<1>12. NoneLeftBehind'
  <2> SUFFICES ASSUME NEW v \in Users, NEW c \in Channels, member'[v] = "none", Joined(v, c)'
               PROVE  <<v, c>> \in stray'
    BY DEF NoneLeftBehind, Joined
  <2>1. CASE member[v] = "none"
    BY <1>8, <2>1 DEF Inv, NoneLeftBehind, Joined
  <2>2. CASE member[v] # "none"
    <3>1. v = u /\ req[t].gone
      BY <1>2, <1>3, <2>2 DEF Inv, Tables
    <3>2. Joined(v, c) /\ c \notin cs
      BY <1>8, <3>1
    <3>3. <<v, c>> \in stray
      BY <1>2, <3>1, <3>2 DEF Inv, Cleared, u, cs
    <3> QED BY <1>8, <3>3
  <2> QED BY <2>1, <2>2
<1> QED BY <1>2, <1>8, <1>9, <1>11, <1>12, FoundKept DEF Inv, NoNewLock

LEMMA WriteKeeps == ASSUME Inv, NEW t \in Tasks, Write(t) PROVE Inv'
BY InsertMemberKeeps, DeleteMemberKeeps, UnjoinKeeps, CommitKeeps, EditSpaceKeeps,
   DeleteSpaceKeeps, InsertChannelKeeps, UpsertKeeps, EditChannelKeeps, DeleteChannelKeeps,
   UnseatKeeps DEF Write

LEMMA NextInv == Inv /\ [Next]_vars => Inv'
<1> SUFFICES ASSUME Inv, [Next]_vars PROVE Inv'
  OBVIOUS
<1>1. CASE Next
  BY <1>1, StartKeeps, ReadKeeps, WriteKeeps, DropKeeps DEF Next
<1>2. CASE UNCHANGED vars
  BY <1>2 DEF vars, Inv, Requests, Tables, Cleared, Found, Joined, NoneLeftBehind, OwnerIsAdmin
<1> QED BY <1>1, <1>2

LEMMA Invariant == Spec => []Inv
<1> QED BY InitInv, NextInv, PTL DEF Spec

-----------------------------------------------------------------------------
(* What the invariant gives.                                               *)

\* Every variable has its type and every request a statement to run.
THEOREM TypeCorrect == Spec => []TypeOK
<1>1. Inv => TypeOK
  BY DEF Inv, Requests, RequestOK, Tables, TypeOK
<1> QED BY <1>1, Invariant, PTL

\* remove_user (spaces/models.rs) leaves no joined row in a channel, but for seats
\* taken behind its back.
THEOREM LeavesNobody == Spec => []NoneLeftBehind
<1>1. Inv => NoneLeftBehind
  BY DEF Inv
<1> QED BY <1>1, Invariant, PTL

\* join and edit (spaces/handlers.rs) never make the owner a plain member.
THEOREM OwnerStaysAdmin == Spec => []OwnerIsAdmin
<1>1. Inv => OwnerIsAdmin
  BY DEF Inv
<1> QED BY <1>1, Invariant, PTL

\* Who waits, waits for a removal: that one is at its commit, or at the seats and
\* waits for one that is.
LEMMA WaitsForRemoval ==
  ASSUME Inv, NEW t \in Tasks, req[t] # None, Waits(t)
  PROVE  \E s \in Tasks : req[s] # None /\ ~Waits(s)
<1>1. ASSUME NEW s \in Tasks, At(s, "commit") PROVE ~Waits(s)
  BY <1>1, AtType DEF Waits, SeatsWritten, At
<1>2. ASSUME NEW s \in Tasks, req[s] # None, req[s].unjoined # {} PROVE At(s, "commit")
  BY <1>2 DEF Inv, Requests, RequestOK, Held, At
<1>3. ASSUME NEW s \in Tasks, At(s, "unjoin"), Waits(s)
      PROVE  \E w \in Tasks : req[w] # None /\ ~Waits(w)
  <2>1. PICK w \in Tasks : req[w] # None /\ req[w].unjoined # {}
    BY <1>3 DEF Waits, At
  <2> QED BY <1>1, <1>2, <2>1
<1>4. PICK s \in Tasks : req[s] # None /\ (req[s].gone \/ req[s].unjoined # {})
  BY DEF Waits
<1>5. At(s, "commit") \/ At(s, "unjoin")
  BY <1>4 DEF Inv, Requests, RequestOK, Held, At
<1> QED BY <1>1, <1>3, <1>4, <1>5

\* The transactions of leave and kick do not block each other, or another writer of
\* their rows, in a circle.
THEOREM GoesOn == Spec => []NoCircle
<1>1. Inv => NoCircle
  BY WaitsForRemoval DEF NoCircle
<1> QED BY <1>1, Invariant, PTL
=============================================================================

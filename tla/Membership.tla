----------------------------- MODULE Membership -----------------------------
(***************************************************************************)
(* Who is in a space and in its channels: the handlers of                  *)
(* spaces/handlers.rs and channels/handlers.rs and their statements on     *)
(* space_members and channel_members.  One space, after its create.        *)
(*                                                                         *)
(* A request runs the statements of its handler one by one; each sees what *)
(* was committed before it (READ COMMITTED), whether the handler has a     *)
(* transaction or not.  remove_user writes two tables before its commit:   *)
(* it keeps the rows it has written locked, and other writers of them      *)
(* wait.  The other transactions write in one step, at their commit: what  *)
(* they hold before it, remove_user never asks for while they wait for it. *)
(***************************************************************************)
EXTENDS Integers, Sequences, FiniteSets

CONSTANTS Tasks,       \* handler futures that can be in flight together
          Users, Owner,
          Channels,    \* ids for channels, those not made yet included
          First,       \* the channel that is made with the space
          Space,       \* the id of the space
          None,
          MaxRequests  \* bound: requests started in a behaviour

ASSUME NamesAssumption == Owner \in Users /\ First \in Channels /\ Space \notin Users
ASSUME BoundAssumption == MaxRequests \in Nat

VARIABLES space,    \* the row of table spaces
          member,   \* rows of space_members: is there one, is it an admin's
          channel,  \* rows of channels
          seat,     \* rows of channel_members
          req,      \* the statements each request has left, and its arguments
          stray,    \* history: seats taken while their user was not, or no longer, in
          started   \* requests started, for the bound

vars == <<space, member, channel, seat, req, stray, started>>
tables == <<space, member, channel, seat, stray>>

Ranks == {"none", "member", "admin"}
SpaceRow == [deleted : BOOLEAN, public : BOOLEAN]
ChannelRow == [deleted : BOOLEAN, public : BOOLEAN]
SeatRow == [joined : BOOLEAN, master : BOOLEAN]

ASSUME NoneAssumption == None \notin SeatRow

\* The statements of each handler, in their order; remove_user's in kick apart.
Handlers(kick_rows) ==
  [join_space     |-> <<"space", "insert_member">>,
   leave_space    |-> <<"delete_member", "unjoin", "commit">>,
   kick           |-> <<"admin", "target">> \o kick_rows \o <<"commit">>,
   edit_space     |-> <<"admin", "edit_space">>,
   delete_space   |-> <<"space", "delete_space">>,
   create_channel |-> <<"space", "member", "insert_channel">>,
   edit_channel   |-> <<"admin", "edit_channel">>,
   delete_channel |-> <<"channel", "member", "delete_channel">>,
   join_channel   |-> <<"channel", "member", "upsert">>,
   add_member     |-> <<"seat", "channel", "member", "upsert">>,
   leave_channel  |-> <<"unseat">>]

\* Defect: kick clears the seats before it deletes the member, leave the other way.
HandlerUnjoinsFirst == Handlers(<<"unjoin", "delete_member">>)
Handler == Handlers(<<"delete_member", "unjoin">>)

\* Handlers that name another user; in the others a user acts for itself.
OnOthers == {"kick", "edit_space", "edit_channel", "add_member"}
\* Handlers of the space as a whole.
OnSpace == {"join_space", "leave_space", "kick", "edit_space", "delete_space"}

Statements == UNION {{Handler[op][i] : i \in DOMAIN Handler[op]} : op \in DOMAIN Handler}

\* What an edit asks for its target: grant_admins or grant_masters, remove_.., neither.
Roles == {"keep", "grant", "remove"}

\* gone: remove_user deleted the row of its user; unjoined: the seats it cleared.
Request == [op : DOMAIN Handler, todo : Seq(Statements), user : Users, target : Users,
            ch : Channels, role : Roles, gone : BOOLEAN, unjoined : SUBSET Channels]

Init ==
  /\ space = [deleted |-> FALSE, public |-> TRUE]
  /\ member \in [Users -> Ranks]
  /\ member[Owner] = "admin" /\ \A u \in Users \ {Owner} : member[u] # "admin"
  /\ channel = [c \in Channels |-> IF c = First THEN [deleted |-> FALSE, public |-> TRUE]
                                               ELSE None]
  /\ seat = [u \in Users |-> [c \in Channels |->
               IF c = First /\ member[u] # "none"
               THEN [joined |-> TRUE, master |-> u = Owner] ELSE None]]
  /\ req = [t \in Tasks |-> None]
  /\ stray = {} /\ started = 0

-----------------------------------------------------------------------------
(* Requests and their statements.                                          *)

Start(t) ==
  /\ req[t] = None /\ started < MaxRequests
  /\ \E op \in DOMAIN Handler, u, v \in Users, c \in Channels, r \in Roles :
       /\ op \notin OnOthers => v = u
       /\ op \in OnSpace => c = First
       /\ op \notin {"edit_space", "edit_channel"} => r = "keep"
       /\ req' = [req EXCEPT ![t] =
                   [op |-> op, todo |-> Handler[op], user |-> u, target |-> v, ch |-> c,
                    role |-> r, gone |-> FALSE, unjoined |-> {}]]
  /\ started' = started + 1
  /\ UNCHANGED tables

At(t, statement) == req[t] # None /\ Head(req[t].todo) = statement
\* Defect: a handler that is not over after its last statement.
ContinueAlways(t) == req' = [req EXCEPT ![t].todo = Tail(@)]

\* The handler goes on to its next statement, or it is over.
Continue(t) ==
  req' = [req EXCEPT ![t] = IF Len(@.todo) = 1 THEN None
                            ELSE [req[t] EXCEPT !.todo = Tail(@)]]
Return(t) == req' = [req EXCEPT ![t] = None]

\* A row is read: the handler goes on or answers with an error.
Look(t, statement, ok) ==
  /\ At(t, statement)
  /\ IF ok THEN Continue(t) ELSE Return(t)
  /\ UNCHANGED <<tables, started>>

Exists(c) == channel[c] # None /\ ~channel[c].deleted

\* get_channel_member.sql joins the channel and the row of the space.
InChannel(u, c) ==
  /\ Exists(c) /\ member[u] # "none"
  /\ seat[u][c] # None /\ seat[u][c].joined

\* Space::get_by_id, with the checks of join (an invite token may be right, whoever
\* sends it) and delete.
SeeSpace(t) ==
  \E invited \in BOOLEAN :
    Look(t, "space",
         /\ ~space.deleted
         /\ req[t].op = "join_space" => space.public \/ invited \/ req[t].user = Owner
         /\ req[t].op = "delete_space" => req[t].user = Owner)

\* SpaceMember::get; admin_only of channels/handlers.rs asks no more than this.
SeeMember(t) == Look(t, "member", member[req[t].user] # "none")
SeeAdmin(t) == Look(t, "admin", member[req[t].user] = "admin")
SeeTarget(t) == Look(t, "target", member[req[t].target] = "member")
SeeSeat(t) == Look(t, "seat", InChannel(req[t].user, req[t].ch))
SeeChannel(t) ==
  Look(t, "channel", /\ Exists(req[t].ch)
                     /\ req[t].op = "join_channel" => channel[req[t].ch].public)

\* A request is dropped at an await, or a statement fails: a transaction is rolled
\* back and its locks are gone.
Drop(t) ==
  /\ req[t] # None
  /\ Return(t)
  /\ UNCHANGED <<tables, started>>

-----------------------------------------------------------------------------
(* Writes.                                                                 *)

Seats(u) == {c \in Channels : seat[u][c] # None}

\* The seats of its target that a statement writes.
SeatsWritten(t) ==
  CASE At(t, "unjoin") -> Seats(req[t].target)
    [] At(t, "upsert") \/ At(t, "unseat") -> {req[t].ch}
    [] At(t, "edit_channel") /\ req[t].role # "keep" -> {req[t].ch}
    [] OTHER -> {}

\* Another transaction has written a row of the statement and has not committed.
Waits(t) ==
  \E s \in Tasks \ {t} :
    /\ req[s] # None /\ req[s].target = req[t].target
    /\ \/ req[s].gone /\ (At(t, "insert_member") \/ At(t, "delete_member"))
       \/ req[s].unjoined \cap SeatsWritten(t) # {}

\* Defect: whoever joins is added with add_user.
InsertMemberPlain(t) ==
  /\ At(t, "insert_member") /\ ~Waits(t)
  /\ LET u == req[t].target IN
       member' = [member EXCEPT ![u] = IF @ # "none" THEN @ ELSE "member"]
  /\ Continue(t)
  /\ UNCHANGED <<space, channel, seat, stray, started>>

InsertMember(t) ==             \* add_admin or add_user; ON CONFLICT DO NOTHING
  /\ At(t, "insert_member") /\ ~Waits(t)
  /\ LET u == req[t].target IN
       member' = [member EXCEPT ![u] = IF @ # "none" THEN @
                                       ELSE IF u = Owner THEN "admin" ELSE "member"]
  /\ Continue(t)
  /\ UNCHANGED <<space, channel, seat, stray, started>>

DeleteMember(t) ==             \* remove_user_from_space.sql, not committed yet
  /\ At(t, "delete_member") /\ ~Waits(t)
  /\ req' = [req EXCEPT ![t].gone = member[req[t].target] # "none", ![t].todo = Tail(@)]
  /\ UNCHANGED <<tables, started>>

\* Defect: the user and the space the wrong way round, as in edit.
UnjoinSwapped(t) ==
  /\ At(t, "unjoin")
  /\ req' = [req EXCEPT ![t].todo = Tail(@)]
  /\ UNCHANGED <<tables, started>>

\* remove_user_by_space.sql, in deleted channels too; not committed yet.
Unjoin(t) ==
  /\ At(t, "unjoin") /\ ~Waits(t)
  /\ req' = [req EXCEPT ![t].unjoined = Seats(req[t].target), ![t].todo = Tail(@)]
  /\ UNCHANGED <<tables, started>>

Commit(t) ==                   \* of leave and kick
  /\ At(t, "commit")
  /\ LET u == req[t].target IN
       /\ member' = [member EXCEPT ![u] = IF req[t].gone THEN "none" ELSE @]
       /\ seat' = [seat EXCEPT ![u] = [c \in Channels |->
                    IF c \in req[t].unjoined THEN [@[c] EXCEPT !.joined = FALSE] ELSE @[c]]]
       /\ stray' = stray \ ({u} \X req[t].unjoined)
  /\ Continue(t)
  /\ UNCHANGED <<space, channel, started>>

\* SpaceMember::set_admin(user_id, space_id, is_admin): an UPDATE of the row of that
\* pair, if there is one.
SetAdmin(user_id, space_id, is_admin) ==
  member' = [u \in Users |->
    IF u = user_id /\ space_id = Space /\ member[u] # "none"
    THEN IF is_admin THEN "admin" ELSE "member" ELSE member[u]]

\* Space::edit, then grant_admins and remove_admins when the owner asks.  The
\* handler passes the space where set_admin takes the user, and the user for the space.
EditSpace(t) ==
  /\ At(t, "edit_space")
  /\ \E p \in BOOLEAN : space' = [space EXCEPT !.public = p]
  /\ LET v == req[t].target
         grants == req[t].role = "grant"
         removes == req[t].role = "remove" /\ v # Owner
     IN IF req[t].user = Owner /\ (grants \/ removes) THEN SetAdmin(Space, v, grants)
                                                      ELSE UNCHANGED member
  /\ Continue(t)
  /\ UNCHANGED <<channel, seat, stray, started>>

DeleteSpace(t) ==
  /\ At(t, "delete_space")
  /\ space' = [space EXCEPT !.deleted = TRUE]
  /\ Continue(t)
  /\ UNCHANGED <<member, channel, seat, stray, started>>

\* A seat is taken for good when its user is in the space and no transaction that
\* removes the user has looked for seats already.
Strays(u, c) ==
  IF member[u] = "none" \/ \E s \in Tasks :
       req[s] # None /\ req[s].target = u /\ req[s].gone /\ req[s].todo = <<"commit">>
  THEN stray \cup {<<u, c>>} ELSE stray

InsertChannel(t) ==            \* Channel::create and add_user as its master
  /\ At(t, "insert_channel")
  /\ \E c \in {d \in Channels : channel[d] = None}, p \in BOOLEAN :
       /\ channel' = [channel EXCEPT ![c] = [deleted |-> FALSE, public |-> p]]
       /\ seat' = [seat EXCEPT ![req[t].user][c] = [joined |-> TRUE, master |-> TRUE]]
       /\ stray' = Strays(req[t].user, c)
  /\ Continue(t)
  /\ UNCHANGED <<space, member, started>>

Upsert(t) ==                   \* add_user_to_channel.sql keeps is_master of an old row
  /\ At(t, "upsert") /\ ~Waits(t)
  /\ LET u == req[t].target
         c == req[t].ch
     IN /\ seat' = [seat EXCEPT ![u][c] =
                     [joined |-> TRUE, master |-> IF @ = None THEN FALSE ELSE @.master]]
        /\ stray' = Strays(u, c)
  /\ Continue(t)
  /\ UNCHANGED <<space, member, channel, started>>

\* edit_channel.sql, and set_master for a joined member; .ok() ignores that there is
\* none, but nothing is edited in a deleted channel.
EditChannel(t) ==
  /\ At(t, "edit_channel") /\ ~Waits(t)
  /\ LET u == req[t].target
         c == req[t].ch
     IN IF ~Exists(c) THEN UNCHANGED <<channel, seat>>
        ELSE /\ \E p \in BOOLEAN : channel' = [channel EXCEPT ![c].public = p]
             /\ seat' = IF req[t].role # "keep" /\ seat[u][c] # None /\ seat[u][c].joined
                        THEN [seat EXCEPT ![u][c].master = req[t].role = "grant"]
                        ELSE seat
  /\ Continue(t)
  /\ UNCHANGED <<space, member, stray, started>>

DeleteChannel(t) ==
  /\ At(t, "delete_channel")
  /\ channel' = IF Exists(req[t].ch) THEN [channel EXCEPT ![req[t].ch].deleted = TRUE]
                                     ELSE channel
  /\ Continue(t)
  /\ UNCHANGED <<space, member, seat, stray, started>>

Unseat(t) ==                   \* ChannelMember::remove_user
  /\ At(t, "unseat") /\ ~Waits(t)
  /\ LET u == req[t].target
         c == req[t].ch
     IN /\ seat' = IF seat[u][c] = None THEN seat ELSE [seat EXCEPT ![u][c].joined = FALSE]
        /\ stray' = stray \ {<<u, c>>}
  /\ Continue(t)
  /\ UNCHANGED <<space, member, channel, started>>

-----------------------------------------------------------------------------
Read(t) == SeeSpace(t) \/ SeeMember(t) \/ SeeAdmin(t) \/ SeeTarget(t) \/ SeeSeat(t)
           \/ SeeChannel(t)
Write(t) == InsertMember(t) \/ DeleteMember(t) \/ Unjoin(t) \/ Commit(t) \/ EditSpace(t)
            \/ DeleteSpace(t) \/ InsertChannel(t) \/ Upsert(t) \/ EditChannel(t)
            \/ DeleteChannel(t) \/ Unseat(t)

Next == \E t \in Tasks : Start(t) \/ Read(t) \/ Write(t) \/ Drop(t)

Spec == Init /\ [][Next]_vars

-----------------------------------------------------------------------------
(* Properties.                                                             *)

TypeOK ==
  /\ space \in SpaceRow
  /\ member \in [Users -> Ranks]
  /\ channel \in [Channels -> ChannelRow \cup {None}]
  /\ seat \in [Users -> [Channels -> SeatRow \cup {None}]]
  /\ \A t \in Tasks : req[t] = None \/ (req[t] \in Request /\ req[t].todo # << >>)
  /\ stray \in SUBSET (Users \X Channels)
  /\ started \in 0 .. MaxRequests

\* Who leaves a space or is kicked leaves no joined row of channel_members behind
\* (SpaceMember::remove_user), but for seats taken, or given by add_member, after
\* remove_user looked for them or while the user was not in the space: the checks of
\* join, add_member and create may be stale when they write.
NoneLeftBehind ==
  \A u \in Users, c \in Channels :
    member[u] = "none" /\ seat[u][c] # None /\ seat[u][c].joined => <<u, c>> \in stray

\* An owner who is in the space is an admin of it, also after leaving, joining again
\* and any edit of the admins: edit, kick and delete_channel would have nobody left.
OwnerIsAdmin == member[Owner] # "member"

\* Transactions never wait for each other in a circle: as long as a request is under
\* way, one of them can go on.  remove_user locks the row of the space before those of
\* the channels, and no transaction locks them the other way.
NoCircle ==
  (\E t \in Tasks : req[t] # None) => \E t \in Tasks : req[t] # None /\ ~Waits(t)

\* An edit by the owner that succeeds makes the members it names in grant_admins
\* admins: set_admin (spaces/models.rs:245) declares the user before the space.
GrantTakesEffect ==
  [][\A t \in Tasks :
       EditSpace(t) /\ req[t].user = Owner /\ req[t].role = "grant"
         /\ member[req[t].target] # "none"
         => member'[req[t].target] = "admin"]_vars
=============================================================================

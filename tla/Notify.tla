------------------------------- MODULE Notify -------------------------------
(***************************************************************************)
(* What the clients of a space are told of a change: the handlers that     *)
(* edit, move, fold and delete one message (messages/handlers.rs), those   *)
(* that change the members of one channel (channels/handlers.rs), and the  *)
(* events they spawn (events/events.rs).                                   *)
(*                                                                         *)
(* Handlers interleave at their statements.  The event of a message        *)
(* carries the row as the handler's own UPDATE returned it; the event of a *)
(* member list is read from the tables by the spawned task.  Spawned tasks *)
(* run in any order.  Which of the events is the last decides what a       *)
(* client shows; how it gets to a client is the matter of Mailbox.         *)
(***************************************************************************)
EXTENDS Naturals, FiniteSets

CONSTANTS Reqs,      \* handler futures that can be in flight together
          Ops,       \* the handlers that are called
          Texts, Places,
          People,    \* users who join and leave the channel
          NoReq, Gone,
          MaxReqs    \* bound: requests started in a behaviour

OnMessage == {"edit", "media", "move", "toggle", "delete"}
OnMembers == {"join", "leave"}

ASSUME OpsAssumption == Ops \subseteq OnMessage \cup OnMembers
ASSUME NamesAssumption == NoReq \notin Reqs /\ Texts # {} /\ Places # {}
ASSUME BoundAssumption == MaxReqs \in Nat

\* A message as clients see it: RETURNING messages, without its deleted column.
Look == [text : Texts, folded : BOOLEAN, pos : Places]
ASSUME GoneAssumption == Gone \notin Look

Steps == {"look", "write", "commit", "fire"}

\* The locals of a handler; copy is its models::Message.
Request == [op : Ops, step : Steps, n : 1 .. MaxReqs, text : Texts, pos : Places,
            user : People, copy : Look]
ASSUME RequestAssumption == NoReq \notin Request

VARIABLES row, deleted,  \* the message
          members,       \* who the tables have in the channel
          lock,          \* the open transaction that has updated the row
          req,           \* where each handler is, and its locals
          fires,         \* events of the message not yet broadcast
          fetches,       \* tasks of push_members not yet done
          shown,         \* the last event of the message
          shownMembers,  \* the last event of the member list
          want,          \* history: what the committed requests asked for
          crossed,       \* history: two toggles read the same value
          dirty,         \* history: the last change was told out of turn, or not at all
          dirtyMembers,  \* the same for the member list
          started

vars == <<row, deleted, members, lock, req, fires, fetches, shown, shownMembers,
          want, crossed, dirty, dirtyMembers, started>>
message == <<row, deleted, lock, want, crossed, dirty>>
list == <<members, dirtyMembers>>
told == <<shown, shownMembers>>
tasks == <<fires, fetches>>

Init ==
  /\ row = CHOOSE l \in Look : ~l.folded           \* any one: they are alike
  /\ deleted = FALSE
  /\ members = {}
  /\ lock = NoReq
  /\ req = [r \in Reqs |-> NoReq]
  /\ fires = {[n |-> 0, body |-> row]}            \* its NewMessage
  /\ fetches = {}
  /\ shown = Gone /\ shownMembers = members
  /\ want = row
  /\ crossed = FALSE /\ dirty = FALSE /\ dirtyMembers = FALSE
  /\ started = 0

Busy(r) == req[r] # NoReq
At(r, step) == Busy(r) /\ req[r].step = step
Goto(r, step) == req' = [req EXCEPT ![r].step = step]
Return(r) == req' = [req EXCEPT ![r] = NoReq]

-----------------------------------------------------------------------------
(* A handler up to its answer.                                             *)

\* media: an edit that sets nothing but media_id.
Start(r) ==
  /\ ~Busy(r) /\ started < MaxReqs
  /\ \E op \in Ops, t \in Texts, p \in Places, u \in People :
       /\ op # "edit" => t = row.text                   \* arguments not used
       /\ op # "move" => p = row.pos
       /\ req' = [req EXCEPT ![r] =
                [op |-> op, step |-> IF op \in OnMessage THEN "look" ELSE "write",
                 n |-> started + 1, text |-> t, pos |-> p, user |-> u, copy |-> row]]
  /\ started' = started + 1
  /\ UNCHANGED <<message, list, tasks, told>>

\* Message::get does not see a deleted row.  The rights are looked up after it and
\* may be missing: that is Drop.
See(r) ==
  /\ At(r, "look")
  /\ IF deleted THEN Return(r)
     ELSE req' = [req EXCEPT ![r].copy = row,
                             ![r].step = IF req[r].op = "media" THEN "commit" ELSE "write"]
  /\ UNCHANGED <<message, list, tasks, told, started>>

\* Defect: the columns an UPDATE is not to change are written as they were read.
WrittenAsSeen(r) ==
  CASE req[r].op = "edit"   -> [req[r].copy EXCEPT !.text = req[r].text]
    [] req[r].op = "move"   -> [req[r].copy EXCEPT !.pos = req[r].pos]
    [] req[r].op = "toggle" -> [req[r].copy EXCEPT !.folded = ~@]

\* The row after the UPDATE: COALESCE keeps what is there now, not what was read;
\* only folded comes from the handler's own copy.
Written(r) ==
  CASE req[r].op = "edit"   -> [row EXCEPT !.text = req[r].text]
    [] req[r].op = "move"   -> [row EXCEPT !.pos = req[r].pos]
    [] req[r].op = "toggle" -> [row EXCEPT !.folded = ~req[r].copy.folded]

\* An event that carries an older look is still to come.
Pending(r) ==
  \/ fires # {}
  \/ \E q \in Reqs \ {r} : /\ Busy(q) /\ req[q].op \in OnMessage
                           /\ \/ req[q].step = "fire"
                              \/ req[q].op = "media" /\ req[q].step = "commit"

\* A change of the message is committed, and what is to be said of it from now on.
Committed(r, l) ==
  /\ row' = l
  /\ dirty' = (Pending(r) \/ deleted)
  /\ want' = CASE req[r].op = "edit"   -> [want EXCEPT !.text = req[r].text]
               [] req[r].op = "move"   -> [want EXCEPT !.pos = req[r].pos]
               [] req[r].op = "toggle" -> [want EXCEPT !.folded = ~@]
  /\ UNCHANGED deleted

\* Defect: the event is fired before the commit.
UpdateAndFire(r) ==
  /\ At(r, "write") /\ lock = NoReq /\ req[r].op \in {"edit", "move"}
  /\ lock' = r
  /\ req' = [req EXCEPT ![r].copy = Written(r), ![r].step = "commit"]
  /\ fires' = fires \cup {[n |-> req[r].n, body |-> Written(r)]}
  /\ UNCHANGED <<row, deleted, want, crossed, dirty, fetches, list, told, started>>

\* edit and move_between have a transaction: the row is locked, and seen by others
\* as it was, until its commit.
Update(r) ==
  /\ At(r, "write") /\ lock = NoReq /\ req[r].op \in {"edit", "move"}
  /\ lock' = r
  /\ req' = [req EXCEPT ![r].copy = Written(r), ![r].step = "commit"]
  /\ UNCHANGED <<row, deleted, want, crossed, dirty, list, tasks, told, started>>

Commit(r) ==
  /\ At(r, "commit")
  /\ IF req[r].op = "media" THEN UNCHANGED message
     ELSE /\ Committed(r, req[r].copy)
          /\ lock' = NoReq
          /\ UNCHANGED crossed
  /\ Goto(r, "fire")
  /\ UNCHANGED <<list, tasks, told, started>>

\* toggle_fold has no transaction: what it read may be old, and counts.
Toggle(r) ==
  /\ At(r, "write") /\ lock = NoReq /\ req[r].op = "toggle"
  /\ Committed(r, Written(r))
  /\ crossed' = (crossed \/ \E q \in Reqs \ {r} : At(q, "write") /\ req[q].op = "toggle")
  /\ req' = [req EXCEPT ![r].copy = Written(r), ![r].step = "fire"]
  /\ UNCHANGED <<lock, list, tasks, told, started>>

Delete(r) ==
  /\ At(r, "write") /\ lock = NoReq /\ req[r].op = "delete"
  /\ deleted' = TRUE /\ dirty' = Pending(r)
  /\ Goto(r, "fire")
  /\ UNCHANGED <<row, lock, want, crossed, list, tasks, told, started>>

\* A task that has its list from before the change may still send it after.
Change(r) ==
  /\ At(r, "write") /\ req[r].op \in OnMembers
  /\ members' = IF req[r].op = "join" THEN members \cup {req[r].user}
                ELSE members \ {req[r].user}
  /\ dirtyMembers' = \E f \in fetches : f.has
  /\ Goto(r, "fire")
  /\ UNCHANGED <<message, tasks, told, started>>

\* Defect: a transaction that is dropped stays open.
DropKeepsLock(r) ==
  /\ Busy(r)
  /\ dirty' = (dirty \/ (At(r, "fire") /\ req[r].op \in OnMessage \ {"media"}))
  /\ dirtyMembers' = (dirtyMembers \/ (At(r, "fire") /\ req[r].op \in OnMembers))
  /\ Return(r)
  /\ UNCHANGED <<row, deleted, lock, want, crossed, members, tasks, told, started>>

\* The client hangs up, a right is missing, a statement fails: the transaction is
\* rolled back.  After the commit what was committed stays, and nobody is told.
Drop(r) ==
  /\ Busy(r)
  /\ lock' = IF lock = r THEN NoReq ELSE lock
  /\ dirty' = (dirty \/ (At(r, "fire") /\ req[r].op \in OnMessage \ {"media"}))
  /\ dirtyMembers' = (dirtyMembers \/ (At(r, "fire") /\ req[r].op \in OnMembers))
  /\ Return(r)
  /\ UNCHANGED <<row, deleted, want, crossed, members, tasks, told, started>>

-----------------------------------------------------------------------------
(* Events.                                                                 *)

Event(r) == [n |-> req[r].n, body |-> IF req[r].op = "delete" THEN Gone ELSE req[r].copy]
Task(r) == [n |-> req[r].n, has |-> FALSE, list |-> {}]

\* Defect: who leaves is not announced.
FireJoinOnly(r) ==
  /\ At(r, "fire")
  /\ fires' = IF req[r].op \in OnMessage THEN fires \cup {Event(r)} ELSE fires
  /\ fetches' = IF req[r].op = "join" THEN fetches \cup {Task(r)} ELSE fetches
  /\ Return(r)
  /\ UNCHANGED <<message, list, told, started>>

\* Defect: a delete is not announced.
FireEditsOnly(r) ==
  /\ At(r, "fire")
  /\ fires' = IF req[r].op \in OnMessage \ {"delete"} THEN fires \cup {Event(r)} ELSE fires
  /\ fetches' = IF req[r].op \in OnMembers THEN fetches \cup {Task(r)} ELSE fetches
  /\ Return(r)
  /\ UNCHANGED <<message, list, told, started>>

\* message_edited, message_deleted and push_members spawn a task each.
Fire(r) ==
  /\ At(r, "fire")
  /\ fires' = IF req[r].op \in OnMessage THEN fires \cup {Event(r)} ELSE fires
  /\ fetches' = IF req[r].op \in OnMembers THEN fetches \cup {Task(r)} ELSE fetches
  /\ Return(r)
  /\ UNCHANGED <<message, list, told, started>>

Broadcast(e) ==
  /\ e \in fires
  /\ fires' = fires \ {e}
  /\ shown' = e.body
  /\ UNCHANGED <<message, list, req, fetches, shownMembers, started>>

FetchMembers(f) ==                     \* Member::get_by_channel
  /\ f \in fetches /\ ~f.has
  /\ fetches' = (fetches \ {f}) \cup {[f EXCEPT !.has = TRUE, !.list = members]}
  /\ UNCHANGED <<message, list, req, fires, told, started>>

SendMembers(f) ==                      \* Event::send to the space
  /\ f \in fetches /\ f.has
  /\ fetches' = fetches \ {f}
  /\ shownMembers' = f.list
  /\ UNCHANGED <<message, list, req, fires, shown, started>>

\* No connection, or the channel is deleted: a warning is logged.
FetchFails(f) ==
  /\ f \in fetches /\ ~f.has
  /\ fetches' = fetches \ {f}
  /\ dirtyMembers' = TRUE
  /\ UNCHANGED <<message, members, req, fires, told, started>>

-----------------------------------------------------------------------------
Handle(r) == See(r) \/ Update(r) \/ Commit(r) \/ Toggle(r) \/ Delete(r) \/ Change(r) \/ Fire(r)
Deliver(f) == FetchMembers(f) \/ SendMembers(f)

Next ==
  \/ \E r \in Reqs : Start(r) \/ Handle(r) \/ Drop(r)
  \/ \E e \in fires : Broadcast(e)
  \/ \E f \in fetches : Deliver(f) \/ FetchFails(f)

Spec == Init /\ [][Next]_vars

\* Handlers and spawned tasks are polled until they are done.
FairSpec ==
  /\ Spec
  /\ \A r \in Reqs : WF_vars(Handle(r))
  /\ WF_vars(\E e \in fires : Broadcast(e))
  /\ WF_vars(\E f \in fetches : Deliver(f))

-----------------------------------------------------------------------------
(* Properties.                                                             *)

Fetch == [n : 1 .. MaxReqs, has : BOOLEAN, list : SUBSET People]

TypeOK ==
  /\ row \in Look /\ deleted \in BOOLEAN /\ members \in SUBSET People
  /\ lock \in Reqs \cup {NoReq}
  /\ lock # NoReq => At(lock, "commit")
  /\ req \in [Reqs -> Request \cup {NoReq}]
  /\ fires \in SUBSET [n : 0 .. MaxReqs, body : Look \cup {Gone}]
  /\ fetches \in SUBSET Fetch
  /\ shown \in Look \cup {Gone} /\ shownMembers \in SUBSET People
  /\ want \in Look
  /\ crossed \in BOOLEAN /\ dirty \in BOOLEAN /\ dirtyMembers \in BOOLEAN
  /\ started \in 0 .. MaxReqs

\* No request undoes the change of another: text and place are those of the last
\* edit and the last move, however they overlapped, and the message is folded when
\* an odd number of toggles were answered, unless two of them read the same value.
NothingLost ==
  /\ row.text = want.text /\ row.pos = want.pos
  /\ crossed \/ row.folded = want.folded

Now == IF deleted THEN Gone ELSE row
Untold(ops) == \E r \in Reqs : At(r, "fire") /\ req[r].op \in ops

\* With no event on its way the clients show the message as it is, unless the last
\* change was made while the event of another was pending, was made on a message
\* that a delete had just taken, or was dropped before its event.
ShownIsCurrent ==
  fires = {} /\ ~Untold(OnMessage) /\ ~dirty => shown = Now

\* The member list is the one in the tables, unless a task held the list from
\* before the last change, or a push was lost.
MembersCurrent ==
  fetches = {} /\ ~Untold(OnMembers) /\ ~dirtyMembers => shownMembers = members

\* Every change is told in the end: the handler fires, and no task of another
\* handler keeps the event back.
EventuallyTold ==
  <>[]((dirty \/ shown = Now) /\ (dirtyMembers \/ shownMembers = members))
=============================================================================

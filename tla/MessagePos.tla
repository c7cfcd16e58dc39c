----------------------------- MODULE MessagePos -----------------------------
(***************************************************************************)
(* How a message gets its place in a channel: the position allocator in    *)
(* Redis (pos.rs), Message::create with its single retry on a unique       *)
(* violation, and the statements that move, edit and delete rows           *)
(* (messages/models.rs).  One channel.                                     *)
(*                                                                         *)
(* A request is a handler future: between two awaits it is alone, at an    *)
(* await any other request may run, and it may be dropped there (the       *)
(* client hangs up, Redis or Postgres fails).  Each Redis command and each *)
(* SQL statement is one action.                                            *)
(*                                                                         *)
(* A position is a FLOAT8 column.  Here it is a natural number of halves:  *)
(* the allocator hands out whole numbers, and a half stands for the        *)
(* fractions that moves create between them.                               *)
(***************************************************************************)
EXTENDS Integers, FiniteSets, FiniteSetsExt

CONSTANTS Reqs,          \* handler futures that can be in flight together
          ClientIds,     \* message ids drawn by clients (preview, then send)
          FreshIds,      \* ids drawn by the database: uuid_generate_v1mc()
          NoId,          \* message_id: None
          NoRow,         \* no such row
          Texts,         \* message texts
          Blank,         \* the empty text, which get shows for a hidden whisper
          EditTexts,     \* texts an edit may set
          Whispers,      \* whether a client may whisper: subset of BOOLEAN
          RequestedPos,  \* positions a client may ask for in NewMessage.pos
          Targets,       \* end points a client may give to a move
          DefaultPos,    \* COALESCE(max(pos), 42.0), in whole positions
          MaxSends       \* bound: requests started in a behaviour

Ids == ClientIds \cup FreshIds
NoPos == -1
Halves(n) == 2 * n
Ceil(p) == (p + 1) \div 2

ASSUME IdsAssumption ==
  /\ ClientIds \cap FreshIds = {} /\ IsFiniteSet(Ids)
  /\ NoId \notin Ids
ASSUME TextsAssumption ==
  Blank \notin Texts /\ EditTexts \subseteq Texts /\ Whispers \subseteq BOOLEAN
ASSUME NumbersAssumption ==
  /\ DefaultPos \in Nat /\ MaxSends \in Nat
  /\ RequestedPos \subseteq Nat /\ Targets \subseteq Nat

\* Who chose a position: the allocator, the client (NewMessage.pos) or a move.
Placers == {"alloc", "client", "move"}

\* sent: the text first stored; text: the text now; origin: the id the client sent.
Row == [origin : ClientIds \cup {NoId}, sent : Texts \cup {Blank},
        text : Texts \cup {Blank}, pos : Nat,
        whisper : BOOLEAN, modified : BOOLEAN, deleted : BOOLEAN, by : Placers]

ASSUME NoRowAssumption == NoRow \notin Row

PCs == {"idle", "get_pos", "get_max", "read_max", "set_nx", "incr", "pin",
        "previewed", "insert", "check_id", "check_pos", "reset", "unpin",
        "insert_again", "finish", "duplicate", "failed"}

Kinds == {"send", "preview"}

VARIABLES row,      \* the channel's rows of table messages, by primary key
          maxPos,   \* Redis key channel:<id>:max_pos, a counter
          posKey,   \* Redis keys channel:<id>:preview:<message>:pos
          pc, req,  \* where each request is, and its local variables
          handed,   \* history: numbers INCR returned since the key was last deleted
          hadReset, \* history: reset_channel_pos has run
          sends     \* requests started, for the bound

vars == <<row, maxPos, posKey, pc, req, handed, hadReset, sends>>
redis == <<maxPos, posKey>>
ghosts == <<handed, hadReset, sends>>

Request == [kind : Kinds, origin : ClientIds \cup {NoId}, id : ClientIds \cup {NoId},
            text : Texts \cup {Blank}, whisper : BOOLEAN, pos : Nat \cup {NoPos},
            by : Placers, initial : Nat, retry : BOOLEAN]

IdleRequest == [kind |-> "send", origin |-> NoId, id |-> NoId, text |-> Blank,
                whisper |-> FALSE, pos |-> NoPos, by |-> "client", initial |-> 0,
                retry |-> FALSE]

Stored == {i \in Ids : row[i] # NoRow}
Taken(p) == \E i \in Stored : row[i].pos = p
\* Defect: the maximum over the messages a reader sees.
MaxVisiblePos ==
  LET seen == {i \in Stored : ~row[i].deleted}
  IN IF seen = {} THEN DefaultPos ELSE Max({Ceil(row[i].pos) : i \in seen})

\* SELECT COALESCE(max(pos), 42.0), rounded up: deleted rows count too
MaxRowPos == IF Stored = {} THEN DefaultPos
             ELSE Max({Ceil(row[i].pos) : i \in Stored})

\* A table that already has a message, and a Redis that has no key yet, are
\* the states a channel is found in after a restart of Redis.
OldRow(p) == [origin |-> NoId, sent |-> Blank, text |-> Blank, pos |-> Halves(p),
              whisper |-> FALSE, modified |-> FALSE, deleted |-> FALSE, by |-> "alloc"]

Init ==
  /\ \/ row = [i \in Ids |-> NoRow]
     \/ \E f \in FreshIds :
          row = [i \in Ids |-> IF i = f THEN OldRow(DefaultPos + 2) ELSE NoRow]
  /\ maxPos = NoPos
  /\ posKey = [i \in ClientIds |-> NoPos]
  /\ pc = [r \in Reqs |-> "idle"]
  /\ req = [r \in Reqs |-> IdleRequest]
  /\ handed = {} /\ hadReset = FALSE /\ sends = 0

Goto(r, l) == pc' = [pc EXCEPT ![r] = l]
\* The handler is over: its future, and the local variables with it, is gone.
Return(r) == /\ pc' = [pc EXCEPT ![r] = "idle"]
             /\ req' = [req EXCEPT ![r] = IdleRequest]

-----------------------------------------------------------------------------
(* Arrivals.                                                               *)

\* POST /messages/send reaches Message::create: which of the three ways to
\* a position it takes depends on request_pos and message_id.
Send(r) ==
  /\ pc[r] = "idle" /\ sends < MaxSends
  /\ \E i \in ClientIds \cup {NoId}, t \in Texts, w \in Whispers,
        p \in RequestedPos \cup {NoPos} :
       /\ req' = [req EXCEPT ![r] =
                   [kind |-> "send", origin |-> i, id |-> i, text |-> t, whisper |-> w,
                    pos |-> p, by |-> IF p = NoPos THEN "alloc" ELSE "client", initial |-> 0,
                    retry |-> FALSE]]
       /\ Goto(r, IF p # NoPos THEN "insert"
                  ELSE IF i # NoId THEN "get_pos" ELSE "get_max")
  /\ sends' = sends + 1
  /\ UNCHANGED <<row, redis, handed, hadReset>>

\* A preview from the websocket pins a position for a message not yet sent.
Preview(r) ==
  /\ pc[r] = "idle" /\ sends < MaxSends
  /\ \E i \in ClientIds :
       req' = [req EXCEPT ![r] =
                [kind |-> "preview", origin |-> i, id |-> i, text |-> Blank, whisper |-> FALSE,
                 pos |-> NoPos, by |-> "alloc", initial |-> 0, retry |-> FALSE]]
  /\ Goto(r, "get_pos")
  /\ sends' = sends + 1
  /\ UNCHANGED <<row, redis, handed, hadReset>>

-----------------------------------------------------------------------------
(* pos.rs: a position for the request.                                     *)

\* Where a request that has its position goes on.
AfterPos(r) == CASE req[r].kind = "preview" -> "previewed"
                 [] req[r].retry            -> "insert_again"
                 [] OTHER                   -> "insert"

\* Defect: GET's answer used without a look at whether the key is there.
GetPosUnchecked(r) ==
  /\ pc[r] = "get_pos"
  /\ req' = [req EXCEPT ![r].pos = Halves(posKey[req[r].id])]
  /\ Goto(r, AfterPos(r))
  /\ UNCHANGED <<row, redis, ghosts>>

GetPos(r) ==                                \* GET the pinned position
  /\ pc[r] = "get_pos"
  /\ LET p == posKey[req[r].id] IN
       IF p # NoPos THEN /\ req' = [req EXCEPT ![r].pos = Halves(p)]
                         /\ Goto(r, AfterPos(r))
                    ELSE /\ Goto(r, "get_max") /\ UNCHANGED req
  /\ UNCHANGED <<row, redis, ghosts>>

GetMax(r) ==                                \* GET max_pos, only to see if it is there
  /\ pc[r] = "get_max"
  /\ Goto(r, IF maxPos # NoPos THEN "incr" ELSE "read_max")
  /\ UNCHANGED <<row, redis, req, ghosts>>

ReadMax(r) ==                               \* Message::max_pos(..).ceil()
  /\ pc[r] = "read_max"
  /\ req' = [req EXCEPT ![r].initial = MaxRowPos]
  /\ Goto(r, "set_nx")
  /\ UNCHANGED <<row, redis, ghosts>>

\* Defect: SET where SETNX is meant.
SetAlways(r) ==
  /\ pc[r] = "set_nx"
  /\ maxPos' = req[r].initial + 1
  /\ Goto(r, "incr")
  /\ UNCHANGED <<row, posKey, req, ghosts>>

SetNx(r) ==                                 \* SETNX max_pos initial + 1
  /\ pc[r] = "set_nx"
  /\ maxPos' = IF maxPos = NoPos THEN req[r].initial + 1 ELSE maxPos
  /\ Goto(r, "incr")
  /\ UNCHANGED <<row, posKey, req, ghosts>>

\* INCR max_pos: a missing key counts from zero.
Incremented == IF maxPos = NoPos THEN 1 ELSE maxPos + 1

Incr(r) ==
  /\ pc[r] = "incr"
  /\ maxPos' = Incremented
  /\ handed' = handed \cup {Incremented}
  /\ req' = [req EXCEPT ![r].pos = Halves(Incremented)]
  /\ Goto(r, IF req[r].id # NoId /\ ~req[r].retry THEN "pin" ELSE AfterPos(r))
  /\ UNCHANGED <<row, posKey, hadReset, sends>>

Pin(r) ==                                   \* SETEX the pinned position, 5 minutes
  /\ pc[r] = "pin"
  /\ posKey' = [posKey EXCEPT ![req[r].id] = req[r].pos \div 2]
  /\ Goto(r, AfterPos(r))
  /\ UNCHANGED <<row, maxPos, req, ghosts>>

\* PreviewPost::broadcast after pos(): the sender may not be a member, and
\* only a blank text finishes the preview.
PreviewEnd(r) ==
  /\ pc[r] = "previewed"
  /\ \/ UNCHANGED posKey
     \/ posKey' = [posKey EXCEPT ![req[r].id] = NoPos]
  /\ Return(r)
  /\ UNCHANGED <<row, maxPos, ghosts>>

-----------------------------------------------------------------------------
(* Message::create.                                                        *)

Store(r, i) ==
  row' = [row EXCEPT ![i] =
           [origin |-> req[r].origin, sent |-> req[r].text, text |-> req[r].text,
            pos |-> req[r].pos, whisper |-> req[r].whisper, modified |-> FALSE,
            deleted |-> FALSE, by |-> req[r].by]]

\* INSERT with COALESCE(message_id, uuid_generate_v1mc()) succeeds: neither
\* the primary key nor UNIQUE (channel_id, pos) is taken, by a deleted row
\* either.
InsertRow(r) ==
  /\ ~Taken(req[r].pos)
  /\ \E i \in IF req[r].id = NoId THEN FreshIds ELSE {req[r].id} :
       row[i] = NoRow /\ Store(r, i)
  /\ Goto(r, "finish")

UniqueViolation(r) == \/ Taken(req[r].pos)
                      \/ req[r].id # NoId /\ row[req[r].id] # NoRow

Insert(r) ==
  /\ pc[r] = "insert"
  /\ \/ InsertRow(r)
     \/ /\ UniqueViolation(r)
        /\ Goto(r, IF req[r].id # NoId THEN "check_id" ELSE "check_pos")
        /\ UNCHANGED row
  /\ UNCHANGED <<redis, req, ghosts>>

\* Message::get(db, id, None) sees no deleted row, and no text of a whisper.
ShownText(i) == IF row[i].whisper THEN Blank ELSE row[i].text
Visible(i) == row[i] # NoRow /\ ~row[i].deleted

\* Defect: the id is given up whatever the text under it.
CheckIdGiveUp(r) ==
  /\ pc[r] = "check_id"
  /\ IF Visible(req[r].id) THEN req' = [req EXCEPT ![r].id = NoId] ELSE UNCHANGED req
  /\ Goto(r, "check_pos")
  /\ UNCHANGED <<row, redis, ghosts>>

CheckId(r) ==
  /\ pc[r] = "check_id"
  /\ LET i == req[r].id IN
       \/ /\ Visible(i) /\ ShownText(i) = req[r].text
          /\ Goto(r, "duplicate") /\ UNCHANGED req
       \/ /\ Visible(i) /\ ShownText(i) # req[r].text
          /\ req' = [req EXCEPT ![r].id = NoId]
          /\ Goto(r, "check_pos")
       \/ /\ ~Visible(i)
          /\ Goto(r, "check_pos") /\ UNCHANGED req
  /\ UNCHANGED <<row, redis, ghosts>>

\* Message::query_by_pos sees deleted rows and whispers.
CheckPos(r) ==
  /\ pc[r] = "check_pos"
  /\ \/ /\ \E i \in Stored : row[i].pos = req[r].pos /\ row[i].text = req[r].text
        /\ Goto(r, "duplicate") /\ UNCHANGED req
     \/ /\ \E i \in Stored : row[i].pos = req[r].pos /\ row[i].text # req[r].text
        /\ Goto(r, "reset") /\ UNCHANGED req
     \/ /\ ~Taken(req[r].pos)
        /\ Goto(r, "insert_again") /\ UNCHANGED req
  /\ UNCHANGED <<row, redis, ghosts>>

\* Defect: the pin that led to the conflict survives the reset.
ResetKeepsPin(r) ==
  /\ pc[r] = "reset"
  /\ maxPos' = NoPos /\ handed' = {} /\ hadReset' = TRUE
  /\ req' = [req EXCEPT ![r].retry = TRUE, ![r].by = "alloc"]
  /\ Goto(r, IF req[r].id # NoId THEN "get_pos" ELSE "get_max")
  /\ UNCHANGED <<row, posKey, sends>>

Reset(r) ==                                 \* reset_channel_pos: DEL max_pos
  /\ pc[r] = "reset"
  /\ maxPos' = NoPos /\ handed' = {} /\ hadReset' = TRUE
  /\ req' = [req EXCEPT ![r].retry = TRUE, ![r].by = "alloc"]
  /\ Goto(r, IF req[r].id # NoId THEN "unpin" ELSE "get_max")
  /\ UNCHANGED <<row, posKey, sends>>

Unpin(r) ==                                 \* finished() before a new position is drawn
  /\ pc[r] = "unpin"
  /\ posKey' = [posKey EXCEPT ![req[r].id] = NoPos]
  /\ Goto(r, "get_max")
  /\ UNCHANGED <<row, maxPos, req, ghosts>>

InsertAgain(r) ==                           \* the one retry: a second conflict is the answer
  /\ pc[r] = "insert_again"
  /\ \/ InsertRow(r)
     \/ UniqueViolation(r) /\ Goto(r, "failed") /\ UNCHANGED row
  /\ UNCHANGED <<redis, req, ghosts>>

\* finished(message.id): DEL the pin.  When the database drew the id there is
\* no pin under it, and a pin under an id that was given up stays.
Finish(r) ==
  /\ pc[r] = "finish"
  /\ posKey' = IF req[r].id = NoId THEN posKey
               ELSE [posKey EXCEPT ![req[r].id] = NoPos]
  /\ Return(r)
  /\ UNCHANGED <<row, maxPos, ghosts>>

\* The handler ends without more ado: create found the name or the text invalid
\* after the position was spent, a command failed, or hyper dropped the future
\* at an await because the client hung up.
Drop(r) ==
  /\ pc[r] # "idle"
  /\ Return(r)
  /\ UNCHANGED <<row, redis, ghosts>>

-----------------------------------------------------------------------------
(* Other statements on the same rows and keys.                             *)

Expire(i) ==                                \* the TTL of a pinned position
  /\ posKey[i] # NoPos
  /\ posKey' = [posKey EXCEPT ![i] = NoPos]
  /\ UNCHANGED <<row, maxPos, pc, req, ghosts>>

Delete(i) ==                                \* Message::delete keeps the row and its pos
  /\ Visible(i)
  /\ row' = [row EXCEPT ![i].deleted = TRUE]
  /\ UNCHANGED <<redis, pc, req, ghosts>>

\* The handlers of edit and move look first whether the message is visible, but
\* their UPDATE does not: a delete may come between.
Edit(i) ==
  /\ i \in Stored
  /\ \E t \in EditTexts \ {row[i].text} :
       row' = [row EXCEPT ![i].text = t, ![i].modified = TRUE]
  /\ UNCHANGED <<redis, pc, req, ghosts>>

\* rational_intermediate(lo, hi) is strictly between; the unique index
\* refuses a position that is taken, and then the statement changes nothing.
Place(i, lo, hi) ==
  /\ i \in Stored
  /\ \E p \in (lo + 1) .. (hi - 1) :
       /\ ~Taken(p)
       /\ row' = [row EXCEPT ![i].pos = p, ![i].by = "move"]
  /\ UNCHANGED <<redis, pc, req, ghosts>>

\* The nearest position on each side; 0.0 and ceil(pos + 2.0) when there is none.
NearestAbove(p) == Max({0} \cup {row[i].pos : i \in {j \in Stored : row[j].pos < p}})
NearestBelow(p) ==
  LET below == {row[i].pos : i \in {j \in Stored : row[j].pos > p}}
  IN IF below = {} THEN Halves(Ceil(p) + 2) ELSE Min(below)

MoveBetween(i) == \E a, b \in Targets : a < b /\ Place(i, a, b)
MoveAbove(i) == \E b \in Targets : Place(i, NearestAbove(b), b)
MoveBottom(i) == \E a \in Targets : Place(i, a, NearestBelow(a))

-----------------------------------------------------------------------------
Step(r) ==
  \/ Send(r) \/ Preview(r)
  \/ GetPos(r) \/ GetMax(r) \/ ReadMax(r) \/ SetNx(r) \/ Incr(r) \/ Pin(r)
  \/ PreviewEnd(r) \/ Insert(r) \/ CheckId(r) \/ CheckPos(r)
  \/ Reset(r) \/ Unpin(r) \/ InsertAgain(r) \/ Finish(r) \/ Drop(r)

Touch(i) ==
  Delete(i) \/ Edit(i) \/ MoveBetween(i) \/ MoveAbove(i) \/ MoveBottom(i)

Next == \/ \E r \in Reqs : Step(r)
        \/ \E i \in Ids : Touch(i)
        \/ \E i \in ClientIds : Expire(i)

Spec == Init /\ [][Next]_vars

-----------------------------------------------------------------------------
(* Properties.                                                             *)

TypeOK ==
  /\ row \in [Ids -> Row \cup {NoRow}]
  /\ maxPos \in Nat \cup {NoPos}
  /\ posKey \in [ClientIds -> Nat \cup {NoPos}]
  /\ pc \in [Reqs -> PCs]
  /\ req \in [Reqs -> Request]
  /\ handed \in SUBSET Nat /\ hadReset \in BOOLEAN /\ sends \in 0 .. MaxSends

\* What lets the check "text == conflicted.text" of create (models.rs:203) take a
\* resend of id i with text t for another message: the row under i is a whisper
\* (its text is hidden from the check), was edited, or was sent with another text.
Unrecognised(i, t) ==
  row[i] # NoRow /\ (row[i].whisper \/ row[i].modified \/ row[i].sent # t)

\* A message is stored at most once however often its send is repeated, dropped
\* half way or raced by a second copy of itself.  Two rows for the same id and text
\* are possible only when create cannot recognise the first.
NoDuplicate ==
  \A i, j \in Stored :
    i # j /\ row[i].origin = row[j].origin /\ row[i].origin # NoId
          /\ row[i].sent = row[j].sent
    => Unrecognised(row[i].origin, row[i].sent)

\* Between two resets of the counter no number is handed out twice, whichever
\* requests race to create the key (GET, SETNX and INCR are separate commands).
NoDoubleIssue == [][\A r \in Reqs : Incr(r) => maxPos' \notin handed]_vars

AboveAll(p) == \A i \in Stored : row[i].by = "alloc" => row[i].pos < p

\* As long as no conflict has reset the counter, a newly allocated position is
\* below every message that was itself placed by the allocator.
NewestIsLast ==
  [][\A r \in Reqs : Incr(r) /\ ~hadReset => AboveAll(Halves(maxPos'))]_vars

\* The one retry of create is enough when sends come one at a time and nothing is
\* moved: a send fails for good only when its id is that of a deleted message, which
\* the look-up by id does not see and the primary key still refuses.
FailsOnlyOnDeletedId ==
  \A r \in Reqs : pc[r] = "failed" =>
    req[r].id # NoId /\ row[req[r].id] # NoRow /\ row[req[r].id].deleted

\* "duplicated message" (models.rs:204-205, 214-215) is said of a message that is
\* stored already.
DuplicateIsStored ==
  \A r \in Reqs : pc[r] = "duplicate" =>
    \E i \in Stored : row[i].origin = req[r].origin /\ row[i].origin # NoId
=============================================================================

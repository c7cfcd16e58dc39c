# Verification of boluo-server

boluo-server is the backend of a chat program for role-playing games: a hyper
server on tokio, with Postgres for what lasts and Redis for counters, sessions
and pins. This directory holds TLA+ modules translated from its source, TLC
configurations that check them on small instances, and TLAPS proofs of what
matters most. Paths below are relative to the crate's `src/` unless they start
with a directory of the repository's root.

## The system

| part | code | state | operations | what is hard |
|---|---|---|---|---|
| message positions and creation | `pos.rs`, `messages/` | rows of `messages` with `UNIQUE (channel_id, pos)`, Redis counter `max_pos`, pinned positions with a TTL | `alloc_new_pos`, `pos`, `reset_channel_pos`, `finished`, `Message::create`, edit, delete, three moves | separate Redis commands and SQL statements, client resends, dropped futures, one retry |
| previews | `events/preview.rs` | the same pins; the last preview of each sender in the mailbox | `PreviewPost::broadcast` | shares pins with sends |
| connection pool | `pool.rs` | queue of connections and empty slots, queue of waiters, channel to the recycle task | `get`, drop of a `Connect`, recycle | time-out against a late answer, failing makes |
| events and mailboxes | `events/{context,events,handlers,tasks}.rs` | table of broadcast senders, map of cached boxes | fire, transient, `push_events`, `events_clean`, `broadcast_clean` | subscribe and replay, lag, check-then-insert on maps |
| user status | `events/{events,handlers,tasks}.rs`, `spaces/models.rs` | Redis hash per space, the map last pushed | `Event::status`, Offline when a connection closes, `push_status` | HGET, HSET and HGETALL are separate; several connections of a user; maps that overtake each other; a hash that never expires |
| spaces, channels, members | `spaces/`, `channels/` | tables `spaces`, `space_members`, `channels`, `channel_members` | create, join, leave, kick, add, edit, delete | checks and writes are separate READ COMMITTED statements |
| users, password reset | `users/` | table `users`, Redis counters and tokens | register, login, edit, avatar, reset | INCR then EXPIRE; two counters that lapse apart; a counter per spelling of an address |
| sessions | `session.rs`, `csrf.rs` | a Redis key per session | start, authenticate, remove | a login that breaks off after its start, a logout that cannot read the session |
| media | `media/` | files by content hash, temporary files, table `media` | upload, get | exists-then-rename; writes answered before they are done; renames done after their upload was dropped |
| the rest | `server.rs`, `websocket.rs`, `interface.rs`, `cache.rs`, `database*.rs`, `utils.rs`, ... | none of its own | parsing, routing, wrappers, conversions | |

They interact as follows. A handler takes a Postgres connection from the pool, opens
a Redis connection with each call of `cache::conn`, runs statements and commands, and
fires events, each in a task of its own. An event goes to the box of its space and to the space's broadcast channel,
which the websocket connections follow. Previews and status come in over the
same websockets. There is one process: the maps of events and mailboxes are shared memory under
tokio's `Mutex` and `RwLock`, the pool is under `futures::lock::Mutex`. Redis and Postgres are reached by messages, and a future may be
dropped at each await when the client hangs up.

What makes each part correct:

* positions: no number twice, new messages last, no message stored twice, a
  retry that succeeds;
* pool: one holder per connection, no lost slot, waiters served in order, every
  `get` ends;
* mailboxes: replay and broadcast leave no gap, one order for all, no deaf
  connection, the cache keeps what is recent, every fire ends;
* members: who leaves a space or is kicked loses every seat in its channels, the
  owner stays an admin, what `edit` grants is granted, transactions do not wait in
  a circle;
* messages and member lists as clients see them: no handler undoes the change of
  another, the last event says what is stored, every change is told;
* status: a change is pushed, a user without a connection is not left present, and
  what the clients show converges to the hash;
* accounts: every session has somebody who can end it, a limit refuses for a while
  only and lets no more mails to an address through than it says;
* media: a name stands for a whole file but for its last write, rows and avatars have
  theirs, only an early end leaves a temporary file behind.

## The modules

| module | what it is |
|---|---|
| `MessagePos` | positions and `Message::create` of one channel |
| `MaxFacts` | lemmas: `Max` and `Min` of a finite set of integers |
| `MessagePos_proofs` | types, `NoDuplicate`, `NoDoubleIssue`, `NewestIsLast`, `FailsOnlyOnDeletedId`, proved |
| `ConnPool` | the pool of `pool.rs` |
| `ConnLease` | the abstract lease that `ConnPool` implements |
| `ConnPool_proofs` | types, `Exclusive`, `NoIdleWhileWaiting`, `BrokenNotLent`, `SlotsConserved`, `FirstComeFirstServed` and the refinement of `ConnLease`, proved |
| `Mailbox` | one mailbox: senders, cache, fires, connections, cleaning |
| `Mailbox_proofs` | types, `NoGap`, `SameOrder`, `CacheComplete`, proved |
| `Membership` | a space, its channels and their members |
| `Membership_proofs` | types, `NoneLeftBehind`, `OwnerIsAdmin`, `NoCircle`, proved |
| `Notify` | the handlers that change one message or a member list, and their events |
| `Notify_proofs` | types, `NothingLost`, `ShownIsCurrent`, `MembersCurrent`, proved |
| `Presence` | the status hash of a space, its websocket tasks and the ticker |
| `Presence_proofs` | types, `GhostFree`, `ChangeIsPushed`, proved |
| `Media` | uploads, the directory, the table `media`, downloads |
| `Accounts` | users, sessions, password resets; extends `Media`, whose uploads need a session |
| `Accounts_proofs` | types, `FilesThere`, `DirectoryInOrder`, `GetIsWhole`, `SessionHasHolder`, `CounterExpires`, `MailsPerWindow`, proved |
| `MC_*` | the instances for TLC, with symmetry sets where they are sound |

### MessagePos

An action is one Redis command or one SQL statement with the code up to the next
await. `pc` is where a request is in `pos`, `alloc_new_pos` and
`Message::create`; `req` holds its locals (`request_pos`, `message_id`, `pos`,
`initial_pos`). `row` is the table, `maxPos` and `posKey` the Redis keys.
`Send` and `Preview` start a request; `GetPos .. Pin` are `pos.rs`; `Insert`,
`CheckId`, `CheckPos`, `Reset`, `Unpin` and `InsertAgain` are `create`; `Drop` is
a future dropped or a command that fails. `Edit`, `Delete` and the moves are
single UPDATEs, guarded by what the UPDATE checks and not by what the handler
looked at before.

A position is a FLOAT8. The model counts in halves: the allocator's numbers are
whole, and an odd number of halves stands for the fractions a move makes. The
initial states are an empty table, or one with an older row and no Redis key, as
after a restart of Redis. `handed`, `hadReset` and the fields `origin`, `sent`
and `by` are history.

Left out: the permission checks before the statements; the length limits, which
are a `Drop` after the position is spent; a move between two equal end points;
the rounding of `rational_intermediate`; the handler's free choice of the channel
in which `move_above` looks for a neighbour; other channels.

### ConnPool and ConnLease

`get` and `put_back` hold the mutex of `InternalPool` without an await, so each
is one action. The oneshot of a waiter is `rx`; its sender stays in `waiters`
with `alive = FALSE` when the receiver is gone. `timeout` polls the oneshot once
more and drops it a moment later: `Timeout` and `DropRx` are two steps, and a
connection delivered between them is lost. The pool does not keep its size: `drift`
counts the slot that a time-out adds when it makes a connection, the slot that a
failed or dropped `make` loses, and the connection lost with its receiver. `Holder` maps
the pool to `ConnLease`.

### Mailbox

A broadcast channel is the sequence of what was sent and a cursor per receiver;
`Capacity` is 256 in the code. A box is a heap object: a task that has found it
keeps it after it left the map. `Lock` and `Send` are two steps, because
`async_fire` awaits the table of senders with the mutex held. `events_clean` is
`CleanStart`, `Trim`, `Swap`. Time is the order of time stamps; `Age` makes the
oldest event older than a day. `raced` is history: the map lost a box that had
events or a fire under way.

Left out: the bounded mpsc between `push_events` and the socket, pings, several
mailboxes, `edition_map` and the heartbeat map (nothing writes them), and the
contents of transient events.

### Membership

A request holds the statements its handler has left (`Handler`, `todo`): `admin`
is a look at the user's row in `space_members`, `insert_member` the INSERT of
`join`, and so on. Each statement is an action that sees what was committed before
it: neither a handler without a transaction nor a READ COMMITTED one has a
snapshot. `Look` goes on or ends the handler with an error, and `Drop` ends it
anywhere; a transaction that has not committed leaves no trace.

`SpaceMember::remove_user` (leave, kick) deletes the member and then clears the
seats in all channels. Both are visible at `Commit`; until then `gone` and
`unjoined` are the rows it holds locked, and `Waits` is a statement of another
request that needs one of them. The transactions of `create` and `edit` write in
one step at their end. A `seat` is a row of `channel_members`, which is never
deleted: leaving clears `is_joined`, and `add_user_to_channel.sql` sets it again and
keeps `is_master`, so a master who was kicked and comes back is a master again.
The initial states are those after `create`, with or without the other users.
`stray` is history: seats taken by a statement whose check was stale, or given by
`add_member`, which looks at the caller's rows and not at those of the user it adds.

Left out: names, colours and other columns, and with them `edit_member`;
`refresh_token`, since any request to join may hold the right token or none; the
locks of foreign keys; an edit that names several users; deleting a user.

### Notify

One message and one member list. A handler goes `look`, `write`, `commit`, `fire`;
`edit` and `move_between` hold a transaction (`lock`) from the UPDATE to the commit,
`toggle_fold` and `delete` do not. `Written` is the UPDATE: COALESCE keeps the columns
as they are now, and only `folded` is taken from the row the handler read. `media` is
an edit that sets nothing but `media_id`: it skips the UPDATE
(`messages/handlers.rs:79`) and fires all the same. `Fire` spawns a task, and tasks
run in any order: the event of a message carries the handler's copy, that of a member
list is read by the task (`FetchMembers`) and sent later (`SendMembers`). `Drop` is a
missing right, a failing statement or a client that hangs up. `shown` is the last
event, which is what a client shows; how it gets there is `Mailbox`. `want`,
`crossed`, `dirty` and `dirtyMembers` are history.

Left out: the other columns, which are written by COALESCE like `text`; the rights,
each of which may fail in `Drop`; the positions, which are in `MessagePos`.

### Presence

`conn[c]` is the task of a websocket: `open` in its receive loop, or in
`Event::status` before HGET, HSET or HGETALL. `ReceiveEnds` is the end of the client's
stream or its 40 seconds of silence; `PushEnds` is the other arm of `select`, which
drops the receive loop where it stands: an HSET it had sent may reach Redis later
(`late`). Either way the task writes Offline. `push` holds the StatusMap events that
wait for their task, `view` is the last one broadcast. `Fault` is a Redis command
that fails, the panic of `cache::conn` (in a connection or in the ticker, which nobody
starts again), or a restart, after which the hash is still there. `ghost` and `raced`
are history.

Left out: time stamp and focus of a status, which nothing compares; the delivery of
the map to clients (`Mailbox`).

### Media and Accounts

`Media` follows an upload from `File::create` to the row; `disk` is what of its file
is written, because tokio's File answers `write_all` when the last block is handed to
a thread and `upload` neither flushes nor syncs: `Written` or `WriteLost` come at any
time after. `tokio::fs` gives a removal or a rename to a thread as well: when the
client hangs up in the meantime (`GiveUp`) it is done later all the same
(`LateRemove`, `LateRename`). `GetStat` and `GetSend` are the two looks of a download
at a name: the length it announces, and the file it opens and sends. A content stands
for its bytes and extension, hence for its hash. `lost`, `raced` and `left` are
history.

`Accounts` adds users, sessions and resets. A request is at one query or command
(`pc`), is used once, and its number names the session it starts or the token it
makes. `Emails` are addresses as clients type them. The counter, the token and the
mail of a reset go by what was typed; only `User::get` puts it in lower case, and
`Lower` says which user it finds then. `Lapse` and `TokenLapses` are Redis expiring a
key that has a time to live. `Deactivate` is an administrator at the database: no
handler does it, several queries look for it. `Abandon`, `Restart` and `LogoutBlind`
are the faults: the last is a logout whose read of the session fails.

Left out: nickname, bio and settings; `CSRF`, the signature of tokens and the hash of
passwords; the names and sizes that `upload_params` refuses before anything is
written. `register`, `edit` and the authentication in front of an upload have one
query each that matters and are one step.

## The runs

| run | instance | what it checks |
|---|---|---|
| `resend` | two requests and two sends on one client id, two texts, edits, deletes, whispers, drops, expiry | `TypeOK`, `NoDuplicate`, `NoDoubleIssue` |
| `solo` | one request at a time, three sends, client positions 4 and 4.5 | `FailsOnlyOnDeletedId` |
| `moves` | two sends, moves between, above and below, deletes | `NewestIsLast` |
| `dup` | two requests, four sends | finds `DuplicateIsStored` violated |
| `pool` | three clients, a pool of one, two live connections, three waiters | `TypeOK`, `Exclusive`, `NoIdleWhileWaiting`, `BrokenNotLent`, `SlotsConserved`, `FirstComeFirstServed`, `GetEnds`, `LeaseSpec` |
| `mailbox` | two fires at a time, two messages, one connection, capacity one | `NoGap`, `SameOrder`, `CacheComplete`, `FireEnds` |
| `mailbox_live` | two connections, a preview and a transient event, capacity one | `TypeOK`, `NotDeaf` |
| `membership` | two requests at a time and three in turn, an owner and two users, two channels | `TypeOK`, `NoneLeftBehind`, `OwnerIsAdmin`, `NoCircle` |
| `grant` | the same | finds `GrantTakesEffect` violated |
| `presence` | two users on two connections, three calls, one fault | `TypeOK`, `GhostFree`, `ChangeIsPushed`, `StatusConverges`, `GoneIsSeen` |
| `notify` | two requests at a time and three in turn, of every kind | `TypeOK`, `NothingLost`, `ShownIsCurrent`, `MembersCurrent`, `EventuallyTold` |
| `accounts` | four requests in all on one user with two spellings of its address, two of them login, logout or reset and two of them uploads of one content, one fault | `TypeOK`, `FilesThere`, `DirectoryInOrder`, `GetIsWhole`, `SessionHasHolder`, `MailsPerWindow`, `LimitLifts` |

The bounds.

* Positions. Two requests on one id are what a resend is; a third send in turn is
  needed for a counter that is created, deleted and created again, which `solo` has.
  One id from clients is enough because ids interact only through positions, which a
  second request without an id supplies. The requested positions 8 and 9 (halves)
  lie on and between numbers the allocator gives out when it starts from
  `DefaultPos = 2`; the code's 42 only shifts them.
* Pool. Three clients on a pool of one let one hold the connection while two wait in
  different states; two connections are alive when one made after a time-out is above
  the pool's number, and `MaxWaiters` leaves room for a dead sender before two live ones.
* Mailbox. One connection among two fires and a cleaning is where a gap or another
  order would show; two connections are what it takes to replace a sender under one of
  them. Six boxes and three channels are more than the events can use up, so the pools
  of names are never the reason a step is disabled. A capacity of one makes lag happen.
* Members. Two requests to join, leave, kick or edit race at every statement, and a
  third in turn sees what they left; two users are enough for one to act on the other
  without the owner.
* Presence. Two connections may be of one user or of two; `MaxCalls = 3` counts
  connecting and announcing, so that two connections and one announcement, or one
  connection and two announcements, race; one fault is a lost Offline or a dead ticker.
* Notify. Two requests overlap anywhere, and a third finds what they left: a change
  after a delete, an event older than two changes.
* Accounts. `IpLimit` and `EmailLimit` are 3 and 2 in the code and 1 here, so that two
  resets pass each: the limit of the address at once, the one of an email after the
  other counter has lapsed. Two spellings are two counters of one user. Two uploads of
  one content race for its name when a registration and a login use up the other two
  requests; else a registration is followed by two resets, by a login and a logout, or
  by a login, an upload and an edit; one fault. Larger limits and more requests at a
  time are left to the theorems. Requests and uploads start in the order of their
  numbers, which only names them.

`MaxSends`, `MaxWaiters`, `MaxRequests`, `MaxCalls`, `MaxReqs`, `MaxFaults` and the
finite sets of events are the other bounds, with one of `Presence`: each connection,
and the ticker, has at most one map that waits for its task, and a push waits until it
is free, where `Event::transient` (`events/events.rs:276`) spawns a task for each.
Maps of different sources still overtake each other. When they are used up an idle system
has no step left: this is why deadlock is not checked. That nobody waits for ever is
`GetEnds`, `FireEnds` and `EventuallyTold`.

Fairness. In `ConnPool` the timer fires, `make()` answers or fails, a handler
that holds a connection ends, and the recycle task runs; nobody has to call
`get`. In `Mailbox` tokio polls ready tasks (weak fairness) and its `Mutex` and
`RwLock` are first come, first served, so a step that waits for a lock has strong
fairness; nobody has to connect, leave or fire, and time need not pass. In `Notify`
handlers and spawned tasks are polled until they end. In `Presence` the same, Redis
executes what was sent, the ticker's interval passes and a silent client times out;
clients need not do anything, and no fault has to happen. In `Accounts` handlers are
polled and Redis expires keys that have a time to live.

### What the violated runs show

* `dup`: after a reset a number can be issued that another message has. When the
  texts are equal too, `create` answers "duplicated message"
  (`messages/models.rs:214-215`) for a message that is not stored.
* `grant`: `edit` calls `set_admin(db, &space_id, user_id, true)`
  (`spaces/handlers.rs:162`, and 166 to remove), and `set_admin` takes the user
  first (`spaces/models.rs:247`). The UPDATE matches no row; the owner is told that
  the edit succeeded and nobody became an admin.

### What the models make visible besides

Exceptions that the properties have to make, each a behaviour of the code:

* `NewestIsLast` holds before the first reset. `alloc_new_pos` looks at the key with
  GET (`pos.rs:20`) and counts later with INCR (`pos.rs:27`); a reset in between makes
  INCR count from zero, and the new message goes to the top.
* `NoDuplicate`: a resend is recognised by comparing texts (`messages/models.rs:203`),
  which cannot work for a whisper, whose text the look-up hides, or for an edited row.
* `SlotsConserved` (`drift`): a time-out adds a slot to the pool when it makes a
  connection, a failed or dropped `make` takes one away (`pool.rs:143`), and so does a
  connection that reaches a receiver about to be dropped (`pool.rs:151`).
* `NoneLeftBehind` (`stray`): `join` looks at the space before it takes the seat
  (`channels/handlers.rs:225`), and a kick may commit in between; and `add_member` gives
  a seat to whomever it names, also to a user who is not in the space.
* `CacheComplete` (`raced`): two fires may both make a box, and `events_clean` may
  replace the map over a box made since (`events/tasks.rs:77`).
* `NothingLost` (`crossed`): two toggles that read the same value count as one.
* `ShownIsCurrent` (`dirty`): the events of two changes may be broadcast in the other
  order; and an edit, a move or a toggle that looked before a delete still writes the
  deleted row and its MessageEdited may follow the MessageDeleted, although
  `messages/handlers.rs:94` expects that an edit then finds nothing.
* `MembersCurrent` (`dirtyMembers`): a list fetched before a change may be sent after
  the list of that change.
* `ChangeIsPushed` (`raced`): two calls of one user may each find the hash as the other
  left it and neither pushes; the ticker makes up for it.
* `GhostFree` (`ghost`): nothing removes the status of a user whose Offline was lost,
  and an HSET of an abandoned call may come after the Offline.
* `StatusConverges`: a panic of `cache::conn` in `push_status` (`events/tasks.rs:32`) ends
  the ticker until the next restart.
* `DirectoryInOrder` (`lost`, `left`): the last write of an upload may fail after its
  hash was taken and its name given, and then the file of that name is short for good;
  an upload that ends early (a body that breaks off, a failed write, removal or rename,
  a restart) leaves its temporary file, which nothing clears away.
* `GetIsWhole` (`raced`, `lost`): an upload may rename over a file that is about to be
  read, and its last block is not there yet or never comes; a rename may even happen
  after its upload was dropped. A download of a file whose last write failed announces
  and sends part of it; one that comes while the last write is pending announces less
  than the whole.
* `LimitLifts` (`stuck`): when a handler breaks off between INCR and EXPIRE the counter
  never goes away, and a limit once reached is for ever.
* `SessionHasHolder` (`orphan`): a login that fails after `session::start` leaves a session
  that does not expire and that nobody can end; and a logout whose `GET` of the session
  fails (`session.rs:106-110`) clears the cookie and leaves the session
  (`users/handlers.rs:117`).
* `MailsPerWindow` is said of an address as it is typed. `email_limit` counts under that
  spelling (`users/handlers.rs:220`) and `User::get` finds the user by the lower-case one
  (`users/models.rs:72`): every spelling in other letters has a counter of its own and
  reaches the same user, so that the limit is not one per user.

Seen and in no property: the first of two connections of a user to close writes Offline
over the status of the other (`events/handlers.rs:181`); an edit with only a `media_id`
changes nothing and is announced; a move between two equal end points runs
`set_position.sql`, which compares the id with the position (`WHERE id = $2`); a channel master who was
removed and added again is master again; two first calls of `database::get` build two
pools and one is thrown away.

## The proofs

Every safety property that a passing run checks is also a theorem, for every value
of the constants: any number of requests, clients, users, connections, uploads, ids,
texts, boxes, any capacity and any limit. `TypeOK` is nowhere inductive alone: what
a step may do depends on where its request is, so each proof begins with what ties
that place to the locals (`Control`, `Shaped`, `Fires`, ...), and the invariants below
stand on it. They were checked by TLC on the instances of the runs before they were
proved. A proof of a step has one lemma for each group of actions that disturb the
same conjuncts.

**`MessagePos_proofs`.** `Control` ties `pc` to the locals (a request at `check_id`
has an id, one that inserts has a position).

* `StoredOnce`: `Spec => []NoDuplicate`. `NoDuplicate` compares two rows with one
  origin, but a row under a drawn id exists because a request gave its id up
  earlier. The invariant therefore says of requests what it says of rows:
  `RequestIds` (a request that no longer has the id it came with found a row under
  it that it could not recognise) and `RowIds` (a row whose key is not its origin
  stands beside such a row). That a row once unrecognisable stays so carries both
  over every step.
* `NumbersDiffer`: `Spec => NoDoubleIssue`, and `NewestBelow`:
  `Spec => NewestIsLast`. The invariant is `OrderInv`: every number handed out
  since the last deletion is at most the counter (`Counted`); a request at INCR
  before the first reset finds a key (`Asks`); and, before the first reset, each
  position placed by the allocator, stored or still in the hands of a request or a
  pin, is at most the counter when there is one, and when there is none every
  request about to create it has read a maximum that covers the table (`Ordered`).
  Steps that touch neither the counter nor positions go through one lemma,
  `Quiet`.
* `RetryIsEnough`: `[]FailsOnlyOnDeletedId`, for one request at a time and no moves,
  as in the run `solo`, and any number of ids, texts and sends. With two requests
  the retry may fail for good, so the hypothesis is part of the statement. The
  invariant `Retries` says that the retry finds no key, reads a maximum that covers
  every row, counts from it, and inserts at a place that is free (`Redraw`); and that
  past the look-up by id a request keeps only an id that a read does not see
  (`Refused`).

**`ConnPool_proofs`.** `Queue`: a sender whose receiver is there belongs to a client
that awaits it and has got nothing, and no client has two. `Apart` is `Exclusive` said
of the contents of places instead of their indices, `Served` the same of
`NoIdleWhileWaiting`; `BrokenThere`: a broken connection is with the client that broke
it or on its way back. `put_back` and `get` have a lemma each on what they do to the
queues. `PoolLeases` proves `Spec => LeaseSpec`: under `Holder` taking an
idle connection, receiving one and making one are its `Lend`, the drop of a `Connect` its
`Return`, a break its `Fail`, the recycling of a broken one its `Discard`, and every other
step a stutter; `Apart` makes the holder that `Holder` chooses the only one. `SlotsStay` needs a
count over all clients: `Balance` says that empty slots, connections and what clients
hold add up to `Num` and the drift, and every step moves one of them
(`FiniteSetTheorems`). `InTheirOrder` is an action property from the same invariant.

**`Mailbox_proofs`.** `Mutex`: the mutex of a box belongs to the fire about to send.
`Once`: an event is fired once, stamped when it is cached, and sent after that.
`Cached`: boxes hold stamped events, each at one place of one box, and when a box is
held its last event is the one about to be sent.

* `OneOrder`: what a channel has of a box is in the order of the box, because a send
  adds the last event of a box whose earlier ones were sent before it.
* `NothingMissed`: `NoGap` speaks of a connection that has replayed, and a step later
  the box in the map may be another. `Told` therefore says it of every box the
  connection has replayed or, when it found none, of the one in the map and the one
  `events_clean` is about to put there; what is in the box was seen, is still in the
  channel, or is about to be sent.
* `RecentKept`: unless the map lost a box in use, every fire works on the box in the map
  (`InMap`), so no recent event is cached anywhere else; and trimming drops only what is
  older than the time that the cleaning took at its start, which aging has passed.

**`Membership_proofs`.** `Shaped` is the order of a handler's statements: who deletes a
member still has the seats and the commit before it. `Held`: a transaction that holds
rows is past the statement that wrote them; this is why `NoCircle` holds
(`GoesOn`): who holds rows is at its commit, where it waits for nobody, or at the seats,
where it waits at most for one at its commit.
`Cleared`: at the commit, each joined seat of the leaver is one the transaction has
found, or was taken since and is recorded in `stray`; `Found`: those rows are there.
`LeavesNobody` and `OwnerStaysAdmin` are conjuncts of the invariant.

**`Accounts_proofs`**, which takes in `Media`.

* `FilesStay`, `DirectoryStays`, `GetSendsWhole`: how far an upload has come says what
  is on disk and in the directory (`Uploading`); a name was given by an upload that has
  got there (`NamesTaken`); an upload that renames over a name is recorded; a download
  that announced the whole file still has it before it, or one renamed over it, and one
  that announced a part has a file whose last write failed, or again one renamed over it
  (`Reading`).
* `MailsLimited`: mails sent to an address as typed, plus those of requests that the limit has let through
  (`Pending`), plus what is left of the current window (`Unused`), are at most the limit
  times the windows (`Budget`). The proof follows the cardinality of `Pending`.
* `SessionsEnd`: `SessionHasHolder` is inductive beside the types. `CountersEnd` proves the
  safety half of `LimitLifts`, which itself is left to TLC: a counter that runs has a time
  to live, or a handler that is about to give it one, or one that broke off there
  (`CounterExpires`). A token can only come from a mail that was sent (`TokenKnown`).

**`Presence_proofs`** proves `TypeCorrect`, `NoGhosts` (`Spec => []GhostFree`) and
`ChangesPushed` (`Spec => ChangeIsPushed`). `GhostFree` speaks of users without a
connection, so its invariant speaks of the others: who is stored as present has a task
that has not written its Offline yet (`Owes`), or the loss is recorded (`Accounted`). A
closing task writes nothing but Offline (`Control`). A call that found nothing to push
still finds the hash as it read it, or it is marked as raced (`Unchanged`). Each step is a
step of one task that keeps what it owes (`TaskStep`) or a write of the hash (`WriteStep`).

**`Notify_proofs`** proves `TypeCorrect`, `ChangesKept` (`Spec => []NothingLost`),
`MessageTold` (`Spec => []ShownIsCurrent`) and `MembersTold` (`Spec => []MembersCurrent`).
A transaction that has updated the row holds the row as it is with one column changed
(`Locked`), and a toggle about to write has read the value that is there unless two
crossed (`Kept`): so a commit changes one column. The two about events need that
whatever is still to be said, in a handler or in a spawned task, is what is stored, and
that something is still to be said when the clients do not show it (`Told`, `ListTold`).

The proofs assume what the modules assume of their constants: disjoint sets of names,
an address in lower case that is one user's, names (`None`, `NoRow`, `Gone`, ...) that are not among the values they stand beside,
finitely many ids in `MessagePos`, whose table has a maximum, and bounds that are
naturals. `MaxFacts` proves what `Max` and `Min` of the community modules return.

Only model-checked: liveness (`GetEnds`, `NotDeaf`, `FireEnds`, `StatusConverges`,
`GoneIsSeen`, `EventuallyTold`, `LimitLifts`), which needs ENABLED and fairness and is out
of this prover's reach. Nothing is proved by induction over data: no model has a
recursive operator.

## Not modelled

`server.rs`, `websocket.rs`, `interface.rs` and `cors.rs` route, parse and shake hands;
what matters of them, that a handler may be dropped at an await, is an action of every
model. `cache.rs` and `database*.rs` wrap commands and statements that the models of
their callers have as actions. The rest (`utils.rs`, `validators.rs`, `error.rs`,
`mail.rs`, ...) converts, validates and logs. Of the modelled parts the queries are left
out, which change nothing, and columns that nothing decides on: names, colours, topics,
settings. `heartbeat_clean` and the delete handler of media are dead code.

## Plan

1. Done: `MessagePos`, `ConnPool` with `ConnLease`, `Mailbox`, `Membership`, `Notify`,
   `Presence`, `Media`, `Accounts`; the proofs above.
2. Proofs: what the history variables of the exceptions mean, as action properties: that
   only a reset makes a number repeat, that only a stale check takes a seat behind a
   kick; that an admin of a space was made one by its owner.
3. Larger instances where time allows: two users and two contents in `Accounts`, two
   connections among two fires in `Mailbox`.

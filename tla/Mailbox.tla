------------------------------- MODULE Mailbox -------------------------------
(***************************************************************************)
(* One mailbox (the events of a space): the table of broadcast senders and *)
(* the cache of recent events (events/context.rs), the tasks that fire     *)
(* events (events/events.rs), the connections that replay the cache and    *)
(* then follow the broadcast (events/handlers.rs: push_events), and the    *)
(* two cleaning tasks (events/tasks.rs).                                   *)
(*                                                                         *)
(* An action is what runs between two awaits.  A broadcast channel is the  *)
(* sequence of what was sent on it and a cursor for each receiver; a       *)
(* mailbox cache is a heap object that tasks keep a reference to (an Arc)  *)
(* after it has left the map.                                              *)
(***************************************************************************)
EXTENDS Integers, Sequences, FiniteSets, FiniteSetsExt, SequencesExt

CONSTANTS Subs,        \* websocket connections
          Pubs,        \* spawned async_fire tasks that run at a time
          Messages,    \* events kept in MailBoxCache.events
          Previews,    \* events of one sender and channel: the last one is kept
          Transients,  \* events that are broadcast and not kept
          Boxes, Txs,  \* names for MailBoxCache objects and broadcast channels
          None,
          Capacity     \* of a broadcast channel (256 in the code)

Events == Messages \cup Previews \cup Transients

ASSUME EventsAssumption ==
  /\ Messages \cap Previews = {} /\ Transients \cap (Messages \cup Previews) = {}
  /\ None \notin Events \cup Boxes \cup Txs \cup Pubs
ASSUME CapacityAssumption == Capacity \in Nat \ {0}

VARIABLES table,     \* BROADCAST_TABLE[mailbox]: the sender, or None
          sent,      \* what was sent on each channel
          map,       \* CACHE.mailboxes[mailbox]: the current box, or None
          box,       \* the heap of MailBoxCache objects
          lock,      \* the task that holds each box's mutex
          sub,       \* where each connection is, and its locals
          pub,       \* where each fire is, and its locals
          clean,     \* where events_clean is, and its locals
          stamped,   \* history: events in the order of their timestamps
          aged,      \* how many of them are over 24 hours old
          raced      \* history: the map lost a box that was in use

vars == <<table, sent, map, box, lock, sub, pub, clean, stamped, aged, raced>>
cache == <<map, box, lock>>
feed == <<table, sent>>
clock == <<stamped, aged, raced>>

EmptyBox == [events |-> << >>, preview |-> None]
Off == [pc |-> "off", tx |-> None, next |-> 1, box |-> None, view |-> {}, lagged |-> FALSE]
Idle == [pc |-> "idle", event |-> None, box |-> None]
Asleep == [pc |-> "sleep", before |-> 0, next |-> None]

Box == [events : Seq(Messages), preview : Previews \cup {None}]
Sub == [pc : {"off", "create", "find", "read", "live"}, tx : Txs \cup {None},
        next : Nat \ {0}, box : Boxes \cup {None}, view : SUBSET Events, lagged : BOOLEAN]
Pub == [pc : {"idle", "find", "make", "lock", "send"},
        event : Messages \cup Previews \cup {None}, box : Boxes \cup {None}]
Clean == [pc : {"sleep", "trim", "swap"}, before : Nat, next : Boxes \cup {None}]

Init ==
  /\ table = None /\ sent = [x \in Txs |-> << >>]
  /\ map = None /\ box = [b \in Boxes |-> EmptyBox] /\ lock = [b \in Boxes |-> None]
  /\ sub = [s \in Subs |-> Off]
  /\ pub = [p \in Pubs |-> Idle]
  /\ clean = Asleep
  /\ stamped = << >> /\ aged = 0 /\ raced = FALSE

Content(b) == Range(box[b].events) \cup ({box[b].preview} \ {None})
Receivers(x) == {s \in Subs : sub[s].tx = x}
Fired == Range(stamped) \cup {pub[p].event : p \in Pubs}

\* Names of objects nothing refers to any more.  Which of them a new object gets
\* makes no difference.
FreeBoxes == Boxes \ ({map, clean.next} \cup {pub[p].box : p \in Pubs}
                                        \cup {sub[s].box : s \in Subs})
FreeTxs == Txs \ ({table} \cup {sub[s].tx : s \in Subs})

-----------------------------------------------------------------------------
(* push_events: subscribe, replay the cache, follow the broadcast.         *)

\* get_mailbox_broadcast_rx under the read lock of the table.
Subscribe(s) ==
  /\ sub[s].pc = "off"
  /\ sub' = [sub EXCEPT ![s] =
              IF table = None THEN [Off EXCEPT !.pc = "create"]
              ELSE [Off EXCEPT !.pc = "find", !.tx = table, !.next = Len(sent[table]) + 1]]
  /\ UNCHANGED <<feed, cache, pub, clean, clock>>

\* No sender was there: insert a new one, under the write lock but without a
\* second look.  A sender inserted meanwhile is dropped.
Create(s) ==
  /\ sub[s].pc = "create"
  /\ FreeTxs # {}
  /\ LET x == CHOOSE y \in FreeTxs : TRUE IN
       /\ table' = x
       /\ sent' = [sent EXCEPT ![x] = << >>]
       /\ sub' = [sub EXCEPT ![s].pc = "find", ![s].tx = x, ![s].next = 1]
  /\ UNCHANGED <<cache, pub, clean, clock>>

\* get_from_cache: try_mailbox, then the snapshot under the box's mutex.
Find(s) ==
  /\ sub[s].pc = "find"
  /\ sub' = [sub EXCEPT ![s].pc = IF map = None THEN "live" ELSE "read", ![s].box = map]
  /\ UNCHANGED <<feed, cache, pub, clean, clock>>

\* Defect: a connection goes live without the replay of the box it found.
ReadNothing(s) ==
  /\ sub[s].pc = "read" /\ lock[sub[s].box] = None
  /\ sub' = [sub EXCEPT ![s].pc = "live"]
  /\ UNCHANGED <<feed, cache, pub, clean, clock>>

\* Defect: the replay leaves the previews out.
ReadEvents(s) ==
  /\ sub[s].pc = "read" /\ lock[sub[s].box] = None
  /\ sub' = [sub EXCEPT ![s].pc = "live", ![s].view = Range(box[sub[s].box].events)]
  /\ UNCHANGED <<feed, cache, pub, clean, clock>>

Read(s) ==
  /\ sub[s].pc = "read" /\ lock[sub[s].box] = None
  /\ sub' = [sub EXCEPT ![s].pc = "live", ![s].view = Content(sub[s].box)]
  /\ UNCHANGED <<feed, cache, pub, clean, clock>>

Pending(s) == {sent[sub[s].tx][i] : i \in sub[s].next .. Len(sent[sub[s].tx])}

Recv(s) ==
  /\ sub[s].pc = "live" /\ sub[s].next <= Len(sent[sub[s].tx])
  /\ LET x == sub[s].tx
         oldest == Len(sent[x]) - Capacity + 1
     IN sub' = IF sub[s].next < oldest
               THEN [sub EXCEPT ![s].next = oldest, ![s].lagged = TRUE]   \* RecvError::Lagged
               ELSE [sub EXCEPT ![s].next = @ + 1,
                                ![s].view = @ \cup {sent[x][sub[s].next]}]
  /\ UNCHANGED <<feed, cache, pub, clean, clock>>

\* Defect: a closed channel taken for one that only lagged.
ClosedIgnored(s) ==
  /\ sub[s].pc = "live" /\ sub[s].tx # table /\ sub[s].next > Len(sent[sub[s].tx])
  /\ sub' = [sub EXCEPT ![s].lagged = TRUE]
  /\ UNCHANGED <<feed, cache, pub, clean, clock>>

\* RecvError::Closed: the sender is gone and everything it sent was received.
Closed(s) ==
  /\ sub[s].pc = "live" /\ sub[s].tx # table /\ sub[s].next > Len(sent[sub[s].tx])
  /\ sub' = [sub EXCEPT ![s] = Off]
  /\ UNCHANGED <<feed, cache, pub, clean, clock>>

Leave(s) ==                    \* the client disconnects
  /\ sub[s].pc # "off"
  /\ sub' = [sub EXCEPT ![s] = Off]
  /\ UNCHANGED <<feed, cache, pub, clean, clock>>

-----------------------------------------------------------------------------
(* Event::fire spawns async_fire; Event::transient only sends.             *)

Fire(p) ==
  /\ pub[p].pc = "idle"
  /\ \E e \in (Messages \cup Previews) \ Fired :
       pub' = [pub EXCEPT ![p] = [pc |-> "find", event |-> e, box |-> None]]
  /\ UNCHANGED <<feed, cache, sub, clean, clock>>

FindBox(p) ==                  \* Cache::mailbox under the read lock of the map
  /\ pub[p].pc = "find"
  /\ pub' = [pub EXCEPT ![p].pc = IF map = None THEN "make" ELSE "lock", ![p].box = map]
  /\ UNCHANGED <<feed, cache, sub, clean, clock>>

\* No box was there: insert a new one, under the write lock but without a second
\* look.  events_clean holds the read lock while it trims.
MakeBox(p) ==
  /\ pub[p].pc = "make" /\ clean.pc # "trim"
  /\ FreeBoxes # {}
  /\ LET b == CHOOSE c \in FreeBoxes : TRUE IN
       /\ map' = b
       /\ raced' = (raced \/ map # None)
       /\ box' = [box EXCEPT ![b] = EmptyBox]
       /\ pub' = [pub EXCEPT ![p].pc = "lock", ![p].box = b]
  /\ UNCHANGED <<feed, lock, sub, clean, stamped, aged>>

\* Defect: the mutex is released before the event is sent.
LockBriefly(p) ==
  /\ pub[p].pc = "lock" /\ lock[pub[p].box] = None
  /\ LET b == pub[p].box
         e == pub[p].event
     IN /\ box' = IF e \in Previews THEN [box EXCEPT ![b].preview = e]
                  ELSE [box EXCEPT ![b].events = Append(@, e)]
        /\ stamped' = Append(stamped, e)
  /\ pub' = [pub EXCEPT ![p].pc = "send"]
  /\ UNCHANGED <<feed, lock, map, sub, clean, aged, raced>>

\* Defect: a preview is queued with the messages instead of replacing the last one.
LockQueuesAll(p) ==
  /\ pub[p].pc = "lock" /\ lock[pub[p].box] = None
  /\ lock' = [lock EXCEPT ![pub[p].box] = p]
  /\ box' = [box EXCEPT ![pub[p].box].events = Append(@, pub[p].event)]
  /\ stamped' = Append(stamped, pub[p].event)
  /\ pub' = [pub EXCEPT ![p].pc = "send"]
  /\ UNCHANGED <<feed, map, sub, clean, aged, raced>>

\* The mutex is held from here until the event is sent.
Lock(p) ==
  /\ pub[p].pc = "lock" /\ lock[pub[p].box] = None
  /\ LET b == pub[p].box
         e == pub[p].event
     IN /\ lock' = [lock EXCEPT ![b] = p]
        /\ box' = IF e \in Previews THEN [box EXCEPT ![b].preview = e]
                  ELSE [box EXCEPT ![b].events = Append(@, e)]
        /\ stamped' = Append(stamped, e)
  /\ pub' = [pub EXCEPT ![p].pc = "send"]
  /\ UNCHANGED <<feed, map, sub, clean, aged, raced>>

Broadcast(e) ==
  sent' = IF table = None THEN sent ELSE [sent EXCEPT ![table] = Append(@, e)]

\* Defect: the early way out, when the mailbox has no sender, keeps the mutex.
SendLeaky(p) ==
  /\ pub[p].pc = "send"
  /\ Broadcast(pub[p].event)
  /\ lock' = IF table = None THEN lock ELSE [lock EXCEPT ![pub[p].box] = None]
  /\ pub' = [pub EXCEPT ![p] = Idle]
  /\ UNCHANGED <<table, map, box, sub, clean, clock>>

Send(p) ==
  /\ pub[p].pc = "send"
  /\ Broadcast(pub[p].event)
  /\ lock' = [lock EXCEPT ![pub[p].box] = None]
  /\ pub' = [pub EXCEPT ![p] = Idle]
  /\ UNCHANGED <<table, map, box, sub, clean, clock>>

SendTransient(e) ==            \* once for each channel
  /\ table # None /\ e \notin Range(sent[table])
  /\ Broadcast(e)
  /\ UNCHANGED <<table, cache, sub, pub, clean, clock>>

-----------------------------------------------------------------------------
(* The cleaning tasks.                                                     *)

Age == /\ aged < Len(stamped)
       /\ aged' = aged + 1
       /\ UNCHANGED <<feed, cache, sub, pub, clean, stamped, raced>>

IsOld(e, before) == \E i \in 1 .. before : stamped[i] = e

CleanStart ==                  \* take the read lock of the map
  /\ clean.pc = "sleep"
  /\ clean' = [pc |-> IF map = None THEN "swap" ELSE "trim", before |-> aged, next |-> None]
  /\ UNCHANGED <<feed, cache, sub, pub, clock>>

\* Defect: the first event that is not old is popped with the old ones and not
\* pushed back.
TrimOneMore ==
  /\ clean.pc = "trim" /\ lock[map] = None
  /\ LET events == box[map].events
         fresh == {i \in DOMAIN events : ~IsOld(events[i], clean.before)}
         trimmed == [events |-> IF fresh = {} THEN << >>
                                ELSE SubSeq(events, Min(fresh) + 1, Len(events)),
                     preview |-> IF IsOld(box[map].preview, clean.before) THEN None
                                 ELSE box[map].preview]
     IN /\ box' = [box EXCEPT ![map] = trimmed]
        /\ clean' = [clean EXCEPT !.pc = "swap",
                                  !.next = IF trimmed = EmptyBox THEN None ELSE map]
  /\ UNCHANGED <<feed, map, lock, sub, pub, clock>>

\* Pop old events from the front, filter the preview, and keep the box for the
\* next map unless it is empty.
Trim ==
  /\ clean.pc = "trim" /\ lock[map] = None
  /\ LET events == box[map].events
         fresh == {i \in DOMAIN events : ~IsOld(events[i], clean.before)}
         trimmed == [events |-> IF fresh = {} THEN << >>
                                ELSE SubSeq(events, Min(fresh), Len(events)),
                     preview |-> IF IsOld(box[map].preview, clean.before) THEN None
                                 ELSE box[map].preview]
     IN /\ box' = [box EXCEPT ![map] = trimmed]
        /\ clean' = [clean EXCEPT !.pc = "swap",
                                  !.next = IF trimmed = EmptyBox THEN None ELSE map]
  /\ UNCHANGED <<feed, map, lock, sub, pub, clock>>

\* The read lock is dropped, the write lock taken, and the map replaced whatever
\* was inserted or cached in between.
Swap ==
  /\ clean.pc = "swap"
  /\ map' = clean.next
  /\ clean' = Asleep
  /\ raced' = (raced \/ /\ map # None /\ clean.next # map
                        /\ Content(map) # {} \/ \E p \in Pubs : pub[p].box = map)
  /\ UNCHANGED <<feed, box, lock, sub, pub, stamped, aged>>

BroadcastClean ==              \* retain senders that have receivers
  /\ table # None /\ Receivers(table) = {}
  /\ table' = None
  /\ UNCHANGED <<sent, cache, sub, pub, clean, clock>>

-----------------------------------------------------------------------------
SubStep(s) == \/ Subscribe(s) \/ Create(s) \/ Find(s) \/ Read(s)
              \/ Recv(s) \/ Closed(s) \/ Leave(s)
PubStep(p) == Fire(p) \/ FindBox(p) \/ MakeBox(p) \/ Lock(p) \/ Send(p)
CleanStep == CleanStart \/ Trim \/ Swap \/ BroadcastClean

Next == \/ \E s \in Subs : SubStep(s)
        \/ \E p \in Pubs : PubStep(p)
        \/ \E e \in Transients : SendTransient(e)
        \/ CleanStep \/ Age

Spec == Init /\ [][Next]_vars

\* Tokio polls ready tasks, and its Mutex and RwLock are fair: a task that waits
\* for a box or for the map is not overtaken for ever.  Nothing obliges a client or a timer to act.
Fairness ==
  /\ \A s \in Subs : /\ WF_vars(Create(s) \/ Find(s)) /\ SF_vars(Read(s))
                     /\ WF_vars(Recv(s)) /\ WF_vars(Closed(s))
  /\ \A p \in Pubs : /\ WF_vars(FindBox(p) \/ Send(p))
                     /\ SF_vars(MakeBox(p)) /\ SF_vars(Lock(p))
  /\ SF_vars(Trim) /\ WF_vars(Swap)

FairSpec == Spec /\ Fairness

-----------------------------------------------------------------------------
(* Properties.                                                             *)

TypeOK ==
  /\ table \in Txs \cup {None} /\ sent \in [Txs -> Seq(Events)]
  /\ map \in Boxes \cup {None} /\ box \in [Boxes -> Box]
  /\ lock \in [Boxes -> Pubs \cup {None}]
  /\ sub \in [Subs -> Sub] /\ pub \in [Pubs -> Pub] /\ clean \in Clean
  /\ stamped \in Seq(Messages \cup Previews) /\ aged \in 0 .. Len(stamped) /\ raced \in BOOLEAN

\* The box a connection replayed, or, when it found none, the one made since.
Replayed(s) == IF sub[s].box = None THEN map ELSE sub[s].box
AboutToSend(b) == {pub[p].event : p \in {q \in Pubs : pub[q].pc = "send" /\ pub[q].box = b}}

\* push_events subscribes before it replays the cache, and async_fire sends before
\* it releases the box: a connection that still has the current sender and has not
\* lagged has been sent, or will be, whatever the cache it replayed holds now.
NoGap ==
  \A s \in Subs :
    sub[s].pc = "live" /\ sub[s].tx = table /\ ~sub[s].lagged /\ Replayed(s) # None =>
      Content(Replayed(s)) \subseteq sub[s].view \cup Pending(s) \cup AboutToSend(Replayed(s))

\* The events of one box are broadcast in the order in which the cache keeps them,
\* so a client that replays and one that follows see the same order.
SameOrder ==
  \A x \in Txs, b \in Boxes :
    \A i, j \in DOMAIN sent[x] : \A m, n \in DOMAIN box[b].events :
      i < j /\ sent[x][i] = box[b].events[m] /\ sent[x][j] = box[b].events[n] => m < n

\* Every message event of the last 24 hours is in the box that the next connection
\* will replay, unless the map lost a box in one of two windows: two fires that both
\* found no box, and what happens to a box between events_clean's two passes.
CacheComplete ==
  ~raced => \A i \in aged + 1 .. Len(stamped) :
    stamped[i] \in Messages => map # None /\ stamped[i] \in Range(box[map].events)

\* A connection whose sender was replaced is not left deaf: it is closed, and the
\* client can connect again.
NotDeaf ==
  \A s \in Subs : (sub[s].pc = "live" /\ sub[s].tx # table) ~> (sub[s].pc = "off")

\* Every fire comes to an end, with cleaning, replays and other fires contending
\* for the map and the box.
FireEnds == \A p \in Pubs : pub[p].pc = "find" ~> pub[p].pc = "idle"
=============================================================================

------------------------------ MODULE ConnPool ------------------------------
(***************************************************************************)
(* The generic connection pool of pool.rs, used for Postgres and Redis.    *)
(*                                                                         *)
(* get, and put_back in the recycle task, hold the async mutex of          *)
(* InternalPool without an await, so each is one action.  A client's get   *)
(* awaits the oneshot (at most 500 ms) and Factory::make; at an await its  *)
(* future may be dropped.                                                  *)
(***************************************************************************)
EXTENDS Integers, Sequences, FiniteSets, SequencesExt

CONSTANTS Clients,   \* handler futures that use the pool
          Conns,     \* names for live connections; bounds how many live at once
          None,      \* Option::None
          Num,       \* with_num(num, ..): slots made at start
          MaxWaiters \* bound: senders queued, the dead ones included

ASSUME NumAssumption == Num \in Nat /\ MaxWaiters \in Nat
ASSUME NoneAssumption == None \notin Conns \cup Clients

VARIABLES conns,     \* VecDeque<Option<C>>: idle connections and empty slots
          waiters,   \* VecDeque<oneshot::Sender<C>>; alive while the receiver is
          rx,        \* what is in each client's oneshot
          chan,      \* mpsc from Connect::drop to the recycle task
          pc, held,  \* where each client is, and the connection it uses
          ownsSlot,  \* the client is making a connection for a slot it popped
          broken,    \* connections whose is_broken flag is set
          drift      \* history: slots gained by time-outs that made a connection, less
                     \* those of failed makes and of connections delivered too late

vars == <<conns, waiters, rx, chan, pc, held, ownsSlot, broken, drift>>

Waiter == [who : Clients, alive : BOOLEAN]
PCs == {"idle", "waiting", "expired", "making", "using"}

Live == {k \in Conns : \/ \E i \in DOMAIN conns : conns[i] = k
                       \/ \E i \in DOMAIN chan : chan[i] = k
                       \/ \E c \in Clients : rx[c] = k \/ held[c] = k}

\* with_num: a connection that cannot be made at start leaves an empty slot.
Init ==
  /\ conns \in [1 .. Num -> Conns \cup {None}]
  /\ \A i, j \in 1 .. Num : i # j /\ conns[i] # None => conns[i] # conns[j]
  /\ waiters = << >> /\ chan = << >>
  /\ rx = [c \in Clients |-> None]
  /\ pc = [c \in Clients |-> "idle"]
  /\ held = [c \in Clients |-> None]
  /\ ownsSlot = [c \in Clients |-> FALSE]
  /\ broken = {} /\ drift = 0

Goto(c, l) == pc' = [pc EXCEPT ![c] = l]

-----------------------------------------------------------------------------
(* Pool::get.                                                              *)

\* Defect: the front is looked at and not popped.
GetIdlePeek(c) ==
  /\ pc[c] = "idle" /\ conns # << >> /\ Head(conns) # None
  /\ held' = [held EXCEPT ![c] = Head(conns)]
  /\ Goto(c, "using")
  /\ UNCHANGED <<conns, waiters, rx, chan, ownsSlot, broken, drift>>

GetIdle(c) ==                 \* the front of the queue is a connection
  /\ pc[c] = "idle" /\ conns # << >> /\ Head(conns) # None
  /\ conns' = Tail(conns)
  /\ held' = [held EXCEPT ![c] = Head(conns)]
  /\ Goto(c, "using")
  /\ UNCHANGED <<waiters, rx, chan, ownsSlot, broken, drift>>

GetSlot(c) ==                 \* the front is an empty slot: fill it
  /\ pc[c] = "idle" /\ conns # << >> /\ Head(conns) = None
  /\ conns' = Tail(conns)
  /\ ownsSlot' = [ownsSlot EXCEPT ![c] = TRUE]
  /\ Goto(c, "making")
  /\ UNCHANGED <<waiters, rx, chan, held, broken, drift>>

Wait(c) ==                    \* nothing is idle: queue a oneshot
  /\ pc[c] = "idle" /\ conns = << >> /\ Len(waiters) < MaxWaiters
  /\ waiters' = Append(waiters, [who |-> c, alive |-> TRUE])
  /\ Goto(c, "waiting")
  /\ UNCHANGED <<conns, rx, chan, held, ownsSlot, broken, drift>>

Receive(c) ==                 \* Ok(Ok(connection))
  /\ pc[c] = "waiting" /\ rx[c] # None
  /\ held' = [held EXCEPT ![c] = rx[c]]
  /\ rx' = [rx EXCEPT ![c] = None]
  /\ Goto(c, "using")
  /\ UNCHANGED <<conns, waiters, chan, ownsSlot, broken, drift>>

\* Defect: a get that awaits the oneshot without a time limit.
NoTimeout(c) == FALSE /\ UNCHANGED vars

\* timeout() polls the oneshot, finds it empty and the 500 ms over.  The
\* receiver is dropped a moment later: a sender that runs in between succeeds.
Timeout(c) ==
  /\ pc[c] = "waiting" /\ rx[c] = None
  /\ Goto(c, "expired")
  /\ UNCHANGED <<conns, waiters, rx, chan, held, ownsSlot, broken, drift>>

\* Dropping the receiver leaves its sender in the queue, dead, and drops the
\* connection that was delivered and not received.
Hangup(c) ==
  /\ waiters' = [i \in DOMAIN waiters |->
                   IF waiters[i].who = c THEN [who |-> c, alive |-> FALSE] ELSE waiters[i]]
  /\ rx' = [rx EXCEPT ![c] = None]
  /\ drift' = IF rx[c] # None THEN drift - 1 ELSE drift

DropRx(c) ==
  /\ pc[c] = "expired"
  /\ Hangup(c)
  /\ Goto(c, "making")
  /\ UNCHANGED <<conns, chan, held, ownsSlot, broken>>

MakeOk(c) ==                  \* a new connection; after a time-out it is one more
  /\ pc[c] = "making"
  /\ \E k \in Conns \ Live : held' = [held EXCEPT ![c] = k]
  /\ Goto(c, "using")
  /\ ownsSlot' = [ownsSlot EXCEPT ![c] = FALSE]
  /\ drift' = IF ownsSlot[c] THEN drift ELSE drift + 1
  /\ UNCHANGED <<conns, waiters, rx, chan, broken>>

\* make()? returns the error, or the future is dropped while it awaits: the
\* slot that was popped for it is gone.
MakeFail(c) ==
  /\ pc[c] = "making"
  /\ Goto(c, "idle")
  /\ ownsSlot' = [ownsSlot EXCEPT ![c] = FALSE]
  /\ drift' = IF ownsSlot[c] THEN drift - 1 ELSE drift
  /\ UNCHANGED <<conns, waiters, rx, chan, held, broken>>

CancelWait(c) ==              \* the future is dropped while it awaits the oneshot
  /\ pc[c] = "waiting"
  /\ Hangup(c)
  /\ Goto(c, "idle")
  /\ UNCHANGED <<conns, chan, held, ownsSlot, broken>>

-----------------------------------------------------------------------------
(* Connect and the recycle task.                                           *)

Break(c) ==                   \* an error on the connection sets its flag
  /\ pc[c] = "using" /\ held[c] \notin broken
  /\ broken' = broken \cup {held[c]}
  /\ UNCHANGED <<conns, waiters, rx, chan, pc, held, ownsSlot, drift>>

\* Defect: what the drop sends is the Option after the connection was taken out of
\* it, as pool_test does.
ReleaseTaken(c) ==
  /\ pc[c] = "using"
  /\ chan' = Append(chan, None)
  /\ held' = [held EXCEPT ![c] = None]
  /\ Goto(c, "idle")
  /\ UNCHANGED <<conns, waiters, rx, ownsSlot, broken, drift>>

\* Connect::drop: a fresh clone of the sender always has a free place.
Release(c) ==
  /\ pc[c] = "using"
  /\ chan' = Append(chan, held[c])
  /\ held' = [held EXCEPT ![c] = None]
  /\ Goto(c, "idle")
  /\ UNCHANGED <<conns, waiters, rx, ownsSlot, broken, drift>>

Alive == {i \in DOMAIN waiters : waiters[i].alive}

\* Defects: put_back queues the connection without a look at the waiters; pops one
\* waiter and gives up when it is dead; serves the last waiter first.
PutBackIdle(k) == conns' = Append(conns, k) /\ UNCHANGED <<waiters, rx>>

PutBackOnce(k) ==
  \/ /\ waiters = << >>
     /\ conns' = Append(conns, k) /\ UNCHANGED <<waiters, rx>>
  \/ /\ waiters # << >>
     /\ rx' = IF Head(waiters).alive THEN [rx EXCEPT ![Head(waiters).who] = k] ELSE rx
     /\ waiters' = Tail(waiters)
     /\ UNCHANGED conns

PutBackLast(k) ==
  \/ /\ Alive = {}
     /\ waiters' = << >>
     /\ conns' = Append(conns, k)
     /\ UNCHANGED rx
  \/ \E i \in Alive :
       /\ \A j \in Alive : j <= i
       /\ rx' = [rx EXCEPT ![waiters[i].who] = k]
       /\ waiters' = SubSeq(waiters, 1, i - 1)
       /\ UNCHANGED conns

\* put_back(Some(conn)): the first waiter whose receiver is alive gets it and the
\* dead ones before it are popped; with none alive it goes to the back.
PutBack(k) ==
  \/ /\ Alive = {}
     /\ waiters' = << >>
     /\ conns' = Append(conns, k)
     /\ UNCHANGED rx
  \/ \E i \in Alive :
       /\ \A j \in Alive : i <= j
       /\ rx' = [rx EXCEPT ![waiters[i].who] = k]
       /\ waiters' = SubSeq(waiters, i + 1, Len(waiters))
       /\ UNCHANGED conns

\* Defect: recycle without a look at is_broken.
RecycleUnchecked ==
  /\ chan # << >>
  /\ chan' = Tail(chan)
  /\ PutBack(Head(chan))
  /\ UNCHANGED <<pc, held, ownsSlot, broken, drift>>

RecycleGood ==
  /\ chan # << >> /\ Head(chan) \notin broken
  /\ chan' = Tail(chan)
  /\ PutBack(Head(chan))
  /\ UNCHANGED <<pc, held, ownsSlot, broken, drift>>

\* A broken connection becomes put_back(None): an empty slot, and no waiter is woken.
RecycleBroken ==
  /\ chan # << >> /\ Head(chan) \in broken
  /\ chan' = Tail(chan)
  /\ conns' = Append(conns, None)
  /\ broken' = broken \ {Head(chan)}
  /\ UNCHANGED <<waiters, rx, pc, held, ownsSlot, drift>>

-----------------------------------------------------------------------------
Get(c) == \/ GetIdle(c) \/ GetSlot(c) \/ Wait(c) \/ Receive(c) \/ Timeout(c)
          \/ DropRx(c) \/ MakeOk(c) \/ MakeFail(c) \/ CancelWait(c)
Use(c) == Break(c) \/ Release(c)
Recycle == RecycleGood \/ RecycleBroken

Next == Recycle \/ \E c \in Clients : Get(c) \/ Use(c)

Spec == Init /\ [][Next]_vars

\* The timer fires, make() returns, a handler ends, the recycle task is scheduled;
\* nobody is obliged to call get.
Fairness == /\ WF_vars(Recycle)
            /\ \A c \in Clients :
                 /\ WF_vars(Receive(c) \/ Timeout(c) \/ DropRx(c))
                 /\ WF_vars(MakeOk(c) \/ MakeFail(c))
                 /\ WF_vars(Release(c))

FairSpec == Spec /\ Fairness

-----------------------------------------------------------------------------
(* Properties.                                                             *)

TypeOK ==
  /\ conns \in Seq(Conns \cup {None})
  /\ waiters \in Seq(Waiter)
  /\ rx \in [Clients -> Conns \cup {None}]
  /\ chan \in Seq(Conns)
  /\ pc \in [Clients -> PCs]
  /\ held \in [Clients -> Conns \cup {None}]
  /\ ownsSlot \in [Clients -> BOOLEAN]
  /\ broken \in SUBSET Conns
  /\ drift \in Int

\* Each connection is in one place: once in the idle queue, once on its way back,
\* in one oneshot or with one client.
Exclusive ==
  /\ \A i, j \in DOMAIN conns : i # j /\ conns[i] # None => conns[i] # conns[j]
  /\ \A i, j \in DOMAIN chan : i # j => chan[i] # chan[j]
  /\ \A c, d \in Clients : c # d => /\ held[c] # None => held[c] # held[d]
                                    /\ rx[c] # None => rx[c] # rx[d]
  /\ \A c, d \in Clients : held[c] # None => held[c] # rx[d]
  /\ \A i \in DOMAIN conns : conns[i] # None =>
       /\ \A j \in DOMAIN chan : chan[j] # conns[i]
       /\ \A c \in Clients : held[c] # conns[i] /\ rx[c] # conns[i]
  /\ \A j \in DOMAIN chan, c \in Clients : held[c] # chan[j] /\ rx[c] # chan[j]

\* put_back serves waiters before it queues: no working connection is idle while
\* a client still waits, though empty slots may be.
NoIdleWhileWaiting ==
  (\E i \in DOMAIN conns : conns[i] # None) => Alive = {}

\* A connection found broken is neither idle nor on its way to a client.
BrokenNotLent ==
  /\ \A i \in DOMAIN conns : conns[i] \notin broken
  /\ \A c \in Clients : rx[c] \notin broken

Count(f(_)) == Cardinality({c \in Clients : f(c)})

\* Slots are conserved by put_back, recycle and get: idle, lent, coming back,
\* delivered or being filled, they are the Num of with_num plus drift.  The code does
\* gain and lose slots, and drift counts all of that: one more for each time-out that
\* makes a connection, one less for each make that fails or is dropped and for each
\* connection dropped with the receiver it was delivered to.
SlotsConserved ==
  Len(conns) + Len(chan) + Count(LAMBDA c : held[c] # None)
    + Count(LAMBDA c : rx[c] # None) + Count(LAMBDA c : ownsSlot[c]) = Num + drift

\* Waiters are served in the order they came: nobody alive stood before the one
\* that a connection is delivered to.
FirstComeFirstServed ==
  [][\A i \in DOMAIN waiters :
       waiters[i].alive /\ rx'[waiters[i].who] # rx[waiters[i].who]
         => \A j \in 1 .. (i - 1) : ~waiters[j].alive]_vars

\* Every get comes to an end, though put_back(None) wakes nobody and all slots may
\* be empty: the time-out is what makes it so.
GetEnds ==
  \A c \in Clients :
    pc[c] \in {"waiting", "expired", "making"} ~> pc[c] \in {"using", "idle"}

\* The pool implements the lease its users rely on.
Holder == [k \in Conns |-> IF \E c \in Clients : held[c] = k
                           THEN CHOOSE c \in Clients : held[c] = k ELSE None]
Lease == INSTANCE ConnLease WITH Free <- None, holder <- Holder, dead <- broken
LeaseSpec == Lease!LeaseSpec
=============================================================================

--------------------------- MODULE ConnPool_proofs ---------------------------
(***************************************************************************)
(* Theorems about ConnPool, for every set of clients and connections, any  *)
(* number of slots and any bound on the queue: its types and safety        *)
(* invariants, that waiters are served in their order, and that the pool   *)
(* implements the lease of ConnLease.                                      *)
(***************************************************************************)
EXTENDS ConnPool, SequenceTheorems, FiniteSetTheorems, TLAPS

\* Nothing but None is twice in a sequence.
Once(s) == \A i, j \in DOMAIN s : i # j /\ s[i] # None => s[i] # s[j]

\* Where a client is says what it has.
Control ==
  \A c \in Clients :
    /\ held[c] # None <=> pc[c] = "using"
    /\ ownsSlot[c] => pc[c] = "making"
    /\ rx[c] # None => pc[c] \in {"waiting", "expired"}

\* A sender whose receiver is there belongs to a client that awaits it and has got
\* nothing yet, and is the only one of that client.
Queue ==
  /\ \A i \in Alive : /\ pc[waiters[i].who] \in {"waiting", "expired"}
                      /\ rx[waiters[i].who] = None
  /\ \A i, j \in Alive : i # j => waiters[i].who # waiters[j].who

\* Exclusive, in terms of what is in each place.
Apart ==
  /\ Once(conns) /\ Once(chan)
  /\ \A k \in Conns :
       /\ ~(k \in Range(conns) /\ k \in Range(chan))
       /\ k \in Range(conns) \cup Range(chan) => \A c \in Clients : held[c] # k /\ rx[c] # k
  /\ \A c, d \in Clients :
       /\ held[c] # None => held[c] # rx[d]
       /\ c # d => /\ held[c] # None => held[c] # held[d]
                   /\ rx[c] # None => rx[c] # rx[d]

\* A broken connection is with the client that broke it or on its way back.
BrokenThere ==
  \A k \in broken : k \in Range(chan) \/ \E c \in Clients : held[c] = k

\* NoIdleWhileWaiting, in terms of what is in the queue.
Served == (\E k \in Range(conns) : k # None) => Alive = {}

Inv == TypeOK /\ Control /\ Queue /\ Apart /\ BrokenThere /\ Served

-----------------------------------------------------------------------------
(* Sequences.                                                              *)

LEMMA TailFacts ==
  ASSUME NEW S, NEW s \in Seq(S), s # << >>
  PROVE  /\ Tail(s) \in Seq(S) /\ Head(s) \in S /\ Head(s) \in Range(s)
         /\ Range(s) = Range(Tail(s)) \cup {Head(s)}
         /\ Once(s) => Once(Tail(s)) /\ (Head(s) # None => Head(s) \notin Range(Tail(s)))
<1>1. PICK n \in Nat : n = Len(s)
  BY LenProperties
<1>2. n > 0 /\ DOMAIN s = 1 .. n /\ Head(s) = s[1]
  BY <1>1, EmptySeq, LenProperties
<1>3. /\ Tail(s) \in Seq(S) /\ Len(Tail(s)) = n - 1 /\ Head(s) \in S
      /\ \A i \in 1 .. n - 1 : Tail(s)[i] = s[i + 1]
  BY <1>1, HeadTailProperties
<1>4. DOMAIN Tail(s) = 1 .. n - 1
  BY <1>3, LenProperties
<1>5. \A i \in 1 .. n - 1 : i + 1 \in 1 .. n /\ i + 1 # 1
  OBVIOUS
<1>6. \A i \in 1 .. n : i = 1 \/ (i - 1 \in 1 .. n - 1 /\ (i - 1) + 1 = i)
  OBVIOUS
<1>7. Range(s) = Range(Tail(s)) \cup {Head(s)}
  <2>1. ASSUME NEW x \in Range(s) PROVE x \in Range(Tail(s)) \cup {Head(s)}
    <3>1. PICK i \in 1 .. n : x = s[i]
      BY <1>2 DEF Range
    <3>2. CASE i = 1
      BY <1>2, <3>1, <3>2
    <3>3. CASE i # 1
      <4>1. PICK j \in 1 .. n - 1 : j + 1 = i
        BY <1>6, <3>3
      <4> QED BY <1>3, <1>4, <3>1, <4>1 DEF Range
    <3> QED BY <3>2, <3>3
  <2>2. ASSUME NEW x \in Range(Tail(s)) PROVE x \in Range(s)
    BY <1>2, <1>3, <1>4, <1>5, <2>2 DEF Range
  <2>3. Head(s) \in Range(s)
    <3>1. 1 \in 1 .. n
      BY <1>2
    <3> QED BY <1>2, <3>1 DEF Range
  <2> QED BY <2>1, <2>2, <2>3
<1>8. ASSUME Once(s) PROVE Once(Tail(s)) /\ (Head(s) # None => Head(s) \notin Range(Tail(s)))
  <2>1. ASSUME NEW i \in 1 .. n - 1, NEW j \in 1 .. n - 1, i # j, Tail(s)[i] # None
        PROVE  Tail(s)[i] # Tail(s)[j]
    <3>1. i + 1 \in 1 .. n /\ j + 1 \in 1 .. n /\ i + 1 # j + 1
      BY <2>1
    <3> QED BY <1>2, <1>3, <1>8, <2>1, <3>1 DEF Once
  <2>2. ASSUME Head(s) # None, NEW i \in 1 .. n - 1 PROVE Head(s) # Tail(s)[i]
    <3>1. i + 1 \in 1 .. n /\ 1 \in 1 .. n /\ i + 1 # 1
      BY <1>2
    <3> QED BY <1>2, <1>3, <1>8, <2>2, <3>1 DEF Once
  <2> QED BY <1>4, <2>1, <2>2 DEF Once, Range
<1> QED BY <1>3, <1>7, <1>8

LEMMA AppendFacts ==
  ASSUME NEW S, NEW s \in Seq(S), NEW e \in S
  PROVE  /\ Append(s, e) \in Seq(S)
         /\ Range(Append(s, e)) = Range(s) \cup {e}
         /\ Once(s) /\ (e # None => e \notin Range(s)) => Once(Append(s, e))
<1>1. PICK n \in Nat : n = Len(s)
  BY LenProperties
<1>2. DOMAIN s = 1 .. n
  BY <1>1, LenProperties
<1>3. /\ Append(s, e) \in Seq(S) /\ Len(Append(s, e)) = n + 1
      /\ \A i \in 1 .. n : Append(s, e)[i] = s[i]
      /\ Append(s, e)[n + 1] = e
  BY <1>1, AppendProperties
<1>4. DOMAIN Append(s, e) = 1 .. n + 1
  BY <1>3, LenProperties
<1>5. 1 .. n + 1 = (1 .. n) \cup {n + 1} /\ n + 1 \notin 1 .. n
  OBVIOUS
<1>6. Range(Append(s, e)) = Range(s) \cup {e}
  BY <1>2, <1>3, <1>4, <1>5 DEF Range
<1>7. ASSUME Once(s), e # None => e \notin Range(s) PROVE Once(Append(s, e))
  <2> SUFFICES ASSUME NEW i \in 1 .. n + 1, NEW j \in 1 .. n + 1, i # j,
                      Append(s, e)[i] # None
               PROVE  Append(s, e)[i] # Append(s, e)[j]
    BY <1>4 DEF Once
  <2>1. CASE i \in 1 .. n /\ j \in 1 .. n
    BY <1>2, <1>3, <1>7, <2>1 DEF Once
  <2>2. CASE i \in 1 .. n /\ j = n + 1
    BY <1>2, <1>3, <1>7, <2>2 DEF Range
  <2>3. CASE i = n + 1 /\ j \in 1 .. n
    BY <1>2, <1>3, <1>7, <2>3 DEF Range
  <2> QED BY <1>5, <2>1, <2>2, <2>3
<1> QED BY <1>3, <1>6, <1>7

LEMMA SuffixFacts ==
  ASSUME NEW S, NEW s \in Seq(S), NEW i \in DOMAIN s
  PROVE  /\ SubSeq(s, i + 1, Len(s)) \in Seq(S)
         /\ \A j \in DOMAIN SubSeq(s, i + 1, Len(s)) :
              i + j \in DOMAIN s /\ i + j # i /\ SubSeq(s, i + 1, Len(s))[j] = s[i + j]
<1>1. PICK n \in Nat : n = Len(s)
  BY LenProperties
<1>2. DOMAIN s = 1 .. n /\ i \in 1 .. n
  BY <1>1, LenProperties
<1>3. \A j \in i + 1 .. n : s[j] \in S
  BY <1>1, <1>2, ElementOfSeq
<1> DEFINE t == SubSeq(s, i + 1, n)
<1>4. /\ t \in Seq(S)
      /\ Len(t) = IF i + 1 <= n THEN n - (i + 1) + 1 ELSE 0
      /\ \A j \in 1 .. n - (i + 1) + 1 : t[j] = s[i + 1 + j - 1]
  <2>1. i + 1 \in Int /\ n \in Int
    BY <1>2
  <2> QED BY <1>3, <2>1, SubSeqProperties
<1>5. DOMAIN t = 1 .. n - i
  <2>1. Len(t) = n - i
    BY <1>2, <1>4
  <2> QED BY <1>4, <2>1, LenProperties
<1>6. \A j \in 1 .. n - i : i + j \in 1 .. n /\ i + j # i /\ t[j] = s[i + j]
  <2> TAKE j \in 1 .. n - i
  <2>1. j \in 1 .. n - (i + 1) + 1 /\ i + 1 + j - 1 = i + j /\ i + j \in 1 .. n /\ i + j # i
    BY <1>2
  <2> QED BY <1>4, <2>1
<1> HIDE DEF t
<1>7. t \in Seq(S) /\ \A j \in DOMAIN t : i + j \in DOMAIN s /\ i + j # i /\ t[j] = s[i + j]
  BY <1>2, <1>4, <1>5, <1>6
<1> QED BY <1>1, <1>7 DEF t

-----------------------------------------------------------------------------
(* The queue of waiters.                                                   *)

\* A client that is idle has nobody alive in the queue.
LEMMA NotQueued ==
  ASSUME TypeOK, Queue, NEW c \in Clients, pc[c] \notin {"waiting", "expired"}
  PROVE  \A i \in Alive : waiters[i].who # c
BY DEF Queue

LEMMA QueueWait ==
  ASSUME Inv, NEW c \in Clients, Wait(c)
  PROVE  waiters' \in Seq(Waiter) /\ Queue'
<1> DEFINE e == [who |-> c, alive |-> TRUE]
<1>1. PICK n \in Nat : n = Len(waiters)
  BY LenProperties DEF Inv, TypeOK
<1>2. /\ waiters' \in Seq(Waiter) /\ Len(waiters') = n + 1
      /\ \A i \in 1 .. n : waiters'[i] = waiters[i]
      /\ waiters'[n + 1] = e
  <2>1. e \in Waiter
    BY DEF Waiter
  <2> QED BY <1>1, <2>1, AppendProperties DEF Inv, TypeOK, Wait
<1>3. DOMAIN waiters = 1 .. n /\ DOMAIN waiters' = 1 .. n + 1
  BY <1>1, <1>2, LenProperties DEF Inv, TypeOK
<1>4. 1 .. n + 1 = (1 .. n) \cup {n + 1}
  OBVIOUS
<1>5. \A i \in Alive' : (i \in Alive /\ waiters'[i] = waiters[i])
                          \/ (i = n + 1 /\ waiters'[i].who = c)
  BY <1>2, <1>3, <1>4 DEF Alive
<1>6. pc[c] = "idle" /\ rx[c] = None
  BY DEF Wait, Inv, Control
<1>7. \A i \in Alive : waiters[i].who # c
  BY <1>6, NotQueued DEF Inv
<1>8. /\ rx' = rx /\ pc'[c] = "waiting"
      /\ \A d \in Clients : d # c => pc'[d] = pc[d]
  BY DEF Wait, Goto, Inv, TypeOK
<1>9. \A i \in Alive : waiters[i].who \in Clients
  <2>1. \A i \in 1 .. n : waiters[i] \in Waiter
    BY <1>1, ElementOfSeq DEF Inv, TypeOK
  <2> QED BY <1>3, <2>1 DEF Alive, Waiter
<1> QED BY <1>2, <1>5, <1>6, <1>7, <1>8, <1>9 DEF Queue, Inv

LEMMA QueueHangup ==
  ASSUME Inv, NEW c \in Clients, Hangup(c)
  PROVE  /\ waiters' \in Seq(Waiter)
         /\ \A i \in Alive' : /\ i \in Alive /\ waiters'[i] = waiters[i]
                               /\ waiters[i].who \in Clients \ {c}
<1>1. PICK n \in Nat : n = Len(waiters)
  BY LenProperties DEF Inv, TypeOK
<1>2. DOMAIN waiters = 1 .. n
  BY <1>1, LenProperties DEF Inv, TypeOK
<1>3. \A i \in 1 .. n : waiters[i] \in Waiter
  BY <1>1, ElementOfSeq DEF Inv, TypeOK
<1>4. [who |-> c, alive |-> FALSE] \in Waiter
  BY DEF Waiter
<1>5. waiters' \in [1 .. n -> Waiter]
  BY <1>2, <1>3, <1>4 DEF Hangup
<1>6. waiters' \in Seq(Waiter)
  BY <1>5, SeqDef
<1> QED BY <1>2, <1>3, <1>6 DEF Hangup, Alive, Waiter

\* Delivery: the waiter served had nothing, and the queue is what came after it.
LEMMA QueueDelivery ==
  ASSUME Inv, NEW i \in Alive,
         waiters' = SubSeq(waiters, i + 1, Len(waiters)),
         NEW k, rx' = [rx EXCEPT ![waiters[i].who] = k], UNCHANGED pc
  PROVE  /\ waiters' \in Seq(Waiter) /\ Queue'
         /\ waiters[i].who \in Clients /\ rx[waiters[i].who] = None
         /\ pc[waiters[i].who] \in {"waiting", "expired"}
<1>1. i \in DOMAIN waiters /\ waiters \in Seq(Waiter)
  BY DEF Alive, Inv, TypeOK
<1>2. /\ waiters' \in Seq(Waiter)
      /\ \A j \in DOMAIN waiters' : i + j \in DOMAIN waiters /\ i + j # i /\ waiters'[j] = waiters[i + j]
  BY <1>1, SuffixFacts
<1>3. \A j \in Alive' : i + j \in Alive /\ i + j # i /\ waiters'[j] = waiters[i + j]
  BY <1>2 DEF Alive
<1>4. \A j \in Alive : waiters[j].who \in Clients
  <2>1. \A j \in DOMAIN waiters : waiters[j] \in Waiter
    BY <1>1, ElementOfSeq, LenProperties
  <2> QED BY <2>1 DEF Alive, Waiter
<1>5. \A j \in Alive' : j \in Int
  <2>1. \A j \in DOMAIN waiters' : j \in Int
    BY <1>2, LenProperties
  <2> QED BY <2>1 DEF Alive
<1>6. i \in Int
  BY <1>1, LenProperties
<1>7. \A j, l \in Alive' : j # l => i + j # i + l
  BY <1>5, <1>6
<1>8. \A j \in Alive' : /\ pc'[waiters'[j].who] \in {"waiting", "expired"}
                          /\ rx'[waiters'[j].who] = None
  <2> TAKE j \in Alive'
  <2>1. waiters[i + j].who # waiters[i].who /\ waiters[i + j].who \in Clients
    BY <1>3, <1>4 DEF Inv, Queue
  <2> QED BY <1>3, <2>1 DEF Inv, Queue, TypeOK
<1>9. \A j, l \in Alive' : j # l => waiters'[j].who # waiters'[l].who
  <2> TAKE j, l \in Alive'
  <2>1. /\ i + j \in Alive /\ waiters'[j] = waiters[i + j]
        /\ i + l \in Alive /\ waiters'[l] = waiters[i + l]
    BY <1>3
  <2>2. j # l => i + j # i + l
    BY <1>7
  <2> HIDE DEF Alive
  <2> QED BY <2>1, <2>2 DEF Inv, Queue
<1> QED BY <1>2, <1>4, <1>8, <1>9 DEF Inv, Queue

-----------------------------------------------------------------------------
(* Every step of a client keeps Inv.                                       *)

LEMMA KeepsGetIdle == ASSUME Inv, NEW c \in Clients, GetIdle(c) PROVE Inv'
<1> USE NoneAssumption
<1>1. /\ Tail(conns) \in Seq(Conns \cup {None}) /\ Head(conns) \in Range(conns)
      /\ Range(conns) = Range(Tail(conns)) \cup {Head(conns)}
      /\ Once(Tail(conns)) /\ (Head(conns) # None => Head(conns) \notin Range(Tail(conns)))
  BY TailFacts DEF Inv, TypeOK, Apart, GetIdle
<1>2. /\ Head(conns) \in Conns /\ pc[c] = "idle" /\ held[c] = None /\ rx[c] = None
      /\ Head(conns) \notin Range(chan) /\ \A d \in Clients : held[d] # Head(conns) /\ rx[d] # Head(conns)
  <2>1. Head(conns) \in Conns
    BY TailFacts DEF Inv, TypeOK, GetIdle
  <2> QED BY <1>1, <2>1 DEF Inv, Control, Apart, GetIdle
<1>3. TypeOK'
  BY <1>1, <1>2 DEF Inv, GetIdle, TypeOK, Goto, PCs
<1>4. Control'
  BY <1>2 DEF Inv, GetIdle, Control, Goto, TypeOK
<1>5. Queue'
  <2>1. \A i \in Alive : waiters[i].who # c
    BY <1>2, NotQueued DEF Inv
  <2>2. Alive' = Alive
    BY DEF Alive, GetIdle
  <2> QED BY <2>1, <2>2 DEF Inv, GetIdle, Queue, Goto, TypeOK
<1>6. Apart'
  BY <1>1, <1>2 DEF Inv, GetIdle, Apart, TypeOK
<1>7. BrokenThere'
  BY <1>2 DEF Inv, GetIdle, BrokenThere, TypeOK
<1>8. Served'
  BY <1>1 DEF Inv, GetIdle, Served, Alive
<1> QED BY <1>3, <1>4, <1>5, <1>6, <1>7, <1>8 DEF Inv

LEMMA KeepsGetSlot == ASSUME Inv, NEW c \in Clients, GetSlot(c) PROVE Inv'
<1> USE NoneAssumption
<1>1. /\ Tail(conns) \in Seq(Conns \cup {None}) /\ Head(conns) \in Range(conns)
      /\ Range(conns) = Range(Tail(conns)) \cup {Head(conns)}
      /\ Once(Tail(conns)) /\ (Head(conns) # None => Head(conns) \notin Range(Tail(conns)))
  BY TailFacts DEF Inv, TypeOK, Apart, GetSlot
<1>2. pc[c] = "idle" /\ held[c] = None /\ rx[c] = None
  BY DEF Inv, Control, GetSlot
<1>3. TypeOK'
  BY <1>1 DEF Inv, GetSlot, TypeOK, Goto, PCs
<1>4. Control'
  BY <1>2 DEF Inv, GetSlot, Control, Goto, TypeOK
<1>5. Queue'
  <2>1. \A i \in Alive : waiters[i].who # c
    BY <1>2, NotQueued DEF Inv
  <2>2. Alive' = Alive
    BY DEF Alive, GetSlot
  <2> QED BY <2>1, <2>2 DEF Inv, GetSlot, Queue, Goto, TypeOK
<1>6. Apart'
  BY <1>1 DEF Inv, GetSlot, Apart, TypeOK
<1>7. BrokenThere'
  BY DEF Inv, GetSlot, BrokenThere, TypeOK
<1>8. Served'
  BY <1>1 DEF Inv, GetSlot, Served, Alive
<1> QED BY <1>3, <1>4, <1>5, <1>6, <1>7, <1>8 DEF Inv

LEMMA KeepsWait == ASSUME Inv, NEW c \in Clients, Wait(c) PROVE Inv'
<1> USE NoneAssumption
<1>1. waiters' \in Seq(Waiter) /\ Queue'
  BY QueueWait
<1>2. TypeOK'
  BY <1>1 DEF Inv, Wait, TypeOK, Goto, PCs
<1>3. Control'
  BY DEF Inv, Wait, Control, Goto, TypeOK
<1>4. Queue'
  BY <1>1
<1>5. Apart'
  BY DEF Inv, Wait, Apart
<1>6. BrokenThere'
  BY DEF Inv, Wait, BrokenThere, Goto, TypeOK
<1>7. Served'
  <2>1. Range(conns') = {}
    BY DEF Wait, Range
  <2> QED BY <2>1 DEF Served
<1> QED BY <1>2, <1>3, <1>4, <1>5, <1>6, <1>7 DEF Inv

LEMMA KeepsReceive == ASSUME Inv, NEW c \in Clients, Receive(c) PROVE Inv'
<1> USE NoneAssumption
<1>1. pc[c] = "waiting" /\ rx[c] \in Conns /\ held[c] = None
  BY DEF Inv, TypeOK, Control, Receive
<1>2. TypeOK'
  BY <1>1 DEF Inv, Receive, TypeOK, Goto, PCs
<1>3. Control'
  BY DEF Inv, Receive, Control, Goto, TypeOK
<1>4. Queue'
  <2>1. \A i \in Alive : waiters[i].who # c
    BY DEF Inv, Queue, Receive
  <2>2. Alive' = Alive
    BY DEF Alive, Receive
  <2> QED BY <2>1, <2>2 DEF Inv, Receive, Queue, Goto, TypeOK
<1>5. Apart'
  BY <1>1 DEF Inv, Receive, Apart, TypeOK
<1>6. BrokenThere'
  BY <1>1 DEF Inv, Receive, BrokenThere, TypeOK
<1>7. Served'
  BY DEF Inv, Receive, Served, Alive
<1> QED BY <1>2, <1>3, <1>4, <1>5, <1>6, <1>7 DEF Inv

LEMMA KeepsTimeout == ASSUME Inv, NEW c \in Clients, Timeout(c) PROVE Inv'
<1> USE NoneAssumption
<1>1. TypeOK'
  BY DEF Inv, Timeout, TypeOK, Goto, PCs
<1>2. Control'
  BY DEF Inv, Timeout, Control, Goto, TypeOK
<1>3. Queue'
  BY DEF Inv, Timeout, Queue, Goto, TypeOK, Alive
<1>4. Apart'
  BY DEF Inv, Timeout, Apart
<1>5. BrokenThere'
  BY DEF Inv, Timeout, BrokenThere, Goto, TypeOK
<1>6. Served'
  BY DEF Inv, Timeout, Served, Alive
<1> QED BY <1>1, <1>2, <1>3, <1>4, <1>5, <1>6 DEF Inv

LEMMA KeepsDropRx == ASSUME Inv, NEW c \in Clients, DropRx(c) PROVE Inv'
<1> USE NoneAssumption
<1>1. /\ waiters' \in Seq(Waiter)
      /\ \A i \in Alive' : /\ i \in Alive /\ waiters'[i] = waiters[i]
                            /\ waiters[i].who \in Clients \ {c}
  BY QueueHangup DEF DropRx
<1>2. /\ rx' = [rx EXCEPT ![c] = None] /\ UNCHANGED <<conns, chan, held, broken, ownsSlot>>
      /\ pc' = [pc EXCEPT ![c] = "making"]
  BY DEF DropRx, Hangup, Goto
<1>3. TypeOK'
  BY <1>1, <1>2 DEF Inv, TypeOK, PCs, DropRx, Hangup
<1>4. Control'
  BY <1>2 DEF Inv, Control, TypeOK, DropRx
<1>5. Queue'
  BY <1>1, <1>2 DEF Inv, Queue, TypeOK
<1>6. Apart'
  BY <1>2 DEF Inv, Apart, TypeOK
<1>7. BrokenThere'
  BY <1>2 DEF Inv, BrokenThere
<1>8. Served'
  BY <1>1, <1>2 DEF Inv, Served
<1> QED BY <1>3, <1>4, <1>5, <1>6, <1>7, <1>8 DEF Inv

LEMMA KeepsCancelWait == ASSUME Inv, NEW c \in Clients, CancelWait(c) PROVE Inv'
<1> USE NoneAssumption
<1>1. /\ waiters' \in Seq(Waiter)
      /\ \A i \in Alive' : /\ i \in Alive /\ waiters'[i] = waiters[i]
                            /\ waiters[i].who \in Clients \ {c}
  BY QueueHangup DEF CancelWait
<1>2. /\ rx' = [rx EXCEPT ![c] = None] /\ UNCHANGED <<conns, chan, held, broken, ownsSlot>>
      /\ pc' = [pc EXCEPT ![c] = "idle"]
  BY DEF CancelWait, Hangup, Goto
<1>3. TypeOK'
  BY <1>1, <1>2 DEF Inv, TypeOK, PCs, CancelWait, Hangup
<1>4. Control'
  BY <1>2 DEF Inv, Control, TypeOK, CancelWait
<1>5. Queue'
  BY <1>1, <1>2 DEF Inv, Queue, TypeOK
<1>6. Apart'
  BY <1>2 DEF Inv, Apart, TypeOK
<1>7. BrokenThere'
  BY <1>2 DEF Inv, BrokenThere
<1>8. Served'
  BY <1>1, <1>2 DEF Inv, Served
<1> QED BY <1>3, <1>4, <1>5, <1>6, <1>7, <1>8 DEF Inv

LEMMA KeepsMakeOk == ASSUME Inv, NEW c \in Clients, MakeOk(c) PROVE Inv'
<1> USE NoneAssumption
<1>1. PICK k \in Conns \ Live : held' = [held EXCEPT ![c] = k]
  BY DEF MakeOk
<1>2. /\ k \in Conns /\ k \notin Range(conns) /\ k \notin Range(chan)
      /\ \A d \in Clients : held[d] # k /\ rx[d] # k
  BY <1>1 DEF Live, Range
<1>3. pc[c] = "making" /\ held[c] = None /\ rx[c] = None
  BY DEF Inv, Control, MakeOk
<1>4. TypeOK'
  BY <1>1, <1>2 DEF Inv, MakeOk, TypeOK, Goto, PCs
<1>5. Control'
  BY <1>1, <1>2, <1>3 DEF Inv, MakeOk, Control, Goto, TypeOK
<1>6. Queue'
  <2>1. \A i \in Alive : waiters[i].who # c
    BY <1>3, NotQueued DEF Inv
  <2>2. Alive' = Alive
    BY DEF Alive, MakeOk
  <2> QED BY <2>1, <2>2 DEF Inv, MakeOk, Queue, Goto, TypeOK
<1>7. Apart'
  BY <1>1, <1>2 DEF Inv, MakeOk, Apart, TypeOK
<1>8. BrokenThere'
  BY <1>1, <1>2, <1>3 DEF Inv, MakeOk, BrokenThere, TypeOK
<1>9. Served'
  BY DEF Inv, MakeOk, Served, Alive
<1> QED BY <1>4, <1>5, <1>6, <1>7, <1>8, <1>9 DEF Inv

LEMMA KeepsMakeFail == ASSUME Inv, NEW c \in Clients, MakeFail(c) PROVE Inv'
<1> USE NoneAssumption
<1>1. pc[c] = "making" /\ held[c] = None /\ rx[c] = None
  BY DEF Inv, Control, MakeFail
<1>2. TypeOK'
  BY DEF Inv, MakeFail, TypeOK, Goto, PCs
<1>3. Control'
  BY <1>1 DEF Inv, MakeFail, Control, Goto, TypeOK
<1>4. Queue'
  <2>1. \A i \in Alive : waiters[i].who # c
    BY <1>1, NotQueued DEF Inv
  <2>2. Alive' = Alive
    BY DEF Alive, MakeFail
  <2> QED BY <2>1, <2>2 DEF Inv, MakeFail, Queue, Goto, TypeOK
<1>5. Apart'
  BY DEF Inv, MakeFail, Apart
<1>6. BrokenThere'
  BY DEF Inv, MakeFail, BrokenThere
<1>7. Served'
  BY DEF Inv, MakeFail, Served, Alive
<1> QED BY <1>2, <1>3, <1>4, <1>5, <1>6, <1>7 DEF Inv

LEMMA KeepsBreak == ASSUME Inv, NEW c \in Clients, Break(c) PROVE Inv'
<1> USE NoneAssumption
<1>1. held[c] \in Conns
  BY DEF Inv, Control, Break, TypeOK
<1>2. TypeOK'
  BY <1>1 DEF Inv, Break, TypeOK
<1>3. Control'
  BY DEF Inv, Break, Control, Goto, TypeOK
<1>4. Queue'
  BY DEF Inv, Break, Queue, Alive
<1>5. Apart'
  BY DEF Inv, Break, Apart
<1>6. BrokenThere'
  BY DEF Inv, Break, BrokenThere, Goto, TypeOK
<1>7. Served'
  BY DEF Inv, Break, Served, Alive
<1> QED BY <1>2, <1>3, <1>4, <1>5, <1>6, <1>7 DEF Inv

LEMMA KeepsRelease == ASSUME Inv, NEW c \in Clients, Release(c) PROVE Inv'
<1> USE NoneAssumption
<1>1. /\ pc[c] = "using" /\ held[c] \in Conns /\ rx[c] = None
      /\ held[c] \notin Range(chan) /\ held[c] \notin Range(conns)
  BY DEF Inv, Control, Release, TypeOK, Apart
<1>2. /\ chan' \in Seq(Conns) /\ Range(chan') = Range(chan) \cup {held[c]}
      /\ Once(chan')
  BY <1>1, AppendFacts DEF Inv, TypeOK, Apart, Release
<1>3. TypeOK'
  BY <1>2 DEF Inv, Release, TypeOK, Goto, PCs
<1>4. Control'
  BY <1>1 DEF Inv, Release, Control, Goto, TypeOK
<1>5. Queue'
  <2>1. \A i \in Alive : waiters[i].who # c
    BY <1>1, NotQueued DEF Inv
  <2>2. Alive' = Alive
    BY DEF Alive, Release
  <2> QED BY <2>1, <2>2 DEF Inv, Release, Queue, Goto, TypeOK
<1>6. Apart'
  BY <1>1, <1>2 DEF Inv, Release, Apart, TypeOK
<1>7. BrokenThere'
  BY <1>1, <1>2 DEF Inv, Release, BrokenThere, TypeOK
<1>8. Served'
  BY DEF Inv, Release, Served, Alive
<1> QED BY <1>3, <1>4, <1>5, <1>6, <1>7, <1>8 DEF Inv

-----------------------------------------------------------------------------
(* So does every step of the recycle task.                                 *)

LEMMA KeepsRecycleGood == ASSUME Inv, RecycleGood PROVE Inv'
<1> USE NoneAssumption
<1> DEFINE k == Head(chan)
<1>1. /\ chan' = Tail(chan) /\ k \notin broken /\ PutBack(k)
      /\ UNCHANGED <<pc, held, ownsSlot, broken, drift>>
  BY DEF RecycleGood
<1>2. /\ chan' \in Seq(Conns) /\ k \in Conns
      /\ Range(chan) = Range(chan') \cup {k}
      /\ Once(chan') /\ k \notin Range(chan')
  <2>1. chan # << >> /\ chan \in Seq(Conns) /\ Once(chan)
    BY DEF Inv, TypeOK, Apart, RecycleGood
  <2>2. k \in Conns
    BY <2>1, TailFacts
  <2> QED BY <1>1, <2>1, <2>2, TailFacts
<1>3. k \notin Range(conns) /\ \A c \in Clients : held[c] # k /\ rx[c] # k
  BY <1>2 DEF Inv, Apart
<1> HIDE DEF k
<1>4. CASE Alive = {} /\ waiters' = << >> /\ conns' = Append(conns, k) /\ rx' = rx
  <2>1. /\ conns' \in Seq(Conns \cup {None}) /\ Range(conns') = Range(conns) \cup {k}
        /\ Once(conns')
    BY <1>2, <1>3, <1>4, AppendFacts DEF Inv, TypeOK, Apart
  <2>2. waiters' \in Seq(Waiter) /\ Alive' = {}
    BY <1>4 DEF Alive
  <2>3. TypeOK'
    BY <1>1, <1>2, <1>4, <2>1, <2>2 DEF Inv, TypeOK
  <2>4. Control' /\ Queue' /\ Served'
    BY <1>1, <1>4, <2>2 DEF Inv, Control, Queue, Served
  <2>5. Apart'
    BY <1>1, <1>2, <1>3, <1>4, <2>1 DEF Inv, Apart
  <2>6. BrokenThere'
    BY <1>1, <1>2 DEF Inv, BrokenThere
  <2> QED BY <2>3, <2>4, <2>5, <2>6 DEF Inv
<1>5. CASE \E i \in Alive : /\ rx' = [rx EXCEPT ![waiters[i].who] = k]
                           /\ waiters' = SubSeq(waiters, i + 1, Len(waiters))
                           /\ UNCHANGED conns
  <2>1. PICK i \in Alive : /\ rx' = [rx EXCEPT ![waiters[i].who] = k]
                           /\ waiters' = SubSeq(waiters, i + 1, Len(waiters))
                           /\ UNCHANGED conns
    BY <1>5
  <2>2. PICK w \in Clients : w = waiters[i].who /\ rx[w] = None /\ pc[w] \in {"waiting", "expired"}
    BY <1>1, <2>1, QueueDelivery
  <2>3. waiters' \in Seq(Waiter) /\ Queue'
    BY <1>1, <2>1, QueueDelivery
  <2>4. rx' = [rx EXCEPT ![w] = k] /\ conns' = conns
    BY <2>1, <2>2
  <2>5. TypeOK'
    BY <1>1, <1>2, <2>3, <2>4 DEF Inv, TypeOK
  <2>6. Control'
    BY <1>1, <2>2, <2>4 DEF Inv, Control, TypeOK
  <2>7. Apart'
    BY <1>1, <1>2, <1>3, <2>2, <2>4 DEF Inv, Apart, TypeOK
  <2>8. BrokenThere'
    BY <1>1, <1>2 DEF Inv, BrokenThere
  <2>9. Served'
    BY <2>4 DEF Inv, Served
  <2> QED BY <2>3, <2>5, <2>6, <2>7, <2>8, <2>9 DEF Inv
<1> QED BY <1>1, <1>4, <1>5 DEF PutBack

LEMMA KeepsRecycleBroken == ASSUME Inv, RecycleBroken PROVE Inv'
<1> USE NoneAssumption
<1> DEFINE k == Head(chan)
<1>1. /\ chan' = Tail(chan) /\ conns' = Append(conns, None) /\ broken' = broken \ {k}
      /\ UNCHANGED <<waiters, rx, pc, held, ownsSlot, drift>>
  BY DEF RecycleBroken
<1>2. /\ chan' \in Seq(Conns) /\ k \in Conns
      /\ Range(chan) = Range(chan') \cup {k}
      /\ Once(chan') /\ k \notin Range(chan')
  <2>1. chan # << >> /\ chan \in Seq(Conns) /\ Once(chan)
    BY DEF Inv, TypeOK, Apart, RecycleBroken
  <2>2. k \in Conns
    BY <2>1, TailFacts
  <2> QED BY <1>1, <2>1, <2>2, TailFacts
<1>3. /\ conns' \in Seq(Conns \cup {None}) /\ Range(conns') = Range(conns) \cup {None}
      /\ Once(conns')
  BY <1>1, AppendFacts DEF Inv, TypeOK, Apart
<1> HIDE DEF k
<1>4. TypeOK'
  BY <1>1, <1>2, <1>3 DEF Inv, TypeOK
<1>5. Control' /\ Queue'
  BY <1>1 DEF Inv, Control, Queue, Alive
<1>6. Apart'
  BY <1>1, <1>2, <1>3 DEF Inv, Apart
<1>7. BrokenThere'
  BY <1>1, <1>2 DEF Inv, BrokenThere
<1>8. Served'
  BY <1>1, <1>3 DEF Inv, Served, Alive
<1> QED BY <1>4, <1>5, <1>6, <1>7, <1>8 DEF Inv

LEMMA InitInv == Init => Inv
<1> SUFFICES ASSUME Init PROVE Inv
  OBVIOUS
<1> USE NoneAssumption, NumAssumption
<1>1. TypeOK
  <2>1. conns \in Seq(Conns \cup {None})
    BY SeqDef DEF Init
  <2>2. waiters \in Seq(Waiter) /\ chan \in Seq(Conns)
    BY DEF Init
  <2> QED BY <2>1, <2>2 DEF Init, TypeOK, PCs
<1>2. Alive = {} /\ Range(chan) = {} /\ DOMAIN chan = {} /\ DOMAIN conns = 1 .. Num
  BY DEF Init, Alive, Range
<1>3. Once(conns) /\ Once(chan)
  BY <1>2 DEF Init, Once
<1> QED BY <1>1, <1>2, <1>3 DEF Init, Inv, Control, Queue, Apart, BrokenThere, Served

LEMMA NextInv == Inv /\ [Next]_vars => Inv'
<1> SUFFICES ASSUME Inv, [Next]_vars PROVE Inv'
  OBVIOUS
<1>1. CASE Recycle
  BY <1>1, KeepsRecycleGood, KeepsRecycleBroken DEF Recycle
<1>2. CASE \E c \in Clients : Get(c)
  BY <1>2, KeepsGetIdle, KeepsGetSlot, KeepsWait, KeepsReceive, KeepsTimeout, KeepsDropRx,
     KeepsMakeOk, KeepsMakeFail, KeepsCancelWait DEF Get
<1>3. CASE \E c \in Clients : Use(c)
  BY <1>3, KeepsBreak, KeepsRelease DEF Use
<1>4. CASE UNCHANGED vars
  BY <1>4 DEF vars, Inv, TypeOK, Control, Queue, Apart, BrokenThere, Served, Alive
<1> QED BY <1>1, <1>2, <1>3, <1>4 DEF Next

LEMMA SpecInv == Spec => []Inv
BY InitInv, NextInv, PTL DEF Spec

-----------------------------------------------------------------------------
(* The invariants that the runs check.                                     *)

\* The pool's data keep their types: what is on its way back is a connection.
THEOREM TypeCorrect == Spec => []TypeOK
<1>1. Inv => TypeOK
  BY DEF Inv
<1> QED BY <1>1, SpecInv, PTL

\* A connection is in one place at a time, whatever clients, time-outs and the
\* recycle task do between one another's steps.
THEOREM OnePlace == Spec => []Exclusive
<1>1. ASSUME Inv PROVE Exclusive
  <2>1. \A i \in DOMAIN conns : conns[i] \in Range(conns) /\ conns[i] \in Conns \cup {None}
    BY <1>1, ElementOfSeq, LenProperties DEF Inv, TypeOK, Range
  <2>2. \A i \in DOMAIN chan : chan[i] \in Range(chan) /\ chan[i] \in Conns
    BY <1>1, ElementOfSeq, LenProperties DEF Inv, TypeOK, Range
  <2>3. \A i \in DOMAIN chan : chan[i] # None
    BY <2>2, NoneAssumption
  <2>4. /\ \A i, j \in DOMAIN conns : i # j /\ conns[i] # None => conns[i] # conns[j]
        /\ \A i, j \in DOMAIN chan : i # j => chan[i] # chan[j]
    BY <1>1, <2>3 DEF Inv, Apart, Once
  <2>5. \A i \in DOMAIN conns : conns[i] # None =>
          /\ \A j \in DOMAIN chan : chan[j] # conns[i]
          /\ \A c \in Clients : held[c] # conns[i] /\ rx[c] # conns[i]
    BY <1>1, <2>1, <2>2 DEF Inv, Apart
  <2>6. \A j \in DOMAIN chan, c \in Clients : held[c] # chan[j] /\ rx[c] # chan[j]
    BY <1>1, <2>2 DEF Inv, Apart
  <2> QED BY <1>1, <2>4, <2>5, <2>6 DEF Inv, Apart, Exclusive
<1> QED BY <1>1, SpecInv, PTL

\* No working connection is idle while a client waits for one.
THEOREM NoneKeptBack == Spec => []NoIdleWhileWaiting
<1>1. Inv => NoIdleWhileWaiting
  BY DEF Inv, Served, NoIdleWhileWaiting, Range
<1> QED BY <1>1, SpecInv, PTL

LEMMA InvBroken == Inv => BrokenNotLent
<1> SUFFICES ASSUME Inv PROVE BrokenNotLent
  OBVIOUS
<1>1. \A k \in broken : k \notin Range(conns) /\ \A c \in Clients : rx[c] # k
  <2> TAKE k \in broken
  <2>1. k \in Conns /\ k # None
    BY NoneAssumption DEF Inv, TypeOK
  <2> QED BY <2>1 DEF Inv, Apart, BrokenThere
<1>2. \A i \in DOMAIN conns : conns[i] \in Range(conns)
  BY DEF Range
<1> QED BY <1>1, <1>2 DEF BrokenNotLent

\* A connection found broken is given to nobody: the recycle task puts an empty slot
\* in its place.
THEOREM BrokenStaysAway == Spec => []BrokenNotLent
BY InvBroken, SpecInv, PTL

-----------------------------------------------------------------------------
(* The order of service.                                                   *)

FirstServed ==
  \A i \in DOMAIN waiters :
    waiters[i].alive /\ rx'[waiters[i].who] # rx[waiters[i].who]
      => \A j \in 1 .. (i - 1) : ~waiters[j].alive

\* Only a sender is on the way to somebody alive: what a client does to its own
\* oneshot concerns nobody in the queue.
LEMMA OwnOneshot ==
  ASSUME Inv, NEW c \in Clients, rx' = [rx EXCEPT ![c] = None]
  PROVE  FirstServed
<1> SUFFICES ASSUME NEW i \in DOMAIN waiters, waiters[i].alive
             PROVE  rx'[waiters[i].who] = rx[waiters[i].who]
  BY DEF FirstServed
<1>1. i \in Alive
  BY DEF Alive
<1>2. rx[waiters[i].who] = None
  BY <1>1 DEF Inv, Queue
<1>3. waiters[i].who \in Clients
  <2>1. \A j \in DOMAIN waiters : waiters[j] \in Waiter
    BY ElementOfSeq, LenProperties DEF Inv, TypeOK
  <2> QED BY <2>1 DEF Waiter
<1> QED BY <1>2, <1>3 DEF Inv, TypeOK

LEMMA DeliveryInOrder == ASSUME Inv, NEW k, PutBack(k) PROVE FirstServed
<1>1. CASE rx' = rx
  BY <1>1 DEF FirstServed
<1>2. CASE \E i \in Alive : /\ \A j \in Alive : i <= j
                           /\ rx' = [rx EXCEPT ![waiters[i].who] = k]
  <2>1. PICK i \in Alive : /\ \A j \in Alive : i <= j
                           /\ rx' = [rx EXCEPT ![waiters[i].who] = k]
    BY <1>2
  <2>2. PICK n \in Nat : DOMAIN waiters = 1 .. n
    BY LenProperties DEF Inv, TypeOK
  <2>3. \A j \in DOMAIN waiters : waiters[j].who \in Clients
    <3>1. \A j \in DOMAIN waiters : waiters[j] \in Waiter
      BY ElementOfSeq, LenProperties DEF Inv, TypeOK
    <3> QED BY <3>1 DEF Waiter
  <2> SUFFICES ASSUME NEW l \in DOMAIN waiters, waiters[l].alive,
                      rx'[waiters[l].who] # rx[waiters[l].who],
                      NEW j \in 1 .. (l - 1), waiters[j].alive
               PROVE  FALSE
    BY DEF FirstServed
  <2>4. l \in Alive /\ j \in Alive /\ j < l
    BY <2>2 DEF Alive
  <2>5. l = i
    <3>1. waiters[l].who = waiters[i].who
      BY <2>1, <2>3 DEF Inv, TypeOK
    <3> QED BY <2>4, <3>1 DEF Inv, Queue
  <2> QED BY <2>1, <2>2, <2>4, <2>5 DEF Alive
<1> QED BY <1>1, <1>2 DEF PutBack

\* Waiters are served in the order they came, whoever of them gave up meanwhile.
THEOREM InTheirOrder == Spec => FirstComeFirstServed
<1>1. ASSUME Inv, [Next]_vars PROVE FirstServed
  <2>1. CASE UNCHANGED rx
    BY <2>1 DEF FirstServed
  <2>2. CASE Recycle
    BY <1>1, <2>1, <2>2, DeliveryInOrder DEF Recycle, RecycleGood, RecycleBroken
  <2>3. ASSUME NEW c \in Clients, Get(c) PROVE FirstServed
    <3>1. CASE Receive(c) \/ DropRx(c) \/ CancelWait(c)
      BY <1>1, <3>1, OwnOneshot DEF Receive, DropRx, CancelWait, Hangup
    <3> QED BY <2>1, <2>3, <3>1 DEF Get, GetIdle, GetSlot, Wait, Timeout, MakeOk, MakeFail
  <2>4. ASSUME NEW c \in Clients, Use(c) PROVE FirstServed
    BY <2>1, <2>4 DEF Use, Break, Release
  <2> QED BY <1>1, <2>1, <2>2, <2>3, <2>4 DEF Next, vars
<1>2. Inv /\ [Next]_vars => [FirstServed]_vars
  BY <1>1
<1> QED BY <1>2, SpecInv, PTL DEF Spec, FirstComeFirstServed, FirstServed

-----------------------------------------------------------------------------
(* The lease.                                                              *)

\* Inv makes the holder of a connection the one client that has it.
HolderRight ==
  \A k \in Conns : /\ \A c \in Clients : held[c] = k => Holder[k] = c
                   /\ (\A c \in Clients : held[c] # k) => Holder[k] = None
                   /\ Holder[k] # None => Holder[k] \in Clients /\ held[Holder[k]] = k

LEMMA HolderIs == Inv => HolderRight
<1> USE NoneAssumption
<1> SUFFICES ASSUME Inv, NEW k \in Conns
             PROVE  /\ \A c \in Clients : held[c] = k => Holder[k] = c
                    /\ (\A c \in Clients : held[c] # k) => Holder[k] = None
                    /\ Holder[k] # None => Holder[k] \in Clients /\ held[Holder[k]] = k
  BY DEF HolderRight
<1>1. \A c, d \in Clients : held[c] = k /\ held[d] = k => c = d
  BY DEF Inv, Apart
<1>2. Holder[k] = IF \E c \in Clients : held[c] = k
                  THEN CHOOSE c \in Clients : held[c] = k ELSE None
  BY DEF Holder
<1>3. CASE \E c \in Clients : held[c] = k
  <2>1. PICK c \in Clients : c = Holder[k] /\ held[c] = k
    BY <1>2, <1>3
  <2> QED BY <1>1, <2>1
<1>4. CASE \A c \in Clients : held[c] # k
  BY <1>2, <1>4
<1> QED BY <1>3, <1>4

LEMMA HolderIsNext == Inv' => HolderRight'
BY HolderIs, PTL

\* A connection in no client's hands is given to c.
LEMMA HolderTakes ==
  ASSUME Inv, Inv', NEW c \in Clients, NEW k \in Conns, held[c] = None,
         \A d \in Clients : held[d] # k, held' = [held EXCEPT ![c] = k],
         k \notin broken, UNCHANGED broken
  PROVE  Lease!LeaseNext
<1> USE NoneAssumption
<1>1. Holder[k] = None /\ \A j \in Conns : Holder[j] # c
  BY HolderIs DEF HolderRight
<1>2. Holder' = [Holder EXCEPT ![k] = c]
  <2>1. Holder = [j \in Conns |-> Holder[j]] /\ Holder' = [j \in Conns |-> Holder'[j]]
    BY DEF Holder
  <2>2. held'[c] = k /\ \A d \in Clients : d # c => held'[d] = held[d]
    BY DEF Inv, TypeOK
  <2>3. Holder'[k] = c
    BY <2>2, HolderIsNext DEF HolderRight
  <2>4. ASSUME NEW j \in Conns, j # k PROVE Holder'[j] = Holder[j]
    BY <2>2, <2>4, HolderIs, HolderIsNext DEF HolderRight
  <2> QED BY <2>1, <2>3, <2>4
<1>3. Lease!Lend(c, k)
  BY <1>1, <1>2 DEF Lease!Lend
<1> QED BY <1>3 DEF Lease!LeaseNext

LEMMA HolderReturns ==
  ASSUME Inv, Inv', NEW c \in Clients, Release(c)
  PROVE  Lease!LeaseNext
<1> USE NoneAssumption
<1> DEFINE k == held[c]
<1>1. k \in Conns /\ held' = [held EXCEPT ![c] = None]
  BY DEF Inv, Control, TypeOK, Release
<1>2. Holder[k] = c
  BY <1>1, HolderIs DEF HolderRight
<1>3. Holder' = [Holder EXCEPT ![k] = None]
  <2>1. Holder = [j \in Conns |-> Holder[j]] /\ Holder' = [j \in Conns |-> Holder'[j]]
    BY DEF Holder
  <2>2. held'[c] = None /\ \A d \in Clients : d # c => held'[d] = held[d]
    BY <1>1 DEF Inv, TypeOK
  <2>3. \A d \in Clients : d # c => held[d] # k
    BY <1>1 DEF Inv, Apart
  <2>4. Holder'[k] = None
    BY <1>1, <2>2, <2>3, HolderIsNext DEF HolderRight
  <2>5. ASSUME NEW j \in Conns, j # k PROVE Holder'[j] = Holder[j]
    BY <2>2, <2>5, HolderIs, HolderIsNext DEF HolderRight
  <2> QED BY <2>1, <2>4, <2>5
<1>4. Lease!Return(c, k)
  BY <1>2, <1>3 DEF Lease!Return, Release
<1> QED BY <1>1, <1>4 DEF Lease!LeaseNext

LEMMA HolderBreaks ==
  ASSUME Inv, NEW c \in Clients, Break(c)
  PROVE  Lease!LeaseNext
<1>1. held[c] \in Conns
  BY DEF Inv, Control, TypeOK, Break
<1>2. Holder[held[c]] = c
  BY <1>1, HolderIs DEF HolderRight
<1>3. Lease!Fail(c, held[c])
  BY <1>2 DEF Lease!Fail, Break, Holder
<1> QED BY <1>1, <1>3 DEF Lease!LeaseNext

LEMMA HolderDiscards == ASSUME Inv, RecycleBroken PROVE Lease!LeaseNext
<1>1. Head(chan) \in Conns /\ Head(chan) \in Range(chan) /\ Head(chan) \in broken
  BY TailFacts DEF Inv, TypeOK, RecycleBroken
<1>2. Holder[Head(chan)] = None
  BY <1>1, HolderIs DEF HolderRight, Inv, Apart
<1>3. Lease!Discard(Head(chan))
  BY <1>1, <1>2 DEF Lease!Discard, RecycleBroken, Holder
<1> QED BY <1>1, <1>3 DEF Lease!LeaseNext

LEMMA LeaseStep == Inv /\ Inv' /\ [Next]_vars => [Lease!LeaseNext]_(Lease!leaseVars)
<1> SUFFICES ASSUME Inv, Inv', [Next]_vars
             PROVE  Lease!LeaseNext \/ UNCHANGED <<held, broken>>
  BY DEF Lease!leaseVars, Holder
<1> USE NoneAssumption
<1>1. CASE Recycle
  BY <1>1, HolderDiscards DEF Recycle, RecycleGood
<1>2. ASSUME NEW c \in Clients, Get(c) PROVE Lease!LeaseNext \/ UNCHANGED <<held, broken>>
  <2>1. CASE GetIdle(c)
    <3>1. Head(conns) \in Conns /\ Head(conns) \in Range(conns)
      BY <2>1, TailFacts DEF Inv, TypeOK, GetIdle
    <3>2. Head(conns) \notin broken
      <4>1. \A k \in Range(conns) : k \notin broken
        BY InvBroken DEF BrokenNotLent, Range
      <4> QED BY <3>1, <4>1
    <3>3. held[c] = None /\ \A d \in Clients : held[d] # Head(conns)
      BY <2>1, <3>1 DEF Inv, Control, Apart, GetIdle
    <3> QED BY <2>1, <3>1, <3>2, <3>3, HolderTakes DEF GetIdle
  <2>2. CASE Receive(c)
    <3>1. rx[c] \in Conns /\ rx[c] \notin broken
      BY <2>2, InvBroken DEF BrokenNotLent, Inv, TypeOK, Receive
    <3>2. held[c] = None /\ \A d \in Clients : held[d] # rx[c]
      BY <2>2, <3>1 DEF Inv, Control, Apart, Receive
    <3> QED BY <2>2, <3>1, <3>2, HolderTakes DEF Receive
  <2>3. CASE MakeOk(c)
    <3>1. PICK k \in Conns \ Live : held' = [held EXCEPT ![c] = k]
      BY <2>3 DEF MakeOk
    <3>2. k \notin Range(chan) /\ \A d \in Clients : held[d] # k
      BY <3>1 DEF Live, Range
    <3>3. k \notin broken /\ held[c] = None
      BY <2>3, <3>2 DEF Inv, BrokenThere, Control, MakeOk
    <3> QED BY <2>3, <3>1, <3>2, <3>3, HolderTakes DEF MakeOk
  <2> QED BY <1>2, <2>1, <2>2, <2>3
          DEF Get, GetSlot, Wait, Timeout, DropRx, Hangup, MakeFail, CancelWait
<1>3. ASSUME NEW c \in Clients, Use(c) PROVE Lease!LeaseNext
  BY <1>3, HolderReturns, HolderBreaks DEF Use
<1> QED BY <1>1, <1>2, <1>3 DEF Next, vars

\* The pool is a lease: a connection is lent to one client at a time, comes back
\* before it is lent again, and is not lent again once it is broken.
THEOREM PoolLeases == Spec => LeaseSpec
<1>1. Init => Lease!LeaseInit
  BY NoneAssumption DEF Init, Lease!LeaseInit, Holder
<1> QED BY <1>1, LeaseStep, SpecInv, PTL DEF Spec, LeaseSpec, Lease!LeaseSpec

-----------------------------------------------------------------------------
(* The slots.                                                              *)

Lent == {c \in Clients : held[c] # None}
Delivered == {c \in Clients : rx[c] # None}
Filling == {c \in Clients : ownsSlot[c]}
nIdle == Len(conns)
nBack == Len(chan)
nLent == Cardinality(Lent)
nDelivered == Cardinality(Delivered)
nFilling == Cardinality(Filling)

\* Only so many clients have something, however many there are.
Finite == IsFiniteSet(Lent) /\ IsFiniteSet(Delivered) /\ IsFiniteSet(Filling)
Balance == nIdle + nBack + nLent + nDelivered + nFilling = Num + drift
Slots == Finite /\ Balance

Numbers == /\ nIdle \in Nat /\ nBack \in Nat /\ nLent \in Nat /\ nDelivered \in Nat
           /\ nFilling \in Nat /\ drift \in Int /\ Num \in Nat

LEMMA Counts == Inv /\ Finite => Numbers
BY NumAssumption, LenProperties, FS_CardinalityType
   DEF Inv, TypeOK, Finite, Numbers, nIdle, nBack, nLent, nDelivered, nFilling

LEMMA OneMore ==
  ASSUME NEW S, NEW x, IsFiniteSet(S), x \notin S
  PROVE  /\ IsFiniteSet(S \cup {x})
         /\ Cardinality(S \cup {x}) = Cardinality(S) + 1
BY FS_AddElement

LEMMA OneLess ==
  ASSUME NEW S, NEW x, IsFiniteSet(S), x \in S
  PROVE  /\ IsFiniteSet(S \ {x})
         /\ Cardinality(S \ {x}) = Cardinality(S) - 1
BY FS_RemoveElement

\* A queue that loses its front is one shorter, one that gets an element one longer.
LEMMA Popped ==
  ASSUME NEW S, NEW s \in Seq(S), s # << >>
  PROVE  Len(Tail(s)) = Len(s) - 1
BY HeadTailProperties

LEMMA Pushed ==
  ASSUME NEW S, NEW s \in Seq(S), NEW e \in S
  PROVE  Len(Append(s, e)) = Len(s) + 1
BY AppendProperties

LEMMA IdlePopped == Inv /\ conns # << >> /\ conns' = Tail(conns) => nIdle' = nIdle - 1
BY Popped DEF Inv, TypeOK, nIdle

LEMMA IdlePushed ==
  ASSUME Inv, NEW k \in Conns \cup {None}, conns' = Append(conns, k)
  PROVE  nIdle' = nIdle + 1
BY Pushed DEF Inv, TypeOK, nIdle

LEMMA BackPopped == Inv /\ chan # << >> /\ chan' = Tail(chan) => nBack' = nBack - 1
BY Popped DEF Inv, TypeOK, nBack

LEMMA LentMore ==
  ASSUME Inv, Finite, NEW c \in Clients, NEW k \in Conns, held[c] = None,
         held' = [held EXCEPT ![c] = k]
  PROVE  IsFiniteSet(Lent') /\ nLent' = nLent + 1
<1>1. Lent' = Lent \cup {c} /\ c \notin Lent
  BY NoneAssumption DEF Lent, Inv, TypeOK
<1> QED BY <1>1, OneMore DEF Finite, nLent

LEMMA DeliveredLess ==
  ASSUME Inv, Finite, NEW c \in Clients, rx' = [rx EXCEPT ![c] = None]
  PROVE  /\ IsFiniteSet(Delivered')
         /\ nDelivered' = IF rx[c] # None THEN nDelivered - 1 ELSE nDelivered
<1>1. Delivered' = Delivered \ {c} /\ (c \in Delivered <=> rx[c] # None)
  BY DEF Delivered, Inv, TypeOK
<1> QED BY <1>1, FS_RemoveElement DEF Finite, nDelivered

LEMMA FillingLess ==
  ASSUME Inv, Finite, NEW c \in Clients, ownsSlot' = [ownsSlot EXCEPT ![c] = FALSE]
  PROVE  /\ IsFiniteSet(Filling')
         /\ nFilling' = IF ownsSlot[c] THEN nFilling - 1 ELSE nFilling
<1>1. Filling' = Filling \ {c} /\ (c \in Filling <=> ownsSlot[c])
  BY DEF Filling, Inv, TypeOK
<1> QED BY <1>1, FS_RemoveElement DEF Finite, nFilling

LEMMA SlotsKept == Inv /\ Slots /\ [Next]_vars => Slots'
<1> SUFFICES ASSUME Inv, Slots, [Next]_vars PROVE Slots'
  OBVIOUS
<1> USE NoneAssumption
<1>a. Numbers /\ Finite /\ Balance
  BY Counts DEF Slots
<1>1. /\ UNCHANGED conns => nIdle' = nIdle
      /\ UNCHANGED chan => nBack' = nBack
      /\ UNCHANGED held => Lent' = Lent /\ nLent' = nLent
      /\ UNCHANGED rx => Delivered' = Delivered /\ nDelivered' = nDelivered
      /\ UNCHANGED ownsSlot => Filling' = Filling /\ nFilling' = nFilling
  BY DEF nIdle, nBack, nLent, nDelivered, nFilling, Lent, Delivered, Filling
<1>2. CASE RecycleBroken
  <2>1. nIdle' = nIdle + 1 /\ nBack' = nBack - 1
    BY <1>2, IdlePushed, BackPopped DEF RecycleBroken
  <2> QED BY <1>a, <1>1, <1>2, <2>1 DEF RecycleBroken, Slots, Finite, Balance, Numbers
<1>3. CASE RecycleGood
  <2>1. nBack' = nBack - 1 /\ UNCHANGED <<held, ownsSlot, drift>>
    BY <1>3, BackPopped DEF RecycleGood
  <2>2. Head(chan) \in Conns
    BY <1>3, TailFacts DEF RecycleGood, Inv, TypeOK
  <2>3. CASE conns' = Append(conns, Head(chan)) /\ UNCHANGED rx
    <3>1. nIdle' = nIdle + 1
      BY <2>2, <2>3, IdlePushed
    <3> QED BY <1>a, <1>1, <2>1, <2>3, <3>1 DEF Slots, Finite, Balance, Numbers
  <2>4. CASE \E i \in Alive : /\ rx' = [rx EXCEPT ![waiters[i].who] = Head(chan)]
                             /\ waiters' = SubSeq(waiters, i + 1, Len(waiters))
                             /\ UNCHANGED conns
    <3>1. PICK w \in Clients : rx[w] = None /\ rx' = [rx EXCEPT ![w] = Head(chan)]
      BY <1>3, <2>4, QueueDelivery DEF RecycleGood
    <3>2. Delivered' = Delivered \cup {w} /\ w \notin Delivered
      BY <2>2, <3>1 DEF Delivered, Inv, TypeOK
    <3>3. IsFiniteSet(Delivered') /\ nDelivered' = nDelivered + 1
      BY <1>a, <3>2, OneMore DEF Finite, nDelivered
    <3> QED BY <1>a, <1>1, <2>1, <2>4, <3>3 DEF Slots, Finite, Balance, Numbers
  <2> QED BY <1>3, <2>3, <2>4 DEF RecycleGood, PutBack
<1>4. ASSUME NEW c \in Clients, GetIdle(c) PROVE Slots'
  <2>1. Head(conns) \in Conns /\ held[c] = None
    BY <1>4, TailFacts DEF GetIdle, Inv, TypeOK, Control
  <2>2. nIdle' = nIdle - 1 /\ IsFiniteSet(Lent') /\ nLent' = nLent + 1
    BY <1>a, <1>4, <2>1, IdlePopped, LentMore DEF GetIdle
  <2> QED BY <1>a, <1>1, <1>4, <2>2 DEF GetIdle, Slots, Finite, Balance, Numbers
<1>5. ASSUME NEW c \in Clients, GetSlot(c) PROVE Slots'
  <2>1. nIdle' = nIdle - 1
    BY <1>5, IdlePopped DEF GetSlot
  <2>2. Filling' = Filling \cup {c} /\ c \notin Filling
    BY <1>5 DEF Filling, GetSlot, Inv, TypeOK, Control
  <2>3. IsFiniteSet(Filling') /\ nFilling' = nFilling + 1
    BY <1>a, <2>2, OneMore DEF Finite, nFilling
  <2> QED BY <1>a, <1>1, <1>5, <2>1, <2>3 DEF GetSlot, Slots, Finite, Balance, Numbers
<1>6. ASSUME NEW c \in Clients, Receive(c) PROVE Slots'
  <2>1. rx[c] \in Conns /\ held[c] = None
    BY <1>6 DEF Receive, Inv, TypeOK, Control
  <2>2. /\ IsFiniteSet(Lent') /\ nLent' = nLent + 1
        /\ IsFiniteSet(Delivered') /\ nDelivered' = nDelivered - 1
    BY <1>a, <1>6, <2>1, LentMore, DeliveredLess DEF Receive
  <2> QED BY <1>a, <1>1, <1>6, <2>2 DEF Receive, Slots, Finite, Balance, Numbers
<1>7. ASSUME NEW c \in Clients, DropRx(c) \/ CancelWait(c) PROVE Slots'
  <2>1. /\ IsFiniteSet(Delivered')
        /\ nDelivered' = IF rx[c] # None THEN nDelivered - 1 ELSE nDelivered
    BY <1>a, <1>7, DeliveredLess DEF DropRx, CancelWait, Hangup
  <2>2. /\ UNCHANGED <<conns, chan, held, ownsSlot>>
        /\ drift' = IF rx[c] # None THEN drift - 1 ELSE drift
    BY <1>7 DEF DropRx, CancelWait, Hangup
  <2> QED BY <1>a, <1>1, <2>1, <2>2 DEF Slots, Finite, Balance, Numbers
<1>8. ASSUME NEW c \in Clients, MakeOk(c) PROVE Slots'
  <2>1. IsFiniteSet(Lent') /\ nLent' = nLent + 1
    <3>1. held[c] = None
      BY <1>8 DEF MakeOk, Inv, Control
    <3> QED BY <1>a, <1>8, <3>1, LentMore DEF MakeOk
  <2>2. /\ IsFiniteSet(Filling')
        /\ nFilling' = IF ownsSlot[c] THEN nFilling - 1 ELSE nFilling
    BY <1>a, <1>8, FillingLess DEF MakeOk
  <2> QED BY <1>a, <1>1, <1>8, <2>1, <2>2 DEF MakeOk, Slots, Finite, Balance, Numbers
<1>9. ASSUME NEW c \in Clients, MakeFail(c) PROVE Slots'
  <2>1. /\ IsFiniteSet(Filling')
        /\ nFilling' = IF ownsSlot[c] THEN nFilling - 1 ELSE nFilling
    BY <1>a, <1>9, FillingLess DEF MakeFail
  <2> QED BY <1>a, <1>1, <1>9, <2>1 DEF MakeFail, Slots, Finite, Balance, Numbers
<1>10. ASSUME NEW c \in Clients, Release(c) PROVE Slots'
  <2>1. held[c] \in Conns
    BY <1>10 DEF Release, Inv, Control, TypeOK
  <2>2. nBack' = nBack + 1
    BY <1>10, <2>1, Pushed DEF Release, Inv, TypeOK, nBack
  <2>3. Lent' = Lent \ {c} /\ c \in Lent
    BY <1>10, <2>1 DEF Release, Lent, Inv, TypeOK
  <2>4. IsFiniteSet(Lent') /\ nLent' = nLent - 1
    BY <1>a, <2>3, OneLess DEF Finite, nLent
  <2> QED BY <1>a, <1>1, <1>10, <2>2, <2>4 DEF Release, Slots, Finite, Balance, Numbers
<1>11. CASE UNCHANGED <<conns, chan, held, rx, ownsSlot, drift>>
  BY <1>a, <1>1, <1>11 DEF Slots, Finite, Balance
<1>12. ASSUME NEW c \in Clients, Wait(c) \/ Timeout(c) \/ Break(c) PROVE Slots'
  BY <1>11, <1>12 DEF Wait, Timeout, Break
<1> QED BY <1>2, <1>3, <1>4, <1>5, <1>6, <1>7, <1>8, <1>9, <1>10, <1>11, <1>12
        DEF Next, Recycle, Get, Use, vars

LEMMA SlotsAtStart == Init => Slots
<1> SUFFICES ASSUME Init PROVE Slots
  OBVIOUS
<1>1. Lent = {} /\ Delivered = {} /\ Filling = {}
  BY DEF Init, Lent, Delivered, Filling
<1>2. nIdle = Num
  BY NumAssumption DEF Init, nIdle
<1>3. nBack = 0
  BY DEF Init, nBack
<1>4. nLent = 0 /\ nDelivered = 0 /\ nFilling = 0 /\ Finite
  BY <1>1, FS_EmptySet DEF nLent, nDelivered, nFilling, Finite
<1> QED BY <1>2, <1>3, <1>4, NumAssumption DEF Slots, Balance, Init

\* No slot is lost or gained but by what drift counts: a time-out that makes a
\* connection, a make that fails or is dropped, a connection dropped with its receiver.
THEOREM SlotsStay == Spec => []SlotsConserved
<1>1. Slots => SlotsConserved
  BY DEF Slots, Balance, SlotsConserved, Count, nIdle, nBack, nLent, nDelivered, nFilling,
         Lent, Delivered, Filling
<1> QED BY <1>1, SpecInv, SlotsAtStart, SlotsKept, PTL DEF Spec
=============================================================================

---------------------------- MODULE Mailbox_proofs ----------------------------
(***************************************************************************)
(* Theorems about Mailbox, for every set of connections, fires, events and *)
(* objects and every capacity: its types, that a connection misses nothing *)
(* between replay and broadcast, that there is one order for all, and that *)
(* the cache keeps what is recent.                                         *)
(***************************************************************************)
EXTENDS Mailbox, MaxFacts, SequenceTheorems

\* A fire has its event until it ends, and its box from the moment it found or made
\* one.
Fires ==
  \A p \in Pubs :
    /\ pub[p].pc = "idle" <=> pub[p].event = None
    /\ pub[p].pc \in {"lock", "send"} <=> pub[p].box # None

\* A connection that found a sender follows it from a place no further than the next
\* event, and one that is to replay a box has found one.
Connections ==
  \A s \in Subs :
    /\ sub[s].pc \in {"find", "read", "live"} =>
         sub[s].tx # None /\ sub[s].next <= Len(sent[sub[s].tx]) + 1
    /\ sub[s].pc = "read" => sub[s].box # None

\* The map has a box while events_clean works on it, and until the next map is there.
Cleaning ==
  /\ clean.pc = "trim" \/ clean.next # None => map # None
  /\ clean.before <= aged

\* The mutex of a box is held by the fire that is about to send.
Mutex ==
  \A b \in Boxes, p \in Pubs : lock[b] = p <=> pub[p].pc = "send" /\ pub[p].box = b

\* An event is fired once, stamped when it is cached, and sent after that.
Once ==
  /\ \A i, j \in DOMAIN stamped : stamped[i] = stamped[j] => i = j
  /\ \A p, q \in Pubs : pub[p].event = pub[q].event /\ pub[p].event # None => p = q
  /\ \A p \in Pubs : pub[p].pc \in {"find", "make", "lock"} => pub[p].event \notin Range(stamped)
  /\ \A p \in Pubs : pub[p].pc = "send" => pub[p].event \in Range(stamped)
  /\ \A x \in Txs : Range(sent[x]) \subseteq Range(stamped) \cup Transients
  /\ \A x \in Txs, p \in Pubs : pub[p].pc = "send" => pub[p].event \notin Range(sent[x])

\* Boxes hold stamped events, each at one place in one box, and the last of a box
\* whose mutex is held is the one about to be sent.
Cached ==
  /\ \A b \in Boxes : Content(b) \subseteq Range(stamped)
  /\ \A b, c \in Boxes : \A m \in DOMAIN box[b].events, n \in DOMAIN box[c].events :
       box[b].events[m] = box[c].events[n] => b = c /\ m = n
  /\ \A p \in Pubs, b \in Boxes : \A m \in DOMAIN box[b].events :
       pub[p].pc = "send" /\ box[b].events[m] = pub[p].event =>
         pub[p].box = b /\ m = Len(box[b].events)

\* Unless the map lost a box, every fire works on the box in the map.
InMap == ~raced => \A p \in Pubs : pub[p].box # None => pub[p].box = map

\* NoGap, of each box that the connection has replayed or that, when it found none,
\* may be in the map from now on.
Replays(s) ==
  (IF sub[s].box = None THEN {map, clean.next} ELSE {sub[s].box}) \ {None}
Heard(s, b) == sub[s].view \cup Pending(s) \cup AboutToSend(b)
Follows(s) == sub[s].pc = "live" /\ sub[s].tx = table /\ ~sub[s].lagged
Told == \A s \in Subs : Follows(s) => \A b \in Replays(s) : Content(b) \subseteq Heard(s, b)

Control == TypeOK /\ Fires /\ Connections /\ Cleaning /\ Mutex

-----------------------------------------------------------------------------
(* Sequences.                                                              *)

LEMMA AppendFacts ==
  ASSUME NEW S, NEW s \in Seq(S), NEW e \in S
  PROVE  /\ Append(s, e) \in Seq(S)
         /\ Len(s) \in Nat /\ Len(Append(s, e)) = Len(s) + 1
         /\ DOMAIN s = 1 .. Len(s)
         /\ DOMAIN Append(s, e) = DOMAIN s \cup {Len(s) + 1}
         /\ \A i \in DOMAIN s : Append(s, e)[i] = s[i]
         /\ Append(s, e)[Len(s) + 1] = e
         /\ Range(Append(s, e)) = Range(s) \cup {e}
<1>1. PICK n \in Nat : n = Len(s)
  BY LenProperties
<1>2. DOMAIN s = 1 .. n
  BY <1>1, LenProperties
<1>3. /\ Append(s, e) \in Seq(S) /\ Len(Append(s, e)) = n + 1
      /\ \A i \in 1 .. n : Append(s, e)[i] = s[i]
      /\ Append(s, e)[n + 1] = e
  BY <1>1, AppendProperties
<1>4. DOMAIN Append(s, e) = 1 .. n + 1
  BY <1>3, LenProperties
<1>5. 1 .. n + 1 = (1 .. n) \cup {n + 1} /\ n + 1 \notin 1 .. n
  OBVIOUS
<1>6. Range(Append(s, e)) = Range(s) \cup {e}
  BY <1>2, <1>3, <1>4, <1>5 DEF Range
<1> QED BY <1>1, <1>2, <1>3, <1>4, <1>5, <1>6

\* What is left of a sequence when its first k elements are dropped.
Rest(s, t, k) ==
  /\ \A i \in DOMAIN t : i + k \in DOMAIN s /\ t[i] = s[i + k]
  /\ \A i \in DOMAIN s : i > k => s[i] \in Range(t)
  /\ Len(s) = Len(t) + k

LEMMA RestFacts ==
  ASSUME NEW S, NEW s \in Seq(S), NEW i \in DOMAIN s
  PROVE  /\ SubSeq(s, i, Len(s)) \in Seq(S)
         /\ i - 1 \in Nat /\ Rest(s, SubSeq(s, i, Len(s)), i - 1)
<1>1. PICK n \in Nat : n = Len(s)
  BY LenProperties
<1>2. DOMAIN s = 1 .. n /\ i \in 1 .. n
  BY <1>1, LenProperties
<1>3. \A j \in i .. n : s[j] \in S
  <2> SUFFICES ASSUME NEW j \in i .. n PROVE s[j] \in S
    OBVIOUS
  <2>1. j \in 1 .. n
    BY <1>2
  <2> QED BY <2>1, <1>1, ElementOfSeq
<1> DEFINE t == SubSeq(s, i, n)
<1>4. /\ t \in Seq(S) /\ Len(t) = n - i + 1
      /\ \A j \in 1 .. n - i + 1 : t[j] = s[i + j - 1]
  <2>1. i \in Int /\ n \in Int /\ i <= n
    BY <1>2
  <2>2. /\ t \in Seq(S) /\ Len(t) = IF i <= n THEN n - i + 1 ELSE 0
        /\ \A j \in 1 .. n - i + 1 : t[j] = s[i + j - 1]
    BY <2>1, <1>3, SubSeqProperties
  <2> QED BY <2>1, <2>2
<1>5. DOMAIN t = 1 .. n - i + 1
  BY <1>4, LenProperties
<1> HIDE DEF t
<1>6. ASSUME NEW j \in DOMAIN t PROVE j + (i - 1) \in DOMAIN s /\ t[j] = s[j + (i - 1)]
  <2>1. j \in 1 .. n - i + 1 /\ j + (i - 1) = i + j - 1 /\ i + j - 1 \in 1 .. n
    BY <1>2, <1>5
  <2> QED BY <2>1, <1>2, <1>4
<1>7. ASSUME NEW j \in DOMAIN s, j > i - 1 PROVE s[j] \in Range(t)
  <2>1. j - i + 1 \in 1 .. n - i + 1 /\ i + (j - i + 1) - 1 = j
    BY <1>2, <1>7
  <2>2. t[j - i + 1] = s[j]
    BY <2>1, <1>4
  <2> QED BY <2>1, <2>2, <1>5 DEF Range
<1>8. n = Len(t) + (i - 1) /\ i - 1 \in Nat
  BY <1>2, <1>4
<1> QED BY <1>1, <1>4, <1>6, <1>7, <1>8 DEF Rest, t

\* What events_clean leaves of the box in the map: it drops old events from the front
\* and the preview if it is old.
LEMMA TrimFacts ==
  ASSUME TypeOK, Cleaning, Trim
  PROVE  /\ map \in Boxes
         /\ \E kept \in Box, k \in Nat :
              /\ box' = [box EXCEPT ![map] = kept]
              /\ kept.preview \in {None, box[map].preview}
              /\ Rest(box[map].events, kept.events, k)
              /\ \A i \in DOMAIN box[map].events : i <= k => IsOld(box[map].events[i], clean.before)
         /\ clean' \in Clean /\ clean'.pc = "swap" /\ clean'.before = clean.before
         /\ clean'.next \in {None, map}
<1> DEFINE events == box[map].events
           fresh == {i \in DOMAIN events : ~IsOld(events[i], clean.before)}
           kept == [events |-> IF fresh = {} THEN << >>
                               ELSE SubSeq(events, Min(fresh), Len(events)),
                    preview |-> IF IsOld(box[map].preview, clean.before) THEN None
                                ELSE box[map].preview]
<1>1. map \in Boxes /\ clean.pc = "trim"
  BY DEF TypeOK, Cleaning, Trim
<1>2. /\ box' = [box EXCEPT ![map] = kept]
      /\ clean' = [clean EXCEPT !.pc = "swap", !.next = IF kept = EmptyBox THEN None ELSE map]
  BY DEF Trim
<1>3. events \in Seq(Messages) /\ box[map].preview \in Previews \cup {None}
  BY <1>1 DEF TypeOK, Box
<1>4. PICK n \in Nat : n = Len(events) /\ DOMAIN events = 1 .. n
  BY <1>3, LenProperties
<1>5. \E k \in Nat : /\ kept.events \in Seq(Messages)
                     /\ Rest(events, kept.events, k)
                     /\ \A i \in DOMAIN events : i <= k => IsOld(events[i], clean.before)
  <2> HIDE DEF events
  <2>1. CASE fresh = {}
    <3>1. kept.events = << >>
      BY <2>1
    <3>2. << >> \in Seq(Messages) /\ Len(<< >>) = 0 /\ DOMAIN << >> = {}
      BY EmptySeq
    <3>3. \A i \in DOMAIN events : ~ (i > n)
      BY <1>4
    <3>4. Rest(events, << >>, n)
      BY <1>4, <3>2, <3>3 DEF Rest
    <3>5. \A i \in DOMAIN events : IsOld(events[i], clean.before)
      BY <2>1
    <3> QED BY <3>1, <3>2, <3>4, <3>5
  <2>2. CASE fresh # {}
    <3>1. fresh \subseteq Int /\ IsFiniteSet(fresh)
      <4>1. fresh \subseteq 1 .. n /\ IsFiniteSet(1 .. n)
        BY <1>4, FS_Interval
      <4> QED BY <4>1, FS_Subset
    <3>2. Min(fresh) \in fresh /\ \A y \in fresh : Min(fresh) <= y
      <4> HIDE DEF fresh
      <4> QED BY <3>1, <2>2, MinIsLeast
    <3>3. PICK m \in fresh : m = Min(fresh)
      BY <3>2
    <3>4. kept.events = SubSeq(events, m, Len(events))
      BY <2>2, <3>3
    <3>5. m \in DOMAIN events /\ m \in Int
      BY <1>4
    <3>6. /\ SubSeq(events, m, Len(events)) \in Seq(Messages)
          /\ m - 1 \in Nat /\ Rest(events, SubSeq(events, m, Len(events)), m - 1)
      BY <1>3, <3>5, RestFacts
    <3>7. ASSUME NEW i \in DOMAIN events, i <= m - 1 PROVE IsOld(events[i], clean.before)
      <4>1. i \in Int /\ ~ (m <= i)
        BY <1>4, <3>5, <3>7
      <4>2. i \notin fresh
        BY <4>1, <3>2, <3>3
      <4> QED BY <4>2
    <3> QED BY <3>4, <3>6, <3>7
  <2> QED BY <2>1, <2>2
<1>6. kept \in Box
  BY <1>3, <1>5 DEF Box
<1>7. kept.preview \in {None, box[map].preview}
  OBVIOUS
<1>8. /\ clean' \in Clean /\ clean'.pc = "swap" /\ clean'.before = clean.before
      /\ clean'.next \in {None, map}
  <2> HIDE DEF kept
  <2>1. clean \in Clean
    BY DEF TypeOK
  <2> QED BY <1>1, <1>2, <2>1 DEF Clean
<1>9. \E q \in Box, k \in Nat :
         /\ box' = [box EXCEPT ![map] = q]
         /\ q.preview \in {None, box[map].preview}
         /\ Rest(box[map].events, q.events, k)
         /\ \A i \in DOMAIN box[map].events : i <= k => IsOld(box[map].events[i], clean.before)
  <2>1. PICK k \in Nat : /\ Rest(events, kept.events, k)
                         /\ \A i \in DOMAIN events : i <= k => IsOld(events[i], clean.before)
    BY <1>5
  <2> HIDE DEF kept
  <2> QED BY <1>2, <1>6, <1>7, <2>1
<1> QED BY <1>1, <1>8, <1>9

-----------------------------------------------------------------------------
(* Types, and what a task has where it is.                                 *)

LEMMA Placed ==
  ASSUME NEW r \in Sub, NEW x \in Txs, NEW n \in Nat \ {0}
  PROVE  [r EXCEPT !.pc = "find", !.tx = x, !.next = n] \in Sub
<1>1. [r EXCEPT !.pc = "find"] \in Sub
  BY DEF Sub
<1>2. [r EXCEPT !.pc = "find", !.tx = x] \in Sub
  BY <1>1 DEF Sub
<1> QED BY <1>2 DEF Sub

LEMMA FreeNames ==
  /\ FreeBoxes \subseteq Boxes /\ FreeTxs \subseteq Txs
  /\ \A b \in FreeBoxes : /\ b # map /\ b # clean.next
                          /\ \A p \in Pubs : pub[p].box # b
                          /\ \A s \in Subs : sub[s].box # b
  /\ \A x \in FreeTxs : x # table /\ \A s \in Subs : sub[s].tx # x
BY DEF FreeBoxes, FreeTxs

\* What a connection does leaves alone all but itself and, if it makes one, the sender.
LEMMA SubTypes ==
  ASSUME Control, NEW s \in Subs, SubStep(s)
  PROVE  TypeOK'
<1>1. sub[s] \in Sub /\ sub \in [Subs -> Sub] /\ None \notin Txs \cup Boxes
  BY EventsAssumption DEF Control, TypeOK
<1>2. Off \in Sub
  BY DEF Off, Sub
<1>3. CASE Subscribe(s)
  <2>1. CASE table = None
    <3>1. [Off EXCEPT !.pc = "create"] \in Sub
      BY <1>2 DEF Sub
    <3>2. sub' = [sub EXCEPT ![s] = [Off EXCEPT !.pc = "create"]]
      BY <1>3, <2>1 DEF Subscribe
    <3>3. sub' \in [Subs -> Sub]
      BY <1>1, <3>1, <3>2
    <3> QED BY <1>3, <3>3 DEF Control, TypeOK, Subscribe, feed, cache, clock
  <2>2. CASE table # None
    <3>1. table \in Txs /\ sent[table] \in Seq(Events)
      BY <2>2 DEF Control, TypeOK
    <3>2. PICK n \in Nat : n = Len(sent[table])
      BY <3>1, LenProperties
    <3>3. [Off EXCEPT !.pc = "find", !.tx = table, !.next = n + 1] \in Sub
      <4>1. n + 1 \in Nat \ {0}
        OBVIOUS
      <4> QED BY <1>2, <3>1, <4>1, Placed
    <3>4. sub' = [sub EXCEPT ![s] = [Off EXCEPT !.pc = "find", !.tx = table, !.next = n + 1]]
      BY <1>3, <2>2, <3>2 DEF Subscribe
    <3>5. sub' \in [Subs -> Sub]
      BY <1>1, <3>3, <3>4
    <3> QED BY <1>3, <3>5 DEF Control, TypeOK, Subscribe, feed, cache, clock
  <2> QED BY <2>1, <2>2
<1>4. CASE Create(s)
  <2>1. PICK x \in FreeTxs : /\ table' = x /\ sent' = [sent EXCEPT ![x] = << >>]
                             /\ sub' = [sub EXCEPT ![s].pc = "find", ![s].tx = x, ![s].next = 1]
    BY <1>4 DEF Create
  <2>2. x \in Txs /\ << >> \in Seq(Events)
    BY FreeNames, EmptySeq
  <2>3. [sub[s] EXCEPT !.pc = "find", !.tx = x, !.next = 1] \in Sub
    <3>1. 1 \in Nat \ {0}
      OBVIOUS
    <3> QED BY <1>1, <2>2, <3>1, Placed
  <2>4. sub' = [sub EXCEPT ![s] = [sub[s] EXCEPT !.pc = "find", !.tx = x, !.next = 1]]
    BY <2>1
  <2>5. sub' \in [Subs -> Sub]
    BY <1>1, <2>3, <2>4
  <2>6. sent' \in [Txs -> Seq(Events)]
    BY <2>1, <2>2 DEF Control, TypeOK
  <2> QED BY <1>4, <2>1, <2>2, <2>5, <2>6 DEF Control, TypeOK, Create, cache, clock
<1>5. CASE Find(s)
  <2>1. map \in Boxes \cup {None}
    BY DEF Control, TypeOK
  <2>2. PICK q \in {"live", "read"} :
          sub' = [sub EXCEPT ![s] = [sub[s] EXCEPT !.pc = q, !.box = map]]
    BY <1>5 DEF Find
  <2>3. [sub[s] EXCEPT !.pc = q, !.box = map] \in Sub
    BY <1>1, <2>1 DEF Sub
  <2>4. sub' \in [Subs -> Sub]
    BY <1>1, <2>2, <2>3
  <2> QED BY <1>5, <2>4 DEF Control, TypeOK, Find, feed, cache, clock
<1>6. CASE Read(s)
  <2>1. sub[s].box \in Boxes
    BY <1>1, <1>6 DEF Read, Control, Connections, Sub
  <2>2. box[sub[s].box] \in Box
    BY <2>1 DEF Control, TypeOK
  <2>3. Range(box[sub[s].box].events) \subseteq Messages
    BY <2>2, RangeOfSeq DEF Box
  <2>4. Content(sub[s].box) \subseteq Events
    BY <2>2, <2>3 DEF Content, Box, Events
  <2>5. [sub[s] EXCEPT !.pc = "live", !.view = Content(sub[s].box)] \in Sub
    BY <1>1, <2>4 DEF Sub
  <2>6. sub' = [sub EXCEPT ![s] = [sub[s] EXCEPT !.pc = "live", !.view = Content(sub[s].box)]]
    BY <1>6 DEF Read
  <2>7. sub' \in [Subs -> Sub]
    BY <1>1, <2>5, <2>6
  <2> QED BY <1>6, <2>7 DEF Control, TypeOK, Read, feed, cache, clock
<1>7. CASE Recv(s)
  <2>1. sub[s].tx \in Txs
    BY <1>1, <1>7 DEF Recv, Control, Connections, Sub
  <2>2. sent[sub[s].tx] \in Seq(Events)
    BY <2>1 DEF Control, TypeOK
  <2>3. PICK n \in Nat : n = Len(sent[sub[s].tx]) /\ DOMAIN sent[sub[s].tx] = 1 .. n
    BY <2>2, LenProperties
  <2>4. sub[s].next \in Nat \ {0} /\ Capacity \in Nat /\ sub[s].next <= n
    BY <1>1, <1>7, <2>3, CapacityAssumption DEF Sub, Recv
  <2>5. CASE sub[s].next < n - Capacity + 1
    <3>1. PICK k \in Nat \ {0} : k = n - Capacity + 1
      BY <2>4, <2>5
    <3>2. sub' = [sub EXCEPT ![s] = [sub[s] EXCEPT !.next = k, !.lagged = TRUE]]
      BY <1>7, <2>3, <2>5, <3>1 DEF Recv
    <3>3. [sub[s] EXCEPT !.next = k, !.lagged = TRUE] \in Sub
      BY <1>1, <3>1 DEF Sub
    <3>4. sub' \in [Subs -> Sub]
      BY <1>1, <3>2, <3>3
    <3> QED BY <1>7, <3>4 DEF Control, TypeOK, Recv, feed, cache, clock
  <2>6. CASE ~ (sub[s].next < n - Capacity + 1)
    <3>1. sub[s].next \in DOMAIN sent[sub[s].tx]
      BY <2>3, <2>4
    <3>2. PICK e \in Events : e = sent[sub[s].tx][sub[s].next]
      BY <2>2, <2>3, <3>1, ElementOfSeq
    <3>3. sub' = [sub EXCEPT ![s] = [sub[s] EXCEPT !.next = sub[s].next + 1,
                                                  !.view = sub[s].view \cup {e}]]
      BY <1>7, <2>3, <2>6, <3>2 DEF Recv
    <3>4. sub[s].next + 1 \in Nat \ {0}
      BY <2>4
    <3>5. [sub[s] EXCEPT !.next = sub[s].next + 1, !.view = sub[s].view \cup {e}] \in Sub
      BY <1>1, <3>2, <3>4 DEF Sub
    <3>6. sub' \in [Subs -> Sub]
      BY <1>1, <3>3, <3>5
    <3> QED BY <1>7, <3>6 DEF Control, TypeOK, Recv, feed, cache, clock
  <2> QED BY <2>5, <2>6
<1>8. CASE Closed(s)
  <2>1. sub' \in [Subs -> Sub]
    BY <1>1, <1>2, <1>8 DEF Closed
  <2> QED BY <1>8, <2>1 DEF Control, TypeOK, Closed, feed, cache, clock
<1>9. CASE Leave(s)
  <2>1. sub' \in [Subs -> Sub]
    BY <1>1, <1>2, <1>9 DEF Leave
  <2> QED BY <1>9, <2>1 DEF Control, TypeOK, Leave, feed, cache, clock
<1> QED BY <1>3, <1>4, <1>5, <1>6, <1>7, <1>8, <1>9 DEF SubStep

\* The event and the box of a fire, where it is.
LEMMA FireHas ==
  ASSUME Control, NEW p \in Pubs
  PROVE  /\ pub[p] \in Pub /\ pub[p].pc \in {"idle", "find", "make", "lock", "send"}
         /\ pub[p].pc # "idle" => pub[p].event \in Messages \cup Previews
         /\ pub[p].pc \in {"lock", "send"} => pub[p].box \in Boxes
         /\ pub[p].pc = "send" => lock[pub[p].box] = p
<1>1. pub[p] \in Pub
  BY DEF Control, TypeOK
<1>2. pub[p].pc \in {"idle", "find", "make", "lock", "send"}
  BY <1>1 DEF Pub
<1>3. pub[p].pc # "idle" => pub[p].event \in Messages \cup Previews
  BY <1>1 DEF Control, Fires, Pub
<1>4. pub[p].pc \in {"lock", "send"} => pub[p].box \in Boxes
  BY <1>1 DEF Control, Fires, Pub
<1>5. pub[p].pc = "send" => lock[pub[p].box] = p
  BY <1>4 DEF Control, Mutex
<1> QED BY <1>1, <1>2, <1>3, <1>4, <1>5

\* What Broadcast does to each channel.
LEMMA BroadcastFacts ==
  ASSUME Control, NEW e \in Events, Broadcast(e)
  PROVE  /\ sent' \in [Txs -> Seq(Events)]
         /\ \A x \in Txs : sent'[x] = IF x = table THEN Append(sent[x], e) ELSE sent[x]
<1>1. sent \in [Txs -> Seq(Events)] /\ table \in Txs \cup {None}
  BY DEF Control, TypeOK
<1>2. None \notin Txs
  BY EventsAssumption
<1>3. CASE table = None
  BY <1>1, <1>2, <1>3 DEF Broadcast
<1>4. CASE table # None
  <2>1. table \in Txs /\ Append(sent[table], e) \in Seq(Events)
    BY <1>1, <1>4, AppendProperties
  <2>2. sent' = [sent EXCEPT ![table] = Append(sent[table], e)]
    BY <1>4 DEF Broadcast
  <2> QED BY <1>1, <2>1, <2>2
<1> QED BY <1>3, <1>4

\* What Lock does to the box.
LEMMA LockFacts ==
  ASSUME Control, NEW p \in Pubs, Lock(p)
  PROVE  \E b \in Boxes, e \in Messages \cup Previews, q \in Box :
           /\ b = pub[p].box /\ e = pub[p].event /\ lock[b] = None
           /\ lock' = [lock EXCEPT ![b] = p]
           /\ box' = [box EXCEPT ![b] = q]
           /\ \/ e \in Previews /\ q.preview = e /\ q.events = box[b].events
              \/ /\ e \in Messages /\ q.preview = box[b].preview
                 /\ q.events = Append(box[b].events, e)
           /\ stamped' = Append(stamped, e)
           /\ pub' = [pub EXCEPT ![p] = [pub[p] EXCEPT !.pc = "send"]]
<1>1. PICK b \in Boxes, e \in Messages \cup Previews : b = pub[p].box /\ e = pub[p].event
  BY FireHas DEF Lock
<1>2. /\ lock[b] = None /\ lock' = [lock EXCEPT ![b] = p]
      /\ stamped' = Append(stamped, e)
      /\ pub' = [pub EXCEPT ![p] = [pub[p] EXCEPT !.pc = "send"]]
  BY <1>1 DEF Lock
<1>3. box[b] \in Box /\ box[b].events \in Seq(Messages)
  BY <1>1 DEF Control, TypeOK, Box
<1>4. CASE e \in Previews
  <2> DEFINE q == [box[b] EXCEPT !.preview = e]
  <2>1. q \in Box /\ q.preview = e /\ q.events = box[b].events
    BY <1>3, <1>4 DEF Box
  <2>2. box' = [box EXCEPT ![b] = q]
    BY <1>1, <1>4 DEF Lock
  <2> HIDE DEF q
  <2> QED BY <1>1, <1>2, <1>4, <2>1, <2>2
<1>5. CASE e \notin Previews
  <2> DEFINE q == [box[b] EXCEPT !.events = Append(box[b].events, e)]
  <2>1. e \in Messages
    BY <1>1, <1>5
  <2>2. Append(box[b].events, e) \in Seq(Messages)
    BY <1>3, <2>1, AppendProperties
  <2>3. q \in Box /\ q.preview = box[b].preview /\ q.events = Append(box[b].events, e)
    BY <1>3, <2>2 DEF Box
  <2>4. box' = [box EXCEPT ![b] = q]
    BY <1>1, <1>5 DEF Lock
  <2> HIDE DEF q
  <2> QED BY <1>1, <1>2, <2>1, <2>3, <2>4
<1> QED BY <1>4, <1>5

LEMMA PubTypes ==
  ASSUME Control, NEW p \in Pubs, PubStep(p)
  PROVE  TypeOK'
<1>1. pub[p] \in Pub /\ pub \in [Pubs -> Pub]
  BY DEF Control, TypeOK
<1>2. CASE Fire(p)
  <2>1. PICK e \in Messages \cup Previews :
          pub' = [pub EXCEPT ![p] = [pc |-> "find", event |-> e, box |-> None]]
    BY <1>2 DEF Fire
  <2>2. [pc |-> "find", event |-> e, box |-> None] \in Pub
    BY DEF Pub
  <2>3. pub' \in [Pubs -> Pub]
    BY <1>1, <2>1, <2>2
  <2> QED BY <1>2, <2>3 DEF Control, TypeOK, Fire, feed, cache, clock
<1>3. CASE FindBox(p)
  <2>1. map \in Boxes \cup {None}
    BY DEF Control, TypeOK
  <2>2. PICK q \in {"make", "lock"} :
          pub' = [pub EXCEPT ![p] = [pub[p] EXCEPT !.pc = q, !.box = map]]
    BY <1>3 DEF FindBox
  <2>3. [pub[p] EXCEPT !.pc = q, !.box = map] \in Pub
    BY <1>1, <2>1 DEF Pub
  <2>4. pub' \in [Pubs -> Pub]
    BY <1>1, <2>2, <2>3
  <2> QED BY <1>3, <2>4 DEF Control, TypeOK, FindBox, feed, cache, clock
<1>4. CASE MakeBox(p)
  <2>1. PICK b \in FreeBoxes : /\ map' = b /\ box' = [box EXCEPT ![b] = EmptyBox]
                               /\ pub' = [pub EXCEPT ![p] = [pub[p] EXCEPT !.pc = "lock", !.box = b]]
    BY <1>4 DEF MakeBox
  <2>2. b \in Boxes
    BY FreeNames
  <2>3. [pub[p] EXCEPT !.pc = "lock", !.box = b] \in Pub
    BY <1>1, <2>2 DEF Pub
  <2>4. pub' \in [Pubs -> Pub]
    BY <1>1, <2>1, <2>3
  <2>5. EmptyBox \in Box
    BY EmptySeq DEF EmptyBox, Box
  <2>6. box' \in [Boxes -> Box]
    BY <2>1, <2>5 DEF Control, TypeOK
  <2>7. raced' \in BOOLEAN
    BY <1>4 DEF MakeBox, Control, TypeOK
  <2> QED BY <1>4, <2>1, <2>2, <2>4, <2>6, <2>7 DEF Control, TypeOK, MakeBox, feed
<1>5. CASE Lock(p)
  <2>1. PICK b \in Boxes, e \in Messages \cup Previews, q \in Box :
          /\ lock' = [lock EXCEPT ![b] = p]
          /\ box' = [box EXCEPT ![b] = q]
          /\ stamped' = Append(stamped, e)
          /\ pub' = [pub EXCEPT ![p] = [pub[p] EXCEPT !.pc = "send"]]
    BY <1>5, LockFacts
  <2>2. [pub[p] EXCEPT !.pc = "send"] \in Pub
    BY <1>1 DEF Pub
  <2>3. pub' \in [Pubs -> Pub]
    BY <1>1, <2>1, <2>2
  <2>4. lock' \in [Boxes -> Pubs \cup {None}] /\ box' \in [Boxes -> Box]
    BY <2>1 DEF Control, TypeOK
  <2>5. PICK n \in Nat : n = Len(stamped)
    BY LenProperties DEF Control, TypeOK
  <2>6. stamped' \in Seq(Messages \cup Previews) /\ Len(stamped') = n + 1
    BY <2>1, <2>5, AppendProperties DEF Control, TypeOK
  <2>7. aged' \in 0 .. n + 1
    <3>1. aged \in 0 .. n /\ aged' = aged
      BY <1>5, <2>5 DEF Control, TypeOK, Lock
    <3> QED BY <3>1
  <2> QED BY <1>5, <2>3, <2>4, <2>6, <2>7 DEF Control, TypeOK, Lock, feed
<1>6. CASE Send(p)
  <2>1. pub[p].event \in Events /\ pub[p].box \in Boxes
    BY <1>6, FireHas DEF Send, Events
  <2>2. sent' \in [Txs -> Seq(Events)]
    BY <1>6, <2>1, BroadcastFacts DEF Send
  <2>3. lock' \in [Boxes -> Pubs \cup {None}]
    BY <1>6, <2>1 DEF Send, Control, TypeOK
  <2>4. Idle \in Pub
    BY DEF Idle, Pub
  <2>5. pub' \in [Pubs -> Pub]
    BY <1>1, <1>6, <2>4 DEF Send
  <2> QED BY <1>6, <2>2, <2>3, <2>5 DEF Control, TypeOK, Send, clock
<1> QED BY <1>2, <1>3, <1>4, <1>5, <1>6 DEF PubStep

LEMMA TypeStep == ASSUME Control, [Next]_vars PROVE TypeOK'
<1>1. ASSUME NEW s \in Subs, SubStep(s) PROVE TypeOK'
  BY <1>1, SubTypes
<1>2. ASSUME NEW p \in Pubs, PubStep(p) PROVE TypeOK'
  BY <1>2, PubTypes
<1>3. ASSUME NEW e \in Transients, SendTransient(e) PROVE TypeOK'
  <2>1. sent' \in [Txs -> Seq(Events)]
    BY <1>3, BroadcastFacts DEF SendTransient, Events
  <2> QED BY <1>3, <2>1 DEF Control, TypeOK, SendTransient, cache, clock
<1>4. CASE CleanStart
  <2>1. aged \in Nat
    <3>1. PICK n \in Nat : n = Len(stamped)
      BY LenProperties DEF Control, TypeOK
    <3>2. aged \in 0 .. n
      BY <3>1 DEF Control, TypeOK
    <3> QED BY <3>2
  <2>2. clean' \in Clean
    BY <1>4, <2>1 DEF CleanStart, Clean
  <2> QED BY <1>4, <2>2 DEF Control, TypeOK, CleanStart, feed, cache, clock
<1>5. CASE Trim
  <2>1. PICK kept \in Box : box' = [box EXCEPT ![map] = kept]
    BY <1>5, TrimFacts DEF Control
  <2>2. clean' \in Clean
    BY <1>5, TrimFacts DEF Control
  <2>3. box' \in [Boxes -> Box]
    BY <2>1 DEF Control, TypeOK
  <2> QED BY <1>5, <2>2, <2>3 DEF Control, TypeOK, Trim, feed, clock
<1>6. CASE Swap
  <2>1. Asleep \in Clean /\ clean.next \in Boxes \cup {None}
    BY DEF Asleep, Clean, Control, TypeOK
  <2>2. raced' \in BOOLEAN
    BY <1>6 DEF Swap, Control, TypeOK
  <2> QED BY <1>6, <2>1, <2>2 DEF Control, TypeOK, Swap, feed
<1>7. CASE BroadcastClean
  BY <1>7 DEF Control, TypeOK, BroadcastClean, cache, clock
<1>8. CASE Age
  <2>1. PICK n \in Nat : n = Len(stamped)
    BY LenProperties DEF Control, TypeOK
  <2>2. aged \in 0 .. n /\ aged < n /\ aged' = aged + 1 /\ stamped' = stamped
    BY <1>8, <2>1 DEF Age, Control, TypeOK
  <2>3. aged' \in 0 .. n
    BY <2>2
  <2> QED BY <1>8, <2>1, <2>2, <2>3 DEF Control, TypeOK, Age, feed, cache
<1>9. CASE UNCHANGED vars
  BY <1>9 DEF Control, TypeOK, vars
<1> QED BY <1>1, <1>2, <1>3, <1>4, <1>5, <1>6, <1>7, <1>8, <1>9 DEF Next, CleanStep

LEMMA FiresStep == ASSUME Control, [Next]_vars PROVE Fires'
<1>1. pub \in [Pubs -> Pub] /\ Fires
  BY DEF Control, TypeOK
<1>2. None \notin Events \cup Boxes /\ map \in Boxes \cup {None}
  BY EventsAssumption DEF Control, TypeOK
<1>3. ASSUME NEW p \in Pubs, Fire(p) PROVE Fires'
  BY <1>1, <1>2, <1>3 DEF Fire, Fires, Events
<1>4. ASSUME NEW p \in Pubs, FindBox(p) PROVE Fires'
  <2>1. pub' = [pub EXCEPT ![p] = [pub[p] EXCEPT !.pc = IF map = None THEN "make" ELSE "lock",
                                               !.box = map]]
    BY <1>4 DEF FindBox
  <2>2. pub[p].pc = "find" /\ pub[p].event # None /\ pub[p] \in Pub
    BY <1>1, <1>4 DEF FindBox, Fires
  <2>3. /\ pub'[p].event = pub[p].event /\ pub'[p].box = map
        /\ pub'[p].pc = IF map = None THEN "make" ELSE "lock"
    BY <1>1, <2>1, <2>2 DEF Pub
  <2>4. \A q \in Pubs \ {p} : pub'[q] = pub[q]
    BY <1>1, <2>1
  <2> QED BY <1>1, <2>2, <2>3, <2>4 DEF Fires
<1>5. ASSUME NEW p \in Pubs, MakeBox(p) PROVE Fires'
  <2>1. PICK b \in FreeBoxes :
          pub' = [pub EXCEPT ![p] = [pub[p] EXCEPT !.pc = "lock", !.box = b]]
    BY <1>5 DEF MakeBox
  <2>2. pub[p].pc = "make" /\ pub[p].event # None /\ pub[p] \in Pub /\ b # None
    BY <1>1, <1>2, <1>5, FreeNames DEF MakeBox, Fires
  <2>3. pub'[p].event = pub[p].event /\ pub'[p].box = b /\ pub'[p].pc = "lock"
    BY <1>1, <2>1, <2>2 DEF Pub
  <2>4. \A q \in Pubs \ {p} : pub'[q] = pub[q]
    BY <1>1, <2>1
  <2> QED BY <1>1, <2>2, <2>3, <2>4 DEF Fires
<1>6. ASSUME NEW p \in Pubs, Lock(p) PROVE Fires'
  <2>1. pub' = [pub EXCEPT ![p] = [pub[p] EXCEPT !.pc = "send"]] /\ pub[p].pc = "lock"
    BY <1>6 DEF Lock
  <2>2. /\ pub'[p].event = pub[p].event /\ pub'[p].box = pub[p].box /\ pub'[p].pc = "send"
        /\ \A q \in Pubs \ {p} : pub'[q] = pub[q]
    BY <1>1, <2>1 DEF Pub
  <2> QED BY <1>1, <2>1, <2>2 DEF Fires
<1>7. ASSUME NEW p \in Pubs, Send(p) PROVE Fires'
  BY <1>1, <1>7 DEF Send, Fires, Idle
<1>8. ASSUME pub' = pub PROVE Fires'
  BY <1>1, <1>8 DEF Fires
<1>9. pub' = pub \/ \E p \in Pubs : PubStep(p)
  BY DEF Next, vars, SubStep, Subscribe, Create, Find, Read, Recv, Closed, Leave, SendTransient,
         CleanStep, CleanStart, Trim, Swap, BroadcastClean, Age
<1> QED BY <1>3, <1>4, <1>5, <1>6, <1>7, <1>8, <1>9 DEF PubStep

LEMMA CleaningStep == ASSUME Control, [Next]_vars PROVE Cleaning'
<1>1. Cleaning /\ None \notin Boxes /\ clean \in Clean
  BY EventsAssumption DEF Control, TypeOK
<1>2. aged \in Nat /\ clean.before \in Nat
  <2>1. PICK n \in Nat : n = Len(stamped)
    BY LenProperties DEF Control, TypeOK
  <2>2. aged \in 0 .. n
    BY <2>1 DEF Control, TypeOK
  <2> QED BY <1>1, <2>2 DEF Clean
<1>3. ASSUME NEW p \in Pubs, MakeBox(p) PROVE Cleaning'
  <2>1. map' # None
    BY <1>1, <1>3, FreeNames DEF MakeBox
  <2> QED BY <1>1, <1>3, <2>1 DEF Cleaning, MakeBox
<1>4. CASE CleanStart
  BY <1>1, <1>2, <1>4 DEF CleanStart, Cleaning, cache, clock
<1>5. CASE Trim
  <2>1. clean'.pc = "swap" /\ clean'.before = clean.before /\ map # None
    BY <1>1, <1>5, TrimFacts DEF Control, TypeOK
  <2> QED BY <1>1, <1>5, <2>1 DEF Trim, Cleaning, clock
<1>6. CASE Swap
  BY <1>2, <1>6 DEF Swap, Cleaning, Asleep
<1>7. CASE Age
  BY <1>1, <1>2, <1>7 DEF Age, Cleaning, cache
<1>8. ASSUME map' = map, clean' = clean, aged' = aged PROVE Cleaning'
  BY <1>1, <1>8 DEF Cleaning
<1>9. \/ map' = map /\ clean' = clean /\ aged' = aged
      \/ CleanStart \/ Trim \/ Swap \/ Age \/ \E p \in Pubs : MakeBox(p)
  BY DEF Next, vars, SubStep, Subscribe, Create, Find, Read, Recv, Closed, Leave, SendTransient,
         CleanStep, BroadcastClean, PubStep, Fire, FindBox, Lock, Send, cache, clock
<1> QED BY <1>3, <1>4, <1>5, <1>6, <1>7, <1>8, <1>9

LEMMA MutexStep == ASSUME Control, [Next]_vars PROVE Mutex'
<1>1. /\ pub \in [Pubs -> Pub] /\ lock \in [Boxes -> Pubs \cup {None}] /\ Mutex
      /\ None \notin Pubs
  BY EventsAssumption DEF Control, TypeOK
<1>2. ASSUME NEW p \in Pubs, pub[p].pc # "send", pub'[p].pc # "send", lock' = lock,
             \A q \in Pubs \ {p} : pub'[q] = pub[q]
      PROVE  Mutex'
  BY <1>1, <1>2 DEF Mutex
<1>3. ASSUME NEW p \in Pubs, Fire(p) PROVE Mutex'
  <2>1. /\ pub[p].pc = "idle" /\ pub'[p].pc = "find" /\ lock' = lock
        /\ \A q \in Pubs \ {p} : pub'[q] = pub[q]
    BY <1>1, <1>3 DEF Fire, cache
  <2> QED BY <1>2, <2>1
<1>4. ASSUME NEW p \in Pubs, FindBox(p) PROVE Mutex'
  <2>1. /\ pub[p].pc = "find" /\ pub'[p].pc \in {"make", "lock"} /\ lock' = lock
        /\ \A q \in Pubs \ {p} : pub'[q] = pub[q]
    BY <1>1, <1>4 DEF FindBox, cache, Pub
  <2> QED BY <1>2, <2>1
<1>5. ASSUME NEW p \in Pubs, MakeBox(p) PROVE Mutex'
  <2>1. /\ pub[p].pc = "make" /\ pub'[p].pc = "lock" /\ lock' = lock
        /\ \A q \in Pubs \ {p} : pub'[q] = pub[q]
    BY <1>1, <1>5 DEF MakeBox, Pub
  <2> QED BY <1>2, <2>1
<1>6. ASSUME NEW p \in Pubs, Lock(p) PROVE Mutex'
  <2>1. PICK b \in Boxes : /\ b = pub[p].box /\ lock[b] = None
                           /\ lock' = [lock EXCEPT ![b] = p]
                           /\ pub' = [pub EXCEPT ![p] = [pub[p] EXCEPT !.pc = "send"]]
    BY <1>6, LockFacts
  <2>2. pub[p].pc = "lock" /\ pub'[p].pc = "send" /\ pub'[p].box = b
    BY <1>1, <1>6, <2>1 DEF Lock, Pub
  <2>3. \A q \in Pubs \ {p} : pub'[q] = pub[q]
    BY <1>1, <2>1
  <2>4. lock'[b] = p /\ \A c \in Boxes \ {b} : lock'[c] = lock[c]
    BY <1>1, <2>1
  <2> QED BY <1>1, <2>1, <2>2, <2>3, <2>4 DEF Mutex
<1>7. ASSUME NEW p \in Pubs, Send(p) PROVE Mutex'
  <2>1. PICK b \in Boxes : b = pub[p].box /\ lock[b] = p
    BY <1>7, FireHas DEF Send
  <2>2. /\ pub[p].pc = "send" /\ pub' = [pub EXCEPT ![p] = Idle]
        /\ lock' = [lock EXCEPT ![b] = None]
    BY <1>7, <2>1 DEF Send
  <2>3. pub'[p].pc = "idle" /\ \A q \in Pubs \ {p} : pub'[q] = pub[q]
    BY <1>1, <2>2 DEF Idle
  <2>4. lock'[b] = None /\ \A c \in Boxes \ {b} : lock'[c] = lock[c]
    BY <1>1, <2>2
  <2> QED BY <1>1, <2>1, <2>2, <2>3, <2>4 DEF Mutex
<1>8. ASSUME pub' = pub, lock' = lock PROVE Mutex'
  BY <1>1, <1>8 DEF Mutex
<1>9. (pub' = pub /\ lock' = lock) \/ \E p \in Pubs : PubStep(p)
  BY DEF Next, vars, SubStep, Subscribe, Create, Find, Read, Recv, Closed, Leave, SendTransient,
         CleanStep, CleanStart, Trim, Swap, BroadcastClean, Age, cache
<1> QED BY <1>3, <1>4, <1>5, <1>6, <1>7, <1>8, <1>9 DEF PubStep

\* What was sent on a channel in use only grows.
LEMMA SentGrows ==
  ASSUME Control, NEW e \in Events, Broadcast(e), NEW x \in Txs
  PROVE  /\ Len(sent[x]) \in Nat /\ Len(sent'[x]) \in Nat /\ Len(sent[x]) <= Len(sent'[x])
         /\ \A i \in 1 .. Len(sent[x]) : sent'[x][i] = sent[x][i]
         /\ x = table => Len(sent'[x]) = Len(sent[x]) + 1 /\ sent'[x][Len(sent[x]) + 1] = e
<1>1. sent[x] \in Seq(Events)
  BY DEF Control, TypeOK
<1>2. PICK n \in Nat : n = Len(sent[x])
  BY <1>1, LenProperties
<1>3. sent'[x] = IF x = table THEN Append(sent[x], e) ELSE sent[x]
  BY BroadcastFacts
<1>4. CASE x = table
  <2>1. /\ Len(sent'[x]) = n + 1 /\ \A i \in 1 .. n : sent'[x][i] = sent[x][i]
        /\ sent'[x][n + 1] = e
    BY <1>1, <1>2, <1>3, <1>4, AppendProperties
  <2> QED BY <1>2, <2>1
<1>5. CASE x # table
  BY <1>2, <1>3, <1>5
<1> QED BY <1>4, <1>5

LEMMA ConnectionsStep == ASSUME Control, [Next]_vars PROVE Connections'
<1>1. /\ sub \in [Subs -> Sub] /\ Connections /\ sent \in [Txs -> Seq(Events)]
      /\ table \in Txs \cup {None} /\ None \notin Txs
  BY EventsAssumption DEF Control, TypeOK
<1>2. ASSUME NEW s \in Subs, sent' = sent, \A t \in Subs \ {s} : sub'[t] = sub[t],
             sub'[s].pc \in {"find", "read", "live"} =>
               sub'[s].tx # None /\ sub'[s].next <= Len(sent[sub'[s].tx]) + 1,
             sub'[s].pc = "read" => sub'[s].box # None
      PROVE  Connections'
  BY <1>1, <1>2 DEF Connections
<1>3. ASSUME NEW s \in Subs, Subscribe(s) PROVE Connections'
  <2>1. CASE table = None
    <3>1. sub'[s].pc = "create"
      BY <1>1, <1>3, <2>1 DEF Subscribe, Off
    <3> QED BY <1>1, <1>2, <1>3, <3>1 DEF Subscribe, feed
  <2>2. CASE table # None
    <3>1. PICK n \in Nat : n = Len(sent[table])
      BY <1>1, <2>2, LenProperties
    <3>2. sub' = [sub EXCEPT ![s] = [Off EXCEPT !.pc = "find", !.tx = table, !.next = n + 1]]
      BY <1>3, <2>2, <3>1 DEF Subscribe
    <3>3. sub'[s].pc = "find" /\ sub'[s].tx = table /\ sub'[s].next = n + 1
      BY <1>1, <3>2 DEF Off
    <3> QED BY <1>1, <1>2, <1>3, <2>2, <3>1, <3>2, <3>3 DEF Subscribe, feed
  <2> QED BY <2>1, <2>2
<1>4. ASSUME NEW s \in Subs, Create(s) PROVE Connections'
  <2>1. PICK x \in FreeTxs :
          /\ sent' = [sent EXCEPT ![x] = << >>]
          /\ sub' = [sub EXCEPT ![s] = [sub[s] EXCEPT !.pc = "find", !.tx = x, !.next = 1]]
    BY <1>4 DEF Create
  <2>2. x \in Txs /\ \A t \in Subs : sub[t].tx # x
    BY FreeNames
  <2>3. sub'[s].pc = "find" /\ sub'[s].tx = x /\ sub'[s].next = 1
    BY <1>1, <2>1 DEF Sub
  <2>4. Len(sent'[x]) = 0
    BY <1>1, <2>1, <2>2, EmptySeq
  <2>5. \A t \in Subs \ {s} : sub'[t] = sub[t] /\ (sub[t].tx # None => sent'[sub[t].tx] = sent[sub[t].tx])
    BY <1>1, <2>1, <2>2 DEF Sub
  <2>6. ASSUME NEW t \in Subs \ {s}
        PROVE  /\ sub'[t].pc \in {"find", "read", "live"} =>
                    sub'[t].tx # None /\ sub'[t].next <= Len(sent'[sub'[t].tx]) + 1
               /\ sub'[t].pc = "read" => sub'[t].box # None
    BY <1>1, <2>5 DEF Connections
  <2>7. /\ sub'[s].pc \in {"find", "read", "live"} =>
             sub'[s].tx # None /\ sub'[s].next <= Len(sent'[sub'[s].tx]) + 1
        /\ sub'[s].pc = "read" => sub'[s].box # None
    BY <1>1, <2>2, <2>3, <2>4
  <2> QED BY <2>6, <2>7 DEF Connections
<1>5. ASSUME NEW s \in Subs, Find(s) PROVE Connections'
  <2>1. sub' = [sub EXCEPT ![s] = [sub[s] EXCEPT !.pc = IF map = None THEN "live" ELSE "read",
                                                !.box = map]]
    BY <1>5 DEF Find
  <2>2. /\ sub'[s].tx = sub[s].tx /\ sub'[s].next = sub[s].next /\ sub'[s].box = map
        /\ sub'[s].pc = (IF map = None THEN "live" ELSE "read") /\ sub[s].pc = "find"
    BY <1>1, <1>5, <2>1 DEF Sub, Find
  <2>3. sub[s].tx # None /\ sub[s].next <= Len(sent[sub[s].tx]) + 1
    BY <1>1, <2>2 DEF Connections
  <2> QED BY <1>1, <1>2, <1>5, <2>1, <2>2, <2>3 DEF Find, feed
<1>6. ASSUME NEW s \in Subs, Read(s) PROVE Connections'
  <2>1. sub' = [sub EXCEPT ![s] = [sub[s] EXCEPT !.pc = "live", !.view = Content(sub[s].box)]]
    BY <1>6 DEF Read
  <2>2. /\ sub'[s].tx = sub[s].tx /\ sub'[s].next = sub[s].next /\ sub'[s].pc = "live"
        /\ sub[s].pc = "read"
    BY <1>1, <1>6, <2>1 DEF Sub, Read
  <2>3. sub[s].tx # None /\ sub[s].next <= Len(sent[sub[s].tx]) + 1
    BY <1>1, <2>2 DEF Connections
  <2> QED BY <1>1, <1>2, <1>6, <2>1, <2>2, <2>3 DEF Read, feed
<1>7. ASSUME NEW s \in Subs, Recv(s) PROVE Connections'
  <2>1. sub[s].tx \in Txs /\ sub[s] \in Sub /\ sub[s].pc = "live"
    BY <1>1, <1>7 DEF Recv, Connections, Sub
  <2>2. PICK n \in Nat : n = Len(sent[sub[s].tx])
    BY <1>1, <2>1, LenProperties
  <2>3. PICK m \in Nat : m = sub[s].next /\ m <= n
    BY <1>7, <2>1, <2>2 DEF Sub, Recv
  <2>4. /\ sub'[s].tx = sub[s].tx /\ sub'[s].pc = "live"
        /\ sub'[s].next = IF m < n - Capacity + 1 THEN n - Capacity + 1 ELSE m + 1
        /\ \A t \in Subs \ {s} : sub'[t] = sub[t]
    BY <1>1, <1>7, <2>1, <2>2, <2>3 DEF Recv, Sub
  <2>5. sub'[s].next <= n + 1
    BY <2>3, <2>4, CapacityAssumption
  <2> QED BY <1>1, <1>2, <1>7, <2>1, <2>2, <2>4, <2>5 DEF Recv, feed
<1>8. ASSUME NEW s \in Subs, Closed(s) \/ Leave(s) PROVE Connections'
  <2>1. sub' = [sub EXCEPT ![s] = Off] /\ sent' = sent
    BY <1>8 DEF Closed, Leave, feed
  <2>2. sub'[s].pc = "off"
    BY <1>1, <2>1 DEF Off
  <2> QED BY <1>1, <1>2, <2>1, <2>2
<1>9. ASSUME NEW e \in Events, Broadcast(e), sub' = sub PROVE Connections'
  <2> SUFFICES ASSUME NEW t \in Subs
               PROVE  /\ sub[t].pc \in {"find", "read", "live"} =>
                           sub[t].tx # None /\ sub[t].next <= Len(sent'[sub[t].tx]) + 1
                      /\ sub[t].pc = "read" => sub[t].box # None
    BY <1>9 DEF Connections
  <2>1. CASE sub[t].pc \in {"find", "read", "live"}
    <3>1. sub[t].tx \in Txs /\ sub[t].next \in Nat
      BY <1>1, <2>1 DEF Connections, Sub
    <3>2. /\ Len(sent[sub[t].tx]) \in Nat /\ Len(sent'[sub[t].tx]) \in Nat
          /\ Len(sent[sub[t].tx]) <= Len(sent'[sub[t].tx])
      BY <1>9, <3>1, SentGrows
    <3>3. sub[t].next <= Len(sent[sub[t].tx]) + 1
      BY <1>1, <2>1 DEF Connections
    <3> QED BY <1>1, <2>1, <3>1, <3>2, <3>3 DEF Connections
  <2> QED BY <1>1, <2>1 DEF Connections
<1>10. ASSUME NEW p \in Pubs, Send(p) PROVE Connections'
  <2>1. pub[p].event \in Events /\ Broadcast(pub[p].event) /\ sub' = sub
    BY <1>10, FireHas DEF Send, Events
  <2> QED BY <1>9, <2>1
<1>11. ASSUME NEW e \in Transients, SendTransient(e) PROVE Connections'
  <2>1. e \in Events /\ Broadcast(e) /\ sub' = sub
    BY <1>11 DEF SendTransient, Events
  <2> QED BY <1>9, <2>1
<1>12. ASSUME sub' = sub, sent' = sent PROVE Connections'
  BY <1>1, <1>12 DEF Connections
<1>13. \/ sub' = sub /\ sent' = sent
       \/ \E s \in Subs : SubStep(s)
       \/ \E p \in Pubs : Send(p)
       \/ \E e \in Transients : SendTransient(e)
  BY DEF Next, vars, CleanStep, CleanStart, Trim, Swap, BroadcastClean, Age, PubStep, Fire, FindBox,
         MakeBox, Lock, feed
<1> QED BY <1>3, <1>4, <1>5, <1>6, <1>7, <1>8, <1>10, <1>11, <1>12, <1>13 DEF SubStep

LEMMA ControlStep == ASSUME Control, [Next]_vars PROVE Control'
BY TypeStep, FiresStep, ConnectionsStep, CleaningStep, MutexStep DEF Control

-----------------------------------------------------------------------------
(* Where an event is.                                                      *)

LEMMA OnceStep == ASSUME Control, Once, [Next]_vars PROVE Once'
<1>1. /\ pub \in [Pubs -> Pub] /\ sent \in [Txs -> Seq(Events)]
      /\ stamped \in Seq(Messages \cup Previews) /\ None \notin Events
      /\ Transients \cap (Messages \cup Previews) = {}
  BY EventsAssumption DEF Control, TypeOK
<1>2. ASSUME NEW p \in Pubs, pub[p].pc \in {"find", "make"}, pub'[p].pc \in {"make", "lock"},
             pub'[p].event = pub[p].event, \A q \in Pubs \ {p} : pub'[q] = pub[q],
             stamped' = stamped, sent' = sent
      PROVE  Once'
  BY <1>2 DEF Once
<1>3. ASSUME NEW p \in Pubs, Fire(p) PROVE Once'
  <2>1. PICK e \in (Messages \cup Previews) \ Fired :
          pub' = [pub EXCEPT ![p] = [pc |-> "find", event |-> e, box |-> None]]
    BY <1>3 DEF Fire
  <2>2. pub'[p].pc = "find" /\ pub'[p].event = e /\ \A q \in Pubs \ {p} : pub'[q] = pub[q]
    BY <1>1, <2>1
  <2>3. e \notin Range(stamped) /\ \A q \in Pubs : pub[q].event # e
    BY DEF Fired
  <2>4. stamped' = stamped /\ sent' = sent
    BY <1>3 DEF Fire, feed, clock
  <2> QED BY <2>2, <2>3, <2>4 DEF Once
<1>4. ASSUME NEW p \in Pubs, FindBox(p) PROVE Once'
  <2>1. /\ pub[p].pc = "find" /\ stamped' = stamped /\ sent' = sent
        /\ pub' = [pub EXCEPT ![p] = [pub[p] EXCEPT !.pc = IF map = None THEN "make" ELSE "lock",
                                                    !.box = map]]
    BY <1>4 DEF FindBox, feed, clock
  <2>2. /\ pub'[p].event = pub[p].event /\ pub'[p].pc \in {"make", "lock"}
        /\ \A q \in Pubs \ {p} : pub'[q] = pub[q]
    BY <1>1, <2>1 DEF Pub
  <2> QED BY <1>2, <2>1, <2>2
<1>5. ASSUME NEW p \in Pubs, MakeBox(p) PROVE Once'
  <2>1. PICK b \in FreeBoxes :
          pub' = [pub EXCEPT ![p] = [pub[p] EXCEPT !.pc = "lock", !.box = b]]
    BY <1>5 DEF MakeBox
  <2>2. /\ pub'[p].event = pub[p].event /\ pub'[p].pc = "lock"
        /\ \A q \in Pubs \ {p} : pub'[q] = pub[q]
    BY <1>1, <2>1 DEF Pub
  <2>3. pub[p].pc = "make" /\ stamped' = stamped /\ sent' = sent
    BY <1>5 DEF MakeBox, feed
  <2> QED BY <1>2, <2>2, <2>3
<1>6. ASSUME NEW p \in Pubs, Lock(p) PROVE Once'
  <2>1. PICK e \in Messages \cup Previews :
          /\ e = pub[p].event /\ stamped' = Append(stamped, e)
          /\ pub' = [pub EXCEPT ![p] = [pub[p] EXCEPT !.pc = "send"]]
    BY <1>6, LockFacts
  <2>2. /\ pub'[p].event = e /\ pub'[p].pc = "send" /\ pub[p].pc = "lock"
        /\ \A q \in Pubs \ {p} : pub'[q] = pub[q]
        /\ sent' = sent
    BY <1>1, <1>6, <2>1 DEF Pub, Lock, feed
  <2>3. e \notin Range(stamped)
    BY <2>1, <2>2 DEF Once
  <2>4. /\ Range(stamped') = Range(stamped) \cup {e}
        /\ DOMAIN stamped' = DOMAIN stamped \cup {Len(stamped) + 1}
        /\ \A i \in DOMAIN stamped : stamped'[i] = stamped[i]
        /\ stamped'[Len(stamped) + 1] = e
    BY <1>1, <2>1, AppendFacts
  <2>5. \A i, j \in DOMAIN stamped' : stamped'[i] = stamped'[j] => i = j
    BY <2>3, <2>4 DEF Once, Range
  <2>6. \A q, r \in Pubs : pub'[q].event = pub'[r].event /\ pub'[q].event # None => q = r
    BY <2>1, <2>2 DEF Once
  <2>7. \A q \in Pubs : pub'[q].pc \in {"find", "make", "lock"} => pub'[q].event \notin Range(stamped')
    <3> SUFFICES ASSUME NEW q \in Pubs \ {p}, pub[q].pc \in {"find", "make", "lock"}
                 PROVE  pub[q].event \notin Range(stamped) \cup {e}
      BY <2>2, <2>4
    <3>1. pub[q].event # e
      BY <1>1, <2>1 DEF Once, Events
    <3> QED BY <3>1 DEF Once
  <2>8. \A q \in Pubs : pub'[q].pc = "send" => pub'[q].event \in Range(stamped')
    BY <2>2, <2>4 DEF Once
  <2>9. \A x \in Txs : Range(sent'[x]) \subseteq Range(stamped') \cup Transients
    BY <2>2, <2>4 DEF Once
  <2>10. \A x \in Txs, q \in Pubs : pub'[q].pc = "send" => pub'[q].event \notin Range(sent'[x])
    BY <1>1, <2>2, <2>3 DEF Once
  <2> QED BY <2>5, <2>6, <2>7, <2>8, <2>9, <2>10 DEF Once
<1>7. ASSUME NEW e \in Events, Broadcast(e), stamped' = stamped,
             e \in Range(stamped) \cup Transients, None \notin Events,
             \A q \in Pubs : pub'[q] = pub[q] \/ pub'[q] = Idle,
             \A q \in Pubs : pub'[q].pc = "send" => pub'[q].event # e
      PROVE  Once'
  <2>1. \A x \in Txs : Range(sent'[x]) \subseteq Range(sent[x]) \cup {e}
    <3> SUFFICES ASSUME NEW x \in Txs PROVE Range(sent'[x]) \subseteq Range(sent[x]) \cup {e}
      OBVIOUS
    <3>1. sent'[x] = IF x = table THEN Append(sent[x], e) ELSE sent[x]
      BY <1>7, BroadcastFacts
    <3>2. sent[x] \in Seq(Events)
      BY <1>1
    <3>3. Range(Append(sent[x], e)) = Range(sent[x]) \cup {e}
      BY <3>2, AppendFacts
    <3> QED BY <3>1, <3>3
  <2>2. Idle.pc = "idle" /\ Idle.event = None
    BY DEF Idle
  <2>3. \A q, r \in Pubs : pub'[q].event = pub'[r].event /\ pub'[q].event # None => q = r
    BY <1>7, <2>2 DEF Once
  <2>4. \A q \in Pubs : pub'[q].pc \in {"find", "make", "lock"} => pub'[q].event \notin Range(stamped')
    BY <1>7, <2>2 DEF Once
  <2>5. \A q \in Pubs : pub'[q].pc = "send" => pub'[q].event \in Range(stamped')
    BY <1>7, <2>2 DEF Once
  <2>6. \A x \in Txs : Range(sent'[x]) \subseteq Range(stamped') \cup Transients
    BY <1>7, <2>1 DEF Once
  <2>7. ASSUME NEW x \in Txs, NEW q \in Pubs, pub'[q].pc = "send"
        PROVE  pub'[q].event \notin Range(sent'[x])
    <3>1. pub'[q] = pub[q]
      BY <1>7, <2>2, <2>7
    <3>2. pub[q].event \notin Range(sent[x]) /\ pub[q].event # e
      BY <1>7, <2>7, <3>1 DEF Once
    <3> QED BY <2>1, <3>1, <3>2
  <2> QED BY <1>7, <2>3, <2>4, <2>5, <2>6, <2>7 DEF Once
<1>8. ASSUME NEW p \in Pubs, Send(p) PROVE Once'
  <2>1. PICK e \in Messages \cup Previews : e = pub[p].event /\ Broadcast(e)
    BY <1>8, FireHas DEF Send
  <2>2. pub' = [pub EXCEPT ![p] = Idle] /\ stamped' = stamped /\ pub[p].pc = "send"
    BY <1>8 DEF Send, clock
  <2>3. e \in Range(stamped) /\ e \in Events
    BY <2>1, <2>2 DEF Once, Events
  <2>4. \A q \in Pubs : pub'[q] = pub[q] \/ pub'[q] = Idle
    BY <1>1, <2>2
  <2>5. ASSUME NEW q \in Pubs, pub'[q].pc = "send" PROVE pub'[q].event # e
    <3>1. q # p /\ pub'[q] = pub[q]
      BY <1>1, <2>2, <2>5 DEF Idle
    <3> QED BY <1>1, <2>1, <2>3, <3>1 DEF Once
  <2> QED BY <1>1, <1>7, <2>1, <2>2, <2>3, <2>4, <2>5
<1>9. ASSUME NEW e \in Transients, SendTransient(e) PROVE Once'
  <2>1. e \in Events /\ Broadcast(e) /\ pub' = pub /\ stamped' = stamped
    BY <1>9 DEF SendTransient, Events, clock
  <2>2. ASSUME NEW q \in Pubs, pub'[q].pc = "send" PROVE pub'[q].event # e
    <3>1. pub[q].event \in Messages \cup Previews
      BY <2>1, <2>2, FireHas
    <3> QED BY <1>1, <2>1, <3>1
  <2> QED BY <1>1, <1>7, <2>1, <2>2
<1>10. ASSUME NEW s \in Subs, Create(s) PROVE Once'
  <2>1. PICK x \in FreeTxs : sent' = [sent EXCEPT ![x] = << >>]
    BY <1>10 DEF Create
  <2>2. pub' = pub /\ stamped' = stamped
    BY <1>10 DEF Create, clock
  <2>3. x \in Txs /\ Range(<< >>) = {}
    BY FreeNames DEF Range
  <2>4. \A y \in Txs : Range(sent'[y]) \subseteq Range(sent[y])
    BY <1>1, <2>1, <2>3
  <2> QED BY <2>2, <2>4 DEF Once
<1>11. ASSUME pub' = pub, stamped' = stamped, sent' = sent PROVE Once'
  BY <1>11 DEF Once
<1>12. \/ pub' = pub /\ stamped' = stamped /\ sent' = sent
       \/ \E p \in Pubs : PubStep(p)
       \/ \E s \in Subs : Create(s)
       \/ \E e \in Transients : SendTransient(e)
  BY DEF Next, vars, SubStep, Subscribe, Find, Read, Recv, Closed, Leave,
         CleanStep, CleanStart, Trim, Swap, BroadcastClean, Age, feed, clock
<1> QED BY <1>3, <1>4, <1>5, <1>6, <1>8, <1>9, <1>10, <1>11, <1>12 DEF PubStep

\* events_clean drops a number of events from the front of each box, from all but one
\* of them none.
LEMMA TrimRest ==
  ASSUME Control, Trim
  PROVE  \E k \in [Boxes -> Nat] : \A b \in Boxes :
           /\ Rest(box[b].events, box'[b].events, k[b])
           /\ box'[b].preview \in {None, box[b].preview}
           /\ Content(b)' \subseteq Content(b)
<1>1. box \in [Boxes -> Box] /\ map \in Boxes
  BY TrimFacts DEF Control, TypeOK
<1>2. PICK kept \in Box, n \in Nat : /\ box' = [box EXCEPT ![map] = kept]
                                     /\ kept.preview \in {None, box[map].preview}
                                     /\ Rest(box[map].events, kept.events, n)
  BY TrimFacts DEF Control
<1> DEFINE k == [b \in Boxes |-> IF b = map THEN n ELSE 0]
<1>3. k \in [Boxes -> Nat]
  OBVIOUS
<1>4. ASSUME NEW b \in Boxes
      PROVE  /\ Rest(box[b].events, box'[b].events, k[b])
             /\ box'[b].preview \in {None, box[b].preview}
  <2>1. CASE b = map
    BY <1>1, <1>2, <2>1
  <2>2. CASE b # map
    <3>1. box'[b] = box[b] /\ k[b] = 0
      BY <1>1, <1>2, <2>2
    <3>2. PICK l \in Nat : l = Len(box[b].events) /\ DOMAIN box[b].events = 1 .. l
      BY <1>1, LenProperties DEF Box
    <3>3. Rest(box[b].events, box[b].events, 0)
      BY <3>2 DEF Rest, Range
    <3> QED BY <3>1, <3>3
  <2> QED BY <2>1, <2>2
<1>5. ASSUME NEW b \in Boxes PROVE Content(b)' \subseteq Content(b)
  <2>1. Range(box'[b].events) \subseteq Range(box[b].events)
    <3> SUFFICES ASSUME NEW x \in Range(box'[b].events) PROVE x \in Range(box[b].events)
      OBVIOUS
    <3>1. PICK i \in DOMAIN box'[b].events : x = box'[b].events[i]
      BY DEF Range
    <3>2. i + k[b] \in DOMAIN box[b].events /\ x = box[b].events[i + k[b]]
      BY <1>4, <3>1 DEF Rest
    <3> QED BY <3>2 DEF Range
  <2> QED BY <1>4, <2>1 DEF Content
<1> HIDE DEF k
<1> QED BY <1>3, <1>4, <1>5

LEMMA CachedStep == ASSUME Control, Once, Cached, [Next]_vars PROVE Cached'
<1>1. /\ pub \in [Pubs -> Pub] /\ box \in [Boxes -> Box] /\ None \notin Events
      /\ stamped \in Seq(Messages \cup Previews)
      /\ \A b \in Boxes : box[b].events \in Seq(Messages) /\ box[b].preview \in Previews \cup {None}
  BY EventsAssumption DEF Control, TypeOK, Box
<1>2. ASSUME \A p \in Pubs : pub'[p].pc = "send" => pub'[p] = pub[p],
             box' = box, stamped' = stamped
      PROVE  Cached'
  <2>1. \A b \in Boxes : Content(b)' = Content(b)
    BY <1>2 DEF Content
  <2> QED BY <1>2, <2>1 DEF Cached
<1>3. ASSUME NEW p \in Pubs, Fire(p) \/ FindBox(p) \/ Send(p) PROVE Cached'
  <2>1. pub'[p].pc # "send" /\ \A q \in Pubs \ {p} : pub'[q] = pub[q]
    BY <1>1, <1>3 DEF Fire, FindBox, Send, Idle, Pub
  <2>2. box' = box /\ stamped' = stamped
    BY <1>3 DEF Fire, FindBox, Send, cache, clock
  <2> QED BY <1>2, <2>1, <2>2
<1>4. ASSUME NEW p \in Pubs, MakeBox(p) PROVE Cached'
  <2>1. PICK b \in FreeBoxes :
          /\ box' = [box EXCEPT ![b] = EmptyBox] /\ stamped' = stamped
          /\ pub' = [pub EXCEPT ![p] = [pub[p] EXCEPT !.pc = "lock", !.box = b]]
    BY <1>4 DEF MakeBox
  <2>2. b \in Boxes
    BY FreeNames
  <2>3. pub'[p].pc = "lock" /\ \A q \in Pubs \ {p} : pub'[q] = pub[q]
    BY <1>1, <2>1 DEF Pub
  <2>4. DOMAIN box'[b].events = {} /\ Content(b)' = {} /\ \A c \in Boxes \ {b} : box'[c] = box[c]
    BY <1>1, <2>1, <2>2 DEF EmptyBox, Content, Range
  <2>5. \A c \in Boxes \ {b} : Content(c)' = Content(c)
    BY <2>4 DEF Content
  <2> QED BY <2>1, <2>3, <2>4, <2>5 DEF Cached
<1>5. ASSUME NEW p \in Pubs, Lock(p) PROVE Cached'
  <2>1. PICK b \in Boxes, e \in Messages \cup Previews, q \in Box :
          /\ b = pub[p].box /\ e = pub[p].event /\ lock[b] = None
          /\ box' = [box EXCEPT ![b] = q]
          /\ \/ e \in Previews /\ q.preview = e /\ q.events = box[b].events
             \/ /\ e \in Messages /\ q.preview = box[b].preview
                /\ q.events = Append(box[b].events, e)
          /\ stamped' = Append(stamped, e)
          /\ pub' = [pub EXCEPT ![p] = [pub[p] EXCEPT !.pc = "send"]]
    BY <1>5, LockFacts
  <2>2. /\ pub'[p].event = e /\ pub'[p].box = b /\ pub[p].pc = "lock"
        /\ \A r \in Pubs \ {p} : pub'[r] = pub[r]
        /\ box'[b] = q /\ \A c \in Boxes \ {b} : box'[c] = box[c]
    <3>1. pub[p] \in Pub /\ pub[p].pc = "lock"
      BY <1>1, <1>5 DEF Lock
    <3>2. pub'[p].event = e /\ pub'[p].box = b
      BY <1>1, <2>1, <3>1 DEF Pub
    <3>3. \A r \in Pubs \ {p} : pub'[r] = pub[r]
      BY <1>1, <2>1
    <3>4. box'[b] = q /\ \A c \in Boxes \ {b} : box'[c] = box[c]
      BY <1>1, <2>1
    <3> QED BY <3>1, <3>2, <3>3, <3>4
  <2>3. Range(stamped') = Range(stamped) \cup {e} /\ e \notin Range(stamped)
    <3>1. Range(Append(stamped, e)) = Range(stamped) \cup {e}
      BY <1>1, AppendFacts
    <3> QED BY <2>1, <2>2, <3>1 DEF Once
  <2>4. ASSUME NEW c \in Boxes, NEW m \in DOMAIN box[c].events PROVE box[c].events[m] # e
    <3>1. box[c].events[m] \in Content(c)
      BY DEF Content, Range
    <3> QED BY <2>3, <3>1 DEF Cached
  <2>5. \A r \in Pubs \ {p} : pub[r].pc = "send" => pub[r].box # b
    <3>1. \A r \in Pubs : r # None
      BY EventsAssumption
    <3> QED BY <2>1, <3>1 DEF Control, Mutex
  <2>6. CASE e \in Previews /\ q.preview = e /\ q.events = box[b].events
    <3>1. \A c \in Boxes : box'[c].events = box[c].events /\ box'[c].preview \in {box[c].preview, e}
      BY <2>2, <2>6
    <3>2. \A c \in Boxes : Content(c)' \subseteq Content(c) \cup {e}
      BY <3>1 DEF Content
    <3>3. \A c \in Boxes : Content(c)' \subseteq Range(stamped')
      BY <2>3, <3>2 DEF Cached
    <3>4. ASSUME NEW r \in Pubs, NEW c \in Boxes, NEW m \in DOMAIN box[c].events,
                 pub'[r].pc = "send", box[c].events[m] = pub'[r].event
          PROVE  pub'[r].box = c /\ m = Len(box[c].events)
      <4>1. r # p /\ pub'[r] = pub[r]
        BY <2>2, <2>4, <3>4
      <4> QED BY <3>4, <4>1 DEF Cached
    <3>5. \A c, d \in Boxes : \A m \in DOMAIN box'[c].events, n \in DOMAIN box'[d].events :
            box'[c].events[m] = box'[d].events[n] => c = d /\ m = n
      BY <3>1 DEF Cached
    <3>6. \A r \in Pubs, c \in Boxes : \A m \in DOMAIN box'[c].events :
            pub'[r].pc = "send" /\ box'[c].events[m] = pub'[r].event =>
              pub'[r].box = c /\ m = Len(box'[c].events)
      BY <3>1, <3>4
    <3> QED BY <3>3, <3>5, <3>6 DEF Cached
  <2>7. CASE /\ e \in Messages /\ q.preview = box[b].preview
             /\ q.events = Append(box[b].events, e)
    <3>1. PICK l \in Nat : l = Len(box[b].events)
      BY <1>1, LenProperties
    <3>2. /\ DOMAIN q.events = DOMAIN box[b].events \cup {l + 1} /\ Len(q.events) = l + 1
          /\ \A i \in DOMAIN box[b].events : q.events[i] = box[b].events[i]
          /\ q.events[l + 1] = e
          /\ Range(q.events) = Range(box[b].events) \cup {e}
      BY <1>1, <2>7, <3>1, AppendFacts
    <3>3. \A c \in Boxes : Content(c)' \subseteq Content(c) \cup {e}
      <4>1. Content(b)' \subseteq Content(b) \cup {e}
        BY <2>2, <2>7, <3>2 DEF Content
      <4>2. \A c \in Boxes \ {b} : Content(c)' = Content(c)
        BY <2>2 DEF Content
      <4> QED BY <4>1, <4>2
    <3>4. \A c \in Boxes : Content(c)' \subseteq Range(stamped')
      BY <2>3, <3>3 DEF Cached
    <3>5. ASSUME NEW c \in Boxes, NEW m \in DOMAIN box'[c].events, box'[c].events[m] = e
          PROVE  c = b /\ m = l + 1
      BY <2>2, <2>4, <3>2, <3>5
    <3>6. ASSUME NEW c \in Boxes, NEW m \in DOMAIN box'[c].events, box'[c].events[m] # e
          PROVE  m \in DOMAIN box[c].events /\ box'[c].events[m] = box[c].events[m]
      BY <2>2, <3>2, <3>6
    <3>7. \A c, d \in Boxes : \A m \in DOMAIN box'[c].events, n \in DOMAIN box'[d].events :
            box'[c].events[m] = box'[d].events[n] => c = d /\ m = n
      <4> SUFFICES ASSUME NEW c \in Boxes, NEW d \in Boxes,
                          NEW m \in DOMAIN box'[c].events, NEW n \in DOMAIN box'[d].events,
                          box'[c].events[m] = box'[d].events[n]
                   PROVE  c = d /\ m = n
        OBVIOUS
      <4>1. CASE box'[c].events[m] = e
        BY <3>5, <4>1
      <4>2. CASE box'[c].events[m] # e
        BY <3>6, <4>2 DEF Cached
      <4> QED BY <4>1, <4>2
    <3>8. ASSUME NEW r \in Pubs, NEW c \in Boxes, NEW m \in DOMAIN box'[c].events,
                 pub'[r].pc = "send", box'[c].events[m] = pub'[r].event
          PROVE  pub'[r].box = c /\ m = Len(box'[c].events)
      <4>1. CASE r = p
        BY <2>2, <3>2, <3>5, <3>8, <4>1
      <4>2. CASE r # p
        <5>1. pub'[r] = pub[r] /\ pub[r].event # e
          BY <1>1, <2>1, <2>2, <4>2 DEF Once, Events
        <5>2. m \in DOMAIN box[c].events /\ box[c].events[m] = pub[r].event /\ pub[r].pc = "send"
          BY <3>6, <3>8, <5>1
        <5>3. pub[r].box = c /\ m = Len(box[c].events)
          BY <5>2 DEF Cached
        <5>4. c # b
          BY <2>5, <4>2, <5>2, <5>3
        <5> QED BY <2>2, <5>1, <5>3, <5>4
      <4> QED BY <4>1, <4>2
    <3> QED BY <3>4, <3>7, <3>8 DEF Cached
  <2> QED BY <2>1, <2>6, <2>7
<1>6. CASE Trim
  <2>1. pub' = pub /\ stamped' = stamped
    BY <1>6 DEF Trim, clock
  <2>2. PICK k \in [Boxes -> Nat] : \A b \in Boxes :
          Rest(box[b].events, box'[b].events, k[b]) /\ Content(b)' \subseteq Content(b)
    BY <1>6, TrimRest
  <2>3. ASSUME NEW b \in Boxes, NEW m \in DOMAIN box'[b].events
        PROVE  /\ m + k[b] \in DOMAIN box[b].events /\ m \in Int /\ k[b] \in Nat
               /\ box'[b].events[m] = box[b].events[m + k[b]]
    <3>1. m + k[b] \in DOMAIN box[b].events /\ box'[b].events[m] = box[b].events[m + k[b]]
      BY <2>2, <2>3 DEF Rest
    <3>2. box'[b].events \in Seq(Messages)
      BY TypeStep DEF Control, TypeOK, Box
    <3>3. m \in Int
      BY <3>2, <2>3, LenProperties
    <3> QED BY <3>1, <3>3, <2>2
  <2>4. ASSUME NEW b \in Boxes, NEW c \in Boxes,
               NEW m \in DOMAIN box'[b].events, NEW n \in DOMAIN box'[c].events,
               box'[b].events[m] = box'[c].events[n]
        PROVE  b = c /\ m = n
    <3>1. b = c /\ m + k[b] = n + k[c]
      BY <2>3, <2>4 DEF Cached
    <3> QED BY <2>3, <3>1
  <2>5. ASSUME NEW p \in Pubs, NEW b \in Boxes, NEW m \in DOMAIN box'[b].events,
               pub[p].pc = "send", box'[b].events[m] = pub[p].event
        PROVE  pub[p].box = b /\ m = Len(box'[b].events)
    <3>1. pub[p].box = b /\ m + k[b] = Len(box[b].events)
      BY <2>3, <2>5 DEF Cached
    <3>2. Len(box[b].events) = Len(box'[b].events) + k[b]
      BY <2>2 DEF Rest
    <3>3. box'[b].events \in Seq(Messages)
      BY TypeStep DEF Control, TypeOK, Box
    <3>4. PICK l \in Nat : l = Len(box'[b].events)
      BY <3>3, LenProperties
    <3> QED BY <2>3, <3>1, <3>2, <3>4
  <2>6. \A b \in Boxes : Content(b)' \subseteq Range(stamped')
    BY <2>1, <2>2 DEF Cached
  <2> QED BY <2>1, <2>4, <2>5, <2>6 DEF Cached
<1>7. ASSUME pub' = pub, box' = box, stamped' = stamped PROVE Cached'
  BY <1>2, <1>7
<1>8. (pub' = pub /\ box' = box /\ stamped' = stamped) \/ Trim \/ \E p \in Pubs : PubStep(p)
  BY DEF Next, vars, SubStep, Subscribe, Create, Find, Read, Recv, Closed, Leave, SendTransient,
         CleanStep, CleanStart, Swap, BroadcastClean, Age, cache, clock
<1> QED BY <1>3, <1>4, <1>5, <1>6, <1>7, <1>8 DEF PubStep

-----------------------------------------------------------------------------
(* One order for all.                                                      *)

LEMMA SameOrderStep ==
  ASSUME Control, Once, Cached, SameOrder, [Next]_vars PROVE SameOrder'
<1>1. /\ sent \in [Txs -> Seq(Events)] /\ box \in [Boxes -> Box]
      /\ \A x \in Txs : sent[x] \in Seq(Events)
      /\ \A b \in Boxes : box[b].events \in Seq(Messages)
      /\ Transients \cap (Messages \cup Previews) = {}
  BY EventsAssumption DEF Control, TypeOK, Box
<1>2. \A b \in Boxes : \A m \in DOMAIN box[b].events :
        box[b].events[m] \in Messages /\ m \in 1 .. Len(box[b].events) /\ Len(box[b].events) \in Nat
  <2> SUFFICES ASSUME NEW b \in Boxes, NEW m \in DOMAIN box[b].events
               PROVE  /\ box[b].events[m] \in Messages /\ m \in 1 .. Len(box[b].events)
                      /\ Len(box[b].events) \in Nat
    OBVIOUS
  <2>1. box[b].events \in Seq(Messages)
    BY <1>1
  <2>2. m \in 1 .. Len(box[b].events) /\ Len(box[b].events) \in Nat
    BY <2>1, LenProperties
  <2> QED BY <2>1, <2>2, ElementOfSeq
<1>3. ASSUME NEW e \in Events, Broadcast(e), box' = box,
             \A x \in Txs, b \in Boxes : \A m, n \in DOMAIN box[b].events :
               box[b].events[n] = e /\ box[b].events[m] \in Range(sent[x]) => m < n
      PROVE  SameOrder'
  <2> SUFFICES ASSUME NEW x \in Txs, NEW b \in Boxes,
                      NEW i \in DOMAIN sent'[x], NEW j \in DOMAIN sent'[x],
                      NEW m \in DOMAIN box[b].events, NEW n \in DOMAIN box[b].events,
                      i < j, sent'[x][i] = box[b].events[m], sent'[x][j] = box[b].events[n]
               PROVE  m < n
    BY <1>3 DEF SameOrder
  <2>1. sent'[x] = IF x = table THEN Append(sent[x], e) ELSE sent[x]
    BY <1>3, BroadcastFacts
  <2>2. CASE x = table
    <3>1. PICK l \in Nat : l = Len(sent[x]) /\ DOMAIN sent[x] = 1 .. l
      BY <1>1, LenProperties
    <3>2. /\ DOMAIN sent'[x] = DOMAIN sent[x] \cup {l + 1}
          /\ \A k \in DOMAIN sent[x] : sent'[x][k] = sent[x][k]
          /\ sent'[x][l + 1] = e
      BY <1>1, <2>1, <2>2, <3>1, AppendFacts
    <3>3. i \in DOMAIN sent[x]
      BY <3>1, <3>2
    <3>4. CASE j \in DOMAIN sent[x]
      BY <3>2, <3>3, <3>4 DEF SameOrder
    <3>5. CASE j = l + 1
      <4>1. box[b].events[n] = e /\ box[b].events[m] \in Range(sent[x])
        BY <3>2, <3>3, <3>5 DEF Range
      <4> QED BY <1>3, <4>1
    <3> QED BY <3>2, <3>4, <3>5
  <2>3. CASE x # table
    BY <2>1, <2>3 DEF SameOrder
  <2> QED BY <2>2, <2>3
<1>4. ASSUME NEW p \in Pubs, Send(p) PROVE SameOrder'
  <2>1. PICK e \in Messages \cup Previews : e = pub[p].event /\ Broadcast(e)
    BY <1>4, FireHas DEF Send
  <2>2. pub[p].pc = "send" /\ box' = box /\ e \in Events
    BY <1>4 DEF Send, Events
  <2>3. ASSUME NEW x \in Txs, NEW b \in Boxes,
               NEW m \in DOMAIN box[b].events, NEW n \in DOMAIN box[b].events,
               box[b].events[n] = e, box[b].events[m] \in Range(sent[x])
        PROVE  m < n
    <3>1. n = Len(box[b].events)
      BY <2>1, <2>2, <2>3 DEF Cached
    <3>2. m # n
      BY <2>1, <2>2, <2>3 DEF Once
    <3> QED BY <1>2, <3>1, <3>2
  <2> QED BY <1>3, <2>1, <2>2, <2>3
<1>5. ASSUME NEW e \in Transients, SendTransient(e) PROVE SameOrder'
  <2>1. e \in Events /\ Broadcast(e) /\ box' = box
    BY <1>5 DEF SendTransient, Events, cache
  <2>2. \A b \in Boxes : \A n \in DOMAIN box[b].events : box[b].events[n] # e
    BY <1>1, <1>2
  <2> QED BY <1>3, <2>1, <2>2
<1>6. ASSUME NEW s \in Subs, Create(s) PROVE SameOrder'
  <2>1. PICK x \in FreeTxs : sent' = [sent EXCEPT ![x] = << >>]
    BY <1>6 DEF Create
  <2>2. box' = box /\ x \in Txs
    BY <1>6, FreeNames DEF Create, cache
  <2>3. \A y \in Txs : sent'[y] = sent[y] \/ DOMAIN sent'[y] = {}
    <3>1. DOMAIN << >> = {}
      OBVIOUS
    <3> QED BY <1>1, <2>1, <2>2, <3>1
  <2> QED BY <2>2, <2>3 DEF SameOrder
<1>7. ASSUME NEW p \in Pubs, MakeBox(p) PROVE SameOrder'
  <2>1. PICK b \in FreeBoxes : box' = [box EXCEPT ![b] = EmptyBox] /\ sent' = sent
    BY <1>7 DEF MakeBox, feed
  <2>2. b \in Boxes /\ DOMAIN EmptyBox.events = {}
    BY FreeNames DEF EmptyBox
  <2>3. \A c \in Boxes : box'[c] = box[c] \/ DOMAIN box'[c].events = {}
    BY <1>1, <2>1, <2>2
  <2> QED BY <2>1, <2>3 DEF SameOrder
<1>8. ASSUME NEW p \in Pubs, Lock(p) PROVE SameOrder'
  <2>1. PICK b \in Boxes, e \in Messages \cup Previews, q \in Box :
          /\ e = pub[p].event
          /\ box' = [box EXCEPT ![b] = q]
          /\ \/ e \in Previews /\ q.preview = e /\ q.events = box[b].events
             \/ /\ e \in Messages /\ q.preview = box[b].preview
                /\ q.events = Append(box[b].events, e)
    BY <1>8, LockFacts
  <2>2. sent' = sent /\ pub[p].pc = "lock"
    BY <1>8 DEF Lock, feed
  <2>3. \A x \in Txs : e \notin Range(sent[x])
    BY <1>1, <2>1, <2>2 DEF Once
  <2>4. ASSUME NEW c \in Boxes, NEW m \in DOMAIN box'[c].events, box'[c].events[m] # e
        PROVE  m \in DOMAIN box[c].events /\ box'[c].events[m] = box[c].events[m]
    <3>1. CASE c = b /\ q.events # box[b].events
      <4>1. /\ DOMAIN q.events = DOMAIN box[b].events \cup {Len(box[b].events) + 1}
            /\ \A i \in DOMAIN box[b].events : q.events[i] = box[b].events[i]
            /\ q.events[Len(box[b].events) + 1] = e
        BY <1>1, <2>1, <3>1, AppendFacts
      <4>2. box'[c] = q
        BY <1>1, <2>1, <3>1
      <4> QED BY <2>4, <3>1, <4>1, <4>2
    <3>2. CASE c # b \/ q.events = box[b].events
      BY <1>1, <2>1, <3>2
    <3> QED BY <3>1, <3>2
  <2> SUFFICES ASSUME NEW x \in Txs, NEW c \in Boxes,
                      NEW i \in DOMAIN sent[x], NEW j \in DOMAIN sent[x],
                      NEW m \in DOMAIN box'[c].events, NEW n \in DOMAIN box'[c].events,
                      i < j, sent[x][i] = box'[c].events[m], sent[x][j] = box'[c].events[n]
               PROVE  m < n
    BY <2>2 DEF SameOrder
  <2>5. box'[c].events[m] # e /\ box'[c].events[n] # e
    BY <2>3 DEF Range
  <2>6. /\ m \in DOMAIN box[c].events /\ box'[c].events[m] = box[c].events[m]
        /\ n \in DOMAIN box[c].events /\ box'[c].events[n] = box[c].events[n]
    BY <2>4, <2>5
  <2> QED BY <2>6 DEF SameOrder
<1>9. CASE Trim
  <2>1. sent' = sent
    BY <1>9 DEF Trim, feed
  <2>2. PICK k \in [Boxes -> Nat] : \A b \in Boxes : Rest(box[b].events, box'[b].events, k[b])
    BY <1>9, TrimRest
  <2>3. ASSUME NEW b \in Boxes, NEW m \in DOMAIN box'[b].events
        PROVE  /\ m + k[b] \in DOMAIN box[b].events /\ m \in Int /\ k[b] \in Nat
               /\ box'[b].events[m] = box[b].events[m + k[b]]
    <3>1. m + k[b] \in DOMAIN box[b].events /\ box'[b].events[m] = box[b].events[m + k[b]]
      BY <2>2, <2>3 DEF Rest
    <3>2. box'[b].events \in Seq(Messages)
      BY TypeStep DEF TypeOK, Box
    <3>3. m \in Int
      BY <3>2, <2>3, LenProperties
    <3> QED BY <3>1, <3>3, <2>2
  <2> SUFFICES ASSUME NEW x \in Txs, NEW c \in Boxes,
                      NEW i \in DOMAIN sent[x], NEW j \in DOMAIN sent[x],
                      NEW m \in DOMAIN box'[c].events, NEW n \in DOMAIN box'[c].events,
                      i < j, sent[x][i] = box'[c].events[m], sent[x][j] = box'[c].events[n]
               PROVE  m < n
    BY <2>1 DEF SameOrder
  <2>4. m + k[c] < n + k[c]
    BY <2>3 DEF SameOrder
  <2> QED BY <2>3, <2>4
<1>10. ASSUME sent' = sent, box' = box PROVE SameOrder'
  BY <1>10 DEF SameOrder
<1>11. \/ sent' = sent /\ box' = box
       \/ Trim
       \/ \E p \in Pubs : Send(p) \/ MakeBox(p) \/ Lock(p)
       \/ \E s \in Subs : Create(s)
       \/ \E e \in Transients : SendTransient(e)
  BY DEF Next, vars, SubStep, Subscribe, Find, Read, Recv, Closed, Leave, PubStep, Fire, FindBox,
         CleanStep, CleanStart, Swap, BroadcastClean, Age, feed, cache
<1> QED BY <1>4, <1>5, <1>6, <1>7, <1>8, <1>9, <1>10, <1>11

-----------------------------------------------------------------------------
(* The cache keeps what is recent.                                         *)

LEMMA InMapStep == ASSUME Control, InMap, [Next]_vars PROVE InMap'
<1>1. /\ pub \in [Pubs -> Pub] /\ map \in Boxes \cup {None} /\ None \notin Boxes
      /\ raced \in BOOLEAN
  BY EventsAssumption DEF Control, TypeOK
<1>2. ASSUME map' = map, raced' = raced,
             \A p \in Pubs : pub'[p].box \in {pub[p].box, None, map}
      PROVE  InMap'
  BY <1>2 DEF InMap
<1>3. ASSUME NEW p \in Pubs, MakeBox(p) PROVE InMap'
  <2>1. PICK b \in FreeBoxes :
          /\ map' = b /\ raced' = (raced \/ map # None)
          /\ pub' = [pub EXCEPT ![p] = [pub[p] EXCEPT !.pc = "lock", !.box = b]]
    BY <1>3 DEF MakeBox
  <2>2. pub'[p].box = b /\ \A q \in Pubs \ {p} : pub'[q] = pub[q]
    BY <1>1, <2>1 DEF Pub
  <2> QED BY <2>1, <2>2 DEF InMap
<1>4. ASSUME NEW p \in Pubs, Fire(p) \/ FindBox(p) \/ Lock(p) \/ Send(p) PROVE InMap'
  <2>1. map' = map /\ raced' = raced
    BY <1>4 DEF Fire, FindBox, Lock, Send, cache, clock
  <2>2. pub'[p].box \in {pub[p].box, None, map} /\ \A q \in Pubs \ {p} : pub'[q] = pub[q]
    BY <1>1, <1>4 DEF Fire, FindBox, Lock, Send, Idle, Pub
  <2> QED BY <1>2, <2>1, <2>2
<1>5. CASE Swap
  <2>1. /\ pub' = pub /\ map' = clean.next
        /\ raced' = (raced \/ (/\ map # None /\ clean.next # map
                               /\ Content(map) # {} \/ \E p \in Pubs : pub[p].box = map))
    BY <1>5 DEF Swap
  <2> QED BY <2>1 DEF InMap
<1>6. ASSUME map' = map, raced' = raced, pub' = pub PROVE InMap'
  BY <1>2, <1>6
<1>7. (map' = map /\ raced' = raced /\ pub' = pub) \/ Swap \/ \E p \in Pubs : PubStep(p)
  BY DEF Next, vars, SubStep, Subscribe, Create, Find, Read, Recv, Closed, Leave, SendTransient,
         CleanStep, CleanStart, Trim, BroadcastClean, Age, cache, clock
<1> QED BY <1>3, <1>4, <1>5, <1>6, <1>7 DEF PubStep

LEMMA CacheStep ==
  ASSUME Control, Once, InMap, CacheComplete, [Next]_vars PROVE CacheComplete'
<1>1. /\ pub \in [Pubs -> Pub] /\ map \in Boxes \cup {None} /\ None \notin Boxes
      /\ raced \in BOOLEAN /\ stamped \in Seq(Messages \cup Previews)
      /\ box \in [Boxes -> Box] /\ \A b \in Boxes : box[b].events \in Seq(Messages)
      /\ Messages \cap Previews = {}
  BY EventsAssumption DEF Control, TypeOK, Box
<1>2. PICK l \in Nat : l = Len(stamped) /\ DOMAIN stamped = 1 .. l
  BY <1>1, LenProperties
<1>3. aged \in 0 .. l /\ clean.before \in Nat /\ clean.before <= aged
  BY <1>2 DEF Control, TypeOK, Cleaning, Clean
<1>4. ASSUME map' = map, stamped' = stamped, raced' = raced, aged' = aged, box' = box
      PROVE  CacheComplete'
  BY <1>4 DEF CacheComplete
<1>5. ASSUME NEW p \in Pubs, MakeBox(p) PROVE CacheComplete'
  <2>1. raced' = (raced \/ map # None) /\ stamped' = stamped /\ aged' = aged
    BY <1>5 DEF MakeBox
  <2> QED BY <2>1 DEF CacheComplete
<1>6. ASSUME NEW p \in Pubs, Lock(p), ~raced PROVE CacheComplete'
  <2>1. PICK b \in Boxes, e \in Messages \cup Previews, q \in Box :
          /\ b = pub[p].box
          /\ box' = [box EXCEPT ![b] = q] /\ stamped' = Append(stamped, e)
          /\ \/ e \in Previews /\ q.events = box[b].events
             \/ e \in Messages /\ q.events = Append(box[b].events, e)
    BY <1>6, LockFacts
  <2>2. b = map /\ map' = map /\ raced' = raced /\ aged' = aged /\ box'[b] = q
    BY <1>1, <1>6, <2>1 DEF InMap, Lock
  <2>3. Range(box[b].events) \subseteq Range(q.events) /\ (e \in Messages => e \in Range(q.events))
    <3>1. CASE e \in Previews /\ q.events = box[b].events
      BY <1>1, <3>1
    <3>2. CASE e \in Messages /\ q.events = Append(box[b].events, e)
      <4>1. Range(Append(box[b].events, e)) = Range(box[b].events) \cup {e}
        BY <1>1, <3>2, AppendFacts
      <4> QED BY <3>2, <4>1
    <3> QED BY <2>1, <3>1, <3>2
  <2>4. /\ Len(stamped') = l + 1 /\ stamped'[l + 1] = e
        /\ \A i \in 1 .. l : stamped'[i] = stamped[i]
    BY <1>1, <1>2, <2>1, AppendFacts
  <2> SUFFICES ASSUME NEW i \in aged + 1 .. l + 1, stamped'[i] \in Messages
               PROVE  stamped'[i] \in Range(q.events)
    BY <1>1, <2>1, <2>2, <2>4 DEF CacheComplete
  <2>5. CASE i = l + 1
    BY <2>3, <2>4, <2>5
  <2>6. CASE i # l + 1
    <3>1. i \in aged + 1 .. l /\ i \in 1 .. l
      BY <1>3, <2>6
    <3>2. stamped[i] \in Range(box[map].events)
      BY <1>2, <1>6, <2>4, <3>1 DEF CacheComplete
    <3> QED BY <2>2, <2>3, <2>4, <3>1, <3>2
  <2> QED BY <2>5, <2>6
<1>7. ASSUME Trim, ~raced PROVE CacheComplete'
  <2>1. map' = map /\ stamped' = stamped /\ raced' = raced /\ aged' = aged
    BY <1>7 DEF Trim, clock
  <2>2. PICK kept \in Box, k \in Nat :
          /\ map \in Boxes
          /\ box' = [box EXCEPT ![map] = kept]
          /\ Rest(box[map].events, kept.events, k)
          /\ \A i \in DOMAIN box[map].events : i <= k => IsOld(box[map].events[i], clean.before)
    BY <1>7, TrimFacts DEF Control
  <2>3. box'[map] = kept
    BY <1>1, <2>2
  <2> SUFFICES ASSUME NEW i \in aged + 1 .. l, stamped[i] \in Messages
               PROVE  stamped[i] \in Range(kept.events)
    BY <1>1, <1>2, <2>1, <2>2, <2>3 DEF CacheComplete
  <2>4. stamped[i] \in Range(box[map].events)
    BY <1>2, <1>7 DEF CacheComplete
  <2>5. PICK j \in DOMAIN box[map].events : stamped[i] = box[map].events[j]
    BY <2>4 DEF Range
  <2>6. ~ IsOld(stamped[i], clean.before)
    <3> SUFFICES ASSUME NEW n \in 1 .. clean.before, stamped[n] = stamped[i] PROVE FALSE
      BY DEF IsOld
    <3>1. n \in 1 .. l /\ i \in 1 .. l /\ n # i
      BY <1>3
    <3> QED BY <1>2, <3>1 DEF Once
  <2>7. j > k
    <3>1. j \in Int
      BY <1>1, <2>2, LenProperties
    <3> QED BY <2>2, <2>5, <2>6, <3>1
  <2> QED BY <2>2, <2>5, <2>7 DEF Rest
<1>8. CASE Swap
  <2>1. /\ stamped' = stamped /\ aged' = aged /\ box' = box /\ map' = clean.next
        /\ raced' = (raced \/ (/\ map # None /\ clean.next # map
                               /\ Content(map) # {} \/ \E p \in Pubs : pub[p].box = map))
    BY <1>8 DEF Swap
  <2>2. ASSUME ~raced, map # None, Content(map) = {} PROVE \A i \in aged + 1 .. l : stamped[i] \notin Messages
    BY <1>2, <2>2 DEF CacheComplete, Content
  <2>3. ASSUME ~raced, map = None PROVE \A i \in aged + 1 .. l : stamped[i] \notin Messages
    BY <1>2, <2>3 DEF CacheComplete
  <2> QED BY <1>2, <2>1, <2>2, <2>3 DEF CacheComplete
<1>9. CASE Age
  <2>1. /\ map' = map /\ stamped' = stamped /\ raced' = raced /\ aged' = aged + 1 /\ box' = box
    BY <1>9 DEF Age, cache
  <2>2. \A i \in aged + 1 + 1 .. l : i \in aged + 1 .. l
    BY <1>3
  <2> SUFFICES ASSUME ~raced, NEW i \in aged + 1 + 1 .. l, stamped[i] \in Messages
               PROVE  map # None /\ stamped[i] \in Range(box[map].events)
    BY <1>2, <2>1 DEF CacheComplete
  <2> QED BY <1>2, <2>2 DEF CacheComplete
<1>10. \/ UNCHANGED <<map, stamped, raced, aged, box>>
       \/ Trim \/ Swap \/ Age \/ \E p \in Pubs : MakeBox(p) \/ Lock(p)
  BY DEF Next, vars, SubStep, Subscribe, Create, Find, Read, Recv, Closed, Leave, SendTransient,
         PubStep, Fire, FindBox, Send, CleanStep, CleanStart, BroadcastClean, cache, clock
<1>11. ASSUME raced, Trim \/ \E p \in Pubs : Lock(p) PROVE CacheComplete'
  BY <1>11 DEF Trim, Lock, clock, CacheComplete
<1> QED BY <1>4, <1>5, <1>6, <1>7, <1>8, <1>9, <1>10, <1>11

-----------------------------------------------------------------------------
(* Nothing is missed between replay and broadcast.                         *)

\* A broadcast only adds to what a connection has still to receive, and what it sends
\* reaches those that follow.
LEMMA PendingGrows ==
  ASSUME Control, NEW e \in Events, Broadcast(e), sub' = sub, NEW s \in Subs, sub[s].pc = "live"
  PROVE  Pending(s) \subseteq Pending(s)' /\ (sub[s].tx = table => e \in Pending(s)')
<1>1. sub[s] \in Sub /\ sub[s].tx \in Txs
  BY DEF Control, TypeOK, Connections, Sub
<1>2. PICK x \in Txs : x = sub[s].tx
  BY <1>1
<1>3. PICK n \in Nat, k \in Nat : n = Len(sent[x]) /\ k = Len(sent'[x]) /\ n <= k
  BY <1>2, SentGrows
<1>4. PICK m \in Nat : m = sub[s].next /\ m <= n + 1
  BY <1>1, <1>2, <1>3 DEF Control, Connections, Sub
<1>5. /\ \A i \in 1 .. n : sent'[x][i] = sent[x][i]
      /\ x = table => k = n + 1 /\ sent'[x][n + 1] = e
  BY <1>2, <1>3, SentGrows
<1>6. m \in Nat \ {0}
  BY <1>1, <1>4 DEF Sub
<1>7. Pending(s) = {sent[x][i] : i \in m .. n} /\ Pending(s)' = {sent'[x][i] : i \in m .. k}
  BY <1>2, <1>3, <1>4 DEF Pending
<1>8. \A i \in m .. n : i \in 1 .. n /\ i \in m .. k
  BY <1>3, <1>6
<1>9. Pending(s) \subseteq Pending(s)'
  BY <1>5, <1>7, <1>8
<1>10. ASSUME x = table PROVE e \in Pending(s)'
  <2>1. n + 1 \in m .. k
    BY <1>4, <1>5, <1>10
  <2> QED BY <1>5, <1>7, <1>10, <2>1
<1> QED BY <1>2, <1>9, <1>10

\* What a connection does concerns nobody else.
LEMMA ToldOfOthers ==
  ASSUME Told, NEW s \in Subs, \A t \in Subs \ {s} : sub'[t] = sub[t],
         UNCHANGED <<feed, cache, pub, clean>>,
         Follows(s)' => \A b \in Replays(s)' : Content(b)' \subseteq Heard(s, b)'
  PROVE  Told'
<1> SUFFICES ASSUME NEW t \in Subs \ {s}, Follows(t)', NEW b \in Replays(t)'
             PROVE  Content(b)' \subseteq Heard(t, b)'
  BY DEF Told
<1>1. sub'[t] = sub[t] /\ table' = table /\ sent' = sent /\ map' = map /\ box' = box
      /\ pub' = pub /\ clean' = clean
  BY DEF feed, cache
<1>2. Follows(t) /\ b \in Replays(t)
  BY <1>1 DEF Follows, Replays
<1>3. Content(b)' = Content(b) /\ Heard(t, b)' = Heard(t, b)
  BY <1>1 DEF Content, Heard, Pending, AboutToSend
<1> QED BY <1>2, <1>3 DEF Told

LEMMA ToldSubStep ==
  ASSUME Control, Told, NEW s \in Subs, SubStep(s)
  PROVE  Told'
<1>1. /\ sub \in [Subs -> Sub] /\ sub[s] \in Sub /\ None \notin Txs \cup Boxes
      /\ sent \in [Txs -> Seq(Events)]
  BY EventsAssumption DEF Control, TypeOK
<1>2. CASE Subscribe(s)
  <2>1. /\ sub'[s].pc \in {"create", "find"} /\ \A t \in Subs \ {s} : sub'[t] = sub[t]
        /\ UNCHANGED <<feed, cache, pub, clean>>
    BY <1>1, <1>2 DEF Subscribe, Off
  <2> QED BY <2>1, ToldOfOthers DEF Follows
<1>3. CASE Create(s)
  <2>1. PICK x \in FreeTxs :
          /\ table' = x
          /\ sub' = [sub EXCEPT ![s] = [sub[s] EXCEPT !.pc = "find", !.tx = x, !.next = 1]]
    BY <1>3 DEF Create
  <2>2. \A t \in Subs : sub[t].tx # x
    BY FreeNames
  <2>3. sub'[s].pc = "find" /\ \A t \in Subs \ {s} : sub'[t] = sub[t]
    BY <1>1, <2>1 DEF Sub
  <2>4. \A t \in Subs : ~ Follows(t)'
    BY <2>1, <2>2, <2>3 DEF Follows
  <2> QED BY <2>4 DEF Told
<1>4. CASE Find(s)
  <2>1. /\ sub' = [sub EXCEPT ![s] = [sub[s] EXCEPT !.pc = IF map = None THEN "live" ELSE "read",
                                                   !.box = map]]
        /\ UNCHANGED <<feed, cache, pub, clean>>
    BY <1>4 DEF Find
  <2>2. /\ sub'[s].pc = (IF map = None THEN "live" ELSE "read") /\ sub'[s].box = map
        /\ \A t \in Subs \ {s} : sub'[t] = sub[t]
    BY <1>1, <2>1 DEF Sub
  <2>3. ASSUME Follows(s)' PROVE Replays(s)' = {}
    <3>1. map = None /\ map' = None /\ clean'.next = clean.next
      BY <2>1, <2>2, <2>3 DEF Follows, cache
    <3>2. clean.next = None
      BY <3>1 DEF Control, Cleaning
    <3> QED BY <2>2, <3>1, <3>2 DEF Replays
  <2> QED BY <2>1, <2>2, <2>3, ToldOfOthers
<1>5. CASE Read(s)
  <2>1. /\ sub' = [sub EXCEPT ![s] = [sub[s] EXCEPT !.pc = "live", !.view = Content(sub[s].box)]]
        /\ UNCHANGED <<feed, cache, pub, clean>>
    BY <1>5 DEF Read
  <2>2. /\ sub'[s].view = Content(sub[s].box) /\ sub'[s].box = sub[s].box
        /\ \A t \in Subs \ {s} : sub'[t] = sub[t]
    BY <1>1, <2>1 DEF Sub
  <2>3. sub[s].box # None
    BY <1>5 DEF Read, Control, Connections
  <2>4. Replays(s)' = {sub[s].box}
    BY <2>2, <2>3 DEF Replays
  <2>5. \A b \in Replays(s)' : Content(b)' \subseteq Heard(s, b)'
    <3>1. PICK b : b = sub[s].box
      OBVIOUS
    <3>2. Content(b)' = Content(b)
      BY <2>1 DEF Content, cache
    <3> QED BY <2>2, <2>4, <3>1, <3>2 DEF Heard
  <2> QED BY <2>1, <2>2, <2>5, ToldOfOthers
<1>6. CASE Recv(s)
  <2>1. sub[s].tx \in Txs /\ sub[s].pc = "live" /\ UNCHANGED <<feed, cache, pub, clean>>
    BY <1>1, <1>6 DEF Recv, Control, Connections, Sub
  <2>2. PICK x \in Txs : x = sub[s].tx
    BY <2>1
  <2>3. PICK n \in Nat : n = Len(sent[x])
    BY <1>1, LenProperties
  <2>4. PICK m \in Nat : m = sub[s].next /\ m <= n
    BY <1>1, <1>6, <2>2, <2>3 DEF Sub, Recv
  <2>5. CASE m < n - Capacity + 1
    <3>1. sub'[s].lagged /\ \A t \in Subs \ {s} : sub'[t] = sub[t]
      BY <1>1, <1>6, <2>2, <2>3, <2>4, <2>5 DEF Recv, Sub
    <3> QED BY <2>1, <3>1, ToldOfOthers DEF Follows
  <2>6. CASE ~ (m < n - Capacity + 1)
    <3>1. sub' = [sub EXCEPT ![s] = [sub[s] EXCEPT !.next = m + 1,
                                                  !.view = sub[s].view \cup {sent[x][m]}]]
      BY <1>6, <2>2, <2>3, <2>4, <2>6 DEF Recv
    <3>2. /\ sub'[s].next = m + 1 /\ sub'[s].view = sub[s].view \cup {sent[x][m]}
          /\ sub'[s].tx = x /\ sub'[s].pc = sub[s].pc /\ sub'[s].box = sub[s].box
          /\ sub'[s].lagged = sub[s].lagged
          /\ \A t \in Subs \ {s} : sub'[t] = sub[t]
      BY <1>1, <2>2, <3>1 DEF Sub
    <3>3. table' = table /\ sent' = sent /\ map' = map /\ box' = box /\ pub' = pub /\ clean' = clean
      BY <2>1 DEF feed, cache
    <3>4. Pending(s) \subseteq Pending(s)' \cup {sent[x][m]}
      <4>1. Pending(s) = {sent[x][i] : i \in m .. n} /\ Pending(s)' = {sent[x][i] : i \in m + 1 .. n}
        BY <2>2, <2>3, <2>4, <3>2, <3>3 DEF Pending
      <4>2. \A i \in m .. n : i = m \/ i \in m + 1 .. n
        OBVIOUS
      <4> QED BY <4>1, <4>2
    <3>5. ASSUME Follows(s)', NEW b \in Replays(s)' PROVE Content(b)' \subseteq Heard(s, b)'
      <4>1. Follows(s) /\ b \in Replays(s)
        BY <2>2, <3>2, <3>3, <3>5 DEF Follows, Replays
      <4>2. Content(b) \subseteq Heard(s, b)
        BY <4>1 DEF Told
      <4>3. Content(b)' = Content(b) /\ AboutToSend(b)' = AboutToSend(b)
        BY <3>3 DEF Content, AboutToSend
      <4> QED BY <3>2, <3>4, <4>2, <4>3 DEF Heard
    <3> QED BY <2>1, <3>2, <3>5, ToldOfOthers
  <2> QED BY <2>5, <2>6
<1>7. CASE Closed(s) \/ Leave(s)
  <2>1. sub' = [sub EXCEPT ![s] = Off] /\ UNCHANGED <<feed, cache, pub, clean>>
    BY <1>7 DEF Closed, Leave
  <2>2. sub'[s].pc = "off" /\ \A t \in Subs \ {s} : sub'[t] = sub[t]
    BY <1>1, <2>1 DEF Off
  <2> QED BY <2>1, <2>2, ToldOfOthers DEF Follows
<1> QED BY <1>2, <1>3, <1>4, <1>5, <1>6, <1>7 DEF SubStep

LEMMA ToldPubStep ==
  ASSUME Control, Told, NEW p \in Pubs, PubStep(p)
  PROVE  Told'
<1>1. /\ pub \in [Pubs -> Pub] /\ box \in [Boxes -> Box] /\ None \notin Txs \cup Boxes
  BY EventsAssumption DEF Control, TypeOK
<1>2. ASSUME pub[p].pc # "send", \A q \in Pubs \ {p} : pub'[q] = pub[q], NEW b
      PROVE  AboutToSend(b) \subseteq AboutToSend(b)'
  BY <1>2 DEF AboutToSend
<1>3. CASE Fire(p) \/ FindBox(p)
  <2>1. /\ pub[p].pc # "send" /\ \A q \in Pubs \ {p} : pub'[q] = pub[q]
        /\ table' = table /\ sent' = sent /\ map' = map /\ box' = box /\ sub' = sub /\ clean' = clean
    BY <1>1, <1>3 DEF Fire, FindBox, feed, cache
  <2>2. \A b : AboutToSend(b) \subseteq AboutToSend(b)'
    BY <1>2, <2>1
  <2>3. \A t \in Subs : /\ Follows(t)' => Follows(t) /\ Replays(t)' = Replays(t)
                        /\ Pending(t)' = Pending(t) /\ sub'[t].view = sub[t].view
    BY <2>1 DEF Follows, Replays, Pending
  <2>4. \A b : Content(b)' = Content(b)
    BY <2>1 DEF Content
  <2> SUFFICES ASSUME NEW t \in Subs, Follows(t)', NEW b \in Replays(t)'
               PROVE  Content(b)' \subseteq Heard(t, b)'
    BY DEF Told
  <2>6. Content(b) \subseteq Heard(t, b)
    BY <2>3 DEF Told
  <2>7. Heard(t, b) \subseteq Heard(t, b)'
    BY <2>2, <2>3 DEF Heard
  <2> QED BY <2>4, <2>6, <2>7
<1>4. CASE MakeBox(p)
  <2>1. PICK c \in FreeBoxes :
          /\ map' = c /\ box' = [box EXCEPT ![c] = EmptyBox]
          /\ pub' = [pub EXCEPT ![p] = [pub[p] EXCEPT !.pc = "lock", !.box = c]]
    BY <1>4 DEF MakeBox
  <2>2. /\ pub[p].pc # "send" /\ \A q \in Pubs \ {p} : pub'[q] = pub[q]
        /\ table' = table /\ sent' = sent /\ sub' = sub /\ clean' = clean
    BY <1>1, <1>4, <2>1 DEF MakeBox, feed
  <2>3. /\ c \in Boxes /\ Content(c)' = {}
    BY <1>1, <2>1, FreeNames DEF EmptyBox, Content, Range
  <2> SUFFICES ASSUME NEW t \in Subs, Follows(t)', NEW b \in Replays(t)', b # c
               PROVE  Content(b)' \subseteq Heard(t, b)'
    BY <2>3 DEF Told
  <2>4. Follows(t) /\ b \in Replays(t)
    BY <2>1, <2>2 DEF Follows, Replays
  <2>5. b \in Boxes /\ box'[b] = box[b]
    <3>1. map \in Boxes \cup {None} /\ clean.next \in Boxes \cup {None} /\ sub[t].box \in Boxes \cup {None}
      BY DEF Control, TypeOK, Clean, Sub
    <3>2. b \in Boxes
      BY <2>4, <3>1 DEF Replays
    <3> QED BY <1>1, <2>1, <3>2
  <2>6. Content(b)' = Content(b) /\ Pending(t)' = Pending(t) /\ sub'[t].view = sub[t].view
    BY <2>2, <2>5 DEF Content, Pending
  <2>7. AboutToSend(b) \subseteq AboutToSend(b)'
    BY <1>2, <2>2
  <2>8. Content(b) \subseteq Heard(t, b)
    BY <2>4 DEF Told
  <2> QED BY <2>6, <2>7, <2>8 DEF Heard
<1>5. CASE Lock(p)
  <2>1. PICK c \in Boxes, e \in Messages \cup Previews, q \in Box :
          /\ c = pub[p].box /\ e = pub[p].event /\ lock[c] = None
          /\ box' = [box EXCEPT ![c] = q]
          /\ \/ e \in Previews /\ q.preview = e /\ q.events = box[c].events
             \/ /\ e \in Messages /\ q.preview = box[c].preview
                /\ q.events = Append(box[c].events, e)
          /\ pub' = [pub EXCEPT ![p] = [pub[p] EXCEPT !.pc = "send"]]
    BY <1>5, LockFacts
  <2>2. /\ pub[p].pc # "send" /\ \A r \in Pubs \ {p} : pub'[r] = pub[r]
        /\ pub'[p].pc = "send" /\ pub'[p].event = e /\ pub'[p].box = c
        /\ table' = table /\ sent' = sent /\ map' = map /\ sub' = sub /\ clean' = clean
    BY <1>1, <1>5, <2>1 DEF Lock, Pub, feed
  <2>3. e \in AboutToSend(c)'
    BY <2>2 DEF AboutToSend
  <2>4. Content(c)' \subseteq Content(c) \cup {e}
    <3>1. box'[c] = q /\ box[c].events \in Seq(Messages)
      BY <1>1, <2>1 DEF Box
    <3>2. CASE e \in Previews /\ q.preview = e /\ q.events = box[c].events
      BY <3>1, <3>2 DEF Content
    <3>3. CASE e \in Messages /\ q.preview = box[c].preview /\ q.events = Append(box[c].events, e)
      <4>1. Range(q.events) = Range(box[c].events) \cup {e}
        BY <3>1, <3>3, AppendFacts
      <4> QED BY <3>1, <3>3, <4>1 DEF Content
    <3> QED BY <2>1, <3>2, <3>3
  <2> SUFFICES ASSUME NEW t \in Subs, Follows(t)', NEW b \in Replays(t)'
               PROVE  Content(b)' \subseteq Heard(t, b)'
    BY DEF Told
  <2>5. Follows(t) /\ b \in Replays(t)
    BY <2>2 DEF Follows, Replays
  <2>6. Pending(t)' = Pending(t) /\ sub'[t].view = sub[t].view
    BY <2>2 DEF Pending
  <2>7. AboutToSend(b) \subseteq AboutToSend(b)'
    BY <1>2, <2>2
  <2>8. Content(b) \subseteq Heard(t, b)
    BY <2>5 DEF Told
  <2>9. CASE b = c
    BY <2>3, <2>4, <2>6, <2>7, <2>8, <2>9 DEF Heard
  <2>10. CASE b # c
    <3>1. map \in Boxes \cup {None} /\ clean.next \in Boxes \cup {None} /\ sub[t].box \in Boxes \cup {None}
      BY DEF Control, TypeOK, Clean, Sub
    <3>2. b \in Boxes
      BY <2>5, <3>1 DEF Replays
    <3>3. box'[b] = box[b]
      BY <1>1, <2>1, <2>10, <3>2
    <3>4. Content(b)' = Content(b)
      BY <3>3 DEF Content
    <3> QED BY <2>6, <2>7, <2>8, <3>4 DEF Heard
  <2> QED BY <2>9, <2>10
<1>6. CASE Send(p)
  <2>1. PICK e \in Events : e = pub[p].event /\ Broadcast(e)
    BY <1>6, FireHas DEF Send, Events
  <2>2. /\ \A q \in Pubs \ {p} : pub'[q] = pub[q]
        /\ table' = table /\ map' = map /\ box' = box /\ sub' = sub /\ clean' = clean
    BY <1>1, <1>6 DEF Send
  <2>3. \A b : AboutToSend(b) \subseteq AboutToSend(b)' \cup {e}
    BY <2>1, <2>2 DEF AboutToSend
  <2> SUFFICES ASSUME NEW t \in Subs, Follows(t)', NEW b \in Replays(t)'
               PROVE  Content(b)' \subseteq Heard(t, b)'
    BY DEF Told
  <2>4. Follows(t) /\ b \in Replays(t) /\ sub'[t].view = sub[t].view
    BY <2>2 DEF Follows, Replays
  <2>5. Pending(t) \subseteq Pending(t)' /\ e \in Pending(t)'
    BY <2>1, <2>2, <2>4, PendingGrows DEF Follows
  <2>6. Content(b)' = Content(b)
    BY <2>2 DEF Content
  <2>7. Content(b) \subseteq Heard(t, b)
    BY <2>4 DEF Told
  <2> QED BY <2>3, <2>4, <2>5, <2>6, <2>7 DEF Heard
<1> QED BY <1>3, <1>4, <1>5, <1>6 DEF PubStep

LEMMA ToldStep == ASSUME Control, Told, [Next]_vars PROVE Told'
<1>1. ASSUME NEW s \in Subs, SubStep(s) PROVE Told'
  BY <1>1, ToldSubStep
<1>2. ASSUME NEW p \in Pubs, PubStep(p) PROVE Told'
  BY <1>2, ToldPubStep
<1>3. ASSUME NEW e \in Transients, SendTransient(e) PROVE Told'
  <2>1. /\ e \in Events /\ Broadcast(e) /\ sub' = sub /\ table' = table /\ map' = map /\ box' = box
        /\ pub' = pub /\ clean' = clean
    BY <1>3 DEF SendTransient, Events, cache
  <2> SUFFICES ASSUME NEW t \in Subs, Follows(t)', NEW b \in Replays(t)'
               PROVE  Content(b)' \subseteq Heard(t, b)'
    BY DEF Told
  <2>2. Follows(t) /\ b \in Replays(t) /\ sub'[t].view = sub[t].view
    BY <2>1 DEF Follows, Replays
  <2>3. Pending(t) \subseteq Pending(t)'
    BY <2>1, <2>2, PendingGrows DEF Follows
  <2>4. Content(b)' = Content(b) /\ AboutToSend(b)' = AboutToSend(b)
    BY <2>1 DEF Content, AboutToSend
  <2>5. Content(b) \subseteq Heard(t, b)
    BY <2>2 DEF Told
  <2> QED BY <2>2, <2>3, <2>4, <2>5 DEF Heard
<1>4. ASSUME sub' = sub, table' = table, sent' = sent, pub' = pub,
             \A b \in Boxes : Content(b)' \subseteq Content(b),
             {map', clean'.next} \subseteq {map, clean.next, None}
      PROVE  Told'
  <2> SUFFICES ASSUME NEW t \in Subs, Follows(t)', NEW b \in Replays(t)'
               PROVE  Content(b)' \subseteq Heard(t, b)'
    BY DEF Told
  <2>1. Follows(t) /\ b \in Replays(t)
    BY <1>4 DEF Follows, Replays
  <2>2. b \in Boxes
    <3>1. map \in Boxes \cup {None} /\ clean.next \in Boxes \cup {None} /\ sub[t].box \in Boxes \cup {None}
      BY DEF Control, TypeOK, Clean, Sub
    <3> QED BY <2>1, <3>1 DEF Replays
  <2>3. Heard(t, b)' = Heard(t, b)
    BY <1>4 DEF Heard, Pending, AboutToSend
  <2>4. Content(b) \subseteq Heard(t, b)
    BY <2>1 DEF Told
  <2> QED BY <1>4, <2>2, <2>3, <2>4
<1>5. CASE CleanStart
  <2>1. /\ sub' = sub /\ table' = table /\ sent' = sent /\ pub' = pub /\ box' = box
        /\ map' = map /\ clean'.next = None
    BY <1>5 DEF CleanStart, feed, cache
  <2>2. \A b \in Boxes : Content(b)' = Content(b)
    BY <2>1 DEF Content
  <2> QED BY <1>4, <2>1, <2>2
<1>6. CASE Trim
  <2>1. /\ sub' = sub /\ table' = table /\ sent' = sent /\ pub' = pub /\ map' = map
    BY <1>6 DEF Trim, feed
  <2>2. clean'.next \in {None, map}
    BY <1>6, TrimFacts DEF Control
  <2>3. \A b \in Boxes : Content(b)' \subseteq Content(b)
    BY <1>6, TrimRest
  <2> QED BY <1>4, <2>1, <2>2, <2>3
<1>7. CASE Swap
  <2>1. /\ sub' = sub /\ table' = table /\ sent' = sent /\ pub' = pub /\ box' = box
        /\ map' = clean.next /\ clean'.next = None
    BY <1>7 DEF Swap, Asleep, feed
  <2>2. \A b \in Boxes : Content(b)' = Content(b)
    BY <2>1 DEF Content
  <2> QED BY <1>4, <2>1, <2>2
<1>8. CASE BroadcastClean
  <2>1. table' = None /\ sub' = sub
    BY <1>8 DEF BroadcastClean
  <2>2. \A t \in Subs : ~ Follows(t)'
    BY <2>1 DEF Follows, Control, Connections
  <2> QED BY <2>2 DEF Told
<1>9. CASE Age \/ UNCHANGED vars
  <2>1. /\ sub' = sub /\ table' = table /\ sent' = sent /\ pub' = pub /\ box' = box
        /\ map' = map /\ clean' = clean
    BY <1>9 DEF Age, vars, feed, cache
  <2>2. \A b \in Boxes : Content(b)' = Content(b)
    BY <2>1 DEF Content
  <2> QED BY <1>4, <2>1, <2>2
<1> QED BY <1>1, <1>2, <1>3, <1>5, <1>6, <1>7, <1>8, <1>9 DEF Next, CleanStep

-----------------------------------------------------------------------------
(* The theorems.                                                           *)

Inv == Control /\ Once /\ Cached /\ SameOrder /\ InMap /\ CacheComplete /\ Told

LEMMA InitInv == Init => Inv
<1> SUFFICES ASSUME Init PROVE Inv
  OBVIOUS
<1>1. << >> \in Seq(Events) /\ << >> \in Seq(Messages) /\ << >> \in Seq(Messages \cup Previews)
      /\ Len(<< >>) = 0 /\ DOMAIN << >> = {} /\ Range(<< >>) = {}
  BY EmptySeq DEF Range
<1>2. TypeOK
  <2>1. Off \in Sub /\ Idle \in Pub /\ Asleep \in Clean /\ EmptyBox \in Box
    BY <1>1 DEF Off, Idle, Asleep, EmptyBox, Sub, Pub, Clean, Box
  <2>2. /\ table \in Txs \cup {None} /\ sent \in [Txs -> Seq(Events)]
        /\ map \in Boxes \cup {None} /\ box \in [Boxes -> Box]
        /\ lock \in [Boxes -> Pubs \cup {None}]
        /\ sub \in [Subs -> Sub] /\ pub \in [Pubs -> Pub] /\ clean \in Clean
    BY <1>1, <2>1 DEF Init
  <2>3. stamped \in Seq(Messages \cup Previews) /\ raced \in BOOLEAN
    BY <1>1 DEF Init
  <2>4. aged \in 0 .. Len(stamped)
    <3>1. aged = 0 /\ stamped = << >>
      BY DEF Init
    <3> QED BY <1>1, <3>1
  <2> QED BY <2>2, <2>3, <2>4 DEF TypeOK
<1>3. Fires /\ Connections /\ Cleaning /\ Mutex
  <2>1. None \notin Pubs
    BY EventsAssumption
  <2>2. Fires /\ Connections
    BY DEF Init, Fires, Connections, Idle, Off
  <2>3. Cleaning
    BY DEF Init, Cleaning, Asleep
  <2>4. Mutex
    BY <2>1 DEF Init, Mutex, Idle
  <2> QED BY <2>2, <2>3, <2>4
<1>4. Once
  BY <1>1 DEF Init, Once, Idle
<1>5. Cached
  <2>1. \A b \in Boxes : DOMAIN box[b].events = {} /\ Content(b) = {}
    BY <1>1 DEF Init, EmptyBox, Content
  <2> QED BY <2>1 DEF Cached
<1>6. SameOrder
  BY <1>1 DEF Init, SameOrder
<1>7. InMap /\ Told
  BY DEF Init, InMap, Idle, Told, Follows, Off
<1>8. CacheComplete
  <2>1. stamped = << >> /\ aged = 0 /\ 1 .. 0 = {}
    BY DEF Init
  <2> QED BY <1>1, <2>1 DEF CacheComplete
<1> QED BY <1>2, <1>3, <1>4, <1>5, <1>6, <1>7, <1>8 DEF Inv, Control

LEMMA InvStep == Inv /\ [Next]_vars => Inv'
BY ControlStep, OnceStep, CachedStep, SameOrderStep, InMapStep, CacheStep, ToldStep DEF Inv

LEMMA InvHolds == Spec => []Inv
BY InitInv, InvStep, PTL DEF Spec

\* The variables keep their types, whatever connects, fires, cleans and leaves.
THEOREM TypeCorrect == Spec => []TypeOK
<1>1. Inv => TypeOK
  BY DEF Inv, Control
<1> QED BY <1>1, InvHolds, PTL

\* However connections, fires and cleaning overlap, a connection that still has the
\* current sender and has not lagged gets every event of the box it replayed, because
\* push_events subscribes before it replays and async_fire sends before it releases
\* the box.
THEOREM NothingMissed == Spec => []NoGap
<1>1. Inv => NoGap
  <2> SUFFICES ASSUME Inv, NEW s \in Subs, sub[s].pc = "live", sub[s].tx = table,
                      ~sub[s].lagged, Replayed(s) # None
               PROVE  Content(Replayed(s)) \subseteq
                        sub[s].view \cup Pending(s) \cup AboutToSend(Replayed(s))
    BY DEF NoGap
  <2>1. Follows(s) /\ Replayed(s) \in Replays(s)
    BY DEF Follows, Replays, Replayed
  <2> QED BY <2>1 DEF Inv, Told, Heard
<1> QED BY <1>1, InvHolds, PTL

\* On every channel the events of a box are sent in the order in which the box keeps
\* them, since async_fire holds the mutex of the box from caching to sending.
THEOREM OneOrder == Spec => []SameOrder
<1>1. Inv => SameOrder
  BY DEF Inv
<1> QED BY <1>1, InvHolds, PTL

\* The box in the map has every message event of the last day, unless the map lost a
\* box that was in use.
THEOREM RecentKept == Spec => []CacheComplete
<1>1. Inv => CacheComplete
  BY DEF Inv
<1> QED BY <1>1, InvHolds, PTL
=============================================================================

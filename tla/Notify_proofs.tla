---------------------------- MODULE Notify_proofs ----------------------------
(***************************************************************************)
(* Theorems about Notify, for every set of requests, texts, places and     *)
(* people and every bound: its types, that no change of a message is lost, *)
(* and that what the clients were told last is what is stored.             *)
(***************************************************************************)
EXTENDS Notify, TLAPS

\* Where the handlers can be, and who has the row locked.
Control ==
  \A r \in Reqs : Busy(r) =>
    /\ req[r].step = "commit" => req[r].op \in {"edit", "move", "media"}
    /\ req[r].step = "write" => req[r].op # "media"
    /\ req[r].step \in {"look", "commit"} => req[r].op \in OnMessage
    /\ req[r].step = "commit" /\ req[r].op # "media" => lock = r

\* A transaction holds the row as it is, but for the column it has changed.
Locked == lock # NoReq => req[lock].copy = Written(lock) /\ req[lock].op \in {"edit", "move"}

\* What is stored is what the requests asked for; a toggle that will write has
\* read what is there, or two of them have crossed.
Kept ==
  /\ row.text = want.text /\ row.pos = want.pos
  /\ crossed \/ row.folded = want.folded
  /\ \A r \in Reqs : At(r, "write") /\ req[r].op = "toggle" =>
       crossed \/ req[r].copy.folded = row.folded

\* What is still to be said of the message is what is stored, and it will be said.
Told ==
  ~dirty =>
    /\ \A e \in fires : e.body = Now
    /\ \A r \in Reqs : At(r, "fire") /\ req[r].op \in OnMessage => Event(r).body = Now
    /\ \A r \in Reqs : At(r, "commit") /\ req[r].op = "media" => req[r].copy = Now
    /\ shown = Now \/ fires # {} \/ Untold(OnMessage \ {"media"})

\* The same of the member list.
ListTold ==
  ~dirtyMembers =>
    /\ \A f \in fetches : f.has => f.list = members
    /\ shownMembers = members \/ fetches # {} \/ Untold(OnMembers)

Inv == TypeOK /\ Control /\ Locked /\ Kept /\ Told /\ ListTold

-----------------------------------------------------------------------------
(* Records.                                                                *)

LEMMA Typed ==
  ASSUME TypeOK, NEW r \in Reqs, Busy(r)
  PROVE  /\ req[r] \in Request /\ req[r] # NoReq
         /\ req[r].op \in Ops /\ req[r].step \in Steps /\ req[r].n \in 1 .. MaxReqs
         /\ req[r].text \in Texts /\ req[r].pos \in Places /\ req[r].user \in People
         /\ req[r].copy \in Look /\ req[r].copy.folded \in BOOLEAN
<1>1. req[r] \in Request /\ req[r] # NoReq
  BY DEF TypeOK, Busy
<1>2. req[r].copy \in Look
  BY <1>1 DEF Request
<1> QED BY <1>1, <1>2 DEF Request, Look

\* Goto keeps all but the step.
LEMMA GotoType ==
  ASSUME TypeOK, NEW r \in Reqs, Busy(r), NEW s \in Steps, Goto(r, s)
  PROVE  /\ req' \in [Reqs -> Request \cup {NoReq}]
         /\ \A q \in Reqs \ {r} : req'[q] = req[q]
         /\ req'[r] # NoReq
         /\ req'[r].op = req[r].op /\ req'[r].text = req[r].text /\ req'[r].pos = req[r].pos
         /\ req'[r].user = req[r].user /\ req'[r].n = req[r].n
         /\ req'[r].copy = req[r].copy /\ req'[r].step = s
<1>1. req[r] \in Request /\ req \in [Reqs -> Request \cup {NoReq}]
  BY DEF TypeOK, Busy
<1> DEFINE g == [req[r] EXCEPT !.step = s]
<1>2. /\ g \in Request
      /\ g.op = req[r].op /\ g.text = req[r].text /\ g.pos = req[r].pos
      /\ g.user = req[r].user /\ g.n = req[r].n /\ g.copy = req[r].copy /\ g.step = s
  BY <1>1 DEF Request
<1>3. g # NoReq
  BY <1>2, RequestAssumption
<1>4. req' = [req EXCEPT ![r] = g]
  BY <1>1 DEF Goto
<1> HIDE DEF g
<1> QED BY <1>1, <1>2, <1>3, <1>4

\* The row after an UPDATE.
LEMMA WrittenType ==
  ASSUME TypeOK, NEW r \in Reqs, Busy(r), req[r].op \in {"edit", "move", "toggle"}
  PROVE  /\ Written(r) \in Look
         /\ req[r].op = "edit" => Written(r) = [row EXCEPT !.text = req[r].text]
         /\ req[r].op = "move" => Written(r) = [row EXCEPT !.pos = req[r].pos]
         /\ req[r].op = "toggle" => Written(r) = [row EXCEPT !.folded = ~req[r].copy.folded]
<1>1. row \in Look
  BY DEF TypeOK
<1>2. req[r].text \in Texts /\ req[r].pos \in Places
  BY Typed
<1>3. CASE req[r].op = "edit"
  BY <1>1, <1>2, <1>3 DEF Written, Look
<1>4. CASE req[r].op = "move"
  BY <1>1, <1>2, <1>4 DEF Written, Look
<1>5. CASE req[r].op = "toggle"
  BY <1>1, <1>5 DEF Written, Look
<1> QED BY <1>3, <1>4, <1>5

LEMMA InitInv == Init => Inv
<1> SUFFICES ASSUME Init PROVE Inv
  OBVIOUS
<1>1. row \in Look
  <2>1. PICK t \in Texts, p \in Places : TRUE
    BY NamesAssumption
  <2>2. [text |-> t, folded |-> FALSE, pos |-> p] \in Look
    BY DEF Look
  <2>3. \E l \in Look : ~l.folded
    BY <2>2
  <2> QED BY <2>3 DEF Init
<1>2. fires \in SUBSET [n : 0 .. MaxReqs, body : Look \cup {Gone}]
  BY <1>1, BoundAssumption DEF Init
<1>3. TypeOK
  BY <1>1, <1>2, BoundAssumption DEF Init, TypeOK
<1>4. Control /\ Locked /\ Kept /\ Told /\ ListTold
  BY DEF Init, Control, Locked, Kept, Told, ListTold, Busy, At, Now
<1> QED BY <1>3, <1>4 DEF Inv

-----------------------------------------------------------------------------
(* Steps of a handler.                                                     *)

LEMMA StartStep ==
  ASSUME Inv, NEW r \in Reqs, Start(r)
  PROVE  Inv'
<1>1. PICK op \in Ops, t \in Texts, p \in Places, u \in People :
        req' = [req EXCEPT ![r] =
                 [op |-> op, step |-> IF op \in OnMessage THEN "look" ELSE "write",
                  n |-> started + 1, text |-> t, pos |-> p, user |-> u, copy |-> row]]
  BY DEF Start
<1> DEFINE g == [op |-> op, step |-> IF op \in OnMessage THEN "look" ELSE "write",
                 n |-> started + 1, text |-> t, pos |-> p, user |-> u, copy |-> row]
<1>2. /\ ~Busy(r) /\ started < MaxReqs /\ started' = started + 1
      /\ UNCHANGED <<row, deleted, lock, want, crossed, dirty, members, dirtyMembers,
                     fires, fetches, shown, shownMembers>>
  BY DEF Start, message, list, tasks, told
<1>3. started \in 0 .. MaxReqs /\ started + 1 \in 1 .. MaxReqs /\ row \in Look
  BY <1>2, BoundAssumption DEF Inv, TypeOK
<1>4. g \in Request /\ g.op = op /\ g.step = (IF op \in OnMessage THEN "look" ELSE "write")
  BY <1>3 DEF Request, Steps
<1>5. op \in OnMessage \/ op \in OnMembers
  BY OpsAssumption
<1>6. lock # r
  BY <1>2, NamesAssumption DEF Inv, TypeOK, At, Busy
<1> HIDE DEF g
<1>7. /\ req' \in [Reqs -> Request \cup {NoReq}]
      /\ req'[r] = g /\ \A q \in Reqs \ {r} : req'[q] = req[q]
  BY <1>1, <1>4 DEF Inv, TypeOK, g
<1>8. TypeOK'
  <2>1. lock # NoReq => At(lock, "commit")'
    BY <1>2, <1>6, <1>7 DEF Inv, TypeOK, At, Busy
  <2> QED BY <1>2, <1>3, <1>7, <2>1 DEF Inv, TypeOK
<1>9. Control'
  BY <1>2, <1>4, <1>5, <1>7 DEF Inv, Control, Busy, OnMessage, OnMembers
<1>10. Locked'
  BY <1>2, <1>6, <1>7 DEF Inv, Locked, Written, TypeOK
<1>11. Kept'
  BY <1>2, <1>4, <1>7 DEF Inv, Kept, At, Busy, OnMessage
<1>12. Told'
  BY <1>2, <1>4, <1>7 DEF Inv, Told, Untold, At, Busy, Event, Now
<1>13. ListTold'
  BY <1>2, <1>4, <1>7 DEF Inv, ListTold, Untold, At, Busy
<1> QED BY <1>8, <1>9, <1>10, <1>11, <1>12, <1>13 DEF Inv

LEMMA SeeStep ==
  ASSUME Inv, NEW r \in Reqs, See(r)
  PROVE  Inv'
<1>1. /\ Busy(r) /\ req[r].step = "look"
      /\ UNCHANGED <<row, deleted, lock, want, crossed, dirty, members, dirtyMembers,
                     fires, fetches, shown, shownMembers, started>>
  BY DEF See, At, message, list, tasks, told
<1>2. lock # r
  BY <1>1, NamesAssumption DEF Inv, TypeOK, At
<1>3. CASE deleted
  <2>1. /\ req' \in [Reqs -> Request \cup {NoReq}]
        /\ req'[r] = NoReq /\ \A q \in Reqs \ {r} : req'[q] = req[q]
    BY <1>3 DEF See, Return, Inv, TypeOK
  <2>2. TypeOK'
    <3>1. lock # NoReq => At(lock, "commit")'
      BY <1>1, <1>2, <2>1 DEF Inv, TypeOK, At, Busy
    <3> QED BY <1>1, <2>1, <3>1 DEF Inv, TypeOK
  <2>3. Control'
    BY <1>1, <2>1 DEF Inv, Control, Busy
  <2>4. Locked'
    BY <1>1, <1>2, <2>1 DEF Inv, Locked, Written, TypeOK
  <2>5. Kept'
    BY <1>1, <2>1 DEF Inv, Kept, At, Busy
  <2>6. Told'
    BY <1>1, <2>1 DEF Inv, Told, Untold, At, Busy, Event, Now
  <2>7. ListTold'
    BY <1>1, <2>1 DEF Inv, ListTold, Untold, At, Busy
  <2> QED BY <2>2, <2>3, <2>4, <2>5, <2>6, <2>7 DEF Inv
<1>4. CASE ~deleted
  <2> DEFINE s == IF req[r].op = "media" THEN "commit" ELSE "write"
             g == [req[r] EXCEPT !.copy = row, !.step = s]
  <2>1. req' = [req EXCEPT ![r] = g] /\ row \in Look /\ s \in Steps
    BY <1>4 DEF See, Inv, TypeOK, Steps
  <2> HIDE DEF s
  <2>2. /\ g \in Request /\ g # NoReq /\ g.op = req[r].op /\ g.text = req[r].text
        /\ g.pos = req[r].pos /\ g.user = req[r].user /\ g.n = req[r].n
        /\ g.copy = row /\ g.step = s
    <3>1. req[r] \in Request
      BY <1>1, Typed DEF Inv
    <3>2. /\ g \in Request /\ g.op = req[r].op /\ g.text = req[r].text
          /\ g.pos = req[r].pos /\ g.user = req[r].user /\ g.n = req[r].n
          /\ g.copy = row /\ g.step = s
      BY <2>1, <3>1 DEF Request
    <3> QED BY <3>2, RequestAssumption
  <2> HIDE DEF g
  <2>3. /\ req' \in [Reqs -> Request \cup {NoReq}]
        /\ req'[r] = g /\ \A q \in Reqs \ {r} : req'[q] = req[q]
    BY <2>1, <2>2 DEF Inv, TypeOK
  <2>4. TypeOK'
    <3>1. lock # NoReq => At(lock, "commit")'
      BY <1>1, <1>2, <2>3 DEF Inv, TypeOK, At, Busy
    <3> QED BY <1>1, <2>3, <3>1 DEF Inv, TypeOK
  <2>5. Control'
    <3>1. req[r].op \in OnMessage
      BY <1>1 DEF Inv, Control
    <3> QED BY <1>1, <2>2, <2>3, <3>1 DEF Inv, Control, Busy, s
  <2>6. Locked'
    BY <1>1, <1>2, <2>3 DEF Inv, Locked, Written, TypeOK
  <2>7. Kept'
    BY <1>1, <2>2, <2>3 DEF Inv, Kept, At, Busy
  <2>8. Told'
    BY <1>1, <1>4, <2>2, <2>3 DEF Inv, Told, Untold, At, Busy, Event, Now, s
  <2>9. ListTold'
    BY <1>1, <2>2, <2>3 DEF Inv, ListTold, Untold, At, Busy, s
  <2> QED BY <2>4, <2>5, <2>6, <2>7, <2>8, <2>9 DEF Inv
<1> QED BY <1>3, <1>4

LEMMA UpdateStep ==
  ASSUME Inv, NEW r \in Reqs, Update(r)
  PROVE  Inv'
<1> DEFINE g == [req[r] EXCEPT !.copy = Written(r), !.step = "commit"]
<1>1. /\ Busy(r) /\ req[r].step = "write" /\ req[r].op \in {"edit", "move"}
      /\ lock = NoReq /\ lock' = r
      /\ req' = [req EXCEPT ![r] = g]
      /\ UNCHANGED <<row, deleted, want, crossed, dirty, members, dirtyMembers,
                     fires, fetches, shown, shownMembers, started>>
  BY DEF Update, At, list, tasks, told, Inv, TypeOK
<1>2. /\ g \in Request /\ g # NoReq /\ g.op = req[r].op /\ g.text = req[r].text
      /\ g.pos = req[r].pos /\ g.user = req[r].user /\ g.n = req[r].n
      /\ g.copy = Written(r) /\ g.step = "commit"
  <2>1. Written(r) \in Look /\ "commit" \in Steps
    BY <1>1, WrittenType DEF Inv, Steps
  <2>2. req[r] \in Request
    BY <1>1, Typed DEF Inv
  <2>3. /\ g \in Request /\ g.op = req[r].op /\ g.text = req[r].text
        /\ g.pos = req[r].pos /\ g.user = req[r].user /\ g.n = req[r].n
        /\ g.copy = Written(r) /\ g.step = "commit"
    BY <2>1, <2>2 DEF Request
  <2> QED BY <2>3, RequestAssumption
<1> HIDE DEF g
<1>3. /\ req' \in [Reqs -> Request \cup {NoReq}]
      /\ req'[r] = g /\ \A q \in Reqs \ {r} : req'[q] = req[q]
  BY <1>1, <1>2 DEF Inv, TypeOK
<1>4. TypeOK'
  <2>1. At(r, "commit")'
    BY <1>2, <1>3 DEF At, Busy
  <2> QED BY <1>1, <1>3, <2>1 DEF Inv, TypeOK
<1>5. Control'
  BY <1>1, <1>2, <1>3, NamesAssumption DEF Inv, Control, Busy, OnMessage
<1>6. Locked'
  BY <1>1, <1>2, <1>3 DEF Locked, Written
<1>7. Kept'
  BY <1>1, <1>2, <1>3 DEF Inv, Kept, At, Busy
<1>8. Told'
  BY <1>1, <1>2, <1>3 DEF Inv, Told, Untold, At, Busy, Event, Now
<1>9. ListTold'
  BY <1>1, <1>2, <1>3 DEF Inv, ListTold, Untold, At, Busy
<1> QED BY <1>4, <1>5, <1>6, <1>7, <1>8, <1>9 DEF Inv

LEMMA CommitStep ==
  ASSUME Inv, NEW r \in Reqs, Commit(r)
  PROVE  Inv'
<1>1. /\ Busy(r) /\ req[r].step = "commit" /\ Goto(r, "fire")
      /\ UNCHANGED <<members, dirtyMembers, fires, fetches, shown, shownMembers, started>>
  BY DEF Commit, At, list, tasks, told
<1>2. /\ req' \in [Reqs -> Request \cup {NoReq}]
      /\ \A q \in Reqs \ {r} : req'[q] = req[q]
      /\ req'[r] # NoReq
      /\ req'[r].op = req[r].op /\ req'[r].text = req[r].text /\ req'[r].pos = req[r].pos
      /\ req'[r].user = req[r].user /\ req'[r].n = req[r].n
      /\ req'[r].copy = req[r].copy /\ req'[r].step = "fire"
  BY <1>1, GotoType DEF Inv, Steps
<1>3. req[r].op \in {"edit", "move", "media"} /\ req[r].copy \in Look
  BY <1>1, Typed DEF Inv, Control
<1>4. ListTold'
  BY <1>1, <1>2, <1>3 DEF Inv, ListTold, Untold, At, Busy, OnMembers
<1>5. CASE req[r].op = "media"
  <2>1. UNCHANGED <<row, deleted, lock, want, crossed, dirty>>
    BY <1>5 DEF Commit, message
  <2>2. lock # r
    BY <1>5, NamesAssumption DEF Inv, Locked
  <2>3. TypeOK'
    <3>1. lock # NoReq => At(lock, "commit")'
      BY <1>2, <2>1, <2>2 DEF Inv, TypeOK, At, Busy
    <3> QED BY <1>1, <1>2, <2>1, <3>1 DEF Inv, TypeOK
  <2>4. Control'
    BY <1>2, <2>1 DEF Inv, Control, Busy
  <2>5. Locked'
    BY <1>2, <2>1, <2>2 DEF Inv, Locked, Written, TypeOK
  <2>6. Kept'
    BY <1>2, <2>1 DEF Inv, Kept, At, Busy
  <2>7. Told'
    BY <1>1, <1>2, <1>5, <2>1 DEF Inv, Told, Untold, At, Busy, Event, Now
  <2> QED BY <1>4, <2>3, <2>4, <2>5, <2>6, <2>7 DEF Inv
<1>6. CASE req[r].op \in {"edit", "move"}
  <2>1. /\ lock = r /\ lock' = NoReq /\ UNCHANGED <<crossed, deleted>>
        /\ row' = req[r].copy /\ dirty' = (Pending(r) \/ deleted)
        /\ req[r].op = "edit" => want' = [want EXCEPT !.text = req[r].text]
        /\ req[r].op = "move" => want' = [want EXCEPT !.pos = req[r].pos]
    BY <1>1, <1>6 DEF Commit, Committed, Inv, Control
  <2>2. /\ req[r].op = "edit" => row' = [row EXCEPT !.text = req[r].text]
        /\ req[r].op = "move" => row' = [row EXCEPT !.pos = req[r].pos]
    BY <1>1, <1>6, <2>1, NamesAssumption, WrittenType DEF Inv, Locked
  <2>3. row \in Look /\ want \in Look /\ req[r].text \in Texts /\ req[r].pos \in Places
    BY <1>1, Typed DEF Inv, TypeOK
  <2>4. /\ want' \in Look /\ row' \in Look /\ row'.folded = row.folded /\ want'.folded = want.folded
        /\ row.text = want.text /\ row.pos = want.pos => row'.text = want'.text /\ row'.pos = want'.pos
    <3>1. CASE req[r].op = "edit"
      BY <2>1, <2>2, <2>3, <3>1 DEF Look
    <3>2. CASE req[r].op = "move"
      BY <2>1, <2>2, <2>3, <3>2 DEF Look
    <3> QED BY <1>6, <3>1, <3>2
  <2>5. TypeOK'
    BY <1>1, <1>2, <2>1, <2>4 DEF Inv, TypeOK
  <2>6. Control'
    BY <1>2, <2>1, NamesAssumption DEF Inv, Control, Busy
  <2>7. Locked'
    BY <2>1 DEF Locked
  <2>8. Kept'
    BY <1>2, <2>1, <2>4 DEF Inv, Kept, At, Busy
  <2>9. Told'
    <3> SUFFICES ASSUME ~Pending(r), ~deleted PROVE Told'
      BY <2>1 DEF Told
    <3>1. fires = {} /\ \A q \in Reqs \ {r} :
            /\ ~(At(q, "fire") /\ req[q].op \in OnMessage)
            /\ ~(At(q, "commit") /\ req[q].op = "media")
      BY DEF Pending, At, OnMessage
    <3>2. \A q \in Reqs \ {r} :
            /\ ~(At(q, "fire") /\ req[q].op \in OnMessage)'
            /\ ~(At(q, "commit") /\ req[q].op = "media")'
      BY <1>2, <3>1 DEF At, Busy
    <3>3. Now' = row' /\ Event(r)'.body = row'
      BY <1>2, <1>6, <2>1 DEF Now, Event
    <3>4. At(r, "fire")' /\ ~At(r, "commit")'
      BY <1>2 DEF At, Busy
    <3>5. Untold(OnMessage \ {"media"})'
      BY <1>2, <1>6, <3>4 DEF Untold, OnMessage
    <3>6. fires' = {}
      BY <1>1, <3>1
    <3> QED BY <3>2, <3>3, <3>4, <3>5, <3>6 DEF Told
  <2> QED BY <1>4, <2>5, <2>6, <2>7, <2>8, <2>9 DEF Inv
<1> QED BY <1>3, <1>5, <1>6

LEMMA ToggleStep ==
  ASSUME Inv, NEW r \in Reqs, Toggle(r)
  PROVE  Inv'
<1> DEFINE g == [req[r] EXCEPT !.copy = Written(r), !.step = "fire"]
<1>1. /\ Busy(r) /\ req[r].step = "write" /\ req[r].op = "toggle" /\ lock = NoReq
      /\ req' = [req EXCEPT ![r] = g]
      /\ row' = Written(r) /\ dirty' = (Pending(r) \/ deleted)
      /\ want' = [want EXCEPT !.folded = ~@]
      /\ crossed' = (crossed \/ \E q \in Reqs \ {r} : At(q, "write") /\ req[q].op = "toggle")
      /\ UNCHANGED <<deleted, lock, members, dirtyMembers, fires, fetches, shown,
                     shownMembers, started>>
  BY DEF Toggle, Committed, At, list, tasks, told, Inv, TypeOK
<1>2. Written(r) \in Look /\ Written(r) = [row EXCEPT !.folded = ~req[r].copy.folded]
  BY <1>1, WrittenType DEF Inv
<1>3. /\ g \in Request /\ g # NoReq /\ g.op = req[r].op /\ g.text = req[r].text
      /\ g.pos = req[r].pos /\ g.user = req[r].user /\ g.n = req[r].n
      /\ g.copy = Written(r) /\ g.step = "fire"
  <2>1. req[r] \in Request
    BY <1>1, Typed DEF Inv
  <2>2. /\ g \in Request /\ g.op = req[r].op /\ g.text = req[r].text
        /\ g.pos = req[r].pos /\ g.user = req[r].user /\ g.n = req[r].n
        /\ g.copy = Written(r) /\ g.step = "fire"
    BY <1>2, <2>1 DEF Request, Steps
  <2> QED BY <2>2, RequestAssumption
<1> HIDE DEF g
<1>4. /\ req' \in [Reqs -> Request \cup {NoReq}]
      /\ req'[r] = g /\ \A q \in Reqs \ {r} : req'[q] = req[q]
  BY <1>1, <1>3 DEF Inv, TypeOK
<1>5. row \in Look /\ want \in Look /\ req[r].copy.folded \in BOOLEAN
  BY <1>1, Typed DEF Inv, TypeOK
<1>6. /\ row'.text = row.text /\ row'.pos = row.pos
      /\ want'.text = want.text /\ want'.pos = want.pos /\ want' \in Look
      /\ row'.folded = ~req[r].copy.folded /\ want'.folded = ~want.folded
  BY <1>1, <1>2, <1>5 DEF Look
<1>7. TypeOK'
  <2>1. crossed' \in BOOLEAN /\ dirty' \in BOOLEAN
    BY <1>1
  <2> QED BY <1>1, <1>2, <1>4, <1>6, <2>1 DEF Inv, TypeOK
<1>8. Control'
  BY <1>1, <1>3, <1>4 DEF Inv, Control, Busy
<1>9. Locked'
  BY <1>1 DEF Locked
<1>10. Kept'
  <2>1. row'.text = want'.text /\ row'.pos = want'.pos
    BY <1>6 DEF Inv, Kept
  <2>2. ASSUME ~crossed' PROVE row'.folded = want'.folded
    <3>1. ~crossed
      BY <1>1, <2>2
    <3>2. row.folded = want.folded /\ req[r].copy.folded = row.folded
      BY <1>1, <3>1 DEF Inv, Kept, At
    <3> QED BY <1>6, <3>2
  <2>3. ASSUME ~crossed', NEW q \in Reqs PROVE ~(At(q, "write") /\ req[q].op = "toggle")'
    BY <1>1, <1>3, <1>4, <2>3 DEF At, Busy
  <2> QED BY <2>1, <2>2, <2>3 DEF Kept
<1>11. Told'
  <2> SUFFICES ASSUME ~Pending(r), ~deleted PROVE Told'
    BY <1>1 DEF Told
  <2>1. fires = {} /\ \A q \in Reqs \ {r} :
          /\ ~(At(q, "fire") /\ req[q].op \in OnMessage)
          /\ ~(At(q, "commit") /\ req[q].op = "media")
    BY DEF Pending, At, OnMessage
  <2>2. \A q \in Reqs \ {r} :
          /\ ~(At(q, "fire") /\ req[q].op \in OnMessage)'
          /\ ~(At(q, "commit") /\ req[q].op = "media")'
    BY <1>4, <2>1 DEF At, Busy
  <2>3. Now' = row' /\ Event(r)'.body = row'
    BY <1>1, <1>3, <1>4 DEF Now, Event
  <2>4. At(r, "fire")' /\ ~At(r, "commit")'
    BY <1>3, <1>4 DEF At, Busy
  <2>5. Untold(OnMessage \ {"media"})'
    BY <1>1, <1>3, <1>4, <2>4 DEF Untold, OnMessage
  <2>6. fires' = {}
    BY <1>1, <2>1
  <2> QED BY <2>2, <2>3, <2>4, <2>5, <2>6 DEF Told
<1>12. ListTold'
  BY <1>1, <1>3, <1>4 DEF Inv, ListTold, Untold, At, Busy, OnMembers
<1> QED BY <1>7, <1>8, <1>9, <1>10, <1>11, <1>12 DEF Inv

LEMMA DeleteStep ==
  ASSUME Inv, NEW r \in Reqs, Delete(r)
  PROVE  Inv'
<1>1. /\ Busy(r) /\ req[r].step = "write" /\ req[r].op = "delete" /\ lock = NoReq
      /\ deleted' = TRUE /\ dirty' = Pending(r) /\ Goto(r, "fire")
      /\ UNCHANGED <<row, lock, want, crossed, members, dirtyMembers, fires, fetches,
                     shown, shownMembers, started>>
  BY DEF Delete, At, list, tasks, told
<1>2. /\ req' \in [Reqs -> Request \cup {NoReq}]
      /\ \A q \in Reqs \ {r} : req'[q] = req[q]
      /\ req'[r] # NoReq /\ req'[r].op = "delete" /\ req'[r].step = "fire"
  BY <1>1, GotoType DEF Inv, Steps
<1>3. TypeOK'
  <2>1. dirty' \in BOOLEAN
    BY <1>1 DEF Pending
  <2> QED BY <1>1, <1>2, <2>1 DEF Inv, TypeOK
<1>4. Control'
  BY <1>1, <1>2 DEF Inv, Control, Busy
<1>5. Locked'
  BY <1>1 DEF Locked
<1>6. Kept'
  BY <1>1, <1>2 DEF Inv, Kept, At, Busy
<1>7. Told'
  <2> SUFFICES ASSUME ~Pending(r) PROVE Told'
    BY <1>1 DEF Told
  <2>1. fires = {} /\ \A q \in Reqs \ {r} :
          /\ ~(At(q, "fire") /\ req[q].op \in OnMessage)
          /\ ~(At(q, "commit") /\ req[q].op = "media")
    BY DEF Pending, At, OnMessage
  <2>2. \A q \in Reqs \ {r} :
          /\ ~(At(q, "fire") /\ req[q].op \in OnMessage)'
          /\ ~(At(q, "commit") /\ req[q].op = "media")'
    BY <1>2, <2>1 DEF At, Busy
  <2>3. Now' = Gone /\ Event(r)'.body = Gone
    BY <1>1, <1>2 DEF Now, Event
  <2>4. At(r, "fire")' /\ ~At(r, "commit")'
    BY <1>2 DEF At, Busy
  <2>5. Untold(OnMessage \ {"media"})'
    BY <1>2, <2>4 DEF Untold, OnMessage
  <2>6. fires' = {}
    BY <1>1, <2>1
  <2> QED BY <2>2, <2>3, <2>4, <2>5, <2>6 DEF Told
<1>8. ListTold'
  BY <1>1, <1>2 DEF Inv, ListTold, Untold, At, Busy, OnMembers
<1> QED BY <1>3, <1>4, <1>5, <1>6, <1>7, <1>8 DEF Inv

LEMMA ChangeStep ==
  ASSUME Inv, NEW r \in Reqs, Change(r)
  PROVE  Inv'
<1>1. /\ Busy(r) /\ req[r].step = "write" /\ req[r].op \in OnMembers /\ Goto(r, "fire")
      /\ members' = IF req[r].op = "join" THEN members \cup {req[r].user}
                    ELSE members \ {req[r].user}
      /\ dirtyMembers' = \E f \in fetches : f.has
      /\ UNCHANGED <<row, deleted, lock, want, crossed, dirty, fires, fetches, shown,
                     shownMembers, started>>
  BY DEF Change, At, message, tasks, told
<1>2. /\ req' \in [Reqs -> Request \cup {NoReq}]
      /\ \A q \in Reqs \ {r} : req'[q] = req[q]
      /\ req'[r] # NoReq /\ req'[r].op = req[r].op /\ req'[r].step = "fire"
  BY <1>1, GotoType DEF Inv, Steps
<1>3. lock # r
  BY <1>1, NamesAssumption DEF Inv, TypeOK, At
<1>4. TypeOK'
  <2>1. members' \subseteq People
    BY <1>1, Typed DEF Inv, TypeOK
  <2>2. lock # NoReq => At(lock, "commit")'
    BY <1>1, <1>2, <1>3 DEF Inv, TypeOK, At, Busy
  <2>3. dirtyMembers' \in BOOLEAN
    BY <1>1
  <2> QED BY <1>1, <1>2, <2>1, <2>2, <2>3 DEF Inv, TypeOK
<1>5. Control'
  BY <1>1, <1>2 DEF Inv, Control, Busy
<1>6. Locked'
  BY <1>1, <1>2, <1>3 DEF Inv, Locked, Written, TypeOK
<1>7. Kept'
  BY <1>1, <1>2 DEF Inv, Kept, At, Busy
<1>8. Told'
  BY <1>1, <1>2 DEF Inv, Told, Untold, At, Busy, Event, Now, OnMessage, OnMembers
<1>9. ListTold'
  <2> SUFFICES ASSUME ~dirtyMembers' PROVE ListTold'
    BY DEF ListTold
  <2>1. \A f \in fetches' : ~f.has
    BY <1>1
  <2>2. Untold(OnMembers)'
    BY <1>1, <1>2 DEF Untold, At, Busy
  <2> QED BY <2>1, <2>2 DEF ListTold
<1> QED BY <1>4, <1>5, <1>6, <1>7, <1>8, <1>9 DEF Inv

\* What of the other requests does not change when one returns.
LEMMA Returned ==
  ASSUME TypeOK, NEW r \in Reqs, Return(r)
  PROVE  /\ req' \in [Reqs -> Request \cup {NoReq}]
         /\ req'[r] = NoReq /\ \A q \in Reqs \ {r} : req'[q] = req[q]
BY DEF Return, TypeOK

LEMMA DropStep ==
  ASSUME Inv, NEW r \in Reqs, Drop(r)
  PROVE  Inv'
<1>1. /\ Busy(r) /\ lock' = IF lock = r THEN NoReq ELSE lock
      /\ dirty' = (dirty \/ (At(r, "fire") /\ req[r].op \in OnMessage \ {"media"}))
      /\ dirtyMembers' = (dirtyMembers \/ (At(r, "fire") /\ req[r].op \in OnMembers))
      /\ UNCHANGED <<row, deleted, want, crossed, members, fires, fetches, shown,
                     shownMembers, started>>
  BY DEF Drop, tasks, told
<1>2. /\ req' \in [Reqs -> Request \cup {NoReq}]
      /\ req'[r] = NoReq /\ \A q \in Reqs \ {r} : req'[q] = req[q]
  BY Returned DEF Drop, Inv
<1>3. TypeOK'
  <2>1. lock' \in Reqs \cup {NoReq} /\ (lock # NoReq => At(lock, "commit"))'
    BY <1>1, <1>2 DEF Inv, TypeOK, At, Busy
  <2>2. dirty' \in BOOLEAN /\ dirtyMembers' \in BOOLEAN
    BY <1>1 DEF Inv, TypeOK
  <2> QED BY <1>1, <1>2, <2>1, <2>2 DEF Inv, TypeOK
<1>4. Control'
  BY <1>1, <1>2 DEF Inv, Control, Busy
<1>5. Locked'
  BY <1>1, <1>2 DEF Inv, Locked, Written, TypeOK
<1>6. Kept'
  BY <1>1, <1>2 DEF Inv, Kept, At, Busy
<1>7. Told'
  <2> SUFFICES ASSUME ~dirty, ~(At(r, "fire") /\ req[r].op \in OnMessage \ {"media"})
               PROVE  Told'
    BY <1>1 DEF Told
  <2>1. \A q \in Reqs : (At(q, "fire") /\ req[q].op \in OnMessage)' => Event(q)'.body = Now
    BY <1>2 DEF Inv, Told, At, Busy, Event
  <2>2. \A q \in Reqs : (At(q, "commit") /\ req[q].op = "media")' => (req[q].copy)' = Now
    BY <1>2 DEF Inv, Told, At, Busy
  <2>3. Now' = Now
    BY <1>1 DEF Now
  <2>4. Untold(OnMessage \ {"media"}) => Untold(OnMessage \ {"media"})'
    BY <1>2 DEF Untold, At, Busy
  <2>5. /\ \A e \in fires : e.body = Now
        /\ shown = Now \/ fires # {} \/ Untold(OnMessage \ {"media"})'
    BY <2>4 DEF Inv, Told
  <2> QED BY <1>1, <2>1, <2>2, <2>3, <2>5 DEF Told
<1>8. ListTold'
  <2> SUFFICES ASSUME ~dirtyMembers, ~(At(r, "fire") /\ req[r].op \in OnMembers)
               PROVE  ListTold'
    BY <1>1 DEF ListTold
  <2>1. Untold(OnMembers) => Untold(OnMembers)'
    BY <1>2 DEF Untold, At, Busy
  <2> QED BY <1>1, <2>1 DEF Inv, ListTold
<1> QED BY <1>3, <1>4, <1>5, <1>6, <1>7, <1>8 DEF Inv

LEMMA FireStep ==
  ASSUME Inv, NEW r \in Reqs, Fire(r)
  PROVE  Inv'
<1>1. /\ Busy(r) /\ req[r].step = "fire"
      /\ fires' = IF req[r].op \in OnMessage THEN fires \cup {Event(r)} ELSE fires
      /\ fetches' = IF req[r].op \in OnMembers THEN fetches \cup {Task(r)} ELSE fetches
      /\ UNCHANGED <<row, deleted, lock, want, crossed, dirty, members, dirtyMembers, shown,
                     shownMembers, started>>
  BY DEF Fire, At, message, list, told
<1>2. /\ req' \in [Reqs -> Request \cup {NoReq}]
      /\ req'[r] = NoReq /\ \A q \in Reqs \ {r} : req'[q] = req[q]
  BY Returned DEF Fire, Inv
<1>3. lock # r
  BY <1>1, NamesAssumption DEF Inv, TypeOK, At
<1>4. TypeOK'
  <2>1. req[r].n \in 1 .. MaxReqs /\ req[r].copy \in Look
    BY <1>1, Typed DEF Inv
  <2>2. req[r].n \in 0 .. MaxReqs
    BY <2>1, BoundAssumption
  <2>3. fires' \in SUBSET [n : 0 .. MaxReqs, body : Look \cup {Gone}]
    <3>1. Event(r) \in [n : 0 .. MaxReqs, body : Look \cup {Gone}]
      BY <2>1, <2>2 DEF Event
    <3> QED BY <1>1, <3>1 DEF Inv, TypeOK
  <2>4. fetches' \in SUBSET Fetch
    <3>1. Task(r) \in Fetch
      BY <2>1 DEF Task, Fetch
    <3> QED BY <1>1, <3>1 DEF Inv, TypeOK
  <2>5. lock # NoReq => At(lock, "commit")'
    BY <1>1, <1>2, <1>3 DEF Inv, TypeOK, At, Busy
  <2> QED BY <1>1, <1>2, <2>3, <2>4, <2>5 DEF Inv, TypeOK
<1>5. Control'
  BY <1>1, <1>2 DEF Inv, Control, Busy
<1>6. Locked'
  BY <1>1, <1>2, <1>3 DEF Inv, Locked, Written, TypeOK
<1>7. Kept'
  BY <1>1, <1>2 DEF Inv, Kept, At, Busy
<1>8. Told'
  <2> SUFFICES ASSUME ~dirty PROVE Told'
    BY <1>1 DEF Told
  <2>1. \A q \in Reqs : (At(q, "fire") /\ req[q].op \in OnMessage)' => Event(q)'.body = Now
    BY <1>2 DEF Inv, Told, At, Busy, Event
  <2>2. \A q \in Reqs : (At(q, "commit") /\ req[q].op = "media")' => (req[q].copy)' = Now
    BY <1>2 DEF Inv, Told, At, Busy
  <2>3. Now' = Now
    BY <1>1 DEF Now
  <2>4. \A e \in fires' : e.body = Now
    BY <1>1 DEF Inv, Told, At
  <2>5. shown = Now \/ fires' # {} \/ Untold(OnMessage \ {"media"})'
    <3>1. CASE req[r].op \in OnMessage
      BY <1>1, <3>1
    <3>2. CASE req[r].op \notin OnMessage
      <4>1. Untold(OnMessage \ {"media"}) => Untold(OnMessage \ {"media"})'
        BY <1>2, <3>2 DEF Untold, At, Busy
      <4> QED BY <1>1, <4>1 DEF Inv, Told
    <3> QED BY <3>1, <3>2
  <2> QED BY <1>1, <2>1, <2>2, <2>3, <2>4, <2>5 DEF Told
<1>9. ListTold'
  <2> SUFFICES ASSUME ~dirtyMembers PROVE ListTold'
    BY <1>1 DEF ListTold
  <2>1. \A f \in fetches' : f.has => f.list = members
    BY <1>1 DEF Inv, ListTold, Task
  <2>2. shownMembers = members \/ fetches' # {} \/ Untold(OnMembers)'
    <3>1. CASE req[r].op \in OnMembers
      BY <1>1, <3>1
    <3>2. CASE req[r].op \notin OnMembers
      <4>1. Untold(OnMembers) => Untold(OnMembers)'
        BY <1>2, <3>2 DEF Untold, At, Busy
      <4> QED BY <1>1, <4>1 DEF Inv, ListTold
    <3> QED BY <3>1, <3>2
  <2> QED BY <1>1, <2>1, <2>2 DEF ListTold
<1> QED BY <1>4, <1>5, <1>6, <1>7, <1>8, <1>9 DEF Inv

-----------------------------------------------------------------------------
(* Steps of the spawned tasks: no request and no row changes.              *)

LEMMA TaskSteps ==
  ASSUME Inv, UNCHANGED <<row, deleted, lock, want, crossed, dirty, members, req, started>>,
         fires' \in SUBSET [n : 0 .. MaxReqs, body : Look \cup {Gone}],
         fetches' \in SUBSET Fetch, shown' \in Look \cup {Gone},
         shownMembers' \in SUBSET People, dirtyMembers' \in BOOLEAN
  PROVE  TypeOK' /\ Control' /\ Locked' /\ Kept'
<1>1. TypeOK'
  BY DEF Inv, TypeOK, At, Busy
<1>2. Control' /\ Locked' /\ Kept'
  BY DEF Inv, Control, Locked, Kept, Written, At, Busy
<1> QED BY <1>1, <1>2

LEMMA BroadcastStep ==
  ASSUME Inv, NEW e \in fires, Broadcast(e)
  PROVE  Inv'
<1>1. /\ fires' = fires \ {e} /\ shown' = e.body
      /\ UNCHANGED <<row, deleted, lock, want, crossed, dirty, members, dirtyMembers, req,
                     fetches, shownMembers, started>>
  BY DEF Broadcast, message, list
<1>2. e.body \in Look \cup {Gone}
  BY DEF Inv, TypeOK
<1>3. TypeOK' /\ Control' /\ Locked' /\ Kept'
  BY <1>1, <1>2, TaskSteps DEF Inv, TypeOK
<1>4. Told'
  BY <1>1 DEF Inv, Told, Untold, At, Busy, Event, Now
<1>5. ListTold'
  BY <1>1 DEF Inv, ListTold, Untold, At, Busy
<1> QED BY <1>3, <1>4, <1>5 DEF Inv

LEMMA ListSteps ==
  ASSUME Inv, NEW f \in fetches, Deliver(f) \/ FetchFails(f)
  PROVE  Inv'
<1>1. UNCHANGED <<row, deleted, lock, want, crossed, dirty, members, req, fires, shown, started>>
  BY DEF Deliver, FetchMembers, SendMembers, FetchFails, message, list, told
<1>2. f \in Fetch /\ members \in SUBSET People
  BY DEF Inv, TypeOK
<1>3. Told'
  BY <1>1 DEF Inv, Told, Untold, At, Busy, Event, Now
<1>4. CASE FetchMembers(f)
  <2> DEFINE g == [f EXCEPT !.has = TRUE, !.list = members]
  <2>1. fetches' = (fetches \ {f}) \cup {g} /\ UNCHANGED <<dirtyMembers, shownMembers>>
    BY <1>4 DEF FetchMembers, list, told
  <2>2. g \in Fetch /\ g.list = members
    BY <1>2 DEF Fetch
  <2> HIDE DEF g
  <2>3. fetches' \in SUBSET Fetch
    BY <2>1, <2>2 DEF Inv, TypeOK
  <2>4. TypeOK' /\ Control' /\ Locked' /\ Kept'
    BY <1>1, <2>1, <2>3, TaskSteps DEF Inv, TypeOK
  <2>5. ListTold'
    BY <1>1, <2>1, <2>2 DEF Inv, ListTold
  <2> QED BY <1>3, <2>4, <2>5 DEF Inv
<1>5. CASE SendMembers(f)
  <2>1. fetches' = fetches \ {f} /\ f.has /\ shownMembers' = f.list /\ UNCHANGED dirtyMembers
    BY <1>5 DEF SendMembers, list
  <2>2. f.list \in SUBSET People
    BY <1>2 DEF Fetch
  <2>3. TypeOK' /\ Control' /\ Locked' /\ Kept'
    BY <1>1, <2>1, <2>2, TaskSteps DEF Inv, TypeOK
  <2>4. ListTold'
    BY <1>1, <2>1 DEF Inv, ListTold
  <2> QED BY <1>3, <2>3, <2>4 DEF Inv
<1>6. CASE FetchFails(f)
  <2>1. fetches' = fetches \ {f} /\ dirtyMembers' = TRUE /\ UNCHANGED shownMembers
    BY <1>6 DEF FetchFails, told
  <2>2. TypeOK' /\ Control' /\ Locked' /\ Kept'
    BY <1>1, <2>1, TaskSteps DEF Inv, TypeOK
  <2>3. ListTold'
    BY <2>1 DEF ListTold
  <2> QED BY <1>3, <2>2, <2>3 DEF Inv
<1> QED BY <1>4, <1>5, <1>6 DEF Deliver

LEMMA StepInv == Inv /\ [Next]_vars => Inv'
<1> SUFFICES ASSUME Inv, [Next]_vars PROVE Inv'
  OBVIOUS
<1>1. ASSUME NEW r \in Reqs, Start(r) PROVE Inv'
  BY <1>1, StartStep
<1>2. ASSUME NEW r \in Reqs, Handle(r) PROVE Inv'
  BY <1>2, SeeStep, UpdateStep, CommitStep, ToggleStep, DeleteStep, ChangeStep, FireStep
     DEF Handle
<1>3. ASSUME NEW r \in Reqs, Drop(r) PROVE Inv'
  BY <1>3, DropStep
<1>4. ASSUME NEW e \in fires, Broadcast(e) PROVE Inv'
  BY <1>4, BroadcastStep
<1>5. ASSUME NEW f \in fetches, Deliver(f) \/ FetchFails(f) PROVE Inv'
  BY <1>5, ListSteps
<1>6. CASE UNCHANGED vars
  <2>1. UNCHANGED <<row, deleted, lock, want, crossed, dirty, members, req, started, fires,
                    fetches, shown, shownMembers, dirtyMembers>>
    BY <1>6 DEF vars
  <2>2. TypeOK' /\ Control' /\ Locked' /\ Kept'
    BY <2>1, TaskSteps DEF Inv, TypeOK
  <2>3. Told' /\ ListTold'
    BY <2>1 DEF Inv, Told, ListTold, Untold, At, Busy, Event, Now
  <2> QED BY <2>2, <2>3 DEF Inv
<1> QED BY <1>1, <1>2, <1>3, <1>4, <1>5, <1>6 DEF Next

LEMMA Invariance == Spec => []Inv
BY InitInv, StepInv, PTL DEF Spec

-----------------------------------------------------------------------------
\* The variables keep their types, whichever handlers run and whoever hangs up.
THEOREM TypeCorrect == Spec => []TypeOK
<1>1. Inv => TypeOK
  BY DEF Inv
<1> QED BY Invariance, <1>1, PTL

\* edit, move_between and toggle_fold of one message: none undoes the change of
\* another, but for two toggles that read the same value.
THEOREM ChangesKept == Spec => []NothingLost
<1>1. Inv => NothingLost
  BY DEF Inv, Kept, NothingLost
<1> QED BY Invariance, <1>1, PTL

\* The last event of the message says what is stored, unless events crossed or the
\* change was not told.
THEOREM MessageTold == Spec => []ShownIsCurrent
<1>1. Inv => ShownIsCurrent
  BY DEF Inv, Told, ShownIsCurrent, Untold
<1> QED BY Invariance, <1>1, PTL

\* The last member list sent is the one in the tables, unless an older list was on
\* its way or a push was lost.
THEOREM MembersTold == Spec => []MembersCurrent
<1>1. Inv => MembersCurrent
  BY DEF Inv, ListTold, MembersCurrent
<1> QED BY Invariance, <1>1, PTL
=============================================================================

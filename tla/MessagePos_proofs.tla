-------------------------- MODULE MessagePos_proofs --------------------------
(***************************************************************************)
(* Theorems about MessagePos, for every set of requests, ids and texts and *)
(* every bound: its types, that a message is not stored twice, and what    *)
(* the numbers it hands out keep to.                                       *)
(***************************************************************************)
EXTENDS MessagePos, MaxFacts

\* What a request has by the time it gets to a place in create that uses it.
Control ==
  \A r \in Reqs :
    /\ pc[r] \in {"get_pos", "pin", "unpin", "check_id"} => req[r].id # NoId
    /\ pc[r] \in {"pin", "insert", "check_id", "check_pos", "insert_again"}
         => req[r].pos # NoPos

\* A request works on the id its client sent, or it has given that id up because
\* the row under it would not be recognised.
RequestIds ==
  \A r \in Reqs :
    /\ req[r].id \in {NoId, req[r].origin}
    /\ req[r].origin # NoId /\ req[r].id = NoId
         => Unrecognised(req[r].origin, req[r].text)

\* The same of the rows that requests have left: a row is under the id its client
\* sent or that id is taken by a row that would not be recognised; and a text that
\* was never edited is the text that was sent.
RowIds ==
  \A i \in Stored :
    /\ i \in ClientIds => row[i].origin = i
    /\ row[i].origin \notin {NoId, i} => Unrecognised(row[i].origin, row[i].sent)
    /\ ~row[i].modified => row[i].text = row[i].sent

Inv == TypeOK /\ Control /\ RequestIds /\ RowIds

-----------------------------------------------------------------------------
(* Positions are natural numbers.                                          *)

LEMMA CeilType == \A p \in Nat : Ceil(p) \in Nat
BY DEF Ceil

\* The set of positions, or of their whole numbers, of some rows is finite.
LEMMA PositionsFinite ==
  ASSUME TypeOK, NEW S \in SUBSET Stored
  PROVE  /\ IsFiniteSet({row[i].pos : i \in S}) /\ {row[i].pos : i \in S} \subseteq Nat
         /\ IsFiniteSet({Ceil(row[i].pos) : i \in S})
         /\ {Ceil(row[i].pos) : i \in S} \subseteq Nat
<1>1. IsFiniteSet(S)
  BY IdsAssumption, FS_Subset DEF Stored
<1>2. \A i \in S : row[i].pos \in Nat
  BY DEF TypeOK, Stored, Row
<1>3. IsFiniteSet({row[i].pos : i \in S})
  <2> DEFINE T == {row[i].pos : i \in S}
             f == [i \in S |-> row[i].pos]
  <2>1. f \in Surjection(S, T)
    BY DEF Surjection
  <2> QED BY <1>1, <2>1, FS_Surjection
<1>4. IsFiniteSet({Ceil(row[i].pos) : i \in S})
  <2> DEFINE T == {Ceil(row[i].pos) : i \in S}
             f == [i \in S |-> Ceil(row[i].pos)]
  <2>1. f \in Surjection(S, T)
    BY DEF Surjection
  <2> QED BY <1>1, <2>1, FS_Surjection
<1>5. {Ceil(row[i].pos) : i \in S} \subseteq Nat
  BY <1>2, CeilType
<1> QED BY <1>2, <1>3, <1>4, <1>5

LEMMA MaxRowPosType ==
  ASSUME TypeOK
  PROVE  MaxRowPos \in Nat
<1>1. CASE Stored = {}
  BY <1>1, NumbersAssumption DEF MaxRowPos
<1>2. CASE Stored # {}
  <2> DEFINE T == {Ceil(row[i].pos) : i \in Stored}
  <2>1. IsFiniteSet(T) /\ T \subseteq Nat
    BY PositionsFinite
  <2>2. T # {}
    BY <1>2
  <2>3. MaxRowPos = Max(T)
    BY <1>2 DEF MaxRowPos
  <2>4. Max(T) \in T
    <3> HIDE DEF T
    <3>1. T \subseteq Int
      BY <2>1
    <3> QED BY <2>1, <2>2, <3>1, MaxIsGreatest
  <2> QED BY <2>1, <2>3, <2>4
<1> QED BY <1>1, <1>2

\* No row is below the maximum of the rows, rounded up.
LEMMA MaxRowPosAbove ==
  ASSUME TypeOK, NEW i \in Stored
  PROVE  row[i].pos <= Halves(MaxRowPos)
<1> DEFINE T == {Ceil(row[j].pos) : j \in Stored}
<1>1. IsFiniteSet(T) /\ T \subseteq Nat
  BY PositionsFinite
<1>2. MaxRowPos = Max(T) /\ Ceil(row[i].pos) \in T
  BY DEF MaxRowPos
<1>3. \A y \in T : y <= Max(T)
  <2> HIDE DEF T
  <2>1. T \subseteq Int /\ T # {}
    BY <1>1, <1>2
  <2> QED BY <1>1, <2>1, MaxIsGreatest
<1>4. Ceil(row[i].pos) <= MaxRowPos
  <2> HIDE DEF T
  <2> QED BY <1>2, <1>3
<1>5. row[i].pos \in Nat /\ MaxRowPos \in Nat
  BY MaxRowPosType DEF TypeOK, Stored, Row
<1> HIDE DEF T
<1> QED BY <1>4, <1>5 DEF Halves, Ceil

LEMMA NearestType ==
  ASSUME TypeOK, NEW p \in Nat
  PROVE  NearestAbove(p) \in Nat /\ NearestBelow(p) \in Nat
<1>1. NearestAbove(p) \in Nat
  <2> DEFINE A == {row[i].pos : i \in {j \in Stored : row[j].pos < p}}
  <2>1. IsFiniteSet(A) /\ A \subseteq Nat
    BY PositionsFinite
  <2>2. IsFiniteSet({0} \cup A)
    <3> HIDE DEF A
    <3>1. IsFiniteSet(A \cup {0})
      BY <2>1, FS_AddElement
    <3>2. A \cup {0} = {0} \cup A
      OBVIOUS
    <3> QED BY <3>1, <3>2
  <2>3. NearestAbove(p) = Max({0} \cup A)
    BY DEF NearestAbove
  <2> HIDE DEF A
  <2>4. {0} \cup A \subseteq Int
    BY <2>1
  <2>5. Max({0} \cup A) \in {0} \cup A
    BY <2>2, <2>4, MaxIsGreatest
  <2>6. {0} \cup A \subseteq Nat
    BY <2>1
  <2> QED BY <2>3, <2>5, <2>6, Zenon
<1>2. NearestBelow(p) \in Nat
  <2> DEFINE B == {row[i].pos : i \in {j \in Stored : row[j].pos > p}}
  <2>1. IsFiniteSet(B) /\ B \subseteq Nat
    BY PositionsFinite
  <2>2. NearestBelow(p) = IF B = {} THEN Halves(Ceil(p) + 2) ELSE Min(B)
    BY DEF NearestBelow
  <2>3. Halves(Ceil(p) + 2) \in Nat
    BY CeilType DEF Halves
  <2> HIDE DEF B
  <2>4. B # {} => Min(B) \in B
    <3>1. B \subseteq Int
      BY <2>1
    <3> QED BY <2>1, <3>1, MinIsLeast
  <2> QED BY <2>1, <2>2, <2>3, <2>4
<1> QED BY <1>1, <1>2

-----------------------------------------------------------------------------
(* Types.                                                                  *)

LEMMA TypeInit == Init => TypeOK /\ Control
<1> SUFFICES ASSUME Init PROVE TypeOK /\ Control
  OBVIOUS
<1>1. row \in [Ids -> Row \cup {NoRow}]
  <2>1. OldRow(DefaultPos + 2) \in Row
    BY NumbersAssumption DEF OldRow, Row, Placers, Halves
  <2> QED BY <2>1 DEF Init
<1>2. req \in [Reqs -> Request]
  BY DEF Init, IdleRequest, Request, Kinds, Placers
<1>3. pc \in [Reqs -> PCs]
  BY DEF Init, PCs
<1>4. maxPos \in Nat \cup {NoPos} /\ posKey \in [ClientIds -> Nat \cup {NoPos}]
  BY DEF Init
<1>5. handed \in SUBSET Nat /\ hadReset \in BOOLEAN /\ sends \in 0 .. MaxSends
  <2>1. sends \in 0 .. MaxSends
    BY NumbersAssumption DEF Init
  <2>2. handed = {} /\ hadReset = FALSE
    BY DEF Init
  <2> QED BY <2>1, <2>2
<1>6. TypeOK
  BY <1>1, <1>2, <1>3, <1>4, <1>5 DEF TypeOK
<1>7. Control
  BY DEF Init, Control
<1> QED BY <1>6, <1>7

\* A row is written only with the fields of a row.
LEMMA StoreType ==
  ASSUME TypeOK, NEW r \in Reqs, NEW i \in Ids, req[r].pos # NoPos, Store(r, i)
  PROVE  row' \in [Ids -> Row \cup {NoRow}]
<1>1. req[r] \in Request
  BY DEF TypeOK
<1>2. req[r].pos \in Nat
  BY <1>1 DEF Request
<1> DEFINE new == [origin |-> req[r].origin, sent |-> req[r].text, text |-> req[r].text,
            pos |-> req[r].pos, whisper |-> req[r].whisper, modified |-> FALSE,
            deleted |-> FALSE, by |-> req[r].by]
<1>3. new \in Row
  BY <1>1, <1>2 DEF Row, Request
<1>4. row' = [row EXCEPT ![i] = new]
  BY DEF Store
<1> HIDE DEF new
<1> QED BY <1>3, <1>4 DEF TypeOK

\* An arrival starts a request with the fields of one, at the place its fields ask for.
LEMMA SendType ==
  ASSUME TypeOK, Control, NEW r \in Reqs, Send(r)
  PROVE  TypeOK' /\ Control'
<1>1. PICK i \in ClientIds \cup {NoId}, t \in Texts, w \in Whispers,
          p \in RequestedPos \cup {NoPos} :
        /\ req' = [req EXCEPT ![r] =
                   [kind |-> "send", origin |-> i, id |-> i, text |-> t, whisper |-> w,
                    pos |-> p, by |-> IF p = NoPos THEN "alloc" ELSE "client", initial |-> 0,
                    retry |-> FALSE]]
        /\ Goto(r, IF p # NoPos THEN "insert"
                   ELSE IF i # NoId THEN "get_pos" ELSE "get_max")
  BY DEF Send
<1> DEFINE new == [kind |-> "send", origin |-> i, id |-> i, text |-> t, whisper |-> w,
                   pos |-> p, by |-> IF p = NoPos THEN "alloc" ELSE "client", initial |-> 0,
                   retry |-> FALSE]
<1>2. new \in Request
  <2>1. p \in Nat \cup {NoPos} /\ w \in BOOLEAN /\ t \in Texts \cup {Blank}
    BY NumbersAssumption, TextsAssumption
  <2>2. (IF p = NoPos THEN "alloc" ELSE "client") \in Placers
    BY DEF Placers
  <2> QED BY <2>1, <2>2 DEF Request, Kinds
<1>3. new.id = i /\ new.pos = p
  OBVIOUS
<1>4. req' = [req EXCEPT ![r] = new]
  BY <1>1
<1> HIDE DEF new
<1>5. req' \in [Reqs -> Request]
  BY <1>2, <1>4 DEF TypeOK
<1>6. pc' \in [Reqs -> PCs]
  BY <1>1 DEF Goto, TypeOK, PCs
<1>7. sends' \in 0 .. MaxSends
  BY NumbersAssumption DEF Send, TypeOK
<1>8. TypeOK'
  BY <1>5, <1>6, <1>7 DEF Send, TypeOK, redis
<1>9. Control'
  BY <1>1, <1>3, <1>4 DEF TypeOK, Control, Goto
<1> QED BY <1>8, <1>9

LEMMA PreviewType ==
  ASSUME TypeOK, Control, NEW r \in Reqs, Preview(r)
  PROVE  TypeOK' /\ Control'
<1>1. PICK i \in ClientIds :
        req' = [req EXCEPT ![r] =
                [kind |-> "preview", origin |-> i, id |-> i, text |-> Blank, whisper |-> FALSE,
                 pos |-> NoPos, by |-> "alloc", initial |-> 0, retry |-> FALSE]]
  BY DEF Preview
<1> DEFINE new == [kind |-> "preview", origin |-> i, id |-> i, text |-> Blank, whisper |-> FALSE,
                   pos |-> NoPos, by |-> "alloc", initial |-> 0, retry |-> FALSE]
<1>2. new \in Request
  BY DEF Request, Kinds, Placers
<1>3. new.id = i
  OBVIOUS
<1>4. req' = [req EXCEPT ![r] = new]
  BY <1>1
<1> HIDE DEF new
<1>5. req' \in [Reqs -> Request]
  BY <1>2, <1>4 DEF TypeOK
<1>6. pc' \in [Reqs -> PCs]
  BY DEF Preview, Goto, TypeOK, PCs
<1>7. sends' \in 0 .. MaxSends
  BY NumbersAssumption DEF Preview, TypeOK
<1>8. TypeOK'
  BY <1>5, <1>6, <1>7 DEF Preview, TypeOK, redis
<1>9. Control'
  BY <1>3, <1>4, IdsAssumption DEF Preview, TypeOK, Control, Goto, Ids
<1> QED BY <1>8, <1>9

LEMMA IncrementedType ==
  ASSUME TypeOK
  PROVE  Incremented \in Nat /\ Halves(Incremented) \in Nat
BY DEF TypeOK, Incremented, Halves, NoPos

LEMMA AllocType ==
  ASSUME TypeOK, Control, NEW r \in Reqs,
         GetPos(r) \/ GetMax(r) \/ ReadMax(r) \/ SetNx(r) \/ Incr(r) \/ Pin(r)
  PROVE  TypeOK' /\ Control'
<1> USE DEF Goto
<1>0. req[r] \in Request /\ AfterPos(r) \in {"previewed", "insert_again", "insert"}
  BY DEF TypeOK, AfterPos
<1>1. CASE GetPos(r)
  <2>1. req[r].id \in ClientIds
    BY <1>0, <1>1 DEF GetPos, Control, Request
  <2>2. posKey[req[r].id] # NoPos => Halves(posKey[req[r].id]) \in Nat
    BY <2>1 DEF TypeOK, Halves
  <2>3. TypeOK'
    BY <1>0, <1>1, <2>2 DEF GetPos, TypeOK, Request, PCs, redis, ghosts
  <2>4. Control'
    <3>1. \A q \in Reqs \ {r} : req'[q] = req[q] /\ pc'[q] = pc[q]
      BY <1>1 DEF GetPos, TypeOK
    <3>2. pc'[r] = "get_max" \/ (pc'[r] = AfterPos(r) /\ req'[r].pos # NoPos)
      BY <1>1, <2>2 DEF GetPos, TypeOK, Request, NoPos
    <3> QED BY <1>0, <3>1, <3>2 DEF Control
  <2> QED BY <2>3, <2>4
<1>2. CASE GetMax(r)
  BY <1>2 DEF GetMax, TypeOK, Control, PCs, redis, ghosts
<1>3. CASE ReadMax(r)
  BY <1>0, <1>3, MaxRowPosType DEF ReadMax, TypeOK, Control, PCs, Request, redis, ghosts
<1>4. CASE SetNx(r)
  BY <1>0, <1>4 DEF SetNx, TypeOK, Control, PCs, Request, ghosts
<1>5. CASE Incr(r)
  <2>1. TypeOK'
    BY <1>0, <1>5, IncrementedType DEF Incr, TypeOK, PCs, Request
  <2>2. Control'
    <3>1. \A q \in Reqs \ {r} : req'[q] = req[q] /\ pc'[q] = pc[q]
      BY <1>5 DEF Incr, TypeOK
    <3>2. req'[r].pos # NoPos /\ req'[r].id = req[r].id
      BY <1>0, <1>5, IncrementedType DEF Incr, TypeOK, Request, NoPos
    <3>3. (pc'[r] = "pin" /\ req[r].id # NoId) \/ pc'[r] = AfterPos(r)
      BY <1>5 DEF Incr, TypeOK
    <3> QED BY <1>0, <3>1, <3>2, <3>3 DEF Control
  <2> QED BY <2>1, <2>2
<1>6. CASE Pin(r)
  <2>1. req[r].pos \in Nat /\ req[r].pos \div 2 \in Nat
    BY <1>0, <1>6 DEF Pin, Control, Request
  <2>2. TypeOK'
    BY <1>0, <1>6, <2>1 DEF Pin, TypeOK, PCs, ghosts
  <2>3. Control'
    BY <1>0, <1>6, <2>1 DEF Pin, TypeOK, Control
  <2> QED BY <2>2, <2>3
<1> QED BY <1>1, <1>2, <1>3, <1>4, <1>5, <1>6

LEMMA ReturnType ==
  ASSUME TypeOK, Control, NEW r \in Reqs, Return(r)
  PROVE  /\ pc' \in [Reqs -> PCs] /\ req' \in [Reqs -> Request]
         /\ Control'
<1>1. IdleRequest \in Request
  BY DEF IdleRequest, Request, Kinds, Placers
<1> QED BY <1>1 DEF Return, TypeOK, Control, PCs

LEMMA InsertRowType ==
  ASSUME TypeOK, Control, NEW r \in Reqs, pc[r] \in {"insert", "insert_again"}, InsertRow(r)
  PROVE  row' \in [Ids -> Row \cup {NoRow}]
<1>1. PICK i \in IF req[r].id = NoId THEN FreshIds ELSE {req[r].id} : Store(r, i)
  BY DEF InsertRow
<1>2. i \in Ids
  BY <1>1 DEF TypeOK, Request, Ids
<1>3. req[r].pos # NoPos
  BY DEF Control
<1> QED BY <1>1, <1>2, <1>3, StoreType

LEMMA CreateType ==
  ASSUME TypeOK, Control, NEW r \in Reqs,
         \/ PreviewEnd(r) \/ Insert(r) \/ CheckId(r) \/ CheckPos(r) \/ Reset(r)
         \/ Unpin(r) \/ InsertAgain(r) \/ Finish(r) \/ Drop(r)
  PROVE  TypeOK' /\ Control'
<1> USE DEF Goto
<1>0. req[r] \in Request
  BY DEF TypeOK
<1>1. CASE PreviewEnd(r)
  <2>1. posKey' \in [ClientIds -> Nat \cup {NoPos}]
    BY <1>1 DEF PreviewEnd, TypeOK
  <2> QED BY <1>1, <2>1, ReturnType DEF PreviewEnd, TypeOK, ghosts
<1>2. CASE Insert(r)
  <2>1. row' \in [Ids -> Row \cup {NoRow}]
    BY <1>2, InsertRowType DEF Insert, TypeOK
  <2>2. pc' \in [Reqs -> PCs]
    BY <1>2 DEF Insert, InsertRow, TypeOK, PCs
  <2>3. TypeOK'
    BY <1>2, <2>1, <2>2 DEF Insert, TypeOK, redis, ghosts
  <2>4. Control'
    BY <1>2 DEF Insert, InsertRow, Control, TypeOK
  <2> QED BY <2>3, <2>4
<1>3. CASE CheckId(r)
  <2>1. pc' \in [Reqs -> PCs]
    BY <1>3 DEF CheckId, TypeOK, PCs
  <2>2. req' \in [Reqs -> Request]
    BY <1>0, <1>3 DEF CheckId, TypeOK, Request
  <2>3. TypeOK'
    BY <1>3, <2>1, <2>2 DEF CheckId, TypeOK, redis, ghosts
  <2>4. \A q \in Reqs \ {r} : req'[q] = req[q] /\ pc'[q] = pc[q]
    BY <1>3 DEF CheckId, TypeOK
  <2>5. pc'[r] \in {"duplicate", "check_pos"} /\ req'[r].pos = req[r].pos
    BY <1>3 DEF CheckId, TypeOK, Request
  <2>6. req[r].pos # NoPos
    BY <1>3 DEF CheckId, Control
  <2> QED BY <2>3, <2>4, <2>5, <2>6 DEF Control
<1>4. CASE CheckPos(r)
  BY <1>4 DEF CheckPos, TypeOK, Control, PCs, redis, ghosts
<1>5. CASE Reset(r)
  <2>1. TypeOK'
    <3>1. req' \in [Reqs -> Request]
      BY <1>0, <1>5 DEF Reset, TypeOK, Request, Placers
    <3>2. pc' \in [Reqs -> PCs]
      BY <1>5 DEF Reset, TypeOK, PCs
    <3>3. handed' \in SUBSET Nat /\ hadReset' \in BOOLEAN /\ maxPos' \in Nat \cup {NoPos}
      <4>1. handed' = {} /\ hadReset' = TRUE /\ maxPos' = NoPos
        BY <1>5 DEF Reset
      <4> QED BY <4>1
    <3> QED BY <1>5, <3>1, <3>2, <3>3 DEF Reset, TypeOK
  <2>2. Control'
    BY <1>0, <1>5 DEF Reset, TypeOK, Control, Request
  <2> QED BY <2>1, <2>2
<1>6. CASE Unpin(r)
  BY <1>6 DEF Unpin, TypeOK, Control, PCs, ghosts
<1>7. CASE InsertAgain(r)
  <2>1. row' \in [Ids -> Row \cup {NoRow}]
    BY <1>7, InsertRowType DEF InsertAgain, TypeOK
  <2>2. pc' \in [Reqs -> PCs]
    BY <1>7 DEF InsertAgain, InsertRow, TypeOK, PCs
  <2>3. TypeOK'
    BY <1>7, <2>1, <2>2 DEF InsertAgain, TypeOK, redis, ghosts
  <2>4. Control'
    BY <1>7 DEF InsertAgain, InsertRow, Control, TypeOK
  <2> QED BY <2>3, <2>4
<1>8. CASE Finish(r)
  <2>1. posKey' \in [ClientIds -> Nat \cup {NoPos}]
    BY <1>8 DEF Finish, TypeOK
  <2> QED BY <1>8, <2>1, ReturnType DEF Finish, TypeOK, ghosts
<1>9. CASE Drop(r)
  BY <1>9, ReturnType DEF Drop, TypeOK, redis, ghosts
<1> QED BY <1>1, <1>2, <1>3, <1>4, <1>5, <1>6, <1>7, <1>8, <1>9

\* A delete, an edit or a move sets one field or two of one row that is there.
LEMMA TouchOne ==
  ASSUME TypeOK, NEW i \in Ids, Touch(i)
  PROVE  \E new \in Row :
           /\ row' = [row EXCEPT ![i] = new]
           /\ row[i] \in Row
           /\ new.origin = row[i].origin /\ new.sent = row[i].sent
           /\ new.whisper = row[i].whisper
           /\ \/ new.modified
              \/ new.modified = row[i].modified /\ new.text = row[i].text
           /\ new.by = "move" \/ (new.by = row[i].by /\ new.pos = row[i].pos)
<1>1. row[i] \in Row
  BY NoRowAssumption
     DEF Touch, Delete, Edit, MoveBetween, MoveAbove, MoveBottom, Place, Visible, Stored,
         TypeOK
<1>2. CASE Delete(i)
  <2> DEFINE new == [row[i] EXCEPT !.deleted = TRUE]
  <2>5. /\ new \in Row
        /\ new.origin = row[i].origin /\ new.sent = row[i].sent
        /\ new.whisper = row[i].whisper
        /\ \/ new.modified
           \/ new.modified = row[i].modified /\ new.text = row[i].text
        /\ new.by = "move" \/ (new.by = row[i].by /\ new.pos = row[i].pos)
    BY <1>1, <1>2 DEF Row
  <2>6. row' = [row EXCEPT ![i] = new]
    BY <1>1, <1>2 DEF TypeOK, Delete
  <2> HIDE DEF new
  <2> QED BY <1>1, <2>5, <2>6
<1>3. CASE Edit(i)
  <2>1. PICK t \in EditTexts : row' = [row EXCEPT ![i].text = t, ![i].modified = TRUE]
    BY <1>3 DEF Edit
  <2>2. t \in Texts \cup {Blank}
    BY TextsAssumption
  <2> DEFINE new == [row[i] EXCEPT !.text = t, !.modified = TRUE]
  <2>5. /\ new \in Row
        /\ new.origin = row[i].origin /\ new.sent = row[i].sent
        /\ new.whisper = row[i].whisper
        /\ \/ new.modified
           \/ new.modified = row[i].modified /\ new.text = row[i].text
        /\ new.by = "move" \/ (new.by = row[i].by /\ new.pos = row[i].pos)
    BY <1>1, <2>1, <2>2 DEF Row
  <2>6. row' = [row EXCEPT ![i] = new]
    BY <1>1, <2>1, <2>2 DEF TypeOK, Delete
  <2> HIDE DEF new
  <2> QED BY <1>1, <2>5, <2>6
<1>4. ASSUME NEW lo \in Nat, NEW hi \in Nat, Place(i, lo, hi)
      PROVE  \E p \in Nat : row' = [row EXCEPT ![i].pos = p, ![i].by = "move"]
  <2>1. PICK p \in (lo + 1) .. (hi - 1) :
          row' = [row EXCEPT ![i].pos = p, ![i].by = "move"]
    BY <1>4 DEF Place
  <2>2. p \in Nat
    OBVIOUS
  <2> QED BY <2>1, <2>2
<1>5. CASE MoveBetween(i) \/ MoveAbove(i) \/ MoveBottom(i)
  <2>1. PICK p \in Nat : row' = [row EXCEPT ![i].pos = p, ![i].by = "move"]
    <3>1. CASE MoveBetween(i)
      BY <1>4, <3>1, NumbersAssumption DEF MoveBetween
    <3>2. CASE MoveAbove(i)
      BY <1>4, <3>2, NumbersAssumption, NearestType DEF MoveAbove
    <3>3. CASE MoveBottom(i)
      BY <1>4, <3>3, NumbersAssumption, NearestType DEF MoveBottom
    <3> QED BY <1>5, <3>1, <3>2, <3>3
  <2> DEFINE new == [row[i] EXCEPT !.pos = p, !.by = "move"]
  <2>5. /\ new \in Row
        /\ new.origin = row[i].origin /\ new.sent = row[i].sent
        /\ new.whisper = row[i].whisper
        /\ \/ new.modified
           \/ new.modified = row[i].modified /\ new.text = row[i].text
        /\ new.by = "move" \/ (new.by = row[i].by /\ new.pos = row[i].pos)
    BY <1>1, <2>1 DEF Row, Placers
  <2>6. row' = [row EXCEPT ![i] = new]
    BY <1>1, <2>1 DEF TypeOK, Delete
  <2> HIDE DEF new
  <2> QED BY <1>1, <2>5, <2>6
<1> QED BY <1>2, <1>3, <1>5 DEF Touch

LEMMA TouchType ==
  ASSUME TypeOK, Control, NEW i \in Ids, Touch(i)
  PROVE  TypeOK' /\ Control'
<1>1. UNCHANGED <<redis, pc, req, ghosts>>
  BY DEF Touch, Delete, Edit, MoveBetween, MoveAbove, MoveBottom, Place
<1>2. row' \in [Ids -> Row \cup {NoRow}]
  BY TouchOne DEF TypeOK
<1>3. TypeOK'
  BY <1>1, <1>2 DEF TypeOK, redis, ghosts
<1>4. Control'
  BY <1>1 DEF Control
<1> QED BY <1>3, <1>4

LEMMA TypeStep == TypeOK /\ Control /\ [Next]_vars => TypeOK' /\ Control'
<1> SUFFICES ASSUME TypeOK, Control, [Next]_vars PROVE TypeOK' /\ Control'
  OBVIOUS
<1>1. ASSUME NEW r \in Reqs, Step(r) PROVE TypeOK' /\ Control'
  BY <1>1, SendType, PreviewType, AllocType, CreateType DEF Step
<1>2. ASSUME NEW i \in Ids, Touch(i) PROVE TypeOK' /\ Control'
  BY <1>2, TouchType
<1>3. ASSUME NEW i \in ClientIds, Expire(i) PROVE TypeOK' /\ Control'
  BY <1>3 DEF Expire, TypeOK, Control, ghosts
<1>4. CASE UNCHANGED vars
  BY <1>4 DEF vars, redis, ghosts, TypeOK, Control
<1> QED BY <1>1, <1>2, <1>3, <1>4 DEF Next

\* Positions stay natural numbers, and every local variable keeps its type, for all
\* interleavings of sends, previews, moves, edits and deletes.
THEOREM TypeCorrect == Spec => []TypeOK
<1>1. Init => TypeOK /\ Control
  BY TypeInit
<1>2. TypeOK /\ Control /\ [Next]_vars => (TypeOK /\ Control)'
  BY TypeStep
<1> QED BY <1>1, <1>2, PTL DEF Spec

-----------------------------------------------------------------------------
(* A message is not stored twice.                                          *)

\* Rows are never removed, and what they record of the send never changes.
RowKept(i) ==
  /\ row'[i] # NoRow
  /\ row'[i].origin = row[i].origin /\ row'[i].sent = row[i].sent
  /\ row'[i].whisper = row[i].whisper
  /\ row[i].modified => row'[i].modified

LEMMA InsertKeeps ==
  ASSUME TypeOK, NEW r \in Reqs, InsertRow(r)
  PROVE  \A i \in Stored : row'[i] = row[i]
BY DEF InsertRow, Store, Stored, TypeOK

LEMMA TouchKeeps ==
  ASSUME TypeOK, NEW i \in Ids, Touch(i)
  PROVE  /\ \A j \in Ids \ {i} : row'[j] = row[j]
         /\ i \in Stored /\ RowKept(i)
         /\ \/ row'[i].modified
            \/ row'[i].modified = row[i].modified /\ row'[i].text = row[i].text
         /\ row'[i].by = "move" \/ (row'[i].by = row[i].by /\ row'[i].pos = row[i].pos)
<1>1. PICK new \in Row :
        /\ row' = [row EXCEPT ![i] = new]
        /\ row[i] \in Row
        /\ new.origin = row[i].origin /\ new.sent = row[i].sent
        /\ new.whisper = row[i].whisper
        /\ \/ new.modified
           \/ new.modified = row[i].modified /\ new.text = row[i].text
        /\ new.by = "move" \/ (new.by = row[i].by /\ new.pos = row[i].pos)
  BY TouchOne
<1>2. row'[i] = new /\ \A j \in Ids \ {i} : row'[j] = row[j]
  BY <1>1 DEF TypeOK
<1> QED BY <1>1, <1>2, NoRowAssumption DEF RowKept, Stored

\* Every other step leaves all rows alone.
RowsSame == row' = row

LEMMA StepKeeps ==
  ASSUME TypeOK, [Next]_vars
  PROVE  \A i \in Stored : RowKept(i)
<1>1. ASSUME NEW r \in Reqs, Step(r) PROVE RowsSame \/ InsertRow(r)
  BY <1>1 DEF Step, Send, Preview, GetPos, GetMax, ReadMax, SetNx, Incr, Pin, PreviewEnd,
              Insert, CheckId, CheckPos, Reset, Unpin, InsertAgain, Finish, Drop, RowsSame
<1>2. ASSUME NEW i \in ClientIds, Expire(i) PROVE RowsSame
  BY <1>2 DEF Expire, RowsSame
<1>3. CASE RowsSame
  BY <1>3 DEF RowsSame, RowKept, Stored
<1>4. ASSUME NEW r \in Reqs, InsertRow(r) PROVE \A i \in Stored : RowKept(i)
  BY <1>4, InsertKeeps DEF RowKept, Stored
<1>5. ASSUME NEW j \in Ids, Touch(j) PROVE \A i \in Stored : RowKept(i)
  BY <1>5, TouchKeeps DEF RowKept, Stored
<1>6. CASE UNCHANGED vars
  BY <1>3, <1>6 DEF vars, RowsSame
<1> QED BY <1>1, <1>2, <1>3, <1>4, <1>5, <1>6 DEF Next

\* What create cannot recognise it will never recognise.
LEMMA UnrecognisedKept ==
  ASSUME TypeOK, [Next]_vars, NEW o \in Ids, NEW t, Unrecognised(o, t)
  PROVE  Unrecognised(o, t)'
<1>1. o \in Stored
  BY DEF Unrecognised, Stored
<1>2. RowKept(o)
  BY <1>1, StepKeeps
<1> QED BY <1>2 DEF Unrecognised, RowKept

\* A request that only moves on, with what it is about unchanged.
SameRequest(r) ==
  req'[r].id = req[r].id /\ req'[r].origin = req[r].origin /\ req'[r].text = req[r].text

\* A request that gives its id up, in CheckId.
GivesUp(r) ==
  /\ pc[r] = "check_id" /\ Visible(req[r].id) /\ ShownText(req[r].id) # req[r].text
  /\ req'[r].id = NoId /\ req'[r].origin = req[r].origin /\ req'[r].text = req[r].text

\* The ways a request's id and text may change.
LEMMA StepRequest ==
  ASSUME TypeOK, NEW r \in Reqs, Step(r)
  PROVE  /\ \A q \in Reqs \ {r} : req'[q] = req[q]
         /\ SameRequest(r) \/ GivesUp(r) \/ req'[r].id = req'[r].origin
<1>0. req[r] \in Request
  BY DEF TypeOK
<1>1. CASE Send(r) \/ Preview(r)
  BY <1>1 DEF Send, Preview, TypeOK
<1>2. CASE \/ GetMax(r) \/ SetNx(r) \/ Pin(r) \/ Insert(r) \/ CheckPos(r) \/ Unpin(r)
           \/ InsertAgain(r)
  BY <1>2 DEF GetMax, SetNx, Pin, Insert, CheckPos, Unpin, InsertAgain, SameRequest
<1>3. CASE GetPos(r) \/ ReadMax(r) \/ Incr(r) \/ Reset(r)
  BY <1>0, <1>3 DEF GetPos, ReadMax, Incr, Reset, SameRequest, TypeOK, Request
<1>4. CASE CheckId(r)
  BY <1>0, <1>4 DEF CheckId, GivesUp, SameRequest, TypeOK, Request
<1>5. CASE PreviewEnd(r) \/ Finish(r) \/ Drop(r)
  BY <1>5 DEF PreviewEnd, Finish, Drop, Return, IdleRequest, TypeOK
<1> QED BY <1>1, <1>2, <1>3, <1>4, <1>5 DEF Step

LEMMA RequestIdsStep ==
  ASSUME Inv, [Next]_vars
  PROVE  RequestIds'
<1> USE DEF Inv
<1> DEFINE Fine(r) == /\ req[r].id \in {NoId, req[r].origin}
                      /\ req[r].origin # NoId /\ req[r].id = NoId
                           => Unrecognised(req[r].origin, req[r].text)
<1>1. ASSUME NEW r \in Reqs, SameRequest(r)
      PROVE  Fine(r)'
  <2>1. req[r].origin # NoId => req[r].origin \in Ids
    BY DEF TypeOK, Request, Ids
  <2> QED BY <1>1, <2>1, UnrecognisedKept DEF RequestIds, SameRequest, Unrecognised
<1>2. ASSUME NEW r \in Reqs, GivesUp(r)
      PROVE  Fine(r)'
  <2> DEFINE i == req[r].id
  <2>1. i \in Ids /\ i = req[r].origin
    BY <1>2 DEF GivesUp, Control, RequestIds, TypeOK, Request, Ids
  <2>2. i \in Stored
    BY <1>2, <2>1 DEF GivesUp, Visible, Stored
  <2>3. Unrecognised(i, req[r].text)
    BY <1>2, <2>2 DEF GivesUp, ShownText, RowIds, Unrecognised, Stored
  <2>4. PICK o \in Ids, t \in {req[r].text} : o = i /\ t = req[r].text
    BY <2>1
  <2>5. Unrecognised(o, t)'
    BY <2>3, <2>4, UnrecognisedKept
  <2>6. req'[r].origin = o /\ req'[r].text = t /\ req'[r].id = NoId
    BY <1>2, <2>1, <2>4 DEF GivesUp
  <2> QED BY <2>5, <2>6 DEF Unrecognised
<1>3. ASSUME NEW r \in Reqs, req'[r].id = req'[r].origin
      PROVE  Fine(r)'
  BY <1>3
<1>4. ASSUME NEW r \in Reqs, Step(r) PROVE RequestIds'
  <2>1. \A q \in Reqs \ {r} : SameRequest(q)
    BY <1>4, StepRequest DEF SameRequest
  <2>2. Fine(r)'
    BY <1>1, <1>2, <1>3, <1>4, StepRequest
  <2> QED BY <1>1, <2>1, <2>2 DEF RequestIds
<1>5. CASE UNCHANGED req
  BY <1>1, <1>5 DEF RequestIds, SameRequest
<1>6. ASSUME NEW i \in Ids, Touch(i) PROVE UNCHANGED req
  BY <1>6 DEF Touch, Delete, Edit, MoveBetween, MoveAbove, MoveBottom, Place
<1>7. ASSUME NEW i \in ClientIds, Expire(i) PROVE UNCHANGED req
  BY <1>7 DEF Expire
<1> QED BY <1>4, <1>5, <1>6, <1>7 DEF Next, vars

\* What RowIds says of one row.
RowId(i) ==
  /\ i \in ClientIds => row[i].origin = i
  /\ row[i].origin \notin {NoId, i} => Unrecognised(row[i].origin, row[i].sent)
  /\ ~row[i].modified => row[i].text = row[i].sent

LEMMA RowIdsStep ==
  ASSUME Inv, [Next]_vars
  PROVE  RowIds'
<1> USE DEF Inv
<1>1. ASSUME NEW i \in Stored, RowKept(i),
             \/ row'[i].modified
             \/ row'[i].modified = row[i].modified /\ row'[i].text = row[i].text
      PROVE  RowId(i)'
  <2>1. RowId(i) /\ row[i] \in Row
    BY DEF RowIds, RowId, Stored, TypeOK
  <2>2. row[i].origin # NoId => row[i].origin \in Ids
    BY <2>1 DEF Row, Ids
  <2>3. \A o \in Ids : \A t : Unrecognised(o, t) => Unrecognised(o, t)'
    BY UnrecognisedKept
  <2> QED BY <1>1, <2>1, <2>2, <2>3 DEF RowId, RowKept, Unrecognised
<1>2. CASE RowsSame
  BY <1>2 DEF RowsSame, RowIds, Stored, Unrecognised
<1>3. ASSUME NEW r \in Reqs, InsertRow(r) PROVE RowIds'
  <2>1. PICK i \in IF req[r].id = NoId THEN FreshIds ELSE {req[r].id} :
          row[i] = NoRow /\ Store(r, i)
    BY <1>3 DEF InsertRow
  <2>2. i \in Ids /\ req[r] \in Request
    BY <2>1 DEF TypeOK, Request, Ids
  <2>3. /\ row'[i].origin = req[r].origin /\ row'[i].sent = req[r].text
        /\ row'[i].text = req[r].text /\ ~row'[i].modified
    BY <2>1, <2>2 DEF Store, TypeOK
  <2>4. \A j \in Ids \ {i} : row'[j] = row[j]
    BY <2>1 DEF Store, TypeOK
  <2>5. i \in ClientIds => req[r].origin = i
    BY <2>1, IdsAssumption DEF RequestIds
  <2>6. req[r].origin \notin {NoId, i} => Unrecognised(req[r].origin, req[r].text)
    BY <2>1, <2>5 DEF RequestIds
  <2>7. req[r].origin # NoId => req[r].origin \in Ids
    BY <2>2 DEF Request, Ids
  <2>8. \A o \in Ids : \A t : Unrecognised(o, t) => Unrecognised(o, t)'
    BY UnrecognisedKept
  <2>9. RowId(i)'
    BY <2>3, <2>5, <2>6, <2>7, <2>8 DEF RowId, Unrecognised
  <2>10. ASSUME NEW j \in Stored PROVE RowId(j)'
    BY <1>1, <2>1, <2>4, <2>10, StepKeeps DEF Stored
  <2>11. Stored' \subseteq Stored \cup {i}
    BY <2>4 DEF Stored
  <2> QED BY <2>9, <2>10, <2>11 DEF RowIds, RowId
<1>4. ASSUME NEW i \in Ids, Touch(i) PROVE RowIds'
  <2>1. ASSUME NEW j \in Stored PROVE RowId(j)'
    BY <1>1, <1>4, <2>1, TouchKeeps, StepKeeps DEF Stored
  <2>2. Stored' \subseteq Stored
    BY <1>4, TouchKeeps DEF Stored
  <2> QED BY <2>1, <2>2 DEF RowIds, RowId
<1>5. ASSUME NEW r \in Reqs, Step(r) PROVE RowsSame \/ InsertRow(r)
  BY <1>5 DEF Step, Send, Preview, GetPos, GetMax, ReadMax, SetNx, Incr, Pin, PreviewEnd,
              Insert, CheckId, CheckPos, Reset, Unpin, InsertAgain, Finish, Drop, RowsSame
<1>6. ASSUME NEW i \in ClientIds, Expire(i) PROVE RowsSame
  BY <1>6 DEF Expire, RowsSame
<1>7. CASE UNCHANGED vars
  BY <1>2, <1>7 DEF vars, RowsSame
<1> QED BY <1>2, <1>3, <1>4, <1>5, <1>6, <1>7 DEF Next

\* Two rows of one id and text: at least one of them is not under that id, and it was
\* put elsewhere because the row under the id is not recognised.
LEMMA InvImpliesNoDuplicate == Inv => NoDuplicate
BY DEF Inv, RowIds, NoDuplicate, Unrecognised

\* However sends of one message are repeated, dropped half way and interleaved, with
\* each other and with edits, moves, deletes and expiring pins, two rows hold it only
\* if create could not recognise the first.
THEOREM StoredOnce == Spec => []NoDuplicate
<1>1. Init => Inv
  <2>1. Init => RequestIds /\ RowIds
    BY IdsAssumption DEF Init, RequestIds, RowIds, Stored, IdleRequest, OldRow, Ids
  <2> QED BY <2>1, TypeInit DEF Inv
<1>2. Inv /\ [Next]_vars => Inv'
  <2> SUFFICES ASSUME Inv, [Next]_vars PROVE Inv'
    OBVIOUS
  <2>1. TypeOK' /\ Control'
    BY TypeStep DEF Inv
  <2> QED BY <2>1, RequestIdsStep, RowIdsStep DEF Inv
<1> QED BY <1>1, <1>2, InvImpliesNoDuplicate, PTL DEF Spec

-----------------------------------------------------------------------------
(* The numbers handed out: none twice between two resets, and each below   *)
(* every message placed before it until a conflict resets the counter.     *)

\* What was handed out since the key was last deleted is at most what the key holds.
Counted == IF maxPos = NoPos THEN handed = {} ELSE \A n \in handed : n <= maxPos

\* A request inside pos() is there for a position of the allocator.
Asks ==
  \A r \in Reqs :
    pc[r] \in {"get_pos", "get_max", "read_max", "set_nx", "incr", "pin", "unpin"}
      => req[r].by = "alloc"

\* Before any reset: an allocated position, in a row, in a request or pinned, is at
\* most what the key holds; while there is no key there is none, except in the rows
\* that were there before, and a request about to create the key has read their
\* maximum.
Allocated(i) == row[i] # NoRow /\ row[i].by = "alloc"
Waits(r) == req[r].by = "alloc" => req[r].pos = NoPos
Covers(n) == \A i \in Ids : Allocated(i) => row[i].pos <= Halves(n)

NoKey ==
  /\ \A i \in ClientIds : posKey[i] = NoPos
  /\ \A r \in Reqs : Waits(r) /\ pc[r] # "incr"
  /\ \A r \in Reqs : pc[r] = "set_nx" => Covers(req[r].initial)

KeyAbove ==
  /\ \A i \in ClientIds : posKey[i] <= maxPos
  /\ \A r \in Reqs : Waits(r) \/ req[r].by = "client" \/ req[r].pos <= Halves(maxPos)
  /\ Covers(maxPos)

Ordered == hadReset \/ IF maxPos = NoPos THEN NoKey ELSE KeyAbove

OrderInv == TypeOK /\ Control /\ Counted /\ Asks /\ Ordered

-----------------------------------------------------------------------------
(* No number is handed out twice.                                          *)

LEMMA CountedStep ==
  ASSUME TypeOK, Counted, [Next]_vars
  PROVE  Counted'
<1>1. CASE UNCHANGED <<maxPos, handed>>
  BY <1>1 DEF Counted
<1>2. ASSUME NEW r \in Reqs, SetNx(r) PROVE Counted'
  <2>1. req[r].initial \in Nat
    BY DEF TypeOK, Request
  <2> QED BY <1>2, <2>1 DEF SetNx, Counted, ghosts, NoPos
<1>3. ASSUME NEW r \in Reqs, Incr(r) PROVE Counted'
  <2>1. maxPos' = Incremented /\ handed' = handed \cup {Incremented}
    BY <1>3 DEF Incr
  <2>2. Incremented \in Nat /\ \A n \in handed : n \in Nat /\ n <= Incremented
    BY DEF TypeOK, Counted, Incremented, NoPos
  <2> QED BY <2>1, <2>2 DEF Counted, NoPos
<1>4. ASSUME NEW r \in Reqs, Reset(r) PROVE Counted'
  BY <1>4 DEF Reset, Counted
<1>5. ASSUME NEW r \in Reqs, Step(r) PROVE Counted'
  <2>1. SetNx(r) \/ Incr(r) \/ Reset(r) \/ UNCHANGED <<maxPos, handed>>
    BY <1>5 DEF Step, Send, Preview, GetPos, GetMax, ReadMax, Pin, PreviewEnd, Insert,
                CheckId, CheckPos, Unpin, InsertAgain, Finish, Drop, redis, ghosts
  <2> QED BY <1>1, <1>2, <1>3, <1>4, <2>1
<1>6. ASSUME NEW i \in Ids, Touch(i) PROVE UNCHANGED <<maxPos, handed>>
  BY <1>6 DEF Touch, Delete, Edit, MoveBetween, MoveAbove, MoveBottom, Place, redis, ghosts
<1>7. ASSUME NEW i \in ClientIds, Expire(i) PROVE UNCHANGED <<maxPos, handed>>
  BY <1>7 DEF Expire, ghosts
<1> QED BY <1>1, <1>5, <1>6, <1>7 DEF Next, vars

\* Of any number of requests that find no key and create it together, each gets a
\* number of its own.
THEOREM NumbersDiffer == Spec => NoDoubleIssue
<1> DEFINE I == TypeOK /\ Control /\ Counted
<1>1. Init => I
  BY TypeInit DEF Init, Counted
<1>2. I /\ [Next]_vars => I'
  BY TypeStep, CountedStep
<1>3. I => (\A r \in Reqs : Incr(r) => maxPos' \notin handed)
  <2> SUFFICES ASSUME I, NEW r \in Reqs, Incr(r) PROVE maxPos' \notin handed
    OBVIOUS
  <2>1. maxPos' = Incremented
    BY DEF Incr
  <2> QED BY <2>1 DEF TypeOK, Counted, Incremented, NoPos
<1>4. I /\ [Next]_vars => [\A r \in Reqs : Incr(r) => maxPos' \notin handed]_vars
  BY <1>3
<1> QED BY <1>1, <1>2, <1>4, PTL DEF Spec, NoDoubleIssue

-----------------------------------------------------------------------------
(* Until a reset, a new position is below every allocated one.             *)

\* A position that a step may write without looking at the key: one the key covers.
Covered(p) == maxPos # NoPos /\ p <= Halves(maxPos)

\* What every step but SetNx, Incr and Reset does to a pin, a request and a row.
QuietPin(i) ==
  posKey'[i] \in {posKey[i], NoPos} \/ (maxPos # NoPos /\ posKey'[i] <= maxPos)

QuietRequest(r) ==
  /\ \/ Waits(r)'
     \/ req'[r].by = "client"
     \/ req'[r].by = req[r].by /\ req'[r].pos = req[r].pos
     \/ Covered(req'[r].pos)
  /\ pc'[r] = "incr" => pc[r] = "incr" \/ maxPos # NoPos
  /\ pc'[r] = "set_nx" =>
       \/ pc[r] = "set_nx" /\ req'[r].initial = req[r].initial
       \/ Covers(req'[r].initial)

QuietRow(i) ==
  Allocated(i)' => \/ Allocated(i) /\ row'[i].pos = row[i].pos
                   \/ Covered(row'[i].pos)

Quiet ==
  /\ UNCHANGED <<maxPos, hadReset>>
  /\ \A i \in ClientIds : QuietPin(i)
  /\ \A r \in Reqs : QuietRequest(r)
  /\ \A i \in Ids : QuietRow(i)

LEMMA QuietOrdered ==
  ASSUME TypeOK, Ordered, Quiet
  PROVE  Ordered'
<1>1. CASE hadReset
  BY <1>1 DEF Quiet, Ordered
<1>2. CASE ~hadReset /\ maxPos = NoPos
  <2>1. NoKey
    BY <1>2 DEF Ordered
  <2>2. \A i \in ClientIds : posKey'[i] = NoPos
    BY <1>2, <2>1 DEF Quiet, QuietPin, NoKey
  <2>3. \A r \in Reqs : Waits(r)' /\ pc'[r] # "incr"
    BY <1>2, <2>1 DEF Quiet, QuietRequest, NoKey, Waits, Covered
  <2>4. \A i \in Ids : Allocated(i)' => Allocated(i) /\ row'[i].pos = row[i].pos
    BY <1>2 DEF Quiet, QuietRow, Covered
  <2>5. ASSUME NEW r \in Reqs, pc'[r] = "set_nx" PROVE Covers(req[r].initial)'
    <3>1. \A i \in Ids : Allocated(i) => row[i].pos <= Halves(req'[r].initial)
      BY <2>1, <2>5 DEF Quiet, QuietRequest, NoKey, Covers
    <3> QED BY <2>4, <3>1 DEF Covers
  <2>6. NoKey'
    BY <2>2, <2>3, <2>5 DEF NoKey
  <2> QED BY <1>2, <2>6 DEF Quiet, Ordered
<1>3. CASE ~hadReset /\ maxPos # NoPos
  <2>1. KeyAbove /\ maxPos \in Nat
    BY <1>3 DEF Ordered, TypeOK
  <2>2. \A i \in ClientIds : posKey'[i] <= maxPos
    BY <1>3, <2>1 DEF Quiet, QuietPin, KeyAbove, NoPos
  <2>3. \A r \in Reqs : Waits(r)' \/ req'[r].by = "client" \/ req'[r].pos <= Halves(maxPos)
    BY <2>1 DEF Quiet, QuietRequest, KeyAbove, Waits, Covered
  <2>4. \A i \in Ids : Allocated(i)' => row'[i].pos <= Halves(maxPos)
    BY <2>1 DEF Quiet, QuietRow, KeyAbove, Covers, Covered
  <2>5. KeyAbove'
    BY <2>2, <2>3, <2>4 DEF Quiet, KeyAbove, Covers
  <2> QED BY <1>3, <2>5 DEF Quiet, Ordered
<1> QED BY <1>1, <1>2, <1>3

\* A step of one request leaves the others where they are.
LEMMA OthersStay ==
  ASSUME TypeOK, NEW r \in Reqs, Step(r), NEW q \in Reqs \ {r}
  PROVE  req'[q] = req[q] /\ pc'[q] = pc[q]
<1>1. req'[q] = req[q]
  BY StepRequest
<1>2. CASE Insert(r) \/ InsertAgain(r) \/ CheckId(r) \/ CheckPos(r)
  BY <1>2 DEF Insert, InsertAgain, InsertRow, CheckId, CheckPos, Goto, TypeOK
<1>3. CASE \/ Send(r) \/ Preview(r) \/ GetPos(r) \/ GetMax(r) \/ ReadMax(r) \/ SetNx(r)
           \/ Incr(r) \/ Pin(r) \/ PreviewEnd(r) \/ Reset(r) \/ Unpin(r) \/ Finish(r)
           \/ Drop(r)
  BY <1>3 DEF Send, Preview, GetPos, GetMax, ReadMax, SetNx, Incr, Pin, PreviewEnd, Reset,
              Unpin, Finish, Drop, Return, Goto, TypeOK
<1> QED BY <1>1, <1>2, <1>3 DEF Step

\* Enough for a step of request r to be quiet.
LEMMA QuietStep ==
  ASSUME TypeOK, NEW r \in Reqs, Step(r), UNCHANGED <<maxPos, hadReset>>,
         QuietRequest(r), posKey' = posKey \/ \A i \in ClientIds : QuietPin(i),
         row' = row \/ \A i \in Ids : QuietRow(i)
  PROVE  Quiet
<1>1. \A q \in Reqs \ {r} : QuietRequest(q)
  BY OthersStay DEF QuietRequest
<1>2. \A i \in ClientIds : QuietPin(i)
  BY DEF QuietPin
<1>3. \A i \in Ids : QuietRow(i)
  BY DEF QuietRow, Allocated
<1> QED BY <1>1, <1>2, <1>3 DEF Quiet

LEMMA AsksStep ==
  ASSUME TypeOK, Asks, [Next]_vars
  PROVE  Asks'
<1>1. ASSUME NEW r \in Reqs, Step(r) PROVE Asks'
  <2>0. req[r] \in Request /\ AfterPos(r) \in {"previewed", "insert_again", "insert"}
    BY DEF TypeOK, AfterPos
  <2> DEFINE In == {"get_pos", "get_max", "read_max", "set_nx", "incr", "pin", "unpin"}
  <2>1. CASE Send(r)
    <3>1. PICK i \in ClientIds \cup {NoId}, p \in RequestedPos \cup {NoPos} :
            /\ req'[r].by = IF p = NoPos THEN "alloc" ELSE "client"
            /\ pc'[r] = IF p # NoPos THEN "insert"
                        ELSE IF i # NoId THEN "get_pos" ELSE "get_max"
      BY <2>1 DEF Send, Goto, TypeOK
    <3>2. pc'[r] \in In => req'[r].by = "alloc"
      BY <3>1
    <3> QED BY <1>1, <3>2, OthersStay DEF Asks
  <2>2. CASE Preview(r) \/ Reset(r)
    <3>1. req'[r].by = "alloc"
      BY <2>0, <2>2 DEF Preview, Reset, TypeOK, Request
    <3> QED BY <1>1, <3>1, OthersStay DEF Asks
  <2>3. CASE \/ GetPos(r) \/ GetMax(r) \/ ReadMax(r) \/ SetNx(r) \/ Incr(r) \/ Pin(r)
             \/ Unpin(r)
    <3>1. req[r].by = "alloc"
      BY <2>3 DEF Asks, GetPos, GetMax, ReadMax, SetNx, Incr, Pin, Unpin
    <3>2. req'[r].by = "alloc"
      BY <2>0, <2>3, <3>1 DEF GetPos, GetMax, ReadMax, SetNx, Incr, Pin, Unpin, TypeOK, Request
    <3> QED BY <1>1, <3>2, OthersStay DEF Asks
  <2>4. CASE \/ PreviewEnd(r) \/ Insert(r) \/ CheckId(r) \/ CheckPos(r) \/ InsertAgain(r)
             \/ Finish(r) \/ Drop(r)
    <3>1. pc'[r] \notin In
      BY <2>4 DEF PreviewEnd, Insert, InsertRow, CheckId, CheckPos, InsertAgain, Finish,
                  Drop, Return, Goto, TypeOK
    <3> QED BY <1>1, <3>1, OthersStay DEF Asks
  <2> QED BY <1>1, <2>1, <2>2, <2>3, <2>4 DEF Step
<1>2. ASSUME NEW i \in Ids, Touch(i) PROVE UNCHANGED <<pc, req>>
  BY <1>2 DEF Touch, Delete, Edit, MoveBetween, MoveAbove, MoveBottom, Place
<1>3. ASSUME NEW i \in ClientIds, Expire(i) PROVE UNCHANGED <<pc, req>>
  BY <1>3 DEF Expire
<1>4. CASE UNCHANGED <<pc, req>>
  BY <1>4 DEF Asks
<1> QED BY <1>1, <1>2, <1>3, <1>4 DEF Next, vars

\* The steps that write a number they got from the key, or no number at all.
LEMMA RequestQuiet ==
  ASSUME OrderInv, ~hadReset, NEW r \in Reqs, Step(r),
         ~SetNx(r), ~Incr(r), ~Reset(r)
  PROVE  Quiet
<1> USE DEF OrderInv
<1>0. req[r] \in Request /\ AfterPos(r) \in {"previewed", "insert_again", "insert"}
  BY DEF TypeOK, AfterPos
<1>1. CASE Send(r)
  <2>1. PICK p \in RequestedPos \cup {NoPos}, i \in ClientIds \cup {NoId} :
          /\ req'[r].by = IF p = NoPos THEN "alloc" ELSE "client"
          /\ req'[r].pos = p
          /\ pc'[r] = IF p # NoPos THEN "insert"
                      ELSE IF i # NoId THEN "get_pos" ELSE "get_max"
    BY <1>1 DEF Send, Goto, TypeOK
  <2>2. QuietRequest(r)
    BY <2>1 DEF QuietRequest, Waits
  <2> QED BY <1>1, <2>2, QuietStep DEF Send, redis
<1>2. CASE Preview(r)
  <2>1. req'[r].pos = NoPos /\ pc'[r] = "get_pos"
    BY <1>2 DEF Preview, Goto, TypeOK
  <2> QED BY <1>2, <2>1, QuietStep DEF Preview, QuietRequest, Waits, redis
<1>3. CASE GetPos(r)
  <2>1. req[r].id \in ClientIds
    BY <1>0, <1>3 DEF GetPos, Control, Request
  <2>2. CASE posKey[req[r].id] = NoPos
    <3>1. req' = req /\ pc'[r] = "get_max"
      BY <1>3, <2>2 DEF GetPos, Goto, TypeOK
    <3> QED BY <1>3, <3>1, QuietStep DEF GetPos, QuietRequest, redis, ghosts
  <2>3. CASE posKey[req[r].id] # NoPos
    <3>1. req'[r].pos = Halves(posKey[req[r].id]) /\ pc'[r] = AfterPos(r)
      BY <1>0, <1>3, <2>3 DEF GetPos, Goto, TypeOK, Request
    <3>2. posKey[req[r].id] \in Nat /\ maxPos \in Nat \cup {NoPos}
      BY <2>1, <2>3 DEF TypeOK
    <3>3. maxPos # NoPos /\ posKey[req[r].id] <= maxPos
      BY <2>1, <2>3 DEF Ordered, NoKey, KeyAbove
    <3>4. Covered(req'[r].pos)
      BY <3>1, <3>2, <3>3 DEF Covered, Halves
    <3>5. QuietRequest(r)
      BY <1>0, <3>1, <3>4 DEF QuietRequest
    <3> QED BY <1>3, <3>5, QuietStep DEF GetPos, redis, ghosts
  <2> QED BY <2>2, <2>3
<1>4. CASE GetMax(r)
  <2>1. pc'[r] = IF maxPos # NoPos THEN "incr" ELSE "read_max"
    BY <1>4 DEF GetMax, Goto, TypeOK
  <2> QED BY <1>4, <2>1, QuietStep DEF GetMax, QuietRequest, redis, ghosts
<1>5. CASE ReadMax(r)
  <2>1. /\ req'[r].by = req[r].by /\ req'[r].pos = req[r].pos
        /\ req'[r].initial = MaxRowPos /\ pc'[r] = "set_nx"
    BY <1>0, <1>5 DEF ReadMax, Goto, TypeOK, Request
  <2>2. Covers(MaxRowPos)
    BY MaxRowPosAbove DEF Covers, Allocated, Stored
  <2>3. QuietRequest(r)
    BY <2>1, <2>2 DEF QuietRequest
  <2> QED BY <1>5, <2>3, QuietStep DEF ReadMax, redis, ghosts
<1>6. CASE Pin(r)
  <2>1. req[r].by = "alloc" /\ req[r].pos \in Nat /\ req[r].id \in ClientIds
    BY <1>0, <1>6 DEF Pin, Asks, Control, Request
  <2>2. maxPos \in Nat /\ req[r].pos <= Halves(maxPos)
    BY <2>1 DEF Ordered, NoKey, KeyAbove, Waits, NoPos, TypeOK
  <2>3. req[r].pos \div 2 <= maxPos
    BY <2>1, <2>2 DEF Halves
  <2>4. \A i \in ClientIds : QuietPin(i)
    BY <1>6, <2>2, <2>3 DEF Pin, QuietPin, TypeOK, NoPos
  <2>5. QuietRequest(r)
    BY <1>0, <1>6 DEF Pin, Goto, QuietRequest, TypeOK
  <2> QED BY <1>6, <2>4, <2>5, QuietStep DEF Pin, ghosts
<1>7. CASE CheckId(r) \/ CheckPos(r)
  <2>1. /\ req'[r].by = req[r].by /\ req'[r].pos = req[r].pos
        /\ pc'[r] \notin {"incr", "set_nx"}
    BY <1>0, <1>7 DEF CheckId, CheckPos, Goto, TypeOK, Request
  <2>2. QuietRequest(r)
    BY <2>1 DEF QuietRequest
  <2> QED BY <1>7, <2>2, QuietStep DEF CheckId, CheckPos, redis, ghosts
<1>8. CASE Unpin(r)
  <2>1. \A i \in ClientIds : QuietPin(i)
    BY <1>8 DEF Unpin, QuietPin, TypeOK
  <2>2. QuietRequest(r)
    BY <1>8 DEF Unpin, Goto, QuietRequest, TypeOK
  <2> QED BY <1>8, <2>1, <2>2, QuietStep DEF Unpin, ghosts
<1>9. CASE Insert(r) \/ InsertAgain(r)
  <2>1. QuietRequest(r)
    BY <1>9 DEF Insert, InsertAgain, InsertRow, Goto, QuietRequest, TypeOK
  <2>2. row' = row \/ \A i \in Ids : QuietRow(i)
    <3>1. ASSUME NEW i \in Ids, Store(r, i) PROVE \A j \in Ids : QuietRow(j)
      <4>1. row'[i].by = req[r].by /\ row'[i].pos = req[r].pos
        BY <3>1 DEF Store, TypeOK
      <4>2. req[r].pos \in Nat
        BY <1>0, <1>9 DEF Insert, InsertAgain, Control, Request
      <4>3. req[r].by = "alloc" => Covered(req[r].pos)
        BY <4>2 DEF Ordered, NoKey, KeyAbove, Waits, Covered, NoPos
      <4>4. \A j \in Ids \ {i} : row'[j] = row[j]
        BY <3>1 DEF Store, TypeOK
      <4> QED BY <4>1, <4>3, <4>4 DEF QuietRow, Allocated
    <3>2. InsertRow(r) => \E i \in Ids : Store(r, i)
      BY <1>0 DEF InsertRow, Ids, Request
    <3>3. InsertRow(r) \/ row' = row
      BY <1>9 DEF Insert, InsertAgain
    <3> QED BY <3>1, <3>2, <3>3
  <2> QED BY <1>9, <2>1, <2>2, QuietStep DEF Insert, InsertAgain, redis, ghosts
<1>10. CASE PreviewEnd(r) \/ Finish(r) \/ Drop(r)
  <2>1. req'[r].by = "client" /\ pc'[r] = "idle"
    BY <1>10 DEF PreviewEnd, Finish, Drop, Return, IdleRequest, TypeOK
  <2>2. QuietRequest(r)
    BY <2>1 DEF QuietRequest
  <2>3. \A i \in ClientIds : QuietPin(i)
    BY <1>10 DEF PreviewEnd, Finish, Drop, QuietPin, TypeOK, redis
  <2> QED BY <1>10, <2>2, <2>3, QuietStep DEF PreviewEnd, Finish, Drop, redis, ghosts
<1> QED BY <1>1, <1>2, <1>3, <1>4, <1>5, <1>6, <1>7, <1>8, <1>9, <1>10 DEF Step

\* Creating the key and counting it up keep it above all there is.
LEMMA CountOrdered ==
  ASSUME OrderInv, ~hadReset, NEW r \in Reqs, SetNx(r) \/ Incr(r)
  PROVE  Ordered'
<1> USE DEF OrderInv
<1>0. req[r] \in Request /\ maxPos \in Nat \cup {NoPos}
  BY DEF TypeOK
<1>1. CASE SetNx(r) /\ maxPos # NoPos
  <2>1. QuietRequest(r)
    BY <1>1 DEF SetNx, Goto, QuietRequest, TypeOK
  <2>2. Quiet
    BY <1>1, <2>1, QuietStep DEF SetNx, Step, ghosts
  <2> QED BY <2>2, QuietOrdered
<1>2. CASE SetNx(r) /\ maxPos = NoPos
  <2>1. NoKey /\ req[r].initial \in Nat /\ maxPos' = req[r].initial + 1
    BY <1>0, <1>2 DEF Ordered, Request, SetNx
  <2>2. \A i \in Ids : Allocated(i) => row[i].pos \in Nat /\ row[i].pos <= Halves(maxPos')
    BY <1>2, <2>1 DEF NoKey, Covers, SetNx, Allocated, TypeOK, Row, Halves
  <2>3. \A i \in ClientIds : posKey[i] <= maxPos'
    BY <2>1 DEF NoKey, NoPos
  <2>4. \A q \in Reqs : Waits(q)
    BY <2>1 DEF NoKey
  <2>5. KeyAbove'
    BY <1>2, <2>2, <2>3, <2>4 DEF SetNx, KeyAbove, Waits, Covers, Allocated
  <2> QED BY <2>1, <2>5 DEF Ordered, NoPos
<1>3. CASE Incr(r)
  <2>1. KeyAbove /\ maxPos \in Nat /\ maxPos' = maxPos + 1
    BY <1>0, <1>3 DEF Ordered, NoKey, Incr, Incremented
  <2>2. \A q \in Reqs : Waits(q)' \/ req'[q].by = "client" \/ req'[q].pos <= Halves(maxPos')
    <3>1. req'[r].pos = Halves(maxPos') /\ req'[r].pos \in Nat
      BY <1>0, <1>3, <2>1 DEF Incr, Incremented, TypeOK, Request, Halves
    <3>2. ASSUME NEW q \in Reqs \ {r}
          PROVE  Waits(q)' \/ req'[q].by = "client" \/ req'[q].pos <= Halves(maxPos')
      <4>1. req'[q] = req[q] /\ req[q].pos \in Nat \cup {NoPos}
        BY <1>3 DEF Incr, TypeOK, Request
      <4>2. Waits(q) \/ req[q].by = "client" \/ req[q].pos <= Halves(maxPos)
        BY <2>1 DEF KeyAbove
      <4> QED BY <2>1, <4>1, <4>2 DEF Waits, Halves, NoPos
    <3> QED BY <3>1, <3>2
  <2>3. \A i \in Ids : Allocated(i) => row[i].pos <= Halves(maxPos')
    BY <2>1 DEF KeyAbove, Covers, Allocated, TypeOK, Row, Halves
  <2>4. \A i \in ClientIds : posKey[i] <= maxPos'
    BY <2>1 DEF KeyAbove, TypeOK, NoPos
  <2>5. KeyAbove'
    BY <1>3, <2>2, <2>3, <2>4 DEF Incr, KeyAbove, Covers, Allocated
  <2> QED BY <2>1, <2>5 DEF Ordered, NoPos
<1> QED BY <1>1, <1>2, <1>3

LEMMA OrderedStep ==
  ASSUME OrderInv, [Next]_vars
  PROVE  Ordered'
<1> USE DEF OrderInv
<1>1. CASE hadReset
  <2>1. ASSUME NEW r \in Reqs, Step(r) PROVE hadReset'
    BY <1>1, <2>1 DEF Step, Send, Preview, GetPos, GetMax, ReadMax, SetNx, Incr, Pin,
                PreviewEnd, Insert, CheckId, CheckPos, Reset, Unpin, InsertAgain, Finish,
                Drop, ghosts
  <2>2. ASSUME NEW i \in Ids, Touch(i) PROVE hadReset'
    BY <1>1, <2>2 DEF Touch, Delete, Edit, MoveBetween, MoveAbove, MoveBottom, Place, ghosts
  <2>3. ASSUME NEW i \in ClientIds, Expire(i) PROVE hadReset'
    BY <1>1, <2>3 DEF Expire, ghosts
  <2> QED BY <1>1, <2>1, <2>2, <2>3 DEF Next, vars, Ordered
<1>2. ASSUME ~hadReset, NEW r \in Reqs, Step(r) PROVE Ordered'
  <2>1. CASE Reset(r)
    BY <2>1 DEF Reset, Ordered
  <2>2. CASE SetNx(r) \/ Incr(r)
    BY <1>2, <2>2, CountOrdered
  <2>3. CASE ~SetNx(r) /\ ~Incr(r) /\ ~Reset(r)
    BY <1>2, <2>3, RequestQuiet, QuietOrdered
  <2> QED BY <2>1, <2>2, <2>3
<1>3. ASSUME NEW i \in Ids, Touch(i) PROVE Ordered'
  <2>1. UNCHANGED <<maxPos, hadReset, posKey, pc, req>>
    BY <1>3 DEF Touch, Delete, Edit, MoveBetween, MoveAbove, MoveBottom, Place, redis, ghosts
  <2>2. \A j \in Ids : QuietRow(j)
    BY <1>3, TouchKeeps DEF QuietRow, Allocated, RowKept, Stored
  <2>3. Quiet
    BY <2>1, <2>2 DEF Quiet, QuietPin, QuietRequest
  <2> QED BY <2>3, QuietOrdered
<1>4. ASSUME NEW i \in ClientIds, Expire(i) PROVE Ordered'
  <2>1. UNCHANGED <<maxPos, hadReset, row, pc, req>>
    BY <1>4 DEF Expire, ghosts
  <2>2. \A j \in ClientIds : QuietPin(j)
    BY <1>4 DEF Expire, QuietPin, TypeOK
  <2>3. Quiet
    BY <2>1, <2>2 DEF Quiet, QuietRow, QuietRequest, Allocated
  <2> QED BY <2>3, QuietOrdered
<1>5. CASE UNCHANGED vars
  <2>1. Quiet
    BY <1>5 DEF vars, Quiet, QuietPin, QuietRow, QuietRequest, Allocated
  <2> QED BY <2>1, QuietOrdered
<1> QED BY <1>1, <1>2, <1>3, <1>4, <1>5 DEF Next

\* Before the first reset, a number is drawn above every message the allocator has
\* placed, in a channel with old messages and a Redis without keys too.
THEOREM NewestBelow == Spec => NewestIsLast
<1>1. Init => OrderInv
  <2>1. Init => Counted /\ Asks /\ Ordered
    BY DEF Init, Counted, Asks, Ordered, NoKey, Waits, IdleRequest
  <2> QED BY <2>1, TypeInit DEF OrderInv
<1>2. OrderInv /\ [Next]_vars => OrderInv'
  BY TypeStep, CountedStep, AsksStep, OrderedStep DEF OrderInv
<1>3. OrderInv =>
        \A r \in Reqs : Incr(r) /\ ~hadReset => AboveAll(Halves(maxPos'))
  <2> SUFFICES ASSUME OrderInv, NEW r \in Reqs, Incr(r), ~hadReset
               PROVE  AboveAll(Halves(maxPos'))
    OBVIOUS
  <2>1. KeyAbove /\ maxPos \in Nat /\ maxPos' = maxPos + 1
    BY DEF OrderInv, TypeOK, Ordered, NoKey, Incr, Incremented
  <2>2. \A i \in Stored : row[i].pos \in Nat
    BY DEF OrderInv, TypeOK, Stored, Row
  <2> QED BY <2>1, <2>2 DEF AboveAll, KeyAbove, Covers, Allocated, Stored, Halves
<1>4. OrderInv /\ [Next]_vars =>
        [\A r \in Reqs : Incr(r) /\ ~hadReset => AboveAll(Halves(maxPos'))]_vars
  BY <1>3
<1> QED BY <1>1, <1>2, <1>4, PTL DEF Spec, NewestIsLast

-----------------------------------------------------------------------------
(* One request at a time, and nothing is moved: the retry of create draws   *)
(* its number from a counter it has itself put above every row.            *)

Below(n) == \A i \in Stored : row[i].pos <= Halves(n)

\* Where the retry stands with the number it is about to draw.
Redraw(r) ==
  /\ pc[r] \in {"get_pos", "pin"} => ~req[r].retry
  /\ req[r].retry /\ pc[r] \in {"unpin", "get_max", "read_max", "set_nx"} => maxPos = NoPos
  /\ req[r].retry /\ pc[r] = "set_nx" => Below(req[r].initial)
  /\ req[r].retry /\ pc[r] = "incr" => maxPos # NoPos /\ Below(maxPos)
  /\ pc[r] = "insert_again" => ~Taken(req[r].pos)

\* Past the look-up by id, the places of create.
PastCheckId(r) ==
  \/ pc[r] \in {"check_pos", "reset", "insert_again", "failed"}
  \/ req[r].retry /\ pc[r] \in {"unpin", "get_max", "read_max", "set_nx", "incr"}

Unseen(i) == row[i] = NoRow \/ row[i].deleted

\* From the look-up by id on, a request that keeps its id keeps one that a read does
\* not see, and one that has failed met a row under it.
Refused(r) ==
  /\ PastCheckId(r) /\ req[r].id # NoId => Unseen(req[r].id)
  /\ pc[r] = "failed" => req[r].id # NoId /\ row[req[r].id] # NoRow

Retries == \A r \in Reqs : Redraw(r) /\ Refused(r)

\* A place's whole number is above the counter it was counted from.
LEMMA AboveBelow ==
  ASSUME TypeOK, NEW n \in Nat, Below(n)
  PROVE  ~Taken(Halves(n + 1)) /\ Below(n + 1)
<1>1. \A i \in Stored : row[i].pos \in Nat
  BY DEF TypeOK, Stored, Row
<1> QED BY <1>1 DEF Below, Taken, Halves

\* A request that changes nothing but what it holds itself, and its place.
LEMMA DrawRetries ==
  ASSUME TypeOK, Control, NEW r \in Reqs, Redraw(r), Refused(r),
         \/ GetPos(r) \/ GetMax(r) \/ ReadMax(r) \/ SetNx(r) \/ Incr(r) \/ Pin(r)
  PROVE  Redraw(r)' /\ Refused(r)'
<1> USE DEF Goto
<1>0. /\ req[r] \in Request
      /\ \/ AfterPos(r) \in {"previewed", "insert"}
         \/ req[r].retry /\ AfterPos(r) = "insert_again"
  <2>1. req[r] \in Request /\ req[r].retry \in BOOLEAN
    BY DEF TypeOK, Request
  <2> QED BY <2>1 DEF AfterPos
<1>1. row' = row
  BY DEF GetPos, GetMax, ReadMax, SetNx, Incr, Pin
<1>2. pc[r] # "failed"
  BY DEF GetPos, GetMax, ReadMax, SetNx, Incr, Pin
<1>3. req'[r].id = req[r].id /\ req'[r].retry = req[r].retry
  BY <1>0 DEF GetPos, GetMax, ReadMax, SetNx, Incr, Pin, TypeOK, Request
<1>4. CASE GetPos(r) \/ Pin(r)
  <2>1. ~req[r].retry
    BY <1>4 DEF GetPos, Pin, Redraw
  <2>2. pc'[r] \in {"previewed", "insert", "get_max"}
    BY <1>0, <1>4, <2>1 DEF GetPos, Pin, TypeOK
  <2> QED BY <1>3, <2>1, <2>2 DEF Redraw, Refused, PastCheckId
<1>5. CASE GetMax(r)
  <2>1. /\ maxPos' = maxPos
        /\ pc[r] = "get_max" /\ pc'[r] = IF maxPos # NoPos THEN "incr" ELSE "read_max"
    BY <1>5 DEF GetMax, TypeOK, redis
  <2>2. Redraw(r)'
    BY <1>3, <2>1 DEF Redraw
  <2>3. Refused(r)'
    BY <1>1, <1>3, <2>1 DEF Refused, PastCheckId, Unseen
  <2> QED BY <2>2, <2>3
<1>6. CASE ReadMax(r)
  <2>1. /\ maxPos' = maxPos /\ req'[r].initial = MaxRowPos
        /\ pc[r] = "read_max" /\ pc'[r] = "set_nx"
    BY <1>0, <1>6 DEF ReadMax, TypeOK, redis, Request
  <2>2. Below(MaxRowPos)
    BY MaxRowPosAbove DEF Below
  <2>3. Below(req[r].initial)'
    BY <1>1, <2>1, <2>2 DEF Below, Stored
  <2>4. Redraw(r)'
    BY <1>3, <2>1, <2>3 DEF Redraw
  <2>5. Refused(r)'
    BY <1>1, <1>3, <2>1 DEF Refused, PastCheckId, Unseen
  <2> QED BY <2>4, <2>5
<1>7. CASE SetNx(r)
  <2>1. pc[r] = "set_nx" /\ pc'[r] = "incr"
    BY <1>7 DEF SetNx, TypeOK
  <2>2. req[r].initial \in Nat
    BY <1>0 DEF Request
  <2>3. req[r].retry => maxPos' = req[r].initial + 1
    BY <1>7, <2>1 DEF SetNx, Redraw
  <2>4. req[r].retry => Below(req[r].initial + 1)
    BY <2>1, <2>2, AboveBelow DEF Redraw
  <2>5. req[r].retry => Below(maxPos)'
    BY <1>1, <2>3, <2>4 DEF Below, Stored
  <2>6. req[r].retry => maxPos' # NoPos
    BY <2>2, <2>3 DEF NoPos
  <2>7. Redraw(r)'
    BY <1>3, <2>1, <2>5, <2>6 DEF Redraw
  <2>8. Refused(r)'
    BY <1>1, <1>3, <2>1 DEF Refused, PastCheckId, Unseen
  <2> QED BY <2>7, <2>8
<1>8. CASE Incr(r)
  <2>1. /\ pc[r] = "incr" /\ req'[r].pos = Halves(Incremented)
        /\ (pc'[r] = "pin" /\ ~req[r].retry) \/ pc'[r] = AfterPos(r)
    BY <1>0, <1>8 DEF Incr, TypeOK, Request
  <2>2. req[r].retry => maxPos \in Nat /\ Incremented = maxPos + 1 /\ Below(maxPos)
    BY <2>1 DEF Redraw, Incremented, TypeOK
  <2>3. req[r].retry => ~Taken(Halves(Incremented))
    BY <2>2, AboveBelow
  <2>4. req[r].retry => ~Taken(req[r].pos)'
    BY <1>1, <2>1, <2>3 DEF Taken, Stored
  <2>5. Redraw(r)'
    BY <1>0, <1>3, <2>1, <2>4 DEF Redraw
  <2>6. Refused(r)'
    BY <1>0, <1>1, <1>3, <2>1 DEF Refused, PastCheckId, Unseen
  <2> QED BY <2>5, <2>6
<1> QED BY <1>4, <1>5, <1>6, <1>7, <1>8

LEMMA CreateRetries ==
  ASSUME TypeOK, Control, NEW r \in Reqs, Redraw(r), Refused(r),
         \/ Insert(r) \/ CheckId(r) \/ CheckPos(r) \/ Reset(r) \/ Unpin(r) \/ InsertAgain(r)
  PROVE  Redraw(r)' /\ Refused(r)'
<1> USE DEF Goto
<1>0. req[r] \in Request
  BY DEF TypeOK
<1>1. CASE Insert(r)
  <2>1. pc'[r] \in {"finish", "check_id"} \/ (pc'[r] = "check_pos" /\ req'[r].id = NoId)
    <3>1. CASE InsertRow(r)
      BY <1>1, <3>1 DEF InsertRow, TypeOK
    <3>2. CASE ~InsertRow(r)
      <4>1. /\ Goto(r, IF req[r].id # NoId THEN "check_id" ELSE "check_pos")
            /\ req' = req
        BY <1>1, <3>2 DEF Insert
      <4> QED BY <4>1 DEF TypeOK
    <3> QED BY <3>1, <3>2
  <2> QED BY <2>1 DEF Redraw, Refused, PastCheckId
<1>2. CASE CheckId(r)
  <2>1. /\ row' = row /\ pc'[r] \in {"duplicate", "check_pos"}
        /\ pc'[r] = "check_pos" =>
             req'[r].id = NoId \/ (req'[r].id = req[r].id /\ ~Visible(req[r].id))
    BY <1>0, <1>2 DEF CheckId, TypeOK, Request, Visible
  <2> QED BY <2>1 DEF Redraw, Refused, PastCheckId, Unseen, Visible
<1>3. CASE CheckPos(r)
  <2>1. /\ row' = row /\ req' = req /\ pc[r] = "check_pos"
        /\ \/ pc'[r] \in {"duplicate", "reset"}
           \/ pc'[r] = "insert_again" /\ ~Taken(req[r].pos)
    BY <1>3 DEF CheckPos, TypeOK
  <2> QED BY <2>1 DEF Redraw, Refused, PastCheckId, Unseen, Taken, Stored
<1>4. CASE Reset(r)
  <2>1. /\ row' = row /\ pc[r] = "reset" /\ req'[r].id = req[r].id /\ maxPos' = NoPos
        /\ pc'[r] \in {"unpin", "get_max"}
    BY <1>0, <1>4 DEF Reset, TypeOK, Request
  <2> QED BY <2>1 DEF Redraw, Refused, PastCheckId, Unseen
<1>5. CASE Unpin(r)
  <2>1. /\ row' = row /\ req' = req /\ maxPos' = maxPos
        /\ pc[r] = "unpin" /\ pc'[r] = "get_max"
    BY <1>5 DEF Unpin, TypeOK
  <2> QED BY <2>1 DEF Redraw, Refused, PastCheckId, Unseen
<1>6. CASE InsertAgain(r)
  <2>1. /\ pc[r] = "insert_again" /\ req' = req
        /\ \/ pc'[r] = "finish"
           \/ pc'[r] = "failed" /\ row' = row /\ UniqueViolation(r)
    BY <1>6 DEF InsertAgain, InsertRow, TypeOK
  <2> QED BY <2>1 DEF Redraw, Refused, PastCheckId, Unseen, UniqueViolation
<1> QED BY <1>1, <1>2, <1>3, <1>4, <1>5, <1>6

\* A request that arrives or is over has nothing to retry.
LEMMA EdgeRetries ==
  ASSUME TypeOK, NEW r \in Reqs,
         Send(r) \/ Preview(r) \/ PreviewEnd(r) \/ Finish(r) \/ Drop(r)
  PROVE  Redraw(r)' /\ Refused(r)'
<1>1. ~req'[r].retry /\ pc'[r] \in {"idle", "insert", "get_pos", "get_max"}
  BY DEF Send, Preview, PreviewEnd, Finish, Drop, Return, Goto, IdleRequest, TypeOK
<1> QED BY <1>1 DEF Redraw, Refused, PastCheckId

\* A delete or an edit leaves every position where it is, and no row comes back.
LEMMA TouchInPlace ==
  ASSUME TypeOK, Targets = {}, NEW i \in Ids, Touch(i)
  PROVE  /\ UNCHANGED <<maxPos, posKey, pc, req>>
         /\ Stored' = Stored
         /\ \A j \in Stored : row'[j].pos = row[j].pos
         /\ \A j \in Ids : Unseen(j) => Unseen(j)'
<1>1. Delete(i) \/ Edit(i)
  BY DEF Touch, MoveBetween, MoveAbove, MoveBottom
<1>2. row[i] \in Row
  BY <1>1, NoRowAssumption DEF Delete, Edit, Visible, Stored, TypeOK
<1>3. /\ \A j \in Ids \ {i} : row'[j] = row[j]
      /\ row'[i].pos = row[i].pos /\ row'[i] \in Row
      /\ row[i].deleted => row'[i].deleted
  <2>1. CASE Delete(i)
    BY <1>2, <2>1 DEF Delete, TypeOK, Row
  <2>2. CASE Edit(i)
    <3>1. PICK t \in EditTexts : row' = [row EXCEPT ![i].text = t, ![i].modified = TRUE]
      BY <2>2 DEF Edit
    <3>2. t \in Texts \cup {Blank}
      BY TextsAssumption
    <3> QED BY <1>2, <3>1, <3>2 DEF TypeOK, Row
  <2> QED BY <1>1, <2>1, <2>2
<1>4. \A j \in Ids : row'[j] = NoRow <=> row[j] = NoRow
  BY <1>2, <1>3, NoRowAssumption
<1>5. \A j \in Ids : Unseen(j) => Unseen(j)'
  BY <1>2, <1>3, NoRowAssumption DEF Unseen
<1>6. UNCHANGED <<maxPos, posKey, pc, req>>
  BY <1>1 DEF Delete, Edit, redis
<1> QED BY <1>3, <1>4, <1>5, <1>6 DEF Stored

\* What the rows keep is enough for a request that waits.
LEMMA WaitRetries ==
  ASSUME TypeOK, Control, NEW r \in Reqs, Redraw(r), Refused(r),
         UNCHANGED <<maxPos, pc, req>>, Stored' = Stored,
         \A j \in Stored : row'[j].pos = row[j].pos,
         \A j \in Ids : Unseen(j) => Unseen(j)'
  PROVE  Redraw(r)' /\ Refused(r)'
<1>1. req[r].id # NoId => req[r].id \in Ids
  BY DEF TypeOK, Request, Ids
<1>2. /\ Below(req[r].initial) => Below(req[r].initial)'
      /\ Below(maxPos) => Below(maxPos)'
      /\ Taken(req[r].pos)' => Taken(req[r].pos)
  BY DEF Below, Taken
<1>3. Redraw(r)'
  BY <1>2 DEF Redraw
<1>4. req[r].id # NoId /\ row[req[r].id] # NoRow => row'[req[r].id] # NoRow
  BY <1>1 DEF Stored
<1>5. Refused(r)'
  BY <1>1, <1>4 DEF Refused, PastCheckId
<1> QED BY <1>3, <1>5

\* One retry is enough when requests come one at a time and nothing is moved: what a
\* send fails on is the id of a deleted message (create, models.rs:193-248).
THEOREM RetryIsEnough ==
  ASSUME \A r, s \in Reqs : r = s, Targets = {}
  PROVE  Spec => []FailsOnlyOnDeletedId
<1> DEFINE RetryInv == TypeOK /\ Control /\ Retries
<1>1. Init => RetryInv
  <2>1. Init => Retries
    BY DEF Init, Retries, Redraw, Refused, PastCheckId, IdleRequest
  <2> QED BY <2>1, TypeInit
<1>2. RetryInv /\ [Next]_vars => RetryInv'
  <2> SUFFICES ASSUME RetryInv, [Next]_vars PROVE Retries'
    BY TypeStep
  <2> SUFFICES ASSUME NEW r \in Reqs PROVE Redraw(r)' /\ Refused(r)'
    BY DEF Retries
  <2>0. Redraw(r) /\ Refused(r)
    BY DEF Retries
  <2>1. ASSUME NEW s \in Reqs, Step(s) PROVE Redraw(r)' /\ Refused(r)'
    <3>1. s = r
      OBVIOUS
    <3> QED BY <2>0, <2>1, <3>1, DrawRetries, CreateRetries, EdgeRetries DEF Step
  <2>2. ASSUME NEW i \in Ids, Touch(i) PROVE Redraw(r)' /\ Refused(r)'
    BY <2>0, <2>2, TouchInPlace, WaitRetries
  <2>3. CASE (\E i \in ClientIds : Expire(i)) \/ UNCHANGED vars
    <3>1. UNCHANGED <<maxPos, pc, req, row>>
      BY <2>3 DEF Expire, vars
    <3> QED BY <2>0, <3>1, WaitRetries DEF Stored, Unseen
  <2> QED BY <2>1, <2>2, <2>3 DEF Next
<1>3. RetryInv => FailsOnlyOnDeletedId
  BY DEF Retries, Refused, PastCheckId, Unseen, FailsOnlyOnDeletedId
<1> QED BY <1>1, <1>2, <1>3, PTL DEF Spec
=============================================================================

--------------------------- MODULE Accounts_proofs ---------------------------
(***************************************************************************)
(* Theorems about Accounts, with the uploads of Media: for any numbers of  *)
(* users, requests and uploads, any limits and any number of faults.       *)
(***************************************************************************)
EXTENDS Accounts, FiniteSetTheorems, TLAPS

-----------------------------------------------------------------------------
(* Uploads: what Media adds to DirectoryInOrder and RowHasFile so that     *)
(* every step keeps them.                                                  *)

DiskDone(u) == disk[u] \in {"sent", "whole"} \/ u \in lost

\* How far an upload has come says what is on disk and in the directory.  One that
\* may rename over a file had looked before there was one.
Uploading ==
  \A u \in Uploads :
    /\ up[u].pc \in {"hash", "remove", "rename", "late_rename"} => DiskDone(u)
    /\ up[u].pc \in {"remove", "create"} => named[up[u].what] # NoFile
    /\ up[u].pc \in {"create", "avatar"} => u \notin temp
    /\ up[u].pc = "avatar" => up[u].what \in rows
    /\ up[u].pc \in {"rename", "late_rename"} /\ named[up[u].what] # NoFile => u \in raced

NamesTaken ==
  \A x \in Contents : named[x] # NoFile => up[named[x]].pc \notin {"off", "body"}

\* A get that announced the whole length has a whole file before it, or one that was
\* renamed over it.
Amounts == {"none", "part", "sent", "whole"}
Promised(x) == disk[named[x]] = "whole" \/ named[x] \in raced
Excused(x) == named[x] \in lost \cup raced
Sending(x) ==
  /\ named[x] # NoFile
  /\ reader.size = "whole" => Promised(x)
  /\ reader.size = "part" => Excused(x)
Sent(f, s, z) ==
  /\ s = "whole" /\ z # "whole" => f \in raced
  /\ s = "part" => f \in lost \cup raced
  /\ z = "part" => f \in lost

Reading ==
  \/ reader = [pc |-> "idle"] \/ reader = [pc |-> "not found"]
  \/ \E x \in Contents, s \in Amounts :
       reader = [pc |-> "send", what |-> x, size |-> s] /\ Sending(x)
  \/ \E f \in Uploads, s, z \in Amounts :
       reader = [pc |-> "idle", from |-> f, announced |-> s, sent |-> z] /\ Sent(f, s, z)

MediaInv == /\ MediaTypeOK /\ Uploading /\ NamesTaken
            /\ RowHasFile /\ NamedFileComplete /\ TempsHaveOwner /\ Reading

LEMMA GoFacts ==
  ASSUME MediaTypeOK, NEW u \in Uploads,
         NEW p \in Steps \cup Late \cup {"off", "avatar", "done"}, Go(u, p)
  PROVE  /\ up' \in [Uploads -> Upload]
         /\ up'[u].pc = p /\ up'[u].what = up[u].what /\ up[u].what \in Contents
         /\ \A v \in Uploads : v # u => up'[v] = up[v]
<1>1. up[u] \in Upload /\ up' = [up EXCEPT ![u] = [up[u] EXCEPT !.pc = p]]
  BY DEF MediaTypeOK, Go
<1>2. /\ [up[u] EXCEPT !.pc = p] \in Upload
      /\ [up[u] EXCEPT !.pc = p].pc = p /\ [up[u] EXCEPT !.pc = p].what = up[u].what
      /\ up[u].what \in Contents
  BY <1>1 DEF Upload
<1> QED BY <1>1, <1>2 DEF MediaTypeOK

LEMMA ReadingKept ==
  ASSUME Reading, UNCHANGED reader, raced \subseteq raced', lost \subseteq lost',
         \A x \in Contents : named[x] # NoFile =>
           /\ named'[x] # NoFile
           /\ Promised(x) => Promised(x)'
           /\ Excused(x) => Excused(x)'
  PROVE  Reading'
<1>1. CASE reader = [pc |-> "idle"] \/ reader = [pc |-> "not found"]
  BY <1>1 DEF Reading
<1>2. ASSUME NEW x \in Contents, NEW s \in Amounts,
             reader = [pc |-> "send", what |-> x, size |-> s], Sending(x)
      PROVE  Reading'
  <2>1. Sending(x)'
    BY <1>2 DEF Sending
  <2> QED BY <1>2, <2>1 DEF Reading
<1>3. ASSUME NEW f \in Uploads, NEW s \in Amounts, NEW z \in Amounts,
             reader = [pc |-> "idle", from |-> f, announced |-> s, sent |-> z], Sent(f, s, z)
      PROVE  Reading'
  <2>1. Sent(f, s, z)'
    BY <1>3 DEF Sent
  <2> QED BY <1>3, <2>1 DEF Reading
<1> QED BY <1>1, <1>2, <1>3 DEF Reading

\* A name once taken stays taken, by the same file unless one is renamed to it.
LEMMA NamedIs ==
  ASSUME MediaInv, NEW x \in Contents, named[x] # NoFile
  PROVE  named[x] \in Uploads /\ up[named[x]].pc \notin {"off", "body"}
BY DEF MediaInv, MediaTypeOK, NamesTaken

LEMMA KeepsBegin == ASSUME MediaInv, NEW u \in Uploads,
                          NEW by \in Users, NEW x \in Contents, NEW source \in {"", "avatar"}, Begin(u, by, x, source) PROVE MediaInv'
<1> USE NamesAssumption
<1>1. /\ up' \in [Uploads -> Upload]
      /\ up'[u].pc = "body" /\ \A v \in Uploads : v # u => up'[v] = up[v]
  BY DEF MediaInv, MediaTypeOK, Begin, Upload, Steps
<1>2. \A y \in Contents : named[y] # NoFile =>
        named[y] \in Uploads \ {u} /\ disk'[named[y]] = disk[named[y]]
  <2>1. disk' = [disk EXCEPT ![u] = "part"] /\ up[u].pc = "off"
    BY DEF Begin, At
  <2> QED BY <2>1, NamedIs DEF MediaInv, MediaTypeOK
<1>3. MediaTypeOK'
  BY <1>1, <1>2 DEF MediaInv, MediaTypeOK, Begin, Go
<1>4. Uploading'
  <2> SUFFICES ASSUME NEW v \in Uploads, v # u
               PROVE  /\ up'[v] = up[v] /\ DiskDone(v)' = DiskDone(v)
                      /\ (v \in temp' <=> v \in temp) /\ UNCHANGED <<named, rows, raced>>
    BY <1>1 DEF MediaInv, Uploading
  <2> QED BY <1>1 DEF Begin, DiskDone, MediaInv, MediaTypeOK
<1>5. NamesTaken'
  BY <1>1, <1>2 DEF MediaInv, NamesTaken, Begin, MediaTypeOK, At
<1>6. RowHasFile'
  BY <1>1, <1>2 DEF MediaInv, RowHasFile, Begin, MediaTypeOK, At, Uploading
<1>7. NamedFileComplete'
  BY <1>2 DEF MediaInv, NamedFileComplete, Begin
<1>8. TempsHaveOwner'
  BY <1>1, <1>2 DEF MediaInv, TempsHaveOwner, Begin, MediaTypeOK, Steps, At, Uploading
<1>9. Reading'
  BY <1>2, ReadingKept DEF MediaInv, Begin, Promised, Excused
<1> QED BY <1>3, <1>4, <1>5, <1>6, <1>7, <1>8, <1>9 DEF MediaInv

LEMMA KeepsBodyEnds == ASSUME MediaInv, NEW u \in Uploads, BodyEnds(u) PROVE MediaInv'
<1> USE NamesAssumption
<1>1. /\ up' \in [Uploads -> Upload]
      /\ up'[u].pc = "hash" /\ up'[u].what = up[u].what /\ up[u].what \in Contents
      /\ \A v \in Uploads : v # u => up'[v] = up[v]
  BY GoFacts DEF MediaInv, BodyEnds, Steps
<1>2. MediaTypeOK'
  BY <1>1 DEF MediaInv, MediaTypeOK, BodyEnds, Go
<1>3. Uploading'
  BY <1>1 DEF MediaInv, Uploading, BodyEnds, DiskDone, MediaTypeOK, At
<1>4. NamesTaken'
  BY <1>1 DEF MediaInv, NamesTaken, BodyEnds, MediaTypeOK, At
<1>5. RowHasFile'
  BY <1>1 DEF MediaInv, RowHasFile, BodyEnds, MediaTypeOK, At, Uploading
<1>6. NamedFileComplete'
  BY <1>1 DEF MediaInv, NamedFileComplete, BodyEnds, MediaTypeOK, NamesTaken, At
<1>7. TempsHaveOwner'
  BY <1>1 DEF MediaInv, TempsHaveOwner, BodyEnds, MediaTypeOK, Steps, At, Uploading
<1>8. Reading'
  BY <1>1, NamedIs, ReadingKept DEF MediaInv, BodyEnds, Promised, Excused, MediaTypeOK, At
<1> QED BY <1>2, <1>3, <1>4, <1>5, <1>6, <1>7, <1>8 DEF MediaInv

LEMMA KeepsTooLong == ASSUME MediaInv, NEW u \in Uploads, TooLong(u) PROVE MediaInv'
<1> USE NamesAssumption
<1>1. /\ up' \in [Uploads -> Upload]
      /\ up'[u].pc = "done" /\ up'[u].what = up[u].what /\ up[u].what \in Contents
      /\ \A v \in Uploads : v # u => up'[v] = up[v]
  BY GoFacts DEF MediaInv, TooLong, Steps
<1>2. MediaTypeOK'
  BY <1>1 DEF MediaInv, MediaTypeOK, TooLong, Go
<1>3. Uploading'
  BY <1>1 DEF MediaInv, Uploading, TooLong, DiskDone, MediaTypeOK, At
<1>4. NamesTaken'
  BY <1>1 DEF MediaInv, NamesTaken, TooLong, MediaTypeOK, At
<1>5. RowHasFile'
  BY <1>1 DEF MediaInv, RowHasFile, TooLong, MediaTypeOK, At, Uploading
<1>6. NamedFileComplete'
  BY <1>1 DEF MediaInv, NamedFileComplete, TooLong, MediaTypeOK, NamesTaken, At
<1>7. TempsHaveOwner'
  BY <1>1 DEF MediaInv, TempsHaveOwner, TooLong, MediaTypeOK, Steps, At, Uploading
<1>8. Reading'
  BY <1>1, NamedIs, ReadingKept DEF MediaInv, TooLong, Promised, Excused, MediaTypeOK, At
<1> QED BY <1>2, <1>3, <1>4, <1>5, <1>6, <1>7, <1>8 DEF MediaInv

LEMMA KeepsBodyFails == ASSUME MediaInv, NEW u \in Uploads, BodyFails(u) PROVE MediaInv'
<1> USE NamesAssumption
<1>1. /\ up' \in [Uploads -> Upload]
      /\ up'[u].pc = "done" /\ up'[u].what = up[u].what /\ up[u].what \in Contents
      /\ \A v \in Uploads : v # u => up'[v] = up[v]
  BY GoFacts DEF MediaInv, BodyFails, Steps
<1>2. MediaTypeOK'
  BY <1>1 DEF MediaInv, MediaTypeOK, BodyFails, Go
<1>3. Uploading'
  BY <1>1 DEF MediaInv, Uploading, BodyFails, DiskDone, MediaTypeOK, At
<1>4. NamesTaken'
  BY <1>1 DEF MediaInv, NamesTaken, BodyFails, MediaTypeOK, At
<1>5. RowHasFile'
  BY <1>1 DEF MediaInv, RowHasFile, BodyFails, MediaTypeOK, At, Uploading
<1>6. NamedFileComplete'
  BY <1>1 DEF MediaInv, NamedFileComplete, BodyFails, MediaTypeOK, NamesTaken, At
<1>7. TempsHaveOwner'
  BY <1>1 DEF MediaInv, TempsHaveOwner, BodyFails, MediaTypeOK, Steps, At, Uploading
<1>8. Reading'
  BY <1>1, NamedIs, ReadingKept DEF MediaInv, BodyFails, Promised, Excused, MediaTypeOK, At
<1> QED BY <1>2, <1>3, <1>4, <1>5, <1>6, <1>7, <1>8 DEF MediaInv

LEMMA KeepsNewPathExists == ASSUME MediaInv, NEW u \in Uploads, NewPathExists(u) PROVE MediaInv'
<1> USE NamesAssumption
<1>1. /\ up' \in [Uploads -> Upload]
      /\ up'[u].pc = (IF named[up[u].what] # NoFile THEN "remove" ELSE "rename") /\ up'[u].what = up[u].what /\ up[u].what \in Contents
      /\ \A v \in Uploads : v # u => up'[v] = up[v]
  BY GoFacts DEF MediaInv, NewPathExists, Steps
<1>2. MediaTypeOK'
  BY <1>1 DEF MediaInv, MediaTypeOK, NewPathExists, Go
<1>3. Uploading'
  BY <1>1 DEF MediaInv, Uploading, NewPathExists, DiskDone, MediaTypeOK, At
<1>4. NamesTaken'
  BY <1>1 DEF MediaInv, NamesTaken, NewPathExists, MediaTypeOK, At
<1>5. RowHasFile'
  BY <1>1 DEF MediaInv, RowHasFile, NewPathExists, MediaTypeOK, At, Uploading
<1>6. NamedFileComplete'
  BY <1>1 DEF MediaInv, NamedFileComplete, NewPathExists, MediaTypeOK, NamesTaken, At
<1>7. TempsHaveOwner'
  BY <1>1 DEF MediaInv, TempsHaveOwner, NewPathExists, MediaTypeOK, Steps, At, Uploading
<1>8. Reading'
  BY <1>1, NamedIs, ReadingKept DEF MediaInv, NewPathExists, Promised, Excused, MediaTypeOK, At
<1> QED BY <1>2, <1>3, <1>4, <1>5, <1>6, <1>7, <1>8 DEF MediaInv

LEMMA KeepsRemove == ASSUME MediaInv, NEW u \in Uploads, Remove(u) PROVE MediaInv'
<1> USE NamesAssumption
<1>1. /\ up' \in [Uploads -> Upload]
      /\ up'[u].pc = "create" /\ up'[u].what = up[u].what /\ up[u].what \in Contents
      /\ \A v \in Uploads : v # u => up'[v] = up[v]
  BY GoFacts DEF MediaInv, Remove, Steps
<1>2. MediaTypeOK'
  BY <1>1 DEF MediaInv, MediaTypeOK, Remove, Go
<1>3. Uploading'
  BY <1>1 DEF MediaInv, Uploading, Remove, DiskDone, MediaTypeOK, At
<1>4. NamesTaken'
  BY <1>1 DEF MediaInv, NamesTaken, Remove, MediaTypeOK, At
<1>5. RowHasFile'
  BY <1>1 DEF MediaInv, RowHasFile, Remove, MediaTypeOK, At, Uploading
<1>6. NamedFileComplete'
  BY <1>1 DEF MediaInv, NamedFileComplete, Remove, MediaTypeOK, NamesTaken, At
<1>7. TempsHaveOwner'
  BY <1>1 DEF MediaInv, TempsHaveOwner, Remove, MediaTypeOK, Steps, At, Uploading
<1>8. Reading'
  BY <1>1, NamedIs, ReadingKept DEF MediaInv, Remove, Promised, Excused, MediaTypeOK, At
<1> QED BY <1>2, <1>3, <1>4, <1>5, <1>6, <1>7, <1>8 DEF MediaInv

LEMMA KeepsRenamed ==
  ASSUME MediaInv, NEW u \in Uploads, NEW next \in {"create", "done"},
         up[u].pc \in {"rename", "late_rename"}, Renamed(u, next)
  PROVE  MediaInv'
<1> USE NamesAssumption
<1>1. /\ up' \in [Uploads -> Upload]
      /\ up'[u].pc = next /\ up'[u].what = up[u].what /\ up[u].what \in Contents
      /\ \A v \in Uploads : v # u => up'[v] = up[v]
  BY GoFacts DEF MediaInv, Renamed, Steps
<1>2. named' = [named EXCEPT ![up[u].what] = u] /\ u # NoFile /\ named'[up[u].what] = u
  BY <1>1 DEF MediaInv, MediaTypeOK, Renamed
<1>3. DiskDone(u) /\ (named[up[u].what] # NoFile => u \in raced)
  BY DEF MediaInv, Uploading, Renamed, At
<1>4. MediaTypeOK'
  BY <1>1, <1>2, <1>3 DEF MediaInv, MediaTypeOK, Renamed, Go
<1>5. Uploading'
  BY <1>1, <1>2, <1>3 DEF MediaInv, Uploading, Renamed, DiskDone, MediaTypeOK, At
<1>6. NamesTaken'
  BY <1>1, <1>2, <1>3 DEF MediaInv, NamesTaken, Renamed, MediaTypeOK, At
<1>7. RowHasFile'
  BY <1>1, <1>2, <1>3 DEF MediaInv, RowHasFile, Renamed, MediaTypeOK, At, Uploading
<1>8. NamedFileComplete'
  BY <1>1, <1>2, <1>3 DEF MediaInv, MediaTypeOK, NamedFileComplete, Renamed, DiskDone
<1>9. TempsHaveOwner'
  BY <1>1, <1>2, <1>3 DEF MediaInv, TempsHaveOwner, Renamed, MediaTypeOK, Steps, At, Uploading
<1>10. Reading'
  BY <1>1, <1>2, <1>3, NamedIs, ReadingKept DEF MediaInv, Renamed, Promised, Excused, MediaTypeOK, At
<1> QED BY <1>4, <1>5, <1>6, <1>7, <1>8, <1>9, <1>10 DEF MediaInv

LEMMA KeepsRename == ASSUME MediaInv, NEW u \in Uploads, Rename(u) \/ LateRename(u) PROVE MediaInv'
BY KeepsRenamed DEF Rename, LateRename, At

LEMMA KeepsGiveUp == ASSUME MediaInv, NEW u \in Uploads, GiveUp(u) PROVE MediaInv'
<1> USE NamesAssumption
<1>1. /\ up' \in [Uploads -> Upload]
      /\ up'[u].pc = (IF up[u].pc = "rename" THEN "late_rename" ELSE "late_remove") /\ up'[u].what = up[u].what /\ up[u].what \in Contents
      /\ \A v \in Uploads : v # u => up'[v] = up[v]
  BY GoFacts DEF MediaInv, GiveUp, Steps, Late, At
<1>2. MediaTypeOK'
  BY <1>1 DEF MediaInv, MediaTypeOK, GiveUp, Go
<1>3. Uploading'
  BY <1>1 DEF MediaInv, Uploading, GiveUp, DiskDone, MediaTypeOK, At
<1>4. NamesTaken'
  BY <1>1 DEF MediaInv, NamesTaken, GiveUp, MediaTypeOK, At
<1>5. RowHasFile'
  BY <1>1 DEF MediaInv, RowHasFile, GiveUp, MediaTypeOK, At, Uploading
<1>6. NamedFileComplete'
  BY <1>1 DEF MediaInv, NamedFileComplete, GiveUp, MediaTypeOK, NamesTaken, At
<1>7. TempsHaveOwner'
  BY <1>1 DEF MediaInv, TempsHaveOwner, GiveUp, MediaTypeOK, Steps, At, Uploading
<1>8. Reading'
  BY <1>1, NamedIs, ReadingKept DEF MediaInv, GiveUp, Promised, Excused, MediaTypeOK, At
<1> QED BY <1>2, <1>3, <1>4, <1>5, <1>6, <1>7, <1>8 DEF MediaInv

LEMMA KeepsLateRemove == ASSUME MediaInv, NEW u \in Uploads, LateRemove(u) PROVE MediaInv'
<1> USE NamesAssumption
<1>1. /\ up' \in [Uploads -> Upload]
      /\ up'[u].pc = "done" /\ up'[u].what = up[u].what /\ up[u].what \in Contents
      /\ \A v \in Uploads : v # u => up'[v] = up[v]
  BY GoFacts DEF MediaInv, LateRemove
<1>2. MediaTypeOK'
  BY <1>1 DEF MediaInv, MediaTypeOK, LateRemove, Go
<1>3. Uploading'
  BY <1>1 DEF MediaInv, Uploading, LateRemove, DiskDone, MediaTypeOK, At
<1>4. NamesTaken'
  BY <1>1 DEF MediaInv, NamesTaken, LateRemove, MediaTypeOK, At
<1>5. RowHasFile'
  BY <1>1 DEF MediaInv, RowHasFile, LateRemove, MediaTypeOK, At, Uploading
<1>6. NamedFileComplete'
  BY <1>1 DEF MediaInv, NamedFileComplete, LateRemove, MediaTypeOK, NamesTaken, At
<1>7. TempsHaveOwner'
  BY <1>1 DEF MediaInv, TempsHaveOwner, LateRemove, MediaTypeOK, Steps, At, Uploading
<1>8. Reading'
  BY <1>1, NamedIs, ReadingKept DEF MediaInv, LateRemove, Promised, Excused, MediaTypeOK, At
<1> QED BY <1>2, <1>3, <1>4, <1>5, <1>6, <1>7, <1>8 DEF MediaInv

LEMMA KeepsWritten == ASSUME MediaInv, NEW u \in Uploads, Written(u) PROVE MediaInv'
<1> USE NamesAssumption
<1>1. MediaTypeOK'
  BY DEF MediaInv, MediaTypeOK, Written, Go
<1>2. Uploading'
  BY DEF MediaInv, Uploading, Written, DiskDone, MediaTypeOK, At
<1>3. NamesTaken'
  BY DEF MediaInv, NamesTaken, Written, MediaTypeOK, At
<1>4. RowHasFile'
  BY DEF MediaInv, RowHasFile, Written, MediaTypeOK, At, Uploading
<1>5. NamedFileComplete'
  BY DEF MediaInv, NamedFileComplete, Written, MediaTypeOK, NamesTaken, At
<1>6. TempsHaveOwner'
  BY DEF MediaInv, TempsHaveOwner, Written, MediaTypeOK, Steps, At, Uploading
<1>7. Reading'
  BY NamedIs, ReadingKept DEF MediaInv, Written, Promised, Excused, MediaTypeOK, At
<1> QED BY <1>1, <1>2, <1>3, <1>4, <1>5, <1>6, <1>7 DEF MediaInv

LEMMA KeepsWriteLost == ASSUME MediaInv, NEW u \in Uploads, WriteLost(u) PROVE MediaInv'
<1> USE NamesAssumption
<1>1. MediaTypeOK'
  BY DEF MediaInv, MediaTypeOK, WriteLost, Go
<1>2. Uploading'
  BY DEF MediaInv, Uploading, WriteLost, DiskDone, MediaTypeOK, At
<1>3. NamesTaken'
  BY DEF MediaInv, NamesTaken, WriteLost, MediaTypeOK, At
<1>4. RowHasFile'
  BY DEF MediaInv, RowHasFile, WriteLost, MediaTypeOK, At, Uploading
<1>5. NamedFileComplete'
  BY DEF MediaInv, NamedFileComplete, WriteLost, MediaTypeOK, NamesTaken, At
<1>6. TempsHaveOwner'
  BY DEF MediaInv, TempsHaveOwner, WriteLost, MediaTypeOK, Steps, At, Uploading
<1>7. Reading'
  BY NamedIs, ReadingKept DEF MediaInv, WriteLost, Promised, Excused, MediaTypeOK, At
<1> QED BY <1>1, <1>2, <1>3, <1>4, <1>5, <1>6, <1>7 DEF MediaInv

LEMMA KeepsCreate == ASSUME MediaInv, NEW u \in Uploads, Create(u) PROVE MediaInv'
<1> USE NamesAssumption
<1>1. /\ up' \in [Uploads -> Upload]
      /\ up'[u].pc = (IF up[u].source = "avatar" THEN "avatar" ELSE "done") /\ up'[u].what = up[u].what /\ up[u].what \in Contents
      /\ \A v \in Uploads : v # u => up'[v] = up[v]
  BY GoFacts DEF MediaInv, Create, Steps
<1>2. MediaTypeOK'
  BY <1>1 DEF MediaInv, MediaTypeOK, Create, Go
<1>3. Uploading'
  BY <1>1 DEF MediaInv, Uploading, Create, DiskDone, MediaTypeOK, At
<1>4. NamesTaken'
  BY <1>1 DEF MediaInv, NamesTaken, Create, MediaTypeOK, At
<1>5. RowHasFile'
  BY <1>1 DEF MediaInv, RowHasFile, Create, MediaTypeOK, At, Uploading
<1>6. NamedFileComplete'
  BY <1>1 DEF MediaInv, NamedFileComplete, Create, MediaTypeOK, NamesTaken, At
<1>7. TempsHaveOwner'
  BY <1>1 DEF MediaInv, TempsHaveOwner, Create, MediaTypeOK, Steps, At, Uploading
<1>8. Reading'
  BY <1>1, NamedIs, ReadingKept DEF MediaInv, Create, Promised, Excused, MediaTypeOK, At
<1> QED BY <1>2, <1>3, <1>4, <1>5, <1>6, <1>7, <1>8 DEF MediaInv

LEMMA KeepsUploadFails == ASSUME MediaInv, NEW u \in Uploads, UploadFails(u) PROVE MediaInv'
<1> USE NamesAssumption
<1>1. /\ up' \in [Uploads -> Upload]
      /\ up'[u].pc = "done" /\ up'[u].what = up[u].what /\ up[u].what \in Contents
      /\ \A v \in Uploads : v # u => up'[v] = up[v]
  BY GoFacts DEF MediaInv, UploadFails, Steps
<1>2. MediaTypeOK'
  BY <1>1 DEF MediaInv, MediaTypeOK, UploadFails, Go
<1>3. Uploading'
  BY <1>1 DEF MediaInv, Uploading, UploadFails, DiskDone, MediaTypeOK, At
<1>4. NamesTaken'
  BY <1>1 DEF MediaInv, NamesTaken, UploadFails, MediaTypeOK, At
<1>5. RowHasFile'
  BY <1>1 DEF MediaInv, RowHasFile, UploadFails, MediaTypeOK, At, Uploading
<1>6. NamedFileComplete'
  BY <1>1 DEF MediaInv, NamedFileComplete, UploadFails, MediaTypeOK, NamesTaken, At
<1>7. TempsHaveOwner'
  BY <1>1 DEF MediaInv, TempsHaveOwner, UploadFails, MediaTypeOK, Steps, At, Uploading
<1>8. Reading'
  BY <1>1, NamedIs, ReadingKept DEF MediaInv, UploadFails, Promised, Excused, MediaTypeOK, At
<1> QED BY <1>2, <1>3, <1>4, <1>5, <1>6, <1>7, <1>8 DEF MediaInv

LEMMA KeepsGetStat == ASSUME MediaInv, NEW x \in Contents, GetStat(x) PROVE MediaInv'
<1> USE NamesAssumption
<1>1. MediaTypeOK'
  BY DEF MediaInv, GetStat, MediaTypeOK, MediaTypeOK, DiskDone
<1>2. Uploading'
  BY DEF MediaInv, GetStat, Uploading, MediaTypeOK, DiskDone
<1>3. NamesTaken'
  BY DEF MediaInv, GetStat, NamesTaken, MediaTypeOK, DiskDone
<1>4. RowHasFile'
  BY DEF MediaInv, GetStat, RowHasFile, MediaTypeOK, DiskDone
<1>5. NamedFileComplete'
  BY DEF MediaInv, GetStat, NamedFileComplete, MediaTypeOK, DiskDone
<1>6. TempsHaveOwner'
  BY DEF MediaInv, GetStat, TempsHaveOwner, MediaTypeOK, DiskDone
<1>7. Reading'
  <2>1. CASE named[x] = NoFile
    BY <2>1 DEF GetStat, Reading
  <2>2. CASE named[x] # NoFile
    <3>1. disk[named[x]] \in Amounts
      BY <2>2 DEF MediaInv, MediaTypeOK, Amounts
    <3>2. reader' = [pc |-> "send", what |-> x, size |-> disk[named[x]]] /\ UNCHANGED <<named, disk, lost, raced>>
      BY <2>2 DEF GetStat
    <3>a. disk[named[x]] = "part" => named[x] \in lost
      BY <2>2 DEF MediaInv, NamedFileComplete
    <3>3. Sending(x)'
      BY <2>2, <3>2, <3>a DEF Sending, Promised, Excused
    <3> QED BY <3>1, <3>2, <3>3 DEF Reading
  <2> QED BY <2>1, <2>2
<1> QED BY <1>1, <1>2, <1>3, <1>4, <1>5, <1>6, <1>7 DEF MediaInv

LEMMA KeepsGetSend == ASSUME MediaInv, GetSend PROVE MediaInv'
<1> USE NamesAssumption
<1>1. MediaTypeOK'
  BY DEF MediaInv, GetSend, MediaTypeOK, MediaTypeOK, DiskDone
<1>2. Uploading'
  BY DEF MediaInv, GetSend, Uploading, MediaTypeOK, DiskDone
<1>3. NamesTaken'
  BY DEF MediaInv, GetSend, NamesTaken, MediaTypeOK, DiskDone
<1>4. RowHasFile'
  BY DEF MediaInv, GetSend, RowHasFile, MediaTypeOK, DiskDone
<1>5. NamedFileComplete'
  BY DEF MediaInv, GetSend, NamedFileComplete, MediaTypeOK, DiskDone
<1>6. TempsHaveOwner'
  BY DEF MediaInv, GetSend, TempsHaveOwner, MediaTypeOK, DiskDone
<1>7. Reading'
  <2>1. PICK x \in Contents, s \in Amounts :
          reader = [pc |-> "send", what |-> x, size |-> s] /\ Sending(x)
    <3>1. reader.pc = "send"
      BY DEF GetSend
    <3>2. \A f, s, z : reader # [pc |-> "idle", from |-> f, announced |-> s, sent |-> z]
      BY <3>1
    <3>3. \A p : reader = [pc |-> p] => p = "send"
      BY <3>1
    <3> QED BY <3>2, <3>3 DEF MediaInv, Reading
  <2>2. named[x] \in Uploads /\ disk[named[x]] \in Amounts
    BY <2>1 DEF Sending, MediaInv, MediaTypeOK, Amounts
  <2>3. reader.what = x /\ reader.size = s
    BY <2>1
  <2>4. /\ reader' = [pc |-> "idle", from |-> named[x], announced |-> s, sent |-> disk[named[x]]]
        /\ UNCHANGED <<raced, lost>>
    BY <2>3 DEF GetSend
  <2>5. disk[named[x]] = "part" => named[x] \in lost
    BY <2>1 DEF MediaInv, NamedFileComplete, Sending
  <2>6. Sent(named[x], s, disk[named[x]])'
    <3>1. Sent(named[x], s, disk[named[x]])
      BY <2>1, <2>3, <2>5 DEF Sending, Promised, Excused, Sent
    <3> QED BY <3>1, <2>4 DEF Sent, GetSend
  <2> QED BY <2>2, <2>4, <2>6 DEF Reading, GetSend, Sent
<1> QED BY <1>1, <1>2, <1>3, <1>4, <1>5, <1>6, <1>7 DEF MediaInv

LEMMA KeepsMediaRestart == ASSUME MediaInv, MediaRestart PROVE MediaInv'
<1> USE NamesAssumption
<1>1. /\ \A u \in Uploads : up'[u].pc = IF up[u].pc = "off" THEN "off" ELSE "done"
      /\ up' \in [Uploads -> Upload]
  <2>1. up' = [u \in Uploads |-> IF up[u].pc = "off" THEN up[u] ELSE [up[u] EXCEPT !.pc = "done"]]
    BY DEF MediaRestart, At
  <2>2. ASSUME NEW u \in Uploads
        PROVE  /\ [up[u] EXCEPT !.pc = "done"] \in Upload /\ up[u] \in Upload
               /\ [up[u] EXCEPT !.pc = "done"].pc = "done"
    <3>1. up[u] \in Upload
      BY DEF MediaInv, MediaTypeOK
    <3> QED BY <3>1 DEF Upload
  <2> QED BY <2>1, <2>2
<1>2. /\ disk' \in [Uploads -> {"none", "part", "sent", "whole"}]
      /\ lost' \subseteq Uploads /\ lost \subseteq lost'
      /\ \A u \in Uploads : DiskDone(u) => DiskDone(u)'
  BY DEF MediaInv, MediaTypeOK, MediaRestart, DiskDone
<1>3. left' = left \cup temp /\ reader' = [pc |-> "idle"] /\ UNCHANGED <<temp, named, rows, raced>>
  BY DEF MediaRestart
<1>4. MediaTypeOK'
  BY <1>1, <1>2, <1>3 DEF MediaInv, MediaTypeOK
<1>5. Uploading'
  BY <1>1 DEF Uploading
<1>6. NamesTaken'
  BY <1>1, <1>3, NamedIs DEF NamesTaken
<1>7. NamedFileComplete'
  <2>1. \A x \in Contents : named[x] # NoFile => DiskDone(named[x])
    BY DEF MediaInv, NamedFileComplete, DiskDone
  <2> QED BY <1>2, <1>3, <2>1, NamedIs DEF NamedFileComplete, DiskDone
<1>8. RowHasFile' /\ TempsHaveOwner' /\ Reading'
  BY <1>3 DEF MediaInv, RowHasFile, TempsHaveOwner, Reading
<1> QED BY <1>4, <1>5, <1>6, <1>7, <1>8 DEF MediaInv

LEMMA KeepsNoMedia == ASSUME MediaInv, UNCHANGED mediaVars PROVE MediaInv'
<1>1. MediaTypeOK' /\ Uploading' /\ NamesTaken'
  BY DEF mediaVars, MediaInv, MediaTypeOK, Uploading, DiskDone, NamesTaken
<1>2. RowHasFile' /\ NamedFileComplete' /\ TempsHaveOwner'
  BY DEF mediaVars, MediaInv, RowHasFile, NamedFileComplete, TempsHaveOwner
<1>3. Reading'
  BY ReadingKept DEF mediaVars, MediaInv, Promised, Excused
<1> QED BY <1>1, <1>2, <1>3 DEF MediaInv

LEMMA StartsMedia == MediaInit => MediaInv
<1> SUFFICES ASSUME MediaInit PROVE MediaInv
  OBVIOUS
<1>1. \A u \in Uploads : up[u].pc = "off"
  BY DEF MediaInit
<1>2. up \in [Uploads -> Upload]
  BY ContentsAssumption DEF MediaInit, Upload
<1>3. MediaTypeOK
  BY <1>2 DEF MediaInit, MediaTypeOK
<1>4. Uploading
  BY <1>1 DEF Uploading
<1> QED BY <1>3, <1>4 DEF MediaInit, MediaInv, NamesTaken, RowHasFile, NamedFileComplete,
                          TempsHaveOwner, Reading

-----------------------------------------------------------------------------
(* Requests.                                                               *)

\* Avatars refer to rows.
Avatars == \A u \in Users : avatar[u] # NoFile => avatar[u] \in rows

\* Resets for the address e that the limit let through, or is about to, whose mail is to come.
Passed == {"email ttl", "find", "setex", "mail"}
Pending(e) ==
  {r \in Reqs : req[r].op = "reset" /\ req[r].user = e /\ req[r].pc \in Passed}

\* How many more the counter of e lets through before it expires.
Unused(e) == IF count[e] = 0 \/ count[e] >= EmailLimit THEN 0 ELSE EmailLimit - count[e]

\* MailsPerWindow, with the mails that are under way and those still to be let through.
Budget ==
  \A e \in Emails :
    /\ IsFiniteSet(Pending(e))
    /\ mails[e] + Cardinality(Pending(e)) + Unused(e) <= EmailLimit * windows[e]

\* A counter that runs will expire, or the request that began it is about to see to
\* that; none is left for ever but by a handler that broke off before it could.
CounterExpires ==
  \A k \in Keys : count[k] > 0 =>
    k \in ttl \cup stuck \/ \E r \in Reqs : req[r].pc \in Expiring /\ Key(r) = k

\* A confirmation came with the token of a mail that was sent.
TokenKnown ==
  \A r \in Reqs : On(r, "token") => req[r].user \in Reqs /\ On(req[r].user, "sent")

Inv == /\ MediaInv /\ TypeOK /\ Avatars
       /\ SessionHasHolder /\ CounterExpires /\ Budget /\ TokenKnown

\* Where a request is says which it is.
LEMMA WhichRequest ==
  ASSUME NEW q \in Request
  PROVE  /\ q.pc \in {"check", "start", "mine"} => q \in LoginRequest
         /\ q.pc = "auth" => q \in LogoutRequest \cup GetMeRequest
         /\ q.pc = "revoke" => q \in LogoutRequest
         /\ q.pc \in {"me", "drop"} => q \in GetMeRequest
         /\ q.pc \in Counting \cup Expiring \cup {"setex", "mail", "sent"} => q \in ResetRequest
         /\ q.pc = "token" => q \in TokenRequest
         /\ q.pc = "find" => q \in ResetRequest \cup ConfirmRequest
         /\ q.pc = "write" => q \in ConfirmRequest
         /\ q.op = "reset" => q \in ResetRequest
BY DEF Request, NotYet, LoginRequest, LogoutRequest, GetMeRequest, ResetRequest,
       TokenRequest, ConfirmRequest, Counting, Expiring

\* Wherever a request is, it may end there.
LEMMA MayEnd ==
  ASSUME NEW q \in Request, q.pc # "off"
  PROVE  [q EXCEPT !.pc = "done"] \in Request
<1>1. CASE q \in LoginRequest
  BY <1>1 DEF LoginRequest, Request
<1>2. CASE q \in LogoutRequest
  BY <1>2 DEF LogoutRequest, Request
<1>3. CASE q \in GetMeRequest
  BY <1>3 DEF GetMeRequest, Request
<1>4. CASE q \in ResetRequest
  BY <1>4 DEF ResetRequest, Request
<1>5. CASE q \in TokenRequest
  BY <1>5 DEF TokenRequest, Request
<1>6. CASE q \in ConfirmRequest
  BY <1>6 DEF ConfirmRequest, Request
<1>7. q \notin NotYet
  BY DEF NotYet
<1> QED BY <1>1, <1>2, <1>3, <1>4, <1>5, <1>6, <1>7 DEF Request

\* One request moves.
LEMMA ToFacts ==
  ASSUME TypeOK, NEW r \in Reqs, NEW p, To(r, p), [req[r] EXCEPT !.pc = p] \in Request
  PROVE  /\ req' \in [Reqs -> Request]
         /\ req'[r] = [req[r] EXCEPT !.pc = p]
         /\ \A s \in Reqs : s # r => req'[s] = req[s]
BY DEF TypeOK, To

\* What stays as it is when one request moves, none of the places it comes from or
\* goes to being one that a property looks at.
Others(r) == \A s \in Reqs : s # r => req'[s] = req[s]

LEMMA QuietHolder ==
  ASSUME Inv, NEW r \in Reqs, Others(r), ~On(r, "mine"), UNCHANGED logins
  PROVE  SessionHasHolder'
BY DEF Inv, SessionHasHolder, Others, On, Valid, logins

LEMMA QuietToken ==
  ASSUME Inv, NEW r \in Reqs, Others(r), req[r].pc # "sent", req'[r].pc # "token"
  PROVE  TokenKnown'
BY DEF Inv, TokenKnown, Others, On

LEMMA QuietCounter ==
  ASSUME Inv, NEW r \in Reqs, Others(r), req[r].pc \notin Expiring, UNCHANGED <<count, ttl>>,
         stuck \subseteq stuck'
  PROVE  CounterExpires'
BY DEF Inv, CounterExpires, Others, Key

LEMMA FewerPending ==
  ASSUME Inv, UNCHANGED <<count, windows, mails>>,
         \A e \in Emails : Pending(e)' \subseteq Pending(e)
  PROVE  Budget'
<1> SUFFICES ASSUME NEW e \in Emails
             PROVE  /\ IsFiniteSet(Pending(e)')
                    /\ mails'[e] + Cardinality(Pending(e)') + Unused(e)' <= EmailLimit * windows'[e]
  BY DEF Budget
<1>1. /\ IsFiniteSet(Pending(e)')
      /\ Cardinality(Pending(e)') <= Cardinality(Pending(e))
      /\ Cardinality(Pending(e)') \in Nat /\ Cardinality(Pending(e)) \in Nat
  BY FS_Subset, FS_CardinalityType DEF Inv, Budget
<1>2. Unused(e)' = Unused(e) /\ Unused(e) \in Nat
  <2>1. count[e] \in Nat /\ EmailLimit \in Nat
    BY LimitsAssumption DEF Inv, TypeOK, Keys
  <2> QED BY <2>1 DEF Unused
<1>3. mails'[e] = mails[e] /\ mails[e] \in Nat /\ windows'[e] = windows[e]
  BY DEF Inv, TypeOK
<1>4. mails[e] + Cardinality(Pending(e)) + Unused(e) <= EmailLimit * windows[e]
  BY DEF Inv, Budget
<1>5. EmailLimit * windows[e] \in Nat
  <2>1. EmailLimit \in Nat /\ windows[e] \in Nat
    BY LimitsAssumption DEF Inv, TypeOK, Keys
  <2> QED BY <2>1
<1> HIDE DEF Unused, Pending
<1> QED BY <1>1, <1>2, <1>3, <1>4, <1>5

LEMMA QuietBudget ==
  ASSUME Inv, NEW r \in Reqs, Others(r), UNCHANGED <<count, windows, mails>>,
         req'[r].op = "reset" /\ req'[r].pc \in Passed =>
           req[r].op = "reset" /\ req[r].pc \in Passed /\ req'[r].user = req[r].user
  PROVE  Budget'
<1>1. \A e \in Emails : Pending(e)' \subseteq Pending(e)
  BY DEF Pending, Others
<1> QED BY <1>1, FewerPending

LEMMA NoFiles ==
  ASSUME Inv, UNCHANGED <<avatar, mediaVars>>
  PROVE  MediaInv' /\ MediaTypeOK' /\ Avatars'
<1>1. MediaInv'
  BY KeepsNoMedia DEF Inv
<1> QED BY <1>1 DEF MediaInv, Inv, Avatars, mediaVars

LEMMA NoRequests ==
  ASSUME Inv, UNCHANGED <<logins, limits, mails, req>>
  PROVE  SessionHasHolder' /\ CounterExpires' /\ Budget' /\ TokenKnown'
<1>1. SessionHasHolder' /\ TokenKnown'
  BY DEF Inv, logins, SessionHasHolder, TokenKnown, On, Valid
<1>2. CounterExpires'
  BY DEF Inv, limits, CounterExpires, Key
<1>3. Budget'
  <2>1. \A e \in Emails : Pending(e)' \subseteq Pending(e)
    BY DEF Pending
  <2> QED BY <2>1, FewerPending DEF limits
<1> QED BY <1>1, <1>2, <1>3

-----------------------------------------------------------------------------
(* Every step keeps Inv: those of one query first.                         *)

LEMMA KeepsRegister == ASSUME Inv, NEW u \in Users, Register(u) PROVE Inv'
<1>1. MediaInv' /\ MediaTypeOK' /\ Avatars'
  BY NoFiles DEF Register
<1>2. SessionHasHolder' /\ CounterExpires' /\ Budget' /\ TokenKnown'
  BY NoRequests DEF Register, resets
<1>3. password' \in [Users -> Passwords \cup {NoOne}] /\ started' \in 0 .. MaxReqs
  BY BoundsAssumption DEF Inv, TypeOK, Register, Arrives
<1>4. TypeOK'
  BY <1>1, <1>3 DEF Inv, TypeOK, Register, Arrives, logins, limits, resets
<1> QED BY <1>1, <1>2, <1>4 DEF Inv

LEMMA KeepsDeactivate == ASSUME Inv, NEW u \in Users, Deactivate(u) PROVE Inv'
<1>1. MediaInv' /\ MediaTypeOK' /\ Avatars'
  BY NoFiles DEF Deactivate
<1>2. SessionHasHolder' /\ CounterExpires' /\ Budget' /\ TokenKnown'
  BY NoRequests DEF Deactivate, resets
<1>3. inactive' \subseteq Users /\ started' \in 0 .. MaxReqs
  BY BoundsAssumption DEF Inv, TypeOK, Deactivate, Arrives
<1>4. TypeOK'
  BY <1>1, <1>3 DEF Inv, TypeOK, Deactivate, Arrives, logins, limits, resets
<1> QED BY <1>1, <1>2, <1>4 DEF Inv

LEMMA KeepsEdit == ASSUME Inv, NEW s \in Reqs, Edit(s) PROVE Inv'
<1>1. PICK x \in rows : avatar' = [avatar EXCEPT ![sessions[s]] = x]
  BY DEF Edit
<1>2. MediaInv' /\ MediaTypeOK'
  BY KeepsNoMedia DEF Edit, Inv, MediaInv
<1>3. SessionHasHolder' /\ CounterExpires' /\ Budget' /\ TokenKnown'
  BY NoRequests DEF Edit, resets
<1>4. avatar' \in [Users -> Contents \cup {NoFile}] /\ started' \in 0 .. MaxReqs
  <2>1. rows \subseteq Contents
    BY DEF Inv, MediaInv, MediaTypeOK
  <2>2. avatar' \in [Users -> Contents \cup {NoFile}]
    BY <1>1, <2>1 DEF Inv, TypeOK
  <2>3. started' \in 0 .. MaxReqs
    BY BoundsAssumption DEF Inv, TypeOK, Edit, Arrives
  <2> QED BY <2>2, <2>3
<1>5. TypeOK'
  BY <1>2, <1>4 DEF Inv, TypeOK, Edit, Arrives, logins, limits, resets
<1>6. Avatars'
  BY <1>1 DEF Inv, TypeOK, Avatars, Edit, mediaVars
<1> QED BY <1>2, <1>3, <1>5, <1>6 DEF Inv

LEMMA KeepsStart ==
  ASSUME Inv, NEW r \in Reqs, NEW op, NEW user, NEW on, NEW pc, pc \notin Passed,
         pc = "token" => user \in Reqs /\ On(user, "sent"),
         Start(r, op, user, on, pc),
         [pc |-> pc, op |-> op, user |-> user, on |-> on, n |-> 0] \in Request
  PROVE  Inv'
<1>1. MediaInv' /\ MediaTypeOK' /\ Avatars'
  BY NoFiles DEF Start, people
<1>2. /\ req' \in [Reqs -> Request] /\ Others(r) /\ req'[r].pc = pc
      /\ req[r].pc = "off"
  BY DEF Inv, TypeOK, Start, Others, On
<1>a. req'[r].user = user
  BY DEF Inv, TypeOK, Start
<1>b. TokenKnown'
  BY <1>2, <1>a DEF Inv, TokenKnown, Others, On
<1>3. SessionHasHolder' /\ CounterExpires'
  BY <1>2, QuietHolder, QuietCounter DEF Start, On, Expiring, limits
<1>4. Budget'
  BY <1>2, QuietBudget DEF Start, limits, resets
<1>5. started' \in 0 .. MaxReqs
  BY BoundsAssumption DEF Inv, TypeOK, Start, Arrives
<1>6. TypeOK'
  BY <1>1, <1>2, <1>5 DEF Inv, TypeOK, Start, Arrives, people, logins, limits, resets
<1> QED BY <1>1, <1>b, <1>3, <1>4, <1>6 DEF Inv

LEMMA KeepsArrival ==
  ASSUME Inv, NEW r \in Reqs, Login(r) \/ Logout(r) \/ GetMe(r) \/ Reset(r) \/ Confirm(r)
  PROVE  Inv'
<1> USE DEF Passed
<1>1. CASE Login(r)
  <2>1. PICK u \in Users, p \in Passwords : Start(r, "login", u, p, "check")
    BY <1>1 DEF Login
  <2>2. [pc |-> "check", op |-> "login", user |-> u, on |-> p, n |-> 0] \in LoginRequest
    BY DEF LoginRequest
  <2> QED BY <2>1, <2>2, KeepsStart DEF Request
<1>2. CASE Logout(r)
  <2>1. PICK s \in Reqs : Start(r, "logout", NoOne, s, "auth")
    BY <1>2 DEF Logout, Inv, TypeOK
  <2>2. [pc |-> "auth", op |-> "logout", user |-> NoOne, on |-> s, n |-> 0] \in LogoutRequest
    BY DEF LogoutRequest
  <2> QED BY <2>1, <2>2, KeepsStart DEF Request
<1>3. CASE GetMe(r)
  <2>1. PICK s \in Reqs : Start(r, "get_me", NoOne, s, "auth")
    BY <1>3 DEF GetMe, Inv, TypeOK
  <2>2. [pc |-> "auth", op |-> "get_me", user |-> NoOne, on |-> s, n |-> 0] \in GetMeRequest
    BY DEF GetMeRequest
  <2> QED BY <2>1, <2>2, KeepsStart DEF Request
<1>4. CASE Reset(r)
  <2>1. PICK e \in Emails, a \in Addresses : Start(r, "reset", e, a, "ip")
    BY <1>4 DEF Reset
  <2>2. [pc |-> "ip", op |-> "reset", user |-> e, on |-> a, n |-> 0] \in ResetRequest
    BY DEF ResetRequest, Counting
  <2> QED BY <2>1, <2>2, KeepsStart DEF Request
<1>5. CASE Confirm(r)
  <2>1. PICK t \in Reqs, p \in Passwords : On(t, "sent") /\ Start(r, "confirm", t, p, "token")
    BY <1>5 DEF Confirm
  <2>2. [pc |-> "token", op |-> "confirm", user |-> t, on |-> p, n |-> 0] \in TokenRequest
    BY DEF TokenRequest
  <2> QED BY <2>1, <2>2, KeepsStart DEF Request
<1> QED BY <1>1, <1>2, <1>3, <1>4, <1>5

LEMMA KeepsCheck == ASSUME Inv, NEW r \in Reqs, Check(r) PROVE Inv'
<1> DEFINE p == IF Active(req[r].user) /\ password[req[r].user] = req[r].on
                  THEN "start" ELSE "done"
<1>1. MediaInv' /\ MediaTypeOK' /\ Avatars'
  BY NoFiles DEF Check, rest, people
<1>2. req[r] \in LoginRequest /\ To(r, p) /\ req[r].pc = "check"
  BY WhichRequest DEF Inv, TypeOK, Check, On, Counting, Expiring
<1>3. [req[r] EXCEPT !.pc = p] \in Request
  BY <1>2 DEF LoginRequest, Request, Counting, Expiring
<1> HIDE DEF p
<1>4. req' \in [Reqs -> Request] /\ req'[r] = [req[r] EXCEPT !.pc = p] /\ Others(r)
  BY <1>2, <1>3, ToFacts DEF Inv, Others
<1>a. /\ req'[r].pc = p /\ req'[r].op = req[r].op /\ req'[r].user = req[r].user
      /\ req'[r].on = req[r].on
  BY <1>2, <1>4 DEF LoginRequest
<1>b. TokenKnown'
  BY <1>2, <1>4, <1>a, QuietToken DEF p, LoginRequest
<1>5. SessionHasHolder' /\ CounterExpires'
  BY <1>2, <1>4, QuietHolder, QuietCounter DEF Check, On, Expiring, limits
<1>6. Budget'
  BY <1>2, <1>4, <1>a, QuietBudget DEF Check, limits, resets, Passed, p, LoginRequest
<1>7. TypeOK'
  BY <1>1, <1>2, <1>4 DEF Inv, TypeOK, Check, people, logins, limits, resets, rest
<1> QED BY <1>1, <1>b, <1>5, <1>6, <1>7 DEF Inv

LEMMA KeepsStartSession == ASSUME Inv, NEW r \in Reqs, StartSession(r) PROVE Inv'
<1> DEFINE p == "mine"
<1>1. MediaInv' /\ MediaTypeOK' /\ Avatars'
  BY NoFiles DEF StartSession, rest, people
<1>2. req[r] \in LoginRequest /\ To(r, p) /\ req[r].pc = "start"
  BY WhichRequest DEF Inv, TypeOK, StartSession, On, Counting, Expiring
<1>3. [req[r] EXCEPT !.pc = p] \in Request
  BY <1>2 DEF LoginRequest, Request, Counting, Expiring
<1> HIDE DEF p
<1>4. req' \in [Reqs -> Request] /\ req'[r] = [req[r] EXCEPT !.pc = p] /\ Others(r)
  BY <1>2, <1>3, ToFacts DEF Inv, Others
<1>a. /\ req'[r].pc = p /\ req'[r].op = req[r].op /\ req'[r].user = req[r].user
      /\ req'[r].on = req[r].on
  BY <1>2, <1>4 DEF LoginRequest
<1>b. TokenKnown'
  BY <1>2, <1>4, <1>a, QuietToken DEF p, LoginRequest
<1>5. SessionHasHolder' /\ CounterExpires'
  <2>1. SessionHasHolder'
    BY <1>2, <1>4, <1>a DEF Inv, SessionHasHolder, Others, On, Valid, StartSession, p, TypeOK
  <2> QED BY <1>2, <1>4, <2>1, QuietCounter DEF StartSession, Expiring, limits
<1>6. Budget'
  BY <1>2, <1>4, <1>a, QuietBudget DEF StartSession, limits, resets, Passed, p, LoginRequest
<1>7. TypeOK'
  BY <1>1, <1>2, <1>4 DEF Inv, TypeOK, StartSession, people, logins, limits, resets, rest, LoginRequest
<1> QED BY <1>1, <1>b, <1>5, <1>6, <1>7 DEF Inv

LEMMA KeepsLoadMine == ASSUME Inv, NEW r \in Reqs, LoadMine(r) PROVE Inv'
<1> DEFINE p == "done"
<1>1. MediaInv' /\ MediaTypeOK' /\ Avatars'
  BY NoFiles DEF LoadMine, rest, people
<1>2. req[r] \in LoginRequest /\ To(r, p) /\ req[r].pc = "mine"
  BY WhichRequest DEF Inv, TypeOK, LoadMine, On, Counting, Expiring
<1>3. [req[r] EXCEPT !.pc = p] \in Request
  BY <1>2 DEF LoginRequest, Request, Counting, Expiring
<1> HIDE DEF p
<1>4. req' \in [Reqs -> Request] /\ req'[r] = [req[r] EXCEPT !.pc = p] /\ Others(r)
  BY <1>2, <1>3, ToFacts DEF Inv, Others
<1>a. /\ req'[r].pc = p /\ req'[r].op = req[r].op /\ req'[r].user = req[r].user
      /\ req'[r].on = req[r].on
  BY <1>2, <1>4 DEF LoginRequest
<1>b. TokenKnown'
  BY <1>2, <1>4, <1>a, QuietToken DEF p, LoginRequest
<1>5. SessionHasHolder' /\ CounterExpires'
  <2>1. SessionHasHolder'
    BY <1>2, <1>4, <1>a DEF Inv, SessionHasHolder, Others, On, Valid, LoadMine
  <2> QED BY <1>2, <1>4, <2>1, QuietCounter DEF LoadMine, Expiring, limits
<1>6. Budget'
  BY <1>2, <1>4, <1>a, QuietBudget DEF LoadMine, limits, resets, Passed, p, LoginRequest
<1>7. TypeOK'
  BY <1>1, <1>2, <1>4 DEF Inv, TypeOK, LoadMine, people, logins, limits, resets, rest
<1> QED BY <1>1, <1>b, <1>5, <1>6, <1>7 DEF Inv

LEMMA KeepsAuthenticate == ASSUME Inv, NEW r \in Reqs, Authenticate(r) PROVE Inv'
<1> DEFINE s == req[r].on
           q == [req[r] EXCEPT !.user = sessions[s],
                               !.pc = IF ~Valid(s) THEN "done"
                                      ELSE IF req[r].op = "logout" THEN "revoke" ELSE "me"]
<1>1. MediaInv' /\ MediaTypeOK' /\ Avatars'
  BY NoFiles DEF Authenticate, rest, people
<1>2. req[r] \in LogoutRequest \cup GetMeRequest /\ req[r].pc = "auth"
  BY WhichRequest DEF Inv, TypeOK, Authenticate, On
<1>3. q \in Request /\ q.op # "reset" /\ q.pc # "token"
  <2>1. sessions[s] \in Users \cup {NoOne}
    BY <1>2 DEF Inv, TypeOK, LogoutRequest, GetMeRequest
  <2>2. CASE req[r] \in LogoutRequest
    <3>1. q \in LogoutRequest
      BY <2>1, <2>2 DEF LogoutRequest
    <3> QED BY <3>1 DEF Request, LogoutRequest
  <2>3. CASE req[r] \in GetMeRequest
    <3>1. q \in GetMeRequest
      BY <2>1, <2>3 DEF GetMeRequest
    <3> QED BY <3>1 DEF Request, GetMeRequest
  <2> QED BY <1>2, <2>2, <2>3
<1>4. req' = [req EXCEPT ![r] = q]
  BY DEF Authenticate, Inv, TypeOK
<1>5. req' \in [Reqs -> Request] /\ req'[r] = q /\ Others(r)
  BY <1>3, <1>4 DEF Inv, TypeOK, Others
<1>6. held' = held \/ (held' = held \ {s} /\ ~Valid(s))
  BY DEF Authenticate
<1> HIDE DEF q
<1>7. SessionHasHolder'
  BY <1>2, <1>5, <1>6 DEF Inv, SessionHasHolder, Others, On, Valid, Authenticate
<1>8. CounterExpires' /\ Budget'
  BY <1>2, <1>3, <1>5, QuietCounter, QuietBudget DEF Authenticate, Expiring, limits, resets
<1>b. TokenKnown'
  BY <1>2, <1>3, <1>5, QuietToken
<1>9. TypeOK'
  BY <1>1, <1>5, <1>6 DEF Inv, TypeOK, Authenticate, people, limits, resets, rest
<1> QED BY <1>1, <1>b, <1>7, <1>8, <1>9 DEF Inv

LEMMA KeepsRevoke == ASSUME Inv, NEW r \in Reqs, Revoke(r) PROVE Inv'
<1> DEFINE p == "done"
<1>1. MediaInv' /\ MediaTypeOK' /\ Avatars'
  BY NoFiles DEF Revoke, rest, people
<1>2. req[r] \in LogoutRequest /\ To(r, p) /\ req[r].pc = "revoke"
  BY WhichRequest DEF Inv, TypeOK, Revoke, On, Counting, Expiring
<1>3. [req[r] EXCEPT !.pc = p] \in Request
  BY <1>2 DEF LogoutRequest, Request, Counting, Expiring
<1> HIDE DEF p
<1>4. req' \in [Reqs -> Request] /\ req'[r] = [req[r] EXCEPT !.pc = p] /\ Others(r)
  BY <1>2, <1>3, ToFacts DEF Inv, Others
<1>a. /\ req'[r].pc = p /\ req'[r].op = req[r].op /\ req'[r].user = req[r].user
      /\ req'[r].on = req[r].on
  BY <1>2, <1>4 DEF LogoutRequest
<1>b. TokenKnown'
  BY <1>2, <1>4, <1>a, QuietToken DEF p, LogoutRequest
<1>5. SessionHasHolder' /\ CounterExpires'
  <2>1. SessionHasHolder'
    BY <1>2, <1>4, <1>a DEF Inv, SessionHasHolder, Others, On, Valid, Revoke, TypeOK
  <2> QED BY <1>2, <1>4, <2>1, QuietCounter DEF Revoke, Expiring, limits
<1>6. Budget'
  BY <1>2, <1>4, <1>a, QuietBudget DEF Revoke, limits, resets, Passed, p, LogoutRequest
<1>7. TypeOK'
  BY <1>1, <1>2, <1>4 DEF Inv, TypeOK, Revoke, people, logins, limits, resets, rest
<1> QED BY <1>1, <1>b, <1>5, <1>6, <1>7 DEF Inv

LEMMA KeepsLoadMe == ASSUME Inv, NEW r \in Reqs, LoadMe(r) PROVE Inv'
<1> DEFINE p == IF Active(req[r].user) THEN "done" ELSE "drop"
<1>1. MediaInv' /\ MediaTypeOK' /\ Avatars'
  BY NoFiles DEF LoadMe, rest, people
<1>2. req[r] \in GetMeRequest /\ To(r, p) /\ req[r].pc = "me"
  BY WhichRequest DEF Inv, TypeOK, LoadMe, On, Counting, Expiring
<1>3. [req[r] EXCEPT !.pc = p] \in Request
  BY <1>2 DEF GetMeRequest, Request, Counting, Expiring
<1> HIDE DEF p
<1>4. req' \in [Reqs -> Request] /\ req'[r] = [req[r] EXCEPT !.pc = p] /\ Others(r)
  BY <1>2, <1>3, ToFacts DEF Inv, Others
<1>a. /\ req'[r].pc = p /\ req'[r].op = req[r].op /\ req'[r].user = req[r].user
      /\ req'[r].on = req[r].on
  BY <1>2, <1>4 DEF GetMeRequest
<1>b. TokenKnown'
  BY <1>2, <1>4, <1>a, QuietToken DEF p, GetMeRequest
<1>5. SessionHasHolder' /\ CounterExpires'
  BY <1>2, <1>4, QuietHolder, QuietCounter DEF LoadMe, On, Expiring, limits
<1>6. Budget'
  BY <1>2, <1>4, <1>a, QuietBudget DEF LoadMe, limits, resets, Passed, p, GetMeRequest
<1>7. TypeOK'
  BY <1>1, <1>2, <1>4 DEF Inv, TypeOK, LoadMe, people, logins, limits, resets, rest
<1> QED BY <1>1, <1>b, <1>5, <1>6, <1>7 DEF Inv

LEMMA KeepsRemoveSession == ASSUME Inv, NEW r \in Reqs, RemoveSession(r) PROVE Inv'
<1> DEFINE p == "done"
<1>1. MediaInv' /\ MediaTypeOK' /\ Avatars'
  BY NoFiles DEF RemoveSession, rest, people
<1>2. req[r] \in GetMeRequest /\ To(r, p) /\ req[r].pc = "drop"
  BY WhichRequest DEF Inv, TypeOK, RemoveSession, On, Counting, Expiring
<1>3. [req[r] EXCEPT !.pc = p] \in Request
  BY <1>2 DEF GetMeRequest, Request, Counting, Expiring
<1> HIDE DEF p
<1>4. req' \in [Reqs -> Request] /\ req'[r] = [req[r] EXCEPT !.pc = p] /\ Others(r)
  BY <1>2, <1>3, ToFacts DEF Inv, Others
<1>a. /\ req'[r].pc = p /\ req'[r].op = req[r].op /\ req'[r].user = req[r].user
      /\ req'[r].on = req[r].on
  BY <1>2, <1>4 DEF GetMeRequest
<1>b. TokenKnown'
  BY <1>2, <1>4, <1>a, QuietToken DEF p, GetMeRequest
<1>5. SessionHasHolder' /\ CounterExpires'
  <2>1. SessionHasHolder'
    BY <1>2, <1>4, <1>a DEF Inv, SessionHasHolder, Others, On, Valid, RemoveSession, TypeOK
  <2> QED BY <1>2, <1>4, <2>1, QuietCounter DEF RemoveSession, Expiring, limits
<1>6. Budget'
  BY <1>2, <1>4, <1>a, QuietBudget DEF RemoveSession, limits, resets, Passed, p, GetMeRequest
<1>7. TypeOK'
  BY <1>1, <1>2, <1>4 DEF Inv, TypeOK, RemoveSession, people, logins, limits, resets, rest
<1> QED BY <1>1, <1>b, <1>5, <1>6, <1>7 DEF Inv

-----------------------------------------------------------------------------
(* Resets of passwords.                                                    *)

\* Where a reset counts, the counter is that of the IP address or of the email.
LEMMA KeyIs ==
  ASSUME Inv, NEW r \in Reqs, req[r].pc \in Counting \cup Expiring
  PROVE  /\ req[r] \in ResetRequest /\ Key(r) \in Keys
         /\ req[r].pc \in {"ip", "ip ttl"} => Key(r) \in Addresses /\ Key(r) = req[r].on
         /\ req[r].pc \in {"email", "email ttl"} =>
              Key(r) \in Emails /\ Key(r) = req[r].user /\ Key(r) \notin Addresses
<1>1. req[r] \in ResetRequest
  BY WhichRequest DEF Inv, TypeOK
<1> QED BY <1>1, KeysAssumption DEF ResetRequest, Key, Keys, Counting, Expiring

LEMMA KeepsIncr == ASSUME Inv, NEW r \in Reqs, Incr(r) PROVE Inv'
<1> DEFINE k == Key(r)
           n == count[k] + 1
           p == IF n = 1 THEN SetsTtl(k) ELSE Judge(k, n)
           q == [req[r] EXCEPT !.n = n, !.pc = p]
<1>1. MediaInv' /\ MediaTypeOK' /\ Avatars'
  BY NoFiles DEF Incr, rest, people
<1>2. /\ req[r] \in ResetRequest /\ req[r].pc \in {"ip", "email"} /\ k \in Keys
      /\ req[r].pc = "ip" => k \in Addresses /\ k \notin Emails /\ k = req[r].on
      /\ req[r].pc = "email" => k \in Emails /\ k \notin Addresses /\ k = req[r].user
  BY KeyIs, KeysAssumption DEF Incr, Counting
<1>3. count[k] \in Nat /\ windows[k] \in Nat /\ n \in Nat /\ n > 0
  BY <1>2 DEF Inv, TypeOK
<1>4. /\ count' = [count EXCEPT ![k] = n]
      /\ windows' = [windows EXCEPT ![k] = IF n = 1 THEN windows[k] + 1 ELSE windows[k]]
      /\ req' = [req EXCEPT ![r] = q]
  BY DEF Incr, Inv, TypeOK
<1>5. /\ req[r].pc = "ip" => p \in {"ip ttl", "done", "email"}
      /\ req[r].pc = "email" => p = IF n = 1 THEN "email ttl"
                                    ELSE IF n > EmailLimit THEN "done" ELSE "find"
      /\ p # "token"
      /\ n = 1 => p = IF req[r].pc = "ip" THEN "ip ttl" ELSE "email ttl"
  BY <1>2 DEF SetsTtl, Judge, Limit
<1> HIDE DEF p, n, k
<1>6. /\ q \in ResetRequest /\ q.pc = p /\ q.user = req[r].user /\ q.on = req[r].on
      /\ q.op = "reset" /\ req[r].op = "reset"
  BY <1>2, <1>3, <1>5 DEF ResetRequest, Counting, Expiring
<1> HIDE DEF q
<1>7. req' \in [Reqs -> Request] /\ req'[r] = q /\ Others(r)
  BY <1>4, <1>6 DEF Inv, TypeOK, Request, Others
<1>8. /\ count' \in [Keys -> Nat] /\ windows' \in [Keys -> Nat]
      /\ count'[k] = n /\ \A j \in Keys : j # k => count'[j] = count[j] /\ windows'[j] = windows[j]
      /\ windows'[k] = IF n = 1 THEN windows[k] + 1 ELSE windows[k]
  BY <1>2, <1>3, <1>4 DEF Inv, TypeOK
<1>9. TypeOK'
  BY <1>1, <1>7, <1>8 DEF Inv, TypeOK, Incr, people, logins, resets, rest
<1>10. SessionHasHolder' /\ TokenKnown'
  BY <1>2, <1>5, <1>6, <1>7, QuietHolder, QuietToken DEF Incr, On
<1>11. CounterExpires'
  <2> SUFFICES ASSUME NEW j \in Keys, count'[j] > 0
               PROVE  \/ j \in ttl \cup stuck
                      \/ \E s \in Reqs : req'[s].pc \in Expiring /\ Key(s)' = j
    BY DEF CounterExpires, Incr
  <2>1. CASE j = k /\ n = 1
    <3>1. req'[r].pc \in Expiring
      BY <1>2, <1>5, <1>6, <1>7, <2>1 DEF Expiring
    <3>2. Key(r)' = k
      BY <1>2, <1>5, <1>6, <1>7, <2>1 DEF Key
    <3> QED BY <2>1, <3>1, <3>2
  <2>2. CASE ~(j = k /\ n = 1)
    <3>1. count[j] > 0
      BY <1>3, <1>8, <2>2 DEF n
    <3>2. \A s \in Reqs : req[s].pc \in Expiring =>
            req'[s].pc \in Expiring /\ Key(s)' = Key(s)
      BY <1>2, <1>7 DEF Others, Key, Expiring
    <3> QED BY <3>1, <3>2 DEF Inv, CounterExpires
  <2> QED BY <2>1, <2>2
<1>12. Budget'
  <2>a. EmailLimit \in Nat /\ EmailLimit > 0
    BY LimitsAssumption
  <2>b. UNCHANGED mails
    BY DEF Incr, resets
  <2> SUFFICES ASSUME NEW e \in Emails
               PROVE  /\ IsFiniteSet(Pending(e)')
                      /\ mails[e] + Cardinality(Pending(e)') + Unused(e)' <= EmailLimit * windows'[e]
    BY <2>b DEF Budget
  <2>c. /\ IsFiniteSet(Pending(e)) /\ Cardinality(Pending(e)) \in Nat
        /\ mails[e] + Cardinality(Pending(e)) + Unused(e) <= EmailLimit * windows[e]
        /\ mails[e] \in Nat /\ e \in Keys /\ count[e] \in Nat /\ windows[e] \in Nat
    BY FS_CardinalityType DEF Inv, Budget, TypeOK, Keys
  <2>d. r \notin Pending(e)
    BY <1>2 DEF Pending, Passed
  <2>1. CASE e # k
    <3>1. Pending(e)' = Pending(e)
      <4>1. ~(req'[r].user = e /\ req'[r].pc \in Passed)
        BY <1>2, <1>5, <1>6, <1>7, <2>1 DEF Passed
      <4> QED BY <1>7, <2>d, <4>1 DEF Pending, Others
    <3>2. Unused(e)' = Unused(e)
      BY <1>8, <2>1, <2>c DEF Unused
    <3> QED BY <1>8, <2>1, <2>c, <3>1, <3>2
  <2>2. CASE e = k
    <3>1. req[r].pc = "email" /\ req[r].user = e /\ n = count[e] + 1
      BY <1>2, <2>2 DEF n
    <3>2. CASE n = 1 \/ n <= EmailLimit
      <4>1. Pending(e)' = Pending(e) \cup {r}
        <5>a. n = 1 \/ ~(n > EmailLimit)
          BY <1>3, <2>a, <3>2
        <5>b. p \in Passed
          BY <1>5, <3>1, <5>a DEF Passed
        <5>1. req'[r].op = "reset" /\ req'[r].user = e /\ req'[r].pc \in Passed
          BY <1>6, <1>7, <3>1, <5>b
        <5> QED BY <1>7, <5>1 DEF Pending, Others
      <4>2. /\ IsFiniteSet(Pending(e)')
            /\ Cardinality(Pending(e)') = Cardinality(Pending(e)) + 1
        BY <2>c, <2>d, <4>1, FS_AddElement
      <4>3. CASE n = 1
        <5>1. Unused(e) = 0 /\ Unused(e)' = EmailLimit - 1
          <6>1. count[e] = 0 /\ count'[e] = 1
            BY <1>8, <2>2, <2>c, <3>1, <4>3
          <6>2. Unused(e) = 0
            BY <6>1 DEF Unused
          <6>3. Unused(e)' = IF 1 >= EmailLimit THEN 0 ELSE EmailLimit - 1
            BY <6>1 DEF Unused
          <6> QED BY <2>a, <6>2, <6>3
        <5>2. EmailLimit * windows'[e] = EmailLimit * windows[e] + EmailLimit
          <6>1. \A w \in Nat : EmailLimit * (w + 1) = EmailLimit * w + EmailLimit
            BY <2>a
          <6> QED BY <1>8, <2>2, <2>c, <4>3, <6>1
        <5>3. EmailLimit * windows[e] \in Nat
          BY <2>a, <2>c
        <5> HIDE DEF Unused, Pending
        <5> QED BY <2>a, <2>c, <4>2, <5>1, <5>2, <5>3
      <4>4. CASE n # 1
        <5>1. n <= EmailLimit /\ count[e] > 0
          BY <1>3, <2>c, <3>1, <3>2, <4>4
        <5>2. Unused(e) = EmailLimit - count[e] /\ Unused(e)' = EmailLimit - n
          BY <1>3, <1>8, <2>2, <2>a, <2>c, <3>1, <5>1 DEF Unused
        <5>3. windows'[e] = windows[e] /\ EmailLimit * windows[e] \in Nat
          BY <1>8, <2>2, <2>a, <2>c, <4>4
        <5> HIDE DEF Unused, Pending
        <5> QED BY <1>3, <2>a, <2>c, <3>1, <4>2, <5>2, <5>3
      <4> QED BY <4>3, <4>4
    <3>3. CASE ~(n = 1 \/ n <= EmailLimit)
      <4>1. p = "done" /\ n > EmailLimit
        <5>1. n # 1 /\ n > EmailLimit
          BY <1>3, <2>a, <3>3
        <5> QED BY <1>5, <3>1, <5>1
      <4>2. Pending(e)' = Pending(e)
        BY <1>6, <1>7, <2>d, <4>1 DEF Pending, Others, Passed
      <4>3. Unused(e) = 0 /\ Unused(e)' = 0
        BY <1>8, <2>2, <2>a, <2>c, <3>1, <4>1 DEF Unused
      <4>4. windows'[e] = windows[e]
        BY <1>8, <2>2, <3>3
      <4> QED BY <2>c, <4>2, <4>3, <4>4
    <3> QED BY <3>2, <3>3
  <2> QED BY <2>1, <2>2
<1> QED BY <1>1, <1>9, <1>10, <1>11, <1>12 DEF Inv

LEMMA KeepsExpire == ASSUME Inv, NEW r \in Reqs, Expire(r) PROVE Inv'
<1> DEFINE p == Judge(Key(r), req[r].n)
<1>1. MediaInv' /\ MediaTypeOK' /\ Avatars'
  BY NoFiles DEF Expire, rest, people
<1>2. /\ req[r] \in ResetRequest /\ req[r].pc \in {"ip ttl", "email ttl"} /\ Key(r) \in Keys
      /\ To(r, p) /\ ttl' = ttl \cup {Key(r)} /\ p \in {"done", "email", "find"}
      /\ req[r].pc = "ip ttl" => p # "find"
  BY KeyIs, KeysAssumption DEF Expire, Expiring, Judge
<1> HIDE DEF p
<1>3. [req[r] EXCEPT !.pc = p] \in Request
  BY <1>2 DEF ResetRequest, Request, Counting, Expiring
<1>4. /\ req' \in [Reqs -> Request] /\ req'[r] = [req[r] EXCEPT !.pc = p] /\ Others(r)
  BY <1>2, <1>3, ToFacts DEF Inv, Others
<1>a. req'[r].pc = p /\ req'[r].user = req[r].user /\ req[r].op = "reset"
  BY <1>2, <1>4 DEF ResetRequest
<1>5. SessionHasHolder' /\ TokenKnown'
  BY <1>2, <1>4, <1>a, QuietHolder, QuietToken DEF Expire, On
<1>6. CounterExpires'
  <2>1. \A s \in Reqs : s # r /\ req[s].pc \in Expiring =>
          req'[s].pc \in Expiring /\ Key(s)' = Key(s)
    BY <1>4 DEF Others, Key
  <2> QED BY <1>2, <2>1 DEF Inv, CounterExpires, Expire
<1>7. Budget'
  BY <1>2, <1>4, <1>a, QuietBudget DEF Expire, resets, Passed
<1>8. TypeOK'
  BY <1>1, <1>2, <1>4 DEF Inv, TypeOK, Expire, people, logins, resets, rest
<1> QED BY <1>1, <1>5, <1>6, <1>7, <1>8 DEF Inv

LEMMA KeepsFindEmail == ASSUME Inv, NEW r \in Reqs, FindEmail(r) PROVE Inv'
<1> DEFINE p == IF ~Active(Lower[req[r].user]) THEN "done"
                ELSE IF req[r].op = "reset" THEN "setex" ELSE "write"
<1>1. MediaInv' /\ MediaTypeOK' /\ Avatars'
  BY NoFiles DEF FindEmail, rest, people
<1>2. req[r] \in ResetRequest \cup ConfirmRequest /\ To(r, p) /\ req[r].pc = "find"
  BY WhichRequest DEF Inv, TypeOK, FindEmail, On
<1>3. [req[r] EXCEPT !.pc = p] \in Request
  <2>1. CASE req[r] \in ResetRequest
    BY <2>1 DEF ResetRequest, Request
  <2>2. CASE req[r] \in ConfirmRequest
    BY <2>2 DEF ConfirmRequest, Request
  <2> QED BY <1>2, <2>1, <2>2
<1> HIDE DEF p
<1>4. req' \in [Reqs -> Request] /\ req'[r] = [req[r] EXCEPT !.pc = p] /\ Others(r)
  BY <1>2, <1>3, ToFacts DEF Inv, Others
<1>5. /\ req'[r].op = req[r].op /\ req'[r].user = req[r].user
  BY <1>2, <1>4 DEF ResetRequest, ConfirmRequest
<1>6. SessionHasHolder' /\ CounterExpires'
  BY <1>2, <1>4, QuietHolder, QuietCounter DEF FindEmail, On, Expiring, limits
<1>7. Budget'
  BY <1>2, <1>4, <1>5, QuietBudget DEF FindEmail, limits, resets, Passed
<1>b. TokenKnown'
  <2>1. req'[r].pc = p
    BY <1>2, <1>4 DEF ResetRequest, ConfirmRequest
  <2> QED BY <1>2, <1>4, <2>1, QuietToken DEF p
<1>8. TypeOK'
  BY <1>1, <1>4 DEF Inv, TypeOK, FindEmail, people, logins, limits, resets, rest
<1> QED BY <1>1, <1>b, <1>6, <1>7, <1>8 DEF Inv

LEMMA KeepsSetToken == ASSUME Inv, NEW r \in Reqs, SetToken(r) PROVE Inv'
<1> DEFINE p == "mail"
<1>1. MediaInv' /\ MediaTypeOK' /\ Avatars'
  BY NoFiles DEF SetToken, rest, people
<1>2. req[r] \in ResetRequest /\ To(r, p) /\ req[r].pc = "setex"
  BY WhichRequest DEF Inv, TypeOK, SetToken, On, Counting, Expiring
<1>3. [req[r] EXCEPT !.pc = p] \in Request
  BY <1>2 DEF ResetRequest, Request, Counting, Expiring
<1> HIDE DEF p
<1>4. req' \in [Reqs -> Request] /\ req'[r] = [req[r] EXCEPT !.pc = p] /\ Others(r)
  BY <1>2, <1>3, ToFacts DEF Inv, Others
<1>a. /\ req'[r].pc = p /\ req'[r].op = req[r].op /\ req'[r].user = req[r].user
      /\ req'[r].on = req[r].on
  BY <1>2, <1>4 DEF ResetRequest
<1>b. TokenKnown'
  BY <1>2, <1>4, <1>a, QuietToken DEF p, ResetRequest
<1>5. SessionHasHolder' /\ CounterExpires'
  BY <1>2, <1>4, QuietHolder, QuietCounter DEF SetToken, On, Expiring, limits
<1>6. Budget'
  BY <1>2, <1>4, <1>a, QuietBudget DEF SetToken, limits, resets, Passed, p, ResetRequest
<1>7. TypeOK'
  BY <1>1, <1>2, <1>4 DEF Inv, TypeOK, SetToken, people, logins, limits, resets, rest
<1> QED BY <1>1, <1>b, <1>5, <1>6, <1>7 DEF Inv

LEMMA KeepsSendMail == ASSUME Inv, NEW r \in Reqs, SendMail(r) PROVE Inv'
<1> DEFINE p == "sent"
<1>1. MediaInv' /\ MediaTypeOK' /\ Avatars'
  BY NoFiles DEF SendMail, rest, people
<1>2. req[r] \in ResetRequest /\ To(r, p) /\ req[r].pc = "mail"
  BY WhichRequest DEF Inv, TypeOK, SendMail, On, Counting, Expiring
<1>3. [req[r] EXCEPT !.pc = p] \in Request
  BY <1>2 DEF ResetRequest, Request, Counting, Expiring
<1> HIDE DEF p
<1>4. req' \in [Reqs -> Request] /\ req'[r] = [req[r] EXCEPT !.pc = p] /\ Others(r)
  BY <1>2, <1>3, ToFacts DEF Inv, Others
<1>a. /\ req'[r].pc = p /\ req'[r].op = req[r].op /\ req'[r].user = req[r].user
      /\ req'[r].on = req[r].on
  BY <1>2, <1>4 DEF ResetRequest
<1>b. TokenKnown'
  BY <1>2, <1>4, <1>a, QuietToken DEF p, ResetRequest
<1>5. SessionHasHolder' /\ CounterExpires'
  BY <1>2, <1>4, QuietHolder, QuietCounter DEF SendMail, On, Expiring, limits
<1>6. Budget'
  <2>0. /\ mails' = [mails EXCEPT ![req[r].user] = mails[req[r].user] + 1]
        /\ UNCHANGED <<count, windows>>
    BY DEF SendMail, limits
  <2> SUFFICES ASSUME NEW e \in Emails
               PROVE  /\ IsFiniteSet(Pending(e)')
                      /\ mails'[e] + Cardinality(Pending(e)') + Unused(e)' <= EmailLimit * windows'[e]
    BY DEF Budget
  <2>1. /\ IsFiniteSet(Pending(e)) /\ Cardinality(Pending(e)) \in Nat
        /\ mails[e] + Cardinality(Pending(e)) + Unused(e) <= EmailLimit * windows[e]
        /\ mails[e] \in Nat /\ count[e] \in Nat /\ windows[e] \in Nat /\ EmailLimit \in Nat
    BY FS_CardinalityType, LimitsAssumption DEF Inv, Budget, TypeOK, Keys
  <2>2. Unused(e)' = Unused(e) /\ Unused(e) \in Nat /\ EmailLimit * windows[e] \in Nat
    BY <2>0, <2>1 DEF Unused
  <2>3. CASE req[r].user # e
    <3>1. Pending(e)' = Pending(e)
      BY <1>4, <1>a, <2>3 DEF Pending, Others
    <3>2. mails'[e] = mails[e]
      BY <2>0, <2>3 DEF Inv, TypeOK
    <3> QED BY <2>0, <2>1, <2>2, <3>1, <3>2
  <2>4. CASE req[r].user = e
    <3>1. Pending(e)' = Pending(e) \ {r} /\ r \in Pending(e)
      <4>1. r \in Pending(e)
        BY <1>2, <2>4 DEF Pending, Passed, ResetRequest
      <4>2. req'[r].pc \notin Passed
        BY <1>a DEF Passed, p
      <4>3. Pending(e)' = Pending(e) \ {r}
        BY <1>4, <4>2 DEF Pending, Others
      <4> QED BY <4>1, <4>3
    <3>2. /\ IsFiniteSet(Pending(e)')
          /\ Cardinality(Pending(e)') = Cardinality(Pending(e)) - 1
      BY <2>1, <3>1, FS_RemoveElement
    <3>3. mails'[e] = mails[e] + 1
      BY <2>0, <2>4 DEF Inv, TypeOK
    <3> HIDE DEF Pending, Unused
    <3> QED BY <2>0, <2>1, <2>2, <3>2, <3>3
  <2> QED BY <2>3, <2>4
<1>7. TypeOK'
  BY <1>1, <1>2, <1>4 DEF Inv, TypeOK, SendMail, people, logins, limits, resets, rest, ResetRequest
<1> QED BY <1>1, <1>b, <1>5, <1>6, <1>7 DEF Inv

LEMMA KeepsLapse == ASSUME Inv, NEW k \in Keys, Lapse(k) PROVE Inv'
<1>1. MediaInv' /\ MediaTypeOK' /\ Avatars'
  BY NoFiles DEF Lapse, rest, people
<1>2. /\ count' = [count EXCEPT ![k] = 0] /\ ttl' = ttl \ {k}
      /\ UNCHANGED <<people, logins, stuck, windows, resets, req, rest>>
  BY DEF Lapse
<1>3. TypeOK'
  BY <1>1, <1>2 DEF Inv, TypeOK, people, logins, resets, rest
<1>4. SessionHasHolder' /\ TokenKnown'
  BY <1>2 DEF Inv, logins, SessionHasHolder, TokenKnown, On, Valid
<1>5. CounterExpires'
  <2>1. \A r \in Reqs : Key(r)' = Key(r)
    BY <1>2 DEF Key
  <2>2. \A j \in Keys : count'[j] > 0 => j # k /\ count'[j] = count[j]
    BY <1>2 DEF Inv, TypeOK
  <2> QED BY <1>2, <2>1, <2>2 DEF Inv, CounterExpires
<1>6. Budget'
  <2> SUFFICES ASSUME NEW e \in Emails
               PROVE  /\ IsFiniteSet(Pending(e)')
                      /\ mails'[e] + Cardinality(Pending(e)') + Unused(e)' <= EmailLimit * windows'[e]
    BY DEF Budget
  <2>1. /\ IsFiniteSet(Pending(e)) /\ Cardinality(Pending(e)) \in Nat
        /\ mails[e] + Cardinality(Pending(e)) + Unused(e) <= EmailLimit * windows[e]
        /\ mails[e] \in Nat /\ count[e] \in Nat /\ windows[e] \in Nat /\ EmailLimit \in Nat
    BY FS_CardinalityType, LimitsAssumption DEF Inv, Budget, TypeOK, Keys
  <2>2. Pending(e)' = Pending(e) /\ mails'[e] = mails[e] /\ windows'[e] = windows[e]
    BY <1>2 DEF Pending, resets
  <2>3. /\ Unused(e) \in Nat /\ Unused(e)' \in Nat /\ Unused(e)' <= Unused(e)
        /\ EmailLimit * windows[e] \in Nat
    BY <1>2, <2>1 DEF Unused, Inv, TypeOK, Keys
  <2> HIDE DEF Pending, Unused
  <2> QED BY <2>1, <2>2, <2>3
<1> QED BY <1>1, <1>3, <1>4, <1>5, <1>6 DEF Inv

LEMMA KeepsTokenLapses == ASSUME Inv, NEW t \in Reqs, TokenLapses(t) PROVE Inv'
<1>1. MediaInv' /\ MediaTypeOK' /\ Avatars'
  BY NoFiles DEF TokenLapses, rest, people
<1>2. SessionHasHolder' /\ CounterExpires' /\ Budget' /\ TokenKnown'
  BY NoRequests DEF TokenLapses
<1>3. TypeOK'
  BY <1>1 DEF Inv, TypeOK, TokenLapses, people, logins, limits, rest
<1> QED BY <1>1, <1>2, <1>3 DEF Inv

-----------------------------------------------------------------------------
(* Confirmations of resets.                                                *)

LEMMA KeepsGetToken == ASSUME Inv, NEW r \in Reqs, GetToken(r) PROVE Inv'
<1> DEFINE t == req[r].user
           q == [req[r] EXCEPT !.user = req[t].user, !.pc = IF t \in tokens THEN "find" ELSE "done"]
<1>1. MediaInv' /\ MediaTypeOK' /\ Avatars'
  BY NoFiles DEF GetToken, rest, people
<1>2. req[r] \in TokenRequest /\ req[r].pc = "token" /\ t \in Reqs /\ req[t].pc = "sent"
  BY WhichRequest DEF Inv, TypeOK, GetToken, On, TokenKnown
<1>3. req[t].user \in Emails
  <2>1. req[t] \in ResetRequest
    BY <1>2, WhichRequest DEF Inv, TypeOK
  <2> QED BY <2>1 DEF ResetRequest
<1>4. q \in Request /\ q.op # "reset" /\ q.pc # "token"
  <2>1. q \in ConfirmRequest
    BY <1>2, <1>3 DEF TokenRequest, ConfirmRequest
  <2> QED BY <2>1 DEF Request, ConfirmRequest
<1>5. req' = [req EXCEPT ![r] = q]
  BY DEF GetToken, Inv, TypeOK
<1>6. req' \in [Reqs -> Request] /\ req'[r] = q /\ Others(r)
  BY <1>4, <1>5 DEF Inv, TypeOK, Others
<1> HIDE DEF q
<1>7. SessionHasHolder' /\ CounterExpires' /\ Budget' /\ TokenKnown'
  BY <1>2, <1>4, <1>6, QuietHolder, QuietCounter, QuietBudget, QuietToken
     DEF GetToken, On, Expiring, limits, resets
<1>8. TypeOK'
  BY <1>1, <1>6 DEF Inv, TypeOK, GetToken, people, logins, limits, resets, rest
<1> QED BY <1>1, <1>7, <1>8 DEF Inv

LEMMA KeepsSetPassword == ASSUME Inv, NEW r \in Reqs, SetPassword(r) PROVE Inv'
<1>1. MediaInv' /\ MediaTypeOK' /\ Avatars'
  BY NoFiles DEF SetPassword, rest
<1>2. req[r] \in ConfirmRequest /\ To(r, "done") /\ req[r].pc = "write"
  BY WhichRequest DEF Inv, TypeOK, SetPassword, On
<1>3. [req[r] EXCEPT !.pc = "done"] \in Request
  BY <1>2 DEF ConfirmRequest, Request
<1>4. req' \in [Reqs -> Request] /\ req'[r] = [req[r] EXCEPT !.pc = "done"] /\ Others(r)
  BY <1>2, <1>3, ToFacts DEF Inv, Others
<1>5. req'[r].pc = "done"
  BY <1>2, <1>4 DEF ConfirmRequest
<1>6. SessionHasHolder' /\ CounterExpires' /\ Budget' /\ TokenKnown'
  BY <1>2, <1>4, <1>5, QuietHolder, QuietCounter, QuietBudget, QuietToken
     DEF SetPassword, On, Expiring, limits, resets, Passed
<1>7. password' \in [Users -> Passwords \cup {NoOne}]
  BY <1>2, LowerAssumption DEF Inv, TypeOK, SetPassword, ConfirmRequest
<1>8. TypeOK'
  BY <1>1, <1>4, <1>7 DEF Inv, TypeOK, SetPassword, logins, limits, resets, rest
<1> QED BY <1>1, <1>6, <1>8 DEF Inv

-----------------------------------------------------------------------------
(* Uploads and faults.                                                     *)

LEMMA Arrived == ASSUME Inv, Arrives PROVE started' \in 0 .. MaxReqs /\ faults' = faults
BY BoundsAssumption DEF Inv, TypeOK, Arrives

LEMMA KeepsUploadBegins == ASSUME Inv, NEW u \in Uploads, UploadBegins(u) PROVE Inv'
<1>1. PICK s \in held, x \in Contents, source \in {"", "avatar"} :
        Valid(s) /\ Begin(u, sessions[s], x, source)
  BY DEF UploadBegins
<1>2. sessions[s] \in Users
  BY <1>1 DEF Inv, TypeOK, Valid
<1>3. MediaInv' /\ MediaTypeOK'
  BY <1>1, <1>2, KeepsBegin DEF Inv, MediaInv
<1>4. SessionHasHolder' /\ CounterExpires' /\ Budget' /\ TokenKnown'
  BY NoRequests DEF UploadBegins, resets
<1>5. Avatars'
  BY <1>1 DEF UploadBegins, Begin, people, Inv, Avatars
<1>6. started' \in 0 .. MaxReqs
  BY Arrived DEF UploadBegins
<1>7. TypeOK'
  BY <1>3, <1>6 DEF Inv, TypeOK, UploadBegins, Arrives, people, logins, limits, resets
<1> QED BY <1>3, <1>4, <1>5, <1>7 DEF Inv

LEMMA KeepsEditAvatar == ASSUME Inv, NEW u \in Uploads, EditAvatar(u) PROVE Inv'
<1> USE NamesAssumption
<1>1. /\ up' \in [Uploads -> Upload]
      /\ up'[u].pc = "done" /\ up'[u].what = up[u].what /\ up[u].what \in Contents
      /\ \A v \in Uploads : v # u => up'[v] = up[v]
  BY GoFacts DEF Inv, MediaInv, EditAvatar
<1>2. up[u].pc = "avatar" /\ up[u].what \in rows
  BY DEF EditAvatar, At, Inv, MediaInv, Uploading
<1>3. UNCHANGED <<disk, temp, named, rows, reader, lost, raced, left>>
  BY DEF EditAvatar
<1>4. MediaTypeOK'
  BY <1>1, <1>3 DEF Inv, MediaInv, MediaTypeOK
<1>5. Uploading' /\ NamesTaken'
  BY <1>1, <1>3, NamedIs DEF Inv, MediaInv, Uploading, NamesTaken, DiskDone
<1>a. Reading'
  BY <1>3, ReadingKept DEF Inv, MediaInv, Promised, Excused
<1>6. RowHasFile' /\ NamedFileComplete' /\ Reading'
  BY <1>3, <1>a DEF Inv, MediaInv, RowHasFile, NamedFileComplete
<1>7. TempsHaveOwner'
  BY <1>1, <1>2, <1>3 DEF Inv, MediaInv, MediaTypeOK, TempsHaveOwner, Uploading
<1>8. MediaInv'
  BY <1>4, <1>5, <1>6, <1>7 DEF MediaInv
<1>9. Avatars' /\ avatar' \in [Users -> Contents \cup {NoFile}]
  BY <1>1, <1>2, <1>3 DEF EditAvatar, Inv, Avatars, TypeOK
<1>10. SessionHasHolder' /\ CounterExpires' /\ Budget' /\ TokenKnown'
  BY NoRequests DEF EditAvatar, resets
<1>11. TypeOK'
  BY <1>4, <1>9 DEF Inv, TypeOK, EditAvatar, logins, limits, resets
<1> QED BY <1>8, <1>9, <1>10, <1>11 DEF Inv

LEMMA KeepsMediaStep == ASSUME Inv, MediaStep PROVE Inv'
<1>1. MediaInv /\ UNCHANGED <<people, logins, limits, resets, req, started, faults>>
  BY DEF MediaStep, Inv
<1>2. MediaInv' /\ MediaTypeOK'
  BY <1>1, KeepsBodyEnds, KeepsTooLong, KeepsBodyFails, KeepsNewPathExists, KeepsRemove,
     KeepsRename, KeepsWritten, KeepsWriteLost, KeepsCreate, KeepsUploadFails,
     KeepsGiveUp, KeepsLateRemove,
     KeepsGetStat, KeepsGetSend
     DEF MediaStep, UploadStep, MediaInv
<1>3. rows \subseteq rows'
  BY DEF MediaStep, UploadStep, BodyEnds, TooLong, BodyFails, NewPathExists, Remove, Rename,
         Renamed, Written, WriteLost, Create, UploadFails, GetStat, GetSend,
         GiveUp, LateRename, LateRemove
<1>4. Avatars'
  BY <1>1, <1>3 DEF Inv, Avatars, people
<1>5. SessionHasHolder' /\ CounterExpires' /\ Budget' /\ TokenKnown'
  BY <1>1, NoRequests DEF resets
<1>6. TypeOK'
  BY <1>1, <1>2 DEF Inv, TypeOK, people, logins, limits, resets
<1> QED BY <1>2, <1>4, <1>5, <1>6 DEF Inv

LEMMA FaultCounted == ASSUME Inv, Fault PROVE faults' \in 0 .. MaxFaults /\ started' = started
BY BoundsAssumption DEF Inv, TypeOK, Fault

LEMMA KeepsAbandon == ASSUME Inv, NEW r \in Reqs, Abandon(r) PROVE Inv'
<1>1. MediaInv' /\ MediaTypeOK' /\ Avatars'
  BY NoFiles DEF Abandon, people
<1>2. /\ req[r] \in Request /\ req[r].pc \notin {"off", "done", "sent"} /\ To(r, "done")
  BY DEF Inv, TypeOK, Abandon, InProgress
<1>3. [req[r] EXCEPT !.pc = "done"] \in Request
  BY <1>2, MayEnd
<1>4. req' \in [Reqs -> Request] /\ req'[r] = [req[r] EXCEPT !.pc = "done"] /\ Others(r)
  BY <1>2, <1>3, ToFacts DEF Inv, Others
<1>5. req'[r].pc = "done"
  BY <1>2, <1>4 DEF Request, NotYet, LoginRequest, LogoutRequest, GetMeRequest,
                    ResetRequest, TokenRequest, ConfirmRequest
<1>6. SessionHasHolder'
  BY <1>4 DEF Inv, SessionHasHolder, Abandon, Others, On, Valid
<1>7. CounterExpires'
  <2>1. \A s \in Reqs : s # r /\ req[s].pc \in Expiring =>
          req'[s].pc \in Expiring /\ Key(s)' = Key(s)
    BY <1>4 DEF Others, Key
  <2> QED BY <2>1 DEF Inv, CounterExpires, Abandon
<1>8. Budget' /\ TokenKnown'
  BY <1>2, <1>4, <1>5, QuietBudget, QuietToken DEF Abandon, resets, Passed
<1>9. stuck' \subseteq Keys
  BY KeyIs DEF Inv, TypeOK, Abandon
<1>10. TypeOK'
  BY <1>1, <1>4, <1>9, FaultCounted DEF Inv, TypeOK, Abandon, people, resets
<1> QED BY <1>1, <1>6, <1>7, <1>8, <1>10 DEF Inv

LEMMA KeepsLogoutBlind == ASSUME Inv, NEW r \in Reqs, LogoutBlind(r) PROVE Inv'
<1>1. MediaInv' /\ MediaTypeOK' /\ Avatars'
  BY NoFiles DEF LogoutBlind, people
<1>2. /\ req[r] \in LogoutRequest /\ req[r].pc = "auth" /\ To(r, "done")
      /\ req[r].on \in Reqs
  <2>1. req[r] \in LogoutRequest
    BY WhichRequest DEF Inv, TypeOK, LogoutBlind, On, GetMeRequest
  <2> QED BY <2>1 DEF LogoutBlind, On, LogoutRequest
<1>3. [req[r] EXCEPT !.pc = "done"] \in Request
  BY <1>2, MayEnd DEF Request
<1>4. req' \in [Reqs -> Request] /\ req'[r] = [req[r] EXCEPT !.pc = "done"] /\ Others(r)
  BY <1>2, <1>3, ToFacts DEF Inv, Others
<1>5. req'[r].pc = "done"
  BY <1>2, <1>4 DEF LogoutRequest
<1>6. held' = held \ {req[r].on} /\ orphan' = orphan \cup {req[r].on} /\ UNCHANGED sessions
  BY DEF LogoutBlind
<1>7. SessionHasHolder'
  BY <1>2, <1>4, <1>6 DEF Inv, SessionHasHolder, Others, On, Valid
<1>8. CounterExpires' /\ Budget' /\ TokenKnown'
  BY <1>2, <1>4, <1>5, QuietCounter, QuietBudget, QuietToken
     DEF LogoutBlind, limits, resets, Passed, Expiring
<1>9. TypeOK'
  BY <1>1, <1>2, <1>4, <1>6, FaultCounted DEF Inv, TypeOK, LogoutBlind, people, limits, resets
<1> QED BY <1>1, <1>7, <1>8, <1>9 DEF Inv

LEMMA KeepsRestart == ASSUME Inv, Restart PROVE Inv'
<1>1. MediaInv' /\ MediaTypeOK'
  BY KeepsMediaRestart DEF Inv, Restart, MediaInv
<1>2. Avatars'
  BY DEF Inv, Avatars, Restart, MediaRestart, people
<1>3. \A r \in Reqs : req[r].pc \notin {"off", "done", "sent"} =>
        req'[r] = [req[r] EXCEPT !.pc = "done"]
  BY DEF Restart, InProgress
<1>4. \A r \in Reqs : req[r].pc \in {"off", "done", "sent"} => req'[r] = req[r]
  BY DEF Restart, InProgress
<1>5. req' \in [Reqs -> Request]
  <2>1. \A r \in Reqs : req'[r] \in Request
    <3> SUFFICES ASSUME NEW r \in Reqs PROVE req'[r] \in Request
      OBVIOUS
    <3>1. req[r] \in Request
      BY DEF Inv, TypeOK
    <3>2. CASE req[r].pc \in {"off", "done", "sent"}
      BY <1>4, <3>1, <3>2
    <3>3. CASE req[r].pc \notin {"off", "done", "sent"}
      BY <1>3, <3>1, <3>3, MayEnd
    <3> QED BY <3>2, <3>3
  <2>2. req' = [r \in Reqs |-> req'[r]]
    BY DEF Restart
  <2> QED BY <2>1, <2>2
<1>6. \A r \in Reqs : req[r].pc \notin {"off", "sent"} => req'[r].pc = "done"
  <2> SUFFICES ASSUME NEW r \in Reqs, req[r].pc \notin {"off", "sent"} PROVE req'[r].pc = "done"
    OBVIOUS
  <2>1. req[r] \in Request
    BY DEF Inv, TypeOK
  <2>2. [req[r] EXCEPT !.pc = "done"].pc = "done"
    BY <2>1 DEF Request, NotYet, LoginRequest, LogoutRequest, GetMeRequest,
                ResetRequest, TokenRequest, ConfirmRequest
  <2> QED BY <1>3, <1>4, <2>2
<1>7. SessionHasHolder'
  <2>1. \A s \in Reqs : Valid(s)' = Valid(s)
    BY DEF Restart, Valid
  <2>2. held' = held /\ orphan' = orphan \cup {r \in Reqs : On(r, "mine")}
    BY DEF Restart
  <2> QED BY <2>1, <2>2 DEF Inv, SessionHasHolder
<1>8. CounterExpires'
  <2>1. \A r \in Reqs : req[r].pc \in Expiring => Key(r) \in stuck'
    BY DEF Restart
  <2>2. stuck \subseteq stuck' /\ UNCHANGED <<count, ttl>>
    BY DEF Restart
  <2> QED BY <2>1, <2>2 DEF Inv, CounterExpires
<1>9. Budget'
  <2>1. \A e \in Emails : Pending(e)' \subseteq Pending(e)
    BY <1>4, <1>6 DEF Pending, Passed
  <2> QED BY <2>1, FewerPending DEF Restart, resets
<1>10. TokenKnown'
  <2>1. \A r \in Reqs : req'[r].pc # "token"
    BY <1>4, <1>6
  <2> QED BY <2>1 DEF TokenKnown, On
<1>11. stuck' \subseteq Keys /\ orphan' \subseteq Reqs
  <2>1. \A r \in Reqs : req[r].pc \in Expiring => Key(r) \in Keys
    BY KeyIs
  <2>2. stuck \subseteq Keys /\ orphan \subseteq Reqs
    BY DEF Inv, TypeOK
  <2> QED BY <2>1, <2>2 DEF Restart
<1>12. TypeOK'
  BY <1>1, <1>5, <1>11, FaultCounted DEF Inv, TypeOK, Restart, people, resets
<1> QED BY <1>1, <1>2, <1>7, <1>8, <1>9, <1>10, <1>12 DEF Inv

LEMMA InitInv == Init => Inv
<1> SUFFICES ASSUME Init PROVE Inv
  OBVIOUS
<1>1. MediaInv
  BY StartsMedia DEF Init
<1>2. Idle \in Request /\ Idle.pc = "off" /\ Idle.op = ""
  BY DEF Idle, Request, NotYet
<1>3. \A r \in Reqs : req[r] = Idle
  BY DEF Init
<1>4. TypeOK
  <2>1. req \in [Reqs -> Request]
    BY <1>2 DEF Init
  <2>2. started \in 0 .. MaxReqs /\ faults \in 0 .. MaxFaults
    BY BoundsAssumption DEF Init
  <2>3. /\ count \in [Keys -> Nat] /\ windows \in [Keys -> Nat] /\ mails \in [Emails -> Nat]
        /\ password \in [Users -> Passwords \cup {NoOne}]
        /\ avatar \in [Users -> Contents \cup {NoFile}]
        /\ sessions \in [Reqs -> Users \cup {NoOne}]
    BY DEF Init
  <2>4. /\ inactive \subseteq Users /\ held \subseteq Reqs /\ orphan \subseteq Reqs
        /\ tokens \subseteq Reqs /\ ttl \subseteq Keys /\ stuck \subseteq Keys
    BY DEF Init
  <2> QED BY <1>1, <2>1, <2>2, <2>3, <2>4 DEF MediaInv, TypeOK
<1>5. Avatars /\ SessionHasHolder /\ CounterExpires
  BY NamesAssumption DEF Init, Avatars, SessionHasHolder, CounterExpires, Valid
<1>6. TokenKnown
  BY <1>2, <1>3 DEF TokenKnown, On
<1>7. Budget
  <2> SUFFICES ASSUME NEW e \in Emails
               PROVE  /\ IsFiniteSet(Pending(e))
                      /\ mails[e] + Cardinality(Pending(e)) + Unused(e) <= EmailLimit * windows[e]
    BY DEF Budget
  <2>1. Pending(e) = {}
    BY <1>2, <1>3 DEF Pending
  <2>2. mails[e] = 0 /\ windows[e] = 0 /\ Unused(e) = 0 /\ EmailLimit \in Nat
    BY LimitsAssumption DEF Init, Unused, Keys
  <2> QED BY <2>1, <2>2, FS_EmptySet
<1> QED BY <1>1, <1>4, <1>5, <1>6, <1>7 DEF Inv

LEMMA NextInv == Inv /\ [Next]_vars => Inv'
<1> SUFFICES ASSUME Inv, [Next]_vars PROVE Inv'
  OBVIOUS
<1>1. ASSUME NEW u \in Users, Register(u) \/ Deactivate(u) PROVE Inv'
  BY <1>1, KeepsRegister, KeepsDeactivate
<1>2. ASSUME NEW r \in Reqs, Login(r) \/ Logout(r) \/ GetMe(r) \/ Edit(r) \/ Reset(r) \/ Confirm(r)
      PROVE  Inv'
  BY <1>2, KeepsArrival, KeepsEdit
<1>3. ASSUME NEW r \in Reqs, Step(r) PROVE Inv'
  BY <1>3, KeepsCheck, KeepsStartSession, KeepsLoadMine, KeepsAuthenticate, KeepsRevoke,
     KeepsLoadMe, KeepsRemoveSession, KeepsIncr, KeepsExpire, KeepsFindEmail, KeepsSetToken,
     KeepsSendMail, KeepsGetToken, KeepsSetPassword DEF Step
<1>4. ASSUME NEW r \in Reqs, Abandon(r) \/ LogoutBlind(r) \/ TokenLapses(r) PROVE Inv'
  BY <1>4, KeepsAbandon, KeepsLogoutBlind, KeepsTokenLapses
<1>5. ASSUME NEW k \in Keys, Lapse(k) PROVE Inv'
  BY <1>5, KeepsLapse
<1>6. ASSUME NEW u \in Uploads, UploadBegins(u) \/ EditAvatar(u) PROVE Inv'
  BY <1>6, KeepsUploadBegins, KeepsEditAvatar
<1>7. CASE MediaStep \/ Restart
  BY <1>7, KeepsMediaStep, KeepsRestart
<1>8. CASE UNCHANGED vars
  <2>1. UNCHANGED <<avatar, mediaVars>> /\ UNCHANGED <<logins, limits, mails, req>>
    BY <1>8 DEF vars, people, resets, rest
  <2>2. TypeOK'
    BY <1>8, <2>1, NoFiles DEF Inv, TypeOK, vars, people, logins, limits, resets, rest
  <2> QED BY <2>1, <2>2, NoFiles, NoRequests DEF Inv
<1> QED BY <1>1, <1>2, <1>3, <1>4, <1>5, <1>6, <1>7, <1>8 DEF Next

LEMMA SpecInv == Spec => []Inv
BY InitInv, NextInv, PTL DEF Spec

-----------------------------------------------------------------------------
(* The invariants that the runs check.                                     *)

\* Accounts, requests and files keep their types: a request has at each of its steps
\* what that step reads, whatever was abandoned and however often the server restarts.
THEOREM TypeCorrect == Spec => []TypeOK
<1>1. Inv => TypeOK
  BY DEF Inv
<1> QED BY <1>1, SpecInv, PTL

\* No row of media, and no avatar, refers to a file that is not there.
THEOREM FilesStay == Spec => []FilesThere
<1>1. Inv => FilesThere
  BY DEF Inv, MediaInv, Avatars, FilesThere
<1> QED BY <1>1, SpecInv, PTL

\* Named files are complete but for a last write that is pending or failed; temporary
\* ones have an upload in progress, or one that ended early.
THEOREM DirectoryStays == Spec => []DirectoryInOrder
<1>1. Inv => DirectoryInOrder
  BY DEF Inv, MediaInv, DirectoryInOrder
<1> QED BY <1>1, SpecInv, PTL

\* A get that announces the whole length sends the whole file unless an upload of the
\* same content was renamed over it, and one that announces or sends part of a file
\* for good does so on account of a last write that failed, or of such a rename.
THEOREM GetSendsWhole == Spec => []GetIsWhole
<1>1. ASSUME Inv, Answered PROVE Sent(reader.from, reader.announced, reader.sent)
  <2>1. Reading /\ reader.pc = "idle" /\ "sent" \in DOMAIN reader
    BY <1>1 DEF Inv, MediaInv, Answered
  <2>2. \A p : reader # [pc |-> p]
    BY <2>1
  <2>3. \A x, s : reader # [pc |-> "send", what |-> x, size |-> s]
    BY <2>1
  <2>4. PICK f \in Uploads, s \in Amounts, z \in Amounts :
          reader = [pc |-> "idle", from |-> f, announced |-> s, sent |-> z] /\ Sent(f, s, z)
    BY <2>1, <2>2, <2>3 DEF Reading
  <2>5. reader.from = f /\ reader.announced = s /\ reader.sent = z
    BY <2>4
  <2> QED BY <2>4, <2>5
<1>2. Inv => GetIsWhole
  BY <1>1 DEF GetIsWhole, Sent
<1> QED BY <1>2, SpecInv, PTL

\* Every session has somebody who can end it, but for logins that broke off and logouts
\* that could not read the session and cleared the cookie all the same.
THEOREM SessionsEnd == Spec => []SessionHasHolder
<1>1. Inv => SessionHasHolder
  BY DEF Inv
<1> QED BY <1>1, SpecInv, PTL

\* A running counter of resets expires, unless its handler broke off before EXPIRE.
THEOREM CountersEnd == Spec => []CounterExpires
<1>1. Inv => CounterExpires
  BY DEF Inv
<1> QED BY <1>1, SpecInv, PTL

\* No spelling of an address is sent more mails than the limit for each time its own
\* counter began.
THEOREM MailsLimited == Spec => []MailsPerWindow
<1>1. ASSUME Inv, NEW e \in Emails PROVE mails[e] <= EmailLimit * windows[e]
  <2>1. /\ Cardinality(Pending(e)) \in Nat /\ mails[e] \in Nat
        /\ mails[e] + Cardinality(Pending(e)) + Unused(e) <= EmailLimit * windows[e]
        /\ count[e] \in Nat /\ windows[e] \in Nat /\ EmailLimit \in Nat
    BY <1>1, FS_CardinalityType, LimitsAssumption DEF Inv, Budget, TypeOK, Keys
  <2>2. Unused(e) \in Nat /\ EmailLimit * windows[e] \in Nat
    BY <2>1 DEF Unused
  <2> HIDE DEF Unused, Pending
  <2> QED BY <2>1, <2>2
<1>2. Inv => MailsPerWindow
  BY <1>1 DEF MailsPerWindow
<1> QED BY <1>2, SpecInv, PTL
=============================================================================

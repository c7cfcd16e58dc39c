-------------------------------- MODULE Media --------------------------------
(***************************************************************************)
(* Uploaded files: upload, media_upload and get of media/handlers.rs, the  *)
(* directory they work in and the table media.                             *)
(*                                                                         *)
(* An upload writes a temporary file of its own, hashes it on the way, and *)
(* renames it to its hash unless that name exists; then the row goes in.   *)
(* tokio's File answers a write before it is on disk, and the file is      *)
(* neither flushed nor synced: the last write of an upload is done, or     *)
(* fails unseen, behind the rename.  tokio::fs has a thread do a removal   *)
(* or a rename, which happens also when nobody waits for it any more.      *)
(*                                                                         *)
(* A content stands for its bytes and its extension, so for its name; the  *)
(* rows of one file are alike and kept as one.  An upload is also the name *)
(* of the file (the inode) that it writes, and happens once.  Uploads are  *)
(* numbered as they begin.                                                 *)
(***************************************************************************)
EXTENDS Naturals, FiniteSets

CONSTANTS Uploads,    \* calls of upload
          Contents,   \* what may be uploaded
          Users,
          NoFile, NoOne

ASSUME NamesAssumption == NoFile \notin Uploads /\ NoOne \notin Users
ASSUME ContentsAssumption == Contents # {}

VARIABLES up,      \* where each upload is, and its locals
          disk,    \* how much of the file of each upload is on disk
          temp,    \* temporary names in the directory
          named,   \* the file under the name of each content
          rows,    \* contents that have a row in the table media
          reader,  \* one call of get
          lost,    \* history: files whose last write failed
          raced,   \* history: uploads that looked for a name before another renamed to it
          left     \* history: uploads that ended early and left their temporary file

mediaVars == <<up, disk, temp, named, rows, reader, lost, raced, left>>

Steps == {"body", "hash", "remove", "rename", "create"}
Late == {"late_remove", "late_rename"}  \* nobody waits for the thread any more
Upload == [pc : Steps \cup Late \cup {"off", "avatar", "done"}, by : Users \cup {NoOne},
           what : Contents, source : {"", "avatar"}]

MediaInit ==
  /\ up = [u \in Uploads |-> [pc |-> "off", by |-> NoOne, source |-> "",
                              what |-> CHOOSE x \in Contents : TRUE]]
  /\ disk = [u \in Uploads |-> "none"]
  /\ temp = {}
  /\ named = [x \in Contents |-> NoFile]
  /\ rows = {}
  /\ reader = [pc |-> "idle"]
  /\ lost = {} /\ raced = {} /\ left = {}

At(u, pc) == up[u].pc = pc
Go(u, pc) == up' = [up EXCEPT ![u].pc = pc]

-----------------------------------------------------------------------------
(* upload.                                                                 *)

\* upload_params has accepted the name; File::create makes the temporary file.
Begin(u, user, x, source) ==
  /\ At(u, "off") /\ \A v \in Uploads : v < u => ~At(v, "off")
  /\ up' = [up EXCEPT ![u] = [pc |-> "body", by |-> user, what |-> x, source |-> source]]
  /\ disk' = [disk EXCEPT ![u] = "part"]
  /\ temp' = temp \cup {u}
  /\ UNCHANGED <<named, rows, reader, lost, raced, left>>

\* The body ends.  Each write has waited for the one before it; the last is with
\* the thread that does it.
BodyEnds(u) ==
  /\ At(u, "body")
  /\ disk' = [disk EXCEPT ![u] = "sent"]
  /\ Go(u, "hash")
  /\ UNCHANGED <<temp, named, rows, reader, lost, raced, left>>

TooLong(u) ==                            \* size > max_size
  /\ At(u, "body")
  /\ temp' = temp \ {u}
  /\ Go(u, "done")
  /\ UNCHANGED <<disk, named, rows, reader, lost, raced, left>>

\* Defect: the error of write_all is ignored.
BodyFailsUnseen(u) ==
  /\ At(u, "body")
  /\ Go(u, "hash")
  /\ UNCHANGED <<disk, temp, named, rows, reader, lost, raced, left>>

\* The client breaks off, write_all reports that an earlier write failed, or the
\* removal of TooLong fails, which is ignored.
BodyFails(u) ==
  /\ At(u, "body")
  /\ Go(u, "done")
  /\ left' = left \cup {u}
  /\ UNCHANGED <<disk, temp, named, rows, reader, lost, raced>>

\* Defect: the name is taken without a look whether it exists.
NewPathUnchecked(u) ==
  /\ At(u, "hash")
  /\ Go(u, "rename")
  /\ UNCHANGED <<disk, temp, named, rows, reader, lost, raced, left>>

NewPathExists(u) ==                      \* duplicate
  /\ At(u, "hash")
  /\ Go(u, IF named[up[u].what] # NoFile THEN "remove" ELSE "rename")
  /\ UNCHANGED <<disk, temp, named, rows, reader, lost, raced, left>>

\* Defect: it removes the file that has the name.
RemoveNamed(u) ==
  /\ At(u, "remove")
  /\ named' = [named EXCEPT ![up[u].what] = NoFile]
  /\ Go(u, "create")
  /\ UNCHANGED <<disk, temp, rows, reader, lost, raced, left>>

Remove(u) ==
  /\ At(u, "remove")
  /\ temp' = temp \ {u}
  /\ Go(u, "create")
  /\ UNCHANGED <<disk, named, rows, reader, lost, raced, left>>

\* Those that will rename over u have not looked since.
Renamed(u, next) ==
  /\ named' = [named EXCEPT ![up[u].what] = u]
  /\ temp' = temp \ {u}
  /\ Go(u, next)
  /\ raced' = raced \cup {v \in Uploads \ {u} : /\ up[v].pc \in {"rename", "late_rename"}
                                               /\ up[v].what = up[u].what}
  /\ UNCHANGED <<disk, rows, reader, lost, left>>

Rename(u) == At(u, "rename") /\ Renamed(u, "create")

-----------------------------------------------------------------------------
(* The disk and the threads that work for tokio::fs.                       *)

\* The client is gone while a thread has the removal or the rename to do.
GiveUp(u) ==
  /\ up[u].pc \in {"remove", "rename"}
  /\ left' = left \cup {u}
  /\ Go(u, IF At(u, "rename") THEN "late_rename" ELSE "late_remove")
  /\ UNCHANGED <<disk, temp, named, rows, reader, lost, raced>>

LateRename(u) == At(u, "late_rename") /\ Renamed(u, "done")

LateRemove(u) ==
  /\ At(u, "late_remove")
  /\ temp' = temp \ {u}
  /\ Go(u, "done")
  /\ UNCHANGED <<disk, named, rows, reader, lost, raced, left>>

Written(u) ==
  /\ disk[u] = "sent"
  /\ disk' = [disk EXCEPT ![u] = "whole"]
  /\ UNCHANGED <<up, temp, named, rows, reader, lost, raced, left>>

WriteLost(u) ==                          \* the disk is full: nobody asks any more
  /\ disk[u] = "sent"
  /\ disk' = [disk EXCEPT ![u] = "part"]
  /\ lost' = lost \cup {u}
  /\ UNCHANGED <<up, temp, named, rows, reader, raced, left>>

-----------------------------------------------------------------------------
(* media_upload and edit_avatar after it, and get.                         *)

\* MediaFile::create.  edit_avatar goes on to edit the user.
Create(u) ==
  /\ At(u, "create")
  /\ rows' = rows \cup {up[u].what}
  /\ Go(u, IF up[u].source = "avatar" THEN "avatar" ELSE "done")
  /\ UNCHANGED <<disk, temp, named, reader, lost, raced, left>>

\* The disk or the database fails, or the client is gone, after the file has its name
\* or before.
UploadFails(u) ==
  /\ up[u].pc \in Steps \cup {"avatar"}
  /\ left' = left \cup ({u} \cap temp)
  /\ Go(u, "done")
  /\ UNCHANGED <<disk, temp, named, rows, reader, lost, raced>>

\* The length announced is that of the file now.
GetStat(x) ==
  /\ reader.pc = "idle" /\ x \in rows
  /\ reader' = IF named[x] = NoFile THEN [pc |-> "not found"]
               ELSE [pc |-> "send", what |-> x, size |-> disk[named[x]]]
  /\ UNCHANGED <<up, disk, temp, named, rows, lost, raced, left>>

\* The task of send_file opens the name again and reads to the end.
GetSend ==
  /\ reader.pc = "send"
  /\ LET f == named[reader.what]
     IN reader' = [pc |-> "idle", from |-> f, announced |-> reader.size, sent |-> disk[f]]
  /\ UNCHANGED <<up, disk, temp, named, rows, lost, raced, left>>

\* A restart: nothing of the queue of writes is known to be done.
MediaRestart ==
  LET asked == {u \in Uploads : disk[u] = "sent"}
  IN \E done \in SUBSET asked :
       /\ disk' = [u \in Uploads |-> IF u \notin asked THEN disk[u]
                                     ELSE IF u \in done THEN "whole" ELSE "part"]
       /\ lost' = lost \cup (asked \ done)
       /\ up' = [u \in Uploads |-> IF At(u, "off") THEN up[u] ELSE [up[u] EXCEPT !.pc = "done"]]
       /\ left' = left \cup temp
       /\ reader' = [pc |-> "idle"]
       /\ UNCHANGED <<temp, named, rows, raced>>

UploadStep(u) == \/ BodyEnds(u) \/ NewPathExists(u) \/ Remove(u) \/ Rename(u) \/ Create(u)

-----------------------------------------------------------------------------
(* Properties.                                                             *)

MediaTypeOK ==
  /\ up \in [Uploads -> Upload]
  /\ disk \in [Uploads -> {"none", "part", "sent", "whole"}]
  /\ temp \subseteq Uploads
  /\ named \in [Contents -> Uploads \cup {NoFile}]
  /\ rows \subseteq Contents
  /\ lost \subseteq Uploads /\ raced \subseteq Uploads /\ left \subseteq Uploads

\* A row of media names a file that is there: nothing removes a named file and the
\* row goes in after the name is taken, so that get and every avatar find theirs.
RowHasFile == \A x \in rows : named[x] # NoFile

\* A get that announced the whole length sends the whole file, unless an upload of
\* the same content, which had looked before there was a file, renamed over it.  One
\* that announced or sent part of a file for good did so because the last write of
\* that file, or of the one renamed over, failed: the upload of neither broke off.
\* While the last write is pending a get may announce less, and send more or less.
Answered == reader.pc = "idle" /\ "sent" \in DOMAIN reader
GetIsWhole ==
  Answered =>
    /\ reader.announced = "whole" /\ reader.sent # "whole" => reader.from \in raced
    /\ reader.announced = "part" => reader.from \in lost \cup raced
    /\ reader.sent = "part" => reader.from \in lost

\* A file has its name only with all of its content, but for a last write that is
\* still to be done or failed after the hash was taken; an upload whose body broke
\* off never gets there.  Temporary names belong to uploads in progress, or to those
\* that ended early: every other end clears its own away.
NamedFileComplete ==
  \A x \in Contents : named[x] # NoFile =>
    disk[named[x]] \in {"sent", "whole"} \/ named[x] \in lost
TempsHaveOwner == \A u \in temp : up[u].pc \in Steps \/ u \in left
DirectoryInOrder == NamedFileComplete /\ TempsHaveOwner
=============================================================================

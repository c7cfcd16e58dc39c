------------------------------ MODULE Accounts ------------------------------
(***************************************************************************)
(* The accounts of users: users/handlers.rs over users/models.rs, the      *)
(* sessions in Redis (session.rs), the limits on password resets, and      *)
(* uploads (Media), which need a session and may end as an avatar.         *)
(*                                                                         *)
(* A handler interleaves at its queries and at its Redis commands.  A      *)
(* request happens once and they are numbered as they start; the session   *)
(* that a login starts and the token that a reset makes are fresh UUIDs    *)
(* and bear the request's number.                                          *)
(* Nickname, bio and settings are data that nothing depends on.            *)
(***************************************************************************)
EXTENDS Media

CONSTANTS Reqs,        \* calls of the handlers that take several steps
          Emails,      \* addresses as they are typed, in upper or lower case
          Lower,       \* the user registered under each, as to_ascii_lowercase finds it
          Addresses,   \* what get_ip returns
          Passwords,
          IpLimit, EmailLimit,   \* 3 and 2 in the code
          MaxReqs,     \* bound: requests and uploads started
          MaxFaults    \* bound: handlers abandoned and restarts

ASSUME KeysAssumption == Emails \cap Addresses = {} /\ NoOne \notin Passwords
ASSUME LowerAssumption == Lower \in [Emails -> Users]
ASSUME NumbersAssumption == Reqs \subseteq Nat /\ Uploads \subseteq Nat
ASSUME LimitsAssumption == {IpLimit, EmailLimit} \subseteq Nat \ {0}
ASSUME BoundsAssumption == MaxReqs \in Nat /\ MaxFaults \in Nat

Keys == Emails \cup Addresses      \* email_limit counts under what was typed
Limit(k) == IF k \in Emails THEN EmailLimit ELSE IpLimit

VARIABLES password,   \* rows of the table users: the password, or NoOne
          avatar,     \* and the media they refer to
          inactive,   \* rows with deactivated = true
          sessions,   \* Redis: the user of each session, or NoOne
          held,       \* sessions whose token a client has
          count,      \* Redis: the counters of ip_limit and email_limit
          ttl,        \* those that will expire
          tokens,     \* Redis: reset tokens
          mails,      \* mails sent to each address as typed
          req,        \* where each request is, and its locals
          orphan,     \* history: sessions of logins that broke off, and those whose
                      \* logout cleared the cookie without having read the session
          stuck,      \* history: counters left without a time to live
          windows,    \* history: how often a counter began at 1
          started, faults

people == <<password, avatar, inactive>>
logins == <<sessions, held, orphan>>
limits == <<count, ttl, stuck, windows>>
resets == <<tokens, mails>>
rest == <<started, faults, mediaVars>>
vars == <<people, logins, limits, resets, req, rest>>

Idle == [pc |-> "off", op |-> "", user |-> NoOne, on |-> NoOne, n |-> 0]

Init ==
  /\ MediaInit
  /\ password = [u \in Users |-> NoOne]
  /\ avatar = [u \in Users |-> NoFile]
  /\ inactive = {}
  /\ sessions = [s \in Reqs |-> NoOne]
  /\ held = {} /\ orphan = {}
  /\ count = [k \in Keys |-> 0]
  /\ ttl = {} /\ stuck = {}
  /\ windows = [k \in Keys |-> 0]
  /\ tokens = {}
  /\ mails = [e \in Emails |-> 0]
  /\ req = [r \in Reqs |-> Idle]
  /\ started = 0 /\ faults = 0

Active(u) == password[u] # NoOne /\ u \notin inactive     \* what get.sql finds
Valid(s) == sessions[s] # NoOne

On(r, pc) == req[r].pc = pc
To(r, pc) == req' = [req EXCEPT ![r].pc = pc]
Arrives == started < MaxReqs /\ started' = started + 1 /\ UNCHANGED faults
Start(r, op, user, on, pc) ==
  /\ Arrives
  /\ On(r, "off") /\ \A q \in Reqs : q < r => ~On(q, "off")
  /\ req' = [req EXCEPT ![r] = [pc |-> pc, op |-> op, user |-> user, on |-> on, n |-> 0]]
  /\ UNCHANGED <<people, logins, limits, resets, mediaVars>>

-----------------------------------------------------------------------------
(* register, edit, login, logout, get_me.                                  *)

Register(u) ==                           \* create.sql; name and email are unique
  /\ Arrives
  /\ password[u] = NoOne
  /\ \E p \in Passwords : password' = [password EXCEPT ![u] = p]
  /\ UNCHANGED <<avatar, inactive, logins, limits, resets, req, mediaVars>>

Deactivate(u) ==                         \* by an administrator: no handler does it
  /\ Arrives
  /\ Active(u)
  /\ inactive' = inactive \cup {u}
  /\ UNCHANGED <<password, avatar, logins, limits, resets, req, mediaVars>>

Edit(s) ==                               \* the avatar must refer to a row
  /\ Arrives
  /\ s \in held /\ Valid(s)
  /\ \E x \in rows : avatar' = [avatar EXCEPT ![sessions[s]] = x]
  /\ UNCHANGED <<password, inactive, logins, limits, resets, req, mediaVars>>

Login(r) == \E u \in Users, p \in Passwords : Start(r, "login", u, p, "check")
Logout(r) == \E s \in held : Start(r, "logout", NoOne, s, "auth")
GetMe(r)  == \E s \in held : Start(r, "get_me", NoOne, s, "auth")

\* login.sql
Check(r) ==
  /\ On(r, "check")
  /\ LET u == req[r].user
     IN To(r, IF Active(u) /\ password[u] = req[r].on THEN "start" ELSE "done")
  /\ UNCHANGED <<people, logins, limits, resets, rest>>

StartSession(r) ==
  /\ On(r, "start")
  /\ sessions' = [sessions EXCEPT ![r] = req[r].user]
  /\ To(r, "mine")
  /\ UNCHANGED <<people, held, orphan, limits, resets, rest>>

\* login reads spaces, channels and settings, and its reply takes the token along.
LoadMine(r) ==
  /\ On(r, "mine")
  /\ held' = held \cup {r}
  /\ To(r, "done")
  /\ UNCHANGED <<people, sessions, orphan, limits, resets, rest>>

\* session::authenticate.  A logout without a session clears the cookie all the same,
\* and so it does when the session could not be read (LogoutBlind).
Authenticate(r) ==
  /\ On(r, "auth")
  /\ LET s == req[r].on
         out == req[r].op = "logout"
     IN /\ req' = [req EXCEPT ![r].user = sessions[s],
                     ![r].pc = IF ~Valid(s) THEN "done" ELSE IF out THEN "revoke" ELSE "me"]
        /\ held' = IF out /\ ~Valid(s) THEN held \ {s} ELSE held
  /\ UNCHANGED <<people, sessions, orphan, limits, resets, rest>>

\* Defect: logout clears the cookie only.
RevokeCookie(r) ==
  /\ On(r, "revoke")
  /\ held' = held \ {req[r].on}
  /\ To(r, "done")
  /\ UNCHANGED <<people, sessions, orphan, limits, resets, rest>>

Revoke(r) ==                             \* revoke_session, and the cookie is cleared
  /\ On(r, "revoke")
  /\ sessions' = [sessions EXCEPT ![req[r].on] = NoOne]
  /\ held' = held \ {req[r].on}
  /\ To(r, "done")
  /\ UNCHANGED <<people, orphan, limits, resets, rest>>

\* get_me answers; when there is no such user it removes the session.
LoadMe(r) ==
  /\ On(r, "me")
  /\ To(r, IF Active(req[r].user) THEN "done" ELSE "drop")
  /\ UNCHANGED <<people, logins, limits, resets, rest>>

RemoveSession(r) ==
  /\ On(r, "drop")
  /\ sessions' = [sessions EXCEPT ![req[r].on] = NoOne]
  /\ To(r, "done")
  /\ UNCHANGED <<people, held, orphan, limits, resets, rest>>

-----------------------------------------------------------------------------
(* reset_password: ip_limit, email_limit, the token, the mail.  The address *)
(* stays as it was typed, in the counter, the token and the mail; only the *)
(* look-up of the user puts it in lower case.                              *)

Reset(r) == \E e \in Emails, a \in Addresses : Start(r, "reset", e, a, "ip")

Counting == {"ip", "email"}
Expiring == {"ip ttl", "email ttl"}
Key(r) == IF req[r].pc \in {"ip", "ip ttl"} THEN req[r].on ELSE req[r].user

\* What follows when the counter of k has come to n.
Judge(k, n) == IF n > Limit(k) THEN "done" ELSE IF k \in Addresses THEN "email" ELSE "find"
SetsTtl(k) == IF k \in Addresses THEN "ip ttl" ELSE "email ttl"

\* Defect: the first value is taken to be 0.
IncrFromZero(r) ==
  /\ req[r].pc \in Counting
  /\ LET k == Key(r)
         n == count[k] + 1
     IN /\ count' = [count EXCEPT ![k] = n]
        /\ windows' = [windows EXCEPT ![k] = IF n = 1 THEN @ + 1 ELSE @]
        /\ req' = [req EXCEPT ![r].n = n, ![r].pc = IF n = 0 THEN SetsTtl(k) ELSE Judge(k, n)]
  /\ UNCHANGED <<people, logins, ttl, stuck, resets, rest>>

\* Defect: the value before INCR is judged.
IncrAfter(r) ==
  /\ req[r].pc \in Counting
  /\ LET k == Key(r)
         n == count[k] + 1
     IN /\ count' = [count EXCEPT ![k] = n]
        /\ windows' = [windows EXCEPT ![k] = IF n = 1 THEN @ + 1 ELSE @]
        /\ req' = [req EXCEPT ![r].n = n, ![r].pc = IF n = 1 THEN SetsTtl(k) ELSE Judge(k, n - 1)]
  /\ UNCHANGED <<people, logins, ttl, stuck, resets, rest>>

Incr(r) ==
  /\ req[r].pc \in Counting
  /\ LET k == Key(r)
         n == count[k] + 1
     IN /\ count' = [count EXCEPT ![k] = n]
        /\ windows' = [windows EXCEPT ![k] = IF n = 1 THEN @ + 1 ELSE @]
        /\ req' = [req EXCEPT ![r].n = n, ![r].pc = IF n = 1 THEN SetsTtl(k) ELSE Judge(k, n)]
  /\ UNCHANGED <<people, logins, ttl, stuck, resets, rest>>

Expire(r) ==
  /\ req[r].pc \in Expiring
  /\ ttl' = ttl \cup {Key(r)}
  /\ To(r, Judge(Key(r), req[r].n))
  /\ UNCHANGED <<people, logins, count, stuck, windows, resets, rest>>

FindEmail(r) ==                          \* get_by_email
  /\ On(r, "find")
  /\ To(r, IF ~Active(Lower[req[r].user]) THEN "done"
           ELSE IF req[r].op = "reset" THEN "setex" ELSE "write")
  /\ UNCHANGED <<people, logins, limits, resets, rest>>

SetToken(r) ==                           \* SETEX, one hour
  /\ On(r, "setex")
  /\ tokens' = tokens \cup {r}
  /\ To(r, "mail")
  /\ UNCHANGED <<people, logins, limits, mails, rest>>

SendMail(r) ==                           \* mail::send
  /\ On(r, "mail")
  /\ mails' = [mails EXCEPT ![req[r].user] = @ + 1]
  /\ To(r, "sent")
  /\ UNCHANGED <<people, logins, limits, tokens, rest>>

Lapse(k) ==                              \* two minutes after EXPIRE
  /\ k \in ttl
  /\ count' = [count EXCEPT ![k] = 0]
  /\ ttl' = ttl \ {k}
  /\ UNCHANGED <<people, logins, stuck, windows, resets, req, rest>>

TokenLapses(t) ==
  /\ t \in tokens
  /\ tokens' = tokens \ {t}
  /\ UNCHANGED <<people, logins, limits, mails, req, rest>>

-----------------------------------------------------------------------------
(* reset_password_confirm, by who got the mail.  The token is not used up. *)

Confirm(r) == \E t \in Reqs, p \in Passwords :
  /\ On(t, "sent")
  /\ Start(r, "confirm", t, p, "token")

GetToken(r) ==
  /\ On(r, "token")
  /\ LET t == req[r].user
     IN req' = [req EXCEPT ![r].user = req[t].user, ![r].pc = IF t \in tokens THEN "find" ELSE "done"]
  /\ UNCHANGED <<people, logins, limits, resets, rest>>

SetPassword(r) ==                        \* reset_password.sql
  /\ On(r, "write")
  /\ password' = [password EXCEPT ![Lower[req[r].user]] = req[r].on]
  /\ To(r, "done")
  /\ UNCHANGED <<avatar, inactive, logins, limits, resets, rest>>

-----------------------------------------------------------------------------
(* Uploads, and faults.                                                    *)

\* media_upload and edit_avatar authenticate first.
UploadBegins(u) ==
  /\ Arrives
  /\ \E s \in held, x \in Contents, source \in {"", "avatar"} :
       Valid(s) /\ Begin(u, sessions[s], x, source)
  /\ UNCHANGED <<people, logins, limits, resets, req>>

\* Defect: the user refers to the upload and not to its row.
EditAvatarOfUpload(u) ==
  /\ At(u, "avatar")
  /\ avatar' = [avatar EXCEPT ![up[u].by] = u]
  /\ Go(u, "done")
  /\ UNCHANGED <<password, inactive, logins, limits, resets, req, started, faults,
                 disk, temp, named, rows, reader, lost, raced, left>>

EditAvatar(u) ==                         \* User::edit at the end of edit_avatar
  /\ At(u, "avatar")
  /\ avatar' = [avatar EXCEPT ![up[u].by] = up[u].what]
  /\ Go(u, "done")
  /\ UNCHANGED <<password, inactive, logins, limits, resets, req, started, faults,
                 disk, temp, named, rows, reader, lost, raced, left>>

MediaStep ==
  /\ \/ \E u \in Uploads : \/ UploadStep(u) \/ TooLong(u) \/ BodyFails(u) \/ UploadFails(u)
                           \/ Written(u) \/ WriteLost(u)
                           \/ GiveUp(u) \/ LateRename(u) \/ LateRemove(u)
     \/ \E x \in Contents : GetStat(x)
     \/ GetSend
  /\ UNCHANGED <<people, logins, limits, resets, req, started, faults>>

Fault == faults < MaxFaults /\ faults' = faults + 1 /\ UNCHANGED started
InProgress(r) == req[r].pc \notin {"off", "done", "sent"}

\* A handler is dropped with its client, or a query or a command fails.
Abandon(r) ==
  /\ Fault
  /\ InProgress(r)
  /\ To(r, "done")
  /\ orphan' = IF On(r, "mine") THEN orphan \cup {r} ELSE orphan
  /\ stuck' = IF req[r].pc \in Expiring THEN stuck \cup {Key(r)} ELSE stuck
  /\ UNCHANGED <<people, sessions, held, count, ttl, windows, resets, mediaVars>>

\* The GET of authenticate fails: logout takes that for no session and clears the
\* cookie, and the session stays.
LogoutBlind(r) ==
  /\ Fault
  /\ On(r, "auth") /\ req[r].op = "logout"
  /\ held' = held \ {req[r].on}
  /\ orphan' = orphan \cup {req[r].on}
  /\ To(r, "done")
  /\ UNCHANGED <<people, sessions, limits, resets, mediaVars>>

Restart ==                               \* Redis and Postgres go on
  /\ Fault
  /\ req' = [r \in Reqs |-> IF InProgress(r) THEN [req[r] EXCEPT !.pc = "done"] ELSE req[r]]
  /\ orphan' = orphan \cup {r \in Reqs : On(r, "mine")}
  /\ stuck' = stuck \cup {Key(r) : r \in {q \in Reqs : req[q].pc \in Expiring}}
  /\ MediaRestart
  /\ UNCHANGED <<people, sessions, held, count, ttl, windows, resets>>

-----------------------------------------------------------------------------
Step(r) == \/ Check(r) \/ StartSession(r) \/ LoadMine(r)
           \/ Authenticate(r) \/ Revoke(r) \/ LoadMe(r) \/ RemoveSession(r)
           \/ Incr(r) \/ Expire(r) \/ FindEmail(r) \/ SetToken(r) \/ SendMail(r)
           \/ GetToken(r) \/ SetPassword(r)

Next ==
  \/ \E u \in Users : Register(u) \/ Deactivate(u)
  \/ \E r \in Reqs : \/ Login(r) \/ Logout(r) \/ GetMe(r) \/ Edit(r) \/ Reset(r) \/ Confirm(r)
                     \/ Step(r) \/ Abandon(r) \/ LogoutBlind(r) \/ TokenLapses(r)
  \/ \E k \in Keys : Lapse(k)
  \/ \E u \in Uploads : UploadBegins(u) \/ EditAvatar(u)
  \/ MediaStep \/ Restart

Spec == Init /\ [][Next]_vars

\* Handlers are polled until they end, and Redis lets keys expire.
FairSpec ==
  /\ Spec
  /\ \A r \in Reqs : WF_vars(Step(r))
  /\ \A k \in Keys : WF_vars(Lapse(k))

-----------------------------------------------------------------------------
(* Properties.                                                             *)

\* What a request may hold where it is: a confirmation has the number of a token
\* until it has read the token, and the address in it from then on.
NotYet == [pc : {"off"}, op : {""}, user : {NoOne}, on : {NoOne}, n : {0}]
LoginRequest == [pc : {"check", "start", "mine", "done"}, op : {"login"},
                 user : Users, on : Passwords, n : {0}]
LogoutRequest == [pc : {"auth", "revoke", "done"}, op : {"logout"},
                  user : Users \cup {NoOne}, on : Reqs, n : {0}]
GetMeRequest == [pc : {"auth", "me", "drop", "done"}, op : {"get_me"},
                 user : Users \cup {NoOne}, on : Reqs, n : {0}]
ResetRequest == [pc : Counting \cup Expiring \cup {"find", "setex", "mail", "sent", "done"},
                 op : {"reset"}, user : Emails, on : Addresses, n : Nat]
TokenRequest == [pc : {"token", "done"}, op : {"confirm"}, user : Reqs,
                 on : Passwords, n : {0}]
ConfirmRequest == [pc : {"find", "write", "done"}, op : {"confirm"}, user : Emails,
                   on : Passwords, n : {0}]
Request == NotYet \cup LoginRequest \cup LogoutRequest \cup GetMeRequest
             \cup ResetRequest \cup TokenRequest \cup ConfirmRequest

TypeOK ==
  /\ MediaTypeOK
  /\ password \in [Users -> Passwords \cup {NoOne}]
  /\ avatar \in [Users -> Contents \cup {NoFile}]
  /\ inactive \subseteq Users
  /\ sessions \in [Reqs -> Users \cup {NoOne}]
  /\ held \subseteq Reqs /\ orphan \subseteq Reqs /\ tokens \subseteq Reqs
  /\ ttl \subseteq Keys /\ stuck \subseteq Keys
  /\ count \in [Keys -> Nat] /\ windows \in [Keys -> Nat]
  /\ mails \in [Emails -> Nat]
  /\ req \in [Reqs -> Request]
  /\ started \in 0 .. MaxReqs /\ faults \in 0 .. MaxFaults

\* Media rows have their file, and so has every avatar.
FilesThere == RowHasFile /\ \A u \in Users : avatar[u] # NoFile => avatar[u] \in rows

\* A session in Redis, which never expires, is one that a client can end: somebody
\* has its token or is about to get it.  The exceptions are a login that broke off
\* after starting it, and a logout that could not read it and cleared the cookie.
SessionHasHolder ==
  \A s \in Reqs : Valid(s) => s \in held \/ On(s, "mine") \/ s \in orphan

\* However requests overlap and counters begin anew, an address as it is typed gets
\* at most EmailLimit mails for each time its counter began.  A user has as many such
\* counters as its address has spellings: the limit is not one per user.
MailsPerWindow == \A e \in Emails : mails[e] <= EmailLimit * windows[e]

\* A limit that refuses requests refuses them for a while only, unless the handler
\* broke off between INCR and EXPIRE: then it does so for ever.
LimitLifts ==
  \A k \in Keys : count[k] > Limit(k) ~> count[k] = 0 \/ k \in stuck
=============================================================================

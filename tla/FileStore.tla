----------------------------- MODULE FileStore -----------------------------
(***************************************************************************)
(* The file manager of application/http_upload.cc over its four MySQL      *)
(* tables and its upload directory: accounts, sessions, uploads, downloads,*)
(* deletion and sharing.  main() serves every connection from one loop     *)
(* (setThreadNum(0)), so a handler runs to its end before the next one     *)
(* starts; an upload spans several calls of its handler.  Inside a handler *)
(* time passes between the SELECT and the UPDATE of its session check, the *)
(* process may be killed, and a statement may fail.                        *)
(*                                                                         *)
(* A table is a set of records and a query a set.  A server file name, a   *)
(* session id and a share code are random strings that never repeat: they  *)
(* are numbers, as are the keys of files and shares.                       *)
(***************************************************************************)
EXTENDS Integers, FiniteSets

CONSTANTS
    Users,         \* usernames
    Nobody,        \* no user
    Numeric,       \* the usernames that start with a digit
    ShareHours,    \* values of expireTime; 0 for a share without expiry
    Scenarios      \* what may go wrong, and bounds

\* In a scenario statements and unlink may fail (mayFail) and the process may be
\* killed and started again (mayCrash); a session lasts ttl (30 minutes).  Bounds:
\* the clock (maxTime), sessions, files and shares ever made.
Scenario(fail, crash, ttl, time, sessionsMade, filesMade, sharesMade) ==
    [mayFail |-> fail, mayCrash |-> crash, ttl |-> ttl, maxTime |-> time,
     maxSessions |-> sessionsMade, maxFiles |-> filesMade, maxShares |-> sharesMade]

ASSUME StoreAssumption ==
    /\ Nobody \notin Users /\ Numeric \subseteq Users /\ ShareHours \subseteq Nat
    /\ Scenarios \subseteq [mayFail : BOOLEAN, mayCrash : BOOLEAN, ttl : Nat \ {0},
                            maxTime : Nat, maxSessions : Nat, maxFiles : Nat,
                            maxShares : Nat]

VARIABLES
    sc,           \* the scenario
    now,          \* NOW()
    users,        \* table users
    sessions,     \* table sessions: [id, user, expire]
    files,        \* table files: [id, name, owner]
    shares,       \* table file_shares: [id, file, owner, with, type, expire];
                  \* a share's code is its id
    disk,         \* names in the upload directory
    uploads,      \* uploads in progress: [name, sid]
    caller,       \* the handler between the two statements of its session
                  \* check: [sid, user]
    lastSession, lastName, lastFile, lastShare,    \* ids handed out so far
    reply,        \* history: the last reply, [op, status]
    act           \* history: whose files it concerned, as in Access

tables == <<users, sessions, files, shares>>
ids == <<lastSession, lastName, lastFile, lastShare>>
vars == <<sc, now, tables, disk, uploads, caller, ids, reply, act>>

----------------------------------------------------------------------------
Never == sc.maxTime + 1
After(h) == now + h
Outcome == IF sc.mayFail THEN BOOLEAN ELSE {TRUE}

Reply(op, status) == reply' = [op |-> op, status |-> status]
NoReply == Reply("none", "none")

A == INSTANCE Access WITH
        owned <- {[file |-> f.id, owner |-> f.owner] : f \in files},
        grants <- {[id |-> s.id, file |-> s.file, type |-> s.type,
                    with |-> s.with] : s \in {t \in shares : t.expire > now}},
        issued <- lastShare

Acts(op, u, f, g, key) == act' = A!Act(op, u, f, g, key)
NoAct == act' = A!Idle

\* No handler is inside its session check.
NoCaller == [sid |-> -1, user |-> Nobody]

\* validateSession: the user of a session that has not expired; session 0 is
\* a request without X-Session-ID.
Live(sid) == {s \in sessions : s.id = sid /\ s.expire > now}
UserOf(sid) == IF Live(sid) = {} THEN Nobody
               ELSE (CHOOSE s \in Live(sid) : TRUE).user

\* ... its SELECT, with which a handler starts ...
validateSession(sid) ==
    /\ caller = NoCaller
    /\ \E ok \in Outcome :
          caller' = [sid |-> sid, user |-> IF ok THEN UserOf(sid) ELSE Nobody]
    /\ NoReply /\ NoAct
    /\ UNCHANGED <<now, tables, disk, uploads, ids>>

\* Mutant: the UPDATE is made whatever the SELECT found.
MutRevive(sid) ==
    /\ caller.sid = sid /\ caller' = NoCaller
    /\ sessions' = {IF s.id = sid
                    THEN [id |-> s.id, user |-> s.user, expire |-> After(sc.ttl)]
                    ELSE s : s \in sessions}

\* ... and, if that found the session, its UPDATE of the expiry time, by the
\* session's id alone.  The rest of the handler follows in the same step.
Validated(sid) ==
    /\ caller.sid = sid /\ caller' = NoCaller
    /\ \E ok \in Outcome :
          sessions' = {IF ok /\ caller.user # Nobody /\ s.id = sid
                       THEN [id |-> s.id, user |-> s.user, expire |-> After(sc.ttl)]
                       ELSE s : s \in sessions}

\* A handler without a session check runs between those of others.
Unchecked == caller = NoCaller /\ UNCHANGED caller

\* Mutant: the queries do not test expire_time.
MutAllShares == shares

\* The shares that the queries for one code look at.
LiveShares == {s \in shares : s.expire > now}

\* A reply that leaves the files as they are.
Refuse(op, status) ==
    /\ Reply(op, status)
    /\ NoAct
    /\ UNCHANGED <<files, shares, disk, uploads, ids>>

----------------------------------------------------------------------------
(* Accounts and sessions.                                                  *)

handleRegister(u) ==
    /\ Unchecked /\ NoAct
    /\ \E ok \in Outcome :
          IF ok /\ u \notin users
          THEN users' = users \cup {u} /\ Reply("register", "ok")
          ELSE UNCHANGED users /\ Reply("register", "error")
    /\ UNCHANGED <<now, sessions, files, shares, disk, uploads, ids>>

\* saveSession's INSERT may fail; the reply is the same.
handleLogin(u, right) ==
    /\ Unchecked /\ lastSession < sc.maxSessions
    /\ IF u \in users /\ right
       THEN /\ lastSession' = lastSession + 1
            /\ \E ok \in Outcome :
                  sessions' = sessions \cup
                     (IF ok THEN {[id |-> lastSession + 1, user |-> u,
                                   expire |-> After(sc.ttl)]} ELSE {})
            /\ Reply("login", "ok")
       ELSE /\ Reply("login", "denied")
            /\ UNCHANGED <<sessions, lastSession>>
    /\ NoAct
    /\ UNCHANGED <<now, users, files, shares, disk, uploads, lastName,
                   lastFile, lastShare>>

handleLogout(sid) ==
    /\ Unchecked
    /\ \E ok \in Outcome :
          sessions' = IF ok THEN {s \in sessions : s.id # sid} ELSE sessions
    /\ Reply("logout", "ok")
    /\ NoAct
    /\ UNCHANGED <<now, users, files, shares, disk, uploads, ids>>

handleSearchUsers(sid) ==
    /\ Validated(sid)
    /\ Refuse("search", IF caller.user = Nobody THEN "denied" ELSE "ok")
    /\ UNCHANGED <<now, users>>

----------------------------------------------------------------------------
(* Files.                                                                  *)

\* One call of handleFileUpload.  The first call of an upload creates the file;
\* the last one inserts its row and answers, whether or not the INSERT worked.
\* A call that finds no session answers only if it is the last one: onMessage
\* drops the reply to a chunk.
handleFileUpload(up, last) ==
    LET u == caller.user
    IN  /\ up \in uploads \/ (up.name = lastName + 1 /\ up.name <= sc.maxFiles)
        /\ Validated(up.sid)
        /\ NoAct
        /\ uploads' = IF last THEN uploads \ {up}
                      ELSE IF u = Nobody THEN uploads ELSE uploads \cup {up}
        /\ IF u = Nobody
           THEN UNCHANGED <<disk, lastName>>
           ELSE /\ disk' = disk \cup {up.name}
                /\ lastName' = IF up \in uploads THEN lastName ELSE up.name
        /\ \/ /\ u # Nobody /\ last
              /\ \E ok \in Outcome :
                    /\ files' = files \cup
                          (IF ok THEN {[id |-> lastFile + 1, name |-> up.name,
                                        owner |-> u]} ELSE {})
                    /\ lastFile' = IF ok THEN lastFile + 1 ELSE lastFile
              /\ Reply("upload", "ok")
           \/ /\ u = Nobody \/ ~last
              /\ IF last THEN Reply("upload", "denied") ELSE NoReply
              /\ UNCHANGED <<files, lastFile>>
        /\ UNCHANGED <<now, users, shares, lastSession, lastShare>>

\* The peer goes away during an upload; its file stays.
UploadAborted(up) ==
    /\ Unchecked
    /\ uploads' = uploads \ {up}
    /\ NoReply /\ NoAct
    /\ UNCHANGED <<now, tables, disk, ids>>

\* handleListFiles: the queries only read.
handleListFiles(sid) ==
    /\ Validated(sid)
    /\ Refuse("list", IF caller.user = Nobody THEN "denied" ELSE "ok")
    /\ UNCHANGED <<now, users>>

\* Whom a share opens the file to (handleDownload and handleShareDownload).
Opens(s, u, right) ==
    \/ s.type = "public"
    \/ s.type = "protected" /\ right
    \/ s.type = "user" /\ u # Nobody /\ u = s.with

\* A download of the file named n, on the share with this code if there is
\* one; right: the client shows the share's extract code.
Serve(sid, n, code, right) ==
    LET u == caller.user
        on(f) == {s \in LiveShares : s.id = code /\ s.file = f.id}
        rows == {f \in files : f.name = n /\ (code = 0 \/ on(f) # {})}
        allowed == {f \in rows : u = f.owner \/ \E s \in on(f) : Opens(s, u, right)}
    IN  /\ Validated(sid)
        /\ \/ /\ code = 0 /\ u = Nobody
              /\ Refuse("download", "denied")
           \/ /\ code # 0 \/ u # Nobody
              /\ rows = {}
              /\ Refuse("download", "missing")
           \/ /\ code # 0 \/ u # Nobody
              /\ rows # {} /\ allowed = {}
              /\ Refuse("download", "denied")
           \/ /\ code # 0 \/ u # Nobody
              /\ allowed # {} /\ n \notin disk
              /\ Refuse("download", "missing")
           \/ /\ code # 0 \/ u # Nobody
              /\ n \in disk
              /\ \E f \in allowed :
                    /\ Reply("download", "ok")
                    /\ Acts("give", u, f.id, code, right)
              /\ UNCHANGED <<files, shares, disk, uploads, ids>>
        /\ UNCHANGED <<now, users>>

handleDownload(sid, n, code, right) == Serve(sid, n, code, right)

handleShareDownload(sid, n, code, right) ==
    \/ code # 0 /\ Serve(sid, n, code, right)
    \/ /\ code = 0 /\ Unchecked /\ Refuse("download", "error")
       /\ UNCHANGED <<now, users, sessions>>

\* Mutant: the file goes first.
MutUnlinkFirst(sid, n, steps) ==
    \E f \in {g \in files : g.name = n /\ g.owner = caller.user} :
        /\ steps = 3 \/ sc.mayCrash
        /\ Validated(sid)
        /\ disk' = disk \ {n}
        /\ shares' = IF steps > 1 THEN {s \in shares : s.file # f.id} ELSE shares
        /\ files' = IF steps = 3 THEN files \ {f} ELSE files
        /\ NoReply
        /\ Acts(IF steps = 3 THEN "remove" ELSE "withdraw", caller.user, f.id, 0, FALSE)
        /\ UNCHANGED <<now, users, uploads, ids>>

\* handleDelete: the shares, the row, the file, in this order; steps is how
\* many of the three are done when the process is killed, 3 if it is not.  The
\* foreign key of file_shares makes the row take its shares with it.
handleDelete(sid, n, steps) ==
    LET u == caller.user
        mine == {f \in files : f.name = n /\ f.owner = u}
        of(f) == {s \in shares : s.file = f.id}
    IN  /\ steps = 3 \/ sc.mayCrash
        /\ Validated(sid)
        /\ \/ mine = {} /\ steps = 3 /\ Refuse("delete", "denied")
           \/ \E f \in mine, dropped \in Outcome, ok \in Outcome :
                 LET gone == steps > 1 /\ ok
                 IN  /\ shares' = IF dropped \/ gone THEN shares \ of(f) ELSE shares
                     /\ files' = IF gone THEN files \ {f} ELSE files
                     /\ \E unlinked \in Outcome :
                           disk' = IF gone /\ steps = 3 /\ unlinked THEN disk \ {n}
                                   ELSE disk
                     /\ Acts(IF gone THEN "remove" ELSE "withdraw", u, f.id, 0, FALSE)
                     /\ IF steps < 3
                        THEN NoReply /\ uploads' = {}
                        ELSE /\ Reply("delete", IF ok THEN "ok" ELSE "error")
                             /\ UNCHANGED uploads
                     /\ UNCHANGED ids
        /\ UNCHANGED <<now, users>>

----------------------------------------------------------------------------
(* Sharing.                                                                *)

\* The INSERT of handleShareFile.  The foreign key on shared_with_id wants a
\* registered user.  A "user" share without sharedWithId is inserted, and then
\* std::stoi("NULL") throws: the reply is an error.
InsertShare(u, fid, type, with, h) ==
    LET to == IF type = "user" THEN with ELSE Nobody
        id == lastShare + 1
    IN  \E ok \in Outcome :
           IF ok /\ to \in users \cup {Nobody}
           THEN /\ shares' = shares \cup
                     {[id |-> id, file |-> fid, owner |-> u, with |-> to,
                       type |-> type,
                       expire |-> IF h > 0 THEN After(h) ELSE Never]}
                /\ lastShare' = id
                /\ Acts("grant", u, fid, id, FALSE)
                /\ Reply("share", IF type = "user" /\ with = Nobody THEN "error" ELSE "ok")
           ELSE /\ Reply("share", "error")
                /\ NoAct
                /\ UNCHANGED <<shares, lastShare>>

\* Mutant: every request inserts a share.
MutInsertAlways(sid, fid, type, with, h) ==
    /\ lastShare < sc.maxShares
    /\ \E f \in files : f.id = fid /\ f.owner = caller.user
    /\ Validated(sid)
    /\ InsertShare(caller.user, fid, type, with, h)
    /\ UNCHANGED <<now, users, files, disk, uploads, lastSession, lastName, lastFile>>

\* A file is shared with a user only once: expired shares count, and a failed
\* check counts as none.
handleShareFile(sid, fid, type, with, h) ==
    LET u == caller.user
        mine == {f \in files : f.id = fid /\ f.owner = u}
        dup == {s \in shares : s.file = fid /\ s.type = "user" /\ s.with = with}
    IN  /\ Validated(sid)
        /\ \/ /\ mine = {}
              /\ Refuse("share", "denied")
           \/ /\ mine # {} /\ type = "private"
              /\ \E ok \in Outcome :
                    shares' = IF ok THEN {s \in shares : s.file # fid} ELSE shares
              /\ Acts("withdraw", u, fid, 0, FALSE)
              /\ Reply("private", "ok")
              /\ UNCHANGED <<files, disk, uploads, ids>>
           \/ /\ mine # {} /\ type = "user" /\ with # Nobody /\ dup # {}
              /\ NoAct
              /\ Reply("duplicate", "error")
              /\ UNCHANGED <<files, shares, disk, uploads, ids>>
           \/ /\ mine # {} /\ type # "private" /\ lastShare < sc.maxShares
              /\ type = "user" /\ with # Nobody /\ dup # {} => sc.mayFail
              /\ InsertShare(u, fid, type, with, h)
              /\ UNCHANGED <<files, disk, uploads, lastSession, lastName, lastFile>>
        /\ UNCHANGED <<now, users>>

\* handleShareAccess answering JSON.  It takes the owner's name, column 13, for
\* the owner's id: std::stoi throws unless the name starts with a digit, and
\* then compares a number that says nothing.  It takes the share code, column
\* 5, for the extract code, so a protected share is never opened.  It takes the
\* original file name, column 10, for the size: std::stoull throws unless that
\* starts with a digit (numbered; the model does not keep these names).  The
\* reply carries the type of the share.
handleShareAccess(sid, code, right) ==
    LET u == caller.user
        rows == {s \in LiveShares : s.id = code /\ (s.type = "protected" => right)}
        one == CHOOSE s \in rows : TRUE
        opens == one.type = "public" \/ (one.type = "user" /\ u # Nobody /\ u = one.with)
    IN  /\ Validated(sid)
        /\ \/ rows = {} /\ Refuse("access", "missing")
           \/ /\ rows # {} /\ one.owner \notin Numeric
              /\ Refuse(one.type, "error")
           \/ /\ rows # {} /\ one.owner \in Numeric
              /\ \E isOwner \in BOOLEAN, numbered \in BOOLEAN :
                    Refuse(one.type, IF ~(isOwner \/ opens) THEN "denied"
                                     ELSE IF numbered THEN "ok" ELSE "error")
        /\ UNCHANGED <<now, users>>

\* handleShareInfo reads the row after mysql_free_result: it finds the id,
\* something else that std::stoi accepts or throws on, or dies.
handleShareInfo(code, right) ==
    LET rows == {s \in LiveShares : s.id = code}
        open == {s \in rows : s.type = "protected" => right}
    IN  /\ Unchecked
        /\ \/ rows = {} /\ Refuse("info", "missing")
           \/ rows # {} /\ open = {} /\ Refuse("info", "denied")
           \/ open # {} /\ \E status \in {"ok", "error"} : Refuse("info", status)
           \/ /\ open # {}
              /\ uploads' = {}
              /\ NoReply /\ NoAct
              /\ UNCHANGED <<files, shares, disk, ids>>
        /\ UNCHANGED <<now, users, sessions>>

----------------------------------------------------------------------------
\* The process is killed between two requests, or inside a session check, and
\* started again.
Restart ==
    /\ sc.mayCrash
    /\ uploads' = {} /\ caller' = NoCaller
    /\ NoReply /\ NoAct
    /\ UNCHANGED <<now, tables, disk, ids>>

Tick ==
    /\ now < sc.maxTime
    /\ now' = now + 1
    /\ NoReply /\ NoAct
    /\ UNCHANGED <<tables, disk, uploads, caller, ids>>

Init ==
    /\ sc \in Scenarios
    /\ now = 0
    /\ users = {} /\ sessions = {} /\ files = {} /\ shares = {}
    /\ disk = {} /\ uploads = {} /\ caller = NoCaller
    /\ lastSession = 0 /\ lastName = 0 /\ lastFile = 0 /\ lastShare = 0
    /\ reply = [op |-> "none", status |-> "none"]
    /\ act = A!Idle

AccountStep ==
    \/ \E sid \in 0 .. lastSession : validateSession(sid)
    \/ \E u \in Users : handleRegister(u)
    \/ \E u \in Users, right \in BOOLEAN : handleLogin(u, right)
    \/ \E sid \in 0 .. lastSession : handleLogout(sid) \/ handleSearchUsers(sid)

FileStep ==
    \E sid \in 0 .. lastSession :
        \/ \E n \in 1 .. lastName + 1, last \in BOOLEAN :
              handleFileUpload([name |-> n, sid |-> sid], last)
        \/ handleListFiles(sid)
        \/ \E n \in 1 .. lastName, code \in 0 .. lastShare, right \in BOOLEAN :
              \/ handleDownload(sid, n, code, right)
              \/ handleShareDownload(sid, n, code, right)
        \/ \E n \in 1 .. lastName, steps \in 1 .. 3 : handleDelete(sid, n, steps)

ShareStep ==
    \/ \E sid \in 0 .. lastSession, fid \in 1 .. lastFile, h \in ShareHours :
          \/ \E type \in {"private", "public", "protected"} :
                handleShareFile(sid, fid, type, Nobody, h)
          \/ \E with \in Users \cup {Nobody} :
                handleShareFile(sid, fid, "user", with, h)
    \/ \E sid \in 0 .. lastSession, code \in 1 .. lastShare, right \in BOOLEAN :
          handleShareAccess(sid, code, right)
    \/ \E code \in 1 .. lastShare, right \in BOOLEAN : handleShareInfo(code, right)

Next ==
    /\ \/ AccountStep \/ FileStep \/ ShareStep
       \/ \E up \in uploads : UploadAborted(up)
       \/ Restart \/ Tick
    /\ UNCHANGED sc

Spec == Init /\ [][Next]_vars

----------------------------------------------------------------------------
(* Properties.                                                             *)

\* Whom a session check may have found: a user only by a session.
Callers ==
    {NoCaller} \cup [sid : 0 .. lastSession, user : {Nobody}]
               \cup [sid : 1 .. lastSession, user : Users]

\* Type correctness of the tables, the directory and the id counters.
TypeOK ==
    /\ sc \in Scenarios
    /\ now \in 0 .. sc.maxTime
    /\ users \subseteq Users
    /\ sessions \subseteq [id : 1 .. lastSession, user : Users, expire : Nat]
    /\ files \subseteq [id : 1 .. lastFile, name : 1 .. lastName, owner : Users]
    /\ shares \subseteq [id : 1 .. lastShare, file : 1 .. lastFile, owner : Users,
                         with : Users \cup {Nobody},
                         type : {"public", "protected", "user"}, expire : Nat]
    /\ disk \subseteq 1 .. lastName
    /\ uploads \subseteq [name : 1 .. lastName, sid : 1 .. lastSession]
    /\ caller \in Callers
    /\ lastSession \in 0 .. sc.maxSessions /\ lastName \in 0 .. sc.maxFiles
    /\ lastFile \in 0 .. lastName /\ lastShare \in 0 .. sc.maxShares

\* The file manager implements the access policy: over uploads, deletions,
\* sharing, expiry, logins and restarts, a file goes only to its owner or on a
\* share that stands, and only its owner removes or shares it.
\* handleShareAccess says that a share can be opened only while it stands: one
\* that has run out or was withdrawn, or whose file is gone, is not found.
AccessPolicy ==
    /\ A!Spec
    /\ [][reply'.op \in {"public", "protected", "user"} /\ reply'.status = "ok" =>
             \E s \in shares : s.type = reply'.op /\ s.expire > now
                               /\ \E f \in files : f.id = s.file]_vars

\* Every row of files has its own file, and has all of it: handleFileUpload
\* writes the file before the INSERT, which ends the upload, and handleDelete
\* unlinks it after the DELETE, so neither a crash nor a failed statement leaves
\* a row without its file, with half of it, or with another row's.
RowHasFile ==
    /\ TypeOK
    /\ \A f \in files : f.name \in disk
    /\ \A up \in uploads, f \in files : f.name # up.name
    /\ \A f, g \in files : f.name = g.name => f = g

\* A session that has ended, by logout or because it ran out, admits no request,
\* and comes back only through a request admitted before: validateSession renews
\* by the id alone, so one that runs out between the SELECT and the UPDATE of a
\* check is live again.  No other request, login or restart revives it, and one
\* that was logged out never comes back.
SessionStaysEnded ==
    [][\A sid \in 1 .. lastSession : Live(sid) = {} =>
          /\ caller' # caller /\ caller'.sid = sid => caller'.user = Nobody
          /\ Live(sid)' # {} => /\ caller.sid = sid /\ caller.user # Nobody
                                /\ \E s \in sessions : s.id = sid /\ s.user = caller.user]_vars

\* Every share is of an existing file and was made by its owner, across deletions
\* that stop half way.  A file is shared at most once with the same user (the
\* check before the INSERT of handleShareFile), as long as no statement fails: a
\* failed check counts as none.
SharesSound ==
    /\ \A s \in shares : \E f \in files : f.id = s.file /\ f.owner = s.owner
    /\ ~sc.mayFail => \A s, t \in shares :
           /\ s.type = "user" /\ t.type = "user"
           /\ s.file = t.file /\ s.with = t.with /\ s.with # Nobody
           => s = t
============================================================================

-------------------------- MODULE FileStoreProofs --------------------------
(***************************************************************************)
(* FileStore for any users, share lifetimes, faults and bounds: rows keep  *)
(* their files, shares their files and owners, ended sessions stay ended,  *)
(* and the handlers implement the access policy.                           *)
(***************************************************************************)
EXTENDS FileStore, FiniteSetTheorems, TLAPS

\* The key of files is unique, and two uploads never write the same file.
Unique ==
    /\ \A f, g \in files : f.id = g.id => f = g
    /\ \A up, vp \in uploads : up.name = vp.name => up = vp

\* Every row, and every upload in progress, has used up a server file name.
Counted ==
    /\ IsFiniteSet(uploads)
    /\ lastFile + Cardinality(uploads) <= lastName

\* The inductive invariant.
IInv == RowHasFile /\ SharesSound /\ Unique /\ Counted

----------------------------------------------------------------------------
(* Sessions.                                                               *)

\* The scenario's fields.
LEMMA ScenarioType ==
    ASSUME sc \in Scenarios
    PROVE  /\ sc.mayFail \in BOOLEAN /\ sc.mayCrash \in BOOLEAN
           /\ sc.ttl \in Nat \ {0} /\ sc.maxTime \in Nat
           /\ sc.maxSessions \in Nat /\ sc.maxFiles \in Nat /\ sc.maxShares \in Nat
  BY StoreAssumption

\* The counters and the clock are numbers.
LEMMA Numbers ==
    ASSUME IInv
    PROVE  /\ sc \in Scenarios /\ now \in Nat /\ now <= sc.maxTime /\ sc.maxTime \in Nat
           /\ lastSession \in Nat /\ lastName \in Nat /\ lastFile \in Nat /\ lastShare \in Nat
           /\ Never \in Nat /\ Never > now
  BY ScenarioType DEF IInv, RowHasFile, TypeOK, Never

\* A session check finds a registered user, and only by a session.
LEMMA CallerOK ==
    ASSUME IInv
    PROVE  /\ caller.user \in Users \cup {Nobody}
           /\ caller.user # Nobody => caller.sid \in 1 .. lastSession
  BY DEF IInv, RowHasFile, TypeOK, Callers, NoCaller

\* The user of a session is a registered one.
LEMMA UserOfOK ==
    ASSUME IInv, NEW sid, UserOf(sid) # Nobody
    PROVE  /\ UserOf(sid) \in Users /\ sid \in 1 .. lastSession
           /\ \E s \in Live(sid) : s.user = UserOf(sid)
  <1>1. Live(sid) # {} /\ UserOf(sid) = (CHOOSE s \in Live(sid) : TRUE).user
    BY DEF UserOf
  <1>2. (CHOOSE s \in Live(sid) : TRUE) \in Live(sid)
    BY <1>1
  <1>3. \A s \in Live(sid) : s.user \in Users /\ sid \in 1 .. lastSession
    BY DEF IInv, RowHasFile, TypeOK, Live
  <1> QED
    BY <1>1, <1>2, <1>3, Zenon

\* The UPDATE of validateSession keeps the table well formed, and revives at most
\* the session that its SELECT has found.
LEMMA ValidateOK ==
    ASSUME IInv, NEW sid, Validated(sid), UNCHANGED <<now, sc>>
    PROVE  /\ sessions' \subseteq [id : 1 .. lastSession, user : Users, expire : Nat]
           /\ caller.sid = sid /\ caller' = NoCaller /\ caller' \in Callers'
           /\ \A k : Live(k) = {} /\ Live(k)' # {} => k = sid /\ caller.user # Nobody
  <1>1. PICK ok \in Outcome :
            sessions' = {IF ok /\ caller.user # Nobody /\ s.id = sid
                         THEN [id |-> s.id, user |-> s.user, expire |-> After(sc.ttl)]
                         ELSE s : s \in sessions}
    BY DEF Validated
  <1>2. After(sc.ttl) \in Nat
    BY Numbers, ScenarioType DEF After
  <1>3. \A s \in sessions : s \in [id : 1 .. lastSession, user : Users, expire : Nat]
    BY DEF IInv, RowHasFile, TypeOK
  <1>4. ASSUME NEW k, Live(k) = {}, NEW t \in sessions', t.id = k, t.expire > now
        PROVE  k = sid /\ caller.user # Nobody
    <2>1. PICK s \in sessions :
              t = IF ok /\ caller.user # Nobody /\ s.id = sid
                  THEN [id |-> s.id, user |-> s.user, expire |-> After(sc.ttl)] ELSE s
      BY <1>1
    <2>2. CASE caller.user # Nobody /\ s.id = sid /\ t.id = s.id
      BY <1>4, <2>2
    <2>3. CASE t = s
      BY <1>4, <2>3 DEF Live
    <2> QED
      BY <2>1, <2>2, <2>3
  <1>5. sessions' \subseteq [id : 1 .. lastSession, user : Users, expire : Nat]
    BY <1>1, <1>2, <1>3
  <1>6. caller.sid = sid /\ caller' = NoCaller /\ caller' \in Callers'
    BY DEF Validated, Callers, NoCaller
  <1> QED
    BY <1>4, <1>5, <1>6 DEF Live

----------------------------------------------------------------------------
(* Preservation of the invariant.                                          *)

\* Dropping uploads keeps the count of names.
LEMMA CountedKept ==
    ASSUME IInv, uploads' \subseteq uploads, UNCHANGED <<lastName, lastFile>>
    PROVE  Counted'
  <1>1. IsFiniteSet(uploads') /\ Cardinality(uploads') <= Cardinality(uploads)
    BY FS_Subset DEF IInv, Counted
  <1>2. Cardinality(uploads') \in Nat /\ Cardinality(uploads) \in Nat
    BY <1>1, FS_CardinalityType DEF IInv, Counted
  <1> QED
    BY <1>1, <1>2, Numbers DEF IInv, Counted

\* A login does not disturb a session check, and its end is no check at all.
LEMMA CallersGrow ==
    ASSUME IInv, lastSession' \in Nat, lastSession <= lastSession', caller' \in {caller, NoCaller}
    PROVE  caller' \in Callers'
  <1>1. \A k : /\ k \in 0 .. lastSession => k \in 0 .. lastSession'
               /\ k \in 1 .. lastSession => k \in 1 .. lastSession'
    BY Numbers
  <1>2. caller \in Callers
    BY DEF IInv, RowHasFile, TypeOK
  <1> QED
    BY <1>1, <1>2 DEF Callers, NoCaller

\* A step that leaves files, shares and the directory alone, and at most drops
\* uploads, keeps the invariant if it keeps accounts and sessions well formed.
LEMMA StoreKept ==
    ASSUME IInv, UNCHANGED <<sc, files, shares, disk, lastName, lastFile, lastShare>>,
           now' \in 0 .. sc.maxTime, users' \subseteq Users, uploads' \subseteq uploads,
           lastSession' \in lastSession .. sc.maxSessions,
           sessions' \subseteq [id : 1 .. lastSession', user : Users, expire : Nat],
           caller' \in {caller, NoCaller}
    PROVE  IInv'
  <1>1. lastSession \in Nat /\ lastSession' \in Nat /\ lastSession <= lastSession'
    BY Numbers, ScenarioType
  <1>2. uploads' \subseteq [name : 1 .. lastName, sid : 1 .. lastSession']
    <2>1. uploads \subseteq [name : 1 .. lastName, sid : 1 .. lastSession]
      BY DEF IInv, RowHasFile, TypeOK
    <2> QED
      BY <1>1, <2>1
  <1>3. TypeOK'
    BY <1>1, <1>2, CallersGrow DEF IInv, RowHasFile, TypeOK
  <1>4. RowHasFile'
    BY <1>3 DEF IInv, RowHasFile
  <1>5. SharesSound'
    BY DEF IInv, SharesSound
  <1>6. Unique'
    BY DEF IInv, Unique
  <1>7. Counted'
    BY CountedKept
  <1> QED
    BY <1>4, <1>5, <1>6, <1>7 DEF IInv

\* The same for a handler that only validates the session.
LEMMA ReadOnlyKept ==
    ASSUME IInv, NEW sid, Validated(sid),
           UNCHANGED <<sc, now, users, files, shares, disk, uploads, ids>>
    PROVE  IInv'
  <1>1. /\ now \in 0 .. sc.maxTime /\ users \subseteq Users
        /\ lastSession \in lastSession .. sc.maxSessions
    BY Numbers, ScenarioType DEF IInv, RowHasFile, TypeOK
  <1>2. lastSession' = lastSession /\ UNCHANGED <<lastName, lastFile, lastShare>>
    BY DEF ids
  <1> QED
    BY <1>1, <1>2, ValidateOK, StoreKept

\* One call of handleFileUpload.
LEMMA UploadKept ==
    ASSUME IInv, UNCHANGED sc,
           NEW sid \in 0 .. lastSession, NEW n \in 1 .. lastName + 1, NEW last \in BOOLEAN,
           handleFileUpload([name |-> n, sid |-> sid], last)
    PROVE  IInv'
  <1> DEFINE up == [name |-> n, sid |-> sid]
             u == caller.user
  <1>1. /\ up \in uploads \/ (n = lastName + 1 /\ n <= sc.maxFiles)
        /\ Validated(sid)
        /\ uploads' = IF last THEN uploads \ {up}
                      ELSE IF u = Nobody THEN uploads ELSE uploads \cup {up}
        /\ UNCHANGED <<now, users, shares, lastSession, lastShare>>
    BY DEF handleFileUpload
  <1>2. /\ sessions' \subseteq [id : 1 .. lastSession', user : Users, expire : Nat]
        /\ caller.sid = sid /\ caller' = NoCaller /\ caller' \in Callers'
    BY <1>1, ValidateOK
  <1>3. CASE u = Nobody
    <2>1. UNCHANGED <<disk, lastName, files, lastFile>> /\ uploads' \subseteq uploads
      BY <1>1, <1>3 DEF handleFileUpload
    <2>2. /\ now' \in 0 .. sc.maxTime /\ users' \subseteq Users
          /\ lastSession' \in lastSession .. sc.maxSessions
      BY <1>1, Numbers, ScenarioType DEF IInv, RowHasFile, TypeOK
    <2> QED
      BY <1>1, <1>2, <2>1, <2>2, StoreKept
  <1>4. CASE u # Nobody
    <2>1. u \in Users /\ sid \in 1 .. lastSession
      BY <1>2, <1>4, CallerOK
    <2>2. /\ disk' = disk \cup {n}
          /\ lastName' = IF up \in uploads THEN lastName ELSE n
      BY <1>4 DEF handleFileUpload
    <2>3. /\ lastName' \in lastName .. lastName + 1 /\ n \in 1 .. lastName'
          /\ lastName' \in 0 .. sc.maxFiles
          /\ up \in [name : 1 .. lastName', sid : 1 .. lastSession]
      <3>1. up \in uploads => n \in 1 .. lastName
        BY DEF IInv, RowHasFile, TypeOK
      <3>2. lastName \in 0 .. sc.maxFiles
        BY DEF IInv, RowHasFile, TypeOK
      <3> QED
        BY <1>1, <2>1, <2>2, <3>1, <3>2, Numbers
    <2>4. \/ /\ last /\ lastFile' = lastFile + 1
             /\ files' = files \cup {[id |-> lastFile + 1, name |-> n, owner |-> u]}
          \/ UNCHANGED <<files, lastFile>>
      BY <1>4, Zenon DEF handleFileUpload
    <2>5. /\ \A f \in files : f.name \in disk /\ f.name \in 1 .. lastName /\ f.id \in 1 .. lastFile
          /\ \A f \in files : f.name # n
          /\ \A vp \in uploads : vp.name \in 1 .. lastName /\ (vp.name = n => vp = up)
      <3>1. CASE up \in uploads
        BY <3>1 DEF IInv, RowHasFile, TypeOK, Unique
      <3>2. CASE n = lastName + 1
        BY <3>2, Numbers DEF IInv, RowHasFile, TypeOK
      <3> QED
        BY <1>1, <3>1, <3>2
    <2>6. Counted'
      <3>1. /\ IsFiniteSet(uploads) /\ Cardinality(uploads) \in Nat
            /\ lastFile + Cardinality(uploads) <= lastName
        BY FS_CardinalityType DEF IInv, Counted
      <3>2. /\ IsFiniteSet(uploads \ {up}) /\ IsFiniteSet(uploads \cup {up})
            /\ Cardinality(uploads \ {up}) =
                  IF up \in uploads THEN Cardinality(uploads) - 1 ELSE Cardinality(uploads)
            /\ Cardinality(uploads \cup {up}) =
                  IF up \in uploads THEN Cardinality(uploads) ELSE Cardinality(uploads) + 1
        BY <3>1, FS_AddElement, FS_RemoveElement
      <3>3. uploads' = IF last THEN uploads \ {up} ELSE uploads \cup {up}
        BY <1>1, <1>4
      <3>4. lastName' = IF up \in uploads THEN lastName ELSE lastName + 1
        BY <1>1, <2>2
      <3>5. lastFile' = lastFile \/ (last /\ lastFile' = lastFile + 1)
        BY <2>4
      <3> HIDE DEF up
      <3> QED
        BY <3>1, <3>2, <3>3, <3>4, <3>5, Numbers DEF Counted
    <2>7. lastFile' \in lastFile .. lastFile + 1 /\ lastFile' \in 0 .. lastName'
      <3>1. Cardinality(uploads') \in Nat
        BY <2>6, FS_CardinalityType DEF Counted
      <3> QED
        BY <2>3, <2>4, <2>6, <3>1, Numbers DEF Counted
    <2>8. TypeOK'
      <3>1. files' \subseteq [id : 1 .. lastFile', name : 1 .. lastName', owner : Users]
        <4>1. files \subseteq [id : 1 .. lastFile, name : 1 .. lastName, owner : Users]
          BY DEF IInv, RowHasFile, TypeOK
        <4> QED
          BY <4>1, <2>1, <2>3, <2>4, <2>7, Numbers
      <3>2. shares' \subseteq [id : 1 .. lastShare', file : 1 .. lastFile', owner : Users,
                               with : Users \cup {Nobody},
                               type : {"public", "protected", "user"}, expire : Nat]
        <4>1. shares \subseteq [id : 1 .. lastShare, file : 1 .. lastFile, owner : Users,
                                with : Users \cup {Nobody},
                                type : {"public", "protected", "user"}, expire : Nat]
          BY DEF IInv, RowHasFile, TypeOK
        <4>2. \A k \in 1 .. lastFile : k \in 1 .. lastFile'
          BY <2>7, Numbers
        <4> QED
          BY <1>1, <4>1, <4>2
      <3>3. uploads' \subseteq [name : 1 .. lastName', sid : 1 .. lastSession']
        <4>1. uploads \subseteq [name : 1 .. lastName, sid : 1 .. lastSession]
          BY DEF IInv, RowHasFile, TypeOK
        <4> HIDE DEF up
        <4> QED
          BY <1>1, <2>3, <4>1, Numbers
      <3>4. disk' \subseteq 1 .. lastName'
        <4>1. disk \subseteq 1 .. lastName
          BY DEF IInv, RowHasFile, TypeOK
        <4> QED
          BY <4>1, <2>2, <2>3, Numbers
      <3> QED
        BY <1>1, <1>2, <2>3, <2>7, <3>1, <3>2, <3>3, <3>4 DEF IInv, RowHasFile, TypeOK
    <2>9. RowHasFile'
      BY <1>1, <1>4, <2>2, <2>4, <2>5, <2>8 DEF IInv, RowHasFile
    <2>10. SharesSound'
      BY <1>1, <2>4 DEF IInv, SharesSound
    <2>11. Unique'
      BY <1>1, <2>4, <2>5, Numbers DEF IInv, Unique
    <2> QED
      BY <2>6, <2>9, <2>10, <2>11 DEF IInv
  <1> QED
    BY <1>3, <1>4

\* handleDelete, whichever of its steps were done.
LEMMA DeleteKept ==
    ASSUME IInv, UNCHANGED sc,
           NEW sid \in 0 .. lastSession, NEW n \in 1 .. lastName, NEW steps \in 1 .. 3,
           handleDelete(sid, n, steps)
    PROVE  IInv'
  <1> DEFINE u == caller.user
             of(f) == {s \in shares : s.file = f.id}
  <1>1. Validated(sid) /\ UNCHANGED <<now, users, ids>>
    BY Zenon DEF handleDelete, Refuse
  <1>2. CASE UNCHANGED <<files, shares, disk, uploads>>
    BY <1>1, <1>2, ReadOnlyKept
  <1>3. ASSUME NEW f \in files, f.name = n, f.owner = u, NEW gone \in BOOLEAN,
               shares' = shares \/ shares' = shares \ of(f),
               gone => shares' = shares \ of(f),
               files' = IF gone THEN files \ {f} ELSE files,
               disk' = disk \/ (gone /\ disk' = disk \ {n}),
               uploads' = {} \/ uploads' = uploads
        PROVE  IInv'
    <2>1. /\ sessions' \subseteq [id : 1 .. lastSession', user : Users, expire : Nat]
          /\ caller' \in Callers'
          /\ UNCHANGED <<lastSession, lastName, lastFile, lastShare>>
          /\ files' \subseteq files /\ shares' \subseteq shares
          /\ uploads' \subseteq uploads /\ disk' \subseteq disk
      BY <1>1, <1>3, ValidateOK DEF ids
    <2>2. TypeOK'
      BY <1>1, <2>1 DEF IInv, RowHasFile, TypeOK
    <2>3. RowHasFile'
      BY <1>3, <2>1, <2>2 DEF IInv, RowHasFile
    <2>4. SharesSound'
      <3>1. ASSUME NEW s \in shares'
            PROVE  \E g \in files' : g.id = s.file /\ g.owner = s.owner
        <4>1. PICK g \in files : g.id = s.file /\ g.owner = s.owner
          BY <2>1 DEF IInv, SharesSound
        <4>2. g \in files'
          BY <1>3, <4>1
        <4> QED
          BY <4>1, <4>2
      <3> QED
        BY <2>1, <3>1 DEF IInv, SharesSound
    <2>5. Unique'
      BY <2>1 DEF IInv, Unique
    <2>6. Counted'
      BY <2>1, CountedKept
    <2> QED
      BY <2>3, <2>4, <2>5, <2>6 DEF IInv
  <1>4. CASE \E f \in {g \in files : g.name = n /\ g.owner = u},
                dropped \in Outcome, ok \in Outcome :
                 LET gone == steps > 1 /\ ok
                 IN  /\ shares' = IF dropped \/ gone THEN shares \ of(f) ELSE shares
                     /\ files' = IF gone THEN files \ {f} ELSE files
                     /\ \E unlinked \in Outcome :
                           disk' = IF gone /\ steps = 3 /\ unlinked THEN disk \ {n}
                                   ELSE disk
                     /\ IF steps < 3 THEN uploads' = {} ELSE UNCHANGED uploads
    BY <1>3, <1>4, Zenon DEF Outcome
  <1> QED
    <2>1. \/ UNCHANGED <<files, shares, disk, uploads>>
          \/ \E f \in {g \in files : g.name = n /\ g.owner = u},
                dropped \in Outcome, ok \in Outcome :
                 LET gone == steps > 1 /\ ok
                 IN  /\ shares' = IF dropped \/ gone THEN shares \ of(f) ELSE shares
                     /\ files' = IF gone THEN files \ {f} ELSE files
                     /\ \E unlinked \in Outcome :
                           disk' = IF gone /\ steps = 3 /\ unlinked THEN disk \ {n}
                                   ELSE disk
                     /\ IF steps < 3 THEN uploads' = {} ELSE UNCHANGED uploads
      BY Zenon DEF handleDelete, Refuse
    <2> QED
      BY <1>2, <1>4, <2>1

\* What the INSERT of handleShareFile adds.
NewShare(u, fid, type, with, h) ==
    [id |-> lastShare + 1, file |-> fid, owner |-> u,
     with |-> IF type = "user" THEN with ELSE Nobody, type |-> type,
     expire |-> IF h > 0 THEN After(h) ELSE Never]

\* ... with what follows from it: a share that has not run out.
Inserted(u, fid, type, with, h) ==
    /\ shares' = shares \cup {NewShare(u, fid, type, with, h)}
    /\ lastShare' = lastShare + 1
    /\ Acts("grant", u, fid, lastShare + 1, FALSE)
    /\ NewShare(u, fid, type, with, h) \in
          [id : 1 .. lastShare + 1, file : 1 .. lastFile, owner : Users,
           with : Users \cup {Nobody},
           type : {"public", "protected", "user"}, expire : Nat]
    /\ NewShare(u, fid, type, with, h).expire > now

\* The INSERT adds that share or nothing.
LEMMA InsertOK ==
    ASSUME IInv, NEW u \in Users, NEW fid \in 1 .. lastFile, NEW h \in ShareHours,
           NEW type \in {"public", "protected", "user"}, NEW with \in Users \cup {Nobody},
           InsertShare(u, fid, type, with, h)
    PROVE  \/ NoAct /\ UNCHANGED <<shares, lastShare>>
           \/ Inserted(u, fid, type, with, h)
  <1>1. h \in Nat /\ After(h) \in Nat /\ (h > 0 => After(h) > now)
    BY StoreAssumption, Numbers DEF After
  <1>2. /\ NewShare(u, fid, type, with, h) \in
                    [id : 1 .. lastShare + 1, file : 1 .. lastFile, owner : Users,
                     with : Users \cup {Nobody},
                     type : {"public", "protected", "user"}, expire : Nat]
        /\ NewShare(u, fid, type, with, h).expire > now
    BY <1>1, Numbers DEF NewShare
  <1>3. \/ NoAct /\ UNCHANGED <<shares, lastShare>>
        \/ /\ shares' = shares \cup {NewShare(u, fid, type, with, h)}
           /\ lastShare' = lastShare + 1
           /\ Acts("grant", u, fid, lastShare + 1, FALSE)
    BY Zenon DEF InsertShare, NewShare
  <1> QED
    BY <1>2, <1>3, Zenon DEF Inserted

\* handleShareFile.
LEMMA ShareFileKept ==
    ASSUME IInv, UNCHANGED sc,
           NEW sid \in 0 .. lastSession, NEW fid \in 1 .. lastFile, NEW h \in ShareHours,
           NEW type \in {"private", "public", "protected", "user"},
           NEW with \in Users \cup {Nobody},
           handleShareFile(sid, fid, type, with, h)
    PROVE  IInv'
  <1> DEFINE u == caller.user
             mine == {f \in files : f.id = fid /\ f.owner = u}
             dup == {s \in shares : s.file = fid /\ s.type = "user" /\ s.with = with}
             new == NewShare(u, fid, type, with, h)
  <1>1. /\ Validated(sid)
        /\ UNCHANGED <<now, users, files, disk, uploads, lastSession, lastName, lastFile>>
    BY Zenon DEF handleShareFile, Refuse, ids
  <1>2. /\ sessions' \subseteq [id : 1 .. lastSession', user : Users, expire : Nat]
        /\ caller' \in Callers'
    BY <1>1, ValidateOK
  <1>3. Unique' /\ Counted'
    BY <1>1, CountedKept DEF IInv, Unique
  <1>4. CASE shares' \subseteq shares /\ UNCHANGED lastShare
    <2>1. TypeOK'
      BY <1>1, <1>2, <1>4 DEF IInv, RowHasFile, TypeOK
    <2>2. RowHasFile' /\ SharesSound'
      BY <1>1, <1>4, <2>1 DEF IInv, RowHasFile, SharesSound
    <2> QED
      BY <1>3, <2>2 DEF IInv
  <1>5. CASE /\ mine # {} /\ type # "private" /\ lastShare < sc.maxShares
             /\ type = "user" /\ with # Nobody /\ dup # {} => sc.mayFail
             /\ InsertShare(u, fid, type, with, h)
    <2>1. u \in Users
      BY <1>5 DEF IInv, RowHasFile, TypeOK
    <2>2. CASE UNCHANGED <<shares, lastShare>>
      BY <1>4, <2>2
    <2>3. CASE Inserted(u, fid, type, with, h)
      <3>0. /\ shares' = shares \cup {new} /\ lastShare' = lastShare + 1
            /\ new \in [id : 1 .. lastShare + 1, file : 1 .. lastFile, owner : Users,
                        with : Users \cup {Nobody},
                        type : {"public", "protected", "user"}, expire : Nat]
        BY <2>3 DEF Inserted
      <3>1. shares' \subseteq [id : 1 .. lastShare', file : 1 .. lastFile', owner : Users,
                               with : Users \cup {Nobody},
                               type : {"public", "protected", "user"}, expire : Nat]
        <4>1. shares \subseteq [id : 1 .. lastShare, file : 1 .. lastFile, owner : Users,
                                with : Users \cup {Nobody},
                                type : {"public", "protected", "user"}, expire : Nat]
          BY DEF IInv, RowHasFile, TypeOK
        <4>2. \A k \in 1 .. lastShare : k \in 1 .. lastShare'
          BY <3>0, Numbers
        <4> HIDE DEF new
        <4> QED
          BY <1>1, <3>0, <4>1, <4>2
      <3>2. lastShare' \in 0 .. sc.maxShares
        BY <1>5, <3>0, Numbers, ScenarioType
      <3>3. TypeOK'
        BY <1>1, <1>2, <3>1, <3>2 DEF IInv, RowHasFile, TypeOK
      <3>4. RowHasFile'
        BY <1>1, <3>3 DEF IInv, RowHasFile
      <3>5. ASSUME NEW s \in shares'
            PROVE  \E f \in files' : f.id = s.file /\ f.owner = s.owner
        <4>1. CASE s \in shares
          BY <1>1, <4>1 DEF IInv, SharesSound
        <4>2. CASE s = new
          BY <1>1, <1>5, <4>2 DEF NewShare
        <4> QED
          BY <3>0, <4>1, <4>2
      <3>6. ASSUME ~sc.mayFail, NEW s \in shares,
                   s.type = "user", new.type = "user", s.file = new.file,
                   s.with = new.with, new.with # Nobody
            PROVE  FALSE
        <4>1. type = "user" /\ with # Nobody /\ s \in dup
          BY <3>6 DEF NewShare
        <4> QED
          BY <1>5, <3>6, <4>1
      <3>7. ASSUME ~sc.mayFail, NEW s \in shares', NEW t \in shares',
                   s.type = "user", t.type = "user", s.file = t.file,
                   s.with = t.with, s.with # Nobody
            PROVE  s = t
        <4>1. CASE s \in shares /\ t \in shares
          BY <3>7, <4>1 DEF IInv, SharesSound
        <4>2. CASE s = new \/ t = new
          <5> HIDE DEF new
          <5> QED
            BY <3>0, <3>6, <3>7, <4>2
        <4> QED
          BY <3>0, <4>1, <4>2
      <3>8. SharesSound'
        BY <3>5, <3>7 DEF SharesSound
      <3> QED
        BY <1>3, <3>4, <3>8 DEF IInv
    <2>4. type \in {"public", "protected", "user"} /\ InsertShare(u, fid, type, with, h)
      BY <1>5
    <2>5. UNCHANGED <<shares, lastShare>> \/ Inserted(u, fid, type, with, h)
      <3> HIDE DEF u
      <3> QED
        BY <2>1, <2>4, InsertOK
    <2> QED
      BY <2>2, <2>3, <2>5
  <1> QED
    BY <1>4, <1>5, Zenon DEF handleShareFile, Refuse, ids

\* Every step keeps the invariant.
LEMMA StepKept == IInv /\ [Next]_vars => IInv'
  <1> SUFFICES ASSUME IInv, [Next]_vars PROVE IInv'
    OBVIOUS
  <1> DEFINE SessionType == [id : 1 .. lastSession', user : Users, expire : Nat]
  <1>0. /\ now \in 0 .. sc.maxTime /\ users \subseteq Users
        /\ lastSession \in lastSession .. sc.maxSessions
        /\ sessions \subseteq [id : 1 .. lastSession, user : Users, expire : Nat]
    BY Numbers, ScenarioType DEF IInv, RowHasFile, TypeOK
  <1>1. CASE UNCHANGED vars
    BY <1>0, <1>1, StoreKept DEF vars, tables, ids
  <1>2. CASE UNCHANGED sc /\ AccountStep
    <2>1. ASSUME NEW u \in Users, handleRegister(u) PROVE IInv'
      <3>1. users' \subseteq Users
        BY <1>0, <2>1 DEF handleRegister
      <3> QED
        BY <1>0, <1>2, <2>1, <3>1, StoreKept DEF handleRegister, Unchecked, ids
    <2>2. ASSUME NEW u \in Users, NEW right \in BOOLEAN, handleLogin(u, right) PROVE IInv'
      <3>1. After(sc.ttl) \in Nat
        BY Numbers, ScenarioType DEF After
      <3>2. lastSession' \in lastSession .. sc.maxSessions /\ sessions' \subseteq SessionType
        BY <1>0, <2>2, <3>1, Numbers, ScenarioType DEF handleLogin
      <3> QED
        BY <1>0, <1>2, <2>2, <3>2, StoreKept DEF handleLogin, Unchecked
    <2>3. ASSUME NEW sid \in 0 .. lastSession, handleLogout(sid) PROVE IInv'
      <3>1. sessions' \subseteq sessions /\ UNCHANGED ids
        BY <2>3 DEF handleLogout
      <3> QED
        BY <1>0, <1>2, <2>3, <3>1, StoreKept DEF handleLogout, Unchecked, ids
    <2>4. ASSUME NEW sid \in 0 .. lastSession, handleSearchUsers(sid) PROVE IInv'
      BY <1>2, <2>4, ReadOnlyKept DEF handleSearchUsers, Refuse
    <2>5. ASSUME NEW sid \in 0 .. lastSession, validateSession(sid) PROVE IInv'
      <3>1. UNCHANGED <<now, users, sessions, files, shares, disk, uploads, ids>>
        BY <2>5 DEF validateSession, tables
      <3>2. caller' \in Callers'
        <4>1. PICK ok \in Outcome :
                  caller' = [sid |-> sid, user |-> IF ok THEN UserOf(sid) ELSE Nobody]
          BY <2>5 DEF validateSession
        <4>2. UNCHANGED lastSession
          BY <3>1 DEF ids
        <4> QED
          BY <4>1, <4>2, UserOfOK DEF Callers
      <3>3. TypeOK'
        BY <1>2, <3>1, <3>2 DEF IInv, RowHasFile, TypeOK, ids
      <3>4. RowHasFile' /\ SharesSound' /\ Unique'
        BY <1>2, <3>1, <3>3 DEF IInv, RowHasFile, SharesSound, Unique
      <3>5. Counted'
        BY <3>1, CountedKept DEF ids
      <3> QED
        BY <3>4, <3>5 DEF IInv
    <2> QED
      BY <1>2, <2>1, <2>2, <2>3, <2>4, <2>5 DEF AccountStep
  <1>3. CASE UNCHANGED sc /\ FileStep
    <2>1. ASSUME NEW sid, handleListFiles(sid) PROVE IInv'
      BY <1>3, <2>1, ReadOnlyKept DEF handleListFiles, Refuse
    <2>2. ASSUME NEW sid, NEW n, NEW code, NEW right, Serve(sid, n, code, right) PROVE IInv'
      <3>1. Validated(sid) /\ UNCHANGED <<now, users, files, shares, disk, uploads, ids>>
        BY <2>2, Zenon DEF Serve, Refuse
      <3> QED
        BY <1>3, <3>1, ReadOnlyKept
    <2>3. ASSUME NEW sid, NEW n, NEW code, NEW right, handleShareDownload(sid, n, code, right)
          PROVE  IInv'
      <3>1. CASE Refuse("download", "error") /\ Unchecked /\ UNCHANGED <<now, users, sessions>>
        BY <1>0, <1>3, <3>1, StoreKept DEF Refuse, Unchecked, ids
      <3> QED
        BY <2>2, <2>3, <3>1 DEF handleShareDownload
    <2> QED
      BY <1>3, <2>1, <2>2, <2>3, UploadKept, DeleteKept, Zenon DEF FileStep, handleDownload
  <1>4. CASE UNCHANGED sc /\ ShareStep
    <2>1. ASSUME NEW sid, NEW code, NEW right, handleShareAccess(sid, code, right) PROVE IInv'
      <3>1. Validated(sid) /\ UNCHANGED <<now, users, files, shares, disk, uploads, ids>>
        BY <2>1 DEF handleShareAccess, Refuse
      <3> QED
        BY <1>4, <3>1, ReadOnlyKept
    <2>2. ASSUME NEW code, NEW right, handleShareInfo(code, right) PROVE IInv'
      <3>1. /\ UNCHANGED <<now, users, sessions, files, shares, disk, ids>>
            /\ uploads' \subseteq uploads /\ UNCHANGED caller
        BY <2>2 DEF handleShareInfo, Refuse, Unchecked
      <3> QED
        BY <1>0, <1>4, <3>1, StoreKept DEF ids
    <2>3. ASSUME NEW sid \in 0 .. lastSession, NEW fid \in 1 .. lastFile, NEW h \in ShareHours,
                 NEW type \in {"private", "public", "protected"},
                 handleShareFile(sid, fid, type, Nobody, h)
          PROVE  IInv'
      BY <1>4, <2>3, ShareFileKept
    <2>4. ASSUME NEW sid \in 0 .. lastSession, NEW fid \in 1 .. lastFile, NEW h \in ShareHours,
                 NEW with \in Users \cup {Nobody}, handleShareFile(sid, fid, "user", with, h)
          PROVE  IInv'
      BY <1>4, <2>4, ShareFileKept
    <2> QED
      BY <1>4, <2>1, <2>2, <2>3, <2>4 DEF ShareStep
  <1>5. CASE UNCHANGED sc /\ \E up \in uploads : UploadAborted(up)
    BY <1>0, <1>5, StoreKept DEF UploadAborted, Unchecked, tables, ids
  <1>6. CASE UNCHANGED sc /\ Restart
    BY <1>0, <1>6, StoreKept DEF Restart, tables, ids
  <1>7. CASE UNCHANGED sc /\ Tick
    <2>1. now' \in 0 .. sc.maxTime
      BY <1>7, Numbers DEF Tick
    <2> QED
      BY <1>0, <1>7, <2>1, StoreKept DEF Tick, tables, ids
  <1> QED
    BY <1>1, <1>2, <1>3, <1>4, <1>5, <1>6, <1>7 DEF Next

\* The invariant holds in every reachable state.
LEMMA Invariant == Spec => []IInv
  <1>1. Init => IInv
    <2> SUFFICES ASSUME Init PROVE IInv
      OBVIOUS
    <2>1. Counted
      BY FS_EmptySet DEF Init, Counted
    <2>2. TypeOK
      BY ScenarioType DEF Init, TypeOK, Callers
    <2> QED
      BY <2>1, <2>2 DEF Init, IInv, RowHasFile, SharesSound, Unique
  <1> QED
    BY <1>1, StepKept, PTL DEF Spec

\* Every row of files has a complete file of its own, whatever the process is
\* killed in and whichever statement fails: for any users and any bounds.
THEOREM StoreRowHasFile == Spec => []RowHasFile
  <1>1. IInv => RowHasFile
    BY DEF IInv
  <1> QED
    BY <1>1, Invariant, PTL

\* Every share is of an existing file and was made by its owner, and without
\* failures a file is shared with a user at most once.
THEOREM StoreSharesSound == Spec => []SharesSound
  <1>1. IInv => SharesSound
    BY DEF IInv
  <1> QED
    BY <1>1, Invariant, PTL

----------------------------------------------------------------------------
(* Sessions that have ended.                                               *)

\* Outside a session check the table changes by at most a session with a new id.
AddsSession ==
    /\ caller = NoCaller /\ UNCHANGED <<caller, now>>
    /\ \A s \in sessions' : s \in sessions \/ s.id = lastSession + 1

\* Time passes, or the process is killed: the table stays as it is.
LeavesSessions ==
    /\ now' \in Nat /\ now <= now' /\ UNCHANGED sessions
    /\ caller' \in {caller, NoCaller}

\* Every step makes one of the two statements of a session check, or neither.
SessionCases ==
    \/ \E sid : Validated(sid) /\ UNCHANGED <<now, sc>>
    \/ \E sid : validateSession(sid)
    \/ AddsSession \/ LeavesSessions

LEMMA SessionStep ==
    ASSUME IInv, Next
    PROVE  SessionCases
  <1> USE Numbers
  <1>1. CASE AccountStep
    <2>1. CASE \E u \in Users : handleRegister(u)
      BY <2>1 DEF handleRegister, Unchecked, AddsSession, SessionCases
    <2>2. CASE \E u \in Users, right \in BOOLEAN : handleLogin(u, right)
      BY <2>2 DEF handleLogin, Unchecked, AddsSession, SessionCases
    <2>3. CASE \E sid \in 0 .. lastSession : handleLogout(sid)
      BY <2>3 DEF handleLogout, Unchecked, AddsSession, SessionCases
    <2>4. CASE \E sid \in 0 .. lastSession : handleSearchUsers(sid)
      BY <2>4 DEF handleSearchUsers, Next, SessionCases
    <2>5. CASE \E sid \in 0 .. lastSession : validateSession(sid)
      BY <2>5 DEF SessionCases
    <2> QED
      BY <1>1, <2>1, <2>2, <2>3, <2>4, <2>5 DEF AccountStep
  <1>2. CASE FileStep
    <2> SUFFICES ASSUME NEW sid \in 0 .. lastSession,
                        \/ \E n \in 1 .. lastName + 1, last \in BOOLEAN :
                              handleFileUpload([name |-> n, sid |-> sid], last)
                        \/ handleListFiles(sid)
                        \/ \E n, code, right :
                              \/ Serve(sid, n, code, right)
                              \/ handleShareDownload(sid, n, code, right)
                        \/ \E n, steps : handleDelete(sid, n, steps)
                 PROVE  \/ Validated(sid) /\ UNCHANGED now
                        \/ UNCHANGED <<now, sessions, caller>>
      BY <1>2, SMTT(30) DEF FileStep, handleDownload, Next, SessionCases, LeavesSessions
    <2>1. CASE \E n \in 1 .. lastName + 1, last \in BOOLEAN :
                   handleFileUpload([name |-> n, sid |-> sid], last)
      BY <2>1 DEF handleFileUpload
    <2>2. CASE handleListFiles(sid)
      BY <2>2 DEF handleListFiles
    <2>3. CASE \E n, code, right :
                  Serve(sid, n, code, right) \/ handleShareDownload(sid, n, code, right)
      <3>1. ASSUME NEW n, NEW code, NEW right, Serve(sid, n, code, right)
            PROVE  Validated(sid) /\ UNCHANGED now
        BY <3>1, Zenon DEF Serve
      <3> QED
        BY <2>3, <3>1 DEF handleShareDownload, Unchecked
    <2>4. CASE \E n, steps : handleDelete(sid, n, steps)
      BY <2>4, Zenon DEF handleDelete
    <2> QED
      BY <2>1, <2>2, <2>3, <2>4
  <1>3. CASE ShareStep
    <2>1. CASE \E sid, fid, h, type, with : handleShareFile(sid, fid, type, with, h)
      BY <2>1, ZenonT(40) DEF handleShareFile, Next, SessionCases
    <2>2. CASE \E sid, code, right : handleShareAccess(sid, code, right)
      BY <2>2, Zenon DEF handleShareAccess, Next, SessionCases
    <2>3. CASE \E code, right : handleShareInfo(code, right)
      BY <2>3 DEF handleShareInfo, Unchecked, LeavesSessions, SessionCases
    <2> QED
      BY <1>3, <2>1, <2>2, <2>3 DEF ShareStep
  <1>4. CASE (\E up \in uploads : UploadAborted(up)) \/ Restart \/ Tick
    BY <1>4 DEF UploadAborted, Unchecked, Restart, Tick, tables, LeavesSessions, SessionCases
  <1> QED
    BY <1>1, <1>2, <1>3, <1>4 DEF Next

\* A handler between the two statements of its check has a session of its user.
Admitted ==
    caller.user # Nobody =>
        \E s \in sessions : s.id = caller.sid /\ s.user = caller.user

\* Every step keeps that.
LEMMA AdmittedKept ==
    ASSUME IInv, Admitted, Next
    PROVE  Admitted'
  <1>1. CASE \E sid : Validated(sid) /\ UNCHANGED <<now, sc>>
    BY <1>1 DEF Validated, Admitted, NoCaller
  <1>2. CASE \E sid : validateSession(sid)
    <2>1. PICK sid : validateSession(sid)
      BY <1>2, Zenon
    <2>2. PICK ok \in Outcome :
              caller' = [sid |-> sid, user |-> IF ok THEN UserOf(sid) ELSE Nobody]
      BY <2>1, Zenon DEF validateSession
    <2>3. UNCHANGED sessions
      BY <2>1 DEF validateSession, tables
    <2> QED
      BY <2>2, <2>3, UserOfOK DEF Admitted, Live
  <1>3. CASE AddsSession
    BY <1>3 DEF AddsSession, Admitted, NoCaller
  <1>4. CASE LeavesSessions
    BY <1>4 DEF LeavesSessions, Admitted, NoCaller
  <1> QED
    BY <1>1, <1>2, <1>3, <1>4, SessionStep DEF SessionCases

\* What a step may do to a session that has ended.
EndedStays(sid) ==
    Live(sid) = {} =>
        /\ caller' # caller /\ caller'.sid = sid => caller'.user = Nobody
        /\ Live(sid)' # {} => /\ caller.sid = sid /\ caller.user # Nobody
                              /\ \E s \in sessions : s.id = sid /\ s.user = caller.user

\* No step admits a request on it, and only a check under way revives it.
LEMMA SessionEnded ==
    ASSUME IInv, Admitted, Next, NEW sid \in 1 .. lastSession
    PROVE  EndedStays(sid)
  <1> SUFFICES ASSUME Live(sid) = {}
               PROVE  /\ caller' # caller /\ caller'.sid = sid => caller'.user = Nobody
                      /\ Live(sid)' # {} =>
                            /\ caller.sid = sid /\ caller.user # Nobody
                            /\ \E s \in sessions : s.id = sid /\ s.user = caller.user
    BY DEF EndedStays
  <1>1. CASE \E k : Validated(k) /\ UNCHANGED <<now, sc>>
    BY <1>1, ValidateOK DEF Admitted, NoCaller
  <1>2. CASE \E k : validateSession(k)
    <2>1. PICK k : validateSession(k)
      BY <1>2, Zenon
    <2>2. PICK ok \in Outcome :
              caller' = [sid |-> k, user |-> IF ok THEN UserOf(k) ELSE Nobody]
      BY <2>1, Zenon DEF validateSession
    <2>3. UNCHANGED <<sessions, now>>
      BY <2>1 DEF validateSession, tables
    <2>4. Live(sid)' = {} /\ UserOf(sid) = Nobody
      BY <2>3 DEF Live, UserOf
    <2> QED
      BY <2>2, <2>4
  <1>3. sessions \subseteq [id : 1 .. lastSession, user : Users, expire : Nat]
    BY DEF IInv, RowHasFile, TypeOK
  <1>4. CASE /\ now' \in Nat /\ now <= now' /\ caller' \in {caller, NoCaller}
             /\ \A s \in sessions' : s \in sessions \/ s.id = lastSession + 1
    <2>1. ASSUME NEW s \in sessions', s.id = sid, s.expire > now' PROVE FALSE
      <3>1. s \in sessions
        BY <1>4, <2>1, Numbers
      <3>2. s.expire \in Nat /\ s.expire > now
        BY <1>3, <1>4, <2>1, <3>1, Numbers
      <3> QED
        BY <2>1, <3>1, <3>2 DEF Live
    <2>2. Live(sid)' = {}
      BY <2>1 DEF Live
    <2> QED
      BY <1>4, <2>2 DEF NoCaller
  <1>5. CASE AddsSession
    BY <1>4, <1>5, Numbers DEF AddsSession
  <1>6. CASE LeavesSessions
    BY <1>4, <1>6 DEF LeavesSessions
  <1> QED
    BY <1>1, <1>2, <1>5, <1>6, SessionStep DEF SessionCases

\* A session that has ended admits no request, and comes back only through a
\* request admitted before it ran out, for the same user: for any number of
\* sessions and requests, over failures, kills and restarts.
THEOREM StoreSessionStaysEnded == Spec => SessionStaysEnded
  <1>1. Init => Admitted
    BY DEF Init, Admitted, NoCaller
  <1>2. IInv /\ Admitted /\ [Next]_vars => Admitted'
    BY AdmittedKept DEF Admitted, vars, tables
  <1>3. IInv /\ Admitted /\ [Next]_vars => [\A sid \in 1 .. lastSession : EndedStays(sid)]_vars
    BY SessionEnded
  <1>4. (\A sid \in 1 .. lastSession : EndedStays(sid)) <=>
        (\A sid \in 1 .. lastSession : Live(sid) = {} =>
          /\ caller' # caller /\ caller'.sid = sid => caller'.user = Nobody
          /\ Live(sid)' # {} => /\ caller.sid = sid /\ caller.user # Nobody
                                /\ \E s \in sessions : s.id = sid /\ s.user = caller.user)
    BY DEF EndedStays
  <1> QED
    BY <1>1, <1>2, <1>3, <1>4, Invariant, PTL DEF Spec, SessionStaysEnded

----------------------------------------------------------------------------
(* The access policy.                                                      *)

\* The files with their owners, and the shares that stand, as Access sees them.
AsOwned(f) == [file |-> f.id, owner |-> f.owner]
Owned == {AsOwned(f) : f \in files}
AsGrant(s) == [id |-> s.id, file |-> s.file, type |-> s.type, with |-> s.with]
Grants == {AsGrant(s) : s \in LiveShares}

\* A reply that concerns no file, while shares at most run out.
LEMMA PolicyRunOut ==
    ASSUME NoAct, UNCHANGED <<files, lastShare>>, Grants' \subseteq Grants
    PROVE  A!Next
  <1>1. A!RunOut
    BY DEF A!RunOut, NoAct, Grants, AsGrant, LiveShares
  <1> QED
    BY <1>1 DEF A!Next

\* Nothing the policy speaks of changes.
LEMMA PolicyIdle ==
    ASSUME NoAct, UNCHANGED <<files, shares, now, lastShare>>
    PROVE  A!Next
  <1>1. Grants' = Grants
    BY DEF Grants, AsGrant, LiveShares
  <1> QED
    BY <1>1, PolicyRunOut

\* handleFileUpload adds at most a file with a new key.
LEMMA PolicyUpload ==
    ASSUME IInv, NEW up, NEW last, handleFileUpload(up, last)
    PROVE  A!Next
  <1> DEFINE u == caller.user
  <1>1. NoAct /\ UNCHANGED <<shares, now, lastShare>>
    BY DEF handleFileUpload
  <1>2. CASE UNCHANGED files
    BY <1>1, <1>2, PolicyIdle
  <1>3. CASE files' = files \cup {[id |-> lastFile + 1, name |-> up.name, owner |-> u]}
    <2>1. \A f \in files : f.id # lastFile + 1
      BY Numbers DEF IInv, RowHasFile, TypeOK
    <2>2. PICK new : new = [id |-> lastFile + 1, name |-> up.name, owner |-> u]
      BY Zenon
    <2>3. PICK o : o = AsOwned(new)
      OBVIOUS
    <2>4. o.file \notin {p.file : p \in Owned} /\ o = [file |-> o.file, owner |-> o.owner]
      BY <2>1, <2>2, <2>3 DEF Owned, AsOwned
    <2>5. Owned' = Owned \cup {o}
      <3>1. files' = files \cup {new}
        BY <1>3, <2>2
      <3> QED
        BY <2>3, <3>1 DEF Owned
    <2>6. Grants' = Grants
      BY <1>1 DEF Grants, AsGrant, LiveShares
    <2>7. A!Add(o.owner, o.file)
      BY <1>1, <2>4, <2>5, <2>6
         DEF A!Add, NoAct, Owned, AsOwned, Grants, AsGrant, LiveShares
    <2>8. \E p \in Owned' : A!Add(p.owner, p.file)
      BY <2>5, <2>7
    <2> QED
      BY <2>8 DEF A!Next, Owned, AsOwned
  <1> QED
    BY <1>2, <1>3 DEF handleFileUpload

\* What an act of user u on one file needs to be a step of the policy.
LEMMA PolicyAct ==
    ASSUME NEW u \in Users \cup {Nobody}, NEW f, NEW g, NEW op, NEW key,
           Acts(op, u, f, g, key),
           \/ A!Remove(u, f) \/ A!Withdraw(u, f) \/ A!Give(u, f, g, key)
           \/ \E r \in Grants' : A!Grant(u, f, r.type, r.with)
    PROVE  A!Next
  <1>1. act'.user = u /\ act'.file = f /\ act'.grant = g /\ act'.key = key
    BY DEF Acts, A!Act
  <1>2. CASE A!Remove(u, f)
    <2>1. A!Remove(act'.user, act'.file)
      BY <1>1, <1>2, Zenon DEF A!Remove, A!Owns, A!Act
    <2> QED
      BY <1>1, <2>1, Zenon DEF A!Next
  <1>3. CASE A!Withdraw(u, f)
    <2>1. A!Withdraw(act'.user, act'.file)
      BY <1>1, <1>3, Zenon DEF A!Withdraw, A!Owns, A!Act
    <2> QED
      BY <1>1, <2>1, Zenon DEF A!Next
  <1>4. CASE A!Give(u, f, g, key)
    <2>1. A!Give(act'.user, act'.file, act'.grant, act'.key)
      BY <1>1, <1>4, Zenon DEF A!Give, A!Owns, A!Act, A!Opens
    <2> QED
      BY <1>1, <2>1, Zenon DEF A!Next
  <1>5. CASE \E r \in Grants' : A!Grant(u, f, r.type, r.with)
    <2>1. PICK r \in Grants' : A!Grant(act'.user, act'.file, r.type, r.with)
      BY <1>1, <1>5, Zenon DEF A!Grant, A!Owns, A!Act
    <2> QED
      BY <1>1, <2>1, Zenon DEF A!Next, Grants, AsGrant, LiveShares
  <1> QED
    BY <1>2, <1>3, <1>4, <1>5

\* A withdrawal by the owner drops only shares of the file.
LEMMA PolicyWithdraw ==
    ASSUME IInv, NEW f \in files, UNCHANGED <<files, now, lastShare>>,
           Acts("withdraw", f.owner, f.id, 0, FALSE),
           shares' \subseteq shares, \A s \in shares \ shares' : s.file = f.id
    PROVE  A!Next
  <1>1. Owned' = Owned /\ AsOwned(f) \in Owned
    BY Zenon DEF Owned, AsOwned
  <1>2. LiveShares' \subseteq LiveShares /\ \A s \in LiveShares \ LiveShares' : s.file = f.id
    BY DEF LiveShares
  <1>3. Grants' \subseteq Grants /\ \A g \in Grants \ Grants' : g.file = f.id
    BY <1>2 DEF Grants, AsGrant
  <1>4. A!Withdraw(f.owner, f.id)
    BY <1>1, <1>3, Zenon DEF A!Withdraw, A!Owns, Acts, Owned, AsOwned, Grants, AsGrant, LiveShares
  <1>5. f.owner \in Users \cup {Nobody}
    BY DEF IInv, RowHasFile, TypeOK
  <1> QED
    BY <1>4, <1>5, PolicyAct, Zenon

\* A deletion by the owner takes the file and all its shares.
LEMMA PolicyRemove ==
    ASSUME IInv, NEW f \in files, UNCHANGED <<now, lastShare>>,
           Acts("remove", f.owner, f.id, 0, FALSE), files' = files \ {f},
           shares' = shares \ {s \in shares : s.file = f.id}
    PROVE  A!Next
  <1>1. \A g \in files : AsOwned(g) = AsOwned(f) => g = f
    BY DEF IInv, Unique, AsOwned
  <1>2. Owned' = Owned \ {AsOwned(f)} /\ AsOwned(f) \in Owned
    BY <1>1 DEF Owned
  <1>3. LiveShares' = {s \in LiveShares : s.file # f.id}
    BY DEF LiveShares
  <1>4. Grants' = {g \in Grants : g.file # f.id}
    BY <1>3 DEF Grants, AsGrant
  <1>5. A!Remove(f.owner, f.id)
    BY <1>2, <1>4 DEF A!Remove, A!Owns, Acts, Owned, AsOwned, Grants, AsGrant, LiveShares
  <1>6. f.owner \in Users \cup {Nobody}
    BY DEF IInv, RowHasFile, TypeOK
  <1> QED
    BY <1>5, <1>6, PolicyAct, Zenon

\* handleDelete is a removal or a withdrawal by the owner.
LEMMA PolicyDelete ==
    ASSUME IInv, NEW sid, NEW n, NEW steps, handleDelete(sid, n, steps)
    PROVE  A!Next
  <1>1. CASE Refuse("delete", "denied")
    BY <1>1, PolicyIdle, Zenon DEF handleDelete, Refuse, ids
  <1>2. ASSUME NEW f \in files, f.owner = caller.user, NEW gone \in BOOLEAN, NEW dropped,
               shares' = IF dropped \/ gone THEN shares \ {s \in shares : s.file = f.id}
                         ELSE shares,
               files' = IF gone THEN files \ {f} ELSE files,
               Acts(IF gone THEN "remove" ELSE "withdraw", caller.user, f.id, 0, FALSE),
               UNCHANGED <<now, ids>>
        PROVE  A!Next
    <2>1. CASE gone
      BY <1>2, <2>1, PolicyRemove, Zenon DEF ids, Acts
    <2>2. CASE ~gone
      BY <1>2, <2>2, PolicyWithdraw, Zenon DEF ids, Acts
    <2> QED
      BY <2>1, <2>2
  <1>3. \/ Refuse("delete", "denied")
        \/ \E f \in {g \in files : g.name = n /\ g.owner = caller.user},
              dropped \in Outcome, ok \in Outcome :
                 LET gone == steps > 1 /\ ok
                 IN  /\ shares' = IF dropped \/ gone
                                  THEN shares \ {s \in shares : s.file = f.id} ELSE shares
                     /\ files' = IF gone THEN files \ {f} ELSE files
                     /\ Acts(IF gone THEN "remove" ELSE "withdraw", caller.user, f.id, 0, FALSE)
                     /\ UNCHANGED <<now, ids>>
    BY Zenon DEF handleDelete
  <1> QED
    BY <1>1, <1>2, <1>3, Zenon

\* handleShareFile is a withdrawal or a new grant by the owner.
LEMMA PolicyShareFile ==
    ASSUME IInv, NEW sid, NEW fid \in 1 .. lastFile, NEW h \in ShareHours,
           NEW type \in {"private", "public", "protected", "user"},
           NEW with \in Users \cup {Nobody},
           handleShareFile(sid, fid, type, with, h)
    PROVE  A!Next
  <1> DEFINE mine == {f \in files : f.id = fid /\ f.owner = caller.user}
  <1>1. UNCHANGED <<now, files>>
    BY Zenon DEF handleShareFile, Refuse
  <1>2. CASE NoAct /\ UNCHANGED <<shares, lastShare>>
    BY <1>1, <1>2, PolicyIdle
  <1>3. CASE /\ mine # {}
             /\ \E ok \in Outcome :
                    shares' = IF ok THEN {s \in shares : s.file # fid} ELSE shares
             /\ Acts("withdraw", caller.user, fid, 0, FALSE)
             /\ UNCHANGED ids
    <2>1. PICK f \in files : f.id = fid /\ f.owner = caller.user
      BY <1>3, Zenon
    <2>2. shares' \subseteq shares /\ \A s \in shares \ shares' : s.file = f.id
      BY <1>3, <2>1
    <2>3. Acts("withdraw", f.owner, f.id, 0, FALSE) /\ UNCHANGED lastShare
      BY <1>3, <2>1 DEF Acts, ids
    <2> QED
      BY <1>1, <2>2, <2>3, PolicyWithdraw, Zenon
  <1>4. CASE /\ mine # {} /\ type # "private"
             /\ InsertShare(caller.user, fid, type, with, h)
    <2>1. PICK f \in files : f.id = fid /\ f.owner = caller.user
      BY <1>4
    <2>2. PICK u : u = f.owner
      OBVIOUS
    <2>3. u \in Users /\ u = caller.user
      BY <2>1, <2>2 DEF IInv, RowHasFile, TypeOK
    <2>4. InsertShare(u, fid, type, with, h) /\ type \in {"public", "protected", "user"}
      BY <1>4, <2>3, Zenon DEF InsertShare, Acts
    <2>5. CASE Inserted(u, fid, type, with, h)
      <3>1. PICK new : new = NewShare(u, fid, type, with, h)
        OBVIOUS
      <3>2. /\ shares' = shares \cup {new} /\ lastShare' = lastShare + 1 /\ new.expire > now
            /\ Acts("grant", u, fid, lastShare + 1, FALSE)
            /\ new.id = lastShare + 1 /\ new.file = fid
        BY <2>5, <3>1, Zenon DEF Inserted, NewShare
      <3>3. LiveShares' = LiveShares \cup {new}
        BY <1>1, <3>2 DEF LiveShares
      <3>4. PICK g : g = AsGrant(new)
        OBVIOUS
      <3>5. Grants' = Grants \cup {g}
        BY <3>3, <3>4 DEF Grants
      <3>6. g = [id |-> lastShare + 1, file |-> fid, type |-> g.type, with |-> g.with]
        BY <3>2, <3>4 DEF AsGrant
      <3>7. Owned' = Owned /\ [file |-> fid, owner |-> u] \in Owned
        BY <1>1, <2>1, <2>2 DEF Owned, AsOwned
      <3>8. A!Grant(u, fid, g.type, g.with)
        BY <3>2, <3>5, <3>6, <3>7
           DEF A!Grant, A!Owns, Acts, Owned, AsOwned, Grants, AsGrant, LiveShares
      <3>9. \E r \in Grants' : A!Grant(u, fid, r.type, r.with)
        BY <3>5, <3>8
      <3>10. PICK k : k = lastShare + 1
        OBVIOUS
      <3>11. Acts("grant", u, fid, k, FALSE)
        BY <3>2, <3>10 DEF Acts
      <3> QED
        BY <2>3, <3>9, <3>11, PolicyAct, Zenon
    <2> QED
      BY <1>2, <2>3, <2>4, <2>5, InsertOK
  <1> QED
    BY <1>2, <1>3, <1>4, Zenon DEF handleShareFile, Refuse, ids

\* A download gives the file to its owner, or on a share that stands.
LEMMA PolicyServe ==
    ASSUME IInv, NEW sid, NEW n, NEW code, NEW right, Serve(sid, n, code, right)
    PROVE  A!Next
  <1> DEFINE on(f) == {s \in LiveShares : s.id = code /\ s.file = f.id}
  <1>1. UNCHANGED <<now, files, shares, lastShare>>
    BY Zenon DEF Serve, Refuse, ids
  <1>2. CASE NoAct
    BY <1>1, <1>2, PolicyIdle
  <1>3. CASE \E f \in files :
                /\ caller.user = f.owner \/ \E s \in on(f) : Opens(s, caller.user, right)
                /\ Acts("give", caller.user, f.id, code, right)
    <2>1. PICK u : u = caller.user
      OBVIOUS
    <2>2. u \in Users \cup {Nobody}
      BY <2>1, CallerOK
    <2>3. PICK f \in files :
                /\ u = f.owner \/ \E s \in on(f) : Opens(s, u, right)
                /\ Acts("give", u, f.id, code, right)
      BY <1>3, <2>1 DEF Opens, Acts
    <2>4. \/ AsOwned(f) \in Owned /\ f.owner = u
          \/ \E g \in Grants : g.id = code /\ g.file = f.id /\ A!Opens(g, u, right)
      <3>1. CASE u = f.owner
        BY <3>1 DEF Owned
      <3>2. CASE \E s \in on(f) : Opens(s, u, right)
        <4>1. PICK s \in LiveShares : s.id = code /\ s.file = f.id /\ Opens(s, u, right)
          BY <3>2
        <4>2. A!Opens(AsGrant(s), u, right) /\ AsGrant(s).id = code /\ AsGrant(s).file = f.id
          BY <4>1, Zenon DEF A!Opens, Opens, AsGrant
        <4>3. AsGrant(s) \in Grants
          BY <4>1 DEF Grants
        <4> QED
          BY <4>2, <4>3
      <3> QED
        BY <2>3, <3>1, <3>2, Zenon
    <2>5. Owned' = Owned /\ Grants' = Grants
      BY <1>1 DEF Owned, AsOwned, Grants, AsGrant, LiveShares
    <2>6. A!Give(u, f.id, code, right)
      BY <1>1, <2>3, <2>4, <2>5, Zenon
         DEF A!Give, A!Owns, Acts, Owned, AsOwned, Grants, AsGrant, LiveShares
    <2> QED
      BY <2>2, <2>3, <2>6, PolicyAct, Zenon
  <1> QED
    BY <1>2, <1>3, Zenon DEF Serve, Refuse

\* Every step is a step of the policy.
LEMMA PolicyStep ==
    ASSUME IInv, Next
    PROVE  A!Next
  <1>1. CASE AccountStep
    <2>1. NoAct /\ UNCHANGED <<files, shares, now, lastShare>>
      BY <1>1, Zenon DEF AccountStep, handleRegister, handleLogin, handleLogout,
                  handleSearchUsers, validateSession, Refuse, tables, ids
    <2> QED
      BY <2>1, PolicyIdle
  <1>2. CASE FileStep
    <2>1. ASSUME NEW sid, handleListFiles(sid) PROVE A!Next
      BY <2>1, PolicyIdle DEF handleListFiles, Refuse, ids
    <2>2. ASSUME NEW sid, NEW n, NEW code, NEW right, handleShareDownload(sid, n, code, right)
          PROVE  A!Next
      <3>1. CASE Refuse("download", "error") /\ UNCHANGED now
        BY <3>1, PolicyIdle DEF Refuse, ids
      <3> QED
        BY <2>2, <3>1, PolicyServe DEF handleShareDownload
    <2>3. ASSUME NEW sid, NEW n, NEW code, NEW right, handleDownload(sid, n, code, right)
          PROVE  A!Next
      BY <2>3, PolicyServe DEF handleDownload
    <2> QED
      BY <1>2, <2>1, <2>2, <2>3, PolicyUpload, PolicyDelete, Zenon DEF FileStep
  <1>3. CASE ShareStep
    <2>1. ASSUME NEW sid, NEW code, NEW right, handleShareAccess(sid, code, right)
          PROVE  A!Next
      <3>1. NoAct /\ UNCHANGED <<files, shares, now, lastShare>>
        BY <2>1 DEF handleShareAccess, Refuse, ids
      <3> QED
        BY <3>1, PolicyIdle
    <2>2. ASSUME NEW code, NEW right, handleShareInfo(code, right) PROVE A!Next
      <3>1. NoAct /\ UNCHANGED <<files, shares, now, lastShare>>
        BY <2>2 DEF handleShareInfo, Refuse, ids
      <3> QED
        BY <3>1, PolicyIdle
    <2>3. ASSUME NEW sid \in 0 .. lastSession, NEW fid \in 1 .. lastFile, NEW h \in ShareHours,
                 NEW type \in {"private", "public", "protected"},
                 handleShareFile(sid, fid, type, Nobody, h)
          PROVE  A!Next
      BY <2>3, PolicyShareFile
    <2>4. ASSUME NEW sid \in 0 .. lastSession, NEW fid \in 1 .. lastFile, NEW h \in ShareHours,
                 NEW with \in Users \cup {Nobody}, handleShareFile(sid, fid, "user", with, h)
          PROVE  A!Next
      BY <2>4, PolicyShareFile
    <2> QED
      BY <1>3, <2>1, <2>2, <2>3, <2>4 DEF ShareStep
  <1>4. CASE (\E up \in uploads : UploadAborted(up)) \/ Restart
    BY <1>4, PolicyIdle DEF UploadAborted, Restart, tables, ids
  <1>5. CASE Tick
    <2>1. LiveShares' \subseteq LiveShares
      <3>1. \A s \in shares : s.expire \in Nat
        BY DEF IInv, RowHasFile, TypeOK
      <3> QED
        BY <1>5, <3>1, Numbers DEF LiveShares, Tick, tables
    <2>2. Grants' \subseteq Grants
      BY <2>1 DEF Grants, AsGrant
    <2> QED
      BY <1>5, <2>2, PolicyRunOut DEF Tick, tables, ids
  <1> QED
    BY <1>1, <1>2, <1>3, <1>4, <1>5 DEF Next

\* handleShareAccess tells of a share only while it stands and its file exists.
AccessAnswer ==
    reply'.op \in {"public", "protected", "user"} /\ reply'.status = "ok" =>
        \E s \in shares : /\ s.type = reply'.op /\ s.expire > now
                          /\ \E f \in files : f.id = s.file

\* No other handler gives such an answer.
LEMMA AnswerStep ==
    ASSUME IInv, Next
    PROVE  AccessAnswer
  <1>1. CASE AccountStep
    <2>1. ASSUME NEW u, handleRegister(u) PROVE \E status : Reply("register", status)
      BY <2>1, Zenon DEF handleRegister
    <2>2. ASSUME NEW u, NEW right, handleLogin(u, right) PROVE \E status : Reply("login", status)
      BY <2>2, Zenon DEF handleLogin
    <2>3. ASSUME NEW sid, handleLogout(sid) PROVE \E status : Reply("logout", status)
      BY <2>3, Zenon DEF handleLogout
    <2>4. ASSUME NEW sid, handleSearchUsers(sid) PROVE \E status : Reply("search", status)
      BY <2>4, Zenon DEF handleSearchUsers, Refuse
    <2>5. \E status : \/ Reply("register", status) \/ Reply("login", status)
                      \/ Reply("logout", status) \/ Reply("search", status)
                      \/ Reply("none", status)
      BY <1>1, <2>1, <2>2, <2>3, <2>4, Zenon DEF AccountStep, validateSession, NoReply
    <2>6. reply'.op \in {"register", "login", "logout", "search", "none"}
      BY <2>5 DEF Reply
    <2> QED
      BY <2>6 DEF AccessAnswer
  <1>2. CASE FileStep
    <2>1. ASSUME NEW sid, NEW n, NEW code, NEW right, Serve(sid, n, code, right)
          PROVE  AccessAnswer
      <3>1. \E status : Reply("download", status)
        BY <2>1, Zenon DEF Serve, Refuse
      <3> QED
        BY <3>1 DEF Reply, AccessAnswer
    <2>2. ASSUME NEW sid, NEW n, NEW code, NEW right, handleShareDownload(sid, n, code, right)
          PROVE  AccessAnswer
      BY <2>1, <2>2 DEF handleShareDownload, Refuse, Reply, AccessAnswer
    <2>3. ASSUME NEW up, NEW last, handleFileUpload(up, last) PROVE AccessAnswer
      BY <2>3 DEF handleFileUpload, Reply, NoReply, AccessAnswer
    <2>4. ASSUME NEW sid, handleListFiles(sid) PROVE AccessAnswer
      BY <2>4 DEF handleListFiles, Refuse, Reply, AccessAnswer
    <2>5. ASSUME NEW sid, NEW n, NEW steps, handleDelete(sid, n, steps) PROVE AccessAnswer
      <3>1. \E status : Reply("delete", status) \/ NoReply
        BY <2>5, Zenon DEF handleDelete, Refuse
      <3> QED
        BY <3>1 DEF Reply, NoReply, AccessAnswer
    <2> QED
      BY <1>2, <2>1, <2>2, <2>3, <2>4, <2>5, Zenon DEF FileStep, handleDownload
  <1>3. CASE ShareStep
    <2>1. ASSUME NEW sid, NEW code, NEW right, handleShareAccess(sid, code, right)
          PROVE  AccessAnswer
      <3> DEFINE rows == {s \in LiveShares : s.id = code /\ (s.type = "protected" => right)}
      <3>1. CASE rows = {}
        <4>1. Reply("access", "missing")
          BY <2>1, <3>1, Zenon DEF handleShareAccess, Refuse
        <4> QED
          BY <4>1 DEF Reply, AccessAnswer
      <3>2. CASE rows # {}
        <4>1. PICK one : one = CHOOSE s \in rows : TRUE
          OBVIOUS
        <4>2. one \in rows
          BY <3>2, <4>1
        <4>3. reply'.op = one.type
          <5>1. \E status : Reply((CHOOSE s \in rows : TRUE).type, status)
            BY <2>1, <3>2, Zenon DEF handleShareAccess, Refuse
          <5>2. PICK status : Reply((CHOOSE s \in rows : TRUE).type, status)
            BY <5>1, Zenon
          <5>3. Reply(one.type, status)
            BY <4>1, <5>2, Zenon DEF Reply
          <5>4. reply' = [op |-> one.type, status |-> status]
            BY <5>3, Zenon DEF Reply
          <5> QED
            BY ONLY <5>4
        <4>4. one \in shares /\ one.expire > now
          BY <4>2 DEF LiveShares
        <4>5. \E f \in files : f.id = one.file
          BY <4>4 DEF IInv, SharesSound
        <4> QED
          BY <4>3, <4>4, <4>5 DEF AccessAnswer
      <3> QED
        BY <3>1, <3>2
    <2>2. ASSUME NEW code, NEW right, handleShareInfo(code, right) PROVE AccessAnswer
      BY <2>2 DEF handleShareInfo, Refuse, Reply, NoReply, AccessAnswer
    <2>3. ASSUME NEW sid, NEW fid, NEW type, NEW with, NEW h,
                 handleShareFile(sid, fid, type, with, h)
          PROVE  AccessAnswer
      <3>1. InsertShare(caller.user, fid, type, with, h) => \E status : Reply("share", status)
        BY Zenon DEF InsertShare
      <3>2. \E status : \/ Reply("share", status) \/ Reply("private", status)
                        \/ Reply("duplicate", status)
        BY <2>3, <3>1, Zenon DEF handleShareFile, Refuse
      <3>3. reply'.op \in {"share", "private", "duplicate"}
        BY <3>2 DEF Reply
      <3> QED
        BY <3>3 DEF AccessAnswer
    <2> QED
      BY <1>3, <2>1, <2>2, <2>3 DEF ShareStep
  <1>4. CASE (\E up \in uploads : UploadAborted(up)) \/ Restart \/ Tick
    BY <1>4 DEF UploadAborted, Restart, Tick, Reply, NoReply, AccessAnswer
  <1> QED
    BY <1>1, <1>2, <1>3, <1>4 DEF Next

\* The file manager implements the access policy, for any users, shares,
\* failures and kills: only its owner removes or shares a file, it goes only to
\* its owner or on a share that stands, a share that ran out or was withdrawn
\* never comes back, and handleShareAccess opens only a share that stands.
THEOREM StoreAccessPolicy == Spec => AccessPolicy
  <1>1. Init => A!Init
    <2> SUFFICES ASSUME Init PROVE A!Init
      OBVIOUS
    <2> QED
      BY Zenon DEF Init, A!Init
  <1>2. IInv /\ [Next]_vars => [A!Next]_(A!accessVars)
    <2>1. UNCHANGED vars => UNCHANGED A!accessVars
      BY Zenon DEF vars, tables, ids, A!accessVars
    <2> QED
      BY <2>1, PolicyStep
  <1>3. IInv /\ [Next]_vars => [AccessAnswer]_vars
    BY AnswerStep
  <1>4. AccessAnswer <=> (reply'.op \in {"public", "protected", "user"} /\ reply'.status = "ok" =>
             \E s \in shares : s.type = reply'.op /\ s.expire > now
                               /\ \E f \in files : f.id = s.file)
    BY DEF AccessAnswer
  <1> QED
    BY <1>1, <1>2, <1>3, <1>4, Invariant, PTL DEF Spec, AccessPolicy, A!Spec
=============================================================================

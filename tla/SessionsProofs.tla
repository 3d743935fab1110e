---------------------------- MODULE SessionsProofs -----------------------------
(***************************************************************************)
(* Proofs about module Sessions.  The inductive invariant Inv has a part   *)
(* for the users and one for the sessions; each says what the tables hold, *)
(* what memory holds of them, and how the two relate.  Mirrors, which goes *)
(* through a row's columns, is unfolded into the columns it speaks of.     *)
(***************************************************************************)
EXTENDS Sessions, SetLemmas

CachedUsers == [name : Names, hash : Hashes, pid : 0..MaxChanges, failures : 0..MaxChanges,
                disabled : BOOLEAN, dirty : BOOLEAN]
CachedRows  == [uid : Ids, revoked : BOOLEAN, uses : 0..MaxUses, dirty : BOOLEAN]

\* All columns but a counter, unless it is still to be written.
UserMirrors(u, row) ==
    /\ u.name = row.name /\ u.hash = row.hash /\ u.pid = row.pid /\ u.disabled = row.disabled
    /\ u.failures = row.failures \/ u.dirty

SessionMirrors(s, row) ==
    /\ s.uid = row.uid /\ s.revoked = row.revoked
    /\ s.uses = row.uses \/ s.dirty

StoredNames == {userRows[id].name : id \in DOMAIN userRows}

UsersOK ==
    /\ adds \in 0..MaxAdds
    /\ userRows \in [DOMAIN userRows -> Users] /\ DOMAIN userRows \subseteq 1..adds
    /\ \A id \in DOMAIN userRows : id \in DOMAIN born /\ born[id] \in Nat
    /\ \A a, b \in DOMAIN userRows : userRows[a].name = userRows[b].name => a = b
    /\ IF up
       THEN /\ users \in [DOMAIN userRows -> CachedUsers]
            /\ \A id \in DOMAIN userRows : UserMirrors(users[id], userRows[id])
            /\ byName \in [StoredNames -> DOMAIN userRows]
            /\ \A n \in StoredNames : userRows[byName[n]].name = n
       ELSE users = <<>> /\ byName = <<>>

SessionsOK ==
    /\ made \in Seq(Nat)
    /\ rows \in [DOMAIN rows -> Rows] /\ DOMAIN rows \subseteq DOMAIN made
    /\ loggedOut \subseteq DOMAIN made
    /\ \A h \in DOMAIN rows :
          /\ rows[h].uid \in DOMAIN userRows /\ born[rows[h].uid] = made[h]
          /\ h \in loggedOut => rows[h].revoked
    /\ IF up
       THEN /\ sessions \in [DOMAIN sessions -> CachedRows] /\ DOMAIN sessions \subseteq DOMAIN rows
            /\ \A h \in DOMAIN sessions : SessionMirrors(sessions[h], rows[h])
       ELSE sessions = <<>>

Inv == up \in BOOLEAN /\ UsersOK /\ SessionsOK

-----------------------------------------------------------------------------
(* Single entries.                                                         *)

LEMMA Bounds == MaxAdds \in Nat /\ MaxUses \in Nat /\ MaxChanges \in Nat
BY SessionsAssumption DEF SessionsAssumption

LEMMA UserEntry ==
    ASSUME NEW row \in Users
    PROVE  /\ Cached(row) \in CachedUsers /\ UserMirrors(Cached(row), row)
           /\ DOMAIN row = {"name", "hash", "pid", "failures", "disabled"}
BY DEF Users, Cached, CachedUsers, UserMirrors

LEMMA SessionEntry ==
    ASSUME NEW row \in Rows
    PROVE  /\ Cached(row) \in CachedRows /\ SessionMirrors(Cached(row), row)
           /\ DOMAIN row = {"uid", "revoked", "uses"}
BY DEF Rows, Cached, CachedRows, SessionMirrors

LEMMA StoredEntry ==
    ASSUME NEW u \in CachedUsers
    PROVE  Stored(u) \in Users /\ UserMirrors(u, Stored(u))
BY DEF CachedUsers, Stored, Restrict, Users, UserMirrors

\* A failed check of a password only counts, and marks the user dirty.
LEMMA CheckedEntry ==
    ASSUME NEW u \in CachedUsers, NEW pwd, CanCheck(u, pwd)
    PROVE  /\ CheckPassword(u, pwd) \in CachedUsers
           /\ \A row : UserMirrors(u, row) => UserMirrors(CheckPassword(u, pwd), row)
<1>1. CASE CheckPassword(u, pwd) = u
    BY <1>1
<1>2. CASE CheckPassword(u, pwd) = [u EXCEPT !.failures = @ + 1, !.dirty = TRUE]
    <2>1. u.failures + 1 \in 0..MaxChanges
        BY <1>2, Bounds DEF CanCheck, CachedUsers
    <2> QED BY <1>2, <2>1 DEF CachedUsers, UserMirrors
<1> QED BY <1>1, <1>2 DEF CheckPassword

LEMMA ChangedEntry ==
    ASSUME NEW u \in CachedUsers, NEW name \in Names, NEW hash \in Hashes \cup {Keep},
           NEW disabled \in BOOLEAN, Change(u, name, hash, disabled).pid <= MaxChanges
    PROVE  /\ Change(u, name, hash, disabled) \in CachedUsers
           /\ Change(u, name, hash, disabled).name = name
<1> DEFINE h == IF hash = Keep THEN u.hash ELSE hash
           p == IF hash = Keep THEN u.pid ELSE u.pid + 1
           f == IF hash = Keep THEN u.failures ELSE 0
           c == [u EXCEPT !.name = name, !.disabled = disabled, !.hash = h, !.pid = p,
                          !.failures = f]
<1>1. Change(u, name, hash, disabled) = c
    BY DEF Change
<1>2. u.pid \in 0..MaxChanges /\ u.failures \in 0..MaxChanges /\ u.hash \in Hashes
    BY DEF CachedUsers
<1>3. h \in Hashes /\ f \in 0..MaxChanges /\ p \in Nat
    BY <1>2, Bounds
<1> HIDE DEF h, p, f
<1>4. c.pid = p /\ c.name = name
    BY DEF CachedUsers
<1>5. p \in 0..MaxChanges
    <2> HIDE DEF c
    <2> QED BY <1>1, <1>3, <1>4, Bounds
<1>6. c \in CachedUsers
    BY <1>3, <1>5 DEF CachedUsers
<1> HIDE DEF c
<1> QED BY <1>1, <1>4, <1>6

\* Using a session only counts, and marks it dirty.
LEMMA UsedEntry ==
    ASSUME NEW s \in CachedRows, UseOf(s).uses <= MaxUses
    PROVE  /\ UseOf(s) \in CachedRows
           /\ \A row : SessionMirrors(s, row) => SessionMirrors(UseOf(s), row)
<1>1. CASE UseOf(s) = s
    BY <1>1
<1>2. CASE UseOf(s) = [s EXCEPT !.uses = @ + 1, !.dirty = TRUE]
    <2>1. s.uses + 1 \in 0..MaxUses
        BY <1>2, Bounds DEF CachedRows
    <2> QED BY <1>2, <2>1 DEF CachedRows, SessionMirrors
<1> QED BY <1>1, <1>2 DEF UseOf

\* Flushing an entry makes it and its row agree.
LEMMA FlushedEntries ==
    /\ \A u \in CachedUsers, row \in Users :
          LET new == [row EXCEPT !.failures = u.failures, !.hash = u.hash]
          IN  UserMirrors(u, row) =>
                 /\ new \in Users /\ new.name = row.name
                 /\ UserMirrors([u EXCEPT !.dirty = FALSE], new)
    /\ \A u \in CachedUsers, row \in Users :
          UserMirrors(u, row) /\ ~u.dirty => UserMirrors([u EXCEPT !.dirty = FALSE], row)
    /\ \A u \in CachedUsers : [u EXCEPT !.dirty = FALSE] \in CachedUsers
<1>1. ASSUME NEW u \in CachedUsers, NEW row \in Users, UserMirrors(u, row)
      PROVE  LET new == [row EXCEPT !.failures = u.failures, !.hash = u.hash]
             IN  /\ new \in Users /\ new.name = row.name
                 /\ UserMirrors([u EXCEPT !.dirty = FALSE], new)
    BY <1>1 DEF CachedUsers, Users, UserMirrors
<1>2. ASSUME NEW u \in CachedUsers, NEW row \in Users, UserMirrors(u, row), ~u.dirty
      PROVE  UserMirrors([u EXCEPT !.dirty = FALSE], row)
    BY <1>2 DEF CachedUsers, Users, UserMirrors
<1>3. \A u \in CachedUsers : [u EXCEPT !.dirty = FALSE] \in CachedUsers
    BY DEF CachedUsers
<1> QED BY <1>1, <1>2, <1>3

LEMMA FlushedSessionEntries ==
    /\ \A s \in CachedRows, row \in Rows :
          LET new == [row EXCEPT !.uses = s.uses]
          IN  SessionMirrors(s, row) =>
                 /\ new \in Rows /\ new.uid = row.uid /\ new.revoked = row.revoked
                 /\ SessionMirrors([s EXCEPT !.dirty = FALSE], new)
    /\ \A s \in CachedRows, row \in Rows :
          SessionMirrors(s, row) /\ ~s.dirty => SessionMirrors([s EXCEPT !.dirty = FALSE], row)
    /\ \A s \in CachedRows : [s EXCEPT !.dirty = FALSE] \in CachedRows
<1>1. ASSUME NEW s \in CachedRows, NEW row \in Rows, SessionMirrors(s, row)
      PROVE  LET new == [row EXCEPT !.uses = s.uses]
             IN  /\ new \in Rows /\ new.uid = row.uid /\ new.revoked = row.revoked
                 /\ SessionMirrors([s EXCEPT !.dirty = FALSE], new)
    BY <1>1 DEF CachedRows, Rows, SessionMirrors
<1>2. ASSUME NEW s \in CachedRows, NEW row \in Rows, SessionMirrors(s, row), ~s.dirty
      PROVE  SessionMirrors([s EXCEPT !.dirty = FALSE], row)
    BY <1>2 DEF CachedRows, Rows, SessionMirrors
<1>3. \A s \in CachedRows : [s EXCEPT !.dirty = FALSE] \in CachedRows
    BY DEF CachedRows
<1> QED BY <1>1, <1>2, <1>3

-----------------------------------------------------------------------------
(* Starting and stopping.                                                  *)

LEMMA InitInv == Init => Inv
<1> SUFFICES ASSUME Init PROVE Inv
    OBVIOUS
<1>1. UsersOK
    BY Bounds DEF Init, UsersOK, StoredNames
<1>2. SessionsOK
    BY DEF Init, SessionsOK
<1> QED BY <1>1, <1>2 DEF Inv, Init

LEMMA StartKeepsInv ==
    ASSUME Inv, Start
    PROVE  Inv'
<1>1. /\ up' = TRUE /\ sessions' = <<>> /\ DOMAIN sessions' = {}
      /\ UNCHANGED <<userRows, rows, adds, born, made, loggedOut>>
    BY DEF Start, tables, history, Inv, SessionsOK
<1>2. SessionsOK'
    BY <1>1 DEF Inv, SessionsOK
<1>3. UsersOK'
    <2>1. users' \in [DOMAIN userRows -> CachedUsers]
          /\ \A id \in DOMAIN userRows : UserMirrors(users'[id], userRows[id])
        BY UserEntry DEF Start, Inv, UsersOK
    <2>2. /\ byName' \in [StoredNames -> DOMAIN userRows]
          /\ \A n \in StoredNames : userRows[byName'[n]].name = n
        BY DEF Start, StoredNames
    <2>3. StoredNames' = StoredNames
        BY <1>1 DEF StoredNames
    <2> QED BY <1>1, <2>1, <2>2, <2>3 DEF Inv, UsersOK
<1> QED BY <1>1, <1>2, <1>3 DEF Inv

LEMMA EndKeepsInv ==
    ASSUME Inv, Ends, UNCHANGED <<tables, history>>
    PROVE  Inv'
<1>1. up' = FALSE /\ UNCHANGED <<userRows, rows, adds, born, made, loggedOut>>
    BY DEF Ends, tables, history
<1> QED BY <1>1 DEF Inv, UsersOK, SessionsOK, Ends, StoredNames

-----------------------------------------------------------------------------
(* Users.                                                                  *)

\* Sessions do not notice a change of the users that takes none away.
LEMMA UsersChange ==
    ASSUME Inv, UsersOK', up' = up,
           DOMAIN userRows \subseteq DOMAIN userRows',
           \A id \in DOMAIN userRows : born'[id] = born[id],
           UNCHANGED <<rows, sessions, made, loggedOut>>
    PROVE  Inv'
<1>1. SessionsOK'
    BY DEF Inv, SessionsOK
<1> QED BY <1>1 DEF Inv

\* The new id is no user's.
LEMMA NewIdIsNew ==
    ASSUME Inv, adds < MaxAdds
    PROVE  NewId \in 1..(adds + 1) /\ NewId \notin DOMAIN userRows
<1> DEFINE S == DOMAIN userRows \cup {0}
<1>1. adds \in Nat /\ S # {} /\ S \subseteq 0..adds /\ DOMAIN userRows \subseteq 1..adds
    BY Bounds DEF Inv, UsersOK
<1>2. Max(S) \in S /\ \A n \in S : n <= Max(S)
    BY <1>1, MaxIsGreatest
<1>3. Max(S) \in 0..adds
    BY <1>1, <1>2
<1> HIDE DEF S
<1>4. NewId = 1 + Max(S)
    BY DEF NewId, S
<1>5. NewId \in 1..(adds + 1)
    BY <1>1, <1>3, <1>4
<1>6. NewId \notin S
    BY <1>2, <1>3, <1>4
<1> QED BY <1>5, <1>6 DEF S

LEMMA AddUserKeepsInv ==
    ASSUME Inv, NEW name \in Names, NEW hash \in Hashes, AddUser(name, hash)
    PROVE  Inv'
<1> DEFINE row == [name |-> name, hash |-> hash, pid |-> 0, failures |-> 0, disabled |-> FALSE]
<1>1. /\ up /\ up' /\ adds < MaxAdds /\ adds' = adds + 1
      /\ \A id \in DOMAIN userRows : userRows[id].name # name
      /\ userRows' = With(userRows, NewId, row)
      /\ users' = With(users, NewId, Cached(row))
      /\ byName' = With(byName, name, NewId)
      /\ born' = With(born, NewId, adds + 1)
      /\ UNCHANGED <<rows, sessions, made, loggedOut>>
    BY DEF AddUser
<1>2. NewId \in 1..(adds + 1) /\ NewId \notin DOMAIN userRows
    BY <1>1, NewIdIsNew
<1>3. row \in Users /\ row.name = name
    BY Bounds DEF Users
<1>4. Cached(row) \in CachedUsers /\ UserMirrors(Cached(row), row)
    BY <1>3, UserEntry
<1> HIDE DEF row
<1>5. /\ userRows \in [DOMAIN userRows -> Users] /\ DOMAIN userRows \subseteq 1..adds
      /\ users \in [DOMAIN userRows -> CachedUsers] /\ adds \in 0..MaxAdds /\ adds \in Nat
      /\ byName \in [StoredNames -> DOMAIN userRows]
      /\ \A id \in DOMAIN userRows : id \in DOMAIN born /\ born[id] \in Nat
    BY <1>1, Bounds DEF Inv, UsersOK
<1> DEFINE D == DOMAIN userRows \cup {NewId}
<1>6. /\ DOMAIN userRows' = D /\ userRows' \in [D -> Users]
      /\ userRows'[NewId] = row /\ \A id \in DOMAIN userRows : userRows'[id] = userRows[id]
    BY <1>1, <1>2, <1>3, <1>5 DEF With
<1>7. /\ users' \in [D -> CachedUsers]
      /\ users'[NewId] = Cached(row) /\ \A id \in DOMAIN userRows : users'[id] = users[id]
    BY <1>1, <1>2, <1>4, <1>5 DEF With
<1>8. /\ adds' \in 0..MaxAdds /\ D \subseteq 1..adds'
      /\ \A id \in D : id \in DOMAIN born' /\ born'[id] \in Nat
      /\ \A id \in DOMAIN userRows : born'[id] = born[id]
    <2>1. adds' \in 0..MaxAdds /\ D \subseteq 1..adds'
        BY <1>1, <1>2, <1>5, Bounds
    <2> QED BY <2>1, <1>1, <1>2, <1>5 DEF With
<1>9. StoredNames' = StoredNames \cup {name} /\ name \notin StoredNames
    BY <1>1, <1>3, <1>6 DEF StoredNames
<1>10. /\ byName' \in [StoredNames' -> D]
       /\ byName'[name] = NewId /\ \A n \in StoredNames : byName'[n] = byName[n]
    BY <1>1, <1>5, <1>9 DEF With
<1>11. \A a, b \in D : userRows'[a].name = userRows'[b].name => a = b
    BY <1>1, <1>3, <1>6 DEF Inv, UsersOK
<1>12. \A id \in D : UserMirrors(users'[id], userRows'[id])
    BY <1>1, <1>4, <1>6, <1>7 DEF Inv, UsersOK
<1>13. \A n \in StoredNames' : userRows'[byName'[n]].name = n
    BY <1>1, <1>3, <1>5, <1>6, <1>9, <1>10 DEF Inv, UsersOK
<1>14. UsersOK'
    BY <1>1, <1>6, <1>7, <1>8, <1>10, <1>11, <1>12, <1>13 DEF UsersOK
<1> QED BY <1>1, <1>6, <1>8, <1>14, UsersChange

\* A user's entry, and possibly its row, is replaced.
LEMMA UpdateUserKeepsInv ==
    ASSUME Inv, up, NEW id \in DOMAIN users, NEW u \in CachedUsers, u.name = users[id].name,
           NEW name \in Names, NEW hash \in Hashes \cup {Keep}, NEW disabled \in BOOLEAN,
           UpdateUser(id, u, name, hash, disabled),
           UNCHANGED <<rows, sessions, up, history>>
    PROVE  Inv'
<1> DEFINE c == Change(u, name, hash, disabled)
<1>1. /\ c.pid <= MaxChanges
      /\ \A other \in DOMAIN userRows \ {id} : userRows[other].name # name
      /\ userRows' = [userRows EXCEPT ![id] = Stored(c)]
      /\ users' = [users EXCEPT ![id] = c]
      /\ byName' = With(Without(byName, {u.name}), name, id)
    BY DEF UpdateUser, Renamed
<1>2. UNCHANGED <<rows, sessions, up, adds, born, made, loggedOut>>
    BY DEF history
<1>3. c \in CachedUsers /\ c.name = name
    BY <1>1, ChangedEntry
<1>4. Stored(c) \in Users /\ UserMirrors(c, Stored(c)) /\ Stored(c).name = name
    BY <1>3, StoredEntry DEF UserMirrors
<1> HIDE DEF c
<1>5. /\ userRows \in [DOMAIN userRows -> Users] /\ id \in DOMAIN userRows
      /\ users \in [DOMAIN userRows -> CachedUsers]
      /\ byName \in [StoredNames -> DOMAIN userRows]
      /\ \A n \in StoredNames : userRows[byName[n]].name = n
      /\ u.name = userRows[id].name
    BY DEF Inv, UsersOK, UserMirrors
<1>6. /\ DOMAIN userRows' = DOMAIN userRows /\ userRows' \in [DOMAIN userRows -> Users]
      /\ userRows'[id] = Stored(c)
      /\ \A o \in DOMAIN userRows \ {id} : userRows'[o] = userRows[o]
    BY <1>1, <1>4, <1>5
<1>7. /\ users' \in [DOMAIN userRows -> CachedUsers] /\ users'[id] = c
      /\ \A o \in DOMAIN userRows \ {id} : users'[o] = users[o]
    BY <1>1, <1>3, <1>5
<1>8. \A a, b \in DOMAIN userRows : userRows'[a].name = userRows'[b].name => a = b
    BY <1>1, <1>4, <1>6 DEF Inv, UsersOK
<1>9. \A o \in DOMAIN userRows : UserMirrors(users'[o], userRows'[o])
    BY <1>4, <1>6, <1>7 DEF Inv, UsersOK
<1>10. StoredNames' = (StoredNames \ {u.name}) \cup {name}
    <2>1. \A o \in DOMAIN userRows \ {id} : userRows[o].name # u.name
        BY <1>5 DEF Inv, UsersOK
    <2> QED BY <2>1, <1>4, <1>5, <1>6 DEF StoredNames
<1>11. /\ byName' \in [StoredNames' -> DOMAIN userRows] /\ byName'[name] = id
       /\ \A n \in StoredNames \ {u.name} : n # name => byName'[n] = byName[n]
    BY <1>1, <1>5, <1>10 DEF With, Without, Restrict
<1>12. ASSUME NEW n \in StoredNames' PROVE userRows'[byName'[n]].name = n
    <2>1. CASE n = name
        BY <2>1, <1>4, <1>6, <1>11
    <2>2. CASE n # name
        <3>1. n \in StoredNames \ {u.name} /\ byName'[n] = byName[n] /\ byName[n] # id
            BY <2>2, <1>5, <1>10, <1>11
        <3> QED BY <3>1, <1>5, <1>6
    <2> QED BY <2>1, <2>2
<1>13. UsersOK'
    BY <1>2, <1>6, <1>7, <1>8, <1>9, <1>11, <1>12 DEF Inv, UsersOK
<1> QED BY <1>2, <1>6, <1>13, UsersChange

\* Only what memory has of a user changes, and still mirrors the row.
LEMMA MemoryOfUserChanges ==
    ASSUME Inv, up, NEW id \in DOMAIN users, NEW u \in CachedUsers,
           UserMirrors(u, userRows[id]),
           users' = [users EXCEPT ![id] = u], UNCHANGED <<userRows, byName, up, adds, born>>
    PROVE  UsersOK'
BY DEF Inv, UsersOK, StoredNames

LEMMA PatchUserKeepsInv ==
    ASSUME Inv, NEW id \in Ids, NEW precondition \in Hashes \cup {Keep},
           NEW name \in Names, NEW hash \in Hashes \cup {Keep}, NEW disabled \in BOOLEAN,
           PatchUser(id, precondition, name, hash, disabled)
    PROVE  Inv'
<1> DEFINE u == IF precondition = Keep THEN users[id] ELSE CheckPassword(users[id], precondition)
<1>1. /\ up /\ id \in DOMAIN users /\ u.failures <= MaxChanges
      /\ IF precondition \in {Keep, users[id].hash}
         THEN UpdateUser(id, u, name, hash, disabled)
         ELSE users' = [users EXCEPT ![id] = u] /\ UNCHANGED <<userRows, byName>>
      /\ UNCHANGED <<rows, sessions, up, history>>
    BY DEF PatchUser
<1>2. users[id] \in CachedUsers /\ UserMirrors(users[id], userRows[id])
    BY <1>1 DEF Inv, UsersOK
<1>3. /\ u \in CachedUsers /\ u.name = users[id].name
      /\ UserMirrors(u, userRows[id])
    <2>1. CASE precondition = Keep
        BY <2>1, <1>2
    <2>2. CASE precondition # Keep
        <3>1. CanCheck(users[id], precondition)
            BY <2>2, <1>1 DEF CanCheck
        <3> QED BY <2>2, <3>1, <1>2, CheckedEntry DEF UserMirrors
    <2> QED BY <2>1, <2>2
<1> HIDE DEF u
<1>4. CASE UpdateUser(id, u, name, hash, disabled)
    BY <1>1, <1>3, <1>4, UpdateUserKeepsInv
<1>5. CASE users' = [users EXCEPT ![id] = u] /\ UNCHANGED <<userRows, byName>>
    <2>1. UNCHANGED <<rows, sessions, up, adds, born, made, loggedOut>>
        BY <1>1 DEF history
    <2>2. UsersOK'
        BY <1>1, <1>3, <1>5, <2>1, MemoryOfUserChanges
    <2> QED BY <1>5, <2>1, <2>2, UsersChange
<1> QED BY <1>1, <1>4, <1>5

LEMMA DeleteUserKeepsInv ==
    ASSUME Inv, NEW id \in Ids, DeleteUser(id)
    PROVE  Inv'
<1>1. /\ up /\ up' /\ id \in DOMAIN users
      /\ userRows' = Without(userRows, {id})
      /\ rows' = Without(rows, {h \in DOMAIN rows : rows[h].uid = id})
      /\ users' = Without(users, {id})
      /\ byName' = Without(byName, {users[id].name})
      /\ sessions' = Without(sessions, {h \in DOMAIN sessions : sessions[h].uid = id})
      /\ UNCHANGED <<adds, born, made, loggedOut>>
    BY DEF DeleteUser, SessionsWithout, history
<1>2. /\ userRows \in [DOMAIN userRows -> Users] /\ id \in DOMAIN userRows
      /\ users \in [DOMAIN userRows -> CachedUsers]
      /\ byName \in [StoredNames -> DOMAIN userRows]
      /\ \A n \in StoredNames : userRows[byName[n]].name = n
      /\ users[id].name = userRows[id].name
      /\ \A o \in DOMAIN userRows \ {id} : userRows[o].name # users[id].name
    BY <1>1 DEF Inv, UsersOK, UserMirrors
<1> DEFINE D == DOMAIN userRows \ {id}
<1>3. /\ DOMAIN userRows' = D /\ userRows' \in [D -> Users]
      /\ \A o \in D : userRows'[o] = userRows[o]
    BY <1>1, <1>2 DEF Without, Restrict
<1>4. users' \in [D -> CachedUsers] /\ \A o \in D : users'[o] = users[o]
    BY <1>1, <1>2 DEF Without, Restrict
<1>5. StoredNames' = StoredNames \ {users[id].name}
    BY <1>2, <1>3 DEF StoredNames
<1>6. /\ byName' \in [StoredNames' -> D]
      /\ \A n \in StoredNames' : byName'[n] = byName[n]
    BY <1>1, <1>2, <1>5 DEF Without, Restrict
<1>7. UsersOK'
    <2>1. \A n \in StoredNames' : userRows'[byName'[n]].name = n
        BY <1>2, <1>3, <1>5, <1>6
    <2>2. /\ adds' \in 0..MaxAdds /\ D \subseteq 1..adds'
          /\ \A o \in D : o \in DOMAIN born' /\ born'[o] \in Nat
        BY <1>1 DEF Inv, UsersOK
    <2>3. \A a, b \in D : userRows'[a].name = userRows'[b].name => a = b
        BY <1>3 DEF Inv, UsersOK
    <2>4. \A o \in D : UserMirrors(users'[o], userRows'[o])
        BY <1>1, <1>3, <1>4 DEF Inv, UsersOK
    <2> QED BY <2>1, <2>2, <2>3, <2>4, <1>1, <1>3, <1>4, <1>6 DEF UsersOK
<1>8. SessionsOK'
    <2>1. /\ rows \in [DOMAIN rows -> Rows]
          /\ sessions \in [DOMAIN sessions -> CachedRows] /\ DOMAIN sessions \subseteq DOMAIN rows
          /\ \A h \in DOMAIN sessions : SessionMirrors(sessions[h], rows[h])
        BY <1>1 DEF Inv, SessionsOK
    <2>2. /\ DOMAIN rows' = {h \in DOMAIN rows : rows[h].uid # id}
          /\ \A h \in DOMAIN rows' : rows'[h] = rows[h]
          /\ rows' \in [DOMAIN rows' -> Rows]
        BY <1>1, <2>1 DEF Without, Restrict
    <2>3. /\ DOMAIN sessions' = {h \in DOMAIN sessions : sessions[h].uid # id}
          /\ \A h \in DOMAIN sessions' : sessions'[h] = sessions[h]
          /\ sessions' \in [DOMAIN sessions' -> CachedRows]
        BY <1>1, <2>1 DEF Without, Restrict
    <2>4. DOMAIN sessions' \subseteq DOMAIN rows'
        BY <2>1, <2>2, <2>3 DEF SessionMirrors
    <2>5. \A h \in DOMAIN rows' :
             /\ rows'[h].uid \in D /\ born[rows'[h].uid] = made[h]
             /\ h \in loggedOut => rows'[h].revoked
        BY <2>2 DEF Inv, SessionsOK
    <2> QED BY <2>1, <2>2, <2>3, <2>4, <2>5, <1>1, <1>3 DEF Inv, SessionsOK
<1> QED BY <1>1, <1>7, <1>8 DEF Inv

-----------------------------------------------------------------------------
(* Sessions.                                                               *)

\* The user a name leads to.
LEMMA NamedUser ==
    ASSUME Inv, up, NEW name \in DOMAIN byName
    PROVE  /\ byName[name] \in DOMAIN userRows /\ byName[name] \in DOMAIN users
           /\ users[byName[name]] \in CachedUsers
           /\ UserMirrors(users[byName[name]], userRows[byName[name]])
BY DEF Inv, UsersOK

\* A new session is its user's, and no one has logged it out.
LEMMA NewSessionKeepsInv ==
    ASSUME Inv, UsersOK', NEW id \in DOMAIN userRows, NewSession(id),
           UNCHANGED <<userRows, up, adds, born, loggedOut>>
    PROVE  Inv'
<1> DEFINE h == Len(made) + 1
           row == [uid |-> id, revoked |-> FALSE, uses |-> 0]
<1>1. /\ rows' = With(rows, h, row)
      /\ sessions' = IF up THEN With(sessions, h, Cached(row)) ELSE sessions
      /\ made' = Append(made, born[id])
    BY DEF NewSession
<1>2. row \in Rows /\ row.uid = id
    BY Bounds DEF Rows, Inv, UsersOK, Ids
<1>3. Cached(row) \in CachedRows /\ SessionMirrors(Cached(row), row)
    BY <1>2, SessionEntry
<1>4. /\ made \in Seq(Nat) /\ born[id] \in Nat
      /\ rows \in [DOMAIN rows -> Rows] /\ DOMAIN rows \subseteq DOMAIN made
      /\ loggedOut \subseteq DOMAIN made
    BY DEF Inv, UsersOK, SessionsOK
<1>5. /\ made' \in Seq(Nat) /\ DOMAIN made' = DOMAIN made \cup {h}
      /\ made'[h] = born[id] /\ \A o \in DOMAIN made : made'[o] = made[o]
      /\ h \notin DOMAIN made
    BY <1>1, <1>4
<1> HIDE DEF h, row
<1>6. /\ rows' \in [DOMAIN rows \cup {h} -> Rows]
      /\ rows'[h] = row /\ \A o \in DOMAIN rows : rows'[o] = rows[o]
    BY <1>1, <1>2, <1>4, <1>5 DEF With
<1>7. \A o \in DOMAIN rows' :
         /\ rows'[o].uid \in DOMAIN userRows' /\ born'[rows'[o].uid] = made'[o]
         /\ o \in loggedOut' => rows'[o].revoked
    BY <1>2, <1>4, <1>5, <1>6 DEF Inv, SessionsOK
<1>8. CASE up
    <2>1. /\ sessions \in [DOMAIN sessions -> CachedRows] /\ DOMAIN sessions \subseteq DOMAIN rows
          /\ \A o \in DOMAIN sessions : SessionMirrors(sessions[o], rows[o])
        BY <1>8 DEF Inv, SessionsOK
    <2>2. /\ sessions' \in [DOMAIN sessions \cup {h} -> CachedRows]
          /\ sessions'[h] = Cached(row)
          /\ \A o \in DOMAIN sessions : sessions'[o] = sessions[o]
        BY <2>1, <1>1, <1>3, <1>4, <1>5, <1>8 DEF With
    <2>3. \A o \in DOMAIN sessions' : SessionMirrors(sessions'[o], rows'[o])
        BY <2>1, <2>2, <1>3, <1>6
    <2> QED BY <2>1, <2>2, <2>3, <1>4, <1>5, <1>6, <1>7, <1>8 DEF Inv, SessionsOK
<1>9. CASE ~up
    BY <1>1, <1>4, <1>5, <1>6, <1>7, <1>9 DEF Inv, SessionsOK
<1> QED BY <1>8, <1>9

LEMMA LoginKeepsInv ==
    ASSUME Inv, NEW name \in Names, NEW pwd \in Passwords, Login(name, pwd)
    PROVE  Inv'
<1> DEFINE id == byName[name]
           u == users[id]
<1>1. /\ up /\ name \in DOMAIN byName /\ CanCheck(u, pwd)
      /\ users' = [users EXCEPT ![id] = CheckPassword(u, pwd)]
      /\ IF Matches(u, pwd) THEN NewSession(id) ELSE UNCHANGED <<rows, sessions, made>>
      /\ UNCHANGED <<userRows, byName, up, adds, born, loggedOut>>
    BY DEF Login
<1>2. id \in DOMAIN userRows /\ id \in DOMAIN users /\ u \in CachedUsers /\ UserMirrors(u, userRows[id])
    BY <1>1, NamedUser
<1>3. CheckPassword(u, pwd) \in CachedUsers /\ UserMirrors(CheckPassword(u, pwd), userRows[id])
    BY <1>1, <1>2, CheckedEntry
<1> HIDE DEF id, u
<1>4. UsersOK'
    BY <1>1, <1>2, <1>3, MemoryOfUserChanges
<1>5. CASE NewSession(id)
    BY <1>1, <1>2, <1>4, <1>5, NewSessionKeepsInv
<1>6. CASE UNCHANGED <<rows, sessions, made>>
    BY <1>1, <1>4, <1>6, UsersChange
<1> QED BY <1>1, <1>5, <1>6

LEMMA CommandLoginKeepsInv ==
    ASSUME Inv, NEW id \in Ids, CommandLogin(id)
    PROVE  Inv'
<1>1. /\ id \in DOMAIN userRows /\ NewSession(id)
      /\ UNCHANGED <<userRows, users, byName, up, adds, born, loggedOut>>
    BY DEF CommandLogin
<1>2. UsersOK'
    BY <1>1 DEF Inv, UsersOK, StoredNames
<1> QED BY <1>1, <1>2, NewSessionKeepsInv

\* A session that is looked up is as its row says, but for its counter.
LEMMA LookedUp ==
    ASSUME Inv, up, NEW h, Known(h)
    PROVE  /\ h \in DOMAIN rows /\ LookupSession(h) \in CachedRows
           /\ SessionMirrors(LookupSession(h), rows[h])
<1>1. h \in DOMAIN rows /\ rows[h] \in Rows
    BY DEF Known, Inv, SessionsOK
<1>2. CASE h \in DOMAIN sessions
    BY <1>1, <1>2 DEF LookupSession, Inv, SessionsOK
<1>3. CASE h \notin DOMAIN sessions
    BY <1>1, <1>3, SessionEntry DEF LookupSession
<1> QED BY <1>2, <1>3

\* One session's row and what memory has of it change, not whose it is.
LEMMA SessionChanges ==
    ASSUME Inv, up, NEW h \in DOMAIN rows, NEW row \in Rows, NEW s \in CachedRows,
           SessionMirrors(s, row), row.uid = rows[h].uid,
           rows[h].revoked \/ h \in loggedOut' => row.revoked,
           loggedOut' \in {loggedOut, loggedOut \cup {h}},
           rows' = [rows EXCEPT ![h] = row], sessions' = With(sessions, h, s),
           UNCHANGED <<userRows, users, byName, up, adds, born, made>>
    PROVE  Inv'
<1>1. UsersOK'
    BY DEF Inv, UsersOK, StoredNames
<1>2. /\ made \in Seq(Nat)
      /\ rows \in [DOMAIN rows -> Rows] /\ DOMAIN rows \subseteq DOMAIN made
      /\ loggedOut' \subseteq DOMAIN made
      /\ sessions \in [DOMAIN sessions -> CachedRows] /\ DOMAIN sessions \subseteq DOMAIN rows
      /\ \A o \in DOMAIN sessions : SessionMirrors(sessions[o], rows[o])
    BY DEF Inv, SessionsOK
<1>3. /\ rows' \in [DOMAIN rows -> Rows]
      /\ rows'[h] = row /\ \A o \in DOMAIN rows \ {h} : rows'[o] = rows[o]
    BY <1>2
<1>4. /\ sessions' \in [DOMAIN sessions \cup {h} -> CachedRows] /\ sessions'[h] = s
      /\ \A o \in DOMAIN sessions \ {h} : sessions'[o] = sessions[o]
    BY <1>2 DEF With
<1>5. \A o \in DOMAIN rows' :
         /\ rows'[o].uid \in DOMAIN userRows' /\ born'[rows'[o].uid] = made'[o]
         /\ o \in loggedOut' => rows'[o].revoked
    BY <1>3 DEF Inv, SessionsOK
<1>6. \A o \in DOMAIN sessions' : SessionMirrors(sessions'[o], rows'[o])
    BY <1>2, <1>3, <1>4
<1>7. SessionsOK'
    BY <1>2, <1>3, <1>4, <1>5, <1>6 DEF SessionsOK
<1> QED BY <1>1, <1>7 DEF Inv

LEMMA AuthenticateKeepsInv ==
    ASSUME Inv, NEW h \in Sids, Authenticate(h)
    PROVE  Inv'
<1>1. /\ up /\ Known(h) /\ Used(h).uses <= MaxUses
      /\ sessions' = With(sessions, h, Used(h))
      /\ UNCHANGED <<userRows, rows, users, byName, up, adds, born, made, loggedOut>>
    BY DEF Authenticate, tables, history
<1>2. /\ h \in DOMAIN rows /\ LookupSession(h) \in CachedRows
      /\ SessionMirrors(LookupSession(h), rows[h])
    BY <1>1, LookedUp
<1>3. Used(h) \in CachedRows /\ SessionMirrors(Used(h), rows[h])
    BY <1>1, <1>2, UsedEntry DEF Used
<1>4. /\ rows[h] \in Rows /\ rows' = [rows EXCEPT ![h] = rows[h]]
      /\ h \in loggedOut => rows[h].revoked
    BY <1>1, <1>2 DEF Inv, SessionsOK
<1> QED BY <1>1, <1>2, <1>3, <1>4, SessionChanges

LEMMA LogoutKeepsInv ==
    ASSUME Inv, NEW h \in Sids, Logout(h)
    PROVE  Inv'
<1> DEFINE s == [Used(h) EXCEPT !.revoked = TRUE]
           row == [rows[h] EXCEPT !.revoked = TRUE]
<1>1. /\ up /\ Known(h) /\ Used(h).uses <= MaxUses
      /\ rows' = [rows EXCEPT ![h] = row]
      /\ sessions' = With(sessions, h, s)
      /\ loggedOut' = loggedOut \cup {h}
      /\ UNCHANGED <<userRows, users, byName, up, adds, born, made>>
    BY DEF Logout, Authenticates, RevokedRow
<1>2. /\ h \in DOMAIN rows /\ LookupSession(h) \in CachedRows
      /\ SessionMirrors(LookupSession(h), rows[h])
    BY <1>1, LookedUp
<1>3. Used(h) \in CachedRows /\ SessionMirrors(Used(h), rows[h])
    BY <1>1, <1>2, UsedEntry DEF Used
<1>4. rows[h] \in Rows
    BY <1>2 DEF Inv, SessionsOK
<1>5. row \in Rows /\ row.uid = rows[h].uid /\ row.revoked
    BY <1>4 DEF Rows
<1>6. s \in CachedRows /\ SessionMirrors(s, row)
    BY <1>3, <1>4 DEF CachedRows, Rows, SessionMirrors
<1> HIDE DEF s, row
<1> QED BY <1>1, <1>2, <1>5, <1>6, SessionChanges

-----------------------------------------------------------------------------
(* The flush.                                                              *)

LEMMA FlushKeepsInv ==
    ASSUME Inv, Flush
    PROVE  Inv'
<1>1. /\ up /\ up'
      /\ userRows' = [id \in DOMAIN userRows |->
                         IF id \in Dirty(users) THEN FlushedUser(id) ELSE userRows[id]]
      /\ rows' = [h \in DOMAIN rows |->
                     IF h \in Dirty(sessions) THEN FlushedSession(h) ELSE rows[h]]
      /\ users' = [id \in DOMAIN users |-> [users[id] EXCEPT !.dirty = FALSE]]
      /\ sessions' = [h \in DOMAIN sessions |-> [sessions[h] EXCEPT !.dirty = FALSE]]
      /\ UNCHANGED <<byName, adds, born, made, loggedOut>>
    BY DEF Flush, Clean, history
<1>2. /\ userRows \in [DOMAIN userRows -> Users] /\ users \in [DOMAIN userRows -> CachedUsers]
      /\ \A id \in DOMAIN userRows : UserMirrors(users[id], userRows[id])
    BY <1>1 DEF Inv, UsersOK
<1>3. ASSUME NEW id \in DOMAIN userRows
      PROVE  /\ userRows'[id] \in Users /\ userRows'[id].name = userRows[id].name
             /\ users'[id] \in CachedUsers /\ UserMirrors(users'[id], userRows'[id])
    <2>1. /\ users[id] \in CachedUsers /\ userRows[id] \in Users
          /\ UserMirrors(users[id], userRows[id])
          /\ users'[id] = [users[id] EXCEPT !.dirty = FALSE]
        BY <1>1, <1>2
    <2>2. CASE id \in Dirty(users)
        <3>1. userRows'[id] =
                [userRows[id] EXCEPT !.failures = users[id].failures, !.hash = users[id].hash]
            BY <2>2, <1>1 DEF FlushedUser
        <3>2. \A u \in CachedUsers, row \in Users :
                 UserMirrors(u, row) =>
                    LET new == [row EXCEPT !.failures = u.failures, !.hash = u.hash]
                    IN  /\ new \in Users /\ new.name = row.name
                        /\ UserMirrors([u EXCEPT !.dirty = FALSE], new)
            BY FlushedEntries
        <3>3. \A u \in CachedUsers : [u EXCEPT !.dirty = FALSE] \in CachedUsers
            BY FlushedEntries
        <3> DEFINE u == users[id]
                   row == userRows[id]
                   new == [row EXCEPT !.failures = u.failures, !.hash = u.hash]
                   v == [u EXCEPT !.dirty = FALSE]
        <3>4. new \in Users /\ new.name = row.name /\ UserMirrors(v, new) /\ v \in CachedUsers
            BY <2>1, <3>2, <3>3
        <3>5. userRows'[id] = new /\ users'[id] = v
            BY <3>1, <2>1
        <3> HIDE DEF new, v
        <3> QED BY <3>4, <3>5
    <2>3. CASE id \notin Dirty(users)
        <3>1. userRows'[id] = userRows[id] /\ ~users[id].dirty
            BY <2>3, <1>1, <1>2 DEF Dirty
        <3> QED BY <3>1, <2>1, FlushedEntries
    <2> QED BY <2>2, <2>3
<1>4. /\ DOMAIN userRows' = DOMAIN userRows
      /\ userRows' \in [DOMAIN userRows -> Users] /\ users' \in [DOMAIN userRows -> CachedUsers]
    <2>1. DOMAIN users = DOMAIN userRows
        BY <1>2
    <2> QED BY <2>1, <1>1, <1>3
<1>5. StoredNames' = StoredNames
    BY <1>3, <1>4 DEF StoredNames
<1>6. UsersOK'
    <2>1. \A a, b \in DOMAIN userRows : userRows'[a].name = userRows'[b].name => a = b
        BY <1>3 DEF Inv, UsersOK
    <2>2. byName' \in [StoredNames -> DOMAIN userRows]
          /\ \A n \in StoredNames : userRows'[byName'[n]].name = n
        BY <1>1, <1>3 DEF Inv, UsersOK
    <2>3. /\ adds' \in 0..MaxAdds /\ DOMAIN userRows \subseteq 1..adds'
          /\ \A id \in DOMAIN userRows : id \in DOMAIN born' /\ born'[id] \in Nat
        BY <1>1 DEF Inv, UsersOK
    <2> QED BY <2>1, <2>2, <2>3, <1>1, <1>3, <1>4, <1>5 DEF UsersOK
<1>7. /\ rows \in [DOMAIN rows -> Rows]
      /\ sessions \in [DOMAIN sessions -> CachedRows] /\ DOMAIN sessions \subseteq DOMAIN rows
      /\ \A h \in DOMAIN sessions : SessionMirrors(sessions[h], rows[h])
    BY <1>1 DEF Inv, SessionsOK
<1>8. ASSUME NEW h \in DOMAIN rows
      PROVE  /\ rows'[h] \in Rows
             /\ rows'[h].uid = rows[h].uid /\ rows'[h].revoked = rows[h].revoked
             /\ h \in DOMAIN sessions =>
                   /\ sessions'[h] \in CachedRows /\ SessionMirrors(sessions'[h], rows'[h])
    <2>1. CASE h \in Dirty(sessions)
        <3>1. /\ h \in DOMAIN sessions
              /\ rows'[h] = [rows[h] EXCEPT !.uses = sessions[h].uses]
              /\ sessions'[h] = [sessions[h] EXCEPT !.dirty = FALSE]
            BY <2>1, <1>1 DEF FlushedSession, Dirty
        <3>2. sessions[h] \in CachedRows /\ rows[h] \in Rows /\ SessionMirrors(sessions[h], rows[h])
            BY <3>1, <1>7
        <3> QED BY <3>1, <3>2, FlushedSessionEntries
    <2>2. CASE h \notin Dirty(sessions)
        <3>1. rows'[h] = rows[h] /\ rows[h] \in Rows
            BY <2>2, <1>1, <1>7
        <3>2. ASSUME h \in DOMAIN sessions
              PROVE  /\ sessions'[h] = [sessions[h] EXCEPT !.dirty = FALSE] /\ ~sessions[h].dirty
                     /\ sessions[h] \in CachedRows /\ SessionMirrors(sessions[h], rows[h])
            BY <3>2, <2>2, <1>1, <1>7 DEF Dirty
        <3> QED BY <3>1, <3>2, FlushedSessionEntries
    <2> QED BY <2>1, <2>2
<1>9. SessionsOK'
    <2>1. DOMAIN rows' = DOMAIN rows /\ rows' \in [DOMAIN rows -> Rows]
        BY <1>1, <1>8
    <2>2. /\ DOMAIN sessions' = DOMAIN sessions
          /\ sessions' \in [DOMAIN sessions -> CachedRows]
          /\ \A h \in DOMAIN sessions : SessionMirrors(sessions'[h], rows'[h])
        BY <1>1, <1>7, <1>8
    <2>3. /\ made' \in Seq(Nat) /\ DOMAIN rows \subseteq DOMAIN made' /\ loggedOut' \subseteq DOMAIN made'
        BY <1>1 DEF Inv, SessionsOK
    <2>4. \A h \in DOMAIN rows :
             /\ rows'[h].uid \in DOMAIN userRows' /\ born'[rows'[h].uid] = made'[h]
             /\ h \in loggedOut' => rows'[h].revoked
        BY <1>1, <1>4, <1>8 DEF Inv, SessionsOK
    <2> QED BY <2>1, <2>2, <2>3, <2>4, <1>1, <1>7 DEF SessionsOK
<1> QED BY <1>1, <1>6, <1>9 DEF Inv

-----------------------------------------------------------------------------

LEMMA NextKeepsInv == Inv /\ [Next]_vars => Inv'
<1> SUFFICES ASSUME Inv, [Next]_vars PROVE Inv'
    OBVIOUS
<1>1. CASE Stop \/ FlushPanics
    BY <1>1, EndKeepsInv DEF Stop, FlushPanics
<1>2. CASE UserCall
    BY <1>2, AddUserKeepsInv, PatchUserKeepsInv, DeleteUserKeepsInv DEF UserCall
<1>3. CASE SessionCall
    BY <1>3, LoginKeepsInv, CommandLoginKeepsInv, AuthenticateKeepsInv, LogoutKeepsInv
       DEF SessionCall
<1>4. CASE UNCHANGED vars
    <2>1. UNCHANGED <<userRows, rows, users, byName, sessions, up, adds, born, made, loggedOut>>
        BY <1>4 DEF vars, tables, state, history
    <2> QED BY <2>1 DEF Inv, UsersOK, SessionsOK, StoredNames
<1> QED BY <1>1, <1>2, <1>3, <1>4, StartKeepsInv, FlushKeepsInv DEF Next

\* What the tables hold, what memory holds of them and what has been made and
\* logged out so far fit together in every state.
THEOREM InvHolds == Spec => []Inv
BY InitInv, NextKeepsInv, PTL DEF Spec

\* A session that is stored or cached belongs to the user it was made for,
\* though the ids of deleted users are used again.
THEOREM SessionsStayWithTheirUser == Spec => []SessionsKeepTheirUser
<1>1. Inv => SessionsKeepTheirUser
    <2> SUFFICES ASSUME Inv PROVE SessionsKeepTheirUser
        OBVIOUS
    <2>1. \A h \in DOMAIN sessions :
             /\ up /\ h \in DOMAIN rows /\ sessions[h].uid = rows[h].uid
             /\ DOMAIN users = DOMAIN userRows
        BY DEF Inv, UsersOK, SessionsOK, SessionMirrors
    <2> QED BY <2>1 DEF SessionsKeepTheirUser, Inv, SessionsOK
<1> QED BY InvHolds, <1>1, PTL

\* A session whose logout was confirmed authenticates no one again, as a row,
\* from the cache, after a flush or a restart.
THEOREM LoggedOutForGood == Spec => []LoggedOutStaysOut
<1>1. Inv => LoggedOutStaysOut
    <2> SUFFICES ASSUME Inv, NEW h \in loggedOut, h \in DOMAIN rows
                 PROVE  rows[h].revoked /\ (up => ~Authenticates(h))
        BY DEF LoggedOutStaysOut
    <2>1. rows[h].revoked
        BY DEF Inv, SessionsOK
    <2>2. ASSUME up PROVE ~Authenticates(h)
        BY <2>1, <2>2, LookedUp DEF Authenticates, SessionMirrors, Refused
    <2> QED BY <2>1, <2>2
<1> QED BY InvHolds, <1>1, PTL

\* While the server runs, memory has the users and sessions of the tables,
\* under their present names and with their present columns, but for counters
\* marked to be flushed.
THEOREM MemoryMirrors == Spec => []MemoryMirrorsTables
<1>1. Inv => MemoryMirrorsTables
    <2> SUFFICES ASSUME Inv, up
                 PROVE  /\ DOMAIN users = DOMAIN userRows
                        /\ byName = [n \in {users[id].name : id \in DOMAIN users} |->
                                        CHOOSE id \in DOMAIN users : users[id].name = n]
                        /\ \A id \in DOMAIN users : Mirrors(users[id], userRows[id], "failures")
                        /\ DOMAIN sessions \subseteq DOMAIN rows
                        /\ \A h \in DOMAIN sessions : Mirrors(sessions[h], rows[h], "uses")
        BY DEF MemoryMirrorsTables
    <2>1. /\ DOMAIN users = DOMAIN userRows
          /\ \A id \in DOMAIN users : users[id].name = userRows[id].name
          /\ \A a, b \in DOMAIN users : users[a].name = users[b].name => a = b
        BY DEF Inv, UsersOK, UserMirrors
    <2>2. {users[id].name : id \in DOMAIN users} = StoredNames
        BY <2>1 DEF StoredNames
    <2>3. ASSUME NEW n \in StoredNames
          PROVE  byName[n] = CHOOSE id \in DOMAIN users : users[id].name = n
        <3>1. byName[n] \in DOMAIN users /\ users[byName[n]].name = n
            BY <2>1 DEF Inv, UsersOK
        <3> QED BY <3>1, <2>1
    <2>4. byName = [n \in StoredNames |-> CHOOSE id \in DOMAIN users : users[id].name = n]
        BY <2>3 DEF Inv, UsersOK
    <2>5. ASSUME NEW id \in DOMAIN users PROVE Mirrors(users[id], userRows[id], "failures")
        <3>1. userRows[id] \in Users /\ UserMirrors(users[id], userRows[id])
            BY <2>1, <2>5 DEF Inv, UsersOK
        <3> QED BY <3>1, UserEntry DEF UserMirrors, Mirrors
    <2>6. ASSUME NEW h \in DOMAIN sessions PROVE Mirrors(sessions[h], rows[h], "uses")
        <3>1. rows[h] \in Rows /\ SessionMirrors(sessions[h], rows[h])
            BY DEF Inv, SessionsOK
        <3> QED BY <3>1, SessionEntry DEF SessionMirrors, Mirrors
    <2>7. DOMAIN sessions \subseteq DOMAIN rows
        BY DEF Inv, SessionsOK
    <2> QED BY <2>1, <2>2, <2>4, <2>5, <2>6, <2>7
<1> QED BY InvHolds, <1>1, PTL
=============================================================================

------------------------------ MODULE Sessions ------------------------------
(***************************************************************************)
(* Users and sessions (server/db/auth.rs) as the web server's handlers     *)
(* (src/web/session.rs, src/web/users.rs, Service::authenticate) and the   *)
(* command line use them: tables user and user_session, the users kept in  *)
(* memory, the cache of sessions, and the counters that only a flush       *)
(* writes.                                                                 *)
(*                                                                         *)
(* Every call holds the database lock from its first look at the state to  *)
(* its last change, and so does the flush from auth::State::flush to       *)
(* post_flush; handlers are therefore single steps.  A call whose SQL      *)
(* fails changes neither side, and a logout that cannot revoke leaves what *)
(* Authenticate leaves.  A password stands for its hash; permissions,      *)
(* preferences and what is logged of a request are left out.               *)
(***************************************************************************)
EXTENDS Integers, Sequences, FiniteSetsExt, Functions

CONSTANTS
    Names, Passwords,
    MaxAdds,        \* bounds the users added
    MaxSessions,    \* bounds the sessions made
    MaxUses,        \* bounds use_count
    MaxChanges      \* bounds password_id and password_failure_count

ASSUME SessionsAssumption == MaxAdds \in Nat /\ MaxSessions \in Nat /\ MaxUses \in Nat /\ MaxChanges \in Nat

VARIABLES
    userRows,       \* table user: id -> Stored
    rows,           \* table user_session: hash -> Stored
    users,          \* State::users_by_id
    byName,         \* State::users_by_name
    sessions,       \* State::sessions
    up,             \* the server runs
    adds, born,     \* users added so far; id -> which of them has it
    made,           \* of the sessions in order, which user added each was made for
    loggedOut       \* sessions whose logout was confirmed

tables == <<userRows, rows>>
state == <<users, byName, sessions>>
history == <<adds, born, made, loggedOut>>
vars == <<tables, state, up, history>>

NoHash == "no password"
Keep == "keep"
Hashes == Passwords \cup {NoHash}
Ids == 1..MaxAdds
Sids == 1..MaxSessions

\* A row, and what memory holds of it: the same with the dirty flag.
Users == [name : Names, hash : Hashes, pid : 0..MaxChanges, failures : 0..MaxChanges, disabled : BOOLEAN]
Rows == [uid : Ids, revoked : BOOLEAN, uses : 0..MaxUses]
Cached(row) == [x \in DOMAIN row \cup {"dirty"} |-> IF x = "dirty" THEN FALSE ELSE row[x]]
Stored(entry) == Restrict(entry, DOMAIN entry \ {"dirty"})

With(f, x, value) == [y \in DOMAIN f \cup {x} |-> IF y = x THEN value ELSE f[y]]
Without(f, S) == Restrict(f, DOMAIN f \ S)

Init ==
    /\ userRows = <<>> /\ rows = <<>> /\ users = <<>> /\ byName = <<>> /\ sessions = <<>>
    /\ up = FALSE
    /\ adds = 0 /\ born = <<>> /\ made = <<>> /\ loggedOut = {}

\* State::init: all users, no session.
Start ==
    /\ ~up /\ up' = TRUE
    /\ users' = [id \in DOMAIN userRows |-> Cached(userRows[id])]
    /\ byName' = [n \in {userRows[id].name : id \in DOMAIN userRows} |->
                    CHOOSE id \in DOMAIN userRows : userRows[id].name = n]
    /\ UNCHANGED <<tables, sessions, history>>

Ends == up' = FALSE /\ users' = <<>> /\ byName' = <<>> /\ sessions' = <<>>

Stop == up /\ Ends /\ UNCHANGED <<tables, history>>

-----------------------------------------------------------------------------
\* User::check_password: whether it matches, and the user afterwards.
Matches(u, pwd) == pwd = u.hash
CheckPassword(u, pwd) ==
    IF NoHash \notin {pwd, u.hash} /\ ~Matches(u, pwd)
    THEN [u EXCEPT !.failures = @ + 1, !.dirty = TRUE]
    ELSE u
CanCheck(u, pwd) == CheckPassword(u, pwd).failures <= MaxChanges

\* The id of an integer primary key without autoincrement: used again when the
\* last user was deleted.
NewId == 1 + Max(DOMAIN userRows \cup {0})

AddUser(name, hash) ==
    /\ up /\ adds < MaxAdds /\ \A id \in DOMAIN userRows : userRows[id].name # name
    /\ LET row == [name |-> name, hash |-> hash, pid |-> 0, failures |-> 0, disabled |-> FALSE]
       IN  /\ userRows' = With(userRows, NewId, row)
           /\ users' = With(users, NewId, Cached(row))
    /\ byName' = With(byName, name, NewId)
    /\ adds' = adds + 1 /\ born' = With(born, NewId, adds + 1)
    /\ UNCHANGED <<rows, sessions, up, made, loggedOut>>

(***************************************************************************)
(* State::update_user of a change with a name, a password to set or Keep,  *)
(* and the disabled flag.  A name that another row has fails the           *)
(* statement, before anything changes.                                     *)
(***************************************************************************)
Change(u, name, hash, disabled) ==
    [u EXCEPT !.name = name, !.disabled = disabled,
              !.hash = IF hash = Keep THEN @ ELSE hash,
              !.pid = IF hash = Keep THEN @ ELSE @ + 1,
              !.failures = IF hash = Keep THEN @ ELSE 0]

\* Mutation of Renamed: the old name keeps leading to the user.
RenamedOnly(u, id, name) == With(byName, name, id)

Renamed(u, id, name) == With(Without(byName, {u.name}), name, id)

UpdateUser(id, u, name, hash, disabled) ==
    LET changed == Change(u, name, hash, disabled)
    IN  /\ changed.pid <= MaxChanges
        /\ \A other \in DOMAIN userRows \ {id} : userRows[other].name # name
        /\ userRows' = [userRows EXCEPT ![id] = Stored(changed)]
        /\ users' = [users EXCEPT ![id] = changed]
        /\ byName' = Renamed(u, id, name)

(***************************************************************************)
(* PATCH of a user: an optional precondition on the password, which counts *)
(* a failure whatever becomes of the rest, then the change.  The users     *)
(* dialog of the configuration makes the same changes.                     *)
(***************************************************************************)
PatchUser(id, precondition, name, hash, disabled) ==
    /\ up /\ id \in DOMAIN users
    /\ LET u == IF precondition = Keep THEN users[id] ELSE CheckPassword(users[id], precondition)
       IN  /\ u.failures <= MaxChanges
           /\ IF precondition \in {Keep, users[id].hash}
              THEN UpdateUser(id, u, name, hash, disabled)
              ELSE users' = [users EXCEPT ![id] = u] /\ UNCHANGED <<userRows, byName>>
    /\ UNCHANGED <<rows, sessions, up, history>>

\* Mutation of SessionsWithout: the cache keeps the sessions of a deleted user.
SessionsKept(id) == sessions

SessionsWithout(id) == Without(sessions, {h \in DOMAIN sessions : sessions[h].uid = id})

DeleteUser(id) ==
    /\ up /\ id \in DOMAIN users
    /\ userRows' = Without(userRows, {id})
    /\ rows' = Without(rows, {h \in DOMAIN rows : rows[h].uid = id})
    /\ users' = Without(users, {id})
    /\ byName' = Without(byName, {users[id].name})
    /\ sessions' = SessionsWithout(id)
    /\ UNCHANGED <<up, history>>

-----------------------------------------------------------------------------
\* make_session_int.
NewSession(id) ==
    /\ Len(made) < MaxSessions
    /\ LET h == Len(made) + 1
           row == [uid |-> id, revoked |-> FALSE, uses |-> 0]
       IN  /\ rows' = With(rows, h, row)
           /\ sessions' = IF up THEN With(sessions, h, Cached(row)) ELSE sessions
           /\ made' = Append(made, born[id])

\* POST /api/login, login_by_password.
Login(name, pwd) ==
    /\ up /\ name \in DOMAIN byName
    /\ LET id == byName[name]
           u == users[id]
       IN  /\ ~u.disabled /\ CanCheck(u, pwd)
           /\ users' = [users EXCEPT ![id] = CheckPassword(u, pwd)]
           /\ IF Matches(u, pwd) THEN NewSession(id) ELSE UNCHANGED <<rows, sessions, made>>
    /\ UNCHANGED <<userRows, byName, up, adds, born, loggedOut>>

\* moonfire-nvr login, which needs the database to itself.
CommandLogin(id) ==
    /\ ~up /\ id \in DOMAIN userRows /\ ~userRows[id].disabled
    /\ NewSession(id)
    /\ UNCHANGED <<userRows, users, byName, up, adds, born, loggedOut>>

\* lookup_session on a miss.
Known(h) == h \in DOMAIN sessions \cup DOMAIN rows
LookupSession(h) == IF h \in DOMAIN sessions THEN sessions[h] ELSE Cached(rows[h])

\* authenticate_session: the cached session afterwards, also when it is refused.
Refused(s) == s.revoked
UseOf(s) == IF Refused(s) THEN s ELSE [s EXCEPT !.uses = @ + 1, !.dirty = TRUE]
Used(h) == UseOf(LookupSession(h))
Authenticates(h) == Known(h) /\ LET s == LookupSession(h) IN ~Refused(s) /\ ~users[s.uid].disabled

Authenticate(h) ==
    /\ up /\ Known(h) /\ Used(h).uses <= MaxUses
    /\ sessions' = With(sessions, h, Used(h))
    /\ UNCHANGED <<tables, users, byName, up, history>>

\* POST /api/logout: authenticate_session, then revoke_session, which writes
\* the row at once.
\* Mutation of RevokedRow: the row is left to the next flush, which does not write it.
RevokedLazily(row) == row

RevokedRow(row) == [row EXCEPT !.revoked = TRUE]

Logout(h) ==
    /\ up /\ Authenticates(h) /\ Used(h).uses <= MaxUses
    /\ rows' = [rows EXCEPT ![h] = RevokedRow(@)]
    /\ sessions' = With(sessions, h, [Used(h) EXCEPT !.revoked = TRUE])
    /\ loggedOut' = loggedOut \cup {h}
    /\ UNCHANGED <<userRows, users, byName, up, adds, born, made>>

-----------------------------------------------------------------------------
(***************************************************************************)
(* auth::State::flush in the transaction of LockedDatabase::flush, and     *)
(* post_flush when it is committed; a failed transaction changes nothing.  *)
(* The log line of a dirty user unwraps its password hash.                 *)
(***************************************************************************)
Dirty(f) == {x \in DOMAIN f : f[x].dirty}
Loggable == \A id \in Dirty(users) : users[id].hash # NoHash

FlushedUser(id) ==
    [userRows[id] EXCEPT !.failures = users[id].failures, !.hash = users[id].hash]
FlushedSession(h) == [rows[h] EXCEPT !.uses = sessions[h].uses]
Clean(f) == [x \in DOMAIN f |-> [f[x] EXCEPT !.dirty = FALSE]]

Flush ==
    /\ up /\ Loggable
    /\ userRows' = [id \in DOMAIN userRows |->
                       IF id \in Dirty(users) THEN FlushedUser(id) ELSE userRows[id]]
    /\ rows' = [h \in DOMAIN rows |->
                   IF h \in Dirty(sessions) THEN FlushedSession(h) ELSE rows[h]]
    /\ users' = Clean(users) /\ sessions' = Clean(sessions)
    /\ UNCHANGED <<byName, up, history>>

\* The release build aborts; SQLite rolls the transaction back.
FlushPanics ==
    /\ up /\ ~Loggable /\ Ends
    /\ UNCHANGED <<tables, history>>

-----------------------------------------------------------------------------
UserCall ==
    \/ \E name \in Names, hash \in Hashes : AddUser(name, hash)
    \/ \E id \in Ids, precondition, hash \in Hashes \cup {Keep}, name \in Names, disabled \in BOOLEAN :
          PatchUser(id, precondition, name, hash, disabled)
    \/ \E id \in Ids : DeleteUser(id)
SessionCall ==
    \/ \E name \in Names, pwd \in Passwords : Login(name, pwd)
    \/ \E id \in Ids : CommandLogin(id)
    \/ \E h \in Sids : Authenticate(h) \/ Logout(h)

Next == Start \/ Stop \/ UserCall \/ SessionCall \/ Flush \/ FlushPanics

Spec == Init /\ [][Next]_vars

-----------------------------------------------------------------------------
(***************************************************************************)
(* Memory answers for the tables: it has every user, found under its       *)
(* present name and no other, and differs from a row only in the counter   *)
(* that a flush is still to write, of an entry marked dirty.               *)
(***************************************************************************)
Mirrors(entry, row, lazy) ==
    \A x \in DOMAIN row : entry[x] = row[x] \/ (x = lazy /\ entry.dirty)

MemoryMirrorsTables ==
    up => /\ DOMAIN users = DOMAIN userRows
          /\ byName = [n \in {users[id].name : id \in DOMAIN users} |->
                         CHOOSE id \in DOMAIN users : users[id].name = n]
          /\ \A id \in DOMAIN users : Mirrors(users[id], userRows[id], "failures")
          /\ DOMAIN sessions \subseteq DOMAIN rows
          /\ \A h \in DOMAIN sessions : Mirrors(sessions[h], rows[h], "uses")

(***************************************************************************)
(* A session authenticates the user it was made for, or nobody: not the    *)
(* one who was given the id of a deleted user.                             *)
(***************************************************************************)
SessionsKeepTheirUser ==
    /\ \A h \in DOMAIN rows : rows[h].uid \in DOMAIN userRows /\ born[rows[h].uid] = made[h]
    /\ \A h \in DOMAIN sessions : sessions[h].uid \in DOMAIN users /\ born[sessions[h].uid] = made[h]

(***************************************************************************)
(* A session that was logged out never authenticates again, whatever is    *)
(* flushed, looked up or restarted afterwards.                             *)
(***************************************************************************)
LoggedOutStaysOut ==
    \A h \in loggedOut : h \in DOMAIN rows => rows[h].revoked /\ (up => ~Authenticates(h))

=============================================================================
